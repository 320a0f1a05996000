\* Every policy, five lists of addresses, with and without LDAP.
SPECIFICATION Spec
CONSTANTS
  Messages <- SomeMessages
  Configs <- EveryEntry
  Directories <- SomeDirectories
  MostRecipients = 3
  Faults = {"connect", "firstSearch"}
INVARIANTS
  TypeOK
  SavesWhatIsWanted
  AllGivenBack
