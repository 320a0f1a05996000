\* An LDAP search fails after another one has succeeded.
SPECIFICATION Spec
CONSTANTS
  Messages <- SomeMessages
  Configs <- FewEntries
  Directories <- SomeDirectories
  MostRecipients = 3
  Faults = {"laterSearch"}
INVARIANT NothingFreedTwice
