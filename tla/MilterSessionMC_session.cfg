\* Three modules, two messages, every way a module may fail.
SPECIFICATION Spec
CONSTANTS
  Modules <- ThreeModules
  MaxMsgs = 2
  Failures = {"noPriv", "noBuffer", "noFile", "noWrite"}
INVARIANTS
  TypeOK
  OneReference
  CleanBetweenMessages
  VerdictTruthful
PROPERTY ArchivedAsSent
