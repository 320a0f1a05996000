\* A module cannot open its temporary file.
SPECIFICATION Spec
CONSTANTS
  Modules <- TwoModules
  MaxMsgs = 1
  Failures = {"noPriv", "noBuffer", "noFile", "noWrite"}
INVARIANT NoDangling
