\* Three entries, two of them the same address; a message larger than the pipe; bodies
\* of up to four characters in every division into chunks; two attempts.
SPECIFICATION FairSpec
CONSTANTS
  a1 = a1
  a2 = a2
  Saveaddr <- AddressTwice
  Buffers = 3
  PipeRoom = 2
  MaxBody = 4
  Faults = {"mkstemp", "write", "fopen", "pipe", "fork"}
  MaxAttempts = 2
INVARIANTS
  TypeOK
  BodyConverted
  WholeMessages
  EveryoneServed
  SecondCopyExplained
  NothingLeft
PROPERTY DeliveryEnds
