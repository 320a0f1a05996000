------------------------ MODULE MilterSession_proofs ------------------------
(***************************************************************************)
(* Proofs about MilterSession, for every list of modules, any number of    *)
(* messages and every set of ways in which a module may fail.              *)
(***************************************************************************)
EXTENDS MilterSession, TLAPS

-----------------------------------------------------------------------------
(* The inductive invariant.                                                *)

Started == phase \in {"mail", "header", "body"}

(* Where libmilter is when a loop runs, and when it does not.              *)
Phases ==
  /\ Started \/ phase = "over" => msg # NoMsg
  /\ at = "abort" => Started \/ phase = "over"
  /\ at = "eom" => Started
  /\ at \in {"header", "body"} => phase = at

(* All addresses are of the message on the wire, and there are none        *)
(* before and after it.                                                    *)
Envelope ==
  /\ Started => from = msg
  /\ ~Started => from = NoMsg /\ rcptto = {} /\ ~headerExistence
  /\ rcptto \subseteq {msg}
  /\ phase \in {"header", "body"} => rcptto = {msg}
  /\ ~headerExistence => matched = {}
  /\ headerExistence /\ at # "abort" => matched = {msg}
  /\ phase = "mail" /\ at # "abort" => ~headerExistence
  /\ phase = "header" => headerExistence

(* What is in the temporary files.                                         *)
Files ==
  \A m \in ModuleNames :
    /\ extra[m] # "open" => file[m] = {}
    /\ extra[m] = "open" /\ at # "abort" => file[m] = {msg}

(* Which modules have one: those the loop has passed (header, body), those *)
(* it has still to pass (eom), none, or all.                               *)
Extras ==
  /\ phase \notin {"header", "body"} => \A m \in ModuleNames : extra[m] = "absent"
  /\ at # "abort" => \A m \in ModuleNames : extra[m] \in {"absent", "open"}
  /\ at = "mta" /\ phase \in {"header", "body"} =>
       \A m \in ModuleNames : extra[m] = "open"
  /\ at \in {"header", "body"} =>
       \A j \in DOMAIN Modules : j < idx => extra[Modules[j]] = "open"
  /\ at = "eom" /\ phase # "mail" =>
       \A j \in DOMAIN Modules : j >= idx => extra[Modules[j]] = "open"
  /\ at \in {"eom", "abort"} =>
       \A j \in DOMAIN Modules : j < idx => extra[Modules[j]] = "absent"

(* Which messages have passed without header and body.                     *)
Empties ==
  /\ \A m \in empty : m <= msg
  /\ phase \in {"header", "body"} => msg \notin empty
  /\ phase = "mail" /\ at = "mta" => msg \notin empty
  /\ phase = "mail" /\ at = "eom" => msg \in empty

(* Every message has its verdict but the one on the wire and those to come.*)
Verdicts ==
  /\ \A m \in Msgs : m < msg \/ (m = msg /\ ~Started) => verdict[m] # "none"
  /\ \A m \in Msgs : m > msg \/ (m = msg /\ Started) => verdict[m] = "none"

(* What is archived of the message on the wire.                            *)
Archives ==
  /\ \A r \in archive : r.message <= msg
  /\ Started /\ at \in {"mta", "header", "body"} => Archived(msg) = {}
  /\ at = "eom" =>
       Archived(msg) = IF phase = "mail" THEN {}
                       ELSE {Modules[j] : j \in 1 .. idx - 1}
  /\ at = "abort" /\ Started =>
       /\ after \in {"accept", "error", "aborted"}
       /\ after = "error" => Archived(msg) # ModuleNames
       /\ after \in {"accept", "aborted"} => Archived(msg) = {}

(* What the verdicts say, VerdictTruthful as implications.                 *)
Truthful ==
  \A m \in Msgs :
    /\ verdict[m] = "continue" =>
         Archived(m) = IF m \in empty THEN {} ELSE ModuleNames
    /\ verdict[m] = "error" => Archived(m) # ModuleNames
    /\ verdict[m] \in {"accept", "aborted"} => Archived(m) = {}
    /\ verdict[m] = "none" => m = msg \/ Archived(m) = {}

Inv ==
  /\ TypeOK /\ OneReference /\ Phases /\ Envelope /\ Files /\ Extras
  /\ Empties /\ Verdicts /\ Archives /\ Truthful

-----------------------------------------------------------------------------
(* The list of modules *)

LEMMA ListFacts ==
  /\ Len(Modules) \in Nat \ {0}
  /\ DOMAIN Modules = 1 .. Len(Modules)
  /\ \A i \in 1 .. Len(Modules) : Modules[i] \in ModuleNames
  /\ \A m \in ModuleNames : \E i \in 1 .. Len(Modules) : m = Modules[i]
  /\ \A i, j \in 1 .. Len(Modules) : Modules[i] = Modules[j] => i = j
<1>1. DOMAIN Modules = 1 .. Len(Modules) /\ Len(Modules) \in Nat \ {0}
  BY ModulesAssumption
<1> QED
  BY <1>1, ModulesAssumption DEF ModuleNames

(* Message numbers, and positions in the list of modules.                  *)
LEMMA NumberFacts ==
  /\ NoMsg \notin Msgs /\ Msgs \subseteq Nat /\ NoMsg = 0
  /\ \A m \in Msgs \cup {NoMsg} : m < MaxMsgs => m + 1 \in Msgs
  /\ 1 \in 1 .. Len(Modules) + 1
  /\ \A i \in 1 .. Len(Modules) : i + 1 \in 1 .. Len(Modules) + 1
BY ListFacts, BoundsAssumption DEF Msgs, NoMsg

(* The module a loop is at.                                                *)
LEMMA CurrentFacts ==
  ASSUME NEW names, TypeOK, InLoop(names)
  PROVE  /\ idx \in 1 .. Len(Modules)
         /\ idx + 1 \in 1 .. Len(Modules) + 1
         /\ OK /\ at \in names
         /\ Current \in ModuleNames
         /\ \A j \in DOMAIN Modules : j # idx => Modules[j] # Current
<1>1. idx \in 1 .. Len(Modules)
  BY ListFacts DEF TypeOK, InLoop
<1> QED
  BY <1>1, ListFacts DEF Current, InLoop

(* What a step may be, action by action.                                   *)
LEMMA StepCases ==
  ASSUME [Next]_vars
  PROVE  \/ Connect \/ ConnectFails \/ Close \/ EnvFrom \/ EnvRcpt
         \/ HeaderIgnored \/ SavelistFailsOrEmpty \/ FirstHeader
         \/ LaterHeader \/ Body \/ Eom \/ MtaAborts \/ ModuleWrites
         \/ ModuleFails \/ LoopReturns \/ ModuleCloses \/ ModuleHasNothing
         \/ ModuleCloseFails \/ EomReturns \/ ModuleAborts
         \/ ModuleAbortsDangling \/ AbortReturns \/ ProcessExits
         \/ UNCHANGED vars
BY DEF Next, Callback, ModuleStep, Stopped

-----------------------------------------------------------------------------
(* Initially *)

LEMMA TypeInit == Init => TypeOK
<1> SUFFICES ASSUME Init PROVE TypeOK
  OBVIOUS
<1> USE DEF Init
<1>1. extra \in [ModuleNames -> {"absent", "null", "freed", "open"}]
  OBVIOUS
<1>2. file \in [ModuleNames -> SUBSET Msgs]
  OBVIOUS
<1>3. verdict \in [Msgs -> {"none", "continue", "accept", "error", "aborted"}]
  OBVIOUS
<1>4. msg \in Msgs \cup {NoMsg} /\ idx \in 1 .. Len(Modules) + 1
  BY NumberFacts
<1> QED
  BY <1>1, <1>2, <1>3, <1>4 DEF TypeOK

LEMMA InvInit == Init => Inv
<1> SUFFICES ASSUME Init PROVE Inv
  OBVIOUS
<1> USE ListFacts, BoundsAssumption DEF Init, NoMsg, Msgs
<1>1. TypeOK
  BY TypeInit
<1>2. OneReference /\ Phases /\ Envelope
  BY DEF OneReference, Phases, Envelope, Started
<1>3. Files /\ Extras /\ Empties /\ Verdicts
  BY DEF Files, Extras, Empties, Verdicts, Started
<1>4. Archives
  BY DEF Archives, Archived, Started
<1>5. Truthful
  BY DEF Truthful, Archived
<1> QED
  BY <1>1, <1>2, <1>3, <1>4, <1>5 DEF Inv

-----------------------------------------------------------------------------
(* Types *)

LEMMA TypeStep ==
  ASSUME TypeOK, OneReference, Phases, Envelope, [Next]_vars
  PROVE  TypeOK'
<1> USE NumberFacts
    DEF TypeOK, Idle, OK, AtHeader, NoHeader, StartLoop, StartAbort,
        Answer, EomCleanup, Forget, envelope, loop, store, world
<1>1. CASE Connect
  BY <1>1 DEF Connect
<1>2. CASE ConnectFails
  BY <1>2 DEF ConnectFails
<1>3. CASE Close
  <2>1. refs' \in Nat
    <3>1. CASE hasPriv
      BY <1>3, <3>1 DEF Close, OneReference
    <3>2. CASE ~hasPriv
      BY <1>3, <3>2 DEF Close
    <3> QED
      BY <3>1, <3>2
  <2> QED
    BY <1>3, <2>1 DEF Close
<1>4. CASE EnvFrom
  BY <1>4 DEF EnvFrom
<1>5. CASE EnvRcpt
  BY <1>5 DEF EnvRcpt, Phases, Started
<1>6. CASE HeaderIgnored
  BY <1>6 DEF HeaderIgnored
<1>7. CASE SavelistFailsOrEmpty
  BY <1>7 DEF SavelistFailsOrEmpty
<1>8. CASE FirstHeader
  <2>1. matched' \subseteq Msgs
    BY <1>8 DEF FirstHeader, Phases, Envelope, Started
  <2> QED
    BY <1>8, <2>1 DEF FirstHeader
<1>9. CASE LaterHeader
  BY <1>9 DEF LaterHeader
<1>10. CASE Body
  BY <1>10 DEF Body
<1>11. CASE Eom
  <2>1. empty' \subseteq Msgs
    BY <1>11 DEF Eom, Phases, Started
  <2> QED
    BY <1>11, <2>1 DEF Eom
<1>12. CASE MtaAborts
  BY <1>12 DEF MtaAborts
<1>13. CASE ModuleWrites
  <2>1. Current \in ModuleNames /\ idx' \in 1 .. Len(Modules) + 1
    BY <1>13, CurrentFacts DEF ModuleWrites
  <2>2. msg \in Msgs
    BY <1>13 DEF ModuleWrites, InLoop, Phases, Started
  <2> QED
    BY <1>13, <2>1, <2>2 DEF ModuleWrites
<1>14. CASE ModuleFails
  <2>1. Current \in ModuleNames
    BY <1>14, CurrentFacts DEF ModuleFails
  <2>2. extra' \in [ModuleNames -> {"absent", "null", "freed", "open"}]
    BY <1>14, <2>1, BoundsAssumption DEF ModuleFails, Left
  <2> QED
    BY <1>14, <2>2 DEF ModuleFails
<1>15. CASE LoopReturns
  BY <1>15 DEF LoopReturns
<1>16. CASE ModuleCloses
  <2>1. Current \in ModuleNames /\ idx' \in 1 .. Len(Modules) + 1
    BY <1>16, CurrentFacts DEF ModuleCloses
  <2>2. msg \in Msgs
    BY <1>16 DEF ModuleCloses, InLoop, Phases, Started
  <2>3. archive' \subseteq [module : ModuleNames, message : Msgs,
                           content : SUBSET Msgs, addrs : SUBSET Msgs]
    <3> DEFINE r == [module |-> Current, message |-> msg,
                     content |-> file[Current], addrs |-> matched]
    <3>1. r \in [module : ModuleNames, message : Msgs,
                content : SUBSET Msgs, addrs : SUBSET Msgs]
      BY <2>1, <2>2
    <3>2. archive' = archive \cup {r}
      BY <1>16 DEF ModuleCloses
    <3> QED
      BY <3>1, <3>2
  <2> QED
    BY <1>16, <2>1, <2>3 DEF ModuleCloses
<1>17. CASE ModuleHasNothing
  <2>1. idx' \in 1 .. Len(Modules) + 1
    BY <1>17, CurrentFacts DEF ModuleHasNothing
  <2> QED
    BY <1>17, <2>1 DEF ModuleHasNothing
<1>18. CASE ModuleCloseFails
  BY <1>18 DEF ModuleCloseFails
<1>19. CASE EomReturns
  BY <1>19 DEF EomReturns
<1>20. CASE ModuleAborts
  <2>1. Current \in ModuleNames /\ idx' \in 1 .. Len(Modules) + 1
    BY <1>20, CurrentFacts DEF ModuleAborts
  <2> QED
    BY <1>20, <2>1 DEF ModuleAborts
<1>21. CASE ModuleAbortsDangling
  BY <1>21 DEF ModuleAbortsDangling
<1>22. CASE AbortReturns
  BY <1>22 DEF AbortReturns
<1>23. CASE ProcessExits
  BY <1>23 DEF ProcessExits
<1>24. CASE UNCHANGED vars
  BY <1>24 DEF vars
<1> QED
  BY <1>1, <1>2, <1>3, <1>4, <1>5, <1>6, <1>7, <1>8, <1>9, <1>10, <1>11,
     <1>12, <1>13, <1>14, <1>15, <1>16, <1>17, <1>18, <1>19, <1>20, <1>21,
     <1>22, <1>23, <1>24, StepCases


-----------------------------------------------------------------------------
(* The dialogue, the reference, the addresses *)

LEMMA PhasesStep ==
  ASSUME TypeOK, Phases, [Next]_vars
  PROVE  Phases'
<1> USE NumberFacts
    DEF TypeOK, Phases, Started, Idle, AtHeader, NoHeader, InLoop, StartLoop,
        StartAbort, Answer, EomCleanup, Forget, envelope, loop, store, world
<1>1. CASE Connect
  BY <1>1 DEF Connect
<1>2. CASE ConnectFails
  BY <1>2 DEF ConnectFails
<1>3. CASE Close
  BY <1>3 DEF Close
<1>4. CASE EnvFrom
  BY <1>4 DEF EnvFrom
<1>5. CASE EnvRcpt
  BY <1>5 DEF EnvRcpt
<1>6. CASE HeaderIgnored
  BY <1>6 DEF HeaderIgnored
<1>7. CASE SavelistFailsOrEmpty
  BY <1>7 DEF SavelistFailsOrEmpty
<1>8. CASE FirstHeader
  BY <1>8 DEF FirstHeader
<1>9. CASE LaterHeader
  BY <1>9 DEF LaterHeader
<1>10. CASE Body
  BY <1>10 DEF Body
<1>11. CASE Eom
  BY <1>11 DEF Eom
<1>12. CASE MtaAborts
  BY <1>12 DEF MtaAborts
<1>13. CASE ModuleWrites
  BY <1>13 DEF ModuleWrites
<1>14. CASE ModuleFails
  BY <1>14 DEF ModuleFails
<1>15. CASE LoopReturns
  BY <1>15 DEF LoopReturns
<1>16. CASE ModuleCloses
  BY <1>16 DEF ModuleCloses
<1>17. CASE ModuleHasNothing
  BY <1>17 DEF ModuleHasNothing
<1>18. CASE ModuleCloseFails
  BY <1>18 DEF ModuleCloseFails
<1>19. CASE EomReturns
  BY <1>19 DEF EomReturns
<1>20. CASE ModuleAborts
  BY <1>20 DEF ModuleAborts
<1>21. CASE ModuleAbortsDangling
  BY <1>21 DEF ModuleAbortsDangling
<1>22. CASE AbortReturns
  BY <1>22 DEF AbortReturns
<1>23. CASE ProcessExits
  BY <1>23 DEF ProcessExits
<1>24. CASE UNCHANGED vars
  BY <1>24 DEF vars
<1> QED
  BY <1>1, <1>2, <1>3, <1>4, <1>5, <1>6, <1>7, <1>8, <1>9, <1>10, <1>11,
     <1>12, <1>13, <1>14, <1>15, <1>16, <1>17, <1>18, <1>19, <1>20, <1>21,
     <1>22, <1>23, <1>24, StepCases


LEMMA OneReferenceStep ==
  ASSUME TypeOK, Phases, OneReference, [Next]_vars
  PROVE  OneReference'
<1> USE DEF TypeOK, OneReference, Phases, Started, Idle, AtHeader, NoHeader,
            InLoop, StartLoop, StartAbort, Answer, EomCleanup, Forget,
            envelope, loop, store, world
<1>1. CASE Connect
  BY <1>1 DEF Connect
<1>2. CASE ConnectFails
  BY <1>2 DEF ConnectFails
<1>3. CASE Close
  BY <1>3 DEF Close
<1>4. CASE EnvFrom
  BY <1>4 DEF EnvFrom
<1>5. CASE EnvRcpt
  BY <1>5 DEF EnvRcpt
<1>6. CASE HeaderIgnored
  BY <1>6 DEF HeaderIgnored
<1>7. CASE SavelistFailsOrEmpty
  BY <1>7 DEF SavelistFailsOrEmpty
<1>8. CASE FirstHeader
  BY <1>8 DEF FirstHeader
<1>9. CASE LaterHeader
  BY <1>9 DEF LaterHeader
<1>10. CASE Body
  BY <1>10 DEF Body
<1>11. CASE Eom
  BY <1>11 DEF Eom
<1>12. CASE MtaAborts
  BY <1>12 DEF MtaAborts
<1>13. CASE ModuleWrites
  BY <1>13 DEF ModuleWrites
<1>14. CASE ModuleFails
  BY <1>14 DEF ModuleFails
<1>15. CASE LoopReturns
  BY <1>15 DEF LoopReturns
<1>16. CASE ModuleCloses
  BY <1>16 DEF ModuleCloses
<1>17. CASE ModuleHasNothing
  BY <1>17 DEF ModuleHasNothing
<1>18. CASE ModuleCloseFails
  BY <1>18 DEF ModuleCloseFails
<1>19. CASE EomReturns
  BY <1>19 DEF EomReturns
<1>20. CASE ModuleAborts
  BY <1>20 DEF ModuleAborts
<1>21. CASE ModuleAbortsDangling
  BY <1>21 DEF ModuleAbortsDangling
<1>22. CASE AbortReturns
  BY <1>22 DEF AbortReturns
<1>23. CASE ProcessExits
  BY <1>23 DEF ProcessExits
<1>24. CASE UNCHANGED vars
  BY <1>24 DEF vars
<1> QED
  BY <1>1, <1>2, <1>3, <1>4, <1>5, <1>6, <1>7, <1>8, <1>9, <1>10, <1>11,
     <1>12, <1>13, <1>14, <1>15, <1>16, <1>17, <1>18, <1>19, <1>20, <1>21,
     <1>22, <1>23, <1>24, StepCases


(* Once there is a recipient, all addresses are those of the message.      *)
LEMMA AddressesAreOfMessage ==
  ASSUME Envelope, Started, rcptto # {}
  PROVE  from = msg /\ rcptto = {msg}
<1>1. from = msg /\ rcptto \subseteq {msg}
  BY DEF Envelope
<1> QED
  BY <1>1

LEMMA EnvelopeStep ==
  ASSUME TypeOK, Phases, Envelope, [Next]_vars
  PROVE  Envelope'
<1> USE NumberFacts
    DEF TypeOK, Phases, Envelope, Started, Idle, AtHeader, NoHeader, InLoop,
        StartLoop, StartAbort, Answer, EomCleanup, Forget, envelope, loop,
        store, world
<1>1. CASE Connect
  BY <1>1 DEF Connect
<1>2. CASE ConnectFails
  BY <1>2 DEF ConnectFails
<1>3. CASE Close
  BY <1>3 DEF Close
<1>4. CASE EnvFrom
  BY <1>4 DEF EnvFrom
<1>5. CASE EnvRcpt
  BY <1>5 DEF EnvRcpt
<1>6. CASE HeaderIgnored
  BY <1>6 DEF HeaderIgnored
<1>7. CASE SavelistFailsOrEmpty
  BY <1>7 DEF SavelistFailsOrEmpty
<1>8. CASE FirstHeader
  <2>0. Envelope /\ Started /\ rcptto # {}
    BY <1>8 DEF FirstHeader
  <2>1. from = msg /\ rcptto = {msg}
    BY <2>0, AddressesAreOfMessage
  <2>2. matched' = {msg}
    BY <1>8, <2>1 DEF FirstHeader
  <2> QED
    BY <1>8, <2>1, <2>2 DEF FirstHeader
<1>9. CASE LaterHeader
  BY <1>9 DEF LaterHeader
<1>10. CASE Body
  <2>0. Started /\ rcptto # {}
    BY <1>10 DEF Body
  <2>1. rcptto = {msg} /\ from = msg
    BY <2>0, AddressesAreOfMessage
  <2> QED
    BY <1>10, <2>1 DEF Body
<1>11. CASE Eom
  BY <1>11 DEF Eom
<1>12. CASE MtaAborts
  BY <1>12 DEF MtaAborts
<1>13. CASE ModuleWrites
  BY <1>13 DEF ModuleWrites
<1>14. CASE ModuleFails
  BY <1>14 DEF ModuleFails
<1>15. CASE LoopReturns
  BY <1>15 DEF LoopReturns
<1>16. CASE ModuleCloses
  BY <1>16 DEF ModuleCloses
<1>17. CASE ModuleHasNothing
  BY <1>17 DEF ModuleHasNothing
<1>18. CASE ModuleCloseFails
  BY <1>18 DEF ModuleCloseFails
<1>19. CASE EomReturns
  BY <1>19 DEF EomReturns
<1>20. CASE ModuleAborts
  BY <1>20 DEF ModuleAborts
<1>21. CASE ModuleAbortsDangling
  BY <1>21 DEF ModuleAbortsDangling
<1>22. CASE AbortReturns
  BY <1>22 DEF AbortReturns
<1>23. CASE ProcessExits
  BY <1>23 DEF ProcessExits
<1>24. CASE UNCHANGED vars
  BY <1>24 DEF vars
<1> QED
  BY <1>1, <1>2, <1>3, <1>4, <1>5, <1>6, <1>7, <1>8, <1>9, <1>10, <1>11,
     <1>12, <1>13, <1>14, <1>15, <1>16, <1>17, <1>18, <1>19, <1>20, <1>21,
     <1>22, <1>23, <1>24, StepCases


-----------------------------------------------------------------------------
(* The temporary files *)

LEMMA FilesStep ==
  ASSUME TypeOK, Phases, Files, Extras, [Next]_vars
  PROVE  Files'
<1> USE DEF TypeOK, Phases, Files, Extras, Started, Idle, AtHeader, NoHeader,
            InLoop, StartLoop, StartAbort, Answer, EomCleanup, Forget,
            envelope, loop, store, world
<1>1. CASE Connect
  BY <1>1 DEF Connect
<1>2. CASE ConnectFails
  BY <1>2 DEF ConnectFails
<1>3. CASE Close
  BY <1>3 DEF Close
<1>4. CASE EnvFrom
  BY <1>4 DEF EnvFrom
<1>5. CASE EnvRcpt
  BY <1>5 DEF EnvRcpt
<1>6. CASE HeaderIgnored
  BY <1>6 DEF HeaderIgnored
<1>7. CASE SavelistFailsOrEmpty
  BY <1>7 DEF SavelistFailsOrEmpty
<1>8. CASE FirstHeader
  BY <1>8 DEF FirstHeader
<1>9. CASE LaterHeader
  BY <1>9 DEF LaterHeader
<1>10. CASE Body
  BY <1>10 DEF Body
<1>11. CASE Eom
  BY <1>11 DEF Eom
<1>12. CASE MtaAborts
  BY <1>12 DEF MtaAborts
<1>13. CASE ModuleWrites
  BY <1>13 DEF ModuleWrites
<1>14. CASE ModuleFails
  <2>1. Current \in ModuleNames
    BY <1>14, CurrentFacts DEF ModuleFails
  <2>2. PICK kind \in Failures :
          /\ kind = "noWrite" \/ extra[Current] = "absent"
          /\ extra' = [extra EXCEPT ![Current] = Left(kind)]
    BY <1>14 DEF ModuleFails
  <2>3. file' = file /\ at' = "abort"
    BY <1>14 DEF ModuleFails
  <2>4. kind = "noWrite" => Left(kind) = "open"
    BY DEF Left
  <2> QED
    BY <2>1, <2>2, <2>3, <2>4
<1>15. CASE LoopReturns
  BY <1>15 DEF LoopReturns
<1>16. CASE ModuleCloses
  BY <1>16 DEF ModuleCloses
<1>17. CASE ModuleHasNothing
  BY <1>17 DEF ModuleHasNothing
<1>18. CASE ModuleCloseFails
  BY <1>18 DEF ModuleCloseFails
<1>19. CASE EomReturns
  BY <1>19 DEF EomReturns
<1>20. CASE ModuleAborts
  BY <1>20 DEF ModuleAborts
<1>21. CASE ModuleAbortsDangling
  BY <1>21 DEF ModuleAbortsDangling
<1>22. CASE AbortReturns
  <2>1. \A m \in ModuleNames : extra[m] = "absent"
    BY <1>22, ListFacts DEF AbortReturns, Extras
  <2> QED
    BY <1>22, <2>1 DEF AbortReturns
<1>23. CASE ProcessExits
  BY <1>23 DEF ProcessExits
<1>24. CASE UNCHANGED vars
  BY <1>24 DEF vars
<1> QED
  BY <1>1, <1>2, <1>3, <1>4, <1>5, <1>6, <1>7, <1>8, <1>9, <1>10, <1>11,
     <1>12, <1>13, <1>14, <1>15, <1>16, <1>17, <1>18, <1>19, <1>20, <1>21,
     <1>22, <1>23, <1>24, StepCases


LEMMA ExtrasStep ==
  ASSUME TypeOK, Phases, Extras, [Next]_vars
  PROVE  Extras'
<1> USE ListFacts
    DEF TypeOK, Phases, Extras, Started, Idle, AtHeader, NoHeader,
            InLoop, StartLoop, StartAbort, Answer, EomCleanup, Forget,
            envelope, loop, store, world
<1>1. CASE Connect
  BY <1>1 DEF Connect
<1>2. CASE ConnectFails
  BY <1>2 DEF ConnectFails
<1>3. CASE Close
  BY <1>3 DEF Close
<1>4. CASE EnvFrom
  BY <1>4 DEF EnvFrom
<1>5. CASE EnvRcpt
  BY <1>5 DEF EnvRcpt
<1>6. CASE HeaderIgnored
  BY <1>6 DEF HeaderIgnored
<1>7. CASE SavelistFailsOrEmpty
  BY <1>7 DEF SavelistFailsOrEmpty
<1>8. CASE FirstHeader
  BY <1>8 DEF FirstHeader
<1>9. CASE LaterHeader
  BY <1>9 DEF LaterHeader
<1>10. CASE Body
  BY <1>10 DEF Body
<1>11. CASE Eom
  BY <1>11 DEF Eom
<1>12. CASE MtaAborts
  BY <1>12 DEF MtaAborts
<1>13. CASE ModuleWrites
  <2>1. /\ Current \in ModuleNames /\ idx \in 1 .. Len(Modules)
        /\ \A j \in 1 .. Len(Modules) : j # idx => Modules[j] # Current
        /\ Modules[idx] = Current
    BY <1>13, CurrentFacts DEF ModuleWrites, Current
  <2>2. extra' = [extra EXCEPT ![Current] = "open"] /\ idx' = idx + 1
    BY <1>13 DEF ModuleWrites
  <2>3. phase' = phase /\ at' = at /\ phase = at /\ at \in {"header", "body"}
    BY <1>13 DEF ModuleWrites
  <2>4. \A m \in ModuleNames : extra'[m] \in {"absent", "open"}
    BY <2>1, <2>2, <2>3
  <2>5. \A j \in 1 .. Len(Modules) : j < idx' => extra'[Modules[j]] = "open"
    BY <2>1, <2>2, <2>3, SMTT(20)
  <2> QED
    BY <2>3, <2>4, <2>5
<1>14. CASE ModuleFails
  BY <1>14 DEF ModuleFails
<1>15. CASE LoopReturns
  BY <1>15 DEF LoopReturns
<1>16. CASE ModuleCloses
  <2>1. /\ Current \in ModuleNames /\ idx \in 1 .. Len(Modules)
        /\ \A j \in 1 .. Len(Modules) : j # idx => Modules[j] # Current
        /\ Modules[idx] = Current
    BY <1>16, CurrentFacts DEF ModuleCloses, Current
  <2>2. extra' = [extra EXCEPT ![Current] = "absent"] /\ idx' = idx + 1
    BY <1>16 DEF ModuleCloses
  <2>3. phase' = phase /\ at' = at /\ at = "eom" /\ extra[Current] = "open"
    BY <1>16 DEF ModuleCloses
  <2>4. \A m \in ModuleNames : extra'[m] \in {"absent", "open"}
    BY <2>1, <2>2, <2>3
  <2>5. \A j \in 1 .. Len(Modules) : j < idx' => extra'[Modules[j]] = "absent"
    BY <2>1, <2>2, <2>3
  <2>6. phase \in {"header", "body"}
    BY <2>1, <2>3
  <2>7. \A j \in 1 .. Len(Modules) : j >= idx' => extra'[Modules[j]] = "open"
    BY <2>1, <2>2, <2>3, <2>6
  <2> QED
    BY <2>3, <2>4, <2>5, <2>6, <2>7
<1>17. CASE ModuleHasNothing
  <2>1. /\ Current \in ModuleNames /\ idx \in 1 .. Len(Modules)
        /\ \A j \in 1 .. Len(Modules) : j # idx => Modules[j] # Current
        /\ Modules[idx] = Current
    BY <1>17, CurrentFacts DEF ModuleHasNothing, Current
  <2>2. idx' = idx + 1 /\ at \in {"eom", "abort"} /\ extra[Current] = "absent"
    BY <1>17 DEF ModuleHasNothing
  <2>3. phase' = phase /\ at' = at /\ extra' = extra
    BY <1>17 DEF ModuleHasNothing
  <2>4. \A j \in 1 .. Len(Modules) : j < idx' => extra'[Modules[j]] = "absent"
    BY <2>1, <2>2, <2>3
  <2>5. at = "eom" => phase = "mail"
    BY <2>1, <2>2
  <2> QED
    BY <2>2, <2>3, <2>4, <2>5
<1>18. CASE ModuleCloseFails
  BY <1>18 DEF ModuleCloseFails
<1>19. CASE EomReturns
  BY <1>19 DEF EomReturns
<1>20. CASE ModuleAborts
  <2>1. /\ Current \in ModuleNames /\ idx \in 1 .. Len(Modules)
        /\ \A j \in 1 .. Len(Modules) : j # idx => Modules[j] # Current
        /\ Modules[idx] = Current
    BY <1>20, CurrentFacts DEF ModuleAborts, Current
  <2>2. extra' = [extra EXCEPT ![Current] = "absent"] /\ idx' = idx + 1
    BY <1>20 DEF ModuleAborts
  <2>3. phase' = phase /\ at' = at /\ at = "abort"
    BY <1>20 DEF ModuleAborts
  <2>4. \A j \in 1 .. Len(Modules) : j < idx' => extra'[Modules[j]] = "absent"
    <3> SUFFICES ASSUME NEW j \in 1 .. Len(Modules), j < idx'
                 PROVE  extra'[Modules[j]] = "absent"
      OBVIOUS
    <3>1. j = idx \/ (j < idx /\ Modules[j] \in ModuleNames)
      BY <2>1, <2>2
    <3>2. j < idx => extra[Modules[j]] = "absent"
      BY <2>3
    <3> QED
      BY <3>1, <3>2, <2>1, <2>2
  <2>5. phase \notin {"header", "body"} =>
          \A m \in ModuleNames : extra'[m] = "absent"
    BY <2>1, <2>2, <2>3
  <2> QED
    BY <2>3, <2>4, <2>5
<1>21. CASE ModuleAbortsDangling
  BY <1>21 DEF ModuleAbortsDangling
<1>22. CASE AbortReturns
  <2>1. \A m \in ModuleNames : extra[m] = "absent"
    BY <1>22, ListFacts DEF AbortReturns, Extras
  <2> QED
    BY <1>22, <2>1 DEF AbortReturns
<1>23. CASE ProcessExits
  BY <1>23 DEF ProcessExits
<1>24. CASE UNCHANGED vars
  BY <1>24 DEF vars
<1> QED
  BY <1>1, <1>2, <1>3, <1>4, <1>5, <1>6, <1>7, <1>8, <1>9, <1>10, <1>11,
     <1>12, <1>13, <1>14, <1>15, <1>16, <1>17, <1>18, <1>19, <1>20, <1>21,
     <1>22, <1>23, <1>24, StepCases


-----------------------------------------------------------------------------
(* The verdicts *)

LEMMA EmptiesStep ==
  ASSUME TypeOK, Phases, Empties, [Next]_vars
  PROVE  Empties'
<1> USE NumberFacts
    DEF TypeOK, Phases, Empties, Started, Idle, AtHeader, NoHeader, InLoop,
        StartLoop, StartAbort, Answer, EomCleanup, Forget, envelope, loop,
        store, world
<1>1. CASE Connect
  BY <1>1 DEF Connect
<1>2. CASE ConnectFails
  BY <1>2 DEF ConnectFails
<1>3. CASE Close
  BY <1>3 DEF Close
<1>4. CASE EnvFrom
  BY <1>4 DEF EnvFrom
<1>5. CASE EnvRcpt
  BY <1>5 DEF EnvRcpt
<1>6. CASE HeaderIgnored
  BY <1>6 DEF HeaderIgnored
<1>7. CASE SavelistFailsOrEmpty
  BY <1>7 DEF SavelistFailsOrEmpty
<1>8. CASE FirstHeader
  BY <1>8 DEF FirstHeader
<1>9. CASE LaterHeader
  BY <1>9 DEF LaterHeader
<1>10. CASE Body
  BY <1>10 DEF Body
<1>11. CASE Eom
  BY <1>11 DEF Eom
<1>12. CASE MtaAborts
  BY <1>12 DEF MtaAborts
<1>13. CASE ModuleWrites
  BY <1>13 DEF ModuleWrites
<1>14. CASE ModuleFails
  BY <1>14 DEF ModuleFails
<1>15. CASE LoopReturns
  BY <1>15 DEF LoopReturns
<1>16. CASE ModuleCloses
  BY <1>16 DEF ModuleCloses
<1>17. CASE ModuleHasNothing
  BY <1>17 DEF ModuleHasNothing
<1>18. CASE ModuleCloseFails
  BY <1>18 DEF ModuleCloseFails
<1>19. CASE EomReturns
  BY <1>19 DEF EomReturns
<1>20. CASE ModuleAborts
  BY <1>20 DEF ModuleAborts
<1>21. CASE ModuleAbortsDangling
  BY <1>21 DEF ModuleAbortsDangling
<1>22. CASE AbortReturns
  BY <1>22 DEF AbortReturns
<1>23. CASE ProcessExits
  BY <1>23 DEF ProcessExits
<1>24. CASE UNCHANGED vars
  BY <1>24 DEF vars
<1> QED
  BY <1>1, <1>2, <1>3, <1>4, <1>5, <1>6, <1>7, <1>8, <1>9, <1>10, <1>11,
     <1>12, <1>13, <1>14, <1>15, <1>16, <1>17, <1>18, <1>19, <1>20, <1>21,
     <1>22, <1>23, <1>24, StepCases


LEMMA VerdictsStep ==
  ASSUME TypeOK, Phases, Archives, Verdicts, [Next]_vars
  PROVE  Verdicts'
<1> USE NumberFacts
    DEF TypeOK, Phases, Verdicts, Started, Idle, AtHeader, NoHeader, InLoop,
        StartLoop, StartAbort, Answer, EomCleanup, Forget, envelope, loop,
        store, world
<1>1. CASE Connect
  BY <1>1 DEF Connect
<1>2. CASE ConnectFails
  BY <1>2 DEF ConnectFails
<1>3. CASE Close
  BY <1>3 DEF Close
<1>4. CASE EnvFrom
  BY <1>4 DEF EnvFrom
<1>5. CASE EnvRcpt
  BY <1>5 DEF EnvRcpt
<1>6. CASE HeaderIgnored
  BY <1>6 DEF HeaderIgnored
<1>7. CASE SavelistFailsOrEmpty
  BY <1>7 DEF SavelistFailsOrEmpty
<1>8. CASE FirstHeader
  BY <1>8 DEF FirstHeader
<1>9. CASE LaterHeader
  BY <1>9 DEF LaterHeader
<1>10. CASE Body
  BY <1>10 DEF Body
<1>11. CASE Eom
  BY <1>11 DEF Eom
<1>12. CASE MtaAborts
  BY <1>12 DEF MtaAborts
<1>13. CASE ModuleWrites
  BY <1>13 DEF ModuleWrites
<1>14. CASE ModuleFails
  BY <1>14 DEF ModuleFails
<1>15. CASE LoopReturns
  BY <1>15 DEF LoopReturns
<1>16. CASE ModuleCloses
  BY <1>16 DEF ModuleCloses
<1>17. CASE ModuleHasNothing
  BY <1>17 DEF ModuleHasNothing
<1>18. CASE ModuleCloseFails
  BY <1>18 DEF ModuleCloseFails
<1>19. CASE EomReturns
  BY <1>19 DEF EomReturns
<1>20. CASE ModuleAborts
  BY <1>20 DEF ModuleAborts
<1>21. CASE ModuleAbortsDangling
  BY <1>21 DEF ModuleAbortsDangling
<1>22. CASE AbortReturns
  BY <1>22 DEF AbortReturns
<1>23. CASE ProcessExits
  BY <1>23 DEF ProcessExits
<1>24. CASE UNCHANGED vars
  BY <1>24 DEF vars
<1> QED
  BY <1>1, <1>2, <1>3, <1>4, <1>5, <1>6, <1>7, <1>8, <1>9, <1>10, <1>11,
     <1>12, <1>13, <1>14, <1>15, <1>16, <1>17, <1>18, <1>19, <1>20, <1>21,
     <1>22, <1>23, <1>24, StepCases



-----------------------------------------------------------------------------
(* The archive *)

LEMMA MessageNumbers ==
  ASSUME TypeOK
  PROVE  \A r \in archive : r.message \in Msgs /\ r.message \in Int
<1>1. \A r \in archive : r \in [module : ModuleNames, message : Msgs,
                             content : SUBSET Msgs, addrs : SUBSET Msgs]
  BY DEF TypeOK
<1>2. \A r \in archive : r.message \in Msgs
  BY <1>1
<1>3. \A k \in Msgs : k \in Int
  BY NumberFacts
<1> QED
  BY <1>2, <1>3

LEMMA ArchiveSame ==
  ASSUME archive' = archive
  PROVE  /\ \A m : Archived(m)' = Archived(m)
         /\ msg' = msg => Archived(msg)' = Archived(msg)
BY DEF Archived

LEMMA ArchiveMore ==
  ASSUME ModuleCloses
  PROVE  /\ \A m : m # msg => Archived(m)' = Archived(m)
         /\ Archived(msg)' = Archived(msg) \cup {Current}
         /\ \A m : m = msg => Archived(m)' = Archived(msg) \cup {Current}
<1> DEFINE r == [module |-> Current, message |-> msg,
                 content |-> file[Current], addrs |-> matched]
<1>1. archive' = archive \cup {r} /\ msg' = msg
  BY DEF ModuleCloses
<1>2. r.module = Current /\ r.message = msg
  OBVIOUS
<1> HIDE DEF r
<1>3. \A m : m # msg => Archived(m)' = Archived(m)
  BY <1>1, <1>2 DEF Archived
<1>4. \A m : m = msg => Archived(m)' = Archived(msg) \cup {Current}
  BY <1>1, <1>2 DEF Archived
<1>5. Archived(msg)' = Archived(msg) \cup {Current}
  BY <1>1, <1>2 DEF Archived
<1> QED
  BY <1>3, <1>4, <1>5

LEMMA ArchivesStep ==
  ASSUME TypeOK, Phases, Extras, Archives, [Next]_vars
  PROVE  Archives'
<1> USE NumberFacts, ArchiveSame
    DEF TypeOK, Phases, Archives, Started, Idle, AtHeader, NoHeader, InLoop,
        StartLoop, StartAbort, Answer, EomCleanup, envelope, loop, store, world
<1>1. CASE Connect
  BY <1>1 DEF Connect
<1>2. CASE ConnectFails
  BY <1>2 DEF ConnectFails
<1>3. CASE Close
  BY <1>3 DEF Close
<1>4. CASE EnvFrom
  <2>1. Archived(msg)' = {}
    <3>1. archive' = archive /\ msg' = msg + 1
      BY <1>4 DEF EnvFrom
    <3>2. \A r \in archive : r.message <= msg /\ msg \in Int
      OBVIOUS
    <3>3. \A r \in archive : r.message \in Int
      BY MessageNumbers
    <3>4. \A r \in archive : r.message # msg + 1
      BY <3>2, <3>3
    <3> QED
      BY <3>1, <3>4 DEF Archived
  <2>2. phase' = "mail" /\ at' = "mta" /\ msg' = msg + 1 /\ archive' = archive
    BY <1>4 DEF EnvFrom
  <2>3. \A r \in archive : r.message <= msg + 1
    <3>1. \A r \in archive : r.message \in Int /\ r.message <= msg
      BY MessageNumbers
    <3>2. msg \in Int
      OBVIOUS
    <3> QED
      BY <3>1, <3>2
  <2> QED
    BY <2>1, <2>2, <2>3
<1>5. CASE EnvRcpt
  BY <1>5 DEF EnvRcpt
<1>6. CASE HeaderIgnored
  BY <1>6 DEF HeaderIgnored
<1>7. CASE SavelistFailsOrEmpty
  <2>1. /\ archive' = archive /\ msg' = msg /\ phase' = phase /\ at' = "abort"
        /\ after' \in {"error", "accept"} /\ Archived(msg) = {}
    BY <1>7 DEF SavelistFailsOrEmpty
  <2>2. ModuleNames # {}
    BY ListFacts
  <2> QED
    BY <2>1, <2>2
<1>8. CASE FirstHeader
  BY <1>8 DEF FirstHeader
<1>9. CASE LaterHeader
  BY <1>9 DEF LaterHeader
<1>10. CASE Body
  BY <1>10 DEF Body
<1>11. CASE Eom
  <2>1. {Modules[j] : j \in 1 .. idx' - 1} = {}
    BY <1>11 DEF Eom
  <2>2. Archived(msg)' = {} /\ archive' = archive /\ msg' = msg /\ at' = "eom"
    BY <1>11 DEF Eom
  <2> QED
    BY <2>1, <2>2
<1>12. CASE MtaAborts
  BY <1>12 DEF MtaAborts
<1>13. CASE ModuleWrites
  BY <1>13 DEF ModuleWrites
<1>14. CASE ModuleFails
  <2>1. Archived(msg) = {} /\ ModuleNames # {}
    BY <1>14, CurrentFacts DEF ModuleFails
  <2>2. /\ archive' = archive /\ msg' = msg /\ phase' = phase
        /\ at' = "abort" /\ after' = "error"
    BY <1>14 DEF ModuleFails
  <2> QED
    BY <2>1, <2>2
<1>15. CASE LoopReturns
  BY <1>15 DEF LoopReturns
<1>16. CASE ModuleCloses
  <2>1. /\ Current \in ModuleNames /\ idx \in 1 .. Len(Modules)
        /\ Modules[idx] = Current /\ extra[Current] = "open"
    BY <1>16, CurrentFacts DEF ModuleCloses, Current
  <2>2. phase \in {"header", "body"}
    BY <1>16, <2>1 DEF ModuleCloses, Extras
  <2>3. /\ at = "eom" /\ at' = "eom" /\ idx' = idx + 1
        /\ phase' = phase /\ msg' = msg
    BY <1>16 DEF ModuleCloses
  <2>4. Archived(msg)' = {Modules[j] : j \in 1 .. idx - 1} \cup {Modules[idx]}
    BY <1>16, <2>1, <2>2, <2>3, ArchiveMore
  <2>5. 1 .. idx = 1 .. idx - 1 \cup {idx} /\ idx = idx' - 1
    BY <2>1, <2>3
  <2>6. Archived(msg)' = {Modules[j] : j \in 1 .. idx' - 1}
    BY <2>4, <2>5
  <2>7. \A q \in archive' : q.message <= msg
    BY <1>16, <2>3 DEF ModuleCloses
  <2> QED
    BY <2>2, <2>3, <2>6, <2>7
<1>17. CASE ModuleHasNothing
  <2>1. /\ at' = at /\ after' = after /\ phase' = phase /\ msg' = msg
        /\ archive' = archive /\ Archived(msg)' = Archived(msg)
        /\ at \in {"eom", "abort"}
    BY <1>17 DEF ModuleHasNothing
  <2>2. at = "eom" => phase = "mail"
    BY <1>17, CurrentFacts, ListFacts DEF ModuleHasNothing, Extras, Current
  <2> QED
    BY <2>1, <2>2
<1>18. CASE ModuleCloseFails
  <2>1. /\ Current \in ModuleNames /\ idx \in 1 .. Len(Modules)
        /\ \A j \in 1 .. Len(Modules) : j # idx => Modules[j] # Current
    BY <1>18, CurrentFacts, ListFacts DEF ModuleCloseFails
  <2>2. Current \notin Archived(msg)
    BY <1>18, <2>1 DEF ModuleCloseFails
  <2>3. /\ archive' = archive /\ msg' = msg /\ phase' = phase
        /\ at' = "abort" /\ after' = "error" /\ Archived(msg)' = Archived(msg)
    BY <1>18 DEF ModuleCloseFails
  <2> QED
    BY <2>1, <2>2, <2>3
<1>19. CASE EomReturns
  BY <1>19 DEF EomReturns
<1>20. CASE ModuleAborts
  BY <1>20 DEF ModuleAborts
<1>21. CASE ModuleAbortsDangling
  BY <1>21 DEF ModuleAbortsDangling
<1>22. CASE AbortReturns
  BY <1>22 DEF AbortReturns
<1>23. CASE ProcessExits
  BY <1>23 DEF ProcessExits
<1>24. CASE UNCHANGED vars
  BY <1>24 DEF vars
<1> QED
  BY <1>1, <1>2, <1>3, <1>4, <1>5, <1>6, <1>7, <1>8, <1>9, <1>10, <1>11,
     <1>12, <1>13, <1>14, <1>15, <1>16, <1>17, <1>18, <1>19, <1>20, <1>21,
     <1>22, <1>23, <1>24, StepCases


(* The same verdicts, one implication for each.                            *)
LEMMA TruthfulMeans == TypeOK => (Truthful <=> VerdictTruthful)
<1> SUFFICES ASSUME TypeOK PROVE Truthful <=> VerdictTruthful
  OBVIOUS
<1>1. \A m \in Msgs :
        verdict[m] \in {"none", "continue", "accept", "error", "aborted"}
  BY DEF TypeOK
<1> QED
  BY <1>1 DEF Truthful, VerdictTruthful

LEMMA TruthfulStep ==
  ASSUME TypeOK, Phases, Archives, Empties, Verdicts, Truthful, [Next]_vars
  PROVE  Truthful'
<1> USE NumberFacts, ArchiveSame
    DEF TypeOK, Phases, Archives, Empties, Verdicts, Truthful, Started,
        Idle, AtHeader, NoHeader, InLoop, StartLoop, StartAbort, Answer,
        EomCleanup, envelope, loop, store, world
<1>1. CASE Connect
  BY <1>1 DEF Connect
<1>2. CASE ConnectFails
  BY <1>2 DEF ConnectFails
<1>3. CASE Close
  BY <1>3 DEF Close
<1>4. CASE EnvFrom
  BY <1>4 DEF EnvFrom
<1>5. CASE EnvRcpt
  BY <1>5 DEF EnvRcpt
<1>6. CASE HeaderIgnored
  BY <1>6 DEF HeaderIgnored
<1>7. CASE SavelistFailsOrEmpty
  BY <1>7 DEF SavelistFailsOrEmpty
<1>8. CASE FirstHeader
  BY <1>8 DEF FirstHeader
<1>9. CASE LaterHeader
  BY <1>9 DEF LaterHeader
<1>10. CASE Body
  BY <1>10 DEF Body
<1>11. CASE Eom
  BY <1>11 DEF Eom
<1>12. CASE MtaAborts
  BY <1>12 DEF MtaAborts
<1>13. CASE ModuleWrites
  BY <1>13 DEF ModuleWrites
<1>14. CASE ModuleFails
  BY <1>14 DEF ModuleFails
<1>15. CASE LoopReturns
  BY <1>15 DEF LoopReturns
<1>16. CASE ModuleCloses
  <2>1. /\ verdict' = verdict /\ empty' = empty /\ msg' = msg
        /\ verdict[msg] = "none" /\ msg \in Msgs
    BY <1>16 DEF ModuleCloses
  <2>2. \A m \in Msgs : m # msg => Archived(m)' = Archived(m)
    BY <1>16, ArchiveMore
  <2> QED
    BY <2>1, <2>2
<1>17. CASE ModuleHasNothing
  BY <1>17 DEF ModuleHasNothing
<1>18. CASE ModuleCloseFails
  BY <1>18 DEF ModuleCloseFails
<1>19. CASE EomReturns
  <2>1. ModuleNames = {Modules[j] : j \in 1 .. Len(Modules)}
    BY ListFacts
  <2>2. idx - 1 = Len(Modules)
    BY <1>19, ListFacts DEF EomReturns
  <2>3. Archived(msg) = IF msg \in empty THEN {} ELSE ModuleNames
    BY <1>19, <2>1, <2>2 DEF EomReturns
  <2>4. /\ verdict' = [verdict EXCEPT ![msg] = "continue"] /\ msg' = msg
        /\ archive' = archive /\ empty' = empty
    BY <1>19 DEF EomReturns
  <2> QED
    BY <2>3, <2>4, ZenonT(30)
<1>20. CASE ModuleAborts
  BY <1>20 DEF ModuleAborts
<1>21. CASE ModuleAbortsDangling
  BY <1>21 DEF ModuleAbortsDangling
<1>22. CASE AbortReturns
  BY <1>22 DEF AbortReturns
<1>23. CASE ProcessExits
  BY <1>23 DEF ProcessExits
<1>24. CASE UNCHANGED vars
  BY <1>24 DEF vars
<1> QED
  BY <1>1, <1>2, <1>3, <1>4, <1>5, <1>6, <1>7, <1>8, <1>9, <1>10, <1>11,
     <1>12, <1>13, <1>14, <1>15, <1>16, <1>17, <1>18, <1>19, <1>20, <1>21,
     <1>22, <1>23, <1>24, StepCases


-----------------------------------------------------------------------------
(* The theorems *)

LEMMA InvStep == Inv /\ [Next]_vars => Inv'
BY TypeStep, OneReferenceStep, PhasesStep, EnvelopeStep, FilesStep,
   ExtrasStep, EmptiesStep, VerdictsStep, ArchivesStep, TruthfulStep DEF Inv

LEMMA Invariance == Spec => []Inv
BY InvInit, InvStep, PTL DEF Spec

(* Types.                                                                  *)
THEOREM TypeCorrect == Spec => []TypeOK
<1>1. Inv => TypeOK
  BY DEF Inv
<1> QED
  BY Invariance, <1>1, PTL

(* A connection holds one configuration while its priv exists, whatever    *)
(* callbacks libmilter makes and however they end.                         *)
THEOREM OneReferenceAlways == Spec => []OneReference
<1>1. Inv => OneReference
  BY DEF Inv
<1> QED
  BY Invariance, <1>1, PTL

(* No address and no temporary file outlives its message, for any number   *)
(* of modules, each of which may fail in any way at any header or chunk.   *)
THEOREM CleanBetween == Spec => []CleanBetweenMessages
<1>1. Inv => CleanBetweenMessages
  BY DEF Inv, TypeOK, Envelope, Extras, Started, CleanBetweenMessages
<1> QED
  BY Invariance, <1>1, PTL

(* What the MTA was told of a message is, for ever, what happened to it.   *)
THEOREM VerdictAlwaysTruthful == Spec => []VerdictTruthful
<1>1. Inv => VerdictTruthful
  BY TruthfulMeans DEF Inv
<1> QED
  BY Invariance, <1>1, PTL

(* Every step that archives keeps one whole message under its own          *)
(* addresses.                                                              *)
THEOREM ArchivedWhole == Spec => ArchivedAsSent
<1> DEFINE Whole ==
      \A r \in archive' \ archive :
        /\ r.content = {r.message}
        /\ r.addrs = {r.message} \/ (r.addrs = {} /\ ~headerExistence)
<1>1. Inv /\ [Next]_vars => [Whole]_vars
  <2> SUFFICES ASSUME Inv, [Next]_vars PROVE Whole \/ UNCHANGED vars
    BY DEF vars
  <2>1. CASE ModuleCloses
    <3>1. at = "eom" /\ extra[Current] = "open" /\ Current \in ModuleNames
      BY <2>1, CurrentFacts DEF ModuleCloses, InLoop, Inv
    <3>2. file[Current] = {msg}
      BY <3>1 DEF Inv, Files
    <3>3. matched = {msg} \/ (matched = {} /\ ~headerExistence)
      BY <3>1 DEF Inv, Envelope
    <3> QED
      BY <2>1, <3>2, <3>3 DEF ModuleCloses
  <2>2. CASE ~ModuleCloses
    <3>1. archive' = archive
      BY <2>2, StepCases
         DEF Connect, ConnectFails, Close, EnvFrom, EnvRcpt, HeaderIgnored,
             SavelistFailsOrEmpty, FirstHeader, LaterHeader, Body, Eom,
             MtaAborts, ModuleWrites, ModuleFails, LoopReturns,
             ModuleHasNothing, ModuleCloseFails, EomReturns, ModuleAborts,
             ModuleAbortsDangling, AbortReturns, ProcessExits, store, vars
    <3> QED
      BY <3>1
  <2> QED
    BY <2>1, <2>2
<1>2. Spec => [][Whole]_vars
  BY Invariance, <1>1, PTL DEF Spec
<1> QED
  BY <1>2 DEF ArchivedAsSent

-----------------------------------------------------------------------------
(* The dangling pointer                                                    *)

(* Every modulepriv of the list is one that was opened.                    *)
Sound ==
  /\ NoDangling
  /\ \A m \in ModuleNames : extra[m] \in {"absent", "open"}

LEMMA SoundStep ==
  ASSUME Failures \subseteq {"noPriv", "noWrite"}, TypeOK, Sound, [Next]_vars
  PROVE  Sound'
<1> USE DEF Sound, NoDangling, StartLoop, StartAbort, Answer, EomCleanup,
            Forget, envelope, loop, store, world
<1>1. CASE Connect
  BY <1>1 DEF Connect
<1>2. CASE ConnectFails
  BY <1>2 DEF ConnectFails
<1>3. CASE Close
  BY <1>3 DEF Close
<1>4. CASE EnvFrom
  BY <1>4 DEF EnvFrom
<1>5. CASE EnvRcpt
  BY <1>5 DEF EnvRcpt
<1>6. CASE HeaderIgnored
  BY <1>6 DEF HeaderIgnored
<1>7. CASE SavelistFailsOrEmpty
  BY <1>7 DEF SavelistFailsOrEmpty
<1>8. CASE FirstHeader
  BY <1>8 DEF FirstHeader
<1>9. CASE LaterHeader
  BY <1>9 DEF LaterHeader
<1>10. CASE Body
  BY <1>10 DEF Body
<1>11. CASE Eom
  BY <1>11 DEF Eom
<1>12. CASE MtaAborts
  BY <1>12 DEF MtaAborts
<1>13. CASE ModuleWrites
  BY <1>13 DEF ModuleWrites, TypeOK
<1>14. CASE ModuleFails
  <2>1. PICK kind \in Failures : extra' = [extra EXCEPT ![Current] = Left(kind)]
    BY <1>14 DEF ModuleFails
  <2>2. Left(kind) \in {"absent", "open"}
    BY DEF Left
  <2>3. condition' = condition
    BY <1>14 DEF ModuleFails
  <2>4. \A m \in ModuleNames : extra'[m] \in {"absent", "open"}
    BY <2>1, <2>2 DEF TypeOK
  <2> QED
    BY <2>3, <2>4
<1>15. CASE LoopReturns
  BY <1>15 DEF LoopReturns
<1>16. CASE ModuleCloses
  BY <1>16 DEF ModuleCloses, TypeOK
<1>17. CASE ModuleHasNothing
  BY <1>17 DEF ModuleHasNothing
<1>18. CASE ModuleCloseFails
  BY <1>18 DEF ModuleCloseFails
<1>19. CASE EomReturns
  BY <1>19 DEF EomReturns
<1>20. CASE ModuleAborts
  BY <1>20 DEF ModuleAborts, TypeOK
<1>21. CASE ModuleAbortsDangling
  <2>1. Current \in ModuleNames
    BY <1>21, CurrentFacts DEF ModuleAbortsDangling
  <2> QED
    BY <1>21, <2>1 DEF ModuleAbortsDangling
<1>22. CASE AbortReturns
  BY <1>22 DEF AbortReturns
<1>23. CASE ProcessExits
  BY <1>23 DEF ProcessExits
<1>24. CASE UNCHANGED vars
  BY <1>24 DEF vars
<1> QED
  BY <1>1, <1>2, <1>3, <1>4, <1>5, <1>6, <1>7, <1>8, <1>9, <1>10, <1>11,
     <1>12, <1>13, <1>14, <1>15, <1>16, <1>17, <1>18, <1>19, <1>20, <1>21,
     <1>22, <1>23, <1>24, StepCases


(* The callbacks follow a dangling pointer only after a module found no    *)
(* memory for its modulepriv or could not open its temporary file: where   *)
(* neither happens, none ever does.                                        *)
THEOREM DanglingOnlyAfterOpen ==
  Failures \subseteq {"noPriv", "noWrite"} => (Spec => []NoDangling)
<1> SUFFICES ASSUME Failures \subseteq {"noPriv", "noWrite"}
             PROVE  Spec => []NoDangling
  OBVIOUS
<1>1. Init => Sound
  BY DEF Init, Sound, NoDangling
<1>2. TypeOK /\ Sound /\ [Next]_vars => Sound'
  BY SoundStep
<1>3. Sound => NoDangling
  BY DEF Sound
<1> QED
  BY TypeCorrect, <1>1, <1>2, <1>3, PTL DEF Spec
=============================================================================
