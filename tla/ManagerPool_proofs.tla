------------------------- MODULE ManagerPool_proofs -------------------------
(***************************************************************************)
(* Proofs about ManagerPool, for every set of clients, all limits and      *)
(* passwords, every width of thread_count and every text the clients send. *)
(***************************************************************************)
EXTENDS ManagerPool, SequenceLemmas, SequenceTheorems, TLAPS

(* A handler is before, inside or after decrement_tc's access.             *)
Inside == {"decLoad", "decStore", "decUnlock"}
Incrementing == {"incLoad", "incStore", "incUnlock"}

(* The counter can hold the number of clients, and one more.               *)
LEMMA ModulusFacts ==
  /\ Cardinality(Conns) \in Nat
  /\ Modulus \in Nat \ {0}
  /\ \A n \in 0 .. Cardinality(Conns) + 1 : n % Modulus = n
  /\ \A n \in Int : n % Modulus \in 0 .. Modulus - 1
<1>1. Cardinality(Conns) \in Nat
  BY ConnsAssumption, FS_CardinalityType
<1>2. Modulus \in Nat /\ Cardinality(Conns) + 1 < Modulus
  BY LimitsAssumption
<1> QED
  BY <1>1, <1>2

(* ++ and -- of a number of sessions do not wrap.                          *)
LEMMA NoWrap ==
  ASSUME NEW n \in 0 .. Cardinality(Conns)
  PROVE  /\ n \in Nat
         /\ (n + 1) % Modulus = n + 1
         /\ n >= 1 => (n - 1) % Modulus = n - 1
<1>1. Cardinality(Conns) \in Nat
  BY ModulusFacts
<1>2. n \in Nat /\ n + 1 \in 0 .. Cardinality(Conns) + 1
  BY <1>1
<1>3. n >= 1 => n - 1 \in 0 .. Cardinality(Conns) + 1
  BY <1>1
<1> QED
  BY <1>2, <1>3, ModulusFacts

(* What a step may be, action by action.                                   *)
LEMMA StepCases ==
  ASSUME [Next]_vars
  PROVE  \/ HostsDenied \/ RetrieveLimit \/ Check \/ Refuse
         \/ IncLock \/ IncLoad \/ IncStore \/ IncUnlock \/ Spawn \/ ManagerExits
         \/ \E c \in Conns : AcceptConn(c)
         \/ \E c \in Conns, s \in Inputs : LoginSucceeds(c, s)
         \/ \E c \in Conns, s \in Inputs : LineAnswered(c, s)
         \/ \E c \in Conns, s \in Inputs : LineEndsSession(c, s)
         \/ \E c \in Conns, s \in Inputs, n \in Limits, p \in Passwords :
              ReloadSucceeds(c, s, n, p)
         \/ \E c \in Conns : SessionEnds(c)
         \/ \E c \in Conns : DecLock(c)
         \/ \E c \in Conns : DecLoad(c)
         \/ \E c \in Conns : DecStore(c)
         \/ \E c \in Conns : DecUnlock(c)
         \/ \E c \in Conns : HandlerExits(c)
         \/ UNCHANGED vars
BY DEF Next, ManagerStep, HandlerStep, HandlerEnd, DustGivenUp, Exited

-----------------------------------------------------------------------------
(* Types *)

LEMMA TypeInit == Init => TypeOK
<1> SUFFICES ASSUME Init PROVE TypeOK
  OBVIOUS
<1> USE ConnsAssumption, ModulusFacts
    DEF Init, TypeOK, ManagerLabels, HandlerLabels
<1>1. 0 \in 0 .. Modulus - 1
  OBVIOUS
<1>2. reg \in [Conns -> 0 .. Modulus - 1] /\ auth \in [Conns -> BOOLEAN]
  BY <1>1
<1>3. st \in [Conns -> HandlerLabels]
  OBVIOUS
<1>4. \A c \in Conns : st[c] = "accepted" <=> mconn = c
  OBVIOUS
<1> QED
  BY <1>1, <1>2, <1>3, <1>4

LEMMA TypeStep == TypeOK /\ [Next]_vars => TypeOK'
<1> SUFFICES ASSUME TypeOK, [Next]_vars PROVE TypeOK'
  OBVIOUS
<1> USE ConnsAssumption
    DEF TypeOK, ManagerLabels, HandlerLabels, Step, CloseAndAccept, config,
        mgrVars, connVars, historyVars
<1>1. ASSUME NEW c \in Conns, AcceptConn(c) PROVE TypeOK'
  BY <1>1 DEF AcceptConn
<1>2. CASE HostsDenied
  BY <1>2 DEF HostsDenied
<1>3. CASE RetrieveLimit
  BY <1>3 DEF RetrieveLimit
<1>4. CASE Check
  BY <1>4 DEF Check
<1>5. CASE Refuse
  BY <1>5 DEF Refuse
<1>6. CASE IncLock
  BY <1>6 DEF IncLock
<1>7. CASE IncLoad
  BY <1>7 DEF IncLoad
<1>8. CASE IncStore
  BY <1>8, ModulusFacts DEF IncStore
<1>9. CASE IncUnlock
  BY <1>9 DEF IncUnlock
<1>10. CASE Spawn
  BY <1>10 DEF Spawn
<1>11. CASE ManagerExits
  BY <1>11 DEF ManagerExits
<1>12. ASSUME NEW c \in Conns, NEW s \in Inputs, LoginSucceeds(c, s)
       PROVE  TypeOK'
  BY <1>12 DEF LoginSucceeds, Reads
<1>13. ASSUME NEW c \in Conns, NEW s \in Inputs, LineAnswered(c, s)
       PROVE  TypeOK'
  BY <1>13 DEF LineAnswered, Reads
<1>14. ASSUME NEW c \in Conns, NEW s \in Inputs, LineEndsSession(c, s)
       PROVE  TypeOK'
  BY <1>14 DEF LineEndsSession, Reads
<1>16. ASSUME NEW c \in Conns, NEW s \in Inputs, NEW n \in Limits,
              NEW p \in Passwords, ReloadSucceeds(c, s, n, p)
       PROVE  TypeOK'
  BY <1>16 DEF ReloadSucceeds, Reads
<1>17. ASSUME NEW c \in Conns, SessionEnds(c) PROVE TypeOK'
  BY <1>17 DEF SessionEnds
<1>18. ASSUME NEW c \in Conns, DecLock(c) PROVE TypeOK'
  BY <1>18 DEF DecLock
<1>19. ASSUME NEW c \in Conns, DecLoad(c) PROVE TypeOK'
  BY <1>19 DEF DecLoad
<1>20. ASSUME NEW c \in Conns, DecStore(c) PROVE TypeOK'
  <2>1. reg[c] - 1 \in Int /\ 0 \in 0 .. Modulus - 1
    BY ModulusFacts
  <2>2. threadCount' \in 0 .. Modulus - 1
    BY <1>20, <2>1, ModulusFacts DEF DecStore
  <2> QED
    BY <1>20, <2>1, <2>2 DEF DecStore
<1>21. ASSUME NEW c \in Conns, DecUnlock(c) PROVE TypeOK'
  BY <1>21 DEF DecUnlock
<1>22. ASSUME NEW c \in Conns, HandlerExits(c) PROVE TypeOK'
  BY <1>22 DEF HandlerExits
<1>23. CASE UNCHANGED vars
  BY <1>23 DEF vars
<1> QED
  BY <1>1, <1>2, <1>3, <1>4, <1>5, <1>6, <1>7, <1>8, <1>9, <1>10, <1>11,
     <1>12, <1>13, <1>14, <1>16, <1>17, <1>18, <1>19, <1>20, <1>21,
     <1>22, <1>23, StepCases

(* Types, and one connection at a time in the hands of manager_main.       *)
THEOREM TypeCorrect == Spec => []TypeOK
BY TypeInit, TypeStep, PTL DEF Spec

-----------------------------------------------------------------------------
(* While no refusal has unlocked a tc_lock somebody holds: who is between  *)
(* lock and unlock is its owner.                                           *)
LockOwned ==
  /\ mpc \in Incrementing => tcLock = Manager
  /\ \A c \in Conns : st[c] \in Inside => tcLock = c

(* The register of the owner is not stale.                                 *)
RegistersExact ==
  /\ mpc = "incStore" => mreg = threadCount
  /\ \A c \in Conns : st[c] = "decStore" => reg[c] = threadCount

(* Between the comparison and the ++ there is room for one more.           *)
RoomAhead ==
  mpc \in {"incLock", "incLoad", "incStore"} => Cardinality(Sessions) < mlimit

QuietInv ==
  /\ LockOwned /\ RegistersExact /\ CountExact
  /\ RoomAhead /\ AdmittedWithinLimit

LEMMA SessionsFacts ==
  ASSUME TypeOK
  PROVE  /\ Sessions \subseteq Conns
         /\ IsFiniteSet(Sessions)
         /\ Cardinality(Sessions) \in 0 .. Cardinality(Conns)
<1>1. Sessions \subseteq Conns
  BY DEF TypeOK, Sessions, Pending
<1> QED
  BY <1>1, ConnsAssumption, FS_Subset, FS_CardinalityType

(* One session more.                                                       *)
LEMMA SessionAdded ==
  ASSUME TypeOK, NEW c, c \notin Sessions, Sessions' = Sessions \cup {c}
  PROVE  Cardinality(Sessions') = Cardinality(Sessions) + 1
BY SessionsFacts, FS_AddElement

(* One session less; there was one.                                        *)
LEMMA SessionRemoved ==
  ASSUME TypeOK, NEW c \in Sessions, Sessions' = Sessions \ {c}
  PROVE  /\ Cardinality(Sessions') = Cardinality(Sessions) - 1
         /\ Cardinality(Sessions) >= 1
<1>1. Cardinality(Sessions') = Cardinality(Sessions) - 1
  BY SessionsFacts, FS_RemoveElement
<1>2. Cardinality(Sessions) # 0
  BY SessionsFacts, FS_EmptySet
<1> QED
  BY <1>1, <1>2, SessionsFacts

(* Limits are positive numbers.                                            *)
LEMMA LimitFacts ==
  ASSUME TypeOK
  PROVE  mlimit \in Nat /\ limit \in Nat /\ threadCount \in Nat
BY LimitsAssumption, ModulusFacts DEF TypeOK

(* Steps after which the same sessions are counted by the same counter.    *)
LEMMA SameSessions ==
  ASSUME Sessions' = Sessions, threadCount' = threadCount, CountExact,
         mpc' # "exited" => mpc # "exited"
  PROVE  CountExact'
BY DEF CountExact

LEMMA QuietInit == Init => QuietInv
<1> SUFFICES ASSUME Init PROVE QuietInv
  OBVIOUS
<1> USE ConnsAssumption DEF Init
<1>1. Sessions = {} /\ Cardinality({}) = 0
  BY FS_EmptySet DEF Sessions, Pending
<1>2. CountExact
  BY <1>1 DEF CountExact
<1> QED
  BY <1>2
  DEF QuietInv, LockOwned, RegistersExact, RoomAhead, AdmittedWithinLimit,
      Incrementing, Inside

LEMMA QuietStep == TypeOK /\ QuietInv /\ [Next]_vars /\ ~strayed' => QuietInv'
<1> SUFFICES ASSUME TypeOK, QuietInv, [Next]_vars, ~strayed' PROVE QuietInv'
  OBVIOUS
<1> LockOwned /\ RegistersExact /\ CountExact /\ RoomAhead /\ AdmittedWithinLimit
  BY DEF QuietInv
<1> USE ConnsAssumption
    DEF TypeOK, ManagerLabels, HandlerLabels, Incrementing, Inside, Step,
        CloseAndAccept, config, mgrVars, connVars, historyVars
<1>1. ASSUME NEW c \in Conns, AcceptConn(c) PROVE QuietInv'
  <2>1. LockOwned' /\ RegistersExact'
    BY <1>1 DEF AcceptConn, LockOwned, RegistersExact
  <2>2. Sessions' = Sessions /\ threadCount' = threadCount
    BY <1>1 DEF AcceptConn, Sessions, Pending
  <2>3. CountExact'
    BY <1>1, <2>2, SameSessions DEF AcceptConn
  <2>4. RoomAhead' /\ AdmittedWithinLimit'
    BY <1>1, <2>2 DEF AcceptConn, RoomAhead, AdmittedWithinLimit
  <2> QED
    BY <2>1, <2>3, <2>4 DEF QuietInv
<1>2. CASE HostsDenied
  <2>1. LockOwned' /\ RegistersExact'
    BY <1>2 DEF HostsDenied, LockOwned, RegistersExact
  <2>2. Sessions' = Sessions /\ threadCount' = threadCount
    BY <1>2 DEF HostsDenied, Sessions, Pending
  <2>3. CountExact'
    BY <1>2, <2>2, SameSessions DEF HostsDenied
  <2>4. RoomAhead' /\ AdmittedWithinLimit'
    BY <1>2, <2>2 DEF HostsDenied, RoomAhead, AdmittedWithinLimit
  <2> QED
    BY <2>1, <2>3, <2>4 DEF QuietInv
<1>3. CASE RetrieveLimit
  <2>1. LockOwned' /\ RegistersExact'
    BY <1>3 DEF RetrieveLimit, LockOwned, RegistersExact
  <2>2. Sessions' = Sessions /\ threadCount' = threadCount
    BY <1>3 DEF RetrieveLimit, Sessions, Pending
  <2>3. CountExact'
    BY <1>3, <2>2, SameSessions DEF RetrieveLimit
  <2>4. RoomAhead' /\ AdmittedWithinLimit'
    BY <1>3, <2>2 DEF RetrieveLimit, RoomAhead, AdmittedWithinLimit
  <2> QED
    BY <2>1, <2>3, <2>4 DEF QuietInv
<1>4. CASE Check
  <2>1. LockOwned' /\ RegistersExact'
    BY <1>4 DEF Check, LockOwned, RegistersExact
  <2>2. Sessions' = Sessions /\ threadCount' = threadCount
    BY <1>4 DEF Check, Sessions, Pending
  <2>3. CountExact'
    BY <1>4, <2>2, SameSessions DEF Check
  <2>4. RoomAhead'
    <3>1. threadCount = Cardinality(Sessions) /\ threadCount \in Nat /\ mlimit \in Nat
      BY <1>4, LimitFacts DEF Check, CountExact
    <3>2. mpc' = "incLock" => threadCount < mlimit
      BY <1>4, <3>1 DEF Check
    <3> QED
      BY <1>4, <2>2, <3>1, <3>2 DEF Check, RoomAhead
  <2>5. AdmittedWithinLimit'
    BY <1>4 DEF Check, AdmittedWithinLimit
  <2> QED
    BY <2>1, <2>3, <2>4, <2>5 DEF QuietInv
<1>5. CASE Refuse
  <2>1. LockOwned' /\ RegistersExact'
    BY <1>5 DEF Refuse, LockOwned, RegistersExact
  <2>2. Sessions' = Sessions /\ threadCount' = threadCount
    BY <1>5 DEF Refuse, Sessions, Pending
  <2>3. CountExact'
    BY <1>5, <2>2, SameSessions DEF Refuse
  <2>4. RoomAhead' /\ AdmittedWithinLimit'
    BY <1>5, <2>2 DEF Refuse, RoomAhead, AdmittedWithinLimit
  <2> QED
    BY <2>1, <2>3, <2>4 DEF QuietInv
<1>6. CASE IncLock
  <2>1. LockOwned' /\ RegistersExact'
    BY <1>6 DEF IncLock, LockOwned, RegistersExact
  <2>2. Sessions' = Sessions /\ threadCount' = threadCount
    BY <1>6 DEF IncLock, Sessions, Pending
  <2>3. CountExact'
    BY <1>6, <2>2, SameSessions DEF IncLock
  <2>4. RoomAhead' /\ AdmittedWithinLimit'
    BY <1>6, <2>2 DEF IncLock, RoomAhead, AdmittedWithinLimit
  <2> QED
    BY <2>1, <2>3, <2>4 DEF QuietInv
<1>7. CASE IncLoad
  <2>1. LockOwned' /\ RegistersExact'
    BY <1>7 DEF IncLoad, LockOwned, RegistersExact
  <2>2. Sessions' = Sessions /\ threadCount' = threadCount
    BY <1>7 DEF IncLoad, Sessions, Pending
  <2>3. CountExact'
    BY <1>7, <2>2, SameSessions DEF IncLoad
  <2>4. RoomAhead' /\ AdmittedWithinLimit'
    BY <1>7, <2>2 DEF IncLoad, RoomAhead, AdmittedWithinLimit
  <2> QED
    BY <2>1, <2>3, <2>4 DEF QuietInv
<1>8. CASE IncStore
  <2>1. LockOwned' /\ RegistersExact'
    BY <1>8 DEF IncStore, LockOwned, RegistersExact
  <2>2. Sessions' = Sessions \cup {mconn} /\ mconn \notin Sessions
    BY <1>8 DEF IncStore, Sessions, Pending
  <2>3. Cardinality(Sessions') = Cardinality(Sessions) + 1
    BY <2>2, SessionAdded
  <2>4. threadCount' = Cardinality(Sessions) + 1
    <3>1. mreg = Cardinality(Sessions)
      BY <1>8 DEF IncStore, RegistersExact, CountExact
    <3>2. Cardinality(Sessions) \in 0 .. Cardinality(Conns)
      BY SessionsFacts
    <3>3. (mreg + 1) % Modulus = mreg + 1
      BY <3>1, <3>2, NoWrap
    <3> QED
      BY <1>8, <3>1, <3>3 DEF IncStore
  <2>5. CountExact'
    BY <2>3, <2>4 DEF CountExact
  <2>6. AdmittedWithinLimit'
    <3>1. Cardinality(Sessions) < mlimit
      BY <1>8 DEF IncStore, RoomAhead
    <3>2. mlimit \in Nat /\ Cardinality(Sessions) \in Nat
      BY LimitFacts, SessionsFacts, ModulusFacts
    <3>3. Cardinality(Sessions)' <= mlimit'
      BY <1>8, <2>3, <3>1, <3>2 DEF IncStore
    <3> QED
      BY <3>3 DEF AdmittedWithinLimit
  <2>7. RoomAhead'
    BY <1>8 DEF IncStore, RoomAhead
  <2> QED
    BY <2>1, <2>5, <2>6, <2>7 DEF QuietInv
<1>9. CASE IncUnlock
  <2>1. LockOwned' /\ RegistersExact'
    BY <1>9 DEF IncUnlock, LockOwned, RegistersExact
  <2>2. Sessions' = Sessions /\ threadCount' = threadCount
    BY <1>9 DEF IncUnlock, Sessions, Pending
  <2>3. CountExact'
    BY <1>9, <2>2, SameSessions DEF IncUnlock
  <2>4. RoomAhead' /\ AdmittedWithinLimit'
    BY <1>9, <2>2 DEF IncUnlock, RoomAhead, AdmittedWithinLimit
  <2> QED
    BY <2>1, <2>3, <2>4 DEF QuietInv
<1>10. CASE Spawn
  <2>1. LockOwned' /\ RegistersExact'
    BY <1>10 DEF Spawn, LockOwned, RegistersExact
  <2>2. Sessions' = Sessions /\ threadCount' = threadCount
    BY <1>10 DEF Spawn, Sessions, Pending
  <2>3. CountExact'
    BY <1>10, <2>2, SameSessions DEF Spawn
  <2>4. RoomAhead' /\ AdmittedWithinLimit'
    BY <1>10, <2>2 DEF Spawn, RoomAhead, AdmittedWithinLimit
  <2> QED
    BY <2>1, <2>3, <2>4 DEF QuietInv
<1>11. CASE ManagerExits
  BY <1>11
  DEF ManagerExits, QuietInv, LockOwned, RegistersExact, CountExact, RoomAhead,
      AdmittedWithinLimit
<1>12. ASSUME NEW c \in Conns, NEW s \in Inputs, LoginSucceeds(c, s) PROVE QuietInv'
  <2>1. LockOwned' /\ RegistersExact'
    BY <1>12 DEF LoginSucceeds, LockOwned, RegistersExact, Reads
  <2>2. Sessions' = Sessions /\ threadCount' = threadCount
    BY <1>12 DEF LoginSucceeds, Sessions, Pending, Reads
  <2>3. CountExact'
    BY <1>12, <2>2, SameSessions DEF LoginSucceeds, Reads
  <2>4. RoomAhead' /\ AdmittedWithinLimit'
    BY <1>12, <2>2 DEF LoginSucceeds, RoomAhead, AdmittedWithinLimit, Reads
  <2> QED
    BY <2>1, <2>3, <2>4 DEF QuietInv
<1>13. ASSUME NEW c \in Conns, NEW s \in Inputs, LineAnswered(c, s) PROVE QuietInv'
  <2>1. LockOwned' /\ RegistersExact'
    BY <1>13 DEF LineAnswered, LockOwned, RegistersExact, Reads
  <2>2. Sessions' = Sessions /\ threadCount' = threadCount
    BY <1>13 DEF LineAnswered, Sessions, Pending, Reads
  <2>3. CountExact'
    BY <1>13, <2>2, SameSessions DEF LineAnswered, Reads
  <2>4. RoomAhead' /\ AdmittedWithinLimit'
    BY <1>13, <2>2 DEF LineAnswered, RoomAhead, AdmittedWithinLimit, Reads
  <2> QED
    BY <2>1, <2>3, <2>4 DEF QuietInv
<1>14. ASSUME NEW c \in Conns, NEW s \in Inputs, LineEndsSession(c, s) PROVE QuietInv'
  <2>1. LockOwned' /\ RegistersExact'
    BY <1>14 DEF LineEndsSession, LockOwned, RegistersExact, Reads
  <2>2. Sessions' = Sessions /\ threadCount' = threadCount
    BY <1>14 DEF LineEndsSession, Sessions, Pending, Reads
  <2>3. CountExact'
    BY <1>14, <2>2, SameSessions DEF LineEndsSession, Reads
  <2>4. RoomAhead' /\ AdmittedWithinLimit'
    BY <1>14, <2>2 DEF LineEndsSession, RoomAhead, AdmittedWithinLimit, Reads
  <2> QED
    BY <2>1, <2>3, <2>4 DEF QuietInv
<1>15. ASSUME NEW c \in Conns, NEW s \in Inputs, NEW n \in Limits, NEW p \in Passwords,
              ReloadSucceeds(c, s, n, p) PROVE QuietInv'
  <2>1. LockOwned' /\ RegistersExact'
    BY <1>15 DEF ReloadSucceeds, LockOwned, RegistersExact, Reads
  <2>2. Sessions' = Sessions /\ threadCount' = threadCount
    BY <1>15 DEF ReloadSucceeds, Sessions, Pending, Reads
  <2>3. CountExact'
    BY <1>15, <2>2, SameSessions DEF ReloadSucceeds, Reads
  <2>4. RoomAhead' /\ AdmittedWithinLimit'
    BY <1>15, <2>2 DEF ReloadSucceeds, RoomAhead, AdmittedWithinLimit, Reads
  <2> QED
    BY <2>1, <2>3, <2>4 DEF QuietInv
<1>16. ASSUME NEW c \in Conns, SessionEnds(c) PROVE QuietInv'
  <2>1. LockOwned' /\ RegistersExact'
    BY <1>16 DEF SessionEnds, LockOwned, RegistersExact
  <2>2. Sessions' = Sessions /\ threadCount' = threadCount
    BY <1>16 DEF SessionEnds, Sessions, Pending
  <2>3. CountExact'
    BY <1>16, <2>2, SameSessions DEF SessionEnds
  <2>4. RoomAhead' /\ AdmittedWithinLimit'
    BY <1>16, <2>2 DEF SessionEnds, RoomAhead, AdmittedWithinLimit
  <2> QED
    BY <2>1, <2>3, <2>4 DEF QuietInv
<1>17. ASSUME NEW c \in Conns, DecLock(c) PROVE QuietInv'
  <2>1. LockOwned' /\ RegistersExact'
    BY <1>17 DEF DecLock, LockOwned, RegistersExact
  <2>2. Sessions' = Sessions /\ threadCount' = threadCount
    BY <1>17 DEF DecLock, Sessions, Pending
  <2>3. CountExact'
    BY <1>17, <2>2, SameSessions DEF DecLock
  <2>4. RoomAhead' /\ AdmittedWithinLimit'
    BY <1>17, <2>2 DEF DecLock, RoomAhead, AdmittedWithinLimit
  <2> QED
    BY <2>1, <2>3, <2>4 DEF QuietInv
<1>18. ASSUME NEW c \in Conns, DecLoad(c) PROVE QuietInv'
  <2>1. LockOwned' /\ RegistersExact'
    BY <1>18 DEF DecLoad, LockOwned, RegistersExact
  <2>2. Sessions' = Sessions /\ threadCount' = threadCount
    BY <1>18 DEF DecLoad, Sessions, Pending
  <2>3. CountExact'
    BY <1>18, <2>2, SameSessions DEF DecLoad
  <2>4. RoomAhead' /\ AdmittedWithinLimit'
    BY <1>18, <2>2 DEF DecLoad, RoomAhead, AdmittedWithinLimit
  <2> QED
    BY <2>1, <2>3, <2>4 DEF QuietInv
<1>19. ASSUME NEW c \in Conns, DecStore(c) PROVE QuietInv'
  <2>1. LockOwned' /\ RegistersExact'
    BY <1>19 DEF DecStore, LockOwned, RegistersExact
  <2>2. Sessions' = Sessions \ {c} /\ c \in Sessions
    BY <1>19 DEF DecStore, Sessions, Pending
  <2>3. /\ Cardinality(Sessions') = Cardinality(Sessions) - 1
        /\ Cardinality(Sessions) >= 1
    BY <2>2, SessionRemoved
  <2>4. Cardinality(Sessions) \in 0 .. Cardinality(Conns)
    BY SessionsFacts
  <2>5. CountExact'
    <3>1. CASE mpc # "exited"
      <4>1. reg[c] = Cardinality(Sessions)
        BY <1>19, <3>1 DEF DecStore, RegistersExact, CountExact
      <4>2. (reg[c] - 1) % Modulus = reg[c] - 1
        BY <4>1, <2>3, <2>4, NoWrap
      <4>3. threadCount' = Cardinality(Sessions')
        BY <1>19, <4>1, <4>2, <2>3 DEF DecStore
      <4> QED
        BY <4>3 DEF CountExact
    <3>2. CASE mpc = "exited"
      BY <1>19, <3>2 DEF DecStore, CountExact
    <3> QED
      BY <3>1, <3>2
  <2>6. mpc' = mpc /\ mlimit' = mlimit /\ mlimit \in Nat
    BY <1>19, LimitFacts DEF DecStore
  <2>7. RoomAhead' /\ AdmittedWithinLimit'
    <3>1. Cardinality(Sessions) \in Nat
      BY <2>4, NoWrap
    <3>2. /\ Cardinality(Sessions) < mlimit => Cardinality(Sessions)' < mlimit'
          /\ Cardinality(Sessions) <= mlimit => Cardinality(Sessions)' <= mlimit'
      BY <2>3, <2>6, <3>1
    <3> QED
      BY <2>6, <3>2 DEF RoomAhead, AdmittedWithinLimit
  <2> QED
    BY <2>1, <2>5, <2>7 DEF QuietInv
<1>20. ASSUME NEW c \in Conns, DecUnlock(c) PROVE QuietInv'
  <2>1. LockOwned' /\ RegistersExact'
    BY <1>20 DEF DecUnlock, LockOwned, RegistersExact
  <2>2. Sessions' = Sessions /\ threadCount' = threadCount
    BY <1>20 DEF DecUnlock, Sessions, Pending
  <2>3. CountExact'
    BY <1>20, <2>2, SameSessions DEF DecUnlock
  <2>4. RoomAhead' /\ AdmittedWithinLimit'
    BY <1>20, <2>2 DEF DecUnlock, RoomAhead, AdmittedWithinLimit
  <2> QED
    BY <2>1, <2>3, <2>4 DEF QuietInv
<1>21. ASSUME NEW c \in Conns, HandlerExits(c) PROVE QuietInv'
  <2>1. LockOwned' /\ RegistersExact'
    BY <1>21 DEF HandlerExits, LockOwned, RegistersExact
  <2>2. Sessions' = Sessions /\ threadCount' = threadCount
    BY <1>21 DEF HandlerExits, Sessions, Pending
  <2>3. CountExact'
    BY <1>21, <2>2, SameSessions DEF HandlerExits
  <2>4. RoomAhead' /\ AdmittedWithinLimit'
    BY <1>21, <2>2 DEF HandlerExits, RoomAhead, AdmittedWithinLimit
  <2> QED
    BY <2>1, <2>3, <2>4 DEF QuietInv
<1>22. CASE UNCHANGED vars
  <2>1. LockOwned' /\ RegistersExact'
    BY <1>22 DEF vars, LockOwned, RegistersExact
  <2>2. Sessions' = Sessions /\ threadCount' = threadCount /\ mpc' = mpc
    BY <1>22 DEF vars, Sessions, Pending
  <2>3. CountExact'
    BY <2>2, SameSessions
  <2>4. RoomAhead' /\ AdmittedWithinLimit'
    BY <1>22, <2>2 DEF vars, RoomAhead, AdmittedWithinLimit
  <2> QED
    BY <2>1, <2>3, <2>4 DEF QuietInv
<1> QED
  BY <1>1, <1>2, <1>3, <1>4, <1>5, <1>6, <1>7, <1>8, <1>9, <1>10, <1>11,
     <1>12, <1>13, <1>14, <1>15, <1>16, <1>17, <1>18, <1>19, <1>20, <1>21,
     <1>22, StepCases

(* The history variable never forgets.                                     *)
LEMMA StrayedStays == TypeOK /\ [Next]_vars /\ strayed => strayed'
<1> SUFFICES ASSUME TypeOK, [Next]_vars, strayed PROVE strayed'
  OBVIOUS
<1>1. CASE Refuse
  BY <1>1 DEF Refuse
<1>2. CASE ~Refuse
  BY <1>2, StepCases
  DEF vars, HostsDenied, RetrieveLimit, Check, IncLock, IncLoad, IncStore, IncUnlock,
      Spawn, ManagerExits, AcceptConn, LoginSucceeds, LineAnswered, LineEndsSession,
      ReloadSucceeds, SessionEnds, DecLock, DecLoad, DecStore, DecUnlock,
      HandlerExits
<1> QED
  BY <1>1, <1>2

(* Until a refusal unlocks a tc_lock somebody holds, the counter and its   *)
(* lock are as the code means them.                                        *)
THEOREM QuietCorrect == Spec => [](~strayed => QuietInv)
<1> DEFINE Inv == TypeOK /\ (~strayed => QuietInv)
<1>1. Init => Inv
  BY TypeInit, QuietInit
<1>2. Inv /\ [Next]_vars => Inv'
  BY TypeStep, QuietStep, StrayedStays
<1>3. Inv => (~strayed => QuietInv)
  OBVIOUS
<1> QED
  BY <1>1, <1>2, <1>3, PTL DEF Spec

(* thread_count is the number of sessions, however ++ and -- interleave.   *)
THEOREM ThreadCountExact == Spec => [](~strayed => CountExact)
BY QuietCorrect, PTL DEF QuietInv

(* The unlocked comparison never admits a session too many.                *)
THEOREM NeverTooMany == Spec => [](~strayed => AdmittedWithinLimit)
BY QuietCorrect, PTL DEF QuietInv

(* A quiet behaviour is one of Spec, and stays quiet.                      *)
LEMMA QuietIsSpec == QuietSpec => Spec /\ [](~strayed)
<1>1. Init => ~strayed
  BY DEF Init
<1>2. ~strayed /\ [Next /\ ~strayed']_vars => ~strayed'
  BY DEF vars
<1>3. [Next /\ ~strayed']_vars => [Next]_vars
  OBVIOUS
<1> QED
  BY <1>1, <1>2, <1>3, PTL DEF QuietSpec, Spec

(* A client is turned away only when every place is taken.                 *)
THEOREM RefusedRightly == QuietSpec => RefusedOnlyWhenFull
<1> DEFINE Refused == mpc = "check" /\ mpc' = "refuse"
                      => Cardinality(Sessions) >= mlimit
<1>1. TypeOK /\ QuietInv /\ [Next]_vars => [Refused]_vars
  <2> SUFFICES ASSUME TypeOK, QuietInv, [Next]_vars, mpc = "check", mpc' = "refuse"
               PROVE  Cardinality(Sessions) >= mlimit
    OBVIOUS
  <2>1. Check
    BY StepCases
    DEF vars, HostsDenied, RetrieveLimit, Refuse, IncLock, IncLoad, IncStore, IncUnlock,
        Spawn, ManagerExits, AcceptConn, LoginSucceeds, LineAnswered, LineEndsSession,
        ReloadSucceeds, SessionEnds, DecLock, DecLoad, DecStore, DecUnlock,
        HandlerExits, CloseAndAccept, mgrVars
  <2>2. threadCount = Cardinality(Sessions)
    BY DEF QuietInv, CountExact
  <2> QED
    BY <2>1, <2>2 DEF Check
<1>2. RefusedOnlyWhenFull <=> [][Refused]_vars
  BY DEF RefusedOnlyWhenFull
<1> QED
  BY <1>1, <1>2, QuietIsSpec, TypeCorrect, QuietCorrect, PTL DEF Spec

-----------------------------------------------------------------------------
(* What a line is, and what LOGIN in it says.                              *)

(* The lesser of two numbers.                                              *)
LEMMA LesserOfTwo ==
  ASSUME NEW a \in Nat, NEW b \in Nat
  PROVE  Min({a, b}) = IF a <= b THEN a ELSE b
BY LeastExists

(* The state after each character comes from check_crlf.                   *)
LEMMA StatesFacts ==
  ASSUME NEW t \in Seq(STRING), NEW state
  PROVE  /\ Len(t) \in Nat
         /\ Len(States(t, state)) = Len(t) + 1
         /\ States(t, state)[1] = state
         /\ \A i \in 1 .. Len(t) :
              States(t, state)[i + 1] = check_crlf(t[i], States(t, state)[i])
<1> DEFINE Spells(f) == f = [i \in 0 .. Len(t) |-> IF i = 0 THEN state
                                       ELSE check_crlf(t[i], f[i - 1])]
           before(i) == IF i = 1 THEN state
                        ELSE IF t[i - 1] = "CR" THEN "CR_FOUND" ELSE "NONE"
           g == [i \in 0 .. Len(t) |-> IF i = 0 THEN state
                                       ELSE check_crlf(t[i], before(i))]
           after == CHOOSE f : Spells(f)
<1>1. Spells(g)
  <2>1. Len(t) \in Nat
    OBVIOUS
  <2>2. ASSUME NEW i \in 1 .. Len(t)
        PROVE  check_crlf(t[i], before(i)) = check_crlf(t[i], g[i - 1])
    <3>1. CASE i = 1
      BY <3>1, <2>1
    <3>2. CASE i # 1
      <4>1. i - 1 \in 1 .. Len(t) /\ i - 1 \in 0 .. Len(t) /\ i - 1 # 0
        BY <3>2, <2>1
      <4>2. g[i - 1] = check_crlf(t[i - 1], before(i - 1))
        BY <4>1
      <4>3. g[i - 1] = "CR_FOUND" <=> before(i) = "CR_FOUND"
        BY <4>2, <3>2 DEF check_crlf
      <4> QED
        BY <4>3 DEF check_crlf
    <3> QED
      BY <3>1, <3>2
  <2>3. \A i \in 0 .. Len(t) :
          (IF i = 0 THEN state ELSE check_crlf(t[i], before(i)))
          = (IF i = 0 THEN state ELSE check_crlf(t[i], g[i - 1]))
    BY <2>1, <2>2
  <2> HIDE DEF before
  <2> QED
    BY <2>3
<1>2. Spells(after)
  BY <1>1
<1>3. States(t, state) = [i \in 1 .. Len(t) + 1 |-> after[i - 1]]
  BY DEF States
<1> HIDE DEF after
<1>4. after[0] = state /\ Len(t) \in Nat
  BY <1>2
<1>5. \A i \in 1 .. Len(t) : after[i] = check_crlf(t[i], after[i - 1])
  BY <1>2, <1>4
<1>6. \A i \in 1 .. Len(t) :
        States(t, state)[i] = after[i - 1] /\ States(t, state)[i + 1] = after[i]
  BY <1>3, <1>4
<1> QED
  BY <1>3, <1>4, <1>5, <1>6

(* Where a line ends in a text that follows a state.                       *)
Ends(t, state) ==
  {i \in 1 .. Len(t) :
     t[i] = "LF" /\ IF i = 1 THEN state = "CR_FOUND" ELSE t[i - 1] = "CR"}

(* A line ends where check_crlf says so.                                   *)
LEMMA CRLFFound ==
  ASSUME NEW t \in Seq(STRING), NEW state \in {"NONE", "CR_FOUND"}
  PROVE  \A i \in 1 .. Len(t) + 1 :
           States(t, state)[i] = "CRLF_FOUND" <=> i > 1 /\ i - 1 \in Ends(t, state)
<1> DEFINE s == States(t, state)
<1> HIDE DEF s
<1>1. /\ s[1] = state /\ Len(t) \in Nat
      /\ \A i \in 1 .. Len(t) : s[i + 1] = check_crlf(t[i], s[i])
  BY StatesFacts DEF s
<1>2. \A i \in 2 .. Len(t) + 1 : s[i] = check_crlf(t[i - 1], s[i - 1])
  <2> TAKE i \in 2 .. Len(t) + 1
  <2>1. i - 1 \in 1 .. Len(t) /\ (i - 1) + 1 = i
    BY <1>1
  <2> QED
    BY <1>1, <2>1
<1>3. ASSUME NEW i \in 2 .. Len(t) + 1
      PROVE  s[i] = "CR_FOUND" <=> t[i - 1] = "CR"
  BY <1>2 DEF check_crlf
<1>4. ASSUME NEW i \in 2 .. Len(t) + 1
      PROVE  s[i] = "CRLF_FOUND" <=> i - 1 \in Ends(t, state)
  <2>1. s[i] = "CRLF_FOUND" <=> t[i - 1] = "LF" /\ s[i - 1] = "CR_FOUND"
    BY <1>2 DEF check_crlf
  <2>2. CASE i = 2
    BY <2>1, <2>2, <1>1 DEF Ends
  <2>3. CASE i # 2
    <3>1. i - 1 \in 2 .. Len(t) + 1 /\ i - 1 \in 1 .. Len(t) /\ i - 1 # 1
      BY <2>3, <1>1
    <3>2. s[i - 1] = "CR_FOUND" <=> t[(i - 1) - 1] = "CR"
      BY <3>1, <1>3
    <3> QED
      BY <2>1, <3>1, <3>2 DEF Ends
  <2> QED
    BY <2>2, <2>3
<1>5. s[1] # "CRLF_FOUND"
  BY <1>1
<1> QED
  BY <1>1, <1>4, <1>5 DEF s

(* Taken is the first of them.                                             *)
LEMMA TakenIsFirst ==
  ASSUME NEW t \in Seq(STRING), NEW state \in {"NONE", "CR_FOUND"}
  PROVE  /\ Taken(t, state) \in Nat
         /\ Taken(t, state) = 0 => Ends(t, state) = {}
         /\ Taken(t, state) # 0 =>
              /\ Taken(t, state) \in Ends(t, state)
              /\ \A i \in Ends(t, state) : Taken(t, state) <= i
<1> DEFINE s == States(t, state)
           I == {i \in 1 .. Len(s) : s[i] = "CRLF_FOUND"}
           end == IF I # {} THEN Min(I) ELSE 0
<1>1. Len(t) \in Nat /\ Len(s) = Len(t) + 1
  BY StatesFacts
<1>2. \A i : i \in I <=> i \in 1 .. Len(t) + 1 /\ i > 1 /\ i - 1 \in Ends(t, state)
  BY <1>1, CRLFFound
<1>3. \A i \in Ends(t, state) : i \in 1 .. Len(t) /\ i + 1 \in I
  <2> TAKE i \in Ends(t, state)
  <2>1. i \in 1 .. Len(t)
    BY DEF Ends
  <2>2. i + 1 \in 1 .. Len(t) + 1 /\ i + 1 > 1 /\ (i + 1) - 1 = i
    BY <2>1, <1>1
  <2> QED
    BY <2>1, <2>2, <1>2
<1>4. Taken(t, state) = IF end = 0 THEN 0 ELSE end - 1
  BY DEF Taken, SelectInSeq
<1> HIDE DEF s, I
<1>5. CASE I = {}
  BY <1>3, <1>4, <1>5
<1>6. CASE I # {}
  <2>1. I \in SUBSET Nat
    BY <1>2, <1>1
  <2>2. Min(I) \in I /\ \A i \in I : Min(I) <= i
    BY <2>1, <1>6, LeastExists
  <2> DEFINE m == Min(I)
  <2> HIDE DEF m
  <2>3. m \in I /\ m \in Nat /\ m > 1 /\ m - 1 \in Ends(t, state)
    BY <2>1, <2>2, <1>2 DEF m
  <2>4. Taken(t, state) = m - 1
    BY <1>4, <1>6, <2>3 DEF m
  <2>5. \A i \in Ends(t, state) : m - 1 <= i
    <3> TAKE i \in Ends(t, state)
    <3>1. m <= i + 1 /\ i \in Nat
      BY <1>3, <1>1, <2>2 DEF m
    <3> QED
      BY <2>3, <3>1
  <2> QED
    BY <2>3, <2>4, <2>5
<1> QED
  BY <1>5, <1>6

(* read_line takes exactly one line, be it too long for the buffer or not. *)
LEMMA ReadLineTakesOne ==
  ASSUME NEW s \in Seq(STRING), s # <<>>, ReadTaken(s) = Len(s)
  PROVE  OneLine(s)
<1> DEFINE n == Len(s)
           r == Room(s)
           state == Last(States(r, "NONE"))
           d == Dust(s)
<1>1. n \in Nat \ {0} /\ MAX_CMD_LEN \in Nat \ {0}
  BY InputsAssumption, EmptySeq
<1>2. /\ r \in Seq(STRING)
      /\ Len(r) = IF n <= MAX_CMD_LEN + 1 THEN n ELSE MAX_CMD_LEN + 1
      /\ \A i \in 1 .. Len(r) : r[i] = s[i]
  <2> DEFINE k == IF n <= MAX_CMD_LEN + 1 THEN n ELSE MAX_CMD_LEN + 1
  <2>1. r = SubSeq(s, 1, k) /\ k \in 1 .. n
    BY <1>1, LesserOfTwo DEF Room
  <2> HIDE DEF k
  <2>2. \A i \in 1 .. k : s[i] \in STRING
    BY <2>1
  <2> QED
    BY <2>1, <2>2, <1>1 DEF k
<1>3. /\ d \in Seq(STRING)
      /\ Len(d) = IF n <= MAX_CMD_LEN + 1 THEN 0 ELSE n - (MAX_CMD_LEN + 1)
      /\ \A i \in 1 .. Len(d) : d[i] = s[MAX_CMD_LEN + 1 + i]
  BY <1>1 DEF Dust
<1> USE DEF ReadTaken
<1>4. Taken(r, "NONE") = 0 => ReadTaken(s) = IF Taken(d, state) # 0 THEN Len(r) + Taken(d, state) ELSE 0
  BY DEF ReadTaken, read_dust
<1>5. Taken(r, "NONE") # 0 => ReadTaken(s) = Taken(r, "NONE")
  BY DEF ReadTaken
<1> HIDE DEF r, d, state, ReadTaken
<1> USE <1>1
<1>6. ASSUME NEW j \in 1 .. n - 1, s[j] = "CR", s[j + 1] = "LF", j + 1 <= Len(r)
      PROVE  j + 1 \in Ends(r, "NONE")
  BY <1>2, <1>6 DEF Ends
<1>7. CASE Taken(r, "NONE") # 0
  <2>1. n \in Ends(r, "NONE") /\ \A i \in Ends(r, "NONE") : n <= i
    BY <1>5, <1>7, <1>2, TakenIsFirst
  <2>2. n <= Len(r) /\ n > 1 /\ s[n] = "LF" /\ s[n - 1] = "CR"
    BY <2>1, <1>2 DEF Ends
  <2>3. ASSUME NEW j \in 1 .. n - 1, s[j] = "CR", s[j + 1] = "LF"
        PROVE  j = n - 1
    <3>1. j + 1 <= Len(r)
      BY <2>2, <1>2
    <3>2. n <= j + 1
      BY <2>1, <2>3, <3>1, <1>6
    <3> QED
      BY <3>2
  <2> QED
    BY <2>2, <2>3 DEF OneLine
<1>8. CASE Taken(r, "NONE") = 0
  <2>1. /\ Taken(d, state) # 0
        /\ n = Len(r) + Taken(d, state)
    BY <1>4, <1>8
  <2>2. Len(r) \in Nat \ {0} /\ Len(r) <= n
    BY <1>2
  <2>3. /\ state = States(r, "NONE")[Len(r) + 1]
        /\ state = check_crlf(r[Len(r)], States(r, "NONE")[Len(r)])
    BY <1>2, <2>2, StatesFacts DEF state, Last
  <2>4. state # "CRLF_FOUND"
    <3>1. Len(r) \notin Ends(r, "NONE")
      BY <1>2, <1>8, TakenIsFirst
    <3> QED
      BY <1>2, <2>2, <2>3, <3>1, CRLFFound
  <2>5. /\ state \in {"NONE", "CR_FOUND"}
        /\ state = "CR_FOUND" <=> r[Len(r)] = "CR"
    BY <2>3, <2>4 DEF check_crlf
  <2>6. /\ Taken(d, state) \in Ends(d, state)
        /\ \A i \in Ends(d, state) : Taken(d, state) <= i
    BY <1>3, <2>1, <2>5, TakenIsFirst
  <2>7. /\ Taken(d, state) \in 1 .. Len(d)
        /\ Len(r) = MAX_CMD_LEN + 1 /\ Len(d) = n - Len(r)
    BY <1>2, <1>3, <2>6 DEF Ends
  <2>8. \A i \in 1 .. Len(d) :
          i \in Ends(d, state) <=> s[Len(r) + i] = "LF" /\ s[Len(r) + i - 1] = "CR"
    <3> TAKE i \in 1 .. Len(d)
    <3>1. d[i] = s[Len(r) + i]
      BY <1>3, <2>7
    <3>2. CASE i = 1
      <4>1. r[Len(r)] = s[Len(r) + i - 1]
        BY <1>2, <2>2, <3>2
      <4> QED
        BY <2>5, <3>1, <3>2, <4>1 DEF Ends
    <3>3. CASE i # 1
      <4>1. i - 1 \in 1 .. Len(d)
        BY <3>3
      <4>2. d[i - 1] = s[Len(r) + i - 1]
        BY <1>3, <2>7, <4>1
      <4> QED
        BY <3>1, <3>3, <4>2 DEF Ends
    <3> QED
      BY <3>2, <3>3
  <2>9. s[n] = "LF" /\ s[n - 1] = "CR" /\ n > 1
    BY <2>1, <2>2, <2>6, <2>7, <2>8
  <2>10. ASSUME NEW j \in 1 .. n - 1, s[j] = "CR", s[j + 1] = "LF"
         PROVE  j = n - 1
    <3>1. j + 1 > Len(r)
      BY <1>2, <1>6, <1>8, <2>10, TakenIsFirst
    <3> DEFINE i == j + 1 - Len(r)
    <3>2. i \in 1 .. Len(d) /\ Len(r) + i = j + 1 /\ Len(r) + i - 1 = j
      BY <2>2, <2>7, <3>1
    <3>3. i \in Ends(d, state)
      BY <2>8, <2>10, <3>2
    <3>4. Taken(d, state) <= i
      BY <2>6, <3>3
    <3> QED
      BY <2>1, <2>2, <2>7, <3>2, <3>4, SMTT(20)
  <2> QED
    BY <2>9, <2>10 DEF OneLine
<1> QED
  BY <1>7, <1>8

(* What read_line makes of a text it takes as a whole.                     *)
LEMMA ReadLineText ==
  ASSUME NEW s \in Seq(STRING), s # <<>>, ReadTaken(s) = Len(s)
  PROVE  \/ read_line(s) = R_TOOLONG
         \/ /\ Len(s) >= 2 /\ s[Len(s) - 1] = "CR" /\ s[Len(s)] = "LF"
            /\ read_line(s) = SubSeq(s, 1, Len(s) - 2)
<1>1. Len(s) \in Nat \ {0}
  BY EmptySeq
<1>2. Len(s) - 1 \in 1 .. Len(s) - 1 /\ s[Len(s) - 1] = "CR" /\ s[Len(s) - 1 + 1] = "LF"
  BY ReadLineTakesOne DEF OneLine
<1>3. Taken(Room(s), "NONE") # 0 => Taken(Room(s), "NONE") = Len(s)
  BY DEF ReadTaken
<1> QED
  BY <1>1, <1>2, <1>3 DEF read_line

(* The first word begins at the first character that is not a blank.       *)
LEMMA FirstWordFacts ==
  ASSUME NEW t, Len(t) \in Nat
  PROVE  /\ FirstWordAt(t) = 0 => \A i \in 1 .. Len(t) : IsBlank(t[i])
         /\ FirstWordAt(t) # 0 =>
              /\ FirstWordAt(t) \in 1 .. Len(t) /\ ~IsBlank(t[FirstWordAt(t)])
              /\ \A i \in 1 .. FirstWordAt(t) - 1 : IsBlank(t[i])
<1> DEFINE I == {i \in 1 .. Len(t) : ~IsBlank(t[i])}
<1>1. FirstWordAt(t) = IF I # {} THEN Min(I) ELSE 0
  BY DEF FirstWordAt, SelectInSeq
<1>2. Len(t) \in Nat /\ I \in SUBSET Nat
  OBVIOUS
<1>3. CASE I = {}
  BY <1>1, <1>3
<1>4. CASE I # {}
  <2>1. Min(I) \in I /\ \A i \in I : Min(I) <= i
    BY <1>2, <1>4, LeastExists
  <2> DEFINE m == Min(I)
  <2>2. FirstWordAt(t) = m
    BY <1>1, <1>4
  <2> HIDE DEF m
  <2>3. m \in 1 .. Len(t) /\ ~IsBlank(t[m])
    BY <2>1 DEF m
  <2>4. \A i \in 1 .. m - 1 : IsBlank(t[i])
    <3> SUFFICES ASSUME NEW i \in 1 .. m - 1, ~IsBlank(t[i]) PROVE FALSE
      OBVIOUS
    <3>1. i \in I
      BY <1>2, <2>3
    <3> QED
      BY <1>2, <2>1, <2>3, <3>1 DEF m
  <2> QED
    BY <1>2, <2>2, <2>3, <2>4
<1> QED
  BY <1>3, <1>4

(* A word ends before the next blank, or with the text.                    *)
LEMMA EndOfFacts ==
  ASSUME NEW t \in Seq(STRING), NEW i \in 1 .. Len(t), ~IsBlank(t[i])
  PROVE  /\ EndOf(t, i) \in i .. Len(t)
         /\ EndOf(t, i) < Len(t) => IsBlank(t[EndOf(t, i) + 1])
<1> DEFINE I == {j \in i .. Len(t) : IsBlank(t[j])}
           blank == IF I # {} THEN Min(I) ELSE 0
<1>1. EndOf(t, i) = IF blank = 0 THEN Len(t) ELSE blank - 1
  BY DEF EndOf, SelectInSubSeq
<1>2. Len(t) \in Nat /\ I \in SUBSET Nat
  OBVIOUS
<1>3. CASE I = {}
  BY <1>1, <1>2, <1>3
<1>4. CASE I # {}
  <2>1. Min(I) \in I
    BY <1>2, <1>4, LeastExists
  <2> DEFINE m == Min(I)
  <2>2. m \in i .. Len(t) /\ IsBlank(t[m])
    BY <2>1
  <2>3. blank = m
    BY <1>4
  <2> HIDE DEF m, blank
  <2>4. m # i
    BY <2>2
  <2>5. EndOf(t, i) = m - 1
    BY <1>1, <2>2, <2>3, <1>2
  <2> QED
    BY <1>2, <2>2, <2>4, <2>5
<1> QED
  BY <1>3, <1>4

(* One argument is blanks, a word, and blanks.                             *)
LEMMA OneArgument ==
  ASSUME NEW arg \in Seq(STRING), Cardinality(Starts(arg)) = 1
  PROVE  LET i == FirstWordAt(arg)
             e == EndOf(arg, i)
         IN  /\ i \in 1 .. Len(arg) /\ e \in i .. Len(arg)
             /\ \A j \in 1 .. i - 1 : arg[j] = "SP"
             /\ \A j \in e + 1 .. Len(arg) : arg[j] = "SP"
<1> DEFINE i == FirstWordAt(arg)
           e == EndOf(arg, i)
<1>0. Len(arg) \in Nat
  OBVIOUS
<1>1. PICK w : Starts(arg) = {w}
  <2>1. IsFiniteSet(DOMAIN arg)
    BY <1>0, FS_Interval
  <2>2. Starts(arg) \in SUBSET DOMAIN arg
    BY DEF Starts
  <2> QED
    BY <2>1, <2>2, FS_Subset, FS_Singleton
<1>2. w \in 1 .. Len(arg) /\ ~IsBlank(arg[w])
  BY <1>1, SMTT(20) DEF Starts
<1>3. /\ i \in 1 .. Len(arg) /\ ~IsBlank(arg[i])
      /\ \A j \in 1 .. i - 1 : IsBlank(arg[j])
  BY <1>2, FirstWordFacts
<1> HIDE DEF i
<1>4. /\ e \in i .. Len(arg)
      /\ e < Len(arg) => IsBlank(arg[e + 1])
  BY <1>3, EndOfFacts
<1> HIDE DEF e
<1>5. i = w
  <2>1. i \in Starts(arg)
    <3>1. i = 1 \/ i - 1 \in 1 .. i - 1
      BY <1>3, <1>0
    <3> QED
      BY <1>3, <3>1 DEF Starts
  <2> QED
    BY <1>1, <2>1
<1>6. \A j \in e + 1 .. Len(arg) : IsBlank(arg[j])
  <2> DEFINE Q == {j \in e + 1 .. Len(arg) : ~IsBlank(arg[j])}
  <2> SUFFICES ASSUME Q # {} PROVE FALSE
    OBVIOUS
  <2>1. Q \in SUBSET Nat
    BY <1>0, <1>3, <1>4
  <2>2. Min(Q) \in Q /\ \A j \in Q : Min(Q) <= j
    BY <2>1, LeastExists
  <2> DEFINE q == Min(Q)
  <2>3. q \in e + 1 .. Len(arg) /\ ~IsBlank(arg[q])
    BY <2>2
  <2>4. \A j \in Q : q <= j
    BY <2>2
  <2> HIDE DEF q
  <2>5. q - 1 \in e + 1 .. Len(arg) /\ q - 1 \notin Q
    <3>1. q # e + 1
      BY <1>0, <1>3, <1>4, <2>3
    <3> QED
      BY <1>0, <1>3, <1>4, <2>3, <2>4, <3>1
  <2>6. q \in Starts(arg)
    BY <1>0, <1>3, <1>4, <2>3, <2>5 DEF Starts
  <2> QED
    BY <1>0, <1>1, <1>3, <1>4, <1>5, <2>3, <2>6
<1> QED
  BY <1>3, <1>4, <1>6 DEF IsBlank, i, e

(* Blanks in a row.                                                        *)
LEMMA BlanksAre ==
  ASSUME NEW s \in Seq(STRING), NEW a \in 0 .. Len(s), NEW b \in a .. Len(s),
         \A j \in a + 1 .. b : s[j] = "SP"
  PROVE  SubSeq(s, a + 1, b) = Blanks(b - a) /\ b - a \in 0 .. Len(s)
<1>1. Len(s) \in Nat
  OBVIOUS
<1>2. b - a \in Nat /\ b - a <= Len(s)
  BY <1>1
<1>3. Blanks(b - a) \in Seq(STRING) /\ Len(Blanks(b - a)) = b - a
      /\ \A j \in 1 .. b - a : Blanks(b - a)[j] = "SP"
  BY <1>2 DEF Blanks
<1>4. /\ SubSeq(s, a + 1, b) \in Seq(STRING)
      /\ Len(SubSeq(s, a + 1, b)) = b - a
      /\ \A j \in 1 .. b - a : SubSeq(s, a + 1, b)[j] = s[a + j]
  BY <1>1
<1>5. \A j \in 1 .. b - a : s[a + j] = "SP"
  BY <1>1
<1>6. SubSeq(s, a + 1, b) = Blanks(b - a)
  BY <1>3, <1>4, <1>5, SeqEqual, SMTT(40)
<1> QED
  BY <1>1, <1>2, <1>6

(* A text cut in six pieces.                                               *)
LEMMA SixPieces ==
  ASSUME NEW s \in Seq(STRING), NEW p \in 0 .. Len(s), NEW q \in p .. Len(s),
         NEW u \in q .. Len(s), NEW v \in u .. Len(s), NEW w \in v .. Len(s)
  PROVE  s = SubSeq(s, 1, p) \o SubSeq(s, p + 1, q) \o SubSeq(s, q + 1, u)
               \o SubSeq(s, u + 1, v) \o SubSeq(s, v + 1, w)
               \o SubSeq(s, w + 1, Len(s))
<1>1. Len(s) \in Nat /\ 1 \in 1 .. Len(s) + 1 /\ Len(s) \in w .. Len(s)
  OBVIOUS
<1>2. /\ p \in 1 - 1 .. Len(s) /\ q \in 1 - 1 .. Len(s) /\ u \in 1 - 1 .. Len(s)
      /\ v \in 1 - 1 .. Len(s) /\ w \in 1 - 1 .. Len(s)
  BY <1>1
<1>3. SubSeq(s, 1, p) \o SubSeq(s, p + 1, q) = SubSeq(s, 1, q)
  BY <1>1, <1>2, ConcatAdjacentSubSeq
<1>4. SubSeq(s, 1, q) \o SubSeq(s, q + 1, u) = SubSeq(s, 1, u)
  BY <1>1, <1>2, ConcatAdjacentSubSeq
<1>5. SubSeq(s, 1, u) \o SubSeq(s, u + 1, v) = SubSeq(s, 1, v)
  BY <1>1, <1>2, ConcatAdjacentSubSeq
<1>6. SubSeq(s, 1, v) \o SubSeq(s, v + 1, w) = SubSeq(s, 1, w)
  BY <1>1, <1>2, ConcatAdjacentSubSeq
<1>7. SubSeq(s, 1, w) \o SubSeq(s, w + 1, Len(s)) = SubSeq(s, 1, Len(s))
  BY <1>1, <1>2, ConcatAdjacentSubSeq
<1>8. SubSeq(s, 1, Len(s)) = s
  BY SubSeqFull
<1> QED
  BY <1>3, <1>4, <1>5, <1>6, <1>7, <1>8, Zenon

(* One character.                                                          *)
LEMMA OneCharacter ==
  ASSUME NEW s \in Seq(STRING), NEW i \in 1 .. Len(s)
  PROVE  SubSeq(s, i, i) = <<s[i]>>
<1>1. Len(s) \in Nat /\ s[i] \in STRING
  OBVIOUS
<1>2. i \in i .. Len(s) /\ i + 1 > i /\ i \in Int /\ i + 1 \in Int
  BY <1>1
<1>3. SubSeq(s, i, i) = <<s[i]>> \o SubSeq(s, i + 1, i)
  BY <1>2, SubSeqRecursiveFirst
<1>4. SubSeq(s, i + 1, i) = <<>>
  BY <1>2, SubSeqEmpty
<1>5. <<s[i]>> \in Seq(STRING)
  BY <1>1
<1> QED
  BY <1>3, <1>4, <1>5, ConcatEmptySeq

(* Two characters.                                                         *)
LEMMA TwoCharacters ==
  ASSUME NEW s \in Seq(STRING), NEW i \in 1 .. Len(s) - 1
  PROVE  SubSeq(s, i, i + 1) = <<s[i], s[i + 1]>>
<1>1. Len(s) \in Nat /\ s[i] \in STRING /\ s[i + 1] \in STRING
  OBVIOUS
<1>2. i \in 1 .. Len(s) /\ i + 1 \in 1 .. Len(s) /\ i + 1 \in i .. Len(s)
  BY <1>1
<1>3. /\ SubSeq(s, i, i + 1) \in Seq(STRING)
      /\ Len(SubSeq(s, i, i + 1)) = 2
      /\ SubSeq(s, i, i + 1)[1] = s[i] /\ SubSeq(s, i, i + 1)[2] = s[i + 1]
  BY <1>1, <1>2
<1>4. <<s[i], s[i + 1]>> \in Seq(STRING) /\ Len(<<s[i], s[i + 1]>>) = 2
  BY <1>1
<1>5. \A j \in 1 .. 2 : SubSeq(s, i, i + 1)[j] = <<s[i], s[i + 1]>>[j]
  BY <1>3
<1> QED
  BY <1>3, <1>4, <1>5, SeqEqual

(* Who is taken to give the password pw says LOGIN and pw, nothing else.   *)
LEMMA LoginIsSaid ==
  ASSUME NEW s \in Seq(STRING), s # <<>>, ReadTaken(s) = Len(s),
         NEW pw, Command(read_line(s)) = "LOGIN", ~SyntaxError(read_line(s)),
         Param(Arg(read_line(s))) = pw
  PROVE  SaysLogin(s, pw)
<1> DEFINE line == read_line(s)
           at == FirstWordAt(line)
           arg == Arg(line)
           i == FirstWordAt(arg)
           e == EndOf(arg, i)
           n == Len(s)
<1>1. n \in Nat
  OBVIOUS
<1>2. line # R_TOOLONG
  <2> SUFFICES Command(R_TOOLONG) # "LOGIN"
    OBVIOUS
  <2>1. Len(R_TOOLONG) = 1 /\ R_TOOLONG[1] = "TOOLONG"
    BY DEF R_TOOLONG
  <2>2. FirstWordAt(R_TOOLONG) \in {0, 1}
    BY <2>1, FirstWordFacts
  <2> QED
    BY <2>1, <2>2, FirstWordFacts DEF Command
<1>3. /\ n >= 2 /\ s[n - 1] = "CR" /\ s[n] = "LF"
      /\ line = SubSeq(s, 1, n - 2)
  BY <1>2, ReadLineText
<1>4. /\ line \in Seq(STRING) /\ Len(line) = n - 2
      /\ \A j \in 1 .. n - 2 : line[j] = s[j]
  BY <1>1, <1>3
<1> HIDE DEF line
<1>5. /\ at # 0 /\ line[at] = "LOGIN"
      /\ at = Len(line) \/ IsBlank(line[at + 1])
  BY DEF Command, line
<1>6. at \in 1 .. n - 2 /\ \A j \in 1 .. at - 1 : s[j] = "SP"
  <2>1. at \in 1 .. Len(line) /\ \A j \in 1 .. at - 1 : IsBlank(line[j])
    BY <1>4, <1>5, FirstWordFacts
  <2> QED
    BY <1>1, <1>3, <1>4, <2>1 DEF IsBlank
<1> HIDE DEF at
<1>7. /\ arg \in Seq(STRING) /\ Len(arg) = n - 2 - at
      /\ \A j \in 1 .. Len(arg) : arg[j] = s[at + j]
  BY <1>1, <1>3, <1>4, <1>6, SMTT(20) DEF Arg, at
<1>8. Cardinality(Starts(arg)) = 1
  <2>1. parse_arg(arg, 2) = 1
    BY DEF SyntaxError, line
  <2> QED
    BY <2>1 DEF parse_arg
<1>9. Param(arg) = SubSeq(arg, i, e)
  BY DEF Param
<1> HIDE DEF arg
<1>10. /\ i \in 1 .. Len(arg) /\ e \in i .. Len(arg)
       /\ \A j \in 1 .. i - 1 : arg[j] = "SP"
       /\ \A j \in e + 1 .. Len(arg) : arg[j] = "SP"
  BY <1>7, <1>8, OneArgument
<1>11. ~IsBlank(arg[i])
  BY <1>7, <1>10, FirstWordFacts
<1> HIDE DEF i, e
<1>12. i # 1
  <2>1. at # Len(line)
    BY <1>1, <1>3, <1>4, <1>6, <1>7, <1>10
  <2>2. IsBlank(arg[1])
    BY <1>1, <1>3, <1>4, <1>5, <1>6, <1>7, <1>10, <2>1
  <2> QED
    BY <2>2, <1>11
<1> DEFINE p == at - 1
           u == at + i - 1
           v == at + e
           w == n - 2
<1>13. /\ p \in 0 .. n /\ at \in p .. n /\ u \in at .. n /\ v \in u .. n /\ w \in v .. n
       /\ p \in 0 .. n /\ at \in 0 .. n /\ v \in 0 .. n
       /\ p + 1 = at /\ u - at > 0 /\ w + 1 = n - 1
  BY <1>1, <1>3, <1>6, <1>7, <1>10, <1>12
<1>14. SubSeq(s, 1, p) = Blanks(p)
  <2>1. \A j \in 0 + 1 .. p : s[j] = "SP"
    BY <1>6
  <2>2. SubSeq(s, 0 + 1, p) = Blanks(p - 0)
    BY <1>1, <1>13, <2>1, BlanksAre
  <2> QED
    BY <2>2, <1>13
<1>15. SubSeq(s, p + 1, at) = <<"LOGIN">>
  BY <1>1, <1>4, <1>5, <1>6, <1>13, OneCharacter
<1>16. SubSeq(s, at + 1, u) = Blanks(u - at) /\ u - at \in 0 .. n
  <2>1. \A j \in at + 1 .. u : s[j] = "SP"
    <3> TAKE j \in at + 1 .. u
    <3>1. j - at \in 1 .. i - 1 /\ j - at \in 1 .. Len(arg) /\ at + (j - at) = j
      BY <1>1, <1>6, <1>7, <1>10
    <3> QED
      BY <1>7, <1>10, <3>1
  <2> QED
    BY <1>1, <1>13, <2>1, BlanksAre
<1>17. SubSeq(s, u + 1, v) = pw
  <2>1. u + 1 = at + i
    BY <1>1, <1>6, <1>7, <1>10
  <2>2. SubSeq(s, at + i, at + e) = SubSeq(arg, i, e)
    BY <1>1, <1>6, <1>7, <1>10, SeqEqual
  <2> QED
    BY <1>9, <2>1, <2>2 DEF arg, line
<1>18. SubSeq(s, v + 1, w) = Blanks(w - v) /\ w - v \in 0 .. n
  <2>1. \A j \in v + 1 .. w : s[j] = "SP"
    <3> TAKE j \in v + 1 .. w
    <3>1. j - at \in e + 1 .. Len(arg) /\ j - at \in 1 .. Len(arg) /\ at + (j - at) = j
      BY <1>1, <1>6, <1>7, <1>10
    <3> QED
      BY <1>7, <1>10, <3>1
  <2> QED
    BY <1>1, <1>13, <2>1, BlanksAre
<1>19. SubSeq(s, w + 1, n) = <<"CR", "LF">>
  <2>1. n - 1 \in 1 .. n - 1 /\ w + 1 = n - 1 /\ (n - 1) + 1 = n
    BY <1>1, <1>3
  <2> QED
    BY <1>3, <2>1, TwoCharacters
<1>20. s = SubSeq(s, 1, p) \o SubSeq(s, p + 1, at) \o SubSeq(s, at + 1, u)
             \o SubSeq(s, u + 1, v) \o SubSeq(s, v + 1, w) \o SubSeq(s, w + 1, n)
  BY <1>13, SixPieces, ZenonT(60)
<1>21. s = Blanks(p) \o <<"LOGIN">> \o Blanks(u - at) \o pw \o Blanks(w - v)
             \o <<"CR", "LF">>
  BY <1>14, <1>15, <1>16, <1>17, <1>18, <1>19, <1>20
<1>22. OneLine(s)
  BY ReadLineTakesOne
<1> QED
  BY <1>13, <1>16, <1>18, <1>21, <1>22 DEF SaysLogin

-----------------------------------------------------------------------------
(* Who may RELOAD.  A session starts in step and without LOGIN_STATE_AUTH; *)
(* it has that state only after the password was given on this connection. *)
ProvenInv ==
  \A c \in Conns :
    /\ st[c] \in {"accepted", "read"} => c \in inStep
    /\ st[c] = "read" /\ auth[c] => c \in proven

(* What read_line takes of an input is one line.                           *)
LEMMA TakesLines ==
  ASSUME NEW s \in Takes
  PROVE  s \in Seq(STRING) /\ OneLine(s)
BY InputsAssumption, ReadLineTakesOne DEF Takes

LEMMA ProvenInit == Init => ProvenInv
BY DEF Init, ProvenInv

LEMMA ProvenStep == TypeOK /\ ProvenInv /\ [Next]_vars => ProvenInv'
<1> SUFFICES ASSUME TypeOK, ProvenInv, [Next]_vars PROVE ProvenInv'
  OBVIOUS
<1> USE ConnsAssumption
    DEF TypeOK, ManagerLabels, HandlerLabels, ProvenInv, Step, CloseAndAccept,
        config, mgrVars, connVars, historyVars
<1>1. ASSUME NEW c \in Conns, AcceptConn(c) PROVE ProvenInv'
  BY <1>1 DEF AcceptConn
<1>2. CASE HostsDenied
  BY <1>2 DEF HostsDenied
<1>3. CASE RetrieveLimit \/ Check \/ ManagerExits
  BY <1>3 DEF RetrieveLimit, Check, ManagerExits
<1>4. CASE Refuse
  BY <1>4 DEF Refuse
<1>5. CASE IncLock \/ IncLoad \/ IncStore \/ IncUnlock
  BY <1>5 DEF IncLock, IncLoad, IncStore, IncUnlock
<1>6. CASE Spawn
  BY <1>6 DEF Spawn
<1>7. ASSUME NEW c \in Conns, NEW s \in Inputs, LoginSucceeds(c, s)
      PROVE  ProvenInv'
  <2>1. s \in Takes
    BY <1>7 DEF LoginSucceeds, Reads
  <2>2. OneLine(s)
    BY <2>1, TakesLines
  <2>3. SaysLogin(s, password)
    BY <1>7, <2>1, TakesLines, LoginIsSaid DEF LoginSucceeds, Takes
  <2>4. inStep' = inStep /\ proven' = proven \cup {c}
    BY <1>7, <2>2, <2>3 DEF LoginSucceeds, Reads
  <2> QED
    BY <1>7, <2>4 DEF LoginSucceeds, Reads
<1>8. ASSUME NEW c \in Conns, NEW s \in Inputs, LineAnswered(c, s)
      PROVE  ProvenInv'
  BY <1>8, TakesLines DEF LineAnswered, Reads
<1>9. ASSUME NEW c \in Conns, NEW s \in Inputs, LineEndsSession(c, s)
      PROVE  ProvenInv'
  BY <1>9, TakesLines DEF LineEndsSession, Reads
<1>10. ASSUME NEW c \in Conns, NEW s \in Inputs, NEW n \in Limits,
              NEW p \in Passwords, ReloadSucceeds(c, s, n, p)
       PROVE  ProvenInv'
  BY <1>10, TakesLines DEF ReloadSucceeds, Reads
<1>11. ASSUME NEW c \in Conns, SessionEnds(c) PROVE ProvenInv'
  BY <1>11 DEF SessionEnds
<1>12. ASSUME NEW c \in Conns, DecLock(c) \/ DecLoad(c) \/ DecStore(c)
       PROVE  ProvenInv'
  BY <1>12 DEF DecLock, DecLoad, DecStore
<1>13. ASSUME NEW c \in Conns, DecUnlock(c) \/ HandlerExits(c) PROVE ProvenInv'
  BY <1>13 DEF DecUnlock, HandlerExits
<1>14. CASE UNCHANGED vars
  BY <1>14 DEF vars
<1> QED
  BY <1>1, <1>2, <1>3, <1>4, <1>5, <1>6, <1>7, <1>8, <1>9, <1>10, <1>11,
     <1>12, <1>13, <1>14, StepCases

(* The configuration is replaced only for a client that gave the password  *)
(* of its time on this connection and whose every input was taken for one  *)
(* line, whatever the clients send and however long it is.                 *)
THEOREM OnlyProvenReload == Spec => ReloadsAreProven
<1> DEFINE Proven == config' # config =>
                       \E c \in proven \cap inStep : st[c] = "read"
<1>1. TypeOK /\ ProvenInv /\ [Next]_vars => [Proven]_vars
  <2> SUFFICES ASSUME TypeOK, ProvenInv, [Next]_vars, config' # config
               PROVE  \E c \in proven \cap inStep : st[c] = "read"
    OBVIOUS
  <2>1. PICK c \in Conns, s \in Inputs, n \in Limits, p \in Passwords :
          ReloadSucceeds(c, s, n, p)
    BY StepCases
    DEF config, vars, HostsDenied, RetrieveLimit, Check, Refuse, IncLock, IncLoad,
        IncStore, IncUnlock, Spawn, ManagerExits, AcceptConn, LoginSucceeds,
        LineAnswered, LineEndsSession, SessionEnds, DecLock, DecLoad, DecStore,
        DecUnlock, HandlerExits
  <2>2. st[c] = "read" /\ auth[c]
    BY <2>1 DEF ReloadSucceeds, Reads
  <2> QED
    BY <2>2 DEF ProvenInv
<1>2. ReloadsAreProven <=> [][Proven]_vars
  BY DEF ReloadsAreProven
<1> DEFINE Inv == TypeOK /\ ProvenInv
<1>3. Init => Inv
  BY TypeInit, ProvenInit
<1>4. Inv /\ [Next]_vars => Inv'
  BY TypeStep, ProvenStep
<1> QED
  BY <1>1, <1>2, <1>3, <1>4, PTL DEF Spec
=============================================================================
