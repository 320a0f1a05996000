-------------------------- MODULE ConfigRef_proofs --------------------------
(***************************************************************************)
(* Proofs about ConfigRef, for every set of threads and every number of    *)
(* configurations.                                                         *)
(***************************************************************************)
EXTENDS ConfigRef, FiniteSetTheorems, TLAPS

(* NoConfig names no configuration; the first one exists.                  *)
LEMMA ConfigsFacts ==
  /\ NoConfig \notin Configs
  /\ 1 \in Configs
  BY MaxConfigsAssumption DEF NoConfig, Configs

-----------------------------------------------------------------------------
(* What holds in every behaviour, straddled or not.                        *)

Loader(t) == pc[t] \in {"announce", "swap"}
Retirer(t) == pc[t] \in {"oldLock", "oldDecide", "free"}

(* A configuration that reload_config just loaded is known to it alone.    *)
LoaderAlone ==
  \A t \in Threads : Loader(t) =>
    /\ life[cfg[t]] = "live"
    /\ cfg[t] # curCfg
    /\ ~reloaded[cfg[t]]
    /\ \A u \in Threads \ {t} : cfg[u] # cfg[t]

(* Who is on the way to free_config has a configuration that was replaced. *)
RetirerOld == \A t \in Threads : Retirer(t) => cfg[t] # curCfg

MarkedOld == ~reloaded[curCfg]

(* Nothing points at, and nothing marks, what was never allocated.         *)
UnbornUntouched ==
  \A c \in Configs : life[c] = "none" =>
    ~reloaded[c] /\ \A t \in Threads : cfg[t] # c

BaseInv ==
  TypeOK /\ CurrentIsLive /\ LoaderAlone /\ RetirerOld /\ MarkedOld
         /\ UnbornUntouched

LEMMA BaseInit == Init => BaseInv
  <1> SUFFICES ASSUME Init PROVE BaseInv
    OBVIOUS
  <1> USE ConfigsFacts, ThreadsAssumption DEF Init
  <1>1. TypeOK
    <2>1. LocalsSet
      BY DEF LocalsSet, Labels, CfgLabels, InWindow
    <2>2. /\ life \in [Configs -> {"none", "live", "freed"}]
          /\ refCount \in [Configs -> Int]
          /\ lock \in [Configs -> Threads \cup {NoThread}]
          /\ reloaded \in [Configs -> BOOLEAN]
      OBVIOUS
    <2>3. /\ pc \in [Threads -> Labels]
          /\ ptr \in [Threads -> Configs \cup {NoConfig}]
          /\ cfg \in [Threads -> Configs \cup {NoConfig}]
          /\ cnt \in [Threads -> Int]
      BY DEF Labels
    <2>4. QED
      BY <2>1, <2>2, <2>3 DEF TypeOK
  <1>2. CurrentIsLive /\ MarkedOld
    BY DEF CurrentIsLive, MarkedOld
  <1>3. LoaderAlone /\ RetirerOld
    BY DEF LoaderAlone, RetirerOld, Loader, Retirer
  <1>4. UnbornUntouched
    BY DEF UnbornUntouched
  <1>5. QED
    BY <1>1, <1>2, <1>3, <1>4 DEF BaseInv

LEMMA BaseStep == BaseInv /\ [Next]_vars => BaseInv'
  <1> SUFFICES ASSUME BaseInv, [Next]_vars PROVE BaseInv'
    OBVIOUS
  <1> USE ConfigsFacts, ThreadsAssumption
      DEF BaseInv, TypeOK, LocalsSet, CurrentIsLive, LoaderAlone, RetirerOld, MarkedOld,
          UnbornUntouched, Loader, Retirer, Labels, CfgLabels, InWindow,
          Goto, Return, Unlock, cfgVars
  <1>1. ASSUME NEW t \in Threads, RetrieveRead(t) PROVE BaseInv'
    BY <1>1 DEF RetrieveRead
  <1>2. ASSUME NEW t \in Threads, RetrieveLock(t) PROVE BaseInv'
    BY <1>2 DEF RetrieveLock
  <1>3. ASSUME NEW t \in Threads, RetrieveLoad(t) PROVE BaseInv'
    <2>1. TypeOK'
      BY <1>3 DEF RetrieveLoad
    <2>2. CurrentIsLive'
      BY <1>3 DEF RetrieveLoad
    <2>3. LoaderAlone'
      BY <1>3 DEF RetrieveLoad
    <2>4. RetirerOld'
      BY <1>3 DEF RetrieveLoad
    <2>5. MarkedOld'
      BY <1>3 DEF RetrieveLoad
    <2>6. UnbornUntouched'
      BY <1>3 DEF RetrieveLoad
    <2>7. QED
      BY <2>1, <2>2, <2>3, <2>4, <2>5, <2>6
  <1>4. ASSUME NEW t \in Threads, RetrieveStore(t) PROVE BaseInv'
    BY <1>4 DEF RetrieveStore
  <1>5. ASSUME NEW t \in Threads, RetrieveUnlock(t) PROVE BaseInv'
    BY <1>5 DEF RetrieveUnlock
  <1>6. ASSUME NEW t \in Threads, ReleaseBegin(t) PROVE BaseInv'
    BY <1>6 DEF ReleaseBegin
  <1>7. ASSUME NEW t \in Threads, ReleaseLock(t) PROVE BaseInv'
    BY <1>7 DEF ReleaseLock
  <1>8. ASSUME NEW t \in Threads, ReleaseLoad(t) PROVE BaseInv'
    BY <1>8 DEF ReleaseLoad
  <1>9. ASSUME NEW t \in Threads, ReleaseStore(t) PROVE BaseInv'
    BY <1>9 DEF ReleaseStore
  <1>10. ASSUME NEW t \in Threads, ReleaseDecide(t) PROVE BaseInv'
    BY <1>10 DEF ReleaseDecide, LastReference
  <1>11. ASSUME NEW t \in Threads, FreeConfig(t) PROVE BaseInv'
    BY <1>11 DEF FreeConfig
  <1>12. ASSUME NEW t \in Threads, ClearReloading(t) PROVE BaseInv'
    BY <1>12, ZenonT(40) DEF ClearReloading
  <1>13. ASSUME NEW t \in Threads, ReloadFails(t) PROVE BaseInv'
    BY <1>13 DEF ReloadFails
  <1>14. ASSUME NEW t \in Threads, ReloadLoads(t) PROVE BaseInv'
    <2>1. TypeOK'
      BY <1>14 DEF ReloadLoads, Unallocated
    <2>2. CurrentIsLive'
      BY <1>14 DEF ReloadLoads, Unallocated
    <2>3. LoaderAlone'
      BY <1>14 DEF ReloadLoads, Unallocated
    <2>4. RetirerOld'
      BY <1>14 DEF ReloadLoads, Unallocated
    <2>5. MarkedOld'
      BY <1>14 DEF ReloadLoads, Unallocated
    <2>6. UnbornUntouched'
      BY <1>14 DEF ReloadLoads, Unallocated
    <2>7. QED
      BY <2>1, <2>2, <2>3, <2>4, <2>5, <2>6
  <1>15. ASSUME NEW t \in Threads, ReloadAnnounce(t) PROVE BaseInv'
    BY <1>15 DEF ReloadAnnounce
  <1>16. ASSUME NEW t \in Threads, ReloadSwap(t) PROVE BaseInv'
    <2>1. TypeOK'
      BY <1>16 DEF ReloadSwap
    <2>2. CurrentIsLive'
      BY <1>16 DEF ReloadSwap
    <2>3. LoaderAlone'
      BY <1>16 DEF ReloadSwap
    <2>4. RetirerOld'
      BY <1>16 DEF ReloadSwap
    <2>5. MarkedOld'
      BY <1>16 DEF ReloadSwap
    <2>6. UnbornUntouched'
      BY <1>16 DEF ReloadSwap
    <2>7. QED
      BY <2>1, <2>2, <2>3, <2>4, <2>5, <2>6
  <1>17. ASSUME NEW t \in Threads, OldLock(t) PROVE BaseInv'
    BY <1>17 DEF OldLock
  <1>18. ASSUME NEW t \in Threads, OldDecide(t) PROVE BaseInv'
    <2>1. TypeOK'
      <3>1. CASE Unreferenced(cfg[t])
        BY <1>18, <3>1 DEF OldDecide
      <3>2. CASE ~Unreferenced(cfg[t])
        <4>1. reloaded' \in [Configs -> BOOLEAN]
          BY <1>18, <3>2 DEF OldDecide
        <4>2. LocalsSet'
          BY <1>18, <3>2 DEF OldDecide
        <4>3. QED
          BY <1>18, <3>2, <4>1, <4>2 DEF OldDecide
      <3>3. QED
        BY <3>1, <3>2
    <2>2. CurrentIsLive'
      BY <1>18 DEF OldDecide, Unreferenced
    <2>3. LoaderAlone'
      BY <1>18 DEF OldDecide, Unreferenced
    <2>4. RetirerOld'
      BY <1>18 DEF OldDecide, Unreferenced
    <2>5. MarkedOld'
      BY <1>18 DEF OldDecide, Unreferenced
    <2>6. UnbornUntouched'
      BY <1>18 DEF OldDecide, Unreferenced
    <2>7. QED
      BY <2>1, <2>2, <2>3, <2>4, <2>5, <2>6
  <1>19. ASSUME NEW t \in Admins, ReloadCheck(t) PROVE BaseInv'
    BY <1>19 DEF ReloadCheck
  <1>20. CASE UNCHANGED vars
    BY <1>20 DEF vars
  <1>21. QED
    BY <1>1, <1>2, <1>3, <1>4, <1>5, <1>6, <1>7, <1>8, <1>9, <1>10, <1>11,
       <1>12, <1>13, <1>14, <1>15, <1>16, <1>17, <1>18, <1>19, <1>20
    DEF Next, Continue, ReloadRefused

(* Type correctness: no statement of the three functions dereferences a    *)
(* pointer that is not set.                                                *)
THEOREM TypeCorrect == Spec => []TypeOK
  <1>1. BaseInv => TypeOK
    BY DEF BaseInv
  <1>2. QED
    BY BaseInit, BaseStep, <1>1, PTL DEF Spec

(* A new connection never gets a freed configuration from cur_cfg, however *)
(* reloads and retrieves interleave.                                       *)
THEOREM CurrentAlwaysLive == Spec => []CurrentIsLive
  <1>1. BaseInv => CurrentIsLive
    BY DEF BaseInv
  <1>2. QED
    BY BaseInit, BaseStep, <1>1, PTL DEF Spec

-----------------------------------------------------------------------------
(* What holds as long as no reload straddles a config_retrieve.            *)

(* Both reads of cur_cfg in config_retrieve will have seen the same value. *)
WindowCurrent == \A t \in Threads : InWindow(t) => ptr[t] = curCfg

(* The register of a running ++ or -- is the counter's value.              *)
RegisterExact ==
  \A t \in Threads : pc[t] \in {"store", "relStore"} =>
    cnt[t] = refCount[cfg[t]]

FreerAlone ==
  \A t \in Threads : pc[t] = "free" =>
    \A u \in Threads \ {t} : cfg[u] # cfg[t]

(* One thread retires a configuration, and it has not marked it yet.       *)
RetirerUnique ==
  \A t \in Threads : pc[t] \in {"oldLock", "oldDecide"} =>
    /\ ~reloaded[cfg[t]]
    /\ \A u \in Threads \ {t} :
         pc[u] \in {"oldLock", "oldDecide"} => cfg[u] # cfg[t]

Handled(c) == \E t \in Threads : cfg[t] = c /\ (Loader(t) \/ Retirer(t))
AwaitsRelease(c) ==
  /\ reloaded[c]
  /\ \E t \in Threads :
       cfg[t] = c /\ pc[t] \in CountedLabels \cup {"relDecide"}

(* Every allocated configuration that is not current has a thread that     *)
(* will free it, install it or mark it, or is marked and still referenced. *)
AccountedFor ==
  \A c \in Configs :
    life[c] = "live" /\ c # curCfg => Handled(c) \/ AwaitsRelease(c)

QuietInv ==
  /\ WindowCurrent
  /\ NoAbandonedMutex
  /\ CountExact
  /\ RegisterExact
  /\ ReferencedIsLive
  /\ FreerAlone
  /\ RetirerUnique
  /\ AccountedFor
  /\ FlagJustified

LEMMA CountedFinite ==
  ASSUME NEW c PROVE IsFiniteSet(Counted(c)) /\ Cardinality(Counted(c)) \in Nat
  BY ThreadsAssumption, FS_Subset, FS_CardinalityType DEF Counted

LEMMA CountedPlusOne ==
  ASSUME NEW c, NEW t, t \notin Counted(c)
  PROVE  Cardinality(Counted(c) \cup {t}) = Cardinality(Counted(c)) + 1
  BY CountedFinite, FS_AddElement

LEMMA CountedMinusOne ==
  ASSUME NEW c, NEW t, t \in Counted(c)
  PROVE  Cardinality(Counted(c) \ {t}) = Cardinality(Counted(c)) - 1
  BY CountedFinite, FS_RemoveElement

(* A counter below 1 has nobody behind it; one that is not has somebody.   *)
LEMMA CountZero ==
  ASSUME CountExact, NEW c \in Configs, refCount[c] < 1
  PROVE  Counted(c) = {}
  BY CountedFinite, FS_EmptySet, ThreadsAssumption DEF CountExact

LEMMA CountPositive ==
  ASSUME CountExact, TypeOK, NEW c \in Configs, ~(refCount[c] < 1)
  PROVE  \E u \in Threads : u \in Counted(c)
  <1>1. Counted(c) # {}
    BY CountedFinite, FS_EmptySet DEF CountExact
  <1>2. Counted(c) \subseteq Threads
    BY DEF Counted
  <1>3. QED
    BY <1>1, <1>2

LEMMA QuietStep ==
  BaseInv /\ BaseInv' /\ QuietInv /\ [Next]_vars /\ ~straddled' => QuietInv'
  <1> SUFFICES ASSUME BaseInv, BaseInv', QuietInv, [Next]_vars, ~straddled'
               PROVE  QuietInv'
    OBVIOUS
  <1> USE ConfigsFacts, ThreadsAssumption
      DEF BaseInv, TypeOK, LocalsSet, CurrentIsLive, LoaderAlone, RetirerOld,
          MarkedOld, UnbornUntouched, Loader, Retirer, Labels, CfgLabels,
          InWindow, Goto, Return, Unlock, cfgVars, QuietInv, WindowCurrent,
          NoAbandonedMutex, RegisterExact, ReferencedIsLive, FreerAlone,
          RetirerUnique, AccountedFor, FlagJustified, Handled, AwaitsRelease,
          Critical, Refers, Retired, CountedLabels
  <1>1. ASSUME NEW t \in Threads, RetrieveRead(t) PROVE QuietInv'
    <2>1. /\ WindowCurrent' /\ NoAbandonedMutex' /\ RegisterExact'
          /\ ReferencedIsLive' /\ FreerAlone' /\ RetirerUnique'
          /\ AccountedFor' /\ FlagJustified'
      BY <1>1 DEF RetrieveRead
    <2>2. CountExact'
      BY <1>1 DEF RetrieveRead, CountExact, Counted
    <2>3. QED
      BY <2>1, <2>2
  <1>2. ASSUME NEW t \in Threads, RetrieveLock(t) PROVE QuietInv'
    <2>1. /\ WindowCurrent' /\ NoAbandonedMutex' /\ RegisterExact'
          /\ ReferencedIsLive' /\ FreerAlone' /\ RetirerUnique'
          /\ AccountedFor' /\ FlagJustified'
      BY <1>2 DEF RetrieveLock
    <2>2. CountExact'
      BY <1>2 DEF RetrieveLock, CountExact, Counted
    <2>3. QED
      BY <2>1, <2>2
  <1>3. ASSUME NEW t \in Threads, RetrieveLoad(t) PROVE QuietInv'
    <2>1. /\ WindowCurrent' /\ NoAbandonedMutex' /\ RegisterExact'
          /\ ReferencedIsLive' /\ FreerAlone' /\ RetirerUnique'
          /\ AccountedFor' /\ FlagJustified'
      BY <1>3 DEF RetrieveLoad
    <2>2. CountExact'
      BY <1>3 DEF RetrieveLoad, CountExact, Counted
    <2>3. QED
      BY <2>1, <2>2
  <1>4. ASSUME NEW t \in Threads, RetrieveStore(t) PROVE QuietInv'
    <2>1. /\ WindowCurrent' /\ NoAbandonedMutex' /\ RegisterExact'
          /\ ReferencedIsLive' /\ FreerAlone' /\ RetirerUnique'
          /\ AccountedFor' /\ FlagJustified'
      BY <1>4 DEF RetrieveStore
    <2>2. CountExact'
      <3>1. ASSUME NEW c \in Configs PROVE refCount'[c] = Cardinality(Counted(c)')
        <4>1. CASE c = cfg[t]
          <5>1. Counted(c)' = Counted(c) \cup {t}
            BY <1>4, <4>1 DEF RetrieveStore, Counted
          <5>2. t \notin Counted(c)
            BY <1>4, <4>1 DEF RetrieveStore, Counted
          <5>3. Cardinality(Counted(c)') = Cardinality(Counted(c)) + 1
            BY <5>1, <5>2, CountedPlusOne
          <5>4. refCount'[c] = refCount[c] + 1
            BY <1>4, <4>1 DEF RetrieveStore
          <5>5. QED
            BY <5>3, <5>4 DEF CountExact
        <4>2. CASE c # cfg[t]
          <5>1. Counted(c)' = Counted(c)
            BY <1>4, <4>2 DEF RetrieveStore, Counted
          <5>2. QED
            BY <1>4, <4>2, <5>1 DEF RetrieveStore, CountExact
        <4>3. QED
          BY <4>1, <4>2
      <3>2. QED
        BY <3>1 DEF CountExact
    <2>3. QED
      BY <2>1, <2>2
  <1>5. ASSUME NEW t \in Threads, RetrieveUnlock(t) PROVE QuietInv'
    <2>1. /\ WindowCurrent' /\ NoAbandonedMutex' /\ RegisterExact'
          /\ ReferencedIsLive' /\ FreerAlone' /\ RetirerUnique'
          /\ AccountedFor' /\ FlagJustified'
      BY <1>5 DEF RetrieveUnlock
    <2>2. CountExact'
      BY <1>5 DEF RetrieveUnlock, CountExact, Counted
    <2>3. QED
      BY <2>1, <2>2
  <1>6. ASSUME NEW t \in Threads, ReleaseBegin(t) PROVE QuietInv'
    <2>1. /\ WindowCurrent' /\ NoAbandonedMutex' /\ RegisterExact'
          /\ ReferencedIsLive' /\ FreerAlone' /\ RetirerUnique'
          /\ AccountedFor' /\ FlagJustified'
      BY <1>6 DEF ReleaseBegin
    <2>2. CountExact'
      BY <1>6 DEF ReleaseBegin, CountExact, Counted
    <2>3. QED
      BY <2>1, <2>2
  <1>7. ASSUME NEW t \in Threads, ReleaseLock(t) PROVE QuietInv'
    <2>1. /\ WindowCurrent' /\ NoAbandonedMutex' /\ RegisterExact'
          /\ ReferencedIsLive' /\ FreerAlone' /\ RetirerUnique'
          /\ AccountedFor' /\ FlagJustified'
      BY <1>7 DEF ReleaseLock
    <2>2. CountExact'
      BY <1>7 DEF ReleaseLock, CountExact, Counted
    <2>3. QED
      BY <2>1, <2>2
  <1>8. ASSUME NEW t \in Threads, ReleaseLoad(t) PROVE QuietInv'
    <2>1. /\ WindowCurrent' /\ NoAbandonedMutex' /\ RegisterExact'
          /\ ReferencedIsLive' /\ FreerAlone' /\ RetirerUnique'
          /\ AccountedFor' /\ FlagJustified'
      BY <1>8 DEF ReleaseLoad
    <2>2. CountExact'
      BY <1>8 DEF ReleaseLoad, CountExact, Counted
    <2>3. QED
      BY <2>1, <2>2
  <1>9. ASSUME NEW t \in Threads, ReleaseStore(t) PROVE QuietInv'
    <2>1. /\ WindowCurrent' /\ NoAbandonedMutex' /\ RegisterExact'
          /\ ReferencedIsLive' /\ FreerAlone' /\ RetirerUnique'
          /\ AccountedFor' /\ FlagJustified'
      BY <1>9 DEF ReleaseStore
    <2>2. CountExact'
      <3>1. ASSUME NEW c \in Configs PROVE refCount'[c] = Cardinality(Counted(c)')
        <4>1. CASE c = cfg[t]
          <5>1. Counted(c)' = Counted(c) \ {t}
            BY <1>9, <4>1 DEF ReleaseStore, Counted
          <5>2. t \in Counted(c)
            BY <1>9, <4>1 DEF ReleaseStore, Counted
          <5>3. Cardinality(Counted(c)') = Cardinality(Counted(c)) - 1
            BY <5>1, <5>2, CountedMinusOne
          <5>4. refCount'[c] = refCount[c] - 1
            BY <1>9, <4>1 DEF ReleaseStore
          <5>5. QED
            BY <5>3, <5>4 DEF CountExact
        <4>2. CASE c # cfg[t]
          <5>1. Counted(c)' = Counted(c)
            BY <1>9, <4>2 DEF ReleaseStore, Counted
          <5>2. QED
            BY <1>9, <4>2, <5>1 DEF ReleaseStore, CountExact
        <4>3. QED
          BY <4>1, <4>2
      <3>2. QED
        BY <3>1 DEF CountExact
    <2>3. QED
      BY <2>1, <2>2
  <1>10. ASSUME NEW t \in Threads, ReleaseDecide(t) PROVE QuietInv'
    <2>1. WindowCurrent' /\ NoAbandonedMutex' /\ RegisterExact'
      BY <1>10 DEF ReleaseDecide, LastReference
    <2>2. ReferencedIsLive' /\ RetirerUnique'
      BY <1>10 DEF ReleaseDecide, LastReference
    <2>3. FlagJustified'
      BY <1>10 DEF ReleaseDecide, LastReference
    <2>4. FreerAlone'
      <3>1. ASSUME LastReference(cfg[t]), NEW u \in Threads \ {t}
            PROVE  cfg[u] # cfg[t]
        <4>1. u \notin Counted(cfg[t])
          BY <1>10, <3>1, CountZero DEF ReleaseDecide, CountExact, LastReference
        <4>2. lock[cfg[t]] = t
          BY <1>10 DEF ReleaseDecide
        <4>3. QED
          BY <1>10, <3>1, <4>1, <4>2 DEF ReleaseDecide, Counted, LastReference
      <3>2. CASE LastReference(cfg[t])
        BY <1>10, <3>1, <3>2 DEF ReleaseDecide
      <3>3. CASE ~LastReference(cfg[t])
        BY <1>10, <3>3 DEF ReleaseDecide
      <3>4. QED
        BY <3>2, <3>3
    <2>5. AccountedFor'
      <3>1. CASE LastReference(cfg[t])
        BY <1>10, <3>1 DEF ReleaseDecide
      <3>2. CASE ~LastReference(cfg[t])
        <4>1. CASE ~reloaded[cfg[t]]
          BY <1>10, <3>2, <4>1 DEF ReleaseDecide
        <4>2. CASE reloaded[cfg[t]]
          <5>1. PICK u \in Threads : u \in Counted(cfg[t])
            BY <1>10, <3>2, <4>2, CountPositive
            DEF ReleaseDecide, CountExact, LastReference
          <5>2. u # t
            BY <1>10, <5>1 DEF ReleaseDecide, Counted
          <5>3. QED
            BY <1>10, <3>2, <5>1, <5>2 DEF ReleaseDecide, Counted
        <4>3. QED
          BY <4>1, <4>2
      <3>3. QED
        BY <3>1, <3>2
    <2>6. CountExact'
      BY <1>10 DEF ReleaseDecide, LastReference, CountExact, Counted
    <2>7. QED
      BY <2>1, <2>2, <2>3, <2>4, <2>5, <2>6
  <1>11. ASSUME NEW t \in Threads, FreeConfig(t) PROVE QuietInv'
    <2>1. WindowCurrent' /\ NoAbandonedMutex' /\ RegisterExact'
      BY <1>11 DEF FreeConfig
    <2>2. ReferencedIsLive' /\ FreerAlone' /\ RetirerUnique'
      BY <1>11 DEF FreeConfig
    <2>3. AccountedFor' /\ FlagJustified'
      BY <1>11 DEF FreeConfig
    <2>4. CountExact'
      BY <1>11 DEF FreeConfig, CountExact, Counted
    <2>5. QED
      BY <2>1, <2>2, <2>3, <2>4
  <1>12. ASSUME NEW t \in Threads, ClearReloading(t) PROVE QuietInv'
    <2>1. /\ WindowCurrent' /\ NoAbandonedMutex' /\ RegisterExact'
          /\ ReferencedIsLive' /\ FreerAlone' /\ RetirerUnique'
          /\ AccountedFor' /\ FlagJustified'
      BY <1>12 DEF ClearReloading
    <2>2. CountExact'
      BY <1>12 DEF ClearReloading, CountExact, Counted
    <2>3. QED
      BY <2>1, <2>2
  <1>13. ASSUME NEW t \in Threads, ReloadFails(t) PROVE QuietInv'
    <2>1. /\ WindowCurrent' /\ NoAbandonedMutex' /\ RegisterExact'
          /\ ReferencedIsLive' /\ FreerAlone' /\ RetirerUnique'
          /\ AccountedFor' /\ FlagJustified'
      BY <1>13 DEF ReloadFails
    <2>2. CountExact'
      BY <1>13 DEF ReloadFails, CountExact, Counted
    <2>3. QED
      BY <2>1, <2>2
  <1>14. ASSUME NEW t \in Threads, ReloadLoads(t) PROVE QuietInv'
    <2>1. WindowCurrent' /\ NoAbandonedMutex' /\ RegisterExact'
      BY <1>14 DEF ReloadLoads, Unallocated
    <2>2. ReferencedIsLive' /\ FreerAlone' /\ RetirerUnique'
      BY <1>14 DEF ReloadLoads, Unallocated
    <2>3. AccountedFor' /\ FlagJustified'
      BY <1>14 DEF ReloadLoads, Unallocated
    <2>4. CountExact'
      BY <1>14 DEF ReloadLoads, Unallocated, CountExact, Counted
    <2>5. QED
      BY <2>1, <2>2, <2>3, <2>4
  <1>15. ASSUME NEW t \in Threads, ReloadAnnounce(t) PROVE QuietInv'
    <2>1. /\ WindowCurrent' /\ NoAbandonedMutex' /\ RegisterExact'
          /\ ReferencedIsLive' /\ FreerAlone' /\ RetirerUnique'
          /\ AccountedFor' /\ FlagJustified'
      BY <1>15 DEF ReloadAnnounce
    <2>2. CountExact'
      BY <1>15 DEF ReloadAnnounce, CountExact, Counted
    <2>3. QED
      BY <2>1, <2>2
  <1>16. ASSUME NEW t \in Threads, ReloadSwap(t) PROVE QuietInv'
    <2>1. NoAbandonedMutex' /\ RegisterExact'
      BY <1>16 DEF ReloadSwap
    <2>2. ReferencedIsLive' /\ FreerAlone' /\ RetirerUnique'
      BY <1>16 DEF ReloadSwap
    <2>3. AccountedFor' /\ FlagJustified'
      BY <1>16 DEF ReloadSwap
    <2>4. WindowCurrent'
      <3>1. \A u \in Threads : ~InWindow(u)
        BY <1>16 DEF ReloadSwap
      <3>2. QED
        BY <1>16, <3>1 DEF ReloadSwap
    <2>5. CountExact'
      BY <1>16 DEF ReloadSwap, CountExact, Counted
    <2>6. QED
      BY <2>1, <2>2, <2>3, <2>4, <2>5
  <1>17. ASSUME NEW t \in Threads, OldLock(t) PROVE QuietInv'
    <2>1. /\ WindowCurrent' /\ NoAbandonedMutex' /\ RegisterExact'
          /\ ReferencedIsLive' /\ FreerAlone' /\ RetirerUnique'
          /\ AccountedFor' /\ FlagJustified'
      BY <1>17 DEF OldLock
    <2>2. CountExact'
      BY <1>17 DEF OldLock, CountExact, Counted
    <2>3. QED
      BY <2>1, <2>2
  <1>18. ASSUME NEW t \in Threads, OldDecide(t) PROVE QuietInv'
    <2>1. WindowCurrent' /\ NoAbandonedMutex' /\ RegisterExact'
      BY <1>18 DEF OldDecide, Unreferenced
    <2>2. ReferencedIsLive' /\ RetirerUnique'
      BY <1>18 DEF OldDecide, Unreferenced
    <2>3. FlagJustified'
      BY <1>18 DEF OldDecide, Unreferenced
    <2>4. FreerAlone'
      <3>1. ASSUME Unreferenced(cfg[t]), NEW u \in Threads \ {t}
            PROVE  cfg[u] # cfg[t]
        <4>1. u \notin Counted(cfg[t])
          BY <1>18, <3>1, CountZero DEF OldDecide, CountExact, Unreferenced
        <4>2. lock[cfg[t]] = t
          BY <1>18 DEF OldDecide
        <4>3. QED
          BY <1>18, <3>1, <4>1, <4>2 DEF OldDecide, Counted, Unreferenced
      <3>2. CASE Unreferenced(cfg[t])
        BY <1>18, <3>1, <3>2 DEF OldDecide
      <3>3. CASE ~Unreferenced(cfg[t])
        BY <1>18, <3>3 DEF OldDecide
      <3>4. QED
        BY <3>2, <3>3
    <2>5. AccountedFor'
      <3>1. CASE Unreferenced(cfg[t])
        BY <1>18, <3>1 DEF OldDecide
      <3>2. CASE ~Unreferenced(cfg[t])
        <4>1. PICK u \in Threads : u \in Counted(cfg[t])
          BY <1>18, <3>2, CountPositive DEF OldDecide, CountExact, Unreferenced
        <4>2. u # t
          BY <1>18, <4>1 DEF OldDecide, Counted
        <4>3. QED
          BY <1>18, <3>2, <4>1, <4>2 DEF OldDecide, Counted
      <3>3. QED
        BY <3>1, <3>2
    <2>6. CountExact'
      BY <1>18 DEF OldDecide, Unreferenced, CountExact, Counted
    <2>7. QED
      BY <2>1, <2>2, <2>3, <2>4, <2>5, <2>6
  <1>19. ASSUME NEW t \in Admins, ReloadCheck(t) PROVE QuietInv'
    <2>1. /\ WindowCurrent' /\ NoAbandonedMutex' /\ RegisterExact'
          /\ ReferencedIsLive' /\ FreerAlone' /\ RetirerUnique'
          /\ AccountedFor' /\ FlagJustified'
      BY <1>19 DEF ReloadCheck
    <2>2. CountExact'
      BY <1>19 DEF ReloadCheck, CountExact, Counted
    <2>3. QED
      BY <2>1, <2>2
  <1>20. CASE UNCHANGED vars
    BY <1>20 DEF vars, CountExact, Counted
  <1>21. QED
    BY <1>1, <1>2, <1>3, <1>4, <1>5, <1>6, <1>7, <1>8, <1>9, <1>10, <1>11, <1>12, <1>13, <1>14, <1>15, <1>16, <1>17, <1>18, <1>19, <1>20
    DEF Next, Continue, ReloadRefused

-----------------------------------------------------------------------------

LEMMA QuietInit == Init => QuietInv
  <1> SUFFICES ASSUME Init PROVE QuietInv
    OBVIOUS
  <1> USE ConfigsFacts, ThreadsAssumption DEF Init
  <1>1. CountExact
    <2>1. \A c \in Configs : Counted(c) = {}
      BY DEF Counted
    <2>2. QED
      BY <2>1, FS_EmptySet DEF CountExact
  <1>2. WindowCurrent /\ NoAbandonedMutex /\ RegisterExact /\ ReferencedIsLive
    BY DEF WindowCurrent, InWindow, NoAbandonedMutex, Critical, RegisterExact,
           ReferencedIsLive, Refers
  <1>3. FreerAlone /\ RetirerUnique /\ AccountedFor /\ FlagJustified
    BY DEF FreerAlone, RetirerUnique, AccountedFor, FlagJustified
  <1>4. QED
    BY <1>1, <1>2, <1>3 DEF QuietInv

(* The history variable never forgets.                                     *)
LEMMA StraddledStays == [Next]_vars /\ straddled => straddled'
  BY DEF Next, vars, Continue, ReloadRefused, RetrieveRead, RetrieveLock,
         RetrieveLoad, RetrieveStore, RetrieveUnlock, ReleaseBegin,
         ReleaseLock, ReleaseLoad, ReleaseStore, ReleaseDecide, FreeConfig,
         ClearReloading, ReloadFails, ReloadLoads, ReloadAnnounce, ReloadSwap,
         OldLock, OldDecide, ReloadCheck

(* Until a reload straddles a config_retrieve, the whole protocol holds.   *)
THEOREM QuietCorrect == Spec => [](~straddled => QuietInv)
  <1> DEFINE Inv == BaseInv /\ (~straddled => QuietInv)
  <1>1. Init => Inv
    BY BaseInit, QuietInit
  <1>2. Inv /\ [Next]_vars => Inv'
    BY BaseStep, QuietStep, StraddledStays
  <1>3. Inv => (~straddled => QuietInv)
    OBVIOUS
  <1>4. QED
    BY <1>1, <1>2, <1>3, PTL DEF Spec

(* No thread is about to dereference a configuration free_config released. *)
THEOREM HeldIsLive == Spec => [](~straddled => ReferencedIsLive)
  BY QuietCorrect, PTL DEF QuietInv

(* cf_ref_count counts the holders, at every instant.                      *)
THEOREM RefCountExact == Spec => [](~straddled => CountExact)
  BY QuietCorrect, PTL DEF QuietInv

(* No cf_ref_count_lock is left behind locked.                             *)
THEOREM MutexReleased == Spec => [](~straddled => NoAbandonedMutex)
  BY QuietCorrect, PTL DEF QuietInv

(* config_reloading is TRUE only while a reload is unfinished.             *)
THEOREM ReloadingJustified == Spec => [](~straddled => FlagJustified)
  BY QuietCorrect, PTL DEF QuietInv

(* Only a configuration nobody refers to is freed.                         *)
THEOREM FreeIsExclusive == Spec => [](~straddled => FreeUnreferenced)
  <1>1. BaseInv /\ QuietInv => FreeUnreferenced
    BY ConfigsFacts
    DEF BaseInv, QuietInv, FreeUnreferenced, Refers, RetirerOld, Retirer,
        FreerAlone, WindowCurrent, TypeOK, LocalsSet, CfgLabels
  <1>2. QED
    BY <1>1, BaseInit, BaseStep, QuietCorrect, PTL DEF Spec

(* No configuration is leaked by a reload.                                 *)
THEOREM NoLeak == Spec => [](~straddled => NothingStranded)
  <1>1. QuietInv => NothingStranded
    BY DEF QuietInv, NothingStranded, AccountedFor, Handled, AwaitsRelease,
           Refers
  <1>2. QED
    BY <1>1, QuietCorrect, PTL
-----------------------------------------------------------------------------
(* ConfigRef implements ConfigStore while no reload straddles a retrieve.  *)

(* The refinement mapping, by name.                                        *)
HeldBy ==
  [t \in Threads |->
     IF pc[t] \in CountedLabels \cup {"store"} THEN cfg[t] ELSE NoConfig]
StatusOf ==
  [c \in Configs |->
     IF c = curCfg THEN "current"
     ELSE IF life[c] = "freed" THEN "reclaimed"
     ELSE IF Retired(c) THEN "retired"
     ELSE "unborn"]

LEMMA InitRefines == Init => Store!Init
  BY ConfigsFacts DEF Init, Store!Init, Retired, CountedLabels

(* The actions of ConfigStore, in terms of the mapping.                    *)
LEMMA AcquireMaps ==
  ASSUME NEW t \in Threads, HeldBy[t] = NoConfig, curCfg' = curCfg,
         \A u \in Threads : HeldBy'[u] = IF u = t THEN curCfg ELSE HeldBy[u],
         StatusOf' = StatusOf
  PROVE  Store!Acquire(t)
  <1>1. HeldBy' = [HeldBy EXCEPT ![t] = curCfg]
    BY DEF HeldBy
  <1>2. QED
    BY <1>1, Zenon DEF Store!Acquire, HeldBy, StatusOf

LEMMA ReleaseMaps ==
  ASSUME NEW t \in Threads, HeldBy[t] # NoConfig, curCfg' = curCfg,
         \A u \in Threads :
           HeldBy'[u] = IF u = t THEN NoConfig ELSE HeldBy[u],
         StatusOf' = StatusOf
  PROVE  Store!Release(t)
  <1>1. HeldBy' = [HeldBy EXCEPT ![t] = NoConfig]
    BY DEF HeldBy
  <1>2. QED
    BY <1>1, Zenon DEF Store!Release, HeldBy, StatusOf

LEMMA ReclaimMaps ==
  ASSUME NEW c \in Configs, StatusOf[c] = "retired",
         \A t \in Threads : HeldBy[t] # c,
         \A d \in Configs :
           StatusOf'[d] = IF d = c THEN "reclaimed" ELSE StatusOf[d],
         curCfg' = curCfg, HeldBy' = HeldBy
  PROVE  Store!Reclaim(c)
  <1>1. StatusOf' = [StatusOf EXCEPT ![c] = "reclaimed"]
    BY DEF StatusOf
  <1>2. QED
    BY <1>1, Zenon DEF Store!Reclaim, HeldBy, StatusOf

LEMMA ReplaceMaps ==
  ASSUME NEW c \in Configs, curCfg \in Configs, StatusOf[c] = "unborn",
         \A d \in Configs :
           StatusOf'[d] = IF d = curCfg THEN "retired"
                          ELSE IF d = c THEN "current" ELSE StatusOf[d],
         curCfg' = c, HeldBy' = HeldBy
  PROVE  Store!Replace(c)
  <1>1. StatusOf' = [StatusOf EXCEPT ![c] = "current", ![curCfg] = "retired"]
    BY DEF StatusOf
  <1>2. QED
    BY <1>1, Zenon DEF Store!Replace, HeldBy, StatusOf

LEMMA StepRefines ==
  BaseInv /\ BaseInv' /\ QuietInv /\ [Next]_vars => [Store!Next]_(Store!storeVars)
  <1> SUFFICES ASSUME BaseInv, BaseInv', QuietInv, [Next]_vars
               PROVE  [Store!Next]_(Store!storeVars)
    OBVIOUS
  <1> USE ConfigsFacts
      DEF BaseInv, TypeOK, LocalsSet, CurrentIsLive, LoaderAlone, RetirerOld,
          MarkedOld, UnbornUntouched, Loader, Retirer, Labels, CfgLabels,
          InWindow, Goto, Return, Unlock, cfgVars, CountedLabels, Retired,
          HeldBy, StatusOf
  <1>a. ASSUME HeldBy' = HeldBy, StatusOf' = StatusOf, curCfg' = curCfg
        PROVE  [Store!Next]_(Store!storeVars)
    BY <1>a DEF Store!storeVars
  <1>1. ASSUME NEW t \in Threads, RetrieveRead(t)
      PROVE  [Store!Next]_(Store!storeVars)
    <2>1. HeldBy' = HeldBy /\ curCfg' = curCfg
      BY <1>1 DEF RetrieveRead
    <2>2. StatusOf' = StatusOf
      BY <1>1 DEF RetrieveRead
    <2>3. QED
      BY <2>1, <2>2, <1>a
  <1>2. ASSUME NEW t \in Threads, RetrieveLock(t)
      PROVE  [Store!Next]_(Store!storeVars)
    <2>1. HeldBy' = HeldBy /\ curCfg' = curCfg
      BY <1>2 DEF RetrieveLock
    <2>2. StatusOf' = StatusOf
      BY <1>2 DEF RetrieveLock
    <2>3. QED
      BY <2>1, <2>2, <1>a
  <1>3. ASSUME NEW t \in Threads, RetrieveLoad(t)
      PROVE  [Store!Next]_(Store!storeVars)
    <2>1. HeldBy[t] = NoConfig /\ curCfg' = curCfg
      BY <1>3 DEF RetrieveLoad
    <2>2. ASSUME NEW u \in Threads
          PROVE  HeldBy'[u] = IF u = t THEN curCfg ELSE HeldBy[u]
      BY <1>3 DEF RetrieveLoad
    <2>3. StatusOf' = StatusOf
      BY <1>3 DEF RetrieveLoad
    <2>4. Store!Acquire(t)
      <3> HIDE DEF HeldBy, StatusOf
      <3> QED BY <2>1, <2>2, <2>3, AcquireMaps
    <2>5. QED
      BY <2>4, Zenon DEF Store!Next
  <1>4. ASSUME NEW t \in Threads, RetrieveStore(t)
      PROVE  [Store!Next]_(Store!storeVars)
    <2>1. HeldBy' = HeldBy /\ curCfg' = curCfg
      BY <1>4 DEF RetrieveStore
    <2>2. StatusOf' = StatusOf
      BY <1>4 DEF RetrieveStore
    <2>3. QED
      BY <2>1, <2>2, <1>a
  <1>5. ASSUME NEW t \in Threads, RetrieveUnlock(t)
      PROVE  [Store!Next]_(Store!storeVars)
    <2>1. HeldBy' = HeldBy /\ curCfg' = curCfg
      BY <1>5 DEF RetrieveUnlock
    <2>2. StatusOf' = StatusOf
      BY <1>5 DEF RetrieveUnlock
    <2>3. QED
      BY <2>1, <2>2, <1>a
  <1>6. ASSUME NEW t \in Threads, ReleaseBegin(t)
      PROVE  [Store!Next]_(Store!storeVars)
    <2>1. HeldBy' = HeldBy /\ curCfg' = curCfg
      BY <1>6 DEF ReleaseBegin
    <2>2. StatusOf' = StatusOf
      BY <1>6 DEF ReleaseBegin
    <2>3. QED
      BY <2>1, <2>2, <1>a
  <1>7. ASSUME NEW t \in Threads, ReleaseLock(t)
      PROVE  [Store!Next]_(Store!storeVars)
    <2>1. HeldBy' = HeldBy /\ curCfg' = curCfg
      BY <1>7 DEF ReleaseLock
    <2>2. StatusOf' = StatusOf
      BY <1>7 DEF ReleaseLock
    <2>3. QED
      BY <2>1, <2>2, <1>a
  <1>8. ASSUME NEW t \in Threads, ReleaseLoad(t)
      PROVE  [Store!Next]_(Store!storeVars)
    <2>1. HeldBy' = HeldBy /\ curCfg' = curCfg
      BY <1>8 DEF ReleaseLoad
    <2>2. StatusOf' = StatusOf
      BY <1>8 DEF ReleaseLoad
    <2>3. QED
      BY <2>1, <2>2, <1>a
  <1>9. ASSUME NEW t \in Threads, ReleaseStore(t)
      PROVE  [Store!Next]_(Store!storeVars)
    <2>1. HeldBy[t] # NoConfig /\ curCfg' = curCfg
      BY <1>9 DEF ReleaseStore
    <2>2. ASSUME NEW u \in Threads
          PROVE  HeldBy'[u] = IF u = t THEN NoConfig ELSE HeldBy[u]
      BY <1>9 DEF ReleaseStore
    <2>3. StatusOf' = StatusOf
      BY <1>9 DEF ReleaseStore
    <2>4. Store!Release(t)
      <3> HIDE DEF HeldBy, StatusOf
      <3> QED BY <2>1, <2>2, <2>3, ReleaseMaps
    <2>5. QED
      BY <2>4, Zenon DEF Store!Next
  <1>10. ASSUME NEW t \in Threads, ReleaseDecide(t)
      PROVE  [Store!Next]_(Store!storeVars)
    <2>1. HeldBy' = HeldBy /\ curCfg' = curCfg
      BY <1>10 DEF ReleaseDecide, LastReference
    <2>2. StatusOf' = StatusOf
      BY <1>10 DEF ReleaseDecide, LastReference
    <2>3. QED
      BY <2>1, <2>2, <1>a
  <1>11. ASSUME NEW t \in Threads, FreeConfig(t)
      PROVE  [Store!Next]_(Store!storeVars)
    <2>0. PICK c \in Configs : c = cfg[t] /\ life[c] = "live" /\ c # curCfg
      BY <1>11 DEF FreeConfig, QuietInv, ReferencedIsLive, Refers
    <2>1. ASSUME NEW u \in Threads PROVE HeldBy[u] # c
      BY <1>11, <2>0 DEF FreeConfig, QuietInv, FreerAlone
    <2>2. StatusOf[c] = "retired"
      BY <1>11, <2>0 DEF FreeConfig, QuietInv, FreerAlone
    <2>3. ASSUME NEW d \in Configs
          PROVE  StatusOf'[d] = IF d = c THEN "reclaimed" ELSE StatusOf[d]
      BY <1>11, <2>0 DEF FreeConfig
    <2>4. HeldBy' = HeldBy /\ curCfg' = curCfg
      BY <1>11 DEF FreeConfig
    <2>5. Store!Reclaim(c)
      <3> HIDE DEF HeldBy, StatusOf
      <3> QED BY <2>0, <2>1, <2>2, <2>3, <2>4, ReclaimMaps
    <2>6. QED
      BY <2>0, <2>5, Zenon DEF Store!Next
  <1>12. ASSUME NEW t \in Threads, ClearReloading(t)
      PROVE  [Store!Next]_(Store!storeVars)
    <2>1. HeldBy' = HeldBy /\ curCfg' = curCfg
      BY <1>12 DEF ClearReloading
    <2>2. StatusOf' = StatusOf
      BY <1>12 DEF ClearReloading
    <2>3. QED
      BY <2>1, <2>2, <1>a
  <1>13. ASSUME NEW t \in Threads, ReloadFails(t)
      PROVE  [Store!Next]_(Store!storeVars)
    <2>1. HeldBy' = HeldBy /\ curCfg' = curCfg
      BY <1>13 DEF ReloadFails
    <2>2. StatusOf' = StatusOf
      BY <1>13 DEF ReloadFails
    <2>3. QED
      BY <2>1, <2>2, <1>a
  <1>14. ASSUME NEW t \in Threads, ReloadLoads(t)
      PROVE  [Store!Next]_(Store!storeVars)
    <2>1. HeldBy' = HeldBy /\ curCfg' = curCfg
      BY <1>14 DEF ReloadLoads, Unallocated
    <2>2. StatusOf' = StatusOf
      BY <1>14 DEF ReloadLoads, Unallocated
    <2>3. QED
      BY <2>1, <2>2, <1>a
  <1>15. ASSUME NEW t \in Threads, ReloadAnnounce(t)
      PROVE  [Store!Next]_(Store!storeVars)
    <2>1. HeldBy' = HeldBy /\ curCfg' = curCfg
      BY <1>15 DEF ReloadAnnounce
    <2>2. StatusOf' = StatusOf
      BY <1>15 DEF ReloadAnnounce
    <2>3. QED
      BY <2>1, <2>2, <1>a
  <1>16. ASSUME NEW t \in Threads, ReloadSwap(t)
      PROVE  [Store!Next]_(Store!storeVars)
    <2>0. PICK c \in Configs :
            /\ c = cfg[t] /\ life[c] = "live" /\ c # curCfg
            /\ \A u \in Threads \ {t} : cfg[u] # c
      BY <1>16 DEF ReloadSwap
    <2>1. StatusOf[c] = "unborn"
      BY <1>16, <2>0 DEF ReloadSwap
    <2>2. ASSUME NEW d \in Configs
          PROVE  StatusOf'[d] = IF d = curCfg THEN "retired"
                                ELSE IF d = c THEN "current"
                                ELSE StatusOf[d]
      <3>1. CASE d = curCfg
        BY <1>16, <2>0, <3>1 DEF ReloadSwap
      <3>2. CASE d = c
        BY <1>16, <2>0, <3>2 DEF ReloadSwap
      <3>3. CASE d # curCfg /\ d # c
        BY <1>16, <2>0, <3>3 DEF ReloadSwap
      <3>4. QED
        BY <3>1, <3>2, <3>3
    <2>3. HeldBy' = HeldBy /\ curCfg' = c
      BY <1>16, <2>0 DEF ReloadSwap
    <2>4. Store!Replace(c)
      <3> HIDE DEF HeldBy, StatusOf
      <3> QED BY <2>0, <2>1, <2>2, <2>3, ReplaceMaps
    <2>5. QED
      BY <2>0, <2>4, Zenon DEF Store!Next
  <1>17. ASSUME NEW t \in Threads, OldLock(t)
      PROVE  [Store!Next]_(Store!storeVars)
    <2>1. HeldBy' = HeldBy /\ curCfg' = curCfg
      BY <1>17 DEF OldLock
    <2>2. StatusOf' = StatusOf
      BY <1>17 DEF OldLock
    <2>3. QED
      BY <2>1, <2>2, <1>a
  <1>18. ASSUME NEW t \in Threads, OldDecide(t)
      PROVE  [Store!Next]_(Store!storeVars)
    <2>1. HeldBy' = HeldBy /\ curCfg' = curCfg
      BY <1>18 DEF OldDecide, Unreferenced
    <2>2. StatusOf' = StatusOf
      BY <1>18 DEF OldDecide, Unreferenced
    <2>3. QED
      BY <2>1, <2>2, <1>a
  <1>19. ASSUME NEW t \in Admins, ReloadCheck(t)
      PROVE  [Store!Next]_(Store!storeVars)
    <2>1. HeldBy' = HeldBy /\ curCfg' = curCfg
      BY <1>19 DEF ReloadCheck
    <2>2. StatusOf' = StatusOf
      BY <1>19 DEF ReloadCheck
    <2>3. QED
      BY <2>1, <2>2, <1>a
  <1>20. CASE UNCHANGED vars
    BY <1>20, <1>a DEF vars
  <1>21. QED
    BY <1>1, <1>2, <1>3, <1>4, <1>5, <1>6, <1>7, <1>8, <1>9, <1>10, <1>11, <1>12, <1>13, <1>14, <1>15, <1>16, <1>17, <1>18, <1>19, <1>20
    DEF Next, Continue, ReloadRefused

(* The abstract specification is implemented by every behaviour in which   *)
(* no reload straddles a config_retrieve.                                  *)
THEOREM Refinement == QuietSpec => StoreRefined
  <1> DEFINE Inv == BaseInv /\ QuietInv /\ ~straddled
  <1>1. Init => Inv
    BY BaseInit, QuietInit DEF Init
  <1>2. [Next /\ ~straddled']_vars => [Next]_vars
    OBVIOUS
  <1>3. Inv /\ [Next /\ ~straddled']_vars => Inv'
    <2>1. ~straddled /\ [Next /\ ~straddled']_vars => ~straddled'
      BY DEF vars
    <2>2. QED
      BY <1>2, <2>1, BaseStep, QuietStep
  <1>4. Inv /\ Inv' /\ [Next /\ ~straddled']_vars
          => [Store!Next]_(Store!storeVars)
    BY <1>2, StepRefines
  <1> HIDE DEF Inv
  <1>5. QED
    BY <1>1, <1>3, <1>4, InitRefines, PTL
    DEF QuietSpec, StoreRefined, Store!Spec
=============================================================================
