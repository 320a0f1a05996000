----------------------------- MODULE ConfigRef -----------------------------
(***************************************************************************)
(* The reference-counted configuration of msy_config.c: config_retrieve,   *)
(* config_release and reload_config, run by milter connection threads, the *)
(* manager's accept thread and the manager's request handlers.             *)
(*                                                                         *)
(* One step per access to shared memory.  A thread keeps the locals of the *)
(* function it runs in ptr, cfg and cnt; pc says which statement is next:  *)
(*                                                                         *)
(*   config_retrieve  "idle" -> "lockWait" -> "load" -> "store" ->         *)
(*                    "unlock" -> "holding"                                *)
(*   config_release   "holding" -> "relLock" -> "relLoad" -> "relStore" -> *)
(*                    "relDecide" -> "idle", or "free" -> "clear" -> "idle"*)
(*   reload_config    "idle" -> "loading" -> "announce" -> "swap" ->       *)
(*                    "oldLock" -> "oldDecide" -> "idle", or "free" ...    *)
(*                                                                         *)
(* config_lock only ever covers single accesses of cur_cfg and             *)
(* config_reloading, so a section under it is one step here.               *)
(***************************************************************************)
EXTENDS Integers, FiniteSets

CONSTANTS
  Threads,     (* every thread that calls config_retrieve                  *)
  Admins,      (* those among them that run manager_reload                 *)
  NoThread,    (* "nobody": the owner of an unlocked mutex                 *)
  MaxConfigs   (* bound: configurations loaded during one run              *)

ASSUME ThreadsAssumption ==
  /\ IsFiniteSet(Threads)
  /\ Admins \subseteq Threads
  /\ NoThread \notin Threads

ASSUME MaxConfigsAssumption == MaxConfigs \in Nat \ {0}

(* A configuration is named by the order of its allocation; 1 is the one   *)
(* main() loads before any other thread exists.                            *)
Configs == 1 .. MaxConfigs

(* The value of a pointer local that is not in use.                        *)
NoConfig == 0

VARIABLES
  curCfg,      (* cur_cfg                                                  *)
  reloading,   (* config_reloading                                         *)
  life,        (* is the struct config allocated: "none", "live", "freed"  *)
  refCount,    (* cf_ref_count                                             *)
  lock,        (* owner of cf_ref_count_lock                               *)
  reloaded,    (* cf_reloaded                                              *)
  pc,          (* the next statement of each thread                        *)
  ptr,         (* the config whose mutex config_retrieve asked for         *)
  cfg,         (* ret_ptr, config_release's cfg, reload_config's cfg / old *)
  cnt,         (* the register between the load and the store of ++ and -- *)
  straddled    (* history: cur_cfg was swapped inside a config_retrieve    *)

cfgVars == <<life, refCount, lock, reloaded>>
vars == <<curCfg, reloading, life, refCount, lock, reloaded,
          pc, ptr, cfg, cnt, straddled>>

Goto(t, label) == pc' = [pc EXCEPT ![t] = label]

Return(t) ==
  /\ Goto(t, "idle")
  /\ cfg' = [cfg EXCEPT ![t] = NoConfig]

Unlock(c) == lock' = [lock EXCEPT ![c] = NoThread]

-----------------------------------------------------------------------------
(* config_retrieve *)

(* cur_cfg is read once to name the mutex ...                              *)
RetrieveRead(t) ==
  /\ pc[t] = "idle"
  /\ ptr' = [ptr EXCEPT ![t] = curCfg]
  /\ Goto(t, "lockWait")
  /\ UNCHANGED <<curCfg, reloading, cfgVars, cfg, cnt, straddled>>

RetrieveLock(t) ==
  /\ pc[t] = "lockWait"
  /\ lock[ptr[t]] = NoThread
  /\ lock' = [lock EXCEPT ![ptr[t]] = t]
  /\ Goto(t, "load")
  /\ UNCHANGED <<curCfg, reloading, life, refCount, reloaded, ptr, cfg, cnt,
                 straddled>>

(* ... and a second time, after the call of pthread_mutex_lock, for the    *)
(* counter; ret_ptr and the unlock share that second read.                 *)
RetrieveLoad(t) ==
  /\ pc[t] = "load"
  /\ ptr' = [ptr EXCEPT ![t] = NoConfig]
  /\ cfg' = [cfg EXCEPT ![t] = curCfg]
  /\ cnt' = [cnt EXCEPT ![t] = refCount[curCfg]]
  /\ Goto(t, "store")
  /\ UNCHANGED <<curCfg, reloading, cfgVars, straddled>>

RetrieveStore(t) ==
  /\ pc[t] = "store"
  /\ refCount' = [refCount EXCEPT ![cfg[t]] = cnt[t] + 1]
  /\ cnt' = [cnt EXCEPT ![t] = 0]
  /\ Goto(t, "unlock")
  /\ UNCHANGED <<curCfg, reloading, life, lock, reloaded, ptr, cfg, straddled>>

(* A default mutex is released by whichever thread unlocks it.             *)
RetrieveUnlock(t) ==
  /\ pc[t] = "unlock"
  /\ Unlock(cfg[t])
  /\ Goto(t, "holding")
  /\ UNCHANGED <<curCfg, reloading, life, refCount, reloaded, ptr, cfg, cnt,
                 straddled>>

-----------------------------------------------------------------------------
(* config_release: the connection closes, or LOGIN or accept is done.      *)

ReleaseBegin(t) ==
  /\ pc[t] = "holding"
  /\ Goto(t, "relLock")
  /\ UNCHANGED <<curCfg, reloading, cfgVars, ptr, cfg, cnt, straddled>>

(* Mutant: config_release decrements without taking the mutex.             *)
ReleaseWithoutLock(t) ==
  /\ pc[t] = "relLock"
  /\ Goto(t, "relLoad")
  /\ UNCHANGED <<curCfg, reloading, cfgVars, ptr, cfg, cnt, straddled>>

ReleaseLock(t) ==
  /\ pc[t] = "relLock"
  /\ lock[cfg[t]] = NoThread
  /\ lock' = [lock EXCEPT ![cfg[t]] = t]
  /\ Goto(t, "relLoad")
  /\ UNCHANGED <<curCfg, reloading, life, refCount, reloaded, ptr, cfg, cnt,
                 straddled>>

ReleaseLoad(t) ==
  /\ pc[t] = "relLoad"
  /\ cnt' = [cnt EXCEPT ![t] = refCount[cfg[t]]]
  /\ Goto(t, "relStore")
  /\ UNCHANGED <<curCfg, reloading, cfgVars, ptr, cfg, straddled>>

ReleaseStore(t) ==
  /\ pc[t] = "relStore"
  /\ refCount' = [refCount EXCEPT ![cfg[t]] = cnt[t] - 1]
  /\ cnt' = [cnt EXCEPT ![t] = 0]
  /\ Goto(t, "relDecide")
  /\ UNCHANGED <<curCfg, reloading, life, lock, reloaded, ptr, cfg, straddled>>

LastReference(c) == reloaded[c] /\ refCount[c] < 1

(* Mutant: config_release unlocks only when it does not free.              *)
ReleaseKeepsMutex(t) ==
  /\ pc[t] = "relDecide"
  /\ IF LastReference(cfg[t])
       THEN Goto(t, "free") /\ UNCHANGED <<cfg, lock>>
       ELSE Return(t) /\ Unlock(cfg[t])
  /\ UNCHANGED <<curCfg, reloading, life, refCount, reloaded, ptr, cnt,
                 straddled>>

ReleaseDecide(t) ==
  /\ pc[t] = "relDecide"
  /\ IF LastReference(cfg[t]) THEN Goto(t, "free") /\ UNCHANGED cfg
                              ELSE Return(t)
  /\ Unlock(cfg[t])
  /\ UNCHANGED <<curCfg, reloading, life, refCount, reloaded, ptr, cnt,
                 straddled>>

-----------------------------------------------------------------------------
(* Shared by config_release and reload_config. *)

(* Mutant: config_reloading is not reset after the free.                   *)
FreeWithoutClear(t) ==
  /\ pc[t] = "free"
  /\ life' = [life EXCEPT ![cfg[t]] = "freed"]
  /\ Return(t)
  /\ UNCHANGED <<curCfg, reloading, refCount, lock, reloaded, ptr, cnt,
                 straddled>>

FreeConfig(t) ==
  /\ pc[t] = "free"
  /\ life' = [life EXCEPT ![cfg[t]] = "freed"]
  /\ cfg' = [cfg EXCEPT ![t] = NoConfig]
  /\ Goto(t, "clear")
  /\ UNCHANGED <<curCfg, reloading, refCount, lock, reloaded, ptr, cnt,
                 straddled>>

ClearReloading(t) ==
  /\ pc[t] = "clear"
  /\ reloading' = FALSE
  /\ Goto(t, "idle")
  /\ UNCHANGED <<curCfg, cfgVars, ptr, cfg, cnt, straddled>>

-----------------------------------------------------------------------------
(* reload_config *)

(* config_reloading = TRUE: R_POSITIVE, nothing changes.                   *)
ReloadRefused(t) ==
  /\ pc[t] = "idle"
  /\ reloading
  /\ UNCHANGED vars

ReloadCheck(t) ==
  /\ pc[t] = "idle"
  /\ ~reloading
  /\ Goto(t, "loading")
  /\ UNCHANGED <<curCfg, reloading, cfgVars, ptr, cfg, cnt, straddled>>

(* set_config fails and frees what it built: R_ERROR.                      *)
ReloadFails(t) ==
  /\ pc[t] = "loading"
  /\ Goto(t, "idle")
  /\ UNCHANGED <<curCfg, reloading, cfgVars, ptr, cfg, cnt, straddled>>

(* set_config returns an initialised struct config (init_config: all zero, *)
(* mutex free) that no other thread knows.                                 *)
Unallocated == {c \in Configs : life[c] = "none"}

ReloadLoads(t) ==
  /\ pc[t] = "loading"
  /\ \E c \in Unallocated :
       /\ \A d \in Unallocated : c <= d
       /\ life' = [life EXCEPT ![c] = "live"]
       /\ cfg' = [cfg EXCEPT ![t] = c]
  /\ Goto(t, "announce")
  /\ UNCHANGED <<curCfg, reloading, refCount, lock, reloaded, ptr, cnt,
                 straddled>>

ReloadAnnounce(t) ==
  /\ pc[t] = "announce"
  /\ reloading' = TRUE
  /\ Goto(t, "swap")
  /\ UNCHANGED <<curCfg, cfgVars, ptr, cfg, cnt, straddled>>

(* A thread between its two reads of cur_cfg.                              *)
InWindow(t) == pc[t] \in {"lockWait", "load"}

(* Mutant: old is never assigned.                                          *)
SwapForgetsOld(t) ==
  /\ pc[t] = "swap"
  /\ cfg' = [cfg EXCEPT ![t] = NoConfig]
  /\ curCfg' = cfg[t]
  /\ straddled' = (straddled \/ \E u \in Threads : InWindow(u))
  /\ Goto(t, "oldLock")
  /\ UNCHANGED <<reloading, cfgVars, ptr, cnt>>

ReloadSwap(t) ==
  /\ pc[t] = "swap"
  /\ cfg' = [cfg EXCEPT ![t] = curCfg]
  /\ curCfg' = cfg[t]
  /\ straddled' = (straddled \/ \E u \in Threads : InWindow(u))
  /\ Goto(t, "oldLock")
  /\ UNCHANGED <<reloading, cfgVars, ptr, cnt>>

OldLock(t) ==
  /\ pc[t] = "oldLock"
  /\ lock[cfg[t]] = NoThread
  /\ lock' = [lock EXCEPT ![cfg[t]] = t]
  /\ Goto(t, "oldDecide")
  /\ UNCHANGED <<curCfg, reloading, life, refCount, reloaded, ptr, cfg, cnt,
                 straddled>>

(* Mutant: off by one, a configuration with one reference is freed.        *)
AtMostOneReference(c) == refCount[c] <= 1

Unreferenced(c) == refCount[c] < 1

(* Mutant: the old configuration is not marked.                            *)
OldNotMarked(t) ==
  /\ pc[t] = "oldDecide"
  /\ IF Unreferenced(cfg[t]) THEN Goto(t, "free") /\ UNCHANGED cfg
                             ELSE Return(t)
  /\ Unlock(cfg[t])
  /\ UNCHANGED <<curCfg, reloading, life, refCount, reloaded, ptr, cnt,
                 straddled>>

OldDecide(t) ==
  /\ pc[t] = "oldDecide"
  /\ IF Unreferenced(cfg[t])
       THEN /\ Goto(t, "free")
            /\ UNCHANGED <<reloaded, cfg>>
       ELSE /\ Return(t)
            /\ reloaded' = [reloaded EXCEPT ![cfg[t]] = TRUE]
  /\ Unlock(cfg[t])
  /\ UNCHANGED <<curCfg, reloading, life, refCount, ptr, cnt, straddled>>

-----------------------------------------------------------------------------
(* The state main() leaves behind when it starts the other threads: one    *)
(* configuration, loaded by a reload_config that found cur_cfg == NULL.    *)
Init ==
  /\ curCfg = 1
  /\ reloading = FALSE
  /\ life = [c \in Configs |-> IF c = 1 THEN "live" ELSE "none"]
  /\ refCount = [c \in Configs |-> 0]
  /\ lock = [c \in Configs |-> NoThread]
  /\ reloaded = [c \in Configs |-> FALSE]
  /\ pc = [t \in Threads |-> "idle"]
  /\ ptr = [t \in Threads |-> NoConfig]
  /\ cfg = [t \in Threads |-> NoConfig]
  /\ cnt = [t \in Threads |-> 0]
  /\ straddled = FALSE

(* What a thread does of its own accord once it is inside a function.      *)
Continue(t) ==
  \/ RetrieveLock(t) \/ RetrieveLoad(t) \/ RetrieveStore(t)
  \/ RetrieveUnlock(t)
  \/ ReleaseLock(t) \/ ReleaseLoad(t) \/ ReleaseStore(t) \/ ReleaseDecide(t)
  \/ FreeConfig(t) \/ ClearReloading(t)
  \/ ReloadFails(t) \/ ReloadLoads(t) \/ ReloadAnnounce(t) \/ ReloadSwap(t)
  \/ OldLock(t) \/ OldDecide(t)

Next ==
  \/ \E t \in Threads : RetrieveRead(t) \/ ReleaseBegin(t) \/ Continue(t)
  \/ \E t \in Admins : ReloadCheck(t) \/ ReloadRefused(t)

Spec == Init /\ [][Next]_vars

(* Threads are scheduled, and a connection ends: libmilter gives up a      *)
(* silent peer (smfi_settimeout), LOGIN and accept release at once.        *)
(* Nothing makes a client connect or an administrator reload.              *)
Fairness == \A t \in Threads : WF_vars(Continue(t)) /\ WF_vars(ReleaseBegin(t))

FairSpec == Spec /\ Fairness

(* A reload_config that swaps cur_cfg while some config_retrieve is between *)
(* its two reads breaks the protocol (the run straddle_free of PROJECT.json). *)
(* QuietSpec is every behaviour of Spec in which that does not happen.      *)
QuietSpec == Init /\ [][Next /\ ~straddled']_vars

QuietFairSpec == QuietSpec /\ Fairness

-----------------------------------------------------------------------------
(* Properties *)

Labels == {"idle", "lockWait", "load", "store", "unlock", "holding",
           "relLock", "relLoad", "relStore", "relDecide", "free", "clear",
           "loading", "announce", "swap", "oldLock", "oldDecide"}

(* Where a thread's cfg points at a configuration.                         *)
CfgLabels == Labels \ {"idle", "lockWait", "load", "clear", "loading"}

(* A pointer local is set exactly while its function is going to use it.   *)
LocalsSet ==
  /\ \A t \in Threads : ptr[t] # NoConfig <=> InWindow(t)
  /\ \A t \in Threads : cfg[t] # NoConfig <=> pc[t] \in CfgLabels

(* Type invariant; with LocalsSet, no statement dereferences NULL.         *)
TypeOK ==
  /\ curCfg \in Configs
  /\ reloading \in BOOLEAN
  /\ life \in [Configs -> {"none", "live", "freed"}]
  /\ refCount \in [Configs -> Int]
  /\ lock \in [Configs -> Threads \cup {NoThread}]
  /\ reloaded \in [Configs -> BOOLEAN]
  /\ pc \in [Threads -> Labels]
  /\ ptr \in [Threads -> Configs \cup {NoConfig}]
  /\ cfg \in [Threads -> Configs \cup {NoConfig}]
  /\ cnt \in [Threads -> Int]
  /\ straddled \in BOOLEAN
  /\ LocalsSet

(* A thread that will still dereference configuration c.                   *)
Refers(t, c) == ptr[t] = c \/ cfg[t] = c

(* The threads the reference count of c stands for: past the ++ of         *)
(* config_retrieve and before the -- of config_release.                    *)
CountedLabels == {"unlock", "holding", "relLock", "relLoad", "relStore"}
Counted(c) == {t \in Threads : cfg[t] = c /\ pc[t] \in CountedLabels}

(* The thread is inside the section that c's mutex protects.               *)
Critical(t, c) ==
  \/ pc[t] = "load" /\ ptr[t] = c
  \/ /\ pc[t] \in {"store", "unlock", "relLoad", "relStore", "relDecide",
                    "oldDecide"}
     /\ cfg[t] = c

(* Swapped out and not freed yet.                                          *)
Retired(c) ==
  /\ life[c] = "live"
  /\ c # curCfg
  /\ \A t \in Threads : cfg[t] = c => pc[t] \notin {"announce", "swap"}

(* Whatever a thread is about to dereference is allocated: no callback     *)
(* reads, and no mutex call touches, a configuration free_config released. *)
ReferencedIsLive ==
  \A t \in Threads, c \in Configs : Refers(t, c) => life[c] = "live"

(* free_config runs only on a configuration nobody else refers to and that *)
(* nobody can get any more ("free it if no one else refers to it").        *)
FreeUnreferenced ==
  \A t \in Threads : pc[t] = "free" =>
    /\ cfg[t] # curCfg
    /\ \A u \in Threads \ {t} : ~Refers(u, cfg[t])

(* cf_ref_count is the number of callers that hold the configuration, at   *)
(* every instant and however ++ and -- interleave.                         *)
CountExact == \A c \in Configs : refCount[c] = Cardinality(Counted(c))

(* A locked cf_ref_count_lock has an owner that is about to unlock it, and *)
(* who is inside the section owns it: no mutex is left behind locked.      *)
NoAbandonedMutex ==
  \A c \in Configs, t \in Threads : lock[c] = t <=> Critical(t, c)

(* No configuration leaks: an allocated one is current or some thread      *)
(* still refers to it and will hand it on or free it.                      *)
NothingStranded ==
  \A c \in Configs :
    life[c] = "live" => c = curCfg \/ \E t \in Threads : Refers(t, c)

(* config_reloading stays TRUE only while a reload is really unfinished,   *)
(* so an administrator is never refused for good.                          *)
FlagJustified ==
  reloading =>
    \/ \E t \in Threads : pc[t] \in {"swap", "clear"}
    \/ \E c \in Configs : Retired(c)

(* The configuration a new connection would get is allocated.  This one    *)
(* holds in every behaviour of Spec, straddled or not.                     *)
CurrentIsLive == life[curCfg] = "live"

(* Liveness: after a reload the next one is accepted again.                *)
ReloadAvailable == reloading ~> ~reloading

-----------------------------------------------------------------------------
(* Refinement: holding begins with the second read of cur_cfg and ends     *)
(* with the decrement.                                                     *)
Store == INSTANCE ConfigStore WITH
  FirstConfig <- 1,
  current <- curCfg,
  held <- [t \in Threads |->
             IF pc[t] \in CountedLabels \cup {"store"} THEN cfg[t] ELSE NoConfig],
  status <- [c \in Configs |->
               IF c = curCfg THEN "current"
               ELSE IF life[c] = "freed" THEN "reclaimed"
               ELSE IF Retired(c) THEN "retired"
               ELSE "unborn"]

(* Without straddling, the counted configuration implements ConfigStore.   *)
StoreRefined == Store!Spec
=============================================================================
