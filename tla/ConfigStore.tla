---------------------------- MODULE ConfigStore ----------------------------
(***************************************************************************)
(* What config_retrieve, config_release and reload_config of msy_config.c  *)
(* promise their callers, without locks or counters: there is one current  *)
(* configuration, a caller gets the one that is current, may keep it while *)
(* others replace it, and a replaced one is reclaimed only when nobody     *)
(* keeps it.  ConfigRef is shown to implement this.                        *)
(***************************************************************************)
EXTENDS Integers

CONSTANTS
  Threads,    (* the callers                                               *)
  Configs,    (* the configurations that may ever be loaded                *)
  NoConfig,   (* "none held", none of the Configs                          *)
  FirstConfig (* the one the program starts with                           *)

VARIABLES
  current,    (* the configuration a caller gets                           *)
  held,       (* what each caller keeps                                    *)
  status      (* "unborn", "current", "retired" or "reclaimed"             *)

storeVars == <<current, held, status>>

Acquire(t) ==
  /\ held[t] = NoConfig
  /\ held' = [held EXCEPT ![t] = current]
  /\ UNCHANGED <<current, status>>

Release(t) ==
  /\ held[t] # NoConfig
  /\ held' = [held EXCEPT ![t] = NoConfig]
  /\ UNCHANGED <<current, status>>

Replace(c) ==
  /\ status[c] = "unborn"
  /\ status' = [status EXCEPT ![c] = "current", ![current] = "retired"]
  /\ current' = c
  /\ UNCHANGED held

Reclaim(c) ==
  /\ status[c] = "retired"
  /\ \A t \in Threads : held[t] # c
  /\ status' = [status EXCEPT ![c] = "reclaimed"]
  /\ UNCHANGED <<current, held>>

Init ==
  /\ current = FirstConfig
  /\ held = [t \in Threads |-> NoConfig]
  /\ status = [c \in Configs |->
                 IF c = FirstConfig THEN "current" ELSE "unborn"]

Next ==
  \/ \E t \in Threads : Acquire(t) \/ Release(t)
  \/ \E c \in Configs : Replace(c) \/ Reclaim(c)

Spec == Init /\ [][Next]_storeVars
=============================================================================
