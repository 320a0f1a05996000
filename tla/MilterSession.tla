--------------------------- MODULE MilterSession ---------------------------
(***************************************************************************)
(* One SMTP connection as messasy.c sees it: the callbacks libmilter calls,*)
(* the message state in struct mlfiPriv, and the loops of                  *)
(* msy_readmodule.c over the storage modules, each of which keeps a        *)
(* temporary file in the connection's list of struct extrapriv.            *)
(*                                                                         *)
(* One step per callback, and one per module inside msy_exec_header,       *)
(* msy_exec_body, msy_exec_eom and msy_exec_abort.  libmilter (external)   *)
(* calls the callbacks of one connection one after the other; phase is     *)
(* where it is in the SMTP dialogue.  Connections only share the           *)
(* configuration, which is ConfigRef's subject.                            *)
(*                                                                         *)
(* Data is reduced to which message it belongs to: an address, a recipient *)
(* list or the content of a temporary file is a set of message numbers.    *)
(***************************************************************************)
EXTENDS Integers, Sequences, FiniteSets

CONSTANTS
  Modules,     (* the loaded modules, in the order the configuration lists *)
               (* their functions                                          *)
  MaxMsgs,     (* bound: messages sent in one behaviour                    *)
  Failures     (* the ways a module's header or body function may fail     *)

ASSUME ModulesAssumption ==
  /\ Modules \in Seq(STRING) /\ Len(Modules) > 0
  /\ \A i, j \in DOMAIN Modules : Modules[i] = Modules[j] => i = j

ASSUME BoundsAssumption ==
  /\ MaxMsgs \in Nat \ {0}
  /\ Failures \subseteq {"noPriv", "noBuffer", "noFile", "noWrite"}

Msgs == 1 .. MaxMsgs
NoMsg == 0
ModuleNames == {Modules[i] : i \in DOMAIN Modules}

VARIABLES
  phase,       (* libmilter: "none", "refused", "ready", "mail", "header", *)
               (* "body" or "over" (the message has its verdict)           *)
  msg,         (* the message on the wire                                  *)
  at,          (* the loop that is running: "mta" (none), "header",        *)
               (* "body", "eom" or "abort"                                 *)
  idx,         (* its position in the list of modules                      *)
  after,       (* what the callback returns once mlfi_abort is done        *)
  hasPriv,     (* smfi_getpriv is not NULL                                 *)
  refs,        (* references to a configuration this connection holds      *)
  from,        (* mlfi_envfrom                                             *)
  rcptto,      (* mlfi_rcptto_h                                            *)
  matched,     (* mlfi_addrmatched_h                                       *)
  headerExistence,
  extra,       (* per module: its extrapriv is "absent", or has a          *)
               (* modulepriv that is "null", "freed" or "open"             *)
  file,        (* per module: what its temporary file contains             *)
  archive,     (* what the modules' close functions were given to keep     *)
  verdict,     (* per message: what the MTA was told                       *)
  condition,   (* of the process: "ok", "exited" or "undefined"            *)
  empty        (* history: the messages with neither header nor body       *)

envelope == <<from, rcptto, matched, headerExistence>>
loop == <<at, idx, after>>
store == <<extra, file, archive>>
world == <<condition, empty>>
vars == <<phase, msg, loop, hasPriv, refs, envelope, store, verdict, world>>

OK == condition = "ok"
Idle == OK /\ at = "mta"

StartLoop(name) == at' = name /\ idx' = 1 /\ after' = "continue"

(* mlfi_abort, called by libmilter or by a callback that will return v.    *)
StartAbort(v) == at' = "abort" /\ idx' = 1 /\ after' = v

(* The callback returns v, which ends the message.                         *)
Answer(v) ==
  /\ at' = "mta" /\ idx' = 1 /\ after' = "continue"
  /\ phase' = "over"
  /\ verdict' = IF verdict[msg] = "none"
                  THEN [verdict EXCEPT ![msg] = v] ELSE verdict

(* Mutant: the recipients survive the message.                             *)
CleanupKeepsRecipients ==
  /\ from' = NoMsg /\ matched' = {}
  /\ headerExistence' = FALSE
  /\ UNCHANGED rcptto

(* eom_cleanup *)
EomCleanup ==
  /\ from' = NoMsg /\ rcptto' = {} /\ matched' = {}
  /\ headerExistence' = FALSE

-----------------------------------------------------------------------------
(* mlfi_connect and mlfi_close *)

Connect ==
  /\ Idle /\ phase = "none"
  /\ phase' = "ready"
  /\ hasPriv' = TRUE
  /\ refs' = refs + 1
  /\ UNCHANGED <<msg, loop, envelope, store, verdict, world>>

(* Mutant: the early return keeps the configuration.                       *)
ConnectKeepsConfig ==
  /\ Idle /\ phase = "none"
  /\ phase' = "refused"
  /\ refs' = refs + 1
  /\ UNCHANGED <<msg, loop, hasPriv, envelope, store, verdict, world>>

(* time() fails: the configuration is retrieved and released again, and    *)
(* ErrorAction (never CONTINUE) ends the connection.                       *)
ConnectFails ==
  /\ Idle /\ phase = "none"
  /\ phase' = "refused"
  /\ UNCHANGED <<msg, loop, hasPriv, refs, envelope, store, verdict, world>>

(* Mutant: releases whether there is a priv or not.                        *)
CloseReleasesBlindly ==
  /\ Idle /\ phase \in {"ready", "over", "refused"}
  /\ phase' = "none"
  /\ hasPriv' = FALSE
  /\ refs' = refs - 1
  /\ UNCHANGED <<msg, loop, envelope, store, verdict, world>>

(* mlfi_freepriv: releases, frees and clears priv; without priv, nothing.  *)
Close ==
  /\ Idle /\ phase \in {"ready", "over", "refused"}
  /\ phase' = "none"
  /\ hasPriv' = FALSE
  /\ refs' = IF hasPriv THEN refs - 1 ELSE refs
  /\ UNCHANGED <<msg, loop, envelope, store, verdict, world>>

-----------------------------------------------------------------------------
(* mlfi_envfrom and mlfi_envrcpt *)

EnvFrom ==
  /\ Idle /\ phase \in {"ready", "over"} /\ msg < MaxMsgs
  /\ phase' = "mail"
  /\ msg' = msg + 1
  /\ from' = msg + 1
  /\ UNCHANGED <<loop, hasPriv, refs, rcptto, matched, headerExistence, store,
                 verdict, world>>

EnvRcpt ==
  /\ Idle /\ phase = "mail"
  /\ rcptto' = rcptto \cup {msg}
  /\ UNCHANGED <<phase, msg, loop, hasPriv, refs, from, matched,
                 headerExistence, store, verdict, world>>

-----------------------------------------------------------------------------
(* mlfi_header *)

AtHeader == Idle /\ phase \in {"mail", "header"} /\ rcptto # {}

(* SaveIgnoreHeader matches: not to be archived, SMFIS_ACCEPT.             *)
HeaderIgnored ==
  /\ AtHeader
  /\ StartAbort("accept")
  /\ UNCHANGED <<phase, msg, hasPriv, refs, envelope, store, verdict,
                 world>>

(* The first header: make_savelist fails, or finds no address to archive.  *)
SavelistFailsOrEmpty ==
  /\ AtHeader
  /\ ~headerExistence
  /\ headerExistence' = TRUE
  /\ StartAbort("error") \/ StartAbort("accept")
  /\ UNCHANGED <<phase, msg, hasPriv, refs, from, rcptto, matched, store,
                 verdict, world>>

(* The first header: some of the sender and the recipients are archived.   *)
FirstHeader ==
  /\ AtHeader
  /\ ~headerExistence
  /\ headerExistence' = TRUE
  /\ matched' \in {{from}, rcptto, rcptto \cup {from}}
  /\ phase' = "header"
  /\ StartLoop("header")
  /\ UNCHANGED <<msg, hasPriv, refs, from, rcptto, store, verdict, world>>

LaterHeader ==
  /\ AtHeader
  /\ headerExistence
  /\ phase' = "header"
  /\ StartLoop("header")
  /\ UNCHANGED <<msg, hasPriv, refs, envelope, store, verdict, world>>

(* A message without any header line: no mlfi_header, no address list.     *)
NoHeader == phase = "mail" /\ rcptto # {}

(* mlfi_body                                                               *)
Body ==
  /\ Idle
  /\ phase \in {"header", "body"} \/ NoHeader
  /\ phase' = "body"
  /\ StartLoop("body")
  /\ UNCHANGED <<msg, hasPriv, refs, envelope, store, verdict, world>>

(* mlfi_eom *)
Eom ==
  /\ Idle
  /\ phase \in {"header", "body"} \/ NoHeader
  /\ StartLoop("eom")
  /\ empty' = IF phase = "mail" THEN empty \cup {msg} ELSE empty
  /\ UNCHANGED <<phase, msg, hasPriv, refs, envelope, store, verdict,
                 condition>>

(* RSET, a lost connection, or another filter's verdict: libmilter calls   *)
(* mlfi_abort.  It may come when the message is over already.              *)
MtaAborts ==
  /\ Idle /\ phase \in {"mail", "header", "body", "over"}
  /\ StartAbort("aborted")
  /\ UNCHANGED <<phase, msg, hasPriv, refs, envelope, store, verdict,
                 world>>

-----------------------------------------------------------------------------
(* msy_exec_header, msy_exec_body: one call of a module's function *)

Current == Modules[idx]
InLoop(names) == OK /\ at \in names /\ idx <= Len(Modules)

(* The module has its temporary file or opens one, and writes.             *)
ModuleWrites ==
  /\ InLoop({"header", "body"})
  /\ extra' = [extra EXCEPT ![Current] = "open"]
  /\ file' = [file EXCEPT ![Current] = @ \cup {msg}]
  /\ idx' = idx + 1
  /\ UNCHANGED <<phase, msg, at, after, hasPriv, refs, envelope, archive,
                 verdict, world>>

(* Where a failing module function leaves its extrapriv: get_priv fails;   *)
(* no memory for modulepriv; the temporary file cannot be opened, and      *)
(* modulepriv is freed but stays in the list; the file cannot be written.  *)
Left(kind) == CASE kind = "noPriv"   -> "absent"
                [] kind = "noBuffer" -> "null"
                [] kind = "noFile"   -> "freed"
                [] kind = "noWrite"  -> "open"

ModuleFails ==
  /\ InLoop({"header", "body"})
  /\ \E kind \in Failures :
       /\ IF kind = "noWrite" THEN TRUE ELSE extra[Current] = "absent"
       /\ extra' = [extra EXCEPT ![Current] = Left(kind)]
  /\ StartAbort("error")
  /\ UNCHANGED <<phase, msg, hasPriv, refs, envelope, file, archive, verdict,
                 world>>

(* Every module was called: SMFIS_CONTINUE.                                *)
LoopReturns ==
  /\ OK /\ at \in {"header", "body"} /\ idx > Len(Modules)
  /\ at' = "mta" /\ idx' = 1
  /\ UNCHANGED <<phase, msg, after, hasPriv, refs, envelope, store, verdict,
                 world>>

-----------------------------------------------------------------------------
(* msy_exec_eom *)

(* The module's extrapriv is taken out of the list, its file is gone.      *)
Forget ==
  /\ extra' = [extra EXCEPT ![Current] = "absent"]
  /\ file' = [file EXCEPT ![Current] = {}]

(* The module's close function succeeds.                                   *)
ModuleCloses ==
  /\ InLoop({"eom"})
  /\ extra[Current] = "open"
  /\ Forget
  /\ archive' = archive \cup {[module |-> Current, message |-> msg,
                               content |-> file[Current], addrs |-> matched]}
  /\ idx' = idx + 1
  /\ UNCHANGED <<phase, msg, at, after, hasPriv, refs, envelope, verdict,
                 world>>

(* It never saw this message: nothing to do.                               *)
ModuleHasNothing ==
  /\ InLoop({"eom", "abort"})
  /\ extra[Current] = "absent"
  /\ idx' = idx + 1
  /\ UNCHANGED <<phase, msg, at, after, hasPriv, refs, envelope, store,
                 verdict, world>>

(* Mutant: the first module's failure does not stop the loop.              *)
CloseFailureIgnored ==
  /\ InLoop({"eom"})
  /\ extra[Current] = "open"
  /\ idx' = idx + 1
  /\ UNCHANGED <<phase, msg, at, after, hasPriv, refs, envelope, store,
                 verdict, world>>

(* The module's close function fails; its file is left to mlfi_abort.      *)
ModuleCloseFails ==
  /\ InLoop({"eom"})
  /\ extra[Current] = "open"
  /\ StartAbort("error")
  /\ UNCHANGED <<phase, msg, hasPriv, refs, envelope, store, verdict,
                 world>>

EomReturns ==
  /\ OK /\ at = "eom" /\ idx > Len(Modules)
  /\ EomCleanup
  /\ Answer("continue")
  /\ UNCHANGED <<msg, hasPriv, refs, store, world>>

-----------------------------------------------------------------------------
(* msy_exec_abort *)

(* Mutant: exec_abort leaves its extrapriv in the list.                    *)
AbortKeepsFile ==
  /\ InLoop({"abort"})
  /\ extra[Current] = "open"
  /\ idx' = idx + 1
  /\ UNCHANGED <<phase, msg, at, after, hasPriv, refs, envelope, store,
                 verdict, world>>

(* close, unlink, and out of the list.                                     *)
ModuleAborts ==
  /\ InLoop({"abort"})
  /\ extra[Current] = "open"
  /\ Forget
  /\ idx' = idx + 1
  /\ UNCHANGED <<phase, msg, at, after, hasPriv, refs, envelope, archive,
                 verdict, world>>

(* exec_abort follows modulepriv without looking at it.                    *)
ModuleAbortsDangling ==
  /\ InLoop({"abort"})
  /\ extra[Current] \in {"null", "freed"}
  /\ condition' = "undefined"
  /\ UNCHANGED <<phase, msg, loop, hasPriv, refs, envelope, store, verdict,
                 empty>>

(* No module's exec_abort returns anything but 0.                          *)
AbortReturns ==
  /\ OK /\ at = "abort" /\ idx > Len(Modules)
  /\ EomCleanup
  /\ Answer(after)
  /\ UNCHANGED <<msg, hasPriv, refs, store, world>>

(* exit(): some allocation failed, in this callback or in any other thread.*)
ProcessExits ==
  /\ OK
  /\ condition' = "exited"
  /\ UNCHANGED <<phase, msg, loop, hasPriv, refs, envelope, store, verdict,
                 empty>>

(* After exit() or undefined behaviour nothing is said of the program.     *)
Stopped == ~OK /\ UNCHANGED vars

-----------------------------------------------------------------------------
Init ==
  /\ phase = "none" /\ msg = NoMsg
  /\ at = "mta" /\ idx = 1 /\ after = "continue"
  /\ hasPriv = FALSE /\ refs = 0
  /\ from = NoMsg /\ rcptto = {} /\ matched = {} /\ headerExistence = FALSE
  /\ extra = [m \in ModuleNames |-> "absent"]
  /\ file = [m \in ModuleNames |-> {}]
  /\ archive = {}
  /\ verdict = [m \in Msgs |-> "none"]
  /\ condition = "ok"
  /\ empty = {}

Callback ==
  \/ Connect \/ ConnectFails \/ Close \/ EnvFrom \/ EnvRcpt
  \/ HeaderIgnored \/ SavelistFailsOrEmpty \/ FirstHeader \/ LaterHeader
  \/ Body \/ Eom \/ MtaAborts

ModuleStep ==
  \/ ModuleWrites \/ ModuleFails \/ LoopReturns
  \/ ModuleCloses \/ ModuleHasNothing \/ ModuleCloseFails \/ EomReturns
  \/ ModuleAborts \/ ModuleAbortsDangling \/ AbortReturns

Next == Callback \/ ModuleStep \/ ProcessExits \/ Stopped

Spec == Init /\ [][Next]_vars

-----------------------------------------------------------------------------
(* Properties *)

TypeOK ==
  /\ phase \in {"none", "refused", "ready", "mail", "header", "body", "over"}
  /\ msg \in Msgs \cup {NoMsg}
  /\ at \in {"mta", "header", "body", "eom", "abort"}
  /\ idx \in 1 .. Len(Modules) + 1
  /\ after \in {"continue", "accept", "error", "aborted"}
  /\ hasPriv \in BOOLEAN
  /\ refs \in Nat
  /\ from \in Msgs \cup {NoMsg}
  /\ rcptto \subseteq Msgs
  /\ matched \subseteq Msgs
  /\ headerExistence \in BOOLEAN
  /\ extra \in [ModuleNames -> {"absent", "null", "freed", "open"}]
  /\ file \in [ModuleNames -> SUBSET Msgs]
  /\ archive \subseteq [module : ModuleNames, message : Msgs,
                        content : SUBSET Msgs, addrs : SUBSET Msgs]
  /\ verdict \in [Msgs -> {"none", "continue", "accept", "error", "aborted"}]
  /\ condition \in {"ok", "exited", "undefined"}
  /\ empty \subseteq Msgs

(* A connection holds exactly one configuration while it has a priv for    *)
(* the callbacks to find it in, and none otherwise: no early return keeps  *)
(* a reference, no path releases it twice.                                 *)
OneReference ==
  /\ refs = IF hasPriv THEN 1 ELSE 0
  /\ hasPriv <=> phase \notin {"none", "refused"}

(* Between two messages of a connection nothing of the last one is left:   *)
(* no open temporary file, no address, whatever way it ended.              *)
CleanBetweenMessages ==
  OK /\ at = "mta" /\ phase \in {"none", "ready", "over"} =>
    /\ \A m \in ModuleNames : extra[m] = "absent"
    /\ from = NoMsg /\ rcptto = {} /\ matched = {} /\ ~headerExistence

(* What is archived is one whole message under its own addresses: neither  *)
(* the content nor the address lists of two messages are mixed, and none   *)
(* is archived without an address unless it has no header line at all.     *)
ArchivedAsSent ==
  [][\A r \in archive' \ archive :
       /\ r.content = {r.message}
       /\ r.addrs = {r.message} \/ (r.addrs = {} /\ ~headerExistence)]_vars

Archived(m) == {r.module : r \in {q \in archive : q.message = m}}

(* What the MTA is told is what happened: CONTINUE at the end means every  *)
(* module archived the message; "not to be archived" and an abort mean     *)
(* none did; ErrorAction means at least one did not.  (A message without a *)
(* header and without a body passes unarchived.)                           *)
VerdictTruthful ==
  \A m \in Msgs :
    CASE verdict[m] = "continue" ->
           Archived(m) = IF m \in empty THEN {} ELSE ModuleNames
      [] verdict[m] = "error" -> Archived(m) # ModuleNames
      [] verdict[m] \in {"accept", "aborted"} -> Archived(m) = {}
      [] OTHER -> m = msg \/ Archived(m) = {}

(* A module that fails never makes a callback follow a pointer to memory   *)
(* that was freed or never allocated.                                      *)
NoDangling == condition # "undefined"
=============================================================================
