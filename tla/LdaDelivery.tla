---------------------------- MODULE LdaDelivery ----------------------------
(***************************************************************************)
(* How the lda module delivers a message: a temporary file in /tmp, then,  *)
(* at the end of the message, one command for every archived address, fed  *)
(* with the file through a pipe.                                           *)
(*                                                                         *)
(* The thread of libmilter and the command run at the same time.  pc is    *)
(* the next step of the thread:                                            *)
(*                                                                         *)
(*   "idle" -> "open" -> "write" -> "close" -> "reopen" -> "next" ->       *)
(*   "fork" -> "feed" -> "wait" -> "next" ... -> "kept", or to "abort" ->  *)
(*   "error".                                                              *)
(*                                                                         *)
(* After an error the MTA may offer the message again.  The text of the    *)
(* body is followed until the file is closed; from then on the message is  *)
(* a number of buffers.                                                    *)
(***************************************************************************)
EXTENDS Integers, Sequences, SequencesExt

CONSTANTS
  Saveaddr,     (* md_saveaddr_h: the archived addresses; one address may  *)
                (* be listed twice, as sender and as recipient             *)
  Buffers,      (* how many buffers of 4096 bytes the message fills        *)
  PipeRoom,     (* how many of them the pipe holds                         *)
  MaxBody,      (* bound: the characters of the body                       *)
  Faults,       (* calls that may fail: a subset of FaultKinds             *)
  MaxAttempts   (* bound: how often the MTA offers the message             *)

RETRY_LIMIT == 3
FaultKinds == {"mkstemp", "write", "fopen", "pipe", "fork"}

ASSUME LdaAssumption ==
  /\ Saveaddr \in Seq(Range(Saveaddr))
  /\ MaxBody \in Nat
  /\ Buffers \in Nat \ {0} /\ PipeRoom \in Nat \ {0}
  /\ MaxAttempts \in Nat \ {0}
  /\ Faults \subseteq FaultKinds

VARIABLES
  pc,          (* the next step                                            *)
  retries,     (* retry_count of lda_open                                  *)
  file,        (* md_tempfilepath: "none", "part" or "whole"               *)
  sent,        (* history: the body as libmilter has passed it on          *)
  rest,        (* the characters lda_write_body still has to write         *)
  body,        (* the separator and the body, as they are in the file      *)
  cr,          (* md_cr: a CR has been read and not written                *)
  next,        (* the place of current_addr in Saveaddr                    *)
  position,    (* how many buffers of mail_file have been read             *)
  writeEnd,    (* pipefd[1] is open in the thread                          *)
  pipe,        (* the buffers in the pipe, by their number                 *)
  command,     (* "none", "running", "failed", or "done" if it exited with *)
               (* status 0 after the end of its input                      *)
  input,       (* the buffers the command has read                         *)
  attempt,     (* how often the message was offered                        *)
  served,      (* history: the addresses of the commands of this attempt   *)
  copies,      (* history: per place in Saveaddr, the commands done        *)
  undone       (* history: the places served in an attempt that failed     *)
               (* afterwards: in fork, or in another module                *)

textVars == <<sent, rest, body, cr>>
fileVars == <<retries, file, textVars>>
commandVars == <<writeEnd, pipe, command, input>>
historyVars == <<attempt, served, copies, undone>>
vars == <<pc, fileVars, next, position, commandVars, historyVars>>

(* What the code tells apart; "x" is any other character.                  *)
Chars == {"CR", "LF", "x"}
Message == [i \in 1 .. Buffers |-> i]

-----------------------------------------------------------------------------
(* The temporary file *)

(* The first callback of the message that reaches lda_open.                *)
Begin ==
  /\ pc = "idle"
  /\ pc' = "open"
  /\ retries' = 0
  /\ UNCHANGED <<file, textVars, next, position, commandVars, historyVars>>

Mkstemp ==
  /\ pc = "open" /\ retries < RETRY_LIMIT
  /\ file' = "part"
  /\ pc' = "write"
  /\ UNCHANGED <<retries, textVars, next, position, commandVars, historyVars>>

MkstempFails ==
  /\ "mkstemp" \in Faults
  /\ pc = "open" /\ retries < RETRY_LIMIT
  /\ retries' = retries + 1
  /\ UNCHANGED <<pc, file, textVars, next, position, commandVars, historyVars>>

(* lda_open returns NULL; lda_abort is not called with it.                 *)
OpenFails ==
  /\ pc = "open" /\ retries = RETRY_LIMIT
  /\ pc' = "error"
  /\ UNCHANGED <<fileVars, next, position, commandVars, historyVars>>

(* Mutant: md_cr is cleared at the beginning of every call.                *)
WriteBodyForgetsCR ==
  /\ pc = "write" /\ rest = <<>>
  /\ \E n \in 1 .. MaxBody - Len(sent) : \E chunk \in [1 .. n -> Chars] :
       /\ sent' = sent \o chunk
       /\ rest' = IF sent = <<>> THEN <<"LF">> \o chunk ELSE chunk
  /\ cr' = FALSE
  /\ UNCHANGED <<pc, retries, file, body, next, position, commandVars, historyVars>>

(* A call of lda_write_body; the first one writes the separator as well.   *)
WriteBody ==
  /\ pc = "write" /\ rest = <<>>
  /\ \E n \in 1 .. MaxBody - Len(sent) : \E chunk \in [1 .. n -> Chars] :
       /\ sent' = sent \o chunk
       /\ rest' = IF sent = <<>> THEN <<"LF">> \o chunk ELSE chunk
  /\ UNCHANGED <<pc, retries, file, body, cr, next, position, commandVars, historyVars>>

(* Its loop: a CR is written when the next character is not LF.            *)
Flushed == IF cr THEN Append(body, "CR") ELSE body

WriteChar ==
  /\ pc = "write" /\ rest # <<>>
  /\ LET before == IF Head(rest) = "LF" THEN body ELSE Flushed
     IN  body' = IF Head(rest) = "CR" THEN before ELSE Append(before, Head(rest))
  /\ cr' = (Head(rest) = "CR")
  /\ rest' = Tail(rest)
  /\ UNCHANGED <<pc, retries, file, sent, next, position, commandVars, historyVars>>

(* The end of the message comes.                                           *)
MessageEnds ==
  /\ pc = "write" /\ rest = <<>>
  /\ pc' = "close"
  /\ UNCHANGED <<fileVars, next, position, commandVars, historyVars>>

(* In any of the calls of lda_write_header and lda_write_body.             *)
WriteFails ==
  /\ "write" \in Faults
  /\ pc = "write"
  /\ pc' = "abort"
  /\ UNCHANGED <<fileVars, next, position, commandVars, historyVars>>

(* The MTA gives up the message, or another module fails.                  *)
Aborted ==
  /\ pc \in {"write", "close"} /\ rest = <<>>
  /\ pc' = "abort"
  /\ UNCHANGED <<fileVars, next, position, commandVars, historyVars>>

(* Mutant: closes the file and leaves it.                                  *)
AbortLeavesFile ==
  /\ pc = "abort"
  /\ pc' = "error"
  /\ UNCHANGED <<fileVars, next, position, commandVars, historyVars>>

(* lda_exec_abort: close, unlink, free.                                    *)
Abort ==
  /\ pc = "abort"
  /\ file' = "none"
  /\ sent' = <<>> /\ rest' = <<>> /\ body' = <<>> /\ cr' = FALSE
  /\ pc' = "error"
  /\ UNCHANGED <<retries, next, position, commandVars, historyVars>>

-----------------------------------------------------------------------------
(* lda_close *)

(* A CR that is left over is written; that this fails is not noticed,      *)
(* because the result is kept in a size_t.                                 *)
CloseFile ==
  /\ pc = "close"
  /\ body' \in {Flushed} \cup IF "write" \in Faults THEN {body} ELSE {}
  /\ cr' = FALSE
  /\ file' = "whole"
  /\ pc' = "reopen"
  /\ UNCHANGED <<retries, sent, rest, next, position, commandVars, historyVars>>

(* The file is opened for reading; its text is not followed any further.   *)
OpenReader ==
  /\ pc = "reopen"
  /\ sent' = <<>> /\ body' = <<>>
  /\ next' = 1
  /\ position' = 0
  /\ pc' = "next"
  /\ UNCHANGED <<retries, file, rest, cr, commandVars, historyVars>>

OpenReaderFails ==
  /\ "fopen" \in Faults
  /\ pc = "reopen"
  /\ pc' = "abort"
  /\ UNCHANGED <<fileVars, next, position, commandVars, historyVars>>

MakePipe ==
  /\ pc = "next" /\ next <= Len(Saveaddr)
  /\ writeEnd' = TRUE
  /\ pipe' = <<>>
  /\ pc' = "fork"
  /\ UNCHANGED <<fileVars, next, position, command, input, historyVars>>

(* Continues with the same address: the list is not advanced.              *)
PipeFails ==
  /\ "pipe" \in Faults
  /\ pc = "next" /\ next <= Len(Saveaddr)
  /\ UNCHANGED vars

Fork ==
  /\ pc = "fork"
  /\ command' = "running"
  /\ input' = <<>>
  /\ served' = Append(served, Saveaddr[next])
  /\ pc' = "feed"
  /\ UNCHANGED <<fileVars, next, position, writeEnd, pipe, attempt, copies, undone>>

(* R_ERROR, whoever has been served already.                               *)
ForkFails ==
  /\ "fork" \in Faults
  /\ pc = "fork"
  /\ writeEnd' = FALSE
  /\ undone' = undone \cup DOMAIN served
  /\ pc' = "abort"
  /\ UNCHANGED <<fileVars, next, position, pipe, command, input, attempt, served, copies>>

Running == command = "running"

(* fread, then write: it waits for room, and fails when nobody can read    *)
(* any more (libmilter has SIGPIPE ignored).                               *)
Feed ==
  /\ pc = "feed" /\ position < Buffers
  /\ position' = position + 1
  /\ \/ /\ Running /\ Len(pipe) < PipeRoom
        /\ pipe' = Append(pipe, position + 1)
        /\ UNCHANGED <<pc, writeEnd>>
     \/ /\ ~Running
        /\ writeEnd' = FALSE
        /\ pc' = "wait"
        /\ UNCHANGED pipe
  /\ UNCHANGED <<fileVars, next, command, input, historyVars>>

FeedEnd ==
  /\ pc = "feed" /\ position = Buffers
  /\ writeEnd' = FALSE
  /\ pc' = "wait"
  /\ UNCHANGED <<fileVars, next, position, pipe, command, input, historyVars>>

(* Mutant: goes on without waiting for the command.                        *)
WaitSkipped ==
  /\ pc = "wait"
  /\ position' = 0
  /\ next' = next + 1
  /\ pc' = "next"
  /\ UNCHANGED <<fileVars, commandVars, historyVars>>

(* Mutant: the next command is given what is left of the file.             *)
WaitWithoutRewind ==
  /\ pc = "wait" /\ ~Running
  /\ next' = next + 1
  /\ command' = "none"
  /\ pc' = "next"
  /\ UNCHANGED <<fileVars, position, writeEnd, pipe, input, historyVars>>

(* Mutant: a command that failed makes the delivery fail.                  *)
WaitReportsFailure ==
  /\ pc = "wait" /\ ~Running
  /\ position' = 0
  /\ next' = next + 1
  /\ command' = "none"
  /\ pc' = IF command = "failed" THEN "abort" ELSE "next"
  /\ UNCHANGED <<fileVars, writeEnd, pipe, input, historyVars>>

(* Mutant: a command that failed ends the loop.                            *)
WaitEndsLoop ==
  /\ pc = "wait" /\ ~Running
  /\ position' = 0
  /\ next' = IF command = "failed" THEN Len(Saveaddr) + 1 ELSE next + 1
  /\ command' = "none"
  /\ pc' = "next"
  /\ UNCHANGED <<fileVars, writeEnd, pipe, input, historyVars>>

(* waitpid, rewind, next address.  How the command ended is only logged.   *)
Wait ==
  /\ pc = "wait" /\ ~Running
  /\ position' = 0
  /\ next' = next + 1
  /\ command' = "none"
  /\ pc' = "next"
  /\ UNCHANGED <<fileVars, writeEnd, pipe, input, historyVars>>

(* fclose, unlink, R_SUCCESS                                               *)
Finish ==
  /\ pc = "next" /\ next > Len(Saveaddr)
  /\ file' = "none"
  /\ pc' = "kept"
  /\ UNCHANGED <<retries, textVars, next, position, commandVars, historyVars>>

-----------------------------------------------------------------------------
(* The command, and the MTA *)

CommandReads ==
  /\ Running /\ pipe # <<>>
  /\ input' = Append(input, Head(pipe))
  /\ pipe' = Tail(pipe)
  /\ UNCHANGED <<pc, fileVars, next, position, writeEnd, command, historyVars>>

(* Its input has ended and it is content.                                  *)
CommandDone ==
  /\ Running /\ pipe = <<>> /\ ~writeEnd
  /\ command' = "done"
  /\ copies' = [copies EXCEPT ![next] = @ + 1]
  /\ UNCHANGED <<pc, fileVars, next, position, writeEnd, pipe, input, attempt, served, undone>>

(* Mutant: no alarm; a command may still fail when its input has ended.    *)
NoAlarm ==
  /\ Running /\ pipe = <<>> /\ ~writeEnd
  /\ command' = "failed"
  /\ UNCHANGED <<pc, fileVars, next, position, writeEnd, pipe, input, historyVars>>

(* It exits whenever it likes; after 60 seconds it is killed.              *)
CommandFails ==
  /\ Running
  /\ command' = "failed"
  /\ pipe' = <<>>
  /\ UNCHANGED <<pc, fileVars, next, position, writeEnd, input, historyVars>>

(* mlfi_eom has another module to run after this one, which fails.         *)
OtherModuleFails ==
  /\ pc = "kept"
  /\ undone' = undone \cup DOMAIN served
  /\ pc' = "error"
  /\ UNCHANGED <<fileVars, next, position, commandVars, attempt, served, copies>>

(* The error was temporary (ErrorAction) and the MTA tries again.          *)
OfferAgain ==
  /\ pc = "error" /\ attempt < MaxAttempts
  /\ attempt' = attempt + 1
  /\ served' = <<>>
  /\ pc' = "idle"
  /\ UNCHANGED <<fileVars, next, position, commandVars, copies, undone>>

Init ==
  /\ pc = "idle"
  /\ retries = 0
  /\ file = "none"
  /\ sent = <<>> /\ rest = <<>> /\ body = <<>> /\ cr = FALSE
  /\ next = 1 /\ position = 0
  /\ writeEnd = FALSE /\ pipe = <<>> /\ command = "none" /\ input = <<>>
  /\ attempt = 1 /\ served = <<>>
  /\ copies = [i \in DOMAIN Saveaddr |-> 0]
  /\ undone = {}

Thread ==
  \/ Mkstemp \/ MkstempFails \/ OpenFails \/ WriteBody \/ WriteChar
  \/ MessageEnds \/ WriteFails \/ Aborted \/ Abort \/ CloseFile \/ OpenReader \/ OpenReaderFails
  \/ MakePipe \/ PipeFails \/ Fork \/ ForkFails \/ Feed \/ FeedEnd \/ Wait \/ Finish

Ended == pc \in {"kept", "error"}
AllEnded == Ended /\ UNCHANGED vars

Next ==
  \/ Begin \/ Thread \/ CommandReads \/ CommandDone \/ CommandFails
  \/ OtherModuleFails \/ OfferAgain \/ AllEnded

Spec == Init /\ [][Next]_vars

(* The thread is scheduled, the alarm goes off, and pipe2 does not fail    *)
(* for ever.  Nothing makes a command read its input.                      *)
FairSpec == Spec /\ WF_vars(Thread) /\ WF_vars(CommandFails)

-----------------------------------------------------------------------------
(* Properties *)

(* Type invariant; a command runs only between fork and waitpid.           *)
TypeOK ==
  /\ pc \in {"idle", "open", "write", "close", "reopen", "next", "fork", "feed",
             "wait", "kept", "abort", "error"}
  /\ retries \in 0 .. RETRY_LIMIT
  /\ file \in {"none", "part", "whole"}
  /\ sent \in Seq(Chars) /\ rest \in Seq(Chars) /\ body \in Seq(Chars)
  /\ cr \in BOOLEAN /\ Len(sent) <= MaxBody
  /\ next \in 1 .. Len(Saveaddr) + 1
  /\ position \in 0 .. Buffers
  /\ writeEnd \in BOOLEAN
  /\ Len(pipe) <= PipeRoom /\ Range(pipe) \cup Range(input) \subseteq 1 .. Buffers
  /\ command \in {"none", "running", "failed", "done"}
  /\ command # "none" => pc \in {"feed", "wait"}
  /\ attempt \in 1 .. MaxAttempts
  /\ copies \in [DOMAIN Saveaddr -> 0 .. MaxAttempts]
  /\ undone \subseteq DOMAIN Saveaddr

(* A text without the CR of every CR LF: every other CR is kept.           *)
Kept(text) ==
  LET kept[n \in 0 .. Len(text)] ==
        IF n = 0 THEN <<>>
        ELSE IF text[n] = "CR" /\ n < Len(text) /\ text[n + 1] = "LF" THEN kept[n - 1]
        ELSE Append(kept[n - 1], text[n])
  IN  kept
Converted(text) == Kept(text)[Len(text)]

(* The separator and the body.                                             *)
Passed == IF sent = <<>> THEN <<>> ELSE <<"LF">> \o sent
AsSent == Converted(Passed)

(* However libmilter cuts the body into chunks, the file gets the          *)
(* separator and the body with every CR LF turned into LF and every other  *)
(* CR kept (lda_write_body's md_cr, which outlives its calls); only a last *)
(* CR may be missing, if its write failed.                                 *)
BodyConverted ==
  pc = "reopen" =>
    \/ body = AsSent
    \/ "write" \in Faults /\ Append(body, "CR") = AsSent

(* A command that was content at the end of its input has read the whole   *)
(* message, from its first byte, whatever the commands before it did with  *)
(* theirs.                                                                 *)
WholeMessages == command = "done" => input = Message

(* A message reported as kept has had a command for every archived         *)
(* address, in order and once, also if some of them failed.                *)
EveryoneServed == pc = "kept" => served = Saveaddr

(* No entry of the list is delivered a second time when the MTA tries      *)
(* again, unless fork failed for a later entry or another module failed    *)
(* after this one: a failure of this module before its first command, or   *)
(* of a command, never repeats a delivery.                                 *)
SecondCopyExplained ==
  \A i \in DOMAIN Saveaddr : copies[i] > 1 => i \in undone

(* When the module has answered, the temporary file is gone, the command   *)
(* has been waited for and the pipe is closed.                             *)
NothingLeft ==
  Ended => file = "none" /\ command = "none" /\ ~writeEnd

(* Liveness: the module answers, even if commands neither read nor end.    *)
DeliveryEnds == pc = "open" ~> Ended
=============================================================================
