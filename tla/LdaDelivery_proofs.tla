------------------------- MODULE LdaDelivery_proofs -------------------------
(***************************************************************************)
(* Invariance proofs about LdaDelivery, for every list of addresses, every *)
(* size of message and pipe, every set of faults and number of attempts.   *)
(***************************************************************************)
EXTENDS LdaDelivery, SequenceLemmas, SequenceTheorems, TLAPS

Entries == 1 .. Len(Saveaddr)

Labels == {"idle", "open", "write", "close", "reopen", "next", "fork", "feed",
           "wait", "kept", "abort", "error"}

(* Types, as far as the other parts need them.                             *)
Types ==
  /\ pc \in Labels
  /\ next \in Nat \ {0} /\ position \in 0 .. Buffers
  /\ writeEnd \in BOOLEAN
  /\ pipe \in Seq(Nat) /\ input \in Seq(Nat)
  /\ command \in {"none", "running", "failed", "done"}
  /\ served \in Seq(Range(Saveaddr))
  /\ copies \in [Entries -> Nat]
  /\ undone \subseteq Entries

(* Which resources exist at which step.                                    *)
Resources ==
  /\ pc \in {"idle", "open", "kept", "error"} => file = "none"
  /\ command # "none" => pc \in {"feed", "wait"}
  /\ pc \in {"feed", "wait"} => command # "none"
  /\ writeEnd => pc \in {"fork", "feed"}
  /\ pc \in {"fork", "feed"} => writeEnd

(* served is the part of the list that has been worked off.                *)
Worked(n) == Len(served) = n /\ \A i \in 1 .. n : served[i] = Saveaddr[i]

Progress ==
  /\ pc \in {"idle", "open", "write", "close", "reopen"} => served = <<>>
  /\ pc = "next" => next <= Len(Saveaddr) + 1 /\ Worked(next - 1)
  /\ pc = "fork" => next <= Len(Saveaddr) /\ Worked(next - 1)
  /\ pc \in {"feed", "wait"} => next <= Len(Saveaddr) /\ Worked(next)
  /\ pc = "kept" => Worked(Len(Saveaddr))

(* What the command has read and what is in the pipe are together what has *)
(* been read of the file, from its beginning.                              *)
Stream ==
  /\ pc \in {"next", "fork"} => position = 0
  /\ pc = "fork" => pipe = <<>>
  /\ Running =>
       /\ Len(input) + Len(pipe) = position
       /\ \A i \in 1 .. Len(input) : input[i] = i
       /\ \A i \in 1 .. Len(pipe) : pipe[i] = Len(input) + i
  /\ Running /\ ~writeEnd => position = Buffers
  /\ command = "done" => input = Message

(* An entry has no complete copy yet, or one from this attempt, unless     *)
(* something failed after an earlier one.                                  *)
CopiedNow(i) ==
  \/ pc \in {"next", "fork", "feed", "wait"} /\ i < next
  \/ pc \in {"feed", "wait"} /\ i = next /\ command = "done"
  \/ pc = "kept"

Copies ==
  \A i \in Entries \ undone :
    copies[i] = 0 \/ (copies[i] = 1 /\ CopiedNow(i))

(* The text of the body, while it is followed.                             *)
Text ==
  /\ sent \in Seq(Chars) /\ rest \in Seq(Chars) /\ body \in Seq(Chars)
  /\ cr \in BOOLEAN /\ Len(sent) <= MaxBody

(* What TypeOK says beyond Types and Text.                                 *)
Bounds ==
  /\ retries \in 0 .. RETRY_LIMIT
  /\ file \in {"none", "part", "whole"}
  /\ next <= Len(Saveaddr) + 1
  /\ attempt \in 1 .. MaxAttempts
  /\ Len(pipe) <= PipeRoom
  /\ \A i \in 1 .. Len(pipe) : pipe[i] \in 1 .. Buffers
  /\ \A i \in 1 .. Len(input) : input[i] \in 1 .. Buffers

(* An attempt adds at most one copy of an entry.                           *)
Counted ==
  \A i \in Entries :
    copies[i] < attempt
      \/ (copies[i] = attempt /\ (CopiedNow(i) \/ pc \in {"abort", "error"}))

Inv == Types /\ Resources /\ Progress /\ Stream /\ Copies /\ Bounds /\ Counted /\ Text

-----------------------------------------------------------------------------

(* The list of addresses is a sequence.                                    *)
LEMMA SaveaddrIsSeq ==
  /\ Saveaddr \in Seq(Range(Saveaddr))
  /\ Len(Saveaddr) \in Nat /\ DOMAIN Saveaddr = Entries
  /\ \A i \in Entries : Saveaddr[i] \in Range(Saveaddr)
<1>1. Saveaddr \in Seq(Range(Saveaddr))
  BY LdaAssumption
<1> QED
  BY <1>1 DEF Entries, Range

(* Appending a number to numbers.                                          *)
LEMMA AppendType ==
  ASSUME NEW s \in Seq(Nat), NEW n \in Nat
  PROVE  Append(s, n) \in Seq(Nat)
OBVIOUS

(* A buffer goes from the pipe to the command.                             *)
LEMMA BufferMoves ==
  ASSUME NEW p \in Seq(Nat), NEW q \in Seq(Nat), q # <<>>,
         \A i \in 1 .. Len(p) : p[i] = i,
         \A i \in 1 .. Len(q) : q[i] = Len(p) + i
  PROVE  /\ Len(Append(p, Head(q))) + Len(Tail(q)) = Len(p) + Len(q)
         /\ \A i \in 1 .. Len(Append(p, Head(q))) : Append(p, Head(q))[i] = i
         /\ \A i \in 1 .. Len(Tail(q)) :
              Tail(q)[i] = Len(Append(p, Head(q))) + i
<1>1. /\ Len(q) \in Nat \ {0} /\ Head(q) = q[1] /\ Head(q) \in Nat
      /\ Len(Tail(q)) = Len(q) - 1 /\ Len(p) \in Nat
  OBVIOUS
<1>2. Head(q) = Len(p) + 1
  BY <1>1
<1>3. /\ Len(Append(p, Head(q))) = Len(p) + 1
      /\ Append(p, Head(q))[Len(p) + 1] = Head(q)
      /\ \A i \in 1 .. Len(p) : Append(p, Head(q))[i] = p[i]
  BY <1>1
<1>4. \A i \in 1 .. Len(Tail(q)) : Tail(q)[i] = q[i + 1]
  BY <1>1
<1>5. \A i \in 1 .. Len(Append(p, Head(q))) : Append(p, Head(q))[i] = i
  BY <1>1, <1>2, <1>3
<1>6. \A i \in 1 .. Len(Tail(q)) : Tail(q)[i] = Len(Append(p, Head(q))) + i
  BY <1>1, <1>3, <1>4
<1> QED
  BY <1>1, <1>3, <1>5, <1>6

(* Nothing has happened in the initial state.                              *)
LEMMA InitInv == Init => Inv
<1> SUFFICES ASSUME Init PROVE Inv
  OBVIOUS
<1> USE SaveaddrIsSeq, LdaAssumption DEF Init
<1>1. Types
  <2>1. pc \in Labels
    BY DEF Labels
  <2>2. copies \in [Entries -> Nat]
    BY DEF Entries
  <2>3. pipe \in Seq(Nat) /\ input \in Seq(Nat) /\ served \in Seq(Range(Saveaddr))
    OBVIOUS
  <2>4. position \in 0 .. Buffers
    OBVIOUS
  <2>5. next \in Nat \ {0} /\ command \in {"none", "running", "failed", "done"}
    OBVIOUS
  <2>6. writeEnd \in BOOLEAN
    BY Zenon
  <2>7. undone \subseteq Entries
    OBVIOUS
  <2> QED
    BY <2>1, <2>2, <2>3, <2>4, <2>5, <2>6, <2>7, Zenon DEF Types
<1>2. Resources
  BY DEF Resources
<1>3. Progress
  BY DEF Progress
<1>4. Stream
  BY DEF Stream, Running
<1>5. Copies
  BY DEF Copies
<1>6. Bounds
  BY DEF Bounds, RETRY_LIMIT
<1>7. Counted
  BY DEF Counted
<1>8. Text
  <2>1. cr \in BOOLEAN
    BY Zenon
  <2>2. sent = <<>> /\ rest = <<>> /\ body = <<>>
    OBVIOUS
  <2>3. sent \in Seq(Chars) /\ rest \in Seq(Chars) /\ body \in Seq(Chars) /\ Len(sent) <= MaxBody
    BY <2>2
  <2> QED
    BY <2>1, <2>3, Zenon DEF Text
<1> QED
  BY <1>1, <1>2, <1>3, <1>4, <1>5, <1>6, <1>7, <1>8 DEF Inv

-----------------------------------------------------------------------------
(* Every step preserves every part of Inv.                                 *)

(* The types.                                                              *)
LEMMA TypesStep ==
  ASSUME Inv, [Next]_vars PROVE Types'
<1> USE SaveaddrIsSeq, LdaAssumption
      DEF Inv, Types, Labels, Entries,
          Progress, Worked, Resources, Running,
          fileVars, textVars, commandVars, historyVars, vars
<1>1. CASE Begin
  BY <1>1 DEF Begin
<1>2. CASE Mkstemp
  BY <1>2 DEF Mkstemp
<1>3. CASE MkstempFails
  BY <1>3 DEF MkstempFails
<1>4. CASE OpenFails
  BY <1>4 DEF OpenFails
<1>5. CASE WriteBody
  BY <1>5 DEF WriteBody
<1>6. CASE WriteChar
  BY <1>6 DEF WriteChar
<1>7. CASE MessageEnds
  BY <1>7 DEF MessageEnds
<1>8. CASE WriteFails
  BY <1>8 DEF WriteFails
<1>9. CASE Aborted
  BY <1>9 DEF Aborted
<1>10. CASE Abort
  BY <1>10 DEF Abort
<1>11. CASE CloseFile
  BY <1>11 DEF CloseFile
<1>12. CASE OpenReader
  BY <1>12 DEF OpenReader
<1>13. CASE OpenReaderFails
  BY <1>13 DEF OpenReaderFails
<1>14. CASE MakePipe
  BY <1>14 DEF MakePipe
<1>15. CASE PipeFails
  BY <1>15 DEF PipeFails
<1>16. CASE Fork
  BY <1>16 DEF Fork
<1>17. CASE ForkFails
  <2>1. DOMAIN served = 1 .. next - 1 /\ next <= Len(Saveaddr)
    BY <1>17 DEF ForkFails
  <2>2. undone' \subseteq Entries
    BY <1>17, <2>1 DEF ForkFails
  <2>3. /\ pc' \in Labels /\ writeEnd' \in BOOLEAN
        /\ UNCHANGED <<next, position, pipe, input, command, served, copies>>
    BY <1>17 DEF ForkFails
  <2> QED
    BY <2>2, <2>3
<1>18. CASE Feed
  <2>1. position' \in 0 .. Buffers
    <3>1. position \in Int /\ position >= 0 /\ position < Buffers
      BY <1>18 DEF Feed
    <3> QED
      BY <1>18, <3>1 DEF Feed
  <2>2. pipe' \in Seq(Nat)
    <3>1. pipe' = pipe \/ pipe' = Append(pipe, position + 1)
      BY <1>18 DEF Feed
    <3>2. position + 1 \in Nat /\ pipe \in Seq(Nat)
      OBVIOUS
    <3> QED
      BY <3>1, <3>2, AppendType
  <2>3. /\ pc' \in Labels /\ writeEnd' \in BOOLEAN
        /\ UNCHANGED <<next, input, command, served, copies, undone>>
    BY <1>18 DEF Feed
  <2> QED
    BY <2>1, <2>2, <2>3
<1>19. CASE FeedEnd
  BY <1>19 DEF FeedEnd
<1>20. CASE Wait
  BY <1>20 DEF Wait
<1>21. CASE Finish
  BY <1>21 DEF Finish
<1>22. CASE CommandReads
  BY <1>22 DEF CommandReads
<1>23. CASE CommandDone
  BY <1>23, SMTT(30) DEF CommandDone
<1>24. CASE CommandFails
  BY <1>24 DEF CommandFails
<1>25. CASE OtherModuleFails
  <2>1. DOMAIN served = Entries
    BY <1>25 DEF OtherModuleFails
  <2> QED
    BY <1>25, <2>1 DEF OtherModuleFails
<1>26. CASE OfferAgain
  BY <1>26 DEF OfferAgain
<1>27. CASE AllEnded
  BY <1>27 DEF AllEnded
<1>28. CASE UNCHANGED vars
  BY <1>28
<1> QED
  BY <1>1, <1>2, <1>3, <1>4, <1>5, <1>6, <1>7, <1>8, <1>9, <1>10, <1>11, <1>12,
     <1>13, <1>14, <1>15, <1>16, <1>17, <1>18, <1>19, <1>20, <1>21, <1>22, <1>23, <1>24,
     <1>25, <1>26, <1>27, <1>28
     DEF Next, Thread

(* Who holds which resource.                                               *)
LEMMA ResourcesStep ==
  ASSUME Inv, [Next]_vars PROVE Resources'
<1> USE DEF Inv, Resources, Types, Running,
      fileVars, textVars, commandVars, historyVars, vars
<1>1. CASE Begin
  BY <1>1 DEF Begin
<1>2. CASE Mkstemp
  BY <1>2 DEF Mkstemp
<1>3. CASE MkstempFails
  BY <1>3 DEF MkstempFails
<1>4. CASE OpenFails
  BY <1>4 DEF OpenFails
<1>5. CASE WriteBody
  BY <1>5 DEF WriteBody
<1>6. CASE WriteChar
  BY <1>6 DEF WriteChar
<1>7. CASE MessageEnds
  BY <1>7 DEF MessageEnds
<1>8. CASE WriteFails
  BY <1>8 DEF WriteFails
<1>9. CASE Aborted
  BY <1>9 DEF Aborted
<1>10. CASE Abort
  BY <1>10 DEF Abort
<1>11. CASE CloseFile
  BY <1>11 DEF CloseFile
<1>12. CASE OpenReader
  BY <1>12 DEF OpenReader
<1>13. CASE OpenReaderFails
  BY <1>13 DEF OpenReaderFails
<1>14. CASE MakePipe
  BY <1>14 DEF MakePipe
<1>15. CASE PipeFails
  BY <1>15 DEF PipeFails
<1>16. CASE Fork
  BY <1>16 DEF Fork
<1>17. CASE ForkFails
  BY <1>17 DEF ForkFails
<1>18. CASE Feed
  <2>1. CASE Running
    BY <1>18, <2>1 DEF Feed
  <2>2. CASE ~Running
    BY <1>18, <2>2 DEF Feed
  <2> QED
    BY <2>1, <2>2
<1>19. CASE FeedEnd
  BY <1>19 DEF FeedEnd
<1>20. CASE Wait
  BY <1>20 DEF Wait
<1>21. CASE Finish
  BY <1>21 DEF Finish
<1>22. CASE CommandReads
  BY <1>22 DEF CommandReads
<1>23. CASE CommandDone
  BY <1>23 DEF CommandDone
<1>24. CASE CommandFails
  BY <1>24 DEF CommandFails
<1>25. CASE OtherModuleFails
  BY <1>25 DEF OtherModuleFails
<1>26. CASE OfferAgain
  BY <1>26 DEF OfferAgain
<1>27. CASE AllEnded
  BY <1>27 DEF AllEnded
<1>28. CASE UNCHANGED vars
  BY <1>28
<1> QED
  BY <1>1, <1>2, <1>3, <1>4, <1>5, <1>6, <1>7, <1>8, <1>9, <1>10, <1>11, <1>12,
     <1>13, <1>14, <1>15, <1>16, <1>17, <1>18, <1>19, <1>20, <1>21, <1>22, <1>23, <1>24,
     <1>25, <1>26, <1>27, <1>28
     DEF Next, Thread

(* How far the list has been worked off.                                   *)
LEMMA ProgressStep ==
  ASSUME Inv, [Next]_vars PROVE Progress'
<1> USE SaveaddrIsSeq
      DEF Inv, Progress, Types, Worked, Entries,
          Resources, Running,
          fileVars, textVars, commandVars, historyVars, vars
<1>1. CASE Begin
  BY <1>1 DEF Begin
<1>2. CASE Mkstemp
  BY <1>2 DEF Mkstemp
<1>3. CASE MkstempFails
  BY <1>3 DEF MkstempFails
<1>4. CASE OpenFails
  BY <1>4 DEF OpenFails
<1>5. CASE WriteBody
  BY <1>5 DEF WriteBody
<1>6. CASE WriteChar
  BY <1>6 DEF WriteChar
<1>7. CASE MessageEnds
  BY <1>7 DEF MessageEnds
<1>8. CASE WriteFails
  BY <1>8 DEF WriteFails
<1>9. CASE Aborted
  BY <1>9 DEF Aborted
<1>10. CASE Abort
  BY <1>10 DEF Abort
<1>11. CASE CloseFile
  BY <1>11 DEF CloseFile
<1>12. CASE OpenReader
  BY <1>12 DEF OpenReader
<1>13. CASE OpenReaderFails
  BY <1>13 DEF OpenReaderFails
<1>14. CASE MakePipe
  BY <1>14 DEF MakePipe
<1>15. CASE PipeFails
  BY <1>15 DEF PipeFails
<1>16. CASE Fork
  BY <1>16 DEF Fork
<1>17. CASE ForkFails
  BY <1>17 DEF ForkFails
<1>18. CASE Feed
  <2>1. CASE Running
    BY <1>18, <2>1, SMTT(30) DEF Feed
  <2>2. CASE ~Running
    BY <1>18, <2>2 DEF Feed
  <2> QED
    BY <2>1, <2>2
<1>19. CASE FeedEnd
  BY <1>19 DEF FeedEnd
<1>20. CASE Wait
  BY <1>20 DEF Wait
<1>21. CASE Finish
  BY <1>21 DEF Finish
<1>22. CASE CommandReads
  BY <1>22 DEF CommandReads
<1>23. CASE CommandDone
  BY <1>23 DEF CommandDone
<1>24. CASE CommandFails
  BY <1>24 DEF CommandFails
<1>25. CASE OtherModuleFails
  BY <1>25 DEF OtherModuleFails
<1>26. CASE OfferAgain
  BY <1>26 DEF OfferAgain
<1>27. CASE AllEnded
  BY <1>27 DEF AllEnded
<1>28. CASE UNCHANGED vars
  BY <1>28
<1> QED
  BY <1>1, <1>2, <1>3, <1>4, <1>5, <1>6, <1>7, <1>8, <1>9, <1>10, <1>11, <1>12,
     <1>13, <1>14, <1>15, <1>16, <1>17, <1>18, <1>19, <1>20, <1>21, <1>22, <1>23, <1>24,
     <1>25, <1>26, <1>27, <1>28
     DEF Next, Thread

(* Where the buffers that have been read are.                              *)
LEMMA StreamStep ==
  ASSUME Inv, [Next]_vars PROVE Stream'
<1> USE LdaAssumption
      DEF Inv, Stream, Types, Running, Resources, Message,
          fileVars, textVars, commandVars, historyVars, vars
<1>1. CASE Begin
  BY <1>1 DEF Begin
<1>2. CASE Mkstemp
  BY <1>2 DEF Mkstemp
<1>3. CASE MkstempFails
  BY <1>3 DEF MkstempFails
<1>4. CASE OpenFails
  BY <1>4 DEF OpenFails
<1>5. CASE WriteBody
  BY <1>5 DEF WriteBody
<1>6. CASE WriteChar
  BY <1>6 DEF WriteChar
<1>7. CASE MessageEnds
  BY <1>7 DEF MessageEnds
<1>8. CASE WriteFails
  BY <1>8 DEF WriteFails
<1>9. CASE Aborted
  BY <1>9 DEF Aborted
<1>10. CASE Abort
  BY <1>10 DEF Abort
<1>11. CASE CloseFile
  BY <1>11 DEF CloseFile
<1>12. CASE OpenReader
  BY <1>12 DEF OpenReader
<1>13. CASE OpenReaderFails
  BY <1>13 DEF OpenReaderFails
<1>14. CASE MakePipe
  BY <1>14 DEF MakePipe
<1>15. CASE PipeFails
  BY <1>15 DEF PipeFails
<1>16. CASE Fork
  BY <1>16 DEF Fork
<1>17. CASE ForkFails
  BY <1>17 DEF ForkFails
<1>18. CASE Feed
  <2>1. CASE command = "running"
    <3>1. /\ pipe' = Append(pipe, position + 1)
          /\ position' = position + 1 /\ position' \in 0 .. Buffers
          /\ UNCHANGED <<pc, writeEnd, command, input>>
      BY <1>18, <2>1 DEF Feed
    <3>2. Len(pipe') = Len(pipe) + 1
      BY <3>1
    <3>3. \A i \in 1 .. Len(pipe') : pipe'[i] = Len(input) + i
      <4>1. TAKE i \in 1 .. Len(pipe')
      <4>2. CASE i <= Len(pipe)
        BY <3>1, <4>2, <2>1
      <4>3. CASE i = Len(pipe) + 1
        BY <3>1, <4>3, <2>1
      <4> QED
        BY <3>2, <4>1, <4>2, <4>3
    <3> QED
      BY <3>1, <3>2, <3>3, <2>1, <1>18 DEF Feed
  <2>2. CASE command # "running"
    BY <1>18, <2>2 DEF Feed
  <2> QED
    BY <2>1, <2>2
<1>19. CASE FeedEnd
  BY <1>19 DEF FeedEnd
<1>20. CASE Wait
  BY <1>20 DEF Wait
<1>21. CASE Finish
  BY <1>21 DEF Finish
<1>22. CASE CommandReads
  <2>1. /\ command = "running" /\ pipe # <<>>
        /\ input' = Append(input, Head(pipe)) /\ pipe' = Tail(pipe)
        /\ UNCHANGED <<pc, position, writeEnd, command>>
    BY <1>22 DEF CommandReads
  <2>2. /\ Len(input') + Len(pipe') = Len(input) + Len(pipe)
        /\ \A i \in 1 .. Len(input') : input'[i] = i
        /\ \A i \in 1 .. Len(pipe') : pipe'[i] = Len(input') + i
    BY <2>1, BufferMoves
  <2> QED
    BY <2>1, <2>2
<1>23. CASE CommandDone
  BY <1>23 DEF CommandDone
<1>24. CASE CommandFails
  BY <1>24 DEF CommandFails
<1>25. CASE OtherModuleFails
  BY <1>25 DEF OtherModuleFails
<1>26. CASE OfferAgain
  BY <1>26 DEF OfferAgain
<1>27. CASE AllEnded
  BY <1>27 DEF AllEnded
<1>28. CASE UNCHANGED vars
  BY <1>28
<1> QED
  BY <1>1, <1>2, <1>3, <1>4, <1>5, <1>6, <1>7, <1>8, <1>9, <1>10, <1>11, <1>12,
     <1>13, <1>14, <1>15, <1>16, <1>17, <1>18, <1>19, <1>20, <1>21, <1>22, <1>23, <1>24,
     <1>25, <1>26, <1>27, <1>28
     DEF Next, Thread

(* Which entries have a copy.                                              *)
LEMMA CopiesStep ==
  ASSUME Inv, [Next]_vars PROVE Copies'
<1> USE SaveaddrIsSeq
      DEF Inv, Copies, CopiedNow, Types, Entries, Progress,
          Worked, Resources, Running,
          fileVars, textVars, commandVars, historyVars, vars
<1>1. CASE Begin
  BY <1>1 DEF Begin
<1>2. CASE Mkstemp
  BY <1>2 DEF Mkstemp
<1>3. CASE MkstempFails
  BY <1>3 DEF MkstempFails
<1>4. CASE OpenFails
  BY <1>4 DEF OpenFails
<1>5. CASE WriteBody
  BY <1>5 DEF WriteBody
<1>6. CASE WriteChar
  BY <1>6 DEF WriteChar
<1>7. CASE MessageEnds
  BY <1>7 DEF MessageEnds
<1>8. CASE WriteFails
  BY <1>8 DEF WriteFails
<1>9. CASE Aborted
  BY <1>9 DEF Aborted
<1>10. CASE Abort
  BY <1>10 DEF Abort
<1>11. CASE CloseFile
  BY <1>11 DEF CloseFile
<1>12. CASE OpenReader
  BY <1>12 DEF OpenReader
<1>13. CASE OpenReaderFails
  BY <1>13 DEF OpenReaderFails
<1>14. CASE MakePipe
  BY <1>14 DEF MakePipe
<1>15. CASE PipeFails
  BY <1>15 DEF PipeFails
<1>16. CASE Fork
  BY <1>16 DEF Fork
<1>17. CASE ForkFails
  <2>1. DOMAIN served = 1 .. next - 1
    BY <1>17 DEF ForkFails
  <2> QED
    BY <1>17, <2>1 DEF ForkFails
<1>18. CASE Feed
  <2>1. CASE Running
    BY <1>18, <2>1 DEF Feed
  <2>2. CASE ~Running
    BY <1>18, <2>2 DEF Feed
  <2> QED
    BY <2>1, <2>2
<1>19. CASE FeedEnd
  BY <1>19 DEF FeedEnd
<1>20. CASE Wait
  BY <1>20 DEF Wait
<1>21. CASE Finish
  BY <1>21 DEF Finish
<1>22. CASE CommandReads
  BY <1>22 DEF CommandReads
<1>23. CASE CommandDone
  BY <1>23 DEF CommandDone
<1>24. CASE CommandFails
  BY <1>24 DEF CommandFails
<1>25. CASE OtherModuleFails
  <2>1. DOMAIN served = Entries
    BY <1>25 DEF OtherModuleFails
  <2> QED
    BY <1>25, <2>1 DEF OtherModuleFails
<1>26. CASE OfferAgain
  BY <1>26 DEF OfferAgain
<1>27. CASE AllEnded
  BY <1>27 DEF AllEnded
<1>28. CASE UNCHANGED vars
  BY <1>28
<1> QED
  BY <1>1, <1>2, <1>3, <1>4, <1>5, <1>6, <1>7, <1>8, <1>9, <1>10, <1>11, <1>12,
     <1>13, <1>14, <1>15, <1>16, <1>17, <1>18, <1>19, <1>20, <1>21, <1>22, <1>23, <1>24,
     <1>25, <1>26, <1>27, <1>28
     DEF Next, Thread

(* The bounds.                                                             *)
LEMMA BoundsStep ==
  ASSUME Inv, [Next]_vars PROVE Bounds'
<1> USE SaveaddrIsSeq, LdaAssumption
      DEF Inv, Bounds, Types, RETRY_LIMIT,
          Progress, Worked, Resources, Running, Entries,
          fileVars, textVars, commandVars, historyVars, vars
<1>1. CASE Begin
  BY <1>1 DEF Begin
<1>2. CASE Mkstemp
  BY <1>2 DEF Mkstemp
<1>3. CASE MkstempFails
  BY <1>3 DEF MkstempFails
<1>4. CASE OpenFails
  BY <1>4 DEF OpenFails
<1>5. CASE WriteBody
  BY <1>5 DEF WriteBody
<1>6. CASE WriteChar
  BY <1>6 DEF WriteChar
<1>7. CASE MessageEnds
  BY <1>7 DEF MessageEnds
<1>8. CASE WriteFails
  BY <1>8 DEF WriteFails
<1>9. CASE Aborted
  BY <1>9 DEF Aborted
<1>10. CASE Abort
  BY <1>10 DEF Abort
<1>11. CASE CloseFile
  BY <1>11 DEF CloseFile
<1>12. CASE OpenReader
  BY <1>12 DEF OpenReader
<1>13. CASE OpenReaderFails
  BY <1>13 DEF OpenReaderFails
<1>14. CASE MakePipe
  BY <1>14 DEF MakePipe
<1>15. CASE PipeFails
  BY <1>15 DEF PipeFails
<1>16. CASE Fork
  BY <1>16 DEF Fork
<1>17. CASE ForkFails
  BY <1>17 DEF ForkFails
<1>18. CASE Feed
  <2>1. CASE command = "running" /\ Len(pipe) < PipeRoom
    <3>1. position + 1 \in 1 .. Buffers
      BY <1>18 DEF Feed
    <3>2. CASE pipe' = pipe
      BY <1>18, <3>1, <3>2 DEF Feed
    <3>3. CASE pipe' = Append(pipe, position + 1)
      <4>1. Len(pipe') = Len(pipe) + 1
        BY <3>3
      <4>2. \A i \in 1 .. Len(pipe') : pipe'[i] \in 1 .. Buffers
        BY <3>1, <3>3, <4>1
      <4> QED
        BY <1>18, <2>1, <4>1, <4>2 DEF Feed
    <3> QED
      BY <1>18, <3>2, <3>3 DEF Feed
  <2>2. CASE ~(command = "running" /\ Len(pipe) < PipeRoom)
    BY <1>18, <2>2 DEF Feed
  <2> QED
    BY <2>1, <2>2
<1>19. CASE FeedEnd
  BY <1>19 DEF FeedEnd
<1>20. CASE Wait
  BY <1>20 DEF Wait
<1>21. CASE Finish
  BY <1>21 DEF Finish
<1>22. CASE CommandReads
  BY <1>22 DEF CommandReads
<1>23. CASE CommandDone
  BY <1>23 DEF CommandDone
<1>24. CASE CommandFails
  BY <1>24 DEF CommandFails
<1>25. CASE OtherModuleFails
  BY <1>25 DEF OtherModuleFails
<1>26. CASE OfferAgain
  BY <1>26 DEF OfferAgain
<1>27. CASE AllEnded
  BY <1>27 DEF AllEnded
<1>28. CASE UNCHANGED vars
  BY <1>28
<1> QED
  BY <1>1, <1>2, <1>3, <1>4, <1>5, <1>6, <1>7, <1>8, <1>9, <1>10, <1>11, <1>12,
     <1>13, <1>14, <1>15, <1>16, <1>17, <1>18, <1>19, <1>20, <1>21, <1>22, <1>23, <1>24,
     <1>25, <1>26, <1>27, <1>28
     DEF Next, Thread

(* copies and attempt are numbers, and copies never exceeds attempt.        *)
LEMMA CopiesAreNumbers ==
  ASSUME Inv
  PROVE  /\ attempt \in Nat
         /\ \A i \in Entries : copies[i] \in Nat /\ copies[i] <= attempt
<1>1. attempt \in Nat
  BY LdaAssumption DEF Inv, Bounds
<1>2. \A i \in Entries : copies[i] \in Nat
  BY DEF Inv, Types
<1>3. \A i \in Entries : copies[i] < attempt \/ copies[i] = attempt
  BY DEF Inv, Counted
<1> QED
  BY <1>1, <1>2, <1>3

(* How many copies there are.                                              *)
LEMMA CountedStep ==
  ASSUME Inv, [Next]_vars PROVE Counted'
<1> USE SaveaddrIsSeq
      DEF Inv, Counted, CopiedNow, Types, Entries, Progress,
          Worked, Resources, Running, Bounds,
          fileVars, textVars, commandVars, historyVars, vars
<1>1. CASE Begin
  BY <1>1 DEF Begin
<1>2. CASE Mkstemp
  BY <1>2 DEF Mkstemp
<1>3. CASE MkstempFails
  BY <1>3 DEF MkstempFails
<1>4. CASE OpenFails
  BY <1>4 DEF OpenFails
<1>5. CASE WriteBody
  BY <1>5 DEF WriteBody
<1>6. CASE WriteChar
  BY <1>6 DEF WriteChar
<1>7. CASE MessageEnds
  BY <1>7 DEF MessageEnds
<1>8. CASE WriteFails
  BY <1>8 DEF WriteFails
<1>9. CASE Aborted
  BY <1>9 DEF Aborted
<1>10. CASE Abort
  BY <1>10 DEF Abort
<1>11. CASE CloseFile
  BY <1>11 DEF CloseFile
<1>12. CASE OpenReader
  BY <1>12 DEF OpenReader
<1>13. CASE OpenReaderFails
  BY <1>13 DEF OpenReaderFails
<1>14. CASE MakePipe
  BY <1>14 DEF MakePipe
<1>15. CASE PipeFails
  BY <1>15 DEF PipeFails
<1>16. CASE Fork
  BY <1>16 DEF Fork
<1>17. CASE ForkFails
  BY <1>17 DEF ForkFails
<1>18. CASE Feed
  <2>1. CASE Running
    BY <1>18, <2>1 DEF Feed
  <2>2. CASE ~Running
    BY <1>18, <2>2 DEF Feed
  <2> QED
    BY <2>1, <2>2
<1>19. CASE FeedEnd
  BY <1>19 DEF FeedEnd
<1>20. CASE Wait
  BY <1>20 DEF Wait
<1>21. CASE Finish
  BY <1>21 DEF Finish
<1>22. CASE CommandReads
  BY <1>22 DEF CommandReads
<1>23. CASE CommandDone
  <2> SUFFICES ASSUME NEW i \in Entries
               PROVE  copies'[i] < attempt' \/ (copies'[i] = attempt' /\ CopiedNow(i)')
    OBVIOUS
  <2>1. copies[i] \in Nat /\ attempt \in Nat /\ attempt' = attempt /\ next' = next
    BY <1>23, CopiesAreNumbers DEF CommandDone
  <2>2. CASE i = next
    <3>1. copies[i] < attempt /\ copies'[i] = copies[i] + 1
      BY <1>23, <2>2 DEF CommandDone
    <3>2. CopiedNow(i)'
      BY <1>23, <2>2 DEF CommandDone
    <3> QED
      BY <2>1, <3>1, <3>2
  <2>3. CASE i # next
    <3>1. copies'[i] = copies[i]
      BY <1>23, <2>3 DEF CommandDone
    <3>2. CopiedNow(i) /\ copies[i] = attempt => CopiedNow(i)'
      BY <1>23, <2>3 DEF CommandDone
    <3>3. pc \notin {"abort", "error"}
      BY <1>23 DEF CommandDone
    <3> QED
      BY <2>1, <3>1, <3>2, <3>3
  <2> QED
    BY <2>2, <2>3
<1>24. CASE CommandFails
  BY <1>24 DEF CommandFails
<1>25. CASE OtherModuleFails
  BY <1>25 DEF OtherModuleFails
<1>26. CASE OfferAgain
  <2>1. \A i \in Entries : copies[i] \in Nat /\ copies[i] <= attempt
    BY CopiesAreNumbers DEF Entries
  <2>2. attempt \in Int /\ attempt' = attempt + 1 /\ copies' = copies
    BY <1>26 DEF OfferAgain
  <2> QED
    BY <2>1, <2>2
<1>27. CASE AllEnded
  BY <1>27 DEF AllEnded
<1>28. CASE UNCHANGED vars
  BY <1>28
<1> QED
  BY <1>1, <1>2, <1>3, <1>4, <1>5, <1>6, <1>7, <1>8, <1>9, <1>10, <1>11, <1>12,
     <1>13, <1>14, <1>15, <1>16, <1>17, <1>18, <1>19, <1>20, <1>21, <1>22, <1>23, <1>24,
     <1>25, <1>26, <1>27, <1>28
     DEF Next, Thread

(* The text stays a sequence of characters: a call appends its chunk to    *)
(* sent, and each character goes to the file after a CR that waits for it. *)
LEMMA AppendChars ==
  ASSUME NEW s \in Seq(Chars), NEW c \in Chars
  PROVE  Append(s, c) \in Seq(Chars)
OBVIOUS

LEMMA NoChars == <<>> \in Seq(Chars) /\ Len(<<>>) = 0
OBVIOUS

LEMMA TextStep ==
  ASSUME Inv, [Next]_vars PROVE Text'
<1> USE DEF Inv, Text, fileVars, textVars, commandVars, historyVars, vars
<1>1. CASE WriteBody
  <2>1. PICK n \in 1 .. MaxBody - Len(sent) : \E chunk \in [1 .. n -> Chars] :
          /\ sent' = sent \o chunk
          /\ rest' = IF sent = <<>> THEN <<"LF">> \o chunk ELSE chunk
    BY <1>1 DEF WriteBody
  <2>2. PICK chunk \in [1 .. n -> Chars] :
          /\ sent' = sent \o chunk
          /\ rest' = IF sent = <<>> THEN <<"LF">> \o chunk ELSE chunk
    BY <2>1
  <2>3. n \in Nat /\ n <= MaxBody - Len(sent) /\ MaxBody \in Nat /\ Len(sent) \in Nat
    BY LdaAssumption
  <2>4. chunk \in Seq(Chars) /\ Len(chunk) = n
    BY <2>2, <2>3
  <2>5. sent' \in Seq(Chars) /\ Len(sent') <= MaxBody
    BY <2>2, <2>3, <2>4
  <2>6. <<"LF">> \in Seq(Chars)
    BY DEF Chars
  <2>7. rest' \in Seq(Chars)
    BY <2>2, <2>4, <2>6
  <2>8. body' = body /\ cr' = cr
    BY <1>1 DEF WriteBody
  <2> QED
    BY <2>5, <2>7, <2>8
<1>2. CASE WriteChar
  <2>1. Head(rest) \in Chars /\ Tail(rest) \in Seq(Chars)
    BY <1>2 DEF WriteChar
  <2>2. Flushed \in Seq(Chars)
    BY AppendChars DEF Flushed, Chars
  <2> DEFINE before == IF Head(rest) = "LF" THEN body ELSE Flushed
  <2>3. before \in Seq(Chars)
    BY <2>2
  <2>4. body' = IF Head(rest) = "CR" THEN before ELSE Append(before, Head(rest))
    BY <1>2 DEF WriteChar
  <2> HIDE DEF before
  <2>5. body' \in Seq(Chars)
    BY <2>1, <2>3, <2>4, AppendChars
  <2>6. cr' = (Head(rest) = "CR") /\ rest' = Tail(rest) /\ sent' = sent
    BY <1>2 DEF WriteChar
  <2>7. cr' \in BOOLEAN
    BY <2>6
  <2> QED
    BY <2>1, <2>5, <2>6, <2>7
<1>3. CASE CloseFile
  <2>1. Flushed \in Seq(Chars)
    BY AppendChars DEF Flushed, Chars
  <2>2. body' = Flushed \/ body' = body
    BY <1>3 DEF CloseFile
  <2>3. cr' \in BOOLEAN /\ sent' = sent /\ rest' = rest
    BY <1>3 DEF CloseFile
  <2> QED
    BY <2>1, <2>2, <2>3
<1>4. CASE Abort \/ OpenReader
  <2>1. sent' = <<>> /\ body' = <<>> /\ (rest' = <<>> \/ rest' = rest)
    BY <1>4 DEF Abort, OpenReader
  <2>2. sent' \in Seq(Chars) /\ body' \in Seq(Chars) /\ rest' \in Seq(Chars)
    BY <2>1, NoChars, Zenon
  <2>3. Len(sent') <= MaxBody
    BY <2>1, NoChars, LdaAssumption
  <2>4. cr' = FALSE \/ cr' = cr
    BY <1>4 DEF Abort, OpenReader
  <2>5. cr' \in BOOLEAN
    BY <2>4
  <2> QED
    BY <2>2, <2>3, <2>5
<1>5. ASSUME UNCHANGED textVars PROVE Text'
  BY <1>5
<1>6. CASE Begin \/ Mkstemp \/ MkstempFails \/ OpenFails \/ MessageEnds
             \/ WriteFails \/ Aborted \/ OpenReaderFails \/ MakePipe
  BY <1>5, <1>6 DEF Begin, Mkstemp, MkstempFails, OpenFails, MessageEnds,
       WriteFails, Aborted, OpenReaderFails, MakePipe
<1>7. CASE PipeFails \/ Fork \/ ForkFails \/ Feed \/ FeedEnd \/ Wait \/ Finish
  BY <1>5, <1>7 DEF PipeFails, Fork, ForkFails, Feed, FeedEnd, Wait, Finish
<1>8. CASE CommandReads \/ CommandDone \/ CommandFails \/ OtherModuleFails
             \/ OfferAgain \/ AllEnded \/ UNCHANGED vars
  BY <1>5, <1>8 DEF CommandReads, CommandDone, CommandFails, OtherModuleFails,
       OfferAgain, AllEnded
<1> QED
  BY <1>1, <1>2, <1>3, <1>4, <1>6, <1>7, <1>8 DEF Next, Thread

-----------------------------------------------------------------------------

(* Inv is inductive.                                                       *)
LEMMA InvInvariant == Spec => []Inv
<1>1. Inv /\ [Next]_vars => Inv'
  <2> SUFFICES ASSUME Inv, [Next]_vars PROVE Inv'
    OBVIOUS
  <2>1. Types' /\ Resources' /\ Progress'
    BY TypesStep, ResourcesStep, ProgressStep
  <2>2. Stream' /\ Copies'
    BY StreamStep, CopiesStep
  <2>3. Bounds' /\ Counted' /\ Text'
    BY BoundsStep, CountedStep, TextStep
  <2> QED
    BY <2>1, <2>2, <2>3 DEF Inv
<1> QED
  BY InitInv, <1>1, PTL DEF Spec

(* Every variable keeps its type; a command exists only between fork and   *)
(* waitpid, and an attempt adds at most one copy of an entry.              *)
THEOREM TypeCorrect == Spec => []TypeOK
<1>1. Inv => TypeOK
  <2> SUFFICES ASSUME Inv PROVE TypeOK
    OBVIOUS
  <2>1. Range(pipe) \cup Range(input) \subseteq 1 .. Buffers
    BY DEF Inv, Types, Bounds, Range
  <2>2. copies \in [DOMAIN Saveaddr -> 0 .. MaxAttempts]
    <3>1. \A i \in Entries : copies[i] \in 0 .. MaxAttempts
      BY CopiesAreNumbers, LdaAssumption DEF Inv, Bounds
    <3> QED
      BY <3>1, SaveaddrIsSeq DEF Inv, Types
  <2>3. next \in 1 .. Len(Saveaddr) + 1 /\ undone \subseteq DOMAIN Saveaddr
    BY SaveaddrIsSeq DEF Inv, Types, Bounds
  <2>4. command # "none" => pc \in {"feed", "wait"}
    BY DEF Inv, Resources
  <2> QED
    BY <2>1, <2>2, <2>3, <2>4 DEF TypeOK, Inv, Types, Bounds, Labels, Text
<1> QED
  BY InvInvariant, <1>1, PTL

(* A command that was content at the end of its input has read the whole   *)
(* message, whatever the commands before it did with theirs.               *)
THEOREM WholeMessagesAlways == Spec => []WholeMessages
<1>1. Inv => WholeMessages
  BY DEF Inv, Stream, WholeMessages
<1> QED
  BY InvInvariant, <1>1, PTL

(* A message reported as kept has had a command for every archived         *)
(* address, in order and once.                                             *)
THEOREM EveryoneServedAlways == Spec => []EveryoneServed
<1>1. Inv => EveryoneServed
  <2> SUFFICES ASSUME Inv, pc = "kept" PROVE served = Saveaddr
    BY DEF EveryoneServed
  <2>1. Len(served) = Len(Saveaddr)
        /\ \A i \in 1 .. Len(Saveaddr) : served[i] = Saveaddr[i]
    BY DEF Inv, Progress, Worked
  <2>2. served \in Seq(Range(Saveaddr))
    BY DEF Inv, Types
  <2> QED
    BY <2>1, <2>2, SaveaddrIsSeq
<1> QED
  BY InvInvariant, <1>1, PTL

(* Only a failure of fork, or of another module, after a delivery lets the *)
(* MTA's next attempt repeat it.                                           *)
THEOREM SecondCopyAlwaysExplained == Spec => []SecondCopyExplained
<1>1. Inv => SecondCopyExplained
  <2> SUFFICES ASSUME Inv, NEW i \in Entries, copies[i] > 1 PROVE i \in undone
    BY SaveaddrIsSeq DEF SecondCopyExplained
  <2> QED
    BY DEF Inv, Copies
<1> QED
  BY InvInvariant, <1>1, PTL

(* The module answers with the file removed, the command waited for and    *)
(* the pipe closed.                                                        *)
THEOREM NothingLeftBehind == Spec => []NothingLeft
<1>1. Inv => NothingLeft
  BY DEF Inv, Types, Resources, NothingLeft, Ended
<1> QED
  BY InvInvariant, <1>1, PTL

-----------------------------------------------------------------------------
(* The text in the file *)

(* The CR at i belongs to a CR LF.                                         *)
Dropped(t, i) == t[i] = "CR" /\ i < Len(t) /\ t[i + 1] = "LF"

(* Kept keeps the characters one by one, but not the CR of a CR LF.        *)
LEMMA KeptFacts ==
  ASSUME NEW t \in Seq(Chars)
  PROVE  /\ Kept(t)[0] = <<>>
         /\ \A i \in 0 .. Len(t) : Kept(t)[i] \in Seq(Chars)
         /\ \A i \in 1 .. Len(t) :
              Kept(t)[i] = IF Dropped(t, i) THEN Kept(t)[i - 1]
                           ELSE Append(Kept(t)[i - 1], t[i])
<1> DEFINE n == Len(t)
           L == Seq(Chars)
           Right(f) == f = [i \in 0 .. n |->
             IF i = 0 THEN <<>>
             ELSE IF t[i] = "CR" /\ i < n /\ t[i + 1] = "LF" THEN f[i - 1]
             ELSE Append(f[i - 1], t[i])]
           kept == CHOOSE f : Right(f)
           step == [i \in 1 .. n |-> [q \in L |->
                      IF Dropped(t, i) THEN q ELSE Append(q, t[i])]]
<1>1. n \in Nat /\ \A i \in 1 .. n : t[i] \in Chars
  OBVIOUS
<1>2. <<>> \in L
  BY NoChars
<1>3. step \in [1 .. n -> [L -> L]]
  BY <1>1, AppendChars
<1>4. PICK g \in [0 .. n -> L] :
        g[0] = <<>> /\ \A i \in 1 .. n : g[i] = step[i][g[i - 1]]
  <2> DEFINE e == <<>>
  <2>1. n \in Nat /\ e \in L /\ step \in Steps(L, n)
    BY <1>1, <1>2, <1>3 DEF Steps
  <2> HIDE DEF n, L, step, e
  <2>2. Iterable(L, e, step, n)
    BY <2>1, RecursionExists
  <2> QED
    BY <2>2 DEF Iterable, Iterates, e
<1>5. \A i \in 1 .. n : g[i - 1] \in L
  <2> HIDE DEF L
  <2> QED
    BY <1>1
<1>6. \A i \in 1 .. n :
        g[i] = IF Dropped(t, i) THEN g[i - 1] ELSE Append(g[i - 1], t[i])
  BY <1>4, <1>5
<1>7. Right(g)
  <2> DEFINE right == [i \in 0 .. n |->
               IF i = 0 THEN <<>>
               ELSE IF Dropped(t, i) THEN g[i - 1] ELSE Append(g[i - 1], t[i])]
  <2>1. ASSUME NEW i \in 0 .. n PROVE right[i] = g[i]
    <3>1. CASE i = 0
      BY <1>4, <3>1
    <3>2. CASE i # 0
      <4>1. i \in 1 .. n
        BY <1>1, <3>2
      <4>2. right[i] = IF Dropped(t, i) THEN g[i - 1] ELSE Append(g[i - 1], t[i])
        BY <3>2
      <4> QED
        BY <4>1, <4>2, <1>6
    <3> QED
      BY <3>1, <3>2
  <2>2. g = right
    <3> HIDE DEF n, L
    <3>1. g = [i \in 0 .. n |-> g[i]] /\ right = [i \in 0 .. n |-> right[i]]
      BY <1>4, Zenon
    <3> HIDE DEF right
    <3>2. [i \in 0 .. n |-> g[i]] = [i \in 0 .. n |-> right[i]]
      BY <2>1, Zenon
    <3> QED
      BY <3>1, <3>2, Zenon
  <2> QED
    BY <2>2, Zenon DEF Dropped
<1>8. Right(kept)
  <2> HIDE DEF Right
  <2> QED
    BY <1>7, Zenon
<1>9. Kept(t) = kept
  BY DEF Kept
<1> HIDE DEF kept
<1>10. /\ kept[0] = <<>>
       /\ \A i \in 1 .. n :
            kept[i] = IF Dropped(t, i) THEN kept[i - 1] ELSE Append(kept[i - 1], t[i])
  <2>1. kept = [i \in 0 .. n |->
                 IF i = 0 THEN <<>>
                 ELSE IF Dropped(t, i) THEN kept[i - 1] ELSE Append(kept[i - 1], t[i])]
    BY <1>8, Zenon DEF Dropped
  <2> HIDE DEF Right, step, n
  <2>2. \A i \in 0 .. n :
          kept[i] = IF i = 0 THEN <<>>
                    ELSE IF Dropped(t, i) THEN kept[i - 1]
                    ELSE Append(kept[i - 1], t[i])
    BY <2>1, Zenon
  <2>3. 0 \in 0 .. n /\ \A i \in 1 .. n : i \in 0 .. n /\ i # 0
    BY <1>1
  <2> QED
    BY <2>2, <2>3, Zenon
<1> DEFINE S == {i \in 0 .. n : kept[i] \in L}
<1>11. \A i \in 0 .. n : i \in S
  <2>1. 0 \in S
    <3>1. 0 \in 0 .. n
      OBVIOUS
    <3> HIDE DEF n, L
    <3> QED
      BY <1>2, <1>10, <3>1
  <2>2. ASSUME NEW i \in 0 .. n, i \in S, i < n PROVE i + 1 \in S
    <3>1. i + 1 \in 1 .. n /\ i + 1 \in 0 .. n /\ (i + 1) - 1 = i
      BY <1>1, <2>2
    <3>2. kept[i] \in L /\ t[i + 1] \in Chars
      BY <1>1, <2>2, <3>1
    <3>3. kept[i + 1] = kept[i] \/ kept[i + 1] = Append(kept[i], t[i + 1])
      BY <1>10, <3>1
    <3> QED
      BY <3>1, <3>2, <3>3, AppendChars
  <2> HIDE DEF S
  <2> QED
    BY <1>1, <2>1, <2>2, UpTo
<1> QED
  BY <1>9, <1>10, <1>11

(* What is kept of the first characters does not depend on what comes more *)
(* than one character later.                                               *)
LEMMA KeptAgrees ==
  ASSUME NEW t \in Seq(Chars), NEW u \in Seq(Chars), NEW m \in Nat,
         m <= Len(t), Len(t) <= Len(u),
         \A i \in 1 .. Len(t) : u[i] = t[i],
         m # 0 /\ m = Len(t) => t[m] # "CR"
  PROVE  Kept(u)[m] = Kept(t)[m]
<1> DEFINE S == {k \in 0 .. m : Kept(u)[k] = Kept(t)[k]}
<1>1. 0 \in S
  BY KeptFacts
<1>2. ASSUME NEW k \in 0 .. m, k \in S, k < m PROVE k + 1 \in S
  <2>1. /\ k + 1 \in 1 .. Len(t) /\ k + 1 \in 1 .. Len(u) /\ (k + 1) - 1 = k
        /\ k + 1 \in 0 .. m
    BY <1>2
  <2>2. Dropped(u, k + 1) <=> Dropped(t, k + 1)
    <3>1. u[k + 1] = t[k + 1]
      BY <2>1
    <3>2. CASE k + 1 < Len(t)
      <4>1. (k + 1) + 1 \in 1 .. Len(t) /\ k + 1 < Len(u)
        BY <2>1, <3>2
      <4>2. u[(k + 1) + 1] = t[(k + 1) + 1]
        BY <4>1
      <4> QED
        BY <3>1, <3>2, <4>1, <4>2 DEF Dropped
    <3>3. CASE k + 1 = Len(t)
      <4>1. k + 1 = m
        BY <2>1, <3>3
      <4>2. t[k + 1] # "CR"
        BY <4>1, <3>3
      <4> QED
        BY <3>1, <4>2 DEF Dropped
    <3> QED
      BY <2>1, <3>2, <3>3
  <2>3. /\ Kept(u)[k + 1] = IF Dropped(u, k + 1) THEN Kept(u)[k]
                            ELSE Append(Kept(u)[k], u[k + 1])
        /\ Kept(t)[k + 1] = IF Dropped(t, k + 1) THEN Kept(t)[k]
                            ELSE Append(Kept(t)[k], t[k + 1])
    BY <2>1, KeptFacts
  <2>4. Kept(u)[k] = Kept(t)[k] /\ u[k + 1] = t[k + 1]
    BY <1>2, <2>1
  <2>5. Kept(u)[k + 1] = Kept(t)[k + 1]
    BY <2>2, <2>3, <2>4
  <2> QED
    BY <2>1, <2>5
<1>3. \A k \in 0 .. m : k \in S
  <2> HIDE DEF S
  <2> QED
    BY <1>1, <1>2, UpTo
<1> QED
  BY <1>3

(* Where lda_write_body is: of the text p it has worked off d characters,  *)
(* r is left, and b is in the file; c says that the last one was a CR,     *)
(* which is not in the file yet.                                           *)
At(p, r, b, c, d) ==
  /\ Len(r) = Len(p) - d
  /\ \A i \in 1 .. Len(r) : r[i] = p[d + i]
  /\ c => d # 0 /\ p[d] = "CR" /\ b = Kept(p)[d - 1]
  /\ ~c => (d # 0 => p[d] # "CR") /\ b = Kept(p)[d]
Loop(p, r, b, c) == \E d \in 0 .. Len(p) : At(p, r, b, c, d)

LEMMA LoopBegins == Loop(<<>>, <<>>, <<>>, FALSE)
<1>1. Kept(<<>>)[0] = <<>>
  BY NoChars, KeptFacts
<1>2. At(<<>>, <<>>, <<>>, FALSE, 0)
  BY <1>1 DEF At
<1>3. 0 \in 0 .. Len(<<>>)
  OBVIOUS
<1> QED
  BY <1>2, <1>3 DEF Loop

(* The next call brings more of the text.                                  *)
LEMMA LoopGoesOn ==
  ASSUME NEW p \in Seq(Chars), NEW q \in Seq(Chars), NEW b \in Seq(Chars),
         NEW c \in BOOLEAN, Loop(p, <<>>, b, c)
  PROVE  Loop(p \o q, q, b, c)
<1> DEFINE u == p \o q
           d == Len(p)
<1>1. At(p, <<>>, b, c, d) /\ d \in Nat
  <2>1. PICK e \in 0 .. Len(p) : At(p, <<>>, b, c, e)
    BY DEF Loop
  <2>2. Len(<<>>) = 0 /\ Len(p) \in Nat /\ Len(<<>>) = Len(p) - e
    BY <2>1 DEF At
  <2>3. e = d
    BY <2>2
  <2> QED
    BY <2>1, <2>3
<1>2. /\ u \in Seq(Chars) /\ Len(u) = d + Len(q) /\ Len(q) \in Nat
      /\ \A i \in 1 .. d : u[i] = p[i]
      /\ \A i \in 1 .. Len(q) : u[d + i] = q[i]
  OBVIOUS
<1> HIDE DEF u
<1>3. c => d # 0 /\ u[d] = "CR" /\ b = Kept(u)[d - 1]
  <2> SUFFICES ASSUME c PROVE d # 0 /\ u[d] = "CR" /\ b = Kept(u)[d - 1]
    OBVIOUS
  <2>1. d # 0 /\ p[d] = "CR" /\ b = Kept(p)[d - 1]
    BY <1>1 DEF At
  <2>2. d - 1 \in Nat /\ d - 1 <= Len(p) /\ d - 1 # Len(p) /\ Len(p) <= Len(u)
    BY <1>1, <1>2, <2>1
  <2>3. Kept(u)[d - 1] = Kept(p)[d - 1]
    BY <1>2, <2>2, KeptAgrees
  <2>4. d \in 1 .. d
    BY <1>1, <2>1
  <2> QED
    BY <1>2, <2>1, <2>3, <2>4
<1>4. ~c => (d # 0 => u[d] # "CR") /\ b = Kept(u)[d]
  <2> SUFFICES ASSUME ~c PROVE (d # 0 => u[d] # "CR") /\ b = Kept(u)[d]
    OBVIOUS
  <2>1. (d # 0 => p[d] # "CR") /\ b = Kept(p)[d]
    BY <1>1 DEF At
  <2>2. d \in Nat /\ d <= Len(p) /\ Len(p) <= Len(u)
    BY <1>1, <1>2
  <2>3. Kept(u)[d] = Kept(p)[d]
    BY <1>2, <2>1, <2>2, KeptAgrees
  <2>4. d # 0 => d \in 1 .. d
    BY <1>1
  <2> QED
    BY <1>2, <2>1, <2>3, <2>4
<1>5. At(u, q, b, c, d)
  BY <1>1, <1>2, <1>3, <1>4 DEF At
<1>6. d \in 0 .. Len(u)
  BY <1>1, <1>2
<1> QED
  BY <1>5, <1>6 DEF Loop, u

(* One turn of the loop.                                                   *)
Turned(b, c, h) ==
  LET before == IF h = "LF" THEN b ELSE IF c THEN Append(b, "CR") ELSE b
  IN  IF h = "CR" THEN before ELSE Append(before, h)

LEMMA LoopTurns ==
  ASSUME NEW p \in Seq(Chars), NEW r \in Seq(Chars), NEW b \in Seq(Chars),
         NEW c \in BOOLEAN, Loop(p, r, b, c), r # <<>>
  PROVE  Loop(p, Tail(r), Turned(b, c, Head(r)), Head(r) = "CR")
<1>1. PICK d \in 0 .. Len(p) : At(p, r, b, c, d)
  BY DEF Loop
<1> DEFINE h == Head(r)
           e == d + 1
<1>2. /\ Len(p) \in Nat /\ Len(r) \in Nat \ {0} /\ Len(Tail(r)) = Len(r) - 1
      /\ h = r[1] /\ \A i \in 1 .. Len(r) - 1 : Tail(r)[i] = r[i + 1]
  BY TailFacts
<1>3. Len(r) = Len(p) - d /\ \A i \in 1 .. Len(r) : r[i] = p[d + i]
  BY <1>1 DEF At
<1>4. e \in 1 .. Len(p) /\ e - 1 = d /\ e # 0 /\ e \in 0 .. Len(p)
  BY <1>2, <1>3
<1>5. p[e] = h
  BY <1>2, <1>3
<1>6. Len(Tail(r)) = Len(p) - e /\ \A i \in 1 .. Len(Tail(r)) : Tail(r)[i] = p[e + i]
  <2>1. Len(Tail(r)) = Len(p) - e
    BY <1>2, <1>3
  <2>2. ASSUME NEW i \in 1 .. Len(Tail(r)) PROVE Tail(r)[i] = p[e + i]
    <3>1. i \in 1 .. Len(r) - 1 /\ i + 1 \in 1 .. Len(r) /\ d + (i + 1) = e + i
      BY <1>2
    <3> QED
      BY <1>2, <1>3, <3>1
  <2> QED
    BY <2>1, <2>2
<1>7. Kept(p)[e] = IF Dropped(p, e) THEN Kept(p)[d] ELSE Append(Kept(p)[d], h)
  BY <1>4, <1>5, KeptFacts
<1>8. h # "CR" => Kept(p)[e] = Append(Kept(p)[d], h)
  BY <1>5, <1>7 DEF Dropped
<1>9. ASSUME c
      PROVE  /\ h = "LF" => Kept(p)[d] = b
             /\ h # "LF" => Kept(p)[d] = Append(b, "CR")
  <2>1. d # 0 /\ p[d] = "CR" /\ b = Kept(p)[d - 1]
    BY <1>1, <1>9 DEF At
  <2>2. d \in 1 .. Len(p) /\ d < Len(p)
    BY <1>2, <1>4, <2>1
  <2>3. Dropped(p, d) <=> h = "LF"
    BY <1>5, <2>1, <2>2 DEF Dropped
  <2>4. Kept(p)[d] = IF Dropped(p, d) THEN Kept(p)[d - 1] ELSE Append(Kept(p)[d - 1], p[d])
    BY <2>2, KeptFacts
  <2> QED
    BY <2>1, <2>3, <2>4
<1>10. ~c => Kept(p)[d] = b
  BY <1>1 DEF At
<1>11. h = "CR" => Turned(b, c, h) = Kept(p)[d]
  BY <1>9, <1>10 DEF Turned
<1>12. h # "CR" => Turned(b, c, h) = Kept(p)[e]
  BY <1>8, <1>9, <1>10 DEF Turned
<1>13. At(p, Tail(r), Turned(b, c, h), h = "CR", e)
  BY <1>4, <1>5, <1>6, <1>11, <1>12 DEF At
<1> QED
  BY <1>4, <1>13 DEF Loop

(* At the end of the text only a CR may be missing.                        *)
LEMMA LoopEnds ==
  ASSUME NEW p \in Seq(Chars), NEW b \in Seq(Chars), NEW c \in BOOLEAN,
         Loop(p, <<>>, b, c)
  PROVE  /\ c => Append(b, "CR") = Converted(p)
         /\ ~c => b = Converted(p)
<1>1. PICK d \in 0 .. Len(p) : At(p, <<>>, b, c, d)
  BY DEF Loop
<1>2. Len(<<>>) = 0 /\ Len(p) \in Nat /\ Len(<<>>) = Len(p) - d
  BY <1>1 DEF At
<1>3. d = Len(p)
  BY <1>2
<1>4. ASSUME c PROVE Append(b, "CR") = Converted(p)
  <2>1. d # 0 /\ p[d] = "CR" /\ b = Kept(p)[d - 1]
    BY <1>1, <1>4 DEF At
  <2>2. d \in 1 .. Len(p) /\ ~(d < Len(p))
    BY <1>2, <1>3, <2>1
  <2>3. ~Dropped(p, d)
    BY <2>2 DEF Dropped
  <2>4. Kept(p)[d] = Append(Kept(p)[d - 1], p[d])
    BY <2>2, <2>3, KeptFacts
  <2> QED
    BY <1>3, <2>1, <2>4 DEF Converted
<1>5. ASSUME ~c PROVE b = Converted(p)
  BY <1>1, <1>3, <1>5 DEF At, Converted
<1> QED
  BY <1>4, <1>5

(* The text that was passed is in the file as far as it is worked off; it  *)
(* is forgotten outside the steps that are about it.                       *)
Forgotten == sent = <<>> /\ rest = <<>> /\ body = <<>> /\ ~cr

Stored ==
  /\ pc \notin {"write", "close", "reopen", "abort"} => Forgotten
  /\ pc \in {"write", "close"} => Loop(Passed, rest, body, cr)
  /\ pc \in {"close", "reopen"} => rest = <<>>
  /\ pc = "reopen" => ~cr
  /\ BodyConverted

LEMMA PassedIsText ==
  ASSUME Text
  PROVE  Passed \in Seq(Chars)
<1>1. <<"LF">> \in Seq(Chars) /\ sent \in Seq(Chars)
  BY DEF Text, Chars
<1> QED
  BY <1>1, NoChars DEF Passed

LEMMA StoredInit == Init => Stored
  BY DEF Init, Stored, Forgotten, BodyConverted

(* Each of the steps that handle the text.                                 *)
LEMMA WriteBodyStores ==
  ASSUME Inv, Stored, WriteBody PROVE Stored'
<1>1. Text /\ pc = "write" /\ rest = <<>> /\ Loop(Passed, <<>>, body, cr)
  BY DEF WriteBody, Inv, Stored
<1>2. PICK n \in 1 .. MaxBody - Len(sent) : \E chunk \in [1 .. n -> Chars] :
        /\ sent' = sent \o chunk
        /\ rest' = IF sent = <<>> THEN <<"LF">> \o chunk ELSE chunk
  BY DEF WriteBody
<1>3. PICK chunk \in [1 .. n -> Chars] :
        /\ sent' = sent \o chunk
        /\ rest' = IF sent = <<>> THEN <<"LF">> \o chunk ELSE chunk
  BY <1>2
<1>4. n \in Nat /\ n > 0
  BY <1>1, LdaAssumption DEF Text
<1>5. chunk \in Seq(Chars) /\ Len(chunk) = n
  BY <1>3, <1>4
<1>6. sent \in Seq(Chars) /\ body \in Seq(Chars) /\ cr \in BOOLEAN
  BY <1>1 DEF Text
<1>7. pc' = "write" /\ body' = body /\ cr' = cr
  BY <1>1 DEF WriteBody
<1>8. sent' \in Seq(Chars) /\ sent' # <<>>
  <2>1. sent \o chunk \in Seq(Chars) /\ Len(sent \o chunk) = Len(sent) + n
    BY <1>5, <1>6, BlockOfConcat
  <2>2. Len(sent \o chunk) # 0
    BY <1>4, <1>6, <2>1
  <2> QED
    BY <1>3, <2>1, <2>2, NoChars
<1>9. rest' \in Seq(Chars)
  <2>1. <<"LF">> \in Seq(Chars)
    BY DEF Chars
  <2> QED
    BY <1>3, <1>5, <2>1
<1>10. Passed' = Passed \o rest'
  <2>1. Passed' = <<"LF">> \o (sent \o chunk)
    BY <1>3, <1>8 DEF Passed
  <2>2. CASE sent = <<>>
    <3>1. sent \o chunk = chunk
      BY <1>5, <2>2
    <3>2. Passed = <<>> /\ rest' = <<"LF">> \o chunk
      BY <1>3, <2>2 DEF Passed
    <3>3. <<>> \o rest' = rest'
      BY <1>9
    <3> QED
      BY <2>1, <3>1, <3>2, <3>3
  <2>3. CASE sent # <<>>
    <3>1. Passed = <<"LF">> \o sent /\ rest' = chunk
      BY <1>3, <2>3 DEF Passed
    <3>2. <<"LF">> \in Seq(Chars)
      BY DEF Chars
    <3>3. <<"LF">> \o (sent \o chunk) = (<<"LF">> \o sent) \o chunk
      BY <1>5, <1>6, <3>2, ConcatAssociative
    <3> QED
      BY <2>1, <3>1, <3>3
  <2> QED
    BY <2>2, <2>3
<1>11. Loop(Passed \o rest', rest', body, cr)
  BY <1>1, <1>6, <1>9, PassedIsText, LoopGoesOn
<1> QED
  BY <1>7, <1>10, <1>11 DEF Stored, BodyConverted

LEMMA WriteCharStores ==
  ASSUME Inv, Stored, WriteChar PROVE Stored'
<1>1. Text /\ pc = "write" /\ rest # <<>> /\ Loop(Passed, rest, body, cr)
  BY DEF WriteChar, Inv, Stored
<1>2. rest \in Seq(Chars) /\ body \in Seq(Chars) /\ cr \in BOOLEAN
  BY <1>1 DEF Text
<1>3. pc' = "write" /\ sent' = sent /\ rest' = Tail(rest) /\ cr' = (Head(rest) = "CR")
  BY <1>1 DEF WriteChar
<1>4. body' = Turned(body, cr, Head(rest))
  BY DEF WriteChar, Turned, Flushed
<1>5. Loop(Passed, Tail(rest), Turned(body, cr, Head(rest)), Head(rest) = "CR")
  BY <1>1, <1>2, PassedIsText, LoopTurns
<1>6. Passed' = Passed
  BY <1>3 DEF Passed
<1>7. CASE cr'
  <2>1. cr' = TRUE /\ (Head(rest) = "CR") = TRUE
    BY <1>3, <1>7
  <2>2. Loop(Passed', rest', body', cr')
    BY <1>3, <1>4, <1>5, <1>6, <2>1
  <2> QED
    BY <1>3, <2>2 DEF Stored, BodyConverted
<1>8. CASE ~cr'
  <2>1. cr' = FALSE /\ (Head(rest) = "CR") = FALSE
    BY <1>3, <1>8
  <2>2. Loop(Passed', rest', body', cr')
    BY <1>3, <1>4, <1>5, <1>6, <2>1
  <2> QED
    BY <1>3, <2>2 DEF Stored, BodyConverted
<1> QED
  BY <1>7, <1>8

LEMMA CloseFileStores ==
  ASSUME Inv, Stored, CloseFile PROVE Stored'
<1>1. Text /\ pc = "close" /\ rest = <<>> /\ Loop(Passed, <<>>, body, cr)
  BY DEF CloseFile, Inv, Stored
<1>2. body \in Seq(Chars) /\ cr \in BOOLEAN
  BY <1>1 DEF Text
<1>3. pc' = "reopen" /\ sent' = sent /\ rest' = rest /\ ~cr'
  BY DEF CloseFile
<1>4. body' = Flushed \/ ("write" \in Faults /\ body' = body)
  BY DEF CloseFile
<1>5. /\ cr => Append(body, "CR") = Converted(Passed)
      /\ ~cr => body = Converted(Passed)
  BY <1>1, <1>2, PassedIsText, LoopEnds
<1>6. Passed' = Passed
  BY <1>3 DEF Passed
<1>7. Flushed = Converted(Passed)
  BY <1>5 DEF Flushed
<1>8. body' = Converted(Passed')
        \/ ("write" \in Faults /\ Append(body', "CR") = Converted(Passed'))
  BY <1>4, <1>5, <1>6, <1>7
<1> QED
  BY <1>1, <1>3, <1>8 DEF Stored, BodyConverted, AsSent

LEMMA StoredStep ==
  ASSUME Inv, Stored, [Next]_vars PROVE Stored'
<1>1. CASE WriteBody
  BY <1>1, WriteBodyStores
<1>2. CASE WriteChar
  BY <1>2, WriteCharStores
<1>3. CASE CloseFile
  BY <1>3, CloseFileStores
<1>4. CASE Mkstemp
  <2>1. Forgotten /\ pc' = "write" /\ UNCHANGED textVars
    BY <1>4 DEF Mkstemp, Stored
  <2>2. sent' = <<>> /\ rest' = <<>> /\ body' = <<>> /\ ~cr' /\ cr' = FALSE
    <3>1. sent' = <<>> /\ rest' = <<>> /\ body' = <<>> /\ ~cr'
      BY <2>1 DEF Forgotten, textVars
    <3>2. cr' = cr /\ cr \in BOOLEAN
      BY <2>1 DEF textVars, Inv, Text
    <3> QED
      BY <3>1, <3>2
  <2>3. Passed' = <<>>
    BY <2>2 DEF Passed
  <2>4. Loop(Passed', rest', body', cr')
    BY <2>2, <2>3, LoopBegins
  <2> QED
    BY <2>1, <2>4 DEF Stored, BodyConverted
<1>5. CASE MessageEnds
  <2>1. pc = "write" /\ pc' = "close" /\ rest = <<>> /\ UNCHANGED textVars
    BY <1>5 DEF MessageEnds, fileVars
  <2>2. Loop(Passed, rest, body, cr) /\ Passed' = Passed
    BY <2>1 DEF Stored, textVars, Passed
  <2> QED
    BY <2>1, <2>2 DEF Stored, BodyConverted, textVars
<1>6. CASE Abort
  BY <1>6 DEF Abort, Stored, Forgotten, BodyConverted
<1>7. CASE OpenReader
  <2>1. pc = "reopen" /\ pc' = "next" /\ rest' = rest /\ cr' = cr
        /\ sent' = <<>> /\ body' = <<>>
    BY <1>7 DEF OpenReader
  <2>2. rest = <<>> /\ ~cr
    BY <2>1 DEF Stored
  <2>3. ~cr'
    BY <2>1, <2>2
  <2> QED
    BY <2>1, <2>2, <2>3 DEF Stored, Forgotten, BodyConverted
<1>8. CASE WriteFails \/ Aborted \/ OpenReaderFails
  BY <1>8 DEF WriteFails, Aborted, OpenReaderFails, Stored, BodyConverted
<1>9. ASSUME UNCHANGED textVars,
             pc \in {"idle", "open", "next", "fork", "feed", "wait", "kept", "error"},
             pc' \notin {"write", "close", "reopen"}
      PROVE  Stored'
  <2>1. Forgotten
    BY <1>9 DEF Stored
  <2>2. Forgotten'
    BY <1>9, <2>1 DEF Forgotten, textVars
  <2> QED
    BY <1>9, <2>2 DEF Stored, BodyConverted
<1>10. CASE Begin \/ MkstempFails \/ OpenFails \/ MakePipe
  <2>1. UNCHANGED textVars
    BY <1>10 DEF Begin, MkstempFails, OpenFails, MakePipe, fileVars
  <2>2. pc \in {"idle", "open", "next"} /\ pc' \in {"idle", "open", "error", "fork", "next", "kept", "abort"}
    BY <1>10 DEF Begin, MkstempFails, OpenFails, MakePipe
  <2> QED
    BY <1>9, <2>1, <2>2
<1>11. CASE Fork \/ ForkFails \/ Feed \/ FeedEnd \/ Wait \/ Finish
  BY <1>9, <1>11 DEF Fork, ForkFails, Feed, FeedEnd, Wait, Finish, fileVars
<1>12. CASE CommandReads \/ CommandDone \/ CommandFails
  <2>1. pc \in {"feed", "wait"} /\ pc' = pc /\ UNCHANGED textVars
    BY <1>12 DEF CommandReads, CommandDone, CommandFails, Running, Inv, Resources,
         fileVars
  <2> QED
    BY <1>9, <2>1
<1>13. CASE OtherModuleFails \/ OfferAgain
  BY <1>9, <1>13 DEF OtherModuleFails, OfferAgain, fileVars
<1>14. CASE PipeFails \/ AllEnded \/ UNCHANGED vars
  <2>1. pc' = pc /\ sent' = sent /\ rest' = rest /\ body' = body /\ cr' = cr
    BY <1>14 DEF PipeFails, AllEnded, vars, fileVars, textVars
  <2>2. Passed' = Passed
    BY <2>1 DEF Passed
  <2> QED
    BY <2>1, <2>2 DEF Stored, Forgotten, BodyConverted, AsSent
<1> QED
  BY <1>1, <1>2, <1>3, <1>4, <1>5, <1>6, <1>7, <1>8, <1>10, <1>11, <1>12, <1>13,
     <1>14 DEF Next, Thread

(* However libmilter cuts the body, the file gets every character of it    *)
(* but the CR of a CR LF; only a last CR may be missing, if its write      *)
(* failed.                                                                 *)
THEOREM BodyAlwaysConverted == Spec => []BodyConverted
<1>1. Inv /\ Stored /\ [Next]_vars => Stored'
  BY StoredStep
<1>2. Stored => BodyConverted
  BY DEF Stored
<1> QED
  BY StoredInit, <1>1, <1>2, InvInvariant, PTL DEF Spec

=============================================================================
