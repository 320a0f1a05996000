---------------------------- MODULE MaildirStore ----------------------------
(***************************************************************************)
(* How the maildrop, gzip and enczip modules keep a message: a temporary   *)
(* file in MailDir/tmp, the Maildir folders of the archived addresses, a   *)
(* hard link to the file in each of them.  Many connections do this at     *)
(* once in one directory tree.                                             *)
(*                                                                         *)
(* A store is one module keeping one message.  One step per system call    *)
(* that other stores can see; pc says which comes next:                    *)
(*                                                                         *)
(*   "idle" -> "openDirs" -> "header" -> "body" -> "close" -> ("fork" ->   *)
(*   "child" -> "output" ->) "list" -> "dirs" -> "kept", or from most of   *)
(*   these "abort" -> "error"; "gone" when the process exits.              *)
(*                                                                         *)
(* The three modules share this code, copied; gzip and enczip have the     *)
(* steps in parentheses besides.  The umask around mkstemp is left out:    *)
(* mkstemp asks for 0600 and mkdir for 0700, whatever the umask.           *)
(***************************************************************************)
EXTENDS Integers, Sequences, SequencesExt

CONSTANTS
  Stores,      (* the stores of one behaviour                              *)
  MayUse,      (* [Stores -> sets of modules]: which module it may be      *)
  Wanted,      (* [Stores -> sequences of folders]: MailFolder, filled in  *)
               (* for each address of md_saveaddr_h; a folder is the       *)
               (* sequence of its names between the dots                   *)
  Times,       (* values of recvtime, in seconds                           *)
  Inodes,      (* inode numbers the file system hands out                  *)
  HeaderLen,   (* length of the header lines one store writes              *)
  Faults       (* environment failures: a subset of FaultKinds             *)

FaultKinds == {"mkdir", "link", "write", "shortWrite", "child", "exit"}

ASSUME StoresAssumption ==
  /\ MayUse \in [Stores -> SUBSET {"maildrop", "gzip", "enczip"}]
  /\ Wanted \in [Stores -> Seq(Seq(STRING))]
  /\ \A s \in Stores : \A i \in DOMAIN Wanted[s] : Wanted[s][i] # <<>>
  /\ Inodes \subseteq Nat \ {0}
  /\ HeaderLen \in Nat \ {0}
  /\ Faults \subseteq FaultKinds

VARIABLES
  dirs,        (* the directories there are                                *)
  names,       (* the names in the folders' new/                           *)
  written,     (* per store: what its file at md_tempfilepath contains     *)
  pc,          (* per store: the next step                                 *)
  module,      (* per store: the module                                    *)
  time,        (* per store: md_recvtime                                   *)
  tmp,         (* per store: the inode at md_tempfilepath, 0 if none       *)
  out,         (* per store: the inode of the compressor's output, or 0    *)
  todo,        (* per store: directories md_makemaildir still has to see to*)
  absent,      (* per store: stat said ENOENT for the first of them        *)
  toLink,      (* per store: the rest of the list of md_makesavefile       *)
  linked,      (* history, per store: the folders in which it was linked   *)
  hurt,        (* history: the stores one of whose mkdir or link failed    *)
  littered     (* history: the stores whose compressor's output was lost   *)

fileVars == <<names, written, tmp, out>>
localVars == <<module, time, todo, absent, toLink>>
historyVars == <<linked, hurt, littered>>
vars == <<dirs, fileVars, pc, localVars, historyVars>>

NoInode == 0
Goto(s, label) == pc' = [pc EXCEPT ![s] = label]

-----------------------------------------------------------------------------
(* Directories *)

Base == <<>>
Folders == UNION {Range(Wanted[s]) : s \in Stores}

(* The first path of md_makemaildir is the Maildir itself.                 *)
(* (cur, made like the others and used by nobody here, is left out.)       *)
Maildir(d) == << <<d, "">>, <<d, "new">>, <<d, "tmp">> >>

(* md_makemaildir_tree: every prefix that ends before a dot, then all.     *)
(* .a.b is a directory of the base directory, next to .a.                  *)
Tree == [f \in Folders |->
           FlattenSeq([i \in 1 .. Len(f) + 1 |-> Maildir(SubSeq(f, 1, i - 1))])]

(* uniq_push_strlist: two addresses may name one folder.                   *)
Pushed(list, f) == IF Contains(list, f) THEN list ELSE Append(list, f)

(* md_makedirlist *)
DirList ==
  [s \in Stores |->
     LET listed[i \in 0 .. Len(Wanted[s])] ==
           IF i = 0 THEN <<>> ELSE Pushed(listed[i - 1], Wanted[s][i])
     IN  listed[Len(Wanted[s])]]

(* What md_makedirbylist sees to, in this order.                           *)
DirsOf ==
  [s \in Stores |->
     FlattenSeq([i \in DOMAIN DirList[s] |-> Tree[DirList[s][i]]])]

Parent(path) == IF path[2] # "" THEN <<path[1], "">> ELSE <<Base, "">>
MayCreate(path) ==
  path \notin dirs /\ (path = <<Base, "">> \/ Parent(path) \in dirs)

(* md_mkdir: a directory that exists is left alone.  Directories are never *)
(* removed, so looking at all that exist up to the first that does not is  *)
(* one step.                                                               *)
Stat(s) ==
  /\ pc[s] \in {"openDirs", "dirs"} /\ todo[s] # <<>> /\ ~absent[s]
  /\ LET first == SelectInSeq(todo[s], LAMBDA p : p \notin dirs) IN
       /\ todo' = [todo EXCEPT ![s] =
                     IF first = 0 THEN <<>> ELSE SubSeq(@, first, Len(@))]
       /\ absent' = [absent EXCEPT ![s] = first # 0]
  /\ UNCHANGED <<dirs, fileVars, pc, module, time, toLink, historyVars>>

(* Bound: the environment refuses one call of a store, not more.           *)
OnceHurt(s) == s \notin hurt

(* Mutant: looks again after a failed mkdir.                               *)
MkdirAgain(s) ==
  /\ pc[s] \in {"openDirs", "dirs"} /\ absent[s]
  /\ absent' = [absent EXCEPT ![s] = FALSE]
  /\ UNCHANGED <<dirs, fileVars, pc, module, time, todo, toLink, historyVars>>

(* mkdir fails when somebody else was faster (EEXIST), when its parent     *)
(* could not be made, or for a reason of its own.  md_makemaildir goes on  *)
(* with the next directory in every case.                                  *)
Mkdir(s) ==
  /\ pc[s] \in {"openDirs", "dirs"} /\ absent[s]
  /\ \/ /\ dirs' = dirs \cup {p \in {Head(todo[s])} : MayCreate(p)}
        /\ UNCHANGED hurt
     \/ /\ "mkdir" \in Faults /\ OnceHurt(s)
        /\ hurt' = hurt \cup {s}
        /\ UNCHANGED dirs
  /\ absent' = [absent EXCEPT ![s] = FALSE]
  /\ todo' = [todo EXCEPT ![s] = Tail(@)]
  /\ UNCHANGED <<fileVars, pc, module, time, toLink, linked, littered>>

DirsDone(s) == todo[s] = <<>>

-----------------------------------------------------------------------------
(* The temporary file *)

InUse(i) ==
  \/ \E n \in names : n.inode = i
  \/ \E s \in Stores : tmp[s] = i \/ out[s] = i

(* Free inodes are alike: the lowest stands for all of them.               *)
NewInode(i) == ~InUse(i) /\ \A j \in Inodes : InUse(j) \/ i <= j

(* The body is not there, there but for a CR that waits in md_cr, there,   *)
(* or there without that CR for good.                                      *)
BodyStates == {"none", "held", "whole", "cut"}
Nothing == [header |-> 0, body |-> "none", packed |-> FALSE]

(* maildrop_open *)
Open(s) ==
  /\ pc[s] = "idle"
  /\ time' \in {[time EXCEPT ![s] = t] : t \in Times}
  /\ todo' = [todo EXCEPT ![s] = Maildir(Base)]
  /\ Goto(s, "openDirs")
  /\ UNCHANGED <<dirs, fileVars, module, absent, toLink, historyVars>>

(* The path is unique, the inode may have had an earlier life.             *)
Mkstemp(s) ==
  /\ pc[s] = "openDirs" /\ DirsDone(s)
  /\ <<Base, "tmp">> \in dirs
  /\ \E i \in Inodes :
       NewInode(i) /\ tmp' = [tmp EXCEPT ![s] = i]
  /\ Goto(s, "header")
  /\ UNCHANGED <<dirs, names, written, out, localVars, historyVars>>

(* maildrop_open returns NULL; maildrop_abort is not called with it.       *)
MkstempFails(s) ==
  /\ pc[s] = "openDirs" /\ DirsDone(s)
  /\ <<Base, "tmp">> \notin dirs \/ "write" \in Faults
  /\ Goto(s, "error")
  /\ UNCHANGED <<dirs, fileVars, localVars, historyVars>>

(* What the loop of maildrop_write_header may have written of n characters *)
(* when it returns R_SUCCESS: it goes on while the last write is shorter   *)
(* than what is left.                                                      *)
WrittenOf[n \in 1 .. HeaderLen] ==
  {n} \cup
  IF "shortWrite" \notin Faults THEN {}
  ELSE UNION {IF w < n - w THEN {w + x : x \in WrittenOf[n - w]} ELSE {w} :
              w \in 1 .. n - 1}

WriteHeader(s) ==
  /\ pc[s] = "header"
  /\ \E n \in WrittenOf[HeaderLen] :
       written' = [written EXCEPT ![s].header = n]
  /\ Goto(s, "body")
  /\ UNCHANGED <<dirs, names, tmp, out, localVars, historyVars>>

(* The calls of maildrop_write_body for all of the body; of how they treat *)
(* line ends only the CR that comes last and is held back is seen here.    *)
WriteBody(s) ==
  /\ pc[s] = "body"
  /\ \E b \in {"whole", "held"} : written' = [written EXCEPT ![s].body = b]
  /\ Goto(s, "close")
  /\ UNCHANGED <<dirs, names, tmp, out, localVars, historyVars>>

(* Mutant: the failure is logged and the message taken as complete.        *)
WriteFailsUnnoticed(s) ==
  /\ "write" \in Faults
  /\ pc[s] \in {"header", "body"}
  /\ Goto(s, "close")
  /\ UNCHANGED <<dirs, fileVars, localVars, historyVars>>

WriteFails(s) ==
  /\ "write" \in Faults
  /\ pc[s] \in {"header", "body"}
  /\ Goto(s, "abort")
  /\ UNCHANGED <<dirs, fileVars, localVars, historyVars>>

(* Mutant: maildrop_abort closes the file and leaves it.                   *)
AbortLeavesFile(s) ==
  /\ pc[s] = "abort"
  /\ Goto(s, "error")
  /\ UNCHANGED <<dirs, fileVars, localVars, historyVars>>

(* maildrop_abort: close and unlink.                                       *)
Abort(s) ==
  /\ pc[s] = "abort"
  /\ tmp' = [tmp EXCEPT ![s] = NoInode]
  /\ Goto(s, "error")
  /\ UNCHANGED <<dirs, names, written, out, localVars, historyVars>>

(* The MTA aborts the message, or another module has failed.               *)
Aborted(s) ==
  /\ pc[s] \in {"header", "body", "close"}
  /\ Goto(s, "abort")
  /\ UNCHANGED <<dirs, fileVars, localVars, historyVars>>

-----------------------------------------------------------------------------
(* End of message: maildrop_close, gzip_close, enczip_close *)

(* The CR held back is written.  That this fails is not noticed, because   *)
(* the result is kept in a size_t.                                         *)
LastCR(b) ==
  IF b # "held" THEN {b}
  ELSE {"whole"} \cup IF "write" \in Faults THEN {"cut"} ELSE {}

(* The maildrop module keeps the file as it is, the others pack it.        *)
Close(s) ==
  /\ pc[s] = "close"
  /\ \E b \in LastCR(written[s].body) : written' = [written EXCEPT ![s].body = b]
  /\ Goto(s, IF module[s] = "maildrop" THEN "list" ELSE "fork")
  /\ UNCHANGED <<dirs, names, tmp, out, localVars, historyVars>>

Fork(s) ==
  /\ pc[s] = "fork"
  /\ Goto(s, "child")
  /\ UNCHANGED <<dirs, fileVars, localVars, historyVars>>

(* Or the settings or the file are not found before.                       *)
ForkFails(s) ==
  /\ "child" \in Faults
  /\ pc[s] = "fork"
  /\ Goto(s, "abort")
  /\ UNCHANGED <<dirs, fileVars, localVars, historyVars>>

(* The command replaces its input by its output (gzip; zip -m).            *)
Compressed(s) ==
  /\ pc[s] = "child"
  /\ \E i \in Inodes :
       NewInode(i) /\ out' = [out EXCEPT ![s] = i]
  /\ tmp' = [tmp EXCEPT ![s] = NoInode]
  /\ Goto(s, "output")
  /\ UNCHANGED <<dirs, names, written, localVars, historyVars>>

(* It fails, or succeeds without the output file; the input is unlinked.   *)
CompressFails(s) ==
  /\ "child" \in Faults
  /\ pc[s] = "child"
  /\ tmp' = [tmp EXCEPT ![s] = NoInode]
  /\ Goto(s, "abort")
  /\ UNCHANGED <<dirs, names, written, out, localVars, historyVars>>

(* It is killed or stopped in the middle: only the input is unlinked.      *)
CompressorKilled(s) ==
  /\ "child" \in Faults
  /\ pc[s] = "child"
  /\ \E i \in Inodes :
       NewInode(i) /\ out' = [out EXCEPT ![s] = i]
  /\ tmp' = [tmp EXCEPT ![s] = NoInode]
  /\ littered' = littered \cup {s}
  /\ Goto(s, "abort")
  /\ UNCHANGED <<dirs, names, written, localVars, linked, hurt>>

(* gzip_close has no memory for the path of the output, which stays.       *)
OutputLost(s) ==
  /\ "child" \in Faults
  /\ pc[s] = "output" /\ module[s] = "gzip"
  /\ littered' = littered \cup {s}
  /\ Goto(s, "abort")
  /\ UNCHANGED <<dirs, fileVars, localVars, linked, hurt>>

(* Mutant: md_tempfilepath stays the path of the input, which is gone.     *)
OutputNotTaken(s) ==
  /\ pc[s] = "output"
  /\ Goto(s, "list")
  /\ UNCHANGED <<dirs, fileVars, localVars, historyVars>>

(* md_tempfilepath becomes the path of the output.                         *)
TakeOutput(s) ==
  /\ pc[s] = "output"
  /\ tmp' = [tmp EXCEPT ![s] = out[s]]
  /\ out' = [out EXCEPT ![s] = NoInode]
  /\ written' = [written EXCEPT ![s].packed = TRUE]
  /\ Goto(s, "list")
  /\ UNCHANGED <<dirs, names, localVars, historyVars>>

(* md_makesavefilename and md_makedirlist *)
MakeDirList(s) ==
  /\ pc[s] = "list"
  /\ toLink' = [toLink EXCEPT ![s] = DirList[s]]
  /\ todo' = [todo EXCEPT ![s] = DirsOf[s]]
  /\ Goto(s, "dirs")
  /\ UNCHANGED <<dirs, fileVars, module, time, absent, historyVars>>

(* stat of the temporary file or localtime_r fails: R_ERROR.               *)
DirListFails(s) ==
  /\ pc[s] = "list"
  /\ Goto(s, "abort")
  /\ UNCHANGED <<dirs, fileVars, localVars, historyVars>>

(* Mutant: a name of time and host alone.                                  *)
NameWithoutInode(s, f) ==
  [folder |-> f, time |-> time[s], number |-> 0, suffix |-> module[s],
   inode |-> tmp[s], of |-> s]

(* A directory entry: its name is folder/new/time.number.host and a suffix *)
(* by module, its target is inode.                                         *)
SaveName(s, f) ==
  [folder |-> f, time |-> time[s], number |-> tmp[s], suffix |-> module[s],
   inode |-> tmp[s], of |-> s]

SamePath(n, m) ==
  /\ n.folder = m.folder /\ n.time = m.time
  /\ n.number = m.number /\ n.suffix = m.suffix

(* link fails on a folder that is not there and on a name that is.         *)
Linkable(n) ==
  /\ <<n.folder, "new">> \in dirs
  /\ \A m \in names : ~SamePath(n, m)

(* Mutant: link's failure is reported although earlier links stay.         *)
LinkStops(s) ==
  /\ pc[s] = "dirs" /\ DirsDone(s) /\ toLink[s] # <<>>
  /\ LET n == SaveName(s, Head(toLink[s])) IN
       \/ /\ Linkable(n)
          /\ names' = names \cup {n}
          /\ linked' = [linked EXCEPT ![s] = @ \cup {n.folder}]
          /\ toLink' = [toLink EXCEPT ![s] = Tail(@)]
          /\ UNCHANGED <<pc, hurt>>
       \/ /\ ~Linkable(n) \/ "link" \in Faults
          /\ hurt' = hurt \cup {s}
          /\ Goto(s, "abort")
          /\ UNCHANGED <<names, linked, toLink>>
  /\ UNCHANGED <<dirs, written, tmp, out, module, time, todo, absent, littered>>

(* md_makesavefile: a failing link is only logged.                         *)
Link(s) ==
  /\ pc[s] = "dirs" /\ DirsDone(s) /\ toLink[s] # <<>>
  /\ LET n == SaveName(s, Head(toLink[s])) IN
       \/ /\ Linkable(n)
          /\ names' = names \cup {n}
          /\ linked' = [linked EXCEPT ![s] = @ \cup {n.folder}]
          /\ UNCHANGED hurt
       \/ ~Linkable(n) /\ UNCHANGED <<names, linked, hurt>>
       \/ /\ "link" \in Faults /\ OnceHurt(s)
          /\ hurt' = hurt \cup {s}
          /\ UNCHANGED <<names, linked>>
  /\ toLink' = [toLink EXCEPT ![s] = Tail(@)]
  /\ UNCHANGED <<dirs, written, pc, tmp, out, module, time, todo, absent, littered>>

LinksDone(s) ==
  /\ pc[s] = "dirs" /\ DirsDone(s) /\ toLink[s] = <<>>
  /\ tmp' = [tmp EXCEPT ![s] = NoInode]
  /\ Goto(s, "kept")
  /\ UNCHANGED <<dirs, names, written, out, localVars, historyVars>>

-----------------------------------------------------------------------------
(* The environment *)

Ended == {"idle", "kept", "error", "gone"}

(* exit() in any thread; the program is started again.  Nobody looks after *)
(* the temporary files of the messages it was working on.                  *)
ProcessExits ==
  /\ "exit" \in Faults
  /\ \E s \in Stores : pc[s] \notin Ended
  /\ pc' = [s \in Stores |-> IF pc[s] \in Ended THEN pc[s] ELSE "gone"]
  /\ UNCHANGED <<dirs, fileVars, localVars, historyVars>>

(* Whoever reads the archive removes a message.                            *)
ReaderRemoves ==
  /\ names # {}
  /\ \E n \in names : names' = names \ {n}
  /\ UNCHANGED <<dirs, written, pc, tmp, out, localVars, historyVars>>

Init ==
  /\ dirs = {<<Base, "">>}
  /\ names = {}
  /\ written = [s \in Stores |-> Nothing]
  /\ pc = [s \in Stores |-> "idle"]
  /\ module \in {m \in [Stores -> UNION Range(MayUse)] :
                  \A s \in Stores : m[s] \in MayUse[s]}
  /\ time = [s \in Stores |-> 0]
  /\ tmp = [s \in Stores |-> NoInode]
  /\ out = [s \in Stores |-> NoInode]
  /\ todo = [s \in Stores |-> <<>>]
  /\ absent = [s \in Stores |-> FALSE]
  /\ toLink = [s \in Stores |-> <<>>]
  /\ linked = [s \in Stores |-> {}]
  /\ hurt = {}
  /\ littered = {}

(* What a store does once its message has begun.                           *)
Work(s) ==
  \/ Stat(s) \/ Mkdir(s) \/ Mkstemp(s) \/ MkstempFails(s)
  \/ WriteHeader(s) \/ WriteBody(s) \/ WriteFails(s) \/ Aborted(s) \/ Abort(s)
  \/ Close(s) \/ Fork(s) \/ ForkFails(s)
  \/ Compressed(s) \/ CompressFails(s) \/ CompressorKilled(s) \/ TakeOutput(s)
  \/ OutputLost(s)
  \/ MakeDirList(s) \/ DirListFails(s) \/ Link(s) \/ LinksDone(s)

AllEnded == (\A s \in Stores : pc[s] \in Ended \ {"idle"}) /\ UNCHANGED vars

Next ==
  \/ \E s \in Stores : Open(s) \/ Work(s)
  \/ ProcessExits \/ ReaderRemoves \/ AllEnded

Spec == Init /\ [][Next]_vars

(* Threads are scheduled, commands end, and an MTA that falls silent is    *)
(* given up by libmilter (smfi_settimeout).                                *)
FairSpec == Spec /\ \A s \in Stores : WF_vars(Work(s))

-----------------------------------------------------------------------------
(* Properties *)

Labels == Ended \cup {"openDirs", "header", "body", "close", "fork",
                       "child", "output", "list", "dirs", "abort"}

(* Type invariant; a store has a temporary file whenever a step uses it.   *)
TypeOK ==
  /\ \A n \in names : n.folder \in Folders /\ n.inode \in Inodes
  /\ pc \in [Stores -> Labels]
  /\ time \in [Stores -> Times \cup {0}]
  /\ tmp \in [Stores -> Inodes \cup {NoInode}]
  /\ out \in [Stores -> Inodes \cup {NoInode}]
  /\ absent \in [Stores -> BOOLEAN]
  /\ \A s \in Stores : absent[s] => todo[s] # <<>>
  /\ linked \in [Stores -> SUBSET Folders]
  /\ hurt \cup littered \subseteq Stores
  /\ \A s \in Stores :
       pc[s] \in {"header", "body", "close", "fork", "child", "list", "dirs"} =>
         tmp[s] # NoInode

(* A message reported as kept is in the folder of every archived address,  *)
(* unless one of its own mkdir or link calls was refused: another store    *)
(* that makes the same directories, keeps a message of the same second or  *)
(* fails half-way takes nothing away from it.                              *)
KeptEverywhere ==
  \A s \in Stores \ hurt : pc[s] = "kept" => linked[s] = Range(Wanted[s])

(* All of the body, or all but a last CR whose write failed.               *)
WholeBody(b) == b = "whole" \/ (b = "cut" /\ "write" \in Faults)

(* What a reader finds in a folder is a complete message, compressed if    *)
(* the module compresses: never a temporary file in the making, also after *)
(* the process has ended in the middle.  Only a CR that is the body's last *)
(* character may be missing: maildrop_close does not notice that its write *)
(* has failed.                                                             *)
FoldersHoldWhole ==
  \A n \in names :
    LET w == written[n.of] IN
      /\ w.header = HeaderLen /\ WholeBody(w.body)
      /\ w.packed <=> n.suffix # "maildrop"
      /\ n.folder \in Range(Wanted[n.of])

(* A message the module reports as failed is in no folder, so the MTA's    *)
(* next attempt does not make a second copy.                               *)
ErrorMeansAbsent ==
  \A s \in Stores : pc[s] \in {"abort", "error"} => linked[s] = {}

(* No temporary file outlives its message, unless the compressor was       *)
(* killed, its output lost or the process ended.                           *)
CleanEnd ==
  \A s \in Stores :
    pc[s] \in {"kept", "error"} =>
      tmp[s] = NoInode /\ (out[s] = NoInode \/ s \in littered)

(* Liveness: a message that has begun is kept or refused.                  *)
StoreEnds ==
  \A s \in Stores : pc[s] = "openDirs" ~> pc[s] \in Ended
=============================================================================
