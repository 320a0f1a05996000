------------------------- MODULE MaildirStore_proofs -------------------------
(***************************************************************************)
(* Proofs about MaildirStore, for every number of stores, every choice of  *)
(* folders, every folder depth and every set of faults.                    *)
(***************************************************************************)
EXTENDS MaildirStore, SequenceLemmas, SequenceTheorems

-----------------------------------------------------------------------------
(* The inductive invariant.                                                *)

Modules == {"maildrop", "gzip", "enczip"}
Paths == Seq(STRING) \X {"", "new", "tmp"}

(* What Stat, Mkdir and Link go through are lists; the Maildir's base      *)
(* directory is there.                                                     *)
Lists ==
  /\ todo \in [Stores -> Seq(Paths)]
  /\ toLink \in [Stores -> Seq(Folders)]
  /\ module \in [Stores -> Modules]
  /\ <<Base, "">> \in dirs
  /\ \A s \in Stores : pc[s] \notin {"openDirs", "dirs", "gone"} => todo[s] = <<>>

(* When a store has a temporary file and when its compressor has one.      *)
Temporaries ==
  \A s \in Stores :
    /\ pc[s] \in {"idle", "openDirs", "output", "kept", "error"} => tmp[s] = NoInode
    /\ pc[s] = "output" => out[s] # NoInode
    /\ pc[s] \notin {"output", "gone"} /\ s \notin littered => out[s] = NoInode

(* A file is one store's alone, and its links are too.                     *)
Own ==
  /\ \A s, t \in Stores :
       /\ tmp[s] # NoInode => tmp[s] # out[t] /\ (s # t => tmp[s] # tmp[t])
       /\ out[s] # NoInode /\ s # t => out[s] # out[t]
  /\ \A n \in names, s \in Stores :
       n.inode # out[s] /\ (n.inode = tmp[s] => n.of = s)

(* A link bears the number of its file; its store has made it, and will    *)
(* not make it again.                                                      *)
Names ==
  \A n \in names :
    /\ n.of \in Stores /\ n.number = n.inode /\ n.suffix = module[n.of]
    /\ n.folder \in Range(Wanted[n.of])
    /\ pc[n.of] \in {"dirs", "kept", "gone"}
    /\ pc[n.of] = "dirs" => n.folder \notin Range(toLink[n.of])

Links ==
  \A s \in Stores :
    /\ linked[s] \subseteq Range(Wanted[s])
    /\ pc[s] \notin {"dirs", "kept", "gone"} => linked[s] = {}
    /\ pc[s] = "dirs" =>
         /\ Range(toLink[s]) \subseteq Range(Wanted[s])
         /\ IsInjective(toLink[s])
         /\ s \notin hurt => Range(Wanted[s]) = linked[s] \cup Range(toLink[s])
    /\ pc[s] = "kept" /\ s \notin hurt => Range(Wanted[s]) = linked[s]

(* A directory still to be made has its parent, or will have it before;    *)
(* and the new/ of every folder is there or still to be made.              *)
Closed(q, D) ==
  \A i \in 1 .. Len(q) :
    Parent(q[i]) \in D \/ \E j \in 1 .. i - 1 : q[j] = Parent(q[i])
Covered(F, q, D) == \A f \in F : <<f, "new">> \in D \cup Range(q)
Prepared(s) ==
  Closed(todo[s], dirs) /\ Covered(Range(Wanted[s]), todo[s], dirs)

Preparing == \A s \in Stores \ hurt : pc[s] = "dirs" => Prepared(s)

Inv ==
  /\ TypeOK /\ Lists /\ Temporaries /\ Own /\ Names /\ Links /\ Preparing

(* How far the file of a store is written, and what the names lead to.     *)
WrittenOK ==
  written \in [Stores -> [header : {0, HeaderLen}, body : BodyStates, packed : BOOLEAN]]

Complete(w, m) ==
  /\ w.header = HeaderLen /\ WholeBody(w.body)
  /\ m = "maildrop" => w.packed = FALSE
  /\ m # "maildrop" => w.packed = TRUE

Progress ==
  \A s \in Stores :
    /\ pc[s] \in {"body", "close", "fork", "child", "output"} =>
         written[s].header = HeaderLen
    /\ pc[s] = "close" => written[s].body \in {"held", "whole"}
    /\ pc[s] \in {"fork", "child", "output"} => WholeBody(written[s].body)
    /\ pc[s] \in {"idle", "openDirs", "header", "body", "close", "fork", "child", "output"} =>
         written[s].packed = FALSE
    /\ pc[s] \in {"fork", "child", "output"} => module[s] # "maildrop"
    /\ pc[s] \in {"list", "dirs"} => Complete(written[s], module[s])

NamesComplete == \A n \in names : Complete(written[n.of], n.suffix)

-----------------------------------------------------------------------------
(* What the lists hold                                                     *)

LEMMA FolderFacts ==
  /\ Folders \subseteq Seq(STRING)
  /\ \A s \in Stores : Wanted[s] \in Seq(Folders)
  /\ \A s \in Stores : Range(Wanted[s]) \subseteq Folders
<1>1. ASSUME NEW s \in Stores
      PROVE  /\ Wanted[s] \in Seq(Seq(STRING)) /\ DOMAIN Wanted[s] = 1 .. Len(Wanted[s])
             /\ \A i \in 1 .. Len(Wanted[s]) :
                  Wanted[s][i] \in Seq(STRING) /\ Wanted[s][i] \in Range(Wanted[s])
  BY StoresAssumption DEF Range
<1>2. ASSUME NEW s \in Stores PROVE Range(Wanted[s]) \subseteq Seq(STRING)
  BY <1>1 DEF Range
<1>3. \A s \in Stores : Range(Wanted[s]) \subseteq Folders
  BY DEF Folders
<1>4. ASSUME NEW s \in Stores PROVE Wanted[s] \in Seq(Folders)
  <2>1. \A i \in 1 .. Len(Wanted[s]) : Wanted[s][i] \in Folders
    BY <1>1, <1>3
  <2> QED
    BY <1>1, <2>1, ElementsOf
<1>5. Folders \subseteq Seq(STRING)
  BY <1>2 DEF Folders
<1> QED
  BY <1>3, <1>4, <1>5

(* A name is put at the end of a list unless it is in it.                  *)
LEMMA PushedFacts ==
  ASSUME NEW list \in Seq(Folders), NEW f \in Folders, IsInjective(list)
  PROVE  /\ Pushed(list, f) \in Seq(Folders)
         /\ IsInjective(Pushed(list, f))
         /\ Range(Pushed(list, f)) = Range(list) \cup {f}
<1>1. /\ Len(list) \in Nat /\ DOMAIN list = 1 .. Len(list)
      /\ \A i, j \in 1 .. Len(list) : list[i] = list[j] => i = j
  BY DEF IsInjective
<1>2. Contains(list, f) <=> f \in Range(list)
  BY <1>1 DEF Contains, Range
<1>3. CASE Contains(list, f)
  BY <1>3, <1>2 DEF Pushed
<1>4. CASE ~Contains(list, f)
  <2> DEFINE a == Append(list, f)
  <2>1. Pushed(list, f) = a
    BY <1>4 DEF Pushed
  <2>2. /\ a \in Seq(Folders) /\ DOMAIN a = 1 .. Len(list) + 1
        /\ \A i \in 1 .. Len(list) : a[i] = list[i]
        /\ a[Len(list) + 1] = f
    OBVIOUS
  <2> HIDE DEF a
  <2>3. \A i \in 1 .. Len(list) : list[i] # f
    BY <1>4 DEF Contains
  <2>4. \A i \in 1 .. Len(list) + 1 : i \in 1 .. Len(list) \/ i = Len(list) + 1
    BY <1>1
  <2>5. IsInjective(a)
    BY <1>1, <2>2, <2>3, <2>4 DEF IsInjective
  <2>6. Range(a) = Range(list) \cup {f}
    BY <1>1, <2>2, <2>4 DEF Range
  <2> QED
    BY <2>1, <2>2, <2>5, <2>6
<1> QED
  BY <1>3, <1>4

(* md_makedirlist lists every folder once.                                 *)
LEMMA DirListFacts ==
  ASSUME NEW s \in Stores
  PROVE  /\ DirList[s] \in Seq(Folders)
         /\ IsInjective(DirList[s])
         /\ Range(DirList[s]) = Range(Wanted[s])
<1> DEFINE w == Wanted[s]
           n == Len(w)
           Spells(f) == f = [i \in 0 .. n |-> IF i = 0 THEN <<>> ELSE Pushed(f[i - 1], w[i])]
           listed == CHOOSE f : Spells(f)
           Lists0 == {q \in Seq(Folders) : IsInjective(q)}
<1>1. n \in Nat /\ w \in Seq(Folders) /\ DOMAIN w = 1 .. n /\ \A i \in 1 .. n : w[i] \in Folders
  BY FolderFacts
<1>2. <<>> \in Lists0
  BY DEF IsInjective
<1>3. \A q \in Lists0, i \in 1 .. n : Pushed(q, w[i]) \in Lists0
  BY <1>1, PushedFacts
<1>4. \E f : Spells(f)
  <2> DEFINE step == [i \in 1 .. n |-> [q \in Lists0 |-> Pushed(q, w[i])]]
             e == <<>>
  <2>1. n \in Nat /\ e \in Lists0 /\ step \in Steps(Lists0, n)
    <3> HIDE DEF Lists0, w
    <3> QED
      BY <1>1, <1>2, <1>3 DEF Steps
  <2>2. \A i \in 1 .. n, q \in Lists0 : step[i][q] = Pushed(q, w[i])
    OBVIOUS
  <2> HIDE DEF Lists0, step, e, w
  <2>3. Iterable(Lists0, e, step, n)
    BY <2>1, RecursionExists
  <2>4. PICK g \in [0 .. n -> Lists0] :
          g[0] = e /\ \A i \in 1 .. n : g[i] = step[i][g[i - 1]]
    BY <2>3 DEF Iterable, Iterates
  <2>5. \A i \in 1 .. n : g[i - 1] \in Lists0
    BY <2>1
  <2>6. \A i \in 0 .. n : g[i] = IF i = 0 THEN <<>> ELSE Pushed(g[i - 1], w[i])
    BY <2>1, <2>2, <2>4, <2>5 DEF e
  <2>7. Spells(g)
    BY <2>6
  <2> QED
    BY <2>7
<1>5. Spells(listed)
  BY <1>4
<1>6. DirList[s] = listed[n]
  BY DEF DirList
<1> HIDE DEF listed
<1>7. listed[0] = <<>> /\ \A i \in 1 .. n : listed[i] = Pushed(listed[i - 1], w[i])
  BY <1>1, <1>5, SMTT(30)
<1> DEFINE Good(k) == /\ listed[k] \in Lists0
                      /\ Range(listed[k]) = {w[i] : i \in 1 .. k}
           S == {k \in 0 .. n : Good(k)}
<1>8. 0 \in S
  <2>1. Range(listed[0]) = {} /\ {w[i] : i \in 1 .. 0} = {}
    BY <1>7 DEF Range
  <2>2. Good(0) /\ 0 \in 0 .. n
    <3> HIDE DEF Lists0
    <3> QED
      BY <1>1, <1>2, <1>7, <2>1
  <2> QED
    BY <2>2
<1>9. ASSUME NEW k \in 0 .. n, k \in S, k < n PROVE k + 1 \in S
  <2>1. /\ k + 1 \in 1 .. n /\ (k + 1) - 1 = k /\ k + 1 \in 0 .. n
        /\ 1 .. k + 1 = 1 .. k \cup {k + 1}
    BY <1>1, <1>9
  <2>2. Good(k)
    BY <1>9
  <2>3. listed[k + 1] = Pushed(listed[k], w[k + 1])
    BY <1>7, <2>1
  <2>4. Range(listed[k + 1]) = Range(listed[k]) \cup {w[k + 1]}
    BY <1>1, <2>1, <2>2, <2>3, PushedFacts
  <2>5. {w[i] : i \in 1 .. k + 1} = {w[i] : i \in 1 .. k} \cup {w[k + 1]}
    BY <2>1
  <2>6. listed[k + 1] \in Lists0
    BY <1>3, <2>1, <2>2, <2>3
  <2>7. Good(k + 1)
    BY <2>2, <2>4, <2>5, <2>6
  <2> QED
    BY <2>1, <2>7
<1>10. n \in S
  <2> HIDE DEF S
  <2>1. \A k \in 0 .. n : k \in S /\ k < n => k + 1 \in S
    BY <1>9
  <2>2. \A k \in 0 .. n : k \in S
    BY <1>1, <1>8, <2>1, UpTo
  <2> QED
    BY <1>1, <2>2
<1>11. Range(w) = {w[i] : i \in 1 .. n}
  BY <1>1 DEF Range
<1> QED
  BY <1>6, <1>10, <1>11

(* A directory's parent is the base directory or comes earlier.            *)
Orderly(q) ==
  \A k \in 1 .. Len(q) :
    Parent(q[k]) = <<Base, "">> \/ \E j \in 1 .. k - 1 : q[j] = Parent(q[k])

LEMMA MaildirFacts ==
  ASSUME NEW d \in Seq(STRING)
  PROVE  /\ Maildir(d) \in Seq(Paths) /\ Len(Maildir(d)) = 3
         /\ Maildir(d)[1] = <<d, "">> /\ Maildir(d)[2] = <<d, "new">>
         /\ Maildir(d)[3] = <<d, "tmp">>
<1>1. <<d, "">> \in Paths /\ <<d, "new">> \in Paths /\ <<d, "tmp">> \in Paths
  BY DEF Paths
<1>2. Maildir(d) \in Seq(Paths) /\ Len(Maildir(d)) = 3
  BY <1>1, ThreeElements DEF Maildir
<1> QED
  BY <1>2 DEF Maildir

LEMMA BaseMaildir == Maildir(Base) \in Seq(Paths) /\ Maildir(Base) # <<>>
<1>1. Base \in Seq(STRING)
  BY DEF Base
<1>2. Maildir(Base) \in Seq(Paths) /\ Len(Maildir(Base)) = 3
  BY <1>1, MaildirFacts
<1>3. \A q \in Seq(Paths) : Len(q) = 3 => q # <<>>
  OBVIOUS
<1> QED
  BY <1>2, <1>3

LEMMA ParentFacts ==
  ASSUME NEW d
  PROVE  /\ Parent(<<d, "">>) = <<Base, "">>
         /\ Parent(<<d, "new">>) = <<d, "">>
         /\ Parent(<<d, "tmp">>) = <<d, "">>
BY DEF Parent

(* md_makemaildir_tree makes every Maildir from the top.                   *)
LEMMA TreeFacts ==
  ASSUME NEW f \in Folders
  PROVE  /\ Tree[f] \in Seq(Paths)
         /\ Orderly(Tree[f])
         /\ \E k \in 1 .. Len(Tree[f]) : Tree[f][k] = <<f, "new">>
<1> DEFINE n == Len(f) + 1
           ss == [i \in 1 .. n |-> Maildir(SubSeq(f, 1, i - 1))]
           r == FlattenSeq(ss)
<1>1. f \in Seq(STRING) /\ n \in Nat /\ Len(f) \in Nat
  BY FolderFacts
<1>2. ASSUME NEW i \in 1 .. n PROVE SubSeq(f, 1, i - 1) \in Seq(STRING)
  BY <1>1
<1>3. \A d \in Seq(STRING) :
        /\ Maildir(d) \in Seq(Paths) /\ Len(Maildir(d)) = 3
        /\ Maildir(d)[1] = <<d, "">> /\ Maildir(d)[2] = <<d, "new">>
        /\ Maildir(d)[3] = <<d, "tmp">>
  BY MaildirFacts
<1>4. ss \in Seq(Seq(Paths)) /\ Len(ss) = n
  <2>1. \A i \in 1 .. n : Maildir(SubSeq(f, 1, i - 1)) \in Seq(Paths)
    BY <1>2, <1>3
  <2> QED
    BY <1>1, <2>1
<1>5. Tree[f] = r
  BY DEF Tree
<1>6. /\ r \in Seq(Paths)
      /\ \A i \in 1 .. n : \E o \in Nat : Block(ss[i], o, r)
      /\ \A k \in 1 .. Len(r) :
           \E i \in 1 .. n, o \in Nat :
             o < k /\ k <= o + Len(ss[i]) /\ Block(ss[i], o, r)
  BY <1>4, FlattenFacts
<1>7. \A i \in 1 .. n : \E d \in Seq(STRING) : ss[i] = Maildir(d)
  BY <1>2
<1>8. ss[n] = Maildir(f) /\ n \in 1 .. n
  <2>1. SubSeq(f, 1, Len(f)) = f
    BY <1>1
  <2>2. n - 1 = Len(f) /\ n \in 1 .. n
    BY <1>1
  <2> QED
    BY <2>1, <2>2
<1> HIDE DEF ss, r, n
<1>9. Orderly(r)
  <2> SUFFICES ASSUME NEW k \in 1 .. Len(r)
               PROVE  \/ Parent(r[k]) = <<Base, "">>
                      \/ \E j \in 1 .. k - 1 : r[j] = Parent(r[k])
    BY DEF Orderly
  <2>1. PICK i \in 1 .. n, o \in Nat :
          o < k /\ k <= o + Len(ss[i]) /\ Block(ss[i], o, r)
    BY <1>6
  <2>2. PICK d \in Seq(STRING) : ss[i] = Maildir(d)
    BY <1>7
  <2>3. Len(ss[i]) = 3 /\ Len(r) \in Nat
    <3>1. Len(Maildir(d)) = 3
      BY <1>3
    <3> QED
      BY <1>6, <2>2, <3>1
  <2>4. r[o + 1] = <<d, "">> /\ r[o + 2] = <<d, "new">> /\ r[o + 3] = <<d, "tmp">>
    <3>1. ss[i][1] = <<d, "">> /\ ss[i][2] = <<d, "new">> /\ ss[i][3] = <<d, "tmp">>
      BY <1>3, <2>2
    <3>2. 1 \in 1 .. 3 /\ 2 \in 1 .. 3 /\ 3 \in 1 .. 3
      OBVIOUS
    <3> QED
      BY <2>1, <2>3, <3>1, <3>2 DEF Block
  <2>5. k = o + 1 \/ k = o + 2 \/ k = o + 3
    BY <2>1, <2>3
  <2>6. CASE k = o + 1
    BY <2>4, <2>6, ParentFacts
  <2>7. CASE k = o + 2 \/ k = o + 3
    <3>1. Parent(r[k]) = <<d, "">>
      BY <2>4, <2>7, ParentFacts
    <3>2. o + 1 \in 1 .. k - 1
      BY <2>7
    <3> QED
      BY <3>1, <3>2, <2>4
  <2> QED
    BY <2>5, <2>6, <2>7
<1>10. \E k \in 1 .. Len(r) : r[k] = <<f, "new">>
  <2>1. PICK o \in Nat : Block(ss[n], o, r)
    BY <1>6, <1>8
  <2>2. Len(ss[n]) = 3 /\ ss[n][2] = <<f, "new">>
    BY <1>1, <1>3, <1>8
  <2>3. o + 2 \in 1 .. Len(r) /\ r[o + 2] = <<f, "new">>
    BY <1>6, <2>1, <2>2 DEF Block
  <2> QED
    BY <2>3
<1> QED
  BY <1>5, <1>6, <1>9, <1>10

(* What md_makedirbylist sees to holds every parent before its children    *)
(* and the new/ of every folder.                                           *)
LEMMA DirsOfFacts ==
  ASSUME NEW s \in Stores
  PROVE  /\ DirsOf[s] \in Seq(Paths)
         /\ Orderly(DirsOf[s])
         /\ \A f \in Range(Wanted[s]) :
              \E k \in 1 .. Len(DirsOf[s]) : DirsOf[s][k] = <<f, "new">>
<1> DEFINE l == DirList[s]
           ss == [i \in DOMAIN l |-> Tree[l[i]]]
           r == FlattenSeq(ss)
<1>1. l \in Seq(Folders) /\ Range(l) = Range(Wanted[s])
  BY DirListFacts
<1>2. Len(l) \in Nat /\ DOMAIN l = 1 .. Len(l) /\ \A i \in 1 .. Len(l) : l[i] \in Folders
  BY <1>1
<1>3. DirsOf[s] = r
  BY DEF DirsOf
<1> HIDE DEF l
<1>4. \A i \in 1 .. Len(l) : ss[i] = Tree[l[i]] /\ ss[i] \in Seq(Paths)
  BY <1>2, TreeFacts
<1>5. ss \in Seq(Seq(Paths)) /\ Len(ss) = Len(l)
  BY <1>2, <1>4
<1> HIDE DEF ss
<1>6. /\ r \in Seq(Paths)
      /\ \A i \in 1 .. Len(l) : \E o \in Nat : Block(ss[i], o, r)
      /\ \A k \in 1 .. Len(r) :
           \E i \in 1 .. Len(l), o \in Nat :
             o < k /\ k <= o + Len(ss[i]) /\ Block(ss[i], o, r)
  BY <1>5, FlattenFacts
<1> HIDE DEF r
<1>7. Orderly(r)
  <2> SUFFICES ASSUME NEW k \in 1 .. Len(r)
               PROVE  \/ Parent(r[k]) = <<Base, "">>
                      \/ \E j \in 1 .. k - 1 : r[j] = Parent(r[k])
    BY DEF Orderly
  <2>1. PICK i \in 1 .. Len(l), o \in Nat :
          o < k /\ k <= o + Len(ss[i]) /\ Block(ss[i], o, r)
    BY <1>6
  <2>2. Orderly(ss[i]) /\ Len(ss[i]) \in Nat /\ Len(r) \in Nat
    BY <1>2, <1>4, <1>6, TreeFacts
  <2> DEFINE m == k - o
  <2>3. m \in 1 .. Len(ss[i]) /\ k = o + m
    BY <2>1, <2>2
  <2>4. r[k] = ss[i][m]
    BY <2>1, <2>3 DEF Block
  <2> HIDE DEF m
  <2>5. CASE Parent(ss[i][m]) = <<Base, "">>
    BY <2>4, <2>5
  <2>6. ASSUME NEW j \in 1 .. m - 1, ss[i][j] = Parent(ss[i][m])
        PROVE  \E h \in 1 .. k - 1 : r[h] = Parent(r[k])
    <3>1. j \in 1 .. Len(ss[i]) /\ o + j \in 1 .. k - 1
      BY <2>2, <2>3
    <3>2. r[o + j] = ss[i][j]
      BY <2>1, <3>1 DEF Block
    <3> QED
      BY <3>1, <3>2, <2>4, <2>6
  <2> QED
    BY <2>2, <2>3, <2>5, <2>6 DEF Orderly
<1>8. ASSUME NEW f \in Range(Wanted[s])
      PROVE  \E k \in 1 .. Len(r) : r[k] = <<f, "new">>
  <2>1. PICK i \in 1 .. Len(l) : l[i] = f
    BY <1>1, <1>2 DEF Range
  <2>2. f \in Folders
    BY <2>1, <1>2
  <2>3. PICK m \in 1 .. Len(ss[i]) : ss[i][m] = <<f, "new">>
    BY <2>1, <2>2, <1>4, TreeFacts
  <2>4. PICK o \in Nat : Block(ss[i], o, r)
    BY <1>6
  <2>5. Len(ss[i]) \in Nat /\ Len(r) \in Nat
    BY <1>4, <1>6
  <2>6. o + m \in 1 .. Len(r) /\ r[o + m] = <<f, "new">>
    BY <2>3, <2>4, <2>5 DEF Block
  <2> QED
    BY <2>6
<1> QED
  BY <1>3, <1>6, <1>7, <1>8

(* A write that is never short writes the header whole.                    *)
LEMMA WrittenFacts ==
  "shortWrite" \notin Faults => WrittenOf[HeaderLen] = {HeaderLen}
<1> SUFFICES ASSUME "shortWrite" \notin Faults
             PROVE  WrittenOf[HeaderLen] = {HeaderLen}
  OBVIOUS
<1> DEFINE Spells(f) ==
             f = [n \in 1 .. HeaderLen |->
                    {n} \cup
                    IF "shortWrite" \notin Faults THEN {}
                    ELSE UNION {IF w < n - w THEN {w + x : x \in f[n - w]} ELSE {w} :
                                w \in 1 .. n - 1}]
           g == [n \in 1 .. HeaderLen |-> {n}]
           h == CHOOSE f : Spells(f)
<1>1. Spells(g)
  OBVIOUS
<1>2. Spells(h)
  BY <1>1
<1>3. WrittenOf = h
  BY DEF WrittenOf
<1>4. HeaderLen \in 1 .. HeaderLen
  BY StoresAssumption
<1> HIDE DEF h
<1>5. h[HeaderLen] = {HeaderLen}
  BY <1>2, <1>4
<1> QED
  BY <1>3, <1>5

(* A list of directories stays in order, and nothing that is asked for is  *)
(* lost, when directories appear and those that are there are taken off.   *)
LEMMA RestPrepared ==
  ASSUME NEW q \in Seq(Paths), NEW k \in 1 .. Len(q) + 1, NEW D, NEW E, NEW F,
         D \subseteq E, \A i \in 1 .. k - 1 : q[i] \in E,
         Closed(q, D), Covered(F, q, D)
  PROVE  Closed(Rest(q, k), E) /\ Covered(F, Rest(q, k), E)
<1> DEFINE r == Rest(q, k)
           n == Len(q) - k + 1
<1>1. /\ Len(q) \in Nat /\ n \in Nat /\ Len(r) = n /\ r \in Seq(Paths)
      /\ \A i \in 1 .. n : r[i] = q[k + i - 1]
  BY RestFacts
<1>2. \A j \in 1 .. Len(q) : j < k \/ (j - k + 1 \in 1 .. n /\ r[j - k + 1] = q[j])
  <2> SUFFICES ASSUME NEW j \in 1 .. Len(q), ~(j < k)
               PROVE  j - k + 1 \in 1 .. n /\ r[j - k + 1] = q[j]
    OBVIOUS
  <2>1. j - k + 1 \in 1 .. n /\ k + (j - k + 1) - 1 = j
    BY <1>1
  <2> HIDE DEF r, n
  <2> QED
    BY <2>1, <1>1
<1> HIDE DEF r
<1>3. Closed(r, E)
  <2> SUFFICES ASSUME NEW i \in 1 .. n
               PROVE  Parent(r[i]) \in E \/ \E j \in 1 .. i - 1 : r[j] = Parent(r[i])
    BY <1>1 DEF Closed
  <2>1. k + i - 1 \in 1 .. Len(q) /\ r[i] = q[k + i - 1]
    BY <1>1
  <2>2. CASE Parent(r[i]) \in D
    BY <2>2
  <2>3. ASSUME NEW j \in 1 .. (k + i - 1) - 1, q[j] = Parent(r[i])
        PROVE  Parent(r[i]) \in E \/ \E l \in 1 .. i - 1 : r[l] = Parent(r[i])
    <3>1. j \in 1 .. Len(q)
      BY <1>1
    <3>2. CASE j < k
      <4>1. j \in 1 .. k - 1
        BY <3>2
      <4> QED
        BY <4>1, <2>3
    <3>3. CASE ~(j < k)
      <4>1. j - k + 1 \in 1 .. i - 1 /\ r[j - k + 1] = q[j]
        BY <3>1, <3>3, <1>2
      <4> QED
        BY <4>1, <2>3
    <3> QED
      BY <3>2, <3>3
  <2> QED
    BY <2>1, <2>2, <2>3 DEF Closed
<1>4. Covered(F, r, E)
  <2> SUFFICES ASSUME NEW f \in F PROVE <<f, "new">> \in E \cup Range(r)
    BY DEF Covered
  <2>1. CASE <<f, "new">> \in D
    BY <2>1
  <2>2. ASSUME NEW j \in 1 .. Len(q), q[j] = <<f, "new">>
        PROVE  <<f, "new">> \in E \cup Range(r)
    <3>1. CASE j < k
      <4>1. j \in 1 .. k - 1
        BY <3>1
      <4> QED
        BY <4>1, <2>2
    <3>2. CASE ~(j < k)
      <4>1. j - k + 1 \in DOMAIN r /\ r[j - k + 1] = <<f, "new">>
        BY <3>2, <1>1, <1>2, <2>2
      <4> QED
        BY <4>1 DEF Range
    <3> QED
      BY <3>1, <3>2
  <2> QED
    BY <2>1, <2>2, SMTT(20) DEF Covered, Range
<1> QED
  BY <1>3, <1>4 DEF r

LEMMA ListTypes ==
  ASSUME Lists, NEW s \in Stores
  PROVE  /\ todo[s] \in Seq(Paths) /\ Len(todo[s]) \in Nat
         /\ toLink[s] \in Seq(Folders)
<1>1. todo[s] \in Seq(Paths) /\ toLink[s] \in Seq(Folders)
  BY DEF Lists
<1> QED
  BY <1>1

(* What stat finds.                                                        *)
LEMMA StatFacts ==
  ASSUME Lists, NEW s \in Stores, Stat(s)
  PROVE  \E k \in 1 .. Len(todo[s]) + 1 :
           /\ todo' = [todo EXCEPT ![s] = Rest(todo[s], k)]
           /\ absent' = [absent EXCEPT ![s] = k # Len(todo[s]) + 1]
           /\ \A i \in 1 .. k - 1 : todo[s][i] \in dirs
<1> DEFINE q == todo[s]
           missing == {i \in 1 .. Len(q) : q[i] \notin dirs}
           first == SelectInSeq(q, LAMBDA p : p \notin dirs)
<1>1. q \in Seq(Paths) /\ Len(q) \in Nat
  BY ListTypes
<1>2. /\ todo' = [todo EXCEPT ![s] = IF first = 0 THEN <<>> ELSE SubSeq(@, first, Len(@))]
      /\ absent' = [absent EXCEPT ![s] = first # 0]
  BY DEF Stat
<1>3. first = IF missing # {} THEN Min(missing) ELSE 0
  BY DEF SelectInSeq
<1> HIDE DEF first
<1>4. CASE missing = {}
  <2>1. first = 0 /\ \A i \in 1 .. Len(q) : q[i] \in dirs
    BY <1>3, <1>4
  <2>2. Rest(q, Len(q) + 1) = <<>> /\ Len(q) + 1 \in 1 .. Len(q) + 1
    BY <1>1, RestFacts
  <2>3. /\ todo' = [todo EXCEPT ![s] = Rest(q, Len(q) + 1)]
        /\ absent' = [absent EXCEPT ![s] = FALSE]
    BY <1>2, <2>1, <2>2 DEF Lists
  <2>4. \A i \in 1 .. (Len(q) + 1) - 1 : q[i] \in dirs
    BY <1>1, <2>1
  <2> QED
    BY <2>2, <2>3, <2>4
<1>5. CASE missing # {}
  <2>1. missing \in SUBSET Nat
    OBVIOUS
  <2>2. first \in missing /\ \A y \in missing : first <= y
    <3> HIDE DEF missing
    <3> QED
      BY <1>3, <1>5, <2>1, LeastExists
  <2>3. first \in 1 .. Len(q) /\ first # 0 /\ first # Len(q) + 1
    BY <1>1, <2>2
  <2>4. ASSUME NEW i \in 1 .. first - 1 PROVE q[i] \in dirs
    <3>1. i \in 1 .. Len(q) /\ ~(first <= i)
      BY <1>1, <2>3
    <3> QED
      BY <2>2, <3>1
  <2>5. /\ todo' = [todo EXCEPT ![s] = Rest(q, first)]
        /\ absent' = [absent EXCEPT ![s] = first # Len(q) + 1]
    BY <1>2, <2>3 DEF Rest, Lists
  <2>6. first \in 1 .. Len(q) + 1
    BY <1>1, <2>3
  <2> QED
    BY <2>4, <2>5, <2>6
<1> QED
  BY <1>4, <1>5

(* What a step may be, action by action.                                   *)
LEMMA StepCases ==
  ASSUME [Next]_vars
  PROVE  \/ \E s \in Stores : Open(s)
         \/ \E s \in Stores : Stat(s)
         \/ \E s \in Stores : Mkdir(s)
         \/ \E s \in Stores : Mkstemp(s)
         \/ \E s \in Stores : MkstempFails(s)
         \/ \E s \in Stores : WriteHeader(s)
         \/ \E s \in Stores : WriteBody(s)
         \/ \E s \in Stores : WriteFails(s)
         \/ \E s \in Stores : Aborted(s)
         \/ \E s \in Stores : Abort(s)
         \/ \E s \in Stores : Close(s)
         \/ \E s \in Stores : Fork(s)
         \/ \E s \in Stores : ForkFails(s)
         \/ \E s \in Stores : Compressed(s)
         \/ \E s \in Stores : CompressFails(s)
         \/ \E s \in Stores : CompressorKilled(s)
         \/ \E s \in Stores : TakeOutput(s)
         \/ \E s \in Stores : OutputLost(s)
         \/ \E s \in Stores : MakeDirList(s)
         \/ \E s \in Stores : DirListFails(s)
         \/ \E s \in Stores : Link(s)
         \/ \E s \in Stores : LinksDone(s)
         \/ ProcessExits \/ ReaderRemoves \/ UNCHANGED vars
BY DEF Next, Work, AllEnded

(* The list of the folders a store has still to link to.                   *)
LEMMA ToLinkFacts ==
  ASSUME Lists, NEW s \in Stores, toLink[s] # <<>>
  PROVE  /\ Head(toLink[s]) \in Folders /\ Tail(toLink[s]) \in Seq(Folders)
         /\ Range(toLink[s]) = {Head(toLink[s])} \cup Range(Tail(toLink[s]))
         /\ IsInjective(toLink[s]) =>
              /\ IsInjective(Tail(toLink[s]))
              /\ Head(toLink[s]) \notin Range(Tail(toLink[s]))
<1>1. toLink[s] \in Seq(Folders)
  BY ListTypes
<1> QED
  BY <1>1, TailFacts, TailRange, TailInjective

-----------------------------------------------------------------------------
(* Types *)

LEMMA TypeStep ==
  ASSUME TypeOK, Lists, Temporaries, [Next]_vars
  PROVE  TypeOK'
<1> USE DEF TypeOK, Labels, Ended, Goto, fileVars, localVars, historyVars
<1>1. ASSUME NEW s \in Stores, Open(s) PROVE TypeOK'
  <2>1. Maildir(Base) # <<>>
    BY BaseMaildir
  <2>2. PICK t \in Times : time' = [time EXCEPT ![s] = t]
    BY <1>1 DEF Open
  <2>3. \A r \in Stores : absent'[r] => todo'[r] # <<>>
    BY <1>1, <2>1 DEF Open, Lists
  <2>4. time' \in [Stores -> Times \cup {0}]
    BY <2>2
  <2> QED
    BY <1>1, <2>3, <2>4 DEF Open
<1>2. ASSUME NEW s \in Stores, Stat(s) PROVE TypeOK'
  <2>1. PICK k \in 1 .. Len(todo[s]) + 1 :
          /\ todo' = [todo EXCEPT ![s] = Rest(todo[s], k)]
          /\ absent' = [absent EXCEPT ![s] = k # Len(todo[s]) + 1]
    BY <1>2, StatFacts
  <2>2. k # Len(todo[s]) + 1 => Rest(todo[s], k) # <<>>
    BY ListTypes, RestFacts
  <2>3. \A r \in Stores : absent'[r] => todo'[r] # <<>>
    BY <2>1, <2>2 DEF Lists
  <2>4. absent' \in [Stores -> BOOLEAN]
    <3>1. (k # Len(todo[s]) + 1) \in BOOLEAN
      OBVIOUS
    <3> HIDE DEF Stat
    <3> QED
      BY <2>1, <3>1, Zenon
  <2> QED
    BY <1>2, <2>3, <2>4 DEF Stat
<1>3. ASSUME NEW s \in Stores, Mkdir(s) PROVE TypeOK'
  BY <1>3 DEF Mkdir
<1>4. ASSUME NEW s \in Stores, Mkstemp(s) PROVE TypeOK'
  <2>1. PICK i \in Inodes : tmp' = [tmp EXCEPT ![s] = i]
    BY <1>4 DEF Mkstemp
  <2>2. i # NoInode
    BY StoresAssumption DEF NoInode
  <2> QED
    BY <1>4, <2>1, <2>2 DEF Mkstemp
<1>5. ASSUME NEW s \in Stores, MkstempFails(s) PROVE TypeOK'
  BY <1>5 DEF MkstempFails
<1>6. ASSUME NEW s \in Stores, WriteHeader(s) PROVE TypeOK'
  BY <1>6 DEF WriteHeader
<1>7. ASSUME NEW s \in Stores, WriteBody(s) PROVE TypeOK'
  BY <1>7 DEF WriteBody
<1>8. ASSUME NEW s \in Stores, WriteFails(s) PROVE TypeOK'
  BY <1>8 DEF WriteFails
<1>9. ASSUME NEW s \in Stores, Aborted(s) PROVE TypeOK'
  BY <1>9 DEF Aborted
<1>10. ASSUME NEW s \in Stores, Abort(s) PROVE TypeOK'
  BY <1>10 DEF Abort
<1>11. ASSUME NEW s \in Stores, Close(s) PROVE TypeOK'
  BY <1>11 DEF Close
<1>12. ASSUME NEW s \in Stores, Fork(s) PROVE TypeOK'
  BY <1>12 DEF Fork
<1>13. ASSUME NEW s \in Stores, ForkFails(s) PROVE TypeOK'
  BY <1>13 DEF ForkFails
<1>14. ASSUME NEW s \in Stores, Compressed(s) PROVE TypeOK'
  BY <1>14 DEF Compressed
<1>15. ASSUME NEW s \in Stores, CompressFails(s) PROVE TypeOK'
  BY <1>15 DEF CompressFails
<1>16. ASSUME NEW s \in Stores, CompressorKilled(s) PROVE TypeOK'
  BY <1>16 DEF CompressorKilled
<1>17. ASSUME NEW s \in Stores, TakeOutput(s) PROVE TypeOK'
  <2>1. tmp' \in [Stores -> Inodes \cup {NoInode}] /\ out[s] # NoInode
    BY <1>17 DEF TakeOutput, Temporaries
  <2> QED
    BY <1>17, <2>1 DEF TakeOutput
<1>18. ASSUME NEW s \in Stores, OutputLost(s) PROVE TypeOK'
  BY <1>18 DEF OutputLost
<1>19. ASSUME NEW s \in Stores, MakeDirList(s) PROVE TypeOK'
  <2>1. ~absent[s]
    BY <1>19 DEF MakeDirList, Lists
  <2>2. \A r \in Stores : absent'[r] => todo'[r] # <<>>
    BY <1>19, <2>1 DEF MakeDirList, Lists
  <2> QED
    BY <1>19, <2>2 DEF MakeDirList
<1>20. ASSUME NEW s \in Stores, DirListFails(s) PROVE TypeOK'
  BY <1>20 DEF DirListFails
<1>21. ASSUME NEW s \in Stores, Link(s) PROVE TypeOK'
  <2> DEFINE n == SaveName(s, Head(toLink[s]))
  <2>1. n.folder \in Folders /\ n.inode = tmp[s] /\ n.folder = Head(toLink[s])
    BY <1>21, ToLinkFacts DEF Link, SaveName
  <2>2. n.inode \in Inodes
    BY <1>21, <2>1 DEF Link
  <2>3. /\ names' = names \/ names' = names \cup {n}
        /\ linked' = linked \/ linked' = [linked EXCEPT ![s] = @ \cup {n.folder}]
        /\ hurt' = hurt \/ hurt' = hurt \cup {s}
    BY <1>21 DEF Link
  <2>4. UNCHANGED <<pc, tmp, out, time, todo, absent, littered>>
    BY <1>21 DEF Link
  <2> HIDE DEF n
  <2>5. \A m \in names' : m.folder \in Folders /\ m.inode \in Inodes
    BY <2>1, <2>2, <2>3
  <2>6. linked' \in [Stores -> SUBSET Folders]
    BY <2>1, <2>3
  <2>7. hurt' \cup littered' \subseteq Stores
    BY <2>3, <2>4
  <2> QED
    BY <2>4, <2>5, <2>6, <2>7
<1>22. ASSUME NEW s \in Stores, LinksDone(s) PROVE TypeOK'
  BY <1>22 DEF LinksDone
<1>23. CASE ProcessExits
  BY <1>23 DEF ProcessExits
<1>24. CASE ReaderRemoves
  BY <1>24 DEF ReaderRemoves
<1>25. CASE UNCHANGED vars
  BY <1>25 DEF vars
<1> QED
  BY <1>1, <1>2, <1>3, <1>4, <1>5, <1>6, <1>7, <1>8, <1>9, <1>10, <1>11,
     <1>12, <1>13, <1>14, <1>15, <1>16, <1>17, <1>18, <1>19, <1>20, <1>21,
     <1>22, <1>23, <1>24, <1>25, StepCases


LEMMA ListsStep ==
  ASSUME TypeOK, Lists, [Next]_vars
  PROVE  Lists'
<1> USE DEF TypeOK, Lists, Labels, Ended, Goto, fileVars, localVars, historyVars
<1>1. ASSUME NEW s \in Stores, Open(s) PROVE Lists'
  <2>1. Maildir(Base) \in Seq(Paths)
    BY BaseMaildir
  <2> QED
    BY <1>1, <2>1 DEF Open
<1>2. ASSUME NEW s \in Stores, Stat(s) PROVE Lists'
  <2>1. PICK k \in 1 .. Len(todo[s]) + 1 :
          todo' = [todo EXCEPT ![s] = Rest(todo[s], k)]
    BY <1>2, StatFacts
  <2>2. Rest(todo[s], k) \in Seq(Paths)
    BY ListTypes, RestFacts
  <2> HIDE DEF Lists
  <2>3. todo' \in [Stores -> Seq(Paths)]
    BY <2>1, <2>2 DEF Lists
  <2> QED
    BY <1>2, <2>1, <2>3 DEF Stat, Lists
<1>3. ASSUME NEW s \in Stores, Mkdir(s) PROVE Lists'
  <2>1. todo[s] \in Seq(Paths) /\ todo[s] # <<>>
    BY <1>3, ListTypes DEF Mkdir
  <2>2. Tail(todo[s]) \in Seq(Paths)
    BY <2>1, TailFacts
  <2>3. todo' = [todo EXCEPT ![s] = Tail(todo[s])] /\ pc[s] \in {"openDirs", "dirs"}
    BY <1>3 DEF Mkdir
  <2>4. todo' \in [Stores -> Seq(Paths)]
    BY <2>2, <2>3
  <2>5. <<Base, "">> \in dirs'
    BY <1>3 DEF Mkdir
  <2>6. UNCHANGED <<pc, module, toLink>>
    BY <1>3 DEF Mkdir
  <2> QED
    BY <2>3, <2>4, <2>5, <2>6
<1>4. ASSUME NEW s \in Stores, Mkstemp(s) PROVE Lists'
  <2>1. todo[s] = <<>>
    BY <1>4 DEF Mkstemp, DirsDone
  <2> QED
    BY <1>4, <2>1 DEF Mkstemp
<1>5. ASSUME NEW s \in Stores, MkstempFails(s) PROVE Lists'
  <2>1. todo[s] = <<>>
    BY <1>5 DEF MkstempFails, DirsDone
  <2> QED
    BY <1>5, <2>1 DEF MkstempFails
<1>6. ASSUME NEW s \in Stores, WriteHeader(s) PROVE Lists'
  BY <1>6 DEF WriteHeader
<1>7. ASSUME NEW s \in Stores, WriteBody(s) PROVE Lists'
  BY <1>7 DEF WriteBody
<1>8. ASSUME NEW s \in Stores, WriteFails(s) PROVE Lists'
  BY <1>8 DEF WriteFails
<1>9. ASSUME NEW s \in Stores, Aborted(s) PROVE Lists'
  BY <1>9 DEF Aborted
<1>10. ASSUME NEW s \in Stores, Abort(s) PROVE Lists'
  BY <1>10 DEF Abort
<1>11. ASSUME NEW s \in Stores, Close(s) PROVE Lists'
  BY <1>11 DEF Close
<1>12. ASSUME NEW s \in Stores, Fork(s) PROVE Lists'
  BY <1>12 DEF Fork
<1>13. ASSUME NEW s \in Stores, ForkFails(s) PROVE Lists'
  BY <1>13 DEF ForkFails
<1>14. ASSUME NEW s \in Stores, Compressed(s) PROVE Lists'
  BY <1>14 DEF Compressed
<1>15. ASSUME NEW s \in Stores, CompressFails(s) PROVE Lists'
  BY <1>15 DEF CompressFails
<1>16. ASSUME NEW s \in Stores, CompressorKilled(s) PROVE Lists'
  BY <1>16 DEF CompressorKilled
<1>17. ASSUME NEW s \in Stores, TakeOutput(s) PROVE Lists'
  BY <1>17 DEF TakeOutput
<1>18. ASSUME NEW s \in Stores, OutputLost(s) PROVE Lists'
  BY <1>18 DEF OutputLost
<1>19. ASSUME NEW s \in Stores, MakeDirList(s) PROVE Lists'
  <2>1. DirsOf[s] \in Seq(Paths) /\ DirList[s] \in Seq(Folders)
    BY DirsOfFacts, DirListFacts
  <2> QED
    BY <1>19, <2>1 DEF MakeDirList
<1>20. ASSUME NEW s \in Stores, DirListFails(s) PROVE Lists'
  BY <1>20 DEF DirListFails
<1>21. ASSUME NEW s \in Stores, Link(s) PROVE Lists'
  <2>1. Tail(toLink[s]) \in Seq(Folders)
    BY <1>21, ToLinkFacts DEF Link
  <2> QED
    BY <1>21, <2>1 DEF Link
<1>22. ASSUME NEW s \in Stores, LinksDone(s) PROVE Lists'
  <2>1. todo[s] = <<>>
    BY <1>22 DEF LinksDone, DirsDone
  <2> QED
    BY <1>22, <2>1 DEF LinksDone
<1>23. CASE ProcessExits
  BY <1>23 DEF ProcessExits
<1>24. CASE ReaderRemoves
  BY <1>24 DEF ReaderRemoves
<1>25. CASE UNCHANGED vars
  BY <1>25 DEF vars
<1> QED
  BY <1>1, <1>2, <1>3, <1>4, <1>5, <1>6, <1>7, <1>8, <1>9, <1>10, <1>11,
     <1>12, <1>13, <1>14, <1>15, <1>16, <1>17, <1>18, <1>19, <1>20, <1>21,
     <1>22, <1>23, <1>24, <1>25, StepCases


LEMMA TemporariesStep ==
  ASSUME TypeOK, Temporaries, [Next]_vars
  PROVE  Temporaries'
<1> USE DEF TypeOK, Temporaries, Labels, Ended, Goto, fileVars, localVars,
            historyVars
<1>1. ASSUME NEW s \in Stores, Open(s) PROVE Temporaries'
  BY <1>1 DEF Open
<1>2. ASSUME NEW s \in Stores, Stat(s) PROVE Temporaries'
  BY <1>2 DEF Stat
<1>3. ASSUME NEW s \in Stores, Mkdir(s) PROVE Temporaries'
  BY <1>3 DEF Mkdir
<1>4. ASSUME NEW s \in Stores, Mkstemp(s) PROVE Temporaries'
  BY <1>4 DEF Mkstemp
<1>5. ASSUME NEW s \in Stores, MkstempFails(s) PROVE Temporaries'
  BY <1>5 DEF MkstempFails
<1>6. ASSUME NEW s \in Stores, WriteHeader(s) PROVE Temporaries'
  BY <1>6 DEF WriteHeader
<1>7. ASSUME NEW s \in Stores, WriteBody(s) PROVE Temporaries'
  BY <1>7 DEF WriteBody
<1>8. ASSUME NEW s \in Stores, WriteFails(s) PROVE Temporaries'
  BY <1>8 DEF WriteFails
<1>9. ASSUME NEW s \in Stores, Aborted(s) PROVE Temporaries'
  BY <1>9 DEF Aborted
<1>10. ASSUME NEW s \in Stores, Abort(s) PROVE Temporaries'
  BY <1>10 DEF Abort
<1>11. ASSUME NEW s \in Stores, Close(s) PROVE Temporaries'
  BY <1>11 DEF Close
<1>12. ASSUME NEW s \in Stores, Fork(s) PROVE Temporaries'
  BY <1>12 DEF Fork
<1>13. ASSUME NEW s \in Stores, ForkFails(s) PROVE Temporaries'
  BY <1>13 DEF ForkFails
<1>14. ASSUME NEW s \in Stores, Compressed(s) PROVE Temporaries'
  <2>1. PICK i \in Inodes : out' = [out EXCEPT ![s] = i]
    BY <1>14 DEF Compressed
  <2>2. i # NoInode
    BY StoresAssumption DEF NoInode
  <2> QED
    BY <1>14, <2>1, <2>2 DEF Compressed
<1>15. ASSUME NEW s \in Stores, CompressFails(s) PROVE Temporaries'
  BY <1>15 DEF CompressFails
<1>16. ASSUME NEW s \in Stores, CompressorKilled(s) PROVE Temporaries'
  BY <1>16 DEF CompressorKilled
<1>17. ASSUME NEW s \in Stores, TakeOutput(s) PROVE Temporaries'
  BY <1>17 DEF TakeOutput
<1>18. ASSUME NEW s \in Stores, OutputLost(s) PROVE Temporaries'
  BY <1>18 DEF OutputLost
<1>19. ASSUME NEW s \in Stores, MakeDirList(s) PROVE Temporaries'
  BY <1>19 DEF MakeDirList
<1>20. ASSUME NEW s \in Stores, DirListFails(s) PROVE Temporaries'
  BY <1>20 DEF DirListFails
<1>21. ASSUME NEW s \in Stores, Link(s) PROVE Temporaries'
  BY <1>21 DEF Link
<1>22. ASSUME NEW s \in Stores, LinksDone(s) PROVE Temporaries'
  BY <1>22 DEF LinksDone
<1>23. CASE ProcessExits
  BY <1>23 DEF ProcessExits
<1>24. CASE ReaderRemoves
  BY <1>24 DEF ReaderRemoves
<1>25. CASE UNCHANGED vars
  BY <1>25 DEF vars
<1> QED
  BY <1>1, <1>2, <1>3, <1>4, <1>5, <1>6, <1>7, <1>8, <1>9, <1>10, <1>11,
     <1>12, <1>13, <1>14, <1>15, <1>16, <1>17, <1>18, <1>19, <1>20, <1>21,
     <1>22, <1>23, <1>24, <1>25, StepCases



-----------------------------------------------------------------------------
(* Files and links                                                         *)

(* A new inode is nobody's.                                                *)
LEMMA NewInodeFacts ==
  ASSUME NEW i \in Inodes, NewInode(i)
  PROVE  /\ i # NoInode
         /\ \A n \in names : n.inode # i
         /\ \A s \in Stores : tmp[s] # i /\ out[s] # i
BY StoresAssumption DEF NewInode, InUse, NoInode

LEMMA OwnStep ==
  ASSUME TypeOK, Temporaries, Names, Own, [Next]_vars
  PROVE  Own'
<1> USE DEF Own, Goto, fileVars, localVars, historyVars
<1>1. ASSUME NEW s \in Stores, Open(s) PROVE Own'
  BY <1>1 DEF Open
<1>2. ASSUME NEW s \in Stores, Stat(s) PROVE Own'
  BY <1>2 DEF Stat
<1>3. ASSUME NEW s \in Stores, Mkdir(s) PROVE Own'
  BY <1>3 DEF Mkdir
<1>4. ASSUME NEW s \in Stores, Mkstemp(s) PROVE Own'
  <2>1. PICK i \in Inodes : NewInode(i) /\ tmp' = [tmp EXCEPT ![s] = i]
    BY <1>4 DEF Mkstemp
  <2> QED
    BY <1>4, <2>1, NewInodeFacts DEF Mkstemp, TypeOK
<1>5. ASSUME NEW s \in Stores, MkstempFails(s) PROVE Own'
  BY <1>5 DEF MkstempFails
<1>6. ASSUME NEW s \in Stores, WriteHeader(s) PROVE Own'
  BY <1>6 DEF WriteHeader
<1>7. ASSUME NEW s \in Stores, WriteBody(s) PROVE Own'
  BY <1>7 DEF WriteBody
<1>8. ASSUME NEW s \in Stores, WriteFails(s) PROVE Own'
  BY <1>8 DEF WriteFails
<1>9. ASSUME NEW s \in Stores, Aborted(s) PROVE Own'
  BY <1>9 DEF Aborted
<1>10. ASSUME NEW s \in Stores, Abort(s) PROVE Own'
  <2>1. tmp' = [tmp EXCEPT ![s] = NoInode] /\ UNCHANGED <<out, names>>
    BY <1>10 DEF Abort, CompressFails, LinksDone
  <2>2. \A n \in names : n.inode # NoInode
    BY StoresAssumption DEF TypeOK, NoInode
  <2> QED
    BY <2>1, <2>2 DEF TypeOK
<1>11. ASSUME NEW s \in Stores, Close(s) PROVE Own'
  BY <1>11 DEF Close
<1>12. ASSUME NEW s \in Stores, Fork(s) PROVE Own'
  BY <1>12 DEF Fork
<1>13. ASSUME NEW s \in Stores, ForkFails(s) PROVE Own'
  BY <1>13 DEF ForkFails
<1>14. ASSUME NEW s \in Stores, Compressed(s) PROVE Own'
  <2>1. PICK i \in Inodes : NewInode(i) /\ out' = [out EXCEPT ![s] = i]
    BY <1>14 DEF Compressed, CompressorKilled
  <2>2. tmp' = [tmp EXCEPT ![s] = NoInode] /\ names' = names
    BY <1>14 DEF Compressed, CompressorKilled
  <2>3. i # NoInode /\ (\A n \in names : n.inode # i) /\ (\A r \in Stores : tmp[r] # i /\ out[r] # i)
    BY <2>1, NewInodeFacts
  <2>4. \A n \in names : n.inode # NoInode
    BY StoresAssumption DEF TypeOK, NoInode
  <2> QED
    BY <2>1, <2>2, <2>3, <2>4 DEF TypeOK
<1>15. ASSUME NEW s \in Stores, CompressFails(s) PROVE Own'
  <2>1. tmp' = [tmp EXCEPT ![s] = NoInode] /\ UNCHANGED <<out, names>>
    BY <1>15 DEF Abort, CompressFails, LinksDone
  <2>2. \A n \in names : n.inode # NoInode
    BY StoresAssumption DEF TypeOK, NoInode
  <2> QED
    BY <2>1, <2>2 DEF TypeOK
<1>16. ASSUME NEW s \in Stores, CompressorKilled(s) PROVE Own'
  <2>1. PICK i \in Inodes : NewInode(i) /\ out' = [out EXCEPT ![s] = i]
    BY <1>16 DEF Compressed, CompressorKilled
  <2>2. tmp' = [tmp EXCEPT ![s] = NoInode] /\ names' = names
    BY <1>16 DEF Compressed, CompressorKilled
  <2>3. i # NoInode /\ (\A n \in names : n.inode # i) /\ (\A r \in Stores : tmp[r] # i /\ out[r] # i)
    BY <2>1, NewInodeFacts
  <2>4. \A n \in names : n.inode # NoInode
    BY StoresAssumption DEF TypeOK, NoInode
  <2> QED
    BY <2>1, <2>2, <2>3, <2>4 DEF TypeOK
<1>17. ASSUME NEW s \in Stores, TakeOutput(s) PROVE Own'
  <2>1. /\ tmp' = [tmp EXCEPT ![s] = out[s]] /\ out' = [out EXCEPT ![s] = NoInode]
        /\ names' = names
    BY <1>17 DEF TakeOutput
  <2>2. \A n \in names : n.inode # NoInode
    BY StoresAssumption DEF TypeOK, NoInode
  <2> QED
    BY <2>1, <2>2 DEF TypeOK
<1>18. ASSUME NEW s \in Stores, OutputLost(s) PROVE Own'
  BY <1>18 DEF OutputLost
<1>19. ASSUME NEW s \in Stores, MakeDirList(s) PROVE Own'
  BY <1>19 DEF MakeDirList
<1>20. ASSUME NEW s \in Stores, DirListFails(s) PROVE Own'
  BY <1>20 DEF DirListFails
<1>21. ASSUME NEW s \in Stores, Link(s) PROVE Own'
  <2> DEFINE n == SaveName(s, Head(toLink[s]))
  <2>1. n.inode = tmp[s] /\ n.of = s
    BY DEF SaveName
  <2>2. names' = names \/ names' = names \cup {n}
    BY <1>21 DEF Link
  <2>3. tmp' = tmp /\ out' = out /\ tmp[s] # NoInode
    BY <1>21 DEF Link, TypeOK
  <2> HIDE DEF n
  <2> QED
    BY <2>1, <2>2, <2>3
<1>22. ASSUME NEW s \in Stores, LinksDone(s) PROVE Own'
  <2>1. tmp' = [tmp EXCEPT ![s] = NoInode] /\ UNCHANGED <<out, names>>
    BY <1>22 DEF Abort, CompressFails, LinksDone
  <2>2. \A n \in names : n.inode # NoInode
    BY StoresAssumption DEF TypeOK, NoInode
  <2> QED
    BY <2>1, <2>2 DEF TypeOK
<1>23. CASE ProcessExits
  BY <1>23 DEF ProcessExits
<1>24. CASE ReaderRemoves
  BY <1>24 DEF ReaderRemoves
<1>25. CASE UNCHANGED vars
  BY <1>25 DEF vars
<1> QED
  BY <1>1, <1>2, <1>3, <1>4, <1>5, <1>6, <1>7, <1>8, <1>9, <1>10, <1>11,
     <1>12, <1>13, <1>14, <1>15, <1>16, <1>17, <1>18, <1>19, <1>20, <1>21,
     <1>22, <1>23, <1>24, <1>25, StepCases


LEMMA NamesStep ==
  ASSUME TypeOK, Lists, Links, Names, [Next]_vars
  PROVE  Names'
<1> USE DEF Names, Goto, fileVars, localVars, historyVars
<1>1. ASSUME NEW s \in Stores, Open(s) PROVE Names'
  BY <1>1 DEF Open
<1>2. ASSUME NEW s \in Stores, Stat(s) PROVE Names'
  BY <1>2 DEF Stat
<1>3. ASSUME NEW s \in Stores, Mkdir(s) PROVE Names'
  BY <1>3 DEF Mkdir
<1>4. ASSUME NEW s \in Stores, Mkstemp(s) PROVE Names'
  BY <1>4 DEF Mkstemp
<1>5. ASSUME NEW s \in Stores, MkstempFails(s) PROVE Names'
  BY <1>5 DEF MkstempFails
<1>6. ASSUME NEW s \in Stores, WriteHeader(s) PROVE Names'
  BY <1>6 DEF WriteHeader
<1>7. ASSUME NEW s \in Stores, WriteBody(s) PROVE Names'
  BY <1>7 DEF WriteBody
<1>8. ASSUME NEW s \in Stores, WriteFails(s) PROVE Names'
  BY <1>8 DEF WriteFails
<1>9. ASSUME NEW s \in Stores, Aborted(s) PROVE Names'
  BY <1>9 DEF Aborted
<1>10. ASSUME NEW s \in Stores, Abort(s) PROVE Names'
  BY <1>10 DEF Abort
<1>11. ASSUME NEW s \in Stores, Close(s) PROVE Names'
  BY <1>11 DEF Close
<1>12. ASSUME NEW s \in Stores, Fork(s) PROVE Names'
  BY <1>12 DEF Fork
<1>13. ASSUME NEW s \in Stores, ForkFails(s) PROVE Names'
  BY <1>13 DEF ForkFails
<1>14. ASSUME NEW s \in Stores, Compressed(s) PROVE Names'
  BY <1>14 DEF Compressed
<1>15. ASSUME NEW s \in Stores, CompressFails(s) PROVE Names'
  BY <1>15 DEF CompressFails
<1>16. ASSUME NEW s \in Stores, CompressorKilled(s) PROVE Names'
  BY <1>16 DEF CompressorKilled
<1>17. ASSUME NEW s \in Stores, TakeOutput(s) PROVE Names'
  BY <1>17 DEF TakeOutput
<1>18. ASSUME NEW s \in Stores, OutputLost(s) PROVE Names'
  BY <1>18 DEF OutputLost
<1>19. ASSUME NEW s \in Stores, MakeDirList(s) PROVE Names'
  <2>1. pc[s] = "list" /\ pc' = [pc EXCEPT ![s] = "dirs"] /\ names' = names /\ module' = module
    BY <1>19 DEF MakeDirList
  <2>2. \A n \in names : n.of # s
    BY <2>1
  <2>3. \A n \in names : pc'[n.of] = pc[n.of] /\ toLink'[n.of] = toLink[n.of]
    BY <1>19, <2>1, <2>2 DEF MakeDirList, TypeOK, Lists
  <2> QED
    BY <2>1, <2>3
<1>20. ASSUME NEW s \in Stores, DirListFails(s) PROVE Names'
  BY <1>20 DEF DirListFails
<1>21. ASSUME NEW s \in Stores, Link(s) PROVE Names'
  <2> DEFINE n == SaveName(s, Head(toLink[s]))
  <2>1. /\ n.of = s /\ n.number = n.inode /\ n.suffix = module[s]
        /\ n.folder = Head(toLink[s])
    BY DEF SaveName
  <2>2. names' = names \/ names' = names \cup {n}
    BY <1>21 DEF Link
  <2>3. /\ pc[s] = "dirs" /\ pc' = pc /\ module' = module
        /\ toLink' = [toLink EXCEPT ![s] = Tail(toLink[s])] /\ toLink[s] # <<>>
    BY <1>21 DEF Link
  <2>4. /\ Range(toLink[s]) = {Head(toLink[s])} \cup Range(Tail(toLink[s]))
        /\ Head(toLink[s]) \notin Range(Tail(toLink[s]))
        /\ Range(toLink[s]) \subseteq Range(Wanted[s])
    BY <2>3, ToLinkFacts DEF Links
  <2>5. \A r \in Stores : toLink'[r] = IF r = s THEN Tail(toLink[s]) ELSE toLink[r]
    BY <2>3 DEF Lists
  <2> HIDE DEF n
  <2>6. \A m \in names : pc[m.of] = "dirs" => m.folder \notin Range(toLink'[m.of])
    BY <2>4, <2>5
  <2>7. /\ n.folder \in Range(Wanted[s])
        /\ n.folder \notin Range(toLink'[s])
    BY <2>1, <2>4, <2>5
  <2> QED
    BY <2>1, <2>2, <2>3, <2>6, <2>7
<1>22. ASSUME NEW s \in Stores, LinksDone(s) PROVE Names'
  BY <1>22 DEF LinksDone
<1>23. CASE ProcessExits
  BY <1>23 DEF ProcessExits
<1>24. CASE ReaderRemoves
  BY <1>24 DEF ReaderRemoves
<1>25. CASE UNCHANGED vars
  BY <1>25 DEF vars
<1> QED
  BY <1>1, <1>2, <1>3, <1>4, <1>5, <1>6, <1>7, <1>8, <1>9, <1>10, <1>11,
     <1>12, <1>13, <1>14, <1>15, <1>16, <1>17, <1>18, <1>19, <1>20, <1>21,
     <1>22, <1>23, <1>24, <1>25, StepCases


LEMMA LinksStep ==
  ASSUME TypeOK, Lists, Own, Names, Preparing, Links, [Next]_vars
  PROVE  Links'
<1> USE DEF Links, Goto, fileVars, localVars, historyVars
<1>1. ASSUME NEW s \in Stores, Open(s) PROVE Links'
  BY <1>1 DEF Open
<1>2. ASSUME NEW s \in Stores, Stat(s) PROVE Links'
  BY <1>2 DEF Stat
<1>3. ASSUME NEW s \in Stores, Mkdir(s) PROVE Links'
  BY <1>3 DEF Mkdir
<1>4. ASSUME NEW s \in Stores, Mkstemp(s) PROVE Links'
  BY <1>4 DEF Mkstemp
<1>5. ASSUME NEW s \in Stores, MkstempFails(s) PROVE Links'
  BY <1>5 DEF MkstempFails
<1>6. ASSUME NEW s \in Stores, WriteHeader(s) PROVE Links'
  BY <1>6 DEF WriteHeader
<1>7. ASSUME NEW s \in Stores, WriteBody(s) PROVE Links'
  BY <1>7 DEF WriteBody
<1>8. ASSUME NEW s \in Stores, WriteFails(s) PROVE Links'
  BY <1>8 DEF WriteFails
<1>9. ASSUME NEW s \in Stores, Aborted(s) PROVE Links'
  BY <1>9 DEF Aborted
<1>10. ASSUME NEW s \in Stores, Abort(s) PROVE Links'
  BY <1>10 DEF Abort
<1>11. ASSUME NEW s \in Stores, Close(s) PROVE Links'
  BY <1>11 DEF Close
<1>12. ASSUME NEW s \in Stores, Fork(s) PROVE Links'
  BY <1>12 DEF Fork
<1>13. ASSUME NEW s \in Stores, ForkFails(s) PROVE Links'
  BY <1>13 DEF ForkFails
<1>14. ASSUME NEW s \in Stores, Compressed(s) PROVE Links'
  BY <1>14 DEF Compressed
<1>15. ASSUME NEW s \in Stores, CompressFails(s) PROVE Links'
  BY <1>15 DEF CompressFails
<1>16. ASSUME NEW s \in Stores, CompressorKilled(s) PROVE Links'
  BY <1>16 DEF CompressorKilled
<1>17. ASSUME NEW s \in Stores, TakeOutput(s) PROVE Links'
  BY <1>17, SMTT(30) DEF TakeOutput
<1>18. ASSUME NEW s \in Stores, OutputLost(s) PROVE Links'
  BY <1>18 DEF OutputLost
<1>19. ASSUME NEW s \in Stores, MakeDirList(s) PROVE Links'
  <2>1. /\ pc[s] = "list" /\ pc' = [pc EXCEPT ![s] = "dirs"] /\ UNCHANGED <<linked, hurt>>
        /\ toLink' = [toLink EXCEPT ![s] = DirList[s]]
    BY <1>19 DEF MakeDirList
  <2>2. IsInjective(DirList[s]) /\ Range(DirList[s]) = Range(Wanted[s])
    BY DirListFacts
  <2>3. \A r \in Stores :
          /\ toLink'[r] = IF r = s THEN DirList[s] ELSE toLink[r]
          /\ pc'[r] = IF r = s THEN "dirs" ELSE pc[r]
    BY <2>1 DEF TypeOK, Lists
  <2>4. linked[s] = {}
    BY <2>1
  <2> QED
    BY <2>1, <2>2, <2>3, <2>4
<1>20. ASSUME NEW s \in Stores, DirListFails(s) PROVE Links'
  BY <1>20 DEF DirListFails
<1>21. ASSUME NEW s \in Stores, Link(s) PROVE Links'
  <2> DEFINE h == Head(toLink[s])
             n == SaveName(s, h)
  <2>1. /\ pc[s] = "dirs" /\ pc' = pc /\ todo[s] = <<>> /\ toLink[s] # <<>>
        /\ toLink' = [toLink EXCEPT ![s] = Tail(toLink[s])]
    BY <1>21 DEF Link, DirsDone
  <2>2. /\ Range(toLink[s]) = {h} \cup Range(Tail(toLink[s]))
        /\ h \notin Range(Tail(toLink[s])) /\ IsInjective(Tail(toLink[s]))
        /\ Range(toLink[s]) \subseteq Range(Wanted[s])
    BY <2>1, ToLinkFacts
  <2>3. \A r \in Stores : toLink'[r] = IF r = s THEN Tail(toLink[s]) ELSE toLink[r]
    BY <2>1 DEF Lists
  <2>4. s \notin hurt => Linkable(n)
    <3> SUFFICES ASSUME s \notin hurt PROVE Linkable(n)
      OBVIOUS
    <3>1. /\ n.folder = h /\ n.number = tmp[s] /\ tmp[s] # NoInode
      BY <2>1 DEF SaveName, TypeOK
    <3>2. <<h, "new">> \in dirs
      <4>1. Range(todo[s]) = {}
        BY <2>1 DEF Range
      <4> QED
        BY <2>1, <2>2, <4>1 DEF Preparing, Prepared, Covered
    <3>3. ASSUME NEW m \in names, SamePath(n, m) PROVE FALSE
      <4>1. m.inode = tmp[s] /\ m.folder = h
        BY <3>1, <3>3 DEF SamePath, Names
      <4>2. m.of = s
        BY <4>1 DEF Own
      <4>3. m.folder \notin Range(toLink[s])
        BY <4>2, <2>1 DEF Names
      <4> QED
        BY <4>1, <4>3, <2>2
    <3> HIDE DEF n, h
    <3> QED
      BY <3>1, <3>2, <3>3 DEF Linkable
  <2>5. n.folder = h
    BY DEF SaveName
  <2>6. \/ linked' = [linked EXCEPT ![s] = @ \cup {h}] /\ hurt' = hurt
        \/ ~Linkable(n) /\ linked' = linked /\ hurt' = hurt
        \/ linked' = linked /\ hurt' = hurt \cup {s}
    BY <1>21, <2>5 DEF Link
  <2> HIDE DEF n, h
  <2>7. \A r \in Stores : r # s => linked'[r] = linked[r]
    BY <2>6 DEF TypeOK
  <2>8. linked'[s] \subseteq Range(Wanted[s]) /\ linked[s] \subseteq linked'[s]
    BY <2>2, <2>6 DEF TypeOK
  <2>9. s \notin hurt' => h \in linked'[s] /\ s \notin hurt
    BY <2>4, <2>6 DEF TypeOK
  <2>10. \A r \in Stores : r \notin hurt' => r \notin hurt
    BY <2>6
  <2> QED
    BY <2>1, <2>2, <2>3, <2>7, <2>8, <2>9, <2>10, ZenonT(60)
<1>22. ASSUME NEW s \in Stores, LinksDone(s) PROVE Links'
  <2>1. toLink[s] = <<>> /\ pc[s] = "dirs" /\ Range(toLink[s]) = {}
    BY <1>22 DEF LinksDone, Range
  <2> QED
    BY <1>22, <2>1 DEF LinksDone, TypeOK
<1>23. CASE ProcessExits
  BY <1>23 DEF ProcessExits
<1>24. CASE ReaderRemoves
  BY <1>24 DEF ReaderRemoves
<1>25. CASE UNCHANGED vars
  BY <1>25 DEF vars
<1> QED
  BY <1>1, <1>2, <1>3, <1>4, <1>5, <1>6, <1>7, <1>8, <1>9, <1>10, <1>11,
     <1>12, <1>13, <1>14, <1>15, <1>16, <1>17, <1>18, <1>19, <1>20, <1>21,
     <1>22, <1>23, <1>24, <1>25, StepCases


LEMMA PreparingStep ==
  ASSUME TypeOK, Lists, Preparing, [Next]_vars
  PROVE  Preparing'
<1> USE DEF Preparing, Prepared, Goto, fileVars, localVars, historyVars
<1>1. ASSUME NEW s \in Stores, Open(s) PROVE Preparing'
  BY <1>1 DEF Open
<1>2. ASSUME NEW s \in Stores, Stat(s) PROVE Preparing'
  <2>1. PICK k \in 1 .. Len(todo[s]) + 1 :
          /\ todo' = [todo EXCEPT ![s] = Rest(todo[s], k)]
          /\ \A i \in 1 .. k - 1 : todo[s][i] \in dirs
    BY <1>2, StatFacts
  <2>2. UNCHANGED <<dirs, pc, hurt>> /\ todo[s] \in Seq(Paths)
    BY <1>2, ListTypes DEF Stat
  <2>3. \A r \in Stores : r # s => todo'[r] = todo[r]
    BY <2>1 DEF Lists
  <2>4. todo'[s] = Rest(todo[s], k)
    BY <2>1 DEF Lists
  <2>5. ASSUME s \notin hurt, pc[s] = "dirs" PROVE Prepared(s)'
    BY <2>1, <2>2, <2>4, <2>5, RestPrepared
  <2> QED
    BY <2>2, <2>3, <2>5
<1>3. ASSUME NEW s \in Stores, Mkdir(s) PROVE Preparing'
  <2>1. /\ todo[s] \in Seq(Paths) /\ todo[s] # <<>>
        /\ todo' = [todo EXCEPT ![s] = Tail(todo[s])] /\ pc' = pc
        /\ dirs \subseteq dirs' /\ hurt \subseteq hurt'
    BY <1>3, ListTypes DEF Mkdir, TypeOK
  <2>2. /\ Len(todo[s]) \in Nat \ {0} /\ Head(todo[s]) = todo[s][1]
        /\ Tail(todo[s]) = Rest(todo[s], 2)
    BY <2>1, TailFacts DEF Rest
  <2>3. \A r \in Stores : r # s => todo'[r] = todo[r]
    BY <2>1 DEF Lists
  <2>4. ASSUME s \notin hurt', pc[s] = "dirs" PROVE Prepared(s)'
    <3>1. /\ Closed(todo[s], dirs) /\ Covered(Range(Wanted[s]), todo[s], dirs)
      BY <2>1, <2>4
    <3>2. Parent(todo[s][1]) \in dirs
      BY <2>2, <3>1 DEF Closed
    <3>3. todo[s][1] \in dirs'
      BY <1>3, <2>2, <2>4, <3>2 DEF Mkdir, MayCreate
    <3>4. \A i \in 1 .. 2 - 1 : todo[s][i] \in dirs'
      BY <3>3
    <3>5. 2 \in 1 .. Len(todo[s]) + 1
      BY <2>2
    <3>6. todo'[s] = Rest(todo[s], 2)
      BY <2>1, <2>2 DEF Lists
    <3> QED
      BY <2>1, <3>1, <3>4, <3>5, <3>6, RestPrepared
  <2>5. ASSUME NEW r \in Stores, r # s, r \notin hurt', pc[r] = "dirs"
        PROVE  Prepared(r)'
    <3>1. Closed(todo[r], dirs) /\ Covered(Range(Wanted[r]), todo[r], dirs)
      BY <2>1, <2>5
    <3>2. todo'[r] = todo[r]
      BY <2>3, <2>5
    <3> QED
      BY <2>1, <3>1, <3>2 DEF Closed, Covered
  <2> QED
    BY <2>1, <2>4, <2>5
<1>4. ASSUME NEW s \in Stores, Mkstemp(s) PROVE Preparing'
  BY <1>4 DEF Mkstemp
<1>5. ASSUME NEW s \in Stores, MkstempFails(s) PROVE Preparing'
  BY <1>5 DEF MkstempFails
<1>6. ASSUME NEW s \in Stores, WriteHeader(s) PROVE Preparing'
  BY <1>6 DEF WriteHeader
<1>7. ASSUME NEW s \in Stores, WriteBody(s) PROVE Preparing'
  BY <1>7 DEF WriteBody
<1>8. ASSUME NEW s \in Stores, WriteFails(s) PROVE Preparing'
  BY <1>8 DEF WriteFails
<1>9. ASSUME NEW s \in Stores, Aborted(s) PROVE Preparing'
  BY <1>9 DEF Aborted
<1>10. ASSUME NEW s \in Stores, Abort(s) PROVE Preparing'
  BY <1>10 DEF Abort
<1>11. ASSUME NEW s \in Stores, Close(s) PROVE Preparing'
  BY <1>11 DEF Close
<1>12. ASSUME NEW s \in Stores, Fork(s) PROVE Preparing'
  BY <1>12 DEF Fork
<1>13. ASSUME NEW s \in Stores, ForkFails(s) PROVE Preparing'
  BY <1>13 DEF ForkFails
<1>14. ASSUME NEW s \in Stores, Compressed(s) PROVE Preparing'
  BY <1>14 DEF Compressed
<1>15. ASSUME NEW s \in Stores, CompressFails(s) PROVE Preparing'
  BY <1>15 DEF CompressFails
<1>16. ASSUME NEW s \in Stores, CompressorKilled(s) PROVE Preparing'
  BY <1>16 DEF CompressorKilled
<1>17. ASSUME NEW s \in Stores, TakeOutput(s) PROVE Preparing'
  BY <1>17 DEF TakeOutput
<1>18. ASSUME NEW s \in Stores, OutputLost(s) PROVE Preparing'
  BY <1>18 DEF OutputLost
<1>19. ASSUME NEW s \in Stores, MakeDirList(s) PROVE Preparing'
  <2>1. /\ pc' = [pc EXCEPT ![s] = "dirs"] /\ UNCHANGED <<dirs, hurt>>
        /\ todo' = [todo EXCEPT ![s] = DirsOf[s]]
    BY <1>19 DEF MakeDirList
  <2>2. \A r \in Stores : r # s => todo'[r] = todo[r] /\ pc'[r] = pc[r]
    BY <2>1 DEF Lists, TypeOK
  <2>3. todo'[s] = DirsOf[s]
    BY <2>1 DEF Lists
  <2>4. Closed(DirsOf[s], dirs)
    BY DirsOfFacts DEF Orderly, Closed, Lists
  <2>5. Covered(Range(Wanted[s]), DirsOf[s], dirs)
    <3>1. DOMAIN DirsOf[s] = 1 .. Len(DirsOf[s])
      BY DirsOfFacts
    <3> QED
      BY <3>1, DirsOfFacts DEF Covered, Range
  <2> QED
    BY <2>1, <2>2, <2>3, <2>4, <2>5
<1>20. ASSUME NEW s \in Stores, DirListFails(s) PROVE Preparing'
  BY <1>20 DEF DirListFails
<1>21. ASSUME NEW s \in Stores, Link(s) PROVE Preparing'
  BY <1>21 DEF Link
<1>22. ASSUME NEW s \in Stores, LinksDone(s) PROVE Preparing'
  BY <1>22 DEF LinksDone
<1>23. CASE ProcessExits
  BY <1>23 DEF ProcessExits
<1>24. CASE ReaderRemoves
  BY <1>24 DEF ReaderRemoves
<1>25. CASE UNCHANGED vars
  BY <1>25 DEF vars
<1> QED
  BY <1>1, <1>2, <1>3, <1>4, <1>5, <1>6, <1>7, <1>8, <1>9, <1>10, <1>11,
     <1>12, <1>13, <1>14, <1>15, <1>16, <1>17, <1>18, <1>19, <1>20, <1>21,
     <1>22, <1>23, <1>24, <1>25, StepCases


-----------------------------------------------------------------------------
(* What is written                                                         *)

(* The file of s alone is written to, and how.                             *)
LEMMA OneWritten ==
  ASSUME "shortWrite" \notin Faults, WrittenOK, NEW s \in Stores,
         WriteHeader(s) \/ WriteBody(s) \/ Close(s) \/ TakeOutput(s)
  PROVE  /\ WrittenOK'
         /\ \A r \in Stores : r # s => written'[r] = written[r]
         /\ WriteHeader(s) =>
              /\ written'[s].header = HeaderLen
              /\ written'[s].packed = written[s].packed
         /\ WriteBody(s) =>
              /\ written'[s].header = written[s].header
              /\ written'[s].body \in {"held", "whole"}
              /\ written'[s].packed = written[s].packed
         /\ Close(s) =>
              /\ written'[s].header = written[s].header
              /\ written'[s].body \in LastCR(written[s].body)
              /\ written'[s].packed = written[s].packed
         /\ TakeOutput(s) =>
              /\ written'[s].header = written[s].header
              /\ written'[s].body = written[s].body /\ written'[s].packed = TRUE
<1>1. ASSUME NEW w \in [header : {0, HeaderLen}, body : BodyStates, packed : BOOLEAN],
             written' = [written EXCEPT ![s] = w]
      PROVE  WrittenOK' /\ written'[s] = w /\ \A r \in Stores : r # s => written'[r] = written[r]
  BY <1>1 DEF WrittenOK
<1>2. written[s] \in [header : {0, HeaderLen}, body : BodyStates, packed : BOOLEAN]
  BY DEF WrittenOK
<1>3. CASE WriteHeader(s)
  <2>1. pc[s] = "header" /\ pc' = [pc EXCEPT ![s] = "body"]
    BY <1>3 DEF WriteHeader, Goto
  <2>2. written' = [written EXCEPT ![s].header = HeaderLen]
    BY <1>3, WrittenFacts DEF WriteHeader
  <2>3. ~WriteBody(s) /\ ~Close(s) /\ ~TakeOutput(s)
    BY <2>1 DEF WriteBody, Close, TakeOutput
  <2>4. [written[s] EXCEPT !.header = HeaderLen] \in
          [header : {0, HeaderLen}, body : BodyStates, packed : BOOLEAN]
    BY <1>2
  <2> QED
    BY <1>1, <1>2, <2>2, <2>3, <2>4
<1>4. CASE WriteBody(s)
  <2>1. PICK b \in {"whole", "held"} : written' = [written EXCEPT ![s].body = b]
    BY <1>4 DEF WriteBody
  <2>2. ~WriteHeader(s) /\ ~Close(s) /\ ~TakeOutput(s)
    BY <1>4 DEF WriteHeader, WriteBody, Close, TakeOutput
  <2>3. [written[s] EXCEPT !.body = b] \in
          [header : {0, HeaderLen}, body : BodyStates, packed : BOOLEAN]
    BY <1>2 DEF BodyStates
  <2> DEFINE w == [written[s] EXCEPT !.body = b]
  <2>4. /\ w.header = written[s].header /\ w.body = b
        /\ w.packed = written[s].packed
    BY <1>2
  <2>5. written' = [written EXCEPT ![s] = w]
    BY <2>1
  <2> HIDE DEF w
  <2>6. WrittenOK' /\ written'[s] = w /\ \A r \in Stores : r # s => written'[r] = written[r]
    BY <1>1, <2>3, <2>5 DEF w
  <2> QED
    BY <2>1, <2>2, <2>4, <2>6
<1>5. CASE TakeOutput(s)
  <2>1. pc[s] = "output" /\ written' = [written EXCEPT ![s].packed = TRUE]
    BY <1>5 DEF TakeOutput
  <2>2. ~WriteHeader(s) /\ ~WriteBody(s) /\ ~Close(s)
    BY <2>1 DEF WriteHeader, WriteBody, Close
  <2>3. [written[s] EXCEPT !.packed = TRUE] \in
          [header : {0, HeaderLen}, body : BodyStates, packed : BOOLEAN]
    BY <1>2
  <2> QED
    BY <1>1, <1>2, <2>1, <2>2, <2>3, ZenonT(60)
<1>6. CASE Close(s)
  <2>1. PICK b \in LastCR(written[s].body) : written' = [written EXCEPT ![s].body = b]
    BY <1>6 DEF Close
  <2>2. ~WriteHeader(s) /\ ~WriteBody(s) /\ ~TakeOutput(s)
    BY <1>6 DEF WriteHeader, WriteBody, Close, TakeOutput
  <2>3. b \in BodyStates
    BY <1>2, <2>1 DEF LastCR, BodyStates
  <2>4. [written[s] EXCEPT !.body = b] \in
          [header : {0, HeaderLen}, body : BodyStates, packed : BOOLEAN]
    BY <1>2, <2>3
  <2> DEFINE w == [written[s] EXCEPT !.body = b]
  <2>5. /\ w.header = written[s].header /\ w.body = b
        /\ w.packed = written[s].packed
    BY <1>2
  <2>6. written' = [written EXCEPT ![s] = w]
    BY <2>1
  <2> HIDE DEF w
  <2>7. WrittenOK' /\ written'[s] = w /\ \A r \in Stores : r # s => written'[r] = written[r]
    BY <1>1, <2>4, <2>6 DEF w
  <2> QED
    BY <2>1, <2>2, <2>5, <2>7
<1> QED
  BY <1>3, <1>4, <1>5, <1>6

LEMMA WrittenStep ==
  ASSUME "shortWrite" \notin Faults, WrittenOK, [Next]_vars
  PROVE  WrittenOK'
<1> USE DEF WrittenOK, fileVars, localVars, historyVars
<1>1. ASSUME NEW s \in Stores, Open(s) PROVE WrittenOK'
  BY <1>1 DEF Open
<1>2. ASSUME NEW s \in Stores, Stat(s) PROVE WrittenOK'
  BY <1>2 DEF Stat
<1>3. ASSUME NEW s \in Stores, Mkdir(s) PROVE WrittenOK'
  BY <1>3 DEF Mkdir
<1>4. ASSUME NEW s \in Stores, Mkstemp(s) PROVE WrittenOK'
  BY <1>4 DEF Mkstemp
<1>5. ASSUME NEW s \in Stores, MkstempFails(s) PROVE WrittenOK'
  BY <1>5 DEF MkstempFails
<1>6. ASSUME NEW s \in Stores, WriteHeader(s) PROVE WrittenOK'
  BY <1>6, OneWritten
<1>7. ASSUME NEW s \in Stores, WriteBody(s) PROVE WrittenOK'
  BY <1>7, OneWritten
<1>8. ASSUME NEW s \in Stores, WriteFails(s) PROVE WrittenOK'
  BY <1>8 DEF WriteFails
<1>9. ASSUME NEW s \in Stores, Aborted(s) PROVE WrittenOK'
  BY <1>9 DEF Aborted
<1>10. ASSUME NEW s \in Stores, Abort(s) PROVE WrittenOK'
  BY <1>10 DEF Abort
<1>11. ASSUME NEW s \in Stores, Close(s) PROVE WrittenOK'
  BY <1>11, OneWritten
<1>12. ASSUME NEW s \in Stores, Fork(s) PROVE WrittenOK'
  BY <1>12 DEF Fork
<1>13. ASSUME NEW s \in Stores, ForkFails(s) PROVE WrittenOK'
  BY <1>13 DEF ForkFails
<1>14. ASSUME NEW s \in Stores, Compressed(s) PROVE WrittenOK'
  BY <1>14 DEF Compressed
<1>15. ASSUME NEW s \in Stores, CompressFails(s) PROVE WrittenOK'
  BY <1>15 DEF CompressFails
<1>16. ASSUME NEW s \in Stores, CompressorKilled(s) PROVE WrittenOK'
  BY <1>16 DEF CompressorKilled
<1>17. ASSUME NEW s \in Stores, TakeOutput(s) PROVE WrittenOK'
  BY <1>17, OneWritten
<1>18. ASSUME NEW s \in Stores, OutputLost(s) PROVE WrittenOK'
  BY <1>18 DEF OutputLost
<1>19. ASSUME NEW s \in Stores, MakeDirList(s) PROVE WrittenOK'
  BY <1>19 DEF MakeDirList
<1>20. ASSUME NEW s \in Stores, DirListFails(s) PROVE WrittenOK'
  BY <1>20 DEF DirListFails
<1>21. ASSUME NEW s \in Stores, Link(s) PROVE WrittenOK'
  BY <1>21 DEF Link
<1>22. ASSUME NEW s \in Stores, LinksDone(s) PROVE WrittenOK'
  BY <1>22 DEF LinksDone
<1>23. CASE ProcessExits
  BY <1>23 DEF ProcessExits
<1>24. CASE ReaderRemoves
  BY <1>24 DEF ReaderRemoves
<1>25. CASE UNCHANGED vars
  BY <1>25 DEF vars
<1> QED
  BY <1>1, <1>2, <1>3, <1>4, <1>5, <1>6, <1>7, <1>8, <1>9, <1>10, <1>11,
     <1>12, <1>13, <1>14, <1>15, <1>16, <1>17, <1>18, <1>19, <1>20, <1>21,
     <1>22, <1>23, <1>24, <1>25, StepCases


LEMMA ProgressStep ==
  ASSUME "shortWrite" \notin Faults, TypeOK, Lists, WrittenOK, Progress, [Next]_vars
  PROVE  Progress'
<1> USE DEF TypeOK, Progress, Goto, fileVars, localVars, historyVars
<1>1. ASSUME NEW s \in Stores, Open(s) PROVE Progress'
  BY <1>1 DEF Open
<1>2. ASSUME NEW s \in Stores, Stat(s) PROVE Progress'
  BY <1>2 DEF Stat
<1>3. ASSUME NEW s \in Stores, Mkdir(s) PROVE Progress'
  BY <1>3 DEF Mkdir
<1>4. ASSUME NEW s \in Stores, Mkstemp(s) PROVE Progress'
  BY <1>4 DEF Mkstemp
<1>5. ASSUME NEW s \in Stores, MkstempFails(s) PROVE Progress'
  BY <1>5 DEF MkstempFails
<1>6. ASSUME NEW s \in Stores, WriteHeader(s) PROVE Progress'
  <2>1. pc[s] = "header" /\ pc' = [pc EXCEPT ![s] = "body"] /\ module' = module
    BY <1>6 DEF WriteHeader
  <2>2. /\ \A r \in Stores : r # s => pc'[r] = pc[r] /\ written'[r] = written[r]
        /\ pc'[s] = "body"
    BY <1>6, <2>1, OneWritten, ZenonT(40)
  <2>3. written'[s].header = HeaderLen /\ written'[s].packed = FALSE
    BY <1>6, <2>1, OneWritten
  <2> QED
    BY <2>1, <2>2, <2>3 DEF Complete
<1>7. ASSUME NEW s \in Stores, WriteBody(s) PROVE Progress'
  <2>1. pc[s] = "body" /\ pc' = [pc EXCEPT ![s] = "close"] /\ module' = module
    BY <1>7 DEF WriteBody
  <2>2. /\ \A r \in Stores : r # s => pc'[r] = pc[r] /\ written'[r] = written[r]
        /\ pc'[s] = "close"
    BY <1>7, <2>1, OneWritten, ZenonT(40)
  <2>3. /\ written'[s].header = HeaderLen /\ written'[s].body \in {"held", "whole"}
        /\ written'[s].packed = FALSE
    BY <1>7, <2>1, OneWritten, ZenonT(40)
  <2> QED
    BY <2>1, <2>2, <2>3 DEF Complete
<1>8. ASSUME NEW s \in Stores, WriteFails(s) PROVE Progress'
  BY <1>8 DEF WriteFails
<1>9. ASSUME NEW s \in Stores, Aborted(s) PROVE Progress'
  BY <1>9 DEF Aborted
<1>10. ASSUME NEW s \in Stores, Abort(s) PROVE Progress'
  BY <1>10 DEF Abort
<1>11. ASSUME NEW s \in Stores, Close(s) PROVE Progress'
  <2> DEFINE l == IF module[s] = "maildrop" THEN "list" ELSE "fork"
  <2>1. pc[s] = "close" /\ pc' = [pc EXCEPT ![s] = l] /\ module' = module
    BY <1>11 DEF Close
  <2>2. /\ \A r \in Stores : r # s => pc'[r] = pc[r] /\ written'[r] = written[r]
        /\ pc'[s] = l
    BY <1>11, <2>1, OneWritten, ZenonT(40)
  <2>3. /\ written'[s].header = HeaderLen /\ written'[s].packed = FALSE
        /\ written'[s].body \in LastCR(written[s].body)
        /\ written[s].body \in {"held", "whole"}
    BY <1>11, <2>1, OneWritten, ZenonT(40)
  <2>4. WholeBody(written'[s].body)
    BY <2>3 DEF LastCR, WholeBody
  <2> QED
    BY <2>1, <2>2, <2>3, <2>4 DEF Complete
<1>12. ASSUME NEW s \in Stores, Fork(s) PROVE Progress'
  BY <1>12 DEF Fork
<1>13. ASSUME NEW s \in Stores, ForkFails(s) PROVE Progress'
  BY <1>13 DEF ForkFails
<1>14. ASSUME NEW s \in Stores, Compressed(s) PROVE Progress'
  BY <1>14 DEF Compressed
<1>15. ASSUME NEW s \in Stores, CompressFails(s) PROVE Progress'
  BY <1>15 DEF CompressFails
<1>16. ASSUME NEW s \in Stores, CompressorKilled(s) PROVE Progress'
  BY <1>16 DEF CompressorKilled
<1>17. ASSUME NEW s \in Stores, TakeOutput(s) PROVE Progress'
  <2>1. pc[s] = "output" /\ pc' = [pc EXCEPT ![s] = "list"] /\ module' = module
    BY <1>17 DEF TakeOutput
  <2>2. /\ \A r \in Stores : r # s => pc'[r] = pc[r] /\ written'[r] = written[r]
        /\ pc'[s] = "list"
    BY <1>17, <2>1, OneWritten, ZenonT(40)
  <2>3. /\ written'[s].header = HeaderLen /\ WholeBody(written'[s].body)
        /\ written'[s].packed = TRUE /\ module[s] # "maildrop"
    BY <1>17, <2>1, OneWritten
  <2> QED
    BY <2>1, <2>2, <2>3 DEF Complete
<1>18. ASSUME NEW s \in Stores, OutputLost(s) PROVE Progress'
  BY <1>18 DEF OutputLost
<1>19. ASSUME NEW s \in Stores, MakeDirList(s) PROVE Progress'
  BY <1>19 DEF MakeDirList
<1>20. ASSUME NEW s \in Stores, DirListFails(s) PROVE Progress'
  BY <1>20 DEF DirListFails
<1>21. ASSUME NEW s \in Stores, Link(s) PROVE Progress'
  BY <1>21 DEF Link
<1>22. ASSUME NEW s \in Stores, LinksDone(s) PROVE Progress'
  BY <1>22 DEF LinksDone
<1>23. CASE ProcessExits
  BY <1>23 DEF ProcessExits
<1>24. CASE ReaderRemoves
  BY <1>24 DEF ReaderRemoves
<1>25. CASE UNCHANGED vars
  BY <1>25 DEF vars
<1> QED
  BY <1>1, <1>2, <1>3, <1>4, <1>5, <1>6, <1>7, <1>8, <1>9, <1>10, <1>11,
     <1>12, <1>13, <1>14, <1>15, <1>16, <1>17, <1>18, <1>19, <1>20, <1>21,
     <1>22, <1>23, <1>24, <1>25, StepCases


LEMMA NamesCompleteStep ==
  ASSUME "shortWrite" \notin Faults, TypeOK, Lists, Names, WrittenOK, Progress, NamesComplete, [Next]_vars
  PROVE  NamesComplete'
<1> USE DEF NamesComplete, fileVars, localVars, historyVars
<1>1. ASSUME NEW s \in Stores, Open(s) PROVE NamesComplete'
  BY <1>1 DEF Open
<1>2. ASSUME NEW s \in Stores, Stat(s) PROVE NamesComplete'
  BY <1>2 DEF Stat
<1>3. ASSUME NEW s \in Stores, Mkdir(s) PROVE NamesComplete'
  BY <1>3 DEF Mkdir
<1>4. ASSUME NEW s \in Stores, Mkstemp(s) PROVE NamesComplete'
  BY <1>4 DEF Mkstemp
<1>5. ASSUME NEW s \in Stores, MkstempFails(s) PROVE NamesComplete'
  BY <1>5 DEF MkstempFails
<1>6. ASSUME NEW s \in Stores, WriteHeader(s) PROVE NamesComplete'
  <2>1. names' = names /\ pc[s] \in {"header", "body", "output"}
    BY <1>6 DEF WriteHeader, WriteBody, TakeOutput
  <2>2. \A n \in names : n.of \in Stores /\ n.of # s
    BY <2>1 DEF Names
  <2> QED
    BY <1>6, <2>1, <2>2, OneWritten
<1>7. ASSUME NEW s \in Stores, WriteBody(s) PROVE NamesComplete'
  <2>1. names' = names /\ pc[s] \in {"header", "body", "output"}
    BY <1>7 DEF WriteHeader, WriteBody, TakeOutput
  <2>2. \A n \in names : n.of \in Stores /\ n.of # s
    BY <2>1 DEF Names
  <2> QED
    BY <1>7, <2>1, <2>2, OneWritten
<1>8. ASSUME NEW s \in Stores, WriteFails(s) PROVE NamesComplete'
  BY <1>8 DEF WriteFails
<1>9. ASSUME NEW s \in Stores, Aborted(s) PROVE NamesComplete'
  BY <1>9 DEF Aborted
<1>10. ASSUME NEW s \in Stores, Abort(s) PROVE NamesComplete'
  BY <1>10 DEF Abort
<1>11. ASSUME NEW s \in Stores, Close(s) PROVE NamesComplete'
  <2>1. names' = names /\ pc[s] = "close"
    BY <1>11 DEF Close
  <2>2. \A n \in names : n.of \in Stores /\ n.of # s
    BY <2>1 DEF Names
  <2> QED
    BY <1>11, <2>1, <2>2, OneWritten
<1>12. ASSUME NEW s \in Stores, Fork(s) PROVE NamesComplete'
  BY <1>12 DEF Fork
<1>13. ASSUME NEW s \in Stores, ForkFails(s) PROVE NamesComplete'
  BY <1>13 DEF ForkFails
<1>14. ASSUME NEW s \in Stores, Compressed(s) PROVE NamesComplete'
  BY <1>14 DEF Compressed
<1>15. ASSUME NEW s \in Stores, CompressFails(s) PROVE NamesComplete'
  BY <1>15 DEF CompressFails
<1>16. ASSUME NEW s \in Stores, CompressorKilled(s) PROVE NamesComplete'
  BY <1>16 DEF CompressorKilled
<1>17. ASSUME NEW s \in Stores, TakeOutput(s) PROVE NamesComplete'
  <2>1. names' = names /\ pc[s] \in {"header", "body", "output"}
    BY <1>17 DEF WriteHeader, WriteBody, TakeOutput
  <2>2. \A n \in names : n.of \in Stores /\ n.of # s
    BY <2>1 DEF Names
  <2> QED
    BY <1>17, <2>1, <2>2, OneWritten
<1>18. ASSUME NEW s \in Stores, OutputLost(s) PROVE NamesComplete'
  BY <1>18 DEF OutputLost
<1>19. ASSUME NEW s \in Stores, MakeDirList(s) PROVE NamesComplete'
  BY <1>19 DEF MakeDirList
<1>20. ASSUME NEW s \in Stores, DirListFails(s) PROVE NamesComplete'
  BY <1>20 DEF DirListFails
<1>21. ASSUME NEW s \in Stores, Link(s) PROVE NamesComplete'
  <2> DEFINE n == SaveName(s, Head(toLink[s]))
  <2>1. n.of = s /\ n.suffix = module[s]
    BY DEF SaveName
  <2>2. (names' = names \/ names' = names \cup {n}) /\ written' = written /\ pc[s] = "dirs"
    BY <1>21 DEF Link
  <2> HIDE DEF n
  <2> QED
    BY <2>1, <2>2 DEF Progress
<1>22. ASSUME NEW s \in Stores, LinksDone(s) PROVE NamesComplete'
  BY <1>22 DEF LinksDone
<1>23. CASE ProcessExits
  BY <1>23 DEF ProcessExits
<1>24. CASE ReaderRemoves
  BY <1>24 DEF ReaderRemoves
<1>25. CASE UNCHANGED vars
  BY <1>25 DEF vars
<1> QED
  BY <1>1, <1>2, <1>3, <1>4, <1>5, <1>6, <1>7, <1>8, <1>9, <1>10, <1>11,
     <1>12, <1>13, <1>14, <1>15, <1>16, <1>17, <1>18, <1>19, <1>20, <1>21,
     <1>22, <1>23, <1>24, <1>25, StepCases


-----------------------------------------------------------------------------
(* The theorems                                                            *)

LEMMA InvInit == Init => Inv
<1> SUFFICES ASSUME Init PROVE Inv
  OBVIOUS
<1> USE DEF Init
<1>1. module \in [Stores -> Modules]
  BY StoresAssumption DEF Modules
<1>2. TypeOK
  BY DEF TypeOK, Labels, Ended
<1>3. Lists
  <2>1. <<>> \in Seq(Paths) /\ <<>> \in Seq(Folders)
    BY EmptySeq
  <2>2. todo \in [Stores -> Seq(Paths)] /\ toLink \in [Stores -> Seq(Folders)]
    BY <2>1
  <2> QED
    BY <1>1, <2>2 DEF Lists
<1>4. Temporaries /\ Own /\ Names /\ Preparing
  BY DEF Temporaries, Own, Names, Preparing
<1>5. Links
  BY DEF Links
<1> QED
  BY <1>2, <1>3, <1>4, <1>5 DEF Inv

LEMMA InvStep == Inv /\ [Next]_vars => Inv'
BY TypeStep, ListsStep, TemporariesStep, OwnStep, NamesStep, LinksStep,
   PreparingStep DEF Inv

LEMMA Invariance == Spec => []Inv
BY InvInit, InvStep, PTL DEF Spec

(* Types; a store has a temporary file whenever a step uses it.            *)
THEOREM TypeCorrect == Spec => []TypeOK
<1>1. Inv => TypeOK
  BY DEF Inv
<1> QED
  BY Invariance, <1>1, PTL

(* A message reported as kept is in the folder of every archived address,  *)
(* however many stores make the same directories at the same time, however *)
(* deep the folders are, whichever stores fail or are cut off half-way:    *)
(* only a mkdir or link of its own that was refused takes a folder away.   *)
THEOREM EverywhereKept == Spec => []KeptEverywhere
<1>1. Inv => KeptEverywhere
  BY DEF Inv, Links, KeptEverywhere
<1> QED
  BY Invariance, <1>1, PTL

(* A message the module reports as failed is in no folder.                 *)
THEOREM ErrorAbsent == Spec => []ErrorMeansAbsent
<1>1. Inv => ErrorMeansAbsent
  BY DEF Inv, Links, ErrorMeansAbsent
<1> QED
  BY Invariance, <1>1, PTL

(* No temporary file outlives its message but a lost output.               *)
THEOREM EndClean == Spec => []CleanEnd
<1>1. Inv => CleanEnd
  BY DEF Inv, Temporaries, CleanEnd
<1> QED
  BY Invariance, <1>1, PTL

(* Where no write is short, every name in a folder leads to a complete     *)
(* message, also after the process has ended in the middle of one; where   *)
(* writes fail, a last CR may be missing, and nothing else.                *)
THEOREM OnlyWhole ==
  "shortWrite" \notin Faults => (Spec => []FoldersHoldWhole)
<1> SUFFICES ASSUME "shortWrite" \notin Faults
             PROVE  Spec => []FoldersHoldWhole
  OBVIOUS
<1> DEFINE WholeInv == WrittenOK /\ Progress /\ NamesComplete
<1>1. Init => WholeInv
  <2> SUFFICES ASSUME Init PROVE WholeInv
    OBVIOUS
  <2>1. \A s \in Stores : written[s] = Nothing /\ pc[s] = "idle"
    BY DEF Init
  <2>2. WrittenOK
    BY DEF Init, WrittenOK, Nothing, BodyStates
  <2>3. NamesComplete
    BY DEF Init, NamesComplete
  <2> QED
    BY <2>1, <2>2, <2>3 DEF Progress, Nothing
<1>2. Inv /\ WholeInv /\ [Next]_vars => WholeInv'
  BY WrittenStep, ProgressStep, NamesCompleteStep DEF Inv
<1>3. Inv /\ WholeInv => FoldersHoldWhole
  <2> SUFFICES ASSUME Inv, WholeInv, NEW n \in names
               PROVE  LET w == written[n.of] IN
                        /\ w.header = HeaderLen /\ WholeBody(w.body)
                        /\ w.packed <=> n.suffix # "maildrop"
                        /\ n.folder \in Range(Wanted[n.of])
    BY DEF FoldersHoldWhole
  <2>1. Complete(written[n.of], n.suffix) /\ n.folder \in Range(Wanted[n.of])
    BY DEF Inv, Names, NamesComplete
  <2> QED
    BY <2>1 DEF Complete
<1> QED
  BY Invariance, <1>1, <1>2, <1>3, PTL DEF Spec
==============================================================================
