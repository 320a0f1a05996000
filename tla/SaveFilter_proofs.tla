-------------------------- MODULE SaveFilter_proofs --------------------------
(***************************************************************************)
(* Proofs about SaveFilter, for every set of messages, settings, contents  *)
(* of the LDAP directory and number of recipients.                         *)
(***************************************************************************)
EXTENDS SaveFilter, SequenceLemmas

-----------------------------------------------------------------------------
(* The inductive invariant.                                                *)

(* q are the nodes of the list that begins at h, with the links nx.        *)
List(nx, q, h) ==
  /\ q \in Seq(Nodes) /\ IsInjective(q)
  /\ h = IF q = <<>> THEN NULL ELSE q[1]
  /\ \A i \in 1 .. Len(q) : nx[q[i]] = IF i = Len(q) THEN NULL ELSE q[i + 1]

Ends(q, t) == q # <<>> => t = q[Len(q)]

(* Judged to be kept; left to the LDAP server, which knows it or not.      *)
Direct(n) == InMyDomain(Address(n)) /\ Listed(Address(n))
Asked(n) == InMyDomain(Address(n)) /\ ~Listed(Address(n)) /\ cfg.ldapcheck
Known(n) == Address(n) \in directory

(* Where the save list begins, and the one with the addresses LDAP has not *)
(* said anything of or with the nodes still to be freed.                   *)
SaveHead ==
  IF pc \in {"judge", "ldap", "search", "saved", "freeLdap"} THEN save_h ELSE NULL
OtherHead ==
  IF pc \in {"judge", "ldap"} THEN ldap_h
  ELSE IF pc \in {"search", "freeLdap", "freeSave", "cleanup"} THEN cursor
  ELSE NULL

(* S and R are the lists that begin at h and k; they share no node, and    *)
(* no other node is in use.                                                *)
Held(nx, hp, S, h, R, k) ==
  /\ List(nx, S, h) /\ List(nx, R, k)
  /\ Range(S) \cap Range(R) = {}
  /\ \A n \in Nodes : hp[n] = "live" <=> n \in Range(S) \cup Range(R)

Memory(S, R) ==
  /\ Held(nxt, heap, S, SaveHead, R, OtherHead)
  /\ pc \in {"judge", "ldap", "search"} => Ends(S, save_t)
  /\ pc = "judge" => Ends(R, ldap_t)

(* What they hold as long as the selection goes on.                        *)
Selected(S, R) ==
  /\ pc \in {"judge", "ldap"} =>
       /\ Range(S) = {n \in 1 .. count : Direct(n)}
       /\ Range(R) = {n \in 1 .. count : Asked(n)}
  /\ pc \in {"search", "saved"} =>
       /\ Range(R) \subseteq {n \in 1 .. count : Asked(n)}
       /\ Range(S) = {n \in 1 .. count :
                        Direct(n) \/ (Asked(n) /\ Known(n) /\ n \notin Range(R))}
  /\ pc = "saved" => R = <<>>

(* After the failure of a later search nothing is known of the memory.     *)
Sound ==
  pc \in {"judge", "ldap", "search", "saved", "cleanup", "released"}
    \/ "laterSearch" \notin Faults

Counted ==
  /\ message \in Messages /\ cfg \in Configs
  /\ count <= Len(Checked)
  /\ pc \in {"ldap", "search", "saved"} => count = Len(Checked)

Below ==
  /\ {save_h, save_t, ldap_h, ldap_t, cursor} \subseteq 0 .. count
  /\ \A n \in Nodes : nxt[n] \in 0 .. count

Released ==
  /\ pc \in {"cleanup", "released", "failed"} => save_h = NULL
  /\ pc = "broken" => "laterSearch" \in Faults

LinksOnly == [Nodes -> Pointers]

Inv ==
  /\ TypeOK /\ Counted /\ Below /\ Released
  /\ Sound => \E S, R \in Seq(Nodes) : Memory(S, R) /\ Selected(S, R)

-----------------------------------------------------------------------------
(* Lists                                                                   *)

LEMMA NodeFacts ==
  Nodes \subseteq Nat \ {0} /\ NULL \notin Nodes /\ MostRecipients \in Nat
BY FilterAssumption DEF Nodes, NULL

LEMMA ListFacts ==
  ASSUME NEW nx \in LinksOnly, NEW q, NEW h, List(nx, q, h)
  PROVE  /\ q \in Seq(Nodes) /\ Len(q) \in Nat /\ DOMAIN q = 1 .. Len(q)
         /\ \A i \in 1 .. Len(q) : q[i] \in Nodes /\ q[i] \in Range(q)
         /\ Range(q) \subseteq Nodes
         /\ \A i, j \in 1 .. Len(q) : q[i] = q[j] => i = j
         /\ q = <<>> <=> h = NULL
         /\ q # <<>> => h = q[1] /\ Len(q) # 0
         /\ Range(q) = {} <=> q = <<>>
<1>1. q \in Seq(Nodes) /\ Len(q) \in Nat /\ DOMAIN q = 1 .. Len(q)
  BY DEF List
<1>2. \A i \in 1 .. Len(q) : q[i] \in Nodes /\ q[i] \in Range(q)
  BY <1>1 DEF Range
<1>3. Range(q) \subseteq Nodes
  BY <1>1, <1>2, SMTT(20) DEF Range
<1>4. \A i, j \in 1 .. Len(q) : q[i] = q[j] => i = j
  BY <1>1 DEF List, IsInjective
<1>5. q # <<>> => Len(q) # 0 /\ 1 \in 1 .. Len(q)
  BY <1>1
<1>6. q # <<>> => h = q[1]
  BY DEF List
<1>7. q = <<>> => h = NULL
  BY DEF List
<1>8. q = <<>> => Range(q) = {}
  BY DEF Range
<1> QED
  BY <1>1, <1>2, <1>3, <1>4, <1>5, <1>6, <1>7, <1>8, NodeFacts

(* The links after n was put at the end of the list from h to t.           *)
Chained(nx, n, h, t) ==
  [(IF h = NULL THEN nx ELSE [nx EXCEPT ![t] = n]) EXCEPT ![n] = NULL]

First(h, n) == IF h = NULL THEN n ELSE h

LEMMA ChainedFacts ==
  ASSUME NEW nx \in LinksOnly, NEW n \in Nodes, NEW h, NEW t
  PROVE  /\ Chained(nx, n, h, t) \in LinksOnly
         /\ Chained(nx, n, h, t)[n] = NULL
         /\ h # NULL /\ t \in Nodes /\ t # n => Chained(nx, n, h, t)[t] = n
         /\ \A m \in Nodes : m # n /\ (h = NULL \/ m # t) =>
              Chained(nx, n, h, t)[m] = nx[m]
BY DEF Chained, LinksOnly, Pointers

(* push_strlist puts a node that is in no list at the end of one of them.  *)
LEMMA AppendList ==
  ASSUME NEW nx \in LinksOnly, NEW q, NEW h, NEW t, NEW n \in Nodes,
         List(nx, q, h), Ends(q, t), n \notin Range(q)
  PROVE  /\ List(Chained(nx, n, h, t), Append(q, n), First(h, n))
         /\ Append(q, n) \in Seq(Nodes)
         /\ Ends(Append(q, n), n)
         /\ Range(Append(q, n)) = Range(q) \cup {n}
<1> DEFINE r == Append(q, n)
           nn == Chained(nx, n, h, t)
           l == Len(q)
<1>1. /\ q \in Seq(Nodes) /\ l \in Nat /\ DOMAIN q = 1 .. l
      /\ \A i \in 1 .. l : q[i] \in Nodes /\ q[i] \in Range(q)
      /\ \A i, j \in 1 .. l : q[i] = q[j] => i = j
      /\ q = <<>> <=> h = NULL
      /\ q # <<>> => h = q[1] /\ l # 0
  BY ListFacts
<1>2. /\ r \in Seq(Nodes) /\ DOMAIN r = 1 .. l + 1 /\ Len(r) = l + 1
      /\ \A i \in 1 .. l : r[i] = q[i]
      /\ r[l + 1] = n /\ r # <<>>
  BY <1>1
<1>3. q = <<>> => l = 0
  OBVIOUS
<1>4. \A i \in 1 .. l : nx[q[i]] = IF i = l THEN NULL ELSE q[i + 1]
  BY DEF List
<1>5. q # <<>> => t = q[l] /\ t \in Nodes /\ t # n
  BY <1>1 DEF Ends
<1> HIDE DEF r, nn, l
<1>6. \A i \in 1 .. l + 1 : i \in 1 .. l \/ i = l + 1
  BY <1>1
<1>7. IsInjective(r)
  BY <1>1, <1>2, <1>6 DEF IsInjective
<1>8. nn[n] = NULL
  BY ChainedFacts DEF nn
<1>9. ASSUME NEW i \in 1 .. l PROVE nn[q[i]] = r[i + 1]
  <2>1. q # <<>> /\ h # NULL /\ q[i] \in Nodes /\ q[i] # n
    BY <1>1, <1>3
  <2>2. CASE i = l
    BY <2>1, <2>2, <1>2, <1>5, ChainedFacts DEF nn
  <2>3. CASE i # l
    <3>1. q[i] # t /\ i + 1 \in 1 .. l
      BY <2>1, <2>3, <1>1, <1>5
    <3>2. nn[q[i]] = nx[q[i]]
      BY <2>1, <3>1, ChainedFacts DEF nn
    <3> QED
      BY <3>1, <3>2, <2>3, <1>2, <1>4
  <2> QED
    BY <2>2, <2>3
<1>10. ASSUME NEW i \in 1 .. l + 1
       PROVE  nn[r[i]] = IF i = l + 1 THEN NULL ELSE r[i + 1]
  BY <1>1, <1>2, <1>6, <1>8, <1>9
<1>11. r[1] = First(h, n)
  BY <1>1, <1>2, <1>3 DEF First
<1>12. Range(r) = Range(q) \cup {n}
  <2>1. Range(r) \subseteq Range(q) \cup {n}
    BY <1>1, <1>2, <1>6 DEF Range
  <2>2. ASSUME NEW x \in Range(q) PROVE x \in Range(r)
    <3>1. PICK i \in 1 .. l : x = q[i]
      BY <1>1 DEF Range
    <3> QED
      BY <3>1, <1>1, <1>2 DEF Range
  <2>3. n \in Range(r)
    BY <1>1, <1>2 DEF Range
  <2> QED
    BY <2>1, <2>2, <2>3
<1>13. Ends(r, n)
  BY <1>2 DEF Ends
<1>14. List(nn, r, First(h, n))
  BY <1>2, <1>7, <1>10, <1>11 DEF List
<1> QED
  BY <1>2, <1>12, <1>13, <1>14 DEF r, nn

(* A list that shares no node with the other one does not notice.          *)
LEMMA OtherList ==
  ASSUME NEW nx \in LinksOnly, NEW q, NEW h, NEW t, NEW n \in Nodes, NEW p, NEW k,
         List(nx, q, h), Ends(q, t), List(nx, p, k),
         n \notin Range(p), Range(p) \cap Range(q) = {}
  PROVE  List(Chained(nx, n, h, t), p, k)
<1>1. \A i \in 1 .. Len(p) : p[i] \in Nodes /\ p[i] \in Range(p)
  BY ListFacts
<1>2. h = NULL \/ t \in Range(q)
  <2> SUFFICES ASSUME h # NULL PROVE t \in Range(q)
    OBVIOUS
  <2>1. q # <<>> /\ Len(q) \in 1 .. Len(q)
    BY ListFacts
  <2> QED
    BY <2>1, ListFacts DEF Ends
<1>3. \A i \in 1 .. Len(p) : Chained(nx, n, h, t)[p[i]] = nx[p[i]]
  BY <1>1, <1>2, ChainedFacts
<1> QED
  BY <1>3 DEF List

(* The list without its first node.                                        *)
LEMMA RestOfList ==
  ASSUME NEW nx \in LinksOnly, NEW q, NEW h, List(nx, q, h), h # NULL
  PROVE  /\ h \in Nodes /\ h \in Range(q) /\ h \notin Range(Tail(q))
         /\ Range(q) = {h} \cup Range(Tail(q))
         /\ Tail(q) \in Seq(Nodes)
         /\ List(nx, Tail(q), nx[h])
<1> DEFINE r == Tail(q)
<1>1. /\ q \in Seq(Nodes) /\ q # <<>> /\ h = q[1] /\ IsInjective(q)
      /\ \A i \in 1 .. Len(q) : nx[q[i]] = IF i = Len(q) THEN NULL ELSE q[i + 1]
  BY ListFacts DEF List
<1>2. /\ Len(q) \in Nat \ {0} /\ h = Head(q) /\ h \in Nodes
      /\ r \in Seq(Nodes) /\ Len(r) = Len(q) - 1
      /\ \A i \in 1 .. Len(q) - 1 : r[i] = q[i + 1]
  BY <1>1, TailFacts
<1>3. Range(q) = {h} \cup Range(r)
  BY <1>1, <1>2, TailRange
<1>4. IsInjective(r) /\ h \notin Range(r)
  BY <1>1, <1>2, TailInjective
<1> HIDE DEF r
<1>5. r = <<>> <=> Len(q) = 1
  <2>1. r = <<>> <=> Len(r) = 0
    BY <1>2, EmptyLength
  <2> QED
    BY <1>2, <2>1
<1>6. nx[h] = IF r = <<>> THEN NULL ELSE r[1]
  <2>1. nx[q[1]] = IF 1 = Len(q) THEN NULL ELSE q[2]
    BY <1>1, <1>2
  <2>2. Len(q) # 1 => r[1] = q[2]
    BY <1>2
  <2> QED
    BY <1>1, <1>5, <2>1, <2>2
<1>7. \A i \in 1 .. Len(r) : nx[r[i]] = IF i = Len(r) THEN NULL ELSE r[i + 1]
  BY <1>1, <1>2
<1>8. List(nx, r, nx[h])
  BY <1>2, <1>4, <1>6, <1>7 DEF List
<1> QED
  BY <1>2, <1>3, <1>4, <1>8 DEF r

-----------------------------------------------------------------------------
(* Two lists in one memory                                                 *)

Heaps == [Nodes -> {"unused", "live", "freed"}]

LEMMA HeldSymmetric ==
  ASSUME NEW nx, NEW hp, NEW S, NEW h, NEW R, NEW k, Held(nx, hp, S, h, R, k)
  PROVE  Held(nx, hp, R, k, S, h)
BY DEF Held

(* A new node at the end of the list from h to t.                          *)
PushedTo(nx, hp, S, h, R, k, t, n) ==
  /\ Held(Chained(nx, n, h, t), [hp EXCEPT ![n] = "live"], Append(S, n), First(h, n), R, k)
  /\ Append(S, n) \in Seq(Nodes) /\ Ends(Append(S, n), n)
  /\ Range(Append(S, n)) = Range(S) \cup {n}

LEMMA HeldPush ==
  ASSUME NEW nx \in LinksOnly, NEW hp \in Heaps, NEW S, NEW h, NEW R, NEW k,
         NEW t, NEW n \in Nodes,
         Held(nx, hp, S, h, R, k), Ends(S, t), hp[n] # "live"
  PROVE  PushedTo(nx, hp, S, h, R, k, t, n)
<1>1. /\ List(nx, S, h) /\ List(nx, R, k) /\ Range(S) \cap Range(R) = {}
      /\ \A m \in Nodes : hp[m] = "live" <=> m \in Range(S) \cup Range(R)
  BY DEF Held
<1>2. n \notin Range(S) /\ n \notin Range(R)
  BY <1>1
<1>3. /\ List(Chained(nx, n, h, t), Append(S, n), First(h, n))
      /\ Append(S, n) \in Seq(Nodes) /\ Ends(Append(S, n), n)
      /\ Range(Append(S, n)) = Range(S) \cup {n}
  BY <1>1, <1>2, AppendList
<1>4. List(Chained(nx, n, h, t), R, k)
  BY <1>1, <1>2, OtherList
<1>5. \A m \in Nodes : [hp EXCEPT ![n] = "live"][m] = "live"
                         <=> m \in Range(Append(S, n)) \cup Range(R)
  BY <1>1, <1>3 DEF Heaps
<1> QED
  BY <1>1, <1>2, <1>3, <1>4, <1>5 DEF Held, PushedTo

(* The first node of a list moves to the end of the other.                 *)
LEMMA HeldMove ==
  ASSUME NEW nx \in LinksOnly, NEW hp \in Heaps, NEW S, NEW h, NEW R, NEW k, NEW t,
         Held(nx, hp, S, h, R, k), Ends(S, t), k # NULL
  PROVE  /\ Held(Chained(nx, k, h, t), hp, Append(S, k),
                 First(h, k), Tail(R), nx[k])
         /\ Append(S, k) \in Seq(Nodes) /\ Ends(Append(S, k), k)
         /\ Range(Append(S, k)) = Range(S) \cup {k}
<1>1. /\ List(nx, S, h) /\ List(nx, R, k) /\ Range(S) \cap Range(R) = {}
      /\ \A m \in Nodes : hp[m] = "live" <=> m \in Range(S) \cup Range(R)
  BY DEF Held
<1>2. /\ k \in Nodes /\ k \in Range(R) /\ k \notin Range(Tail(R))
      /\ Range(R) = {k} \cup Range(Tail(R)) /\ List(nx, Tail(R), nx[k])
  BY <1>1, RestOfList
<1>3. k \notin Range(S) /\ Range(Tail(R)) \cap Range(S) = {}
  BY <1>1, <1>2
<1>4. /\ List(Chained(nx, k, h, t), Append(S, k), First(h, k))
      /\ Append(S, k) \in Seq(Nodes) /\ Ends(Append(S, k), k)
      /\ Range(Append(S, k)) = Range(S) \cup {k}
  <2>1. ASSUME NEW n \in Nodes, n \notin Range(S)
        PROVE  /\ List(Chained(nx, n, h, t), Append(S, n), First(h, n))
               /\ Append(S, n) \in Seq(Nodes) /\ Ends(Append(S, n), n)
               /\ Range(Append(S, n)) = Range(S) \cup {n}
    <3>1. List(nx, S, h) /\ Ends(S, t)
      BY <1>1
    <3> QED
      BY <2>1, <3>1, AppendList
  <2> QED
    BY <2>1, <1>2, <1>3
<1>5. List(Chained(nx, k, h, t), Tail(R), nx[k])
  BY <1>1, <1>2, <1>3, OtherList
<1>6. Range(S) \cup Range(R) = Range(Append(S, k)) \cup Range(Tail(R))
  BY <1>2, <1>4
<1> QED
  BY <1>1, <1>2, <1>3, <1>4, <1>5, <1>6 DEF Held

(* The first node of a list is freed.                                      *)
LEMMA HeldDrop ==
  ASSUME NEW nx \in LinksOnly, NEW hp \in Heaps, NEW S, NEW h, NEW R, NEW k,
         Held(nx, hp, S, h, R, k), k # NULL
  PROVE  /\ hp[k] = "live"
         /\ Held(nx, [hp EXCEPT ![k] = "freed"], S, h, Tail(R), nx[k])
<1>1. /\ List(nx, S, h) /\ List(nx, R, k) /\ Range(S) \cap Range(R) = {}
      /\ \A m \in Nodes : hp[m] = "live" <=> m \in Range(S) \cup Range(R)
  BY DEF Held
<1>2. /\ k \in Nodes /\ k \in Range(R) /\ k \notin Range(Tail(R))
      /\ Range(R) = {k} \cup Range(Tail(R)) /\ List(nx, Tail(R), nx[k])
  BY <1>1, RestOfList
<1>3. \A m \in Nodes : [hp EXCEPT ![k] = "freed"][m] = "live"
                         <=> m \in Range(S) \cup Range(Tail(R))
  BY <1>1, <1>2 DEF Heaps
<1> QED
  BY <1>1, <1>2, <1>3 DEF Held

(* What is in the two lists, and where they begin.                         *)
LEMMA HeldFacts ==
  ASSUME NEW nx \in LinksOnly, NEW hp, NEW S, NEW h, NEW R, NEW k,
         Held(nx, hp, S, h, R, k)
  PROVE  /\ S \in Seq(Nodes) /\ R \in Seq(Nodes)
         /\ Range(S) \subseteq Nodes /\ Range(R) \subseteq Nodes
         /\ S = <<>> <=> h = NULL
         /\ R = <<>> <=> k = NULL
         /\ Range(S) = {} <=> S = <<>>
         /\ Range(R) = {} <=> R = <<>>
         /\ k # NULL => /\ Tail(R) \in Seq(Nodes) /\ k \notin Range(Tail(R))
                        /\ Range(R) = {k} \cup Range(Tail(R))
         /\ \A n \in Nodes : hp[n] = "live" <=> n \in Range(S) \cup Range(R)
         /\ Range(S) \cap Range(R) = {}
BY ListFacts, RestOfList DEF Held

-----------------------------------------------------------------------------
(* The input                                                               *)

LEMMA NoneOrOne ==
  ASSUME NEW T, NEW x \in T
  PROVE  /\ <<>> \in Seq(T) /\ Len(<<>>) = 0
         /\ <<x>> \in Seq(T) /\ Len(<<x>>) = 1
OBVIOUS

LEMMA CheckedFacts ==
  ASSUME message \in Messages, cfg \in Configs
  PROVE  /\ Checked \in Seq(Seq(STRING)) /\ Len(Checked) \in Nat
         /\ Len(Checked) <= MostRecipients + 1
         /\ DOMAIN Checked = 1 .. Len(Checked)
         /\ 1 .. Len(Checked) \subseteq Nodes
<1> DEFINE A == IF cfg.savepolicy \in {"both", "onlyfrom"} THEN <<message.from>> ELSE <<>>
           B == IF cfg.savepolicy \in {"both", "onlyto"} THEN message.rcpts ELSE <<>>
<1>1. /\ message.from \in Seq(STRING) /\ message.rcpts \in Seq(Seq(STRING))
      /\ Len(message.rcpts) <= MostRecipients /\ MostRecipients \in Nat
  BY FilterAssumption
<1>2. A \in Seq(Seq(STRING)) /\ Len(A) \in {0, 1}
  BY <1>1, NoneOrOne
<1>3. B \in Seq(Seq(STRING)) /\ Len(B) <= MostRecipients
  <2>1. <<>> \in Seq(Seq(STRING)) /\ Len(<<>>) = 0
    BY <1>1, NoneOrOne
  <2>2. B = message.rcpts \/ B = <<>>
    OBVIOUS
  <2> HIDE DEF B
  <2>3. CASE B = message.rcpts
    BY <2>3, <1>1
  <2>4. CASE B = <<>>
    BY <2>1, <2>4, <1>1
  <2> QED
    BY <2>2, <2>3, <2>4
<1>4. Checked = A \o B
  BY DEF Checked
<1> HIDE DEF A, B
<1>5. A \o B \in Seq(Seq(STRING)) /\ Len(A \o B) = Len(A) + Len(B) /\ Len(B) \in Nat
  BY <1>2, <1>3
<1>6. DOMAIN Checked = 1 .. Len(Checked)
  BY <1>4, <1>5
<1>7. Len(Checked) \in Nat /\ Len(Checked) <= MostRecipients + 1
  <2>1. \A a \in {0, 1}, b, m \in Nat : b <= m => a + b \in Nat /\ a + b <= m + 1
    OBVIOUS
  <2>2. Len(Checked) = Len(A) + Len(B)
    BY <1>4, <1>5
  <2>3. /\ Len(A) \in {0, 1} /\ Len(B) \in Nat /\ MostRecipients \in Nat
        /\ Len(B) <= MostRecipients
    BY <1>1, <1>2, <1>3, <1>5
  <2> QED
    BY <2>1, <2>2, <2>3
<1> QED
  BY <1>1, <1>2, <1>4, <1>5, <1>6, <1>7 DEF Nodes

LEMMA SameInput ==
  ASSUME UNCHANGED input
  PROVE  /\ Checked' = Checked
         /\ \A n : Direct(n)' <=> Direct(n)
         /\ \A n : Asked(n)' <=> Asked(n)
         /\ \A n : Known(n)' <=> Known(n)
<1>1. message' = message /\ cfg' = cfg /\ directory' = directory
  BY DEF input
<1>2. Checked' = Checked
  BY <1>1 DEF Checked
<1>3. \A n : Address(n)' = Address(n)
  BY <1>1, <1>2 DEF Address, Complemented
<1>4. \A a, b : a = b => (InMyDomain(a)' <=> InMyDomain(b)) /\ (Listed(a)' <=> Listed(b))
  BY <1>1 DEF InMyDomain, Listed
<1> QED
  BY <1>1, <1>2, <1>3, <1>4 DEF Direct, Asked, Known

LEMMA StepCases ==
  ASSUME [Next]_vars
  PROVE  \/ Judge \/ JudgeDone \/ Connect \/ ConnectFails
         \/ SearchHit \/ SearchMiss \/ SearchFails \/ SearchDone
         \/ Cleanup \/ FreeNode \/ FreeDone \/ UNCHANGED vars
BY DEF Next, AllDone

LEMMA InputStep == [Next]_vars => UNCHANGED input
BY StepCases DEF Judge, JudgeDone, Connect, ConnectFails, SearchHit, SearchMiss,
   SearchFails, SearchDone, Cleanup, FreeNode, FreeDone, vars, input, GiveUp

LEMMA LinkedIs == \A n, h, t : Linked(n, h, t) = Chained(nxt, n, h, t)
BY DEF Linked, Chained

LEMMA TypeFacts ==
  ASSUME TypeOK
  PROVE  /\ nxt \in LinksOnly /\ count \in Nat
         /\ {save_h, save_t, ldap_h, ldap_t, cursor} \subseteq Pointers
         /\ heap \in [Nodes -> {"unused", "live", "freed"}]
         /\ Nodes = 1 .. MostRecipients + 1 /\ NULL = 0 /\ MostRecipients \in Nat
         /\ Pointers = 0 .. MostRecipients + 1
         /\ \A n \in Nodes : heap[n] # "unused" => n <= count
BY FilterAssumption DEF TypeOK, LinksOnly, Nodes, NULL, Pointers

-----------------------------------------------------------------------------
(* Types                                                                   *)

(* What each operation does to the numbers: no pointer goes beyond the     *)
(* addresses judged.                                                       *)
LEMMA BelowStep ==
  ASSUME TypeOK, Counted, Below, [Next]_vars
  PROVE  TypeOK' /\ Counted' /\ Below'
<1> DEFINE Low == 0 .. count
           Labels == {"judge", "ldap", "search", "saved", "cleanup", "freeLdap",
                      "freeSave", "failed", "released", "broken"}
<1>1. UNCHANGED input
  BY InputStep
<1>2. Checked' = Checked /\ message' \in Messages /\ cfg' \in Configs
  BY <1>1, SameInput DEF Counted, input
<1>3. Len(Checked) \in Nat /\ Len(Checked) <= MostRecipients + 1
  BY CheckedFacts DEF Counted
<1>4. /\ nxt \in LinksOnly /\ count \in Nat
      /\ {save_h, save_t, ldap_h, ldap_t, cursor} \subseteq Low
      /\ heap \in [Nodes -> {"unused", "live", "freed"}]
      /\ Nodes = 1 .. MostRecipients + 1 /\ NULL = 0 /\ MostRecipients \in Nat
      /\ Pointers = 0 .. MostRecipients + 1
      /\ \A n \in Nodes : heap[n] # "unused" => n <= count
      /\ \A n \in Nodes : nxt[n] \in Low
      /\ count <= Len(Checked)
  BY TypeFacts DEF Below, Counted
<1>5. pc \in Labels /\ (pc \in {"ldap", "search"} => ldap_h # NULL)
  BY DEF TypeOK
<1>6. ASSUME NEW n \in Nodes, NEW h, NEW t, NEW k \in Nat, n <= k, count <= k
      PROVE  /\ Linked(n, h, t) \in LinksOnly
             /\ \A m \in Nodes : Linked(n, h, t)[m] \in 0 .. k
  <2>1. Linked(n, h, t) = Chained(nxt, n, h, t)
    BY LinkedIs
  <2>2. \A m \in Nodes : Chained(nxt, n, h, t)[m] \in {NULL, n, nxt[m]}
    BY <1>4 DEF Chained, LinksOnly
  <2>3. Linked(n, h, t) \in LinksOnly
    BY <2>1, <1>4, ChainedFacts
  <2>4. \A m \in Nodes : {NULL, n, nxt[m]} \subseteq 0 .. k
    BY <1>4, <1>6
  <2> QED
    BY <2>1, <2>2, <2>3, <2>4
<1>7. CASE Judge
  <2>1. /\ pc = "judge" /\ count < Len(Checked) /\ count' = count + 1
        /\ pc' = pc /\ cursor' = cursor
    BY <1>7 DEF Judge
  <2> DEFINE n == count + 1
  <2>2. n \in Nodes /\ n \in Nat /\ n <= Len(Checked)
    BY <2>1, <1>3, <1>4
  <2>3. /\ heap' = heap \/ heap' = [heap EXCEPT ![n] = "live"]
        /\ nxt' = nxt \/ \E h, t : nxt' = Linked(n, h, t)
        /\ save_h' \in {save_h, n} /\ save_t' \in {save_t, n}
        /\ ldap_h' \in {ldap_h, n} /\ ldap_t' \in {ldap_t, n}
    BY <1>7 DEF Judge, lists
  <2>4. nxt' \in LinksOnly /\ \A m \in Nodes : nxt'[m] \in 0 .. n
    <3>1. CASE nxt' = nxt
      BY <3>1, <1>4
    <3>2. CASE \E h, t : nxt' = Linked(n, h, t)
      BY <3>2, <1>4, <1>6, <2>2, SMTT(20)
    <3> QED
      BY <2>3, <3>1, <3>2
  <2>5. /\ heap' \in [Nodes -> {"unused", "live", "freed"}]
        /\ \A m \in Nodes : heap'[m] # "unused" => m <= n
    BY <2>2, <2>3, <1>4
  <2>6. {save_h', save_t', ldap_h', ldap_t', cursor'} \subseteq 0 .. n
    BY <2>1, <2>2, <2>3, <1>4
  <2>7. 0 .. n \subseteq Pointers /\ n \in Nodes \cup {0}
    BY <2>2, <1>4
  <2> QED
    BY <2>1, <2>2, <2>4, <2>5, <2>6, <2>7, <1>2, <1>4, <1>5
       DEF TypeOK, Counted, Below, LinksOnly
<1>8. CASE SearchHit
  <2>1. /\ pc = "search" /\ cursor # NULL /\ pc' = pc /\ count' = count
        /\ nxt' = Linked(cursor, save_h, save_t)
        /\ save_h' \in {save_h, cursor} /\ save_t' = cursor /\ cursor' = nxt[cursor]
        /\ UNCHANGED <<heap, ldap_h, ldap_t>>
    BY <1>8 DEF SearchHit
  <2>2. cursor \in Nodes /\ cursor <= count
    BY <2>1, <1>3, <1>4
  <2>3. nxt' \in LinksOnly /\ \A m \in Nodes : nxt'[m] \in Low
    BY <2>1, <2>2, <1>4, <1>6
  <2>4. {save_h', save_t', ldap_h', ldap_t', cursor'} \subseteq Low
    BY <2>1, <2>2, <1>4
  <2>5. Low \subseteq Pointers /\ count \in Nodes \cup {0}
    BY <1>3, <1>4
  <2> QED
    BY <2>1, <2>3, <2>4, <2>5, <1>2, <1>4, <1>5
       DEF TypeOK, Counted, Below, LinksOnly
<1>9. CASE SearchMiss \/ FreeNode
  <2>1. /\ count' = count /\ pc' \in Labels /\ cursor' \in {cursor, nxt[cursor]}
        /\ cursor \in Nodes /\ cursor <= count
        /\ heap' \in {heap, [heap EXCEPT ![cursor] = "freed"]}
        /\ pc' \in {"ldap", "search", "saved"} => pc' = pc
        /\ UNCHANGED <<nxt, save_h, save_t, ldap_h, ldap_t>>
    <3>1. cursor # NULL => cursor \in Nodes /\ cursor <= count
      BY <1>3, <1>4
    <3>2. CASE SearchMiss
      BY <3>1, <3>2, <1>5 DEF SearchMiss
    <3>3. CASE FreeNode
      BY <3>1, <3>3, <1>5 DEF FreeNode, Freeing
    <3> QED
      BY <1>9, <3>2, <3>3
  <2>2. /\ heap' \in [Nodes -> {"unused", "live", "freed"}]
        /\ \A m \in Nodes : heap'[m] # "unused" => m <= count
    BY <2>1, <1>4
  <2>3. {save_h', save_t', ldap_h', ldap_t', cursor'} \subseteq Low
    BY <2>1, <1>4
  <2>4. Low \subseteq Pointers /\ count \in Nodes \cup {0}
    BY <1>3, <1>4
  <2> QED
    BY <2>1, <2>2, <2>3, <2>4, <1>2, <1>4, <1>5
       DEF TypeOK, Counted, Below, LinksOnly
<1>10. CASE \/ JudgeDone \/ Connect \/ ConnectFails \/ SearchFails \/ SearchDone
            \/ Cleanup \/ FreeDone \/ UNCHANGED vars
  <2>1. /\ count' = count /\ pc' \in Labels /\ cursor' \in {cursor, ldap_h, save_h}
        /\ save_h' \in {save_h, NULL} /\ save_t' \in {save_t, NULL}
        /\ UNCHANGED <<heap, nxt, ldap_h, ldap_t>>
        /\ pc' \in {"ldap", "search"} => ldap_h # NULL
        /\ pc' \in {"ldap", "search", "saved"} => count = Len(Checked)
    BY <1>5, <1>10 DEF JudgeDone, Connect, ConnectFails, SearchFails, SearchDone,
       Cleanup, FreeDone, Freeing, GiveUp, vars, lists, Counted
  <2>2. {save_h', save_t', ldap_h', ldap_t', cursor'} \subseteq Low
    BY <2>1, <1>4
  <2>3. Low \subseteq Pointers /\ count \in Nodes \cup {0}
    BY <1>3, <1>4
  <2> QED
    BY <2>1, <2>2, <2>3, <1>2, <1>4, <1>5 DEF TypeOK, Counted, Below, LinksOnly
<1> QED
  BY <1>7, <1>8, <1>9, <1>10, StepCases

-----------------------------------------------------------------------------
(* The lists and what they hold                                            *)

Good(S, R) == Memory(S, R) /\ Selected(S, R)

(* What the operations start from.                                         *)
LEMMA GoodFacts ==
  ASSUME TypeOK, Counted, Below, NEW S \in Seq(Nodes), NEW R \in Seq(Nodes), Memory(S, R)
  PROVE  /\ nxt \in LinksOnly /\ heap \in Heaps /\ count \in Nat
         /\ Held(nxt, heap, S, SaveHead, R, OtherHead)
         /\ Range(S) \cup Range(R) \subseteq 1 .. count
         /\ 1 .. count \subseteq Nodes
         /\ Len(Checked) \in Nat /\ 1 .. Len(Checked) \subseteq Nodes
<1>1. nxt \in LinksOnly /\ heap \in Heaps /\ count \in Nat /\ Nodes \subseteq Nat \ {0}
  BY TypeFacts, NodeFacts DEF Heaps
<1>2. Held(nxt, heap, S, SaveHead, R, OtherHead)
  BY DEF Memory
<1>3. Range(S) \subseteq Nodes /\ Range(R) \subseteq Nodes
  BY <1>1, <1>2, HeldFacts
<1>4. \A n \in Range(S) \cup Range(R) : heap[n] = "live"
  BY <1>1, <1>2, <1>3, HeldFacts
<1>5. \A n \in Range(S) \cup Range(R) : n <= count
  BY <1>3, <1>4, TypeFacts
<1>6. Len(Checked) \in Nat /\ 1 .. Len(Checked) \subseteq Nodes /\ count <= Len(Checked)
  BY CheckedFacts DEF Counted
<1>7. 1 .. count \subseteq 1 .. Len(Checked)
  BY <1>1, <1>6
<1>8. ASSUME NEW n \in Range(S) \cup Range(R) PROVE n \in 1 .. count
  <2>1. n \in Nat \ {0} /\ n <= count
    BY <1>1, <1>3, <1>5
  <2> QED
    BY <1>1, <2>1
<1> QED
  BY <1>1, <1>2, <1>6, <1>7, <1>8

(* Moving the counter on: the next address is direct, asked for or none.   *)
LEMMA CountOn ==
  ASSUME count \in Nat
  PROVE  LET n == count + 1 IN
           /\ n \in 1 .. n /\ n \notin 1 .. count
           /\ 1 .. n = (1 .. count) \cup {n}
OBVIOUS

LEMMA JudgeGood ==
  ASSUME TypeOK, Counted, Below, Judge,
         NEW S \in Seq(Nodes), NEW R \in Seq(Nodes), Good(S, R)
  PROVE  \E U, V \in Seq(Nodes) : Good(U, V)'
<1> DEFINE n == count + 1
           D == Direct(n)
           A == Asked(n)
<1>1. /\ pc = "judge" /\ pc' = pc /\ count' = n /\ count < Len(Checked)
      /\ UNCHANGED <<input, cursor>>
  BY DEF Judge
<1>2. /\ nxt \in LinksOnly /\ heap \in Heaps /\ count \in Nat
      /\ Held(nxt, heap, S, save_h, R, ldap_h)
      /\ Range(S) = {k \in 1 .. count : Direct(k)}
      /\ Range(R) = {k \in 1 .. count : Asked(k)}
      /\ Ends(S, save_t) /\ Ends(R, ldap_t)
  BY <1>1, GoodFacts DEF Good, Memory, Selected, SaveHead, OtherHead
<1>3. n \in Nodes /\ 1 .. n = (1 .. count) \cup {n} /\ n \notin 1 .. count
  <2>1. 1 .. Len(Checked) \subseteq Nodes /\ Len(Checked) \in Nat
    BY GoodFacts DEF Good
  <2>2. n \in 1 .. Len(Checked)
    BY <1>1, <1>2, <2>1
  <2> QED
    BY <1>2, <2>1, <2>2, CountOn
<1> HIDE DEF n
<1>4. heap[n] # "live"
  <2>1. n \notin Range(S) \cup Range(R)
    BY <1>2, <1>3
  <2> QED
    BY <1>2, <1>3, <2>1, HeldFacts
<1>5. /\ nxt \in LinksOnly /\ heap \in Heaps /\ n \in Nodes /\ heap[n] # "live"
      /\ Held(nxt, heap, S, save_h, R, ldap_h) /\ Ends(S, save_t) /\ Ends(R, ldap_t)
  BY <1>2, <1>3, <1>4
<1>6. /\ \A k : (Direct(k)' <=> Direct(k)) /\ (Asked(k)' <=> Asked(k))
  BY <1>1, SameInput
<1>7. CASE D /\ ~A
  <2>1. /\ heap' = [heap EXCEPT ![n] = "live"]
        /\ nxt' = Chained(nxt, n, save_h, save_t)
        /\ save_h' = First(save_h, n) /\ save_t' = n
        /\ UNCHANGED <<ldap_h, ldap_t>>
    BY <1>7, LinkedIs DEF Judge, Direct, First, n
  <2>2. /\ Held(Chained(nxt, n, save_h, save_t), [heap EXCEPT ![n] = "live"],
                 Append(S, n), First(save_h, n), R, ldap_h)
         /\ Append(S, n) \in Seq(Nodes) /\ Ends(Append(S, n), n)
         /\ Range(Append(S, n)) = Range(S) \cup {n}
    <3>1. PushedTo(nxt, heap, S, save_h, R, ldap_h, save_t, n)
      BY <1>5, HeldPush
    <3> QED
      BY <3>1 DEF PushedTo
  <2>3. PICK U \in Seq(Nodes) : U = Append(S, n)
    BY <2>2
  <2>4. /\ Held(nxt', heap', U, save_h', R, ldap_h')
        /\ Ends(U, n) /\ Range(U) = Range(S) \cup {n}
    BY <2>1, <2>2, <2>3
  <2>5. /\ Range(U) = {k \in 1 .. n : Direct(k)}
        /\ Range(R) = {k \in 1 .. n : Asked(k)}
    BY <1>2, <1>3, <1>7, <2>4
  <2>6. Good(U, R)'
    BY <1>1, <1>2, <1>6, <2>1, <2>4, <2>5 DEF Good, Memory, Selected, SaveHead, OtherHead
  <2> QED
    BY <2>4, <2>6
<1>8. CASE A /\ ~D
  <2>1. /\ heap' = [heap EXCEPT ![n] = "live"]
        /\ nxt' = Chained(nxt, n, ldap_h, ldap_t)
        /\ ldap_h' = First(ldap_h, n) /\ ldap_t' = n
        /\ UNCHANGED <<save_h, save_t>>
    BY <1>8, LinkedIs DEF Judge, Asked, First, n
  <2>2. Held(nxt, heap, R, ldap_h, S, save_h)
    BY <1>2, HeldSymmetric
  <2>3. /\ Held(Chained(nxt, n, ldap_h, ldap_t), [heap EXCEPT ![n] = "live"],
                 Append(R, n), First(ldap_h, n), S, save_h)
         /\ Append(R, n) \in Seq(Nodes) /\ Ends(Append(R, n), n)
         /\ Range(Append(R, n)) = Range(R) \cup {n}
    <3>1. PushedTo(nxt, heap, R, ldap_h, S, save_h, ldap_t, n)
      BY <1>5, <2>2, HeldPush
    <3> QED
      BY <3>1 DEF PushedTo
  <2>4. PICK V \in Seq(Nodes) : V = Append(R, n)
    BY <2>3
  <2>5. /\ Held(nxt', heap', V, ldap_h', S, save_h')
        /\ Ends(V, n) /\ Range(V) = Range(R) \cup {n}
    BY <2>1, <2>3, <2>4
  <2>6. Held(nxt', heap', S, save_h', V, ldap_h')
    BY <2>5, HeldSymmetric
  <2>7. /\ Range(S) = {k \in 1 .. n : Direct(k)}
        /\ Range(V) = {k \in 1 .. n : Asked(k)}
    BY <1>2, <1>3, <1>8, <2>5
  <2>8. Good(S, V)'
    BY <1>1, <1>2, <1>6, <2>1, <2>5, <2>6, <2>7
       DEF Good, Memory, Selected, SaveHead, OtherHead
  <2> QED
    BY <2>5, <2>8
<1>9. CASE ~A /\ ~D
  <2>1. UNCHANGED lists
    BY <1>9 DEF Judge, Direct, Asked, n
  <2>2. /\ Range(S) = {k \in 1 .. n : Direct(k)}
        /\ Range(R) = {k \in 1 .. n : Asked(k)}
    BY <1>2, <1>3, <1>9
  <2>3. Good(S, R)'
    BY <1>1, <1>2, <1>6, <2>1, <2>2 DEF Good, Memory, Selected, SaveHead, OtherHead, lists
  <2> QED
    BY <2>3
<1> QED
  BY <1>7, <1>8, <1>9 DEF Direct, Asked

LEMMA HitGood ==
  ASSUME TypeOK, Counted, Below, SearchHit,
         NEW S \in Seq(Nodes), NEW R \in Seq(Nodes), Good(S, R)
  PROVE  \E U, V \in Seq(Nodes) : Good(U, V)'
<1> DEFINE n == cursor
<1>1. /\ pc = "search" /\ pc' = pc /\ count' = count /\ n # NULL /\ Known(n)
      /\ nxt' = Chained(nxt, n, save_h, save_t)
      /\ save_h' = First(save_h, n) /\ save_t' = n /\ cursor' = nxt[n]
      /\ UNCHANGED <<input, heap, ldap_h, ldap_t>>
  BY LinkedIs DEF SearchHit, Known, First
<1>2. /\ nxt \in LinksOnly /\ heap \in Heaps /\ count \in Nat
      /\ Held(nxt, heap, S, save_h, R, n)
      /\ Range(R) \subseteq {k \in 1 .. count : Asked(k)}
      /\ Range(S) = {k \in 1 .. count :
                       Direct(k) \/ (Asked(k) /\ Known(k) /\ k \notin Range(R))}
      /\ Ends(S, save_t)
  BY <1>1, GoodFacts DEF Good, Memory, Selected, SaveHead, OtherHead
<1>3. /\ Held(Chained(nxt, n, save_h, save_t), heap, Append(S, n), First(save_h, n),
               Tail(R), nxt[n])
       /\ Append(S, n) \in Seq(Nodes) /\ Ends(Append(S, n), n)
       /\ Range(Append(S, n)) = Range(S) \cup {n}
  BY <1>1, <1>2, HeldMove
<1>4. /\ Tail(R) \in Seq(Nodes) /\ n \notin Range(Tail(R))
       /\ Range(R) = {n} \cup Range(Tail(R))
  BY <1>1, <1>2, HeldFacts
<1>5. PICK U \in Seq(Nodes), V \in Seq(Nodes) : U = Append(S, n) /\ V = Tail(R)
  BY <1>3, <1>4
<1>6. /\ Held(nxt', heap', U, save_h', V, cursor')
      /\ Ends(U, n) /\ Range(U) = Range(S) \cup {n}
  BY <1>1, <1>3, <1>5
<1>7. n \notin Range(V) /\ Range(R) = {n} \cup Range(V)
  BY <1>4, <1>5
<1>8. \A k : /\ (Direct(k)' <=> Direct(k)) /\ (Asked(k)' <=> Asked(k))
             /\ (Known(k)' <=> Known(k))
  BY <1>1, SameInput
<1> HIDE DEF n
<1>9. /\ Range(V) \subseteq {k \in 1 .. count : Asked(k)}
      /\ Range(U) = {k \in 1 .. count :
                       Direct(k) \/ (Asked(k) /\ Known(k) /\ k \notin Range(V))}
  BY <1>1, <1>2, <1>6, <1>7
<1>10. Good(U, V)'
  BY <1>1, <1>6, <1>8, <1>9 DEF Good, Memory, Selected, SaveHead, OtherHead
<1> QED
  BY <1>6, <1>7, <1>10

LEMMA MissGood ==
  ASSUME TypeOK, Counted, Below, SearchMiss,
         NEW S \in Seq(Nodes), NEW R \in Seq(Nodes), Good(S, R)
  PROVE  \E U, V \in Seq(Nodes) : Good(U, V)'
<1> DEFINE n == cursor
           V == Tail(R)
<1>1. /\ pc = "search" /\ pc' = pc /\ count' = count /\ n # NULL /\ ~Known(n)
      /\ heap' = [heap EXCEPT ![n] = "freed"] /\ cursor' = nxt[n]
      /\ UNCHANGED <<input, nxt, save_h, save_t, ldap_h, ldap_t>>
  BY DEF SearchMiss, Known
<1>2. /\ nxt \in LinksOnly /\ heap \in Heaps /\ count \in Nat
      /\ Held(nxt, heap, S, save_h, R, n)
      /\ Range(R) \subseteq {k \in 1 .. count : Asked(k)}
      /\ Range(S) = {k \in 1 .. count :
                       Direct(k) \/ (Asked(k) /\ Known(k) /\ k \notin Range(R))}
      /\ Ends(S, save_t)
  BY <1>1, GoodFacts DEF Good, Memory, Selected, SaveHead, OtherHead
<1>3. Held(nxt', heap', S, save_h', V, cursor')
  BY <1>1, <1>2, HeldDrop
<1>4. V \in Seq(Nodes) /\ n \notin Range(V) /\ Range(R) = {n} \cup Range(V)
  BY <1>1, <1>2, HeldFacts
<1>5. \A k : /\ (Direct(k)' <=> Direct(k)) /\ (Asked(k)' <=> Asked(k))
             /\ (Known(k)' <=> Known(k))
  BY <1>1, SameInput
<1> HIDE DEF V
<1>6. /\ Range(V) \subseteq {k \in 1 .. count : Asked(k)}
      /\ Range(S) = {k \in 1 .. count :
                       Direct(k) \/ (Asked(k) /\ Known(k) /\ k \notin Range(V))}
  BY <1>1, <1>2, <1>4
<1>7. Good(S, V)'
  BY <1>1, <1>2, <1>3, <1>5, <1>6 DEF Good, Memory, Selected, SaveHead, OtherHead
<1> QED
  BY <1>4, <1>7

(* The node freed was in use: the step that would break is not taken.      *)
LEMMA FreeGood ==
  ASSUME TypeOK, Counted, Below, FreeNode,
         NEW S \in Seq(Nodes), NEW R \in Seq(Nodes), Good(S, R)
  PROVE  pc' = pc /\ \E U, V \in Seq(Nodes) : Good(U, V)'
<1> DEFINE n == cursor
           V == Tail(R)
<1>1. /\ pc \in {"freeLdap", "freeSave", "cleanup"} /\ n # NULL
      /\ UNCHANGED <<input, count, nxt, save_h, save_t, ldap_h, ldap_t>>
  BY DEF FreeNode, Freeing
<1>2. /\ nxt \in LinksOnly /\ heap \in Heaps
      /\ Held(nxt, heap, S, SaveHead, R, n)
  BY <1>1, GoodFacts DEF Good, OtherHead
<1>3. heap[n] = "live" /\ Held(nxt, [heap EXCEPT ![n] = "freed"], S, SaveHead, V, nxt[n])
  BY <1>1, <1>2, HeldDrop
<1>4. pc' = pc /\ heap' = [heap EXCEPT ![n] = "freed"] /\ cursor' = nxt[n]
  BY <1>3 DEF FreeNode
<1>5. V \in Seq(Nodes)
  BY <1>1, <1>2, HeldFacts
<1> HIDE DEF V
<1>6. Good(S, V)'
  BY <1>1, <1>3, <1>4 DEF Good, Memory, Selected, SaveHead, OtherHead
<1> QED
  BY <1>4, <1>5, <1>6

(* The operations that allocate and free nothing.                          *)
LEMMA PlainGood ==
  ASSUME TypeOK, Counted, Below, Sound',
         JudgeDone \/ Connect \/ ConnectFails \/ SearchFails \/ SearchDone
           \/ Cleanup \/ FreeDone \/ UNCHANGED vars,
         NEW S \in Seq(Nodes), NEW R \in Seq(Nodes), Good(S, R)
  PROVE  Good(S, R)' \/ Good(R, S)'
<1> USE DEF Good, Memory, Selected, SaveHead, OtherHead
<1>1. /\ nxt \in LinksOnly /\ heap \in Heaps /\ count \in Nat
      /\ Held(nxt, heap, S, SaveHead, R, OtherHead)
  BY GoodFacts
<1>2. /\ S = <<>> <=> SaveHead = NULL
      /\ R = <<>> <=> OtherHead = NULL
      /\ Range(R) = {} <=> R = <<>>
  <2> HIDE DEF Good, Memory, Selected, SaveHead, OtherHead
  <2> QED
    BY <1>1, HeldFacts
<1>3. Held(nxt, heap, R, OtherHead, S, SaveHead)
  <2> HIDE DEF Good, Memory, Selected, SaveHead, OtherHead
  <2> QED
    BY <1>1, HeldSymmetric
<1>4. UNCHANGED input => \A k : /\ (Direct(k)' <=> Direct(k)) /\ (Asked(k)' <=> Asked(k))
                                /\ (Known(k)' <=> Known(k))
  BY SameInput
<1>5. CASE JudgeDone
  <2>1. /\ pc = "judge" /\ pc' = IF ldap_h = NULL THEN "saved" ELSE "ldap"
        /\ UNCHANGED <<input, count, nxt, heap, save_h, save_t, ldap_h, ldap_t, cursor>>
    BY <1>5 DEF JudgeDone, lists
  <2>2. /\ Range(S) = {k \in 1 .. count : Direct(k)}
        /\ Range(R) = {k \in 1 .. count : Asked(k)}
    BY <2>1
  <2>3. CASE ldap_h = NULL
    <3>1. R = <<>> /\ Range(R) = {}
      BY <2>1, <2>3, <1>2
    <3>2. Range(S) = {k \in 1 .. count :
                        Direct(k) \/ (Asked(k) /\ Known(k) /\ k \notin Range(R))}
      BY <2>2, <3>1
    <3> QED
      BY <1>1, <1>4, <2>1, <2>3, <3>1, <3>2
  <2>4. CASE ldap_h # NULL
    BY <1>1, <1>4, <2>1, <2>2, <2>4
  <2> QED
    BY <2>3, <2>4
<1>6. CASE Connect
  <2>1. /\ pc = "ldap" /\ pc' = "search" /\ cursor' = ldap_h
        /\ UNCHANGED <<input, count, nxt, heap, save_h, save_t, ldap_h, ldap_t>>
    BY <1>6 DEF Connect, lists
  <2>2. /\ Range(S) = {k \in 1 .. count : Direct(k)}
        /\ Range(R) = {k \in 1 .. count : Asked(k)}
    BY <2>1
  <2>3. Range(S) = {k \in 1 .. count :
                      Direct(k) \/ (Asked(k) /\ Known(k) /\ k \notin Range(R))}
    BY <2>2
  <2> QED
    BY <1>1, <1>4, <2>1, <2>2, <2>3
<1>7. CASE ConnectFails
  BY <1>1, <1>7 DEF ConnectFails, GiveUp, lists
<1>8. CASE SearchFails
  <2>1. /\ pc = "search" /\ pc' = "freeLdap" /\ cursor' = ldap_h
        /\ UNCHANGED <<nxt, heap, save_h, save_t, ldap_h, ldap_t>>
    BY <1>8 DEF SearchFails, GiveUp, lists
  <2>2. cursor = ldap_h
    BY <1>8, <2>1 DEF SearchFails, Sound
  <2> QED
    BY <1>1, <2>1, <2>2
<1>9. CASE SearchDone
  <2>1. /\ pc = "search" /\ pc' = "saved" /\ cursor = NULL
        /\ UNCHANGED <<input, count, nxt, heap, save_h, save_t, ldap_h, ldap_t, cursor>>
    BY <1>9 DEF SearchDone, lists
  <2>2. R = <<>>
    BY <1>2, <2>1
  <2> QED
    BY <1>1, <1>4, <2>1, <2>2
<1>10. CASE Cleanup
  <2>1. /\ pc = "saved" /\ pc' = "cleanup" /\ cursor' = save_h
        /\ UNCHANGED <<nxt, heap>>
    BY <1>10 DEF Cleanup
  <2> QED
    BY <1>3, <2>1
<1>11. CASE FreeDone
  <2>1. UNCHANGED <<nxt, heap>> /\ cursor = NULL
    BY <1>11 DEF FreeDone
  <2>2. CASE pc = "freeLdap"
    <3>1. pc' = "freeSave" /\ cursor' = save_h
      BY <1>11, <2>2 DEF FreeDone
    <3> QED
      BY <1>3, <2>1, <2>2, <3>1
  <2>3. CASE pc = "freeSave"
    <3>1. pc' = "failed"
      BY <1>11, <2>3 DEF FreeDone
    <3> QED
      BY <1>1, <2>1, <2>3, <3>1
  <2>4. CASE pc = "cleanup"
    <3>1. pc' = "released"
      BY <1>11, <2>4 DEF FreeDone
    <3> QED
      BY <1>1, <2>1, <2>4, <3>1
  <2> QED
    BY <1>11, <2>2, <2>3, <2>4 DEF FreeDone, Freeing
<1>12. CASE UNCHANGED vars
  <2>1. UNCHANGED <<input, count, nxt, heap, save_h, save_t, ldap_h, ldap_t, cursor, pc>>
    BY <1>12 DEF vars, lists
  <2> QED
    BY <1>1, <1>4, <2>1
<1> QED
  BY <1>5, <1>6, <1>7, <1>8, <1>9, <1>10, <1>11, <1>12

-----------------------------------------------------------------------------
(* The invariant                                                           *)

LEMMA InvInit == Init => Inv
<1> SUFFICES ASSUME Init PROVE Inv
  OBVIOUS
<1>1. NULL = 0 /\ NULL \in Pointers /\ Nodes \subseteq Nat \ {0}
  BY NodeFacts DEF Pointers, NULL
<1>2. Counted
  BY CheckedFacts DEF Init, Counted
<1>3. TypeOK /\ Below /\ Released
  BY <1>1 DEF Init, TypeOK, Below, Released
<1>4. <<>> \in Seq(Nodes) /\ Range(<<>>) = {} /\ Len(<<>>) = 0 /\ IsInjective(<<>>)
  BY DEF Range, IsInjective
<1>5. List(nxt, <<>>, NULL)
  BY <1>4 DEF List
<1>6. Held(nxt, heap, <<>>, NULL, <<>>, NULL)
  BY <1>4, <1>5 DEF Held, Init
<1>7. Memory(<<>>, <<>>)
  BY <1>6 DEF Memory, SaveHead, OtherHead, Ends, Init
<1>8. Selected(<<>>, <<>>)
  BY <1>4 DEF Selected, Init
<1> QED
  BY <1>2, <1>3, <1>4, <1>7, <1>8 DEF Inv

LEMMA InvStep == Inv /\ [Next]_vars => Inv'
<1> SUFFICES ASSUME Inv, [Next]_vars PROVE Inv'
  OBVIOUS
<1>1. TypeOK /\ Counted /\ Below /\ Released
  BY DEF Inv
<1>2. TypeOK' /\ Counted' /\ Below'
  BY <1>1, BelowStep
<1>3. Sound => \E S, R \in Seq(Nodes) : Good(S, R)
  BY DEF Inv, Good
<1>4. Sound' => Sound
  BY StepCases DEF Sound, Judge, JudgeDone, Connect, ConnectFails, SearchHit,
     SearchMiss, SearchFails, SearchDone, Cleanup, FreeNode, FreeDone, Freeing,
     GiveUp, vars
<1>5. Sound' => \E S, R \in Seq(Nodes) : Good(S, R)'
  <2> SUFFICES ASSUME Sound' PROVE \E S, R \in Seq(Nodes) : Good(S, R)'
    OBVIOUS
  <2>1. PICK S \in Seq(Nodes), R \in Seq(Nodes) : Good(S, R)
    BY <1>3, <1>4
  <2>2. CASE Judge
    BY <1>1, <2>1, <2>2, JudgeGood
  <2>3. CASE SearchHit
    BY <1>1, <2>1, <2>3, HitGood
  <2>4. CASE SearchMiss
    BY <1>1, <2>1, <2>4, MissGood
  <2>5. CASE FreeNode
    BY <1>1, <2>1, <2>5, FreeGood
  <2>6. CASE JudgeDone \/ Connect \/ ConnectFails \/ SearchFails \/ SearchDone
               \/ Cleanup \/ FreeDone \/ UNCHANGED vars
    <3>1. Good(S, R)' \/ Good(R, S)'
      BY <1>1, <2>1, <2>6, PlainGood
    <3> QED
      BY <3>1
  <2> QED
    BY <2>2, <2>3, <2>4, <2>5, <2>6, StepCases
<1>6. Released'
  <2>1. CASE FreeNode
    <3>1. CASE Sound
      <4>1. PICK S \in Seq(Nodes), R \in Seq(Nodes) : Good(S, R)
        BY <1>3, <3>1
      <4>2. pc' = pc
        BY <1>1, <2>1, <4>1, FreeGood
      <4> QED
        BY <1>1, <2>1, <4>2 DEF Released, FreeNode
    <3>2. CASE ~Sound
      BY <1>1, <2>1, <3>2 DEF Released, FreeNode, Sound, Freeing
    <3> QED
      BY <3>1, <3>2
  <2>2. CASE ~FreeNode
    BY <1>1, <2>2, StepCases DEF Released, Judge, JudgeDone, Connect, ConnectFails,
       SearchHit, SearchMiss, SearchFails, SearchDone, Cleanup, FreeDone, Freeing,
       GiveUp, vars, lists
  <2> QED
    BY <2>1, <2>2
<1> QED
  BY <1>2, <1>5, <1>6 DEF Inv, Good

LEMMA Invariance == Spec => []Inv
BY InvInit, InvStep, PTL DEF Spec

-----------------------------------------------------------------------------
(* The theorems about memory                                               *)

(* Types; a node is in use only if its address has been judged, and the    *)
(* LDAP server is asked only if an address needs it.                       *)
THEOREM TypeCorrect == Spec => []TypeOK
<1>1. Inv => TypeOK
  BY DEF Inv
<1> QED
  BY Invariance, <1>1, PTL

(* If no search fails after another one has succeeded, the memory of every *)
(* node is given back by the end of the message, once, however many        *)
(* addresses there are, whichever moved from the LDAP list to the save     *)
(* list, and whether or not the server could be asked.                     *)
THEOREM GivenBack == "laterSearch" \notin Faults => (Spec => []AllGivenBack)
<1> SUFFICES ASSUME "laterSearch" \notin Faults PROVE Spec => []AllGivenBack
  OBVIOUS
<1>1. ASSUME Inv PROVE AllGivenBack
  <2>1. pc # "broken" /\ (pc \in {"released", "failed"} => save_h = NULL)
    BY <1>1 DEF Inv, Released
  <2>2. ASSUME pc \in {"released", "failed"}, NEW n \in Nodes PROVE heap[n] # "live"
    <3>1. PICK S \in Seq(Nodes), R \in Seq(Nodes) : Memory(S, R)
      BY <1>1 DEF Inv, Sound
    <3>2. nxt \in LinksOnly /\ Held(nxt, heap, S, NULL, R, NULL)
      BY <1>1, <2>2, <3>1, TypeFacts DEF Inv, Memory, SaveHead, OtherHead
    <3> QED
      BY <3>2, HeldFacts
  <2> QED
    BY <2>1, <2>2 DEF AllGivenBack, NothingFreedTwice
<1> QED
  BY Invariance, <1>1, PTL

-----------------------------------------------------------------------------
(* Going through a list                                                    *)

(* An injective list of nodes is not longer than there are nodes.          *)
LEMMA ListIsShort ==
  ASSUME NEW nx \in LinksOnly, NEW q, NEW h, List(nx, q, h)
  PROVE  Len(q) \in Nat /\ Len(q) <= MostRecipients + 1
<1>1. /\ Len(q) \in Nat /\ q \in [1 .. Len(q) -> Nodes]
      /\ \A i, j \in 1 .. Len(q) : q[i] = q[j] => i = j
  BY ListFacts
<1>2. q \in Injection(1 .. Len(q), Nodes)
  <2>1. IsInjective(q)
    BY DEF List
  <2> QED
    BY <1>1, <2>1 DEF Injection, IsInjective
<1>3. MostRecipients + 1 \in Nat /\ Nodes = 1 .. MostRecipients + 1
  BY FilterAssumption DEF Nodes
<1>4. IsFiniteSet(Nodes) /\ Cardinality(Nodes) = MostRecipients + 1
  BY <1>3, FS_Interval
<1>5. Cardinality(1 .. Len(q)) = Len(q)
  BY <1>1, FS_Interval
<1>6. Cardinality(1 .. Len(q)) <= Cardinality(Nodes)
  BY <1>2, <1>4, FS_Injection
<1> QED
  BY <1>1, <1>4, <1>5, <1>6

LEMMA WalkFacts ==
  ASSUME nxt \in LinksOnly, NEW q, NEW h, List(nxt, q, h)
  PROVE  /\ Walk(h)[MostRecipients + 1] = NULL
         /\ Range(Walk(h)) \ {NULL} = Range(q)
<1> DEFINE m == MostRecipients + 1
           l == Len(q)
           Spells(f) ==
             f = [k \in 0 .. m |->
                    IF k = 0 THEN h ELSE IF f[k - 1] = NULL THEN NULL ELSE nxt[f[k - 1]]]
           g == [k \in 0 .. m |-> IF k < l THEN q[k + 1] ELSE NULL]
           at == CHOOSE f : Spells(f)
<1>1. /\ l \in Nat /\ DOMAIN q = 1 .. l /\ NULL \notin Nodes
      /\ \A i \in 1 .. l : q[i] \in Nodes
      /\ q = <<>> <=> h = NULL
      /\ q # <<>> => h = q[1] /\ l # 0
      /\ l <= m /\ m \in Nat
  BY ListFacts, ListIsShort, NodeFacts
<1>2. \A i \in 1 .. l : nxt[q[i]] = IF i = l THEN NULL ELSE q[i + 1]
  BY DEF List
<1>3. q = <<>> => l = 0
  OBVIOUS
<1>4. Walk(h) = at
  BY DEF Walk
<1> HIDE DEF m, l
<1>5. g[0] = h
  BY <1>1, <1>3
<1>6. ASSUME NEW k \in 0 .. m, k # 0
      PROVE  g[k] = IF g[k - 1] = NULL THEN NULL ELSE nxt[g[k - 1]]
  <2>1. k - 1 \in 0 .. m /\ k \in Nat /\ (k - 1) + 1 = k /\ (k - 1 < l <=> k <= l)
    BY <1>1, <1>6
  <2>2. g[k - 1] = IF k <= l THEN q[k] ELSE NULL
    BY <2>1
  <2>3. g[k] = IF k < l THEN q[k + 1] ELSE NULL
    OBVIOUS
  <2> HIDE DEF g
  <2>4. CASE k <= l
    <3>1. k \in 1 .. l /\ (k = l <=> ~(k < l))
      BY <1>1, <1>6, <2>1, <2>4
    <3>2. q[k] # NULL /\ g[k - 1] = q[k]
      BY <1>1, <2>2, <2>4, <3>1
    <3> QED
      BY <1>2, <2>3, <3>1, <3>2
  <2>5. CASE ~(k <= l)
    BY <1>1, <2>1, <2>2, <2>3, <2>5
  <2> QED
    BY <2>4, <2>5
<1>7. Spells(g)
  <2> DEFINE r == [k \in 0 .. m |->
                     IF k = 0 THEN h ELSE IF g[k - 1] = NULL THEN NULL ELSE nxt[g[k - 1]]]
  <2>1. DOMAIN g = 0 .. m /\ g = [k \in 0 .. m |-> g[k]]
    OBVIOUS
  <2> HIDE DEF g
  <2>2. \A k \in 0 .. m : g[k] = r[k]
    BY <1>5, <1>6
  <2>3. g = r
    BY <2>1, <2>2
  <2> QED
    BY <2>3
<1>8. Spells(at)
  <2> HIDE DEF g, Spells
  <2> QED
    BY <1>7
<1>9. /\ DOMAIN at = 0 .. m /\ at[0] = h
      /\ \A k \in 0 .. m : k # 0 =>
           at[k] = IF at[k - 1] = NULL THEN NULL ELSE nxt[at[k - 1]]
  <2> HIDE DEF at
  <2> QED
    BY <1>8, <1>1
<1> HIDE DEF at, Spells
<1>10. \A k \in 0 .. m : at[k] = g[k]
  <2> DEFINE Same == {k \in 0 .. m : at[k] = g[k]}
  <2>1. 0 \in Same
    BY <1>1, <1>5, <1>9
  <2>2. ASSUME NEW k \in 0 .. m, k \in Same, k < m PROVE k + 1 \in Same
    <3>1. k + 1 \in 0 .. m /\ k + 1 # 0 /\ (k + 1) - 1 = k
      BY <1>1, <2>2
    <3> HIDE DEF g
    <3>2. at[k + 1] = g[k + 1]
      BY <1>6, <1>9, <2>2, <3>1
    <3> QED
      BY <3>1, <3>2
  <2>3. \A k \in 0 .. m : k \in Same /\ k < m => k + 1 \in Same
    BY <2>2
  <2> HIDE DEF Same
  <2>4. \A k \in 0 .. m : k \in Same
    BY <1>1, <2>1, <2>3, UpTo
  <2> QED
    BY <2>4 DEF Same
<1>11. at[m] = NULL
  BY <1>1, <1>10
<1>12. Range(at) \ {NULL} = Range(q)
  <2>1. ASSUME NEW k \in 0 .. m, at[k] # NULL PROVE at[k] \in Range(q)
    <3>1. k < l /\ at[k] = q[k + 1] /\ k + 1 \in 1 .. l
      BY <1>1, <1>10, <2>1
    <3> QED
      BY <1>1, <3>1 DEF Range
  <2>2. ASSUME NEW i \in 1 .. l PROVE q[i] \in Range(at) /\ q[i] # NULL
    <3>1. i - 1 \in 0 .. m /\ i - 1 < l /\ (i - 1) + 1 = i
      BY <1>1
    <3>2. at[i - 1] = q[i]
      BY <1>10, <3>1
    <3> QED
      BY <1>1, <1>9, <3>1, <3>2 DEF Range
  <2>3. /\ Range(at) = {at[k] : k \in 0 .. m}
        /\ Range(q) = {q[i] : i \in 1 .. l}
    BY <1>1, <1>9 DEF Range
  <2> HIDE DEF g
  <2>4. Range(at) \ {NULL} \subseteq Range(q)
    BY <2>1, <2>3
  <2>5. Range(q) \subseteq Range(at) \ {NULL}
    BY <2>2, <2>3
  <2> QED
    BY <2>4, <2>5
<1> QED
  BY <1>4, <1>11, <1>12 DEF m

-----------------------------------------------------------------------------
(* What the settings ask for                                               *)

(* The provers do not know that "@" is a string.                           *)
Symbols == STRING \cup {"@"}

LEMMA SymbolFacts == "@" \in Symbols /\ \A a \in Seq(STRING) : a \in Seq(Symbols)
<1>1. ASSUME NEW a \in Seq(STRING) PROVE a \in Seq(Symbols)
  <2>1. \A i \in 1 .. Len(a) : a[i] \in Symbols
    BY DEF Symbols
  <2> QED
    BY <2>1, ElementsOf
<1> QED
  BY <1>1 DEF Symbols

AtMostOneAt(a) == \A i, j \in 1 .. Len(a) : a[i] = "@" /\ a[j] = "@" => i = j

(* No address has more than one "@", as a quoted local part might.         *)
PlainAddresses ==
  /\ \A m \in Messages :
       AtMostOneAt(m.from) /\ \A i \in 1 .. Len(m.rcpts) : AtMostOneAt(m.rcpts[i])
  /\ \A c \in Configs : ~Contains(c.defaultdomain, "@")

LEMMA SuffixFacts ==
  ASSUME NEW x \in Seq(Symbols), NEW a \in Seq(Symbols)
  PROVE  IsSuffix(x, a) <=>
           /\ Len(x) <= Len(a)
           /\ \A i \in 1 .. Len(x) : x[i] = a[Len(a) - Len(x) + i]
<1> DEFINE k == Len(x)
           n == Len(a)
           rx == Reverse(x)
           ra == Reverse(a)
<1>1. k \in Nat /\ n \in Nat
  OBVIOUS
<1>2. /\ rx \in Seq(Symbols) /\ Len(rx) = k
      /\ \A i \in 1 .. k : rx[i] = x[(k - i) + 1]
  BY DEF Reverse
<1>3. /\ ra \in Seq(Symbols) /\ Len(ra) = n
      /\ \A i \in 1 .. n : ra[i] = a[(n - i) + 1]
  BY DEF Reverse
<1>4. IsSuffix(x, a) <=> k <= n /\ SubSeq(rx, 1, k) = SubSeq(ra, 1, k)
  BY <1>2, <1>3 DEF IsSuffix, IsPrefix
<1> HIDE DEF rx, ra
<1>5. k <= n => (SubSeq(rx, 1, k) = SubSeq(ra, 1, k) <=> \A i \in 1 .. k : rx[i] = ra[i])
  <2> SUFFICES ASSUME k <= n
               PROVE  SubSeq(rx, 1, k) = SubSeq(ra, 1, k) <=> \A i \in 1 .. k : rx[i] = ra[i]
    OBVIOUS
  <2> DEFINE sx == SubSeq(rx, 1, k)
             sa == SubSeq(ra, 1, k)
  <2>1. /\ sx \in Seq(Symbols) /\ Len(sx) = k /\ \A i \in 1 .. k : sx[i] = rx[i]
    BY <1>1, <1>2
  <2>2. /\ sa \in Seq(Symbols) /\ Len(sa) = k /\ \A i \in 1 .. k : sa[i] = ra[i]
    BY <1>1, <1>3
  <2> HIDE DEF sx, sa
  <2>3. sx = sa <=> \A i \in 1 .. k : sx[i] = sa[i]
    BY <2>1, <2>2
  <2> QED
    BY <2>1, <2>2, <2>3 DEF sx, sa
<1>6. ASSUME k <= n
      PROVE  (\A i \in 1 .. k : rx[i] = ra[i]) <=> (\A i \in 1 .. k : x[i] = a[n - k + i])
  <2>1. ASSUME NEW i \in 1 .. k
        PROVE  /\ (k - i) + 1 \in 1 .. k /\ i \in 1 .. n
               /\ (k - ((k - i) + 1)) + 1 = i
               /\ (n - ((k - i) + 1)) + 1 = n - k + i
               /\ (n - i) + 1 = n - k + ((k - i) + 1)
               /\ (k - i) + 1 \in 1 .. n
    BY <1>1, <1>6
  <2> HIDE DEF k, n
  <2>2. ASSUME \A i \in 1 .. k : rx[i] = ra[i], NEW i \in 1 .. k
        PROVE  x[i] = a[n - k + i]
    <3> DEFINE j == (k - i) + 1
    <3>1. /\ j \in 1 .. k /\ j \in 1 .. n /\ (k - j) + 1 = i /\ (n - j) + 1 = n - k + i
      BY <2>1
    <3> HIDE DEF j
    <3>2. rx[j] = x[i] /\ ra[j] = a[n - k + i]
      BY <1>2, <1>3, <3>1
    <3> QED
      BY <2>2, <3>1, <3>2
  <2>3. ASSUME \A i \in 1 .. k : x[i] = a[n - k + i], NEW i \in 1 .. k
        PROVE  rx[i] = ra[i]
    <3> DEFINE j == (k - i) + 1
    <3>1. j \in 1 .. k /\ (n - i) + 1 = n - k + j /\ i \in 1 .. n
      BY <2>1
    <3>2. rx[i] = x[j] /\ ra[i] = a[(n - i) + 1]
      BY <1>2, <1>3, <3>1
    <3> HIDE DEF j
    <3> QED
      BY <2>3, <3>1, <3>2
  <2> QED
    BY <2>2, <2>3
<1> QED
  BY <1>4, <1>5, <1>6

(* strchr finds the "@" there is.                                          *)
LEMMA FromAtFacts ==
  ASSUME NEW a \in Seq(Symbols), NEW p \in 1 .. Len(a), a[p] = "@", AtMostOneAt(a)
  PROVE  /\ FromAt(a) \in Seq(Symbols) /\ Len(FromAt(a)) = Len(a) - p + 1
         /\ \A i \in 1 .. Len(a) - p + 1 : FromAt(a)[i] = a[p + i - 1]
<1> DEFINE I == {i \in 1 .. Len(a) : a[i] = "@"}
<1>1. I = {p}
  BY DEF AtMostOneAt
<1>2. SelectInSeq(a, LAMBDA x : x = "@") = IF I # {} THEN Min(I) ELSE 0
  BY DEF SelectInSeq
<1>3. Min({p}) = p
  <2>1. Len(a) \in Nat /\ p \in Nat /\ {p} \in SUBSET Nat /\ {p} # {}
    OBVIOUS
  <2>2. Min({p}) \in {p}
    BY <2>1, LeastExists
  <2> QED
    BY <2>2
<1>4. FromAt(a) = SubSeq(a, p, Len(a))
  BY <1>1, <1>2, <1>3 DEF FromAt
<1> QED
  BY <1>4

(* A part that begins with the "@" is a suffix if it is all from there on. *)
LEMMA SuffixAtAt ==
  ASSUME NEW a \in Seq(Symbols), NEW p \in 1 .. Len(a), a[p] = "@", AtMostOneAt(a),
         NEW x \in Seq(Symbols), x # <<>>, x[1] = "@"
  PROVE  FromAt(a) = x <=> IsSuffix(x, a)
<1> DEFINE f == FromAt(a)
           k == Len(x)
           n == Len(a)
<1>1. /\ n \in Nat /\ p \in Nat /\ k \in Nat \ {0}
      /\ f \in Seq(Symbols) /\ Len(f) = n - p + 1
      /\ \A i \in 1 .. n - p + 1 : f[i] = a[p + i - 1]
  BY FromAtFacts, EmptyLength
<1>2. IsSuffix(x, a) <=> k <= n /\ \A i \in 1 .. k : x[i] = a[n - k + i]
  BY SuffixFacts
<1> HIDE DEF f
<1>3. ASSUME f = x PROVE IsSuffix(x, a)
  <2>1. k = n - p + 1 /\ k <= n
    BY <1>1, <1>3
  <2>2. \A i \in 1 .. k : n - k + i = p + i - 1
    BY <1>1, <2>1
  <2> QED
    BY <1>1, <1>2, <1>3, <2>1, <2>2
<1>4. ASSUME IsSuffix(x, a) PROVE f = x
  <2>1. k <= n /\ x[1] = a[n - k + 1] /\ n - k + 1 \in 1 .. n /\ 1 \in 1 .. k
    BY <1>1, <1>2, <1>4
  <2>2. n - k + 1 = p
    BY <2>1 DEF AtMostOneAt
  <2>3. k = n - p + 1
    BY <1>1, <2>2
  <2>4. \A i \in 1 .. k : f[i] = x[i]
    <3>1. \A i \in 1 .. k : n - k + i = p + i - 1
      BY <1>1, <2>3
    <3> QED
      BY <1>1, <1>2, <1>4, <2>3, <3>1
  <2> QED
    BY <1>1, <2>3, <2>4
<1> QED
  BY <1>3, <1>4 DEF f

LEMMA CheckedAt ==
  ASSUME PlainAddresses, message \in Messages, cfg \in Configs, NEW n \in DOMAIN Checked
  PROVE  AtMostOneAt(Checked[n])
<1> DEFINE A == IF cfg.savepolicy \in {"both", "onlyfrom"} THEN <<message.from>> ELSE <<>>
           B == IF cfg.savepolicy \in {"both", "onlyto"} THEN message.rcpts ELSE <<>>
           T == {a \in Seq(STRING) : AtMostOneAt(a)}
<1>1. message.from \in T
  BY FilterAssumption DEF PlainAddresses
<1>2. message.rcpts \in Seq(T)
  <2>1. message.rcpts \in Seq(Seq(STRING))
    BY FilterAssumption
  <2>2. \A i \in 1 .. Len(message.rcpts) : message.rcpts[i] \in T
    BY <2>1 DEF PlainAddresses
  <2> HIDE DEF T
  <2> QED
    BY <2>1, <2>2, ElementsOf
<1> HIDE DEF T
<1>3. A \in Seq(T) /\ B \in Seq(T)
  BY <1>1, <1>2, NoneOrOne
<1>4. Checked = A \o B
  BY DEF Checked
<1> HIDE DEF A, B
<1>5. Checked \in Seq(T)
  BY <1>3, <1>4
<1>6. Checked[n] \in T
  BY <1>5
<1> QED
  BY <1>6 DEF T

LEMMA JoinedFacts ==
  ASSUME NEW T, NEW x \in T, NEW a \in Seq(T), NEW d \in Seq(T)
  PROVE  /\ a \o <<x>> \o d \in Seq(T)
         /\ Len(a \o <<x>> \o d) = Len(a) + 1 + Len(d)
<1>1. <<x>> \in Seq(T) /\ Len(<<x>>) = 1
  BY NoneOrOne
<1>2. a \o <<x>> \in Seq(T) /\ Len(a \o <<x>>) = Len(a) + 1
  OBVIOUS
<1> DEFINE b == a \o <<x>>
<1>3. b \in Seq(T) /\ Len(b) = Len(a) + 1
  BY <1>2
<1> HIDE DEF b
<1>4. b \o d \in Seq(T) /\ Len(b \o d) = Len(b) + Len(d)
  BY <1>3
<1> QED
  BY <1>3, <1>4 DEF b

(* Every address judged has one "@".                                       *)
LEMMA AddressFacts ==
  ASSUME PlainAddresses, message \in Messages, cfg \in Configs, NEW n \in DOMAIN Checked
  PROVE  /\ Address(n) \in Seq(Symbols) /\ AtMostOneAt(Address(n))
         /\ \E p \in 1 .. Len(Address(n)) : Address(n)[p] = "@"
<1> DEFINE a == Checked[n]
           d == cfg.defaultdomain
           b == a \o <<"@">> \o d
<1>1. a \in Seq(Symbols) /\ AtMostOneAt(a)
  <2>1. a \in Seq(STRING)
    BY CheckedFacts
  <2> QED
    BY <2>1, CheckedAt, SymbolFacts
<1>2. d \in Seq(Symbols) /\ \A i \in 1 .. Len(d) : d[i] # "@"
  <2>1. d \in Seq(STRING)
    BY FilterAssumption
  <2> QED
    BY <2>1, SymbolFacts DEF PlainAddresses, Contains
<1>3. Address(n) = IF Contains(a, "@") THEN a ELSE b
  BY DEF Address, Complemented
<1> HIDE DEF a, d
<1>4. CASE Contains(a, "@")
  BY <1>1, <1>3, <1>4 DEF Contains
<1>5. CASE ~Contains(a, "@")
  <2>1. \A i \in 1 .. Len(a) : a[i] # "@"
    BY <1>5 DEF Contains
  <2>2. Len(a) \in Nat /\ Len(d) \in Nat
    BY <1>1, <1>2
  <2>3. b \in Seq(Symbols) /\ Len(b) = Len(a) + 1 + Len(d)
    BY <1>1, <1>2, JoinedFacts, SymbolFacts
  <2>4. \A i \in 1 .. Len(a) : b[i] = a[i]
    BY <1>1, <1>2
  <2>5. b[Len(a) + 1] = "@"
    BY <1>1, <1>2
  <2>6. \A i \in 1 .. Len(d) : b[Len(a) + 1 + i] = d[i]
    BY <1>1, <1>2
  <2> HIDE DEF b
  <2>7. ASSUME NEW i \in 1 .. Len(b), b[i] = "@" PROVE i = Len(a) + 1
    <3>1. CASE i <= Len(a)
      BY <2>1, <2>2, <2>4, <2>7, <3>1
    <3>2. CASE i > Len(a) + 1
      <4> DEFINE j == i - Len(a) - 1
      <4>1. j \in 1 .. Len(d) /\ i = Len(a) + 1 + j
        BY <2>2, <2>3, <3>2
      <4> HIDE DEF j
      <4>2. b[i] = d[j]
        BY <2>6, <4>1
      <4> QED
        BY <1>2, <2>7, <4>1, <4>2
    <3> QED
      BY <2>2, <2>3, <3>1, <3>2
  <2>8. AtMostOneAt(b)
    BY <2>7 DEF AtMostOneAt
  <2>9. Len(a) + 1 \in 1 .. Len(b)
    BY <2>2, <2>3
  <2> QED
    BY <1>3, <1>5, <2>3, <2>5, <2>8, <2>9
<1> QED
  BY <1>4, <1>5

LEMMA ConsFacts ==
  ASSUME NEW T, NEW x \in T, NEW d \in Seq(T)
  PROVE  <<x>> \o d \in Seq(T) /\ <<x>> \o d # <<>> /\ (<<x>> \o d)[1] = x
OBVIOUS

(* check_domain and check_mailaddress find what the settings ask for.      *)
LEMMA WantedFacts ==
  ASSUME cfg \in Configs, NEW a \in Seq(Symbols), AtMostOneAt(a),
         NEW p \in 1 .. Len(a), a[p] = "@"
  PROVE  Wanted(a) <=> InMyDomain(a) /\ (Listed(a) \/ (cfg.ldapcheck /\ a \in directory))
<1>1. /\ \A d \in cfg.mydomain : d \in Seq(Symbols)
      /\ \A e \in cfg.savemailaddress : e \in Seq(Symbols)
  <2>1. /\ \A d \in cfg.mydomain : d \in Seq(STRING)
        /\ \A e \in cfg.savemailaddress : e \in Seq(STRING)
    BY FilterAssumption
  <2> QED
    BY <2>1, SymbolFacts
<1>2. ASSUME NEW d \in cfg.mydomain
      PROVE  FromAt(a) = <<"@">> \o d <=> IsSuffix(<<"@">> \o d, a)
  <2> DEFINE x == <<"@">> \o d
  <2>1. x \in Seq(Symbols) /\ x # <<>> /\ x[1] = "@"
    BY <1>1, ConsFacts, SymbolFacts
  <2> HIDE DEF x
  <2>2. FromAt(a) = x <=> IsSuffix(x, a)
    BY <2>1, SuffixAtAt
  <2> QED
    BY <2>2 DEF x
<1>3. ASSUME NEW e \in cfg.savemailaddress
      PROVE  EntryMatches(e, a) <=>
               /\ e # <<>>
               /\ IF Contains(Tail(e), "@") THEN e = a ELSE IsSuffix(e, a)
  <2>1. e \in Seq(Symbols)
    BY <1>1
  <2>2. CASE e = <<>>
    BY <2>2 DEF EntryMatches, Contains
  <2>3. CASE e # <<>>
    <3>1. /\ Len(e) \in Nat \ {0} /\ Head(e) = e[1]
          /\ Len(Tail(e)) = Len(e) - 1
          /\ \A i \in 1 .. Len(e) - 1 : Tail(e)[i] = e[i + 1]
      BY <2>1, <2>3, TailFacts
    <3>2. Contains(Tail(e), "@") <=> \E i \in 2 .. Len(e) : e[i] = "@"
      <4>1. ASSUME NEW i \in 1 .. Len(e) - 1, Tail(e)[i] = "@"
            PROVE  \E j \in 2 .. Len(e) : e[j] = "@"
        <5>1. i + 1 \in 2 .. Len(e) /\ e[i + 1] = "@"
          BY <3>1, <4>1
        <5> QED
          BY <5>1
      <4>2. ASSUME NEW j \in 2 .. Len(e), e[j] = "@"
            PROVE  \E i \in 1 .. Len(e) - 1 : Tail(e)[i] = "@"
        <5>1. j - 1 \in 1 .. Len(e) - 1 /\ (j - 1) + 1 = j
          BY <3>1
        <5>2. Tail(e)[j - 1] = "@"
          BY <3>1, <4>2, <5>1
        <5> QED
          BY <5>1, <5>2
      <4> QED
        BY <3>1, <4>1, <4>2 DEF Contains
    <3>3. Contains(e, "@") <=> e[1] = "@" \/ \E i \in 2 .. Len(e) : e[i] = "@"
      BY <3>1 DEF Contains
    <3>4. CASE e[1] = "@" /\ ~Contains(Tail(e), "@")
      <4>1. FromAt(a) = e <=> IsSuffix(e, a)
        BY <2>1, <2>3, <3>4, SuffixAtAt
      <4> QED
        BY <2>3, <3>1, <3>3, <3>4, <4>1 DEF EntryMatches
    <3>5. CASE e[1] = "@" /\ Contains(Tail(e), "@")
      <4>1. PICK i \in 2 .. Len(e) : e[i] = "@"
        BY <3>2, <3>5
      <4>2. e # a
        <5>1. 1 \in 1 .. Len(e) /\ i \in 1 .. Len(e) /\ i # 1
          BY <3>1
        <5> QED
          BY <3>5, <4>1, <5>1 DEF AtMostOneAt
      <4>3. FromAt(a) # e
        <5> SUFFICES ASSUME FromAt(a) = e PROVE FALSE
          OBVIOUS
        <5>1. /\ Len(e) = Len(a) - p + 1
              /\ \A k \in 1 .. Len(a) - p + 1 : e[k] = a[p + k - 1]
          BY FromAtFacts
        <5>2. e[i] = a[p + i - 1] /\ p + i - 1 \in 1 .. Len(a) /\ p + i - 1 # p
          BY <5>1
        <5> QED
          BY <4>1, <5>2 DEF AtMostOneAt
      <4> QED
        BY <3>1, <3>3, <3>5, <4>2, <4>3 DEF EntryMatches
    <3>6. CASE e[1] # "@" /\ Contains(Tail(e), "@")
      BY <2>3, <3>1, <3>2, <3>3, <3>6 DEF EntryMatches
    <3>7. CASE e[1] # "@" /\ ~Contains(Tail(e), "@")
      BY <2>3, <3>1, <3>2, <3>3, <3>7 DEF EntryMatches
    <3> QED
      BY <3>4, <3>5, <3>6, <3>7
  <2> QED
    BY <2>2, <2>3
<1>4. InMyDomain(a) <=> \E d \in cfg.mydomain : IsSuffix(<<"@">> \o d, a)
  BY <1>2 DEF InMyDomain
<1>5. Listed(a) <=> \E e \in cfg.savemailaddress \ {<<>>} :
                      IF Contains(Tail(e), "@") THEN e = a ELSE IsSuffix(e, a)
  BY <1>3 DEF Listed
<1> QED
  BY <1>4, <1>5 DEF Wanted

(* When make_savelist has succeeded, its list ends and holds, for any      *)
(* number of recipients, exactly the addresses the settings ask for: what  *)
(* check_domain, check_mailaddress and the LDAP searches decide one by one *)
(* and the lists they are moved between add up to the selection.           *)
THEOREM SavedRight == PlainAddresses => (Spec => []SavesWhatIsWanted)
<1> SUFFICES ASSUME PlainAddresses PROVE Spec => []SavesWhatIsWanted
  OBVIOUS
<1>1. ASSUME Inv PROVE SavesWhatIsWanted
  <2> SUFFICES ASSUME pc = "saved"
               PROVE  /\ Walk(save_h)[MostRecipients + 1] = NULL
                      /\ Range(Walk(save_h)) \ {NULL}
                           = {n \in DOMAIN Checked : Wanted(Address(n))}
    BY DEF SavesWhatIsWanted
  <2>1. PICK S \in Seq(Nodes), R \in Seq(Nodes) : Memory(S, R) /\ Selected(S, R)
    BY <1>1 DEF Inv, Sound
  <2>2. nxt \in LinksOnly /\ List(nxt, S, save_h)
    BY <1>1, <2>1, TypeFacts DEF Inv, Memory, Held, SaveHead
  <2>3. /\ Walk(save_h)[MostRecipients + 1] = NULL
        /\ Range(Walk(save_h)) \ {NULL} = Range(S)
    BY <2>2, WalkFacts
  <2>4. /\ message \in Messages /\ cfg \in Configs /\ count = Len(Checked)
    BY <1>1 DEF Inv, Counted
  <2>5. DOMAIN Checked = 1 .. count
    BY <2>4, CheckedFacts
  <2>6. Range(S) = {n \in DOMAIN Checked : Direct(n) \/ (Asked(n) /\ Known(n))}
    <3>1. Range(R) = {}
      BY <2>1 DEF Selected, Range
    <3> QED
      BY <2>1, <2>5, <3>1 DEF Selected
  <2>7. ASSUME NEW n \in DOMAIN Checked
        PROVE  Direct(n) \/ (Asked(n) /\ Known(n)) <=> Wanted(Address(n))
    <3>1. /\ Address(n) \in Seq(Symbols) /\ AtMostOneAt(Address(n))
          /\ \E p \in 1 .. Len(Address(n)) : Address(n)[p] = "@"
      BY <2>4, AddressFacts
    <3>2. Wanted(Address(n)) <=>
            /\ InMyDomain(Address(n))
            /\ Listed(Address(n)) \/ (cfg.ldapcheck /\ Address(n) \in directory)
      BY <2>4, <3>1, WantedFacts
    <3> QED
      BY <3>2 DEF Direct, Asked, Known
  <2> QED
    BY <2>3, <2>6, <2>7
<1> QED
  BY Invariance, <1>1, PTL
==============================================================================
