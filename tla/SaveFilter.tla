----------------------------- MODULE SaveFilter -----------------------------
(***************************************************************************)
(* For which addresses a message is kept: make_savelist of filter.c, with  *)
(* the linked lists it builds and the memory of their nodes, up to         *)
(* eom_cleanup, which gives the list back.                                 *)
(*                                                                         *)
(* An address is a sequence of symbols, one of them "@"; upper and lower   *)
(* case are the same symbol.  Node n of a list, once allocated, holds the  *)
(* n-th address that is judged.                                            *)
(*                                                                         *)
(*   "judge" -> ("ldap" -> "search") -> "saved" -> "cleanup" -> "released" *)
(*                                                                         *)
(* or "freeLdap" -> "freeSave" -> "failed"; "broken" when freed memory is  *)
(* used, which has no defined outcome.                                     *)
(***************************************************************************)
EXTENDS Integers, Sequences, SequencesExt

CONSTANTS
  Messages,     (* [from, rcpts]: envelope sender and recipients           *)
  Configs,      (* [savepolicy, mydomain, savemailaddress, defaultdomain,  *)
                (* ldapcheck], the settings that matter here               *)
  Directories,  (* sets of addresses an LDAP server may know               *)
  MostRecipients,  (* bound: recipients of one message                     *)
  Faults        (* a subset of FaultKinds                                  *)

(* The first search and a later one are told apart: they leave different   *)
(* lists behind.                                                           *)
FaultKinds == {"connect", "firstSearch", "laterSearch"}

Policies == {"both", "onlyfrom", "onlyto", "none"}

ASSUME FilterAssumption ==
  /\ MostRecipients \in Nat
  /\ \A m \in Messages :
       /\ m.from \in Seq(STRING) /\ m.rcpts \in Seq(Seq(STRING))
       /\ Len(m.rcpts) <= MostRecipients
  /\ \A c \in Configs :
       /\ c.savepolicy \in Policies /\ c.ldapcheck \in BOOLEAN
       /\ c.mydomain \cup c.savemailaddress \subseteq Seq(STRING)
       /\ c.defaultdomain \in Seq(STRING)
  /\ Faults \subseteq FaultKinds

VARIABLES
  message, cfg, directory,  (* the input                                   *)
  pc,           (* the next step                                           *)
  count,        (* how many addresses have been judged                     *)
  heap,         (* per node: "unused", "live" or "freed"                   *)
  nxt,          (* per node: next                                          *)
  save_h, save_t, ldap_h, ldap_t,
  cursor        (* list of check_ldap, tmplist of free_strlist             *)

input == <<message, cfg, directory>>
lists == <<heap, nxt, save_h, save_t, ldap_h, ldap_t>>
vars == <<input, pc, count, lists, cursor>>

NULL == 0
Nodes == 1 .. MostRecipients + 1

-----------------------------------------------------------------------------
(* Addresses *)

(* complement_address                                                      *)
Complemented(a) == IF Contains(a, "@") THEN a ELSE a \o <<"@">> \o cfg.defaultdomain

(* strchr(a, '@'), for an address that has one                             *)
FromAt(a) == SubSeq(a, SelectInSeq(a, LAMBDA x : x = "@"), Len(a))

(* check_domain *)
InMyDomain(a) == \E d \in cfg.mydomain : FromAt(a) = <<"@">> \o d

(* Mutant: an empty entry is not passed over.                              *)
EmptyEntryMatches(e, a) ==
  \/ ~Contains(e, "@") /\ IsSuffix(e, a)
  \/ Contains(e, "@") /\ Head(e) = "@" /\ FromAt(a) = e
  \/ Contains(e, "@") /\ Head(e) # "@" /\ a = e

(* check_mailaddress, for one entry of SaveMailAddress                     *)
EntryMatches(e, a) ==
  \/ e # <<>> /\ ~Contains(e, "@") /\ IsSuffix(e, a)
  \/ Contains(e, "@") /\ Head(e) = "@" /\ FromAt(a) = e
  \/ Contains(e, "@") /\ Head(e) # "@" /\ a = e

Listed(a) == \E e \in cfg.savemailaddress : EntryMatches(e, a)

(* The addresses make_savelist judges, in this order: nothing makes them   *)
(* unique.                                                                 *)
Checked ==
  (IF cfg.savepolicy \in {"both", "onlyfrom"} THEN <<message.from>> ELSE <<>>)
  \o (IF cfg.savepolicy \in {"both", "onlyto"} THEN message.rcpts ELSE <<>>)

Address(n) == Complemented(Checked[n])

-----------------------------------------------------------------------------
(* Lists *)

(* push_strlist and attach_strlist: the links after node n was put at the  *)
(* end of the list from h to t.                                            *)
Linked(n, h, t) ==
  [(IF h = NULL THEN nxt ELSE [nxt EXCEPT ![t] = n]) EXCEPT ![n] = NULL]

(* judge_mail *)
Judge ==
  /\ pc = "judge" /\ count < Len(Checked)
  /\ count' = count + 1
  /\ LET n == count + 1
         a == Address(n)
     IN
       \/ /\ InMyDomain(a) /\ Listed(a)
          /\ heap' = [heap EXCEPT ![n] = "live"]
          /\ nxt' = Linked(n, save_h, save_t)
          /\ save_h' = IF save_h = NULL THEN n ELSE save_h
          /\ save_t' = n
          /\ UNCHANGED <<ldap_h, ldap_t>>
       \/ /\ InMyDomain(a) /\ ~Listed(a) /\ cfg.ldapcheck
          /\ heap' = [heap EXCEPT ![n] = "live"]
          /\ nxt' = Linked(n, ldap_h, ldap_t)
          /\ ldap_h' = IF ldap_h = NULL THEN n ELSE ldap_h
          /\ ldap_t' = n
          /\ UNCHANGED <<save_h, save_t>>
       \/ /\ ~InMyDomain(a) \/ (~Listed(a) /\ ~cfg.ldapcheck)
          /\ UNCHANGED lists
  /\ UNCHANGED <<input, pc, cursor>>

(* Mutant: asks the LDAP server although no address needs it.              *)
JudgeDoneAlwaysSearches ==
  /\ pc = "judge" /\ count = Len(Checked)
  /\ pc' = IF cfg.ldapcheck THEN "ldap" ELSE "saved"
  /\ UNCHANGED <<input, count, lists, cursor>>

JudgeDone ==
  /\ pc = "judge" /\ count = Len(Checked)
  /\ pc' = IF ldap_h = NULL THEN "saved" ELSE "ldap"
  /\ UNCHANGED <<input, count, lists, cursor>>

(* check_ldap: open, set option, bind.                                     *)
Connect ==
  /\ pc = "ldap"
  /\ cursor' = ldap_h
  /\ pc' = "search"
  /\ UNCHANGED <<input, count, lists>>

(* make_savelist frees the two lists, first ldaplist_h.                    *)
GiveUp == cursor' = ldap_h /\ pc' = "freeLdap"

ConnectFails ==
  /\ "connect" \in Faults
  /\ pc = "ldap"
  /\ GiveUp
  /\ UNCHANGED <<input, count, lists>>

SearchHit ==
  /\ pc = "search" /\ cursor # NULL
  /\ Address(cursor) \in directory
  /\ nxt' = Linked(cursor, save_h, save_t)
  /\ save_h' = IF save_h = NULL THEN cursor ELSE save_h
  /\ save_t' = cursor
  /\ cursor' = nxt[cursor]
  /\ UNCHANGED <<input, pc, count, heap, ldap_h, ldap_t>>

SearchMiss ==
  /\ pc = "search" /\ cursor # NULL
  /\ Address(cursor) \notin directory
  /\ heap' = [heap EXCEPT ![cursor] = "freed"]
  /\ cursor' = nxt[cursor]
  /\ UNCHANGED <<input, pc, count, nxt, save_h, save_t, ldap_h, ldap_t>>

SearchFails ==
  /\ pc = "search" /\ cursor # NULL
  /\ (IF cursor = ldap_h THEN "firstSearch" ELSE "laterSearch") \in Faults
  /\ GiveUp
  /\ UNCHANGED <<input, count, lists>>

SearchDone ==
  /\ pc = "search" /\ cursor = NULL
  /\ pc' = "saved"
  /\ UNCHANGED <<input, count, lists, cursor>>

(* eom_cleanup, at the end of the message or at once if the list is empty. *)
Cleanup ==
  /\ pc = "saved"
  /\ cursor' = save_h
  /\ save_h' = NULL
  /\ pc' = "cleanup"
  /\ UNCHANGED <<input, count, heap, nxt, save_t, ldap_h, ldap_t>>

Freeing == pc \in {"freeLdap", "freeSave", "cleanup"}

(* free_strlist, one node *)
FreeNode ==
  /\ Freeing /\ cursor # NULL
  /\ \/ /\ heap[cursor] = "live"
        /\ heap' = [heap EXCEPT ![cursor] = "freed"]
        /\ cursor' = nxt[cursor]
        /\ UNCHANGED pc
     \/ /\ heap[cursor] # "live"
        /\ pc' = "broken"
        /\ UNCHANGED <<heap, cursor>>
  /\ UNCHANGED <<input, count, nxt, save_h, save_t, ldap_h, ldap_t>>

(* Mutant: the list of addresses already accepted is kept.                 *)
FreeDoneKeepsSaved ==
  /\ Freeing /\ cursor = NULL
  /\ save_h' = NULL /\ save_t' = NULL
  /\ pc' = IF pc = "cleanup" THEN "released" ELSE "failed"
  /\ UNCHANGED <<input, count, heap, nxt, ldap_h, ldap_t, cursor>>

(* free_strlist returns; after ldaplist_h comes *savelist_h.               *)
FreeDone ==
  /\ Freeing /\ cursor = NULL
  /\ \/ /\ pc = "freeLdap"
        /\ cursor' = save_h
        /\ pc' = "freeSave"
        /\ UNCHANGED <<save_h, save_t>>
     \/ /\ pc = "freeSave"
        /\ save_h' = NULL /\ save_t' = NULL
        /\ pc' = "failed"
        /\ UNCHANGED cursor
     \/ /\ pc = "cleanup"
        /\ pc' = "released"
        /\ UNCHANGED <<save_h, save_t, cursor>>
  /\ UNCHANGED <<input, count, heap, nxt, ldap_h, ldap_t>>

Init ==
  /\ message \in Messages /\ cfg \in Configs /\ directory \in Directories
  /\ pc = "judge" /\ count = 0
  /\ heap = [n \in Nodes |-> "unused"]
  /\ nxt = [n \in Nodes |-> NULL]
  /\ save_h = NULL /\ save_t = NULL /\ ldap_h = NULL /\ ldap_t = NULL
  /\ cursor = NULL

AllDone == pc \in {"released", "failed", "broken"} /\ UNCHANGED vars

Next ==
  \/ Judge \/ JudgeDone \/ Connect \/ ConnectFails
  \/ SearchHit \/ SearchMiss \/ SearchFails \/ SearchDone
  \/ Cleanup \/ FreeNode \/ FreeDone \/ AllDone

Spec == Init /\ [][Next]_vars

-----------------------------------------------------------------------------
(* Properties *)

Pointers == Nodes \cup {NULL}

(* The nodes one comes to from h, one after the other.                     *)
Walk(h) ==
  LET at[k \in 0 .. MostRecipients + 1] ==
        IF k = 0 THEN h ELSE IF at[k - 1] = NULL THEN NULL ELSE nxt[at[k - 1]]
  IN  at

(* Type invariant; only nodes of judged addresses are in use, and the LDAP *)
(* server is asked only if an address needs it.                            *)
TypeOK ==
  /\ count \in Nodes \cup {0}
  /\ heap \in [Nodes -> {"unused", "live", "freed"}]
  /\ nxt \in [Nodes -> Pointers]
  /\ {save_h, save_t, ldap_h, ldap_t, cursor} \subseteq Pointers
  /\ pc \in {"judge", "ldap", "search", "saved", "cleanup", "freeLdap",
             "freeSave", "failed", "released", "broken"}
  /\ \A n \in Nodes : heap[n] # "unused" => n <= count
  /\ pc \in {"ldap", "search"} => ldap_h # NULL

(* What the settings ask for, of an address with a domain: its domain is   *)
(* ours, and it ends with an entry of SaveMailAddress (is the entry, if    *)
(* that names a user), or, with LDAP, the directory knows it.              *)
Wanted(a) ==
  /\ \E d \in cfg.mydomain : IsSuffix(<<"@">> \o d, a)
  /\ \/ \E e \in cfg.savemailaddress \ {<<>>} :
          IF Contains(Tail(e), "@") THEN e = a ELSE IsSuffix(e, a)
     \/ cfg.ldapcheck /\ a \in directory

(* When make_savelist has succeeded, the list ends (and so is no ring) and *)
(* its nodes are those of the addresses of the envelope that the policy    *)
(* names and the settings ask for.                                         *)
SavesWhatIsWanted ==
  pc = "saved" =>
    LET at == Walk(save_h) IN
      /\ at[MostRecipients + 1] = NULL
      /\ Range(at) \ {NULL} = {n \in DOMAIN Checked : Wanted(Address(n))}

(* Memory of a list is not used after it was freed, on any path.           *)
NothingFreedTwice == pc # "broken"

(* Whichever way make_savelist ends, and whichever nodes have moved from    *)
(* the LDAP list to the save list, the memory of every node is given back   *)
(* by the end of the message, once.                                         *)
AllGivenBack ==
  /\ NothingFreedTwice
  /\ pc \in {"released", "failed"} =>
       save_h = NULL /\ \A n \in Nodes : heap[n] # "live"
=============================================================================
