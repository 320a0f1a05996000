--------------------------- MODULE MaildirStoreMC ---------------------------
(* Instances of MaildirStore for TLC: two stores that share a folder.      *)
EXTENDS MaildirStore

CONSTANTS s1, s2

A == <<"a">>
AB == <<"a", "b">>

PlainAndPacked == s1 :> {"maildrop", "gzip"} @@ s2 :> {"gzip"}

(* Two of the three addresses of s2 have one folder.                       *)
SharedFolders == s1 :> <<A>> @@ s2 :> <<AB, A, AB>>
=============================================================================
