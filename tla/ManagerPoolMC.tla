---------------------------- MODULE ManagerPoolMC ----------------------------
(* Instances of ManagerPool for TLC: clients as model values.              *)
EXTENDS ManagerPool

Symmetry == Permutations(Conns)

TwoPasswords == {<<"pw">>, <<"new">>}
OnePassword == {<<"pw">>}

CRLF == <<"CR", "LF">>
Texts == { <<>>, <<"LOGIN">>, <<"LOGIN", "SP", "pw">>, <<"SP", "LOGIN", "SP", "new", "SP">>,
           <<"LOGIN", "SP", "pw", "SP", "x">>, <<"LOGIN", "pw">>, <<"RELOAD">>,
           <<"RELOAD", "SP">>, <<"RELOAD", "SP", "x">>, <<"RELOAD", "LF">>,
           <<"QUIT">>, <<"CR">> }

(* With MAX_CMD_LEN 6 a line of five characters is the longest that is     *)
(* read; some are longer, by one or two, with a CR where the buffer ends,  *)
(* or with a command behind it.                                            *)
Long == [i \in 1 .. 6 |-> "x"]
Lines ==
  {t \o CRLF : t \in Texts \cup {Long, Append(Long, "CR"), Long \o <<"LF", "RELOAD">>}}
  \cup {Long \o CRLF \o <<"RELOAD">> \o CRLF, <<"RELOAD", "LF">>, Append(Long, "x")}
Session == {t \o CRLF : t \in {<<"LOGIN", "SP", "pw">>, <<"RELOAD">>, <<"QUIT">>}}

(* read_line takes one line, however long it is, and keeps its text if     *)
(* that is shorter than MAX_CMD_LEN.                                       *)
ASSUME ReadsLines ==
  \A n \in 0 .. 9 : \A s \in [1 .. n -> {"CR", "LF", "x"}] :
    LET ends == {i \in 1 .. n - 1 : s[i] = "CR" /\ s[i + 1] = "LF"}
    IN  IF ends = {} THEN ReadTaken(s) = 0
        ELSE /\ ReadTaken(s) = Min(ends) + 1
             /\ read_line(s) = IF Min(ends) - 1 < MAX_CMD_LEN
                               THEN SubSeq(s, 1, Min(ends) - 1) ELSE R_TOOLONG
=============================================================================
