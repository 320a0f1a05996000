---------------------------- MODULE ConfigLoadMC ----------------------------
(* Module files and configuration files for TLC: some that are right, and  *)
(* each of them with one or two lines more or one line less.               *)
EXTENDS ConfigLoad

Comment == [kind |-> "comment"]
Fields(name, lib) == [kind |-> "fields", fields |-> <<"LoadModule", name, lib>>]
Odd(fields) == [kind |-> "fields", fields |-> fields]
Set(key, num, text) ==
    [kind |-> "setting", key |-> key, blank |-> FALSE, num |-> num, text |-> text]
S(key, text) == Set(key, 0, text)
N(key, num) == Set(key, num, <<>>)

MCModuleFiles == {
    <<>>,
    <<Fields("lda", "liblda.so")>>,
    <<Comment, Fields("maildrop", "libmaildrop.so"), Fields("lda", "liblda.so")>>,
    <<Odd(<<"loadmodule", "gzip", "libgzip.so", "", "">>),
      Fields("enczip", "libenczip.so"), Fields("lda", "liblda.so")>>,
    <<Fields("dummy", "libdummy.so")>>,
    <<Fields("maildrop", "libmaildrop.so"), Fields("maildrop", "libmaildrop.so")>>,
    <<Fields("lda", "liblda.so"), Fields("maildrop", "liblda.so")>>,
    <<Fields("lda", "liblda-old.so")>>,
    <<Fields("lda", "liblda.so"), Odd(<<"LoadModule", "lda", "">>)>>,
    <<Fields("lda", "liblda.so"), Odd(<<"LoadModule", "lda", "liblda.so", "x">>)>>,
    <<Odd(<<"Module", "lda", "liblda.so">>)>>,
    <<[kind |-> "unterminated"]>> }

Functions(m) == {<<m, f>> : f \in {"init", "header", "body", "eom", "abort"}}
MCSymbols == [l \in {"liblda.so", "libmaildrop.so", "libgzip.so", "libenczip.so",
                     "libdummy.so", "liblda-old.so"} |->
                CASE l = "liblda.so" -> Functions("lda")
                  [] l = "libmaildrop.so" -> Functions("maildrop")
                  [] l = "libgzip.so" -> Functions("gzip")
                  [] l = "libenczip.so" -> Functions("enczip")
                  [] l = "libdummy.so" -> Functions("dummy")
                  [] l = "liblda-old.so" -> Functions("lda") \ {<<"lda", "abort">>}]

Main == << S("AdminPassword", <<"pw">>), S("MyDomain", <<"a", ",", "b", ",", "a">>),
           S("SaveMailAddress", <<"@a">>) >>
Lda == << S("LDACommand", <<"deliver", " ", "-d">>) >>
Maildrop == << S("MailDir", <<"/var">>), S("MailFolder", <<".", "%", "y">>) >>
Zipped == << S("GzipMailDir", <<"/var">>), S("GzipMailFolder", <<".", "y">>),
          S("EncZipPassword", <<"pw">>), S("EncZipMailDir", <<"/var">>),
          S("EncZipMailFolder", <<".", "y">>) >>
Bases == { Main, Main \o Lda, Main \o Maildrop \o Lda, Zipped \o Main \o Lda,
           Main \o <<S("Dummy", <<"y">>)>> }

Extras == { Comment, [kind |-> "unterminated"],
    S("AdminPassword", <<>>), S("AdminPassword", <<"y">>), S("LDACommand", <<"y">>),
    S("MailFolder", <<".", ".", "y">>), S("DotDelimiter", <<"/">>),
    S("EncZipPassword", <<>>), S("syslogfacility", <<"none">>),
    S("SyslogFacility", <<"stderr">>), S("SyslogFacility", <<"local0">>),
    S("ErrorAction", <<"Accept">>), S("LdapScope", <<"Subtree">>),
    S("LdapMailFilter", <<>>), S("SaveIgnoreHeader", <<"(">>),
    S("SaveIgnoreHeader", <<"^X">>), S("Unknown", <<"y">>),
    [S("MyDomain", <<"y">>) EXCEPT !.blank = TRUE],
    N("ListenPort", 0), N("ListenPort", -1), N("ListenPort", UINT + 25),
    N("ListenPort", 70000), Set("ListenPort", 25, <<" ", " ">>),
    Set("ListenPort", 25, <<"y">>), N("TimeOut", 0), N("TimeOut", UINT \div 2),
    N("LdapCheck", 1) }
Some == { S("AdminPassword", <<"y">>), S("syslogfacility", <<"none">>), N("ListenPort", 25),
          S("LdapMailFilter", <<>>) }

MCFiles ==
    Bases \cup {Main \o <<S("Dummy", <<>>)>>}
          \cup {Append(b, x) : b \in Bases, x \in Extras}
          \cup {RemoveAt(b, i) : b \in {Main \o Lda, Main \o Maildrop \o Lda}, i \in 1 .. 4}
          \cup {b \o <<x, y>> : b \in {Main \o Lda}, x \in Some, y \in Some}

MCPaths == {<<"deliver">>, <<"y">>, <<"/usr/bin/gzip">>, <<"/usr/bin/zip">>}
MCDirectories == {<<"/var">>}
MCAddresses == {<<"127.0.0.1">>}
MCPatterns == {<<"^X">>}
MCLetters == {"y", "pw"}
MCFolded == [t \in {"LoadModule", "loadmodule", "syslogfacility", "Accept", "Subtree"} |->
               CASE t \in {"LoadModule", "loadmodule"} -> "loadmodule"
                 [] t = "syslogfacility" -> "SyslogFacility"
                 [] t = "Accept" -> "accept"
                 [] t = "Subtree" -> "subtree"]
=============================================================================
