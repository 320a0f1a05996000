------------------------- MODULE ConfigLoad_proofs -------------------------
(***************************************************************************)
(* Proofs about ConfigLoad, for every module.conf, messasy.conf, set of    *)
(* libraries and number of loads.                                          *)
(***************************************************************************)
EXTENDS ConfigLoad, SequenceLemmas

(***************************************************************************)
(* The tables of entries.                                                  *)
(***************************************************************************)
EntryFields == {"name", "type", "off", "default", "test"}
IsTable(t, n) ==
  /\ IsSeq(t) /\ Len(t) = n /\ DOMAIN t = 1 .. n
  /\ \A i \in 1 .. n : t[i].off = i /\ DOMAIN t[i] = EntryFields

LEMMA IsTableOf ==
  ASSUME NEW t, NEW n \in Nat, DOMAIN t = 1 .. n, t = [i \in 1 .. n |-> t[i]],
         \A i \in 1 .. n : t[i].off = i /\ DOMAIN t[i] = EntryFields
  PROVE  IsTable(t, n)
  BY IsSeqOf DEF IsTable

LEMMA Tables ==
  /\ IsTable(MainCfe, 23) /\ IsTable(LdaCfe, 1) /\ IsTable(MaildropCfe, 4)
  /\ IsTable(GzipCfe, 5) /\ IsTable(EnczipCfe, 6) /\ IsTable(DummyCfe, 1)
  <1>1. IsTable(MainCfe, 23)
    <2>1. DOMAIN MainCfe = 1 .. 23 /\ MainCfe = [i \in 1 .. 23 |-> MainCfe[i]]
      BY DEF MainCfe, Table, Str, Num
    <2>2. \A i \in 1 .. 23 : MainCfe[i].off = i /\ DOMAIN MainCfe[i] = EntryFields
      BY DEF MainCfe, Table, Str, Num, EntryFields
    <2>3. QED
      BY <2>1, <2>2, IsTableOf
  <1>2. IsTable(LdaCfe, 1)
    <2>1. DOMAIN LdaCfe = 1 .. 1 /\ LdaCfe = [i \in 1 .. 1 |-> LdaCfe[i]]
      BY DEF LdaCfe, Table, Str, Num
    <2>2. \A i \in 1 .. 1 : LdaCfe[i].off = i /\ DOMAIN LdaCfe[i] = EntryFields
      BY DEF LdaCfe, Table, Str, Num, EntryFields
    <2>3. QED
      BY <2>1, <2>2, IsTableOf
  <1>3. IsTable(MaildropCfe, 4)
    <2>1. DOMAIN MaildropCfe = 1 .. 4 /\ MaildropCfe = [i \in 1 .. 4 |-> MaildropCfe[i]]
      BY DEF MaildropCfe, Table, Str, Num
    <2>2. \A i \in 1 .. 4 : MaildropCfe[i].off = i /\ DOMAIN MaildropCfe[i] = EntryFields
      BY DEF MaildropCfe, Table, Str, Num, EntryFields
    <2>3. QED
      BY <2>1, <2>2, IsTableOf
  <1>4. IsTable(GzipCfe, 5)
    <2>1. DOMAIN GzipCfe = 1 .. 5 /\ GzipCfe = [i \in 1 .. 5 |-> GzipCfe[i]]
      BY DEF GzipCfe, Table, Str, Num
    <2>2. \A i \in 1 .. 5 : GzipCfe[i].off = i /\ DOMAIN GzipCfe[i] = EntryFields
      BY DEF GzipCfe, Table, Str, Num, EntryFields
    <2>3. QED
      BY <2>1, <2>2, IsTableOf
  <1>5. IsTable(EnczipCfe, 6)
    <2>1. DOMAIN EnczipCfe = 1 .. 6 /\ EnczipCfe = [i \in 1 .. 6 |-> EnczipCfe[i]]
      BY DEF EnczipCfe, Table, Str, Num
    <2>2. \A i \in 1 .. 6 : EnczipCfe[i].off = i /\ DOMAIN EnczipCfe[i] = EntryFields
      BY DEF EnczipCfe, Table, Str, Num, EntryFields
    <2>3. QED
      BY <2>1, <2>2, IsTableOf
  <1>6. IsTable(DummyCfe, 1)
    <2>1. DOMAIN DummyCfe = 1 .. 1 /\ DummyCfe = [i \in 1 .. 1 |-> DummyCfe[i]]
      BY DEF DummyCfe, Table, Str, Num
    <2>2. \A i \in 1 .. 1 : DummyCfe[i].off = i /\ DOMAIN DummyCfe[i] = EntryFields
      BY DEF DummyCfe, Table, Str, Num, EntryFields
    <2>3. QED
      BY <2>1, <2>2, IsTableOf
  <1>7. QED
    BY <1>1, <1>2, <1>3, <1>4, <1>5, <1>6

LEMMA Mandatory ==
  /\ LdaCfe[1].default = NULL /\ MaildropCfe[1].default = NULL
  /\ GzipCfe[2].default = NULL /\ EnczipCfe[2].default = NULL
  /\ DummyCfe[1].default = NULL
  BY SMTT(30) DEF LdaCfe, MaildropCfe, GzipCfe, EnczipCfe, DummyCfe, Table, Str, Num
(* No keyword is in two tables, or twice in one.                           *)
Apart(t, u) == \A i \in DOMAIN t, j \in DOMAIN u : t[i].name # u[j].name
NamesOnce(t) ==
  \A i, j \in DOMAIN t : t[i].name = t[j].name => i = j

(* The entries of the main table, one by one.                               *)
Describes(e, name, type, test) == e.name = name /\ e.type = type /\ e.test = test

LEMMA MainNames ==
  /\ Describes(MainCfe[1], "ListenIP", "string", "ipaddr")
  /\ Describes(MainCfe[2], "ListenPort", "integer", "port")
  /\ Describes(MainCfe[3], "TimeOut", "integer", "timeout")
  /\ Describes(MainCfe[4], "SyslogFacility", "string", "facility")
  /\ Describes(MainCfe[5], "ErrorAction", "string", "erroraction")
  /\ Describes(MainCfe[6], "CommandPort", "integer", "port")
  /\ Describes(MainCfe[7], "AdminPassword", "string", "none")
  /\ Describes(MainCfe[8], "CommandMaxClients", "integer", "maxclients")
  /\ Describes(MainCfe[9], "CommandTimeOut", "integer", "timeout")
  /\ Describes(MainCfe[10], "SavePolicy", "string", "savepolicy")
  /\ Describes(MainCfe[11], "MyDomain", "string", "none")
  /\ Describes(MainCfe[12], "SaveMailAddress", "string", "none")
  /\ Describes(MainCfe[13], "SaveIgnoreHeader", "string", "none")
  /\ Describes(MainCfe[14], "DefaultDomain", "string", "notnull")
  /\ Describes(MainCfe[15], "LdapCheck", "integer", "boolean")
  /\ Describes(MainCfe[16], "LdapServer", "string", "ipaddr")
  /\ Describes(MainCfe[17], "LdapPort", "integer", "port")
  /\ Describes(MainCfe[18], "LdapBindDn", "string", "none")
  /\ Describes(MainCfe[19], "LdapBindPassword", "string", "none")
  /\ Describes(MainCfe[20], "LdapBaseDn", "string", "none")
  /\ Describes(MainCfe[21], "LdapMailFilter", "string", "none")
  /\ Describes(MainCfe[22], "LdapScope", "string", "ldapscope")
  /\ Describes(MainCfe[23], "LdapTimeout", "integer", "timeout")
  <1>1. Describes(MainCfe[1], "ListenIP", "string", "ipaddr")
    BY SMTT(30) DEF MainCfe, Table, Str, Num, Describes
  <1>2. Describes(MainCfe[2], "ListenPort", "integer", "port")
    BY SMTT(30) DEF MainCfe, Table, Str, Num, Describes
  <1>3. Describes(MainCfe[3], "TimeOut", "integer", "timeout")
    BY SMTT(30) DEF MainCfe, Table, Str, Num, Describes
  <1>4. Describes(MainCfe[4], "SyslogFacility", "string", "facility")
    BY SMTT(30) DEF MainCfe, Table, Str, Num, Describes
  <1>5. Describes(MainCfe[5], "ErrorAction", "string", "erroraction")
    BY SMTT(30) DEF MainCfe, Table, Str, Num, Describes
  <1>6. Describes(MainCfe[6], "CommandPort", "integer", "port")
    BY SMTT(30) DEF MainCfe, Table, Str, Num, Describes
  <1>7. Describes(MainCfe[7], "AdminPassword", "string", "none")
    BY SMTT(30) DEF MainCfe, Table, Str, Num, Describes
  <1>8. Describes(MainCfe[8], "CommandMaxClients", "integer", "maxclients")
    BY SMTT(30) DEF MainCfe, Table, Str, Num, Describes
  <1>9. Describes(MainCfe[9], "CommandTimeOut", "integer", "timeout")
    BY SMTT(30) DEF MainCfe, Table, Str, Num, Describes
  <1>10. Describes(MainCfe[10], "SavePolicy", "string", "savepolicy")
    BY SMTT(30) DEF MainCfe, Table, Str, Num, Describes
  <1>11. Describes(MainCfe[11], "MyDomain", "string", "none")
    BY SMTT(30) DEF MainCfe, Table, Str, Num, Describes
  <1>12. Describes(MainCfe[12], "SaveMailAddress", "string", "none")
    BY SMTT(30) DEF MainCfe, Table, Str, Num, Describes
  <1>13. Describes(MainCfe[13], "SaveIgnoreHeader", "string", "none")
    BY SMTT(30) DEF MainCfe, Table, Str, Num, Describes
  <1>14. Describes(MainCfe[14], "DefaultDomain", "string", "notnull")
    BY SMTT(30) DEF MainCfe, Table, Str, Num, Describes
  <1>15. Describes(MainCfe[15], "LdapCheck", "integer", "boolean")
    BY SMTT(30) DEF MainCfe, Table, Str, Num, Describes
  <1>16. Describes(MainCfe[16], "LdapServer", "string", "ipaddr")
    BY SMTT(30) DEF MainCfe, Table, Str, Num, Describes
  <1>17. Describes(MainCfe[17], "LdapPort", "integer", "port")
    BY SMTT(30) DEF MainCfe, Table, Str, Num, Describes
  <1>18. Describes(MainCfe[18], "LdapBindDn", "string", "none")
    BY SMTT(30) DEF MainCfe, Table, Str, Num, Describes
  <1>19. Describes(MainCfe[19], "LdapBindPassword", "string", "none")
    BY SMTT(30) DEF MainCfe, Table, Str, Num, Describes
  <1>20. Describes(MainCfe[20], "LdapBaseDn", "string", "none")
    BY SMTT(30) DEF MainCfe, Table, Str, Num, Describes
  <1>21. Describes(MainCfe[21], "LdapMailFilter", "string", "none")
    BY SMTT(30) DEF MainCfe, Table, Str, Num, Describes
  <1>22. Describes(MainCfe[22], "LdapScope", "string", "ldapscope")
    BY SMTT(30) DEF MainCfe, Table, Str, Num, Describes
  <1>23. Describes(MainCfe[23], "LdapTimeout", "integer", "timeout")
    BY SMTT(30) DEF MainCfe, Table, Str, Num, Describes
  <1>24. QED
    BY <1>1, <1>2, <1>3, <1>4, <1>5, <1>6, <1>7, <1>8, <1>9, <1>10, <1>11, <1>12, <1>13, <1>14, <1>15, <1>16, <1>17, <1>18, <1>19, <1>20, <1>21, <1>22, <1>23

(* The keywords of the modules' tables.                                    *)
LEMMA LdaNames == LdaCfe[1].name = "LDACommand"
  BY SMTT(30) DEF LdaCfe, Table, Str, Num
LEMMA MaildropNames ==
  /\ MaildropCfe[1].name = "MailDir"
  /\ MaildropCfe[2].name = "MailFolder"
  /\ MaildropCfe[3].name = "DotDelimiter"
  /\ MaildropCfe[4].name = "SlashDelimiter"
  BY SMTT(30) DEF MaildropCfe, Table, Str, Num
LEMMA GzipNames ==
  /\ GzipCfe[1].name = "GzipCommand"
  /\ GzipCfe[2].name = "GzipMailDir"
  /\ GzipCfe[3].name = "GzipMailFolder"
  /\ GzipCfe[4].name = "GzipDotDelimiter"
  /\ GzipCfe[5].name = "GzipSlashDelimiter"
  BY SMTT(30) DEF GzipCfe, Table, Str, Num
LEMMA EnczipNames ==
  /\ EnczipCfe[1].name = "EncZipCommand"
  /\ EnczipCfe[2].name = "EncZipPassword"
  /\ EnczipCfe[3].name = "EncZipMailDir"
  /\ EnczipCfe[4].name = "EncZipMailFolder"
  /\ EnczipCfe[5].name = "EncZipDotDelimiter"
  /\ EnczipCfe[6].name = "EncZipSlashDelimiter"
  BY SMTT(30) DEF EnczipCfe, Table, Str, Num
LEMMA DummyNames == DummyCfe[1].name = "Dummy"
  BY SMTT(30) DEF DummyCfe, Table, Str, Num

LEMMA MainOnce == NamesOnce(MainCfe)
  <1>1. DOMAIN MainCfe = 1 .. 23
    BY Tables DEF IsTable
  <1>2. QED
    BY <1>1, MainNames, SMTT(60) DEF NamesOnce, Describes
LEMMA LdaOnce == NamesOnce(LdaCfe)
  BY Tables, LdaNames, SMTT(30) DEF IsTable, NamesOnce
LEMMA MaildropOnce == NamesOnce(MaildropCfe)
  BY Tables, MaildropNames, SMTT(30) DEF IsTable, NamesOnce
LEMMA GzipOnce == NamesOnce(GzipCfe)
  BY Tables, GzipNames, SMTT(30) DEF IsTable, NamesOnce
LEMMA EnczipOnce == NamesOnce(EnczipCfe)
  BY Tables, EnczipNames, SMTT(30) DEF IsTable, NamesOnce
LEMMA DummyOnce == NamesOnce(DummyCfe)
  BY Tables, DummyNames, SMTT(30) DEF IsTable, NamesOnce
LEMMA MainLda == Apart(MainCfe, LdaCfe)
  BY Tables, MainNames, LdaNames, SMTT(30) DEF Describes, IsTable, Apart
LEMMA MainMaildrop == Apart(MainCfe, MaildropCfe)
  BY Tables, MainNames, MaildropNames, SMTT(30) DEF Describes, IsTable, Apart
LEMMA MainGzip == Apart(MainCfe, GzipCfe)
  BY Tables, MainNames, GzipNames, SMTT(30) DEF Describes, IsTable, Apart
LEMMA MainEnczip == Apart(MainCfe, EnczipCfe)
  BY Tables, MainNames, EnczipNames, SMTT(30) DEF Describes, IsTable, Apart
LEMMA MainDummy == Apart(MainCfe, DummyCfe)
  BY Tables, MainNames, DummyNames, SMTT(30) DEF Describes, IsTable, Apart
LEMMA LdaMaildrop == Apart(LdaCfe, MaildropCfe)
  BY Tables, LdaNames, MaildropNames, SMTT(30) DEF IsTable, Apart
LEMMA LdaGzip == Apart(LdaCfe, GzipCfe)
  BY Tables, LdaNames, GzipNames, SMTT(30) DEF IsTable, Apart
LEMMA LdaEnczip == Apart(LdaCfe, EnczipCfe)
  BY Tables, LdaNames, EnczipNames, SMTT(30) DEF IsTable, Apart
LEMMA LdaDummy == Apart(LdaCfe, DummyCfe)
  BY Tables, LdaNames, DummyNames, SMTT(30) DEF IsTable, Apart
LEMMA MaildropGzip == Apart(MaildropCfe, GzipCfe)
  BY Tables, MaildropNames, GzipNames, SMTT(30) DEF IsTable, Apart
LEMMA MaildropEnczip == Apart(MaildropCfe, EnczipCfe)
  BY Tables, MaildropNames, EnczipNames, SMTT(30) DEF IsTable, Apart
LEMMA MaildropDummy == Apart(MaildropCfe, DummyCfe)
  BY Tables, MaildropNames, DummyNames, SMTT(30) DEF IsTable, Apart
LEMMA GzipEnczip == Apart(GzipCfe, EnczipCfe)
  BY Tables, GzipNames, EnczipNames, SMTT(30) DEF IsTable, Apart
LEMMA GzipDummy == Apart(GzipCfe, DummyCfe)
  BY Tables, GzipNames, DummyNames, SMTT(30) DEF IsTable, Apart
LEMMA EnczipDummy == Apart(EnczipCfe, DummyCfe)
  BY Tables, EnczipNames, DummyNames, SMTT(30) DEF IsTable, Apart

LEMMA ModuleNamed ==
  /\ DOMAIN Modules = {"lda", "maildrop", "gzip", "enczip", "dummy"}
  /\ Modules["lda"] = LdaCfe /\ Modules["maildrop"] = MaildropCfe
  /\ Modules["gzip"] = GzipCfe /\ Modules["enczip"] = EnczipCfe
  /\ Modules["dummy"] = DummyCfe
  BY DEF Modules

IsModuleTable(t) ==
  /\ IsSeq(t) /\ Len(t) \in Nat /\ DOMAIN t = 1 .. Len(t)
  /\ \A i \in DOMAIN t : t[i].off = i /\ DOMAIN t[i] = EntryFields
  /\ NamesOnce(t) /\ Apart(MainCfe, t)
  /\ \E i \in DOMAIN t : t[i].default = NULL

LEMMA ModuleTables == \A m \in DOMAIN Modules : IsModuleTable(Modules[m])
  <1>1. IsModuleTable(LdaCfe)
    BY Tables, Mandatory, LdaOnce, MainLda DEF IsTable, IsModuleTable
  <1>2. IsModuleTable(MaildropCfe)
    BY Tables, Mandatory, MaildropOnce, MainMaildrop DEF IsTable, IsModuleTable
  <1>3. IsModuleTable(GzipCfe)
    BY Tables, Mandatory, GzipOnce, MainGzip DEF IsTable, IsModuleTable
  <1>4. IsModuleTable(EnczipCfe)
    BY Tables, Mandatory, EnczipOnce, MainEnczip DEF IsTable, IsModuleTable
  <1>5. IsModuleTable(DummyCfe)
    BY Tables, Mandatory, DummyOnce, MainDummy DEF IsTable, IsModuleTable
  <1>6. QED
    BY <1>1, <1>2, <1>3, <1>4, <1>5, ModuleNamed

LEMMA ModulesApart ==
  ASSUME NEW m \in DOMAIN Modules, NEW k \in DOMAIN Modules, m # k
  PROVE  Apart(Modules[m], Modules[k])
  <1>1. \A t, u : Apart(t, u) => Apart(u, t)
    BY DEF Apart
  <1>2. QED
    BY <1>1, ModuleNamed, LdaMaildrop, LdaGzip, LdaEnczip, LdaDummy, MaildropGzip,
       MaildropEnczip, MaildropDummy, GzipEnczip, GzipDummy, EnczipDummy

(***************************************************************************)
(* module.conf.                                                            *)
(***************************************************************************)
LEMMA AppendIn ==
  ASSUME NEW W, NEW q \in Seq(W), NEW w \in W
  PROVE  Append(q, w) \in Seq(W)
  OBVIOUS

Passed(lines, i) == lines[i].kind = "comment"

LEMMA NamesFacts ==
  ASSUME NEW A, NEW lines \in Seq(A)
  PROVE  /\ NamesIn(lines)[0] = <<>>
         /\ \A i \in 1 .. Len(lines) :
              NamesIn(lines)[i] = IF Passed(lines, i) THEN NamesIn(lines)[i - 1]
                                  ELSE Append(NamesIn(lines)[i - 1], lines[i].fields[2])
         /\ \A i \in 0 .. Len(lines) : IsSeq(NamesIn(lines)[i])
  <1> DEFINE n == Len(lines)
             W == {lines[i].fields[2] : i \in 1 .. n}
             L == Seq(W)
             Right(f) == f = [i \in 0 .. n |->
               IF i = 0 THEN <<>>
               ELSE IF lines[i].kind = "comment" THEN f[i - 1]
               ELSE Append(f[i - 1], lines[i].fields[2])]
             names == CHOOSE f : Right(f)
             step == [i \in 1 .. n |-> [q \in L |->
                        IF Passed(lines, i) THEN q ELSE Append(q, lines[i].fields[2])]]
  <1>1. n \in Nat /\ \A i \in 1 .. n : lines[i].fields[2] \in W
    OBVIOUS
  <1>2. <<>> \in L
    <2> HIDE DEF W
    <2> QED
      OBVIOUS
  <1>3. step \in [1 .. n -> [L -> L]]
    <2> HIDE DEF W
    <2>1. \A i \in 1 .. n : \A q \in L : Append(q, lines[i].fields[2]) \in L
      BY <1>1, AppendIn
    <2> HIDE DEF L
    <2> QED
      BY <2>1
  <1>4. PICK g \in [0 .. n -> L] :
          g[0] = <<>> /\ \A i \in 1 .. n : g[i] = step[i][g[i - 1]]
    <2> DEFINE e == <<>>
    <2>1. n \in Nat /\ e \in L /\ step \in Steps(L, n)
      BY <1>1, <1>2, <1>3 DEF Steps
    <2> HIDE DEF n, L, step, e
    <2>2. Iterable(L, e, step, n)
      BY <2>1, RecursionExists
    <2> QED
      BY <2>2 DEF Iterable, Iterates, e
  <1>5. \A i \in 1 .. n : g[i - 1] \in L
    <2> HIDE DEF L
    <2> QED
      BY <1>1, SMTT(30)
  <1> DEFINE Next1(f, i) ==
        IF Passed(lines, i) THEN f[i - 1] ELSE Append(f[i - 1], lines[i].fields[2])
  <1>6. \A i \in 1 .. n : g[i] = Next1(g, i)
    <2> HIDE DEF L
    <2> QED
      BY <1>4, <1>5
  <1>7. \A i \in 0 .. n : g[i] \in L
    BY <1>4
  <1>8. Right(g)
    <2> DEFINE right == [i \in 0 .. n |-> IF i = 0 THEN <<>> ELSE Next1(g, i)]
    <2>1. ASSUME NEW i \in 0 .. n PROVE right[i] = g[i]
      <3> HIDE DEF L, Next1
      <3>1. CASE i = 0
        BY <1>4, <3>1
      <3>2. CASE i # 0
        <4>1. i \in 1 .. n
          BY <1>1, <3>2
        <4>2. right[i] = Next1(g, i)
          BY <3>2
        <4> QED
          BY <4>1, <4>2, <1>6
      <3> QED
        BY <3>1, <3>2
    <2>2. g = right
      <3> HIDE DEF n, L, Next1
      <3>1. g = [i \in 0 .. n |-> g[i]] /\ right = [i \in 0 .. n |-> right[i]]
        BY <1>4, Zenon
      <3> HIDE DEF right
      <3>2. [i \in 0 .. n |-> g[i]] = [i \in 0 .. n |-> right[i]]
        BY <2>1, Zenon
      <3> QED
        BY <3>1, <3>2, Zenon
    <2> QED
      BY <2>2, Zenon DEF Passed
  <1>9. Right(names)
    <2> HIDE DEF Right
    <2> QED
      BY <1>8, Zenon
  <1>10. NamesIn(lines) = names
    BY DEF NamesIn
  <1> HIDE DEF names
  <1>11. names = [i \in 0 .. n |-> IF i = 0 THEN <<>> ELSE Next1(names, i)]
    BY <1>9, Zenon DEF Passed
  <1> HIDE DEF Right, step, n
  <1>12. \A i \in 0 .. n : names[i] = IF i = 0 THEN <<>> ELSE Next1(names, i)
    <2> HIDE DEF Next1
    <2> QED
      BY <1>11, Zenon
  <1>13. 0 \in 0 .. n /\ \A i \in 1 .. n : i \in 0 .. n /\ i # 0
    BY <1>1
  <1>14. names[0] = <<>> /\ \A i \in 1 .. n : names[i] = Next1(names, i)
    <2> HIDE DEF Next1
    <2> QED
      BY <1>12, <1>13, Zenon
  <1> DEFINE S == {i \in 0 .. n : names[i] \in L}
  <1>15. \A i \in 0 .. n : i \in S
    <2>1. 0 \in S
      BY <1>2, <1>13, <1>14
    <2>2. ASSUME NEW k \in 0 .. n, k \in S, k < n PROVE k + 1 \in S
      <3>1. k + 1 \in 1 .. n /\ k + 1 \in 0 .. n /\ (k + 1) - 1 = k
        BY <1>1, <2>2
      <3>2. names[k] \in L
        BY <2>2
      <3>3. lines[k + 1].fields[2] \in W
        BY <1>1, <3>1
      <3> HIDE DEF W
      <3>4. Append(names[k], lines[k + 1].fields[2]) \in L
        BY <3>2, <3>3
      <3>5. names[k + 1] = Next1(names, k + 1)
        BY <1>14, <3>1
      <3>6. names[k + 1] \in L
        <4> HIDE DEF L
        <4> QED
          BY <3>1, <3>2, <3>4, <3>5
      <3> QED
        BY <3>1, <3>6
    <2> HIDE DEF S
    <2>3. QED
      BY <1>1, <2>1, <2>2, UpTo
  <1>16. \A i \in 0 .. n : IsSeq(names[i])
    <2> TAKE i \in 0 .. n
    <2>1. names[i] \in L
      BY <1>15
    <2> HIDE DEF W
    <2>2. \A q : q \in Seq(W) => Len(q) \in Nat /\ DOMAIN q = 1 .. Len(q) /\ q = [k \in 1 .. Len(q) |-> q[k]]
      OBVIOUS
    <2> QED
      BY <2>1, <2>2, IsSeqOf
  <1>17. QED
    BY <1>10, <1>14, <1>16, Zenon DEF n

(***************************************************************************)
(* The structure of what is being loaded and of what is in use.            *)
(***************************************************************************)
Loading == phase \in {"init", "read", "checks"}

\* A struct config: all its fields, and a number.
ConfigFields == {"load", "data", "exec", "excf", "resolved", "conv", "regex",
                 "domains", "addresses", "file"}
Shaped(c) ==
  /\ DOMAIN c = ConfigFields /\ c = [k \in ConfigFields |-> c[k]]
  /\ c.load \in Nat \ {0}
  /\ IsSeq(c.data)

SameEntry(e, f) ==
  e.name = f.name /\ e.type = f.type /\ e.default = f.default /\ e.test = f.test

\* The i-th of the modules that were initialised last has its fields in c and its
\* entries in es.
Placed(hs, c, es, k, i) ==
  LET x == c.excf[i]
      t == Modules[x.name]
  IN  /\ x.name = hs[k + 1 - i].name /\ x.name \in DOMAIN Modules
      /\ x.at \in 23 .. Len(es) /\ x.at + Len(t) <= Len(es)
      /\ \A n \in DOMAIN t : SameEntry(es[x.at + n], t[n])
Owned(c, j) ==
  \E i \in DOMAIN c.excf :
    \E n \in DOMAIN Modules[c.excf[i].name] : j = c.excf[i].at + n
\* es is the main table and those of the first k modules of hs.
Laid(hs, c, es, k) ==
  /\ IsSeq(es) /\ Len(es) = Len(c.data) /\ Len(es) >= 23
  /\ \A j \in 1 .. Len(es) : es[j].off = j
  /\ \A j \in 1 .. 23 : SameEntry(es[j], MainCfe[j])
  /\ IsSeq(c.excf) /\ Len(c.excf) = k
  /\ \A i \in 1 .. k : Placed(hs, c, es, k, i)
  /\ \A j \in 24 .. Len(es) : Owned(c, j)

\* Every list has a node for each of the first k modules, the last one first.
Node(x) == x = [name |-> x.name, bound |-> x.bound, node |-> x.node]
ListOf(hs, list, k) ==
  /\ IsSeq(list) /\ Len(list) = k
  /\ \A i \in 1 .. k : Node(list[i]) /\ list[i].name = hs[k + 1 - i].name
Listed(hs, c, k) ==
  DOMAIN c.exec = Lists /\ \A l \in Lists : ListOf(hs, c.exec[l], k)
Bound(c) ==
  c.resolved /\ \A l \in Lists : \A i \in DOMAIN c.exec[l] : c.exec[l][i].bound

\* The handles are the names of the first k lines of module.conf, backwards.
Named(hs, lines, k) ==
  LET names == NamesIn(lines)[k]
  IN  /\ Len(names) = Len(hs)
      /\ \A i \in 1 .. Len(hs) : names[i] = hs[Len(hs) + 1 - i].name

Basics ==
  /\ phase \in {"modules", "starting", "init", "read", "checks", "running", "stopped"}
  /\ at \in Nat \ {0} /\ loads \in 0 .. MaxLoads
  /\ outcome \in {"none", "loaded", "refused", "unreadable", "noSymbol",
                  "noModules", "noMemory"}
  /\ error \in BOOLEAN /\ wild \in BOOLEAN
  /\ modFile \in ModuleFiles /\ IsSeq(handles)
  /\ \A i \in 1 .. Len(handles) : handles[i].lib \in DOMAIN Symbols
  /\ check \subseteq DOMAIN cfe
HandlesInv ==
  /\ phase = "modules" => at <= Len(modFile) + 1 /\ Named(handles, modFile, at - 1)
  /\ phase \notin {"modules", "stopped"} => Named(handles, modFile, Len(modFile))
  /\ phase \in {"modules", "starting"} => current = NoConfig
BuildInv ==
  /\ Loading => Shaped(new) /\ file \in Files /\ new.file = file
  /\ ~Loading => new = NoConfig /\ cfe = <<>>
  /\ phase \notin {"read", "checks"} => check = {} /\ error = FALSE
  /\ phase = "init" =>
       at <= Len(handles) + 1 /\ Laid(handles, new, cfe, at - 1)
       /\ Listed(handles, new, at - 1)
  /\ phase \in {"read", "checks"} =>
       Laid(handles, new, cfe, Len(handles)) /\ Listed(handles, new, Len(handles))
       /\ Bound(new)
  /\ phase = "read" => at <= Len(file) + 1
UseInv ==
  /\ phase = "running" => current # NoConfig
  /\ current # NoConfig => Shaped(current)
  /\ phase # "stopped" /\ current # NoConfig =>
       Listed(handles, current, Len(handles)) /\ Bound(current)
LogInv ==
  /\ Loading => log = <<"stderr">>
  /\ LogAsConfigured
StructInv == Basics /\ HandlesInv /\ BuildInv /\ UseInv /\ LogInv

(* What an update of a configuration does to its other fields.             *)
Same(c, d) ==
  /\ d.load = c.load /\ d.exec = c.exec /\ d.excf = c.excf
  /\ d.resolved = c.resolved /\ d.file = c.file

LEMMA ShapedIsConfig ==
  ASSUME NEW c, Shaped(c)
  PROVE  c # NoConfig
  <1>1. c.load \in Nat \ {0}
    BY DEF Shaped
  <1>2. NoConfig.load = 0
    BY DEF NoConfig
  <1>3. QED
    BY <1>1, <1>2

LEMMA DataReplaced ==
  ASSUME NEW c, Shaped(c), NEW v, IsSeq(v)
  PROVE  LET d == [c EXCEPT !.data = v]
         IN  Shaped(d) /\ Same(c, d) /\ d.data = v
  BY DEF Shaped, Same, ConfigFields

Relisted(d, c, v, w) ==
  /\ Shaped(d) /\ d.exec = v /\ d.resolved = w
  /\ d.data = c.data /\ d.excf = c.excf /\ d.file = c.file /\ d.load = c.load

LEMMA ListsReplaced ==
  ASSUME NEW c, Shaped(c), NEW v, NEW w
  PROVE  Relisted([c EXCEPT !.exec = v, !.resolved = w], c, v, w)
  BY DEF Shaped, ConfigFields, Relisted

Replaced(t, s, i, v) ==
  /\ IsSeq(t) /\ Len(t) = Len(s) /\ t[i] = v
  /\ \A k \in 1 .. Len(s) : k # i => t[k] = s[k]

LEMMA ElementReplaced ==
  ASSUME NEW s, IsSeq(s), NEW i \in 1 .. Len(s), NEW v
  PROVE  Replaced([s EXCEPT ![i] = v], s, i, v)
  <1> DEFINE t == [s EXCEPT ![i] = v]
  <1>1. DOMAIN s = 1 .. Len(s) /\ Len(s) \in Nat
    BY IsSeqFacts
  <1>2. DOMAIN t = 1 .. Len(s) /\ t = [k \in 1 .. Len(s) |-> t[k]]
    BY <1>1
  <1>3. t[i] = v /\ \A k \in 1 .. Len(s) : k # i => t[k] = s[k]
    BY <1>1
  <1> HIDE DEF t
  <1>4. QED
    BY <1>1, <1>2, <1>3, IsSeqOf DEF t, Replaced

(* The tables and the lists depend on nothing else.                        *)
LEMMA SameLaid ==
  ASSUME NEW c, NEW d, Same(c, d), Len(d.data) = Len(c.data), NEW hs, NEW es, NEW k,
         Laid(hs, c, es, k), Listed(hs, c, k)
  PROVE  Laid(hs, d, es, k) /\ Listed(hs, d, k) /\ (Bound(c) => Bound(d))
  BY DEF Same, Laid, Listed, Bound, Placed, Owned

(* conv_config leaves the settings alone.                                  *)
LEMMA Converts ==
  ASSUME NEW c, Shaped(c)
  PROVE  LET d == conv_config(c)
         IN  /\ Shaped(d) /\ Same(c, d) /\ d.data = c.data
             /\ d.domains = split_comma(Text(c, "MyDomain"))
             /\ d.addresses = split_comma(Text(c, "SaveMailAddress"))
  BY DEF Shaped, ConfigFields, Same, conv_config

HookedTo(d, c, name, size, fill) ==
  /\ Shaped(d) /\ d.data = c.data \o fill
  /\ d.load = c.load /\ d.file = c.file /\ d.resolved = c.resolved
  /\ d.exec = [l \in Lists |->
                <<[name |-> name, bound |-> FALSE, node |-> at]>> \o c.exec[l]]
  /\ d.excf = <<[name |-> name, at |-> size, node |-> at]>> \o c.excf

LEMMA Hooks ==
  ASSUME NEW c, Shaped(c), NEW name, NEW size, NEW fill, IsSeq(fill)
  PROVE  HookedTo([Hooked(c, name, size) EXCEPT !.data = @ \o fill], c, name, size, fill)
  <1> DEFINE e == [l \in Lists |->
                    <<[name |-> name, bound |-> FALSE, node |-> at]>> \o c.exec[l]]
             x == <<[name |-> name, at |-> size, node |-> at]>> \o c.excf
             h == [c EXCEPT !.exec = e, !.excf = x]
             v == c.data \o fill
  <1>1. IsSeq(v)
    BY ConcatIsSeq, Zenon DEF Shaped, Joined
  <1>2. Hooked(c, name, size) = h
    BY Zenon DEF Hooked, Shaped, ConfigFields
  <1> HIDE DEF e, x, v
  <1>3. /\ Shaped(h) /\ h.exec = e /\ h.excf = x /\ h.data = c.data
        /\ h.load = c.load /\ h.file = c.file /\ h.resolved = c.resolved
    BY DEF Shaped, ConfigFields
  <1>4. [h EXCEPT !.data = @ \o fill] = [h EXCEPT !.data = v]
    BY <1>3 DEF v
  <1> HIDE DEF h
  <1>5. LET d == [h EXCEPT !.data = v] IN Shaped(d) /\ Same(h, d) /\ d.data = v
    BY <1>1, <1>3, DataReplaced
  <1>6. QED
    BY <1>2, <1>3, <1>4, <1>5, Zenon DEF Same, e, x, v, HookedTo

(***************************************************************************)
(* A module's _init adds its table behind the others and puts itself at    *)
(* the head of every list.                                                 *)
(***************************************************************************)
Shifted(t, size) == [n \in DOMAIN t |-> [t[n] EXCEPT !.off = @ + size]]

LEMMA ShiftedFacts ==
  ASSUME NEW t, IsModuleTable(t), NEW size \in Nat
  PROVE  /\ IsSeq(Shifted(t, size)) /\ Len(Shifted(t, size)) = Len(t)
         /\ \A n \in 1 .. Len(t) :
              /\ SameEntry(Shifted(t, size)[n], t[n])
              /\ Shifted(t, size)[n].off = n + size
  <1> DEFINE u == Shifted(t, size)
  <1>1. Len(t) \in Nat /\ DOMAIN t = 1 .. Len(t)
    BY DEF IsModuleTable
  <1>2. DOMAIN u = 1 .. Len(t) /\ u = [n \in 1 .. Len(t) |-> u[n]]
    BY <1>1 DEF Shifted
  <1>3. ASSUME NEW n \in 1 .. Len(t)
        PROVE  SameEntry(u[n], t[n]) /\ u[n].off = n + size
    <2>1. t[n].off = n /\ DOMAIN t[n] = EntryFields
      BY <1>1 DEF IsModuleTable
    <2>2. u[n] = [t[n] EXCEPT !.off = @ + size]
      BY <1>1 DEF Shifted
    <2>3. QED
      BY <2>1, <2>2 DEF SameEntry, EntryFields
  <1> HIDE DEF u
  <1>4. IsSeq(u) /\ Len(u) = Len(t)
    BY <1>1, <1>2, IsSeqOf
  <1>5. QED
    BY <1>3, <1>4 DEF u

LEMMA ListGrows ==
  ASSUME NEW hs, NEW k \in Nat, NEW s, ListOf(hs, s, k), NEW N, Node(N),
         N.name = hs[k + 1].name
  PROVE  ListOf(hs, <<N>> \o s, k + 1)
  <1> DEFINE r == <<N>> \o s
  <1>1. IsSeq(s) /\ Len(s) = k
    BY DEF ListOf
  <1>2. /\ IsSeq(r) /\ Len(r) = k + 1 /\ r[1] = N
        /\ \A i \in 2 .. k + 1 : r[i] = s[i - 1]
    <2>1. Headed(r, N, s)
      BY <1>1, PrependIsSeq, Zenon
    <2>2. QED
      BY <1>1, <2>1, Zenon DEF Headed
  <1> HIDE DEF r
  <1>3. ASSUME NEW i \in 1 .. k + 1
        PROVE  Node(r[i]) /\ r[i].name = hs[k + 2 - i].name
    <2>1. CASE i = 1
      BY <1>2, <2>1
    <2>2. CASE i # 1
      <3>1. i \in 2 .. k + 1 /\ i - 1 \in 1 .. k /\ k + 1 - (i - 1) = k + 2 - i
        BY <2>2
      <3>2. Node(s[i - 1]) /\ s[i - 1].name = hs[k + 1 - (i - 1)].name
        BY <3>1 DEF ListOf
      <3>3. QED
        BY <1>2, <3>1, <3>2
    <2>3. QED
      BY <2>1, <2>2
  <1>4. (k + 1) + 1 = k + 2
    OBVIOUS
  <1>5. QED
    BY <1>2, <1>3, <1>4 DEF ListOf, r

LEMMA InitLays ==
  ASSUME NEW hs, NEW c, NEW d, NEW es, NEW k \in Nat, NEW t, NEW X, NEW fill,
         IsSeq(c.data), Laid(hs, c, es, k),
         X.name = hs[k + 1].name, X.name \in DOMAIN Modules, t = Modules[X.name],
         X.at = Len(c.data), IsSeq(fill), Len(fill) = Len(t),
         d.data = c.data \o fill, d.excf = <<X>> \o c.excf
  PROVE  Laid(hs, d, es \o Shifted(t, Len(c.data)), k + 1)
  <1> DEFINE m == Len(es)
             u == Shifted(t, m)
             fs == es \o u
             x == d.excf
  <1>1. IsSeq(es) /\ m \in Nat /\ m >= 23 /\ Len(c.data) = m
    BY IsSeqFacts DEF Laid
  <1>2. IsModuleTable(t)
    BY ModuleTables
  <1>3. Len(t) \in Nat /\ DOMAIN t = 1 .. Len(t)
    BY <1>2 DEF IsModuleTable
  <1>4. /\ IsSeq(u) /\ Len(u) = Len(t)
        /\ \A n \in 1 .. Len(t) : SameEntry(u[n], t[n]) /\ u[n].off = n + m
    BY <1>1, <1>2, ShiftedFacts
  <1>5. /\ IsSeq(fs) /\ Len(fs) = m + Len(t)
        /\ \A j \in 1 .. m : fs[j] = es[j]
        /\ \A n \in 1 .. Len(t) : fs[m + n] = u[n]
    <2> HIDE DEF u, m
    <2>1. Joined(fs, es, u)
      BY <1>1, <1>4, ConcatIsSeq, Zenon
    <2> HIDE DEF fs
    <2>2. QED
      BY <1>4, <2>1 DEF m, Joined
  <1>6. Len(d.data) = m + Len(t)
    <2>1. Joined(d.data, c.data, fill)
      BY ConcatIsSeq, Zenon
    <2>2. QED
      BY <1>1, <2>1 DEF Joined
  <1>7. IsSeq(c.excf) /\ Len(c.excf) = k
    BY DEF Laid
  <1>8. /\ IsSeq(x) /\ Len(x) = k + 1 /\ x[1] = X
        /\ \A i \in 2 .. k + 1 : x[i] = c.excf[i - 1]
    <2>1. Headed(x, X, c.excf)
      BY <1>7, PrependIsSeq, Zenon
    <2>2. QED
      BY <1>7, <2>1 DEF Headed
  <1> HIDE DEF fs, u, m, x
  <1>9. \A j \in 1 .. Len(fs) : fs[j].off = j
    <2> TAKE j \in 1 .. Len(fs)
    <2>1. CASE j <= m
      <3>1. j \in 1 .. m
        BY <1>1, <2>1
      <3>2. es[j].off = j
        BY <3>1 DEF Laid, m
      <3>3. QED
        BY <1>5, <3>1, <3>2
    <2>2. CASE j > m
      <3>1. j - m \in 1 .. Len(t) /\ m + (j - m) = j /\ (j - m) + m = j
        BY <1>1, <1>3, <1>5, <2>2, SMTT(30)
      <3>2. QED
        BY <1>4, <1>5, <3>1
    <2>3. QED
      BY <1>1, <1>5, <1>3, <2>1, <2>2
  <1>10. \A j \in 1 .. 23 : SameEntry(fs[j], MainCfe[j])
    <2>1. \A j \in 1 .. 23 : j \in 1 .. m
      BY <1>1
    <2>2. QED
      BY <1>5, <2>1 DEF Laid
  <1>11. ASSUME NEW i \in 1 .. k + 1 PROVE Placed(hs, d, fs, k + 1, i)
    <2>1. CASE i = 1
      <3>1. x[i].name = hs[(k + 1) + 1 - i].name /\ x[i].name \in DOMAIN Modules
        BY <1>8, <2>1
      <3>2. x[i].at = m /\ m \in 23 .. Len(fs) /\ x[i].at + Len(t) <= Len(fs)
        BY <1>1, <1>3, <1>5, <1>8, <2>1
      <3>3. \A n \in DOMAIN t : SameEntry(fs[x[i].at + n], t[n])
        BY <1>3, <1>4, <1>5, <3>2
      <3>4. Modules[x[i].name] = t
        BY <1>8, <2>1
      <3>5. QED
        BY <3>1, <3>2, <3>3, <3>4 DEF Placed, x
    <2>2. CASE i # 1
      <3>1. i \in 2 .. k + 1 /\ i - 1 \in 1 .. k /\ k + 1 - (i - 1) = (k + 1) + 1 - i
        BY <2>2
      <3>2. Placed(hs, c, es, k, i - 1) /\ x[i] = c.excf[i - 1]
        BY <1>8, <3>1 DEF Laid
      <3> DEFINE y == x[i]
                 b == Modules[y.name]
      <3>3. /\ y.name = hs[(k + 1) + 1 - i].name /\ y.name \in DOMAIN Modules
            /\ y.at \in 23 .. m /\ y.at + Len(b) <= m
            /\ \A n \in DOMAIN b : SameEntry(es[y.at + n], b[n])
        BY <3>1, <3>2 DEF Placed, m
      <3>4. IsModuleTable(b)
        BY <3>3, ModuleTables
      <3>5. DOMAIN b = 1 .. Len(b) /\ Len(b) \in Nat
        BY <3>4 DEF IsModuleTable
      <3> HIDE DEF y, b
      <3>6. \A n \in DOMAIN b : y.at + n \in 1 .. m
        BY <1>1, <3>3, <3>5, SMTT(30)
      <3>7. \A n \in DOMAIN b : SameEntry(fs[y.at + n], b[n])
        BY <1>5, <3>3, <3>6
      <3>8. y.at \in 23 .. Len(fs) /\ y.at + Len(b) <= Len(fs)
        BY <1>1, <1>3, <1>5, <3>3, <3>5, SMTT(30)
      <3>9. QED
        BY <3>3, <3>7, <3>8, Zenon DEF Placed, x, y, b
    <2>3. QED
      BY <2>1, <2>2, SMTT(30)
  <1>12. ASSUME NEW j \in 24 .. Len(fs) PROVE Owned(d, j)
    <2>1. DOMAIN x = 1 .. k + 1 /\ DOMAIN c.excf = 1 .. k
      BY <1>7, <1>8, IsSeqFacts
    <2>2. CASE j <= m
      <3>1. j \in 24 .. Len(es)
        BY <1>1, <2>2 DEF m
      <3>2. PICK i \in 1 .. k : \E n \in DOMAIN Modules[c.excf[i].name] : j = c.excf[i].at + n
        BY <2>1, <3>1 DEF Laid, Owned
      <3>3. i + 1 \in 1 .. k + 1 /\ i + 1 \in 2 .. k + 1 /\ (i + 1) - 1 = i
        OBVIOUS
      <3>4. x[i + 1] = c.excf[i]
        BY <1>8, <3>3
      <3>5. QED
        BY <2>1, <3>2, <3>3, <3>4 DEF Owned, x
    <2>3. CASE j > m
      <3>1. j - m \in 1 .. Len(t) /\ m + (j - m) = j
        BY <1>1, <1>3, <1>5, <2>3
      <3>2. x[1].at = m /\ Modules[x[1].name] = t /\ 1 \in 1 .. k + 1
        BY <1>1, <1>8
      <3>3. QED
        BY <1>3, <2>1, <3>1, <3>2 DEF Owned, x
    <2>4. QED
      BY <1>1, <2>2, <2>3
  <1>13. Len(fs) >= 23
    BY <1>1, <1>3, <1>5
  <1>14. QED
    BY <1>1, <1>5, <1>6, <1>8, <1>9, <1>10, <1>11, <1>12, <1>13, Zenon
    DEF Laid, fs, u, m, x

LEMMA ZeroedFacts ==
  ASSUME NEW t, DOMAIN t = 1 .. Len(t), Len(t) \in Nat
  PROVE  IsSeq(Zeroed(t)) /\ Len(Zeroed(t)) = Len(t)
  <1> DEFINE z == Zeroed(t)
             n == Len(t)
  <1>1. DOMAIN z = 1 .. n /\ z = [i \in 1 .. n |-> z[i]]
    BY DEF Zeroed
  <1> HIDE DEF z
  <1>2. QED
    BY <1>1, IsSeqOf DEF z

LEMMA ModuleInitKeeps ==
  ASSUME StructInv, phase = "init", at <= Len(handles),
         NEW name \in DOMAIN Modules, handles[at].name = name,
         NEW t, t = Modules[name], NEW fill, IsSeq(fill), Len(fill) = Len(t),
         NEW names, ModuleInit(name, t, fill, names), at' = at + 1,
         UNCHANGED <<phase, modFile, handles, file, loads, check, error, current,
                     outcome, log, lost, wild>>
  PROVE  StructInv'
  <1> DEFINE c == new
             d == new'
             N == [name |-> name, bound |-> FALSE, node |-> at]
             X == [name |-> name, at |-> Len(c.data), node |-> at]
             k == at - 1
  <1>1. /\ Shaped(c) /\ Laid(handles, c, cfe, k) /\ Listed(handles, c, k)
        /\ at \in Nat \ {0} /\ k \in Nat /\ k + 1 = at /\ c.file = file
        /\ file \in Files /\ IsSeq(handles)
    BY DEF StructInv, BuildInv, Basics, Loading
  <1>2. d = [Hooked(c, name, Len(c.data)) EXCEPT !.data = @ \o fill]
    BY Zenon DEF ModuleInit
  <1>3. cfe' = cfe \o Shifted(t, Len(c.data))
    BY Zenon DEF ModuleInit, Shifted
  <1>4. /\ Shaped(d) /\ d.data = c.data \o fill /\ d.file = c.file
        /\ d.exec = [l \in Lists |-> <<N>> \o c.exec[l]]
        /\ d.excf = <<X>> \o c.excf
    <2>1. HookedTo(d, c, name, Len(c.data), fill)
      BY <1>1, <1>2, Hooks, Zenon
    <2>2. QED
      BY <2>1, Zenon DEF HookedTo
  <1>5. X.name = name /\ X.at = Len(c.data) /\ Node(N) /\ N.name = name
    BY DEF Node
  <1> HIDE DEF c, d, N, X, k
  <1>6. handles[k + 1].name = name
    BY <1>1
  <1>7. Laid(handles, d, cfe', k + 1)
    <2>1. IsSeq(c.data)
      BY <1>1 DEF Shaped
    <2>2. X.name = handles[k + 1].name /\ X.name \in DOMAIN Modules /\ t = Modules[X.name]
      BY <1>5, <1>6
    <2>3. Laid(handles, d, cfe \o Shifted(t, Len(c.data)), k + 1)
      BY <1>1, <1>4, <1>5, <2>1, <2>2, InitLays, Zenon
    <2>4. QED
      BY <1>3, <2>3, Zenon
  <1>8. Listed(handles, d, k + 1)
    <2>1. \A l \in Lists : ListOf(handles, d.exec[l], k + 1)
      <3> TAKE l \in Lists
      <3>1. d.exec[l] = <<N>> \o c.exec[l]
        BY <1>4
      <3>2. ListOf(handles, c.exec[l], k)
        BY <1>1 DEF Listed
      <3>3. QED
        BY <1>1, <1>5, <1>6, <3>1, <3>2, ListGrows, Zenon
    <2>2. QED
      BY <1>4, <2>1 DEF Listed
  <1>9. at' \in Nat \ {0} /\ at' - 1 = k + 1 /\ at' <= Len(handles) + 1
    BY <1>1, IsSeqFacts
  <1>10. Basics'
    BY <1>9 DEF StructInv, Basics, BuildInv
  <1>11. HandlesInv' /\ UseInv' /\ LogInv'
    BY DEF StructInv, HandlesInv, UseInv, LogInv, Loading, LogAsConfigured, AtRest
  <1>12. BuildInv'
    BY <1>1, <1>4, <1>7, <1>8, <1>9 DEF StructInv, BuildInv, Loading, d
  <1>13. QED
    BY <1>10, <1>11, <1>12 DEF StructInv

LEMMA StructModuleInits == StructInv /\ ModuleInits => StructInv'
  <1> SUFFICES ASSUME StructInv, ModuleInits PROVE StructInv'
    OBVIOUS
  <1>1. /\ phase = "init" /\ at <= Len(handles) /\ at' = at + 1
        /\ UNCHANGED <<phase, modFile, handles, file, loads, check, error, current,
                       outcome, log, lost, wild>>
    BY DEF ModuleInits
  <1>2. \A m \in DOMAIN Modules :
          LET t == Modules[m] IN DOMAIN t = 1 .. Len(t) /\ Len(t) \in Nat
    BY ModuleTables DEF IsModuleTable
  <1>3. \A m \in DOMAIN Modules :
          IsSeq(Zeroed(Modules[m])) /\ Len(Zeroed(Modules[m])) = Len(Modules[m])
    BY <1>2, ZeroedFacts
  <1>4. IsSeq(<<Garbage>>) /\ Len(<<Garbage>>) = Len(DummyCfe)
    BY SingleIsSeq, Tables DEF IsTable
  <1>5. CASE handles[at].name = "lda" /\ lda_init
    BY <1>1, <1>3, <1>5, ModuleNamed, ModuleInitKeeps DEF lda_init
  <1>6. CASE handles[at].name = "maildrop" /\ maildrop_init
    BY <1>1, <1>3, <1>6, ModuleNamed, ModuleInitKeeps DEF maildrop_init
  <1>7. CASE handles[at].name = "gzip" /\ gzip_init
    BY <1>1, <1>3, <1>7, ModuleNamed, ModuleInitKeeps DEF gzip_init
  <1>8. CASE handles[at].name = "enczip" /\ enczip_init
    BY <1>1, <1>3, <1>8, ModuleNamed, ModuleInitKeeps DEF enczip_init
  <1>9. CASE handles[at].name = "dummy" /\ dummy_init
    <2>1. PICK fill \in {Zeroed(DummyCfe), <<Garbage>>} :
            ModuleInit("dummy", DummyCfe, fill,
                       {Obj(new, what, at, 0) : what \in CopiedNames})
      BY <1>9, Zenon DEF dummy_init
    <2>2. IsSeq(fill) /\ Len(fill) = Len(DummyCfe)
      BY <1>3, <1>4, ModuleNamed
    <2>3. QED
      BY <1>1, <1>9, <2>1, <2>2, ModuleNamed, ModuleInitKeeps
  <1>10. QED
    BY <1>5, <1>6, <1>7, <1>8, <1>9 DEF ModuleInits

(***************************************************************************)
(* The other actions keep the structure.                                   *)
(***************************************************************************)
LEMMA FilesFacts ==
  /\ \A f \in Files : f \in Seq(ConfigLine) /\ Len(f) \in Nat /\ DOMAIN f = 1 .. Len(f)
  /\ \A f \in ModuleFiles : f \in Seq(ModuleLine) /\ Len(f) \in Nat
  <1> DEFINE A == ConfigLine
             B == ModuleLine
  <1>1. Files \subseteq Seq(A) /\ ModuleFiles \subseteq Seq(B)
    BY FilesAssumption
  <1> HIDE DEF A, B
  <1>2. QED
    BY <1>1 DEF A, B

LEMMA StructInit == Init => StructInv
  <1> SUFFICES ASSUME Init PROVE StructInv
    OBVIOUS
  <1>1. modFile \in ModuleFiles /\ Len(modFile) \in Nat /\ modFile \in Seq(ModuleLine)
    BY FilesFacts DEF Init
  <1>2. NamesIn(modFile)[0] = <<>>
    BY <1>1, NamesFacts
  <1>3. IsSeq(<<>>) /\ Len(<<>>) = 0
    BY DEF IsSeq
  <1>4. Named(handles, modFile, at - 1)
    BY <1>2, <1>3 DEF Init, Named
  <1>5. Basics
    <2>1. IsSeq(handles) /\ Len(handles) = 0 /\ check \subseteq DOMAIN cfe
      BY <1>3, Zenon DEF Init
    <2>2. \A i \in 1 .. Len(handles) : handles[i].lib \in DOMAIN Symbols
      BY <2>1
    <2>3. 0 \in 0 .. MaxLoads
      BY LoadsAssumption
    <2>4. /\ phase = "modules" /\ at = 1 /\ loads = 0 /\ outcome = "none"
          /\ error = FALSE /\ wild = FALSE
      BY DEF Init
    <2>5. error \in BOOLEAN /\ wild \in BOOLEAN
      BY <2>4
    <2>6. loads \in 0 .. MaxLoads /\ at \in Nat \ {0}
      BY <2>3, <2>4
    <2>7. QED
      BY <1>1, <2>1, <2>2, <2>4, <2>5, <2>6, Zenon DEF Basics
  <1>6. HandlesInv
    BY <1>1, <1>4 DEF Init, HandlesInv
  <1>7. BuildInv
    BY DEF Init, BuildInv, Loading
  <1>8. UseInv /\ LogInv
    BY DEF Init, UseInv, LogInv, Loading, LogAsConfigured, AtRest
  <1>9. QED
    BY <1>5, <1>6, <1>7, <1>8 DEF StructInv

LEMMA FailKeeps ==
  ASSUME StructInv, phase \in {"starting", "running", "init", "read", "checks"},
         NEW why \in {"refused", "unreadable", "noSymbol", "noMemory"}, LoadFails(why),
         log' = <<"stderr">>, loads' \in 0 .. MaxLoads, wild' \in BOOLEAN,
         UNCHANGED <<at, modFile, handles, file, current>>
  PROVE  StructInv'
  <1>1. /\ phase' = IF current = NoConfig THEN "stopped" ELSE "running"
        /\ outcome' = why /\ new' = NoConfig /\ cfe' = <<>> /\ check' = {}
        /\ error' = FALSE
    BY DEF LoadFails
  <1>2. Basics'
    BY <1>1 DEF StructInv, Basics
  <1>3. HandlesInv'
    BY <1>1 DEF StructInv, HandlesInv
  <1>4. BuildInv'
    BY <1>1 DEF BuildInv, Loading
  <1>5. UseInv'
    BY <1>1 DEF StructInv, UseInv
  <1>6. LogInv'
    BY <1>1 DEF LogInv, Loading, LogAsConfigured, AtRest
  <1>7. QED
    BY <1>2, <1>3, <1>4, <1>5, <1>6 DEF StructInv

LEMMA StructFailures ==
  StructInv /\ (\/ ModuleInitFails \/ ModuleOutOfMemory \/ LoadOutOfMemory
                \/ FileUnreadable \/ ReadOutOfMemory \/ LineUnterminated \/ Rejected)
    => StructInv'
  <1> SUFFICES ASSUME StructInv PROVE
        /\ ModuleInitFails => StructInv'
        /\ ModuleOutOfMemory => StructInv'
        /\ LoadOutOfMemory => StructInv'
        /\ FileUnreadable => StructInv'
        /\ ReadOutOfMemory => StructInv'
        /\ LineUnterminated => StructInv'
        /\ Rejected => StructInv'
    OBVIOUS
  <1>1. /\ loads \in 0 .. MaxLoads /\ wild \in BOOLEAN
        /\ Loading => log = <<"stderr">>
    BY DEF StructInv, Basics, LogInv
  <1>2. \A w : (wild \/ w) \in BOOLEAN
    OBVIOUS
  <1>3. ASSUME NEW left, Abandon(left), Loading
        PROVE  /\ log' = <<"stderr">> /\ loads' \in 0 .. MaxLoads /\ wild' \in BOOLEAN
               /\ UNCHANGED <<at, modFile, handles, file, current>>
    BY <1>1, <1>3 DEF Abandon
  <1>4. ModuleInitFails => StructInv'
    BY <1>3, FailKeeps DEF ModuleInitFails, Loading
  <1>5. ModuleOutOfMemory => StructInv'
    <2> SUFFICES ASSUME ModuleOutOfMemory PROVE StructInv'
      OBVIOUS
    <2>1. PICK left : Abandon(left)
      BY DEF ModuleOutOfMemory
    <2>2. QED
      BY <1>3, <2>1, FailKeeps DEF ModuleOutOfMemory, Loading
  <1>6. LoadOutOfMemory => StructInv'
    BY <1>1, LoadsAssumption, FailKeeps DEF LoadOutOfMemory
  <1>7. FileUnreadable => StructInv'
    BY <1>1, <1>2, FailKeeps DEF FileUnreadable, Loading
  <1>8. ReadOutOfMemory => StructInv'
    BY <1>1, <1>2, FailKeeps DEF ReadOutOfMemory, Reading, Loading
  <1>9. LineUnterminated => StructInv'
    BY <1>1, <1>2, FailKeeps DEF LineUnterminated, Refuse, Reading, Loading
  <1>10. Rejected => StructInv'
    BY <1>1, <1>2, FailKeeps DEF Rejected, Refuse, Loading
  <1>11. QED
    BY <1>4, <1>5, <1>6, <1>7, <1>8, <1>9, <1>10

LEMMA StructExhausted == StructInv /\ MemoryExhausted => StructInv'
  <1> SUFFICES ASSUME StructInv, MemoryExhausted PROVE StructInv'
    OBVIOUS
  <1>1. /\ phase' = "stopped" /\ outcome' = "noMemory" /\ new' = NoConfig /\ cfe' = <<>>
        /\ check' = {} /\ error' = FALSE
        /\ UNCHANGED <<at, modFile, handles, file, loads, current, log, lost, wild>>
    BY DEF MemoryExhausted
  <1>2. Basics' /\ HandlesInv'
    BY <1>1 DEF MemoryExhausted, StructInv, Basics, HandlesInv
  <1>3. BuildInv' /\ UseInv' /\ LogInv'
    BY <1>1 DEF StructInv, BuildInv, Loading, UseInv, LogInv, LogAsConfigured, AtRest
  <1>4. QED
    BY <1>2, <1>3 DEF StructInv

LEMMA StructModules ==
  StructInv /\ (ModuleLineSkipped \/ ModuleOpened \/ ModulesRefused \/ ModulesRead)
    => StructInv'
  <1> SUFFICES ASSUME StructInv PROVE
        /\ ModuleLineSkipped => StructInv'
        /\ ModuleOpened => StructInv'
        /\ ModulesRefused => StructInv'
        /\ ModulesRead => StructInv'
    OBVIOUS
  <1> DEFINE n == Len(modFile)
             N == NamesIn(modFile)
  <1>1. modFile \in Seq(ModuleLine) /\ n \in Nat /\ modFile \in ModuleFiles
    BY FilesFacts DEF StructInv, Basics
  <1>2. /\ \A i \in 1 .. n : N[i] = IF Passed(modFile, i) THEN N[i - 1]
                                    ELSE Append(N[i - 1], modFile[i].fields[2])
        /\ \A i \in 0 .. n : IsSeq(N[i])
    BY <1>1, NamesFacts
  <1>3. at \in Nat \ {0} /\ IsSeq(handles) /\ Len(handles) \in Nat
    BY IsSeqFacts DEF StructInv, Basics
  <1> HIDE DEF N, n
  <1>4. ModuleLineSkipped => StructInv'
    <2> SUFFICES ASSUME ModuleLineSkipped PROVE StructInv'
      OBVIOUS
    <2>1. /\ phase = "modules" /\ at <= n /\ Passed(modFile, at) /\ at' = at + 1
          /\ UNCHANGED <<phase, modFile, handles, file, loads, cfe, new, check, error,
                         current, outcome, log, heap, lost, wild>>
      BY DEF ModuleLineSkipped, Passed, n
    <2>2. at \in 1 .. n /\ at' - 1 = at
      BY <1>1, <1>3, <2>1
    <2>3. Named(handles, modFile, at - 1)
      BY <2>1 DEF StructInv, HandlesInv
    <2>4. N[at] = N[at - 1]
      BY <1>2, <2>1, <2>2
    <2>5. Named(handles, modFile, at' - 1)
      BY <2>2, <2>3, <2>4 DEF Named, N
    <2>6. HandlesInv'
      BY <1>3, <2>1, <2>2, <2>5 DEF StructInv, HandlesInv, n
    <2>7. Basics' /\ BuildInv' /\ UseInv' /\ LogInv'
      BY <1>3, <2>1 DEF StructInv, Basics, BuildInv, UseInv, LogInv, Loading,
                        LogAsConfigured, AtRest
    <2>8. QED
      BY <2>6, <2>7 DEF StructInv
  <1>5. ModuleOpened => StructInv'
    <2> SUFFICES ASSUME ModuleOpened PROVE StructInv'
      OBVIOUS
    <2> DEFINE h == [name |-> modFile[at].fields[2], lib |-> modFile[at].fields[3]]
    <2>1. /\ phase = "modules" /\ at <= n /\ ~Passed(modFile, at) /\ at' = at + 1
          /\ h.lib \in DOMAIN Symbols /\ handles' = <<h>> \o handles
          /\ UNCHANGED <<phase, modFile, file, loads, cfe, new, check, error,
                         current, outcome, log, heap, lost, wild>>
      BY DEF ModuleOpened, Passed, n, Opens, set_lib_handle
    <2>2. at \in 1 .. n /\ at' - 1 = at /\ at - 1 \in 0 .. n
      BY <1>1, <1>3, <2>1
    <2>3. Headed(handles', h, handles)
      BY <1>3, <2>1, PrependIsSeq, Zenon
    <2>4. Named(handles, modFile, at - 1)
      BY <2>1 DEF StructInv, HandlesInv
    <2>5. N[at] = Append(N[at - 1], h.name)
      BY <1>2, <2>1, <2>2
    <2> DEFINE q == N[at - 1]
    <2>6. IsSeq(q) /\ Len(q) = Len(handles)
      <3>1. IsSeq(q)
        BY <1>2, <2>2
      <3>2. Len(q) = Len(handles)
        BY <2>4 DEF Named, N
      <3>3. QED
        BY <3>1, <3>2
    <2>7. \A i \in 1 .. Len(handles) : q[i] = handles[Len(handles) + 1 - i].name
      BY <2>4 DEF Named, N
    <2> HIDE DEF h, q
    <2>8. /\ Len(Append(q, h.name)) = Len(handles) + 1
          /\ \A i \in 1 .. Len(handles) : Append(q, h.name)[i] = q[i]
          /\ Append(q, h.name)[Len(handles) + 1] = h.name
      BY <2>6 DEF IsSeq
    <2> DEFINE r == handles'
               m == Len(handles)
    <2>9. ASSUME NEW i \in 1 .. Len(r)
          PROVE  Append(q, h.name)[i] = r[Len(r) + 1 - i].name
      <3>1. Len(r) = m + 1 /\ r[1] = h /\ \A k \in 2 .. m + 1 : r[k] = handles[k - 1]
        BY <2>3 DEF Headed
      <3> HIDE DEF r
      <3>2. CASE i = m + 1
        BY <1>3, <2>8, <3>1, <3>2
      <3>3. CASE i # m + 1
        <4>1. i \in 1 .. m /\ Len(r) + 1 - i \in 2 .. m + 1
              /\ (Len(r) + 1 - i) - 1 = m + 1 - i
          BY <1>3, <3>1, <3>3
        <4>2. r[Len(r) + 1 - i] = handles[m + 1 - i]
          BY <3>1, <4>1
        <4>3. QED
          BY <2>7, <2>8, <4>1, <4>2
      <3>4. QED
        BY <3>2, <3>3
    <2>10. Named(handles', modFile, at)
      BY <2>3, <2>5, <2>8, <2>9 DEF Named, Headed, N, q
    <2>11. \A i \in 1 .. Len(r) : r[i].lib \in DOMAIN Symbols
      <3>1. \A i \in 1 .. m : handles[i].lib \in DOMAIN Symbols
        BY DEF StructInv, Basics
      <3>2. Len(r) = m + 1 /\ r[1] = h /\ \A k \in 2 .. m + 1 : r[k] = handles[k - 1]
        BY <2>3 DEF Headed
      <3> HIDE DEF r
      <3>3. \A i \in 1 .. m + 1 : i = 1 \/ (i \in 2 .. m + 1 /\ i - 1 \in 1 .. m)
        BY <1>3
      <3>4. h.lib \in DOMAIN Symbols
        BY <2>1 DEF h
      <3>5. QED
        BY <3>1, <3>2, <3>3, <3>4
    <2>12. HandlesInv'
      BY <1>3, <2>1, <2>2, <2>10 DEF StructInv, HandlesInv, n
    <2>13. Basics'
      BY <1>3, <2>1, <2>3, <2>11 DEF StructInv, Basics, Headed
    <2>14. BuildInv' /\ UseInv' /\ LogInv'
      BY <2>1, ShapedIsConfig DEF StructInv, HandlesInv, BuildInv, UseInv, LogInv, Loading,
                  LogAsConfigured, AtRest
    <2>15. QED
      BY <2>12, <2>13, <2>14 DEF StructInv
  <1>6. ModulesRefused => StructInv'
    <2> SUFFICES ASSUME ModulesRefused PROVE StructInv'
      OBVIOUS
    <2>1. /\ phase = "modules" /\ phase' = "stopped" /\ handles' = <<>>
          /\ outcome' = "noModules" /\ wild' \in BOOLEAN
          /\ UNCHANGED <<at, modFile, file, loads, cfe, new, check, error, current,
                         log, heap, lost>>
      BY DEF ModulesRefused, StructInv, Basics
    <2>2. IsSeq(<<>>) /\ Len(<<>>) = 0
      BY DEF IsSeq
    <2>3. \A i \in 1 .. 0 : FALSE
      OBVIOUS
    <2>4. Basics'
      BY <2>1, <2>2, <2>3 DEF StructInv, Basics
    <2>5. HandlesInv' /\ BuildInv' /\ UseInv' /\ LogInv'
      BY <2>1 DEF StructInv, HandlesInv, BuildInv, UseInv, LogInv, Loading,
                  LogAsConfigured, AtRest
    <2>6. QED
      BY <2>4, <2>5 DEF StructInv
  <1>7. ModulesRead => StructInv'
    <2> SUFFICES ASSUME ModulesRead PROVE StructInv'
      OBVIOUS
    <2>1. /\ phase = "modules" /\ at > n /\ phase' = "starting"
          /\ UNCHANGED <<at, modFile, handles, file, loads, cfe, new, check, error,
                         current, outcome, log, heap, lost, wild>>
      BY DEF ModulesRead, n
    <2>2. at - 1 = n
      BY <1>1, <1>3, <2>1 DEF StructInv, HandlesInv, n
    <2>3. QED
      BY <2>1, <2>2 DEF StructInv, Basics, HandlesInv, BuildInv, UseInv, LogInv, Loading,
                  LogAsConfigured, AtRest, n
  <1>8. QED
    BY <1>4, <1>5, <1>6, <1>7

LEMMA Begins ==
  ASSUME NEW f, NEW hs, loads \in Nat
  PROVE  LET c == init_config(f)
         IN  /\ Shaped(c) /\ c.file = f /\ c.data = Zeroed(MainCfe)
             /\ Laid(hs, c, MainCfe, 0) /\ Listed(hs, c, 0)
  <1> DEFINE c == init_config(f)
             z == Zeroed(MainCfe)
  <1>1. /\ IsSeq(MainCfe) /\ Len(MainCfe) = 23 /\ DOMAIN MainCfe = 1 .. 23
        /\ \A j \in 1 .. 23 : MainCfe[j].off = j
    BY Tables DEF IsTable
  <1>2. IsSeq(z) /\ Len(z) = 23
    BY <1>1, ZeroedFacts, SMTT(30)
  <1>3. IsSeq(<<>>) /\ Len(<<>>) = 0
    BY DEF IsSeq
  <1> HIDE DEF z
  <1>4. /\ DOMAIN c = ConfigFields /\ c = [k \in ConfigFields |-> c[k]]
        /\ c.load = loads + 1 /\ c.data = z /\ c.file = f /\ c.excf = <<>>
        /\ c.exec = [l \in Lists |-> <<>>]
    BY DEF init_config, ConfigFields, z
  <1> HIDE DEF c
  <1>5. Shaped(c)
    BY <1>2, <1>4 DEF Shaped
  <1>6. Laid(hs, c, MainCfe, 0)
    <2>1. \A j \in 1 .. 23 : SameEntry(MainCfe[j], MainCfe[j])
      BY DEF SameEntry
    <2>2. \A i \in 1 .. 0 : Placed(hs, c, MainCfe, 0, i)
      OBVIOUS
    <2>3. \A j \in 24 .. 23 : Owned(c, j)
      OBVIOUS
    <2>4. IsSeq(c.excf) /\ Len(c.excf) = 0
      BY <1>3, <1>4, Zenon
    <2>5. QED
      BY <1>1, <1>2, <1>4, <2>1, <2>2, <2>3, <2>4, SMTT(30) DEF Laid
  <1>7. Listed(hs, c, 0)
    <2>1. ListOf(hs, <<>>, 0)
      <3>1. \A i \in 1 .. 0 : FALSE
        OBVIOUS
      <3>2. QED
        BY <1>3, <3>1, Zenon DEF ListOf
    <2>2. QED
      BY <1>4, <2>1, Zenon DEF Listed
  <1>8. QED
    BY <1>4, <1>5, <1>6, <1>7, Zenon DEF c, z

LEMMA StructBegins == StructInv /\ LoadBegins => StructInv'
  <1> SUFFICES ASSUME StructInv, LoadBegins PROVE StructInv'
    OBVIOUS
  <1>1. PICK f \in Files : file' = f /\ new' = init_config(f)
    BY DEF LoadBegins
  <1>2. /\ phase \in {"starting", "running"} /\ loads < MaxLoads /\ loads' = loads + 1
        /\ log' = <<"stderr">> /\ cfe' = MainCfe /\ phase' = "init" /\ at' = 1
        /\ UNCHANGED <<modFile, handles, check, error, current, outcome, lost, wild>>
    BY DEF LoadBegins
  <1>3. loads \in 0 .. MaxLoads /\ MaxLoads \in Nat /\ loads \in Nat /\ Len(handles) \in Nat
    BY LoadsAssumption, IsSeqFacts DEF StructInv, Basics
  <1> DEFINE c == init_config(f)
  <1>4. /\ Shaped(c) /\ c.file = f /\ Laid(handles, c, MainCfe, 0)
        /\ Listed(handles, c, 0)
    BY <1>3, Begins, Zenon
  <1> HIDE DEF c
  <1>5. new' = c
    BY <1>1 DEF c
  <1>6. check = {} /\ error = FALSE
    BY <1>2 DEF StructInv, BuildInv
  <1>7. at' - 1 = 0 /\ at' <= Len(handles) + 1 /\ at' \in Nat \ {0}
    BY <1>2, <1>3
  <1>8. Basics'
    BY <1>1, <1>2, <1>3, <1>6, <1>7 DEF StructInv, Basics
  <1>9. HandlesInv' /\ UseInv'
    BY <1>2 DEF StructInv, HandlesInv, UseInv
  <1>10. BuildInv'
    <2>1. /\ Shaped(new') /\ file' \in Files /\ (new').file = file'
          /\ Laid(handles', new', cfe', 0) /\ Listed(handles', new', 0)
      BY <1>1, <1>2, <1>4, <1>5
    <2>2. QED
      BY <1>2, <1>6, <1>7, <2>1 DEF BuildInv, Loading
  <1>11. LogInv'
    BY <1>2 DEF LogInv, Loading, LogAsConfigured, AtRest
  <1>12. QED
    BY <1>8, <1>9, <1>10, <1>11 DEF StructInv

LEMMA BoundList ==
  ASSUME IsSeq(handles), NEW list, ListOf(handles, list, Len(handles))
  PROVE  /\ ListOf(handles, set_dlsymbol(list), Len(handles))
         /\ \A i \in DOMAIN set_dlsymbol(list) : set_dlsymbol(list)[i].bound
  <1> DEFINE r == set_dlsymbol(list)
             k == Len(handles)
  <1>1. DOMAIN list = 1 .. k /\ k \in Nat /\ IsSeq(list) /\ DOMAIN handles = 1 .. k
    BY IsSeqFacts DEF ListOf
  <1>2. DOMAIN r = 1 .. k /\ r = [i \in 1 .. k |-> r[i]]
    BY <1>1 DEF set_dlsymbol
  <1>3. ASSUME NEW i \in 1 .. k
        PROVE  Node(r[i]) /\ r[i].name = handles[k + 1 - i].name /\ r[i].bound
    <2> DEFINE b == list[i].bound \/ \E h \in ToSet(handles) : h.name = list[i].name
    <2>1. r[i] = [list[i] EXCEPT !.bound = b]
      BY <1>1 DEF set_dlsymbol
    <2>2. Node(list[i]) /\ list[i].name = handles[k + 1 - i].name
      BY <1>1 DEF ListOf
    <2>3. k + 1 - i \in 1 .. k
      BY <1>1
    <2>4. handles[k + 1 - i] \in ToSet(handles)
      BY <1>1, <2>3 DEF ToSet
    <2>5. b
      BY <2>2, <2>4
    <2>6. r[i] = [list[i] EXCEPT !.bound = TRUE]
      BY <2>1, <2>5
    <2>7. QED
      BY <2>2, <2>6 DEF Node
  <1> HIDE DEF r, k
  <1>4. IsSeq(r) /\ Len(r) = k
    BY <1>1, <1>2, IsSeqOf
  <1>5. QED
    BY <1>2, <1>3, <1>4 DEF ListOf, r, k

LEMMA StructBound == StructInv /\ ModulesBound => StructInv'
  <1> SUFFICES ASSUME StructInv, ModulesBound PROVE StructInv'
    OBVIOUS
  <1> DEFINE e == [l \in Lists |-> set_dlsymbol(new.exec[l])]
             d == [new EXCEPT !.exec = e, !.resolved = TRUE]
             k == Len(handles)
  <1>1. /\ phase = "init" /\ at > k /\ new' = d /\ phase' = "read" /\ at' = 1
        /\ UNCHANGED <<modFile, handles, file, loads, cfe, check, error, current,
                       outcome, log, heap, lost, wild>>
    BY DEF ModulesBound
  <1>2. k \in Nat /\ IsSeq(handles) /\ at \in Nat \ {0}
    BY IsSeqFacts DEF StructInv, Basics
  <1>3. /\ Shaped(new) /\ file \in Files /\ new.file = file
        /\ Laid(handles, new, cfe, k) /\ Listed(handles, new, k)
    <2>1. at - 1 = k
      BY <1>1, <1>2 DEF StructInv, BuildInv
    <2>2. QED
      BY <1>1, <2>1 DEF StructInv, BuildInv, Loading
  <1> HIDE DEF e
  <1>4. /\ Shaped(d) /\ d.exec = e /\ d.resolved = TRUE /\ d.data = new.data
        /\ d.excf = new.excf /\ d.file = new.file
    <2>1. Relisted(d, new, e, TRUE)
      BY <1>3, ListsReplaced, Zenon
    <2>2. QED
      BY <2>1, Zenon DEF Relisted
  <1> HIDE DEF d, k
  <1>5. Laid(handles, d, cfe, k)
    BY <1>3, <1>4 DEF Laid, Placed, Owned
  <1>6. \A l \in Lists : /\ ListOf(handles, e[l], k)
                         /\ \A i \in DOMAIN e[l] : e[l][i].bound
    <2> TAKE l \in Lists
    <2>1. e[l] = set_dlsymbol(new.exec[l])
      BY DEF e
    <2>2. ListOf(handles, new.exec[l], k)
      BY <1>3 DEF Listed
    <2>3. QED
      BY <1>2, <2>1, <2>2, BoundList DEF k
  <1>7. Listed(handles, d, k)
    BY <1>4, <1>6 DEF Listed, e
  <1>8. Bound(d)
    BY <1>4, <1>6 DEF Bound
  <1>9. Len(file) \in Nat
    BY <1>3, FilesFacts
  <1>10. BuildInv'
    BY <1>1, <1>3, <1>4, <1>5, <1>7, <1>8, <1>9 DEF StructInv, BuildInv, Loading, k
  <1>11. Basics' /\ HandlesInv' /\ UseInv'
    BY <1>1 DEF StructInv, Basics, HandlesInv, UseInv
  <1>12. LogInv'
    BY <1>1 DEF StructInv, LogInv, Loading, LogAsConfigured, AtRest
  <1>13. QED
    BY <1>10, <1>11, <1>12 DEF StructInv

(* EntryOf finds the first entry with the keyword of the line.             *)
Matches(l, e) == Fold(<<l.key>>) = <<e.name>> /\ ~l.blank

LEMMA EntryFacts ==
  ASSUME IsSeq(cfe), NEW l
  PROVE  /\ EntryOf(l) \in 0 .. Len(cfe)
         /\ EntryOf(l) = 0 => \A i \in 1 .. Len(cfe) : ~Matches(l, cfe[i])
         /\ EntryOf(l) # 0 =>
              /\ Matches(l, cfe[EntryOf(l)])
              /\ \A i \in 1 .. EntryOf(l) - 1 : ~Matches(l, cfe[i])
  <1> DEFINE n == Len(cfe)
             I == {i \in 1 .. n : Matches(l, cfe[i])}
  <1>1. EntryOf(l) = IF I # {} THEN Min(I) ELSE 0
    BY DEF EntryOf, SelectInSeq, Matches
  <1>2. n \in Nat
    BY IsSeqFacts
  <1>3. CASE I = {}
    BY <1>1, <1>2, <1>3
  <1>4. CASE I # {}
    <2>1. I \in SUBSET Nat
      BY <1>2
    <2>2. Min(I) \in I /\ \A y \in I : Min(I) <= y
      <3> HIDE DEF I
      <3>1. QED
        BY <1>4, <2>1, LeastExists
    <2> DEFINE m == Min(I)
    <2>3. EntryOf(l) = m
      BY <1>1, <1>4
    <2> HIDE DEF m
    <2>4. m \in 1 .. n /\ Matches(l, cfe[m]) /\ m \in I
      BY <2>2 DEF m
    <2>5. \A i \in 1 .. m - 1 : i \notin I
      <3>1. \A y \in I : m <= y
        BY <2>2 DEF m
      <3> HIDE DEF I
      <3>2. QED
        BY <1>2, <2>4, <3>1
    <2>6. \A i \in 1 .. m - 1 : i \in 1 .. n
      BY <1>2, <2>4
    <2>7. QED
      BY <1>2, <2>3, <2>4, <2>5, <2>6
  <1>5. QED
    BY <1>3, <1>4

LEMMA LineKeeps ==
  ASSUME StructInv, Reading, at' = at + 1, Shaped(new'), Same(new, new'),
         Len((new').data) = Len(new.data), error' \in BOOLEAN, check' \subseteq DOMAIN cfe,
         UNCHANGED <<phase, modFile, handles, file, loads, cfe, current, outcome,
                     log, wild>>
  PROVE  StructInv'
  <1> DEFINE d == new'
             k == Len(handles)
  <1>1. phase = "read" /\ at <= Len(file) /\ file \in Files /\ at \in Nat \ {0}
    BY DEF Reading, StructInv, BuildInv, Loading, Basics
  <1>2. Len(file) \in Nat
    BY <1>1, FilesFacts
  <1>3. /\ Laid(handles, new, cfe, k) /\ Listed(handles, new, k) /\ Bound(new)
        /\ new.file = file
    BY <1>1 DEF StructInv, BuildInv, Loading
  <1> HIDE DEF d, k
  <1>4. Same(new, d) /\ Len(d.data) = Len(new.data)
    BY DEF d
  <1>5. Laid(handles, d, cfe, k) /\ Listed(handles, d, k) /\ Bound(d) /\ d.file = file
    <2>1. d.file = file
      BY <1>3, <1>4 DEF Same
    <2>2. QED
      BY <1>3, <1>4, <2>1, SameLaid, Zenon
  <1>6. BuildInv'
    BY <1>1, <1>2, <1>5 DEF BuildInv, Loading, d, k
  <1>7. Basics' /\ HandlesInv' /\ UseInv'
    BY <1>1 DEF StructInv, Basics, HandlesInv, UseInv
  <1>8. LogInv'
    BY <1>1 DEF StructInv, LogInv, Loading, LogAsConfigured, AtRest
  <1>9. QED
    BY <1>6, <1>7, <1>8 DEF StructInv

\* The effect of a line on one field.
FieldIs(d, c, i, v) ==
  /\ Shaped(d) /\ Same(c, d) /\ Replaced(d.data, c.data, i, v)

LEMMA FieldSet ==
  ASSUME NEW c, Shaped(c), NEW i \in 1 .. Len(c.data), NEW v
  PROVE  FieldIs([c EXCEPT !.data[i] = v], c, i, v)
  <1> DEFINE w == [c.data EXCEPT ![i] = v]
  <1>1. Replaced(w, c.data, i, v)
    BY ElementReplaced, Zenon DEF Shaped
  <1>2. [c EXCEPT !.data[i] = v] = [c EXCEPT !.data = w]
    BY DEF Shaped, ConfigFields
  <1> HIDE DEF w
  <1>3. LET d == [c EXCEPT !.data = w] IN Shaped(d) /\ Same(c, d) /\ d.data = w
    BY <1>1, DataReplaced DEF Replaced
  <1>4. QED
    BY <1>1, <1>2, <1>3, Zenon DEF FieldIs

LEMMA StructLines ==
  StructInv /\ (\/ LineIgnored
                \/ LineUnknown
                \/ IntegerLine
                \/ StringLine)
    => StructInv'
  <1> SUFFICES ASSUME StructInv, Reading, at' = at + 1 PROVE
        /\ LineIgnored => StructInv'
        /\ LineUnknown => StructInv'
        /\ IntegerLine => StructInv'
        /\ StringLine => StructInv'
    BY DEF LineIgnored, LineUnknown, IntegerLine, StringLine
  <1>1. /\ Shaped(new) /\ Laid(handles, new, cfe, Len(handles)) /\ error \in BOOLEAN
        /\ check \subseteq DOMAIN cfe
    BY DEF Reading, StructInv, BuildInv, Loading, Basics
  <1>2. /\ IsSeq(cfe) /\ Len(cfe) = Len(new.data) /\ DOMAIN cfe = 1 .. Len(cfe)
        /\ Len(cfe) \in Nat /\ \A j \in 1 .. Len(cfe) : cfe[j].off = j
    BY <1>1, IsSeqFacts DEF Laid
  <1>3. Same(new, new)
    BY DEF Same
  <1>4. LineIgnored => StructInv'
    BY <1>1, <1>3, LineKeeps DEF LineIgnored
  <1>5. LineUnknown => StructInv'
    BY <1>1, <1>3, LineKeeps DEF LineUnknown
  <1> DEFINE i == EntryOf(Line)
  <1>6. i # 0 => i \in 1 .. Len(cfe) /\ cfe[i].off = i
    BY <1>2, EntryFacts
  <1>7. ASSUME NEW v, i # 0
        PROVE  FieldIs([new EXCEPT !.data[cfe[i].off] = v], new, cfe[i].off, v)
    BY <1>1, <1>2, <1>6, <1>7, FieldSet
  <1>8. \A d, o, v : FieldIs(d, new, o, v) =>
          Shaped(d) /\ Same(new, d) /\ Len(d.data) = Len(new.data)
    BY DEF FieldIs, Replaced
  <1>9. IntegerLine => StructInv'
    <2> SUFFICES ASSUME IntegerLine PROVE StructInv'
      OBVIOUS
    <2>1. /\ i # 0 /\ check' = check \cup {i}
          /\ UNCHANGED <<phase, modFile, handles, file, loads, cfe, current, outcome,
                         log, wild>>
      BY DEF IntegerLine
    <2>2. \/ new' = [new EXCEPT !.data[cfe[i].off] = Line.num % UINT] /\ error' = error
          \/ error' = TRUE /\ new' = new
      BY DEF IntegerLine
    <2> HIDE DEF i
    <2>3. Shaped(new') /\ Same(new, new') /\ Len((new').data) = Len(new.data)
      <3>1. CASE new' = new
        BY <1>1, <1>3, <3>1
      <3>2. CASE new' = [new EXCEPT !.data[cfe[i].off] = Line.num % UINT]
        <4>1. FieldIs(new', new, cfe[i].off, Line.num % UINT)
          BY <1>7, <2>1, <3>2, Zenon
        <4>2. QED
          BY <1>8, <4>1, Zenon
      <3>3. QED
        BY <2>2, <3>1, <3>2, Zenon
    <2>4. error' \in BOOLEAN /\ check' \subseteq DOMAIN cfe
      BY <1>1, <1>2, <1>6, <2>1, <2>2
    <2>5. QED
      BY <2>1, <2>3, <2>4, LineKeeps
  <1>10. StringLine => StructInv'
    <2> SUFFICES ASSUME StringLine PROVE StructInv'
      OBVIOUS
    <2>1. /\ i # 0 /\ check' = check \cup {i}
          /\ UNCHANGED <<phase, modFile, handles, file, loads, cfe, current, outcome,
                         log, wild>>
      BY DEF StringLine
    <2>2. /\ error' = TRUE \/ error' = error
          /\ \/ new' = [new EXCEPT !.data[cfe[i].off] = [text |-> Line.text, line |-> at]]
             \/ new' = new
      BY DEF StringLine, Store
    <2> HIDE DEF i
    <2>3. Shaped(new') /\ Same(new, new') /\ Len((new').data) = Len(new.data)
      <3>1. CASE new' = new
        BY <1>1, <1>3, <3>1
      <3>2. CASE new' = [new EXCEPT !.data[cfe[i].off] = [text |-> Line.text, line |-> at]]
        <4>1. FieldIs(new', new, cfe[i].off, [text |-> Line.text, line |-> at])
          BY <1>7, <2>1, <3>2, Zenon
        <4>2. QED
          BY <1>8, <4>1, Zenon
      <3>3. QED
        BY <2>2, <3>1, <3>2, Zenon
    <2>4. error' \in BOOLEAN /\ check' \subseteq DOMAIN cfe
      BY <1>1, <1>2, <1>6, <2>1, <2>2
    <2>5. QED
      BY <2>1, <2>3, <2>4, LineKeeps
  <1>11. QED
    BY <1>4, <1>5, <1>9, <1>10

(* The defaults.                                                           *)
Defaulted == {i \in Missing : cfe[i].default # NULL}
FieldsOf(S) == {cfe[i].off : i \in S}
WithDefaults(data) ==
  [n \in DOMAIN data |->
     IF n \in FieldsOf(Defaulted) THEN DefaultOf(cfe[Given(n)]) ELSE data[n]]

LEMMA DefaultsGiven ==
  ASSUME IsSeq(cfe), \A j \in 1 .. Len(cfe) : cfe[j].off = j, NEW data, IsSeq(data),
         Len(data) = Len(cfe)
  PROVE  /\ IsSeq(WithDefaults(data)) /\ Len(WithDefaults(data)) = Len(data)
         /\ \A n \in 1 .. Len(cfe) :
              WithDefaults(data)[n] =
                IF n \notin check /\ cfe[n].default # NULL THEN DefaultOf(cfe[n]) ELSE data[n]
  <1> DEFINE w == WithDefaults(data)
             k == Len(cfe)
  <1>1. DOMAIN cfe = 1 .. k /\ k \in Nat /\ DOMAIN data = 1 .. k
    BY IsSeqFacts
  <1>2. DOMAIN w = 1 .. k /\ w = [n \in 1 .. k |-> w[n]]
    BY <1>1 DEF WithDefaults
  <1>3. ASSUME NEW n \in 1 .. k
        PROVE  w[n] = IF n \notin check /\ cfe[n].default # NULL
                      THEN DefaultOf(cfe[n]) ELSE data[n]
    <2>1. n \in FieldsOf(Defaulted) <=> n \notin check /\ cfe[n].default # NULL
      BY <1>1 DEF FieldsOf, Defaulted, Missing
    <2>2. Given(n) = n
      BY <1>1 DEF Given
    <2>3. w[n] = IF n \in FieldsOf(Defaulted) THEN DefaultOf(cfe[Given(n)]) ELSE data[n]
      BY <1>1 DEF WithDefaults
    <2>4. QED
      BY <2>1, <2>2, <2>3
  <1> HIDE DEF w
  <1>4. IsSeq(w) /\ Len(w) = k
    BY <1>1, <1>2, IsSeqOf
  <1>5. QED
    BY <1>3, <1>4 DEF w

LEMMA ReadEndsFacts ==
  ASSUME StructInv, ReadEnds
  PROVE  /\ Shaped(new') /\ Same(new, new') /\ (new').data = WithDefaults(new.data)
         /\ error' = (error \/ Defaulted # Missing) /\ error' \in BOOLEAN
         /\ phase = "read" /\ at > Len(file) /\ phase' = "checks"
         /\ UNCHANGED <<at, modFile, handles, file, loads, cfe, check, current,
                        outcome, log, lost, wild>>
  <1> DEFINE w == WithDefaults(new.data)
  <1>1. new' = [new EXCEPT !.data = w]
    BY Zenon DEF ReadEnds, WithDefaults, Defaulted, FieldsOf
  <1>2. /\ error' = (error \/ Defaulted # Missing)
        /\ phase = "read" /\ at > Len(file) /\ phase' = "checks"
        /\ UNCHANGED <<at, modFile, handles, file, loads, cfe, check, current,
                       outcome, log, lost, wild>>
    BY Zenon DEF ReadEnds, Defaulted
  <1>3. Shaped(new) /\ Laid(handles, new, cfe, Len(handles))
    BY <1>2 DEF StructInv, BuildInv, Loading
  <1>4. IsSeq(w)
    BY <1>3, DefaultsGiven DEF Laid, Shaped
  <1> HIDE DEF w
  <1>5. LET d == [new EXCEPT !.data = w] IN Shaped(d) /\ Same(new, d) /\ d.data = w
    BY <1>3, <1>4, DataReplaced
  <1>6. error' \in BOOLEAN
    BY <1>2
  <1>7. QED
    BY <1>1, <1>2, <1>5, <1>6, Zenon DEF w

LEMMA StructReadEnds == StructInv /\ ReadEnds => StructInv'
  <1> SUFFICES ASSUME StructInv, ReadEnds PROVE StructInv'
    OBVIOUS
  <1> DEFINE d == new'
             k == Len(handles)
  <1>1. /\ Shaped(d) /\ Same(new, d) /\ d.data = WithDefaults(new.data)
        /\ error' \in BOOLEAN /\ phase = "read" /\ phase' = "checks"
        /\ UNCHANGED <<at, modFile, handles, file, loads, cfe, check, current,
                       outcome, log, lost, wild>>
    BY ReadEndsFacts, Zenon
  <1>2. /\ Shaped(new) /\ Laid(handles, new, cfe, k) /\ Listed(handles, new, k)
        /\ Bound(new) /\ new.file = file /\ file \in Files
    BY <1>1 DEF StructInv, BuildInv, Loading
  <1>3. Len(d.data) = Len(new.data)
    BY <1>1, <1>2, DefaultsGiven DEF Laid, Shaped
  <1> HIDE DEF d, k
  <1>4. Laid(handles, d, cfe, k) /\ Listed(handles, d, k) /\ Bound(d)
    BY <1>1, <1>2, <1>3, SameLaid, Zenon
  <1>5. d.file = file
    BY <1>1, <1>2 DEF Same
  <1>6. BuildInv'
    BY <1>1, <1>2, <1>4, <1>5 DEF BuildInv, Loading, d, k
  <1>7. Basics' /\ HandlesInv' /\ UseInv'
    BY <1>1 DEF StructInv, Basics, HandlesInv, UseInv
  <1>8. LogInv'
    BY <1>1 DEF StructInv, LogInv, Loading, LogAsConfigured, AtRest
  <1>9. QED
    BY <1>6, <1>7, <1>8 DEF StructInv

LEMMA StructInstalled == StructInv /\ Installed => StructInv'
  <1> SUFFICES ASSUME StructInv, Installed PROVE StructInv'
    OBVIOUS
  <1> DEFINE d == conv_config(new)
             k == Len(handles)
  <1>1. /\ phase = "checks" /\ current' = d /\ phase' = "running" /\ outcome' = "loaded"
        /\ new' = NoConfig /\ cfe' = <<>> /\ check' = {} /\ error' = FALSE
        /\ log' = Fold(Text(d, "SyslogFacility"))
        /\ UNCHANGED <<at, modFile, handles, file, loads, lost>>
    BY DEF Installed, dglogchange
  <1>2. wild' \in BOOLEAN
    <2>1. wild' = (wild \/ (current # NoConfig /\ FreesWildly(current)))
      BY DEF Installed
    <2>2. QED
      BY <2>1
  <1>3. /\ Shaped(new) /\ Laid(handles, new, cfe, k) /\ Listed(handles, new, k)
        /\ Bound(new)
    BY <1>1 DEF StructInv, BuildInv, Loading
  <1>4. Shaped(d) /\ Same(new, d) /\ d.data = new.data
    BY <1>3, Converts
  <1> HIDE DEF d, k
  <1>5. Listed(handles, d, k) /\ Bound(d)
    BY <1>3, <1>4, SameLaid, Zenon
  <1>6. UseInv'
    BY <1>1, <1>4, <1>5, ShapedIsConfig DEF UseInv, k
  <1>7. Basics' /\ HandlesInv'
    BY <1>1, <1>2 DEF StructInv, Basics, HandlesInv
  <1>8. BuildInv' /\ LogInv'
    BY <1>1 DEF BuildInv, LogInv, Loading, LogAsConfigured, AtRest
  <1>9. QED
    BY <1>6, <1>7, <1>8 DEF StructInv

LEMMA StructStep == StructInv /\ [Next]_vars => StructInv'
  <1> SUFFICES ASSUME StructInv, [Next]_vars PROVE StructInv'
    OBVIOUS
  <1>1. CASE ModuleLineSkipped \/ ModuleOpened \/ ModulesRefused \/ ModulesRead
    BY <1>1, StructModules
  <1>2. CASE LoadBegins
    BY <1>2, StructBegins
  <1>3. CASE ModuleInits
    BY <1>3, StructModuleInits
  <1>4. CASE ModulesBound
    BY <1>4, StructBound
  <1>5. CASE \/ ModuleInitFails \/ ModuleOutOfMemory \/ LoadOutOfMemory
             \/ FileUnreadable \/ ReadOutOfMemory \/ LineUnterminated \/ Rejected
    BY <1>5, StructFailures
  <1>6. CASE LineIgnored \/ LineUnknown \/ IntegerLine \/ StringLine
    BY <1>6, StructLines
  <1>7. CASE ReadEnds
    BY <1>7, StructReadEnds
  <1>8. CASE MemoryExhausted
    BY <1>8, StructExhausted
  <1>9. CASE Installed
    BY <1>9, StructInstalled
  <1>10. CASE UNCHANGED vars
    BY <1>10 DEF vars, StructInv, Basics, HandlesInv, BuildInv, UseInv, LogInv, Loading,
                 LogAsConfigured, AtRest
  <1>11. QED
    BY <1>1, <1>2, <1>3, <1>4, <1>5, <1>6, <1>7, <1>8, <1>9, <1>10, Zenon DEF Next

(* The table of entries, the structures the modules appended, the lists of *)
(* functions and the handles fit together at every step of every load      *)
(* (msy_module_init, the modules' _init).                                  *)
THEOREM StructInvariant == Spec => []StructInv
  BY StructInit, StructStep, PTL DEF Spec

(* Every variable keeps its shape: a running process has a configuration,  *)
(* and while the file is read every entry has the field at its offset,     *)
(* however many modules have moved the offsets (ConfigLoad.TypeOK).        *)
THEOREM TypeCorrect == Spec => []TypeOK
  <1>1. StructInv => TypeOK
    <2> SUFFICES ASSUME StructInv PROVE TypeOK
      OBVIOUS
    <2>1. \A h \in ToSet(handles) : h.lib \in DOMAIN Symbols
      BY IsSeqFacts DEF StructInv, Basics, ToSet
    <2>2. (new # NoConfig) <=> Loading
      BY ShapedIsConfig DEF StructInv, BuildInv
    <2>3. ASSUME phase \in {"read", "checks"}
          PROVE  Len(cfe) = Len(new.data) /\ {cfe[i].off : i \in DOMAIN cfe} = DOMAIN new.data
      <3>1. Laid(handles, new, cfe, Len(handles)) /\ Shaped(new)
        BY <2>3 DEF StructInv, BuildInv, Loading
      <3>2. DOMAIN cfe = 1 .. Len(cfe) /\ DOMAIN new.data = 1 .. Len(cfe)
            /\ Len(cfe) = Len(new.data)
        BY <3>1, IsSeqFacts DEF Laid, Shaped
      <3>3. \A j \in 1 .. Len(cfe) : cfe[j].off = j
        BY <3>1 DEF Laid
      <3>4. QED
        BY <3>2, <3>3
    <2>4. QED
      BY <2>1, <2>2, <2>3 DEF StructInv, Basics, UseInv, TypeOK, Loading
  <1>2. QED
    BY <1>1, StructInvariant, PTL

(* The modules are called in the order of module.conf, each with its       *)
(* function: the handles are that list backwards, and every _init puts     *)
(* itself in front (ConfigLoad.HooksInOrder).                              *)
THEOREM HooksAlwaysInOrder == Spec => []HooksInOrder
  <1>1. StructInv => HooksInOrder
    <2> SUFFICES ASSUME StructInv, phase = "running" PROVE
          /\ current.resolved
          /\ \A l \in Lists :
               /\ [i \in DOMAIN current.exec[l] |-> current.exec[l][i].name] = ModuleNames
               /\ \A i \in DOMAIN current.exec[l] : current.exec[l][i].bound
      BY DEF HooksInOrder, AtRest
    <2> DEFINE k == Len(handles)
               names == ModuleNames
    <2>1. /\ Listed(handles, current, k) /\ Bound(current)
          /\ Named(handles, modFile, Len(modFile)) /\ modFile \in ModuleFiles
      BY DEF StructInv, UseInv, HandlesInv, Basics
    <2>2. IsSeq(names)
      <3>1. modFile \in Seq(ModuleLine) /\ Len(modFile) \in 0 .. Len(modFile)
        BY <2>1, FilesFacts
      <3>2. QED
        BY <3>1, NamesFacts DEF ModuleNames
    <2>3. Len(names) = k /\ \A i \in 1 .. k : names[i] = handles[k + 1 - i].name
      BY <2>1 DEF Named, ModuleNames
    <2> HIDE DEF names, k
    <2>4. names = [i \in 1 .. k |-> names[i]]
      BY <2>2, <2>3 DEF IsSeq
    <2>5. ASSUME NEW l \in Lists
          PROVE  [i \in DOMAIN current.exec[l] |-> current.exec[l][i].name] = names
      <3>1. ListOf(handles, current.exec[l], k)
        BY <2>1 DEF Listed
      <3> DEFINE s == current.exec[l]
      <3>2. DOMAIN s = 1 .. k /\ \A i \in 1 .. k : s[i].name = handles[k + 1 - i].name
        BY <3>1, IsSeqFacts DEF ListOf
      <3> HIDE DEF s
      <3>3. [i \in DOMAIN s |-> s[i].name] = [i \in 1 .. k |-> names[i]]
        BY <2>3, <3>2
      <3>4. QED
        BY <2>4, <3>3 DEF s
    <2>6. QED
      BY <2>1, <2>5 DEF Bound, names
  <1>2. QED
    BY <1>1, StructInvariant, PTL

(* The log goes where the configuration in use says, unless the last load  *)
(* failed and left it on standard error (ConfigLoad.LogAsConfigured).      *)
THEOREM LogAlwaysAsConfigured == Spec => []LogAsConfigured
  <1>1. StructInv => LogAsConfigured
    BY SMTT(30) DEF StructInv, LogInv
  <1>2. QED
    BY <1>1, StructInvariant, PTL

(***************************************************************************)
(* What the lines of messasy.conf make of the settings.                    *)
(***************************************************************************)
\* A field that points to a string, and one no line has set.
IsText(v) == v \in [text : Texts, line : Nat]
OfDummy(e) == e.name = DummyCfe[1].name
Unset(v, e) ==
  IF e.type = "integer" THEN v = 0 ELSE v = NULL \/ (v = Garbage /\ OfDummy(e))
AllUnset(d, es) == \A j \in 1 .. Len(es) : Unset(d[j], es[j])

\* What the lines below n have made of the field of entry e.
Below(f, e, n) == {i \in LinesFor(f, e) : i < n}
FilledBelow(f, e, n) == {i \in Below(f, e, n) : f[i].text # <<>>}
Pointer(f, i) == [text |-> f[i].text, line |-> i]
FieldRead(f, e, v, n) ==
  IF e.type = "integer"
  THEN v = IF Below(f, e, n) = {} THEN 0 ELSE f[LastOf(Below(f, e, n))].num % UINT
  ELSE IF FilledBelow(f, e, n) = {} THEN Unset(v, e)
       ELSE v = Pointer(f, LastOf(FilledBelow(f, e, n)))

\* What a file says to a program that keeps the low 32 bits of a number: the last
\* number, cut, and a line that is taken (ConfigLoad.Meaning, ConfigLoad.LineValid).
ReadMeaning(f, e) ==
  LET filled == {i \in LinesFor(f, e) : f[i].text # <<>>}
  IN  IF LinesFor(f, e) = {} THEN e.default
      ELSE IF e.type = "integer" THEN f[LastOf(LinesFor(f, e))].num % UINT
      ELSE IF filled = {} THEN NULL ELSE f[LastOf(filled)].text
LineTaken(l, e) ==
  IF e.type = "integer"
  THEN OnlyBlanks(l.text) /\ Passes(e.test, ToInt(l.num % UINT))
  ELSE Passes(e.test, l.text)

\* A field is what the whole file says.
Agrees(f, e, v) ==
  IF e.type = "integer" THEN v = ReadMeaning(f, e)
  ELSE \/ ReadMeaning(f, e) = NULL /\ Unset(v, e)
       \/ /\ ReadMeaning(f, e) # NULL /\ IsText(v) /\ v.text = ReadMeaning(f, e)
          /\ v.text \in Seq(STRING) \/ v.text = e.default

Understood(f, es, i) ==
  \/ f[i].kind = "comment"
  \/ \E j \in 1 .. Len(es) : i \in LinesFor(f, es[j]) /\ LineTaken(f[i], es[j])
\* The search of read_config finds no other entry with this keyword before it.
First(es, j) == \A i \in 1 .. j - 1 : es[i].name # es[j].name
\* No two modules have their fields in the same place.
Spread(c) ==
  \A i \in DOMAIN c.excf : \A p \in 1 .. i - 1 : c.excf[p].at > c.excf[i].at

\* What read_config itself asks of a file.
Complete(f) ==
  /\ \A i, j \in DOMAIN handles : i # j => handles[i].name # handles[j].name
  /\ \A i \in DOMAIN f :
       \/ f[i].kind = "comment"
       \/ \E e \in AllEntries : i \in LinesFor(f, e) /\ LineTaken(f[i], e)
  /\ \A e \in AllEntries : e.default = NULL => LinesFor(f, e) # {}

ReadSoFar(f, es, chk, err, d, n) ==
  /\ n <= Len(f) + 1
  /\ \A j \in 1 .. Len(es) : j \in chk <=> First(es, j) /\ Below(f, es[j], n) # {}
  /\ err <=> \E i \in 1 .. n - 1 : ~Understood(f, es, i)
  /\ ~err => \A j \in 1 .. Len(es) : First(es, j) => FieldRead(f, es[j], d[j], n)
FileRead ==
  /\ error <=> ~Complete(file)
  /\ ~error => \A j \in 1 .. Len(cfe) : Agrees(file, cfe[j], new.data[j])
ReadInv ==
  /\ Loading => Spread(new)
  /\ phase = "init" => AllUnset(new.data, cfe)
  /\ phase = "read" => ReadSoFar(file, cfe, check, error, new.data, at)
  /\ phase = "checks" => FileRead
CurrentInv == current # NoConfig => ValuesAsWritten /\ ExtrasAsWritten /\ ValuesUsable
SettingsInv == ReadInv /\ CurrentInv /\ AcceptedIffValid

(* The types of the entries and the defaults that are numbers.             *)
LEMMA MainNumbers ==
  /\ MainCfe[2].default = 20026 /\ MainCfe[3].default = 10 /\ MainCfe[6].default = 17777
  /\ MainCfe[9].default = 300 /\ MainCfe[15].default = 0 /\ MainCfe[17].default = 389
  /\ MainCfe[23].default = 5 /\ MainCfe[8].default = 16
  /\ MainCfe[7].default = NULL /\ MainCfe[11].default = NULL /\ MainCfe[12].default = NULL
  BY SMTT(60) DEF MainCfe, Table, Str, Num

LEMMA MainTypes == \A j \in 1 .. 23 : MainCfe[j].type \in {"integer", "string"}
  <1>1. \A j \in 1 .. 23 : \/ j \in 1 .. 8
                           \/ j \in 9 .. 16
                           \/ j \in 17 .. 23
    OBVIOUS
  <1>2. \A j \in 1 .. 8 : MainCfe[j].type \in {"integer", "string"}
    BY MainNames, SMTT(60) DEF Describes
  <1>3. \A j \in 9 .. 16 : MainCfe[j].type \in {"integer", "string"}
    BY MainNames, SMTT(60) DEF Describes
  <1>4. \A j \in 17 .. 23 : MainCfe[j].type \in {"integer", "string"}
    BY MainNames, SMTT(60) DEF Describes
  <1>5. QED
    BY <1>1, <1>2, <1>3, <1>4

LEMMA ModuleStrings ==
  \A m \in DOMAIN Modules : \A n \in DOMAIN Modules[m] : Modules[m][n].type = "string"
  <1>1. \A n \in DOMAIN LdaCfe : LdaCfe[n].type = "string"
    BY Tables, SMTT(30) DEF IsTable, LdaCfe, Table, Str, Num
  <1>2. \A n \in DOMAIN MaildropCfe : MaildropCfe[n].type = "string"
    BY Tables, SMTT(30) DEF IsTable, MaildropCfe, Table, Str, Num
  <1>3. \A n \in DOMAIN GzipCfe : GzipCfe[n].type = "string"
    BY Tables, SMTT(30) DEF IsTable, GzipCfe, Table, Str, Num
  <1>4. \A n \in DOMAIN EnczipCfe : EnczipCfe[n].type = "string"
    BY Tables, SMTT(30) DEF IsTable, EnczipCfe, Table, Str, Num
  <1>5. \A n \in DOMAIN DummyCfe : DummyCfe[n].type = "string"
    BY Tables, SMTT(30) DEF IsTable, DummyCfe, Table, Str, Num
  <1>6. QED
    BY <1>1, <1>2, <1>3, <1>4, <1>5, ModuleNamed

LEMMA DefaultsAreTexts ==
  /\ \A j \in 1 .. 23 : MainCfe[j].type = "string" => MainCfe[j].default \in Texts
  /\ \A m \in DOMAIN Modules : \A n \in DOMAIN Modules[m] : Modules[m][n].default \in Texts
  <1>1. DOMAIN MainCfe = 1 .. 23
    BY Tables DEF IsTable
  <1>2. \A j \in DOMAIN MainCfe : MainCfe[j] \in ToSet(MainCfe)
    BY DEF ToSet
  <1>3. \A m \in DOMAIN Modules : \A n \in DOMAIN Modules[m] : Modules[m][n] \in ToSet(Modules[m])
    BY DEF ToSet
  <1>4. \A e : /\ e.type = "string"
               /\ e \in ToSet(MainCfe) \/ \E m \in DOMAIN Modules : e \in ToSet(Modules[m])
               => e.default \in Texts
    BY DEF Texts
  <1>5. QED
    BY <1>1, <1>2, <1>3, <1>4, ModuleStrings

(* The entry of dummy is in no other table.                                *)
LEMMA OnlyDummys ==
  /\ \A j \in 1 .. 23 : ~OfDummy(MainCfe[j])
  /\ \A m \in DOMAIN Modules : \A n \in DOMAIN Modules[m] :
       OfDummy(Modules[m][n]) => m = "dummy"
  <1>1. 1 \in DOMAIN DummyCfe /\ DOMAIN MainCfe = 1 .. 23
    BY Tables DEF IsTable
  <1>2. \A j \in 1 .. 23 : ~OfDummy(MainCfe[j])
    BY <1>1, MainDummy DEF Apart, OfDummy
  <1>3. ASSUME NEW m \in DOMAIN Modules, NEW n \in DOMAIN Modules[m], m # "dummy"
        PROVE  ~OfDummy(Modules[m][n])
    <2>1. Apart(Modules[m], Modules["dummy"]) /\ Modules["dummy"] = DummyCfe
      BY <1>3, ModulesApart, ModuleNamed
    <2>2. QED
      BY <1>1, <2>1 DEF Apart, OfDummy
  <1>4. QED
    BY <1>2, <1>3

(* The lines of a file, and the last of some of them.                      *)
LEMMA LineFacts ==
  ASSUME NEW f \in Files, NEW i \in 1 .. Len(f)
  PROVE  /\ f[i].kind \in {"comment", "unterminated", "setting"}
         /\ f[i].kind = "setting" => f[i].text \in Seq(STRING) /\ f[i].num \in Int
  <1>1. f \in Seq(ConfigLine) /\ Len(f) \in Nat
    BY FilesFacts
  <1>2. f[i] \in ConfigLine
    <2> DEFINE A == ConfigLine
    <2> HIDE DEF A
    <2>1. f \in Seq(A)
      BY <1>1 DEF A
    <2>2. f[i] \in A
      BY <2>1
    <2>3. QED
      BY <2>2 DEF A
  <1>3. \A l \in ConfigLine :
          /\ l.kind \in {"comment", "unterminated", "setting"}
          /\ l.kind = "setting" => l.text \in Seq(STRING) /\ l.num \in Int
    BY DEF ConfigLine
  <1>4. QED
    BY <1>2, <1>3

LineFor(f, e, i) == f[i].kind = "setting" /\ Matches(f[i], e)

LEMMA LinesAre ==
  ASSUME NEW f \in Files, NEW e
  PROVE  /\ LinesFor(f, e) = {i \in 1 .. Len(f) : LineFor(f, e, i)}
         /\ \A n \in Nat : /\ Below(f, e, n) \in SUBSET (0 .. Len(f))
                           /\ FilledBelow(f, e, n) \in SUBSET (0 .. Len(f))
  <1>1. DOMAIN f = 1 .. Len(f) /\ Len(f) \in Nat
    BY FilesFacts
  <1>2. LinesFor(f, e) = {i \in 1 .. Len(f) : LineFor(f, e, i)}
    BY <1>1 DEF LinesFor, LineFor, Matches
  <1>3. LinesFor(f, e) \subseteq 0 .. Len(f)
    BY <1>1, <1>2
  <1>4. QED
    BY <1>2, <1>3 DEF Below, FilledBelow

LEMMA LastIsLast ==
  ASSUME NEW k \in Nat, NEW S \in SUBSET (0 .. k), S # {}
  PROVE  LastOf(S) \in S /\ \A j \in S : j <= LastOf(S)
  <1>1. \E i \in S : \A j \in S : j <= i
    BY GreatestExists
  <1>2. QED
    BY <1>1, Zenon DEF LastOf

LEMMA LastAdded ==
  ASSUME NEW n \in Nat, NEW S, \A j \in S : j \in Nat /\ j <= n, n \in S
  PROVE  LastOf(S) = n
  <1>1. S \in SUBSET (0 .. n)
    OBVIOUS
  <1>2. LastOf(S) \in S /\ \A j \in S : j <= LastOf(S)
    BY <1>1, LastIsLast
  <1> DEFINE m == LastOf(S)
  <1>3. m \in S /\ n <= m
    BY <1>2
  <1> HIDE DEF m
  <1>4. m = n
    BY <1>3
  <1>5. QED
    BY <1>4 DEF m

(* One line more.                                                          *)
LEMMA NextBelow ==
  ASSUME NEW f \in Files, NEW e, NEW n \in 1 .. Len(f)
  PROVE  /\ LineFor(f, e, n) => /\ n \in Below(f, e, n + 1)
                                /\ LastOf(Below(f, e, n + 1)) = n
         /\ ~LineFor(f, e, n) => Below(f, e, n + 1) = Below(f, e, n)
         /\ LineFor(f, e, n) /\ f[n].text # <<>> =>
              /\ FilledBelow(f, e, n + 1) # {}
              /\ LastOf(FilledBelow(f, e, n + 1)) = n
         /\ ~LineFor(f, e, n) \/ f[n].text = <<>> =>
              FilledBelow(f, e, n + 1) = FilledBelow(f, e, n)
  <1>1. Len(f) \in Nat /\ n \in Nat
    BY FilesFacts
  <1> DEFINE L == LinesFor(f, e)
  <1>2. L \subseteq 1 .. Len(f) /\ (n \in L <=> LineFor(f, e, n))
    BY LinesAre
  <1> HIDE DEF L
  <1>3. \A i \in L : i < n + 1 <=> i < n \/ i = n
    BY <1>1, <1>2
  <1>4. \A i \in L : i < n + 1 => i \in Nat /\ i <= n
    BY <1>1, <1>2
  <1> DEFINE B == Below(f, e, n + 1)
             F == FilledBelow(f, e, n + 1)
  <1>5. B = {i \in L : i < n + 1} /\ F = {i \in B : f[i].text # <<>>}
    BY DEF Below, FilledBelow, L
  <1>6. Below(f, e, n) = {i \in L : i < n}
        /\ FilledBelow(f, e, n) = {i \in L : i < n /\ f[i].text # <<>>}
    BY DEF Below, FilledBelow, L
  <1> HIDE DEF B, F
  <1>7. (\A j \in B : j \in Nat /\ j <= n) /\ \A j \in F : j \in Nat /\ j <= n
    BY <1>4, <1>5
  <1>8. ASSUME LineFor(f, e, n) PROVE n \in B /\ LastOf(B) = n
    <2>1. n \in B
      BY <1>1, <1>2, <1>3, <1>5, <1>8
    <2>2. QED
      BY <1>1, <1>7, <2>1, LastAdded
  <1>9. ASSUME LineFor(f, e, n), f[n].text # <<>> PROVE F # {} /\ LastOf(F) = n
    <2>1. n \in F
      BY <1>5, <1>8, <1>9
    <2>2. QED
      BY <1>1, <1>7, <2>1, LastAdded
  <1>10. ASSUME ~LineFor(f, e, n) PROVE B = Below(f, e, n)
    BY <1>2, <1>3, <1>5, <1>6, <1>10
  <1>11. ASSUME ~LineFor(f, e, n) \/ f[n].text = <<>> PROVE F = FilledBelow(f, e, n)
    BY <1>2, <1>3, <1>5, <1>6, <1>11
  <1>12. QED
    BY <1>8, <1>9, <1>10, <1>11 DEF B, F

LEMMA FieldSkipped ==
  ASSUME NEW f \in Files, NEW e, NEW v, NEW n \in 1 .. Len(f), FieldRead(f, e, v, n),
         ~LineFor(f, e, n) \/ (e.type # "integer" /\ f[n].text = <<>>)
  PROVE  FieldRead(f, e, v, n + 1)
  BY NextBelow DEF FieldRead

LEMMA FieldNumber ==
  ASSUME NEW f \in Files, NEW e, NEW n \in 1 .. Len(f), LineFor(f, e, n),
         e.type = "integer"
  PROVE  FieldRead(f, e, f[n].num % UINT, n + 1)
  BY NextBelow DEF FieldRead

LEMMA FieldText ==
  ASSUME NEW f \in Files, NEW e, NEW n \in 1 .. Len(f), LineFor(f, e, n),
         e.type # "integer", f[n].text # <<>>
  PROVE  FieldRead(f, e, Pointer(f, n), n + 1)
  BY NextBelow DEF FieldRead

(* Before the first line, and after the last.                              *)
LEMMA NothingBelow ==
  ASSUME NEW f \in Files, NEW e
  PROVE  Below(f, e, 1) = {} /\ FilledBelow(f, e, 1) = {}
  <1>1. LinesFor(f, e) \subseteq 1 .. Len(f) /\ Len(f) \in Nat
    BY LinesAre, FilesFacts
  <1>2. QED
    BY <1>1 DEF Below, FilledBelow

LEMMA AllBelow ==
  ASSUME NEW f \in Files, NEW e, NEW n \in Nat, n > Len(f)
  PROVE  /\ Below(f, e, n) = LinesFor(f, e)
         /\ FilledBelow(f, e, n) = {i \in LinesFor(f, e) : f[i].text # <<>>}
  <1>1. LinesFor(f, e) \subseteq 1 .. Len(f) /\ Len(f) \in Nat
    BY LinesAre, FilesFacts
  <1>2. \A i \in LinesFor(f, e) : i < n
    BY <1>1
  <1>3. QED
    BY <1>2 DEF Below, FilledBelow

LEMMA FieldUnset ==
  ASSUME NEW f \in Files, NEW e, NEW v, Unset(v, e)
  PROVE  FieldRead(f, e, v, 1)
  BY NothingBelow DEF FieldRead, Unset

(* An entry of the table of a load is one of its original tables, wherever *)
(* it has been copied to.                                                  *)
InMain(es, j) == j \in 1 .. 23 /\ SameEntry(es[j], MainCfe[j])
InModule(c, es, j, i, n) ==
  LET x == c.excf[i]
  IN  /\ x.name \in DOMAIN Modules /\ n \in DOMAIN Modules[x.name]
      /\ j = x.at + n /\ SameEntry(es[j], Modules[x.name][n])

LEMMA PlaceOf ==
  ASSUME NEW hs, NEW c, NEW es, NEW k \in Nat, Laid(hs, c, es, k), NEW j \in 1 .. Len(es)
  PROVE  InMain(es, j) \/ \E i \in 1 .. k : \E n \in Nat : InModule(c, es, j, i, n)
  <1>1. Len(es) \in Nat /\ DOMAIN c.excf = 1 .. k
    BY IsSeqFacts DEF Laid
  <1>2. CASE j <= 23
    <2>1. j \in 1 .. 23
      <3>1. \A l \in Nat : \A m \in 1 .. l : m <= 23 => m \in 1 .. 23
        OBVIOUS
      <3>2. QED
        BY <1>1, <1>2, <3>1
    <2>2. SameEntry(es[j], MainCfe[j])
      BY <2>1 DEF Laid
    <2>3. QED
      BY <2>1, <2>2 DEF InMain
  <1>3. CASE j > 23
    <2>1. j \in 24 .. Len(es)
      BY <1>1, <1>3
    <2>2. PICK i \in 1 .. k : \E n \in DOMAIN Modules[c.excf[i].name] : j = c.excf[i].at + n
      BY <1>1, <2>1 DEF Laid, Owned
    <2>3. PICK n \in DOMAIN Modules[c.excf[i].name] : j = c.excf[i].at + n
      BY <2>2
    <2>4. Placed(hs, c, es, k, i)
      BY DEF Laid
    <2>5. c.excf[i].name \in DOMAIN Modules /\ SameEntry(es[j], Modules[c.excf[i].name][n])
      BY <2>3, <2>4 DEF Placed
    <2>6. n \in Nat
      BY <2>5, ModuleTables DEF IsModuleTable
    <2>7. QED
      BY <2>3, <2>5, <2>6 DEF InModule
  <1>4. QED
    BY <1>1, <1>2, <1>3

LEMMA Inside ==
  ASSUME NEW a \in Nat, NEW l \in Nat, NEW m \in Nat, a + l <= m
  PROVE  \A n \in 1 .. l : n \in Nat \ {0} /\ a + n \in 1 .. m
  OBVIOUS

LEMMA PlaceIn ==
  ASSUME NEW hs, NEW c, NEW es, NEW k \in Nat, Laid(hs, c, es, k), NEW i \in 1 .. k
  PROVE  /\ c.excf[i].name \in DOMAIN Modules /\ c.excf[i].name = hs[k + 1 - i].name
         /\ c.excf[i].at \in Nat
         /\ \A n \in DOMAIN Modules[c.excf[i].name] :
              /\ n \in Nat \ {0} /\ c.excf[i].at + n \in 1 .. Len(es)
              /\ InModule(c, es, c.excf[i].at + n, i, n)
  <1> DEFINE x == c.excf[i]
             t == Modules[x.name]
  <1>1. /\ x.name = hs[k + 1 - i].name /\ x.name \in DOMAIN Modules
        /\ x.at \in 23 .. Len(es) /\ x.at + Len(t) <= Len(es)
        /\ \A n \in DOMAIN t : SameEntry(es[x.at + n], t[n])
    BY DEF Laid, Placed
  <1>2. Len(es) \in Nat
    BY IsSeqFacts DEF Laid
  <1>3. DOMAIN t = 1 .. Len(t) /\ Len(t) \in Nat
    BY <1>1, ModuleTables DEF IsModuleTable
  <1> HIDE DEF t
  <1>5. x.at \in Nat
    BY <1>1, <1>2
  <1>4. \A n \in DOMAIN t : n \in Nat \ {0} /\ x.at + n \in 1 .. Len(es)
    BY <1>1, <1>2, <1>3, <1>5, Inside
  <1>6. QED
    BY <1>1, <1>4, <1>5 DEF InModule, t

LEMMA EntriesAre ==
  ASSUME IsSeq(handles), NEW c, NEW es, Laid(handles, c, es, Len(handles))
  PROVE  /\ \A e \in AllEntries : \E j \in 1 .. Len(es) : SameEntry(es[j], e)
         /\ \A j \in 1 .. Len(es) : \E e \in AllEntries : SameEntry(es[j], e)
  <1> DEFINE k == Len(handles)
  <1>1. k \in Nat /\ DOMAIN handles = 1 .. k /\ DOMAIN MainCfe = 1 .. 23
    BY Tables, IsSeqFacts DEF IsTable
  <1>2. Len(es) \in Nat /\ Len(es) >= 23 /\ \A j \in 1 .. 23 : SameEntry(es[j], MainCfe[j])
    BY IsSeqFacts DEF Laid
  <1>3. \A e : e \in AllEntries <=>
          \/ \E n \in 1 .. 23 : e = MainCfe[n]
          \/ \E m \in 1 .. k : \E n \in DOMAIN Modules[handles[m].name] :
               e = Modules[handles[m].name][n]
    <2> TAKE e
    <2>1. e \in ToSet(MainCfe) <=> \E n \in 1 .. 23 : e = MainCfe[n]
      BY <1>1 DEF ToSet
    <2>2. \A m : e \in ToSet(Modules[m]) <=> \E n \in DOMAIN Modules[m] : e = Modules[m][n]
      BY DEF ToSet
    <2>3. (\E h \in ToSet(handles) : e \in ToSet(Modules[h.name])) <=>
          \E m \in 1 .. k : e \in ToSet(Modules[handles[m].name])
      BY <1>1 DEF ToSet
    <2>4. e \in AllEntries <=> \/ e \in ToSet(MainCfe)
                              \/ \E h \in ToSet(handles) : e \in ToSet(Modules[h.name])
      BY DEF AllEntries
    <2>5. QED
      BY <2>1, <2>2, <2>3, <2>4, Zenon
  <1>4. ASSUME NEW e \in AllEntries PROVE \E j \in 1 .. Len(es) : SameEntry(es[j], e)
    <2>1. ASSUME NEW n \in 1 .. 23, e = MainCfe[n]
          PROVE  \E j \in 1 .. Len(es) : SameEntry(es[j], e)
      <3>1. n \in 1 .. Len(es)
        <4>1. \A l \in Nat : l >= 23 => n \in 1 .. l
          OBVIOUS
        <4>2. QED
          BY <1>2, <4>1
      <3>2. QED
        BY <1>2, <2>1, <3>1
    <2>2. ASSUME NEW m \in 1 .. k, NEW n \in DOMAIN Modules[handles[m].name],
                 e = Modules[handles[m].name][n]
          PROVE  \E j \in 1 .. Len(es) : SameEntry(es[j], e)
      <3>1. k + 1 - m \in 1 .. k /\ k + 1 - (k + 1 - m) = m
        BY <1>1
      <3> DEFINE i == k + 1 - m
      <3>2. c.excf[i].name = handles[m].name
        BY <1>1, <3>1, PlaceIn
      <3>3. c.excf[i].at + n \in 1 .. Len(es) /\ InModule(c, es, c.excf[i].at + n, i, n)
        BY <1>1, <2>2, <3>1, <3>2, PlaceIn
      <3>4. QED
        BY <2>2, <3>2, <3>3 DEF InModule
    <2>3. QED
      BY <1>3, <2>1, <2>2
  <1>5. ASSUME NEW j \in 1 .. Len(es) PROVE \E e \in AllEntries : SameEntry(es[j], e)
    <2>1. CASE InMain(es, j)
      BY <1>3, <2>1 DEF InMain
    <2>2. ASSUME NEW i \in 1 .. k, NEW n \in Nat, InModule(c, es, j, i, n)
          PROVE  \E e \in AllEntries : SameEntry(es[j], e)
      <3>1. k + 1 - i \in 1 .. k
        BY <1>1
      <3>2. c.excf[i].name = handles[k + 1 - i].name
        BY <1>1, PlaceIn
      <3>3. QED
        BY <1>3, <2>2, <3>1, <3>2 DEF InModule
    <2>3. QED
      BY <1>1, <2>1, <2>2, PlaceOf
  <1>6. QED
    BY <1>4, <1>5

Twice(hs) == \E a, b \in DOMAIN hs : a # b /\ hs[a].name = hs[b].name

LEMMA SameNames ==
  ASSUME NEW hs, IsSeq(hs), NEW c, NEW es, Laid(hs, c, es, Len(hs)),
         NEW i \in 1 .. Len(es), NEW j \in 1 .. Len(es), es[i].name = es[j].name
  PROVE  SameEntry(es[i], es[j]) /\ (i # j => Twice(hs))
  <1> DEFINE k == Len(hs)
  <1>1. k \in Nat /\ DOMAIN hs = 1 .. k /\ DOMAIN MainCfe = 1 .. 23
    BY Tables, IsSeqFacts DEF IsTable
  <1>2. CASE InMain(es, i) /\ InMain(es, j)
    <2>1. MainCfe[i].name = MainCfe[j].name /\ i \in DOMAIN MainCfe /\ j \in DOMAIN MainCfe
      BY <1>1, <1>2, ZenonT(30) DEF InMain, SameEntry
    <2>2. i = j
      BY <2>1, MainOnce DEF NamesOnce
    <2>3. QED
      BY <2>2 DEF SameEntry
  <1>3. ASSUME NEW p \in 1 .. Len(es), NEW q \in 1 .. Len(es), InMain(es, p),
               NEW a \in 1 .. k, NEW n \in Nat, InModule(c, es, q, a, n)
        PROVE  es[p].name # es[q].name
    <2>1. c.excf[a].name \in DOMAIN Modules /\ n \in DOMAIN Modules[c.excf[a].name]
      BY <1>3 DEF InModule
    <2>2. Apart(MainCfe, Modules[c.excf[a].name])
      BY <2>1, ModuleTables DEF IsModuleTable
    <2>3. QED
      BY <1>1, <1>3, <2>1, <2>2, ZenonT(30) DEF InMain, InModule, SameEntry, Apart
  <1>4. ASSUME NEW a \in 1 .. k, NEW n \in Nat, InModule(c, es, i, a, n),
               NEW b \in 1 .. k, NEW m \in Nat, InModule(c, es, j, b, m)
        PROVE  SameEntry(es[i], es[j]) /\ (i # j => Twice(hs))
    <2> DEFINE x == c.excf[a]
               y == c.excf[b]
    <2>1. /\ x.name \in DOMAIN Modules /\ n \in DOMAIN Modules[x.name]
          /\ i = x.at + n /\ SameEntry(es[i], Modules[x.name][n])
          /\ y.name \in DOMAIN Modules /\ m \in DOMAIN Modules[y.name]
          /\ j = y.at + m /\ SameEntry(es[j], Modules[y.name][m])
      BY <1>4 DEF InModule
    <2>2. Modules[x.name][n].name = Modules[y.name][m].name
      BY <2>1 DEF SameEntry
    <2>3. x.name = y.name
      BY <2>1, <2>2, ModulesApart DEF Apart
    <2>4. n = m
      BY <2>1, <2>2, <2>3, ModuleTables, SMTT(30) DEF IsModuleTable, NamesOnce
    <2>5. SameEntry(es[i], es[j])
      BY <2>1, <2>3, <2>4 DEF SameEntry
    <2>6. ASSUME i # j PROVE Twice(hs)
      <3>1. a # b
        BY <2>1, <2>4, <2>6
      <3>2. k + 1 - a \in 1 .. k /\ k + 1 - b \in 1 .. k /\ k + 1 - a # k + 1 - b
        BY <1>1, <3>1
      <3>3. \A p \in 1 .. k : c.excf[p].name = hs[k + 1 - p].name
        <4> HIDE DEF x, y
        <4> QED
          BY <1>1 DEF Laid, Placed
      <3>4. hs[k + 1 - a].name = hs[k + 1 - b].name
        BY <2>3, <3>3
      <3>5. \A u, v : u \in DOMAIN hs /\ v \in DOMAIN hs /\ u # v /\ hs[u].name = hs[v].name
                      => Twice(hs)
        BY DEF Twice
      <3>6. QED
        BY <1>1, <3>2, <3>4, <3>5
    <2>7. QED
      BY <2>5, <2>6
  <1>5. /\ InMain(es, i) \/ \E a \in 1 .. k : \E n \in Nat : InModule(c, es, i, a, n)
        /\ InMain(es, j) \/ \E a \in 1 .. k : \E n \in Nat : InModule(c, es, j, a, n)
    BY <1>1, PlaceOf
  <1>6. QED
    BY <1>2, <1>3, <1>4, <1>5

(* Of a module that is loaded twice the second entry without a default is  *)
(* never found.                                                            *)
LEMMA TwiceUnset ==
  ASSUME NEW hs, IsSeq(hs), NEW c, NEW es, Laid(hs, c, es, Len(hs)), Spread(c), Twice(hs)
  PROVE  \E j \in 1 .. Len(es) : ~First(es, j) /\ es[j].default = NULL
  <1> DEFINE k == Len(hs)
  <1>1. k \in Nat /\ DOMAIN hs = 1 .. k /\ DOMAIN c.excf = 1 .. k
    BY IsSeqFacts DEF Laid
  <1>2. PICK a \in 1 .. k, b \in 1 .. k : a # b /\ hs[a].name = hs[b].name
    BY <1>1 DEF Twice
  <1>3. k + 1 - a \in 1 .. k /\ k + 1 - b \in 1 .. k /\ k + 1 - a # k + 1 - b
        /\ k + 1 - (k + 1 - a) = a /\ k + 1 - (k + 1 - b) = b
    BY <1>1, <1>2
  <1>4. PICK p \in 1 .. k, q \in 1 .. k : p < q /\ c.excf[p].name = c.excf[q].name
    <2>1. c.excf[k + 1 - a].name = hs[a].name /\ c.excf[k + 1 - b].name = hs[b].name
      BY <1>1, <1>3, PlaceIn
    <2>2. k + 1 - a < k + 1 - b \/ k + 1 - b < k + 1 - a
      BY <1>1, <1>3
    <2>3. QED
      BY <1>2, <1>3, <2>1, <2>2
  <1> DEFINE x == c.excf[p]
             y == c.excf[q]
  <1>5. x.at > y.at
    BY <1>1, <1>4 DEF Spread
  <1>6. x.name \in DOMAIN Modules /\ y.name = x.name
    BY <1>1, <1>4, PlaceIn
  <1>7. PICK n \in DOMAIN Modules[x.name] : Modules[x.name][n].default = NULL
    BY <1>6, ModuleTables DEF IsModuleTable
  <1>8. /\ x.at \in Nat /\ y.at \in Nat /\ n \in Nat \ {0}
        /\ x.at + n \in 1 .. Len(es) /\ InModule(c, es, x.at + n, p, n)
        /\ y.at + n \in 1 .. Len(es) /\ InModule(c, es, y.at + n, q, n)
    BY <1>1, <1>6, PlaceIn
  <1>9. es[x.at + n].default = NULL /\ es[x.at + n].name = es[y.at + n].name
    BY <1>6, <1>7, <1>8 DEF InModule, SameEntry
  <1>10. y.at + n \in 1 .. (x.at + n) - 1
    <2>1. \A u \in Nat, v \in Nat, w \in Nat \ {0} : u > v => v + w \in 1 .. (u + w) - 1
      OBVIOUS
    <2>2. QED
      BY <1>5, <1>8, <2>1
  <1>11. ~First(es, x.at + n)
    BY <1>9, <1>10 DEF First
  <1>12. QED
    BY <1>8, <1>9, <1>11

(* The next line, as ReadSoFar sees it.                                    *)
LEMMA OneMore ==
  ASSUME NEW n \in Nat \ {0}
  PROVE  /\ \A i \in 1 .. n - 1 : i \in 1 .. (n + 1) - 1
         /\ n \in 1 .. (n + 1) - 1
         /\ \A i \in 1 .. (n + 1) - 1 : i = n \/ i \in 1 .. n - 1
  OBVIOUS

LEMMA NotOfEntry ==
  ASSUME NEW f \in Files, NEW es, NEW chk, NEW err \in BOOLEAN, NEW d,
         NEW n \in 1 .. Len(f), ReadSoFar(f, es, chk, err, d, n),
         \A j \in 1 .. Len(es) : ~LineFor(f, es[j], n)
  PROVE  ReadSoFar(f, es, chk, IF f[n].kind = "comment" THEN err ELSE TRUE, d, n + 1)
  <1> DEFINE w == IF f[n].kind = "comment" THEN err ELSE TRUE
  <1>1. Len(f) \in Nat /\ n \in Nat \ {0}
    BY FilesFacts
  <1> n + 1 <= Len(f) + 1
    BY <1>1
  <1>2. \A j \in 1 .. Len(es) : /\ Below(f, es[j], n + 1) = Below(f, es[j], n)
                                /\ n \notin LinesFor(f, es[j])
    BY NextBelow, LinesAre
  <1>3. \A j \in 1 .. Len(es) : j \in chk <=> First(es, j) /\ Below(f, es[j], n + 1) # {}
    BY <1>2 DEF ReadSoFar
  <1>4. Understood(f, es, n) <=> f[n].kind = "comment"
    BY <1>2 DEF Understood
  <1>5. w <=> \E i \in 1 .. (n + 1) - 1 : ~Understood(f, es, i)
    <2>1. err <=> \E i \in 1 .. n - 1 : ~Understood(f, es, i)
      BY DEF ReadSoFar
    <2>2. QED
      BY <1>1, <1>4, <2>1, OneMore
  <1>6. ~w => \A j \in 1 .. Len(es) : First(es, j) => FieldRead(f, es[j], d[j], n + 1)
    <2> SUFFICES ASSUME ~w, NEW j \in 1 .. Len(es), First(es, j)
                 PROVE  FieldRead(f, es[j], d[j], n + 1)
      OBVIOUS
    <2>1. ~err
      OBVIOUS
    <2>2. FieldRead(f, es[j], d[j], n)
      BY <2>1 DEF ReadSoFar
    <2>3. QED
      BY <2>2, FieldSkipped
  <1> HIDE DEF w
  <1>7. ReadSoFar(f, es, chk, w, d, n + 1)
    BY <1>3, <1>5, <1>6 DEF ReadSoFar
  <1>8. QED
    BY <1>7 DEF w

LEMMA MatchesName ==
  ASSUME NEW l, NEW e, NEW g, Matches(l, e)
  PROVE  Matches(l, g) <=> g.name = e.name
  BY DEF Matches

SameWhenNamed(es) ==
  \A i, j \in 1 .. Len(es) : es[i].name = es[j].name => SameEntry(es[i], es[j])

\* Line n is one of entry e, and changes no other field than its own.
ReadsEntry(f, es, err, d, w, n, e) ==
  /\ n \in 1 .. Len(f) /\ SameWhenNamed(es) /\ Len(es) \in Nat /\ e \in 1 .. Len(es)
  /\ LineFor(f, es[e], n) /\ \A i \in 1 .. e - 1 : ~Matches(f[n], es[i])
  /\ \A j \in 1 .. Len(es) : j # e => w[j] = d[j]
  /\ LineTaken(f[n], es[e]) /\ ~err => FieldRead(f, es[e], w[e], n + 1)

LEMMA LineOfEntry ==
  ASSUME NEW f \in Files, NEW es, NEW chk, NEW err \in BOOLEAN, NEW d, NEW w, NEW n,
         ReadSoFar(f, es, chk, err, d, n), NEW e, ReadsEntry(f, es, err, d, w, n, e)
  PROVE  ReadSoFar(f, es, chk \cup {e}, IF LineTaken(f[n], es[e]) THEN err ELSE TRUE, w, n + 1)
  <1> DEFINE v == IF LineTaken(f[n], es[e]) THEN err ELSE TRUE
  <1> USE DEF ReadsEntry
  <1>1. Len(f) \in Nat /\ n \in Nat \ {0}
    BY FilesFacts
  <1> n + 1 <= Len(f) + 1
    BY <1>1
  <1>2. Matches(f[n], es[e]) /\ f[n].kind = "setting"
    BY DEF LineFor
  <1>3. \A j \in 1 .. Len(es) : LineFor(f, es[j], n) <=> es[j].name = es[e].name
    BY <1>2, MatchesName DEF LineFor
  <1>4. First(es, e)
    <2>1. \A i \in 1 .. e - 1 : i \in 1 .. Len(es)
      OBVIOUS
    <2>2. QED
      BY <1>2, <1>3, <2>1, MatchesName DEF First
  <1>5. ASSUME NEW j \in 1 .. Len(es), First(es, j), j # e PROVE ~LineFor(f, es[j], n)
    <2>1. CASE j > e
      <3>1. e \in 1 .. j - 1
        BY <2>1
      <3>2. QED
        BY <1>3, <1>5, <3>1 DEF First
    <2>2. CASE j < e
      <3>1. j \in 1 .. e - 1
        BY <2>2
      <3>2. QED
        BY <3>1 DEF LineFor
    <2>3. QED
      BY <1>5, <2>1, <2>2
  <1>6. ASSUME NEW j \in 1 .. Len(es)
        PROVE  j \in chk \cup {e} <=> First(es, j) /\ Below(f, es[j], n + 1) # {}
    <2>1. CASE j = e
      BY <1>4, <2>1, NextBelow
    <2>2. CASE j # e
      <3>1. First(es, j) => Below(f, es[j], n + 1) = Below(f, es[j], n)
        BY <1>5, <2>2, NextBelow
      <3>2. j \in chk <=> First(es, j) /\ Below(f, es[j], n) # {}
        BY DEF ReadSoFar
      <3>3. QED
        BY <2>2, <3>1, <3>2
    <2>3. QED
      BY <2>1, <2>2
  <1>7. Understood(f, es, n) <=> LineTaken(f[n], es[e])
    <2>1. \A j \in 1 .. Len(es) : n \in LinesFor(f, es[j]) <=> LineFor(f, es[j], n)
      BY LinesAre
    <2>2. \A j \in 1 .. Len(es) : LineFor(f, es[j], n) => SameEntry(es[j], es[e])
      BY <1>3 DEF SameWhenNamed
    <2>3. \A j \in 1 .. Len(es) : SameEntry(es[j], es[e]) =>
            (LineTaken(f[n], es[j]) <=> LineTaken(f[n], es[e]))
      BY DEF SameEntry, LineTaken
    <2>4. QED
      BY <1>2, <2>1, <2>2, <2>3 DEF Understood
  <1>8. v <=> \E i \in 1 .. (n + 1) - 1 : ~Understood(f, es, i)
    <2>1. err <=> \E i \in 1 .. n - 1 : ~Understood(f, es, i)
      BY DEF ReadSoFar
    <2>2. QED
      BY <1>1, <1>7, <2>1, OneMore
  <1>9. ASSUME ~v, NEW j \in 1 .. Len(es), First(es, j)
        PROVE  FieldRead(f, es[j], w[j], n + 1)
    <2>1. ~err /\ LineTaken(f[n], es[e])
      BY <1>9
    <2>2. CASE j = e
      BY <2>1, <2>2
    <2>3. CASE j # e
      <3>1. FieldRead(f, es[j], d[j], n)
        BY <1>9, <2>1 DEF ReadSoFar
      <3>2. ~LineFor(f, es[j], n) /\ w[j] = d[j]
        BY <1>5, <1>9, <2>3
      <3>3. QED
        BY <3>1, <3>2, FieldSkipped
    <2>4. QED
      BY <2>2, <2>3
  <1> HIDE DEF v
  <1>10. ReadSoFar(f, es, chk \cup {e}, v, w, n + 1)
    BY <1>6, <1>8, <1>9 DEF ReadSoFar
  <1>11. QED
    BY <1>10 DEF v

LEMMA NothingRead ==
  ASSUME NEW f \in Files, NEW es, NEW d, AllUnset(d, es)
  PROVE  ReadSoFar(f, es, {}, FALSE, d, 1)
  <1>1. \A j \in 1 .. Len(es) : Below(f, es[j], 1) = {} /\ FieldRead(f, es[j], d[j], 1)
    BY NothingBelow, FieldUnset DEF AllUnset
  <1>2. ~ \E i \in 1 .. 1 - 1 : ~Understood(f, es, i)
    OBVIOUS
  <1>3. 1 <= Len(f) + 1
    BY FilesFacts
  <1>4. QED
    BY <1>1, <1>2, <1>3 DEF ReadSoFar

(***************************************************************************)
(* Until the file is read, no field is set.                                *)
(***************************************************************************)
LEMMA ZeroedUnset ==
  ASSUME NEW t, DOMAIN t = 1 .. Len(t)
  PROVE  AllUnset(Zeroed(t), t)
  BY DEF AllUnset, Unset, Zeroed

LEMMA InitLeavesUnset ==
  ASSUME NEW es, NEW data, IsSeq(es), IsSeq(data), Len(es) = Len(data),
         NEW t, IsModuleTable(t), NEW fill, IsSeq(fill), Len(fill) = Len(t),
         AllUnset(data, es), AllUnset(fill, t)
  PROVE  AllUnset(data \o fill, es \o Shifted(t, Len(data)))
  <1> DEFINE u == Shifted(t, Len(data))
             fs == es \o u
             w == data \o fill
             m == Len(data)
  <1>1. m \in Nat /\ Len(t) \in Nat
    BY IsSeqFacts DEF IsModuleTable
  <1>2. IsSeq(u) /\ Len(u) = Len(t) /\ \A n \in 1 .. Len(t) : SameEntry(u[n], t[n])
    BY <1>1, ShiftedFacts
  <1> HIDE DEF u
  <1>3. Joined(fs, es, u) /\ Joined(w, data, fill)
    BY <1>2, ConcatIsSeq, Zenon
  <1> HIDE DEF fs, w, m
  <1>4. Len(fs) = m + Len(t) /\ Len(es) = m
    BY <1>2, <1>3 DEF Joined, m
  <1>5. ASSUME NEW j \in 1 .. Len(fs) PROVE Unset(w[j], fs[j])
    <2>1. CASE j <= m
      <3>1. j \in 1 .. Len(es) /\ j \in 1 .. Len(data)
        BY <1>1, <1>4, <2>1 DEF m
      <3>2. fs[j] = es[j] /\ w[j] = data[j]
        BY <1>3, <3>1 DEF Joined
      <3>3. QED
        BY <3>1, <3>2 DEF AllUnset
    <2>2. CASE j > m
      <3>1. j - m \in 1 .. Len(t) /\ m + (j - m) = j
        BY <1>1, <1>4, <2>2, SMTT(30)
      <3>2. fs[m + (j - m)] = u[j - m] /\ w[m + (j - m)] = fill[j - m]
        BY <1>2, <1>3, <1>4, <3>1 DEF Joined, m
      <3>3. Unset(fill[j - m], t[j - m]) /\ SameEntry(u[j - m], t[j - m])
        BY <1>2, <3>1 DEF AllUnset
      <3>4. QED
        BY <3>1, <3>2, <3>3 DEF Unset, SameEntry, OfDummy
    <2>3. QED
      BY <1>1, <1>4, <2>1, <2>2
  <1>6. QED
    BY <1>5 DEF AllUnset, w, fs, u, m

LEMMA InitSpreads ==
  ASSUME NEW hs, NEW c, NEW es, NEW k \in Nat, Laid(hs, c, es, k), Spread(c),
         NEW X, X.at = Len(c.data), NEW d, d.excf = <<X>> \o c.excf
  PROVE  Spread(d)
  <1> DEFINE x == c.excf
             y == d.excf
  <1>1. IsSeq(x) /\ Len(x) = k /\ DOMAIN x = 1 .. k /\ Len(es) \in Nat /\ Len(es) = Len(c.data)
    BY IsSeqFacts DEF Laid
  <1>2. Headed(y, X, x)
    BY <1>1, PrependIsSeq, Zenon
  <1> HIDE DEF y
  <1>3. /\ DOMAIN y = 1 .. k + 1 /\ y[1] = X
        /\ \A i \in 2 .. k + 1 : y[i] = x[i - 1]
    BY <1>1, <1>2, IsSeqFacts DEF Headed
  <1>4. ASSUME NEW i \in 1 .. k PROVE Len(es) > x[i].at
    <2>1. x[i].name \in DOMAIN Modules /\ x[i].at \in Nat
      BY <1>1, PlaceIn
    <2>2. x[i].at + Len(Modules[x[i].name]) <= Len(es)
      BY DEF Laid, Placed
    <2>3. Len(Modules[x[i].name]) \in Nat \ {0}
      BY <2>1, ModuleTables DEF IsModuleTable
    <2>4. \A a, b, l \in Nat : a + b <= l /\ b # 0 => l > a
      OBVIOUS
    <2>5. QED
      BY <1>1, <2>1, <2>2, <2>3, <2>4
  <1>5. \A i \in 1 .. k : \A p \in 1 .. i - 1 : x[p].at > x[i].at
    BY <1>1 DEF Spread
  <1> HIDE DEF x
  <1>6. ASSUME NEW i \in 1 .. k + 1, NEW p \in 1 .. i - 1 PROVE y[p].at > y[i].at
    <2>1. i \in 2 .. k + 1 /\ i - 1 \in 1 .. k /\ y[i] = x[i - 1]
      BY <1>3
    <2>2. CASE p = 1
      BY <1>1, <1>3, <1>4, <2>1, <2>2
    <2>3. CASE p # 1
      <3>1. p \in 2 .. k + 1 /\ p - 1 \in 1 .. (i - 1) - 1
        BY <2>3
      <3>2. x[p - 1].at > x[i - 1].at /\ y[p] = x[p - 1]
        BY <1>3, <1>5, <2>1, <3>1
      <3>3. QED
        BY <2>1, <3>2
    <2>4. QED
      BY <2>2, <2>3
  <1>7. QED
    BY <1>3, <1>6 DEF Spread, y

LEMMA InitReads ==
  ASSUME StructInv, ReadInv, phase = "init",
         NEW name \in DOMAIN Modules, NEW t, t = Modules[name], NEW fill, IsSeq(fill),
         Len(fill) = Len(t), AllUnset(fill, t), NEW names, ModuleInit(name, t, fill, names)
  PROVE  Spread(new') /\ AllUnset((new').data, cfe')
  <1> DEFINE c == new
             d == new'
             X == [name |-> name, at |-> Len(c.data), node |-> at]
             k == at - 1
  <1>1. Shaped(c) /\ Laid(handles, c, cfe, k) /\ k \in Nat /\ Spread(c) /\ AllUnset(c.data, cfe)
    BY DEF StructInv, BuildInv, Basics, Loading, ReadInv
  <1>2. d = [Hooked(c, name, Len(c.data)) EXCEPT !.data = @ \o fill]
    BY Zenon DEF ModuleInit
  <1>3. cfe' = cfe \o Shifted(t, Len(c.data))
    BY Zenon DEF ModuleInit, Shifted
  <1>4. d.data = c.data \o fill /\ d.excf = <<X>> \o c.excf
    <2>1. HookedTo(d, c, name, Len(c.data), fill)
      BY <1>1, <1>2, Hooks, Zenon
    <2>2. QED
      BY <2>1, Zenon DEF HookedTo
  <1>5. X.at = Len(c.data)
    OBVIOUS
  <1>6. IsModuleTable(t) /\ IsSeq(cfe) /\ IsSeq(c.data) /\ Len(cfe) = Len(c.data)
    BY <1>1, ModuleTables DEF Laid, Shaped
  <1> HIDE DEF c, d, X, k
  <1>7. Spread(d)
    BY <1>1, <1>4, <1>5, InitSpreads, Zenon
  <1>8. AllUnset(d.data, cfe')
    BY <1>1, <1>3, <1>4, <1>6, InitLeavesUnset, Zenon
  <1>9. QED
    BY <1>7, <1>8 DEF d

LEMMA ReadModuleInits ==
  ASSUME StructInv, ReadInv, ModuleInits
  PROVE  phase' = "init" /\ Spread(new') /\ AllUnset((new').data, cfe')
  <1>1. phase = "init" /\ phase' = "init"
    BY DEF ModuleInits
  <1>2. \A m \in DOMAIN Modules :
          LET t == Modules[m] IN DOMAIN t = 1 .. Len(t) /\ Len(t) \in Nat
    BY ModuleTables DEF IsModuleTable
  <1>3. \A m \in DOMAIN Modules :
          /\ IsSeq(Zeroed(Modules[m])) /\ Len(Zeroed(Modules[m])) = Len(Modules[m])
          /\ AllUnset(Zeroed(Modules[m]), Modules[m])
    BY <1>2, ZeroedFacts, ZeroedUnset
  <1>4. /\ IsSeq(<<Garbage>>) /\ Len(<<Garbage>>) = Len(DummyCfe)
        /\ AllUnset(<<Garbage>>, DummyCfe)
    <2>1. Len(DummyCfe) = 1 /\ DummyCfe[1].type = "string"
      BY Tables, ModuleNamed, ModuleStrings DEF IsTable
    <2>2. IsSeq(<<Garbage>>) /\ Len(<<Garbage>>) = 1 /\ <<Garbage>>[1] = Garbage
      BY SingleIsSeq
    <2>3. QED
      BY <2>1, <2>2 DEF AllUnset, Unset, OfDummy
  <1>5. CASE handles[at].name = "lda" /\ lda_init
    BY <1>1, <1>3, <1>5, ModuleNamed, InitReads DEF lda_init
  <1>6. CASE handles[at].name = "maildrop" /\ maildrop_init
    BY <1>1, <1>3, <1>6, ModuleNamed, InitReads DEF maildrop_init
  <1>7. CASE handles[at].name = "gzip" /\ gzip_init
    BY <1>1, <1>3, <1>7, ModuleNamed, InitReads DEF gzip_init
  <1>8. CASE handles[at].name = "enczip" /\ enczip_init
    BY <1>1, <1>3, <1>8, ModuleNamed, InitReads DEF enczip_init
  <1>9. CASE handles[at].name = "dummy" /\ dummy_init
    <2>1. PICK fill \in {Zeroed(DummyCfe), <<Garbage>>} :
            ModuleInit("dummy", DummyCfe, fill,
                       {Obj(new, what, at, 0) : what \in CopiedNames})
      BY <1>9, Zenon DEF dummy_init
    <2>2. IsSeq(fill) /\ Len(fill) = Len(DummyCfe) /\ AllUnset(fill, DummyCfe)
      BY <1>3, <1>4, ModuleNamed
    <2>3. QED
      BY <1>1, <2>1, <2>2, ModuleNamed, InitReads
  <1>10. QED
    BY <1>5, <1>6, <1>7, <1>8, <1>9 DEF ModuleInits

LEMMA ReadBegins ==
  ASSUME StructInv, LoadBegins
  PROVE  phase' = "init" /\ Spread(new') /\ AllUnset((new').data, cfe')
  <1>1. PICK f \in Files : new' = init_config(f)
    BY DEF LoadBegins
  <1>2. cfe' = MainCfe /\ phase' = "init"
    BY DEF LoadBegins
  <1>3. (new').data = Zeroed(MainCfe) /\ (new').excf = <<>>
    BY <1>1 DEF init_config
  <1>4. DOMAIN MainCfe = 1 .. Len(MainCfe)
    BY Tables DEF IsTable
  <1>5. AllUnset((new').data, cfe')
    BY <1>2, <1>3, <1>4, ZeroedUnset, Zenon
  <1>6. Spread(new')
    BY <1>3 DEF Spread
  <1>7. QED
    BY <1>2, <1>5, <1>6

LEMMA ReadBound ==
  ASSUME StructInv, ReadInv, ModulesBound
  PROVE  /\ phase' = "read" /\ Spread(new')
         /\ ReadSoFar(file', cfe', check', error', (new').data, at')
  <1> DEFINE e == [l \in Lists |-> set_dlsymbol(new.exec[l])]
             d == [new EXCEPT !.exec = e, !.resolved = TRUE]
  <1>1. /\ phase = "init" /\ new' = d /\ phase' = "read" /\ at' = 1
        /\ UNCHANGED <<file, cfe, check, error>>
    BY DEF ModulesBound
  <1>2. /\ Shaped(new) /\ file \in Files /\ check = {} /\ error = FALSE
        /\ Spread(new) /\ AllUnset(new.data, cfe)
    BY <1>1 DEF StructInv, BuildInv, Loading, ReadInv
  <1> HIDE DEF e
  <1>3. d.data = new.data /\ d.excf = new.excf
    <2>1. Relisted(d, new, e, TRUE)
      BY <1>2, ListsReplaced, Zenon
    <2>2. QED
      BY <2>1, Zenon DEF Relisted
  <1> HIDE DEF d
  <1>4. Spread(d)
    BY <1>2, <1>3 DEF Spread
  <1>5. ReadSoFar(file, cfe, {}, FALSE, new.data, 1)
    BY <1>2, NothingRead
  <1>6. QED
    BY <1>1, <1>2, <1>3, <1>4, <1>5

(***************************************************************************)
(* The lines and the end of the file.                                      *)
(***************************************************************************)
LEMMA FirstFound ==
  ASSUME NEW l, NEW es, NEW e, Matches(l, es[e]),
         \A i \in 1 .. e - 1 : ~Matches(l, es[i])
  PROVE  First(es, e)
  BY MatchesName DEF First

LEMMA ReadingFacts ==
  ASSUME StructInv, ReadInv, Reading
  PROVE  /\ phase = "read" /\ file \in Files /\ at \in 1 .. Len(file) /\ at \in Nat
         /\ Line = file[at] /\ error \in BOOLEAN
         /\ Shaped(new) /\ Laid(handles, new, cfe, Len(handles)) /\ Spread(new)
         /\ IsSeq(handles) /\ IsSeq(cfe) /\ Len(cfe) \in Nat /\ SameWhenNamed(cfe)
         /\ Len(cfe) = Len(new.data) /\ \A j \in 1 .. Len(cfe) : cfe[j].off = j
         /\ ReadSoFar(file, cfe, check, error, new.data, at)
  <1>1. phase = "read" /\ at <= Len(file) /\ file \in Files /\ at \in Nat \ {0}
        /\ Line = file[at]
    BY DEF Reading, StructInv, BuildInv, Loading, Basics, Line
  <1>2. Len(file) \in Nat
    BY <1>1, FilesFacts
  <1>3. /\ Shaped(new) /\ Laid(handles, new, cfe, Len(handles)) /\ Spread(new)
        /\ IsSeq(handles) /\ ReadSoFar(file, cfe, check, error, new.data, at)
        /\ error \in BOOLEAN
    BY <1>1 DEF StructInv, BuildInv, Loading, Basics, ReadInv
  <1>4. SameWhenNamed(cfe)
    BY <1>3, SameNames DEF SameWhenNamed
  <1>5. IsSeq(cfe) /\ Len(cfe) \in Nat /\ Len(cfe) = Len(new.data)
        /\ \A j \in 1 .. Len(cfe) : cfe[j].off = j
    BY <1>3, IsSeqFacts DEF Laid
  <1>6. at \in 1 .. Len(file)
    BY <1>1, <1>2
  <1>7. QED
    BY <1>1, <1>3, <1>4, <1>5, <1>6

ReadGoesOn ==
  /\ phase' = "read" /\ Spread(new')
  /\ ReadSoFar(file', cfe', check', error', (new').data, at')

LEMMA ReadNoEntry ==
  ASSUME StructInv, ReadInv, LineIgnored \/ LineUnknown
  PROVE  ReadGoesOn
  <1>1. Reading
    BY DEF LineIgnored, LineUnknown
  <1>2. /\ phase = "read" /\ file \in Files /\ at \in 1 .. Len(file) /\ at \in Nat
        /\ Line = file[at] /\ error \in BOOLEAN /\ Spread(new)
        /\ IsSeq(cfe) /\ ReadSoFar(file, cfe, check, error, new.data, at)
    BY <1>1, ReadingFacts
  <1>3. \A j \in 1 .. Len(cfe) : ~LineFor(file, cfe[j], at)
    <2>1. CASE LineIgnored
      BY <1>2, <2>1 DEF LineIgnored, LineFor
    <2>2. CASE LineUnknown
      BY <1>2, <2>2, EntryFacts DEF LineUnknown, LineFor
    <2>3. QED
      BY <2>1, <2>2
  <1>4. ReadSoFar(file, cfe, check, IF file[at].kind = "comment" THEN error ELSE TRUE,
                  new.data, at + 1)
    BY <1>2, <1>3, NotOfEntry
  <1>5. error' = IF file[at].kind = "comment" THEN error ELSE TRUE
    BY <1>2 DEF LineIgnored, LineUnknown
  <1>6. UNCHANGED <<phase, file, cfe, new, check>> /\ at' = at + 1
    BY DEF LineIgnored, LineUnknown
  <1>7. QED
    BY <1>2, <1>4, <1>5, <1>6 DEF ReadGoesOn

\* A line of entry i with this effect on its field.
LEMMA ReadEntry ==
  ASSUME StructInv, ReadInv, Reading, Line.kind = "setting",
         NEW i \in 1 .. Len(cfe), i = EntryOf(Line), i # 0,
         UNCHANGED <<phase, file, cfe>>, at' = at + 1, check' = check \cup {i},
         error' = IF LineTaken(Line, cfe[i]) THEN error ELSE TRUE,
         NEW v, new' = new \/ FieldIs(new', new, i, v),
         LineTaken(Line, cfe[i]) /\ FieldRead(file, cfe[i], new.data[i], at) =>
           FieldRead(file, cfe[i], (new').data[i], at + 1)
  PROVE  ReadGoesOn
  <1> DEFINE w == (new').data
  <1>1. /\ phase = "read" /\ file \in Files /\ at \in 1 .. Len(file) /\ at \in Nat
        /\ Line = file[at] /\ error \in BOOLEAN /\ Spread(new)
        /\ IsSeq(cfe) /\ Len(cfe) \in Nat /\ SameWhenNamed(cfe) /\ Len(cfe) = Len(new.data)
        /\ ReadSoFar(file, cfe, check, error, new.data, at)
    BY ReadingFacts
  <1>2. /\ Matches(file[at], cfe[i])
        /\ \A p \in 1 .. i - 1 : ~Matches(file[at], cfe[p])
    BY <1>1, EntryFacts
  <1>3. LineFor(file, cfe[i], at) /\ First(cfe, i)
    BY <1>1, <1>2, FirstFound DEF LineFor
  <1>4. /\ (new').excf = new.excf
        /\ \A j \in 1 .. Len(cfe) : j # i => w[j] = new.data[j]
    BY <1>1 DEF FieldIs, Same, Replaced
  <1>5. Spread(new')
    BY <1>1, <1>4 DEF Spread
  <1>6. LineTaken(file[at], cfe[i]) /\ ~error => FieldRead(file, cfe[i], w[i], at + 1)
    BY <1>1, <1>3 DEF ReadSoFar
  <1> HIDE DEF w
  <1>7. ReadSoFar(file, cfe, check \cup {i},
                  IF LineTaken(file[at], cfe[i]) THEN error ELSE TRUE, w, at + 1)
    <2>1. ReadsEntry(file, cfe, error, new.data, w, at, i)
      BY <1>1, <1>2, <1>3, <1>4, <1>6 DEF ReadsEntry
    <2>2. QED
      BY <1>1, <2>1, LineOfEntry
  <1>8. QED
    BY <1>1, <1>5, <1>7 DEF ReadGoesOn, w

LEMMA ReadInteger ==
  ASSUME StructInv, ReadInv, IntegerLine
  PROVE  ReadGoesOn
  <1> DEFINE i == EntryOf(Line)
             e == cfe[i]
             v == Line.num % UINT
  <1>1. Reading /\ Line.kind = "setting" /\ i # 0 /\ e.type = "integer"
        /\ check' = check \cup {i} /\ at' = at + 1 /\ UNCHANGED <<phase, file, cfe>>
    BY DEF IntegerLine
  <1>2. /\ file \in Files /\ at \in 1 .. Len(file) /\ Line = file[at] /\ Shaped(new)
        /\ IsSeq(cfe) /\ Len(cfe) \in Nat /\ Len(cfe) = Len(new.data)
        /\ \A j \in 1 .. Len(cfe) : cfe[j].off = j
    BY <1>1, ReadingFacts
  <1>3. i \in 1 .. Len(cfe) /\ e.off = i /\ Matches(Line, e)
    BY <1>1, <1>2, EntryFacts
  <1>4. LineTaken(Line, e) <=> OnlyBlanks(Line.text) /\ Passes(e.test, ToInt(v))
    BY <1>1 DEF LineTaken
  <1>5. \/ LineTaken(Line, e) /\ new' = [new EXCEPT !.data[e.off] = v] /\ error' = error
        \/ ~LineTaken(Line, e) /\ error' = TRUE /\ new' = new
    BY <1>4 DEF IntegerLine
  <1>6. FieldIs([new EXCEPT !.data[e.off] = v], new, i, v)
    <2> HIDE DEF i, v
    <2>1. FieldIs([new EXCEPT !.data[i] = v], new, i, v)
      BY <1>2, <1>3, FieldSet
    <2>2. QED
      BY <1>3, <2>1
  <1>7. new' = new \/ FieldIs(new', new, i, v)
    BY <1>5, <1>6
  <1>8. LineFor(file, e, at)
    BY <1>1, <1>2, <1>3 DEF LineFor
  <1>9. ASSUME LineTaken(Line, e) PROVE FieldRead(file, e, (new').data[i], at + 1)
    <2>1. (new').data[i] = v
      BY <1>5, <1>6, <1>9 DEF FieldIs, Replaced
    <2>2. FieldRead(file, e, file[at].num % UINT, at + 1)
      BY <1>1, <1>2, <1>8, FieldNumber
    <2>3. QED
      BY <1>2, <2>1, <2>2
  <1>10. error' = IF LineTaken(Line, e) THEN error ELSE TRUE
    BY <1>5
  <1> HIDE DEF i, v
  <1>11. QED
    BY <1>1, <1>3, <1>7, <1>9, <1>10, ReadEntry DEF i

LEMMA ReadString ==
  ASSUME StructInv, ReadInv, StringLine
  PROVE  ReadGoesOn
  <1> DEFINE i == EntryOf(Line)
             e == cfe[i]
             v == Pointer(file, at)
  <1>1. Reading /\ Line.kind = "setting" /\ i # 0 /\ e.type = "string"
        /\ check' = check \cup {i} /\ at' = at + 1 /\ UNCHANGED <<phase, file, cfe>>
    BY DEF StringLine
  <1>2. /\ file \in Files /\ at \in 1 .. Len(file) /\ Line = file[at] /\ Shaped(new)
        /\ IsSeq(cfe) /\ Len(cfe) \in Nat /\ Len(cfe) = Len(new.data)
        /\ \A j \in 1 .. Len(cfe) : cfe[j].off = j
    BY <1>1, ReadingFacts
  <1>3. i \in 1 .. Len(cfe) /\ e.off = i /\ Matches(Line, e)
    BY <1>1, <1>2, EntryFacts
  <1>4. LineTaken(Line, e) <=> Passes(e.test, Line.text)
    BY <1>1 DEF LineTaken
  <1>5. \/ ~LineTaken(Line, e) /\ error' = TRUE /\ new' = new
        \/ LineTaken(Line, e) /\ Line.text = <<>> /\ error' = error /\ new' = new
        \/ /\ LineTaken(Line, e) /\ Line.text # <<>> /\ error' = error
           /\ new' = [new EXCEPT !.data[e.off] = v]
    BY <1>2, <1>4 DEF StringLine, Store, Pointer
  <1>6. FieldIs([new EXCEPT !.data[e.off] = v], new, i, v)
    <2> HIDE DEF i, v
    <2>1. FieldIs([new EXCEPT !.data[i] = v], new, i, v)
      BY <1>2, <1>3, FieldSet
    <2>2. QED
      BY <1>3, <2>1
  <1>7. new' = new \/ FieldIs(new', new, i, v)
    BY <1>5, <1>6
  <1>8. LineFor(file, e, at) /\ e.type # "integer"
    BY <1>1, <1>2, <1>3 DEF LineFor
  <1>9. ASSUME LineTaken(Line, e), FieldRead(file, e, new.data[i], at)
        PROVE  FieldRead(file, e, (new').data[i], at + 1)
    <2>1. CASE Line.text = <<>>
      BY <1>2, <1>5, <1>8, <1>9, <2>1, FieldSkipped
    <2>2. CASE Line.text # <<>>
      <3>1. (new').data[i] = v
        BY <1>5, <1>6, <1>9, <2>2 DEF FieldIs, Replaced
      <3>2. FieldRead(file, e, v, at + 1)
        BY <1>2, <1>8, <2>2, FieldText
      <3>3. QED
        BY <3>1, <3>2
    <2>3. QED
      BY <2>1, <2>2
  <1>10. error' = IF LineTaken(Line, e) THEN error ELSE TRUE
    BY <1>5
  <1> HIDE DEF i, v
  <1>11. QED
    BY <1>1, <1>3, <1>7, <1>9, <1>10, ReadEntry DEF i

LEMMA SameLines ==
  ASSUME NEW f, NEW e, NEW g, SameEntry(e, g)
  PROVE  /\ LinesFor(f, e) = LinesFor(f, g) /\ ReadMeaning(f, e) = ReadMeaning(f, g)
         /\ \A l : LineTaken(l, e) <=> LineTaken(l, g)
  <1>1. LinesFor(f, e) = LinesFor(f, g)
    BY DEF SameEntry, LinesFor
  <1>2. QED
    BY <1>1 DEF SameEntry, ReadMeaning, LineTaken

LEMMA EntryKinds ==
  ASSUME NEW hs, NEW c, NEW es, NEW k \in Nat, Laid(hs, c, es, k), NEW j \in 1 .. Len(es)
  PROVE  /\ es[j].type \in {"integer", "string"}
         /\ es[j].type = "string" => es[j].default \in Texts
  <1>1. CASE InMain(es, j)
    BY <1>1, MainTypes, DefaultsAreTexts DEF InMain, SameEntry
  <1>2. ASSUME NEW i \in 1 .. k, NEW n \in Nat, InModule(c, es, j, i, n)
        PROVE  es[j].type = "string" /\ es[j].default \in Texts
    BY <1>2, ModuleStrings, DefaultsAreTexts DEF InModule, SameEntry
  <1>3. QED
    BY <1>1, <1>2, PlaceOf

(* The field of an entry, when the file has lines for it and when not.     *)
LEMMA LinesCount ==
  ASSUME NEW f \in Files, NEW e, NEW v, NEW n \in Nat, n > Len(f), FieldRead(f, e, v, n),
         e.type \in {"integer", "string"}, LinesFor(f, e) # {}
  PROVE  Agrees(f, e, v)
  <1> DEFINE filled == {i \in LinesFor(f, e) : f[i].text # <<>>}
  <1>1. Below(f, e, n) = LinesFor(f, e) /\ FilledBelow(f, e, n) = filled
    BY AllBelow
  <1>2. CASE e.type = "integer"
    BY <1>1, <1>2 DEF FieldRead, Agrees, ReadMeaning
  <1>3. CASE e.type = "string" /\ filled = {}
    <2>1. ReadMeaning(f, e) = NULL
      BY <1>3 DEF ReadMeaning
    <2>2. Unset(v, e)
      BY <1>1, <1>3 DEF FieldRead
    <2>3. QED
      BY <1>3, <2>1, <2>2 DEF Agrees
  <1>4. CASE e.type = "string" /\ filled # {}
    <2> DEFINE i == LastOf(filled)
    <2>1. LinesFor(f, e) = {k \in 1 .. Len(f) : LineFor(f, e, k)} /\ Len(f) \in Nat
      BY LinesAre, FilesFacts
    <2>2. filled \in SUBSET (0 .. Len(f))
      BY <2>1
    <2>3. i \in filled
      BY <1>4, <2>1, <2>2, LastIsLast
    <2>4. ReadMeaning(f, e) = f[i].text
      BY <1>4 DEF ReadMeaning
    <2>5. v = Pointer(f, i)
      BY <1>1, <1>4 DEF FieldRead
    <2> HIDE DEF i
    <2>6. i \in 1 .. Len(f) /\ LineFor(f, e, i) /\ i \in Nat
      BY <2>1, <2>3
    <2>7. f[i].text \in Seq(STRING)
      BY <2>6, LineFacts DEF LineFor
    <2>8. f[i].text # NULL /\ f[i].text \in Texts
      BY <2>7, NullAssumption DEF Texts
    <2>9. IsText(v) /\ v.text = f[i].text
      BY <2>5, <2>6, <2>8 DEF IsText, Pointer
    <2>10. QED
      BY <1>4, <2>4, <2>7, <2>8, <2>9 DEF Agrees
  <1>5. QED
    BY <1>2, <1>3, <1>4

LEMMA DefaultCounts ==
  ASSUME NEW f, NEW e, e.type \in {"integer", "string"}, LinesFor(f, e) = {},
         e.default # NULL, e.type = "string" => e.default \in Texts
  PROVE  Agrees(f, e, DefaultOf(e))
  <1>1. ReadMeaning(f, e) = e.default
    BY DEF ReadMeaning
  <1>2. QED
    BY <1>1 DEF Agrees, DefaultOf, IsText

LEMMA Distinct ==
  ASSUME IsSeq(handles)
  PROVE  (\A i, j \in DOMAIN handles : i # j => handles[i].name # handles[j].name)
           <=> ~Twice(handles)
  BY DEF Twice

LEMMA AllFirst ==
  ASSUME NEW hs, IsSeq(hs), NEW c, NEW es, Laid(hs, c, es, Len(hs)), ~Twice(hs)
  PROVE  \A j \in 1 .. Len(es) : First(es, j)
  <1>1. Len(es) \in Nat
    BY IsSeqFacts DEF Laid
  <1>2. \A j \in 1 .. Len(es) : \A i \in 1 .. j - 1 : i \in 1 .. Len(es) /\ i # j
    BY <1>1
  <1>3. QED
    BY <1>2, SameNames DEF First

(* The end of the file: what no line has set gets its default.             *)
LEMMA UnderstoodByAll ==
  ASSUME IsSeq(handles), NEW c, NEW es, Laid(handles, c, es, Len(handles)), NEW f, NEW i
  PROVE  Understood(f, es, i) <=>
           \/ f[i].kind = "comment"
           \/ \E e \in AllEntries : i \in LinesFor(f, e) /\ LineTaken(f[i], e)
  <1>1. ASSUME NEW j \in 1 .. Len(es), i \in LinesFor(f, es[j]), LineTaken(f[i], es[j])
        PROVE  \E e \in AllEntries : i \in LinesFor(f, e) /\ LineTaken(f[i], e)
    <2>1. PICK e \in AllEntries : SameEntry(es[j], e)
      BY EntriesAre
    <2>2. QED
      BY <1>1, <2>1, SameLines
  <1>2. ASSUME NEW e \in AllEntries, i \in LinesFor(f, e), LineTaken(f[i], e)
        PROVE  \E j \in 1 .. Len(es) : i \in LinesFor(f, es[j]) /\ LineTaken(f[i], es[j])
    <2>1. PICK j \in 1 .. Len(es) : SameEntry(es[j], e)
      BY EntriesAre
    <2>2. QED
      BY <1>2, <2>1, SameLines
  <1>3. QED
    BY <1>1, <1>2 DEF Understood

\* What read_config's last loop looks for.
NoneMissing(f, es) ==
  \A j \in 1 .. Len(es) : es[j].default = NULL => First(es, j) /\ LinesFor(f, es[j]) # {}

LEMMA CompleteExactly ==
  ASSUME IsSeq(handles), NEW c, NEW es, Laid(handles, c, es, Len(handles)), Spread(c),
         NEW f, DOMAIN f = 1 .. Len(f)
  PROVE  Complete(f) <=>
           (\A i \in 1 .. Len(f) : Understood(f, es, i)) /\ NoneMissing(f, es)
  <1>1. (\A i, j \in DOMAIN handles : i # j => handles[i].name # handles[j].name)
          <=> ~Twice(handles)
    BY Distinct
  <1>2. (\A i \in DOMAIN f :
           \/ f[i].kind = "comment"
           \/ \E e \in AllEntries : i \in LinesFor(f, e) /\ LineTaken(f[i], e))
          <=> \A i \in 1 .. Len(f) : Understood(f, es, i)
    BY UnderstoodByAll
  <1>3. NoneMissing(f, es) => ~Twice(handles)
    BY TwiceUnset DEF NoneMissing
  <1>4. ASSUME NoneMissing(f, es), NEW e \in AllEntries, e.default = NULL
        PROVE  LinesFor(f, e) # {}
    <2>1. PICK j \in 1 .. Len(es) : SameEntry(es[j], e)
      BY EntriesAre
    <2>2. es[j].default = NULL
      BY <1>4, <2>1 DEF SameEntry
    <2>3. QED
      BY <1>4, <2>1, <2>2, SameLines DEF NoneMissing
  <1>5. ASSUME ~Twice(handles), \A e \in AllEntries : e.default = NULL => LinesFor(f, e) # {}
        PROVE  NoneMissing(f, es)
    <2> SUFFICES ASSUME NEW j \in 1 .. Len(es), es[j].default = NULL
                 PROVE  First(es, j) /\ LinesFor(f, es[j]) # {}
      BY DEF NoneMissing
    <2>1. PICK e \in AllEntries : SameEntry(es[j], e)
      BY EntriesAre
    <2>2. e.default = NULL
      BY <2>1 DEF SameEntry
    <2>3. QED
      BY <1>5, <2>1, <2>2, SameLines, AllFirst
  <1>6. QED
    BY <1>1, <1>2, <1>3, <1>4, <1>5 DEF Complete

LEMMA ReadEnded ==
  ASSUME StructInv, ReadInv, ReadEnds
  PROVE  phase' = "checks" /\ Spread(new') /\ FileRead'
  <1> DEFINE d == WithDefaults(new.data)
             n == Len(file)
  <1>1. /\ Shaped(new') /\ Same(new, new') /\ (new').data = d
        /\ error' = (error \/ Defaulted # Missing) /\ error' \in BOOLEAN
        /\ phase = "read" /\ at > n /\ phase' = "checks"
        /\ UNCHANGED <<at, modFile, handles, file, loads, cfe, check>>
    BY ReadEndsFacts
  <1>2. /\ file \in Files /\ at \in Nat /\ Shaped(new) /\ Laid(handles, new, cfe, Len(handles))
        /\ Spread(new) /\ IsSeq(handles) /\ error \in BOOLEAN
        /\ ReadSoFar(file, cfe, check, error, new.data, at)
    BY <1>1 DEF StructInv, BuildInv, Loading, Basics, ReadInv
  <1>3. n \in Nat /\ DOMAIN file = 1 .. n
    BY <1>2, FilesFacts
  <1>4. at = n + 1 /\ at - 1 = n
    BY <1>1, <1>2, <1>3 DEF ReadSoFar
  <1>5. /\ IsSeq(cfe) /\ Len(cfe) \in Nat /\ DOMAIN cfe = 1 .. Len(cfe)
        /\ \A j \in 1 .. Len(cfe) : cfe[j].off = j
        /\ IsSeq(new.data) /\ Len(new.data) = Len(cfe) /\ Len(handles) \in Nat
    BY <1>2, IsSeqFacts DEF Laid, Shaped
  <1>6. \A j \in 1 .. Len(cfe) :
          d[j] = IF j \notin check /\ cfe[j].default # NULL THEN DefaultOf(cfe[j])
                 ELSE new.data[j]
    BY <1>5, DefaultsGiven
  <1>7. \A j \in 1 .. Len(cfe) : j \in check <=> First(cfe, j) /\ LinesFor(file, cfe[j]) # {}
    BY <1>1, <1>2, AllBelow DEF ReadSoFar
  <1>8. error <=> ~ \A i \in 1 .. n : Understood(file, cfe, i)
    BY <1>2, <1>4 DEF ReadSoFar
  <1>9. Defaulted # Missing <=> ~NoneMissing(file, cfe)
    <2>1. Defaulted # Missing <=> \E j \in 1 .. Len(cfe) : j \notin check /\ cfe[j].default = NULL
      BY <1>5 DEF Defaulted, Missing
    <2>2. QED
      BY <1>7, <2>1 DEF NoneMissing
  <1>10. Complete(file) <=> (\A i \in 1 .. n : Understood(file, cfe, i)) /\ NoneMissing(file, cfe)
    BY <1>2, <1>3, CompleteExactly
  <1>11. error' <=> ~Complete(file)
    BY <1>1, <1>2, <1>8, <1>9, <1>10
  <1> HIDE DEF d
  <1>12. ASSUME ~error', NEW j \in 1 .. Len(cfe) PROVE Agrees(file, cfe[j], d[j])
    <2>1. ~error /\ ~Twice(handles) /\ NoneMissing(file, cfe)
      BY <1>1, <1>2, <1>9, <1>11, <1>12, Distinct DEF Complete
    <2>2. First(cfe, j)
      BY <1>2, <2>1, AllFirst
    <2>3. cfe[j].type \in {"integer", "string"}
          /\ (cfe[j].type = "string" => cfe[j].default \in Texts)
      BY <1>2, <1>5, EntryKinds
    <2>4. CASE LinesFor(file, cfe[j]) = {}
      <3>1. cfe[j].default # NULL /\ j \notin check
        BY <1>7, <2>1, <2>4 DEF NoneMissing
      <3>2. d[j] = DefaultOf(cfe[j])
        BY <1>6, <3>1
      <3>3. QED
        BY <2>3, <2>4, <3>1, <3>2, DefaultCounts
    <2>5. CASE LinesFor(file, cfe[j]) # {}
      <3>1. d[j] = new.data[j]
        BY <1>6, <1>7, <2>2, <2>5
      <3>2. FieldRead(file, cfe[j], new.data[j], at)
        BY <1>2, <2>1, <2>2 DEF ReadSoFar
      <3>3. QED
        BY <1>1, <1>2, <2>3, <2>5, <3>1, <3>2, LinesCount
    <2>6. QED
      BY <2>4, <2>5
  <1>13. Complete(file)' <=> Complete(file)
    BY <1>1 DEF Complete, AllEntries
  <1>14. FileRead'
    BY <1>1, <1>11, <1>12, <1>13 DEF FileRead
  <1>15. Spread(new')
    BY <1>1, <1>2 DEF Same, Spread
  <1>16. QED
    BY <1>1, <1>14, <1>15

LEMMA ReadInit == Init => ReadInv
  BY DEF Init, ReadInv, Loading

\* Steps after which nothing is being read.
Leaves ==
  \/ ModuleLineSkipped \/ ModuleOpened \/ ModulesRefused \/ ModulesRead
  \/ ModuleInitFails \/ ModuleOutOfMemory \/ LoadOutOfMemory \/ ReadOutOfMemory
  \/ FileUnreadable \/ LineUnterminated \/ MemoryExhausted \/ Rejected \/ Installed

LEMMA LeavesReading == Leaves => phase' \notin {"init", "read", "checks"}
  <1>1. \A why : LoadFails(why) => phase' \in {"stopped", "running"}
    BY DEF LoadFails
  <1>2. ModuleLineSkipped \/ ModuleOpened => phase' = "modules"
    BY DEF ModuleLineSkipped, ModuleOpened
  <1>3. ModulesRefused \/ ModulesRead => phase' \in {"stopped", "starting"}
    BY DEF ModulesRefused, ModulesRead
  <1>4. ModuleInitFails \/ ModuleOutOfMemory \/ LoadOutOfMemory \/ ReadOutOfMemory
          => \E why : LoadFails(why)
    BY DEF ModuleInitFails, ModuleOutOfMemory, LoadOutOfMemory, ReadOutOfMemory
  <1>5. FileUnreadable \/ LineUnterminated \/ Rejected => \E why : LoadFails(why)
    BY DEF FileUnreadable, LineUnterminated, Rejected, Refuse
  <1>6. MemoryExhausted \/ Installed => phase' \in {"stopped", "running"}
    BY DEF MemoryExhausted, Installed
  <1>7. QED
    BY <1>1, <1>2, <1>3, <1>4, <1>5, <1>6 DEF Leaves

LEMMA ReadStep == StructInv /\ ReadInv /\ [Next]_vars => ReadInv'
  <1> SUFFICES ASSUME StructInv, ReadInv, [Next]_vars PROVE ReadInv'
    OBVIOUS
  <1>1. CASE Leaves
    BY <1>1, LeavesReading DEF ReadInv, Loading
  <1>2. CASE LoadBegins
    BY <1>2, ReadBegins DEF ReadInv, Loading
  <1>3. CASE ModuleInits
    BY <1>3, ReadModuleInits DEF ReadInv, Loading
  <1>4. CASE ModulesBound
    BY <1>4, ReadBound DEF ReadInv, Loading
  <1>5. ReadGoesOn => ReadInv'
    BY DEF ReadGoesOn, ReadInv, Loading
  <1>6. CASE LineIgnored \/ LineUnknown
    BY <1>5, <1>6, ReadNoEntry
  <1>7. CASE IntegerLine
    BY <1>5, <1>7, ReadInteger
  <1>8. CASE StringLine
    BY <1>5, <1>8, ReadString
  <1>9. CASE ReadEnds
    BY <1>9, ReadEnded DEF ReadInv, Loading
  <1>10. CASE UNCHANGED vars
    BY <1>10 DEF vars, ReadInv, Loading, FileRead, Complete, AllEntries
  <1>11. QED
    BY <1>1, <1>2, <1>3, <1>4, <1>6, <1>7, <1>8, <1>9, <1>10 DEF Next, Leaves

(***************************************************************************)
(* The checks of set_config.                                               *)
(***************************************************************************)
LEMMA OffIs ==
  ASSUME NEW n \in 1 .. 23
  PROVE  Off(MainCfe[n].name) = n
  <1>1. DOMAIN MainCfe = 1 .. 23
    BY Tables DEF IsTable
  <1>2. \A m \in DOMAIN MainCfe : MainCfe[m].name = MainCfe[n].name => m = n
    BY <1>1, MainOnce DEF NamesOnce
  <1>3. QED
    BY <1>1, <1>2 DEF Off

LEMMA MainOffs ==
  /\ Off("ListenIP") = 1 /\ Off("ListenPort") = 2 /\ Off("TimeOut") = 3
  /\ Off("SyslogFacility") = 4 /\ Off("ErrorAction") = 5 /\ Off("CommandPort") = 6
  /\ Off("AdminPassword") = 7 /\ Off("CommandMaxClients") = 8 /\ Off("CommandTimeOut") = 9
  /\ Off("SavePolicy") = 10 /\ Off("MyDomain") = 11 /\ Off("SaveMailAddress") = 12
  /\ Off("SaveIgnoreHeader") = 13 /\ Off("DefaultDomain") = 14 /\ Off("LdapCheck") = 15
  /\ Off("LdapServer") = 16 /\ Off("LdapPort") = 17 /\ Off("LdapScope") = 22
  /\ Off("LdapTimeout") = 23
  <1>1. /\ MainCfe[1].name = "ListenIP" /\ MainCfe[2].name = "ListenPort"
        /\ MainCfe[3].name = "TimeOut" /\ MainCfe[4].name = "SyslogFacility"
        /\ MainCfe[5].name = "ErrorAction" /\ MainCfe[6].name = "CommandPort"
        /\ MainCfe[7].name = "AdminPassword" /\ MainCfe[8].name = "CommandMaxClients"
        /\ MainCfe[9].name = "CommandTimeOut" /\ MainCfe[10].name = "SavePolicy"
        /\ MainCfe[11].name = "MyDomain" /\ MainCfe[12].name = "SaveMailAddress"
        /\ MainCfe[13].name = "SaveIgnoreHeader" /\ MainCfe[14].name = "DefaultDomain"
        /\ MainCfe[15].name = "LdapCheck" /\ MainCfe[16].name = "LdapServer"
        /\ MainCfe[17].name = "LdapPort" /\ MainCfe[22].name = "LdapScope"
        /\ MainCfe[23].name = "LdapTimeout"
    BY MainNames DEF Describes
  <1>2. \A n \in 1 .. 23 : Off(MainCfe[n].name) = n
    BY OffIs
  <1>3. /\ Off(MainCfe[1].name) = 1 /\ Off(MainCfe[2].name) = 2 /\ Off(MainCfe[3].name) = 3
        /\ Off(MainCfe[4].name) = 4 /\ Off(MainCfe[5].name) = 5 /\ Off(MainCfe[6].name) = 6
        /\ Off(MainCfe[7].name) = 7 /\ Off(MainCfe[8].name) = 8 /\ Off(MainCfe[9].name) = 9
        /\ Off(MainCfe[10].name) = 10 /\ Off(MainCfe[11].name) = 11 /\ Off(MainCfe[12].name) = 12
        /\ Off(MainCfe[13].name) = 13 /\ Off(MainCfe[14].name) = 14 /\ Off(MainCfe[15].name) = 15
        /\ Off(MainCfe[16].name) = 16 /\ Off(MainCfe[17].name) = 17 /\ Off(MainCfe[22].name) = 22
        /\ Off(MainCfe[23].name) = 23
    BY <1>2
  <1>4. QED
    BY <1>1, <1>3, ZenonT(60)

LEMMA SameAgrees ==
  ASSUME NEW f, NEW e, NEW g, NEW v, SameEntry(e, g), Agrees(f, e, v)
  PROVE  Agrees(f, g, v)
  <1>1. ReadMeaning(f, e) = ReadMeaning(f, g)
    BY SameLines
  <1>2. QED
    BY <1>1 DEF Agrees, SameEntry, Unset, OfDummy

\* The field of a string, null where the file leaves it without a value.
StringAgrees(f, e, v) ==
  \/ ReadMeaning(f, e) = NULL /\ v = NULL
  \/ /\ ReadMeaning(f, e) # NULL /\ v \notin {NULL, Garbage} /\ v.text = ReadMeaning(f, e)
     /\ v.text \in Seq(STRING) \/ v.text = e.default

LEMMA MainString ==
  ASSUME NEW f, NEW n \in 1 .. 23, MainCfe[n].type = "string", NEW v,
         Agrees(f, MainCfe[n], v)
  PROVE  StringAgrees(f, MainCfe[n], v)
  <1>1. Unset(v, MainCfe[n]) => v = NULL
    BY OnlyDummys DEF Unset
  <1>2. IsText(v) => v \notin {NULL, Garbage}
    BY NullAssumption DEF IsText
  <1>3. QED
    BY <1>1, <1>2 DEF Agrees, StringAgrees

\* What set_config asks of a file once it has been read.
Wanted(f) ==
  /\ \A name \in {"AdminPassword", "MyDomain", "SaveMailAddress"} :
       ReadMeaning(f, MainEntry(name)) # NULL
  /\ \A name \in {"ListenPort", "CommandPort", "LdapPort"} :
       ReadMeaning(f, MainEntry(name)) # 0
  /\ ReadMeaning(f, MainEntry("SaveIgnoreHeader")) \in Patterns \cup {NULL, <<>>}

\* What the two of them take (ConfigLoad.Valid, but for the numbers).
ReadValid(f) == Complete(f) /\ Wanted(f)

LEMMA ChecksExact ==
  ASSUME NEW f, NEW c, \A n \in 1 .. 23 : Agrees(f, MainCfe[n], c.data[n])
  PROVE  Wanted(f) <=> ~(MandatoryMissing(c) \/ PatternRefused(c))
  <1> DEFINE m(n) == ReadMeaning(f, MainCfe[n])
             v(n) == c.data[n]
  <1>1. /\ MainCfe[7].type = "string" /\ MainCfe[11].type = "string"
        /\ MainCfe[12].type = "string" /\ MainCfe[13].type = "string"
        /\ MainCfe[2].type = "integer" /\ MainCfe[6].type = "integer"
        /\ MainCfe[17].type = "integer"
    BY MainNames DEF Describes
  <1>2. v(2) = m(2) /\ v(6) = m(6) /\ v(17) = m(17)
    BY <1>1 DEF Agrees
  <1>3. /\ m(7) = NULL <=> v(7) = NULL
        /\ m(11) = NULL <=> v(11) = NULL
        /\ m(12) = NULL <=> v(12) = NULL
        /\ m(13) = NULL <=> v(13) = NULL
        /\ v(13) # NULL => v(13).text = m(13)
    BY <1>1, MainString, SMTT(30) DEF StringAgrees
  <1>4. Wanted(f) <=> /\ m(7) # NULL /\ m(11) # NULL /\ m(12) # NULL
                      /\ m(2) # 0 /\ m(6) # 0 /\ m(17) # 0
                      /\ m(13) \in Patterns \cup {NULL, <<>>}
    BY MainOffs DEF Wanted, MainEntry
  <1>5. MandatoryMissing(c) <=> \/ v(7) = NULL \/ v(11) = NULL \/ v(12) = NULL
                                \/ v(2) = 0 \/ v(6) = 0 \/ v(17) = 0
    BY MainOffs DEF MandatoryMissing, Value
  <1>6. PatternRefused(c) <=> v(13) # NULL /\ v(13).text \notin Patterns \cup {<<>>}
    BY MainOffs DEF PatternRefused, conv_saveignoreheader, Text, Value
  <1> HIDE DEF m, v
  <1>7. QED
    BY <1>2, <1>3, <1>4, <1>5, <1>6

LEMMA MainAgrees ==
  ASSUME StructInv, ReadInv, phase = "checks", ~error
  PROVE  \A n \in 1 .. 23 : Agrees(file, MainCfe[n], new.data[n])
  <1>1. Laid(handles, new, cfe, Len(handles)) /\ FileRead
    BY DEF StructInv, BuildInv, ReadInv, Loading
  <1>2. Len(cfe) \in Nat /\ Len(cfe) >= 23
    BY <1>1, IsSeqFacts DEF Laid
  <1>3. \A n \in 1 .. 23 : n \in 1 .. Len(cfe)
    BY <1>2
  <1>4. \A n \in 1 .. 23 : SameEntry(cfe[n], MainCfe[n]) /\ Agrees(file, cfe[n], new.data[n])
    BY <1>1, <1>3 DEF Laid, FileRead
  <1>5. QED
    BY <1>4, SameAgrees

LEMMA TakenIffValid ==
  ASSUME StructInv, ReadInv, phase = "checks"
  PROVE  ReadValid(file) <=> ~(error \/ MandatoryMissing(new) \/ PatternRefused(new))
  <1>1. error <=> ~Complete(file)
    BY DEF ReadInv, FileRead
  <1>2. ~error => (Wanted(file) <=> ~(MandatoryMissing(new) \/ PatternRefused(new)))
    BY MainAgrees, ChecksExact
  <1>3. QED
    BY <1>1, <1>2 DEF ReadValid

(***************************************************************************)
(* The numbers of the file, and what an unsigned int keeps of them.        *)
(***************************************************************************)
LEMMA Widths ==
  /\ UINT \in Nat \ {0} /\ INT_MAX \in Nat /\ INT_MAX < UINT
  /\ USHRT_MAX \in Nat /\ 65535 <= USHRT_MAX /\ USHRT_MAX < INT_MAX
  <1>1. UINT \in Nat /\ UINT % 2 = 0 /\ USHRT_MAX \in 65535 .. INT_MAX - 1
    BY WidthAssumption
  <1>2. INT_MAX \in Int
    BY <1>1 DEF INT_MAX
  <1>3. USHRT_MAX \in Nat /\ 65535 <= USHRT_MAX /\ USHRT_MAX < INT_MAX /\ INT_MAX \in Nat
    BY <1>1, <1>2
  <1>4. INT_MAX < UINT
    BY <1>1 DEF INT_MAX
  <1>5. UINT \in Nat \ {0}
    BY <1>1, <1>3, <1>4
  <1>6. QED
    BY <1>3, <1>4, <1>5

LEMMA Cut ==
  ASSUME NEW x \in Int
  PROVE  x % UINT \in 0 .. UINT - 1
  <1>1. \A n \in Nat \ {0} : \A y \in Int : y % n \in 0 .. n - 1
    OBVIOUS
  <1>2. QED
    BY <1>1, Widths

LEMMA Tests ==
  ASSUME NEW v
  PROVE  /\ Passes("port", v) <=> is_port(v)
         /\ Passes("timeout", v) <=> is_timeout(v)
         /\ Passes("maxclients", v) <=> is_commandmaxclients(v)
         /\ Passes("boolean", v) <=> is_boolean(v)
  BY DEF Passes

LEMMA AsInt ==
  ASSUME NEW u \in 0 .. UINT - 1
  PROVE  /\ is_port(ToInt(u)) => u \in 0 .. USHRT_MAX
         /\ is_timeout(ToInt(u)) => u \in 1 .. INT_MAX
         /\ is_boolean(ToInt(u)) => u \in {0, 1}
  BY Widths DEF is_port, is_timeout, is_boolean, ToInt

LEMMA CountAsInt ==
  ASSUME NEW u \in 0 .. UINT - 1, is_commandmaxclients(ToInt(u))
  PROVE  1 <= u /\ u <= 65535
  BY Widths DEF is_commandmaxclients, ToInt

(* An int is as it was when it is read back.                               *)
LEMMA Uncut ==
  ASSUME NEW x, ~TooLong(x)
  PROVE  /\ x \in Int /\ ToInt(x % UINT) = x
         /\ x % UINT <= INT_MAX => x % UINT = x
  <1>1. x \in -INT_MAX - 1 .. INT_MAX /\ INT_MAX \in Nat
    BY Widths DEF TooLong
  <1>2. x \in Int /\ -INT_MAX - 1 <= x /\ x <= INT_MAX
    BY <1>1
  <1>3. UINT = 2 * (INT_MAX + 1)
    BY WidthAssumption DEF INT_MAX
  <1>4. x % UINT = IF x >= 0 THEN x ELSE x + UINT
    <2>1. \A n \in Nat \ {0} : \A y \in 0 .. n - 1 : y % n = y
      OBVIOUS
    <2>2. \A n \in Nat \ {0} : \A y \in -n .. -1 : y % n = y + n
      OBVIOUS
    <2>3. x >= 0 => x \in 0 .. UINT - 1
      BY <1>1, <1>2, <1>3
    <2>4. x < 0 => x \in -UINT .. -1
      BY <1>1, <1>2, <1>3
    <2>5. QED
      BY <1>2, <2>1, <2>2, <2>3, <2>4, Widths, SMTT(30)
  <1> DEFINE u == x % UINT
  <1>5. u = IF x >= 0 THEN x ELSE x + UINT
    BY <1>4
  <1> HIDE DEF u
  <1>6. ToInt(u) = x /\ (u <= INT_MAX => u = x)
    BY <1>1, <1>2, <1>3, <1>5 DEF ToInt
  <1>7. QED
    BY <1>2, <1>6 DEF u

(* The entries of integers: all are in the main table, and their           *)
(* validators take only an int that is not negative.                       *)
NumberTests == {"port", "timeout", "maxclients", "boolean"}
HandlesKnown == \A i \in DOMAIN handles : handles[i].name \in DOMAIN Modules

LEMMA MainIntegers ==
  \A n \in 1 .. 23 : MainCfe[n].type = "integer" =>
    n \in {2, 3, 6, 8, 9, 15, 17, 23} /\ MainCfe[n].test \in NumberTests
  <1>1. \A n \in 1 .. 23 : \/ n \in {2, 3, 6, 8, 9, 15, 17, 23}
                           \/ n \in {1, 4, 5, 7, 10, 11, 12, 13}
                           \/ n \in {14, 16, 18, 19, 20, 21, 22}
    OBVIOUS
  <1>2. \A n \in {2, 3, 6, 8, 9, 15, 17, 23} : MainCfe[n].test \in NumberTests
    BY MainNames, SMTT(60) DEF Describes, NumberTests
  <1>3. \A n \in {1, 4, 5, 7, 10, 11, 12, 13} : MainCfe[n].type # "integer"
    BY MainNames, SMTT(60) DEF Describes
  <1>4. \A n \in {14, 16, 18, 19, 20, 21, 22} : MainCfe[n].type # "integer"
    BY MainNames, SMTT(60) DEF Describes
  <1>5. QED
    BY <1>1, <1>2, <1>3, <1>4

LEMMA EntryIs ==
  ASSUME IsSeq(handles), HandlesKnown, NEW e \in AllEntries
  PROVE  \/ \E n \in 1 .. 23 : e = MainCfe[n]
         \/ e.type = "string" /\ \A n \in 1 .. 23 : e.name # MainCfe[n].name
  <1>1. DOMAIN MainCfe = 1 .. 23
    BY Tables DEF IsTable
  <1>2. CASE e \in ToSet(MainCfe)
    BY <1>1, <1>2 DEF ToSet
  <1>3. ASSUME NEW h \in ToSet(handles), e \in ToSet(Modules[h.name])
        PROVE  e.type = "string" /\ \A n \in 1 .. 23 : e.name # MainCfe[n].name
    <2>1. h.name \in DOMAIN Modules
      BY <1>3 DEF ToSet, HandlesKnown
    <2>2. PICK n \in DOMAIN Modules[h.name] : e = Modules[h.name][n]
      BY <1>3 DEF ToSet
    <2>3. Apart(MainCfe, Modules[h.name])
      BY <2>1, ModuleTables DEF IsModuleTable
    <2>4. QED
      BY <1>1, <2>1, <2>2, <2>3, ModuleStrings DEF Apart
  <1>4. QED
    BY <1>2, <1>3 DEF AllEntries

LEMMA NumberEntries ==
  ASSUME IsSeq(handles), HandlesKnown, NEW e \in AllEntries, e.type = "integer"
  PROVE  e.test \in NumberTests
  BY EntryIs, MainIntegers

LEMMA NumberFits ==
  ASSUME NEW x \in Int, NEW test \in NumberTests, Passes(test, x)
  PROVE  ~TooLong(x)
  <1>1. is_port(x) \/ is_timeout(x) \/ is_commandmaxclients(x) \/ is_boolean(x)
    BY Tests DEF NumberTests
  <1>2. QED
    BY <1>1, Widths DEF is_port, is_timeout, is_commandmaxclients, is_boolean, TooLong

(* A line that is valid is taken, and of the others only those that give a *)
(* number no int holds.                                                    *)
LEMMA ValidTaken ==
  ASSUME IsSeq(handles), HandlesKnown, NEW f \in Files, NEW i, NEW e \in AllEntries,
         i \in LinesFor(f, e), LineValid(f[i], e)
  PROVE  LineTaken(f[i], e)
  <1>1. CASE e.type = "integer"
    <2>1. i \in 1 .. Len(f) /\ f[i].kind = "setting"
      BY LinesAre DEF LineFor
    <2>2. f[i].num \in Int
      BY <2>1, LineFacts
    <2>3. OnlyBlanks(f[i].text) /\ Passes(e.test, f[i].num)
      BY <1>1 DEF LineValid
    <2>4. ToInt(f[i].num % UINT) = f[i].num
      BY <1>1, <2>2, <2>3, NumberEntries, NumberFits, Uncut
    <2>5. QED
      BY <1>1, <2>3, <2>4 DEF LineTaken
  <1>2. CASE e.type # "integer"
    BY <1>2 DEF LineValid, LineTaken
  <1>3. QED
    BY <1>1, <1>2

LEMMA TakenValid ==
  ASSUME NEW f, NEW i \in DOMAIN f, NEW e \in AllEntries, i \in LinesFor(f, e),
         LineTaken(f[i], e), ~LineValid(f[i], e)
  PROVE  i \in OverlongLines(f)
  <1>1. e.type = "integer"
    BY DEF LineTaken, LineValid
  <1>2. OnlyBlanks(f[i].text) /\ Passes(e.test, ToInt(f[i].num % UINT))
        /\ ~Passes(e.test, f[i].num)
    BY <1>1 DEF LineTaken, LineValid
  <1>3. TooLong(f[i].num)
    BY <1>2, Uncut
  <1>4. QED
    BY <1>1, <1>2, <1>3 DEF OverlongLines

LEMMA StringMeans ==
  ASSUME NEW f, NEW e, e.type = "string"
  PROVE  ReadMeaning(f, e) = Meaning(f, e)
  BY DEF ReadMeaning, Meaning

(* What is 0 in the file is 0 when it has been read.                       *)
LEMMA ZeroRead ==
  ASSUME NEW f, NEW e, e.type = "integer", Meaning(f, e) = 0
  PROVE  ReadMeaning(f, e) = 0
  <1>1. 0 % UINT = 0
    <2>1. \A n \in Nat \ {0} : 0 % n = 0
      OBVIOUS
    <2>2. QED
      BY <2>1, Widths
  <1>2. QED
    BY <1>1 DEF ReadMeaning, Meaning

(* The other way round where the line is valid.                            *)
LEMMA ZeroMeant ==
  ASSUME IsSeq(handles), HandlesKnown, NEW f \in Files, WrongLines(f) = {},
         NEW n \in 1 .. 23, MainCfe[n].type = "integer", ReadMeaning(f, MainCfe[n]) = 0
  PROVE  Meaning(f, MainCfe[n]) = 0
  <1> DEFINE e == MainCfe[n]
             i == LastOf(LinesFor(f, e))
  <1>1. LinesFor(f, e) = {k \in 1 .. Len(f) : LineFor(f, e, k)} /\ Len(f) \in Nat
        /\ DOMAIN f = 1 .. Len(f)
    BY LinesAre, FilesFacts
  <1>2. CASE LinesFor(f, e) = {}
    BY <1>2 DEF Meaning, ReadMeaning
  <1>3. CASE LinesFor(f, e) # {}
    <2>1. LinesFor(f, e) \in SUBSET (0 .. Len(f))
      BY <1>1
    <2>2. i \in LinesFor(f, e)
      BY <1>1, <1>3, <2>1, LastIsLast
    <2>3. Meaning(f, e) = f[i].num /\ ReadMeaning(f, e) = f[i].num % UINT
      BY <1>3 DEF Meaning, ReadMeaning
    <2> HIDE DEF i
    <2>4. i \in DOMAIN f /\ f[i].kind = "setting" /\ Matches(f[i], e)
      BY <1>1, <2>2 DEF LineFor
    <2>5. PICK g \in AllEntries : i \in LinesFor(f, g) /\ LineValid(f[i], g)
      BY <2>4 DEF WrongLines
    <2>6. g.name = e.name
      BY <2>4, <2>5, LinesAre, MatchesName DEF LineFor
    <2>7. g = e
      BY <2>6, EntryIs, MainOnce, Tables DEF NamesOnce, IsTable
    <2>8. f[i].num \in Int /\ Passes(e.test, f[i].num)
      BY <1>1, <2>4, <2>5, <2>7, LineFacts DEF LineValid
    <2>9. ~TooLong(f[i].num)
      BY <2>5, <2>7, <2>8, NumberEntries, NumberFits
    <2>10. ToInt(f[i].num % UINT) = f[i].num /\ f[i].num % UINT = 0
      BY <2>3, <2>9, Uncut
    <2>11. QED
      BY <2>3, <2>10, Widths DEF ToInt
  <1>4. QED
    BY <1>2, <1>3

(* What is read of a file and what it says differ in these lines only.     *)
LEMMA AsTaken ==
  ASSUME IsSeq(handles), HandlesKnown, NEW f \in Files
  PROVE  /\ ReadValid(f) => Sufficient(f) /\ WrongLines(f) \subseteq OverlongLines(f)
         /\ Valid(f) => ReadValid(f)
  <1> DEFINE m(n) == Meaning(f, MainCfe[n])
             r(n) == ReadMeaning(f, MainCfe[n])
  <1>1. /\ MainCfe[7].type = "string" /\ MainCfe[11].type = "string"
        /\ MainCfe[12].type = "string" /\ MainCfe[13].type = "string"
        /\ MainCfe[2].type = "integer" /\ MainCfe[6].type = "integer"
        /\ MainCfe[17].type = "integer"
    BY MainNames DEF Describes
  <1>2. r(7) = m(7) /\ r(11) = m(11) /\ r(12) = m(12) /\ r(13) = m(13)
    BY <1>1, StringMeans
  <1>3. (m(2) = 0 => r(2) = 0) /\ (m(6) = 0 => r(6) = 0) /\ (m(17) = 0 => r(17) = 0)
    BY <1>1, ZeroRead
  <1>4. WrongLines(f) = {} =>
          (r(2) = 0 => m(2) = 0) /\ (r(6) = 0 => m(6) = 0) /\ (r(17) = 0 => m(17) = 0)
    BY <1>1, ZeroMeant
  <1>5. Wanted(f) <=> /\ r(7) # NULL /\ r(11) # NULL /\ r(12) # NULL
                      /\ r(2) # 0 /\ r(6) # 0 /\ r(17) # 0
                      /\ r(13) \in Patterns \cup {NULL, <<>>}
    BY MainOffs DEF Wanted, MainEntry
  <1>6. Sufficient(f) <=>
          /\ \A i, j \in DOMAIN handles : i # j => handles[i].name # handles[j].name
          /\ \A e \in AllEntries : e.default = NULL => LinesFor(f, e) # {}
          /\ m(7) # NULL /\ m(11) # NULL /\ m(12) # NULL
          /\ m(2) # 0 /\ m(6) # 0 /\ m(17) # 0
          /\ m(13) \in Patterns \cup {NULL, <<>>}
    BY MainOffs DEF Sufficient, MainEntry
  <1> HIDE DEF m, r
  <1>7. ASSUME ReadValid(f)
        PROVE  Sufficient(f) /\ WrongLines(f) \subseteq OverlongLines(f)
    <2>1. Complete(f) /\ Wanted(f)
      BY <1>7 DEF ReadValid
    <2>2. Sufficient(f)
      BY <1>2, <1>3, <1>5, <1>6, <2>1 DEF Complete
    <2>3. ASSUME NEW i \in WrongLines(f) PROVE i \in OverlongLines(f)
      <3>1. i \in DOMAIN f /\ f[i].kind # "comment"
        BY DEF WrongLines
      <3>2. PICK e \in AllEntries : i \in LinesFor(f, e) /\ LineTaken(f[i], e)
        BY <2>1, <3>1 DEF Complete
      <3>3. ~LineValid(f[i], e)
        BY <3>2 DEF WrongLines
      <3>4. QED
        BY <3>1, <3>2, <3>3, TakenValid
    <2>4. QED
      BY <2>2, <2>3
  <1>8. ASSUME Valid(f) PROVE ReadValid(f)
    <2>1. Sufficient(f) /\ WrongLines(f) = {}
      BY <1>8 DEF Valid
    <2>2. Wanted(f)
      BY <1>2, <1>4, <1>5, <1>6, <2>1
    <2>3. ASSUME NEW i \in DOMAIN f, f[i].kind # "comment"
          PROVE  \E e \in AllEntries : i \in LinesFor(f, e) /\ LineTaken(f[i], e)
      <3>1. PICK e \in AllEntries : i \in LinesFor(f, e) /\ LineValid(f[i], e)
        BY <2>1, <2>3 DEF WrongLines
      <3>2. QED
        BY <3>1, ValidTaken
    <2>4. Complete(f)
      BY <1>6, <2>1, <2>3 DEF Complete
    <2>5. QED
      BY <2>2, <2>4 DEF ReadValid
  <1>9. QED
    BY <1>7, <1>8

(* The names of the modules when a file is read.                           *)
LEMMA HandleNamed ==
  ASSUME IsSeq(handles), NEW c, NEW es, Laid(handles, c, es, Len(handles)),
         NEW i \in DOMAIN handles
  PROVE  handles[i].name \in DOMAIN Modules
  <1> DEFINE k == Len(handles)
             p == k + 1 - i
  <1>1. k \in Nat /\ i \in 1 .. k /\ p \in 1 .. k /\ k + 1 - p = i
    BY IsSeqFacts
  <1> HIDE DEF p, k
  <1>2. c.excf[p].name = handles[i].name /\ c.excf[p].name \in DOMAIN Modules
    BY <1>1, PlaceIn DEF k
  <1>3. QED
    BY <1>2

LEMMA AcceptedStep ==
  StructInv /\ ReadInv /\ AcceptedIffValid /\ [Next]_vars => AcceptedIffValid'
  <1> SUFFICES ASSUME StructInv, ReadInv, AcceptedIffValid, [Next]_vars
               PROVE  AcceptedIffValid'
    OBVIOUS
  <1> DEFINE Accepts == Sufficient(file) /\ WrongLines(file) \subseteq OverlongLines(file)
  <1>1. UNCHANGED <<file, handles>> => (Accepts' <=> Accepts) /\ (Valid(file)' <=> Valid(file))
    <2>1. UNCHANGED <<file, handles>> => UNCHANGED AllEntries
      BY DEF AllEntries
    <2>2. UNCHANGED <<file, handles>> =>
            /\ UNCHANGED <<WrongLines(file), OverlongLines(file)>>
            /\ Sufficient(file)' <=> Sufficient(file)
      BY <2>1 DEF WrongLines, OverlongLines, Sufficient
    <2>3. QED
      BY <2>2 DEF Valid
  <1> HIDE DEF Accepts
  <1>2. AcceptedIffValid' <=>
          (phase' \in {"running", "stopped"} =>
             (outcome' = "loaded" => Accepts') /\ (outcome' = "refused" => ~Valid(file)'))
    BY DEF AcceptedIffValid, Accepts
  <1>3. ASSUME phase \in {"read", "checks"}
        PROVE  (ReadValid(file) => Accepts) /\ (Valid(file) => ReadValid(file))
    <2>1. IsSeq(handles) /\ file \in Files /\ Laid(handles, new, cfe, Len(handles))
      BY <1>3 DEF StructInv, BuildInv, Basics, Loading
    <2>2. HandlesKnown
      BY <2>1, HandleNamed DEF HandlesKnown
    <2>3. QED
      BY <2>1, <2>2, AsTaken DEF Accepts
  <1>4. CASE Rejected
    <2>1. phase = "checks" /\ (error \/ MandatoryMissing(new) \/ PatternRefused(new))
          /\ outcome' = "refused" /\ UNCHANGED <<file, handles>>
      BY <1>4 DEF Rejected, Refuse, LoadFails
    <2>2. QED
      BY <1>2, <1>1, <1>3, <2>1, TakenIffValid
  <1>5. CASE LineUnterminated
    <2>1. phase = "read" /\ at <= Len(file) /\ file[at].kind = "unterminated"
          /\ outcome' = "refused" /\ UNCHANGED <<file, handles>>
      BY <1>5 DEF LineUnterminated, Reading, Line, Refuse, LoadFails
    <2>2. file \in Files /\ at \in Nat \ {0}
      BY <2>1 DEF StructInv, BuildInv, Basics, Loading
    <2>3. at \in DOMAIN file
      BY <2>1, <2>2, FilesFacts
    <2>4. ~ReadValid(file)
      BY <2>1, <2>3 DEF ReadValid, Complete, LinesFor
    <2>5. QED
      BY <1>2, <1>1, <1>3, <2>1, <2>4
  <1>6. CASE Installed
    <2>1. phase = "checks" /\ ~(error \/ MandatoryMissing(new) \/ PatternRefused(new))
          /\ outcome' = "loaded" /\ UNCHANGED <<file, handles>>
      BY <1>6 DEF Installed
    <2>2. QED
      BY <1>2, <1>1, <1>3, <2>1, TakenIffValid
  <1>7. CASE ModulesRefused \/ MemoryExhausted
    <2>1. outcome' \in {"noModules", "noMemory"}
      BY <1>7 DEF ModulesRefused, MemoryExhausted
    <2>2. QED
      BY <2>1 DEF AcceptedIffValid
  <1>8. CASE ModuleInitFails \/ ModuleOutOfMemory \/ LoadOutOfMemory \/ ReadOutOfMemory
             \/ FileUnreadable
    <2>1. outcome' \in {"noSymbol", "noMemory", "unreadable"}
      BY <1>8 DEF ModuleInitFails, ModuleOutOfMemory, LoadOutOfMemory, ReadOutOfMemory,
                  FileUnreadable, LoadFails
    <2>2. QED
      BY <2>1 DEF AcceptedIffValid
  <1>9. CASE \/ ModuleLineSkipped \/ ModuleOpened \/ ModulesRead \/ LoadBegins
             \/ ModuleInits \/ ModulesBound \/ ReadEnds
    <2>1. phase' \in {"modules", "starting", "init", "read", "checks"}
      BY <1>9 DEF ModuleLineSkipped, ModuleOpened, ModulesRead, LoadBegins, ModuleInits,
                  ModulesBound, ReadEnds
    <2>2. QED
      BY <2>1 DEF AcceptedIffValid
  <1>10. CASE LineIgnored \/ LineUnknown \/ IntegerLine \/ StringLine
    <2>1. phase' = "read"
      BY <1>10 DEF LineIgnored, LineUnknown, IntegerLine, StringLine, Reading
    <2>2. QED
      BY <2>1 DEF AcceptedIffValid
  <1>11. CASE UNCHANGED vars
    <2>1. Accepts' <=> Accepts
      BY <1>1, <1>11 DEF vars
    <2>2. Valid(file)' <=> Valid(file)
      BY <1>1, <1>11 DEF vars
    <2>3. QED
      BY <1>11, <1>2, <2>1, <2>2 DEF vars, AcceptedIffValid, Accepts
  <1>12. QED
    BY <1>4, <1>5, <1>6, <1>7, <1>8, <1>9, <1>10, <1>11 DEF Next

(***************************************************************************)
(* The lists of domains and addresses.                                     *)
(***************************************************************************)
\* A part of s ends before e.
IsComma(s, i) == s[i] = ","
EndsAt(s, e) == ~(e <= Len(s) /\ ~IsComma(s, e))
PartTo(s, e) == SubSeq(s, HeadOf(s, e) + 1, e - 1)
AddPart(s, list, e) ==
  IF EndsAt(s, e) THEN uniq_push_strlist(list, PartTo(s, e)) ELSE list
Unrepeated(list) == \A i, j \in DOMAIN list : i # j => list[i] # list[j]

LEMMA HeadFacts ==
  ASSUME NEW A, NEW s \in Seq(A), NEW e \in 1 .. Len(s) + 1
  PROVE  /\ HeadOf(s, e) \in 0 .. e - 1
         /\ HeadOf(s, e) = 0 \/ IsComma(s, HeadOf(s, e))
         /\ \A i \in HeadOf(s, e) + 1 .. e - 1 : ~IsComma(s, i)
  <1> DEFINE m == e - 1
             S == {h \in 0 .. m : h = 0 \/ IsComma(s, h)}
             P(h) == (h = 0 \/ IsComma(s, h)) /\ \A i \in h + 1 .. m : ~IsComma(s, i)
  <1>1. m \in Nat
    OBVIOUS
  <1> HIDE DEF m
  <1>2. S \in SUBSET (0 .. m) /\ 0 \in S
    BY <1>1
  <1>3. PICK h \in S : \A i \in S : i <= h
    <2> HIDE DEF S
    <2> QED
      BY <1>1, <1>2, GreatestExists
  <1>4. h \in 0 .. m /\ (h = 0 \/ IsComma(s, h))
    BY <1>3
  <1>5. ASSUME NEW i \in h + 1 .. m PROVE ~IsComma(s, i)
    <2>1. i \in 0 .. m /\ ~(i <= h)
      BY <1>1, <1>4
    <2>2. QED
      BY <1>3, <2>1
  <1>6. P(h)
    BY <1>4, <1>5
  <1>7. HeadOf(s, e) = CHOOSE i \in 0 .. m : P(i)
    BY Zenon DEF HeadOf, m, IsComma
  <1> HIDE DEF P
  <1>8. HeadOf(s, e) \in 0 .. m /\ P(HeadOf(s, e))
    BY <1>4, <1>6, <1>7, Zenon
  <1>9. QED
    BY <1>8, Zenon DEF P, m

LEMMA PartIn ==
  ASSUME NEW A, NEW s \in Seq(A), NEW e \in 1 .. Len(s) + 1
  PROVE  PartTo(s, e) \in Seq(A)
  <1> DEFINE h == HeadOf(s, e)
  <1>1. h \in 0 .. e - 1
    BY HeadFacts, Zenon
  <1> HIDE DEF h
  <1>2. SubSeq(s, h + 1, e - 1) \in Seq(A)
    BY <1>1
  <1>3. QED
    BY <1>2 DEF PartTo, h

LEMMA PushFacts ==
  ASSUME NEW W, NEW list \in Seq(W), NEW x \in W, Unrepeated(list)
  PROVE  LET r == uniq_push_strlist(list, x)
         IN  r \in Seq(W) /\ ToSet(r) = ToSet(list) \cup {x} /\ Unrepeated(r)
  <1>1. DOMAIN list = 1 .. Len(list) /\ Len(list) \in Nat
    OBVIOUS
  <1>2. CASE search_strlist(list, x)
    <2>1. x \in ToSet(list)
      BY <1>1, <1>2 DEF search_strlist, Contains, ToSet
    <2>2. QED
      BY <1>2, <2>1 DEF uniq_push_strlist
  <1>3. CASE ~search_strlist(list, x)
    <2> DEFINE r == Append(list, x)
               n == Len(list)
    <2>1. /\ r \in Seq(W) /\ DOMAIN r = 1 .. n + 1 /\ r[n + 1] = x
          /\ \A i \in 1 .. n : r[i] = list[i]
      BY <1>1
    <2>2. \A i \in 1 .. n : list[i] # x
      BY <1>3 DEF search_strlist, Contains
    <2> HIDE DEF r
    <2>3. \A i \in 1 .. n + 1 : i = n + 1 \/ i \in 1 .. n
      BY <1>1
    <2>4. n + 1 \in 1 .. n + 1 /\ \A i \in 1 .. n : i \in 1 .. n + 1
      BY <1>1
    <2>5. ToSet(r) = ToSet(list) \cup {x}
      BY <1>1, <2>1, <2>3, <2>4 DEF ToSet
    <2>6. Unrepeated(r)
      BY <1>1, <2>1, <2>2, <2>3 DEF Unrepeated
    <2>7. QED
      BY <1>3, <2>1, <2>5, <2>6 DEF uniq_push_strlist, r
  <1>4. QED
    BY <1>2, <1>3

Splits(s, f) ==
  /\ f[0] = <<>> /\ split_comma(s) = f[Len(s) + 1]
  /\ \A e \in 1 .. Len(s) + 1 : f[e] = AddPart(s, f[e - 1], e)

LEMMA SplitFacts ==
  ASSUME NEW A, NEW s \in Seq(A)
  PROVE  \E f : Splits(s, f)
  <1> DEFINE n == Len(s) + 1
             W == Seq(A)
             L == {q \in Seq(W) : Unrepeated(q)}
             Right(f) == f = [e \in 0 .. n |->
               IF e = 0 THEN <<>>
               ELSE IF e <= Len(s) /\ s[e] # "," THEN f[e - 1]
               ELSE uniq_push_strlist(f[e - 1], SubSeq(s, HeadOf(s, e) + 1, e - 1))]
             listed == CHOOSE f : Right(f)
             step == [e \in 1 .. n |-> [q \in L |-> AddPart(s, q, e)]]
  <1>1. n \in Nat
    OBVIOUS
  <1>2. <<>> \in L
    <2> HIDE DEF W
    <2>1. <<>> \in Seq(W)
      OBVIOUS
    <2>2. Unrepeated(<<>>)
      BY DEF Unrepeated
    <2> QED
      BY <2>1, <2>2
  <1>3. \A e \in 1 .. n : \A q \in L : AddPart(s, q, e) \in L
    <2> TAKE e \in 1 .. n
    <2>1. PartTo(s, e) \in W
      BY PartIn
    <2> HIDE DEF n, W
    <2> TAKE q \in L
    <2>2. uniq_push_strlist(q, PartTo(s, e)) \in L
      BY <2>1, PushFacts
    <2> HIDE DEF L
    <2> QED
      BY <2>2 DEF AddPart
  <1>4. step \in Steps(L, n)
    <2> HIDE DEF L, n
    <2> QED
      BY <1>3 DEF Steps
  <1>5. PICK g \in [0 .. n -> L] :
          g[0] = <<>> /\ \A e \in 1 .. n : g[e] = step[e][g[e - 1]]
    <2> DEFINE e0 == <<>>
    <2>1. e0 \in L
      BY <1>2
    <2> HIDE DEF n, L, step, e0
    <2>2. Iterable(L, e0, step, n)
      BY <1>1, <1>4, <2>1, RecursionExists
    <2> QED
      BY <2>2 DEF Iterable, Iterates, e0
  <1>6. \A e \in 1 .. n : g[e] = AddPart(s, g[e - 1], e)
    <2> HIDE DEF L, n
    <2>1. \A e \in 1 .. n : e - 1 \in 0 .. n
      BY <1>1
    <2> QED
      BY <1>5, <2>1
  <1> HIDE DEF n, L
  <1>7. Right(g)
    <2> DEFINE right == [e \in 0 .. n |-> IF e = 0 THEN <<>> ELSE AddPart(s, g[e - 1], e)]
    <2>1. ASSUME NEW e \in 0 .. n PROVE right[e] = g[e]
      <3>1. e # 0 => e \in 1 .. n
        BY <1>1
      <3>2. QED
        BY <1>5, <1>6, <3>1
    <2>2. g = [e \in 0 .. n |-> g[e]] /\ right = [e \in 0 .. n |-> right[e]]
      BY <1>5, Zenon
    <2> HIDE DEF right
    <2>3. g = right
      BY <2>1, <2>2, Zenon
    <2>4. \A q, e : AddPart(s, q, e) =
            IF e <= Len(s) /\ s[e] # "," THEN q
            ELSE uniq_push_strlist(q, SubSeq(s, HeadOf(s, e) + 1, e - 1))
      BY Zenon DEF AddPart, EndsAt, IsComma, PartTo
    <2>5. right = [e \in 0 .. n |->
               IF e = 0 THEN <<>>
               ELSE IF e <= Len(s) /\ s[e] # "," THEN g[e - 1]
               ELSE uniq_push_strlist(g[e - 1], SubSeq(s, HeadOf(s, e) + 1, e - 1))]
      BY <2>4, Zenon DEF right
    <2>6. QED
      BY <2>3, <2>5, Zenon
  <1> HIDE DEF Right
  <1>8. Right(listed)
    BY <1>7, Zenon
  <1>9. split_comma(s) = listed[n]
    BY Zenon DEF split_comma, Right, n
  <1> HIDE DEF listed
  <1>10. listed = [e \in 0 .. n |-> IF e = 0 THEN <<>> ELSE AddPart(s, listed[e - 1], e)]
    BY <1>8, Zenon DEF Right, AddPart, EndsAt, IsComma, PartTo
  <1>11. \A e \in 0 .. n : listed[e] = IF e = 0 THEN <<>> ELSE AddPart(s, listed[e - 1], e)
    BY <1>10, Zenon
  <1>12. 0 \in 0 .. n /\ \A e \in 1 .. n : e \in 0 .. n /\ e # 0
    BY <1>1
  <1>13. listed[0] = <<>> /\ \A e \in 1 .. n : listed[e] = AddPart(s, listed[e - 1], e)
    BY <1>11, <1>12, Zenon
  <1>14. QED
    BY <1>9, <1>13, Zenon DEF Splits, n

\* The parts of s that end at or before e.
PartsUpTo(s, e) == {PartTo(s, i) : i \in {k \in 1 .. e : EndsAt(s, k)}}

LEMMA SplitLists ==
  ASSUME NEW A, NEW s \in Seq(A)
  PROVE  /\ ToSet(split_comma(s)) = PartsUpTo(s, Len(s) + 1)
         /\ Unrepeated(split_comma(s))
  <1> DEFINE n == Len(s) + 1
             W == Seq(A)
  <1>1. PICK f : Splits(s, f)
    BY SplitFacts
  <1>2. n \in Nat /\ \A e \in 1 .. n : PartTo(s, e) \in W
    BY PartIn
  <1>3. /\ f[0] = <<>> /\ split_comma(s) = f[n]
        /\ \A e \in 1 .. n : f[e] = AddPart(s, f[e - 1], e)
    BY <1>1 DEF Splits
  <1> HIDE DEF n, W
  <1> DEFINE P(e) == f[e] \in Seq(W) /\ ToSet(f[e]) = PartsUpTo(s, e) /\ Unrepeated(f[e])
             S == {e \in 0 .. n : P(e)}
  <1>4. P(0)
    BY <1>3 DEF PartsUpTo, ToSet, Unrepeated
  <1>5. ASSUME NEW e \in 1 .. n, P(e - 1) PROVE P(e)
    <2> DEFINE q == f[e - 1]
    <2>1. q \in Seq(W) /\ ToSet(q) = PartsUpTo(s, e - 1) /\ Unrepeated(q)
      BY <1>5
    <2>2. f[e] = AddPart(s, q, e) /\ PartTo(s, e) \in W
      BY <1>2, <1>3
    <2> HIDE DEF q
    <2>3. \A k : k \in 1 .. e <=> k \in 1 .. e - 1 \/ k = e
      BY <1>2
    <2>4. PartsUpTo(s, e) = PartsUpTo(s, e - 1) \cup
                             (IF EndsAt(s, e) THEN {PartTo(s, e)} ELSE {})
      BY <2>3 DEF PartsUpTo
    <2>5. CASE EndsAt(s, e)
      <3>1. f[e] = uniq_push_strlist(q, PartTo(s, e))
        BY <2>2, <2>5 DEF AddPart
      <3>2. f[e] \in Seq(W) /\ ToSet(f[e]) = ToSet(q) \cup {PartTo(s, e)} /\ Unrepeated(f[e])
        BY <2>1, <2>2, <3>1, PushFacts
      <3>3. QED
        BY <2>1, <2>4, <2>5, <3>2
    <2>6. CASE ~EndsAt(s, e)
      BY <2>1, <2>2, <2>4, <2>6 DEF AddPart
    <2>7. QED
      BY <2>5, <2>6
  <1> HIDE DEF P
  <1>6. \A e \in 0 .. n : e \in S
    <2>1. 0 \in S
      BY <1>2, <1>4
    <2>2. ASSUME NEW k \in 0 .. n, k \in S, k < n PROVE k + 1 \in S
      <3>1. k + 1 \in 1 .. n /\ (k + 1) - 1 = k /\ k + 1 \in 0 .. n
        BY <1>2, <2>2
      <3>2. P(k)
        BY <2>2
      <3>3. QED
        BY <1>5, <3>1, <3>2
    <2> HIDE DEF S
    <2>3. QED
      BY <1>2, <2>1, <2>2, UpTo
  <1>7. n \in 0 .. n
    BY <1>2
  <1>8. P(n)
    BY <1>6, <1>7
  <1>9. QED
    BY <1>3, <1>8 DEF P, n

LEMMA SplitIsList ==
  ASSUME NEW A, NEW s \in Seq(A)
  PROVE  IsListOf(split_comma(s), s)
  <1> DEFINE n == Len(s) + 1
             borders == {0, n} \cup {i \in DOMAIN s : IsComma(s, i)}
             gaps == {g \in borders \X borders :
                        g[1] < g[2] /\ ~\E k \in borders : g[1] < k /\ k < g[2]}
  <1>1. n \in Nat \ {0} /\ DOMAIN s = 1 .. n - 1
    OBVIOUS
  <1>2. \A e : e \in 1 .. n /\ EndsAt(s, e) <=> e \in borders /\ e # 0
    BY <1>1 DEF EndsAt
  <1>3. \A e \in 1 .. n : /\ HeadOf(s, e) \in 0 .. e - 1
                          /\ HeadOf(s, e) = 0 \/ IsComma(s, HeadOf(s, e))
                          /\ \A i \in HeadOf(s, e) + 1 .. e - 1 : ~IsComma(s, i)
    BY HeadFacts
  <1> HIDE DEF n
  <1>4. \A k \in borders : k \in 0 .. n /\ (k \in 1 .. n - 1 => IsComma(s, k))
    BY <1>1
  <1>5. \A k : k = 0 \/ (k \in 1 .. n - 1 /\ IsComma(s, k)) => k \in borders
    BY <1>1
  <1> HIDE DEF borders
  <1>6. ASSUME NEW e \in 1 .. n, e \in borders PROVE <<HeadOf(s, e), e>> \in gaps
    <2> DEFINE h == HeadOf(s, e)
    <2>1. h \in 0 .. e - 1 /\ (h = 0 \/ IsComma(s, h))
          /\ \A i \in h + 1 .. e - 1 : ~IsComma(s, i)
      BY <1>3
    <2> HIDE DEF h
    <2>2. h \in borders /\ h < e
      <3>1. h = 0 \/ h \in 1 .. n - 1
        BY <1>1, <2>1
      <3>2. QED
        BY <1>1, <1>5, <2>1, <3>1
    <2>3. ASSUME NEW k \in borders, h < k, k < e PROVE FALSE
      <3>1. k \in h + 1 .. e - 1 /\ k \in 1 .. n - 1
        BY <1>1, <1>4, <2>1, <2>3
      <3>2. QED
        BY <1>4, <2>1, <3>1
    <2>4. <<h, e>> \in gaps
      BY <1>6, <2>2, <2>3
    <2>5. QED
      BY <2>4 DEF h
  <1>7. ASSUME NEW g \in gaps
        PROVE  g[2] \in 1 .. n /\ g[2] \in borders /\ g[1] = HeadOf(s, g[2])
    <2> DEFINE a == g[1]
               e == g[2]
               h == HeadOf(s, e)
    <2>1. a \in borders /\ e \in borders /\ a < e /\ ~\E k \in borders : a < k /\ k < e
      OBVIOUS
    <2> HIDE DEF a, e
    <2>2. a \in 0 .. n /\ e \in 1 .. n
      BY <1>1, <1>4, <2>1
    <2>3. h \in 0 .. e - 1 /\ (h = 0 \/ IsComma(s, h))
          /\ \A i \in h + 1 .. e - 1 : ~IsComma(s, i)
      BY <1>3, <2>2
    <2> HIDE DEF h
    <2>4. h \in borders
      <3>1. h = 0 \/ h \in 1 .. n - 1
        BY <1>1, <2>2, <2>3
      <3>2. QED
        BY <1>5, <2>3, <3>1
    <2>5. ~(a < h)
      BY <1>1, <2>1, <2>2, <2>3, <2>4
    <2>6. ~(h < a)
      <3> SUFFICES ASSUME h < a PROVE FALSE
        OBVIOUS
      <3>1. a \in h + 1 .. e - 1 /\ a \in 1 .. n - 1
        BY <1>1, <2>1, <2>2, <2>3
      <3>2. QED
        BY <1>4, <2>1, <2>3, <3>1
    <2>7. a = h
      BY <1>1, <2>2, <2>3, <2>5, <2>6
    <2>8. QED
      BY <2>1, <2>2, <2>7 DEF a, e, h
  <1> HIDE DEF gaps
  <1>8. PartsUpTo(s, n) = {SubSeq(s, g[1] + 1, g[2] - 1) : g \in gaps}
    <2>1. \A e \in 1 .. n : EndsAt(s, e) <=> e \in borders
      BY <1>1, <1>2
    <2>2. ASSUME NEW x \in PartsUpTo(s, n)
          PROVE  x \in {SubSeq(s, g[1] + 1, g[2] - 1) : g \in gaps}
      <3>1. PICK e \in 1 .. n : EndsAt(s, e) /\ x = PartTo(s, e)
        BY DEF PartsUpTo
      <3> DEFINE g == <<HeadOf(s, e), e>>
      <3>2. g \in gaps
        BY <1>6, <2>1, <3>1
      <3>3. g[1] = HeadOf(s, e) /\ g[2] = e
        OBVIOUS
      <3> HIDE DEF g
      <3>4. x = SubSeq(s, g[1] + 1, g[2] - 1)
        BY <3>1, <3>3 DEF PartTo
      <3>5. QED
        BY <3>2, <3>4
    <2>3. ASSUME NEW g \in gaps PROVE SubSeq(s, g[1] + 1, g[2] - 1) \in PartsUpTo(s, n)
      <3>1. g[2] \in 1 .. n /\ EndsAt(s, g[2]) /\ g[1] = HeadOf(s, g[2])
        BY <1>7, <2>1
      <3>2. SubSeq(s, g[1] + 1, g[2] - 1) = PartTo(s, g[2])
        BY <3>1 DEF PartTo
      <3>3. QED
        BY <3>1, <3>2 DEF PartsUpTo
    <2>4. QED
      BY <2>2, <2>3
  <1>9. ToSet(split_comma(s)) = {SubSeq(s, g[1] + 1, g[2] - 1) : g \in gaps}
        /\ Unrepeated(split_comma(s))
    BY <1>8, SplitLists DEF n
  <1>10. IsListOf(split_comma(s), s) <=>
           /\ ToSet(split_comma(s)) = {SubSeq(s, g[1] + 1, g[2] - 1) : g \in gaps}
           /\ Unrepeated(split_comma(s))
    BY Zenon DEF IsListOf, gaps, borders, n, IsComma, Unrepeated
  <1>11. QED
    BY <1>9, <1>10

(***************************************************************************)
(* The configuration in use.                                               *)
(***************************************************************************)
\* A number is one its validator takes, or the default.
NumberWritten(f, e) ==
  \/ ReadMeaning(f, e) = e.default
  \/ ReadMeaning(f, e) \in 0 .. UINT - 1 /\ Passes(e.test, ToInt(ReadMeaning(f, e)))

LEMMA Numbers ==
  ASSUME NEW f \in Files, NEW es, SameWhenNamed(es),
         \A i \in 1 .. Len(f) : Understood(f, es, i),
         NEW j \in 1 .. Len(es), es[j].type = "integer"
  PROVE  NumberWritten(f, es[j])
  <1> DEFINE e == es[j]
             i == LastOf(LinesFor(f, e))
  <1>1. LinesFor(f, e) = {k \in 1 .. Len(f) : LineFor(f, e, k)} /\ Len(f) \in Nat
    BY LinesAre, FilesFacts
  <1>2. CASE LinesFor(f, e) = {}
    BY <1>2 DEF NumberWritten, ReadMeaning
  <1>3. CASE LinesFor(f, e) # {}
    <2>1. LinesFor(f, e) \in SUBSET (0 .. Len(f))
      BY <1>1
    <2>2. i \in LinesFor(f, e)
      BY <1>1, <1>3, <2>1, LastIsLast
    <2>3. ReadMeaning(f, e) = f[i].num % UINT
      BY <1>3 DEF ReadMeaning
    <2> HIDE DEF i
    <2>4. i \in 1 .. Len(f) /\ LineFor(f, e, i)
      BY <1>1, <2>2
    <2>5. f[i].kind = "setting" /\ Matches(f[i], e)
      BY <2>4 DEF LineFor
    <2>6. f[i].num \in Int
      BY <2>4, <2>5, LineFacts
    <2>7. PICK k \in 1 .. Len(es) : i \in LinesFor(f, es[k]) /\ LineTaken(f[i], es[k])
      BY <2>4, <2>5 DEF Understood
    <2>8. Matches(f[i], es[k])
      BY <2>7, LinesAre DEF LineFor
    <2>9. SameEntry(es[k], e)
      BY <2>5, <2>8, MatchesName DEF SameWhenNamed
    <2>10. Passes(e.test, ToInt(f[i].num % UINT))
      BY <2>7, <2>9 DEF LineTaken, SameEntry
    <2>11. f[i].num % UINT \in 0 .. UINT - 1
      BY <2>6, Cut
    <2>12. QED
      BY <2>3, <2>10, <2>11 DEF NumberWritten
  <1>4. QED
    BY <1>2, <1>3

\* The properties of a configuration, of one that is not in use yet too.
ValuesOf(c) ==
  \A n \in DOMAIN MainCfe :
    LET v == c.data[n]
        meant == Meaning(c.file, MainCfe[n])
    IN  IF MainCfe[n].type = "string" THEN Contents(v) = meant
        ELSE v = meant \/ (TooLong(meant) /\ v = meant % UINT)
ExtrasOf(c) ==
  \A i \in DOMAIN c.excf :
    \A n \in DOMAIN Modules[c.excf[i].name] :
      LET v == c.data[c.excf[i].at + n]
          meant == Meaning(c.file, Modules[c.excf[i].name][n])
      IN  IF v = Garbage THEN c.excf[i].name = "dummy" /\ meant = NULL
          ELSE Contents(v) = meant
UsableOf(c) ==
  /\ \A name \in {"ListenPort", "CommandPort", "LdapPort"} :
       Value(c, name) \in 1 .. USHRT_MAX
  /\ \A name \in {"TimeOut", "CommandTimeOut", "LdapTimeout"} :
       Value(c, name) \in 1 .. INT_MAX
  /\ is_commandmaxclients(Value(c, "CommandMaxClients"))
  /\ Value(c, "LdapCheck") \in {0, 1}
  /\ \A name \in NeededStrings : Value(c, name) # NULL
  /\ IsListOf(c.domains, Text(c, "MyDomain"))
  /\ IsListOf(c.addresses, Text(c, "SaveMailAddress"))

\* All numbers are ints.
IntsOf(c) ==
  \A n \in {2, 3, 6, 8, 9, 15, 17, 23} : c.data[n] \in 0 .. INT_MAX

LEMMA ValuesTaken ==
  ASSUME NEW c, \A n \in 1 .. 23 : Agrees(c.file, MainCfe[n], c.data[n]), IntsOf(c)
  PROVE  ValuesOf(c)
  <1> SUFFICES ASSUME NEW n \in 1 .. 23
               PROVE  LET v == c.data[n]
                          meant == Meaning(c.file, MainCfe[n])
                      IN  IF MainCfe[n].type = "string" THEN Contents(v) = meant
                          ELSE v = meant \/ (TooLong(meant) /\ v = meant % UINT)
    BY Tables DEF IsTable, ValuesOf
  <1> DEFINE v == c.data[n]
             e == MainCfe[n]
             meant == Meaning(c.file, e)
  <1>1. CASE e.type = "string"
    <2>1. StringAgrees(c.file, e, v) /\ ReadMeaning(c.file, e) = meant
      BY <1>1, MainString, StringMeans
    <2>2. QED
      BY <1>1, <2>1 DEF StringAgrees, Contents
  <1>2. CASE e.type # "string"
    <2>1. e.type = "integer" /\ v \in 0 .. INT_MAX
      BY <1>2, MainTypes, MainIntegers DEF IntsOf
    <2>2. v = ReadMeaning(c.file, e)
      BY <2>1 DEF Agrees
    <2>3. v = meant \/ v = meant % UINT
      BY <2>1, <2>2 DEF ReadMeaning, Meaning
    <2> HIDE DEF v, meant
    <2>4. ~TooLong(meant) /\ v = meant % UINT => v = meant
      BY <2>1, Uncut, Widths
    <2>5. v = meant \/ (TooLong(meant) /\ v = meant % UINT)
      BY <2>3, <2>4
    <2>6. QED
      BY <1>2, <2>5 DEF v, meant
  <1>3. QED
    BY <1>1, <1>2

LEMMA ExtrasTaken ==
  ASSUME NEW c,
         \A i \in DOMAIN c.excf :
           /\ c.excf[i].name \in DOMAIN Modules
           /\ \A n \in DOMAIN Modules[c.excf[i].name] :
                Agrees(c.file, Modules[c.excf[i].name][n], c.data[c.excf[i].at + n])
  PROVE  ExtrasOf(c)
  <1> SUFFICES ASSUME NEW i \in DOMAIN c.excf, NEW n \in DOMAIN Modules[c.excf[i].name]
               PROVE  LET v == c.data[c.excf[i].at + n]
                          meant == Meaning(c.file, Modules[c.excf[i].name][n])
                      IN  IF v = Garbage THEN c.excf[i].name = "dummy" /\ meant = NULL
                          ELSE Contents(v) = meant
    BY DEF ExtrasOf
  <1> DEFINE e == Modules[c.excf[i].name][n]
             v == c.data[c.excf[i].at + n]
             m == Meaning(c.file, e)
  <1>0. e.type = "string" /\ ReadMeaning(c.file, e) = m
    BY ModuleStrings, StringMeans
  <1>1. e.type = "string" /\ (OfDummy(e) => c.excf[i].name = "dummy") /\ Agrees(c.file, e, v)
    BY ModuleStrings, OnlyDummys
  <1>2. NULL # Garbage /\ (IsText(v) => v \notin {NULL, Garbage})
    BY NullAssumption DEF IsText
  <1>3. \/ m = NULL /\ (v = NULL \/ (v = Garbage /\ OfDummy(e)))
        \/ m # NULL /\ IsText(v) /\ v.text = m
    <2> HIDE DEF e, v, m
    <2>1. Agrees(c.file, e, v) /\ e.type # "integer" /\ ReadMeaning(c.file, e) = m
      BY <1>0, <1>1
    <2>2. QED
      BY <2>1 DEF Agrees, Unset
  <1> HIDE DEF v, m, e
  <1>4. IF v = Garbage THEN c.excf[i].name = "dummy" /\ m = NULL ELSE Contents(v) = m
    BY <1>1, <1>2, <1>3 DEF Contents
  <1>5. QED
    BY <1>4 DEF v, m, e

\* An entry whose number must fit, with a default that does.
Small(d) == d \in Nat /\ 1 <= d /\ d <= 65535
NumberEntry(e, test) == e.type = "integer" /\ e.test = test /\ Small(e.default)

LEMMA PortNumber ==
  ASSUME NEW f, NEW e, NEW v, NumberEntry(e, "port"), NumberWritten(f, e), Agrees(f, e, v),
         ReadMeaning(f, e) # 0
  PROVE  v \in 1 .. USHRT_MAX
  <1>1. v = ReadMeaning(f, e) /\ v # 0 /\ Small(e.default)
    BY DEF Agrees, NumberEntry
  <1>2. v = e.default \/ (v \in 0 .. UINT - 1 /\ is_port(ToInt(v)))
    BY <1>1, Tests DEF NumberWritten, NumberEntry
  <1>3. CASE v = e.default
    BY <1>1, <1>3, Widths DEF Small
  <1>4. CASE v \in 0 .. UINT - 1 /\ is_port(ToInt(v))
    BY <1>1, <1>4, AsInt, Widths
  <1>5. QED
    BY <1>2, <1>3, <1>4

LEMMA TimeNumber ==
  ASSUME NEW f, NEW e, NEW v, NumberEntry(e, "timeout"), NumberWritten(f, e), Agrees(f, e, v)
  PROVE  v \in 1 .. INT_MAX
  <1>1. v = ReadMeaning(f, e) /\ Small(e.default)
    BY DEF Agrees, NumberEntry
  <1>2. v = e.default \/ (v \in 0 .. UINT - 1 /\ is_timeout(ToInt(v)))
    BY <1>1, Tests DEF NumberWritten, NumberEntry
  <1>3. CASE v = e.default
    BY <1>1, <1>3, Widths DEF Small
  <1>4. CASE v \in 0 .. UINT - 1 /\ is_timeout(ToInt(v))
    BY <1>4, AsInt
  <1>5. QED
    BY <1>2, <1>3, <1>4

LEMMA CountNumber ==
  ASSUME NEW f, NEW e, NEW v, NumberEntry(e, "maxclients"), NumberWritten(f, e), Agrees(f, e, v)
  PROVE  Small(v)
  <1>1. v = ReadMeaning(f, e) /\ Small(e.default)
    BY DEF Agrees, NumberEntry
  <1>2. v = e.default \/ (v \in 0 .. UINT - 1 /\ is_commandmaxclients(ToInt(v)))
    BY <1>1, Tests DEF NumberWritten, NumberEntry
  <1>3. CASE v = e.default
    BY <1>1, <1>3
  <1>4. CASE v \in 0 .. UINT - 1 /\ is_commandmaxclients(ToInt(v))
    <2>1. v \in Nat
      BY <1>4, Widths
    <2>2. QED
      BY <1>4, <2>1, CountAsInt DEF Small
  <1>5. QED
    BY <1>2, <1>3, <1>4

LEMMA FlagNumber ==
  ASSUME NEW f, NEW e, NEW v, e.type = "integer", e.test = "boolean", e.default = 0,
         NumberWritten(f, e), Agrees(f, e, v)
  PROVE  v \in {0, 1}
  <1>1. v = ReadMeaning(f, e)
    BY DEF Agrees
  <1>2. v = 0 \/ (v \in 0 .. UINT - 1 /\ is_boolean(ToInt(v)))
    BY <1>1, Tests DEF NumberWritten
  <1>3. QED
    BY <1>2, AsInt

LEMMA MainNumberEntries ==
  /\ NumberEntry(MainCfe[2], "port") /\ NumberEntry(MainCfe[6], "port")
  /\ NumberEntry(MainCfe[17], "port")
  /\ NumberEntry(MainCfe[3], "timeout") /\ NumberEntry(MainCfe[9], "timeout")
  /\ NumberEntry(MainCfe[23], "timeout") /\ NumberEntry(MainCfe[8], "maxclients")
  <1>1. Small(16) /\ Small(20026) /\ Small(17777) /\ Small(389) /\ Small(10) /\ Small(300) /\ Small(5)
    BY DEF Small
  <1>2. QED
    BY <1>1, MainNames, MainNumbers, SMTT(30) DEF Describes, NumberEntry

(* A string with a default and a validator that refuses the empty string   *)
(* is never left a null pointer.                                           *)
TextNeeded(e) == e.type = "string" /\ ~Passes(e.test, <<>>) /\ e.default # NULL

LEMMA NeededEntries == \A n \in {1, 4, 5, 10, 14, 16, 22} : TextNeeded(MainCfe[n])
  <1>1. \A n \in {1, 4, 5, 10, 14, 16, 22} : MainCfe[n].default # NULL
    <2>1. \A n \in {1, 4, 5, 10, 14, 16, 22} :
            MainCfe[n].name \notin {"AdminPassword", "MyDomain", "SaveMailAddress"}
      BY MainNames, SMTT(60) DEF Describes
    <2>2. DOMAIN MainCfe = 1 .. 23
      BY Tables DEF IsTable
    <2>3. \A n \in {1, 4, 5, 10, 14, 16, 22} : n \in DOMAIN MainCfe
      BY <2>2
    <2>4. QED
      BY <2>1, <2>3, DefaultAssumption
  <1>2. ~Passes("ipaddr", <<>>) /\ ~Passes("notnull", <<>>)
    BY AddressAssumption DEF Passes, is_ipaddr, is_not_null
  <1>3. \A s : Fold(<<>>) # <<s>> /\ <<>> # <<s>>
    BY DEF Fold
  <1>4. /\ ~Passes("facility", <<>>) /\ ~Passes("erroraction", <<>>)
        /\ ~Passes("savepolicy", <<>>) /\ ~Passes("ldapscope", <<>>)
    BY <1>3 DEF Passes, is_syslog_facility, is_erroraction, is_savepolicy, is_ldapscope,
                Facilities
  <1>5. QED
    BY <1>1, <1>2, <1>4, MainNames, SMTT(30) DEF Describes, TextNeeded

LEMMA TextGiven ==
  ASSUME NEW f \in Files, NEW es, SameWhenNamed(es),
         \A i \in 1 .. Len(f) : Understood(f, es, i),
         NEW j \in 1 .. Len(es), TextNeeded(es[j])
  PROVE  ReadMeaning(f, es[j]) # NULL
  <1> DEFINE e == es[j]
             filled == {i \in LinesFor(f, e) : f[i].text # <<>>}
             last == LastOf(filled)
  <1>1. LinesFor(f, e) = {k \in 1 .. Len(f) : LineFor(f, e, k)} /\ Len(f) \in Nat
    BY LinesAre, FilesFacts
  <1>2. e.type = "string" /\ ~Passes(e.test, <<>>) /\ e.default # NULL
    BY DEF TextNeeded
  <1>3. CASE LinesFor(f, e) = {}
    BY <1>2, <1>3 DEF ReadMeaning
  <1>4. CASE LinesFor(f, e) # {}
    <2>1. PICK i : i \in LinesFor(f, e)
      BY <1>4
    <2>2. i \in 1 .. Len(f) /\ f[i].kind = "setting" /\ Matches(f[i], e)
      BY <1>1, <2>1 DEF LineFor
    <2>3. PICK k \in 1 .. Len(es) : i \in LinesFor(f, es[k]) /\ LineTaken(f[i], es[k])
      BY <2>2 DEF Understood
    <2>4. SameEntry(es[k], e)
      BY <2>2, <2>3, LinesAre, MatchesName DEF LineFor, SameWhenNamed
    <2>5. Passes(e.test, f[i].text)
      BY <1>2, <2>3, <2>4 DEF LineTaken, SameEntry
    <2>6. i \in filled
      BY <1>2, <2>1, <2>5
    <2>7. filled \in SUBSET (0 .. Len(f)) /\ filled # {}
      BY <1>1, <2>6
    <2>8. last \in filled
      BY <1>1, <2>7, LastIsLast
    <2>9. ReadMeaning(f, e) = f[last].text
      BY <1>2, <1>4, <2>7 DEF ReadMeaning
    <2> HIDE DEF last
    <2>10. last \in 1 .. Len(f) /\ f[last].kind = "setting"
      BY <1>1, <2>8 DEF LineFor
    <2>11. f[last].text \in Seq(STRING)
      BY <2>10, LineFacts
    <2>12. QED
      BY <2>9, <2>11, NullAssumption
  <1>5. QED
    BY <1>3, <1>4

LEMMA UsableTaken ==
  ASSUME NEW c, \A n \in 1 .. 23 : Agrees(c.file, MainCfe[n], c.data[n]),
         \A n \in 1 .. 23 : MainCfe[n].type = "integer" => NumberWritten(c.file, MainCfe[n]),
         \A n \in 1 .. 23 : TextNeeded(MainCfe[n]) => ReadMeaning(c.file, MainCfe[n]) # NULL,
         Wanted(c.file), c.domains = split_comma(Text(c, "MyDomain")),
         c.addresses = split_comma(Text(c, "SaveMailAddress"))
  PROVE  UsableOf(c) /\ IntsOf(c)
  <1>1. /\ Value(c, "ListenPort") = c.data[2] /\ Value(c, "CommandPort") = c.data[6]
        /\ Value(c, "LdapPort") = c.data[17]
        /\ Value(c, "TimeOut") = c.data[3] /\ Value(c, "CommandTimeOut") = c.data[9]
        /\ Value(c, "LdapTimeout") = c.data[23] /\ Value(c, "LdapCheck") = c.data[15]
        /\ Value(c, "CommandMaxClients") = c.data[8]
        /\ Text(c, "MyDomain") = c.data[11].text
        /\ Text(c, "SaveMailAddress") = c.data[12].text
    BY MainOffs, Zenon DEF Value, Text
  <1>2. \A n \in {2, 3, 6, 8, 9, 15, 17, 23} :
          n \in 1 .. 23 /\ (MainCfe[n].type = "integer" => NumberWritten(c.file, MainCfe[n]))
    OBVIOUS
  <1>3. /\ ReadMeaning(c.file, MainCfe[2]) # 0 /\ ReadMeaning(c.file, MainCfe[6]) # 0
        /\ ReadMeaning(c.file, MainCfe[17]) # 0
        /\ ReadMeaning(c.file, MainCfe[11]) # NULL /\ ReadMeaning(c.file, MainCfe[12]) # NULL
    BY MainOffs DEF Wanted, MainEntry
  <1>4. /\ c.data[2] \in 1 .. USHRT_MAX /\ c.data[6] \in 1 .. USHRT_MAX
        /\ c.data[17] \in 1 .. USHRT_MAX
    BY <1>2, <1>3, PortNumber, MainNumberEntries, SMTT(30) DEF NumberEntry
  <1>5. /\ c.data[3] \in 1 .. INT_MAX /\ c.data[9] \in 1 .. INT_MAX
        /\ c.data[23] \in 1 .. INT_MAX
    BY <1>2, TimeNumber, MainNumberEntries DEF NumberEntry
  <1>10. Small(c.data[8])
    <2>1. NumberEntry(MainCfe[8], "maxclients")
      BY MainNumberEntries
    <2>2. NumberWritten(c.file, MainCfe[8]) /\ Agrees(c.file, MainCfe[8], c.data[8])
      BY <1>2, <2>1 DEF NumberEntry
    <2>3. QED
      BY <2>1, <2>2, CountNumber
  <1>6. c.data[15] \in {0, 1}
    <2>1. MainCfe[15].type = "integer" /\ MainCfe[15].test = "boolean"
          /\ MainCfe[15].default = 0
      BY MainNames, MainNumbers DEF Describes
    <2>2. QED
      BY <1>2, <2>1, FlagNumber, SMTT(30)
  <1>7. c.data[11].text \in Seq(STRING) /\ c.data[12].text \in Seq(STRING)
    <2>1. /\ MainCfe[11].default = NULL /\ MainCfe[11].type = "string"
          /\ MainCfe[12].default = NULL /\ MainCfe[12].type = "string"
      BY MainNames, MainNumbers DEF Describes
    <2>2. /\ StringAgrees(c.file, MainCfe[11], c.data[11])
          /\ StringAgrees(c.file, MainCfe[12], c.data[12])
      BY <2>1, MainString, SMTT(30)
    <2>3. QED
      BY <1>3, <2>1, <2>2 DEF StringAgrees
  <1>8. IsListOf(c.domains, Text(c, "MyDomain"))
        /\ IsListOf(c.addresses, Text(c, "SaveMailAddress"))
    BY <1>1, <1>7, SplitIsList
  <1>9. \A name \in NeededStrings : Value(c, name) # NULL
    <2>1. \A n \in {1, 4, 5, 7, 10, 11, 12, 14, 16, 22} :
            MainCfe[n].type = "string" /\ ReadMeaning(c.file, MainCfe[n]) # NULL
      <3>1. /\ MainCfe[7].type = "string" /\ MainCfe[11].type = "string"
            /\ MainCfe[12].type = "string"
        BY MainNames DEF Describes
      <3>2. ReadMeaning(c.file, MainCfe[7]) # NULL
        BY MainOffs DEF Wanted, MainEntry
      <3>3. \A n \in {1, 4, 5, 10, 14, 16, 22} :
              MainCfe[n].type = "string" /\ ReadMeaning(c.file, MainCfe[n]) # NULL
        BY NeededEntries, SMTT(30) DEF TextNeeded
      <3>4. QED
        BY <1>3, <3>1, <3>2, <3>3, SMTT(30)
    <2>2. \A n \in {1, 4, 5, 7, 10, 11, 12, 14, 16, 22} : c.data[n] # NULL
      BY <2>1, MainString, SMTT(30) DEF StringAgrees
    <2>3. /\ Off("ListenIP") = 1 /\ Off("SyslogFacility") = 4 /\ Off("ErrorAction") = 5
          /\ Off("AdminPassword") = 7 /\ Off("SavePolicy") = 10 /\ Off("MyDomain") = 11
          /\ Off("SaveMailAddress") = 12 /\ Off("DefaultDomain") = 14
          /\ Off("LdapServer") = 16 /\ Off("LdapScope") = 22
      BY MainOffs
    <2>4. \A name \in NeededStrings : Off(name) \in {1, 4, 5, 7, 10, 11, 12, 14, 16, 22}
      BY <2>3 DEF NeededStrings
    <2>5. QED
      BY <2>2, <2>4 DEF Value
  <1>11. IntsOf(c)
    <2>1. \A x : x \in 1 .. USHRT_MAX \/ x \in 1 .. INT_MAX \/ Small(x) \/ x \in {0, 1}
            => x \in 0 .. INT_MAX
      BY Widths DEF Small
    <2>2. QED
      BY <1>4, <1>5, <1>6, <1>10, <2>1 DEF IntsOf
  <1>12. QED
    <2>1. \A name \in {"ListenPort", "CommandPort", "LdapPort"} :
            Value(c, name) \in 1 .. USHRT_MAX
      BY <1>1, <1>4
    <2>2. \A name \in {"TimeOut", "CommandTimeOut", "LdapTimeout"} :
            Value(c, name) \in 1 .. INT_MAX
      BY <1>1, <1>5
    <2>3. is_commandmaxclients(Value(c, "CommandMaxClients")) /\ Value(c, "LdapCheck") \in {0, 1}
      BY <1>1, <1>6, <1>10 DEF Small, is_commandmaxclients
    <2>4. QED
      BY <1>8, <1>9, <1>11, <2>1, <2>2, <2>3, Zenon DEF UsableOf

LEMMA Installs ==
  ASSUME StructInv, ReadInv, Installed
  PROVE  ValuesOf(current') /\ ExtrasOf(current') /\ UsableOf(current')
  <1> DEFINE c == conv_config(new)
             k == Len(handles)
  <1>1. /\ phase = "checks" /\ current' = c
        /\ ~(error \/ MandatoryMissing(new) \/ PatternRefused(new))
    BY DEF Installed
  <1>2. /\ Shaped(new) /\ Laid(handles, new, cfe, k) /\ Spread(new) /\ IsSeq(handles)
        /\ file \in Files /\ new.file = file /\ FileRead
    BY <1>1 DEF StructInv, BuildInv, Basics, Loading, ReadInv
  <1>3. /\ c.data = new.data /\ c.excf = new.excf /\ c.file = file
        /\ c.domains = split_comma(Text(c, "MyDomain"))
        /\ c.addresses = split_comma(Text(c, "SaveMailAddress"))
    <2>1. /\ Same(new, c) /\ c.data = new.data
          /\ c.domains = split_comma(Text(new, "MyDomain"))
          /\ c.addresses = split_comma(Text(new, "SaveMailAddress"))
      BY <1>2, Converts
    <2> HIDE DEF c
    <2>2. \A name : Text(c, name) = Text(new, name)
      BY <2>1 DEF Text, Value
    <2>3. QED
      BY <1>2, <2>1, <2>2 DEF Same
  <1> HIDE DEF c
  <1>4. Complete(file) /\ Wanted(file) /\ ~error
    BY <1>1, TakenIffValid DEF ReadValid
  <1>5. /\ k \in Nat /\ DOMAIN new.excf = 1 .. k /\ SameWhenNamed(cfe)
        /\ Len(cfe) \in Nat /\ Len(cfe) >= 23
    <2>1. SameWhenNamed(cfe)
      BY <1>2, SameNames DEF SameWhenNamed
    <2>2. QED
      BY <1>2, <2>1, IsSeqFacts DEF Laid
  <1>6. \A j \in 1 .. Len(cfe) : Agrees(file, cfe[j], new.data[j])
    BY <1>2, <1>4 DEF FileRead
  <1>7. \A n \in 1 .. 23 : Agrees(file, MainCfe[n], c.data[n])
    BY <1>1, <1>3, <1>4, MainAgrees
  <1>8. ASSUME NEW i \in 1 .. k
        PROVE  /\ new.excf[i].name \in DOMAIN Modules
               /\ \A n \in DOMAIN Modules[new.excf[i].name] :
                    Agrees(file, Modules[new.excf[i].name][n], new.data[new.excf[i].at + n])
    <2>1. /\ new.excf[i].name \in DOMAIN Modules
          /\ \A n \in DOMAIN Modules[new.excf[i].name] :
               /\ new.excf[i].at + n \in 1 .. Len(cfe)
               /\ InModule(new, cfe, new.excf[i].at + n, i, n)
      BY <1>2, <1>5, PlaceIn
    <2>2. QED
      BY <1>6, <2>1, SameAgrees DEF InModule
  <1>9. \A n \in 1 .. 23 : MainCfe[n].type = "integer" => NumberWritten(file, MainCfe[n])
    <2>1. \A i \in 1 .. Len(file) : Understood(file, cfe, i)
      BY <1>2, <1>4, CompleteExactly, FilesFacts
    <2> TAKE n \in 1 .. 23
    <2>0. n \in 1 .. Len(cfe)
      BY <1>5
    <2>2. n \in 1 .. Len(cfe) /\ SameEntry(cfe[n], MainCfe[n])
      BY <1>2, <2>0 DEF Laid
    <2>3. cfe[n].type = "integer" => NumberWritten(file, cfe[n])
      BY <1>2, <1>5, <2>1, <2>2, Numbers
    <2>4. ReadMeaning(file, cfe[n]) = ReadMeaning(file, MainCfe[n])
      BY <2>2, SameLines
    <2>5. QED
      BY <2>2, <2>3, <2>4 DEF SameEntry, NumberWritten
  <1>10. \A n \in 1 .. 23 : TextNeeded(MainCfe[n]) => ReadMeaning(file, MainCfe[n]) # NULL
    <2>1. \A i \in 1 .. Len(file) : Understood(file, cfe, i)
      BY <1>2, <1>4, CompleteExactly, FilesFacts
    <2> SUFFICES ASSUME NEW n \in 1 .. 23, TextNeeded(MainCfe[n])
                 PROVE  ReadMeaning(file, MainCfe[n]) # NULL
      OBVIOUS
    <2>2. n \in 1 .. Len(cfe)
      BY <1>5
    <2>3. SameEntry(cfe[n], MainCfe[n])
      BY <1>2, <2>2 DEF Laid
    <2>4. TextNeeded(cfe[n])
      BY <2>3 DEF SameEntry, TextNeeded
    <2>5. ReadMeaning(file, cfe[n]) # NULL
      BY <1>2, <1>5, <2>1, <2>2, <2>4, TextGiven
    <2>6. QED
      BY <2>3, <2>5, SameLines
  <1>11. ExtrasOf(c)
    BY <1>3, <1>5, <1>8, ExtrasTaken, SMTT(30)
  <1>12. UsableOf(c) /\ IntsOf(c)
    BY <1>3, <1>4, <1>7, <1>9, <1>10, UsableTaken
  <1>13. ValuesOf(c)
    BY <1>3, <1>7, <1>12, ValuesTaken
  <1>14. QED
    BY <1>1, <1>11, <1>12, <1>13

LEMMA OnlyInstalledChanges == [Next]_vars /\ ~Installed => UNCHANGED current
  BY DEF vars, Next, ModuleLineSkipped, ModuleOpened, ModulesRefused, ModulesRead,
         LoadBegins, ModuleInits, ModulesBound, ModuleInitFails, ModuleOutOfMemory, Abandon,
         LoadOutOfMemory, ReadOutOfMemory, FileUnreadable, LineIgnored, LineUnknown,
         LineUnterminated, Refuse, IntegerLine, StringLine, ReadEnds, MemoryExhausted, Rejected

LEMMA CurrentStep ==
  StructInv /\ ReadInv /\ CurrentInv /\ [Next]_vars => CurrentInv'
  <1> SUFFICES ASSUME StructInv, ReadInv, CurrentInv, [Next]_vars PROVE CurrentInv'
    OBVIOUS
  <1>1. CASE Installed
    <2>1. ValuesOf(current') /\ ExtrasOf(current') /\ UsableOf(current')
      BY <1>1, Installs
    <2>2. /\ ValuesAsWritten' <=> ValuesOf(current')
          /\ ExtrasAsWritten' <=> ExtrasOf(current')
          /\ ValuesUsable' <=> UsableOf(current')
      BY DEF ValuesAsWritten, ValuesOf, ExtrasAsWritten, ExtrasOf, ValuesUsable, UsableOf,
             Value, Text
    <2>3. QED
      BY <2>1, <2>2 DEF CurrentInv
  <1>2. CASE ~Installed
    <2>1. UNCHANGED current
      BY <1>2, OnlyInstalledChanges
    <2>2. /\ ValuesAsWritten' <=> ValuesAsWritten
          /\ ExtrasAsWritten' <=> ExtrasAsWritten
          /\ ValuesUsable' <=> ValuesUsable
      BY <2>1 DEF ValuesAsWritten, ExtrasAsWritten, ValuesUsable, Value, Text
    <2>3. QED
      BY <2>1, <2>2 DEF CurrentInv
  <1>3. QED
    BY <1>1, <1>2

LEMMA SettingsInit == Init => SettingsInv
  <1>1. Init => CurrentInv /\ AcceptedIffValid
    BY DEF Init, CurrentInv, AcceptedIffValid
  <1>2. QED
    BY <1>1, ReadInit DEF SettingsInv

(* StructInv and SettingsInv together are inductive: what read_config has  *)
(* made of the lines so far, what the whole file makes of the settings     *)
(* when it has been read, and what a configuration was installed with.     *)
THEOREM SettingsInvariant == Spec => [](StructInv /\ SettingsInv)
  <1>1. Init => StructInv /\ SettingsInv
    BY StructInit, SettingsInit
  <1>2. StructInv /\ SettingsInv /\ [Next]_vars => (StructInv /\ SettingsInv)'
    BY StructStep, ReadStep, CurrentStep, AcceptedStep DEF SettingsInv
  <1>3. QED
    BY <1>1, <1>2, PTL DEF Spec

(* A messasy.conf that is valid as a whole is taken, and one that is taken *)
(* is valid but for lines whose number no int holds, for every file,       *)
(* module.conf and set of libraries (read_config and the checks of         *)
(* set_config, ConfigLoad.AcceptedIffValid).                               *)
THEOREM AcceptedAlwaysIfValid == Spec => []AcceptedIffValid
  BY SettingsInvariant, PTL DEF SettingsInv

(* The configuration in use is what its file says: every setting of the    *)
(* program and of every module has the value of its last line or its       *)
(* default, a number that no int holds its low 32 bits; every number is in *)
(* its range, and split_comma's lists are those of the text                *)
(* (ConfigLoad.SettingsAsWritten).                                         *)
THEOREM SettingsAlwaysAsWritten == Spec => []SettingsAsWritten
  <1>1. StructInv /\ SettingsInv => SettingsAsWritten
    BY DEF StructInv, UseInv, SettingsInv, CurrentInv, SettingsAsWritten, AtRest
  <1>2. QED
    BY <1>1, SettingsInvariant, PTL

(***************************************************************************)
(* Memory.  What malloc gave and free has not taken back is accounted for: *)
(* it belongs to the configuration in use or to the one being built, or    *)
(* its last pointer is known to be lost, or it is one of dummy's names.    *)
(***************************************************************************)
Books(given, dropped, held) ==
  /\ held \subseteq given
  /\ \A o \in given \ held : o \in dropped \/ o[2] \in CopiedNames
InUse == IF current = NoConfig THEN {} ELSE Freed(current)

\* The strings of c, by the table of entries es, and all that c holds.
TextsOf(c, es) ==
  {Obj(c, "string", n, c.data[n].line) :
     n \in {k \in 1 .. Len(es) : es[k].type = "string" /\ c.data[k] \notin {NULL, Garbage}}}
Holding(c, es) ==
  TextsOf(c, es) \cup Converted(c) \cup Nodes(c)
  \cup {Obj(c, "config", 0, 0), Obj(c, "cfe", 0, 0)}

HasDummy == \E h \in ToSet(handles) : h.name = "dummy"
Explained == HasDummy \/ Twice(handles)
Garbled(c) == \E n \in 24 .. Len(c.data) : c.data[n] = Garbage
\* A string no line of the file has set.
Unread(chk, es, d) ==
  \A j \in 1 .. Len(es) : j \notin chk /\ es[j].type = "string" => d[j] \in {NULL, Garbage}

HeapInv ==
  /\ phase \in {"modules", "starting"} => heap = {}
  /\ phase = "running" => Books(heap, lost, InUse)
  /\ Loading => Books(heap, lost, InUse \cup Holding(new, cfe)) /\ Converted(new) = {}
LoadsInv ==
  /\ Loading => new.load = loads
  /\ current # NoConfig => current.load <= loads /\ (Loading => current.load < loads)
FieldsInv ==
  /\ phase = "read" => Unread(check, cfe, new.data)
  /\ phase \in {"read", "checks"} => (Garbled(new) => HasDummy)
OnceInv ==
  current # NoConfig => ~Twice(handles) /\ (FreesWildly(current) => Explained)
WildInv ==
  /\ phase \in {"modules", "starting"} => ~wild
  /\ wild => Explained \/ (phase = "stopped" /\ outcome = "noModules")
MemoryInv == HeapInv /\ LoadsInv /\ FieldsInv /\ OnceInv /\ WildInv
StepInv == StructInv /\ SettingsInv /\ MemoryInv

LEMMA ObjIs ==
  \A c, w, n, l : Obj(c, w, n, l)[1] = c.load /\ Obj(c, w, n, l)[2] = w
  BY DEF Obj

(* An object names its load; no configuration holds the table of another.  *)
LEMMA FreedNamed ==
  ASSUME NEW c
  PROVE  /\ \A o \in Freed(c) : o[1] = c.load /\ o[2] # "cfe"
         /\ \A es : \A o \in Holding(c, es) : o[1] = c.load
  <1> DEFINE Mine(S) == \A o \in S : o[1] = c.load /\ o[2] # "cfe"
  <1>1. \A F : Mine(Strings(c, F))
    BY ObjIs DEF Strings
  <1>2. Mine(Nodes(c))
    <2>1. \A l \in Lists : Mine({Obj(c, l, c.exec[l][i].node, 0) : i \in DOMAIN c.exec[l]})
      BY ObjIs DEF Lists
    <2> DEFINE A == UNION {{Obj(c, l, c.exec[l][i].node, 0) : i \in DOMAIN c.exec[l]} : l \in Lists}
               B == {Obj(c, "excf", c.excf[i].node, 0) : i \in DOMAIN c.excf}
    <2>2. Mine(B)
      BY ObjIs
    <2>3. Mine(A)
      BY <2>1
    <2>4. Nodes(c) = B \cup A
      BY DEF Nodes
    <2> HIDE DEF A, B
    <2>5. QED
      BY <2>2, <2>3, <2>4
  <1>3. Mine(Converted(c))
    BY ObjIs DEF Converted
  <1>4. Mine({Obj(c, "config", 0, 0)})
    BY ObjIs
  <1>5. \A es : Mine(TextsOf(c, es))
    BY ObjIs DEF TextsOf
  <1>6. Mine(UNION {Strings(c, ModuleFree(c, handles[i].name)) : i \in DOMAIN handles})
    BY <1>1
  <1>7. Obj(c, "cfe", 0, 0)[1] = c.load
    BY ObjIs
  <1>8. Mine(Freed(c))
    <2> HIDE DEF Mine
    <2>1. \A A, B : Mine(A) /\ Mine(B) => Mine(A \cup B)
      BY DEF Mine
    <2>2. QED
      BY <1>1, <1>2, <1>3, <1>4, <1>6, <2>1 DEF Freed
  <1>9. \A es : \A o \in Holding(c, es) : o[1] = c.load
    BY <1>2, <1>3, <1>4, <1>5, <1>7 DEF Holding
  <1>10. QED
    BY <1>8, <1>9

LEMMA SameUse ==
  UNCHANGED <<current, handles>> =>
    InUse' = InUse /\ (FreesWildly(current)' <=> FreesWildly(current)) /\ Explained' = Explained
  BY DEF InUse, Freed, FreesWildly, Explained, HasDummy, Strings, Converted, Nodes, Obj

(* What one free of the whole leaves.                                      *)
LEMMA BooksClosed ==
  ASSUME NEW h, NEW l, NEW A, NEW B, NEW F, NEW x, Books(h, l, A \cup B),
         \A o \in A : o \notin B, B = F \cup {x}
  PROVE  Books((h \ F) \ {x}, l, A)
  BY DEF Books

(***************************************************************************)
(* What free_config finds of the modules' settings.                        *)
(***************************************************************************)
FieldsAt(x) == {x.at + n : n \in DOMAIN Modules[x.name]}

LEMMA ModuleFreeIs ==
  ASSUME NEW c, NEW name \in DOMAIN Modules
  PROVE  ModuleFree(c, name) = ExtraFields(c, name)
  BY ModuleNamed DEF ModuleFree, lda_free_config, maildrop_free_config, gzip_free_config,
                     enczip_free_config, dummy_free_config

LEMMA FirstFreed ==
  ASSUME NEW c, IsSeq(c.excf), NEW p \in 1 .. Len(c.excf),
         c.excf[p].name \in DOMAIN Modules
  PROVE  \E q \in 1 .. Len(c.excf) :
           /\ c.excf[q].name = c.excf[p].name
           /\ ModuleFree(c, c.excf[p].name) = FieldsAt(c.excf[q])
  <1> DEFINE x == c.excf
             n == Len(x)
             name == x[p].name
             I == {i \in 1 .. n : x[i].name = name}
             e == SelectInSeq(x, LAMBDA y : y.name = name)
  <1>1. n \in Nat
    BY IsSeqFacts
  <1>2. e = IF I # {} THEN Min(I) ELSE 0
    BY DEF SelectInSeq
  <1>3. I \in SUBSET Nat /\ I # {}
    BY <1>1
  <1>4. Min(I) \in I
    <2> HIDE DEF I
    <2>1. QED
      BY <1>3, LeastExists
  <1>5. e \in I
    BY <1>2, <1>3, <1>4
  <1>6. e \in 1 .. n /\ x[e].name = name /\ e # 0
    BY <1>1, <1>5
  <1>7. ExtraFields(c, name) = {x[e].at + m : m \in DOMAIN Modules[name]}
    BY <1>6 DEF ExtraFields
  <1> HIDE DEF e
  <1>8. QED
    BY <1>6, <1>7, ModuleFreeIs DEF FieldsAt

\* Each handle has its module's fields freed once.
LEMMA HandleFrees ==
  ASSUME IsSeq(handles), NEW c, NEW es, Laid(handles, c, es, Len(handles)),
         NEW i \in DOMAIN handles
  PROVE  /\ handles[i].name \in DOMAIN Modules
         /\ \E q \in 1 .. Len(handles) :
              /\ c.excf[q].name = handles[i].name
              /\ ModuleFree(c, handles[i].name) = FieldsAt(c.excf[q])
  <1> DEFINE k == Len(handles)
             p == k + 1 - i
  <1>1. k \in Nat /\ i \in 1 .. k /\ p \in 1 .. k /\ k + 1 - p = i
    BY IsSeqFacts
  <1>2. IsSeq(c.excf) /\ Len(c.excf) = k
    BY DEF Laid
  <1> HIDE DEF p, k
  <1>3. c.excf[p].name = handles[i].name /\ c.excf[p].name \in DOMAIN Modules
    BY <1>1, PlaceIn DEF k
  <1>4. QED
    BY <1>1, <1>2, <1>3, FirstFreed DEF k

LEMMA PlaceAbove ==
  ASSUME NEW hs, NEW c, NEW es, NEW k \in Nat, Laid(hs, c, es, k), NEW i \in 1 .. k
  PROVE  \A n \in FieldsAt(c.excf[i]) :
           /\ n \in 24 .. Len(es) /\ n \in 1 .. Len(es)
           /\ \E m \in DOMAIN Modules[c.excf[i].name] : InModule(c, es, n, i, m)
  <1>1. c.excf[i].at \in 23 .. Len(es)
    BY DEF Laid, Placed
  <1>2. Len(es) \in Nat
    BY IsSeqFacts DEF Laid
  <1>3. \A m \in DOMAIN Modules[c.excf[i].name] :
          /\ m \in Nat \ {0} /\ c.excf[i].at + m \in 1 .. Len(es)
          /\ InModule(c, es, c.excf[i].at + m, i, m)
    BY PlaceIn
  <1>4. \A a \in 23 .. Len(es) : \A m \in Nat \ {0} :
          a + m \in 1 .. Len(es) => a + m \in 24 .. Len(es)
    BY <1>2
  <1>5. QED
    BY <1>1, <1>3, <1>4 DEF FieldsAt

\* Modules of different names have different fields.
LEMMA FieldsApart ==
  ASSUME NEW hs, NEW c, NEW es, NEW k \in Nat, Laid(hs, c, es, k),
         NEW p \in 1 .. k, NEW q \in 1 .. k, c.excf[p].name # c.excf[q].name
  PROVE  FieldsAt(c.excf[p]) \cap FieldsAt(c.excf[q]) = {}
  <1> SUFFICES ASSUME NEW n, n \in FieldsAt(c.excf[p]), n \in FieldsAt(c.excf[q])
               PROVE  FALSE
    OBVIOUS
  <1>1. PICK a \in DOMAIN Modules[c.excf[p].name] : InModule(c, es, n, p, a)
    BY PlaceAbove
  <1>2. PICK b \in DOMAIN Modules[c.excf[q].name] : InModule(c, es, n, q, b)
    BY PlaceAbove
  <1>3. /\ c.excf[p].name \in DOMAIN Modules /\ c.excf[q].name \in DOMAIN Modules
        /\ Modules[c.excf[p].name][a].name = Modules[c.excf[q].name][b].name
    BY <1>1, <1>2 DEF InModule, SameEntry
  <1>4. Apart(Modules[c.excf[p].name], Modules[c.excf[q].name])
    BY <1>3, ModulesApart
  <1>5. QED
    BY <1>3, <1>4 DEF Apart

(* If no module is loaded twice, free_config frees all that the            *)
(* configuration holds, except the copy of the table, which set_config     *)
(* frees.                                                                  *)
StringFields(es) == {n \in 1 .. Len(es) : es[n].type = "string"}
FreedFields(c) == MainStrings \cup UNION {ModuleFree(c, handles[i].name) : i \in DOMAIN handles}

LEMMA FieldsFreed ==
  ASSUME IsSeq(handles), NEW c, NEW es, Laid(handles, c, es, Len(handles)), ~Twice(handles)
  PROVE  FreedFields(c) = StringFields(es)
  <1> DEFINE k == Len(handles)
  <1>1. k \in Nat /\ DOMAIN handles = 1 .. k /\ DOMAIN MainCfe = 1 .. 23
    BY Tables, IsSeqFacts DEF IsTable
  <1>2. Len(es) \in Nat /\ Len(es) >= 23 /\ \A j \in 1 .. 23 : SameEntry(es[j], MainCfe[j])
    BY IsSeqFacts DEF Laid
  <1>3. \A j \in 1 .. 23 : j \in 1 .. Len(es)
    <2>1. \A l \in Nat : l >= 23 => \A j \in 1 .. 23 : j \in 1 .. l
      OBVIOUS
    <2>2. QED
      BY <1>2, <2>1
  <1>4. ASSUME NEW n \in MainStrings PROVE n \in StringFields(es)
    BY <1>1, <1>2, <1>3 DEF MainStrings, StringFields, SameEntry
  <1>5. ASSUME NEW i \in DOMAIN handles, NEW n \in ModuleFree(c, handles[i].name)
        PROVE  n \in StringFields(es)
    <2>1. PICK q \in 1 .. k : n \in FieldsAt(c.excf[q])
      BY <1>5, HandleFrees
    <2>2. PICK m \in DOMAIN Modules[c.excf[q].name] :
            InModule(c, es, n, q, m) /\ n \in 1 .. Len(es)
      BY <1>1, <2>1, PlaceAbove
    <2>3. QED
      BY <2>2, ModuleStrings DEF InModule, SameEntry, StringFields
  <1>6. ASSUME NEW n \in StringFields(es) PROVE n \in FreedFields(c)
    <2>1. n \in 1 .. Len(es) /\ es[n].type = "string"
      BY DEF StringFields
    <2>2. CASE InMain(es, n)
      BY <1>1, <2>1, <2>2 DEF InMain, SameEntry, MainStrings, FreedFields
    <2>3. ASSUME NEW p \in 1 .. k, NEW m \in Nat, InModule(c, es, n, p, m)
          PROVE  n \in FreedFields(c)
      <3> DEFINE i == k + 1 - p
      <3>1. i \in DOMAIN handles /\ c.excf[p].name = handles[i].name
        BY <1>1, PlaceIn
      <3>2. PICK q \in 1 .. k : /\ c.excf[q].name = handles[i].name
                                /\ ModuleFree(c, handles[i].name) = FieldsAt(c.excf[q])
        BY <3>1, HandleFrees
      <3>3. q = p
        <4>1. k + 1 - q \in DOMAIN handles /\ c.excf[q].name = handles[k + 1 - q].name
          BY <1>1, PlaceIn
        <4>2. k + 1 - q = k + 1 - p
          <5>1. \A a, b \in DOMAIN handles : handles[a].name = handles[b].name => a = b
            BY DEF Twice
          <5>2. handles[k + 1 - q].name = handles[i].name
            BY <3>2, <4>1
          <5>3. QED
            BY <3>1, <4>1, <5>1, <5>2
        <4>3. QED
          BY <1>1, <4>2
      <3>4. n \in FieldsAt(c.excf[p])
        BY <2>3 DEF InModule, FieldsAt
      <3> HIDE DEF i
      <3>5. n \in ModuleFree(c, handles[i].name)
        BY <3>2, <3>3, <3>4
      <3>6. QED
        BY <3>1, <3>5 DEF FreedFields
    <2>4. QED
      BY <1>1, <2>1, <2>2, <2>3, PlaceOf
  <1>7. \A n \in FreedFields(c) : n \in StringFields(es)
    BY <1>4, <1>5 DEF FreedFields
  <1>8. QED
    BY <1>6, <1>7

LEMMA FreedIs ==
  ASSUME IsSeq(handles), NEW c, NEW es, Laid(handles, c, es, Len(handles)), ~Twice(handles)
  PROVE  Freed(c) \cup {Obj(c, "cfe", 0, 0)} = Holding(c, es)
  <1>1. \A F, G : Strings(c, F) \cup Strings(c, G) = Strings(c, F \cup G)
    BY DEF Strings
  <1>2. UNION {Strings(c, ModuleFree(c, handles[i].name)) : i \in DOMAIN handles}
          = Strings(c, UNION {ModuleFree(c, handles[i].name) : i \in DOMAIN handles})
    BY DEF Strings
  <1>3. Strings(c, MainStrings)
          \cup UNION {Strings(c, ModuleFree(c, handles[i].name)) : i \in DOMAIN handles}
          = Strings(c, FreedFields(c))
    BY <1>1, <1>2 DEF FreedFields
  <1>4. Strings(c, StringFields(es)) = TextsOf(c, es)
    BY DEF Strings, StringFields, TextsOf
  <1>5. Strings(c, MainStrings)
          \cup UNION {Strings(c, ModuleFree(c, handles[i].name)) : i \in DOMAIN handles}
          = TextsOf(c, es)
    BY <1>3, <1>4, FieldsFreed
  <1>6. \A A, M, S, C, K, N, T : A \cup M = T =>
          (A \cup C \cup K \cup N \cup M) \cup {S} = T \cup C \cup N \cup (K \cup {S})
    OBVIOUS
  <1>7. {Obj(c, "config", 0, 0)} \cup {Obj(c, "cfe", 0, 0)}
          = {Obj(c, "config", 0, 0), Obj(c, "cfe", 0, 0)}
    OBVIOUS
  <1>8. QED
    BY <1>5, <1>6, <1>7, Zenon DEF Freed, Holding

(* Only what is explained makes free_config free what is not its own.      *)
LEMMA WildlyExplained ==
  ASSUME IsSeq(handles), NEW c, NEW es, Laid(handles, c, es, Len(handles)),
         Garbled(c) => HasDummy
  PROVE  FreesWildly(c) => Explained
  <1> SUFFICES ASSUME FreesWildly(c), ~Twice(handles), ~Garbled(c) PROVE FALSE
    BY DEF Explained
  <1> DEFINE k == Len(handles)
  <1>1. k \in Nat /\ Len(es) = Len(c.data)
    BY IsSeqFacts DEF Laid
  <1>2. ASSUME NEW i \in DOMAIN handles, NEW j \in DOMAIN handles, i # j
        PROVE  Strings(c, ModuleFree(c, handles[i].name) \cap ModuleFree(c, handles[j].name)) = {}
    <2>1. PICK p \in 1 .. k : /\ c.excf[p].name = handles[i].name
                              /\ ModuleFree(c, handles[i].name) = FieldsAt(c.excf[p])
      BY HandleFrees
    <2>2. PICK q \in 1 .. k : /\ c.excf[q].name = handles[j].name
                              /\ ModuleFree(c, handles[j].name) = FieldsAt(c.excf[q])
      BY HandleFrees
    <2>3. c.excf[p].name # c.excf[q].name
      BY <1>2, <2>1, <2>2 DEF Twice
    <2>4. ModuleFree(c, handles[i].name) \cap ModuleFree(c, handles[j].name) = {}
      BY <1>1, <2>1, <2>2, <2>3, FieldsApart
    <2>5. Strings(c, {}) = {}
      BY DEF Strings
    <2>6. QED
      BY <2>4, <2>5
  <1>3. ASSUME NEW i \in DOMAIN handles, NEW n \in ModuleFree(c, handles[i].name)
        PROVE  c.data[n] # Garbage
    <2>1. PICK p \in 1 .. k : ModuleFree(c, handles[i].name) = FieldsAt(c.excf[p])
      BY HandleFrees
    <2>2. n \in 24 .. Len(es)
      BY <1>1, <1>3, <2>1, PlaceAbove
    <2>3. QED
      BY <1>1, <2>2 DEF Garbled
  <1>4. QED
    BY <1>2, <1>3 DEF FreesWildly

(***************************************************************************)
(* What a step does to the books.                                          *)
(***************************************************************************)
LEMMA BooksOpened ==
  ASSUME NEW h, NEW l, NEW A, Books(h, l, A), NEW B
  PROVE  Books(h \cup B, l, A \cup B)
  BY DEF Books

\* New memory that is held, or that nobody frees.
LEMMA BooksMore ==
  ASSUME NEW h, NEW l, NEW A, NEW B, Books(h, l, A \cup B), NEW N, NEW D,
         \A o \in D : o[2] \in CopiedNames
  PROVE  Books((h \cup D) \cup N, l, A \cup (B \cup N))
  BY DEF Books

\* One more string, in the place of those in D.
LEMMA BooksSwapped ==
  ASSUME NEW h, NEW l, NEW A, NEW B, Books(h, l, A \cup B), NEW x, NEW D, NEW C,
         x \in C, C \subseteq B \cup {x}, B \subseteq C \cup D
  PROVE  Books(h \cup {x}, l \cup D, A \cup C)
  BY DEF Books

\* What is held is given up, but for what is dropped.
LEMMA BooksDropped ==
  ASSUME NEW h, NEW l, NEW A, NEW N, NEW E, NEW L, Books(h, l, A \cup (N \cup E)),
         \A o \in A : o \notin E
  PROVE  Books((h \cup L) \ E, l \cup L \cup N, A)
  BY DEF Books

\* The old configuration is freed, the new one keeps what it holds.
LEMMA BooksTurned ==
  ASSUME NEW h, NEW l, NEW A, NEW B, NEW C, NEW F, NEW x, Books(h, l, A \cup B),
         \A o \in A : o \notin F, x \notin F, F \cup {x} = B \cup C
  PROVE  Books(((h \cup C) \ A) \ {x}, l, F)
  BY DEF Books

LEMMA UnsetHasNoTexts ==
  ASSUME NEW c, NEW es, AllUnset(c.data, es)
  PROVE  TextsOf(c, es) = {} /\ Unread({}, es, c.data)
  <1>1. \A j \in 1 .. Len(es) : es[j].type = "string" => c.data[j] \in {NULL, Garbage}
    BY DEF AllUnset, Unset
  <1>2. QED
    BY <1>1 DEF TextsOf, Unread

\* A configuration that differs in its strings only.
LEMMA SameHolding ==
  ASSUME NEW c, NEW d, Same(c, d)
  PROVE  /\ Nodes(d) = Nodes(c) /\ \A w, n, l : Obj(d, w, n, l) = Obj(c, w, n, l)
  BY SMTT(30) DEF Same, Nodes, Obj

(* The strings of the modules are the fields behind the main table.        *)
LEMMA StringsAbove ==
  ASSUME NEW hs, NEW c, NEW es, NEW k \in Nat, Laid(hs, c, es, k), NEW n \in 24 .. Len(es)
  PROVE  es[n].type = "string" /\ (OfDummy(es[n]) => \E i \in 1 .. k : hs[k + 1 - i].name = "dummy")
  <1>1. n \in 1 .. Len(es) /\ n \notin 1 .. 23
    <2>1. Len(es) \in Nat
      BY IsSeqFacts DEF Laid
    <2>2. \A l \in Nat : \A m \in 24 .. l : m \in 1 .. l /\ m \notin 1 .. 23
      OBVIOUS
    <2>3. QED
      BY <2>1, <2>2
  <1>2. PICK i \in 1 .. k, m \in Nat : InModule(c, es, n, i, m)
    BY <1>1, PlaceOf DEF InMain
  <1>3. c.excf[i].name = hs[k + 1 - i].name
    BY PlaceIn
  <1>4. QED
    BY <1>2, <1>3, ModuleStrings, OnlyDummys, ZenonT(60) DEF InModule, SameEntry, OfDummy

\* A field with what the memory held before is dummy's.
LEMMA OnlyDummyGarbles ==
  ASSUME IsSeq(handles), NEW c, NEW es, Laid(handles, c, es, Len(handles)),
         AllUnset(c.data, es)
  PROVE  Garbled(c) => HasDummy
  <1> SUFFICES ASSUME NEW n \in 24 .. Len(es), c.data[n] = Garbage PROVE HasDummy
    BY DEF Garbled, Laid
  <1> DEFINE k == Len(handles)
  <1>1. k \in Nat /\ Len(es) \in Nat /\ DOMAIN handles = 1 .. k
    BY IsSeqFacts DEF Laid
  <1>2. n \in 1 .. Len(es) /\ es[n].type = "string"
    BY <1>1, StringsAbove
  <1>3. OfDummy(es[n])
    BY <1>2, NullAssumption DEF AllUnset, Unset
  <1>4. PICK i \in 1 .. k : handles[k + 1 - i].name = "dummy"
    BY <1>1, <1>3, StringsAbove
  <1>5. k + 1 - i \in DOMAIN handles
    BY <1>1
  <1>6. QED
    BY <1>4, <1>5 DEF HasDummy, ToSet

(***************************************************************************)
(* The steps.                                                              *)
(***************************************************************************)
LEMMA SameOnce ==
  ASSUME StructInv, OnceInv, UNCHANGED <<current, handles>>
  PROVE  OnceInv'
  BY SameUse DEF OnceInv, Twice

LEMMA SameWild ==
  ASSUME WildInv, UNCHANGED <<handles, wild>>, phase \in {"starting", "running", "init", "read", "checks"},
         phase' \notin {"modules", "starting"}
  PROVE  WildInv'
  <1>1. Explained' = Explained
    BY DEF Explained, HasDummy
  <1>2. QED
    BY <1>1 DEF WildInv

LEMMA MemoryModules ==
  StepInv /\ (ModuleLineSkipped \/ ModuleOpened \/ ModulesRefused \/ ModulesRead) => MemoryInv'
  <1> SUFFICES ASSUME StepInv,
                      ModuleLineSkipped \/ ModuleOpened \/ ModulesRefused \/ ModulesRead
               PROVE  MemoryInv'
    OBVIOUS
  <1>1. /\ phase = "modules" /\ UNCHANGED <<heap, current>>
        /\ \/ phase' \in {"modules", "starting"} /\ wild' = wild
           \/ phase' = "stopped" /\ outcome' = "noModules"
    BY DEF ModuleLineSkipped, ModuleOpened, ModulesRefused, ModulesRead
  <1>2. heap = {} /\ ~wild /\ current = NoConfig
    BY <1>1 DEF StepInv, StructInv, HandlesInv, MemoryInv, HeapInv, WildInv
  <1>3. QED
    BY <1>1, <1>2 DEF MemoryInv, HeapInv, LoadsInv, FieldsInv, OnceInv, WildInv, Loading

LEMMA MemoryBegins == StepInv /\ LoadBegins => MemoryInv'
  <1> SUFFICES ASSUME StepInv, LoadBegins PROVE MemoryInv'
    OBVIOUS
  <1>0. StructInv /\ SettingsInv /\ MemoryInv
    BY DEF StepInv
  <1>1. PICK f \in Files : new' = init_config(f)
    BY DEF LoadBegins
  <1>2. /\ phase \in {"starting", "running"} /\ phase' = "init" /\ loads' = loads + 1
        /\ heap' = heap \cup {<<loads + 1, "config", 0, 0>>, <<loads + 1, "cfe", 0, 0>>}
        /\ UNCHANGED <<handles, current, lost, wild>>
    BY DEF LoadBegins
  <1>3. Books(heap, lost, InUse)
    <2>1. CASE phase = "running"
      BY <1>0, <2>1 DEF MemoryInv, HeapInv
    <2>2. CASE phase = "starting"
      <3>1. heap = {} /\ current = NoConfig
        BY <1>0, <2>2 DEF MemoryInv, HeapInv, StructInv, HandlesInv
      <3>2. QED
        BY <3>1 DEF Books, InUse
    <2>3. QED
      BY <1>2, <2>1, <2>2
  <1>4. TextsOf(new', cfe') = {}
    BY <1>0, ReadBegins, UnsetHasNoTexts
  <1>5. Nodes(new') = {} /\ Converted(new') = {} /\ (new').load = loads + 1
    BY <1>1 DEF init_config, Nodes, Converted
  <1>6. Holding(new', cfe') = {<<loads + 1, "config", 0, 0>>, <<loads + 1, "cfe", 0, 0>>}
    BY <1>4, <1>5 DEF Holding, Obj
  <1>7. InUse' = InUse
    BY <1>2, SameUse
  <1>8. Books(heap', lost', InUse' \cup Holding(new', cfe'))
    BY <1>2, <1>3, <1>6, <1>7, BooksOpened
  <1>9. HeapInv'
    <2>1. Holding(new, cfe)' = Holding(new', cfe') /\ Converted(new)' = Converted(new')
      BY DEF Holding, Converted, TextsOf, Nodes, Obj
    <2>2. QED
      BY <1>2, <1>5, <1>8, <2>1 DEF HeapInv
  <1>10. LoadsInv'
    <2>1. loads \in Nat
      BY <1>0 DEF StructInv, Basics
    <2>2. current # NoConfig => current.load <= loads /\ current.load \in Nat
      BY <1>0 DEF MemoryInv, LoadsInv, StructInv, UseInv, Shaped
    <2>3. QED
      BY <1>2, <1>5, <2>1, <2>2 DEF LoadsInv
  <1>11. FieldsInv'
    BY <1>2 DEF FieldsInv
  <1>12. OnceInv' /\ WildInv'
    BY <1>0, <1>2, SameOnce, SameWild DEF MemoryInv
  <1>13. QED
    BY <1>9, <1>10, <1>11, <1>12 DEF MemoryInv

(***************************************************************************)
(* A module's _init.                                                       *)
(***************************************************************************)
\* The objects of kind w that the nodes of a list are.
Held(c, w, s) == {Obj(c, w, s[i].node, 0) : i \in DOMAIN s}

LEMMA OneMoreHeld ==
  ASSUME NEW c, NEW w, NEW s, IsSeq(s), NEW E, NEW n, E.node = n
  PROVE  Held(c, w, <<E>> \o s) = Held(c, w, s) \cup {Obj(c, w, n, 0)}
  <1> DEFINE r == <<E>> \o s
  <1>1. Headed(r, E, s)
    BY PrependIsSeq, Zenon
  <1>2. Len(s) \in Nat /\ DOMAIN s = 1 .. Len(s)
    BY IsSeqFacts
  <1> HIDE DEF r
  <1>3. /\ DOMAIN r = 1 .. Len(s) + 1 /\ r[1] = E
        /\ \A i \in 2 .. Len(s) + 1 : r[i] = s[i - 1]
    BY <1>1, IsSeqFacts DEF Headed
  <1>4. \A i \in 1 .. Len(s) : i + 1 \in 2 .. Len(s) + 1 /\ i + 1 \in 1 .. Len(s) + 1 /\ (i + 1) - 1 = i
    BY <1>2
  <1>5. \A i \in 1 .. Len(s) + 1 : i = 1 \/ (i \in 2 .. Len(s) + 1 /\ i - 1 \in 1 .. Len(s))
    BY <1>2
  <1>6. 1 \in 1 .. Len(s) + 1
    BY <1>2
  <1>7. \A i \in DOMAIN r : \/ r[i].node = n
                           \/ \E j \in DOMAIN s : r[i].node = s[j].node
    BY <1>2, <1>3, <1>5
  <1>8. \A j \in DOMAIN s : \E i \in DOMAIN r : r[i].node = s[j].node
    BY <1>2, <1>3, <1>4
  <1>9. \E i \in DOMAIN r : r[i].node = n
    BY <1>3, <1>6
  <1>10. Held(c, w, r) = Held(c, w, s) \cup {Obj(c, w, n, 0)}
    BY <1>7, <1>8, <1>9 DEF Held
  <1>11. QED
    BY <1>10 DEF r

LEMMA HookedHolds ==
  ASSUME NEW c, Listed(handles, c, at - 1), IsSeq(c.excf), NEW d, NEW name, NEW size,
         NEW fill, HookedTo(d, c, name, size, fill)
  PROVE  Nodes(d) = Nodes(c) \cup {Obj(c, what, at, 0) : what \in Lists \cup {"excf"}}
  <1> DEFINE N == [name |-> name, bound |-> FALSE, node |-> at]
             X == [name |-> name, at |-> size, node |-> at]
  <1>1. /\ d.load = c.load /\ d.excf = <<X>> \o c.excf
        /\ \A l \in Lists : d.exec[l] = <<N>> \o c.exec[l]
    BY DEF HookedTo
  <1>2. N.node = at /\ X.node = at
    OBVIOUS
  <1> HIDE DEF N, X
  <1>3. \A w, n, l : Obj(d, w, n, l) = Obj(c, w, n, l)
    BY <1>1 DEF Obj
  <1> DEFINE Of(e, l) == Held(e, l, e.exec[l])
             Extra(e) == Held(e, "excf", e.excf)
  <1>5. \A l \in Lists : Of(d, l) = Of(c, l) \cup {Obj(c, l, at, 0)}
    <2> TAKE l \in Lists
    <2>1. IsSeq(c.exec[l])
      BY DEF Listed, ListOf
    <2>2. Held(c, l, <<N>> \o c.exec[l]) = Held(c, l, c.exec[l]) \cup {Obj(c, l, at, 0)}
      <3>1. \A s : IsSeq(s) => Held(c, l, <<N>> \o s) = Held(c, l, s) \cup {Obj(c, l, at, 0)}
        BY <1>2, OneMoreHeld, Zenon
      <3>2. QED
        BY <2>1, <3>1, Zenon
    <2>3. Held(d, l, d.exec[l]) = Held(c, l, d.exec[l])
      BY <1>3 DEF Held
    <2>4. d.exec[l] = <<N>> \o c.exec[l]
      BY <1>1
    <2>5. QED
      BY <2>2, <2>3, <2>4, Zenon
  <1>6. Extra(d) = Extra(c) \cup {Obj(c, "excf", at, 0)}
    <2>1. Held(c, "excf", <<X>> \o c.excf) = Held(c, "excf", c.excf) \cup {Obj(c, "excf", at, 0)}
      <3>1. IsSeq(c.excf)
        OBVIOUS
      <3>2. QED
        BY <1>2, <3>1, OneMoreHeld, ZenonT(60)
    <2>2. Held(d, "excf", d.excf) = Held(c, "excf", d.excf)
      BY <1>3 DEF Held
    <2>3. QED
      BY <1>1, <2>1, <2>2, Zenon
  <1>7. \A e : Nodes(e) = Extra(e) \cup UNION {Of(e, l) : l \in Lists}
    BY DEF Nodes, Held
  <1> HIDE DEF Of, Extra
  <1>8. UNION {Of(d, l) : l \in Lists}
          = (UNION {Of(c, l) : l \in Lists}) \cup {Obj(c, l, at, 0) : l \in Lists}
    BY <1>5
  <1>9. {Obj(c, what, at, 0) : what \in Lists \cup {"excf"}}
          = {Obj(c, l, at, 0) : l \in Lists} \cup {Obj(c, "excf", at, 0)}
    OBVIOUS
  <1>10. QED
    BY <1>6, <1>7, <1>8, <1>9

\* The conversions come after everything else.
Unconverted(c, d) == d.regex = c.regex /\ d.domains = c.domains /\ d.addresses = c.addresses

LEMMA UnconvertedHolds ==
  ASSUME NEW c, NEW d, Unconverted(c, d), d.load = c.load
  PROVE  Converted(d) = Converted(c)
  BY DEF Unconverted, Converted, Obj

LEMMA HooksUnconverted ==
  ASSUME NEW c, Shaped(c), NEW name, NEW size, NEW fill
  PROVE  Unconverted(c, [Hooked(c, name, size) EXCEPT !.data = @ \o fill])
  <1> DEFINE h == Hooked(c, name, size)
  <1>1. DOMAIN h = ConfigFields /\ Unconverted(c, h)
    BY DEF Hooked, Shaped, ConfigFields, Unconverted
  <1> HIDE DEF h
  <1>2. Unconverted(h, [h EXCEPT !.data = @ \o fill])
    BY <1>1 DEF ConfigFields, Unconverted
  <1>3. QED
    BY <1>1, <1>2 DEF Unconverted, h

LEMMA ModuleInitHolds ==
  ASSUME StepInv, phase = "init", at <= Len(handles),
         NEW name \in DOMAIN Modules, NEW t, t = Modules[name], NEW fill, IsSeq(fill),
         Len(fill) = Len(t), AllUnset(fill, t), NEW names, ModuleInit(name, t, fill, names),
         \A o \in names : o[2] \in CopiedNames,
         UNCHANGED <<phase, modFile, handles, file, loads, check, error, current,
                     outcome, log, lost, wild>>
  PROVE  MemoryInv'
  <1> DEFINE d == new'
             N == {Obj(new, what, at, 0) : what \in Lists \cup {"excf"}}
  <1>0. StructInv /\ SettingsInv /\ MemoryInv /\ ReadInv
    BY DEF StepInv, SettingsInv
  <1>1. /\ Shaped(new) /\ Laid(handles, new, cfe, at - 1) /\ Listed(handles, new, at - 1)
        /\ AllUnset(new.data, cfe)
    BY <1>0 DEF StructInv, BuildInv, Loading, ReadInv
  <1>2. d = [Hooked(new, name, Len(new.data)) EXCEPT !.data = @ \o fill]
        /\ heap' = (heap \cup names) \cup N
    BY Zenon DEF ModuleInit
  <1>3. HookedTo(d, new, name, Len(new.data), fill)
    BY <1>1, <1>2, Hooks, Zenon
  <1>4. d.load = new.load
    BY <1>3 DEF HookedTo
  <1>5. Nodes(d) = Nodes(new) \cup N
    BY <1>1, <1>3, HookedHolds DEF Laid
  <1>6. Converted(d) = Converted(new)
    BY <1>1, <1>2, <1>4, HooksUnconverted, UnconvertedHolds
  <1>7. TextsOf(d, cfe') = {} /\ TextsOf(new, cfe) = {}
    BY <1>0, <1>1, InitReads, UnsetHasNoTexts
  <1>8. Holding(d, cfe') = Holding(new, cfe) \cup N
    BY <1>4, <1>5, <1>6, <1>7 DEF Holding, Obj
  <1>9. Books(heap, lost, InUse \cup Holding(new, cfe)) /\ Converted(new) = {}
    BY <1>0 DEF MemoryInv, HeapInv, Loading
  <1>10. InUse' = InUse
    BY SameUse
  <1> HIDE DEF d, N
  <1>11. Books(heap', lost', InUse' \cup Holding(d, cfe'))
    BY <1>2, <1>8, <1>9, <1>10, BooksMore
  <1>12. HeapInv'
    <2>1. Holding(new, cfe)' = Holding(d, cfe') /\ Converted(new)' = Converted(d)
      BY DEF Holding, Converted, TextsOf, Nodes, Obj, d
    <2>2. QED
      BY <1>6, <1>9, <1>11, <2>1 DEF HeapInv
  <1>13. LoadsInv'
    BY <1>0, <1>4 DEF MemoryInv, LoadsInv, Loading, d
  <1>14. FieldsInv'
    BY DEF FieldsInv
  <1>15. OnceInv' /\ WildInv'
    BY <1>0, SameOnce, SameWild DEF MemoryInv
  <1>16. QED
    BY <1>12, <1>13, <1>14, <1>15 DEF MemoryInv

LEMMA MemoryModuleInits == StepInv /\ ModuleInits => MemoryInv'
  <1> SUFFICES ASSUME StepInv, ModuleInits PROVE MemoryInv'
    OBVIOUS
  <1>1. /\ phase = "init" /\ at <= Len(handles)
        /\ UNCHANGED <<phase, modFile, handles, file, loads, check, error, current,
                       outcome, log, lost, wild>>
    BY DEF ModuleInits
  <1>2. \A m \in DOMAIN Modules :
          LET t == Modules[m] IN DOMAIN t = 1 .. Len(t) /\ Len(t) \in Nat
    BY ModuleTables DEF IsModuleTable
  <1>3. \A m \in DOMAIN Modules :
          /\ IsSeq(Zeroed(Modules[m])) /\ Len(Zeroed(Modules[m])) = Len(Modules[m])
          /\ AllUnset(Zeroed(Modules[m]), Modules[m])
    BY <1>2, ZeroedFacts, ZeroedUnset
  <1>4. /\ IsSeq(<<Garbage>>) /\ Len(<<Garbage>>) = Len(DummyCfe)
        /\ AllUnset(<<Garbage>>, DummyCfe)
    <2>1. Len(DummyCfe) = 1 /\ DummyCfe[1].type = "string"
      BY Tables, ModuleNamed, ModuleStrings DEF IsTable
    <2>2. IsSeq(<<Garbage>>) /\ Len(<<Garbage>>) = 1 /\ <<Garbage>>[1] = Garbage
      BY SingleIsSeq
    <2>3. QED
      BY <2>1, <2>2 DEF AllUnset, Unset, OfDummy
  <1>5. CASE lda_init
    BY <1>1, <1>3, <1>5, ModuleNamed, ModuleInitHolds DEF lda_init
  <1>6. CASE maildrop_init
    BY <1>1, <1>3, <1>6, ModuleNamed, ModuleInitHolds DEF maildrop_init
  <1>7. CASE gzip_init
    BY <1>1, <1>3, <1>7, ModuleNamed, ModuleInitHolds DEF gzip_init
  <1>8. CASE enczip_init
    BY <1>1, <1>3, <1>8, ModuleNamed, ModuleInitHolds DEF enczip_init
  <1>9. CASE dummy_init
    <2> DEFINE names == {Obj(new, what, at, 0) : what \in CopiedNames}
    <2>1. PICK fill \in {Zeroed(DummyCfe), <<Garbage>>} :
            ModuleInit("dummy", DummyCfe, fill, names)
      BY <1>9, Zenon DEF dummy_init
    <2>2. IsSeq(fill) /\ Len(fill) = Len(DummyCfe) /\ AllUnset(fill, DummyCfe)
      BY <1>3, <1>4, ModuleNamed
    <2>3. \A o \in names : o[2] \in CopiedNames
      BY ObjIs
    <2> HIDE DEF names
    <2>4. QED
      BY <1>1, <2>1, <2>2, <2>3, ModuleNamed, ModuleInitHolds
  <1>10. QED
    BY <1>5, <1>6, <1>7, <1>8, <1>9 DEF ModuleInits

LEMMA MemoryBound == StepInv /\ ModulesBound => MemoryInv'
  <1> SUFFICES ASSUME StepInv, ModulesBound PROVE MemoryInv'
    OBVIOUS
  <1> DEFINE e == [l \in Lists |-> set_dlsymbol(new.exec[l])]
             d == [new EXCEPT !.exec = e, !.resolved = TRUE]
             k == Len(handles)
  <1>0. StructInv /\ SettingsInv /\ MemoryInv /\ ReadInv
    BY DEF StepInv, SettingsInv
  <1>1. /\ phase = "init" /\ at > k /\ new' = d /\ phase' = "read"
        /\ UNCHANGED <<modFile, handles, file, loads, cfe, check, error, current,
                       outcome, log, heap, lost, wild>>
    BY DEF ModulesBound
  <1>2. k \in Nat /\ IsSeq(handles) /\ at \in Nat \ {0}
    BY <1>0, IsSeqFacts DEF StructInv, Basics
  <1>3. /\ Shaped(new) /\ Laid(handles, new, cfe, k) /\ Listed(handles, new, k)
        /\ AllUnset(new.data, cfe) /\ check = {}
    <2>1. at - 1 = k
      BY <1>0, <1>1, <1>2 DEF StructInv, BuildInv
    <2>2. QED
      BY <1>0, <1>1, <2>1 DEF StructInv, BuildInv, Loading, ReadInv
  <1> HIDE DEF e
  <1>4. /\ d.exec = e /\ d.data = new.data /\ d.excf = new.excf /\ d.load = new.load
    <2>1. Relisted(d, new, e, TRUE)
      BY <1>3, ListsReplaced, Zenon
    <2>2. QED
      BY <2>1, Zenon DEF Relisted
  <1>5. Unconverted(new, d)
    BY <1>3 DEF Shaped, ConfigFields, Unconverted
  <1> HIDE DEF d, k
  <1>6. \A l \in Lists : DOMAIN e[l] = DOMAIN new.exec[l]
                         /\ \A i \in DOMAIN e[l] : e[l][i].node = new.exec[l][i].node
    <2> TAKE l \in Lists
    <2>1. ListOf(handles, new.exec[l], k) /\ e[l] = set_dlsymbol(new.exec[l])
      BY <1>3 DEF Listed, e
    <2>2. \A i \in DOMAIN new.exec[l] : Node(new.exec[l][i])
      BY <2>1, IsSeqFacts DEF ListOf
    <2> DEFINE s == new.exec[l]
    <2>3. \A i \in DOMAIN s : Node(s[i])
      BY <2>2
    <2> HIDE DEF s
    <2>4. DOMAIN set_dlsymbol(s) = DOMAIN s
          /\ \A i \in DOMAIN s : set_dlsymbol(s)[i].node = s[i].node
      <3>1. \A x, w : Node(x) => [x EXCEPT !.bound = w].node = x.node
        BY DEF Node
      <3>2. QED
        BY <2>3, <3>1 DEF set_dlsymbol
    <2>5. QED
      BY <2>1, <2>4 DEF s
  <1>7. \A w, n, l : Obj(d, w, n, l) = Obj(new, w, n, l)
    BY <1>4 DEF Obj
  <1>8. Nodes(d) = Nodes(new)
    <2> DEFINE Of(x, l) == {Obj(x, l, x.exec[l][i].node, 0) : i \in DOMAIN x.exec[l]}
               Extra(x) == {Obj(x, "excf", x.excf[i].node, 0) : i \in DOMAIN x.excf}
    <2>1. \A l \in Lists : Of(d, l) = Of(new, l)
      BY <1>4, <1>6, <1>7
    <2>2. Extra(d) = Extra(new)
      BY <1>4, <1>7
    <2>3. \A x : Nodes(x) = Extra(x) \cup UNION {Of(x, l) : l \in Lists}
      BY DEF Nodes
    <2> HIDE DEF Of, Extra
    <2>4. UNION {Of(d, l) : l \in Lists} = UNION {Of(new, l) : l \in Lists}
      BY <2>1
    <2>5. QED
      BY <2>2, <2>3, <2>4
  <1>9. Converted(d) = Converted(new)
    BY <1>4, <1>5, UnconvertedHolds
  <1>10. TextsOf(d, cfe) = TextsOf(new, cfe)
    BY <1>4, <1>7 DEF TextsOf
  <1>11. Holding(d, cfe) = Holding(new, cfe)
    BY <1>7, <1>8, <1>9, <1>10 DEF Holding
  <1>12. HeapInv'
    <2>1. Holding(new, cfe)' = Holding(d, cfe) /\ Converted(new)' = Converted(d)
      BY <1>1 DEF Holding, Converted, TextsOf, Nodes, Obj
    <2>2. InUse' = InUse
      BY <1>1, SameUse
    <2>3. QED
      BY <1>0, <1>1, <1>9, <1>11, <2>1, <2>2 DEF MemoryInv, HeapInv, Loading
  <1>13. LoadsInv'
    BY <1>0, <1>1, <1>4 DEF MemoryInv, LoadsInv, Loading
  <1>14. FieldsInv'
    <2>1. Garbled(new) => HasDummy
      BY <1>2, <1>3, OnlyDummyGarbles DEF k
    <2>2. Garbled(new)' <=> Garbled(new)
      BY <1>1, <1>4 DEF Garbled
    <2>3. Unread(check, cfe, new.data)
      BY <1>3, UnsetHasNoTexts
    <2>4. QED
      BY <1>1, <1>4, <2>1, <2>2, <2>3 DEF FieldsInv, HasDummy, Unread
  <1>15. OnceInv' /\ WildInv'
    BY <1>0, <1>1, SameOnce, SameWild DEF MemoryInv
  <1>16. QED
    BY <1>12, <1>13, <1>14, <1>15 DEF MemoryInv

(***************************************************************************)
(* The lines and the end of the file.                                      *)
(***************************************************************************)
\* What a step of read_config keeps.
ReadsOn ==
  /\ phase = "read" /\ phase' \in {"read", "checks"}
  /\ Same(new, new') /\ Unconverted(new, new')
  /\ UNCHANGED <<handles, loads, cfe, current, wild>>

LEMMA MemoryReadsOn ==
  ASSUME StepInv, ReadsOn,
         Books(heap', lost', InUse \cup Holding(new', cfe)),
         phase' = "read" => Unread(check', cfe, (new').data),
         Garbled(new') => Garbled(new)
  PROVE  MemoryInv'
  <1>0. StructInv /\ MemoryInv
    BY DEF StepInv
  <1>1. /\ (new').load = new.load /\ phase = "read" /\ phase' \in {"read", "checks"}
        /\ UNCHANGED <<handles, loads, cfe, current, wild>>
    BY DEF ReadsOn, Same
  <1>2. Converted(new') = Converted(new) /\ Converted(new) = {}
    BY <1>0, <1>1, UnconvertedHolds DEF ReadsOn, MemoryInv, HeapInv, Loading
  <1>3. HeapInv'
    <2>1. Holding(new, cfe)' = Holding(new', cfe) /\ Converted(new)' = Converted(new')
      BY <1>1 DEF Holding, Converted, TextsOf, Nodes, Obj
    <2>2. InUse' = InUse
      BY <1>1, SameUse
    <2>3. QED
      BY <1>1, <1>2, <2>1, <2>2 DEF HeapInv
  <1>4. LoadsInv'
    BY <1>0, <1>1 DEF MemoryInv, LoadsInv, Loading
  <1>5. FieldsInv'
    <2>1. Garbled(new)' <=> Garbled(new')
      BY DEF Garbled
    <2>2. Garbled(new) => HasDummy
      BY <1>0, <1>1 DEF MemoryInv, FieldsInv
    <2>3. QED
      BY <1>1, <2>1, <2>2 DEF FieldsInv, HasDummy, Unread
  <1>6. OnceInv' /\ WildInv'
    BY <1>0, <1>1, SameOnce, SameWild DEF MemoryInv
  <1>7. QED
    BY <1>3, <1>4, <1>5, <1>6 DEF MemoryInv

LEMMA ReadHolds ==
  ASSUME StepInv, phase = "read"
  PROVE  /\ Books(heap, lost, InUse \cup Holding(new, cfe)) /\ Converted(new) = {}
         /\ Unread(check, cfe, new.data) /\ Shaped(new)
         /\ Laid(handles, new, cfe, Len(handles)) /\ Len(handles) \in Nat
         /\ IsSeq(cfe) /\ Len(cfe) \in Nat /\ Len(cfe) = Len(new.data)
         /\ \A j \in 1 .. Len(cfe) : cfe[j].off = j
  <1>1. /\ Books(heap, lost, InUse \cup Holding(new, cfe)) /\ Converted(new) = {}
        /\ Unread(check, cfe, new.data) /\ Shaped(new)
        /\ Laid(handles, new, cfe, Len(handles)) /\ IsSeq(handles)
    BY DEF StepInv, MemoryInv, HeapInv, FieldsInv, Loading, StructInv, BuildInv, Basics
  <1>2. QED
    BY <1>1, IsSeqFacts DEF Laid

LEMMA SameReads == Same(new, new) /\ Unconverted(new, new)
  BY DEF Same, Unconverted

LEMMA MemoryNoEntry == StepInv /\ (LineIgnored \/ LineUnknown) => MemoryInv'
  <1> SUFFICES ASSUME StepInv, LineIgnored \/ LineUnknown PROVE MemoryInv'
    OBVIOUS
  <1>1. /\ phase = "read"
        /\ UNCHANGED <<phase, handles, loads, cfe, new, check, current, heap, lost, wild>>
    BY DEF LineIgnored, LineUnknown, Reading
  <1>2. ReadsOn
    BY <1>1, SameReads DEF ReadsOn
  <1>3. QED
    BY <1>1, <1>2, ReadHolds, MemoryReadsOn

LEMMA FieldUnconverted ==
  ASSUME NEW c, Shaped(c), NEW i \in DOMAIN c.data, NEW v
  PROVE  Unconverted(c, [c EXCEPT !.data[i] = v])
  BY DEF Shaped, ConfigFields, Unconverted

\* The entry of a line, and what the line makes of its field.
LEMMA LineEntry ==
  ASSUME StepInv, Reading, EntryOf(Line) # 0, NEW v
  PROVE  LET i == EntryOf(Line)
             d == [new EXCEPT !.data[cfe[i].off] = v]
         IN  /\ i \in 1 .. Len(cfe) /\ cfe[i].off = i
             /\ FieldIs(d, new, i, v) /\ Unconverted(new, d)
  <1> DEFINE i == EntryOf(Line)
  <1>1. phase = "read"
    BY DEF Reading
  <1>2. /\ IsSeq(cfe) /\ Len(cfe) \in Nat /\ Len(cfe) = Len(new.data) /\ Shaped(new)
        /\ \A j \in 1 .. Len(cfe) : cfe[j].off = j
    BY <1>1, ReadHolds
  <1>3. i \in 0 .. Len(cfe)
    BY <1>2, EntryFacts
  <1>4. i \in 1 .. Len(cfe) /\ cfe[i].off = i /\ DOMAIN new.data = 1 .. Len(cfe)
    BY <1>2, <1>3, IsSeqFacts, SMTT(30) DEF Shaped
  <1> HIDE DEF i
  <1>5. FieldIs([new EXCEPT !.data[i] = v], new, i, v) /\ Unconverted(new, [new EXCEPT !.data[i] = v])
    BY <1>2, <1>4, FieldSet, FieldUnconverted
  <1>6. QED
    BY <1>4, <1>5 DEF i

LEMMA MemoryInteger == StepInv /\ IntegerLine => MemoryInv'
  <1> SUFFICES ASSUME StepInv, IntegerLine PROVE MemoryInv'
    OBVIOUS
  <1> DEFINE i == EntryOf(Line)
             d == new'
             v == Line.num % UINT
  <1>1. /\ Reading /\ i # 0 /\ cfe[i].type = "integer" /\ check' = check \cup {i}
        /\ d = new \/ d = [new EXCEPT !.data[cfe[i].off] = v]
        /\ UNCHANGED <<phase, handles, loads, cfe, current, heap, lost, wild>>
    BY DEF IntegerLine
  <1>2. phase = "read" /\ i \in 1 .. Len(cfe)
    BY <1>1, LineEntry DEF Reading
  <1>3. /\ Books(heap, lost, InUse \cup Holding(new, cfe)) /\ Unread(check, cfe, new.data)
        /\ Laid(handles, new, cfe, Len(handles)) /\ Len(handles) \in Nat
        /\ Len(cfe) \in Nat /\ Len(cfe) = Len(new.data)
    BY <1>2, ReadHolds
  <1>4. /\ Same(new, d) /\ Unconverted(new, d) /\ Len(d.data) = Len(new.data)
        /\ \A j \in 1 .. Len(cfe) : j # i => d.data[j] = new.data[j]
    <2>1. CASE d = new
      BY <2>1, SameReads
    <2>2. CASE d = [new EXCEPT !.data[cfe[i].off] = v]
      <3>1. FieldIs(d, new, i, v) /\ Unconverted(new, d)
        BY <1>1, <2>2, LineEntry
      <3>2. QED
        BY <1>3, <3>1 DEF FieldIs, Replaced
    <2>3. QED
      BY <1>1, <2>1, <2>2
  <1> HIDE DEF d, i, v
  <1>5. \A j \in 1 .. Len(cfe) : cfe[j].type = "string" => d.data[j] = new.data[j]
    BY <1>1, <1>4
  <1>6. Holding(d, cfe) = Holding(new, cfe)
    <2>1. Nodes(d) = Nodes(new) /\ \A w, n, l : Obj(d, w, n, l) = Obj(new, w, n, l)
      BY <1>4, SameHolding
    <2>2. Converted(d) = Converted(new)
      BY <1>4, UnconvertedHolds DEF Same
    <2>3. TextsOf(d, cfe) = TextsOf(new, cfe)
      BY <1>5, <2>1 DEF TextsOf
    <2>4. QED
      BY <2>1, <2>2, <2>3 DEF Holding
  <1>7. Unread(check', cfe, d.data)
    BY <1>1, <1>3, <1>5 DEF Unread
  <1>8. Garbled(d) => Garbled(new)
    <2>1. \A n \in 24 .. Len(cfe) : cfe[n].type = "string" /\ n \in 1 .. Len(cfe)
      BY <1>3, StringsAbove
    <2>2. QED
      BY <1>3, <1>4, <1>5, <2>1 DEF Garbled
  <1>9. ReadsOn
    BY <1>1, <1>2, <1>4 DEF ReadsOn, d
  <1>10. QED
    BY <1>1, <1>3, <1>6, <1>7, <1>8, <1>9, MemoryReadsOn DEF d

LEMMA MemoryString == StepInv /\ StringLine => MemoryInv'
  <1> SUFFICES ASSUME StepInv, StringLine PROVE MemoryInv'
    OBVIOUS
  <1> DEFINE i == EntryOf(Line)
             d == new'
             v == [text |-> Line.text, line |-> at]
             x == Obj(new, "string", i, at)
  <1>1. /\ Reading /\ i # 0 /\ cfe[i].type = "string" /\ check' = check \cup {i}
        /\ Line.kind = "setting"
        /\ UNCHANGED <<phase, handles, loads, cfe, current, wild>>
    BY DEF StringLine
  <1>2. phase = "read" /\ i \in 1 .. Len(cfe) /\ cfe[i].off = i
    BY <1>1, LineEntry DEF Reading
  <1>3. /\ Books(heap, lost, InUse \cup Holding(new, cfe)) /\ Unread(check, cfe, new.data)
        /\ Laid(handles, new, cfe, Len(handles)) /\ Len(handles) \in Nat
        /\ Len(cfe) \in Nat /\ Len(cfe) = Len(new.data)
    BY <1>2, ReadHolds
  <1>4. \/ UNCHANGED <<new, heap, lost>>
        \/ /\ d = [new EXCEPT !.data[cfe[i].off] = v] /\ heap' = heap \cup {x}
           /\ lost' = lost \cup Strings(new, {i})
    BY <1>2 DEF StringLine, Store
  <1>5. CASE UNCHANGED <<new, heap, lost>>
    <2>1. ReadsOn
      BY <1>1, <1>2, <1>5, SameReads DEF ReadsOn
    <2>2. Unread(check', cfe, new.data)
      BY <1>1, <1>3 DEF Unread
    <2>3. QED
      BY <1>1, <1>3, <1>5, <2>1, <2>2, MemoryReadsOn
  <1>6. CASE /\ d = [new EXCEPT !.data[cfe[i].off] = v] /\ heap' = heap \cup {x}
             /\ lost' = lost \cup Strings(new, {i})
    <2>1. FieldIs(d, new, i, v) /\ Unconverted(new, d)
      BY <1>1, <1>6, LineEntry
    <2>2. /\ Same(new, d) /\ Len(d.data) = Len(new.data) /\ d.data[i] = v
          /\ \A j \in 1 .. Len(cfe) : j # i => d.data[j] = new.data[j]
      BY <1>3, <2>1 DEF FieldIs, Replaced
    <2>3. v \notin {NULL, Garbage} /\ v.line = at
      <3>1. at \in Nat /\ Line.text \in Seq(STRING)
        <4>1. file \in Files /\ at \in 1 .. Len(file) /\ at \in Nat /\ Line = file[at]
          BY <1>1, ReadingFacts DEF StepInv, SettingsInv
        <4>2. QED
          BY <1>1, <4>1, LineFacts
      <3>2. v \in [text : Texts, line : Nat]
        BY <3>1 DEF Texts
      <3>3. QED
        BY <3>2, NullAssumption
    <2> HIDE DEF d, i, v
    <2>4. Nodes(d) = Nodes(new) /\ \A w, n, l : Obj(d, w, n, l) = Obj(new, w, n, l)
      BY <2>2, SameHolding
    <2>5. Converted(d) = Converted(new)
      BY <2>1, <2>2, UnconvertedHolds DEF Same
    <2>6. TextsOf(d, cfe) \subseteq TextsOf(new, cfe) \cup {x}
      <3> SUFFICES ASSUME NEW n \in 1 .. Len(cfe), cfe[n].type = "string",
                          d.data[n] \notin {NULL, Garbage}
                   PROVE  Obj(d, "string", n, d.data[n].line) \in TextsOf(new, cfe) \cup {x}
        BY DEF TextsOf
      <3>1. CASE n = i
        BY <2>2, <2>3, <2>4, <3>1
      <3>2. CASE n # i
        BY <2>2, <2>4, <3>2 DEF TextsOf
      <3>3. QED
        BY <3>1, <3>2
    <2>7. x \in TextsOf(d, cfe)
      BY <1>1, <1>2, <2>2, <2>3, <2>4 DEF TextsOf
    <2>8. TextsOf(new, cfe) \subseteq TextsOf(d, cfe) \cup Strings(new, {i})
      <3> SUFFICES ASSUME NEW n \in 1 .. Len(cfe), cfe[n].type = "string",
                          new.data[n] \notin {NULL, Garbage}
                   PROVE  Obj(new, "string", n, new.data[n].line)
                            \in TextsOf(d, cfe) \cup Strings(new, {i})
        BY DEF TextsOf
      <3>1. CASE n = i
        BY <3>1 DEF Strings
      <3>2. CASE n # i
        BY <2>2, <2>4, <3>2 DEF TextsOf
      <3>3. QED
        BY <3>1, <3>2
    <2> HIDE DEF x
    <2>9. /\ x \in Holding(d, cfe) /\ Holding(d, cfe) \subseteq Holding(new, cfe) \cup {x}
          /\ Holding(new, cfe) \subseteq Holding(d, cfe) \cup Strings(new, {i})
      BY <2>4, <2>5, <2>6, <2>7, <2>8 DEF Holding
    <2>10. Books(heap', lost', InUse \cup Holding(d, cfe))
      BY <1>3, <1>6, <2>9, BooksSwapped
    <2>11. Unread(check', cfe, d.data)
      BY <1>1, <1>3, <2>2 DEF Unread
    <2>12. Garbled(d) => Garbled(new)
      <3>1. \A n \in 24 .. Len(cfe) : d.data[n] = Garbage => new.data[n] = Garbage
        <4>1. \A n \in 24 .. Len(cfe) : n \in 1 .. Len(cfe)
          BY <1>3
        <4>2. QED
          BY <2>2, <2>3, <4>1
      <3>2. QED
        BY <1>3, <2>2, <3>1 DEF Garbled
    <2>13. ReadsOn
      BY <1>1, <1>2, <2>1, <2>2 DEF ReadsOn, d
    <2>14. QED
      BY <2>10, <2>11, <2>12, <2>13, MemoryReadsOn DEF d
  <1>7. QED
    BY <1>4, <1>5, <1>6

LEMMA MemoryReadEnds == StepInv /\ ReadEnds => MemoryInv'
  <1> SUFFICES ASSUME StepInv, ReadEnds PROVE MemoryInv'
    OBVIOUS
  <1> DEFINE d == new'
             given == {Obj(new, "string", cfe[i].off, 0) :
                         i \in {k \in Defaulted : cfe[k].type = "string"}}
  <1>1. /\ Same(new, d) /\ d.data = WithDefaults(new.data) /\ phase = "read"
        /\ phase' = "checks" /\ UNCHANGED <<handles, loads, cfe, check, current, lost, wild>>
    BY ReadEndsFacts DEF StepInv
  <1>2. heap' = heap \cup given
    BY Zenon DEF ReadEnds, Defaulted
  <1>3. /\ Books(heap, lost, InUse \cup Holding(new, cfe)) /\ Unread(check, cfe, new.data)
        /\ Laid(handles, new, cfe, Len(handles)) /\ Len(handles) \in Nat /\ Shaped(new)
        /\ IsSeq(cfe) /\ Len(cfe) \in Nat /\ Len(cfe) = Len(new.data)
        /\ \A j \in 1 .. Len(cfe) : cfe[j].off = j
    BY <1>1, ReadHolds
  <1>4. Unconverted(new, d)
    <2>1. d = [new EXCEPT !.data = WithDefaults(new.data)]
      BY Zenon DEF ReadEnds, WithDefaults, Defaulted, FieldsOf
    <2> DEFINE w == WithDefaults(new.data)
    <2> HIDE DEF w
    <2>2. Unconverted(new, [new EXCEPT !.data = w])
      BY <1>3 DEF Shaped, ConfigFields, Unconverted
    <2>3. QED
      BY <2>1, <2>2 DEF w
  <1>5. /\ Len(d.data) = Len(cfe)
        /\ \A j \in 1 .. Len(cfe) :
             d.data[j] = IF j \notin check /\ cfe[j].default # NULL
                         THEN DefaultOf(cfe[j]) ELSE new.data[j]
    <2> DEFINE w == WithDefaults(new.data)
    <2>1. IsSeq(new.data)
      BY <1>3 DEF Shaped
    <2>2. /\ Len(w) = Len(cfe)
          /\ \A j \in 1 .. Len(cfe) :
               w[j] = IF j \notin check /\ cfe[j].default # NULL
                      THEN DefaultOf(cfe[j]) ELSE new.data[j]
      BY <1>3, <2>1, DefaultsGiven
    <2> HIDE DEF w
    <2>3. d.data = w
      BY <1>1 DEF w
    <2>4. QED
      BY <2>2, <2>3
  <1>6. DOMAIN cfe = 1 .. Len(cfe)
    BY <1>3, IsSeqFacts
  <1>7. ASSUME NEW j \in 1 .. Len(cfe), cfe[j].type = "string"
        PROVE  DefaultOf(cfe[j]) \notin {NULL, Garbage} /\ DefaultOf(cfe[j]).line = 0
    <2>1. cfe[j].default \in Texts
      BY <1>3, <1>7, EntryKinds
    <2>2. DefaultOf(cfe[j]) = [text |-> cfe[j].default, line |-> 0]
      BY <1>7 DEF DefaultOf
    <2>3. DefaultOf(cfe[j]) \in [text : Texts, line : Nat]
      BY <2>1, <2>2
    <2>4. QED
      BY <2>2, <2>3, NullAssumption
  <1>8. Defaulted = {j \in 1 .. Len(cfe) : j \notin check /\ cfe[j].default # NULL}
    BY <1>6 DEF Defaulted, Missing
  <1>9. given = {Obj(new, "string", j, 0) : j \in {k \in Defaulted : cfe[k].type = "string"}}
    BY <1>3, <1>8
  <1> HIDE DEF d, given
  <1>10. Nodes(d) = Nodes(new) /\ \A w, n, l : Obj(d, w, n, l) = Obj(new, w, n, l)
    BY <1>1, SameHolding
  <1>11. Converted(d) = Converted(new)
    BY <1>1, <1>4, UnconvertedHolds DEF Same
  <1>12. TextsOf(d, cfe) \subseteq TextsOf(new, cfe) \cup given
    <2> SUFFICES ASSUME NEW n \in 1 .. Len(cfe), cfe[n].type = "string",
                        d.data[n] \notin {NULL, Garbage}
                 PROVE  Obj(d, "string", n, d.data[n].line) \in TextsOf(new, cfe) \cup given
      BY DEF TextsOf
    <2>1. CASE n \in Defaulted
      <3>1. d.data[n] = DefaultOf(cfe[n])
        BY <1>5, <1>8, <2>1
      <3>2. d.data[n].line = 0
        BY <1>7, <3>1
      <3>3. QED
        BY <1>9, <1>10, <2>1, <3>2
    <2>2. CASE n \notin Defaulted
      <3>1. d.data[n] = new.data[n]
        BY <1>5, <1>8, <2>2
      <3>2. QED
        BY <1>10, <3>1 DEF TextsOf
    <2>3. QED
      BY <2>1, <2>2
  <1>13. given \subseteq TextsOf(d, cfe)
    <2> SUFFICES ASSUME NEW n \in Defaulted, cfe[n].type = "string"
                 PROVE  Obj(new, "string", n, 0) \in TextsOf(d, cfe)
      BY <1>9
    <2>1. n \in 1 .. Len(cfe) /\ d.data[n] = DefaultOf(cfe[n])
      BY <1>5, <1>8
    <2>2. d.data[n] \notin {NULL, Garbage} /\ d.data[n].line = 0
      BY <1>7, <2>1
    <2>3. QED
      BY <1>10, <2>1, <2>2 DEF TextsOf
  <1>14. TextsOf(new, cfe) \subseteq TextsOf(d, cfe)
    <2> SUFFICES ASSUME NEW n \in 1 .. Len(cfe), cfe[n].type = "string",
                        new.data[n] \notin {NULL, Garbage}
                 PROVE  Obj(new, "string", n, new.data[n].line) \in TextsOf(d, cfe)
      BY DEF TextsOf
    <2>1. n \in check
      BY <1>3 DEF Unread
    <2>2. d.data[n] = new.data[n]
      BY <1>5, <2>1
    <2>3. QED
      BY <1>10, <2>2 DEF TextsOf
  <1>15. Holding(d, cfe) = Holding(new, cfe) \cup given
    <2>1. TextsOf(d, cfe) = TextsOf(new, cfe) \cup given
      BY <1>12, <1>13, <1>14
    <2>2. QED
      BY <1>10, <1>11, <2>1 DEF Holding
  <1>16. Books(heap', lost', InUse \cup Holding(d, cfe))
    <2>1. Books((heap \cup {}) \cup given, lost, InUse \cup (Holding(new, cfe) \cup given))
      BY <1>3, BooksMore
    <2>2. (heap \cup {}) \cup given = heap'
      BY <1>2
    <2>3. QED
      BY <1>1, <1>15, <2>1, <2>2
  <1>17. Garbled(d) => Garbled(new)
    <2> SUFFICES ASSUME NEW n \in 24 .. Len(cfe), d.data[n] = Garbage
                 PROVE  new.data[n] = Garbage
      BY <1>3, <1>5 DEF Garbled
    <2>1. n \in 1 .. Len(cfe) /\ cfe[n].type = "string"
      BY <1>3, StringsAbove
    <2>2. DefaultOf(cfe[n]) # Garbage
      BY <1>7, <2>1
    <2>3. QED
      BY <1>5, <2>1, <2>2
  <1>18. ReadsOn
    BY <1>1, <1>4 DEF ReadsOn, d
  <1>19. QED
    BY <1>1, <1>16, <1>17, <1>18, MemoryReadsOn DEF d

(***************************************************************************)
(* A load that fails.                                                      *)
(***************************************************************************)
\* The two configurations hold different memory.
LEMMA LoadsApart ==
  ASSUME StepInv, Loading
  PROVE  \A o \in InUse : o \notin Holding(new, cfe)
  <1>1. CASE current = NoConfig
    BY <1>1 DEF InUse
  <1>2. CASE current # NoConfig
    <2>1. new.load = loads /\ current.load < loads
      BY <1>2 DEF StepInv, MemoryInv, LoadsInv
    <2>2. current.load \in Nat /\ loads \in Nat
      BY <1>2 DEF StepInv, StructInv, UseInv, Shaped, Basics
    <2>3. current.load # new.load
      BY <2>1, <2>2
    <2>4. QED
      BY <1>2, <2>3, FreedNamed DEF InUse
  <1>3. QED
    BY <1>1, <1>2

\* After a load that has failed the old configuration is in use, if there is one.
LEMMA MemoryFails ==
  ASSUME StepInv, phase \in {"starting", "running", "init", "read", "checks"},
         NEW why, LoadFails(why), UNCHANGED <<handles, current>>,
         loads' \in Nat, loads <= loads',
         current # NoConfig => Books(heap', lost', InUse),
         wild' => Explained
  PROVE  MemoryInv'
  <1>0. StructInv /\ MemoryInv
    BY DEF StepInv
  <1>1. phase' = IF current = NoConfig THEN "stopped" ELSE "running"
    BY DEF LoadFails
  <1>2. InUse' = InUse /\ Explained' = Explained
    BY SameUse
  <1>3. HeapInv'
    BY <1>1, <1>2 DEF HeapInv, Loading
  <1>4. LoadsInv'
    <2>1. ASSUME current # NoConfig PROVE current.load <= loads'
      <3>1. current.load <= loads /\ current.load \in Nat /\ loads \in Nat
        BY <1>0, <2>1 DEF MemoryInv, LoadsInv, StructInv, UseInv, Shaped, Basics
      <3>2. QED
        BY <3>1
    <2>2. QED
      BY <1>1, <2>1 DEF LoadsInv, Loading
  <1>5. FieldsInv' /\ OnceInv'
    BY <1>0, <1>1, SameOnce DEF FieldsInv, MemoryInv
  <1>6. WildInv'
    BY <1>1, <1>2 DEF WildInv
  <1>7. QED
    BY <1>3, <1>4, <1>5, <1>6 DEF MemoryInv

LEMMA WildSoFar ==
  ASSUME StepInv, phase \in {"starting", "running", "init", "read", "checks"}
  PROVE  wild => Explained
  BY DEF StepInv, MemoryInv, WildInv

(* read_config or a check has refused the file: free_config and the copy   *)
(* of the table.                                                           *)
LEMMA MemoryRefused ==
  ASSUME StepInv, phase \in {"read", "checks"}, NEW why, LoadFails(why),
         heap' = (heap \ Freed(new)) \ {Obj(new, "cfe", 0, 0)},
         wild' = (wild \/ FreesWildly(new)),
         UNCHANGED <<handles, current, loads, lost>>
  PROVE  MemoryInv'
  <1>1. /\ Laid(handles, new, cfe, Len(handles)) /\ IsSeq(handles) /\ Loading
        /\ Books(heap, lost, InUse \cup Holding(new, cfe)) /\ loads \in Nat
        /\ Garbled(new) => HasDummy
    BY DEF StepInv, StructInv, BuildInv, Basics, Loading, MemoryInv, HeapInv, FieldsInv
  <1>2. FreesWildly(new) => Explained
    BY <1>1, WildlyExplained
  <1>3. wild' => Explained
    BY <1>2, WildSoFar
  <1>4. ASSUME current # NoConfig PROVE Books(heap', lost', InUse)
    <2>1. ~Twice(handles)
      BY <1>4 DEF StepInv, MemoryInv, OnceInv
    <2>2. Holding(new, cfe) = Freed(new) \cup {Obj(new, "cfe", 0, 0)}
      BY <1>1, <2>1, FreedIs
    <2>3. \A o \in InUse : o \notin Holding(new, cfe)
      BY <1>1, LoadsApart
    <2> DEFINE B == Holding(new, cfe)
               F == Freed(new)
               x == Obj(new, "cfe", 0, 0)
    <2> HIDE DEF B, F, x
    <2>4. Books((heap \ F) \ {x}, lost, InUse)
      BY <1>1, <2>2, <2>3, BooksClosed DEF B, F, x
    <2>5. QED
      BY <2>4 DEF F, x
  <1>5. loads <= loads'
    BY <1>1
  <1>6. QED
    BY <1>1, <1>3, <1>4, <1>5, MemoryFails

LEMMA MemoryRefusals ==
  StepInv /\ (FileUnreadable \/ ReadOutOfMemory \/ LineUnterminated \/ Rejected) => MemoryInv'
  <1> SUFFICES ASSUME StepInv PROVE
        /\ FileUnreadable => MemoryInv'
        /\ ReadOutOfMemory => MemoryInv'
        /\ LineUnterminated => MemoryInv'
        /\ Rejected => MemoryInv'
    OBVIOUS
  <1>1. FileUnreadable => MemoryInv'
    BY MemoryRefused DEF FileUnreadable
  <1>2. ReadOutOfMemory => MemoryInv'
    BY MemoryRefused DEF ReadOutOfMemory, Reading
  <1>3. LineUnterminated => MemoryInv'
    BY MemoryRefused DEF LineUnterminated, Reading, Refuse
  <1>4. Rejected => MemoryInv'
    BY MemoryRefused DEF Rejected, Refuse
  <1>5. QED
    BY <1>1, <1>2, <1>3, <1>4

(* msy_module_init has failed: the nodes of the lists are lost.            *)
LEMMA MemoryAbandoned ==
  ASSUME StepInv, phase = "init", NEW why, LoadFails(why), NEW left, Abandon(left)
  PROVE  MemoryInv'
  <1> DEFINE E == {Obj(new, "config", 0, 0), Obj(new, "cfe", 0, 0)}
             N == Nodes(new)
  <1>0. /\ heap' = (heap \cup left) \ E /\ lost' = lost \cup left \cup N
        /\ UNCHANGED <<handles, current, loads, wild>>
    BY DEF Abandon
  <1>1. /\ Loading /\ AllUnset(new.data, cfe) /\ loads \in Nat /\ Converted(new) = {}
        /\ Books(heap, lost, InUse \cup Holding(new, cfe))
    BY DEF StepInv, StructInv, Basics, Loading, MemoryInv, HeapInv, SettingsInv, ReadInv
  <1>2. Holding(new, cfe) = N \cup E
    <2>1. TextsOf(new, cfe) = {}
      BY <1>1, UnsetHasNoTexts
    <2> HIDE DEF N, E
    <2>2. Holding(new, cfe) = TextsOf(new, cfe) \cup Converted(new) \cup N \cup E
      BY DEF Holding, N, E
    <2>3. QED
      BY <1>1, <2>1, <2>2
  <1>3. \A o \in InUse : o \notin E
    BY <1>1, <1>2, LoadsApart
  <1> HIDE DEF E, N
  <1>4. Books(heap', lost', InUse)
    BY <1>0, <1>1, <1>2, <1>3, BooksDropped
  <1>5. loads' \in Nat /\ loads <= loads'
    BY <1>0, <1>1
  <1>6. wild' => Explained
    BY <1>0, WildSoFar
  <1>7. QED
    BY <1>0, <1>4, <1>5, <1>6, MemoryFails

LEMMA MemoryAbandons == StepInv /\ (ModuleInitFails \/ ModuleOutOfMemory) => MemoryInv'
  <1> SUFFICES ASSUME StepInv, ModuleInitFails \/ ModuleOutOfMemory PROVE MemoryInv'
    OBVIOUS
  <1>1. phase = "init" /\ \E why : LoadFails(why)
    BY DEF ModuleInitFails, ModuleOutOfMemory
  <1>2. \E left : Abandon(left)
    BY DEF ModuleInitFails, ModuleOutOfMemory
  <1>3. QED
    BY <1>1, <1>2, MemoryAbandoned

LEMMA MemoryNoTable == StepInv /\ LoadOutOfMemory => MemoryInv'
  <1> SUFFICES ASSUME StepInv, LoadOutOfMemory PROVE MemoryInv'
    OBVIOUS
  <1> DEFINE x == <<loads + 1, "config", 0, 0>>
  <1>1. /\ phase \in {"starting", "running"} /\ LoadFails("noMemory")
        /\ loads' = loads + 1 /\ heap' = heap \cup {x} /\ lost' = lost \cup {x}
        /\ UNCHANGED <<handles, current, wild>>
    BY DEF LoadOutOfMemory
  <1>2. loads \in Nat
    BY DEF StepInv, StructInv, Basics
  <1> HIDE DEF x
  <1>3. ASSUME current # NoConfig PROVE Books(heap', lost', InUse)
    <2>1. phase = "running"
      BY <1>1, <1>3 DEF StepInv, StructInv, HandlesInv
    <2>2. Books(heap, lost, InUse)
      BY <2>1 DEF StepInv, MemoryInv, HeapInv
    <2>3. QED
      BY <1>1, <2>2 DEF Books
  <1>4. loads' \in Nat /\ loads <= loads'
    BY <1>1, <1>2
  <1>5. wild' => Explained
    BY <1>1, WildSoFar
  <1>6. QED
    BY <1>1, <1>3, <1>4, <1>5, MemoryFails

LEMMA MemoryExhausts == StepInv /\ MemoryExhausted => MemoryInv'
  <1> SUFFICES ASSUME StepInv, MemoryExhausted PROVE MemoryInv'
    OBVIOUS
  <1>0. StructInv /\ MemoryInv
    BY DEF StepInv
  <1>1. /\ phase \in {"init", "read", "checks"} /\ phase' = "stopped"
        /\ UNCHANGED <<handles, loads, current, lost, wild>>
    BY DEF MemoryExhausted
  <1>2. HeapInv' /\ FieldsInv'
    BY <1>1 DEF HeapInv, FieldsInv, Loading
  <1>3. LoadsInv'
    BY <1>0, <1>1 DEF MemoryInv, LoadsInv, Loading
  <1>4. OnceInv' /\ WildInv'
    BY <1>0, <1>1, SameOnce, SameWild DEF MemoryInv
  <1>5. QED
    BY <1>2, <1>3, <1>4 DEF MemoryInv

(***************************************************************************)
(* A load that succeeds.                                                   *)
(***************************************************************************)
LEMMA ConvertsFreed ==
  ASSUME NEW c, NEW d, Same(c, d), d.data = c.data, Converted(c) = {},
         \A i \in DOMAIN handles : handles[i].name \in DOMAIN Modules
  PROVE  /\ Freed(d) = Freed(c) \cup Converted(d)
         /\ FreesWildly(d) <=> FreesWildly(c)
  <1>1. Nodes(d) = Nodes(c) /\ \A w, n, l : Obj(d, w, n, l) = Obj(c, w, n, l)
    BY SameHolding
  <1>2. \A F : Strings(d, F) = Strings(c, F)
    BY <1>1 DEF Strings
  <1>3. \A name : ExtraFields(d, name) = ExtraFields(c, name)
    BY DEF Same, ExtraFields
  <1>4. \A i \in DOMAIN handles :
          ModuleFree(d, handles[i].name) = ModuleFree(c, handles[i].name)
    BY <1>3, ModuleFreeIs
  <1>5. UNION {Strings(d, ModuleFree(d, handles[i].name)) : i \in DOMAIN handles}
          = UNION {Strings(c, ModuleFree(c, handles[i].name)) : i \in DOMAIN handles}
    BY <1>2, <1>4
  <1>6. Freed(d) = Freed(c) \cup Converted(d)
    <2> DEFINE M(x) == UNION {Strings(x, ModuleFree(x, handles[i].name)) : i \in DOMAIN handles}
    <2>1. \A x : Freed(x) = Strings(x, MainStrings) \cup Converted(x)
                  \cup {Obj(x, "config", 0, 0)} \cup Nodes(x) \cup M(x)
      BY DEF Freed
    <2>2. M(d) = M(c)
      BY <1>5
    <2> HIDE DEF M
    <2>3. QED
      BY <1>1, <1>2, <2>1, <2>2
  <1>7. FreesWildly(d) <=> FreesWildly(c)
    BY <1>2, <1>4 DEF FreesWildly
  <1>8. QED
    BY <1>6, <1>7

LEMMA MemoryInstalled == StepInv /\ Installed => MemoryInv'
  <1> SUFFICES ASSUME StepInv, Installed PROVE MemoryInv'
    OBVIOUS
  <1> DEFINE c == conv_config(new)
             x == Obj(new, "cfe", 0, 0)
  <1>0. StructInv /\ SettingsInv /\ MemoryInv /\ ReadInv
    BY DEF StepInv, SettingsInv
  <1>1. /\ phase = "checks" /\ phase' = "running" /\ current' = c
        /\ ~(error \/ MandatoryMissing(new) \/ PatternRefused(new))
        /\ heap' = ((heap \cup Converted(c)) \ InUse) \ {x}
        /\ wild' = (wild \/ (current # NoConfig /\ FreesWildly(current)))
        /\ UNCHANGED <<handles, loads, lost>>
    <2>1. \A old : Obj(conv_config(new), "cfe", 0, 0) = Obj(conv_config(new), "cfe", 0, 0)
      OBVIOUS
    <2>2. QED
      BY <2>1 DEF Installed, InUse
  <1>2. /\ Laid(handles, new, cfe, Len(handles)) /\ IsSeq(handles) /\ Shaped(new) /\ Loading
        /\ Books(heap, lost, InUse \cup Holding(new, cfe)) /\ Converted(new) = {}
        /\ Garbled(new) => HasDummy
        /\ new.load = loads /\ loads \in Nat
    BY <1>0, <1>1 DEF StructInv, BuildInv, Basics, Loading, MemoryInv, HeapInv, FieldsInv,
                      LoadsInv
  <1>3. Same(new, c) /\ c.data = new.data
    BY <1>2, Converts
  <1> HIDE DEF c
  <1>4. ~Twice(handles)
    BY <1>0, <1>1, TakenIffValid DEF ReadValid, Complete, Twice
  <1>5. Freed(c) = Freed(new) \cup Converted(c) /\ (FreesWildly(c) <=> FreesWildly(new))
    <2>1. \A i \in DOMAIN handles : handles[i].name \in DOMAIN Modules
      BY <1>2, HandleFrees
    <2>2. QED
      BY <1>2, <1>3, <2>1, ConvertsFreed
  <1>6. Holding(new, cfe) = Freed(new) \cup {x}
    BY <1>2, <1>4, FreedIs
  <1>7. /\ c.load = new.load /\ \A o \in Freed(c) : o[1] = new.load /\ o[2] # "cfe"
        /\ x[2] = "cfe"
    BY <1>3, FreedNamed, ObjIs DEF Same
  <1>8. \A o \in InUse : o \notin Freed(c)
    <2>1. CASE current = NoConfig
      BY <2>1 DEF InUse
    <2>2. CASE current # NoConfig
      <3>1. current.load < loads /\ current.load \in Nat
        BY <1>0, <1>2, <2>2 DEF MemoryInv, LoadsInv, StructInv, UseInv, Shaped
      <3>2. \A o \in InUse : o[1] = current.load
        BY <2>2, FreedNamed DEF InUse
      <3>3. QED
        BY <1>2, <1>7, <3>1, <3>2
    <2>3. QED
      BY <2>1, <2>2
  <1>9. Books(((heap \cup Converted(c)) \ InUse) \ {x}, lost, Freed(c))
    <2> DEFINE A == InUse
               B == Holding(new, cfe)
               C == Converted(c)
               F == Freed(c)
    <2>1. x \notin F
      BY <1>7
    <2> HIDE DEF x
    <2>2. F \cup {x} = B \cup C
      BY <1>5, <1>6
    <2>3. Books(heap, lost, A \cup B) /\ \A o \in A : o \notin F
      BY <1>2, <1>8
    <2> HIDE DEF A, B, C, F
    <2>4. Books(((heap \cup C) \ A) \ {x}, lost, F)
      BY <2>1, <2>2, <2>3, BooksTurned
    <2>5. QED
      BY <2>4 DEF A, C, F
  <1>10. c # NoConfig
    BY <1>2, ShapedIsConfig, Converts DEF c
  <1>11. InUse' = Freed(c)
    <2>1. Freed(current)' = Freed(c)
      BY <1>1 DEF Freed
    <2>2. QED
      BY <1>1, <1>10, <2>1 DEF InUse
  <1>12. HeapInv'
    BY <1>1, <1>9, <1>11 DEF HeapInv, Loading
  <1>13. LoadsInv'
    BY <1>1, <1>2, <1>7 DEF LoadsInv, Loading
  <1>14. FieldsInv'
    BY <1>1 DEF FieldsInv
  <1>15. Explained' = Explained
    BY <1>1 DEF Explained, HasDummy
  <1>16. OnceInv'
    <2>1. FreesWildly(new) => Explained
      BY <1>2, WildlyExplained
    <2>2. FreesWildly(current)' <=> FreesWildly(c)
      BY <1>1 DEF FreesWildly
    <2>3. QED
      BY <1>1, <1>4, <1>5, <1>15, <2>1, <2>2 DEF OnceInv
  <1>17. WildInv'
    <2>1. wild => Explained
      BY <1>1, WildSoFar
    <2>2. current # NoConfig /\ FreesWildly(current) => Explained
      BY <1>0 DEF MemoryInv, OnceInv
    <2>3. QED
      BY <1>1, <1>15, <2>1, <2>2 DEF WildInv
  <1>18. QED
    BY <1>12, <1>13, <1>14, <1>16, <1>17 DEF MemoryInv

(***************************************************************************)
(* The theorems.                                                           *)
(***************************************************************************)
LEMMA MemoryStart == Init => MemoryInv
  BY DEF Init, MemoryInv, HeapInv, LoadsInv, FieldsInv, OnceInv, WildInv, Loading

LEMMA MemoryStep == StepInv /\ [Next]_vars => MemoryInv'
  <1> SUFFICES ASSUME StepInv, [Next]_vars PROVE MemoryInv'
    OBVIOUS
  <1>1. CASE ModuleLineSkipped \/ ModuleOpened \/ ModulesRefused \/ ModulesRead
    BY <1>1, MemoryModules
  <1>2. CASE LoadBegins
    BY <1>2, MemoryBegins
  <1>3. CASE ModuleInits
    BY <1>3, MemoryModuleInits
  <1>4. CASE ModulesBound
    BY <1>4, MemoryBound
  <1>5. CASE ModuleInitFails \/ ModuleOutOfMemory
    BY <1>5, MemoryAbandons
  <1>6. CASE LoadOutOfMemory
    BY <1>6, MemoryNoTable
  <1>7. CASE FileUnreadable \/ ReadOutOfMemory \/ LineUnterminated \/ Rejected
    BY <1>7, MemoryRefusals
  <1>8. CASE LineIgnored \/ LineUnknown
    BY <1>8, MemoryNoEntry
  <1>9. CASE IntegerLine
    BY <1>9, MemoryInteger
  <1>10. CASE StringLine
    BY <1>10, MemoryString
  <1>11. CASE ReadEnds
    BY <1>11, MemoryReadEnds
  <1>12. CASE MemoryExhausted
    BY <1>12, MemoryExhausts
  <1>13. CASE Installed
    BY <1>13, MemoryInstalled
  <1>14. CASE UNCHANGED vars
    <2>1. UNCHANGED <<phase, handles, loads, cfe, new, check, current, outcome, heap,
                      lost, wild>>
      BY <1>14 DEF vars
    <2>2. InUse' = InUse /\ Explained' = Explained
      BY <2>1, SameUse
    <2>3. /\ Holding(new, cfe)' = Holding(new, cfe) /\ Converted(new)' = Converted(new)
          /\ (Garbled(new)' <=> Garbled(new))
      BY <2>1 DEF Holding, Converted, TextsOf, Nodes, Obj, Garbled
    <2>4. HeapInv' /\ LoadsInv'
      BY <2>1, <2>2, <2>3 DEF StepInv, MemoryInv, HeapInv, LoadsInv, Loading
    <2>5. FieldsInv'
      BY <2>1, <2>3 DEF StepInv, MemoryInv, FieldsInv, Unread, HasDummy
    <2>6. OnceInv'
      BY <2>1, SameOnce DEF StepInv, MemoryInv
    <2>7. WildInv'
      BY <2>1, <2>2 DEF StepInv, MemoryInv, WildInv
    <2>8. QED
      BY <2>4, <2>5, <2>6, <2>7 DEF MemoryInv
  <1>15. QED
    BY <1>1, <1>2, <1>3, <1>4, <1>5, <1>6, <1>7, <1>8, <1>9, <1>10, <1>11, <1>12, <1>13,
       <1>14, Zenon DEF Next

(* MemoryInv is inductive beside the other two: at every step of every     *)
(* load, what malloc gave belongs to the configuration in use or to the    *)
(* one being built, or is lost for a known reason (init_config, the        *)
(* modules' _init, read_config, free_config).                              *)
THEOREM MemoryInvariant == Spec => []StepInv
  <1>1. Init => StepInv
    BY StructInit, SettingsInit, MemoryStart DEF StepInv
  <1>2. StepInv /\ [Next]_vars => StepInv'
    BY StructStep, ReadStep, CurrentStep, AcceptedStep, MemoryStep DEF StepInv, SettingsInv
  <1>3. QED
    BY <1>1, <1>2, PTL DEF Spec

(* A refused file and a replaced configuration leave nothing behind but    *)
(* what is known to be lost, and free_config frees nothing twice and       *)
(* nothing that is not its own, unless dummy or a module listed twice is   *)
(* loaded or main gave handles back that had been given back               *)
(* (ConfigLoad.MemoryAccounted).                                           *)
THEOREM MemoryAlwaysAccounted == Spec => []MemoryAccounted
  <1>1. StepInv => MemoryAccounted
    <2> SUFFICES ASSUME StepInv PROVE MemoryAccounted
      OBVIOUS
    <2>1. ASSUME phase = "running" PROVE NothingLeaks
      <3>1. current # NoConfig /\ Books(heap, lost, InUse)
        BY <2>1 DEF StepInv, StructInv, UseInv, MemoryInv, HeapInv
      <3>2. Books(heap, lost, Freed(current))
        BY <3>1 DEF InUse
      <3>3. QED
        BY <3>2 DEF Books, NothingLeaks
    <2>2. ASSUME wild PROVE WildExplained
      <3>1. Explained \/ outcome = "noModules"
        BY <2>2 DEF StepInv, MemoryInv, WildInv
      <3>2. QED
        BY <3>1 DEF Explained, HasDummy, Twice, WildExplained
    <2>3. QED
      BY <2>1, <2>2 DEF MemoryAccounted, AtRest
  <1>2. QED
    BY <1>1, MemoryInvariant, PTL
=============================================================================
