----------------------------- MODULE ConfigLoad -----------------------------
(***************************************************************************)
(* How Messasy reads module.conf once and messasy.conf at the start and at *)
(* every RELOAD: read_module_config, set_config, msy_module_init and each  *)
(* module's _init, read_config, the checks and conversions, free_config.   *)
(*                                                                         *)
(* One load at a time: what overlapping RELOADs do to each other is        *)
(* ConfigRef's subject.  Nobody else refers to a replaced configuration    *)
(* here, so reload_config frees it at once.                                *)
(*                                                                         *)
(* A character string is a sequence of tokens, a token being a character   *)
(* or a word; <<>> is the empty string.  A struct is a sequence of fields  *)
(* and an offset an index of it: struct config and the structs of the      *)
(* modules, which realloc appends to it, share one sequence.               *)
(***************************************************************************)
EXTENDS Integers, Sequences, SequencesExt, FiniteSets

CONSTANTS
    NULL, Garbage,   \* no pointer; the contents of memory nobody has set
    ModuleFiles,     \* contents of module.conf: sequences of module lines
    Files,           \* contents of messasy.conf: sequences of lines
    Symbols,         \* path of a library -> the symbols dlsym finds in it
    Paths,           \* the files that can be executed
    Directories,     \* the directories that can be written to
    Addresses,       \* the IP addresses in dotted notation
    Patterns,        \* the strings that regcomp takes
    Letters,         \* tokens made of letters and digits
    Folded,          \* token -> how strcasecmp sees it, where that differs
    UINT,            \* how many values an unsigned int has
    USHRT_MAX,       \* the largest port
    MaxLoads         \* bound on the loads of one run

INT_MAX == UINT \div 2 - 1
ModuleLine ==
    [kind : {"comment", "unterminated"}] \cup [kind : {"fields"}, fields : Seq(STRING)]
\* num is the long that strtol returns, text what it leaves of the line.
ConfigLine ==
    [kind : {"comment", "unterminated"}] \cup
    [kind : {"setting"}, key : STRING, blank : BOOLEAN, num : Int, text : Seq(STRING)]

ASSUME WidthAssumption ==
    UINT \in Nat /\ UINT % 2 = 0 /\ USHRT_MAX \in 65535 .. INT_MAX - 1
ASSUME FilesAssumption ==
    ModuleFiles \subseteq Seq(ModuleLine) /\ Files \subseteq Seq(ConfigLine)
ASSUME LoadsAssumption == MaxLoads \in Nat \ {0}
\* inet_pton takes no empty string.
ASSUME AddressAssumption == <<>> \notin Addresses

VARIABLES
    phase,    \* where the loader is
    at,       \* index of the next line, or of the next module
    modFile,  \* module.conf
    handles,  \* mhandle_list: [name, lib], the head first
    file,     \* messasy.conf as this load finds it
    loads,    \* loads so far
    cfe,      \* the table of entries of this load (new_cfe)
    new,      \* the configuration being built
    check,    \* read_config's check: the entries that had a line
    error,    \* read_config's error is not 0
    current,  \* the configuration in use
    outcome,  \* how the last load ended
    log,      \* dgconfig_log, with the facility openlog was given
    heap,     \* what malloc gave: <<load, what, number, line>>
    lost,     \* ghost: memory whose only pointer was overwritten or dropped
    wild      \* ghost: free() got something malloc had not given

vars == <<phase, at, modFile, handles, file, loads, cfe, new, check, error,
          current, outcome, log, heap, lost, wild>>

ToInt(u) == IF u > INT_MAX THEN u - UINT ELSE u
Fold(s) == [i \in DOMAIN s |-> IF s[i] \in DOMAIN Folded THEN Folded[s[i]]
                                                        ELSE s[i]]

-----------------------------------------------------------------------------
(* Validators: TRUE when the function returns NULL, no message.            *)

is_ipaddr(s) == s \in Addresses
is_port(v) == v >= 0 /\ v <= USHRT_MAX
is_timeout(v) == v >= 1 /\ v <= INT_MAX
is_commandmaxclients(v) == v >= 1 /\ v <= 65535
is_boolean(v) == v \in {0, 1}
\* Two of the names in facilitynames.
Facilities == {<<"local0">>, <<"local1">>}
is_syslog_facility(s) == Fold(s) \in Facilities \cup {<<"stderr">>, <<"none">>}
is_erroraction(s) == Fold(s) \in {<<"accept">>, <<"reject">>, <<"tempfail">>}
is_savepolicy(s) ==
    Fold(s) \in {<<"both">>, <<"onlyfrom">>, <<"onlyto">>, <<"none">>}
is_ldapscope(s) == s \in {<<"onelevel">>, <<"subtree">>}
is_not_null(s) == s # <<>>
is_writable_directory(s) == s \in Directories

\* strchr(cmd, ' ') ends the command before its arguments.
is_executable_file(s) ==
    LET space == SelectInSeq(s, LAMBDA c : c = " ")
    IN  (IF space = 0 THEN s ELSE SubSeq(s, 1, space - 1)) \in Paths
\* The length is compared with 1024: the lines of a file are shorter.
is_executable_file_size(s) == is_executable_file(s)
is_usable_password(s) == is_not_null(s) /\ \A i \in DOMAIN s : s[i] \in Letters

FolderName(s) ==
    /\ s # <<>> /\ s[1] = "." /\ s[Len(s)] # "."
    /\ \A i \in 1 .. Len(s) - 1 : ~(s[i] = "." /\ s[i + 1] = ".")
    /\ \A i \in DOMAIN s : s[i] \in Letters \cup {".", "%", ",", "_", "&", "-", "+", " "}
OneOf(s) == Len(s) = 1 /\ s[1] \in Letters \cup {",", "-", "_", " "}

maildrop_is_mailfolder(s) == FolderName(s)
maildrop_is_dotdelimiter(s) == OneOf(s)
maildrop_is_slashdelimiter(s) == OneOf(s)
gzip_is_mailfolder(s) == FolderName(s)
gzip_is_dotdelimiter(s) == OneOf(s)
gzip_is_slashdelimiter(s) == OneOf(s)
enczip_is_mailfolder(s) == FolderName(s)
enczip_is_dotdelimiter(s) == OneOf(s)
enczip_is_slashdelimiter(s) == OneOf(s)

-----------------------------------------------------------------------------
(* The tables of entries: keyword, type, default, validator (none: NULL).   *)

Str(name, default, test) ==
    [name |-> name, type |-> "string", default |-> default, test |-> test]
Num(name, default, test) ==
    [name |-> name, type |-> "integer", default |-> default, test |-> test]
\* MESSASY_OFFSET: the n-th entry of a table is the n-th field of its struct.
Table(entries) ==
    [n \in DOMAIN entries |->
       [name |-> entries[n].name, type |-> entries[n].type, off |-> n,
        default |-> entries[n].default, test |-> entries[n].test]]

Comma == <<",">>
Underscore == <<"_">>

MainCfe == Table(<<
    Str("ListenIP", <<"127.0.0.1">>, "ipaddr"),
    Num("ListenPort", 20026, "port"),
    Num("TimeOut", 10, "timeout"),
    Str("SyslogFacility", <<"local1">>, "facility"),
    Str("ErrorAction", <<"tempfail">>, "erroraction"),
    Num("CommandPort", 17777, "port"),
    Str("AdminPassword", NULL, "none"),
    Num("CommandMaxClients", 16, "maxclients"),
    Num("CommandTimeOut", 300, "timeout"),
    Str("SavePolicy", <<"both">>, "savepolicy"),
    Str("MyDomain", NULL, "none"),
    Str("SaveMailAddress", NULL, "none"),
    Str("SaveIgnoreHeader", <<>>, "none"),
    Str("DefaultDomain", <<"localhost.localdomain">>, "notnull"),
    Num("LdapCheck", 0, "boolean"),
    Str("LdapServer", <<"127.0.0.1">>, "ipaddr"),
    Num("LdapPort", 389, "port"),
    Str("LdapBindDn", <<>>, "none"),
    Str("LdapBindPassword", <<>>, "none"),
    Str("LdapBaseDn", <<>>, "none"),
    Str("LdapMailFilter", <<"(mail=", "%", "M", ")">>, "none"),
    Str("LdapScope", <<"subtree">>, "ldapscope"),
    Num("LdapTimeout", 5, "timeout") >>)

LdaCfe == Table(<< Str("LDACommand", NULL, "command_size") >>)
MaildropCfe == Table(<<
    Str("MailDir", NULL, "directory"),
    Str("MailFolder", NULL, "maildrop_mailfolder"),
    Str("DotDelimiter", Comma, "maildrop_dot"),
    Str("SlashDelimiter", Underscore, "maildrop_slash") >>)
GzipCfe == Table(<<
    Str("GzipCommand", <<"/usr/bin/gzip">>, "command"),
    Str("GzipMailDir", NULL, "directory"),
    Str("GzipMailFolder", NULL, "gzip_mailfolder"),
    Str("GzipDotDelimiter", Comma, "gzip_dot"),
    Str("GzipSlashDelimiter", Underscore, "gzip_slash") >>)
EnczipCfe == Table(<<
    Str("EncZipCommand", <<"/usr/bin/zip">>, "command"),
    Str("EncZipPassword", NULL, "password"),
    Str("EncZipMailDir", NULL, "directory"),
    Str("EncZipMailFolder", NULL, "enczip_mailfolder"),
    Str("EncZipDotDelimiter", Comma, "enczip_dot"),
    Str("EncZipSlashDelimiter", Underscore, "enczip_slash") >>)
DummyCfe == Table(<< Str("Dummy", NULL, "none") >>)

Modules == [lda |-> LdaCfe, maildrop |-> MaildropCfe, gzip |-> GzipCfe,
            enczip |-> EnczipCfe, dummy |-> DummyCfe]

\* The strings of the files and the tables.  A null pointer is none of them and
\* no pointer to one, nor is what is in memory that nobody has set.
Texts ==
    Seq(STRING) \cup
    {e.default : e \in {x \in ToSet(MainCfe) \cup UNION {ToSet(Modules[m]) : m \in DOMAIN Modules} :
                          x.type = "string"}}
ASSUME NullAssumption ==
    /\ NULL # Garbage
    /\ {NULL, Garbage} \cap (Seq(STRING) \cup [text : Texts, line : Nat]) = {}
\* What follows from it for the defaults, which the provers cannot see of a literal.
ASSUME DefaultAssumption ==
    \A n \in DOMAIN MainCfe :
       MainCfe[n].default = NULL =>
          MainCfe[n].name \in {"AdminPassword", "MyDomain", "SaveMailAddress"}

\* (*cfe[i].cf_check)(v)
Passes(test, v) ==
    CASE test = "none" -> TRUE
      [] test = "ipaddr" -> is_ipaddr(v)
      [] test = "port" -> is_port(v)
      [] test = "timeout" -> is_timeout(v)
      [] test = "maxclients" -> is_commandmaxclients(v)
      [] test = "boolean" -> is_boolean(v)
      [] test = "facility" -> is_syslog_facility(v)
      [] test = "erroraction" -> is_erroraction(v)
      [] test = "savepolicy" -> is_savepolicy(v)
      [] test = "ldapscope" -> is_ldapscope(v)
      [] test = "notnull" -> is_not_null(v)
      [] test = "directory" -> is_writable_directory(v)
      [] test = "command" -> is_executable_file(v)
      [] test = "command_size" -> is_executable_file_size(v)
      [] test = "password" -> is_usable_password(v)
      [] test = "maildrop_mailfolder" -> maildrop_is_mailfolder(v)
      [] test = "maildrop_dot" -> maildrop_is_dotdelimiter(v)
      [] test = "maildrop_slash" -> maildrop_is_slashdelimiter(v)
      [] test = "gzip_mailfolder" -> gzip_is_mailfolder(v)
      [] test = "gzip_dot" -> gzip_is_dotdelimiter(v)
      [] test = "gzip_slash" -> gzip_is_slashdelimiter(v)
      [] test = "enczip_mailfolder" -> enczip_is_mailfolder(v)
      [] test = "enczip_dot" -> enczip_is_dotdelimiter(v)
      [] test = "enczip_slash" -> enczip_is_slashdelimiter(v)

-----------------------------------------------------------------------------
(* module.conf                                                             *)

\* What the state machine over one line's characters takes: LoadModule, name
\* and path, one blank between them; blanks at the end do no harm, except in
\* place of the path, which then is the empty string or a null pointer.
\* A double blank makes an empty field.
WellFormed(fields) ==
    /\ Len(fields) >= 3
    /\ \A i \in 4 .. Len(fields) : fields[i] = ""
    /\ Fold(fields)[1] = "loadmodule"
Opens(line) ==
    /\ line.kind # "unterminated"
    /\ WellFormed(line.fields)
    /\ line.fields[3] \in DOMAIN Symbols

\* Mutant: the new handle is put at the end of the list.
HandleAppended(name, lib) == Append(handles, [name |-> name, lib |-> lib])
set_lib_handle(name, lib) == <<[name |-> name, lib |-> lib]>> \o handles

ModuleLineSkipped ==
    /\ phase = "modules" /\ at <= Len(modFile) /\ modFile[at].kind = "comment"
    /\ at' = at + 1
    /\ UNCHANGED <<phase, modFile, handles, file, loads, cfe, new, check,
                   error, current, outcome, log, heap, lost, wild>>

ModuleOpened ==
    /\ phase = "modules" /\ at <= Len(modFile) /\ modFile[at].kind # "comment"
    /\ Opens(modFile[at])
    /\ handles' = set_lib_handle(modFile[at].fields[2], modFile[at].fields[3])
    /\ at' = at + 1
    /\ UNCHANGED <<phase, modFile, file, loads, cfe, new, check, error,
                   current, outcome, log, heap, lost, wild>>

\* read_module_config returns -1, or set_lib_handle finds no memory: main
\* gives the handles back and exits.  In the second case read_module_config
\* has given them back already, and main does it again.
ModulesRefused ==
    /\ phase = "modules"
    /\ \/ at = 1 /\ UNCHANGED wild    \* the file cannot be read
       \/ /\ at <= Len(modFile) /\ modFile[at].kind # "comment"
          /\ \/ ~Opens(modFile[at]) /\ UNCHANGED wild
             \/ Opens(modFile[at]) /\ wild' = (wild \/ handles # <<>>)
    /\ phase' = "stopped" /\ handles' = <<>> /\ outcome' = "noModules"
    /\ UNCHANGED <<at, modFile, file, loads, cfe, new, check, error, current,
                   log, heap, lost>>

ModulesRead ==
    /\ phase = "modules" /\ at > Len(modFile)
    /\ phase' = "starting"
    /\ UNCHANGED <<at, modFile, handles, file, loads, cfe, new, check, error,
                   current, outcome, log, heap, lost, wild>>

-----------------------------------------------------------------------------
(* A configuration: the fields that have an entry (data), those of the     *)
(* modules appended; the lists of the modules' functions, of their         *)
(* configurations (excf), whether the offsets in excf have become          *)
(* pointers, and what the conversions fill in.  file is a ghost.           *)

Lists == {"header", "body", "eom", "abort"}
NoConfig == [load |-> 0]   \* in place of a null pointer
Zeroed(entries) ==
    [n \in DOMAIN entries |-> IF entries[n].type = "integer" THEN 0 ELSE NULL]

init_config(f) ==
    [load |-> loads + 1, data |-> Zeroed(MainCfe),
     exec |-> [l \in Lists |-> <<>>], excf |-> <<>>, resolved |-> FALSE,
     conv |-> NULL, regex |-> FALSE, domains |-> <<>>, addresses |-> <<>>,
     file |-> f]

Obj(c, what, n, line) == <<c.load, what, n, line>>

\* X_set_module_list and X_set_extra_config put the new node in front.
Hooked(c, name, size) ==
    [c EXCEPT !.exec = [l \in Lists |->
                          <<[name |-> name, bound |-> FALSE, node |-> at]>>
                          \o c.exec[l]],
              !.excf = <<[name |-> name, at |-> size, node |-> at]>> \o @]
\* The tail of every X_init: both reallocs, the new fields (set to 0 by a
\* memset), the copy of the module's entries, whose offsets are shifted by the
\* old size, and the node in excf, which holds that size for the time being.
\* Mutant: the offsets of the module's entries are not shifted.
ModuleInitUnshifted(name, entries, fill, names) ==
    LET size == Len(new.data)
    IN  /\ new' = [Hooked(new, name, size) EXCEPT !.data = @ \o fill]
        /\ cfe' = cfe \o entries
        /\ heap' = heap \cup names
              \cup {Obj(new, what, at, 0) : what \in Lists \cup {"excf"}}
ModuleInit(name, entries, fill, names) ==
    LET size == Len(new.data)
    IN  /\ new' = [Hooked(new, name, size) EXCEPT !.data = @ \o fill]
        /\ cfe' = cfe \o [n \in DOMAIN entries |->
                             [entries[n] EXCEPT !.off = @ + size]]
        /\ heap' = heap \cup names
              \cup {Obj(new, what, at, 0) : what \in Lists \cup {"excf"}}

lda_init == ModuleInit("lda", LdaCfe, Zeroed(LdaCfe), {})
maildrop_init == ModuleInit("maildrop", MaildropCfe, Zeroed(MaildropCfe), {})
gzip_init == ModuleInit("gzip", GzipCfe, Zeroed(GzipCfe), {})
enczip_init == ModuleInit("enczip", EnczipCfe, Zeroed(EnczipCfe), {})
\* No memset, and the lists get copies of the names, which nobody frees.
NameOf == [header |-> "headerName", body |-> "bodyName",
           eom |-> "eomName", abort |-> "abortName",
           excf |-> "excfName"]
CopiedNames == Range(NameOf)
dummy_init ==
    \E fill \in {Zeroed(DummyCfe), <<Garbage>>} :
        ModuleInit("dummy", DummyCfe, fill,
                   {Obj(new, what, at, 0) : what \in CopiedNames})

\* dlsym(p->mh_ptr, "<module>_init"); an entry of module.conf may give a
\* library a name that is not its own.
Exports(h, function) == <<h.name, function>> \in Symbols[h.lib]

\* The strings X_free_config frees for one handle: the fields of the first
\* struct in excf that bears the module's name.
ExtraFields(c, name) ==
    LET e == SelectInSeq(c.excf, LAMBDA x : x.name = name)
    IN  IF e = 0 \/ name \notin DOMAIN Modules THEN {}
        ELSE {c.excf[e].at + n : n \in DOMAIN Modules[name]}
lda_free_config(c) == ExtraFields(c, "lda")
maildrop_free_config(c) == ExtraFields(c, "maildrop")
gzip_free_config(c) == ExtraFields(c, "gzip")
enczip_free_config(c) == ExtraFields(c, "enczip")
dummy_free_config(c) == ExtraFields(c, "dummy")

ModuleFree(c, name) ==
    CASE name = "lda" -> lda_free_config(c)
      [] name = "maildrop" -> maildrop_free_config(c)
      [] name = "gzip" -> gzip_free_config(c)
      [] name = "enczip" -> enczip_free_config(c)
      [] name = "dummy" -> dummy_free_config(c)

Strings(c, fields) ==
    {Obj(c, "string", n, c.data[n].line) :
        n \in {k \in fields : c.data[k] \notin {NULL, Garbage}}}
MainStrings == {n \in DOMAIN MainCfe : MainCfe[n].type = "string"}
Nodes(c) ==
    {Obj(c, "excf", c.excf[i].node, 0) : i \in DOMAIN c.excf}
    \cup UNION {{Obj(c, l, c.exec[l][i].node, 0) : i \in DOMAIN c.exec[l]} : l \in Lists}
Converted(c) ==
    (IF c.regex THEN {Obj(c, "regex", 0, 0)} ELSE {})
    \cup {Obj(c, "domains", i, 0) : i \in DOMAIN c.domains}
    \cup {Obj(c, "addresses", i, 0) : i \in DOMAIN c.addresses}

\* What free_config frees, and whether some of it is not its to free: a field
\* nobody has set, or one that two modules of the same name both find.
\* Mutant: the nodes of the lists are kept.
FreedButNodes(c) ==
    Strings(c, MainStrings) \cup Converted(c) \cup {Obj(c, "config", 0, 0)}
    \cup UNION {Strings(c, ModuleFree(c, handles[i].name)) : i \in DOMAIN handles}
Freed(c) ==
    Strings(c, MainStrings) \cup Converted(c) \cup {Obj(c, "config", 0, 0)}
    \cup Nodes(c)
    \cup UNION {Strings(c, ModuleFree(c, handles[i].name)) : i \in DOMAIN handles}
FreesWildly(c) ==
    \/ \E i, j \in DOMAIN handles : i # j
          /\ Strings(c, ModuleFree(c, handles[i].name)
                          \cap ModuleFree(c, handles[j].name)) # {}
    \/ \E i \in DOMAIN handles :
          \E n \in ModuleFree(c, handles[i].name) : c.data[n] = Garbage

-----------------------------------------------------------------------------
(* set_config up to read_config                                            *)

\* A load that fails leaves reload_config with what it had; at the start that
\* is nothing, and main exits.  The log stays where it is.
LoadFails(why) ==
    /\ phase' = IF current = NoConfig THEN "stopped" ELSE "running"
    /\ outcome' = why
    /\ new' = NoConfig /\ cfe' = <<>> /\ check' = {} /\ error' = FALSE

\* dgloginit, init_config, the copy of the main table.
LoadBegins ==
    /\ phase \in {"starting", "running"} /\ loads < MaxLoads
    /\ \E f \in Files :
         /\ file' = f
         /\ new' = init_config(f)
         /\ heap' = heap \cup {<<loads + 1, "config", 0, 0>>, <<loads + 1, "cfe", 0, 0>>}
    /\ loads' = loads + 1
    /\ log' = <<"stderr">>
    /\ cfe' = MainCfe
    /\ phase' = "init" /\ at' = 1
    /\ UNCHANGED <<modFile, handles, check, error, current, outcome, lost, wild>>

ModuleInits ==
    /\ phase = "init" /\ at <= Len(handles)
    /\ Exports(handles[at], "init")
    /\ \/ handles[at].name = "lda" /\ lda_init
       \/ handles[at].name = "maildrop" /\ maildrop_init
       \/ handles[at].name = "gzip" /\ gzip_init
       \/ handles[at].name = "enczip" /\ enczip_init
       \/ handles[at].name = "dummy" /\ dummy_init
    /\ at' = at + 1
    /\ UNCHANGED <<phase, modFile, handles, file, loads, check, error, current,
                   outcome, log, lost, wild>>

\* set_dlsymbol, for every handle and list, and the offsets in excf become
\* pointers.  The list for the end of the header is always empty.
set_dlsymbol(list) ==
    [i \in DOMAIN list |->
       [list[i] EXCEPT !.bound = @ \/ \E h \in ToSet(handles) : h.name = list[i].name]]
Bindable ==
    \A h \in ToSet(handles) : \A l \in Lists : Exports(h, l)

ModulesBound ==
    /\ phase = "init" /\ at > Len(handles) /\ Bindable
    /\ new' = [new EXCEPT !.exec = [l \in Lists |-> set_dlsymbol(@[l])],
                          !.resolved = TRUE]
    /\ phase' = "read" /\ at' = 1
    /\ UNCHANGED <<modFile, handles, file, loads, cfe, check, error, current,
                   outcome, log, heap, lost, wild>>

\* msy_module_init returns -1: only the two blocks are freed, not the lists.
Abandon(left) ==
    /\ heap' = (heap \cup left) \ {Obj(new, "config", 0, 0), Obj(new, "cfe", 0, 0)}
    /\ lost' = lost \cup left \cup Nodes(new)
    /\ UNCHANGED <<at, modFile, handles, file, loads, current, log, wild>>

ModuleInitFails ==
    /\ phase = "init"
    /\ IF at <= Len(handles) THEN ~Exports(handles[at], "init") ELSE ~Bindable
    /\ LoadFails("noSymbol")
    /\ Abandon({})

\* No memory in an X_init: the nodes it has made so far are taken out again,
\* by all but dummy; lda exits instead (MemoryExhausted).
ModuleOutOfMemory ==
    /\ phase = "init" /\ at <= Len(handles)
    /\ Exports(handles[at], "init") /\ handles[at].name # "lda"
    /\ LoadFails("noMemory")
    /\ \/ handles[at].name # "dummy" /\ Abandon({})
       \/ /\ handles[at].name = "dummy"
          /\ \E n \in 0 .. 4 :
               LET made == ToSet(SubSeq(<<"header", "body", "eom", "abort">>, 1, n))
               IN  Abandon({Obj(new, l, at, 0) : l \in made}
                           \cup {Obj(new, NameOf[l], at, 0) : l \in made})

\* No memory for the copy of the table: what init_config gave is forgotten.
LoadOutOfMemory ==
    /\ phase \in {"starting", "running"} /\ loads < MaxLoads
    /\ loads' = loads + 1
    /\ heap' = heap \cup {<<loads + 1, "config", 0, 0>>}
    /\ lost' = lost \cup {<<loads + 1, "config", 0, 0>>}
    /\ log' = <<"stderr">>
    /\ LoadFails("noMemory")
    /\ UNCHANGED <<at, modFile, handles, file, current, wild>>

-----------------------------------------------------------------------------
(* read_config                                                             *)

Reading == phase = "read" /\ at <= Len(file)
Line == file[at]

\* The first entry with this keyword, '=' and no blank after it.
EntryOf(l) ==
    SelectInSeq(cfe, LAMBDA e : Fold(<<l.key>>) = <<e.name>> /\ ~l.blank)

LineIgnored ==
    /\ Reading /\ Line.kind = "comment"
    /\ at' = at + 1
    /\ UNCHANGED <<phase, modFile, handles, file, loads, cfe, new, check, error,
                   current, outcome, log, heap, lost, wild>>

\* Mutant: a line nobody understands is skipped.
LineUnknownSkipped ==
    /\ Reading /\ Line.kind = "setting" /\ EntryOf(Line) = 0
    /\ at' = at + 1
    /\ UNCHANGED <<phase, modFile, handles, file, loads, cfe, new, check, error,
                   current, outcome, log, heap, lost, wild>>
LineUnknown ==
    /\ Reading /\ Line.kind = "setting" /\ EntryOf(Line) = 0
    /\ error' = TRUE /\ at' = at + 1
    /\ UNCHANGED <<phase, modFile, handles, file, loads, cfe, new, check,
                   current, outcome, log, heap, lost, wild>>

\* The rest of a line after its number.
OnlyBlanks(s) == s \in Seq({" "})

\* strtol, then only blanks; the long becomes an unsigned int, the validator
\* takes an int.
IntegerLine ==
    /\ Reading /\ Line.kind = "setting" /\ EntryOf(Line) # 0
    /\ LET e == cfe[EntryOf(Line)]
           value == Line.num % UINT
       IN  /\ e.type = "integer"
           /\ check' = check \cup {EntryOf(Line)}
           /\ \/ /\ OnlyBlanks(Line.text) /\ Passes(e.test, ToInt(value))
                 /\ new' = [new EXCEPT !.data[e.off] = value]
                 /\ UNCHANGED error
              \/ /\ ~(OnlyBlanks(Line.text) /\ Passes(e.test, ToInt(value)))
                 /\ error' = TRUE /\ UNCHANGED new
    /\ at' = at + 1
    /\ UNCHANGED <<phase, modFile, handles, file, loads, cfe, current, outcome,
                   log, heap, lost, wild>>

\* strdup; what the field pointed to is forgotten.
\* Mutant: the first line of a keyword wins.
StoreFirst(off, text, line) ==
    /\ new' = IF new.data[off] = NULL
              THEN [new EXCEPT !.data[off] = [text |-> text, line |-> line]]
              ELSE new
    /\ heap' = heap \cup IF new.data[off] = NULL THEN {Obj(new, "string", off, line)} ELSE {}
    /\ UNCHANGED lost
Store(off, text, line) ==
    /\ new' = [new EXCEPT !.data[off] = [text |-> text, line |-> line]]
    /\ heap' = heap \cup {Obj(new, "string", off, line)}
    /\ lost' = lost \cup Strings(new, {off})

StringLine ==
    /\ Reading /\ Line.kind = "setting" /\ EntryOf(Line) # 0
    /\ LET e == cfe[EntryOf(Line)]
       IN  /\ e.type = "string"
           /\ check' = check \cup {EntryOf(Line)}
           /\ \/ /\ ~Passes(e.test, Line.text)
                 /\ error' = TRUE /\ UNCHANGED <<new, heap, lost>>
              \/ /\ Passes(e.test, Line.text) /\ Line.text = <<>>
                 /\ UNCHANGED <<new, heap, lost, error>>
              \/ /\ Passes(e.test, Line.text) /\ Line.text # <<>>
                 /\ Store(e.off, Line.text, at)
                 /\ UNCHANGED error
    /\ at' = at + 1
    /\ UNCHANGED <<phase, modFile, handles, file, loads, cfe, current, outcome,
                   log, wild>>

\* set_config after an error of read_config, or of a check below: free_config.
Refuse ==
    /\ heap' = (heap \ Freed(new)) \ {Obj(new, "cfe", 0, 0)}
    /\ wild' = (wild \/ FreesWildly(new))
    /\ LoadFails("refused")
    /\ UNCHANGED <<at, modFile, handles, file, loads, current, log, lost>>

\* -2: a line without its end, too long or the last of the file.
LineUnterminated == Reading /\ Line.kind = "unterminated" /\ Refuse

\* -1: the file cannot be read.
FileUnreadable ==
    /\ phase = "read" /\ at = 1
    /\ heap' = (heap \ Freed(new)) \ {Obj(new, "cfe", 0, 0)}
    /\ wild' = (wild \/ FreesWildly(new))
    /\ LoadFails("unreadable")
    /\ UNCHANGED <<at, modFile, handles, file, loads, current, log, lost>>

\* No memory for a node of lda, for check or a string of read_config (unless a
\* call that fails later sets another errno: ReadOutOfMemory), for the pattern
\* or a list: exit.
MemoryExhausted ==
    /\ \/ phase \in {"read", "checks"}
       \/ phase = "init" /\ at <= Len(handles) /\ handles[at].name = "lda"
    /\ phase' = "stopped" /\ outcome' = "noMemory"
    /\ new' = NoConfig /\ cfe' = <<>> /\ check' = {} /\ error' = FALSE /\ heap' = {}
    /\ UNCHANGED <<at, modFile, handles, file, loads, current, log, lost, wild>>

\* strdup failed, the rest of the file was read, and errno is no longer ENOMEM.
ReadOutOfMemory ==
    /\ Reading
    /\ heap' = (heap \ Freed(new)) \ {Obj(new, "cfe", 0, 0)}
    /\ wild' = (wild \/ FreesWildly(new))
    /\ LoadFails("noMemory")
    /\ UNCHANGED <<at, modFile, handles, file, loads, current, log, lost>>

\* Entries without a line get their default; those without one are an error.
Missing == {i \in DOMAIN cfe : i \notin check}
DefaultOf(e) ==
    IF e.type = "integer" THEN e.default ELSE [text |-> e.default, line |-> 0]
Given(off) == CHOOSE i \in DOMAIN cfe : cfe[i].off = off

ReadEnds ==
    /\ phase = "read" /\ at > Len(file)
    /\ LET defaulted == {i \in Missing : cfe[i].default # NULL}
           fields == {cfe[i].off : i \in defaulted}
       IN  /\ new' = [new EXCEPT !.data =
                        [n \in DOMAIN @ |->
                           IF n \in fields THEN DefaultOf(cfe[Given(n)]) ELSE @[n]]]
           /\ heap' = heap \cup {Obj(new, "string", cfe[i].off, 0) :
                        i \in {k \in defaulted : cfe[k].type = "string"}}
           /\ error' = (error \/ defaulted # Missing)
    /\ phase' = "checks"
    /\ UNCHANGED <<at, modFile, handles, file, loads, cfe, check, current,
                   outcome, log, lost, wild>>

-----------------------------------------------------------------------------
(* set_config after read_config.  msy_module_modconfig has no step: every  *)
(* module's X_mod_extra_config does nothing, and its result is ignored.    *)

Off(name) == CHOOSE n \in DOMAIN MainCfe : MainCfe[n].name = name
Value(c, name) == c.data[Off(name)]
Text(c, name) == Value(c, name).text

MandatoryMissing(c) ==
    \/ \E name \in {"AdminPassword", "MyDomain", "SaveMailAddress"} : Value(c, name) = NULL
    \/ \E name \in {"ListenPort", "CommandPort", "LdapPort"} : Value(c, name) = 0

conv_erroraction(s) ==
    CASE Fold(s) = <<"accept">> -> "SMFIS_ACCEPT"
      [] Fold(s) = <<"reject">> -> "SMFIS_REJECT"
      [] Fold(s) = <<"tempfail">> -> "SMFIS_TEMPFAIL"
conv_savepolicy(s) ==
    CASE Fold(s) = <<"both">> -> "BOTH"
      [] Fold(s) = <<"onlyfrom">> -> "ONLYFROM"
      [] Fold(s) = <<"onlyto">> -> "ONLYTO"
      [] Fold(s) = <<"none">> -> "NONE"
conv_ldapscope(s) ==
    CASE Fold(s) = <<"onelevel">> -> "LDAP_SCOPE_ONELEVEL"
      [] Fold(s) = <<"subtree">> -> "LDAP_SCOPE_SUBTREE"

\* TRUE for a pattern that has to be compiled; a field that is NULL has none.
conv_saveignoreheader(c) ==
    Value(c, "SaveIgnoreHeader") # NULL /\ Text(c, "SaveIgnoreHeader") # <<>>
PatternRefused(c) ==
    conv_saveignoreheader(c) /\ Text(c, "SaveIgnoreHeader") \notin Patterns

\* uniq_push_strlist: a string goes to the end unless it is there.
search_strlist(list, s) == Contains(list, s)
uniq_push_strlist(list, s) == IF search_strlist(list, s) THEN list ELSE Append(list, s)

\* The parts between the commas, the first of each only.  A part begins behind
\* the last comma before its end; the string has one more end than commas.
HeadOf(s, end) ==
    CHOOSE h \in 0 .. end - 1 :
       (h = 0 \/ s[h] = ",") /\ \A i \in h + 1 .. end - 1 : s[i] # ","
split_comma(s) ==
    LET listed[end \in 0 .. Len(s) + 1] ==
          IF end = 0 THEN <<>>
          ELSE IF end <= Len(s) /\ s[end] # "," THEN listed[end - 1]
          ELSE uniq_push_strlist(listed[end - 1], SubSeq(s, HeadOf(s, end) + 1, end - 1))
    IN  listed[Len(s) + 1]

conv_config(c) ==
    [c EXCEPT !.conv = [erroraction |-> conv_erroraction(Text(c, "ErrorAction")),
                        savepolicy |-> conv_savepolicy(Text(c, "SavePolicy")),
                        ldapscope |-> conv_ldapscope(Text(c, "LdapScope"))],
              !.regex = conv_saveignoreheader(c),
              !.domains = split_comma(Text(c, "MyDomain")),
              !.addresses = split_comma(Text(c, "SaveMailAddress"))]

\* LOG, NoLOG, or syslog with the facility given to openlog.
\* Mutant: a change to "none" is not made.
LogUnlessNone(name) == IF Fold(name) = <<"none">> THEN log ELSE Fold(name)
dglogchange(name) == Fold(name)

Rejected ==
    /\ phase = "checks"
    /\ error \/ MandatoryMissing(new) \/ PatternRefused(new)
    /\ Refuse

\* set_config succeeds and reload_config puts the configuration in place; the
\* one before is freed, since nobody refers to it.
Installed ==
    /\ phase = "checks"
    /\ ~(error \/ MandatoryMissing(new) \/ PatternRefused(new))
    /\ LET c == conv_config(new)
           old == IF current = NoConfig THEN {} ELSE Freed(current)
       IN  /\ current' = c
           /\ heap' = ((heap \cup Converted(c)) \ old) \ {Obj(new, "cfe", 0, 0)}
           /\ wild' = (wild \/ (current # NoConfig /\ FreesWildly(current)))
           /\ log' = dglogchange(Text(c, "SyslogFacility"))
    /\ phase' = "running" /\ outcome' = "loaded"
    /\ new' = NoConfig /\ cfe' = <<>> /\ check' = {} /\ error' = FALSE
    /\ UNCHANGED <<at, modFile, handles, file, loads, lost>>

Init ==
    /\ phase = "modules" /\ at = 1 /\ modFile \in ModuleFiles
    /\ handles = <<>> /\ file = <<>> /\ loads = 0 /\ cfe = <<>> /\ new = NoConfig
    /\ check = {} /\ error = FALSE /\ current = NoConfig /\ outcome = "none"
    /\ log = <<"syslog">> /\ heap = {} /\ lost = {} /\ wild = FALSE

Next ==
    \/ ModuleLineSkipped \/ ModuleOpened \/ ModulesRefused \/ ModulesRead
    \/ LoadBegins \/ ModuleInits \/ ModulesBound \/ ModuleInitFails
    \/ ModuleOutOfMemory \/ LoadOutOfMemory \/ ReadOutOfMemory
    \/ FileUnreadable \/ LineIgnored \/ LineUnknown \/ LineUnterminated
    \/ IntegerLine \/ StringLine \/ ReadEnds \/ MemoryExhausted
    \/ Rejected \/ Installed

Spec == Init /\ [][Next]_vars

-----------------------------------------------------------------------------
(* What the files mean, without the loops that read them.                  *)

AllEntries == ToSet(MainCfe) \cup UNION {ToSet(Modules[h.name]) : h \in ToSet(handles)}
LinesFor(f, e) ==
    {i \in DOMAIN f : /\ f[i].kind = "setting" /\ ~f[i].blank
                      /\ Fold(<<f[i].key>>) = <<e.name>>}
LastOf(S) == CHOOSE i \in S : \A j \in S : j <= i
Meaning(f, e) ==
    LET filled == {i \in LinesFor(f, e) : f[i].text # <<>>}
    IN  CASE LinesFor(f, e) = {} -> e.default
          [] LinesFor(f, e) # {} /\ e.type = "integer" -> f[LastOf(LinesFor(f, e))].num
          [] LinesFor(f, e) # {} /\ e.type = "string" ->
                IF filled = {} THEN NULL ELSE f[LastOf(filled)].text
MainEntry(name) == MainCfe[Off(name)]

LineValid(l, e) ==
    IF e.type = "integer" THEN OnlyBlanks(l.text) /\ Passes(e.test, l.num)
                          ELSE Passes(e.test, l.text)
WrongLines(f) ==
    {i \in DOMAIN f :
       /\ f[i].kind # "comment"
       /\ ~\E e \in AllEntries : i \in LinesFor(f, e) /\ LineValid(f[i], e)}
\* Nothing comes twice, is missing, or has no value where one is needed.
Sufficient(f) ==
    /\ \A i, j \in DOMAIN handles : i # j => handles[i].name # handles[j].name
    /\ \A e \in AllEntries : e.default = NULL => LinesFor(f, e) # {}
    /\ \A name \in {"AdminPassword", "MyDomain", "SaveMailAddress"} :
          Meaning(f, MainEntry(name)) # NULL
    /\ \A name \in {"ListenPort", "CommandPort", "LdapPort"} :
          Meaning(f, MainEntry(name)) # 0
    /\ Meaning(f, MainEntry("SaveIgnoreHeader")) \in Patterns \cup {NULL, <<>>}
Valid(f) == Sufficient(f) /\ WrongLines(f) = {}

\* A number no int holds.  read_config has messages for it (ERR_CONF_TOOBIGNUM,
\* ERR_CONF_MUSTPLUS), but compares an unsigned int with LONG_MAX, which it never
\* reaches: the low 32 bits of the number go on.
TooLong(n) == n \notin -INT_MAX - 1 .. INT_MAX
OverlongLines(f) ==
    {i \in DOMAIN f :
       \E e \in AllEntries : /\ e.type = "integer" /\ i \in LinesFor(f, e)
                             /\ OnlyBlanks(f[i].text) /\ TooLong(f[i].num)}

\* The names the first k lines of a module.conf give.
NamesIn(lines) ==
    LET names[k \in 0 .. Len(lines)] ==
          IF k = 0 THEN <<>>
          ELSE IF lines[k].kind = "comment" THEN names[k - 1]
          ELSE Append(names[k - 1], lines[k].fields[2])
    IN  names
ModuleNames == NamesIn(modFile)[Len(modFile)]

AtRest == phase = "running"
IsListOf(list, s) ==
    LET borders == {0, Len(s) + 1} \cup {i \in DOMAIN s : s[i] = ","}
        gaps == {g \in borders \X borders :
                   g[1] < g[2] /\ ~\E k \in borders : g[1] < k /\ k < g[2]}
    IN  /\ ToSet(list) = {SubSeq(s, g[1] + 1, g[2] - 1) : g \in gaps}
        /\ \A i, j \in DOMAIN list : i # j => list[i] # list[j]
Contents(v) == IF v = NULL THEN NULL ELSE v.text
\* The settings whose strings nobody compares with NULL before using them.
NeededStrings ==
    {"ListenIP", "SyslogFacility", "ErrorAction", "AdminPassword", "SavePolicy",
     "MyDomain", "SaveMailAddress", "DefaultDomain", "LdapServer", "LdapScope"}

-----------------------------------------------------------------------------
(* Properties                                                              *)

\* Every variable keeps its shape; a running process has a configuration, and
\* nothing of an unfinished load is left when it is at rest.
TypeOK ==
    /\ phase \in {"modules", "starting", "init", "read", "checks", "running", "stopped"}
    /\ at \in Nat \ {0} /\ loads \in 0 .. MaxLoads
    /\ outcome \in {"none", "loaded", "refused", "unreadable", "noSymbol",
                    "noModules", "noMemory"}
    /\ error \in BOOLEAN /\ wild \in BOOLEAN
    /\ \A h \in ToSet(handles) : h.lib \in DOMAIN Symbols
    /\ check \subseteq DOMAIN cfe
    /\ (new # NoConfig) = (phase \in {"init", "read", "checks"})
    /\ current = NoConfig => phase # "running"
    /\ phase \in {"read", "checks"} =>
          /\ Len(cfe) = Len(new.data)
          /\ {cfe[i].off : i \in DOMAIN cfe} = DOMAIN new.data

\* A configuration file that is valid as a whole is taken, and one that is taken is
\* valid: every line of it is understood, nothing mandatory is missing, empty or 0
\* (read_config's error count, the checks and conversions of set_config).  One
\* kind of wrong line goes through: a number that is right only in its low 32 bits.
AcceptedIffValid ==
    phase \in {"running", "stopped"} =>
      /\ outcome = "loaded" => Sufficient(file) /\ WrongLines(file) \subseteq OverlongLines(file)
      /\ outcome = "refused" => ~Valid(file)

\* Every setting is what the file says: the last line with a value counts, an
\* empty line leaves a null pointer, no line leaves the default.  Of a number
\* that no int holds the low 32 bits are left.
ValuesAsWritten ==
    \A n \in DOMAIN MainCfe :
      LET v == current.data[n]
          meant == Meaning(current.file, MainCfe[n])
      IN  IF MainCfe[n].type = "string" THEN Contents(v) = meant
          ELSE v = meant \/ (TooLong(meant) /\ v = meant % UINT)

\* Every module finds its settings where its extra_config points; only dummy may
\* find what the memory held before, when the file has no text for its setting.
ExtrasAsWritten ==
    \A i \in DOMAIN current.excf :
      \A n \in DOMAIN Modules[current.excf[i].name] :
        LET v == current.data[current.excf[i].at + n]
            meant == Meaning(current.file, Modules[current.excf[i].name][n])
        IN  IF v = Garbage THEN current.excf[i].name = "dummy" /\ meant = NULL
            ELSE Contents(v) = meant

\* Whatever the file said and however its numbers were cut to 32 bits, a port is
\* not 0 and fits 16 bits, a time limit is positive as an int, and so on; no string
\* is a null pointer that the program uses without a test, LdapMailFilter apart
\* (check_ldap hands it to str_replace_format); the lists to match addresses with
\* have each part of their setting once.
ValuesUsable ==
    /\ \A name \in {"ListenPort", "CommandPort", "LdapPort"} :
          Value(current, name) \in 1 .. USHRT_MAX
    /\ \A name \in {"TimeOut", "CommandTimeOut", "LdapTimeout"} :
          Value(current, name) \in 1 .. INT_MAX
    /\ is_commandmaxclients(Value(current, "CommandMaxClients"))
    /\ Value(current, "LdapCheck") \in {0, 1}
    /\ \A name \in NeededStrings : Value(current, name) # NULL
    /\ IsListOf(current.domains, Text(current, "MyDomain"))
    /\ IsListOf(current.addresses, Text(current, "SaveMailAddress"))

\* In use, the program and every module see the settings the file gives; a number
\* that no int holds is seen cut, but never out of the range of its setting
\* (read_config's search and assignments, the offsets that msy_module_init and the
\* modules' _init shift, split_comma).
SettingsAsWritten == AtRest => ValuesAsWritten /\ ExtrasAsWritten /\ ValuesUsable

\* In use, each list calls the modules in the order of module.conf, with every
\* function found (two reversals of the list must cancel out).
HooksInOrder ==
    AtRest =>
      /\ current.resolved
      /\ \A l \in Lists :
            /\ [i \in DOMAIN current.exec[l] |-> current.exec[l][i].name] = ModuleNames
            /\ \A i \in DOMAIN current.exec[l] : current.exec[l][i].bound

\* All memory belongs to the configuration in use, except a string whose keyword
\* came again in the file, the names dummy copies, and what a load that found no
\* memory in msy_module_init or before had made until then.
NothingLeaks ==
    LET owned == Freed(current)
    IN  /\ owned \subseteq heap
        /\ \A o \in heap \ owned : o \in lost \/ o[2] \in CopiedNames

\* free() was given what malloc returned, and once, unless dummy, whose field is
\* not initialised, or a module listed twice is loaded, or main gave handles back
\* that read_module_config had given back.
WildExplained ==
    \/ \E h \in ToSet(handles) : h.name = "dummy"
    \/ \E i, j \in DOMAIN handles : i # j /\ handles[i].name = handles[j].name
    \/ outcome = "noModules"

\* A refused file and a replaced configuration leave nothing behind, and
\* free_config frees nothing twice and nothing that is not its own.
MemoryAccounted == (AtRest => NothingLeaks) /\ (wild => WildExplained)

\* The log goes where the configuration in use says, from its load until a
\* reload fails: that leaves it on standard error (set_config's dgloginit).
LogAsConfigured ==
    AtRest =>
      (log # Fold(Text(current, "SyslogFacility")) =>
          outcome # "loaded" /\ log = <<"stderr">>)
=============================================================================
