# Messasy: TLA+ models, model checking and proofs

Messasy is a mail-archiving milter: sendmail or postfix hands it every message
through libmilter, it decides for which addresses the message is kept, and its
storage modules (maildrop, gzip, enczip, lda) keep it. A management port accepts
LOGIN, RELOAD and QUIT. The program is multi-threaded C; this directory models
the parts of it where threads, callbacks, failures and their order decide
whether mail is kept and whether the process stays healthy.

## 1. Inventory

| Component | Source | State | Operations | Talks to |
|---|---|---|---|---|
| Configuration reference counting | `msy_config.c` 280-499 | `cur_cfg`, `config_reloading`, per configuration `cf_ref_count`, its mutex, `cf_reloaded` | `config_retrieve`, `config_release`, `reload_config`, `free_config` | every thread |
| Configuration loading | `msy_config.c` 511-1263 | a `struct config` nobody else knows, the table of entries | `set_config`, `msy_module_init`, `msy_module_modconfig`, validators, converters, `free_config` | libdgconfig, each module's `_init` and `_free_config` |
| Management interface | `client_side.c` | `thread_count`, `tc_lock`, one `manager_control` per client | accept loop, `request_handler`, LOGIN, RELOAD, QUIT | configuration |
| Milter callbacks | `messasy.c` | `struct mlfiPriv` of the connection | connect, envfrom, envrcpt, header, body, eom, abort, close | libmilter, module dispatch, configuration |
| Module dispatch | `msy_readmodule.c` | list of handles, lists of functions in the configuration | `read_module_config`, `msy_exec_*` | modules |
| Address selection | `filter.c` | lists being built | `make_savelist`, `judge_mail`, `check_domain`, `check_mailaddress`, `check_ldap` | LDAP |
| maildrop, gzip, enczip, lda | `so/lib*/` | `extrapriv` of the connection, a temporary file | `_init`, `_exec_header`, `_exec_body`, `_exec_eom`, `_exec_abort` | file system, child processes |
| Utilities | `utils.c` | serial number | lists, `get_sessid`, `str_replace_format` | everybody |
| libdgconfig, libdgstr, libdgmail | `lib/` | none (error buffers) | parsing | configuration, callbacks |

What is hard here:

* **Concurrency.** Every connection is a thread of libmilter, every administrator
  a thread of the manager. They share the configuration (freed by its last
  user), `thread_count`, the umask and the file system.
* **Ordering.** RELOAD replaces the configuration under running connections;
  libmilter calls the callbacks of one connection in SMTP order but may abort or
  close at any point.
* **Failure.** A module may fail in any callback, after other modules have
  already acted; `exit()` is the answer to a failed allocation in many places.
* **Resources.** Configuration references, manager places, temporary files and
  module buffers must be given back on every path.

What makes each component correct:

* *Configuration:* nothing in use is freed, everything replaced is freed once,
  the counter counts holders, no mutex stays locked, RELOAD becomes available
  again.
* *Management interface:* the counter counts sessions, nobody is admitted beyond
  or refused below the limit, every place is given back, only who logged in on
  this connection reloads.
* *Callbacks and modules:* one reference per connection; nothing of a message
  reaches the next; what the MTA is told agrees with what was kept; no callback
  follows a dangling pointer.
* *Address selection:* the selected addresses are those the policy names; list
  memory is given back once.
* *Storage modules:* a message reported as kept is whole and in every folder, a
  refused one in none; every address is delivered to once; storing ends, and
  leaves no temporary file or process.
* *Configuration loading:* a file is taken as a whole or not at all, the program
  and each module then see what it says, a refused or replaced configuration
  leaves no memory behind, the modules are called in the order of module.conf.

## 2. Modules

| Module | What it is |
|---|---|
| `ConfigStore` | What `config_retrieve`, `config_release`, `reload_config` promise: acquire, release, replace, reclaim. |
| `ConfigRef` | How `msy_config.c` does it: one step per access to shared memory. |
| `ConfigRefMC` | Instances of `ConfigRef` for TLC. |
| `ConfigRef_proofs` | Proofs about `ConfigRef`: its invariants, and that it implements `ConfigStore`. |
| `ManagerPool`, `ManagerPoolMC` | The accept loop, `thread_count` and the request handlers. |
| `MilterSession`, `MilterSessionMC` | One SMTP connection: callbacks, `mlfiPriv`, the loops over the modules. |
| `SaveFilter`, `SaveFilterMC` | `make_savelist` and all it calls: which addresses, and the lists and their memory. |
| `MaildirStore`, `MaildirStoreMC` | Several stores of maildrop, gzip and enczip in one Maildir tree. |
| `ConfigLoad`, `ConfigLoadMC` | module.conf at the start, messasy.conf at the start and at RELOAD: reading, checking, converting, installing, freeing. |
| `LdaDelivery`, `LdaDeliveryMC` | The lda module: temporary file with its converted line ends, one command per address, the pipe. |
| `ManagerPool_proofs`, `MilterSession_proofs`, `SaveFilter_proofs`, `MaildirStore_proofs`, `LdaDelivery_proofs`, `ConfigLoad_proofs` | Proofs about the module they are named after. |
| `SequenceLemmas` | What the proofs need of numbers, sequences and recursive functions. |

Operators whose comment begins with "Mutant:" are not part of the program: each
is a plausible slip in the definition that follows it, and the property named in
`PROJECT.json` must fail when it takes that definition's place.

### ConfigRef

`pc[t]` is the next statement of thread `t`, `ptr` and `cfg` its pointer locals,
`cnt` the register between load and store of `++` and `--`. `config_retrieve` is
five steps: read `cur_cfg` to find the mutex, lock, read `cur_cfg` again and load
the counter, store it, unlock. The second read is made once for lines 397, 399
and 401: the compiler keeps the pointer in a register at the default `-O2`, and
has to read it again after the call of `pthread_mutex_lock`. Sections under
`config_lock` are one step, because all they contain is one access of
`cur_cfg` (with the local `old`) or of `config_reloading`.
`free_config` makes the configuration "freed"; configurations are never reused,
and a freed one keeps its contents, so the model shows *that* freed memory is
used and not what its new owner makes of it. Unlocking a default mutex releases
it whoever holds it, as glibc does. `Init` is the state after `main`'s own
`reload_config`.

### ManagerPool

`mpc` is the next statement of `manager_main`, `st[c]` that of the handler of
client `c`. `thread_count` is an unsigned integer of width `Modulus`. The branch
that refuses a client unlocks `tc_lock`, as line 573 does. `ReloadSucceeds`
replaces limit and password by any of `Limits` and `Passwords`: what a RELOAD can
do to this component.

What a client sends is a sequence of tokens: CR, LF, a blank or a word, each of
which counts as one character. An input is what one call of `read_line` takes:
`ReadTaken` says how much that is, with the buffer of `MAX_CMD_LEN + 1`
characters (`Room`), the state `check_crlf` carries from one character to the
next, and `read_dust` for what does not fit; `read_line` is the line.
`Command`, `Arg`, `parse_arg` and `Param` take it apart, and each outcome is an
action: `LoginSucceeds`, `LineAnswered`, `ReloadSucceeds`, `LineEndsSession`,
`SessionEnds`. `OneLine` and `SaysLogin` say what the client meant, without
reading character by character; the histories `inStep` (every input was one
line) and `proven` (who gave the password of its time) are made of them.
`ManagerPoolMC` also compares `read_line` with a plain definition of "the line
before the first CRLF" on every text of up to nine CRs, LFs and others
(`ReadsLines`).

### MilterSession

libmilter is external and appears as `phase`: it calls the callbacks of one
connection in SMTP order, one at a time, may abort between any two, and closes
at the end. A verdict other than CONTINUE ends the message. A callback that runs
the modules is a loop (`at`, `idx`) with one step per module, so that a failure
or an `exit()` can strike between two modules. Addresses, recipient lists and
file contents are reduced to the set of messages they come from: enough to tell
whether messages are mixed. A module's entry in the connection's list is absent,
or has a buffer that is NULL, freed, or open. `archive` records what the
modules' close functions were given and accepted; whether they then store it is
the subject of `MaildirStore` and `LdaDelivery`. A message without any header
line never gets an address list and is kept for nobody, one without header and
body passes unseen (`empty`): `ArchivedAsSent` and `VerdictTruthful` say this
happens to no other message.

### ConfigLoad

`phase` is where the loader is: reading module.conf ("modules"), calling the
modules' `_init` ("init"), reading messasy.conf ("read"), checking ("checks").
`at` is the next line or module, so that a load can fail, or memory run out, at
each of them. A string is a sequence of tokens, a struct a sequence of fields, an
offset an index: `realloc` in a module's `_init` appends its fields to those of
`struct config`, its entries to the table, and shifts their offsets by the size
at that moment, as `ModuleInit` does. Addresses, executable files, writable
directories and patterns `regcomp` takes are constants, because only whether a
validator accepts a value matters; where a validator looks at characters (folder
names, delimiters, passwords, the command before its arguments) so does the
model. A number is what `strtol` returns, cut to an `unsigned int` and passed to
the validator as an `int`. `heap` has what `malloc` gave to the configurations,
`lost` what can no longer be freed, `wild` notes a `free` of something else.
`Valid` and `Meaning` say what a file means, without the loops that read it and
without their cut: there a number is the number of the file. `TooLong` is one that no
`int` holds; what the cut makes of such a line (`OverlongLines`) is the one exception
of `AcceptedIffValid` and `ValuesAsWritten`, and `ValuesUsable` bounds every number
whatever was cut. It also says which strings are never null pointers
(`NeededStrings`, those used without a test, but for LdapMailFilter). `long` has 64
bits here, as on the machines the program is built for.
`msy_module_modconfig` calls functions that do nothing and has no step. One load
runs at a time and nobody holds the configuration it replaces: that is the
subject of `ConfigRef`.

### SaveFilter

The input (envelope, settings, what the directory server knows) is chosen in
`Init`; then one step per address judged, per LDAP search and per node freed.
Addresses are sequences of symbols, so that the three ways of comparing with an
entry of `SaveMailAddress` (suffix, domain, whole address) are what the code
does; the null sender and addresses without a domain are among the inputs.
Letters of either case are one symbol. A node is named by the place of its
address among those judged, `nxt` is its `next` pointer, and freeing is
stepwise, so that a list that leads into freed or foreign nodes is seen.
`MostRecipients` bounds the recipients of a message and with them the nodes.
`Wanted` is the definition of the result `SavesWhatIsWanted` compares with, which
follows the `next` pointers (`Walk`) and wants the list to end as well.
`judge_mail` never fails: the code for its failure is dead.

### MaildirStore

A *store* is one module keeping one message; `pc` names its next step. Shared
are the directories, the inodes and the names (hard links) in the folders' new/.
A link's name is made of second, inode number, host and a suffix per module, as
in `md_makesavefilename`; inodes are reused, and since free inodes are alike the
lowest stands for all. `Tree` is the list of directories the dots of MailFolder
ask for, `DirList` the folders of all addresses, each once (`Pushed`); because directories are never removed, `Stat` passes all existing ones
in one step and stops before the first that is missing, where another store may
be faster. A failed mkdir or link is only logged by the code, and `hurt` notes
the stores whose own call the system refused; `OnceHurt` bounds this to one per
store. Of the body only its end is followed: a CR that comes last is held back in
`md_cr` ("held") and written by `Close`, in all three modules alike (`LastCR`); if
that write fails nobody notices and the body is "cut" for good. Then maildrop goes on
with its list of folders, and gzip and enczip come to `Fork`, or fail before it
(`ForkFails`). `WrittenOf` is the header's write loop, with every way `write` may split
the line. `littered` notes the compressor's output left behind if it is killed
or if gzip's `malloc` fails. `ProcessExits` and `ReaderRemoves` are the
environment. Left out: cur/ (made like new/, used by nobody here), the umask
(mkstemp asks for 0600 and mkdir for 0700 anyway), the text of folder names.

### LdaDelivery

The thread (`pc`) and the command run at the same time, joined by a pipe that
holds `PipeRoom` buffers. A command may read, exit whenever it likes, or do
nothing until the alarm; only one that exits with status 0 after the end of its
input counts as `done`. Failures of a command are logged and the loop goes on;
a failure of `fork` ends it. The MTA may offer a message again after an error,
which may also come from a module that runs after this one. libmilter ignores
SIGPIPE, so writing to a command that is gone is an error and not the end of the
process. The text of the body is followed, character by character as
`lda_write_body` takes it, until the file is closed (`sent` is what libmilter
passed on, `body` what is in the file, `cr` is `md_cr`); from then on the message
is a number of buffers. maildrop, gzip and enczip have the same loop. The shell is assumed to be the only holder of the pipe's read end, and
reading the temporary file does not fail.

## 3. Runs

| Run | Shows | Instance |
|---|---|---|
| `config` | counting exact, nothing freed in use, no leak, no stuck mutex, refinement of `ConfigStore`, RELOAD available again | 3 threads, 2 administrators, 3 configurations |
| `straddle_free` | **violation**: a reload between the two reads of `cur_cfg` frees what is about to be locked | 2 threads |
| `manager` | counter exact, admission and refusal right, only clients with the password reload and no line is torn, every place given back | 3 clients, limits 1 and 2, 2 passwords, 18 inputs |
| `manager_drift` | **violation**: the stray unlock makes the counter too high for good | 3 clients |
| `session` | one reference, clean between messages, messages not mixed, the verdict agrees with what was kept | 3 modules, 2 messages, all failures |
| `session_dangling` | **violation**: a failed open leaves a freed buffer in the list | 2 modules, 1 message |
| `filter` | the list is what the settings ask for, every node given back once | 4 senders, 3 recipient lists, 80 settings, 8 directories |
| `filter_late` | **violation**: a search that fails late makes lists be freed twice | as `filter`, fewer settings |
| `maildir` | kept in every folder, whole but for a last CR whose write failed, refused in none, no litter, every store ends | 2 stores, nested and shared folders, all failures but short writes |
| `maildir_short` | **violation**: a short write of a header line passes as complete | 2 stores |
| `lda` | line ends converted whatever the chunks; whole message to everyone, once; duplicates explained; nothing left; it ends | 3 entries, 2 attempts, bodies of up to 4 characters, all failures |
| `load` | a valid file taken, and no other but for a number too long for an `int`; settings as written, numbers in range, needed strings not null; modules in order; memory accounted for; log where it belongs | 12 module files, over 160 configuration files, start and one reload, memory exhausted anywhere |

### Quiet behaviours

`config_retrieve` names its mutex with one read of `cur_cfg` and uses another: a
reload between the two breaks the protocol, as the run `straddle_free` shows. To
say what holds otherwise, the history variable `straddled` becomes TRUE at such
a reload, `QuietSpec` is `Spec` without these steps, and the properties are
checked of `QuietSpec`. The same is done in `ManagerPool` with
`strayed`, which becomes TRUE when the refusal's unlock hits a mutex somebody
holds. Nothing else is excluded. `CurrentIsLive`
(proved, not a run's property) needs no such restriction.

In `MilterSession` and `SaveFilter` a fault that breaks memory safety stops the
behaviour at the step that has no defined outcome. The `filter` run has all
faults but `laterSearch`, which is what `filter_late` shows; the `maildir` run
all but `shortWrite`, which is what `maildir_short` shows.

### Bounds

* Three configurations are two reloads: enough for one to wait for its
  connections while another is made, and for both to be freed in either order.
  Two reads, two counters and two mutexes are all that interact.
* Three threads: two administrators, who may overlap, and a third that holds or
  retrieves meanwhile. The proofs cover any number.
* Limits 1 and 2 with three clients reach refusal, a limit lowered below the
  number of sessions, and a limit raised while clients leave. `Modulus` 8 is
  beyond any count, so wrapping only shows a miscount.
* A `MAX_CMD_LEN` of 6 leaves room for LOGIN with a password and blanks (a word
  is one character); the lines that are longer end one and two characters behind
  the buffer, have a CR as its last character, or a command behind it.
* Two messages show what one leaves to the next. Three modules give a first, a
  middle and a last one to fail.
* One sender and up to three recipients are enough for a node to leave the LDAP
  list at its head, in the middle and at its tail, with the save list empty and
  not.
* Two stores, one of them of either of two modules: one folder in common, one
  nested folder, one folder named twice by two addresses. One value of `Times`
  is the worst case for names. Three inodes are the two messages' and a
  compressor's output. Of a line of `HeaderLen` 3 a write of 1 is noticed as
  short and a write of 2 is not.
* Three list entries give a first, a later and a last command; two of them are
  the same address, which the code does not exclude. A message of three buffers
  does not fit a pipe of two, so that the writer waits.

* In `load` every configuration file is one of five right ones, or has one or two
  lines more, or one less; a reload after a start shows what an old configuration
  leaves behind. `UINT` is 2^18 instead of 2^32: what is cut off, negative as an
  `int`, or too large for a port still differs, and TLC's integers hold it.
* A body of four characters after the separator has every pair of CR, LF and
  another character at every place, across any boundary, and at its end.

### Fairness

Threads are scheduled (weak fairness of every step inside a function). A
connection ends: `smfi_settimeout` bounds a silent MTA and `CommandTimeOut`, at
least 1 second by `is_timeout`, a silent administrator; that clients eventually
leave is an assumption on them. Nothing forces a client to connect or an
administrator to reload. In the quiet specifications a reload (or a refusal)
waits out the steps it must not interrupt; those steps are themselves fair.

A store's steps are fair: threads are scheduled, compressors end, and a silent
MTA is given up. `LdaDelivery` assumes nothing of commands but that the alarm
kills them, and of `pipe2` that it does not fail for ever: the loop tries again
with the same address as often as it fails.

## 4. Proofs

`ConfigRef_proofs` is checked by TLAPS for every set of threads and administrators and every number of configurations,
from `ThreadsAssumption` (the threads are finitely many, administrators are
threads, `NoThread` is none) and `MaxConfigsAssumption`.

* `BaseInv` is inductive for `Spec`: types and locals, `CurrentIsLive`, and what
  supports it: a freshly loaded configuration is known to its loader alone
  (`LoaderAlone`), who is about to free has one that was replaced (`RetirerOld`),
  the current one is not marked (`MarkedOld`), what was never allocated is
  referred to by nobody (`UnbornUntouched`). It gives `TypeCorrect` and
  `CurrentAlwaysLive`, for all behaviours.
* `QuietInv` is preserved by every step after which `straddled` is still FALSE.
  `CountExact` is not inductive by itself: a register may be stale, so
  `RegisterExact` says the register of whoever is inside the mutex equals the
  counter; that needs `NoAbandonedMutex` (inside means owner) and that a thread
  between its two reads has the current configuration (`WindowCurrent`).
  `FreerAlone` says nobody else refers to what is being freed, `RetirerUnique`
  that no two threads retire the same configuration, `AccountedFor` that a
  configuration not yet freed will be handled by somebody. The theorems
  `HeldIsLive`, `RefCountExact`, `MutexReleased`, `ReloadingJustified`,
  `FreeIsExclusive` and `NoLeak` follow as `Spec => [](~straddled => ...)`.
* `Refinement` (`QuietSpec => StoreRefined`): the second read of `cur_cfg` is
  `Acquire`, the store of the decremented counter `Release`, the swap `Replace`,
  `free_config` `Reclaim`; every other step stutters.

`ManagerPool_proofs` holds for finitely many clients, every limit and width of the
counter that can count them (`ConnsAssumption`, `LimitsAssumption`), every buffer
size, and any texts of the clients (`InputsAssumption`).

* `CountExact` is not inductive: a register may be stale, two threads might change
  the counter at once. `QuietInv` adds that who is inside the critical section owns
  `tc_lock` (`LockOwned`), that the register of who is between load and store is
  the counter (`RegistersExact`), and that a client past the check has a place
  (`RoomAhead`). It is preserved by every step after which `strayed` is still
  FALSE, and gives `ThreadCountExact`, `NeverTooMany` and `RefusedRightly`.
* `OnlyProvenReload` needs what the handler does with a text. The lemmas before it
  show, for any text, that what `read_line` takes as a whole is one line
  (`ReadLineTakesOne`), and that a line taken apart as a LOGIN with the password is
  one in which the client said so. `ProvenInv` (a session is in step,
  and authenticated only if the password was given on this connection) is then
  inductive for `Spec`, quiet or not.

`MilterSession_proofs` holds for every list of different modules, any number of
messages and every set of failures (`ModulesAssumption`, `BoundsAssumption`). `Inv`
says, for each place in the callbacks: which of them may run (`Phases`), whose
addresses are in `mlfiPriv` (`Envelope`), which modules have a temporary file, by
their position relative to the loop (`Extras`), and with what in it (`Files`),
which messages had neither header nor body (`Empties`), which have a verdict
(`Verdicts`), and what is archived of them so far (`Archives`, `Truthful`).
`CleanBetween` and `VerdictAlwaysTruthful` follow from it; `ArchivedWhole` is an
action property of the one step that archives. `DanglingOnlyAfterOpen` is the
other half of the run `session_dangling`: without the two failures it shows, the
behaviour never becomes undefined.

`MaildirStore_proofs` holds for any number of stores, folders of any depth, any
lists of them, and any set of faults (`StoresAssumption`).

* First come lemmas on the lists: `DirList` names every wanted folder once; in
  `DirsOf` a directory comes after its parent.
* `Own` says a temporary file belongs to one store and no name of another store
  leads to it; `Names` that a name bears the number of its inode and is not
  linked twice. Together they make `link` succeed for a store that is not `hurt`.
  `Preparing` says that what is still to be made is closed under parents, whoever
  made the rest. `Links` says that what is linked and what is still to be linked
  are the wanted folders; it gives `EverywhereKept` and `ErrorAbsent`.
  `Temporaries` gives `EndClean`.
* `OnlyWhole` is for faults without `shortWrite`, which is what the run
  `maildir_short` shows to break it: `Progress` says how much of the file is
  written at each step, `NamesComplete` that a name leads to a complete file. A body
  may lack a CR at its very end, and only if `Faults` has `write` (`WholeBody`).

`SaveFilter_proofs` holds for all sets of messages, settings and directories and
every `MostRecipients` (`FilterAssumption`).

* The inductive invariant says there are two sequences `S` and `R` of nodes that
  are the lists in memory, without a node in common; exactly their nodes are live
  (`Memory`); and as long as the selection goes on they hold what has been
  selected and what is left to LDAP (`Selected`). Every operation on the pointers
  (push, move from one list to the other, free) is a lemma about such sequences.
* `GivenBack` is for faults without `laterSearch`, which is what the run
  `filter_late` shows to break it.
* `SavedRight` is for `PlainAddresses`: `strchr` takes the first "@" of an address
  for the beginning of its domain, so that one with a quoted local part that
  contains "@" is not compared as the settings say. Nothing else is assumed. The
  list is walked to its end by a pigeonhole argument: it repeats no node.

`LdaDelivery_proofs` holds for every list of addresses, every size of message,
body and pipe, every set of faults and number of attempts, from `LdaAssumption`. Its
inductive invariant `Inv` has one part per idea, and every part is shown to be
preserved by every action: `Types` and `Bounds`; `Resources` (which step owns
file, pipe and command), which gives `NothingLeftBehind`; `Progress` (`served` is
the part of the list before, or up to, `next`), which gives
`EveryoneServedAlways`; `Stream` (what the command has read followed by what is in
the pipe is the beginning of the file, as far as it has been read), without which
`WholeMessages` is not inductive; `Copies` (an entry that is not `undone` has no
copy, or one from the attempt still going well), which gives
`SecondCopyAlwaysExplained`; `Counted` (an attempt adds at most one copy), which
`TypeCorrect` needs; `Text` (the body as it comes, waits and is written consists of
characters, at most `MaxBody` of them come). `BodyAlwaysConverted` adds `Stored`:
between two characters the file holds what is kept of the text before them, except
for the CR that `md_cr` remembers (`Loop`). What is kept of a text does not depend
on what comes later than one character on (`KeptAgrees`), so that the next call may
bring anything.

`ConfigLoad_proofs` holds for any contents of module.conf and messasy.conf
(`FilesAssumption`), any width of integers that holds a port (`WidthAssumption`) and
any number of loads. `AddressAssumption` says that an empty text is no IP address,
`DefaultAssumption` that only the three mandatory settings have no default.
`NullAssumption` says that a null pointer and memory nobody has
set are different, and neither is a string of a file or a pointer to one.

* First come the tables: the main one has 23 entries and each module's an entry
  without a default, offsets count up, and no keyword comes twice in a table or in
  two of them.
* `StructInv` is inductive for `Spec`. `HandlesInv`: the handles are the names of the
  lines read so far, backwards (`Named`, with `NamesFacts` on the recursive
  `NamesIn`). `BuildInv`: the table of this load is the main one followed by those of
  the modules initialised so far, each where its extra_config says (`Laid`, `Placed`),
  the offset of every entry is its own index although each module's were shifted by
  the size at its time, and every list has one node per module, the last one first
  (`Listed`). `UseInv` says the same of the configuration in use, `LogInv` where the
  log is while a load goes on. `LineKeeps`, `FailKeeps` and `ModuleInitKeeps` are what
  the actions have in common.
* `TypeCorrect`, `HooksAlwaysInOrder` (the two reversals cancel out) and
  `LogAlwaysAsConfigured` follow.
* `SettingsInv` is inductive together with `StructInv`. `ReadSoFar`: what the lines
  before `at` have made of `check`, `error` and every field whose entry the search
  finds (`First`). Modules have their fields in different places (`Spread`), and if one
  is loaded twice, an entry of its second table is never found and has no default, so
  the file is refused (`CompleteExactly`). `FileRead`: behind
  the last line and the defaults, `error` says whether the file is `Complete`, and if
  it is, every field `Agrees` with what the lines mean. `ChecksExact` adds what
  `set_config` tests.
* These invariants speak of what the loader makes of a file, its cut numbers included
  (`ReadMeaning`, `LineTaken`, `ReadValid`), and `TakenIffValid` says that it takes a
  file exactly if that is right. `Uncut` (a number an `int` holds comes back from the
  cut) and `NumberFits` (no test takes a number that no `int` holds) lead from there to
  the file's own `Meaning` and `Valid`: a valid file is taken (`ValidTaken`), a wrong
  line that is taken has a number too long (`TakenValid`). `AcceptedAlwaysIfValid`
  follows.
* `CurrentInv` says of the configuration in use what holds when it is installed
  (`Installs`) and what no other step changes (`OnlyInstalledChanges`). `AsTaken`
  puts what the file means in place of what the loader made of it: the same, unless a
  number is too long. A number is in its range even then, because the test takes what
  is left by the cut (`Numbers`); a needed string is not null, because it has a default
  and every text its test takes is not empty (`NeededEntries`, `TextGiven`), or because
  `set_config` asks for it; what `split_comma` returns is the list of the text's parts, each once
  (`SplitIsList`, by going from comma to comma). `SettingsAlwaysAsWritten` follows.
* `MemoryInv` is inductive beside these two (`StepInv` is all three). Its central
  part, `HeapInv`, is a set of books kept at every step, where `NothingLeaks` speaks
  only of a process at rest: what `malloc` gave is exactly what the configuration in
  use would free (`InUse`) and what the one being built holds (`Holding`: its
  strings by the table of entries, its nodes, its table), but for what is known to be
  lost and dummy's names. Each operation on the heap is a lemma about such books
  (`BooksOpened`, `BooksMore`, `BooksSwapped`, `BooksDropped`, `BooksTurned`,
  `BooksClosed`). `LoadsInv` keeps the two configurations apart: objects bear the number of
  their load, and the one in use comes from an earlier one. `FreedIs` shows that
  `free_config`, which goes by handles and looks each module's structure up by
  name, frees what the table calls strings; it needs that no module is listed
  twice, which a file that is taken implies (`OnceInv`). `FieldsInv` says that a
  string whose keyword has not come yet is unset, so that a line or a default overwrites
  nothing but a string of the same field, and that only dummy's fields hold what the
  memory held before. `WildInv` names the causes of a free that is not right.
  `MemoryAlwaysAccounted` follows. `MemoryInv` was checked with TLC on the files of
  the run `load` before it was proved.

Induction over texts, lists and lengths is done without operators as parameters:
every set of naturals has a least member (`LeastExists`, from the library's theorem
on finite sets under strict inclusion), so a set that contains 0 and is closed
under + 1 up to n contains everything up to n (`UpTo`); that a recursive function
has the values its definition says is `RecursionExists`.

Some theorems state what supports the others and no run lists: that the current
configuration is allocated, that `free_config` runs on one nobody refers to, that
`config_reloading` is TRUE only for a reason, that `tc_lock` and the registers are
exact.

Only model-checked: the liveness properties (the prover does not do liveness
under fairness). Every safety invariant and action property of the passing runs is
stated by a theorem.

## 5. Findings

`PROJECT.json` lists them with their lines. In short: `config_retrieve` must not
read `cur_cfg` twice, line 573 of `client_side.c` must not unlock, a module must
clear `expv_modulepriv` when its open fails, `check_ldap` must not leave its
caller a list it has taken apart, and the header's write loop must go on until
nothing is left.

Met while modelling, and named by the properties as exceptions rather than run
as violations, because no text of the repository promises otherwise:

* `config_reloading` is tested without a lock before `set_config` and set after
  it (`msy_config.c:459`, `473`): two RELOADs that overlap both proceed. The
  properties of `config` hold all the same.
* `read_dust` reads until CRLF, says its comment (`client_side.c:364`), but returns
  on a time-out too (line 367), and the session goes on: a client that pauses
  for `CommandTimeOut` within a line that is too long has the rest of it taken
  for a command (`DustGivenUp`). `ReloadsAreProven` counts that rest as a new line.
* A RELOAD that fails leaves the log on standard error (`msy_config.c:960`), as
  `LogAsConfigured` says.
* A keyword that comes twice leaks the first string (`libdgconfig.c:396`), and
  dummy leaks its copies of names: the exceptions of `NothingLeaks`.
* A module listed twice makes every configuration file invalid, because the second
  entry of each keyword gets no line; at the refusal the strings of the first are
  freed twice. dummy's settings are not zeroed: if the file has `Dummy=` with nothing behind it,
  the field keeps what the memory held before (`ExtrasAsWritten`), and it may be freed
  uninitialised.
  `main` frees the handles `read_module_config` has freed. These are the exceptions
  of `WildExplained`.
* When `malloc` or a module's `_init` fails, the lists made so far are lost, and
  so is the configuration itself if there is no memory for the table.
* A last CR whose write fails is dropped and nobody notices: `liblda.c:1080`,
  `libmaildrop.c:1270`, `libgzip.c:1301` and `libenczip.c:1312` compare a `size_t`
  with 0, and the message is stored or delivered without it. `BodyConverted` and
  `FoldersHoldWhole` name it.
* A number of messasy.conf is put into an `unsigned int` (`libdgconfig.c:319`) before
  it is tested. The tests for "too large" and "must be plus" (lines 333-345) compare
  that with `LONG_MAX` and never fire: `ListenPort` of 2^32 + 25 is in use as 25.
  `AcceptedIffValid` and `ValuesAsWritten` name it; every number in use is within its
  range all the same.
* `LdapMailFilter=` with nothing behind it is taken and leaves a null pointer, which
  `filter.c:345` passes to `str_replace_format`, where `strchr` (`utils.c:338`) reads
  through it. It is the one string `ValuesUsable` says nothing of.

## 6. Not modelled

libdgmail (RFC 2822 and MIME text) and libdgstr (growable strings) are sequential
and local: only `get_addrpart` is used by the server, and its result enters
`SaveFilter` as an address. Of libdgconfig how blanks around a keyword and its value
are skipped, of the utilities `get_serialno` and `get_sessid` (identifiers appear in
the log only) and `str_replace_format`. Logging is left out. How `cmd_strrep` cuts a
command line and how lda makes one for an address are text handling. Compression and
delivery commands are external programs. `mlfi_eoh` is not registered with
libmilter.

## 7. Plan

1. Done: `ConfigRef`, `ManagerPool`, `MilterSession`, `SaveFilter`,
   `MaildirStore`, `LdaDelivery`, `ConfigLoad`.
2. Proofs. Done: `ConfigRef` and its refinement, `ManagerPool`, `MilterSession`,
   `SaveFilter`, `MaildirStore`, `LdaDelivery`, `ConfigLoad`.
3. `MessasySystem`: connections of `MilterSession` over `ConfigStore`.
