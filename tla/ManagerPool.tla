---------------------------- MODULE ManagerPool ----------------------------
(***************************************************************************)
(* The management interface of client_side.c: the thread of manager_main   *)
(* accepts connections, counts them in thread_count and starts one         *)
(* request_handler each; a handler serves LOGIN, RELOAD and QUIT, gives    *)
(* its place back with decrement_tc and closes its socket.                 *)
(*                                                                         *)
(* One step per access to thread_count and tc_lock.  mpc and st say which  *)
(* statement comes next:                                                   *)
(*                                                                         *)
(*   manager_main     "accept" -> "accepted" -> "check" -> "refuse" or     *)
(*                    "incLock" -> "incLoad" -> "incStore" -> "incUnlock"  *)
(*                    -> "spawn" -> "accept"                               *)
(*   request_handler  "read" -> "decLock" -> "decLoad" -> "decStore" ->    *)
(*                    "decUnlock" -> "close" -> "away"                     *)
(*                                                                         *)
(* What config_retrieve, config_release and reload_config do is ConfigRef; *)
(* here they read and replace the limit and the password of the current    *)
(* configuration.                                                          *)
(*                                                                         *)
(* What a client sends is a sequence of tokens: CR, LF, a blank, or a word *)
(* (a command in letters of either case, or other characters); each counts *)
(* as one character.  A NUL is not among them.                             *)
(***************************************************************************)
EXTENDS Integers, FiniteSets, Sequences, SequencesExt

CONSTANTS
  Conns,      (* the clients that may connect; each has one socket at most *)
  Manager,    (* the thread of manager_main, as an owner of tc_lock        *)
  NoOne,      (* the owner of the unlocked tc_lock, and no connection      *)
  Limits,     (* the CommandMaxClients values RELOAD may bring             *)
  Passwords,  (* the AdminPassword values RELOAD may bring                 *)
  Inputs,     (* what a client may send until read_line returns            *)
  MAX_CMD_LEN,
  Modulus     (* 2^(width of thread_count)                                 *)

ASSUME ConnsAssumption ==
  /\ IsFiniteSet(Conns)
  /\ Manager \notin Conns /\ NoOne \notin Conns /\ Manager # NoOne

(* is_commandmaxclients refuses values below 1; there are fewer sockets    *)
(* than values of an unsigned int.                                         *)
ASSUME LimitsAssumption ==
  /\ Limits \subseteq Nat \ {0} /\ Limits # {}
  /\ Modulus \in Nat /\ Cardinality(Conns) + 1 < Modulus

ASSUME InputsAssumption ==
  /\ Passwords \subseteq Seq(STRING) \ {<<>>} /\ Passwords # {}
  /\ Inputs \subseteq Seq(STRING)
  /\ MAX_CMD_LEN \in Nat \ {0}

VARIABLES
  threadCount,  (* thread_count                                            *)
  tcLock,       (* owner of tc_lock                                        *)
  limit,        (* cf_commandmaxclients of the current configuration       *)
  password,     (* cf_adminpassword of the current configuration           *)
  mpc,          (* the next statement of manager_main                      *)
  mconn,        (* fd: the connection manager_main is working on           *)
  mlimit,       (* cf_commandmaxclients of the configuration it retrieved  *)
  mreg,         (* the register of its thread_count++                      *)
  st,           (* per connection: the next statement of its handler       *)
  auth,         (* per connection: LOGIN_STATE_AUTH in mc_state            *)
  reg,          (* per connection: the register of its thread_count--      *)
  proven,       (* history: who gave the password on this connection       *)
  inStep,       (* history: who had every line taken for one line          *)
  strayed       (* history: the refusal's unlock took a lock from a holder *)

mgrVars == <<mpc, mconn, mlimit, mreg>>
config == <<limit, password>>
historyVars == <<proven, inStep>>
connVars == <<st, auth, reg, historyVars>>
vars == <<threadCount, tcLock, config, mgrVars, connVars, strayed>>

(* exit() ends every thread.                                               *)
Running == mpc # "exited"

Step(c, label) == st' = [st EXCEPT ![c] = label]

(* manager_main closes fd and accepts the next connection.                 *)
CloseAndAccept ==
  /\ mpc' = "accept"
  /\ mconn' = NoOne
  /\ Step(mconn, "away")

-----------------------------------------------------------------------------
(* manager_main *)

AcceptConn(c) ==
  /\ mpc = "accept"
  /\ st[c] = "away"
  /\ mpc' = "accepted"
  /\ mconn' = c
  /\ Step(c, "accepted")
  /\ proven' = proven \ {c}
  /\ inStep' = inStep \cup {c}
  /\ UNCHANGED <<threadCount, tcLock, config, mlimit, mreg, auth, reg, strayed>>

(* With libwrap: hosts_ctl refuses the peer.                               *)
HostsDenied ==
  /\ mpc = "accepted"
  /\ CloseAndAccept
  /\ UNCHANGED <<threadCount, tcLock, config, mlimit, mreg, auth, reg, historyVars, strayed>>

RetrieveLimit ==
  /\ mpc = "accepted"
  /\ mlimit' = limit
  /\ mpc' = "check"
  /\ UNCHANGED <<threadCount, tcLock, config, mconn, mreg, connVars, strayed>>

(* Mutant: one session more than the limit.                                *)
CheckLater ==
  /\ mpc = "check"
  /\ mpc' = IF threadCount > mlimit THEN "refuse" ELSE "incLock"
  /\ UNCHANGED <<threadCount, tcLock, config, mconn, mlimit, mreg, connVars,
                 strayed>>

(* Mutant: the last place is never given away.                             *)
CheckEarlier ==
  /\ mpc = "check"
  /\ mpc' = IF threadCount + 1 >= mlimit THEN "refuse" ELSE "incLock"
  /\ UNCHANGED <<threadCount, tcLock, config, mconn, mlimit, mreg, connVars,
                 strayed>>

(* thread_count is read without tc_lock.                                   *)
Check ==
  /\ mpc = "check"
  /\ mpc' = IF threadCount >= mlimit THEN "refuse" ELSE "incLock"
  /\ UNCHANGED <<threadCount, tcLock, config, mconn, mlimit, mreg, connVars,
                 strayed>>

(* Mutant: the refused socket is not closed.                               *)
RefuseKeepsOpen ==
  /\ mpc = "refuse"
  /\ tcLock' = NoOne
  /\ strayed' = (strayed \/ tcLock # NoOne)
  /\ mpc' = "accept"
  /\ mconn' = NoOne
  /\ UNCHANGED <<threadCount, config, mlimit, mreg, connVars>>

(* The refusal unlocks tc_lock, which manager_main does not hold.          *)
Refuse ==
  /\ mpc = "refuse"
  /\ tcLock' = NoOne
  /\ strayed' = (strayed \/ tcLock # NoOne)
  /\ CloseAndAccept
  /\ UNCHANGED <<threadCount, config, mlimit, mreg, auth, reg, historyVars>>

IncLock ==
  /\ mpc = "incLock"
  /\ tcLock = NoOne
  /\ tcLock' = Manager
  /\ mpc' = "incLoad"
  /\ UNCHANGED <<threadCount, config, mconn, mlimit, mreg, connVars, strayed>>

IncLoad ==
  /\ mpc = "incLoad"
  /\ mreg' = threadCount
  /\ mpc' = "incStore"
  /\ UNCHANGED <<threadCount, tcLock, config, mconn, mlimit, connVars, strayed>>

IncStore ==
  /\ mpc = "incStore"
  /\ threadCount' = (mreg + 1) % Modulus
  /\ mreg' = 0
  /\ mpc' = "incUnlock"
  /\ UNCHANGED <<tcLock, config, mconn, mlimit, connVars, strayed>>

IncUnlock ==
  /\ mpc = "incUnlock"
  /\ tcLock' = NoOne
  /\ mpc' = "spawn"
  /\ UNCHANGED <<threadCount, config, mconn, mlimit, mreg, connVars, strayed>>

(* Mutant: mc_state is left as malloc found it.                            *)
SpawnUninitialised ==
  /\ mpc = "spawn"
  /\ mpc' = "accept"
  /\ mconn' = NoOne
  /\ Step(mconn, "read")
  /\ UNCHANGED <<threadCount, tcLock, config, mlimit, mreg, auth, reg, historyVars, strayed>>

(* A new manager_control, the banner, pthread_create and pthread_detach.   *)
Spawn ==
  /\ mpc = "spawn"
  /\ mpc' = "accept"
  /\ mconn' = NoOne
  /\ Step(mconn, "read")
  /\ auth' = [auth EXCEPT ![mconn] = FALSE]
  /\ UNCHANGED <<threadCount, tcLock, config, mlimit, mreg, reg, historyVars, strayed>>

(* strdup, malloc or pthread_create fails: exit(EXIT_MANAGER).             *)
ManagerExits ==
  /\ mpc \in {"accepted", "spawn"}
  /\ mpc' = "exited"
  /\ UNCHANGED <<threadCount, tcLock, config, mconn, mlimit, mreg, connVars,
                 strayed>>

-----------------------------------------------------------------------------
(* read_line: how many characters it takes, and the line they are.         *)

check_crlf(c, state) ==
  CASE c = "CR" -> "CR_FOUND"
    [] c = "LF" /\ state = "CR_FOUND" -> "CRLF_FOUND"
    [] OTHER -> "NONE"

(* The state before the first character of s, and after each of them.      *)
States(s, state) ==
  LET after[i \in 0 .. Len(s)] ==
        IF i = 0 THEN state ELSE check_crlf(s[i], after[i - 1])
  IN  [i \in 1 .. Len(s) + 1 |-> after[i - 1]]

(* The characters up to the end of a line, 0 if s has no end.              *)
Taken(s, state) ==
  LET end == SelectInSeq(States(s, state), LAMBDA x : x = "CRLF_FOUND")
  IN  IF end = 0 THEN 0 ELSE end - 1

(* The rest of a line that is too long; its LF may come first.             *)
read_dust(s, state) == Taken(s, state)

(* What fits the buffer, and what comes after it.                          *)
Room(s) == SubSeq(s, 1, Min({Len(s), MAX_CMD_LEN + 1}))
Dust(s) == SubSeq(s, MAX_CMD_LEN + 2, Len(s))

R_TOOLONG == <<"TOOLONG">>

(* How many characters read_line takes of s, 0 if it waits for more.       *)
ReadTaken(s) ==
  LET dust == read_dust(Dust(s), Last(States(Room(s), "NONE")))
  IN  IF Taken(Room(s), "NONE") # 0 THEN Taken(Room(s), "NONE")
      ELSE IF dust # 0 THEN Len(Room(s)) + dust ELSE 0

read_line(s) ==
  LET taken == Taken(Room(s), "NONE")
  IN  IF taken = 0 THEN R_TOOLONG ELSE SubSeq(s, 1, taken - 2)

-----------------------------------------------------------------------------
(* request_handler: the commands of a line, and their arguments.           *)

IsBlank(c) == c = "SP"
FirstWordAt(s) == SelectInSeq(s, LAMBDA c : ~IsBlank(c))

(* The words manager_command lists end with a blank or the line.           *)
Command(line) ==
  LET at == FirstWordAt(line)
  IN  IF /\ at # 0
         /\ line[at] \in {"LOGIN", "RELOAD", "QUIT"}
         /\ at = Len(line) \/ IsBlank(line[at + 1])
      THEN line[at] ELSE "unknown"
Arg(line) == SubSeq(line, FirstWordAt(line) + 1, Len(line))

(* The places where a word of arg begins and ends.                         *)
Starts(arg) ==
  {i \in DOMAIN arg : ~IsBlank(arg[i]) /\ (i = 1 \/ IsBlank(arg[i - 1]))}
EndOf(arg, i) ==
  LET blank == SelectInSubSeq(arg, i, Len(arg), IsBlank)
  IN  IF blank = 0 THEN Len(arg) ELSE blank - 1

(* Where the n-th word begins.                                             *)
Start(arg, n) ==
  CHOOSE i \in Starts(arg) : Cardinality({j \in Starts(arg) : j <= i}) = n

(* At most num words are looked for; one more is counted if anything, be   *)
(* it blanks, comes after the last of them.                                *)
parse_arg(arg, num) ==
  LET words == Cardinality(Starts(arg))
  IN  IF words < num THEN words
      ELSE IF EndOf(arg, Start(arg, num)) = Len(arg) THEN num ELSE num + 1
Param(arg) == LET i == FirstWordAt(arg) IN SubSeq(arg, i, EndOf(arg, i))

SyntaxError(line) ==
  \/ Command(line) = "LOGIN" /\ parse_arg(Arg(line), 2) # 1
  \/ Command(line) \in {"RELOAD", "QUIT"} /\ parse_arg(Arg(line), 1) # 0

(* What a client means, however its line is read: one line, and one that   *)
(* consists of LOGIN and pw.                                               *)
OneLine(s) ==
  {i \in 1 .. Len(s) - 1 : s[i] = "CR" /\ s[i + 1] = "LF"} = {Len(s) - 1}
Blanks(n) == [i \in 1 .. n |-> "SP"]
SaysLogin(s, pw) ==
  /\ OneLine(s)
  /\ \E i, j, k \in 0 .. Len(s) :
       /\ j > 0
       /\ s = Blanks(i) \o <<"LOGIN">> \o Blanks(j) \o pw \o Blanks(k) \o <<"CR", "LF">>

(* What one call of read_line takes.                                       *)
Takes == {s \in Inputs : s # <<>> /\ ReadTaken(s) = Len(s)}

Reads(c, s) ==
  /\ st[c] = "read" /\ s \in Takes
  /\ inStep' = IF OneLine(s) THEN inStep ELSE inStep \ {c}

(* The password is looked up in the configuration of this moment.          *)
LoginSucceeds(c, s) ==
  /\ Reads(c, s)
  /\ Command(read_line(s)) = "LOGIN" /\ ~SyntaxError(read_line(s))
  /\ ~auth[c]
  /\ Param(Arg(read_line(s))) = password
  /\ auth' = [auth EXCEPT ![c] = TRUE]
  /\ proven' = IF SaysLogin(s, password) THEN proven \cup {c} ELSE proven
  /\ UNCHANGED <<threadCount, tcLock, config, mgrVars, st, reg, strayed>>

(* LOGIN once more (whatever the password), a syntax error, an unknown     *)
(* command or a line that is too long: answered, and the session goes on.  *)
LineAnswered(c, s) ==
  /\ Reads(c, s)
  /\ \/ Command(read_line(s)) = "unknown"
     \/ SyntaxError(read_line(s))
     \/ Command(read_line(s)) = "LOGIN" /\ auth[c]
  /\ UNCHANGED <<threadCount, tcLock, config, mgrVars, st, auth, reg, proven, strayed>>

ReloadSucceeds(c, s, n, pw) ==
  /\ Reads(c, s)
  /\ Command(read_line(s)) = "RELOAD" /\ ~SyntaxError(read_line(s))
  /\ auth[c]
  /\ limit' = n /\ password' = pw
  /\ UNCHANGED <<threadCount, tcLock, mgrVars, st, auth, reg, proven, strayed>>

(* QUIT; RELOAD without LOGIN, or one that fails or is refused because     *)
(* another is going on; LOGIN with a wrong password.                       *)
LineEndsSession(c, s) ==
  /\ Reads(c, s)
  /\ ~SyntaxError(read_line(s))
  /\ \/ Command(read_line(s)) \in {"QUIT", "RELOAD"}
     \/ /\ Command(read_line(s)) = "LOGIN" /\ ~auth[c]
        /\ Param(Arg(read_line(s))) # password
  /\ Step(c, "decLock")
  /\ UNCHANGED <<threadCount, tcLock, config, mgrVars, auth, reg, proven, strayed>>

(* Within a line that is too long the client sends nothing for             *)
(* CommandTimeOut: read_dust returns as if the line had ended, and the     *)
(* session goes on.  The rest of the line is an input of its own then.     *)
DustGivenUp(c, s) ==
  /\ st[c] = "read"
  /\ Len(s) > MAX_CMD_LEN /\ ReadTaken(s) = 0
  /\ UNCHANGED vars

(* Time-out, error or end of file in read_line.                            *)
SessionEnds(c) ==
  /\ st[c] = "read"
  /\ Step(c, "decLock")
  /\ UNCHANGED <<threadCount, tcLock, config, mgrVars, auth, reg,
                 historyVars, strayed>>

(* Mutant: decrement_tc without tc_lock.                                   *)
DecWithoutLock(c) ==
  /\ st[c] = "decLock"
  /\ Step(c, "decLoad")
  /\ UNCHANGED <<threadCount, tcLock, config, mgrVars, auth, reg, historyVars, strayed>>

DecLock(c) ==
  /\ st[c] = "decLock"
  /\ tcLock = NoOne
  /\ tcLock' = c
  /\ Step(c, "decLoad")
  /\ UNCHANGED <<threadCount, config, mgrVars, auth, reg, historyVars, strayed>>

DecLoad(c) ==
  /\ st[c] = "decLoad"
  /\ reg' = [reg EXCEPT ![c] = threadCount]
  /\ Step(c, "decStore")
  /\ UNCHANGED <<threadCount, tcLock, config, mgrVars, auth, historyVars, strayed>>

DecStore(c) ==
  /\ st[c] = "decStore"
  /\ threadCount' = (reg[c] - 1) % Modulus
  /\ reg' = [reg EXCEPT ![c] = 0]
  /\ Step(c, "decUnlock")
  /\ UNCHANGED <<tcLock, config, mgrVars, auth, historyVars, strayed>>

DecUnlock(c) ==
  /\ st[c] = "decUnlock"
  /\ tcLock' = NoOne
  /\ Step(c, "close")
  /\ UNCHANGED <<threadCount, config, mgrVars, auth, reg, historyVars, strayed>>

(* close, free(mc_dest), free(mc), pthread_exit.                           *)
HandlerExits(c) ==
  /\ st[c] = "close"
  /\ Step(c, "away")
  /\ UNCHANGED <<threadCount, tcLock, config, mgrVars, auth, reg, historyVars, strayed>>

-----------------------------------------------------------------------------
Init ==
  /\ threadCount = 0
  /\ tcLock = NoOne
  /\ limit \in Limits /\ password \in Passwords
  /\ mpc = "accept"
  /\ mconn = NoOne
  /\ mlimit = 0
  /\ mreg = 0
  /\ st = [c \in Conns |-> "away"]
  /\ auth = [c \in Conns |-> FALSE]
  /\ reg = [c \in Conns |-> 0]
  /\ proven = {} /\ inStep = {}
  /\ strayed = FALSE

(* What manager_main does of its own accord once a client connected.       *)
ManagerStep ==
  \/ HostsDenied \/ RetrieveLimit \/ Check \/ Refuse
  \/ IncLock \/ IncLoad \/ IncStore \/ IncUnlock \/ Spawn \/ ManagerExits

(* What a handler does of its own accord once its session is over.         *)
HandlerEnd(c) ==
  \/ DecLock(c) \/ DecLoad(c) \/ DecStore(c) \/ DecUnlock(c)
  \/ HandlerExits(c)

HandlerStep(c) ==
  \/ \E s \in Inputs :
       \/ LoginSucceeds(c, s) \/ LineAnswered(c, s) \/ LineEndsSession(c, s)
       \/ DustGivenUp(c, s)
       \/ \E n \in Limits, p \in Passwords : ReloadSucceeds(c, s, n, p)
  \/ SessionEnds(c) \/ HandlerEnd(c)

(* The process is gone.                                                    *)
Exited == ~Running /\ UNCHANGED vars

Next ==
  \/ /\ Running
     /\ \/ ManagerStep
        \/ \E c \in Conns : AcceptConn(c) \/ HandlerStep(c)
  \/ Exited

Spec == Init /\ [][Next]_vars

(* Every behaviour in which no refusal unlocks a tc_lock somebody holds.   *)
QuietSpec == Init /\ [][Next /\ ~strayed']_vars

(* Threads are scheduled.  A session ends: a client quits, disconnects or  *)
(* falls silent, and CommandTimeOut (1 at least) ends a silent one.        *)
Fairness ==
  /\ WF_vars(Running /\ ManagerStep)
  /\ \A c \in Conns : /\ WF_vars(Running /\ SessionEnds(c))
                      /\ WF_vars(Running /\ HandlerEnd(c))

QuietFairSpec == QuietSpec /\ Fairness

-----------------------------------------------------------------------------
(* Properties *)

ManagerLabels == {"accept", "accepted", "check", "refuse", "incLock",
                  "incLoad", "incStore", "incUnlock", "spawn", "exited"}
HandlerLabels == {"away", "accepted", "read", "decLock", "decLoad",
                  "decStore", "decUnlock", "close"}

(* Type invariant, with which statements have a connection at hand: one    *)
(* that was accepted is being worked on, and none is forgotten half open.  *)
TypeOK ==
  /\ threadCount \in 0 .. Modulus - 1
  /\ tcLock \in Conns \cup {Manager, NoOne}
  /\ limit \in Limits /\ password \in Passwords
  /\ mpc \in ManagerLabels
  /\ mconn \in Conns \cup {NoOne}
  /\ mlimit \in Limits \cup {0}
  /\ mreg \in 0 .. Modulus - 1
  /\ st \in [Conns -> HandlerLabels]
  /\ auth \in [Conns -> BOOLEAN]
  /\ reg \in [Conns -> 0 .. Modulus - 1]
  /\ proven \cup inStep \subseteq Conns
  /\ strayed \in BOOLEAN
  /\ mconn = NoOne <=> mpc = "accept"
  /\ \A c \in Conns : st[c] = "accepted" <=> mconn = c

(* The sessions thread_count stands for: past the ++ of increment_tc and   *)
(* before the -- of decrement_tc.                                          *)
Pending == IF mpc \in {"incUnlock", "spawn"} THEN {mconn} ELSE {}
Sessions ==
  Pending \cup
  {c \in Conns : st[c] \in {"read", "decLock", "decLoad", "decStore"}}

(* thread_count is the number of sessions ("counter of started threads"),  *)
(* however ++ and -- interleave.                                           *)
CountExact == mpc # "exited" => threadCount = Cardinality(Sessions)

(* The unlocked comparison never admits a session too many: while one is   *)
(* being started there are no more than the limit its admission was        *)
(* decided with.                                                           *)
AdmittedWithinLimit ==
  mpc \in {"incUnlock", "spawn"} => Cardinality(Sessions) <= mlimit

(* A client is turned away only when every place really is taken.          *)
RefusedOnlyWhenFull ==
  [][mpc = "check" /\ mpc' = "refuse" => Cardinality(Sessions) >= mlimit]_vars

(* The configuration is replaced only for a client that gave the password  *)
(* of its time on this very connection, whoever had the socket before, and *)
(* whose lines were all taken as it sent them: the end of a line that was  *)
(* too long is not read as a command, and no line is swallowed with it     *)
(* (what follows a silence within such a line counts as a new line).       *)
ReloadsAreProven ==
  [][config' # config =>
       \E c \in proven \cap inStep : st[c] = "read"]_vars

(* Liveness: once no more clients come, every place is given back.         *)
PoolDrains ==
  <>[](mpc = "accept") =>
    <>[](threadCount = 0 /\ \A c \in Conns : st[c] = "away")
=============================================================================
