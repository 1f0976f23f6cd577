-------------------------------- MODULE Startup --------------------------------
(***************************************************************************)
(* The life of the process around its main loop: main() with LoadConfig(), *)
(* OpenDatabase(), LoadServers() and the beginning of RunServer(), and     *)
(* SignalCatcher(), which may begin between any two of these steps, on the *)
(* main thread or, once the pool exists, beside it on a thread of the      *)
(* pool.  The file, SQLite and the sockets answer as they like.            *)
(*                                                                         *)
(* The build asks for -std=c99 and _POSIX_C_SOURCE, where signal() is the  *)
(* System V one: the handler is gone once it has been entered, and another *)
(* SIGINT ends the process.                                                *)
(***************************************************************************)
EXTENDS Integers, Sequences, FiniteSets, LinkedList

CONSTANTS
  Files,        (* what a configuration file of this instance says          *)
  Tables,       (* what the table "server" holds: enabled, for each row     *)
  MaxThreads,   (* the upper limit of config.threads: 8                     *)
  MaxPort,      (* the upper limit of config.port: 65534                    *)
  ByteSize,     (* values of the uint8_t that counts sockets                *)
  MaxSockets,   (* bound: entries of the poll array                         *)
  NULL

Default == "default"                   \* the name used where none is given
NoName == ""

UINT8_MAX == 255
UINT16_MAX == 65535

(* A file: the integers of its keys, 0 for one that is absent or not a     *)
(* number, and its names, NULL for one that is absent.                     *)
File(port, debug, threads, db, private, public) ==
  [port |-> port, debug |-> debug, threads |-> threads,
   db_file |-> db, private_key |-> private, public_key |-> public]

ASSUME StartupAssumption ==
  /\ NULL \notin {"main", "worker", "connection", "FailForgets", "row", "missing", "read"}
  /\ ByteSize \in Nat \ {0} /\ MaxSockets \in Nat \ {0}

ASSUME InputAssumption ==
  /\ MaxThreads \in Nat /\ 2 <= MaxThreads /\ MaxThreads <= UINT8_MAX
  /\ MaxPort \in Nat /\ 9988 <= MaxPort /\ MaxPort <= UINT16_MAX
  /\ \A f \in Files : f.port \in Int /\ f.debug \in Int /\ f.threads \in Int
  /\ IsFiniteSet(Elems) /\ Elems = 1..Cardinality(Elems)
  /\ \A t \in Tables : t \in Seq(BOOLEAN) /\ Len(t) <= Cardinality(Elems)

VARIABLES
  pc,           (* the next step of main()                                  *)
  ended,        (* how the process ended                                    *)
  config,
  db, handle,   (* the pointer, and the connection it was set to            *)
  res,          (* a statement is prepared and not finalized                *)
  table,        (* the rows of the database                                 *)
  row,          (* rows already stepped over                                *)
  list,         (* q2srvlist                                                *)
  servers,      (* the row each list node was filled from                   *)
  sockets,      (* the descriptors of the poll array                        *)
  open,         (* the descriptors that are open                            *)
  disposition,  (* of SIGINT                                                *)
  hpc, hthread, i,  (* SignalCatcher: its next step, its thread, its i      *)
  (* History: *)
  file,         (* what became of the configuration file                    *)
  dbFailed,     (* a call of SQLite failed                                  *)
  interrupted,  (* the step main() was about to take when SIGINT came       *)
  misused       (* a closed connection was used or closed again             *)

configVars == <<config, file>>
dbVars == <<db, handle, res, dbFailed, misused>>
listVars == <<table, row, list, servers>>
sockVars == <<sockets, open>>
sigVars == <<disposition, hpc, hthread, i, interrupted>>
vars == <<pc, ended, configVars, dbVars, listVars, sockVars, sigVars>>

Zeroed == File(0, 0, 0, NoName, NoName, NoName)

Init ==
  /\ pc = "main" /\ ended = "no"
  /\ config = Zeroed /\ file = NULL
  /\ db = NULL /\ handle = "none" /\ res = FALSE /\ dbFailed = FALSE /\ misused = FALSE
  /\ table \in Tables /\ row = 0 /\ servers = <<>>
  /\ list = [next |-> [n \in Nodes |-> ListHead], prev |-> [n \in Nodes |-> ListHead]]
  /\ sockets = <<>> /\ open = {}
  /\ disposition = "default" /\ hpc = "none" /\ hthread = NULL /\ i = 0
  /\ interrupted = NULL

(* main() takes its step l and goes on with l2.                            *)
Main(l, l2) ==
  /\ ended = "no"
  /\ pc = l /\ pc' = l2
  /\ hthread # "main"
  /\ UNCHANGED <<hpc, hthread, i, interrupted>>
-----------------------------------------------------------------------------
(* main(), LoadConfig()                                                    *)

Signal ==
  /\ Main("main", "LoadConfig")
  /\ disposition' = "SignalCatcher"
  /\ UNCHANGED <<ended, configVars, dbVars, listVars, sockVars>>

(* Mutant of Number: a number that is given is taken as it is.             *)
NumberAsGiven(val, least, most, default) == IF val # 0 THEN val ELSE default

(* Mutant of Clamp: the lower limit is forgotten.                          *)
ClampAbove(a, b, c) == IF a > c THEN c ELSE a

Clamp(a, b, c) == IF a < b THEN b ELSE IF a > c THEN c ELSE a

(* A number of the file that is not 0 is clamped, otherwise the default.   *)
Number(val, least, most, default) == IF val # 0 THEN Clamp(val, least, most) ELSE default
Name(val) == IF val # NULL THEN val ELSE Default

Defaults == File(9988, 0, 2, Default, Default, Default)

Read(f) ==
  File(Number(f.port, 1, MaxPort, 9988), Number(f.debug, 0, 1, 0),
       Number(f.threads, 1, MaxThreads, 2),
       Name(f.db_file), Name(f.private_key), Name(f.public_key))

LoadConfig ==
  /\ Main("LoadConfig", "OpenDatabase")
  /\ \/ file' = "missing" /\ config' = Defaults
     \/ file' = "unparsable" /\ UNCHANGED config
     \/ file' = "read" /\ \E f \in Files : config' = Read(f)
  /\ UNCHANGED <<ended, dbVars, listVars, sockVars, disposition>>
-----------------------------------------------------------------------------
(* OpenDatabase(), CloseDatabase()                                         *)

(* A call of SQLite with the connection db points to.                      *)
Uses == misused' = (misused \/ handle = "closed")

(* sqlite3_open() sets db also when it fails, if it has memory for it.     *)
OpenDatabase ==
  /\ \/ Main("OpenDatabase", "Schema")
        /\ db' = "connection" /\ handle' = "open" /\ UNCHANGED dbFailed
     \/ Main("OpenDatabase", "FailCloses")
        /\ db' = "connection" /\ handle' = "open" /\ dbFailed' = TRUE
     \/ Main("OpenDatabase", "LoadServers")
        /\ dbFailed' = TRUE /\ UNCHANGED <<db, handle>>
  /\ config' = [config EXCEPT !.db_file = IF @ = NoName THEN Default ELSE @]
  /\ UNCHANGED <<ended, file, res, misused, listVars, sockVars, disposition>>

Schema ==
  /\ \/ Main("Schema", "LoadServers") /\ UNCHANGED dbFailed
     \/ Main("Schema", "FailCloses") /\ dbFailed' = TRUE
  /\ Uses
  /\ UNCHANGED <<ended, configVars, db, handle, res, listVars, sockVars, disposition>>

FailCloses ==
  /\ Main("FailCloses", "FailForgets")
  /\ Uses /\ handle' = "closed"
  /\ UNCHANGED <<ended, configVars, db, res, dbFailed, listVars, sockVars, disposition>>

(* Mutant of FailForgets: the pointer is kept.                             *)
FailKeeps ==
  /\ Main("FailForgets", "LoadServers")
  /\ UNCHANGED <<ended, configVars, dbVars, listVars, sockVars, disposition>>

FailForgets ==
  /\ Main("FailForgets", "LoadServers")
  /\ db' = NULL
  /\ UNCHANGED <<ended, configVars, handle, res, dbFailed, misused, listVars, sockVars,
                 disposition>>
-----------------------------------------------------------------------------
(* LoadServers()                                                           *)

LoadServers ==
  /\ \/ Main("LoadServers", "RunServer") /\ db = NULL
        /\ UNCHANGED <<res, dbFailed, misused>>
     \/ Main("LoadServers", "RunServer") /\ db # NULL
        /\ Uses /\ dbFailed' = TRUE /\ UNCHANGED res
     \/ Main("LoadServers", "row") /\ db # NULL
        /\ Uses /\ res' = TRUE /\ UNCHANGED dbFailed
  /\ list' = List_Init(list)
  /\ UNCHANGED <<ended, configVars, db, handle, table, row, servers, sockVars, disposition>>

(* The rows of the query: SELECT * FROM server WHERE enabled = 1           *)
Enabled == {k \in DOMAIN table : table[k]}
Rest == {k \in Enabled : k > row}

(* sqlite3_step() returns the next row.                                    *)
Row ==
  /\ Main("row", "row") /\ Rest # {}
  /\ row' = CHOOSE k \in Rest : \A j \in Rest : k <= j
  /\ servers' = Append(servers, row')
  /\ list' = List_Append(list, ListHead, Len(servers'))
  /\ UNCHANGED <<ended, configVars, dbVars, table, sockVars, disposition>>

(* It returns anything else, the end or an error, which are not told apart.*)
Finalize ==
  /\ Main("row", "RunServer")
  /\ dbFailed' = (dbFailed \/ Rest # {})
  /\ res' = FALSE
  /\ UNCHANGED <<ended, configVars, db, handle, misused, listVars, sockVars, disposition>>
-----------------------------------------------------------------------------
(* RunServer(), get_listener_socket()                                      *)

RunServer ==
  /\ Main("RunServer", "socket")
  /\ UNCHANGED <<ended, configVars, dbVars, listVars, sockVars, disposition>>

Fd == 1..(MaxSockets + 1)
FreshFd == CHOOSE fd \in Fd : fd \notin open

ExitFailure == ended' = "failure"

(* Some address gave a socket that could be bound and listened to.         *)
Listen ==
  /\ Main("socket", "poll")
  /\ Fd \ open # {}
  /\ open' = open \cup {FreshFd} /\ sockets' = <<FreshFd>>
  /\ UNCHANGED <<ended, configVars, dbVars, listVars, disposition>>

(* getaddrinfo() fails, or no address is left, or listen() fails.          *)
NoListener ==
  /\ Main("socket", "socket") /\ ExitFailure
  /\ UNCHANGED <<configVars, dbVars, listVars, sockVars, disposition>>

PollFails ==
  /\ Main("poll", "poll") /\ ExitFailure
  /\ UNCHANGED <<configVars, dbVars, listVars, sockVars, disposition>>

(* What the main loop does to the poll array.                              *)
Accept ==
  /\ Main("poll", "poll")
  /\ Len(sockets) < MaxSockets /\ Fd \ open # {} /\ sockets[1] \in open
  /\ sockets' = Append(sockets, FreshFd)
  /\ open' = open \cup {FreshFd}
  /\ UNCHANGED <<ended, configVars, dbVars, listVars, disposition>>

(* A connection is closed, or none (k = 0, another master server's), and   *)
(* remove_server_socket() builds the array anew from the connected entries *)
(* of the list: in whatever order they are there, and without the          *)
(* descriptors that have sent no hello, which stay open.                   *)
Remove(k) ==
  /\ Main("poll", "poll")
  /\ k \in 0..Len(sockets) \ {1}
  /\ open' = IF k = 0 THEN open ELSE open \ {sockets[k]}
  /\ \E n \in 1..Len(sockets) : \E old \in [2..n -> (2..Len(sockets)) \ {k}] :
       /\ \A a, b \in 2..n : old[a] = old[b] => a = b
       /\ sockets' = [p \in 1..n |-> IF p = 1 THEN sockets[1] ELSE sockets[old[p]]]
  /\ UNCHANGED <<ended, configVars, dbVars, listVars, disposition>>
-----------------------------------------------------------------------------
(* SIGINT                                                                  *)

Threads ==
  {"main"} \cup (IF pc \in {"socket", "poll"} /\ config.threads > 0 THEN {"worker"} ELSE {})

Sigint(t) ==
  /\ ended = "no" /\ disposition = "SignalCatcher" /\ t \in Threads
  /\ disposition' = "default"
  /\ hthread' = t /\ hpc' = "loop" /\ i' = 0 /\ interrupted' = pc
  /\ UNCHANGED <<pc, ended, configVars, dbVars, listVars, sockVars>>

SigintKills ==
  /\ ended = "no" /\ disposition = "default"
  /\ ended' = "killed"
  /\ UNCHANGED <<pc, configVars, dbVars, listVars, sockVars, sigVars>>

Catcher(l, l2) ==
  /\ ended = "no"
  /\ hpc = l /\ hpc' = l2
  /\ UNCHANGED <<pc, configVars, listVars, sockets, disposition, hthread,
                 interrupted>>

(* Mutant of MoreSockets: the comparison allows one more turn.             *)
MoreSocketsWide == i <= Len(sockets)

(* Mutant of MoreSockets: the last socket is left out.                     *)
MoreSocketsShort == i + 1 < Len(sockets)

MoreSockets == i < Len(sockets)

CloseNext ==
  /\ Catcher("loop", "loop") /\ MoreSockets
  /\ open' = IF i < Len(sockets) THEN open \ {sockets[i + 1]} ELSE open
  /\ i' = (i + 1) % ByteSize
  /\ UNCHANGED <<ended, dbVars>>

LoopEnds ==
  /\ Catcher("loop", IF db = NULL THEN "exit" ELSE "CloseDatabase") /\ ~MoreSockets
  /\ UNCHANGED <<ended, i, open, dbVars>>

(* sqlite3_close() refuses a connection with a statement; nobody looks.    *)
CloseDatabase ==
  /\ Catcher("CloseDatabase", "CloseForgets")
  /\ Uses /\ handle' = IF res THEN handle ELSE "closed"
  /\ UNCHANGED <<ended, i, open, db, res, dbFailed>>

CloseForgets ==
  /\ Catcher("CloseForgets", "exit")
  /\ db' = NULL
  /\ UNCHANGED <<ended, i, open, handle, res, dbFailed, misused>>

Exit ==
  /\ Catcher("exit", "exit") /\ ended' = "success"
  /\ UNCHANGED <<i, open, dbVars>>
-----------------------------------------------------------------------------
SignalCatcher == CloseNext \/ LoopEnds \/ CloseDatabase \/ CloseForgets \/ Exit

Next ==
  \/ Signal \/ LoadConfig
  \/ OpenDatabase \/ Schema \/ FailCloses \/ FailForgets
  \/ LoadServers \/ Row \/ Finalize
  \/ RunServer \/ Listen \/ NoListener \/ PollFails \/ Accept
  \/ \E k \in 0..MaxSockets : Remove(k)
  \/ \E t \in Threads : Sigint(t)
  \/ SigintKills \/ SignalCatcher

Spec == Init /\ [][Next]_vars
FairSpec == Spec /\ WF_vars(SignalCatcher)
-----------------------------------------------------------------------------
(* Properties.                                                             *)

(* Types of the variables; the numbers of the configuration fit theirs.    *)
TypeOK ==
  /\ config.port \in 0..UINT16_MAX
  /\ config.debug \in 0..UINT8_MAX /\ config.threads \in 0..UINT8_MAX
  /\ ended \in {"no", "success", "failure", "killed"}
  /\ db \in {NULL, "connection"} /\ handle \in {"none", "open", "closed"}
  /\ res \in BOOLEAN /\ dbFailed \in BOOLEAN /\ misused \in BOOLEAN
  /\ row \in 0..Len(table) /\ list \in Lists /\ Len(servers) <= row
  /\ open \subseteq Fd /\ Len(sockets) <= MaxSockets
  /\ i \in 0..(ByteSize - 1)

(* Whatever numbers the file holds, the pool gets a thread and not too     *)
(* many and the other values are legal; the database is never opened with  *)
(* an empty name, which to SQLite is a temporary one.  A file that cannot  *)
(* be parsed is the exception: all that it would set stays zero, and the   *)
(* pool has no thread.                                                     *)
ConfigSane ==
  /\ db # NULL => config.db_file # NoName
  /\ file \in {"missing", "read"} =>
    /\ config.threads \in 1..MaxThreads
    /\ config.port \in 1..MaxPort /\ config.debug \in {0, 1}

(* The pointer is left behind on a closed connection only between the      *)
(* close and the next statement, so the connection is used or closed again *)
(* only if SIGINT came just there.                                         *)
ClosedOnce ==
  /\ db # NULL /\ handle = "closed" => pc = "FailForgets" \/ hpc = "CloseForgets"
  /\ misused => interrupted = "FailForgets"

(* The list is a ring that gives the enabled rows in their order forward   *)
(* and in the opposite order backward; the main loop begins with all of    *)
(* them, or a call of SQLite has failed.                                   *)
ListLoaded ==
  LET n == Len(servers) IN
    /\ Walk(list.next, n) = [k \in 1..n |-> k]
    /\ Walk(list.prev, n) = [k \in 1..n |-> n + 1 - k]
    /\ {servers[k] : k \in 1..n} = {k \in Enabled : k <= row}
    /\ \A j, k \in 1..n : j < k => servers[j] < servers[k]
    /\ pc = "poll" => (dbFailed \/ n = Cardinality(Enabled))

(* A process that ends in the handler has given its connection back,       *)
(* unless rows were just read from it, and has closed every socket of the  *)
(* poll array, unless the main loop changed the array at the same time.    *)
ExitClean ==
  ended = "success" =>
    /\ db = NULL
    /\ handle = "open" => interrupted = "row"
    /\ hthread = "main" => \A k \in DOMAIN sockets : sockets[k] \notin open

(* The handler ends the process, unless the poll array has as many entries *)
(* as a uint8_t has values.                                                *)
SigintExits == (hpc = "loop") ~> (ended # "no" \/ Len(sockets) >= ByteSize)
=============================================================================
