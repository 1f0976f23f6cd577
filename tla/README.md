# The q2admin server in TLA+

A verification development for the program in `src/`: a C server that a
number of Quake 2 game servers keep a TCP connection to. It holds TLA+ modules
that model the server, TLC configurations that check them on small instances,
and theorems checked by TLAPS.

## 1. The system

| part | source | state | operations |
|---|---|---|---|
| connection manager and poll table | `server.c` 317-415, 491-662 | `sockets[]`, `socket_count`, per entry `connected`, `index`, `socket` | `RunServer`, `add_server_socket`, `remove_server_socket`, `get_server`, `new_server`, `InvalidClient`, `CloseConnection` |
| authentication and trust | `server.c` 210-311, `parse.c` 355-370, `crypto.c` | `trusted`, `publickey`, `cl_challenge` | hello, `ServerAuthResponse`, `VerifyClientChallenge`, `ParseAuth` |
| send buffer and session encryption | `server.c` 317-343, `crypto.c`, `util.c` | `msg`, `encrypted`, `e_ctx`, `d_ctx` | `SendBuffer`, `SendError`, `SymmetricEncrypt/Decrypt` |
| message dispatch | `parse.c` | the received buffer | `ParseMessage` and its handlers |
| peer service | `peer.c`, `parse.c` 242-274 | none | `ParsePeerRequest`, `P_GetServerList` |
| thread pool | `threadpool.c`, `threadpool.h` | job queue, binary semaphore, two counters, hold flag | `thpool_*`, `thread_do`, `jobqueue_*`, `bsem_*` |
| start-up | `server.c` 16-146, 421-471, 551-590, 668-678, `database.c` 271-310 | `config`, `db`, the server list, `sockets[]` | `main`, `LoadConfig`, `OpenDatabase`, `LoadServers`, `get_listener_socket` |
| linked list | `list.h` | the two pointers of each node | `List_Init`, `List_Link`, `List_Append`, `LIST_FOR_EACH` |
| signal handler | `util.c` 156-173, `database.c` 303-310 | disposition of SIGINT | `SignalCatcher`, `CloseDatabase` |
| player table | `parse.c` 235-349, `server.h` | `players[256]`, `playercount` | connect, disconnect, player list, userinfo |
| message codec | `msg.c` | index and length of a buffer | `MSG_Read*`, `MSG_Write*` |
| text helpers | `util.c` | ring of eight buffers in `va` | `va`, `Info_ValueForKey`, `BuildTeleportServers` |
| earlier command layer | `cmd.c`, `log.c`, `teleport.c` | | not reached from the poll loop |
| key generator | `q2a-keygen.c` | | a separate program |

How they interact. One process, one thread: `RunServer` waits in `poll()` and
then scans the poll array by position. A slot that is readable is either the
listener, a slot that some entry of the server list points at through its
`index` field (`get_server(i)`), or a slot of nobody. In the second case the
received buffer goes to `ParseMessage`, whose handlers answer through the
entry's buffer `msg` and `SendBuffer`, which finds the descriptor through the
`index` field again. In the third case the first bytes decide: a hello attaches
the slot to an entry (`new_server`), a peer request is served, anything else is
refused. Whenever a descriptor is given up, `remove_server_socket` rebuilds the
whole array from the connected entries, *while the scan is running*. The thread
pool is a library of its own: the poll loop of this version does not submit
jobs to it, so it is modelled under any caller of its API.

What is hard:

* the array moves under the scan, and `revents` does not move with it;
* three tables (`index`, `sockets[]`, `socket`) must agree at every point where
  one of them is used to find the connection, and are updated at different ones;
* the entry outlives the connection: `trusted`, the key, the cipher contexts and
  the unsent bytes of one session are there in the next;
* several commands arrive in one buffer, and one of them may end the connection;
* the other end hangs up or resets at any time, also between two replies;
* descriptor numbers are reused at once;
* TCP has no messages: a buffer ends where `recv()` ended it, and the readers
  know only a terminator or a fixed length;
* counters of eight bits: `playercount`, the loop over a player list, the loop
  of the signal handler over the sockets;
* the players of an entry are known only through a history of messages, part of
  it from an earlier session;
* SIGINT comes between any two steps, also between `sqlite3_close()` and the
  assignment that forgets the pointer, and on any thread;
* in the pool: a *binary* semaphore under several posts, a wait that reads two
  counters under two different locks, threads stopped by a signal anywhere.

What makes each part correct, in words (the properties are in section 4): an
entry, its slot and its descriptor agree and lead to the client that said hello
with that entry's key; serving one connection does not cost another one
anything; a client that waits for it hears that it is trusted only for its own
answer; what is written is sent; every answer to the challenge is dealt with; no
job is lost, forgotten or run twice, `thpool_wait` returns when and only when
everything is done, `thpool_destroy` returns; a buffer that begins between two
messages is understood; from a complete list on the player table is what is on the game
server; the list is the table of the database; SIGINT ends the process with everything
closed.

## 2. The modules

| module | what it is |
|---|---|
| `PollTable` | the layout `remove_server_socket` gives to the array, as operators (`Rank`, `Occupant`, `SlotsUsed`) |
| `Q2AServer` | the connection manager with authentication, send buffers, dispatch and peers |
| `Directory` | what the connection manager promises: which server is reachable through which descriptor |
| `ThreadPool` | `threadpool.c` with its callers |
| `JobPool` | what the pool promises: jobs start in order, once, and run to their end |
| `Players` | the player table of every entry, kept by messages, and the text made of it |
| `Stream`, `InfoString` | messages as bytes through a connection, `msg.c` and the loop of `ParseMessage`; userinfo strings |
| `Startup`, `LinkedList` | `main` up to the main loop, the database, the list, and `SignalCatcher` beside all of it |
| `MCQ2AServer`, `MCThreadPool`, `MCPlayers`, `MCStream`, `MCStartup` | instances for TLC |
| `PollTableProofs`, `ThreadPoolProofs`, `PlayersProofs`, `StreamProofs`, `StartupProofs`; `Q2AServerProofs`, `ConnectionProofs`, `TrustProofs`, each of the last two extending the one before | the theorems (section 8) |

### 2.1 `Q2AServer`

State. One function per field of `q2_server_t` that control depends on
(`connected`, `index`, `socket`, `trusted`, `encrypted`, `publickey`, `msg`;
`ctx` for `e_ctx` and `d_ctx`, which are always created and freed together;
`msg` as the set of the kinds of replies in the buffer; `cut` for "the stored challenge is not the one that was sent"). `sfd`,
`revents`, `socket_count` are the poll array. `pc`, `i`, `q2`, `buf` are the
locals of `RunServer` and `ParseMessage`. `open`, `eof`, `inbox`, `role`,
`phase`, `backlog` are the kernel and the other ends: whether a descriptor is
open, how its peer left it, the commands in flight, who is there and how far it
is in the protocol.

Steps. The process has one thread and no handler blocks, so one turn of the
scan is one step and so is one command of `ParseMessage`; clients act in
between. The actions of `RunServer` correspond to the code as follows.

| action | code |
|---|---|
| `PollReturns`, `ScanEnds`, `SkipSlot` | `poll()`, the `for` and the test of `POLLIN` (585-593) |
| `Accept`, `AcceptFails` | the listener's branch (594-611) |
| `ServerLost`, `VisitorLost`, `ServerError` | `recv()` = 0 with and without an entry, `recv()` = -1 (613-632) |
| `RejectVisitor`, `P_GetServerList`, `PeerRequestUnknown` | the branch of unknown slots (632-653), `peer.c` |
| `NewServer`, `NewServerUnsigned`, `NewServerFaults` | `new_server` with `ServerAuthResponse` succeeding, failing to sign, and running into a missing or unreadable key, a freed context or a reset |
| `ReceiveCommands`, `ParseEnds` | the call of `ParseMessage` and its return |
| `Pong`, `ParseTeleport`, `ParseInvite`, `ParseAuth`, `ParseAuthFails`, `Quit`, `ParseData`, `ParseStray`, `ParseGarbled` | one turn of the `while` of `ParseMessage` |
| `ParseFaults`, `ArrayOverrun`, `Fault` | undefined behaviour and signals; they may halt the process |

Decisions a reader should know:

* *Stale and uninitialised `revents`.* The array is malloc'ed and not cleared;
  `Init` lets the slots above 0 start with either value. A rebuild and an
  `add_server_socket` leave `revents` where it was.
* *`recv()` = -1* goes into a `size_t`; the code takes it for data and parses a
  cleared buffer as a run of `CMD_NULL`, so for an entry's slot nothing changes
  (`ServerError`), and a visitor is refused.
* *A reset or a hang-up* is remembered in `eof`: the first `send()` to a peer
  that has gone may bring a reset back (`AfterSend`), a `send()` after a reset
  raises `SIGPIPE`, for which the program has no handler (`BrokenPipe`).
* *Undefined behaviour.* A NULL pointer and a SIGPIPE always stop the process:
  the step is a `Fault` and nothing else. A write outside an object, a second
  free or the use of what was freed *may* stop it and may pass unnoticed: beside
  the `Fault` there is the step as it is when nothing is noticed, so that a
  property cannot hold because the model has stopped in time. This concerns the
  overrun of the poll array (`Overran`), of `cipher[RSA_LEN]` by an answer and of
  the buffers of a teleport or of a closed entry, keys freed twice (`FreedTwice`)
  and contexts used after `CloseConnection` has freed them (`UsesFreed`).
* *Encryption* is modelled by who can read what. A hello's answer is enciphered
  only when the entry is still `trusted` and the new hello asks for encryption;
  the client cannot read it, since the key is in it, and goes on waiting
  (`Hear`). What was left in the entry's buffer goes out with the HELLOACK: a
  client sent a TRUSTED along with it is in phase "told". The tail of several
  enciphered messages received together reads as garbage (`Deciphered`).
* *Garbage* is any number of any commands (`Garbled`, `ParseGarbled`), except a
  right answer to a challenge. It stands for bytes deciphered with the wrong key,
  for what is left of a list with a gap (`ParsePlayerList`), for a hello or a
  peer request in a buffer that belongs to an entry (`ParseStray`) and for what
  is read after a refused answer, whose length field says where (`Skipped`).
* *The poll array's size.* The code allocates
  `socket_size * sizeof(struct pollfd) + 5` bytes (`server.c` 573), which is
  `Allocated` entries. Nothing stops `add_server_socket` or a rebuild from
  writing behind them, and nothing stops the model: `sfd` has every slot that is
  ever written (`MaxSlots`, a consequence and not a guard: `TypeOK`). Once a
  slot behind the allocated ones was written the process may stop at any time
  (`ArrayOverrun`).
* *Messages are whole.* A `recv()` returns one or more complete messages;
  segmentation is the subject of `Stream`.
* *The client's public key* is loaded anew by every hello
  (`LoadClientPublicKey`); the key of the session before is not freed there. A
  file that does not hold a key leaves NULL (`KeyRead`), which an AUTH, or the
  enciphering of a session key, dereferences.
* *Descriptors* are drawn from `Fds`; a closed one is free again at once.

Bounds: `Fds` (open sockets; `accept()` fails beyond it, as it does in a
process out of descriptors), `MaxInbox`
(commands in flight per client), `MaxBacklog` (connections in the listen
queue). None bounds the length of a behaviour: sessions, reconnects and
rebuilds go on for ever.

### 2.2 `ThreadPool`

A critical section that neither blocks nor is seen from outside is one step
guarded by its mutex being free. A mutex has an owner where another thread can
see it held: `rwmutex` while a job is pushed or pulled (the semaphore is posted
inside), `thcount_lock` while `thpool_wait` reads the queue length and then the
number of working threads, and while a thread leaves. The condition variables
wake spuriously (`SpuriousWakeup`, `WaitSpurious`). A thread may be stopped by
the pause signal before any of its steps (`ThreadHold`). `Main` is the caller;
it may call `thpool_add_work`, `thpool_wait`, `thpool_pause`, `thpool_resume`,
`thpool_destroy` in any order. Bounds: `Workers`, `Jobs` (each added once), and
`MaxPauses`.

Names of actions are those of the C functions in upper camel case; where a
function blocks in the middle it is several actions (`WaitLocks`,
`WaitReadsLen`, `WaitReadsWorking` for `thpool_wait`; `JobqueuePull`,
`JobqueuePullPosts`; `JobqueuePush`, `JobqueuePushPosts`).

### 2.3 `Players`

State: on one side what is true on the game servers (`present`: the player
behind each id), on the other what the entry holds (`players`, `playercount`),
and between them the messages not parsed yet (`wire`). `PlayerEnters`,
`PlayerRenames`, `PlayerLeaves` happen whether or not a session is up and send a
message if it is; `SendsList` sends the whole list; `SessionStarts` and
`SessionEnds` change nothing in the entry's players, as `new_server` and
`CloseConnection` do not. The handlers have the names of the C functions.

* *The list loop* (`ParsePlayerList`): entry k is stored in the slot the counter
  has, then its id is read into the counter. `Slot`, `InLoop` and `Taken` say
  which entries that reaches; `ParsePlayerListShort` is a list with a gap, whose
  rest is read as commands (any count, any slots overwritten: `Overwritten`),
  which may swallow the messages behind it (`Swallows`; `told` then says that not
  everything sent was parsed as what it is);
  `ParsePlayerListOn` is a list whose last id sends the counter round to 0, which
  only a full server has when the list is whole. With more than one entry the
  loop then reads zeros (id 0, counter 1) for ever: `hung`.
* *A message cut by `recv()`.* `ParseCut` and `ParsePlayerListCut` parse the
  first part of a message, with zeros for what is missing, and what comes later
  as commands (`RestAsCommands`): any slots and the count may change, messages
  behind it may be swallowed, and a list of two or more entries that needs one
  that is not there goes on for ever. `told` becomes false, until the next
  complete list.
* *`va`* : `BuildTeleportServers` keeps its text in one of the buffers and takes
  one more per player. `Listed` are the trusted entries in the order of the list,
  `AddLine` follows the ring for one of them; a copy between overlapping
  buffers, a line longer than `line[100]` (`LineRoom`), names that do not fit
  `players[300]`, a text longer than a buffer of `va` (`TextRoom`) and the cut of
  two characters where there is no name give `Junk`. Sizes are sums of a
  `Heading` per server and a `Width` per name.
  The counter of `va` is static: `BuildTeleportServers(next)` may find any of the
  buffers next. (It is a `uint16_t` that wraps; 8 divides 2^16, so the ring does
  not notice.)
* *Instance.* `ByteSize` and `VaBuffers` stand for 256 and 8. One server plays;
  the other has never connected or has told everything about any number of
  players (`MCInit`), which is all the text needs of it. One name is as wide as
  two others, so that lines and texts with and without room occur. Messages are
  cut on the smaller server and while the other one is away, and `MCNext` stops
  when a list is read for ever.

### 2.4 `Stream` and `InfoString`

`bytes` is what is in the connection. `ClientWrites` puts the bytes of a message
(`Written`) behind them, `Recv(n)` takes the first n, up to the buffer's size,
into a cleared buffer, and the handlers read from `index` on. `got` is what they
were called with. For the properties two variables say where the messages lie:
`pipe` those whose last byte is still in the connection, `whole` those that lie
completely in the buffer, each with the number of bytes before it; no action of
the reader looks at them. `MSG_ReadString` begins
its search for the terminator with the second byte, reads with seven bits and
drops zeros; `At` reads zero behind what was received. A `recv()` of -1 becomes
the length `Huge`. `Info_ValueForKey` is a recursive function over positions,
`Userinfo` what a game client writes (pairs of a key and a value, `Infos`) and
`ValueIn` the value it wrote first for a key. A key or a value has no backslash,
which the game does not allow in either, and no letter that becomes a backslash
or a zero when the reader takes its high bit away (220 and 128).
Players' names, print texts and maps are two or three bytes long; strings longer
than `MAX_STRING_CHARS` are left out. `MSG_ReadString` appends with
`strcat(str, &character)`, where one `char` stands for a string; the model takes
the byte behind it for zero.

Every handler of `ParseMessage` is in the module, since any byte may be taken
for a command where a buffer begins in the middle of a message. `Quit` and
`ParseAuth` end in `CloseConnection`; the rest of the buffer is still parsed, and
then nothing is received any more (`pc` = "closed"). An answer copies and skips
as many bytes as the two before them say (`ParseAuth`); more than `CipherSize`
overrun the stack, and a second `CloseConnection` frees a key twice: both are
"lost". `ParsePlayerList`, `ListEntry` and `ListEnds` are the loop over a list,
entry by entry, with its counter; when it has left the buffer it is "lost" as
well. That a game server sends lists and answers itself, and what comes of them,
is in `Players` and `Q2AServer`, as whole commands; here they arise from bytes
read in the wrong place.

### 2.5 `Startup` and `LinkedList`

`pc` walks through `main`: `Signal`, `LoadConfig` (file missing, unparsable,
read), `OpenDatabase`, `Schema`, `FailCloses`, `FailForgets`, `LoadServers`, one
`Row` per row, `Finalize`, `RunServer`, `Listen` or `NoListener`, and then
`Accept`, `Remove` and `PollFails` for what the main loop does to the array:
`Remove(k)` closes a descriptor, or none, and rebuilds the array from any of the
others in any order, since the rebuild goes by the list and drops, open, what has
no entry (`Q2AServer` has that in full). `db` is the pointer and `handle` the connection:
that they differ between close and assignment is the point of `ClosedOnce`.
`hpc`, `hthread` and `i` are `SignalCatcher`: `Sigint("main")` suspends `main`
for good, `Sigint("worker")`, possible once the pool has threads, runs beside
it. Under the build's flags (`--std=c99`, `_POSIX_C_SOURCE`) `signal()` resets
the disposition when the handler is entered, so a second SIGINT kills
(`SigintKills`). SQLite refuses to close a connection with a live statement
(`res`); a call of it is one step. A row of the table is whether it is enabled;
NULL in a text column, which `strncpy` would read through, is left out. The
handler's test of `i`, its read of the slot and `close()` are one step, and so
are the test of `db` and the end of the loop.

`LinkedList` has the pointers of `list.h`; `Walk` is `LIST_FOR_EACH`.

### 2.6 Abstract specifications

`Directory` has two steps, `Bind(s, f)` (server `s` becomes reachable through a
descriptor nobody uses) and `Unbind(s)`. `Q2AServer` implements it under
`owner[s] = IF connected[s] THEN socket[s] ELSE NoFd`. That the poll table is
rebuilt in the middle of a scan, that descriptors are reused and that a server
reconnects over its own open connection must all come out as one of these steps
or as a stutter.

`JobPool` has `Submit`, `Start`, `Finish` and `Discard`. `ThreadPool` implements
it with `waiting <- queue` and `running <-` the jobs the threads hold; `Start`
takes the *oldest* job, so the refinement also says that the queue is first in,
first out.

## 3. The runs

| run | instance | distinct states |
|---|---|---|
| `Core` | three registered servers, two of which connect, two descriptors, plain sessions, right answers, invitations to all servers, quits, hang-ups and resets | @Core |
| `Session` | one server, two descriptors, two commands in flight, plain and encrypted, right and wrong answers, challenges cut at a zero byte or not, a key that can be read or not, data and quits | @Session |
| `Visitors` | three registered servers, one of the two that connect without key file, a peer and a stranger; the server's private key comes and goes | @Visitors |
| `Live` | the same visitors, two descriptors, right answers, pings and invitations, nobody hangs up | @Live |
| `Pool` | two threads that may fail to be created, two jobs, two pauses, safety and liveness | @Pool |
| `Players` | two entries, three ids, three buffers of `va`, two messages not parsed, whole or cut | @Players |
| `Stream` | fifteen messages, two at a time in the connection, a buffer of 16 bytes | @Stream |
| `Startup` | all tables of up to three rows, five outcomes of the configuration, up to three sockets with a byte of three values | @Startup |
| `TrustEarned`, `Polled`, `ArrayHolds`, `ResumeReleases` | see section 6 | |

Why these bounds are enough. With two descriptors an entry can be replaced over
an open connection, a descriptor can be reused while an older slot remembers
it, the scan can be ahead of or behind the slot that moves, and a visitor and a
server can be in the array together. Two entries are needed to see one
connection disturb another; the third registered server never connects, so
that the poll array of these runs has room for the descriptors and no property
can hold because the process has stopped; in `Session`, with one server, the array
is overrun from the first connection on, and the process stops or not. Two commands in flight are needed for a command
after `QUIT` and for several enciphered messages in one buffer. Two threads are
needed for one to hold a job, or to be held, while the other sleeps or is
between two tests of the semaphore; the queue has the three cases of its code,
"empty", "one" and "more", with two jobs. Two pauses are needed for a signal of
one to arrive during another. Three ids give lists with and without a gap and
a full server; three buffers of `va` are fewer than two servers' players need; two
messages not parsed are a list and one that it may swallow.
Two messages in the connection are every cut within and between messages, and
16 bytes is less than the longest two together; their texts hold the numbers of
QUIT, PLAYERLIST and AUTH with counts and lengths behind them, also as the last
bytes of a buffer. Three sockets are as many as the counter of the handler has
values, two are fewer.

`CHECK_DEADLOCK FALSE` is set everywhere: the server stops when it halts on a
fault or has exited, and the pool stops when it has been freed.

Symmetry: descriptors are interchangeable in the safety runs of `Q2AServer` (no
`CHOOSE` picks among them; servers are numbers and not symmetric). No other run
uses it; `Pool` has liveness properties.

## 4. The properties

Connection manager:

* `TypeOK`: types; for `socket_count` and `index` that nothing is written behind a
  slot for each registered server and each descriptor (though the code allocates
  less: `ArrayHolds`).
* `SlotOwnership`: a connected entry owns one slot, which holds its socket; no
  two share one; a disconnected entry owns none.
* `SlotsLive`: the slots given to `poll()` hold distinct open descriptors.
* `SocketBelongs`: an entry's socket leads to the client that said hello with
  that entry's key, though numbers are reused.
* `DisconnectCause`: an entry loses its connection only through its own client.
* `ImplementsDirectory`.
* `Flushed`: nothing waits in the buffer of a connected entry.
* `KeyNotFreed`: the key of a connected entry is not one that an earlier session
  has freed. (It may be NULL.)
* `TrustIsOwn`: a client that waits for the answer to its AUTH is told that it is
  trusted only in the step that parses this answer, and only if it is a right
  answer to a challenge that was stored whole. A TRUSTED which a refused answer
  left behind does reach a client, with its next HELLOACK; it is then in phase
  "told" and not in "auth".
* `VisitorsHarmless`: dealing with a visitor neither stops the process nor costs
  another entry its connection or its slot, if the visitor stays (`Proper`), has a
  key file and asks for a plain session, and the array is not overrun. Without
  these the code may stop, as section 7 says.
* `AuthAnswered`: an answer to the challenge on a live connection is dealt with,
  and by a process that has not stopped, however rebuilds move its slot, unless
  the game server itself connects again.

Thread pool: `TypeOK`, `CountsExact` (the two counters say exactly how many
threads are between their updates), `JobsConserved`, `WorkAnnounced` and
`WakeupPending` (no wake-up is lost although posts of the binary semaphore
coincide), `FreedQuiet` (once the pool is freed only a thread that has left its
loop and has nothing but its lock to give back is still there), `WaitSound`,
`ImplementsJobPool`; `JobsRun`, `CallsReturn` (both unless a thread is held),
`PoolStarts` (`thpool_init` returns, if every thread could be created).

Players: `CountExact` and `InSlot` (when a list without gaps was sent in this
session, neither it nor a message since was cut or swallowed, and all is parsed,
the table is what is on the server, whatever came before), `TextExact` (the text
for a player is exact if, *and only if*, its lines and the whole have room and no
listed server but the first has more players than `va` has buffers less two).

Stream: `Understood` (a buffer that begins between two messages gives each
handler its arguments, in order, whatever was received or misread before; an
empty text that is not the last thing received is the exception, `TextsEnd`),
`ReadsInside` (wherever the buffer is cut, and when `recv()` fails, only two
readers leave the buffer's object: the copy of an answer, whose length nobody
looks at, and a list of more than one player that has come to the zeros).

Start-up: `ConfigSane`, `ClosedOnce` (the pointer dangles only in the window,
and a closed connection is used again only if SIGINT came there), `ListLoaded`
(the ring holds the enabled rows in order, forward and backward, and all of them
unless SQLite failed), `ExitClean` (what has been closed when the handler ends
the process; the sockets, when it ran on the main thread), `SigintExits` (it does end it, with fewer sockets than a `uint8_t`
has values).

For each property `PROJECT.json` names a mutation of a mapped definition (a
missing reset, a swapped order, a missing post, a descriptor left open)
under which TLC finds it violated, so that none of them holds by itself. The
mutated forms stand beside the originals in the modules.

## 5. Fairness

* `LoopSpec`: weak fairness of `RunServer`. There is one thread and it does
  nothing else; whenever it can take a step the kernel lets it.
* `FairSpec` of `Q2AServer` adds that a client that has connected says hello,
  answers the challenge it was sent, and speaks every now and then once it is
  trusted (weak fairness per descriptor). The loop needs this: after a rebuild a
  stale `revents` may send it into a `recv()` that blocks, and it serves nobody
  until that client says something. A client that never speaks, while its slot
  inherits such an event, does stop the server for all others; no fairness of the
  code excludes that. Nothing is assumed about quitting or hanging up.
  That a hello is answered cannot be claimed: a connection can be dropped from
  the array before its hello (run `Polled`) and is then never read. The instance
  of `Live` has none of the causes for which the process stops (nobody hangs up,
  the keys can be read, the array has room), and `AuthAnswered` demands that it
  does not.
* `FairSpec` of `ThreadPool`: strong fairness per thread and for the steps of a
  call that has begun. Strong, because a thread waits for mutexes that others
  take and release again and again; weak fairness would let it be passed over
  for ever, which a pthread mutex of a running system does not. Jobs return
  (the code of a job is the caller's). A paused pool is meant to stand still, and
  a held thread may hold a mutex; so `JobsRun` and `CallsReturn` have the premise
  `Unheld`, that from some time on no thread is held and no pause is pending.
  `ResumeReleases` shows why the resume alone does not give that.
* `FairSpec` of `Startup`: weak fairness of the handler's own steps; nothing is
  assumed about `main` or about signals.

## 6. Where code and comments disagree

Each of these runs checks one statement of a comment, and TLC finds a behaviour
of the code that contradicts it. (In the three runs of `Q2AServer` the malloc'ed
`revents` may hold anything, `Garbage = {TRUE, FALSE}`; in the others the bits are
clear to keep them small, and the theorems of section 8 are for either.)

* `TrustEarned`. `trusted` is set in `ParseAuth` and never cleared: a client that
  takes its entry over from its still open connection, or that reconnects, is
  trusted from its hello on (`server.c` 395-415, 508-544, 626).
* `ArrayHolds`. The poll array has an entry for each registered server and five
  *bytes* more, where the comment speaks of "5 or so extra"; with the listener in
  slot 0 the last registered server is already written past its end.
* `Polled`. `remove_server_socket` rebuilds the array from the connected
  entries; descriptors accepted but without a hello yet fall out of it with the
  one that was to be removed, and stay open unread.
* `ResumeReleases`. `thread_hold` sets `threads_on_hold` itself, so a pause
  signal delivered after the resume holds its thread with nobody to release it.

## 7. Known behaviour of the code that no run of its own states

The model has all of the following; they are listed because a reader of the
properties should know them.

* `recv()` = 0 on a slot of nobody reads `q2->name` with `q2` NULL
  (`VisitorLost`): a visitor that hangs up before its hello stops the process.
* A stale `revents`, left at its slot by an accept or a rebuild in the same scan,
  sends the scan into a blocking `recv()` or `accept()` that waits for its peer.
* The text of `BuildTeleportServers` lists every entry that is `trusted`,
  connected or not, with the players of its last session; a listed server
  without players has its name list cut before its beginning. It collects up to
  255 names in 300 bytes and a line in 100; `TextExact` says for which players
  that is enough.
* The handler of SIGINT, with as many sockets as a `uint8_t` has values, never
  ends; a second SIGINT kills the process then. Between `sqlite3_close()` and
  `db = NULL` of the failure path it closes a second time. During
  `LoadServers` its close is refused and not noticed.
* `get_listener_socket` listens on the literal `PORT`; `config.port` is read,
  clamped and not used. Its flag `yes` is 0 from the second address on, so
  SO_REUSEADDR is set for the first only.
* A configuration file that cannot be parsed leaves all of `config` zero: the
  pool has no thread and the key files no name. `q2a.ini` suggests 9 threads in
  a comment; 8 are the most.
* The comment at `parse.c` 28 wonders why the index runs past the buffer and
  names the teleport command. An empty argument there is read together with the
  byte behind it (`MSG_ReadString`), so the index can pass the *length*; it
  passes the buffer's size only after a failed `recv()`.
* After a refused answer `ParseAuth` falls through and writes `TRUSTED` into the
  closed entry's buffer; it goes out before the next `HELLOACK`.
* Since `trusted` survives, the `HELLOACK` of a later encrypted session is
  enciphered at once. `server.c` 258 draws a new session key before `SendBuffer`,
  and the client can learn it only from this message, so it cannot read it and
  waits. If the session before ended in `CloseConnection` the contexts were freed
  besides, and are used again (`UsesFreed`).
* A key file that cannot be read leaves `publickey` NULL. The hello is answered
  all the same, and the AUTH, or the enciphering of a session key, dereferences
  NULL.
* The length of an answer is taken from the message: up to 65535 bytes are copied
  into `cipher[RSA_LEN]` on the stack.
* A list of players that is cut by `recv()` is read on in zeros, and with two or
  more entries for ever; so is that of a server with 256 players.
* `CloseConnection` frees the key and the contexts and keeps the pointers; a
  second `QUIT`, or an `AUTH`, in the same buffer frees or uses them again.
* Replies to a closed entry gather in its buffer. A buffer of `QUIT` and many
  short commands, a few bytes each with some thirty bytes of answer, writes past
  the end of `msg->data`, of which nobody looks at the index.
* A challenge with a zero byte, one in sixteen, is stored cut (`strncpy`), and the
  right answer to it is refused.
* `ERR_ENCRYPTION` closes the descriptor but leaves the entry connected on it.
  `KeyNotFreed`, `SlotsLive`, `SocketBelongs`, `DisconnectCause`, `TrustIsOwn` and
  `ImplementsDirectory` are checked and proved where the private key is present
  (`SignOutcomes = {TRUE}`).
* `thpool_destroy` frees the pool as soon as `num_threads_alive` is 0, when the
  last thread may still have to unlock `thcount_lock` (`exiting`).
* A thread held between locking and unlocking `rwmutex` makes
  `thpool_add_work` wait until the resume, though `threadpool.h` 107 says that
  new work can be added meanwhile; a caller that adds before it resumes waits
  for ever. `CallsReturn` does not speak of that (premise `Unheld`).
* When a thread cannot be created `thpool_init` spins for ever; `InitReturns` is
  then never enabled.

## 8. Proofs

The proofs hold for every number of servers, descriptors, threads, jobs, rows
and sockets, and for every value of the bounds. They assume
`ConstantsAssumption`, `PoolAssumption`, `StartupAssumption` and those of
`Players` and `Stream`, which TLC evaluates in the runs; the theorems marked (key) have `SignOutcomes = {TRUE}` as
a hypothesis, that the server's private key is there whenever a hello is
answered (section 7 says why).

* `OccupantOfSlot` and the lemmas before it (`PollTableProofs`): `Rank` is
  injective and onto `1..Cardinality(C)`, so the rebuild leaves no gap and no
  slot is written twice. The cardinality facts come from `FiniteSetTheorems`.
* `SlotsAreOwned` (`Q2AServerProofs`): `Spec => [](TypeOK /\ SlotOwnership)`.
  Neither conjunct is inductive alone: a rebuild needs the sockets of connected
  entries to be descriptors, and a handler may close `sfd[i]` because the slot
  it is at is not the listener's. The invariant is `TableInv`, the two with
  `SlotsHeld` (every slot in use above 0 holds a descriptor). One lemma per
  handler; `RebuildOwns` carries the rebuild, and `DropEntry`, `NewServerStep`
  and `NewServerUnsignedStep` the cases that combine it with a change of an
  entry.
* `TypesAreKept` (`Q2AServerProofs`): nothing in the code limits `socket_count`, so the
  type invariant is not inductive with `TableInv` alone. `SpareSlots`: the slots in
  use behind the one for each registered server hold different open descriptors, those
  accepted since the last rebuild; so when `accept()` returns another one, one slot
  of `MaxSlots` is left (`RoomForOne`). `MaxSlots` is the number of slots that can be
  in use, not the number the program has allocated: `ArrayHolds` shows that it is more.
* `RepliesAreSent`: from `TableInv`, handler by handler; a hello clears what the
  session before has left.
* `KeysAreNotFreed` (key): a connected entry's key is freed only by what
  disconnects it, and the hello that connects it loads it anew.
* `SlotsAreLive`, `SocketsBelong` (key, `ConnectionProofs`): by `LiveInv`, with
  `InboxSound` (who has sent something is past its hello, what is closed has
  nothing to read) and `ParseShut`. The last is the interesting one: an entry whose
  commands are parsed is connected, or a `QUIT` of the same buffer has closed its
  descriptor. A second `QUIT` closes `socket[q2]` again, a number that may be another
  client's by then, but it cannot be: the buffer is parsed in one go, and nothing is
  accepted before its end. `RebuildFills`
  and `RebuildLive` carry the rebuild, `CloseAndRebuild` the handlers that close
  a descriptor first.
* `DisconnectsHaveCause` (key), `VisitorsAreHarmless` (signed or not): action
  properties from those invariants. `VisitorsAreHarmless` also says that the process
  goes on (`ProperServed`), where the visitor stays, a hello is that of a server with a
  key file and the array has not been overrun; without one of these three it may
  stop, and section 7 says where. `ConnectionsKept` disposes of the handlers
  that leave `connected` and `socket` alone.
* `ManagerImplementsDirectory` (key): each rebuild, reconnection and reuse of a
  descriptor maps to one `Bind`, one `Unbind` or a stutter of `Directory`.
* `TrustIsTheClientsOwn` (key, `TrustProofs`): by `TrustInv`. `HelloUnread`: a hello not
  read yet is that of a client which waits for its answer and has no entry; so a
  `TRUSTED` left behind by a refused answer, which goes out before the `HELLOACK` of
  the next session, is read by a client in phase `hello`, which then is `told` a word
  it did not earn, and not by one that waits for that word. `AtOwnSlot`: the parser
  stands at the slot of its own entry. `MovedByReply` gives the reply that moved a
  client, `PhaseMoves` the moves there are.
* `TypesAreKept`, `CountsCorrect` (`ThreadPoolProofs`): the counters are the cardinalities of
  sets of threads; each step moves at most one thread in or out of them.
* `NoLostWakeup`, `WakeupIsPending`: `WorkAnnounced /\ WakeupPending` is inductive given the types.
  `PostEffect` says what a post does to the sleeping threads.
* `JobsAreConserved`: by `JobInv`, which adds that the queue has no duplicates,
  that only a thread between its pull and the end of its job holds one, that the
  job being pushed is new, and that the queue is empty when `thpool_wait` reads
  the second counter. The last looks wrong (a job could be added in between) and
  holds because the only thread that adds jobs is the one that waits.
* `WaitIsSound`: from `JobInv` and `CountsExact`, an empty queue and no working
  thread leave no place for a job but `done`.
* `FreedPoolIsQuiet`: by `QuietInv` and `CountsExact`. Once `thpool_init` has
  returned every thread has counted itself, and a thread on its way out holds the
  mutex of the counts; so a count of zero leaves no thread but that one, and none
  that could still count itself.
* `PoolImplementsJobPool`: initial states map to initial states, each step to a
  step of `JobPool` or a stutter.

* `ConnectionClosedOnce` (`StartupProofs`): by `DbInv`, which is `ClosedOnce` with
  `HandlerInv` (who runs the handler and where `main` stood when it came),
  `PointerInv` (the pointer at every step of `main` and of the handler) and
  `OpenInv` (a connection without a pointer to it is left only by a signal that
  came while a row was live). The property speaks of one window; that it is the
  only one needs what holds at all the others.
* `ExitIsClean`: by `DbInv` and `ClosedInv`, the sockets the handler has passed are
  closed; on the main thread nothing opens one behind it. A connection that is lost
  rebuilds the array from the entries that are connected (`RebuiltArray`).

* `ConfigIsSane`, `StartupTypes`: by `NumbersInv` and `NamesInv`: every number passes
  `clamp`, or the default, or stays zero where the file could not be parsed, and a
  database that was opened had a name.
* `ServersLoaded`: `Ring(l, n)` says where the pointers of each node lead; `RingAppend`
  that `List_Append` makes the new node the last in both directions; `RingWalk`, by
  `WalkPath`, that `Walk`, a recursive function, then goes through all of them.
  `RowsInv` and `LoadInv` say which rows they are. The induction in `WalkPath` is
  done by hand: a least number where the walk leaves the path cannot exist
  (`LeastNumber` of `PollTableProofs`).
* `CountIsExact`, `PlayersInSlot`, `TypeCorrect` (`PlayersProofs`):
  the properties speak only of moments when nothing is left to parse, and are far
  from inductive. `SyncInv` says that the messages on the wire lead from what the
  entry holds now, or from a list without gaps among them, through a sequence of
  tables, each the effect of one message (`Told`), to the players who are on the
  server now; writing a message adds a table at its end, parsing one takes the
  first away (`SyncedAppend`, `SyncedTail`, `SyncedList`). The loop over a list reaches all
  entries exactly if the ids have no gap. A message cut by `recv()`, a list whose
  loop stops at a gap or does not stop at all leaves the entry out of step
  (`told` is false) until the next whole list.
* `TextIsExact` (`PlayersProofs`): the text for a player, for any number of servers,
  players and buffers of `va`, whichever buffer is the next.
  `RingOnce`: the names of one server wipe out the text so far exactly if they are
  as many as there are buffers less one, or more, unless the text is still the
  literal. `LaterLine` turns that into what one more line does, and the loop over
  the list has the invariant `AfterLines`: after k lines the text is the k true
  lines, or a server behind the first had too many players and the text begins
  with something that is not a line, and keeps beginning with it (that is the
  half of the equivalence which says that the bound cannot be relaxed). The sizes are
  the other condition: a line longer than `line[]` is cut, and so is a text for which
  a buffer of `va` has no room; only if all have room (`Roomy`) is the text the true
  one. What
  the table holds of a listed server is what is on it by `SyncInv` (`LineIsTrue`);
  and no name is a line (`LinesAssumption`).
* `ReadsStayInside` (`StreamProofs`), where at least five bytes of padding follow the
  data (as in `msg_buffer_t` where a `size_t` has eight): of all handlers, only the
  copy of an answer, of the length its bytes name, and a list of more than one player
  that has come to the zeros behind the data read outside the array. `BufferInv` says
  what `recv()` leaves in the buffer and `ByteAt` what is read there. `ReadInv`: a text
  that is not empty ends at the latest with the first byte not received, and no handler
  reads more than three bytes behind a command before its text (`HandlerReads`); one
  turn of the loop over a list reads one byte and a text (`ListReads`), and a list of
  one takes at most one more turn there.

* `MessagesAreUnderstood` (`StreamProofs`), for any messages, any size of the buffer and
  any cuts: `Understood` has the invariant `StreamInv`, with `ReadInv`. `PipeInv`: the bytes in
  flight are exactly the messages in flight, one behind the other, of the first
  of them perhaps only an end. `BufInv`: a buffer that begins between two messages
  holds its whole messages one behind the other, and behind them the beginning of
  the first in flight. `ParseInv`: of such a buffer the handlers were called with
  the first k messages and `index` is where the next one begins (`Followed`), or
  all were and no command is left (`Finished`). The step from k to k + 1 is
  `WholeRead`: a message whose bytes lie in the buffer is read as it was written
  (`WrittenForm`, `TextRead`); `CutRead` says that a cut one makes at most one
  call and is read to the end of the buffer. No induction over the messages is
  needed, because the bytes are a variable and not a fold over them.

* `ValueIsFound` (`StreamProofs`), which `MessagesAreUnderstood` uses for the names of
  players: for any list of pairs and any key, what `Info_ValueForKey` finds in the
  userinfo as `MSG_ReadString` returns it is the value of the first pair with the
  key, less the high bits. `UserinfoLaid`: pair by pair the text is laid out
  between backslashes (`Laid`). `PlainLetters`, `PlainLaid`: reading with seven bits
  works letter by letter and so keeps the layout. `PairRead`: at the key of a pair
  the loop of `Info_ValueForKey` returns its value, or goes on at the next pair
  (`FieldEndIs`, `LettersAre`); `ValueRead` follows it to the first pair with the key.
  The theorem assumes nothing of the instance; that userinfos are of this form is
  `InfosAssumption`.

Recursive functions (`Walk`, `BuildTeleportServers`, `Plain`, `Userinfo`,
`Info_ValueForKey`) are reasoned about without the library's induction theorems,
in two steps each: that a function with the recursive equation exists, since
`CHOOSE` gives one only then (`TextsExist`, `InfosExist`, `LoopsExist`, or, where the
values can be written down, a function that has them), and that its values are the
right ones. Both are inductions done by hand: no least number where the claim
fails can exist (`LeastNumber` of `PollTableProofs`).

Only model-checked: everything under fairness (`AuthAnswered`, `JobsRun`, `CallsReturn`,
`PoolStarts`, `SigintExits`), which is beyond this prover, as is `ENABLED`. Every
other property of a passing run is a theorem.

## 9. Not modelled, and why

* Of the codec: the integers of a hello (`MSG_ReadShort`, `MSG_ReadLong`,
  `MSG_ReadData`) and `MSG_ReadChar`, `MSG_ReadWord`, which nothing calls; strings
  longer than 1023 bytes.
* `hexDump` and the like, which only print.
* Of `list.h`: the functions that nothing calls (`List_Insert`, `List_SeqAdd`,
  `List_Delete`, `List_Remove`, `List_Count`, `List_Index`).
* Of the database: the schema and the logging functions, which use types of
  another program and are not called.
* `cmd.c`, `log.c`, `teleport.c`: functions of the earlier protocol that nothing
  in the poll loop calls.
* Key generator: a separate sequential program.
* Short writes of `send()`: a buffer is delivered whole or to a peer that has
  gone.
* The entries of the list a peer is sent.

## 10. Plan

Done: the connection manager with its callers, poll table and directory; the
thread pool and its abstraction; players and texts; the byte stream; start-up
and shutdown; the theorems of section 8. Left, in this order:

1. Short writes of `send()` as a byte queue towards the client.
