# Verification of mrfs

mrfs is a collection of small services, libraries and scripts of a trading
research platform, together with many demonstrations.  This directory holds TLA+
models of its concurrent components, TLC configurations that check them on small
instances, and proofs checked by TLAPS of what holds for every instance.

Contents: [Components](#components) - [Modules](#modules) -
[The logger](#the-asynchronous-logger) - [The agent master](#the-agent-master) -
[The task repository](#the-download-task-repository) -
[The quote merge](#the-quote-merge) - [The web API server](#the-web-api-server) -
[The queued worker](#the-queued-download-worker) -
[The socket client](#the-socket-client) - [Runs](#runs) -
[Fairness](#fairness) - [Assumptions and bounds](#assumptions-and-bounds) -
[Proofs](#proofs) - [Disagreements found](#where-code-and-comments-disagree) -
[Not modelled](#what-is-not-modelled) - [Plan](#plan)

## Components

| Component (source) | State | Operations | What is hard | What makes it correct | Status |
|---|---|---|---|---|---|
| **Async logger** `cplusplus/cpplogger` | ring of records, `_next`, `_written`, `_state`, `_level`, the file | `log()` and its macros, `set_log_level()`, `shutdown()`, the worker's print, rotate, drain, `destroy()` | many producers, one consumer, `is_full()` outside the mutex, the worker outside it altogether; shutdown against start; freed under a call | records printed whole, once, in order; all of them before it stops; it stops | partly |
| **Agent master** `linux/daemon/master.c` | table of slots (flag, pid), the lock file | launch, scan, start, SIGCHLD handler | a signal between any two steps; coalesced signals; fork copying everything; inherited lock | one master; one agent for a slot; the dead are replaced | modelled |
| **Download task repository** `python/remote_file_operation` | ring of tasks, System V semaphores, thread status | `download_file()`, `init_ssh_connection()`, the download thread | a semaphore per call, set after the task is public; results read after the slot is free; exceptions | each call gets its own result and returns | modelled |
| **Quote merge** `algorithm/tournament_sort` | loser tree, one cursor per channel | load, pop | end marks, empty places, encoded row and column | the merge is sorted, complete, and keeps its turn | partly |
| **Web API server** `cplusplus/webapi` | a message context per descriptor, the epoll round | accept, receive, process, send, drop | messages cut anywhere, drops inside a round, a stale `errno`, descriptors closed twice | handlers get whole messages; a client that behaves is kept and served | partly |
| **Queued download worker** `linux/download` | a list of commands, the local files | enqueue, work, answer, retry | retry of the head; a failure at any call; files shared by commands | answers in order and true; no command starves | modelled |
| **Socket client** `linux/local_socket` | list of connections, an epoll set | connect, disconnect, reconnect, event thread | unlocked list, descriptors used again, reconnect inside the event loop | list, descriptors and epoll set agree; stop stops | partly |
| Socket server `linux/local_socket/server_sock.cpp` | listening sockets, callbacks | accept, receive, broadcast | does not compile | | not modelled |
| Kafka wrapper `cplusplus/kafka` | four handles | init, send, poll, destroy | all in librdkafka | success means enqueued | not modelled |
| Mock trading manager `cplusplus/mocktrading` | two maps keyed by task | stop, day finished | starting is commented out | | not modelled |
| MySQL HA `tools/mysql-ha` | role of each host | notify, check | VRRP decides | one server at a time | not modelled |
| Redis HA `tools/redis-ha` | the virtual address | failover script | the sentinels decide | one holder of the address | not modelled |
| Blockchain demo `python/blockchain` | chain, transactions | mine, resolve | does not parse | | not modelled |
| Event workers `python/event` | | | do not import or parse | | not modelled |
| Demonstrations; vendored, generated and configuration files | | | | | not modelled |

Only the bold ones have modules; [why the others have none](#what-is-not-modelled).

The logger is linked into the agent master (`#include <logger.h>`): the
master's `log_info()` and its handler's `log_error()` share `_log_mutex`, and
this interaction is modelled in `AgentMaster` (the label `"log"`).  The queued
download worker and the task repository each call a copy of the same Python
downloader: `DownloadQueue` models it call by call, `DownloadRepo` takes it as
something that answers or raises.  The socket client and the web API server
speak different protocols and never meet.  The other components do not
interact with each other in this repository.

`PROJECT.json` lists the hazards line by line; those of the modelled components
name the properties that watch them.

## Modules

| Module | Kind | Contents |
|---|---|---|
| `Logger` | component | producers, ring, worker |
| `LogService` | abstract specification | what the logger promises: records stored whole, once, in order, all of them before it stops |
| `LoggerProofs` | proofs | `Logger` keeps its safety properties, and implements `LogService` until it is overrun |
| `AgentMaster` | component | masters, their agents, the kernel's process table |
| `AgentService` | abstract specification | one master, one agent for a slot on the whole host |
| `AgentMasterProofs` | proofs | `AgentMaster` keeps its safety properties, and implements `AgentService` until an `execl()` fails |
| `DownloadRepo` | component | callers, ring, semaphores, download thread |
| `TaskService` | abstract specification | tasks answered in order, each call told its own result |
| `DownloadRepoProofs` | proofs | `DownloadRepo` keeps its safety properties, and implements `TaskService` until a call gets the semaphore of another one or the ring is lapped |
| `LoserTree` | component | the tree, the ticks in it, one match per step |
| `MergeService` | abstract specification | a merge: every tick once, always an earliest one |
| `LoserTreeProofs` | proofs | `LoserTree` implements `MergeService`, and keeps its other properties |
| `WebApi` | component | clients and network, epoll round, receive, dispatch, reply |
| `RequestService` | abstract specification | whole requests handled in order, one reply owed at a time |
| `WebApiProofs` | proofs | `WebApi` keeps its safety properties, and implements `RequestService` |
| `DownloadQueue` | component | list, worker thread, the Python program |
| `CommandService` | abstract specification | commands answered in order and truly, nobody else's files touched |
| `DownloadQueueProofs` | proofs | `DownloadQueue` keeps its safety properties, and implements `CommandService` |
| `SocketClient` | component | kernel and peers, calls of any thread, event thread |
| `ConnectionService` | abstract specification | a connection is listed once, watched while listed, and closed for good |
| `SocketClientProofs` | proofs | the books of `SocketClient` agree, and it implements `ConnectionService` until threads meet |
| `MC...` | instances | one for each component, with a `.cfg` for each run |

Mutants: a definition `X_Name` before a definition `X` is `X` as a plausible bug
would have it.  The specification never uses them; replacing `X` by one shows
that the property it belongs to can be broken.

## The asynchronous logger

| In `Logger` | In the code |
|---|---|
| `next`, `written` | the pointers `_next` and `_written`, as indices |
| `entries[i].buff`, `.meta` | what `vsnprintf` wrote; time stamp, module, priority |
| `Call`, `CheckState`, `CheckFull`, `Lock`, `FillBuff`, `FillMeta`, `Publish` | `log()`, cut where another thread can get in between |
| `WorkerStart` .. `WorkerDestroy` | `_log_worker()`, `split_log()`, `destroy()` |
| `hist`, `out`, `overran`, `seen`, `cut` | history: records accepted, lines printed, the ring overrun, what a producer's `is_full()` saw, what had been accepted at `shutdown()` |

`is_full()` is asked before the mutex is taken, so two producers can pass it
with one slot free; the second `++_next` then makes `_next = _written`, the ring
counts as empty, and everything in it is forgotten.  `overran` records this. The
properties say exactly how far the damage goes: it needs a stale test
(`OverrunOnlyWhenStale`), hence two threads (`NoOverrun` with one); until it
happens the file is right (`FifoUntilOverrun`), no slot is printed while it is
being filled (`NoSlotShared`) and the drain is complete (`DrainedBeforeStop`).
With one producer the logger implements `LogService` (`ImplementsService`): its
`Accept` is `Publish`, `Store` is a printed line, `Close` is `shutdown()` and
`Stop` is `destroy()`.  With any number of them each step is one of that service
until the ring is overrun (`ServiceUntilOverrun`).

After `destroy()` the code keeps returning the freed instance.  A call on it is
undefined, and `CallFreed` lets it crash or return; or hang on the mutex that
`destroy()` destroyed, since nothing obliges `CallFreed` to happen.

## The agent master

| In `AgentMaster` | In the code |
|---|---|
| `role`, `parent`, `job`, `pending`, `lock` | the kernel: what a process is, whose child, for which slot, SIGCHLD pending, who holds the locked file open |
| `tab[m]`, `num[m]`, `idx[m]`, `child[m]`, `pc[m]` | the memory of a process that runs `main()`: `agents[]`, `proc_num`, `i`, the `pid` of `start_process()`, where it is |
| `Launch` | the first `fork()`, `lock_check()`, the tables |
| `Scan`, `Wake` | the loop of `main()`; `sleep(5)` that any signal ends |
| `StartLogged`, `Fork`, `StorePid`, `StoreFlag`, `StartFails` | `start_process()`, cut at each step a signal can follow |
| `Exec`, `ExecFails` | the child: the agent, or a second master |
| `Sigchld` | the handler, whole, with `reset_proc()`; stuck when it has interrupted `log_info()` |
| `Die` | the end of an agent, a child or a master |

Every process has its own table, since `fork()` copies it and a failed `execl()`
lets the child go on with the copy.  `ResetStarts` are the values that
`reset_proc()` may find in its uninitialised `i`.  `early` remembers the slots
whose child was reaped between `fork()` and the last store.

Correctness here is: one launched master (`OneLaunched`; a child whose `execl()`
fails goes on as a master too, and is not counted); one agent
for each slot of a master in any case (`OneAgentPerSlot`); no death unheard of
(`DeathsAnnounced`); the only deaths that are lost are those inside
`start_process()` (`LostOnlyEarly`); the others lead to a new agent
(`RecordedRestarted`).

`AgentService` is what the host sees of it: `up` while a launched master lives,
and the agents and children for each slot, whoever their parent is.  A slot has
one agent on the whole host, though each master looks at its own table only,
because the agents of a dead master keep its lock and no other is launched
beside them: the new master serves when the last of them is gone.  This holds
until an `execl()` fails and a child is `Turned` into a master with a table of
its own, from which it starts agents for slots that have one
(`ServiceUntilTurned`).

## The download task repository

| In `DownloadRepo` | In the code |
|---|---|
| `buffer`, `read`, `write`, `mutex`, `status` | `tr`, `dl_thread_status` |
| `key`, `semOf`, `semVal` | `c_sem_key`; the kernel's semaphores, by key and by value, `Gone` once removed |
| `Call`, `WaitNotFull`, `Enqueue`, `SetSemvalue`, `SemaphoreP`, `ReadRet`, `DelSemvalue`, `Spin` | `download_file()` and `init_ssh_connection()`, which differ in the type of the task |
| `WorkerStart` .. `WorkerEnd` | `download_thread()` |
| `accepted`, `served`, `nth`, `lapped`, `shared`, `erased` | history: tasks put in, tasks answered, a caller's number, `write_position` laid on `read_position`, a task given the semaphore of a call that is not over, callers on whose semaphore a SETVAL wiped out a V |

The critical section of a caller is one action: all it writes is read under the
same mutex, but for `ret_msg`, which it stores once.  The thread keeps the mutex
while Python works, hence `WorkerTake` and `WorkerAnswer`.

There are as many keys as positions, 100 of each, and both come round together.
A call that lasts for a whole round of keys shares its semaphore with a later
one, and whichever ends first removes it under the other: `shared` records it.
Until then (`Undisturbed`, together with a ring that is not lapped) the promise
is kept, however often keys and positions come round:

- `ServedInOrder`: the ring is a queue until it is lapped; `LappedOnlyAtTurn`: it is
  lapped at one place only; `NeverLapped`: not at all while fewer threads call
  than it has positions, unless a semaphore has been shared and a call has come
  back too early.
- `SharedOnlyApart`: two calls are on one semaphore only with a whole round of
  keys between them, also after sharing, when semaphores are removed under their
  users and created again.
- `VNeverFails`: the thread finds the semaphore it posts; `VKept`: an answered caller
  finds its semaphore up unless its own SETVAL came too late.
- `OwnResultReturned`: a call returns the result of its own task.  The result stays
  where the task was, and is read after the position is free, but a position is
  not given out again before its key is.
- `NoLostWakeup`: the signal and the broadcast of the two condition variables reach
  all they are for: whoever waits for a task finds the ring empty, whoever waits for
  a position finds it full.
- `ReturnsUnless`: a call returns, shared semaphores or not, unless a V was wiped
  out, the thread ended or the ring was lapped.

`TaskService` is the promise to the callers, without ring and semaphores:
`Submit` is `Enqueue`, `Answer` is `WorkerAnswer`, `Return` is `ReadRet`.  Tasks are
answered in order, one position stays free, and a call returns the answer of its
own task.  `ImplementsTasks` says that every step until a semaphore is shared or the
ring lapped is one of that service.

## The quote merge

| In `LoserTree` | In the code |
|---|---|
| `data`, `ptr` | the items of each channel; how far its pointer has been moved |
| `q`, `l` | `q[]` and `l[]` of `merge_sort.c`; `q[K]` is the sentinel, `l[0]` the champion |
| `Load`, `Adjust`, `Placed` | `load_quote_c()` with `init_loser_tree()`, one match per step |
| `Pop`, `Adjust`, `Return` | `pop_tick()` with `update_loser_tree()` |
| `PopEnd` | `pop_tick()` once the champion is an end mark, and ever after |
| `Encode`, `DecodeRow`, `DecodeCol` | `encode_tick()` and the decoders of the wrapper, in 32 bits |
| `win` | history: who won each node, and with what time |

`adjust_by_exch_time()` and `adjust_by_local_time()` differ in the time stamp they
compare, and a model tick has the one in use.  `MergeService` is the promise:
every tick of every channel once, in the order of its channel, always an
earliest one of those in front, the end only after the last.
`ImplementsMerge` shows the tree to keep it, with `given` read off the tree
itself.  On top of it, `SortedOutput` says what that means for channels in
order, `KeepsTurn` that a run of equal times is not torn between channels, and
`DecodedRight` that the caller gets back what was encoded.

At the end of the data `update_loser_tree()` plays with an index of -1.  What it
writes lies in variables that only the next load uses, and sets first, so
`PopEnd` leaves the state alone; `TypeOK` says that no other index is ever out of
range.

## The web API server

| In `WebApi` | In the code |
|---|---|
| `peer`, `stalled`, `at`, `inbuf` | the client's end, whether it reads, how far it has sent, what the kernel holds for the server |
| `fd`, `ctx`, `round`, `cur`, `got`, `errno` | the server's descriptors, `msg_ctx_map`, `events[]` from `i` on, `fd` and `msg` of `on_peer_ready_recv()`, `errno` |
| `Wait`, `Break`, `Accept`, `AcceptFails` | `web_api_run()`: a round, EPOLLERR that breaks it off, a new connection, `perror_die()` |
| `Ready`, `RecvSome`, `RecvError`, `RecvEOF`, `RecvSpin` | `on_peer_ready_recv()` and `recv_or_timeout()`: one `recv()` per step |
| `Handle` | `proc_msg()` up to its reply |
| `Send`, `SendTimeout`, `SendFails` | `send_or_timeout()`; a failure drops the connection twice, and the second time ends the process |
| `handled`, `torn` | history: messages handled, clients with a message that came in pieces |

A message is a sequence of units, `HeadLen` of header and then the body it
announces, and the network cuts the stream anywhere.  A unit is named by its
message and its place in it, so that `HandledWhole` can say that what a handler is
given is exactly the next message of that client.  A message with a body is
`Answered` only if a handler is known for it and the body leaves a unit of
`MAX_MSG_SIZE` free.  `WholeMessagesKept` says what
keeps a client connected in spite of the EAGAIN that `recv_or_timeout()` takes
for a lost connection: its messages must arrive whole.  `ContextsLive` is about
drops in the middle of a round, and `Served` is the promise of liveness with the
three things that can keep a message waiting: the process ends (`AcceptFails`,
`SendFails`); `recv()` returns 0 while `errno` still says EAGAIN,
and the server reads that connection for ever (`Spinning`); or a connection in
error, which is not closed, breaks off every round (`Behind`).

`RequestService` knows neither sockets nor rounds: a request is `Send` when its last
unit has arrived, is handled in its turn, and when it asks for a reply this is given
before anybody's next request is handled, or the client is dropped and not served
again.  `ImplementsRequests` maps what has arrived from how far the network
has come with each stream (`Arrived`), and who is owed a reply from `pc` and `cur`.

## The queued download worker

| In `DownloadQueue` | In the code |
|---|---|
| `queue`, `task`, `pc` | `task_list`, `task_str`, where the worker thread is |
| `k`, `ret`, `local` | the file in hand, `ret_map`, the local files as their checksum against the remote one |
| `Enqueue` | `start_download_tasks()`, at any moment |
| `Poll`, `Front`, `Pop`, `Retry` | `listen_dltask_list()`: the size without the lock, front and pop apart |
| `PythonFails` .. `Upload`, `NoAnswer` | `download_proc()` and `remote_file_operation.py`, with every call that may fail or raise |
| `accepted`, `answers` | history: commands that came, answers uploaded |

`task_deserialize()` makes pairs of the remote and the local names as far as the
shorter list goes (`Paired`); a list that the command lacks counts as empty, for
the exception is swallowed.  Names left over are not worked at, the answer does not
list them, and it may be one of success.

`CommandService` is the promise as a whole (`ImplementsCommands`): answers once each
and in order; success only if every file that the answer lists is there with the
remote checksum, or a later one of the same command in its place, when a command
names a local file twice; and no file touched but those of the command whose
turn it is.  Commands share files, and a transfer may spoil one that had been right.
`NumberedAnswered` says that nothing is forgotten, and names the one thing that
starves the list: a head without number, for which Python returns nothing and
which is retried for ever.

## The socket client

| In `SocketClient` | In the code |
|---|---|
| `desc`, `state`, `watched`, `pending` | the kernel: sockets behind descriptors, their state, the epoll set and what is ready in it |
| `clients`, `efd`, `stop`, `events` | `clients_conf`, `_efd`, `_stop`, `events[]` from `i` on |
| `Socket`, `Dial`, `Check`, `GiveUp`, `Push`, `Add` | `connect()` with `async_connect_check()`, cut where another thread gets in |
| `Find`, `CloseFd`, `Erase` | `re_connect()` and `disconnect()` |
| `Create`, `Wait`, `Callback`, `Lost`, `BreakOff`, `Turn` | `event_handler()` |
| `Broken` | what the callback finds by reading: also a connection that died after `epoll_wait()`, which is reconnected without an EPOLLHUP |
| `Undefined` | two threads in the vector at once, one of which changes it: nothing is said of what follows |
| `meant`, `early`, `crossed`, the socket of an entry | history: what `disconnect()` closed, connections that came before the epoll set, whether threads have met on one descriptor |

The list has no lock, and `close()` frees a descriptor before the entry is
erased, so that another thread's `socket()` can be given it in between:
`crossed` records it, and `BooksAgree` says that the list, the descriptors
and the epoll set agree whenever no call is between its steps, up to that point.
`ServiceUntilMet` speaks of the steps as well.  `ConnectionService` is what the
application is promised: `List` is `push_back()`, `Watch` is `event_add()`, `Close` is
`close()`, `Open` and `End` are the epoll set made and closed by the event thread.
A connection counts as listed while it is behind its descriptor (`ListedAt`), so that
it is gone with `close()`, though its entry is erased later, and by descriptor.
`StopSeen` says that the reconnects of a round, each of which may fail, do not keep
the event thread from the end of it, where `_stop` is read.  That a refused
connection is taken for a good one is a finding (`client_refused`).

## Runs

| Run | Shows | Bounds |
|---|---|---|
| `logger_single` | with one producer no record is overwritten, the service is implemented, a shutdown that is seen is carried out | 5 calls over 3 slots: the ring wraps and fills; batches of 2 and files of 2 records: batch limit and rotation happen; `fopen()` may fail |
| `logger_pair` | with two producers, the overrun, and that every step is one of the service until it | 2 calls each over 2 slots, the smallest ring that two callers overrun |
| `master` | one launched master, one agent per slot, the dead replaced; the agent service until a child turns master | 4 processes, 2 slots, every fork and every exec may fail: two agents can die together and their signals coalesce, a master can die and be replaced or its successor refused, a child turned master forks its own |
| `repo_calls` | calls return unless one of three causes keeps them; lapped at the turn only; no wakeup lost | 2 callers, 2 calls each, a ring of 2: full with one task, and two callers lap it; 2 keys: they come round and a semaphore is removed under its other user; exceptions |
| `repo_few` | a queue; semaphores shared only a round of keys apart; until then never lapped, an answered call may pass, the task service is implemented | 3 callers, 2 calls each; as many keys as positions, as in the code, namely 4: three tasks wait at once, and 6 calls bring keys and positions round under calls that last, with and without sharing |
| `loser_tree` | the merge is implemented, sorted, keeps its turn, decodes | 3 channels, so that leaves lie on two levels; each any of 7 inputs, of one to three ticks, with ties, one out of order; loads at any moment; times modulo 5, rows modulo 2: both wrap |
| `web` | whole messages, the request service, live contexts, who is dropped, who is served | 2 clients, one with two messages (one of them only a header), each in any pieces; handler known or not; a body that fills `msg`; 1 or 2 descriptors, so that accept fails |
| `queue` | the command service is implemented, and no numbered command forgotten | 4 commands in any order: two that share a file and want different things of it, one of which names it twice and has a local name too many; one without local names; one that cannot be answered; every call may fail at any time |
| `client` | list, descriptors and epoll set agree; the connection service until threads meet; stop is seen | one caller and the event thread, 2 descriptors, 3 sockets: a descriptor is given out again, and `socket()` fails for want of one |
| `master_restart`, `repo_wakeup`, `client_refused` | one violation each, [below](#where-code-and-comments-disagree) | the smallest instance that shows it |

`CHECK_DEADLOCK FALSE` is set where the system may stop: the calls of the
application, the processes, the commands and the connections are finite in each
instance, and the end of a process is a state without successors.  The loser
tree can always be loaded again, and its run checks for deadlock.

The larger constants of the code (10000 slots, 100 positions, 100 keys, a limit
of 50) play the same parts as the small ones: what matters is that the ring
wraps, is full and is empty, that keys come round, that the limit is met.  The
theorems remove the bound where they exist.

## Fairness

Weak fairness for each thread or process of the program, and no more: the
scheduler runs what can run.  A mutex need not be given to its oldest waiter, so
`LogReturns` rests on the other threads making finitely many calls; condition
variables and semaphores likewise.  Nobody is obliged to call anything, to launch
a master or to die, and nothing makes a call on a freed logger come back
(`LogReturns` excepts it).  Signals are delivered (weak fairness of `Sigchld`).  An
agent's death and a failing `execl()` are never forced.  `ReturnsUnless` assumes
that Python answers or raises.

`WebApi` has weak fairness of `Server`, its one thread, and none of clients or
network.  `SocketClient` has it for the event thread only.  `DownloadQueue` has it
for the worker, and strong fairness of `Connect`: Python can be set up now and
then, since otherwise every attempt could fail before it has begun; all later
calls may fail for ever, which an answer of -1 tells.  The loser tree is
sequential and needs no fairness for its safety properties.

## Assumptions and bounds

- `Logger` begins when `instance()` has returned.  `get_proc()` loops past the end
  of its buffer when it can read `/proc/<pid>/status` (its loop condition is
  always true), so what the module shows is about a process for which the file cannot be
  opened, or a build in which that loop is mended.
- `EntriesNum >= 2`; with one slot the ring is always full.  `MaxCalls`
  bounds the calls of a thread, `RotateAt` stands for 100 MB.
- `MaxPid` bounds the processes ever created; pids are not used again.
  `ProcNums` stays below `MAX_PROC`, past which `agents[]` ends.
  `RecordedRestarted` exempts the state in which the bound is used up.
- What `reset_proc()` finds in `i` depends on the build.  `ResetStarts` is 0 and 1 in
  the runs; from a larger value the search misses the slots below it, so
  `LostOnlyEarly` is claimed for 0 and 1 only.
- `DownloadRepo` takes the semaphores of the keys as unused at the start, and leaves
  out SEM_UNDO, which acts at the end of the process.  When Python cannot be
  loaded the thread ends, or takes the process with it through an uninitialised
  `pModule`; no task has been accepted in either case.  `KeysAssumption` says that
  there are no more keys than positions; the code has 100 of each.  The missing
  return of `init_ssh_connection()` makes its result arbitrary:
  `OwnResultReturned` is about the result of `download_file()`.  A call is refused for its
  parameters before anything changes; such calls are left out.
- `LoserTree`: times lie at least two below 2^64, since a tick is moved by one
  and must differ from the end mark.  Channels are not empty: the code reads the
  first item of each without asking.  The columns fit their 12 bits.
- `WebApi`: `SizeAssumption` says that no client sends a body longer than
  `MaxMsg` (MAX_MSG_SIZE).  The server does not check the size it is sent
  (`web_api.cpp:237`), and a longer body overruns its buffer, after which nothing is
  claimed; every property and theorem of the module is under this assumption.  A
  client connects once, and a connection keeps its name when its descriptor is given out again, which a
  single thread does not notice.  The events of a round are taken in any order;
  the kernel fixes none.  `limit` is the number of connections that fit under
  RLIMIT_NOFILE.  `recv()` and `send()` are not interrupted by signals; the
  second that the loops allow may end at any iteration.
- `DownloadQueue`: a command comes once; `RemoteFiles` and `LocalFiles` are the two
  lists of names it brings.  Files are compared by checksum only, as the code
  does, so that remote files are told apart by checksum, and they do not
  change.  What the upload of an answer returns is not looked at by the code.
- `SocketClient`: how many tries are left is abstracted: a caller's `connect()`
  gives up after some, the event thread's too.  `MaxSock` bounds
  the sockets ever made, `MaxFd` the descriptors.  The port is never stored in the
  configuration, so that a reconnect dials port 0, where nobody listens.

## Proofs

All theorems hold for every value of the constants that the `ConstantsAssumption`
of their module admits, those of `DownloadRepoProofs` under `KeysAssumption` and
those of `WebApiProofs` under `SizeAssumption` as well.

Each implementation proof has the same shape: the invariants, a lemma for each
action (or for a group of actions that the service does not see) that shows its
step to be one of the service under the refinement mapping, and one that puts them
together (`ServiceStep`).  Where the code keeps the promise only up to an event
(the ring overrun, a child turned master, a semaphore shared, threads meeting), the
property of the run says that every step up to the event is one of the
service; for three of them a second theorem says that a behaviour without the event
is one of the service's.

**LoggerProofs.** `IInv` is the conjunction of `TypeOK`, `Stopping` (which worker
label goes with which state), `Critical` (a producer past the lock is the only
holder), `Distance` (`next` is `Pending` steps ahead of `written`), `Content` (the
slots from `written` on hold the records not yet printed, in order), `Room` (a
producer in the critical section has a slot, unless its test was stale), `Fifo`
and the drain.  Neither `FifoUntilOverrun` nor `DrainedBeforeStop` is inductive
alone: that a line comes out right needs `Content`, which needs that the slot
being filled is outside of what waits, which needs `Distance` and `Room`.  From
`IInv`: `TypeCorrect`, `Fifo`, `ShutdownDrains`, `SlotsApart`, `OverrunIsStale`, and,
for any number of producers, `ServedUntilOverrun` and `ImplementsUnlessOverrun`.
With at most one producer (`Alone`) a test cannot become stale (`FreshCheck`), which
gives `OneProducerNoOverrun`, and with it `OneProducerImplements`: every
behaviour of `Logger` is one of `LogService` under the mapping of `Service`.

**AgentMasterProofs.** `IInv` is the conjunction of `TypeOK`, `Fresh` (processes not
yet created are untouched), `Family` (a child that is not init's has a master for
its parent), `Born` (what `fork()` leaves in a
child), `Scanning` (where `main()` is and what its slot then holds), `Recorded` (a
running child is the one in its slot, or the one being stored), `DeathsAnnounced`,
`LockHeld`, `OneLaunched`, and `Tracked` (a running flag has a living or unreaped
child, or is in `early`).  `OneAgentPerSlot` follows from
`Recorded` and `Scanning`: a slot is started only with its flag at 0, and a flag is
0 only when its child is gone.  `HandlerReaps` describes the handler's effect slot by
slot, for the other lemmas to cite.  `OneLaunched` needs `LockHeld`: a launch that
gets the lock shows that no launched master has it open.  `OnlyEarlyLost` assumes that
`ResetStarts` is within `{0, 1}`; the other theorems need the assumptions on the
constants only.

`OneAgentPerSlot` speaks of the slots of one master.  That a slot has one agent on
the whole host (`OneAnywhere`) needs `FInv`: a child not yet born is nobody's parent
(`Unborn`), and, as long as no child has turned master, `OneFamily`: every
master was launched (`NoStrays`), all agents hold the lock and are children of
the launched master, if one is left (`Kin`), so that those of a dead master and of
a living one never exist together.  It gives
`ServedUntilTurned` and `ImplementsUnlessTurned`.

**DownloadRepoProofs.** `IInv` is the conjunction of `TypeOK`, `Started`, `Held` (what
the thread relies on between its two steps), `InTask`, `Filled` (what lies between
the positions are tasks) and `Order` (until it is lapped, the ring holds the last
tasks accepted, counted back from `write_position`).  It gives `TypeCorrect`,
`Queue`, `LappedAtTurn` and `Awake` (`NoLostWakeup`) with no assumption but that on the
constants.

`Apart` says which key a semaphore in use has: it has one only, and until the keys
have come round it is the one of the call's turn (`KeyBack`).  It needs nothing
of who has removed what, and gives `OnlyApart`: two calls on one semaphore have a
round of keys between them.

Until a semaphore is shared, `KInv` holds (`Fresh`, every task has created a
semaphore and the keys name those of calls that are not over; `Owners`, a call
lasts no longer than its key takes to come round, since the task at which it comes
round would be given its semaphore), and `Usable` (a call keeps its semaphore until
it removes it): `Owned`.  Until the ring is lapped either, `QInv` (`Handed`, what the
thread has handed to whom; `Unposted`, a semaphore is 0 until the thread posts it)
is inductive too, with `Unanswered` (no task left has a result) and `Kept` (a
semaphore that was posted stays up): `Orderly`.  `OwnedOrderly` puts them in one
invariant, which needs no assumption on the behaviour: the
two events are history variables, and what is claimed is claimed as long as they
have not happened.  It gives `SemThere`, `OwnResult` (by `KeysAssumption` the
position of a call is not given out before its key is), `AnsweredMayPass`, the safety
core of `ReturnsUnless`, and `Implements`.

`NoLap` is for fewer callers than positions (`Fewer`): each task in the ring has a
caller that waits for it, so that an injection from tasks to callers shows that
there is room (`RoomLeft`).

**LoserTreeProofs.** `IInv` is the conjunction of `TypeOK`, `Heads` (each `q[c]` is the
next tick of its channel or an end mark), `Labels`, `Leaves`, `Distinct` (no player is
kept at two nodes), `Matches` (every node keeps the loser of its children's
winners), `Local` (a winner is no later than its children's), `Chain` (the
champion's path during an adjustment) and `OnlySentinelZero`.  That the root is
least would be an induction over the tree: instead, `LeastOf` takes the least
node at which it fails, whose father fails already.  `TreeImplementsMerge`,
`OutputSorted`, `TurnKept` and `Decoded` follow, with an invariant of what the caller
was told last (`Told`: `Answered`, `Past`, `Turn`).

**WebApiProofs.** `IInv` is the conjunction of `Types`, `Books` (who has a descriptor, a
context and an event left, and that what is handled is `Ripe`: there is something
to read), `Taken` (what is in `msg`), and for each client `Sent` and
`Stream`: the receive buffer goes on where the server has stopped reading and
ends where the network has.  A stream is described in closed form (`Run`, `Turn`),
so that taking from its front (`Rest`, `Front`) and adding at its end (`Joined`)
need no induction.  `Whole` is `Taken` at the last unit; `Kept` is `Ripe` with
`Stream`: a `recv()` that finds nothing does so in the middle of a message.
`Implements` needs two more facts of the messages of a client: they come in the
order sent (`Rising`), and one whose handler runs has arrived in full
(`HandledArrived`).

**DownloadQueueProofs.** `IInv` is the conjunction of `TypeOK`, `Books` (where the worker
stands in the list), `Progress` (as long as none has failed, the files behind the
worker are right or `Replaced`, even one that is being fetched a second time) and
`SuccessMeansThere` (an answer of success lists the pairs of the command, and each
is there or replaced).  It gives `TypeCorrect`, `InOrder` and `SuccessIsThere`.
`AtTurn` says which command the worker is about, and `WorkStep` that what it does to
the files is within the right of that command: `Implements`.

**SocketClientProofs.** `IInv` is `TypeOK` and, until threads have met on a
descriptor (`Sane`), `Books`: `OneDescriptor`, `OneEntry`, `EntryLive` (an entry is that
of the socket behind its descriptor, or a `disconnect()` that closed this socket
is about to erase it), `CallHasSocket`, `CallsApart`, `ClosedForGood` (a socket that
was closed is behind no descriptor again) and `SetFollows` (the epoll set, with the
sockets about to be added left out).  `BooksAgree` speaks of moments between the
calls only, and is not inductive for that reason: `EntryLive` and `SetFollows` say
what holds in the middle of them.  A step that changes none of it is `Quiet`; the
other five have a lemma each.  `SaneBefore` shows that no step undoes a meeting.

For the service `EInv` adds where the event thread stands with the epoll set
(`LoopWatches`).  A connection is `ListedAt` its descriptor rather than at its entry,
so `ListedIs` and `ListedBehind` say when the two are the same.  The steps outside the
vector are `QuietServed` and `OutsideServed`; `SocketServed`, `PushServed`,
`AddServed`, `CloseServed` and `EraseServed` are the calls' own.  From them
`ServedUntilMet` and `ImplementsUnlessMet`, for every number of threads.

**Model-checked only.** All liveness (`ShutdownHonoured`, `LogReturns`,
`AcceptedWritten`, `RecordedRestarted`, `ReturnsUnless`, `Served`,
`NumberedAnswered`, `StopSeen`), which TLAPS cannot treat under fairness.  Every
safety property of the runs is a theorem.

**Proved only.** Some invariants are theorems and in no run, since a stronger
property of the run contains them or they are steps on the way to one:
`TypeOK` of most modules, `FifoUntilOverrun`, `AnsweredInOrder`,
`SuccessMeansThere`, `VNeverFails`, `OwnResultReturned`.

## Where code and comments disagree

| Run | What the code does | What is said |
|---|---|---|
| `master_restart` | a child dead before its stores is never replaced (`master.c:196`) | "restart monitored process if it dies" (`master.c:7`) |
| `repo_wakeup` | SETVAL after the task is public wipes out its V (`download.cpp:159`) | "wait until the task is finished" (`download.cpp:157`) |
| `client_refused` | reading SO_ERROR clears it, and a second look takes the refused connection for connected (`client_sock.cpp:106`) | "@ret 0  Sucessfully connected." (`client_sock.cpp:76`) |

Others were met while modelling.  They have no run of their own; the models follow
the code:

- The logger's worker overwrites LASTCHANCE with its first store
  (`logger.cpp:179`), which `ShutdownHonoured` names as its exception; `log_warn` and
  `log_info` log at ERROR (`logger.h:71-72`).
- A child whose `execl()` fails falls through into the master's loop
  (`master.c:194`), and agents inherit the lock of a master that dies
  (`master.c:204`); `reset_proc()` searches from an uninitialised index
  (`master.c:135`).
- The test for a full task ring fails at its last position (`download.cpp:139`):
  `LappedOnlyAtTurn`; a result is read after its position is free
  (`download.cpp:161`), and the keys of the semaphores come round onto semaphores
  that may be in use (`download.cpp:24`): `SharedOnlyApart` says when, and what rests
  on a semaphore of one's own is claimed while `Undisturbed`.
- The queued worker answers success though names of the command were left out,
  because one list is longer or missing (`remote_file_operation.py:194`,
  `remote_file_operation.py:201`): `There` is about the files the answer lists.
- A row shifted beside its column keeps 20 bits (`merge_sort.c:178`).
- EAGAIN is taken for a lost connection (`web_api.cpp:122-128`), a failed send
  drops its connection twice (`web_api.cpp:86`), a connection in error is never
  closed and ends each round (`web_api.cpp:276`).
- A reconnect dials port 0, since the port is assigned to itself
  (`client_sock.cpp:171`).
- The Kafka wrapper's send returns 0 after errors other than a full queue
  (`kfk_inter.c:168`).

## What is not modelled

Of the modelled components: `instance()` and `get_proc()` of the logger and the names
of rotated files; the master's option parsing and change of user; parameter checks and
Python's own work in the task repository; the reference counts of the Python
binding of the merge (`sort_wrapper.c`) and a pop before the first load; the XML of
the web API's bodies, which mxml parses and which decides the text of the reply
only, and the registration of its handlers, which is over before it runs;
`write_with_blocking()`, socket options and `event_register()` of the socket client,
which touch none of its books.

Of the repository:

- **Socket server**: `server_sock.cpp` does not compile against its header, so that
  there is no build to follow.  `linux/socketclient` is an earlier copy of
  the client that does not compile either.
- **Kafka wrapper**: handles that are set once and calls of librdkafka, whose queue
  and delivery reports are outside the repository.
- **Mock trading manager**: the code that starts a task is commented out, and
  the callbacks come from a trading library that is not here; what is left
  finds its maps empty.
- **MySQL and Redis high availability**: configuration of keepalived and of the
  sentinels with scripts of a few lines; who is master is decided by VRRP and by
  redis.
- **Blockchain demo**: `blockchain.py` does not parse.
- **Event workers**: `event_worker.py` and `log_new_monitor.py` import a module that
  is not in the repository; `process_monitor.py` has a method without a body;
  `log_monitor.py` and `tail/taillog.py` define a method named `print`, which the
  Python 2 they are written for does not parse.
- **Demonstrations** under `linux/`, `cplusplus/` and `python/`: each shows a call or
  two of a library and keeps no state worth a model.
- **Third-party, generated and configuration files**: among them `catch.hpp` and
  `parson.c`, and the C that Cython generates under `python/cython`, which
  together make up most of the lines of the repository.  The share of all
  lines that the modules stand for is small for this reason; the source files of the
  modelled components are covered for the most part.

## Plan

What remains within reach, in order:

1. **LoggerInstance**: the race of the first callers of `instance()`, its error path,
   and `get_proc()`; a composition with `Logger` for two loggers on one file.
2. Proofs: the task repository after a semaphore has been shared, for the calls it
   does not concern; the safety that other liveness properties rest on, as `VKept` is for
   `ReturnsUnless`: a flag of the master at 0 is met by the next scan, a round of the
   socket client's events only shrinks.
3. The socket client with two callers, which needs more sockets than TLC explores
   in minutes, or an abstraction of the kernel's part.
