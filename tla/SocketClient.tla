---------------------------- MODULE SocketClient ----------------------------
(***************************************************************************)
(* The socket client of linux/local_socket: its event thread and the       *)
(* application's threads open, close and reconnect TCP connections over    *)
(* one list of them and one epoll set, without a lock.  Sockets are        *)
(* numbered as they are made; descriptors are given out again after        *)
(* close(), the lowest first.                                              *)
(***************************************************************************)
EXTENDS Integers, SequencesExt

CONSTANTS
  Callers,   \* the application's threads
  Loop,      \* the thread of event_handler()
  MaxFd,     \* descriptors are 1 .. MaxFd
  MaxSock,   \* bound on the sockets ever made
  Tries      \* tries of the callers' connect(); 0 is without end

ASSUME ConstantsAssumption ==
  /\ Loop \notin Callers /\ IsFiniteSet(Callers)
  /\ MaxFd \in Nat /\ MaxSock \in Nat /\ Tries \in Nat

Threads == Callers \cup {Loop}
Fds == 1 .. MaxFd
Socks == 1 .. MaxSock
Nothing == 0

VARIABLES
  desc,     \* the socket behind each descriptor, or Nothing
  made,     \* sockets made so far
  state,    \* of each socket, see States
  clients,  \* clients_conf: a descriptor and, as history, its socket
  efd,      \* _efd: none, open, or gone after the end of the thread
  watched,  \* sockets in the epoll set
  pending,  \* those of them with an event
  events,   \* events[] from i on: descriptors, and whether they hung up
  stop,     \* _stop
  pc,       \* where each thread is
  fd,       \* fd of each thread's call
  again,    \* threads in re_connect()
  mine,     \* descriptors a caller was given and has not disconnected
  meant,    \* history: the socket that disconnect() closed
  early,    \* history: sockets that came when there was no epoll set
  crossed   \* history: a thread has met another's connection on its fd

vars == <<desc, made, state, clients, efd, watched, pending, events, stop,
          pc, fd, again, mine, meant, early, crossed>>

\* dialing, or dialing port 0 (vain); refused, with the error waiting in
\* SO_ERROR, or failed when that has been read; up; dead when the peer went.
States == {"new", "dialing", "vain", "refused", "failed", "up", "dead"}

Init ==
  /\ desc = [f \in Fds |-> Nothing] /\ made = 0
  /\ state = [s \in Socks |-> "new"]
  /\ clients = <<>> /\ efd = "none"
  /\ watched = {} /\ pending = {} /\ events = {} /\ stop = FALSE
  /\ pc = [t \in Threads |-> IF t = Loop THEN "create" ELSE "idle"]
  /\ fd = [t \in Threads |-> Nothing] /\ again = {}
  /\ mine = [t \in Callers |-> {}]
  /\ meant = [t \in Threads |-> Nothing] /\ early = {} /\ crossed = FALSE

Become(s, x) == state' = [state EXCEPT ![s] = x]
Goto(t, x) == pc' = [pc EXCEPT ![t] = x]
Sock(t) == desc[fd[t]]

-----------------------------------------------------------------------------
(* The kernel and the peers *)

threadVars == <<desc, made, clients, efd, watched, events, stop, pc, fd,
                again, mine, meant, early, crossed>>

\* A connection comes to stand, or is refused; nobody listens at port 0.
Answer(s) ==
  /\ \/ state[s] = "dialing" /\ Become(s, "up")
     \/ state[s] \in {"dialing", "vain"} /\ Become(s, "refused")
  /\ UNCHANGED <<pending, threadVars>>

\* The peer closes, resets or is lost.
Hangup(s) ==
  /\ state[s] = "up" /\ Become(s, "dead")
  /\ pending' = pending \cup ({s} \cap watched)
  /\ UNCHANGED threadVars

Data(s) ==
  /\ state[s] = "up" /\ s \in watched /\ s \notin pending
  /\ pending' = pending \cup {s}
  /\ UNCHANGED <<state, threadVars>>

Kernel == \E s \in 1 .. made : Answer(s) \/ Hangup(s) \/ Data(s)

-----------------------------------------------------------------------------
(* connect(), disconnect() and re_connect(), of any thread *)

\* Two threads use the vector, one of them to change it.
Racing ==
  \E t \in Threads : \E u \in Threads \ {t} :
    pc[t] \in {"push", "erase"} /\ pc[u] \in {"push", "erase", "find"}

\* Where thread t goes on after its call.
After(t) == IF t = Loop THEN "next" ELSE "idle"
Return(t) == Goto(t, After(t)) /\ again' = again \ {t}

Free == {f \in Fds : desc[f] = Nothing}
Lowest == CHOOSE f \in Free : \A g \in Free : f <= g

Limited_Callers(t) == t # Loop /\ Tries > 0
\* connect() of t stops after some tries; how many is left out.
Limited(t) == t = Loop \/ Tries > 0

\* socket(), which fails when there is no descriptor.
Socket(t) ==
  /\ pc[t] = "socket"
  /\ \/ Free = {} /\ Return(t) /\ UNCHANGED <<desc, made, fd>>
     \/ /\ Free # {} /\ made < MaxSock
        /\ made' = made + 1
        /\ desc' = [desc EXCEPT ![Lowest] = made']
        /\ fd' = [fd EXCEPT ![t] = Lowest]
        /\ Goto(t, "dial") /\ UNCHANGED again
  /\ UNCHANGED <<state, clients, efd, watched, pending, events, stop, mine,
                 meant, early, crossed>>

\* connect() returns -1; the socket stays open.
GiveUp(t) ==
  /\ \/ Limited(t) /\ pc[t] = "dial"
     \/ /\ Limited(t) /\ pc[t] = "check"
        /\ Sock(t) # Nothing /\ state[Sock(t)] \in {"dialing", "vain"}
     \/ pc[t] = "check" /\ Sock(t) = Nothing
  /\ Return(t)
  /\ UNCHANGED <<desc, made, state, clients, efd, watched, pending, events,
                 stop, fd, mine, meant, early, crossed>>

\* The port of a connection is never stored: re_connect() dials port 0.
\* Without success, at once or later, connect() tries again.
Dial(t) ==
  /\ pc[t] = "dial" /\ Sock(t) # Nothing
  /\ \/ /\ state[Sock(t)] = "new"
        /\ \/ t \notin again /\ Become(Sock(t), "up") /\ Goto(t, "push")
           \/ /\ Become(Sock(t), IF t \in again THEN "vain" ELSE "dialing")
              /\ Goto(t, "check")
     \/ state[Sock(t)] = "up" /\ Goto(t, "push") /\ UNCHANGED state
  /\ UNCHANGED <<desc, made, clients, efd, watched, pending, events, stop,
                 fd, again, mine, meant, early, crossed>>

\* async_connect_check(): SO_ERROR is read and thereby cleared; after an
\* error it is asked again.
Check(t) ==
  /\ pc[t] = "check" /\ Sock(t) # Nothing
  /\ \/ state[Sock(t)] = "refused" /\ Become(Sock(t), "failed")
        /\ UNCHANGED pc
     \/ /\ state[Sock(t)] \in {"new", "up", "dead", "failed"}
        /\ Goto(t, "push") /\ UNCHANGED state
  /\ UNCHANGED <<desc, made, clients, efd, watched, pending, events, stop,
                 fd, again, mine, meant, early, crossed>>

Push(t) ==
  /\ pc[t] = "push"
  /\ clients' = Append(clients, [fd |-> fd[t], sock |-> Sock(t)])
  /\ Goto(t, "add")
  /\ UNCHANGED <<desc, made, state, efd, watched, pending, events, stop, fd,
                 again, mine, meant, early, crossed>>

Watchable_Kept == efd # "none"
\* ep_add_fd() does nothing without an epoll set, which nobody is told.
Watchable == efd = "open"

\* ep_add_fd() and the return of connect().
Add(t) ==
  /\ pc[t] = "add"
  /\ LET s == {Sock(t)} \ {Nothing} IN
     IF Watchable
     THEN /\ watched' = watched \cup s
          /\ pending' = pending
               \cup {x \in s : state[x] \in {"dead", "failed"}}
          /\ UNCHANGED early
     ELSE early' = early \cup s /\ UNCHANGED <<watched, pending>>
  /\ mine' = IF t = Loop THEN mine ELSE [mine EXCEPT ![t] = @ \cup {fd[t]}]
  /\ Return(t)
  /\ UNCHANGED <<desc, made, state, clients, efd, events, stop, fd, meant,
                 crossed>>

\* re_connect() looks for the configuration of fd; there is no port in it,
\* or it is not found and all of it is zero.
Find(t) ==
  /\ pc[t] = "find"
  /\ Goto(t, "close")
  /\ UNCHANGED <<desc, made, state, clients, efd, watched, pending, events,
                 stop, fd, again, mine, meant, early, crossed>>

Dialled(f, t) ==
  \E u \in Threads \ {t} :
    fd[u] = f /\ pc[u] \in {"dial", "check", "push", "add"}

\* disconnect(): ep_rm_fd() and close().
CloseFd(t) ==
  /\ pc[t] = "close"
  /\ desc' = [desc EXCEPT ![fd[t]] = Nothing]
  /\ watched' = watched \ {Sock(t)} /\ pending' = pending \ {Sock(t)}
  /\ meant' = [meant EXCEPT ![t] = Sock(t)]
  /\ crossed' = (crossed \/ Dialled(fd[t], t))
  /\ Goto(t, "erase")
  /\ UNCHANGED <<made, state, clients, efd, events, stop, fd, again, mine,
                 early>>

Entries(f) == {n \in 1 .. Len(clients) : clients[n].fd = f}
\* The entry that a search from the front finds.
Which(f) == CHOOSE n \in Entries(f) : \A m \in Entries(f) : n <= m

Without_Nobody(f) == clients
Without(f) == RemoveAt(clients, Which(f))

\* disconnect() erases the first entry of fd; re_connect() then connects.
Erase(t) ==
  /\ pc[t] = "erase"
  /\ IF Entries(fd[t]) = {}
     THEN UNCHANGED <<clients, crossed>>
     ELSE /\ clients' = Without(fd[t])
          /\ crossed' = (crossed \/ clients[Which(fd[t])].sock # meant[t])
  /\ Goto(t, IF t \in again THEN "socket" ELSE After(t))
  /\ UNCHANGED <<desc, made, state, efd, watched, pending, events, stop, fd,
                 again, mine, meant, early>>

Call(t) ==
  \/ Socket(t) \/ Dial(t) \/ Check(t) \/ GiveUp(t) \/ Push(t) \/ Add(t)
  \/ Find(t) \/ CloseFd(t) \/ Erase(t)

-----------------------------------------------------------------------------
(* The callers *)

CallerStarts(t) ==
  /\ pc[t] = "idle"
  /\ \/ made < MaxSock /\ Goto(t, "socket") /\ UNCHANGED <<fd, again, mine>>
     \/ \E f \in mine[t] :
          /\ fd' = [fd EXCEPT ![t] = f]
          /\ mine' = [mine EXCEPT ![t] = @ \ {f}]
          /\ \/ Goto(t, "close") /\ UNCHANGED again
             \/ Goto(t, "find") /\ again' = again \cup {t}
  /\ UNCHANGED <<desc, made, state, clients, efd, watched, pending, events,
                 stop, meant, early, crossed>>

Stop(t) ==
  /\ pc[t] = "idle" /\ ~stop /\ stop' = TRUE
  /\ UNCHANGED <<desc, made, state, clients, efd, watched, pending, events,
                 pc, fd, again, mine, meant, early, crossed>>

-----------------------------------------------------------------------------
(* The event thread *)

\* epoll_create1(), and _efd is set; or it fails and the thread ends.
Create ==
  /\ pc[Loop] = "create"
  /\ \/ efd' = "open" /\ Goto(Loop, "wait")
     \/ Goto(Loop, "ended") /\ UNCHANGED efd
  /\ UNCHANGED <<desc, made, state, clients, watched, pending, events, stop,
                 fd, again, mine, meant, early, crossed>>

\* epoll_wait(), without a timeout; each event is reported once.
Wait ==
  /\ pc[Loop] = "wait" /\ pending # {}
  /\ events' = {[fd |-> f, hup |-> state[desc[f]] # "up"] :
                  f \in {g \in Fds : desc[g] \in pending}}
  /\ pending' = {} /\ Goto(Loop, "next")
  /\ UNCHANGED <<desc, made, state, clients, efd, watched, stop, fd, again,
                 mine, meant, early, crossed>>

\* An event of data, or an end that the callback does not tell.
Callback ==
  /\ pc[Loop] = "next"
  /\ \E e \in events : events' = events \ {e}
  /\ UNCHANGED <<desc, made, state, clients, efd, watched, pending, stop, pc,
                 fd, again, mine, meant, early, crossed>>

\* Reading from descriptor f returns ECONNRESET by now.
Broken(f) == desc[f] # Nothing /\ state[desc[f]] = "dead"

\* The end of a connection, as EPOLLHUP or by the callback, which may find one
\* that came after epoll_wait(): re_connect().
Lost ==
  /\ pc[Loop] = "next"
  /\ \E e \in events :
       /\ e.hup \/ Broken(e.fd)
       /\ events' = events \ {e}
       /\ fd' = [fd EXCEPT ![Loop] = e.fd]
  /\ again' = again \cup {Loop} /\ Goto(Loop, "find")
  /\ UNCHANGED <<desc, made, state, clients, efd, watched, pending, stop,
                 mine, meant, early, crossed>>

\* EPOLLHUP after stop(): the other events are left.
BreakOff ==
  /\ pc[Loop] = "next" /\ stop /\ \E e \in events : e.hup
  /\ events' = {}
  /\ UNCHANGED <<desc, made, state, clients, efd, watched, pending, stop, pc,
                 fd, again, mine, meant, early, crossed>>

\* The round is over; after stop() the epoll set is closed.
Turn ==
  /\ pc[Loop] = "next" /\ events = {}
  /\ IF stop
     THEN /\ Goto(Loop, "ended") /\ efd' = "gone"
          /\ watched' = {} /\ pending' = {}
     ELSE Goto(Loop, "wait") /\ UNCHANGED <<efd, watched, pending>>
  /\ UNCHANGED <<desc, made, state, clients, events, stop, fd, again, mine,
                 meant, early, crossed>>

EventThread ==
  Call(Loop) \/ Create \/ Wait \/ Callback \/ Lost \/ BreakOff \/ Turn

\* With both in the vector at once anything may happen, and nothing is said
\* of what comes after.
Undefined ==
  /\ Racing
  /\ pc' = [t \in Threads |-> "undefined"]
  /\ UNCHANGED <<desc, made, state, clients, efd, watched, pending, events,
                 stop, fd, again, mine, meant, early, crossed>>

AnyCaller(t) == Call(t) \/ CallerStarts(t) \/ Stop(t)

Next ==
  \/ Kernel \/ EventThread \/ Undefined
  \/ \E t \in Callers : AnyCaller(t)

\* The event thread runs; peers and callers owe nothing.
Spec == Init /\ [][Next]_vars /\ WF_vars(EventThread)

-----------------------------------------------------------------------------
(* Properties *)

Settled == \A t \in Threads : pc[t] \notin {"add", "erase", "undefined"}
Listed == {clients[n].sock : n \in 1 .. Len(clients)}

\* clients_conf, the descriptors and the epoll set tell the same story: one
\* entry for each connection that is watched, or that came before there was
\* an epoll set, and its descriptor open; unless threads have met on one
\* descriptor (connect(), disconnect(), re_connect()).
BooksAgree ==
  Settled /\ ~crossed =>
    /\ \A n \in 1 .. Len(clients) : desc[clients[n].fd] = clients[n].sock
    /\ \A n, m \in 1 .. Len(clients) :
         clients[n].fd = clients[m].fd => n = m
    /\ efd = "open" => Listed \ early = watched

Met == crossed \/ \E t \in Threads : pc[t] = "undefined"

\* A connection is listed under a descriptor when it is behind it, has an
\* entry, and disconnect() has not closed it.
ListedAt == [f \in Fds |-> IF desc[f] \in Listed THEN desc[f] ELSE Nothing]
Due == {Sock(t) : t \in {u \in Threads : pc[u] = "add"}}
Closed == {s \in 1 .. made : \A f \in Fds : desc[f] # s}

Service ==
  INSTANCE ConnectionService WITH
    Conns <- Socks, None <- Nothing, listed <- ListedAt, due <- Due,
    closed <- Closed, epoll <- efd

\* Until threads have met on one descriptor or in the vector, every step is
\* one of the abstract service: connect() lists a connection once and under
\* a descriptor of its own, and what disconnect() closes is gone from list
\* and epoll set for good, though the entry is erased later than the
\* descriptor is closed, and by descriptor.
ServiceUntilMet ==
  [][Met' \/ UNCHANGED Service!vars \/ Service!Next]_vars

\* Once stop() is called a round of events is the last, however many
\* connections it has to reconnect: none of them keeps the thread
\* (event_handler(), the tries of re_connect()).
StopSeen ==
  stop /\ pc[Loop] \notin {"create", "wait"}
    ~> pc[Loop] \in {"ended", "undefined"} \/ made = MaxSock

\* connect() succeeds only if the peer accepted (async_connect_check()).
ConnectedMeansUp ==
  [][\A t \in Threads :
       pc[t] = "check" /\ pc'[t] = "push"
       => state[Sock(t)] \notin {"refused", "failed"}]_vars
=============================================================================
