------------------------------- MODULE WebApi -------------------------------
(***************************************************************************)
(* The web API server of cplusplus/webapi: one thread with an epoll set,   *)
(* non-blocking connections, and a message context for each of them.  A    *)
(* message is a header of HeadLen units, which says how many units of body *)
(* follow, and the body; the network delivers it in pieces of any length.  *)
(* A connection is named by its client: its descriptor may be used again   *)
(* after close(), which a single thread does not notice.                   *)
(***************************************************************************)
EXTENDS Integers, Sequences, FiniteSets

CONSTANTS
  Clients,      \* connections, each made once
  Listen,       \* the listening socket
  Scripts,      \* what the clients may send: messages, for each client
  MaxScript,    \* bound on the messages of a client
  HeadLen,      \* sizeof(recv_fmt_t), in units
  MaxMsg,       \* MAX_MSG_SIZE, in units: the body that msg has room for
  Descriptors   \* how many connections the process may have open

\* Size of the body; whether a handler is registered for the type.
Messages == [size : Nat, known : BOOLEAN]

ASSUME ConstantsAssumption ==
  /\ Listen \notin Clients
  /\ HeadLen \in Nat \ {0} /\ MaxMsg \in Nat /\ MaxScript \in Nat
  /\ Descriptors \subseteq Nat
  /\ Scripts \subseteq [Clients -> Seq(Messages)]
  /\ \A f \in Scripts, c \in Clients : Len(f[c]) <= MaxScript

\* The size comes off the wire and on_peer_ready_recv() receives that much
\* into msg, whatever it is: the clients are assumed to send no body that msg
\* has no room for.  What happens after a longer one is not defined.
ASSUME SizeAssumption ==
  \A f \in Scripts, c \in Clients : \A n \in 1 .. Len(f[c]) :
    f[c][n].size <= MaxMsg

VARIABLES
  limit,    \* descriptors left to the server (RLIMIT_NOFILE)
  script,   \* what each client is to send
  peer,     \* the client's end: none, up, closed (FIN) or reset (RST)
  stalled,  \* clients that do not read, whose send buffer is full
  at,       \* messages begun and units delivered of the last
  inbuf,    \* units in the connection's receive buffer
  fd,       \* the server's end: none, queued, open (in the epoll set), closed
  ctx,      \* keys of msg_ctx_map
  round,    \* events[] from i on: sockets with EPOLLIN, and whether EPOLLERR
  cur,      \* fd of on_peer_ready_recv()
  got,      \* units in msg
  errno,    \* "again" for EAGAIN, "other" for all else
  pc,       \* where the server is
  handled,  \* history: messages given to proc_msg()
  torn      \* history: clients with a message that came in pieces

clientVars == <<limit, script, peer, stalled, at, torn>>
vars == <<limit, script, peer, stalled, at, inbuf, fd, ctx, round, cur,
          got, errno, pc, handled, torn>>

Length(c, n) == HeadLen + script[c][n].size
\* The units of message n of client c.
Units(c, n) == [k \in 1 .. Length(c, n) |-> [msg |-> n, off |-> k]]

Open == {c \in Clients : fd[c] = "open"}
Queued == {c \in Clients : fd[c] = "queued"}

Init ==
  /\ script \in Scripts /\ limit \in Descriptors
  /\ peer = [c \in Clients |-> "none"] /\ stalled = {}
  /\ at = [c \in Clients |-> [msg |-> 0, off |-> 0]]
  /\ inbuf = [c \in Clients |-> <<>>]
  /\ fd = [c \in Clients |-> "none"]
  /\ ctx = {} /\ round = {} /\ cur = Listen /\ got = <<>>
  /\ errno = "other" /\ pc = "loop"
  /\ handled = [c \in Clients |-> 0] /\ torn = {}

-----------------------------------------------------------------------------
(* The clients and the network *)

serverVars == <<ctx, round, cur, got, errno, pc, handled>>

Connect(c) ==
  /\ peer[c] = "none"
  /\ peer' = [peer EXCEPT ![c] = "up"]
  /\ fd' = [fd EXCEPT ![c] = "queued"]
  /\ UNCHANGED <<limit, script, stalled, at, inbuf, torn, serverVars>>

\* Some units arrive: a piece of message n, after off units of it.
Arrive(c, n, off) ==
  \E k \in off + 1 .. Length(c, n) :
    /\ at' = [at EXCEPT ![c] = [msg |-> n, off |-> k]]
    /\ inbuf' = [inbuf EXCEPT ![c] = @ \o SubSeq(Units(c, n), off + 1, k)]
    /\ torn' = IF k < Length(c, n) THEN torn \cup {c} ELSE torn
    /\ UNCHANGED <<limit, script, peer, stalled, fd, serverVars>>

AtEnd(c) == at[c].msg = 0 \/ at[c].off = Length(c, at[c].msg)

Deliver(c) ==
  /\ peer[c] = "up" /\ fd[c] # "closed"
  /\ IF AtEnd(c)
     THEN at[c].msg < Len(script[c]) /\ Arrive(c, at[c].msg + 1, 0)
     ELSE Arrive(c, at[c].msg, at[c].off)

\* The client closes, in the middle of a message or not.
Close(c) ==
  /\ peer[c] = "up"
  /\ peer' = [peer EXCEPT ![c] = "closed"]
  /\ UNCHANGED <<limit, script, stalled, at, inbuf, fd, torn, serverVars>>

\* Its host is gone, or answers what is sent to a closed socket.
Reset(c) ==
  /\ peer[c] \in {"up", "closed"}
  /\ peer' = [peer EXCEPT ![c] = "reset"]
  /\ UNCHANGED <<limit, script, stalled, at, inbuf, fd, torn, serverVars>>

Stall(c) ==
  /\ peer[c] = "up"
  /\ stalled' = stalled \cup {c}
  /\ UNCHANGED <<limit, script, peer, at, inbuf, fd, torn, serverVars>>

Client(c) == Connect(c) \/ Deliver(c) \/ Close(c) \/ Reset(c) \/ Stall(c)

-----------------------------------------------------------------------------
(* The server *)

Readable_Always(c) == TRUE
\* EPOLLIN: there is data, or the end of it.
Readable(c) == inbuf[c] # <<>> \/ peer[c] # "up"

Errored_Closed(c) == peer[c] # "up"
\* EPOLLERR: the connection has been reset.
Errored(c) == peer[c] = "reset"

Events ==
  {[of |-> c, err |-> Errored(c)] : c \in {d \in Open : Readable(d)}}
    \cup (IF Queued = {} THEN {} ELSE {[of |-> Listen, err |-> FALSE]})

\* epoll_wait().  Connections always have EPOLLOUT, for which nothing is
\* done; the events are taken in any order.
Wait ==
  /\ pc = "loop" /\ round = {}
  /\ Events # {} /\ round' = Events
  /\ UNCHANGED <<clientVars, inbuf, fd, ctx, cur, got, errno, pc, handled>>

\* An error ends the round, and is left where it is.
Break ==
  /\ pc = "loop" /\ \E e \in round : e.err
  /\ round' = {}
  /\ UNCHANGED <<clientVars, inbuf, fd, ctx, cur, got, errno, pc, handled>>

\* The next event to handle is of socket x.
Take(x) ==
  /\ pc = "loop"
  /\ \E e \in round : e.of = x /\ ~e.err /\ round' = round \ {e}

CanAccept == Cardinality(Open) < limit

\* A new connection; getnameinfo() may leave another errno.
Accept ==
  /\ Take(Listen) /\ CanAccept
  /\ \E c \in Queued : fd' = [fd EXCEPT ![c] = "open"]
  /\ errno' \in {errno, "other"}
  /\ UNCHANGED <<clientVars, inbuf, ctx, cur, got, pc, handled>>

\* accept() fails (EMFILE) and perror_die() ends the process.
AcceptFails ==
  /\ Take(Listen) /\ ~CanAccept
  /\ pc' = "exited"
  /\ UNCHANGED <<clientVars, inbuf, fd, ctx, cur, got, errno, handled>>

\* on_peer_ready_recv() up to its first recv().
Ready(c) ==
  /\ Take(c)
  /\ ctx' = ctx \cup {c}
  /\ cur' = c /\ got' = <<>> /\ pc' = "head"
  /\ UNCHANGED <<clientVars, inbuf, fd, errno, handled>>

Erased_Kept(c) == ctx
Erased(c) == ctx \ {c}

\* drop_connection().
Drop(c) ==
  /\ fd' = [fd EXCEPT ![c] = "closed"]
  /\ ctx' = Erased(c)

BodySize(g) == script[cur][g[1].msg].size
\* What msg is to hold before the server goes on.
Need == IF pc = "head" THEN HeadLen ELSE HeadLen + BodySize(got)

Left_Whole == Need
\* size - idx of recv_or_timeout().
Left == Need - Len(got)

Finished_Any(g) == g # <<>>
Finished(g) == Len(g) = Need

\* After the header comes the body, unless it is empty, then proc_msg().
NextPart(g) == IF pc = "head" /\ BodySize(g) > 0 THEN "body" ELSE "handle"

Smaller(a, b) == IF a < b THEN a ELSE b

Reading == pc \in {"head", "body"}

\* recv() returns what there is, up to what is wanted.  If a second ends
\* while there is more to come the connection is dropped.
RecvSome ==
  /\ Reading /\ inbuf[cur] # <<>>
  /\ LET k == Smaller(Left, Len(inbuf[cur]))
         g == got \o SubSeq(inbuf[cur], 1, k) IN
     /\ got' = g
     /\ inbuf' = [inbuf EXCEPT ![cur] = SubSeq(@, k + 1, Len(@))]
     /\ \/ Finished(g) /\ pc' = NextPart(g) /\ UNCHANGED <<fd, ctx>>
        \/ ~Finished(g) /\ UNCHANGED <<pc, fd, ctx>>
        \/ ~Finished(g) /\ Drop(cur) /\ pc' = "loop"
  /\ UNCHANGED <<clientVars, round, cur, errno, handled>>

\* recv() returns -1: reset, or nothing there yet, which is EAGAIN.
RecvError ==
  /\ Reading /\ inbuf[cur] = <<>> /\ peer[cur] # "closed"
  /\ errno' = IF peer[cur] = "up" THEN "again" ELSE "other"
  /\ Drop(cur) /\ pc' = "loop"
  /\ UNCHANGED <<clientVars, inbuf, round, cur, got, handled>>

\* recv() returns 0: the client has closed.  errno is of an earlier call.
AtEOF == Reading /\ inbuf[cur] = <<>> /\ peer[cur] = "closed"

RecvEOF ==
  /\ AtEOF /\ errno # "again"
  /\ Drop(cur) /\ pc' = "loop"
  /\ UNCHANGED <<clientVars, inbuf, round, cur, got, errno, handled>>

\* It says EAGAIN: recv() is called again, and returns 0 again.
RecvSpin == AtEOF /\ errno = "again" /\ UNCHANGED vars

\* The messages that proc_msg() gives to a handler and answers: a body, one
\* smaller than MAX_MSG_SIZE, and a known type.
Answered(m) == m.size > 0 /\ m.size < MaxMsg /\ m.known

\* proc_msg() up to the reply; a handler may leave another errno.
Handle ==
  /\ pc = "handle"
  /\ IF Answered(script[cur][got[1].msg])
     THEN pc' = "reply" /\ errno' \in {errno, "other"}
     ELSE pc' = "loop" /\ UNCHANGED errno
  /\ handled' = [handled EXCEPT ![cur] = @ + 1]
  /\ UNCHANGED <<clientVars, inbuf, fd, ctx, round, cur, got>>

\* send() to c may return -1.
Refused(c) == peer[c] = "reset" \/ c \in stalled

\* "ok" or "failed" is sent, whole.
Send ==
  /\ pc = "reply" /\ peer[cur] # "reset"
  /\ pc' = "loop"
  /\ UNCHANGED <<clientVars, inbuf, fd, ctx, round, cur, got, errno, handled>>

\* A part of it is sent when a second ends.
SendTimeout ==
  /\ pc = "reply" /\ cur \in stalled
  /\ Drop(cur) /\ pc' = "loop"
  /\ UNCHANGED <<clientVars, inbuf, round, cur, got, errno, handled>>

\* send() returns -1: the connection is dropped, and dropped again after
\* the next send() or the timeout; perror_die() then ends the process.
SendFails ==
  /\ pc = "reply" /\ Refused(cur)
  /\ Drop(cur) /\ pc' = "exited"
  /\ UNCHANGED <<clientVars, inbuf, round, cur, got, errno, handled>>

Server ==
  \/ Wait \/ Break \/ Accept \/ AcceptFails
  \/ \E c \in Clients : Ready(c)
  \/ RecvSome \/ RecvError \/ RecvEOF \/ RecvSpin
  \/ Handle \/ Send \/ SendTimeout \/ SendFails

Next == Server \/ \E c \in Clients : Client(c)

\* The server's thread runs; clients and network owe nothing.
Spec == Init /\ [][Next]_vars /\ WF_vars(Server)

-----------------------------------------------------------------------------
(* Properties *)

Unit == [msg : Nat, off : Nat]

\* Buffers, events and descriptors keep their types, and msg never takes
\* more than the header and the body it announces (recv_or_timeout()), nor,
\* with bodies it has room for, than it holds.
TypeOK ==
  /\ script \in Scripts /\ limit \in Descriptors
  /\ peer \in [Clients -> {"none", "up", "closed", "reset"}]
  /\ stalled \subseteq Clients /\ torn \subseteq Clients
  /\ at \in [Clients -> Unit]
  /\ inbuf \in [Clients -> Seq(Unit)]
  /\ fd \in [Clients -> {"none", "queued", "open", "closed"}]
  /\ ctx \subseteq Clients
  /\ round \subseteq [of : Clients \cup {Listen}, err : BOOLEAN]
  /\ cur \in Clients \cup {Listen}
  /\ pc \in {"loop", "head", "body", "handle", "reply", "exited"}
  /\ got \in Seq(Unit)
  /\ Reading => Len(got) <= Need /\ Need <= HeadLen + MaxMsg
  /\ errno \in {"again", "other"}
  /\ handled \in [Clients -> Nat]

\* proc_msg() is given the messages of each client whole, in order, none
\* skipped and none twice, however the network cuts them
\* (recv_or_timeout(), on_peer_ready_recv()).
HandledWhole == pc = "handle" => got = Units(cur, handled[cur] + 1)

\* Requests that ask for a reply; how many have arrived whole.
Wants ==
  [c \in Clients |-> [n \in 1 .. Len(script[c]) |-> Answered(script[c][n])]]
Arrived == [c \in Clients |-> IF AtEnd(c) THEN at[c].msg ELSE at[c].msg - 1]
Owed == IF pc = "reply" THEN {cur} ELSE {}
Over == {c \in Clients : fd[c] = "closed"}

Service ==
  INSTANCE RequestService
  WITH wants <- Wants, sent <- Arrived, owed <- Owed, over <- Over,
       up <- pc # "exited"

\* However the network cuts the messages and whoever closes, vanishes or does
\* not read: nothing is handled before it was sent whole, nothing twice, and
\* nothing between a request and its reply (web_api_run(), proc_msg()).
ImplementsRequests == Service!Spec

\* A message context and an event left of a round are of an open connection
\* (a closed descriptor may be another's by then), and the context that
\* on_peer_ready_recv() refers to is there while it is used.
ContextsLive ==
  /\ ctx \subseteq Open
  /\ \A e \in round : e.of \in Open \cup {Listen}
  /\ pc \in {"head", "body", "handle", "reply"} => cur \in ctx

\* A client that stays and whose messages each arrive at once is never
\* dropped (the -1 and the timeout of recv_or_timeout()).
WholeMessagesKept ==
  [][\A c \in Clients :
       fd[c] = "open" /\ fd'[c] = "closed" /\ peer[c] = "up"
       => c \in torn \cup stalled]_vars

\* recv() returns 0 for ever, after an EAGAIN of another connection.
Spinning == AtEOF /\ errno = "again"
Behind == \E c \in Open : peer[c] = "reset"

\* A message that has arrived is handled or its connection dropped, unless
\* the server ends, spins, or is stopped short in each round by an open
\* connection in error (web_api_run()).
Served ==
  \A c \in Clients : \A n \in 1 .. MaxScript :
    (at[c].msg > n \/ (at[c].msg = n /\ AtEnd(c)))
      ~> (handled[c] >= n \/ fd[c] = "closed"
          \/ pc = "exited" \/ Spinning \/ Behind)
=============================================================================
