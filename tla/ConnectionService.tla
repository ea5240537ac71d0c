-------------------------- MODULE ConnectionService --------------------------
(***************************************************************************)
(* What the socket client promises its application, without its vector,    *)
(* its threads or the kernel's sockets: a connection is listed once, under *)
(* a descriptor that lists no other, and is then watched, unless there is  *)
(* no epoll set at that time, which nobody is told; one that is closed is  *)
(* neither listed nor watched again; and when the epoll set is gone none   *)
(* is watched any more.                                                    *)
(***************************************************************************)
CONSTANTS
  Fds,     \* the descriptors
  Conns,   \* the connections, each of which is made once
  None

VARIABLES
  listed,  \* the connection listed under each descriptor, or None
  due,     \* connections listed and about to be watched
  watched,
  closed,
  epoll    \* the epoll set: "none" yet, "open", or "gone"

vars == <<listed, due, watched, closed, epoll>>

Init ==
  /\ listed = [f \in Fds |-> None]
  /\ due = {} /\ watched = {} /\ closed = {} /\ epoll = "none"

List(f, s) ==
  /\ listed[f] = None
  /\ s \notin closed /\ \A g \in Fds : listed[g] # s
  /\ listed' = [listed EXCEPT ![f] = s]
  /\ due' = due \cup {s}
  /\ UNCHANGED <<watched, closed, epoll>>

Watch(s) ==
  /\ s \in due /\ due' = due \ {s}
  /\ watched' = IF epoll = "open" THEN watched \cup {s} ELSE watched
  /\ UNCHANGED <<listed, closed, epoll>>

\* A connection that was never listed may be closed too.
Close(s) ==
  /\ s \notin closed /\ s \notin due
  /\ closed' = closed \cup {s} /\ watched' = watched \ {s}
  /\ listed' = [f \in Fds |-> IF listed[f] = s THEN None ELSE listed[f]]
  /\ UNCHANGED <<due, epoll>>

Open == epoll = "none" /\ epoll' = "open"
        /\ UNCHANGED <<listed, due, watched, closed>>

End == epoll = "open" /\ epoll' = "gone" /\ watched' = {}
       /\ UNCHANGED <<listed, due, closed>>

Next ==
  \/ Open \/ End
  \/ \E s \in Conns : Watch(s) \/ Close(s) \/ \E f \in Fds : List(f, s)

Spec == Init /\ [][Next]_vars
=============================================================================
