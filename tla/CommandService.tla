--------------------------- MODULE CommandService ----------------------------
(***************************************************************************)
(* What the queued download worker promises whoever sends it commands,     *)
(* without its list, its Python program or its retries: numbered commands  *)
(* are answered once each in the order they came, success means that the   *)
(* files the answer lists are there as the remote ones are, and only the   *)
(* files of the command whose turn it is are touched.  What is listed are  *)
(* the names that have a partner: a name without one is left out, and      *)
(* success says nothing of it.                                             *)
(***************************************************************************)
EXTENDS Integers, Sequences

CONSTANTS
  Tasks,        \* commands; each comes once
  RemoteFiles,  \* the remote files a command names
  LocalFiles,   \* the local ones it names for them
  Numbered,     \* the commands that can be answered
  Remotes,      \* remote files
  Files         \* local files

VARIABLES
  accepted,  \* the commands, in the order they came
  answers,   \* what was answered: the command, 1 or -1, and how many files
  holds      \* the remote file a local file is as, or none

vars == <<accepted, answers, holds>>

Contents == Remotes \cup {"broken", "absent"}

Init == accepted = <<>> /\ answers = <<>> /\ holds \in [Files -> Contents]

Waiting == Len(answers) < Len(accepted)
Turn == accepted[Len(answers) + 1]

\* The places at which both lists of a command have a name.
Listed(t) == DOMAIN RemoteFiles[t] \cap DOMAIN LocalFiles[t]
Named(t) == {LocalFiles[t][n] : n \in Listed(t)}

\* Each is there, or a later one of the same command in its place.
There(t) ==
  \A n \in Listed(t) :
    \/ holds[LocalFiles[t][n]] = RemoteFiles[t][n]
    \/ \E m \in Listed(t) : m > n /\ LocalFiles[t][m] = LocalFiles[t][n]

Accept(t) ==
  /\ \A n \in 1 .. Len(accepted) : accepted[n] # t
  /\ accepted' = Append(accepted, t)
  /\ UNCHANGED <<answers, holds>>

\* Files of the command whose turn it is come, or are spoilt.
Work ==
  /\ Waiting
  /\ holds' \in [Files -> Contents]
  /\ \A f \in Files \ Named(Turn) : holds'[f] = holds[f]
  /\ UNCHANGED <<accepted, answers>>

Answer(r) ==
  /\ Waiting /\ Turn \in Numbered
  /\ r = 1 => There(Turn)
  /\ \E m \in 0 .. Len(LocalFiles[Turn]) :
       /\ Listed(Turn) = 1 .. m
       /\ answers' = Append(answers,
            [task |-> Turn, return |-> r, files |-> m])
  /\ UNCHANGED <<accepted, holds>>

Next ==
  \/ \E t \in Tasks : Accept(t)
  \/ Work
  \/ \E r \in {-1, 1} : Answer(r)

Spec == Init /\ [][Next]_vars
=============================================================================
