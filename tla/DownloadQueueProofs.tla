------------------------ MODULE DownloadQueueProofs -------------------------
(***************************************************************************)
(* Proofs about DownloadQueue, for any commands, files and numbers.        *)
(*                                                                         *)
(* The inductive invariant IInv says where the worker stands in the list   *)
(* (Books) and what ret_map knows of the files behind it (Progress).  A    *)
(* file named twice may be spoilt or replaced after it was found right:    *)
(* what holds is that all files behind the worker are there, or a later    *)
(* one in their place, as long as none has failed.                         *)
(***************************************************************************)
EXTENDS DownloadQueue, TLAPS

InFile == {"compare", "get", "verify"}
InWork == {"remote", "answer"} \cup InFile
Popped == Len(answers) - (IF pc = "pop" THEN 1 ELSE 0)

\* The list holds what was accepted and not yet taken off, and the worker is
\* at the head of it.
Books ==
  /\ Popped \in 0 .. Len(accepted) /\ Len(answers) <= Len(accepted)
  /\ Len(queue) = Len(accepted) - Popped
  /\ \A n \in 1 .. Len(queue) : queue[n] = accepted[n + Popped]
  /\ \A n \in 1 .. Len(answers) : answers[n].task = accepted[n]
  /\ pc # "poll" => queue # <<>>
  /\ pc \in InWork \cup {"python"} => task = Head(queue)

\* No file before the first j has failed.
NoneFailed(j) == \A n \in 1 .. j - 1 : ret[n] # -1
Right(n) == local[LocalFiles[task][n]] = RemoteFiles[task][n]
\* A file before the first j - 1 has taken the place of the n-th.
Replaced(n, j) ==
  \E m \in n + 1 .. j - 1 : LocalFiles[task][m] = LocalFiles[task][n]
RightBefore(j) == \A n \in 1 .. j - 1 : Right(n) \/ Replaced(n, j)

Progress ==
  /\ pc \in InWork => Len(ret) = Paired(task) /\ k \in 1 .. Len(ret) + 1
  /\ pc \in InFile => k \in 1 .. Len(ret)
  /\ pc \in {"remote", "compare", "get"} /\ NoneFailed(k) => RightBefore(k)
  /\ pc = "verify" /\ NoneFailed(k) =>
       \A n \in 1 .. k - 1 :
         Right(n) \/ Replaced(n, k) \/ LocalFiles[task][n] = File
  /\ pc = "answer" /\ NoneFailed(Len(ret) + 1) => RightBefore(Len(ret) + 1)

\* Of the files an answer of success is about each is there when it has been
\* uploaded, unless the same command has put another in its place.
SuccessMeansThere ==
  pc = "pop" /\ answers[Len(answers)].return = 1
  => /\ answers[Len(answers)].files = Paired(task)
     /\ RightBefore(Paired(task) + 1)

IInv == TypeOK /\ Books /\ Progress /\ SuccessMeansThere

-----------------------------------------------------------------------------
(* Sequences *)

LEMMA AppendIs ==
  ASSUME NEW S, NEW s \in Seq(S), NEW e \in S
  PROVE  /\ Append(s, e) \in Seq(S)
         /\ Len(Append(s, e)) = Len(s) + 1
         /\ \A n \in 1 .. Len(s) : Append(s, e)[n] = s[n]
         /\ Append(s, e)[Len(s) + 1] = e
  OBVIOUS

LEMMA TailIs ==
  ASSUME NEW S, NEW s \in Seq(S), s # <<>>
  PROVE  /\ Tail(s) \in Seq(S) /\ Head(s) \in S /\ Head(s) = s[1]
         /\ Len(s) > 0 /\ Len(Tail(s)) = Len(s) - 1
         /\ \A n \in 1 .. Len(s) - 1 : Tail(s)[n] = s[n + 1]
  OBVIOUS

\* A sequence with one element changed.
LEMMA ExceptIs ==
  ASSUME NEW S, NEW s \in Seq(S), NEW j, NEW e \in S
  PROVE  /\ [s EXCEPT ![j] = e] \in Seq(S)
         /\ Len([s EXCEPT ![j] = e]) = Len(s)
         /\ \A n \in 1 .. Len(s) : [s EXCEPT ![j] = e][n] =
                                    IF n = j THEN e ELSE s[n]
<1> DEFINE t == [s EXCEPT ![j] = e]
<1>1. s \in [1 .. Len(s) -> S] /\ Len(s) \in Nat
  OBVIOUS
<1>2. t \in [1 .. Len(s) -> S]
      /\ \A n \in 1 .. Len(s) : t[n] = IF n = j THEN e ELSE s[n]
  BY <1>1
<1>3. t \in Seq(S)
  BY <1>1, <1>2
<1>. HIDE DEF t
<1>4. Len(t) = Len(s)
  BY <1>1, <1>2, <1>3
<1>. QED BY <1>2, <1>3, <1>4 DEF t

-----------------------------------------------------------------------------
(* Type correctness *)

LEMMA FilesAreFiles ==
  ASSUME NEW t \in Tasks
  PROVE  /\ Paired(t) \in Nat
         /\ \A n \in 1 .. Paired(t) :
              RemoteFiles[t][n] \in Remotes /\ LocalFiles[t][n] \in Files
  BY ConstantsAssumption DEF Paired

LEMMA ReturnInRange == Return \in {-1, 1}
  BY DEF Return

NewAnswer == [task |-> task, return |-> Return, files |-> Len(ret)]

LEMMA NewAnswerIs ==
  ASSUME TypeOK
  PROVE  /\ NewAnswer \in [task : Tasks, return : {-1, 1}, files : Nat]
         /\ NewAnswer.task = task /\ NewAnswer.return = Return
         /\ NewAnswer.files = Len(ret)
  BY ReturnInRange DEF TypeOK, NewAnswer

LEMMA NextFileTypes ==
  ASSUME TypeOK, NEW v \in {-1, 0, Unset}, NextFile(v)
  PROVE  /\ ret' \in Seq({-1, 0, Unset}) /\ Len(ret') = Len(ret)
         /\ k' \in Nat /\ pc' = "remote"
<1> DEFINE S == {-1, 0, Unset}
<1>1. ret \in Seq(S) /\ v \in S /\ k \in Nat
  BY DEF TypeOK
<1>2. /\ [ret EXCEPT ![k] = v] \in Seq(S)
      /\ Len([ret EXCEPT ![k] = v]) = Len(ret)
  <2>. HIDE DEF S
  <2>1. [ret EXCEPT ![k] = v] \in Seq(S)
    BY <1>1, ExceptIs
  <2>2. Len([ret EXCEPT ![k] = v]) = Len(ret)
    BY <1>1, ExceptIs
  <2>. QED BY <2>1, <2>2
<1>3. ret' \in Seq(S) /\ Len(ret') = Len(ret)
  BY <1>2 DEF NextFile
<1>4. k' \in Nat /\ pc' = "remote"
  BY <1>1 DEF NextFile
<1>. QED BY <1>3, <1>4

LEMMA TypeInit == Init => TypeOK
  BY DEF Init, TypeOK

LEMMA TypeNext == TypeOK /\ Books /\ Progress /\ [Next]_vars => TypeOK'
<1> SUFFICES ASSUME TypeOK, Books, Progress, [Next]_vars PROVE TypeOK'
  OBVIOUS
<1> USE DEF TypeOK
<1>1. ASSUME NEW t \in Tasks, Enqueue(t) PROVE TypeOK'
  BY <1>1, AppendIs DEF Enqueue
<1>2. CASE Poll BY <1>2 DEF Poll
<1>3. CASE Front
  BY <1>3, TailIs DEF Front, Books
<1>4. CASE PythonFails BY <1>4 DEF PythonFails
<1>5. CASE Connect
  <2>1. ret' \in Seq({-1, 0, Unset})
    BY <1>5, FilesAreFiles DEF Connect
  <2>. QED BY <1>5, <2>1 DEF Connect
<1>6. CASE RemoteSum
  BY <1>6, NextFileTypes DEF RemoteSum, Failed
<1>7. CASE Compare
  <2>1. CASE NextFile(0)
    BY <1>7, <2>1, NextFileTypes DEF Compare
  <2>2. CASE pc' = "get"
    <3> DEFINE S == {-1, 0, Unset}
    <3>1. ret \in Seq(S) /\ -1 \in S
      OBVIOUS
    <3>2. [ret EXCEPT ![k] = -1] \in Seq(S)
      <4>. HIDE DEF S
      <4>. QED BY <3>1, ExceptIs
    <3>. QED BY <1>7, <2>2, <3>2 DEF Compare, NextFile
  <2>. QED BY <1>7, <2>1, <2>2 DEF Compare
<1>8. CASE Get
  <2>1. RemoteFile \in Contents
    BY <1>8, FilesAreFiles
    DEF Get, Progress, InFile, InWork, RemoteFile, Contents
  <2>. QED BY <1>8, <2>1, NextFileTypes DEF Get, Failed, Contents
<1>9. CASE Verify
  BY <1>9, NextFileTypes DEF Verify, Failed, Contents
<1>10. CASE FilesDone BY <1>10 DEF FilesDone
<1>11. CASE Upload
  <2>1. NewAnswer \in [task : Tasks, return : {-1, 1}, files : Nat]
    BY NewAnswerIs
  <2>2. answers' \in Seq([task : Tasks, return : {-1, 1}, files : Nat])
    BY <1>11, <2>1, AppendIs DEF Upload, NewAnswer
  <2>. QED BY <1>11, <2>2 DEF Upload
<1>12. CASE NoAnswer BY <1>12 DEF NoAnswer
<1>13. CASE Pop BY <1>13, TailIs DEF Pop, Books
<1>14. CASE Retry BY <1>14 DEF Retry, AfterFailure
<1>15. CASE UNCHANGED vars BY <1>15 DEF vars
<1>. QED
  BY <1>1, <1>2, <1>3, <1>4, <1>5, <1>6, <1>7, <1>8, <1>9, <1>10, <1>11,
     <1>12, <1>13, <1>14, <1>15 DEF Next, Worker

-----------------------------------------------------------------------------
(* The list *)

LEMMA BooksInit == Init => Books
  BY DEF Init, Books, Popped, InWork, InFile

\* Steps that leave the list alone and stay with its head.
LEMMA BooksKept ==
  ASSUME TypeOK, Books, UNCHANGED <<queue, accepted, answers>>,
         pc # "pop", pc' # "pop", pc' = "poll" \/ queue # <<>>,
         pc' \in InWork \cup {"python"} => task' = Head(queue)
  PROVE  Books'
  BY DEF Books, Popped, TypeOK

LEMMA BooksNext == TypeOK /\ Books /\ [Next]_vars => Books'
<1> SUFFICES ASSUME TypeOK, Books, [Next]_vars PROVE Books'
  OBVIOUS
<1> USE DEF InWork, InFile
<1>1. ASSUME NEW t \in Tasks, Enqueue(t) PROVE Books'
  <2>1. /\ Len(queue') = Len(queue) + 1 /\ Len(accepted') = Len(accepted) + 1
        /\ \A n \in 1 .. Len(queue) : queue'[n] = queue[n]
        /\ \A n \in 1 .. Len(accepted) : accepted'[n] = accepted[n]
        /\ queue'[Len(queue) + 1] = t /\ accepted'[Len(accepted) + 1] = t
        /\ queue' \in Seq(Tasks)
    BY <1>1, AppendIs DEF Enqueue, TypeOK
  <2>2. Popped' = Popped /\ Popped \in Int /\ Len(queue) \in Nat
        /\ Len(accepted) \in Nat /\ Len(answers) \in Nat
    BY <1>1 DEF Enqueue, Popped, TypeOK
  <2>3. /\ Popped' \in 0 .. Len(accepted') /\ Len(answers') <= Len(accepted')
        /\ Len(queue') = Len(accepted') - Popped'
    BY <1>1, <2>1, <2>2 DEF Enqueue, Books
  <2>4. \A n \in 1 .. Len(queue') : queue'[n] = accepted'[n + Popped']
    <3> TAKE n \in 1 .. Len(queue')
    <3>1. CASE n \in 1 .. Len(queue)
      BY <3>1, <2>1, <2>2 DEF Books
    <3>2. CASE n = Len(queue) + 1
      BY <3>2, <2>1, <2>2 DEF Books
    <3>. QED BY <3>1, <3>2, <2>1, <2>2
  <2>5. \A n \in 1 .. Len(answers') : answers'[n].task = accepted'[n]
    BY <1>1, <2>1, <2>2 DEF Enqueue, Books
  <2>6. queue # <<>> => Head(queue') = Head(queue)
    BY <2>1, TailIs DEF TypeOK
  <2>7. queue' # <<>> BY <2>1, <2>2
  <2>. QED BY <1>1, <2>3, <2>4, <2>5, <2>6, <2>7 DEF Enqueue, Books
<1>2. CASE Poll BY <1>2, BooksKept DEF Poll
<1>3. CASE Front BY <1>3, BooksKept DEF Front, Books
<1>4. CASE PythonFails BY <1>4, BooksKept DEF PythonFails, Books
<1>5. CASE Connect BY <1>5, BooksKept DEF Connect, Books
<1>6. CASE RemoteSum BY <1>6, BooksKept DEF RemoteSum, Books, NextFile
<1>7. CASE Compare BY <1>7, BooksKept DEF Compare, Books, NextFile
<1>8. CASE Get BY <1>8, BooksKept DEF Get, Books, NextFile
<1>9. CASE Verify BY <1>9, BooksKept DEF Verify, Books, NextFile
<1>10. CASE FilesDone BY <1>10, BooksKept DEF FilesDone, Books
<1>11. CASE Upload
  <2>1. /\ Len(answers') = Len(answers) + 1
        /\ \A n \in 1 .. Len(answers) : answers'[n] = answers[n]
        /\ answers'[Len(answers) + 1].task = task
        /\ Len(answers) \in Nat /\ Len(accepted) \in Nat
    <3>1. answers' = Append(answers, NewAnswer)
      BY <1>11 DEF Upload, NewAnswer
    <3>. QED BY <3>1, NewAnswerIs, AppendIs DEF TypeOK
  <2>2. Popped' = Popped /\ Popped = Len(answers)
    BY <1>11, <2>1 DEF Upload, Popped
  <2>3. queue # <<>> /\ task = queue[1] /\ Len(queue) > 0
        /\ Len(queue) \in Nat
    BY <1>11, TailIs DEF Upload, Books, TypeOK
  <2>4. task = accepted[Len(answers) + 1]
    BY <2>2, <2>3, <2>1 DEF Books
  <2>5. Len(answers') <= Len(accepted)
    BY <2>1, <2>2, <2>3 DEF Books
  <2>6. \A n \in 1 .. Len(answers') : answers'[n].task = accepted[n]
    <3> TAKE n \in 1 .. Len(answers')
    <3>1. CASE n \in 1 .. Len(answers) BY <3>1, <2>1 DEF Books
    <3>2. CASE n = Len(answers) + 1 BY <3>2, <2>1, <2>4
    <3>. QED BY <3>1, <3>2, <2>1
  <2>7. Popped' \in 0 .. Len(accepted) /\ Len(queue) = Len(accepted) - Popped'
        /\ \A n \in 1 .. Len(queue) : queue[n] = accepted[n + Popped']
    BY <2>2 DEF Books
  <2>. QED BY <1>11, <2>3, <2>5, <2>6, <2>7 DEF Upload, Books
<1>12. CASE NoAnswer BY <1>12, BooksKept DEF NoAnswer, Books
<1>13. CASE Pop
  <2>1. /\ Len(queue) > 0 /\ Len(queue') = Len(queue) - 1
        /\ \A n \in 1 .. Len(queue) - 1 : queue'[n] = queue[n + 1]
        /\ Len(queue) \in Nat /\ Len(accepted) \in Nat /\ Len(answers) \in Nat
    BY <1>13, TailIs DEF Pop, Books, TypeOK
  <2>2. Popped' = Popped + 1
    BY <1>13, <2>1 DEF Pop, Popped
  <2>3. Popped' \in 0 .. Len(accepted) /\ Len(queue') = Len(accepted) - Popped'
    BY <2>1, <2>2 DEF Books
  <2>4. \A n \in 1 .. Len(queue') : queue'[n] = accepted[n + Popped']
    <3> TAKE n \in 1 .. Len(queue')
    <3>1. queue'[n] = queue[n + 1] /\ n + 1 \in 1 .. Len(queue)
      BY <2>1
    <3>2. queue[n + 1] = accepted[(n + 1) + Popped]
      BY <3>1 DEF Books
    <3>. QED BY <3>1, <3>2, <2>2, <2>1 DEF Books
  <2>. QED BY <1>13, <2>3, <2>4 DEF Pop, Books
<1>14. CASE Retry BY <1>14, BooksKept DEF Retry, AfterFailure
<1>15. CASE UNCHANGED vars BY <1>15 DEF vars, Books, Popped
<1>. QED
  BY <1>1, <1>2, <1>3, <1>4, <1>5, <1>6, <1>7, <1>8, <1>9, <1>10, <1>11,
     <1>12, <1>13, <1>14, <1>15 DEF Next, Worker

-----------------------------------------------------------------------------
(* The files *)

\* Where ret_map stands after the work at a file is over.
LEMMA NextFileIs ==
  ASSUME TypeOK, NEW v \in {-1, 0, Unset}, NextFile(v),
         k \in 1 .. Len(ret), task' = task
  PROVE  /\ Len(ret') = Len(ret) /\ k' = k + 1 /\ pc' = "remote"
         /\ k' \in 1 .. Len(ret') + 1
         /\ \A n \in 1 .. k - 1 : ret'[n] = ret[n]
         /\ ret'[k] = v
         /\ NoneFailed(k)' => NoneFailed(k) /\ v # -1
<1> DEFINE S == {-1, 0, Unset}
<1>1. ret \in Seq(S) /\ v \in S /\ k \in Nat /\ Len(ret) \in Nat
  BY DEF TypeOK
<1>2. /\ Len([ret EXCEPT ![k] = v]) = Len(ret)
      /\ \A n \in 1 .. Len(ret) :
           [ret EXCEPT ![k] = v][n] = IF n = k THEN v ELSE ret[n]
  <2>. HIDE DEF S
  <2>. QED BY <1>1, ExceptIs
<1>3. ret' = [ret EXCEPT ![k] = v] /\ k' = k + 1 /\ pc' = "remote"
  BY DEF NextFile
<1>4. /\ Len(ret') = Len(ret)
      /\ \A n \in 1 .. Len(ret) : ret'[n] = IF n = k THEN v ELSE ret[n]
  BY <1>2, <1>3
<1>5. (\A n \in 1 .. k - 1 : ret'[n] = ret[n]) /\ ret'[k] = v
  BY <1>1, <1>4
<1>6. NoneFailed(k)' => NoneFailed(k) /\ v # -1
  <2> HAVE NoneFailed(k)'
  <2>1. \A n \in 1 .. (k + 1) - 1 : ret'[n] # -1
    BY <1>3 DEF NoneFailed
  <2>2. \A n \in 1 .. k : ret'[n] # -1
    BY <2>1, <1>1
  <2>. QED BY <2>2, <1>1, <1>5 DEF NoneFailed
<1>. QED BY <1>1, <1>3, <1>4, <1>5, <1>6

LEMMA ProgressInit == Init => Progress /\ SuccessMeansThere
  BY DEF Init, Progress, SuccessMeansThere, InWork, InFile

\* The file is given up: whatever was there may be spoilt now.
LEMMA ProgressGivenUp ==
  ASSUME TypeOK, Progress, NextFile(-1), pc \in InFile \cup {"remote"},
         k \in 1 .. Len(ret), task' = task
  PROVE  Progress'
<1>1. /\ Len(ret') = Len(ret) /\ k' = k + 1 /\ pc' = "remote"
      /\ k' \in 1 .. Len(ret') + 1 /\ ~NoneFailed(k)'
  BY NextFileIs
<1>2. Len(ret) = Paired(task)
  BY DEF Progress, InWork
<1>. QED BY <1>1, <1>2 DEF Progress, InWork, InFile

\* The file is there, and so are those before it unless one has failed.
LEMMA ProgressDone ==
  ASSUME TypeOK, Progress, NextFile(0), pc \in InFile,
         k \in 1 .. Len(ret), task' = task, local' = local,
         NoneFailed(k) => RightBefore(k + 1)
  PROVE  Progress'
<1>1. /\ Len(ret') = Len(ret) /\ k' = k + 1 /\ pc' = "remote"
      /\ k' \in 1 .. Len(ret') + 1 /\ NoneFailed(k)' => NoneFailed(k)
  BY NextFileIs
<1>2. Len(ret) = Paired(task)
  BY DEF Progress, InWork
<1>3. NoneFailed(k)' => RightBefore(k)'
  BY <1>1 DEF RightBefore, Right, Replaced
<1>. QED BY <1>1, <1>2, <1>3 DEF Progress, InWork, InFile

\* More places are behind the worker: what was replaced still is.
LEMMA StillReplaced ==
  ASSUME NEW n \in Nat, NEW j \in Nat, Replaced(n, j)
  PROVE  Replaced(n, j + 1)
  BY DEF Replaced

LEMMA ProgressNext ==
  ASSUME TypeOK, Books, Progress, SuccessMeansThere, [Next]_vars
  PROVE  Progress' /\ SuccessMeansThere'
<1> USE DEF InWork, InFile
<1>0. /\ k \in Nat /\ Len(ret) \in Nat /\ Paired(task) \in Nat
      /\ \A n \in 1 .. Paired(task) : LocalFiles[task][n] \in Files
  BY FilesAreFiles DEF TypeOK
\* Steps that leave the worker's memory and files alone.
<1>1. ASSUME UNCHANGED <<task, k, ret, local>>,
             pc' = pc \/ (pc' \notin InWork /\ pc' # "pop"),
             pc' = "pop" => UNCHANGED answers
      PROVE  Progress' /\ SuccessMeansThere'
  <2>1. \A j : NoneFailed(j)' <=> NoneFailed(j)
    BY <1>1 DEF NoneFailed
  <2>2. \A j : RightBefore(j)' <=> RightBefore(j)
    BY <1>1 DEF RightBefore, Right, Replaced
  <2>3. /\ \A n : Right(n)' <=> Right(n)
        /\ \A n : Replaced(n, k)' <=> Replaced(n, k)
        /\ Paired(task)' = Paired(task) /\ File' = File
    BY <1>1 DEF Right, Replaced, Paired, File
  <2>4. Progress'
    BY <1>1, <2>1, <2>2, <2>3 DEF Progress
  <2>5. SuccessMeansThere'
    BY <1>1, <2>2, <2>3 DEF SuccessMeansThere
  <2>. QED BY <2>4, <2>5
<1>2. ASSUME NEW t \in Tasks, Enqueue(t)
      PROVE  Progress' /\ SuccessMeansThere'
  BY <1>1, <1>2 DEF Enqueue
<1>3. CASE Poll BY <1>1, <1>3 DEF Poll
<1>4. CASE Front
  BY <1>4 DEF Front, Progress, SuccessMeansThere
<1>5. CASE PythonFails BY <1>1, <1>5 DEF PythonFails
<1>6. CASE Connect
  <2>1. Len(ret') = Paired(task) /\ k' = 1 /\ task' = task
        /\ local' = local
    BY <1>6, <1>0 DEF Connect
  <2>2. CASE pc' = "remote"
    <3>1. RightBefore(1)'
      BY DEF RightBefore
    <3>. QED BY <2>1, <2>2, <3>1, <1>0 DEF Progress, SuccessMeansThere
  <2>3. CASE pc' = "answer"
    <3>1. \A n \in 1 .. Paired(task) : ret'[n] = -1
      BY <1>6, <2>3 DEF Connect
    <3>2. NoneFailed(Len(ret) + 1)' => RightBefore(Len(ret) + 1)'
      <4>1. Paired(task) = 0
              \/ 1 \in 1 .. (Paired(task) + 1) - 1
        BY <1>0
      <4>2. CASE Paired(task) = 0
        BY <4>2, <2>1 DEF RightBefore
      <4>3. CASE 1 \in 1 .. (Paired(task) + 1) - 1
        BY <4>3, <3>1, <2>1, <1>0 DEF NoneFailed
      <4>. QED BY <4>1, <4>2, <4>3
    <3>. QED BY <2>1, <2>3, <3>2, <1>0 DEF Progress, SuccessMeansThere
  <2>. QED BY <1>6, <2>2, <2>3 DEF Connect
<1>7. CASE RemoteSum
  <2>0. k \in 1 .. Len(ret) /\ task' = task /\ local' = local
    BY <1>7, <1>0 DEF RemoteSum, Progress
  <2>1. CASE NextFile(-1)
    <3>1. Progress'
      BY <1>7, <2>0, <2>1, ProgressGivenUp DEF RemoteSum
    <3>. QED BY <3>1, <2>1 DEF NextFile, SuccessMeansThere
  <2>2. CASE pc' = "compare" /\ UNCHANGED <<k, ret>>
    BY <1>7, <2>0, <2>2
    DEF RemoteSum, Progress, SuccessMeansThere, NoneFailed, RightBefore,
      Right, Replaced
  <2>. QED BY <1>7, <2>1, <2>2 DEF RemoteSum, Failed
<1>8. CASE Compare
  <2>0. /\ k \in 1 .. Len(ret) /\ task' = task /\ local' = local
        /\ pc = "compare"
    BY <1>8, <1>0 DEF Compare, Progress
  <2>1. CASE local[File] = RemoteFile /\ NextFile(0)
    <3>1. NoneFailed(k) => RightBefore(k + 1)
      <4> HAVE NoneFailed(k)
      <4> SUFFICES ASSUME NEW n \in 1 .. k PROVE Right(n) \/ Replaced(n, k + 1)
        BY <1>0 DEF RightBefore
      <4>1. CASE n \in 1 .. k - 1
        BY <4>1, <2>0, <1>0, StillReplaced DEF Progress, RightBefore
      <4>2. CASE n = k
        BY <4>2, <2>0, <2>1 DEF File, RemoteFile, Right
      <4>. QED BY <4>1, <4>2, <1>0
    <3>2. Progress'
      BY <2>0, <2>1, <3>1, ProgressDone
    <3>. QED BY <3>2, <2>1 DEF NextFile, SuccessMeansThere
  <2>2. CASE pc' = "get" /\ UNCHANGED <<k, ret>>
    BY <2>0, <2>2
    DEF Progress, SuccessMeansThere, NoneFailed, RightBefore,
      Right, Replaced
  <2>3. CASE pc' = "get" /\ ret' = [ret EXCEPT ![k] = -1] /\ k' = k
    <3> DEFINE S == {-1, 0, Unset}
    <3>1. ret \in Seq(S) /\ -1 \in S
      BY DEF TypeOK
    <3>2. /\ Len([ret EXCEPT ![k] = -1]) = Len(ret)
          /\ \A n \in 1 .. Len(ret) :
               [ret EXCEPT ![k] = -1][n] = IF n = k THEN -1 ELSE ret[n]
      <4>. HIDE DEF S
      <4>. QED BY <3>1, ExceptIs
    <3>3. Len(ret') = Len(ret) /\ \A n \in 1 .. k - 1 : ret'[n] = ret[n]
      BY <2>0, <2>3, <3>2, <1>0
    <3>4. NoneFailed(k)' => NoneFailed(k)
      BY <3>3, <2>3 DEF NoneFailed
    <3>5. RightBefore(k) => RightBefore(k)'
      BY <2>0, <2>3 DEF RightBefore, Right, Replaced
    <3>. QED
      BY <2>0, <2>3, <3>3, <3>4, <3>5 DEF Progress, SuccessMeansThere
  <2>. QED BY <1>8, <2>1, <2>2, <2>3 DEF Compare
<1>9. CASE Get
  <2>0. k \in 1 .. Len(ret) /\ task' = task /\ pc = "get"
    BY <1>9, <1>0 DEF Get, Progress
  <2>1. CASE NextFile(-1)
    <3>1. Progress'
      BY <2>0, <2>1, ProgressGivenUp
    <3>. QED BY <3>1, <2>1 DEF NextFile, SuccessMeansThere
  <2>2. ASSUME pc' = "verify", UNCHANGED <<k, ret>>,
               NEW x \in {RemoteFile, "broken"},
               local' = [local EXCEPT ![File] = x]
        PROVE  Progress' /\ SuccessMeansThere'
    <3>1. NoneFailed(k) =>
            \A n \in 1 .. k - 1 :
              Right(n)' \/ Replaced(n, k) \/ LocalFiles[task][n] = File
      <4> HAVE NoneFailed(k)
      <4> TAKE n \in 1 .. k - 1
      <4>1. LocalFiles[task][n] \in Files /\ local \in [Files -> Contents]
        BY <1>0, <2>0 DEF Progress, TypeOK
      <4>2. Right(n) \/ Replaced(n, k)
        BY <2>0 DEF Progress, RightBefore
      <4>. QED BY <2>0, <2>2, <4>1, <4>2 DEF Right
    <3>2. File' = File /\ (NoneFailed(k)' <=> NoneFailed(k))
      BY <2>0, <2>2 DEF File, NoneFailed
    <3>. QED
      BY <2>0, <2>2, <3>1, <3>2
      DEF Progress, SuccessMeansThere, Replaced
  <2>. QED BY <1>9, <2>1, <2>2 DEF Get, Failed
<1>10. CASE Verify
  <2>0. k \in 1 .. Len(ret) /\ task' = task /\ pc = "verify"
    BY <1>10, <1>0 DEF Verify, Progress
  <2>1. CASE NextFile(-1)
    <3>1. Progress'
      BY <2>0, <2>1, ProgressGivenUp
    <3>. QED BY <3>1, <2>1 DEF NextFile, SuccessMeansThere
  <2>2. CASE Verified /\ NextFile(0) /\ UNCHANGED local
    <3>1. NoneFailed(k) => RightBefore(k + 1)
      <4> HAVE NoneFailed(k)
      <4> SUFFICES ASSUME NEW n \in 1 .. k PROVE Right(n) \/ Replaced(n, k + 1)
        BY <1>0 DEF RightBefore
      <4>1. CASE n \in 1 .. k - 1
        <5>1. Right(n) \/ Replaced(n, k) \/ LocalFiles[task][n] = File
          BY <4>1, <2>0 DEF Progress
        <5>2. LocalFiles[task][n] = File => Replaced(n, k + 1)
          BY <4>1, <1>0 DEF File, Replaced
        <5>. QED BY <5>1, <5>2, <1>0, StillReplaced
      <4>2. CASE n = k
        BY <4>2, <2>2 DEF File, RemoteFile, Verified, Right
      <4>. QED BY <4>1, <4>2, <1>0
    <3>2. Progress'
      BY <2>0, <2>2, <3>1, ProgressDone
    <3>. QED BY <3>2, <2>2 DEF NextFile, SuccessMeansThere
  <2>. QED BY <1>10, <2>1, <2>2 DEF Verify, Failed
<1>11. CASE FilesDone
  <2>0. pc = "remote" /\ pc' = "answer" /\ k = Len(ret) + 1
        /\ UNCHANGED <<task, k, ret, local>>
    BY <1>11, <1>0 DEF FilesDone, Progress
  <2>1. \A j : (NoneFailed(j)' <=> NoneFailed(j))
               /\ (RightBefore(j)' <=> RightBefore(j))
    BY <2>0 DEF NoneFailed, RightBefore, Right, Replaced
  <2>. QED BY <2>0, <2>1 DEF Progress, SuccessMeansThere
<1>12. CASE Upload
  <2>0. pc = "answer" /\ pc' = "pop" /\ UNCHANGED <<task, k, ret, local>>
    BY <1>12 DEF Upload
  <2>1. Len(answers') = Len(answers) + 1
        /\ answers'[Len(answers) + 1] = NewAnswer
    <3>1. answers' = Append(answers, NewAnswer)
      BY <1>12 DEF Upload, NewAnswer
    <3>. QED BY <3>1, NewAnswerIs, AppendIs DEF TypeOK
  <2>2. ASSUME Return = 1
        PROVE  Len(ret) = Paired(task) /\ RightBefore(Paired(task) + 1)
    <3>1. \A n \in DOMAIN ret : ret[n] # -1
      BY <2>2 DEF Return
    <3>2. NoneFailed(Len(ret) + 1)
      BY <3>1, <1>0 DEF NoneFailed, TypeOK
    <3>. QED BY <2>0, <3>2 DEF Progress
  <2>3. RightBefore(Paired(task) + 1)' <=> RightBefore(Paired(task) + 1)
    BY <2>0 DEF RightBefore, Right, Replaced
  <2>4. Len(answers) \in Nat
    BY DEF TypeOK
  <2>. QED
    BY <2>0, <2>1, <2>2, <2>3, <2>4, NewAnswerIs
    DEF Progress, SuccessMeansThere
<1>13. CASE NoAnswer BY <1>1, <1>13 DEF NoAnswer
<1>14. CASE Pop BY <1>1, <1>14 DEF Pop
<1>15. CASE Retry BY <1>1, <1>15 DEF Retry
<1>16. CASE UNCHANGED vars BY <1>1, <1>16 DEF vars
<1>. QED
  BY <1>2, <1>3, <1>4, <1>5, <1>6, <1>7, <1>8, <1>9, <1>10, <1>11, <1>12,
     <1>13, <1>14, <1>15, <1>16 DEF Next, Worker

-----------------------------------------------------------------------------
(* The theorems *)

LEMMA Invariance == Spec => []IInv
<1>1. Init => IInv
  BY TypeInit, BooksInit, ProgressInit DEF IInv
<1>2. IInv /\ [Next]_vars => IInv'
  BY TypeNext, BooksNext, ProgressNext DEF IInv
<1>. QED BY <1>1, <1>2, PTL DEF Spec

\* The list, ret_map and the local files keep their types, and no file past
\* the end of a command is looked up (download_proc(), run()).
THEOREM TypeCorrect == Spec => []TypeOK
<1>1. IInv => TypeOK BY DEF IInv
<1>. QED BY <1>1, Invariance, PTL

\* Commands are answered once each and in the order they came, and what is
\* taken off the list is what was answered, for any commands
\* (listen_dltask_list(), start_download_tasks()).
THEOREM InOrder == Spec => []AnsweredInOrder
<1>1. IInv => AnsweredInOrder
  <2> SUFFICES ASSUME TypeOK, Books PROVE AnsweredInOrder
    BY DEF IInv
  <2>1. /\ Popped \in Nat /\ Len(accepted) \in Nat /\ Popped <= Len(accepted)
        /\ accepted \in Seq(Tasks) /\ queue \in Seq(Tasks)
    BY DEF Books, TypeOK
  <2> DEFINE q == SubSeq(accepted, Popped + 1, Len(accepted))
  <2>2. /\ q \in Seq(Tasks) /\ Len(q) = Len(accepted) - Popped
        /\ \A n \in 1 .. Len(accepted) - Popped : q[n] = accepted[n + Popped]
    BY <2>1
  <2>3. Len(queue) = Len(q) /\ \A n \in 1 .. Len(queue) : queue[n] = q[n]
    BY <2>1, <2>2 DEF Books
  <2>4. queue = q
    <3>. HIDE DEF q
    <3>. QED BY SMTT(30), <2>1, <2>2, <2>3
  <2>. QED BY <2>4 DEF Books, AnsweredInOrder, Popped
<1>. QED BY <1>1, Invariance, PTL

\* When success is answered each file the answer lists is there as the remote
\* one is, or a later file of the same command in its place, whichever calls of
\* Python, ssh and the file system failed.  The answer lists the names that
\* have a partner, and no others (task_deserialize(), download(), run(),
\* dlret_serialize()).
THEOREM SuccessIsThere == Spec => []SuccessMeansThere
<1>1. IInv => SuccessMeansThere BY DEF IInv
<1>. QED BY <1>1, Invariance, PTL

-----------------------------------------------------------------------------
(* The worker implements the command service                               *)

\* While the worker works at a command it is that command's turn.
LEMMA AtTurn ==
  ASSUME TypeOK, Books, pc \in InWork
  PROVE  /\ Service!Waiting /\ Service!Turn = task
         /\ Service!Listed(task) = 1 .. Paired(task)
         /\ Paired(task) \in 0 .. Len(LocalFiles[task])
<1>1. Popped = Len(answers) /\ queue # <<>> /\ task = Head(queue)
  BY DEF Books, Popped, InWork, InFile
<1>2. task = queue[1] /\ Len(queue) > 0 /\ Len(queue) \in Nat
      /\ Len(answers) \in Nat /\ Len(accepted) \in Nat
  BY <1>1, TailIs DEF TypeOK
<1>3. task = accepted[Len(answers) + 1] /\ Len(answers) < Len(accepted)
  BY <1>1, <1>2 DEF Books
<1>4. RemoteFiles[task] \in Seq(Remotes) /\ LocalFiles[task] \in Seq(Files)
  BY ConstantsAssumption DEF TypeOK
<1>5. /\ Service!Listed(task) = 1 .. Paired(task)
      /\ Paired(task) \in 0 .. Len(LocalFiles[task])
  BY <1>4 DEF Service!Listed, Paired
<1>. QED BY <1>3, <1>5 DEF Service!Waiting, Service!Turn

\* A step that may change the file the worker is at, and nothing else the
\* service knows.
LEMMA WorkStep ==
  ASSUME TypeOK, Books, pc \in InWork, k \in 1 .. Paired(task),
         accepted' = accepted, answers' = answers,
         NEW x \in Contents, local' = [local EXCEPT ![File] = x]
  PROVE  Service!Work
<1>1. File \in Service!Named(Service!Turn)
  BY AtTurn DEF File, Service!Named
<1>2. \A f \in Files \ Service!Named(Service!Turn) : local'[f] = local[f]
  BY <1>1 DEF TypeOK
<1>3. local' \in [Files -> Service!Contents]
  BY DEF TypeOK, Contents, Service!Contents
<1>. QED BY <1>2, <1>3, AtTurn DEF Service!Work

LEMMA ServiceStep ==
  ASSUME IInv, IInv', [Next]_vars
  PROVE  [Service!Next]_(Service!vars)
<1> USE DEF Service!Next, Service!vars
<1>0. TypeOK /\ Books /\ Progress
  BY DEF IInv
\* Steps that leave alone all the service knows.
<1>1. ASSUME accepted' = accepted, answers' = answers, local' = local
      PROVE  UNCHANGED Service!vars
  BY <1>1
<1>2. ASSUME NEW t \in Tasks, Enqueue(t) PROVE Service!Accept(t)
  BY <1>2 DEF Enqueue, Service!Accept
<1>3. CASE Get
  <2>1. pc \in InWork /\ k \in 1 .. Paired(task)
        /\ accepted' = accepted /\ answers' = answers
    BY <1>0, <1>3 DEF Get, Progress, InFile, InWork
  <2>2. PICK x \in Contents : local' = [local EXCEPT ![File] = x]
    <3>1. RemoteFile \in Contents /\ "broken" \in Contents
      BY <1>0, <2>1, FilesAreFiles DEF RemoteFile, Contents, TypeOK
    <3>. QED BY <1>3, <3>1 DEF Get
  <2>3. Service!Work
    BY <1>0, <2>1, <2>2, WorkStep
  <2>. QED BY <2>3
<1>4. CASE Verify
  <2>1. pc \in InWork /\ k \in 1 .. Paired(task)
        /\ accepted' = accepted /\ answers' = answers
    BY <1>0, <1>4 DEF Verify, Progress, InFile, InWork
  <2>2. CASE local' = local
    BY <1>1, <2>1, <2>2
  <2>3. CASE local' = [local EXCEPT ![File] = "absent"]
    <3>1. Service!Work
      BY <1>0, <2>1, <2>3, WorkStep DEF Contents
    <3>. QED BY <3>1
  <2>. QED BY <1>4, <2>2, <2>3 DEF Verify
<1>5. CASE Upload
  <2>1. pc = "answer" /\ task \in Numbered /\ accepted' = accepted
        /\ local' = local /\ task' = task /\ pc' = "pop"
        /\ answers' = Append(answers, NewAnswer)
    BY <1>5 DEF Upload, NewAnswer
  <2>2. /\ Service!Waiting /\ Service!Turn = task
        /\ Service!Listed(task) = 1 .. Paired(task)
        /\ Paired(task) \in 0 .. Len(LocalFiles[task])
    BY <1>0, <2>1, AtTurn DEF InWork
  <2>3. ASSUME Return = 1 PROVE Service!There(task)
    <3>1. Len(answers') = Len(answers) + 1
          /\ answers'[Len(answers) + 1].return = Return
      BY <1>0, <2>1, NewAnswerIs, AppendIs DEF TypeOK
    <3>2. answers'[Len(answers')].return = 1
      BY <2>3, <3>1
    <3>3. RightBefore(Paired(task) + 1)'
      BY <2>1, <3>2 DEF IInv, SuccessMeansThere
    <3>4. RightBefore(Paired(task) + 1)
      BY <2>1, <3>3 DEF RightBefore, Right, Replaced
    <3>5. Paired(task) \in Nat
      BY <1>0, FilesAreFiles DEF TypeOK
    <3>6. ASSUME NEW n \in 1 .. Paired(task), Replaced(n, Paired(task) + 1)
          PROVE  \E m \in 1 .. Paired(task) :
                   m > n /\ LocalFiles[task][m] = LocalFiles[task][n]
      BY <3>5, <3>6 DEF Replaced
    <3>. QED BY <2>2, <3>4, <3>5, <3>6 DEF Service!There, RightBefore, Right
  <2>4. NewAnswer = [task |-> task, return |-> Return,
                     files |-> Paired(task)]
    BY <1>0, <2>1 DEF NewAnswer, Progress, InWork
  <2>5. Service!Answer(Return)
    BY <2>1, <2>2, <2>3, <2>4 DEF Service!Answer
  <2>. QED BY <2>5, ReturnInRange
<1>6. CASE \/ Poll \/ Front \/ PythonFails \/ Connect \/ RemoteSum \/ Compare
           \/ FilesDone \/ NoAnswer \/ Pop \/ Retry \/ UNCHANGED vars
  <2>1. accepted' = accepted /\ answers' = answers /\ local' = local
    BY <1>6 DEF Poll, Front, PythonFails, Connect, RemoteSum, Compare,
      FilesDone, NoAnswer, Pop, Retry, vars
  <2>. QED BY <1>1, <2>1
<1>. QED BY <1>2, <1>3, <1>4, <1>5, <1>6 DEF Next, Worker

\* The list, the retries and the Python program behind them implement the
\* command service, for any commands and files (listen_dltask_list(),
\* download_proc(), run(), dlret_serialize()).
THEOREM Implements == Spec => ImplementsCommands
<1>1. Init => Service!Init
  BY DEF Init, Service!Init, Contents, Service!Contents
<1>2. IInv /\ IInv' /\ [Next]_vars => [Service!Next]_(Service!vars)
  BY ServiceStep
<1>3. Spec => Service!Spec
  BY <1>1, <1>2, Invariance, PTL DEF Spec, Service!Spec
<1>. QED BY <1>3 DEF ImplementsCommands
=============================================================================
