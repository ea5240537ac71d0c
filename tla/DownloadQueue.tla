--------------------------- MODULE DownloadQueue ----------------------------
(***************************************************************************)
(* The queued download worker of linux/download: a subscriber appends      *)
(* commands to task_list, one thread works at the head of it, and takes it *)
(* off when its answer has been uploaded.  The work is the Python program  *)
(* remote_file_operation.py: it compares checksums over ssh, fetches what  *)
(* differs and compares again.                                             *)
(***************************************************************************)
EXTENDS Integers, Sequences

CONSTANTS
  Tasks,        \* commands; each comes once
  RemoteFiles,  \* the "remote_files" of a command
  LocalFiles,   \* its "local_files": a list it lacks counts as empty
  Numbered,     \* the commands that have a "seq" and a "type"
  Remotes,      \* remote files, told apart by their checksums
  Files         \* local files

ASSUME ConstantsAssumption ==
  /\ RemoteFiles \in [Tasks -> Seq(Remotes)]
  /\ LocalFiles \in [Tasks -> Seq(Files)]
  /\ Numbered \subseteq Tasks

VARIABLES
  queue,     \* task_list
  accepted,  \* history: every command, in the order they came
  answers,   \* what has been uploaded: the task, 1 or -1, and how many files
  pc,        \* where the worker is
  task,      \* task_str
  k,         \* the file the worker is at
  ret,       \* ret_map: 0 or -1 for each file of the task, Unset at first
  local      \* the remote file a local one holds, something else, or nothing

vars == <<queue, accepted, answers, pc, task, k, ret, local>>

Unset == 1
Contents == Remotes \cup {"broken", "absent"}
Answered == {answers[n].task : n \in 1 .. Len(answers)}

Init ==
  /\ queue = <<>> /\ accepted = <<>> /\ answers = <<>>
  /\ pc = "poll" /\ task \in Tasks /\ k = 0 /\ ret = <<>>
  /\ local \in [Files -> Contents]

\* start_download_tasks().
Enqueue(t) ==
  /\ \A n \in 1 .. Len(accepted) : accepted[n] # t
  /\ queue' = Append(queue, t) /\ accepted' = Append(accepted, t)
  /\ UNCHANGED <<answers, pc, task, k, ret, local>>

-----------------------------------------------------------------------------
(* listen_dltask_list() and download_proc() *)

\* task_deserialize(): the names make pairs as far as the shorter list goes;
\* those left over are not worked at, nor is a word said of them.
Paired(t) ==
  IF Len(RemoteFiles[t]) <= Len(LocalFiles[t])
  THEN Len(RemoteFiles[t]) ELSE Len(LocalFiles[t])

\* size(), without the lock.
Poll ==
  /\ pc = "poll" /\ queue # <<>>
  /\ pc' = "front"
  /\ UNCHANGED <<queue, accepted, answers, task, k, ret, local>>

Front ==
  /\ pc = "front"
  /\ task' = Head(queue) /\ pc' = "python"
  /\ UNCHANGED <<queue, accepted, answers, k, ret, local>>

\* Python cannot be set up, or its module not be found.
PythonFails ==
  /\ pc = "python"
  /\ pc' = "retry"
  /\ UNCHANGED <<queue, accepted, answers, task, k, ret, local>>

File == LocalFiles[task][k]
RemoteFile == RemoteFiles[task][k]

\* ssh_connect(): either every file has failed, or the first comes next.
Connect ==
  /\ pc = "python"
  /\ \/ /\ ret' = [n \in 1 .. Paired(task) |-> Unset]
        /\ pc' = "remote"
     \/ /\ ret' = [n \in 1 .. Paired(task) |-> -1]
        /\ pc' = "answer"
  /\ k' = 1
  /\ UNCHANGED <<queue, accepted, answers, task, local>>

\* The file is done: ret_map has v for it, and the next one's turn comes.
NextFile(v) ==
  /\ ret' = [ret EXCEPT ![k] = v]
  /\ pc' = "remote" /\ k' = k + 1

\* What ret_map has for a file that cannot be had.
Failed == -1

\* run(): parent_path_exists(), then remote_sha1sum(), each of which may
\* fail.
RemoteSum ==
  /\ pc = "remote" /\ k <= Paired(task)
  /\ \/ NextFile(Failed)
     \/ pc' = "compare" /\ UNCHANGED <<k, ret>>
  /\ UNCHANGED <<queue, accepted, answers, task, local>>

\* local_sha1sum() before the download.  Without a readable local file it
\* notes a failure, and goes on.
Compare ==
  /\ pc = "compare"
  /\ \/ local[File] = RemoteFile /\ NextFile(0)
     \/ /\ local[File] # "absent"
        /\ pc' = "get" /\ UNCHANGED <<k, ret>>
     \/ /\ ret' = [ret EXCEPT ![k] = -1]
        /\ pc' = "get" /\ UNCHANGED k
  /\ UNCHANGED <<queue, accepted, answers, task, local>>

\* sftp.get() brings the file, perhaps broken, or raises, perhaps after it
\* has written some of it.
Get ==
  /\ pc = "get"
  /\ \/ /\ \E x \in {RemoteFile, "broken"} :
             local' = [local EXCEPT ![File] = x]
        /\ pc' = "verify" /\ UNCHANGED <<k, ret>>
     \/ /\ NextFile(Failed)
        /\ \E x \in Contents : local' = [local EXCEPT ![File] = x]
  /\ UNCHANGED <<queue, accepted, answers, task>>

Verified_Assumed == TRUE
Verified == local[File] = RemoteFile

\* local_sha1sum() after the download.  If it differs, or the file cannot
\* be read, the file is deleted, as far as that can be done.
Verify ==
  /\ pc = "verify"
  /\ \/ Verified /\ NextFile(0) /\ UNCHANGED local
     \/ /\ NextFile(Failed)
        /\ \/ UNCHANGED local
           \/ local' = [local EXCEPT ![File] = "absent"]
  /\ UNCHANGED <<queue, accepted, answers, task>>

FilesDone ==
  /\ pc = "remote" /\ k > Paired(task)
  /\ pc' = "answer"
  /\ UNCHANGED <<queue, accepted, answers, task, k, ret, local>>

\* dlret_serialize(): the "return" of the answer, which lists the files that
\* ret_map has.
Return == IF \E n \in DOMAIN ret : ret[n] = -1 THEN -1 ELSE 1

\* The answer is uploaded; what fails there is not told.
Upload ==
  /\ pc = "answer" /\ task \in Numbered
  /\ answers' = Append(answers,
       [task |-> task, return |-> Return, files |-> Len(ret)])
  /\ pc' = "pop"
  /\ UNCHANGED <<queue, accepted, task, k, ret, local>>

\* dlret_serialize() fails on a command without number: main() returns
\* None, and there is no answer.
NoAnswer ==
  /\ pc = "answer" /\ task \notin Numbered
  /\ pc' = "retry"
  /\ UNCHANGED <<queue, accepted, answers, task, k, ret, local>>

Pop ==
  /\ pc = "pop"
  /\ queue' = Tail(queue) /\ pc' = "poll"
  /\ UNCHANGED <<accepted, answers, task, k, ret, local>>

AfterFailure_Dropped(q) == Tail(q)
AfterFailure(q) == q

\* 0.2 seconds later the head is tried again.
Retry ==
  /\ pc = "retry"
  /\ queue' = AfterFailure(queue) /\ pc' = "poll"
  /\ UNCHANGED <<accepted, answers, task, k, ret, local>>

Worker ==
  \/ Poll \/ Front \/ PythonFails \/ Connect \/ RemoteSum \/ Compare \/ Get
  \/ Verify \/ FilesDone \/ Upload \/ NoAnswer \/ Pop \/ Retry

Next == Worker \/ \E t \in Tasks : Enqueue(t)

\* The worker's thread runs, and Python can be called now and then.
Spec ==
  Init /\ [][Next]_vars /\ WF_vars(Worker) /\ SF_vars(Connect)

-----------------------------------------------------------------------------
(* Properties *)

TypeOK ==
  /\ queue \in Seq(Tasks) /\ accepted \in Seq(Tasks)
  /\ answers \in Seq([task : Tasks, return : {-1, 1}, files : Nat])
  /\ pc \in {"poll", "front", "python", "remote", "compare", "get", "verify",
             "answer", "pop", "retry"}
  /\ task \in Tasks /\ k \in Nat /\ ret \in Seq({-1, 0, Unset})
  /\ local \in [Files -> Contents]

\* Commands are answered once each, in the order they came, and the command
\* taken off the list is the one that was answered, with more coming in and
\* others being retried meanwhile (listen_dltask_list()).
AnsweredInOrder ==
  /\ Len(answers) <= Len(accepted)
  /\ \A n \in 1 .. Len(answers) : answers[n].task = accepted[n]
  /\ LET popped == Len(answers) - (IF pc = "pop" THEN 1 ELSE 0) IN
     queue = SubSeq(accepted, popped + 1, Len(accepted))

Service == INSTANCE CommandService WITH holds <- local

\* However often ssh, sftp, Python and the file system fail and the head of
\* the list is tried again while commands come in: commands are answered once
\* each in their order, no file is touched but those of the command whose turn
\* it is, and success means that each file the answer lists is there as the
\* remote one is, unless the same command has put another in its place
\* (download(), run(), dlret_serialize()).
ImplementsCommands == Service!Spec

\* A numbered command is answered, unless one without number is at the
\* head: it is retried for ever (the retry of listen_dltask_list()).
NumberedAnswered ==
  \A t \in Numbered :
    (\E n \in 1 .. Len(accepted) : accepted[n] = t)
      ~> (t \in Answered \/ (queue # <<>> /\ Head(queue) \notin Numbered))
=============================================================================
