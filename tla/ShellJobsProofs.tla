-------------------------- MODULE ShellJobsProofs --------------------------
(***************************************************************************)
(* What the shell jobs of a buffer promise, for any number of jobs and of  *)
(* lines they print.  The two threads share no lock around most of their   *)
(* steps, so the argument is where each of them may be:                    *)
(*                                                                         *)
(*   - the main thread is past the join only when the worker thread is     *)
(*     gone, and it destroys the executor only then (Joined);              *)
(*   - the pid is published only between the fork and the reaping of the   *)
(*     same job, and no child but that of the job at hand is alive         *)
(*     (OneChild);                                                         *)
(*   - a pid that was read after the queue had been emptied is that of the *)
(*     last job there will be (LastJob).                                   *)
(***************************************************************************)
EXTENDS ShellJobs, TLAPS

AtWork     == worker \in {"read", "log", "reap"}
Waiting    == worker \in {"wait", "waitHup", "waitTerm", "waitKill"}
Stopping   == main \in {"ask", "recheck", "term", "sleep", "kill"}

\* A thread is there only while its executor lives, and it is waited for
\* before the executor is destroyed.
Joined ==
  /\ executor # "live" => worker = "none"
  /\ main = "takeLock" => worker = "none"
  /\ main \in {"join", "takeLock"} => executor = "live"
  /\ main \in {"command", "key"} => executor # "dying"

\* The pid and the output of the job at hand are those the worker uses.
OnePid ==
  /\ worker \notin {"none", "take", "report", "exit", "ended"} => job \in Job
  /\ AtWork => pid = job.id /\ fd = job.id
  /\ Waiting => reaping = job.id
  /\ Stopping => asked \in Ids

\* No pid is published but while its job is at work.
PidHidden == ~AtWork => pid = None

\* No child lives but that of the job at hand.
OneChild ==
  \A j \in Ids : Unreaped(j) => /\ worker = "publish" \/ AtWork \/ Waiting
                                /\ j = job.id

\* Once the main thread has emptied the queue and read a pid, the worker
\* is past its last fork.
LastJob ==
  /\ main = "readPid" \/ Stopping => queue = <<>>
  /\ Stopping => worker \notin {"echo", "fork", "publish"}

\* What holds whatever the jobs print, and what an end of output that is one
\* (no byte of value 255 taken for it) adds.
WorkerInv == TypeOK /\ Joined /\ OnePid
IInv      == WorkerInv /\ PidHidden /\ OneChild /\ LastJob
-----------------------------------------------------------------------------
\* A job's number is never INVALID_ProcessId.
LEMMA IdFacts == Ids \subseteq Nat /\ None \notin Ids
BY JobsAssumption DEF Ids

\* A batch becomes a queue of jobs.
LEMMA BatchIsQueue ==
  ASSUME NEW b \in Batches, NEW n \in Nat, n + Len(b) \in Ids
  PROVE  [k \in 1 .. Len(b) |->
            [id |-> n + k, quiet |-> b[k].quiet,
             ignore |-> b[k].ignore, deaf |-> b[k].deaf]] \in Seq(Job)
<1>1. Len(b) \in Nat /\ \A k \in 1 .. Len(b) : b[k] \in Kinds
  <2>1. ASSUME NEW x \in Kinds, NEW y \in Kinds, b = <<x, y>>
        PROVE  Len(b) \in Nat /\ \A k \in 1 .. Len(b) : b[k] \in Kinds
    BY <2>1
  <2>2. ASSUME NEW x \in Kinds, b = <<x>>
        PROVE  Len(b) \in Nat /\ \A k \in 1 .. Len(b) : b[k] \in Kinds
    BY <2>2
  <2> QED BY <2>1, <2>2 DEF Batches
<1>2. ASSUME NEW k \in 1 .. Len(b)
      PROVE  [id |-> n + k, quiet |-> b[k].quiet,
              ignore |-> b[k].ignore, deaf |-> b[k].deaf] \in Job
  <2>1. n + k \in Ids BY <1>1, JobsAssumption DEF Ids
  <2>2. /\ b[k].quiet \in BOOLEAN /\ b[k].ignore \in BOOLEAN
        /\ b[k].deaf \in BOOLEAN
    BY <1>1 DEF Kinds
  <2> QED BY <2>1, <2>2 DEF Job
<1> QED BY <1>1, <1>2

\* A signal ends a child or changes nothing.
LEMMA SignalledType ==
  ASSUME TypeOK, NEW p \in Ids, NEW deaf
  PROVE  /\ Signalled(p, deaf) \in [Ids -> {"none", "running", "ok", "failed", "reaped"}]
         /\ \A j \in Ids :
              /\ Signalled(p, deaf)[j] = "none" <=> child[j] = "none"
              /\ Signalled(p, deaf)[j] \in {"running", "ok", "failed"}
                   <=> child[j] \in {"running", "ok", "failed"}
BY DEF TypeOK, Signalled

\* The initial state: no thread, no job, no child.
LEMMA InitWorker == Init => IInv
<1> SUFFICES ASSUME Init PROVE IInv OBVIOUS
<1> USE JobsAssumption, IdFacts
<1>1. TypeOK
  <2>1. 0 \in 0 .. MaxJobs /\ 0 \in 0 .. MaxLines /\ 0 \in 0 .. 1 OBVIOUS
  <2>2. <<>> \in Seq(Job) OBVIOUS
  <2> QED BY <2>1, <2>2 DEF Init, TypeOK, IdOrNone
<1>2. Joined BY DEF Init, Joined
<1>3. OnePid BY DEF Init, OnePid, AtWork, Waiting, Stopping
<1>4. PidHidden BY DEF Init, PidHidden
<1>5. OneChild BY DEF Init, OneChild, Unreaped, Zombie
<1>6. LastJob BY DEF Init, LastJob, Stopping
<1> QED BY <1>1, <1>2, <1>3, <1>4, <1>5, <1>6 DEF IInv, WorkerInv

\* The steps of the main thread keep the types.
LEMMA MainStepTyped ==
  ASSUME TypeOK, OnePid,
         \/ WaitForKey \/ GotKey \/ CloseBuffer \/ Stop
         \/ \E b \in Batches : Restart(b)
  PROVE  TypeOK'
<1> USE JobsAssumption, IdFacts DEF IdOrNone, mainVars, queueVars, forkerVars,
        childVars, workerVars
<1>1. CASE WaitForKey BY <1>1 DEF WaitForKey, TypeOK
<1>2. CASE GotKey BY <1>2 DEF GotKey, TypeOK
<1>3. CASE CloseBuffer BY <1>3 DEF CloseBuffer, TypeOK
<1>4. ASSUME NEW b \in Batches, Restart(b) PROVE TypeOK'
  <2>1. queue' \in Seq(Job)
    BY SMTT(30), <1>4, BatchIsQueue DEF Restart, TypeOK
  <2>2. started' \in 0 .. MaxJobs
    BY <1>4 DEF Restart, Ids
  <2> QED BY <1>4, <2>1, <2>2 DEF Restart, TypeOK
<1>5. CASE DeleteAllEnqueuedJobs BY <1>5 DEF DeleteAllEnqueuedJobs, TypeOK
<1>6. CASE ReadPid BY <1>6 DEF ReadPid, TypeOK
<1>7. CASE Confirm BY <1>7 DEF Confirm, TypeOK
<1>8. CASE Recheck BY <1>8 DEF Recheck, TypeOK
<1>9. CASE SignalTerm
  <2>1. asked \in Ids BY <1>9 DEF SignalTerm, OnePid, Stopping
  <2>2. child' \in [Ids -> {"none", "running", "ok", "failed", "reaped"}]
    BY <1>9, <2>1, SignalledType DEF SignalTerm
  <2>3. /\ main' \in {"sleep", "giveLock"} /\ out' \subseteq Ids
        /\ UNCHANGED <<lock, asked, executor, queueVars, worker, job, forkerVars,
                       pipe, printed>>
    BY <1>9 DEF SignalTerm, TypeOK, OutAfter
  <2> QED BY <2>2, <2>3 DEF TypeOK
<1>10. CASE AfterSleep BY <1>10 DEF AfterSleep, TypeOK
<1>11. CASE SignalKill
  <2>1. asked \in Ids BY <1>11 DEF SignalKill, OnePid, Stopping
  <2>2. child' \in [Ids -> {"none", "running", "ok", "failed", "reaped"}]
    BY <1>11, <2>1, SignalledType DEF SignalKill
  <2>3. /\ main' \in {"sleep", "giveLock"} /\ out' \subseteq Ids
        /\ UNCHANGED <<lock, asked, executor, queueVars, worker, job, forkerVars,
                       pipe, printed>>
    BY <1>11 DEF SignalKill, TypeOK, OutAfter
  <2> QED BY <2>2, <2>3 DEF TypeOK
<1>12. CASE GiveUpLock BY <1>12 DEF GiveUpLock, TypeOK
<1>13. CASE Join BY <1>13 DEF Join, TypeOK
<1>14. CASE DestroyExecutor BY SMTT(30), <1>14 DEF DestroyExecutor, TypeOK
<1>15. CASE Destroyed BY <1>15 DEF Destroyed, TypeOK
<1> QED BY <1>1, <1>2, <1>3, <1>4, <1>5, <1>6, <1>7, <1>8, <1>9, <1>10, <1>11,
           <1>12, <1>13, <1>14, <1>15 DEF Stop

\* So do those of the worker: the pid and the output it uses are a job's.
LEMMA WorkerStepTyped ==
  ASSUME TypeOK, OnePid, Worker
  PROVE  TypeOK'
<1> USE JobsAssumption, IdFacts DEF IdOrNone, mainVars, queueVars, forkerVars,
        childVars, workerVars
<1>j. ASSUME NEW x \in Job PROVE x.id \in Ids BY DEF Job
<1>1. CASE TakeJob
  <2>1. CASE queue = <<>> BY <1>1, <2>1 DEF TakeJob, TypeOK
  <2>2. CASE queue # <<>>
    <3>1. Head(queue) \in Job /\ Tail(queue) \in Seq(Job)
      BY <2>2 DEF TypeOK
    <3>2. /\ job' \in Job /\ queue' \in Seq(Job) /\ worker' \in {"fork", "echo"}
          /\ UNCHANGED <<mainVars, active, exitCode, started, forkerVars, childVars>>
      BY <1>1, <2>2, <3>1 DEF TakeJob
    <3> QED BY SMTT(30), <3>2 DEF TypeOK
  <2> QED BY <2>1, <2>2
<1>2. CASE EchoCommand BY <1>2 DEF EchoCommand, Logged, TypeOK
<1>3. CASE LogLine BY <1>3 DEF LogLine, Logged, TypeOK
<1>4. CASE LogTail BY <1>4 DEF LogTail, Logged, TypeOK
<1>5. CASE Fork
  <2>1. job.id \in Ids BY <1>5, <1>j DEF Fork, OnePid
  <2>2. /\ pid' = None /\ worker' \in {"take", "publish"}
        /\ UNCHANGED <<mainVars, queueVars, job, fd, reaping, status, pipe, printed>>
    BY <1>5 DEF Fork
  <2>3. /\ child' \in [Ids -> {"none", "running", "ok", "failed", "reaped"}]
        /\ out' \subseteq Ids
    BY <1>5, <2>1 DEF Fork, TypeOK
  <2> QED BY <2>2, <2>3 DEF TypeOK
<1>6. CASE Publish
  <2>1. job.id \in Ids BY <1>6, <1>j DEF Publish, OnePid
  <2> QED BY <1>6, <2>1 DEF Publish, TypeOK
<1>7. CASE ReadLine
  <2>1. fd \in Ids BY <1>7, <1>j DEF ReadLine, OnePid, AtWork
  <2>2. pipe[fd] \in 0 .. 1 /\ pipe[fd] > 0 BY <1>7, <2>1 DEF ReadLine, TypeOK
  <2>3. pipe[fd] - 1 \in 0 .. 1 BY <2>2
  <2>4. pipe' \in [Ids -> 0 .. 1] BY <1>7, <2>3 DEF ReadLine, TypeOK
  <2> QED BY <1>7, <2>4 DEF ReadLine, TypeOK
<1>8. CASE ReadEof BY <1>8 DEF ReadEof, TypeOK
<1>9. CASE CloseAndForgetPid BY <1>9 DEF CloseAndForgetPid, TypeOK
<1>10. CASE Reaped
  <2>1. /\ worker' \in {"status", "tail"} /\ status' \in {0, 1}
        /\ reaping' = None
        /\ UNCHANGED <<mainVars, queueVars, job, pid, fd, out, pipe, printed>>
    BY <1>10 DEF Reaped
  <2>2. child' \in [Ids -> {"none", "running", "ok", "failed", "reaped"}]
    BY <1>10 DEF Reaped, TypeOK
  <2> QED BY <2>1, <2>2 DEF TypeOK
<1>11. ASSUME Waiting PROVE reaping \in Ids
  BY <1>11, <1>j DEF OnePid, Waiting
<1>12. CASE HangUp
  <2>1. child' \in [Ids -> {"none", "running", "ok", "failed", "reaped"}]
    BY <1>11, <1>12, SignalledType DEF HangUp, TimedOut, Waiting
  <2> QED BY <1>12, <2>1 DEF HangUp, TimedOut, TypeOK
<1>13. CASE Terminate
  <2>1. child' \in [Ids -> {"none", "running", "ok", "failed", "reaped"}]
    BY <1>11, <1>13, SignalledType DEF Terminate, TimedOut, Waiting
  <2> QED BY <1>13, <2>1 DEF Terminate, TimedOut, TypeOK
<1>14. CASE Kill
  <2>1. child' \in [Ids -> {"none", "running", "ok", "failed", "reaped"}]
    BY <1>11, <1>14, SignalledType DEF Kill, TimedOut, Waiting
  <2>2. /\ worker' = "waitKill"
        /\ UNCHANGED <<mainVars, queueVars, job, forkerVars, out, pipe, printed>>
    BY <1>14 DEF Kill, TimedOut
  <2> QED BY <2>1, <2>2 DEF TypeOK
<1>15. CASE JobStatus BY <1>15 DEF JobStatus, TypeOK
<1>16. CASE AfterJob
  <2>1. queue' \in Seq(Job) BY <1>16 DEF AfterJob, TypeOK
  <2> QED BY <1>16, <2>1 DEF AfterJob, TypeOK
<1>17. CASE Report BY <1>17 DEF Report, TypeOK
<1>18. CASE ThreadExit
  <2>1. active' \in BOOLEAN BY <1>18 DEF ThreadExit
  <2>2. worker' = "ended" BY <1>18 DEF ThreadExit
  <2>3. UNCHANGED <<mainVars, queue, exitCode, started, job, forkerVars, childVars>>
    BY <1>18 DEF ThreadExit
  <2> QED BY <2>1, <2>2, <2>3 DEF TypeOK
<1> QED BY <1>1, <1>2, <1>3, <1>4, <1>5, <1>6, <1>7, <1>8, <1>9, <1>10,
           <1>12, <1>13, <1>14, <1>15, <1>16, <1>17, <1>18 DEF Worker, Reap

\* The step of a child.
Child == \E j \in Ids : PrintLine(j) \/ CloseOutput(j) \/ Exit(j)

\* So do those of the children.
LEMMA ChildStepTyped ==
  ASSUME TypeOK, Child
  PROVE  TypeOK'
<1> USE JobsAssumption, IdFacts DEF IdOrNone, mainVars, queueVars, forkerVars
<1> PICK j \in Ids : PrintLine(j) \/ CloseOutput(j) \/ Exit(j) BY DEF Child
<1>1. CASE PrintLine(j)
  <2>1. printed[j] \in 0 .. MaxLines /\ printed[j] < MaxLines
    BY <1>1 DEF PrintLine, TypeOK
  <2>2. printed[j] + 1 \in 0 .. MaxLines BY <2>1
  <2>3. printed' \in [Ids -> 0 .. MaxLines] /\ pipe' \in [Ids -> 0 .. 1]
    BY <1>1, <2>2 DEF PrintLine, TypeOK
  <2> QED BY <1>1, <2>3 DEF PrintLine, TypeOK
<1>2. CASE CloseOutput(j) BY <1>2 DEF CloseOutput, TypeOK
<1>3. CASE Exit(j) BY SMTT(30), <1>3 DEF Exit, TypeOK
<1> QED BY <1>1, <1>2, <1>3

\* Every step keeps the types.
LEMMA StepTyped ==
  ASSUME TypeOK, OnePid, [Next]_vars
  PROVE  TypeOK'
<1>1. CASE UNCHANGED vars
  BY <1>1 DEF vars, mainVars, queueVars, workerVars, forkerVars, childVars, TypeOK
<1> QED BY <1>1, MainStepTyped, WorkerStepTyped, ChildStepTyped DEF Next, Child

\* The main thread joins the worker before it goes on to destroy the executor,
\* and a new worker is only started with a new or an idle executor.
LEMMA StepJoined ==
  ASSUME Joined, [Next]_vars
  PROVE  Joined'
<1> USE DEF mainVars, queueVars, workerVars, forkerVars, childVars, Joined
<1>1. CASE WaitForKey \/ GotKey \/ CloseBuffer
  BY <1>1 DEF WaitForKey, GotKey, CloseBuffer
<1>2. ASSUME NEW b \in Batches, Restart(b) PROVE Joined'
  BY <1>2 DEF Restart
<1>3. CASE DeleteAllEnqueuedJobs \/ ReadPid \/ Confirm \/ Recheck
  BY <1>3 DEF DeleteAllEnqueuedJobs, ReadPid, Confirm, Recheck
<1>4. CASE SignalTerm \/ AfterSleep \/ SignalKill \/ GiveUpLock
  BY <1>4 DEF SignalTerm, AfterSleep, SignalKill, GiveUpLock
<1>5. CASE Join \/ DestroyExecutor \/ Destroyed
  BY <1>5 DEF Join, DestroyExecutor, Destroyed
<1>6. CASE Worker
  <2>1. worker # "none" /\ UNCHANGED <<main, executor>>
    <3> USE <1>6 DEF Worker
    <3>1. CASE TakeJob \/ EchoCommand \/ LogLine \/ LogTail
      BY <3>1 DEF TakeJob, EchoCommand, LogLine, LogTail, Logged
    <3>2. CASE Fork \/ Publish \/ ReadLine \/ ReadEof
      BY <3>2 DEF Fork, Publish, ReadLine, ReadEof
    <3>3. CASE CloseAndForgetPid \/ Reaped
      BY <3>3 DEF CloseAndForgetPid, Reaped
    <3>4. CASE HangUp \/ Terminate \/ Kill
      BY <3>4 DEF HangUp, Terminate, Kill, TimedOut
    <3>5. CASE JobStatus \/ AfterJob \/ Report \/ ThreadExit
      BY <3>5 DEF JobStatus, AfterJob, Report, ThreadExit
    <3> QED BY <3>1, <3>2, <3>3, <3>4, <3>5 DEF Reap
  <2> QED BY <2>1
<1>7. CASE Child
  BY <1>7 DEF Child, PrintLine, CloseOutput, Exit
<1>8. CASE UNCHANGED vars BY <1>8 DEF vars
<1> QED BY <1>1, <1>2, <1>3, <1>4, <1>5, <1>6, <1>7, <1>8 DEF Next, Stop, Child

\* The worker's steps that read the pid or the job find those of the job at
\* hand; nobody else writes them while it is there.
LEMMA StepOnePid ==
  ASSUME TypeOK, Joined, OnePid, [Next]_vars
  PROVE  OnePid'
<1> USE DEF mainVars, queueVars, workerVars, forkerVars, childVars, OnePid,
            AtWork, Waiting, Stopping
<1>1. CASE WaitForKey \/ GotKey \/ CloseBuffer
  BY <1>1 DEF WaitForKey, GotKey, CloseBuffer
<1>2. ASSUME NEW b \in Batches, Restart(b) PROVE OnePid'
  BY <1>2 DEF Restart
<1>3. CASE DeleteAllEnqueuedJobs \/ Confirm \/ Recheck
  BY <1>3 DEF DeleteAllEnqueuedJobs, Confirm, Recheck
<1>4. CASE ReadPid BY <1>4 DEF ReadPid, TypeOK, IdOrNone
<1>5. CASE SignalTerm \/ AfterSleep \/ SignalKill \/ GiveUpLock
  BY <1>5 DEF SignalTerm, AfterSleep, SignalKill, GiveUpLock
<1>6. CASE Join \/ DestroyExecutor
  BY <1>6 DEF Join, DestroyExecutor
<1>7. CASE Destroyed
  BY <1>7 DEF Destroyed, Joined
<1>8. CASE TakeJob
  <2>1. CASE queue = <<>> BY <1>8, <2>1 DEF TakeJob
  <2>2. CASE queue # <<>>
    <3>1. Head(queue) \in Job BY <2>2 DEF TypeOK
    <3>2. job' \in Job /\ worker' \in {"fork", "echo"} /\ UNCHANGED mainVars
      BY <1>8, <2>2, <3>1 DEF TakeJob
    <3> QED BY <3>2
  <2> QED BY <2>1, <2>2
<1>9. CASE EchoCommand \/ LogLine \/ LogTail
  BY <1>9 DEF EchoCommand, LogLine, LogTail, Logged
<1>10. CASE Fork BY <1>10 DEF Fork
<1>11. CASE Publish BY <1>11 DEF Publish
<1>12. CASE ReadLine \/ ReadEof BY <1>12 DEF ReadLine, ReadEof
<1>13. CASE CloseAndForgetPid \/ Reaped BY <1>13 DEF CloseAndForgetPid, Reaped
<1>14. CASE HangUp \/ Terminate \/ Kill
  BY <1>14 DEF HangUp, Terminate, Kill, TimedOut
<1>15. CASE JobStatus \/ AfterJob \/ Report \/ ThreadExit
  BY <1>15 DEF JobStatus, AfterJob, Report, ThreadExit
<1>16. CASE Child
  BY <1>16 DEF Child, PrintLine, CloseOutput, Exit
<1>17. CASE UNCHANGED vars BY <1>17 DEF vars
<1> QED BY <1>1, <1>2, <1>3, <1>4, <1>5, <1>6, <1>7, <1>8, <1>9, <1>10, <1>11,
           <1>12, <1>13, <1>14, <1>15, <1>16, <1>17
        DEF Next, Stop, Worker, Reap, Child

\* Every reachable state has the types, whatever the jobs print.
THEOREM Typed == Spec => []TypeOK
<1>1. Init => WorkerInv BY InitWorker DEF IInv
<1>2. WorkerInv /\ [Next]_vars => WorkerInv'
  BY StepTyped, StepJoined, StepOnePid DEF WorkerInv
<1>3. WorkerInv => TypeOK BY DEF WorkerInv
<1> QED BY <1>1, <1>2, <1>3, PTL DEF Spec

\* A buffer that is destroyed has no thread left that could write into it:
\* the stop joins the thread before the executor's destructor runs.
THEOREM ThreadIsJoined == Spec => []NoWorkerWithoutExecutor
<1>1. Init => WorkerInv BY InitWorker DEF IInv
<1>2. WorkerInv /\ [Next]_vars => WorkerInv'
  BY StepTyped, StepJoined, StepOnePid DEF WorkerInv
<1>3. WorkerInv => NoWorkerWithoutExecutor
  BY DEF WorkerInv, Joined, NoWorkerWithoutExecutor
<1> QED BY <1>1, <1>2, <1>3, PTL DEF Spec
-----------------------------------------------------------------------------
(* From here on no byte of the jobs' output is taken for its end. *)

\* A line that was read is logged, and reading goes on.
LEMMA LineIsLogged ==
  ASSUME ~MayPrint255, ReadLine
  PROVE  worker = "read" /\ worker' = "log"
<1>1. PICK is255 \in {FALSE, MayPrint255} :
        worker' = (IF is255 THEN "tail" ELSE "log")
  BY DEF ReadLine
<1>2. is255 = FALSE \/ is255 = MayPrint255 OBVIOUS
<1>3. ~is255 BY <1>2, Zenon
<1> QED BY <1>1, <1>3 DEF ReadLine

\* The pid is published for the reading of the output only: it is taken back
\* before the child is waited for.
LEMMA StepPidHidden ==
  ASSUME ~MayPrint255, PidHidden, [Next]_vars
  PROVE  PidHidden'
<1> USE DEF mainVars, queueVars, workerVars, forkerVars, childVars, PidHidden, AtWork
<1>1. CASE WaitForKey \/ GotKey \/ CloseBuffer
  BY <1>1 DEF WaitForKey, GotKey, CloseBuffer
<1>2. ASSUME NEW b \in Batches, Restart(b) PROVE PidHidden'
  BY <1>2 DEF Restart, Joinable
<1>3. CASE DeleteAllEnqueuedJobs \/ ReadPid \/ Confirm \/ Recheck
  BY <1>3 DEF DeleteAllEnqueuedJobs, ReadPid, Confirm, Recheck
<1>4. CASE SignalTerm \/ AfterSleep \/ SignalKill \/ GiveUpLock
  BY <1>4 DEF SignalTerm, AfterSleep, SignalKill, GiveUpLock
<1>5. CASE Join \/ DestroyExecutor \/ Destroyed
  BY <1>5 DEF Join, DestroyExecutor, Destroyed, Joinable
<1>6. CASE TakeJob \/ EchoCommand \/ LogLine \/ LogTail
  BY <1>6 DEF TakeJob, EchoCommand, LogLine, LogTail, Logged
<1>7. CASE Fork \/ Publish BY <1>7 DEF Fork, Publish
<1>8. CASE ReadLine
  <2>1. worker' = "log" /\ worker = "read" /\ pid' = pid
    BY <1>8, LineIsLogged DEF ReadLine
  <2> QED BY <2>1
<1>9. CASE ReadEof \/ CloseAndForgetPid \/ Reaped
  BY <1>9 DEF ReadEof, CloseAndForgetPid, Reaped
<1>10. CASE HangUp \/ Terminate \/ Kill
  BY <1>10 DEF HangUp, Terminate, Kill, TimedOut
<1>11. CASE JobStatus \/ AfterJob \/ Report \/ ThreadExit
  BY <1>11 DEF JobStatus, AfterJob, Report, ThreadExit
<1>12. CASE Child
  BY <1>12 DEF Child, PrintLine, CloseOutput, Exit
<1>13. CASE UNCHANGED vars BY <1>13 DEF vars
<1> QED BY <1>1, <1>2, <1>3, <1>4, <1>5, <1>6, <1>7, <1>8, <1>9, <1>10, <1>11,
           <1>12, <1>13 DEF Next, Stop, Worker, Reap, Child

\* A child that does not become another's: which children are unreaped, and
\* for whom, is left alone.
LEMMA SameChildren ==
  ASSUME OneChild, \A j \in Ids : Unreaped(j)' => Unreaped(j),
         job' = job,
         worker = "publish" \/ AtWork \/ Waiting => (worker = "publish" \/ AtWork \/ Waiting)'
  PROVE  OneChild'
BY DEF OneChild

\* A signal neither starts nor reaps a child.
LEMMA SignalledUnreaped ==
  ASSUME TypeOK, NEW p \in Ids, NEW deaf, child' = Signalled(p, deaf)
  PROVE  \A j \in Ids : Unreaped(j)' => Unreaped(j)
<1> TAKE j \in Ids
<1>1. Signalled(p, deaf)[j] \in {"running", "ok", "failed"}
        <=> child[j] \in {"running", "ok", "failed"}
  BY SignalledType
<1> QED BY <1>1 DEF Unreaped, Zombie

\* A fork finds no other child, and a job is done with only when its child has
\* been reaped.
LEMMA StepOneChild ==
  ASSUME ~MayPrint255, TypeOK, OnePid, OneChild, [Next]_vars
  PROVE  OneChild'
<1> USE DEF mainVars, queueVars, workerVars, forkerVars, childVars
<1>u. ASSUME child' = child PROVE \A j \in Ids : Unreaped(j)' => Unreaped(j)
  BY <1>u DEF Unreaped, Zombie
<1>1. CASE WaitForKey \/ GotKey \/ CloseBuffer
  BY <1>1, <1>u, SameChildren DEF WaitForKey, GotKey, CloseBuffer, AtWork, Waiting
<1>2. ASSUME NEW b \in Batches, Restart(b) PROVE OneChild'
  BY <1>2, <1>u, SameChildren DEF Restart, Joinable, AtWork, Waiting
<1>3. CASE DeleteAllEnqueuedJobs \/ ReadPid \/ Confirm \/ Recheck
  BY <1>3, <1>u, SameChildren
     DEF DeleteAllEnqueuedJobs, ReadPid, Confirm, Recheck, AtWork, Waiting
<1>4. CASE SignalTerm
  <2>1. asked \in Ids BY <1>4 DEF SignalTerm, OnePid, Stopping
  <2>2. job' = job /\ worker' = worker /\ child' = Signalled(asked, job.deaf)
    BY <1>4 DEF SignalTerm
  <2> QED BY <2>1, <2>2, SignalledUnreaped, SameChildren DEF AtWork, Waiting
<1>5. CASE SignalKill
  <2>1. asked \in Ids BY <1>5 DEF SignalKill, OnePid, Stopping
  <2>2. job' = job /\ worker' = worker /\ child' = Signalled(asked, FALSE)
    BY <1>5 DEF SignalKill
  <2> QED BY <2>1, <2>2, SignalledUnreaped, SameChildren DEF AtWork, Waiting
<1>6. CASE AfterSleep \/ GiveUpLock \/ DestroyExecutor \/ Destroyed
  BY <1>6, <1>u, SameChildren
     DEF AfterSleep, GiveUpLock, DestroyExecutor, Destroyed, AtWork, Waiting
<1>7. CASE Join
  BY <1>7, <1>u, SameChildren DEF Join, Joinable, AtWork, Waiting
<1>8. CASE TakeJob
  <2>1. \A j \in Ids : ~Unreaped(j)
    BY <1>8 DEF TakeJob, OneChild, AtWork, Waiting
  <2> QED BY <1>8, <2>1, <1>u DEF TakeJob, OneChild
<1>9. CASE EchoCommand \/ LogLine \/ LogTail
  BY <1>9, <1>u, SameChildren DEF EchoCommand, LogLine, LogTail, Logged, AtWork, Waiting
<1>10. CASE Fork
  <2>1. \A j \in Ids : ~Unreaped(j)
    BY <1>10 DEF Fork, OneChild, AtWork, Waiting
  <2>2. CASE child' = child BY <2>1, <2>2, <1>u DEF OneChild
  <2>3. CASE worker' = "publish" /\ child' = [child EXCEPT ![job.id] = "running"]
    BY <1>10, <2>1, <2>3 DEF Fork, OneChild, Unreaped, Zombie, TypeOK
  <2> QED BY <1>10, <2>2, <2>3 DEF Fork
<1>11. CASE Publish
  BY <1>11, <1>u, SameChildren DEF Publish, AtWork, Waiting
<1>12. CASE ReadLine
  <2>1. worker' = "log" /\ UNCHANGED <<job, child>>
    BY <1>12, LineIsLogged DEF ReadLine
  <2> QED BY <2>1, <1>u, SameChildren DEF AtWork, Waiting
<1>13. CASE ReadEof \/ CloseAndForgetPid
  BY <1>13, <1>u, SameChildren DEF ReadEof, CloseAndForgetPid, AtWork, Waiting
<1>14. CASE Reaped
  <2>1. Waiting /\ reaping = job.id BY <1>14 DEF Reaped, OnePid, Waiting
  <2>2. \A j \in Ids \ {job.id} : ~Unreaped(j) BY DEF OneChild
  <2>3. child' = [child EXCEPT ![job.id] = "reaped"] BY <1>14, <2>1 DEF Reaped
  <2>4. \A j \in Ids : ~Unreaped(j)'
    BY <2>2, <2>3 DEF Unreaped, Zombie, TypeOK
  <2> QED BY <2>4 DEF OneChild
<1>15. CASE HangUp \/ Terminate \/ Kill
  <2>1. /\ Waiting /\ Waiting' /\ job' = job
        /\ \E deaf : child' = Signalled(reaping, deaf)
    BY <1>15 DEF HangUp, Terminate, Kill, TimedOut, Waiting
  <2>2. reaping \in Ids
    BY <2>1 DEF OnePid, Waiting, Job
  <2> QED BY <2>1, <2>2, SignalledUnreaped, SameChildren
<1>16. CASE JobStatus \/ AfterJob \/ Report \/ ThreadExit
  BY <1>16, <1>u, SameChildren
     DEF JobStatus, AfterJob, Report, ThreadExit, AtWork, Waiting
<1>17. CASE Child
  <2> PICK j \in Ids : PrintLine(j) \/ CloseOutput(j) \/ Exit(j) BY <1>17 DEF Child
  <2>1. CASE PrintLine(j) \/ CloseOutput(j)
    BY <2>1, <1>u, SameChildren DEF PrintLine, CloseOutput, AtWork, Waiting
  <2>2. CASE Exit(j)
    <3>1. Unreaped(j) /\ job' = job /\ worker' = worker
      BY <2>2 DEF Exit, Unreaped
    <3>2. \A k \in Ids \ {j} : child'[k] = child[k]
      BY <2>2 DEF Exit, TypeOK
    <3>3. \A k \in Ids : Unreaped(k)' => Unreaped(k)
      BY <3>1, <3>2 DEF Unreaped, Zombie
    <3> QED BY <3>1, <3>3, SameChildren DEF AtWork, Waiting
  <2> QED BY <2>1, <2>2
<1>18. CASE UNCHANGED vars
  BY <1>18, <1>u, SameChildren DEF vars, AtWork, Waiting
<1> QED BY <1>1, <1>2, <1>3, <1>4, <1>5, <1>6, <1>7, <1>8, <1>9, <1>10, <1>11,
           <1>12, <1>13, <1>14, <1>15, <1>16, <1>17, <1>18
        DEF Next, Stop, Worker, Reap, Child

\* The queue stays empty while a buffer is closed, and a worker with a pid and
\* an empty queue has no fork before it.
LEMMA StepLastJob ==
  ASSUME ~MayPrint255, PidHidden, LastJob, [Next]_vars
  PROVE  LastJob'
<1> USE DEF mainVars, queueVars, workerVars, forkerVars, childVars, LastJob, Stopping
<1>1. CASE WaitForKey \/ GotKey \/ CloseBuffer
  BY <1>1 DEF WaitForKey, GotKey, CloseBuffer
<1>2. ASSUME NEW b \in Batches, Restart(b) PROVE LastJob'
  BY <1>2 DEF Restart
<1>3. CASE DeleteAllEnqueuedJobs \/ Confirm \/ Recheck
  BY <1>3 DEF DeleteAllEnqueuedJobs, Confirm, Recheck
<1>4. CASE ReadPid
  <2>1. CASE pid = None BY <1>4, <2>1 DEF ReadPid
  <2>2. CASE pid # None
    BY <1>4, <2>2 DEF ReadPid, PidHidden, AtWork
  <2> QED BY <2>1, <2>2
<1>5. CASE SignalTerm \/ AfterSleep \/ SignalKill \/ GiveUpLock
  BY <1>5 DEF SignalTerm, AfterSleep, SignalKill, GiveUpLock
<1>6. CASE Join \/ DestroyExecutor \/ Destroyed
  BY <1>6 DEF Join, DestroyExecutor, Destroyed
<1>7. CASE TakeJob
  <2>1. CASE queue = <<>> BY <1>7, <2>1 DEF TakeJob
  <2>2. CASE queue # <<>> BY <1>7, <2>2 DEF TakeJob
  <2> QED BY <2>1, <2>2
<1>8. CASE EchoCommand \/ LogLine \/ LogTail
  BY <1>8 DEF EchoCommand, LogLine, LogTail, Logged
<1>9. CASE Fork \/ Publish
  BY <1>9 DEF Fork, Publish
<1>10. CASE ReadLine
  BY <1>10, LineIsLogged DEF ReadLine
<1>11. CASE ReadEof \/ CloseAndForgetPid \/ Reaped
  BY <1>11 DEF ReadEof, CloseAndForgetPid, Reaped
<1>12. CASE HangUp \/ Terminate \/ Kill
  BY <1>12 DEF HangUp, Terminate, Kill, TimedOut
<1>13. CASE JobStatus \/ AfterJob \/ Report \/ ThreadExit
  BY <1>13 DEF JobStatus, AfterJob, Report, ThreadExit
<1>14. CASE Child
  BY <1>14 DEF Child, PrintLine, CloseOutput, Exit
<1>15. CASE UNCHANGED vars BY <1>15 DEF vars
<1> QED BY <1>1, <1>2, <1>3, <1>4, <1>5, <1>6, <1>7, <1>8, <1>9, <1>10, <1>11,
           <1>12, <1>13, <1>14, <1>15 DEF Next, Stop, Worker, Reap, Child

\* The invariant is inductive.
LEMMA StepIInv == ASSUME ~MayPrint255, IInv, [Next]_vars PROVE IInv'
BY StepTyped, StepJoined, StepOnePid, StepPidHidden, StepOneChild, StepLastJob
   DEF IInv, WorkerInv

\* The comment "process has been reaped" holds between two jobs and at the end
\* of the thread, for every job whose output ends with its end of file.
THEOREM ChildrenAreReaped == ASSUME ~MayPrint255 PROVE Spec => []NoChildLeft
<1>1. Init => IInv BY InitWorker
<1>2. IInv /\ [Next]_vars => IInv' BY StepIInv
<1>3. IInv => NoChildLeft
  BY DEF IInv, OneChild, NoChildLeft, AtWork, Waiting
<1> QED BY <1>1, <1>2, <1>3, PTL DEF Spec

\* Only a fork starts a job.
LEMMA OnlyForkStarts ==
  ASSUME TypeOK, OnePid, [Next]_vars, ~Fork
  PROVE  NoJobStarts
<1> USE DEF mainVars, queueVars, workerVars, forkerVars, childVars, NoJobStarts
<1>1. CASE WaitForKey \/ GotKey \/ CloseBuffer
  BY <1>1 DEF WaitForKey, GotKey, CloseBuffer
<1>2. ASSUME NEW b \in Batches, Restart(b) PROVE NoJobStarts
  BY <1>2 DEF Restart
<1>3. CASE DeleteAllEnqueuedJobs \/ ReadPid \/ Confirm \/ Recheck
  BY <1>3 DEF DeleteAllEnqueuedJobs, ReadPid, Confirm, Recheck
<1>4. CASE SignalTerm \/ SignalKill
  <2>1. /\ asked \in Ids
        /\ \E deaf : child' = Signalled(asked, deaf)
    BY <1>4 DEF SignalTerm, SignalKill, OnePid, Stopping
  <2> QED BY <2>1, SignalledType
<1>5. CASE AfterSleep \/ GiveUpLock \/ Join \/ DestroyExecutor \/ Destroyed
  BY <1>5 DEF AfterSleep, GiveUpLock, Join, DestroyExecutor, Destroyed
<1>6. CASE TakeJob \/ EchoCommand \/ LogLine \/ LogTail \/ Publish
  BY <1>6 DEF TakeJob, EchoCommand, LogLine, LogTail, Logged, Publish
<1>7. CASE ReadLine \/ ReadEof \/ CloseAndForgetPid
  BY <1>7 DEF ReadLine, ReadEof, CloseAndForgetPid
<1>8. CASE Reaped
  BY <1>8 DEF Reaped, TypeOK, Zombie
<1>9. CASE HangUp \/ Terminate \/ Kill
  <2>1. /\ Waiting /\ \E deaf : child' = Signalled(reaping, deaf)
    BY <1>9 DEF HangUp, Terminate, Kill, TimedOut, Waiting
  <2>2. reaping \in Ids BY <2>1 DEF OnePid, Waiting, Job
  <2> QED BY <2>1, <2>2, SignalledType
<1>10. CASE JobStatus \/ AfterJob \/ Report \/ ThreadExit
  BY <1>10 DEF JobStatus, AfterJob, Report, ThreadExit
<1>11. CASE Child
  BY <1>11 DEF Child, PrintLine, CloseOutput, Exit, TypeOK
<1>12. CASE UNCHANGED vars BY <1>12 DEF vars
<1> QED BY <1>1, <1>2, <1>3, <1>4, <1>5, <1>6, <1>7, <1>8, <1>9, <1>10, <1>11,
           <1>12 DEF Next, Stop, Worker, Reap, Child

\* The pid that the kill prompt shows is that of the last job: from the read of
\* d_pid to SIGKILL the worker has nothing left to fork.
THEOREM PromptIsAboutTheLastJob ==
  ASSUME ~MayPrint255 PROVE Spec => NoJobStartsInPrompt
<1>1. Init => IInv BY InitWorker
<1>2. IInv /\ [Next]_vars => IInv' BY StepIInv
<1>3. ASSUME IInv, [Next]_vars
      PROVE  [(main \in {"ask", "recheck", "term", "sleep", "kill"})
                => NoJobStarts]_vars
  <2>1. Stopping => ~Fork BY <1>3 DEF IInv, LastJob, Fork
  <2>2. Stopping => NoJobStarts
    BY <1>3, <2>1, OnlyForkStarts DEF IInv, WorkerInv
  <2> QED BY <2>2 DEF Stopping
<1> QED BY <1>1, <1>2, <1>3, PTL DEF Spec, NoJobStartsInPrompt
=============================================================================
