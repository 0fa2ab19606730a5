----------------------------- MODULE ShellJobs -----------------------------
(***************************************************************************)
(* The shell jobs of one buffer on Linux: InternalShellJobExecutor,        *)
(* piped_forker and the global variable lock (linux_process.cpp).  A       *)
(* worker thread takes the jobs of a queue one after the other, forks a    *)
(* child for each, logs what it prints in the buffer, and reaps it; the    *)
(* main thread starts a batch of jobs, gives the lock up while it waits    *)
(* for a key, and stops the executor when the buffer is closed.            *)
(*                                                                         *)
(* A job is known by its number, which also stands for its child's pid:    *)
(* pids are not used again.  The lines a worker logs are not kept; each is *)
(* one step that needs the lock.                                           *)
(***************************************************************************)
EXTENDS Integers, Sequences

CONSTANTS
  MaxJobs,    \* bound: the jobs ever started
  MaxLines,   \* bound: the lines a job prints
  None,       \* INVALID_ProcessId, INVALID_fd
  MayPrint255 \* TRUE: the jobs' output may hold bytes of value 255

ASSUME JobsAssumption ==
  /\ MaxJobs \in Nat /\ MaxLines \in Nat
  /\ None \notin Nat
  /\ MayPrint255 \in BOOLEAN

Ids == 1 .. MaxJobs
\* The flags of a command line, "@" and "-" (xlat_cmdline_flag_chars), and
\* whether the program ignores SIGHUP and SIGTERM.
Job == [id : Ids, quiet : BOOLEAN, ignore : BOOLEAN, deaf : BOOLEAN]

VARIABLES
  main,     \* where the main thread is
  lock,     \* who holds s_GlobalVariableLock; a worker holds it within a step
  asked,    \* the pid the kill prompt is about
  executor, \* d_pInternalShellJobExecutor: "none", "live", or in its destructor
  active,   \* d_active
  queue,    \* d_pSL
  exitCode, \* d_ChildProcessExitCode
  worker,   \* where the worker thread is
  job,      \* pEl
  pid, fd,  \* d_pid, d_fd
  reaping,  \* the pid ReapChild has taken out of d_pid
  status,   \* d_exit_status, 0 or not
  child,    \* the children
  out,      \* the children that still have their standard output
  pipe,     \* the unread lines of each
  printed,  \* the lines each has printed
  started   \* the number of jobs ever started

mainVars   == <<main, lock, asked, executor>>
queueVars  == <<active, queue, exitCode, started>>
forkerVars == <<pid, fd, reaping, status>>
childVars  == <<child, out, pipe, printed>>
workerVars == <<worker, job, forkerVars, childVars>>
vars == <<mainVars, queueVars, workerVars>>

Zombie(j)   == child[j] \in {"ok", "failed"}
Unreaped(j) == child[j] = "running" \/ Zombie(j)
Joinable    == worker \in {"none", "ended"}

\* The process table after signal s to the group of pid p.
Signalled(p, deaf) ==
  IF child[p] = "running" /\ ~deaf THEN [child EXCEPT ![p] = "failed"]
                                   ELSE child
\* A dead child has no output.
OutAfter(children) == {j \in out : children[j] = "running"}
-----------------------------------------------------------------------------
\* The main thread gives the lock up to wait for a key (GetEdKC_Ascii).
WaitForKey ==
  /\ main = "command"
  /\ main' = "key" /\ lock' = None
  /\ UNCHANGED <<asked, executor, queueVars, workerVars>>
GotKey ==
  /\ main = "key" /\ lock = None
  /\ main' = "command" /\ lock' = "main"
  /\ UNCHANGED <<asked, executor, queueVars, workerVars>>

\* StartInternalShellJob, Restart: a batch for a new or an idle executor.
Restart(kinds) ==
  /\ main = "command"
  /\ ~active
  /\ Joinable
  /\ started + Len(kinds) \in Ids
  /\ queue' = [k \in 1 .. Len(kinds) |->
                 [id |-> started + k, quiet |-> kinds[k].quiet,
                  ignore |-> kinds[k].ignore, deaf |-> kinds[k].deaf]]
  /\ started' = started + Len(kinds)
  /\ exitCode' = 0
  /\ active' = TRUE
  /\ executor' = "live"
  /\ worker' = "take"
  /\ UNCHANGED <<main, lock, asked, job, forkerVars, childVars>>
-----------------------------------------------------------------------------
\* The buffer is closed: StopInternalShellJobExecutor.
CloseBuffer ==
  /\ main = "command" /\ executor = "live"
  /\ main' = "empty"
  /\ UNCHANGED <<lock, asked, executor, queueVars, workerVars>>

\* Mutant of DeleteAllEnqueuedJobs: the queue is left as it is.
DeleteNoJobs ==
  /\ main = "empty"
  /\ main' = "readPid"
  /\ UNCHANGED <<lock, asked, executor, queueVars, workerVars>>
DeleteAllEnqueuedJobs ==
  /\ main = "empty"
  /\ queue' = <<>>
  /\ main' = "readPid"
  /\ UNCHANGED <<lock, asked, executor, active, exitCode, started, workerVars>>

\* KillAllJobsInBkgndProcessQueue reads d_pid; the prompt's wait for a key
\* gives the lock up.
ReadPid ==
  /\ main = "readPid"
  /\ asked' = pid
  /\ IF pid = None THEN main' = "giveLock" /\ UNCHANGED lock
                   ELSE main' = "ask" /\ lock' = None
  /\ UNCHANGED <<executor, queueVars, workerVars>>
Confirm ==
  /\ main = "ask" /\ lock = None
  /\ lock' = "main"
  /\ main' \in {"recheck", "giveLock"}
  /\ UNCHANGED <<asked, executor, queueVars, workerVars>>

\* TerminateProcessGroup reads the pid again, sends SIGTERM, sleeps with the lock
\* held, and sends SIGKILL if the pid is still the same.  A pid that is gone does
\* not come back, so that one step stands for the first two reads.
Recheck ==
  /\ main = "recheck"
  /\ main' = IF pid = asked THEN "term" ELSE "giveLock"
  /\ UNCHANGED <<lock, asked, executor, queueVars, workerVars>>
SignalTerm ==
  /\ main = "term"
  /\ child' = Signalled(asked, job.deaf)
  /\ out' = OutAfter(child')
  /\ main' = "sleep"
  /\ UNCHANGED <<lock, asked, executor, queueVars, worker, job, forkerVars,
                 pipe, printed>>
AfterSleep ==
  /\ main = "sleep"
  /\ main' = IF pid = asked THEN "kill" ELSE "giveLock"
  /\ UNCHANGED <<lock, asked, executor, queueVars, workerVars>>
SignalKill ==
  /\ main = "kill"
  /\ child' = Signalled(asked, FALSE)
  /\ out' = OutAfter(child')
  /\ main' = "giveLock"
  /\ UNCHANGED <<lock, asked, executor, queueVars, worker, job, forkerVars,
                 pipe, printed>>

\* Mutant of GiveUpLock: the lock is kept while the worker is waited for.
GiveUpNothing ==
  /\ main = "giveLock" /\ executor = "live"
  /\ main' = "join"
  /\ UNCHANGED <<lock, asked, executor, queueVars, workerVars>>
GiveUpLock ==
  /\ main = "giveLock" /\ executor = "live"
  /\ main' = "join" /\ lock' = None
  /\ UNCHANGED <<asked, executor, queueVars, workerVars>>
\* Mutant of Join: an executor that has no child is not waited for.
JoinOnlyChildren ==
  /\ main = "join"
  /\ Joinable \/ pid = None
  /\ main' = "takeLock"
  /\ worker' = IF Joinable THEN "none" ELSE worker
  /\ UNCHANGED <<lock, asked, executor, queueVars, job, forkerVars,
                 childVars>>
Join ==
  /\ main = "join"
  /\ Joinable
  /\ main' = "takeLock"
  /\ worker' = "none"
  /\ UNCHANGED <<lock, asked, executor, queueVars, job, forkerVars,
                 childVars>>
\* The destructor kills what is left of the jobs once more, and has no thread
\* to wait for.
DestroyExecutor ==
  /\ main = "takeLock" /\ lock = None
  /\ main' = "empty" /\ lock' = "main"
  /\ executor' = "dying"
  /\ UNCHANGED <<asked, queueVars, workerVars>>
Destroyed ==
  /\ main = "giveLock" /\ executor = "dying"
  /\ main' = "command"
  /\ executor' = "none"
  /\ pid' = None /\ fd' = None /\ status' = 1
  /\ UNCHANGED <<lock, asked, queueVars, worker, job, reaping, childVars>>
-----------------------------------------------------------------------------
\* The worker thread, ThreadFxnRunAllJobs.
TakeJob ==
  /\ worker = "take"
  /\ IF queue = <<>>
       THEN worker' = "report" /\ UNCHANGED <<queue, job>>
       ELSE /\ job' = Head(queue)
            /\ queue' = Tail(queue)
            /\ worker' = IF job'.quiet THEN "fork" ELSE "echo"
  /\ UNCHANGED <<mainVars, active, exitCode, started, forkerVars, childVars>>

\* PutLastLogLine: one line of the log, with the lock.
Logged(from, to) ==
  /\ worker = from /\ lock = None
  /\ worker' = to
  /\ UNCHANGED <<mainVars, queueVars, job, forkerVars, childVars>>
EchoCommand == Logged("echo", "fork")
LogLine     == Logged("log", "read")
LogTail     == Logged("tail", "status")

\* ForkChildOk: the child lives before its pid is published.
Fork ==
  /\ worker = "fork"
  /\ pid' = None
  /\ \/ worker' = "take" /\ UNCHANGED childVars
     \/ /\ worker' = "publish"
        /\ child' = [child EXCEPT ![job.id] = "running"]
        /\ out' = out \cup {job.id}
        /\ UNCHANGED <<pipe, printed>>
  /\ UNCHANGED <<mainVars, queueVars, job, fd, reaping, status>>
Publish ==
  /\ worker = "publish"
  /\ fd' = job.id
  /\ pid' = job.id
  /\ worker' = "read"
  /\ UNCHANGED <<mainVars, queueVars, job, reaping, status, childVars>>

\* GetlineEof: a line is read and logged.  A byte of value 255 is the same char
\* as EMPTY, and taken for the end of the output.
ReadLine ==
  /\ worker = "read"
  /\ pipe[fd] > 0
  /\ pipe' = [pipe EXCEPT ![fd] = @ - 1]
  /\ \E is255 \in {FALSE, MayPrint255} :
       worker' = IF is255 THEN "tail" ELSE "log"
  /\ UNCHANGED <<mainVars, queueVars, job, forkerVars, child, out, printed>>
ReadEof ==
  /\ worker = "read"
  /\ pipe[fd] = 0 /\ fd \notin out
  /\ worker' = "reap"
  /\ UNCHANGED <<mainVars, queueVars, job, forkerVars, childVars>>

\* ReapChild: the pid is taken back before the child is waited for, four
\* times, with a stronger signal after each deadline.
CloseAndForgetPid ==
  /\ worker = "reap"
  /\ fd' = None
  /\ reaping' = pid
  /\ pid' = None
  /\ worker' = "wait"
  /\ UNCHANGED <<mainVars, queueVars, job, status, childVars>>
Reaped ==
  /\ worker \in {"wait", "waitHup", "waitTerm", "waitKill"}
  /\ Zombie(reaping)
  /\ child' = [child EXCEPT ![reaping] = "reaped"]
  /\ status' = IF child[reaping] = "ok" THEN 0 ELSE 1
  /\ reaping' = None
  /\ worker' \in {"status", "tail"}   \* a last line without a line end
  /\ UNCHANGED <<mainVars, queueVars, job, pid, fd, out, pipe, printed>>

TimedOut(from, to, deaf) ==
  /\ worker = from
  /\ child[reaping] = "running"
  /\ child' = Signalled(reaping, deaf)
  /\ worker' = to
  /\ UNCHANGED <<mainVars, queueVars, job, forkerVars, out, pipe, printed>>
\* Mutant of HangUp: the wait starts again and again.
HangUpLater ==
  /\ worker = "wait"
  /\ child[reaping] = "running"
  /\ UNCHANGED vars
HangUp    == TimedOut("wait", "waitHup", job.deaf)
Terminate == TimedOut("waitHup", "waitTerm", job.deaf)
\* Mutant of Kill: the child is given up after SIGTERM.
KillNot ==
  /\ worker = "waitTerm"
  /\ child[reaping] = "running"
  /\ worker' = "status"
  /\ UNCHANGED <<mainVars, queueVars, job, forkerVars, childVars>>
\* The kernel ends the child before the last deadline (ChildKillGracePeriod), so
\* that the wait it bounds is not given up.
Kill      == TimedOut("waitTerm", "waitKill", FALSE)

\* The end of CreateProcess_piped: an ignored failure is logged, and
\* d_ChildProcessExitCode is not written.
JobStatus ==
  /\ worker = "status"
  /\ (status # 0 /\ job.ignore) => (lock = None)
  /\ worker' = "done"
  /\ UNCHANGED <<mainVars, queueVars, job, forkerVars, childVars>>
AfterJob ==
  /\ worker = "done"
  /\ queue' = IF exitCode # 0 /\ ~job.ignore THEN <<>> ELSE queue
  /\ worker' = "take"
  /\ UNCHANGED <<mainVars, active, exitCode, started, job, forkerVars,
                 childVars>>
Report ==
  /\ worker = "report" /\ lock = None
  /\ exitCode' = 0
  /\ worker' = "exit"
  /\ UNCHANGED <<mainVars, active, queue, started, job, forkerVars,
                 childVars>>
ThreadExit ==
  /\ worker = "exit"
  /\ active' = FALSE
  /\ worker' = "ended"
  /\ UNCHANGED <<mainVars, queue, exitCode, started, job, forkerVars, childVars>>
-----------------------------------------------------------------------------
\* The children: programs print, close their output, and end.  A pipe holds
\* one line here, so that a program may have to wait for the log.
PrintLine(j) ==
  /\ child[j] = "running" /\ j \in out
  /\ pipe[j] = 0 /\ printed[j] < MaxLines
  /\ pipe' = [pipe EXCEPT ![j] = 1]
  /\ printed' = [printed EXCEPT ![j] = @ + 1]
  /\ UNCHANGED <<mainVars, queueVars, worker, job, forkerVars, child, out>>
CloseOutput(j) ==
  /\ child[j] = "running" /\ j \in out
  /\ out' = out \ {j}
  /\ UNCHANGED <<mainVars, queueVars, worker, job, forkerVars, child, pipe,
                 printed>>
Exit(j) ==
  /\ child[j] = "running"
  /\ \E s \in {"ok", "failed"} : child' = [child EXCEPT ![j] = s]
  /\ out' = out \ {j}
  /\ UNCHANGED <<mainVars, queueVars, worker, job, forkerVars, pipe, printed>>
-----------------------------------------------------------------------------
Init ==
  /\ main = "command" /\ lock = "main" /\ asked = None /\ executor = "none"
  /\ active = FALSE /\ queue = <<>> /\ exitCode = 0 /\ started = 0
  /\ worker = "none" /\ job = None
  /\ pid = None /\ fd = None /\ reaping = None /\ status = 1
  /\ child   = [j \in Ids |-> "none"]
  /\ out     = {}
  /\ pipe    = [j \in Ids |-> 0]
  /\ printed = [j \in Ids |-> 0]

Kinds == [quiet : BOOLEAN, ignore : BOOLEAN, deaf : BOOLEAN]
Batches == (Kinds \X Kinds) \cup {<<k>> : k \in Kinds}

Stop ==
  \/ DeleteAllEnqueuedJobs \/ ReadPid \/ Confirm \/ Recheck \/ SignalTerm
  \/ AfterSleep \/ SignalKill \/ GiveUpLock \/ Join
  \/ DestroyExecutor \/ Destroyed
Reap ==
  \/ CloseAndForgetPid \/ Reaped \/ HangUp \/ Terminate \/ Kill
Worker ==
  \/ TakeJob \/ EchoCommand \/ Fork \/ Publish
  \/ ReadLine \/ LogLine \/ ReadEof
  \/ LogTail
  \/ Reap
  \/ JobStatus \/ AfterJob \/ Report \/ ThreadExit
Next ==
  \/ WaitForKey \/ GotKey \/ CloseBuffer
  \/ \E b \in Batches : Restart(b)
  \/ Stop
  \/ Worker
  \/ \E j \in Ids : PrintLine(j) \/ CloseOutput(j) \/ Exit(j)

Spec == Init /\ [][Next]_vars

\* The threads go on, the user answers the prompt, and every program ends its
\* output, by ending or otherwise.  The lock is not fair; the worker gets it
\* because it is free whenever the main thread waits for a key.
FairSpec ==
  /\ Spec
  /\ WF_vars(WaitForKey) /\ WF_vars(Stop) /\ SF_vars(Worker)
  /\ \A j \in Ids : WF_vars(j \in out /\ (CloseOutput(j) \/ Exit(j)))
-----------------------------------------------------------------------------
IdOrNone == Ids \cup {None}
TypeOK ==
  /\ main \in {"command", "key", "empty", "readPid", "ask", "recheck", "term",
               "sleep", "kill", "giveLock", "join", "takeLock"}
  /\ lock \in {"main", None} /\ asked \in IdOrNone
  /\ executor \in {"none", "live", "dying"}
  /\ active \in BOOLEAN
  /\ queue \in Seq(Job) /\ started \in 0 .. MaxJobs
  /\ exitCode = 0 /\ status \in {0, 1}
  /\ worker \in {"none", "take", "echo", "fork", "publish", "read", "log",
                 "reap", "wait", "waitHup", "waitTerm", "waitKill", "tail",
                 "status", "done", "report", "exit", "ended"}
  /\ job \in Job \cup {None}
  /\ pid \in IdOrNone /\ fd \in IdOrNone /\ reaping \in IdOrNone
  /\ child \in [Ids -> {"none", "running", "ok", "failed", "reaped"}]
  /\ out \subseteq Ids
  /\ pipe \in [Ids -> 0 .. 1] /\ printed \in [Ids -> 0 .. MaxLines]

\* "process has been reaped" (linux_process.cpp:384) when a job's output has
\* ended: between two jobs, and when the thread has ended, no child is left
\* running or unreaped, so that no later fork forgets its pid.
NoChildLeft ==
  worker \in {"none", "take", "echo", "fork", "tail", "status", "done", "report",
             "exit", "ended"} => \A j \in Ids : ~Unreaped(j)

\* A buffer that is destroyed has no thread left that could write into it
\* (linux_process.cpp:773-783).
NoWorkerWithoutExecutor == executor # "live" => worker = "none"

NoJobStarts == \A j \in Ids : (child[j] = "none") => (child'[j] = "none")

\* Once the kill prompt is up, no other job starts: the pid it shows is that
\* of the last job, and the one that is killed (linux_process.cpp:752-764).
NoJobStartsInPrompt ==
  [][(main \in {"ask", "recheck", "term", "sleep", "kill"}) => NoJobStarts]_vars

\* Closing a buffer returns, in whatever state its executor is: the main thread
\* waits for the worker and the worker for the lock (linux_process.cpp:770-784).
StopReturns == main = "empty" ~> executor = "none"

\* Every batch ends, programs that close their output and go on or ignore
\* signals included (linux_process.cpp:143-176).
BatchEnds == active ~> ~active

=============================================================================
