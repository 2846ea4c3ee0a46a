------------------------------ MODULE TaskThread ------------------------------
(***************************************************************************)
(* JMEngine::net::JME_TaskThread: a thread that runs the tasks other       *)
(* threads post to it.  post returns when its own task has run, so every   *)
(* caller has one task at a time and a task is named by its caller.  The   *)
(* queue is protected by _mutex; a critical section is one step.  Nothing  *)
(* sets _stop.                                                             *)
(***************************************************************************)
EXTENDS Naturals, Sequences

CONSTANTS
    Callers,  \* the threads that post
    Worker    \* the task thread, which posts when a task of its own does

VARIABLES
    tasks,    \* _tasks
    posting,  \* where each thread is in post: "out", "pushed" or "get"
    done,     \* callers whose task has run: their futures are ready
    wpc,      \* where the worker is: "check", "asleep" or "run"
    current   \* the task it runs, Worker if none

TaskInit ==
    /\ tasks = <<>>
    /\ posting = [c \in Callers \cup {Worker} |-> "out"]
    /\ done = {}
    /\ wpc = "check"
    /\ current = Worker

\* The task is pushed under the mutex.
Post(c) ==
    /\ posting[c] = "out"
    /\ tasks' = Append(tasks, c)
    /\ posting' = [posting EXCEPT ![c] = "pushed"]
    /\ UNCHANGED <<done, wpc, current>>

\* Nobody is woken.  (A plausible mistake in the definition that follows;
\* nothing uses it.)
Notify_Variant(c) ==
    /\ posting[c] = "pushed"
    /\ posting' = [posting EXCEPT ![c] = "get"]
    /\ UNCHANGED <<tasks, done, wpc, current>>

\* notify_one, after the mutex is released: the worker looks again.
Notify(c) ==
    /\ posting[c] = "pushed"
    /\ posting' = [posting EXCEPT ![c] = "get"]
    /\ wpc' = IF wpc = "asleep" THEN "check" ELSE wpc
    /\ UNCHANGED <<tasks, done, current>>

\* res.get() returns.
GetReturns(c) ==
    /\ posting[c] = "get"
    /\ c \in done
    /\ posting' = [posting EXCEPT ![c] = "out"]
    /\ done' = done \ {c}
    /\ UNCHANGED <<tasks, wpc, current>>

\* wait with its predicate, under the mutex: it sleeps if there is no task.
TakeTask ==
    /\ wpc = "check"
    /\ IF tasks = <<>>
         THEN wpc' = "asleep" /\ UNCHANGED <<tasks, current>>
         ELSE wpc' = "run" /\ current' = Head(tasks) /\ tasks' = Tail(tasks)
    /\ UNCHANGED <<posting, done>>

\* The task runs and fulfils its future, also when it throws.
RunTask ==
    /\ wpc = "run"
    /\ posting[Worker] = "out"
    /\ done' = done \cup {current}
    /\ wpc' = "check"
    /\ current' = Worker
    /\ UNCHANGED <<tasks, posting>>

\* The task posts to its own thread, and waits for what only it could run.
SelfPost == wpc = "run" /\ Post(Worker)

SelfPosted == posting[Worker] # "out"

WorkerStep == TakeTask \/ RunTask \/ Notify(Worker)

-----------------------------------------------------------------------------
\* The types of the variables.
TaskTypeOK ==
    /\ tasks \in Seq(Callers \cup {Worker})
    /\ posting \in [Callers \cup {Worker} -> {"out", "pushed", "get"}]
    /\ done \subseteq Callers
    /\ wpc \in {"check", "asleep", "run"}
    /\ current \in Callers \cup {Worker}

\* Where the task of a caller that waits is: queued, running or done.
Somewhere(c) ==
    \/ \E i \in 1 .. Len(tasks) : tasks[i] = c
    \/ wpc = "run" /\ current = c
    \/ c \in done
=============================================================================
