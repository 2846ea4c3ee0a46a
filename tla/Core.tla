--------------------------------- MODULE Core ---------------------------------
(***************************************************************************)
(* JMEngine::net::IoServiceCore: the net thread, the logic thread and the  *)
(* named threads, each an io_service with a queue of handlers; their start *)
(* and their stop, by the main thread.  Handlers of the net and the logic  *)
(* thread may get a thread by name, which is created when it is not there, *)
(* and give it work; any handler may have a JME_TaskThread do something    *)
(* and wait for it.  _namedThread is protected by no lock.                 *)
(***************************************************************************)
EXTENDS Integers, Sequences

CONSTANTS
    Names,    \* names of threads
    MaxPosts  \* bound of the model: handlers the application posts

ASSUME CoreAssumption == "none" \notin Names /\ MaxPosts \in Nat

NetThread == 1
LogicThread == 2
Threads == 1 .. 2 + MaxPosts  \* Thread objects: net, logic, and those createNamedThread makes
TheTaskThread == 0
NoThread == 0
NoName == "none"

VARIABLES
    state,       \* of each Thread: "new", "running" or "joined"
    halted,      \* its io_service was stopped
    queue,       \* the handlers posted to it
    handler,     \* where its current handler is, "idle" if there is none
    name,        \* the name that handler is looking up or creating, or NoName
    held,        \* the ThreadPtr that handler holds, or NoThread
    namedThread, \* _namedThread
    stage,       \* of main: 0 before start, 1 up, 2 to 4 in stop, 5 after it
    posts,       \* handlers posted by the application
    overlapped,  \* two handlers were creating a thread of the same name
    dropped,     \* a Thread was destroyed with handlers in its queue
    tasks, posting, done, wpc, current  \* of the task thread

TT == INSTANCE TaskThread WITH Callers <- Threads, Worker <- TheTaskThread

coreVars == <<state, halted, queue, handler, name, held, namedThread, stage, posts,
              overlapped, dropped>>
taskVars == <<tasks, posting, done, wpc, current>>
vars == <<coreVars, taskVars>>

Named == {namedThread[n] : n \in Names} \ {NoThread}

Init ==
    /\ state = [t \in Threads |-> "new"]
    /\ halted = [t \in Threads |-> FALSE]
    /\ queue = [t \in Threads |-> <<>>]
    /\ handler = [t \in Threads |-> "idle"]
    /\ name = [t \in Threads |-> NoName]
    /\ held = [t \in Threads |-> NoThread]
    /\ namedThread = [n \in Names |-> NoThread]
    /\ stage = 0 /\ posts = 0
    /\ overlapped = FALSE /\ dropped = FALSE
    /\ TT!TaskInit

Goto(t, label) == handler' = [handler EXCEPT ![t] = label]

-----------------------------------------------------------------------------
(* Definitions named ..._Variant are plausible mistakes in the definition that *)
(* follows them.  Nothing uses them; each breaks a property that the          *)
(* definition itself keeps.                                                   *)

(* The main thread. *)

\* start: the net and the logic thread run.
Start ==
    /\ stage = 0
    /\ stage' = 1
    /\ state' = [state EXCEPT ![NetThread] = "running", ![LogicThread] = "running"]
    /\ UNCHANGED <<halted, queue, handler, name, held, namedThread, posts, overlapped,
                   dropped, taskVars>>

\* The application, or a session, posts a handler.
PostHandler ==
    /\ stage >= 1
    /\ posts < MaxPosts
    /\ posts' = posts + 1
    /\ \E t \in {NetThread, LogicThread},
          h \in [op : {"plain", "task"}] \cup [op : {"find"}, name : Names] :
             queue' = [queue EXCEPT ![t] = Append(@, h)]
    /\ UNCHANGED <<state, halted, handler, name, held, namedThread, stage, overlapped,
                   dropped, taskVars>>

\* The named threads first.
StopOrder_Variant == <<Named, {NetThread}, {LogicThread}>>

\* The threads stop takes care of, in three stages.
StopOrder == <<{NetThread}, {LogicThread}, Named>>

InStop == stage \in 2 .. 4

\* stop is called.
Stop ==
    /\ stage = 1
    /\ stage' = 2
    /\ UNCHANGED <<state, halted, queue, handler, name, held, namedThread, posts, overlapped,
                   dropped, taskVars>>

\* Thread::stop stops the io_service of the next thread...
StopThread ==
    /\ InStop
    /\ \A t \in StopOrder[stage - 1] : halted[t] => state[t] = "joined"
    /\ \E t \in StopOrder[stage - 1] :
          /\ ~halted[t]
          /\ halted' = [halted EXCEPT ![t] = TRUE]
    /\ UNCHANGED <<state, queue, handler, name, held, namedThread, stage, posts, overlapped,
                   dropped, taskVars>>

\* ... and joins it, when its current handler is done.
Join ==
    /\ InStop
    /\ \E t \in StopOrder[stage - 1] :
          /\ halted[t] /\ state[t] = "running" /\ handler[t] = "idle"
          /\ state' = [state EXCEPT ![t] = "joined"]
    /\ UNCHANGED <<halted, queue, handler, name, held, namedThread, stage, posts, overlapped,
                   dropped, taskVars>>

NextStage ==
    /\ InStop
    /\ \A t \in StopOrder[stage - 1] : state[t] = "joined"
    /\ stage' = stage + 1
    /\ UNCHANGED <<state, halted, queue, handler, name, held, namedThread, posts, overlapped,
                   dropped, taskVars>>

MainStops == StopThread \/ Join \/ NextStage

-----------------------------------------------------------------------------
(* The handlers of the thread t. *)

\* The io_service goes on when it was stopped.
Dispatch_Variant(t) ==
    /\ handler[t] = "idle" /\ queue[t] # <<>>
    /\ queue' = [queue EXCEPT ![t] = Tail(@)]
    /\ Head(queue[t]).op = "find"
    /\ Goto(t, "find")
    /\ name' = [name EXCEPT ![t] = Head(queue[t]).name]
    /\ UNCHANGED <<state, halted, held, namedThread, stage, posts, overlapped, dropped, taskVars>>

\* io_service::run takes the next handler.  A plain one is done at once.
Dispatch(t) ==
    /\ state[t] = "running" /\ ~halted[t]
    /\ handler[t] = "idle" /\ queue[t] # <<>>
    /\ queue' = [queue EXCEPT ![t] = Tail(@)]
    /\ LET h == Head(queue[t])
       IN  \/ h.op = "plain" /\ UNCHANGED <<handler, name, taskVars>>
           \/ h.op = "task" /\ Goto(t, "task") /\ TT!Post(t) /\ UNCHANGED name
           \/ /\ h.op = "find" /\ Goto(t, "find")
              /\ name' = [name EXCEPT ![t] = h.name]
              /\ UNCHANGED taskVars
    /\ UNCHANGED <<state, halted, held, namedThread, stage, posts, overlapped, dropped>>

\* The rest of JME_TaskThread::post.
InTask(t) ==
    /\ handler[t] = "task"
    /\ \/ TT!Notify(t) /\ UNCHANGED handler
       \/ TT!GetReturns(t) /\ Goto(t, "idle")
    /\ UNCHANGED <<state, halted, queue, name, held, namedThread, stage, posts, overlapped, dropped>>

\* A thread that exists is not found.
GetThreadByName_Variant(t) ==
    /\ handler[t] = "find"
    /\ Goto(t, "create")
    /\ overlapped' = (overlapped \/ \E u \in Threads \ {t} :
                                        handler[u] = "create" /\ name[u] = name[t])
    /\ UNCHANGED <<state, halted, queue, name, held, namedThread, stage, posts, dropped,
                   taskVars>>

\* createThreadByName: the name is looked up.
GetThreadByName(t) ==
    /\ handler[t] = "find"
    /\ IF namedThread[name[t]] # NoThread
         THEN /\ held' = [held EXCEPT ![t] = namedThread[name[t]]]
              /\ name' = [name EXCEPT ![t] = NoName]
              /\ Goto(t, "use")
              /\ UNCHANGED overlapped
         ELSE /\ Goto(t, "create")
              /\ overlapped' = (overlapped \/ \E u \in Threads \ {t} :
                                                  handler[u] = "create" /\ name[u] = name[t])
              /\ UNCHANGED <<held, name>>
    /\ UNCHANGED <<state, halted, queue, namedThread, stage, posts, dropped, taskVars>>

\* createNamedThread: a new Thread runs and is inserted; insert leaves an entry
\* that is there, and the caller gets the new Thread all the same.
CreateNamedThread(t) ==
    /\ handler[t] = "create"
    /\ \E new \in Threads :
          /\ state[new] = "new" /\ \A u \in Threads : u < new => state[u] # "new"
          /\ state' = [state EXCEPT ![new] = "running"]
          /\ held' = [held EXCEPT ![t] = new]
          /\ namedThread' = IF namedThread[name[t]] # NoThread THEN namedThread
                            ELSE [namedThread EXCEPT ![name[t]] = new]
    /\ name' = [name EXCEPT ![t] = NoName]
    /\ Goto(t, "use")
    /\ UNCHANGED <<halted, queue, stage, posts, overlapped, dropped, taskVars>>

\* The handler posts something to the thread it got.
UseThread(t) ==
    /\ handler[t] = "use"
    /\ \E op \in {"plain", "task"} : queue' = [queue EXCEPT ![held[t]] = Append(@, [op |-> op])]
    /\ Goto(t, "release")
    /\ UNCHANGED <<state, halted, name, held, namedThread, stage, posts, overlapped, dropped,
                   taskVars>>

\* The ThreadPtr goes.  The last one destroys the Thread: ~Thread stops its
\* io_service...
Release(t) ==
    /\ handler[t] = "release"
    /\ IF held[t] \in Named \/ \E u \in Threads \ {t} : held[u] = held[t]
         THEN /\ held' = [held EXCEPT ![t] = NoThread]
              /\ Goto(t, "idle")
              /\ UNCHANGED halted
         ELSE /\ halted' = [halted EXCEPT ![held[t]] = TRUE]
              /\ Goto(t, "join")
              /\ UNCHANGED held
    /\ UNCHANGED <<state, queue, name, namedThread, stage, posts, overlapped, dropped, taskVars>>

\* ... and joins it; what is still queued there never runs.
JoinOrphan(t) ==
    /\ handler[t] = "join"
    /\ handler[held[t]] = "idle"
    /\ state' = [state EXCEPT ![held[t]] = "joined"]
    /\ dropped' = (dropped \/ queue[held[t]] # <<>>)
    /\ held' = [held EXCEPT ![t] = NoThread]
    /\ Goto(t, "idle")
    /\ UNCHANGED <<halted, queue, name, namedThread, stage, posts, overlapped, taskVars>>

ThreadStep(t) ==
    \/ Dispatch(t) \/ InTask(t) \/ GetThreadByName(t) \/ CreateNamedThread(t)
    \/ UseThread(t) \/ Release(t) \/ JoinOrphan(t)

TaskStep == TT!WorkerStep /\ UNCHANGED coreVars
TaskSelfPost == TT!SelfPost /\ UNCHANGED coreVars

Next ==
    \/ Start \/ PostHandler \/ Stop \/ MainStops
    \/ \E t \in Threads : ThreadStep(t)
    \/ TaskStep \/ TaskSelfPost

Spec == Init /\ [][Next]_vars

\* Every thread goes on while it can, and stop once it was called; nobody needs
\* to post or to stop anything.
FairSpec ==
    Spec /\ WF_vars(MainStops) /\ WF_vars(TaskStep) /\ \A t \in Threads : WF_vars(ThreadStep(t))

-----------------------------------------------------------------------------
Labels == {"idle", "task", "find", "create", "use", "release", "join"}
Handlers == [op : {"plain", "task"}] \cup [op : {"find"}, name : Names]

\* The types of the variables; only a running thread has a handler that runs,
\* and only a running or finished one is in _namedThread.
TypeOK ==
    /\ state \in [Threads -> {"new", "running", "joined"}]
    /\ halted \in [Threads -> BOOLEAN]
    /\ queue \in [Threads -> Seq(Handlers)]
    /\ handler \in [Threads -> Labels]
    /\ name \in [Threads -> Names \cup {NoName}]
    /\ held \in [Threads -> Threads \cup {NoThread}]
    /\ namedThread \in [Names -> Threads \cup {NoThread}]
    /\ stage \in 0 .. 5 /\ posts \in 0 .. MaxPosts
    /\ overlapped \in BOOLEAN /\ dropped \in BOOLEAN
    /\ TT!TaskTypeOK
    /\ \A t \in Threads : handler[t] # "idle" => state[t] = "running"
    /\ \A t \in Named : state[t] # "new"

\* When stop has returned no thread of the core runs, neither a named one nor
\* one that lost the race for its name: net and logic, whose handlers create
\* the others, are joined before the named threads are gone through.
StopIsFinal == stage = 5 => \A t \in Threads : state[t] # "running"

\* stop returns, whatever the handlers wait for, unless a task of the task
\* thread has posted to its own thread.
StopReturns == InStop ~> (stage = 5 \/ TT!SelfPosted)

\* Work given to a thread got from createThreadByName is lost, before stop,
\* only when two handlers were creating that name at the same time.
LostOnlyInRace == dropped => overlapped

\* A thread that waits for its task has one: it is queued, running or done.  And
\* the task thread does not sleep while a task is there, unless the notify is
\* still to come.
NoLostTask ==
    /\ \A t \in Threads : posting[t] # "out" => TT!Somewhere(t)
    /\ wpc = "asleep" /\ tasks # <<>> => \E t \in Threads : posting[t] = "pushed"
=============================================================================
