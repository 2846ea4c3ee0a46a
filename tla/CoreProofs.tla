------------------------------ MODULE CoreProofs ------------------------------
(***************************************************************************)
(* The threads of the core, for any number of names and handlers: the task *)
(* thread loses no task and no wakeup, stop leaves no thread running, and  *)
(* work is lost only in the race for a name.                               *)
(***************************************************************************)
EXTENDS Core, SequenceTheorems, TLAPS

USE CoreAssumption

Workers == Threads \cup {TheTaskThread}

-----------------------------------------------------------------------------
(* The task thread.  A task that posts to its own thread never ends, so that *)
(* the worker never takes a task of its own.                                 *)

TaskTyped ==
    /\ tasks \in Seq(Workers)
    /\ posting \in [Workers -> {"out", "pushed", "get"}]
    /\ done \in SUBSET Threads
    /\ wpc \in {"check", "asleep", "run"}
    /\ current \in Workers

NeverOwn ==
    /\ wpc = "run" => current \in Threads
    /\ posting[TheTaskThread] # "out" => wpc = "run"
    /\ \A i \in 1 .. Len(tasks) : tasks[i] = TheTaskThread => posting[TheTaskThread] # "out"

TaskInv == TaskTyped /\ NeverOwn /\ NoLostTask

\* The steps of the task thread and of post, and all others.
TaskSteps ==
    \/ \E t \in Threads : TT!Post(t) \/ TT!Notify(t) \/ TT!GetReturns(t)
    \/ TT!TakeTask \/ TT!RunTask \/ TT!Notify(TheTaskThread) \/ TT!SelfPost
    \/ UNCHANGED taskVars

LEMMA NextTaskSteps == [Next]_vars => TaskSteps
<1> SUFFICES ASSUME [Next]_vars PROVE TaskSteps
  OBVIOUS
<1>1. ASSUME NEW t \in Threads, ThreadStep(t) PROVE TaskSteps
  BY <1>1, Zenon DEF ThreadStep, Dispatch, InTask, GetThreadByName, CreateNamedThread, UseThread, Release,
     JoinOrphan, TaskSteps
<1>2. CASE TaskStep \/ TaskSelfPost
  BY <1>2, Zenon DEF TaskStep, TaskSelfPost, TT!WorkerStep, TaskSteps
<1>3. CASE Start \/ PostHandler \/ Stop \/ MainStops
  BY <1>3, Zenon DEF Start, PostHandler, Stop, MainStops, StopThread, Join, NextStage, TaskSteps
<1>4. CASE UNCHANGED vars
  BY <1>4, Zenon DEF vars, TaskSteps
<1> QED BY <1>1, <1>2, <1>3, <1>4, Zenon DEF Next

LEMMA AppendFacts ==
    ASSUME NEW S, NEW s \in Seq(S), NEW x \in S
    PROVE  /\ Append(s, x) \in Seq(S) /\ Len(Append(s, x)) = Len(s) + 1 /\ Len(s) \in Nat
           /\ Append(s, x)[Len(s) + 1] = x
           /\ \A i \in 1 .. Len(s) : Append(s, x)[i] = s[i]
OBVIOUS

LEMMA TailFacts ==
    ASSUME NEW S, NEW s \in Seq(S), s # <<>>
    PROVE  /\ Tail(s) \in Seq(S) /\ Len(Tail(s)) = Len(s) - 1 /\ Len(s) \in Nat \ {0}
           /\ Head(s) = s[1] /\ Head(s) \in S
           /\ \A i \in 1 .. Len(s) - 1 : Tail(s)[i] = s[i + 1]
OBVIOUS

LEMMA TaskStepInv == TaskInv /\ TaskSteps => TaskInv'
<1> SUFFICES ASSUME TaskInv, TaskSteps PROVE TaskInv'
  OBVIOUS
<1>t. /\ tasks \in Seq(Workers) /\ posting \in [Workers -> {"out", "pushed", "get"}] /\ Len(tasks) \in Nat
      /\ TheTaskThread \in Workers /\ TheTaskThread \notin Threads /\ Threads \subseteq Workers
  BY DEF TaskInv, TaskTyped, TheTaskThread, Threads, Workers
<1> USE DEF TT!Somewhere
<1>1. ASSUME NEW c \in Workers, TT!Post(c), c = TheTaskThread => wpc = "run" PROVE TaskInv'
  <2>1. /\ tasks' = Append(tasks, c) /\ posting' = [posting EXCEPT ![c] = "pushed"]
        /\ done' = done /\ wpc' = wpc /\ current' = current
    BY <1>1 DEF TT!Post
  <2>2. /\ tasks' \in Seq(Workers) /\ Len(tasks') = Len(tasks) + 1 /\ tasks'[Len(tasks) + 1] = c
        /\ \A i \in 1 .. Len(tasks) : tasks'[i] = tasks[i]
    BY <1>t, <2>1, AppendFacts
  <2>3. TaskTyped'
    BY <1>t, <2>1, <2>2 DEF TaskInv, TaskTyped
  <2>4. NeverOwn'
    BY <1>t, <1>1, <2>1, <2>2 DEF TaskInv, NeverOwn
  <2>5. NoLostTask'
    <3>1. ASSUME NEW t \in Threads, posting'[t] # "out" PROVE TT!Somewhere(t)'
      <4>1. CASE t = c
        BY <1>t, <2>2, <4>1
      <4>2. CASE t # c
        <5>1. TT!Somewhere(t)
          BY <1>t, <2>1, <3>1, <4>2 DEF TaskInv, NoLostTask
        <5> QED BY <1>t, <2>1, <2>2, <5>1
      <4> QED BY <4>1, <4>2
    <3>2. wpc' = "asleep" => \E t \in Threads : posting'[t] = "pushed"
      BY <1>t, <1>1, <2>1 DEF Workers
    <3> QED BY <3>1, <3>2 DEF NoLostTask
  <2> QED BY <2>3, <2>4, <2>5 DEF TaskInv
<1>2. ASSUME NEW c \in Workers, TT!Notify(c) PROVE TaskInv'
  BY <1>t, <1>2 DEF TT!Notify, TaskInv, TaskTyped, NeverOwn, NoLostTask
<1>3. ASSUME NEW c \in Threads, TT!GetReturns(c) PROVE TaskInv'
  BY <1>t, <1>3 DEF TT!GetReturns, TaskInv, TaskTyped, NeverOwn, NoLostTask
<1>4. CASE TT!TakeTask
  <2>1. CASE tasks = <<>>
    BY <1>t, <1>4, <2>1 DEF TT!TakeTask, TaskInv, TaskTyped, NeverOwn, NoLostTask
  <2>2. CASE tasks # <<>>
    <3>1. /\ wpc = "check" /\ wpc' = "run" /\ current' = Head(tasks) /\ tasks' = Tail(tasks)
          /\ posting' = posting /\ done' = done
      BY <1>4, <2>2 DEF TT!TakeTask
    <3>2. /\ tasks' \in Seq(Workers) /\ Len(tasks') = Len(tasks) - 1 /\ Len(tasks) \in Nat \ {0}
          /\ current' = tasks[1] /\ current' \in Workers
          /\ \A i \in 1 .. Len(tasks) - 1 : tasks'[i] = tasks[i + 1]
      BY <1>t, <2>2, <3>1, TailFacts
    <3>3. TaskTyped'
      BY <3>1, <3>2 DEF TaskInv, TaskTyped
    <3>4. posting[TheTaskThread] = "out" /\ current' # TheTaskThread
      BY <3>1, <3>2 DEF TaskInv, NeverOwn
    <3>5. NeverOwn'
      BY <1>t, <3>1, <3>2, <3>4 DEF TaskInv, NeverOwn, Workers
    <3>6. ASSUME NEW t \in Threads, posting'[t] # "out" PROVE TT!Somewhere(t)'
      <4>1. TT!Somewhere(t)
        BY <3>1, <3>6 DEF TaskInv, NoLostTask
      <4>2. CASE t \in done
        BY <3>1, <4>2
      <4>3. ASSUME NEW i \in 1 .. Len(tasks), tasks[i] = t PROVE TT!Somewhere(t)'
        <5>1. CASE i = 1
          BY <3>1, <3>2, <4>3, <5>1
        <5>2. CASE i # 1
          <6>1. i - 1 \in 1 .. Len(tasks') /\ tasks'[i - 1] = t
            BY <3>2, <4>3, <5>2
          <6> QED BY <6>1
        <5> QED BY <5>1, <5>2
      <4> QED BY <3>1, <4>1, <4>2, <4>3
    <3> QED BY <3>1, <3>3, <3>5, <3>6 DEF TaskInv, NoLostTask
  <2> QED BY <2>1, <2>2
<1>5. CASE TT!RunTask
  BY <1>t, <1>5 DEF TT!RunTask, TaskInv, TaskTyped, NeverOwn, NoLostTask
<1>6. CASE UNCHANGED taskVars
  BY <1>t, <1>6 DEF taskVars, TaskInv, TaskTyped, NeverOwn, NoLostTask
<1> QED BY <1>t, <1>1, <1>2, <1>3, <1>4, <1>5, <1>6, Zenon DEF TaskSteps, TT!SelfPost

LEMMA InitTaskInv == Init => TaskInv
BY DEF Init, TT!TaskInit, TaskInv, TaskTyped, NeverOwn, NoLostTask, Workers, TT!Somewhere, TheTaskThread, Threads

\* JME_TaskThread: what the worker runs is never a task of its own, and every
\* caller inside post has its task queued, running or done.
THEOREM TaskInvariance == Spec => []TaskInv
BY InitTaskInv, NextTaskSteps, TaskStepInv, PTL DEF Spec

\* JME_TaskThread::post loses no task, and its notify, which comes after the mutex
\* was released, never leaves the worker asleep with a task that nobody will
\* announce.
THEOREM TasksKept == Spec => []NoLostTask
<1>1. TaskInv => NoLostTask
  BY DEF TaskInv
<1> QED BY <1>1, TaskInvariance, PTL

-----------------------------------------------------------------------------
(* Types and labels. *)

Finders == {NetThread, LogicThread}

Typed ==
    /\ state \in [Threads -> {"new", "running", "joined"}]
    /\ queue \in [Threads -> Seq(Handlers)]
    /\ handler \in [Threads -> Labels]
    /\ name \in [Threads -> Names \cup {NoName}]
    /\ held \in [Threads -> Threads \cup {NoThread}]
    /\ namedThread \in [Names -> Threads \cup {NoThread}]
    /\ stage \in 0 .. 5 /\ posts \in 0 .. MaxPosts

Flags == halted \in [Threads -> BOOLEAN] /\ overlapped \in BOOLEAN /\ dropped \in BOOLEAN

\* A handler in the middle of something belongs to a running thread, has the
\* name it looks for and holds the thread it got.
Placed ==
    \A t \in Threads :
       /\ handler[t] # "idle" => state[t] = "running"
       /\ handler[t] \in {"find", "create"} => name[t] \in Names
       /\ held[t] # NoThread <=> handler[t] \in {"use", "release", "join"}

NamedOld == \A t \in Named : state[t] # "new"

\* Only handlers of the net and the logic thread look for threads.
OnlyFinders ==
    \A t \in Threads \ Finders :
       /\ handler[t] \in {"idle", "task"}
       /\ \A i \in 1 .. Len(queue[t]) : queue[t][i].op # "find"

CoreInv == Typed /\ Placed /\ NamedOld /\ OnlyFinders

LEMMA ThreadFacts ==
    /\ NetThread \in Threads /\ LogicThread \in Threads /\ NoThread \notin Threads
    /\ NetThread # LogicThread /\ NoName \notin Names
BY DEF Threads, NetThread, LogicThread, NoThread, NoName

\* A handler that looks for a name has one.
LEMMA HandlerFacts ==
    /\ \A h \in Handlers : h.op \in {"plain", "task", "find"} /\ (h.op = "find" => h.name \in Names)
    /\ \A op \in {"plain", "task"} : [op |-> op] \in Handlers /\ [op |-> op].op # "find"
BY DEF Handlers

\* A handler is added behind the others of one thread.
LEMMA PostFacts ==
    ASSUME Typed, NEW t \in Threads, NEW h \in Handlers, queue' = [queue EXCEPT ![t] = Append(@, h)]
    PROVE  /\ queue' \in [Threads -> Seq(Handlers)]
           /\ OnlyFinders /\ handler' = handler /\ (t \in Finders \/ h.op # "find") => OnlyFinders'
<1>1. queue \in [Threads -> Seq(Handlers)] /\ queue[t] \in Seq(Handlers)
  BY DEF Typed
<1>2. /\ Append(queue[t], h) \in Seq(Handlers) /\ Len(Append(queue[t], h)) = Len(queue[t]) + 1
      /\ Len(queue[t]) \in Nat
      /\ Append(queue[t], h)[Len(queue[t]) + 1] = h
      /\ \A i \in 1 .. Len(queue[t]) : Append(queue[t], h)[i] = queue[t][i]
  BY <1>1, AppendFacts
<1>3. queue' = [queue EXCEPT ![t] = Append(queue[t], h)]
  OBVIOUS
<1>4. queue' \in [Threads -> Seq(Handlers)]
  BY <1>1, <1>2, <1>3
<1>5. queue'[t] = Append(queue[t], h) /\ \A u \in Threads : u # t => queue'[u] = queue[u]
  BY <1>1, <1>3
<1>6. ASSUME OnlyFinders, handler' = handler, t \in Finders \/ h.op # "find" PROVE OnlyFinders'
  <2> SUFFICES ASSUME NEW u \in Threads \ Finders, NEW i \in 1 .. Len(queue'[u]) PROVE queue'[u][i].op # "find"
    BY <1>6 DEF OnlyFinders
  <2>1. CASE u = t
    BY <1>2, <1>5, <1>6, <2>1 DEF OnlyFinders
  <2>2. CASE u # t
    BY <1>5, <1>6, <2>2 DEF OnlyFinders
  <2> QED BY <2>1, <2>2
<1> QED BY <1>4, <1>6

\* The first handler of one thread is taken.
LEMMA TakeFacts ==
    ASSUME Typed, NEW t \in Threads, queue[t] # <<>>, queue' = [queue EXCEPT ![t] = Tail(@)]
    PROVE  /\ queue' \in [Threads -> Seq(Handlers)] /\ Head(queue[t]) \in Handlers
           /\ Head(queue[t]) = queue[t][1] /\ 1 \in 1 .. Len(queue[t])
           /\ \A u \in Threads : \A i \in 1 .. Len(queue'[u]) :
                 \E j \in 1 .. Len(queue[u]) : queue'[u][i] = queue[u][j]
<1>1. queue \in [Threads -> Seq(Handlers)] /\ queue[t] \in Seq(Handlers)
  BY DEF Typed
<1>2. /\ Tail(queue[t]) \in Seq(Handlers) /\ Len(Tail(queue[t])) = Len(queue[t]) - 1
      /\ Len(queue[t]) \in Nat \ {0}
      /\ Head(queue[t]) = queue[t][1] /\ Head(queue[t]) \in Handlers
      /\ \A i \in 1 .. Len(queue[t]) - 1 : Tail(queue[t])[i] = queue[t][i + 1]
  BY <1>1, TailFacts
<1>3. queue' = [queue EXCEPT ![t] = Tail(queue[t])]
  OBVIOUS
<1>4. queue' \in [Threads -> Seq(Handlers)]
  BY <1>1, <1>2, <1>3
<1>5. queue'[t] = Tail(queue[t]) /\ \A u \in Threads : u # t => queue'[u] = queue[u]
  BY <1>1, <1>3
<1>6. ASSUME NEW u \in Threads, NEW i \in 1 .. Len(queue'[u])
      PROVE  \E j \in 1 .. Len(queue[u]) : queue'[u][i] = queue[u][j]
  <2>1. CASE u = t
    <3>1. i \in 1 .. Len(queue[t]) - 1 /\ queue'[u][i] = Tail(queue[t])[i]
      BY <1>2, <1>5, <2>1
    <3>2. i + 1 \in 1 .. Len(queue[t])
      BY <1>2, <3>1
    <3>3. queue'[u][i] = queue[t][i + 1]
      BY <1>2, <3>1
    <3> QED BY <2>1, <3>2, <3>3
  <2>2. CASE u # t
    BY <1>5, <2>2
  <2> QED BY <2>1, <2>2
<1> QED BY <1>2, <1>4, <1>6

LEMMA MainCoreInv == CoreInv /\ (Start \/ PostHandler \/ Stop \/ MainStops) => CoreInv'
<1> SUFFICES ASSUME CoreInv, Start \/ PostHandler \/ Stop \/ MainStops PROVE CoreInv'
  OBVIOUS
<1> USE ThreadFacts DEF CoreInv
<1>1. CASE Start
  <2>1. /\ state' \in [Threads -> {"new", "running", "joined"}]
        /\ \A t \in Threads : state'[t] = state[t] \/ state'[t] = "running"
    BY <1>1 DEF Start, Typed
  <2>a. UNCHANGED <<queue, handler, name, held, namedThread, posts>> /\ stage' = 1
    BY <1>1 DEF Start
  <2>2. Typed'
    BY <2>1, <2>a DEF Typed
  <2>3. Placed'
    BY <1>1, <2>1 DEF Start, Placed
  <2>4. Named' = Named /\ Named \subseteq Threads
    BY <1>1 DEF Start, Named, Typed
  <2>5. NamedOld'
    BY <2>1, <2>4 DEF NamedOld
  <2> QED BY <1>1, <2>2, <2>3, <2>5 DEF Start, OnlyFinders
<1>2. CASE PostHandler
  <2>1. PICK t \in Finders, h \in Handlers : queue' = [queue EXCEPT ![t] = Append(@, h)]
    BY <1>2 DEF PostHandler, Finders, Handlers
  <2>2. handler' = handler /\ t \in Threads
    BY <1>2 DEF PostHandler, Finders
  <2>3. queue' \in [Threads -> Seq(Handlers)] /\ OnlyFinders'
    BY <2>1, <2>2, PostFacts
  <2> QED BY <1>2, <2>3 DEF PostHandler, Typed, Placed, NamedOld, Named
<1>3. CASE Stop
  BY <1>3 DEF Stop, Typed, Placed, NamedOld, Named, OnlyFinders
<1>4. CASE StopThread
  BY <1>4 DEF StopThread, Typed, Placed, NamedOld, Named, OnlyFinders
<1>5. CASE Join
  <2>1. PICK t \in StopOrder[stage - 1] :
           /\ halted[t] /\ state[t] = "running" /\ handler[t] = "idle"
           /\ state' = [state EXCEPT ![t] = "joined"]
    BY <1>5 DEF Join
  <2>2. /\ state' \in [Threads -> {"new", "running", "joined"}]
        /\ \A u \in Threads : state'[u] = state[u] \/ (state'[u] = "joined" /\ handler[u] = "idle")
    BY <2>1 DEF Typed
  <2>3. Typed'
    BY <1>5, <2>2 DEF Join, Typed
  <2>4. Placed'
    BY <1>5, <2>2 DEF Join, Placed
  <2>5. Named' = Named /\ Named \subseteq Threads
    BY <1>5 DEF Join, Named, Typed
  <2>6. NamedOld'
    BY <2>2, <2>5 DEF NamedOld
  <2> QED BY <1>5, <2>3, <2>4, <2>6 DEF Join, OnlyFinders
<1>6. CASE NextStage
  BY <1>6 DEF NextStage, InStop, Typed, Placed, NamedOld, Named, OnlyFinders
<1> QED BY <1>1, <1>2, <1>3, <1>4, <1>5, <1>6 DEF MainStops

\* A new label for the handler of one thread.
LEMMA GotoFacts ==
    ASSUME Typed, NEW t \in Threads, NEW l \in Labels, Goto(t, l)
    PROVE  /\ handler' \in [Threads -> Labels] /\ handler'[t] = l
           /\ \A u \in Threads : u # t => handler'[u] = handler[u]
BY DEF Typed, Goto

LEMMA LabelFacts == {"idle", "task", "find", "create", "use", "release", "join"} = Labels
BY DEF Labels

LEMMA ThreadCoreInv == ASSUME CoreInv, NEW t \in Threads, ThreadStep(t) PROVE CoreInv'
<1> USE ThreadFacts, LabelFacts DEF CoreInv
<1>t. Named \subseteq Threads /\ handler[t] \in Labels
  BY DEF Named, Typed
<1>1. CASE Dispatch(t)
  <2>1. /\ UNCHANGED <<state, held, namedThread, stage, posts>> /\ queue[t] # <<>>
        /\ queue' = [queue EXCEPT ![t] = Tail(@)] /\ state[t] = "running" /\ handler[t] = "idle"
        /\ \/ handler' = handler /\ name' = name
           \/ Goto(t, "task") /\ name' = name
           \/ /\ Head(queue[t]).op = "find" /\ Goto(t, "find")
              /\ name' = [name EXCEPT ![t] = Head(queue[t]).name]
    BY <1>1 DEF Dispatch
  <2>2. /\ queue' \in [Threads -> Seq(Handlers)] /\ Head(queue[t]) \in Handlers
        /\ Head(queue[t]) = queue[t][1] /\ 1 \in 1 .. Len(queue[t])
        /\ \A u \in Threads : \A i \in 1 .. Len(queue'[u]) :
              \E j \in 1 .. Len(queue[u]) : queue'[u][i] = queue[u][j]
    BY <2>1, TakeFacts
  <2>3. Head(queue[t]).op = "find" => Head(queue[t]).name \in Names /\ t \in Finders
    BY <2>2, HandlerFacts DEF OnlyFinders
  <2>4. PICK l \in {"idle", "task", "find"} :
           /\ handler' \in [Threads -> Labels] /\ handler'[t] = l
           /\ \A u \in Threads : u # t => handler'[u] = handler[u]
           /\ name' \in [Threads -> Names \cup {NoName}]
           /\ \A u \in Threads : u # t => name'[u] = name[u]
           /\ l = "find" => t \in Finders /\ name'[t] \in Names
    <3>1. CASE handler' = handler /\ name' = name
      BY <2>1, <3>1 DEF Typed
    <3>2. CASE Goto(t, "task") /\ name' = name
      BY <3>2, GotoFacts DEF Typed
    <3>3. CASE /\ Head(queue[t]).op = "find" /\ Goto(t, "find")
               /\ name' = [name EXCEPT ![t] = Head(queue[t]).name]
      BY <2>3, <3>3, GotoFacts DEF Typed
    <3> QED BY <2>1, <3>1, <3>2, <3>3
  <2>5. Typed'
    BY <2>1, <2>2, <2>4 DEF Typed
  <2>6. Placed'
    BY <2>1, <2>4 DEF Placed
  <2>7. NamedOld'
    BY <2>1 DEF NamedOld, Named
  <2>8. OnlyFinders'
    <3> SUFFICES ASSUME NEW u \in Threads \ Finders
                 PROVE  /\ handler'[u] \in {"idle", "task"}
                        /\ \A i \in 1 .. Len(queue'[u]) : queue'[u][i].op # "find"
      BY Zenon DEF OnlyFinders
    <3>1. handler'[u] \in {"idle", "task"}
      BY <2>4 DEF OnlyFinders
    <3>2. ASSUME NEW i \in 1 .. Len(queue'[u]) PROVE queue'[u][i].op # "find"
      <4>1. PICK j \in 1 .. Len(queue[u]) : queue'[u][i] = queue[u][j]
        BY <2>2, <3>2
      <4>2. queue[u][j].op # "find"
        BY <4>1 DEF OnlyFinders
      <4> QED BY <4>1, <4>2
    <3> QED BY <3>1, <3>2
  <2> QED BY <2>5, <2>6, <2>7, <2>8
<1>2. CASE InTask(t)
  <2>1. /\ UNCHANGED <<state, queue, name, held, namedThread, stage, posts>> /\ handler[t] = "task"
        /\ handler' = handler \/ Goto(t, "idle")
    BY <1>2 DEF InTask
  <2>2. /\ handler' \in [Threads -> Labels] /\ handler'[t] \in {"idle", "task"}
        /\ \A u \in Threads : u # t => handler'[u] = handler[u]
    BY <2>1, GotoFacts DEF Typed
  <2>3. Typed' /\ Placed' /\ NamedOld' /\ OnlyFinders'
    BY <2>1, <2>2 DEF Typed, Placed, NamedOld, Named, OnlyFinders
  <2> QED BY <2>3
<1>3. CASE GetThreadByName(t)
  <2>1. /\ UNCHANGED <<state, queue, namedThread, stage, posts>> /\ handler[t] = "find"
        /\ name[t] \in Names /\ t \in Finders /\ state[t] = "running" /\ held[t] = NoThread
    BY <1>3 DEF GetThreadByName, Placed, OnlyFinders
  <2>2. CASE namedThread[name[t]] # NoThread
    <3>1. /\ held' = [held EXCEPT ![t] = namedThread[name[t]]] /\ name' = [name EXCEPT ![t] = NoName]
          /\ Goto(t, "use")
      BY <1>3, <2>2 DEF GetThreadByName
    <3>2. namedThread[name[t]] \in Threads
      BY <2>1, <2>2 DEF Typed
    <3>3. /\ handler' \in [Threads -> Labels] /\ handler'[t] = "use"
          /\ \A u \in Threads : u # t => handler'[u] = handler[u]
      BY <3>1, GotoFacts
    <3>4. Typed'
      BY <2>1, <3>1, <3>2, <3>3 DEF Typed
    <3>5. held'[t] # NoThread /\ \A u \in Threads : u # t => held'[u] = held[u] /\ name'[u] = name[u]
      BY <3>1, <3>2 DEF Typed
    <3>6. Placed'
      BY <2>1, <3>3, <3>5 DEF Placed
    <3> QED BY <2>1, <3>3, <3>4, <3>6 DEF NamedOld, Named, OnlyFinders
  <2>3. CASE namedThread[name[t]] = NoThread
    <3>1. held' = held /\ name' = name /\ Goto(t, "create")
      BY <1>3, <2>3 DEF GetThreadByName
    <3>2. /\ handler' \in [Threads -> Labels] /\ handler'[t] = "create"
          /\ \A u \in Threads : u # t => handler'[u] = handler[u]
      BY <3>1, GotoFacts
    <3>3. Typed' /\ Placed'
      BY <2>1, <3>1, <3>2 DEF Typed, Placed
    <3> QED BY <2>1, <3>2, <3>3 DEF NamedOld, Named, OnlyFinders
  <2> QED BY <2>2, <2>3
<1>4. CASE CreateNamedThread(t)
  <2>1. /\ UNCHANGED <<queue, stage, posts>> /\ handler[t] = "create"
        /\ name[t] \in Names /\ t \in Finders /\ state[t] = "running" /\ held[t] = NoThread
        /\ name' = [name EXCEPT ![t] = NoName] /\ Goto(t, "use")
    BY <1>4 DEF CreateNamedThread, Placed, OnlyFinders
  <2>2. PICK new \in Threads :
          /\ state[new] = "new"
          /\ state' = [state EXCEPT ![new] = "running"]
          /\ held' = [held EXCEPT ![t] = new]
          /\ namedThread' = IF namedThread[name[t]] # NoThread THEN namedThread
                            ELSE [namedThread EXCEPT ![name[t]] = new]
    BY <1>4 DEF CreateNamedThread
  <2>3. /\ handler' \in [Threads -> Labels] /\ handler'[t] = "use"
        /\ \A u \in Threads : u # t => handler'[u] = handler[u]
    BY <2>1, GotoFacts
  <2>4. /\ namedThread' \in [Names -> Threads \cup {NoThread}] /\ Named' \subseteq Named \cup {new}
    BY <2>1, <2>2 DEF Typed, Named
  <2>5. Typed'
    BY <2>1, <2>2, <2>3, <2>4 DEF Typed
  <2>6. /\ held'[t] # NoThread /\ \A u \in Threads : u # t => held'[u] = held[u] /\ name'[u] = name[u]
        /\ state'[new] = "running" /\ \A u \in Threads : state'[u] = state[u] \/ state'[u] = "running"
    BY <2>1, <2>2 DEF Typed
  <2>7. Placed'
    BY <2>1, <2>3, <2>6 DEF Placed
  <2>8. NamedOld'
    BY <1>t, <2>4, <2>6 DEF NamedOld
  <2> QED BY <2>1, <2>3, <2>5, <2>7, <2>8 DEF OnlyFinders
<1>5. CASE UseThread(t)
  <2>1. /\ UNCHANGED <<state, name, held, namedThread, stage, posts>> /\ handler[t] = "use"
        /\ t \in Finders /\ state[t] = "running" /\ held[t] \in Threads /\ Goto(t, "release")
    BY <1>5 DEF UseThread, Placed, OnlyFinders, Typed
  <2>2. PICK op \in {"plain", "task"} : queue' = [queue EXCEPT ![held[t]] = Append(@, [op |-> op])]
    BY <1>5 DEF UseThread
  <2>3. /\ handler' \in [Threads -> Labels] /\ handler'[t] = "release"
        /\ \A u \in Threads : u # t => handler'[u] = handler[u]
    BY <2>1, GotoFacts
  <2>4. [op |-> op] \in Handlers /\ [op |-> op].op # "find"
    BY HandlerFacts
  <2>5. queue' \in [Threads -> Seq(Handlers)]
    BY <2>1, <2>2, <2>4, PostFacts
  <2>6. ASSUME NEW u \in Threads \ Finders, NEW i \in 1 .. Len(queue'[u]) PROVE queue'[u][i].op # "find"
    <3>1. queue[held[t]] \in Seq(Handlers) /\ queue \in [Threads -> Seq(Handlers)]
      BY <2>1 DEF Typed
    <3>2. CASE u = held[t]
      <4>1. queue'[u] = Append(queue[u], [op |-> op])
        BY <2>1, <2>2, <3>1, <3>2
      <4>2. /\ Len(queue'[u]) = Len(queue[u]) + 1 /\ Len(queue[u]) \in Nat
            /\ queue'[u][Len(queue[u]) + 1] = [op |-> op]
            /\ \A j \in 1 .. Len(queue[u]) : queue'[u][j] = queue[u][j]
        BY <2>4, <3>1, <3>2, <4>1, AppendFacts
      <4>3. i \in 1 .. Len(queue[u]) \/ i = Len(queue[u]) + 1
        BY <2>6, <4>2
      <4>4. ASSUME i \in 1 .. Len(queue[u]) PROVE queue'[u][i].op # "find"
        BY <4>2, <4>4 DEF OnlyFinders
      <4>5. ASSUME i = Len(queue[u]) + 1 PROVE queue'[u][i].op # "find"
        BY <2>4, <4>2, <4>5
      <4> QED BY <4>3, <4>4, <4>5
    <3>3. CASE u # held[t]
      <4>1. queue'[u] = queue[u]
        BY <2>2, <3>1, <3>3
      <4> QED BY <2>6, <4>1 DEF OnlyFinders
    <3> QED BY <3>2, <3>3
  <2>7. Typed' /\ Placed'
    BY <2>1, <2>3, <2>5 DEF Typed, Placed
  <2> QED BY <2>1, <2>3, <2>6, <2>7 DEF NamedOld, Named, OnlyFinders
<1>6. CASE Release(t)
  <2>1. /\ UNCHANGED <<state, queue, name, namedThread, stage, posts>> /\ handler[t] = "release"
        /\ t \in Finders /\ state[t] = "running" /\ held[t] \in Threads
        /\ \/ held' = [held EXCEPT ![t] = NoThread] /\ Goto(t, "idle")
           \/ held' = held /\ Goto(t, "join")
    BY <1>6 DEF Release, Placed, OnlyFinders, Typed
  <2>2. /\ handler' \in [Threads -> Labels] /\ held' \in [Threads -> Threads \cup {NoThread}]
        /\ \A u \in Threads : u # t => handler'[u] = handler[u] /\ held'[u] = held[u]
        /\ (handler'[t] = "idle" /\ held'[t] = NoThread) \/ (handler'[t] = "join" /\ held'[t] = held[t])
    BY <2>1, GotoFacts DEF Typed
  <2>3. Typed' /\ Placed'
    BY <2>1, <2>2 DEF Typed, Placed
  <2> QED BY <2>1, <2>2, <2>3 DEF NamedOld, Named, OnlyFinders
<1>7. CASE JoinOrphan(t)
  <2>1. /\ UNCHANGED <<queue, name, namedThread, stage, posts>> /\ handler[t] = "join"
        /\ t \in Finders /\ held[t] \in Threads /\ handler[held[t]] = "idle"
        /\ state' = [state EXCEPT ![held[t]] = "joined"]
        /\ held' = [held EXCEPT ![t] = NoThread] /\ Goto(t, "idle")
    BY <1>7 DEF JoinOrphan, Placed, OnlyFinders, Typed
  <2>2. /\ handler' \in [Threads -> Labels] /\ held' \in [Threads -> Threads \cup {NoThread}]
        /\ state' \in [Threads -> {"new", "running", "joined"}]
        /\ \A u \in Threads : u # t => handler'[u] = handler[u] /\ held'[u] = held[u]
        /\ handler'[t] = "idle" /\ held'[t] = NoThread
        /\ \A u \in Threads : state'[u] = state[u] \/ (handler[u] = "idle" /\ state'[u] = "joined")
    BY <2>1, GotoFacts DEF Typed
  <2>3. Typed' /\ Placed'
    BY <2>1, <2>2 DEF Typed, Placed
  <2>4. NamedOld'
    BY <1>t, <2>1, <2>2 DEF NamedOld, Named
  <2> QED BY <2>1, <2>2, <2>3, <2>4 DEF OnlyFinders
<1> QED BY <1>1, <1>2, <1>3, <1>4, <1>5, <1>6, <1>7, Zenon DEF ThreadStep

LEMMA InitCoreInv == Init => CoreInv
<1> SUFFICES ASSUME Init PROVE CoreInv
  OBVIOUS
<1>1. Typed
  BY DEF Init, Typed, Labels
<1>2. \A t \in Threads : queue[t] = <<>> /\ handler[t] = "idle" /\ held[t] = NoThread
  BY DEF Init
<1>3. Placed /\ OnlyFinders
  BY <1>2 DEF Placed, OnlyFinders
<1>4. Named = {}
  BY DEF Init, Named
<1> QED BY <1>1, <1>3, <1>4 DEF CoreInv, NamedOld

LEMMA NextCoreInv == CoreInv /\ [Next]_vars => CoreInv'
<1> SUFFICES ASSUME CoreInv, [Next]_vars PROVE CoreInv'
  OBVIOUS
<1>1. CASE UNCHANGED coreVars
  BY <1>1 DEF coreVars, CoreInv, Typed, Placed, NamedOld, Named, OnlyFinders
<1> QED BY <1>1, MainCoreInv, ThreadCoreInv, Zenon DEF Next, TaskStep, TaskSelfPost, vars

LEMMA InitFlags == Init => Flags
BY Zenon DEF Init, Flags

\* The flags change one at a time, in four actions.
LEMMA NextFlags == CoreInv /\ Flags /\ [Next]_vars => Flags'
<1> SUFFICES ASSUME CoreInv, Flags, [Next]_vars PROVE Flags'
  OBVIOUS
<1>1. ASSUME UNCHANGED <<halted, overlapped, dropped>> PROVE Flags'
  BY <1>1, Zenon DEF Flags
<1>2. ASSUME NEW t \in Threads, halted' = [halted EXCEPT ![t] = TRUE] PROVE halted' \in [Threads -> BOOLEAN]
  BY <1>2 DEF Flags
<1>3. CASE Start \/ PostHandler \/ Stop \/ Join \/ NextStage
  BY <1>1, <1>3, Zenon DEF Start, PostHandler, Stop, Join, NextStage
<1>4. CASE StopThread
  <2>1. StopOrder[stage - 1] \subseteq Threads
    <3>1. stage - 1 \in 1 .. 3
      BY <1>4 DEF StopThread, InStop
    <3> QED BY <3>1, ThreadFacts DEF StopOrder, Named, CoreInv, Typed
  <2> QED BY <1>2, <1>4, <2>1, Zenon DEF StopThread, Flags
<1>5. ASSUME NEW t \in Threads, ThreadStep(t) PROVE Flags'
  <2>1. CASE Dispatch(t) \/ InTask(t) \/ CreateNamedThread(t) \/ UseThread(t)
    BY <1>1, <2>1, Zenon DEF Dispatch, InTask, CreateNamedThread, UseThread
  <2>2. CASE GetThreadByName(t)
    BY <2>2, Zenon DEF GetThreadByName, Flags
  <2>3. CASE Release(t)
    <3>1. held[t] \in Threads
      BY <2>3 DEF Release, CoreInv, Placed, Typed
    <3> QED BY <1>2, <2>3, <3>1, Zenon DEF Release, Flags
  <2>4. CASE JoinOrphan(t)
    BY <2>4, Zenon DEF JoinOrphan, Flags
  <2> QED BY <1>5, <2>1, <2>2, <2>3, <2>4, Zenon DEF ThreadStep
<1>6. CASE TaskStep \/ TaskSelfPost \/ UNCHANGED vars
  BY <1>1, <1>6, Zenon DEF TaskStep, TaskSelfPost, vars, coreVars
<1> QED BY <1>3, <1>4, <1>5, <1>6, Zenon DEF Next, MainStops

\* The threads of the core and their handlers: only a running thread is inside a
\* handler, a handler holds a ThreadPtr exactly between getting and releasing it,
\* and no handler outside the net and the logic thread looks for one.
THEOREM CoreInvariance == Spec => [](CoreInv /\ Flags)
BY InitCoreInv, InitFlags, NextCoreInv, NextFlags, PTL DEF Spec

\* No thread runs a handler before Thread::start or after it was joined, and no
\* entry of _namedThread is a thread that was not started.
THEOREM TypeCorrect == Spec => []TypeOK
<1>1. CoreInv /\ Flags /\ TaskInv => TypeOK
  <2> SUFFICES ASSUME CoreInv, Flags, TaskInv PROVE TypeOK
    OBVIOUS
  <2>1. TT!TaskTypeOK
    BY DEF TaskInv, TaskTyped, TT!TaskTypeOK, Workers
  <2>2. /\ \A t \in Threads : handler[t] # "idle" => state[t] = "running"
        /\ \A t \in Named : state[t] # "new"
    BY DEF CoreInv, Placed, NamedOld
  <2> QED BY <2>1, <2>2, Zenon DEF CoreInv, Flags, Typed, TypeOK
<1> QED BY <1>1, CoreInvariance, TaskInvariance, PTL

-----------------------------------------------------------------------------
(* The race for a name.  As long as no two handlers were creating the same   *)
(* name at once, every ThreadPtr a handler holds is also in _namedThread, so *)
(* that no handler destroys a Thread.                                        *)

Clean ==
    /\ \A t, u \in Threads : handler[t] = "create" /\ handler[u] = "create" /\ t # u => name[t] # name[u]
    /\ \A t \in Threads : handler[t] = "create" => namedThread[name[t]] = NoThread
    /\ \A t \in Threads : held[t] # NoThread => held[t] \in Named
    /\ \A t \in Threads : handler[t] # "join"

Race == ~overlapped => Clean /\ ~dropped

LEMMA InitRace == Init => Race
<1> SUFFICES ASSUME Init PROVE Race
  OBVIOUS
<1>1. Clean
  BY DEF Init, Clean
<1>2. ~dropped
  BY Zenon DEF Init
<1> QED BY <1>1, <1>2, Zenon DEF Race

LEMMA NextRace == CoreInv /\ Race /\ [Next]_vars => Race'
<1> SUFFICES ASSUME CoreInv, Race, [Next]_vars PROVE Race'
  OBVIOUS
<1> USE ThreadFacts, LabelFacts
<1>1. ASSUME UNCHANGED <<handler, name, held, namedThread, overlapped, dropped>> PROVE Race'
  <2>1. Clean' <=> Clean
    BY <1>1 DEF Clean, Named
  <2> QED BY <1>1, <2>1, Zenon DEF Race
<1>2. ASSUME Clean => Clean', UNCHANGED <<overlapped, dropped>> PROVE Race'
  BY <1>2, Zenon DEF Race
<1>3. CASE Start \/ PostHandler \/ Stop \/ MainStops
  BY <1>1, <1>3, Zenon DEF Start, PostHandler, Stop, MainStops, StopThread, Join, NextStage
<1>4. ASSUME NEW t \in Threads, ThreadStep(t) PROVE Race'
  <2>1. CASE Dispatch(t)
    <3>1. /\ UNCHANGED <<held, namedThread>>
          /\ handler' = handler \/ Goto(t, "task") \/ Goto(t, "find")
          /\ name' = name \/ \E n : name' = [name EXCEPT ![t] = n]
          /\ handler[t] = "idle"
      BY <2>1 DEF Dispatch
    <3>2. /\ handler'[t] \in {"idle", "task", "find"}
          /\ \A u \in Threads : u # t => handler'[u] = handler[u] /\ name'[u] = name[u]
      BY <3>1, GotoFacts DEF CoreInv, Typed
    <3>3. Clean => Clean'
      BY <3>1, <3>2 DEF Clean, Named
    <3>4. UNCHANGED <<overlapped, dropped>>
      BY <2>1, Zenon DEF Dispatch
    <3> QED BY <1>2, <3>3, <3>4
  <2>2. CASE InTask(t)
    <3>1. /\ UNCHANGED <<held, namedThread, name>>
          /\ handler' = handler \/ Goto(t, "idle")
      BY <2>2 DEF InTask
    <3>2. \A u \in Threads : handler'[u] = handler[u] \/ handler'[u] = "idle"
      BY <3>1, GotoFacts DEF CoreInv, Typed
    <3>3. Clean => Clean'
      BY <3>1, <3>2 DEF Clean, Named
    <3>4. UNCHANGED <<overlapped, dropped>>
      BY <2>2, Zenon DEF InTask
    <3> QED BY <1>2, <3>3, <3>4
  <2>3. CASE GetThreadByName(t)
    <3>1. namedThread' = namedThread /\ handler[t] = "find" /\ name[t] \in Names
      BY <2>3 DEF GetThreadByName, CoreInv, Placed
    <3>2. CASE namedThread[name[t]] # NoThread
      <4>1. /\ held' = [held EXCEPT ![t] = namedThread[name[t]]]
            /\ name' = [name EXCEPT ![t] = NoName] /\ Goto(t, "use")
        BY <2>3, <3>2 DEF GetThreadByName
      <4>2. /\ handler'[t] = "use" /\ held'[t] = namedThread[name[t]]
            /\ \A u \in Threads : u # t => handler'[u] = handler[u] /\ name'[u] = name[u] /\ held'[u] = held[u]
        BY <4>1, GotoFacts DEF CoreInv, Typed
      <4>3. Clean => Clean'
        BY <3>1, <3>2, <4>2 DEF Clean, Named
      <4>4. UNCHANGED <<overlapped, dropped>>
        BY <2>3, <3>2, Zenon DEF GetThreadByName
      <4> QED BY <1>2, <4>3, <4>4
    <3>3. CASE namedThread[name[t]] = NoThread
      <4>1. held' = held /\ name' = name /\ Goto(t, "create")
        BY <2>3, <3>3 DEF GetThreadByName
      <4>2. /\ dropped' = dropped
            /\ ~overlapped' => /\ ~overlapped
                               /\ \A u \in Threads \ {t} : ~(handler[u] = "create" /\ name[u] = name[t])
        BY <2>3, <3>3, Zenon DEF GetThreadByName
      <4>3. /\ handler'[t] = "create"
            /\ \A u \in Threads : u # t => handler'[u] = handler[u]
        BY <4>1, GotoFacts DEF CoreInv
      <4>4. ASSUME Clean, \A u \in Threads \ {t} : ~(handler[u] = "create" /\ name[u] = name[t]) PROVE Clean'
        BY <3>1, <3>3, <4>1, <4>3, <4>4 DEF Clean, Named
      <4> QED BY <4>2, <4>4, Zenon DEF Race
    <3> QED BY <3>2, <3>3
  <2>4. CASE CreateNamedThread(t)
    <3>1. /\ handler[t] = "create" /\ name[t] \in Names
          /\ name' = [name EXCEPT ![t] = NoName] /\ Goto(t, "use")
      BY <2>4 DEF CreateNamedThread, CoreInv, Placed
    <3>2. PICK new \in Threads :
             /\ held' = [held EXCEPT ![t] = new]
             /\ namedThread' = IF namedThread[name[t]] # NoThread THEN namedThread
                               ELSE [namedThread EXCEPT ![name[t]] = new]
      BY <2>4 DEF CreateNamedThread
    <3>3. /\ handler'[t] = "use" /\ held'[t] = new
          /\ \A u \in Threads : u # t => handler'[u] = handler[u] /\ name'[u] = name[u] /\ held'[u] = held[u]
      BY <3>1, <3>2, GotoFacts DEF CoreInv, Typed
    <3>4. ASSUME Clean PROVE Clean'
      <4>1. namedThread' = [namedThread EXCEPT ![name[t]] = new]
        BY <3>1, <3>2, <3>4 DEF Clean
      <4>2. /\ namedThread'[name[t]] = new /\ namedThread[name[t]] = NoThread
            /\ \A n \in Names : n # name[t] => namedThread'[n] = namedThread[n]
        BY <3>1, <3>4, <4>1 DEF CoreInv, Typed, Clean
      <4>3. new \in Named' /\ Named \subseteq Named'
        BY <3>1, <4>2 DEF Named
      <4>4. ASSUME NEW u \in Threads, handler'[u] = "create"
            PROVE  u # t /\ handler[u] = "create" /\ name[u] \in Names /\ name[u] # name[t] /\ name'[u] = name[u]
        BY <3>1, <3>3, <3>4, <4>4 DEF Clean, CoreInv, Placed
      <4>5. \A u \in Threads : handler'[u] = "create" => namedThread'[name'[u]] = NoThread
        BY <3>4, <4>2, <4>4 DEF Clean
      <4>6. \A u, v \in Threads : handler'[u] = "create" /\ handler'[v] = "create" /\ u # v => name'[u] # name'[v]
        BY <3>4, <4>4 DEF Clean
      <4>7. \A u \in Threads : (held'[u] # NoThread => held'[u] \in Named') /\ handler'[u] # "join"
        BY <3>3, <3>4, <4>3 DEF Clean
      <4> QED BY <4>5, <4>6, <4>7 DEF Clean
    <3>5. UNCHANGED <<overlapped, dropped>>
      BY <2>4, Zenon DEF CreateNamedThread
    <3> QED BY <1>2, <3>4, <3>5
  <2>5. CASE UseThread(t)
    <3>1. UNCHANGED <<held, namedThread, name>> /\ Goto(t, "release")
      BY <2>5 DEF UseThread
    <3>2. \A u \in Threads : handler'[u] = handler[u] \/ handler'[u] = "release"
      BY <3>1, GotoFacts DEF CoreInv
    <3>3. Clean => Clean'
      BY <3>1, <3>2 DEF Clean, Named
    <3>4. UNCHANGED <<overlapped, dropped>>
      BY <2>5, Zenon DEF UseThread
    <3> QED BY <1>2, <3>3, <3>4
  <2>6. CASE Release(t)
    <3>1. ASSUME Clean PROVE Clean'
      <4>1. held[t] \in Named
        BY <2>6, <3>1 DEF Release, CoreInv, Placed, Clean
      <4>2. /\ UNCHANGED <<namedThread, name>> /\ Goto(t, "idle")
            /\ held' = [held EXCEPT ![t] = NoThread]
        BY <2>6, <4>1 DEF Release
      <4>3. \A u \in Threads : /\ handler'[u] = handler[u] \/ handler'[u] = "idle"
                               /\ held'[u] = held[u] \/ held'[u] = NoThread
        BY <4>2, GotoFacts DEF CoreInv, Typed
      <4> QED BY <3>1, <4>2, <4>3 DEF Clean, Named
    <3>2. UNCHANGED <<overlapped, dropped>>
      BY <2>6, Zenon DEF Release
    <3> QED BY <1>2, <3>1, <3>2
  <2>7. CASE JoinOrphan(t)
    <3>1. handler[t] = "join"
      BY <2>7 DEF JoinOrphan
    <3>2. overlapped' = overlapped
      BY <2>7, Zenon DEF JoinOrphan
    <3> QED BY <3>1, <3>2, Zenon DEF Race, Clean
  <2> QED BY <1>4, <2>1, <2>2, <2>3, <2>4, <2>5, <2>6, <2>7, Zenon DEF ThreadStep
<1>5. CASE TaskStep \/ TaskSelfPost \/ UNCHANGED vars
  BY <1>1, <1>5, Zenon DEF TaskStep, TaskSelfPost, vars, coreVars
<1> QED BY <1>3, <1>4, <1>5, Zenon DEF Next

\* createThreadByName: a Thread goes with work in its queue only when two handlers
\* were creating the same name at once, for any number of names and handlers.
THEOREM WorkKept == Spec => []LostOnlyInRace
<1>1. Race => LostOnlyInRace
  BY Zenon DEF Race, LostOnlyInRace
<1> QED BY <1>1, CoreInvariance, InitRace, NextRace, PTL DEF Spec

-----------------------------------------------------------------------------
(* stop.  A thread that was created and runs is in _namedThread or held by a *)
(* handler, and only the net and the logic thread hold any: once both are    *)
(* joined, what is left is in _namedThread, and nothing is added there.      *)

Kept ==
    \A t \in Threads \ Finders : state[t] = "running" => t \in Named \/ \E u \in Threads : held[u] = t

Stages ==
    /\ stage >= 3 => state[NetThread] = "joined"
    /\ stage >= 4 => state[LogicThread] = "joined"
    /\ stage = 5 => \A t \in Named : state[t] = "joined"

StopInv == Kept /\ Stages

LEMMA InitStopInv == Init => StopInv
BY DEF Init, StopInv, Kept, Stages

\* What changes neither the states of the threads nor who has them.
LEMMA SameStopInv ==
    ASSUME StopInv, UNCHANGED <<state, held, namedThread, stage>> PROVE StopInv'
BY DEF StopInv, Kept, Stages, Named

LEMMA MainStopInv == CoreInv /\ StopInv /\ (Start \/ PostHandler \/ Stop \/ MainStops) => StopInv'
<1> SUFFICES ASSUME CoreInv, StopInv, Start \/ PostHandler \/ Stop \/ MainStops PROVE StopInv'
  OBVIOUS
<1> USE ThreadFacts DEF CoreInv
<1>t. Named \subseteq Threads /\ stage \in 0 .. 5
  BY DEF Named, Typed
<1>1. CASE Start
  <2>1. /\ UNCHANGED <<held, namedThread>> /\ stage' = 1 /\ Named' = Named
        /\ \A t \in Threads \ Finders : state'[t] = state[t]
    BY <1>1 DEF Start, Typed, Finders, Named
  <2> QED BY <2>1 DEF StopInv, Kept, Stages
<1>2. CASE PostHandler \/ StopThread
  BY <1>2, SameStopInv DEF PostHandler, StopThread
<1>3. CASE Stop
  BY <1>3 DEF Stop, StopInv, Kept, Stages, Named
<1>4. CASE Join
  <2>1. PICK t \in StopOrder[stage - 1] : state' = [state EXCEPT ![t] = "joined"]
    BY <1>4 DEF Join
  <2>2. /\ UNCHANGED <<held, namedThread, stage>> /\ Named' = Named
        /\ \A u \in Threads : state'[u] = state[u] \/ state'[u] = "joined"
    BY <1>4, <2>1 DEF Join, Typed, Named
  <2>3. Kept'
    BY <2>2 DEF StopInv, Kept
  <2>4. Stages'
    BY <1>t, <2>2 DEF StopInv, Stages
  <2> QED BY <2>3, <2>4 DEF StopInv
<1>5. CASE NextStage
  <2>1. /\ UNCHANGED <<state, held, namedThread>> /\ Named' = Named /\ stage' = stage + 1
        /\ stage \in 2 .. 4 /\ \A t \in StopOrder[stage - 1] : state[t] = "joined"
    BY <1>5 DEF NextStage, InStop, Named
  <2>2. /\ stage = 2 => state[NetThread] = "joined"
        /\ stage = 3 => state[LogicThread] = "joined"
        /\ stage = 4 => \A t \in Named : state[t] = "joined"
    BY <2>1 DEF StopOrder
  <2> QED BY <2>1, <2>2 DEF StopInv, Kept, Stages
<1> QED BY <1>1, <1>2, <1>3, <1>4, <1>5 DEF MainStops

LEMMA ThreadStopInv == ASSUME CoreInv, StopInv, NEW t \in Threads, ThreadStep(t) PROVE StopInv'
<1> USE ThreadFacts, LabelFacts DEF CoreInv
<1>t. Named \subseteq Threads /\ stage \in 0 .. 5
  BY DEF Named, Typed
<1>1. CASE Dispatch(t) \/ InTask(t) \/ UseThread(t)
  BY <1>1, SameStopInv DEF Dispatch, InTask, UseThread
<1>2. CASE GetThreadByName(t)
  <2>1. UNCHANGED <<state, namedThread, stage>> /\ handler[t] = "find" /\ held[t] = NoThread
    BY <1>2 DEF GetThreadByName, Placed
  <2>2. \A u \in Threads : held[u] # NoThread => held'[u] = held[u]
    BY <1>2, <2>1 DEF GetThreadByName, Typed
  <2> QED BY <2>1, <2>2 DEF StopInv, Kept, Stages, Named
<1>3. CASE CreateNamedThread(t)
  <2>1. /\ stage' = stage /\ handler[t] = "create" /\ held[t] = NoThread /\ name[t] \in Names
        /\ state[t] = "running" /\ t \in Finders
    BY <1>3 DEF CreateNamedThread, Placed, OnlyFinders
  <2>2. PICK new \in Threads :
           /\ state[new] = "new" /\ state' = [state EXCEPT ![new] = "running"]
           /\ held' = [held EXCEPT ![t] = new]
           /\ namedThread' = IF namedThread[name[t]] # NoThread THEN namedThread
                             ELSE [namedThread EXCEPT ![name[t]] = new]
    BY <1>3 DEF CreateNamedThread
  <2>3. ~(stage >= 4)
    BY <1>t, <2>1 DEF StopInv, Stages, Finders
  <2>4. /\ held'[t] = new /\ \A u \in Threads : u # t => held'[u] = held[u]
        /\ \A u \in Threads : u # new => state'[u] = state[u]
    BY <2>2 DEF Typed
  <2>5. \A n \in Names : namedThread[n] # NoThread => namedThread'[n] = namedThread[n]
    BY <2>1, <2>2 DEF Typed
  <2>6. Named \subseteq Named'
    BY <2>5 DEF Named
  <2>7. Kept'
    BY <2>1, <2>4, <2>6 DEF StopInv, Kept
  <2>8. Stages'
    BY <1>t, <2>1, <2>2, <2>3, <2>4 DEF StopInv, Stages
  <2> QED BY <2>7, <2>8 DEF StopInv
<1>4. CASE Release(t)
  <2>1. /\ UNCHANGED <<state, namedThread, stage>>
        /\ \/ held' = held
           \/ /\ held' = [held EXCEPT ![t] = NoThread]
              /\ held[t] \in Named \/ \E u \in Threads \ {t} : held[u] = held[t]
    BY <1>4 DEF Release
  <2>2. Named' = Named
    BY <2>1 DEF Named
  <2>3. Kept'
    <3>1. CASE held' = held
      BY <2>1, <2>2, <3>1 DEF StopInv, Kept
    <3>2. CASE /\ held' = [held EXCEPT ![t] = NoThread]
               /\ held[t] \in Named \/ \E u \in Threads \ {t} : held[u] = held[t]
      <4>1. \A u \in Threads : u # t => held'[u] = held[u]
        BY <3>2 DEF Typed
      <4>2. SUFFICES ASSUME NEW v \in Threads \ Finders, state[v] = "running", v \notin Named
                     PROVE  \E u \in Threads : held'[u] = v
        BY <2>1, <2>2 DEF Kept
      <4>3. PICK u \in Threads : held[u] = v
        BY <4>2 DEF StopInv, Kept
      <4> QED BY <3>2, <4>1, <4>2, <4>3
    <3> QED BY <2>1, <3>1, <3>2
  <2> QED BY <2>1, <2>2, <2>3 DEF StopInv, Stages
<1>5. CASE JoinOrphan(t)
  <2>1. /\ UNCHANGED <<namedThread, stage>> /\ held[t] \in Threads
        /\ state' = [state EXCEPT ![held[t]] = "joined"]
        /\ held' = [held EXCEPT ![t] = NoThread]
    BY <1>5 DEF JoinOrphan, Placed, Typed
  <2>2. /\ Named' = Named /\ state'[held[t]] = "joined"
        /\ \A u \in Threads : state'[u] = state[u] \/ state'[u] = "joined"
        /\ \A u \in Threads : u # t => held'[u] = held[u]
    BY <2>1 DEF Typed, Named
  <2>3. Kept'
    BY <2>2 DEF StopInv, Kept
  <2>4. Stages'
    BY <1>t, <2>1, <2>2 DEF StopInv, Stages
  <2> QED BY <2>3, <2>4 DEF StopInv
<1> QED BY <1>1, <1>2, <1>3, <1>4, <1>5, Zenon DEF ThreadStep

LEMMA NextStopInv == CoreInv /\ StopInv /\ [Next]_vars => StopInv'
<1> SUFFICES ASSUME CoreInv, StopInv, [Next]_vars PROVE StopInv'
  OBVIOUS
<1>1. CASE UNCHANGED coreVars
  BY <1>1, SameStopInv DEF coreVars
<1> QED BY <1>1, MainStopInv, ThreadStopInv, Zenon DEF Next, TaskStep, TaskSelfPost, vars

\* IoServiceCore::stop: when it returns no thread of the core runs, also none that
\* lost the race for its name, for any number of names and handlers.
THEOREM StopCorrect == Spec => []StopIsFinal
<1>1. CoreInv /\ StopInv => StopIsFinal
  <2> SUFFICES ASSUME CoreInv, StopInv, stage = 5, NEW t \in Threads, state[t] = "running" PROVE FALSE
    BY DEF StopIsFinal
  <2>1. state[NetThread] = "joined" /\ state[LogicThread] = "joined" /\ \A u \in Named : state[u] = "joined"
    BY DEF StopInv, Stages
  <2>2. t \notin Finders /\ t \notin Named
    BY <2>1 DEF Finders
  <2>3. PICK u \in Threads : held[u] = t
    BY <2>2 DEF StopInv, Kept
  <2>4. handler[u] \in {"use", "release", "join"} /\ state[u] = "running"
    BY <2>3, ThreadFacts DEF CoreInv, Placed
  <2>5. u \in Finders
    BY <2>4 DEF CoreInv, OnlyFinders
  <2> QED BY <2>1, <2>4, <2>5 DEF Finders
<1> QED BY <1>1, CoreInvariance, InitStopInv, NextStopInv, PTL DEF Spec
=============================================================================
