-------------------------------- MODULE DBPool --------------------------------
(***************************************************************************)
(* JMEngine::db::DBPool and its users.  The pool is a deque of idle        *)
(* connections under a mutex; a DBHelper takes one when it is constructed  *)
(* and gives it back when it is destroyed.  When the deque is empty the    *)
(* helper connects a new connection, after the mutex was released, and     *)
(* that one joins the pool as well.  Every critical section is one step.   *)
(***************************************************************************)
EXTENDS Integers, Sequences, FiniteSets

CONSTANTS
    Threads,   \* threads that use a DBHelper, one at a time each
    N,         \* connections the pool is created with
    MaxUses    \* bound of the model: DBHelpers constructed

ASSUME DBPoolAssumption ==
    /\ IsFiniteSet(Threads)
    /\ N \in Nat \ {0}      \* init aborts the program for 0
    /\ MaxUses \in Nat

VARIABLES
    connPool,  \* _connPool
    starting,  \* connections init still has to make
    conn,      \* _conn of each thread's DBHelper, NoConn while it has none
    pc,        \* "idle", "connecting" (in _connectHandler) or "using"
    made,      \* connections allocated so far; they are numbered
    deleted,   \* connections deleted again
    leaked,    \* connections dropped without being deleted
    uses       \* DBHelpers constructed so far

vars == <<connPool, starting, conn, pc, made, deleted, leaked, uses>>

NoConn == 0

Init ==
    /\ connPool = <<>> /\ starting = N
    /\ conn = [t \in Threads |-> NoConn]
    /\ pc = [t \in Threads |-> "idle"]
    /\ made = 0 /\ deleted = {} /\ leaked = {} /\ uses = 0

-----------------------------------------------------------------------------
(* Definitions named ..._Variant are plausible mistakes in the definition that *)
(* follows them.  Nothing uses them; each breaks a property that the          *)
(* definition itself keeps.                                                   *)

\* One turn of the loop of init, before anybody else has the pool: a
\* connection whose handler fails is neither kept nor deleted.
InitConn ==
    /\ starting > 0
    /\ starting' = starting - 1
    /\ made' = made + 1
    /\ \/ connPool' = Append(connPool, made') /\ UNCHANGED leaked
       \/ leaked' = leaked \cup {made'} /\ UNCHANGED connPool
    /\ UNCHANGED <<conn, pc, deleted, uses>>

\* A DBHelper is constructed; the pool is ready.
Construct(t) ==
    /\ starting = 0
    /\ pc[t] = "idle"
    /\ uses < MaxUses
    /\ uses' = uses + 1

\* The connection stays in the deque.
TakeIdle_Variant(t) ==
    /\ connPool # <<>>
    /\ conn' = [conn EXCEPT ![t] = Head(connPool)]
    /\ pc' = [pc EXCEPT ![t] = "using"]
    /\ UNCHANGED <<connPool, made>>

\* getConn, the deque is not empty.
TakeIdle(t) ==
    /\ connPool # <<>>
    /\ conn' = [conn EXCEPT ![t] = Head(connPool)]
    /\ connPool' = Tail(connPool)
    /\ pc' = [pc EXCEPT ![t] = "using"]
    /\ UNCHANGED made

\* The deque is not looked at.
NewConn_Variant(t) ==
    /\ made' = made + 1
    /\ conn' = [conn EXCEPT ![t] = made']
    /\ pc' = [pc EXCEPT ![t] = "connecting"]
    /\ UNCHANGED connPool

\* getConn, the deque is empty: the mutex is released and a connection made.
NewConn(t) ==
    /\ connPool = <<>>
    /\ made' = made + 1
    /\ conn' = [conn EXCEPT ![t] = made']
    /\ pc' = [pc EXCEPT ![t] = "connecting"]
    /\ UNCHANGED connPool

GetConn(t) ==
    /\ Construct(t)
    /\ TakeIdle(t) \/ NewConn(t)
    /\ UNCHANGED <<starting, deleted, leaked>>

\* _connectHandler returns, or throws.  After a failure the connection is deleted
\* and the constructor of DBHelper throws, so that no destructor runs; when the
\* handler itself throws nobody deletes the connection.
Connected(t) ==
    /\ pc[t] = "connecting"
    /\ \/ pc' = [pc EXCEPT ![t] = "using"] /\ UNCHANGED <<conn, deleted, leaked>>
       \/ /\ \/ deleted' = deleted \cup {conn[t]} /\ UNCHANGED leaked
             \/ leaked' = leaked \cup {conn[t]} /\ UNCHANGED deleted
          /\ conn' = [conn EXCEPT ![t] = NoConn]
          /\ pc' = [pc EXCEPT ![t] = "idle"]
    /\ UNCHANGED <<connPool, starting, made, uses>>

\* releaseConn of the pool.
PushBack(c) == connPool' = Append(connPool, c)

\* The thread still has the connection it gave back.
ReleaseConn_Keeps_Variant(t) ==
    /\ pc[t] = "using"
    /\ PushBack(conn[t])
    /\ pc' = [pc EXCEPT ![t] = "idle"]
    /\ UNCHANGED <<conn, starting, made, deleted, leaked, uses>>

\* ~DBHelper gives the connection back.
ReleaseConn(t) ==
    /\ pc[t] = "using"
    /\ PushBack(conn[t])
    /\ conn' = [conn EXCEPT ![t] = NoConn]
    /\ pc' = [pc EXCEPT ![t] = "idle"]
    /\ UNCHANGED <<starting, made, deleted, leaked, uses>>

Next == InitConn \/ \E t \in Threads : GetConn(t) \/ Connected(t) \/ ReleaseConn(t)

Spec == Init /\ [][Next]_vars

-----------------------------------------------------------------------------
Idle == {connPool[i] : i \in 1 .. Len(connPool)}
Busy == {conn[t] : t \in {u \in Threads : pc[u] # "idle"}}

\* The types of the variables; a thread has a connection while it has a helper.
TypeOK ==
    /\ connPool \in Seq(1 .. made)
    /\ starting \in 0 .. N
    /\ conn \in [Threads -> 0 .. made]
    /\ pc \in [Threads -> {"idle", "connecting", "using"}]
    /\ made \in Nat /\ uses \in 0 .. MaxUses
    /\ deleted \subseteq 1 .. made /\ leaked \subseteq 1 .. made
    /\ \A t \in Threads : pc[t] = "idle" <=> conn[t] = NoConn

\* A connection has one user: no two helpers hold the same one, none that is
\* held waits in the deque, and none is there twice.
Exclusive ==
    /\ \A t, u \in Threads : conn[t] = conn[u] => t = u \/ conn[t] = NoConn
    /\ \A t \in Threads : conn[t] \notin Idle
    /\ \A i, j \in 1 .. Len(connPool) : connPool[i] = connPool[j] => i = j

\* A connection that was made is idle, in use, deleted, or leaked by a connect
\* that failed, and only one of these: no other is lost and no deleted one is ever handed out.
\* And the pool never grows past what was asked for or, if that is more, the
\* number of threads: a connection is made only when all others are in use.
Accounted ==
    /\ 1 .. made = Idle \cup Busy \cup deleted \cup leaked
    /\ Idle \cap (deleted \cup leaked) = {}
    /\ Busy \cap (deleted \cup leaked) = {}
    /\ \E bound \in {N, Cardinality(Threads)} : Cardinality(Idle \cup Busy) <= bound
=============================================================================
