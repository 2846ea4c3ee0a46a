--------------------------------- MODULE Rpc ----------------------------------
(***************************************************************************)
(* Remote calls: RpcClient::callRpcMethod on several threads, the replies  *)
(* and the timeouts on the client's logic thread, and the server that      *)
(* executes the requests (RpcSessionNetHandler, RpcHandlerInterface).      *)
(* Client and server talk over one TcpSession at a time, which may be lost *)
(* and replaced; the session itself is modelled in TcpSession, ReadBuffer  *)
(* and SessionWrite, and appears here as two FIFO channels.                *)
(***************************************************************************)
EXTENDS Integers, Sequences, FiniteSets

CONSTANTS
    Callers,   \* threads that call callRpcMethod
    Methods,   \* method names that callers use
    MaxCalls,  \* bound of the model: calls per caller
    MaxConns   \* bound of the model: connections

ASSUME RpcAssumption == IsFiniteSet(Callers) /\ MaxCalls \in Nat /\ MaxConns \in Nat

VARIABLES
    ok,        \* isOk() of the client's session
    conn,      \* the number of the current connection
    methodId,  \* _methodId
    cbs,       \* _cbs: the callbacks that wait for a reply
    timers,    \* deadline timers that are armed
    logicq,    \* handlers queued on the client's logic thread
    pc,        \* where each caller is: "idle", "register" or "write"
    call,      \* the call each caller is making
    toServer,  \* requests written and not yet read by the server
    serverq,   \* requests posted to the server's logic thread
    toClient,  \* responses written and not yet read by the client
    handlers,  \* the methods registered at the server
    executed,  \* requests the server executed with a result
    result,    \* what callRpcMethod returned, per call
    outcome    \* the callbacks run, per call: "cb" and "dcb" in order

connVars == <<ok, conn>>
clientVars == <<methodId, cbs, timers, logicq>>
callVars == <<pc, call, result>>
wireVars == <<toServer, serverq, toClient>>
serverVars == <<handlers, executed>>
vars == <<connVars, clientVars, callVars, wireVars, serverVars, outcome>>

\* The three overloads: no callback, a callback, a callback with a deadline.
Kinds == {"oneway", "cb", "timed"}

Calls == Callers \X (1 .. MaxCalls)

Init ==
    /\ ok = FALSE /\ conn = 0
    /\ methodId = 0 /\ cbs = {} /\ timers = {} /\ logicq = <<>>
    /\ pc = [c \in Callers |-> "idle"]
    /\ call = [c \in Callers |-> [no |-> 0]]
    /\ toServer = <<>> /\ serverq = <<>> /\ toClient = <<>>
    /\ handlers = {} /\ executed = {}
    /\ result = [k \in Calls |-> "none"]
    /\ outcome = [k \in Calls |-> <<>>]

Key(c) == <<c, call[c].no>>

\* The overload without callback takes an id and registers nothing.
Registers(kind) == kind # "oneway"

\* RpcCallback arms a timer for the overload with a deadline.
HasDeadline(kind) == kind = "timed"

-----------------------------------------------------------------------------
(* Definitions named ..._Variant are plausible mistakes in the definition that *)
(* follows them.  Nothing uses them; each breaks a property that the          *)
(* definition itself keeps.                                                   *)

(* callRpcMethod, on the thread c. *)

\* The call begins: nothing is done unless the session is connected.
CallRpcMethod(c) ==
    /\ pc[c] = "idle"
    /\ call[c].no < MaxCalls
    /\ \E kind \in Kinds, method \in Methods :
          call' = [call EXCEPT ![c] = [no |-> call[c].no + 1, kind |-> kind,
                                       method |-> method, id |-> 0]]
    /\ IF ok
         THEN pc' = [pc EXCEPT ![c] = "register"] /\ UNCHANGED result
         ELSE result' = [result EXCEPT ![Key(c)'] = "false"] /\ UNCHANGED pc
    /\ UNCHANGED <<connVars, clientVars, wireVars, serverVars, outcome>>

\* The id before the increment.
Register_Old_Variant(c) ==
    LET entry == [id |-> methodId, key |-> Key(c), timed |-> HasDeadline(call[c].kind)]
    IN  /\ pc[c] = "register"
        /\ methodId' = methodId + 1
        /\ call' = [call EXCEPT ![c].id = methodId]
        /\ cbs' = IF ~Registers(call[c].kind) THEN cbs
                  ELSE {e \in cbs : e.id # methodId} \cup {entry}
        /\ timers' = timers \cup (IF entry.timed THEN {entry} ELSE {})
        /\ pc' = [pc EXCEPT ![c] = "write"]
        /\ UNCHANGED <<connVars, logicq, result, wireVars, serverVars, outcome>>

\* A lost increment: two threads get the same id.
Register_Same_Variant(c) ==
    LET id == methodId + 1
        entry == [id |-> id, key |-> Key(c), timed |-> HasDeadline(call[c].kind)]
    IN  /\ pc[c] = "register"
        /\ methodId' \in {methodId, id}
        /\ call' = [call EXCEPT ![c].id = id]
        /\ cbs' = IF ~Registers(call[c].kind) THEN cbs
                  ELSE {e \in cbs : e.id # id} \cup {entry}
        /\ timers' = timers \cup (IF entry.timed THEN {entry} ELSE {})
        /\ pc' = [pc EXCEPT ![c] = "write"]
        /\ UNCHANGED <<connVars, logicq, result, wireVars, serverVars, outcome>>

\* Under _mutex: a new id, and the callback with its timer, if any.
Register(c) ==
    LET id == methodId + 1
        entry == [id |-> id, key |-> Key(c), timed |-> HasDeadline(call[c].kind)]
    IN  /\ pc[c] = "register"
        /\ methodId' = id
        /\ call' = [call EXCEPT ![c].id = id]
        /\ cbs' = IF ~Registers(call[c].kind) THEN cbs
                  ELSE {e \in cbs : e.id # id} \cup {entry}
        /\ timers' = timers \cup (IF entry.timed THEN {entry} ELSE {})
        /\ pc' = [pc EXCEPT ![c] = "write"]
        /\ UNCHANGED <<connVars, logicq, result, wireVars, serverVars, outcome>>

\* writeMessage and the return.  It refuses when the session has gone down or
\* its buffer is full; it returns true and drops the message when the session
\* goes down between its checks.  The callback and the timer stay.
WriteRequest(c) ==
    /\ pc[c] = "write"
    /\ \/ /\ ok
          /\ toServer' = Append(toServer, [id |-> call[c].id, method |-> call[c].method,
                                           key |-> Key(c)])
          /\ result' = [result EXCEPT ![Key(c)] = "true"]
       \/ /\ \E ret \in {"true", "false"} : result' = [result EXCEPT ![Key(c)] = ret]
          /\ UNCHANGED toServer
    /\ pc' = [pc EXCEPT ![c] = "idle"]
    /\ UNCHANGED <<connVars, clientVars, call, serverq, toClient, serverVars, outcome>>

Caller(c) == CallRpcMethod(c) \/ Register(c) \/ WriteRequest(c)

-----------------------------------------------------------------------------
(* The client's net thread and its timers queue work for the logic thread. *)

\* A response is read and sessionReceiveMessage posted.
ReadResponse ==
    /\ toClient # <<>>
    /\ logicq' = Append(logicq, [ev |-> "message", id |-> Head(toClient).id,
                                 key |-> Head(toClient).key])
    /\ toClient' = Tail(toClient)
    /\ UNCHANGED <<connVars, methodId, cbs, timers, callVars, toServer, serverq, serverVars, outcome>>

\* A deadline passes: the handler is queued, and cancel no longer stops it.
TimerExpires ==
    /\ \E t \in timers :
          /\ timers' = timers \ {t}
          /\ logicq' = Append(logicq, [ev |-> "deadline", id |-> t.id, key |-> t.key])
    /\ UNCHANGED <<connVars, methodId, cbs, callVars, wireVars, serverVars, outcome>>

-----------------------------------------------------------------------------
(* The client's logic thread. *)

Ran(key, what) == outcome' = [outcome EXCEPT ![key] = Append(@, what)]

\* The callback registered under the id, if any.
Find(id) == {e \in cbs : e.id = id}

\* sessionReceiveMessage: the callback is taken out of _cbs, its timer is
\* cancelled and it is run.
SessionReceiveMessage ==
    /\ logicq # <<>>
    /\ Head(logicq).ev = "message"
    /\ logicq' = Tail(logicq)
    /\ LET found == Find(Head(logicq).id)
       IN  /\ cbs' = cbs \ found
           /\ timers' = timers \ found
           /\ IF found = {} THEN UNCHANGED outcome
              ELSE \E e \in found : Ran(e.key, [what |-> "cb", of |-> Head(logicq).key])
    /\ UNCHANGED <<connVars, methodId, callVars, wireVars, serverVars>>

\* The callback stays in _cbs.
RpcDeadCallback_Keeps_Variant ==
    /\ logicq # <<>>
    /\ Head(logicq).ev = "deadline"
    /\ logicq' = Tail(logicq)
    /\ Ran(Head(logicq).key, [what |-> "dcb", of |-> Head(logicq).key])
    /\ UNCHANGED <<connVars, methodId, cbs, timers, callVars, wireVars, serverVars>>

\* The deadline handler is not run.
RpcDeadCallback_Silent_Variant ==
    /\ logicq # <<>>
    /\ Head(logicq).ev = "deadline"
    /\ logicq' = Tail(logicq)
    /\ cbs' = cbs \ Find(Head(logicq).id)
    /\ UNCHANGED <<connVars, methodId, timers, callVars, wireVars, serverVars, outcome>>

\* RpcDeadCallback of a timer that expired: removeDeadRPC, then dcb, whether
\* or not the callback was still there.
RpcDeadCallback ==
    /\ logicq # <<>>
    /\ Head(logicq).ev = "deadline"
    /\ logicq' = Tail(logicq)
    /\ cbs' = cbs \ Find(Head(logicq).id)
    /\ Ran(Head(logicq).key, [what |-> "dcb", of |-> Head(logicq).key])
    /\ UNCHANGED <<connVars, methodId, timers, callVars, wireVars, serverVars>>

Logic == SessionReceiveMessage \/ RpcDeadCallback

-----------------------------------------------------------------------------
(* The server. *)

\* regRpcHandler: a method is registered once (twice aborts the program).
RegRpcHandler ==
    /\ \E m \in Methods \ handlers : handlers' = handlers \cup {m}
    /\ UNCHANGED <<connVars, clientVars, callVars, wireVars, executed, outcome>>

\* A request is read and posted to the server's logic thread.
ReadRequest ==
    /\ ok
    /\ toServer # <<>>
    /\ serverq' = Append(serverq, [req |-> Head(toServer), conn |-> conn])
    /\ toServer' = Tail(toServer)
    /\ UNCHANGED <<connVars, clientVars, callVars, toClient, serverVars, outcome>>

\* execRpcHandler: whether there is a result.  There is none for a method that
\* is not registered, and a handler may return none.
ExecRpcHandler(method) == IF method \in handlers THEN BOOLEAN ELSE {FALSE}

\* response: it is lost when the connection it goes to is gone.  (One that the
\* full write buffer of the server refuses is to the client a request without
\* a result.)
Response(req, on) ==
    toClient' = IF ok /\ on = conn THEN Append(toClient, [id |-> req.id, key |-> req.key])
                                   ELSE toClient

\* RpcSessionNetHandler::sessionReceiveMessage
ServerReceiveMessage ==
    /\ serverq # <<>>
    /\ serverq' = Tail(serverq)
    /\ LET req == Head(serverq).req
       IN  \E some \in ExecRpcHandler(req.method) :
              IF some THEN executed' = executed \cup {req.key} /\ Response(req, Head(serverq).conn)
                      ELSE UNCHANGED <<executed, toClient>>
    /\ UNCHANGED <<connVars, clientVars, callVars, toServer, handlers, outcome>>

-----------------------------------------------------------------------------
(* The connection. *)

\* The client connects; what its write buffer still holds goes out on the new
\* connection.
ConnectionUp ==
    /\ ~ok
    /\ conn < MaxConns
    /\ ok' = TRUE
    /\ conn' = conn + 1
    /\ UNCHANGED <<clientVars, callVars, wireVars, serverVars, outcome>>

\* handleRead finds the connection lost, with what is on it: responses, and the
\* requests that had left the client's write buffer.  (Of a request that left it
\* in part nothing is kept; that its rest would break the framing of the next
\* connection is a matter of SessionWrite.)
ConnectionLost ==
    /\ ok
    /\ ok' = FALSE
    /\ toClient' = <<>>
    /\ \E n \in 0 .. Len(toServer) : toServer' = SubSeq(toServer, n + 1, Len(toServer))
    /\ UNCHANGED <<conn, clientVars, callVars, serverq, serverVars, outcome>>

Next ==
    \/ \E c \in Callers : Caller(c)
    \/ ReadResponse \/ TimerExpires \/ Logic
    \/ RegRpcHandler \/ ReadRequest \/ ServerReceiveMessage
    \/ ConnectionUp \/ ConnectionLost

Spec == Init /\ [][Next]_vars

\* Threads run, and timers expire; requests and responses may be lost.
FairSpec == Spec /\ WF_vars(Logic) /\ WF_vars(TimerExpires)

-----------------------------------------------------------------------------
Ids == 1 .. (MaxCalls * Cardinality(Callers))
Entry == [id : Ids, key : Calls, timed : BOOLEAN]

\* The types of the variables; _cbs has one entry per id.
TypeOK ==
    /\ ok \in BOOLEAN /\ conn \in 0 .. MaxConns
    /\ methodId \in {0} \cup Ids
    /\ cbs \subseteq Entry /\ timers \subseteq Entry
    /\ \A e, f \in cbs : e.id = f.id => e = f
    /\ logicq \in Seq([ev : {"message", "deadline"}, id : Ids, key : Calls])
    /\ pc \in [Callers -> {"idle", "register", "write"}]
    /\ toServer \in Seq([id : Ids, method : Methods, key : Calls])
    /\ serverq \in Seq([req : [id : Ids, method : Methods, key : Calls], conn : 1 .. MaxConns])
    /\ toClient \in Seq([id : Ids, key : Calls])
    /\ handlers \subseteq Methods /\ executed \subseteq Calls
    /\ result \in [Calls -> {"none", "true", "false"}]
    /\ outcome \in [Calls -> Seq([what : {"cb", "dcb"}, of : Calls])]

RanTimes(k, what) == Cardinality({i \in 1 .. Len(outcome[k]) : outcome[k][i].what = what})

\* A callback is run with the response to its own request, which the server
\* executed, at most once, and never for a call that returned false: ids given
\* out on several threads, and those of lost calls, are not mixed up.
ReplyMatchesRequest ==
    \A k \in Calls :
        /\ RanTimes(k, "cb") <= 1
        /\ \A i \in 1 .. Len(outcome[k]) :
              outcome[k][i].what = "cb" => /\ outcome[k][i].of = k
                                           /\ k \in executed
                                           /\ result[k] # "false"

\* Once the deadline handler of a call ran, a late response runs nothing.
NoReplyAfterTimeout ==
    [][\A k \in Calls : RanTimes(k, "dcb") > 0 => UNCHANGED outcome[k]]_vars

\* A call with a deadline is always answered, by its callback or by its
\* deadline handler, whatever is lost and even if callRpcMethod returned false,
\* and it does not stay in _cbs for ever.
TimedCallsResolve ==
    \A k \in Calls :
        (\E e \in cbs : e.key = k /\ e.timed)
            ~> (outcome[k] # <<>> /\ ~(\E e \in cbs : e.key = k))

\* What "with timeout" promises a caller: a call has one outcome, a response or
\* a timeout.
AtMostOneOutcome == \A k \in Calls : Len(outcome[k]) <= 1
=============================================================================
