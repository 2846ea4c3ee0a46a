------------------------------ MODULE TcpSession ------------------------------
(***************************************************************************)
(* The life of a JMEngine::net::TcpSession: connecting, reading, losing    *)
(* the connection, reconnecting and stopping.  Three threads touch it:     *)
(*   - the net thread runs, one after the other, the handlers that asio    *)
(*     queues when an operation of the socket or a timer completes;        *)
(*   - the logic thread runs the callbacks of the session's NetHandler, in *)
(*     the order in which the net thread posted them;                      *)
(*   - the application connects the session and may stop it at any time.   *)
(* There is no lock: _status, _reading and the socket are shared.          *)
(*                                                                         *)
(* The handler is RpcClient for a "client" session (it reconnects after a  *)
(* read error) and RpcSessionNetHandler for a "server" session (it stops   *)
(* after a read error).  A server session is the first that TcpAcceptor    *)
(* accepts; of the later ones only the accept that waits for them is here. *)
(* What is read is framed by ReadBuffer, here a message or none; writing   *)
(* is in SessionWrite.                                                     *)
(***************************************************************************)
EXTENDS Integers, Sequences

CONSTANTS
    MaxConns,  \* bound of the model: connection attempts
    MaxReads   \* bound of the model: times data makes the socket readable

ASSUME TcpSessionAssumption == MaxConns \in Nat \ {0} /\ MaxReads \in Nat

VARIABLES
    role,          \* "client" or "server"
    platform,      \* the error of an aborted operation is 995 on "windows" only
    asyncConnect,  \* _asyncConnect
    interval,      \* _reconnectInterval: 0, or 1 for any other value
    status,        \* _status
    open,          \* _socket.is_open()
    link,          \* the transport: "none", "connecting", "up", "fin" or "reset"
    avail,         \* the socket has bytes to read
    reading,       \* _reading
    pendingReads,  \* reads armed on the socket and not completed
    timers,        \* reconnect timers armed
    netq,          \* handlers ready to run on the net thread
    netpc,         \* "rearm" while handleRead is between its loop and postReadNull
    logicq,        \* callbacks posted to the logic thread
    lastCb,        \* the last callback that ran
    accepting,     \* async_accept operations of the acceptor that wait
    stopping,      \* stop(): "no", "closed" (socket done), "done"
    quietEnd,      \* stop was called while only a read of a good connection was pending
    startFailed,   \* start threw: remote_endpoint failed
    conns,         \* connection attempts so far
    reads          \* times the socket became readable

config == <<role, platform, asyncConnect>>
stopVars == <<stopping, quietEnd>>
socketVars == <<open, link, avail, pendingReads, conns>>
vars == <<config, interval, status, socketVars, reading, timers, netq, netpc,
          logicq, lastCb, accepting, stopVars, startFailed, reads>>

Linked == link \in {"up", "fin", "reset"}

\* A session that RpcClient created, or one that TcpAcceptor::accept created and
\* waits to connect.
Created ==
    \/ role = "client" /\ interval \in {0, 1} /\ accepting = 0
    \/ role = "server" /\ interval = 0 /\ accepting = 1

Init ==
    /\ Created
    /\ platform \in {"windows", "linux"}
    /\ asyncConnect \in BOOLEAN
    /\ status = "Disconnected"
    /\ open = FALSE /\ link = "none" /\ conns = 0
    /\ avail = FALSE /\ reading = FALSE /\ pendingReads = 0 /\ timers = 0
    /\ netq = <<>> /\ netpc = "idle"
    /\ logicq = <<>> /\ lastCb = "none"
    /\ stopping = "no" /\ quietEnd = FALSE /\ startFailed = FALSE
    /\ reads = 0

-----------------------------------------------------------------------------
(* Definitions named ..._Variant are plausible mistakes in the definition that *)
(* follows them.  Nothing uses them; each breaks a property that the          *)
(* definition itself keeps.                                                   *)

(* The pieces the handlers share. *)

\* The pending reads of a socket that is closed complete with an error.
AbortedReads == [i \in 1 .. pendingReads |-> "readAborted"]

\* The flag is not set.
PostReadNull_Variant ==
    IF ~open \/ reading
      THEN UNCHANGED <<reading, pendingReads>>
      ELSE pendingReads' = pendingReads + 1 /\ UNCHANGED reading

\* postReadNull
PostReadNull ==
    IF ~open \/ reading
      THEN UNCHANGED <<reading, pendingReads>>
      ELSE reading' = TRUE /\ pendingReads' = pendingReads + 1

\* A failed connect arms no timer.
HandleConnect_Variant(ok, queued) ==
    /\ status' = IF ok THEN "Connected" ELSE "Disconnected"
    /\ logicq' = queued \o <<IF ok THEN "connectSucceed" ELSE "connectFailed">>
    /\ UNCHANGED timers

\* handleConnect: the result, the callback, and the timer after a failure.
HandleConnect(ok, queued) ==
    /\ status' = IF ok THEN "Connected" ELSE "Disconnected"
    /\ logicq' = queued \o <<IF ok THEN "connectSucceed" ELSE "connectFailed">>
    /\ timers' = timers + (IF ~ok /\ interval # 0 THEN 1 ELSE 0)

\* onConnect, its guard passed: the socket is closed and opened again.  The
\* asynchronous connect completes later, the other one calls handleConnect.
OnConnect(nq, queued) ==
    /\ conns < MaxConns
    /\ conns' = conns + 1
    /\ netq' = nq \o AbortedReads
    /\ pendingReads' = 0
    /\ avail' = FALSE
    /\ open' = TRUE
    /\ \/ /\ asyncConnect
          /\ status' = "Connecting"
          /\ link' = "connecting"
          /\ logicq' = queued
          /\ UNCHANGED timers
       \/ /\ ~asyncConnect
          /\ \E ok \in BOOLEAN :
                /\ link' = IF ok THEN "up" ELSE "none"
                /\ HandleConnect(ok, queued)

\* onConnect, which does nothing unless the session is disconnected.
TryConnect(nq, queued) ==
    IF status = "Disconnected"
      THEN OnConnect(nq, queued)
      ELSE /\ netq' = nq
           /\ logicq' = queued
           /\ UNCHANGED <<status, socketVars, timers>>

\* The part of stop up to the close: shutdown throws on a socket that is not
\* connected, and then the socket stays open.  A socket being connected is
\* one or the other, depending on the system.
CloseSocket(nq) ==
    \/ /\ open /\ (Linked \/ link = "connecting")
       /\ open' = FALSE
       /\ link' = "none"
       /\ avail' = FALSE
       /\ pendingReads' = 0
       /\ netq' = nq \o AbortedReads
                     \o (IF link = "connecting" THEN <<"connectFailed">> ELSE <<>>)
    \/ /\ ~open \/ link \in {"none", "connecting", "reset"}
       /\ netq' = nq
       /\ UNCHANGED <<open, link, avail, pendingReads>>

Stop(nq) ==
    /\ interval' = 0
    /\ stopping' = "closed"
    /\ CloseSocket(nq)

\* Nothing is queued or running on the net and logic threads.
Quiet == netq = <<>> /\ netpc = "idle" /\ logicq = <<>>

\* Only a read of a good connection is pending.
Resting == Quiet /\ timers = 0 /\ open /\ link = "up"

-----------------------------------------------------------------------------
(* The application. *)

\* connect, once.
Connect ==
    /\ role = "client"
    /\ conns = 0
    /\ TryConnect(netq, logicq)
    /\ UNCHANGED <<config, interval, reading, netpc, lastCb, accepting, stopVars, startFailed, reads>>

\* stop, by the application: for a client by ~RpcClient, for a server session
\* once the handler was given it.
AppStop ==
    /\ stopping = "no"
    /\ conns > 0
    /\ role = "server" => lastCb # "none"
    /\ Stop(netq)
    /\ quietEnd' = Resting
    /\ UNCHANGED <<config, status, conns, reading, timers, netpc, logicq, lastCb,
                   accepting, startFailed, reads>>

\* The end of stop: _reading is cleared after the socket was closed.
StopClear ==
    /\ stopping = "closed"
    /\ stopping' = "done"
    /\ reading' = FALSE
    /\ UNCHANGED <<config, interval, status, socketVars, timers, netq, netpc, logicq,
                   lastCb, accepting, quietEnd, startFailed, reads>>

-----------------------------------------------------------------------------
(* The network and the system. *)

EnvUnchanged == UNCHANGED <<config, interval, status, open, conns, reading, netpc, logicq,
                            lastCb, accepting, stopVars, startFailed>>

\* An asynchronous connect completes.
ConnectCompletes ==
    /\ link = "connecting"
    /\ \/ link' = "up" /\ netq' = Append(netq, "connectOk")
       \/ link' = "none" /\ netq' = Append(netq, "connectFailed")
    /\ UNCHANGED <<avail, pendingReads, timers, reads>>
    /\ EnvUnchanged

\* The peer sends something, or the system reports the socket for nothing.
SocketReadable ==
    /\ link \in {"up", "fin"}
    /\ reads < MaxReads
    /\ reads' = reads + 1
    /\ pendingReads > 0
    /\ pendingReads' = pendingReads - 1
    /\ avail' \in {avail, TRUE}
    /\ netq' = Append(netq, "read")
    /\ UNCHANGED <<link, timers>>
    /\ EnvUnchanged

\* The peer closes the connection, or it is reset.
PeerGone ==
    /\ link = "up"
    /\ link' \in {"fin", "reset"}
    /\ UNCHANGED <<avail, pendingReads, timers, netq, reads>>
    /\ EnvUnchanged

\* A closed or reset connection is readable.
EndReadable ==
    /\ link \in {"fin", "reset"}
    /\ pendingReads > 0
    /\ pendingReads' = pendingReads - 1
    /\ netq' = Append(netq, "read")
    /\ UNCHANGED <<link, avail, timers, reads>>
    /\ EnvUnchanged

\* A reconnect timer expires.
TimerExpires ==
    /\ timers > 0
    /\ timers' = timers - 1
    /\ netq' = Append(netq, "timer")
    /\ UNCHANGED <<link, avail, pendingReads, reads>>
    /\ EnvUnchanged

\* A connection arrives for the session whose socket waits in async_accept.
ConnectionAccepted ==
    /\ role = "server" /\ accepting > 0 /\ conns = 0
    /\ conns' = 1
    /\ open' = TRUE
    /\ link' = "up"
    /\ accepting' = accepting - 1
    /\ netq' = Append(netq, "accept")
    /\ UNCHANGED <<config, interval, status, avail, pendingReads, reading, timers, netpc,
                   logicq, lastCb, stopVars, startFailed, reads>>

\* An accept fails, for want of descriptors or because the peer gave up.
AcceptFails ==
    /\ accepting > 0
    /\ accepting' = accepting - 1
    /\ netq' = Append(netq, "acceptError")
    /\ UNCHANGED <<config, interval, status, socketVars, reading, timers, netpc, logicq,
                   lastCb, stopVars, startFailed, reads>>

-----------------------------------------------------------------------------
(* The net thread. *)

NetHandler(h) == netpc = "idle" /\ netq # <<>> /\ Head(netq) = h

NetUnchanged == UNCHANGED <<config, interval, lastCb, accepting, stopVars, startFailed, reads>>

\* handleRead does not return, and arms the next read.
ReadError_Rearms_Variant ==
    /\ status' = "Disconnected"
    /\ logicq' = Append(logicq, "readError")
    /\ netpc' = "rearm"

\* The callback is posted twice.
ReadError_Twice_Variant ==
    /\ status' = "Disconnected"
    /\ logicq' = logicq \o <<"readError", "readError">>
    /\ UNCHANGED netpc

\* The status stays Connected.
ReadError_Status_Variant ==
    /\ logicq' = Append(logicq, "readError")
    /\ UNCHANGED <<status, netpc>>

\* handleRead gives up: status and callback.
ReadError ==
    /\ status' = "Disconnected"
    /\ logicq' = Append(logicq, "readError")
    /\ UNCHANGED netpc

\* handleRead of a readable socket.  read_some finds bytes (whole frames are
\* posted, a bad length ends the reading), finds none yet, or fails because the
\* connection ended or the socket was closed.  _readBlockTimes is reset by each
\* call, so its limit is never reached.
HandleRead ==
    /\ NetHandler("read")
    /\ netq' = Tail(netq)
    /\ reading' = FALSE
    /\ avail' = FALSE
    /\ \/ /\ open /\ link \in {"up", "fin"} /\ avail
          /\ \/ /\ netpc' = "rearm"
                /\ logicq' \in {logicq, Append(logicq, "message")}
                /\ UNCHANGED status
             \/ ReadError
       \/ /\ open /\ link = "up" /\ ~avail
          /\ netpc' = "rearm"
          /\ UNCHANGED <<status, logicq>>
       \/ /\ ~open \/ link = "reset" \/ (link = "fin" /\ ~avail)
          /\ ReadError
    /\ UNCHANGED <<open, link, pendingReads, conns, timers>>
    /\ NetUnchanged

\* The end of handleRead, after its sleep: the next read is armed.
Rearm ==
    /\ netpc = "rearm"
    /\ netpc' = "idle"
    /\ PostReadNull
    /\ UNCHANGED <<status, open, link, avail, conns, timers, netq, logicq>>
    /\ NetUnchanged

\* Every error is reported.
HandleReadAborted_Variant ==
    /\ NetHandler("readAborted")
    /\ netq' = Tail(netq)
    /\ reading' = FALSE
    /\ ReadError
    /\ UNCHANGED <<socketVars, timers>>
    /\ NetUnchanged

\* handleRead of an aborted read: 995 is the code of Windows only.
HandleReadAborted ==
    /\ NetHandler("readAborted")
    /\ netq' = Tail(netq)
    /\ reading' = FALSE
    /\ IF platform = "windows" THEN UNCHANGED <<status, logicq, netpc>> ELSE ReadError
    /\ UNCHANGED <<socketVars, timers>>
    /\ NetUnchanged

\* handleConnect of an asynchronous connect.
HandleAsyncConnect ==
    /\ \/ NetHandler("connectOk") /\ HandleConnect(open, logicq)
       \/ NetHandler("connectFailed") /\ HandleConnect(FALSE, logicq)
    /\ netq' = Tail(netq)
    /\ UNCHANGED <<socketVars, reading, netpc>>
    /\ NetUnchanged

\* onReconnect, the handler of the timer: it does not look at the interval.
OnReconnect ==
    /\ NetHandler("timer")
    /\ TryConnect(Tail(netq), logicq)
    /\ UNCHANGED <<reading, netpc>>
    /\ NetUnchanged

\* The next accept is asked for only after a success.
AcceptAgain_Variant(error) == accepting' = accepting + (IF error THEN 0 ELSE 1)

\* accept, with a new session, whether or not the last one failed.  (Only 995,
\* the error of an acceptor that is closed, ends the loop, and nothing closes
\* an acceptor.)
AcceptAgain(error) == accepting' = accepting + 1

\* handlerAccept: the session is passed on to its handler, or stopped and let
\* go of, a session that never had a connection.
HandlerAccept ==
    /\ \/ /\ NetHandler("accept")
          /\ AcceptAgain(FALSE)
          /\ logicq' = Append(logicq, "connectSucceed")
       \/ /\ NetHandler("acceptError")
          /\ AcceptAgain(TRUE)
          /\ UNCHANGED logicq
    /\ netq' = Tail(netq)
    /\ UNCHANGED <<config, interval, status, socketVars, reading, timers, netpc, lastCb,
                   stopVars, startFailed, reads>>

Net ==
    \/ HandleRead \/ Rearm \/ HandleReadAborted
    \/ HandleAsyncConnect \/ OnReconnect \/ HandlerAccept

-----------------------------------------------------------------------------
(* The logic thread. *)

Callback(c) ==
    /\ logicq # <<>>
    /\ Head(logicq) = c
    /\ role = "server" => stopping # "closed"
    /\ lastCb' = c

\* sessionConnectSucceed calls start, which throws when the socket has no
\* remote endpoint any more.
SessionConnectSucceed ==
    /\ Callback("connectSucceed")
    /\ logicq' = Tail(logicq)
    /\ IF open /\ link \in {"up", "fin"}
         THEN status' = "Connected" /\ PostReadNull /\ UNCHANGED startFailed
         ELSE startFailed' = TRUE /\ UNCHANGED <<status, reading, pendingReads>>
    /\ UNCHANGED <<config, interval, open, link, avail, conns, timers, netq, netpc,
                   accepting, stopVars, reads>>

\* sessionConnectFailed logs, sessionReceiveMessage leaves the session alone.
SessionOther ==
    /\ Callback("connectFailed") \/ Callback("message")
    /\ logicq' = Tail(logicq)
    /\ UNCHANGED <<config, interval, status, socketVars, reading, timers, netq, netpc,
                   accepting, stopVars, startFailed, reads>>

\* RpcClient::sessionReadError: resetReadBuffer and reconnect.
ClientReadError ==
    /\ role = "client"
    /\ Callback("readError")
    /\ TryConnect(netq, Tail(logicq))
    /\ UNCHANGED <<config, interval, reading, netpc, accepting, stopVars, startFailed,
                   reads>>

\* RpcSessionNetHandler::sessionReadError: stop.
ServerReadError ==
    /\ role = "server"
    /\ Callback("readError")
    /\ logicq' = Tail(logicq)
    /\ Stop(netq)
    /\ UNCHANGED <<config, status, conns, reading, timers, netpc, accepting, quietEnd,
                   startFailed, reads>>

Logic == SessionConnectSucceed \/ SessionOther \/ ClientReadError \/ ServerReadError

Application == Connect \/ AppStop \/ StopClear
Network ==
    \/ ConnectCompletes \/ SocketReadable \/ PeerGone \/ EndReadable \/ TimerExpires
    \/ ConnectionAccepted \/ AcceptFails

Next == Application \/ Network \/ Net \/ Logic

Spec == Init /\ [][Next]_vars

\* The io_service threads run what is queued, the system reports the end of a
\* connection, of a connect and of a timer; the peer and the application need
\* do nothing.
Fairness ==
    /\ WF_vars(Net) /\ WF_vars(Logic) /\ WF_vars(StopClear)
    /\ WF_vars(EndReadable) /\ WF_vars(ConnectCompletes) /\ WF_vars(TimerExpires)

FairSpec == Spec /\ Fairness

-----------------------------------------------------------------------------
Handlers == {"read", "readAborted", "connectOk", "connectFailed", "timer", "accept",
             "acceptError"}
Callbacks == {"connectSucceed", "connectFailed", "message", "readError"}

\* The types of the variables; before stop is called the flag and the socket
\* tell of every armed read.
TypeOK ==
    /\ role \in {"client", "server"} /\ platform \in {"windows", "linux"}
    /\ asyncConnect \in BOOLEAN /\ interval \in {0, 1}
    /\ status \in {"Disconnected", "Connecting", "Connected"}
    /\ open \in BOOLEAN /\ link \in {"none", "connecting", "up", "fin", "reset"}
    /\ avail \in BOOLEAN /\ reading \in BOOLEAN
    /\ pendingReads \in Nat /\ timers \in Nat
    /\ netq \in Seq(Handlers) /\ netpc \in {"idle", "rearm"}
    /\ logicq \in Seq(Callbacks) /\ lastCb \in Callbacks \cup {"none"}
    /\ accepting \in 0 .. 1
    /\ stopping \in {"no", "closed", "done"} /\ quietEnd \in BOOLEAN
    /\ startFailed \in BOOLEAN
    /\ conns \in 0 .. MaxConns /\ reads \in 0 .. MaxReads
    /\ pendingReads > 0 /\ stopping = "no" => reading /\ open

InQueue(q, s) == {i \in 1 .. Len(q) : q[i] \in s}

\* The reads of the session that are armed, completed or being handled.
LiveReads == {<<"armed", i>> : i \in 1 .. pendingReads}
             \cup {<<"queued", i>> : i \in InQueue(netq, {"read", "readAborted"})}
             \cup {<<"running", i>> : i \in IF netpc = "rearm" THEN {1} ELSE {}}

\* At most one read is alive, whatever start, handleRead, stop and a new
\* connection do to _reading: ReadBuffer, which no lock protects, is only ever
\* used by one handler.  And while sessionReadError waits for the logic thread
\* none is, so resetReadBuffer never runs beside handleRead.
OneReader ==
    /\ \A r, s \in LiveReads : r = s
    /\ InQueue(logicq, {"readError"}) # {} => LiveReads = {}

\* A NetHandler sees connections one after the other: each succeeds, gives
\* messages, and ends in at most one read error; nothing of a connection comes
\* after its end or before its beginning.
Follows(c) ==
    CASE c = "none" -> {"connectSucceed", "connectFailed"}
      [] c = "connectFailed" -> {"connectSucceed", "connectFailed"}
      [] c = "connectSucceed" -> {"message", "readError"}
      [] c = "message" -> {"message", "readError"}
      [] c = "readError" -> {"connectSucceed", "connectFailed"}

CallbackOrder ==
    /\ logicq # <<>> => Head(logicq) \in Follows(lastCb)
    /\ \A i \in 1 .. Len(logicq) - 1 : logicq[i + 1] \in Follows(logicq[i])

\* Nothing is forgotten.  When all is quiet a client that was not stopped waits
\* for its connection's next read, for a connect or, if it reconnects at all,
\* for a timer.  (RpcClient holds its session by a weak pointer: what keeps
\* the session alive is exactly this.)  Excepted is a session whose start threw.
\* And an acceptor always has one accept waiting, whatever failed before.
KeptAlive ==
    Quiet =>
        /\ role = "client" /\ conns > 0 /\ stopping = "no" /\ ~startFailed =>
              \/ status = "Connected" /\ open /\ pendingReads = 1
              \/ status = "Connecting" /\ link = "connecting"
              \/ status = "Disconnected" /\ (timers = 1 \/ interval = 0)
        /\ role = "server" => accepting = 1

\* ~RpcClient stops its session and is gone, but callbacks are bound to a plain
\* pointer to it.  On Windows, where an aborted read says nothing, none is posted
\* after a client that ended with only a read of a good connection pending.
QuietEndIsSilent ==
    role = "client" /\ quietEnd /\ platform = "windows" => logicq = <<>>

\* A client that loses its connection tries to connect again.
Reconnects ==
    (role = "client" /\ status = "Connected" /\ link \in {"fin", "reset"})
        ~> (link \notin {"fin", "reset"} \/ stopping # "no" \/ startFailed \/ conns = MaxConns)

\* A server session whose connection ends is let go of: nothing refers to it,
\* no read, timer, handler or callback, and its destructor runs.
Released == Quiet /\ pendingReads = 0 /\ timers = 0
ServerReleases ==
    (role = "server" /\ link \in {"fin", "reset"}) ~> Released

\* What the comment of _reconnectInterval says, "0 means no automatic
\* reconnection": with interval 0 a timer does not connect the session.
ZeroMeansNoReconnect ==
    [][interval = 0 /\ NetHandler("timer") => UNCHANGED status]_vars

\* What the same comment says of any other interval: a client that lost its
\* connection and was not stopped is on its way to a new one.
IntervalMeansReconnect ==
    role = "client" /\ interval # 0 /\ stopping = "no" /\ Quiet =>
        ~(status = "Connected" /\ link \in {"fin", "reset"} /\ pendingReads = 0)
=============================================================================
