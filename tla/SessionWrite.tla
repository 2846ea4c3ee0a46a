----------------------------- MODULE SessionWrite -----------------------------
(***************************************************************************)
(* The write side of JMEngine::net::TcpSession: threads of the application *)
(* append messages to _writeBuffer (writeMessage), the net thread drains   *)
(* it (handleWrite), and both arm writes of the socket (postWriteNull).    *)
(* _writeMutex protects the buffer, but not _writing nor _status, and the  *)
(* net thread calls postWriteNull after it released the mutex.             *)
(*                                                                         *)
(* A message is two units, its header and its body, because writeMessage   *)
(* appends them in two calls that each check the session again; a partial  *)
(* write of the socket stops between two units.  Connections come, break   *)
(* and are replaced in the actions of the last section, which stand for    *)
(* the calls of the other half of the class (see TcpSession).              *)
(***************************************************************************)
EXTENDS Integers, Sequences

CONSTANTS
    Writers,       \* threads that call writeMessage
    BufferSize,    \* _writeBufferSize, in units
    BlockLimit,    \* consecutive would_block results handleWrite accepts (10)
    AsyncConnect,  \* _asyncConnect
    Msgs,          \* bound of the model: messages of each writer
    MaxBlocks,     \* bound of the model: would_block results of the socket
    MaxConns       \* bound of the model: connection attempts

NoOne == "none"

ASSUME SessionWriteAssumption ==
    /\ NoOne \notin Writers
    /\ BufferSize \in Nat
    /\ BlockLimit \in Nat
    /\ AsyncConnect \in BOOLEAN
    /\ Msgs \in [Writers -> Nat] /\ MaxBlocks \in Nat /\ MaxConns \in Nat

VARIABLES
    status,           \* _status
    open,             \* _socket.is_open()
    broken,           \* the socket has no peer (any more): writing to it fails
    conn,             \* connection attempts so far
    stopping,         \* stop(): "no", "closed" (socket done), "done"
    stale,            \* completions with an error queued when the connection came up
    writeBuffer,      \* the units of _writeBuffer before _writeBufferOffest
    writing,          \* _writing
    writeBlockTimes,  \* _writeBlockTimes
    mutex,            \* the holder of _writeMutex, or NoOne
    pc,               \* where each writer is in writeMessage
    todo,             \* messages each writer still sends
    netpc,            \* where the net thread is in handleWrite
    pending,          \* writes armed on the open socket
    aborted,          \* completions with an error queued for the net thread
    blocks,           \* would_block results so far
    stream,           \* units this connection owes: left over, then appended
    sent,             \* units written to this connection
    left              \* how much of stream is left over from before it was up

sessionVars == <<status, open, broken, conn, stopping, stale>>
bufferVars  == <<writeBuffer, stream, sent, left>>
opVars      == <<writing, pending, aborted>>
vars == <<sessionVars, bufferVars, opVars, writeBlockTimes, mutex, pc, todo, netpc, blocks>>

Unit == [from : Writers, no : Nat, part : {"header", "body"}]

IsOk == status = "Connected"

\* Something was appended while this connection was up.
Fresh == Len(stream) > left

Init ==
    /\ status = "Disconnected" /\ open = FALSE /\ broken = FALSE
    /\ conn = 0 /\ stopping = "no" /\ stale = 0
    /\ writeBuffer = <<>> /\ stream = <<>> /\ sent = <<>> /\ left = 0
    /\ writing = FALSE /\ pending = 0 /\ aborted = 0
    /\ writeBlockTimes = 0 /\ blocks = 0
    /\ mutex = NoOne
    /\ pc = [w \in Writers |-> "idle"]
    /\ todo = Msgs
    /\ netpc = "idle"

-----------------------------------------------------------------------------
(* Definitions named ..._Variant are plausible mistakes in the definition that *)
(* follows them.  Nothing uses them; each breaks a property that the          *)
(* definition itself keeps.                                                   *)

(* postWriteNull: its early return, and what it does when it does not return. *)

NothingToPost == ~open \/ writing \/ writeBuffer = <<>>

\* async_write_some on an open socket waits until it is writable, on a closed
\* one it completes at once with an error.
ArmWrite ==
    /\ writing' = TRUE
    /\ pending' = pending + (IF open THEN 1 ELSE 0)
    /\ aborted' = aborted + (IF open THEN 0 ELSE 1)

-----------------------------------------------------------------------------
(* writeMessage, on the thread w.  After a part is appended, and when the    *)
(* buffer is full, w checks and perhaps arms a write in postWriteNull.       *)

Goto(w, label) == pc' = [pc EXCEPT ![w] = label]

\* The call: the first isOk, outside the mutex.
WriteMessage(w) ==
    /\ pc[w] = "idle"
    /\ todo[w] > 0
    /\ IF IsOk THEN Goto(w, "lock") /\ UNCHANGED todo
               ELSE todo' = [todo EXCEPT ![w] = @ - 1] /\ UNCHANGED pc
    /\ UNCHANGED <<sessionVars, bufferVars, opVars, writeBlockTimes, mutex, netpc, blocks>>

\* The mutex is not waited for.
CheckWriteBuffer_Variant(w) ==
    /\ pc[w] = "lock"
    /\ mutex' = w
    /\ Goto(w, IF Len(writeBuffer) + 2 > BufferSize THEN "full" ELSE "header")
    /\ UNCHANGED <<sessionVars, bufferVars, opVars, writeBlockTimes, todo, netpc, blocks>>

\* The mutex is taken; checkWriteBuffer wants room for the whole message.
CheckWriteBuffer(w) ==
    /\ pc[w] = "lock"
    /\ mutex = NoOne
    /\ mutex' = w
    /\ Goto(w, IF Len(writeBuffer) + 2 > BufferSize THEN "full" ELSE "header")
    /\ UNCHANGED <<sessionVars, bufferVars, opVars, writeBlockTimes, todo, netpc, blocks>>

\* writeNolock, for the header and for the body: the session is looked at
\* without a lock, and may change before the part is appended.
WriteNolock(w) ==
    \/ /\ pc[w] = "header"
       /\ Goto(w, IF IsOk /\ open THEN "headerAppend" ELSE "headerDone")
       /\ UNCHANGED <<sessionVars, bufferVars, opVars, writeBlockTimes, mutex, todo, netpc, blocks>>
    \/ /\ pc[w] = "headerDone"
       /\ Goto(w, IF IsOk /\ open THEN "bodyAppend" ELSE "bodyDone")
       /\ UNCHANGED <<sessionVars, bufferVars, opVars, writeBlockTimes, mutex, todo, netpc, blocks>>

\* writeImpl: the part is appended if there is room.  When the connection went
\* down meanwhile, all that is there is left over for the next one.
WriteImpl(w, part, post, done) ==
    LET u == [from |-> w, no |-> todo[w], part |-> part]
    IN  IF Len(writeBuffer) + 1 <= BufferSize
          THEN /\ writeBuffer' = Append(writeBuffer, u)
               /\ stream' = Append(stream, u)
               /\ left' = IF IsOk THEN left ELSE Len(stream')
               /\ Goto(w, post)
          ELSE /\ Goto(w, done)
               /\ UNCHANGED <<writeBuffer, stream, left>>

WriteHeader(w) ==
    /\ pc[w] = "headerAppend"
    /\ WriteImpl(w, "header", "headerPost", "headerDone")
    /\ UNCHANGED <<sessionVars, sent, opVars, writeBlockTimes, mutex, todo, netpc, blocks>>

WriteBody(w) ==
    /\ pc[w] = "bodyAppend"
    /\ WriteImpl(w, "body", "bodyPost", "bodyDone")
    /\ UNCHANGED <<sessionVars, sent, opVars, writeBlockTimes, mutex, todo, netpc, blocks>>

ArmLabel(label) == IF label = "headerPost" THEN "headerArm" ELSE "bodyArm"
DoneLabel(label) == IF label \in {"headerPost", "headerArm"} THEN "headerDone" ELSE "bodyDone"

\* postWriteNull on the thread w, in two steps: the net thread may write
\* _writing between them.
PostCheck(w) ==
    /\ pc[w] \in {"headerPost", "bodyPost", "full"}
    /\ Goto(w, IF NothingToPost THEN DoneLabel(pc[w]) ELSE ArmLabel(pc[w]))
    /\ UNCHANGED <<sessionVars, bufferVars, opVars, writeBlockTimes, mutex, todo, netpc, blocks>>

PostArm(w) ==
    /\ pc[w] \in {"headerArm", "bodyArm"}
    /\ ArmWrite
    /\ Goto(w, DoneLabel(pc[w]))
    /\ UNCHANGED <<sessionVars, bufferVars, writeBlockTimes, mutex, todo, netpc, blocks>>

\* The return of writeMessage releases the mutex.
Return(w) ==
    /\ pc[w] = "bodyDone"
    /\ mutex' = NoOne
    /\ todo' = [todo EXCEPT ![w] = @ - 1]
    /\ Goto(w, "idle")
    /\ UNCHANGED <<sessionVars, bufferVars, opVars, writeBlockTimes, netpc, blocks>>

Writer(w) ==
    \/ WriteMessage(w) \/ CheckWriteBuffer(w) \/ WriteNolock(w) \/ WriteHeader(w) \/ WriteBody(w)
    \/ PostCheck(w) \/ PostArm(w) \/ Return(w)

-----------------------------------------------------------------------------
(* handleWrite, on the net thread. *)

\* _writing is not cleared.
HandleWrite_Variant ==
    /\ netpc = "idle"
    /\ status # "Connecting"
    /\ pending > 0
    /\ pending' = pending - 1
    /\ netpc' = "drain"
    /\ UNCHANGED <<sessionVars, bufferVars, writing, aborted, writeBlockTimes, mutex, pc, todo, blocks>>

\* The socket is writable: _writing is cleared before the mutex is taken.
HandleWrite ==
    /\ netpc = "idle"
    /\ status # "Connecting"
    /\ pending > 0
    /\ pending' = pending - 1
    /\ writing' = FALSE
    /\ netpc' = "drain"
    /\ UNCHANGED <<sessionVars, bufferVars, aborted, writeBlockTimes, mutex, pc, todo, blocks>>

\* The write was aborted: the flag is cleared and nothing else is done.
HandleWriteError ==
    /\ netpc = "idle"
    /\ aborted > 0
    /\ aborted' = aborted - 1
    /\ writing' = FALSE
    /\ UNCHANGED <<sessionVars, bufferVars, pending, writeBlockTimes, mutex, pc, todo, netpc, blocks>>

\* The rest is not moved to the top.
Rest_Variant(n) == SubSeq(writeBuffer, 1, Len(writeBuffer) - n)

\* What is left of _writeBuffer after n units were written and the rest was
\* moved to the top.
Rest(n) == SubSeq(writeBuffer, n + 1, Len(writeBuffer))

\* Under the mutex: n units are written, then the buffer is empty, or the
\* socket would block, or write_some fails for good: the socket is closed, or
\* its peer is (just now) gone.  On a socket that connects write_some waits, as
\* only start makes it non-blocking, and fails when it cannot connect.
Drain ==
    /\ netpc = "drain"
    /\ mutex = NoOne
    /\ writeBlockTimes' = 0
    /\ \E n \in 0 .. Len(writeBuffer) :
          /\ n > 0 => open /\ ~broken
          /\ writeBuffer' = Rest(n)
          /\ sent' = sent \o SubSeq(writeBuffer, 1, n)
          /\ \/ /\ n = Len(writeBuffer)
                /\ netpc' = "idle"
                /\ UNCHANGED <<broken, blocks>>
             \/ /\ n < Len(writeBuffer)
                /\ open /\ ~broken
                /\ blocks < MaxBlocks
                /\ blocks' = blocks + 1
                /\ netpc' = "blocked"
                /\ UNCHANGED broken
             \/ /\ n < Len(writeBuffer)
                /\ IF open /\ status # "Connecting" THEN broken' = TRUE ELSE UNCHANGED broken
                /\ netpc' = "idle"
                /\ UNCHANGED blocks
    /\ UNCHANGED <<status, open, conn, stopping, stale, stream, left, opVars, mutex, pc, todo>>

\* would_block does not arm the write again.
Blocked_Variant ==
    /\ netpc = "blocked"
    /\ writeBlockTimes' = writeBlockTimes + 1
    /\ netpc' = "idle"
    /\ UNCHANGED <<sessionVars, bufferVars, opVars, mutex, pc, todo, blocks>>

\* would_block: the block is counted and the write armed again, unless there
\* were too many; the mutex is no longer held.
Blocked ==
    /\ netpc = "blocked"
    /\ writeBlockTimes' = writeBlockTimes + 1
    /\ netpc' = IF writeBlockTimes' >= BlockLimit \/ NothingToPost THEN "idle" ELSE "arm"
    /\ UNCHANGED <<sessionVars, bufferVars, opVars, mutex, pc, todo, blocks>>

Rearm ==
    /\ netpc = "arm"
    /\ ArmWrite
    /\ netpc' = "idle"
    /\ UNCHANGED <<sessionVars, bufferVars, writeBlockTimes, mutex, pc, todo, blocks>>

Net == HandleWrite \/ HandleWriteError \/ Drain \/ Blocked \/ Rearm

-----------------------------------------------------------------------------
(* The life of the connection, as far as the write side sees it. *)

\* Closing the socket completes its writes with an error.
AbortWrites ==
    /\ aborted' = aborted + pending
    /\ pending' = 0

\* onConnect: the old socket is closed and a new one opened; _writeBuffer
\* keeps what it holds.
OnConnect ==
    /\ status = "Disconnected"
    /\ conn < MaxConns
    /\ conn' = conn + 1
    /\ status' = "Connecting"
    /\ open' = TRUE
    /\ broken' = FALSE
    /\ AbortWrites
    /\ stream' = writeBuffer
    /\ sent' = <<>>
    /\ left' = Len(writeBuffer)
    /\ stale' = 0
    /\ UNCHANGED <<stopping, writeBuffer, writing, writeBlockTimes, mutex, pc, todo, netpc, blocks>>

\* handleConnect.  When asynchronous it is a handler of the net thread, behind
\* the writes the closed socket aborted, otherwise it is called at once; that stop closes the new one too comes
\* too late for a connection that was made already.
HandleConnect ==
    /\ status = "Connecting"
    /\ AsyncConnect => netpc = "idle" /\ (open => aborted = 0)
    /\ \/ status' = "Connected" /\ stale' = aborted /\ UNCHANGED broken
       \/ status' = "Disconnected" /\ broken' = TRUE /\ UNCHANGED stale
    /\ UNCHANGED <<open, conn, stopping, bufferVars, opVars, writeBlockTimes,
                   mutex, pc, todo, netpc, blocks>>

\* The peer closes or the network fails.
PeerGone ==
    /\ IsOk /\ ~broken
    /\ broken' = TRUE
    /\ UNCHANGED <<status, open, conn, stopping, stale, bufferVars, opVars, writeBlockTimes,
                   mutex, pc, todo, netpc, blocks>>

\* handleRead, on the net thread, gives the connection up: a dead socket or a
\* frame it cannot parse.
HandleReadFails ==
    /\ IsOk
    /\ netpc = "idle"
    /\ status' = "Disconnected"
    /\ UNCHANGED <<open, broken, conn, stopping, stale, bufferVars, opVars, writeBlockTimes,
                   mutex, pc, todo, netpc, blocks>>

\* stop, on any thread: the socket is closed, unless shutdown throws because
\* it is not connected; _status is left alone.
StopClose ==
    /\ stopping = "no"
    /\ stopping' = "closed"
    /\ \/ /\ open
          /\ open' = FALSE
          /\ AbortWrites
       \/ /\ ~open \/ broken \/ status # "Connected"
          /\ UNCHANGED <<open, pending, aborted>>
    /\ UNCHANGED <<status, broken, conn, stale, bufferVars, writing, writeBlockTimes,
                   mutex, pc, todo, netpc, blocks>>

\* stop clears _writing last, without the mutex.
StopClear ==
    /\ stopping = "closed"
    /\ stopping' = "done"
    /\ writing' = FALSE
    /\ UNCHANGED <<status, open, broken, conn, stale, bufferVars, pending, aborted, writeBlockTimes,
                   mutex, pc, todo, netpc, blocks>>

Connection == OnConnect \/ HandleConnect \/ PeerGone \/ HandleReadFails \/ StopClose \/ StopClear

Next == (\E w \in Writers : Writer(w)) \/ Net \/ Connection

Spec == Init /\ [][Next]_vars

\* Threads run, and the net thread runs its handlers: a writable socket is
\* reported.  Nothing about connections is assumed.
Fairness == WF_vars(Net) /\ \A w \in Writers : WF_vars(Writer(w))

FairSpec == Spec /\ Fairness

-----------------------------------------------------------------------------
PcLabels == {"idle", "lock", "full", "header", "headerAppend", "headerPost", "headerArm", "headerDone",
             "bodyAppend", "bodyPost", "bodyArm", "bodyDone"}

\* The types of the variables; the mutex is held by a writer exactly while it
\* is between checkWriteBuffer and its return.
TypeOK ==
    /\ status \in {"Disconnected", "Connecting", "Connected"}
    /\ open \in BOOLEAN /\ broken \in BOOLEAN
    /\ conn \in 0 .. MaxConns
    /\ stopping \in {"no", "closed", "done"}
    /\ writeBuffer \in Seq(Unit) /\ stream \in Seq(Unit) /\ sent \in Seq(Unit)
    /\ left \in Nat /\ stale \in Nat /\ writing \in BOOLEAN
    /\ pending \in Nat /\ aborted \in Nat
    /\ writeBlockTimes \in Nat /\ blocks \in 0 .. MaxBlocks
    /\ mutex \in Writers \cup {NoOne}
    /\ pc \in [Writers -> PcLabels]
    /\ todo \in [Writers -> Nat]
    /\ netpc \in {"idle", "drain", "blocked", "arm"}
    /\ \A w \in Writers : mutex = w <=> pc[w] \notin {"idle", "lock"}

\* Every unit left over or appended is on the wire or in the buffer, once and
\* in order: partial writes, the memmove of the rest and the writers that
\* append meanwhile never lose, repeat or reorder data.
StreamIntegrity == sent \o writeBuffer = stream

SameMessage(u, v) == u.from = v.from /\ u.no = v.no

\* Two threads that write at once never mix their messages: the parts of one
\* message lie next to each other, and on a connection that is up, while nobody
\* is inside writeMessage, every message begun during it is whole, behind what
\* an earlier connection may have left torn.
Framing ==
    /\ \A i, j \in 1 .. Len(stream) :
          i < j /\ SameMessage(stream[i], stream[j]) => j = i + 1
    /\ IsOk /\ open /\ mutex = NoOne =>
          \A i \in left + 1 .. Len(stream) :
             stream[i].part = "header" =>
                i < Len(stream) /\ stream[i + 1] = [stream[i] EXCEPT !.part = "body"]

Up == IsOk /\ open /\ ~broken

\* No wakeup is lost between _writing, cleared and read outside the mutex, and
\* the writers: when data was appended on a connection that is up and nobody is
\* in the middle of an operation, a write of the socket is armed.  Excepted is a
\* connection that came up before the aborted writes of the one before it were
\* reported: _writing still stands for those, a writer that finds it set arms
\* nothing, and the handler that clears it does not either.  Only a synchronous
\* connect can be that early, the kind that the comment of _asyncConnect
\* (JME_TcpSession.h:105) recommends for an rpc client.
NoLostWrite ==
    Up /\ stale = 0 /\ Fresh /\ writeBuffer # <<>> /\ mutex = NoOne /\ netpc = "idle" => pending > 0

\* What was appended reaches the socket, or the connection goes down, with the
\* same exception.
Flushed ==
    (Up /\ stale = 0 /\ Fresh /\ writeBuffer # <<>>) ~> (writeBuffer = <<>> \/ ~Up)
=============================================================================
