------------------------------ MODULE UdpSession ------------------------------
(***************************************************************************)
(* JMEngine::net::UdpSession with the handler the documentation gives it   *)
(* (README.md, "simple udp listening"): onReceive runs on the logic thread *)
(* and answers with writeMessage, onWrite asks for the next message with   *)
(* startRead.  doRead, onRead and onWrite run on the net thread.  No lock  *)
(* protects _buffer, _writeBuffer and _ep, which both threads use; and     *)
(* _isReading and _isWriting, which are tested, are never set.             *)
(*                                                                         *)
(* A byte is <<d, i>>, the byte i of the d-th datagram.  _buffer is the    *)
(* ReadBuffer of TCP sessions, of which this module keeps the offset       *)
(* _handleOffest and the bytes between it and _buffOffest; the memory      *)
(* behind them is in ReadBuffer, whose compaction is proved to be exact.   *)
(***************************************************************************)
EXTENDS Integers, Sequences

CONSTANTS
    BufSize,   \* buffer_size, of the read buffer and of the write buffer
    HeaderLen, \* MessageHeaderLength (14 in the code)
    Peers,     \* who sends datagrams
    Shapes,    \* the datagrams: their size and what their length field says
    MaxDgrams, \* bound of the model: datagrams that reach the socket
    MaxErrors  \* bound of the model: errors of the socket

ASSUME UdpSessionAssumption ==
    /\ BufSize \in Nat \ {0} /\ HeaderLen \in Nat \ {0}
    /\ Shapes \subseteq [size : Nat, len : Int]
    /\ MaxDgrams \in Nat /\ MaxErrors \in Nat

VARIABLES
    platform,     \* a datagram that does not fit is cut on "linux", an error on "windows"
    started,      \* the application called startRead
    handle,       \* _handleOffest - _buffer
    unhandled,    \* the bytes from _handleOffest to _buffOffest
    reads,        \* async_receive_from operations that wait
    ep,           \* _ep, the sender of the last datagram
    writeBuffer,  \* the bytes of _writeBuffer before _writeBufferOffest
    sends,        \* async_send_to operations under way
    netq,         \* handlers queued on the net thread
    logicq,       \* callbacks queued on the logic thread
    count,        \* datagrams that reached the socket
    last,         \* the last of them
    small,        \* all were well-formed and at most SafeSize bytes
    exact,        \* none held more than its message
    lost,         \* one was cut, dropped or not handed out
    errors        \* errors of the socket

readVars == <<handle, unhandled>>
writeVars == <<writeBuffer, sends>>
history == <<count, last, small, exact, lost>>
vars == <<platform, started, readVars, reads, ep, writeVars, netq, logicq, history, errors>>

NoPeer == "nobody"
Bytes(d, n) == [i \in 1 .. n |-> <<d, i - 1>>]
MinOf(a, b) == IF a < b THEN a ELSE b

Init ==
    /\ platform \in {"linux", "windows"}
    /\ started = FALSE
    /\ handle = 0 /\ unhandled = <<>>
    /\ reads = 0 /\ ep = NoPeer
    /\ writeBuffer = <<>> /\ sends = <<>>
    /\ netq = <<>> /\ logicq = <<>>
    /\ count = 0 /\ last = [from |-> NoPeer, size |-> 0, len |-> 0]
    /\ small = TRUE /\ exact = TRUE /\ lost = FALSE
    /\ errors = 0

-----------------------------------------------------------------------------
(* Definitions named ..._Variant are plausible mistakes in the definition that *)
(* follows them.  Nothing uses them; each breaks a property that the          *)
(* definition itself keeps.                                                   *)

(* The read buffer. *)

\* The bytes not yet handled are forgotten.
Room_Variant == BufSize - handle

\* getAvailableBufferSize
Room == BufSize - (handle + Len(unhandled))

\* Past this offset onCheckBuffer moves the unhandled bytes to the front.
CompactAbove == BufSize \div 2 + 1

\* Compaction only when everything is handled.
NeedsCompact_Variant == handle >= BufSize

NeedsCompact == handle > CompactAbove

\* The largest datagrams for which there is always room: the buffer is not
\* reset after a message and is compacted only beyond its middle, when the
\* next one has already been read behind it.
SafeSize == (BufSize - CompactAbove) \div 2

\* *(int*)_handleOffest: the peer's length field when it starts the last
\* datagram, else whatever bytes of an earlier one are there.
LengthField(data) == IF data[1] = <<count, 0>> THEN {last.len} ELSE {s.len : s \in Shapes}

\* nextMessageLength: what it may return.
NextMessageLength(data) ==
    IF Len(data) < HeaderLen THEN {0}
    ELSE {IF len < HeaderLen THEN -1 ELSE IF Len(data) >= len THEN len ELSE 0 :
             len \in LengthField(data)}

-----------------------------------------------------------------------------
(* The application. *)

\* startRead posts doRead to the net thread.
StartRead(nq) == netq' = Append(nq, [op |-> "doRead"])

Start ==
    /\ ~started
    /\ started' = TRUE
    /\ StartRead(netq)
    /\ UNCHANGED <<platform, readVars, reads, ep, writeVars, logicq, history, errors>>

-----------------------------------------------------------------------------
(* The network. *)

Completes(bytes) == netq' = Append(netq, [op |-> "onRead", bytes |-> bytes])

\* A datagram reaches the socket.  What does not fit the room that is left is
\* cut off, or makes the operation fail; with no room nothing is left of it.
Receive ==
    /\ reads > 0
    /\ reads' = reads - 1
    /\ count < MaxDgrams
    /\ count' = count + 1
    /\ \E p \in Peers, s \in Shapes :
          /\ ep' = p
          /\ last' = [from |-> p, size |-> s.size, len |-> s.len]
          /\ small' = (small /\ s.size = s.len /\ s.len \in HeaderLen .. SafeSize)
          /\ exact' = (exact /\ s.size <= s.len)
          /\ lost' = (lost \/ s.size > Room)
          /\ Completes(IF s.size > Room /\ platform = "windows" THEN <<>>
                       ELSE Bytes(count', MinOf(s.size, Room)))
    /\ UNCHANGED <<platform, started, readVars, writeVars, logicq, errors>>

\* The receive fails (an ICMP error of an earlier send).
ReceiveFails ==
    /\ reads > 0
    /\ reads' = reads - 1
    /\ errors < MaxErrors
    /\ errors' = errors + 1
    /\ Completes(<<>>)
    /\ UNCHANGED <<platform, started, readVars, ep, writeVars, logicq, history>>

\* A send ends, well or not.
SendCompletes ==
    /\ sends # <<>>
    /\ sends' = Tail(sends)
    /\ netq' = Append(netq, [op |-> "onWrite"])
    /\ UNCHANGED <<platform, started, readVars, reads, ep, writeBuffer, logicq, history, errors>>

-----------------------------------------------------------------------------
(* The net thread. *)

NetHandler(op) == netq # <<>> /\ Head(netq).op = op /\ netq' = Tail(netq)

\* doRead, whose guard _isReading is always false.
DoRead ==
    /\ NetHandler("doRead")
    /\ reads' = reads + 1
    /\ UNCHANGED <<platform, started, readVars, ep, writeVars, logicq, history, errors>>

\* No new read after an error.
OnReadNothing_Variant ==
    /\ NetHandler("onRead")
    /\ Head(netq).bytes = <<>>
    /\ UNCHANGED <<platform, started, readVars, reads, ep, writeVars, logicq, history, errors>>

\* onRead after an error, or of nothing.
OnReadNothing ==
    /\ NetHandler("onRead")
    /\ Head(netq).bytes = <<>>
    /\ reads' = reads + 1
    /\ UNCHANGED <<platform, started, readVars, ep, writeVars, logicq, history, errors>>

\* The next read is armed together with the callback.
HandOut_Variant(from, data, len) ==
    /\ handle' = from + len
    /\ unhandled' = SubSeq(data, len + 1, Len(data))
    /\ logicq' = Append(logicq, [op |-> "onReceive", msg |-> SubSeq(data, 1, len)])
    /\ reads' = reads + 1
    /\ UNCHANGED lost

\* A message for the logic thread; no read is armed.
HandOut(from, data, len) ==
    /\ handle' = from + len
    /\ unhandled' = SubSeq(data, len + 1, Len(data))
    /\ logicq' = Append(logicq, [op |-> "onReceive", msg |-> SubSeq(data, 1, len)])
    /\ UNCHANGED <<reads, lost>>

\* onRead: readNewData and getMessage with its compaction, then the message or,
\* if there is none or a bad length, a reset and the next read.
OnReadData ==
    /\ NetHandler("onRead")
    /\ Head(netq).bytes # <<>>
    /\ LET data == unhandled \o Head(netq).bytes
           from == IF NeedsCompact THEN 0 ELSE handle
       IN  \E len \in NextMessageLength(data) :
              \/ /\ len <= 0
                 /\ handle' = 0 /\ unhandled' = <<>>
                 /\ reads' = reads + 1
                 /\ lost' = TRUE
                 /\ UNCHANGED logicq
              \/ len > 0 /\ HandOut(from, data, len)
    /\ UNCHANGED <<platform, started, ep, writeVars, count, last, small, exact, errors>>

\* The offset is not reset.
OnWrite_Variant ==
    /\ NetHandler("onWrite")
    /\ logicq' = Append(logicq, [op |-> "onWrite"])
    /\ UNCHANGED <<platform, started, readVars, reads, ep, writeBuffer, sends, history, errors>>

\* onWrite: the write buffer is free again, and the handler hears of it.
OnWrite ==
    /\ NetHandler("onWrite")
    /\ writeBuffer' = <<>>
    /\ logicq' = Append(logicq, [op |-> "onWrite"])
    /\ UNCHANGED <<platform, started, readVars, reads, ep, sends, history, errors>>

Net == DoRead \/ OnReadNothing \/ OnReadData \/ OnWrite

-----------------------------------------------------------------------------
(* The logic thread. *)

Callback(op) == logicq # <<>> /\ Head(logicq).op = op /\ logicq' = Tail(logicq)

\* writeMessage and doWrite; the guard _isWriting is always false.  The bytes
\* go behind those already in the buffer, without a look at its size.
WriteMessage(msg) ==
    /\ writeBuffer' = writeBuffer \o msg
    /\ sends' = Append(sends, [to |-> ep, n |-> Len(writeBuffer')])

\* The handler answers with the message.
HandlerAnswers ==
    /\ Callback("onReceive")
    /\ WriteMessage(Head(logicq).msg)
    /\ UNCHANGED <<platform, started, readVars, reads, ep, netq, history, errors>>

\* The handler has nothing to answer, and asks for the next message itself.
HandlerSkips ==
    /\ Callback("onReceive")
    /\ StartRead(netq)
    /\ UNCHANGED <<platform, started, readVars, reads, ep, writeVars, history, errors>>

\* The handler's onWrite.
HandlerWritten ==
    /\ Callback("onWrite")
    /\ StartRead(netq)
    /\ UNCHANGED <<platform, started, readVars, reads, ep, writeVars, history, errors>>

Logic == HandlerAnswers \/ HandlerSkips \/ HandlerWritten

Next == Start \/ Receive \/ ReceiveFails \/ SendCompletes \/ Net \/ Logic

Spec == Init /\ [][Next]_vars

\* The io_service threads run what is queued and a send ends; nobody needs to
\* send a datagram.
FairSpec == Spec /\ WF_vars(Net) /\ WF_vars(Logic) /\ WF_vars(SendCompletes)

-----------------------------------------------------------------------------
Byte == (1 .. MaxDgrams) \X Nat

\* The types of the variables; both offsets stay inside their buffers.
TypeOK ==
    /\ platform \in {"linux", "windows"} /\ started \in BOOLEAN
    /\ handle \in 0 .. BufSize /\ unhandled \in Seq(Byte)
    /\ reads \in Nat /\ ep \in Peers \cup {NoPeer}
    /\ writeBuffer \in Seq(Byte) /\ Len(writeBuffer) <= BufSize
    /\ sends \in Seq([to : Peers, n : 1 .. BufSize])
    /\ netq \in Seq([op : {"doRead", "onWrite"}] \cup [op : {"onRead"}, bytes : Seq(Byte)])
    /\ logicq \in Seq([op : {"onWrite"}] \cup [op : {"onReceive"}, msg : Seq(Byte)])
    /\ count \in 0 .. MaxDgrams
    /\ last \in [from : Peers \cup {NoPeer}, size : Nat, len : Int]
    /\ small \in BOOLEAN /\ exact \in BOOLEAN /\ lost \in BOOLEAN
    /\ errors \in 0 .. MaxErrors
    /\ Room >= 0

\* "Only after a message is dealt with may the next one be received" (the
\* comment of the documented onWrite): of the read, the send and the handlers
\* that use the buffers and _ep there is one at any time.  Nothing else keeps
\* the two threads apart.
OneAtATime == reads + Len(sends) + Len(netq) + Len(logicq) = (IF started THEN 1 ELSE 0)

\* As long as no datagram held more than its message, the handler gets the last
\* datagram and nothing of an earlier one, and its answer, alone in its
\* datagram, goes to the one who sent it.
AnswersTheSender ==
    exact =>
        /\ \A i \in 1 .. Len(logicq) :
              logicq[i].op = "onReceive" => logicq[i].msg = Bytes(count, last.size)
        /\ \A i \in 1 .. Len(sends) :
              /\ sends[i] = [to |-> last.from, n |-> last.size]
              /\ SubSeq(writeBuffer, 1, sends[i].n) = Bytes(count, last.size)

\* Well-formed datagrams of at most SafeSize bytes are never cut nor dropped.
SmallDatagramsArrive == small => ~lost

\* The session always comes back to listening, through the answer, the two
\* callbacks and both threads, and after every error; and, as long as all
\* datagrams were small, with room for the next.
ListensAgain == started ~> (reads > 0 /\ (small => Room >= SafeSize))
=============================================================================
