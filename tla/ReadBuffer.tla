------------------------------ MODULE ReadBuffer ------------------------------
(***************************************************************************)
(* The read side of a TCP session: JMEngine::net::ReadBuffer (the offsets, *)
(* the compaction and the framing of include/net/JME_ReadBuffer.h) driven  *)
(* by the loop of TcpSession::handleRead.  Everything here runs on the net *)
(* thread, except the reset that a handler asks for after a read error.    *)
(*                                                                         *)
(* Bytes are abstracted to their positions in the stream of bytes the peer *)
(* sends: buffer[i] is the position of the byte that cell i holds, NoByte  *)
(* for a cell that holds none (allocated, zeroed or clobbered memory).     *)
(* Positions go on growing across connections, so a byte of a dead         *)
(* connection is never taken for one of the current connection.            *)
(***************************************************************************)
EXTENDS Integers

CONSTANTS
    BufSize,    \* _buffSize, in bytes
    HeaderLen,  \* MessageHeaderLength (14 in the code)
    Lens,       \* the values the length field of a frame may carry
    MaxStream   \* bound of the model: bytes received in a behaviour

ASSUME ReadBufferAssumption ==
    /\ BufSize \in Nat \ {0}
    /\ HeaderLen \in Nat \ {0}
    /\ Lens \subseteq Int
    /\ Lens # {}
    /\ MaxStream \in Nat

VARIABLES
    buffer,        \* the cells of _buffer
    buffOffest,    \* _buffOffest - _buffer: the end of the received bytes
    handleOffest,  \* _handleOffest - _buffer: the first byte not handed out
    pc,            \* "armed" (async_read_some pending), "parsing" or "stopped"
    received,      \* how many bytes of the stream have been read
    consumed,      \* the position where the frame now being received starts
    frameLen,      \* what the peer put in the length field of that frame
    msg            \* the last frame handed out (Message::create copies it)

vars == <<buffer, buffOffest, handleOffest, pc, received, consumed, frameLen, msg>>

NoByte == -1
Cells == 0 .. BufSize - 1
ReadBufferError == -1
ReadBufferNoMessage == 0

\* The bytes of the stream from position p on, as a function of their index.
StreamBytes(p, len) == [j \in 0 .. len - 1 |-> p + j]

NoMsg == [from |-> 0, len |-> 0, bytes |-> StreamBytes(0, 0)]

-----------------------------------------------------------------------------
(* Definitions named ..._Variant are plausible mistakes in the definition that *)
(* follows them.  Nothing uses them; each breaks a property that the          *)
(* definition itself keeps.                                                   *)

\* One byte too many.
GetAvailableBufferSize_Variant == BufSize - buffOffest + 1

\* getAvailableBufferSize
GetAvailableBufferSize == BufSize - buffOffest

\* Compaction long before the first half is handled.
CompactAbove_Variant == BufSize \div 4

\* Past this offset onCheckBuffer moves the unhandled bytes to the front.
CompactAbove == BufSize \div 2 + 1

\* Compaction only when everything is handled.
NeedsCompact_Variant == handleOffest >= BufSize

NeedsCompact == handleOffest > CompactAbove

\* The memory after memcpy(_buffer, _handleOffest, blen) and the memset of the
\* rest.  memcpy of overlapping areas is undefined: any copied cell may then
\* hold a wrong byte.
Moved(blen, bad) ==
    [i \in Cells |-> IF i < blen /\ i \notin bad THEN buffer[handleOffest + i] ELSE NoByte]

CompactedBuffers(blen) ==
    {Moved(blen, bad) : bad \in IF blen <= handleOffest THEN {{}} ELSE SUBSET (0 .. blen - 1)}

\* onCheckBuffer: the memory, the handled offset and the end it may leave.
OnCheckBuffer ==
    LET blen == buffOffest - handleOffest
    IN  IF NeedsCompact
          THEN {[buf |-> b, handle |-> 0, end |-> blen] : b \in CompactedBuffers(blen)}
          ELSE {[buf |-> buffer, handle |-> handleOffest, end |-> buffOffest]}

\* *(int*)_handleOffest: the peer's length field when the cell holds the first
\* byte of the frame, else whatever is there.
LengthField(c) == IF c.buf[c.handle] = consumed THEN {frameLen} ELSE Lens

\* nextMessageLength: the values it may return.
NextMessageLength(c) ==
    IF c.end - c.handle >= HeaderLen
      THEN {IF len < HeaderLen THEN ReadBufferError
            ELSE IF c.end - c.handle >= len THEN len ELSE ReadBufferNoMessage
              : len \in LengthField(c)}
      ELSE {ReadBufferNoMessage}

-----------------------------------------------------------------------------
Init ==
    /\ buffer = [i \in Cells |-> NoByte]
    /\ buffOffest = 0
    /\ handleOffest = 0
    /\ pc = "armed"
    /\ received = 0
    /\ consumed = 0
    /\ frameLen \in Lens
    /\ msg = NoMsg

\* readNewData after a read_some of k bytes into getBuffer().
ReadNewData(k) ==
    /\ buffer' = [i \in Cells |-> IF i \in buffOffest .. buffOffest + k - 1
                                    THEN received + (i - buffOffest)
                                    ELSE buffer[i]]
    /\ buffOffest' = buffOffest + k
    /\ received' = received + k

\* handleRead, the socket is readable: read_some takes what the peer has sent,
\* at most the room left.  With no room left it reads nothing and succeeds.
HandleRead ==
    /\ pc = "armed"
    /\ \E k \in 0 .. GetAvailableBufferSize :
          /\ k = 0 <=> GetAvailableBufferSize = 0
          /\ received + k <= MaxStream
          /\ ReadNewData(k)
    /\ pc' = "parsing"
    /\ UNCHANGED <<handleOffest, consumed, frameLen, msg>>

\* handleRead, the socket failed or the peer closed: the read is not armed again.
ReadFailed ==
    /\ pc = "armed"
    /\ pc' = "stopped"
    /\ UNCHANGED <<buffer, buffOffest, handleOffest, received, consumed, frameLen, msg>>

\* One message per read, without the loop.
HandOut_Variant(c, r) ==
    /\ r >= HeaderLen
    /\ msg' = [from |-> consumed, len |-> frameLen,
               bytes |-> [j \in 0 .. r - 1 |-> c.buf[c.handle + j]]]
    /\ handleOffest' = c.handle + r
    /\ consumed' = consumed + frameLen
    /\ frameLen' \in Lens
    /\ pc' = "armed"

\* getMessage hands out the slice of r bytes; the loop goes on.
HandOut(c, r) ==
    /\ r >= HeaderLen
    /\ msg' = [from |-> consumed, len |-> frameLen,
               bytes |-> [j \in 0 .. r - 1 |-> c.buf[c.handle + j]]]
    /\ handleOffest' = c.handle + r
    /\ consumed' = consumed + frameLen
    /\ frameLen' \in Lens
    /\ pc' = "parsing"

\* getMessage finds no whole frame: the loop ends and postReadNull arms the read.
NoMessage(c, r) ==
    /\ r = ReadBufferNoMessage
    /\ handleOffest' = c.handle
    /\ pc' = "armed"
    /\ UNCHANGED <<consumed, frameLen, msg>>

\* getMessage meets a length shorter than a header: handleRead gives up.
BadLength(c, r) ==
    /\ r = ReadBufferError
    /\ handleOffest' = c.handle
    /\ pc' = "stopped"
    /\ UNCHANGED <<consumed, frameLen, msg>>

\* One turn of the loop of handleRead: getMessage and what handleRead makes of it.
GetMessage ==
    /\ pc = "parsing"
    /\ \E c \in OnCheckBuffer : \E r \in NextMessageLength(c) :
          /\ buffer' = c.buf
          /\ buffOffest' = c.end
          /\ HandOut(c, r) \/ NoMessage(c, r) \/ BadLength(c, r)
    /\ UNCHANGED received

\* The bytes of the dead connection stay in the buffer.
Reset_Variant ==
    /\ pc = "stopped"
    /\ consumed' = received
    /\ frameLen' \in Lens
    /\ pc' = "armed"
    /\ UNCHANGED <<buffer, buffOffest, handleOffest, received, msg>>

\* reset by a handler that reconnects: what was received and not handed out is
\* dropped, and a new connection brings a new frame.
Reset ==
    /\ pc = "stopped"
    /\ buffOffest' = 0
    /\ handleOffest' = 0
    /\ consumed' = received
    /\ frameLen' \in Lens
    /\ pc' = "armed"
    /\ UNCHANGED <<buffer, received, msg>>

Next == HandleRead \/ ReadFailed \/ GetMessage \/ Reset

Spec == Init /\ [][Next]_vars

\* The net thread runs its handlers, and the peer goes on sending up to the
\* bound; nothing says that a connection must fail or a handler reconnect.
FairSpec == Spec /\ WF_vars(HandleRead) /\ WF_vars(GetMessage)

-----------------------------------------------------------------------------
\* The types of the variables, and that the offsets of the class stay inside
\* its allocation.
TypeOK ==
    /\ buffer \in [Cells -> Int]
    /\ buffOffest \in 0 .. BufSize
    /\ handleOffest \in 0 .. buffOffest
    /\ pc \in {"armed", "parsing", "stopped"}
    /\ received \in Nat
    /\ consumed \in Nat
    /\ frameLen \in Lens
    /\ msg.from \in Nat
    /\ msg.len \in Int

\* Between _handleOffest and _buffOffest lie, in order and without a gap, the
\* bytes received since the last frame handed out: no read, compaction or reset
\* loses, repeats or moves one out of place.
Window ==
    /\ received - consumed = buffOffest - handleOffest
    /\ \A i \in handleOffest .. buffOffest - 1 : buffer[i] = consumed + (i - handleOffest)

\* A frame handed to sessionReceiveMessage is exactly the bytes the peer sent
\* for it, as many as its length field says.
FrameIntegrity == msg.bytes = StreamBytes(msg.from, msg.len)

\* The comment of onCheckBuffer: when it compacts, the first half is all
\* handled, so the memcpy never overlaps.
CopyIsDisjoint ==
    NeedsCompact => buffOffest - handleOffest <= handleOffest

\* handleRead arms the next read only when no complete frame, and no frame it
\* should have refused, is left in the buffer: a message never waits for a
\* later one to arrive.
NoFrameLeftBehind ==
    pc = "armed" => \/ received - consumed < HeaderLen
                    \/ HeaderLen <= frameLen /\ received - consumed < frameLen

\* The longest frame that can never jam the buffer.
SafeLen == BufSize - CompactAbove

\* A read is armed on a full buffer (it then reads 0 bytes for ever) only when
\* the frame being received, or the header itself, is longer than SafeLen.
NoJam ==
    pc = "armed" /\ GetAvailableBufferSize = 0 => frameLen > SafeLen \/ HeaderLen > SafeLen

\* Every frame of at most SafeLen bytes whose bytes arrive is handed out, or
\* the connection is given up.
SafeFramesArrive ==
    \A p \in 0 .. MaxStream :
        (consumed = p /\ frameLen \in HeaderLen .. SafeLen /\ p + frameLen <= MaxStream)
            ~> (consumed > p \/ pc = "stopped")

\* The read buffer implements the abstract stream of frames: each of its steps
\* is a step of FrameStream or leaves that stream alone.
Frames == INSTANCE FrameStream WITH up <- (pc # "stopped")

ImplementsFrameStream == Frames!Spec

\* What the default buffer size promises (n = MaxMsgLength): a frame that fits
\* the buffer can always be received whole.
FittingFrameHasRoom ==
    pc = "armed" /\ GetAvailableBufferSize = 0 => frameLen > BufSize
=============================================================================
