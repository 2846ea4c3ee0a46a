--------------------------- MODULE ReadBufferProofs ---------------------------
(***************************************************************************)
(* The safety of the read buffer for every buffer size, header length and  *)
(* set of length fields, and that it implements FrameStream.               *)
(***************************************************************************)
EXTENDS ReadBuffer, TLAPS

USE DEF Cells, NoByte, ReadBufferError, ReadBufferNoMessage, GetAvailableBufferSize,
        NeedsCompact, StreamBytes

\* The invariant that is inductive: an armed read follows a getMessage that
\* compacted if it had to, which NoJam needs and no other property says.
Compacted == pc = "armed" => handleOffest <= CompactAbove

IndInv == TypeOK /\ Window /\ FrameIntegrity /\ NoFrameLeftBehind /\ Compacted

\* The threshold of onCheckBuffer is past the middle of the buffer.
LEMMA ThresholdPastMiddle ==
    CompactAbove \in Nat /\ 2 * CompactAbove > BufSize
BY ReadBufferAssumption DEF CompactAbove

\* Whatever onCheckBuffer decides, the memcpy it makes does not overlap.
LEMMA DisjointCopy == TypeOK => CopyIsDisjoint
BY ThresholdPastMiddle, ReadBufferAssumption DEF TypeOK, CopyIsDisjoint

\* onCheckBuffer keeps the unhandled bytes, in order, and leaves the handled
\* offset below the threshold.
LEMMA CheckedBuffer ==
    ASSUME TypeOK, Window, NEW c \in OnCheckBuffer
    PROVE  /\ c.buf \in [Cells -> Int]
           /\ c.end \in 0 .. BufSize
           /\ c.handle \in 0 .. c.end
           /\ c.handle <= CompactAbove
           /\ c.end - c.handle = received - consumed
           /\ \A i \in c.handle .. c.end - 1 : c.buf[i] = consumed + (i - c.handle)
<1> DEFINE blen == buffOffest - handleOffest
<1>1. CASE NeedsCompact
  <2>1. blen <= handleOffest
    BY <1>1, DisjointCopy DEF CopyIsDisjoint
  <2>2. c = [buf |-> Moved(blen, {}), handle |-> 0, end |-> blen]
    BY <1>1, <2>1 DEF OnCheckBuffer, CompactedBuffers
  <2>3. blen \in 0 .. BufSize /\ \A i \in 0 .. blen - 1 : handleOffest + i \in handleOffest .. buffOffest - 1
    BY ReadBufferAssumption DEF TypeOK
  <2>4. \A i \in Cells : Moved(blen, {})[i] = IF i < blen THEN buffer[handleOffest + i] ELSE NoByte
    BY DEF Moved
  <2>5. Moved(blen, {}) \in [Cells -> Int]
    BY <2>3, ReadBufferAssumption DEF Moved, TypeOK
  <2>6. \A i \in 0 .. blen - 1 : Moved(blen, {})[i] = consumed + (i - 0)
    BY <2>3, <2>4, ReadBufferAssumption DEF TypeOK, Window
  <2> QED
    BY <2>2, <2>3, <2>5, <2>6, ThresholdPastMiddle DEF TypeOK, Window
<1>2. CASE ~NeedsCompact
  <2>1. c = [buf |-> buffer, handle |-> handleOffest, end |-> buffOffest]
    BY <1>2 DEF OnCheckBuffer
  <2> QED
    BY <1>2, <2>1, ThresholdPastMiddle DEF TypeOK, Window
<1> QED BY <1>1, <1>2

\* What nextMessageLength returns tells the state of the frame being received.
LEMMA NextLength ==
    ASSUME TypeOK, Window, NEW c \in OnCheckBuffer, NEW r \in NextMessageLength(c)
    PROVE  \/ /\ r = ReadBufferError
              /\ frameLen < HeaderLen
           \/ /\ r = ReadBufferNoMessage
              /\ \/ received - consumed < HeaderLen
                 \/ HeaderLen <= frameLen /\ received - consumed < frameLen
           \/ /\ r = frameLen
              /\ HeaderLen <= frameLen
              /\ frameLen <= received - consumed
<1>1. /\ c.end \in Int /\ c.handle \in Int
      /\ c.end - c.handle = received - consumed
      /\ \A i \in c.handle .. c.end - 1 : c.buf[i] = consumed + (i - c.handle)
  BY CheckedBuffer, ReadBufferAssumption
<1>2. CASE c.end - c.handle >= HeaderLen
  <2>1. c.handle \in c.handle .. c.end - 1
    BY <1>1, <1>2, ReadBufferAssumption
  <2>a. c.buf[c.handle] = consumed
    BY <1>1, <2>1 DEF TypeOK
  <2>2. r = IF frameLen < HeaderLen THEN ReadBufferError
            ELSE IF c.end - c.handle >= frameLen THEN frameLen ELSE ReadBufferNoMessage
    BY <1>2, <2>a DEF NextMessageLength, LengthField
  <2> QED BY <1>1, <2>2, ReadBufferAssumption DEF TypeOK
<1>3. CASE ~(c.end - c.handle >= HeaderLen)
  BY <1>1, <1>3, ReadBufferAssumption DEF NextMessageLength, TypeOK
<1> QED BY <1>2, <1>3

\* A frame handed out is the slice of the stream from consumed on.
LEMMA HandedOutBytes ==
    ASSUME TypeOK, Window, NEW c \in OnCheckBuffer,
           HeaderLen <= frameLen, frameLen <= received - consumed
    PROVE  [j \in 0 .. frameLen - 1 |-> c.buf[c.handle + j]] = StreamBytes(consumed, frameLen)
<1> SUFFICES ASSUME NEW j \in 0 .. frameLen - 1
             PROVE  c.buf[c.handle + j] = consumed + j
  OBVIOUS
<1>1. /\ c.end \in Int /\ c.handle \in Int
      /\ c.end - c.handle = received - consumed
      /\ \A i \in c.handle .. c.end - 1 : c.buf[i] = consumed + (i - c.handle)
  BY CheckedBuffer, ReadBufferAssumption
<1>2. frameLen \in Int /\ consumed \in Int
  BY ReadBufferAssumption DEF TypeOK
<1>3. c.handle + j \in c.handle .. c.end - 1
  BY <1>1, <1>2
<1> QED BY <1>1, <1>2, <1>3

LEMMA InitIndInv == Init => IndInv
BY ReadBufferAssumption, ThresholdPastMiddle
   DEF Init, IndInv, TypeOK, Window, FrameIntegrity, NoFrameLeftBehind, Compacted, NoMsg

\* Reading appends the next bytes of the stream behind the window.
LEMMA HandleReadStep == IndInv /\ HandleRead => IndInv'
<1> SUFFICES ASSUME IndInv, HandleRead PROVE IndInv'
  OBVIOUS
<1> USE ReadBufferAssumption
<1>1. PICK k \in 0 .. GetAvailableBufferSize : ReadNewData(k)
  BY DEF HandleRead
<1>2. TypeOK'
  BY <1>1 DEF IndInv, TypeOK, HandleRead, ReadNewData
<1>3. Window'
  <2>1. received' - consumed' = buffOffest' - handleOffest'
    BY <1>1 DEF IndInv, TypeOK, Window, HandleRead, ReadNewData
  <2>2. ASSUME NEW i \in handleOffest' .. buffOffest' - 1
        PROVE  buffer'[i] = consumed' + (i - handleOffest')
    <3>1. i \in Cells
      BY <1>1 DEF IndInv, TypeOK, HandleRead, ReadNewData
    <3>2. CASE i < buffOffest
      BY <1>1, <3>1, <3>2 DEF IndInv, TypeOK, Window, HandleRead, ReadNewData
    <3>3. CASE i >= buffOffest
      BY <1>1, <3>1, <3>3 DEF IndInv, TypeOK, Window, HandleRead, ReadNewData
    <3> QED BY <3>1, <3>2, <3>3 DEF IndInv, TypeOK
  <2> QED BY <2>1, <2>2 DEF Window
<1> QED
  BY <1>2, <1>3 DEF IndInv, FrameIntegrity, NoFrameLeftBehind, Compacted, HandleRead

\* A turn of the parsing loop, whatever getMessage returns.
LEMMA GetMessageStep == IndInv /\ GetMessage => IndInv'
<1> SUFFICES ASSUME IndInv, GetMessage PROVE IndInv'
  OBVIOUS
<1> USE ReadBufferAssumption
<1>0. TypeOK /\ Window
  BY DEF IndInv
<1>a. PICK c \in OnCheckBuffer : \E r \in NextMessageLength(c) :
         /\ buffer' = c.buf
         /\ buffOffest' = c.end
         /\ HandOut(c, r) \/ NoMessage(c, r) \/ BadLength(c, r)
  BY DEF GetMessage
<1>1. PICK r \in NextMessageLength(c) :
         /\ buffer' = c.buf
         /\ buffOffest' = c.end
         /\ HandOut(c, r) \/ NoMessage(c, r) \/ BadLength(c, r)
  BY <1>a
<1>2. received' = received
  BY DEF GetMessage
<1>3. /\ c.buf \in [Cells -> Int]
      /\ c.end \in 0 .. BufSize
      /\ c.handle \in 0 .. c.end
      /\ c.handle <= CompactAbove
      /\ c.end - c.handle = received - consumed
      /\ \A i \in c.handle .. c.end - 1 : c.buf[i] = consumed + (i - c.handle)
  BY <1>0, CheckedBuffer
<1>4. \/ r = ReadBufferError /\ frameLen < HeaderLen
      \/ /\ r = ReadBufferNoMessage
         /\ \/ received - consumed < HeaderLen
            \/ HeaderLen <= frameLen /\ received - consumed < frameLen
      \/ r = frameLen /\ HeaderLen <= frameLen /\ frameLen <= received - consumed
  BY <1>0, NextLength
<1>5. CASE HandOut(c, r)
  <2>1. r = frameLen /\ HeaderLen <= frameLen /\ frameLen <= received - consumed
    BY <1>4, <1>5 DEF HandOut
  <2>2. FrameIntegrity'
    BY <1>0, <1>5, <2>1, HandedOutBytes DEF HandOut, FrameIntegrity
  <2>a. /\ frameLen \in Int /\ consumed \in Nat /\ received \in Nat
        /\ c.handle \in Int /\ c.end \in Int
        /\ c.end - c.handle = received - consumed
    BY <1>0, <1>3 DEF TypeOK
  <2>b. handleOffest' = c.handle + frameLen /\ consumed' = consumed + frameLen
    BY <1>5, <2>1 DEF HandOut
  <2>c. /\ c.handle + frameLen <= c.end
        /\ consumed + frameLen <= received
        /\ received - (consumed + frameLen) = c.end - (c.handle + frameLen)
    BY <2>1, <2>a
  <2>3. TypeOK'
    <3>1. handleOffest' \in 0 .. buffOffest' /\ consumed' \in Nat
      BY <1>1, <1>3, <2>1, <2>a, <2>b, <2>c, SMTT(40)
    <3>2. frameLen' \in Lens /\ pc' = "parsing" /\ msg'.from = consumed /\ msg'.len = frameLen
      BY <1>5 DEF HandOut
    <3> QED
      BY <1>0, <1>1, <1>2, <1>3, <2>a, <2>b, <2>c, <3>1, <3>2 DEF TypeOK
  <2>4. Window'
    <3>1. received' - consumed' = buffOffest' - handleOffest'
      BY <1>1, <1>2, <2>a, <2>b, <2>c
    <3>2. ASSUME NEW i \in handleOffest' .. buffOffest' - 1
          PROVE  buffer'[i] = consumed' + (i - handleOffest')
      <4>1. i \in c.handle .. c.end - 1
        BY <1>1, <1>3, <2>1, <2>a, <2>b, <2>c
      <4> QED BY <1>1, <1>3, <2>a, <2>b, <2>c, <4>1, SMTT(40)
    <3> QED BY <3>1, <3>2 DEF Window
  <2> QED
    BY <1>5, <2>2, <2>3, <2>4 DEF HandOut, IndInv, NoFrameLeftBehind, Compacted
<1>6. CASE NoMessage(c, r)
  <2>1. TypeOK'
    BY <1>1, <1>2, <1>3, <1>6 DEF NoMessage, IndInv, TypeOK
  <2>2. Window'
    BY <1>1, <1>2, <1>3, <1>6 DEF NoMessage, Window
  <2>3. NoFrameLeftBehind' /\ Compacted'
    BY <1>2, <1>3, <1>4, <1>6 DEF NoMessage, NoFrameLeftBehind, Compacted, IndInv, TypeOK, CompactAbove
  <2> QED
    BY <1>6, <2>1, <2>2, <2>3 DEF NoMessage, IndInv, FrameIntegrity
<1>7. CASE BadLength(c, r)
  <2>1. TypeOK'
    BY <1>1, <1>2, <1>3, <1>7 DEF BadLength, IndInv, TypeOK
  <2>2. Window'
    BY <1>1, <1>2, <1>3, <1>7 DEF BadLength, Window
  <2> QED
    BY <1>7, <2>1, <2>2 DEF BadLength, IndInv, FrameIntegrity, NoFrameLeftBehind, Compacted
<1> QED BY <1>1, <1>5, <1>6, <1>7

\* Every step of the session's read side keeps the invariant.
LEMMA NextIndInv == IndInv /\ [Next]_vars => IndInv'
<1> SUFFICES ASSUME IndInv, [Next]_vars PROVE IndInv'
  OBVIOUS
<1>1. CASE HandleRead
  BY <1>1, HandleReadStep
<1>2. CASE ReadFailed
  BY <1>2 DEF ReadFailed, IndInv, TypeOK, Window, FrameIntegrity, NoFrameLeftBehind, Compacted
<1>3. CASE GetMessage
  BY <1>3, GetMessageStep
<1>4. CASE Reset
  BY <1>4, ReadBufferAssumption, ThresholdPastMiddle
     DEF Reset, IndInv, TypeOK, Window, FrameIntegrity, NoFrameLeftBehind, Compacted
<1>5. CASE UNCHANGED vars
  BY <1>5 DEF vars, IndInv, TypeOK, Window, FrameIntegrity, NoFrameLeftBehind, Compacted
<1> QED BY <1>1, <1>2, <1>3, <1>4, <1>5 DEF Next

\* The inductive invariant holds of every behaviour of the read side.
THEOREM Invariance == Spec => []IndInv
BY InitIndInv, NextIndInv, PTL DEF Spec

\* The offsets of ReadBuffer never leave its allocation, for any buffer size.
THEOREM TypeCorrect == Spec => []TypeOK
<1>1. IndInv => TypeOK
  BY DEF IndInv
<1> QED BY <1>1, Invariance, PTL

\* No byte is lost, repeated or moved out of place by reads, compactions and
\* resets, for any buffer size and any frame lengths.
THEOREM WindowHolds == Spec => []Window
<1>1. IndInv => Window
  BY DEF IndInv
<1> QED BY <1>1, Invariance, PTL

\* Every frame handed to sessionReceiveMessage is exactly what the peer sent.
THEOREM FramesAreIntact == Spec => []FrameIntegrity
<1>1. IndInv => FrameIntegrity
  BY DEF IndInv
<1> QED BY <1>1, Invariance, PTL

\* The comment of onCheckBuffer is right: its memcpy never overlaps.
THEOREM MemcpyIsSafe == Spec => []CopyIsDisjoint
<1>1. IndInv => CopyIsDisjoint
  BY DisjointCopy DEF IndInv
<1> QED BY <1>1, Invariance, PTL

\* handleRead never waits for more bytes while a whole frame is in the buffer.
THEOREM NothingLeftBehind == Spec => []NoFrameLeftBehind
<1>1. IndInv => NoFrameLeftBehind
  BY DEF IndInv
<1> QED BY <1>1, Invariance, PTL

\* Frames of at most SafeLen bytes never jam a buffer of any size.
THEOREM SafeFramesNeverJam == Spec => []NoJam
<1>1. IndInv => NoJam
  BY ReadBufferAssumption, ThresholdPastMiddle
     DEF IndInv, NoJam, TypeOK, Window, NoFrameLeftBehind, Compacted, SafeLen
<1> QED BY <1>1, Invariance, PTL

-----------------------------------------------------------------------------
\* One step of the buffer is a step of the abstract stream or leaves it alone.
LEMMA StepRefines == IndInv /\ [Next]_vars => [Frames!Next]_(Frames!streamVars)
<1> SUFFICES ASSUME IndInv, [Next]_vars PROVE [Frames!Next]_(Frames!streamVars)
  OBVIOUS
<1> USE DEF Frames!streamVars, Frames!Next
<1>1. CASE HandleRead
  BY <1>1, ReadBufferAssumption DEF HandleRead, ReadNewData, IndInv, TypeOK, Frames!Arrive
<1>2. CASE ReadFailed
  BY <1>2 DEF ReadFailed, Frames!GiveUp
<1>3. CASE GetMessage
  <2>0. TypeOK /\ Window
    BY DEF IndInv
  <2>a. PICK c \in OnCheckBuffer : \E r \in NextMessageLength(c) :
           HandOut(c, r) \/ NoMessage(c, r) \/ BadLength(c, r)
    BY <1>3 DEF GetMessage
  <2>1. PICK r \in NextMessageLength(c) : HandOut(c, r) \/ NoMessage(c, r) \/ BadLength(c, r)
    BY <2>a
  <2>2. pc = "parsing" /\ received' = received
    BY <1>3 DEF GetMessage
  <2>3. CASE HandOut(c, r)
    <3>1. r = frameLen /\ HeaderLen <= frameLen /\ frameLen <= received - consumed
      BY <2>0, <2>3, NextLength, ReadBufferAssumption DEF HandOut
    <3>2. [j \in 0 .. r - 1 |-> c.buf[c.handle + j]] = Frames!Bytes(consumed, frameLen)
      BY <2>0, <3>1, HandedOutBytes DEF Frames!Bytes
    <3>3. consumed + frameLen <= received
      BY <2>0, <3>1, ReadBufferAssumption DEF TypeOK
    <3>4. Frames!Deliver
      BY <2>2, <2>3, <3>1, <3>2, <3>3, ReadBufferAssumption DEF HandOut, Frames!Deliver, TypeOK
    <3> QED BY <3>4
  <2>4. CASE NoMessage(c, r)
    BY <2>2, <2>4 DEF NoMessage
  <2>5. CASE BadLength(c, r)
    BY <2>2, <2>5 DEF BadLength, Frames!GiveUp
  <2> QED BY <2>1, <2>3, <2>4, <2>5
<1>4. CASE Reset
  BY <1>4 DEF Reset, Frames!Restart
<1>5. CASE UNCHANGED vars
  BY <1>5 DEF vars
<1> QED BY <1>1, <1>2, <1>3, <1>4, <1>5 DEF Next

\* The read buffer implements the abstract stream of frames.
THEOREM Refinement == Spec => ImplementsFrameStream
<1>1. Init => Frames!Init
  BY DEF Init, Frames!Init, NoMsg, Frames!Bytes
<1> QED
  BY <1>1, StepRefines, Invariance, PTL DEF Spec, ImplementsFrameStream, Frames!Spec
=============================================================================
