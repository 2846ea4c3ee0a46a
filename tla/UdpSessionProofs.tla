--------------------------- MODULE UdpSessionProofs ---------------------------
(***************************************************************************)
(* Of a UDP session with the documented handler: the read, the send and    *)
(* the handlers follow one another, so that the unprotected buffers never  *)
(* overflow and answers go to the sender, for any sizes of buffer, header  *)
(* and datagrams, any peers and any number of datagrams and errors.        *)
(* Everything rests on OneAtATime: the one operation that is under way is  *)
(* the head of its queue, and the invariant says what it carries.          *)
(***************************************************************************)
EXTENDS UdpSession, SequenceTheorems, TLAPS

NetOp == [op : {"doRead", "onWrite"}] \cup [op : {"onRead"}, bytes : Seq(Byte)]
LogicOp == [op : {"onWrite"}] \cup [op : {"onReceive"}, msg : Seq(Byte)]

Flags == started \in BOOLEAN /\ small \in BOOLEAN /\ exact \in BOOLEAN /\ lost \in BOOLEAN

Typed ==
    /\ platform \in {"linux", "windows"}
    /\ handle \in 0 .. BufSize /\ unhandled \in Seq(Byte)
    /\ reads \in Nat /\ ep \in Peers \cup {NoPeer}
    /\ writeBuffer \in Seq(Byte) /\ Len(writeBuffer) <= BufSize
    /\ sends \in Seq([to : Peers, n : 1 .. BufSize])
    /\ netq \in Seq(NetOp)
    /\ logicq \in Seq(LogicOp)
    /\ count \in 0 .. MaxDgrams
    /\ last \in [from : Peers \cup {NoPeer}, size : Nat, len : Int]
    /\ errors \in 0 .. MaxErrors
    /\ Room >= 0

\* A datagram waits for onRead: of its bytes those for which there was room.
Reading ==
    netq # <<>> /\ Head(netq).op = "onRead" /\ Head(netq).bytes # <<>> =>
       /\ Head(netq).bytes = Bytes(count, MinOf(last.size, Room))
       /\ count > 0 /\ ep = last.from /\ ep \in Peers

\* A message waits for the handler.
Calling ==
    logicq # <<>> /\ Head(logicq).op = "onReceive" =>
       /\ Len(Head(logicq).msg) \in 1 .. BufSize
       /\ ep = last.from /\ ep \in Peers
       /\ exact => Head(logicq).msg = Bytes(count, last.size)

\* An answer is being sent.
Sending ==
    sends # <<>> =>
       /\ Head(sends).to = last.from
       /\ exact => Head(sends).n = last.size /\ writeBuffer = Bytes(count, last.size)

\* The write buffer is in use only from the answer to onWrite.
Free == writeBuffer # <<>> => sends # <<>> \/ (netq # <<>> /\ Head(netq).op = "onWrite")

\* Datagrams without anything behind their message leave nothing unhandled.
NothingLeft == exact => unhandled = <<>> /\ last.size <= last.len

\* Small ones never push the offset so far that the next does not fit.
NeverFar ==
    small =>
       /\ exact /\ ~lost
       /\ handle <= CompactAbove + SafeSize
       /\ count > 0 => last.size = last.len /\ last.len \in HeaderLen .. SafeSize

IndInv == Typed /\ OneAtATime /\ Reading /\ Calling /\ Sending /\ Free /\ NothingLeft /\ NeverFar

-----------------------------------------------------------------------------
(* Sequences with at most one element. *)

LEMMA One ==
    ASSUME NEW S, NEW q \in Seq(S)
    PROVE  /\ Len(q) \in Nat
           /\ q = <<>> <=> Len(q) = 0
           /\ Len(q) = 1 => Tail(q) = <<>> /\ q[1] = Head(q) /\ Head(q) \in S
OBVIOUS

LEMMA Single ==
    ASSUME NEW x
    PROVE  /\ Append(<<>>, x) = <<x>> /\ Head(<<x>>) = x /\ <<x>> # <<>> /\ Len(<<x>>) = 1
           /\ <<x>>[1] = x
OBVIOUS

LEMMA SingleType ==
    ASSUME NEW S, NEW x \in S
    PROVE  <<x>> \in Seq(S)
OBVIOUS

\* What is under way is alone.
LEMMA Alone ==
    ASSUME Typed, OneAtATime
    PROVE  /\ reads > 0 => reads = 1 /\ sends = <<>> /\ netq = <<>> /\ logicq = <<>>
           /\ sends # <<>> => reads = 0 /\ Len(sends) = 1 /\ netq = <<>> /\ logicq = <<>>
           /\ netq # <<>> => reads = 0 /\ sends = <<>> /\ Len(netq) = 1 /\ logicq = <<>>
           /\ logicq # <<>> => reads = 0 /\ sends = <<>> /\ netq = <<>> /\ Len(logicq) = 1
           /\ ~started => reads = 0 /\ sends = <<>> /\ netq = <<>> /\ logicq = <<>>
<1>1. /\ reads \in Nat /\ Len(sends) \in Nat /\ Len(netq) \in Nat /\ Len(logicq) \in Nat
      /\ sends = <<>> <=> Len(sends) = 0
      /\ netq = <<>> <=> Len(netq) = 0
      /\ logicq = <<>> <=> Len(logicq) = 0
  BY One DEF Typed
<1>2. CASE started
  <2>1. reads + Len(sends) + Len(netq) + Len(logicq) = 1
    BY <1>2 DEF OneAtATime
  <2>2. /\ reads > 0 => reads = 1 /\ Len(sends) = 0 /\ Len(netq) = 0 /\ Len(logicq) = 0
        /\ Len(sends) # 0 => reads = 0 /\ Len(sends) = 1 /\ Len(netq) = 0 /\ Len(logicq) = 0
        /\ Len(netq) # 0 => reads = 0 /\ Len(sends) = 0 /\ Len(netq) = 1 /\ Len(logicq) = 0
        /\ Len(logicq) # 0 => reads = 0 /\ Len(sends) = 0 /\ Len(netq) = 0 /\ Len(logicq) = 1
    <3> DEFINE b == Len(sends)
               c == Len(netq)
               d == Len(logicq)
    <3>1. reads \in Nat /\ b \in Nat /\ c \in Nat /\ d \in Nat /\ reads + b + c + d = 1
      BY <1>1, <2>1
    <3> HIDE DEF b, c, d
    <3>2. /\ reads > 0 => reads = 1 /\ b = 0 /\ c = 0 /\ d = 0
          /\ b # 0 => reads = 0 /\ b = 1 /\ c = 0 /\ d = 0
          /\ c # 0 => reads = 0 /\ b = 0 /\ c = 1 /\ d = 0
          /\ d # 0 => reads = 0 /\ b = 0 /\ c = 0 /\ d = 1
      BY <3>1
    <3> QED BY <3>2 DEF b, c, d
  <2> QED BY <1>1, <1>2, <2>2, Zenon
<1>3. CASE ~started
  <2>1. reads + Len(sends) + Len(netq) + Len(logicq) = 0
    BY <1>3 DEF OneAtATime
  <2>2. /\ reads > 0 => reads = 1 /\ Len(sends) = 0 /\ Len(netq) = 0 /\ Len(logicq) = 0
        /\ Len(sends) # 0 => reads = 0 /\ Len(sends) = 1 /\ Len(netq) = 0 /\ Len(logicq) = 0
        /\ Len(netq) # 0 => reads = 0 /\ Len(sends) = 0 /\ Len(netq) = 1 /\ Len(logicq) = 0
        /\ Len(logicq) # 0 => reads = 0 /\ Len(sends) = 0 /\ Len(netq) = 0 /\ Len(logicq) = 1
        /\ reads = 0 /\ Len(sends) = 0 /\ Len(netq) = 0 /\ Len(logicq) = 0
    BY <1>1, <2>1
  <2> QED BY <1>1, <1>3, <2>2, Zenon
<1> QED BY <1>2, <1>3

\* The bytes of a datagram.
LEMMA BytesFacts ==
    ASSUME NEW d \in 1 .. MaxDgrams, NEW n \in Nat
    PROVE  /\ Bytes(d, n) \in Seq(Byte) /\ Len(Bytes(d, n)) = n
           /\ n > 0 => Bytes(d, n)[1] = <<d, 0>>
           /\ Bytes(d, n) = <<>> <=> n = 0
<1>1. \A i \in 1 .. n : <<d, i - 1>> \in Byte
  BY DEF Byte
<1>2. Bytes(d, n) \in [1 .. n -> Byte]
  BY <1>1 DEF Bytes
<1>3. Bytes(d, n) \in Seq(Byte) /\ Len(Bytes(d, n)) = n
  BY <1>2
<1>4. n > 0 => Bytes(d, n)[1] = <<d, 0>>
  BY DEF Bytes
<1>5. Bytes(d, n) = <<>> <=> n = 0
  BY <1>3
<1> QED BY <1>3, <1>4, <1>5

\* What nextMessageLength returns lies inside the data.
LEMMA LengthFacts ==
    ASSUME Typed, NEW data \in Seq(Byte), NEW len \in NextMessageLength(data)
    PROVE  len \in Int /\ len <= Len(data)
BY UdpSessionAssumption DEF Typed, NextMessageLength, LengthField

\* The order of the sizes that SafeSize depends on.
LEMMA Sizes ==
    /\ CompactAbove \in Nat /\ SafeSize \in Nat /\ CompactAbove <= BufSize
    /\ CompactAbove + 2 * SafeSize <= BufSize
BY UdpSessionAssumption DEF CompactAbove, SafeSize

\* The handlers that carry nothing.
DoReadOp == [op |-> "doRead"]
OnWriteOp == [op |-> "onWrite"]
OnReadOp(bytes) == [op |-> "onRead", bytes |-> bytes]
OnReceiveOp(msg) == [op |-> "onReceive", msg |-> msg]

LEMMA OpFacts ==
    /\ DoReadOp \in NetOp /\ OnWriteOp \in NetOp /\ OnWriteOp \in LogicOp
    /\ DoReadOp.op = "doRead" /\ OnWriteOp.op = "onWrite"
BY DEF NetOp, LogicOp, DoReadOp, OnWriteOp

LEMMA CarryFacts ==
    ASSUME NEW b \in Seq(Byte)
    PROVE  /\ OnReadOp(b) \in NetOp /\ OnReadOp(b).op = "onRead" /\ OnReadOp(b).bytes = b
           /\ OnReceiveOp(b) \in LogicOp /\ OnReceiveOp(b).op = "onReceive" /\ OnReceiveOp(b).msg = b
BY DEF NetOp, LogicOp, OnReadOp, OnReceiveOp

\* Whoever waits in a queue alone.
LEMMA NetAlone ==
    ASSUME Typed, OneAtATime, NEW op, NetHandler(op)
    PROVE  /\ reads = 0 /\ sends = <<>> /\ logicq = <<>> /\ netq' = <<>>
           /\ Head(netq).op = op /\ Head(netq) \in NetOp /\ Len(netq) = 1 /\ netq # <<>>
<1>1. netq # <<>> /\ netq \in Seq(NetOp) /\ netq' = Tail(netq) /\ Head(netq).op = op
  BY DEF NetHandler, Typed
<1>2. reads = 0 /\ sends = <<>> /\ Len(netq) = 1 /\ logicq = <<>>
  BY <1>1, Alone
<1>3. Tail(netq) = <<>> /\ Head(netq) \in NetOp
  BY <1>1, <1>2, One
<1> QED BY <1>1, <1>2, <1>3

LEMMA LogicAlone ==
    ASSUME Typed, OneAtATime, NEW op, Callback(op)
    PROVE  /\ reads = 0 /\ sends = <<>> /\ netq = <<>> /\ logicq' = <<>>
           /\ Head(logicq).op = op /\ Head(logicq) \in LogicOp /\ Len(logicq) = 1 /\ logicq # <<>>
<1>1. logicq # <<>> /\ logicq \in Seq(LogicOp) /\ logicq' = Tail(logicq) /\ Head(logicq).op = op
  BY DEF Callback, Typed
<1>2. reads = 0 /\ sends = <<>> /\ netq = <<>> /\ Len(logicq) = 1
  BY <1>1, Alone
<1>3. Tail(logicq) = <<>> /\ Head(logicq) \in LogicOp
  BY <1>1, <1>2, One
<1> QED BY <1>1, <1>2, <1>3

\* As many operations as before.
LEMMA SameCount ==
    ASSUME OneAtATime, started' = started,
           (reads + Len(sends) + Len(netq) + Len(logicq))' = reads + Len(sends) + Len(netq) + Len(logicq)
    PROVE  OneAtATime'
BY DEF OneAtATime

LEMMA EmptyFacts == Len(<<>>) = 0 /\ \A S : <<>> \in Seq(S)
OBVIOUS

\* startRead puts doRead into an empty queue; everything else is as it was.
LEMMA AsksForRead ==
    ASSUME IndInv, netq = <<>>, StartRead(netq), sends' = <<>>, logicq' = <<>>, writeBuffer = <<>>,
           UNCHANGED <<platform, readVars, ep, writeBuffer, history, errors>>, reads' = reads
    PROVE  Typed' /\ (Reading /\ Calling /\ Sending /\ Free /\ NothingLeft /\ NeverFar)' /\ Len(netq') = 1
<1>1. netq' = <<DoReadOp>>
  BY Single DEF StartRead, DoReadOp
<1>2. netq' \in Seq(NetOp) /\ Len(netq') = 1 /\ Head(netq').op = "doRead"
  BY <1>1, OpFacts, SingleType, Single
<1>3. Typed'
  BY <1>2, EmptyFacts DEF IndInv, Typed, readVars, history, Room
<1>4. Reading' /\ Calling' /\ Sending' /\ Free'
  BY <1>2 DEF Reading, Calling, Sending, Free
<1>5. NothingLeft' /\ NeverFar'
  BY DEF IndInv, NothingLeft, NeverFar, readVars, history
<1> QED BY <1>2, <1>3, <1>4, <1>5

LEMMA StartStep == IndInv /\ Start => IndInv'
<1> SUFFICES ASSUME IndInv, Start PROVE IndInv'
  OBVIOUS
<1>1. reads = 0 /\ sends = <<>> /\ netq = <<>> /\ logicq = <<>>
  BY Alone DEF IndInv, Start
<1>2. writeBuffer = <<>>
  BY <1>1 DEF IndInv, Free
<1>3. Typed' /\ (Reading /\ Calling /\ Sending /\ Free /\ NothingLeft /\ NeverFar)' /\ Len(netq') = 1
  BY <1>1, <1>2, AsksForRead DEF Start, writeVars
<1>4. OneAtATime'
  <2>1. reads' = 0 /\ sends' = <<>> /\ logicq' = <<>> /\ started'
    BY <1>1 DEF Start, writeVars
  <2> QED BY <1>3, <2>1, EmptyFacts DEF OneAtATime
<1> QED BY <1>3, <1>4, Zenon DEF IndInv

LEMMA OnReadAlone ==
    ASSUME NEW b \in Seq(Byte), netq = <<>>, netq' = Append(netq, OnReadOp(b))
    PROVE  /\ netq' \in Seq(NetOp) /\ Len(netq') = 1
           /\ Head(netq').op = "onRead" /\ Head(netq').bytes = b
BY Single, SingleType, CarryFacts

\* The datagram that arrives, and what the flags say of it.
LEMMA ReceiveEffect ==
    ASSUME Receive
    PROVE  \E p \in Peers, s \in Shapes :
              /\ ep' = p /\ last' = [from |-> p, size |-> s.size, len |-> s.len]
              /\ small' => small /\ s.size = s.len /\ s.len \in HeaderLen .. SafeSize
              /\ exact' <=> exact /\ s.size <= s.len
              /\ lost' => lost \/ s.size > Room
              /\ \/ Completes(<<>>)
                 \/ Completes(Bytes(count', MinOf(s.size, Room)))
BY Zenon DEF Receive

LEMMA ReceiveStep == IndInv /\ Receive => IndInv'
<1> SUFFICES ASSUME IndInv, Receive PROVE IndInv'
  OBVIOUS
<1>t. /\ Typed /\ OneAtATime /\ NothingLeft /\ NeverFar
      /\ platform' = platform /\ started' = started /\ handle' = handle /\ unhandled' = unhandled
      /\ writeBuffer' = writeBuffer /\ sends' = sends /\ logicq' = logicq /\ errors' = errors
      /\ reads > 0 /\ reads' = reads - 1 /\ count < MaxDgrams /\ count' = count + 1
  BY DEF IndInv, Receive, readVars, writeVars
<1>1. reads = 1 /\ sends = <<>> /\ netq = <<>> /\ logicq = <<>>
  BY <1>t, Alone
<1>2. writeBuffer = <<>>
  BY <1>1 DEF IndInv, Free
<1>3. PICK p \in Peers, s \in Shapes :
         /\ ep' = p /\ last' = [from |-> p, size |-> s.size, len |-> s.len]
         /\ small' => small /\ s.size = s.len /\ s.len \in HeaderLen .. SafeSize
         /\ exact' <=> exact /\ s.size <= s.len
         /\ lost' => lost \/ s.size > Room
         /\ \/ Completes(<<>>)
            \/ Completes(Bytes(count', MinOf(s.size, Room)))
  BY ReceiveEffect, Zenon
<1>s. s.size \in Nat /\ s.len \in Int /\ last'.from = p /\ last'.size = s.size /\ last'.len = s.len
  BY <1>3, UdpSessionAssumption
<1>r. Room' = Room /\ Room \in Nat /\ MinOf(s.size, Room) \in Nat
  <2>1. Room' = Room
    BY <1>t DEF Room
  <2>2. Room \in Nat
    BY <1>t, UdpSessionAssumption DEF Room, Typed
  <2> QED BY <1>s, <2>1, <2>2 DEF MinOf
<1>c. count' \in 1 .. MaxDgrams
  BY <1>t, UdpSessionAssumption DEF Typed
<1>4. PICK b \in {<<>>, Bytes(count', MinOf(s.size, Room))} : netq' = Append(netq, OnReadOp(b))
  BY <1>3 DEF Completes, OnReadOp
<1>5. b \in Seq(Byte)
  BY <1>c, <1>r, <1>4, BytesFacts, EmptyFacts
<1>6. /\ netq' \in Seq(NetOp) /\ Len(netq') = 1
      /\ Head(netq').op = "onRead" /\ Head(netq').bytes = b
  BY <1>1, <1>4, <1>5, OnReadAlone
<1>7. Typed'
  <2>1. last' \in [from : Peers \cup {NoPeer}, size : Nat, len : Int]
    BY <1>3, <1>s
  <2> QED BY <1>t, <1>1, <1>3, <1>6, <1>c, <1>r, <2>1 DEF Typed
<1>8. OneAtATime'
  <2>1. (reads + Len(sends) + Len(netq) + Len(logicq))' = reads + Len(sends) + Len(netq) + Len(logicq)
    BY <1>t, <1>1, <1>6, EmptyFacts
  <2> QED BY <1>t, <2>1, SameCount
<1>9. Reading'
  BY <1>3, <1>4, <1>6, <1>r, <1>s, <1>c DEF Reading
<1>10. Calling' /\ Sending' /\ Free'
  BY <1>t, <1>1, <1>2 DEF Calling, Sending, Free
<1>11. NothingLeft'
  BY <1>t, <1>3, <1>s DEF NothingLeft
<1>12. NeverFar'
  <2>1. ASSUME small' PROVE small /\ s.size = s.len /\ s.len \in HeaderLen .. SafeSize
    BY <1>3, <2>1, Zenon
  <2>2. ASSUME small' PROVE exact'
    <3>1. exact
      BY <1>t, <2>1, <2>2 DEF NeverFar
    <3>2. s.size <= s.len
      BY <1>s, <2>1, <2>2
    <3> QED BY <1>3, <3>1, <3>2, Zenon
  <2>3. ASSUME small' PROVE ~lost'
    <3>1. small /\ ~lost /\ handle <= CompactAbove + SafeSize /\ unhandled = <<>>
      BY <1>t, <2>1, <2>3 DEF NeverFar, NothingLeft
    <3>2. Room >= SafeSize
      BY <1>t, <3>1, Sizes, EmptyFacts, UdpSessionAssumption DEF Room, Typed
    <3>3. ~(s.size > Room)
      BY <1>s, <1>r, <2>1, <2>3, <3>2, Sizes
    <3> QED BY <1>3, <3>1, <3>3, Zenon
  <2> QED BY <1>t, <1>s, <2>1, <2>2, <2>3 DEF NeverFar
<1> QED BY <1>7, <1>8, <1>9, <1>10, <1>11, <1>12, Zenon DEF IndInv

LEMMA ReceiveFailsStep == IndInv /\ ReceiveFails => IndInv'
<1> SUFFICES ASSUME IndInv, ReceiveFails PROVE IndInv'
  OBVIOUS
<1>t. /\ Typed /\ OneAtATime /\ NothingLeft /\ NeverFar
      /\ platform' = platform /\ started' = started /\ handle' = handle /\ unhandled' = unhandled
      /\ writeBuffer' = writeBuffer /\ sends' = sends /\ logicq' = logicq /\ ep' = ep
      /\ reads > 0 /\ reads' = reads - 1 /\ errors < MaxErrors /\ errors' = errors + 1
      /\ count' = count /\ last' = last /\ small' = small /\ exact' = exact /\ lost' = lost
  BY DEF IndInv, ReceiveFails, readVars, writeVars, history
<1>1. reads = 1 /\ sends = <<>> /\ netq = <<>> /\ logicq = <<>>
  BY <1>t, Alone
<1>2. writeBuffer = <<>>
  BY <1>1 DEF IndInv, Free
<1>3. netq' = Append(netq, OnReadOp(<<>>))
  BY DEF ReceiveFails, Completes, OnReadOp
<1>4. /\ netq' \in Seq(NetOp) /\ Len(netq') = 1
      /\ Head(netq').op = "onRead" /\ Head(netq').bytes = <<>>
  BY <1>1, <1>3, OnReadAlone, EmptyFacts
<1>5. Typed'
  BY <1>t, <1>1, <1>4, UdpSessionAssumption DEF Typed, Room
<1>6. OneAtATime'
  <2>1. (reads + Len(sends) + Len(netq) + Len(logicq))' = reads + Len(sends) + Len(netq) + Len(logicq)
    BY <1>t, <1>1, <1>4, EmptyFacts
  <2> QED BY <1>t, <2>1, SameCount
<1>7. Reading' /\ Calling' /\ Sending' /\ Free'
  BY <1>t, <1>1, <1>2, <1>4 DEF Reading, Calling, Sending, Free
<1>8. NothingLeft' /\ NeverFar'
  BY <1>t DEF NothingLeft, NeverFar
<1> QED BY <1>5, <1>6, <1>7, <1>8, Zenon DEF IndInv

LEMMA SendCompletesStep == IndInv /\ SendCompletes => IndInv'
<1> SUFFICES ASSUME IndInv, SendCompletes PROVE IndInv'
  OBVIOUS
<1>t. /\ Typed /\ OneAtATime /\ NothingLeft /\ NeverFar
      /\ platform' = platform /\ started' = started /\ handle' = handle /\ unhandled' = unhandled
      /\ writeBuffer' = writeBuffer /\ logicq' = logicq /\ ep' = ep /\ reads' = reads /\ errors' = errors
      /\ count' = count /\ last' = last /\ small' = small /\ exact' = exact /\ lost' = lost
      /\ sends # <<>> /\ sends' = Tail(sends) /\ netq' = Append(netq, OnWriteOp)
  BY DEF IndInv, SendCompletes, readVars, history, OnWriteOp
<1>1. reads = 0 /\ Len(sends) = 1 /\ netq = <<>> /\ logicq = <<>>
  BY <1>t, Alone
<1>2. sends' = <<>>
  BY <1>t, <1>1, One DEF Typed
<1>3. netq' \in Seq(NetOp) /\ Len(netq') = 1 /\ Head(netq').op = "onWrite" /\ netq' # <<>>
  BY <1>t, <1>1, Single, SingleType, OpFacts
<1>4. Typed'
  BY <1>t, <1>1, <1>2, <1>3, EmptyFacts DEF Typed, Room
<1>5. OneAtATime'
  <2>1. (reads + Len(sends) + Len(netq) + Len(logicq))' = reads + Len(sends) + Len(netq) + Len(logicq)
    BY <1>t, <1>1, <1>2, <1>3, EmptyFacts
  <2> QED BY <1>t, <2>1, SameCount
<1>6. Reading' /\ Calling' /\ Sending' /\ Free'
  BY <1>t, <1>1, <1>2, <1>3 DEF Reading, Calling, Sending, Free
<1>7. NothingLeft' /\ NeverFar'
  BY <1>t DEF NothingLeft, NeverFar
<1> QED BY <1>4, <1>5, <1>6, <1>7, Zenon DEF IndInv

\* The next read, armed by doRead and by onRead of nothing.
LEMMA ArmsRead == IndInv /\ (DoRead \/ OnReadNothing) => IndInv'
<1> SUFFICES ASSUME IndInv, DoRead \/ OnReadNothing PROVE IndInv'
  OBVIOUS
<1>t. /\ Typed /\ OneAtATime /\ NothingLeft /\ NeverFar /\ Free
      /\ platform' = platform /\ started' = started /\ handle' = handle /\ unhandled' = unhandled
      /\ writeBuffer' = writeBuffer /\ sends' = sends /\ logicq' = logicq /\ ep' = ep /\ errors' = errors
      /\ count' = count /\ last' = last /\ small' = small /\ exact' = exact /\ lost' = lost
      /\ reads' = reads + 1
  BY DEF IndInv, DoRead, OnReadNothing, readVars, writeVars, history
<1>1. PICK op \in {"doRead", "onRead"} : NetHandler(op)
  BY DEF DoRead, OnReadNothing
<1>2. /\ reads = 0 /\ sends = <<>> /\ logicq = <<>> /\ netq' = <<>>
      /\ Head(netq).op = op /\ Len(netq) = 1
  BY <1>t, <1>1, NetAlone
<1>3. writeBuffer = <<>>
  BY <1>t, <1>2 DEF Free
<1>4. Typed'
  BY <1>t, <1>2, EmptyFacts DEF Typed, Room
<1>5. OneAtATime'
  <2>1. (reads + Len(sends) + Len(netq) + Len(logicq))' = reads + Len(sends) + Len(netq) + Len(logicq)
    BY <1>t, <1>2, EmptyFacts
  <2> QED BY <1>t, <2>1, SameCount
<1>6. Reading' /\ Calling' /\ Sending' /\ Free'
  BY <1>t, <1>2, <1>3 DEF Reading, Calling, Sending, Free
<1>7. NothingLeft' /\ NeverFar'
  BY <1>t DEF NothingLeft, NeverFar
<1> QED BY <1>4, <1>5, <1>6, <1>7, Zenon DEF IndInv

LEMMA OnWriteStep == IndInv /\ OnWrite => IndInv'
<1> SUFFICES ASSUME IndInv, OnWrite PROVE IndInv'
  OBVIOUS
<1>t. /\ Typed /\ OneAtATime /\ NothingLeft /\ NeverFar
      /\ platform' = platform /\ started' = started /\ handle' = handle /\ unhandled' = unhandled
      /\ sends' = sends /\ ep' = ep /\ reads' = reads /\ errors' = errors
      /\ count' = count /\ last' = last /\ small' = small /\ exact' = exact /\ lost' = lost
      /\ writeBuffer' = <<>> /\ logicq' = Append(logicq, OnWriteOp) /\ NetHandler("onWrite")
  BY DEF IndInv, OnWrite, readVars, history, OnWriteOp
<1>1. reads = 0 /\ sends = <<>> /\ logicq = <<>> /\ netq' = <<>> /\ Len(netq) = 1
  BY <1>t, NetAlone
<1>2. logicq' \in Seq(LogicOp) /\ Len(logicq') = 1 /\ Head(logicq').op = "onWrite"
  BY <1>t, <1>1, Single, SingleType, OpFacts
<1>3. Typed'
  BY <1>t, <1>1, <1>2, EmptyFacts, UdpSessionAssumption DEF Typed, Room
<1>4. OneAtATime'
  <2>1. (reads + Len(sends) + Len(netq) + Len(logicq))' = reads + Len(sends) + Len(netq) + Len(logicq)
    BY <1>t, <1>1, <1>2, EmptyFacts
  <2> QED BY <1>t, <2>1, SameCount
<1>5. Reading' /\ Calling' /\ Sending' /\ Free'
  BY <1>t, <1>1, <1>2 DEF Reading, Calling, Sending, Free
<1>6. NothingLeft' /\ NeverFar'
  BY <1>t DEF NothingLeft, NeverFar
<1> QED BY <1>3, <1>4, <1>5, <1>6, Zenon DEF IndInv

LEMMA HandlerAsksStep == IndInv /\ (HandlerSkips \/ HandlerWritten) => IndInv'
<1> SUFFICES ASSUME IndInv, HandlerSkips \/ HandlerWritten PROVE IndInv'
  OBVIOUS
<1>t. /\ Typed /\ OneAtATime /\ Free /\ started' = started /\ sends' = sends /\ reads' = reads
      /\ UNCHANGED <<platform, readVars, ep, writeBuffer, history, errors>> /\ StartRead(netq)
  BY DEF IndInv, HandlerSkips, HandlerWritten, writeVars
<1>1. PICK op : Callback(op)
  BY DEF HandlerSkips, HandlerWritten
<1>2. reads = 0 /\ sends = <<>> /\ netq = <<>> /\ logicq' = <<>> /\ Len(logicq) = 1
  BY <1>t, <1>1, LogicAlone
<1>3. writeBuffer = <<>>
  BY <1>t, <1>2 DEF Free
<1>4. Typed' /\ (Reading /\ Calling /\ Sending /\ Free /\ NothingLeft /\ NeverFar)' /\ Len(netq') = 1
  BY <1>t, <1>2, <1>3, AsksForRead
<1>5. OneAtATime'
  <2>1. (reads + Len(sends) + Len(netq) + Len(logicq))' = reads + Len(sends) + Len(netq) + Len(logicq)
    BY <1>t, <1>2, <1>4, EmptyFacts
  <2> QED BY <1>t, <2>1, SameCount
<1> QED BY <1>4, <1>5, Zenon DEF IndInv

\* A message from the queue of the logic thread.
LEMMA MsgType ==
    ASSUME NEW c \in LogicOp, c.op = "onReceive" PROVE c.msg \in Seq(Byte)
BY DEF LogicOp

LEMMA HandlerAnswersStep == IndInv /\ HandlerAnswers => IndInv'
<1> SUFFICES ASSUME IndInv, HandlerAnswers PROVE IndInv'
  OBVIOUS
<1> DEFINE msg == Head(logicq).msg
<1>t. /\ Typed /\ OneAtATime /\ NothingLeft /\ NeverFar /\ Free /\ Calling
      /\ platform' = platform /\ started' = started /\ handle' = handle /\ unhandled' = unhandled
      /\ netq' = netq /\ ep' = ep /\ reads' = reads /\ errors' = errors
      /\ count' = count /\ last' = last /\ small' = small /\ exact' = exact /\ lost' = lost
      /\ writeBuffer' = writeBuffer \o msg
      /\ sends' = Append(sends, [to |-> ep, n |-> Len(writeBuffer')])
      /\ Callback("onReceive")
  BY DEF IndInv, HandlerAnswers, WriteMessage, readVars, history
<1>1. /\ reads = 0 /\ sends = <<>> /\ netq = <<>> /\ logicq' = <<>> /\ Len(logicq) = 1
      /\ logicq # <<>> /\ Head(logicq).op = "onReceive" /\ Head(logicq) \in LogicOp
  BY <1>t, LogicAlone
<1>2. writeBuffer = <<>>
  BY <1>t, <1>1 DEF Free
<1>3. /\ msg \in Seq(Byte) /\ Len(msg) \in 1 .. BufSize /\ ep = last.from /\ ep \in Peers
      /\ exact => msg = Bytes(count, last.size)
  BY <1>t, <1>1, MsgType DEF Calling
<1> HIDE DEF msg
<1>4. writeBuffer' = msg
  BY <1>t, <1>2, <1>3
<1> DEFINE s == [to |-> ep, n |-> Len(msg)]
<1>5. s \in [to : Peers, n : 1 .. BufSize] /\ s.to = ep /\ s.n = Len(msg) /\ sends' = <<s>>
  BY <1>t, <1>1, <1>3, <1>4, Single
<1> HIDE DEF s
<1>6. sends' \in Seq([to : Peers, n : 1 .. BufSize]) /\ Len(sends') = 1 /\ Head(sends') = s /\ sends' # <<>>
  BY <1>5, Single, SingleType
<1>7. Typed'
  BY <1>t, <1>1, <1>3, <1>4, <1>6, EmptyFacts DEF Typed, Room
<1>8. OneAtATime'
  <2>1. (reads + Len(sends) + Len(netq) + Len(logicq))' = reads + Len(sends) + Len(netq) + Len(logicq)
    BY <1>t, <1>1, <1>6, EmptyFacts
  <2> QED BY <1>t, <2>1, SameCount
<1>9. Sending'
  <2>1. ASSUME exact PROVE Len(msg) = last.size
    <3>1. Len(Bytes(count, last.size)) = last.size
      BY <1>t DEF Bytes, Typed
    <3> QED BY <1>3, <2>1, <3>1
  <2> QED BY <1>t, <1>3, <1>4, <1>5, <1>6, <2>1 DEF Sending
<1>10. Reading' /\ Calling' /\ Free'
  BY <1>t, <1>1, <1>6 DEF Reading, Calling, Free
<1>11. NothingLeft' /\ NeverFar'
  BY <1>t DEF NothingLeft, NeverFar
<1> QED BY <1>7, <1>8, <1>9, <1>10, <1>11, Zenon DEF IndInv

\* getMessage takes the first len bytes.
LEMMA Cut ==
    ASSUME NEW data \in Seq(Byte), NEW len \in Nat, len <= Len(data)
    PROVE  /\ SubSeq(data, 1, len) \in Seq(Byte) /\ Len(SubSeq(data, 1, len)) = len
           /\ SubSeq(data, len + 1, Len(data)) \in Seq(Byte)
           /\ Len(SubSeq(data, len + 1, Len(data))) = Len(data) - len
           /\ len = Len(data) => SubSeq(data, 1, len) = data /\ SubSeq(data, len + 1, Len(data)) = <<>>
OBVIOUS

LEMMA OnReadDataStep == IndInv /\ OnReadData => IndInv'
<1> SUFFICES ASSUME IndInv, OnReadData PROVE IndInv'
  OBVIOUS
<1> DEFINE bytes == Head(netq).bytes
           data == unhandled \o bytes
           from == IF NeedsCompact THEN 0 ELSE handle
           m == MinOf(last.size, Room)
<1>t. /\ Typed /\ OneAtATime /\ NothingLeft /\ NeverFar /\ Free /\ Reading
      /\ platform' = platform /\ started' = started /\ sends' = sends
      /\ writeBuffer' = writeBuffer /\ ep' = ep /\ errors' = errors
      /\ count' = count /\ last' = last /\ small' = small /\ exact' = exact
      /\ NetHandler("onRead") /\ bytes # <<>>
  BY DEF IndInv, OnReadData, writeVars
<1>1. /\ reads = 0 /\ sends = <<>> /\ logicq = <<>> /\ netq' = <<>> /\ Len(netq) = 1 /\ netq # <<>>
      /\ Head(netq).op = "onRead"
  BY <1>t, NetAlone
<1>2. writeBuffer = <<>>
  BY <1>t, <1>1 DEF Free
<1>3. bytes = Bytes(count, m) /\ count > 0 /\ ep = last.from /\ ep \in Peers
  BY <1>t, <1>1 DEF Reading
<1>n. /\ count \in 1 .. MaxDgrams /\ last.size \in Nat /\ last.len \in Int
      /\ handle \in 0 .. BufSize /\ unhandled \in Seq(Byte) /\ BufSize \in Nat /\ HeaderLen \in Nat \ {0}
      /\ Len(unhandled) \in Nat /\ Room = BufSize - (handle + Len(unhandled)) /\ Room \in Nat
  BY <1>t, <1>3, UdpSessionAssumption, SMTT(40) DEF Typed, Room
<1>m. m \in Nat /\ m <= Room /\ m <= last.size /\ (last.size <= Room => m = last.size)
  BY <1>n DEF MinOf
<1> HIDE DEF m
<1>4. bytes \in Seq(Byte) /\ Len(bytes) = m /\ m > 0 /\ bytes[1] = <<count, 0>>
  <2>1. /\ Bytes(count, m) \in Seq(Byte) /\ Len(Bytes(count, m)) = m
        /\ m > 0 => Bytes(count, m)[1] = <<count, 0>>
        /\ Bytes(count, m) = <<>> <=> m = 0
    BY <1>m, <1>n, BytesFacts
  <2>2. m > 0
    BY <1>t, <1>3, <1>m, <2>1
  <2> QED BY <1>3, <2>1, <2>2
<1>5. PICK len \in NextMessageLength(data) :
         \/ /\ len <= 0
            /\ handle' = 0 /\ unhandled' = <<>>
            /\ reads' = reads + 1
            /\ UNCHANGED logicq
         \/ len > 0 /\ HandOut(from, data, len)
  BY Zenon DEF OnReadData
<1> HIDE DEF bytes
<1>6. data \in Seq(Byte) /\ Len(data) = Len(unhandled) + m
  BY <1>4, <1>n, ConcatProperties
<1>7. len \in Int /\ len <= Len(data)
  BY <1>t, <1>5, <1>6, LengthFacts
<1>e. ASSUME exact PROVE /\ data = bytes /\ Len(data) = m /\ unhandled = <<>>
                         /\ len = (IF m < HeaderLen THEN 0
                                   ELSE IF last.len < HeaderLen THEN -1
                                   ELSE IF m >= last.len THEN last.len ELSE 0)
  <2>1. unhandled = <<>>
    BY <1>t, <1>e DEF NothingLeft
  <2>2. data = bytes
    BY <2>1, <1>4
  <2>3. LengthField(data) = {last.len}
    BY <2>2, <1>4 DEF LengthField
  <2> QED BY <1>4, <1>5, <2>1, <2>2, <2>3 DEF NextMessageLength
<1>f. ASSUME exact, len > 0 PROVE len = last.size /\ len = m
  BY <1>e, <1>f, <1>m, <1>n, <1>t DEF NothingLeft
<1>g. ASSUME small PROVE len > 0
  <2>1. /\ exact /\ handle <= CompactAbove + SafeSize
        /\ last.size = last.len /\ last.len \in HeaderLen .. SafeSize
    BY <1>t, <1>3, <1>g DEF NeverFar
  <2>2. Room = BufSize - handle
    BY <1>e, <1>n, <2>1
  <2>3. Room >= SafeSize
    BY <1>n, <2>1, <2>2, Sizes
  <2>4. m = last.size
    BY <1>m, <1>n, <2>1, <2>3, Sizes
  <2> QED BY <1>e, <1>n, <2>1, <2>4
<1>o. from \in Nat /\ from <= handle /\ (from <= CompactAbove)
  BY <1>n, Sizes DEF NeedsCompact
<1> HIDE DEF from, data
<1>8. CASE /\ len <= 0
           /\ handle' = 0 /\ unhandled' = <<>>
           /\ reads' = reads + 1
           /\ UNCHANGED logicq
  <2>1. Typed'
    BY <1>t, <1>n, <1>1, <1>8, EmptyFacts DEF Typed, Room
  <2>2. OneAtATime'
    <3>1. (reads + Len(sends) + Len(netq) + Len(logicq))' = reads + Len(sends) + Len(netq) + Len(logicq)
      BY <1>t, <1>1, <1>8, EmptyFacts
    <3> QED BY <1>t, <3>1, SameCount
  <2>3. Reading' /\ Calling' /\ Sending' /\ Free'
    BY <1>t, <1>1, <1>2, <1>8 DEF Reading, Calling, Sending, Free
  <2>4. NothingLeft'
    BY <1>t, <1>8 DEF NothingLeft
  <2>5. ~small
    BY <1>7, <1>8, <1>g
  <2>6. NeverFar'
    BY <1>t, <2>5 DEF NeverFar
  <2> QED BY <2>1, <2>2, <2>3, <2>4, <2>6, Zenon DEF IndInv
<1>9. CASE len > 0 /\ HandOut(from, data, len)
  <2> DEFINE msg == SubSeq(data, 1, len)
             rest == SubSeq(data, len + 1, Len(data))
  <2>1. /\ handle' = from + len /\ unhandled' = rest /\ reads' = reads /\ lost' = lost
        /\ logicq' = Append(logicq, OnReceiveOp(msg))
    BY <1>9 DEF HandOut, OnReceiveOp
  <2>2. len \in Nat
    BY <1>7, <1>9
  <2>3. /\ msg \in Seq(Byte) /\ Len(msg) = len /\ rest \in Seq(Byte) /\ Len(rest) = Len(data) - len
        /\ len = Len(data) => msg = data /\ rest = <<>>
    BY <1>6, <1>7, <2>2, Cut
  <2> HIDE DEF msg, rest
  <2>4. /\ logicq' \in Seq(LogicOp) /\ Len(logicq') = 1
        /\ Head(logicq').op = "onReceive" /\ Head(logicq').msg = msg
    BY <1>1, <2>1, <2>3, Single, SingleType, CarryFacts
  <2>5. handle' \in 0 .. BufSize /\ Room' >= 0 /\ len <= BufSize
    <3>1. Room' = BufSize - (handle' + Len(unhandled'))
      BY DEF Room
    <3>2. Len(unhandled') = Len(data) - len /\ handle' = from + len
      BY <2>1, <2>3
    <3>3. handle' + Len(unhandled') <= handle + Len(data) /\ handle' + Len(unhandled') \in Nat
      BY <1>6, <1>7, <1>m, <1>n, <1>o, <2>2, <3>2
    <3>4. handle + Len(data) <= BufSize
      BY <1>6, <1>m, <1>n
    <3>5. handle' + Len(unhandled') <= BufSize
      BY <1>6, <1>m, <1>n, <3>3, <3>4
    <3>6. Len(unhandled') \in Nat /\ handle' \in Nat
      BY <1>6, <1>7, <1>m, <1>n, <1>o, <2>2, <3>2
    <3> QED BY <1>6, <1>7, <1>m, <1>n, <1>o, <2>2, <3>1, <3>2, <3>5, <3>6, SMTT(40)
  <2>6. Typed'
    BY <1>t, <1>1, <2>1, <2>3, <2>4, <2>5, EmptyFacts DEF Typed
  <2>7. OneAtATime'
    <3>1. (reads + Len(sends) + Len(netq) + Len(logicq))' = reads + Len(sends) + Len(netq) + Len(logicq)
      BY <1>t, <1>1, <2>1, <2>4, EmptyFacts
    <3> QED BY <1>t, <3>1, SameCount
  <2>8. ASSUME exact PROVE msg = Bytes(count, last.size) /\ rest = <<>>
    BY <1>3, <1>e, <1>f, <1>9, <2>3, <2>8
  <2>9. Calling'
    BY <1>t, <1>3, <1>9, <2>2, <2>3, <2>4, <2>5, <2>8 DEF Calling
  <2>10. Reading' /\ Sending' /\ Free'
    BY <1>t, <1>1, <1>2 DEF Reading, Sending, Free
  <2>11. NothingLeft'
    BY <1>t, <2>1, <2>8 DEF NothingLeft
  <2>12. NeverFar'
    <3>1. ASSUME small PROVE handle' <= CompactAbove + SafeSize
      <4>1. exact /\ last.size <= SafeSize
        BY <1>t, <1>n, <1>3, <3>1, Sizes DEF NeverFar
      <4>2. len = last.size
        BY <1>9, <1>f, <4>1
      <4> QED BY <1>n, <1>o, <2>1, <2>2, <4>1, <4>2, Sizes
    <3> QED BY <1>t, <2>1, <3>1 DEF NeverFar
  <2> QED BY <2>6, <2>7, <2>9, <2>10, <2>11, <2>12, Zenon DEF IndInv
<1> QED BY <1>5, <1>8, <1>9

LEMMA InitIndInv == Init => IndInv
<1> SUFFICES ASSUME Init PROVE IndInv
  OBVIOUS
<1>1. Typed
  BY UdpSessionAssumption DEF Init, Typed, Room
<1>2. OneAtATime
  BY EmptyFacts DEF Init, OneAtATime
<1>3. Reading /\ Calling /\ Sending /\ Free /\ NothingLeft
  BY DEF Init, Reading, Calling, Sending, Free, NothingLeft
<1>4. NeverFar
  BY Sizes DEF Init, NeverFar
<1> QED BY <1>1, <1>2, <1>3, <1>4, Zenon DEF IndInv

LEMMA NextIndInv == IndInv /\ [Next]_vars => IndInv'
<1> SUFFICES ASSUME IndInv, [Next]_vars PROVE IndInv'
  OBVIOUS
<1>1. CASE UNCHANGED vars
  BY <1>1 DEF vars, readVars, writeVars, history, IndInv, Typed, OneAtATime, Reading, Calling, Sending, Free,
     NothingLeft, NeverFar, Room
<1> QED BY <1>1, StartStep, ReceiveStep, ReceiveFailsStep, SendCompletesStep, ArmsRead, OnReadDataStep,
           OnWriteStep, HandlerAnswersStep, HandlerAsksStep, Zenon DEF Next, Net, Logic

\* Nothing but TRUE and FALSE is ever assigned to a flag.
LEMMA NextFlags == Flags /\ [Next]_vars => Flags'
<1> SUFFICES ASSUME Flags, [Next]_vars PROVE Flags'
  OBVIOUS
<1> USE DEF Flags, history
<1>1. CASE Start \/ Receive \/ ReceiveFails \/ SendCompletes
  BY <1>1, Zenon DEF Start, Receive, ReceiveFails, SendCompletes
<1>2. CASE Net
  BY <1>2, Zenon DEF Net, DoRead, OnReadNothing, OnReadData, HandOut, OnWrite
<1>3. CASE Logic
  BY <1>3, Zenon DEF Logic, HandlerAnswers, HandlerSkips, HandlerWritten
<1>4. CASE UNCHANGED vars
  BY <1>4, Zenon DEF vars
<1> QED BY <1>1, <1>2, <1>3, <1>4, Zenon DEF Next

-----------------------------------------------------------------------------
\* The inductive invariant of a session with the documented handler.
THEOREM Invariance == Spec => [](IndInv /\ Flags)
<1>1. Init => Flags
  BY Zenon DEF Init, Flags
<1> QED BY <1>1, InitIndInv, NextIndInv, NextFlags, PTL DEF Spec

\* The variables keep their types; writeMessage, which does not look at the size
\* of _writeBuffer, and readNewData never go past the end of their buffers.
THEOREM TypeCorrect == Spec => []TypeOK
<1>1. IndInv /\ Flags => TypeOK
  BY Zenon DEF IndInv, Typed, Flags, TypeOK, NetOp, LogicOp
<1> QED BY <1>1, Invariance, PTL

\* doRead, onRead, onWrite and the callbacks of the handler follow one another
\* on two threads without a lock, although _isReading and _isWriting, which
\* should see to it, are never set.
THEOREM TurnsTaken == Spec => []OneAtATime
<1>1. IndInv => OneAtATime
  BY DEF IndInv
<1> QED BY <1>1, Invariance, PTL

\* The answer that writeMessage sends to _ep goes to the sender of the datagram
\* it answers, alone, and repeats it, as long as no datagram held more than its
\* message.
THEOREM AnswersCorrect == Spec => []AnswersTheSender
<1>1. IndInv => AnswersTheSender
  <2> SUFFICES ASSUME IndInv, exact PROVE
         /\ \A i \in 1 .. Len(logicq) :
               logicq[i].op = "onReceive" => logicq[i].msg = Bytes(count, last.size)
         /\ \A i \in 1 .. Len(sends) :
               /\ sends[i] = [to |-> last.from, n |-> last.size]
               /\ SubSeq(writeBuffer, 1, sends[i].n) = Bytes(count, last.size)
    BY Zenon DEF AnswersTheSender
  <2>t. /\ Typed /\ OneAtATime /\ Calling /\ Sending
        /\ logicq \in Seq(LogicOp) /\ sends \in Seq([to : Peers, n : 1 .. BufSize])
        /\ writeBuffer \in Seq(Byte) /\ last.size \in Nat
    BY DEF IndInv, Typed
  <2>1. ASSUME NEW i \in 1 .. Len(logicq), logicq[i].op = "onReceive"
        PROVE  logicq[i].msg = Bytes(count, last.size)
    <3>1. logicq # <<>> /\ Len(logicq) = 1
      BY <2>t, <2>1, Alone, One
    <3>2. logicq[i] = Head(logicq)
      BY <2>t, <3>1, One
    <3> QED BY <2>t, <2>1, <3>1, <3>2 DEF Calling
  <2>2. ASSUME NEW i \in 1 .. Len(sends)
        PROVE  /\ sends[i] = [to |-> last.from, n |-> last.size]
               /\ SubSeq(writeBuffer, 1, sends[i].n) = Bytes(count, last.size)
    <3>1. sends # <<>> /\ Len(sends) = 1
      BY <2>t, <2>2, Alone, One
    <3>2. i = 1 /\ sends[1] = Head(sends) /\ Head(sends) \in [to : Peers, n : 1 .. BufSize]
      <4>1. sends[1] = Head(sends) /\ Head(sends) \in [to : Peers, n : 1 .. BufSize]
        BY <2>t, <3>1, One, Zenon
      <4> QED BY <2>2, <3>1, <4>1
    <3>3. sends[i].to = last.from /\ sends[i].n = last.size /\ writeBuffer = Bytes(count, last.size)
      BY <2>t, <3>1, <3>2 DEF Sending
    <3>4. Len(writeBuffer) = last.size
      BY <2>t, <3>3 DEF Bytes
    <3>5. SubSeq(writeBuffer, 1, last.size) = writeBuffer
      BY <2>t, <3>4, SubSeqFull
    <3> QED BY <3>2, <3>3, <3>5
  <2> QED BY <2>1, <2>2
<1> QED BY <1>1, Invariance, PTL

\* The compaction of the read buffer, which comes one message late, leaves room
\* for every datagram of at most SafeSize bytes.
THEOREM SmallCorrect == Spec => []SmallDatagramsArrive
<1>1. IndInv => SmallDatagramsArrive
  BY DEF IndInv, NeverFar, SmallDatagramsArrive
<1> QED BY <1>1, Invariance, PTL
=============================================================================
