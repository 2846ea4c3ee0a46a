-------------------------- MODULE SessionWriteProofs --------------------------
(***************************************************************************)
(* The write side of a session loses, repeats, reorders and mixes nothing  *)
(* and forgets no wakeup, for any number of writers, messages, connections *)
(* and blocks, and any size of the buffer.  Four invariants build on each  *)
(* other: the types, the stream, the frames and the wakeups.               *)
(***************************************************************************)
EXTENDS SessionWrite, SequenceTheorems, TLAPS

USE SessionWriteAssumption DEF NoOne

-----------------------------------------------------------------------------
(* Types.  The flags stand apart, the provers treat them differently. *)

Flags == open \in BOOLEAN /\ broken \in BOOLEAN /\ writing \in BOOLEAN

Typed ==
    /\ status \in {"Disconnected", "Connecting", "Connected"}
    /\ conn \in 0 .. MaxConns
    /\ stopping \in {"no", "closed", "done"}
    /\ writeBuffer \in Seq(Unit) /\ stream \in Seq(Unit) /\ sent \in Seq(Unit)
    /\ left \in Nat /\ stale \in Nat /\ pending \in Nat /\ aborted \in Nat
    /\ writeBlockTimes \in Nat /\ blocks \in 0 .. MaxBlocks
    /\ mutex \in Writers \cup {NoOne}
    /\ pc \in [Writers -> PcLabels]
    /\ todo \in [Writers -> Nat]
    /\ netpc \in {"idle", "drain", "blocked", "arm"}
    /\ \A w \in Writers : mutex = w <=> pc[w] \notin {"idle", "lock"}

\* A writer inside writeMessage has a message to write.
HasMessage == \A w \in Writers : pc[w] # "idle" => todo[w] > 0

TypeInv == Typed /\ HasMessage

PartOf(w, part) == [from |-> w, no |-> todo[w], part |-> part]

\* What writeImpl appends, or that it refuses, and to which label w goes.
Appends(u) ==
    /\ writeBuffer' = Append(writeBuffer, u) /\ stream' = Append(stream, u)
    /\ left' = IF IsOk THEN left ELSE Len(stream')
Keeps == writeBuffer' = writeBuffer /\ stream' = stream /\ left' = left
HasRoom == Len(writeBuffer) + 1 <= BufferSize

\* The two outcomes of writeImpl for the header.
LEMMA HeaderEffect ==
    ASSUME NEW w \in Writers, WriteHeader(w)
    PROVE  \/ /\ HasRoom /\ Appends(PartOf(w, "header"))
              /\ pc' = [pc EXCEPT ![w] = "headerPost"]
           \/ /\ ~HasRoom /\ Keeps
              /\ pc' = [pc EXCEPT ![w] = "headerDone"]
BY DEF WriteHeader, WriteImpl, Goto, HasRoom, Appends, Keeps, PartOf

\* And for the body.
LEMMA BodyEffect ==
    ASSUME NEW w \in Writers, WriteBody(w)
    PROVE  \/ /\ HasRoom /\ Appends(PartOf(w, "body"))
              /\ pc' = [pc EXCEPT ![w] = "bodyPost"]
           \/ /\ ~HasRoom /\ Keeps
              /\ pc' = [pc EXCEPT ![w] = "bodyDone"]
BY DEF WriteBody, WriteImpl, Goto, HasRoom, Appends, Keeps, PartOf

\* writeNolock only moves w, over its check or past the part.
LEMMA NolockEffect ==
    ASSUME NEW w \in Writers, WriteNolock(w)
    PROVE  /\ \/ pc[w] = "header" /\ pc' = [pc EXCEPT ![w] = "headerAppend"]
              \/ pc[w] = "header" /\ pc' = [pc EXCEPT ![w] = "headerDone"]
              \/ pc[w] = "headerDone" /\ pc' = [pc EXCEPT ![w] = "bodyAppend"]
              \/ pc[w] = "headerDone" /\ ~(IsOk /\ open) /\ pc' = [pc EXCEPT ![w] = "bodyDone"]
           /\ UNCHANGED <<status, open, broken, conn, stopping, stale>>
           /\ UNCHANGED <<writeBuffer, stream, sent, left, writing, pending, aborted>>
           /\ UNCHANGED <<writeBlockTimes, mutex, todo, netpc, blocks>>
BY DEF WriteNolock, Goto, sessionVars, bufferVars, opVars

\* A part is a unit.
LEMMA PartType ==
    ASSUME Typed, NEW w \in Writers, NEW part \in {"header", "body"}
    PROVE  PartOf(w, part) \in Unit
BY DEF Typed, PartOf, Unit

\* Appending keeps the types.
LEMMA AppendUnit ==
    ASSUME NEW s \in Seq(Unit), NEW u \in Unit
    PROVE  Append(s, u) \in Seq(Unit)
OBVIOUS

LEMMA AppendType ==
    ASSUME Typed, NEW u \in Unit, Appends(u) \/ Keeps
    PROVE  writeBuffer' \in Seq(Unit) /\ stream' \in Seq(Unit) /\ left' \in Nat
<1>1. Append(writeBuffer, u) \in Seq(Unit) /\ Append(stream, u) \in Seq(Unit)
  BY AppendUnit DEF Typed
<1>2. writeBuffer' \in Seq(Unit) /\ stream' \in Seq(Unit)
  BY <1>1, Zenon DEF Typed, Appends, Keeps
<1>3. left' \in Nat
  BY <1>2 DEF Typed, Appends, Keeps
<1> QED BY <1>2, <1>3

\* What Drain leaves and what it sends.
LEMMA RestType ==
    ASSUME NEW s \in Seq(Unit), NEW n \in 0 .. Len(s)
    PROVE  /\ SubSeq(s, n + 1, Len(s)) \in Seq(Unit)
           /\ SubSeq(s, 1, n) \in Seq(Unit)
OBVIOUS

LEMMA InitTypeInv == Init => TypeInv
BY DEF Init, TypeInv, Typed, HasMessage, PcLabels

\* A step of one writer changes its label, and mutex with it.
LEMMA LabelStep ==
    ASSUME TypeInv, NEW w \in Writers, pc[w] \notin {"idle", "lock"},
           NEW l \in PcLabels \ {"idle", "lock"},
           pc' = [pc EXCEPT ![w] = l], mutex' = mutex, todo' = todo
    PROVE  /\ pc' \in [Writers -> PcLabels]
           /\ \A v \in Writers : mutex' = v <=> pc'[v] \notin {"idle", "lock"}
           /\ HasMessage'
BY DEF TypeInv, Typed, HasMessage

LEMMA WriterTypeInv ==
    ASSUME TypeInv, NEW w \in Writers, Writer(w) PROVE TypeInv'
<1> USE DEF sessionVars, bufferVars, opVars, Goto
<1>1. CASE WriteMessage(w)
  <2>1. CASE IsOk
    BY <1>1, <2>1 DEF WriteMessage, PcLabels, TypeInv, Typed, HasMessage
  <2>2. CASE ~IsOk
    <3>1. todo[w] - 1 \in Nat /\ todo' = [todo EXCEPT ![w] = todo[w] - 1] /\ pc' = pc
      BY <1>1, <2>2 DEF WriteMessage, TypeInv, Typed
    <3>2. todo' \in [Writers -> Nat]
      BY <3>1 DEF TypeInv, Typed
    <3>3. HasMessage'
      BY <1>1, <3>1 DEF WriteMessage, TypeInv, Typed, HasMessage
    <3> QED BY <1>1, <3>1, <3>2, <3>3 DEF WriteMessage, TypeInv, Typed
  <2> QED BY <2>1, <2>2
<1>2. CASE CheckWriteBuffer(w)
  BY <1>2 DEF CheckWriteBuffer, PcLabels, TypeInv, Typed, HasMessage
<1>3. CASE WriteHeader(w)
  <2>1. writeBuffer' \in Seq(Unit) /\ stream' \in Seq(Unit) /\ left' \in Nat
    BY <1>3, HeaderEffect, PartType, AppendType DEF TypeInv
  <2>2. PICK l \in {"headerPost", "headerDone"} : pc' = [pc EXCEPT ![w] = l]
    BY <1>3, HeaderEffect
  <2>3. pc[w] = "headerAppend" /\ l \in PcLabels \ {"idle", "lock"} /\ mutex' = mutex /\ todo' = todo
    BY <1>3 DEF WriteHeader, PcLabels
  <2> QED BY <1>3, <2>1, <2>2, <2>3, LabelStep DEF WriteHeader, TypeInv, Typed
<1>4. CASE WriteBody(w)
  <2>1. writeBuffer' \in Seq(Unit) /\ stream' \in Seq(Unit) /\ left' \in Nat
    BY <1>4, BodyEffect, PartType, AppendType DEF TypeInv
  <2>2. PICK l \in {"bodyPost", "bodyDone"} : pc' = [pc EXCEPT ![w] = l]
    BY <1>4, BodyEffect
  <2>3. pc[w] = "bodyAppend" /\ l \in PcLabels \ {"idle", "lock"} /\ mutex' = mutex /\ todo' = todo
    BY <1>4 DEF WriteBody, PcLabels
  <2> QED BY <1>4, <2>1, <2>2, <2>3, LabelStep DEF WriteBody, TypeInv, Typed
<1>5. CASE PostCheck(w)
  <2>1. PICK l \in {"headerArm", "bodyArm", "headerDone", "bodyDone"} : pc' = [pc EXCEPT ![w] = l]
    BY <1>5 DEF PostCheck, ArmLabel, DoneLabel
  <2>2. pc[w] \notin {"idle", "lock"} /\ l \in PcLabels \ {"idle", "lock"} /\ mutex' = mutex /\ todo' = todo
    BY <1>5 DEF PostCheck, PcLabels
  <2> QED BY <1>5, <2>1, <2>2, LabelStep, ZenonT(40) DEF PostCheck, TypeInv, Typed
<1>6. CASE PostArm(w)
  <2>1. PICK l \in {"headerDone", "bodyDone"} : pc' = [pc EXCEPT ![w] = l]
    BY <1>6 DEF PostArm, DoneLabel
  <2>2. pc[w] \notin {"idle", "lock"} /\ l \in PcLabels \ {"idle", "lock"} /\ mutex' = mutex /\ todo' = todo
    BY <1>6 DEF PostArm, PcLabels
  <2>3. pending' \in Nat /\ aborted' \in Nat
    BY <1>6 DEF PostArm, ArmWrite, TypeInv, Typed
  <2> QED BY <1>6, <2>1, <2>2, <2>3, LabelStep DEF PostArm, TypeInv, Typed
<1>7. CASE Return(w)
  <2>a. pc[w] = "bodyDone" /\ mutex' = NoOne /\ pc' = [pc EXCEPT ![w] = "idle"]
    BY <1>7 DEF Return
  <2>b. todo[w] \in Nat /\ todo[w] > 0
    BY <2>a DEF TypeInv, Typed, HasMessage
  <2>c. todo' = [todo EXCEPT ![w] = todo[w] - 1]
    BY <1>7 DEF Return
  <2>d. pc' \in [Writers -> PcLabels]
    BY <2>a DEF TypeInv, Typed, PcLabels
  <2>1. /\ pc[w] = "bodyDone" /\ mutex' = NoOne
        /\ todo[w] - 1 \in Nat /\ todo' = [todo EXCEPT ![w] = todo[w] - 1]
        /\ pc' = [pc EXCEPT ![w] = "idle"] /\ pc' \in [Writers -> PcLabels]
    BY <2>a, <2>b, <2>c, <2>d
  <2>2. todo' \in [Writers -> Nat]
    BY <2>1 DEF TypeInv, Typed
  <2>3. HasMessage' /\ \A v \in Writers : mutex' = v <=> pc'[v] \notin {"idle", "lock"}
    BY <2>1 DEF TypeInv, Typed, HasMessage
  <2> QED BY <1>7, <2>1, <2>2, <2>3 DEF Return, TypeInv, Typed
<1>8. CASE WriteNolock(w)
  <2>1. PICK l \in {"headerAppend", "headerDone", "bodyAppend", "bodyDone"} : pc' = [pc EXCEPT ![w] = l]
    BY <1>8, NolockEffect
  <2>2. pc[w] \notin {"idle", "lock"} /\ l \in PcLabels \ {"idle", "lock"} /\ mutex' = mutex /\ todo' = todo
    BY <1>8, NolockEffect DEF PcLabels
  <2> QED BY <1>8, <2>1, <2>2, NolockEffect, LabelStep, ZenonT(40) DEF TypeInv, Typed
<1> QED BY <1>1, <1>2, <1>3, <1>4, <1>5, <1>6, <1>7, <1>8 DEF Writer

LEMMA NetTypeInv == TypeInv /\ Net => TypeInv'
<1> SUFFICES ASSUME TypeInv, Net PROVE TypeInv'
  OBVIOUS
<1> USE DEF TypeInv, Typed, HasMessage, sessionVars, bufferVars, opVars
<1>1. CASE HandleWrite
  BY <1>1 DEF HandleWrite
<1>2. CASE HandleWriteError
  BY <1>2 DEF HandleWriteError
<1>3. CASE Drain
  <2>1. PICK n \in 0 .. Len(writeBuffer) :
           writeBuffer' = Rest(n) /\ sent' = sent \o SubSeq(writeBuffer, 1, n)
    BY <1>3 DEF Drain
  <2>2. writeBuffer' \in Seq(Unit) /\ sent' \in Seq(Unit)
    BY <2>1, RestType, ConcatProperties DEF Rest
  <2>3. netpc' \in {"idle", "blocked"} /\ blocks' \in 0 .. MaxBlocks
    BY <1>3 DEF Drain
  <2> QED BY <1>3, <2>2, <2>3 DEF Drain
<1>4. CASE Blocked
  BY <1>4 DEF Blocked
<1>5. CASE Rearm
  BY <1>5 DEF Rearm, ArmWrite
<1> QED BY <1>1, <1>2, <1>3, <1>4, <1>5 DEF Net

LEMMA ConnectionTypeInv == TypeInv /\ Connection => TypeInv'
<1> SUFFICES ASSUME TypeInv, Connection PROVE TypeInv'
  OBVIOUS
<1> USE DEF TypeInv, Typed, HasMessage, bufferVars, opVars, AbortWrites
<1>1. CASE OnConnect
  BY <1>1 DEF OnConnect
<1>2. CASE HandleConnect
  BY <1>2 DEF HandleConnect
<1>3. CASE PeerGone
  BY <1>3 DEF PeerGone
<1>4. CASE HandleReadFails
  BY <1>4 DEF HandleReadFails
<1>5. CASE StopClose
  BY <1>5 DEF StopClose
<1>6. CASE StopClear
  BY <1>6 DEF StopClear
<1> QED BY <1>1, <1>2, <1>3, <1>4, <1>5, <1>6 DEF Connection

LEMMA NextTypeInv == TypeInv /\ [Next]_vars => TypeInv'
<1>1. TypeInv /\ UNCHANGED vars => TypeInv'
  BY DEF vars, sessionVars, bufferVars, opVars, TypeInv, Typed, HasMessage
<1> QED BY <1>1, WriterTypeInv, NetTypeInv, ConnectionTypeInv DEF Next

\* Nothing but TRUE and FALSE is ever assigned to a flag.
LEMMA NextFlags == Flags /\ [Next]_vars => Flags'
<1> SUFFICES ASSUME Flags, [Next]_vars PROVE Flags'
  OBVIOUS
<1> USE DEF Flags, sessionVars, bufferVars, opVars
<1>1. ASSUME NEW w \in Writers, Writer(w) PROVE Flags'
  BY <1>1, Zenon DEF Writer, WriteMessage, CheckWriteBuffer, WriteHeader, WriteBody, WriteNolock,
     WriteImpl, PostCheck, PostArm, Return, ArmWrite
<1>2. CASE Net
  BY <1>2, Zenon DEF Net, HandleWrite, HandleWriteError, Drain, Blocked, Rearm, ArmWrite
<1>3. CASE Connection
  BY <1>3, Zenon DEF Connection, OnConnect, HandleConnect, PeerGone, HandleReadFails, StopClose, StopClear
<1>4. CASE UNCHANGED vars
  BY <1>4, Zenon DEF vars
<1> QED BY <1>1, <1>2, <1>3, <1>4 DEF Next

LEMMA InitFlags == Init => Flags
BY Zenon DEF Init, Flags

\* The inductive invariant behind all the others.
THEOREM TypeInvariance == Spec => [](TypeInv /\ Flags)
BY InitTypeInv, NextTypeInv, InitFlags, NextFlags, PTL DEF Spec

\* The variables keep their types, and _writeMutex is held exactly by the
\* writer that is between checkWriteBuffer and the return of writeMessage.
THEOREM TypeCorrect == Spec => []TypeOK
<1>1. TypeInv /\ Flags => TypeOK
  BY Zenon DEF TypeInv, Typed, Flags, TypeOK
<1> QED BY <1>1, TypeInvariance, PTL

-----------------------------------------------------------------------------
(* The stream. *)

\* Appending to the buffer appends to what is sent and buffered together.
LEMMA ConcatAppend ==
    ASSUME NEW S, NEW s \in Seq(S), NEW t \in Seq(S), NEW u \in S
    PROVE  s \o Append(t, u) = Append(s \o t, u)
OBVIOUS

\* Moving the first n units from the buffer to the wire changes nothing of it.
LEMMA ConcatSplit ==
    ASSUME NEW S, NEW s \in Seq(S), NEW t \in Seq(S), NEW n \in 0 .. Len(t)
    PROVE  (s \o SubSeq(t, 1, n)) \o SubSeq(t, n + 1, Len(t)) = s \o t
<1> DEFINE a == SubSeq(t, 1, n)
           b == SubSeq(t, n + 1, Len(t))
<1>1. a \in Seq(S) /\ b \in Seq(S)
  OBVIOUS
<1>2. 1 \in 1 .. Len(t) + 1 /\ n \in 1 - 1 .. Len(t) /\ Len(t) \in n .. Len(t)
  OBVIOUS
<1>3. a \o b = SubSeq(t, 1, Len(t))
  BY ONLY <1>2, ConcatAdjacentSubSeq, t \in Seq(S), Zenon
<1>4. a \o b = t
  BY <1>3, SubSeqFull, Zenon
<1> HIDE DEF a, b
<1>5. (s \o a) \o b = s \o (a \o b)
  BY <1>1, ConcatAssociative, SMTT(40)
<1>6. (s \o a) \o b = s \o t
  BY <1>4, <1>5
<1> QED BY <1>6 DEF a, b

LEMMA StreamStep == TypeInv /\ StreamIntegrity /\ [Next]_vars => StreamIntegrity'
<1> SUFFICES ASSUME TypeInv, StreamIntegrity, [Next]_vars PROVE StreamIntegrity'
  OBVIOUS
<1> USE DEF StreamIntegrity, sessionVars, bufferVars, opVars
<1>1. ASSUME NEW w \in Writers, Writer(w) PROVE StreamIntegrity'
  <2>1. CASE WriteHeader(w)
    <3>1. CASE Appends(PartOf(w, "header"))
      BY <2>1, <3>1, ConcatAppend, PartType, SMTT(40) DEF Appends, WriteHeader, TypeInv, Typed
    <3>2. CASE Keeps
      BY <2>1, <3>2 DEF Keeps, WriteHeader
    <3> QED BY <2>1, <3>1, <3>2, HeaderEffect
  <2>2. CASE WriteBody(w)
    <3>1. CASE Appends(PartOf(w, "body"))
      BY <2>2, <3>1, ConcatAppend, PartType, SMTT(40) DEF Appends, WriteBody, TypeInv, Typed
    <3>2. CASE Keeps
      BY <2>2, <3>2 DEF Keeps, WriteBody
    <3> QED BY <2>2, <3>1, <3>2, BodyEffect
  <2>3. CASE WriteMessage(w) \/ CheckWriteBuffer(w) \/ WriteNolock(w) \/ PostCheck(w) \/ PostArm(w) \/ Return(w)
    BY <2>3 DEF WriteMessage, CheckWriteBuffer, WriteNolock, PostCheck, PostArm, Return
  <2> QED BY <1>1, <2>1, <2>2, <2>3 DEF Writer
<1>2. CASE Drain
  <2>1. PICK n \in 0 .. Len(writeBuffer) :
           writeBuffer' = Rest(n) /\ sent' = sent \o SubSeq(writeBuffer, 1, n)
    BY <1>2 DEF Drain
  <2>2. stream' = stream
    BY <1>2 DEF Drain
  <2>3. sent \in Seq(Unit) /\ writeBuffer \in Seq(Unit)
    BY DEF TypeInv, Typed
  <2>4. (sent \o SubSeq(writeBuffer, 1, n)) \o SubSeq(writeBuffer, n + 1, Len(writeBuffer))
           = sent \o writeBuffer
    BY ONLY ConcatSplit, <2>3, n \in 0 .. Len(writeBuffer), Zenon
  <2> QED BY <2>1, <2>2, <2>4, Zenon DEF Rest
<1>3. CASE HandleWrite \/ HandleWriteError \/ Blocked \/ Rearm
  BY <1>3 DEF HandleWrite, HandleWriteError, Blocked, Rearm
<1>4. CASE OnConnect
  BY <1>4 DEF OnConnect, TypeInv, Typed
<1>5. CASE HandleConnect \/ PeerGone \/ HandleReadFails \/ StopClose \/ StopClear
  BY <1>5 DEF HandleConnect, PeerGone, HandleReadFails, StopClose, StopClear
<1>6. CASE UNCHANGED vars
  BY <1>6 DEF vars
<1> QED BY <1>1, <1>2, <1>3, <1>4, <1>5, <1>6, Zenon DEF Next, Net, Connection

\* writeImpl, the partial writes of handleWrite and its memmove of the rest
\* neither lose nor repeat nor reorder a unit, however many threads write.
THEOREM StreamCorrect == Spec => []StreamIntegrity
<1>1. Init => StreamIntegrity
  BY DEF Init, StreamIntegrity
<1> QED BY <1>1, StreamStep, TypeInvariance, PTL DEF Spec

-----------------------------------------------------------------------------
(* The frames. *)

BeforeHeader == {"header", "headerAppend"}
AfterHeader == {"headerPost", "headerArm", "headerDone", "bodyAppend"}

\* A writer's messages are numbered downwards.  A unit of the message it is
\* writing is there only once its header was tried, and is last until the body
\* was tried.
NumberedAt(i, w) ==
    /\ stream[i].no >= todo[w]
    /\ stream[i].no = todo[w] => /\ pc[w] \notin {"idle", "lock", "full", "header", "headerAppend"}
                                 /\ pc[w] \in AfterHeader => i = Len(stream)

Numbered == \A i \in 1 .. Len(stream) : \A w \in Writers : stream[i].from = w => NumberedAt(i, w)

\* The first conjunct of Framing.
Adjacent ==
    \A i, j \in 1 .. Len(stream) : i < j /\ SameMessage(stream[i], stream[j]) => j = i + 1

\* Under the mutex, the room checkWriteBuffer found stays.
Room ==
    \A w \in Writers :
       /\ pc[w] \in BeforeHeader => Len(writeBuffer) + 2 <= BufferSize
       /\ pc[w] \in AfterHeader => Len(writeBuffer) + 1 <= BufferSize

\* What is there before the connection is up is left over.
NothingEarly == status = "Connecting" => Len(stream) = left

\* The last unit is the header whose body the holder of the mutex still owes.
HalfWritten(i) ==
    /\ i = Len(stream) /\ mutex \in Writers
    /\ pc[mutex] \in AfterHeader /\ stream[i] = PartOf(mutex, "header")

Followed(i) == i < Len(stream) /\ stream[i + 1] = [stream[i] EXCEPT !.part = "body"]

Whole ==
    IsOk /\ open =>
       \A i \in left + 1 .. Len(stream) : stream[i].part = "header" => Followed(i) \/ HalfWritten(i)

\* What an appended unit does to the stream.
LEMMA AppendFacts ==
    ASSUME TypeInv, NEW u \in Unit, Appends(u)
    PROVE  /\ left \in Nat /\ Len(stream') = Len(stream) + 1 /\ stream'[Len(stream) + 1] = u
           /\ \A i \in 1 .. Len(stream) : stream'[i] = stream[i]
           /\ Len(writeBuffer') = Len(writeBuffer) + 1
<1>1. stream \in Seq(Unit) /\ writeBuffer \in Seq(Unit) /\ left \in Nat
  BY DEF TypeInv, Typed
<1> QED BY <1>1 DEF Appends

\* What a new connection does to it: the units that were not sent stay.
LEMMA SuffixFacts ==
    ASSUME TypeInv, StreamIntegrity, OnConnect
    PROVE  /\ Len(sent) \in Nat /\ Len(stream) = Len(sent) + Len(stream')
           /\ \A i \in 1 .. Len(stream') :
                 /\ Len(sent) + i \in 1 .. Len(stream)
                 /\ stream'[i] = stream[Len(sent) + i]
<1>1. stream = sent \o writeBuffer /\ stream' = writeBuffer
  BY DEF OnConnect, StreamIntegrity
<1>2. sent \in Seq(Unit) /\ writeBuffer \in Seq(Unit)
  BY DEF TypeInv, Typed
<1> QED BY <1>1, <1>2

\* The actions that leave the stream, the labels and the messages alone.
LEMMA QuietSteps ==
    ASSUME Net \/ (Connection /\ ~OnConnect) \/ UNCHANGED vars
    PROVE  stream' = stream /\ pc' = pc /\ todo' = todo /\ mutex' = mutex /\ left' = left
BY DEF Net, HandleWrite, HandleWriteError, Drain, Blocked, Rearm, Connection, HandleConnect, PeerGone,
   HandleReadFails, StopClose, StopClear, vars, sessionVars, bufferVars, opVars

\* The fields of a part.
LEMMA PartFields ==
    ASSUME NEW w, NEW part
    PROVE  PartOf(w, part).from = w /\ PartOf(w, part).no = todo[w] /\ PartOf(w, part).part = part
BY DEF PartOf

LEMMA NumberedStep == TypeInv /\ StreamIntegrity /\ Numbered /\ [Next]_vars => Numbered'
<1> SUFFICES ASSUME TypeInv, StreamIntegrity, Numbered, [Next]_vars PROVE Numbered'
  OBVIOUS
<1>t. /\ stream \in Seq(Unit) /\ Len(stream) \in Nat
      /\ pc \in [Writers -> PcLabels] /\ todo \in [Writers -> Nat]
      /\ \A i \in 1 .. Len(stream) : stream[i] \in Unit
  BY DEF TypeInv, Typed
<1>n. \A i \in 1 .. Len(stream) : stream[i].from \in Writers /\ stream[i].no \in Nat
  BY <1>t DEF Unit
<1>1. ASSUME NEW w \in Writers, Writer(w) PROVE Numbered'
  <2> USE DEF bufferVars, Goto
  <2>1. CASE WriteMessage(w)
    <3> SUFFICES ASSUME NEW i \in 1 .. Len(stream), NEW v \in Writers, stream[i].from = v
                 PROVE  NumberedAt(i, v)'
      BY <2>1 DEF WriteMessage, Numbered
    <3>1. NumberedAt(i, v) /\ stream' = stream
      BY <2>1 DEF WriteMessage, Numbered
    <3>2. todo'[v] = todo[v] \/ (v = w /\ todo'[v] = todo[v] - 1)
      BY <1>t, <2>1 DEF WriteMessage
    <3>3. pc'[v] = pc[v] \/ (v = w /\ pc[v] = "idle")
      BY <1>t, <2>1 DEF WriteMessage
    <3>4. stream[i].no \in Nat /\ todo[v] \in Nat
      BY <1>t, <1>n
    <3> QED BY <3>1, <3>2, <3>3, <3>4 DEF NumberedAt
  <2>2. CASE CheckWriteBuffer(w)
    BY <1>t, <1>n, <2>2 DEF CheckWriteBuffer, Numbered, NumberedAt, AfterHeader
  <2>3. CASE WriteHeader(w)
    <3>1. pc[w] = "headerAppend" /\ todo' = todo
      BY <2>3 DEF WriteHeader
    <3>2. ASSUME NEW i \in 1 .. Len(stream), stream[i].from = w PROVE stream[i].no # todo[w]
      BY <3>1, <3>2 DEF Numbered, NumberedAt
    <3>3. CASE Appends(PartOf(w, "header")) /\ pc' = [pc EXCEPT ![w] = "headerPost"]
      <4>1. PartOf(w, "header") \in Unit
        BY PartType DEF TypeInv
      <4>2. \A v \in Writers : v # w => pc'[v] = pc[v] /\ pc[v] \in {"idle", "lock"}
        BY <3>1, <3>3 DEF TypeInv, Typed
      <4>3. pc'[w] = "headerPost"
        BY <1>t, <3>3
      <4>4. /\ Len(stream') = Len(stream) + 1 /\ stream'[Len(stream) + 1] = PartOf(w, "header")
            /\ \A i \in 1 .. Len(stream) : stream'[i] = stream[i]
        BY <3>3, <4>1, AppendFacts
      <4> SUFFICES ASSUME NEW i \in 1 .. Len(stream) + 1, NEW v \in Writers, stream'[i].from = v
                   PROVE  NumberedAt(i, v)'
        BY <4>4 DEF Numbered
      <4>5. CASE i = Len(stream) + 1
        <5>1. v = w /\ stream'[i].no = todo[w]
          BY <4>4, <4>5, PartFields
        <5> QED BY <1>t, <3>1, <4>3, <4>4, <4>5, <5>1 DEF NumberedAt
      <4>6. CASE i \in 1 .. Len(stream)
        <5>1. stream'[i] = stream[i] /\ NumberedAt(i, v)
          BY <4>4, <4>6 DEF Numbered
        <5>2. CASE v = w
          BY <3>2, <3>1, <4>3, <4>6, <5>1, <5>2 DEF NumberedAt, AfterHeader
        <5>3. CASE v # w
          BY <3>1, <4>2, <5>1, <5>3 DEF NumberedAt, AfterHeader
        <5> QED BY <5>2, <5>3
      <4> QED BY <1>t, <4>5, <4>6
    <3>4. CASE Keeps /\ pc' = [pc EXCEPT ![w] = "headerDone"]
      BY <1>t, <1>n, <3>1, <3>2, <3>4 DEF Numbered, NumberedAt, AfterHeader, Keeps
    <3> QED BY <2>3, <3>3, <3>4, HeaderEffect
  <2>4. CASE WriteBody(w)
    <3>1. pc[w] = "bodyAppend" /\ todo' = todo
      BY <2>4 DEF WriteBody
    <3>3. CASE Appends(PartOf(w, "body")) /\ pc' = [pc EXCEPT ![w] = "bodyPost"]
      <4>1. PartOf(w, "body") \in Unit
        BY PartType DEF TypeInv
      <4>2. \A v \in Writers : v # w => pc'[v] = pc[v] /\ pc[v] \in {"idle", "lock"}
        BY <3>1, <3>3 DEF TypeInv, Typed
      <4>3. pc'[w] = "bodyPost"
        BY <1>t, <3>3
      <4>4. /\ Len(stream') = Len(stream) + 1 /\ stream'[Len(stream) + 1] = PartOf(w, "body")
            /\ \A i \in 1 .. Len(stream) : stream'[i] = stream[i]
        BY <3>3, <4>1, AppendFacts
      <4> SUFFICES ASSUME NEW i \in 1 .. Len(stream) + 1, NEW v \in Writers, stream'[i].from = v
                   PROVE  NumberedAt(i, v)'
        BY <4>4 DEF Numbered
      <4>5. CASE i = Len(stream) + 1
        <5>1. v = w /\ stream'[i].no = todo[w]
          BY <4>4, <4>5, PartFields
        <5> QED BY <1>t, <3>1, <4>3, <4>4, <4>5, <5>1 DEF NumberedAt
      <4>6. CASE i \in 1 .. Len(stream)
        <5>1. stream'[i] = stream[i] /\ NumberedAt(i, v)
          BY <4>4, <4>6 DEF Numbered
        <5>2. CASE v = w
          BY <3>1, <4>3, <4>6, <5>1, <5>2 DEF NumberedAt, AfterHeader
        <5>3. CASE v # w
          BY <3>1, <4>2, <5>1, <5>3 DEF NumberedAt, AfterHeader
        <5> QED BY <5>2, <5>3
      <4> QED BY <1>t, <4>5, <4>6
    <3>4. CASE Keeps /\ pc' = [pc EXCEPT ![w] = "bodyDone"]
      BY <1>t, <1>n, <3>1, <3>4 DEF Numbered, NumberedAt, AfterHeader, Keeps
    <3> QED BY <2>4, <3>3, <3>4, BodyEffect
  <2>5. CASE PostCheck(w)
    BY <1>t, <1>n, <2>5, ZenonT(40) DEF PostCheck, Numbered, NumberedAt, AfterHeader, ArmLabel, DoneLabel
  <2>6. CASE PostArm(w)
    BY <1>t, <1>n, <2>6, ZenonT(40) DEF PostArm, Numbered, NumberedAt, AfterHeader, DoneLabel
  <2>7. CASE Return(w)
    <3> SUFFICES ASSUME NEW i \in 1 .. Len(stream), NEW v \in Writers, stream[i].from = v
                 PROVE  NumberedAt(i, v)'
      BY <2>7 DEF Return, Numbered
    <3>1. NumberedAt(i, v) /\ stream' = stream
      BY <2>7 DEF Return, Numbered
    <3>2. todo'[v] = IF v = w THEN todo[v] - 1 ELSE todo[v]
      BY <1>t, <2>7 DEF Return
    <3>3. v # w => pc'[v] = pc[v]
      BY <1>t, <2>7 DEF Return
    <3>4. stream[i].no \in Nat /\ todo[v] \in Nat
      BY <1>t, <1>n
    <3> QED BY <3>1, <3>2, <3>3, <3>4 DEF NumberedAt
  <2>8. CASE WriteNolock(w)
    <3>1. stream' = stream /\ todo' = todo
      BY <2>8, NolockEffect
    <3> SUFFICES ASSUME NEW i \in 1 .. Len(stream), NEW v \in Writers, stream[i].from = v
                 PROVE  NumberedAt(i, v)'
      BY <3>1 DEF Numbered
    <3>2. NumberedAt(i, v)
      BY DEF Numbered
    <3>3. \/ pc'[v] = pc[v]
          \/ pc[v] = "header"
          \/ pc[v] = "headerDone" /\ pc'[v] \in {"bodyAppend", "bodyDone"}
      BY <1>t, <2>8, NolockEffect
    <3> QED BY <3>1, <3>2, <3>3 DEF NumberedAt, AfterHeader
  <2> QED BY <1>1, <2>1, <2>2, <2>3, <2>4, <2>5, <2>6, <2>7, <2>8, Zenon DEF Writer
<1>2. CASE OnConnect
  <2> SUFFICES ASSUME NEW i \in 1 .. Len(stream'), NEW v \in Writers, stream'[i].from = v
               PROVE  NumberedAt(i, v)'
    BY DEF Numbered
  <2>1. /\ Len(sent) + i \in 1 .. Len(stream) /\ stream'[i] = stream[Len(sent) + i]
        /\ Len(sent) \in Nat /\ Len(stream) = Len(sent) + Len(stream')
    BY <1>2, SuffixFacts
  <2>2. Len(stream') \in Nat
    BY <1>t, <2>1
  <2>3. NumberedAt(Len(sent) + i, v)
    BY <2>1 DEF Numbered
  <2>4. todo' = todo /\ pc' = pc
    BY <1>2 DEF OnConnect
  <2> QED BY <2>1, <2>2, <2>3, <2>4 DEF NumberedAt
<1>3. CASE Net \/ (Connection /\ ~OnConnect) \/ UNCHANGED vars
  BY <1>3, QuietSteps DEF Numbered, NumberedAt
<1> QED BY <1>1, <1>2, <1>3, Zenon DEF Next

LEMMA AdjacentStep == TypeInv /\ StreamIntegrity /\ Numbered /\ Adjacent /\ [Next]_vars => Adjacent'
<1> SUFFICES ASSUME TypeInv, StreamIntegrity, Numbered, Adjacent, [Next]_vars PROVE Adjacent'
  OBVIOUS
<1>t. Len(stream) \in Nat
  BY DEF TypeInv, Typed
<1>1. ASSUME NEW w \in Writers, Writer(w) PROVE Adjacent'
  <2> USE DEF bufferVars
  <2>1. CASE WriteHeader(w)
    <3>1. \A i \in 1 .. Len(stream) : ~SameMessage(stream[i], PartOf(w, "header"))
      BY <2>1, PartFields DEF WriteHeader, Numbered, NumberedAt, SameMessage
    <3>2. CASE Appends(PartOf(w, "header"))
      <4>1. PartOf(w, "header") \in Unit
        BY PartType DEF TypeInv
      <4> QED BY <1>t, <3>1, <3>2, <4>1, AppendFacts DEF Adjacent
    <3>3. CASE Keeps
      BY <3>3 DEF Adjacent, Keeps
    <3> QED BY <2>1, <3>2, <3>3, HeaderEffect
  <2>2. CASE WriteBody(w)
    <3>1. \A i \in 1 .. Len(stream) : SameMessage(stream[i], PartOf(w, "body")) => i = Len(stream)
      BY <2>2, PartFields DEF WriteBody, Numbered, NumberedAt, SameMessage, AfterHeader
    <3>2. CASE Appends(PartOf(w, "body"))
      <4>1. PartOf(w, "body") \in Unit
        BY PartType DEF TypeInv
      <4> QED BY <1>t, <3>1, <3>2, <4>1, AppendFacts DEF Adjacent
    <3>3. CASE Keeps
      BY <3>3 DEF Adjacent, Keeps
    <3> QED BY <2>2, <3>2, <3>3, BodyEffect
  <2>3. CASE WriteMessage(w) \/ CheckWriteBuffer(w) \/ WriteNolock(w) \/ PostCheck(w) \/ PostArm(w) \/ Return(w)
    BY <2>3 DEF WriteMessage, CheckWriteBuffer, WriteNolock, PostCheck, PostArm, Return, Adjacent
  <2> QED BY <1>1, <2>1, <2>2, <2>3, Zenon DEF Writer
<1>2. CASE OnConnect
  BY <1>t, <1>2, SuffixFacts DEF Adjacent
<1>3. CASE Net \/ (Connection /\ ~OnConnect) \/ UNCHANGED vars
  BY <1>3, QuietSteps DEF Adjacent
<1> QED BY <1>1, <1>2, <1>3, Zenon DEF Next

\* While a writer holds the mutex no other is past it.
LEMMA OneInside ==
    ASSUME TypeInv, NEW w \in Writers, pc[w] \notin {"idle", "lock"}
    PROVE  mutex = w /\ \A v \in Writers : v # w => pc[v] \in {"idle", "lock"}
BY DEF TypeInv, Typed

LEMMA RoomStep == TypeInv /\ Room /\ [Next]_vars => Room'
<1> SUFFICES ASSUME TypeInv, Room, [Next]_vars PROVE Room'
  OBVIOUS
<1>t. Len(writeBuffer) \in Nat /\ pc \in [Writers -> PcLabels]
  BY DEF TypeInv, Typed
<1>1. ASSUME NEW w \in Writers, Writer(w) PROVE Room'
  <2> USE DEF bufferVars, Goto, BeforeHeader, AfterHeader
  <2>1. CASE WriteMessage(w) \/ CheckWriteBuffer(w)
    BY <1>t, <2>1 DEF WriteMessage, CheckWriteBuffer, Room
  <2>2. CASE WriteHeader(w)
    <3>1. pc[w] = "headerAppend" /\ Len(writeBuffer) + 2 <= BufferSize
      BY <2>2 DEF WriteHeader, Room
    <3>2. \A v \in Writers : v # w => pc'[v] \in {"idle", "lock"}
      BY <1>t, <2>2, <3>1, OneInside, HeaderEffect
    <3>3. Len(writeBuffer') \in {Len(writeBuffer), Len(writeBuffer) + 1}
      BY <2>2, HeaderEffect, AppendFacts, PartType DEF Keeps, TypeInv
    <3>4. pc'[w] \in {"headerPost", "headerDone"}
      BY <1>t, <2>2, HeaderEffect
    <3> QED BY <1>t, <3>1, <3>2, <3>3, <3>4 DEF Room
  <2>3. CASE WriteBody(w)
    <3>1. \A v \in Writers : v # w => pc'[v] \in {"idle", "lock"}
      BY <1>t, <2>3, OneInside, BodyEffect DEF WriteBody
    <3>2. pc'[w] \in {"bodyPost", "bodyDone"}
      BY <1>t, <2>3, BodyEffect
    <3> QED BY <3>1, <3>2 DEF Room
  <2>4. CASE PostCheck(w)
    BY <1>t, <2>4 DEF PostCheck, ArmLabel, DoneLabel, Room
  <2>5. CASE PostArm(w)
    BY <1>t, <2>5 DEF PostArm, DoneLabel, Room
  <2>6. CASE Return(w)
    BY <1>t, <2>6 DEF Return, Room
  <2>7. CASE WriteNolock(w)
    BY <1>t, <2>7, NolockEffect DEF Room
  <2> QED BY <1>1, <2>1, <2>2, <2>3, <2>4, <2>5, <2>6, <2>7, Zenon DEF Writer
<1>2. CASE Drain
  <2>1. \A w \in Writers : pc'[w] \in {"idle", "lock"}
    BY <1>2 DEF Drain, TypeInv, Typed
  <2> QED BY <2>1 DEF Room, BeforeHeader, AfterHeader
<1>3. CASE HandleWrite \/ HandleWriteError \/ Blocked \/ Rearm
  BY <1>3 DEF HandleWrite, HandleWriteError, Blocked, Rearm, bufferVars, Room
<1>4. CASE Connection
  BY <1>4 DEF Connection, OnConnect, HandleConnect, PeerGone, HandleReadFails, StopClose, StopClear,
     bufferVars, Room
<1>5. CASE UNCHANGED vars
  BY <1>5 DEF vars, bufferVars, Room
<1> QED BY <1>1, <1>2, <1>3, <1>4, <1>5, Zenon DEF Next, Net

LEMMA EarlyStep == TypeInv /\ NothingEarly /\ [Next]_vars => NothingEarly'
<1> SUFFICES ASSUME TypeInv, NothingEarly, [Next]_vars PROVE NothingEarly'
  OBVIOUS
<1> USE DEF NothingEarly, sessionVars, bufferVars
<1>1. ASSUME NEW w \in Writers, Writer(w) PROVE NothingEarly'
  <2>1. CASE WriteHeader(w)
    BY <2>1, HeaderEffect DEF WriteHeader, Appends, Keeps, IsOk
  <2>2. CASE WriteBody(w)
    BY <2>2, BodyEffect DEF WriteBody, Appends, Keeps, IsOk
  <2>3. CASE WriteMessage(w) \/ CheckWriteBuffer(w) \/ WriteNolock(w) \/ PostCheck(w) \/ PostArm(w) \/ Return(w)
    BY <2>3 DEF WriteMessage, CheckWriteBuffer, WriteNolock, PostCheck, PostArm, Return
  <2> QED BY <1>1, <2>1, <2>2, <2>3, Zenon DEF Writer
<1>2. CASE Net
  BY <1>2 DEF Net, HandleWrite, HandleWriteError, Drain, Blocked, Rearm
<1>3. CASE Connection
  BY <1>3 DEF Connection, OnConnect, HandleConnect, PeerGone, HandleReadFails, StopClose, StopClear, IsOk
<1>4. CASE UNCHANGED vars
  BY <1>4 DEF vars
<1> QED BY <1>1, <1>2, <1>3, <1>4, Zenon DEF Next

\* Whether a header is followed depends on the stream only, and a step of w
\* that leaves the stream alone and moves w within the labels after its header
\* keeps a half-written message half-written.
LEMMA WholeLabels ==
    ASSUME Whole, NEW w \in Writers, TypeInv,
           left' = left, status' = status, open' = open, stream' = stream, todo'[w] = todo[w],
           mutex = w => mutex' = w /\ (pc[w] \in AfterHeader => pc'[w] \in AfterHeader)
    PROVE  mutex = w => Whole'
BY DEF Whole, Followed, HalfWritten, PartOf, IsOk

\* What is appended does not separate a header from its body.
LEMMA FollowedStays ==
    ASSUME Len(stream) \in Nat, Len(stream') = Len(stream) + 1,
           \A i \in 1 .. Len(stream) : stream'[i] = stream[i],
           NEW k \in 1 .. Len(stream), Followed(k)
    PROVE  Followed(k)'
<1>1. k < Len(stream) /\ k + 1 \in 1 .. Len(stream) /\ k < Len(stream')
  BY DEF Followed
<1>2. stream'[k] = stream[k] /\ stream'[k + 1] = stream[k + 1]
  BY <1>1
<1> QED BY <1>1, <1>2, Zenon DEF Followed

LEMMA WholeStep ==
    TypeInv /\ StreamIntegrity /\ Room /\ NothingEarly /\ Whole /\ [Next]_vars => Whole'
<1> SUFFICES ASSUME TypeInv, StreamIntegrity, Room, NothingEarly, Whole, [Next]_vars PROVE Whole'
  OBVIOUS
<1>t. Len(stream) \in Nat /\ left \in Nat /\ pc \in [Writers -> PcLabels] /\ todo \in [Writers -> Nat] /\ stream \in Seq(Unit)
  BY DEF TypeInv, Typed
<1>1. ASSUME NEW w \in Writers, Writer(w) PROVE Whole'
  <2> USE DEF sessionVars, bufferVars, Goto
  <2>s. status' = status /\ open' = open
    BY <1>1 DEF Writer, WriteMessage, CheckWriteBuffer, WriteNolock, WriteHeader, WriteBody, PostCheck, PostArm, Return
  <2>1. CASE WriteMessage(w)
    <3>1. mutex' = mutex /\ stream' = stream /\ left' = left
      BY <2>1 DEF WriteMessage
    <3>2. ASSUME mutex \in Writers, pc[mutex] \in AfterHeader
          PROVE  pc'[mutex] = pc[mutex] /\ todo'[mutex] = todo[mutex]
      BY <1>t, <2>1, <3>2 DEF WriteMessage, AfterHeader
    <3> QED BY <2>s, <3>1, <3>2 DEF Whole, Followed, HalfWritten, PartOf, IsOk
  <2>2. CASE CheckWriteBuffer(w)
    <3>1. mutex \notin Writers /\ stream' = stream /\ left' = left
      BY <2>2 DEF CheckWriteBuffer
    <3> QED BY <2>s, <3>1 DEF Whole, Followed, HalfWritten, IsOk
  <2>3. CASE WriteHeader(w)
    <3>1. pc[w] = "headerAppend" /\ mutex = w /\ mutex' = mutex /\ todo' = todo
      BY <2>3, OneInside DEF WriteHeader
    <3>2. ASSUME IsOk, open, NEW i \in left + 1 .. Len(stream), stream[i].part = "header"
          PROVE  Followed(i)
      BY <3>1, <3>2 DEF Whole, HalfWritten, AfterHeader
    <3>3. CASE Keeps
      BY <2>s, <3>2, <3>3 DEF Whole, Followed, Keeps, IsOk
    <3>4. CASE Appends(PartOf(w, "header")) /\ pc' = [pc EXCEPT ![w] = "headerPost"]
      <4>1. /\ Len(stream') = Len(stream) + 1 /\ stream'[Len(stream) + 1] = PartOf(w, "header")
            /\ \A i \in 1 .. Len(stream) : stream'[i] = stream[i]
        BY <3>4, AppendFacts, PartType DEF TypeInv
      <4>2. ASSUME NEW i \in 1 .. Len(stream) + 1, i = Len(stream) + 1 PROVE HalfWritten(i)'
        <5>1. pc'[w] \in AfterHeader
          BY <1>t, <3>4 DEF AfterHeader
        <5>2. stream'[i] = PartOf(w, "header")'
          BY <3>1, <4>1, <4>2, Zenon DEF PartOf
        <5> QED BY <3>1, <4>1, <4>2, <5>1, <5>2, Zenon DEF HalfWritten
      <4>3. ASSUME NEW i \in 1 .. Len(stream), Followed(i) PROVE Followed(i)'
        BY <1>t, <4>1, <4>3, FollowedStays
      <4> SUFFICES ASSUME IsOk', open',
                          NEW i \in left' + 1 .. Len(stream'), stream'[i].part = "header"
                   PROVE  Followed(i)' \/ HalfWritten(i)'
        BY Zenon DEF Whole
      <4>l. left' = left
        BY <2>s, <3>4 DEF Appends, IsOk
      <4>4. CASE i \in 1 .. Len(stream)
        <5>1. i \in left + 1 .. Len(stream) /\ stream[i].part = "header"
          BY <1>t, <4>1, <4>4, <4>l
        <5>2. IsOk /\ open
          BY <2>s DEF IsOk
        <5>3. Followed(i)
          BY <3>2, <5>1, <5>2
        <5> QED BY <4>3, <4>4, <5>3
      <4>5. CASE i = Len(stream) + 1
        BY <4>1, <4>2, <4>5
      <4> QED BY <1>t, <4>1, <4>4, <4>5, <4>l
    <3> QED BY <2>3, <3>3, <3>4, HeaderEffect
  <2>4. CASE WriteBody(w)
    <3>1. pc[w] = "bodyAppend" /\ mutex = w /\ todo' = todo /\ Len(writeBuffer) + 1 <= BufferSize
      BY <2>4, OneInside DEF WriteBody, Room, AfterHeader
    <3>2. CASE ~HasRoom
      BY <3>1, <3>2 DEF HasRoom
    <3>3. CASE Appends(PartOf(w, "body"))
      <4>1. /\ Len(stream') = Len(stream) + 1 /\ stream'[Len(stream) + 1] = PartOf(w, "body")
            /\ \A i \in 1 .. Len(stream) : stream'[i] = stream[i]
        BY <3>3, AppendFacts, PartType DEF TypeInv
      <4>2. ASSUME NEW i \in 1 .. Len(stream), Followed(i) PROVE Followed(i)'
        BY <1>t, <4>1, <4>2, FollowedStays
      <4>3. ASSUME NEW i \in 1 .. Len(stream), HalfWritten(i) PROVE Followed(i)'
        <5>1. i = Len(stream) /\ stream[i] = PartOf(w, "header")
          BY <3>1, <4>3 DEF HalfWritten
        <5>2. [PartOf(w, "header") EXCEPT !.part = "body"] = PartOf(w, "body")
          BY DEF PartOf
        <5>3. i < Len(stream') /\ stream'[i + 1] = PartOf(w, "body") /\ stream'[i] = PartOf(w, "header")
          BY <1>t, <4>1, <5>1
        <5> QED BY <5>2, <5>3, Zenon DEF Followed
      <4>4. stream'[Len(stream) + 1].part # "header"
        BY <4>1, PartFields
      <4> SUFFICES ASSUME IsOk', open',
                          NEW i \in left' + 1 .. Len(stream'), stream'[i].part = "header"
                   PROVE  Followed(i)'
        BY Zenon DEF Whole
      <4>l. left' = left
        BY <2>s, <3>3 DEF Appends, IsOk
      <4>5. i \in 1 .. Len(stream) /\ i \in left + 1 .. Len(stream)
        BY <1>t, <4>1, <4>4, <4>l
      <4>6. Followed(i) \/ HalfWritten(i)
        BY <2>s, <4>1, <4>5 DEF Whole, IsOk
      <4> QED BY <4>2, <4>3, <4>5, <4>6
    <3> QED BY <2>4, <3>2, <3>3, BodyEffect
  <2>5. CASE PostCheck(w)
    <3>1. mutex = w /\ mutex' = w /\ stream' = stream /\ left' = left /\ todo' = todo
      BY <2>5, OneInside DEF PostCheck
    <3>2. pc[w] \in AfterHeader => pc'[w] \in AfterHeader
      BY <1>t, <2>5 DEF PostCheck, ArmLabel, DoneLabel, AfterHeader
    <3> QED BY <2>s, <3>1, <3>2, WholeLabels
  <2>6. CASE PostArm(w)
    <3>1. mutex = w /\ mutex' = w /\ stream' = stream /\ left' = left /\ todo' = todo
      BY <2>6, OneInside DEF PostArm
    <3>2. pc[w] \in AfterHeader => pc'[w] \in AfterHeader
      BY <1>t, <2>6 DEF PostArm, DoneLabel, AfterHeader
    <3> QED BY <2>s, <3>1, <3>2, WholeLabels
  <2>7. CASE Return(w)
    <3>1. pc[w] = "bodyDone" /\ mutex = w /\ stream' = stream /\ left' = left
      BY <2>7, OneInside DEF Return
    <3> QED BY <2>s, <3>1 DEF Whole, Followed, HalfWritten, AfterHeader, IsOk
  <2>8. CASE WriteNolock(w)
    <3>1. /\ mutex = w /\ mutex' = w /\ stream' = stream /\ left' = left /\ todo' = todo
          /\ status' = status /\ open' = open
      BY <2>8, OneInside, NolockEffect
    <3>2. CASE IsOk /\ open
      <4>1. pc[w] \in AfterHeader => pc'[w] \in AfterHeader
        BY <1>t, <2>8, <3>2, NolockEffect DEF AfterHeader
      <4> QED BY <3>1, <4>1, WholeLabels
    <3>3. CASE ~(IsOk /\ open)
      BY <3>1, <3>3, Zenon DEF Whole, IsOk
    <3> QED BY <3>2, <3>3
  <2> QED BY <1>1, <2>1, <2>2, <2>3, <2>4, <2>5, <2>6, <2>7, <2>8, Zenon DEF Writer
<1>2. CASE OnConnect
  BY <1>2 DEF OnConnect, Whole, IsOk
<1>3. CASE Net \/ (Connection /\ ~OnConnect) \/ UNCHANGED vars
  <2>1. stream' = stream /\ pc' = pc /\ todo' = todo /\ mutex' = mutex /\ left' = left
    BY <1>3, QuietSteps
  <2>2. IsOk' /\ open' => (IsOk /\ open) \/ Len(stream) = left
    BY <1>3 DEF Net, HandleWrite, HandleWriteError, Drain, Blocked, Rearm, Connection, HandleConnect,
       PeerGone, HandleReadFails, StopClose, StopClear, vars, sessionVars, NothingEarly, IsOk
  <2> QED BY <1>t, <2>1, <2>2 DEF Whole, Followed, HalfWritten, PartOf
<1> QED BY <1>1, <1>2, <1>3, Zenon DEF Next

FrameInv == Numbered /\ Adjacent /\ Room /\ NothingEarly /\ Whole

\* The frames as an inductive invariant, over the types and the stream.
THEOREM FrameInvariance == Spec => []FrameInv
<1>1. Init => FrameInv
  BY DEF Init, FrameInv, Numbered, Adjacent, Room, NothingEarly, Whole, BeforeHeader, AfterHeader, IsOk
<1>2. TypeInv /\ StreamIntegrity /\ FrameInv /\ [Next]_vars => FrameInv'
  BY NumberedStep, AdjacentStep, RoomStep, EarlyStep, WholeStep, Zenon DEF FrameInv
<1> QED BY <1>1, <1>2, TypeInvariance, StreamCorrect, PTL DEF Spec

\* _writeMutex keeps the messages of two threads apart, though writeMessage
\* appends header and body in two calls that each check the session again: on
\* every connection that is up, each header appended during it has its body
\* behind it.
THEOREM FramingCorrect == Spec => []Framing
<1>1. TypeInv /\ FrameInv => Framing
  <2> SUFFICES ASSUME TypeInv, FrameInv PROVE Framing
    OBVIOUS
  <2>1. ASSUME IsOk, open, mutex = NoOne, NEW i \in left + 1 .. Len(stream), stream[i].part = "header"
        PROVE  Followed(i)
    BY <2>1 DEF FrameInv, Whole, HalfWritten
  <2>2. Adjacent
    BY DEF FrameInv
  <2> QED BY <2>1, <2>2, Zenon DEF Framing, Adjacent, Followed
<1> QED BY <1>1, TypeInvariance, FrameInvariance, PTL

-----------------------------------------------------------------------------
(* The wakeups. *)

\* _writing promises a completion, and on a connection that is up, and came up
\* after the reports of the last one, it is that of a write that still waits for
\* the socket.
Promised ==
    /\ writing => pending > 0 \/ aborted > 0
    /\ IsOk /\ open /\ stale = 0 => aborted = 0

\* Drain resets the count that Blocked compares with the limit.
FirstBlock == netpc = "blocked" => writeBlockTimes = 0

\* Whoever will look at the buffer or arm a write.
Somebody ==
    \/ pending > 0 \/ netpc \in {"drain", "blocked", "arm"}
    \/ \E w \in Writers : pc[w] \in {"headerPost", "headerArm", "bodyPost", "bodyArm"}

Attended == Up /\ stale = 0 /\ Fresh /\ writeBuffer # <<>> => Somebody

WakeInv == Promised /\ FirstBlock /\ Attended

LEMMA PromisedStep ==
    ASSUME TypeInv, Promised, [Next]_vars PROVE Promised'
<1>t. pending \in Nat /\ aborted \in Nat
  BY DEF TypeInv, Typed
<1> USE DEF Promised, IsOk, sessionVars, opVars
<1>1. ASSUME NEW w \in Writers, Writer(w) PROVE Promised'
  BY <1>t, <1>1 DEF Writer, WriteMessage, CheckWriteBuffer, WriteNolock, WriteHeader, WriteBody, PostCheck, PostArm,
     Return, ArmWrite
<1>2. CASE Net
  BY <1>t, <1>2 DEF Net, HandleWrite, HandleWriteError, Drain, Blocked, Rearm, ArmWrite
<1>3. CASE Connection
  BY <1>t, <1>3 DEF Connection, OnConnect, HandleConnect, PeerGone, HandleReadFails, StopClose, StopClear,
     AbortWrites
<1>4. CASE UNCHANGED vars
  BY <1>4 DEF vars
<1> QED BY <1>1, <1>2, <1>3, <1>4, Zenon DEF Next

LEMMA FirstBlockStep ==
    ASSUME FirstBlock, [Next]_vars PROVE FirstBlock'
<1> USE DEF FirstBlock
<1>1. ASSUME NEW w \in Writers, Writer(w) PROVE FirstBlock'
  BY <1>1 DEF Writer, WriteMessage, CheckWriteBuffer, WriteNolock, WriteHeader, WriteBody, PostCheck, PostArm, Return
<1>2. CASE Net
  BY <1>2 DEF Net, HandleWrite, HandleWriteError, Drain, Blocked, Rearm
<1>3. CASE Connection
  BY <1>3 DEF Connection, OnConnect, HandleConnect, PeerGone, HandleReadFails, StopClose, StopClear
<1>4. CASE UNCHANGED vars
  BY <1>4 DEF vars
<1> QED BY <1>1, <1>2, <1>3, <1>4, Zenon DEF Next

LEMMA AttendedStep ==
    ASSUME BlockLimit > 1, TypeInv, NothingEarly, WakeInv, [Next]_vars PROVE Attended'
<1>t. pending \in Nat /\ aborted \in Nat /\ pc \in [Writers -> PcLabels] /\ writeBuffer \in Seq(Unit)
      /\ left \in Nat /\ Len(stream) \in Nat
  BY DEF TypeInv, Typed
<1>w. Attended /\ Promised /\ FirstBlock
  BY DEF WakeInv
<1>p. Up /\ stale = 0 /\ writeBuffer # <<>> /\ NothingToPost => pending > 0
  BY <1>t, <1>w DEF Promised, Up, NothingToPost
<1> USE DEF sessionVars, bufferVars, opVars, Up, IsOk, Fresh, Goto
<1>1. ASSUME NEW w \in Writers, Writer(w) PROVE Attended'
  <2>1. CASE WriteMessage(w) \/ CheckWriteBuffer(w) \/ Return(w)
    BY <1>t, <1>w, <2>1 DEF WriteMessage, CheckWriteBuffer, Return, Attended, Somebody
  <2>2. CASE WriteHeader(w)
    <3>1. CASE pc' = [pc EXCEPT ![w] = "headerPost"]
      BY <1>t, <3>1 DEF Attended, Somebody
    <3>2. CASE ~HasRoom
      BY <1>t, <1>w, <2>2, <3>2 DEF WriteHeader, WriteImpl, HasRoom, Attended, Somebody
    <3> QED BY <2>2, <3>1, <3>2, HeaderEffect
  <2>3. CASE WriteBody(w)
    <3>1. CASE pc' = [pc EXCEPT ![w] = "bodyPost"]
      BY <1>t, <3>1 DEF Attended, Somebody
    <3>2. CASE ~HasRoom
      BY <1>t, <1>w, <2>3, <3>2 DEF WriteBody, WriteImpl, HasRoom, Attended, Somebody
    <3> QED BY <2>3, <3>1, <3>2, BodyEffect
  <2>4. CASE PostCheck(w)
    BY <1>t, <1>p, <2>4 DEF PostCheck, ArmLabel, Attended, Somebody
  <2>5. CASE PostArm(w)
    BY <1>t, <2>5 DEF PostArm, ArmWrite, Attended, Somebody
  <2>6. CASE WriteNolock(w)
    BY <1>t, <1>w, <2>6, NolockEffect DEF Attended, Somebody
  <2> QED BY <1>1, <2>1, <2>2, <2>3, <2>4, <2>5, <2>6, Zenon DEF Writer
<1>2. CASE HandleWrite \/ HandleWriteError
  BY <1>w, <1>2 DEF HandleWrite, HandleWriteError, Attended, Somebody
<1>3. CASE Drain
  BY <1>t, <1>3 DEF Drain, Rest, Attended, Somebody
<1>4. CASE Blocked
  BY <1>w, <1>p, <1>4 DEF Blocked, FirstBlock, Attended, Somebody
<1>5. CASE Rearm
  BY <1>t, <1>5 DEF Rearm, ArmWrite, Attended, Somebody
<1>6. CASE Connection
  <2>1. CASE OnConnect
    BY <2>1 DEF OnConnect, Attended
  <2>2. CASE HandleConnect
    BY <1>t, <1>w, <2>2 DEF HandleConnect, NothingEarly, Attended
  <2>3. CASE PeerGone \/ HandleReadFails
    BY <2>3 DEF PeerGone, HandleReadFails, Attended
  <2>4. CASE StopClose \/ StopClear
    BY <1>t, <1>w, <2>4 DEF StopClose, StopClear, Attended, Somebody
  <2> QED BY <1>6, <2>1, <2>2, <2>3, <2>4 DEF Connection
<1>7. CASE UNCHANGED vars
  BY <1>w, <1>7 DEF vars, Attended, Somebody
<1> QED BY <1>1, <1>2, <1>3, <1>4, <1>5, <1>6, <1>7, Zenon DEF Next, Net

\* Though handleWrite clears _writing before it takes the mutex and postWriteNull
\* reads and sets it in two steps, data appended on a connection that is up, and
\* did not overtake the aborted writes of the last one, never waits without an
\* armed write, when the limit of blocks (10 in the code) is above 1.
THEOREM WakeupCorrect ==
    ASSUME BlockLimit > 1
    PROVE  Spec => []NoLostWrite
<1>1. Init => WakeInv
  BY DEF Init, WakeInv, Promised, FirstBlock, Attended, Up, IsOk
<1>2. TypeInv /\ FrameInv /\ WakeInv /\ [Next]_vars => WakeInv'
  BY PromisedStep, FirstBlockStep, AttendedStep, Zenon DEF WakeInv, FrameInv
<1>3. TypeInv /\ WakeInv => NoLostWrite
  BY DEF TypeInv, Typed, WakeInv, Attended, Somebody, NoLostWrite
<1> QED BY <1>1, <1>2, <1>3, TypeInvariance, FrameInvariance, PTL DEF Spec

InTime == open => stale = 0

\* When connects are asynchronous, handleConnect runs behind the handlers of the
\* aborted writes in the queue of the net thread: no connection overtakes them,
\* and the exception of NoLostWrite and Flushed never applies.
THEOREM AsyncIsInTime ==
    ASSUME AsyncConnect = TRUE
    PROVE  Spec => []InTime
<1>1. Init => InTime
  BY DEF Init, InTime
<1>2. InTime /\ [Next]_vars => InTime'
  <2> SUFFICES ASSUME InTime, [Next]_vars PROVE InTime'
    OBVIOUS
  <2> USE DEF InTime, sessionVars
  <2>1. ASSUME NEW w \in Writers, Writer(w) PROVE InTime'
    BY <2>1 DEF Writer, WriteMessage, CheckWriteBuffer, WriteNolock, WriteHeader, WriteBody, PostCheck,
       PostArm, Return
  <2>2. CASE Net
    BY <2>2 DEF Net, HandleWrite, HandleWriteError, Drain, Blocked, Rearm
  <2>3. CASE Connection
    BY <2>3 DEF Connection, OnConnect, HandleConnect, PeerGone, HandleReadFails, StopClose, StopClear
  <2>4. CASE UNCHANGED vars
    BY <2>4 DEF vars
  <2> QED BY <2>1, <2>2, <2>3, <2>4, Zenon DEF Next
<1> QED BY <1>1, <1>2, PTL DEF Spec
=============================================================================
