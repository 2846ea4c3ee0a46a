--------------------------- MODULE TcpSessionProofs ---------------------------
(***************************************************************************)
(* The life of a TcpSession, for any number of connections and reads.      *)
(* Nothing locks the session, yet its threads never meet: whatever happens *)
(* there is at most one thing under way for it, be it a connect, a read, a *)
(* timer, a handler or a callback that will start the next one.  That one  *)
(* thing is its token, and the proofs follow it around.                    *)
(***************************************************************************)
EXTENDS TcpSession, SequenceTheorems, TLAPS

USE TcpSessionAssumption

-----------------------------------------------------------------------------
(* Where the token is: a handler in the queue of the net thread, a callback in *)
(* the queue of the logic thread, a connect, a timer or a read that waits, or  *)
(* handleRead before its postReadNull.  "none": the session has ended, or has  *)
(* not begun.                                                                  *)

InNet == {"connectOk", "connectFailed", "timer", "accept", "read", "readAborted"}
InLogic == {"connectSucceed", "readError"}
Phases == {"none", "connecting", "waiting", "armed", "rearm"} \cup InNet \cup InLogic

\* A connection is up and being read, or is still to come.
Live == {"armed", "read", "readAborted", "rearm"}
Off == {"connecting", "connectOk", "connectFailed", "waiting", "timer", "accept"}

\* The queue of the net thread holds the token, and no other, if it is there.
NetAt(q, ph) ==
    /\ \A i \in 1 .. Len(q) : q[i] \in InNet => q[i] = ph
    /\ \A i, j \in 1 .. Len(q) : q[i] \in InNet /\ q[j] \in InNet => i = j
    /\ ph \in InNet => \E i \in 1 .. Len(q) : q[i] = ph

Last(q, c) == IF q = <<>> THEN c ELSE q[Len(q)]

\* The callbacks are in order, the token is the last of them if it is there, and
\* the last one tells whether a connection is up.
LogicAt(q, c, ph) ==
    /\ q # <<>> => q[1] \in Follows(c)
    /\ \A i \in 1 .. Len(q) - 1 : q[i + 1] \in Follows(q[i])
    /\ \A i \in 1 .. Len(q) : q[i] \in InLogic => q[i] = ph /\ i = Len(q)
    /\ ph \in InLogic => q # <<>> /\ q[Len(q)] = ph
    /\ ph \in Live => Last(q, c) \in {"connectSucceed", "message"}
    /\ ph \in Off => Last(q, c) \in {"none", "connectFailed", "readError"}

Token(ph) ==
    /\ link = "connecting" <=> ph = "connecting"
    /\ pendingReads = IF ph = "armed" THEN 1 ELSE 0
    /\ timers = IF ph = "waiting" THEN 1 ELSE 0
    /\ netpc = "rearm" <=> ph = "rearm"
    /\ NetAt(netq, ph)
    /\ LogicAt(logicq, lastCb, ph)
    /\ conns = 0 => ph = "none" /\ logicq = <<>> /\ lastCb = "none"

Typed ==
    /\ role \in {"client", "server"} /\ platform \in {"windows", "linux"}
    /\ interval \in {0, 1}
    /\ status \in {"Disconnected", "Connecting", "Connected"}
    /\ link \in {"none", "connecting", "up", "fin", "reset"}
    /\ netq \in Seq(Handlers) /\ netpc \in {"idle", "rearm"}
    /\ logicq \in Seq(Callbacks) /\ lastCb \in Callbacks \cup {"none"}
    /\ stopping \in {"no", "closed", "done"}
    /\ conns \in 0 .. MaxConns /\ reads \in 0 .. MaxReads

LEMMA FollowsFacts ==
    /\ \A c \in {"none", "connectFailed", "readError"} : Follows(c) = {"connectSucceed", "connectFailed"}
    /\ \A c \in {"connectSucceed", "message"} : Follows(c) = {"message", "readError"}
BY DEF Follows

-----------------------------------------------------------------------------
(* The queues. *)

LEMMA PutFacts ==
    ASSUME NEW S, NEW s \in Seq(S), NEW x \in S
    PROVE  /\ Append(s, x) \in Seq(S) /\ Len(Append(s, x)) = Len(s) + 1 /\ Len(s) \in Nat
           /\ Append(s, x)[Len(s) + 1] = x /\ Append(s, x) # <<>>
           /\ \A i \in 1 .. Len(s) : Append(s, x)[i] = s[i]
           /\ s = <<>> <=> Len(s) = 0
OBVIOUS

LEMMA TakeFacts ==
    ASSUME NEW S, NEW s \in Seq(S), s # <<>>
    PROVE  /\ Tail(s) \in Seq(S) /\ Len(Tail(s)) = Len(s) - 1 /\ Len(s) \in Nat \ {0}
           /\ Head(s) = s[1] /\ Head(s) \in S
           /\ \A i \in 1 .. Len(s) - 1 : Tail(s)[i] = s[i + 1]
           /\ Tail(s) = <<>> <=> Len(s) = 1
<1>1. /\ Tail(s) \in Seq(S) /\ Len(Tail(s)) = Len(s) - 1 /\ Len(s) \in Nat \ {0}
      /\ Head(s) = s[1] /\ Head(s) \in S
      /\ \A i \in 1 .. Len(s) - 1 : Tail(s)[i] = s[i + 1]
  OBVIOUS
<1>2. ASSUME NEW t \in Seq(S) PROVE t = <<>> <=> Len(t) = 0
  OBVIOUS
<1>3. Tail(s) = <<>> <=> Len(Tail(s)) = 0
  BY <1>1, <1>2
<1> QED BY <1>1, <1>3

\* The token comes into the queue of the net thread.
LEMMA NetPut ==
    ASSUME NEW q \in Seq(Handlers), NEW ph \in Phases \ InNet, NetAt(q, ph), NEW h \in InNet
    PROVE  Append(q, h) \in Seq(Handlers) /\ NetAt(Append(q, h), h)
<1>1. h \in Handlers
  BY DEF InNet, Handlers
<1>2. /\ Append(q, h) \in Seq(Handlers) /\ Len(Append(q, h)) = Len(q) + 1 /\ Len(q) \in Nat
      /\ Append(q, h)[Len(q) + 1] = h /\ \A i \in 1 .. Len(q) : Append(q, h)[i] = q[i]
  BY <1>1, PutFacts
<1>3. \A i \in 1 .. Len(q) : q[i] \notin InNet
  BY DEF NetAt
<1>4. \A i \in 1 .. Len(q) + 1 : Append(q, h)[i] \in InNet => i = Len(q) + 1
  BY <1>2, <1>3
<1>5. Len(q) + 1 \in 1 .. Len(q) + 1
  BY <1>2
<1> QED BY <1>2, <1>4, <1>5 DEF NetAt

LEMMA NetPutError ==
    ASSUME NEW q \in Seq(Handlers), NEW ph \in Phases, NetAt(q, ph)
    PROVE  Append(q, "acceptError") \in Seq(Handlers) /\ NetAt(Append(q, "acceptError"), ph)
<1>1. "acceptError" \in Handlers /\ "acceptError" \notin InNet
  BY DEF InNet, Handlers
<1> DEFINE r == Append(q, "acceptError")
<1>2. /\ r \in Seq(Handlers) /\ Len(r) = Len(q) + 1 /\ Len(q) \in Nat
      /\ r[Len(q) + 1] = "acceptError" /\ \A i \in 1 .. Len(q) : r[i] = q[i]
  BY <1>1, PutFacts
<1> HIDE DEF r
<1>3. \A i \in 1 .. Len(r) : r[i] \in InNet => i \in 1 .. Len(q) /\ r[i] = q[i]
  BY <1>1, <1>2
<1>4. \A i \in 1 .. Len(q) : i \in 1 .. Len(r) /\ r[i] = q[i]
  BY <1>2
<1>5. NetAt(r, ph)
  BY <1>3, <1>4 DEF NetAt
<1> QED BY <1>2, <1>5 DEF r

\* The token leaves it.
LEMMA NetTake ==
    ASSUME NEW q \in Seq(Handlers), NEW ph \in Phases, NetAt(q, ph), q # <<>>, Head(q) \in InNet
    PROVE  Head(q) = ph /\ Tail(q) \in Seq(Handlers) /\ \A p \in Phases \ InNet : NetAt(Tail(q), p)
<1>1. /\ Tail(q) \in Seq(Handlers) /\ Len(Tail(q)) = Len(q) - 1 /\ Len(q) \in Nat \ {0}
      /\ Head(q) = q[1] /\ \A i \in 1 .. Len(q) - 1 : Tail(q)[i] = q[i + 1]
  BY TakeFacts
<1>2. 1 \in 1 .. Len(q)
  BY <1>1
<1>3. \A i \in 1 .. Len(q) : q[i] \in InNet => i = 1
  BY <1>1, <1>2 DEF NetAt
<1>4. ASSUME NEW i \in 1 .. Len(Tail(q)) PROVE Tail(q)[i] \notin InNet
  <2>1. i + 1 \in 1 .. Len(q) /\ i + 1 # 1 /\ Tail(q)[i] = q[i + 1]
    BY <1>1, <1>4
  <2> QED BY <1>3, <2>1
<1> QED BY <1>1, <1>2, <1>4 DEF NetAt

LEMMA NetTakeError ==
    ASSUME NEW q \in Seq(Handlers), NEW ph \in Phases, NetAt(q, ph), q # <<>>, Head(q) \notin InNet
    PROVE  Tail(q) \in Seq(Handlers) /\ NetAt(Tail(q), ph)
<1>1. /\ Tail(q) \in Seq(Handlers) /\ Len(Tail(q)) = Len(q) - 1 /\ Len(q) \in Nat \ {0}
      /\ Head(q) = q[1] /\ \A i \in 1 .. Len(q) - 1 : Tail(q)[i] = q[i + 1]
  BY TakeFacts
<1>2. \A i \in 1 .. Len(Tail(q)) : i + 1 \in 1 .. Len(q) /\ Tail(q)[i] = q[i + 1]
  BY <1>1
<1>3. \A i \in 1 .. Len(Tail(q)) : Tail(q)[i] \in InNet => Tail(q)[i] = ph
  BY <1>2 DEF NetAt
<1>4. ASSUME NEW i \in 1 .. Len(Tail(q)), NEW j \in 1 .. Len(Tail(q)), Tail(q)[i] \in InNet, Tail(q)[j] \in InNet
      PROVE  i = j
  <2>1. i + 1 = j + 1
    BY <1>2, <1>4 DEF NetAt
  <2> QED BY <1>1, <2>1
<1>5. ASSUME ph \in InNet PROVE \E i \in 1 .. Len(Tail(q)) : Tail(q)[i] = ph
  <2>1. PICK i \in 1 .. Len(q) : q[i] = ph
    BY <1>5 DEF NetAt
  <2>2. i # 1
    BY <1>1, <1>5, <2>1
  <2>3. i - 1 \in 1 .. Len(Tail(q)) /\ Tail(q)[i - 1] = q[i]
    BY <1>1, <2>2
  <2> QED BY <2>1, <2>3
<1> QED BY <1>1, <1>3, <1>4, <1>5 DEF NetAt

LEMMA NetSame ==
    ASSUME NEW q, NEW ph \in Phases \ InNet, NetAt(q, ph), NEW p \in Phases \ InNet
    PROVE  NetAt(q, p)
BY DEF NetAt

\* A callback is posted: it becomes the token, or the token is elsewhere.
LEMMA LogicPut ==
    ASSUME NEW q \in Seq(Callbacks), NEW c, NEW ph \in Phases \ InLogic, LogicAt(q, c, ph),
           NEW x \in Callbacks, x \in Follows(Last(q, c)), NEW p \in Phases,
           x \in InLogic \/ p \in InLogic => p = x,
           p \in Live => x \in {"connectSucceed", "message"},
           p \in Off => x \in {"none", "connectFailed", "readError"}
    PROVE  Append(q, x) \in Seq(Callbacks) /\ LogicAt(Append(q, x), c, p)
<1> DEFINE r == Append(q, x)
           n == Len(q)
<1>1. /\ r \in Seq(Callbacks) /\ Len(r) = n + 1 /\ n \in Nat /\ r # <<>>
      /\ r[n + 1] = x /\ \A i \in 1 .. n : r[i] = q[i]
      /\ q = <<>> <=> n = 0
  BY PutFacts
<1>2. q # <<>> => Last(q, c) = q[n]
  BY DEF Last
<1>3. Last(r, c) = x
  BY <1>1 DEF Last
<1> HIDE DEF r
<1>4. r[1] \in Follows(c)
  <2>1. CASE n = 0
    BY <1>1, <2>1 DEF Last
  <2>2. CASE n # 0
    BY <1>1, <2>2 DEF LogicAt
  <2> QED BY <2>1, <2>2
<1>5. ASSUME NEW i \in 1 .. Len(r) - 1 PROVE r[i + 1] \in Follows(r[i])
  <2>1. CASE i = n
    <3>1. q # <<>> /\ r[i] = q[n] /\ r[i + 1] = x
      BY <1>1, <1>5, <2>1
    <3> QED BY <1>2, <3>1
  <2>2. CASE i # n
    <3>1. i \in 1 .. n - 1 /\ i + 1 \in 1 .. n /\ i \in 1 .. n
      BY <1>1, <1>5, <2>2
    <3> QED BY <1>1, <3>1 DEF LogicAt
  <2> QED BY <2>1, <2>2
<1>6. ASSUME NEW i \in 1 .. Len(r), r[i] \in InLogic PROVE r[i] = p /\ i = Len(r)
  <2>1. \A j \in 1 .. n : q[j] \notin InLogic
    BY DEF LogicAt
  <2>2. i = n + 1
    BY <1>1, <1>6, <2>1
  <2> QED BY <1>1, <1>6, <2>2
<1>7. LogicAt(r, c, p)
  BY <1>1, <1>3, <1>4, <1>5, <1>6 DEF LogicAt
<1> QED BY <1>1, <1>7 DEF r

\* A callback runs: the token itself, behind which there is nothing...
LEMMA LogicTake ==
    ASSUME NEW q \in Seq(Callbacks), NEW c, NEW ph \in Phases, LogicAt(q, c, ph), q # <<>>, Head(q) \in InLogic
    PROVE  /\ Head(q) = ph /\ Tail(q) = <<>>
           /\ \A p \in Phases \ InLogic :
                 (p \in Live => ph = "connectSucceed") /\ (p \in Off => ph = "readError") => LogicAt(<<>>, ph, p)
<1>1. /\ Len(q) \in Nat \ {0} /\ Head(q) = q[1] /\ (Tail(q) = <<>> <=> Len(q) = 1)
  BY TakeFacts
<1>2. Head(q) = ph /\ Len(q) = 1
  BY <1>1 DEF LogicAt
<1> QED BY <1>1, <1>2 DEF LogicAt, Last

\* ... or one before it.
LEMMA LogicTakeOther ==
    ASSUME NEW q \in Seq(Callbacks), NEW c, NEW ph \in Phases, LogicAt(q, c, ph), q # <<>>, Head(q) \notin InLogic
    PROVE  Tail(q) \in Seq(Callbacks) /\ LogicAt(Tail(q), Head(q), ph)
<1> DEFINE r == Tail(q)
           n == Len(q)
<1>1. /\ r \in Seq(Callbacks) /\ Len(r) = n - 1 /\ n \in Nat \ {0} /\ Head(q) = q[1]
      /\ \A i \in 1 .. n - 1 : r[i] = q[i + 1]
      /\ r = <<>> <=> n = 1
  BY TakeFacts
<1> HIDE DEF r
<1>2. r # <<>> => r[1] \in Follows(Head(q))
  <2>1. r # <<>> => 1 \in 1 .. n - 1
    BY <1>1
  <2> QED BY <1>1, <2>1 DEF LogicAt
<1>3. ASSUME NEW i \in 1 .. Len(r) - 1 PROVE r[i + 1] \in Follows(r[i])
  <2>1. i + 1 \in 1 .. n - 1 /\ i \in 1 .. n - 1 /\ r[i] = q[i + 1] /\ r[i + 1] = q[(i + 1) + 1]
    BY <1>1, <1>3
  <2> QED BY <2>1 DEF LogicAt
<1>4. ASSUME NEW i \in 1 .. Len(r), r[i] \in InLogic PROVE r[i] = ph /\ i = Len(r)
  <2>1. i + 1 \in 1 .. n /\ r[i] = q[i + 1]
    BY <1>1, <1>4
  <2>2. r[i] = ph /\ i + 1 = n
    BY <1>4, <2>1 DEF LogicAt
  <2> QED BY <1>1, <2>2
<1>5. Last(r, Head(q)) = Last(q, c)
  <2>1. CASE n = 1
    BY <1>1, <2>1 DEF Last
  <2>2. CASE n # 1
    <3>1. n - 1 \in 1 .. n - 1 /\ r # <<>> /\ r[n - 1] = q[n]
      BY <1>1, <2>2
    <3> QED BY <1>1, <3>1 DEF Last
  <2> QED BY <2>1, <2>2
<1>6. ph \in InLogic => r # <<>> /\ r[Len(r)] = ph
  <2> SUFFICES ASSUME ph \in InLogic PROVE r # <<>> /\ r[Len(r)] = ph
    OBVIOUS
  <2>1. q[n] = ph /\ n # 1
    BY <1>1 DEF LogicAt
  <2>2. n - 1 \in 1 .. n - 1 /\ r[n - 1] = q[n]
    BY <1>1, <2>1
  <2> QED BY <1>1, <2>1, <2>2
<1>7. LogicAt(r, Head(q), ph)
  BY <1>2, <1>3, <1>4, <1>5, <1>6 DEF LogicAt
<1> QED BY <1>1, <1>7 DEF r

\* The token moves elsewhere, and the callbacks stay.
LEMMA LogicSame ==
    ASSUME NEW q, NEW c, NEW ph \in Phases \ InLogic, LogicAt(q, c, ph), NEW p \in Phases \ InLogic,
           p \in Live => ph \in Live, p \in Off => ph \in Off
    PROVE  LogicAt(q, c, p)
BY DEF LogicAt

LEMMA JoinFacts ==
    ASSUME NEW S, NEW s \in Seq(S), NEW x \in S
    PROVE  s \o <<x>> = Append(s, x) /\ s \o <<>> = s
OBVIOUS

\* The reads that closing the socket aborts: there is at most one.
LEMMA AbortedFacts ==
    ASSUME NEW q \in Seq(Handlers), pendingReads \in {0, 1}
    PROVE  /\ pendingReads = 0 => q \o AbortedReads = q
           /\ pendingReads = 1 => q \o AbortedReads = Append(q, "readAborted")
<1>1. CASE pendingReads = 0
  <2>1. AbortedReads = <<>>
    BY <1>1 DEF AbortedReads
  <2> QED BY <1>1, <2>1, JoinFacts
<1>2. CASE pendingReads = 1
  <2>1. AbortedReads = <<"readAborted">>
    BY <1>2 DEF AbortedReads
  <2>2. "readAborted" \in Handlers
    BY DEF Handlers
  <2> QED BY <1>2, <2>1, <2>2, JoinFacts
<1> QED BY <1>1, <1>2

-----------------------------------------------------------------------------
(* How the token moves. *)

LEMMA ConnectCases ==
    ASSUME NEW ok \in BOOLEAN, NEW queued, HandleConnect(ok, queued)
    PROVE  \/ /\ ok /\ status' = "Connected" /\ logicq' = queued \o <<"connectSucceed">>
              /\ timers' = timers + 0
           \/ /\ ~ok /\ status' = "Disconnected" /\ logicq' = queued \o <<"connectFailed">>
              /\ interval # 0 /\ timers' = timers + 1
           \/ /\ ~ok /\ status' = "Disconnected" /\ logicq' = queued \o <<"connectFailed">>
              /\ interval = 0 /\ timers' = timers + 0
<1>1. CASE ok = TRUE
  BY <1>1 DEF HandleConnect
<1>2. CASE ok = FALSE
  BY <1>2 DEF HandleConnect
<1> QED BY <1>1, <1>2

\* handleConnect posts its callback; the token is that, or the timer, or gone.
LEMMA HandleConnectFacts ==
    ASSUME NEW ok \in BOOLEAN, NEW q \in Seq(Callbacks), NEW c, LogicAt(q, c, "none"),
           Last(q, c) \in {"none", "connectFailed", "readError"}, HandleConnect(ok, q), timers = 0
    PROVE  /\ logicq' \in Seq(Callbacks)
           /\ \/ ok /\ status' = "Connected" /\ timers' = 0 /\ LogicAt(logicq', c, "connectSucceed")
              \/ /\ ~ok /\ status' = "Disconnected" /\ interval # 0 /\ timers' = 1
                 /\ LogicAt(logicq', c, "waiting")
              \/ /\ ~ok /\ status' = "Disconnected" /\ interval = 0 /\ timers' = 0
                 /\ LogicAt(logicq', c, "none")
<1> USE DEF Phases, InLogic, InNet, Live, Off, Callbacks
<1>1. /\ q \o <<"connectSucceed">> = Append(q, "connectSucceed")
      /\ q \o <<"connectFailed">> = Append(q, "connectFailed")
  BY JoinFacts
<1>2. "connectSucceed" \in Follows(Last(q, c)) /\ "connectFailed" \in Follows(Last(q, c))
  BY FollowsFacts
<1>3. /\ Append(q, "connectSucceed") \in Seq(Callbacks) /\ LogicAt(Append(q, "connectSucceed"), c, "connectSucceed")
  BY <1>2, LogicPut
<1>4. /\ Append(q, "connectFailed") \in Seq(Callbacks) /\ LogicAt(Append(q, "connectFailed"), c, "waiting")
      /\ LogicAt(Append(q, "connectFailed"), c, "none")
  BY <1>2, LogicPut
<1>5. \/ /\ ok /\ status' = "Connected" /\ logicq' = q \o <<"connectSucceed">> /\ timers' = timers + 0
      \/ /\ ~ok /\ status' = "Disconnected" /\ logicq' = q \o <<"connectFailed">>
         /\ interval # 0 /\ timers' = timers + 1
      \/ /\ ~ok /\ status' = "Disconnected" /\ logicq' = q \o <<"connectFailed">>
         /\ interval = 0 /\ timers' = timers + 0
  BY ConnectCases, Zenon
<1>6. timers + 0 = 0 /\ timers + 1 = 1
  OBVIOUS
<1> HIDE DEF Phases, InLogic, InNet, Live, Off, Callbacks
<1>7. CASE /\ ok /\ status' = "Connected" /\ logicq' = q \o <<"connectSucceed">> /\ timers' = timers + 0
  BY ONLY <1>1, <1>3, <1>6, <1>7, Zenon
<1>8. CASE /\ ~ok /\ status' = "Disconnected" /\ logicq' = q \o <<"connectFailed">>
           /\ interval # 0 /\ timers' = timers + 1
  BY ONLY <1>1, <1>4, <1>6, <1>8, Zenon
<1>9. CASE /\ ~ok /\ status' = "Disconnected" /\ logicq' = q \o <<"connectFailed">>
           /\ interval = 0 /\ timers' = timers + 0
  BY ONLY <1>1, <1>4, <1>6, <1>9, Zenon
<1> QED BY ONLY <1>5, <1>7, <1>8, <1>9, Zenon

\* onConnect, when nothing else is under way.
LEMMA TryConnectFacts ==
    ASSUME Typed, NEW nq \in Seq(Handlers), NetAt(nq, "none"), NEW q \in Seq(Callbacks), LogicAt(q, lastCb', "none"),
           Last(q, lastCb') \in {"none", "connectFailed", "readError"},
           pendingReads = 0, timers = 0, netpc = "idle", netpc' = "idle", link # "connecting",
           conns = 0 => status = "Disconnected",
           TryConnect(nq, q)
    PROVE  /\ netq' = nq /\ logicq' \in Seq(Callbacks) /\ conns' \in 0 .. MaxConns
           /\ status' \in {"Disconnected", "Connecting", "Connected"}
           /\ link' \in {"none", "connecting", "up", "fin", "reset"}
           /\ \/ status # "Disconnected" /\ Token("none")' /\ status' = status /\ UNCHANGED socketVars
              \/ /\ status = "Disconnected" /\ open' = TRUE /\ conns' # 0
                 /\ \/ Token("connecting")' /\ status' = "Connecting"
                    \/ Token("connectSucceed")' /\ status' = "Connected"
                    \/ Token("waiting")' /\ status' = "Disconnected"
                    \/ Token("none")' /\ status' = "Disconnected" /\ interval = 0
<1> USE DEF Phases, InLogic, InNet
<1>1. CASE status # "Disconnected"
  <2>1. netq' = nq /\ logicq' = q /\ UNCHANGED <<status, socketVars, timers>>
    BY <1>1 DEF TryConnect
  <2>2. UNCHANGED <<link, pendingReads, conns>>
    BY <2>1 DEF socketVars
  <2>3. Token("none")'
    BY <1>1, <2>1, <2>2 DEF Token
  <2> QED BY <1>1, <2>1, <2>2, <2>3 DEF Typed
<1>2. CASE status = "Disconnected"
  <2>1. OnConnect(nq, q)
    BY <1>2 DEF TryConnect
  <2>2. /\ conns < MaxConns /\ conns' = conns + 1 /\ netq' = nq \o AbortedReads /\ pendingReads' = 0
        /\ \/ status' = "Connecting" /\ link' = "connecting" /\ logicq' = q /\ timers' = timers
           \/ \E ok \in BOOLEAN : link' = (IF ok THEN "up" ELSE "none") /\ HandleConnect(ok, q)
    BY <2>1, Zenon DEF OnConnect
  <2>3. netq' = nq
    BY <2>2, AbortedFacts
  <2>4. conns' \in 0 .. MaxConns /\ conns' # 0
    BY <2>2 DEF Typed
  <2>5. open' = TRUE
    BY <2>1, Zenon DEF OnConnect
  <2>6. \A p \in Phases \ InNet : NetAt(netq', p)
    BY <2>3, NetSame
  <2>7. CASE status' = "Connecting" /\ link' = "connecting" /\ logicq' = q /\ timers' = timers
    <3>1. LogicAt(logicq', lastCb', "connecting")
      BY <2>7 DEF LogicAt, Live, Off
    <3>2. Token("connecting")'
      BY <2>2, <2>4, <2>6, <2>7, <3>1 DEF Token
    <3> QED BY <1>2, <2>3, <2>4, <2>5, <2>7, <3>2
  <2>8. ASSUME NEW ok \in BOOLEAN, link' = (IF ok THEN "up" ELSE "none"), HandleConnect(ok, q)
        PROVE  /\ link' \in {"up", "none"} /\ logicq' \in Seq(Callbacks)
               /\ \/ Token("connectSucceed")' /\ status' = "Connected"
                  \/ Token("waiting")' /\ status' = "Disconnected"
                  \/ Token("none")' /\ status' = "Disconnected" /\ interval = 0
    <3>1. link' \in {"up", "none"}
      BY <2>8, Zenon
    <3>2. /\ logicq' \in Seq(Callbacks)
          /\ \/ ok /\ status' = "Connected" /\ timers' = 0 /\ LogicAt(logicq', lastCb', "connectSucceed")
             \/ /\ ~ok /\ status' = "Disconnected" /\ interval # 0 /\ timers' = 1
                /\ LogicAt(logicq', lastCb', "waiting")
             \/ /\ ~ok /\ status' = "Disconnected" /\ interval = 0 /\ timers' = 0
                /\ LogicAt(logicq', lastCb', "none")
      BY <2>8, HandleConnectFacts
    <3>3. CASE status' = "Connected" /\ timers' = 0 /\ LogicAt(logicq', lastCb', "connectSucceed")
      BY <2>2, <2>4, <2>6, <3>1, <3>2, <3>3 DEF Token
    <3>4. CASE status' = "Disconnected" /\ timers' = 1 /\ LogicAt(logicq', lastCb', "waiting")
      BY <2>2, <2>4, <2>6, <3>1, <3>2, <3>4 DEF Token
    <3>5. CASE status' = "Disconnected" /\ interval = 0 /\ timers' = 0 /\ LogicAt(logicq', lastCb', "none")
      BY <2>2, <2>4, <2>6, <3>1, <3>2, <3>5 DEF Token
    <3> QED BY <3>1, <3>2, <3>3, <3>4, <3>5
  <2> QED BY <1>2, <2>2, <2>3, <2>4, <2>5, <2>7, <2>8
<1> QED BY <1>1, <1>2

\* What the close in stop does: a read that waits, or a connect, becomes the
\* handler that tells of its end; anything else stays where it is.
LEMMA CloseFacts ==
    ASSUME Typed, NEW ph \in Phases, Token(ph), CloseSocket(netq)
    PROVE  /\ netq' \in Seq(Handlers) /\ link' \in {"none", "connecting", "up", "fin", "reset"}
           /\ netq' \in {netq, Append(netq, "readAborted"), Append(netq, "connectFailed")}
           /\ \/ /\ ph = "armed" /\ NetAt(netq', "readAborted") /\ link' = "none" /\ pendingReads' = 0
              \/ /\ ph = "connecting" /\ NetAt(netq', "connectFailed") /\ link' = "none" /\ pendingReads' = 0
              \/ /\ NetAt(netq', ph) /\ (link' = "connecting" <=> ph = "connecting")
                 /\ pendingReads' = pendingReads
                 /\ open => link # "up" \/ ph # "armed"
<1> USE DEF Phases, InNet, InLogic
<1>1. netq \in Seq(Handlers) /\ pendingReads \in {0, 1} /\ NetAt(netq, ph)
      /\ (link = "connecting" <=> ph = "connecting") /\ (pendingReads = 1 <=> ph = "armed")
  BY DEF Typed, Token
<1>2. CASE /\ open /\ (Linked \/ link = "connecting") /\ link' = "none" /\ pendingReads' = 0
           /\ netq' = netq \o AbortedReads \o (IF link = "connecting" THEN <<"connectFailed">> ELSE <<>>)
  <2>1. CASE ph = "armed"
    <3>1. link # "connecting" /\ netq \o AbortedReads = Append(netq, "readAborted")
      BY <1>1, <2>1, AbortedFacts
    <3>2. Append(netq, "readAborted") \in Seq(Handlers) /\ NetAt(Append(netq, "readAborted"), "readAborted")
      BY <1>1, <2>1, NetPut
    <3>3. "read" \in Handlers
      BY DEF Handlers
    <3>4. netq' = Append(netq, "readAborted") \o <<>>
      BY <1>2, <3>1
    <3>5. netq' = Append(netq, "readAborted")
      BY ONLY <3>2, <3>3, <3>4, JoinFacts
    <3> QED BY <1>2, <2>1, <3>2, <3>5
  <2>2. CASE ph = "connecting"
    <3>1. link = "connecting" /\ netq \o AbortedReads = netq
      BY <1>1, <2>2, AbortedFacts
    <3>2. Append(netq, "connectFailed") \in Seq(Handlers) /\ NetAt(Append(netq, "connectFailed"), "connectFailed")
      BY <1>1, <2>2, NetPut
    <3>3. "connectFailed" \in Handlers
      BY DEF Handlers
    <3>4. netq' = netq \o <<"connectFailed">>
      BY <1>2, <3>1
    <3>5. netq' = Append(netq, "connectFailed")
      BY ONLY <1>1, <3>3, <3>4, JoinFacts
    <3> QED BY <1>2, <2>2, <3>2, <3>5
  <2>3. CASE ph \notin {"armed", "connecting"}
    <3>1. link # "connecting" /\ netq \o AbortedReads = netq /\ pendingReads = 0
      BY <1>1, <2>3, AbortedFacts
    <3>2. netq' = netq \o <<>>
      BY <1>2, <3>1
    <3>3. netq' = netq
      BY ONLY <1>1, <3>2
    <3> QED BY <1>1, <1>2, <2>3, <3>1, <3>3
  <2> QED BY <2>1, <2>2, <2>3
<1>3. CASE /\ ~open \/ link \in {"none", "connecting", "reset"}
           /\ netq' = netq /\ link' = link /\ pendingReads' = pendingReads
  <2>1. open => link # "up"
    BY <1>3
  <2> QED BY <1>1, <1>3, <2>1 DEF Typed
<1>4. \/ /\ open /\ (Linked \/ link = "connecting") /\ link' = "none" /\ pendingReads' = 0
         /\ netq' = netq \o AbortedReads \o (IF link = "connecting" THEN <<"connectFailed">> ELSE <<>>)
      \/ /\ ~open \/ link \in {"none", "connecting", "reset"}
         /\ netq' = netq /\ link' = link /\ pendingReads' = pendingReads
  BY Zenon DEF CloseSocket
<1> QED BY ONLY <1>2, <1>3, <1>4, Zenon

-----------------------------------------------------------------------------
(* One lemma for each action: the token is in one place before the step and in *)
(* one place after it.                                                         *)

LEMMA ConnectStep ==
    ASSUME Typed, conns = 0 => status = "Disconnected", NEW ph \in Phases, Token(ph), Connect
    PROVE  /\ Typed' /\ ph = "none" /\ conns' # 0 /\ open' = TRUE /\ netq' = netq
           /\ \/ Token("connecting")' /\ status' = "Connecting"
              \/ Token("connectSucceed")' /\ status' = "Connected"
              \/ Token("waiting")' /\ status' = "Disconnected"
              \/ Token("none")' /\ status' = "Disconnected" /\ interval = 0
<1> USE DEF Phases, InLogic, InNet
<1>1. conns = 0 /\ TryConnect(netq, logicq) /\ UNCHANGED <<role, platform, interval, netpc, lastCb, stopping, reads>>
  BY Zenon DEF Connect, config, stopVars
<1>2. ph = "none" /\ logicq = <<>> /\ lastCb = "none" /\ netpc = "idle" /\ NetAt(netq, "none")
      /\ LogicAt(logicq, lastCb', "none") /\ pendingReads = 0 /\ timers = 0 /\ link # "connecting"
  BY <1>1 DEF Token, Typed
<1>3. Last(logicq, lastCb') = "none" /\ netpc' = "idle"
  BY <1>1, <1>2 DEF Last
<1>4. netq \in Seq(Handlers) /\ logicq \in Seq(Callbacks) /\ status = "Disconnected"
  BY <1>1 DEF Typed
<1>5. /\ netq' = netq /\ netq' \in Seq(Handlers) /\ logicq' \in Seq(Callbacks) /\ conns' \in 0 .. MaxConns
      /\ status' \in {"Disconnected", "Connecting", "Connected"}
      /\ link' \in {"none", "connecting", "up", "fin", "reset"}
      /\ status = "Disconnected" /\ open' = TRUE /\ conns' # 0
      /\ \/ Token("connecting")' /\ status' = "Connecting"
         \/ Token("connectSucceed")' /\ status' = "Connected"
         \/ Token("waiting")' /\ status' = "Disconnected"
         \/ Token("none")' /\ status' = "Disconnected" /\ interval = 0
  BY <1>1, <1>2, <1>3, <1>4, TryConnectFacts
<1>6. Typed'
  BY <1>1, <1>5 DEF Typed
<1> QED BY <1>2, <1>5, <1>6

LEMMA AppStopStep ==
    ASSUME Typed, NEW ph \in Phases, Token(ph), AppStop
    PROVE  /\ Typed'
           /\ \/ ph = "armed" /\ Token("readAborted")'
              \/ ph = "connecting" /\ Token("connectFailed")'
              \/ Token(ph)' /\ (open => link # "up" \/ ph # "armed")
<1> USE DEF Phases, InLogic, InNet, Live, Off
<1>1. CloseSocket(netq) /\ interval' = 0 /\ stopping' = "closed"
      /\ UNCHANGED <<role, platform, status, conns, timers, netpc, logicq, lastCb, reads>>
  BY Zenon DEF AppStop, Stop, config
<1>2. /\ netq' \in Seq(Handlers) /\ link' \in {"none", "connecting", "up", "fin", "reset"}
      /\ \/ /\ ph = "armed" /\ NetAt(netq', "readAborted") /\ link' = "none" /\ pendingReads' = 0
         \/ /\ ph = "connecting" /\ NetAt(netq', "connectFailed") /\ link' = "none" /\ pendingReads' = 0
         \/ /\ NetAt(netq', ph) /\ (link' = "connecting" <=> ph = "connecting")
            /\ pendingReads' = pendingReads
            /\ open => link # "up" \/ ph # "armed"
  BY <1>1, CloseFacts
<1>3. Typed'
  BY <1>1, <1>2 DEF Typed
<1>4. CASE ph = "armed" /\ NetAt(netq', "readAborted") /\ link' = "none" /\ pendingReads' = 0
  <2>1. LogicAt(logicq, lastCb, "readAborted")
    BY <1>4, LogicSame DEF Token
  <2> QED BY <1>1, <1>3, <1>4, <2>1 DEF Token
<1>5. CASE ph = "connecting" /\ NetAt(netq', "connectFailed") /\ link' = "none" /\ pendingReads' = 0
  <2>1. LogicAt(logicq, lastCb, "connectFailed")
    BY <1>5, LogicSame DEF Token
  <2> QED BY <1>1, <1>3, <1>5, <2>1 DEF Token
<1>6. CASE /\ NetAt(netq', ph) /\ (link' = "connecting" <=> ph = "connecting")
           /\ pendingReads' = pendingReads
  <2>1. Token(ph)'
    BY <1>1, <1>6 DEF Token
  <2> QED BY <1>2, <1>3, <1>4, <1>5, <2>1
<1> QED BY <1>2, <1>4, <1>5, <1>6

LEMMA StopClearStep ==
    ASSUME Typed, NEW ph \in Phases, Token(ph), StopClear
    PROVE  Typed' /\ Token(ph)'
<1>1. stopping' = "done" /\ UNCHANGED <<role, platform, interval, status, link, pendingReads, conns, timers,
                                        netq, netpc, logicq, lastCb, reads>>
  BY Zenon DEF StopClear, config, socketVars
<1> QED BY <1>1 DEF Typed, Token

LEMMA ConnectCompletesStep ==
    ASSUME Typed, NEW ph \in Phases, Token(ph), ConnectCompletes
    PROVE  Typed' /\ ph = "connecting" /\ (Token("connectOk")' \/ Token("connectFailed")')
<1> USE DEF Phases, InLogic, InNet, Live, Off
<1>1. /\ link = "connecting"
      /\ \/ link' = "up" /\ netq' = Append(netq, "connectOk")
         \/ link' = "none" /\ netq' = Append(netq, "connectFailed")
      /\ UNCHANGED <<role, platform, interval, status, conns, netpc, logicq, lastCb, stopping, pendingReads, timers, reads>>
  BY Zenon DEF ConnectCompletes, EnvUnchanged, config, stopVars
<1>2. ph = "connecting" /\ netq \in Seq(Handlers) /\ NetAt(netq, ph) /\ LogicAt(logicq, lastCb, ph)
  BY <1>1 DEF Token, Typed
<1>3. \A h \in InNet : Append(netq, h) \in Seq(Handlers) /\ NetAt(Append(netq, h), h)
  BY <1>2, NetPut
<1>4. LogicAt(logicq, lastCb, "connectOk") /\ LogicAt(logicq, lastCb, "connectFailed")
  BY <1>2, LogicSame
<1>5. CASE link' = "up" /\ netq' = Append(netq, "connectOk")
  BY <1>1, <1>2, <1>3, <1>4, <1>5 DEF Token, Typed
<1>6. CASE link' = "none" /\ netq' = Append(netq, "connectFailed")
  BY <1>1, <1>2, <1>3, <1>4, <1>6 DEF Token, Typed
<1> QED BY <1>1, <1>5, <1>6

LEMMA SocketReadableStep ==
    ASSUME Typed, NEW ph \in Phases, Token(ph), SocketReadable \/ EndReadable
    PROVE  Typed' /\ ph = "armed" /\ Token("read")'
<1> USE DEF Phases, InLogic, InNet, Live, Off
<1>1. /\ pendingReads > 0 /\ pendingReads' = pendingReads - 1 /\ netq' = Append(netq, "read")
      /\ reads' = reads \/ (reads < MaxReads /\ reads' = reads + 1)
      /\ UNCHANGED <<role, platform, interval, status, link, conns, netpc, logicq, lastCb, stopping, timers>>
  BY Zenon DEF SocketReadable, EndReadable, EnvUnchanged, config, stopVars
<1>2. ph = "armed" /\ netq \in Seq(Handlers) /\ NetAt(netq, ph) /\ LogicAt(logicq, lastCb, ph) /\ pendingReads = 1
  BY <1>1 DEF Token, Typed
<1>3. Append(netq, "read") \in Seq(Handlers) /\ NetAt(Append(netq, "read"), "read")
  BY <1>2, NetPut
<1>4. LogicAt(logicq, lastCb, "read")
  BY <1>2, LogicSame
<1>5. reads' \in 0 .. MaxReads
  BY <1>1 DEF Typed
<1> QED BY <1>1, <1>2, <1>3, <1>4, <1>5 DEF Token, Typed

LEMMA PeerGoneStep ==
    ASSUME Typed, NEW ph \in Phases, Token(ph), PeerGone
    PROVE  Typed' /\ Token(ph)'
<1>1. /\ link = "up" /\ link' \in {"fin", "reset"}
      /\ UNCHANGED <<role, platform, interval, status, conns, netpc, logicq, lastCb, stopping, timers,
                     pendingReads, netq, reads>>
  BY Zenon DEF PeerGone, EnvUnchanged, config, stopVars
<1> QED BY <1>1 DEF Typed, Token

LEMMA TimerExpiresStep ==
    ASSUME Typed, NEW ph \in Phases, Token(ph), TimerExpires
    PROVE  Typed' /\ ph = "waiting" /\ Token("timer")'
<1> USE DEF Phases, InLogic, InNet, Live, Off
<1>1. /\ timers > 0 /\ timers' = timers - 1 /\ netq' = Append(netq, "timer")
      /\ UNCHANGED <<role, platform, interval, status, link, conns, netpc, logicq, lastCb, stopping,
                     pendingReads, reads>>
  BY Zenon DEF TimerExpires, EnvUnchanged, config, stopVars
<1>2. ph = "waiting" /\ netq \in Seq(Handlers) /\ NetAt(netq, ph) /\ LogicAt(logicq, lastCb, ph) /\ timers = 1
  BY <1>1 DEF Token, Typed
<1>3. Append(netq, "timer") \in Seq(Handlers) /\ NetAt(Append(netq, "timer"), "timer")
  BY <1>2, NetPut
<1>4. LogicAt(logicq, lastCb, "timer")
  BY <1>2, LogicSame
<1> QED BY <1>1, <1>2, <1>3, <1>4 DEF Token, Typed

LEMMA ConnectionAcceptedStep ==
    ASSUME Typed, NEW ph \in Phases, Token(ph), ConnectionAccepted
    PROVE  Typed' /\ ph = "none" /\ Token("accept")'
<1> USE DEF Phases, InLogic, InNet, Live, Off
<1>1. /\ conns = 0 /\ conns' = 1 /\ link' = "up" /\ netq' = Append(netq, "accept")
      /\ UNCHANGED <<role, platform, interval, status, netpc, logicq, lastCb, stopping,
                     pendingReads, timers, reads>>
  BY Zenon DEF ConnectionAccepted, config, stopVars
<1>2. ph = "none" /\ netq \in Seq(Handlers) /\ NetAt(netq, ph) /\ LogicAt(logicq, lastCb, ph)
      /\ logicq = <<>> /\ lastCb = "none"
  BY <1>1 DEF Token, Typed
<1>3. Append(netq, "accept") \in Seq(Handlers) /\ NetAt(Append(netq, "accept"), "accept")
  BY <1>2, NetPut
<1>4. LogicAt(logicq, lastCb, "accept")
  BY <1>2 DEF LogicAt, Last
<1> QED BY <1>1, <1>2, <1>3, <1>4 DEF Token, Typed

LEMMA AcceptFailsStep ==
    ASSUME Typed, NEW ph \in Phases, Token(ph), AcceptFails
    PROVE  Typed' /\ Token(ph)'
<1>1. /\ netq' = Append(netq, "acceptError")
      /\ UNCHANGED <<role, platform, interval, status, link, conns, netpc, logicq, lastCb, stopping,
                     pendingReads, timers, reads>>
  BY Zenon DEF AcceptFails, config, stopVars, socketVars
<1>2. netq \in Seq(Handlers) /\ NetAt(netq, ph)
  BY DEF Token, Typed
<1>3. Append(netq, "acceptError") \in Seq(Handlers) /\ NetAt(Append(netq, "acceptError"), ph)
  BY <1>2, NetPutError
<1> QED BY <1>1, <1>2, <1>3 DEF Token, Typed

LEMMA HandleReadStep ==
    ASSUME Typed, NEW ph \in Phases, Token(ph), HandleRead
    PROVE  /\ Typed' /\ ph = "read"
           /\ \/ Token("rearm")' /\ status' = status
              \/ Token("readError")' /\ status' = "Disconnected"
<1> USE DEF Phases, InLogic, InNet, Live, Off
<1>1. /\ netpc = "idle" /\ netq # <<>> /\ Head(netq) = "read" /\ netq' = Tail(netq)
      /\ \/ /\ netpc' = "rearm" /\ logicq' \in {logicq, Append(logicq, "message")} /\ status' = status
         \/ status' = "Disconnected" /\ logicq' = Append(logicq, "readError") /\ netpc' = netpc
         \/ netpc' = "rearm" /\ status' = status /\ logicq' = logicq
      /\ UNCHANGED <<role, platform, interval, link, pendingReads, conns, timers, lastCb, stopping, reads>>
  BY Zenon DEF HandleRead, NetHandler, ReadError, NetUnchanged, config, stopVars
<1>2. netq \in Seq(Handlers) /\ logicq \in Seq(Callbacks) /\ NetAt(netq, ph) /\ LogicAt(logicq, lastCb, ph)
  BY DEF Token, Typed
<1>3. ph = "read" /\ Tail(netq) \in Seq(Handlers) /\ \A p \in Phases \ InNet : NetAt(Tail(netq), p)
  BY <1>1, <1>2, NetTake
<1>4. Last(logicq, lastCb) \in {"connectSucceed", "message"}
  BY <1>2, <1>3 DEF LogicAt
<1>5. "message" \in Follows(Last(logicq, lastCb)) /\ "readError" \in Follows(Last(logicq, lastCb))
  BY <1>4, FollowsFacts
<1>6. /\ Append(logicq, "message") \in Seq(Callbacks) /\ LogicAt(Append(logicq, "message"), lastCb, "rearm")
      /\ Append(logicq, "readError") \in Seq(Callbacks) /\ LogicAt(Append(logicq, "readError"), lastCb, "readError")
  BY <1>2, <1>3, <1>5, LogicPut DEF Callbacks
<1>7. LogicAt(logicq, lastCb, "rearm")
  BY <1>2, <1>3, LogicSame
<1>8. CASE netpc' = "rearm" /\ logicq' \in {logicq, Append(logicq, "message")} /\ status' = status
  <2>1. logicq' \in Seq(Callbacks) /\ LogicAt(logicq', lastCb, "rearm")
    BY <1>2, <1>6, <1>7, <1>8
  <2>2. Typed'
    BY <1>1, <1>3, <1>8, <2>1 DEF Typed
  <2>3. Token("rearm")'
    BY <1>1, <1>3, <1>8, <2>1 DEF Token
  <2> QED BY <1>3, <1>8, <2>2, <2>3
<1>9. CASE status' = "Disconnected" /\ logicq' = Append(logicq, "readError") /\ netpc' = netpc
  <2>1. Typed'
    BY <1>1, <1>3, <1>6, <1>9 DEF Typed
  <2>2. Token("readError")'
    BY <1>1, <1>3, <1>6, <1>9 DEF Token
  <2> QED BY <1>3, <1>9, <2>1, <2>2
<1> QED BY <1>1, <1>8, <1>9

\* postReadNull after handleRead or start, when no read is alive.
LEMMA PostReadFacts ==
    ASSUME PostReadNull, pendingReads = 0
    PROVE  \/ open /\ ~reading /\ reading' = TRUE /\ pendingReads' = 1
           \/ (~open \/ reading) /\ reading' = reading /\ pendingReads' = 0
<1>1. 0 + 1 = 1
  OBVIOUS
<1> QED BY <1>1, Zenon DEF PostReadNull

LEMMA RearmStep ==
    ASSUME Typed, NEW ph \in Phases, Token(ph), Rearm
    PROVE  /\ Typed' /\ ph = "rearm"
           /\ \/ Token("armed")' /\ reading' = TRUE
              \/ Token("none")' /\ (~open \/ reading)
<1> USE DEF Phases, InLogic, InNet, Live, Off
<1>1. /\ netpc = "rearm" /\ netpc' = "idle" /\ PostReadNull
      /\ UNCHANGED <<role, platform, interval, status, link, conns, timers, netq, logicq, lastCb, stopping, reads>>
  BY Zenon DEF Rearm, NetUnchanged, config, stopVars
<1>2. ph = "rearm" /\ pendingReads = 0 /\ LogicAt(logicq, lastCb, ph) /\ NetAt(netq, ph)
  BY <1>1 DEF Token
<1>3. \/ reading' = TRUE /\ pendingReads' = 1
      \/ (~open \/ reading) /\ pendingReads' = 0
  BY <1>1, <1>2, PostReadFacts, Zenon
<1>4. /\ LogicAt(logicq, lastCb, "armed") /\ LogicAt(logicq, lastCb, "none")
      /\ NetAt(netq, "armed") /\ NetAt(netq, "none")
  BY <1>2, LogicSame, NetSame
<1>5. Typed'
  BY <1>1 DEF Typed
<1>6. pendingReads' = 1 => Token("armed")'
  BY <1>1, <1>2, <1>4 DEF Token
<1>7. pendingReads' = 0 => Token("none")'
  BY <1>1, <1>2, <1>4 DEF Token
<1> QED BY <1>2, <1>3, <1>5, <1>6, <1>7, Zenon

LEMMA HandleReadAbortedStep ==
    ASSUME Typed, NEW ph \in Phases, Token(ph), HandleReadAborted
    PROVE  /\ Typed' /\ ph = "readAborted"
           /\ \/ Token("none")' /\ logicq' = logicq
              \/ platform # "windows" /\ Token("readError")'
<1> USE DEF Phases, InLogic, InNet, Live, Off
<1>1. /\ netpc = "idle" /\ netq # <<>> /\ Head(netq) = "readAborted" /\ netq' = Tail(netq) /\ netpc' = netpc
      /\ \/ status' = status /\ logicq' = logicq
         \/ platform # "windows" /\ status' = "Disconnected" /\ logicq' = Append(logicq, "readError")
      /\ UNCHANGED <<role, platform, interval, link, pendingReads, conns, timers, lastCb, stopping, reads>>
  BY Zenon DEF HandleReadAborted, NetHandler, ReadError, NetUnchanged, config, stopVars, socketVars
<1>2. netq \in Seq(Handlers) /\ logicq \in Seq(Callbacks) /\ NetAt(netq, ph) /\ LogicAt(logicq, lastCb, ph)
  BY DEF Token, Typed
<1>3. ph = "readAborted" /\ Tail(netq) \in Seq(Handlers) /\ \A p \in Phases \ InNet : NetAt(Tail(netq), p)
  BY <1>1, <1>2, NetTake
<1>4. Last(logicq, lastCb) \in {"connectSucceed", "message"}
  BY <1>2, <1>3 DEF LogicAt
<1>5. "readError" \in Follows(Last(logicq, lastCb))
  BY <1>4, FollowsFacts
<1>6. /\ Append(logicq, "readError") \in Seq(Callbacks) /\ LogicAt(Append(logicq, "readError"), lastCb, "readError")
  BY <1>2, <1>3, <1>5, LogicPut DEF Callbacks
<1>7. LogicAt(logicq, lastCb, "none")
  BY <1>2, <1>3, LogicSame
<1>8. CASE status' = status /\ logicq' = logicq
  BY <1>1, <1>3, <1>7, <1>8 DEF Typed, Token
<1>9. CASE platform # "windows" /\ status' = "Disconnected" /\ logicq' = Append(logicq, "readError")
  BY <1>1, <1>3, <1>6, <1>9 DEF Typed, Token
<1> QED BY <1>1, <1>8, <1>9

LEMMA HandleAsyncConnectStep ==
    ASSUME Typed, open \in BOOLEAN, NEW ph \in Phases, Token(ph), HandleAsyncConnect
    PROVE  /\ Typed' /\ ph \in {"connectOk", "connectFailed"}
           /\ \/ Token("connectSucceed")' /\ status' = "Connected" /\ open
              \/ Token("waiting")' /\ status' = "Disconnected"
              \/ Token("none")' /\ status' = "Disconnected" /\ interval = 0
<1> USE DEF Phases, InLogic, InNet, Live, Off
<1>1. PICK ok \in BOOLEAN :
        /\ ok => open
        /\ HandleConnect(ok, logicq)
        /\ netpc = "idle" /\ netq # <<>> /\ Head(netq) \in {"connectOk", "connectFailed"}
  BY Zenon DEF HandleAsyncConnect, NetHandler
<1>2. /\ netq' = Tail(netq)
      /\ UNCHANGED <<role, platform, interval, link, pendingReads, conns, netpc, lastCb, stopping, reads>>
  BY Zenon DEF HandleAsyncConnect, NetUnchanged, config, stopVars, socketVars
<1>3. netq \in Seq(Handlers) /\ logicq \in Seq(Callbacks) /\ NetAt(netq, ph) /\ LogicAt(logicq, lastCb, ph)
  BY DEF Token, Typed
<1>4. /\ ph \in {"connectOk", "connectFailed"} /\ Tail(netq) \in Seq(Handlers)
      /\ \A p \in Phases \ InNet : NetAt(Tail(netq), p)
  BY <1>1, <1>3, NetTake
<1>5. Last(logicq, lastCb) \in {"none", "connectFailed", "readError"} /\ timers = 0
  BY <1>3, <1>4 DEF LogicAt, Token
<1>6. LogicAt(logicq, lastCb, "none")
  BY <1>3, <1>4, LogicSame
<1>7. /\ logicq' \in Seq(Callbacks)
      /\ \/ ok /\ status' = "Connected" /\ timers' = 0 /\ LogicAt(logicq', lastCb, "connectSucceed")
         \/ /\ ~ok /\ status' = "Disconnected" /\ interval # 0 /\ timers' = 1
            /\ LogicAt(logicq', lastCb, "waiting")
         \/ /\ ~ok /\ status' = "Disconnected" /\ interval = 0 /\ timers' = 0
            /\ LogicAt(logicq', lastCb, "none")
  BY <1>1, <1>3, <1>5, <1>6, HandleConnectFacts, Zenon
<1>8. CASE ok /\ status' = "Connected" /\ timers' = 0 /\ LogicAt(logicq', lastCb, "connectSucceed")
  <2>1. Typed' /\ Token("connectSucceed")'
    BY <1>1, <1>2, <1>4, <1>7, <1>8 DEF Typed, Token
  <2> QED BY <1>1, <1>4, <1>8, <2>1, Zenon
<1>9. CASE status' = "Disconnected" /\ interval # 0 /\ timers' = 1 /\ LogicAt(logicq', lastCb, "waiting")
  BY <1>1, <1>2, <1>4, <1>7, <1>9 DEF Typed, Token
<1>10. CASE status' = "Disconnected" /\ interval = 0 /\ timers' = 0 /\ LogicAt(logicq', lastCb, "none")
  BY <1>1, <1>2, <1>4, <1>7, <1>10 DEF Typed, Token
<1> QED BY <1>7, <1>8, <1>9, <1>10

LEMMA OnReconnectStep ==
    ASSUME Typed, NEW ph \in Phases, Token(ph), OnReconnect
    PROVE  /\ Typed' /\ ph = "timer" /\ netq' = Tail(netq) /\ conns' # 0
           /\ \/ status # "Disconnected" /\ Token("none")'
              \/ /\ open' = TRUE
                 /\ \/ Token("connecting")' /\ status' = "Connecting"
                    \/ Token("connectSucceed")' /\ status' = "Connected"
                    \/ Token("waiting")' /\ status' = "Disconnected"
                    \/ Token("none")' /\ status' = "Disconnected" /\ interval = 0
<1> USE DEF Phases, InLogic, InNet, Live, Off
<1>1. /\ netpc = "idle" /\ netq # <<>> /\ Head(netq) = "timer" /\ TryConnect(Tail(netq), logicq)
      /\ UNCHANGED <<role, platform, interval, netpc, lastCb, stopping, reads>>
  BY Zenon DEF OnReconnect, NetHandler, NetUnchanged, config, stopVars
<1>2. netq \in Seq(Handlers) /\ logicq \in Seq(Callbacks) /\ NetAt(netq, ph) /\ LogicAt(logicq, lastCb, ph)
  BY DEF Token, Typed
<1>3. ph = "timer" /\ Tail(netq) \in Seq(Handlers) /\ NetAt(Tail(netq), "none")
  BY <1>1, <1>2, NetTake
<1>4. /\ Last(logicq, lastCb) \in {"none", "connectFailed", "readError"} /\ LogicAt(logicq, lastCb, "none")
      /\ pendingReads = 0 /\ timers = 0 /\ link # "connecting" /\ conns # 0
  BY <1>2, <1>3, LogicSame DEF LogicAt, Token
<1>5. netpc' = "idle" /\ lastCb' = lastCb
  BY <1>1
<1>6. /\ netq' = Tail(netq) /\ netq' \in Seq(Handlers) /\ logicq' \in Seq(Callbacks) /\ conns' \in 0 .. MaxConns
      /\ status' \in {"Disconnected", "Connecting", "Connected"}
      /\ link' \in {"none", "connecting", "up", "fin", "reset"}
      /\ \/ status # "Disconnected" /\ Token("none")' /\ status' = status /\ UNCHANGED socketVars
         \/ /\ status = "Disconnected" /\ open' = TRUE /\ conns' # 0
            /\ \/ Token("connecting")' /\ status' = "Connecting"
               \/ Token("connectSucceed")' /\ status' = "Connected"
               \/ Token("waiting")' /\ status' = "Disconnected"
               \/ Token("none")' /\ status' = "Disconnected" /\ interval = 0
  BY <1>1, <1>2, <1>3, <1>4, <1>5, TryConnectFacts
<1>7. Typed'
  BY <1>1, <1>6 DEF Typed
<1>8. conns' # 0
  BY <1>4, <1>6 DEF socketVars
<1> QED BY <1>3, <1>6, <1>7, <1>8

LEMMA HandlerAcceptStep ==
    ASSUME Typed, NEW ph \in Phases, Token(ph), HandlerAccept
    PROVE  /\ Typed'
           /\ \/ ph = "accept" /\ Token("connectSucceed")'
              \/ Token(ph)' /\ logicq' = logicq
<1> USE DEF Phases, InLogic, InNet, Live, Off
<1>1. /\ netpc = "idle" /\ netq # <<>> /\ netq' = Tail(netq)
      /\ \/ Head(netq) = "accept" /\ logicq' = Append(logicq, "connectSucceed")
         \/ Head(netq) = "acceptError" /\ logicq' = logicq
      /\ UNCHANGED <<role, platform, interval, status, link, pendingReads, conns, timers, netpc, lastCb, stopping, reads>>
  BY Zenon DEF HandlerAccept, NetHandler, config, stopVars, socketVars
<1>2. netq \in Seq(Handlers) /\ logicq \in Seq(Callbacks) /\ NetAt(netq, ph) /\ LogicAt(logicq, lastCb, ph)
  BY DEF Token, Typed
<1>3. CASE Head(netq) = "accept" /\ logicq' = Append(logicq, "connectSucceed")
  <2>1. ph = "accept" /\ Tail(netq) \in Seq(Handlers) /\ NetAt(Tail(netq), "connectSucceed")
    BY <1>1, <1>2, <1>3, NetTake
  <2>2. Last(logicq, lastCb) \in {"none", "connectFailed", "readError"}
    BY <1>2, <2>1 DEF LogicAt
  <2>3. "connectSucceed" \in Follows(Last(logicq, lastCb))
    BY <2>2, FollowsFacts
  <2>4. /\ Append(logicq, "connectSucceed") \in Seq(Callbacks)
        /\ LogicAt(Append(logicq, "connectSucceed"), lastCb, "connectSucceed")
    BY <1>2, <2>1, <2>3, LogicPut DEF Callbacks
  <2> QED BY <1>1, <1>3, <2>1, <2>4 DEF Typed, Token
<1>4. CASE Head(netq) = "acceptError" /\ logicq' = logicq
  <2>1. Tail(netq) \in Seq(Handlers) /\ NetAt(Tail(netq), ph)
    BY <1>1, <1>2, <1>4, NetTakeError
  <2> QED BY <1>1, <1>4, <2>1 DEF Typed, Token
<1> QED BY <1>1, <1>3, <1>4

LEMMA SessionConnectSucceedStep ==
    ASSUME Typed, NEW ph \in Phases, Token(ph), SessionConnectSucceed
    PROVE  /\ Typed' /\ ph = "connectSucceed"
           /\ \/ Token("armed")' /\ reading' = TRUE /\ status' = "Connected"
              \/ /\ Token("none")' /\ reading' = reading
                 /\ (startFailed' = TRUE /\ status' = status) \/ reading
<1> USE DEF Phases, InLogic, InNet, Live, Off
<1>1. /\ logicq # <<>> /\ Head(logicq) = "connectSucceed" /\ lastCb' = "connectSucceed" /\ logicq' = Tail(logicq)
      /\ \/ open /\ status' = "Connected" /\ PostReadNull
         \/ startFailed' = TRUE /\ status' = status /\ reading' = reading /\ pendingReads' = pendingReads
      /\ UNCHANGED <<role, platform, interval, link, conns, timers, netq, netpc, stopping, reads>>
  BY Zenon DEF SessionConnectSucceed, Callback, config, stopVars
<1>2. netq \in Seq(Handlers) /\ logicq \in Seq(Callbacks) /\ NetAt(netq, ph) /\ LogicAt(logicq, lastCb, ph)
  BY DEF Token, Typed
<1>3. /\ ph = "connectSucceed" /\ Tail(logicq) = <<>>
      /\ LogicAt(<<>>, "connectSucceed", "armed") /\ LogicAt(<<>>, "connectSucceed", "none")
  BY <1>1, <1>2, LogicTake
<1>4. pendingReads = 0 /\ NetAt(netq, "armed") /\ NetAt(netq, "none") /\ conns # 0
  BY <1>1, <1>2, <1>3, NetSame DEF Token
<1>5. status' \in {"Disconnected", "Connecting", "Connected"}
  BY <1>1 DEF Typed
<1>6. Typed'
  BY <1>1, <1>3, <1>5 DEF Typed, Callbacks
<1>7. pendingReads' = 1 => Token("armed")'
  BY <1>1, <1>3, <1>4 DEF Token
<1>8. pendingReads' = 0 => Token("none")'
  BY <1>1, <1>3, <1>4 DEF Token
<1>9. CASE open /\ status' = "Connected" /\ PostReadNull
  <2>1. \/ open /\ ~reading /\ reading' = TRUE /\ pendingReads' = 1
        \/ (~open \/ reading) /\ reading' = reading /\ pendingReads' = 0
    BY <1>4, <1>9, PostReadFacts, Zenon
  <2> QED BY <1>3, <1>6, <1>7, <1>8, <1>9, <2>1, Zenon
<1>10. CASE startFailed' = TRUE /\ status' = status /\ reading' = reading /\ pendingReads' = pendingReads
  BY <1>3, <1>4, <1>6, <1>8, <1>10, Zenon
<1> QED BY <1>1, <1>9, <1>10, Zenon

LEMMA SessionOtherStep ==
    ASSUME Typed, NEW ph \in Phases, Token(ph), SessionOther
    PROVE  Typed' /\ Token(ph)' /\ logicq # <<>>
<1> USE DEF InLogic
<1>1. /\ logicq # <<>> /\ Head(logicq) \in {"connectFailed", "message"} /\ lastCb' = Head(logicq)
      /\ logicq' = Tail(logicq)
      /\ UNCHANGED <<role, platform, interval, status, link, pendingReads, conns, timers, netq, netpc, stopping, reads>>
  BY Zenon DEF SessionOther, Callback, config, stopVars, socketVars
<1>2. logicq \in Seq(Callbacks) /\ LogicAt(logicq, lastCb, ph)
  BY DEF Token, Typed
<1>3. Tail(logicq) \in Seq(Callbacks) /\ LogicAt(Tail(logicq), Head(logicq), ph)
  BY <1>1, <1>2, LogicTakeOther
<1>4. Typed'
  BY <1>1, <1>3 DEF Typed, Callbacks
<1>5. Token(ph)'
  BY <1>1, <1>3 DEF Token
<1> QED BY <1>1, <1>4, <1>5

LEMMA ClientReadErrorStep ==
    ASSUME Typed, NEW ph \in Phases, Token(ph), ClientReadError
    PROVE  /\ Typed' /\ ph = "readError" /\ logicq # <<>> /\ netq' = netq /\ conns' # 0
           /\ \/ status # "Disconnected" /\ Token("none")'
              \/ /\ open' = TRUE
                 /\ \/ Token("connecting")' /\ status' = "Connecting"
                    \/ Token("connectSucceed")' /\ status' = "Connected"
                    \/ Token("waiting")' /\ status' = "Disconnected"
                    \/ Token("none")' /\ status' = "Disconnected" /\ interval = 0
<1> USE DEF Phases, InLogic, InNet, Live, Off
<1>1. /\ logicq # <<>> /\ Head(logicq) = "readError" /\ lastCb' = "readError" /\ TryConnect(netq, Tail(logicq))
      /\ UNCHANGED <<role, platform, interval, netpc, stopping, reads>>
  BY Zenon DEF ClientReadError, Callback, config, stopVars
<1>2. netq \in Seq(Handlers) /\ logicq \in Seq(Callbacks) /\ NetAt(netq, ph) /\ LogicAt(logicq, lastCb, ph)
  BY DEF Token, Typed
<1>3. ph = "readError" /\ Tail(logicq) = <<>> /\ LogicAt(<<>>, "readError", "none")
  BY <1>1, <1>2, LogicTake
<1>4. /\ NetAt(netq, "none") /\ netpc = "idle"
      /\ pendingReads = 0 /\ timers = 0 /\ link # "connecting" /\ conns # 0
  BY <1>1, <1>2, <1>3, NetSame DEF Token, Typed
<1>5. /\ netpc' = "idle" /\ Last(Tail(logicq), lastCb') = "readError" /\ Tail(logicq) \in Seq(Callbacks)
      /\ LogicAt(Tail(logicq), lastCb', "none")
  <2>1. netpc' = "idle" /\ Last(Tail(logicq), lastCb') = "readError"
    BY <1>1, <1>3, <1>4 DEF Last
  <2>2. Tail(logicq) \in Seq(Callbacks)
    BY <1>1, <1>2, TakeFacts
  <2>3. LogicAt(Tail(logicq), lastCb', "none")
    BY <1>1, <1>3, Zenon
  <2> QED BY <2>1, <2>2, <2>3
<1>6. /\ netq' = netq /\ netq' \in Seq(Handlers) /\ logicq' \in Seq(Callbacks) /\ conns' \in 0 .. MaxConns
      /\ status' \in {"Disconnected", "Connecting", "Connected"}
      /\ link' \in {"none", "connecting", "up", "fin", "reset"}
      /\ \/ status # "Disconnected" /\ Token("none")' /\ status' = status /\ UNCHANGED socketVars
         \/ /\ status = "Disconnected" /\ open' = TRUE /\ conns' # 0
            /\ \/ Token("connecting")' /\ status' = "Connecting"
               \/ Token("connectSucceed")' /\ status' = "Connected"
               \/ Token("waiting")' /\ status' = "Disconnected"
               \/ Token("none")' /\ status' = "Disconnected" /\ interval = 0
  BY <1>1, <1>2, <1>4, <1>5, TryConnectFacts
<1>7. Typed'
  BY <1>1, <1>6 DEF Typed, Callbacks
<1>8. conns' # 0
  BY <1>4, <1>6 DEF socketVars
<1> QED BY <1>1, <1>3, <1>6, <1>7, <1>8

LEMMA ServerReadErrorStep ==
    ASSUME Typed, NEW ph \in Phases, Token(ph), ServerReadError
    PROVE  Typed' /\ ph = "readError" /\ Token("none")'
<1> USE DEF Phases, InLogic, InNet, Live, Off
<1>1. /\ logicq # <<>> /\ Head(logicq) = "readError" /\ lastCb' = "readError" /\ logicq' = Tail(logicq)
      /\ interval' = 0 /\ stopping' = "closed" /\ CloseSocket(netq)
      /\ UNCHANGED <<role, platform, status, conns, timers, netpc, reads>>
  BY Zenon DEF ServerReadError, Stop, Callback, config
<1>2. netq \in Seq(Handlers) /\ logicq \in Seq(Callbacks) /\ LogicAt(logicq, lastCb, ph)
  BY DEF Token, Typed
<1>3. ph = "readError" /\ Tail(logicq) = <<>> /\ LogicAt(<<>>, "readError", "none")
  BY <1>1, <1>2, LogicTake
<1>4. /\ netq' \in Seq(Handlers) /\ link' \in {"none", "connecting", "up", "fin", "reset"}
      /\ NetAt(netq', ph) /\ link' # "connecting" /\ pendingReads' = pendingReads
  BY <1>1, <1>3, CloseFacts
<1>5. NetAt(netq', "none")
  BY <1>3, <1>4 DEF NetAt
<1>6. Typed'
  BY <1>1, <1>3, <1>4 DEF Typed, Callbacks
<1>7. Token("none")'
  BY <1>1, <1>3, <1>4, <1>5 DEF Token
<1> QED BY <1>3, <1>6, <1>7

-----------------------------------------------------------------------------
(* The acceptor: the accept that waits, or the handler that will ask for it. *)

Accepts == {"accept", "acceptError"}

NoAccept(q) == \A i \in 1 .. Len(q) : q[i] \notin Accepts
OneAccept(q) == \E i \in 1 .. Len(q) : q[i] \in Accepts /\ \A j \in 1 .. Len(q) : q[j] \in Accepts => j = i

AcceptInv ==
    /\ role = "client" => accepting = 0 /\ NoAccept(netq)
    /\ role = "server" => \/ accepting = 1 /\ NoAccept(netq)
                          \/ accepting = 0 /\ OneAccept(netq)

LEMMA AcceptPut ==
    ASSUME NEW q \in Seq(Handlers), NoAccept(q), NEW h \in Accepts
    PROVE  OneAccept(Append(q, h))
<1>1. h \in Handlers
  BY DEF Accepts, Handlers
<1>2. /\ Len(Append(q, h)) = Len(q) + 1 /\ Len(q) \in Nat
      /\ Append(q, h)[Len(q) + 1] = h /\ \A i \in 1 .. Len(q) : Append(q, h)[i] = q[i]
  BY <1>1, PutFacts
<1>3. \A j \in 1 .. Len(q) + 1 : Append(q, h)[j] \in Accepts => j = Len(q) + 1
  BY <1>2 DEF NoAccept
<1>4. Len(q) + 1 \in 1 .. Len(q) + 1
  BY <1>2
<1> QED BY <1>2, <1>3, <1>4 DEF OneAccept

LEMMA AcceptPutOther ==
    ASSUME NEW q \in Seq(Handlers), NEW h \in Handlers \ Accepts
    PROVE  (NoAccept(q) => NoAccept(Append(q, h))) /\ (OneAccept(q) => OneAccept(Append(q, h)))
<1> DEFINE r == Append(q, h)
<1>1. /\ Len(r) = Len(q) + 1 /\ Len(q) \in Nat
      /\ r[Len(q) + 1] = h /\ \A i \in 1 .. Len(q) : r[i] = q[i]
  BY PutFacts
<1> HIDE DEF r
<1>2. \A i \in 1 .. Len(r) : r[i] \in Accepts => i \in 1 .. Len(q) /\ r[i] = q[i]
  BY <1>1
<1>3. \A i \in 1 .. Len(q) : i \in 1 .. Len(r) /\ r[i] = q[i]
  BY <1>1
<1>4. NoAccept(q) => NoAccept(r)
  BY <1>2 DEF NoAccept
<1>5. OneAccept(q) => OneAccept(r)
  BY <1>2, <1>3 DEF OneAccept
<1> QED BY <1>4, <1>5 DEF r

LEMMA AcceptTake ==
    ASSUME NEW q \in Seq(Handlers), q # <<>>
    PROVE  /\ NoAccept(q) => NoAccept(Tail(q)) /\ Head(q) \notin Accepts
           /\ OneAccept(q) /\ Head(q) \in Accepts => NoAccept(Tail(q))
           /\ OneAccept(q) /\ Head(q) \notin Accepts => OneAccept(Tail(q))
<1> DEFINE r == Tail(q)
<1>1. /\ Len(r) = Len(q) - 1 /\ Len(q) \in Nat \ {0} /\ Head(q) = q[1]
      /\ \A i \in 1 .. Len(q) - 1 : r[i] = q[i + 1]
  BY TakeFacts
<1> HIDE DEF r
<1>2. \A i \in 1 .. Len(r) : i + 1 \in 1 .. Len(q) /\ i + 1 # 1 /\ r[i] = q[i + 1]
  BY <1>1
<1>3. 1 \in 1 .. Len(q)
  BY <1>1
<1>4. NoAccept(q) => NoAccept(r) /\ Head(q) \notin Accepts
  BY <1>1, <1>2, <1>3 DEF NoAccept
<1>5. OneAccept(q) /\ Head(q) \in Accepts => NoAccept(r)
  BY <1>1, <1>2, <1>3 DEF OneAccept, NoAccept
<1>6. ASSUME OneAccept(q), Head(q) \notin Accepts PROVE OneAccept(r)
  <2>1. PICK i \in 1 .. Len(q) : q[i] \in Accepts /\ \A j \in 1 .. Len(q) : q[j] \in Accepts => j = i
    BY <1>6 DEF OneAccept
  <2>2. i # 1
    BY <1>1, <1>6, <2>1
  <2>3. i - 1 \in 1 .. Len(r) /\ r[i - 1] = q[i]
    BY <1>1, <2>2
  <2>4. ASSUME NEW j \in 1 .. Len(r), r[j] \in Accepts PROVE j = i - 1
    <3>1. j + 1 = i
      BY <1>2, <2>1, <2>4
    <3> QED BY <2>1, <3>1
  <2> QED BY <2>1, <2>3, <2>4 DEF OneAccept
<1> QED BY <1>4, <1>5, <1>6 DEF r

\* The queue of the net thread changes, but for what the acceptor waits for.
LEMMA AcceptKept ==
    ASSUME Typed, AcceptInv, role' = role, accepting' = accepting,
           \/ netq' = netq
           \/ \E h \in Handlers \ Accepts : netq' = Append(netq, h)
           \/ netq # <<>> /\ Head(netq) \notin Accepts /\ netq' = Tail(netq)
    PROVE  AcceptInv'
<1>1. netq \in Seq(Handlers)
  BY DEF Typed
<1>2. (NoAccept(netq) => NoAccept(netq')) /\ (OneAccept(netq) => OneAccept(netq'))
  BY <1>1, AcceptPutOther, AcceptTake, Zenon
<1> QED BY <1>2 DEF AcceptInv

LEMMA CloseKeepsAccept ==
    ASSUME Typed, AcceptInv, NEW ph \in Phases, Token(ph), CloseSocket(netq), role' = role, accepting' = accepting
    PROVE  AcceptInv'
<1>1. netq' \in {netq, Append(netq, "readAborted"), Append(netq, "connectFailed")}
  BY CloseFacts
<1>2. "readAborted" \in Handlers \ Accepts /\ "connectFailed" \in Handlers \ Accepts
  BY DEF Handlers, Accepts
<1> QED BY <1>1, <1>2, AcceptKept, Zenon

LEMMA AcceptStep ==
    ASSUME Typed, AcceptInv, conns = 0 => status = "Disconnected", NEW ph \in Phases, Token(ph), [Next]_vars
    PROVE  AcceptInv'
<1> USE DEF Handlers, Accepts
<1>0. netq \in Seq(Handlers)
  BY DEF Typed
<1>1. CASE Connect
  <2>1. netq' = netq
    BY <1>1, ConnectStep, Zenon
  <2>2. role' = role /\ accepting' = accepting
    BY <1>1, Zenon DEF Connect, config
  <2> QED BY <2>1, <2>2, AcceptKept
<1>2. CASE AppStop
  BY <1>2, CloseKeepsAccept, Zenon DEF AppStop, Stop, config
<1>3. CASE ServerReadError
  BY <1>3, CloseKeepsAccept, Zenon DEF ServerReadError, Stop, config
<1>4. CASE StopClear \/ PeerGone \/ Rearm \/ SessionConnectSucceed \/ SessionOther \/ UNCHANGED vars
  <2>1. netq' = netq /\ role' = role /\ accepting' = accepting
    BY <1>4, Zenon DEF StopClear, PeerGone, Rearm, SessionConnectSucceed, SessionOther, EnvUnchanged,
       NetUnchanged, config, vars
  <2> QED BY <2>1, AcceptKept
<1>5. CASE ConnectCompletes \/ SocketReadable \/ EndReadable \/ TimerExpires
  <2>1. role' = role /\ accepting' = accepting
        /\ netq' \in {Append(netq, "connectOk"), Append(netq, "connectFailed"), Append(netq, "read"), Append(netq, "timer")}
    BY <1>5, Zenon DEF ConnectCompletes, SocketReadable, EndReadable, TimerExpires, EnvUnchanged, config
  <2>2. \E h \in Handlers \ Accepts : netq' = Append(netq, h)
    BY <2>1
  <2> QED BY <2>1, <2>2, AcceptKept
<1>6. CASE ConnectionAccepted \/ AcceptFails
  <2>1. /\ accepting > 0 /\ accepting' = accepting - 1 /\ role' = role
        /\ netq' \in {Append(netq, "accept"), Append(netq, "acceptError")}
    BY <1>6, Zenon DEF ConnectionAccepted, AcceptFails, config
  <2>2. role # "client" /\ NoAccept(netq) /\ accepting = 1 /\ role = "server"
    BY <2>1 DEF AcceptInv, Typed
  <2>3. OneAccept(netq')
    BY <1>0, <2>1, <2>2, AcceptPut
  <2> QED BY <2>1, <2>2, <2>3 DEF AcceptInv
<1>7. CASE HandleRead \/ HandleReadAborted \/ HandleAsyncConnect
  <2>1. /\ netq # <<>> /\ netq' = Tail(netq) /\ role' = role /\ accepting' = accepting
        /\ Head(netq) \in {"read", "readAborted", "connectOk", "connectFailed"}
    BY <1>7, Zenon DEF HandleRead, HandleReadAborted, HandleAsyncConnect, NetHandler, NetUnchanged, config
  <2> QED BY <2>1, AcceptKept
<1>8. CASE OnReconnect
  <2>1. netq' = Tail(netq)
    BY <1>8, OnReconnectStep, Zenon
  <2>2. role' = role /\ accepting' = accepting /\ netq # <<>> /\ Head(netq) = "timer"
    BY <1>8, Zenon DEF OnReconnect, NetHandler, NetUnchanged, config
  <2> QED BY <2>1, <2>2, AcceptKept
<1>9. CASE HandlerAccept
  <2>1. /\ netq # <<>> /\ Head(netq) \in Accepts /\ netq' = Tail(netq) /\ role' = role
        /\ accepting' = accepting + 1
    BY <1>9, Zenon DEF HandlerAccept, AcceptAgain, NetHandler, config
  <2>2. ~NoAccept(netq) /\ (OneAccept(netq) => NoAccept(netq'))
    BY <1>0, <2>1, AcceptTake, Zenon
  <2>3. role = "server" /\ accepting = 0 /\ OneAccept(netq)
    BY <2>2 DEF AcceptInv, Typed
  <2> QED BY <2>1, <2>2, <2>3 DEF AcceptInv
<1>10. CASE ClientReadError
  <2>1. netq' = netq
    BY <1>10, ClientReadErrorStep, Zenon
  <2>2. role' = role /\ accepting' = accepting
    BY <1>10, Zenon DEF ClientReadError, config
  <2> QED BY <2>1, <2>2, AcceptKept
<1> QED
  BY <1>1, <1>2, <1>3, <1>4, <1>5, <1>6, <1>7, <1>8, <1>9, <1>10, Zenon DEF Next, Application, Network, Net, Logic

-----------------------------------------------------------------------------
(* What the flags, the status and the socket say of the token. *)

Opened == {"connecting", "connectOk", "accept", "connectSucceed", "armed", "read", "rearm"}

\* _status of a client.
StatusOf(ph) ==
    /\ ph \in {"connecting", "connectOk", "connectFailed"} => status = "Connecting"
    /\ ph \in {"waiting", "timer", "readError"} => status = "Disconnected"
    /\ ph \in {"connectSucceed", "armed", "read", "rearm"} => status = "Connected"
    /\ ph = "none" => status = "Disconnected" /\ (conns = 0 \/ interval = 0)

\* Until stop is called _reading tells of the read, and the socket is open
\* wherever a handler or a callback counts on it.
BeforeStop(ph) ==
    stopping = "no" =>
        /\ ph # "readAborted"
        /\ reading <=> ph \in {"armed", "read"}
        /\ ph \in Opened => open
        /\ role = "client" /\ ~startFailed => StatusOf(ph)

\* A client that stopped at rest, on Windows: nothing is posted any more.
Silent(ph) ==
    role = "client" /\ quietEnd /\ platform = "windows" =>
        logicq = <<>> /\ ph \in {"none", "readAborted"} /\ conns # 0

Unstarted ==
    /\ conns = 0 => stopping = "no" /\ status = "Disconnected"
    /\ quietEnd => stopping # "no"

Flags ==
    /\ asyncConnect \in BOOLEAN /\ open \in BOOLEAN /\ avail \in BOOLEAN /\ reading \in BOOLEAN
    /\ quietEnd \in BOOLEAN /\ startFailed \in BOOLEAN

Holds(ph) == Token(ph) /\ BeforeStop(ph) /\ Silent(ph)

\* The inductive invariant.
SessionInv ==
    /\ Typed /\ Flags /\ AcceptInv /\ Unstarted
    /\ \E ph \in Phases : Holds(ph)

LEMMA FlagsStep ==
    ASSUME Flags, [Next]_vars
    PROVE  Flags'
<1> USE DEF Flags, config, stopVars, socketVars
<1>1. ASSUME NEW nq, NEW q, TryConnect(nq, q) PROVE open' \in BOOLEAN /\ avail' \in BOOLEAN
  BY <1>1, Zenon DEF TryConnect, OnConnect
<1>2. ASSUME CloseSocket(netq) PROVE open' \in BOOLEAN /\ avail' \in BOOLEAN
  BY <1>2, Zenon DEF CloseSocket
<1>3. ASSUME PostReadNull PROVE reading' \in BOOLEAN
  BY <1>3, Zenon DEF PostReadNull
<1>4. CASE Connect
  BY <1>1, <1>4, Zenon DEF Connect
<1>5. CASE AppStop
  <2>1. Resting \in BOOLEAN
    BY Zenon DEF Resting
  <2> QED BY <1>2, <1>5, <2>1, Zenon DEF AppStop, Stop
<1>6. CASE StopClear
  BY <1>6, Zenon DEF StopClear
<1>7. CASE Network
  <2>1. CASE ConnectCompletes \/ PeerGone \/ EndReadable \/ TimerExpires \/ AcceptFails
    BY <2>1, Zenon DEF ConnectCompletes, PeerGone, EndReadable, TimerExpires, AcceptFails, EnvUnchanged
  <2>2. CASE SocketReadable
    BY <2>2, Zenon DEF SocketReadable, EnvUnchanged
  <2>3. CASE ConnectionAccepted
    BY <2>3, Zenon DEF ConnectionAccepted
  <2> QED BY <1>7, <2>1, <2>2, <2>3, Zenon DEF Network
<1>8. CASE HandleRead
  BY <1>8, Zenon DEF HandleRead, NetUnchanged
<1>9. CASE Rearm
  BY <1>3, <1>9, Zenon DEF Rearm, NetUnchanged
<1>10. CASE HandleReadAborted \/ HandleAsyncConnect \/ HandlerAccept
  BY <1>10, Zenon DEF HandleReadAborted, HandleAsyncConnect, HandlerAccept, NetUnchanged
<1>11. CASE OnReconnect
  BY <1>1, <1>11, Zenon DEF OnReconnect, NetUnchanged
<1>12. CASE SessionConnectSucceed
  BY <1>3, <1>12, Zenon DEF SessionConnectSucceed
<1>13. CASE SessionOther
  BY <1>13, Zenon DEF SessionOther
<1>14. CASE ClientReadError
  BY <1>1, <1>14, Zenon DEF ClientReadError
<1>15. CASE ServerReadError
  BY <1>2, <1>15, Zenon DEF ServerReadError, Stop
<1>16. CASE UNCHANGED vars
  BY <1>16, Zenon DEF vars
<1> QED BY <1>4, <1>5, <1>6, <1>7, <1>8, <1>9, <1>10, <1>11, <1>12, <1>13, <1>14, <1>15, <1>16, Zenon
        DEF Next, Application, Net, Logic

LEMMA BegunFacts ==
    ASSUME NEW ph \in Phases, Token(ph), ph # "none"
    PROVE  conns # 0
BY Zenon DEF Token

\* The step of a thread that leaves the status, the flags and the socket alone.
LEMMA PhaseKept ==
    ASSUME Unstarted, NEW ph, BeforeStop(ph), Silent(ph), NEW p,
           UNCHANGED <<role, platform, interval, status, conns, open, reading, stopping, quietEnd, startFailed, logicq>>,
           \/ p = ph
           \/ ph = "connecting" /\ p \in {"connectOk", "connectFailed"}
           \/ ph = "armed" /\ p = "read"
           \/ ph = "waiting" /\ p = "timer"
    PROVE  Unstarted' /\ BeforeStop(p)' /\ Silent(p)'
<1>1. Unstarted'
  BY Zenon DEF Unstarted
<1>2. CASE p = ph
  BY <1>1, <1>2, Zenon DEF BeforeStop, StatusOf, Silent
<1>3. CASE ph = "connecting" /\ p = "connectOk"
  BY <1>1, <1>3, Zenon DEF BeforeStop, StatusOf, Silent, Opened
<1>4. CASE ph = "connecting" /\ p = "connectFailed"
  BY <1>1, <1>4, Zenon DEF BeforeStop, StatusOf, Silent, Opened
<1>5. CASE ph = "armed" /\ p = "read"
  BY <1>1, <1>5, Zenon DEF BeforeStop, StatusOf, Silent, Opened
<1>6. CASE ph = "waiting" /\ p = "timer"
  BY <1>1, <1>6, Zenon DEF BeforeStop, StatusOf, Silent, Opened
<1> QED BY <1>2, <1>3, <1>4, <1>5, <1>6, Zenon

\* Once stop was called only a client that was at rest promises anything.
LEMMA PhaseStopped ==
    ASSUME NEW p, stopping' # "no", ~quietEnd' \/ role' # "client"
    PROVE  BeforeStop(p)' /\ Silent(p)'
BY Zenon DEF BeforeStop, Silent

\* onConnect, which a callback, a timer or the application calls.
LEMMA PhaseConnect ==
    ASSUME Unstarted, NEW ph, ph \in {"timer", "readError"} \/ (ph = "none" /\ conns = 0 /\ status = "Disconnected"),
           BeforeStop(ph), Silent(ph),
           UNCHANGED <<role, platform, interval, reading, stopping, quietEnd, startFailed>>, conns' # 0,
           \/ status # "Disconnected" /\ Token("none")'
           \/ /\ open' = TRUE
              /\ \/ Token("connecting")' /\ status' = "Connecting"
                 \/ Token("connectSucceed")' /\ status' = "Connected"
                 \/ Token("waiting")' /\ status' = "Disconnected"
                 \/ Token("none")' /\ status' = "Disconnected" /\ interval = 0
    PROVE  Unstarted' /\ \E p \in Phases : Holds(p)'
<1> USE DEF Holds
<1>1. Unstarted'
  BY Zenon DEF Unstarted
<1>2. ~(role = "client" /\ quietEnd /\ platform = "windows")
  BY Zenon DEF Silent, Unstarted
<1>3. \A p \in Phases : Silent(p)'
  BY <1>2, Zenon DEF Silent
<1>4. stopping = "no" => ~reading
  BY Zenon DEF BeforeStop
<1>5. status # "Disconnected" => stopping # "no" \/ role # "client" \/ startFailed
  BY Zenon DEF BeforeStop, StatusOf
<1>6. {"connecting", "connectSucceed", "waiting", "none"} \subseteq Phases
  BY DEF Phases, InLogic, InNet
<1>7. CASE status # "Disconnected" /\ Token("none")'
  <2>1. BeforeStop("none")'
    BY <1>4, <1>5, <1>7, Zenon DEF BeforeStop, StatusOf, Opened
  <2> QED BY <1>1, <1>3, <1>6, <1>7, <2>1
<1>8. CASE open' = TRUE /\ Token("connecting")' /\ status' = "Connecting"
  <2>1. BeforeStop("connecting")'
    BY <1>4, <1>8, Zenon DEF BeforeStop, StatusOf, Opened
  <2> QED BY <1>1, <1>3, <1>6, <1>8, <2>1
<1>9. CASE open' = TRUE /\ Token("connectSucceed")' /\ status' = "Connected"
  <2>1. BeforeStop("connectSucceed")'
    BY <1>4, <1>9, Zenon DEF BeforeStop, StatusOf, Opened
  <2> QED BY <1>1, <1>3, <1>6, <1>9, <2>1
<1>10. CASE Token("waiting")' /\ status' = "Disconnected"
  <2>1. BeforeStop("waiting")'
    BY <1>4, <1>10, Zenon DEF BeforeStop, StatusOf, Opened
  <2> QED BY <1>1, <1>3, <1>6, <1>10, <2>1
<1>11. CASE Token("none")' /\ status' = "Disconnected" /\ interval = 0
  <2>1. BeforeStop("none")'
    BY <1>4, <1>11, Zenon DEF BeforeStop, StatusOf, Opened
  <2> QED BY <1>1, <1>3, <1>6, <1>11, <2>1
<1> QED BY <1>7, <1>8, <1>9, <1>10, <1>11, Zenon

LEMMA RestingPhase ==
    ASSUME NEW ph \in Phases, Token(ph), Resting
    PROVE  ph \in {"none", "armed"} /\ logicq = <<>> /\ open /\ link = "up"
<1>1. netq = <<>> /\ netpc = "idle" /\ logicq = <<>> /\ timers = 0 /\ open /\ link = "up"
  BY Zenon DEF Resting, Quiet
<1>2. ph \notin InNet /\ ph \notin InLogic
  BY <1>1 DEF Token, NetAt, LogicAt
<1>3. ph \notin {"connecting", "waiting", "rearm"}
  BY <1>1 DEF Token
<1>4. ph \in {"none", "armed"}
  BY <1>2, <1>3 DEF Phases
<1> QED BY <1>1, <1>4, Zenon

LEMMA PhaseStopStep ==
    ASSUME Typed, Unstarted, NEW ph \in Phases, Holds(ph), AppStop
    PROVE  Unstarted' /\ \E p \in Phases : Holds(p)'
<1> USE DEF Holds
<1>1. /\ conns > 0 /\ conns' = conns /\ stopping' = "closed" /\ quietEnd' = Resting /\ logicq' = logicq
  BY Zenon DEF AppStop, Stop
<1>2. conns' # 0
  BY <1>1 DEF Typed
<1>3. Unstarted'
  BY <1>1, <1>2, Zenon DEF Unstarted
<1>4. \A p \in Phases : BeforeStop(p)'
  BY <1>1, Zenon DEF BeforeStop
<1>5. \/ ph = "armed" /\ Token("readAborted")'
      \/ ph = "connecting" /\ Token("connectFailed")'
      \/ Token(ph)' /\ (open => link # "up" \/ ph # "armed")
  BY AppStopStep, Zenon
<1>6. {"readAborted", "connectFailed"} \subseteq Phases
  BY DEF Phases, InNet, InLogic
<1>7. Resting => ph \in {"none", "armed"} /\ logicq = <<>> /\ open /\ link = "up"
  BY RestingPhase
<1>8. CASE ph = "armed" /\ Token("readAborted")'
  <2>1. Silent("readAborted")'
    BY <1>1, <1>2, <1>7, Zenon DEF Silent
  <2> QED BY <1>3, <1>4, <1>6, <1>8, <2>1
<1>9. CASE ph = "connecting" /\ Token("connectFailed")'
  <2>1. ~Resting
    BY <1>7, <1>9, Zenon
  <2>2. Silent("connectFailed")'
    BY <1>1, <2>1, Zenon DEF Silent
  <2> QED BY <1>3, <1>4, <1>6, <1>9, <2>2
<1>10. CASE Token(ph)' /\ (open => link # "up" \/ ph # "armed")
  <2>1. Resting => ph = "none"
    BY <1>7, <1>10, Zenon
  <2>2. Silent(ph)'
    BY <1>1, <1>2, <1>7, <2>1, Zenon DEF Silent
  <2> QED BY <1>3, <1>4, <1>10, <2>2
<1> QED BY <1>5, <1>8, <1>9, <1>10, Zenon

LEMMA PhaseNetStep ==
    ASSUME Typed, Flags, AcceptInv, Unstarted, NEW ph \in Phases, Holds(ph), Net
    PROVE  Unstarted' /\ \E p \in Phases : Holds(p)'
<1> USE DEF Holds, config, stopVars, socketVars
<1>0. {"none", "waiting", "connectSucceed", "armed", "rearm", "readError"} \subseteq Phases
  BY DEF Phases, InNet, InLogic
<1>1. CASE HandleRead
  <2>1. /\ ph = "read"
        /\ \/ Token("rearm")' /\ status' = status
           \/ Token("readError")' /\ status' = "Disconnected"
    BY <1>1, HandleReadStep, Zenon
  <2>2. reading' = FALSE /\ UNCHANGED <<role, platform, interval, conns, open, stopping, quietEnd, startFailed>>
    BY <1>1, Zenon DEF HandleRead, NetUnchanged
  <2>3. Unstarted'
    BY <2>1, <2>2, BegunFacts, Zenon DEF Unstarted
  <2>4. \A p \in Phases : Silent(p)'
    BY <2>1, <2>2, Zenon DEF Silent
  <2>5. CASE Token("rearm")' /\ status' = status
    <3>1. BeforeStop("rearm")'
      BY <2>1, <2>2, <2>5, Zenon DEF BeforeStop, StatusOf, Opened
    <3> QED BY <1>0, <2>3, <2>4, <2>5, <3>1
  <2>6. CASE Token("readError")' /\ status' = "Disconnected"
    <3>1. BeforeStop("readError")'
      BY <2>1, <2>2, <2>6, Zenon DEF BeforeStop, StatusOf, Opened
    <3> QED BY <1>0, <2>3, <2>4, <2>6, <3>1
  <2> QED BY <2>1, <2>5, <2>6, Zenon
<1>2. CASE Rearm
  <2>1. /\ ph = "rearm"
        /\ \/ Token("armed")' /\ reading' = TRUE
           \/ Token("none")' /\ (~open \/ reading)
    BY <1>2, RearmStep, Zenon
  <2>2. UNCHANGED <<role, platform, interval, status, conns, open, stopping, quietEnd, startFailed>>
    BY <1>2, Zenon DEF Rearm, NetUnchanged
  <2>3. Unstarted'
    BY <2>2, Zenon DEF Unstarted
  <2>4. \A p \in Phases : Silent(p)'
    BY <2>1, <2>2, Zenon DEF Silent
  <2>5. CASE Token("armed")' /\ reading' = TRUE
    <3>1. BeforeStop("armed")'
      BY <2>1, <2>2, <2>5, Zenon DEF BeforeStop, StatusOf, Opened
    <3> QED BY <1>0, <2>3, <2>4, <2>5, <3>1
  <2>6. CASE Token("none")' /\ (~open \/ reading)
    <3>1. stopping # "no"
      BY <2>1, <2>6, Zenon DEF BeforeStop, Opened
    <3>2. BeforeStop("none")'
      BY <2>2, <3>1, Zenon DEF BeforeStop
    <3> QED BY <1>0, <2>3, <2>4, <2>6, <3>2
  <2> QED BY <2>1, <2>5, <2>6, Zenon
<1>3. CASE HandleReadAborted
  <2>1. /\ ph = "readAborted"
        /\ \/ Token("none")' /\ logicq' = logicq
           \/ platform # "windows" /\ Token("readError")'
    BY <1>3, HandleReadAbortedStep, Zenon
  <2>2. UNCHANGED <<role, platform, interval, conns, open, stopping, quietEnd, startFailed>>
    BY <1>3, Zenon DEF HandleReadAborted, NetUnchanged
  <2>3. Unstarted'
    BY <2>1, <2>2, BegunFacts, Zenon DEF Unstarted
  <2>4. stopping # "no"
    BY <2>1, Zenon DEF BeforeStop
  <2>5. \A p \in Phases : BeforeStop(p)'
    BY <2>2, <2>4, Zenon DEF BeforeStop
  <2>6. CASE Token("none")' /\ logicq' = logicq
    <3>1. Silent("none")'
      BY <2>2, <2>6, Zenon DEF Silent
    <3> QED BY <1>0, <2>3, <2>5, <2>6, <3>1
  <2>7. CASE platform # "windows" /\ Token("readError")'
    <3>1. Silent("readError")'
      BY <2>2, <2>7, Zenon DEF Silent
    <3> QED BY <1>0, <2>3, <2>5, <2>7, <3>1
  <2> QED BY <2>1, <2>6, <2>7, Zenon
<1>4. CASE HandleAsyncConnect
  <2>1. /\ ph \in {"connectOk", "connectFailed"}
        /\ \/ Token("connectSucceed")' /\ status' = "Connected" /\ open
           \/ Token("waiting")' /\ status' = "Disconnected"
           \/ Token("none")' /\ status' = "Disconnected" /\ interval = 0
    BY <1>4, HandleAsyncConnectStep, Zenon DEF Flags
  <2>2. UNCHANGED <<role, platform, interval, conns, open, reading, stopping, quietEnd, startFailed>>
    BY <1>4, Zenon DEF HandleAsyncConnect, NetUnchanged
  <2>3. Unstarted'
    BY <2>1, <2>2, BegunFacts, Zenon DEF Unstarted
  <2>4. \A p \in Phases : Silent(p)'
    BY <2>1, <2>2, Zenon DEF Silent
  <2>5. stopping = "no" => ~reading
    BY <2>1, Zenon DEF BeforeStop
  <2>6. CASE Token("connectSucceed")' /\ status' = "Connected" /\ open
    <3>1. BeforeStop("connectSucceed")'
      BY <2>2, <2>5, <2>6, Zenon DEF BeforeStop, StatusOf, Opened
    <3> QED BY <1>0, <2>3, <2>4, <2>6, <3>1
  <2>7. CASE Token("waiting")' /\ status' = "Disconnected"
    <3>1. BeforeStop("waiting")'
      BY <2>2, <2>5, <2>7, Zenon DEF BeforeStop, StatusOf, Opened
    <3> QED BY <1>0, <2>3, <2>4, <2>7, <3>1
  <2>8. CASE Token("none")' /\ status' = "Disconnected" /\ interval = 0
    <3>1. BeforeStop("none")'
      BY <2>2, <2>5, <2>8, Zenon DEF BeforeStop, StatusOf, Opened
    <3> QED BY <1>0, <2>3, <2>4, <2>8, <3>1
  <2> QED BY <2>1, <2>6, <2>7, <2>8, Zenon
<1>5. CASE OnReconnect
  <2>1. UNCHANGED <<role, platform, interval, reading, stopping, quietEnd, startFailed>>
    BY <1>5, Zenon DEF OnReconnect, NetUnchanged
  <2> QED BY <1>5, <2>1, OnReconnectStep, PhaseConnect, Zenon
<1>6. CASE HandlerAccept
  <2>1. \/ ph = "accept" /\ Token("connectSucceed")'
        \/ Token(ph)' /\ logicq' = logicq
    BY <1>6, HandlerAcceptStep, Zenon
  <2>2. UNCHANGED <<role, platform, interval, status, conns, open, reading, stopping, quietEnd, startFailed>>
    BY <1>6, Zenon DEF HandlerAccept
  <2>3. CASE Token(ph)' /\ logicq' = logicq
    BY <2>2, <2>3, PhaseKept, Zenon
  <2>4. CASE ph = "accept" /\ Token("connectSucceed")'
    <3>1. role # "client"
      BY <2>4 DEF Token, NetAt, AcceptInv, NoAccept, Accepts, InNet
    <3>2. Unstarted'
      BY <2>2, Zenon DEF Unstarted
    <3>3. BeforeStop("connectSucceed")' /\ Silent("connectSucceed")'
      BY <2>2, <2>4, <3>1, Zenon DEF BeforeStop, Opened, Silent
    <3> QED BY <1>0, <2>4, <3>2, <3>3
  <2> QED BY <2>1, <2>3, <2>4, Zenon
<1> QED BY <1>1, <1>2, <1>3, <1>4, <1>5, <1>6, Zenon DEF Net

LEMMA PhaseNetworkStep ==
    ASSUME Typed, Unstarted, NEW ph \in Phases, Holds(ph), Network
    PROVE  Unstarted' /\ \E p \in Phases : Holds(p)'
<1> USE DEF Holds, config, stopVars, socketVars
<1>0. {"connectOk", "connectFailed", "read", "timer", "accept"} \subseteq Phases
  BY DEF Phases, InNet, InLogic
<1> DEFINE Same == UNCHANGED <<role, platform, interval, status, conns, open, reading, stopping, quietEnd,
                               startFailed, logicq>>
<1>1. CASE ConnectCompletes
  <2>1. Same
    BY <1>1, Zenon DEF ConnectCompletes, EnvUnchanged
  <2>2. ph = "connecting" /\ (Token("connectOk")' \/ Token("connectFailed")')
    BY <1>1, ConnectCompletesStep, Zenon
  <2>3. \A p \in {"connectOk", "connectFailed"} : Unstarted' /\ BeforeStop(p)' /\ Silent(p)'
    BY <2>1, <2>2, PhaseKept, Zenon
  <2> QED BY <1>0, <2>2, <2>3
<1>2. CASE SocketReadable \/ EndReadable
  <2>1. Same
    BY <1>2, Zenon DEF SocketReadable, EndReadable, EnvUnchanged
  <2>2. ph = "armed" /\ Token("read")'
    BY <1>2, SocketReadableStep, Zenon
  <2>3. Unstarted' /\ BeforeStop("read")' /\ Silent("read")'
    BY <2>1, <2>2, PhaseKept, Zenon
  <2> QED BY <1>0, <2>2, <2>3
<1>3. CASE TimerExpires
  <2>1. Same
    BY <1>3, Zenon DEF TimerExpires, EnvUnchanged
  <2>2. ph = "waiting" /\ Token("timer")'
    BY <1>3, TimerExpiresStep, Zenon
  <2>3. Unstarted' /\ BeforeStop("timer")' /\ Silent("timer")'
    BY <2>1, <2>2, PhaseKept, Zenon
  <2> QED BY <1>0, <2>2, <2>3
<1>4. CASE PeerGone \/ AcceptFails
  <2>1. Same
    BY <1>4, Zenon DEF PeerGone, AcceptFails, EnvUnchanged
  <2>2. Token(ph)'
    BY <1>4, PeerGoneStep, AcceptFailsStep, Zenon
  <2>3. Unstarted' /\ BeforeStop(ph)' /\ Silent(ph)'
    BY <2>1, PhaseKept, Zenon
  <2> QED BY <2>2, <2>3
<1>5. CASE ConnectionAccepted
  <2>1. /\ role = "server" /\ conns = 0 /\ conns' = 1 /\ open' = TRUE
        /\ UNCHANGED <<role, reading, stopping, quietEnd>>
    BY <1>5, Zenon DEF ConnectionAccepted
  <2>2. ph = "none" /\ Token("accept")'
    BY <1>5, ConnectionAcceptedStep, Zenon
  <2>3. conns' # 0
    BY <2>1
  <2>4. Unstarted'
    BY <2>1, <2>3, Zenon DEF Unstarted
  <2>5. BeforeStop("accept")' /\ Silent("accept")'
    BY <2>1, <2>2, Zenon DEF BeforeStop, Silent
  <2> QED BY <1>0, <2>2, <2>4, <2>5
<1> QED BY <1>1, <1>2, <1>3, <1>4, <1>5, Zenon DEF Network

LEMMA PhaseLogicStep ==
    ASSUME Typed, Unstarted, NEW ph \in Phases, Holds(ph), Logic
    PROVE  Unstarted' /\ \E p \in Phases : Holds(p)'
<1> USE DEF Holds, config, stopVars, socketVars
<1>0. {"none", "armed"} \subseteq Phases
  BY DEF Phases, InNet, InLogic
<1>1. CASE SessionConnectSucceed
  <2>1. /\ ph = "connectSucceed"
        /\ \/ Token("armed")' /\ reading' = TRUE /\ status' = "Connected"
           \/ /\ Token("none")' /\ reading' = reading
              /\ (startFailed' = TRUE /\ status' = status) \/ reading
    BY <1>1, SessionConnectSucceedStep, Zenon
  <2>2. UNCHANGED <<role, platform, interval, conns, open, stopping, quietEnd>>
    BY <1>1, Zenon DEF SessionConnectSucceed
  <2>3. Unstarted'
    BY <2>1, <2>2, BegunFacts, Zenon DEF Unstarted
  <2>4. \A p \in Phases : Silent(p)'
    BY <2>1, <2>2, Zenon DEF Silent
  <2>5. CASE Token("armed")' /\ reading' = TRUE /\ status' = "Connected"
    <3>1. BeforeStop("armed")'
      BY <2>1, <2>2, <2>5, Zenon DEF BeforeStop, StatusOf, Opened
    <3> QED BY <1>0, <2>3, <2>4, <2>5, <3>1
  <2>6. CASE Token("none")' /\ reading' = reading /\ (startFailed' = TRUE \/ reading)
    <3>1. stopping = "no" => ~reading
      BY <2>1, Zenon DEF BeforeStop
    <3>2. BeforeStop("none")'
      BY <2>2, <2>6, <3>1, Zenon DEF BeforeStop, Opened
    <3> QED BY <1>0, <2>3, <2>4, <2>6, <3>2
  <2> QED BY <2>1, <2>5, <2>6, Zenon
<1>2. CASE SessionOther
  <2>1. Token(ph)' /\ logicq # <<>>
    BY <1>2, SessionOtherStep, Zenon
  <2>2. UNCHANGED <<role, platform, interval, status, conns, open, reading, stopping, quietEnd, startFailed>>
    BY <1>2, Zenon DEF SessionOther
  <2>3. Unstarted' /\ BeforeStop(ph)'
    BY <2>2, Zenon DEF Unstarted, BeforeStop, StatusOf
  <2>4. Silent(ph)'
    BY <2>1, <2>2, Zenon DEF Silent
  <2> QED BY <2>1, <2>3, <2>4
<1>3. CASE ClientReadError
  <2>1. UNCHANGED <<role, platform, interval, reading, stopping, quietEnd, startFailed>>
    BY <1>3, Zenon DEF ClientReadError
  <2> QED BY <1>3, <2>1, ClientReadErrorStep, PhaseConnect, Zenon
<1>4. CASE ServerReadError
  <2>1. /\ role = "server" /\ role' = role /\ stopping' = "closed" /\ conns' = conns
    BY <1>4, Zenon DEF ServerReadError, Stop
  <2>2. ph = "readError" /\ Token("none")'
    BY <1>4, ServerReadErrorStep, Zenon
  <2>3. Unstarted'
    BY <2>1, <2>2, BegunFacts, Zenon DEF Unstarted
  <2>4. BeforeStop("none")' /\ Silent("none")'
    BY <2>1, PhaseStopped, Zenon
  <2> QED BY <1>0, <2>2, <2>3, <2>4
<1> QED BY <1>1, <1>2, <1>3, <1>4, Zenon DEF Logic

LEMMA PhaseApplicationStep ==
    ASSUME Typed, Unstarted, NEW ph \in Phases, Holds(ph), Application
    PROVE  Unstarted' /\ \E p \in Phases : Holds(p)'
<1> USE DEF Holds, config, stopVars, socketVars
<1>1. CASE Connect
  <2>1. UNCHANGED <<role, platform, interval, reading, stopping, quietEnd, startFailed>> /\ conns = 0
    BY <1>1, Zenon DEF Connect
  <2>2. status = "Disconnected"
    BY <2>1, Zenon DEF Unstarted
  <2> QED BY <1>1, <2>1, <2>2, ConnectStep, PhaseConnect, Zenon
<1>2. CASE AppStop
  BY <1>2, PhaseStopStep, Zenon
<1>3. CASE StopClear
  <2>1. stopping = "closed" /\ stopping' = "done" /\ UNCHANGED <<role, platform, status, conns, quietEnd, logicq>>
    BY <1>3, Zenon DEF StopClear
  <2>2. Token(ph)'
    BY <1>3, StopClearStep, Zenon
  <2>3. Unstarted'
    BY <2>1, Zenon DEF Unstarted
  <2>4. BeforeStop(ph)'
    BY <2>1, Zenon DEF BeforeStop
  <2>5. Silent(ph)'
    BY <2>1, Zenon DEF Silent
  <2> QED BY <2>2, <2>3, <2>4, <2>5
<1> QED BY <1>1, <1>2, <1>3, Zenon DEF Application

-----------------------------------------------------------------------------
(* The theorems. *)

LEMMA TypedStep ==
    ASSUME Typed, Flags, Unstarted, NEW ph \in Phases, Token(ph), Next
    PROVE  Typed'
<1>1. conns = 0 => status = "Disconnected"
  BY Zenon DEF Unstarted
<1>2. open \in BOOLEAN
  BY Zenon DEF Flags
<1>3. CASE Application
  BY <1>1, <1>3, ConnectStep, AppStopStep, StopClearStep, Zenon DEF Application
<1>4. CASE Network
  BY <1>4, ConnectCompletesStep, SocketReadableStep, PeerGoneStep, TimerExpiresStep, ConnectionAcceptedStep,
     AcceptFailsStep, Zenon DEF Network
<1>5. CASE Net
  BY <1>2, <1>5, HandleReadStep, RearmStep, HandleReadAbortedStep, HandleAsyncConnectStep, OnReconnectStep,
     HandlerAcceptStep, Zenon DEF Net
<1>6. CASE Logic
  BY <1>6, SessionConnectSucceedStep, SessionOtherStep, ClientReadErrorStep, ServerReadErrorStep, Zenon DEF Logic
<1> QED BY <1>3, <1>4, <1>5, <1>6, Zenon DEF Next

LEMMA InitInv ==
    Init => SessionInv
<1> SUFFICES ASSUME Init PROVE SessionInv
  OBVIOUS
<1>1. /\ role \in {"client", "server"} /\ interval \in {0, 1}
      /\ \/ role = "client" /\ accepting = 0
         \/ role = "server" /\ accepting = 1
  <2>1. Created
    BY Zenon DEF Init
  <2> QED BY <2>1 DEF Created
<1>2. /\ platform \in {"windows", "linux"} /\ status = "Disconnected" /\ link = "none" /\ conns = 0
      /\ pendingReads = 0 /\ timers = 0 /\ netq = <<>> /\ netpc = "idle" /\ logicq = <<>> /\ lastCb = "none"
      /\ stopping = "no" /\ reads = 0
  BY Zenon DEF Init
<1>3. Typed
  BY <1>1, <1>2 DEF Typed
<1>4. Flags
  BY Zenon DEF Init, Flags
<1>5. AcceptInv
  BY <1>1, <1>2 DEF AcceptInv, NoAccept
<1>6. Unstarted /\ BeforeStop("none") /\ Silent("none")
  BY Zenon DEF Init, Unstarted, BeforeStop, StatusOf, Opened, Silent
<1>7. Token("none")
  BY <1>2 DEF Token, NetAt, LogicAt, InNet, InLogic, Live, Off
<1>8. "none" \in Phases
  BY DEF Phases
<1> QED BY <1>3, <1>4, <1>5, <1>6, <1>7, <1>8 DEF SessionInv, Holds

LEMMA SessionStep ==
    SessionInv /\ [Next]_vars => SessionInv'
<1> SUFFICES ASSUME SessionInv, [Next]_vars PROVE SessionInv'
  OBVIOUS
<1>1. Typed /\ Flags /\ AcceptInv /\ Unstarted /\ (conns = 0 => status = "Disconnected")
  BY Zenon DEF SessionInv, Unstarted
<1>2. PICK ph \in Phases : Holds(ph)
  BY Zenon DEF SessionInv
<1>3. Token(ph)
  BY <1>2, Zenon DEF Holds
<1>4. Flags' /\ AcceptInv'
  BY <1>1, <1>3, FlagsStep, AcceptStep, Zenon
<1>5. CASE Next
  <2>1. Typed'
    BY <1>1, <1>3, <1>5, TypedStep
  <2>2. Unstarted' /\ \E p \in Phases : Holds(p)'
    BY <1>1, <1>2, <1>5, PhaseApplicationStep, PhaseNetworkStep, PhaseNetStep, PhaseLogicStep, Zenon DEF Next
  <2> QED BY <1>4, <2>1, <2>2, Zenon DEF SessionInv
<1>6. CASE UNCHANGED vars
  <2>1. UNCHANGED <<role, platform, interval, status, link, pendingReads, conns, timers,
                    netq, netpc, logicq, lastCb, stopping, reads>>
    BY <1>6, Zenon DEF vars, config, socketVars, stopVars
  <2>2. Typed'
    BY <1>1, <2>1 DEF Typed
  <2>3. Token(ph)'
    BY <1>3, <2>1 DEF Token
  <2>4. Unstarted' /\ BeforeStop(ph)' /\ Silent(ph)'
    BY <1>1, <1>2, <1>6, PhaseKept, Zenon DEF Holds, vars, config, socketVars, stopVars
  <2> QED BY <1>4, <2>2, <2>3, <2>4, Zenon DEF SessionInv, Holds
<1> QED BY <1>5, <1>6

\* There is one token, and it is where the status, the flags, the socket and the
\* queues say: the inductive invariant holds, however connect, stop, the network
\* and the two threads interleave.
THEOREM Invariance == Spec => []SessionInv
BY InitInv, SessionStep, PTL DEF Spec

\* Every variable has its type, at most one accept waits, and until stop is
\* called every armed read is told by _reading and has an open socket.
THEOREM TypeCorrect == Spec => []TypeOK
<1>1. SessionInv => TypeOK
  <2> SUFFICES ASSUME SessionInv PROVE TypeOK
    OBVIOUS
  <2>1. Typed /\ Flags /\ AcceptInv
    BY Zenon DEF SessionInv
  <2>2. PICK ph \in Phases : Token(ph) /\ BeforeStop(ph)
    BY Zenon DEF SessionInv, Holds
  <2>3. pendingReads \in Nat /\ timers \in Nat /\ (pendingReads > 0 => ph = "armed")
    BY <2>2 DEF Token
  <2>4. accepting \in 0 .. 1
    BY <2>1 DEF Typed, AcceptInv
  <2>5. pendingReads > 0 /\ stopping = "no" => reading /\ open
    BY <2>2, <2>3, Zenon DEF BeforeStop, Opened
  <2> QED BY <2>1, <2>3, <2>4, <2>5, Zenon DEF Typed, Flags, TypeOK
<1> QED BY <1>1, Invariance, PTL

\* At most one read is armed, completed or being handled, so ReadBuffer needs no
\* lock; and none is while sessionReadError, which resets the buffer, is posted.
THEOREM ReadsCorrect == Spec => []OneReader
<1>1. SessionInv => OneReader
  <2> SUFFICES ASSUME SessionInv PROVE OneReader
    OBVIOUS
  <2>1. PICK ph \in Phases : Token(ph)
    BY Zenon DEF SessionInv, Holds
  <2> DEFINE Reads == {"read", "readAborted"}
  <2>2. /\ pendingReads \in {0, 1} /\ (pendingReads = 1 => ph = "armed") /\ (netpc = "rearm" => ph = "rearm")
        /\ \A i \in 1 .. Len(netq) : netq[i] \in Reads => ph \in Reads
        /\ \A i, j \in 1 .. Len(netq) : netq[i] \in Reads /\ netq[j] \in Reads => i = j
    BY <2>1 DEF Token, NetAt, InNet
  <2>3. ASSUME NEW r \in LiveReads
        PROVE  \/ ph = "armed" /\ r = <<"armed", 1>>
               \/ ph \in Reads /\ \E i \in InQueue(netq, Reads) : r = <<"queued", i>>
               \/ ph = "rearm" /\ r = <<"running", 1>>
    <3>1. CASE r \in {<<"armed", i>> : i \in 1 .. pendingReads}
      BY <2>2, <3>1
    <3>2. CASE r \in {<<"queued", i>> : i \in InQueue(netq, Reads)}
      BY <2>2, <3>2 DEF InQueue
    <3>3. CASE r \in {<<"running", i>> : i \in IF netpc = "rearm" THEN {1} ELSE {}}
      BY <2>2, <3>3
    <3> QED BY <3>1, <3>2, <3>3 DEF LiveReads
  <2>4. ASSUME NEW r \in LiveReads, NEW s \in LiveReads PROVE r = s
    <3>1. CASE ph \in Reads
      <4>1. PICK i \in InQueue(netq, Reads), j \in InQueue(netq, Reads) : r = <<"queued", i>> /\ s = <<"queued", j>>
        BY <2>3, <3>1
      <4>2. i = j
        BY <2>2 DEF InQueue
      <4> QED BY <4>1, <4>2
    <3>2. CASE ph \notin Reads
      BY <2>3, <3>2
    <3> QED BY <3>1, <3>2
  <2>5. ASSUME InQueue(logicq, {"readError"}) # {} PROVE LiveReads = {}
    <3>1. ph = "readError"
      BY <2>1, <2>5 DEF InQueue, Token, LogicAt, InLogic
    <3> QED BY <2>3, <3>1
  <2> QED BY <2>4, <2>5 DEF OneReader
<1> QED BY <1>1, Invariance, PTL

\* The NetHandler is told of connections one after the other: what the net
\* thread posts, and the logic thread runs, is in the order of Follows.
THEOREM OrderCorrect == Spec => []CallbackOrder
<1>1. SessionInv => CallbackOrder
  <2> SUFFICES ASSUME SessionInv PROVE CallbackOrder
    OBVIOUS
  <2>1. PICK ph \in Phases : Token(ph)
    BY Zenon DEF SessionInv, Holds
  <2>2. logicq \in Seq(Callbacks)
    BY Zenon DEF SessionInv, Typed
  <2>3. LogicAt(logicq, lastCb, ph)
    BY <2>1, Zenon DEF Token
  <2>4. logicq # <<>> => Head(logicq) = logicq[1]
    BY <2>2, TakeFacts
  <2> QED BY <2>3, <2>4 DEF LogicAt, CallbackOrder
<1> QED BY <1>1, Invariance, PTL

\* When all is quiet a client that was not stopped has its read, its connect or
\* its timer, and an acceptor has its accept: no step forgets to arm the next.
THEOREM AliveCorrect == Spec => []KeptAlive
<1>1. SessionInv => KeptAlive
  <2> SUFFICES ASSUME SessionInv, Quiet PROVE KeptAlive
    BY Zenon DEF KeptAlive
  <2>1. Typed /\ AcceptInv
    BY Zenon DEF SessionInv
  <2>2. PICK ph \in Phases : Token(ph) /\ BeforeStop(ph)
    BY Zenon DEF SessionInv, Holds
  <2>3. netq = <<>> /\ netpc = "idle" /\ logicq = <<>>
    BY Zenon DEF Quiet
  <2>4. ph \in {"none", "connecting", "waiting", "armed"}
    BY <2>2, <2>3 DEF Phases, Token, NetAt, LogicAt
  <2>5. /\ ph = "armed" => pendingReads = 1
        /\ ph = "connecting" => link = "connecting"
        /\ ph = "waiting" => timers = 1
    BY <2>2 DEF Token
  <2>6. conns > 0 => conns # 0
    BY <2>1 DEF Typed
  <2>7. role = "client" /\ conns > 0 /\ stopping = "no" /\ ~startFailed =>
            \/ status = "Connected" /\ open /\ pendingReads = 1
            \/ status = "Connecting" /\ link = "connecting"
            \/ status = "Disconnected" /\ (timers = 1 \/ interval = 0)
    BY <2>2, <2>4, <2>5, <2>6, Zenon DEF BeforeStop, StatusOf, Opened
  <2>8. role = "server" => accepting = 1
    BY <2>1, <2>3 DEF AcceptInv, OneAccept
  <2> QED BY <2>7, <2>8, Zenon DEF KeptAlive
<1> QED BY <1>1, Invariance, PTL

\* On Windows nothing is posted to a client that was stopped while only a read
\* of a good connection was pending: its callbacks, bound to a plain pointer,
\* are not called after ~RpcClient.
THEOREM SilenceCorrect == Spec => []QuietEndIsSilent
<1>1. SessionInv => QuietEndIsSilent
  BY Zenon DEF SessionInv, Holds, Silent, QuietEndIsSilent
<1> QED BY <1>1, Invariance, PTL
=============================================================================
