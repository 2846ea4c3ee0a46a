----------------------------- MODULE DBPoolProofs -----------------------------
(***************************************************************************)
(* A connection of DBPool has one user, for any number of threads, size of *)
(* the pool and number of uses.  TypeOK and Exclusive are inductive        *)
(* together: a new connection has a number nobody has, because TypeOK      *)
(* bounds all numbers by made; one that is taken is the head of a deque    *)
(* without repetitions, and one that is given back is in no deque.  On top *)
(* of that, no connection is lost and the pool stays as small as promised. *)
(***************************************************************************)
EXTENDS DBPool, FiniteSetTheorems, TLAPS

USE DEF PushBack

IndInv == TypeOK /\ Exclusive

\* More numbers do not invalidate a deque.
LEMMA SeqGrows ==
    ASSUME NEW m \in Nat, NEW s \in Seq(1 .. m) PROVE s \in Seq(1 .. m + 1)
OBVIOUS

\* The pool starts empty.
LEMMA InitIndInv == Init => IndInv
BY DBPoolAssumption DEF Init, IndInv, TypeOK, Exclusive, Idle, NoConn

\* init puts a new connection behind the others, or leaks it.
LEMMA InitConnStep == IndInv /\ InitConn => IndInv'
<1> SUFFICES ASSUME IndInv, InitConn PROVE IndInv'
  OBVIOUS
<1> USE DBPoolAssumption DEF IndInv, NoConn
<1>1. /\ made \in Nat /\ made' = made + 1 /\ made' \in 1 .. made'
      /\ connPool \in Seq(1 .. made')
  BY SeqGrows DEF TypeOK, InitConn
<1>2. connPool' = Append(connPool, made') \/ connPool' = connPool
  BY DEF InitConn
<1>3. /\ connPool' \in Seq(1 .. made')
      /\ Len(connPool) \in Nat
  BY <1>1, <1>2
<1>4. TypeOK'
  <2>1. deleted' \subseteq 1 .. made' /\ leaked' \subseteq 1 .. made'
    <3>1. 1 .. made \subseteq 1 .. made'
      BY <1>1
    <3>2. /\ deleted \subseteq 1 .. made /\ leaked \subseteq 1 .. made
          /\ deleted' = deleted /\ (leaked' = leaked \/ leaked' = leaked \cup {made'})
      BY DEF TypeOK, InitConn
    <3> QED BY <1>1, <3>1, <3>2, Zenon
  <2>2. conn' \in [Threads -> 0 .. made'] /\ conn' = conn /\ pc' = pc
    BY <1>1 DEF TypeOK, InitConn
  <2>3. starting' \in 0 .. N
    BY DEF TypeOK, InitConn
  <2> QED BY <1>1, <1>3, <2>1, <2>2, <2>3 DEF TypeOK, InitConn
<1>5. \A i \in 1 .. Len(connPool) : connPool[i] \in 1 .. made
  BY DEF TypeOK
<1>6. ASSUME NEW i \in 1 .. Len(connPool') PROVE
         \/ i \in 1 .. Len(connPool) /\ connPool'[i] = connPool[i]
         \/ i = Len(connPool) + 1 /\ connPool'[i] = made'
  BY <1>1, <1>2, <1>3, SMTT(40)
<1>7. \A t \in Threads : conn'[t] = conn[t] /\ conn[t] \in 0 .. made
  BY DEF InitConn, TypeOK
<1>8. Exclusive'
  <2>1. \A t, u \in Threads : conn'[t] = conn'[u] => t = u \/ conn'[t] = NoConn
    BY <1>7 DEF Exclusive
  <2>2. ASSUME NEW t \in Threads, NEW i \in 1 .. Len(connPool') PROVE conn'[t] # connPool'[i]
    <3>1. \A j \in 1 .. Len(connPool) : conn[t] # connPool[j]
      BY DEF Exclusive, Idle
    <3> QED BY <1>1, <1>6, <1>7, <3>1
  <2>3. ASSUME NEW i \in 1 .. Len(connPool'), NEW j \in 1 .. Len(connPool'),
               connPool'[i] = connPool'[j]
        PROVE  i = j
    BY <1>1, <1>5, <1>6, <2>3 DEF Exclusive
  <2> QED BY <2>1, <2>2, <2>3 DEF Exclusive, Idle
<1> QED BY <1>4, <1>8

\* getConn of an idle connection moves the head of the deque to one thread.
LEMMA TakeIdleStep ==
    ASSUME IndInv, NEW t \in Threads, GetConn(t), TakeIdle(t) PROVE IndInv'
<1> USE DBPoolAssumption DEF IndInv, NoConn
<1>1. /\ connPool \in Seq(1 .. made) /\ connPool # <<>> /\ made \in Nat
      /\ connPool' = Tail(connPool) /\ made' = made
      /\ conn' = [conn EXCEPT ![t] = Head(connPool)]
      /\ pc' = [pc EXCEPT ![t] = "using"]
  BY DEF TypeOK, TakeIdle
<1>2. /\ Head(connPool) = connPool[1] /\ connPool[1] \in 1 .. made
      /\ Len(connPool) \in Nat /\ Len(connPool) >= 1
      /\ connPool' \in Seq(1 .. made) /\ Len(connPool') = Len(connPool) - 1
  BY <1>1
<1>3. \A i \in 1 .. Len(connPool') :
         i + 1 \in 1 .. Len(connPool) /\ connPool'[i] = connPool[i + 1]
  BY <1>1, <1>2
<1>4. TypeOK'
  BY <1>1, <1>2 DEF TypeOK, GetConn, Construct
<1>5. /\ conn'[t] = connPool[1]
      /\ \A u \in Threads \ {t} : conn'[u] = conn[u]
  BY <1>1, <1>2 DEF TypeOK
<1>6. \A u \in Threads, i \in 1 .. Len(connPool) : conn[u] # connPool[i]
  BY DEF Exclusive, Idle
<1>7. \A i, j \in 1 .. Len(connPool) : connPool[i] = connPool[j] => i = j
  BY DEF Exclusive
<1>8. Exclusive'
  <2>1. ASSUME NEW u \in Threads, NEW v \in Threads, conn'[u] = conn'[v]
        PROVE  u = v \/ conn'[u] = NoConn
    BY <1>2, <1>5, <1>6, <2>1 DEF Exclusive
  <2>2. ASSUME NEW u \in Threads, NEW i \in 1 .. Len(connPool') PROVE conn'[u] # connPool'[i]
    <3>1. connPool'[i] = connPool[i + 1] /\ i + 1 \in 1 .. Len(connPool) /\ i + 1 # 1
      BY <1>2, <1>3
    <3> QED BY <1>2, <1>5, <1>6, <1>7, <3>1
  <2>3. ASSUME NEW i \in 1 .. Len(connPool'), NEW j \in 1 .. Len(connPool'),
               connPool'[i] = connPool'[j]
        PROVE  i = j
    <3>1. i + 1 = j + 1
      BY <1>3, <1>7, <2>3
    <3> QED BY <1>2, <3>1
  <2> QED BY <2>1, <2>2, <2>3 DEF Exclusive, Idle
<1> QED BY <1>4, <1>8

\* getConn of a new connection gives it a number that nobody has.
LEMMA NewConnStep ==
    ASSUME IndInv, NEW t \in Threads, GetConn(t), NewConn(t) PROVE IndInv'
<1> USE DBPoolAssumption DEF IndInv, NoConn
<1>1. /\ made \in Nat /\ made' = made + 1
      /\ connPool = <<>> /\ connPool' = connPool
      /\ conn' = [conn EXCEPT ![t] = made']
      /\ pc' = [pc EXCEPT ![t] = "connecting"]
  BY DEF TypeOK, NewConn
<1>2. connPool' \in Seq(1 .. made') /\ Len(connPool') = 0
  BY <1>1
<1>3. TypeOK'
  BY <1>1, <1>2 DEF TypeOK, GetConn, Construct
<1>4. \A u \in Threads : conn[u] \in 0 .. made /\ conn'[u] = IF u = t THEN made + 1 ELSE conn[u]
  BY <1>1 DEF TypeOK
<1>5. Exclusive'
  <2>1. ASSUME NEW u \in Threads, NEW v \in Threads, conn'[u] = conn'[v]
        PROVE  u = v \/ conn'[u] = NoConn
    BY <1>1, <1>4, <2>1 DEF Exclusive
  <2> QED BY <1>2, <2>1 DEF Exclusive, Idle
<1> QED BY <1>3, <1>5

\* A connect that succeeds changes no connection, one that fails drops it.
LEMMA ConnectedStep ==
    ASSUME IndInv, NEW t \in Threads, Connected(t) PROVE IndInv'
<1> USE DBPoolAssumption DEF IndInv, NoConn
<1>1. /\ pc[t] = "connecting" /\ conn[t] \in 1 .. made /\ made \in Nat
      /\ connPool' = connPool /\ made' = made
  BY DEF TypeOK, Connected
<1>2. TypeOK'
  <2>1. CASE pc' = [pc EXCEPT ![t] = "using"] /\ UNCHANGED <<conn, deleted, leaked>>
    <3>1. \A u \in Threads : pc'[u] = "idle" <=> conn'[u] = NoConn
      BY <1>1, <2>1 DEF TypeOK
    <3> QED BY <1>1, <2>1, <3>1 DEF TypeOK, Connected
  <2>2. CASE /\ \/ deleted' = deleted \cup {conn[t]} /\ leaked' = leaked
                \/ leaked' = leaked \cup {conn[t]} /\ deleted' = deleted
             /\ conn' = [conn EXCEPT ![t] = NoConn]
             /\ pc' = [pc EXCEPT ![t] = "idle"]
    <3>1. \A u \in Threads : pc'[u] = "idle" <=> conn'[u] = NoConn
      BY <2>2 DEF TypeOK
    <3>2. conn' \in [Threads -> 0 .. made]
      BY <1>1, <2>2 DEF TypeOK
    <3>3. deleted \subseteq 1 .. made /\ leaked \subseteq 1 .. made
      BY DEF TypeOK
    <3>4. deleted' \subseteq 1 .. made /\ leaked' \subseteq 1 .. made
      BY <1>1, <2>2, <3>3, Zenon
    <3> QED BY <1>1, <2>2, <3>1, <3>2, <3>4 DEF TypeOK, Connected
  <2> QED BY <2>1, <2>2 DEF Connected
<1>3. \A u \in Threads : conn'[u] = conn[u] \/ conn'[u] = NoConn
  BY DEF TypeOK, Connected
<1>4. \A i \in 1 .. Len(connPool) : connPool[i] # NoConn
  BY <1>1 DEF TypeOK
<1>5. Exclusive'
  BY <1>1, <1>3, <1>4 DEF Exclusive, Idle
<1> QED BY <1>2, <1>5

\* releaseConn moves a connection from its only user to the end of the deque.
LEMMA ReleaseConnStep ==
    ASSUME IndInv, NEW t \in Threads, ReleaseConn(t) PROVE IndInv'
<1> USE DBPoolAssumption DEF IndInv, NoConn
<1>1. /\ pc[t] = "using" /\ conn[t] \in 1 .. made /\ made \in Nat /\ made' = made
      /\ connPool \in Seq(1 .. made) /\ Len(connPool) \in Nat
      /\ connPool' = Append(connPool, conn[t])
      /\ conn' = [conn EXCEPT ![t] = 0]
      /\ pc' = [pc EXCEPT ![t] = "idle"]
  BY DEF TypeOK, ReleaseConn
<1>2. connPool' \in Seq(1 .. made) /\ Len(connPool') = Len(connPool) + 1
  BY <1>1
<1>3. TypeOK'
  BY <1>1, <1>2 DEF TypeOK, ReleaseConn
<1>4. ASSUME NEW i \in 1 .. Len(connPool') PROVE
         \/ i \in 1 .. Len(connPool) /\ connPool'[i] = connPool[i]
         \/ i = Len(connPool) + 1 /\ connPool'[i] = conn[t]
  BY <1>1, <1>2
<1>5. \A u \in Threads : conn'[u] = IF u = t THEN 0 ELSE conn[u]
  BY <1>1 DEF TypeOK
<1>6. \A u \in Threads, i \in 1 .. Len(connPool) : conn[u] # connPool[i]
  BY DEF Exclusive, Idle
<1>7. \A i \in 1 .. Len(connPool) : connPool[i] \in 1 .. made
  BY <1>1
<1>8. Exclusive'
  <2>1. ASSUME NEW u \in Threads, NEW v \in Threads, conn'[u] = conn'[v]
        PROVE  u = v \/ conn'[u] = NoConn
    BY <1>5, <2>1 DEF Exclusive
  <2>2. ASSUME NEW u \in Threads, NEW i \in 1 .. Len(connPool') PROVE conn'[u] # connPool'[i]
    <3>1. CASE u = t
      BY <1>1, <1>4, <1>5, <1>7, <3>1
    <3>2. CASE u # t
      <4>1. conn'[u] = conn[u] /\ conn[u] # conn[t]
        BY <1>1, <1>5, <3>2 DEF Exclusive
      <4> QED BY <1>4, <1>6, <4>1
    <3> QED BY <3>1, <3>2
  <2>3. ASSUME NEW i \in 1 .. Len(connPool'), NEW j \in 1 .. Len(connPool'),
               connPool'[i] = connPool'[j]
        PROVE  i = j
    BY <1>4, <1>6, <2>3 DEF Exclusive
  <2> QED BY <2>1, <2>2, <2>3 DEF Exclusive, Idle
<1> QED BY <1>3, <1>8

\* Every step of the pool, or of nobody, keeps the invariant.
LEMMA NextIndInv == IndInv /\ [Next]_vars => IndInv'
<1> SUFFICES ASSUME IndInv, [Next]_vars PROVE IndInv'
  OBVIOUS
<1>1. CASE InitConn
  BY <1>1, InitConnStep
<1>2. ASSUME NEW t \in Threads, GetConn(t) PROVE IndInv'
  BY <1>2, TakeIdleStep, NewConnStep DEF GetConn
<1>3. ASSUME NEW t \in Threads, Connected(t) PROVE IndInv'
  BY <1>3, ConnectedStep
<1>4. ASSUME NEW t \in Threads, ReleaseConn(t) PROVE IndInv'
  BY <1>4, ReleaseConnStep
<1>5. CASE UNCHANGED vars
  BY <1>5 DEF vars, IndInv, TypeOK, Exclusive, Idle
<1> QED BY <1>1, <1>2, <1>3, <1>4, <1>5 DEF Next

\* The inductive invariant of the pool.
THEOREM Invariance == Spec => []IndInv
BY InitIndInv, NextIndInv, PTL DEF Spec

\* getConn and releaseConn never give one connection to two users, whatever the
\* threads and the connect handler do.
THEOREM OneUserPerConnection == Spec => []Exclusive
<1>1. IndInv => Exclusive
  BY DEF IndInv
<1> QED BY <1>1, Invariance, PTL

\* The variables keep their types, and a thread has a connection exactly while
\* it has a helper.
THEOREM TypeCorrect == Spec => []TypeOK
<1>1. IndInv => TypeOK
  BY DEF IndInv
<1> QED BY <1>1, Invariance, PTL

-----------------------------------------------------------------------------
(* Where the connections are.  How each action moves them between the deque *)
(* and the threads:                                                          *)

LEMMA InitConnMoves ==
    ASSUME IndInv, InitConn
    PROVE  /\ Busy' = Busy /\ made' = made + 1 /\ deleted' = deleted
           /\ \/ Idle' = Idle \cup {made'} /\ leaked' = leaked
              \/ Idle' = Idle /\ leaked' = leaked \cup {made'}
<1>1. connPool \in Seq(1 .. made)
  BY DEF IndInv, TypeOK
<1>2. ASSUME connPool' = Append(connPool, made') PROVE Idle' = Idle \cup {made'}
  <2>1. /\ Len(connPool') = Len(connPool) + 1 /\ Len(connPool) \in Nat
        /\ connPool'[Len(connPool) + 1] = made'
        /\ \A i \in 1 .. Len(connPool) : connPool'[i] = connPool[i]
    BY <1>1, <1>2
  <2>2. \A i : i \in 1 .. Len(connPool') <=> i \in 1 .. Len(connPool) \/ i = Len(connPool) + 1
    BY <2>1
  <2> QED BY <2>1, <2>2 DEF Idle
<1> QED BY <1>2 DEF InitConn, Idle, Busy

LEMMA TakeIdleMoves ==
    ASSUME IndInv, NEW t \in Threads, GetConn(t), TakeIdle(t)
    PROVE  /\ Idle' \cup {Head(connPool)} = Idle /\ Busy' = Busy \cup {Head(connPool)}
           /\ made' = made /\ deleted' = deleted /\ leaked' = leaked
<1>1. /\ connPool \in Seq(1 .. made) /\ connPool # <<>> /\ connPool' = Tail(connPool)
      /\ pc \in [Threads -> {"idle", "connecting", "using"}]
      /\ conn \in [Threads -> 0 .. made] /\ pc[t] = "idle"
      /\ conn' = [conn EXCEPT ![t] = Head(connPool)] /\ pc' = [pc EXCEPT ![t] = "using"]
  BY DEF IndInv, TypeOK, TakeIdle, GetConn, Construct
<1>2. /\ Head(connPool) = connPool[1] /\ Len(connPool) \in Nat /\ Len(connPool) >= 1
      /\ Len(connPool') = Len(connPool) - 1
      /\ \A i \in 1 .. Len(connPool') : connPool'[i] = connPool[i + 1]
  BY <1>1
<1>3. Idle' \cup {Head(connPool)} = Idle
  <2>1. ASSUME NEW x \in Idle PROVE x \in Idle' \cup {Head(connPool)}
    <3>1. PICK i \in 1 .. Len(connPool) : x = connPool[i]
      BY DEF Idle
    <3>2. CASE i # 1
      <4>1. i - 1 \in 1 .. Len(connPool') /\ connPool'[i - 1] = connPool[i]
        BY <1>2, <3>2
      <4> QED BY <3>1, <4>1 DEF Idle
    <3> QED BY <1>2, <3>1, <3>2
  <2>2. ASSUME NEW x \in Idle' PROVE x \in Idle
    <3>1. PICK i \in 1 .. Len(connPool') : x = connPool'[i]
      BY DEF Idle
    <3>2. i + 1 \in 1 .. Len(connPool) /\ connPool'[i] = connPool[i + 1]
      BY <1>2
    <3> QED BY <3>1, <3>2 DEF Idle
  <2>3. Head(connPool) \in Idle
    BY <1>2 DEF Idle
  <2> QED BY <2>1, <2>2, <2>3
<1>4. Busy' = Busy \cup {Head(connPool)}
  BY <1>1 DEF Busy
<1> QED BY <1>3, <1>4 DEF TakeIdle, GetConn

LEMMA NewConnMoves ==
    ASSUME IndInv, NEW t \in Threads, GetConn(t), NewConn(t)
    PROVE  /\ Idle = {} /\ Idle' = {} /\ Busy' = Busy \cup {made'}
           /\ made' = made + 1 /\ deleted' = deleted /\ leaked' = leaked
<1>1. /\ connPool = <<>> /\ connPool' = <<>>
      /\ pc \in [Threads -> {"idle", "connecting", "using"}]
      /\ conn \in [Threads -> 0 .. made] /\ pc[t] = "idle"
      /\ conn' = [conn EXCEPT ![t] = made'] /\ pc' = [pc EXCEPT ![t] = "connecting"]
  BY DEF IndInv, TypeOK, NewConn, GetConn, Construct
<1>2. Idle = {} /\ Idle' = {}
  BY <1>1 DEF Idle
<1>3. Busy' = Busy \cup {made'}
  BY <1>1 DEF Busy
<1> QED BY <1>2, <1>3 DEF NewConn, GetConn

\* What a thread holds alone is not busy once the thread let it go.
LEMMA ConnFreed ==
    ASSUME IndInv, NEW t \in Threads, pc[t] # "idle",
           conn' = [conn EXCEPT ![t] = NoConn], pc' = [pc EXCEPT ![t] = "idle"]
    PROVE  Busy' = Busy \ {conn[t]} /\ conn[t] \in Busy
<1>1. /\ pc \in [Threads -> {"idle", "connecting", "using"}] /\ conn \in [Threads -> 0 .. made]
      /\ conn[t] # NoConn
  BY DEF IndInv, TypeOK
<1>2. \A u \in Threads : u # t => conn[u] # conn[t]
  BY <1>1 DEF IndInv, Exclusive
<1> QED BY <1>1, <1>2 DEF Busy

LEMMA ConnectedMoves ==
    ASSUME IndInv, NEW t \in Threads, Connected(t)
    PROVE  /\ Idle' = Idle /\ made' = made
           /\ \/ Busy' = Busy /\ deleted' = deleted /\ leaked' = leaked
              \/ /\ Busy' = Busy \ {conn[t]} /\ conn[t] \in Busy
                 /\ \/ deleted' = deleted \cup {conn[t]} /\ leaked' = leaked
                    \/ leaked' = leaked \cup {conn[t]} /\ deleted' = deleted
<1>1. ASSUME pc' = [pc EXCEPT ![t] = "using"], UNCHANGED <<conn, deleted, leaked>> PROVE Busy' = Busy
  BY <1>1 DEF Connected, Busy, IndInv, TypeOK
<1>2. ASSUME conn' = [conn EXCEPT ![t] = NoConn], pc' = [pc EXCEPT ![t] = "idle"]
      PROVE  Busy' = Busy \ {conn[t]} /\ conn[t] \in Busy
  BY <1>2, ConnFreed DEF Connected
<1> QED BY <1>1, <1>2 DEF Connected, Idle

LEMMA ReleaseConnMoves ==
    ASSUME IndInv, NEW t \in Threads, ReleaseConn(t)
    PROVE  /\ Idle' = Idle \cup {conn[t]} /\ Busy' = Busy \ {conn[t]} /\ conn[t] \in Busy
           /\ made' = made /\ deleted' = deleted /\ leaked' = leaked
<1>1. connPool \in Seq(1 .. made) /\ connPool' = Append(connPool, conn[t]) /\ conn[t] \in 1 .. made
  BY DEF IndInv, TypeOK, ReleaseConn, NoConn
<1>2. Idle' = Idle \cup {conn[t]}
  <2>1. /\ Len(connPool') = Len(connPool) + 1 /\ Len(connPool) \in Nat
        /\ connPool'[Len(connPool) + 1] = conn[t]
        /\ \A i \in 1 .. Len(connPool) : connPool'[i] = connPool[i]
    BY <1>1
  <2>2. \A i : i \in 1 .. Len(connPool') <=> i \in 1 .. Len(connPool) \/ i = Len(connPool) + 1
    BY <2>1
  <2> QED BY <2>1, <2>2 DEF Idle
<1> QED BY <1>2, ConnFreed DEF ReleaseConn

\* The first three conjuncts of Accounted.
Partition ==
    /\ 1 .. made = Idle \cup Busy \cup deleted \cup leaked
    /\ Idle \cap (deleted \cup leaked) = {}
    /\ Busy \cap (deleted \cup leaked) = {}

\* Until init is done nobody has a helper, and it makes N connections.
Starting == starting > 0 => made + starting = N /\ \A t \in Threads : pc[t] = "idle"

\* The last one.
Bounded == \E bound \in {N, Cardinality(Threads)} : Cardinality(Idle \cup Busy) <= bound

\* A new number is none of the old ones.
LEMMA NewNumber ==
    ASSUME NEW m \in Nat
    PROVE  1 .. m + 1 = (1 .. m) \cup {m + 1} /\ m + 1 \notin 1 .. m
OBVIOUS

LEMMA PartitionStep == IndInv /\ Partition /\ [Next]_vars => Partition'
<1> SUFFICES ASSUME IndInv, Partition, [Next]_vars PROVE Partition'
  OBVIOUS
<1>t. made \in Nat /\ \A t \in Threads : conn[t] \notin Idle
  BY DEF IndInv, TypeOK, Exclusive
<1>n. 1 .. made + 1 = (1 .. made) \cup {made + 1} /\ made + 1 \notin 1 .. made
  BY <1>t, NewNumber
<1>1. CASE InitConn
  BY <1>1, <1>n, InitConnMoves, SMTT(40) DEF Partition
<1>2. ASSUME NEW t \in Threads, GetConn(t), TakeIdle(t) PROVE Partition'
  BY <1>2, TakeIdleMoves, Zenon DEF Partition
<1>3. ASSUME NEW t \in Threads, GetConn(t), NewConn(t) PROVE Partition'
  BY <1>3, <1>n, NewConnMoves, Zenon DEF Partition
<1>4. ASSUME NEW t \in Threads, Connected(t) PROVE Partition'
  BY <1>4, <1>t, ConnectedMoves, Zenon DEF Partition
<1>5. ASSUME NEW t \in Threads, ReleaseConn(t) PROVE Partition'
  BY <1>5, ReleaseConnMoves, Zenon DEF Partition
<1>6. CASE UNCHANGED vars
  BY <1>6 DEF vars, Partition, Idle, Busy
<1> QED BY <1>1, <1>2, <1>3, <1>4, <1>5, <1>6, Zenon DEF Next, GetConn

LEMMA StartingStep == IndInv /\ Starting /\ [Next]_vars => Starting'
<1> SUFFICES ASSUME IndInv, Starting, [Next]_vars PROVE Starting'
  OBVIOUS
<1>t. starting \in Nat /\ made \in Nat /\ N \in Nat
  BY DBPoolAssumption DEF IndInv, TypeOK
<1>1. CASE InitConn
  BY <1>t, <1>1 DEF InitConn, Starting
<1>2. ASSUME NEW t \in Threads, GetConn(t) PROVE Starting'
  BY <1>t, <1>2 DEF GetConn, Construct, Starting
<1>3. ASSUME NEW t \in Threads, Connected(t) \/ ReleaseConn(t) PROVE Starting'
  BY <1>t, <1>3 DEF Connected, ReleaseConn, Starting
<1>4. CASE UNCHANGED vars
  BY <1>4 DEF vars, Starting
<1> QED BY <1>1, <1>2, <1>3, <1>4, Zenon DEF Next

LEMMA NumbersBound ==
    ASSUME NEW m \in Nat
    PROVE  IsFiniteSet(1 .. m) /\ Cardinality(1 .. m) <= m
<1>1. 1 \in Int /\ m \in Int
  OBVIOUS
<1>2. IsFiniteSet(1 .. m) /\ Cardinality(1 .. m) = IF 1 > m THEN 0 ELSE m - 1 + 1
  BY ONLY <1>1, FS_Interval, Zenon
<1> QED BY <1>2

\* What a set of threads holds are at most as many connections as threads.
LEMMA HeldBound ==
    ASSUME NEW c, NEW S \in SUBSET Threads
    PROVE  Cardinality({c[t] : t \in S}) <= Cardinality(Threads)
<1> DEFINE T == {c[t] : t \in S}
           f == [t \in S |-> c[t]]
<1>1. IsFiniteSet(S) /\ Cardinality(S) <= Cardinality(Threads)
  BY DBPoolAssumption, FS_Subset
<1>2. f \in Surjection(S, T)
  BY DEF Surjection
<1> HIDE DEF T, f
<1>3. IsFiniteSet(T) /\ Cardinality(T) <= Cardinality(S)
  BY <1>1, <1>2, FS_Surjection, Zenon
<1>4. Cardinality(T) \in Nat /\ Cardinality(S) \in Nat /\ Cardinality(Threads) \in Nat
  BY <1>1, <1>3, DBPoolAssumption, FS_CardinalityType
<1>5. Cardinality(T) <= Cardinality(Threads)
  BY <1>1, <1>3, <1>4
<1> QED BY <1>5 DEF T

\* The pool grows only in init, to N, and when all connections are in use.
LEMMA BoundedStep == IndInv /\ Partition /\ Starting /\ Bounded /\ [Next]_vars => Bounded'
<1> SUFFICES ASSUME IndInv, Partition, Starting, Bounded, [Next]_vars PROVE Bounded'
  OBVIOUS
<1>t. made \in Nat /\ starting \in Nat /\ N \in Nat /\ 1 .. made = Idle \cup Busy \cup deleted \cup leaked
  BY DBPoolAssumption DEF IndInv, TypeOK, Partition
<1>f. IsFiniteSet(Idle \cup Busy) /\ Cardinality(Idle \cup Busy) \in Nat
  <2>1. IsFiniteSet(1 .. made) /\ Idle \cup Busy \in SUBSET (1 .. made)
    BY <1>t, FS_Interval
  <2> QED BY <2>1, FS_Subset, FS_CardinalityType
<1>1. CASE InitConn
  <2>1. made' <= N /\ made' \in Nat
    BY <1>t, <1>1 DEF InitConn, Starting
  <2>2. Partition'
    BY PartitionStep
  <2>a. IsFiniteSet(1 .. made') /\ Cardinality(1 .. made') <= made'
    BY <2>1, NumbersBound
  <2>b. (Idle \cup Busy)' \in SUBSET (1 .. made')
    BY <2>2, Zenon DEF Partition
  <2>3. /\ IsFiniteSet(1 .. made') /\ Cardinality(1 .. made') <= made'
        /\ (Idle \cup Busy)' \in SUBSET (1 .. made')
    BY <2>a, <2>b
  <2>4. Cardinality((Idle \cup Busy)') <= Cardinality(1 .. made') /\ IsFiniteSet((Idle \cup Busy)')
    BY <2>3, FS_Subset
  <2>5. Cardinality((Idle \cup Busy)') \in Nat /\ Cardinality(1 .. made') \in Nat
    BY <2>3, <2>4, FS_CardinalityType
  <2>6. Cardinality((Idle \cup Busy)') <= N
    BY <1>t, <2>1, <2>3, <2>4, <2>5
  <2> QED BY <2>6 DEF Bounded
<1>2. ASSUME NEW t \in Threads, GetConn(t), TakeIdle(t) PROVE Bounded'
  <2>1. (Idle \cup Busy)' = Idle \cup Busy
    BY <1>2, TakeIdleMoves, Zenon
  <2> QED BY <2>1 DEF Bounded
<1>3. ASSUME NEW t \in Threads, GetConn(t), NewConn(t) PROVE Bounded'
  <2>1. (Idle \cup Busy)' = Busy'
    BY <1>3, NewConnMoves
  <2>2. Cardinality(Busy') <= Cardinality(Threads)
    BY HeldBound DEF Busy
  <2> QED BY <2>1, <2>2 DEF Bounded
<1>4. ASSUME NEW t \in Threads, Connected(t) PROVE Bounded'
  <2>1. (Idle \cup Busy)' \in SUBSET (Idle \cup Busy)
    BY <1>4, ConnectedMoves, Zenon
  <2>2. IsFiniteSet((Idle \cup Busy)') /\ Cardinality((Idle \cup Busy)') <= Cardinality(Idle \cup Busy)
    BY <1>f, <2>1, FS_Subset
  <2>3. Cardinality((Idle \cup Busy)') \in Nat
    BY <2>2, FS_CardinalityType
  <2>4. Cardinality(Threads) \in Nat
    BY DBPoolAssumption, FS_CardinalityType
  <2> QED BY <1>t, <1>f, <2>2, <2>3, <2>4 DEF Bounded
<1>5. ASSUME NEW t \in Threads, ReleaseConn(t) PROVE Bounded'
  <2>1. (Idle \cup Busy)' = Idle \cup Busy
    BY <1>5, ReleaseConnMoves, Zenon
  <2> QED BY <2>1 DEF Bounded
<1>6. CASE UNCHANGED vars
  BY <1>6 DEF vars, Bounded, Idle, Busy
<1> QED BY <1>1, <1>2, <1>3, <1>4, <1>5, <1>6, Zenon DEF Next, GetConn

\* getConn and releaseConn lose no connection, though new ones are made outside
\* the mutex, and the pool never holds more than it was created with or, if that
\* is more, one for each thread.
THEOREM PoolAccounted == Spec => []Accounted
<1>1. Init => Partition /\ Starting /\ Bounded
  <2> SUFFICES ASSUME Init PROVE Partition /\ Starting /\ Bounded
    OBVIOUS
  <2>1. Idle = {} /\ Busy = {}
    BY DEF Init, Idle, Busy
  <2>2. Idle \cup Busy = {} /\ Cardinality(Idle \cup Busy) = 0
    BY <2>1, FS_EmptySet, Zenon
  <2>3. Bounded
    BY <2>2, DBPoolAssumption DEF Bounded
  <2> QED BY <2>1, <2>3, DBPoolAssumption DEF Init, Partition, Starting
<1>2. Partition /\ Bounded => Accounted
  BY Zenon DEF Partition, Bounded, Accounted
<1> QED BY <1>1, <1>2, PartitionStep, StartingStep, BoundedStep, Invariance, PTL DEF Spec
=============================================================================
