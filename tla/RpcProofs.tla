------------------------------- MODULE RpcProofs ------------------------------
(***************************************************************************)
(* Remote calls, for any number of threads, calls and connections: a       *)
(* callback gets the response to its own request, at most once, and none   *)
(* after its deadline handler ran.                                         *)
(***************************************************************************)
EXTENDS Rpc, SequenceTheorems, FiniteSetTheorems, TLAPS

USE RpcAssumption

-----------------------------------------------------------------------------
(* The queues are used through the set of their elements. *)

Elems(s) == {s[i] : i \in 1 .. Len(s)}

LEMMA PutFacts ==
    ASSUME NEW S, NEW s \in Seq(S), NEW x \in S
    PROVE  /\ Append(s, x) \in Seq(S) /\ Elems(Append(s, x)) = Elems(s) \cup {x} /\ Len(s) \in Nat
           /\ Len(Append(s, x)) = Len(s) + 1 /\ Append(s, x)[Len(s) + 1] = x
           /\ \A i \in 1 .. Len(s) : Append(s, x)[i] = s[i]
<1>1. /\ Append(s, x) \in Seq(S) /\ Len(Append(s, x)) = Len(s) + 1 /\ Len(s) \in Nat
      /\ Append(s, x)[Len(s) + 1] = x /\ \A i \in 1 .. Len(s) : Append(s, x)[i] = s[i]
  OBVIOUS
<1>2. Elems(Append(s, x)) = Elems(s) \cup {x}
  BY <1>1 DEF Elems
<1> QED BY <1>1, <1>2

LEMMA TakeFacts ==
    ASSUME NEW S, NEW s \in Seq(S), s # <<>>
    PROVE  /\ Tail(s) \in Seq(S) /\ Elems(Tail(s)) \subseteq Elems(s)
           /\ Head(s) \in Elems(s) /\ Head(s) \in S
           /\ Len(s) \in Nat \ {0} /\ Len(Tail(s)) = Len(s) - 1 /\ Head(s) = s[1]
           /\ \A i \in 1 .. Len(s) - 1 : Tail(s)[i] = s[i + 1]
<1>1. /\ Tail(s) \in Seq(S) /\ Len(Tail(s)) = Len(s) - 1 /\ Len(s) \in Nat \ {0}
      /\ Head(s) = s[1] /\ Head(s) \in S
      /\ \A i \in 1 .. Len(s) - 1 : Tail(s)[i] = s[i + 1]
  OBVIOUS
<1>2. ASSUME NEW x \in Elems(Tail(s)) PROVE x \in Elems(s)
  <2>1. PICK i \in 1 .. Len(s) - 1 : x = Tail(s)[i]
    BY <1>1, <1>2 DEF Elems
  <2>2. x = s[i + 1] /\ i + 1 \in 1 .. Len(s)
    BY <1>1, <2>1
  <2> QED BY <2>2 DEF Elems
<1>3. Head(s) \in Elems(s)
  BY <1>1 DEF Elems
<1> QED BY <1>1, <1>2, <1>3

LEMMA DropFacts ==
    ASSUME NEW S, NEW s \in Seq(S), NEW n \in 0 .. Len(s)
    PROVE  SubSeq(s, n + 1, Len(s)) \in Seq(S) /\ Elems(SubSeq(s, n + 1, Len(s))) \subseteq Elems(s)
<1>1. /\ SubSeq(s, n + 1, Len(s)) \in Seq(S) /\ Len(s) \in Nat
      /\ Len(SubSeq(s, n + 1, Len(s))) = Len(s) - n
      /\ \A i \in 1 .. Len(s) - n : SubSeq(s, n + 1, Len(s))[i] = s[n + i]
  OBVIOUS
<1>2. ASSUME NEW x \in Elems(SubSeq(s, n + 1, Len(s))) PROVE x \in Elems(s)
  <2>1. PICK i \in 1 .. Len(s) - n : x = SubSeq(s, n + 1, Len(s))[i]
    BY <1>1, <1>2 DEF Elems
  <2>2. x = s[n + i] /\ n + i \in 1 .. Len(s)
    BY <1>1, <2>1
  <2> QED BY <2>2 DEF Elems
<1> QED BY <1>1, <1>2

LEMMA ElemsIn == ASSUME NEW S, NEW s \in Seq(S) PROVE Elems(s) \subseteq S
BY DEF Elems

LEMMA NoElems == Elems(<<>>) = {}
BY DEF Elems

-----------------------------------------------------------------------------
(* Types.  A caller has the fields of its call once it has begun one. *)

Request == [id : Ids, method : Methods, key : Calls]
Posted == [req : Request, conn : 1 .. MaxConns]
Reply == [id : Ids, key : Calls]
Event == [ev : {"message", "deadline"}, id : Ids, key : Calls]
CallRec == [no : 1 .. MaxCalls, kind : Kinds, method : Methods, id : {0} \cup Ids]

Typed ==
    /\ conn \in 0 .. MaxConns
    /\ methodId \in {0} \cup Ids
    /\ cbs \subseteq Entry /\ timers \subseteq Entry
    /\ logicq \in Seq(Event)
    /\ pc \in [Callers -> {"idle", "register", "write"}]
    /\ toServer \in Seq(Request)
    /\ serverq \in Seq(Posted)
    /\ toClient \in Seq(Reply)
    /\ handlers \subseteq Methods /\ executed \subseteq Calls
    /\ result \in [Calls -> {"none", "true", "false"}]
    /\ outcome \in [Calls -> Seq([what : {"cb", "dcb"}, of : Calls])]
    /\ call \in [Callers -> [no : {0}] \cup CallRec]
    /\ \A c \in Callers : /\ pc[c] # "idle" => call[c] \in CallRec
                          /\ pc[c] = "write" => call[c].id \in Ids

\* The first connection comes with conn = 1.
UpOnce == ok => conn # 0

Flags == ok \in BOOLEAN

\* The calls that have got past their registration.
Begun == {k \in Calls : k[2] < call[k[1]].no \/ (k[2] = call[k[1]].no /\ pc[k[1]] # "register")}

\* No more ids than that were given out.
Counted == methodId <= Cardinality(Begun)

TypeInv == Typed /\ UpOnce /\ Counted

LEMMA CallFacts ==
    /\ \A k \in Calls : k = <<k[1], k[2]>> /\ k[1] \in Callers /\ k[2] \in 1 .. MaxCalls
    /\ \A c \in Callers, n \in 1 .. MaxCalls : <<c, n>> \in Calls /\ <<c, n>>[1] = c /\ <<c, n>>[2] = n
    /\ IsFiniteSet(Calls) /\ Cardinality(Calls) \in Nat /\ Ids = 1 .. Cardinality(Calls)
<1>1. IsFiniteSet(1 .. MaxCalls) /\ Cardinality(1 .. MaxCalls) = MaxCalls
  BY FS_Interval
<1>2. IsFiniteSet(Calls) /\ Cardinality(Calls) = Cardinality(Callers) * Cardinality(1 .. MaxCalls)
  BY <1>1, FS_Product DEF Calls
<1>3. Cardinality(Callers) \in Nat
  BY FS_CardinalityType
<1>4. Cardinality(Callers) * MaxCalls = MaxCalls * Cardinality(Callers) /\ Cardinality(Callers) * MaxCalls \in Nat
  BY <1>3
<1>5. Ids = 1 .. Cardinality(Calls)
  BY <1>1, <1>2, <1>4 DEF Ids
<1> QED BY <1>1, <1>2, <1>4, <1>5 DEF Calls

LEMMA KeyFacts ==
    ASSUME Typed, NEW c \in Callers, pc[c] # "idle"
    PROVE  /\ Key(c) \in Calls /\ Key(c)[1] = c /\ Key(c)[2] = call[c].no /\ call[c].no \in 1 .. MaxCalls
           /\ call[c] \in CallRec
BY CallFacts DEF Typed, Key, CallRec

\* A caller's number of calls is there whether it has begun one or not.
LEMMA NumberFacts == ASSUME Typed, NEW c \in Callers PROVE call[c].no \in 0 .. MaxCalls
<1>1. call[c] \in [no : {0}] \cup CallRec
  BY DEF Typed
<1>2. CASE call[c] \in [no : {0}]
  BY <1>2
<1>3. CASE call[c] \in CallRec
  BY <1>3 DEF CallRec
<1> QED BY <1>1, <1>2, <1>3

\* A call begins: its key is new.
LEMMA BeginFacts ==
    ASSUME Typed, NEW c \in Callers, CallRpcMethod(c)
    PROVE  /\ Key(c)' \in Calls /\ Key(c)' \notin Begun
           /\ Begun \subseteq Begun' /\ Begun' \subseteq Begun \cup {Key(c)'}
           /\ call' \in [Callers -> [no : {0}] \cup CallRec] /\ call'[c] \in CallRec
           /\ pc' \in [Callers -> {"idle", "register", "write"}] /\ pc[c] = "idle" /\ pc'[c] # "write"
           /\ \A d \in Callers : d # c => call'[d] = call[d] /\ pc'[d] = pc[d]
<1>1. PICK kind \in Kinds, method \in Methods :
         call' = [call EXCEPT ![c] = [no |-> call[c].no + 1, kind |-> kind, method |-> method, id |-> 0]]
  BY DEF CallRpcMethod
<1>2. pc[c] = "idle" /\ call[c].no \in 0 .. MaxCalls /\ call[c].no < MaxCalls
  BY NumberFacts DEF CallRpcMethod
<1>3. pc' = [pc EXCEPT ![c] = "register"] \/ pc' = pc
  BY Zenon DEF CallRpcMethod
<1>4. call[c].no + 1 \in 1 .. MaxCalls
  BY <1>2
<1>5. call \in [Callers -> [no : {0}] \cup CallRec] /\ pc \in [Callers -> {"idle", "register", "write"}]
  BY DEF Typed
<1>6. [no |-> call[c].no + 1, kind |-> kind, method |-> method, id |-> 0] \in CallRec
  BY <1>4 DEF CallRec
<1>7. /\ call' \in [Callers -> [no : {0}] \cup CallRec] /\ call'[c] \in CallRec
      /\ call'[c].no = call[c].no + 1 /\ \A d \in Callers : d # c => call'[d] = call[d]
  BY <1>1, <1>5, <1>6
<1>8. /\ pc' \in [Callers -> {"idle", "register", "write"}] /\ pc'[c] # "write"
      /\ \A d \in Callers : d # c => pc'[d] = pc[d]
  BY <1>2, <1>3, <1>5
<1>9. Key(c)' = <<c, call[c].no + 1>>
  BY <1>7 DEF Key
<1>10. Key(c)' \in Calls /\ Key(c)'[1] = c /\ Key(c)'[2] = call[c].no + 1
  BY <1>4, <1>9, CallFacts
<1>11. Key(c)' \notin Begun
  BY <1>2, <1>10 DEF Begun
<1>12. ASSUME NEW k \in Calls PROVE (k \in Begun => k \in Begun') /\ (k \in Begun' => k \in Begun \/ k = Key(c)')
  <2>1. k = <<k[1], k[2]>> /\ k[1] \in Callers /\ k[2] \in 1 .. MaxCalls
    BY CallFacts
  <2>2. CASE k[1] # c
    BY <1>7, <1>8, <2>1, <2>2 DEF Begun
  <2>3. CASE k[1] = c
    <3>1. k \in Begun => k[2] <= call[c].no
      BY <1>2, <2>1, <2>3 DEF Begun
    <3>2. k \in Begun' => k[2] <= call[c].no + 1
      BY <1>2, <1>7, <2>1, <2>3 DEF Begun
    <3>3. k[2] <= call[c].no => k \in Begun /\ k \in Begun'
      BY <1>2, <1>7, <2>1, <2>3 DEF Begun
    <3>4. k[2] = call[c].no + 1 => k = Key(c)'
      BY <1>9, <2>1, <2>3
    <3> QED BY <1>2, <2>1, <3>1, <3>2, <3>3, <3>4
  <2> QED BY <2>2, <2>3
<1>13. Begun \subseteq Begun' /\ Begun' \subseteq Begun \cup {Key(c)'}
  BY <1>12 DEF Begun
<1> QED BY <1>2, <1>7, <1>8, <1>10, <1>11, <1>13

\* A call gets its id.
LEMMA RegisterFacts ==
    ASSUME Typed, NEW c \in Callers, Register(c)
    PROVE  /\ Key(c) \in Calls /\ Key(c) \notin Begun /\ Begun' = Begun \cup {Key(c)} /\ Key(c)' = Key(c)
           /\ methodId' = methodId + 1 /\ call'[c].id = methodId + 1
           /\ call' = [call EXCEPT ![c] = [call[c] EXCEPT !.id = methodId + 1]]
           /\ \A d \in Callers : d # c => call'[d] = call[d] /\ pc'[d] = pc[d]
           /\ pc[c] = "register" /\ pc' = [pc EXCEPT ![c] = "write"] /\ pc'[c] = "write"
           /\ \E e : /\ e = [id |-> methodId + 1, key |-> Key(c), timed |-> HasDeadline(call[c].kind)]
                     /\ cbs' \subseteq cbs \cup {e} /\ timers' \subseteq timers \cup {e}
<1>1. /\ pc[c] = "register" /\ pc' = [pc EXCEPT ![c] = "write"] /\ methodId' = methodId + 1
      /\ call' = [call EXCEPT ![c] = [call[c] EXCEPT !.id = methodId + 1]]
  BY Zenon DEF Register
<1>2. /\ call \in [Callers -> [no : {0}] \cup CallRec] /\ pc \in [Callers -> {"idle", "register", "write"}]
      /\ call[c] \in CallRec
  BY <1>1, KeyFacts DEF Typed
<1>3. /\ Key(c) \in Calls /\ Key(c)[1] = c /\ Key(c)[2] = call[c].no /\ call[c].no \in 1 .. MaxCalls
  BY <1>1, KeyFacts
<1>4. call'[c] = [call[c] EXCEPT !.id = methodId + 1]
  BY <1>1, <1>2
<1>5. call'[c].id = methodId + 1 /\ call'[c].no = call[c].no
  BY <1>2, <1>4 DEF CallRec
<1>6. \A d \in Callers : d # c => call'[d] = call[d] /\ pc'[d] = pc[d]
  BY <1>1, <1>2
<1>7. pc'[c] = "write" /\ Key(c)' = Key(c)
  BY <1>1, <1>2, <1>5 DEF Key
<1>8. Key(c) \notin Begun
  BY <1>1, <1>3 DEF Begun
<1>9. ASSUME NEW k \in Calls PROVE k \in Begun' <=> k \in Begun \/ k = Key(c)
  <2>1. k = <<k[1], k[2]>> /\ k[1] \in Callers /\ k[2] \in 1 .. MaxCalls
    BY CallFacts
  <2>2. CASE k[1] # c
    BY <1>3, <1>6, <2>1, <2>2 DEF Begun
  <2>3. CASE k[1] = c
    <3>1. k \in Begun <=> k[2] < call[c].no
      BY <1>1, <2>3 DEF Begun
    <3>2. k \in Begun' <=> k[2] < call[c].no \/ k[2] = call[c].no
      BY <1>5, <1>7, <2>3 DEF Begun
    <3>3. k = Key(c) <=> k[2] = call[c].no
      BY <2>1, <2>3 DEF Key
    <3> QED BY <3>1, <3>2, <3>3
  <2> QED BY <2>2, <2>3
<1>10. Begun' = Begun \cup {Key(c)}
  BY <1>3, <1>9 DEF Begun
<1>11. DEFINE e == [id |-> methodId + 1, key |-> Key(c), timed |-> HasDeadline(call[c].kind)]
<1>12. cbs' \subseteq cbs \cup {e} /\ timers' \subseteq timers \cup {e}
  BY Zenon DEF Register
<1> QED BY <1>1, <1>3, <1>5, <1>6, <1>7, <1>8, <1>10, <1>12, Zenon

\* callRpcMethod returns.
LEMMA WriteFacts ==
    ASSUME Typed, NEW c \in Callers, WriteRequest(c)
    PROVE  /\ pc[c] = "write" /\ pc' = [pc EXCEPT ![c] = "idle"] /\ pc'[c] = "idle" /\ call' = call
           /\ \A d \in Callers : d # c => pc'[d] = pc[d]
           /\ Key(c) \in Calls /\ Begun' = Begun
<1>1. pc[c] = "write" /\ pc' = [pc EXCEPT ![c] = "idle"] /\ call' = call
  BY Zenon DEF WriteRequest
<1>2. pc'[c] = "idle" /\ \A d \in Callers : d # c => pc'[d] = pc[d]
  BY <1>1 DEF Typed
<1>3. \A d \in Callers : pc'[d] # "register" <=> pc[d] # "register"
  BY <1>1, <1>2
<1>4. Begun' = Begun
  BY <1>1, <1>3, CallFacts DEF Begun
<1> QED BY <1>1, <1>2, <1>4, KeyFacts

\* The steps that are not a caller's.
Others ==
    \/ ReadResponse \/ TimerExpires \/ Logic \/ RegRpcHandler \/ ReadRequest \/ ServerReceiveMessage
    \/ ConnectionUp \/ ConnectionLost \/ UNCHANGED vars

LEMMA OthersFacts == Others => UNCHANGED <<callVars, methodId>> /\ Begun' = Begun
<1> SUFFICES ASSUME Others PROVE UNCHANGED <<callVars, methodId>> /\ Begun' = Begun
  OBVIOUS
<1>1. UNCHANGED <<callVars, methodId>>
  BY Zenon DEF Others, ReadResponse, TimerExpires, Logic, SessionReceiveMessage, RpcDeadCallback, RegRpcHandler,
     ReadRequest, ServerReceiveMessage, ConnectionUp, ConnectionLost, vars, callVars, clientVars
<1>2. Begun' = Begun
  BY <1>1 DEF callVars, Begun
<1> QED BY <1>1, <1>2

LEMMA RecordFacts ==
    /\ \A e \in Entry : e.id \in Ids /\ e.key \in Calls
    /\ \A r \in Request : r.id \in Ids /\ r.method \in Methods /\ r.key \in Calls
    /\ \A p \in Posted : p.req \in Request /\ p.conn \in 1 .. MaxConns
    /\ \A r \in Reply : r.id \in Ids /\ r.key \in Calls
    /\ \A e \in Event : e.ev \in {"message", "deadline"} /\ e.id \in Ids /\ e.key \in Calls
    /\ \A i \in Ids, k \in Calls : [id |-> i, key |-> k] \in Reply
    /\ \A ev \in {"message", "deadline"}, i \in Ids, k \in Calls : [ev |-> ev, id |-> i, key |-> k] \in Event
    /\ \A i \in Ids, m \in Methods, k \in Calls : [id |-> i, method |-> m, key |-> k] \in Request
    /\ \A r \in Request, n \in 1 .. MaxConns : [req |-> r, conn |-> n] \in Posted
BY DEF Entry, Request, Posted, Reply, Event

LEMMA EntryFacts ==
    ASSUME NEW i \in Ids, NEW k \in Calls, NEW kind
    PROVE  [id |-> i, key |-> k, timed |-> HasDeadline(kind)] \in Entry
BY DEF Entry, HasDeadline

\* Sets of calls are finite.
LEMMA CountFacts ==
    ASSUME NEW B \in SUBSET Calls
    PROVE  /\ IsFiniteSet(B) /\ Cardinality(B) \in Nat /\ Cardinality(B) <= Cardinality(Calls)
           /\ \A k \in Calls \ B : Cardinality(B \cup {k}) = Cardinality(B) + 1
<1>1. IsFiniteSet(B) /\ Cardinality(B) <= Cardinality(Calls)
  BY CallFacts, FS_Subset
<1>2. Cardinality(B) \in Nat
  BY <1>1, FS_CardinalityType
<1>3. \A k \in Calls \ B : Cardinality(B \cup {k}) = Cardinality(B) + 1
  BY <1>1, FS_AddElement
<1> QED BY <1>1, <1>2, <1>3

LEMMA InitTypeInv == Init => TypeInv
<1> SUFFICES ASSUME Init PROVE TypeInv
  OBVIOUS
<1>1. Typed
  BY DEF Init, Typed
<1>2. UpOnce
  BY Zenon DEF Init, UpOnce
<1>3. Begun \subseteq Calls
  BY DEF Begun
<1>4. Counted
  BY <1>3, CountFacts DEF Init, Counted
<1> QED BY <1>1, <1>2, <1>4 DEF TypeInv

LEMMA CallerTypeInv == ASSUME TypeInv, NEW c \in Callers, Caller(c) PROVE TypeInv'
<1> USE DEF TypeInv
<1>b. Begun \in SUBSET Calls /\ Begun' \in SUBSET Calls
  BY DEF Begun
<1>n. methodId \in Nat /\ methodId \in 0 .. Cardinality(Calls) /\ Cardinality(Begun) \in Nat /\ Cardinality(Begun') \in Nat
  BY <1>b, CountFacts, CallFacts DEF Typed
<1>1. CASE CallRpcMethod(c)
  <2>1. /\ UNCHANGED <<clientVars, wireVars, serverVars, outcome, conn>>
        /\ result' = result \/ result' = [result EXCEPT ![Key(c)'] = "false"]
    BY <1>1, Zenon DEF CallRpcMethod, connVars
  <2>2. /\ Key(c)' \in Calls /\ Begun \subseteq Begun'
        /\ call' \in [Callers -> [no : {0}] \cup CallRec] /\ call'[c] \in CallRec
        /\ pc' \in [Callers -> {"idle", "register", "write"}] /\ pc[c] = "idle" /\ pc'[c] # "write"
        /\ \A d \in Callers : d # c => call'[d] = call[d] /\ pc'[d] = pc[d]
    BY <1>1, BeginFacts
  <2>3. result' \in [Calls -> {"none", "true", "false"}]
    BY <2>1, <2>2 DEF Typed
  <2>4. Typed'
    BY <2>1, <2>2, <2>3 DEF Typed, clientVars, wireVars, serverVars
  <2>5. Cardinality(Begun) <= Cardinality(Begun')
    BY <1>b, <2>2, CountFacts, FS_Subset
  <2>6. Counted'
    BY <1>n, <2>1, <2>5 DEF Counted, clientVars
  <2>7. UpOnce'
    BY <1>1, Zenon DEF CallRpcMethod, connVars, UpOnce
  <2> QED BY <2>4, <2>6, <2>7
<1>2. CASE Register(c)
  <2>1. /\ UNCHANGED <<logicq, result, wireVars, serverVars, outcome, conn>>
    BY <1>2, Zenon DEF Register, connVars
  <2>2. /\ Key(c) \in Calls /\ Key(c) \notin Begun /\ Begun' = Begun \cup {Key(c)}
        /\ methodId' = methodId + 1 /\ call'[c].id = methodId + 1
        /\ call' = [call EXCEPT ![c] = [call[c] EXCEPT !.id = methodId + 1]]
        /\ \A d \in Callers : d # c => call'[d] = call[d] /\ pc'[d] = pc[d]
        /\ pc[c] = "register" /\ pc' = [pc EXCEPT ![c] = "write"] /\ pc'[c] = "write"
    BY <1>2, RegisterFacts
  <2>3. PICK e : /\ e = [id |-> methodId + 1, key |-> Key(c), timed |-> HasDeadline(call[c].kind)]
                 /\ cbs' \subseteq cbs \cup {e} /\ timers' \subseteq timers \cup {e}
    BY <1>2, RegisterFacts
  <2>4. Cardinality(Begun') = Cardinality(Begun) + 1 /\ Cardinality(Begun') <= Cardinality(Calls)
    BY <1>b, <2>2, CountFacts
  <2>5. Counted'
    BY <1>n, <2>2, <2>4 DEF Counted
  <2>6. methodId + 1 \in Ids
    BY <1>n, <2>4, CallFacts DEF Counted
  <2>7. e \in Entry
    BY <2>2, <2>3, <2>6, EntryFacts
  <2>8. call[c] \in CallRec
    BY <2>2, KeyFacts
  <2>9. [call[c] EXCEPT !.id = methodId + 1] \in CallRec
    BY <2>6, <2>8 DEF CallRec
  <2>10. call' \in [Callers -> [no : {0}] \cup CallRec] /\ call'[c] \in CallRec
    BY <2>2, <2>9 DEF Typed
  <2>11. pc' \in [Callers -> {"idle", "register", "write"}]
    BY <2>2 DEF Typed
  <2>12. cbs' \subseteq Entry /\ timers' \subseteq Entry
    BY <2>3, <2>7 DEF Typed
  <2>13. Typed'
    BY <2>1, <2>2, <2>6, <2>10, <2>11, <2>12 DEF Typed, wireVars, serverVars
  <2>14. UpOnce'
    BY <1>2, Zenon DEF Register, connVars, UpOnce
  <2> QED BY <2>5, <2>13, <2>14
<1>3. CASE WriteRequest(c)
  <2>1. UNCHANGED <<conn, clientVars, call, serverq, toClient, serverVars, outcome>>
    BY <1>3, Zenon DEF WriteRequest, connVars
  <2>2. /\ toServer' = toServer \/ toServer' = Append(toServer, [id |-> call[c].id, method |-> call[c].method, key |-> Key(c)])
        /\ \E ret \in {"true", "false"} : result' = [result EXCEPT ![Key(c)] = ret]
    BY <1>3, Zenon DEF WriteRequest
  <2>3. /\ pc[c] = "write" /\ pc' = [pc EXCEPT ![c] = "idle"] /\ pc'[c] = "idle"
        /\ \A d \in Callers : d # c => pc'[d] = pc[d]
        /\ Key(c) \in Calls /\ Begun' = Begun
    BY <1>3, WriteFacts
  <2>4. call[c].id \in Ids /\ call[c].method \in Methods
    BY <2>3 DEF Typed, CallRec
  <2>5. [id |-> call[c].id, method |-> call[c].method, key |-> Key(c)] \in Request
    BY <2>3, <2>4, RecordFacts
  <2>6. toServer' \in Seq(Request)
    <3>1. toServer \in Seq(Request)
      BY DEF Typed
    <3>2. Append(toServer, [id |-> call[c].id, method |-> call[c].method, key |-> Key(c)]) \in Seq(Request)
      BY ONLY <2>5, <3>1, PutFacts, Zenon
    <3> QED BY ONLY <2>2, <3>1, <3>2, Zenon
  <2>7. result' \in [Calls -> {"none", "true", "false"}] /\ pc' \in [Callers -> {"idle", "register", "write"}]
    BY <2>2, <2>3 DEF Typed
  <2>8. Typed'
    BY <2>1, <2>3, <2>6, <2>7 DEF Typed, clientVars, serverVars
  <2>9. Counted'
    BY <2>1, <2>3 DEF Counted, clientVars
  <2>10. UpOnce'
    BY <1>3, Zenon DEF WriteRequest, connVars, UpOnce
  <2> QED BY <2>8, <2>9, <2>10
<1> QED BY <1>1, <1>2, <1>3, Zenon DEF Caller

LEMMA OthersTypeInv == ASSUME TypeInv, Others PROVE TypeInv'
<1> USE DEF TypeInv
<1>1. Counted'
  BY OthersFacts DEF Counted
<1>2. UpOnce'
  <2>1. CASE ConnectionUp
    <3>1. conn' # 0
      BY <2>1 DEF ConnectionUp, Typed
    <3> QED BY <3>1, Zenon DEF UpOnce
  <2>2. CASE ~ConnectionUp
    <3>1. UNCHANGED connVars \/ ConnectionLost
      BY <2>2, Zenon DEF Others, ReadResponse, TimerExpires, Logic, SessionReceiveMessage, RpcDeadCallback,
         RegRpcHandler, ReadRequest, ServerReceiveMessage, vars
    <3>2. CASE UNCHANGED connVars
      BY <3>2, Zenon DEF connVars, UpOnce
    <3>3. CASE ConnectionLost
      BY <3>3, Zenon DEF ConnectionLost, UpOnce
    <3> QED BY <3>1, <3>2, <3>3
  <2> QED BY <2>1, <2>2
<1>3. pc' = pc /\ call' = call /\ result' = result /\ methodId' = methodId
  BY OthersFacts DEF callVars
<1>4. CASE ReadResponse
  <2>1. /\ toClient # <<>> /\ toClient' = Tail(toClient)
        /\ logicq' = Append(logicq, [ev |-> "message", id |-> Head(toClient).id, key |-> Head(toClient).key])
        /\ UNCHANGED <<conn, cbs, timers, toServer, serverq, serverVars, outcome>>
    BY <1>4, Zenon DEF ReadResponse, connVars
  <2>2. toClient' \in Seq(Reply) /\ Head(toClient) \in Reply
    BY <2>1, TakeFacts DEF Typed
  <2>3. [ev |-> "message", id |-> Head(toClient).id, key |-> Head(toClient).key] \in Event
    BY <2>2, RecordFacts
  <2>4. logicq' \in Seq(Event)
    BY <2>1, <2>3, PutFacts DEF Typed
  <2> QED BY <1>1, <1>2, <1>3, <2>1, <2>2, <2>4 DEF Typed, serverVars
<1>5. CASE TimerExpires
  <2>1. PICK t \in timers : /\ timers' = timers \ {t}
                            /\ logicq' = Append(logicq, [ev |-> "deadline", id |-> t.id, key |-> t.key])
    BY <1>5 DEF TimerExpires
  <2>2. UNCHANGED <<conn, cbs, wireVars, serverVars, outcome>>
    BY <1>5, Zenon DEF TimerExpires, connVars
  <2>3. [ev |-> "deadline", id |-> t.id, key |-> t.key] \in Event
    BY RecordFacts DEF Typed
  <2>4. logicq' \in Seq(Event)
    BY <2>1, <2>3, PutFacts DEF Typed
  <2>5. timers' \subseteq Entry
    BY <2>1 DEF Typed
  <2> QED BY <1>1, <1>2, <1>3, <2>2, <2>4, <2>5 DEF Typed, wireVars, serverVars
<1>6. ASSUME NEW k \in Calls, NEW what \in [what : {"cb", "dcb"}, of : Calls], Ran(k, what)
      PROVE  outcome' \in [Calls -> Seq([what : {"cb", "dcb"}, of : Calls])]
  <2>1. outcome[k] \in Seq([what : {"cb", "dcb"}, of : Calls])
    BY DEF Typed
  <2>2. Append(outcome[k], what) \in Seq([what : {"cb", "dcb"}, of : Calls])
    BY ONLY <1>6, <2>1, PutFacts, Zenon
  <2>3. outcome' = [outcome EXCEPT ![k] = Append(outcome[k], what)]
    BY <1>6 DEF Ran
  <2> QED BY <2>2, <2>3 DEF Typed
<1>7. CASE SessionReceiveMessage
  <2>1. /\ logicq # <<>> /\ logicq' = Tail(logicq)
        /\ cbs' \subseteq cbs /\ timers' \subseteq timers
        /\ \/ outcome' = outcome
           \/ \E e \in cbs : Ran(e.key, [what |-> "cb", of |-> Head(logicq).key])
        /\ UNCHANGED <<conn, wireVars, serverVars>>
    BY <1>7, Zenon DEF SessionReceiveMessage, connVars, Find
  <2>2. logicq' \in Seq(Event) /\ Head(logicq) \in Event
    BY <2>1, TakeFacts DEF Typed
  <2>3. [what |-> "cb", of |-> Head(logicq).key] \in [what : {"cb", "dcb"}, of : Calls]
    BY <2>2, RecordFacts
  <2>4. outcome' \in [Calls -> Seq([what : {"cb", "dcb"}, of : Calls])]
    <3>1. CASE outcome' = outcome
      BY <3>1 DEF Typed
    <3>2. CASE \E e \in cbs : Ran(e.key, [what |-> "cb", of |-> Head(logicq).key])
      <4>1. PICK e \in cbs : Ran(e.key, [what |-> "cb", of |-> Head(logicq).key])
        BY <3>2
      <4>2. e.key \in Calls
        BY RecordFacts DEF Typed
      <4> QED BY <1>6, <2>3, <4>1, <4>2, Zenon
    <3> QED BY <2>1, <3>1, <3>2
  <2> QED BY <1>1, <1>2, <1>3, <2>1, <2>2, <2>4 DEF Typed, wireVars, serverVars
<1>8. CASE RpcDeadCallback
  <2>1. /\ logicq # <<>> /\ logicq' = Tail(logicq)
        /\ cbs' \subseteq cbs /\ timers' = timers
        /\ Ran(Head(logicq).key, [what |-> "dcb", of |-> Head(logicq).key])
        /\ UNCHANGED <<conn, wireVars, serverVars>>
    BY <1>8, Zenon DEF RpcDeadCallback, connVars
  <2>2. logicq' \in Seq(Event) /\ Head(logicq) \in Event
    BY <2>1, TakeFacts DEF Typed
  <2>3. Head(logicq).key \in Calls /\ [what |-> "dcb", of |-> Head(logicq).key] \in [what : {"cb", "dcb"}, of : Calls]
    BY <2>2, RecordFacts
  <2>4. outcome' \in [Calls -> Seq([what : {"cb", "dcb"}, of : Calls])]
    BY <1>6, <2>1, <2>3, Zenon
  <2> QED BY <1>1, <1>2, <1>3, <2>1, <2>2, <2>4 DEF Typed, wireVars, serverVars
<1>9. CASE RegRpcHandler
  <2>1. handlers' \subseteq Methods
    BY <1>9 DEF RegRpcHandler, Typed
  <2>2. UNCHANGED <<conn, clientVars, wireVars, executed, outcome>>
    BY <1>9, Zenon DEF RegRpcHandler, connVars
  <2> QED BY <1>1, <1>2, <1>3, <2>1, <2>2 DEF Typed, clientVars, wireVars
<1>10. CASE ReadRequest
  <2>1. /\ toServer # <<>> /\ toServer' = Tail(toServer)
        /\ serverq' = Append(serverq, [req |-> Head(toServer), conn |-> conn])
        /\ UNCHANGED <<conn, clientVars, toClient, serverVars, outcome>>
    BY <1>10, Zenon DEF ReadRequest, connVars
  <2>2. conn # 0
    BY <1>10, Zenon DEF ReadRequest, UpOnce
  <2>3. conn \in 1 .. MaxConns
    BY <2>2 DEF Typed
  <2>4. toServer' \in Seq(Request) /\ Head(toServer) \in Request
    BY <2>1, TakeFacts DEF Typed
  <2>5. [req |-> Head(toServer), conn |-> conn] \in Posted
    BY <2>3, <2>4, RecordFacts
  <2>6. serverq' \in Seq(Posted)
    BY <2>1, <2>5, PutFacts DEF Typed
  <2> QED BY <1>1, <1>2, <1>3, <2>1, <2>4, <2>6 DEF Typed, clientVars, serverVars
<1>11. CASE ServerReceiveMessage
  <2> DEFINE req == Head(serverq).req
  <2>1. /\ serverq # <<>> /\ serverq' = Tail(serverq)
        /\ executed' = executed \/ executed' = executed \cup {req.key}
        /\ toClient' = toClient \/ toClient' = Append(toClient, [id |-> req.id, key |-> req.key])
        /\ UNCHANGED <<conn, clientVars, toServer, handlers, outcome>>
    BY <1>11, Zenon DEF ServerReceiveMessage, connVars, Response
  <2>2. serverq' \in Seq(Posted) /\ Head(serverq) \in Posted
    BY <2>1, TakeFacts DEF Typed
  <2>3. req.id \in Ids /\ req.key \in Calls
    BY <2>2, RecordFacts
  <2>4. [id |-> req.id, key |-> req.key] \in Reply
    BY <2>3, RecordFacts
  <2> HIDE DEF req
  <2>5. toClient' \in Seq(Reply)
    <3>1. toClient \in Seq(Reply)
      BY DEF Typed
    <3>2. Append(toClient, [id |-> req.id, key |-> req.key]) \in Seq(Reply)
      BY ONLY <2>4, <3>1, PutFacts, Zenon
    <3> QED BY ONLY <2>1, <3>1, <3>2, Zenon
  <2>6. executed' \subseteq Calls
    BY <2>1, <2>3 DEF Typed
  <2> QED BY <1>1, <1>2, <1>3, <2>1, <2>2, <2>5, <2>6 DEF Typed, clientVars
<1>12. CASE ConnectionUp
  <2>1. conn' \in 0 .. MaxConns
    BY <1>12 DEF ConnectionUp, Typed
  <2>2. UNCHANGED <<clientVars, wireVars, serverVars, outcome>>
    BY <1>12, Zenon DEF ConnectionUp
  <2> QED BY <1>1, <1>2, <1>3, <2>1, <2>2 DEF Typed, clientVars, wireVars, serverVars
<1>13. CASE ConnectionLost
  <2>1. /\ toClient' = <<>> /\ UNCHANGED <<conn, clientVars, serverq, serverVars, outcome>>
        /\ \E n \in 0 .. Len(toServer) : toServer' = SubSeq(toServer, n + 1, Len(toServer))
    BY <1>13, Zenon DEF ConnectionLost
  <2>2. toServer' \in Seq(Request)
    BY <2>1, DropFacts DEF Typed
  <2>3. toClient' \in Seq(Reply)
    BY <2>1
  <2> QED BY <1>1, <1>2, <1>3, <2>1, <2>2, <2>3 DEF Typed, clientVars, serverVars
<1>14. CASE UNCHANGED vars
  <2>1. UNCHANGED <<conn, clientVars, wireVars, serverVars, outcome>>
    BY <1>14, Zenon DEF vars, connVars
  <2> QED BY <1>1, <1>2, <1>3, <2>1 DEF Typed, clientVars, wireVars, serverVars
<1> QED BY <1>4, <1>5, <1>7, <1>8, <1>9, <1>10, <1>11, <1>12, <1>13, <1>14, Zenon DEF Others, Logic

LEMMA NextSteps == [Next]_vars => Others \/ \E c \in Callers : Caller(c)
BY Zenon DEF Next, Others

LEMMA NextTypeInv == TypeInv /\ [Next]_vars => TypeInv'
BY NextSteps, CallerTypeInv, OthersTypeInv, Zenon

-----------------------------------------------------------------------------
(* What each step does to the elements of the queues. *)

Data == <<cbs, timers, logicq, toServer, serverq, toClient, executed, outcome>>

LEMMA ReadResponseFacts ==
    ASSUME Typed, ReadResponse
    PROVE  /\ UNCHANGED <<cbs, timers, toServer, serverq, executed, outcome>>
           /\ \E x \in Elems(toClient), m \in Event :
                 /\ m.ev = "message" /\ m.id = x.id /\ m.key = x.key
                 /\ Elems(toClient') \subseteq Elems(toClient)
                 /\ logicq' = Append(logicq, m) /\ Elems(logicq') = Elems(logicq) \cup {m}
<1> DEFINE m == [ev |-> "message", id |-> Head(toClient).id, key |-> Head(toClient).key]
<1>1. /\ toClient # <<>> /\ toClient' = Tail(toClient) /\ logicq' = Append(logicq, m)
      /\ UNCHANGED <<cbs, timers, toServer, serverq, executed, outcome>>
  BY Zenon DEF ReadResponse, serverVars
<1>2. toClient \in Seq(Reply) /\ logicq \in Seq(Event)
  BY DEF Typed
<1>3. Elems(toClient') \subseteq Elems(toClient) /\ Head(toClient) \in Elems(toClient) /\ Head(toClient) \in Reply
  BY <1>1, <1>2, TakeFacts
<1>4. m \in Event /\ m.ev = "message" /\ m.id = Head(toClient).id /\ m.key = Head(toClient).key
  BY <1>3, RecordFacts
<1> HIDE DEF m
<1>5. Elems(logicq') = Elems(logicq) \cup {m}
  BY <1>1, <1>2, <1>4, PutFacts
<1> QED BY <1>1, <1>3, <1>4, <1>5

LEMMA TimerExpiresFacts ==
    ASSUME Typed, TimerExpires
    PROVE  /\ UNCHANGED <<cbs, toServer, serverq, toClient, executed, outcome>>
           /\ \E t \in timers, m \in Event :
                 /\ m.ev = "deadline" /\ m.id = t.id /\ m.key = t.key
                 /\ timers' = timers \ {t}
                 /\ logicq' = Append(logicq, m) /\ Elems(logicq') = Elems(logicq) \cup {m}
<1>1. PICK t \in timers : /\ timers' = timers \ {t}
                          /\ logicq' = Append(logicq, [ev |-> "deadline", id |-> t.id, key |-> t.key])
  BY DEF TimerExpires
<1>2. UNCHANGED <<cbs, toServer, serverq, toClient, executed, outcome>>
  BY Zenon DEF TimerExpires, wireVars, serverVars
<1> DEFINE m == [ev |-> "deadline", id |-> t.id, key |-> t.key]
<1>3. m \in Event /\ m.ev = "deadline" /\ m.id = t.id /\ m.key = t.key
  BY RecordFacts DEF Typed
<1>4. logicq' = Append(logicq, m) /\ logicq \in Seq(Event)
  BY <1>1 DEF Typed
<1> HIDE DEF m
<1>5. Elems(logicq') = Elems(logicq) \cup {m}
  BY <1>3, <1>4, PutFacts
<1> QED BY <1>1, <1>2, <1>3, <1>4, <1>5

LEMMA MessageFacts ==
    ASSUME Typed, SessionReceiveMessage
    PROVE  /\ UNCHANGED <<toServer, serverq, toClient, executed>>
           /\ logicq # <<>> /\ logicq' = Tail(logicq) /\ Elems(logicq') \subseteq Elems(logicq)
           /\ Head(logicq) \in Elems(logicq) /\ Head(logicq) \in Event /\ Head(logicq).ev = "message"
           /\ cbs' = cbs \ Find(Head(logicq).id) /\ timers' \subseteq timers
           /\ \/ outcome' = outcome
              \/ \E e \in Find(Head(logicq).id) : Ran(e.key, [what |-> "cb", of |-> Head(logicq).key])
<1>1. /\ UNCHANGED <<toServer, serverq, toClient, executed>>
      /\ logicq # <<>> /\ logicq' = Tail(logicq) /\ Head(logicq).ev = "message"
      /\ cbs' = cbs \ Find(Head(logicq).id) /\ timers' \subseteq timers
      /\ \/ outcome' = outcome
         \/ \E e \in Find(Head(logicq).id) : Ran(e.key, [what |-> "cb", of |-> Head(logicq).key])
  BY Zenon DEF SessionReceiveMessage, wireVars, serverVars
<1>2. Elems(logicq') \subseteq Elems(logicq) /\ Head(logicq) \in Elems(logicq) /\ Head(logicq) \in Event
  BY <1>1, TakeFacts DEF Typed
<1> QED BY <1>1, <1>2, Zenon

LEMMA DeadFacts ==
    ASSUME Typed, RpcDeadCallback
    PROVE  /\ UNCHANGED <<timers, toServer, serverq, toClient, executed>>
           /\ logicq # <<>> /\ logicq' = Tail(logicq) /\ Elems(logicq') \subseteq Elems(logicq)
           /\ Head(logicq) \in Elems(logicq) /\ Head(logicq) \in Event /\ Head(logicq).ev = "deadline"
           /\ cbs' = cbs \ Find(Head(logicq).id)
           /\ Ran(Head(logicq).key, [what |-> "dcb", of |-> Head(logicq).key])
<1>1. /\ UNCHANGED <<timers, toServer, serverq, toClient, executed>>
      /\ logicq # <<>> /\ logicq' = Tail(logicq) /\ Head(logicq).ev = "deadline"
      /\ cbs' = cbs \ Find(Head(logicq).id)
      /\ Ran(Head(logicq).key, [what |-> "dcb", of |-> Head(logicq).key])
  BY Zenon DEF RpcDeadCallback, wireVars, serverVars
<1>2. Elems(logicq') \subseteq Elems(logicq) /\ Head(logicq) \in Elems(logicq) /\ Head(logicq) \in Event
  BY <1>1, TakeFacts DEF Typed
<1> QED BY <1>1, <1>2, Zenon

LEMMA ReadRequestFacts ==
    ASSUME Typed, ReadRequest
    PROVE  /\ UNCHANGED <<cbs, timers, logicq, toClient, executed, outcome>>
           /\ \E r \in Elems(toServer) : \E p : /\ p.req = r /\ Elems(serverq') \subseteq Elems(serverq) \cup {p}
                                                /\ Elems(toServer') \subseteq Elems(toServer)
<1> DEFINE p == [req |-> Head(toServer), conn |-> conn]
<1>1. /\ toServer # <<>> /\ toServer' = Tail(toServer) /\ serverq' = Append(serverq, p)
      /\ UNCHANGED <<cbs, timers, logicq, toClient, executed, outcome>>
  BY Zenon DEF ReadRequest, clientVars, serverVars
<1>2. Elems(toServer') \subseteq Elems(toServer) /\ Head(toServer) \in Elems(toServer)
  BY <1>1, TakeFacts DEF Typed
<1>3. p.req = Head(toServer)
  OBVIOUS
<1> HIDE DEF p
<1>4. serverq \in Seq(Posted \cup {p})
  BY DEF Typed
<1>5. Elems(serverq') = Elems(serverq) \cup {p}
  BY <1>1, <1>4, PutFacts
<1> QED BY <1>1, <1>2, <1>3, <1>5

LEMMA ServerFacts ==
    ASSUME Typed, ServerReceiveMessage
    PROVE  /\ UNCHANGED <<cbs, timers, logicq, toServer, outcome>>
           /\ Elems(serverq') \subseteq Elems(serverq)
           /\ \/ executed' = executed /\ toClient' = toClient
              \/ \E p \in Elems(serverq) : \E x :
                    /\ x.id = p.req.id /\ x.key = p.req.key
                    /\ executed' = executed \cup {p.req.key}
                    /\ Elems(toClient') \subseteq Elems(toClient) \cup {x}
<1> DEFINE p == Head(serverq)
           x == [id |-> p.req.id, key |-> p.req.key]
<1>1. /\ UNCHANGED <<cbs, timers, logicq, toServer, outcome>>
      /\ serverq # <<>> /\ serverq' = Tail(serverq)
      /\ \/ executed' = executed /\ toClient' = toClient
         \/ /\ executed' = executed \cup {p.req.key}
            /\ toClient' = toClient \/ toClient' = Append(toClient, x)
  BY Zenon DEF ServerReceiveMessage, clientVars, Response
<1>2. Elems(serverq') \subseteq Elems(serverq) /\ p \in Elems(serverq)
  BY <1>1, TakeFacts DEF Typed
<1>3. x.id = p.req.id /\ x.key = p.req.key
  OBVIOUS
<1> HIDE DEF x
<1>4. toClient \in Seq(Reply \cup {x})
  BY DEF Typed
<1>5. toClient' = Append(toClient, x) => Elems(toClient') = Elems(toClient) \cup {x}
  BY <1>4, PutFacts
<1> QED BY <1>1, <1>2, <1>3, <1>5

LEMMA LostFacts ==
    ASSUME Typed, ConnectionLost
    PROVE  /\ UNCHANGED <<cbs, timers, logicq, serverq, executed, outcome>>
           /\ Elems(toClient') = {} /\ Elems(toServer') \subseteq Elems(toServer)
<1>1. /\ toClient' = <<>> /\ UNCHANGED <<cbs, timers, logicq, serverq, executed, outcome>>
      /\ \E n \in 0 .. Len(toServer) : toServer' = SubSeq(toServer, n + 1, Len(toServer))
  BY Zenon DEF ConnectionLost, clientVars, serverVars
<1>2. Elems(toServer') \subseteq Elems(toServer)
  BY <1>1, DropFacts DEF Typed
<1> QED BY <1>1, <1>2, NoElems

LEMMA RestFacts == RegRpcHandler \/ ConnectionUp \/ UNCHANGED vars => UNCHANGED Data
BY Zenon DEF RegRpcHandler, ConnectionUp, vars, Data, clientVars, wireVars, serverVars

LEMMA RequestFacts ==
    ASSUME Typed, NEW c \in Callers, WriteRequest(c)
    PROVE  /\ UNCHANGED <<cbs, timers, logicq, serverq, toClient, executed, outcome>>
           /\ \/ \E r : /\ r.id = call[c].id /\ r.key = Key(c) /\ Elems(toServer') \subseteq Elems(toServer) \cup {r}
                        /\ result' = [result EXCEPT ![Key(c)] = "true"]
              \/ /\ toServer' = toServer
                 /\ \E ret \in {"true", "false"} : result' = [result EXCEPT ![Key(c)] = ret]
<1> DEFINE r == [id |-> call[c].id, method |-> call[c].method, key |-> Key(c)]
<1>1. /\ UNCHANGED <<cbs, timers, logicq, serverq, toClient, executed, outcome>>
      /\ \/ toServer' = Append(toServer, r) /\ result' = [result EXCEPT ![Key(c)] = "true"]
         \/ toServer' = toServer /\ \E ret \in {"true", "false"} : result' = [result EXCEPT ![Key(c)] = ret]
  BY Zenon DEF WriteRequest, clientVars, serverVars
<1>2. r.id = call[c].id /\ r.key = Key(c)
  OBVIOUS
<1> HIDE DEF r
<1>3. toServer \in Seq(Request \cup {r})
  BY DEF Typed
<1>4. toServer' = Append(toServer, r) => Elems(toServer') = Elems(toServer) \cup {r}
  BY <1>3, PutFacts
<1> QED BY <1>1, <1>2, <1>4

-----------------------------------------------------------------------------
(* Ids.  Whatever carries an id, in _cbs, armed, queued or on the wire, carries *)
(* it with the call it was given to.                                            *)

Has(i, k) ==
    \/ \E e \in cbs \cup timers : e.id = i /\ e.key = k
    \/ \E x \in Elems(toServer) \cup Elems(toClient) \cup Elems(logicq) : x.id = i /\ x.key = k
    \/ \E p \in Elems(serverq) : p.req.id = i /\ p.req.key = k
    \/ \E c \in Callers : pc[c] = "write" /\ call[c].id = i /\ Key(c) = k

Tagged == \A i \in Ids, k \in Calls : Has(i, k) => i <= methodId /\ k \in Begun

Unique == \A i, j \in Ids, k, l \in Calls : Has(i, k) /\ Has(j, l) => (i = j <=> k = l)

OnePerId == \A e, f \in cbs : e.id = f.id => e = f

TagInv == Tagged /\ Unique /\ OnePerId

LEMMA InitTagInv == Init => TagInv
<1> SUFFICES ASSUME Init PROVE TagInv
  OBVIOUS
<1>1. /\ cbs = {} /\ timers = {} /\ logicq = <<>> /\ toServer = <<>> /\ serverq = <<>> /\ toClient = <<>>
      /\ \A c \in Callers : pc[c] # "write"
  BY DEF Init
<1>2. \A i \in Ids, k \in Calls : ~Has(i, k)
  BY <1>1, NoElems DEF Has
<1> QED BY <1>1, <1>2 DEF TagInv, Tagged, Unique, OnePerId

\* Every step but Register passes on ids that are there.
LEMMA HasOthers == ASSUME Typed, Others, NEW i \in Ids, NEW k \in Calls, Has(i, k)' PROVE Has(i, k)
<1>0. pc' = pc /\ call' = call
  BY OthersFacts DEF callVars
<1>k. \A c \in Callers : Key(c)' = Key(c)
  BY <1>0 DEF Key
<1>1. CASE ReadResponse
  BY <1>0, <1>k, <1>1, ReadResponseFacts DEF Has
<1>2. CASE TimerExpires
  BY <1>0, <1>k, <1>2, TimerExpiresFacts DEF Has
<1>3. CASE SessionReceiveMessage
  BY <1>0, <1>k, <1>3, MessageFacts DEF Has
<1>4. CASE RpcDeadCallback
  BY <1>0, <1>k, <1>4, DeadFacts DEF Has
<1>5. CASE ReadRequest
  BY <1>0, <1>k, <1>5, ReadRequestFacts DEF Has
<1>6. CASE ServerReceiveMessage
  BY <1>0, <1>k, <1>6, ServerFacts DEF Has
<1>7. CASE ConnectionLost
  BY <1>0, <1>k, <1>7, LostFacts DEF Has
<1>8. CASE RegRpcHandler \/ ConnectionUp \/ UNCHANGED vars
  BY <1>0, <1>k, <1>8, RestFacts DEF Has, Data
<1> QED BY <1>1, <1>2, <1>3, <1>4, <1>5, <1>6, <1>7, <1>8, Zenon DEF Others, Logic

LEMMA HasCaller ==
    ASSUME Typed, NEW c \in Callers, CallRpcMethod(c) \/ WriteRequest(c), NEW i \in Ids, NEW k \in Calls, Has(i, k)'
    PROVE  Has(i, k)
<1>1. CASE CallRpcMethod(c)
  <2>1. UNCHANGED <<cbs, timers, logicq, toServer, serverq, toClient>>
    BY <1>1, Zenon DEF CallRpcMethod, clientVars, wireVars
  <2>2. pc'[c] # "write" /\ \A d \in Callers : d # c => pc'[d] = pc[d] /\ call'[d] = call[d]
    BY <1>1, BeginFacts
  <2>3. \A d \in Callers : pc'[d] = "write" => pc[d] = "write" /\ call'[d] = call[d] /\ Key(d)' = Key(d)
    BY <2>2 DEF Key
  <2> QED BY <2>1, <2>3 DEF Has
<1>2. CASE WriteRequest(c)
  <2>1. pc[c] = "write" /\ call' = call /\ \A d \in Callers : pc'[d] = "write" => pc[d] = "write"
    BY <1>2, WriteFacts
  <2>2. \A d \in Callers : Key(d)' = Key(d)
    BY <2>1 DEF Key
  <2> QED BY <1>2, <2>1, <2>2, RequestFacts DEF Has
<1> QED BY <1>1, <1>2

\* Register gives out one id that nobody has, to a call that has none.
LEMMA HasRegister ==
    ASSUME Typed, NEW c \in Callers, Register(c), NEW i \in Ids, NEW k \in Calls, Has(i, k)'
    PROVE  Has(i, k) \/ (i = methodId + 1 /\ k = Key(c))
<1>1. UNCHANGED <<logicq, toServer, serverq, toClient>>
  BY Zenon DEF Register, wireVars
<1>2. PICK e : /\ e = [id |-> methodId + 1, key |-> Key(c), timed |-> HasDeadline(call[c].kind)]
               /\ cbs' \subseteq cbs \cup {e} /\ timers' \subseteq timers \cup {e}
  BY RegisterFacts
<1>3. e.id = methodId + 1 /\ e.key = Key(c)
  BY <1>2
<1>4. /\ call'[c].id = methodId + 1 /\ Key(c)' = Key(c)
      /\ \A d \in Callers : d # c => call'[d] = call[d] /\ pc'[d] = pc[d]
  BY RegisterFacts
<1>5. \A d \in Callers : d # c => Key(d)' = Key(d)
  BY <1>4 DEF Key
<1> QED BY <1>1, <1>2, <1>3, <1>4, <1>5 DEF Has

LEMMA NextTagInv == TypeInv /\ TagInv /\ [Next]_vars => TagInv'
<1> SUFFICES ASSUME TypeInv, TagInv, [Next]_vars PROVE TagInv'
  OBVIOUS
<1>n. methodId \in Nat /\ Ids \subseteq Nat /\ \A e \in cbs : e.id \in Ids /\ e.key \in Calls
  BY CallFacts, RecordFacts DEF TypeInv, Typed
<1>1. ASSUME \A i \in Ids, k \in Calls : Has(i, k)' => Has(i, k), Begun \subseteq Begun', methodId' = methodId
      PROVE  Tagged' /\ Unique'
  <2>1. Tagged'
    BY <1>1 DEF TagInv, Tagged
  <2>2. Unique'
    BY <1>1 DEF TagInv, Unique
  <2> QED BY <2>1, <2>2
<1>2. ASSUME cbs' \subseteq cbs PROVE OnePerId'
  BY <1>2 DEF TagInv, OnePerId
<1>3. CASE Others
  <2>1. Tagged' /\ Unique'
    BY <1>1, <1>3, OthersFacts, HasOthers DEF TypeInv
  <2>2. cbs' \subseteq cbs
    BY <1>3, ReadResponseFacts, TimerExpiresFacts, MessageFacts, DeadFacts, ReadRequestFacts, ServerFacts,
       LostFacts, RestFacts DEF TypeInv, Others, Logic, Data
  <2> QED BY <1>2, <2>1, <2>2 DEF TagInv
<1>4. ASSUME NEW c \in Callers, CallRpcMethod(c) \/ WriteRequest(c) PROVE TagInv'
  <2>1. Begun \subseteq Begun' /\ methodId' = methodId /\ cbs' = cbs
    <3>1. CASE CallRpcMethod(c)
      BY <3>1, BeginFacts DEF TypeInv, CallRpcMethod, clientVars
    <3>2. CASE WriteRequest(c)
      BY <3>2, WriteFacts DEF TypeInv, WriteRequest, clientVars
    <3> QED BY <1>4, <3>1, <3>2
  <2>2. Tagged' /\ Unique'
    BY <1>1, <1>4, <2>1, HasCaller DEF TypeInv
  <2> QED BY <1>2, <2>1, <2>2 DEF TagInv
<1>5. ASSUME NEW c \in Callers, Register(c) PROVE TagInv'
  <2>1. \A i \in Ids, k \in Calls : Has(i, k)' => Has(i, k) \/ (i = methodId + 1 /\ k = Key(c))
    BY <1>5, HasRegister DEF TypeInv
  <2>2. /\ Key(c) \in Calls /\ Key(c) \notin Begun /\ Begun' = Begun \cup {Key(c)} /\ methodId' = methodId + 1
    BY <1>5, RegisterFacts DEF TypeInv
  <2>3. \A i \in Ids, k \in Calls : Has(i, k) => i <= methodId /\ k \in Begun /\ i # methodId + 1 /\ k # Key(c)
    BY <1>n, <2>2 DEF TagInv, Tagged
  <2>4. Tagged'
    BY <1>n, <2>1, <2>2, <2>3 DEF Tagged
  <2>5. Unique'
    <3> SUFFICES ASSUME NEW i \in Ids, NEW j \in Ids, NEW k \in Calls, NEW l \in Calls, Has(i, k)', Has(j, l)'
                 PROVE  i = j <=> k = l
      BY DEF Unique
    <3>1. CASE Has(i, k) /\ Has(j, l)
      BY <3>1 DEF TagInv, Unique
    <3>2. CASE ~Has(i, k) \/ ~Has(j, l)
      BY <2>1, <2>3, <3>2
    <3> QED BY <3>1, <3>2
  <2>6. PICK e : /\ e = [id |-> methodId + 1, key |-> Key(c), timed |-> HasDeadline(call[c].kind)]
                 /\ cbs' \subseteq cbs \cup {e}
    BY <1>5, RegisterFacts DEF TypeInv
  <2>7. e.id = methodId + 1
    BY <2>6
  <2>8. \A f \in cbs : Has(f.id, f.key)
    BY DEF Has
  <2>9. \A f \in cbs : f.id # e.id
    BY <1>n, <2>3, <2>7, <2>8
  <2>10. OnePerId'
    BY <2>6, <2>9 DEF TagInv, OnePerId
  <2> QED BY <2>4, <2>5, <2>10 DEF TagInv
<1> QED BY <1>3, <1>4, <1>5, NextSteps, Zenon DEF Caller

-----------------------------------------------------------------------------
(* Requests on their way.  A request that was written belongs to a call that *)
(* returned true, and a response to a request that was executed.             *)

Answered(k) ==
    \/ \E x \in Elems(toClient) : x.key = k
    \/ \E m \in Elems(logicq) : m.ev = "message" /\ m.key = k

Sent(k) ==
    \/ \E r \in Elems(toServer) : r.key = k
    \/ \E p \in Elems(serverq) : p.req.key = k
    \/ Answered(k)

Writing == {Key(c) : c \in {d \in Callers : pc[d] = "write"}}

Returned == \A k \in Calls : result[k] # "none" => k \in Begun /\ k \notin Writing

SentTrue == \A k \in Calls : Sent(k) => result[k] = "true"

Executed == \A k \in Calls : Answered(k) => k \in executed

AnswerInv == Returned /\ SentTrue /\ Executed

LEMMA InitAnswerInv == Init => AnswerInv
<1> SUFFICES ASSUME Init PROVE AnswerInv
  OBVIOUS
<1>1. /\ logicq = <<>> /\ toServer = <<>> /\ serverq = <<>> /\ toClient = <<>>
      /\ \A k \in Calls : result[k] = "none"
  BY DEF Init
<1> QED BY <1>1, NoElems DEF AnswerInv, Returned, SentTrue, Executed, Sent, Answered

\* Two callers never have the same key.
LEMMA KeysDiffer == \A c, d \in Callers : Key(c) = Key(d) => c = d
BY DEF Key

\* The answers move on, and only an executed request gets one.
LEMMA OthersAnswerInv == ASSUME TypeInv, AnswerInv, Others PROVE AnswerInv'
<1> USE DEF TypeInv
<1>0. pc' = pc /\ call' = call /\ result' = result /\ Begun' = Begun
  BY OthersFacts DEF callVars
<1>1. Writing' = Writing
  BY <1>0 DEF Writing, Key
<1>2. Returned'
  BY <1>0, <1>1 DEF AnswerInv, Returned
<1>3. ASSUME \A k \in Calls : (Sent(k)' => Sent(k)) /\ (Answered(k)' => Answered(k)), executed \subseteq executed'
      PROVE  AnswerInv'
  BY <1>0, <1>2, <1>3 DEF AnswerInv, SentTrue, Executed
<1>4. CASE ReadResponse
  BY <1>3, <1>4, ReadResponseFacts DEF Sent, Answered
<1>5. CASE TimerExpires
  BY <1>3, <1>5, TimerExpiresFacts DEF Sent, Answered
<1>6. CASE SessionReceiveMessage
  BY <1>3, <1>6, MessageFacts DEF Sent, Answered
<1>7. CASE RpcDeadCallback
  BY <1>3, <1>7, DeadFacts DEF Sent, Answered
<1>8. CASE ReadRequest
  BY <1>3, <1>8, ReadRequestFacts DEF Sent, Answered
<1>9. CASE ServerReceiveMessage
  <2>1. UNCHANGED <<logicq, toServer>> /\ Elems(serverq') \subseteq Elems(serverq)
    BY <1>9, ServerFacts
  <2>2. CASE executed' = executed /\ toClient' = toClient
    BY <1>3, <2>1, <2>2 DEF Sent, Answered
  <2>3. ASSUME NEW p \in Elems(serverq), NEW x, x.key = p.req.key, executed' = executed \cup {p.req.key},
               Elems(toClient') \subseteq Elems(toClient) \cup {x}
        PROVE  AnswerInv'
    <3>1. \A k \in Calls : (Sent(k)' => Sent(k)) /\ (Answered(k)' => Answered(k) \/ k = p.req.key)
      BY <2>1, <2>3 DEF Sent, Answered
    <3>2. SentTrue' /\ Executed'
      BY <1>0, <2>3, <3>1 DEF AnswerInv, SentTrue, Executed
    <3> QED BY <1>2, <3>2 DEF AnswerInv
  <2> QED BY <1>9, <2>2, <2>3, ServerFacts
<1>10. CASE ConnectionLost
  BY <1>3, <1>10, LostFacts DEF Sent, Answered
<1>11. CASE RegRpcHandler \/ ConnectionUp \/ UNCHANGED vars
  BY <1>3, <1>11, RestFacts DEF Sent, Answered, Data
<1> QED BY <1>4, <1>5, <1>6, <1>7, <1>8, <1>9, <1>10, <1>11, Zenon DEF Others, Logic

LEMMA CallerAnswerInv == ASSUME TypeInv, AnswerInv, NEW c \in Callers, Caller(c) PROVE AnswerInv'
<1> USE DEF TypeInv
<1>r. result \in [Calls -> {"none", "true", "false"}]
  BY DEF Typed
<1>1. CASE CallRpcMethod(c)
  <2>1. UNCHANGED <<logicq, toServer, serverq, toClient, executed>>
    BY <1>1, Zenon DEF CallRpcMethod, clientVars, wireVars, serverVars
  <2>2. /\ Key(c)' \in Calls /\ Key(c)' \notin Begun /\ Begun \subseteq Begun'
        /\ pc[c] = "idle" /\ pc'[c] # "write"
        /\ \A d \in Callers : d # c => call'[d] = call[d] /\ pc'[d] = pc[d]
    BY <1>1, BeginFacts
  <2>3. \/ result' = result
        \/ result' = [result EXCEPT ![Key(c)'] = "false"] /\ pc' = pc
    BY <1>1, Zenon DEF CallRpcMethod
  <2>4. Writing' = Writing /\ Key(c)' \notin Writing'
    <3>1. \A d \in Callers : (pc'[d] = "write" <=> pc[d] = "write") /\ (pc[d] = "write" => Key(d)' = Key(d))
      BY <2>2 DEF Key
    <3>2. Writing' = Writing
      BY <3>1 DEF Writing
    <3>3. ASSUME NEW d \in Callers, pc'[d] = "write" PROVE Key(d)' # Key(c)'
      BY <2>2, <3>3 DEF Key
    <3> QED BY <3>2, <3>3 DEF Writing
  <2>5. pc' = pc => Key(c)' \in Begun'
    <3>1. Key(c)' = <<c, call'[c].no>> /\ call'[c].no \in 1 .. MaxCalls
      BY <1>1, BeginFacts DEF Key, CallRec
    <3>2. Key(c)'[1] = c /\ Key(c)'[2] = call'[c].no
      BY <3>1, CallFacts
    <3> QED BY <2>2, <3>2 DEF Begun
  <2>6. \A k \in Calls : result'[k] = result[k] \/ (k = Key(c)' /\ k \in Begun')
    BY <1>r, <2>2, <2>3, <2>5
  <2>7. Returned'
    BY <2>2, <2>4, <2>6 DEF AnswerInv, Returned
  <2>8. \A k \in Calls : result[k] = "true" => result'[k] = "true"
    BY <2>2, <2>6 DEF AnswerInv, Returned
  <2>9. SentTrue' /\ Executed'
    BY <2>1, <2>8 DEF AnswerInv, SentTrue, Executed, Sent, Answered
  <2> QED BY <2>7, <2>9 DEF AnswerInv
<1>2. CASE Register(c)
  <2>1. UNCHANGED <<logicq, result, toServer, serverq, toClient, executed>>
    BY <1>2, Zenon DEF Register, wireVars, serverVars
  <2>2. /\ Key(c) \notin Begun /\ Begun' = Begun \cup {Key(c)} /\ Key(c)' = Key(c)
        /\ \A d \in Callers : d # c => call'[d] = call[d] /\ pc'[d] = pc[d]
    BY <1>2, RegisterFacts
  <2>3. \A d \in Callers : d # c => Key(d)' = Key(d)
    BY <2>2 DEF Key
  <2>4. Writing' \subseteq Writing \cup {Key(c)}
    BY <2>2, <2>3 DEF Writing
  <2>5. Returned'
    BY <2>1, <2>2, <2>4 DEF AnswerInv, Returned
  <2>6. SentTrue' /\ Executed'
    BY <2>1 DEF AnswerInv, SentTrue, Executed, Sent, Answered
  <2> QED BY <2>5, <2>6 DEF AnswerInv
<1>3. CASE WriteRequest(c)
  <2>1. /\ pc[c] = "write" /\ pc'[c] = "idle" /\ call' = call /\ Key(c) \in Calls /\ Begun' = Begun
        /\ \A d \in Callers : d # c => pc'[d] = pc[d]
    BY <1>3, WriteFacts
  <2>2. \A d \in Callers : Key(d)' = Key(d)
    BY <2>1 DEF Key
  <2>3. Key(c) \in Writing /\ Writing' \subseteq Writing /\ Key(c) \notin Writing'
    BY <2>1, <2>2, KeysDiffer DEF Writing
  <2>4. result[Key(c)] = "none"
    BY <2>1, <2>3 DEF AnswerInv, Returned
  <2>5. Key(c) \in Begun
    <3>1. Key(c)[1] = c /\ Key(c)[2] = call[c].no
      BY <2>1, KeyFacts
    <3> QED BY <2>1, <3>1 DEF Begun
  <2>6. UNCHANGED <<logicq, serverq, toClient, executed>>
    BY <1>3, RequestFacts
  <2>7. \A k \in Calls : k # Key(c) => result'[k] = result[k]
    BY <1>3, <1>r, <2>1, RequestFacts
  <2>8. Returned'
    BY <2>1, <2>3, <2>5, <2>7 DEF AnswerInv, Returned
  <2>9. Executed'
    BY <2>6 DEF AnswerInv, Executed, Answered
  <2>10. ~Sent(Key(c))
    BY <2>1, <2>4 DEF AnswerInv, SentTrue
  <2>11. \A k \in Calls : Sent(k)' => (k # Key(c) /\ Sent(k)) \/ (k = Key(c) /\ result'[k] = "true")
    <3>1. CASE toServer' = toServer
      BY <2>6, <2>10, <3>1 DEF Sent, Answered
    <3>2. ASSUME NEW r, r.key = Key(c), Elems(toServer') \subseteq Elems(toServer) \cup {r},
                 result' = [result EXCEPT ![Key(c)] = "true"]
          PROVE  \A k \in Calls : Sent(k)' => (k # Key(c) /\ Sent(k)) \/ (k = Key(c) /\ result'[k] = "true")
      <4>1. result'[Key(c)] = "true"
        BY <1>r, <2>1, <3>2
      <4>2. \A k \in Calls : Sent(k)' => Sent(k) \/ k = Key(c)
        BY <2>6, <3>2 DEF Sent, Answered
      <4> QED BY <4>1, <4>2
    <3> QED BY <1>3, <3>1, <3>2, RequestFacts
  <2>12. SentTrue'
    BY <2>7, <2>11 DEF AnswerInv, SentTrue
  <2> QED BY <2>8, <2>9, <2>12 DEF AnswerInv
<1> QED BY <1>1, <1>2, <1>3, Zenon DEF Caller

LEMMA NextAnswerInv == TypeInv /\ AnswerInv /\ [Next]_vars => AnswerInv'
BY NextSteps, CallerAnswerInv, OthersAnswerInv, Zenon

-----------------------------------------------------------------------------
(* Callbacks that ran.  Whatever ran for a call has taken its callback out of *)
(* _cbs, and a call that has begun never gets there again.                    *)

Waits(k) == \E e \in cbs : e.key = k

Over == \A k \in Calls : outcome[k] # <<>> => k \in Begun /\ ~Waits(k)

Matched ==
    \A k \in Calls : \A i \in 1 .. Len(outcome[k]) :
       outcome[k][i].what = "cb" => outcome[k][i].of = k /\ k \in executed /\ result[k] = "true"

Once ==
    \A k \in Calls : \A i, j \in 1 .. Len(outcome[k]) :
       outcome[k][i].what = "cb" /\ outcome[k][j].what = "cb" => i = j

RunInv == Over /\ Matched /\ Once

LEMMA InitRunInv == Init => RunInv
<1> SUFFICES ASSUME Init PROVE RunInv
  OBVIOUS
<1>1. \A k \in Calls : outcome[k] = <<>>
  BY DEF Init
<1> QED BY <1>1 DEF RunInv, Over, Matched, Once

\* What a call has achieved it keeps.
LEMMA Stable ==
    ASSUME TypeInv, AnswerInv, [Next]_vars
    PROVE  /\ Begun \subseteq Begun' /\ executed \subseteq executed'
           /\ \A k \in Calls : result[k] = "true" => result'[k] = "true"
<1> USE DEF TypeInv
<1>r. result \in [Calls -> {"none", "true", "false"}]
  BY DEF Typed
<1>1. CASE Others
  <2>1. Begun' = Begun /\ result' = result
    BY <1>1, OthersFacts DEF callVars
  <2>2. executed \subseteq executed'
    BY <1>1, ReadResponseFacts, TimerExpiresFacts, MessageFacts, DeadFacts, ReadRequestFacts, ServerFacts,
       LostFacts, RestFacts DEF Others, Logic, Data
  <2> QED BY <2>1, <2>2
<1>2. ASSUME NEW c \in Callers, CallRpcMethod(c)
      PROVE  /\ Begun \subseteq Begun' /\ executed \subseteq executed'
             /\ \A k \in Calls : result[k] = "true" => result'[k] = "true"
  <2>1. executed' = executed /\ (result' = result \/ result' = [result EXCEPT ![Key(c)'] = "false"])
    BY <1>2, Zenon DEF CallRpcMethod, serverVars
  <2>2. Key(c)' \in Calls /\ Key(c)' \notin Begun /\ Begun \subseteq Begun'
    BY <1>2, BeginFacts
  <2>3. \A k \in Calls : result[k] = "true" => k \in Begun
    BY DEF AnswerInv, Returned
  <2> QED BY <1>r, <2>1, <2>2, <2>3
<1>3. ASSUME NEW c \in Callers, Register(c)
      PROVE  /\ Begun \subseteq Begun' /\ executed \subseteq executed'
             /\ \A k \in Calls : result[k] = "true" => result'[k] = "true"
  <2>1. UNCHANGED <<executed, result>>
    BY <1>3, Zenon DEF Register, serverVars
  <2> QED BY <1>3, <2>1, RegisterFacts
<1>4. ASSUME NEW c \in Callers, WriteRequest(c)
      PROVE  /\ Begun \subseteq Begun' /\ executed \subseteq executed'
             /\ \A k \in Calls : result[k] = "true" => result'[k] = "true"
  <2>1. pc[c] = "write" /\ Key(c) \in Calls /\ Begun' = Begun
    BY <1>4, WriteFacts
  <2>2. result[Key(c)] = "none"
    BY <2>1 DEF AnswerInv, Returned, Writing
  <2> QED BY <1>4, <1>r, <2>1, <2>2, RequestFacts
<1> QED BY <1>1, <1>2, <1>3, <1>4, NextSteps, Zenon DEF Caller

\* One more entry in the record of one call.
LEMMA RanFacts ==
    ASSUME Typed, NEW k \in Calls, NEW what \in {"cb", "dcb"}, NEW of \in Calls, Ran(k, [what |-> what, of |-> of])
    PROVE  /\ \A l \in Calls : l # k => outcome'[l] = outcome[l]
           /\ Len(outcome[k]) \in Nat /\ Len(outcome'[k]) = Len(outcome[k]) + 1 /\ outcome'[k] # <<>>
           /\ outcome'[k][Len(outcome[k]) + 1].what = what /\ outcome'[k][Len(outcome[k]) + 1].of = of
           /\ \A i \in 1 .. Len(outcome[k]) : outcome'[k][i] = outcome[k][i]
           /\ outcome[k] = <<>> => Len(outcome[k]) = 0
<1> DEFINE w == [what |-> what, of |-> of]
<1>1. w \in [what : {"cb", "dcb"}, of : Calls] /\ w.what = what /\ w.of = of
  OBVIOUS
<1>2. /\ outcome \in [Calls -> Seq([what : {"cb", "dcb"}, of : Calls])]
      /\ outcome[k] \in Seq([what : {"cb", "dcb"}, of : Calls])
  BY DEF Typed
<1>3. outcome' = [outcome EXCEPT ![k] = Append(outcome[k], w)]
  BY DEF Ran
<1> HIDE DEF w
<1>4. outcome'[k] = Append(outcome[k], w) /\ \A l \in Calls : l # k => outcome'[l] = outcome[l]
  BY <1>2, <1>3
<1> DEFINE S == [what : {"cb", "dcb"}, of : Calls]
<1>a. outcome[k] \in Seq(S) /\ w \in S
  BY <1>1, <1>2
<1> HIDE DEF S
<1>b. /\ Len(outcome[k]) \in Nat /\ Len(Append(outcome[k], w)) = Len(outcome[k]) + 1
      /\ Append(outcome[k], w)[Len(outcome[k]) + 1] = w
      /\ \A i \in 1 .. Len(outcome[k]) : Append(outcome[k], w)[i] = outcome[k][i]
  BY ONLY <1>a, PutFacts
<1>5. /\ Len(outcome[k]) \in Nat /\ Len(outcome'[k]) = Len(outcome[k]) + 1
      /\ outcome'[k][Len(outcome[k]) + 1] = w
      /\ \A i \in 1 .. Len(outcome[k]) : outcome'[k][i] = outcome[k][i]
  BY ONLY <1>4, <1>b
<1>6. outcome'[k] # <<>>
  BY <1>5
<1> QED BY <1>1, <1>4, <1>5, <1>6

\* Taking out what waits under an id takes out all that waits for its call.
LEMMA FindFacts ==
    ASSUME Typed, TagInv, NEW i \in Ids, NEW k \in Calls, Has(i, k), cbs' = cbs \ Find(i)
    PROVE  /\ ~Waits(k)' /\ \A e \in Find(i) : e \in cbs /\ e.key = k
           /\ \A l \in Calls : Waits(l)' => Waits(l)
<1>1. \A e \in cbs : e.id \in Ids /\ e.key \in Calls /\ Has(e.id, e.key)
  BY RecordFacts DEF Typed, Has
<1>2. \A e \in cbs : e.id = i <=> e.key = k
  BY <1>1 DEF TagInv, Unique
<1> QED BY <1>2 DEF Find, Waits

LEMMA NextRunInv == TypeInv /\ TagInv /\ AnswerInv /\ RunInv /\ [Next]_vars => RunInv'
<1> SUFFICES ASSUME TypeInv, TagInv, AnswerInv, RunInv, [Next]_vars PROVE RunInv'
  OBVIOUS
<1> USE DEF TypeInv
<1>s. /\ Begun \subseteq Begun' /\ executed \subseteq executed'
      /\ \A k \in Calls : result[k] = "true" => result'[k] = "true"
  BY Stable
<1>1. ASSUME outcome' = outcome, \A k \in Calls : Waits(k)' => Waits(k) \/ k \notin Begun PROVE RunInv'
  BY <1>1, <1>s DEF RunInv, Over, Matched, Once
<1>2. CASE SessionReceiveMessage
  <2>1. /\ Head(logicq) \in Elems(logicq) /\ Head(logicq) \in Event /\ Head(logicq).ev = "message"
        /\ cbs' = cbs \ Find(Head(logicq).id)
        /\ \/ outcome' = outcome
           \/ \E e \in Find(Head(logicq).id) : Ran(e.key, [what |-> "cb", of |-> Head(logicq).key])
    BY <1>2, MessageFacts
  <2>2. PICK i \in Ids, k \in Calls : i = Head(logicq).id /\ k = Head(logicq).key
    BY <2>1, RecordFacts
  <2>3. Has(i, k) /\ Answered(k) /\ Sent(k)
    BY <2>1, <2>2 DEF Has, Answered, Sent
  <2>4. /\ ~Waits(k)' /\ \A e \in Find(i) : e \in cbs /\ e.key = k
        /\ \A l \in Calls : Waits(l)' => Waits(l)
    BY <2>1, <2>2, <2>3, FindFacts
  <2>5. CASE outcome' = outcome
    BY <1>1, <2>4, <2>5
  <2>6. CASE \E e \in Find(i) : Ran(e.key, [what |-> "cb", of |-> k])
    <3>1. PICK e \in Find(i) : Ran(e.key, [what |-> "cb", of |-> k])
      BY <2>6
    <3>2. e.key = k /\ Waits(k)
      BY <2>4 DEF Waits
    <3>3. outcome[k] = <<>>
      BY <3>2 DEF RunInv, Over
    <3>4. Ran(k, [what |-> "cb", of |-> k])
      BY <3>1, <3>2
    <3>5. /\ \A l \in Calls : l # k => outcome'[l] = outcome[l]
          /\ Len(outcome'[k]) = Len(outcome[k]) + 1 /\ outcome'[k][Len(outcome[k]) + 1].of = k /\ Len(outcome[k]) = 0
      BY <3>3, <3>4, RanFacts
    <3>6. k \in Begun /\ k \in executed /\ result[k] = "true"
      BY <2>3 DEF TagInv, Tagged, AnswerInv, SentTrue, Executed
    <3>7. Over'
      BY <1>s, <2>4, <3>5, <3>6 DEF RunInv, Over
    <3>8. Matched'
      BY <1>s, <3>5, <3>6 DEF RunInv, Matched
    <3>9. Once'
      BY <3>5 DEF RunInv, Once
    <3> QED BY <3>7, <3>8, <3>9 DEF RunInv
  <2> QED BY <2>1, <2>2, <2>5, <2>6
<1>3. CASE RpcDeadCallback
  <2>1. /\ Head(logicq) \in Elems(logicq) /\ Head(logicq) \in Event /\ cbs' = cbs \ Find(Head(logicq).id)
        /\ Ran(Head(logicq).key, [what |-> "dcb", of |-> Head(logicq).key])
    BY <1>3, DeadFacts
  <2>2. PICK i \in Ids, k \in Calls : i = Head(logicq).id /\ k = Head(logicq).key
    BY <2>1, RecordFacts
  <2>3. Has(i, k) /\ Ran(k, [what |-> "dcb", of |-> k])
    BY <2>1, <2>2 DEF Has
  <2>4. ~Waits(k)' /\ \A l \in Calls : Waits(l)' => Waits(l)
    BY <2>1, <2>2, <2>3, FindFacts
  <2> DEFINE n == Len(outcome[k])
  <2>5. /\ \A l \in Calls : l # k => outcome'[l] = outcome[l]
        /\ n \in Nat /\ Len(outcome'[k]) = n + 1 /\ outcome'[k][n + 1].what = "dcb"
        /\ \A j \in 1 .. n : outcome'[k][j] = outcome[k][j]
    BY <2>3, RanFacts
  <2>6. k \in Begun
    BY <2>3 DEF TagInv, Tagged
  <2>7. Over'
    BY <1>s, <2>4, <2>5, <2>6 DEF RunInv, Over
  <2>8. \A l \in Calls : \A j \in 1 .. Len(outcome'[l]) :
           outcome'[l][j].what = "cb" => j \in 1 .. Len(outcome[l]) /\ outcome'[l][j] = outcome[l][j]
    <3> SUFFICES ASSUME NEW l \in Calls, NEW j \in 1 .. Len(outcome'[l]), outcome'[l][j].what = "cb"
                 PROVE  j \in 1 .. Len(outcome[l]) /\ outcome'[l][j] = outcome[l][j]
      OBVIOUS
    <3>1. CASE l # k
      BY <2>5, <3>1
    <3>2. CASE l = k
      <4>1. j \in 1 .. n + 1 /\ j # n + 1
        BY <2>5, <3>2
      <4>2. j \in 1 .. n
        BY <2>5, <4>1
      <4> QED BY <2>5, <3>2, <4>2
    <3> QED BY <3>1, <3>2
  <2>9. Matched' /\ Once'
    BY <1>s, <2>8 DEF RunInv, Matched, Once
  <2> QED BY <2>7, <2>9 DEF RunInv
<1>4. CASE Others /\ ~Logic
  <2>1. UNCHANGED <<outcome, cbs>>
    BY <1>4, ReadResponseFacts, TimerExpiresFacts, ReadRequestFacts, ServerFacts, LostFacts, RestFacts
       DEF Others, Data
  <2> QED BY <1>1, <2>1 DEF Waits
<1>5. ASSUME NEW c \in Callers, CallRpcMethod(c) \/ WriteRequest(c) PROVE RunInv'
  <2>1. UNCHANGED <<outcome, cbs>>
    BY <1>5, Zenon DEF CallRpcMethod, WriteRequest, clientVars
  <2> QED BY <1>1, <2>1 DEF Waits
<1>6. ASSUME NEW c \in Callers, Register(c) PROVE RunInv'
  <2>1. outcome' = outcome
    BY <1>6, Zenon DEF Register
  <2>2. PICK e : /\ e = [id |-> methodId + 1, key |-> Key(c), timed |-> HasDeadline(call[c].kind)]
                 /\ cbs' \subseteq cbs \cup {e}
    BY <1>6, RegisterFacts
  <2>3. e.key = Key(c) /\ Key(c) \notin Begun
    BY <1>6, <2>2, RegisterFacts
  <2> QED BY <1>1, <2>1, <2>2, <2>3 DEF Waits
<1> QED BY <1>2, <1>3, <1>4, <1>5, <1>6, NextSteps, Zenon DEF Caller, Logic

-----------------------------------------------------------------------------
(* Deadlines.  A deadline is armed, or due in the queue of the logic thread, *)
(* or has run; never two of these.                                           *)

TimedOut(k) == \E i \in 1 .. Len(outcome[k]) : outcome[k][i].what = "dcb"

Due == {i \in 1 .. Len(logicq) : logicq[i].ev = "deadline"}

Armed == \A t, u \in timers : t.key = u.key => t = u

ArmedOrDue == \A t \in timers : \A i \in Due : t.key # logicq[i].key

DueOnce == \A i, j \in Due : logicq[i].key = logicq[j].key => i = j

RunOnce == \A k \in Calls : TimedOut(k) => (\A t \in timers : t.key # k) /\ (\A i \in Due : logicq[i].key # k)

DueInv == Armed /\ ArmedOrDue /\ DueOnce /\ RunOnce

LEMMA InitDueInv == Init => DueInv
<1> SUFFICES ASSUME Init PROVE DueInv
  OBVIOUS
<1>1. timers = {} /\ logicq = <<>> /\ \A k \in Calls : outcome[k] = <<>>
  BY DEF Init
<1> QED BY <1>1 DEF DueInv, Armed, ArmedOrDue, DueOnce, RunOnce, Due, TimedOut

\* The first event of the logic thread is taken.
LEMMA TakeDue ==
    ASSUME Typed, logicq # <<>>, logicq' = Tail(logicq)
    PROVE  /\ \A i \in Due' : i + 1 \in Due /\ i + 1 # 1 /\ logicq'[i] = logicq[i + 1]
           /\ Due \subseteq Nat /\ Due' \subseteq Nat
           /\ Head(logicq).ev = "deadline" => 1 \in Due /\ logicq[1] = Head(logicq)
<1>1. /\ Len(logicq) \in Nat \ {0} /\ Len(logicq') = Len(logicq) - 1 /\ Head(logicq) = logicq[1]
      /\ \A i \in 1 .. Len(logicq) - 1 : logicq'[i] = logicq[i + 1]
  BY TakeFacts DEF Typed
<1>2. ASSUME NEW i \in Due' PROVE i + 1 \in Due /\ i + 1 # 1 /\ logicq'[i] = logicq[i + 1]
  <2>1. i \in 1 .. Len(logicq) - 1 /\ logicq'[i].ev = "deadline"
    BY <1>1, <1>2 DEF Due
  <2>2. logicq'[i] = logicq[i + 1] /\ i + 1 \in 1 .. Len(logicq) /\ i + 1 # 1
    BY <1>1, <2>1
  <2> QED BY <2>1, <2>2 DEF Due
<1>3. Head(logicq).ev = "deadline" => 1 \in Due
  BY <1>1 DEF Due
<1> QED BY <1>1, <1>2, <1>3 DEF Due

\* An event is added behind the others.
LEMMA PutDue ==
    ASSUME Typed, NEW m \in Event, logicq' = Append(logicq, m)
    PROVE  /\ \A i \in Due' : \/ i \in Due /\ logicq'[i] = logicq[i]
                              \/ i = Len(logicq) + 1 /\ logicq'[i] = m /\ m.ev = "deadline"
           /\ Due \subseteq 1 .. Len(logicq) /\ Len(logicq) \in Nat
<1>1. /\ Len(logicq) \in Nat /\ Len(logicq') = Len(logicq) + 1 /\ logicq'[Len(logicq) + 1] = m
      /\ \A i \in 1 .. Len(logicq) : logicq'[i] = logicq[i]
  BY PutFacts DEF Typed
<1>2. ASSUME NEW i \in Due'
      PROVE  \/ i \in Due /\ logicq'[i] = logicq[i]
             \/ i = Len(logicq) + 1 /\ logicq'[i] = m /\ m.ev = "deadline"
  <2>1. i \in 1 .. Len(logicq) + 1 /\ logicq'[i].ev = "deadline"
    BY <1>1, <1>2 DEF Due
  <2>2. CASE i = Len(logicq) + 1
    BY <1>1, <2>1, <2>2
  <2>3. CASE i # Len(logicq) + 1
    <3>1. i \in 1 .. Len(logicq)
      BY <1>1, <2>1, <2>3
    <3> QED BY <1>1, <2>1, <3>1 DEF Due
  <2> QED BY <2>2, <2>3
<1> QED BY <1>1, <1>2 DEF Due

LEMMA NextDueInv == TypeInv /\ TagInv /\ RunInv /\ DueInv /\ [Next]_vars => DueInv'
<1> SUFFICES ASSUME TypeInv, TagInv, RunInv, DueInv, [Next]_vars PROVE DueInv'
  OBVIOUS
<1> USE DEF TypeInv
<1>k. /\ \A t \in timers : t.key \in Calls /\ t.key \in Begun
      /\ \A i \in Due : logicq[i] \in Event /\ logicq[i].key \in Calls /\ logicq[i].key \in Begun
      /\ \A k \in Calls : TimedOut(k) => k \in Begun
  <2>1. \A t \in timers : t.id \in Ids /\ t.key \in Calls /\ Has(t.id, t.key)
    BY RecordFacts DEF Typed, Has
  <2>2. \A i \in Due : logicq[i] \in Event /\ logicq[i] \in Elems(logicq)
    BY DEF Typed, Due, Elems
  <2>3. \A i \in Due : logicq[i].id \in Ids /\ logicq[i].key \in Calls /\ Has(logicq[i].id, logicq[i].key)
    BY <2>2, RecordFacts DEF Has
  <2>4. \A k \in Calls : TimedOut(k) => outcome[k] # <<>>
    BY DEF TimedOut
  <2> QED BY <2>1, <2>2, <2>3, <2>4 DEF TagInv, Tagged, RunInv, Over
<1>1. ASSUME UNCHANGED <<timers, logicq, outcome>> PROVE DueInv'
  BY <1>1 DEF DueInv, Armed, ArmedOrDue, DueOnce, RunOnce, Due, TimedOut
<1>2. CASE SessionReceiveMessage
  <2>1. /\ logicq # <<>> /\ logicq' = Tail(logicq) /\ timers' \subseteq timers
        /\ Head(logicq) \in Event
        /\ outcome' = outcome \/ \E e \in cbs : Ran(e.key, [what |-> "cb", of |-> Head(logicq).key])
    BY <1>2, MessageFacts DEF Find
  <2>2. /\ \A i \in Due' : i + 1 \in Due /\ logicq'[i] = logicq[i + 1]
        /\ Due \subseteq Nat /\ Due' \subseteq Nat
    BY <2>1, TakeDue
  <2>3. \A k \in Calls : TimedOut(k)' => TimedOut(k)
    <3>1. CASE outcome' = outcome
      BY <3>1 DEF TimedOut
    <3>2. CASE \E e \in cbs : Ran(e.key, [what |-> "cb", of |-> Head(logicq).key])
      <4>1. PICK e \in cbs : Ran(e.key, [what |-> "cb", of |-> Head(logicq).key])
        BY <3>2
      <4>2. PICK l \in Calls, of \in Calls : l = e.key /\ of = Head(logicq).key
        BY <2>1, RecordFacts DEF Typed
      <4> DEFINE n == Len(outcome[l])
      <4>3. /\ \A k \in Calls : k # l => outcome'[k] = outcome[k]
            /\ n \in Nat /\ Len(outcome'[l]) = n + 1 /\ outcome'[l][n + 1].what = "cb"
            /\ \A i \in 1 .. n : outcome'[l][i] = outcome[l][i]
        BY <4>1, <4>2, RanFacts
      <4> SUFFICES ASSUME NEW k \in Calls, TimedOut(k)' PROVE TimedOut(k)
        OBVIOUS
      <4>4. PICK i \in 1 .. Len(outcome'[k]) : outcome'[k][i].what = "dcb"
        BY DEF TimedOut
      <4>5. CASE k # l
        BY <4>3, <4>4, <4>5 DEF TimedOut
      <4>6. CASE k = l
        <5>1. i \in 1 .. n + 1 /\ i # n + 1
          BY <4>3, <4>4, <4>6
        <5>2. i \in 1 .. n
          BY <4>3, <5>1
        <5> QED BY <4>3, <4>4, <4>6, <5>2 DEF TimedOut
      <4> QED BY <4>5, <4>6
    <3> QED BY <2>1, <3>1, <3>2
  <2>4. Armed'
    BY <2>1 DEF DueInv, Armed
  <2>5. ArmedOrDue'
    <3> SUFFICES ASSUME NEW t \in timers', NEW i \in Due' PROVE t.key # logicq'[i].key
      BY DEF ArmedOrDue
    <3>1. t \in timers /\ i + 1 \in Due /\ logicq'[i] = logicq[i + 1]
      BY <2>1, <2>2
    <3>2. t.key # logicq[i + 1].key
      BY <3>1 DEF DueInv, ArmedOrDue
    <3> QED BY <3>1, <3>2
  <2>6. RunOnce'
    BY <2>1, <2>2, <2>3 DEF DueInv, RunOnce
  <2>7. DueOnce'
    BY <2>2 DEF DueInv, DueOnce
  <2> QED BY <2>4, <2>5, <2>6, <2>7 DEF DueInv
<1>3. CASE RpcDeadCallback
  <2>1. /\ logicq # <<>> /\ logicq' = Tail(logicq) /\ timers' = timers
        /\ Head(logicq) \in Event /\ Head(logicq).ev = "deadline"
        /\ Ran(Head(logicq).key, [what |-> "dcb", of |-> Head(logicq).key])
    BY <1>3, DeadFacts
  <2>2. PICK l \in Calls : l = Head(logicq).key
    BY <2>1, RecordFacts
  <2>3. /\ \A i \in Due' : i + 1 \in Due /\ i + 1 # 1 /\ logicq'[i] = logicq[i + 1]
        /\ Due \subseteq Nat /\ Due' \subseteq Nat /\ 1 \in Due /\ logicq[1].key = l
    BY <2>1, <2>2, TakeDue
  <2>4. \A k \in Calls : k # l => outcome'[k] = outcome[k]
    BY <2>1, <2>2, RanFacts
  <2>5. \A k \in Calls : TimedOut(k)' => TimedOut(k) \/ k = l
    BY <2>4 DEF TimedOut
  <2>6. (\A t \in timers' : t.key # l) /\ (\A i \in Due' : logicq'[i].key # l)
    <3>1. \A t \in timers' : t.key # l
      BY <2>1, <2>3 DEF DueInv, ArmedOrDue
    <3>2. ASSUME NEW i \in Due' PROVE logicq'[i].key # l
      BY <2>3, <3>2 DEF DueInv, DueOnce
    <3> QED BY <3>1, <3>2
  <2>7. RunOnce'
    BY <2>1, <2>3, <2>5, <2>6 DEF DueInv, RunOnce
  <2>8. Armed'
    BY <2>1 DEF DueInv, Armed
  <2>9. ArmedOrDue'
    <3> SUFFICES ASSUME NEW t \in timers', NEW i \in Due' PROVE t.key # logicq'[i].key
      BY DEF ArmedOrDue
    <3>1. t \in timers /\ i + 1 \in Due /\ logicq'[i] = logicq[i + 1]
      BY <2>1, <2>3
    <3>2. t.key # logicq[i + 1].key
      BY <3>1 DEF DueInv, ArmedOrDue
    <3> QED BY <3>1, <3>2
  <2>10. DueOnce'
    <3> SUFFICES ASSUME NEW i \in Due', NEW j \in Due', logicq'[i].key = logicq'[j].key PROVE i = j
      BY DEF DueOnce
    <3>1. i + 1 \in Due /\ j + 1 \in Due /\ logicq[i + 1].key = logicq[j + 1].key /\ i \in Nat /\ j \in Nat
      BY <2>3
    <3>2. i + 1 = j + 1
      BY <3>1 DEF DueInv, DueOnce
    <3> QED BY <3>1, <3>2
  <2> QED BY <2>7, <2>8, <2>9, <2>10 DEF DueInv
<1>4. CASE ReadResponse
  <2>1. PICK m \in Event : m.ev = "message" /\ logicq' = Append(logicq, m)
    BY <1>4, ReadResponseFacts
  <2>2. UNCHANGED <<timers, outcome>>
    BY <1>4, ReadResponseFacts
  <2>3. \A i \in Due' : i \in Due /\ logicq'[i] = logicq[i]
    BY <2>1, PutDue
  <2> QED BY <2>2, <2>3 DEF DueInv, Armed, ArmedOrDue, DueOnce, RunOnce, TimedOut
<1>5. CASE TimerExpires
  <2>1. PICK t \in timers, m \in Event : /\ m.ev = "deadline" /\ m.key = t.key /\ timers' = timers \ {t}
                                         /\ logicq' = Append(logicq, m)
    BY <1>5, TimerExpiresFacts
  <2>2. outcome' = outcome
    BY <1>5, TimerExpiresFacts
  <2>3. /\ \A i \in Due' : \/ i \in Due /\ logicq'[i] = logicq[i]
                           \/ i = Len(logicq) + 1 /\ logicq'[i] = m
    BY <2>1, PutDue
  <2>4. Armed' /\ ArmedOrDue'
    <3>1. Armed'
      BY <2>1 DEF DueInv, Armed
    <3>2. \A u \in timers' : u \in timers /\ u.key # t.key
      BY <2>1 DEF DueInv, Armed
    <3>3. ASSUME NEW u \in timers', NEW i \in Due' PROVE u.key # logicq'[i].key
      <4>1. CASE i \in Due /\ logicq'[i] = logicq[i]
        BY <3>2, <3>3, <4>1 DEF DueInv, ArmedOrDue
      <4>2. CASE logicq'[i] = m
        BY <2>1, <3>2, <3>3, <4>2
      <4> QED BY <2>3, <3>3, <4>1, <4>2
    <3> QED BY <3>1, <3>3 DEF ArmedOrDue
  <2>5. DueOnce'
    <3> SUFFICES ASSUME NEW i \in Due', NEW j \in Due', logicq'[i].key = logicq'[j].key PROVE i = j
      BY DEF DueOnce
    <3>1. \A o \in Due : logicq[o].key # m.key
      BY <2>1 DEF DueInv, ArmedOrDue
    <3>2. CASE i \in Due /\ logicq'[i] = logicq[i] /\ j \in Due /\ logicq'[j] = logicq[j]
      BY <3>2 DEF DueInv, DueOnce
    <3> QED BY <2>3, <3>1, <3>2
  <2>6. RunOnce'
    BY <2>1, <2>2, <2>3 DEF DueInv, RunOnce, TimedOut
  <2> QED BY <2>4, <2>5, <2>6 DEF DueInv
<1>6. CASE ReadRequest \/ ServerReceiveMessage \/ ConnectionLost \/ RegRpcHandler \/ ConnectionUp \/ UNCHANGED vars
  BY <1>1, <1>6, ReadRequestFacts, ServerFacts, LostFacts, RestFacts DEF Data
<1>7. ASSUME NEW c \in Callers, CallRpcMethod(c) \/ WriteRequest(c) PROVE DueInv'
  BY <1>1, <1>7, Zenon DEF CallRpcMethod, WriteRequest, clientVars
<1>8. ASSUME NEW c \in Callers, Register(c) PROVE DueInv'
  <2>1. logicq' = logicq /\ outcome' = outcome
    BY <1>8, Zenon DEF Register
  <2>2. PICK e : /\ e = [id |-> methodId + 1, key |-> Key(c), timed |-> HasDeadline(call[c].kind)]
                 /\ timers' \subseteq timers \cup {e}
    BY <1>8, RegisterFacts
  <2>3. e.key = Key(c) /\ Key(c) \notin Begun
    BY <1>8, <2>2, RegisterFacts
  <2>4. Due' = Due /\ \A k \in Calls : TimedOut(k)' <=> TimedOut(k)
    BY <2>1 DEF Due, TimedOut
  <2>5. Armed'
    BY <1>k, <2>2, <2>3 DEF DueInv, Armed
  <2>6. ArmedOrDue' /\ DueOnce' /\ RunOnce'
    BY <1>k, <2>1, <2>2, <2>3, <2>4 DEF DueInv, ArmedOrDue, DueOnce, RunOnce
  <2> QED BY <2>5, <2>6 DEF DueInv
<1> QED BY <1>2, <1>3, <1>4, <1>5, <1>6, <1>7, <1>8, NextSteps, Zenon DEF Caller, Others, Logic

-----------------------------------------------------------------------------
RpcInv == TypeInv /\ TagInv /\ AnswerInv /\ RunInv /\ DueInv

LEMMA NextFlags == Flags /\ [Next]_vars => Flags'
<1> SUFFICES ASSUME Flags, [Next]_vars PROVE Flags'
  OBVIOUS
<1>1. CASE UNCHANGED connVars
  BY <1>1, Zenon DEF Flags, connVars
<1>2. CASE ConnectionUp \/ ConnectionLost
  BY <1>2, Zenon DEF Flags, ConnectionUp, ConnectionLost
<1>3. UNCHANGED connVars \/ ConnectionUp \/ ConnectionLost
  BY Zenon DEF Next, Caller, CallRpcMethod, Register, WriteRequest, ReadResponse, TimerExpires, Logic,
     SessionReceiveMessage, RpcDeadCallback, RegRpcHandler, ReadRequest, ServerReceiveMessage, vars
<1> QED BY <1>1, <1>2, <1>3

\* Ids of calls, whatever holds them; requests, responses, callbacks and deadlines
\* of a call, wherever they are: RpcClient on its threads, and the server.
THEOREM Invariance == Spec => [](RpcInv /\ Flags)
<1>1. Init => RpcInv /\ Flags
  BY InitTypeInv, InitTagInv, InitAnswerInv, InitRunInv, InitDueInv DEF RpcInv, Init, Flags
<1>2. RpcInv /\ Flags /\ [Next]_vars => RpcInv' /\ Flags'
  BY NextTypeInv, NextTagInv, NextAnswerInv, NextRunInv, NextDueInv, NextFlags, Zenon DEF RpcInv
<1> QED BY <1>1, <1>2, PTL DEF Spec

\* The ids of RpcClient stay within the number of calls, and _cbs has one entry
\* per id, for any number of threads.
THEOREM TypeCorrect == Spec => []TypeOK
<1>1. RpcInv /\ Flags => TypeOK
  <2> SUFFICES ASSUME RpcInv, Flags PROVE TypeOK
    OBVIOUS
  <2>1. \A e, f \in cbs : e.id = f.id => e = f
    BY DEF RpcInv, TagInv, OnePerId
  <2>2. Typed
    BY DEF RpcInv, TypeInv
  <2> QED BY <2>1, <2>2, Zenon DEF Typed, Flags, TypeOK, Request, Posted, Reply, Event
<1> QED BY <1>1, Invariance, PTL

\* How often something ran for a call.
LEMMA TimesFacts ==
    ASSUME Typed, NEW k \in Calls, NEW what
    PROVE  /\ RanTimes(k, what) \in Nat
           /\ RanTimes(k, what) > 0 => \E i \in 1 .. Len(outcome[k]) : outcome[k][i].what = what
           /\ (\A i, j \in 1 .. Len(outcome[k]) : outcome[k][i].what = what /\ outcome[k][j].what = what => i = j)
                 => RanTimes(k, what) <= 1
<1> DEFINE S == {i \in 1 .. Len(outcome[k]) : outcome[k][i].what = what}
<1>1. RanTimes(k, what) = Cardinality(S)
  BY DEF RanTimes
<1>2. Len(outcome[k]) \in Nat
  BY DEF Typed
<1>3. IsFiniteSet(1 .. Len(outcome[k])) /\ S \in SUBSET (1 .. Len(outcome[k]))
  BY <1>2, FS_Interval
<1>4. IsFiniteSet(S) /\ Cardinality(S) \in Nat
  BY <1>3, FS_Subset, FS_CardinalityType
<1>s. \A i : i \in S <=> i \in 1 .. Len(outcome[k]) /\ outcome[k][i].what = what
  OBVIOUS
<1> HIDE DEF S
<1>5. Cardinality(S) > 0 => S # {}
  BY FS_EmptySet
<1>6. (\A i, j \in S : i = j) => Cardinality(S) <= 1
  <2>1. CASE S = {}
    BY <2>1, FS_EmptySet
  <2>2. ASSUME NEW i \in S, \A j \in S : i = j PROVE Cardinality(S) <= 1
    <3>1. S = {i}
      BY <2>2
    <3>2. Cardinality({i}) = 1
      BY FS_Singleton
    <3> QED BY <3>1, <3>2
  <2> QED BY <2>1, <2>2
<1> QED BY <1>1, <1>4, <1>5, <1>6, <1>s

\* RpcClient::sessionReceiveMessage: a callback is run at most once, with the
\* response to its own request, which the server executed, and never after
\* callRpcMethod returned false, whatever is lost and however calls interleave.
THEOREM RepliesCorrect == Spec => []ReplyMatchesRequest
<1>1. RpcInv => ReplyMatchesRequest
  <2> SUFFICES ASSUME RpcInv, NEW k \in Calls
               PROVE  /\ RanTimes(k, "cb") <= 1
                      /\ \A i \in 1 .. Len(outcome[k]) :
                            outcome[k][i].what = "cb" => outcome[k][i].of = k /\ k \in executed /\ result[k] # "false"
    BY DEF ReplyMatchesRequest
  <2>1. RanTimes(k, "cb") <= 1
    BY TimesFacts DEF RpcInv, TypeInv, RunInv, Once
  <2> QED BY <2>1 DEF RpcInv, RunInv, Matched
<1> QED BY <1>1, Invariance, PTL

\* RpcDeadCallback: once the deadline handler of a call ran, neither a late
\* response nor a second deadline runs anything for that call.
THEOREM TimeoutIsLast == Spec => NoReplyAfterTimeout
<1>1. RpcInv /\ [Next]_vars => [\A k \in Calls : RanTimes(k, "dcb") > 0 => UNCHANGED outcome[k]]_vars
  <2> SUFFICES ASSUME RpcInv, [Next]_vars, NEW k \in Calls, RanTimes(k, "dcb") > 0 PROVE outcome'[k] = outcome[k]
    OBVIOUS
  <2> USE DEF RpcInv, TypeInv
  <2>1. TimedOut(k)
    BY TimesFacts DEF TimedOut
  <2>2. ~Waits(k)
    BY <2>1 DEF RunInv, Over, TimedOut
  <2>3. CASE SessionReceiveMessage
    <3>1. /\ Head(logicq) \in Event
          /\ \/ outcome' = outcome
             \/ \E e \in Find(Head(logicq).id) : Ran(e.key, [what |-> "cb", of |-> Head(logicq).key])
      BY <2>3, MessageFacts
    <3>2. ASSUME NEW e \in Find(Head(logicq).id), Ran(e.key, [what |-> "cb", of |-> Head(logicq).key])
          PROVE  outcome'[k] = outcome[k]
      <4>1. PICK l \in Calls, of \in Calls : l = e.key /\ of = Head(logicq).key
        BY <3>1, RecordFacts DEF Typed, Find
      <4>2. l # k
        BY <2>2, <4>1 DEF Waits, Find
      <4> QED BY <3>2, <4>1, <4>2, RanFacts
    <3> QED BY <3>1, <3>2
  <2>4. CASE RpcDeadCallback
    <3>1. /\ Head(logicq) \in Event /\ Head(logicq).ev = "deadline" /\ logicq # <<>> /\ logicq' = Tail(logicq)
          /\ Ran(Head(logicq).key, [what |-> "dcb", of |-> Head(logicq).key])
      BY <2>4, DeadFacts
    <3>2. 1 \in Due /\ logicq[1] = Head(logicq)
      BY <3>1, TakeDue
    <3>3. PICK l \in Calls : l = Head(logicq).key
      BY <3>1, RecordFacts
    <3>4. l # k
      BY <2>1, <3>2, <3>3 DEF DueInv, RunOnce
    <3> QED BY <3>1, <3>3, <3>4, RanFacts
  <2>5. CASE ~Logic
    <3>1. outcome' = outcome
      BY <2>5, Zenon DEF Next, Caller, CallRpcMethod, Register, WriteRequest, ReadResponse, TimerExpires,
         RegRpcHandler, ReadRequest, ServerReceiveMessage, ConnectionUp, ConnectionLost, vars
    <3> QED BY <3>1
  <2> QED BY <2>3, <2>4, <2>5 DEF Logic
<1> QED BY <1>1, Invariance, PTL DEF Spec, NoReplyAfterTimeout
=============================================================================
