----------------------------- MODULE FrameStream ------------------------------
(***************************************************************************)
(* What the read side of a session promises its NetHandler, with no buffer *)
(* in sight: a stream of bytes arrives, and the frames that its length     *)
(* fields cut it into are handed to sessionReceiveMessage whole, exact and *)
(* in the order of the stream, until the connection is given up.  A        *)
(* restarted session begins a new frame with the bytes of a new connection.*)
(* ReadBuffer implements this specification.                               *)
(***************************************************************************)
EXTENDS Integers

CONSTANTS HeaderLen, Lens

VARIABLES
    received,  \* how many bytes have arrived
    consumed,  \* where the first frame not handed out starts
    frameLen,  \* the length field of that frame
    msg,       \* the last frame handed out
    up         \* the session reads its connection

streamVars == <<received, consumed, frameLen, msg, up>>

Bytes(p, len) == [j \in 0 .. len - 1 |-> p + j]

Init ==
    /\ received = 0
    /\ consumed = 0
    /\ frameLen \in Lens
    /\ msg = [from |-> 0, len |-> 0, bytes |-> Bytes(0, 0)]
    /\ up = TRUE

\* Bytes arrive.
Arrive ==
    /\ up
    /\ received' \in Nat
    /\ received' >= received
    /\ UNCHANGED <<consumed, frameLen, msg, up>>

\* A frame that has arrived whole is handed out.
Deliver ==
    /\ up
    /\ frameLen >= HeaderLen
    /\ consumed + frameLen <= received
    /\ msg' = [from |-> consumed, len |-> frameLen, bytes |-> Bytes(consumed, frameLen)]
    /\ consumed' = consumed + frameLen
    /\ frameLen' \in Lens
    /\ UNCHANGED <<received, up>>

\* The connection fails, or its next frame carries an impossible length.
GiveUp ==
    /\ up
    /\ up' = FALSE
    /\ UNCHANGED <<received, consumed, frameLen, msg>>

\* A new connection: what had arrived of an unfinished frame is forgotten.
Restart ==
    /\ ~up
    /\ up' = TRUE
    /\ consumed' = received
    /\ frameLen' \in Lens
    /\ UNCHANGED <<received, msg>>

Next == Arrive \/ Deliver \/ GiveUp \/ Restart

Spec == Init /\ [][Next]_streamVars
=============================================================================
