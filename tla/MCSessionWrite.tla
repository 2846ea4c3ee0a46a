---------------------------- MODULE MCSessionWrite ----------------------------
(***************************************************************************)
(* Two writers, one that sends two messages and one that sends one, and a  *)
(* buffer that holds one message and a half.                               *)
(***************************************************************************)
EXTENDS SessionWrite

CONSTANTS w1, w2
MCWriters == {w1, w2}
MCMsgs == [w \in MCWriters |-> IF w = w1 THEN 2 ELSE 1]
=============================================================================
