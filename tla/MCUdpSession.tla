----------------------------- MODULE MCUdpSession -----------------------------
(***************************************************************************)
(* A buffer of 14 bytes, for which SafeSize is 3.  The datagrams: two safe *)
(* ones, one of which two fill the buffer, one that exceeds it, one with   *)
(* bytes behind its message, one with a bad length and an empty one.       *)
(***************************************************************************)
EXTENDS UdpSession

CONSTANTS p1, p2
MCPeers == {p1, p2}
Shape(size, len) == [size |-> size, len |-> len]
MCShapes == {Shape(2, 2), Shape(3, 3), Shape(7, 7), Shape(15, 15), Shape(5, 3),
             Shape(2, 1), Shape(0, 0)}
=============================================================================
