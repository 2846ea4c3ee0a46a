----------------------------- MODULE MCReadBuffer -----------------------------
(***************************************************************************)
(* Small instance of ReadBuffer: 8 bytes of buffer and a 2-byte header, so *)
(* that compaction starts above offset 5 and SafeLen is 3.                 *)
(***************************************************************************)
EXTENDS ReadBuffer

\* A length shorter than a header, a bare header, the longest safe frame, the
\* shortest unsafe one, and one longer than the buffer.
MCLens == {1, 2, 3, 4, 9}
=============================================================================
