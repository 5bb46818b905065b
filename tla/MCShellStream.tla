--------------------------- MODULE MCShellStream ---------------------------
(***************************************************************************)
(* A codec with bytes of two bits: lengths are written in base 2.  Message *)
(* lengths 1, 3 and 4 give headers of one, two and three length bytes, the *)
(* last one too large; messages and data contain the control marker.       *)
(***************************************************************************)
EXTENDS ShellStream

MCDataRuns == {<<0, 2>>, <<3>>, <<0, 1>>, <<1, 3, 0>>}
MCMessages == {<<1>>, <<2, 1, 3>>, <<1, 0, 1, 2>>}
=============================================================================
