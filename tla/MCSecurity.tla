----------------------------- MODULE MCSecurity -----------------------------
(***************************************************************************)
(* Security with a table of two slots and three connections, so that the   *)
(* table can be full and a connection turned away.  Handle 0 is in         *)
(* MCHandlesAll only.                                                      *)
(***************************************************************************)
EXTENDS Security

CONSTANTS k1, k2

MCHandles    == {1, 2, 3}
MCHandlesAll == {0, 1, 2}
MCKeys       == {k1, k2}
MCNonceLens  == {0, 2, 3}   \* too short, the default, too long
============================================================================
