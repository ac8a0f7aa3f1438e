------------------------------- MODULE MCBiz --------------------------------
(***************************************************************************)
(* Biz with two rows for three connections, one of which subscribes; an    *)
(* int from -4 to 3 and a byte from 0 to 1: the argument 3 is truncated in *)
(* light and power, a negative one is turned away.                         *)
(***************************************************************************)
EXTENDS Biz
MCHandles == {1, 2, 3}
MCClients == {1}
MCArgs    == {-1, 0, 3}
============================================================================
