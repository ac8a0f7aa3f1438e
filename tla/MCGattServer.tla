---------------------------- MODULE MCGattServer ----------------------------
(***************************************************************************)
(* GattServer with two handles and two keys, ints of two bits (-2..1) and  *)
(* bytes of one.                                                           *)
(***************************************************************************)
EXTENDS GattServer, MCWords

CONSTANTS k1, k2

MCHandles == {1, 2}
MCKeys    == {k1, k2}
MCWrites  == {<<"rpm", 1>>, <<"light", 0>>}
MCWrites3 == MCWrites \cup {<<"rpm", 3>>}

MCPair(key, word, type) == [key |-> key, type |-> type, word |-> word]
MCPackets ==
  {[form |-> "json", pairs |-> <<MCPair(<<"light">>, <<"1">>, "primitive")>>],
   [form |-> "json", pairs |-> <<MCPair(<<"ss", "id">>, <<"home">>, "string")>>],
   [form |-> "text", pairs |-> <<MCPair(<<"speed">>, <<"minus", "1">>, "primitive")>>]}
============================================================================
