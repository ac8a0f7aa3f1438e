---------------------------- MODULE MCAirShifter ----------------------------
(***************************************************************************)
(* AirShifter with two handles, a right and a wrong key, and a queue of    *)
(* one: with the manager busy, the second packet of credentials blocks the *)
(* host task.                                                              *)
(***************************************************************************)
EXTENDS AirShifter, MCWords

CONSTANTS k1, k2

MCHandles == {1, 2}
MCKeys    == {k1, k2}
MCWrites  == {<<"light", 1>>}
MCPackets ==
  {[form |-> "json",
    pairs |-> <<[key |-> <<"ss", "id">>, type |-> "string", word |-> <<"home">>],
                [key |-> <<"light">>, type |-> "primitive", word |-> <<"1">>]>>]}
============================================================================
