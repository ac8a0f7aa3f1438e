------------------------------- MODULE MCWords -------------------------------
(***************************************************************************)
(* The characters Parser is run with.  A few letters that the words have   *)
(* in common stand for one character: "passid" is <<"pa", "ss", "id">>,    *)
(* which holds <<"ss", "id">>.                                             *)
(***************************************************************************)
EXTENDS Integers

MCSpelling ==
  [SSID |-> <<"SS", "ID">>, ssid |-> <<"ss", "id">>, Wifi |-> <<"Wi", "fi">>, wifi |-> <<"wi", "fi">>,
   PASS |-> <<"PA", "SS">>, Pass |-> <<"Pa", "ss">>, pass |-> <<"pa", "ss">>,
   password |-> <<"pa", "ss", "word">>, pwd |-> <<"pwd">>,
   Speed |-> <<"Speed">>, speed |-> <<"speed">>, Angle |-> <<"Angle">>, angle |-> <<"angle">>,
   Light |-> <<"Light">>, light |-> <<"light">>, Power |-> <<"Power">>, power |-> <<"power">>,
   device |-> <<"device">>, device_id |-> <<"device", "_", "id">>, id |-> <<"id">>,
   ts |-> <<"ts">>, time |-> <<"time">>, epoch |-> <<"epoch">>]

MCLowerOf ==
  [SS |-> "ss", ID |-> "id", Wi |-> "wi", PA |-> "pa", Pa |-> "pa", Speed |-> "speed",
   Angle |-> "angle", Light |-> "light", Power |-> "power", My |-> "my"]

MCIntOf ==
  LET numerals == {<<"7">>, <<"1">>, <<"minus", "1">>}
  IN  [w \in numerals |-> CASE w = <<"7">> -> 7 [] w = <<"1">> -> 1 [] OTHER -> -1]
==============================================================================
