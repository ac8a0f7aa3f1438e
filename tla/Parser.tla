------------------------------- MODULE Parser -------------------------------
(***************************************************************************)
(* main/parser.c: what a packet means.  A packet is parsed as JSON first   *)
(* and searched for keys the way older clients wrote them if that yields   *)
(* nothing.                                                                *)
(*                                                                         *)
(* A packet is a form and a sequence of pairs; its words are sequences of  *)
(* characters, which are strings.  The JSON parser sees the tokens jsmn    *)
(* makes of the packet (main/jsmn.h, external), the legacy search all the  *)
(* characters one after the other.                                         *)
(***************************************************************************)
EXTENDS Integers, SequencesExt

CONSTANTS
  Spelling,     \* the characters of each key name
  LowerOf,      \* tolower, on the characters it changes
  IntOf,        \* the numerals, each with the integer strtol makes of it
  SsidRoom,     \* sizeof(ssid), the end of the string included
  PassRoom,     \* sizeof(pass)
  IntRoom,      \* sizeof(tmp), what a number is copied to
  JsmnTokenMax  \* JSMN_TOKEN_MAX, the tokens jsmn has room for

(* The setting each key name stands for: a credential, the register of a   *)
(* control, or what is read and not used.                                  *)
Setting ==
  [SSID |-> "ssid", ssid |-> "ssid", Wifi |-> "ssid", wifi |-> "ssid",
   PASS |-> "pass", Pass |-> "pass", pass |-> "pass", password |-> "pass", pwd |-> "pass",
   Speed |-> "rpm", speed |-> "rpm", Angle |-> "angle", angle |-> "angle",
   Light |-> "light", light |-> "light", Power |-> "power", power |-> "power",
   device |-> "device", device_id |-> "device", id |-> "device",
   ts |-> "ts", time |-> "ts", epoch |-> "ts"]

ControlSettings == {"rpm", "angle", "light", "power"}

Separators == {"colon", "equals", "space"}
Quotes     == {"quote", "apostrophe"}
Delimiters == Separators \cup Quotes \cup {"comma"}

(* The text of an object as the value of a key.                            *)
Braces == <<"braces">>

(* (True of all strings, which the provers do not know.)                   *)
ASSUME CharacterAssumption == Delimiters \cup ToSet(Braces) \subseteq STRING

ASSUME RoomAssumption ==
  /\ JsmnTokenMax \in Nat
  /\ SsidRoom \in Nat \ {0, 1} /\ PassRoom \in Nat \ {0, 1} /\ IntRoom \in Nat

Lower(w) ==
  [i \in DOMAIN w |-> IF w[i] \in DOMAIN LowerOf THEN LowerOf[w[i]] ELSE w[i]]

TokenEqualsKey(w, name) == Lower(w) = Lower(Spelling[name])

(* Keys are spelled with letters, and keys that differ only in the case of *)
(* their letters mean the same.                                            *)
ASSUME SpellingAssumption ==
  \A k \in DOMAIN Setting :
    /\ Spelling[k] \in Seq(STRING) \ {<<>>}
    /\ ToSet(Spelling[k]) \cap Delimiters = {}
    /\ \A l \in DOMAIN Setting :
         TokenEqualsKey(Spelling[k], l) => Setting[k] = Setting[l]

(* Numerals are made of digits and a sign.                                 *)
ASSUME IntOfAssumption ==
  \A w \in DOMAIN IntOf :
    w \in Seq(STRING) \ {<<>>} /\ ToSet(w) \cap Delimiters = {} /\ IntOf[w] \in Int

(* The setting a key is compared with and found equal to.                  *)
SettingOf(w) ==
  LET names == {k \in DOMAIN Setting : TokenEqualsKey(w, k)}
  IN  IF names = {} THEN "none" ELSE Setting[CHOOSE k \in names : TRUE]

(* What fits in room characters, the last of which ends the string.        *)
TokenToCstr(w, room) == SubSeq(w, 1, Min({Len(w), room - 1}))

(* Without the leading characters that are in S.                           *)
Skip(t, S) ==
  LET stop == SelectInSeq(t, LAMBDA c : c \notin S)
  IN  IF stop = 0 THEN <<>> ELSE SubSeq(t, stop, Len(t))

(* Up to the first character in S.                                         *)
UpTo(t, S) ==
  LET stop == SelectInSeq(t, LAMBDA c : c \in S)
  IN  IF stop = 0 THEN t ELSE SubSeq(t, 1, stop - 1)

(* strtol: the integer of the longest numeral t begins with, if any.       *)
Strtol(t) ==
  LET ends == {n \in 1 .. Len(t) : SubSeq(t, 1, n) \in DOMAIN IntOf}
  IN  IF ends = {} THEN <<>> ELSE <<IntOf[SubSeq(t, 1, Max(ends))]>>

TokenToInt(w) ==
  IF Len(w) \in 1 .. IntRoom - 1 THEN Strtol(Skip(w, {"space"})) ELSE <<>>

IsInt(w) == TokenToInt(w) # <<>>

Call(setting, n) == [set |-> setting, to |-> n]

NoCred == [ssid |-> <<>>, pass |-> <<>>, queued |-> FALSE]
Cred(ssid, pass) == [ssid |-> ssid, pass |-> pass, queued |-> TRUE]

----------------------------------------------------------------------------
(* Tokens and characters of a packet.  The value of a pair is a string, a  *)
(* primitive or the start of an object whose pairs are the next ones.      *)

TokensOf(pairs) ==
  [k \in 1 .. 2 * Len(pairs) + 1 |->
    IF k = 1 THEN [type |-> "object", word |-> Braces]
    ELSE LET pair == pairs[k \div 2] IN
         IF k % 2 = 0 THEN [type |-> "string", word |-> pair.key]
                      ELSE [type |-> pair.type, word |-> pair.word]]

Quoted(w) == <<"quote">> \o w \o <<"quote">>

TextOf(packet) ==
  FlattenSeq([i \in DOMAIN packet.pairs |->
    LET pair == packet.pairs[i]
        key == IF packet.form = "text" THEN pair.key ELSE Quoted(pair.key)
        val == IF pair.type = "string" THEN Quoted(pair.word) ELSE pair.word
    IN  key \o <<"colon">> \o val \o <<"comma">>])

----------------------------------------------------------------------------
(* parser_handle_packet_json: the gather pass over the tokens.  `skip' is  *)
(* TRUE when the token before consumed this one as its value (++i).        *)

GatherStart ==
  [skip |-> FALSE, calls |-> <<>>, ssid |-> <<>>, pass |-> <<>>,
   gotSsid |-> FALSE, gotPass |-> FALSE]

(* Mutant: the value of the keys after the control keys is not skipped.    *)
GatherPairNoSkip(acc, key, val) ==
  LET setting == SettingOf(key)
      ssid == TokenToCstr(val, SsidRoom)
      pass == TokenToCstr(val, PassRoom)
  IN
  CASE setting = "ssid" ->
         [acc EXCEPT !.skip = TRUE, !.ssid = ssid, !.gotSsid = @ \/ ssid # <<>>]
    [] setting = "pass" ->
         [acc EXCEPT !.skip = TRUE, !.pass = pass, !.gotPass = @ \/ pass # <<>>]
    [] setting \in ControlSettings ->
         [acc EXCEPT !.skip = TRUE,
                     !.calls = IF IsInt(val) THEN Append(@, Call(setting, TokenToInt(val)[1]))
                               ELSE @]
    [] OTHER -> acc

GatherPair(acc, key, val) ==
  LET setting == SettingOf(key)
      ssid == TokenToCstr(val, SsidRoom)
      pass == TokenToCstr(val, PassRoom)
  IN
  CASE setting = "ssid" ->
         [acc EXCEPT !.skip = TRUE, !.ssid = ssid, !.gotSsid = @ \/ ssid # <<>>]
    [] setting = "pass" ->
         [acc EXCEPT !.skip = TRUE, !.pass = pass, !.gotPass = @ \/ pass # <<>>]
    [] setting \in ControlSettings ->
         [acc EXCEPT !.skip = TRUE,
                     !.calls = IF IsInt(val) THEN Append(@, Call(setting, TokenToInt(val)[1]))
                               ELSE @]
    [] setting \in {"device", "ts"} -> [acc EXCEPT !.skip = TRUE]
    [] OTHER -> acc

(* One round of the loop.                                                  *)
GatherToken(acc, toks, i) ==
  IF acc.skip THEN [acc EXCEPT !.skip = FALSE]
  ELSE IF toks[i].type # "string" \/ i = Len(toks) THEN acc
  ELSE GatherPair(acc, toks[i].word, toks[i + 1].word)

Gather(toks) ==
  LET after[i \in 0 .. Len(toks)] ==
        IF i = 0 THEN GatherStart ELSE GatherToken(after[i - 1], toks, i)
  IN  after[Len(toks)]

Nothing == [handled |-> FALSE, calls |-> <<>>, cred |-> NoCred]

(* jsmn_parse fails on a packet without its end and on one with more       *)
(* tokens than there is room for.                                          *)
ParserHandlePacketJson(packet) ==
  IF packet.form # "json" \/ Len(TokensOf(packet.pairs)) > JsmnTokenMax THEN Nothing
  ELSE LET g == Gather(TokensOf(packet.pairs)) IN
       [handled |-> g.gotSsid \/ g.calls # <<>>,
        calls |-> g.calls,
        cred |-> IF g.gotSsid THEN Cred(g.ssid, IF g.gotPass THEN g.pass ELSE <<>>)
                              ELSE NoCred]

----------------------------------------------------------------------------
(* The legacy search: strstr for the key, then the separators, then the    *)
(* value.                                                                  *)

(* Where w occurs in t, be it inside another word.                         *)
Occurrences(t, w) ==
  {i \in 1 .. Len(t) - Len(w) + 1 : \A j \in 1 .. Len(w) : t[i + j - 1] = w[j]}

(* strstr(buf, name).                                                      *)
Strstr(t, name) == Occurrences(t, Spelling[name])

(* What follows the first occurrence of a key.                             *)
RestOf(t, name) == SubSeq(t, Min(Strstr(t, name)) + Len(Spelling[name]), Len(t))

(* Mutant: the separators are not skipped.                                 *)
AfterKeyAtOnce(t, name) == RestOf(t, name)

AfterKey(t, name) == Skip(RestOf(t, name), Separators)

LegacyExtractStrField(t, name, room) ==
  IF Strstr(t, name) = {} THEN <<>>
  ELSE LET rest == AfterKey(t, name) IN
       TokenToCstr(IF rest # <<>> /\ Head(rest) \in Quotes
                     THEN UpTo(Tail(rest), {Head(rest)})
                     ELSE UpTo(rest, {"comma", "space"}), room)

(* A digit, or the sign atoi takes.                                        *)
BeginsInt(t) == t # <<>> /\ (Head(t) = "minus" \/ <<Head(t)>> \in DOMAIN IntOf)

(* atoi makes zero of what is no numeral.                                  *)
LegacyExtractIntField(t, name) ==
  IF Strstr(t, name) = {} \/ ~BeginsInt(AfterKey(t, name)) THEN <<>>
  ELSE LET n == Strtol(AfterKey(t, name)) IN IF n = <<>> THEN <<0>> ELSE n

(* The first of the fields with a value: a || b || ..                      *)
FirstOf(fields) ==
  LET with == {k \in DOMAIN fields : fields[k] # <<>>}
  IN  IF with = {} THEN <<>> ELSE fields[Min(with)]

LegacyStr(t, names, room) ==
  FirstOf([k \in DOMAIN names |-> LegacyExtractStrField(t, names[k], room)])

LegacyInt(t, names) ==
  FirstOf([k \in DOMAIN names |-> LegacyExtractIntField(t, names[k])])

SsidNames == <<"SSID", "ssid", "Wifi", "wifi">>
PassNames == <<"PASS", "Pass", "pass", "password">>

LegacyControls ==
  <<[set |-> "rpm",   names |-> <<"Speed", "speed">>],
    [set |-> "angle", names |-> <<"Angle", "angle">>],
    [set |-> "light", names |-> <<"Light", "light">>],
    [set |-> "power", names |-> <<"Power", "power">>]>>

LegacyCalls(t) ==
  FlattenSeq([c \in DOMAIN LegacyControls |->
    LET value == LegacyInt(t, LegacyControls[c].names)
    IN  IF value = <<>> THEN <<>> ELSE <<Call(LegacyControls[c].set, value[1])>>])

LegacyCred(t) ==
  LET ssid == LegacyStr(t, SsidNames, SsidRoom) IN
  IF (\E name \in {"Wifi", "SSID", "ssid"} : Strstr(t, name) # {}) /\ ssid # <<>>
    THEN Cred(ssid, LegacyStr(t, PassNames, PassRoom)) ELSE NoCred

ParserHandlePacketLegacy(packet) ==
  LET text == TextOf(packet) IN
  IF LegacyCred(text).queued
    THEN [handled |-> TRUE, calls |-> <<>>, cred |-> LegacyCred(text)]
    ELSE [handled |-> LegacyCalls(text) # <<>>, calls |-> LegacyCalls(text), cred |-> NoCred]

ParserHandlePacket(packet) ==
  LET json == ParserHandlePacketJson(packet)
  IN  IF json.handled THEN json ELSE ParserHandlePacketLegacy(packet)
============================================================================
