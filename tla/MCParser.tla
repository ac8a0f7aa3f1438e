------------------------------ MODULE MCParser ------------------------------
(***************************************************************************)
(* Parser on every packet of at most MaxPairs pairs over small sets of     *)
(* keys and values.  A packet is built pair by pair, so that a state is a  *)
(* packet; its last step may be the loss of its end, with a pair or more,  *)
(* which leaves what began as JSON without its closing brace ("partial").  *)
(***************************************************************************)
EXTENDS Parser, MCWords

CONSTANTS
  Keys, Values, Bare,              \* keys, strings and bare values of JSON
  TextKeys, TextValues, TextBare,  \* the same of the text form
  MaxPairs                         \* bound: pairs of a packet

MCKeys ==
  {<<"ss", "id">>, <<"PA", "ss">>, <<"light">>, <<"Power">>, <<"id">>, <<"my">>}
MCValues == {<<>>, <<"light">>, <<"space", "7", "up">>}
MCBare   == {<<"minus", "1">>, <<"1", "1", "1", "1">>}

MCTextKeys ==
  {<<"SS", "ID">>, <<"Wi", "fi">>, <<"pa", "ss">>, <<"pa", "ss", "word">>, <<"light">>, <<"Power">>,
   <<"my">>}
MCTextValues == {<<"my", "space", "home">>, <<"pa", "ss", "id">>}
MCTextBare   == {<<"Light", "ning">>, <<"home">>, <<"minus">>, <<"7", "up">>}

(* Words are made of characters.                                           *)
ASSUME WordsAssumption ==
  \A w \in Keys \cup Values \cup Bare \cup TextKeys \cup TextValues \cup TextBare :
    w \in Seq(STRING)

VARIABLE packet

PairsOf(keys, values, bare) ==
  [key : keys, type : {"string"}, word : values]
    \cup [key : keys, type : {"primitive"}, word : bare]

Init == packet \in [form : {"json", "text"}, pairs : {<<>>}]

AddPair(form, pair) ==
  /\ packet.form = form
  /\ Len(packet.pairs) < MaxPairs
  /\ packet' = [packet EXCEPT !.pairs = Append(@, pair)]

(* A nested object: the pairs added next are its own.                      *)
OpenObject(key) ==
  /\ packet.form = "json"
  /\ Len(packet.pairs) < MaxPairs
  /\ packet' = [packet EXCEPT
       !.pairs = Append(@, [key |-> key, type |-> "object", word |-> Braces])]

LoseEnd ==
  /\ packet.form = "json"
  /\ Len(packet.pairs) < MaxPairs
  /\ packet' = [packet EXCEPT !.form = "partial"]

Next ==
  \/ \E pair \in PairsOf(Keys, Values, Bare) : AddPair("json", pair)
  \/ \E pair \in PairsOf(TextKeys, TextValues, TextBare) : AddPair("text", pair)
  \/ \E key \in Keys : OpenObject(key)
  \/ LoseEnd

Spec == Init /\ [][Next]_packet

----------------------------------------------------------------------------
(* What the pairs of a packet ask for, read as the comment at the top of   *)
(* parser.c describes them.                                                *)

(* The positions of the pairs with a key of one of the settings S.         *)
Where(S) == {i \in DOMAIN packet.pairs : SettingOf(packet.pairs[i].key) \in S}

Controls == {i \in Where(ControlSettings) : IsInt(packet.pairs[i].word)}

CallAt(i) == Call(SettingOf(packet.pairs[i].key), TokenToInt(packet.pairs[i].word)[1])

(* calls are those of the pairs at I, in their order.                      *)
CallsOf(calls, I) ==
  \E at \in [DOMAIN calls -> I] :
    /\ \A i \in I : \E k \in DOMAIN calls : at[k] = i
    /\ \A k, l \in DOMAIN calls : k < l => at[k] < at[l]
    /\ \A k \in DOMAIN calls : calls[k] = CallAt(at[k])

LastWord(I) == IF I = {} THEN <<>> ELSE packet.pairs[Max(I)].word

Provisions == \E i \in Where({"ssid"}) : packet.pairs[i].word # <<>>

(* All of a word that there is room for.                                   *)
Kept(got, word, room) ==
  /\ IsPrefix(got, word)
  /\ Len(got) = IF Len(word) < room THEN Len(word) ELSE room - 1

(* The credentials queued are those the packet asks for: the last SSID and *)
(* the last password, as much of each as the record has room for.          *)
CredAsked(cred) ==
  /\ cred.queued = Provisions
  /\ cred.queued =>
       /\ Kept(cred.ssid, LastWord(Where({"ssid"})), SsidRoom)
       /\ Kept(cred.pass, LastWord(Where({"pass"})), PassRoom)

Fits == 2 * Len(packet.pairs) + 1 <= JsmnTokenMax

(* An unknown key with a string for its value that is itself a known key.  *)
KeyLikeValue ==
  \E i \in DOMAIN packet.pairs :
    LET pair == packet.pairs[i] IN
    /\ SettingOf(pair.key) = "none"
    /\ pair.type = "string" /\ SettingOf(pair.word) # "none"

(* A JSON packet with a setting in it is applied whole: every control key  *)
(* with an integer calls its setter, in order, nested objects included,    *)
(* and the last SSID and password are queued, cut to the room there is.    *)
JsonAppliedWhole ==
  LET result == ParserHandlePacket(packet) IN
  packet.form = "json" /\ Fits /\ ~KeyLikeValue /\ (Controls # {} \/ Provisions) =>
    /\ result.handled
    /\ CallsOf(result.calls, Controls)
    /\ CredAsked(result.cred)

(* The key names the legacy search looks for.                              *)
Searched ==
  {"SSID", "ssid", "Wifi", "wifi", "PASS", "Pass", "pass", "password",
   "Speed", "speed", "Angle", "angle", "Light", "light", "Power", "power"}

(* No setting twice.                                                       *)
DistinctSettings ==
  \A s \in {"ssid", "pass"} \cup ControlSettings : \A i, j \in Where({s}) : i = j

(* A setting is spelled in one of the ways the search knows (one of which  *)
(* it knows only next to another), and no key it looks for occurs anywhere *)
(* else, in another key or in a value.                                     *)
KeysStandAlone ==
  \A i \in DOMAIN packet.pairs :
    LET pair == packet.pairs[i] IN
    /\ SettingOf(pair.key) \in {"ssid", "pass"} \cup ControlSettings =>
         \E k \in Searched \ {"wifi"} : pair.key = Spelling[k]
    /\ \A k \in Searched :
         /\ Strstr(pair.key, k) # {} => pair.key = Spelling[k]
         /\ Strstr(pair.word, k) = {}

(* A value ends where it should and is read the same way in both forms.    *)
ValuesPlain ==
  \A i \in DOMAIN packet.pairs :
    LET pair == packet.pairs[i] IN
    /\ ToSet(pair.key) \cap Delimiters = {}
    /\ pair.word # <<>>
    /\ ToSet(pair.word) \cap (IF pair.type = "string" THEN {"quote"} ELSE Delimiters) = {}
    /\ SettingOf(pair.key) \in ControlSettings =>
         pair.type = "primitive" /\ IsInt(pair.word) = BeginsInt(pair.word)

PlainText == packet.form = "text" /\ DistinctSettings /\ KeysStandAlone /\ ValuesPlain

(* The way older clients write a packet means what the same pairs mean in  *)
(* JSON as long as no key occurs where it is none, except that credentials *)
(* leave no room for controls: the keys may be in either case, an SSID or  *)
(* password quoted or not.                                                 *)
TextMeansTheSame ==
  PlainText =>
    LET result == ParserHandlePacket(packet) IN
    /\ CredAsked(result.cred)
    /\ result.handled = (Provisions \/ Controls # {})
    /\ ToSet(result.calls) = IF Provisions THEN {} ELSE {CallAt(i) : i \in Controls}

(* parser.c:228 says "Otherwise ignore unknown keys": what an unknown key  *)
(* is set to has no bearing on the keys after it.                          *)
UnknownKeysIgnored ==
  packet.form = "json" /\ (Controls # {} \/ Provisions) =>
    CallsOf(ParserHandlePacket(packet).calls, Controls)

(* parser.c:251 keeps the legacy search to "fallback when buffer isn't     *)
(* JSON": the credentials a JSON packet provisions are those in its pairs. *)
JsonCredentialsOnly ==
  packet.form = "json" =>
    ParserHandlePacket(packet).cred = ParserHandlePacketJson(packet).cred
============================================================================
