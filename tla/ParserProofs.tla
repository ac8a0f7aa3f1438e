---------------------------- MODULE ParserProofs ----------------------------
(***************************************************************************)
(* What a packet means, for packets of any length over any words.  The     *)
(* loops of main/parser.c are recursive functions in Parser; what they     *)
(* compute is shown by induction on the natural numbers, which is stated   *)
(* here for sets, since that form needs no operator as a parameter.        *)
(***************************************************************************)
EXTENDS MCParser, WellFoundedInduction, SequenceTheorems, TLAPS

(* A set of numbers that holds 0 and the successor of every member holds   *)
(* every number.                                                           *)
LEMMA SetInduction ==
  ASSUME NEW S \in SUBSET Nat, 0 \in S, \A n \in S : n + 1 \in S
  PROVE  S = Nat
<1> DEFINE R == OpToRel(<, Nat)
<1>1. IsWellFoundedOn(R, Nat)
  BY NatLessThanWellFounded
<1>2. \A x, y \in Nat : x < y => <<x, y>> \in R
  BY Z3 DEF OpToRel
<1> HIDE DEF R
<1>3. SUFFICES ASSUME Nat \ S # {} PROVE FALSE
  OBVIOUS
<1>4. PICK n \in Nat \ S : \A m \in Nat \ S : ~(<<m, n>> \in R)
  <2>1. Nat \ S \subseteq Nat
    OBVIOUS
  <2> QED
    BY <1>1, <1>3, <2>1, WFMin
<1>5. n - 1 \in Nat /\ n - 1 < n
  BY <1>4
<1>6. n - 1 \in S
  BY <1>2, <1>4, <1>5
<1> QED
  BY <1>4, <1>6

(* A set of numbers below a bound has a largest and, of course, a smallest *)
(* member.                                                                 *)
LEMMA LargestOf ==
  ASSUME NEW n \in Nat, NEW I \in SUBSET Nat, I # {}, \A y \in I : y <= n
  PROVE  \E x \in I : \A y \in I : x >= y
<1> DEFINE Bounded(m) == \A J \in SUBSET Nat :
             J # {} /\ (\A y \in J : y <= m) => \E x \in J : \A y \in J : x >= y
           S == {m \in Nat : Bounded(m)}
<1>1. 0 \in S
  <2>1. ASSUME NEW J \in SUBSET Nat, J # {}, \A y \in J : y <= 0
        PROVE  \E x \in J : \A y \in J : x >= y
    <3>1. \A y \in J : y = 0
      BY <2>1
    <3> QED
      BY <2>1, <3>1
  <2> QED
    BY <2>1
<1>2. ASSUME NEW m \in S PROVE m + 1 \in S
  <2>1. ASSUME NEW J \in SUBSET Nat, J # {}, \A y \in J : y <= m + 1
        PROVE  \E x \in J : \A y \in J : x >= y
    <3>1. CASE m + 1 \in J
      <4>1. \A y \in J : m + 1 >= y
        BY <2>1
      <4> QED
        BY <3>1, <4>1
    <3>2. CASE m + 1 \notin J
      <4>1. \A y \in J : y <= m
        BY <2>1, <3>2
      <4>2. Bounded(m)
        <5> HIDE DEF Bounded
        <5> QED
          OBVIOUS
      <4> QED
        BY <2>1, <4>1, <4>2
    <3> QED
      BY <3>1, <3>2
  <2> QED
    BY <2>1
<1>3. S = Nat
  BY <1>1, <1>2, SetInduction
<1> QED
  BY <1>3

----------------------------------------------------------------------------
(* The loop over the tokens makes one round for each of them.              *)
LEMMA GatherRounds ==
  ASSUME NEW toks, Len(toks) \in Nat
  PROVE  \E after :
           /\ after = [i \in 0 .. Len(toks) |->
                        IF i = 0 THEN GatherStart ELSE GatherToken(after[i - 1], toks, i)]
           /\ Gather(toks) = after[Len(toks)]
<1> DEFINE n == Len(toks)
           Is(g, k) == g = [i \in 0 .. k |->
                             IF i = 0 THEN GatherStart ELSE GatherToken(g[i - 1], toks, i)]
           S == {k \in Nat : \E g : Is(g, k)}
<1>1. 0 \in S
  <2> DEFINE g == [i \in 0 .. 0 |-> GatherStart]
  <2>1. Is(g, 0)
    OBVIOUS
  <2> QED
    BY <2>1
<1>2. ASSUME NEW k \in S PROVE k + 1 \in S
  <2>1. PICK g : Is(g, k)
    OBVIOUS
  <2> DEFINE h == [i \in 0 .. k + 1 |-> IF i = k + 1 THEN GatherToken(g[k], toks, k + 1) ELSE g[i]]
  <2>2. ASSUME NEW i \in 0 .. k + 1
        PROVE  h[i] = IF i = 0 THEN GatherStart ELSE GatherToken(h[i - 1], toks, i)
    <3>1. CASE i = k + 1
      BY <3>1
    <3>2. CASE i # k + 1
      <4>1. h[i] = g[i] /\ (i # 0 => h[i - 1] = g[i - 1])
        BY <3>2
      <4> QED
        BY <2>1, <3>2, <4>1
    <3> QED
      BY <3>1, <3>2
  <2>3. Is(h, k + 1)
    BY <2>2
  <2> HIDE DEF h, Is
  <2>4. \E f : Is(f, k + 1)
    BY <2>3
  <2> QED
    BY <2>4
<1> HIDE DEF S
<1>3. n \in S
  BY <1>1, <1>2, SetInduction DEF S
<1>4. \E g : Is(g, n)
  BY <1>3 DEF S
<1>5. LET after == CHOOSE g : Is(g, n) IN Gather(toks) = after[n]
  BY DEF Gather
<1> QED
  BY <1>4, <1>5

----------------------------------------------------------------------------
(* Words and pairs.                                                        *)

(* What a key can be found to mean.                                        *)
Settings == {"ssid", "pass", "device", "ts"} \cup ControlSettings

LEMMA SettingOfIs == \A w : SettingOf(w) = "none" \/ SettingOf(w) \in Settings
<1>1. \A k \in DOMAIN Setting : Setting[k] \in Settings
  BY DEF Setting, Settings, ControlSettings
<1> QED
  BY <1>1 DEF SettingOf

(* What is kept of a word is its beginning, and not nothing unless it is   *)
(* empty.                                                                  *)
LEMMA CutKept ==
  ASSUME NEW w \in Seq(STRING), NEW room \in Nat \ {0, 1}
  PROVE  /\ Kept(TokenToCstr(w, room), w, room)
         /\ TokenToCstr(w, room) # <<>> <=> w # <<>>
<1> DEFINE n == Min({Len(w), room - 1})
           got == TokenToCstr(w, room)
<1>1. Len(w) \in Nat /\ n = (IF Len(w) < room THEN Len(w) ELSE room - 1)
  <2>1. Len(w) \in Nat
    BY LenProperties
  <2>2. ASSUME NEW a \in Nat, NEW b \in Nat, a <= b PROVE Min({a, b}) = a /\ Min({b, a}) = a
    BY <2>2 DEF Min
  <2>3. CASE Len(w) < room
    <3>1. room - 1 \in Nat /\ Len(w) <= room - 1
      BY <2>1, <2>3
    <3>2. n = Len(w)
      BY <2>1, <2>2, <3>1
    <3> QED
      BY <2>1, <2>3, <3>2
  <2>4. CASE ~(Len(w) < room)
    <3>1. room - 1 \in Nat /\ room - 1 <= Len(w)
      BY <2>1, <2>4
    <3>2. n = room - 1
      BY <2>1, <2>2, <3>1
    <3> QED
      BY <2>1, <2>4, <3>2
  <2> QED
    BY <2>3, <2>4
<1> HIDE DEF n
<1>2. n \in Nat /\ n <= Len(w) /\ (n = 0 <=> Len(w) = 0)
  BY <1>1
<1>3. got = SubSeq(w, 1, n)
  BY DEF TokenToCstr, n
<1> HIDE DEF got
<1>4. got \in Seq(STRING) /\ Len(got) = n /\ \A k \in 1 .. n : got[k] = w[k]
  <2>1. \A k \in 1 .. n : w[k] \in STRING
    BY <1>2
  <2>2. /\ SubSeq(w, 1, n) \in Seq(STRING)
        /\ Len(SubSeq(w, 1, n)) = IF 1 <= n THEN n - 1 + 1 ELSE 0
        /\ \A k \in 1 .. n - 1 + 1 : SubSeq(w, 1, n)[k] = w[1 + k - 1]
    BY <1>2, <2>1, SubSeqProperties
  <2> QED
    BY <1>2, <1>3, <2>2
<1>5. IsPrefix(got, w)
  <2>1. /\ SubSeq(got, 1, n) \in Seq(STRING)
        /\ Len(SubSeq(got, 1, n)) = IF 1 <= n THEN n - 1 + 1 ELSE 0
        /\ \A k \in 1 .. n - 1 + 1 : SubSeq(got, 1, n)[k] = got[1 + k - 1]
    <3>1. \A k \in 1 .. n : got[k] \in STRING
      BY <1>4
    <3> QED
      BY <1>2, <1>4, <3>1, SubSeqProperties
  <2>2. SubSeq(got, 1, n) = got
    BY <1>2, <1>4, <2>1, SeqEqual
  <2> QED
    BY <1>2, <1>3, <1>4, <2>2 DEF IsPrefix
<1>6. got # <<>> <=> w # <<>>
  BY <1>2, <1>4
<1> QED
  BY <1>1, <1>4, <1>5, <1>6 DEF Kept, got

JsonPairs ==
  PairsOf(Keys, Values, Bare) \cup [key : Keys, type : {"object"}, word : {Braces}]
TextPairs == PairsOf(TextKeys, TextValues, TextBare)

(* What the environment of the parser can send.                            *)
PacketTyped ==
  \/ packet \in [form : {"json", "partial"}, pairs : Seq(JsonPairs)]
  \/ packet \in [form : {"text"}, pairs : Seq(TextPairs)]

(* A packet is built from pairs of its own form.                           *)
LEMMA NextPacketTyped == PacketTyped /\ [Next]_packet => PacketTyped'
<1> SUFFICES ASSUME PacketTyped, [Next]_packet PROVE PacketTyped'
  OBVIOUS
<1> USE DEF PacketTyped
<1>1. ASSUME NEW pair \in PairsOf(Keys, Values, Bare), AddPair("json", pair)
      PROVE  PacketTyped'
  BY <1>1, AppendProperties DEF AddPair, JsonPairs
<1>2. ASSUME NEW pair \in PairsOf(TextKeys, TextValues, TextBare), AddPair("text", pair)
      PROVE  PacketTyped'
  BY <1>2, AppendProperties DEF AddPair, TextPairs
<1>3. ASSUME NEW key \in Keys, OpenObject(key) PROVE PacketTyped'
  BY <1>3, AppendProperties DEF OpenObject, JsonPairs
<1>4. CASE LoseEnd
  BY <1>4 DEF LoseEnd
<1>5. CASE UNCHANGED packet
  BY <1>5
<1> QED
  BY <1>1, <1>2, <1>3, <1>4, <1>5 DEF Next

(* The pairs are numbered from one.                                        *)
LEMMA PairsNumbered ==
  ASSUME PacketTyped
  PROVE  /\ Len(packet.pairs) \in Nat
         /\ DOMAIN packet.pairs = 1 .. Len(packet.pairs)
  BY LenProperties DEF PacketTyped

(* The tokens of a packet: its object, then the key and the value of each  *)
(* pair.                                                                   *)
LEMMA TokensAt ==
  ASSUME NEW pairs, NEW n \in Nat, Len(pairs) = n
  PROVE  /\ Len(TokensOf(pairs)) = 2 * n + 1
         /\ TokensOf(pairs)[1].type = "object"
         /\ \A i \in 1 .. n :
              /\ TokensOf(pairs)[2 * i] = [type |-> "string", word |-> pairs[i].key]
              /\ TokensOf(pairs)[2 * i + 1] = [type |-> pairs[i].type, word |-> pairs[i].word]
<1> DEFINE Token(k) ==
      IF k = 1 THEN [type |-> "object", word |-> Braces]
      ELSE IF k % 2 = 0 THEN [type |-> "string", word |-> pairs[k \div 2].key]
           ELSE [type |-> pairs[k \div 2].type, word |-> pairs[k \div 2].word]
<1>1. TokensOf(pairs) = [k \in 1 .. 2 * n + 1 |-> Token(k)]
  BY DEF TokensOf
<1>2. Len(TokensOf(pairs)) = 2 * n + 1
  BY DEF TokensOf
<1>3. \A k \in 1 .. 2 * n + 1 : TokensOf(pairs)[k] = Token(k)
  <2> HIDE DEF Token
  <2> QED
    BY <1>1
<1>4. ASSUME NEW i \in 1 .. n
      PROVE  /\ TokensOf(pairs)[2 * i] = [type |-> "string", word |-> pairs[i].key]
             /\ TokensOf(pairs)[2 * i + 1] = [type |-> pairs[i].type, word |-> pairs[i].word]
  <2>1. /\ 2 * i \in 1 .. 2 * n + 1 /\ 2 * i + 1 \in 1 .. 2 * n + 1
        /\ 2 * i # 1 /\ 2 * i + 1 # 1
    OBVIOUS
  <2>2. (2 * i) \div 2 = i /\ (2 * i + 1) \div 2 = i
    OBVIOUS
  <2>3. (2 * i) % 2 = 0 /\ (2 * i + 1) % 2 # 0
    OBVIOUS
  <2>4. Token(2 * i) = [type |-> "string", word |-> pairs[i].key]
    BY <2>1, <2>2, <2>3
  <2>5. Token(2 * i + 1) = [type |-> pairs[i].type, word |-> pairs[i].word]
    BY <2>1, <2>2, <2>3
  <2> HIDE DEF Token
  <2> QED
    BY <1>3, <2>1, <2>4, <2>5
<1>5. TokensOf(pairs)[1].type = "object"
  <2>1. 1 \in 1 .. 2 * n + 1
    OBVIOUS
  <2>2. Token(1).type = "object"
    OBVIOUS
  <2> HIDE DEF Token
  <2> QED
    BY <1>3, <2>1, <2>2
<1> QED
  BY <1>2, <1>4, <1>5

(* The last of the first k + 1 pairs with a key of some kind.              *)
LEMMA LastWordStep ==
  ASSUME NEW W \in SUBSET Nat, NEW k \in Nat
  PROVE  LastWord(W \cap 1 .. k + 1) =
           IF k + 1 \in W THEN packet.pairs[k + 1].word
           ELSE LastWord(W \cap 1 .. k)
<1>1. CASE k + 1 \in W
  <2> DEFINE I == W \cap 1 .. k + 1
  <2>1. k + 1 \in I /\ \A y \in I : k + 1 >= y
    BY <1>1
  <2>2. \A x \in I : (\A y \in I : x >= y) => x = k + 1
    BY <2>1
  <2> HIDE DEF I
  <2>3. Max(I) = k + 1
    BY <2>1, <2>2 DEF Max
  <2>4. LastWord(I) = packet.pairs[Max(I)].word
    BY <2>1 DEF LastWord
  <2> QED
    BY <1>1, <2>3, <2>4 DEF I
<1>2. CASE k + 1 \notin W
  <2>1. W \cap 1 .. k + 1 = W \cap 1 .. k
    BY <1>2
  <2> QED
    BY <1>2, <2>1
<1> QED
  BY <1>1, <1>2

(* A control with an integer adds its call after those before it.          *)
LEMMA CallsOfStep ==
  ASSUME NEW C, NEW calls \in Seq(C), NEW k \in Nat, NEW I \in SUBSET Nat,
         CallsOf(calls, I \cap 1 .. k), k + 1 \in I, CallAt(k + 1) \in C
  PROVE  CallsOf(Append(calls, CallAt(k + 1)), I \cap 1 .. k + 1)
<1> DEFINE n == Len(calls)
           more == Append(calls, CallAt(k + 1))
<1>1. /\ n \in Nat /\ DOMAIN calls = 1 .. n /\ DOMAIN more = 1 .. n + 1
      /\ more[n + 1] = CallAt(k + 1)
      /\ \A i \in 1 .. n : more[i] = calls[i]
  BY LenProperties, AppendProperties
<1>2. PICK at \in [1 .. n -> I \cap 1 .. k] :
        /\ \A i \in I \cap 1 .. k : \E j \in 1 .. n : at[j] = i
        /\ \A j, l \in 1 .. n : j < l => at[j] < at[l]
        /\ \A j \in 1 .. n : calls[j] = CallAt(at[j])
  BY <1>1 DEF CallsOf
<1> DEFINE now == [j \in 1 .. n + 1 |-> IF j = n + 1 THEN k + 1 ELSE at[j]]
<1>3. now \in [1 .. n + 1 -> I \cap 1 .. k + 1]
  BY <1>1, <1>2
<1>4. ASSUME NEW i \in I \cap 1 .. k + 1 PROVE \E j \in 1 .. n + 1 : now[j] = i
  <2>1. CASE i = k + 1
    BY <1>1, <2>1
  <2>2. CASE i # k + 1
    <3>1. PICK j \in 1 .. n : at[j] = i
      BY <1>2, <2>2
    <3> QED
      BY <1>1, <3>1
  <2> QED
    BY <2>1, <2>2
<1>5. ASSUME NEW j \in 1 .. n + 1, NEW l \in 1 .. n + 1, j < l
      PROVE  now[j] < now[l]
  <2>1. j \in 1 .. n
    BY <1>1, <1>5
  <2>2. at[j] \in 1 .. k /\ now[j] = at[j]
    BY <1>1, <1>2, <2>1
  <2>3. CASE l = n + 1
    BY <2>2, <2>3
  <2>4. CASE l # n + 1
    <3>1. l \in 1 .. n /\ now[l] = at[l]
      BY <1>1, <2>4
    <3> QED
      BY <1>2, <1>5, <2>1, <2>2, <3>1
  <2> QED
    BY <2>3, <2>4
<1>6. ASSUME NEW j \in 1 .. n + 1 PROVE more[j] = CallAt(now[j])
  BY <1>1, <1>2
<1> HIDE DEF n, now, more
<1>7. CallsOf(more, I \cap 1 .. k + 1)
  <2>1. /\ now \in [DOMAIN more -> I \cap 1 .. k + 1]
        /\ \A i \in I \cap 1 .. k + 1 : \E j \in DOMAIN more : now[j] = i
        /\ \A j, l \in DOMAIN more : j < l => now[j] < now[l]
        /\ \A j \in DOMAIN more : more[j] = CallAt(now[j])
    BY <1>1, <1>3, <1>4, <1>5, <1>6
  <2> QED
    BY <2>1, Zenon DEF CallsOf
<1> QED
  BY <1>7 DEF more

----------------------------------------------------------------------------
(* The gather pass over a JSON packet.                                     *)

SomeWord(I) == \E i \in I : packet.pairs[i].word # <<>>

(* The setters the packet asks for.                                        *)
AskedCalls == {CallAt(i) : i \in Controls}

(* The variables of the loop.                                              *)
IsAcc(acc) ==
  acc = [skip |-> acc.skip, calls |-> acc.calls, ssid |-> acc.ssid, pass |-> acc.pass,
         gotSsid |-> acc.gotSsid, gotPass |-> acc.gotPass]

(* What the loop has gathered from the first k pairs.                      *)
Gathered(acc, k) ==
  /\ acc.calls \in Seq(AskedCalls)
  /\ CallsOf(acc.calls, Controls \cap 1 .. k)
  /\ acc.ssid = TokenToCstr(LastWord(Where({"ssid"}) \cap 1 .. k), SsidRoom)
  /\ acc.pass = TokenToCstr(LastWord(Where({"pass"}) \cap 1 .. k), PassRoom)
  /\ acc.gotSsid <=> SomeWord(Where({"ssid"}) \cap 1 .. k)
  /\ acc.gotPass \/ acc.pass = <<>>

(* Whether one of the first k + 1 pairs of some kind has a word.           *)
LEMMA SomeWordStep ==
  ASSUME NEW W \in SUBSET Nat, NEW k \in Nat
  PROVE  SomeWord(W \cap 1 .. k + 1) =
           (SomeWord(W \cap 1 .. k) \/ (k + 1 \in W /\ packet.pairs[k + 1].word # <<>>))
<1>1. \A i : i \in W \cap 1 .. k + 1 <=> i \in W \cap 1 .. k \/ (i \in W /\ i = k + 1)
  OBVIOUS
<1>2. SomeWord(W \cap 1 .. k + 1) <=>
        SomeWord(W \cap 1 .. k) \/ (k + 1 \in W /\ packet.pairs[k + 1].word # <<>>)
  BY <1>1 DEF SomeWord
<1>3. SomeWord(W \cap 1 .. k + 1) \in BOOLEAN /\ SomeWord(W \cap 1 .. k) \in BOOLEAN
  BY DEF SomeWord
<1> QED
  BY <1>2, <1>3

(* Where the pairs of a kind are.                                          *)
LEMMA WhereIs ==
  ASSUME PacketTyped, NEW S
  PROVE  /\ Where(S) \in SUBSET Nat /\ Where(S) \subseteq 1 .. Len(packet.pairs)
         /\ \A i \in 1 .. Len(packet.pairs) :
              i \in Where(S) <=> SettingOf(packet.pairs[i].key) \in S
  BY PairsNumbered DEF Where

(* The calls with that of one more control.                                *)
WithCall(calls, setting, val) == Append(calls, Call(setting, TokenToInt(val)[1]))

(* What a key of some setting and its value do to the variables.           *)
PairDone(acc, setting, val, next) ==
  /\ IsAcc(next)
  /\ setting # "none" => next.skip = TRUE
  /\ setting = "none" => next = acc
  /\ next.ssid = IF setting = "ssid" THEN TokenToCstr(val, SsidRoom) ELSE acc.ssid
  /\ next.pass = IF setting = "pass" THEN TokenToCstr(val, PassRoom) ELSE acc.pass
  /\ next.calls = IF setting \in ControlSettings /\ IsInt(val)
                    THEN WithCall(acc.calls, setting, val) ELSE acc.calls
  /\ next.gotSsid <=> acc.gotSsid \/ (setting = "ssid" /\ TokenToCstr(val, SsidRoom) # <<>>)
  /\ next.gotPass <=> acc.gotPass \/ (setting = "pass" /\ TokenToCstr(val, PassRoom) # <<>>)

(* That is what a round for a key does.                                    *)
LEMMA GatherPairFields ==
  \A acc, key, val : IsAcc(acc) => PairDone(acc, SettingOf(key), val, GatherPair(acc, key, val))
<1> SUFFICES
      ASSUME NEW acc, IsAcc(acc), NEW key, NEW val, NEW setting, setting = SettingOf(key),
             NEW next, next = GatherPair(acc, key, val)
      PROVE  PairDone(acc, setting, val, next)
  OBVIOUS
<1> DEFINE ssid == TokenToCstr(val, SsidRoom)
           pass == TokenToCstr(val, PassRoom)
<1> HIDE DEF ssid, pass
<1> USE DEF PairDone
<1> USE DEF IsAcc, WithCall
<1>1. /\ "ssid" \notin ControlSettings /\ "pass" \notin ControlSettings
      /\ "none" \notin ControlSettings /\ {"device", "ts"} \cap ControlSettings = {}
  BY DEF ControlSettings
<1>2. CASE setting = "ssid"
  <2>1. next = [acc EXCEPT !.skip = TRUE, !.ssid = ssid, !.gotSsid = @ \/ ssid # <<>>]
    BY <1>1, <1>2 DEF GatherPair, ssid, pass
  <2> QED
    BY <1>1, <1>2, <2>1 DEF ssid
<1>3. CASE setting = "pass"
  <2>1. next = [acc EXCEPT !.skip = TRUE, !.pass = pass, !.gotPass = @ \/ pass # <<>>]
    BY <1>1, <1>3 DEF GatherPair, ssid, pass
  <2> QED
    BY <1>1, <1>3, <2>1 DEF pass
<1>4. CASE setting \in ControlSettings
  <2>1. next = [acc EXCEPT !.skip = TRUE,
                           !.calls = IF IsInt(val)
                                       THEN Append(@, Call(setting, TokenToInt(val)[1]))
                                       ELSE @]
    BY <1>1, <1>4 DEF GatherPair, ssid, pass
  <2> QED
    BY <1>1, <1>4, <2>1
<1>5. CASE setting \in {"device", "ts"}
  <2>1. next = [acc EXCEPT !.skip = TRUE]
    BY <1>1, <1>5 DEF GatherPair, ssid, pass
  <2> QED
    BY <1>1, <1>5, <2>1
<1>6. CASE setting = "none"
  <2>1. next = acc
    BY <1>1, <1>6 DEF GatherPair, ssid, pass
  <2> QED
    BY <1>1, <1>6, <2>1
<1>7. setting = "none" \/ setting \in Settings
  BY SettingOfIs
<1> QED
  BY <1>2, <1>3, <1>4, <1>5, <1>6, <1>7 DEF Settings

(* The words of a packet are sequences of characters.                      *)
LEMMA PairWords ==
  ASSUME PacketTyped, NEW i \in 1 .. Len(packet.pairs)
  PROVE  packet.pairs[i].key \in Seq(STRING) /\ packet.pairs[i].word \in Seq(STRING)
<1>1. /\ \A pair \in JsonPairs : pair.key \in Seq(STRING) /\ pair.word \in Seq(STRING)
      /\ \A pair \in TextPairs : pair.key \in Seq(STRING) /\ pair.word \in Seq(STRING)
  <2>1. Braces \in Seq(STRING)
    <3>1. "braces" \in STRING
      <4>1. "braces" \in ToSet(Braces)
        BY DEF ToSet, Braces
      <4> QED
        BY <4>1, CharacterAssumption
    <3>2. \A c \in STRING : <<c>> \in Seq(STRING)
      OBVIOUS
    <3> QED
      BY <3>1, <3>2 DEF Braces
  <2> QED
    BY <2>1, WordsAssumption DEF JsonPairs, TextPairs, PairsOf
<1>2. packet.pairs \in Seq(JsonPairs) \/ packet.pairs \in Seq(TextPairs)
  BY DEF PacketTyped
<1> QED
  BY <1>1, <1>2

(* A key and its value add what the pair asks for to what is gathered.     *)
LEMMA GatherPairStep ==
  ASSUME PacketTyped, NEW k \in Nat, k + 1 <= Len(packet.pairs),
         NEW acc, IsAcc(acc), Gathered(acc, k),
         NEW next, next = GatherPair(acc, packet.pairs[k + 1].key, packet.pairs[k + 1].word)
  PROVE  Gathered(next, k + 1)
<1> DEFINE pair == packet.pairs[k + 1]
           setting == SettingOf(pair.key)
           ssid == TokenToCstr(pair.word, SsidRoom)
           pass == TokenToCstr(pair.word, PassRoom)
<1>1. k + 1 \in 1 .. Len(packet.pairs)
  BY PairsNumbered
<1>2. /\ k + 1 \in Where({"ssid"}) <=> setting = "ssid"
      /\ k + 1 \in Where({"pass"}) <=> setting = "pass"
      /\ k + 1 \in Controls <=> setting \in ControlSettings /\ IsInt(pair.word)
      /\ Where({"ssid"}) \in SUBSET Nat /\ Where({"pass"}) \in SUBSET Nat
      /\ Controls \in SUBSET Nat
  BY <1>1, WhereIs DEF Controls
<1>3. /\ next.ssid = IF setting = "ssid" THEN ssid ELSE acc.ssid
      /\ next.pass = IF setting = "pass" THEN pass ELSE acc.pass
      /\ next.calls = IF setting \in ControlSettings /\ IsInt(pair.word)
                        THEN WithCall(acc.calls, setting, pair.word) ELSE acc.calls
      /\ next.gotSsid <=> acc.gotSsid \/ (setting = "ssid" /\ ssid # <<>>)
      /\ next.gotPass <=> acc.gotPass \/ (setting = "pass" /\ pass # <<>>)
  <2> DEFINE key == pair.key
             val == pair.word
  <2>1. next = GatherPair(acc, key, val)
    OBVIOUS
  <2> HIDE DEF key, val
  <2>2. next.ssid = IF SettingOf(key) = "ssid" THEN TokenToCstr(val, SsidRoom) ELSE acc.ssid
    BY <2>1, GatherPairFields DEF PairDone
  <2>3. next.pass = IF SettingOf(key) = "pass" THEN TokenToCstr(val, PassRoom) ELSE acc.pass
    BY <2>1, GatherPairFields DEF PairDone
  <2>4. next.calls = IF SettingOf(key) \in ControlSettings /\ IsInt(val)
                       THEN WithCall(acc.calls, SettingOf(key), val) ELSE acc.calls
    BY <2>1, GatherPairFields DEF PairDone
  <2>5. next.gotSsid <=>
          acc.gotSsid \/ (SettingOf(key) = "ssid" /\ TokenToCstr(val, SsidRoom) # <<>>)
    BY <2>1, GatherPairFields DEF PairDone
  <2>6. next.gotPass <=>
          acc.gotPass \/ (SettingOf(key) = "pass" /\ TokenToCstr(val, PassRoom) # <<>>)
    BY <2>1, GatherPairFields DEF PairDone
  <2> QED
    BY <2>2, <2>3, <2>4, <2>5, <2>6 DEF key, val
<1>4. /\ ssid # <<>> <=> pair.word # <<>>
      /\ pass # <<>> <=> pair.word # <<>>
  BY <1>1, PairWords, CutKept, RoomAssumption
<1> HIDE DEF setting, ssid, pass
<1>5. next.ssid = TokenToCstr(LastWord(Where({"ssid"}) \cap 1 .. k + 1), SsidRoom)
  BY <1>2, <1>3, LastWordStep DEF Gathered, ssid
<1>6. next.pass = TokenToCstr(LastWord(Where({"pass"}) \cap 1 .. k + 1), PassRoom)
  BY <1>2, <1>3, LastWordStep DEF Gathered, pass
<1>7. next.gotSsid <=> SomeWord(Where({"ssid"}) \cap 1 .. k + 1)
  BY <1>2, <1>3, <1>4, SomeWordStep DEF Gathered
<1>8. next.gotPass \/ next.pass = <<>>
  BY <1>3 DEF Gathered
<1>9. next.calls \in Seq(AskedCalls) /\ CallsOf(next.calls, Controls \cap 1 .. k + 1)
  <2>1. CASE k + 1 \in Controls
    <3>1. CallAt(k + 1) \in AskedCalls
      BY <2>1 DEF AskedCalls
    <3>2. next.calls = Append(acc.calls, CallAt(k + 1))
      BY <1>2, <1>3, <2>1 DEF WithCall, CallAt, setting
    <3>3. CallsOf(next.calls, Controls \cap 1 .. k + 1)
      <4> DEFINE I == Controls
      <4>1. /\ acc.calls \in Seq(AskedCalls) /\ CallsOf(acc.calls, I \cap 1 .. k)
            /\ k + 1 \in I /\ I \in SUBSET Nat
        BY <1>2, <2>1 DEF Gathered
      <4> HIDE DEF I
      <4>2. CallsOf(Append(acc.calls, CallAt(k + 1)), I \cap 1 .. k + 1)
        BY <3>1, <4>1, CallsOfStep
      <4> QED
        BY <3>2, <4>2 DEF I
    <3> QED
      BY <3>1, <3>2, <3>3, AppendProperties DEF Gathered
  <2>2. CASE k + 1 \notin Controls
    <3>1. Controls \cap 1 .. k + 1 = Controls \cap 1 .. k
      BY <1>2, <2>2
    <3> QED
      BY <1>2, <1>3, <2>2, <3>1 DEF Gathered
  <2> QED
    BY <2>1, <2>2
<1> QED
  BY <1>5, <1>6, <1>7, <1>8, <1>9 DEF Gathered

(* The variables of the loop without the mark to skip a value.             *)
Cleared(acc) == [acc EXCEPT !.skip = FALSE]

(* The mark is all that changes.                                           *)
LEMMA ClearedFields ==
  \A acc, k : IsAcc(acc) /\ Gathered(acc, k) =>
    IsAcc(Cleared(acc)) /\ Cleared(acc).skip = FALSE /\ Gathered(Cleared(acc), k)
<1> SUFFICES ASSUME NEW acc, IsAcc(acc), NEW k, Gathered(acc, k),
                    NEW next, next = Cleared(acc)
             PROVE  IsAcc(next) /\ next.skip = FALSE /\ Gathered(next, k)
  OBVIOUS
<1>1. /\ IsAcc(next) /\ next.skip = FALSE
      /\ next.ssid = acc.ssid /\ next.pass = acc.pass
      /\ next.calls = acc.calls
      /\ next.gotSsid <=> acc.gotSsid
      /\ next.gotPass <=> acc.gotPass
  BY DEF IsAcc, Cleared
<1> QED
  BY <1>1 DEF Gathered

(* The two rounds for a pair: its key, and its value unless the key        *)
(* consumed it.  The value of an unknown key is read as a key; it does     *)
(* nothing as long as it is none.                                          *)
LEMMA GatherTwoRounds ==
  ASSUME PacketTyped, ~KeyLikeValue,
         NEW n \in Nat, Len(packet.pairs) = n, NEW k \in Nat, k + 1 <= n,
         NEW acc, IsAcc(acc), acc.skip = FALSE, Gathered(acc, k)
  PROVE  LET toks == TokensOf(packet.pairs)
             next == GatherToken(GatherToken(acc, toks, 2 * k + 2), toks, 2 * k + 3)
         IN  IsAcc(next) /\ next.skip = FALSE /\ Gathered(next, k + 1)
<1> DEFINE toks == TokensOf(packet.pairs)
           pair == packet.pairs[k + 1]
           key  == SettingOf(pair.key)
           mid  == GatherPair(acc, pair.key, pair.word)
           next == GatherToken(GatherToken(acc, toks, 2 * k + 2), toks, 2 * k + 3)
<1> SUFFICES IsAcc(next) /\ next.skip = FALSE /\ Gathered(next, k + 1)
  OBVIOUS
<1>1. /\ Len(toks) = 2 * n + 1
      /\ toks[2 * k + 2] = [type |-> "string", word |-> pair.key]
      /\ toks[2 * k + 3] = [type |-> pair.type, word |-> pair.word]
  <2> DEFINE i == k + 1
  <2>1. i \in 1 .. n /\ 2 * i = 2 * k + 2 /\ 2 * i + 1 = 2 * k + 3
    OBVIOUS
  <2>2. /\ Len(toks) = 2 * n + 1
        /\ \A j \in 1 .. n :
             /\ toks[2 * j] = [type |-> "string", word |-> packet.pairs[j].key]
             /\ toks[2 * j + 1] = [type |-> packet.pairs[j].type, word |-> packet.pairs[j].word]
    BY TokensAt
  <2> HIDE DEF toks, i
  <2>3. /\ toks[2 * i] = [type |-> "string", word |-> packet.pairs[i].key]
        /\ toks[2 * i + 1] = [type |-> packet.pairs[i].type, word |-> packet.pairs[i].word]
    BY <2>1, <2>2
  <2> QED
    BY <2>1, <2>2, <2>3 DEF i
<1>2. GatherToken(acc, toks, 2 * k + 2) = mid
  <2>1. 2 * k + 2 # 2 * n + 1
    OBVIOUS
  <2> HIDE DEF toks
  <2> QED
    BY <1>1, <2>1, SMTT(30) DEF GatherToken
<1>3. Gathered(mid, k + 1)
  BY GatherPairStep
<1> HIDE DEF toks, key
<1>4. IsAcc(mid)
  BY GatherPairFields DEF PairDone
<1>5. CASE key # "none"
  <2>1. mid.skip = TRUE
    BY <1>5, GatherPairFields DEF PairDone, key
  <2>2. GatherToken(mid, toks, 2 * k + 3) = Cleared(mid)
    BY <2>1 DEF GatherToken, Cleared
  <2>3. next = Cleared(mid)
    BY <1>2, <2>2
  <2> HIDE DEF mid, next
  <2> QED
    BY <1>3, <1>4, <2>3, ClearedFields
<1>6. CASE key = "none"
  <2>1. mid = acc
    BY <1>6, GatherPairFields DEF PairDone, key
  <2>2. pair.type = "string" => SettingOf(pair.word) = "none"
    BY <1>6, PairsNumbered DEF KeyLikeValue, key
  <2>3. GatherToken(mid, toks, 2 * k + 3) = acc
    <3>1. CASE pair.type = "string" /\ 2 * k + 3 # Len(toks)
      <4> DEFINE val == toks[2 * k + 3 + 1].word
      <4>1. GatherToken(acc, toks, 2 * k + 3) = GatherPair(acc, pair.word, val)
        BY <1>1, <3>1 DEF GatherToken
      <4> HIDE DEF val
      <4> QED
        BY <2>1, <2>2, <3>1, <4>1, GatherPairFields DEF PairDone
    <3>2. CASE ~(pair.type = "string" /\ 2 * k + 3 # Len(toks))
      BY <1>1, <2>1, <3>2 DEF GatherToken
    <3> QED
      BY <3>1, <3>2
  <2> HIDE DEF mid
  <2>4. next = acc
    BY <1>2, <2>3
  <2>5. IsAcc(acc) /\ acc.skip = FALSE /\ Gathered(acc, k + 1)
    BY <1>3, <2>1
  <2> HIDE DEF next
  <2> QED
    BY <2>4, <2>5
<1> QED
  BY <1>5, <1>6

(* Before the first pair nothing is gathered.                              *)
LEMMA NothingGathered == IsAcc(GatherStart) /\ Gathered(GatherStart, 0)
<1>1. \A I : I \cap 1 .. 0 = {}
  OBVIOUS
<1>2. CallsOf(<<>>, {})
  <2>1. DOMAIN <<>> = {}
    OBVIOUS
  <2>2. [j \in {} |-> 0] \in [{} -> {}]
    OBVIOUS
  <2> QED
    BY <2>1, <2>2 DEF CallsOf
<1>3. LastWord({}) = <<>> /\ ~SomeWord({})
  BY DEF LastWord, SomeWord
<1>4. <<>> \in Seq(AskedCalls)
  OBVIOUS
<1>5. TokenToCstr(<<>>, SsidRoom) = <<>> /\ TokenToCstr(<<>>, PassRoom) = <<>>
  <2>1. <<>> \in Seq(STRING)
    OBVIOUS
  <2> QED
    BY <2>1, CutKept, RoomAssumption
<1>6. /\ GatherStart.calls = <<>> /\ GatherStart.ssid = <<>> /\ GatherStart.pass = <<>>
      /\ ~GatherStart.gotSsid /\ IsAcc(GatherStart)
  BY DEF GatherStart, IsAcc
<1> HIDE DEF GatherStart
<1> QED
  BY <1>1, <1>2, <1>3, <1>4, <1>5, <1>6 DEF Gathered

(* The loop gathers what all the pairs ask for.                            *)
LEMMA GatherAll ==
  ASSUME PacketTyped, ~KeyLikeValue
  PROVE  Gathered(Gather(TokensOf(packet.pairs)), Len(packet.pairs))
<1> DEFINE n == Len(packet.pairs)
           toks == TokensOf(packet.pairs)
<1>1. n \in Nat /\ Len(toks) = 2 * n + 1 /\ toks[1].type = "object"
  <2>1. n \in Nat
    BY PairsNumbered
  <2>2. Len(toks) = 2 * n + 1 /\ toks[1].type = "object"
    BY <2>1, TokensAt
  <2> HIDE DEF n, toks
  <2> QED
    BY <2>1, <2>2
<1> HIDE DEF n, toks
<1>2. PICK after :
        /\ after = [i \in 0 .. Len(toks) |->
                     IF i = 0 THEN GatherStart ELSE GatherToken(after[i - 1], toks, i)]
        /\ Gather(toks) = after[Len(toks)]
  BY <1>1, GatherRounds
<1>3. after[0] = GatherStart
  BY <1>1, <1>2
<1>4. ASSUME NEW i \in 1 .. 2 * n + 1 PROVE after[i] = GatherToken(after[i - 1], toks, i)
  BY <1>1, <1>2
<1> DEFINE Done(k) ==
      /\ IsAcc(after[2 * k + 1]) /\ after[2 * k + 1].skip = FALSE
      /\ Gathered(after[2 * k + 1], k)
    S == {k \in Nat : k <= n => Done(k)}
<1>5. 0 \in S
  <2>1. after[1] = GatherToken(GatherStart, toks, 1)
    BY <1>1, <1>3, <1>4
  <2>2. GatherStart.skip = FALSE
    BY DEF GatherStart
  <2>3. after[1] = GatherStart
    BY <1>1, <2>1, <2>2 DEF GatherToken
  <2> QED
    BY <2>2, <2>3, NothingGathered
<1>6. ASSUME NEW k \in S PROVE k + 1 \in S
  <2> SUFFICES ASSUME k + 1 <= n PROVE Done(k + 1)
    <3>1. (k + 1 <= n => Done(k + 1)) => k + 1 \in S
      <4> HIDE DEF Done
      <4> QED
        OBVIOUS
    <3> QED
      BY <3>1
  <2> DEFINE acc == after[2 * k + 1]
  <2>1. IsAcc(acc) /\ acc.skip = FALSE /\ Gathered(acc, k)
    BY <1>1
  <2>2. after[2 * k + 2] = GatherToken(acc, toks, 2 * k + 2)
    <3>1. 2 * k + 2 \in 1 .. 2 * n + 1 /\ 2 * k + 2 - 1 = 2 * k + 1
      BY <1>1
    <3> QED
      BY <1>4, <3>1
  <2>3. after[2 * k + 3] = GatherToken(after[2 * k + 2], toks, 2 * k + 3)
    <3>1. 2 * k + 3 \in 1 .. 2 * n + 1 /\ 2 * k + 3 - 1 = 2 * k + 2
      BY <1>1
    <3> QED
      BY <1>4, <3>1
  <2>4. 2 * (k + 1) + 1 = 2 * k + 3
    OBVIOUS
  <2> HIDE DEF acc
  <2> DEFINE next == GatherToken(GatherToken(acc, toks, 2 * k + 2), toks, 2 * k + 3)
  <2>5. IsAcc(next) /\ next.skip = FALSE /\ Gathered(next, k + 1)
    BY <1>1, <2>1, GatherTwoRounds DEF n, toks
  <2>6. after[2 * (k + 1) + 1] = next
    BY <2>2, <2>3, <2>4
  <2> HIDE DEF next
  <2> QED
    BY <2>5, <2>6
<1> HIDE DEF S
<1>7. n \in S
  BY <1>1, <1>5, <1>6, SetInduction DEF S
<1>8. Done(n)
  BY <1>1, <1>7 DEF S
<1> QED
  BY <1>1, <1>2, <1>8 DEF n, toks

(* What the loop has gathered from all pairs is what the packet asks for.  *)
LEMMA GatheredAsked ==
  ASSUME PacketTyped, NEW acc, Gathered(acc, Len(packet.pairs))
  PROVE  /\ CallsOf(acc.calls, Controls)
         /\ acc.calls # <<>> <=> Controls # {}
         /\ acc.ssid = TokenToCstr(LastWord(Where({"ssid"})), SsidRoom)
         /\ acc.pass = TokenToCstr(LastWord(Where({"pass"})), PassRoom)
         /\ acc.gotSsid <=> Provisions
         /\ acc.gotPass \/ acc.pass = <<>>
<1> DEFINE n == Len(packet.pairs)
<1>1. \A I : I \subseteq 1 .. n => I \cap 1 .. n = I
  OBVIOUS
<1>2. /\ Where({"ssid"}) \subseteq 1 .. n /\ Where({"pass"}) \subseteq 1 .. n
      /\ Controls \subseteq 1 .. n
  BY WhereIs DEF Controls
<1>3. acc.calls \in Seq(AskedCalls) /\ CallsOf(acc.calls, Controls \cap 1 .. n)
  BY DEF Gathered
<1> HIDE DEF n
<1>4. CallsOf(acc.calls, Controls)
  BY <1>1, <1>2, <1>3
<1>5. acc.calls # <<>> <=> Controls # {}
  <2> DEFINE calls == acc.calls
  <2>1. PICK at \in [DOMAIN calls -> Controls] : \A i \in Controls :
          \E k \in DOMAIN calls : at[k] = i
    BY <1>4 DEF CallsOf
  <2>2. calls \in Seq(AskedCalls)
    BY <1>3
  <2> HIDE DEF calls
  <2>3. calls # <<>> <=> DOMAIN calls # {}
    BY <2>2
  <2>4. DOMAIN calls # {} <=> Controls # {}
    BY <2>1
  <2> QED
    BY <2>3, <2>4 DEF calls
<1>6. /\ acc.ssid = TokenToCstr(LastWord(Where({"ssid"})), SsidRoom)
      /\ acc.pass = TokenToCstr(LastWord(Where({"pass"})), PassRoom)
      /\ acc.gotSsid <=> Provisions
      /\ acc.gotPass \/ acc.pass = <<>>
  BY <1>1, <1>2 DEF Gathered, SomeWord, Provisions, n
<1> QED
  BY <1>4, <1>5, <1>6

(* The last word of a kind is a sequence of characters.                    *)
LEMMA LastWordTyped ==
  ASSUME PacketTyped, NEW I \in SUBSET (1 .. Len(packet.pairs)) PROVE LastWord(I) \in Seq(STRING)
<1>1. CASE I = {}
  BY <1>1 DEF LastWord
<1>2. CASE I # {}
  <2>1. Max(I) \in I
    <3>1. Len(packet.pairs) \in Nat
      BY PairsNumbered
    <3>2. \E x \in I : \A y \in I : x >= y
      <4>1. I \in SUBSET Nat /\ \A y \in I : y <= Len(packet.pairs)
        BY <3>1
      <4> QED
        BY <1>2, <3>1, <4>1, LargestOf
    <3> QED
      BY <3>2 DEF Max
  <2>2. LastWord(I) = packet.pairs[Max(I)].word
    BY <1>2 DEF LastWord
  <2> QED
    BY <2>1, <2>2, PairWords
<1> QED
  BY <1>1, <1>2

(* What is kept of the last words is what the packet asks for.             *)
LEMMA CutAsked ==
  ASSUME PacketTyped, NEW cred,
         cred.queued = Provisions,
         cred.queued => /\ cred.ssid = TokenToCstr(LastWord(Where({"ssid"})), SsidRoom)
                        /\ cred.pass = TokenToCstr(LastWord(Where({"pass"})), PassRoom)
  PROVE  CredAsked(cred)
<1> DEFINE ssid == LastWord(Where({"ssid"}))
           pass == LastWord(Where({"pass"}))
<1>1. ssid \in Seq(STRING) /\ pass \in Seq(STRING)
  BY WhereIs, LastWordTyped
<1> HIDE DEF ssid, pass
<1>2. /\ Kept(TokenToCstr(ssid, SsidRoom), ssid, SsidRoom)
      /\ Kept(TokenToCstr(pass, PassRoom), pass, PassRoom)
  BY <1>1, CutKept, RoomAssumption
<1> QED
  BY <1>2 DEF CredAsked, ssid, pass

(* A typed packet of the JSON form is applied whole.                       *)
LEMMA JsonWhole == PacketTyped => JsonAppliedWhole
<1> SUFFICES ASSUME PacketTyped, packet.form = "json", Fits, ~KeyLikeValue,
                    Controls # {} \/ Provisions
             PROVE  LET result == ParserHandlePacket(packet) IN
                    /\ result.handled
                    /\ CallsOf(result.calls, Controls)
                    /\ CredAsked(result.cred)
  BY DEF JsonAppliedWhole
<1> DEFINE g == Gather(TokensOf(packet.pairs))
           json == ParserHandlePacketJson(packet)
           pass == IF g.gotPass THEN g.pass ELSE <<>>
<1>1. Gathered(g, Len(packet.pairs))
  BY GatherAll
<1>2. /\ CallsOf(g.calls, Controls)
      /\ g.calls # <<>> <=> Controls # {}
      /\ g.ssid = TokenToCstr(LastWord(Where({"ssid"})), SsidRoom)
      /\ g.pass = TokenToCstr(LastWord(Where({"pass"})), PassRoom)
      /\ g.gotSsid <=> Provisions
      /\ g.gotPass \/ g.pass = <<>>
  <2> HIDE DEF g
  <2> QED
    BY <1>1, GatheredAsked
<1>3. ~(Len(TokensOf(packet.pairs)) > JsmnTokenMax)
  <2> DEFINE n == Len(packet.pairs)
             m == Len(TokensOf(packet.pairs))
  <2>1. n \in Nat
    BY PairsNumbered
  <2>2. m = 2 * n + 1
    BY <2>1, TokensAt
  <2>3. 2 * n + 1 <= JsmnTokenMax
    BY DEF Fits
  <2> HIDE DEF m, n
  <2>4. ~(m > JsmnTokenMax)
    BY <2>1, <2>2, <2>3, RoomAssumption
  <2> QED
    BY <2>4 DEF m
<1>4. json = [handled |-> g.gotSsid \/ g.calls # <<>>,
              calls |-> g.calls,
              cred |-> IF g.gotSsid THEN Cred(g.ssid, pass) ELSE NoCred]
  <2> HIDE DEF g
  <2> QED
    BY <1>3 DEF ParserHandlePacketJson, g
<1> HIDE DEF g, json
<1>5. json.handled <=> g.gotSsid \/ g.calls # <<>>
  BY <1>4
<1>6. json.calls = g.calls
  BY <1>4
<1>7. json.cred = IF g.gotSsid THEN Cred(g.ssid, pass) ELSE NoCred
  BY <1>4
<1>8. pass = g.pass
  BY <1>2
<1> HIDE DEF pass
<1>9. CredAsked(json.cred)
  <2> DEFINE cred == json.cred
  <2>1. /\ cred.queued = Provisions
        /\ cred.queued => cred.ssid = g.ssid /\ cred.pass = g.pass
    <3>1. CASE g.gotSsid
      <4>1. cred = [ssid |-> g.ssid, pass |-> g.pass, queued |-> TRUE]
        BY <1>7, <1>8, <3>1 DEF Cred
      <4> HIDE DEF cred
      <4>2. cred.ssid = g.ssid /\ cred.pass = g.pass /\ cred.queued = TRUE
        BY <4>1
      <4>3. Provisions = TRUE
        BY <1>2, <3>1 DEF Provisions
      <4> QED
        BY <4>2, <4>3
    <3>2. CASE ~g.gotSsid
      <4>1. cred.queued = FALSE
        BY <1>7, <3>2 DEF NoCred
      <4>2. Provisions = FALSE
        BY <1>2, <3>2 DEF Provisions
      <4> QED
        BY <4>1, <4>2
    <3> QED
      BY <3>1, <3>2
  <2> HIDE DEF cred
  <2> QED
    BY <1>2, <2>1, CutAsked DEF cred
<1>10. json.handled
  BY <1>2, <1>5
<1>11. ParserHandlePacket(packet) = json
  BY <1>10 DEF ParserHandlePacket, json
<1> QED
  BY <1>2, <1>6, <1>9, <1>10, <1>11

(* Every packet the environment can send is typed.                         *)
THEOREM PacketAlwaysTyped == Spec => []PacketTyped
<1>1. Init => PacketTyped
  <2> SUFFICES ASSUME Init PROVE PacketTyped
    OBVIOUS
  <2>1. /\ packet = [form |-> packet.form, pairs |-> <<>>]
        /\ packet.form \in {"json", "text"}
    BY DEF Init
  <2>2. <<>> \in Seq(JsonPairs) /\ <<>> \in Seq(TextPairs)
    OBVIOUS
  <2>3. CASE packet.form = "json"
    <3>1. packet = [form |-> "json", pairs |-> <<>>]
      BY <2>1, <2>3
    <3> QED
      BY <2>2, <3>1 DEF PacketTyped
  <2>4. CASE packet.form = "text"
    <3>1. packet = [form |-> "text", pairs |-> <<>>]
      BY <2>1, <2>4
    <3> QED
      BY <2>2, <3>1 DEF PacketTyped
  <2> QED
    BY <2>1, <2>3, <2>4
<1> QED
  BY <1>1, NextPacketTyped, PTL DEF Spec

(* A JSON packet with a setting in it is applied whole, however long it is *)
(* and however deep its objects are nested.                                *)
THEOREM JsonAlwaysAppliedWhole == Spec => []JsonAppliedWhole
  BY PacketAlwaysTyped, JsonWhole, PTL

----------------------------------------------------------------------------
(* The characters of a text: where those of each pair are.                 *)

(* Where the pieces of a flat sequence are: piece i after position         *)
(* off[i - 1], and nothing else.                                           *)
Laid(flat, seqs, off, n, C) ==
  /\ flat \in Seq(C) /\ off \in [0 .. n -> Nat] /\ Len(flat) = off[n]
  /\ \A i \in 1 .. n : \A j \in 1 .. Len(seqs[i]) :
       off[i - 1] + j <= off[n] /\ flat[off[i - 1] + j] = seqs[i][j]
  /\ \A m \in 1 .. off[n] : \E i \in 1 .. n : \E j \in 1 .. Len(seqs[i]) : m = off[i - 1] + j

(* One more piece at the end.                                              *)
LEMMA LaidStep ==
  ASSUME NEW C, NEW k \in Nat, NEW seqs, seqs[k + 1] \in Seq(C), NEW flat, NEW off,
         \A i \in 1 .. k : seqs[i] \in Seq(C),
         Laid(flat, seqs, off, k, C)
  PROVE  \E more : Laid(flat \o seqs[k + 1], seqs, more, k + 1, C)
<1> DEFINE piece == seqs[k + 1]
           end   == off[k] + Len(piece)
           now   == flat \o piece
           more  == [i \in 0 .. k + 1 |-> IF i = k + 1 THEN end ELSE off[i]]
<1>1. /\ flat \in Seq(C) /\ off \in [0 .. k -> Nat] /\ Len(flat) = off[k]
      /\ off[k] \in Nat /\ Len(piece) \in Nat /\ end \in Nat
  BY LenProperties DEF Laid
<1>2. /\ now \in Seq(C) /\ Len(now) = end
      /\ \A m \in 1 .. end : now[m] = IF m <= off[k] THEN flat[m] ELSE piece[m - off[k]]
  <2> DEFINE a == off[k]
             b == Len(piece)
  <2>1. piece \in Seq(C) /\ Len(flat) = a /\ a \in Nat /\ b \in Nat
    BY <1>1
  <2> HIDE DEF piece, a
  <2>2. /\ flat \o piece \in Seq(C) /\ Len(flat \o piece) = Len(flat) + Len(piece)
        /\ \A m \in 1 .. Len(flat) + Len(piece) :
             (flat \o piece)[m] = IF m <= Len(flat) THEN flat[m] ELSE piece[m - Len(flat)]
    BY <1>1, <2>1, ConcatProperties
  <2> QED
    BY <2>1, <2>2 DEF a
<1>3. /\ more \in [0 .. k + 1 -> Nat] /\ more[k + 1] = end
      /\ \A i \in 0 .. k : more[i] = off[i]
  BY <1>1
<1>4. /\ \A i \in 1 .. k : \A j \in 1 .. Len(seqs[i]) :
           off[i - 1] + j <= off[k] /\ flat[off[i - 1] + j] = seqs[i][j]
      /\ \A m \in 1 .. off[k] : \E i \in 1 .. k : \E j \in 1 .. Len(seqs[i]) : m = off[i - 1] + j
  BY DEF Laid
<1>5. \A i \in 1 .. k : Len(seqs[i]) \in Nat
  BY LenProperties
<1> HIDE DEF more, now
<1>6. ASSUME NEW i \in 1 .. k + 1, NEW j \in 1 .. Len(seqs[i])
      PROVE  more[i - 1] + j <= more[k + 1] /\ now[more[i - 1] + j] = seqs[i][j]
  <2>1. CASE i = k + 1
    <3>1. more[i - 1] = off[k] /\ j \in 1 .. Len(piece)
      BY <1>3, <2>1
    <3>2. off[k] + j \in 1 .. end /\ ~(off[k] + j <= off[k]) /\ off[k] + j - off[k] = j
      BY <1>1, <3>1, SMTT(30)
    <3> DEFINE m == off[k] + j
    <3> HIDE DEF end, piece
    <3>3. now[m] = piece[j]
      <4>1. m \in 1 .. end /\ ~(m <= off[k]) /\ m - off[k] = j
        BY <1>1, <3>1, <3>2
      <4> HIDE DEF m
      <4> QED
        BY <1>2, <4>1
    <3> QED
      BY <1>3, <2>1, <3>1, <3>2, <3>3 DEF piece
  <2>2. CASE i # k + 1
    <3>1. i \in 1 .. k /\ i - 1 \in 0 .. k
      BY <2>2
    <3>2. /\ more[i - 1] = off[i - 1] /\ off[i - 1] \in Nat
          /\ off[i - 1] + j <= off[k] /\ flat[off[i - 1] + j] = seqs[i][j]
      BY <1>1, <1>3, <1>4, <3>1
    <3>3. j \in Nat \ {0}
      BY <1>5, <3>1
    <3>4. off[i - 1] + j \in 1 .. end
      BY <1>1, <3>2, <3>3, SMTT(30)
    <3> HIDE DEF end, piece
    <3> QED
      BY <1>1, <1>2, <1>3, <3>2, <3>4 DEF end
  <2> QED
    BY <2>1, <2>2
<1>7. ASSUME NEW m \in 1 .. more[k + 1]
      PROVE  \E i \in 1 .. k + 1 : \E j \in 1 .. Len(seqs[i]) : m = more[i - 1] + j
  <2>1. CASE m <= off[k]
    <3>1. PICK i \in 1 .. k : \E j \in 1 .. Len(seqs[i]) : m = off[i - 1] + j
      BY <1>1, <1>3, <1>4, <2>1, SMTT(30)
    <3>2. i \in 1 .. k + 1 /\ more[i - 1] = off[i - 1]
      BY <1>3
    <3> QED
      BY <3>1, <3>2
  <2>2. CASE ~(m <= off[k])
    <3>1. m - off[k] \in 1 .. Len(piece) /\ m = off[k] + (m - off[k])
      BY <1>1, <1>3, <2>2
    <3>2. k + 1 \in 1 .. k + 1 /\ more[k + 1 - 1] = off[k]
      BY <1>3
    <3> QED
      BY <3>1, <3>2
  <2> QED
    BY <2>1, <2>2
<1>8. Laid(now, seqs, more, k + 1, C)
  BY <1>2, <1>3, <1>6, <1>7 DEF Laid
<1> QED
  BY <1>8 DEF now

(* The loop of FlattenSeq appends one piece after the other.               *)
LEMMA FlattenRounds ==
  ASSUME NEW seqs, NEW n \in Nat \ {0}, Len(seqs) = n
  PROVE  \E flatten :
           /\ flatten = [i \in 1 .. n |-> IF i = 1 THEN seqs[i] ELSE flatten[i - 1] \o seqs[i]]
           /\ FlattenSeq(seqs) = flatten[n]
<1> DEFINE Is(g, k) == g = [i \in 1 .. k |-> IF i = 1 THEN seqs[i] ELSE g[i - 1] \o seqs[i]]
           S == {k \in Nat : \E g : Is(g, k)}
<1>1. 0 \in S
  <2> DEFINE g == [i \in 1 .. 0 |-> seqs[i]]
  <2>1. Is(g, 0)
    OBVIOUS
  <2> HIDE DEF g, Is
  <2> QED
    BY <2>1
<1>2. ASSUME NEW k \in S PROVE k + 1 \in S
  <2>1. PICK g : Is(g, k)
    OBVIOUS
  <2> DEFINE h == [i \in 1 .. k + 1 |->
                    IF i = k + 1 THEN IF k = 0 THEN seqs[1] ELSE g[k] \o seqs[k + 1] ELSE g[i]]
  <2>2. ASSUME NEW i \in 1 .. k + 1
        PROVE  h[i] = IF i = 1 THEN seqs[i] ELSE h[i - 1] \o seqs[i]
    <3>1. CASE i = k + 1
      <4>1. CASE k = 0
        BY <3>1, <4>1
      <4>2. CASE k # 0
        <5>1. k \in Nat /\ k \in 1 .. k + 1 /\ k # k + 1 /\ i - 1 = k /\ i # 1
          BY <3>1, <4>2
        <5>2. h[k] = g[k]
          BY <5>1
        <5>3. h[i] = g[k] \o seqs[k + 1]
          BY <3>1, <4>2
        <5> HIDE DEF h
        <5> QED
          BY <3>1, <5>1, <5>2, <5>3
      <4> QED
        BY <4>1, <4>2
    <3>2. CASE i # k + 1
      <4>1. h[i] = g[i] /\ (i # 1 => h[i - 1] = g[i - 1]) /\ i \in 1 .. k
        BY <3>2
      <4> HIDE DEF h
      <4>2. g[i] = IF i = 1 THEN seqs[i] ELSE g[i - 1] \o seqs[i]
        BY <2>1, <4>1
      <4> QED
        BY <4>1, <4>2
    <3> QED
      BY <3>1, <3>2
  <2>3. Is(h, k + 1)
    BY <2>2
  <2> HIDE DEF h, Is
  <2>4. \E f : Is(f, k + 1)
    BY <2>3
  <2> QED
    BY <2>4
<1> HIDE DEF S
<1>3. n \in S
  BY <1>1, <1>2, SetInduction DEF S
<1>4. \E g : Is(g, n)
  BY <1>3 DEF S
<1>5. LET flatten == CHOOSE g : Is(g, n) IN FlattenSeq(seqs) = flatten[n]
  BY DEF FlattenSeq
<1> QED
  BY <1>4, <1>5

(* FlattenSeq lays out its pieces.                                         *)
LEMMA FlattenPlaces ==
  ASSUME NEW C, NEW n \in Nat, NEW seqs \in [1 .. n -> Seq(C)]
  PROVE  \E off : Laid(FlattenSeq(seqs), seqs, off, n, C)
<1> DEFINE none == [i \in 0 .. 0 |-> 0]
<1>1. Laid(<<>>, seqs, none, 0, C)
  <2>1. none \in [0 .. 0 -> Nat] /\ none[0] = 0 /\ Len(<<>>) = 0 /\ <<>> \in Seq(C)
    OBVIOUS
  <2> HIDE DEF none
  <2> QED
    BY <2>1 DEF Laid
<1>2. Len(seqs) = n
  OBVIOUS
<1>3. CASE n = 0
  <2>1. FlattenSeq(seqs) = <<>>
    BY <1>2, <1>3 DEF FlattenSeq
  <2> HIDE DEF none
  <2> QED
    BY <1>1, <1>3, <2>1
<1>4. CASE n # 0
  <2>1. PICK flatten :
          /\ flatten = [i \in 1 .. n |-> IF i = 1 THEN seqs[i] ELSE flatten[i - 1] \o seqs[i]]
          /\ FlattenSeq(seqs) = flatten[n]
    BY <1>2, <1>4, FlattenRounds
  <2>2. flatten[1] = seqs[1]
    BY <1>4, <2>1
  <2>3. ASSUME NEW i \in 2 .. n PROVE flatten[i] = flatten[i - 1] \o seqs[i]
    <3>1. i \in 1 .. n /\ i # 1
      OBVIOUS
    <3>2. flatten[i] = IF i = 1 THEN seqs[i] ELSE flatten[i - 1] \o seqs[i]
      BY <2>1, <3>1
    <3> QED
      BY <3>1, <3>2
  <2> DEFINE Done(k) == \E off : Laid(flatten[k + 1], seqs, off, k + 1, C)
             S == {k \in Nat : k + 1 <= n => Done(k)}
  <2>4. 0 \in S
    <3>1. seqs[0 + 1] \in Seq(C) /\ 0 + 1 = 1
      BY <1>4
    <3>2. <<>> \o seqs[1] = seqs[1]
      BY <3>1, ConcatEmptySeq
    <3> HIDE DEF none
    <3>3. \E off : Laid(<<>> \o seqs[0 + 1], seqs, off, 0 + 1, C)
      <4>1. \A i \in 1 .. 0 : seqs[i] \in Seq(C)
        OBVIOUS
      <4> QED
        BY <1>1, <3>1, <4>1, LaidStep
    <3> QED
      BY <2>2, <3>1, <3>2, <3>3
  <2>5. ASSUME NEW k \in S PROVE k + 1 \in S
    <3> SUFFICES ASSUME k + 1 + 1 <= n PROVE Done(k + 1)
      <4>1. (k + 1 + 1 <= n => Done(k + 1)) => k + 1 \in S
        <5> HIDE DEF Done
        <5> QED
          OBVIOUS
      <4> QED
        BY <4>1
    <3>1. Done(k)
      <4> HIDE DEF Done
      <4> QED
        OBVIOUS
    <3>2. PICK off : Laid(flatten[k + 1], seqs, off, k + 1, C)
      BY <3>1
    <3>3. /\ seqs[k + 1 + 1] \in Seq(C) /\ \A i \in 1 .. k + 1 : seqs[i] \in Seq(C)
          /\ k + 1 \in Nat
      OBVIOUS
    <3>4. \E more : Laid(flatten[k + 1] \o seqs[k + 1 + 1], seqs, more, k + 1 + 1, C)
      BY <3>2, <3>3, LaidStep
    <3>5. flatten[k + 1 + 1] = flatten[k + 1] \o seqs[k + 1 + 1]
      <4> DEFINE i == k + 1 + 1
      <4>1. i \in 2 .. n /\ i - 1 = k + 1
        OBVIOUS
      <4> HIDE DEF i
      <4>2. flatten[i] = flatten[k + 1] \o seqs[i]
        BY <2>3, <4>1
      <4> QED
        BY <4>2 DEF i
    <3> QED
      BY <3>4, <3>5
  <2> HIDE DEF S
  <2>6. n - 1 \in S
    <3>1. S = Nat
      <4>1. S \in SUBSET Nat
        BY DEF S
      <4> QED
        BY <2>4, <2>5, <4>1, SetInduction
    <3> QED
      BY <1>4, <3>1
  <2>7. Done(n - 1) /\ n - 1 + 1 = n
    <3> HIDE DEF Done
    <3> QED
      BY <2>6 DEF S
  <2> QED
    BY <2>1, <2>7
<1> QED
  BY <1>3, <1>4

(* t is s with r after it.                                                 *)
Joined(t, s, r) ==
  /\ t \in Seq(STRING) /\ Len(t) = Len(s) + Len(r)
  /\ \A k \in 1 .. Len(s) : t[k] = s[k]
  /\ \A k \in 1 .. Len(r) : t[Len(s) + k] = r[k]

LEMMA Cat == \A s, r \in Seq(STRING) : Joined(s \o r, s, r)
<1> SUFFICES ASSUME NEW s \in Seq(STRING), NEW r \in Seq(STRING) PROVE Joined(s \o r, s, r)
  OBVIOUS
<1> DEFINE a == Len(s)
           b == Len(r)
           t == s \o r
<1>1. /\ t \in Seq(STRING) /\ Len(t) = a + b
      /\ \A k \in 1 .. a + b : t[k] = IF k <= a THEN s[k] ELSE r[k - a]
  BY ConcatProperties
<1>2. a \in Nat /\ b \in Nat
  BY LenProperties
<1> HIDE DEF a, b, t
<1>3. ASSUME NEW k \in 1 .. a PROVE t[k] = s[k]
  BY <1>1, <1>2
<1>4. ASSUME NEW k \in 1 .. b PROVE t[a + k] = r[k]
  <2> DEFINE m == a + k
  <2>1. m \in 1 .. a + b /\ ~(m <= a) /\ m - a = k
    BY <1>2
  <2> HIDE DEF m
  <2>2. t[m] = r[k]
    BY <1>1, <2>1
  <2> QED
    BY <2>2 DEF m
<1>5. Joined(t, s, r)
  BY <1>1, <1>3, <1>4 DEF Joined, a, b
<1> QED
  BY <1>5 DEF t

(* What separates the key of a pair from its value, and what ends it.      *)
Opening(pair) == IF pair.type = "string" THEN 2 ELSE 1
Closing(pair) == IF pair.type = "string" THEN "quote" ELSE "comma"

(* A pair is written in t from position off + 1 on.                        *)
Placed(t, off, pair) ==
  /\ off \in Nat
  /\ off + Len(pair.key) + Opening(pair) + Len(pair.word) + 1 <= Len(t)
  /\ \A j \in 1 .. Len(pair.key) : t[off + j] = pair.key[j]
  /\ t[off + Len(pair.key) + 1] = "colon"
  /\ pair.type = "string" => t[off + Len(pair.key) + 2] = "quote"
  /\ \A j \in 1 .. Len(pair.word) : t[off + Len(pair.key) + Opening(pair) + j] = pair.word[j]
  /\ t[off + Len(pair.key) + Opening(pair) + Len(pair.word) + 1] = Closing(pair)

(* Position m is in the key of that pair, or in its value.                 *)
InKey(m, off, pair) == \E j \in 1 .. Len(pair.key) : m = off + j
InWord(m, off, pair) ==
  \E j \in 1 .. Len(pair.word) : m = off + Len(pair.key) + Opening(pair) + j

PieceOf(pair) ==
  pair.key \o <<"colon">> \o (IF pair.type = "string" THEN Quoted(pair.word) ELSE pair.word)
    \o <<"comma">>

(* The delimiters a pair is written with are characters.                   *)
LEMMA OneCharacter ==
  \A c \in Delimiters : <<c>> \in Seq(STRING) /\ Len(<<c>>) = 1 /\ <<c>>[1] = c
  BY CharacterAssumption

(* A string in its quotes.                                                 *)
LEMMA QuotedIs ==
  ASSUME NEW w \in Seq(STRING)
  PROVE  /\ Quoted(w) \in Seq(STRING) /\ Len(Quoted(w)) = Len(w) + 2
         /\ Quoted(w)[1] = "quote" /\ Quoted(w)[Len(w) + 2] = "quote"
         /\ \A j \in 1 .. Len(w) : Quoted(w)[1 + j] = w[j]
<1> DEFINE q == <<"quote">>
           r == q \o w
           s == r \o q
           n == Len(w)
<1>1. q \in Seq(STRING) /\ Len(q) = 1 /\ q[1] = "quote"
  BY OneCharacter DEF Delimiters, Quotes
<1>2. n \in Nat
  BY LenProperties
<1> HIDE DEF q
<1>3. /\ r \in Seq(STRING) /\ Len(r) = 1 + n /\ r[1] = "quote"
      /\ \A j \in 1 .. n : r[1 + j] = w[j]
  <2>1. Joined(r, q, w)
    BY <1>1, Cat
  <2> HIDE DEF r
  <2>2. /\ r \in Seq(STRING) /\ Len(r) = Len(q) + n
        /\ \A k \in 1 .. Len(q) : r[k] = q[k]
        /\ \A k \in 1 .. n : r[Len(q) + k] = w[k]
    BY <2>1 DEF Joined
  <2> HIDE DEF n
  <2> QED
    BY <1>1, <2>2
<1> HIDE DEF r
<1>4. /\ s \in Seq(STRING) /\ Len(s) = Len(r) + Len(q)
      /\ \A k \in 1 .. Len(r) : s[k] = r[k]
      /\ \A k \in 1 .. Len(q) : s[Len(r) + k] = q[k]
  <2>1. Joined(s, r, q)
    BY <1>1, <1>3, Cat
  <2> HIDE DEF s
  <2> QED
    BY <2>1 DEF Joined
<1> HIDE DEF s, n
<1>5. /\ Len(s) = n + 2 /\ s[1] = "quote" /\ s[n + 2] = "quote"
      /\ \A j \in 1 .. n : s[1 + j] = w[j]
  <2>1. 1 \in 1 .. Len(r) /\ 1 \in 1 .. Len(q) /\ Len(r) + 1 = n + 2
    BY <1>1, <1>2, <1>3
  <2>2. s[1] = "quote" /\ s[n + 2] = "quote"
    <3>1. s[Len(r) + 1] = q[1]
      BY <1>4, <2>1
    <3> QED
      BY <1>1, <1>3, <1>4, <2>1, <3>1
  <2>3. ASSUME NEW j \in 1 .. n PROVE s[1 + j] = w[j]
    <3>1. 1 + j \in 1 .. Len(r)
      BY <1>2, <1>3
    <3> QED
      BY <1>3, <1>4, <3>1
  <2> QED
    BY <1>1, <1>2, <1>3, <1>4, <2>2, <2>3
<1> QED
  BY <1>4, <1>5 DEF Quoted, n, q, r, s

(* What a pair is written as: itself, and nothing else but delimiters.     *)
LEMMA PieceIs ==
  ASSUME NEW pair, pair.key \in Seq(STRING), pair.word \in Seq(STRING)
  PROVE  /\ PieceOf(pair) \in Seq(STRING)
         /\ Placed(PieceOf(pair), 0, pair)
         /\ \A m \in 1 .. Len(PieceOf(pair)) :
              PieceOf(pair)[m] \in Delimiters \/ InKey(m, 0, pair) \/ InWord(m, 0, pair)
<1> DEFINE k == Len(pair.key)
           v == Len(pair.word)
           colon == <<"colon">>
           comma == <<"comma">>
           val == IF pair.type = "string" THEN Quoted(pair.word) ELSE pair.word
           x == Len(val)
           a == pair.key \o colon
           b == a \o val
           p == b \o comma
<1>1. /\ colon \in Seq(STRING) /\ Len(colon) = 1 /\ colon[1] = "colon"
      /\ comma \in Seq(STRING) /\ Len(comma) = 1 /\ comma[1] = "comma"
  BY OneCharacter DEF Delimiters, Separators
<1>2. k \in Nat /\ v \in Nat
  BY LenProperties
<1>3. val \in Seq(STRING) /\ x \in Nat
  BY QuotedIs, LenProperties
<1>4. /\ pair.type = "string" =>
           /\ x = v + 2 /\ val[1] = "quote" /\ val[v + 2] = "quote"
           /\ \A j \in 1 .. v : val[1 + j] = pair.word[j]
      /\ pair.type # "string" => x = v /\ val = pair.word
  BY QuotedIs
<1> HIDE DEF colon, comma, val
<1>5. /\ a \in Seq(STRING) /\ Len(a) = k + 1 /\ a[k + 1] = "colon"
      /\ \A j \in 1 .. k : a[j] = pair.key[j]
  <2>1. Joined(a, pair.key, colon)
    BY <1>1, Cat
  <2> HIDE DEF a
  <2>2. /\ a \in Seq(STRING) /\ Len(a) = k + Len(colon)
        /\ \A j \in 1 .. k : a[j] = pair.key[j]
        /\ \A j \in 1 .. Len(colon) : a[k + j] = colon[j]
    BY <2>1 DEF Joined
  <2> HIDE DEF k
  <2> QED
    BY <1>1, <2>2
<1> HIDE DEF a
<1>6. /\ b \in Seq(STRING) /\ Len(b) = k + 1 + x
      /\ \A j \in 1 .. k + 1 : b[j] = a[j]
      /\ \A j \in 1 .. x : b[k + 1 + j] = val[j]
  <2>1. Joined(b, a, val)
    BY <1>3, <1>5, Cat
  <2> HIDE DEF b
  <2>2. /\ b \in Seq(STRING) /\ Len(b) = Len(a) + x
        /\ \A j \in 1 .. Len(a) : b[j] = a[j]
        /\ \A j \in 1 .. x : b[Len(a) + j] = val[j]
    BY <2>1 DEF Joined
  <2> HIDE DEF k, x
  <2> QED
    BY <1>5, <2>2
<1> HIDE DEF b
<1>7. /\ p \in Seq(STRING) /\ Len(p) = k + 1 + x + 1 /\ p[k + 1 + x + 1] = "comma"
      /\ \A j \in 1 .. k + 1 + x : p[j] = b[j]
  <2>1. Joined(p, b, comma)
    BY <1>1, <1>6, Cat
  <2> HIDE DEF p
  <2>2. /\ p \in Seq(STRING) /\ Len(p) = Len(b) + Len(comma)
        /\ \A j \in 1 .. Len(b) : p[j] = b[j]
        /\ \A j \in 1 .. Len(comma) : p[Len(b) + j] = comma[j]
    BY <2>1 DEF Joined
  <2> HIDE DEF k, x
  <2> QED
    BY <1>1, <1>6, <2>2
<1>8. p = PieceOf(pair)
  BY DEF PieceOf, a, b, val, colon, comma
<1> HIDE DEF p, k, v, x
<1>9. \A j \in 1 .. k : p[j] = pair.key[j]
  BY SMTT(30), <1>2, <1>3, <1>5, <1>6, <1>7
<1>10. p[k + 1] = "colon"
  BY <1>2, <1>3, <1>5, <1>6, <1>7
<1>11. ASSUME NEW j \in 1 .. x PROVE p[k + 1 + j] = val[j]
  <2>1. k + 1 + j \in 1 .. k + 1 + x
    BY <1>2, <1>3
  <2> QED
    BY <1>6, <1>7, <2>1
<1>12. CASE pair.type = "string"
  <2>1. Opening(pair) = 2 /\ Closing(pair) = "quote"
    BY <1>12 DEF Opening, Closing
  <2>2. p[k + 2] = "quote" /\ p[k + 2 + v + 1] = "quote"
    <3>1. 1 \in 1 .. x /\ v + 2 \in 1 .. x /\ k + 1 + 1 = k + 2 /\ k + 1 + (v + 2) = k + 2 + v + 1
      BY <1>2, <1>4, <1>12
    <3>2. p[k + 1 + 1] = val[1] /\ p[k + 1 + (v + 2)] = val[v + 2]
      BY <1>11, <3>1
    <3> QED
      BY <1>4, <1>12, <3>1, <3>2
  <2>3. ASSUME NEW j \in 1 .. v PROVE p[k + 2 + j] = pair.word[j]
    <3>1. 1 + j \in 1 .. x /\ k + 1 + (1 + j) = k + 2 + j
      BY <1>2, <1>4, <1>12
    <3>2. p[k + 1 + (1 + j)] = val[1 + j]
      BY <1>11, <3>1
    <3> QED
      BY <1>4, <1>12, <3>1, <3>2
  <2>4. Placed(p, 0, pair)
    <3>1. k + 2 + v + 1 <= Len(p)
      BY <1>2, <1>4, <1>7, <1>12
    <3>2. /\ 0 \in Nat /\ 0 + k = k /\ 0 + k + 2 + v + 1 <= Len(p) /\ p[0 + k + 1] = "colon"
          /\ p[0 + k + 2] = "quote" /\ p[0 + k + 2 + v + 1] = "quote"
          /\ \A j \in 1 .. k : p[0 + j] = pair.key[j]
          /\ \A j \in 1 .. v : p[0 + k + 2 + j] = pair.word[j]
      BY <1>2, <1>9, <1>10, <2>2, <2>3, <3>1
    <3> QED
      BY <2>1, <3>2 DEF Placed, k, v
  <2>5. ASSUME NEW m \in 1 .. Len(p)
        PROVE  p[m] \in Delimiters \/ InKey(m, 0, pair) \/ InWord(m, 0, pair)
    <3>1. Len(p) = k + v + 4
      BY <1>2, <1>4, <1>7, <1>12
    <3>2. CASE m <= k
      <4>1. m \in 1 .. k /\ m = 0 + m
        BY <1>2, <3>2
      <4> QED
        BY <4>1 DEF InKey, k
    <3>3. CASE m > k + 2 /\ m <= k + 2 + v
      <4> DEFINE j == m - (k + 2)
      <4>1. j \in 1 .. v /\ m = 0 + k + 2 + j
        BY <1>2, <3>3
      <4> HIDE DEF j
      <4> QED
        BY <2>1, <4>1 DEF InWord, k, v
    <3>4. CASE m \in {k + 1, k + 2, k + 2 + v + 1, k + v + 4}
      <4>1. p[k + v + 4] = "comma"
        <5>1. k + v + 4 = k + 1 + x + 1
          BY <1>2, <1>4, <1>12
        <5> QED
          BY <1>7, <5>1
      <4> QED
        BY <1>10, <2>2, <3>4, <4>1 DEF Delimiters, Separators, Quotes
    <3>5. m <= k \/ (m > k + 2 /\ m <= k + 2 + v) \/ m \in {k + 1, k + 2, k + 2 + v + 1, k + v + 4}
      BY <1>2, <3>1
    <3> QED
      BY <3>2, <3>3, <3>4, <3>5
  <2> QED
    BY <1>7, <1>8, <2>4, <2>5
<1>13. CASE pair.type # "string"
  <2>1. Opening(pair) = 1 /\ Closing(pair) = "comma" /\ x = v /\ val = pair.word
    BY <1>4, <1>13 DEF Opening, Closing
  <2>2. \A j \in 1 .. v : p[k + 1 + j] = pair.word[j]
    BY <1>11, <2>1
  <2>3. Placed(p, 0, pair)
    <3>1. k + 1 + v + 1 <= Len(p) /\ p[k + 1 + v + 1] = "comma"
      BY <1>2, <1>7, <2>1
    <3>2. /\ 0 \in Nat /\ 0 + k = k /\ 0 + k + 1 + v + 1 <= Len(p) /\ p[0 + k + 1] = "colon"
          /\ p[0 + k + 1 + v + 1] = "comma"
          /\ \A j \in 1 .. k : p[0 + j] = pair.key[j]
          /\ \A j \in 1 .. v : p[0 + k + 1 + j] = pair.word[j]
      BY <1>2, <1>9, <1>10, <2>2, <3>1
    <3> QED
      BY <1>13, <2>1, <3>2 DEF Placed, k, v
  <2>4. ASSUME NEW m \in 1 .. Len(p)
        PROVE  p[m] \in Delimiters \/ InKey(m, 0, pair) \/ InWord(m, 0, pair)
    <3>1. Len(p) = k + v + 2
      BY <1>2, <1>7, <2>1
    <3>2. CASE m <= k
      <4>1. m \in 1 .. k /\ m = 0 + m
        BY <1>2, <3>2
      <4> QED
        BY <4>1 DEF InKey, k
    <3>3. CASE m > k + 1 /\ m <= k + 1 + v
      <4> DEFINE j == m - (k + 1)
      <4>1. j \in 1 .. v /\ m = 0 + k + 1 + j
        BY <1>2, <3>3
      <4> HIDE DEF j
      <4> QED
        BY <2>1, <4>1 DEF InWord, k, v
    <3>4. CASE m \in {k + 1, k + 1 + v + 1}
      BY <1>7, <1>10, <2>1, <3>4 DEF Delimiters, Separators
    <3>5. m <= k \/ (m > k + 1 /\ m <= k + 1 + v) \/ m \in {k + 1, k + 1 + v + 1}
      BY <1>2, <3>1
    <3> QED
      BY <3>2, <3>3, <3>4, <3>5
  <2> QED
    BY <1>7, <1>8, <2>3, <2>4
<1> QED
  BY <1>12, <1>13

(* The characters of a text, given where each pair begins.                 *)
TextAt(t, at) ==
  /\ t \in Seq(STRING)
  /\ \A i \in DOMAIN packet.pairs : Placed(t, at[i], packet.pairs[i])
  /\ \A m \in 1 .. Len(t) :
       \/ t[m] \in Delimiters
       \/ \E i \in DOMAIN packet.pairs :
            InKey(m, at[i], packet.pairs[i]) \/ InWord(m, at[i], packet.pairs[i])

(* A piece of a text is written where it lies in it.                       *)
LEMMA PlacedIn ==
  ASSUME NEW t \in Seq(STRING), NEW off \in Nat, NEW p \in Seq(STRING), NEW pair,
         pair.key \in Seq(STRING), pair.word \in Seq(STRING), Placed(p, 0, pair),
         \A j \in 1 .. Len(p) : off + j <= Len(t) /\ t[off + j] = p[j]
  PROVE  Placed(t, off, pair)
<1> DEFINE k == Len(pair.key)
           v == Len(pair.word)
           o == Opening(pair)
           n == Len(p)
<1>1. k \in Nat /\ v \in Nat /\ o \in {1, 2} /\ n \in Nat /\ Len(t) \in Nat
  BY LenProperties DEF Opening
<1>2. /\ 0 + k + o + v + 1 <= n
      /\ \A j \in 1 .. k : p[0 + j] = pair.key[j]
      /\ p[0 + k + 1] = "colon"
      /\ pair.type = "string" => p[0 + k + 2] = "quote"
      /\ \A j \in 1 .. v : p[0 + k + o + j] = pair.word[j]
      /\ p[0 + k + o + v + 1] = Closing(pair)
  BY DEF Placed
<1>3. pair.type = "string" => o = 2
  BY DEF Opening
<1> HIDE DEF k, v, o, n
<1>4. ASSUME NEW j \in 1 .. k PROVE t[off + j] = pair.key[j]
  <2>1. j \in 1 .. n /\ 0 + j = j
    BY <1>1, <1>2
  <2> QED
    BY <1>2, <2>1 DEF n
<1>5. t[off + k + 1] = "colon"
  <2> DEFINE m == k + 1
  <2>1. m \in 1 .. n /\ off + m = off + k + 1 /\ 0 + k + 1 = m
    BY <1>1, <1>2
  <2> HIDE DEF m
  <2>2. t[off + m] = p[m]
    BY <2>1 DEF n
  <2> QED
    BY <1>2, <2>1, <2>2
<1>6. pair.type = "string" => t[off + k + 2] = "quote"
  <2> SUFFICES ASSUME pair.type = "string" PROVE t[off + k + 2] = "quote"
    OBVIOUS
  <2> DEFINE m == k + 2
  <2>1. m \in 1 .. n /\ off + m = off + k + 2 /\ 0 + k + 2 = m
    BY <1>1, <1>2, <1>3
  <2> HIDE DEF m
  <2>2. t[off + m] = p[m]
    BY <2>1 DEF n
  <2> QED
    BY <1>2, <2>1, <2>2
<1>7. ASSUME NEW j \in 1 .. v PROVE t[off + k + o + j] = pair.word[j]
  <2> DEFINE m == k + o + j
  <2>1. m \in 1 .. n /\ off + m = off + k + o + j /\ 0 + k + o + j = m
    BY <1>1, <1>2
  <2> HIDE DEF m
  <2>2. t[off + m] = p[m]
    BY <2>1 DEF n
  <2>3. p[0 + k + o + j] = pair.word[j]
    BY <1>2
  <2> QED
    BY <2>1, <2>2, <2>3
<1>8. /\ off + k + o + v + 1 <= Len(t)
      /\ t[off + k + o + v + 1] = Closing(pair)
  <2> DEFINE m == k + o + v + 1
  <2>1. m \in 1 .. n /\ off + m = off + k + o + v + 1 /\ 0 + k + o + v + 1 = m
    BY <1>1, <1>2
  <2> HIDE DEF m
  <2>2. off + m <= Len(t) /\ t[off + m] = p[m]
    BY <2>1 DEF n
  <2> QED
    BY <1>2, <2>1, <2>2
<1> QED
  BY <1>4, <1>5, <1>6, <1>7, <1>8 DEF Placed, k, v, o

(* Each pair has a place in the text.                                      *)
LEMMA TextPlaces ==
  ASSUME PacketTyped, packet.form = "text" PROVE \E at : TextAt(TextOf(packet), at)
<1> DEFINE n == Len(packet.pairs)
           t == TextOf(packet)
           Pair(i) == packet.pairs[i]
           seqs == [i \in 1 .. n |-> PieceOf(Pair(i))]
<1>1. n \in Nat /\ DOMAIN packet.pairs = 1 .. n
  BY PairsNumbered
<1>2. t = FlattenSeq(seqs)
  BY <1>1 DEF TextOf, PieceOf
<1>3. \A i \in 1 .. n : Pair(i).key \in Seq(STRING) /\ Pair(i).word \in Seq(STRING)
  BY PairWords
<1>4. \A i \in 1 .. n : seqs[i] = PieceOf(Pair(i))
  OBVIOUS
<1> HIDE DEF Pair
<1>5. ASSUME NEW i \in 1 .. n
      PROVE  /\ seqs[i] \in Seq(STRING) /\ Placed(seqs[i], 0, Pair(i))
             /\ \A m \in 1 .. Len(seqs[i]) :
                  seqs[i][m] \in Delimiters \/ InKey(m, 0, Pair(i)) \/ InWord(m, 0, Pair(i))
  <2> HIDE DEF seqs
  <2> QED
    BY <1>3, <1>4, PieceIs
<1>6. seqs \in [1 .. n -> Seq(STRING)]
  BY <1>4, <1>5
<1> HIDE DEF n, t, seqs
<1>7. PICK off : Laid(t, seqs, off, n, STRING)
  BY <1>1, <1>2, <1>6, FlattenPlaces
<1>8. /\ t \in Seq(STRING) /\ off \in [0 .. n -> Nat] /\ Len(t) = off[n]
      /\ \A i \in 1 .. n : \A j \in 1 .. Len(seqs[i]) :
           off[i - 1] + j <= off[n] /\ t[off[i - 1] + j] = seqs[i][j]
      /\ \A m \in 1 .. off[n] : \E i \in 1 .. n : \E j \in 1 .. Len(seqs[i]) : m = off[i - 1] + j
  BY <1>7 DEF Laid
<1> DEFINE at == [i \in 1 .. n |-> off[i - 1]]
<1>9. ASSUME NEW i \in 1 .. n PROVE at[i] = off[i - 1] /\ at[i] \in Nat
  BY <1>1, <1>8
<1> HIDE DEF at
<1>10. ASSUME NEW i \in 1 .. n PROVE Placed(t, at[i], Pair(i))
  <2> DEFINE a == at[i]
             p == seqs[i]
             pair == Pair(i)
  <2>1. a \in Nat /\ \A j \in 1 .. Len(p) : a + j <= Len(t) /\ t[a + j] = p[j]
    BY <1>8, <1>9
  <2>2. /\ p \in Seq(STRING) /\ Placed(p, 0, pair)
        /\ pair.key \in Seq(STRING) /\ pair.word \in Seq(STRING)
    BY <1>3, <1>5
  <2>3. t \in Seq(STRING)
    BY <1>8
  <2> HIDE DEF a, p, pair
  <2>4. Placed(t, a, pair)
    BY <2>1, <2>2, <2>3, PlacedIn
  <2> QED
    BY <2>4 DEF a, pair
<1>11. ASSUME NEW m \in 1 .. Len(t)
       PROVE  \/ t[m] \in Delimiters
              \/ \E i \in 1 .. n : InKey(m, at[i], Pair(i)) \/ InWord(m, at[i], Pair(i))
  <2>1. PICK i \in 1 .. n : \E j \in 1 .. Len(seqs[i]) : m = off[i - 1] + j
    BY <1>8
  <2> PICK j \in 1 .. Len(seqs[i]) : m = off[i - 1] + j
    BY <2>1
  <2>2. t[m] = seqs[i][j] /\ m = at[i] + j /\ at[i] \in Nat
    BY <1>8, <1>9
  <2>3. seqs[i][j] \in Delimiters \/ InKey(j, 0, Pair(i)) \/ InWord(j, 0, Pair(i))
    BY <1>5
  <2>4. CASE InKey(j, 0, Pair(i))
    <3>1. InKey(m, at[i], Pair(i))
      BY <2>2, <2>4 DEF InKey
    <3> QED
      BY <3>1
  <2>5. CASE InWord(j, 0, Pair(i))
    <3>1. Len(Pair(i).key) \in Nat /\ Opening(Pair(i)) \in Nat
      BY <1>3, LenProperties DEF Opening
    <3>2. InWord(m, at[i], Pair(i))
      BY <2>2, <2>5, <3>1 DEF InWord
    <3> QED
      BY <3>2
  <2> QED
    BY <2>2, <2>3, <2>4, <2>5
<1>12. TextAt(t, at)
  BY <1>1, <1>8, <1>10, <1>11 DEF TextAt, Pair
<1> QED
  BY <1>12 DEF t

----------------------------------------------------------------------------
(* The search in a text.                                                   *)

(* The first of some numbers.                                              *)
LEMMA FirstIs ==
  \A I \in SUBSET Nat : \A n \in I : (\A m \in I : n <= m) => Min(I) = n
<1> SUFFICES ASSUME NEW I \in SUBSET Nat, NEW n \in I, \A m \in I : n <= m PROVE Min(I) = n
  OBVIOUS
<1>1. \E x \in I : \A y \in I : x <= y
  OBVIOUS
<1>2. Min(I) \in I /\ \A y \in I : Min(I) <= y
  BY <1>1 DEF Min
<1> DEFINE x == Min(I)
<1> HIDE DEF x
<1>3. x \in Nat /\ n \in Nat /\ n <= x /\ x <= n
  BY <1>2 DEF x
<1> QED
  BY <1>3 DEF x

(* q is what is left of t after position a.                                *)
After(q, t, a) ==
  /\ q \in Seq(STRING) /\ a \in Nat /\ a + Len(q) = Len(t)
  /\ \A j \in 1 .. Len(q) : q[j] = t[a + j]

LEMMA RestAfter ==
  \A t \in Seq(STRING) : \A a \in Nat : a <= Len(t) => After(SubSeq(t, a + 1, Len(t)), t, a)
<1> SUFFICES ASSUME NEW t \in Seq(STRING), NEW a \in Nat, a <= Len(t)
             PROVE  After(SubSeq(t, a + 1, Len(t)), t, a)
  OBVIOUS
<1> DEFINE n == Len(t)
           b == a + 1
           q == SubSeq(t, b, n)
<1>1. n \in Nat /\ \A i \in 1 .. n : t[i] \in STRING
  BY LenProperties
<1>2. b \in Nat \ {0} /\ b = a + 1 /\ a <= n
  OBVIOUS
<1> HIDE DEF n, b
<1>3. \A i \in b .. n : t[i] \in STRING
  BY <1>1, <1>2
<1>4. /\ q \in Seq(STRING) /\ Len(q) = IF b <= n THEN n - b + 1 ELSE 0
      /\ \A i \in 1 .. n - b + 1 : q[i] = t[b + i - 1]
  <2>1. b \in Int /\ n \in Int
    BY <1>1, <1>2
  <2> QED
    BY <1>3, <2>1, SubSeqProperties
<1> HIDE DEF q
<1>5. Len(q) = n - a
  BY <1>1, <1>2, <1>4
<1>6. ASSUME NEW j \in 1 .. Len(q) PROVE q[j] = t[a + j]
  <2>1. j \in 1 .. n - b + 1 /\ b + j - 1 = a + j
    BY <1>1, <1>2, <1>5
  <2> QED
    BY <1>4, <2>1
<1>7. After(q, t, a)
  BY <1>1, <1>2, <1>4, <1>5, <1>6 DEF After, n
<1> QED
  BY <1>7 DEF q, n, b

(* What is left of what is left.                                           *)
LEMMA AfterAfter ==
  \A t \in Seq(STRING) : \A r, q, a, b : After(r, t, a) /\ After(q, r, b) => After(q, t, a + b)
<1> SUFFICES ASSUME NEW t \in Seq(STRING), NEW r, NEW q, NEW a, NEW b, After(r, t, a), After(q, r, b)
             PROVE  After(q, t, a + b)
  OBVIOUS
<1>1. /\ q \in Seq(STRING) /\ r \in Seq(STRING) /\ a \in Nat /\ b \in Nat
      /\ a + Len(r) = Len(t) /\ b + Len(q) = Len(r)
      /\ \A j \in 1 .. Len(r) : r[j] = t[a + j]
      /\ \A j \in 1 .. Len(q) : q[j] = r[b + j]
  BY DEF After
<1>2. Len(q) \in Nat /\ Len(r) \in Nat /\ Len(t) \in Nat
  BY <1>1, LenProperties
<1>3. ASSUME NEW j \in 1 .. Len(q) PROVE q[j] = t[a + b + j]
  <2> DEFINE m == b + j
  <2>1. m \in 1 .. Len(r) /\ a + m = a + b + j /\ q[j] = r[m]
    BY <1>1, <1>2
  <2> HIDE DEF m
  <2>2. r[m] = t[a + m]
    BY <1>1, <2>1
  <2> QED
    BY <2>1, <2>2
<1> QED
  BY <1>1, <1>2, <1>3 DEF After

(* One character is skipped.                                               *)
LEMMA SkipOne ==
  \A r \in Seq(STRING) : \A S : Len(r) >= 2 /\ r[1] \in S /\ r[2] \notin S => After(Skip(r, S), r, 1)
<1> SUFFICES ASSUME NEW r \in Seq(STRING), NEW S, Len(r) >= 2, r[1] \in S, r[2] \notin S
             PROVE  After(Skip(r, S), r, 1)
  OBVIOUS
<1> DEFINE I == {i \in 1 .. Len(r) : r[i] \notin S}
<1>1. Len(r) \in Nat
  BY LenProperties
<1>2. I \in SUBSET Nat /\ 2 \in I /\ \A m \in I : 2 <= m
  BY <1>1
<1>3. I # {} /\ Min(I) = 2
  <2> HIDE DEF I
  <2> QED
    BY <1>2, FirstIs
<1>4. Skip(r, S) = LET stop == IF I # {} THEN Min(I) ELSE 0
                   IN  IF stop = 0 THEN <<>> ELSE SubSeq(r, stop, Len(r))
  BY DEF Skip, SelectInSeq
<1> HIDE DEF I
<1>5. Skip(r, S) = SubSeq(r, 2, Len(r))
  BY <1>3, <1>4
<1>6. After(SubSeq(r, 1 + 1, Len(r)), r, 1)
  BY <1>1, RestAfter
<1> QED
  BY <1>5, <1>6

(* None is.                                                                *)
LEMMA SkipNone ==
  \A r \in Seq(STRING) : \A S : r # <<>> /\ r[1] \notin S => Skip(r, S) = r
<1> SUFFICES ASSUME NEW r \in Seq(STRING), NEW S, r # <<>>, r[1] \notin S
             PROVE  Skip(r, S) = r
  OBVIOUS
<1> DEFINE I == {i \in 1 .. Len(r) : r[i] \notin S}
<1>1. Len(r) \in Nat \ {0}
  BY LenProperties
<1>2. I \in SUBSET Nat /\ 1 \in I /\ \A m \in I : 1 <= m
  BY <1>1
<1>3. I # {} /\ Min(I) = 1
  <2> HIDE DEF I
  <2> QED
    BY <1>2, FirstIs
<1>4. Skip(r, S) = LET stop == IF I # {} THEN Min(I) ELSE 0
                   IN  IF stop = 0 THEN <<>> ELSE SubSeq(r, stop, Len(r))
  BY DEF Skip, SelectInSeq
<1> HIDE DEF I
<1>5. Skip(r, S) = SubSeq(r, 1, Len(r))
  BY <1>3, <1>4
<1> QED
  BY <1>5, SubSeqFull

(* r begins with w, and c comes next.                                      *)
Starts(r, w, c) ==
  /\ r \in Seq(STRING) /\ w \in Seq(STRING) /\ Len(w) + 1 <= Len(r)
  /\ \A j \in 1 .. Len(w) : r[j] = w[j]
  /\ r[Len(w) + 1] = c

(* The beginning of a sequence.                                            *)
LEMMA PrefixIs ==
  \A r, w, c : Starts(r, w, c) =>
    \A n \in Nat : n <= Len(w) => SubSeq(r, 1, n) = SubSeq(w, 1, n)
<1> SUFFICES ASSUME NEW r, NEW w, NEW c, Starts(r, w, c), NEW n \in Nat, n <= Len(w)
             PROVE  SubSeq(r, 1, n) = SubSeq(w, 1, n)
  OBVIOUS
<1>1. /\ r \in Seq(STRING) /\ w \in Seq(STRING) /\ Len(w) \in Nat /\ Len(r) \in Nat
      /\ Len(w) + 1 <= Len(r) /\ \A j \in 1 .. Len(w) : r[j] = w[j]
  BY LenProperties DEF Starts
<1>2. ASSUME NEW s \in Seq(STRING), n <= Len(s)
      PROVE  /\ SubSeq(s, 1, n) \in Seq(STRING) /\ Len(SubSeq(s, 1, n)) = n
             /\ \A k \in 1 .. n : SubSeq(s, 1, n)[k] = s[k]
  <2>1. Len(s) \in Nat /\ \A k \in 1 .. n : s[k] \in STRING
    BY <1>2, LenProperties
  <2>2. /\ SubSeq(s, 1, n) \in Seq(STRING)
        /\ Len(SubSeq(s, 1, n)) = IF 1 <= n THEN n - 1 + 1 ELSE 0
        /\ \A k \in 1 .. n - 1 + 1 : SubSeq(s, 1, n)[k] = s[1 + k - 1]
    BY <2>1, SubSeqProperties
  <2> QED
    BY <2>2
<1> DEFINE p == SubSeq(r, 1, n)
           q == SubSeq(w, 1, n)
<1>3. /\ p \in Seq(STRING) /\ Len(p) = n /\ \A k \in 1 .. n : p[k] = r[k]
      /\ q \in Seq(STRING) /\ Len(q) = n /\ \A k \in 1 .. n : q[k] = w[k]
  BY <1>1, <1>2
<1> HIDE DEF p, q
<1>4. \A k \in 1 .. n : p[k] = q[k]
  BY <1>1, <1>3
<1>5. p = q
  BY <1>3, <1>4, SeqEqual
<1> QED
  BY <1>5 DEF p, q

(* A word is taken up to the character that ends it.                       *)
LEMMA UpToIs ==
  \A r, w, c, S : Starts(r, w, c) /\ c \in S /\ ToSet(w) \cap S = {} => UpTo(r, S) = w
<1> SUFFICES ASSUME NEW r, NEW w, NEW c, NEW S, Starts(r, w, c), c \in S, ToSet(w) \cap S = {}
             PROVE  UpTo(r, S) = w
  OBVIOUS
<1> DEFINE I == {i \in 1 .. Len(r) : r[i] \in S}
           n == Len(w)
<1>1. /\ r \in Seq(STRING) /\ w \in Seq(STRING) /\ n \in Nat /\ Len(r) \in Nat
      /\ n + 1 <= Len(r) /\ (\A j \in 1 .. n : r[j] = w[j]) /\ r[n + 1] = c
  BY LenProperties DEF Starts
<1>2. \A j \in 1 .. n : w[j] \notin S
  <2>1. DOMAIN w = 1 .. n
    BY <1>1, LenProperties
  <2> QED
    BY <2>1 DEF ToSet
<1> HIDE DEF n
<1>3. I \in SUBSET Nat /\ n + 1 \in I /\ \A m \in I : n + 1 <= m
  <2>1. ASSUME NEW m \in I PROVE n + 1 <= m
    <3>1. m \in 1 .. Len(r) /\ r[m] \in S
      OBVIOUS
    <3>2. m \notin 1 .. n
      BY <1>1, <1>2, <3>1
    <3> QED
      BY <1>1, <3>1, <3>2
  <2> QED
    BY <1>1, <2>1
<1>4. I # {} /\ Min(I) = n + 1
  <2> HIDE DEF I
  <2> QED
    BY <1>3, FirstIs
<1>5. UpTo(r, S) = LET stop == IF I # {} THEN Min(I) ELSE 0
                   IN  IF stop = 0 THEN r ELSE SubSeq(r, 1, stop - 1)
  BY DEF UpTo, SelectInSeq
<1> HIDE DEF I
<1>6. UpTo(r, S) = SubSeq(r, 1, n)
  <2> DEFINE stop == n + 1
  <2>1. stop # 0 /\ stop - 1 = n
    BY <1>1
  <2>2. Min(I) = stop
    BY <1>4
  <2> HIDE DEF stop
  <2>3. UpTo(r, S) = SubSeq(r, 1, stop - 1)
    BY <1>4, <1>5, <2>1, <2>2
  <2> QED
    BY <2>1, <2>3
<1>7. SubSeq(r, 1, n) = SubSeq(w, 1, n)
  BY <1>1, PrefixIs DEF n
<1>8. SubSeq(w, 1, n) = w
  BY <1>1, SubSeqFull DEF n
<1> QED
  BY <1>6, <1>7, <1>8

(* s is written in t after position base, with a delimiter behind it.      *)
Written(t, base, s) ==
  /\ base \in Nat /\ base + Len(s) + 1 <= Len(t)
  /\ \A j \in 1 .. Len(s) : t[base + j] = s[j]
  /\ t[base + Len(s) + 1] \in Delimiters

(* A word without delimiters that is found there begins and ends there.    *)
LEMMA Inside ==
  \A t, s, w \in Seq(STRING) : \A base :
    Written(t, base, s) /\ w # <<>> /\ ToSet(w) \cap Delimiters = {} =>
      \A j \in 1 .. Len(s) : base + j \in Occurrences(t, w) => j \in Occurrences(s, w)
<1> SUFFICES ASSUME NEW t \in Seq(STRING), NEW s \in Seq(STRING), NEW w \in Seq(STRING), NEW base,
                    Written(t, base, s), w # <<>>, ToSet(w) \cap Delimiters = {},
                    NEW j \in 1 .. Len(s), base + j \in Occurrences(t, w)
             PROVE  j \in Occurrences(s, w)
  OBVIOUS
<1> DEFINE n == Len(w)
           k == Len(s)
           m == base + j
<1>1. /\ base \in Nat /\ base + k + 1 <= Len(t) /\ t[base + k + 1] \in Delimiters
      /\ \A i \in 1 .. k : t[base + i] = s[i]
  BY DEF Written
<1>2. Len(t) \in Nat /\ k \in Nat /\ n \in Nat \ {0} /\ DOMAIN w = 1 .. n
  BY LenProperties
<1>3. \A l \in 1 .. n : w[l] \notin Delimiters
  BY <1>2 DEF ToSet
<1>4. m \in Nat \ {0} /\ \A l \in 1 .. n : t[m + l - 1] = w[l]
  BY <1>1 DEF Occurrences
<1> HIDE DEF n, k
<1>5. j \in 1 .. k /\ m = base + j
  BY DEF k
<1> HIDE DEF m
<1>6. j + n - 1 <= k
  <2> SUFFICES ASSUME ~(j + n - 1 <= k) PROVE FALSE
    OBVIOUS
  <2> DEFINE l == k + 2 - j
             e == base + k + 1
  <2>1. l \in 1 .. n /\ m + l - 1 = e
    BY <1>1, <1>2, <1>5
  <2>2. t[e] \in Delimiters
    BY <1>1
  <2> HIDE DEF l, e
  <2>3. t[m + l - 1] = w[l]
    BY <1>4, <2>1
  <2> QED
    BY <1>3, <2>1, <2>2, <2>3
<1>7. ASSUME NEW l \in 1 .. n PROVE s[j + l - 1] = w[l]
  <2> DEFINE i == j + l - 1
  <2>1. i \in 1 .. k /\ base + i = m + l - 1
    BY <1>1, <1>2, <1>5, <1>6
  <2> HIDE DEF i
  <2>2. t[base + i] = s[i]
    BY <1>1, <2>1
  <2>3. t[m + l - 1] = w[l]
    BY <1>4
  <2>4. s[i] = w[l]
    BY <2>1, <2>2, <2>3
  <2> QED
    BY <2>4 DEF i
<1>8. j \in 1 .. k - n + 1
  BY <1>2, <1>5, <1>6
<1> QED
  BY <1>7, <1>8 DEF Occurrences, n, k

(* A key name, spelled, means what its setting is.                         *)
LEMMA SettingOfSpelling == \A k \in DOMAIN Setting : SettingOf(Spelling[k]) = Setting[k]
<1> SUFFICES ASSUME NEW k \in DOMAIN Setting PROVE SettingOf(Spelling[k]) = Setting[k]
  OBVIOUS
<1> DEFINE names == {l \in DOMAIN Setting : TokenEqualsKey(Spelling[k], l)}
           name == CHOOSE l \in names : TRUE
<1>1. k \in names
  BY DEF TokenEqualsKey
<1>2. name \in names
  BY <1>1
<1>3. SettingOf(Spelling[k]) = Setting[name]
  BY <1>1 DEF SettingOf
<1>4. name \in DOMAIN Setting /\ TokenEqualsKey(Spelling[k], name)
  BY <1>2
<1> HIDE DEF name
<1>5. Setting[k] = Setting[name]
  BY <1>4, SpellingAssumption
<1> QED
  BY <1>3, <1>5

(* What the search looks for is spelled without delimiters and sets        *)
(* something.                                                              *)
LEMMA SearchedSpelled ==
  \A k \in Searched :
    /\ k \in DOMAIN Setting /\ Setting[k] \in {"ssid", "pass"} \cup ControlSettings
    /\ Spelling[k] \in Seq(STRING) /\ Spelling[k] # <<>> /\ ToSet(Spelling[k]) \cap Delimiters = {}
<1>1. \A k \in Searched :
        k \in DOMAIN Setting /\ Setting[k] \in {"ssid", "pass"} \cup ControlSettings
  BY DEF Searched, Setting, ControlSettings
<1>2. \A k \in DOMAIN Setting :
        /\ Spelling[k] \in Seq(STRING) \ {<<>>}
        /\ ToSet(Spelling[k]) \cap Delimiters = {}
  BY SpellingAssumption
<1> QED
  BY <1>1, <1>2

(* The key and the value of a pair are written in the text.                *)
LEMMA PairWritten ==
  ASSUME PacketTyped, NEW t, NEW at, TextAt(t, at), NEW i \in 1 .. Len(packet.pairs)
  PROVE  LET pair == packet.pairs[i] IN
         /\ Written(t, at[i], pair.key)
         /\ Written(t, at[i] + Len(pair.key) + Opening(pair), pair.word)
<1> DEFINE pair == packet.pairs[i]
           k == Len(pair.key)
           v == Len(pair.word)
           o == Opening(pair)
           a == at[i]
<1>1. Placed(t, a, pair)
  BY PairsNumbered DEF TextAt
<1>2. pair.key \in Seq(STRING) /\ pair.word \in Seq(STRING)
  BY PairWords
<1> HIDE DEF a, pair
<1>3. k \in Nat /\ v \in Nat /\ o \in {1, 2} /\ Len(t) \in Nat
  BY <1>2, LenProperties DEF Opening, TextAt
<1>4. /\ a \in Nat /\ a + k + o + v + 1 <= Len(t)
      /\ \A j \in 1 .. k : t[a + j] = pair.key[j]
      /\ t[a + k + 1] = "colon"
      /\ \A j \in 1 .. v : t[a + k + o + j] = pair.word[j]
      /\ t[a + k + o + v + 1] = Closing(pair)
  BY <1>1 DEF Placed
<1>5. "colon" \in Delimiters /\ Closing(pair) \in Delimiters
  BY DEF Closing, Delimiters, Separators, Quotes
<1>6. Written(t, a, pair.key)
  <2>1. a + k + 1 <= Len(t)
    BY <1>3, <1>4
  <2> QED
    BY <1>4, <1>5, <2>1 DEF Written
<1>7. Written(t, a + k + o, pair.word)
  <2>1. a + k + o \in Nat
    BY SMTT(30), <1>3, <1>4
  <2> QED
    BY <1>4, <1>5, <2>1 DEF Written
<1> QED
  BY <1>6, <1>7 DEF a, pair

(* A key is found where a pair has it and nowhere else.                    *)
LEMMA OnlyKeysFound ==
  ASSUME PacketTyped, PlainText, NEW t, NEW at, TextAt(t, at),
         NEW name \in Searched, NEW m \in Strstr(t, name)
  PROVE  \E i \in 1 .. Len(packet.pairs) :
           packet.pairs[i].key = Spelling[name] /\ m = at[i] + 1
<1> DEFINE w == Spelling[name]
           n == Len(packet.pairs)
           Pair(i) == packet.pairs[i]
<1>1. w \in Seq(STRING) /\ w # <<>> /\ ToSet(w) \cap Delimiters = {} /\ Len(w) \in Nat \ {0}
  BY SearchedSpelled, LenProperties
<1>2. t \in Seq(STRING) /\ Len(t) \in Nat
  BY LenProperties DEF TextAt
<1>3. m \in Occurrences(t, w)
  BY DEF Strstr
<1> HIDE DEF w
<1>4. m \in 1 .. Len(t) /\ t[m] \notin Delimiters
  <2>1. m \in 1 .. Len(t) - Len(w) + 1 /\ \A j \in 1 .. Len(w) : t[m + j - 1] = w[j]
    BY <1>3 DEF Occurrences
  <2>2. m + 1 - 1 = m /\ 1 \in 1 .. Len(w) /\ m \in 1 .. Len(t)
    BY <1>1, <1>2, <2>1
  <2>3. t[m] = w[1]
    BY <2>1, <2>2
  <2>4. w[1] \in ToSet(w)
    BY <1>1, LenProperties DEF ToSet
  <2> QED
    BY <1>1, <2>2, <2>3, <2>4
<1>5. PICK i \in 1 .. n : InKey(m, at[i], Pair(i)) \/ InWord(m, at[i], Pair(i))
  BY <1>4, PairsNumbered DEF TextAt
<1>6. Pair(i).key \in Seq(STRING) /\ Pair(i).word \in Seq(STRING)
  BY PairWords
<1>7. /\ Written(t, at[i], Pair(i).key)
      /\ Written(t, at[i] + Len(Pair(i).key) + Opening(Pair(i)), Pair(i).word)
  BY PairWritten
<1>8. /\ Occurrences(Pair(i).key, w) # {} => Pair(i).key = w
      /\ Occurrences(Pair(i).word, w) = {}
  BY PairsNumbered DEF PlainText, KeysStandAlone, Strstr, w
<1> HIDE DEF Pair
<1>9. CASE InKey(m, at[i], Pair(i))
  <2>1. PICK j \in 1 .. Len(Pair(i).key) : m = at[i] + j
    BY <1>9 DEF InKey
  <2>2. j \in Occurrences(Pair(i).key, w)
    BY <1>1, <1>2, <1>3, <1>6, <1>7, <2>1, Inside
  <2>3. Pair(i).key = w
    BY <1>8, <2>2
  <2>4. j \in 1 .. Len(w) - Len(w) + 1
    BY <2>2, <2>3 DEF Occurrences
  <2>5. j = 1
    BY <1>1, <2>4
  <2> QED
    BY <2>1, <2>3, <2>5 DEF w, Pair
<1>10. CASE InWord(m, at[i], Pair(i))
  <2>1. PICK j \in 1 .. Len(Pair(i).word) : m = at[i] + Len(Pair(i).key) + Opening(Pair(i)) + j
    BY <1>10 DEF InWord
  <2>2. j \in Occurrences(Pair(i).word, w)
    BY <1>1, <1>2, <1>3, <1>6, <1>7, <2>1, Inside
  <2> QED
    BY <1>8, <2>2
<1> QED
  BY <1>5, <1>9, <1>10

(* And where a pair has it, it is found.                                   *)
LEMMA KeyFound ==
  ASSUME PacketTyped, PlainText, NEW t, NEW at, TextAt(t, at), NEW name \in Searched,
         NEW i \in 1 .. Len(packet.pairs), packet.pairs[i].key = Spelling[name]
  PROVE  Strstr(t, name) = {at[i] + 1}
<1> DEFINE w == Spelling[name]
           a == at[i]
<1>1. Written(t, a, w)
  BY PairWritten
<1>2. w \in Seq(STRING) /\ Len(w) \in Nat \ {0} /\ t \in Seq(STRING) /\ Len(t) \in Nat
  BY SearchedSpelled, LenProperties DEF TextAt
<1> HIDE DEF w, a
<1>3. a \in Nat /\ a + Len(w) + 1 <= Len(t) /\ \A j \in 1 .. Len(w) : t[a + j] = w[j]
  BY <1>1 DEF Written
<1>4. a + 1 \in Occurrences(t, w)
  <2> DEFINE m == a + 1
  <2>1. m \in 1 .. Len(t) - Len(w) + 1 /\ \A j \in 1 .. Len(w) : m + j - 1 = a + j
    BY <1>2, <1>3
  <2> HIDE DEF m
  <2>2. \A j \in 1 .. Len(w) : t[m + j - 1] = w[j]
    BY <1>3, <2>1
  <2>3. m \in Occurrences(t, w)
    BY <2>1, <2>2 DEF Occurrences
  <2> QED
    BY <2>3 DEF m
<1>5. \A j \in 1 .. Len(packet.pairs) : packet.pairs[j].key = Spelling[name] => j = i
  <2> DEFINE s == Setting[name]
  <2>1. SettingOf(Spelling[name]) = s /\ s \in {"ssid", "pass"} \cup ControlSettings
    BY SearchedSpelled, SettingOfSpelling
  <2> HIDE DEF s
  <2>2. \A j, l \in Where({s}) : j = l
    BY <2>1 DEF PlainText, DistinctSettings
  <2>3. \A j \in 1 .. Len(packet.pairs) : packet.pairs[j].key = Spelling[name] => j \in Where({s})
    BY <2>1, WhereIs
  <2> QED
    BY <2>2, <2>3
<1>6. \A m \in Strstr(t, name) : m = a + 1
  BY <1>5, OnlyKeysFound DEF a
<1> QED
  BY <1>4, <1>6 DEF Strstr, w, a

(* What follows the key of a pair in the text: its value, in quotes or     *)
(* bare.                                                                   *)
Reads(q, pair) ==
  /\ q \in Seq(STRING) /\ q # <<>>
  /\ pair.type = "string" => q[1] = "quote" /\ Starts(Tail(q), pair.word, "quote")
  /\ pair.type # "string" => Starts(q, pair.word, "comma")

(* What the conditions on a packet say of one of its pairs.                *)
LEMMA PairPlain ==
  ASSUME PacketTyped, PlainText, NEW i \in 1 .. Len(packet.pairs)
  PROVE  LET pair == packet.pairs[i] IN
         /\ pair.word # <<>>
         /\ pair.type = "string" => ToSet(pair.word) \cap {"quote"} = {}
         /\ pair.type # "string" => ToSet(pair.word) \cap Delimiters = {}
         /\ SettingOf(pair.key) \in ControlSettings =>
              pair.type # "string" /\ IsInt(pair.word) = BeginsInt(pair.word)
  BY PairsNumbered DEF PlainText, ValuesPlain

(* The value of a pair is what the search goes on with after its key.      *)
LEMMA AfterKeyReads ==
  ASSUME PacketTyped, PlainText, NEW t, NEW at, TextAt(t, at), NEW name \in Searched,
         NEW i \in 1 .. Len(packet.pairs), packet.pairs[i].key = Spelling[name]
  PROVE  Reads(AfterKey(t, name), packet.pairs[i])
<1> DEFINE pair == packet.pairs[i]
           k == Len(pair.key)
           v == Len(pair.word)
           o == Opening(pair)
           a == at[i]
           rest == RestOf(t, name)
           q == AfterKey(t, name)
<1>1. Strstr(t, name) = {a + 1} /\ Len(Spelling[name]) = k
  BY KeyFound
<1>2. Placed(t, a, pair)
  BY PairsNumbered DEF TextAt
<1>3. pair.key \in Seq(STRING) /\ pair.word \in Seq(STRING) /\ pair.word # <<>>
  BY PairWords, PairPlain
<1>4. pair.type # "string" => ToSet(pair.word) \cap Delimiters = {}
  BY PairPlain
<1> HIDE DEF a, pair
<1>5. /\ k \in Nat /\ v \in Nat \ {0} /\ t \in Seq(STRING) /\ Len(t) \in Nat
      /\ DOMAIN pair.word = 1 .. v
  BY <1>3, LenProperties DEF TextAt
<1>6. /\ pair.type = "string" => o = 2 /\ Closing(pair) = "quote"
      /\ pair.type # "string" => o = 1 /\ Closing(pair) = "comma"
  BY DEF Opening, Closing
<1>7. /\ a \in Nat /\ a + k + o + v + 1 <= Len(t)
      /\ t[a + k + 1] = "colon"
      /\ pair.type = "string" => t[a + k + 2] = "quote"
      /\ \A j \in 1 .. v : t[a + k + o + j] = pair.word[j]
      /\ t[a + k + o + v + 1] = Closing(pair)
  BY <1>2 DEF Placed
<1> HIDE DEF k, v, o
<1>8. After(rest, t, a + k)
  <2> DEFINE b == a + k
  <2>1. Min({a + 1}) = a + 1
    <3>1. {a + 1} \in SUBSET Nat
      BY <1>7
    <3> DEFINE m == a + 1
    <3>2. m \in Nat
      BY <1>7
    <3> HIDE DEF m
    <3>3. Min({m}) = m
      BY <3>2, FirstIs
    <3> QED
      BY <3>3 DEF m
  <2>2. rest = SubSeq(t, a + 1 + k, Len(t))
    BY <1>1, <2>1 DEF RestOf
  <2>3. a + 1 + k = b + 1 /\ b \in Nat /\ b <= Len(t)
    BY SMTT(30), <1>5, <1>6, <1>7
  <2> HIDE DEF b, rest
  <2>4. After(SubSeq(t, b + 1, Len(t)), t, b)
    BY <1>5, <2>3, RestAfter
  <2>5. rest = SubSeq(t, b + 1, Len(t))
    BY <2>2, <2>3
  <2>6. After(rest, t, b)
    BY <2>4, <2>5
  <2> QED
    BY <2>6 DEF b
<1>9. q = Skip(rest, Separators)
  BY DEF AfterKey
<1> HIDE DEF rest, q
<1>10. /\ rest \in Seq(STRING) /\ a + k + Len(rest) = Len(t) /\ Len(rest) \in Nat
       /\ \A j \in 1 .. Len(rest) : rest[j] = t[a + k + j]
  BY <1>8, LenProperties DEF After
<1>11. Len(rest) >= 2 /\ rest[1] = t[a + k + 1] /\ rest[2] = t[a + k + 2]
  <2>1. Len(rest) >= 2
    BY <1>5, <1>6, <1>7, <1>10
  <2>2. 1 \in 1 .. Len(rest) /\ 2 \in 1 .. Len(rest)
    BY <1>10, <2>1
  <2> QED
    BY <1>10, <2>1, <2>2
<1>12. rest[1] \in Separators /\ rest[2] \notin Separators
  <2>1. CASE pair.type = "string"
    BY <1>7, <1>11, <2>1 DEF Separators
  <2>2. CASE pair.type # "string"
    <3>1. 1 \in 1 .. v /\ a + k + o + 1 = a + k + 2
      BY <1>5, <1>6, <1>7, <2>2
    <3>2. t[a + k + 2] = pair.word[1]
      BY <1>7, <3>1
    <3>3. pair.word[1] \notin Delimiters
      BY <1>4, <1>5, <2>2, <3>1 DEF ToSet
    <3> QED
      BY <1>7, <1>11, <3>2, <3>3 DEF Delimiters, Separators
  <2> QED
    BY <2>1, <2>2
<1>13. After(q, t, a + k + 1)
  BY <1>5, <1>8, <1>9, <1>10, <1>11, <1>12, SkipOne, AfterAfter
<1>14. /\ q \in Seq(STRING) /\ a + k + 1 + Len(q) = Len(t) /\ Len(q) \in Nat
       /\ \A j \in 1 .. Len(q) : q[j] = t[a + k + 1 + j]
  BY <1>13, LenProperties DEF After
<1>15. q # <<>>
  <2>1. Len(q) # 0
    BY <1>5, <1>6, <1>7, <1>14
  <2> QED
    BY <2>1
<1>16. ASSUME pair.type = "string"
       PROVE  q[1] = "quote" /\ Starts(Tail(q), pair.word, "quote")
  <2> DEFINE r == Tail(q)
  <2>1. /\ r \in Seq(STRING) /\ Len(r) = Len(q) - 1
        /\ \A j \in 1 .. Len(r) : r[j] = q[j + 1]
    BY <1>14, <1>15, HeadTailProperties
  <2> HIDE DEF r
  <2>2. v + 1 <= Len(r) /\ 1 \in 1 .. Len(q)
    BY <1>5, <1>6, <1>7, <1>14, <1>16, <2>1
  <2>3. q[1] = "quote"
    <3>1. a + k + 1 + 1 = a + k + 2
      BY <1>5, <1>7
    <3>2. q[1] = t[a + k + 1 + 1]
      BY <1>14, <2>2
    <3> QED
      BY <1>7, <1>16, <3>1, <3>2
  <2>4. ASSUME NEW j \in 1 .. v + 1 PROVE r[j] = t[a + k + o + j]
    <3> DEFINE m == j + 1
    <3>1. j \in 1 .. Len(r) /\ m \in 1 .. Len(q) /\ a + k + 1 + m = a + k + o + j
      BY <1>5, <1>6, <1>7, <1>14, <1>16, <2>1, <2>2
    <3>2. r[j] = q[m]
      BY <2>1, <3>1
    <3> HIDE DEF m
    <3>3. q[m] = t[a + k + 1 + m]
      BY <1>14, <3>1
    <3> QED
      BY <3>1, <3>2, <3>3
  <2>5. \A j \in 1 .. v : r[j] = pair.word[j]
    BY <1>5, <1>7, <2>4
  <2>6. r[v + 1] = "quote"
    <3>1. v + 1 \in 1 .. v + 1 /\ a + k + o + (v + 1) = a + k + o + v + 1
      BY SMTT(30), <1>5, <1>6, <1>7, <1>16
    <3>2. r[v + 1] = t[a + k + o + (v + 1)]
      BY <2>4, <3>1
    <3> QED
      BY <1>6, <1>7, <1>16, <3>1, <3>2
  <2>7. Starts(r, pair.word, "quote")
    BY <1>3, <2>1, <2>2, <2>5, <2>6 DEF Starts, v
  <2> QED
    BY <2>3, <2>7 DEF r
<1>17. ASSUME pair.type # "string" PROVE Starts(q, pair.word, "comma")
  <2>1. v + 1 <= Len(q)
    BY <1>5, <1>6, <1>7, <1>14, <1>17
  <2>2. o = 1 /\ Closing(pair) = "comma"
    BY <1>6, <1>17
  <2>3. \A j \in 1 .. v + 1 : q[j] = t[a + k + 1 + j]
    BY <1>5, <1>14, <2>1
  <2>4. \A j \in 1 .. v : q[j] = pair.word[j]
    BY <1>5, <1>7, <2>2, <2>3
  <2>5. q[v + 1] = "comma"
    <3>1. v + 1 \in 1 .. v + 1 /\ a + k + 1 + (v + 1) = a + k + 1 + v + 1
      BY SMTT(30), <1>5, <1>7
    <3>2. q[v + 1] = t[a + k + 1 + (v + 1)]
      BY <2>3, <3>1
    <3> QED
      BY <1>7, <2>2, <3>1, <3>2
  <2> QED
    BY <1>3, <1>14, <2>1, <2>4, <2>5 DEF Starts, v
<1>18. Reads(q, pair)
  BY <1>14, <1>15, <1>16, <1>17 DEF Reads
<1> QED
  BY <1>18 DEF q, pair

(* A text value is the word of the pair, cut to its room.                  *)
LEMMA ExtractStr ==
  ASSUME PacketTyped, PlainText, NEW t, NEW at, TextAt(t, at), NEW name \in Searched, NEW room,
         NEW i \in 1 .. Len(packet.pairs), packet.pairs[i].key = Spelling[name]
  PROVE  LegacyExtractStrField(t, name, room) = TokenToCstr(packet.pairs[i].word, room)
<1> DEFINE pair == packet.pairs[i]
           q == AfterKey(t, name)
           got == IF q # <<>> /\ Head(q) \in Quotes
                    THEN UpTo(Tail(q), {Head(q)}) ELSE UpTo(q, {"comma", "space"})
<1>1. Strstr(t, name) # {}
  <2>1. Strstr(t, name) = {at[i] + 1}
    BY KeyFound
  <2> QED
    BY <2>1
<1>2. LegacyExtractStrField(t, name, room) = TokenToCstr(got, room)
  BY <1>1 DEF LegacyExtractStrField
<1>3. Reads(q, pair)
  BY AfterKeyReads
<1>4. /\ pair.word # <<>> /\ pair.word \in Seq(STRING)
      /\ pair.type = "string" => ToSet(pair.word) \cap {"quote"} = {}
      /\ pair.type # "string" => ToSet(pair.word) \cap Delimiters = {}
  BY PairPlain, PairWords
<1> HIDE DEF q, pair
<1>5. q \in Seq(STRING) /\ q # <<>> /\ Head(q) = q[1]
  BY <1>3 DEF Reads
<1>6. CASE pair.type = "string"
  <2>1. Head(q) = "quote" /\ Head(q) \in Quotes /\ Starts(Tail(q), pair.word, "quote")
    BY <1>3, <1>5, <1>6 DEF Reads, Quotes
  <2>2. UpTo(Tail(q), {"quote"}) = pair.word
    BY <1>4, <1>6, <2>1, UpToIs
  <2>3. got = pair.word
    BY <1>5, <2>1, <2>2
  <2> QED
    BY <1>2, <2>3 DEF pair
<1>7. CASE pair.type # "string"
  <2>1. Starts(q, pair.word, "comma") /\ ToSet(pair.word) \cap Delimiters = {}
    BY <1>3, <1>4, <1>7 DEF Reads
  <2>2. Head(q) \notin Quotes
    <3>1. Len(pair.word) \in Nat \ {0} /\ DOMAIN pair.word = 1 .. Len(pair.word)
      BY <1>4, LenProperties
    <3>2. q[1] = pair.word[1] /\ pair.word[1] \in ToSet(pair.word)
      BY <2>1, <3>1 DEF Starts, ToSet
    <3> QED
      BY <1>5, <2>1, <3>2 DEF Delimiters
  <2>3. UpTo(q, {"comma", "space"}) = pair.word
    <3>1. ToSet(pair.word) \cap {"comma", "space"} = {} /\ "comma" \in {"comma", "space"}
      BY <2>1 DEF Delimiters, Separators
    <3> QED
      BY <2>1, <3>1, UpToIs
  <2>4. got = pair.word
    BY <2>2, <2>3
  <2> QED
    BY <1>2, <2>4 DEF pair
<1> QED
  BY <1>6, <1>7

(* A number ends where its word does.                                      *)
LEMMA StrtolIs ==
  \A r, w, c : Starts(r, w, c) /\ c \in Delimiters /\ Strtol(w) # <<>> => Strtol(r) = Strtol(w)
<1> SUFFICES ASSUME NEW r, NEW w, NEW c, Starts(r, w, c), c \in Delimiters, Strtol(w) # <<>>
             PROVE  Strtol(r) = Strtol(w)
  OBVIOUS
<1> DEFINE ends(x) == {n \in 1 .. Len(x) : SubSeq(x, 1, n) \in DOMAIN IntOf}
           last == Max(ends(w))
<1>1. \A x : Strtol(x) = IF ends(x) = {} THEN <<>> ELSE <<IntOf[SubSeq(x, 1, Max(ends(x)))]>>
  BY DEF Strtol
<1>2. ends(w) # {}
  BY <1>1
<1>3. /\ r \in Seq(STRING) /\ w \in Seq(STRING) /\ Len(w) \in Nat /\ Len(r) \in Nat
      /\ Len(w) + 1 <= Len(r) /\ r[Len(w) + 1] = c
  BY LenProperties DEF Starts
<1>4. \A n \in Nat : n <= Len(w) => SubSeq(r, 1, n) = SubSeq(w, 1, n)
  BY PrefixIs
<1>5. ASSUME NEW n \in 1 .. Len(r), n > Len(w), SubSeq(r, 1, n) \in DOMAIN IntOf PROVE FALSE
  <2> DEFINE s == SubSeq(r, 1, n)
             e == Len(w) + 1
  <2>1. \A k \in 1 .. n : r[k] \in STRING
    BY <1>3, LenProperties
  <2>2. /\ s \in Seq(STRING) /\ Len(s) = IF 1 <= n THEN n - 1 + 1 ELSE 0
        /\ \A k \in 1 .. n - 1 + 1 : s[k] = r[1 + k - 1]
    BY <1>3, <2>1, SubSeqProperties
  <2>3. s \in DOMAIN IntOf
    BY <1>5
  <2> HIDE DEF s
  <2>4. e \in 1 .. n /\ n - 1 + 1 = n /\ 1 + e - 1 = e /\ 1 <= n
    BY <1>3, <1>5
  <2>5. r[e] \in Delimiters
    BY <1>3
  <2> HIDE DEF e
  <2>6. s[e] \in Delimiters /\ e \in 1 .. Len(s)
    BY <2>2, <2>4, <2>5
  <2>7. s[e] \in ToSet(s)
    BY <2>2, <2>6, LenProperties DEF ToSet
  <2> QED
    BY <2>3, <2>6, <2>7, IntOfAssumption
<1>6. ends(r) = ends(w)
  <2>1. ASSUME NEW n \in ends(r) PROVE n \in ends(w)
    <3>1. n \in 1 .. Len(r) /\ SubSeq(r, 1, n) \in DOMAIN IntOf
      OBVIOUS
    <3>2. n \in 1 .. Len(w)
      BY <1>3, <1>5, <3>1
    <3>3. n \in Nat /\ n <= Len(w)
      BY <1>3, <3>2
    <3>4. SubSeq(w, 1, n) \in DOMAIN IntOf
      BY <1>4, <3>1, <3>3
    <3> QED
      BY <3>2, <3>4
  <2>2. ASSUME NEW n \in ends(w) PROVE n \in ends(r)
    <3>1. n \in 1 .. Len(w) /\ SubSeq(w, 1, n) \in DOMAIN IntOf
      OBVIOUS
    <3>2. n \in Nat /\ n <= Len(w) /\ n \in 1 .. Len(r)
      BY <1>3, <3>1
    <3>3. SubSeq(r, 1, n) \in DOMAIN IntOf
      BY <1>4, <3>1, <3>2
    <3> QED
      BY <3>2, <3>3
  <2> QED
    BY <2>1, <2>2
<1>7. last \in 1 .. Len(w)
  <2> DEFINE I == ends(w)
  <2>1. I \in SUBSET Nat /\ I # {} /\ (\A y \in I : y <= Len(w)) /\ I \subseteq 1 .. Len(w)
    BY <1>2, <1>3
  <2> HIDE DEF I
  <2>2. \E x \in I : \A y \in I : x >= y
    BY <1>3, <2>1, LargestOf
  <2>3. Max(I) \in I
    BY <2>2 DEF Max
  <2> QED
    BY <2>1, <2>3 DEF I
<1> HIDE DEF ends
<1>8. Strtol(r) = <<IntOf[SubSeq(r, 1, last)]>> /\ Strtol(w) = <<IntOf[SubSeq(w, 1, last)]>>
  BY <1>1, <1>2, <1>6
<1>9. SubSeq(r, 1, last) = SubSeq(w, 1, last)
  <2>1. last \in Nat /\ last <= Len(w)
    BY <1>3, <1>7
  <2> HIDE DEF last
  <2> QED
    BY <1>4, <2>1
<1> QED
  BY <1>8, <1>9

(* A number is read as the same key in JSON has it.                        *)
LEMMA ExtractInt ==
  ASSUME PacketTyped, PlainText, NEW t, NEW at, TextAt(t, at), NEW name \in Searched,
         NEW i \in 1 .. Len(packet.pairs), packet.pairs[i].key = Spelling[name],
         SettingOf(packet.pairs[i].key) \in ControlSettings
  PROVE  LegacyExtractIntField(t, name) =
           IF IsInt(packet.pairs[i].word) THEN TokenToInt(packet.pairs[i].word) ELSE <<>>
<1> DEFINE w == packet.pairs[i].word
           q == AfterKey(t, name)
<1>1. Strstr(t, name) # {}
  <2>1. Strstr(t, name) = {at[i] + 1}
    BY KeyFound
  <2> QED
    BY <2>1
<1>2. Starts(q, w, "comma") /\ w \in Seq(STRING) /\ w # <<>>
  BY AfterKeyReads, PairPlain, PairWords DEF Reads
<1>3. ToSet(w) \cap Delimiters = {} /\ IsInt(w) = BeginsInt(w)
  BY PairPlain
<1>4. LegacyExtractIntField(t, name) =
        IF BeginsInt(q) THEN LET n == Strtol(q) IN IF n = <<>> THEN <<0>> ELSE n ELSE <<>>
  BY <1>1 DEF LegacyExtractIntField
<1> HIDE DEF w, q
<1>5. /\ Len(w) \in Nat \ {0} /\ DOMAIN w = 1 .. Len(w)
      /\ q \in Seq(STRING) /\ q # <<>> /\ q[1] = w[1]
  <2>1. Len(w) \in Nat \ {0} /\ DOMAIN w = 1 .. Len(w)
    BY <1>2, LenProperties
  <2>2. q \in Seq(STRING) /\ Len(w) + 1 <= Len(q) /\ \A j \in 1 .. Len(w) : q[j] = w[j]
    BY <1>2 DEF Starts
  <2> QED
    BY <2>1, <2>2
<1>6. BeginsInt(q) = BeginsInt(w)
  <2>1. Head(q) = Head(w)
    BY <1>2, <1>5
  <2> QED
    BY <1>2, <1>5, <2>1 DEF BeginsInt
<1>7. CASE IsInt(w)
  <2>1. TokenToInt(w) # <<>>
    BY <1>7 DEF IsInt
  <2>2. TokenToInt(w) = Strtol(Skip(w, {"space"}))
    BY <2>1 DEF TokenToInt
  <2>3. Skip(w, {"space"}) = w
    <3>1. w[1] \in ToSet(w)
      BY <1>5 DEF ToSet
    <3>2. "space" \in Delimiters
      BY DEF Delimiters, Separators
    <3>3. w[1] \notin {"space"}
      BY <1>3, <3>1, <3>2
    <3> QED
      BY <1>2, <3>3, SkipNone
  <2>4. Strtol(w) # <<>> /\ TokenToInt(w) = Strtol(w)
    BY <2>1, <2>2, <2>3
  <2>5. Strtol(q) = Strtol(w)
    <3>1. "comma" \in Delimiters
      BY DEF Delimiters
    <3> QED
      BY <1>2, <2>4, <3>1, StrtolIs
  <2> QED
    BY <1>3, <1>4, <1>6, <1>7, <2>4, <2>5 DEF w
<1>8. CASE ~IsInt(w)
  BY <1>3, <1>4, <1>6, <1>8 DEF w
<1> QED
  BY <1>7, <1>8

(* A set of numbers has a first member.                                    *)
LEMMA SmallestOf == \A I \in SUBSET Nat : I # {} => \E x \in I : \A y \in I : x <= y
<1> SUFFICES ASSUME NEW I \in SUBSET Nat, ~\E x \in I : \A y \in I : x <= y PROVE I = {}
  OBVIOUS
<1> DEFINE S == {n \in Nat : \A m \in I : n < m}
<1>1. 0 \in S
  <2>1. \A y \in I : 0 <= y
    OBVIOUS
  <2>2. 0 \notin I
    BY <2>1
  <2> QED
    BY <2>1, <2>2
<1>2. ASSUME NEW n \in S PROVE n + 1 \in S
  <2>1. n \in Nat /\ \A m \in I : n + 1 <= m
    OBVIOUS
  <2>2. n + 1 \notin I
    BY <2>1
  <2>3. \A m \in I : n + 1 < m
    BY <2>1, <2>2
  <2> QED
    BY <2>1, <2>3
<1>3. S = Nat
  BY <1>1, <1>2, SetInduction
<1>4. ASSUME NEW m \in I PROVE FALSE
  <2>1. m \in S
    BY <1>3
  <2>2. m < m
    BY <2>1
  <2> QED
    BY <2>2
<1> QED
  BY <1>4

(* When the fields with a value all have the same one, the first has it.   *)
LEMMA FirstOfOnly ==
  ASSUME NEW fields, DOMAIN fields \in SUBSET Nat, NEW v,
         \A k \in DOMAIN fields : fields[k] = <<>> \/ fields[k] = v,
         v # <<>> => \E k \in DOMAIN fields : fields[k] = v
  PROVE  FirstOf(fields) = v
<1> DEFINE with == {k \in DOMAIN fields : fields[k] # <<>>}
<1>1. FirstOf(fields) = IF with = {} THEN <<>> ELSE fields[Min(with)]
  BY DEF FirstOf
<1>2. CASE with = {}
  BY <1>1, <1>2
<1>3. CASE with # {}
  <2>1. \E x \in with : \A y \in with : x <= y
    <3>1. with \in SUBSET Nat
      OBVIOUS
    <3> HIDE DEF with
    <3> QED
      BY <1>3, <3>1, SmallestOf
  <2>2. Min(with) \in with
    <3> HIDE DEF with
    <3> QED
      BY <2>1 DEF Min
  <2>3. fields[Min(with)] = v
    BY <2>2
  <2> QED
    BY <1>1, <1>3, <2>3
<1> QED
  BY <1>2, <1>3

(* The one pair with a setting has a key the search looks for.             *)
LEMMA KeyOfSetting ==
  ASSUME PacketTyped, PlainText, NEW s \in {"ssid", "pass"} \cup ControlSettings,
         NEW i \in Where({s})
  PROVE  /\ i \in 1 .. Len(packet.pairs) /\ \A j \in Where({s}) : j = i
         /\ SettingOf(packet.pairs[i].key) = s
         /\ \E name \in Searched \ {"wifi"} :
              packet.pairs[i].key = Spelling[name] /\ Setting[name] = s
<1>1. i \in 1 .. Len(packet.pairs) /\ SettingOf(packet.pairs[i].key) = s
  BY WhereIs
<1>2. \A j \in Where({s}) : j = i
  BY DEF PlainText, DistinctSettings
<1>3. PICK name \in Searched \ {"wifi"} : packet.pairs[i].key = Spelling[name]
  BY <1>1, PairsNumbered DEF PlainText, KeysStandAlone
<1>4. Setting[name] = s
  BY <1>1, <1>3, SearchedSpelled, SettingOfSpelling
<1> QED
  BY <1>1, <1>2, <1>3, <1>4

(* The fields of the n names of setting s in t: v for the name that a pair *)
(* has for its key, nothing for one that is not found.                     *)
FieldsOf(fields, t, s, n, names, v) ==
  /\ s \in {"ssid", "pass"} \cup ControlSettings /\ n \in Nat /\ DOMAIN fields = 1 .. n
  /\ \A k \in 1 .. n : names[k] \in Searched /\ Setting[names[k]] = s
  /\ \A name \in Searched : Setting[name] = s => \E k \in 1 .. n : names[k] = name
  /\ \A k \in 1 .. n : Strstr(t, names[k]) = {} => fields[k] = <<>>
  /\ \A k \in 1 .. n : \A i \in Where({s}) :
       packet.pairs[i].key = Spelling[names[k]] => fields[k] = v
  /\ Where({s}) = {} => v = <<>>

(* The search for a setting goes through its key names and finds that      *)
(* value.                                                                  *)
LEMMA OneOfKind ==
  ASSUME PacketTyped, PlainText, NEW t, NEW at, TextAt(t, at), NEW s, NEW n, NEW names, NEW fields,
         NEW v, FieldsOf(fields, t, s, n, names, v)
  PROVE  FirstOf(fields) = v
<1> USE DEF FieldsOf
<1>1. ASSUME NEW k \in 1 .. n PROVE fields[k] = <<>> \/ fields[k] = v
  <2>1. CASE Strstr(t, names[k]) = {}
    BY <2>1
  <2>2. CASE Strstr(t, names[k]) # {}
    <3>1. PICK m : m \in Strstr(t, names[k])
      BY <2>2
    <3>2. PICK i \in 1 .. Len(packet.pairs) : packet.pairs[i].key = Spelling[names[k]]
      BY <3>1, OnlyKeysFound
    <3>3. SettingOf(Spelling[names[k]]) = s
      BY SearchedSpelled, SettingOfSpelling
    <3>4. i \in Where({s})
      BY <3>2, <3>3, WhereIs
    <3> QED
      BY <3>2, <3>4
  <2> QED
    BY <2>1, <2>2
<1>2. v # <<>> => \E k \in DOMAIN fields : fields[k] = v
  <2> SUFFICES ASSUME v # <<>> PROVE \E k \in 1 .. n : fields[k] = v
    OBVIOUS
  <2>1. PICK i : i \in Where({s})
    OBVIOUS
  <2>2. PICK name \in Searched : packet.pairs[i].key = Spelling[name] /\ Setting[name] = s
    BY <2>1, KeyOfSetting
  <2>3. PICK k \in 1 .. n : names[k] = name
    BY <2>2
  <2>4. fields[k] = v
    BY <2>1, <2>2, <2>3
  <2> QED
    BY <2>4
<1>3. DOMAIN fields \in SUBSET Nat
  OBVIOUS
<1> QED
  BY <1>1, <1>2, <1>3, FirstOfOnly

(* The last of one pair.                                                   *)
LEMMA LastWordOne ==
  ASSUME PacketTyped, NEW S, NEW i \in Where(S), \A j \in Where(S) : j = i
  PROVE  LastWord(Where(S)) = packet.pairs[i].word
<1>1. Where(S) = {i} /\ i \in Nat
  BY WhereIs
<1>2. Max({i}) = i
  BY <1>1 DEF Max
<1> QED
  BY <1>1, <1>2 DEF LastWord

(* What the search finds for a credential.                                 *)
LEMMA TextStr ==
  ASSUME PacketTyped, PlainText, NEW t, NEW at, TextAt(t, at),
         NEW s \in {"ssid", "pass"}, NEW room \in Nat \ {0, 1}, NEW names, DOMAIN names = 1 .. 4,
         \A k \in 1 .. 4 : names[k] \in Searched /\ Setting[names[k]] = s,
         \A name \in Searched : Setting[name] = s => \E k \in 1 .. 4 : names[k] = name
  PROVE  LegacyStr(t, names, room) = TokenToCstr(LastWord(Where({s})), room)
<1> DEFINE fields == [k \in 1 .. 4 |-> LegacyExtractStrField(t, names[k], room)]
           v == TokenToCstr(LastWord(Where({s})), room)
<1>1. LegacyStr(t, names, room) = FirstOf(fields)
  BY DEF LegacyStr
<1>2. \A k \in 1 .. 4 : fields[k] = LegacyExtractStrField(t, names[k], room)
  OBVIOUS
<1>3. DOMAIN fields = 1 .. 4
  OBVIOUS
<1> HIDE DEF fields
<1>4. ASSUME NEW k \in 1 .. 4, Strstr(t, names[k]) = {} PROVE fields[k] = <<>>
  BY <1>2, <1>4 DEF LegacyExtractStrField
<1>5. ASSUME NEW k \in 1 .. 4, NEW i \in Where({s}), packet.pairs[i].key = Spelling[names[k]]
      PROVE  fields[k] = v
  <2>1. i \in 1 .. Len(packet.pairs) /\ \A j \in Where({s}) : j = i
    BY KeyOfSetting
  <2>2. LastWord(Where({s})) = packet.pairs[i].word
    BY <2>1, LastWordOne
  <2>3. LegacyExtractStrField(t, names[k], room) = TokenToCstr(packet.pairs[i].word, room)
    BY <1>5, <2>1, ExtractStr
  <2> QED
    BY <1>2, <2>2, <2>3
<1>6. ASSUME Where({s}) = {} PROVE v = <<>>
  <2>1. LastWord(Where({s})) = <<>>
    BY <1>6 DEF LastWord
  <2>2. <<>> \in Seq(STRING)
    OBVIOUS
  <2>3. TokenToCstr(<<>>, room) # <<>> <=> <<>> # <<>>
    BY <2>2, CutKept
  <2> QED
    BY <2>1, <2>3
<1> HIDE DEF v
<1>7. FieldsOf(fields, t, s, 4, names, v)
  BY <1>3, <1>4, <1>5, <1>6 DEF FieldsOf
<1>8. FirstOf(fields) = v
  BY <1>7, OneOfKind
<1> QED
  BY <1>1, <1>8 DEF v

(* What the search finds for the credentials is what the pairs say.        *)
LEMMA TextCred ==
  ASSUME PacketTyped, PlainText, NEW t, NEW at, TextAt(t, at)
  PROVE  CredAsked(LegacyCred(t))
<1> DEFINE ssid == LegacyStr(t, SsidNames, SsidRoom)
           pass == LegacyStr(t, PassNames, PassRoom)
           cred == LegacyCred(t)
<1>1. ssid = TokenToCstr(LastWord(Where({"ssid"})), SsidRoom)
  <2>1. DOMAIN SsidNames = 1 .. 4
    BY DEF SsidNames
  <2>2. \A k \in 1 .. 4 : SsidNames[k] \in Searched /\ Setting[SsidNames[k]] = "ssid"
    BY DEF SsidNames, Searched, Setting
  <2>3. \A name \in Searched : Setting[name] = "ssid" => \E k \in 1 .. 4 : SsidNames[k] = name
    BY DEF SsidNames, Searched, Setting
  <2> QED
    BY <2>1, <2>2, <2>3, TextStr, RoomAssumption
<1>2. pass = TokenToCstr(LastWord(Where({"pass"})), PassRoom)
  <2>1. DOMAIN PassNames = 1 .. 4
    BY DEF PassNames
  <2>2. \A k \in 1 .. 4 : PassNames[k] \in Searched /\ Setting[PassNames[k]] = "pass"
    BY DEF PassNames, Searched, Setting
  <2>3. \A name \in Searched : Setting[name] = "pass" => \E k \in 1 .. 4 : PassNames[k] = name
    BY DEF PassNames, Searched, Setting
  <2> QED
    BY <2>1, <2>2, <2>3, TextStr, RoomAssumption
<1>3. cred = IF (\E name \in {"Wifi", "SSID", "ssid"} : Strstr(t, name) # {}) /\ ssid # <<>>
               THEN Cred(ssid, pass) ELSE NoCred
  BY DEF LegacyCred
<1> HIDE DEF ssid, pass, cred
<1>4. CASE Provisions
  <2>1. PICK i \in Where({"ssid"}) : packet.pairs[i].word # <<>>
    BY <1>4 DEF Provisions
  <2>2. i \in 1 .. Len(packet.pairs) /\ \A j \in Where({"ssid"}) : j = i
    BY KeyOfSetting
  <2>3. PICK name \in Searched \ {"wifi"} :
          packet.pairs[i].key = Spelling[name] /\ Setting[name] = "ssid"
    BY KeyOfSetting
  <2>4. name \in {"Wifi", "SSID", "ssid"}
    BY <2>3 DEF Searched, Setting
  <2>5. Strstr(t, name) # {}
    <3>1. Strstr(t, name) = {at[i] + 1}
      BY <2>2, <2>3, KeyFound
    <3> QED
      BY <3>1
  <2>6. ssid # <<>>
    <3>1. ssid = TokenToCstr(packet.pairs[i].word, SsidRoom)
      BY <1>1, <2>2, LastWordOne
    <3>2. packet.pairs[i].word \in Seq(STRING)
      BY <2>2, PairWords
    <3> QED
      BY <2>1, <3>1, <3>2, CutKept, RoomAssumption
  <2>7. cred = [ssid |-> ssid, pass |-> pass, queued |-> TRUE]
    BY <1>3, <2>4, <2>5, <2>6 DEF Cred
  <2>8. cred.ssid = ssid /\ cred.pass = pass /\ cred.queued = TRUE
    BY <2>7
  <2>9. Provisions = TRUE
    BY <1>4 DEF Provisions
  <2> QED
    BY <1>1, <1>2, <2>8, <2>9, CutAsked DEF cred
<1>5. CASE ~Provisions
  <2>1. Where({"ssid"}) = {}
    <3>1. \A i \in Where({"ssid"}) : packet.pairs[i].word = <<>>
      BY <1>5 DEF Provisions
    <3>2. \A i \in Where({"ssid"}) : packet.pairs[i].word # <<>>
      BY WhereIs, PairPlain
    <3> QED
      BY <3>1, <3>2
  <2>2. ssid = <<>>
    <3>1. LastWord(Where({"ssid"})) = <<>>
      BY <2>1 DEF LastWord
    <3>2. <<>> \in Seq(STRING)
      OBVIOUS
    <3>3. TokenToCstr(<<>>, SsidRoom) # <<>> <=> <<>> # <<>>
      BY <3>2, CutKept, RoomAssumption
    <3> QED
      BY <1>1, <3>1, <3>3
  <2>3. cred.queued = FALSE
    BY <1>3, <2>2 DEF NoCred
  <2>4. Provisions = FALSE
    BY <1>5 DEF Provisions
  <2> QED
    BY <2>3, <2>4, CutAsked DEF cred
<1> QED
  BY <1>4, <1>5

(* The elements of a flat sequence are those of its pieces.                *)
LEMMA FlattenElements ==
  ASSUME NEW C, NEW n \in Nat, NEW seqs \in [1 .. n -> Seq(C)]
  PROVE  /\ FlattenSeq(seqs) \in Seq(C)
         /\ ToSet(FlattenSeq(seqs)) = UNION {ToSet(seqs[i]) : i \in 1 .. n}
<1> DEFINE flat == FlattenSeq(seqs)
<1>1. PICK off : Laid(flat, seqs, off, n, C)
  BY FlattenPlaces
<1> HIDE DEF flat
<1>2. /\ flat \in Seq(C) /\ off \in [0 .. n -> Nat] /\ Len(flat) = off[n]
      /\ \A i \in 1 .. n : \A j \in 1 .. Len(seqs[i]) :
           off[i - 1] + j <= off[n] /\ flat[off[i - 1] + j] = seqs[i][j]
      /\ \A m \in 1 .. off[n] : \E i \in 1 .. n : \E j \in 1 .. Len(seqs[i]) : m = off[i - 1] + j
  BY <1>1 DEF Laid
<1>3. /\ DOMAIN flat = 1 .. off[n]
      /\ \A i \in 1 .. n : DOMAIN seqs[i] = 1 .. Len(seqs[i]) /\ Len(seqs[i]) \in Nat
  BY <1>2, LenProperties
<1>4. ASSUME NEW x \in ToSet(flat) PROVE \E i \in 1 .. n : x \in ToSet(seqs[i])
  <2>1. PICK m \in 1 .. off[n] : flat[m] = x
    BY <1>3 DEF ToSet
  <2>2. PICK i \in 1 .. n : \E j \in 1 .. Len(seqs[i]) : m = off[i - 1] + j
    BY <1>2
  <2> PICK j \in 1 .. Len(seqs[i]) : m = off[i - 1] + j
    BY <2>2
  <2>3. seqs[i][j] = x /\ j \in DOMAIN seqs[i]
    BY <1>2, <1>3, <2>1
  <2> QED
    BY <2>3 DEF ToSet
<1>5. ASSUME NEW i \in 1 .. n, NEW x \in ToSet(seqs[i]) PROVE x \in ToSet(flat)
  <2>1. PICK j \in 1 .. Len(seqs[i]) : seqs[i][j] = x
    BY <1>3 DEF ToSet
  <2>2. off[i - 1] \in Nat /\ off[n] \in Nat
    BY <1>2
  <2>3. off[i - 1] + j \in 1 .. off[n] /\ flat[off[i - 1] + j] = x
    <3> DEFINE m == off[i - 1] + j
    <3>1. m <= off[n] /\ flat[m] = seqs[i][j]
      BY <1>2
    <3>2. j \in Nat \ {0}
      BY <1>3
    <3> HIDE DEF m
    <3>3. flat[m] = x
      BY <2>1, <3>1
    <3>4. m \in 1 .. off[n]
      BY <2>2, <3>1, <3>2 DEF m
    <3> QED
      BY <3>3, <3>4 DEF m
  <2> QED
    BY <1>3, <2>3 DEF ToSet
<1>6. ToSet(flat) = UNION {ToSet(seqs[i]) : i \in 1 .. n}
  BY <1>4, <1>5
<1> QED
  BY <1>2, <1>6 DEF flat

(* The names of a control.                                                 *)
LEMMA ControlNames ==
  ASSUME NEW c \in 1 .. 4
  PROVE  LET control == LegacyControls[c] IN
         /\ control.set \in ControlSettings /\ DOMAIN control.names = 1 .. 2
         /\ \A k \in 1 .. 2 : control.names[k] \in Searched /\ Setting[control.names[k]] = control.set
         /\ \A name \in Searched :
              Setting[name] = control.set => \E k \in 1 .. 2 : control.names[k] = name
<1>1. CASE c = 1
  BY <1>1 DEF LegacyControls, ControlSettings, Searched, Setting
<1>2. CASE c = 2
  BY <1>2 DEF LegacyControls, ControlSettings, Searched, Setting
<1>3. CASE c = 3
  BY <1>3 DEF LegacyControls, ControlSettings, Searched, Setting
<1>4. CASE c = 4
  BY <1>4 DEF LegacyControls, ControlSettings, Searched, Setting
<1> QED
  BY <1>1, <1>2, <1>3, <1>4

(* What the search finds for one control.                                  *)
LEMMA TextControl ==
  ASSUME PacketTyped, PlainText, NEW t, NEW at, TextAt(t, at), NEW c \in 1 .. 4
  PROVE  LET control == LegacyControls[c]
             value == LegacyInt(t, control.names)
             mine == Controls \cap Where({control.set})
         IN  \/ value = <<>> /\ mine = {}
             \/ \E i \in mine :
                  value # <<>> /\ mine = {i} /\ Call(control.set, value[1]) = CallAt(i)
<1> DEFINE control == LegacyControls[c]
           set == control.set
           names == control.names
           value == LegacyInt(t, names)
           mine == Controls \cap Where({set})
           fields == [k \in 1 .. 2 |-> LegacyExtractIntField(t, names[k])]
<1>1. /\ set \in ControlSettings /\ DOMAIN names = 1 .. 2
      /\ \A k \in 1 .. 2 : names[k] \in Searched /\ Setting[names[k]] = set
      /\ \A name \in Searched : Setting[name] = set => \E k \in 1 .. 2 : names[k] = name
  BY ControlNames
<1> HIDE DEF control, set, names
<1>2. value = FirstOf(fields)
  BY <1>1 DEF LegacyInt
<1>3. \A k \in 1 .. 2 : fields[k] = LegacyExtractIntField(t, names[k])
  OBVIOUS
<1>4. DOMAIN fields = 1 .. 2
  OBVIOUS
<1> HIDE DEF fields, value
<1>5. ASSUME NEW k \in 1 .. 2, Strstr(t, names[k]) = {} PROVE fields[k] = <<>>
  BY <1>3, <1>5 DEF LegacyExtractIntField
<1>6. ASSUME NEW k \in 1 .. 2, NEW i \in Where({set}), packet.pairs[i].key = Spelling[names[k]]
      PROVE  fields[k] = IF IsInt(packet.pairs[i].word) THEN TokenToInt(packet.pairs[i].word) ELSE <<>>
  <2>1. i \in 1 .. Len(packet.pairs) /\ SettingOf(packet.pairs[i].key) \in ControlSettings
    BY <1>1, KeyOfSetting
  <2> QED
    BY <1>1, <1>3, <1>6, <2>1, ExtractInt
<1>7. CASE Where({set}) = {}
  <2> DEFINE v == <<>>
  <2>1. \A k \in 1 .. 2 : \A i \in Where({set}) :
          packet.pairs[i].key = Spelling[names[k]] => fields[k] = v
    BY <1>7
  <2>2. 2 \in Nat /\ v = <<>> /\ set \in {"ssid", "pass"} \cup ControlSettings
    BY <1>1
  <2> HIDE DEF v
  <2>3. FieldsOf(fields, t, set, 2, names, v)
    BY <1>1, <1>4, <1>5, <2>1, <2>2 DEF FieldsOf
  <2>4. FirstOf(fields) = v
    BY <2>3, OneOfKind
  <2> QED
    BY <1>2, <1>7, <2>2, <2>4 DEF control, set, names, value
<1>8. CASE Where({set}) # {}
  <2>1. PICK i : i \in Where({set})
    BY <1>8
  <2>2. /\ i \in 1 .. Len(packet.pairs) /\ SettingOf(packet.pairs[i].key) = set
        /\ \A j \in Where({set}) : j = i
    BY <1>1, <2>1, KeyOfSetting
  <2> DEFINE w == packet.pairs[i].word
             v == IF IsInt(w) THEN TokenToInt(w) ELSE <<>>
  <2>3. \A k \in 1 .. 2 : \A j \in Where({set}) :
          packet.pairs[j].key = Spelling[names[k]] => fields[k] = v
    <3>1. SUFFICES ASSUME NEW k \in 1 .. 2, NEW j \in Where({set}),
                          packet.pairs[j].key = Spelling[names[k]]
                   PROVE  fields[k] = v
      OBVIOUS
    <3>2. j = i
      BY <2>2
    <3>3. fields[k] = IF IsInt(packet.pairs[j].word) THEN TokenToInt(packet.pairs[j].word) ELSE <<>>
      BY <1>6, <3>1
    <3> QED
      BY <3>2, <3>3
  <2> HIDE DEF v
  <2>4. FirstOf(fields) = v
    <3>1. 2 \in Nat /\ set \in {"ssid", "pass"} \cup ControlSettings
      BY <1>1
    <3>2. FieldsOf(fields, t, set, 2, names, v)
      BY <1>1, <1>4, <1>5, <1>8, <2>3, <3>1 DEF FieldsOf
    <3> QED
      BY <3>2, OneOfKind
  <2>5. Where({set}) = {i}
    BY <2>1, <2>2
  <2>6. i \in Controls <=> IsInt(w)
    BY <1>1, <2>2, PairsNumbered DEF Controls, Where
  <2>7. CASE IsInt(w)
    <3>1. value = TokenToInt(w) /\ value # <<>>
      BY <1>2, <2>4, <2>7 DEF v, IsInt
    <3>2. mine = {i}
      BY <2>5, <2>6, <2>7
    <3>3. Call(set, value[1]) = CallAt(i)
      BY <2>2, <3>1 DEF CallAt
    <3> QED
      BY <3>1, <3>2, <3>3 DEF control, set, names, value
  <2>8. CASE ~IsInt(w)
    <3>1. value = <<>>
      BY <1>2, <2>4, <2>8 DEF v
    <3>2. mine = {}
      BY <2>5, <2>6, <2>8
    <3> QED
      BY <3>1, <3>2 DEF control, set, names, value
  <2> QED
    BY <2>7, <2>8
<1> QED
  BY <1>7, <1>8

(* Every control is one the search looks for.                              *)
LEMMA ControlSearched ==
  ASSUME NEW i \in Controls
  PROVE  \E c \in 1 .. 4 : i \in Where({LegacyControls[c].set})
<1>1. i \in DOMAIN packet.pairs /\ SettingOf(packet.pairs[i].key) \in ControlSettings
  BY DEF Controls, Where
<1>2. \E c \in 1 .. 4 : LegacyControls[c].set = SettingOf(packet.pairs[i].key)
  <2>1. /\ LegacyControls[1].set = "rpm" /\ LegacyControls[2].set = "angle"
        /\ LegacyControls[3].set = "light" /\ LegacyControls[4].set = "power"
    BY DEF LegacyControls
  <2> QED
    BY <1>1, <2>1 DEF ControlSettings
<1> QED
  BY <1>1, <1>2 DEF Where

(* What the search finds for the controls is what the pairs say.           *)
LEMMA TextCalls ==
  ASSUME PacketTyped, PlainText, NEW t, NEW at, TextAt(t, at)
  PROVE  /\ ToSet(LegacyCalls(t)) = AskedCalls
         /\ LegacyCalls(t) # <<>> <=> Controls # {}
<1> DEFINE value(c) == LegacyInt(t, LegacyControls[c].names)
           mine(c) == Controls \cap Where({LegacyControls[c].set})
           seqs == [c \in 1 .. 4 |->
                     IF value(c) = <<>> THEN <<>> ELSE <<Call(LegacyControls[c].set, value(c)[1])>>]
           calls == LegacyCalls(t)
<1>1. calls = FlattenSeq(seqs)
  <2>1. DOMAIN LegacyControls = 1 .. 4
    BY DEF LegacyControls
  <2>2. calls = FlattenSeq([c \in DOMAIN LegacyControls |->
                  IF value(c) = <<>> THEN <<>> ELSE <<Call(LegacyControls[c].set, value(c)[1])>>])
    BY DEF LegacyCalls
  <2> HIDE DEF calls, value
  <2> QED
    BY <2>1, <2>2
<1>2. ASSUME NEW c \in 1 .. 4
      PROVE  \/ value(c) = <<>> /\ mine(c) = {}
             \/ \E i \in mine(c) :
                  value(c) # <<>> /\ mine(c) = {i} /\
                    Call(LegacyControls[c].set, value(c)[1]) = CallAt(i)
  BY TextControl
<1> HIDE DEF value, mine, calls
<1>3. ASSUME NEW c \in 1 .. 4
      PROVE  seqs[c] \in Seq(AskedCalls) /\ ToSet(seqs[c]) = {CallAt(i) : i \in mine(c)}
  <2>1. CASE value(c) = <<>>
    <3>1. seqs[c] = <<>> /\ mine(c) = {}
      BY <1>2, <2>1
    <3> HIDE DEF seqs
    <3>2. <<>> \in Seq(AskedCalls) /\ ToSet(<<>>) = {}
      BY DEF ToSet
    <3> QED
      BY <3>1, <3>2
  <2>2. CASE value(c) # <<>>
    <3>1. PICK i \in mine(c) : mine(c) = {i} /\ Call(LegacyControls[c].set, value(c)[1]) = CallAt(i)
      BY <1>2, <2>2
    <3>2. seqs[c] = <<CallAt(i)>>
      BY <2>2, <3>1
    <3> HIDE DEF seqs
    <3>3. CallAt(i) \in AskedCalls
      BY DEF AskedCalls, mine
    <3> DEFINE call == CallAt(i)
    <3> HIDE DEF call
    <3>4. <<call>> \in Seq(AskedCalls) /\ ToSet(<<call>>) = {call}
      BY <3>3 DEF ToSet, call
    <3> QED
      BY <3>1, <3>2, <3>4 DEF call
  <2> QED
    BY <2>1, <2>2
<1>4. seqs \in [1 .. 4 -> Seq(AskedCalls)]
  BY <1>3
<1> HIDE DEF seqs
<1>5. calls \in Seq(AskedCalls) /\ ToSet(calls) = UNION {ToSet(seqs[c]) : c \in 1 .. 4}
  BY <1>1, <1>4, FlattenElements
<1>6. ASSUME NEW i \in Controls PROVE CallAt(i) \in ToSet(calls)
  <2>1. PICK c \in 1 .. 4 : i \in mine(c)
    BY ControlSearched DEF mine
  <2>2. CallAt(i) \in ToSet(seqs[c])
    BY <1>3, <2>1
  <2> QED
    BY <1>5, <2>2
<1>7. ASSUME NEW x \in ToSet(calls) PROVE x \in AskedCalls
  <2>1. PICK c \in 1 .. 4 : x \in ToSet(seqs[c])
    BY <1>5
  <2> QED
    BY <1>3, <2>1, SMTT(30) DEF mine, AskedCalls
<1>8. ToSet(calls) = AskedCalls
  BY <1>6, <1>7 DEF AskedCalls
<1>9. calls # <<>> <=> AskedCalls # {}
  <2>1. calls # <<>> <=> DOMAIN calls # {}
    BY <1>5
  <2>2. DOMAIN calls # {} <=> ToSet(calls) # {}
    BY DEF ToSet
  <2> QED
    BY <1>8, <2>1, <2>2
<1>10. AskedCalls # {} <=> Controls # {}
  BY DEF AskedCalls
<1> QED
  BY <1>8, <1>9, <1>10 DEF calls

(* A typed packet of the text form means what its pairs mean.              *)
LEMMA TextSame == PacketTyped => TextMeansTheSame
<1> SUFFICES ASSUME PacketTyped, PlainText
             PROVE  LET result == ParserHandlePacket(packet) IN
                    /\ CredAsked(result.cred)
                    /\ result.handled = (Provisions \/ Controls # {})
                    /\ ToSet(result.calls) = IF Provisions THEN {} ELSE {CallAt(i) : i \in Controls}
  BY DEF TextMeansTheSame
<1> DEFINE t == TextOf(packet)
           cred == LegacyCred(t)
           calls == LegacyCalls(t)
           result == ParserHandlePacket(packet)
<1>1. PICK at : TextAt(t, at)
  BY TextPlaces DEF PlainText
<1>2. CredAsked(cred) /\ cred.queued = Provisions
  <2>1. CredAsked(cred)
    <3> HIDE DEF t
    <3> QED
      BY <1>1, TextCred
  <2> HIDE DEF cred
  <2> QED
    BY <2>1 DEF CredAsked
<1>3. ToSet(calls) = AskedCalls /\ (calls # <<>> <=> Controls # {})
  <2> HIDE DEF t
  <2> QED
    BY <1>1, TextCalls
<1>4. result = ParserHandlePacketLegacy(packet)
  BY DEF ParserHandlePacket, ParserHandlePacketJson, Nothing, PlainText
<1>5. result = IF cred.queued
                 THEN [handled |-> TRUE, calls |-> <<>>, cred |-> cred]
                 ELSE [handled |-> calls # <<>>, calls |-> calls, cred |-> NoCred]
  BY <1>4 DEF ParserHandlePacketLegacy
<1> HIDE DEF t, cred, calls, result
<1>6. CASE Provisions
  <2>1. result = [handled |-> TRUE, calls |-> <<>>, cred |-> cred]
    BY <1>2, <1>5, <1>6
  <2>2. result.handled = TRUE /\ result.calls = <<>> /\ result.cred = cred
    BY <2>1
  <2>3. ToSet(<<>>) = {}
    BY DEF ToSet
  <2>4. CredAsked(result.cred)
    BY <1>2, <2>2
  <2> QED
    BY <1>6, <2>2, <2>3, <2>4 DEF result
<1>7. CASE ~Provisions
  <2>1. result = [handled |-> calls # <<>>, calls |-> calls, cred |-> NoCred]
    BY <1>2, <1>5, <1>7
  <2>2. result.handled = (calls # <<>>) /\ result.calls = calls /\ result.cred = NoCred
    BY <2>1
  <2>3. CredAsked(result.cred)
    <3>1. NoCred.queued = FALSE
      BY DEF NoCred
    <3>2. Provisions = FALSE
      BY <1>7 DEF Provisions
    <3> QED
      BY <2>2, <3>1, <3>2 DEF CredAsked
  <2>4. result.handled = (Provisions \/ Controls # {})
    BY <1>3, <1>7, <2>2
  <2> QED
    BY <1>3, <1>7, <2>2, <2>3, <2>4 DEF result, AskedCalls
<1> QED
  BY <1>6, <1>7

(* The way older clients write a packet means what the same pairs mean in  *)
(* JSON as long as no key occurs where it is none, for any number of pairs *)
(* and any words.                                                          *)
THEOREM TextAlwaysMeansTheSame == Spec => []TextMeansTheSame
  BY PacketAlwaysTyped, TextSame, PTL
=============================================================================
