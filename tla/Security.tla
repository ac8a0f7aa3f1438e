------------------------------ MODULE Security ------------------------------
(***************************************************************************)
(* main/security.c: the table s_conns of BLE sessions, its challenges and  *)
(* the answers that authenticate a connection.                             *)
(*                                                                         *)
(* All of it runs in the NimBLE host task, so every exported function is   *)
(* one atomic step.  A nonce is the number of its draw (esp_random never   *)
(* repeats one); 0 stands for the zeroed bytes of a free slot.  The HMAC   *)
(* is symbolic: a pair of the key and the nonce.                           *)
(*                                                                         *)
(* The environment is part of the model: `live' is the set of connections  *)
(* the NimBLE host holds (the gap events of main.c), `held' the nonce the  *)
(* client of each handle read last, which it keeps when it reconnects.     *)
(* Two variables are history, which no action reads: `challenge', what a   *)
(* connection was given when it formed, and `proved', which nonces its     *)
(* clients have answered with the key the device had at the time.          *)
(***************************************************************************)
EXTENDS Integers

CONSTANTS
  Handles,          \* connection handles the NimBLE host may assign
  MaxSecConns,      \* MAX_SEC_CONNS
  Keys,             \* private keys a client or sec_set_private_key may use
  DefaultKey,       \* default_key of sec_init
  NonceLens,        \* arguments of sec_set_nonce_len
  MaxNonceLen,      \* sizeof nonce
  DefaultNonceLen,  \* initial s_nonce_len
  NonceLifetime,    \* NONCE_LIFETIME_MS, in ticks
  MaxClock,         \* bound: the clock stops there
  MaxDraws          \* bound: number of nonces drawn

ASSUME SecurityAssumption ==
  /\ Handles \subseteq Nat
  /\ MaxSecConns \in Nat \ {0}
  /\ DefaultKey \in Keys
  /\ NonceLens \subseteq Nat
  /\ MaxNonceLen \in Nat
  /\ DefaultNonceLen \in 1..MaxNonceLen
  /\ NonceLifetime \in Nat
  /\ MaxClock \in Nat
  /\ MaxDraws \in Nat

VARIABLES
  conns,      \* s_conns
  authValue,  \* auth_value: the nonce last copied to the shared buffer
  privKey,    \* s_priv_key
  nonceLen,   \* s_nonce_len
  draws,      \* number of nonces drawn from esp_random
  clock,      \* now_ms()
  live,       \* connections of the NimBLE host
  held,       \* held[h]: nonce the client of h holds, 0 if none
  challenge,  \* history: the challenge h was given when it connected
  proved      \* history: the nonces clients of h answered with the device's key

secVars == <<conns, authValue, privKey, nonceLen, draws>>
vars == <<conns, authValue, privKey, nonceLen, draws, clock, live, held, challenge, proved>>

Slots == 0 .. MaxSecConns - 1

Slot == [handle : Handles \cup {0}, nonce : Nat, len : Nat, created : Nat, authed : BOOLEAN]

EmptySlot == [handle |-> 0, nonce |-> 0, len |-> 0, created |-> 0, authed |-> FALSE]

NoChallenge == [nonce |-> 0, at |-> 0]

----------------------------------------------------------------------------
(* The search of the table.  A slot is free when its handle is 0, which is *)
(* also what find_entry compares with when it is asked for handle 0.       *)

EntriesOf(h) == {i \in Slots : conns[i].handle = h}

IsFirst(i, S) == i \in S /\ \A j \in S : i <= j

FindEntry(h, i) == IsFirst(i, EntriesOf(h))

(* Mutant: a full table evicts its first slot.                             *)
AllocEntryEvicting(h, i) ==
  EntriesOf(h) = {} /\ IsFirst(i, IF EntriesOf(0) = {} THEN Slots ELSE EntriesOf(0))

AllocEntry(h, i) == EntriesOf(h) = {} /\ IsFirst(i, EntriesOf(0))

(* Mutant: the nonce of the draw before is used again.                     *)
ChallengedAgain(h) ==
  [handle |-> h, nonce |-> draws, len |-> nonceLen, created |-> clock, authed |-> FALSE]

(* A slot as generate_nonce_for_index leaves it.                           *)
Challenged(h) ==
  [handle |-> h, nonce |-> draws + 1, len |-> nonceLen, created |-> clock, authed |-> FALSE]

(* The nonce goes to the buffer all connections share.                     *)
UpdateAuthCharValueAndNotify(nonce) == authValue' = nonce

HMAC(key, nonce) == <<key, nonce>>

Expired(i) == clock - conns[i].created > NonceLifetime

(* Mutant: the answer is compared with a MAC that leaves the nonce out.    *)
AuthOKAnyNonce(i, hmac) == ~Expired(i) /\ hmac[1] = privKey

(* Mutant: the answer is compared with a MAC that leaves the key out.      *)
AuthOKAnyKey(i, hmac) == ~Expired(i) /\ hmac[2] = conns[i].nonce

AuthOK(i, hmac) == ~Expired(i) /\ hmac = HMAC(privKey, conns[i].nonce)

----------------------------------------------------------------------------
(* The exported functions, over the module's own state.                    *)

SecOnConnect(h) ==
  \/ \E i \in Slots :
       /\ FindEntry(h, i) \/ AllocEntry(h, i)
       /\ draws < MaxDraws
       /\ draws' = draws + 1
       /\ conns' = [conns EXCEPT ![i] = Challenged(h)]
       /\ UpdateAuthCharValueAndNotify(draws + 1)
       /\ challenge' = [challenge EXCEPT ![h] = [nonce |-> draws + 1, at |-> clock]]
  \/ /\ EntriesOf(h) = {}
     /\ EntriesOf(0) = {}
     /\ challenge' = [challenge EXCEPT ![h] = NoChallenge]
     /\ UNCHANGED <<conns, authValue, draws>>

SecHandleAuthResponse(h, hmac) ==
  \/ \E i \in Slots :
       /\ FindEntry(h, i)
       /\ AuthOK(i, hmac)
       /\ conns' = [conns EXCEPT ![i].authed = TRUE]
  \/ /\ \A i \in Slots : FindEntry(h, i) => ~AuthOK(i, hmac)
     /\ UNCHANGED conns

(* Mutant: the second look at the expiry is left out.                      *)
SecIsConnAuthenticatedForever(h) ==
  \E i \in Slots : FindEntry(h, i) /\ conns[i].authed

SecIsConnAuthenticated(h) ==
  \E i \in Slots : FindEntry(h, i) /\ conns[i].authed /\ ~Expired(i)

(* Mutant: only the flag is cleared, the slot keeps its owner.             *)
FreeEntryKeepsOwner(i) == conns' = [conns EXCEPT ![i].authed = FALSE]

FreeEntry(i) == conns' = [conns EXCEPT ![i] = EmptySlot]

SecClearConn(h) ==
  \/ \E i \in Slots : FindEntry(h, i) /\ FreeEntry(i)
  \/ EntriesOf(h) = {} /\ UNCHANGED conns

(* sec_get_auth_value: slot i holds a nonce for h.                         *)
SecGetAuthValue(h, i) == FindEntry(h, i) /\ conns[i].len # 0

----------------------------------------------------------------------------
Init ==
  /\ conns = [i \in Slots |-> EmptySlot]
  /\ authValue = 0
  /\ privKey = DefaultKey
  /\ nonceLen = DefaultNonceLen
  /\ draws = 0
  /\ clock = 0
  /\ live = {}
  /\ held = [h \in Handles |-> 0]
  /\ challenge = [h \in Handles |-> NoChallenge]
  /\ proved = [h \in Handles |-> {}]

Connect(h) ==
  /\ h \notin live
  /\ live' = live \cup {h}
  /\ SecOnConnect(h)
  /\ UNCHANGED <<privKey, nonceLen, clock, held, proved>>

Disconnect(h) ==
  /\ h \in live
  /\ live' = live \ {h}
  /\ SecClearConn(h)
  /\ UNCHANGED <<authValue, privKey, nonceLen, draws, clock, held, challenge, proved>>

(* Mutant: the shared buffer is read instead of the connection's slot.     *)
ReadNonceShared(h) ==
  /\ h \in live
  /\ \E i \in Slots :
       /\ SecGetAuthValue(h, i)
       /\ held' = [held EXCEPT ![h] = authValue]
  /\ UNCHANGED <<secVars, clock, live, challenge, proved>>

ReadNonce(h) ==
  /\ h \in live
  /\ \E i \in Slots :
       /\ SecGetAuthValue(h, i)
       /\ held' = [held EXCEPT ![h] = conns[i].nonce]
  /\ UNCHANGED <<secVars, clock, live, challenge, proved>>

(* What a client can compute an answer over: the nonce it holds, be it an  *)
(* old one, and the empty nonce of a slot that has none to be read, which  *)
(* is what the search finds for handle 0 in a free slot.                   *)
Answers(h) ==
  ({held[h]} \ {0})
    \cup {conns[i].nonce : i \in {j \in Slots : FindEntry(h, j) /\ conns[j].len = 0}}

(* The client answers nonce n under key k.                                 *)
AuthResponse(h, n, k) ==
  /\ h \in live
  /\ SecHandleAuthResponse(h, HMAC(k, n))
  /\ proved' = IF k = privKey THEN [proved EXCEPT ![h] = @ \cup {n}] ELSE proved
  /\ UNCHANGED <<authValue, privKey, nonceLen, draws, clock, live, held, challenge>>

SecSetPrivateKey(k) ==
  /\ privKey' = k
  /\ UNCHANGED <<conns, authValue, nonceLen, draws, clock, live, held, challenge, proved>>

(* Mutant: the length is not checked.                                      *)
SecSetNonceLenUnchecked(n) ==
  /\ nonceLen' = n
  /\ UNCHANGED <<conns, authValue, privKey, draws, clock, live, held, challenge, proved>>

SecSetNonceLen(n) ==
  /\ n \in 1..MaxNonceLen
  /\ nonceLen' = n
  /\ UNCHANGED <<conns, authValue, privKey, draws, clock, live, held, challenge, proved>>

SecSendNonceNotify(h) ==
  /\ \E i \in Slots : FindEntry(h, i) /\ UpdateAuthCharValueAndNotify(conns[i].nonce)
  /\ UNCHANGED <<conns, privKey, nonceLen, draws, clock, live, held, challenge, proved>>

Tick ==
  /\ clock < MaxClock
  /\ clock' = clock + 1
  /\ UNCHANGED <<secVars, live, held, challenge, proved>>

(* The device restarts: sec_init finds the table zeroed, the clock starts  *)
(* again and no connection is left.  Clients keep what they have read, and *)
(* esp_random goes on to give nonces nobody has seen.                      *)
Restart ==
  /\ conns' = [i \in Slots |-> EmptySlot]
  /\ authValue' = 0
  /\ privKey' = DefaultKey
  /\ nonceLen' = DefaultNonceLen
  /\ clock' = 0
  /\ live' = {}
  /\ challenge' = [h \in Handles |-> NoChallenge]
  /\ UNCHANGED <<draws, held, proved>>

ConnStep(h) ==
  \/ Connect(h)
  \/ Disconnect(h)
  \/ ReadNonce(h)
  \/ \E n \in Answers(h), k \in Keys : AuthResponse(h, n, k)
  \/ SecSendNonceNotify(h)

Next ==
  \/ \E h \in Handles : ConnStep(h)
  \/ \E k \in Keys : SecSetPrivateKey(k)
  \/ \E n \in NonceLens : SecSetNonceLen(n)
  \/ Tick
  \/ Restart

Spec == Init /\ [][Next]_vars

----------------------------------------------------------------------------
(* Handles the table can tell from a free slot.                            *)
Proper == Handles \ {0}

(* Every variable stays in its range; the length of the next nonce stays   *)
(* between 1 and the bytes a slot has room for (sec_set_nonce_len).        *)
TypeOK ==
  /\ conns \in [Slots -> Slot]
  /\ authValue \in Nat
  /\ privKey \in Keys
  /\ nonceLen \in 1..MaxNonceLen
  /\ draws \in Nat
  /\ clock \in Nat
  /\ live \subseteq Handles
  /\ held \in [Handles -> Nat]
  /\ challenge \in [Handles -> [nonce : Nat, at : Nat]]
  /\ proved \in [Handles -> SUBSET Nat]

(* The slot holds the challenge its connection was given.                  *)
SlotOfChallenge(i, h) ==
  /\ EntriesOf(h) = {i}
  /\ conns[i].nonce = challenge[h].nonce
  /\ conns[i].created = challenge[h].at

HasSession(h) == h \in live /\ challenge[h] # NoChallenge

SlotMatches(h) ==
  /\ HasSession(h) => \E i \in Slots : SlotOfChallenge(i, h)
  /\ ~HasSession(h) => EntriesOf(h) = {}

(* The table and the host agree: a connection that was given a challenge   *)
(* owns exactly one slot, with that challenge in it, until it disconnects, *)
(* whatever the others do; a connection that was turned away, and one that *)
(* is gone, own none, so that no slot leaks.                               *)
SlotsMatchConnections == \A h \in Proper : SlotMatches(h)

(* A connection is authenticated only when its own client has answered the *)
(* challenge of this very connection with the private key the device had   *)
(* at the time: an answer under another key, to an older nonce or to       *)
(* another connection's is not enough.                                     *)
AuthAnsweredOwnChallenge ==
  \A h \in Proper :
    SecIsConnAuthenticated(h) =>
      challenge[h] # NoChallenge /\ challenge[h].nonce \in proved[h]

(* sec_is_conn_authenticated stops saying yes NONCE_LIFETIME_MS after the  *)
(* connection was challenged, without any step that takes the answer back. *)
AuthWithinLifetime ==
  \A h \in Proper :
    SecIsConnAuthenticated(h) => clock - challenge[h].at <= NonceLifetime

(* While a connection lasts no step, of its own or of another, moves its   *)
(* slot, replaces its nonce or takes its authentication back.              *)
SessionSurvivesOthers ==
  [][\A h \in Proper, i \in Slots :
       h \in live /\ h \in live' /\ conns[i].handle = h =>
         /\ conns'[i].handle = h
         /\ conns'[i].nonce = conns[i].nonce
         /\ conns'[i].created = conns[i].created
         /\ conns[i].authed => conns'[i].authed]_vars

(* A client that reads the auth characteristic gets the nonce of its own   *)
(* connection, although auth_value holds the nonce of whoever came last.   *)
ReadsOwnChallenge ==
  [][\A h \in Proper : held'[h] # held[h] => held'[h] = challenge[h].nonce]_vars

(* Says the same of every handle the host may assign, 0 included:          *)
(* security.c:24 keeps "Per-connection state" in a "table keyed by         *)
(* conn_handle", so that a connection given a challenge still has it until *)
(* it disconnects.                                                         *)
PerConnectionState ==
  \A h \in live : challenge[h] # NoChallenge =>
    \E i \in Slots : conns[i].handle = h /\ conns[i].nonce = challenge[h].nonce

----------------------------------------------------------------------------
(* The session of each proper handle, as the table and the host hold it.   *)

SlotOf(h) == CHOOSE i \in Slots : conns[i].handle = h

SessionOf(h) ==
  IF EntriesOf(h) # {}
    THEN [state |-> IF conns[SlotOf(h)].authed THEN "authenticated" ELSE "challenged",
          nonce |-> conns[SlotOf(h)].nonce,
          since |-> conns[SlotOf(h)].created]
    ELSE [state |-> IF h \in live THEN "refused" ELSE "idle", nonce |-> 0, since |-> 0]

Abs == INSTANCE Session WITH
  Peers <- Proper, Lifetime <- NonceLifetime,
  session <- [h \in Proper |-> SessionOf(h)],
  held <- [h \in Proper |-> held[h]],
  proved <- [h \in Proper |-> proved[h]],
  issued <- draws, now <- clock

(* The table of slots implements one independent session per connection    *)
(* with a fresh nonce for each, read by its own client only; the answer    *)
(* that authenticates is the right one, while the nonce is young enough,   *)
(* and no right answer to it is turned down.                               *)
ImplementsSession == Abs!Spec
============================================================================
