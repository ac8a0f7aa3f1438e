--------------------------- MODULE SecurityProofs ---------------------------
(***************************************************************************)
(* Theorems about the session table of main/security.c, for any number of  *)
(* slots, handles and keys and any lifetime.                               *)
(***************************************************************************)
EXTENDS Security, TLAPS

(* The module starts with every variable in its range.                     *)
LEMMA InitTypeOK == Init => TypeOK
  BY SecurityAssumption
  DEF Init, TypeOK, EmptySlot, NoChallenge, Slot, Slots

(* What a client can answer over is a nonce.                               *)
LEMMA AnswersAreNonces ==
  ASSUME TypeOK, NEW h \in Handles, NEW n \in Answers(h)
  PROVE  n \in Nat
<1>1. \A i \in Slots : conns[i].nonce \in Nat
  BY DEF TypeOK, Slot
<1> QED
  BY <1>1 DEF Answers, TypeOK

(* Every step of every operation keeps each variable in its range; the     *)
(* length of the next nonce stays within the slot (sec_set_nonce_len).     *)
LEMMA NextTypeOK == TypeOK /\ [Next]_vars => TypeOK'
<1> SUFFICES ASSUME TypeOK, [Next]_vars PROVE TypeOK'
  OBVIOUS
<1> USE SecurityAssumption DEF TypeOK
<1>1. ASSUME NEW h \in Handles, Connect(h) PROVE TypeOK'
  <2>1. Challenged(h) \in Slot
    BY DEF Challenged, Slot
  <2>2. CASE \E i \in Slots :
               /\ draws < MaxDraws
               /\ draws' = draws + 1
               /\ conns' = [conns EXCEPT ![i] = Challenged(h)]
               /\ authValue' = draws + 1
               /\ challenge' = [challenge EXCEPT ![h] = [nonce |-> draws + 1, at |-> clock]]
    BY <1>1, <2>1, <2>2 DEF Connect
  <2>3. CASE challenge' = [challenge EXCEPT ![h] = NoChallenge]
             /\ UNCHANGED <<conns, authValue, draws>>
    BY <1>1, <2>3 DEF Connect, NoChallenge
  <2> QED
    BY <1>1, <2>2, <2>3 DEF Connect, SecOnConnect, UpdateAuthCharValueAndNotify
<1>2. ASSUME NEW h \in Handles, Disconnect(h) PROVE TypeOK'
  <2>1. EmptySlot \in Slot
    BY DEF EmptySlot, Slot
  <2> QED
    BY <1>2, <2>1 DEF Disconnect, SecClearConn, FreeEntry
<1>3. ASSUME NEW h \in Handles, ReadNonce(h) PROVE TypeOK'
  BY <1>3 DEF ReadNonce, secVars, Slot
<1>4. ASSUME NEW h \in Handles, NEW n \in Answers(h), NEW k \in Keys, AuthResponse(h, n, k)
      PROVE  TypeOK'
  <2>1. ASSUME NEW i \in Slots PROVE [conns[i] EXCEPT !.authed = TRUE] \in Slot
    BY DEF Slot
  <2>2. n \in Nat
    BY AnswersAreNonces
  <2>3. [proved EXCEPT ![h] = @ \cup {n}] \in [Handles -> SUBSET Nat]
    BY <2>2
  <2>4. proved' \in [Handles -> SUBSET Nat]
    BY <1>4, <2>3 DEF AuthResponse
  <2> QED
    BY <1>4, <2>1, <2>4 DEF AuthResponse, SecHandleAuthResponse
<1>5. ASSUME NEW h \in Handles, SecSendNonceNotify(h) PROVE TypeOK'
  BY <1>5 DEF SecSendNonceNotify, UpdateAuthCharValueAndNotify, Slot
<1>6. ASSUME NEW k \in Keys, SecSetPrivateKey(k) PROVE TypeOK'
  BY <1>6 DEF SecSetPrivateKey
<1>7. ASSUME NEW n \in NonceLens, SecSetNonceLen(n) PROVE TypeOK'
  BY <1>7 DEF SecSetNonceLen
<1>8. CASE Tick
  BY <1>8 DEF Tick, secVars
<1>9. CASE UNCHANGED vars
  BY <1>9 DEF vars
<1>10. CASE Restart
  BY <1>10 DEF Restart, EmptySlot, NoChallenge, Slot
<1> QED
  BY <1>1, <1>2, <1>3, <1>4, <1>5, <1>6, <1>7, <1>8, <1>9, <1>10 DEF Next, ConnStep

(* The type invariant of the session table (main/security.c:29-42).        *)
THEOREM TypeCorrect == Spec => []TypeOK
  BY InitTypeOK, NextTypeOK, PTL DEF Spec

----------------------------------------------------------------------------
(* The table and the connections of the host.                              *)

(* A step that leaves the slot, the challenge and the connection of g      *)
(* alone keeps the match between them.                                     *)
LEMMA SlotMatchFrame ==
  ASSUME NEW g \in Proper, SlotMatches(g),
         challenge'[g] = challenge[g],
         (g \in live') <=> (g \in live),
         \A i \in Slots : /\ conns'[i].handle = g <=> conns[i].handle = g
                          /\ conns[i].handle = g =>
                               /\ conns'[i].nonce = conns[i].nonce
                               /\ conns'[i].created = conns[i].created
  PROVE  SlotMatches(g)'
<1>1. EntriesOf(g)' = EntriesOf(g)
  BY DEF EntriesOf
<1>2. HasSession(g)' = HasSession(g)
  BY DEF HasSession, NoChallenge
<1>3. ASSUME NEW i \in Slots, SlotOfChallenge(i, g) PROVE SlotOfChallenge(i, g)'
  BY <1>1, <1>3 DEF SlotOfChallenge, EntriesOf
<1> QED
  BY <1>1, <1>2, <1>3 DEF SlotMatches

(* The slot sec_on_connect takes was free, and nobody else has the handle. *)
LEMMA ConnectTakesFreeSlot ==
  ASSUME TypeOK, SlotsMatchConnections, NEW h \in Handles, h \notin live,
         NEW i \in Slots, FindEntry(h, i) \/ AllocEntry(h, i)
  PROVE  conns[i].handle = 0 /\ (h \in Proper => EntriesOf(h) = {})
<1>1. h \in Proper => EntriesOf(h) = {}
  BY DEF SlotsMatchConnections, SlotMatches, HasSession
<1> QED
  BY <1>1 DEF FindEntry, AllocEntry, IsFirst, EntriesOf, Proper

(* sec_on_connect gives the new connection one slot or none, and leaves    *)
(* the slots of the others alone.                                          *)
LEMMA ConnectMatch ==
  ASSUME TypeOK, SlotsMatchConnections, NEW h \in Handles, Connect(h)
  PROVE  SlotsMatchConnections'
<1> USE SecurityAssumption
<1> SUFFICES ASSUME NEW g \in Proper PROVE SlotMatches(g)'
  BY DEF SlotsMatchConnections
<1>1. SlotMatches(g) /\ g \in Handles /\ g # 0
  BY DEF SlotsMatchConnections, Proper
<1>2. h \notin live /\ live' = live \cup {h}
  BY DEF Connect
<1>3. CASE \E i \in Slots :
             /\ FindEntry(h, i) \/ AllocEntry(h, i)
             /\ conns' = [conns EXCEPT ![i] = Challenged(h)]
             /\ challenge' = [challenge EXCEPT ![h] = [nonce |-> draws + 1, at |-> clock]]
  <2>1. PICK i \in Slots :
             /\ FindEntry(h, i) \/ AllocEntry(h, i)
             /\ conns' = [conns EXCEPT ![i] = Challenged(h)]
             /\ challenge' = [challenge EXCEPT ![h] = [nonce |-> draws + 1, at |-> clock]]
    BY <1>3
  <2>2. conns[i].handle = 0 /\ (h \in Proper => EntriesOf(h) = {})
    BY <1>2, <2>1, ConnectTakesFreeSlot
  <2>3. /\ conns'[i] = Challenged(h)
        /\ \A j \in Slots : j # i => conns'[j] = conns[j]
    BY <2>1 DEF TypeOK
  <2>4. CASE g = h
    <3>1. EntriesOf(h)' = {i}
      BY <1>1, <2>2, <2>3, <2>4 DEF EntriesOf, Challenged
    <3>2. challenge'[h] = [nonce |-> draws + 1, at |-> clock]
      BY <2>1 DEF TypeOK
    <3>3. SlotOfChallenge(i, h)'
      BY <2>3, <3>1, <3>2 DEF SlotOfChallenge, Challenged
    <3>4. HasSession(h)'
      BY <1>2, <3>2 DEF HasSession, NoChallenge, TypeOK
    <3> QED
      BY <2>4, <3>3, <3>4 DEF SlotMatches
  <2>5. CASE g # h
    <3>1. challenge'[g] = challenge[g]
      BY <1>1, <2>1, <2>5 DEF TypeOK
    <3>2. \A j \in Slots : /\ conns'[j].handle = g <=> conns[j].handle = g
                           /\ conns[j].handle = g => conns'[j] = conns[j]
      BY <1>1, <2>2, <2>3, <2>5 DEF Challenged
    <3> QED
      BY <1>1, <1>2, <2>5, <3>1, <3>2, SlotMatchFrame
  <2> QED
    BY <2>4, <2>5
<1>4. CASE /\ challenge' = [challenge EXCEPT ![h] = NoChallenge]
           /\ EntriesOf(h) = {}
           /\ UNCHANGED conns
  <2>1. CASE g = h
    <3>1. ~HasSession(g)'
      BY <1>4, <2>1 DEF HasSession, TypeOK
    <3>2. EntriesOf(g)' = {}
      BY <1>4, <2>1 DEF EntriesOf
    <3> QED
      BY <3>1, <3>2 DEF SlotMatches
  <2>2. CASE g # h
    <3>1. challenge'[g] = challenge[g]
      BY <1>1, <1>4, <2>2 DEF TypeOK
    <3> QED
      BY <1>1, <1>2, <1>4, <2>2, <3>1, SlotMatchFrame
  <2> QED
    BY <2>1, <2>2
<1> QED
  BY <1>3, <1>4 DEF Connect, SecOnConnect

(* sec_clear_conn frees the slot of the connection that ended, and no      *)
(* other.                                                                  *)
LEMMA DisconnectMatch ==
  ASSUME TypeOK, SlotsMatchConnections, NEW h \in Handles, Disconnect(h)
  PROVE  SlotsMatchConnections'
<1> USE SecurityAssumption
<1> SUFFICES ASSUME NEW g \in Proper PROVE SlotMatches(g)'
  BY DEF SlotsMatchConnections
<1>1. SlotMatches(g) /\ g \in Handles /\ g # 0
  BY DEF SlotsMatchConnections, Proper
<1>2. live' = live \ {h} /\ UNCHANGED challenge
  BY DEF Disconnect
<1>3. CASE \E i \in Slots : FindEntry(h, i) /\ FreeEntry(i)
  <2>1. PICK i \in Slots : FindEntry(h, i) /\ FreeEntry(i)
    BY <1>3
  <2>2. /\ conns[i].handle = h
        /\ conns'[i] = EmptySlot
        /\ \A j \in Slots : j # i => conns'[j] = conns[j]
    BY <2>1 DEF FindEntry, IsFirst, EntriesOf, FreeEntry, TypeOK
  <2>3. CASE g = h
    <3>1. EntriesOf(g) = {i}
      BY <1>1, <2>2, <2>3 DEF SlotMatches, SlotOfChallenge, EntriesOf
    <3>2. EntriesOf(g)' = {}
      BY <1>1, <2>2, <3>1 DEF EntriesOf, EmptySlot
    <3>3. ~HasSession(g)'
      BY <1>2, <2>3 DEF HasSession
    <3> QED
      BY <3>2, <3>3 DEF SlotMatches
  <2>4. CASE g # h
    <3>1. \A j \in Slots : /\ conns'[j].handle = g <=> conns[j].handle = g
                           /\ conns[j].handle = g => conns'[j] = conns[j]
      BY <1>1, <2>2, <2>4 DEF EmptySlot
    <3> QED
      BY <1>1, <1>2, <2>4, <3>1, SlotMatchFrame
  <2> QED
    BY <2>3, <2>4
<1>4. CASE EntriesOf(h) = {} /\ UNCHANGED conns
  <2>1. CASE g = h
    BY <1>2, <1>4, <2>1 DEF SlotMatches, HasSession, EntriesOf
  <2>2. CASE g # h
    BY <1>1, <1>2, <1>4, <2>2, SlotMatchFrame
  <2> QED
    BY <2>1, <2>2
<1> QED
  BY <1>3, <1>4 DEF Disconnect, SecClearConn

(* An answer changes nothing of a slot but its flag.                       *)
LEMMA AuthResponseKeeps ==
  ASSUME TypeOK, NEW h \in Handles, NEW n, NEW k \in Keys, AuthResponse(h, n, k), NEW i \in Slots
  PROVE  /\ conns'[i].handle = conns[i].handle
         /\ conns'[i].nonce = conns[i].nonce
         /\ conns'[i].created = conns[i].created
         /\ conns'[i].len = conns[i].len
  BY DEF AuthResponse, SecHandleAuthResponse, TypeOK, Slot

(* A restart leaves no connection and no slot in use.                      *)
LEMMA RestartMatch ==
  ASSUME Restart
  PROVE  SlotsMatchConnections'
<1> SUFFICES ASSUME NEW g \in Proper PROVE SlotMatches(g)'
  BY DEF SlotsMatchConnections
<1>1. ~HasSession(g)'
  BY DEF Restart, HasSession
<1>2. \A i \in Slots : conns'[i].handle = 0
  BY DEF Restart, EmptySlot
<1>3. EntriesOf(g)' = {}
  BY <1>2 DEF EntriesOf, Proper
<1> QED
  BY <1>1, <1>3 DEF SlotMatches

(* Only sec_on_connect and sec_clear_conn give slots out or take them back.*)
LEMMA NextMatch ==
  TypeOK /\ SlotsMatchConnections /\ [Next]_vars => SlotsMatchConnections'
<1> SUFFICES ASSUME TypeOK, SlotsMatchConnections, [Next]_vars
             PROVE  SlotsMatchConnections'
  OBVIOUS
<1>1. ASSUME NEW h \in Handles, Connect(h) PROVE SlotsMatchConnections'
  BY <1>1, ConnectMatch
<1>2. ASSUME NEW h \in Handles, Disconnect(h) PROVE SlotsMatchConnections'
  BY <1>2, DisconnectMatch
<1>3. ASSUME NEW h \in Handles, NEW n, NEW k \in Keys, AuthResponse(h, n, k)
      PROVE  SlotsMatchConnections'
  <2> SUFFICES ASSUME NEW g \in Proper PROVE SlotMatches(g)'
    BY DEF SlotsMatchConnections
  <2>1. SlotMatches(g) /\ UNCHANGED <<live, challenge>>
    BY <1>3 DEF SlotsMatchConnections, AuthResponse
  <2> QED
    BY <1>3, <2>1, AuthResponseKeeps, SlotMatchFrame
<1>4. CASE UNCHANGED <<conns, live, challenge>>
  BY <1>4 DEF SlotsMatchConnections, SlotMatches, SlotOfChallenge, HasSession,
              EntriesOf, NoChallenge
<1>5. ASSUME NEW h \in Handles, ReadNonce(h) \/ SecSendNonceNotify(h)
      PROVE  UNCHANGED <<conns, live, challenge>>
  BY <1>5 DEF ReadNonce, SecSendNonceNotify, secVars
<1>6. ASSUME \/ \E k \in Keys : SecSetPrivateKey(k)
             \/ \E n \in NonceLens : SecSetNonceLen(n)
             \/ Tick
             \/ UNCHANGED vars
      PROVE  UNCHANGED <<conns, live, challenge>>
  BY <1>6 DEF SecSetPrivateKey, SecSetNonceLen, Tick, secVars, vars
<1> QED
  BY <1>1, <1>2, <1>3, <1>4, <1>5, <1>6, RestartMatch DEF Next, ConnStep

(* At boot no slot is in use and nobody is connected.                      *)
LEMMA InitMatch == Init => SlotsMatchConnections
<1> SUFFICES ASSUME Init, NEW g \in Proper PROVE SlotMatches(g)
  BY DEF SlotsMatchConnections
<1>1. ~HasSession(g)
  BY DEF Init, HasSession
<1>2. \A i \in Slots : conns[i].handle = 0
  BY DEF Init, EmptySlot
<1>3. EntriesOf(g) = {}
  BY <1>2 DEF EntriesOf, Proper
<1> QED
  BY <1>1, <1>3 DEF SlotMatches

(* Every connection that was given a challenge owns exactly one slot, with *)
(* that challenge in it, until it disconnects, and no other connection     *)
(* owns any: sec_on_connect and sec_clear_conn (main/security.c:183, 254). *)
THEOREM SlotsMatchAlways == Spec => []SlotsMatchConnections
  BY InitTypeOK, NextTypeOK, InitMatch, NextMatch, PTL DEF Spec

----------------------------------------------------------------------------
(* Answers: what the authenticated flag of a slot says about its client.   *)

(* The flag is only ever set for a client that has answered the slot's     *)
(* nonce with the key the device had.  This holds of handle 0 as well.     *)
FlagAnswered ==
  \A h \in Handles, i \in Slots :
    conns[i].handle = h /\ conns[i].authed => conns[i].nonce \in proved[h]

(* At boot no slot is marked as authenticated.                             *)
LEMMA InitFlag == Init => FlagAnswered
  BY DEF Init, FlagAnswered, EmptySlot

(* What was answered is not forgotten.                                     *)
LEMMA ProvedGrows ==
  ASSUME TypeOK, [Next]_vars, NEW h \in Handles
  PROVE  proved[h] \subseteq proved'[h]
<1>1. ASSUME NEW g \in Handles, NEW n, NEW k \in Keys, AuthResponse(g, n, k)
      PROVE  proved[h] \subseteq proved'[h]
  <2>1. proved' = proved \/ proved' = [proved EXCEPT ![g] = @ \cup {n}]
    BY <1>1 DEF AuthResponse
  <2> QED
    BY <2>1 DEF TypeOK
<1>2. ASSUME NEW g \in Handles,
             \/ Connect(g) \/ Disconnect(g) \/ ReadNonce(g) \/ SecSendNonceNotify(g)
      PROVE  proved' = proved
  BY <1>2 DEF Connect, Disconnect, ReadNonce, SecSendNonceNotify
<1>3. ASSUME \/ \E k \in Keys : SecSetPrivateKey(k)
             \/ \E n \in NonceLens : SecSetNonceLen(n)
             \/ Tick
             \/ Restart
             \/ UNCHANGED vars
      PROVE  proved' = proved
  BY <1>3 DEF SecSetPrivateKey, SecSetNonceLen, Tick, Restart, vars
<1> QED
  BY <1>1, <1>2, <1>3 DEF Next, ConnStep

(* A flag is set by a right answer to the slot's nonce only, and goes with *)
(* the nonce it was set for.                                               *)
LEMMA NextFlag == TypeOK /\ FlagAnswered /\ [Next]_vars => FlagAnswered'
<1> SUFFICES ASSUME TypeOK, FlagAnswered, [Next]_vars,
                    NEW g \in Handles, NEW j \in Slots,
                    conns'[j].handle = g, conns'[j].authed
             PROVE  conns'[j].nonce \in proved'[g]
  BY DEF FlagAnswered
<1>0. CASE conns'[j] = conns[j]
  BY <1>0, ProvedGrows DEF FlagAnswered
<1>1. ASSUME NEW h \in Handles, Connect(h) PROVE conns'[j] = conns[j]
  <2>1. conns'[j] = conns[j] \/ conns'[j] = Challenged(h)
    BY <1>1 DEF Connect, SecOnConnect, TypeOK
  <2> QED
    BY <2>1 DEF Challenged
<1>2. ASSUME NEW h \in Handles, Disconnect(h) PROVE conns'[j] = conns[j]
  <2>1. conns'[j] = conns[j] \/ conns'[j] = EmptySlot
    BY <1>2 DEF Disconnect, SecClearConn, FreeEntry, TypeOK
  <2> QED
    BY <2>1 DEF EmptySlot
<1>3. ASSUME NEW h \in Handles, NEW n, NEW k \in Keys, AuthResponse(h, n, k),
             conns'[j] # conns[j]
      PROVE  conns'[j].nonce \in proved'[g]
  <2>1. conns'[j].nonce = conns[j].nonce /\ conns[j].handle = g
    BY <1>3, AuthResponseKeeps
  <2>2. FindEntry(h, j) /\ AuthOK(j, HMAC(k, n))
    BY <1>3 DEF AuthResponse, SecHandleAuthResponse, TypeOK
  <2>3. g = h /\ n = conns[j].nonce /\ k = privKey
    BY <2>1, <2>2 DEF FindEntry, IsFirst, EntriesOf, AuthOK, HMAC
  <2>4. proved' = [proved EXCEPT ![h] = @ \cup {n}]
    BY <1>3, <2>3 DEF AuthResponse
  <2>5. n \in proved'[h]
    BY <2>4 DEF TypeOK
  <2> QED
    BY <2>1, <2>3, <2>5
<1>4. ASSUME NEW h \in Handles, ReadNonce(h) \/ SecSendNonceNotify(h)
      PROVE  conns' = conns
  BY <1>4 DEF ReadNonce, SecSendNonceNotify, secVars
<1>5. ASSUME \/ \E k \in Keys : SecSetPrivateKey(k)
             \/ \E n \in NonceLens : SecSetNonceLen(n)
             \/ Tick
             \/ UNCHANGED vars
      PROVE  conns' = conns
  BY <1>5 DEF SecSetPrivateKey, SecSetNonceLen, Tick, secVars, vars
<1>6. ~Restart
  BY DEF Restart, EmptySlot
<1> QED
  BY <1>0, <1>1, <1>2, <1>3, <1>4, <1>5, <1>6 DEF Next, ConnStep

(* A slot the search finds for a proper handle is the one of its challenge.*)
LEMMA FoundSlot ==
  ASSUME SlotsMatchConnections, NEW h \in Proper, NEW i \in Slots, FindEntry(h, i)
  PROVE  SlotOfChallenge(i, h)
<1>1. conns[i].handle = h
  BY DEF FindEntry, IsFirst, EntriesOf
<1>2. PICK j \in Slots : SlotOfChallenge(j, h)
  BY <1>1 DEF SlotsMatchConnections, SlotMatches, EntriesOf
<1> QED
  BY <1>1, <1>2 DEF SlotOfChallenge, EntriesOf

(* The device takes a connection for authenticated only when its client    *)
(* has answered the challenge of this very connection with the device's    *)
(* private key (sec_handle_auth_response, main/security.c:203).            *)
THEOREM AuthAnswered == Spec => []AuthAnsweredOwnChallenge
<1>1. SlotsMatchConnections /\ FlagAnswered => AuthAnsweredOwnChallenge
  <2> SUFFICES ASSUME SlotsMatchConnections, FlagAnswered,
                      NEW h \in Proper, NEW i \in Slots,
                      FindEntry(h, i), conns[i].authed
               PROVE  challenge[h] # NoChallenge /\ challenge[h].nonce \in proved[h]
    BY DEF AuthAnsweredOwnChallenge, SecIsConnAuthenticated
  <2>1. SlotOfChallenge(i, h) /\ h \in Handles
    BY FoundSlot DEF Proper
  <2>2. conns[i].handle = h /\ conns[i].nonce = challenge[h].nonce
    BY <2>1 DEF SlotOfChallenge, EntriesOf
  <2>3. challenge[h] # NoChallenge
    BY <2>2 DEF SlotsMatchConnections, SlotMatches, HasSession, EntriesOf
  <2> QED
    BY <2>1, <2>2, <2>3 DEF FlagAnswered
<1> QED
  BY <1>1, InitTypeOK, NextTypeOK, InitMatch, NextMatch, InitFlag, NextFlag, PTL DEF Spec

(* An authentication ends with the lifetime of the challenge it answered,  *)
(* although no step clears the flag (sec_is_conn_authenticated).           *)
THEOREM AuthExpires == Spec => []AuthWithinLifetime
<1>1. TypeOK /\ SlotsMatchConnections => AuthWithinLifetime
  <2> SUFFICES ASSUME TypeOK, SlotsMatchConnections,
                      NEW h \in Proper, NEW i \in Slots, FindEntry(h, i), ~Expired(i)
               PROVE  clock - challenge[h].at <= NonceLifetime
    BY DEF AuthWithinLifetime, SecIsConnAuthenticated
  <2>1. conns[i].created = challenge[h].at /\ h \in Handles
    BY FoundSlot DEF SlotOfChallenge, Proper
  <2> QED
    BY <2>1, SecurityAssumption DEF Expired, TypeOK
<1> QED
  BY <1>1, InitTypeOK, NextTypeOK, InitMatch, NextMatch, PTL DEF Spec

----------------------------------------------------------------------------
(* While a connection lasts no step moves its slot, replaces its nonce or  *)
(* takes its authentication back: alloc_entry takes free slots only and    *)
(* sec_clear_conn frees the slot of the connection that ended.             *)
THEOREM SessionsSurvive == Spec => SessionSurvivesOthers
<1> DEFINE Kept == \A h \in Proper, i \in Slots :
       h \in live /\ h \in live' /\ conns[i].handle = h =>
         /\ conns'[i].handle = h
         /\ conns'[i].nonce = conns[i].nonce
         /\ conns'[i].created = conns[i].created
         /\ conns[i].authed => conns'[i].authed
<1>1. TypeOK /\ SlotsMatchConnections /\ [Next]_vars => Kept
  <2> SUFFICES ASSUME TypeOK, SlotsMatchConnections, [Next]_vars,
                      NEW g \in Proper, NEW j \in Slots,
                      g \in live, g \in live', conns[j].handle = g
               PROVE  /\ conns'[j].handle = g
                      /\ conns'[j].nonce = conns[j].nonce
                      /\ conns'[j].created = conns[j].created
                      /\ conns[j].authed => conns'[j].authed
    OBVIOUS
  <2>1. ASSUME NEW h \in Handles, Connect(h) PROVE conns'[j] = conns[j]
    <3>1. g # 0 /\ h \notin live
      BY <2>1 DEF Connect, Proper
    <3>2. ASSUME NEW i \in Slots, FindEntry(h, i) \/ AllocEntry(h, i) PROVE i # j
      BY <3>1, <3>2, ConnectTakesFreeSlot
    <3> QED
      BY <2>1, <3>2 DEF Connect, SecOnConnect, TypeOK
  <2>2. ASSUME NEW h \in Handles, Disconnect(h) PROVE conns'[j] = conns[j]
    <3>1. ASSUME NEW i \in Slots, FindEntry(h, i) PROVE i # j
      BY <2>2, <3>1 DEF Disconnect, FindEntry, IsFirst, EntriesOf
    <3> QED
      BY <2>2, <3>1 DEF Disconnect, SecClearConn, FreeEntry, TypeOK
  <2>3. ASSUME NEW h \in Handles, NEW n, NEW k \in Keys, AuthResponse(h, n, k)
        PROVE  conns[j].authed => conns'[j].authed
    BY <2>3 DEF AuthResponse, SecHandleAuthResponse, TypeOK, Slot
  <2>4. ASSUME NEW h \in Handles, ReadNonce(h) \/ SecSendNonceNotify(h)
        PROVE  UNCHANGED conns
    BY <2>4 DEF ReadNonce, SecSendNonceNotify, secVars
  <2>5. ASSUME \/ \E k \in Keys : SecSetPrivateKey(k)
               \/ \E n \in NonceLens : SecSetNonceLen(n)
               \/ Tick
               \/ UNCHANGED vars
        PROVE  UNCHANGED conns
    BY <2>5 DEF SecSetPrivateKey, SecSetNonceLen, Tick, secVars, vars
  <2>6. ~Restart
    BY DEF Restart
  <2> QED
    BY <2>1, <2>2, <2>3, <2>4, <2>5, <2>6, AuthResponseKeeps DEF Next, ConnStep
<1>2. TypeOK /\ SlotsMatchConnections /\ [Next]_vars => [Kept]_vars
  BY <1>1
<1> QED
  BY <1>2, InitTypeOK, NextTypeOK, InitMatch, NextMatch, PTL
  DEF Spec, SessionSurvivesOthers

(* What a client reads is the challenge of its own connection, whoever     *)
(* connected last and left a nonce in auth_value (sec_get_auth_value,      *)
(* main/security.c:267).                                                   *)
THEOREM ReadsOwn == Spec => ReadsOwnChallenge
<1> DEFINE Own == \A h \in Proper : held'[h] # held[h] => held'[h] = challenge[h].nonce
<1>1. TypeOK /\ SlotsMatchConnections /\ [Next]_vars => Own
  <2> SUFFICES ASSUME TypeOK, SlotsMatchConnections, [Next]_vars,
                      NEW g \in Proper, held'[g] # held[g]
               PROVE  held'[g] = challenge[g].nonce
    OBVIOUS
  <2>1. ASSUME NEW h \in Handles, ReadNonce(h) PROVE held'[g] = challenge[g].nonce
    <3>1. PICK i \in Slots : FindEntry(h, i) /\ held' = [held EXCEPT ![h] = conns[i].nonce]
      BY <2>1 DEF ReadNonce, SecGetAuthValue
    <3>2. g = h
      BY <3>1 DEF TypeOK, Proper
    <3> QED
      BY <3>1, <3>2, FoundSlot DEF SlotOfChallenge, TypeOK, Proper
  <2>2. ASSUME NEW h \in Handles,
               \/ Connect(h) \/ Disconnect(h) \/ SecSendNonceNotify(h)
               \/ \E n \in Answers(h), k \in Keys : AuthResponse(h, n, k)
        PROVE  UNCHANGED held
    BY <2>2 DEF Connect, Disconnect, SecSendNonceNotify, AuthResponse
  <2>3. ASSUME \/ \E k \in Keys : SecSetPrivateKey(k)
               \/ \E n \in NonceLens : SecSetNonceLen(n)
               \/ Tick
               \/ Restart
               \/ UNCHANGED vars
        PROVE  UNCHANGED held
    BY <2>3 DEF SecSetPrivateKey, SecSetNonceLen, Tick, Restart, secVars, vars
  <2> QED
    BY <2>1, <2>2, <2>3 DEF Next, ConnStep
<1>2. TypeOK /\ SlotsMatchConnections /\ [Next]_vars => [Own]_vars
  BY <1>1
<1> QED
  BY <1>2, InitTypeOK, NextTypeOK, InitMatch, NextMatch, PTL
  DEF Spec, ReadsOwnChallenge
============================================================================
