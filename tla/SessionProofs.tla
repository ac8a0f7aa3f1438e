---------------------------- MODULE SessionProofs ----------------------------
(***************************************************************************)
(* The table of slots (Security) implements one independent session for    *)
(* each connection (Session), for every number of slots and connections.   *)
(* The invariants the proof rests on are those of SecurityProofs.          *)
(***************************************************************************)
EXTENDS SecurityProofs

(* The session a slot in use stands for.                                   *)
OwnedBy(s) ==
  [state |-> IF s.authed THEN "authenticated" ELSE "challenged",
   nonce |-> s.nonce, since |-> s.created]

(* The session of a connection without a slot.                             *)
Slotless(up) ==
  [state |-> IF up THEN "refused" ELSE "idle", nonce |-> 0, since |-> 0]

(* The session of a connection with one slot is the one that slot holds.   *)
LEMMA SessionOfOwner ==
  ASSUME NEW h \in Handles, NEW i \in Slots, EntriesOf(h) = {i}
  PROVE  SessionOf(h) = OwnedBy(conns[i])
<1>1. conns[i].handle = h
  BY DEF EntriesOf
<1>2. SlotOf(h) \in Slots /\ conns[SlotOf(h)].handle = h
  BY <1>1 DEF SlotOf
<1>3. SlotOf(h) = i
  BY <1>2 DEF EntriesOf
<1> QED
  BY <1>3 DEF SessionOf, OwnedBy

(* The same of the state after a step.                                     *)
LEMMA SessionOfOwnerNext ==
  ASSUME NEW h \in Handles, NEW i \in Slots, EntriesOf(h)' = {i}
  PROVE  SessionOf(h)' = OwnedBy(conns'[i])
<1>1. conns'[i].handle = h
  BY DEF EntriesOf
<1>2. SlotOf(h)' \in Slots /\ conns'[SlotOf(h)'].handle = h
  BY <1>1 DEF SlotOf
<1>3. SlotOf(h)' = i
  BY <1>2 DEF EntriesOf
<1> QED
  BY <1>3 DEF SessionOf, OwnedBy

(* Without a slot a connection is refused while it is up, idle otherwise.  *)
LEMMA SessionOfSlotless ==
  ASSUME NEW h \in Handles, EntriesOf(h) = {}
  PROVE  SessionOf(h) = Slotless(h \in live)
  BY DEF SessionOf, Slotless

(* The same of the state after a step.                                     *)
LEMMA SessionOfSlotlessNext ==
  ASSUME NEW h \in Handles, EntriesOf(h)' = {}
  PROVE  SessionOf(h)' = Slotless(h \in live')
  BY DEF SessionOf, Slotless

(* The slots of a connection are none or one.                              *)
LEMMA OneSlotAtMost ==
  ASSUME NEW h \in Proper, SlotMatches(h)
  PROVE  EntriesOf(h) = {} \/ \E i \in Slots : EntriesOf(h) = {i}
  BY DEF SlotMatches, SlotOfChallenge

(* A step that leaves the slot and the connection of g alone leaves its    *)
(* session alone.                                                          *)
LEMMA SessionFrame ==
  ASSUME NEW g \in Proper, SlotMatches(g),
         (g \in live') <=> (g \in live),
         \A i \in Slots : /\ conns'[i].handle = g <=> conns[i].handle = g
                          /\ conns[i].handle = g => conns'[i] = conns[i]
  PROVE  SessionOf(g)' = SessionOf(g)
<1>0. g \in Handles
  BY DEF Proper
<1>1. EntriesOf(g)' = EntriesOf(g)
  BY DEF EntriesOf
<1>2. CASE EntriesOf(g) = {}
  BY <1>0, <1>1, <1>2, SessionOfSlotless, SessionOfSlotlessNext DEF Slotless
<1>3. ASSUME NEW i \in Slots, EntriesOf(g) = {i} PROVE SessionOf(g)' = SessionOf(g)
  <2>1. conns'[i] = conns[i]
    BY <1>3 DEF EntriesOf
  <2> QED
    BY <1>0, <1>1, <1>3, <2>1, SessionOfOwner, SessionOfOwnerNext
<1> QED
  BY <1>2, <1>3, OneSlotAtMost

----------------------------------------------------------------------------
Sess == [h \in Proper |-> SessionOf(h)]
Held == [h \in Proper |-> held[h]]
Proof == [h \in Proper |-> proved[h]]

(* A step that keeps the table and the connections keeps every session.    *)
LEMMA SessStutter ==
  ASSUME SlotsMatchConnections, UNCHANGED <<conns, live>>
  PROVE  Sess' = Sess
<1>1. ASSUME NEW g \in Proper PROVE SessionOf(g)' = SessionOf(g)
  BY <1>1, SessionFrame DEF SlotsMatchConnections
<1> QED
  BY <1>1 DEF Sess, Proper

(* sec_on_connect opens a session with a fresh challenge or turns the      *)
(* connection away.                                                        *)
LEMMA ConnectOpens ==
  ASSUME TypeOK, SlotsMatchConnections, NEW h \in Handles, Connect(h)
  PROVE  Abs!Next \/ UNCHANGED Abs!vars
<1> USE SecurityAssumption
<1>1. h \notin live /\ live' = live \cup {h} /\ UNCHANGED <<clock, held, proved>>
  BY DEF Connect
<1>2. UNCHANGED <<Held, Proof, clock>>
  BY <1>1 DEF Held, Proof, Proper
<1>3. h \in Proper => EntriesOf(h) = {} /\ SessionOf(h) = Slotless(FALSE)
  BY <1>1, SessionOfSlotless
  DEF SlotsMatchConnections, SlotMatches, HasSession, Slotless
<1>4. CASE \E i \in Slots :
             /\ FindEntry(h, i) \/ AllocEntry(h, i)
             /\ draws' = draws + 1
             /\ conns' = [conns EXCEPT ![i] = Challenged(h)]
  <2>1. PICK i \in Slots :
             /\ FindEntry(h, i) \/ AllocEntry(h, i)
             /\ draws' = draws + 1
             /\ conns' = [conns EXCEPT ![i] = Challenged(h)]
    BY <1>4
  <2>2. conns[i].handle = 0
    BY <1>1, <2>1, ConnectTakesFreeSlot
  <2>3. /\ conns'[i] = Challenged(h)
        /\ \A j \in Slots : j # i => conns'[j] = conns[j]
    BY <2>1 DEF TypeOK
  <2>4. draws' > draws
    BY <2>1 DEF TypeOK
  <2>5. ASSUME NEW g \in Proper, g # h PROVE SessionOf(g)' = SessionOf(g)
    <3>1. g # 0
      BY DEF Proper
    <3>2. \A j \in Slots : /\ conns'[j].handle = g <=> conns[j].handle = g
                           /\ conns[j].handle = g => conns'[j] = conns[j]
      BY <2>2, <2>3, <2>5, <3>1 DEF Challenged
    <3> QED
      BY <1>1, <2>5, <3>2, SessionFrame DEF SlotsMatchConnections
  <2>6. CASE h \in Proper
    <3>1. EntriesOf(h)' = {i}
      BY <1>3, <2>2, <2>3, <2>6 DEF EntriesOf, Challenged, Proper
    <3>2. SessionOf(h)' = Abs!Opened(draws', clock)
      BY <2>1, <2>3, <3>1, SessionOfOwnerNext DEF OwnedBy, Challenged, Abs!Opened
    <3>3. Sess' = [Sess EXCEPT ![h] = Abs!Opened(draws', clock)]
      BY <2>5, <2>6, <3>2 DEF Sess
    <3>4. Sess[h] = Abs!Idle
      BY <1>3, <2>6 DEF Sess, Slotless, Abs!Idle
    <3>5. Abs!Open(h)
      BY <1>2, <2>4, <3>3, <3>4 DEF Sess, Held, Proof, Abs!Open
    <3> QED
      BY <2>6, <3>5 DEF Abs!Next
  <2>7. CASE h \notin Proper
    <3>1. Sess' = Sess
      BY <2>5, <2>7 DEF Sess
    <3> QED
      BY <1>2, <2>4, <3>1 DEF Sess, Held, Proof, Abs!DrawElsewhere, Abs!Next
  <2> QED
    BY <2>6, <2>7
<1>5. CASE EntriesOf(h) = {} /\ UNCHANGED <<conns, draws>>
  <2>1. ASSUME NEW g \in Proper, g # h PROVE SessionOf(g)' = SessionOf(g)
    BY <1>1, <1>5, <2>1, SessionFrame DEF SlotsMatchConnections
  <2>2. CASE h \in Proper
    <3>1. EntriesOf(h)' = {} /\ h \in live'
      BY <1>1, <1>5 DEF EntriesOf
    <3>2. SessionOf(h)' = Abs!Refused
      BY <3>1, SessionOfSlotlessNext DEF Slotless, Abs!Refused
    <3>3. Sess' = [Sess EXCEPT ![h] = Abs!Refused]
      BY <2>1, <2>2, <3>2 DEF Sess
    <3>4. Sess[h] = Abs!Idle
      BY <1>3, <2>2 DEF Sess, Slotless, Abs!Idle
    <3>5. Abs!Refuse(h)
      BY <1>2, <1>5, <3>3, <3>4 DEF Sess, Held, Proof, Abs!Refuse
    <3> QED
      BY <2>2, <3>5 DEF Abs!Next
  <2>3. CASE h \notin Proper
    <3>1. Sess' = Sess
      BY <2>1, <2>3 DEF Sess
    <3> QED
      BY <1>2, <1>5, <3>1 DEF Sess, Held, Proof, Abs!vars
  <2> QED
    BY <2>2, <2>3
<1> QED
  BY <1>4, <1>5 DEF Connect, SecOnConnect

(* sec_clear_conn closes the session of the connection that ended, and no  *)
(* other.                                                                  *)
LEMMA DisconnectCloses ==
  ASSUME TypeOK, SlotsMatchConnections, NEW h \in Handles, Disconnect(h)
  PROVE  Abs!Next \/ UNCHANGED Abs!vars
<1>1. h \in live /\ live' = live \ {h} /\ UNCHANGED <<draws, clock, held, proved>>
  BY DEF Disconnect
<1>2. UNCHANGED <<Held, Proof>>
  BY <1>1 DEF Held, Proof
<1>3. SlotsMatchConnections'
  BY DisconnectMatch
<1>4. ASSUME NEW g \in Proper, g # h PROVE SessionOf(g)' = SessionOf(g)
  <2>1. \A i \in Slots : /\ conns'[i].handle = g <=> conns[i].handle = g
                         /\ conns[i].handle = g => conns'[i] = conns[i]
    <3>1. CASE \E i \in Slots : FindEntry(h, i) /\ FreeEntry(i)
      BY <1>4, <3>1 DEF FindEntry, IsFirst, EntriesOf, FreeEntry, EmptySlot, TypeOK, Proper
    <3>2. CASE UNCHANGED conns
      BY <3>2
    <3> QED
      BY <3>1, <3>2 DEF Disconnect, SecClearConn
  <2> QED
    BY <1>1, <1>4, <2>1, SessionFrame DEF SlotsMatchConnections
<1>5. CASE h \in Proper
  <2>1. SessionOf(h)' = Abs!Idle
    <3>1. EntriesOf(h)' = {} /\ h \notin live'
      BY <1>1, <1>3, <1>5 DEF SlotsMatchConnections, SlotMatches, HasSession
    <3> QED
      BY <3>1, SessionOfSlotlessNext DEF Slotless, Abs!Idle
  <2>2. Sess' = [Sess EXCEPT ![h] = Abs!Idle]
    BY <1>4, <1>5, <2>1 DEF Sess
  <2>3. SessionOf(h) # Abs!Idle
    <3>1. SlotMatches(h)
      BY <1>5 DEF SlotsMatchConnections
    <3>2. CASE EntriesOf(h) = {}
      BY <1>1, <3>2, SessionOfSlotless DEF Slotless, Abs!Idle
    <3>3. ASSUME NEW i \in Slots, EntriesOf(h) = {i} PROVE SessionOf(h) # Abs!Idle
      BY <3>3, SessionOfOwner DEF OwnedBy, Abs!Idle
    <3> QED
      BY <1>5, <3>1, <3>2, <3>3, OneSlotAtMost
  <2>4. Sess[h] # Abs!Idle
    BY <1>5, <2>3 DEF Sess
  <2>5. Abs!Close(h)
    BY <1>1, <1>2, <2>2, <2>4 DEF Sess, Held, Proof, Abs!Close
  <2> QED
    BY <1>5, <2>5 DEF Abs!Next
<1>6. CASE h \notin Proper
  <2>1. Sess' = Sess
    BY <1>4, <1>6 DEF Sess
  <2> QED
    BY <1>1, <1>2, <2>1 DEF Sess, Held, Proof, Abs!vars
<1> QED
  BY <1>5, <1>6

(* A read hands the client of a session the session's own challenge.       *)
LEMMA ReadReads ==
  ASSUME TypeOK, SlotsMatchConnections, NEW h \in Handles, ReadNonce(h)
  PROVE  Abs!Next \/ UNCHANGED Abs!vars
<1>1. PICK i \in Slots : FindEntry(h, i) /\ held' = [held EXCEPT ![h] = conns[i].nonce]
  BY DEF ReadNonce, SecGetAuthValue
<1>2. UNCHANGED <<conns, live, draws, clock, proved>>
  BY DEF ReadNonce, secVars
<1>3. UNCHANGED <<Sess, Proof>>
  BY <1>2, SessStutter DEF Proof
<1>4. CASE h \in Proper
  <2>1. SessionOf(h) = OwnedBy(conns[i])
    BY <1>1, <1>4, FoundSlot, SessionOfOwner DEF SlotOfChallenge
  <2>2. Sess[h].state \in {"challenged", "authenticated"} /\ Sess[h].nonce = conns[i].nonce
    BY <1>4, <2>1 DEF Sess, OwnedBy
  <2>3. Held' = [Held EXCEPT ![h] = Sess[h].nonce]
    BY <1>1, <1>4, <2>2 DEF Held, Proper, TypeOK
  <2>4. Abs!Read(h)
    BY <1>2, <1>3, <2>2, <2>3 DEF Sess, Held, Proof, Abs!Read
  <2> QED
    BY <1>4, <2>4 DEF Abs!Next
<1>5. CASE h \notin Proper
  <2>1. Held' = Held
    BY <1>1, <1>5 DEF Held, Proper, TypeOK
  <2> QED
    BY <1>2, <1>3, <2>1 DEF Sess, Held, Proof, Abs!vars
<1> QED
  BY <1>4, <1>5

(* A nonce of a slot that shows none is 0, which is what nobody draws.     *)
BlankSlots == \A i \in Slots : conns[i].len = 0 => conns[i].nonce = 0

(* A slot is blank until a nonce of at least one byte is drawn for it.     *)
LEMMA NextBlank == TypeOK /\ BlankSlots /\ [Next]_vars => BlankSlots'
<1> SUFFICES ASSUME TypeOK, BlankSlots, [Next]_vars,
                    NEW j \in Slots, conns'[j].len = 0
             PROVE  conns'[j].nonce = 0
  BY DEF BlankSlots
<1>1. ASSUME NEW h \in Handles, Connect(h) PROVE conns'[j] = conns[j]
  <2>1. conns'[j] = conns[j] \/ conns'[j] = Challenged(h)
    BY <1>1 DEF Connect, SecOnConnect, TypeOK
  <2>2. Challenged(h).len # 0
    BY SecurityAssumption DEF Challenged, TypeOK
  <2> QED
    BY <2>1, <2>2
<1>2. ASSUME NEW h \in Handles, Disconnect(h) PROVE conns'[j].nonce = 0
  <2>1. conns'[j] = conns[j] \/ conns'[j] = EmptySlot
    BY <1>2 DEF Disconnect, SecClearConn, FreeEntry, TypeOK
  <2> QED
    BY <2>1 DEF BlankSlots, EmptySlot
<1>3. ASSUME NEW h \in Handles, NEW n, NEW k \in Keys, AuthResponse(h, n, k)
      PROVE  conns'[j].nonce = 0
  BY <1>3, AuthResponseKeeps DEF BlankSlots
<1>4. ASSUME NEW h \in Handles, ReadNonce(h) \/ SecSendNonceNotify(h)
      PROVE  UNCHANGED conns
  BY <1>4 DEF ReadNonce, SecSendNonceNotify, secVars
<1>5. ASSUME \/ \E k \in Keys : SecSetPrivateKey(k)
             \/ \E n \in NonceLens : SecSetNonceLen(n)
             \/ Tick
             \/ UNCHANGED vars
      PROVE  UNCHANGED conns
  BY <1>5 DEF SecSetPrivateKey, SecSetNonceLen, Tick, secVars, vars
<1>6. Restart => conns'[j].nonce = 0
  BY DEF Restart, EmptySlot
<1> QED
  BY <1>1, <1>2, <1>3, <1>4, <1>5, <1>6 DEF Next, ConnStep, BlankSlots

(* A connection with a handle of its own answers over what its client      *)
(* holds, or over nothing.                                                 *)
LEMMA AnswerOfOwn ==
  ASSUME BlankSlots, NEW h \in Handles, NEW n \in Answers(h)
  PROVE  n \in {0, held[h]}
  BY DEF Answers, BlankSlots

(* A right answer authenticates the session of its own connection if it is *)
(* to its challenge and in time, and is in vain otherwise; a wrong one     *)
(* changes nothing.                                                        *)
LEMMA AnswerProves ==
  ASSUME TypeOK, SlotsMatchConnections, BlankSlots,
         NEW h \in Handles, NEW n \in Answers(h), NEW k \in Keys, AuthResponse(h, n, k)
  PROVE  Abs!Next \/ UNCHANGED Abs!vars
<1> USE SecurityAssumption
<1>1. h \in live /\ UNCHANGED <<live, draws, clock, held>>
  BY DEF AuthResponse
<1>2. UNCHANGED Held
  BY <1>1 DEF Held
<1>3. ASSUME NEW g \in Proper, g # h PROVE SessionOf(g)' = SessionOf(g)
  <2>1. \A j \in Slots : conns[j].handle = g => conns'[j] = conns[j]
    BY <1>3 DEF AuthResponse, SecHandleAuthResponse, FindEntry, IsFirst, EntriesOf, TypeOK
  <2>2. \A j \in Slots : conns'[j].handle = g <=> conns[j].handle = g
    BY AuthResponseKeeps
  <2> QED
    BY <1>1, <1>3, <2>1, <2>2, SessionFrame DEF SlotsMatchConnections
<1>4. CASE h \notin Proper
  <2>1. Sess' = Sess
    BY <1>3, <1>4 DEF Sess
  <2>2. Proof' = Proof
    BY <1>4 DEF Proof, Proper, AuthResponse, TypeOK
  <2> QED
    BY <1>1, <1>2, <2>1, <2>2 DEF Sess, Held, Proof, Abs!vars
<1>5. CASE h \in Proper /\ k # privKey
  <2>1. UNCHANGED <<conns, proved>>
    BY <1>5 DEF AuthResponse, SecHandleAuthResponse, AuthOK, HMAC
  <2>2. Sess' = Sess /\ Proof' = Proof
    BY <1>1, <2>1, SessStutter DEF Proof
  <2> QED
    BY <1>1, <1>2, <2>2 DEF Sess, Held, Proof, Abs!vars
<1>6. CASE h \in Proper /\ k = privKey
  <2>1. proved' = [proved EXCEPT ![h] = @ \cup {n}]
    BY <1>6 DEF AuthResponse
  <2>2. Proof' = [Proof EXCEPT ![h] = @ \cup {n}]
    BY <1>6, <2>1 DEF Proof, Proper, TypeOK
  <2>3. n \in {0, Held[h]}
    BY <1>6, AnswerOfOwn DEF Held, Proper
  <2>4. SlotMatches(h)
    BY <1>6 DEF SlotsMatchConnections
  <2>5. CASE EntriesOf(h) = {}
    <3>1. UNCHANGED conns
      BY <2>5 DEF AuthResponse, SecHandleAuthResponse, FindEntry, IsFirst
    <3>2. Sess' = Sess
      BY <1>1, <3>1, SessStutter
    <3>3. Sess[h] = Slotless(TRUE)
      BY <1>1, <1>6, <2>5, SessionOfSlotless DEF Sess
    <3>4. Sess[h] # Abs!Idle /\ ~Abs!Answerable(h, n)
      BY <3>3 DEF Slotless, Abs!Idle, Abs!Answerable, Sess
    <3>5. Abs!Prove(h)
      BY <1>1, <1>2, <2>2, <2>3, <3>2, <3>4 DEF Sess, Held, Proof, Abs!Prove
    <3> QED
      BY <1>6, <3>5 DEF Abs!Next
  <2>6. ASSUME NEW i \in Slots, EntriesOf(h) = {i} PROVE Abs!Next
    <3>1. EntriesOf(h)' = {i}
      BY <2>6, AuthResponseKeeps DEF EntriesOf
    <3>2. Sess[h] = OwnedBy(conns[i]) /\ Sess'[h] = OwnedBy(conns'[i])
      BY <1>6, <2>6, <3>1, SessionOfOwner, SessionOfOwnerNext DEF Sess
    <3>3. conns[i] \in Slot
      BY DEF TypeOK
    <3>4. Sess[h] # Abs!Idle
      BY <3>2 DEF OwnedBy, Abs!Idle
    <3>5. Abs!Answerable(h, n) <=> AuthOK(i, HMAC(k, n))
      BY <1>6, <3>2, <3>3
      DEF Abs!Answerable, Sess, OwnedBy, AuthOK, HMAC, Expired, TypeOK, Slot
    <3>6. \A j \in Slots : FindEntry(h, j) <=> j = i
      BY <2>6 DEF FindEntry, IsFirst, Slots
    <3>7. CASE AuthOK(i, HMAC(k, n))
      <4>1. conns' = [conns EXCEPT ![i].authed = TRUE]
        BY <3>6, <3>7 DEF AuthResponse, SecHandleAuthResponse
      <4>2. conns'[i] = [conns[i] EXCEPT !.authed = TRUE]
        BY <4>1 DEF TypeOK
      <4>3. OwnedBy(conns'[i]) = Abs!Proven(OwnedBy(conns[i]))
        BY <3>3, <4>2 DEF OwnedBy, Slot, Abs!Proven
      <4>4. Sess' = [Sess EXCEPT ![h] = Abs!Proven(@)]
        BY <1>3, <1>6, <3>2, <4>3 DEF Sess
      <4>5. Abs!Prove(h)
        BY <1>1, <1>2, <2>2, <2>3, <3>4, <3>5, <3>7, <4>4 DEF Sess, Held, Proof, Abs!Prove
      <4> QED
        BY <1>6, <4>5 DEF Abs!Next
    <3>8. CASE ~AuthOK(i, HMAC(k, n))
      <4>1. UNCHANGED conns
        BY <3>6, <3>8 DEF AuthResponse, SecHandleAuthResponse
      <4>2. Sess' = Sess
        BY <1>1, <4>1, SessStutter
      <4>3. Abs!Prove(h)
        BY <1>1, <1>2, <2>2, <2>3, <3>4, <3>5, <3>8, <4>2 DEF Sess, Held, Proof, Abs!Prove
      <4> QED
        BY <1>6, <4>3 DEF Abs!Next
    <3> QED
      BY <3>7, <3>8
  <2> QED
    BY <1>6, <2>4, <2>5, <2>6, OneSlotAtMost
<1> QED
  BY <1>4, <1>5, <1>6

----------------------------------------------------------------------------
(* A restart closes every session; what the clients hold they keep.        *)
LEMMA RestartForgets ==
  ASSUME Restart
  PROVE  Abs!Next
<1>1. ASSUME NEW h \in Proper PROVE SessionOf(h)' = Abs!Idle
  <2>1. EntriesOf(h)' = {} /\ h \notin live' /\ h \in Handles
    BY DEF Restart, EntriesOf, EmptySlot, Proper
  <2> QED
    BY <2>1, SessionOfSlotlessNext DEF Slotless, Abs!Idle
<1>2. Sess' = [h \in Proper |-> Abs!Idle]
  BY <1>1 DEF Sess
<1>3. UNCHANGED <<Held, Proof, draws>> /\ clock' = 0
  BY DEF Restart, Held, Proof
<1>4. Abs!Restart
  BY <1>2, <1>3 DEF Sess, Held, Proof, Abs!Restart
<1> QED
  BY <1>4 DEF Abs!Next

(* The empty table stands for idle sessions.                               *)
LEMMA InitSession == Init => Abs!Init
<1> SUFFICES ASSUME Init PROVE Abs!Init
  OBVIOUS
<1>1. ASSUME NEW h \in Proper PROVE SessionOf(h) = Abs!Idle
  <2>1. EntriesOf(h) = {} /\ h \notin live /\ h \in Handles
    BY DEF Init, EntriesOf, EmptySlot, Proper
  <2> QED
    BY <2>1, SessionOfSlotless DEF Slotless, Abs!Idle
<1>2. Sess = [h \in Proper |-> Abs!Idle]
  BY <1>1 DEF Sess
<1>3. Held = [h \in Proper |-> 0] /\ Proof = [h \in Proper |-> {}]
  BY DEF Held, Proof, Init, Proper
<1> QED
  BY <1>2, <1>3 DEF Init, Sess, Held, Proof, Abs!Init

(* Every step of the module is a step of the sessions or none at all.      *)
LEMMA NextSession ==
  TypeOK /\ SlotsMatchConnections /\ BlankSlots /\ [Next]_vars => [Abs!Next]_(Abs!vars)
<1> SUFFICES ASSUME TypeOK, SlotsMatchConnections, BlankSlots, [Next]_vars
             PROVE  Abs!Next \/ UNCHANGED Abs!vars
  OBVIOUS
<1>1. ASSUME NEW h \in Handles, Connect(h) PROVE Abs!Next \/ UNCHANGED Abs!vars
  BY <1>1, ConnectOpens
<1>2. ASSUME NEW h \in Handles, Disconnect(h) PROVE Abs!Next \/ UNCHANGED Abs!vars
  BY <1>2, DisconnectCloses
<1>3. ASSUME NEW h \in Handles, ReadNonce(h) PROVE Abs!Next \/ UNCHANGED Abs!vars
  BY <1>3, ReadReads
<1>4. ASSUME NEW h \in Handles, NEW n \in Answers(h), NEW k \in Keys, AuthResponse(h, n, k)
      PROVE  Abs!Next \/ UNCHANGED Abs!vars
  BY <1>4, AnswerProves
<1>5. CASE Tick
  <2>1. UNCHANGED <<conns, live, held, proved, draws>> /\ clock' = clock + 1
    BY <1>5 DEF Tick, secVars
  <2>2. UNCHANGED <<Sess, Held, Proof>>
    BY <2>1, SessStutter DEF Held, Proof
  <2> QED
    BY <2>1, <2>2 DEF Sess, Held, Proof, Abs!Tick, Abs!Next
<1>6. CASE UNCHANGED <<conns, live, held, proved, draws, clock>>
  <2>1. UNCHANGED <<Sess, Held, Proof>>
    BY <1>6, SessStutter DEF Held, Proof
  <2> QED
    BY <1>6, <2>1 DEF Sess, Held, Proof, Abs!vars
<1>7. ASSUME \/ \E h \in Handles : SecSendNonceNotify(h)
             \/ \E k \in Keys : SecSetPrivateKey(k)
             \/ \E n \in NonceLens : SecSetNonceLen(n)
             \/ UNCHANGED vars
      PROVE  UNCHANGED <<conns, live, held, proved, draws, clock>>
  BY <1>7 DEF SecSendNonceNotify, SecSetPrivateKey, SecSetNonceLen, vars
<1>8. CASE Restart
  BY <1>8, RestartForgets
<1> QED
  BY <1>1, <1>2, <1>3, <1>4, <1>5, <1>6, <1>7, <1>8 DEF Next, ConnStep

(* One table of MAX_SEC_CONNS slots with a linear search and one shared    *)
(* buffer gives every connection a session of its own, as if the others    *)
(* were not there (main/security.c).                                       *)
THEOREM Refinement == Spec => ImplementsSession
<1>1. Init => BlankSlots
  BY DEF Init, EmptySlot, BlankSlots
<1> QED
  BY <1>1, InitTypeOK, NextTypeOK, InitMatch, NextMatch, NextBlank, InitSession, NextSession,
     PTL
  DEF Spec, ImplementsSession, Abs!Spec
=============================================================================
