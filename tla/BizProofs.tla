----------------------------- MODULE BizProofs ------------------------------
(***************************************************************************)
(* Proofs about Biz, for any number of connections, rows and subscribers,  *)
(* any widths and any arguments.  The registers and the authentication     *)
(* table are proved apart, from an invariant each.                         *)
(***************************************************************************)
EXTENDS Biz, TLAPS

(* Control and status hold the same, so that what was notified is the      *)
(* control value; the rest are the properties themselves.                  *)
RegInv ==
  /\ RegTypeOK
  /\ ctrl = stat
  /\ SubscribersKnow

AuthTypeOK ==
  /\ authTable \in [Rows -> [handle : Handles \cup {0, HandleNone}, authed : BOOLEAN]]
  /\ proved \subseteq up
  /\ up \subseteq Handles

AuthInv == AuthTypeOK /\ TableRemembersProofs

----------------------------------------------------------------------------
(* What the setters store fits the register: the argument is cut to its    *)
(* width (biz_set_light and biz_set_power cast to uint8_t).                *)
LEMMA StoredFits ==
  ASSUME NEW regs \in [Registers -> Nat], \A r \in Registers : regs[r] < Size(r),
         NEW q \in Registers, NEW v \in Args
  PROVE  LET s == Stored(regs, <<[set |-> q, to |-> v]>>) IN
         /\ s \in [Registers -> Nat]
         /\ \A r \in Registers : s[r] < Size(r)
<1> DEFINE calls == <<[set |-> q, to |-> v]>>
<1>1. DOMAIN calls = {1} /\ calls[1] = [set |-> q, to |-> v]
  OBVIOUS
<1>2. ASSUME NEW r \in Registers
      PROVE  /\ Stored(regs, calls)[r] \in Nat
             /\ Stored(regs, calls)[r] < Size(r)
  <2>1. Size(r) \in Nat /\ Size(r) > 0
    BY BizAssumption DEF Size
  <2>2. CASE Settings(calls, r) = {}
    BY <2>2 DEF Stored
  <2>3. CASE Settings(calls, r) # {}
    <3>1. Settings(calls, r) = {1} /\ v >= 0
      BY <1>1, <2>3 DEF Settings
    <3>2. Max({1}) = 1
      BY DEF Max
    <3>3. Stored(regs, calls)[r] = v % Size(r)
      BY <1>1, <2>3, <3>1, <3>2 DEF Stored
    <3>4. v \in Int
      BY BizAssumption
    <3>5. v % Size(r) \in 0 .. Size(r) - 1
      BY <2>1, <3>4
    <3> QED
      BY <2>1, <3>3, <3>5
  <2> QED
    BY <2>2, <2>3
<1>3. Stored(regs, calls) \in [Registers -> Nat]
  BY <1>2 DEF Stored
<1> QED
  BY <1>2, <1>3

(* A register that a setter does not notify is one it did not change.      *)
LEMMA StoredIsNotified ==
  ASSUME NEW calls, NEW s \in subs, s \notin Notified(calls),
         s[2] \in Registers
  PROVE  Stored(stat, calls)[s[2]] = stat[s[2]]
BY DEF Stored, Notified

----------------------------------------------------------------------------
(* A setter keeps control and status alike and notifies the subscribers of *)
(* what it changed (biz_set_rpm and its three sisters).                    *)
LEMMA SetterKeeps ==
  ASSUME RegInv, NEW q \in Registers, NEW v \in Args, BizSet(q, v)
  PROVE  RegInv'
<1> DEFINE calls == <<[set |-> q, to |-> v]>>
<1>1. /\ ctrl' = Stored(ctrl, calls)
      /\ stat' = Stored(stat, calls)
      /\ pending' = pending \cup Notified(calls)
      /\ subs' = subs /\ told' = told
  BY DEF BizSet, BizApply
<1>2. RegTypeOK'
  <2>1. /\ ctrl' \in [Registers -> Nat]
        /\ \A r \in Registers : ctrl'[r] < Size(r)
    BY <1>1, StoredFits DEF RegInv, RegTypeOK
  <2>2. ctrl' = stat'
    BY <1>1 DEF RegInv
  <2>3. Notified(calls) \subseteq subs
    BY DEF Notified
  <2> QED
    BY <1>1, <2>1, <2>2, <2>3 DEF RegInv, RegTypeOK
<1>3. ctrl' = stat'
  BY <1>1 DEF RegInv
<1>4. SubscribersKnow'
  <2> SUFFICES ASSUME NEW s \in subs', s \notin pending'
               PROVE  told'[s] = ctrl'[s[2]]
    BY DEF SubscribersKnow
  <2>1. s \in subs /\ s \notin pending /\ s \notin Notified(calls)
    BY <1>1
  <2>2. s[2] \in Registers
    BY <2>1 DEF RegInv, RegTypeOK
  <2>3. stat'[s[2]] = stat[s[2]]
    BY <1>1, <2>1, <2>2, StoredIsNotified
  <2>4. told[s] = stat[s[2]]
    BY <2>1 DEF RegInv, SubscribersKnow
  <2> QED
    BY <1>1, <1>3, <2>3, <2>4
<1> QED
  BY <1>2, <1>3, <1>4 DEF RegInv

(* Whoever subscribes knows the register from then on.                     *)
LEMMA SubscribeKeeps ==
  ASSUME RegInv, NEW c \in Clients, NEW r \in Registers, Subscribe(c, r)
  PROVE  RegInv'
<1>1. <<c, r>> \in Clients \X Registers
  OBVIOUS
<1>2. /\ ctrl' = ctrl /\ stat' = stat /\ pending' = pending
      /\ subs' = subs \cup {<<c, r>>}
      /\ told' = [told EXCEPT ![<<c, r>>] = stat[r]]
  BY DEF Subscribe
<1>3. stat[r] \in Nat /\ <<c, r>>[2] = r
  BY DEF RegInv, RegTypeOK
<1>4. RegTypeOK'
  BY <1>1, <1>2, <1>3 DEF RegInv, RegTypeOK
<1>5. SubscribersKnow'
  BY <1>1, <1>2, <1>3 DEF RegInv, RegTypeOK, SubscribersKnow
<1> QED
  BY <1>2, <1>4, <1>5 DEF RegInv

(* A notification carries the value of the moment it is sent.              *)
LEMMA TransmitKeeps ==
  ASSUME RegInv, NEW s \in pending, NotifyTx(s)
  PROVE  RegInv'
<1>1. s \in subs /\ s \in Clients \X Registers /\ s[2] \in Registers
  BY DEF RegInv, RegTypeOK
<1>2. /\ ctrl' = ctrl /\ stat' = stat /\ subs' = subs
      /\ pending' = pending \ {s}
      /\ told' = [told EXCEPT ![s] = stat[s[2]]]
  BY DEF NotifyTx
<1>3. stat[s[2]] \in Nat
  BY <1>1 DEF RegInv, RegTypeOK
<1>4. RegTypeOK'
  BY <1>1, <1>2, <1>3 DEF RegInv, RegTypeOK
<1>5. SubscribersKnow'
  BY <1>1, <1>2 DEF RegInv, RegTypeOK, SubscribersKnow
<1> QED
  BY <1>2, <1>4, <1>5 DEF RegInv

(* Subscriptions that end leave the others as they were.                   *)
LEMMA UnsubscribeKeeps ==
  ASSUME RegInv, NEW S, Unsubscribe(S)
  PROVE  RegInv'
<1>1. /\ ctrl' = ctrl /\ stat' = stat /\ subs' = subs \ S
      /\ pending' = pending \ S
      /\ told' = [s \in DOMAIN told |-> IF s \in S THEN 0 ELSE told[s]]
  BY DEF Unsubscribe
<1>2. RegTypeOK'
  BY <1>1 DEF RegInv, RegTypeOK
<1>3. SubscribersKnow'
  <2> SUFFICES ASSUME NEW s \in subs', s \notin pending'
               PROVE  told'[s] = ctrl'[s[2]]
    BY DEF SubscribersKnow
  <2>1. s \in subs /\ s \notin pending /\ s \notin S
    BY <1>1
  <2>2. s \in DOMAIN told
    BY <2>1 DEF RegInv, RegTypeOK
  <2> QED
    BY <1>1, <2>1, <2>2 DEF RegInv, SubscribersKnow
<1> QED
  BY <1>1, <1>2, <1>3 DEF RegInv

----------------------------------------------------------------------------
(* A new connection has no row and proved nothing.                         *)
LEMMA ConnectKeeps ==
  ASSUME AuthInv, NEW h \in Handles, AuthConnect(h)
  PROVE  AuthInv'
BY DEF AuthInv, AuthTypeOK, TableRemembersProofs, AuthConnect, RowsOf

(* The row that is used belongs to the connection, or to nobody: handle 0  *)
(* and BLE_HS_CONN_HANDLE_NONE mark a free row (get_auth_state).           *)
LEMMA RowForConnection ==
  ASSUME NEW h, NEW i, GetAuthState(h, i)
  PROVE  /\ i \in Rows
         /\ RowsOf(h) # {} => authTable[i].handle = h
         /\ RowsOf(h) = {} => authTable[i].handle \in {0, HandleNone}
BY DEF GetAuthState, FirstOf, RowsOf, FreeRows

(* biz_verify_auth_key and biz_is_authenticated write one row, for the     *)
(* connection they are called for, and authenticate nobody but it and only *)
(* on the right key.                                                       *)
LEMMA RowWritten ==
  ASSUME AuthInv, NEW h \in up, NEW i, GetAuthState(h, i), NEW yes \in BOOLEAN,
         authTable' = [authTable EXCEPT ![i] =
                         [handle |-> h, authed |-> yes \/ Taken(h, i).authed]],
         proved' = IF yes THEN proved \cup {h} ELSE proved,
         up' = up
  PROVE  AuthInv'
<1>1. i \in Rows /\ h \in Handles
  BY RowForConnection DEF AuthInv, AuthTypeOK
<1>2. Taken(h, i).authed \in BOOLEAN
  BY DEF Taken
<1>3. AuthTypeOK'
  BY <1>1, <1>2 DEF AuthInv, AuthTypeOK
<1>4. ASSUME NEW g \in Handles \ {0}
      PROVE  /\ g \in proved' <=> \E j \in RowsOf(g)' : authTable'[j].authed
             /\ g \notin up' => RowsOf(g)' = {}
  <2>1. /\ g \in proved <=> \E j \in RowsOf(g) : authTable[j].authed
        /\ g \notin up => RowsOf(g) = {}
    BY DEF AuthInv, TableRemembersProofs
  <2>2. CASE g # h
    <3>1. authTable[i].handle # g
      BY <2>2, RowForConnection, BizAuthAssumption
    <3>2. RowsOf(g)' = RowsOf(g)
      BY <1>1, <2>2, <3>1 DEF RowsOf, AuthInv, AuthTypeOK
    <3>3. \A j \in RowsOf(g) : authTable'[j] = authTable[j]
      BY <1>1, <3>1 DEF RowsOf, AuthInv, AuthTypeOK
    <3>4. g \in proved' <=> g \in proved
      BY <2>2
    <3> QED
      BY <2>1, <3>2, <3>3, <3>4
  <2>3. CASE g = h
    <3>1. /\ i \in RowsOf(h)'
          /\ RowsOf(h)' = RowsOf(h) \cup {i}
          /\ authTable'[i].authed = (yes \/ Taken(h, i).authed)
          /\ \A j \in RowsOf(h) \ {i} : authTable'[j] = authTable[j]
      BY <1>1, <1>2 DEF RowsOf, AuthInv, AuthTypeOK
    <3>2. Taken(h, i).authed <=> RowsOf(h) # {} /\ authTable[i].authed
      BY DEF Taken
    <3>3. RowsOf(h) # {} => i \in RowsOf(h)
      BY <1>1, RowForConnection DEF RowsOf
    <3> QED
      BY <2>1, <2>3, <3>1, <3>2, <3>3
  <2> QED
    BY <2>2, <2>3
<1> QED
  BY <1>3, <1>4 DEF AuthInv, TableRemembersProofs

(* A connection shows a key, right or wrong (biz_verify_auth_key).         *)
LEMMA VerifyKeeps ==
  ASSUME AuthInv, NEW h \in Handles, NEW keyOK \in BOOLEAN, VerifyAuthKey(h, keyOK)
  PROVE  AuthInv'
<1>1. h \in up /\ up' = up /\ BizVerifyAuthKey(h, keyOK)
  BY DEF VerifyAuthKey
<1>2. CASE \E i \in Rows :
             /\ GetAuthState(h, i)
             /\ authTable' = [authTable EXCEPT ![i] =
                                [handle |-> h, authed |-> keyOK \/ Taken(h, i).authed]]
             /\ proved' = IF keyOK THEN proved \cup {h} ELSE proved
  BY <1>1, <1>2, RowWritten
<1>3. CASE UNCHANGED <<authTable, proved>>
  BY <1>1, <1>3 DEF AuthInv, AuthTypeOK, TableRemembersProofs, RowsOf
<1> QED
  BY <1>1, <1>2, <1>3 DEF BizVerifyAuthKey

(* A question about a connection changes no answer.                        *)
LEMMA QueryKeeps ==
  ASSUME AuthInv, NEW h \in Handles, IsAuthenticated(h)
  PROVE  AuthInv'
<1>1. h \in up /\ up' = up /\ proved' = proved /\ BizIsAuthenticated(h)
  BY DEF IsAuthenticated
<1>2. ASSUME NEW i \in Rows, GetAuthState(h, i),
             authTable' = [authTable EXCEPT ![i] = Taken(h, i)]
      PROVE  AuthInv'
  <2>1. Taken(h, i) = [handle |-> h, authed |-> FALSE \/ Taken(h, i).authed]
    BY DEF Taken
  <2> QED
    BY <1>1, <1>2, <2>1, RowWritten
<1>3. CASE UNCHANGED authTable
  BY <1>1, <1>3 DEF AuthInv, AuthTypeOK, TableRemembersProofs, RowsOf
<1> QED
  BY <1>1, <1>2, <1>3 DEF BizIsAuthenticated

(* A disconnection gives the row back, with the authentication in it.      *)
LEMMA DisconnectKeeps ==
  ASSUME AuthInv, NEW h \in Handles, AuthDisconnect(h)
  PROVE  AuthInv'
<1>1. /\ up' = up \ {h} /\ proved' = proved \ {h}
      /\ authTable' = [i \in Rows |-> IF authTable[i].handle = h
                         THEN [handle |-> HandleNone, authed |-> FALSE] ELSE authTable[i]]
  BY DEF AuthDisconnect, BizClearAuth
<1>2. AuthTypeOK'
  BY <1>1 DEF AuthInv, AuthTypeOK
<1>3. ASSUME NEW g \in Handles \ {0}
      PROVE  /\ g \in proved' <=> \E j \in RowsOf(g)' : authTable'[j].authed
             /\ g \notin up' => RowsOf(g)' = {}
  <2>1. HandleNone # g
    BY BizAuthAssumption
  <2>2. CASE g = h
    BY <1>1, <2>1, <2>2 DEF RowsOf
  <2>3. CASE g # h
    <3>1. RowsOf(g)' = RowsOf(g) /\ \A j \in RowsOf(g) : authTable'[j] = authTable[j]
      BY <1>1, <2>1, <2>3 DEF RowsOf
    <3> QED
      BY <1>1, <2>3, <3>1 DEF AuthInv, TableRemembersProofs
  <2> QED
    BY <2>2, <2>3
<1> QED
  BY <1>2, <1>3 DEF AuthInv, TableRemembersProofs

----------------------------------------------------------------------------
BizInv == RegInv /\ AuthInv /\ subs \subseteq up \X Registers

(* At power-on nobody is connected and every register is 0 (biz_logix.c).  *)
LEMMA InitBizInv == Init => BizInv
<1> SUFFICES ASSUME Init PROVE BizInv
  OBVIOUS
<1>1. RegInv
  <2>1. \A r \in Registers : Size(r) > 0
    BY BizAssumption DEF Size
  <2> QED
    BY <2>1 DEF Init, RegInit, Zero, RegInv, RegTypeOK, SubscribersKnow
<1>2. AuthInv
  BY BizAuthAssumption
  DEF Init, AuthInit, NoRows, AuthInv, AuthTypeOK, TableRemembersProofs, RowsOf
<1>3. subs = {}
  BY DEF Init, RegInit
<1> QED
  BY <1>1, <1>2, <1>3 DEF BizInv

(* Nothing of biz_logix.c that a step leaves alone matters to it.          *)
LEMMA RegStutters == ASSUME RegInv, UNCHANGED bizVars PROVE RegInv'
BY DEF RegInv, RegTypeOK, SubscribersKnow, bizVars

(* The same of the table.                                                  *)
LEMMA AuthStutters == ASSUME AuthInv, UNCHANGED authVars PROVE AuthInv'
BY DEF AuthInv, AuthTypeOK, TableRemembersProofs, RowsOf, authVars

(* Every step of the composition preserves the invariant: one case for     *)
(* each entry point of biz_logix.c and of the host.                        *)
LEMMA NextBizInv == BizInv /\ [Next]_vars => BizInv'
<1> SUFFICES ASSUME BizInv, [Next]_vars PROVE BizInv'
  OBVIOUS
<1> USE DEF BizInv
<1>1. ASSUME NEW h \in Handles, Connect(h) PROVE BizInv'
  <2>1. AuthInv' /\ RegInv'
    BY <1>1, ConnectKeeps, RegStutters DEF Connect
  <2>2. subs' = subs /\ up \subseteq up'
    BY <1>1 DEF Connect, AuthConnect, bizVars
  <2> QED
    BY <2>1, <2>2
<1>2. ASSUME NEW h \in Handles, Disconnect(h) PROVE BizInv'
  <2>1. AuthInv' /\ RegInv'
    BY <1>2, DisconnectKeeps, UnsubscribeKeeps DEF Disconnect
  <2>2. subs' = subs \ ({h} \X Registers) /\ up' = up \ {h}
    BY <1>2 DEF Disconnect, AuthDisconnect, Unsubscribe
  <2> QED
    BY <2>1, <2>2
<1>3. ASSUME NEW h \in Handles, Query(h) PROVE BizInv'
  <2>1. AuthInv' /\ RegInv'
    BY <1>3, VerifyKeeps, QueryKeeps, RegStutters DEF Query
  <2>2. subs' = subs /\ up' = up
    BY <1>3 DEF Query, bizVars, VerifyAuthKey, IsAuthenticated
  <2> QED
    BY <2>1, <2>2
<1>4. ASSUME NEW h \in Handles, ClientSubscribes(h) PROVE BizInv'
  <2>1. h \in up /\ up' = up /\ AuthInv'
    BY <1>4, AuthStutters DEF ClientSubscribes, authVars
  <2>2. PICK r \in Registers : Subscribe(h, r) \/ Unsubscribe({<<h, r>>})
    BY <1>4 DEF ClientSubscribes
  <2>3. RegInv'
    BY <1>4, <2>2, SubscribeKeeps, UnsubscribeKeeps DEF ClientSubscribes
  <2>4. subs' \subseteq subs \cup {<<h, r>>}
    BY <2>2 DEF Subscribe, Unsubscribe
  <2>5. <<h, r>> \in up \X Registers
    BY <2>1
  <2> QED
    BY <2>1, <2>3, <2>4, <2>5
<1>5. ASSUME Setter PROVE BizInv'
  <2>1. AuthInv' /\ RegInv'
    BY <1>5, SetterKeeps, AuthStutters DEF Setter
  <2>2. subs' = subs /\ up' = up
    BY <1>5 DEF Setter, BizSet, BizApply, authVars
  <2> QED
    BY <2>1, <2>2
<1>6. ASSUME Transmit PROVE BizInv'
  <2>1. AuthInv' /\ RegInv'
    BY <1>6, TransmitKeeps, AuthStutters DEF Transmit
  <2>2. subs' = subs /\ up' = up
    BY <1>6 DEF Transmit, NotifyTx, authVars
  <2> QED
    BY <2>1, <2>2
<1>7. ASSUME UNCHANGED vars PROVE BizInv'
  BY <1>7, RegStutters, AuthStutters DEF vars, bizVars, authVars
<1> QED
  BY <1>1, <1>2, <1>3, <1>4, <1>5, <1>6, <1>7 DEF Next

(* The invariant holds throughout.                                         *)
LEMMA BizInvariant == Spec => []BizInv
BY InitBizInv, NextBizInv, PTL DEF Spec

(* Registers stay within their widths, rows and subscriptions belong to    *)
(* connections: biz_logix.c for any widths, rows and connections.          *)
THEOREM TypeCorrect == Spec => []TypeOK
<1>1. BizInv => TypeOK
  BY DEF BizInv, RegInv, AuthInv, AuthTypeOK, TypeOK
<1> QED
  BY <1>1, BizInvariant, PTL

(* Whoever subscribed and has no notification on its way knows the value   *)
(* of the control register (notify_status_rpm and its sisters).            *)
THEOREM SubscribersAlwaysKnow == Spec => []SubscribersKnow
<1>1. BizInv => SubscribersKnow
  BY DEF BizInv, RegInv
<1> QED
  BY <1>1, BizInvariant, PTL

(* For any number of rows the table says of each connection whether it     *)
(* showed the key (get_auth_state, biz_clear_auth).                        *)
THEOREM TableAlwaysRemembers == Spec => []TableRemembersProofs
<1>1. BizInv => TableRemembersProofs
  BY DEF BizInv, AuthInv
<1> QED
  BY <1>1, BizInvariant, PTL
=============================================================================
