-------------------------------- MODULE Biz ---------------------------------
(***************************************************************************)
(* main/biz_logix.c as a whole: the registers (BizLogix) and the           *)
(* authentication table (BizAuth).  They share the connections: a client   *)
(* subscribes while it is connected, and a disconnection ends its          *)
(* subscriptions and gives its row of the table back.                      *)
(***************************************************************************)
EXTENDS BizLogix, BizAuth

vars == <<bizVars, authVars>>

Init == RegInit /\ AuthInit

Connect(h) ==
  /\ AuthConnect(h)
  /\ UNCHANGED bizVars

Disconnect(h) ==
  /\ AuthDisconnect(h)
  /\ Unsubscribe({h} \X Registers)

Setter ==
  /\ \E r \in Registers, v \in Args : BizSet(r, v)
  /\ UNCHANGED authVars

Query(h) ==
  /\ \/ \E keyOK \in BOOLEAN : VerifyAuthKey(h, keyOK)
     \/ IsAuthenticated(h)
  /\ UNCHANGED bizVars

ClientSubscribes(h) ==
  /\ h \in up \cap Clients
  /\ \E r \in Registers : Subscribe(h, r) \/ Unsubscribe({<<h, r>>})
  /\ UNCHANGED authVars

Transmit ==
  /\ \E s \in pending : NotifyTx(s)
  /\ UNCHANGED authVars

Next ==
  \/ \E h \in Handles : Connect(h) \/ Disconnect(h) \/ Query(h) \/ ClientSubscribes(h)
  \/ Setter
  \/ Transmit

Spec == Init /\ [][Next]_vars

----------------------------------------------------------------------------
(* Every register stays within its width, and only clients that are        *)
(* connected are sent anything: biz_logix.c addresses its notifications to *)
(* nobody in particular and keeps no list of its own to be cleared.        *)
TypeOK ==
  /\ RegTypeOK
  /\ subs \subseteq up \X Registers
  /\ authTable \in [Rows -> [handle : Handles \cup {0, HandleNone}, authed : BOOLEAN]]
  /\ proved \subseteq up /\ up \subseteq Handles
============================================================================
