----------------------------- MODULE GattServer -----------------------------
(***************************************************************************)
(* The BLE side of the device: the GAP event handler and advertising of    *)
(* main/main.c and the GATT access handler of main/gatt_svr.c, composed    *)
(* with the session table (Security), the packet parser (Parser), the      *)
(* registers (BizLogix) and the older authentication table (BizAuth).      *)
(*                                                                         *)
(* Everything runs in the NimBLE host task, one callback at a time.  What  *)
(* NimBLE does around a callback is part of the action: advertising stops  *)
(* when a connection forms, a reset of the host ends advertising and then  *)
(* every connection, each with its own event, before it syncs again.       *)
(***************************************************************************)
EXTENDS Security, FiniteSets

CONSTANTS
  Spelling, LowerOf, IntOf,        \* see Parser
  IntSize, ByteSize,               \* see BizLogix
  MaxBleConnections, HandleNone,   \* see BizAuth
  MaxConnections,  \* connections the controller supports
  NonceReadLen,    \* the nonce length the auth characteristic is read with
  Writes,          \* <<register, unsigned value>> clients write
  Packets          \* packets clients write

VARIABLES
  ctrl, stat, authTable,   \* see BizLogix and BizAuth
  synced,       \* the host is in sync with the controller
  addrOK,       \* on_sync found an address to advertise with
  advertising,  \* an advertising procedure runs
  resp,         \* the ATT response to the last write, "ok" or an error
  posted        \* the credentials last given to biz_apply_wifi_credentials

regVars == <<ctrl, stat, posted>>
gapVars == <<synced, addrOK, advertising>>
bleVars == <<vars, regVars, gapVars, authTable, resp>>

Pars == INSTANCE Parser WITH JsmnTokenMax <- 128,
          SsidRoom <- 33, PassRoom <- 65, IntRoom <- 32
Biz  == INSTANCE BizLogix WITH Clients <- {}, Args <- {}, subs <- {},
          pending <- {}, told <- <<>>
Auth == INSTANCE BizAuth WITH up <- live, proved <- {}

----------------------------------------------------------------------------
(* ble_gap_adv_start fails without sync or without room; when advertising  *)
(* runs already (EBUSY) it goes on.                                        *)
BleprphAdvertise(running, connections) ==
  advertising' = (running \/ (synced /\ Cardinality(connections) < MaxConnections))

BleInit ==
  /\ Init
  /\ ctrl = Biz!Zero
  /\ stat = Biz!Zero
  /\ authTable = Auth!NoRows
  /\ synced = FALSE
  /\ addrOK = FALSE
  /\ advertising = FALSE
  /\ resp = "none"
  /\ posted = Pars!NoCred

(* bleprph_on_sync: without an address it returns before it advertises.    *)
OnSync ==
  /\ ~synced
  /\ live = {}
  /\ synced' = TRUE
  /\ addrOK' \in BOOLEAN
  /\ advertising' = addrOK'
  /\ UNCHANGED <<vars, regVars, authTable, resp>>

(* The host resets: the advertising procedure ends, and the handler's      *)
(* attempt to start it again fails.                                        *)
HostReset ==
  /\ synced
  /\ synced' = FALSE
  /\ advertising' = FALSE
  /\ UNCHANGED <<vars, regVars, addrOK, authTable, resp>>

(* BLE_GAP_EVENT_CONNECT, status 0.                                        *)
GapConnect(h) ==
  /\ synced /\ advertising
  /\ Connect(h)
  /\ BleprphAdvertise(FALSE, live')
  /\ UNCHANGED <<regVars, synced, addrOK, authTable, resp>>

(* BLE_GAP_EVENT_CONNECT with an error, or BLE_GAP_EVENT_ADV_COMPLETE.     *)
GapAdvertisingEnds ==
  /\ synced /\ advertising
  /\ BleprphAdvertise(FALSE, live)
  /\ UNCHANGED <<vars, regVars, synced, addrOK, authTable, resp>>

(* Mutant: a disconnection the host reports while it resets is not         *)
(* cleared up after.                                                       *)
GapDisconnectInSync(h) ==
  /\ IF synced THEN Disconnect(h) ELSE
       /\ h \in live
       /\ live' = live \ {h}
       /\ UNCHANGED <<conns, authValue, privKey, nonceLen, draws, clock, held, challenge, proved>>
  /\ Auth!BizClearAuth(h)
  /\ BleprphAdvertise(advertising, live')
  /\ UNCHANGED <<regVars, synced, addrOK, resp>>

(* Mutant: advertising is not resumed.                                     *)
GapDisconnectSilent(h) ==
  /\ Disconnect(h)
  /\ Auth!BizClearAuth(h)
  /\ UNCHANGED <<regVars, gapVars, resp>>

(* BLE_GAP_EVENT_DISCONNECT.                                               *)
GapDisconnect(h) ==
  /\ Disconnect(h)
  /\ Auth!BizClearAuth(h)
  /\ BleprphAdvertise(advertising, live')
  /\ UNCHANGED <<regVars, synced, addrOK, resp>>

----------------------------------------------------------------------------
(* gatt_svc_access.                                                        *)

(* A read of the auth characteristic: only nonces of 16 bytes are served.  *)
ReadAuth(h) ==
  /\ synced
  /\ ReadNonce(h)
  /\ \E i \in Slots : FindEntry(h, i) /\ conns[i].len = NonceReadLen
  /\ UNCHANGED <<regVars, gapVars, authTable, resp>>

WriteAuth(h, n, k) ==
  /\ synced
  /\ AuthResponse(h, n, k)
  /\ resp' = IF \E i \in Slots : FindEntry(h, i) /\ AuthOK(i, HMAC(k, n))
               THEN "ok" ELSE "error"
  /\ UNCHANGED <<regVars, gapVars, authTable>>

Denied ==
  /\ resp' = "error"
  /\ UNCHANGED regVars

WriteRegister(h, r, u) ==
  /\ synced /\ h \in live
  /\ IF SecIsConnAuthenticated(h)
       THEN /\ Biz!BizSet(r, IF r \in Biz!Wide THEN Biz!ToInt(u) ELSE u)
            /\ resp' = "ok"
            /\ UNCHANGED posted
       ELSE Denied
  /\ UNCHANGED <<vars, gapVars, authTable>>

(* Mutant: the packet characteristic asks for no authentication.           *)
WritePacketOpen(h, packet) ==
  /\ synced /\ h \in live
  /\ LET result == Pars!ParserHandlePacket(packet) IN
       /\ Biz!BizApply(result.calls)
       /\ posted' = IF result.cred.queued THEN result.cred ELSE posted
       /\ resp' = "ok"
  /\ UNCHANGED <<vars, gapVars, authTable>>

(* The response is the same whether the packet was handled or not.         *)
WritePacket(h, packet) ==
  /\ synced /\ h \in live
  /\ IF SecIsConnAuthenticated(h)
       THEN LET result == Pars!ParserHandlePacket(packet) IN
            /\ Biz!BizApply(result.calls)
            /\ posted' = IF result.cred.queued THEN result.cred ELSE posted
            /\ resp' = "ok"
       ELSE Denied
  /\ UNCHANGED <<vars, gapVars, authTable>>

(* A value of a length the characteristic does not take.                   *)
WriteBadLength(h) ==
  /\ synced /\ h \in live
  /\ resp' = "error"
  /\ UNCHANGED <<vars, regVars, gapVars, authTable>>

(* Any other characteristic.                                               *)
WriteNotPermitted(h) ==
  /\ synced /\ h \in live
  /\ resp' = "error"
  /\ UNCHANGED <<vars, regVars, gapVars, authTable>>

BleTick ==
  /\ Tick
  /\ UNCHANGED <<regVars, gapVars, authTable, resp>>

(* The device restarts: registers and tables are zero again and the host   *)
(* is to be synced; the clients keep the nonces they have read.            *)
BleRestart ==
  /\ Restart
  /\ ctrl' = Biz!Zero
  /\ stat' = Biz!Zero
  /\ authTable' = Auth!NoRows
  /\ synced' = FALSE
  /\ addrOK' = FALSE
  /\ advertising' = FALSE
  /\ resp' = "none"
  /\ posted' = Pars!NoCred

GattAccess(h) ==
  \/ ReadAuth(h)
  \/ \E n \in Answers(h), k \in Keys : WriteAuth(h, n, k)
  \/ \E w \in Writes : WriteRegister(h, w[1], w[2])
  \/ \E packet \in Packets : WritePacket(h, packet)
  \/ WriteBadLength(h)
  \/ WriteNotPermitted(h)

BleNext ==
  \/ OnSync
  \/ HostReset
  \/ GapAdvertisingEnds
  \/ \E h \in Handles : GapConnect(h) \/ GapDisconnect(h) \/ GattAccess(h)
  \/ BleTick
  \/ BleRestart

BleSpec == BleInit /\ [][BleNext]_bleVars

----------------------------------------------------------------------------
(* The device can be found whenever it could take another connection, as   *)
(* long as it has an address: each event that ends advertising or frees a  *)
(* connection starts it again.                                             *)
AdvertisesWhenItCan ==
  synced /\ addrOK /\ Cardinality(live) < MaxConnections => advertising

(* The session table follows the host through connections, disconnections  *)
(* and resets: nobody inherits or leaks a slot.                            *)
SessionsFollowHost == SlotsMatchConnections

(* The client of h has answered the challenge of this connection with the  *)
(* device's key, and the challenge is not older than NONCE_LIFETIME_MS.    *)
AnsweredInTime(h) ==
  /\ challenge[h] # NoChallenge
  /\ challenge[h].nonce \in proved[h]
  /\ clock - challenge[h].at <= NonceLifetime

(* A connection whose client may use the device.  Handle 0 has no slot of  *)
(* its own (PerConnectionState, in Security): the search gives it whatever *)
(* free slot is first, be it one an earlier connection with this handle    *)
(* was challenged in, so that all it takes is a right answer of a client   *)
(* with this handle.                                                       *)
Entitled(h) ==
  /\ h \in live
  /\ IF h = 0 THEN proved[0] # {} ELSE AnsweredInTime(h)

(* No step changes a register or passes Wi-Fi credentials on unless it is  *)
(* the write of a connection that is entitled to it, through whichever     *)
(* characteristic it comes, or the device restarts.                        *)
OnlyEntitledChange ==
  [][\/ UNCHANGED regVars
     \/ BleRestart
     \/ \E h \in Handles : Entitled(h) /\ GattAccess(h)]_bleVars

(* biz_logix.h:23 says of the setters "These update control vars": a write *)
(* that is answered with success has set its register.                     *)
AckedWriteApplied ==
  [][\A h \in Handles, w \in Writes :
       WriteRegister(h, w[1], w[2]) /\ resp' = "ok" => ctrl'[w[1]] = w[2]]_bleVars
============================================================================
