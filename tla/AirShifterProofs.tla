-------------------------- MODULE AirShifterProofs --------------------------
(***************************************************************************)
(* Theorems about the BLE side of the device and the device as a whole,    *)
(* for any number of handles, slots, keys and connections.  Every step of  *)
(* GattServer is a step of Security or leaves it alone, so that what       *)
(* SecurityProofs shows of the session table holds here as well.  Every    *)
(* step of the device is one of the BLE side, one of the Wi-Fi pipeline,   *)
(* or both, so that neither task disturbs the other's guarantees and the   *)
(* device implements both abstract specifications, Session and             *)
(* Provisioning.                                                           *)
(***************************************************************************)
EXTENDS AirShifter, SessionProofs

(* The device starts with the session table as sec_init leaves it.         *)
LEMMA BleInitInit == BleInit => Init
  BY DEF BleInit

(* Every callback calls one function of main/security.c at most.           *)
LEMMA BleNextNext == [BleNext]_bleVars => [Next]_vars
<1> SUFFICES ASSUME [BleNext]_bleVars PROVE [Next]_vars
  OBVIOUS
<1>1. CASE OnSync \/ HostReset \/ GapAdvertisingEnds
  BY <1>1 DEF OnSync, HostReset, GapAdvertisingEnds
<1>2. ASSUME NEW h \in Handles, GapConnect(h) PROVE Next
  BY <1>2 DEF GapConnect, Next, ConnStep
<1>3. ASSUME NEW h \in Handles, GapDisconnect(h) PROVE Next
  BY <1>3 DEF GapDisconnect, Next, ConnStep
<1>4. ASSUME NEW h \in Handles, GattAccess(h) PROVE [Next]_vars
  <2>1. CASE ReadAuth(h)
    BY <2>1 DEF ReadAuth, Next, ConnStep
  <2>2. ASSUME NEW n \in Answers(h), NEW k \in Keys, WriteAuth(h, n, k) PROVE Next
    BY <2>2 DEF WriteAuth, Next, ConnStep
  <2>3. ASSUME NEW w \in Writes, WriteRegister(h, w[1], w[2]) PROVE UNCHANGED vars
    BY <2>3 DEF WriteRegister
  <2>4. ASSUME NEW packet \in Packets, WritePacket(h, packet) PROVE UNCHANGED vars
    BY <2>4 DEF WritePacket
  <2>5. CASE WriteBadLength(h) \/ WriteNotPermitted(h)
    BY <2>5 DEF WriteBadLength, WriteNotPermitted
  <2> QED
    BY <1>4, <2>1, <2>2, <2>3, <2>4, <2>5 DEF GattAccess
<1>5. CASE BleTick
  BY <1>5 DEF BleTick, Next
<1>6. CASE BleRestart
  BY <1>6 DEF BleRestart, Next
<1>7. CASE UNCHANGED bleVars
  BY <1>7 DEF bleVars
<1> QED
  BY <1>1, <1>2, <1>3, <1>4, <1>5, <1>6, <1>7 DEF BleNext

(* The session table follows the host through connections, disconnections  *)
(* and resets (main.c:563, 592, 647): nobody inherits or leaks a slot.     *)
THEOREM SessionsAlwaysFollowHost == BleSpec => []SessionsFollowHost
<1>1. SlotsMatchConnections => SessionsFollowHost
  BY DEF SessionsFollowHost
<1> QED
  BY <1>1, BleInitInit, BleNextNext, InitTypeOK, NextTypeOK, InitMatch, NextMatch, PTL
  DEF BleSpec

----------------------------------------------------------------------------
(* A callback that has ended an advertising procedure, or freed a          *)
(* connection, calls bleprph_advertise, which starts it again whenever     *)
(* there is room (main.c:377); nothing else ends it but a reset of the     *)
(* host, and on_sync starts it then.                                       *)
LEMMA AdvertisesInductive ==
  AdvertisesWhenItCan /\ [BleNext]_bleVars => AdvertisesWhenItCan'
<1> SUFFICES ASSUME AdvertisesWhenItCan, [BleNext]_bleVars PROVE AdvertisesWhenItCan'
  OBVIOUS
<1> USE DEF AdvertisesWhenItCan
<1>1. CASE OnSync
  BY <1>1 DEF OnSync
<1>2. CASE HostReset
  BY <1>2 DEF HostReset
<1>3. CASE GapAdvertisingEnds
  BY <1>3 DEF GapAdvertisingEnds, BleprphAdvertise, vars
<1>4. ASSUME NEW h \in Handles, GapConnect(h) PROVE AdvertisesWhenItCan'
  BY <1>4 DEF GapConnect, BleprphAdvertise
<1>5. ASSUME NEW h \in Handles, GapDisconnect(h) PROVE AdvertisesWhenItCan'
  BY <1>5 DEF GapDisconnect, BleprphAdvertise
<1>6. ASSUME NEW h \in Handles, GattAccess(h) PROVE UNCHANGED <<gapVars, live>>
  BY <1>6 DEF GattAccess, ReadAuth, ReadNonce, WriteAuth, AuthResponse, WriteRegister,
              WritePacket, WriteBadLength, WriteNotPermitted, vars
<1>7. CASE BleTick
  BY <1>7 DEF BleTick, Tick, gapVars
<1>8. CASE BleRestart
  BY <1>8 DEF BleRestart
<1>9. CASE UNCHANGED bleVars
  BY <1>9 DEF bleVars, gapVars, vars
<1> QED
  BY <1>1, <1>2, <1>3, <1>4, <1>5, <1>6, <1>7, <1>8, <1>9 DEF BleNext, gapVars

(* The device can be found whenever it has an address and room for another *)
(* connection (bleprph_gap_event, main.c:555).                             *)
THEOREM AdvertisesAlways == BleSpec => []AdvertisesWhenItCan
<1>1. BleInit => AdvertisesWhenItCan
  BY DEF BleInit, AdvertisesWhenItCan
<1> QED
  BY <1>1, AdvertisesInductive, PTL DEF BleSpec

----------------------------------------------------------------------------
(* Who is authenticated has answered the challenge of this connection with *)
(* the key, and that is not too old.                                       *)
LEMMA AuthenticatedIsEntitled ==
  ASSUME TypeOK, SlotsMatchConnections, FlagAnswered,
         NEW h \in Handles, h \in live, SecIsConnAuthenticated(h)
  PROVE  Entitled(h)
<1>1. PICK i \in Slots : FindEntry(h, i) /\ conns[i].authed /\ ~Expired(i)
  BY DEF SecIsConnAuthenticated
<1>2. conns[i].handle = h
  BY <1>1 DEF FindEntry, IsFirst, EntriesOf
<1>3. conns[i].nonce \in proved[h]
  BY <1>1, <1>2 DEF FlagAnswered
<1>4. CASE h = 0
  BY <1>3, <1>4 DEF Entitled
<1>5. CASE h # 0
  <2>1. h \in Proper
    BY <1>5 DEF Proper
  <2>2. conns[i].nonce = challenge[h].nonce /\ conns[i].created = challenge[h].at
    BY <1>1, <2>1, FoundSlot DEF SlotOfChallenge
  <2>3. challenge[h] # NoChallenge
    BY <1>2, <2>1 DEF SlotsMatchConnections, SlotMatches, HasSession, EntriesOf
  <2>4. clock - challenge[h].at <= NonceLifetime
    BY <1>1, <2>2, SecurityAssumption DEF Expired, TypeOK
  <2> QED
    BY <1>3, <1>5, <2>2, <2>3, <2>4 DEF Entitled, AnsweredInTime
<1> QED
  BY <1>4, <1>5

(* The accesses that are let through are those of an authenticated         *)
(* connection; all others leave the registers as they are.                 *)
LEMMA RefusedChangesNothing ==
  ASSUME NEW h \in Handles, GattAccess(h), ~SecIsConnAuthenticated(h)
  PROVE  UNCHANGED regVars
  BY DEF GattAccess, ReadAuth, WriteAuth, WriteRegister, WritePacket, Denied,
         WriteBadLength, WriteNotPermitted

(* Accesses are those of connections the host holds.                       *)
LEMMA AccessIsLive ==
  ASSUME NEW h \in Handles, GattAccess(h)
  PROVE  h \in live
  BY DEF GattAccess, ReadAuth, ReadNonce, WriteAuth, AuthResponse, WriteRegister,
         WritePacket, WriteBadLength, WriteNotPermitted

(* Registers and Wi-Fi credentials are changed only by the writes of       *)
(* connections whose client has answered their own challenge, in time and  *)
(* with the device's key, through the register characteristics and through *)
(* the packet characteristic (gatt_svr.c:252, 287), or go with a restart.  *)
(* Of a connection with handle 0 it says no more than that a client with   *)
(* this handle has answered with the key.                                  *)
THEOREM EntitledOnly == BleSpec => OnlyEntitledChange
<1> DEFINE Allowed == \/ UNCHANGED regVars
                      \/ BleRestart
                      \/ \E h \in Handles : Entitled(h) /\ GattAccess(h)
<1>1. /\ TypeOK /\ SlotsMatchConnections /\ FlagAnswered
      /\ [BleNext]_bleVars
      => [Allowed]_bleVars
  <2> SUFFICES ASSUME TypeOK, SlotsMatchConnections, FlagAnswered,
                      BleNext
               PROVE  Allowed
    OBVIOUS
  <2>1. CASE OnSync \/ HostReset \/ GapAdvertisingEnds
    BY <2>1 DEF OnSync, HostReset, GapAdvertisingEnds
  <2>2. ASSUME NEW h \in Handles, GapConnect(h) \/ GapDisconnect(h)
        PROVE  UNCHANGED regVars
    BY <2>2 DEF GapConnect, GapDisconnect
  <2>3. ASSUME NEW h \in Handles, GattAccess(h) PROVE Allowed
    <3>1. CASE SecIsConnAuthenticated(h)
      BY <2>3, <3>1, AccessIsLive, AuthenticatedIsEntitled
    <3>2. CASE ~SecIsConnAuthenticated(h)
      BY <2>3, <3>2, RefusedChangesNothing
    <3> QED
      BY <3>1, <3>2
  <2>4. CASE BleTick
    BY <2>4 DEF BleTick
  <2> QED
    BY <2>1, <2>2, <2>3, <2>4 DEF BleNext
<1> QED
  BY <1>1, BleInitInit, BleNextNext, InitTypeOK, NextTypeOK, InitMatch, NextMatch,
     InitFlag, NextFlag, PTL
  DEF BleSpec, OnlyEntitledChange

----------------------------------------------------------------------------
(* An access of the host task is one of the BLE side.                      *)
LEMMA HostStepIsBle == ASSUME HostStep PROVE BleNext
<1>1. CASE GapEvent
  BY <1>1 DEF GapEvent, BleNext
<1>2. CASE Reset
  BY <1>2 DEF Reset, BleNext
<1>3. ASSUME NEW h \in Handles, Access(h) PROVE BleNext
  BY <1>3 DEF Access, GattAccess, BleNext
<1>4. ASSUME NEW h \in Handles, NEW packet \in Packets, Packet(h, packet) PROVE BleNext
  BY <1>4 DEF Packet, GattAccess, BleNext
<1> QED
  BY <1>1, <1>2, <1>3, <1>4 DEF HostStep

(* The device does to sessions, registers and advertising what the BLE     *)
(* side does alone.                                                        *)
LEMMA AirNextBle == [AirNext]_airVars => [BleNext]_bleVars
<1> SUFFICES ASSUME [AirNext]_airVars PROVE [BleNext]_bleVars
  OBVIOUS
<1>1. CASE HostStep
  BY <1>1, HostStepIsBle
<1>2. CASE Blocked \/ Manager
  BY <1>2 DEF Blocked, Manager
<1>3. ASSUME NEW h \in Handles, Disconnected(h) PROVE BleNext
  BY <1>3 DEF Disconnected, BleNext
<1>4. ASSUME NEW h \in Handles, LinkLost(h) PROVE UNCHANGED bleVars
  BY <1>4 DEF LinkLost
<1>5. CASE Clock
  BY <1>5 DEF Clock, BleNext
<1>6. CASE PowerFailure
  BY <1>6 DEF PowerFailure, BleNext
<1>7. CASE UNCHANGED airVars
  BY <1>7 DEF airVars
<1> QED
  BY <1>1, <1>2, <1>3, <1>4, <1>5, <1>6, <1>7 DEF AirNext

(* The whole device keeps the promises of its BLE side: the Wi-Fi manager, *)
(* the queue between them, links that end while the host task is blocked   *)
(* and power failures add no step that breaks them.                        *)
THEOREM DeviceIsBle == AirSpec => BleSpec
<1>1. AirInit => BleInit
  BY DEF AirInit
<1> QED
  BY <1>1, AirNextBle, PTL DEF AirSpec, BleSpec

(* Sessions follow connections in the whole device.                        *)
THEOREM DeviceSessionsFollowHost == AirSpec => []SessionsFollowHost
  BY DeviceIsBle, SessionsAlwaysFollowHost, PTL

(* The whole device can be found whenever it has room for a connection.    *)
THEOREM DeviceAdvertises == AirSpec => []AdvertisesWhenItCan
  BY DeviceIsBle, AdvertisesAlways, PTL

(* In the whole device, too, only connections whose client has answered    *)
(* with the key, in the sense of EntitledOnly, change a register or pass   *)
(* credentials on, whatever the Wi-Fi manager does and whenever the power  *)
(* fails.                                                                  *)
THEOREM DeviceEntitledOnly == AirSpec => OnlyEntitledChange
  BY DeviceIsBle, EntitledOnly, PTL

(* In the whole device every connection has a session of its own, as if    *)
(* the others, the table of slots and the Wi-Fi task were not there.       *)
THEOREM DeviceImplementsSession == AirSpec => ImplementsSession
<1>1. BleSpec => Spec
  BY BleInitInit, BleNextNext, PTL DEF BleSpec, Spec
<1> QED
  BY <1>1, DeviceIsBle, Refinement, PTL

----------------------------------------------------------------------------
(* Credentials enter the pipeline through biz_apply_wifi_credentials only, *)
(* whatever the BLE side does.                                             *)
LEMMA AirNextWifi == [AirNext]_airVars => [Wifi!Next]_(Wifi!vars)
<1> SUFFICES ASSUME [AirNext]_airVars, ~UNCHANGED wifiVars PROVE Wifi!Next
  BY DEF wifiVars, Wifi!vars
<1>1. CASE GapEvent \/ Reset
  BY <1>1 DEF GapEvent, Reset
<1>2. ASSUME NEW h \in Handles, Access(h) \/ Disconnected(h) \/ LinkLost(h)
      PROVE  UNCHANGED wifiVars
  BY <1>2 DEF Access, Disconnected, LinkLost
<1>3. ASSUME NEW h \in Handles, NEW packet \in Packets, Packet(h, packet)
      PROVE  Wifi!Next
  BY <1>3 DEF Packet, Wifi!Next
<1>4. CASE Blocked
  BY <1>4 DEF Blocked, Wifi!Next
<1>5. CASE Manager
  BY <1>5 DEF Manager, Wifi!Next
<1>6. CASE Clock
  BY <1>6 DEF Clock
<1>7. CASE PowerFailure
  BY <1>7 DEF PowerFailure, Wifi!Next
<1>8. CASE UNCHANGED airVars
  BY <1>8 DEF airVars
<1> QED
  BY <1>1, <1>2, <1>3, <1>4, <1>5, <1>6, <1>7, <1>8 DEF AirNext, HostStep

(* The pipeline of the whole device is the one of WifiManager: what        *)
(* WifiProofs and ProvisioningProofs show of it holds in the device, with  *)
(* credentials that come from the packets of entitled connections.         *)
THEOREM DeviceIsPipeline == AirSpec => Wifi!Spec
<1>1. AirInit => Wifi!Init
  BY DEF AirInit
<1> QED
  BY <1>1, AirNextWifi, PTL DEF AirSpec, Wifi!Spec

(* A link that is gone belongs to a connection the host still holds, whose *)
(* session is still there: the event of its end finds something to clear.  *)
THEOREM LostLinksAreHeld == AirSpec => [](lost \subseteq live)
<1>1. AirInit => lost \subseteq live
  BY DEF AirInit
<1>2. lost \subseteq live /\ [AirNext]_airVars => (lost \subseteq live)'
  <2> SUFFICES ASSUME lost \subseteq live, [AirNext]_airVars
               PROVE  lost' \subseteq live'
    OBVIOUS
  <2>1. CASE GapEvent
    BY <2>1 DEF GapEvent, OnSync, GapAdvertisingEnds, GapConnect, Connect, vars
  <2>2. CASE Reset
    BY <2>2 DEF Reset, HostReset, vars
  <2>3. ASSUME NEW h \in Handles, Access(h) \/ LinkLost(h) PROVE lost' \subseteq live'
    BY <2>3 DEF Access, LinkLost, ReadAuth, ReadNonce, WriteAuth, AuthResponse,
                WriteRegister, WriteBadLength, WriteNotPermitted, vars, bleVars
  <2>4. ASSUME NEW h \in Handles, NEW packet \in Packets, Packet(h, packet)
        PROVE  UNCHANGED <<lost, live>>
    BY <2>4 DEF Packet, WritePacket, vars
  <2>5. ASSUME NEW h \in Handles, Disconnected(h) PROVE lost' \subseteq live'
    BY <2>5 DEF Disconnected, GapDisconnect, Disconnect
  <2>6. CASE Blocked \/ Manager \/ Clock \/ UNCHANGED airVars
    BY <2>6 DEF Blocked, Manager, Clock, BleTick, Tick, airVars, bleVars, vars
  <2>7. CASE PowerFailure
    BY <2>7 DEF PowerFailure, BleRestart, Restart
  <2> QED
    BY <2>1, <2>2, <2>3, <2>4, <2>5, <2>6, <2>7 DEF AirNext, HostStep
<1> QED
  BY <1>1, <1>2, PTL DEF AirSpec

----------------------------------------------------------------------------
(* What WifiProofs and ProvisioningProofs prove of WifiManager is brought  *)
(* in through an instance of its own, Pipe; its definitions are those of   *)
(* Wifi, action by action.                                                 *)
Pipe == INSTANCE ProvisioningProofs

(* The names both instances build their actions from.                      *)
USE DEF Wifi!vars, Pipe!vars, Wifi!env, Pipe!env, Wifi!NvsKeys, Pipe!NvsKeys,
        Wifi!Text, Pipe!Text, Wifi!NoText, Pipe!NoText, Wifi!NoCred, Pipe!NoCred,
        Wifi!Fails, Pipe!Fails, Wifi!Enqueue, Pipe!Enqueue

(* biz_apply_wifi_credentials and the xQueueSend it may be blocked in.     *)
LEMMA SameSender ==
  /\ \A ls, lp : Wifi!BizApplyWifiCredentials(ls, lp) => Pipe!BizApplyWifiCredentials(ls, lp)
  /\ Wifi!SenderStep => Pipe!SenderStep
<1>1. ASSUME NEW ls, NEW lp, Wifi!BizApplyWifiCredentials(ls, lp)
      PROVE  Pipe!BizApplyWifiCredentials(ls, lp)
  BY <1>1 DEF Wifi!BizApplyWifiCredentials, Pipe!BizApplyWifiCredentials,
              Wifi!Credentials, Pipe!Credentials
<1>2. Wifi!SenderStep => Pipe!SenderStep
  BY DEF Wifi!SenderStep, Pipe!SenderStep, Wifi!SendResumes, Pipe!SendResumes,
         Wifi!SendTimesOut, Pipe!SendTimesOut
<1> QED
  BY <1>1, <1>2

(* app_main, wifi_manager_init and the loop of wifi_manager_task.          *)
LEMMA SameManager == Wifi!ManagerStep => Pipe!ManagerStep
<1>1. Wifi!AppMain => Pipe!AppMain
  BY DEF Wifi!AppMain, Pipe!AppMain
<1>2. Wifi!InitDriver => Pipe!InitDriver
  BY DEF Wifi!InitDriver, Pipe!InitDriver
<1>3. Wifi!LoadCredentialsNvs => Pipe!LoadCredentialsNvs
  BY DEF Wifi!LoadCredentialsNvs, Pipe!LoadCredentialsNvs, Wifi!Present, Pipe!Present
<1>4. Wifi!Receive => Pipe!Receive
  BY DEF Wifi!Receive, Pipe!Receive, Wifi!Valid, Pipe!Valid
<1>5. Wifi!StoreCredentialsNvs => Pipe!StoreCredentialsNvs
  BY DEF Wifi!StoreCredentialsNvs, Pipe!StoreCredentialsNvs, Wifi!StoreSsid, Pipe!StoreSsid,
         Wifi!StorePass, Pipe!StorePass, Wifi!StoreCommit, Pipe!StoreCommit,
         Wifi!StoreStep, Pipe!StoreStep, Wifi!StoreFails, Pipe!StoreFails,
         Wifi!NvsSet, Pipe!NvsSet
<1>6. Wifi!WifiStartWithCreds => Pipe!WifiStartWithCreds
  BY DEF Wifi!WifiStartWithCreds, Pipe!WifiStartWithCreds, Wifi!SetMode, Pipe!SetMode,
         Wifi!SetConfig, Pipe!SetConfig, Wifi!StartWifi, Pipe!StartWifi,
         Wifi!Connect, Pipe!Connect, Wifi!DriverCall, Pipe!DriverCall,
         Wifi!Copied, Pipe!Copied
<1> QED
  BY <1>1, <1>2, <1>3, <1>4, <1>5, <1>6 DEF Wifi!ManagerStep, Pipe!ManagerStep

(* The pipeline in the device is the one the proofs are about.             *)
LEMMA SamePipeline == Wifi!Spec => Pipe!Spec
<1>1. Wifi!Init => Pipe!Init
  BY DEF Wifi!Init, Pipe!Init
<1>2. Wifi!PowerFailure => Pipe!PowerFailure
  BY DEF Wifi!PowerFailure, Pipe!PowerFailure
<1>3. [Wifi!Next]_(Wifi!vars) => [Pipe!Next]_(Pipe!vars)
  BY <1>2, SameSender, SameManager DEF Wifi!Next, Pipe!Next
<1> QED
  BY <1>1, <1>3, PTL DEF Wifi!Spec, Pipe!Spec

(* The device provisions itself as Provisioning promises, with credentials *)
(* that come from the packets of entitled connections and a BLE side that  *)
(* goes on in between: only the newest are dropped, the others are taken   *)
(* in order, and only what is saved is joined.                             *)
THEOREM DeviceImplementsProvisioning == AirSpec => Pipe!ImplementsProvisioning
<1>1. Pipe!WifiAssumption
  BY AirAssumption DEF Wifi!WifiAssumption, Pipe!WifiAssumption
<1>2. Pipe!Spec => Pipe!ImplementsProvisioning
  BY <1>1, Pipe!Refinement, PTL
<1> QED
  BY <1>2, DeviceIsPipeline, SamePipeline, PTL

(* Credentials travel through the device in the order they were posted,    *)
(* and at rest NVS, the driver and the manager agree on them               *)
(* (wifi_manager_task), whatever the BLE side does in between.             *)
THEOREM DevicePipelineHolds == AirSpec => [](Pipe!PipelineOrder /\ Pipe!AtRestAgrees)
<1>1. Pipe!WifiAssumption
  BY AirAssumption DEF Wifi!WifiAssumption, Pipe!WifiAssumption
<1>2. Pipe!Spec => []Pipe!PipelineOrder /\ []Pipe!AtRestAgrees
  BY <1>1, Pipe!PipelineOrdered, Pipe!AtRestAlwaysAgrees, PTL
<1> QED
  BY <1>2, DeviceIsPipeline, SamePipeline, PTL
============================================================================
