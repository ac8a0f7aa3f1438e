----------------------------- MODULE AirShifter -----------------------------
(***************************************************************************)
(* The device: the NimBLE host task (GattServer) and the Wi-Fi manager     *)
(* task (WifiManager) with the queue between them, the power that both     *)
(* lose, and radio links that end while the host task is busy.             *)
(*                                                                         *)
(* The host task runs one callback at a time.  A callback that posts       *)
(* credentials to a full queue blocks the task in xQueueSend, and with it  *)
(* every event of the BLE stack that waits to be handled.                  *)
(***************************************************************************)
EXTENDS GattServer

CONSTANTS   \* see WifiManager
  QueueLength, SsidMax, PassMax, SsidField, PassField, SsidLens, PassLens,
  MaxSerial, MaxBoots, MaxFails

VARIABLES
  queue, sender, pc, cred, err, flash, staged, driver, serial, boots, fails,
  lost    \* connections whose link is gone, the event not yet handled

wifiVars == <<queue, sender, pc, cred, err, flash, staged, driver, serial, boots, fails>>
airVars  == <<bleVars, wifiVars, lost>>

Wifi == INSTANCE WifiManager

ASSUME AirAssumption == Wifi!WifiAssumption

AirInit ==
  /\ BleInit
  /\ Wifi!Init
  /\ lost = {}

----------------------------------------------------------------------------
(* The NimBLE host task.                                                   *)

(* It is not blocked in xQueueSend, and app_main has started it, which it  *)
(* does after wifi_manager_init has made the queue.                        *)
HostReady == sender = Wifi!NoCred /\ pc # "power"

(* A packet with credentials is given to the queue before it is answered.  *)
Posts(h, packet) ==
  SecIsConnAuthenticated(h) /\ Pars!ParserHandlePacket(packet).cred.queued

Packet(h, packet) ==
  /\ WritePacket(h, packet)
  /\ IF Posts(h, packet)
       THEN \E ls \in SsidLens, lp \in PassLens : Wifi!BizApplyWifiCredentials(ls, lp)
       ELSE UNCHANGED wifiVars
  /\ UNCHANGED lost

Access(h) ==
  /\ \/ ReadAuth(h)
     \/ \E n \in Answers(h), k \in Keys : WriteAuth(h, n, k)
     \/ \E w \in Writes : WriteRegister(h, w[1], w[2])
     \/ WriteBadLength(h)
     \/ WriteNotPermitted(h)
  /\ UNCHANGED <<wifiVars, lost>>

GapEvent ==
  /\ OnSync \/ GapAdvertisingEnds \/ \E h \in Handles : GapConnect(h)
  /\ UNCHANGED <<wifiVars, lost>>

(* A reset of the host ends every connection.                              *)
Reset ==
  /\ HostReset
  /\ lost' = live
  /\ UNCHANGED wifiVars

(* The event of a link that is gone.                                       *)
Disconnected(h) ==
  /\ HostReady
  /\ h \in lost
  /\ GapDisconnect(h)
  /\ lost' = lost \ {h}
  /\ UNCHANGED wifiVars

HostStep ==
  /\ HostReady
  /\ \/ GapEvent
     \/ Reset
     \/ \E h \in Handles : Access(h) \/ \E packet \in Packets : Packet(h, packet)

----------------------------------------------------------------------------
(* The Wi-Fi manager task, the call the host task is blocked in, and the   *)
(* world.                                                                  *)

Blocked == Wifi!SenderStep /\ UNCHANGED <<bleVars, lost>>

Manager == Wifi!ManagerStep /\ UNCHANGED <<bleVars, lost>>

(* A link ends; its event waits for the host task.                         *)
LinkLost(h) ==
  /\ h \in live \ lost
  /\ lost' = lost \cup {h}
  /\ UNCHANGED <<bleVars, wifiVars>>

Clock == BleTick /\ UNCHANGED <<wifiVars, lost>>

PowerFailure ==
  /\ Wifi!PowerFailure
  /\ BleRestart
  /\ lost' = {}

AirNext ==
  \/ HostStep
  \/ Blocked
  \/ Manager
  \/ \E h \in Handles : Disconnected(h) \/ LinkLost(h)
  \/ Clock
  \/ PowerFailure

AirSpec == AirInit /\ [][AirNext]_airVars

(* xQueueSend returns after 50 ms at the latest, and a host task that is   *)
(* not blocked takes the events that wait.  Posts are bounded (MaxSerial), *)
(* so that the task is not blocked again and again for ever and weak       *)
(* fairness says as much.  The manager may stop at any point.              *)
FairAirSpec ==
  /\ AirSpec
  /\ WF_airVars(Blocked)
  /\ \A h \in Handles : WF_airVars(Disconnected(h))

----------------------------------------------------------------------------
(* Every link that ends is cleared up after, also when the host task is    *)
(* blocked on the queue at the time and the Wi-Fi manager hangs: no        *)
(* session outlives its connection for good (main.c:592, biz_logix.c:150). *)
LostLinkIsCleared ==
  \A h \in Handles : h \in lost ~> h \notin lost
============================================================================
