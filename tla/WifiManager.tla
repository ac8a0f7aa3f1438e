---------------------------- MODULE WifiManager ----------------------------
(***************************************************************************)
(* Wi-Fi provisioning: biz_apply_wifi_credentials (main/biz_logix.c), run  *)
(* by the BLE host task, posts credentials to the queue of two that the    *)
(* task of main/wifi_manager.c takes them from, one at a time, to store    *)
(* them in NVS and hand them to the Wi-Fi driver.                          *)
(*                                                                         *)
(* The two tasks run concurrently, the power may fail between any two      *)
(* steps and every call into ESP-IDF may fail.  A text (an SSID or a       *)
(* password) is its length and the number of the credentials it came in,   *)
(* so that texts of different credentials differ.                          *)
(***************************************************************************)
EXTENDS Integers, Sequences

CONSTANTS
  QueueLength,   \* xQueueCreate(2, ..)
  SsidMax,       \* WIFI_SSID_MAX_LEN
  PassMax,       \* WIFI_PASS_MAX_LEN
  SsidField,     \* sizeof wifi_config.sta.ssid
  PassField,     \* sizeof wifi_config.sta.password
  SsidLens,      \* lengths of the SSIDs that are posted
  PassLens,      \* lengths of the passwords that are posted
  MaxSerial,     \* bound: number of credentials posted
  MaxBoots,      \* bound: number of power failures and resets
  MaxFails       \* bound: number of calls that fail

ASSUME WifiAssumption ==
  /\ QueueLength \in Nat \ {0}
  /\ {SsidMax, PassMax, SsidField, PassField} \subseteq Nat \ {0}
  /\ SsidLens \subseteq Nat
  /\ PassLens \subseteq Nat
  /\ {MaxSerial, MaxBoots, MaxFails} \subseteq Nat

VARIABLES
  queue,    \* wifi_cred_queue
  sender,   \* the credentials the BLE task is blocked on, NoCred if none
  pc,       \* the step the manager task is at
  cred,     \* cred of wifi_manager_task
  err,      \* err of wifi_manager_task
  flash,    \* what is in NVS, one value for each key
  staged,   \* the keys set but not yet in NVS
  driver,   \* the driver's configuration and the one it last connected to
  serial,   \* number of credentials posted so far
  boots,    \* number of power failures
  fails     \* number of failed calls

env == <<serial, boots, fails>>
vars == <<queue, sender, pc, cred, err, flash, staged, driver, serial, boots, fails>>

NvsKeys == {"ssid", "pass"}

Text(n, len) == [id |-> n, len |-> len]
NoText == Text(0, 0)
NoCred == [k \in NvsKeys |-> NoText]

Present(c, k) == c[k] # NoText

(* A text copied with strncpy into a field of n bytes that is left         *)
(* NUL-terminated.                                                         *)
Copied(t, n) == IF t.len < n THEN t ELSE [t EXCEPT !.len = n - 1]

Valid(c) == c["ssid"].len \in 1..SsidMax /\ c["pass"].len <= PassMax

Steps == {"power", "init", "load", "wait", "ssid", "pass", "commit",
          "mode", "config", "start", "connect"}

----------------------------------------------------------------------------
Init ==
  /\ queue = <<>>
  /\ sender = NoCred
  /\ pc = "power"
  /\ cred = NoCred
  /\ err = "unset"
  /\ flash = NoCred
  /\ staged = {}
  /\ driver = [config |-> NoCred, target |-> NoCred]
  /\ serial = 0
  /\ boots = 0
  /\ fails = 0

(* A call of ESP-IDF that returns an error.                                *)
Fails ==
  /\ fails < MaxFails
  /\ fails' = fails + 1

----------------------------------------------------------------------------
(* The BLE host task: biz_apply_wifi_credentials.                          *)

(* Mutant: the credentials jump the queue (xQueueSendToFront).             *)
EnqueueFirst(c) == queue' = <<c>> \o queue

(* Mutant: xQueueSend does not look for room.                              *)
EnqueueBlindly(c) == queue' = Append(Append(queue, c), c)

Enqueue(c) == queue' = Append(queue, c)

Credentials(n, ls, lp) ==
  [k \in NvsKeys |-> IF k = "ssid" THEN Text(n, ls) ELSE Text(n, lp)]

BizApplyWifiCredentials(ls, lp) ==
  /\ pc # "power"
  /\ sender = NoCred
  /\ serial < MaxSerial
  /\ serial' = serial + 1
  /\ LET c == Credentials(serial + 1, ls, lp) IN
       \/ /\ Len(queue) < QueueLength
          /\ Enqueue(c)
          /\ UNCHANGED sender
       \/ /\ Len(queue) = QueueLength
          /\ sender' = c
          /\ UNCHANGED queue
  /\ UNCHANGED <<pc, cred, err, flash, staged, driver, boots, fails>>

(* Within the 50 ms of xQueueSend there is room again.                     *)
SendResumes ==
  /\ sender # NoCred
  /\ Len(queue) < QueueLength
  /\ Enqueue(sender)
  /\ sender' = NoCred
  /\ UNCHANGED <<pc, cred, err, flash, staged, driver, env>>

(* Mutant: the call waits for room forever (portMAX_DELAY).                *)
SendNeverTimesOut == sender # NoCred /\ UNCHANGED vars

(* Mutant: the oldest in the queue makes room (xQueueOverwrite).           *)
SendOverwrites ==
  /\ sender # NoCred
  /\ Len(queue) = QueueLength
  /\ queue' = Append(Tail(queue), sender)
  /\ sender' = NoCred
  /\ UNCHANGED <<pc, cred, err, flash, staged, driver, env>>

(* The 50 ms are over and xQueueSend finds the queue full once more: the   *)
(* credentials are dropped.                                                *)
SendTimesOut ==
  /\ sender # NoCred
  /\ Len(queue) = QueueLength
  /\ sender' = NoCred
  /\ UNCHANGED <<queue, pc, cred, err, flash, staged, driver, env>>

SenderStep == SendResumes \/ SendTimesOut

----------------------------------------------------------------------------
(* app_main and the manager task, up to its loop.                          *)

(* nvs_flash_init, which erases a partition it cannot use, and             *)
(* wifi_manager_init.                                                      *)
AppMain ==
  /\ pc = "power"
  /\ pc' = "init"
  /\ flash' \in {flash, NoCred}
  /\ UNCHANGED <<queue, sender, cred, err, staged, driver, env>>

(* The interface, driver and mesh start; a failure of theirs aborts, which *)
(* is PowerFailure.                                                        *)
InitDriver ==
  /\ pc = "init"
  /\ pc' = "load"
  /\ UNCHANGED <<queue, sender, cred, err, flash, staged, driver, env>>

LoadCredentialsNvs ==
  /\ pc = "load"
  /\ \/ /\ \A k \in NvsKeys : Present(flash, k)
        /\ cred' = flash
        /\ pc' = "mode"
        /\ UNCHANGED fails
     \/ /\ \E k \in NvsKeys : ~Present(flash, k)
        /\ cred' = IF Present(flash, "ssid")
                     THEN [cred EXCEPT !["ssid"] = flash["ssid"]] ELSE cred
        /\ pc' = "wait"
        /\ UNCHANGED fails
     \/ /\ Fails
        /\ pc' = "wait"
        /\ UNCHANGED cred
  /\ UNCHANGED <<queue, sender, err, flash, staged, driver, serial, boots>>

----------------------------------------------------------------------------
(* The loop of wifi_manager_task.                                          *)

Receive ==
  /\ pc = "wait"
  /\ queue # <<>>
  /\ cred' = Head(queue)
  /\ queue' = Tail(queue)
  /\ pc' = IF Valid(Head(queue)) THEN "ssid" ELSE "wait"
  /\ UNCHANGED <<sender, err, flash, staged, driver, env>>

(* nvs_set_str: NVS may write at once or wait for nvs_commit.              *)
NvsSet(k) ==
  \/ flash' = [flash EXCEPT ![k] = cred[k]] /\ UNCHANGED staged
  \/ staged' = staged \cup {k} /\ UNCHANGED flash

(* An early return of store_credentials_nvs.                               *)
StoreFails ==
  /\ Fails
  /\ err' = "fail"
  /\ pc' = "wait"
  /\ staged' = {}
  /\ UNCHANGED flash

StoreStep(from) ==
  /\ pc = from
  /\ UNCHANGED <<queue, sender, cred, driver, serial, boots>>

StoreSsid ==
  /\ StoreStep("ssid")
  /\ \/ NvsSet("ssid") /\ pc' = "pass" /\ UNCHANGED <<err, fails>>
     \/ StoreFails

(* Mutant: an empty password is not stored.                                *)
StorePassIfAny ==
  /\ StoreStep("pass")
  /\ \/ /\ IF cred["pass"].len > 0 THEN NvsSet("pass") ELSE UNCHANGED <<flash, staged>>
        /\ pc' = "commit"
        /\ UNCHANGED <<err, fails>>
     \/ StoreFails

StorePass ==
  /\ StoreStep("pass")
  /\ \/ NvsSet("pass") /\ pc' = "commit" /\ UNCHANGED <<err, fails>>
     \/ StoreFails

StoreCommit ==
  /\ StoreStep("commit")
  /\ \/ /\ flash' = [k \in NvsKeys |-> IF k \in staged THEN cred[k] ELSE flash[k]]
        /\ staged' = {}
        /\ err' = "ok"
        /\ pc' = "mode"
        /\ UNCHANGED fails
     \/ StoreFails

(* A call of wifi_start_with_creds that takes the driver from d to d2; on  *)
(* the way from load_credentials_nvs its result is ignored.                *)
DriverCall(from, to, d2) ==
  /\ pc = from
  /\ \/ driver' = d2 /\ pc' = to /\ UNCHANGED <<err, fails>>
     \/ /\ Fails
        /\ err' = IF err = "unset" THEN err ELSE "fail"
        /\ pc' = "wait"
        /\ UNCHANGED driver
  /\ UNCHANGED <<queue, sender, cred, flash, staged, serial, boots>>

SetMode   == DriverCall("mode", "config", driver)
SetConfig ==
  DriverCall("config", "start",
    [driver EXCEPT !.config =
       [k \in NvsKeys |-> Copied(cred[k], IF k = "ssid" THEN SsidField ELSE PassField)]])
StartWifi == DriverCall("start", "connect", driver)

(* Mutant: the driver is not told to connect again.                        *)
ConnectOnce ==
  DriverCall("connect", "wait",
    IF driver.target = NoCred THEN [driver EXCEPT !.target = driver.config] ELSE driver)

Connect   == DriverCall("connect", "wait", [driver EXCEPT !.target = driver.config])

StoreCredentialsNvs == StoreSsid \/ StorePass \/ StoreCommit
WifiStartWithCreds  == SetMode \/ SetConfig \/ StartWifi \/ Connect

ManagerStep ==
  \/ AppMain
  \/ InitDriver
  \/ LoadCredentialsNvs
  \/ Receive
  \/ StoreCredentialsNvs
  \/ WifiStartWithCreds

(* Power loss, abort or restart: NVS keeps what was written.               *)
PowerFailure ==
  /\ boots < MaxBoots
  /\ boots' = boots + 1
  /\ queue' = <<>>
  /\ sender' = NoCred
  /\ pc' = "power"
  /\ cred' = NoCred
  /\ err' = "unset"
  /\ staged' = {}
  /\ driver' = [config |-> NoCred, target |-> NoCred]
  /\ UNCHANGED <<flash, serial, fails>>

Next ==
  \/ \E ls \in SsidLens, lp \in PassLens : BizApplyWifiCredentials(ls, lp)
  \/ SenderStep
  \/ ManagerStep
  \/ PowerFailure

Spec == Init /\ [][Next]_vars

(* The wait of xQueueSend is bounded, so that the BLE task goes on.  The    *)
(* manager may stop at any point.                                          *)
FairSpec == Spec /\ WF_vars(SenderStep)

(* The manager is scheduled and its calls return.                          *)
ManagerRuns == WF_vars(ManagerStep)

----------------------------------------------------------------------------
TextOf(lens) == [id : 0..MaxSerial, len : lens \cup {0}]
StoredCred == {c \in [NvsKeys -> TextOf(SsidLens \cup PassLens)] :
                 c["ssid"] \in TextOf(SsidLens) /\ c["pass"] \in TextOf(PassLens)}

DriverCred == [NvsKeys -> [id : 0..MaxSerial, len : Nat]]

(* Every variable stays in its range and the queue within its two slots.   *)
TypeOK ==
  /\ queue \in Seq(StoredCred) /\ Len(queue) <= QueueLength
  /\ sender \in StoredCred
  /\ pc \in Steps
  /\ cred \in StoredCred
  /\ err \in {"unset", "ok", "fail"}
  /\ flash \in StoredCred
  /\ staged \subseteq NvsKeys
  /\ driver \in [config : DriverCred, target : DriverCred]
  /\ serial \in 0..MaxSerial /\ boots \in 0..MaxBoots /\ fails \in 0..MaxFails

(* Credentials move through the pipeline in the order they were posted:    *)
(* the driver is never ahead of NVS, so that a power failure never takes   *)
(* the device back to an older network than the one it was on, and NVS and *)
(* the manager never hold what is still in the queue or behind it.         *)
PipelineOrder ==
  \A k \in NvsKeys :
    /\ driver.target[k].id <= driver.config[k].id
    /\ driver.config[k].id <= flash[k].id
    /\ \A i \in 1..Len(queue) :
         /\ flash[k].id < queue[i][k].id
         /\ cred[k].id < queue[i][k].id
         /\ \A j \in 1..(i - 1) : queue[j][k].id < queue[i][k].id
         /\ sender # NoCred => queue[i][k].id < sender[k].id

(* When the manager waits after a turn that went well, the two keys of NVS *)
(* come from the same credentials, those the driver was last configured    *)
(* with and told to connect to, whatever failed or was cut short before.   *)
AtRestAgrees ==
  pc = "wait" /\ err = "ok" =>
    /\ flash["ssid"].id = flash["pass"].id
    /\ \A k \in NvsKeys : driver.config[k].id = flash[k].id
    /\ driver.target = driver.config

Undisturbed(b, f) == boots = b /\ fails = f

(* As long as the manager runs, valid credentials that reached the queue   *)
(* end up as the network the driver connects to, or newer ones do, unless  *)
(* the power fails or a call does; no message, valid or not, stops it.     *)
QueuedTakesEffect ==
  ManagerRuns => \A n \in 1..MaxSerial, b \in 0..MaxBoots, f \in 0..MaxFails :
    /\ Undisturbed(b, f)
    /\ \E i \in 1..Len(queue) : queue[i]["ssid"].id = n /\ Valid(queue[i])
    ~> driver.target["ssid"].id >= n \/ ~Undisturbed(b, f)

(* The BLE host task never stays blocked on a full queue, not even when    *)
(* the manager hangs in one of its calls.                                  *)
HostTaskReturns == sender # NoCred ~> sender = NoCred

----------------------------------------------------------------------------
(* The pipeline as Provisioning sees it.  SSID and password are not stored *)
(* in one step, so that it is the SSID that is said to be saved.           *)

(* The credentials in q and, behind them, those the sender s waits with.   *)
Line(q, s) ==
  [i \in 1 .. (IF s = NoCred THEN Len(q) ELSE Len(q) + 1) |->
     IF i <= Len(q) THEN q[i]["ssid"].id ELSE s["ssid"].id]

Prov == INSTANCE Provisioning WITH
  Room <- QueueLength, waiting <- Line(queue, sender), posted <- serial,
  hand <- cred["ssid"].id, saved <- flash["ssid"].id,
  network <- driver.target["ssid"].id

(* Credentials are lost only when the queue is full, and then the newest   *)
(* are; all others are taken in the order they were posted and once each;  *)
(* the driver joins only what NVS holds already, across failures of any    *)
(* call and of the power (biz_apply_wifi_credentials, wifi_manager_task).  *)
ImplementsProvisioning == Prov!Spec

(* wifi_manager.c:90 and main.c:708: the credentials found in NVS are      *)
(* "saved credentials", an SSID and the password that was saved with it.   *)
LoadsSavedPair ==
  pc = "mode" /\ err = "unset" => cred["ssid"].id = cred["pass"].id

(* wifi_cred.h:4 and the check at wifi_manager.c:468 allow an SSID of      *)
(* WIFI_SSID_MAX_LEN characters: one that was stored is the one the driver *)
(* looks for.                                                              *)
DriverHasWholeSsid ==
  pc = "connect" => driver.config["ssid"] = cred["ssid"]
============================================================================
