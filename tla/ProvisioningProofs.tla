------------------------- MODULE ProvisioningProofs -------------------------
(***************************************************************************)
(* The two tasks of WifiManager, with their queue, NVS and driver,         *)
(* implement Provisioning: each of their steps is one of its steps or      *)
(* none.                                                                   *)
(***************************************************************************)
EXTENDS WifiProofs

(* The line as a sequence of numbers.                                      *)
LEMMA LineFields ==
  ASSUME NEW q \in Seq(StoredCred), NEW s \in StoredCred
  PROVE  /\ Line(q, s) \in Seq(Nat) /\ Len(q) \in Nat
         /\ Len(Line(q, s)) = IF s = NoCred THEN Len(q) ELSE Len(q) + 1
         /\ \A i \in 1 .. Len(q) : Line(q, s)[i] = q[i]["ssid"].id
         /\ s # NoCred => Line(q, s)[Len(q) + 1] = s["ssid"].id
<1>1. Len(q) \in Nat /\ "ssid" \in NvsKeys
  BY LenProperties DEF NvsKeys
<1>2. PICK n \in Nat : n = IF s = NoCred THEN Len(q) ELSE Len(q) + 1
  BY <1>1
<1>3. s["ssid"].id \in Nat /\ \A i \in 1 .. Len(q) : q[i]["ssid"].id \in Nat
  BY <1>1, CredFields, ElementOfSeq
<1>4. Line(q, s) = [i \in 1 .. n |-> IF i <= Len(q) THEN q[i]["ssid"].id ELSE s["ssid"].id]
  BY <1>2 DEF Line
<1>5. \A i \in 1 .. n : (IF i <= Len(q) THEN q[i]["ssid"].id ELSE s["ssid"].id) \in Nat
  BY <1>1, <1>2, <1>3
<1>6. Line(q, s) \in [1 .. n -> Nat]
  BY <1>4, <1>5
<1>7. Line(q, s) \in Seq(Nat) /\ Len(Line(q, s)) = n
  BY <1>6
<1> QED
  BY <1>1, <1>2, <1>4, <1>7

(* Nothing waits: the line is empty.                                       *)
LEMMA LineEmpty ==
  ASSUME NEW q, NEW s, q = <<>>, s = NoCred
  PROVE  Line(q, s) = <<>>
<1>1. Line(q, s) \in Seq(Nat) /\ Len(Line(q, s)) = 0
  BY LineFields, NoCredFields, EmptySeq
<1> QED
  BY <1>1, EmptySeq

----------------------------------------------------------------------------
(* At power-on there is nothing in the line and nothing saved.             *)
LEMMA InitProvisioning == Init => Prov!Init
<1> SUFFICES ASSUME Init PROVE Prov!Init
  OBVIOUS
<1>1. Line(queue, sender) = <<>>
  BY LineEmpty DEF Init
<1>2. /\ cred["ssid"].id = 0 /\ flash["ssid"].id = 0 /\ driver.target["ssid"].id = 0
      /\ serial = 0
  BY NoCredFields DEF Init, NvsKeys
<1> QED
  BY <1>1, <1>2 DEF Prov!Init

(* Whether there is room or not, credentials that are posted join the line *)
(* (biz_apply_wifi_credentials).                                           *)
LEMMA PostPosts ==
  ASSUME WifiInv, WifiInv', NEW ls \in SsidLens, NEW lp \in PassLens,
         BizApplyWifiCredentials(ls, lp)
  PROVE  Prov!Post
<1> USE DEF WifiInv
<1>1. PICK c : c = Credentials(serial + 1, ls, lp)
  OBVIOUS
<1>2. /\ sender = NoCred /\ serial < MaxSerial /\ serial' = serial + 1
      /\ cred' = cred /\ flash' = flash /\ driver' = driver
      /\ \/ Len(queue) < QueueLength /\ Enqueue(c) /\ sender' = NoCred
         \/ Len(queue) = QueueLength /\ sender' = c /\ queue' = queue
  BY <1>1 DEF BizApplyWifiCredentials
<1>3. c \in StoredCred /\ c["ssid"].id = serial + 1 /\ c # NoCred /\ serial \in Nat
  <2>1. c \in StoredCred /\ serial \in Nat /\ \A k \in NvsKeys : c[k].id = serial + 1
    BY <1>1, <1>2, PostedCred, Types
  <2> QED
    BY <2>1, NoCredFields DEF NvsKeys
<1>4. /\ queue \in Seq(StoredCred) /\ queue' \in Seq(StoredCred) /\ sender' \in StoredCred
      /\ sender \in StoredCred /\ Len(queue) \in Nat /\ Len(queue) <= QueueLength
  BY Types DEF TypeOK
<1>5. PICK w : w = Line(queue, sender)
  OBVIOUS
<1>6. PICK w2 : w2 = Line(queue', sender')
  OBVIOUS
<1>7. /\ w \in Seq(Nat) /\ Len(w) = Len(queue)
      /\ \A i \in 1 .. Len(queue) : w[i] = queue[i]["ssid"].id
  BY <1>2, <1>4, <1>5, LineFields
<1>8. /\ w2 \in Seq(Nat) /\ Len(w2) = Len(queue) + 1 /\ w2[Len(queue) + 1] = serial + 1
      /\ \A i \in 1 .. Len(queue) : w2[i] = w[i]
  <2>1. CASE Enqueue(c) /\ sender' = NoCred
    <3>1. /\ Len(queue') = Len(queue) + 1 /\ queue'[Len(queue) + 1] = c
          /\ \A i \in 1 .. Len(queue) : queue'[i] = queue[i]
      BY <1>3, <1>4, <2>1, Queued
    <3>2. /\ w2 \in Seq(Nat) /\ Len(w2) = Len(queue')
          /\ \A i \in 1 .. Len(queue') : w2[i] = queue'[i]["ssid"].id
      BY <1>4, <1>6, <2>1, LineFields
    <3>3. ASSUME NEW i \in 1 .. Len(queue) PROVE w2[i] = w[i]
      <4>1. i \in 1 .. Len(queue')
        BY <1>4, <3>1
      <4> QED
        BY <1>7, <3>1, <3>2, <4>1
    <3>4. w2[Len(queue) + 1] = serial + 1
      <4>1. Len(queue) + 1 \in 1 .. Len(queue')
        BY <1>4, <3>1
      <4> QED
        BY <1>3, <3>1, <3>2, <4>1
    <3> QED
      BY <3>1, <3>2, <3>3, <3>4
  <2>2. CASE sender' = c /\ queue' = queue
    BY <1>3, <1>4, <1>6, <1>7, <2>2, LineFields
  <2> QED
    BY <1>2, <2>1, <2>2
<1>9. w2 = Append(w, serial')
  <2>1. /\ Append(w, serial + 1) \in Seq(Nat) /\ Len(Append(w, serial + 1)) = Len(queue) + 1
        /\ Append(w, serial + 1)[Len(queue) + 1] = serial + 1
        /\ \A i \in 1 .. Len(queue) : Append(w, serial + 1)[i] = w[i]
    BY <1>3, <1>4, <1>7, AppendProperties
  <2>2. \A i \in 1 .. Len(w2) : w2[i] = Append(w, serial + 1)[i]
    BY <1>4, <1>8, <2>1
  <2>3. w2 = Append(w, serial + 1)
    BY <1>8, <2>1, <2>2, SeqEqual
  <2> QED
    BY <1>2, <2>3
<1> QED
  BY <1>2, <1>4, <1>5, <1>6, <1>7, <1>9 DEF Prov!Post

(* A blocked xQueueSend that goes through changes no order.                *)
LEMMA ResumeStutters == ASSUME WifiInv, WifiInv', SendResumes PROVE UNCHANGED Prov!vars
<1> USE DEF WifiInv
<1>1. /\ sender # NoCred /\ Enqueue(sender) /\ sender' = NoCred
      /\ serial' = serial /\ cred' = cred /\ flash' = flash /\ driver' = driver
  BY DEF SendResumes, env
<1>2. /\ queue \in Seq(StoredCred) /\ queue' \in Seq(StoredCred) /\ sender \in StoredCred
      /\ sender' \in StoredCred
  BY DEF TypeOK
<1>3. /\ Len(queue) \in Nat /\ Len(queue') = Len(queue) + 1
      /\ queue'[Len(queue) + 1] = sender
      /\ \A i \in 1 .. Len(queue) : queue'[i] = queue[i]
  BY <1>1, <1>2, Queued
<1>4. PICK w : w = Line(queue, sender)
  OBVIOUS
<1>5. PICK w2 : w2 = Line(queue', sender')
  OBVIOUS
<1>6. /\ w \in Seq(Nat) /\ Len(w) = Len(queue) + 1 /\ w[Len(queue) + 1] = sender["ssid"].id
      /\ \A i \in 1 .. Len(queue) : w[i] = queue[i]["ssid"].id
  BY <1>1, <1>2, <1>4, LineFields
<1>7. /\ w2 \in Seq(Nat) /\ Len(w2) = Len(queue')
      /\ \A i \in 1 .. Len(queue') : w2[i] = queue'[i]["ssid"].id
  BY <1>1, <1>2, <1>5, LineFields
<1>8. ASSUME NEW i \in 1 .. Len(w) PROVE w[i] = w2[i]
  <2>1. i \in 1 .. Len(queue')
    BY <1>3, <1>6
  <2>2. w2[i] = queue'[i]["ssid"].id
    BY <1>7, <2>1
  <2>3. CASE i \in 1 .. Len(queue)
    BY <1>3, <1>6, <2>2, <2>3
  <2>4. CASE i = Len(queue) + 1
    BY <1>3, <1>6, <2>2, <2>4
  <2> QED
    BY <1>3, <1>6, <2>3, <2>4
<1>9. w = w2
  BY <1>3, <1>6, <1>7, <1>8, SeqEqual
<1> QED
  BY <1>1, <1>4, <1>5, <1>9 DEF Prov!vars

(* An xQueueSend that gives up turns the newest away, for want of room.    *)
LEMMA TimeOutTurnsAway == ASSUME WifiInv, WifiInv', SendTimesOut PROVE Prov!TurnAway
<1> USE DEF WifiInv
<1>1. /\ sender # NoCred /\ sender' = NoCred /\ queue' = queue /\ Len(queue) = QueueLength
      /\ serial' = serial /\ cred' = cred /\ flash' = flash /\ driver' = driver
  BY DEF SendTimesOut, env
<1>2. queue \in Seq(StoredCred) /\ sender \in StoredCred /\ sender' \in StoredCred
      /\ QueueLength \in Nat
  BY WifiAssumption DEF TypeOK
<1>3. PICK w : w = Line(queue, sender)
  OBVIOUS
<1>4. PICK w2 : w2 = Line(queue', sender')
  OBVIOUS
<1>5. /\ w \in Seq(Nat) /\ Len(w) = QueueLength + 1
      /\ \A i \in 1 .. QueueLength : w[i] = queue[i]["ssid"].id
  BY <1>1, <1>2, <1>3, LineFields
<1>6. /\ w2 \in Seq(Nat) /\ Len(w2) = QueueLength
      /\ \A i \in 1 .. QueueLength : w2[i] = queue[i]["ssid"].id
  BY <1>1, <1>2, <1>4, LineFields
<1>7. /\ SubSeq(w, 1, QueueLength) \in Seq(Nat)
      /\ Len(SubSeq(w, 1, QueueLength)) = QueueLength
      /\ \A i \in 1 .. QueueLength : SubSeq(w, 1, QueueLength)[i] = w[i]
  BY <1>2, <1>5
<1>8. \A i \in 1 .. Len(w2) : w2[i] = SubSeq(w, 1, QueueLength)[i]
  BY <1>5, <1>6, <1>7
<1>9. w2 = SubSeq(w, 1, QueueLength)
  BY <1>6, <1>7, <1>8, SeqEqual
<1> QED
  BY <1>1, <1>3, <1>4, <1>5, <1>9 DEF Prov!TurnAway

(* xQueueReceive takes the first of the line.                              *)
LEMMA ReceiveTakes == ASSUME WifiInv, WifiInv', Receive PROVE Prov!Take
<1> USE DEF WifiInv
<1>1. /\ queue # <<>> /\ cred' = Head(queue) /\ queue' = Tail(queue) /\ sender' = sender
      /\ serial' = serial /\ flash' = flash /\ driver' = driver
  BY DEF Receive, env
<1>2. queue \in Seq(StoredCred) /\ queue' \in Seq(StoredCred) /\ sender \in StoredCred
  BY DEF TypeOK
<1>3. /\ Len(queue) \in Nat /\ Len(queue) >= 1 /\ Len(queue') = Len(queue) - 1
      /\ cred' = queue[1] /\ \A i \in 1 .. Len(queue') : queue'[i] = queue[i + 1]
  BY <1>1, <1>2, Received
<1>4. PICK w : w = Line(queue, sender)
  OBVIOUS
<1>5. PICK w2 : w2 = Line(queue', sender')
  OBVIOUS
<1>6. /\ w \in Seq(Nat) /\ Len(w) = IF sender = NoCred THEN Len(queue) ELSE Len(queue) + 1
      /\ \A i \in 1 .. Len(queue) : w[i] = queue[i]["ssid"].id
      /\ sender # NoCred => w[Len(queue) + 1] = sender["ssid"].id
  BY <1>2, <1>4, LineFields
<1>7. /\ w2 \in Seq(Nat) /\ Len(w2) = IF sender = NoCred THEN Len(queue') ELSE Len(queue') + 1
      /\ \A i \in 1 .. Len(queue') : w2[i] = queue'[i]["ssid"].id
      /\ sender # NoCred => w2[Len(queue') + 1] = sender["ssid"].id
  BY <1>1, <1>2, <1>5, LineFields
<1>8. w # <<>> /\ Head(w) = cred'["ssid"].id
  <2>1. Len(w) \in Nat /\ Len(w) >= 1 /\ w[1] = queue[1]["ssid"].id
    BY <1>3, <1>6
  <2>2. w # <<>>
    BY <2>1, EmptySeq
  <2> QED
    BY <1>3, <1>6, <2>1, <2>2
<1>9. Tail(w) = w2
  <2>1. /\ Tail(w) \in Seq(Nat) /\ Len(Tail(w)) = Len(w) - 1
        /\ \A i \in 1 .. Len(Tail(w)) : Tail(w)[i] = w[i + 1]
    BY <1>6, <1>8, HeadTailProperties
  <2>2. Len(Tail(w)) = Len(w2)
    BY <1>3, <1>6, <1>7, <2>1
  <2>3. ASSUME NEW i \in 1 .. Len(w2) PROVE w2[i] = w[i + 1]
    <3>1. CASE i \in 1 .. Len(queue')
      <4>1. i + 1 \in 1 .. Len(queue)
        BY <1>3, <3>1
      <4> QED
        BY <1>3, <1>6, <1>7, <3>1, <4>1
    <3>2. CASE i = Len(queue') + 1 /\ sender # NoCred
      BY <1>3, <1>6, <1>7, <3>2
    <3> QED
      BY <1>3, <1>7, <3>1, <3>2
  <2> QED
    BY <1>7, <2>1, <2>2, <2>3, SeqEqual
<1> QED
  BY <1>1, <1>4, <1>5, <1>8, <1>9 DEF Prov!Take
----------------------------------------------------------------------------
(* What is seen of a step that leaves the line and the SSIDs alone: nothing.*)
LEMMA Unseen ==
  ASSUME UNCHANGED <<queue, sender, serial>>,
         cred'["ssid"].id = cred["ssid"].id, flash'["ssid"].id = flash["ssid"].id,
         driver'.target["ssid"].id = driver.target["ssid"].id
  PROVE  UNCHANGED Prov!vars
BY DEF Prov!vars

(* Before NVS is read nothing is in hand and nothing joined.               *)
LEMMA Blank ==
  ASSUME WifiInv, pc \in {"power", "init", "load"}
  PROVE  /\ cred = NoCred /\ cred["ssid"].id = 0 /\ driver.target["ssid"].id = 0
         /\ pc = "power" => Line(queue, sender) = <<>>
<1>1. cred = NoCred /\ driver.target = NoCred
  BY DEF WifiInv, BootInv
<1>2. pc = "power" => queue = <<>> /\ sender = NoCred
  BY DEF WifiInv, BootInv
<1> QED
  BY <1>1, <1>2, NoCredFields, LineEmpty DEF NvsKeys

(* nvs_flash_init may erase what was saved.                                *)
LEMMA BootErases ==
  ASSUME WifiInv, AppMain PROVE Prov!Erase \/ UNCHANGED Prov!vars
<1>1. /\ pc = "power" /\ flash' \in {flash, NoCred}
      /\ queue' = queue /\ sender' = sender /\ cred' = cred /\ driver' = driver
      /\ serial' = serial
  BY DEF AppMain, env
<1>2. CASE flash' = flash
  BY <1>1, <1>2, Unseen
<1>3. CASE flash' = NoCred
  <2>1. flash'["ssid"].id = 0
    BY <1>3, NoCredFields DEF NvsKeys
  <2> QED
    BY <1>1, <2>1, Blank DEF Prov!Erase
<1> QED
  BY <1>1, <1>2, <1>3

(* load_credentials_nvs brings back the SSID that was saved, or none.      *)
LEMMA LoadRecalls ==
  ASSUME WifiInv, LoadCredentialsNvs PROVE Prov!Recall \/ UNCHANGED Prov!vars
<1>1. /\ pc = "load" /\ queue' = queue /\ sender' = sender /\ flash' = flash
      /\ driver' = driver /\ serial' = serial
  BY DEF LoadCredentialsNvs
<1>2. \/ cred' = flash \/ cred' = [cred EXCEPT !["ssid"] = flash["ssid"]] \/ cred' = cred
  BY DEF LoadCredentialsNvs
<1>3. cred \in [NvsKeys -> TextOf(SsidLens \cup PassLens)] /\ "ssid" \in NvsKeys
  BY Types DEF WifiInv, StoredCred, NvsKeys
<1>4. cred'["ssid"].id = flash["ssid"].id \/ cred' = cred
  BY <1>2, <1>3
<1>5. CASE cred'["ssid"].id = flash["ssid"].id
  BY <1>1, <1>5, Blank DEF Prov!Recall
<1>6. CASE cred' = cred
  BY <1>1, <1>6, Unseen
<1> QED
  BY <1>4, <1>5, <1>6

(* store_credentials_nvs saves what is in hand, at nvs_set_str or at       *)
(* nvs_commit, and nothing when it returns early.                          *)
LEMMA StoreSaves ==
  ASSUME WifiInv, StoreCredentialsNvs PROVE Prov!Save \/ UNCHANGED Prov!vars
<1> USE DEF WifiInv
<1>1. /\ queue' = queue /\ sender' = sender /\ cred' = cred /\ driver' = driver
      /\ serial' = serial
  BY DEF StoreCredentialsNvs, StoreSsid, StorePass, StoreCommit, StoreStep
<1>2. flash \in [NvsKeys -> TextOf(SsidLens \cup PassLens)] /\ "ssid" \in NvsKeys
      /\ "pass" # "ssid" /\ flash["ssid"].id \in Nat /\ cred["ssid"].id \in Nat
  BY Types DEF StoredCred, NvsKeys
<1>3. ASSUME flash'["ssid"] = cred["ssid"], flash["ssid"].id < cred["ssid"].id
      PROVE  Prov!Save
  BY <1>1, <1>2, <1>3 DEF Prov!Save
<1>4. ASSUME flash'["ssid"] = flash["ssid"] PROVE UNCHANGED Prov!vars
  BY <1>1, <1>4, Unseen
<1>5. CASE StoreSsid
  <2>1. flash["ssid"].id < cred["ssid"].id
    BY <1>5 DEF StoreSsid, StoreStep, StoreInv
  <2>2. flash' = flash \/ flash' = [flash EXCEPT !["ssid"] = cred["ssid"]]
    BY <1>5 DEF StoreSsid, NvsSet, StoreFails
  <2> QED
    BY <1>2, <1>3, <1>4, <2>1, <2>2
<1>6. CASE StorePass
  <2>1. flash' = flash \/ flash' = [flash EXCEPT !["pass"] = cred["pass"]]
    BY <1>6 DEF StorePass, NvsSet, StoreFails
  <2> QED
    BY <1>2, <1>4, <2>1
<1>7. CASE StoreCommit
  <2>1. \/ flash' = flash
        \/ flash' = [k \in NvsKeys |-> IF k \in staged THEN cred[k] ELSE flash[k]]
    BY <1>7 DEF StoreCommit, StoreFails
  <2>2. "ssid" \in staged => flash["ssid"].id < cred["ssid"].id
    BY <1>2 DEF StoreInv
  <2> QED
    BY <1>2, <1>3, <1>4, <2>1, <2>2
<1> QED
  BY <1>5, <1>6, <1>7 DEF StoreCredentialsNvs

(* wifi_start_with_creds: the last of its calls joins what is saved.       *)
LEMMA StartJoins ==
  ASSUME WifiInv, WifiStartWithCreds PROVE Prov!Join \/ UNCHANGED Prov!vars
<1> USE DEF WifiInv
<1>1. /\ queue' = queue /\ sender' = sender /\ cred' = cred /\ flash' = flash
      /\ serial' = serial
  BY DEF WifiStartWithCreds, SetMode, SetConfig, StartWifi, Connect, DriverCall
<1>2. driver \in [config : DriverCred, target : DriverCred] /\ "ssid" \in NvsKeys
  BY Types DEF NvsKeys
<1>3. CASE driver'.target = driver.target
  BY <1>1, <1>3, Unseen
<1>4. CASE SetMode \/ SetConfig \/ StartWifi
  <2>1. driver'.target = driver.target
    BY <1>2, <1>4 DEF SetMode, SetConfig, StartWifi, DriverCall
  <2> QED
    BY <1>3, <2>1
<1>5. CASE Connect
  <2>1. pc = "connect"
    BY <1>5 DEF Connect, DriverCall
  <2>2. cred = flash /\ driver.config["ssid"].id = flash["ssid"].id
    BY <1>2, <2>1 DEF StartInv, Starting
  <2>3. driver'.target = driver.config \/ driver' = driver
    BY <1>2, <1>5 DEF Connect, DriverCall
  <2>4. CASE driver'.target = driver.config
    BY <1>1, <2>2, <2>4 DEF Prov!Join
  <2> QED
    BY <1>3, <2>3, <2>4
<1> QED
  BY <1>4, <1>5 DEF WifiStartWithCreds

(* The power fails: what is saved stays.                                   *)
LEMMA FailureRestarts == ASSUME PowerFailure PROVE Prov!Restart
<1>1. /\ queue' = <<>> /\ sender' = NoCred /\ cred' = NoCred
      /\ driver' = [config |-> NoCred, target |-> NoCred]
      /\ flash' = flash /\ serial' = serial
  BY DEF PowerFailure
<1>2. Line(queue', sender') = <<>>
  BY <1>1, LineEmpty
<1>3. cred'["ssid"].id = 0 /\ driver'.target["ssid"].id = 0
  BY <1>1, NoCredFields DEF NvsKeys
<1> QED
  BY <1>1, <1>2, <1>3 DEF Prov!Restart

----------------------------------------------------------------------------
(* Every step of the two tasks is a step of provisioning or none at all.   *)
LEMMA NextProvisioning ==
  WifiInv /\ WifiInv' /\ [Next]_vars => [Prov!Next]_(Prov!vars)
<1> SUFFICES ASSUME WifiInv, WifiInv', [Next]_vars
             PROVE  Prov!Next \/ UNCHANGED Prov!vars
  OBVIOUS
<1>1. CASE \E ls \in SsidLens, lp \in PassLens : BizApplyWifiCredentials(ls, lp)
  BY <1>1, PostPosts DEF Prov!Next
<1>2. CASE SenderStep
  BY <1>2, ResumeStutters, TimeOutTurnsAway DEF SenderStep, Prov!Next
<1>3. CASE AppMain
  BY <1>3, BootErases DEF Prov!Next
<1>4. CASE InitDriver
  BY <1>4, Unseen DEF InitDriver, env
<1>5. CASE LoadCredentialsNvs
  BY <1>5, LoadRecalls DEF Prov!Next
<1>6. CASE Receive
  BY <1>6, ReceiveTakes DEF Prov!Next
<1>7. CASE StoreCredentialsNvs
  BY <1>7, StoreSaves DEF Prov!Next
<1>8. CASE WifiStartWithCreds
  BY <1>8, StartJoins DEF Prov!Next
<1>9. CASE PowerFailure
  BY <1>9, FailureRestarts DEF Prov!Next
<1>10. CASE UNCHANGED vars
  BY <1>10, Unseen DEF vars
<1> QED
  BY <1>1, <1>2, <1>3, <1>4, <1>5, <1>6, <1>7, <1>8, <1>9, <1>10 DEF Next, ManagerStep

(* Whatever call fails and whenever the power does, only the newest        *)
(* credentials are ever dropped, the others are taken in order, and the    *)
(* device joins only what it has saved (main/biz_logix.c and               *)
(* main/wifi_manager.c).                                                   *)
THEOREM Refinement == Spec => ImplementsProvisioning
  BY InitWifiInv, NextWifiInv, InitProvisioning, NextProvisioning, PTL
  DEF Spec, ImplementsProvisioning, Prov!Spec
=============================================================================
