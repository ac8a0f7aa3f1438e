----------------------------- MODULE WifiProofs -----------------------------
(***************************************************************************)
(* Proofs about WifiManager, for any lengths of queue, texts and fields,   *)
(* any number of credentials, failing calls and power failures.            *)
(*                                                                         *)
(* The properties speak of the ends of the pipeline; what makes them       *)
(* inductive is what holds at each step of a turn of the manager: which    *)
(* keys NVS already has, and that the turn's credentials are newer than    *)
(* what is stored and older than what waits.                               *)
(***************************************************************************)
EXTENDS WifiManager, SequenceTheorems, TLAPS

Storing  == {"ssid", "pass", "commit"}
Starting == {"mode", "config", "start", "connect"}

(* Until NVS is read nothing is known, and before app_main nothing runs.   *)
BootInv ==
  /\ pc \in {"power", "init", "load"} =>
       cred = NoCred /\ err = "unset" /\ driver.config = NoCred /\ driver.target = NoCred
  /\ pc = "power" => queue = <<>> /\ sender = NoCred

(* Where store_credentials_nvs has come to.                                *)
StoreInv ==
  /\ staged # {} => pc \in {"pass", "commit"}
  /\ "pass" \in staged => pc = "commit"
  /\ pc \in Storing => cred["ssid"].id = cred["pass"].id
  /\ pc = "ssid" => flash["ssid"].id < cred["ssid"].id
  /\ pc \in {"ssid", "pass"} => flash["pass"].id < cred["pass"].id
  /\ pc \in {"pass", "commit"} => "ssid" \in staged \/ flash["ssid"] = cred["ssid"]
  /\ pc = "commit" => "pass" \in staged \/ flash["pass"] = cred["pass"]
  /\ \A k \in staged : flash[k].id < cred[k].id

(* Where wifi_start_with_creds has come to.                                *)
StartInv ==
  /\ pc \in Starting => cred = flash /\ err \in {"unset", "ok"}
  /\ pc \in Starting /\ err = "ok" => cred["ssid"].id = cred["pass"].id
  /\ pc \in {"start", "connect"} => \A k \in NvsKeys : driver.config[k].id = flash[k].id

(* Credentials carry the number of their post in both texts.               *)
Numbered(c, n) == c["ssid"].id = c["pass"].id /\ c["ssid"].id \in 1 .. n

(* What waits is numbered in the order it was posted and newer than what   *)
(* the manager, NVS and the driver have.                                   *)
OrderInv ==
  /\ \A k \in NvsKeys : /\ driver.target[k].id <= driver.config[k].id
                         /\ driver.config[k].id <= flash[k].id
                         /\ flash[k].id <= serial /\ cred[k].id <= serial
  /\ \A i \in 1 .. Len(queue) :
       /\ Numbered(queue[i], serial)
       /\ \A k \in NvsKeys : flash[k].id < queue[i][k].id /\ cred[k].id < queue[i][k].id
       /\ sender # NoCred => queue[i]["ssid"].id < sender["ssid"].id
  /\ \A i, j \in 1 .. Len(queue) : j < i => queue[j]["ssid"].id < queue[i]["ssid"].id
  /\ sender # NoCred =>
       /\ Numbered(sender, serial)
       /\ \A k \in NvsKeys : flash[k].id < sender[k].id /\ cred[k].id < sender[k].id

WifiInv == TypeOK /\ BootInv /\ StoreInv /\ StartInv /\ OrderInv /\ AtRestAgrees

----------------------------------------------------------------------------
(* Credentials: their texts have a number and a length, NoCred has 0.      *)
LEMMA CredFields ==
  ASSUME NEW c \in StoredCred, NEW k \in NvsKeys
  PROVE  /\ c[k] \in [id : 0 .. MaxSerial, len : Nat]
         /\ c[k].id \in 0 .. MaxSerial /\ c[k].id \in Nat /\ c[k].len \in Nat
<1>1. c[k] \in TextOf(SsidLens \cup PassLens)
  BY DEF StoredCred
<1>2. SsidLens \cup PassLens \cup {0} \subseteq Nat /\ MaxSerial \in Nat
  BY WifiAssumption
<1> QED
  BY <1>1, <1>2 DEF TextOf

(* No credentials: number 0, length 0 (a cleared wifi_credentials_t).      *)
LEMMA NoCredFields ==
  /\ NoCred \in StoredCred
  /\ \A k \in NvsKeys : NoCred[k].id = 0 /\ NoCred[k] = [id |-> 0, len |-> 0]
<1>1. MaxSerial \in Nat
  BY WifiAssumption
<1>2. \A k \in NvsKeys : NoCred[k] = [id |-> 0, len |-> 0]
  BY DEF NoCred, NoText, Text
<1>3. \A lens : [id |-> 0, len |-> 0] \in TextOf(lens)
  BY <1>1 DEF TextOf
<1>4. "ssid" \in NvsKeys /\ "pass" \in NvsKeys
  BY DEF NvsKeys
<1>5. NoCred \in [NvsKeys -> TextOf(SsidLens \cup PassLens)]
  BY <1>2, <1>3 DEF NoCred, NoText, Text
<1> QED
  BY <1>2, <1>3, <1>4, <1>5 DEF StoredCred

(* What biz_apply_wifi_credentials posts.                                  *)
LEMMA PostedCred ==
  ASSUME NEW n \in 0 .. MaxSerial, NEW ls \in SsidLens, NEW lp \in PassLens
  PROVE  /\ Credentials(n, ls, lp) \in StoredCred
         /\ \A k \in NvsKeys : Credentials(n, ls, lp)[k].id = n
<1> DEFINE c == Credentials(n, ls, lp)
<1>1. "ssid" \in NvsKeys /\ "pass" \in NvsKeys /\ "pass" # "ssid"
  BY DEF NvsKeys
<1>2. c["ssid"] = [id |-> n, len |-> ls] /\ c["pass"] = [id |-> n, len |-> lp]
  BY <1>1 DEF Credentials, Text
<1>3. \A k \in NvsKeys : k = "ssid" \/ k = "pass"
  BY DEF NvsKeys
<1>4. /\ c["ssid"] \in TextOf(SsidLens) /\ c["pass"] \in TextOf(PassLens)
      /\ \A k \in NvsKeys : c[k] \in TextOf(SsidLens \cup PassLens)
  BY <1>2, <1>3 DEF TextOf
<1>5. c \in [NvsKeys -> TextOf(SsidLens \cup PassLens)]
  BY <1>4 DEF Credentials
<1> QED
  BY <1>2, <1>3, <1>4, <1>5 DEF StoredCred

(* A copy that is cut keeps its number (strncpy in wifi_start_with_creds). *)
LEMMA CopiedFields ==
  ASSUME NEW t \in [id : 0 .. MaxSerial, len : Nat], NEW n \in Nat \ {0}
  PROVE  Copied(t, n) \in [id : 0 .. MaxSerial, len : Nat] /\ Copied(t, n).id = t.id
BY DEF Copied

(* The two halves of credentials, exchanged one by one, stay credentials.  *)
LEMMA Mixed ==
  ASSUME NEW c \in StoredCred, NEW d \in StoredCred, NEW m,
         m \in [NvsKeys -> {c["ssid"], c["pass"], d["ssid"], d["pass"]}],
         \A k \in NvsKeys : m[k] = c[k] \/ m[k] = d[k]
  PROVE  m \in StoredCred
<1>1. "ssid" \in NvsKeys /\ "pass" \in NvsKeys
  BY DEF NvsKeys
<1>2. m["ssid"] \in TextOf(SsidLens) /\ m["pass"] \in TextOf(PassLens)
  BY <1>1 DEF StoredCred
<1>3. \A k \in NvsKeys : m[k] \in TextOf(SsidLens \cup PassLens)
  BY DEF StoredCred
<1>4. m \in [NvsKeys -> TextOf(SsidLens \cup PassLens)]
  BY <1>3
<1> QED
  BY <1>2, <1>4 DEF StoredCred

(* The queue after a post and after a receive.                             *)
LEMMA Queued ==
  ASSUME queue \in Seq(StoredCred), NEW c \in StoredCred, Enqueue(c)
  PROVE  /\ queue' \in Seq(StoredCred)
         /\ Len(queue) \in Nat /\ Len(queue') = Len(queue) + 1
         /\ queue'[Len(queue) + 1] = c
         /\ \A i \in 1 .. Len(queue) : queue'[i] = queue[i]
BY LenProperties DEF Enqueue

(* xQueueReceive takes the oldest, and the others move up.                 *)
LEMMA Received ==
  ASSUME queue \in Seq(StoredCred), queue # <<>>, queue' = Tail(queue)
  PROVE  /\ queue' \in Seq(StoredCred)
         /\ Len(queue) \in Nat /\ Len(queue) >= 1 /\ Len(queue') = Len(queue) - 1
         /\ Head(queue) = queue[1] /\ queue[1] \in StoredCred
         /\ \A i \in 1 .. Len(queue') : queue'[i] = queue[i + 1]
BY HeadTailProperties, EmptySeq, LenProperties

----------------------------------------------------------------------------
(* What the type invariant says of each variable.                          *)
LEMMA Types ==
  ASSUME TypeOK
  PROVE  /\ queue \in Seq(StoredCred) /\ Len(queue) \in Nat /\ Len(queue) <= QueueLength
         /\ sender \in StoredCred /\ cred \in StoredCred /\ flash \in StoredCred
         /\ driver.config \in DriverCred /\ driver.target \in DriverCred
         /\ driver \in [config : DriverCred, target : DriverCred]
         /\ pc \in Steps /\ err \in {"unset", "ok", "fail"} /\ staged \subseteq NvsKeys
         /\ serial \in 0 .. MaxSerial /\ MaxSerial \in Nat
         /\ boots \in 0 .. MaxBoots /\ fails \in 0 .. MaxFails
         /\ \A k \in NvsKeys : /\ sender[k].id \in Nat /\ cred[k].id \in Nat
                               /\ flash[k].id \in Nat
                               /\ driver.config[k].id \in Nat /\ driver.target[k].id \in Nat
         /\ \A i \in 1 .. Len(queue) : queue[i] \in StoredCred
         /\ \A i \in 1 .. Len(queue), k \in NvsKeys : queue[i][k].id \in Nat
<1>1. /\ sender \in StoredCred /\ cred \in StoredCred /\ flash \in StoredCred
      /\ queue \in Seq(StoredCred) /\ driver \in [config : DriverCred, target : DriverCred]
  BY DEF TypeOK
<1>2. Len(queue) \in Nat /\ \A i \in 1 .. Len(queue) : queue[i] \in StoredCred
  BY <1>1, LenProperties, ElementOfSeq
<1>3. ASSUME NEW d \in DriverCred, NEW k \in NvsKeys PROVE d[k].id \in Nat
  BY WifiAssumption DEF DriverCred
<1>4. MaxSerial \in Nat
  BY WifiAssumption
<1> QED
  BY <1>1, <1>2, <1>3, <1>4, CredFields DEF TypeOK

(* A step that leaves the queue alone and gives NVS and the manager only   *)
(* what one of them had.                                                   *)
LEMMA OrderKeeps ==
  ASSUME TypeOK, TypeOK', OrderInv, UNCHANGED <<queue, sender, serial>>,
         \A k \in NvsKeys : /\ driver'.target[k].id <= driver'.config[k].id
                        /\ driver'.config[k].id <= flash'[k].id
                        /\ flash'[k].id \in {0, flash[k].id, cred[k].id}
                        /\ cred'[k].id \in {0, flash[k].id, cred[k].id}
  PROVE  OrderInv'
<1>1. queue' = queue /\ sender' = sender /\ serial' = serial
  OBVIOUS
<1>2. "ssid" \in NvsKeys /\ "pass" \in NvsKeys /\ \A k \in NvsKeys : k = "ssid" \/ k = "pass"
  BY DEF NvsKeys
<1>3. serial \in Nat
  BY Types
<1>4. ASSUME NEW k \in NvsKeys
      PROVE  flash'[k].id <= serial /\ cred'[k].id <= serial
  BY <1>3, Types DEF OrderInv
<1>5. ASSUME NEW i \in 1 .. Len(queue), NEW k \in NvsKeys
      PROVE  flash'[k].id < queue[i][k].id /\ cred'[k].id < queue[i][k].id
  <2>1. queue[i][k].id \in Nat /\ queue[i][k].id > 0
    <3>1. Numbered(queue[i], serial)
      BY DEF OrderInv
    <3>2. queue[i][k].id = queue[i]["ssid"].id
      BY <1>2, <3>1 DEF Numbered
    <3> QED
      BY <1>3, <3>1, <3>2 DEF Numbered
  <2> QED
    BY <2>1, Types DEF OrderInv
<1>6. ASSUME sender # NoCred, NEW k \in NvsKeys
      PROVE  flash'[k].id < sender[k].id /\ cred'[k].id < sender[k].id
  <2>1. sender[k].id \in Nat /\ sender[k].id > 0
    BY <1>2, <1>3, <1>6, Types DEF OrderInv, Numbered
  <2> QED
    BY <1>6, <2>1, Types DEF OrderInv
<1> QED
  BY <1>1, <1>4, <1>5, <1>6 DEF OrderInv, Numbered

----------------------------------------------------------------------------
(* At power-on nothing is known, NVS is empty.                             *)
LEMMA InitWifiInv == Init => WifiInv
<1> SUFFICES ASSUME Init PROVE WifiInv
  OBVIOUS
<1> USE DEF Init
<1>1. 0 \in 0 .. MaxSerial /\ 0 \in 0 .. MaxBoots /\ 0 \in 0 .. MaxFails
  BY WifiAssumption
<1>2. NoCred \in DriverCred
  BY <1>1, NoCredFields DEF DriverCred, NoCred, NoText, Text
<1>3. queue \in Seq(StoredCred) /\ 1 .. Len(queue) = {} /\ Len(queue) = 0
  BY EmptySeq
<1>4. QueueLength \in Nat
  BY WifiAssumption
<1>5. TypeOK
  BY <1>1, <1>2, <1>3, <1>4, NoCredFields DEF TypeOK, Steps
<1>6. BootInv /\ StoreInv /\ StartInv /\ AtRestAgrees
  BY DEF BootInv, StoreInv, StartInv, AtRestAgrees, Storing, Starting
<1>7. OrderInv
  BY <1>3, NoCredFields DEF OrderInv
<1> QED
  BY <1>5, <1>6, <1>7 DEF WifiInv

(* biz_apply_wifi_credentials: what is posted is the newest.               *)
LEMMA PostKeeps ==
  ASSUME WifiInv, NEW ls \in SsidLens, NEW lp \in PassLens,
         BizApplyWifiCredentials(ls, lp)
  PROVE  WifiInv'
<1> USE DEF WifiInv
<1>. PICK c : c = Credentials(serial + 1, ls, lp)
  OBVIOUS
<1>1. /\ pc # "power" /\ sender = NoCred /\ serial < MaxSerial /\ serial' = serial + 1
      /\ pc' = pc /\ cred' = cred /\ err' = err /\ flash' = flash /\ staged' = staged
      /\ driver' = driver /\ boots' = boots /\ fails' = fails
      /\ \/ Len(queue) < QueueLength /\ Enqueue(c) /\ sender' = NoCred
         \/ Len(queue) = QueueLength /\ sender' = c /\ queue' = queue
  BY DEF BizApplyWifiCredentials
<1>2. c \in StoredCred /\ \A k \in NvsKeys : c[k].id = serial + 1
  BY <1>1, PostedCred, Types
<1>3. "ssid" \in NvsKeys /\ "pass" \in NvsKeys
  BY DEF NvsKeys
<1>4. BootInv' /\ StoreInv' /\ StartInv' /\ AtRestAgrees'
  BY <1>1 DEF BootInv, StoreInv, StartInv, AtRestAgrees
<1>5. serial' \in 0 .. MaxSerial /\ serial \in Nat /\ QueueLength \in Nat
  BY <1>1, Types, WifiAssumption, SMTT(30)
<1>6. CASE Enqueue(c) /\ Len(queue) < QueueLength /\ sender' = NoCred
  <2>1. /\ queue' \in Seq(StoredCred) /\ Len(queue) \in Nat
        /\ Len(queue') = Len(queue) + 1 /\ queue'[Len(queue) + 1] = c
        /\ \A i \in 1 .. Len(queue) : queue'[i] = queue[i]
    BY <1>2, <1>6, Queued, Types
  <2>2. TypeOK'
    BY <1>1, <1>5, <1>6, <2>1, NoCredFields DEF TypeOK
  <2>3. \A i \in 1 .. Len(queue') : i \in 1 .. Len(queue) \/ i = Len(queue) + 1
    BY <2>1
  <2>4. ASSUME NEW i \in 1 .. Len(queue')
        PROVE  /\ Numbered(queue'[i], serial')
               /\ \A k \in NvsKeys : flash[k].id < queue'[i][k].id /\ cred[k].id < queue'[i][k].id
    <3>1. CASE i \in 1 .. Len(queue)
      <4>1. queue'[i] = queue[i] /\ Numbered(queue[i], serial)
        BY <2>1, <3>1 DEF OrderInv
      <4>2. Numbered(queue[i], serial')
        BY <1>1, <1>5, <4>1 DEF Numbered
      <4> QED
        BY <3>1, <4>1, <4>2 DEF OrderInv
    <3>2. CASE i = Len(queue) + 1
      <4>1. queue'[i] = c
        BY <2>1, <3>2
      <4>2. Numbered(c, serial')
        BY <1>1, <1>2, <1>3, <1>5 DEF Numbered
      <4>3. \A k \in NvsKeys : flash[k].id <= serial /\ cred[k].id <= serial
        BY DEF OrderInv
      <4> QED
        BY <1>2, <1>5, <4>1, <4>2, <4>3, Types
    <3> QED
      BY <2>3, <3>1, <3>2
  <2>5. ASSUME NEW i \in 1 .. Len(queue'), NEW j \in 1 .. Len(queue'), j < i
        PROVE  queue'[j]["ssid"].id < queue'[i]["ssid"].id
    <3>1. j \in 1 .. Len(queue)
      BY <2>1, <2>5
    <3>2. CASE i \in 1 .. Len(queue)
      BY <2>1, <2>5, <3>1, <3>2 DEF OrderInv
    <3>3. CASE i = Len(queue) + 1
      <4>1. queue'[i] = c /\ queue'[j] = queue[j]
        BY <2>1, <3>1, <3>3
      <4>2. Numbered(queue[j], serial)
        BY <3>1 DEF OrderInv
      <4> QED
        BY <1>2, <1>3, <1>5, <4>1, <4>2 DEF Numbered
    <3> QED
      BY <2>3, <3>2, <3>3
  <2>6. \A k \in NvsKeys : flash[k].id <= serial' /\ cred[k].id <= serial'
    BY <1>1, <1>5, Types DEF OrderInv
  <2>7. OrderInv'
    BY <1>1, <1>6, <2>4, <2>5, <2>6 DEF OrderInv
  <2> QED
    BY <1>4, <2>2, <2>7
<1>7. CASE Len(queue) = QueueLength /\ sender' = c /\ queue' = queue
  <2>1. TypeOK'
    BY <1>1, <1>2, <1>5, <1>7 DEF TypeOK
  <2>2. ASSUME NEW i \in 1 .. Len(queue)
        PROVE  Numbered(queue[i], serial') /\ queue[i]["ssid"].id < c["ssid"].id
    BY <1>1, <1>2, <1>3, <1>5, <1>7, Types DEF OrderInv, Numbered
  <2>3. ASSUME NEW k \in NvsKeys
        PROVE  /\ flash[k].id < c[k].id /\ cred[k].id < c[k].id
               /\ flash[k].id <= serial' /\ cred[k].id <= serial'
    BY <1>1, <1>2, <1>5, Types DEF OrderInv
  <2>4. Numbered(c, serial')
    BY <1>1, <1>2, <1>3, <1>5 DEF Numbered
  <2>5. OrderInv'
    BY <1>1, <1>7, <2>2, <2>3, <2>4 DEF OrderInv, Numbered
  <2> QED
    BY <1>4, <2>1, <2>5
<1> QED
  BY <1>1, <1>6, <1>7

(* xQueueSend after a wait: what was behind the queue is now its last.     *)
LEMMA SendResumesKeeps == ASSUME WifiInv, SendResumes PROVE WifiInv'
<1> USE DEF WifiInv
<1>1. /\ sender # NoCred /\ Len(queue) < QueueLength /\ Enqueue(sender) /\ sender' = NoCred
      /\ pc' = pc /\ cred' = cred /\ err' = err /\ flash' = flash /\ staged' = staged
      /\ driver' = driver /\ serial' = serial /\ boots' = boots /\ fails' = fails
  BY DEF SendResumes, env
<1>2. pc # "power"
  BY <1>1 DEF BootInv
<1>3. BootInv' /\ StoreInv' /\ StartInv' /\ AtRestAgrees'
  BY <1>1, <1>2 DEF BootInv, StoreInv, StartInv, AtRestAgrees
<1>4. /\ queue' \in Seq(StoredCred) /\ Len(queue) \in Nat
      /\ Len(queue') = Len(queue) + 1 /\ queue'[Len(queue) + 1] = sender
      /\ \A i \in 1 .. Len(queue) : queue'[i] = queue[i]
  BY <1>1, Queued, Types
<1>5. TypeOK'
  <2>1. QueueLength \in Nat
    BY WifiAssumption
  <2>2. Len(queue') <= QueueLength
    BY <1>1, <1>4, <2>1
  <2> QED
    BY <1>1, <1>4, <2>2, NoCredFields DEF TypeOK
<1>6. \A i \in 1 .. Len(queue') : i \in 1 .. Len(queue) \/ i = Len(queue) + 1
  BY <1>4
<1>7. ASSUME NEW i \in 1 .. Len(queue')
      PROVE  /\ Numbered(queue'[i], serial)
             /\ \A k \in NvsKeys : flash[k].id < queue'[i][k].id /\ cred[k].id < queue'[i][k].id
  <2>1. CASE i \in 1 .. Len(queue)
    BY <1>4, <2>1 DEF OrderInv
  <2>2. CASE i = Len(queue) + 1
    BY <1>1, <1>4, <2>2 DEF OrderInv
  <2> QED
    BY <1>6, <2>1, <2>2
<1>8. ASSUME NEW i \in 1 .. Len(queue'), NEW j \in 1 .. Len(queue'), j < i
      PROVE  queue'[j]["ssid"].id < queue'[i]["ssid"].id
  <2>1. j \in 1 .. Len(queue)
    BY <1>4, <1>8
  <2>2. CASE i \in 1 .. Len(queue)
    BY <1>4, <1>8, <2>1, <2>2 DEF OrderInv
  <2>3. CASE i = Len(queue) + 1
    BY <1>1, <1>4, <2>1, <2>3 DEF OrderInv
  <2> QED
    BY <1>6, <2>2, <2>3
<1>9. OrderInv'
  BY <1>1, <1>7, <1>8 DEF OrderInv
<1> QED
  BY <1>3, <1>5, <1>9

(* xQueueSend gives up: the newest is gone, nothing else changed.          *)
LEMMA SendTimesOutKeeps == ASSUME WifiInv, SendTimesOut PROVE WifiInv'
<1> USE DEF WifiInv
<1>1. /\ sender # NoCred /\ sender' = NoCred /\ queue' = queue
      /\ pc' = pc /\ cred' = cred /\ err' = err /\ flash' = flash /\ staged' = staged
      /\ driver' = driver /\ serial' = serial /\ boots' = boots /\ fails' = fails
  BY DEF SendTimesOut, env
<1>2. BootInv' /\ StoreInv' /\ StartInv' /\ AtRestAgrees'
  BY <1>1 DEF BootInv, StoreInv, StartInv, AtRestAgrees
<1>3. TypeOK'
  BY <1>1, NoCredFields DEF TypeOK
<1>4. OrderInv'
  BY <1>1 DEF OrderInv
<1> QED
  BY <1>2, <1>3, <1>4

(* The power fails: only NVS survives.                                     *)
LEMMA PowerFailureKeeps == ASSUME WifiInv, PowerFailure PROVE WifiInv'
<1> USE DEF WifiInv
<1>1. /\ queue' = <<>> /\ sender' = NoCred /\ pc' = "power" /\ cred' = NoCred
      /\ err' = "unset" /\ staged' = {}
      /\ driver' = [config |-> NoCred, target |-> NoCred]
      /\ flash' = flash /\ serial' = serial /\ fails' = fails
      /\ boots < MaxBoots /\ boots' = boots + 1
  BY DEF PowerFailure
<1>2. driver'.config = NoCred /\ driver'.target = NoCred
  BY <1>1
<1>3. BootInv' /\ StoreInv' /\ StartInv' /\ AtRestAgrees'
  BY <1>1, <1>2 DEF BootInv, StoreInv, StartInv, AtRestAgrees, Storing, Starting
<1>4. <<>> \in Seq(StoredCred) /\ Len(<<>>) = 0 /\ 1 .. Len(queue') = {}
  BY <1>1, EmptySeq
<1>5. TypeOK'
  <2>1. NoCred \in DriverCred
    <3>1. 0 \in 0 .. MaxSerial
      BY WifiAssumption
    <3> QED
      BY <3>1, NoCredFields DEF DriverCred, NoCred, NoText, Text
  <2>2. boots' \in 0 .. MaxBoots /\ QueueLength \in Nat
    BY <1>1, Types, WifiAssumption
  <2> QED
    BY <1>1, <1>4, <2>1, <2>2, NoCredFields, Types DEF TypeOK, Steps
<1>6. OrderInv'
  <2>1. \A k \in NvsKeys : flash[k].id \in Nat /\ flash[k].id <= serial /\ serial \in Nat
    BY Types DEF OrderInv
  <2> QED
    BY <1>1, <1>2, <1>4, <2>1, NoCredFields DEF OrderInv
<1> QED
  BY <1>3, <1>5, <1>6

(* nvs_flash_init and the start of the manager task.                       *)
LEMMA StartUpKeeps == ASSUME WifiInv, AppMain \/ InitDriver PROVE WifiInv'
<1> USE DEF WifiInv
<1>1. /\ \/ pc = "power" /\ pc' = "init"
         \/ pc = "init" /\ pc' = "load"
      /\ flash' \in {flash, NoCred}
      /\ queue' = queue /\ sender' = sender /\ cred' = cred /\ err' = err /\ staged' = staged
      /\ driver' = driver /\ serial' = serial /\ boots' = boots /\ fails' = fails
  BY DEF AppMain, InitDriver, env
<1>2. /\ cred = NoCred /\ err = "unset" /\ driver.config = NoCred /\ driver.target = NoCred
      /\ staged = {}
  BY <1>1 DEF BootInv, StoreInv
<1>3. TypeOK'
  BY <1>1, NoCredFields DEF TypeOK, Steps
<1>4. BootInv' /\ StoreInv' /\ StartInv' /\ AtRestAgrees'
  BY <1>1, <1>2 DEF BootInv, StoreInv, StartInv, AtRestAgrees, Storing, Starting
<1>5. ASSUME NEW k \in NvsKeys
      PROVE  /\ driver'.target[k].id <= driver'.config[k].id
             /\ driver'.config[k].id <= flash'[k].id
             /\ flash'[k].id \in {0, flash[k].id, cred[k].id}
             /\ cred'[k].id \in {0, flash[k].id, cred[k].id}
  BY <1>1, <1>2, NoCredFields, Types
<1> QED
  BY <1>1, <1>3, <1>4, <1>5, OrderKeeps

(* load_credentials_nvs: both keys, one or none.                           *)
LEMMA LoadKeeps == ASSUME WifiInv, LoadCredentialsNvs PROVE WifiInv'
<1> USE DEF WifiInv
<1>1. /\ pc = "load" /\ queue' = queue /\ sender' = sender /\ err' = err /\ flash' = flash
      /\ staged' = staged /\ driver' = driver /\ serial' = serial /\ boots' = boots
  BY DEF LoadCredentialsNvs
<1>2. /\ cred = NoCred /\ err = "unset" /\ driver.config = NoCred /\ driver.target = NoCred
      /\ staged = {}
  BY <1>1 DEF BootInv, StoreInv
<1>3. fails' \in 0 .. MaxFails
  BY Types, WifiAssumption DEF LoadCredentialsNvs, Fails
<1>4. \/ pc' = "mode" /\ cred' = flash
      \/ pc' = "wait" /\ cred' \in {cred, [cred EXCEPT !["ssid"] = flash["ssid"]]}
  BY DEF LoadCredentialsNvs
<1>5. cred' \in StoredCred /\ \A k \in NvsKeys : cred'[k] \in {cred[k], flash[k]}
  <2>1. "ssid" \in NvsKeys /\ DOMAIN cred = NvsKeys /\ cred \in StoredCred /\ flash \in StoredCred
    BY Types DEF NvsKeys, StoredCred
  <2>2. ASSUME cred' = [cred EXCEPT !["ssid"] = flash["ssid"]] PROVE cred' \in StoredCred
    BY <2>1, <2>2, Mixed DEF StoredCred, NvsKeys
  <2> QED
    BY <1>4, <2>1, <2>2 DEF StoredCred
<1>6. TypeOK'
  BY <1>1, <1>3, <1>4, <1>5 DEF TypeOK, Steps
<1>7. BootInv' /\ StoreInv' /\ StartInv' /\ AtRestAgrees'
  BY <1>1, <1>2, <1>4 DEF BootInv, StoreInv, StartInv, AtRestAgrees, Storing, Starting
<1>8. ASSUME NEW k \in NvsKeys
      PROVE  /\ driver'.target[k].id <= driver'.config[k].id
             /\ driver'.config[k].id <= flash'[k].id
             /\ flash'[k].id \in {0, flash[k].id, cred[k].id}
             /\ cred'[k].id \in {0, flash[k].id, cred[k].id}
  BY <1>1, <1>5 DEF OrderInv
<1> QED
  BY <1>1, <1>6, <1>7, <1>8, OrderKeeps

(* xQueueReceive: the oldest of the queue is the manager's, and newer than *)
(* what NVS has; invalid credentials leave the manager waiting.            *)
LEMMA ReceiveKeeps == ASSUME WifiInv, Receive PROVE WifiInv'
<1> USE DEF WifiInv
<1>1. /\ pc = "wait" /\ queue # <<>> /\ cred' = Head(queue) /\ queue' = Tail(queue)
      /\ pc' \in {"ssid", "wait"}
      /\ sender' = sender /\ err' = err /\ flash' = flash /\ staged' = staged
      /\ driver' = driver /\ serial' = serial /\ boots' = boots /\ fails' = fails
  BY DEF Receive, env
<1>2. /\ queue' \in Seq(StoredCred) /\ Len(queue) \in Nat /\ Len(queue) >= 1
      /\ Len(queue') = Len(queue) - 1 /\ cred' = queue[1] /\ queue[1] \in StoredCred
      /\ \A i \in 1 .. Len(queue') : queue'[i] = queue[i + 1]
  BY <1>1, Received, Types
<1>3. /\ Numbered(queue[1], serial)
      /\ \A k \in NvsKeys : flash[k].id < queue[1][k].id
  BY <1>2 DEF OrderInv
<1>4. staged = {} /\ "ssid" \in NvsKeys /\ "pass" \in NvsKeys
      /\ \A k \in NvsKeys : k = "ssid" \/ k = "pass"
  BY <1>1 DEF StoreInv, NvsKeys
<1>5. TypeOK'
  <2>1. Len(queue') <= QueueLength
    BY <1>2, Types, WifiAssumption
  <2> QED
    BY <1>1, <1>2, <2>1 DEF TypeOK, Steps
<1>6. BootInv'
  BY <1>1 DEF BootInv
<1>7. StoreInv'
  BY <1>1, <1>2, <1>3, <1>4 DEF StoreInv, Storing, Numbered
<1>8. StartInv' /\ AtRestAgrees'
  BY <1>1 DEF StartInv, AtRestAgrees, Starting
<1>9. OrderInv'
  <2>1. serial \in Nat
    BY Types
  <2>2. ASSUME NEW i \in 1 .. Len(queue')
        PROVE  /\ i + 1 \in 1 .. Len(queue) /\ queue'[i] = queue[i + 1]
               /\ queue[1]["ssid"].id < queue[i + 1]["ssid"].id
               /\ Numbered(queue'[i], serial)
    <3>1. i + 1 \in 1 .. Len(queue) /\ 1 \in 1 .. Len(queue) /\ 1 < i + 1
      BY <1>2
    <3> QED
      BY <1>2, <3>1 DEF OrderInv
  <2>3. ASSUME NEW i \in 1 .. Len(queue'), NEW k \in NvsKeys
        PROVE  cred'[k].id < queue'[i][k].id /\ flash[k].id < queue'[i][k].id
    <3>1. cred'[k].id = queue[1]["ssid"].id /\ queue'[i][k].id = queue'[i]["ssid"].id
      BY <1>2, <1>3, <1>4, <2>2 DEF Numbered
    <3> QED
      BY <2>2, <3>1 DEF OrderInv
  <2>4. ASSUME NEW i \in 1 .. Len(queue'), NEW j \in 1 .. Len(queue'), j < i
        PROVE  queue'[j]["ssid"].id < queue'[i]["ssid"].id
    <3>1. j + 1 < i + 1
      BY <1>2, <2>4
    <3> QED
      BY <2>2, <3>1 DEF OrderInv
  <2>5. ASSUME NEW k \in NvsKeys PROVE cred'[k].id <= serial
    BY <1>2, <1>3, <1>4, <2>1, <2>5 DEF Numbered
  <2>6. ASSUME sender # NoCred, NEW k \in NvsKeys PROVE cred'[k].id < sender[k].id
    <3>1. 1 \in 1 .. Len(queue)
      BY <1>2
    <3>2. queue[1]["ssid"].id < sender["ssid"].id /\ Numbered(sender, serial)
      BY <2>6, <3>1 DEF OrderInv
    <3> QED
      BY <1>2, <1>3, <1>4, <3>2 DEF Numbered
  <2>7. \A i \in 1 .. Len(queue') :
          sender # NoCred => queue'[i]["ssid"].id < sender["ssid"].id
    BY <2>2 DEF OrderInv
  <2> QED
    BY <1>1, <2>2, <2>3, <2>4, <2>5, <2>6, <2>7 DEF OrderInv
<1> QED
  BY <1>5, <1>6, <1>7, <1>8, <1>9

----------------------------------------------------------------------------
(* store_credentials_nvs.                                                  *)

(* NVS gets a key of the manager's credentials, at once or later.          *)
LEMMA FlashSet ==
  ASSUME TypeOK, NEW k \in NvsKeys, flash' = [flash EXCEPT ![k] = cred[k]]
  PROVE  /\ flash' \in StoredCred /\ flash'[k] = cred[k]
         /\ \A j \in NvsKeys \ {k} : flash'[j] = flash[j]
<1>1. /\ cred \in StoredCred /\ flash \in StoredCred
      /\ "ssid" \in NvsKeys /\ "pass" \in NvsKeys /\ k \in {"ssid", "pass"}
  BY Types DEF NvsKeys
<1>2. DOMAIN flash = NvsKeys
  BY <1>1 DEF StoredCred
<1>3. flash'[k] = cred[k] /\ \A j \in NvsKeys \ {k} : flash'[j] = flash[j]
  BY <1>2
<1>4. flash' \in [NvsKeys -> {cred["ssid"], cred["pass"], flash["ssid"], flash["pass"]}]
  BY <1>1, <1>2 DEF NvsKeys
<1>5. flash' \in StoredCred
  BY <1>1, <1>3, <1>4, Mixed
<1> QED
  BY <1>3, <1>5

(* A call fails, or the turn goes on with what it had: nothing moves.      *)
LEMMA StoreFailsKeeps ==
  ASSUME WifiInv, NEW from \in Storing, StoreStep(from), StoreFails
  PROVE  WifiInv'
<1> USE DEF WifiInv
<1>1. /\ queue' = queue /\ sender' = sender /\ cred' = cred /\ driver' = driver
      /\ serial' = serial /\ boots' = boots /\ flash' = flash
      /\ err' = "fail" /\ pc' = "wait" /\ staged' = {} /\ pc \in Storing
  BY DEF StoreStep, StoreFails
<1>2. fails' \in 0 .. MaxFails
  BY Types, WifiAssumption DEF StoreFails, Fails
<1>3. TypeOK'
  BY <1>1, <1>2 DEF TypeOK, Steps
<1>4. BootInv' /\ StoreInv' /\ StartInv' /\ AtRestAgrees'
  BY <1>1 DEF BootInv, StoreInv, StartInv, AtRestAgrees, Storing, Starting
<1> QED
  BY <1>1, <1>3, <1>4, OrderKeeps DEF OrderInv

(* The SSID is set.                                                        *)
LEMMA StoreSsidKeeps == ASSUME WifiInv, StoreSsid PROVE WifiInv'
<1> USE DEF WifiInv
<1>1. CASE StoreFails
  BY <1>1, StoreFailsKeeps DEF StoreSsid, Storing
<1>2. CASE NvsSet("ssid") /\ pc' = "pass" /\ UNCHANGED <<err, fails>>
  <2>1. /\ pc = "ssid" /\ pc' = "pass" /\ queue' = queue /\ sender' = sender /\ cred' = cred
        /\ driver' = driver /\ serial' = serial /\ boots' = boots /\ err' = err /\ fails' = fails
    BY <1>2 DEF StoreSsid, StoreStep
  <2>2. "ssid" \in NvsKeys /\ "pass" \in NvsKeys \ {"ssid"} /\ staged = {}
        /\ \A k \in NvsKeys : k = "ssid" \/ k = "pass"
    BY <2>1 DEF NvsKeys, StoreInv
  <2>3. \/ /\ flash' = [flash EXCEPT !["ssid"] = cred["ssid"]] /\ staged' = {}
           /\ flash' \in StoredCred /\ flash'["ssid"] = cred["ssid"]
           /\ flash'["pass"] = flash["pass"]
        \/ staged' = {"ssid"} /\ flash' = flash
    BY <1>2, <2>2, FlashSet DEF NvsSet
  <2>4. TypeOK'
    BY <2>1, <2>2, <2>3 DEF TypeOK, Steps
  <2>5. BootInv' /\ StartInv' /\ AtRestAgrees'
    BY <2>1 DEF BootInv, StartInv, AtRestAgrees, Starting
  <2>6. StoreInv'
    BY <2>1, <2>2, <2>3 DEF StoreInv, Storing
  <2>7. OrderInv'
    <3>1. \A k \in NvsKeys : flash[k].id < cred[k].id
      BY <2>1, <2>2 DEF StoreInv
    <3>2. ASSUME NEW k \in NvsKeys
          PROVE  /\ driver'.target[k].id <= driver'.config[k].id
                 /\ driver'.config[k].id <= flash'[k].id
                 /\ flash'[k].id \in {0, flash[k].id, cred[k].id}
                 /\ cred'[k].id \in {0, flash[k].id, cred[k].id}
      <4>1. flash'[k] = flash[k] \/ flash'[k] = cred[k]
        BY <2>2, <2>3
      <4> QED
        BY <2>1, <3>1, <4>1, Types DEF OrderInv
    <3> QED
      BY <2>1, <2>4, <3>2, OrderKeeps
  <2> QED
    BY <2>4, <2>5, <2>6, <2>7
<1> QED
  BY <1>1, <1>2 DEF StoreSsid

(* The password is set.                                                    *)
LEMMA StorePassKeeps == ASSUME WifiInv, StorePass PROVE WifiInv'
<1> USE DEF WifiInv
<1>1. CASE StoreFails
  BY <1>1, StoreFailsKeeps DEF StorePass, Storing
<1>2. CASE NvsSet("pass") /\ pc' = "commit" /\ UNCHANGED <<err, fails>>
  <2>1. /\ pc = "pass" /\ pc' = "commit" /\ queue' = queue /\ sender' = sender /\ cred' = cred
        /\ driver' = driver /\ serial' = serial /\ boots' = boots /\ err' = err /\ fails' = fails
    BY <1>2 DEF StorePass, StoreStep
  <2>2. "pass" \in NvsKeys /\ "ssid" \in NvsKeys \ {"pass"} /\ "pass" \notin staged
        /\ staged \subseteq NvsKeys /\ \A k \in NvsKeys : k = "ssid" \/ k = "pass"
    BY <2>1, Types DEF NvsKeys, StoreInv
  <2>3. \/ /\ flash' = [flash EXCEPT !["pass"] = cred["pass"]] /\ staged' = staged
           /\ flash' \in StoredCred /\ flash'["pass"] = cred["pass"]
           /\ flash'["ssid"] = flash["ssid"]
        \/ staged' = staged \cup {"pass"} /\ flash' = flash
    BY <1>2, <2>2, FlashSet DEF NvsSet
  <2>4. TypeOK'
    BY <2>1, <2>2, <2>3 DEF TypeOK, Steps
  <2>5. BootInv' /\ StartInv' /\ AtRestAgrees'
    BY <2>1 DEF BootInv, StartInv, AtRestAgrees, Starting
  <2>6. StoreInv'
    BY <2>1, <2>2, <2>3 DEF StoreInv, Storing
  <2>7. OrderInv'
    <3>1. flash["pass"].id < cred["pass"].id
      BY <2>1 DEF StoreInv
    <3>2. ASSUME NEW k \in NvsKeys
          PROVE  /\ driver'.target[k].id <= driver'.config[k].id
                 /\ driver'.config[k].id <= flash'[k].id
                 /\ flash'[k].id \in {0, flash[k].id, cred[k].id}
                 /\ cred'[k].id \in {0, flash[k].id, cred[k].id}
      <4>1. flash'[k] = flash[k] \/ (k = "pass" /\ flash'[k] = cred[k])
        BY <2>2, <2>3
      <4> QED
        BY <2>1, <3>1, <4>1, Types DEF OrderInv
    <3> QED
      BY <2>1, <2>4, <3>2, OrderKeeps
  <2> QED
    BY <2>4, <2>5, <2>6, <2>7
<1> QED
  BY <1>1, <1>2 DEF StorePass

(* nvs_commit: both keys are in NVS, from the same credentials.            *)
LEMMA StoreCommitKeeps == ASSUME WifiInv, StoreCommit PROVE WifiInv'
<1> USE DEF WifiInv
<1>1. CASE StoreFails
  BY <1>1, StoreFailsKeeps DEF StoreCommit, Storing
<1>2. CASE /\ flash' = [k \in NvsKeys |-> IF k \in staged THEN cred[k] ELSE flash[k]]
           /\ staged' = {} /\ err' = "ok" /\ pc' = "mode" /\ UNCHANGED fails
  <2>1. /\ pc = "commit" /\ queue' = queue /\ sender' = sender /\ cred' = cred
        /\ driver' = driver /\ serial' = serial /\ boots' = boots
    BY DEF StoreCommit, StoreStep
  <2>2. cred["ssid"].id = cred["pass"].id
    BY <2>1 DEF StoreInv, Storing
  <2>3. /\ "ssid" \in staged \/ flash["ssid"] = cred["ssid"]
        /\ "pass" \in staged \/ flash["pass"] = cred["pass"]
    BY <2>1 DEF StoreInv
  <2>4. flash' = cred
    <3>1. cred \in [NvsKeys -> TextOf(SsidLens \cup PassLens)]
      BY Types DEF StoredCred
    <3>2. \A k \in NvsKeys : flash'[k] = cred[k]
      BY <1>2, <2>3 DEF NvsKeys
    <3> QED
      BY <1>2, <3>1, <3>2
  <2>5. TypeOK'
    BY <1>2, <2>1, <2>4, Types DEF TypeOK, Steps
  <2>6. BootInv' /\ AtRestAgrees'
    BY <1>2, <2>1 DEF BootInv, AtRestAgrees
  <2>7. StoreInv' /\ StartInv'
    BY <1>2, <2>1, <2>2, <2>4 DEF StoreInv, StartInv, Storing, Starting
  <2>8. ASSUME NEW k \in NvsKeys
        PROVE  /\ driver'.target[k].id <= driver'.config[k].id
               /\ driver'.config[k].id <= flash'[k].id
               /\ flash'[k].id \in {0, flash[k].id, cred[k].id}
               /\ cred'[k].id \in {0, flash[k].id, cred[k].id}
    <3>1. k \in staged \/ flash[k] = cred[k]
      BY <2>3 DEF NvsKeys
    <3>2. k \in staged => flash[k].id < cred[k].id
      BY DEF StoreInv
    <3>3. flash[k].id <= cred[k].id
      BY <3>1, <3>2, Types
    <3> QED
      BY <2>1, <2>4, <3>3, Types DEF OrderInv
  <2> QED
    BY <2>1, <2>5, <2>6, <2>7, <2>8, OrderKeeps
<1> QED
  BY <1>1, <1>2 DEF StoreCommit

----------------------------------------------------------------------------
(* wifi_start_with_creds: a call of the driver succeeds, or ends the turn. *)
LEMMA DriverCallKeeps ==
  ASSUME WifiInv, NEW from \in Starting, NEW to \in Starting \cup {"wait"}, NEW d2,
         DriverCall(from, to, d2),
         d2 \in [config : DriverCred, target : DriverCred],
         \A k \in NvsKeys : /\ d2.target[k].id <= d2.config[k].id
                        /\ d2.config[k].id <= flash[k].id,
         to \in {"start", "connect"} => \A k \in NvsKeys : d2.config[k].id = flash[k].id,
         to = "wait" => /\ \A k \in NvsKeys : d2.config[k].id = flash[k].id
                        /\ d2.target = d2.config
  PROVE  WifiInv'
<1> USE DEF WifiInv
<1>1. /\ pc = from /\ queue' = queue /\ sender' = sender /\ cred' = cred /\ flash' = flash
      /\ staged' = staged /\ serial' = serial /\ boots' = boots
      /\ \/ driver' = d2 /\ pc' = to /\ err' = err /\ fails' = fails
         \/ /\ Fails /\ err' = (IF err = "unset" THEN err ELSE "fail")
            /\ pc' = "wait" /\ driver' = driver
  BY DEF DriverCall
<1>2. cred = flash /\ err \in {"unset", "ok"} /\ staged = {}
      /\ (err = "ok" => cred["ssid"].id = cred["pass"].id)
  BY <1>1 DEF StartInv, StoreInv, Starting
<1>3. TypeOK'
  <2>1. fails' \in 0 .. MaxFails
    BY <1>1, Types, WifiAssumption DEF Fails
  <2> QED
    BY <1>1, <2>1 DEF TypeOK, Steps, Starting
<1>4. BootInv' /\ StoreInv'
  BY <1>1, <1>2 DEF BootInv, StoreInv, Storing, Starting
<1>5. StartInv'
  BY <1>1, <1>2 DEF StartInv, Starting
<1>6. AtRestAgrees'
  <2> SUFFICES ASSUME pc' = "wait", err' = "ok"
               PROVE  /\ flash["ssid"].id = flash["pass"].id
                      /\ \A k \in NvsKeys : driver'.config[k].id = flash[k].id
                      /\ driver'.target = driver'.config
    BY <1>1 DEF AtRestAgrees
  <2>1. driver' = d2 /\ to = "wait" /\ err = "ok"
    BY <1>1, <1>2
  <2> QED
    BY <1>2, <2>1
<1>7. OrderInv'
  <2>1. \A k \in NvsKeys : /\ driver'.target[k].id <= driver'.config[k].id
                       /\ driver'.config[k].id <= flash[k].id
    BY <1>1 DEF OrderInv
  <2> QED
    BY <1>1, <1>3, <2>1, OrderKeeps
<1> QED
  BY <1>3, <1>4, <1>5, <1>6, <1>7

(* The four calls: what they hand to the driver is what NVS holds.         *)
LEMMA WifiStartKeeps == ASSUME WifiInv, WifiStartWithCreds PROVE WifiInv'
<1> USE DEF WifiInv
<1>1. /\ driver \in [config : DriverCred, target : DriverCred]
      /\ driver.config \in DriverCred /\ driver.target \in DriverCred
      /\ \A k \in NvsKeys : /\ driver.target[k].id <= driver.config[k].id
                            /\ driver.config[k].id <= flash[k].id
                            /\ flash[k].id \in Nat
                            /\ driver.target[k].id \in Nat /\ driver.config[k].id \in Nat
  BY Types DEF OrderInv
<1>2. CASE SetMode
  BY <1>1, <1>2, DriverCallKeeps DEF SetMode, Starting
<1>3. CASE StartWifi
  <2>1. pc = "start"
    BY <1>3 DEF StartWifi, DriverCall
  <2>2. \A k \in NvsKeys : driver.config[k].id = flash[k].id
    BY <2>1 DEF StartInv
  <2> QED
    BY <1>1, <1>3, <2>2, DriverCallKeeps DEF StartWifi, Starting
<1>4. CASE Connect
  <2>1. pc = "connect"
    BY <1>4 DEF Connect, DriverCall
  <2>2. \A k \in NvsKeys : driver.config[k].id = flash[k].id
    BY <2>1 DEF StartInv
  <2>3. PICK d2 : d2 = [driver EXCEPT !.target = driver.config]
    OBVIOUS
  <2>4. /\ d2 \in [config : DriverCred, target : DriverCred]
        /\ d2.config = driver.config /\ d2.target = driver.config
    BY <1>1, <2>3
  <2>5. DriverCall("connect", "wait", d2)
    BY <1>4, <2>3 DEF Connect
  <2>6. \A k \in NvsKeys : /\ d2.target[k].id <= d2.config[k].id
                       /\ d2.config[k].id <= flash[k].id
    BY <1>1, <2>4
  <2> QED
    BY <2>2, <2>4, <2>5, <2>6, DriverCallKeeps DEF Starting
<1>5. CASE SetConfig
  <2>1. pc = "config"
    BY <1>5 DEF SetConfig, DriverCall
  <2>2. cred = flash
    BY <2>1 DEF StartInv, Starting
  <2>3. PICK cfg : cfg = [k \in NvsKeys |->
                           Copied(cred[k], IF k = "ssid" THEN SsidField ELSE PassField)]
    OBVIOUS
  <2>4. PICK d2 : d2 = [driver EXCEPT !.config = cfg]
    OBVIOUS
  <2>5. ASSUME NEW k \in NvsKeys
        PROVE  cfg[k] \in [id : 0 .. MaxSerial, len : Nat] /\ cfg[k].id = flash[k].id
    <3>1. cred[k] \in [id : 0 .. MaxSerial, len : Nat]
      BY CredFields, Types
    <3>2. (IF k = "ssid" THEN SsidField ELSE PassField) \in Nat \ {0}
      BY WifiAssumption
    <3>3. cfg[k] = Copied(cred[k], IF k = "ssid" THEN SsidField ELSE PassField)
      BY <2>3
    <3> QED
      BY <2>2, <3>1, <3>2, <3>3, CopiedFields
  <2>6. cfg \in DriverCred
    BY <2>3, <2>5 DEF DriverCred
  <2>7. /\ d2 \in [config : DriverCred, target : DriverCred]
        /\ d2.config = cfg /\ d2.target = driver.target
    BY <1>1, <2>4, <2>6
  <2>8. DriverCall("config", "start", d2)
    BY <1>5, <2>3, <2>4 DEF SetConfig
  <2>9. \A k \in NvsKeys : /\ d2.target[k].id <= d2.config[k].id
                       /\ d2.config[k].id = flash[k].id
                       /\ d2.config[k].id <= flash[k].id
    BY <1>1, <2>5, <2>7
  <2> QED
    BY <2>7, <2>8, <2>9, DriverCallKeeps DEF Starting
<1> QED
  BY <1>2, <1>3, <1>4, <1>5 DEF WifiStartWithCreds

----------------------------------------------------------------------------
(* A step of the world outside.                                            *)
LEMMA WifiStutters == ASSUME WifiInv, UNCHANGED vars PROVE WifiInv'
BY DEF WifiInv, TypeOK, BootInv, StoreInv, StartInv, OrderInv, AtRestAgrees, vars

(* Every step of the two tasks, and the failure of the power, preserves    *)
(* the invariant.                                                          *)
LEMMA NextWifiInv == WifiInv /\ [Next]_vars => WifiInv'
<1> SUFFICES ASSUME WifiInv, [Next]_vars PROVE WifiInv'
  OBVIOUS
<1>1. CASE \E ls \in SsidLens, lp \in PassLens : BizApplyWifiCredentials(ls, lp)
  BY <1>1, PostKeeps
<1>2. CASE SenderStep
  BY <1>2, SendResumesKeeps, SendTimesOutKeeps DEF SenderStep
<1>3. CASE ManagerStep
  BY <1>3, StartUpKeeps, LoadKeeps, ReceiveKeeps, StoreSsidKeeps, StorePassKeeps,
     StoreCommitKeeps, WifiStartKeeps
  DEF ManagerStep, StoreCredentialsNvs
<1>4. CASE PowerFailure
  BY <1>4, PowerFailureKeeps
<1>5. CASE UNCHANGED vars
  BY <1>5, WifiStutters
<1> QED
  BY <1>1, <1>2, <1>3, <1>4, <1>5 DEF Next

(* The invariant holds throughout.                                         *)
LEMMA WifiInvariant == Spec => []WifiInv
BY InitWifiInv, NextWifiInv, PTL DEF Spec

(* The queue stays within its slots and every text within its range.       *)
THEOREM TypeCorrect == Spec => []TypeOK
<1>1. WifiInv => TypeOK
  BY DEF WifiInv
<1> QED
  BY <1>1, WifiInvariant, PTL

(* For any length of queue and any number of failures, credentials take    *)
(* effect in the order they were posted, NVS before the driver             *)
(* (wifi_manager_task).                                                    *)
THEOREM PipelineOrdered == Spec => []PipelineOrder
<1>1. WifiInv => PipelineOrder
  <2> SUFFICES ASSUME WifiInv, NEW k \in NvsKeys
               PROVE  /\ driver.target[k].id <= driver.config[k].id
                      /\ driver.config[k].id <= flash[k].id
                      /\ \A i \in 1 .. Len(queue) :
                           /\ flash[k].id < queue[i][k].id
                           /\ cred[k].id < queue[i][k].id
                           /\ \A j \in 1 .. (i - 1) : queue[j][k].id < queue[i][k].id
                           /\ sender # NoCred => queue[i][k].id < sender[k].id
    BY DEF PipelineOrder
  <2>1. /\ \A i \in 1 .. Len(queue) : queue[i][k].id = queue[i]["ssid"].id
        /\ sender # NoCred => sender[k].id = sender["ssid"].id
    BY DEF WifiInv, OrderInv, Numbered, NvsKeys
  <2>2. \A i \in 1 .. Len(queue) : \A j \in 1 .. (i - 1) : j \in 1 .. Len(queue) /\ j < i
    BY Types DEF WifiInv
  <2> QED
    BY <2>1, <2>2 DEF WifiInv, OrderInv
<1> QED
  BY <1>1, WifiInvariant, PTL

(* After a turn that went well NVS and the driver hold the same            *)
(* credentials, whole (store_credentials_nvs, wifi_start_with_creds).      *)
THEOREM AtRestAlwaysAgrees == Spec => []AtRestAgrees
<1>1. WifiInv => AtRestAgrees
  BY DEF WifiInv
<1> QED
  BY <1>1, WifiInvariant, PTL
=============================================================================
