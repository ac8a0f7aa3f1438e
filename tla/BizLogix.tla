------------------------------ MODULE BizLogix ------------------------------
(***************************************************************************)
(* main/biz_logix.c: the registers of the air shifter.  A setter stores a  *)
(* value in the control register, mirrors it to the status register (the   *)
(* actuator is simulated) and has NimBLE notify the subscribers of it.     *)
(*                                                                         *)
(* Integers have their width: an int takes one of IntSize values, and so   *)
(* does a uint32_t, a uint8_t one of ByteSize (2^32 and 2^8 in the code).  *)
(* A call is a record [set |-> register, to |-> integer], as Parser makes  *)
(* them.                                                                   *)
(***************************************************************************)
EXTENDS Integers, Sequences, FiniteSetsExt

CONSTANTS
  Clients,   \* connections that may subscribe to the status registers
  IntSize,   \* number of values of int and uint32_t
  ByteSize,  \* number of values of uint8_t
  Args       \* the int arguments setters are called with

ASSUME BizAssumption ==
  /\ IntSize \in Nat \ {0}
  /\ ByteSize \in Nat \ {0}
  /\ Args \subseteq Int

VARIABLES
  ctrl,      \* g_ctrl_*
  stat,      \* g_stat_*
  subs,      \* <<client, register>>: notifications enabled in the CCCD
  pending,   \* <<client, register>>: ble_gatts_chr_updated, not yet sent
  told       \* told[<<client, register>>]: the value the client was last sent

bizVars == <<ctrl, stat, subs, pending, told>>

Wide == {"rpm", "angle"}
Registers == Wide \cup {"light", "power"}

Size(r) == IF r \in Wide THEN IntSize ELSE ByteSize

MaxInt == IntSize \div 2 - 1

(* A uint32_t cast to int.                                                 *)
ToInt(u) == IF u > MaxInt THEN u - IntSize ELSE u

(* The calls of biz_set_r that are not turned away by `if (v < 0) return'. *)
Settings(calls, r) == {i \in DOMAIN calls : calls[i].set = r /\ calls[i].to >= 0}

(* Mutant: the status mirrors the argument, not what was stored of it.     *)
StoredUncast(regs, calls) ==
  [r \in Registers |-> LET S == Settings(calls, r) IN
     IF S = {} THEN regs[r] ELSE calls[Max(S)].to]

(* The registers after the calls, made one after the other.                *)
Stored(regs, calls) ==
  [r \in Registers |-> LET S == Settings(calls, r) IN
     IF S = {} THEN regs[r] ELSE calls[Max(S)].to % Size(r)]

(* Mutant: biz_set_power notifies the light's characteristic.              *)
NotifiedCopyPaste(calls) ==
  {s \in subs : \E r \in Registers :
     Settings(calls, r) # {} /\ s[2] = IF r = "power" THEN "light" ELSE r}

(* notify_status_*: the subscriptions to send the new values to.           *)
Notified(calls) == {s \in subs : Settings(calls, s[2]) # {}}

(* Setters called one after the other within one step of the host task.    *)
BizApply(calls) ==
  /\ ctrl' = Stored(ctrl, calls)
  /\ stat' = Stored(stat, calls)
  /\ pending' = pending \cup Notified(calls)
  /\ UNCHANGED <<subs, told>>

BizSet(r, v) == BizApply(<<[set |-> r, to |-> v]>>)

----------------------------------------------------------------------------
(* Subscriptions, kept by NimBLE.                                          *)

(* A client enables notifications and reads the register.                  *)
Subscribe(c, r) ==
  /\ <<c, r>> \notin subs
  /\ subs' = subs \cup {<<c, r>>}
  /\ told' = [told EXCEPT ![<<c, r>>] = stat[r]]
  /\ UNCHANGED <<ctrl, stat, pending>>

(* NimBLE reads the register when it sends the notification.               *)
NotifyTx(s) ==
  /\ s \in pending
  /\ pending' = pending \ {s}
  /\ told' = [told EXCEPT ![s] = stat[s[2]]]
  /\ UNCHANGED <<ctrl, stat, subs>>

(* The client unsubscribes or its connection ends.                         *)
Unsubscribe(S) ==
  /\ subs' = subs \ S
  /\ pending' = pending \ S
  /\ told' = [s \in DOMAIN told |-> IF s \in S THEN 0 ELSE told[s]]
  /\ UNCHANGED <<ctrl, stat>>

Zero == [r \in Registers |-> 0]

RegInit ==
  /\ ctrl = Zero
  /\ stat = Zero
  /\ subs = {}
  /\ pending = {}
  /\ told = [s \in Clients \X Registers |-> 0]

----------------------------------------------------------------------------
(* Every register stays within its width and only subscribers are told.    *)
RegTypeOK ==
  /\ ctrl \in [Registers -> Nat]
  /\ stat \in [Registers -> Nat]
  /\ \A r \in Registers : ctrl[r] < Size(r) /\ stat[r] < Size(r)
  /\ subs \subseteq Clients \X Registers
  /\ pending \subseteq subs
  /\ told \in [Clients \X Registers -> Nat]

(* A subscriber that has no notification on its way knows the register:    *)
(* every setter notifies the characteristic of the register it changed,    *)
(* however calls and transmissions interleave, and the status it is told   *)
(* is the control value that was stored.                                   *)
SubscribersKnow ==
  \A s \in subs \ pending : told[s] = ctrl[s[2]]
============================================================================
