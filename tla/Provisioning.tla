---------------------------- MODULE Provisioning ----------------------------
(***************************************************************************)
(* What Wi-Fi provisioning promises, with no tasks, no NVS calls and no    *)
(* driver: credentials, known by their numbers, pass through one waiting   *)
(* line, one pair of hands, one memory that survives a restart, and the    *)
(* network the device is told to join.                                     *)
(*                                                                         *)
(* They are taken in the order they were posted, each of them once.  Only  *)
(* the newest is ever turned away, and only while the line is full.  The   *)
(* device joins nothing but what it has saved, so that a restart finds the *)
(* network it was on, or one it was given later.                           *)
(***************************************************************************)
EXTENDS Integers, Sequences

CONSTANT
  Room    \* credentials that can wait; one more may be at the door

VARIABLES
  waiting,  \* the line, oldest first
  posted,   \* number of credentials posted so far
  hand,     \* the credentials being worked on, 0 if none
  saved,    \* the credentials that survive a restart, 0 if none
  network   \* the credentials the device was last told to join with, 0 if none

vars == <<waiting, posted, hand, saved, network>>

Init ==
  /\ waiting = <<>>
  /\ posted = 0
  /\ hand = 0
  /\ saved = 0
  /\ network = 0

Post ==
  /\ Len(waiting) <= Room
  /\ posted' = posted + 1
  /\ waiting' = Append(waiting, posted')
  /\ UNCHANGED <<hand, saved, network>>

(* The newest is turned away, for want of room.                            *)
TurnAway ==
  /\ Len(waiting) = Room + 1
  /\ waiting' = SubSeq(waiting, 1, Room)
  /\ UNCHANGED <<posted, hand, saved, network>>

Take ==
  /\ waiting # <<>>
  /\ hand' = Head(waiting)
  /\ waiting' = Tail(waiting)
  /\ UNCHANGED <<posted, saved, network>>

Save ==
  /\ hand > saved
  /\ saved' = hand
  /\ UNCHANGED <<waiting, posted, hand, network>>

Join ==
  /\ hand = saved
  /\ network' = saved
  /\ UNCHANGED <<waiting, posted, hand, saved>>

(* After a restart the saved credentials are worked on first.              *)
Recall ==
  /\ hand = 0
  /\ network = 0
  /\ hand' = saved
  /\ UNCHANGED <<waiting, posted, saved, network>>

Restart ==
  /\ waiting' = <<>>
  /\ hand' = 0
  /\ network' = 0
  /\ UNCHANGED <<posted, saved>>

(* The memory is unusable and is erased, at boot only.                     *)
Erase ==
  /\ waiting = <<>>
  /\ hand = 0
  /\ network = 0
  /\ saved' = 0
  /\ UNCHANGED <<waiting, posted, hand, network>>

Next ==
  \/ Post
  \/ TurnAway
  \/ Take
  \/ Save
  \/ Join
  \/ Recall
  \/ Restart
  \/ Erase

Spec == Init /\ [][Next]_vars
============================================================================
