------------------------------ MODULE Session ------------------------------
(***************************************************************************)
(* What the security module promises a BLE connection, with no table, no   *)
(* slots and no search: every connection has one session of its own.       *)
(*                                                                         *)
(* When a connection opens it is either given a challenge that was never   *)
(* used before or turned away.  The challenge can be read, by its own      *)
(* connection only; a peer that proves it knows the key of the device over *)
(* it, while it is young enough, is authenticated from then on, and a      *)
(* proof over anything else is in vain; closing the connection forgets     *)
(* everything, and so does a restart for all of them, although the peers   *)
(* remember what they read.  Nothing another connection does appears here. *)
(***************************************************************************)
EXTENDS Integers

CONSTANTS
  Peers,      \* the connections the promise is made to
  Lifetime    \* how long after its creation a challenge may be answered

VARIABLES
  session,    \* session[p], one of the records below
  held,       \* held[p]: the nonce the peer of p has read, 0 if none
  proved,     \* proved[p]: the nonces the peer of p has proved it knows the key over
  issued,     \* the newest nonce drawn so far
  now         \* the clock

vars == <<session, held, proved, issued, now>>

Idle    == [state |-> "idle",    nonce |-> 0, since |-> 0]
Refused == [state |-> "refused", nonce |-> 0, since |-> 0]
Opened(n, t) == [state |-> "challenged", nonce |-> n, since |-> t]
Proven(s)    == [s EXCEPT !.state = "authenticated"]

Init ==
  /\ session = [p \in Peers |-> Idle]
  /\ held = [p \in Peers |-> 0]
  /\ proved = [p \in Peers |-> {}]
  /\ issued = 0
  /\ now = 0

Open(p) ==
  /\ session[p] = Idle
  /\ issued' > issued
  /\ session' = [session EXCEPT ![p] = Opened(issued', now)]
  /\ UNCHANGED <<held, proved, now>>

Refuse(p) ==
  /\ session[p] = Idle
  /\ session' = [session EXCEPT ![p] = Refused]
  /\ UNCHANGED <<held, proved, issued, now>>

Read(p) ==
  /\ session[p].state \in {"challenged", "authenticated"}
  /\ held' = [held EXCEPT ![p] = session[p].nonce]
  /\ UNCHANGED <<session, proved, issued, now>>

(* n is the challenge of p, and it is not too old to be answered.          *)
Answerable(p, n) ==
  /\ session[p].state \in {"challenged", "authenticated"}
  /\ session[p].nonce = n
  /\ now - session[p].since <= Lifetime

(* The peer proves that it knows the key, over what it holds or, having    *)
(* read nothing, over nothing.                                             *)
Prove(p) ==
  \E n \in {0, held[p]} :
    /\ session[p] # Idle
    /\ proved' = [proved EXCEPT ![p] = @ \cup {n}]
    /\ session' = IF Answerable(p, n) THEN [session EXCEPT ![p] = Proven(@)] ELSE session
    /\ UNCHANGED <<held, issued, now>>

Close(p) ==
  /\ session[p] # Idle
  /\ session' = [session EXCEPT ![p] = Idle]
  /\ UNCHANGED <<held, proved, issued, now>>

(* A nonce was drawn for a connection outside Peers.                       *)
DrawElsewhere ==
  /\ issued' > issued
  /\ UNCHANGED <<session, held, proved, now>>

Tick ==
  /\ now' = now + 1
  /\ UNCHANGED <<session, held, proved, issued>>

Restart ==
  /\ session' = [p \in Peers |-> Idle]
  /\ now' = 0
  /\ UNCHANGED <<held, proved, issued>>

Next ==
  \/ \E p \in Peers : Open(p) \/ Refuse(p) \/ Read(p) \/ Prove(p) \/ Close(p)
  \/ DrawElsewhere
  \/ Tick
  \/ Restart

Spec == Init /\ [][Next]_vars
============================================================================
