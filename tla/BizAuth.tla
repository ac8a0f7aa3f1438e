------------------------------ MODULE BizAuth -------------------------------
(***************************************************************************)
(* The authentication table of main/biz_logix.c (g_auth_table), the older  *)
(* of the two: a client that sends the device key is authenticated until   *)
(* it disconnects.  The program calls biz_clear_auth only; the other two   *)
(* functions are the rest of its interface (biz_logix.h).                  *)
(***************************************************************************)
EXTENDS Integers

CONSTANTS
  Handles,            \* connection handles the NimBLE host may assign
  MaxBleConnections,  \* MAX_BLE_CONNECTIONS
  HandleNone          \* BLE_HS_CONN_HANDLE_NONE

ASSUME BizAuthAssumption ==
  /\ Handles \subseteq Nat
  /\ MaxBleConnections \in Nat \ {0}
  /\ HandleNone \in Nat \ (Handles \cup {0})

VARIABLES
  authTable,  \* g_auth_table
  up,         \* connections of the NimBLE host
  proved      \* history: connections biz_verify_auth_key said yes to

authVars == <<authTable, up, proved>>

Rows == 0 .. MaxBleConnections - 1

FirstOf(i, S) == i \in S /\ \A j \in S : i <= j

RowsOf(h) == {i \in Rows : authTable[i].handle = h}
FreeRows == RowsOf(HandleNone) \cup RowsOf(0)

(* The row get_auth_state returns for h: its own or, which it then takes,  *)
(* the first free one.                                                     *)
GetAuthState(h, i) ==
  IF RowsOf(h) # {} THEN FirstOf(i, RowsOf(h)) ELSE FirstOf(i, FreeRows)

Taken(h, i) ==
  [handle |-> h, authed |-> RowsOf(h) # {} /\ authTable[i].authed]

BizVerifyAuthKey(h, keyOK) ==
  \/ \E i \in Rows :
       /\ GetAuthState(h, i)
       /\ authTable' = [authTable EXCEPT ![i] =
                          [handle |-> h, authed |-> keyOK \/ Taken(h, i).authed]]
       /\ proved' = IF keyOK THEN proved \cup {h} ELSE proved
  \/ /\ \A i \in Rows : ~GetAuthState(h, i)
     /\ UNCHANGED <<authTable, proved>>

(* A query, which takes a row as well.                                     *)
BizIsAuthenticated(h) ==
  \/ \E i \in Rows :
       /\ GetAuthState(h, i)
       /\ authTable' = [authTable EXCEPT ![i] = Taken(h, i)]
  \/ /\ \A i \in Rows : ~GetAuthState(h, i)
     /\ UNCHANGED authTable

(* Mutant: the flag is cleared but the row not given back.                 *)
BizClearAuthFlagOnly(h) ==
  authTable' = [i \in Rows |-> IF authTable[i].handle = h
    THEN [authTable[i] EXCEPT !.authed = FALSE] ELSE authTable[i]]

BizClearAuth(h) ==
  authTable' = [i \in Rows |-> IF authTable[i].handle = h
    THEN [handle |-> HandleNone, authed |-> FALSE] ELSE authTable[i]]

NoRows == [i \in Rows |-> [handle |-> 0, authed |-> FALSE]]

AuthInit ==
  /\ authTable = NoRows
  /\ up = {}
  /\ proved = {}

AuthConnect(h) ==
  /\ h \notin up
  /\ up' = up \cup {h}
  /\ UNCHANGED <<authTable, proved>>

VerifyAuthKey(h, keyOK) ==
  /\ h \in up
  /\ BizVerifyAuthKey(h, keyOK)
  /\ UNCHANGED up

IsAuthenticated(h) ==
  /\ h \in up
  /\ BizIsAuthenticated(h)
  /\ UNCHANGED <<up, proved>>

AuthDisconnect(h) ==
  /\ h \in up
  /\ up' = up \ {h}
  /\ proved' = proved \ {h}
  /\ BizClearAuth(h)

----------------------------------------------------------------------------
(* The table says of every connection whether it sent the device key since *)
(* it connected, no matter how often it was asked about, how full the      *)
(* table is and who had the row or the handle before; and a connection     *)
(* that ended keeps no row.                                                *)
TableRemembersProofs ==
  \A h \in Handles \ {0} :
    /\ h \in proved <=> \E i \in RowsOf(h) : authTable[i].authed
    /\ h \notin up => RowsOf(h) = {}
============================================================================
