--------------------------- MODULE MCWifiManager ---------------------------
(***************************************************************************)
(* WifiManager with SSIDs of at most 2 characters in a field of 2 and      *)
(* passwords of at most 2 in a field of 2 (32 and 64 in the code): length  *)
(* 2 is the longest the manager accepts, 0 the one it rejects for an SSID. *)
(***************************************************************************)
EXTENDS WifiManager

MCSsidLens == {0, 2}
MCPassLens == {0, 2}
MCOneLen   == {1}
MCLongSsid == {1, 2}
============================================================================
