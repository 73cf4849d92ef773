---------------------------- MODULE MCWifiManager ----------------------------
(***************************************************************************)
(* WifiManager for TLC: two networks, one of them open, so that a password *)
(* that is stored and one that is not follow each other.                   *)
(***************************************************************************)
EXTENDS WifiManager

CONSTANTS s1, s2, p1

MCChoice == {[ssid |-> s1, password |-> p1], [ssid |-> s2, password |-> Empty]}

=============================================================================
