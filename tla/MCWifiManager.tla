--------------------------- MODULE MCWifiManager ---------------------------
(***************************************************************************)
(* Instances of WifiManager for TLC: the surroundings each run enables.    *)
(***************************************************************************)
EXTENDS WifiManager

\* Nobody uses the web pages: links break, leases are renewed, the power is cut.
Unattended == {"linkloss", "renew", "powercut"}

\* Users connect and disconnect while pages list networks, links break and
\* the driver refuses calls.
Attended == {"linkloss", "post", "delete", "scan", "refuse"}
=============================================================================
