-------------------------- MODULE WifiManagerUsers --------------------------
(***************************************************************************)
(* WifiManager with users whose patience is bounded: the pages send        *)
(* requests worth at most Requests, in any mixture and at any moment.      *)
(***************************************************************************)
EXTENDS MCWifiManager

CONSTANT Requests   \* bound: requests of the pages, where a POST counts for two

ASSUME RequestsAssumption == Requests \in Nat

VARIABLE sent       \* what there were

\* The web server leaves its rest for a request and for nothing else.
Cost == IF ~HttpdIdle \/ HttpdIdle' THEN 0
        ELSE IF posting'.at = "ssid" THEN 2 ELSE 1

Count == sent' = sent + Cost

UsersInit == Init /\ sent = 0
UsersSpec == UsersInit /\ [][Next /\ Count /\ sent' <= Requests]_<<vars, sent>>
=============================================================================
