------------------------- MODULE WifiManagerRetries -------------------------
(***************************************************************************)
(* WifiManager with an observer: attempts counts the connections the task  *)
(* has started since the last success, restart or start of the access      *)
(* point.  It states what WIFI_MANAGER_MAX_RETRY_START_AP promises.        *)
(***************************************************************************)
EXTENDS MCWifiManager

VARIABLE attempts

Restarted == pending'["task"] = LoadRestore

Count ==
  attempts' =
    IF Restarted \/ sta' = "connected" \/ mode' = "APSTA" THEN 0
    ELSE IF sta = "idle" /\ sta' = "connecting" THEN attempts + 1
    ELSE attempts

RetryInit == Init /\ attempts = 0
RetrySpec == RetryInit /\ [][Next /\ Count]_<<vars, attempts>> /\ Fairness

ApOrdered == pending["task"] = StartAp \/ \E i \in 1..Len(queue) : queue[i] = StartAp

(* wifi_manager.h:67: a maximum of 2 retries means "3 attempts in total":  *)
(* as long as the access point is neither on nor ordered, the saved        *)
(* network was tried at most MaxRetry + 1 times in a row; and with a saved *)
(* network the access point is not started before MaxRetry have failed.    *)
RetryBudget ==
  [][/\ (mode' = "STA" /\ ~ApOrdered') => attempts' <= MaxRetry + 1
     /\ (mode = "STA" /\ mode' = "APSTA" /\ Named(nvs)) => attempts >= MaxRetry]_<<vars, attempts>>
=============================================================================
