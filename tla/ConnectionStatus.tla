-------------------------- MODULE ConnectionStatus --------------------------
(***************************************************************************)
(* What esp32-wifi-manager promises the page that polls status.json: the   *)
(* status names the network that stood in the configuration when it was    *)
(* written, a request clears it once its network is written, and only a    *)
(* request can fail.  The configuration is written in the open: a status   *)
(* written meanwhile names what there is.                                  *)
(***************************************************************************)
CONSTANTS Ssids, Blank

VARIABLES
  ssid,     \* the name of the network in use or asked for, or Blank
  status,   \* what status.json says
  asked,    \* a request of a user may still get its verdict
  writing   \* a request is being written into the configuration

Says(code) == [urc |-> code, ssid |-> ssid]
Nothing == [urc |-> "CLEARED", ssid |-> Blank]

Init == ssid = Blank /\ status = Nothing /\ asked = FALSE /\ writing = FALSE

BeginRequest ==
  /\ ~writing /\ writing' = TRUE
  /\ ssid' = Blank
  /\ asked' = asked /\ UNCHANGED status

Write ==
  /\ writing
  /\ ssid' \in Ssids \cup {ssid}
  /\ asked' = asked /\ writing' = writing /\ UNCHANGED status

Ask ==
  /\ writing /\ writing' = FALSE
  /\ status' = Nothing /\ asked' = TRUE
  /\ UNCHANGED ssid

Connected ==
  /\ status' = Says("CONNECTION_OK")
  /\ asked' => asked
  /\ writing' = writing /\ UNCHANGED ssid

Failed ==
  /\ asked
  /\ status' = Says("FAILED_ATTEMPT")
  /\ asked' \in BOOLEAN
  /\ writing' = writing /\ UNCHANGED ssid

Lost ==
  /\ status' = Says("LOST_CONNECTION")
  /\ asked' = asked /\ writing' = writing /\ UNCHANGED ssid

Forget ==
  /\ ssid' = Blank
  /\ status' = [urc |-> "USER_DISCONNECT", ssid |-> Blank]
  /\ asked' = asked /\ writing' = writing

\* The network saved in flash is loaded before anything else happens.
Load ==
  /\ ssid = Blank /\ status = Nothing /\ ~asked /\ ~writing
  /\ ssid' \in Ssids
  /\ asked' = asked /\ writing' = writing /\ UNCHANGED status

Restart == ssid' = Blank /\ status' = Nothing /\ asked' = FALSE /\ writing' = FALSE

Verdict == Connected \/ Failed \/ Lost \/ Forget

Next == BeginRequest \/ Write \/ Ask \/ Verdict \/ Load \/ Restart

Spec == Init /\ [][Next]_<<ssid, status, asked, writing>>
=============================================================================
