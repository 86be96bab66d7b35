-------------------------- MODULE CredentialStore --------------------------
(***************************************************************************)
(* What the flash storage of esp32-wifi-manager promises: one network is   *)
(* saved, as a whole, and the next boot loads the network saved last.      *)
(***************************************************************************)
CONSTANTS Configs,  \* what can be saved: the networks and the empty one
          Unknown   \* nothing has been loaded since power-on

VARIABLES saved, loaded

Init == saved \in Configs /\ loaded = Unknown

Save(c) == saved' = c /\ UNCHANGED loaded

Load == loaded = Unknown /\ loaded' = saved /\ UNCHANGED saved

Restart == loaded' = Unknown /\ UNCHANGED saved

Next == Load \/ Restart \/ \E c \in Configs : Save(c)

Spec == Init /\ [][Next]_<<saved, loaded>>
=============================================================================
