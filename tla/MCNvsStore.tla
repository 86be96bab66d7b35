----------------------------- MODULE MCNvsStore -----------------------------
(***************************************************************************)
(* Instances of NvsStore for TLC: two ssids and two passwords, and three   *)
(* networks of which one differs from each other by one field only.        *)
(***************************************************************************)
EXTENDS NvsStore

Net(s, p) == [ssid |-> s, password |-> p]

ThreeNets == {Net("home", "pass1"), Net("home", "pass2"), Net("work", "pass1")}
TwoNets   == {Net("home", "pass1"), Net("work", "pass2")}
TwoSsids     == {"home", "work"}
TwoPasswords == {"pass1", "pass2"}
=============================================================================
