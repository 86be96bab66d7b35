---------------------------- MODULE MCShadowDemo ----------------------------
(* An instance of ShadowDemo for TLC. *)
EXTENDS ShadowDemo

OneVersion == {2}
OneOfEach == {"delete/accepted", "update/delta"}

=============================================================================
