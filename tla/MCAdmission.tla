---------------------------- MODULE MCAdmission ----------------------------
(* Two addresses, both of which may connect to us and be connected to.      *)
EXTENDS Admission
=============================================================================
