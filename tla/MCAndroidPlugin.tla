-------------------------- MODULE MCAndroidPlugin --------------------------
(* A small instance of AndroidPlugin for TLC. *)
EXTENDS AndroidPlugin

CONSTANTS c1, c2, i1

TwoCalls == {c1, c2}
OneId    == {i1}
TwoCodes == {"ok", "error"}
=============================================================================
