--------------------------- MODULE MCApplePlugin ---------------------------
(***************************************************************************)
(* A small instance of ApplePlugin for TLC.                                *)
(***************************************************************************)
EXTENDS ApplePlugin

CONSTANTS c1, c2

TwoCalls == {c1, c2}
TwoCodes == {"ok", "failed"}
=============================================================================
