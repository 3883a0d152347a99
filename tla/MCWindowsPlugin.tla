-------------------------- MODULE MCWindowsPlugin --------------------------
(* Small instances of WindowsPlugin.                                       *)
EXTENDS WindowsPlugin

CONSTANTS c1, c2, c3

TwoCalls   == {c1, c2}
ThreeCalls == {c1, c2, c3}
TwoCodes   == {"ok", "failed"}
=============================================================================
