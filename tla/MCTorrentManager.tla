-------------------------- MODULE MCTorrentManager --------------------------
(* Small instances of TorrentManager for TLC. *)
EXTENDS TorrentManager, TLC

CONSTANTS t1, t2, h1

OneThread  == {t1}
TwoThreads == {t1, t2}
OneHash    == {h1}
NoLimits  == {}
SomeLimits == {0, 2}

Symmetry == Permutations(TwoThreads)
=============================================================================
