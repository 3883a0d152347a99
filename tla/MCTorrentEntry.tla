--------------------------- MODULE MCTorrentEntry ---------------------------
(* Small instances of TorrentEntry for TLC. *)
EXTENDS TorrentEntry, TLC

CONSTANTS t1, t2

OneThread  == {t1}
TwoThreads == {t1, t2}

AllButFinalise    == {"Pause", "Resume", "Cancel"}
ResumeAndFinalise == {"Resume", "Finalise"}
CancelAndFinalise == {"Cancel", "Finalise"}

AllFailures == {"transient", "fatal"}
OnlyFatal   == {"fatal"}
NoFailures  == {}

Symmetry == Permutations(TwoThreads)
=============================================================================
