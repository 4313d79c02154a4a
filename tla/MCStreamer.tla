------------------------------ MODULE MCStreamer ------------------------------
(* Small instances of Streamer for TLC.                                    *)
EXTENDS Streamer, TLC

\* Capture threads are interchangeable, and so are the tasks of one kind.
Symmetry ==
    Permutations(Threads) \cup Permutations(Starters)
        \cup Permutations(Recoveries)
=============================================================================
