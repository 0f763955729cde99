---------------------------- MODULE MCDownloader ----------------------------
(* Instances of Downloader for TLC. *)
EXTENDS Downloader, TLC

CONSTANTS p1, p2, s1, s2

OnePeer == {p1}
TwoPeers == {p1, p2}
OneSync == {s1}
TwoSyncs == {s1, s2}
MCChans == 1..6

\* Announced heads: the best peer may be known late, or several peers tie.
MCRemoteHead1 == p1 :> 3
MCRemoteHead2 == p1 :> 3 @@ p2 :> 4
MCRemoteHeadOverlap == p1 :> 1 @@ p2 :> 4

\* The two goroutines are interchangeable.
Symmetry == Permutations(TwoSyncs)
=============================================================================
