---------------------------- MODULE MCScheduler ----------------------------
(* Small instances of Scheduler for TLC.                                   *)
EXTENDS Scheduler, TLC

(* Holders are interchangeable: no definition tells two of them apart.     *)
PeerSymmetry == Permutations(Peer)

=============================================================================
