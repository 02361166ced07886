---------------------------- MODULE MCBusControl ----------------------------
(* Instances of BusControl for TLC: one network device, and enough opens of *)
(* the character device for a release, an open that succeeds and an open    *)
(* that is refused to overlap.                                              *)
EXTENDS BusControl, TLC

(* Safety only: opens of the character device are interchangeable. *)
FileSymmetry == Permutations(Files)
=============================================================================
