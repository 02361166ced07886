------------------------------ MODULE MCRxRing ------------------------------
(* Instances of RxRing for TLC.                                             *)
EXTENDS RxRing, TLC

CONSTANTS r1, r2, f1, f2

(* One thread reads text, another receives through the ioctl: they share   *)
(* the ring but no buffer.  160 is an exact multiple of the line size.      *)
MixedOps    == (r1 :> "read") @@ (r2 :> "fd_recv_msgs")
MixedCounts == (r1 :> {160}) @@ (r2 :> {0, 3})

(* Two threads in the same operation, for the runs about sessions. *)
SameOps    == (r1 :> "read") @@ (r2 :> "read")
SameCounts == (r1 :> {161}) @@ (r2 :> {161})
=============================================================================
