----------------------------- MODULE MCGenericHash -----------------------------
(* Small instances of GenericHash for TLC: two buckets, three objects, so that a *)
(* bucket can hold two entries while the other one is worked on.                 *)
EXTENDS GenericHash, TLC

CONSTANTS e1, e2, e3

TwoBuckets == e1 :> 0 @@ e2 :> 1 @@ e3 :> 1
===============================================================================
