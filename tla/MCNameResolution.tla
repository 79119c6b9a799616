--------------------------- MODULE MCNameResolution ---------------------------
(* Two addresses: one of a host whose page is opened, one named in the traffic. *)
EXTENDS NameResolution, TLC

CONSTANTS a1, a2, r1, r2

Interchangeable == Permutations({r1, r2})
===============================================================================
