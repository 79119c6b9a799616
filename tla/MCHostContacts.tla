---------------------------- MODULE MCHostContacts ----------------------------
(* Addresses are interchangeable: no definition orders them. *)
EXTENDS HostContacts, TLC

Addresses == Permutations(Addr \ Aggregated)
===============================================================================
