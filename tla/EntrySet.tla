-------------------------------- MODULE EntrySet --------------------------------
(* What a hash table of the interface promises: a set of at most MaxHashSize     *)
(* entries that grows one entry at a time, while it has room, and from which only *)
(* idle entries are taken.                                                        *)
EXTENDS Integers, FiniteSets

CONSTANTS Entry, MaxHashSize

VARIABLES members, idle

Init == members = {} /\ idle = {}

Add(e) ==
  /\ e \notin members /\ Cardinality(members) < MaxHashSize
  /\ members' = members \cup {e} /\ UNCHANGED idle

Purge(e) ==
  /\ e \in members \cap idle
  /\ members' = members \ {e} /\ UNCHANGED idle

\* Entries go idle and come back as time and traffic go by.
Age == idle' \in SUBSET Entry /\ UNCHANGED members

Next == Age \/ \E e \in Entry : Add(e) \/ Purge(e)

Spec == Init /\ [][Next]_<<members, idle>>
===============================================================================
