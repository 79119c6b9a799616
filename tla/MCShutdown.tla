------------------------------ MODULE MCShutdown ------------------------------
(* Two interfaces, a capture device and a collector, and their pollers. *)
EXTENDS Shutdown

CONSTANTS p1, p2

TwoPollers == <<p1, p2>>
AllThreads == {p1, p2, Main, Http, Script, Resolver}
AllButWorkers == {p1, p2, Main}
===============================================================================
