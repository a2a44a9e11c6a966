----------------------------- MODULE MCFireflySweep -----------------------------
(* Instances of FireflySweep for TLC. *)
EXTENDS FireflySweep, TLC

AllButMidSweep == {"fetch", "ingest", "restart", "remove"}
Unreachable    == {"fetch"}

Sym == Permutations(Callers)
=============================================================================
