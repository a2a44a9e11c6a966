------------------------------ MODULE MCFeedSync ------------------------------
(* Instances of FeedSync for TLC. *)
EXTENDS FeedSync, TLC

CONSTANTS i1, i2

Both  == {"calendar", "tasks"}
Tasks == {"tasks"}

Sym == Permutations(Items)
=============================================================================
