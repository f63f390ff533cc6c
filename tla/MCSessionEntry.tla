---------------------------- MODULE MCSessionEntry ----------------------------
(***************************************************************************)
(* Instances of SessionEntry for TLC: its requests are interchangeable.    *)
(***************************************************************************)
EXTENDS SessionEntry, TLC

RequestSymmetry == Permutations(EntryRequests)

===============================================================================
