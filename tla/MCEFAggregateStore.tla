-------------------------- MODULE MCEFAggregateStore --------------------------
(* Two requests at a time on two aggregates.  SnapshotInterval 2 stands for   *)
(* 100: saves that start from a multiple of it and saves that step over one   *)
(* both occur.                                                                *)
EXTENDS EFAggregateStore, TLC

MCSymmetry == Permutations(Handlers) \cup Permutations(Aggregates)

=============================================================================
