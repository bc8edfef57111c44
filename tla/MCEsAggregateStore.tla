-------------------------- MODULE MCEsAggregateStore --------------------------
EXTENDS EsAggregateStore, TLC

Symmetry == Permutations(Commands) \cup Permutations(Aggregates)
=============================================================================
