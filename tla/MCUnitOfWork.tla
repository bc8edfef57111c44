---------------------------- MODULE MCUnitOfWork ----------------------------
(* A UnitOfWork and an EfUnitOfWork on one database. *)
EXTENDS UnitOfWork, TLC

CONSTANTS plain, guarded

Symmetry == Permutations(Changes)
=============================================================================
