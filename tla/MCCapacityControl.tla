------------------------- MODULE MCCapacityControl -------------------------
(* Small instances of CapacityControl for TLC.                             *)
EXTENDS CapacityControl, TLC

SomeExceptions == {[exception_type |-> "blocked", capacity |-> 0],
                   [exception_type |-> "override_capacity", capacity |-> 1]}
NoExceptions == {}

Symmetry == Permutations(Desks)
=============================================================================
