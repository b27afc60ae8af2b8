-------------------------- MODULE MCCarefulSession --------------------------
(* Model checking of CarefulSession: two accounts, two outstanding calls. *)
EXTENDS CarefulSession, TLC

\* Accounts, slots and objects are only ever compared for equality.
Symmetry == Permutations(Objects) \cup Permutations(Slots) \cup Permutations(Uids)

============================================================================
