-------------------------- MODULE MCSceneLocation --------------------------
(* Model checking of SceneLocation on a street of a few places. *)
EXTENDS SceneLocation

\* Bound, a state constraint: what is promised of estimates and places ends with the
\* first invalid fix or unnoticed move.
Trusted == ~misled

============================================================================
