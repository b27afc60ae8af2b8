---------------------------- MODULE MCHomeScene ----------------------------
(* Model checking of HomeScene: two beacons, two nodes in memory. *)
EXTENDS HomeScene

============================================================================
