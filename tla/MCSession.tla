----------------------------- MODULE MCSession -----------------------------
(* Model checking of Session's liveness: one account, two outstanding calls. *)
EXTENDS Session

============================================================================
