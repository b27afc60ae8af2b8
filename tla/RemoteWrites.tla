---------------------------- MODULE RemoteWrites ----------------------------
(***************************************************************************)
(* What setValue promises its caller: a write takes effect at the server    *)
(* only between the call and its completion, perhaps more than once, and a  *)
(* completion without error means that it did take effect.                  *)
(***************************************************************************)
CONSTANTS Writes, Locs, Nil

VARIABLES
    status,    \* "new", "pending", "ok", "error" or "lost"
    effected,  \* the writes that took effect
    store      \* the write that last took effect at a location

avars == <<status, effected, store>>

Init ==
    /\ status = [w \in Writes |-> "new"]
    /\ effected = {}
    /\ store = [l \in Locs |-> Nil]

Issue(w) ==
    /\ status[w] = "new"
    /\ status' = [status EXCEPT ![w] = "pending"]
    /\ UNCHANGED <<effected, store>>

Effect(w) ==
    /\ status[w] = "pending"
    /\ store' = [store EXCEPT ![w.loc] = w]
    /\ effected' = effected \cup {w}
    /\ UNCHANGED status

\* Some pending writes complete, or are lost with the process.
Resolve ==
    /\ DOMAIN status' = Writes
    /\ \A w \in Writes :
          \/ status'[w] = status[w]
          \/ /\ status[w] = "pending"
             /\ \/ status'[w] = "ok" /\ w \in effected
                \/ status'[w] \in {"error", "lost"}
    /\ UNCHANGED <<effected, store>>

Next == Resolve \/ \E w \in Writes : Issue(w) \/ Effect(w)

Spec == Init /\ [][Next]_avars

============================================================================
