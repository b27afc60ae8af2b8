---------------------------- MODULE PatientUser ----------------------------
(***************************************************************************)
(* The beacons under a patient user: one device at a time for an account,   *)
(* Home is left for Profile only once its list has arrived, Profile is left *)
(* after an edit, and the server refuses nothing.  What the lists then show *)
(* is exact, although writes may still be queued.                           *)
(***************************************************************************)
EXTENDS Beacons

VARIABLE edited   \* an edit was made since Profile was opened

pvars == <<vars, edited>>

PatientInit ==
    /\ Init
    /\ \A d, e \in Devices : who[d] = who[e] => d = e
    /\ edited = [d \in Devices |-> FALSE]

\* No other device uses account u, or has a write of it queued.
Unused(d, u) ==
    \A e \in Devices \ {d} : who[e] # u /\ Quiet(e)

PatientNext == \E d \in Devices :
    \/ Browse(d) /\ edited' = [edited EXCEPT ![d] = @ /\ screen'[d] # "home"]
    \/ Edit(d) /\ edited' = [edited EXCEPT ![d] = screen'[d] = "profile"]
    \/ ~waiting[d].home /\ ~edited[d] /\ Visit(d) /\ UNCHANGED edited
    \/ Server(d) /\ UNCHANGED edited
    \/ /\ Quiet(d) /\ \E u \in Uids : Unused(d, u) /\ SwitchUser(d, u)
       /\ edited' = [edited EXCEPT ![d] = FALSE]
    \/ Restart(d) /\ edited' = [edited EXCEPT ![d] = FALSE]

PatientSpec == PatientInit /\ [][PatientNext]_pvars

----------------------------------------------------------------------------
(* Properties *)

\* The Update form of a patient user shows the beacon as it is, the writes of
\* the device included: Update never edits an older text and never brings back
\* a beacon that was removed.
FormIsCurrent ==
    \A d \in Devices : form[d] # Nil =>
        \E view \in Snapshot :
            /\ Applied(pend[d], db, view)
            /\ view[form[d].key] # Nil
            /\ view[form[d].key].text = form[d].text

\* The list a patient user finds in Profile is all of the user's beacons.
ProfileIsComplete ==
    \A d \in Devices :
        screen[d] \in {"profile", "update"} /\ ~edited[d] /\ waiting[d].profile = Nil =>
            \E view \in Snapshot :
                Applied(pend[d], db, view) /\ profile[d] = Own(view, who[d])

============================================================================
