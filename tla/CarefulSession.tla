--------------------------- MODULE CarefulSession ---------------------------
(***************************************************************************)
(* The session with a history variable that tells whether its user has been *)
(* careful so far: nothing that changes the account is begun while a        *)
(* completion is outstanding, the app is not killed while somebody is       *)
(* signed in on a login screen, and Firebase Auth does not sign the user    *)
(* out by itself.  The properties are what the app promises only to a user  *)
(* who waits; for any other a completion that runs late breaks them.        *)
(***************************************************************************)
EXTENDS Session

VARIABLE careful

CarefulNext ==
    \/ Launch
    \/ (screen \in MainScreens \/ auth = Nil) /\ Kill
    \/ Quiet /\ (Tap \/ Logout)
    \/ Move \/ (\E s \in Slots : TapUpdate(s))
    \/ Reply \/ (\E s \in Slots : ReadCancelled(s))

HistoryNext == Next /\ careful' = (careful /\ CarefulNext)

HistorySpec == Init /\ careful = TRUE /\ [][HistoryNext]_<<vars, careful>>

----------------------------------------------------------------------------
(* Properties *)

\* While the user waits for every completion, the main screens act for the
\* account that Firebase Auth has signed in.
Agreement ==
    careful /\ screen \in MainScreens => auth # Nil /\ heap[current].uid = auth

\* While the user waits, nobody's record or User object lists the beacons of
\* another account.
BeaconsStayPrivate ==
    careful =>
        /\ \A u \in Uids : users[u] # Nil => users[u].beacons \subseteq {u}
        /\ current # Nil => heap[current].beacons \subseteq {heap[current].uid}

\* While the user waits, UserService.create only writes where there is no
\* record yet, so it never drops somebody's beacon list.
CreateNeverOverwrites ==
    careful => \A j \in DOMAIN puts :
        calls[puts[j].slot].step = "create" => users[puts[j].uid] = Nil

============================================================================
