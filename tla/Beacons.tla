------------------------------ MODULE Beacons ------------------------------
(***************************************************************************)
(* The shared list of beacons: several devices read, create, edit and       *)
(* remove the entries under "beacons" of one Firebase database.             *)
(*                                                                         *)
(* Every screen works on a copy: Home on the list it last fetched, Profile  *)
(* on the part of Home's list that is the user's, Update on the beacon      *)
(* selected in Profile.  setValue queues a write on the device; the server  *)
(* applies a device's writes in order.  A read is one listen shared by the  *)
(* observers waiting for it, and its answer is seen under the writes still  *)
(* queued on the device.                                                    *)
(*                                                                         *)
(* Of a beacon only the owner, a text that stands for what the form edits   *)
(* and whether it has a location are kept.                                  *)
(***************************************************************************)
EXTENDS Naturals, Sequences

CONSTANTS
    Devices,
    Uids,      \* the accounts
    Keys,      \* bound: the keys createable under "beacons"
    Texts,     \* bound: titles and descriptions
    Accesses,  \* the answers to the location prompt: "granted", "denied", or
               \* "off" when location services are disabled
    MaxPend,   \* bound: writes queued on a device
    Nil        \* no value at a location, Swift's nil

Beacon == [uid : Uids, text : Texts, located : BOOLEAN]

\* What the Update form edits.
Form == [key : Keys, text : Texts]

ASSUME NilIsNoValue == Nil \notin Uids \cup Keys \cup Beacon \cup Form

Snapshot  == [Keys -> Beacon \cup {Nil}]
NoBeacons == [k \in Keys |-> Nil]

\* A queued setValue: on beacons/<key>, or on users/<user> with the completion
\* of UserService.updateUserValues.
Write == [key : Keys \cup {Nil}, beacon : Beacon \cup {Nil}, user : Uids \cup {Nil}]

Screens == {"home", "create", "details", "profile", "update"}

VARIABLES
    db,         \* "beacons" at the server
    creator,    \* who created the beacon of a key (history): Nil when unused
    who,        \* User.current.uid on the device
    access,     \* what the user allowed the app on this device
    screen,
    home,       \* HomeController.beacons
    profile,    \* ProfileController.beacons
    form,       \* UpdateController.beacon
    fix,        \* UpdateController.coordinate has been set
    pend,       \* the writes queued on the device, oldest first
    listening,  \* a listen on "beacons" is active
    answer,     \* the server's answer to it on its way: Nil or a snapshot
    waiting     \* the observers that wait for the answer

local == <<home, profile, form, fix>>
read  == <<listening, answer, waiting>>
vars  == <<db, creator, who, access, screen, local, pend, read>>

TypeOK ==
    /\ db \in Snapshot
    /\ creator \in [Keys -> Uids \cup {Nil}]
    /\ who \in [Devices -> Uids]
    /\ access \in [Devices -> Accesses]
    /\ screen \in [Devices -> Screens]
    /\ home \in [Devices -> Snapshot]
    /\ profile \in [Devices -> Snapshot]
    /\ form \in [Devices -> Form \cup {Nil}]
    /\ fix \in [Devices -> BOOLEAN]
    /\ pend \in [Devices -> Seq(Write)]
    /\ listening \in [Devices -> BOOLEAN]
    /\ answer \in [Devices -> Snapshot \cup {Nil}]
    /\ waiting \in [Devices -> [home : BOOLEAN, profile : Uids \cup {Nil}]]

\* Every device has just shown Home.
Init ==
    /\ db = NoBeacons
    /\ creator = [k \in Keys |-> Nil]
    /\ who \in [Devices -> Uids]
    /\ access \in [Devices -> Accesses]
    /\ screen = [d \in Devices |-> "home"]
    /\ home = [d \in Devices |-> NoBeacons]
    /\ profile = [d \in Devices |-> NoBeacons]
    /\ form = [d \in Devices |-> Nil]
    /\ fix = [d \in Devices |-> FALSE]
    /\ pend = [d \in Devices |-> <<>>]
    /\ listening = [d \in Devices |-> TRUE]
    /\ answer = [d \in Devices |-> Nil]
    /\ waiting = [d \in Devices |-> [home |-> TRUE, profile |-> Nil]]

----------------------------------------------------------------------------
(* Helpers *)

\* after is what before becomes when the writes of q are applied in order.
Applied(q, before, after) ==
    \A k \in Keys :
        LET mine == {i \in DOMAIN q : q[i].key = k}
        IN  \/ mine = {} /\ after[k] = before[k]
            \/ \E i \in mine : /\ \A j \in mine : j <= i
                               /\ after[k] = q[i].beacon

Own(list, u) ==
    [k \in Keys |-> IF list[k] # Nil /\ list[k].uid = u THEN list[k] ELSE Nil]

Enqueue(d, writes) ==
    /\ Len(pend[d] \o writes) <= MaxPend
    /\ pend' = [pend EXCEPT ![d] = @ \o writes]

Entry(k, b) == [key |-> k, beacon |-> b, user |-> Nil]

\* Mutant of HomeAppears: Home fetches only if its list is empty, as Profile does.
HomeAppearsOnce(d) ==
    /\ screen' = [screen EXCEPT ![d] = "home"]
    /\ waiting' = [waiting EXCEPT ![d] = [home |-> home[d] = NoBeacons, profile |-> Nil]]
    /\ listening' = [listening EXCEPT ![d] = @ \/ home[d] = NoBeacons]

\* HomeController.viewWillAppear fetches the list, however Home is reached.
HomeAppears(d) ==
    /\ screen' = [screen EXCEPT ![d] = "home"]
    /\ waiting' = [waiting EXCEPT ![d] = [home |-> TRUE, profile |-> Nil]]
    /\ listening' = [listening EXCEPT ![d] = TRUE]

\* ProfileController.viewWillAppear fetches only if its list is empty.
ProfileAppears(d) ==
    /\ screen' = [screen EXCEPT ![d] = "profile"]
    /\ IF profile'[d] = NoBeacons
       THEN /\ waiting' = [waiting EXCEPT ![d].profile = who[d]]
            /\ listening' = [listening EXCEPT ![d] = TRUE]
       ELSE UNCHANGED <<waiting, listening>>

----------------------------------------------------------------------------
(* The screens *)

Leave(d, to) ==
    /\ screen[d] = "home" /\ to \in {"create", "details"}
    /\ screen' = [screen EXCEPT ![d] = to]
    /\ UNCHANGED <<db, creator, who, access, local, pend, read>>

\* The unwind segue exitToHome, from any of the screens Home shows.
ExitToHome(d) ==
    /\ screen[d] \in {"create", "details", "profile"}
    /\ HomeAppears(d)
    /\ profile' = [profile EXCEPT ![d] = NoBeacons]
    /\ UNCHANGED <<db, creator, who, access, home, form, fix, pend, answer>>

\* Mutant of OpenProfile: the filter on the user's uid is dropped.
OpenProfileUnfiltered(d) ==
    /\ screen[d] = "home"
    /\ profile' = [profile EXCEPT ![d] = home[d]]
    /\ ProfileAppears(d)
    /\ UNCHANGED <<db, creator, who, access, home, form, fix, pend, answer>>

\* HomeController.prepare passes the user's part of its own list.
OpenProfile(d) ==
    /\ screen[d] = "home"
    /\ profile' = [profile EXCEPT ![d] = Own(home[d], who[d])]
    /\ ProfileAppears(d)
    /\ UNCHANGED <<db, creator, who, access, home, form, fix, pend, answer>>

Select(d, k) ==
    /\ screen[d] = "profile" /\ profile[d][k] # Nil
    /\ screen' = [screen EXCEPT ![d] = "update"]
    /\ form' = [form EXCEPT ![d] = [key |-> k, text |-> profile[d][k].text]]
    /\ fix' = [fix EXCEPT ![d] = FALSE]
    /\ UNCHANGED <<db, creator, who, access, home, profile, pend, read>>

\* didUpdateLocations on the Update screen.
LocationFix(d) ==
    /\ screen[d] = "update" /\ access[d] = "granted"
    /\ fix' = [fix EXCEPT ![d] = TRUE]
    /\ UNCHANGED <<db, creator, who, access, screen, home, profile, form, pend, read>>

\* The unwind segue exitToProfile: Profile keeps the list it had.
ExitToProfile(d) ==
    /\ form' = [form EXCEPT ![d] = Nil]
    /\ fix' = [fix EXCEPT ![d] = FALSE]
    /\ profile' = profile
    /\ ProfileAppears(d)

Back(d) ==
    /\ screen[d] = "update"
    /\ ExitToProfile(d)
    /\ UNCHANGED <<db, creator, who, access, home, pend, answer>>

\* updateBeacon: a new Beacon of the current user under the selected key, at
\* coordinate (0, 0) if there was no fix; then the user's record is written.
UpdateBeacon(d, text) ==
    /\ screen[d] = "update" /\ access[d] # "off"
    /\ Enqueue(d, <<Entry(form[d].key, [uid |-> who[d], text |-> text, located |-> fix[d]]),
                    [key |-> Nil, beacon |-> Nil, user |-> who[d]]>>)
    /\ ExitToProfile(d)
    /\ UNCHANGED <<db, creator, who, access, home, answer>>

RemoveBeacon(d) ==
    /\ screen[d] = "update"
    /\ Enqueue(d, <<Entry(form[d].key, Nil)>>)
    /\ ExitToProfile(d)
    /\ UNCHANGED <<db, creator, who, access, home, answer>>

\* The create screen launches a beacon: BeaconService.create draws a key of 28
\* random characters, modelled as one never drawn before.
CreateBeacon(d, k, text) ==
    /\ screen[d] = "create" /\ creator[k] = Nil
    /\ creator' = [creator EXCEPT ![k] = who[d]]
    /\ Enqueue(d, <<Entry(k, [uid |-> who[d], text |-> text, located |-> TRUE])>>)
    /\ HomeAppears(d)
    /\ UNCHANGED <<db, who, access, local, answer>>

\* Logout on Profile and a login as u: new controllers, and the old ones take
\* their completions with them.
SwitchUser(d, u) ==
    /\ screen[d] = "profile"
    /\ who' = [who EXCEPT ![d] = u]
    /\ home' = [home EXCEPT ![d] = NoBeacons]
    /\ profile' = [profile EXCEPT ![d] = NoBeacons]
    /\ HomeAppears(d)
    /\ UNCHANGED <<db, creator, access, form, fix, pend, answer>>

\* The app is killed and launched again, with the archived user.  Of the queued
\* writes the server had received the first n.
Restart(d) ==
    /\ \E n \in 0..Len(pend[d]), after \in Snapshot :
          Applied(SubSeq(pend[d], 1, n), db, after) /\ db' = after
    /\ \E a \in Accesses : access' = [access EXCEPT ![d] = a]
    /\ home' = [home EXCEPT ![d] = NoBeacons]
    /\ profile' = [profile EXCEPT ![d] = NoBeacons]
    /\ form' = [form EXCEPT ![d] = Nil]
    /\ fix' = [fix EXCEPT ![d] = FALSE]
    /\ pend' = [pend EXCEPT ![d] = <<>>]
    /\ answer' = [answer EXCEPT ![d] = Nil]
    /\ HomeAppears(d)
    /\ UNCHANGED <<creator, who>>

----------------------------------------------------------------------------
(* The database *)

\* Mutant of Reply: every completion adopts the user of its write.
ReplyAdopting(d, w) ==
    /\ answer[d] = Nil
    /\ pend' = [pend EXCEPT ![d] = Tail(@)]
    /\ who' = [who EXCEPT ![d] = w.user]
    /\ UNCHANGED <<creator, access, screen, local, read>>

\* A reply takes the oldest write from the queue.  Replies and answers travel in
\* order on one connection, so no reply overtakes an answer on its way.  The
\* completion of updateUserValues makes the captured user current, whatever the
\* server replied.
Reply(d, w) ==
    /\ answer[d] = Nil
    /\ pend' = [pend EXCEPT ![d] = Tail(@)]
    /\ who' = IF w.user = Nil THEN who ELSE [who EXCEPT ![d] = w.user]
    /\ UNCHANGED <<creator, access, screen, local, read>>

Accept(d) ==
    /\ pend[d] # <<>>
    /\ LET w == Head(pend[d])
       IN  /\ db' = IF w.key = Nil THEN db ELSE [db EXCEPT ![w.key] = w.beacon]
           /\ Reply(d, w)

Refuse(d) ==
    /\ pend[d] # <<>>
    /\ Reply(d, Head(pend[d]))
    /\ UNCHANGED db

Answer(d) ==
    /\ listening[d] /\ answer[d] = Nil
    /\ answer' = [answer EXCEPT ![d] = db]
    /\ UNCHANGED <<db, creator, who, access, screen, local, pend, listening, waiting>>

\* Mutant of Arrive: the queued writes are not laid over the answer.
ArriveBare(d) ==
    /\ answer[d] # Nil
    /\ home' = IF waiting[d].home THEN [home EXCEPT ![d] = answer[d]] ELSE home
    /\ profile' = IF waiting[d].profile = Nil THEN profile
                  ELSE [profile EXCEPT ![d] = Own(answer[d], waiting[d].profile)]
    /\ waiting' = [waiting EXCEPT ![d] = [home |-> FALSE, profile |-> Nil]]
    /\ listening' = [listening EXCEPT ![d] = FALSE]
    /\ answer' = [answer EXCEPT ![d] = Nil]
    /\ UNCHANGED <<db, creator, who, access, screen, form, fix, pend>>

\* Mutant of Arrive: only one observer of the shared listen is called.
ArriveAtOne(d) ==
    /\ answer[d] # Nil
    /\ \E view \in Snapshot :
          /\ Applied(pend[d], answer[d], view)
          /\ IF waiting[d].profile # Nil
             THEN /\ profile' = [profile EXCEPT ![d] = Own(view, waiting[d].profile)]
                  /\ waiting' = [waiting EXCEPT ![d].profile = Nil]
                  /\ home' = home
             ELSE /\ home' = IF waiting[d].home THEN [home EXCEPT ![d] = view] ELSE home
                  /\ waiting' = [waiting EXCEPT ![d].home = FALSE]
                  /\ profile' = profile
    /\ listening' = [listening EXCEPT ![d] = FALSE]
    /\ answer' = [answer EXCEPT ![d] = Nil]
    /\ UNCHANGED <<db, creator, who, access, screen, form, fix, pend>>

\* All observers of the listen are called with the answer under the writes
\* still queued, and are removed.
Arrive(d) ==
    /\ answer[d] # Nil
    /\ \E view \in Snapshot :
          /\ Applied(pend[d], answer[d], view)
          /\ home' = IF waiting[d].home THEN [home EXCEPT ![d] = view] ELSE home
          /\ profile' = IF waiting[d].profile = Nil THEN profile
                        ELSE [profile EXCEPT ![d] = Own(view, waiting[d].profile)]
    /\ waiting' = [waiting EXCEPT ![d] = [home |-> FALSE, profile |-> Nil]]
    /\ listening' = [listening EXCEPT ![d] = FALSE]
    /\ answer' = [answer EXCEPT ![d] = Nil]
    /\ UNCHANGED <<db, creator, who, access, screen, form, fix, pend>>

\* The server refuses the read: the observers are dropped and never called.
ReadRefused(d) ==
    /\ listening[d] /\ answer[d] = Nil
    /\ waiting' = [waiting EXCEPT ![d] = [home |-> FALSE, profile |-> Nil]]
    /\ listening' = [listening EXCEPT ![d] = FALSE]
    /\ UNCHANGED <<db, creator, who, access, screen, local, pend, answer>>

----------------------------------------------------------------------------
Browse(d) ==
    \/ \E to \in Screens : Leave(d, to)
    \/ ExitToHome(d) \/ LocationFix(d) \/ Back(d)

Edit(d) ==
    \/ \E text \in Texts : UpdateBeacon(d, text)
    \/ RemoveBeacon(d)
    \/ \E k \in Keys, text \in Texts : CreateBeacon(d, k, text)

Visit(d) == OpenProfile(d) \/ \E k \in Keys : Select(d, k)

Server(d) == Accept(d) \/ Answer(d) \/ Arrive(d)

\* The steps of a device whose reads the server does not refuse.
Served(d) == Browse(d) \/ Edit(d) \/ Visit(d) \/ Server(d) \/ Refuse(d)

Act(d) == Served(d) \/ ReadRefused(d)

Switch(d) == \E u \in Uids : SwitchUser(d, u)

Next == \E d \in Devices : Act(d) \/ Switch(d) \/ Restart(d)

Spec == Init /\ [][Next]_vars

\* Nothing the device asked for is outstanding.
Quiet(d) == pend[d] = <<>> /\ ~listening[d]

\* No write of a user's record is queued, whose completion would make that user
\* current again.
Settled(d) == \A i \in DOMAIN pend[d] : pend[d][i].user = Nil

\* A careful user changes the account only when the last edit was answered; writes of
\* beacons and reads may be outstanding.
CarefulNext == \E d \in Devices :
    Act(d) \/ (Settled(d) /\ Switch(d)) \/ Restart(d)

CarefulSpec == Init /\ [][CarefulNext]_vars

\* The app stays in memory and online and the server refuses no read, so its answers
\* arrive: Arrive is then all that ends a wait of Home.
FairSpec ==
    /\ Init /\ [][\E d \in Devices : Served(d) \/ Switch(d)]_vars
    /\ \A d \in Devices : WF_vars(Answer(d)) /\ WF_vars(Arrive(d))

----------------------------------------------------------------------------
(* Properties *)

\* Wherever the beacon of a key occurs, it belongs to the account that created
\* it, as long as nobody changes the account while the write of an edited user's record
\* is unanswered: UpdateController stamps the current uid on a key it was handed through
\* two lists, fetched at different times on different devices.
OneOwner ==
    /\ \A k \in Keys : db[k] # Nil => db[k].uid = creator[k]
    /\ \A d \in Devices :
          /\ \A i \in DOMAIN pend[d] :
                pend[d][i].beacon # Nil => pend[d][i].beacon.uid = creator[pend[d][i].key]
          /\ form[d] # Nil => creator[form[d].key] = who[d]
          /\ \A k \in Keys :
                /\ home[d][k] # Nil => home[d][k].uid = creator[k]
                /\ profile[d][k] # Nil => profile[d][k].uid = who[d] /\ who[d] = creator[k]

\* Unless the server refuses to be read, the list Home asked for arrives, also when
\* Profile shares the listen or Home asks again meanwhile; what Profile asked for
\* arrives or Profile is left.
ListsLoad == \A d \in Devices :
    /\ waiting[d].home ~> ~waiting[d].home
    /\ waiting[d].profile # Nil ~> waiting[d].profile = Nil

\* "Please allow location access to create beacons": a beacon in the database
\* has the location of the device (UpdateController.swift:179).
BeaconsAreLocated == \A k \in Keys : db[k] # Nil => db[k].located

============================================================================
