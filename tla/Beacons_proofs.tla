---------------------------- MODULE Beacons_proofs ----------------------------
(***************************************************************************)
(* Proofs about Beacons, for any number of devices, accounts and keys: under *)
(* careful users type correctness, and that a beacon keeps its owner; under  *)
(* patient users (PatientUser) that the lists and the form show what is.     *)
(***************************************************************************)
EXTENDS PatientUser, SequenceTheorems, TLAPS

\* Every beacon of a list belongs to the creator of its key.
Owned(list) == \A k \in Keys : list[k] # Nil => list[k].uid = creator[k]

\* Every beacon of a list belongs to the user of device d, who created it.
Mine(d, list) ==
    \A k \in Keys : list[k] # Nil => list[k].uid = who[d] /\ who[d] = creator[k]

\* A queued beacon goes to a key and belongs to its creator, and a queued user
\* record is the current user's.
WriteOK(d, w) ==
    /\ w.beacon # Nil => w.key # Nil /\ w.beacon.uid = creator[w.key]
    /\ w.user # Nil => w.user = who[d]

QueueOK(d, q) == \A i \in 1 .. Len(q) : WriteOK(d, q[i])

FormOK(d) ==
    /\ form[d] # Nil <=> screen[d] = "update"
    /\ form[d] # Nil => creator[form[d].key] = who[d]

\* What the lists and forms will be made from is owned, too.
DeviceOK(d) ==
    /\ QueueOK(d, pend[d])
    /\ FormOK(d)
    /\ Owned(home[d])
    /\ Mine(d, profile[d])
    /\ answer[d] # Nil => Owned(answer[d])
    /\ waiting[d].profile # Nil => waiting[d].profile = who[d]

IInv ==
    /\ TypeOK
    /\ Owned(db)
    /\ \A d \in Devices : DeviceOK(d)

\* Applying owned writes to an owned list gives an owned list.
LEMMA AppliedOwned ==
    ASSUME NEW d, NEW q \in Seq(Write), NEW before, NEW after,
           QueueOK(d, q), Owned(before), Applied(q, before, after)
    PROVE  Owned(after)
<1> SUFFICES ASSUME NEW k \in Keys, after[k] # Nil
             PROVE  after[k].uid = creator[k]
  BY DEF Owned
<1>1. CASE after[k] = before[k]
  BY <1>1 DEF Owned
<1>2. CASE \E i \in 1 .. Len(q) : q[i].key = k /\ after[k] = q[i].beacon
  BY <1>2 DEF QueueOK, WriteOK
<1>3. DOMAIN q = 1 .. Len(q)
  OBVIOUS
<1> QED
  BY <1>1, <1>2, <1>3 DEF Applied

\* The user's part of an owned list is the user's own.
LEMMA OwnMine ==
    ASSUME NEW d, NEW list \in Snapshot, Owned(list)
    PROVE  Own(list, who[d]) \in Snapshot /\ Mine(d, Own(list, who[d]))
BY DEF Own, Owned, Mine, Snapshot

\* The initial state satisfies the invariant.
LEMMA InitInv == Init => IInv
<1> SUFFICES ASSUME Init PROVE IInv
  OBVIOUS
<1>1. NoBeacons \in Snapshot
  BY DEF NoBeacons, Snapshot
<1>2. \A k \in Keys : NoBeacons[k] = Nil
  BY DEF NoBeacons
<1>3. TypeOK
  BY <1>1 DEF Init, TypeOK, Screens
<1>4. Owned(db)
  BY <1>2 DEF Init, Owned
<1>5. ASSUME NEW d \in Devices PROVE DeviceOK(d)
  BY <1>2, <1>5 DEF Init, DeviceOK, QueueOK, FormOK, Owned, Mine
<1> QED
  BY <1>3, <1>4, <1>5 DEF IInv

\* A step of one device keeps the invariant if it keeps it for this device and
\* for the database, and changes no creator and no other device.
LEMMA OtherDevices ==
    ASSUME IInv, NEW d \in Devices, TypeOK', UNCHANGED creator, Owned(db)',
           \A e \in Devices \ {d} :
               /\ who'[e] = who[e] /\ screen'[e] = screen[e]
               /\ home'[e] = home[e] /\ profile'[e] = profile[e] /\ form'[e] = form[e]
               /\ pend'[e] = pend[e] /\ answer'[e] = answer[e] /\ waiting'[e] = waiting[e],
           DeviceOK(d)'
    PROVE  IInv'
<1>1. ASSUME NEW e \in Devices \ {d} PROVE DeviceOK(e)'
  BY <1>1 DEF IInv, DeviceOK, QueueOK, WriteOK, FormOK, Owned, Mine
<1> QED
  BY <1>1 DEF IInv

\* The same when the database does not change either.
LEMMA DeviceStep ==
    ASSUME IInv, NEW d \in Devices, TypeOK', UNCHANGED <<db, creator>>,
           \A e \in Devices \ {d} :
               /\ who'[e] = who[e] /\ screen'[e] = screen[e]
               /\ home'[e] = home[e] /\ profile'[e] = profile[e] /\ form'[e] = form[e]
               /\ pend'[e] = pend[e] /\ answer'[e] = answer[e] /\ waiting'[e] = waiting[e],
           DeviceOK(d)'
    PROVE  IInv'
<1>1. Owned(db)'
  BY DEF IInv, Owned
<1> QED
  BY <1>1, OtherDevices

\* Home appearing sets the screen and asks for its own list only.
LEMMA HomeAppearsType ==
    ASSUME TypeOK, NEW d \in Devices, HomeAppears(d)
    PROVE  /\ screen' \in [Devices -> Screens]
           /\ listening' \in [Devices -> BOOLEAN]
           /\ waiting' \in [Devices -> [home : BOOLEAN, profile : Uids \cup {Nil}]]
           /\ screen'[d] = "home" /\ waiting'[d].profile = Nil
           /\ \A e \in Devices \ {d} : waiting'[e] = waiting[e] /\ screen'[e] = screen[e]
BY DEF TypeOK, HomeAppears, Screens

\* Profile appearing asks for the list on behalf of the current user only.
LEMMA ProfileAppearsType ==
    ASSUME TypeOK, NEW d \in Devices, ProfileAppears(d)
    PROVE  /\ screen' \in [Devices -> Screens]
           /\ listening' \in [Devices -> BOOLEAN]
           /\ waiting' \in [Devices -> [home : BOOLEAN, profile : Uids \cup {Nil}]]
           /\ screen'[d] = "profile" /\ waiting'[d].profile \in {waiting[d].profile, who[d]}
           /\ \A e \in Devices \ {d} : waiting'[e] = waiting[e] /\ screen'[e] = screen[e]
<1>1. /\ screen' \in [Devices -> Screens] /\ screen'[d] = "profile"
      /\ \A e \in Devices \ {d} : screen'[e] = screen[e]
  BY DEF TypeOK, ProfileAppears, Screens
<1>2. listening' \in [Devices -> BOOLEAN]
  BY DEF TypeOK, ProfileAppears
<1>3. CASE profile'[d] = NoBeacons
  <2> DEFINE W == [Devices -> [home : BOOLEAN, profile : Uids \cup {Nil}]]
  <2>1. waiting \in W /\ who[d] \in Uids
    BY DEF TypeOK
  <2>2. waiting' = [waiting EXCEPT ![d].profile = who[d]]
    BY <1>3 DEF ProfileAppears
  <2>3. waiting' \in W /\ waiting'[d].profile = who[d]
        /\ \A e \in Devices \ {d} : waiting'[e] = waiting[e]
    BY <2>1, <2>2
  <2> QED
    BY <1>1, <1>2, <2>3
<1>4. CASE profile'[d] # NoBeacons
  BY <1>1, <1>2, <1>4 DEF TypeOK, ProfileAppears
<1> QED
  BY <1>3, <1>4

\* Leaving Home for the create or the details screen.
LEMMA LeaveInv ==
    ASSUME IInv, NEW d \in Devices, NEW to \in Screens, Leave(d, to)
    PROVE  IInv'
<1>1. TypeOK'
  BY DEF IInv, TypeOK, Leave, Screens, local, read
<1>2. DeviceOK(d)'
  BY DEF IInv, DeviceOK, QueueOK, WriteOK, FormOK, Owned, Mine, Leave, local, read
<1> QED
  BY <1>1, <1>2, DeviceStep DEF Leave, local, read

\* A location fix on Update.
LEMMA LocationFixInv ==
    ASSUME IInv, NEW d \in Devices, LocationFix(d)
    PROVE  IInv'
<1>1. TypeOK'
  BY DEF IInv, TypeOK, LocationFix, read
<1>2. DeviceOK(d)'
  BY DEF IInv, DeviceOK, QueueOK, WriteOK, FormOK, Owned, Mine, LocationFix, read
<1> QED
  BY <1>1, <1>2, DeviceStep DEF LocationFix, read

\* Home replaces Profile, Details or the create screen.
LEMMA ExitToHomeInv ==
    ASSUME IInv, NEW d \in Devices, ExitToHome(d)
    PROVE  IInv'
<1>1. NoBeacons \in Snapshot /\ \A k \in Keys : NoBeacons[k] = Nil
  BY DEF NoBeacons, Snapshot
<1>2. /\ screen' \in [Devices -> Screens]
      /\ listening' \in [Devices -> BOOLEAN]
      /\ waiting' \in [Devices -> [home : BOOLEAN, profile : Uids \cup {Nil}]]
      /\ screen'[d] = "home" /\ waiting'[d].profile = Nil
      /\ \A e \in Devices \ {d} : waiting'[e] = waiting[e] /\ screen'[e] = screen[e]
  BY HomeAppearsType DEF IInv, ExitToHome
<1>3. TypeOK'
  BY <1>1, <1>2 DEF IInv, TypeOK, ExitToHome
<1>4. profile'[d] = NoBeacons
  BY DEF IInv, TypeOK, ExitToHome
<1>5. DeviceOK(d)'
  BY <1>1, <1>2, <1>4 DEF IInv, DeviceOK, QueueOK, WriteOK, FormOK, Owned, Mine, ExitToHome
<1> QED
  BY <1>2, <1>3, <1>5, DeviceStep DEF ExitToHome

\* Profile is handed the user's part of Home's list.
LEMMA OpenProfileInv ==
    ASSUME IInv, NEW d \in Devices, OpenProfile(d)
    PROVE  IInv'
<1>1. Own(home[d], who[d]) \in Snapshot /\ Mine(d, Own(home[d], who[d]))
  BY OwnMine DEF IInv, TypeOK, DeviceOK
<1>2. /\ screen' \in [Devices -> Screens]
      /\ listening' \in [Devices -> BOOLEAN]
      /\ waiting' \in [Devices -> [home : BOOLEAN, profile : Uids \cup {Nil}]]
      /\ screen'[d] = "profile" /\ waiting'[d].profile \in {waiting[d].profile, who[d]}
      /\ \A e \in Devices \ {d} : waiting'[e] = waiting[e] /\ screen'[e] = screen[e]
  BY ProfileAppearsType DEF IInv, OpenProfile
<1>3. TypeOK'
  BY <1>1, <1>2 DEF IInv, TypeOK, OpenProfile
<1>4. profile'[d] = Own(home[d], who[d])
  BY DEF IInv, TypeOK, OpenProfile
<1>5. Mine(d, profile[d])'
  BY <1>1, <1>4 DEF Mine, OpenProfile
<1>6. DeviceOK(d)'
  BY <1>2, <1>5 DEF IInv, DeviceOK, QueueOK, WriteOK, FormOK, Owned, OpenProfile
<1> QED
  BY <1>2, <1>3, <1>6, DeviceStep DEF OpenProfile

\* Update is handed a beacon of Profile's list.
LEMMA SelectInv ==
    ASSUME IInv, NEW d \in Devices, NEW k \in Keys, Select(d, k)
    PROVE  IInv'
<1>1. profile[d][k] \in Beacon /\ creator[k] = who[d]
  BY DEF IInv, TypeOK, Snapshot, DeviceOK, Mine, Select
<1>2. [key |-> k, text |-> profile[d][k].text] \in Form
  BY <1>1 DEF Beacon, Form
<1>3. TypeOK'
  BY <1>2 DEF IInv, TypeOK, Select, Screens, read
<1>4. form'[d] = [key |-> k, text |-> profile[d][k].text]
  BY DEF IInv, TypeOK, Select
<1>5. FormOK(d)'
  BY <1>1, <1>2, <1>4, NilIsNoValue DEF IInv, TypeOK, FormOK, Select
<1>6. DeviceOK(d)'
  BY <1>5 DEF IInv, DeviceOK, QueueOK, WriteOK, Owned, Mine, Select, read
<1> QED
  BY <1>3, <1>6, DeviceStep DEF IInv, TypeOK, Select, read

\* Writes that are in order join the queue.
LEMMA EnqueueOK ==
    ASSUME IInv, NEW d \in Devices, NEW r \in Seq(Write), QueueOK(d, r), Enqueue(d, r)
    PROVE  /\ pend' \in [Devices -> Seq(Write)]
           /\ QueueOK(d, pend'[d])
           /\ \A e \in Devices \ {d} : pend'[e] = pend[e]
<1>1. pend[d] \in Seq(Write) /\ QueueOK(d, pend[d])
  BY DEF IInv, TypeOK, DeviceOK
<1>2. pend' = [pend EXCEPT ![d] = pend[d] \o r]
  BY DEF Enqueue
<1>3. pend[d] \o r \in Seq(Write)
  BY <1>1
<1>4. QueueOK(d, pend[d] \o r)
  <2> SUFFICES ASSUME NEW i \in 1 .. Len(pend[d] \o r)
               PROVE  WriteOK(d, (pend[d] \o r)[i])
    BY DEF QueueOK
  <2>1. CASE i <= Len(pend[d])
    <3>1. (pend[d] \o r)[i] = pend[d][i] /\ i \in 1 .. Len(pend[d])
      BY <1>1, <2>1
    <3> QED
      BY <1>1, <3>1 DEF QueueOK
  <2>2. CASE i > Len(pend[d])
    <3>1. (pend[d] \o r)[i] = r[i - Len(pend[d])] /\ i - Len(pend[d]) \in 1 .. Len(r)
      BY <1>1, <2>2
    <3> QED
      BY <3>1 DEF QueueOK
  <2> QED
    BY <1>1, <2>1, <2>2
<1>5. pend \in [Devices -> Seq(Write)]
  BY DEF IInv, TypeOK
<1>6. pend'[d] = pend[d] \o r /\ pend' \in [Devices -> Seq(Write)]
      /\ \A e \in Devices \ {d} : pend'[e] = pend[e]
  BY <1>2, <1>3, <1>5
<1> QED
  BY <1>4, <1>6

\* Leaving Update with the queue pend'.
LEMMA ExitToProfileInv ==
    ASSUME IInv, NEW d \in Devices, ExitToProfile(d),
           UNCHANGED <<db, creator, who, access, home, answer>>,
           pend' \in [Devices -> Seq(Write)], QueueOK(d, pend'[d]),
           \A e \in Devices \ {d} : pend'[e] = pend[e]
    PROVE  IInv'
<1>1. /\ screen' \in [Devices -> Screens]
      /\ listening' \in [Devices -> BOOLEAN]
      /\ waiting' \in [Devices -> [home : BOOLEAN, profile : Uids \cup {Nil}]]
      /\ screen'[d] = "profile" /\ waiting'[d].profile \in {waiting[d].profile, who[d]}
      /\ \A e \in Devices \ {d} : waiting'[e] = waiting[e] /\ screen'[e] = screen[e]
  BY ProfileAppearsType DEF IInv, ExitToProfile
<1>2. TypeOK'
  BY <1>1 DEF IInv, TypeOK, ExitToProfile
<1>3. form'[d] = Nil
  BY DEF IInv, TypeOK, ExitToProfile
<1>4. QueueOK(d, pend[d])'
  BY DEF QueueOK, WriteOK
<1>5. DeviceOK(d)'
  BY <1>1, <1>3, <1>4 DEF IInv, DeviceOK, FormOK, Owned, Mine, ExitToProfile
<1> QED
  BY <1>1, <1>2, <1>5, DeviceStep DEF ExitToProfile

\* Leaving Update without an edit.
LEMMA BackInv ==
    ASSUME IInv, NEW d \in Devices, Back(d)
    PROVE  IInv'
<1>1. /\ pend' \in [Devices -> Seq(Write)]
      /\ QueueOK(d, pend'[d])
      /\ \A e \in Devices \ {d} : pend'[e] = pend[e]
  BY DEF IInv, TypeOK, DeviceOK, Back
<1> QED
  BY <1>1, ExitToProfileInv DEF Back

\* The form was made from the user's own list, so the user stamped on the
\* updated beacon is its creator.
LEMMA UpdateBeaconInv ==
    ASSUME IInv, NEW d \in Devices, NEW text \in Texts, UpdateBeacon(d, text)
    PROVE  IInv'
<1> DEFINE b == [uid |-> who[d], text |-> text, located |-> fix[d]]
           r == <<Entry(form[d].key, b), [key |-> Nil, beacon |-> Nil, user |-> who[d]]>>
<1>1. form[d] # Nil /\ form[d].key \in Keys /\ who[d] \in Uids /\ fix[d] \in BOOLEAN
  BY DEF IInv, TypeOK, Form, DeviceOK, FormOK, UpdateBeacon
<1>2. b \in Beacon
  BY <1>1 DEF Beacon
<1>3. Entry(form[d].key, b) \in Write
  BY <1>1, <1>2 DEF Entry, Write
<1>4. [key |-> Nil, beacon |-> Nil, user |-> who[d]] \in Write
  BY <1>1 DEF Write
<1>5. WriteOK(d, Entry(form[d].key, b))
  <2>1. creator[form[d].key] = who[d]
    BY <1>1 DEF IInv, DeviceOK, FormOK
  <2> QED
    BY <1>1, <2>1, NilIsNoValue DEF WriteOK, Entry
<1>6. WriteOK(d, [key |-> Nil, beacon |-> Nil, user |-> who[d]])
  BY DEF WriteOK
<1> HIDE DEF b
<1>7. r \in Seq(Write) /\ QueueOK(d, r)
  BY <1>3, <1>4, <1>5, <1>6 DEF QueueOK
<1>8. Enqueue(d, r)
  BY DEF UpdateBeacon, b
<1> HIDE DEF r
<1>9. /\ pend' \in [Devices -> Seq(Write)]
      /\ QueueOK(d, pend'[d])
      /\ \A e \in Devices \ {d} : pend'[e] = pend[e]
  BY <1>7, <1>8, EnqueueOK
<1> QED
  BY <1>9, ExitToProfileInv DEF UpdateBeacon

\* Removing writes nothing under the selected key.
LEMMA RemoveBeaconInv ==
    ASSUME IInv, NEW d \in Devices, RemoveBeacon(d)
    PROVE  IInv'
<1> DEFINE w == Entry(form[d].key, Nil)
<1>1. form[d].key \in Keys
  BY DEF IInv, TypeOK, Form, DeviceOK, FormOK, RemoveBeacon
<1>2. w \in Write /\ WriteOK(d, w)
  BY <1>1 DEF Entry, Write, WriteOK
<1> HIDE DEF w
<1>3. <<w>> \in Seq(Write) /\ QueueOK(d, <<w>>)
  BY <1>2 DEF QueueOK
<1>4. Enqueue(d, <<w>>)
  BY DEF RemoveBeacon, w
<1>5. /\ pend' \in [Devices -> Seq(Write)]
      /\ QueueOK(d, pend'[d])
      /\ \A e \in Devices \ {d} : pend'[e] = pend[e]
  BY <1>3, <1>4, EnqueueOK
<1> QED
  BY <1>5, ExitToProfileInv DEF RemoveBeacon

\* Nothing refers to a key that was never drawn, so drawing it keeps the other
\* beacons owned.
LEMMA CreateBeaconInv ==
    ASSUME IInv, NEW d \in Devices, NEW k \in Keys, NEW text \in Texts,
           CreateBeacon(d, k, text)
    PROVE  IInv'
<1> DEFINE b == [uid |-> who[d], text |-> text, located |-> TRUE]
           w == Entry(k, b)
<1>1. who[d] \in Uids /\ creator \in [Keys -> Uids \cup {Nil}] /\ creator[k] = Nil
  BY DEF IInv, TypeOK, CreateBeacon
<1>2. /\ creator' \in [Keys -> Uids \cup {Nil}]
      /\ creator'[k] = who[d]
      /\ \A j \in Keys : j # k => creator'[j] = creator[j]
  BY <1>1 DEF CreateBeacon
<1>3. b \in Beacon
  BY <1>1 DEF Beacon
<1>4. w \in Write
  BY <1>3 DEF Entry, Write
<1>5. ASSUME NEW list \in Snapshot, Owned(list)
      PROVE  \A j \in Keys : list[j] # Nil => list[j].uid = creator'[j]
  <2>1. list[k] = Nil
    <3> SUFFICES ASSUME list[k] # Nil PROVE FALSE
      OBVIOUS
    <3>1. list[k].uid \in Uids /\ list[k].uid = Nil
      BY <1>1, <1>5 DEF Snapshot, Beacon, Owned
    <3> QED
      BY <3>1, NilIsNoValue
  <2> QED
    BY <1>2, <1>5, <2>1 DEF Owned
<1>6. ASSUME NEW e \in Devices, NEW v \in Write, WriteOK(e, v)
      PROVE  v.beacon # Nil => v.key # Nil /\ v.beacon.uid = creator'[v.key]
  <2> SUFFICES ASSUME v.beacon # Nil PROVE v.key # Nil /\ v.beacon.uid = creator'[v.key]
    OBVIOUS
  <2>1. v.key \in Keys /\ v.beacon.uid \in Uids /\ v.beacon.uid = creator[v.key]
    BY <1>6 DEF Write, Beacon, WriteOK
  <2>2. v.key # k /\ v.key # Nil
    BY <1>1, <2>1, NilIsNoValue
  <2> QED
    BY <1>2, <2>1, <2>2
<1> HIDE DEF b
<1>7. /\ pend' \in [Devices -> Seq(Write)]
      /\ pend'[d] = pend[d] \o <<w>>
      /\ \A e \in Devices \ {d} : pend'[e] = pend[e]
  <2>1. pend' = [pend EXCEPT ![d] = pend[d] \o <<w>>]
    BY DEF CreateBeacon, Enqueue, b
  <2> HIDE DEF w
  <2>2. pend \in [Devices -> Seq(Write)] /\ pend[d] \o <<w>> \in Seq(Write)
    BY <1>4 DEF IInv, TypeOK
  <2> QED
    BY <2>1, <2>2
<1>8. /\ screen' \in [Devices -> Screens]
      /\ listening' \in [Devices -> BOOLEAN]
      /\ waiting' \in [Devices -> [home : BOOLEAN, profile : Uids \cup {Nil}]]
      /\ screen'[d] = "home" /\ waiting'[d].profile = Nil
      /\ \A e \in Devices \ {d} : waiting'[e] = waiting[e] /\ screen'[e] = screen[e]
  BY HomeAppearsType DEF IInv, CreateBeacon
<1>9. TypeOK'
  BY <1>2, <1>7, <1>8 DEF IInv, TypeOK, CreateBeacon, local
<1>10. Owned(db)'
  BY <1>5 DEF IInv, TypeOK, Owned, CreateBeacon
<1>11. ASSUME NEW e \in Devices PROVE DeviceOK(e)'
  <2>1. Owned(home[e])' /\ (answer[e] # Nil => Owned(answer[e]))'
    <3>1. home[e] \in Snapshot /\ Owned(home[e])
      BY DEF IInv, TypeOK, DeviceOK
    <3>2. answer[e] # Nil => answer[e] \in Snapshot /\ Owned(answer[e])
      BY DEF IInv, TypeOK, DeviceOK
    <3> QED
      BY <1>5, <3>1, <3>2 DEF Owned, CreateBeacon, local
  <2>2. Mine(e, profile[e])'
    <3>1. profile[e] \in Snapshot /\ Mine(e, profile[e]) /\ who[e] \in Uids
      BY DEF IInv, TypeOK, DeviceOK
    <3>2. profile[e][k] = Nil
      BY <1>1, <3>1, NilIsNoValue DEF Mine
    <3> QED
      BY <1>2, <3>1, <3>2 DEF Mine, CreateBeacon, local
  <2>3. FormOK(e)'
    <3>1. FormOK(e) /\ who[e] \in Uids /\ (form[e] # Nil => form[e].key \in Keys)
      BY DEF IInv, TypeOK, Form, DeviceOK
    <3>2. form[e] # Nil => form[e].key # k
      BY <1>1, <3>1, NilIsNoValue DEF FormOK
    <3> QED
      BY <1>2, <1>8, <3>1, <3>2 DEF FormOK, CreateBeacon, local
  <2>4. QueueOK(e, pend[e])'
    <3>1. pend[e] \in Seq(Write) /\ QueueOK(e, pend[e])
      BY DEF IInv, TypeOK, DeviceOK
    <3>2. \A i \in 1 .. Len(pend[e]) : pend[e][i] \in Write
      BY <3>1
    <3>3. ASSUME NEW v \in Write, WriteOK(e, v)
          PROVE  /\ v.beacon # Nil => v.key # Nil /\ v.beacon.uid = creator'[v.key]
                 /\ v.user # Nil => v.user = who'[e]
      BY <1>6, <3>3 DEF WriteOK, CreateBeacon
    <3>4. \A i \in 1 .. Len(pend[e]) :
              /\ pend[e][i].beacon # Nil =>
                    pend[e][i].key # Nil /\ pend[e][i].beacon.uid = creator'[pend[e][i].key]
              /\ pend[e][i].user # Nil => pend[e][i].user = who'[e]
      BY <3>1, <3>2, <3>3 DEF QueueOK
    <3>5. CASE e # d
      BY <1>7, <3>4, <3>5 DEF QueueOK, WriteOK
    <3>6. CASE e = d
      <4> HIDE DEF w
      <4>1. \A i \in 1 .. Len(pend'[e]) :
                \/ i \in 1 .. Len(pend[e]) /\ pend'[e][i] = pend[e][i]
                \/ pend'[e][i] = w
        BY <3>1, <3>6, <1>4, <1>7
      <4>2. \A i \in 1 .. Len(pend'[e]) :
                /\ pend'[e][i].beacon # Nil =>
                      pend'[e][i].key # Nil /\ pend'[e][i].beacon.uid = creator'[pend'[e][i].key]
                /\ pend'[e][i].user # Nil => pend'[e][i].user = who'[e]
        <5> SUFFICES ASSUME NEW i \in 1 .. Len(pend'[e])
                     PROVE  /\ pend'[e][i].beacon # Nil =>
                                  /\ pend'[e][i].key # Nil
                                  /\ pend'[e][i].beacon.uid = creator'[pend'[e][i].key]
                            /\ pend'[e][i].user # Nil => pend'[e][i].user = who'[e]
          OBVIOUS
        <5>1. CASE i \in 1 .. Len(pend[e]) /\ pend'[e][i] = pend[e][i]
          BY <3>4, <5>1
        <5>2. CASE pend'[e][i] = w
          BY <1>1, <1>2, <5>2, NilIsNoValue DEF w, b, Entry
        <5> QED
          BY <4>1, <5>1, <5>2
      <4> QED
        BY <4>2 DEF QueueOK, WriteOK
    <3> QED
      BY <3>5, <3>6
  <2>5. (waiting[e].profile # Nil => waiting[e].profile = who[e])'
    BY <1>8 DEF IInv, DeviceOK, CreateBeacon
  <2> QED
    BY <2>1, <2>2, <2>3, <2>4, <2>5 DEF DeviceOK
<1> QED
  BY <1>9, <1>10, <1>11 DEF IInv

\* A careful user's account changes when no user's record is queued; what is queued for
\* beacons, and an answer on its way, is owned whoever is the current user.
LEMMA SwitchInv ==
    ASSUME IInv, NEW d \in Devices, NEW u \in Uids, Settled(d), SwitchUser(d, u)
    PROVE  IInv'
<1>1. NoBeacons \in Snapshot /\ \A k \in Keys : NoBeacons[k] = Nil
  BY DEF NoBeacons, Snapshot
<1>2. /\ screen' \in [Devices -> Screens]
      /\ listening' \in [Devices -> BOOLEAN]
      /\ waiting' \in [Devices -> [home : BOOLEAN, profile : Uids \cup {Nil}]]
      /\ screen'[d] = "home" /\ waiting'[d].profile = Nil
      /\ \A e \in Devices \ {d} : waiting'[e] = waiting[e] /\ screen'[e] = screen[e]
  BY HomeAppearsType DEF IInv, SwitchUser
<1>3. TypeOK'
  BY <1>1, <1>2 DEF IInv, TypeOK, SwitchUser
<1>4. home'[d] = NoBeacons /\ profile'[d] = NoBeacons /\ pend' = pend
  BY DEF IInv, TypeOK, SwitchUser
<1>5. form'[d] = form[d] /\ answer'[d] = answer[d] /\ creator' = creator
  BY DEF SwitchUser
<1>6. form[d] = Nil
  BY DEF IInv, DeviceOK, FormOK, SwitchUser
<1>8. QueueOK(d, pend[d])'
  <2>1. DOMAIN pend[d] = 1 .. Len(pend[d])
    BY DEF IInv, TypeOK
  <2>2. \A i \in 1 .. Len(pend[d]) : WriteOK(d, pend[d][i]) /\ pend[d][i].user = Nil
    BY <2>1 DEF IInv, DeviceOK, QueueOK, Settled
  <2> QED
    BY <1>4, <1>5, <2>2 DEF QueueOK, WriteOK
<1>7. DeviceOK(d)'
  BY <1>1, <1>2, <1>4, <1>5, <1>6, <1>8
     DEF IInv, DeviceOK, FormOK, Owned, Mine
<1> QED
  BY <1>2, <1>3, <1>7, DeviceStep DEF IInv, TypeOK, SwitchUser

\* The server has received some of the queued writes of a device that is killed.
LEMMA RestartInv ==
    ASSUME IInv, NEW d \in Devices, Restart(d)
    PROVE  IInv'
<1>1. NoBeacons \in Snapshot /\ \A k \in Keys : NoBeacons[k] = Nil
  BY DEF NoBeacons, Snapshot
<1>2. /\ screen' \in [Devices -> Screens]
      /\ listening' \in [Devices -> BOOLEAN]
      /\ waiting' \in [Devices -> [home : BOOLEAN, profile : Uids \cup {Nil}]]
      /\ screen'[d] = "home" /\ waiting'[d].profile = Nil
      /\ \A e \in Devices \ {d} : waiting'[e] = waiting[e] /\ screen'[e] = screen[e]
  BY HomeAppearsType DEF IInv, Restart
<1>3. access' \in [Devices -> Accesses] /\ db' \in Snapshot
  BY DEF IInv, TypeOK, Restart
<1>4. TypeOK'
  BY <1>1, <1>2, <1>3 DEF IInv, TypeOK, Restart
<1>5. /\ home'[d] = NoBeacons /\ profile'[d] = NoBeacons /\ pend'[d] = <<>>
      /\ form'[d] = Nil /\ answer'[d] = Nil
  BY DEF IInv, TypeOK, Restart
<1>6. DeviceOK(d)'
  BY <1>1, <1>2, <1>5 DEF DeviceOK, QueueOK, FormOK, Owned, Mine
<1>7. Owned(db)'
  <2>1. PICK n \in 0 .. Len(pend[d]) : Applied(SubSeq(pend[d], 1, n), db, db')
    BY DEF Restart
  <2>2. pend[d] \in Seq(Write) /\ QueueOK(d, pend[d]) /\ Owned(db)
    BY DEF IInv, TypeOK, DeviceOK
  <2>3. /\ SubSeq(pend[d], 1, n) \in Seq(Write)
        /\ Len(SubSeq(pend[d], 1, n)) = n
        /\ \A i \in 1 .. n : SubSeq(pend[d], 1, n)[i] = pend[d][i]
    BY <2>2
  <2>4. QueueOK(d, SubSeq(pend[d], 1, n))
    BY <2>2, <2>3 DEF QueueOK
  <2>5. Owned(db')
    BY <2>1, <2>2, <2>3, <2>4, AppliedOwned
  <2> QED
    BY <2>5 DEF Owned, Restart
<1> QED
  BY <1>2, <1>4, <1>6, <1>7, OtherDevices DEF IInv, TypeOK, Restart

\* A reply takes a write off the queue; the user it makes current is the one who
\* is current.
LEMMA ReplyOK ==
    ASSUME IInv, NEW d \in Devices, pend[d] # <<>>, Reply(d, Head(pend[d])),
           UNCHANGED creator, db' \in Snapshot
    PROVE  TypeOK' /\ UNCHANGED who /\ DeviceOK(d)'
           /\ \A e \in Devices \ {d} : pend'[e] = pend[e]
<1>1. pend[d] \in Seq(Write) /\ QueueOK(d, pend[d])
  BY DEF IInv, TypeOK, DeviceOK
<1>2. Head(pend[d]) = pend[d][1] /\ 1 \in 1 .. Len(pend[d])
  BY <1>1
<1>3. WriteOK(d, Head(pend[d]))
  BY <1>1, <1>2 DEF QueueOK
<1>4. who' = who
  BY <1>3 DEF IInv, TypeOK, WriteOK, Reply
<1>5. /\ Tail(pend[d]) \in Seq(Write)
      /\ \A i \in 1 .. Len(Tail(pend[d])) :
            i + 1 \in 1 .. Len(pend[d]) /\ Tail(pend[d])[i] = pend[d][i + 1]
  BY <1>1, <1>2
<1>6. QueueOK(d, Tail(pend[d]))
  BY <1>1, <1>5 DEF QueueOK
<1>7. /\ pend' \in [Devices -> Seq(Write)] /\ pend'[d] = Tail(pend[d])
      /\ \A e \in Devices \ {d} : pend'[e] = pend[e]
  BY <1>5 DEF IInv, TypeOK, Reply
<1>8. TypeOK'
  BY <1>4, <1>7 DEF IInv, TypeOK, Reply, local, read
<1>9. QueueOK(d, pend[d])'
  BY <1>4, <1>6, <1>7 DEF QueueOK, WriteOK
<1>10. DeviceOK(d)'
  BY <1>4, <1>9 DEF IInv, DeviceOK, FormOK, Owned, Mine, Reply, local, read
<1> QED
  BY <1>4, <1>7, <1>8, <1>10

\* The server applies the oldest write, which belongs to the creator of its key.
LEMMA AcceptInv ==
    ASSUME IInv, NEW d \in Devices, Accept(d)
    PROVE  IInv'
<1> DEFINE w == Head(pend[d])
<1>1. pend[d] \in Seq(Write) /\ QueueOK(d, pend[d]) /\ pend[d] # <<>>
  BY DEF IInv, TypeOK, DeviceOK, Accept
<1>2. w \in Write /\ WriteOK(d, w)
  BY <1>1 DEF QueueOK
<1>3. db' = IF w.key = Nil THEN db ELSE [db EXCEPT ![w.key] = w.beacon]
  BY DEF Accept
<1>4. Reply(d, w) /\ creator' = creator
  BY DEF Accept, Reply
<1> HIDE DEF w
<1>5. db' \in Snapshot
  BY <1>2, <1>3 DEF IInv, TypeOK, Snapshot, Write
<1>6. \A k \in Keys : db'[k] # Nil => db'[k].uid = creator[k]
  BY <1>2, <1>3 DEF IInv, TypeOK, Snapshot, Write, Owned, WriteOK
<1>7. Owned(db)'
  BY <1>4, <1>6 DEF Owned
<1>8. /\ TypeOK' /\ UNCHANGED who /\ DeviceOK(d)'
      /\ \A e \in Devices \ {d} : pend'[e] = pend[e]
  BY <1>1, <1>4, <1>5, ReplyOK DEF w
<1> QED
  BY <1>4, <1>7, <1>8, OtherDevices DEF Reply, local, read

\* The server drops the oldest write.
LEMMA RefuseInv ==
    ASSUME IInv, NEW d \in Devices, Refuse(d)
    PROVE  IInv'
<1>1. pend[d] # <<>> /\ Reply(d, Head(pend[d])) /\ db' \in Snapshot
      /\ UNCHANGED <<db, creator>>
  BY DEF IInv, TypeOK, Refuse, Reply
<1>2. /\ TypeOK' /\ UNCHANGED who /\ DeviceOK(d)'
      /\ \A e \in Devices \ {d} : pend'[e] = pend[e]
  BY <1>1, ReplyOK
<1> QED
  BY <1>1, <1>2, DeviceStep DEF Reply, local, read

\* The server's answer to the listen is its list.
LEMMA AnswerInv ==
    ASSUME IInv, NEW d \in Devices, Answer(d)
    PROVE  IInv'
<1>1. answer' \in [Devices -> Snapshot \cup {Nil}] /\ answer'[d] = db
      /\ \A e \in Devices \ {d} : answer'[e] = answer[e]
  BY DEF IInv, TypeOK, Answer
<1>2. TypeOK'
  BY <1>1 DEF IInv, TypeOK, Answer, local
<1>3. DeviceOK(d)'
  BY <1>1 DEF IInv, DeviceOK, QueueOK, WriteOK, FormOK, Owned, Mine, Answer, local
<1> QED
  BY <1>1, <1>2, <1>3, DeviceStep DEF Answer, local

\* The answer was the database's list, and the device's queue is in order.
LEMMA ArriveInv ==
    ASSUME IInv, NEW d \in Devices, Arrive(d)
    PROVE  IInv'
<1>1. PICK view \in Snapshot :
          /\ Applied(pend[d], answer[d], view)
          /\ home' = IF waiting[d].home THEN [home EXCEPT ![d] = view] ELSE home
          /\ profile' = IF waiting[d].profile = Nil THEN profile
                        ELSE [profile EXCEPT ![d] = Own(view, waiting[d].profile)]
  BY DEF Arrive
<1>2. Owned(view)
  <2>1. pend[d] \in Seq(Write) /\ QueueOK(d, pend[d]) /\ Owned(answer[d])
    BY DEF IInv, TypeOK, DeviceOK, Arrive
  <2> QED
    BY <1>1, <2>1, AppliedOwned
<1>3. Own(view, who[d]) \in Snapshot /\ Mine(d, Own(view, who[d]))
  BY <1>2, OwnMine
<1>4. home' \in [Devices -> Snapshot] /\ Owned(home'[d])
      /\ \A e \in Devices \ {d} : home'[e] = home[e]
  BY <1>1, <1>2 DEF IInv, TypeOK, DeviceOK
<1>5. profile' \in [Devices -> Snapshot] /\ Mine(d, profile'[d])
      /\ \A e \in Devices \ {d} : profile'[e] = profile[e]
  <2>1. CASE waiting[d].profile = Nil
    BY <1>1, <2>1 DEF IInv, TypeOK, DeviceOK
  <2>2. CASE waiting[d].profile # Nil
    <3>1. profile' = [profile EXCEPT ![d] = Own(view, who[d])]
      BY <1>1, <2>2 DEF IInv, DeviceOK
    <3> QED
      BY <1>3, <3>1 DEF IInv, TypeOK
  <2> QED
    BY <2>1, <2>2
<1>6. /\ waiting' \in [Devices -> [home : BOOLEAN, profile : Uids \cup {Nil}]]
      /\ listening' \in [Devices -> BOOLEAN]
      /\ answer' \in [Devices -> Snapshot \cup {Nil}]
      /\ waiting'[d].profile = Nil /\ answer'[d] = Nil
      /\ \A e \in Devices \ {d} : waiting'[e] = waiting[e] /\ answer'[e] = answer[e]
  BY DEF IInv, TypeOK, Arrive
<1>7. TypeOK'
  BY <1>4, <1>5, <1>6 DEF IInv, TypeOK, Arrive
<1>8. Owned(home[d])' /\ Mine(d, profile[d])'
  BY <1>4, <1>5 DEF Owned, Mine, Arrive
<1>9. DeviceOK(d)'
  BY <1>6, <1>8 DEF IInv, DeviceOK, QueueOK, WriteOK, FormOK, Arrive
<1> QED
  BY <1>4, <1>5, <1>6, <1>7, <1>9, DeviceStep DEF Arrive

\* A refused read only drops the observers.
LEMMA ReadRefusedInv ==
    ASSUME IInv, NEW d \in Devices, ReadRefused(d)
    PROVE  IInv'
<1>1. /\ waiting' \in [Devices -> [home : BOOLEAN, profile : Uids \cup {Nil}]]
      /\ listening' \in [Devices -> BOOLEAN]
      /\ waiting'[d].profile = Nil
      /\ \A e \in Devices \ {d} : waiting'[e] = waiting[e]
  BY DEF IInv, TypeOK, ReadRefused
<1>2. TypeOK'
  BY <1>1 DEF IInv, TypeOK, ReadRefused, local
<1>3. DeviceOK(d)'
  BY <1>1 DEF IInv, DeviceOK, QueueOK, WriteOK, FormOK, Owned, Mine, ReadRefused, local
<1> QED
  BY <1>1, <1>2, <1>3, DeviceStep DEF ReadRefused, local

\* The invariant is inductive under careful users.
LEMMA StepInv == IInv /\ [CarefulNext]_vars => IInv'
<1> SUFFICES ASSUME IInv, [CarefulNext]_vars PROVE IInv'
  OBVIOUS
<1>1. CASE UNCHANGED vars
  BY <1>1 DEF vars, local, read, IInv, TypeOK, DeviceOK, QueueOK, WriteOK, FormOK, Owned, Mine
<1>2. ASSUME NEW d \in Devices, Browse(d) PROVE IInv'
  BY <1>2, LeaveInv, ExitToHomeInv, LocationFixInv, BackInv DEF Browse
<1>3. ASSUME NEW d \in Devices, Edit(d) PROVE IInv'
  BY <1>3, UpdateBeaconInv, RemoveBeaconInv, CreateBeaconInv DEF Edit
<1>4. ASSUME NEW d \in Devices, Visit(d) PROVE IInv'
  BY <1>4, OpenProfileInv, SelectInv DEF Visit
<1>5. ASSUME NEW d \in Devices, Server(d) PROVE IInv'
  BY <1>5, AcceptInv, AnswerInv, ArriveInv DEF Server
<1>6. ASSUME NEW d \in Devices, Act(d) PROVE IInv'
  BY <1>2, <1>3, <1>4, <1>5, <1>6, RefuseInv, ReadRefusedInv DEF Act, Served
<1>7. ASSUME NEW d \in Devices, Settled(d), Switch(d) PROVE IInv'
  BY <1>7, SwitchInv DEF Switch
<1> QED
  BY <1>1, <1>6, <1>7, RestartInv DEF CarefulNext

\* Every reachable state satisfies the invariant.
THEOREM Invariance == CarefulSpec => []IInv
BY InitInv, StepInv, PTL DEF CarefulSpec

\* Every variable keeps its type, whatever the users do in whatever order.
THEOREM TypeCorrect == CarefulSpec => []TypeOK
<1>1. IInv => TypeOK
  BY DEF IInv
<1> QED
  BY <1>1, Invariance, PTL

\* Wherever a beacon occurs, it belongs to the account that created it: no list,
\* form or queue of UpdateController, HomeController and ProfileController hands
\* it to another, unless the account is changed while the write of an edited user's
\* record is unanswered.
THEOREM OwnerKept == CarefulSpec => []OneOwner
<1>1. IInv => OneOwner
  <2> SUFFICES ASSUME IInv PROVE OneOwner
    OBVIOUS
  <2>1. ASSUME NEW d \in Devices PROVE DOMAIN pend[d] = 1 .. Len(pend[d])
    <3>1. pend[d] \in Seq(Write)
      BY DEF IInv, TypeOK
    <3> QED
      BY <3>1
  <2> QED
    BY <2>1 DEF IInv, DeviceOK, QueueOK, WriteOK, FormOK, Owned, Mine, OneOwner
<1> QED
  BY <1>1, Invariance, PTL

-------------------------------------------------------------------------------
(* Patient users *)

\* What the writes of q make of a value at key k.
Shown(q, k, before, after) ==
    LET mine == {i \in DOMAIN q : q[i].key = k}
    IN  \/ mine = {} /\ after = before
        \/ \E i \in mine : /\ \A j \in mine : j <= i
                           /\ after = q[i].beacon

\* A list shows the beacons of the device's user as the database has them under
\* the writes that are still queued.
Exact(d, list) ==
    \A k \in Keys : creator[k] = who[d] => Shown(pend[d], k, db[k], list[k])

\* A device writes, and removes, only beacons of its user.
OwnWrites(d) ==
    \A i \in 1 .. Len(pend[d]) :
        pend[d][i].key # Nil => creator[pend[d][i].key] = who[d]

\* No write of the user's beacons reaches the server while an answer is on its way.
AnswerIsCurrent(d) ==
    answer[d] # Nil =>
        /\ listening[d]
        /\ \A k \in Keys : creator[k] = who[d] => answer[d][k] = db[k]

HomeIsExact(d) == screen[d] = "home" /\ ~waiting[d].home => Exact(d, home[d])

ProfileIsExact(d) ==
    /\ screen[d] \in {"profile", "update"} /\ ~edited[d] /\ waiting[d].profile = Nil =>
          Exact(d, profile[d])
    /\ waiting[d].profile # Nil => screen[d] = "profile" /\ profile[d] = NoBeacons

\* The form shows what Profile shows.
FormIsProfiles(d) ==
    form[d] # Nil =>
        /\ ~edited[d] /\ waiting[d].profile = Nil
        /\ profile[d][form[d].key] # Nil
        /\ profile[d][form[d].key].text = form[d].text

PatientOK(d) ==
    /\ OwnWrites(d) /\ AnswerIsCurrent(d)
    /\ HomeIsExact(d) /\ ProfileIsExact(d) /\ FormIsProfiles(d)

\* One device at a time for an account.
Apart == \A d, e \in Devices : who[d] = who[e] => d = e

PInv ==
    /\ IInv
    /\ edited \in [Devices -> BOOLEAN]
    /\ Apart
    /\ \A d \in Devices : PatientOK(d)

\* Devices that just show Home know nothing yet.
LEMMA InitPInv == PatientInit => PInv
<1> SUFFICES ASSUME PatientInit PROVE PInv
  OBVIOUS
<1>1. Init /\ IInv
  BY InitInv DEF PatientInit
<1>2. edited \in [Devices -> BOOLEAN] /\ Apart
  BY DEF PatientInit, Apart
<1>3. ASSUME NEW d \in Devices PROVE PatientOK(d)
  BY <1>1, <1>3 DEF Init, PatientOK, OwnWrites, AnswerIsCurrent, HomeIsExact, ProfileIsExact,
     FormIsProfiles
<1> QED
  BY <1>1, <1>2, <1>3 DEF PInv

\* A patient user is careful.
LEMMA PatientIsCareful == [PatientNext]_pvars => [CarefulNext]_vars
<1>1. ASSUME NEW d \in Devices, Browse(d) \/ Edit(d) \/ Visit(d) \/ Server(d) PROVE CarefulNext
  BY <1>1 DEF CarefulNext, Act, Served
<1>2. ASSUME NEW d \in Devices, NEW u \in Uids, Quiet(d), SwitchUser(d, u) PROVE CarefulNext
  BY <1>2 DEF CarefulNext, Switch, Settled, Quiet
<1>3. ASSUME NEW d \in Devices, Restart(d) PROVE CarefulNext
  BY <1>3 DEF CarefulNext
<1>4. UNCHANGED pvars => UNCHANGED vars
  BY DEF pvars
<1> QED
  BY <1>1, <1>2, <1>3, <1>4 DEF PatientNext

\* A device is not concerned by what others do with beacons of their own users.
LEMMA OtherPatients ==
    ASSUME PInv, NEW d \in Devices, NEW e \in Devices \ {d},
           /\ who'[e] = who[e] /\ screen'[e] = screen[e]
           /\ home'[e] = home[e] /\ profile'[e] = profile[e] /\ form'[e] = form[e]
           /\ pend'[e] = pend[e] /\ answer'[e] = answer[e] /\ waiting'[e] = waiting[e]
           /\ listening'[e] = listening[e] /\ edited'[e] = edited[e],
           \A k \in Keys : (creator'[k] = who[e]) <=> (creator[k] = who[e]),
           \A k \in Keys : creator[k] = who[e] => db'[k] = db[k]
    PROVE  PatientOK(e)'
<1>1. PatientOK(e) /\ pend[e] \in Seq(Write)
  BY DEF PInv, IInv, TypeOK
<1>2. OwnWrites(e)'
  <2>1. \A i \in 1 .. Len(pend[e]) : pend[e][i].key \in Keys \cup {Nil}
    <3>1. \A w \in Write : w.key \in Keys \cup {Nil}
      BY DEF Write
    <3> QED
      BY <1>1, <3>1
  <2> QED
    BY <1>1, <2>1 DEF PatientOK, OwnWrites
<1>3. ASSUME NEW list, Exact(e, list)
      PROVE  \A k \in Keys : creator'[k] = who'[e] => Shown(pend'[e], k, db'[k], list[k])
  BY <1>3 DEF Exact
<1>4. AnswerIsCurrent(e)'
  BY <1>1 DEF PatientOK, AnswerIsCurrent
<1>5. HomeIsExact(e)'
  BY <1>1, <1>3 DEF PatientOK, HomeIsExact, Exact
<1>6. ProfileIsExact(e)'
  BY <1>1, <1>3 DEF PatientOK, ProfileIsExact, Exact
<1>7. FormIsProfiles(e)'
  BY <1>1 DEF PatientOK, FormIsProfiles
<1> QED
  BY <1>2, <1>4, <1>5, <1>6, <1>7 DEF PatientOK

\* A step of one device that changes no creator and no account.
LEMMA PatientStep ==
    ASSUME PInv, IInv', NEW d \in Devices, UNCHANGED <<creator, who>>,
           edited' \in [Devices -> BOOLEAN],
           \A e \in Devices \ {d} :
               /\ screen'[e] = screen[e]
               /\ home'[e] = home[e] /\ profile'[e] = profile[e] /\ form'[e] = form[e]
               /\ pend'[e] = pend[e] /\ answer'[e] = answer[e] /\ waiting'[e] = waiting[e]
               /\ listening'[e] = listening[e] /\ edited'[e] = edited[e],
           \A k \in Keys : creator[k] # who[d] => db'[k] = db[k],
           PatientOK(d)'
    PROVE  PInv'
<1>1. ASSUME NEW e \in Devices \ {d} PROVE PatientOK(e)'
  <2>1. who[e] # who[d]
    BY DEF PInv, Apart
  <2> QED
    BY <2>1, OtherPatients
<1>2. Apart'
  BY DEF PInv, Apart
<1> QED
  BY <1>1, <1>2 DEF PInv

\* Home appearing waits for a list of its own.
LEMMA HomeAppearsFrame ==
    ASSUME TypeOK, NEW d \in Devices, HomeAppears(d)
    PROVE  /\ screen'[d] = "home" /\ waiting'[d] = [home |-> TRUE, profile |-> Nil]
           /\ listening'[d] = TRUE
           /\ \A e \in Devices \ {d} : /\ waiting'[e] = waiting[e] /\ screen'[e] = screen[e]
                                       /\ listening'[e] = listening[e]
BY DEF TypeOK, HomeAppears

\* Profile appearing waits for a list if it has none.
LEMMA ProfileAppearsFrame ==
    ASSUME TypeOK, NEW d \in Devices, ProfileAppears(d)
    PROVE  /\ screen'[d] = "profile"
           /\ profile'[d] = NoBeacons => waiting'[d].profile = who[d] /\ listening'[d] = TRUE
           /\ profile'[d] # NoBeacons => UNCHANGED <<waiting, listening>>
           /\ \A e \in Devices \ {d} : /\ waiting'[e] = waiting[e] /\ screen'[e] = screen[e]
                                       /\ listening'[e] = listening[e]
<1>1. /\ screen'[d] = "profile" /\ \A e \in Devices \ {d} : screen'[e] = screen[e]
  BY DEF TypeOK, ProfileAppears
<1>2. CASE profile'[d] = NoBeacons
  <2>1. /\ waiting' = [waiting EXCEPT ![d].profile = who[d]]
        /\ listening' = [listening EXCEPT ![d] = TRUE]
    BY <1>2 DEF ProfileAppears
  <2>2. waiting'[d].profile = who[d] /\ \A e \in Devices \ {d} : waiting'[e] = waiting[e]
    BY <2>1 DEF TypeOK
  <2>3. listening'[d] = TRUE /\ \A e \in Devices \ {d} : listening'[e] = listening[e]
    BY <2>1 DEF TypeOK
  <2> QED
    BY <1>1, <1>2, <2>2, <2>3
<1>3. CASE profile'[d] # NoBeacons
  BY <1>1, <1>3 DEF ProfileAppears
<1> QED
  BY <1>2, <1>3

\* Leaving Home, or a location fix.
LEMMA ElsewherePatient ==
    ASSUME PInv, IInv', NEW d \in Devices, (\E to \in Screens : Leave(d, to)) \/ LocationFix(d),
           edited' = [edited EXCEPT ![d] = @ /\ screen'[d] # "home"]
    PROVE  PInv'
<1>1. /\ UNCHANGED <<db, creator, who, home, profile, form, pend, listening, answer, waiting>>
      /\ \/ screen[d] = "home" /\ screen'[d] \in {"create", "details"}
         \/ screen[d] = "update" /\ screen' = screen
      /\ \A e \in Devices \ {d} : screen'[e] = screen[e]
  <2>1. CASE \E to \in Screens : Leave(d, to)
    BY <2>1 DEF PInv, IInv, TypeOK, Leave, local, read
  <2>2. CASE LocationFix(d)
    BY <2>2 DEF LocationFix, read
  <2> QED
    BY <2>1, <2>2
<1>2. /\ edited' \in [Devices -> BOOLEAN] /\ edited'[d] = edited[d]
      /\ \A e \in Devices \ {d} : edited'[e] = edited[e]
  BY <1>1 DEF PInv
<1>3. form[d] # Nil => screen[d] = "update"
  BY DEF PInv, IInv, DeviceOK, FormOK
<1>4. PatientOK(d)
  BY DEF PInv
<1>5. PatientOK(d)'
  BY <1>1, <1>2, <1>4 DEF PatientOK, OwnWrites, AnswerIsCurrent, HomeIsExact, ProfileIsExact,
     FormIsProfiles, Exact
<1> QED
  BY <1>1, <1>2, <1>5, PatientStep

\* Home appears again and asks for its list.
LEMMA ExitToHomePatient ==
    ASSUME PInv, IInv', NEW d \in Devices, ExitToHome(d),
           edited' = [edited EXCEPT ![d] = @ /\ screen'[d] # "home"]
    PROVE  PInv'
<1>1. /\ screen'[d] = "home" /\ waiting'[d] = [home |-> TRUE, profile |-> Nil]
      /\ listening'[d] = TRUE
      /\ \A e \in Devices \ {d} : /\ waiting'[e] = waiting[e] /\ screen'[e] = screen[e]
                                  /\ listening'[e] = listening[e]
  BY HomeAppearsFrame DEF PInv, IInv, ExitToHome
<1>2. /\ UNCHANGED <<db, creator, who, home, form, pend, answer>>
      /\ profile' = [profile EXCEPT ![d] = NoBeacons]
  BY DEF ExitToHome
<1>3. \A e \in Devices \ {d} : profile'[e] = profile[e]
  BY <1>2 DEF PInv, IInv, TypeOK
<1>4. edited' \in [Devices -> BOOLEAN] /\ \A e \in Devices \ {d} : edited'[e] = edited[e]
  BY <1>1 DEF PInv
<1>5. form[d] = Nil
  BY DEF PInv, IInv, DeviceOK, FormOK, ExitToHome
<1>6. PatientOK(d)
  BY DEF PInv
<1>7. PatientOK(d)'
  BY <1>1, <1>2, <1>5, <1>6 DEF PatientOK, OwnWrites, AnswerIsCurrent, HomeIsExact,
     ProfileIsExact, FormIsProfiles
<1> QED
  BY <1>1, <1>2, <1>3, <1>4, <1>7, PatientStep

\* Leaving Update: Profile keeps its list and, after an edit, is not to be trusted.
LEMMA ExitToProfilePatient ==
    ASSUME PInv, IInv', NEW d \in Devices, ExitToProfile(d), screen[d] = "update",
           UNCHANGED <<db, creator, who, home, answer>>,
           \A e \in Devices \ {d} : pend'[e] = pend[e],
           OwnWrites(d)',
           edited' \in [Devices -> BOOLEAN], \A e \in Devices \ {d} : edited'[e] = edited[e],
           edited'[d] \/ (edited'[d] = edited[d] /\ pend' = pend)
    PROVE  PInv'
<1>1. /\ screen'[d] = "profile"
      /\ profile'[d] = NoBeacons => waiting'[d].profile = who[d] /\ listening'[d] = TRUE
      /\ profile'[d] # NoBeacons => UNCHANGED <<waiting, listening>>
      /\ \A e \in Devices \ {d} : /\ waiting'[e] = waiting[e] /\ screen'[e] = screen[e]
                                  /\ listening'[e] = listening[e]
  BY ProfileAppearsFrame DEF PInv, IInv, ExitToProfile
<1>2. profile' = profile /\ form'[d] = Nil /\ \A e \in Devices \ {d} : form'[e] = form[e]
  BY DEF PInv, IInv, TypeOK, ExitToProfile
<1>3. PatientOK(d) /\ who[d] # Nil
  BY NilIsNoValue DEF PInv, IInv, TypeOK
<1>4. AnswerIsCurrent(d)'
  BY <1>1, <1>3 DEF PatientOK, AnswerIsCurrent
<1>5. HomeIsExact(d)' /\ FormIsProfiles(d)'
  BY <1>1, <1>2 DEF HomeIsExact, FormIsProfiles
<1>6. ProfileIsExact(d)'
  BY <1>1, <1>2, <1>3 DEF PatientOK, ProfileIsExact, Exact
<1>7. PatientOK(d)'
  BY <1>4, <1>5, <1>6 DEF PatientOK
<1> QED
  BY <1>1, <1>2, <1>7, PatientStep

\* A patient user browses.
LEMMA BrowsePatient ==
    ASSUME PInv, IInv', NEW d \in Devices, Browse(d),
           edited' = [edited EXCEPT ![d] = @ /\ screen'[d] # "home"]
    PROVE  PInv'
<1>1. CASE Back(d)
  <2>1. screen'[d] = "profile"
    BY <1>1, ProfileAppearsFrame DEF PInv, IInv, Back, ExitToProfile
  <2>2. /\ edited' \in [Devices -> BOOLEAN] /\ edited'[d] = edited[d]
        /\ \A e \in Devices \ {d} : edited'[e] = edited[e]
    BY <2>1 DEF PInv
  <2>3. /\ ExitToProfile(d) /\ screen[d] = "update"
        /\ UNCHANGED <<db, creator, who, home, pend, answer>>
    BY <1>1 DEF Back
  <2>4. OwnWrites(d)'
    BY <2>3 DEF PInv, PatientOK, OwnWrites
  <2> QED
    BY <2>2, <2>3, <2>4, ExitToProfilePatient
<1> QED
  BY <1>1, ElsewherePatient, ExitToHomePatient DEF Browse

\* Writes of the user's own beacons join the queue.
LEMMA EnqueueOwn ==
    ASSUME PInv, NEW d \in Devices, NEW r \in Seq(Write), Enqueue(d, r),
           \A i \in 1 .. Len(r) : r[i].key # Nil => creator'[r[i].key] = who[d],
           who' = who, \A k \in Keys : creator[k] = who[d] => creator'[k] = who[d]
    PROVE  OwnWrites(d)' /\ \A e \in Devices \ {d} : pend'[e] = pend[e]
<1>1. pend[d] \in Seq(Write) /\ OwnWrites(d)
  BY DEF PInv, IInv, TypeOK, PatientOK
<1>2. /\ pend'[d] = pend[d] \o r
      /\ \A e \in Devices \ {d} : pend'[e] = pend[e]
  BY DEF PInv, IInv, TypeOK, Enqueue
<1>3. \A w \in Write : w.key \in Keys \cup {Nil}
  BY DEF Write
<1>4. \A i \in 1 .. Len(pend[d] \o r) :
          \/ i \in 1 .. Len(pend[d]) /\ (pend[d] \o r)[i] = pend[d][i] /\ pend[d][i] \in Write
          \/ i - Len(pend[d]) \in 1 .. Len(r) /\ (pend[d] \o r)[i] = r[i - Len(pend[d])]
  BY <1>1
<1>5. \A i \in 1 .. Len(pend[d] \o r) :
          (pend[d] \o r)[i].key # Nil => creator'[(pend[d] \o r)[i].key] = who[d]
  BY <1>1, <1>3, <1>4 DEF OwnWrites
<1> QED
  BY <1>2, <1>5 DEF OwnWrites

\* After an edit Profile is left.
LEMMA EditPatient ==
    ASSUME PInv, IInv', NEW d \in Devices, Edit(d),
           edited' = [edited EXCEPT ![d] = screen'[d] = "profile"]
    PROVE  PInv'
<1>0. /\ edited' \in [Devices -> BOOLEAN] /\ edited'[d] = (screen'[d] = "profile")
      /\ \A e \in Devices \ {d} : edited'[e] = edited[e]
  BY DEF PInv
<1>1. ASSUME NEW text \in Texts, UpdateBeacon(d, text) PROVE PInv'
  <2> DEFINE b == [uid |-> who[d], text |-> text, located |-> fix[d]]
             w == Entry(form[d].key, b)
             v == [key |-> Nil, beacon |-> Nil, user |-> who[d]]
  <2>1. /\ form[d] # Nil /\ form[d].key \in Keys /\ who[d] \in Uids /\ fix[d] \in BOOLEAN
        /\ creator[form[d].key] = who[d]
    BY <1>1 DEF PInv, IInv, TypeOK, Form, DeviceOK, FormOK, UpdateBeacon
  <2>2. b \in Beacon
    BY <2>1 DEF Beacon
  <2>3. w \in Write /\ v \in Write /\ w.key = form[d].key /\ v.key = Nil
    BY <2>1, <2>2 DEF Entry, Write
  <2>4. /\ Enqueue(d, <<w, v>>) /\ ExitToProfile(d) /\ screen[d] = "update"
        /\ UNCHANGED <<db, creator, who, home, answer>>
    BY <1>1 DEF UpdateBeacon
  <2> HIDE DEF w, v
  <2>5. OwnWrites(d)' /\ \A e \in Devices \ {d} : pend'[e] = pend[e]
    <3>1. <<w, v>> \in Seq(Write)
          /\ \A i \in 1 .. Len(<<w, v>>) :
                <<w, v>>[i].key # Nil => creator'[<<w, v>>[i].key] = who[d]
      BY <2>1, <2>3, <2>4
    <3> QED
      BY <2>4, <3>1, EnqueueOwn
  <2>6. edited'[d]
    BY <1>0, <2>4, ProfileAppearsFrame DEF PInv, IInv, ExitToProfile
  <2> QED
    BY <1>0, <2>4, <2>5, <2>6, ExitToProfilePatient
<1>2. CASE RemoveBeacon(d)
  <2> DEFINE w == Entry(form[d].key, Nil)
  <2>1. form[d] # Nil /\ form[d].key \in Keys /\ creator[form[d].key] = who[d]
    BY <1>2 DEF PInv, IInv, TypeOK, Form, DeviceOK, FormOK, RemoveBeacon
  <2>2. w \in Write /\ w.key = form[d].key
    BY <2>1 DEF Entry, Write
  <2>3. /\ Enqueue(d, <<w>>) /\ ExitToProfile(d) /\ screen[d] = "update"
        /\ UNCHANGED <<db, creator, who, home, answer>>
    BY <1>2 DEF RemoveBeacon
  <2> HIDE DEF w
  <2>4. OwnWrites(d)' /\ \A e \in Devices \ {d} : pend'[e] = pend[e]
    <3>1. <<w>> \in Seq(Write)
          /\ \A i \in 1 .. Len(<<w>>) :
                <<w>>[i].key # Nil => creator'[<<w>>[i].key] = who[d]
      BY <2>1, <2>2, <2>3
    <3> QED
      BY <2>3, <3>1, EnqueueOwn
  <2>5. edited'[d]
    BY <1>0, <2>3, ProfileAppearsFrame DEF PInv, IInv, ExitToProfile
  <2> QED
    BY <1>0, <2>3, <2>4, <2>5, ExitToProfilePatient
<1>3. ASSUME NEW k \in Keys, NEW text \in Texts, CreateBeacon(d, k, text) PROVE PInv'
  <2> DEFINE b == [uid |-> who[d], text |-> text, located |-> TRUE]
             w == Entry(k, b)
  <2>1. /\ who \in [Devices -> Uids] /\ creator \in [Keys -> Uids \cup {Nil}]
        /\ creator[k] = Nil /\ db \in Snapshot
    BY <1>3 DEF PInv, IInv, TypeOK, CreateBeacon
  <2>2. /\ creator'[k] = who[d] /\ \A j \in Keys \ {k} : creator'[j] = creator[j]
        /\ UNCHANGED <<db, who, home, profile, form, answer>>
        /\ Enqueue(d, <<w>>)
    BY <1>3, <2>1 DEF CreateBeacon, local
  <2>3. w \in Write /\ w.key = k
    BY <2>1 DEF Entry, Write, Beacon
  <2> HIDE DEF w
  <2>4. OwnWrites(d)' /\ \A e \in Devices \ {d} : pend'[e] = pend[e]
    <3>1. <<w>> \in Seq(Write)
          /\ \A i \in 1 .. Len(<<w>>) :
                <<w>>[i].key # Nil => creator'[<<w>>[i].key] = who[d]
      BY <2>2, <2>3
    <3>2. \A j \in Keys : creator[j] = who[d] => creator'[j] = who[d]
      BY <2>2
    <3> QED
      BY <2>2, <3>1, <3>2, EnqueueOwn
  <2>5. /\ screen'[d] = "home" /\ waiting'[d] = [home |-> TRUE, profile |-> Nil]
        /\ listening'[d] = TRUE
        /\ \A e \in Devices \ {d} : /\ waiting'[e] = waiting[e] /\ screen'[e] = screen[e]
                                    /\ listening'[e] = listening[e]
    BY <1>3, HomeAppearsFrame DEF PInv, IInv, CreateBeacon
  <2>6. PatientOK(d)'
    <3>1. PatientOK(d) /\ form[d] = Nil
      BY <1>3 DEF PInv, IInv, DeviceOK, FormOK, CreateBeacon
    <3>2. \A list \in Snapshot : Owned(list) => list[k] = Nil
      <4> SUFFICES ASSUME NEW list \in Snapshot, Owned(list), list[k] # Nil PROVE FALSE
        OBVIOUS
      <4>1. list[k].uid \in Uids /\ list[k].uid = Nil
        BY <2>1 DEF Snapshot, Beacon, Owned
      <4> QED
        BY <4>1, NilIsNoValue
    <3>3. answer[d] # Nil => answer[d][k] = db[k]
      BY <2>1, <3>2 DEF PInv, IInv, TypeOK, DeviceOK
    <3>4. AnswerIsCurrent(d)'
      BY <2>2, <2>5, <3>1, <3>3 DEF PatientOK, AnswerIsCurrent
    <3>5. HomeIsExact(d)' /\ ProfileIsExact(d)' /\ FormIsProfiles(d)'
      BY <2>2, <2>5, <3>1 DEF HomeIsExact, ProfileIsExact, FormIsProfiles
    <3> QED
      BY <2>4, <3>4, <3>5 DEF PatientOK
  <2>7. ASSUME NEW e \in Devices \ {d} PROVE PatientOK(e)'
    <3>1. who[e] # who[d] /\ who[e] \in Uids
      BY <2>1 DEF PInv, Apart
    <3>2. \A j \in Keys : (creator'[j] = who[e]) <=> (creator[j] = who[e])
      BY <2>1, <2>2, <3>1, NilIsNoValue
    <3> QED
      BY <1>0, <2>2, <2>4, <2>5, <3>2, OtherPatients
  <2> QED
    BY <1>0, <2>2, <2>6, <2>7 DEF PInv, Apart
<1> QED
  BY <1>1, <1>2, <1>3 DEF Edit

\* The user's part of an exact list is exact, and the user's own.
LEMMA OwnExact ==
    ASSUME NEW d \in Devices, NEW list \in Snapshot, Owned(list), Exact(d, list)
    PROVE  Exact(d, Own(list, who[d]))
<1> SUFFICES ASSUME NEW k \in Keys, creator[k] = who[d]
             PROVE  Shown(pend[d], k, db[k], Own(list, who[d])[k])
  BY DEF Exact
<1>1. Own(list, who[d])[k] = list[k]
  BY DEF Own, Owned
<1> QED
  BY <1>1 DEF Exact

\* Profile is opened with the user's part of an exact list, and Update with a
\* beacon of Profile.
LEMMA VisitPatient ==
    ASSUME PInv, IInv', NEW d \in Devices, ~waiting[d].home, ~edited[d], Visit(d),
           UNCHANGED edited
    PROVE  PInv'
<1>0. PatientOK(d) /\ edited' \in [Devices -> BOOLEAN]
  BY DEF PInv
<1>1. CASE OpenProfile(d)
  <2>1. /\ screen'[d] = "profile"
        /\ profile'[d] = NoBeacons => waiting'[d].profile = who[d] /\ listening'[d] = TRUE
        /\ profile'[d] # NoBeacons => UNCHANGED <<waiting, listening>>
        /\ \A e \in Devices \ {d} : /\ waiting'[e] = waiting[e] /\ screen'[e] = screen[e]
                                    /\ listening'[e] = listening[e]
    BY <1>1, ProfileAppearsFrame DEF PInv, IInv, OpenProfile
  <2>2. /\ screen[d] = "home"
        /\ profile'[d] = Own(home[d], who[d])
        /\ \A e \in Devices \ {d} : profile'[e] = profile[e]
        /\ UNCHANGED <<db, creator, who, home, form, pend, answer>>
    BY <1>1 DEF PInv, IInv, TypeOK, OpenProfile
  <2>3. Exact(d, Own(home[d], who[d]))
    <3>1. home[d] \in Snapshot /\ Owned(home[d]) /\ Exact(d, home[d])
      BY <1>0, <2>2 DEF PInv, IInv, TypeOK, DeviceOK, PatientOK, HomeIsExact
    <3> QED
      BY <3>1, OwnExact
  <2>4. form[d] = Nil /\ who[d] # Nil
    BY <2>2, NilIsNoValue DEF PInv, IInv, TypeOK, DeviceOK, FormOK
  <2>5. OwnWrites(d)' /\ AnswerIsCurrent(d)'
    BY <1>0, <2>1, <2>2 DEF PatientOK, OwnWrites, AnswerIsCurrent
  <2>6. HomeIsExact(d)' /\ FormIsProfiles(d)'
    BY <2>1, <2>2, <2>4 DEF HomeIsExact, FormIsProfiles
  <2>7. waiting[d].profile = Nil
    BY <1>0, <2>2 DEF PatientOK, ProfileIsExact
  <2>8. ProfileIsExact(d)'
    BY <2>1, <2>2, <2>3, <2>4, <2>7 DEF ProfileIsExact, Exact
  <2>9. PatientOK(d)'
    BY <2>5, <2>6, <2>8 DEF PatientOK
  <2> QED
    BY <1>0, <2>1, <2>2, <2>9, PatientStep
<1>2. ASSUME NEW k \in Keys, Select(d, k) PROVE PInv'
  <2>1. /\ screen[d] = "profile" /\ screen'[d] = "update" /\ profile[d][k] # Nil
        /\ form'[d] = [key |-> k, text |-> profile[d][k].text]
        /\ \A e \in Devices \ {d} : form'[e] = form[e] /\ screen'[e] = screen[e]
        /\ UNCHANGED <<db, creator, who, home, profile, pend, listening, answer, waiting>>
    BY <1>2 DEF PInv, IInv, TypeOK, Select, read
  <2>2. waiting[d].profile = Nil
    BY <1>0, <2>1 DEF PatientOK, ProfileIsExact, NoBeacons
  <2>3. OwnWrites(d)' /\ AnswerIsCurrent(d)' /\ HomeIsExact(d)'
    BY <1>0, <2>1 DEF PatientOK, OwnWrites, AnswerIsCurrent, HomeIsExact
  <2>4. ProfileIsExact(d)'
    BY <1>0, <2>1, <2>2 DEF PatientOK, ProfileIsExact, Exact
  <2>5. FormIsProfiles(d)'
    BY <2>1, <2>2 DEF FormIsProfiles
  <2>6. PatientOK(d)'
    BY <2>3, <2>4, <2>5 DEF PatientOK
  <2> QED
    BY <1>0, <2>1, <2>6, PatientStep
<1> QED
  BY <1>1, <1>2 DEF Visit

\* What a queue shows does not change when the server applies its oldest write.
LEMMA ShownWithoutHead ==
    ASSUME NEW q \in Seq(Write), q # <<>>, NEW k, NEW before, NEW applied, NEW after,
           Shown(q, k, before, after),
           applied = IF Head(q).key = k THEN Head(q).beacon ELSE before
    PROVE  Shown(Tail(q), k, applied, after)
<1> DEFINE t == Tail(q)
           all == {i \in DOMAIN q : q[i].key = k}
           rest == {i \in DOMAIN t : t[i].key = k}
<1>1. /\ Len(q) \in Nat /\ DOMAIN q = 1 .. Len(q) /\ 1 \in DOMAIN q /\ Head(q) = q[1]
      /\ DOMAIN t = 1 .. Len(q) - 1
      /\ \A i \in DOMAIN t : t[i] = q[i + 1]
  OBVIOUS
<1> HIDE DEF t
<1>2. \A i \in rest : i + 1 \in all
  BY <1>1
<1>3. \A i \in all : i = 1 \/ i - 1 \in rest
  BY <1>1
<1>4. CASE rest = {}
  <2>1. CASE q[1].key = k
    <3>1. 1 \in all /\ \A i \in all : i = 1
      BY <1>1, <1>3, <1>4, <2>1
    <3>2. after = q[1].beacon
      BY <3>1 DEF Shown
    <3> QED
      BY <1>1, <1>4, <2>1, <3>2 DEF Shown, t
  <2>2. CASE q[1].key # k
    <3>1. all = {}
      BY <1>3, <1>4, <2>2
    <3> QED
      BY <1>1, <1>4, <2>2, <3>1 DEF Shown, t
  <2> QED
    BY <2>1, <2>2
<1>5. CASE rest # {}
  <2>1. PICK i \in all : (\A j \in all : j <= i) /\ after = q[i].beacon
    BY <1>2, <1>5 DEF Shown
  <2>2. i # 1
    <3>1. PICK j \in rest : TRUE
      BY <1>5
    <3>2. j + 1 <= i /\ j \in Nat /\ j >= 1
      BY <1>1, <1>2, <2>1
    <3> QED
      BY <3>2
  <2>3. i - 1 \in rest /\ i \in Nat
    BY <1>1, <1>3, <2>1, <2>2
  <2>4. \A j \in rest : j <= i - 1
    BY <1>1, <1>2, <2>1, <2>3
  <2>5. after = t[i - 1].beacon
    BY <1>1, <2>1, <2>3
  <2> QED
    BY <2>3, <2>4, <2>5 DEF Shown, t
<1> QED
  BY <1>4, <1>5

\* The server takes the oldest write: what is shown stays exact.
LEMMA AcceptPatient ==
    ASSUME PInv, IInv', NEW d \in Devices, Accept(d), UNCHANGED edited
    PROVE  PInv'
<1> DEFINE w == Head(pend[d])
<1>0. PatientOK(d) /\ edited' \in [Devices -> BOOLEAN]
  BY DEF PInv
<1>1. /\ pend[d] \in Seq(Write) /\ pend[d] # <<>> /\ QueueOK(d, pend[d])
      /\ db \in [Keys -> Beacon \cup {Nil}]
  BY DEF PInv, IInv, TypeOK, DeviceOK, Accept, Snapshot
<1>2. /\ w \in Write /\ WriteOK(d, w) /\ w.key \in Keys \cup {Nil}
      /\ w.key # Nil => creator[w.key] = who[d]
  <2>1. w = pend[d][1] /\ 1 \in 1 .. Len(pend[d])
    BY <1>1
  <2>2. w \in Write
    BY <1>1
  <2> HIDE DEF w
  <2>3. w.key \in Keys \cup {Nil}
    BY <2>2 DEF Write
  <2> QED
    BY <1>0, <1>1, <2>1, <2>2, <2>3 DEF QueueOK, PatientOK, OwnWrites
<1>3. /\ db' = IF w.key = Nil THEN db ELSE [db EXCEPT ![w.key] = w.beacon]
      /\ answer[d] = Nil
      /\ pend' = [pend EXCEPT ![d] = Tail(@)]
      /\ who' = IF w.user = Nil THEN who ELSE [who EXCEPT ![d] = w.user]
      /\ UNCHANGED <<creator, screen, home, profile, form, listening, answer, waiting>>
  BY DEF Accept, Reply, local, read
<1> HIDE DEF w
<1>4. who' = who
  BY <1>2, <1>3 DEF PInv, IInv, TypeOK, WriteOK
<1>5. pend'[d] = Tail(pend[d]) /\ \A e \in Devices \ {d} : pend'[e] = pend[e]
  BY <1>3 DEF PInv, IInv, TypeOK
<1>6. \A k \in Keys : db'[k] = IF w.key = k THEN w.beacon ELSE db[k]
  BY <1>1, <1>2, <1>3, NilIsNoValue
<1>7. \A k \in Keys : creator[k] # who[d] => db'[k] = db[k]
  BY <1>2, <1>6, NilIsNoValue
<1>8. OwnWrites(d)'
  <2>1. \A i \in 1 .. Len(Tail(pend[d])) :
            i + 1 \in 1 .. Len(pend[d]) /\ Tail(pend[d])[i] = pend[d][i + 1]
    BY <1>1
  <2> QED
    BY <1>0, <1>3, <1>4, <1>5, <2>1 DEF PatientOK, OwnWrites
<1>9. ASSUME NEW list, Exact(d, list)
      PROVE  \A k \in Keys : creator'[k] = who'[d] => Shown(pend'[d], k, db'[k], list[k])
  <2> SUFFICES ASSUME NEW k \in Keys, creator[k] = who[d]
               PROVE  Shown(Tail(pend[d]), k, db'[k], list[k])
    BY <1>3, <1>4, <1>5
  <2>1. Shown(pend[d], k, db[k], list[k])
    BY <1>9 DEF Exact
  <2>2. db'[k] = IF Head(pend[d]).key = k THEN Head(pend[d]).beacon ELSE db[k]
    BY <1>6 DEF w
  <2> QED
    BY <1>1, <2>1, <2>2, ShownWithoutHead
<1>10. AnswerIsCurrent(d)'
  BY <1>3 DEF AnswerIsCurrent
<1>11. HomeIsExact(d)'
  BY <1>0, <1>3, <1>9 DEF PatientOK, HomeIsExact, Exact
<1>12. ProfileIsExact(d)'
  BY <1>0, <1>3, <1>9 DEF PatientOK, ProfileIsExact, Exact
<1>13. FormIsProfiles(d)'
  BY <1>0, <1>3 DEF PatientOK, FormIsProfiles
<1>14. PatientOK(d)'
  BY <1>8, <1>10, <1>11, <1>12, <1>13 DEF PatientOK
<1> QED
  BY <1>0, <1>3, <1>4, <1>5, <1>7, <1>14, PatientStep

\* The server answers with its list.
LEMMA AnswerPatient ==
    ASSUME PInv, IInv', NEW d \in Devices, Answer(d), UNCHANGED edited
    PROVE  PInv'
<1>0. PatientOK(d) /\ edited' \in [Devices -> BOOLEAN]
  BY DEF PInv
<1>1. /\ listening[d] /\ answer'[d] = db /\ \A e \in Devices \ {d} : answer'[e] = answer[e]
      /\ UNCHANGED <<db, creator, who, screen, home, profile, form, pend, listening, waiting>>
  BY DEF PInv, IInv, TypeOK, Answer, local
<1>2. PatientOK(d)'
  BY <1>0, <1>1 DEF PatientOK, OwnWrites, AnswerIsCurrent, HomeIsExact, ProfileIsExact,
     FormIsProfiles, Exact
<1> QED
  BY <1>0, <1>1, <1>2, PatientStep

\* An answer under the queued writes is exact.
LEMMA ArrivePatient ==
    ASSUME PInv, IInv', NEW d \in Devices, Arrive(d), UNCHANGED edited
    PROVE  PInv'
<1>0. PatientOK(d) /\ edited' \in [Devices -> BOOLEAN] /\ who[d] # Nil
  BY NilIsNoValue DEF PInv, IInv, TypeOK
<1>1. PICK view \in Snapshot :
          /\ Applied(pend[d], answer[d], view)
          /\ home' = IF waiting[d].home THEN [home EXCEPT ![d] = view] ELSE home
          /\ profile' = IF waiting[d].profile = Nil THEN profile
                        ELSE [profile EXCEPT ![d] = Own(view, waiting[d].profile)]
  BY DEF Arrive
<1>2. /\ answer[d] # Nil /\ answer'[d] = Nil
      /\ waiting'[d] = [home |-> FALSE, profile |-> Nil]
      /\ \A e \in Devices \ {d} : /\ waiting'[e] = waiting[e] /\ answer'[e] = answer[e]
                                  /\ listening'[e] = listening[e]
      /\ UNCHANGED <<db, creator, who, screen, form, pend>>
  BY DEF PInv, IInv, TypeOK, Arrive
<1>3. Exact(d, view)
  <2>1. \A k \in Keys : Shown(pend[d], k, answer[d][k], view[k])
    BY <1>1 DEF Applied, Shown
  <2> QED
    BY <1>0, <1>2, <2>1 DEF PatientOK, AnswerIsCurrent, Exact
<1>4. Owned(view)
  <2>1. pend[d] \in Seq(Write) /\ QueueOK(d, pend[d]) /\ Owned(answer[d])
    BY <1>2 DEF PInv, IInv, TypeOK, DeviceOK
  <2> QED
    BY <1>1, <2>1, AppliedOwned
<1>5. Exact(d, Own(view, who[d]))
  BY <1>3, <1>4, OwnExact
<1>6. /\ home'[d] = IF waiting[d].home THEN view ELSE home[d]
      /\ \A e \in Devices \ {d} : home'[e] = home[e]
  BY <1>1 DEF PInv, IInv, TypeOK
<1>7. /\ profile'[d] = IF waiting[d].profile = Nil THEN profile[d] ELSE Own(view, who[d])
      /\ \A e \in Devices \ {d} : profile'[e] = profile[e]
  BY <1>1 DEF PInv, IInv, TypeOK, DeviceOK
<1>8. OwnWrites(d)' /\ AnswerIsCurrent(d)'
  BY <1>0, <1>2 DEF PatientOK, OwnWrites, AnswerIsCurrent
<1>9. HomeIsExact(d)'
  BY <1>0, <1>2, <1>3, <1>6 DEF PatientOK, HomeIsExact, Exact
<1>10. ProfileIsExact(d)'
  BY <1>0, <1>2, <1>5, <1>7 DEF PatientOK, ProfileIsExact, Exact
<1>11. FormIsProfiles(d)'
  BY <1>0, <1>2, <1>7 DEF PatientOK, FormIsProfiles
<1>12. PatientOK(d)'
  BY <1>8, <1>9, <1>10, <1>11 DEF PatientOK
<1> QED
  BY <1>0, <1>2, <1>6, <1>7, <1>12, PatientStep

\* The account changes to one no other device uses, when nothing is queued.
LEMMA SwitchPatient ==
    ASSUME PInv, IInv', NEW d \in Devices, NEW u \in Uids, Quiet(d), Unused(d, u),
           SwitchUser(d, u), edited' = [edited EXCEPT ![d] = FALSE]
    PROVE  PInv'
<1>1. /\ screen'[d] = "home" /\ waiting'[d] = [home |-> TRUE, profile |-> Nil]
      /\ listening'[d] = TRUE
      /\ \A e \in Devices \ {d} : /\ waiting'[e] = waiting[e] /\ screen'[e] = screen[e]
                                  /\ listening'[e] = listening[e]
  BY HomeAppearsFrame DEF PInv, IInv, SwitchUser
<1>2. /\ who'[d] = u /\ pend[d] = <<>> /\ ~listening[d] /\ screen[d] = "profile"
      /\ \A e \in Devices \ {d} : /\ who'[e] = who[e] /\ home'[e] = home[e]
                                  /\ profile'[e] = profile[e] /\ edited'[e] = edited[e]
      /\ edited' \in [Devices -> BOOLEAN]
      /\ UNCHANGED <<db, creator, form, pend, answer>>
  BY DEF PInv, IInv, TypeOK, SwitchUser, Quiet
<1>3. answer[d] = Nil /\ form[d] = Nil
  BY <1>2 DEF PInv, IInv, DeviceOK, FormOK, PatientOK, AnswerIsCurrent
<1>4. PatientOK(d)'
  BY <1>1, <1>2, <1>3 DEF PatientOK, OwnWrites, AnswerIsCurrent, HomeIsExact, ProfileIsExact,
     FormIsProfiles
<1>5. ASSUME NEW e \in Devices \ {d} PROVE PatientOK(e)'
  BY <1>1, <1>2, OtherPatients
<1>6. Apart'
  <2>1. \A e \in Devices \ {d} : who[e] # u
    BY DEF Unused
  <2>2. \A e, f \in Devices \ {d} : who[e] = who[f] => e = f
    BY DEF PInv, Apart
  <2>3. ASSUME NEW e \in Devices, NEW f \in Devices, who'[e] = who'[f] PROVE e = f
    BY <1>2, <2>1, <2>2, <2>3
  <2> QED
    BY <2>3 DEF Apart
<1> QED
  BY <1>2, <1>4, <1>5, <1>6 DEF PInv

\* Of the writes of a device that is killed the server has received some.
LEMMA RestartPatient ==
    ASSUME PInv, IInv', NEW d \in Devices, Restart(d), edited' = [edited EXCEPT ![d] = FALSE]
    PROVE  PInv'
<1>1. /\ screen'[d] = "home" /\ waiting'[d] = [home |-> TRUE, profile |-> Nil]
      /\ listening'[d] = TRUE
      /\ \A e \in Devices \ {d} : /\ waiting'[e] = waiting[e] /\ screen'[e] = screen[e]
                                  /\ listening'[e] = listening[e]
  BY HomeAppearsFrame DEF PInv, IInv, Restart
<1>2. /\ pend'[d] = <<>> /\ form'[d] = Nil /\ answer'[d] = Nil
      /\ \A e \in Devices \ {d} : /\ home'[e] = home[e] /\ profile'[e] = profile[e]
                                  /\ form'[e] = form[e] /\ pend'[e] = pend[e]
                                  /\ answer'[e] = answer[e] /\ edited'[e] = edited[e]
      /\ edited' \in [Devices -> BOOLEAN]
      /\ UNCHANGED <<creator, who>>
  BY DEF PInv, IInv, TypeOK, Restart
<1>3. \A k \in Keys : creator[k] # who[d] => db'[k] = db[k]
  <2>1. PICK n \in 0 .. Len(pend[d]) : Applied(SubSeq(pend[d], 1, n), db, db')
    BY DEF Restart
  <2>2. pend[d] \in Seq(Write) /\ OwnWrites(d)
    BY DEF PInv, IInv, TypeOK, PatientOK
  <2>3. /\ DOMAIN SubSeq(pend[d], 1, n) = 1 .. n
        /\ \A i \in 1 .. n : SubSeq(pend[d], 1, n)[i] = pend[d][i] /\ i \in 1 .. Len(pend[d])
    BY <2>2
  <2>4. ASSUME NEW k \in Keys, db'[k] # db[k] PROVE creator[k] = who[d]
    <3>1. PICK i \in 1 .. n : SubSeq(pend[d], 1, n)[i].key = k
      BY <2>1, <2>3, <2>4 DEF Applied
    <3> QED
      BY <2>2, <2>3, <3>1, NilIsNoValue DEF OwnWrites
  <2> QED
    BY <2>4
<1>4. PatientOK(d)'
  BY <1>1, <1>2 DEF PatientOK, OwnWrites, AnswerIsCurrent, HomeIsExact, ProfileIsExact,
     FormIsProfiles
<1> QED
  BY <1>1, <1>2, <1>3, <1>4, PatientStep

\* The invariant is inductive under patient users.
LEMMA PatientInv == PInv /\ [PatientNext]_pvars => PInv'
<1> SUFFICES ASSUME PInv, [PatientNext]_pvars PROVE PInv'
  OBVIOUS
<1>1. IInv'
  BY PatientIsCareful, StepInv DEF PInv
<1>2. CASE UNCHANGED pvars
  <2>1. /\ UNCHANGED <<db, creator, who, screen, home, profile, form, pend, listening, answer,
                       waiting, edited>>
    BY <1>2 DEF pvars, vars, local, read
  <2>2. ASSUME NEW d \in Devices PROVE PatientOK(d)'
    <3>1. PatientOK(d)
      BY DEF PInv
    <3> QED
      BY <2>1, <3>1 DEF PatientOK, OwnWrites, AnswerIsCurrent, HomeIsExact, ProfileIsExact,
         FormIsProfiles, Exact
  <2> QED
    BY <1>1, <2>1, <2>2 DEF PInv, Apart
<1>3. ASSUME NEW d \in Devices,
             Server(d), UNCHANGED edited
      PROVE  PInv'
  BY <1>1, <1>3, AcceptPatient, AnswerPatient, ArrivePatient DEF Server
<1> QED
  BY <1>1, <1>2, <1>3, BrowsePatient, EditPatient, VisitPatient, SwitchPatient, RestartPatient
  DEF PatientNext

\* Profile's list and the database, the other users' beacons from the database,
\* make up what the device sees.
LEMMA ViewOf ==
    ASSUME PInv, NEW d \in Devices, Exact(d, profile[d])
    PROVE  \E view \in Snapshot :
              /\ Applied(pend[d], db, view)
              /\ profile[d] = Own(view, who[d])
              /\ \A k \in Keys : profile[d][k] # Nil => view[k] = profile[d][k]
<1> DEFINE view == [k \in Keys |-> IF creator[k] = who[d] THEN profile[d][k] ELSE db[k]]
<1>1. /\ db \in Snapshot /\ profile[d] \in Snapshot /\ pend[d] \in Seq(Write)
      /\ Owned(db) /\ Mine(d, profile[d]) /\ OwnWrites(d)
  BY DEF PInv, IInv, TypeOK, DeviceOK, PatientOK
<1>2. view \in Snapshot
  BY <1>1 DEF Snapshot
<1>3. ASSUME NEW k \in Keys PROVE Shown(pend[d], k, db[k], view[k])
  <2>1. CASE creator[k] = who[d]
    BY <2>1 DEF Exact
  <2>2. CASE creator[k] # who[d]
    <3>1. {i \in DOMAIN pend[d] : pend[d][i].key = k} = {}
      BY <1>1, <2>2, NilIsNoValue DEF OwnWrites
    <3> QED
      BY <2>2, <3>1 DEF Shown
  <2> QED
    BY <2>1, <2>2
<1>4. \A k \in Keys : profile[d][k] # Nil => view[k] = profile[d][k]
  BY <1>1 DEF Mine
<1>5. ASSUME NEW k \in Keys PROVE Own(view, who[d])[k] = profile[d][k]
  BY <1>1 DEF Own, Mine, Owned
<1>6. profile[d] = Own(view, who[d])
  BY <1>1, <1>5 DEF Own, Snapshot
<1> HIDE DEF view
<1>7. Applied(pend[d], db, view)
  BY <1>3 DEF Applied, Shown
<1> QED
  BY <1>2, <1>4, <1>6, <1>7

\* While users are patient, the list in Profile is all of the user's beacons,
\* whatever other devices do and whichever writes are still queued.
THEOREM ProfileShowsAll == PatientSpec => []ProfileIsComplete
<1>1. PInv => ProfileIsComplete
  <2> SUFFICES ASSUME PInv, NEW d \in Devices, screen[d] \in {"profile", "update"},
                      ~edited[d], waiting[d].profile = Nil
               PROVE  \E view \in Snapshot :
                          Applied(pend[d], db, view) /\ profile[d] = Own(view, who[d])
    BY DEF ProfileIsComplete
  <2>1. Exact(d, profile[d])
    BY DEF PInv, PatientOK, ProfileIsExact
  <2> QED
    BY <2>1, ViewOf
<1> QED
  BY <1>1, InitPInv, PatientInv, PTL DEF PatientSpec

\* While users are patient, the Update form shows the beacon as the device sees
\* it: Update never edits an older text and never brings back a removed beacon.
THEOREM FormShowsBeacon == PatientSpec => []FormIsCurrent
<1>1. PInv => FormIsCurrent
  <2> SUFFICES ASSUME PInv, NEW d \in Devices, form[d] # Nil
               PROVE  \E view \in Snapshot :
                          /\ Applied(pend[d], db, view)
                          /\ view[form[d].key] # Nil
                          /\ view[form[d].key].text = form[d].text
    BY DEF FormIsCurrent
  <2>1. /\ form[d].key \in Keys /\ profile[d][form[d].key] # Nil
        /\ profile[d][form[d].key].text = form[d].text
        /\ Exact(d, profile[d])
    BY DEF PInv, IInv, TypeOK, Form, DeviceOK, FormOK, PatientOK, FormIsProfiles, ProfileIsExact
  <2> QED
    BY <2>1, ViewOf
<1> QED
  BY <1>1, InitPInv, PatientInv, PTL DEF PatientSpec

===============================================================================
