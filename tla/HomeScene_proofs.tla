-------------------------- MODULE HomeScene_proofs --------------------------
(* Proofs about HomeScene, for any number of beacons, titles and nodes. *)
EXTENDS HomeScene, SequenceTheorems, FiniteSetTheorems, TLAPS

\* Where a node of the view is: in the scene, in the hands of one of the two
\* threads, or waiting for a didSet that has not read the list yet.
Covered ==
    \A n \in nodes :
        n \in children \cup snap \/ n = adding \/ root \in {"none", "made"}

\* What the scene has, and what didSet will add, is in the view's list, but for
\* children that removeAllNodes is about to remove.
Known == ~raced => snap \subseteq nodes /\ (clearing \/ children \subseteq nodes)

\* What makes both inductive: the list is empty while removeAllNodes runs,
\* nothing is in a scene node that does not exist, and only didSet has a copy of
\* the list.
Threads ==
    /\ nodes \subseteq Node
    /\ clearing => nodes = {}
    /\ adding # Nil => adding \in nodes
    /\ root = "none" => children = {}
    /\ root # "filling" => snap = {}

IInv == Covered /\ Known /\ Threads

\* Home's scene starts empty.
LEMMA InitIInv == Init => IInv
  BY DEF Init, IInv, Covered, Known, Threads

\* No interleaving of the handlers on the main thread with the render thread
\* loses a node or brings an unknown one into the scene.
LEMMA NextIInv == IInv /\ [Next]_vars => IInv'
  <1> SUFFICES ASSUME IInv, [Next]_vars PROVE IInv'
      OBVIOUS
  <1> USE DEF IInv, Covered, Known, Threads
  <1>1. CASE Answer
        BY <1>1 DEF Answer, task, scene
  <1>2. CASE Complete
        BY <1>2 DEF Complete, scene
  <1>3. CASE AppendNode
    <2>1. PICK n \in Node : nodes' = nodes \cup {n} /\ adding' = n
          BY <1>3 DEF AppendNode
    <2>2. /\ adding = Nil /\ ~clearing
          /\ UNCHANGED <<clearing, root, snap, children, raced>>
          BY <1>3 DEF AppendNode, scene
    <2> QED
        BY <2>1, <2>2, NilIsNoNode
  <1>4. CASE Attach
        BY <1>4, NilIsNoNode DEF Attach
  <1>5. CASE Clear
        BY <1>5 DEF Clear
  <1>6. CASE SwitchPressed
        BY <1>6 DEF SwitchPressed, Idle, scene
  <1>7. CASE (\E n \in Node : Tap(n)) \/ Leave \/ Back \/ ExitToHome
        BY <1>7 DEF Tap, Leave, Back, ExitToHome, task, scene
  <1>8. CASE MakeRoot
        BY <1>8 DEF MakeRoot, task
  <1>9. CASE Snapshot
        BY <1>9 DEF Snapshot, task
  <1>10. CASE Fill
        BY <1>10 DEF Fill, task
  <1>11. CASE AttachRoot
        BY <1>11 DEF AttachRoot, task
  <1>12. CASE UNCHANGED vars
        BY <1>12 DEF vars, task, scene
  <1> QED
      BY <1>1, <1>2, <1>3, <1>4, <1>5, <1>6, <1>7, <1>8, <1>9, <1>10, <1>11, <1>12
      DEF Next, Work, Render, User

\* The invariant holds in every behaviour.
THEOREM Invariance == Spec => []IInv
  BY InitIInv, NextIInv, PTL DEF Spec

\* A node the view was given is in the scene once both threads are done: the
\* main thread appends to locationNodes before it reads sceneNode, the render
\* thread sets sceneNode before it reads locationNodes.
THEOREM AllShown == Spec => []NodesShown
  <1>1. IInv => NodesShown
        BY NilIsNoNode DEF IInv, Covered, Threads, NodesShown, Idle
  <1> QED
      BY <1>1, Invariance, PTL

\* The scene shows nothing the view has forgotten, unless nodes were removed
\* while didSet was adding them.
THEOREM NoneForgotten == Spec => []NoGhosts
  <1>1. IInv => NoGhosts
        BY DEF IInv, Known, NoGhosts, Idle
  <1> QED
      BY <1>1, Invariance, PTL

----------------------------------------------------------------------------
(* One node for each beacon *)

\* No beacon is twice in a list.
Distinct(l) == l \in Seq(Beacon) /\ \A i, j \in DOMAIN l : l[i] = l[j] => i = j

\* How many beacons of the list have got their node.
Added == Len(list) - Len(todo) + (IF adding = Nil THEN 0 ELSE 1)

\* The running handler still has the rest of the list to add.
Rest == Len(todo) <= Len(list)
        /\ \A i \in 1 .. Len(todo) : todo[i] = list[Len(list) - Len(todo) + i]

\* The beacons that were added have one node each, the others have none.
OneEach ==
    /\ \A i \in 1 .. Added : \E n \in nodes : n.beacon = list[i]
    /\ \A n \in nodes : \E i \in 1 .. Added : n.beacon = list[i]
    /\ \A m, n \in nodes : m.beacon = n.beacon => m = n

Lists ==
    /\ Distinct(list) /\ todo \in Seq(Beacon)
    /\ due \in Seq(Seq(Beacon)) /\ \A i \in DOMAIN due : Distinct(due[i])
    /\ waiting \in Nat
    /\ adding # Nil => todo # <<>>
    /\ clearing => adding = Nil

LInv == IInv /\ Lists /\ (fresh => Rest /\ OneEach)

\* An answer's list has no beacon twice.
LEMMA ListingDistinct == \A l \in Listings : Distinct(l)
  <1> SUFFICES ASSUME NEW l \in Listings PROVE Distinct(l)
      OBVIOUS
  <1>1. PICK n \in 0 .. NumKeys : l \in [1 .. n -> Beacon]
        BY DEF Listings
  <1>2. l \in Seq(Beacon) /\ DOMAIN l = 1 .. n /\ n \in Nat
        BY <1>1, KeysAreCounted
  <1>3. \A i, j \in DOMAIN l : i < j => l[i].key < l[j].key
        BY DEF Listings
  <1>4. \A i \in DOMAIN l : l[i].key \in Int
        BY <1>1, <1>2 DEF Beacon
  <1>5. ASSUME NEW i \in DOMAIN l, NEW j \in DOMAIN l, l[i] = l[j] PROVE i = j
    <2>1. ~(i < j) /\ ~(j < i)
          BY <1>3, <1>4, <1>5
    <2> QED
        BY <1>2, <2>1
  <1> QED
      BY <1>2, <1>5 DEF Distinct

\* The lists and the nodes stay the same.
LEMMA SameLists ==
    ASSUME LInv, UNCHANGED <<list, nodes, todo, adding, clearing, fresh>>, IInv',
           due' \in Seq(Seq(Beacon)), \A i \in DOMAIN due' : Distinct(due'[i]), waiting' \in Nat
    PROVE  LInv'
  BY DEF LInv, Lists, Rest, OneEach, Added, Distinct

\* A list is begun on an empty view.
LEMMA BegunList ==
    ASSUME Distinct(list'), todo' = list', nodes' = {}, adding' = Nil
    PROVE  Rest' /\ OneEach'
  <1>1. Len(list') \in Nat
        BY DEF Distinct
  <1>2. Added' = 0
        BY <1>1 DEF Added
  <1> QED
      BY <1>1, <1>2 DEF Rest, OneEach

\* No step gives a beacon of the list a second node, or leaves one out.
LEMMA NextLInv == LInv /\ [Next]_vars => LInv'
  <1> SUFFICES ASSUME LInv, [Next]_vars PROVE LInv'
      OBVIOUS
  <1>0. IInv'
        BY NextIInv DEF LInv
  <1>1. CASE Answer
    <2>1. PICK l \in Listings : due' = due \o [i \in 1 .. waiting |-> l]
          BY <1>1 DEF Answer
    <2> DEFINE d == [i \in 1 .. waiting |-> l]
    <2>2. l \in Seq(Beacon) /\ Distinct(l)
          BY ListingDistinct DEF Distinct
    <2>3. d \in Seq(Seq(Beacon)) /\ Len(d) = waiting /\ \A i \in 1 .. waiting : d[i] = l
          BY <2>2 DEF LInv, Lists
    <2> HIDE DEF d
    <2>4. due \in Seq(Seq(Beacon)) /\ due' = due \o d
          BY <2>1 DEF d, LInv, Lists
    <2>5. due' \in Seq(Seq(Beacon))
          BY <2>3, <2>4
    <2>6. \A i \in DOMAIN due' : Distinct(due'[i])
      <3>1. \A i \in DOMAIN due' : \/ i \in DOMAIN due /\ due'[i] = due[i]
                                   \/ i - Len(due) \in 1 .. Len(d) /\ due'[i] = d[i - Len(due)]
            BY <2>3, <2>4
      <3> QED
          BY <2>2, <2>3, <3>1 DEF LInv, Lists
    <2> QED
        BY <1>0, <1>1, <2>5, <2>6, SameLists DEF Answer, task
  <1>2. CASE Complete
    <2>1. /\ due # <<>> /\ list' = Head(due) /\ todo' = Head(due) /\ due' = Tail(due)
          /\ fresh' = (nodes = {}) /\ adding = Nil /\ ~clearing
          /\ UNCHANGED <<waiting, nodes, adding, clearing>>
          BY <1>2 DEF Complete, Idle
    <2>2. Distinct(Head(due)) /\ Tail(due) \in Seq(Seq(Beacon))
          /\ \A i \in DOMAIN Tail(due) : Distinct(Tail(due)[i])
      <3>1. due \in Seq(Seq(Beacon)) /\ \A i \in DOMAIN due : Distinct(due[i])
            BY DEF LInv, Lists
      <3>2. /\ 1 \in DOMAIN due /\ Head(due) = due[1] /\ Tail(due) \in Seq(Seq(Beacon))
            /\ \A i \in DOMAIN Tail(due) : i + 1 \in DOMAIN due /\ Tail(due)[i] = due[i + 1]
            BY <2>1, <3>1
      <3> QED
          BY <3>1, <3>2
    <2>3. fresh' => Rest' /\ OneEach'
          BY <2>1, <2>2, BegunList
    <2>4. Lists'
          BY <2>1, <2>2 DEF LInv, Lists, Distinct
    <2> QED
        BY <1>0, <2>3, <2>4 DEF LInv
  <1>3. CASE AppendNode
    <2>1. PICK n \in Node : n.beacon = Head(todo) /\ n.object \notin InUse
                            /\ nodes' = nodes \cup {n} /\ adding' = n
          BY <1>3 DEF AppendNode
    <2>2. /\ todo # <<>> /\ adding = Nil /\ ~clearing
          /\ UNCHANGED <<waiting, due, list, todo, clearing, fresh>>
          BY <1>3 DEF AppendNode, fetch
    <2>3. n # Nil
          BY NilIsNoNode
    <2>4. Lists'
          BY <2>1, <2>2, <2>3 DEF LInv, Lists, Distinct
    <2>5. ASSUME fresh PROVE Rest' /\ OneEach'
      <3> DEFINE k == Len(list) - Len(todo)
      <3>1. /\ Len(list) \in Nat /\ Len(todo) \in Nat /\ Len(todo) > 0
            /\ list \in Seq(Beacon) /\ Head(todo) = todo[1]
            BY <2>2 DEF LInv, Lists, Distinct
      <3>2. /\ k \in Nat /\ k + 1 \in 1 .. Len(list) /\ Head(todo) = list[k + 1]
            /\ Added = k /\ Added' = k + 1
            BY <2>1, <2>2, <2>3, <2>5, <3>1 DEF LInv, Rest, Added
      <3>3. /\ \A i \in 1 .. k : \E m \in nodes : m.beacon = list[i]
            /\ \A m \in nodes : \E i \in 1 .. k : m.beacon = list[i]
            /\ \A m, x \in nodes : m.beacon = x.beacon => m = x
            BY <2>5, <3>2 DEF LInv, OneEach
      <3>4. \A i, j \in 1 .. Len(list) : list[i] = list[j] => i = j
            BY <3>1 DEF LInv, Lists, Distinct
      <3> HIDE DEF k
      <3>5. \A m \in nodes : m.beacon # n.beacon
            BY <2>1, <3>1, <3>2, <3>3, <3>4
      <3>6. /\ \A i \in 1 .. k + 1 : \E m \in nodes' : m.beacon = list[i]
            /\ \A m \in nodes' : \E i \in 1 .. k + 1 : m.beacon = list[i]
        <4>1. \A i \in 1 .. k + 1 : i \in 1 .. k \/ i = k + 1
              BY <3>2
        <4>2. \A i \in 1 .. k : i \in 1 .. k + 1
              BY <3>2
        <4>3. k + 1 \in 1 .. k + 1
              BY <3>2
        <4> QED
            BY <2>1, <3>2, <3>3, <4>1, <4>2, <4>3
      <3>7. \A m, x \in nodes' : m.beacon = x.beacon => m = x
            BY <2>1, <3>3, <3>5
      <3>8. Rest'
            BY <2>2, <2>5 DEF LInv, Rest
      <3> QED
          BY <2>2, <3>2, <3>6, <3>7, <3>8 DEF OneEach
    <2> QED
        BY <1>0, <2>2, <2>4, <2>5 DEF LInv
  <1>4. CASE Attach
    <2>1. /\ adding # Nil /\ adding' = Nil /\ todo' = Tail(todo)
          /\ UNCHANGED <<waiting, due, list, nodes, clearing, fresh>>
          BY <1>4 DEF Attach, fetch
    <2>2. /\ todo \in Seq(Beacon) /\ todo # <<>> /\ list \in Seq(Beacon)
          BY <2>1 DEF LInv, Lists, Distinct
    <2>3. /\ todo' \in Seq(Beacon) /\ Len(todo') = Len(todo) - 1 /\ Len(todo) \in Nat
          /\ Len(list) \in Nat /\ \A i \in 1 .. Len(todo') : todo'[i] = todo[i + 1]
          BY <2>1, <2>2
    <2>4. Lists'
          BY <2>1, <2>3 DEF LInv, Lists, Distinct
    <2>5. Added' = Added
          BY <2>1, <2>3 DEF Added
    <2>6. ASSUME fresh PROVE Rest'
      <3>1. /\ Len(todo) <= Len(list)
            /\ \A i \in 1 .. Len(todo) : todo[i] = list[Len(list) - Len(todo) + i]
            BY <2>6 DEF LInv, Rest
      <3>2. ASSUME NEW i \in 1 .. Len(todo')
            PROVE  todo'[i] = list[Len(list) - Len(todo') + i]
        <4>1. /\ i + 1 \in 1 .. Len(todo)
              /\ Len(list) - Len(todo) + (i + 1) = Len(list) - Len(todo') + i
              BY <2>3
        <4> QED
            BY <2>3, <3>1, <4>1
      <3>3. Len(todo') <= Len(list)
            BY <2>3, <3>1
      <3> QED
          BY <2>1, <3>2, <3>3 DEF Rest
    <2> QED
        BY <1>0, <2>1, <2>4, <2>5, <2>6 DEF LInv, OneEach
  <1>5. CASE Clear
    <2>1. /\ clearing' = FALSE /\ UNCHANGED <<fetch, list, nodes, todo, adding, fresh>>
          BY <1>5 DEF Clear
    <2> QED
        BY <1>0, <2>1 DEF LInv, Lists, Rest, OneEach, Added, Distinct, fetch
  <1>6. CASE SwitchPressed
    <2>1. /\ nodes' = {} /\ todo' = list /\ list' = list /\ adding' = adding /\ adding = Nil
          /\ UNCHANGED fetch
          BY <1>6 DEF SwitchPressed, Idle
    <2>2. Distinct(list') /\ Rest' /\ OneEach'
          BY <2>1, BegunList DEF LInv, Lists
    <2>3. Lists'
          BY <2>1, <2>2 DEF LInv, Lists, Distinct, fetch
    <2> QED
        BY <1>0, <2>2, <2>3 DEF LInv
  <1>7. CASE (\E n \in Node : Tap(n)) \/ Leave \/ Back \/ ExitToHome
    <2>1. /\ UNCHANGED <<due, list, nodes, todo, adding, clearing, fresh>>
          /\ waiting' = waiting \/ waiting' = waiting + 1
          BY <1>7 DEF Tap, Leave, Back, ExitToHome, task, fetch
    <2> QED
        BY <1>0, <2>1, SameLists DEF LInv, Lists
  <1>8. CASE Render \/ UNCHANGED vars
    <2>1. UNCHANGED <<due, waiting, list, nodes, todo, adding, clearing, fresh>>
          BY <1>8 DEF Render, MakeRoot, Snapshot, Fill, AttachRoot, vars, task, fetch
    <2> QED
        BY <1>0, <2>1, SameLists DEF LInv, Lists
  <1> QED
      BY <1>1, <1>2, <1>3, <1>4, <1>5, <1>6, <1>7, <1>8 DEF Next, Work, User

\* Once a list that came to an empty view has been added, each of its beacons has
\* exactly one node, whatever the render thread did meanwhile.
THEOREM EachOnce == Spec => []OneNodeEach
  <1>1. Init => LInv
        BY InitIInv DEF Init, LInv, Lists, Distinct, Rest, OneEach, Added
  <1>2. LInv => OneNodeEach
    <2> SUFFICES ASSUME LInv, Idle, fresh, NEW i \in DOMAIN list
                 PROVE  Cardinality({n \in nodes : n.beacon = list[i]}) = 1
        BY DEF OneNodeEach
    <2>1. Added = Len(list) /\ DOMAIN list = 1 .. Len(list)
          BY DEF LInv, Lists, Distinct, Idle, Added
    <2>2. PICK n \in nodes : n.beacon = list[i]
          BY <2>1 DEF LInv, OneEach
    <2>3. {m \in nodes : m.beacon = list[i]} = {n}
          BY <2>2 DEF LInv, OneEach
    <2> QED
        BY <2>3, FS_Singleton
  <1> QED
      BY <1>1, <1>2, NextLInv, PTL DEF Spec

----------------------------------------------------------------------------
(* The types *)

\* What the lists do not say: the types of the screens and of the scene.
Shape ==
    /\ above \in Seq(Beacon \cup {Nil})
    /\ clearing \in BOOLEAN /\ fresh \in BOOLEAN /\ raced \in BOOLEAN
    /\ root \in {"none", "made", "filling", "attached"}
    /\ snap \subseteq Node /\ children \subseteq Node

\* The screens that a tap opens show beacons.
LEMMA TitledAreBeacons ==
    ASSUME list \in Seq(Beacon), NEW title
    PROVE  Titled(title) \subseteq Seq(Beacon)
  <1> DEFINE at == {i \in DOMAIN list : list[i].title = title}
  <1>1. IsFiniteSet(at)
    <2>1. Len(list) \in Nat /\ DOMAIN list = 1 .. Len(list)
          OBVIOUS
    <2>2. IsFiniteSet(1 .. Len(list))
          BY <2>1, FS_Interval
    <2> QED
        BY <2>1, <2>2, FS_Subset
  <1>2. Cardinality(at) \in Nat
        BY <1>1, FS_CardinalityType
  <1>3. at \subseteq DOMAIN list /\ \A i \in DOMAIN list : list[i] \in Beacon
        OBVIOUS
  <1> HIDE DEF at
  <1>4. ASSUME NEW f \in Orders(at) PROVE [k \in DOMAIN f |-> list[f[k]]] \in Seq(Beacon)
        BY <1>2, <1>3 DEF Orders
  <1> QED
      BY <1>4 DEF Titled, at

\* No step spoils a type.
LEMMA NextShape == LInv /\ Shape /\ [Next]_vars => Shape'
  <1> SUFFICES ASSUME LInv, Shape, [Next]_vars PROVE Shape'
      OBVIOUS
  <1>0. nodes \subseteq Node /\ list \in Seq(Beacon) /\ (adding # Nil => adding \in Node)
        BY DEF LInv, IInv, Threads, Lists, Distinct
  <1>1. CASE Answer
        BY <1>1 DEF Answer, task, scene, Shape
  <1>2. CASE Complete
    <2>1. /\ fresh' = (nodes = {}) /\ UNCHANGED <<above, clearing, root, snap, children, raced>>
          BY <1>2 DEF Complete, scene
    <2> QED
        BY <2>1 DEF Shape
  <1>3. CASE AppendNode
        BY <1>3 DEF AppendNode, task, scene, Shape
  <1>4. CASE Attach
        BY <1>0, <1>4 DEF Attach, Shape
  <1>5. CASE Clear
        BY <1>5 DEF Clear, Shape
  <1>6. CASE SwitchPressed
    <2>1. /\ clearing' = TRUE /\ fresh' = TRUE
          /\ raced' = (root = "filling" \/ (raced /\ root # "attached"))
          /\ UNCHANGED <<above, root, snap, children>>
          BY <1>6 DEF SwitchPressed, scene
    <2> QED
        BY <2>1 DEF Shape
  <1>7. ASSUME NEW n \in Node, Tap(n) PROVE Shape'
    <2>1. above' \in Titled(n.beacon.title) /\ UNCHANGED <<clearing, root, snap, children, fresh, raced>>
          BY <1>7 DEF Tap, task, scene
    <2>2. above' \in Seq(Beacon)
          BY <1>0, <2>1, TitledAreBeacons
    <2>3. above' \in Seq(Beacon \cup {Nil})
          BY <2>2
    <2> QED
        BY <2>1, <2>3 DEF Shape
  <1>8. CASE Leave
    <2>1. above' = <<Nil>> /\ UNCHANGED <<clearing, root, snap, children, fresh, raced>>
          BY <1>8 DEF Leave, task, scene
    <2> QED
        BY <2>1 DEF Shape
  <1>9. CASE Back \/ ExitToHome
    <2>1. UNCHANGED <<clearing, root, snap, children, fresh, raced>>
          BY <1>9 DEF Back, ExitToHome, task, scene
    <2>2. above' \in Seq(Beacon \cup {Nil})
      <3>1. CASE Back
        <4>1. Len(above) > 1 /\ above' = SubSeq(above, 1, Len(above) - 1)
              BY <3>1 DEF Back
        <4> QED
            BY <4>1 DEF Shape
      <3>2. CASE ExitToHome
            BY <3>2 DEF ExitToHome
      <3> QED
          BY <1>9, <3>1, <3>2
    <2> QED
        BY <2>1, <2>2 DEF Shape
  <1>10. CASE MakeRoot \/ AttachRoot \/ UNCHANGED vars
        BY <1>10 DEF MakeRoot, AttachRoot, vars, task, scene, Shape
  <1>11. CASE Snapshot
        BY <1>0, <1>11 DEF Snapshot, task, Shape
  <1>12. CASE Fill
        BY <1>12 DEF Fill, task, Shape
  <1> QED
      BY <1>1, <1>2, <1>3, <1>4, <1>5, <1>6, <1>7, <1>8, <1>9, <1>10, <1>11, <1>12
      DEF Next, Work, Render, User

\* The scene starts with the right types.
LEMMA InitShape == Init => LInv /\ Shape
  <1>1. Init => LInv
        BY InitIInv DEF Init, LInv, Lists, Distinct, Rest, OneEach, Added
  <1>2. ASSUME Init PROVE Shape
    <2>1. above \in Seq(Beacon \cup {Nil})
      <3>1. above = <<>>
            BY <1>2 DEF Init
      <3> QED
          BY <3>1
    <2> QED
        BY <1>2, <2>1 DEF Init, Shape
  <1> QED
      BY <1>1, <1>2

\* Every variable keeps its type, the screens that taps open included.
THEOREM TypeCorrect == Spec => []TypeOK
  <1>1. LInv /\ Shape => TypeOK
        BY DEF LInv, IInv, Threads, Lists, Distinct, Shape, TypeOK
  <1> QED
      BY <1>1, InitShape, NextLInv, NextShape, PTL DEF Spec

----------------------------------------------------------------------------
(* What a tap opens *)

\* A single position is the only order of itself.
LEMMA OneOrder == ASSUME NEW i PROVE Orders({i}) = {<<i>>}
  <1>1. Cardinality({i}) = 1
        BY FS_Singleton
  <1>2. ASSUME NEW f \in Orders({i}) PROVE f = <<i>>
    <2>1. f \in [1 .. 1 -> {i}]
          BY <1>1 DEF Orders
    <2>2. f[1] = i /\ DOMAIN f = 1 .. 1 /\ f = [k \in 1 .. 1 |-> f[k]]
          BY <2>1
    <2>3. <<i>> = [k \in 1 .. 1 |-> i]
          OBVIOUS
    <2>4. \A k \in 1 .. 1 : k = 1
          OBVIOUS
    <2> QED
        BY <2>2, <2>3, <2>4
  <1>3. <<i>> \in Orders({i})
    <2>1. <<i>> \in [1 .. 1 -> {i}] /\ DOMAIN <<i>> = 1 .. 1
          OBVIOUS
    <2> QED
        BY <1>1, <2>1 DEF Orders
  <1> QED
      BY <1>2, <1>3

\* A tap opens the beacon of the node that was hit, provided no other beacon of
\* the list has its title: the node shows a beacon of the list that is shown.
THEOREM TapsOpenTheirBeacon == Spec => []TapOpensTapped
  <1>1. LInv => TapOpensTapped
    <2> SUFFICES ASSUME LInv, Idle, root = "attached", fresh, ~raced, NEW n \in children,
                        \A i, j \in DOMAIN list :
                            list[i].title = n.beacon.title /\ list[j].title = n.beacon.title => i = j
                 PROVE  Titled(n.beacon.title) = {<<n.beacon>>}
        BY DEF TapOpensTapped
    <2>1. n \in nodes
          BY DEF LInv, IInv, Known, Idle
    <2>2. Added = Len(list) /\ DOMAIN list = 1 .. Len(list)
          BY DEF LInv, Lists, Distinct, Idle, Added
    <2>3. PICK i \in DOMAIN list : list[i] = n.beacon
          BY <2>1, <2>2 DEF LInv, OneEach
    <2>4. {j \in DOMAIN list : list[j].title = n.beacon.title} = {i}
          BY <2>3
    <2>5. Titled(n.beacon.title) = {[k \in DOMAIN f |-> list[f[k]]] : f \in {<<i>>}}
          BY <2>4, OneOrder DEF Titled
    <2>6. [k \in DOMAIN <<i>> |-> list[<<i>>[k]]] = <<n.beacon>>
      <3>1. [k \in 1 .. 1 |-> list[<<i>>[k]]] = <<list[i]>>
            OBVIOUS
      <3> QED
          BY <2>3, <3>1
    <2> QED
        BY <2>5, <2>6
  <1> QED
      BY <1>1, InitShape, NextLInv, NextShape, PTL DEF Spec

=============================================================================
