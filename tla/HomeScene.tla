----------------------------- MODULE HomeScene -----------------------------
(***************************************************************************)
(* Home's augmented-reality scene.  HomeController adds a node for each     *)
(* beacon of every list it is given; SceneLocationView keeps the nodes in   *)
(* its list locationNodes and as children of its scene node.  The main      *)
(* thread adds and removes nodes, while the scene node itself is made by    *)
(* the render thread after the first frame, filled with the nodes the view  *)
(* has by then, and only then put under the root of the scene.              *)
(*                                                                         *)
(* Actions of the two threads interleave between the accesses to            *)
(* locationNodes, sceneNode and the children.  The main thread runs one     *)
(* handler at a time.  Reading a Swift array while the other thread assigns *)
(* it is taken to return the old or the new array.                          *)
(***************************************************************************)
EXTENDS Naturals, Sequences, FiniteSets

CONSTANTS
    NumKeys,     \* bound: beacons in the database, by the order of their keys
    Titles,
    Objects,     \* bound: identities of nodes in memory
    MaxWaiting,  \* bound: completions of a fetch that are outstanding
    Nil

Beacon == [key : 1..NumKeys, title : Titles]

\* A node shows one beacon and bears its title as name.
Node == [beacon : Beacon, object : Objects]

ASSUME KeysAreCounted == NumKeys \in Nat

ASSUME NilIsNoNode == Nil \notin Node \cup Beacon \cup Titles

VARIABLES
    above,     \* the screens pushed on Home: a Details screen's beacon, Nil for others
    waiting,   \* observers of Home that wait for the server's answer
    due,       \* lists of answered observers, whose completions are on the main queue
    list,      \* HomeController.beacons
    nodes,     \* locationNodes
    todo,      \* the beacons for which the running handler still adds a node
    adding,    \* the node in locationNodes that it did not yet put in the scene
    clearing,  \* it emptied locationNodes and did not yet remove the children
    root,      \* sceneNode: "none", "made", "filling" in its didSet, "attached"
    snap,      \* the nodes that didSet has still to add
    children,  \* the children of sceneNode
    fresh,     \* history: no list came on top of nodes that were there
    raced      \* history: nodes were removed while didSet was adding them

scene == <<root, snap, children>>
task  == <<todo, adding, clearing>>
fetch == <<waiting, due>>
vars  == <<above, fetch, list, nodes, task, scene, fresh, raced>>

TypeOK ==
    /\ above \in Seq(Beacon \cup {Nil})
    /\ waiting \in Nat
    /\ due \in Seq(Seq(Beacon))
    /\ list \in Seq(Beacon)
    /\ nodes \subseteq Node
    /\ todo \in Seq(Beacon)
    /\ adding \in nodes \cup {Nil}
    /\ clearing \in BOOLEAN
    /\ root \in {"none", "made", "filling", "attached"}
    /\ snap \subseteq Node
    /\ children \subseteq Node
    /\ fresh \in BOOLEAN
    /\ raced \in BOOLEAN

\* Home has appeared for the first time and fetches its list.
Init ==
    /\ above = <<>>
    /\ waiting = 1
    /\ due = <<>>
    /\ list = <<>>
    /\ nodes = {}
    /\ todo = <<>>
    /\ adding = Nil
    /\ clearing = FALSE
    /\ root = "none"
    /\ snap = {}
    /\ children = {}
    /\ fresh = TRUE
    /\ raced = FALSE

AtHome == above = <<>>

\* The main thread runs no handler.
Idle == todo = <<>> /\ adding = Nil /\ ~clearing

\* The lists of an answer: beacons in the order of their keys.
Listings ==
    {l \in UNION {[1..n -> Beacon] : n \in 0..NumKeys} :
        \A i, j \in DOMAIN l : i < j => l[i].key < l[j].key}

\* The members of a set of positions, from the first to the last: the only such
\* function, written as a set of one element.
Orders(S) ==
    {f \in [1..Cardinality(S) -> S] : \A i, j \in DOMAIN f : i < j => f[i] < f[j]}

\* The beacons of the list with this title, in the order of the list.
Titled(title) ==
    {[k \in DOMAIN f |-> list[f[k]]] : f \in Orders({i \in DOMAIN list : list[i].title = title})}

InUse == {n.object : n \in nodes \cup children \cup snap}

RoomFor(beacons) == Cardinality(InUse) + Len(beacons) <= Cardinality(Objects)

----------------------------------------------------------------------------
(* The main thread: fetching and adding nodes *)

\* The server answers; all waiting observers get the same list, each in a
\* block of its own on the main queue.
Answer ==
    /\ waiting > 0
    /\ \E l \in Listings : due' = due \o [i \in 1..waiting |-> l]
    /\ waiting' = 0
    /\ UNCHANGED <<above, list, nodes, task, scene, fresh, raced>>

\* Mutant of Complete: the completion forgets to keep the list.
CompleteKeepingList ==
    /\ Idle
    /\ due # <<>>
    /\ RoomFor(Head(due))
    /\ todo' = Head(due)
    /\ due' = Tail(due)
    /\ fresh' = (nodes = {})
    /\ UNCHANGED <<above, waiting, list, nodes, adding, clearing, scene, raced>>

\* The completion in viewWillAppear begins to add a node for each beacon.
\* Nodes from an earlier list stay.
Complete ==
    /\ Idle
    /\ due # <<>>
    /\ RoomFor(Head(due))
    /\ list' = Head(due)
    /\ todo' = Head(due)
    /\ due' = Tail(due)
    /\ fresh' = (nodes = {})
    /\ UNCHANGED <<above, waiting, nodes, adding, clearing, scene, raced>>

\* addLocationNodeWithConfirmedLocation, up to locationNodes.append.
AppendNode ==
    /\ todo # <<>> /\ adding = Nil /\ ~clearing
    /\ \E n \in Node :
          /\ n.beacon = Head(todo)
          /\ n.object \notin InUse
          /\ nodes' = nodes \cup {n}
          /\ adding' = n
    /\ UNCHANGED <<above, fetch, list, todo, clearing, scene, fresh, raced>>

\* Mutant of Attach: the node is only added to a scene that is on screen.
AttachIfAttached ==
    /\ adding # Nil
    /\ children' = IF root = "attached" THEN children \cup {adding} ELSE children
    /\ adding' = Nil
    /\ todo' = Tail(todo)
    /\ UNCHANGED <<above, fetch, list, nodes, clearing, root, snap, fresh, raced>>

\* sceneNode?.addChildNode(locationNode) ends adding this node.
Attach ==
    /\ adding # Nil
    /\ children' = IF root = "none" THEN children ELSE children \cup {adding}
    /\ adding' = Nil
    /\ todo' = Tail(todo)
    /\ UNCHANGED <<above, fetch, list, nodes, clearing, root, snap, fresh, raced>>

\* Mutant of SwitchPressed: the nodes are removed on another thread than the
\* one that adds nodes.
SwitchAnyTime ==
    /\ ~clearing /\ AtHome
    /\ RoomFor(list)
    /\ nodes' = {}
    /\ clearing' = TRUE
    /\ todo' = list
    /\ fresh' = TRUE
    /\ raced' = (root = "filling" \/ (raced /\ root # "attached"))
    /\ UNCHANGED <<above, fetch, list, adding, scene>>

\* Mutant of SwitchPressed: it adds the nodes without removing the old ones.
SwitchAdds ==
    /\ Idle /\ AtHome
    /\ RoomFor(list)
    /\ todo' = list
    /\ fresh' = TRUE
    /\ raced' = (root = "filling" \/ (raced /\ root # "attached"))
    /\ UNCHANGED <<above, fetch, list, nodes, adding, clearing, scene>>

\* The frame switch: removeAllNodes empties locationNodes; the handler then
\* adds the nodes of the current list again.
SwitchPressed ==
    /\ Idle /\ AtHome
    /\ RoomFor(list)
    /\ nodes' = {}
    /\ clearing' = TRUE
    /\ todo' = list
    /\ fresh' = TRUE
    /\ raced' = (root = "filling" \/ (raced /\ root # "attached"))
    /\ UNCHANGED <<above, fetch, list, adding, scene>>

\* Mutant of Clear: the children stay in the scene.
ClearViewOnly ==
    /\ clearing
    /\ clearing' = FALSE
    /\ UNCHANGED <<above, fetch, list, nodes, todo, adding, scene, fresh, raced>>

\* The rest of removeAllNodes: the children leave the scene node, if there is one.
Clear ==
    /\ clearing
    /\ children' = IF root = "none" THEN children ELSE {}
    /\ clearing' = FALSE
    /\ UNCHANGED <<above, fetch, list, nodes, todo, adding, root, snap, fresh, raced>>

----------------------------------------------------------------------------
(* The main thread: taps and navigation *)

\* touchesBegan: every beacon of the list with the title of the node that was hit
\* (hitTest finds the closest) opens a Details screen; return only leaves the
\* closure of forEach.
Tap(n) ==
    /\ Idle /\ AtHome
    /\ root = "attached" /\ n \in children
    /\ above' \in Titled(n.beacon.title)
    /\ UNCHANGED <<fetch, list, nodes, task, scene, fresh, raced>>

\* The buttons that open Profile and the creation screen.
Leave ==
    /\ Idle /\ AtHome
    /\ above' = <<Nil>>
    /\ UNCHANGED <<fetch, list, nodes, task, scene, fresh, raced>>

\* Back from a Details screen on top of another one.
Back ==
    /\ Idle
    /\ Len(above) > 1
    /\ above' = SubSeq(above, 1, Len(above) - 1)
    /\ UNCHANGED <<fetch, list, nodes, task, scene, fresh, raced>>

\* exitToHome, or back from the only screen: viewWillAppear fetches again.
ExitToHome ==
    /\ Idle
    /\ above # <<>>
    /\ waiting + Len(due) < MaxWaiting
    /\ above' = <<>>
    /\ waiting' = waiting + 1
    /\ UNCHANGED <<due, list, nodes, task, scene, fresh, raced>>

----------------------------------------------------------------------------
(* The render thread: renderer(_:didRenderScene:atTime:) *)

\* sceneNode = SCNNode(), when a frame was rendered; frames are rendered while
\* Home is on screen.
MakeRoot ==
    /\ AtHome
    /\ root = "none"
    /\ root' = "made"
    /\ UNCHANGED <<above, fetch, list, nodes, task, snap, children, fresh, raced>>

\* Mutant of Snapshot: there is no didSet.
SnapshotNothing ==
    /\ root = "made"
    /\ root' = "filling"
    /\ UNCHANGED <<above, fetch, list, nodes, task, snap, children, fresh, raced>>

\* didSet of sceneNode reads locationNodes ...
Snapshot ==
    /\ root = "made"
    /\ root' = "filling"
    /\ snap' = nodes
    /\ UNCHANGED <<above, fetch, list, nodes, task, children, fresh, raced>>

\* ... and adds them one by one.
Fill ==
    /\ root = "filling"
    /\ \E n \in snap :
          /\ children' = children \cup {n}
          /\ snap' = snap \ {n}
    /\ UNCHANGED <<above, fetch, list, nodes, task, root, fresh, raced>>

\* scene.rootNode.addChildNode(sceneNode!)
AttachRoot ==
    /\ root = "filling" /\ snap = {}
    /\ root' = "attached"
    /\ UNCHANGED <<above, fetch, list, nodes, task, snap, children, fresh, raced>>

----------------------------------------------------------------------------

Work   == AppendNode \/ Attach \/ Clear
Render == MakeRoot \/ Snapshot \/ Fill \/ AttachRoot
User   == SwitchPressed \/ (\E n \in Node : Tap(n)) \/ Leave \/ Back \/ ExitToHome

Next == Answer \/ Complete \/ Work \/ Render \/ User

Spec == Init /\ [][Next]_vars

\* A handler that was begun runs to its end, and frames are rendered while Home
\* stays on screen.
FairSpec == Spec /\ WF_vars(Work) /\ WF_vars(Render)

----------------------------------------------------------------------------
(* Properties *)

\* Whatever the order of append and addChildNode on the main thread and of
\* setting sceneNode and reading locationNodes on the render thread, a node the
\* view was given is in the scene once both threads are done.
NodesShown == Idle /\ root = "attached" => nodes \subseteq children

\* The scene shows nothing the view has forgotten, unless the frame switch was
\* pressed in the first frame: then didSet may add nodes that removeAllNodes has
\* removed, and they stay until the switch is pressed again.
NoGhosts == Idle /\ root = "attached" /\ ~raced => children \subseteq nodes

\* The nodes added by one list to an empty view are one for each of its beacons.
\* Each further appearance of Home adds all of them again.
OneNodeEach ==
    Idle /\ fresh =>
        \A i \in DOMAIN list : Cardinality({n \in nodes : n.beacon = list[i]}) = 1

\* A tap on such a node opens one Details screen, with the beacon of the node,
\* provided its title is the only one of its kind in the list: touchesBegan has
\* nothing but the name of the node and the current list.
TapOpensTapped ==
    Idle /\ AtHome /\ root = "attached" /\ fresh /\ ~raced =>
        \A n \in children :
            (\A i, j \in DOMAIN list :
                list[i].title = n.beacon.title /\ list[j].title = n.beacon.title => i = j)
            => Titled(n.beacon.title) = {<<n.beacon>>}

\* A node the view was given appears, while Home stays on screen.
NodesAppear ==
    \A n \in Node :
        n \in nodes ~> \/ n \in children /\ root = "attached"
                       \/ n \notin nodes
                       \/ ~AtHome

============================================================================
