--------------------------- MODULE SceneLocation ---------------------------
(***************************************************************************)
(* How ARCL ties the scene to the world.  The camera gives a position in    *)
(* the scene, CoreLocation gives locations with an accuracy; each location  *)
(* that arrives is stored with the camera's position as an estimate.  A     *)
(* timer drops the estimates taken too far away and places every node: the  *)
(* best estimate, moved along with the camera, is where the user is, and a  *)
(* node is put at its distance from there, or at the limit of the scene in  *)
(* its direction.                                                           *)
(*                                                                         *)
(* One axis, northwards, in whole numbers; the scene's z axis points south  *)
(* and is negated.  place is where the device really is and origin where    *)
(* the origin of the scene really is: the app knows neither.  The session   *)
(* follows the device exactly while it runs and not at all while it is      *)
(* paused.                                                                  *)
(***************************************************************************)
EXTENDS Integers, FiniteSets

CONSTANTS
    Beacons,      \* the beacons' locations, by which they are told apart
    Limit,        \* sceneLimit, 100 m
    Places,       \* bound: where the device, the fixes and the scene's origin can be
    Accuracies,   \* bound: horizontalAccuracy of valid fixes
    MaxFixes,     \* bound: fixes that CoreLocation delivers
    Nil

ASSUME CoordinatesAreIntegers ==
    /\ Beacons \subseteq Int
    /\ Places \subseteq Int
    /\ Limit \in Nat \ {0}
    /\ Accuracies \subseteq Nat

\* CoreLocation marks a location as invalid by a negative accuracy.
Invalid == -1

\* A location, its accuracy and timestamp, the camera's position when it was stored,
\* and (history) how far the camera had moved since the location was computed.
Estimate == [loc : Int, acc : Accuracies \cup {Invalid}, time : Nat, pos : Int, slip : Nat]

\* The position of a node and the adjusted distance its size is computed from.
Placement == [pos : Int, distance : Nat \cup {Nil}]

ASSUME NilIsNothing == Nil \notin Placement \cup Nat

VARIABLES
    place,      \* where the device is
    origin,     \* where the origin of the scene is
    camera,     \* the session has a frame: the camera has a position
    running,    \* the session and the timer run: Home is on screen
    estimates,  \* sceneLocationEstimates
    fixes,      \* the number of fixes delivered, the next timestamp
    fetch,      \* where the render thread is in fetching the initial location
    initial,    \* the estimate it has in hand, Nil if none
    seen,       \* the array as it read it when it began to append that estimate
    nodes,      \* for each beacon the placement of its node, Nil without a node
    misled      \* history: the session missed a move, or a fix was not valid

render == <<fetch, initial, seen>>
vars   == <<place, origin, camera, running, estimates, fixes, fetch, initial, seen, nodes, misled>>

TypeOK ==
    /\ place \in Int
    /\ origin \in Int
    /\ camera \in BOOLEAN
    /\ running \in BOOLEAN
    /\ estimates \subseteq Estimate
    /\ fixes \in Nat
    /\ fetch \in {"none", "located", "appending", "done"}
    /\ initial \in Estimate \cup {Nil}
    /\ seen \subseteq Estimate
    /\ nodes \in [Beacons -> Placement \cup {Nil}]
    /\ misled \in BOOLEAN

\* Home has appeared.
Init ==
    /\ place \in Places
    /\ origin = place
    /\ camera = FALSE
    /\ running = TRUE
    /\ estimates = {}
    /\ fixes = 0
    /\ fetch = "none" /\ initial = Nil /\ seen = {}
    /\ nodes = [b \in Beacons |-> Nil]
    /\ misled = FALSE

Distance(x, y) == IF x < y THEN y - x ELSE x - y

\* currentScenePosition, once there is a camera.
ScenePosition == place - origin

\* Mutant of Best: the most recent, of these the most accurate.
BestRecent(S) ==
    {e \in S : \A f \in S : e.time > f.time \/ (e.time = f.time /\ e.acc <= f.acc)}

\* bestLocationEstimate: the most accurate, of these the most recent.
Best(S) ==
    {e \in S : \A f \in S : e.acc < f.acc \/ (e.acc = f.acc /\ e.time >= f.time)}

\* Mutant of Translated: the z axis is taken to point north.
TranslatedSouth(e, pos) == e.loc - (pos - e.pos)

\* translatedLocation(to:)
Translated(e, pos) == e.loc + (pos - e.pos)

\* removeOldLocationEstimates
InRange(S, pos) == {e \in S : Distance(e.pos, pos) <= Limit}

\* Mutant of Placed: the distance keeps its sign.
PlacedSigned(b, e, pos) ==
    LET here == Translated(e, pos)
    IN  IF Distance(b, here) <= Limit
        THEN [pos |-> pos + (b - here), distance |-> b - here]
        ELSE [pos |-> IF b > here THEN pos + Limit ELSE pos - Limit, distance |-> Limit]

\* updatePositionAndScale of a node at location b with the best estimate e.
Placed(b, e, pos) ==
    LET here == Translated(e, pos)
    IN  IF Distance(b, here) <= Limit
        THEN [pos |-> pos + (b - here), distance |-> Distance(b, here)]
        ELSE [pos |-> IF b > here THEN pos + Limit ELSE pos - Limit, distance |-> Limit]

----------------------------------------------------------------------------
(* The device *)

\* The session follows the device.
Move ==
    /\ running
    /\ \E p \in Places : Distance(p, place) = 1 /\ place' = p
    /\ UNCHANGED <<origin, camera, running, estimates, fixes, render, nodes, misled>>

\* A paused session does not notice: when it runs again, the scene has moved
\* along with the device.
MoveUnnoticed ==
    /\ ~running
    /\ \E p \in Places :
          /\ Distance(p, place) = 1
          /\ place' = p
          /\ origin' = IF camera THEN origin + (p - place) ELSE origin
          /\ origin' \in Places
    /\ misled' = TRUE
    /\ UNCHANGED <<camera, running, estimates, fixes, render, nodes>>

\* The first frame of the session: the scene begins where the device is.
FirstFrame ==
    /\ running /\ ~camera
    /\ camera' = TRUE
    /\ origin' = place
    /\ UNCHANGED <<place, running, estimates, fixes, render, nodes, misled>>

\* locationManagerDidUpdateLocation, also while Home is covered: a location that
\* arrives before there is a camera is dropped.
Fix(acc, loc) ==
    /\ fixes < MaxFixes
    /\ fixes' = fixes + 1
    /\ estimates' = IF camera
                    THEN estimates \cup {[loc |-> loc, acc |-> acc, time |-> fixes,
                                          pos |-> ScenePosition, slip |-> 0]}
                    ELSE estimates
    /\ UNCHANGED <<place, origin, camera, running, render, nodes>>

\* A fix that is as good as it says.
ValidFix ==
    /\ \E acc \in Accuracies, loc \in Places : Distance(loc, place) <= acc /\ Fix(acc, loc)
    /\ UNCHANGED misled

InvalidFix ==
    /\ \E loc \in Places : Fix(Invalid, loc)
    /\ misled' = TRUE

----------------------------------------------------------------------------
(* The app *)

\* The render thread, once: from the best estimate and the camera's position it
\* computes the current location (SceneLocationManager.swift:65).
FetchInitialLocation ==
    /\ running /\ camera /\ fetch = "none"
    /\ \E e \in Best(estimates) :
          initial' = [e EXCEPT !.loc = Translated(e, ScenePosition), !.pos = ScenePosition]
    /\ fetch' = "located"
    /\ UNCHANGED <<place, origin, camera, running, estimates, fixes, seen, nodes, misled>>

\* It reads the camera's position again for the estimate it makes of that location
\* (line 88), and the array it is going to append it to.
PositionInitialLocation ==
    /\ fetch = "located"
    /\ initial' =
          [initial EXCEPT !.pos = ScenePosition,
                          !.slip = initial.slip + Distance(initial.pos, ScenePosition)]
    /\ seen' = estimates
    /\ fetch' = "appending"
    /\ UNCHANGED <<place, origin, camera, running, estimates, fixes, nodes, misled>>

\* It writes the array back (line 90), which nothing protects: the addition may be
\* lost to a write of the main thread, or undo what the main thread wrote since.
StoreInitialLocation ==
    /\ fetch = "appending"
    /\ \/ UNCHANGED estimates
       \/ \E kept \in {estimates, seen} : estimates' = kept \cup {initial}
    /\ fetch' = "done" /\ initial' = Nil /\ seen' = {}
    /\ UNCHANGED <<place, origin, camera, running, fixes, nodes, misled>>

\* Mutant of Tick: nodes are only placed when they are added.
TickOnlyDrops ==
    /\ running /\ camera
    /\ estimates' = InRange(estimates, ScenePosition)
    /\ UNCHANGED <<place, origin, camera, running, fixes, render, nodes, misled>>

\* updateLocationData: old estimates go, then every node is placed, if there is
\* still an estimate.
Tick ==
    /\ running /\ camera
    /\ estimates' = InRange(estimates, ScenePosition)
    /\ \/ estimates' = {} /\ UNCHANGED nodes
       \/ \E e \in Best(estimates') :
             nodes' = [b \in Beacons |->
                          IF nodes[b] = Nil THEN Nil ELSE Placed(b, e, ScenePosition)]
    /\ UNCHANGED <<place, origin, camera, running, fixes, render, misled>>

\* addLocationNodeWithConfirmedLocation: without a camera or an estimate the
\* node stays at the origin until the timer places it.
AddNode(b) ==
    /\ nodes[b] = Nil
    /\ \/ /\ ~camera \/ estimates = {}
          /\ nodes' = [nodes EXCEPT ![b] = [pos |-> 0, distance |-> Nil]]
       \/ /\ camera
          /\ \E e \in Best(estimates) :
                nodes' = [nodes EXCEPT ![b] = Placed(b, e, ScenePosition)]
    /\ UNCHANGED <<place, origin, camera, running, estimates, fixes, render, misled>>

\* removeAllNodes
RemoveNodes ==
    /\ nodes' = [b \in Beacons |-> Nil]
    /\ UNCHANGED <<place, origin, camera, running, estimates, fixes, render, misled>>

\* pause, when Home is covered
Pause ==
    /\ running
    /\ running' = FALSE
    /\ UNCHANGED <<place, origin, camera, estimates, fixes, render, nodes, misled>>

\* run, when it appears again
Run ==
    /\ ~running
    /\ running' = TRUE
    /\ UNCHANGED <<place, origin, camera, estimates, fixes, render, nodes, misled>>

----------------------------------------------------------------------------

Device == Move \/ MoveUnnoticed \/ FirstFrame \/ ValidFix \/ InvalidFix

Render == FetchInitialLocation \/ PositionInitialLocation \/ StoreInitialLocation

App == Render \/ Tick \/ (\E b \in Beacons : AddNode(b)) \/ RemoveNodes
          \/ Pause \/ Run

Next == Device \/ App

Spec == Init /\ [][Next]_vars

\* The timer fires as long as Home is on screen.
FairSpec == Spec /\ WF_vars(Tick)

----------------------------------------------------------------------------
(* Properties *)

\* An estimate says where the origin of the scene is, and is right within its
\* accuracy, wherever the device went since, as long as the user stands still while
\* the session is paused and all fixes are valid.  The one estimate of the render
\* thread is off by what the camera moved between its two reads besides; what the
\* race for the array brings back or loses changes nothing.
EstimatesAreTrue ==
    ~misled => \A e \in estimates : Distance(e.loc - e.pos, origin) <= e.acc + e.slip

\* What a placement n promises of a beacon at b to a device at p, if the scene
\* begins at o and an estimate has accuracy a: within the limit the node is where
\* the beacon is, within a; farther away it is at the limit, and on the right side
\* unless the beacon is nearer than a.
Right(n, b, p, o, a) ==
    IF n.distance < Limit
    THEN Distance(o + n.pos, b) <= a
    ELSE /\ Distance(o + n.pos, p) = Limit
         /\ b > p + a => o + n.pos > p
         /\ b < p - a => o + n.pos < p

PlacingStep ==
    \A b \in Beacons :
       nodes'[b] \notin {Nil, nodes[b]} /\ nodes'[b].distance # Nil =>
          \E x \in Best(estimates') : \A e \in estimates' :
             Right(nodes'[b], b, place', origin', e.acc + x.slip)

\* Unless the app is misled, a node that is placed is right by the measure of every
\* estimate the app still has, the most accurate one included, and of the slip of
\* the estimate it is placed with.
NodesArePlacedRight == [][~misled => PlacingStep]_vars

\* A node that was added before the device knew where it is gets its place.
NodesGetPlaced ==
    \A b \in Beacons :
        (nodes[b] # Nil /\ nodes[b].distance = Nil)
            ~> \/ nodes[b] = Nil \/ nodes[b].distance # Nil
               \/ ~running \/ ~camera \/ InRange(estimates, ScenePosition) = {}

============================================================================
