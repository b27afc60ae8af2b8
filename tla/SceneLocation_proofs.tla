------------------------ MODULE SceneLocation_proofs ------------------------
(* Proofs about SceneLocation, for any places, accuracies and limit. *)
EXTENDS SceneLocation, TLAPS

\* A distance is not negative.
LEMMA DistanceType == \A x, y \in Int : Distance(x, y) \in Nat
  BY DEF Distance

\* Where a location and a scene position lead is a location again.
LEMMA TranslatedType ==
    ASSUME NEW e \in Estimate, NEW pos \in Int
    PROVE  Translated(e, pos) \in Int
  BY DEF Estimate, Translated

\* A placement has a position and a distance.
LEMMA PlacedType ==
    ASSUME NEW b \in Beacons, NEW e \in Estimate, NEW pos \in Int
    PROVE  Placed(b, e, pos) \in Placement
  <1> DEFINE here == Translated(e, pos)
  <1>1. b \in Int /\ here \in Int /\ Limit \in Nat
        BY CoordinatesAreIntegers, TranslatedType
  <1>2. Distance(b, here) \in Nat
        BY <1>1, DistanceType
  <1> HIDE DEF here
  <1>3. CASE Distance(b, here) <= Limit
    <2>1. Placed(b, e, pos) = [pos |-> pos + (b - here), distance |-> Distance(b, here)]
          BY <1>3 DEF Placed, here
    <2> QED
        BY <2>1, <1>1, <1>2 DEF Placement
  <1>4. CASE ~(Distance(b, here) <= Limit)
    <2>1. Placed(b, e, pos) =
              [pos |-> IF b > here THEN pos + Limit ELSE pos - Limit, distance |-> Limit]
          BY <1>4 DEF Placed, here
    <2> QED
        BY <2>1, <1>1 DEF Placement
  <1> QED
      BY <1>3, <1>4

-----------------------------------------------------------------------------
(* Types *)

\* Before the first frame nothing is known; this lets the scene begin anywhere.
NothingBefore == ~camera => estimates = {} /\ seen = {} /\ fetch = "none"

\* The render thread has an estimate in hand while it fetches.
InHand == fetch \in {"located", "appending"} => initial \in Estimate

TInv == TypeOK /\ NothingBefore /\ InHand

\* Home starts with the right types and without estimates.
LEMMA InitTypes == Init => TInv
  <1> SUFFICES ASSUME Init PROVE TInv
      OBVIOUS
  <1>1. place \in Int /\ origin \in Int
        BY CoordinatesAreIntegers DEF Init
  <1>2. nodes \in [Beacons -> Placement \cup {Nil}]
        BY DEF Init
  <1>3. /\ camera \in BOOLEAN /\ running \in BOOLEAN
        /\ fetch = "none" /\ initial = Nil /\ seen = {}
        /\ estimates \subseteq Estimate /\ fixes \in Nat /\ misled \in BOOLEAN
        BY DEF Init
  <1> QED
      BY <1>1, <1>2, <1>3 DEF TInv, TypeOK, NothingBefore, InHand, Init

\* A location that arrives becomes an estimate.
LEMMA FixTypes ==
    ASSUME TInv, NEW acc \in Accuracies \cup {Invalid}, NEW loc \in Places, Fix(acc, loc),
           misled' \in BOOLEAN
    PROVE  TInv'
  <1>1. [loc |-> loc, acc |-> acc, time |-> fixes, pos |-> ScenePosition, slip |-> 0]
            \in Estimate
        BY CoordinatesAreIntegers DEF TInv, TypeOK, Estimate, ScenePosition
  <1> QED
      BY <1>1 DEF TInv, TypeOK, NothingBefore, InHand, Fix, render

\* Placing all nodes gives each a placement.
LEMMA TickTypes == TInv /\ Tick => TInv'
  <1> SUFFICES ASSUME TInv, Tick PROVE TInv'
      OBVIOUS
  <1>1. estimates' \subseteq estimates
        BY DEF Tick, InRange
  <1>2. nodes' \in [Beacons -> Placement \cup {Nil}]
    <2>1. CASE UNCHANGED nodes
          BY <2>1 DEF TInv, TypeOK
    <2>2. ASSUME NEW e \in Best(estimates'),
                 nodes' = [b \in Beacons |->
                              IF nodes[b] = Nil THEN Nil ELSE Placed(b, e, ScenePosition)]
          PROVE  nodes' \in [Beacons -> Placement \cup {Nil}]
      <3>1. e \in Estimate /\ ScenePosition \in Int
            BY <1>1, <2>2 DEF TInv, TypeOK, Best, ScenePosition
      <3>2. \A b \in Beacons : Placed(b, e, ScenePosition) \in Placement
            BY <3>1, PlacedType
      <3> QED
          BY <2>2, <3>2
    <2> QED
        BY <2>1, <2>2 DEF Tick
  <1> QED
      BY <1>1, <1>2 DEF TInv, TypeOK, NothingBefore, InHand, Tick, render

\* The node of a beacon gets a placement, or stays at the origin.
LEMMA AddNodeTypes ==
    ASSUME TInv, NEW b \in Beacons, AddNode(b)
    PROVE  TInv'
  <1>1. nodes' \in [Beacons -> Placement \cup {Nil}]
    <2>1. CASE nodes' = [nodes EXCEPT ![b] = [pos |-> 0, distance |-> Nil]]
      <3>1. [pos |-> 0, distance |-> Nil] \in Placement
            BY DEF Placement
      <3> QED
          BY <2>1, <3>1 DEF TInv, TypeOK
    <2>2. ASSUME NEW e \in Best(estimates),
                 nodes' = [nodes EXCEPT ![b] = Placed(b, e, ScenePosition)]
          PROVE  nodes' \in [Beacons -> Placement \cup {Nil}]
      <3>1. e \in Estimate /\ ScenePosition \in Int
            BY <2>2 DEF TInv, TypeOK, Best, ScenePosition
      <3>2. Placed(b, e, ScenePosition) \in Placement
            BY <3>1, PlacedType
      <3> QED
          BY <2>2, <3>2 DEF TInv, TypeOK
    <2> QED
        BY <2>1, <2>2 DEF AddNode
  <1> QED
      BY <1>1 DEF TInv, TypeOK, NothingBefore, InHand, AddNode, render

\* What the render thread computes is an estimate at the camera's position.
LEMMA LocatedType ==
    ASSUME TypeOK, NEW e \in estimates
    PROVE  [e EXCEPT !.loc = Translated(e, ScenePosition), !.pos = ScenePosition] \in Estimate
  <1>1. e \in Estimate /\ ScenePosition \in Int
        BY DEF TypeOK, ScenePosition
  <1>2. Translated(e, ScenePosition) \in Int
        BY <1>1, TranslatedType
  <1> QED
      BY <1>1, <1>2 DEF Estimate

\* The initial location is computed, given a position, and stored as an estimate.
LEMMA RenderTypes == TInv /\ Render => TInv'
  <1> SUFFICES ASSUME TInv, Render PROVE TInv'
      OBVIOUS
  <1>1. CASE FetchInitialLocation
    <2>1. PICK e \in Best(estimates) :
             initial' = [e EXCEPT !.loc = Translated(e, ScenePosition), !.pos = ScenePosition]
          BY <1>1 DEF FetchInitialLocation
    <2>2. initial' \in Estimate
          BY <2>1, LocatedType DEF Best, TInv
    <2> QED
        BY <1>1, <2>2 DEF FetchInitialLocation, TInv, TypeOK, NothingBefore, InHand
  <1>2. CASE PositionInitialLocation
    <2>1. initial \in Estimate /\ ScenePosition \in Int
          BY <1>2 DEF PositionInitialLocation, TInv, TypeOK, InHand, ScenePosition
    <2>2. Distance(initial.pos, ScenePosition) \in Nat
          BY <2>1, DistanceType DEF Estimate
    <2> DEFINE off == initial.slip + Distance(initial.pos, ScenePosition)
    <2>4. off \in Nat
          BY <2>1, <2>2 DEF Estimate
    <2>5. initial' = [initial EXCEPT !.pos = ScenePosition, !.slip = off]
          BY <1>2 DEF PositionInitialLocation
    <2> HIDE DEF off
    <2>6. initial' = [loc |-> initial.loc, acc |-> initial.acc, time |-> initial.time,
                      pos |-> ScenePosition, slip |-> off]
          BY <2>1, <2>5 DEF Estimate
    <2>3. initial' \in Estimate
          BY <2>1, <2>4, <2>6 DEF Estimate
    <2> QED
        BY <1>2, <2>3 DEF PositionInitialLocation, TInv, TypeOK, NothingBefore, InHand
  <1>3. CASE StoreInitialLocation
    <2>1. estimates' \subseteq estimates \cup seen \cup {initial}
          BY <1>3 DEF StoreInitialLocation
    <2>2. estimates' \subseteq Estimate /\ camera
          BY <1>3, <2>1 DEF StoreInitialLocation, TInv, TypeOK, NothingBefore, InHand
    <2> QED
        BY <1>3, <2>2 DEF StoreInitialLocation, TInv, TypeOK, NothingBefore, InHand
  <1> QED
      BY <1>1, <1>2, <1>3 DEF Render

\* No step spoils a type, or brings an estimate before the first frame.
LEMMA NextTypes == TInv /\ [Next]_vars => TInv'
  <1> SUFFICES ASSUME TInv, [Next]_vars PROVE TInv'
      OBVIOUS
  <1>1. CASE Move
        BY <1>1, CoordinatesAreIntegers DEF Move, TInv, TypeOK, NothingBefore, InHand, render
  <1>2. CASE MoveUnnoticed
        BY <1>2, CoordinatesAreIntegers DEF MoveUnnoticed, TInv, TypeOK, NothingBefore, InHand, render
  <1>3. CASE FirstFrame
        BY <1>3 DEF FirstFrame, TInv, TypeOK, NothingBefore, InHand, render
  <1>4. CASE ValidFix
    <2>1. misled' \in BOOLEAN
          BY <1>4 DEF ValidFix, TInv, TypeOK
    <2> QED
        BY <1>4, <2>1, FixTypes DEF ValidFix
  <1>5. CASE InvalidFix
    <2>1. misled' \in BOOLEAN
          BY <1>5 DEF InvalidFix
    <2> QED
        BY <1>5, <2>1, FixTypes DEF InvalidFix
  <1>6. CASE Render
        BY <1>6, RenderTypes
  <1>7. CASE Tick
        BY <1>7, TickTypes
  <1>8. CASE \E b \in Beacons : AddNode(b)
        BY <1>8, AddNodeTypes
  <1>9. CASE RemoveNodes
        BY <1>9 DEF RemoveNodes, TInv, TypeOK, NothingBefore, InHand, render
  <1>10. CASE Pause \/ Run
        BY <1>10 DEF Pause, Run, TInv, TypeOK, NothingBefore, InHand, render
  <1>11. CASE UNCHANGED vars
        BY <1>11 DEF vars, TInv, TypeOK, NothingBefore, InHand, render
  <1> QED
      BY <1>1, <1>2, <1>3, <1>4, <1>5, <1>6, <1>7, <1>8, <1>9, <1>10, <1>11
      DEF Next, Device, App

\* Positions, locations and distances keep their types, whatever fixes come.
THEOREM TypeCorrect == Spec => []TypeOK
  <1>1. TInv => TypeOK
        BY DEF TInv
  <1> QED
      BY <1>1, InitTypes, NextTypes, PTL DEF Spec

-----------------------------------------------------------------------------
(* Estimates *)

\* An estimate is true if the scene begins at o.
Claim(e, o) == Distance(e.loc - e.pos, o) <= e.acc + e.slip

\* What is in the array, what the render thread read of it, and what it is going to
\* add is all true.
AllTrue ==
    ~misled => /\ \A e \in estimates \cup seen : Claim(e, origin)
               /\ fetch \in {"located", "appending"} => Claim(initial, origin)

EInv == TInv /\ AllTrue

\* There is no estimate at first.
LEMMA InitEstimates == Init => EInv
  BY InitTypes DEF EInv, AllTrue, Init

\* A valid fix ties the camera's position to a location as near as it says.
LEMMA FixIsTrue ==
    ASSUME EInv, ValidFix, ~misled
    PROVE  AllTrue'
  <1>1. PICK acc \in Accuracies, loc \in Places : Distance(loc, place) <= acc /\ Fix(acc, loc)
        BY DEF ValidFix
  <1> DEFINE new == [loc |-> loc, acc |-> acc, time |-> fixes, pos |-> ScenePosition,
                     slip |-> 0]
  <1>2. /\ estimates' \subseteq estimates \cup {new}
        /\ origin' = origin /\ fetch' = fetch /\ initial' = initial /\ seen' = seen
        BY <1>1 DEF Fix, render
  <1>3. Claim(new, origin)
    <2>1. loc \in Int /\ place \in Int /\ origin \in Int /\ acc \in Int
          BY CoordinatesAreIntegers DEF EInv, TInv, TypeOK
    <2>2. Distance(loc - (place - origin), origin) = Distance(loc, place)
          BY <2>1 DEF Distance
    <2> QED
        BY <1>1, <2>1, <2>2 DEF ScenePosition, Claim
  <1> HIDE DEF new
  <1> QED
      BY <1>2, <1>3 DEF EInv, AllTrue

\* The location the render thread computes says the same of the scene's origin as
\* the estimate it is computed from.
LEMMA LocatedIsTrue ==
    ASSUME EInv, FetchInitialLocation, ~misled
    PROVE  AllTrue'
  <1>1. PICK e \in Best(estimates) :
           initial' = [e EXCEPT !.loc = Translated(e, ScenePosition), !.pos = ScenePosition]
        BY DEF FetchInitialLocation
  <1>2. e \in estimates /\ e \in Estimate /\ ScenePosition \in Int
        BY <1>1 DEF Best, EInv, TInv, TypeOK, ScenePosition
  <1>3. /\ initial'.loc = e.loc + (ScenePosition - e.pos)
        /\ initial'.pos = ScenePosition
        /\ initial'.acc = e.acc /\ initial'.slip = e.slip
        BY <1>1, <1>2 DEF Translated, Estimate
  <1>4. initial'.loc - initial'.pos = e.loc - e.pos
        BY <1>2, <1>3 DEF Estimate
  <1>5. Claim(initial', origin)
        BY <1>2, <1>3, <1>4 DEF EInv, AllTrue, Claim
  <1> QED
      BY <1>5 DEF EInv, AllTrue, FetchInitialLocation

\* Accuracies are numbers, that of an invalid fix too.
LEMMA AccuracyType == \A e \in Estimate : e.acc \in Int
  <1>1. Accuracies \cup {Invalid} \subseteq Int
    <2>1. Invalid \in Int
          BY DEF Invalid
    <2> QED
        BY <2>1, CoordinatesAreIntegers
  <1> QED
      BY <1>1 DEF Estimate

\* Its position read again is off by what the camera moved since.
LEMMA PositionedIsTrue ==
    ASSUME EInv, PositionInitialLocation, ~misled
    PROVE  AllTrue'
  <1>1. initial \in Estimate /\ ScenePosition \in Int /\ origin \in Int
        BY DEF PositionInitialLocation, EInv, TInv, TypeOK, InHand, ScenePosition
  <1>2. /\ initial'.loc = initial.loc
        /\ initial'.pos = ScenePosition
        /\ initial'.acc = initial.acc
        /\ initial'.slip = initial.slip + Distance(initial.pos, ScenePosition)
        BY <1>1 DEF PositionInitialLocation, Estimate
  <1>3. Claim(initial, origin)
        BY DEF PositionInitialLocation, EInv, AllTrue
  <1>4. /\ initial.loc \in Int /\ initial.pos \in Int /\ initial.slip \in Nat
        /\ initial.acc \in Int
        BY <1>1, AccuracyType DEF Estimate
  <1>5. Distance(initial.loc - ScenePosition, origin)
           <= initial.acc + (initial.slip + Distance(initial.pos, ScenePosition))
        BY <1>1, <1>3, <1>4 DEF Claim, Distance
  <1>6. Claim(initial', origin)
        BY <1>2, <1>5 DEF Claim
  <1> QED
      BY <1>6 DEF EInv, AllTrue, PositionInitialLocation

\* Whatever the race for the array leaves, each estimate in it was there before.
LEMMA StoredIsTrue ==
    ASSUME EInv, StoreInitialLocation, ~misled
    PROVE  AllTrue'
  <1>1. estimates' \subseteq estimates \cup seen \cup {initial}
        BY DEF StoreInitialLocation
  <1>2. seen' = {} /\ fetch' = "done" /\ origin' = origin /\ Claim(initial, origin)
        BY DEF StoreInitialLocation, EInv, AllTrue
  <1> QED
      BY <1>1, <1>2 DEF EInv, AllTrue

\* What the session missed stays missed.
LEMMA MisledStays == [Next]_vars /\ ~misled' => ~misled
  BY DEF Next, Device, App, Move, MoveUnnoticed, FirstFrame, ValidFix, InvalidFix,
         Render, FetchInitialLocation, PositionInitialLocation, StoreInitialLocation,
         Tick, AddNode, RemoveNodes, Pause, Run, vars

\* No step makes an estimate wrong, but for those that mislead the app.
LEMMA NextEstimates == EInv /\ [Next]_vars => EInv'
  <1> SUFFICES ASSUME EInv, [Next]_vars PROVE EInv'
      OBVIOUS
  <1>1. TInv'
        BY NextTypes DEF EInv
  <1>2. AllTrue'
    <2> SUFFICES ASSUME ~misled' PROVE AllTrue'
        BY DEF AllTrue
    <2>0. ~misled /\ ~MoveUnnoticed /\ ~InvalidFix
          BY MisledStays DEF EInv, MoveUnnoticed, InvalidFix
    <2>1. CASE ValidFix
          BY <2>0, <2>1, FixIsTrue
    <2>2. CASE Render
          BY <2>0, <2>2, LocatedIsTrue, PositionedIsTrue, StoredIsTrue DEF Render
    <2>3. CASE Tick
      <3>1. estimates' \subseteq estimates /\ UNCHANGED <<origin, fetch, initial, seen>>
            BY <2>3 DEF Tick, InRange, render
      <3> QED
          BY <2>0, <3>1 DEF EInv, AllTrue
    <2>4. CASE FirstFrame
          BY <2>4 DEF FirstFrame, render, EInv, TInv, NothingBefore, AllTrue
    <2>5. CASE UNCHANGED <<estimates, origin, fetch, initial, seen>>
          BY <2>0, <2>5 DEF EInv, AllTrue
    <2>6. (Move \/ (\E b \in Beacons : AddNode(b)) \/ RemoveNodes \/ Pause \/ Run
              \/ UNCHANGED vars) => UNCHANGED <<estimates, origin, fetch, initial, seen>>
          BY DEF Move, AddNode, RemoveNodes, Pause, Run, render, vars
    <2> QED
        BY <2>0, <2>1, <2>2, <2>3, <2>4, <2>5, <2>6 DEF Next, Device, App
  <1> QED
      BY <1>1, <1>2 DEF EInv

\* The invariant holds in every behaviour.
LEMMA Estimates == Spec => []EInv
  BY InitEstimates, NextEstimates, PTL DEF Spec

\* As long as the user stands still while the session is paused and all fixes are
\* as good as they say, no estimate is ever wrong by more than its accuracy and, for
\* the one of the render thread, what the camera moved between its two reads.
THEOREM EstimatesHold == Spec => []EstimatesAreTrue
  <1>1. EInv => EstimatesAreTrue
        BY DEF EInv, AllTrue, Claim, EstimatesAreTrue
  <1> QED
      BY <1>1, Estimates, PTL

-----------------------------------------------------------------------------
(* Nodes *)

\* The best estimate is at least as accurate as any other.
LEMMA BestAccuracy ==
    ASSUME NEW S \in SUBSET Estimate, NEW e \in Best(S), NEW f \in S
    PROVE  e.acc <= f.acc
  <1>1. e \in S /\ (e.acc < f.acc \/ e.acc = f.acc)
        BY DEF Best
  <1>2. e.acc \in Int /\ f.acc \in Int
        BY <1>1, AccuracyType
  <1> QED
      BY <1>1, <1>2

\* A true estimate places a node right.
LEMMA PlacedRight ==
    ASSUME NEW b \in Beacons, NEW e \in Estimate, NEW p \in Int, NEW o \in Int,
           NEW a \in Int, e.acc + e.slip <= a,
           Claim(e, o)
    PROVE  Right(Placed(b, e, p - o), b, p, o, a)
  <1> DEFINE here == Translated(e, p - o)
  <1>1. /\ b \in Int /\ Limit \in Nat /\ Limit > 0
        /\ e.loc \in Int /\ e.pos \in Int /\ e.acc \in Int /\ e.slip \in Int
        BY CoordinatesAreIntegers, AccuracyType DEF Estimate
  <1>2. /\ here \in Int
        /\ p - a <= here /\ here <= p + a
        BY <1>1 DEF Translated, Distance, Claim
  <1> HIDE DEF here
  <1>3. CASE Distance(b, here) <= Limit
    <2>1. Placed(b, e, p - o) =
              [pos |-> (p - o) + (b - here), distance |-> Distance(b, here)]
          BY <1>3 DEF Placed, here
    <2>2. Distance(o + ((p - o) + (b - here)), b) <= a
          BY <1>1, <1>2 DEF Distance
    <2>3. Distance(b, here) = Limit =>
             /\ Distance(o + ((p - o) + (b - here)), p) = Limit
             /\ b > p + a => o + ((p - o) + (b - here)) > p
             /\ b < p - a => o + ((p - o) + (b - here)) < p
          BY <1>1, <1>2 DEF Distance
    <2>4. Distance(b, here) \in Nat
          BY <1>1, <1>2, DistanceType
    <2> QED
        BY <1>1, <1>3, <2>1, <2>2, <2>3, <2>4 DEF Right
  <1>4. CASE ~(Distance(b, here) <= Limit)
    <2> DEFINE shown == IF b > here THEN (p - o) + Limit ELSE (p - o) - Limit
    <2>1. Placed(b, e, p - o) = [pos |-> shown, distance |-> Limit]
          BY <1>4 DEF Placed, here
    <2>2. /\ Distance(o + shown, p) = Limit
          /\ b > p + a => o + shown > p
          /\ b < p - a => o + shown < p
          BY <1>1, <1>2 DEF Distance
    <2> HIDE DEF shown
    <2> QED
        BY <1>1, <2>1, <2>2 DEF Right
  <1> QED
      BY <1>3, <1>4

\* The node of one beacon, placed with the best of the estimates that are left.
LEMMA BestPlacesRight ==
    ASSUME EInv', ~misled', NEW b \in Beacons, NEW best \in Best(estimates'),
           NEW f \in estimates'
    PROVE  Right(Placed(b, best, place' - origin'), b, place', origin', f.acc + best.slip)
  <1>1. /\ estimates' \in SUBSET Estimate
        /\ place' \in Int /\ origin' \in Int
        BY DEF EInv, TInv, TypeOK
  <1>2. best \in estimates' /\ best \in Estimate /\ f \in Estimate
        BY <1>1 DEF Best
  <1>3. Claim(best, origin')
        BY <1>2 DEF EInv, AllTrue, Claim, Distance
  <1>4. best.acc <= f.acc /\ best.acc \in Int /\ f.acc \in Int /\ best.slip \in Nat
        BY <1>1, <1>2, BestAccuracy, AccuracyType DEF Estimate
  <1>5. best.acc + best.slip <= f.acc + best.slip /\ f.acc + best.slip \in Int
        BY <1>4
  <1> QED
      BY <1>1, <1>2, <1>3, <1>5, PlacedRight

\* Only the timer and adding a node give placements, both with the best estimate.
LEMMA StepPlacesRight == EInv /\ EInv' /\ [Next]_vars => (~misled => PlacingStep)
  <1> SUFFICES ASSUME EInv, EInv', [Next]_vars, ~misled,
                      NEW b \in Beacons,
                      nodes'[b] \notin {Nil, nodes[b]}, nodes'[b].distance # Nil
               PROVE  \E x \in Best(estimates') : \A f \in estimates' :
                         Right(nodes'[b], b, place', origin', f.acc + x.slip)
      BY DEF PlacingStep
  <1>0. nodes \in [Beacons -> Placement \cup {Nil}]
        BY DEF EInv, TInv, TypeOK
  <1>1. CASE Tick
    <2>1. PICK best \in Best(estimates') :
             nodes' = [c \in Beacons |->
                          IF nodes[c] = Nil THEN Nil ELSE Placed(c, best, ScenePosition)]
          BY <1>1 DEF Tick
    <2>2. nodes'[b] = Placed(b, best, place' - origin')
          BY <1>1, <2>1 DEF Tick, ScenePosition
    <2>3. ~misled'
          BY <1>1 DEF Tick
    <2> QED
        BY <2>2, <2>3, BestPlacesRight
  <1>2. CASE \E c \in Beacons : AddNode(c)
    <2>1. PICK c \in Beacons : AddNode(c)
          BY <1>2
    <2>2. c = b
          BY <2>1, <1>0 DEF AddNode
    <2>3. nodes' # [nodes EXCEPT ![b] = [pos |-> 0, distance |-> Nil]]
          BY <1>0
    <2>4. PICK best \in Best(estimates) :
             nodes' = [nodes EXCEPT ![b] = Placed(b, best, ScenePosition)]
          BY <2>1, <2>2, <2>3 DEF AddNode
    <2>5. UNCHANGED <<estimates, place, origin, misled>>
          BY <2>1 DEF AddNode
    <2>6. nodes'[b] = Placed(b, best, place' - origin') /\ best \in Best(estimates')
          BY <2>4, <2>5, <1>0 DEF ScenePosition
    <2> QED
        BY <2>5, <2>6, BestPlacesRight
  <1>3. CASE RemoveNodes
        BY <1>3 DEF RemoveNodes
  <1>4. CASE UNCHANGED nodes
        BY <1>4
  <1>5. (Device \/ Render \/ Pause \/ Run \/ UNCHANGED vars) => UNCHANGED nodes
        BY DEF Device, Move, MoveUnnoticed, FirstFrame, ValidFix, InvalidFix, Fix,
               Render, FetchInitialLocation, PositionInitialLocation, StoreInitialLocation,
               Pause, Run, vars
  <1> QED
      BY <1>1, <1>2, <1>3, <1>4, <1>5 DEF Next, App

\* Unless the app is misled, every placement is right within the accuracy of every
\* estimate the app has, plus the slip of the one it is placed with, and nodes beyond
\* the limit are shown in the direction of their beacons.
THEOREM NodesRight == Spec => NodesArePlacedRight
  BY StepPlacesRight, Estimates, PTL DEF Spec, NodesArePlacedRight

=============================================================================
