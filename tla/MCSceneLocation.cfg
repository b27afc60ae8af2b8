SPECIFICATION FairSpec
CONSTANTS
    Beacons = {0}
    Limit = 1
    Places = {0, 1, 2}
    Accuracies = {0, 1}
    MaxFixes = 2
    Nil = Nil
CONSTRAINT Trusted
INVARIANTS
    TypeOK
    EstimatesAreTrue
PROPERTIES
    NodesArePlacedRight
    NodesGetPlaced
