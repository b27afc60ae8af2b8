----------------------------- MODULE MCBeacons -----------------------------
EXTENDS Beacons, TLC

Symmetry == Permutations(Devices) \cup Permutations(Uids) \cup Permutations(Keys)

============================================================================
