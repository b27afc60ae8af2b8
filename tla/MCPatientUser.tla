--------------------------- MODULE MCPatientUser ---------------------------
EXTENDS PatientUser, TLC

Symmetry == Permutations(Devices) \cup Permutations(Uids) \cup Permutations(Keys)
            \cup Permutations(Texts)

============================================================================
