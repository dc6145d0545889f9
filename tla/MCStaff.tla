------------------------------- MODULE MCStaff -------------------------------
\* Model values, and their symmetry, for checking Staff.
EXTENDS Staff, TLC

MCSymmetry == Permutations(Users) \cup Permutations(Requests)
==============================================================================
