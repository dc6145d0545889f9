----------------------------- MODULE MCDashboard -----------------------------
\* Model values, and their symmetry, for checking Dashboard.
EXTENDS Dashboard, TLC

MCSymmetry == Permutations(Orders) \cup Permutations(Viewers) \cup Permutations(Roles)
==============================================================================
