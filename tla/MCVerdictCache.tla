--------------------------- MODULE MCVerdictCache ---------------------------
(* Three flow keys over a table of two, two apps, one rule that blocks on   *)
(* Wi-Fi and one that blocks on cellular.                                   *)
EXTENDS VerdictCache, TLC

MCPolicies == {[allow_wifi |-> FALSE, allow_cellular |-> TRUE],
               [allow_wifi |-> TRUE, allow_cellular |-> FALSE]}
\* Neither a key nor a uid is special.
Symmetry == Permutations(Keys) \cup Permutations(Uids)
=============================================================================
