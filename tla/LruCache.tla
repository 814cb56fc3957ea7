------------------------------ MODULE LruCache ------------------------------
(***************************************************************************)
(* What the flow table promises: a bounded set of keys and the order in    *)
(* which they were last touched.  There are no clocks here; "older" is the *)
(* strict order of last use.  VerdictCache implements this with the        *)
(* logical clock of rust/netstack/src/flow_table.rs.                       *)
(***************************************************************************)
EXTENDS Naturals, FiniteSets

CONSTANTS Keys, Cap

VARIABLES keys,     \* the keys held
          older     \* <<a, b>>: both are held and a was used before b

vars == <<keys, older>>

\* The order that remains when only the keys of S are kept.
Among(S) == {p \in older : p[1] \in S /\ p[2] \in S}

\* The order after k has become the most recently used of S \cup {k}.
Newest(S, k) == Among(S \ {k}) \cup {<<a, k>> : a \in S \ {k}}

Init == keys = {} /\ older = {}

Touch(k) ==
    /\ k \in keys
    /\ keys' = keys
    /\ older' = Newest(keys, k)

Insert(k) ==
    /\ k \notin keys
    /\ Cardinality(keys) < Cap
    /\ keys' = keys \cup {k}
    /\ older' = Newest(keys, k)

\* A full cache gives up the one key that was used before all the others.
Replace(k, v) ==
    /\ k \notin keys
    /\ v \in keys
    /\ Cardinality(keys) >= Cap
    /\ \A b \in keys \ {v} : <<v, b>> \in older
    /\ keys' = (keys \ {v}) \cup {k}
    /\ older' = Newest(keys \ {v}, k)

Clear == keys' = {} /\ older' = {}

Next ==
    \/ \E k \in Keys : Touch(k) \/ Insert(k)
    \/ \E k, v \in Keys : Replace(k, v)
    \/ Clear

Spec == Init /\ [][Next]_vars
=============================================================================
