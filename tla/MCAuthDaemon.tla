---------------------------- MODULE MCAuthDaemon ----------------------------
(* Small instances of AuthDaemon. *)
EXTENDS AuthDaemon, TLC

CONSTANTS p1, u1

\* A healthy daemon whose every phone in ps may authenticate u1.
WithPhones(ps) ==
    [allowed |-> [p \in Phone |-> IF p \in ps THEN {u1} ELSE {}],
     healthy |-> TRUE]

OneState == {WithPhones({p1})}

\* Nothing paired, a degraded daemon; no phone ever authenticates u2.
RefusingStates ==
    {WithPhones({}), WithPhones({p1}), [WithPhones({p1}) EXCEPT !.healthy = FALSE]}

BothOn == {[network |-> TRUE, ble |-> TRUE]}
NetworkOnly == {[network |-> TRUE, ble |-> FALSE]}
AnyToggles == Toggles

\* Sessions play the same part.
SessionSymmetry == Permutations(Session)

=============================================================================
