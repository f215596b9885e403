---------------------------- MODULE ManagedEntity ----------------------------
(***************************************************************************)
(* What the operator promises for a custom resource that stands for an     *)
(* entity in IBM Cloud IAM: entities are made only for a resource that is  *)
(* declared, and a resource goes away only when no entity made for it is   *)
(* left.  README: "The operator uses finalizers to remove the custom       *)
(* resource only after the access policy is deleted from IAM."             *)
(***************************************************************************)
EXTENDS Naturals, FiniteSets

CONSTANTS
    Uids,   \* incarnations of resources
    Ids     \* ids of IAM entities

VARIABLES
    phase,     \* of each incarnation: "none", "declared", "terminating", "gone"
    entities   \* the entities in IAM made for it

vars == <<phase, entities>>

Init ==
    /\ phase = [u \in Uids |-> "none"]
    /\ entities = [u \in Uids |-> {}]

Declare(u) ==
    /\ phase[u] = "none"
    /\ phase' = [phase EXCEPT ![u] = "declared"]
    /\ UNCHANGED entities

Terminate(u) ==
    /\ phase[u] = "declared"
    /\ phase' = [phase EXCEPT ![u] = "terminating"]
    /\ UNCHANGED entities

\* Also while terminating: the deletion may come while the entity is made.
Make(u) ==
    /\ phase[u] \in {"declared", "terminating"}
    /\ \E i \in Ids : /\ \A v \in Uids : i \notin entities[v]
                      /\ entities' = [entities EXCEPT ![u] = @ \cup {i}]
    /\ UNCHANGED phase

Unmake(u) ==
    /\ \E i \in entities[u] : entities' = [entities EXCEPT ![u] = @ \ {i}]
    /\ UNCHANGED phase

Release(u) ==
    /\ phase[u] \in {"declared", "terminating"}
    /\ entities[u] = {}
    /\ phase' = [phase EXCEPT ![u] = "gone"]
    /\ UNCHANGED entities

Next ==
    \E u \in Uids :
        Declare(u) \/ Terminate(u) \/ Make(u) \/ Unmake(u) \/ Release(u)

Spec == Init /\ [][Next]_vars

\* A resource on its way out does get out.
Terminates == \A u \in Uids : phase[u] = "terminating" ~> phase[u] = "gone"
=============================================================================
