--------------------------- MODULE GroupReference ---------------------------
(***************************************************************************)
(* What the AccessGroup controller promises to those who refer to one of   *)
(* its resources by name, as access policies do: the group id they read in *)
(* the status of the (cached) resource is empty, or that of a group made   *)
(* for this very resource, or of one that is gone.  It is never the id of  *)
(* somebody else's group, and a new group never gets the id they hold.     *)
(***************************************************************************)
EXTENDS Naturals

CONSTANTS
    Ids,     \* ids of access groups, positive numbers
    NoGroup  \* there is no such resource

VARIABLES
    named,   \* the id in its status: 0 when empty, NoGroup without resource
    own,     \* the groups in IAM that were made for the resource
    others   \* the other groups in IAM

vars == <<named, own, others>>

Init == named \in {0, NoGroup} /\ own = {} /\ others = {}

Unused(i) == i \in Ids \ (own \cup others \cup {named})

\* A group is made for the resource.
Made(i) ==
    /\ Unused(i)
    /\ own' = own \cup {i}
    /\ UNCHANGED <<named, others>>

\* A group is made for somebody else.
MadeElsewhere(i) ==
    /\ Unused(i)
    /\ others' = others \cup {i}
    /\ UNCHANGED <<named, own>>

Lost(i) ==
    /\ i \in own \cup others
    /\ own' = own \ {i} /\ others' = others \ {i}
    /\ UNCHANGED named

\* The reader sees another status of the resource.
Seen(i) ==
    /\ i \in (Ids \ others) \cup {0, NoGroup}
    /\ named' = i
    /\ UNCHANGED <<own, others>>

\* It sees another resource of that name.
Replaced ==
    /\ own' \subseteq own \cup others
    /\ others' = (own \cup others) \ own'
    /\ named' \in (Ids \ others') \cup {0, NoGroup}

Next ==
    \/ \E i \in Ids : Made(i) \/ MadeElsewhere(i) \/ Lost(i)
    \/ \E i \in Ids \cup {0, NoGroup} : Seen(i)
    \/ Replaced

Spec == Init /\ [][Next]_vars
=============================================================================
