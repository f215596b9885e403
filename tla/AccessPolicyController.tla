----------------------- MODULE AccessPolicyController -----------------------
(***************************************************************************)
(* The AccessPolicy controller: one worker that reconciles AccessPolicy    *)
(* resources with access policies in IBM Cloud IAM, and all that a policy  *)
(* refers to: users of the account, service ids, access groups, an         *)
(* AccessGroup resource with its group, roles and CustomRole resources.    *)
(* References are resolved anew in every reconcile, some steps before the  *)
(* policy is written, and change meanwhile.                                *)
(*                                                                         *)
(* The AccessGroup controller appears as far as GroupReference tells.      *)
(***************************************************************************)
EXTENDS PolicyController

CONSTANTS
    Users,       \* users, by email address
    Identities,  \* service ids, and access groups given by their id
    TheGroup,    \* an AccessGroup resource
    GroupIds,    \* ids of the groups made for it
    NoGroup,     \* there is no such resource
    RoleNames,   \* display names of roles
    RoleRefs,    \* CustomRole resources
    NoRole,      \* there is no such role, or no such resource
    RoleNamed,   \* the role of each display name at the start
    NameIn       \* the display name in each CustomRole resource at the start

\* The value of SpecType.  The subject is the set of its fields that are not
\* empty; roles are given by display names and by CustomRole resources.
PolicySpec ==
    [subject : SUBSET (Users \cup Identities \cup {TheGroup}),
     roles : SUBSET (RoleNames \cup RoleRefs), target : Targets]

ASSUME AccessPolicyAssumption ==
    /\ SpecType = PolicySpec
    /\ Subjects = Users \cup Identities \cup GroupIds \cup {0}
    /\ GroupIds \subseteq Nat \ {0}
    /\ TheGroup \notin Users \cup Identities
    /\ NoGroup \notin GroupIds \cup {0}
    /\ NoRole \notin RoleNames \cup RoleIds
    /\ RoleNames \cap RoleRefs = {}
    /\ RoleNamed \in [RoleNames -> RoleIds]
    /\ NameIn \in [RoleRefs -> RoleNames]

VARIABLES
    account,  \* of each user and identity: "none", "invited" (users only), or
              \* "member" for one that exists in the account
    named,    \* the group id in the status of TheGroup as cached: 0 when it is
              \* empty, NoGroup without resource
    own,      \* the groups in IAM that were made for TheGroup
    title,    \* the display name in each CustomRole resource as cached, or NoRole
    catalog   \* the role IAM lists under each display name, or NoRole

surroundings == <<account, named, own, title, catalog>>

Reference == INSTANCE GroupReference WITH Ids <- GroupIds, others <- {}

SurroundingsTypeOK ==
    /\ account \in [Users \cup Identities -> {"none", "invited", "member"}]
    /\ named \in GroupIds \cup {0, NoGroup}
    /\ own \subseteq GroupIds
    /\ title \in [RoleRefs -> RoleNames \cup {NoRole}]
    /\ catalog \in [RoleNames -> RoleIds \cup {NoRole}]

\* At most one field of the subject is set.
isWellFormed(spec) == \A x, y \in spec.subject : x = y

-----------------------------------------------------------------------------
(* Reconcile: roles and subject *)

\* The name a role goes by: of a CustomRole, what its spec says at the moment.
DisplayName(r) == IF r \in RoleRefs THEN title[r] ELSE r

RoleThere(r) == DisplayName(r) # NoRole /\ catalog[DisplayName(r)] # NoRole

RolesThere(R) == \A r \in R : RoleThere(r)

RolesOf(R) == {catalog[DisplayName(r)] : r \in R}

\* The roles that CustomRole resources stand for, and the others.
CustomRoles(spec) == spec.roles \cap RoleRefs

NamedRoles(spec) == spec.roles \ RoleRefs

\* Those given by name are looked up first.
ResolveRoles ==
    /\ pc = "sync" /\ RolesThere(NamedRoles(inst.spec))
    /\ Known([held EXCEPT !.roles = RolesOf(NamedRoles(inst.spec))],
             IF CustomRoles(inst.spec) # {} THEN "customRoles" ELSE "subject")
    /\ UNCHANGED <<faults, surroundings>>

\* The resources are read, and the roles of their services listed.
ResolveCustomRoles ==
    /\ pc = "customRoles" /\ RolesThere(CustomRoles(inst.spec))
    /\ Known([held EXCEPT !.roles = @ \cup RolesOf(CustomRoles(inst.spec))], "subject")
    /\ UNCHANGED <<faults, surroundings>>

\* Mutant of SubjectThere: what the spec names is not looked up.
SubjectAssumed(x) == x # TheGroup \/ named # NoGroup

\* Is the subject found?  The id of a group resource may be empty, or old.
SubjectThere(x) ==
    IF x = TheGroup THEN named # NoGroup ELSE account[x] = "member"

PolicyWith(spec, x, roles) ==
    [subject |-> IF x = TheGroup THEN named ELSE x,
     roles |-> roles, target |-> spec.target]

PolicyFor(spec, x) == PolicyWith(spec, x, RolesOf(spec.roles))

\* The subject is not a user.
ResolveSubject ==
    /\ pc = "subject"
    /\ \E x \in inst.spec.subject \ Users :
          /\ SubjectThere(x)
          /\ Resolved(PolicyWith(inst.spec, x, held.roles))
    /\ UNCHANGED <<faults, surroundings>>

\* Also when a reading call fails.  A spec without subject is taken for one
\* with a group resource, which is not found.
ResolveFails ==
    /\ pc \in {"sync", "customRoles", "subject"}
    /\ \/ pc = "sync" /\ ~RolesThere(NamedRoles(inst.spec)) /\ UNCHANGED faults
       \/ pc = "customRoles" /\ ~RolesThere(CustomRoles(inst.spec)) /\ UNCHANGED faults
       \/ /\ pc = "subject"
          /\ \A x \in inst.spec.subject : x \notin Users /\ ~SubjectThere(x)
          /\ UNCHANGED faults
       \/ Fault("resolve")
    /\ NotResolved
    /\ UNCHANGED surroundings

\* A user is invited whenever the policy is reconciled, member or not.
InviteUser ==
    /\ pc = "subject"
    /\ \E u \in inst.spec.subject \cap Users :
          /\ account' = IF account[u] = "none"
                           THEN [account EXCEPT ![u] = "invited"] ELSE account
          /\ \/ /\ Known(PolicyWith(inst.spec, u, held.roles), "findUser")
                /\ UNCHANGED faults
             \/ Fault("resolve") /\ NotResolved   \* the answer is lost
    /\ UNCHANGED <<named, own, title, catalog>>

\* FindAccountUserByUserId: a member is a subject, others are turned out.
FindUser ==
    /\ pc = "findUser"
    /\ \/ account[held.subject] = "member" /\ Resolved(held) /\ UNCHANGED faults
       \/ /\ account[held.subject] = "invited"
          /\ Goto("withdraw")
          /\ ApiUnchanged /\ Frame /\ IamUnchanged /\ UNCHANGED faults
       \/ account[held.subject] = "none" /\ NotResolved /\ UNCHANGED faults
       \/ Fault("resolve") /\ NotResolved
    /\ UNCHANGED surroundings

\* DeleteAccountUser, whatever the user has become since.
WithdrawUser ==
    /\ pc = "withdraw"
    /\ \/ account' = [account EXCEPT ![held.subject] = "none"] /\ UNCHANGED faults
       \/ Fault("resolve") /\ UNCHANGED account
    /\ NotResolved
    /\ UNCHANGED <<named, own, title, catalog>>

-----------------------------------------------------------------------------
\* What IAM has nothing to object to.
Valid(policy) ==
    /\ \/ policy.subject \in own
       \/ /\ policy.subject \in Users \cup Identities
          /\ account[policy.subject] = "member"
    /\ \A r \in policy.roles : \E n \in RoleNames : catalog[n] = r

Reconcile ==
    \/ /\ \/ CommonStep(isWellFormed(inst.spec), isWellFormed(inst.spec),
                        inst.spec)
          \/ PolicyStep(Valid(held))
       /\ UNCHANGED surroundings
    \/ ResolveRoles \/ ResolveCustomRoles \/ ResolveSubject \/ ResolveFails
    \/ InviteUser \/ FindUser \/ WithdrawUser

-----------------------------------------------------------------------------
(* What a policy refers to changes.  Somebody's change counts as one of *)
(* MaxChanges; the other controllers make what is missing.              *)

GroupUnused(g) ==
    /\ Reference!Unused(g)
    /\ g # held.subject
    /\ \A i \in Ids : iam[i].def.subject # g

GroupMade ==
    /\ named # NoGroup /\ own = {}
    /\ \E g \in GroupIds :
          /\ GroupUnused(g) /\ \A f \in GroupIds : GroupUnused(f) => g <= f
          /\ Reference!Made(g)
    /\ UNCHANGED <<account, title, catalog>>

\* A lost group's id is cleared before that of the new one is seen, or not.
GroupNamed ==
    /\ named # NoGroup /\ named \notin own
    /\ \E g \in own \cup {0} : g # named /\ Reference!Seen(g)
    /\ UNCHANGED <<account, title, catalog>>

\* The CustomRole controller makes or renames the role its resource asks for.
RoleMade ==
    /\ \E c \in RoleRefs, r \in RoleIds :
          /\ title[c] # NoRole /\ catalog[title[c]] = NoRole
          /\ catalog' = [catalog EXCEPT ![title[c]] = r]
    /\ UNCHANGED <<account, named, own, title>>

OtherControllers ==
    /\ GroupMade \/ GroupNamed \/ RoleMade
    /\ UNCHANGED <<kube, worker, iam, faults>>

\* A group is deleted.  That its policies go with it is a change in IAM.
GroupDeleted ==
    /\ \E g \in own : Reference!Lost(g)
    /\ UNCHANGED <<account, title, catalog>>

\* The AccessGroup resource is created; or deleted, its group having gone.
GroupResourceChanges ==
    /\ \/ named = NoGroup /\ Reference!Seen(0)
       \/ named # NoGroup /\ own = {} /\ Reference!Seen(NoGroup)
    /\ UNCHANGED <<account, title, catalog>>

\* Users and identities come and go; users are invited by others, too.
AccountChanges ==
    /\ \E x \in Users \cup Identities, s \in {"none", "invited", "member"} :
          /\ account[x] # s /\ (s = "invited" => x \in Users)
          /\ account' = [account EXCEPT ![x] = s]
    /\ UNCHANGED <<named, own, title, catalog>>

\* A role is deleted, renamed or made, or another one takes its name.
RoleChanges ==
    /\ \E n \in RoleNames, r \in RoleIds \cup {NoRole} :
          catalog[n] # r /\ catalog' = [catalog EXCEPT ![n] = r]
    /\ UNCHANGED <<account, named, own, title>>

CustomRoleChanges ==
    /\ \E c \in RoleRefs, n \in RoleNames \cup {NoRole} :
          title[c] # n /\ title' = [title EXCEPT ![c] = n]
    /\ UNCHANGED <<account, named, own, catalog>>

\* Another actor changes what policies refer to.
ReferenceStep ==
    /\ Console
    /\ \/ GroupDeleted \/ GroupResourceChanges \/ AccountChanges
       \/ RoleChanges \/ CustomRoleChanges
    /\ IamUnchanged /\ UNCHANGED etagOk

\* The console makes policies like those of specs, changes others into such, or
\* gives them other roles.
ConsoleStep ==
    \E i \in Ids :
        \/ \E s \in Specs : \E x \in s.subject \ {TheGroup} :
              /\ RolesThere(s.roles)
              /\ \/ ConsoleCreates(i, PolicyFor(s, x))
                 \/ ConsoleChanges(i, PolicyFor(s, x), TRUE)
        \/ \E R \in SUBSET RoleIds \ {{}} :
              ConsoleChanges(i, [iam[i].def EXCEPT !.roles = R], TRUE)
        \/ ConsoleDeletes(i)

-----------------------------------------------------------------------------
InitAll ==
    /\ Init
    /\ account = [x \in Users \cup Identities |-> "member"]
    /\ \/ named = NoGroup /\ own = {}
       \/ named \in GroupIds /\ own = {named} /\ \A g \in GroupIds : named <= g
    /\ title = NameIn
    /\ catalog = RoleNamed

Next ==
    \/ Reconcile
    \/ (Environment \/ ConsoleStep) /\ UNCHANGED surroundings
    \/ OtherControllers
    \/ ReferenceStep

allVars == <<vars, surroundings>>

Spec == InitAll /\ [][Next]_allVars

\* The worker goes on with a reconcile it began, and its surroundings work; the
\* other controllers enforce their own resources.
Fairness ==
    /\ WF_allVars(Reconcile) /\ EnvironmentFairness
    /\ WF_allVars(OtherControllers)

FairSpec == Spec /\ Fairness

-----------------------------------------------------------------------------
(* Properties, besides those of Reconciler *)

Usable(x) == IF x = TheGroup THEN named # NoGroup ELSE account[x] = "member"

\* Everything the spec refers to is there.
Resolvable(spec) ==
    RolesThere(spec.roles) /\ \E x \in spec.subject : Usable(x)

Wanted(spec) == PolicyFor(spec, CHOOSE x \in spec.subject : Usable(x))

Declared(c) ==
    Exists(api[c]) /\ ~api[c].deleting /\ isWellFormed(api[c].spec)

\* README, rules 4 to 6: once changes and failures end, every resource whose
\* references are there has its policy, for the group that the AccessGroup
\* resource now has, with no role but those its names now stand for, unless
\* there is another such policy.
EventuallyEnforced ==
    \A c \in Resources :
        <>[](/\ Declared(c) /\ Resolvable(api[c].spec)
             /\ ~Twin(Wanted(api[c].spec), api[c].status.id)
             => PolicyEnforced(c, Wanted(api[c].spec)))

\* README, rules 1 to 3: a resource whose subject (or one of whose roles) has
\* gone, or whose spec is not well-formed, is in state Failed in the end, and is
\* not taken to be served because there still is a policy.
EventuallyFailed ==
    \A c \in Resources :
        <>[](/\ Exists(api[c]) /\ ~api[c].deleting
             /\ ~(isWellFormed(api[c].spec) /\ Resolvable(api[c].spec))
             => api[c].status.state = "Failed")
=============================================================================
