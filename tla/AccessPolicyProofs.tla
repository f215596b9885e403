------------------------- MODULE AccessPolicyProofs -------------------------
(***************************************************************************)
(* Theorems about AccessPolicyController, for all values of its constants, *)
(* all failures and crashes included, and whatever becomes of the users,   *)
(* groups and roles that policies refer to.                                *)
(***************************************************************************)
EXTENDS AccessPolicyController, PolicyProofs

\* The variables of Reconciler and of the surroundings keep their types.
AllTypeOK == TypeOK /\ SurroundingsTypeOK

-----------------------------------------------------------------------------
(* Resolution yields policies *)

\* A role that is there has an id.
LEMMA RoleType ==
  ASSUME SurroundingsTypeOK, NEW r \in RoleNames \cup RoleRefs, RoleThere(r)
  PROVE  catalog[DisplayName(r)] \in RoleIds
<1>1. DisplayName(r) \in RoleNames
  BY DEF SurroundingsTypeOK, RoleThere, DisplayName
<1>2. QED
  BY <1>1 DEF SurroundingsTypeOK, RoleThere

\* Roles that are there have ids.
LEMMA RolesType ==
  ASSUME SurroundingsTypeOK, NEW R \in SUBSET (RoleNames \cup RoleRefs), RolesThere(R)
  PROVE  RolesOf(R) \subseteq RoleIds
  BY RoleType DEF RolesOf, RolesThere

\* A spec's roles, and those of its two parts.
LEMMA SpecParts ==
  ASSUME NEW s \in SpecType
  PROVE  /\ s.subject \subseteq Users \cup Identities \cup {TheGroup}
         /\ s.roles \in SUBSET (RoleNames \cup RoleRefs)
         /\ NamedRoles(s) \in SUBSET (RoleNames \cup RoleRefs)
         /\ CustomRoles(s) \in SUBSET (RoleNames \cup RoleRefs)
         /\ s.target \in Targets
  BY AccessPolicyAssumption DEF PolicySpec, NamedRoles, CustomRoles

\* A policy with a subject that is there is one.
LEMMA PolicyWithType ==
  ASSUME SurroundingsTypeOK, NEW s \in SpecType, NEW R \in SUBSET RoleIds,
         NEW x \in s.subject, x = TheGroup => named # NoGroup
  PROVE  PolicyWith(s, x, R) \in DefType
<1>1. (IF x = TheGroup THEN named ELSE x) \in Subjects
  BY SpecParts, AccessPolicyAssumption DEF SurroundingsTypeOK
<1>2. QED
  BY <1>1, SpecParts, PolicyAssumption DEF PolicyWith, Policy

\* What a spec asks for is a policy, if its roles are there.
LEMMA PolicyForType ==
  ASSUME SurroundingsTypeOK, NEW s \in SpecType, RolesThere(s.roles),
         NEW x \in s.subject, x = TheGroup => named # NoGroup
  PROVE  PolicyFor(s, x) \in DefType
  BY SpecParts, RolesType, PolicyWithType DEF PolicyFor

\* Users are no group resource.
LEMMA UserNoGroup == \A u \in Users : u # TheGroup
  BY AccessPolicyAssumption

-----------------------------------------------------------------------------
(* Types: the steps of the controller *)

\* Resolving roles.
LEMMA ResolveRolesType == AllTypeOK /\ (ResolveRoles \/ ResolveCustomRoles) => TypeOK'
<1> SUFFICES ASSUME AllTypeOK, ResolveRoles \/ ResolveCustomRoles PROVE TypeOK'
  OBVIOUS
<1>1. /\ pc # "idle" /\ inst.spec \in SpecType /\ UNCHANGED faults
      /\ held \in DefType
  BY Busy DEF AllTypeOK, ResolveRoles, ResolveCustomRoles, TypeOK, WorkerTypeOK
<1>2. \A R \in SUBSET RoleIds : [held EXCEPT !.roles = R] \in DefType
  BY <1>1, PolicyAssumption DEF Policy
<1>3. CASE ResolveRoles
  <2>1. RolesOf(NamedRoles(inst.spec)) \in SUBSET RoleIds
    BY <1>1, <1>3, SpecParts, RolesType DEF AllTypeOK, ResolveRoles
  <2>2. QED
    BY <1>1, <1>2, <1>3, <2>1, KnownType DEF AllTypeOK, ResolveRoles, PCs
<1>4. CASE ResolveCustomRoles
  <2>1. held.roles \cup RolesOf(CustomRoles(inst.spec)) \in SUBSET RoleIds
    BY <1>1, <1>4, SpecParts, RolesType, PolicyAssumption
       DEF AllTypeOK, ResolveCustomRoles, Policy
  <2>2. [held EXCEPT !.roles = @ \cup RolesOf(CustomRoles(inst.spec))] \in DefType
    BY <1>2, <2>1
  <2>3. QED
    BY <1>1, <1>4, <2>2, KnownType DEF AllTypeOK, ResolveCustomRoles, PCs
<1>5. QED
  BY <1>3, <1>4

\* A policy in hand gets its subject.
LEMMA SubjectType ==
  ASSUME AllTypeOK, pc # "idle", NEW x \in inst.spec.subject,
         x = TheGroup => named # NoGroup
  PROVE  PolicyWith(inst.spec, x, held.roles) \in DefType
<1>1. inst.spec \in SpecType /\ held.roles \in SUBSET RoleIds
  BY Busy, PolicyAssumption DEF AllTypeOK, TypeOK, WorkerTypeOK, Policy
<1>2. QED
  BY <1>1, PolicyWithType DEF AllTypeOK

\* Resolving a subject that is not a user.
LEMMA ResolveSubjectType == AllTypeOK /\ ResolveSubject => TypeOK'
<1> SUFFICES ASSUME AllTypeOK, pc = "subject",
                    NEW x \in inst.spec.subject, SubjectThere(x),
                    Resolved(PolicyWith(inst.spec, x, held.roles)), UNCHANGED faults
             PROVE  TypeOK'
  BY DEF ResolveSubject
<1>1. x = TheGroup => named # NoGroup
  BY DEF SubjectThere
<1>2. PolicyWith(inst.spec, x, held.roles) \in DefType
  BY <1>1, SubjectType
<1>3. QED
  BY <1>2, ResolvedType DEF AllTypeOK

\* The invitation of a user.
LEMMA InviteType == AllTypeOK /\ InviteUser => TypeOK'
<1> SUFFICES ASSUME AllTypeOK, pc = "subject", NEW u \in inst.spec.subject \cap Users,
                    \/ /\ Known(PolicyWith(inst.spec, u, held.roles), "findUser")
                       /\ UNCHANGED faults
                    \/ Fault("resolve") /\ NotResolved
             PROVE  TypeOK'
  BY DEF InviteUser
<1>1. PolicyWith(inst.spec, u, held.roles) \in DefType
  BY UserNoGroup, SubjectType
<1>2. QED
  BY <1>1, KnownType, NotResolvedType DEF AllTypeOK, PCs

\* The steps that find or turn out the user.
LEMMA UserStepsType == AllTypeOK /\ (FindUser \/ WithdrawUser) => TypeOK'
<1> SUFFICES ASSUME AllTypeOK, FindUser \/ WithdrawUser PROVE TypeOK'
  OBVIOUS
<1>1. /\ pc # "idle" /\ held \in DefType
      /\ UNCHANGED faults \/ \E kind : Fault(kind)
  BY DEF FindUser, WithdrawUser, AllTypeOK, TypeOK, WorkerTypeOK
<1>2. CASE Resolved(held)
  BY <1>1, <1>2, ResolvedType DEF AllTypeOK
<1>3. CASE NotResolved
  BY <1>1, <1>3, NotResolvedType DEF AllTypeOK
<1>4. CASE Goto("withdraw") /\ ApiUnchanged /\ Frame /\ IamUnchanged
  BY <1>1, <1>4, QuietType DEF AllTypeOK, PCs
<1>5. QED
  BY <1>2, <1>3, <1>4 DEF FindUser, WithdrawUser

\* All steps of Reconcile.
LEMMA ReconcileType == AllTypeOK /\ Reconcile => TypeOK'
<1> SUFFICES ASSUME AllTypeOK, Reconcile PROVE TypeOK'
  OBVIOUS
<1>1. CASE CommonStep(isWellFormed(inst.spec), isWellFormed(inst.spec), inst.spec)
  BY <1>1, Busy, CommonType, CommonBusy DEF AllTypeOK
<1>2. CASE ResolveFails
  BY <1>2, NotResolvedType DEF ResolveFails, AllTypeOK
<1>3. CASE PolicyStep(Valid(held))
  BY <1>3, PolicyStepType DEF AllTypeOK
<1>4. QED
  BY <1>1, <1>2, <1>3, ResolveRolesType, ResolveSubjectType, InviteType, UserStepsType
     DEF Reconcile

\* Changes through the console.
LEMMA ConsoleStepType == AllTypeOK /\ ConsoleStep => TypeOK'
<1> SUFFICES ASSUME AllTypeOK, NEW i \in Ids,
                    \/ \E s \in Specs : \E x \in s.subject \ {TheGroup} :
                          /\ RolesThere(s.roles)
                          /\ \/ ConsoleCreates(i, PolicyFor(s, x))
                             \/ ConsoleChanges(i, PolicyFor(s, x), TRUE)
                    \/ \E R \in SUBSET RoleIds :
                          ConsoleChanges(i, [iam[i].def EXCEPT !.roles = R], TRUE)
                    \/ ConsoleDeletes(i)
             PROVE  TypeOK'
  BY DEF ConsoleStep
<1>1. \A s \in Specs : \A x \in s.subject \ {TheGroup} :
        RolesThere(s.roles) => PolicyFor(s, x) \in DefType
  BY PolicyForType, KubeAssumption DEF AllTypeOK
<1>2. \A R \in SUBSET RoleIds : [iam[i].def EXCEPT !.roles = R] \in DefType
  BY PolicyAssumption DEF AllTypeOK, TypeOK, IamTypeOK, Entity, Policy
<1>3. CASE ConsoleDeletes(i)
  BY <1>3, ReconcilerAssumption, ConsoleType DEF AllTypeOK
<1>4. QED
  BY <1>1, <1>2, <1>3, ConsoleType DEF AllTypeOK

\* Changes of what policies refer to count as changes, and that is all.
LEMMA ReferenceStepType == TypeOK /\ ReferenceStep => TypeOK'
<1> SUFFICES ASSUME TypeOK, ReferenceStep PROVE TypeOK'
  OBVIOUS
<1>1. UNCHANGED <<api, cache, current, queue, timers, created, pc, key, inst, fresh,
                  held, etagOk, made, iam, faults>>
  BY DEF ReferenceStep, Console, IamUnchanged
<1>2. changes' \in 0..MaxChanges
  BY KubeAssumption DEF ReferenceStep, Console, TypeOK, KubeTypeOK
<1>3. QED
  BY <1>1, <1>2 DEF TypeOK, KubeTypeOK, WorkerTypeOK, IamTypeOK

-----------------------------------------------------------------------------
(* Types: the surroundings *)

\* The steps of others in the surroundings keep their types,
LEMMA OthersSurroundings ==
  ASSUME SurroundingsTypeOK,
         \/ GroupMade \/ GroupNamed \/ RoleMade \/ GroupDeleted
         \/ GroupResourceChanges \/ AccountChanges \/ RoleChanges \/ CustomRoleChanges
  PROVE  SurroundingsTypeOK'
<1>1. CASE GroupMade \/ GroupNamed \/ GroupDeleted \/ GroupResourceChanges
  <2>1. /\ named' \in GroupIds \cup {0, NoGroup}
        /\ own' \subseteq GroupIds
        /\ UNCHANGED <<account, title, catalog>>
    BY <1>1 DEF GroupMade, GroupNamed, GroupDeleted, GroupResourceChanges,
                Reference!Made, Reference!Lost, Reference!Seen, SurroundingsTypeOK
  <2>2. QED
    BY <2>1 DEF SurroundingsTypeOK
<1>2. CASE RoleMade \/ RoleChanges
  BY <1>2 DEF RoleMade, RoleChanges, SurroundingsTypeOK
<1>3. CASE AccountChanges
  BY <1>3 DEF AccountChanges, SurroundingsTypeOK
<1>4. CASE CustomRoleChanges
  BY <1>4 DEF CustomRoleChanges, SurroundingsTypeOK
<1>5. QED
  BY <1>1, <1>2, <1>3, <1>4

\* and so do those of Reconcile, which invites users and turns them out.
LEMMA ReconcileSurroundings ==
  ASSUME AllTypeOK, Reconcile
  PROVE  SurroundingsTypeOK'
<1>1. CASE UNCHANGED surroundings
  BY <1>1 DEF AllTypeOK, SurroundingsTypeOK, surroundings
<1>2. CASE InviteUser
  BY <1>2 DEF InviteUser, AllTypeOK, SurroundingsTypeOK
<1>3. CASE WithdrawUser
  BY <1>3 DEF WithdrawUser, AllTypeOK, SurroundingsTypeOK
<1>4. QED
  BY <1>1, <1>2, <1>3
     DEF Reconcile, ResolveRoles, ResolveCustomRoles, ResolveSubject, ResolveFails,
         FindUser

\* Every step keeps the types of all variables.
LEMMA TypeStep == AllTypeOK /\ [Next]_allVars => AllTypeOK'
<1> SUFFICES ASSUME AllTypeOK, [Next]_allVars PROVE AllTypeOK'
  OBVIOUS
<1>1. CASE Reconcile
  BY <1>1, ReconcileType, ReconcileSurroundings DEF AllTypeOK
<1>2. CASE (Environment \/ ConsoleStep) /\ UNCHANGED surroundings
  BY <1>2, EnvironmentType, ConsoleStepType
     DEF AllTypeOK, SurroundingsTypeOK, surroundings
<1>3. CASE OtherControllers
  BY <1>3, OthersSurroundings, StutterType DEF OtherControllers, AllTypeOK, vars
<1>4. CASE ReferenceStep
  BY <1>4, OthersSurroundings, ReferenceStepType DEF ReferenceStep, AllTypeOK
<1>5. CASE UNCHANGED allVars
  BY <1>5, StutterType DEF allVars, AllTypeOK, SurroundingsTypeOK, surroundings
<1>6. QED
  BY <1>1, <1>2, <1>3, <1>4, <1>5 DEF Next

\* The initial states are of those types.
LEMMA AllInitType == InitAll => AllTypeOK
  BY InitType, AccessPolicyAssumption DEF InitAll, AllTypeOK, SurroundingsTypeOK

\* The type invariant of the AccessPolicy controller: in particular a policy in
\* hand never is for a group resource or a role that does not exist.
THEOREM TypeCorrect == Spec => []TypeOK
<1>1. AllTypeOK => TypeOK
  BY DEF AllTypeOK
<1>2. QED
  BY <1>1, AllInitType, TypeStep, PTL DEF Spec

-----------------------------------------------------------------------------
(* Ownership *)

\* What others do to the surroundings is nothing to the resources.
LEMMA OutsideSame ==
  ASSUME OtherControllers \/ ReferenceStep
  PROVE  /\ UNCHANGED <<api, cache, current, pc, key, inst, fresh, made, iam>>
         /\ Touches
  BY DEF OtherControllers, ReferenceStep, Console, IamUnchanged, Touches, kube, worker

\* The steps of the controller that resolve references.
Resolving ==
    \/ ResolveRoles \/ ResolveCustomRoles \/ ResolveSubject \/ ResolveFails
    \/ InviteUser \/ FindUser \/ WithdrawUser

\* They come to know something, or fail to, or go on to turn out a user.
LEMMA ResolvingSteps ==
  ASSUME Resolving
  PROVE  /\ pc \in {"sync", "customRoles", "subject", "findUser", "withdraw"}
         /\ IamUnchanged
         /\ \/ \E policy :
                 \E next \in {"customRoles", "subject", "findUser", "fetch", "create"} :
                    /\ next = "create" => inst.status.id = 0
                    /\ Known(policy, next)
            \/ NotResolved
            \/ Goto("withdraw") /\ ApiUnchanged /\ Frame
<1>1. \A policy : Resolved(policy) =>
        \E next \in {"fetch", "create"} :
           (next = "create" => inst.status.id = 0) /\ Known(policy, next)
  BY DEF Resolved
<1>2. CASE ResolveRoles \/ ResolveCustomRoles
  BY <1>2 DEF ResolveRoles, ResolveCustomRoles, Known
<1>3. CASE InviteUser
  BY <1>3 DEF InviteUser, NotResolved, Known
<1>4. CASE ResolveSubject \/ FindUser
  BY <1>1, <1>4 DEF ResolveSubject, FindUser, NotResolved, Known
<1>5. CASE ResolveFails \/ WithdrawUser
  BY <1>5 DEF ResolveFails, WithdrawUser, NotResolved
<1>6. QED
  BY <1>2, <1>3, <1>4, <1>5 DEF Resolving

\* The steps of Reconcile keep ownership.
LEMMA ReconcileOwn == Inv /\ Reconcile => Ownership'
<1> SUFFICES ASSUME Inv, Reconcile PROVE Ownership'
  OBVIOUS
<1>1. CASE CommonStep(isWellFormed(inst.spec), isWellFormed(inst.spec), inst.spec)
  BY <1>1, Busy, CommonOwn, CommonBusy DEF Inv
<1>2. CASE PolicyStep(Valid(held))
  BY <1>2, PolicyStepOwn
<1>3. CASE Resolving
  <2>1. CASE Goto("withdraw") /\ ApiUnchanged /\ Frame
    BY <1>3, <2>1, ResolvingSteps, SameKeeps, QuietOwn DEF PCs, Labels
  <2>2. QED
    BY <1>3, <2>1, ResolvingSteps, KnownOwn, NotResolvedOwn DEF PCs, Labels
<1>4. QED
  BY <1>1, <1>2, <1>3 DEF Reconcile, Resolving

\* The steps of Reconcile touch own policies only.
LEMMA ReconcileTouches == Inv /\ Reconcile => Touches
<1> SUFFICES ASSUME Inv, Reconcile PROVE Touches
  OBVIOUS
<1>1. CASE Resolving
  BY <1>1, ResolvingSteps, ResolvingTouches
<1>2. QED
  BY <1>1, CommonTouches, PolicyStepTouches DEF Reconcile, Resolving

\* Every step keeps ownership, and touches own policies only.
LEMMA OwnershipStep ==
  Inv /\ [Next]_allVars => Ownership' /\ [Touches]_vars
<1> SUFFICES ASSUME Inv, [Next]_allVars PROVE Ownership' /\ [Touches]_vars
  OBVIOUS
<1>1. CASE Reconcile
  BY <1>1, ReconcileOwn, ReconcileTouches
<1>2. CASE Environment
  BY <1>2, EnvironmentOwn, EnvironmentTouches
<1>3. CASE ConsoleStep
  BY <1>3, ConsoleOwn, ConsoleTouches DEF ConsoleStep
<1>4. CASE OtherControllers \/ ReferenceStep
  BY <1>4, OutsideSame DEF Inv, Ownership, Own, Held, Same, Exists
<1>5. CASE UNCHANGED allVars
  BY <1>5, StutterOwn DEF allVars
<1>6. QED
  BY <1>1, <1>2, <1>3, <1>4, <1>5 DEF Next

\* Types and ownership are kept together, from the start.
LEMMA InvCorrect ==
  /\ InitAll => AllTypeOK /\ Inv
  /\ AllTypeOK /\ Inv /\ [Next]_allVars => (AllTypeOK /\ Inv)' /\ [Touches]_vars
  BY AllInitType, InitOwn, TypeStep, OwnershipStep DEF Inv, InitAll, AllTypeOK

\* Under all failures, crashes and stale reads every copy of a resource names
\* only a policy that was created for that incarnation of it.
THEOREM OwnershipCorrect == Spec => []Ownership
<1>1. Inv => Ownership
  BY DEF Inv
<1>2. QED
  BY <1>1, InvCorrect, PTL DEF Spec

\* In particular the stored ones do: ids are never inherited nor adopted.
THEOREM RecordedEntityCorrect == Spec => []RecordedEntityIsOwn
  BY RecordedOwn, OwnershipCorrect, PTL

\* Whatever fails, however stale its copy and whatever its references have come
\* to stand for, the operator changes and deletes only policies created for the
\* resource it reconciles.
THEOREM TouchesOnlyOwnEntitiesCorrect == Spec => TouchesOnlyOwnEntities
<1>1. [Touches]_vars => [changes' = changes =>
         \A i \in Ids : iam[i].live /\ iam'[i] # iam[i] =>
             inst.uid # 0 /\ iam[i].owner = inst.uid]_vars
  BY DEF Touches
<1>2. QED
  BY <1>1, InvCorrect, PTL DEF Spec, TouchesOnlyOwnEntities

-----------------------------------------------------------------------------
(* Incarnations *)

\* The steps that resolve references move the worker, and write nothing.
LEMMA ResolvingStepsMove ==
  ASSUME TypeOK, NEW G, Resolving
  PROVE  Moves(G)
<1>1. pc # "compensate"
  BY ResolvingSteps
<1>2. CASE Goto("withdraw") /\ ApiUnchanged /\ Frame /\ IamUnchanged
  BY <1>1, <1>2, GotoMoves, QuietMoves, OneOwnerMoves
<1>3. QED
  BY <1>1, <1>2, ResolvingSteps, ResolvingMoves DEF PCs

\* The steps of Reconcile; they write the spec they have read.
LEMMA ReconcileMoves ==
  ASSUME TypeOK, NEW G, pc # "idle" => inst.spec \in G, Reconcile
  PROVE  Moves(G)
<1>1. CASE CommonStep(isWellFormed(inst.spec), isWellFormed(inst.spec), inst.spec)
  BY <1>1, CommonBusy, CommonMoves
<1>2. QED
  BY <1>1, ResolvingStepsMove, PolicyStepMoves DEF Reconcile, Resolving

\* What others do to the surroundings moves nothing here.
LEMMA OutsideMoves ==
  ASSUME TypeOK, NEW G, OtherControllers \/ ReferenceStep
  PROVE  Moves(G)
<1>1. UNCHANGED <<api, cache, created, pc, key, inst, made, iam, faults>>
  BY DEF OtherControllers, ReferenceStep, Console, IamUnchanged, kube, worker
<1>2. QED
  BY <1>1 DEF Moves, StoreMoves, CacheMoves, WorkerMoves, OwnerMoves, MadeMoves,
              NameMoves

\* Every step, if users submit specs of G.
LEMMA NextMoves ==
  ASSUME TypeOK, NEW G, Specs \subseteq G, pc # "idle" => inst.spec \in G,
         [Next]_allVars
  PROVE  Moves(G)
<1>1. CASE ConsoleStep
  BY <1>1, ConsoleMoves DEF ConsoleStep
<1>2. CASE UNCHANGED allVars
  BY <1>2, StutterMoves DEF allVars
<1>3. QED
  BY <1>1, <1>2, ReconcileMoves, EnvironmentMoves, OutsideMoves DEF Next

\* Every step keeps Incarnations.
LEMMA IncarnationsStep == TypeOK /\ Incarnations /\ [Next]_allVars => Incarnations'
  BY NextMoves, Busy, KubeAssumption, MovesKeep

\* Whatever fails, resources of one name are told apart by their uids, and no
\* step undoes a deletion or acts on one that did not happen.
THEOREM IncarnationsCorrect == Spec => []Incarnations
<1>1. InitAll => Incarnations
  BY InitIncarnations DEF InitAll
<1>2. QED
  BY <1>1, IncarnationsStep, TypeCorrect, PTL DEF Spec

\* Nobody's status names the policy just made, unless the answer to the write of
\* that status was lost.
LEMMA UnnamedCorrect == Spec => []Unnamed
<1>1. Inv /\ Unnamed /\ [Next]_allVars => Unnamed'
  <2> SUFFICES ASSUME Inv, Unnamed, [Next]_allVars PROVE Unnamed'
    OBVIOUS
  <2>1. Moves(SpecType)
    BY NextMoves, Busy, KubeAssumption DEF Inv
  <2>2. QED
    BY <2>1, MovesUnnamed
<1>2. InitAll => Unnamed
  BY InitUnnamed DEF InitAll
<1>3. QED
  BY <1>1, <1>2, InvCorrect, PTL DEF Spec

\* A step of Reconcile deletes no recorded policy of a resource that stays.
LEMMA ReconcileSpares == Inv /\ Incarnations /\ Unnamed /\ Reconcile => Spares
<1> SUFFICES ASSUME Inv, Incarnations, Unnamed, Reconcile PROVE Spares
  OBVIOUS
<1>1. CASE Resolving
  BY <1>1, ResolvingSteps, SparesAll DEF Inv
<1>2. QED
  BY <1>1, CommonSpares, PolicyStepSpares DEF Reconcile, Resolving, Inv

\* Whatever fails, however stale the copy it works with and whatever becomes of
\* its references, the operator never deletes the policy the status of a resource
\* that stays names: neither in tear-down nor in compensation.  The one exception
\* is a policy just made whose recording was done and reported as failed.
THEOREM KeepsRecordedEntitiesCorrect == Spec => KeepsRecordedEntities
<1>1. Inv /\ Incarnations /\ Unnamed /\ [Next]_allVars => [Spares]_vars
  <2> SUFFICES ASSUME Inv, Incarnations, Unnamed, [Next]_allVars PROVE [Spares]_vars
    OBVIOUS
  <2>1. CASE ConsoleStep
    BY <2>1, ConsoleSpares DEF ConsoleStep, Inv
  <2>2. CASE OtherControllers \/ ReferenceStep
    BY <2>2, OutsideSame, SparesAll DEF IamUnchanged, Inv
  <2>3. CASE UNCHANGED allVars
    BY <2>3 DEF allVars
  <2>4. QED
    BY <2>1, <2>2, <2>3, ReconcileSpares, EnvironmentSpares DEF Next, Inv
<1>2. [Spares]_vars => [changes' = changes =>
         \A c \in Resources :
            LET i == api[c].status.id IN
            i # 0 /\ ~api[c].deleting /\ iam[i].live =>
                iam'[i].live \/ (i = made /\ LostAnswer)]_vars
  BY DEF Spares
<1>3. QED
  BY <1>1, <1>2, InvCorrect, IncarnationsCorrect, UnnamedCorrect, PTL
     DEF Spec, KeepsRecordedEntities

-----------------------------------------------------------------------------
(* No policy is left behind, and no resource has two *)

\* What users submit is well-formed.
SpecsWellFormed == \A s \in Specs : isWellFormed(s)

\* Every step makes or loses at most one policy.
LEMMA NextEntities == TypeOK /\ [Next]_allVars => EntityMoves
<1> SUFFICES ASSUME TypeOK, [Next]_allVars PROVE EntityMoves
  OBVIOUS
<1>1. CASE UNCHANGED allVars \/ OtherControllers \/ ReferenceStep
  BY <1>1, OutsideSame, SameEntityMoves DEF allVars, vars, IamUnchanged
<1>2. CASE ConsoleStep
  BY <1>2, ConsoleEntities DEF ConsoleStep
<1>3. CASE Resolving
  BY <1>3, ResolvingSteps, SameEntityMoves
<1>4. QED
  BY <1>1, <1>2, <1>3, EnvironmentEntities, CommonEntities, PolicyStepEntities
     DEF Next, Reconcile, Resolving

\* The steps that resolve references.
LEMMA ResolvingStepsServe ==
  ASSUME Inv, Custody, Resolving
  PROVE  Serves /\ Controlled'
<1>1. /\ pc \in Syncing \ Making /\ pc \in Syncing \ {"compensate"}
      /\ "withdraw" \in Syncing \ {"clearId", "create"}
      /\ {"customRoles", "subject", "findUser", "fetch", "create"}
            \subseteq Syncing \ {"clearId", "compensate"}
  BY ResolvingSteps DEF Syncing, Making
<1>2. CASE Goto("withdraw") /\ ApiUnchanged /\ IamUnchanged
  <2>1. Keeps
    BY <1>2, SameKeeps
  <2>2. QED
    BY <1>1, <1>2, <2>1, OnServes
<1>3. QED
  BY <1>1, <1>2, ResolvingSteps, KnownServes, NotResolvedServes

\* The steps of Reconcile.
LEMMA ReconcileServes ==
  ASSUME Reliable, Inv, Incarnations, Custody,
         pc = "check" => isWellFormed(inst.spec), Reconcile
  PROVE  Serves /\ Controlled'
<1>1. CASE CommonStep(isWellFormed(inst.spec), isWellFormed(inst.spec), inst.spec)
  BY <1>1, CommonServes
<1>2. QED
  BY <1>1, ResolvingStepsServe, PolicyStepServes DEF Reconcile, Resolving

\* What others do to the surroundings.
LEMMA OutsideServes ==
  ASSUME Custody, OtherControllers \/ ReferenceStep
  PROVE  Serves /\ Controlled'
<1>1. UNCHANGED <<api, pc, key, inst, fresh, made, iam>>
  BY OutsideSame
<1>2. QED
  BY <1>1 DEF Serves, ServesStore, ServesWorker, ServesIam, Custody, Controlled, Gone

\* Every step.
LEMMA NextServes ==
  ASSUME Reliable, Inv, Incarnations, Custody,
         pc = "check" => isWellFormed(inst.spec), [Next]_allVars
  PROVE  Serves /\ Controlled'
<1>1. CASE ConsoleStep
  BY <1>1, ConsoleServes DEF ConsoleStep
<1>2. CASE UNCHANGED allVars
  BY <1>2, StutterServes DEF allVars
<1>3. QED
  BY <1>1, <1>2, ReconcileServes, EnvironmentServes, OutsideServes DEF Next

\* All that is kept while nothing fails that matters.
Kept == AllTypeOK /\ Inv /\ Incarnations /\ SpecsIn(Specs) /\ Custody

\* What the steps do while it is.
LEMMA KeptMoves ==
  ASSUME Reliable, SpecsWellFormed, Kept, [Next]_allVars
  PROVE  Moves(Specs) /\ Serves /\ Controlled'
<1>1. ASSUME pc # "idle" PROVE inst.spec \in Specs /\ isWellFormed(inst.spec)
  <2>1. inst.spec \in Specs
    BY <1>1, Busy DEF Kept, Inv, Ownership, SpecsIn, Copies
  <2>2. QED
    BY <2>1 DEF SpecsWellFormed
<1>2. Moves(Specs)
  BY <1>1, NextMoves DEF Kept, Inv
<1>3. Serves /\ Controlled'
  BY <1>1, NextServes DEF Kept
<1>4. QED
  BY <1>2, <1>3

\* It is kept.
LEMMA KeptCorrect ==
  ASSUME Reliable, SpecsWellFormed
  PROVE  (InitAll => Kept) /\ (Kept /\ [Next]_allVars => Kept')
<1>1. Init => SpecsIn(Specs)
  BY DEF Init, KubeInit, SpecsIn, Copies, Absent, Exists
<1>2. InitAll => Kept
  BY <1>1, InvCorrect, InitIncarnations, InitCustody DEF Kept, InitAll
<1>3. ASSUME Kept, [Next]_allVars PROVE Kept'
  BY <1>3, KeptMoves, InvCorrect, MovesKeep, SpecsKeep, CustodyKeep DEF Kept, Inv
<1>4. QED
  BY <1>2, <1>3

\* The inductive invariant holds.
THEOREM CustodyCorrect ==
  ASSUME Reliable, SpecsWellFormed
  PROVE  Spec => []Custody
<1>1. Kept => Custody
  BY DEF Kept
<1>2. QED
  BY <1>1, KeptCorrect, PTL DEF Spec

\* While the process lives and IAM's answers arrive, every policy made for a
\* resource has it, with the finalizer.
THEOREM EntitiesHaveTheirResourceCorrect ==
  ASSUME Reliable, SpecsWellFormed
  PROVE  Spec => []EntitiesHaveTheirResource
<1>1. Custody => EntitiesHaveTheirResource
  BY DEF Custody
<1>2. QED
  BY <1>1, CustodyCorrect, PTL

\* And no resource ever has two, but for the one just made.
THEOREM OneEntityPerResourceCorrect ==
  ASSUME Reliable, SpecsWellFormed
  PROVE  Spec => []OneEntityPerResource
<1>1. Custody => OneEntityPerResource
  BY DEF Custody
<1>2. QED
  BY <1>1, CustodyCorrect, PTL

\* The controller keeps the promise of ManagedEntity, whatever becomes of the
\* users, groups and roles its policies refer to: policies are made only for
\* resources that are there, and a resource goes only when none of its policies
\* is left.
THEOREM ImplementsManagedEntityCorrect ==
  ASSUME Reliable, SpecsWellFormed
  PROVE  Spec => ImplementsManagedEntity
<1>1. Kept /\ Kept' /\ [Next]_allVars => [Promise!Next]_(Promise!vars)
  <2> SUFFICES ASSUME Kept, Kept', [Next]_allVars PROVE [Promise!Next]_(Promise!vars)
    OBVIOUS
  <2>1. EntityMoves
    BY NextEntities DEF Kept, Inv
  <2>2. QED
    BY <2>1, KeptMoves, PromiseStep DEF Kept
<1>2. InitAll => Promise!Init
  BY InitPromise DEF InitAll
<1>3. QED
  BY <1>1, <1>2, KeptCorrect, PTL DEF Spec, ImplementsManagedEntity, Promise!Spec
=============================================================================
