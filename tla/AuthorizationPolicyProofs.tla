---------------------- MODULE AuthorizationPolicyProofs ----------------------
(***************************************************************************)
(* Theorems about AuthorizationPolicyController, for all values of its     *)
(* constants, all failures and crashes included.                           *)
(***************************************************************************)
EXTENDS AuthorizationPolicyController, PolicyProofs

\* What a spec asks for is a policy.
LEMMA PolicyForType ==
  ASSUME NEW s \in SpecType
  PROVE  PolicyFor(s) \in DefType
  BY PolicyAssumption, AuthorizationAssumption DEF PolicyFor, Policy, AuthorizationSpec

\* The steps of Reconcile keep the types,
LEMMA ReconcileType == TypeOK /\ Reconcile => TypeOK'
<1> SUFFICES ASSUME TypeOK, Reconcile PROVE TypeOK'
  OBVIOUS
<1>1. CASE CommonStep(isWellFormed(inst.spec), isWellFormed(inst.spec), inst.spec)
  BY <1>1, Busy, CommonType, CommonBusy
<1>2. CASE Resolve
  BY <1>2, Busy, PolicyForType, ResolvedType DEF Resolve
<1>3. CASE ResolveFails
  BY <1>3, NotResolvedType DEF ResolveFails
<1>4. QED
  BY <1>1, <1>2, <1>3, PolicyStepType DEF Reconcile

\* and so do changes through the console.
LEMMA ConsoleStepType == TypeOK /\ ConsoleStep => TypeOK'
<1> SUFFICES ASSUME TypeOK, NEW i \in Ids,
                    \/ \E s \in Specs : \/ ConsoleCreates(i, PolicyFor(s))
                                        \/ ConsoleChanges(i, PolicyFor(s), TRUE)
                    \/ \E R \in SUBSET RoleIds :
                          ConsoleChanges(i, [iam[i].def EXCEPT !.roles = R], TRUE)
                    \/ ConsoleDeletes(i)
             PROVE  TypeOK'
  BY DEF ConsoleStep
<1>1. \A s \in Specs : PolicyFor(s) \in DefType
  BY PolicyForType, KubeAssumption
<1>2. \A R \in SUBSET RoleIds : [iam[i].def EXCEPT !.roles = R] \in DefType
  BY PolicyAssumption DEF TypeOK, IamTypeOK, Entity, Policy
<1>3. CASE ConsoleDeletes(i)
  BY <1>3, ReconcilerAssumption, ConsoleType
<1>4. QED
  BY <1>1, <1>2, <1>3, ConsoleType

\* Every step keeps the types.
LEMMA TypeStep == TypeOK /\ [Next]_vars => TypeOK'
  BY ReconcileType, EnvironmentType, ConsoleStepType, StutterType DEF Next

\* The type invariant of the AuthorizationPolicy controller.
THEOREM TypeCorrect == Spec => []TypeOK
  BY InitType, TypeStep, PTL DEF Spec

-----------------------------------------------------------------------------
(* Ownership *)

\* The steps of Reconcile keep ownership.
LEMMA ReconcileOwn == Inv /\ Reconcile => Ownership'
<1> SUFFICES ASSUME Inv, Reconcile PROVE Ownership'
  OBVIOUS
<1>1. CASE CommonStep(isWellFormed(inst.spec), isWellFormed(inst.spec), inst.spec)
  BY <1>1, Busy, CommonOwn, CommonBusy DEF Inv
<1>2. CASE Resolve
  BY <1>2, KnownOwn DEF Resolve, Resolved, Labels, PCs
<1>3. CASE ResolveFails
  BY <1>3, NotResolvedOwn DEF ResolveFails
<1>4. QED
  BY <1>1, <1>2, <1>3, PolicyStepOwn DEF Reconcile

\* Every step keeps ownership.
LEMMA OwnershipStep == Inv /\ [Next]_vars => Ownership'
<1> SUFFICES ASSUME Inv, Next PROVE Ownership'
  BY StutterOwn
<1>1. CASE ConsoleStep
  BY <1>1, ConsoleOwn DEF ConsoleStep
<1>2. QED
  BY <1>1, ReconcileOwn, EnvironmentOwn DEF Next

\* Both are kept together, from the start.
LEMMA InvCorrect == (Init => Inv) /\ (Inv /\ [Next]_vars => Inv')
  BY InitType, InitOwn, TypeStep, OwnershipStep DEF Inv

\* Under all failures, crashes and stale reads every copy of a resource names
\* only a policy that was created for that incarnation of it.
THEOREM OwnershipCorrect == Spec => []Ownership
<1>1. Inv => Ownership
  BY DEF Inv
<1>2. QED
  BY <1>1, InvCorrect, PTL DEF Spec

\* In particular the stored ones do: ids are never inherited nor adopted.
THEOREM RecordedEntityCorrect == Spec => []RecordedEntityIsOwn
  BY RecordedOwn, OwnershipCorrect, PTL

\* The steps of Reconcile touch own policies only.
LEMMA ReconcileTouches == Inv /\ Reconcile => Touches
<1> SUFFICES ASSUME Inv, Reconcile PROVE Touches
  OBVIOUS
<1>1. CASE Resolve \/ ResolveFails
  BY <1>1, ResolvingTouches DEF Resolve, Resolved, Known, ResolveFails, NotResolved
<1>2. QED
  BY <1>1, CommonTouches, PolicyStepTouches DEF Reconcile

\* Whatever fails and however stale its copy, the operator changes and deletes
\* only policies created for the resource it reconciles.
THEOREM TouchesOnlyOwnEntitiesCorrect == Spec => TouchesOnlyOwnEntities
<1>1. Inv /\ [Next]_vars => [Touches]_vars
  <2> SUFFICES ASSUME Inv, Next PROVE Touches
    OBVIOUS
  <2>1. CASE ConsoleStep
    BY <2>1, ConsoleTouches DEF ConsoleStep
  <2>2. QED
    BY <2>1, ReconcileTouches, EnvironmentTouches DEF Next
<1>2. [Touches]_vars => [changes' = changes =>
         \A i \in Ids : iam[i].live /\ iam'[i] # iam[i] =>
             inst.uid # 0 /\ iam[i].owner = inst.uid]_vars
  BY DEF Touches
<1>3. QED
  BY <1>1, <1>2, InvCorrect, PTL DEF Spec, TouchesOnlyOwnEntities

-----------------------------------------------------------------------------
(* Incarnations *)

\* The steps of Reconcile; they write the spec they have read.
LEMMA ReconcileMoves ==
  ASSUME TypeOK, NEW G, pc # "idle" => inst.spec \in G, Reconcile
  PROVE  Moves(G)
<1>1. CASE CommonStep(isWellFormed(inst.spec), isWellFormed(inst.spec), inst.spec)
  BY <1>1, CommonBusy, CommonMoves
<1>2. CASE Resolve \/ ResolveFails
  BY <1>2, ResolvingMoves DEF Resolve, Resolved, ResolveFails, PCs
<1>3. QED
  BY <1>1, <1>2, PolicyStepMoves DEF Reconcile

\* Every step, if users submit specs of G.
LEMMA NextMoves ==
  ASSUME TypeOK, NEW G, Specs \subseteq G, pc # "idle" => inst.spec \in G, [Next]_vars
  PROVE  Moves(G)
<1>1. CASE ConsoleStep
  BY <1>1, ConsoleMoves DEF ConsoleStep
<1>2. QED
  BY <1>1, ReconcileMoves, EnvironmentMoves, StutterMoves DEF Next

\* Every step keeps Incarnations.
LEMMA IncarnationsStep == TypeOK /\ Incarnations /\ [Next]_vars => Incarnations'
  BY NextMoves, Busy, KubeAssumption, MovesKeep

\* Whatever fails, resources of one name are told apart by their uids, and no
\* step undoes a deletion or acts on one that did not happen.
THEOREM IncarnationsCorrect == Spec => []Incarnations
  BY InitIncarnations, IncarnationsStep, TypeCorrect, PTL DEF Spec

\* Nobody's status names the policy just made, unless the answer to the write of
\* that status was lost.
LEMMA UnnamedCorrect == Spec => []Unnamed
<1>1. Inv /\ Unnamed /\ [Next]_vars => Unnamed'
  <2> SUFFICES ASSUME Inv, Unnamed, [Next]_vars PROVE Unnamed'
    OBVIOUS
  <2>1. Moves(SpecType)
    BY NextMoves, Busy, KubeAssumption DEF Inv
  <2>2. QED
    BY <2>1, MovesUnnamed
<1>2. QED
  BY <1>1, InitUnnamed, InvCorrect, PTL DEF Spec

\* A step of Reconcile deletes no recorded policy of a resource that stays.
LEMMA ReconcileSpares == Inv /\ Incarnations /\ Unnamed /\ Reconcile => Spares
<1> SUFFICES ASSUME Inv, Incarnations, Unnamed, Reconcile PROVE Spares
  OBVIOUS
<1>1. CASE Resolve \/ ResolveFails
  BY <1>1, SparesAll DEF Resolve, Resolved, Known, ResolveFails, NotResolved, Inv
<1>2. QED
  BY <1>1, CommonSpares, PolicyStepSpares DEF Reconcile, Inv

\* Whatever fails and however stale the copy it works with, the operator never
\* deletes the policy the status of a resource that stays names: neither in
\* tear-down nor in compensation.  The one exception is a policy just made whose
\* recording was done and reported as failed.
THEOREM KeepsRecordedEntitiesCorrect == Spec => KeepsRecordedEntities
<1>1. Inv /\ Incarnations /\ Unnamed /\ [Next]_vars => [Spares]_vars
  <2> SUFFICES ASSUME Inv, Incarnations, Unnamed, Next PROVE Spares
    OBVIOUS
  <2>1. CASE ConsoleStep
    BY <2>1, ConsoleSpares DEF ConsoleStep, Inv
  <2>2. QED
    BY <2>1, ReconcileSpares, EnvironmentSpares DEF Next, Inv
<1>2. [Spares]_vars => [changes' = changes =>
         \A c \in Resources :
            LET i == api[c].status.id IN
            i # 0 /\ ~api[c].deleting /\ iam[i].live =>
                iam'[i].live \/ (i = made /\ LostAnswer)]_vars
  BY DEF Spares
<1>3. QED
  BY <1>1, <1>2, InvCorrect, IncarnationsCorrect, UnnamedCorrect, PTL
     DEF Spec, KeepsRecordedEntities

-----------------------------------------------------------------------------
(* No policy is left behind, and no resource has two *)

\* What users submit is well-formed.
SpecsWellFormed == \A s \in Specs : isWellFormed(s)

\* Every step makes or loses at most one policy.
LEMMA NextEntities == TypeOK /\ [Next]_vars => EntityMoves
<1> SUFFICES ASSUME TypeOK, [Next]_vars PROVE EntityMoves
  OBVIOUS
<1>1. CASE UNCHANGED vars
  BY <1>1, SameEntityMoves DEF vars, IamUnchanged
<1>2. CASE ConsoleStep
  BY <1>2, ConsoleEntities DEF ConsoleStep
<1>3. CASE Resolve \/ ResolveFails
  BY <1>3, SameEntityMoves DEF Resolve, Resolved, Known, ResolveFails, NotResolved
<1>4. QED
  BY <1>1, <1>2, <1>3, EnvironmentEntities, CommonEntities, PolicyStepEntities
     DEF Next, Reconcile

\* The steps of Reconcile.
LEMMA ReconcileServes ==
  ASSUME Reliable, Inv, Incarnations, Custody,
         pc = "check" => isWellFormed(inst.spec), Reconcile
  PROVE  Serves /\ Controlled'
<1>1. CASE CommonStep(isWellFormed(inst.spec), isWellFormed(inst.spec), inst.spec)
  BY <1>1, CommonServes
<1>2. "sync" \in Syncing \ Making
  BY DEF Syncing, Making
<1>3. CASE Resolve
  BY <1>2, <1>3, ResolvedServes DEF Resolve
<1>4. CASE ResolveFails
  BY <1>2, <1>4, NotResolvedServes DEF ResolveFails
<1>5. QED
  BY <1>1, <1>3, <1>4, PolicyStepServes DEF Reconcile

\* Every step.
LEMMA NextServes ==
  ASSUME Reliable, Inv, Incarnations, Custody,
         pc = "check" => isWellFormed(inst.spec), [Next]_vars
  PROVE  Serves /\ Controlled'
<1>1. CASE ConsoleStep
  BY <1>1, ConsoleServes DEF ConsoleStep
<1>2. QED
  BY <1>1, ReconcileServes, EnvironmentServes, StutterServes DEF Next

\* All that is kept while nothing fails that matters.
Kept == Inv /\ Incarnations /\ SpecsIn(Specs) /\ Custody

\* What the steps do while it is.
LEMMA KeptMoves ==
  ASSUME Reliable, SpecsWellFormed, Kept, [Next]_vars
  PROVE  Moves(Specs) /\ Serves /\ Controlled'
<1>1. ASSUME pc # "idle" PROVE inst.spec \in Specs /\ isWellFormed(inst.spec)
  <2>1. inst.spec \in Specs
    BY <1>1, Busy DEF Kept, Inv, Ownership, SpecsIn, Copies
  <2>2. QED
    BY <2>1 DEF SpecsWellFormed
<1>2. Moves(Specs)
  BY <1>1, NextMoves DEF Kept, Inv
<1>3. Serves /\ Controlled'
  BY <1>1, NextServes DEF Kept
<1>4. QED
  BY <1>2, <1>3

\* It is kept.
LEMMA KeptCorrect ==
  ASSUME Reliable, SpecsWellFormed
  PROVE  (Init => Kept) /\ (Kept /\ [Next]_vars => Kept')
<1>1. Init => SpecsIn(Specs)
  BY DEF Init, KubeInit, SpecsIn, Copies, Absent, Exists
<1>2. Init => Kept
  BY <1>1, InvCorrect, InitIncarnations, InitCustody DEF Kept
<1>3. ASSUME Kept, [Next]_vars PROVE Kept'
  BY <1>3, KeptMoves, InvCorrect, MovesKeep, SpecsKeep, CustodyKeep DEF Kept, Inv
<1>4. QED
  BY <1>2, <1>3

\* The inductive invariant holds.
THEOREM CustodyCorrect ==
  ASSUME Reliable, SpecsWellFormed
  PROVE  Spec => []Custody
<1>1. Kept => Custody
  BY DEF Kept
<1>2. QED
  BY <1>1, KeptCorrect, PTL DEF Spec

\* While the process lives and IAM's answers arrive, every policy made for a
\* resource has it, with the finalizer.
THEOREM EntitiesHaveTheirResourceCorrect ==
  ASSUME Reliable, SpecsWellFormed
  PROVE  Spec => []EntitiesHaveTheirResource
<1>1. Custody => EntitiesHaveTheirResource
  BY DEF Custody
<1>2. QED
  BY <1>1, CustodyCorrect, PTL

\* And no resource ever has two, but for the one just made.
THEOREM OneEntityPerResourceCorrect ==
  ASSUME Reliable, SpecsWellFormed
  PROVE  Spec => []OneEntityPerResource
<1>1. Custody => OneEntityPerResource
  BY DEF Custody
<1>2. QED
  BY <1>1, CustodyCorrect, PTL

\* The controller keeps the promise of ManagedEntity: policies are made only for
\* resources that are there, and a resource goes only when none of its policies
\* is left.
THEOREM ImplementsManagedEntityCorrect ==
  ASSUME Reliable, SpecsWellFormed
  PROVE  Spec => ImplementsManagedEntity
<1>1. Kept /\ Kept' /\ [Next]_vars => [Promise!Next]_(Promise!vars)
  <2> SUFFICES ASSUME Kept, Kept', [Next]_vars PROVE [Promise!Next]_(Promise!vars)
    OBVIOUS
  <2>1. EntityMoves
    BY NextEntities DEF Kept, Inv
  <2>2. QED
    BY <2>1, KeptMoves, PromiseStep DEF Kept
<1>2. QED
  BY <1>1, InitPromise, KeptCorrect, PTL DEF Spec, ImplementsManagedEntity, Promise!Spec
=============================================================================
