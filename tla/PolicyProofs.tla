---------------------------- MODULE PolicyProofs ----------------------------
(***************************************************************************)
(* What both policy controllers share keeps the types, Ownership,          *)
(* Incarnations and Custody, and touches no policy but the resource's own. *)
(***************************************************************************)
EXTENDS PolicyController, ReconcilerPromise

\* Something is known of the policy: the worker has it in hand, and goes on.
LEMMA KnownType ==
  ASSUME TypeOK, pc # "idle", NEW policy \in DefType, NEW next \in PCs \ {"idle"},
         Known(policy, next), UNCHANGED faults \/ \E kind : Fault(kind)
  PROVE  TypeOK'
<1>1. IamTypeOK'
  BY IamSameType DEF Known
<1>2. WorkerTypeOK' /\ timers' \subseteq Resources
  BY DEF Known, TypeOK, KubeTypeOK, WorkerTypeOK
<1>3. QED
  BY <1>1, <1>2, LocalStepType DEF Known

\* All of it is known.
LEMMA ResolvedType ==
  ASSUME TypeOK, pc # "idle", NEW policy \in DefType, Resolved(policy),
         UNCHANGED faults \/ \E kind : Fault(kind)
  PROVE  TypeOK'
  BY KnownType DEF Resolved, PCs

\* A reference cannot be resolved.
LEMMA NotResolvedType ==
  ASSUME TypeOK, pc # "idle", NotResolved,
         UNCHANGED faults \/ \E kind : Fault(kind)
  PROVE  TypeOK'
  BY QuietType DEF NotResolved, PCs

\* The steps from the resolved policy on keep the types.
LEMMA PolicyStepType ==
  ASSUME TypeOK, NEW valid, PolicyStep(valid)
  PROVE  TypeOK'
<1>1. held \in DefType
  BY DEF TypeOK, WorkerTypeOK
<1>2. CASE PolicyUnchanged \/ PolicyRefused(valid)
  <2>1. pc # "idle" /\ UNCHANGED faults /\ ApiUnchanged /\ Frame /\ IamUnchanged
    BY <1>2 DEF PolicyUnchanged, PolicyRefused, NothingToDo, RecordedAt
  <2>2. \/ \E r \in BOOLEAN : Return(r)
        \/ \E label \in PCs : Goto(label)
    BY <1>2 DEF PolicyUnchanged, PolicyRefused, NothingToDo, PCs
  <2>3. QED
    BY <2>1, <2>2, QuietType
<1>3. CASE PolicyChanged
  BY <1>1, <1>3, GoUpdateType DEF PolicyChanged, RecordedAt
<1>4. CASE NotRetrieved("fetch")
  BY <1>4, NotRetrievedType
<1>5. CASE UpdatePolicy
  BY <1>1, <1>5, UpdateEntityType DEF UpdatePolicy, PCs
<1>6. CASE CreatePolicy
  BY <1>1, <1>6, CreateEntityType DEF CreatePolicy, PCs
<1>7. CASE RecordPolicy
  BY <1>7, Busy, RecordType DEF RecordPolicy, Record
<1>8. QED
  BY <1>2, <1>3, <1>4, <1>5, <1>6, <1>7 DEF PolicyStep

-----------------------------------------------------------------------------
(* Ownership *)

\* Resolving a policy gives nothing to anybody,
LEMMA KnownOwn ==
  ASSUME Inv, pc # "idle", NEW policy, NEW next \in Labels, Known(policy, next)
  PROVE  Ownership'
<1>1. StoredOwn'
  BY SameKeeps, StoredSame DEF Known, Frame, ApiUnchanged
<1>2. WorkerOwn'
  BY DEF Labels, Known, ApiUnchanged, IamUnchanged, Inv, Ownership, WorkerOwn, Own,
         Same, Exists
<1>3. QED
  BY <1>1, <1>2, OwnershipParts

\* nor does failing to.
LEMMA NotResolvedOwn ==
  ASSUME Inv, pc # "idle", NotResolved
  PROVE  Ownership'
  BY SameKeeps, QuietOwn DEF NotResolved, Labels, PCs

\* The steps from the resolved policy on keep ownership.
LEMMA PolicyStepOwn ==
  ASSUME Inv, NEW valid, PolicyStep(valid)
  PROVE  Ownership'
<1>1. CASE PolicyUnchanged \/ PolicyRefused(valid)
  <2>1. pc # "idle" /\ ApiUnchanged /\ Frame /\ Keeps
    BY <1>1, SameKeeps DEF PolicyUnchanged, PolicyRefused, NothingToDo, RecordedAt
  <2>2. \/ \E r \in BOOLEAN : Return(r)
        \/ \E label \in Labels : Goto(label)
    BY <1>1 DEF PolicyUnchanged, PolicyRefused, NothingToDo, PCs, Labels
  <2>3. QED
    BY <2>1, <2>2, QuietOwn
<1>2. CASE PolicyChanged
  BY <1>2, GoUpdateOwn DEF PolicyChanged, RecordedAt
<1>3. CASE NotRetrieved("fetch")
  BY <1>3, NotRetrievedOwn
<1>4. CASE UpdatePolicy
  BY <1>4, UpdateEntityOwn DEF UpdatePolicy, Labels, PCs
<1>5. CASE CreatePolicy
  BY <1>5, CreateEntityOwn DEF CreatePolicy, Labels, PCs
<1>6. CASE RecordPolicy
  BY <1>6, Busy, RecordOwn DEF RecordPolicy, Record, Inv
<1>7. QED
  BY <1>1, <1>2, <1>3, <1>4, <1>5, <1>6 DEF PolicyStep

\* Resolving touches no policy,
LEMMA ResolvingTouches ==
  ASSUME Inv, pc # "idle", IamUnchanged
  PROVE  Touches
  BY TouchesOne

\* and what follows only the resource's own.
LEMMA PolicyStepTouches ==
  ASSUME Inv, NEW valid, PolicyStep(valid)
  PROVE  Touches
<1>1. CASE UpdatePolicy
  BY <1>1, UpdateTouches DEF UpdatePolicy
<1>2. CASE CreatePolicy
  BY <1>2, CreateTouches DEF CreatePolicy
<1>3. CASE \/ PolicyUnchanged \/ PolicyChanged \/ NotRetrieved("fetch")
           \/ PolicyRefused(valid) \/ RecordPolicy
  <2>1. pc # "idle" /\ IamUnchanged
    BY <1>3 DEF PolicyUnchanged, NothingToDo, PolicyChanged, GoUpdate, NotRetrieved,
                PolicyRefused, RecordPolicy, Record, RecordedAt
  <2>2. QED
    BY <2>1, ResolvingTouches
<1>4. QED
  BY <1>1, <1>2, <1>3 DEF PolicyStep

-----------------------------------------------------------------------------
(* Incarnations *)

\* Resolving a policy moves the worker, or fails to.
LEMMA ResolvingMoves ==
  ASSUME TypeOK, NEW G, pc # "compensate", NEW policy,
         NEW next \in PCs \ {"teardown"}, Known(policy, next) \/ NotResolved
  PROVE  Moves(G)
<1>1. ApiUnchanged /\ Frame /\ IamUnchanged
  BY DEF Known, NotResolved
<1>2. WorkerMoves(G)
  BY GotoMoves DEF Known, NotResolved, WorkerMoves, MadeMoves
<1>3. QED
  BY <1>1, <1>2, QuietMoves, OneOwnerMoves

\* The steps from the resolved policy on write no spec.
LEMMA PolicyStepMoves ==
  ASSUME TypeOK, NEW G, NEW valid, PolicyStep(valid)
  PROVE  Moves(G)
<1>1. CASE PolicyUnchanged \/ PolicyRefused(valid)
  <2>1. ApiUnchanged /\ Frame /\ IamUnchanged
    BY <1>1 DEF PolicyUnchanged, PolicyRefused, NothingToDo
  <2>2. WorkerMoves(G)
    BY <1>1, ReturnMoves, GotoMoves
       DEF PolicyUnchanged, PolicyRefused, NothingToDo, RecordedAt
  <2>3. QED
    BY <2>1, <2>2, QuietMoves, OneOwnerMoves
<1>2. CASE PolicyChanged
  BY <1>2, GoUpdateMoves DEF PolicyChanged, RecordedAt
<1>3. CASE NotRetrieved("fetch")
  BY <1>3, NotRetrievedMoves
<1>4. CASE UpdatePolicy
  BY <1>4, UpdateEntityMoves DEF UpdatePolicy
<1>5. CASE CreatePolicy
  BY <1>5, CreateEntityMoves DEF CreatePolicy
<1>6. CASE RecordPolicy
  BY <1>6, RecordMoves DEF RecordPolicy
<1>7. QED
  BY <1>1, <1>2, <1>3, <1>4, <1>5, <1>6 DEF PolicyStep

\* They delete no policy, and make at most one: what creates it.
LEMMA PolicyStepSpares ==
  ASSUME TypeOK, Unnamed, NEW valid, PolicyStep(valid)
  PROVE  Spares
  BY SparesAll
     DEF PolicyStep, PolicyUnchanged, PolicyRefused, NothingToDo, PolicyChanged,
         GoUpdate, NotRetrieved, UpdatePolicy, UpdateEntity, CreatePolicy,
         CreateEntity, RecordPolicy, Record

\* The same, for those who count policies.
LEMMA PolicyStepEntities ==
  ASSUME TypeOK, NEW valid, PolicyStep(valid)
  PROVE  EntityMoves
<1>1. CASE CreatePolicy
  BY <1>1, CreateEntities DEF CreatePolicy
<1>2. CASE UpdatePolicy
  BY <1>2, SameEntityMoves DEF UpdatePolicy, UpdateEntity
<1>3. CASE \/ PolicyUnchanged \/ PolicyChanged \/ NotRetrieved("fetch")
           \/ PolicyRefused(valid) \/ RecordPolicy
  BY <1>3, SameEntityMoves
     DEF PolicyUnchanged, NothingToDo, PolicyChanged, GoUpdate, NotRetrieved,
         PolicyRefused, RecordPolicy, Record
<1>4. QED
  BY <1>1, <1>2, <1>3 DEF PolicyStep

-----------------------------------------------------------------------------
(* Custody *)

\* Something is known of a policy: none is created if the status names one.
LEMMA KnownServes ==
  ASSUME Inv, Custody, pc \in Syncing \ Making, NEW policy,
         NEW next \in Syncing \ {"clearId", "compensate"},
         next = "create" => inst.status.id = 0, Known(policy, next)
  PROVE  Serves /\ Controlled'
<1>1. ServesStore
  BY DEF Known, ApiUnchanged, ServesStore
<1>2. ServesIam
  BY DEF Known, IamUnchanged, ServesIam
<1>3. ServesWorker
  BY DEF Known, ServesWorker
<1>4. /\ pc' = next /\ pc # "compensate"
      /\ next \notin {"idle", "dropFinalizer", "clearStatus", "removeFinalizer"}
      /\ UNCHANGED <<key, inst, fresh, made, api, iam>>
  BY DEF Known, ApiUnchanged, IamUnchanged, Syncing, Making
<1>5. Controlled'
  <2>1. ~inst.deleting /\ inst.own /\ (made # 0 => inst.status.id = 0 /\ Gone(made))
    BY DEF Custody, Controlled
  <2>2. UNCHANGED <<Gone(made), Gone(inst.status.id)>>
    BY <1>4 DEF Gone
  <2>3. QED
    BY <1>4, <2>1, <2>2 DEF Controlled, Custody
<1>6. QED
  BY <1>1, <1>2, <1>3, <1>5 DEF Serves

\* All of it is known.
LEMMA ResolvedServes ==
  ASSUME Inv, Custody, pc \in Syncing \ Making, NEW policy, Resolved(policy)
  PROVE  Serves /\ Controlled'
  BY KnownServes DEF Resolved, Syncing

\* A reference cannot be resolved.
LEMMA NotResolvedServes ==
  ASSUME Inv, Custody, pc \in Syncing \ Making, NotResolved
  PROVE  Serves /\ Controlled'
<1>1. pc \in Syncing \ {"compensate"} /\ pc \notin Making
  BY DEF Making
<1>2. Keeps
  BY SameKeeps DEF NotResolved
<1>3. QED
  BY <1>1, <1>2, OnServes DEF NotResolved

\* The steps from the resolved policy on.
LEMMA PolicyStepServes ==
  ASSUME Reliable, Inv, Custody, NEW valid, PolicyStep(valid)
  PROVE  Serves /\ Controlled'
<1>1. /\ {"fetch", "create", "update"} \subseteq Syncing \ (Making \cup {"compensate", "idle"})
      /\ "record" \in Making \ {"compensate"}
      /\ "record" \in Syncing \ {"clearId", "create"}
  BY DEF Syncing, Making
<1>2. CASE PolicyUnchanged
  BY <1>1, <1>2, NothingServes DEF PolicyUnchanged, RecordedAt
<1>3. CASE PolicyRefused(valid)
  <2>1. Keeps
    BY <1>3, SameKeeps DEF PolicyRefused
  <2>2. QED
    BY <1>1, <1>3, <2>1, OnServes DEF PolicyRefused
<1>4. CASE PolicyChanged
  BY <1>1, <1>4, GoUpdateServes DEF PolicyChanged, RecordedAt
<1>5. CASE NotRetrieved("fetch")
  BY <1>1, <1>5, NotRetrievedServes
<1>6. CASE UpdatePolicy
  BY <1>1, <1>6, UpdateEntityServes DEF UpdatePolicy
<1>7. CASE CreatePolicy
  BY <1>1, <1>7, CreateEntityServes DEF CreatePolicy
<1>8. CASE RecordPolicy
  BY <1>8, RecordServes DEF RecordPolicy
<1>9. QED
  BY <1>2, <1>3, <1>4, <1>5, <1>6, <1>7, <1>8 DEF PolicyStep
=============================================================================
