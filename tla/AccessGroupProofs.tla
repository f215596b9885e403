-------------------------- MODULE AccessGroupProofs --------------------------
(***************************************************************************)
(* Theorems about AccessGroupController, for all values of its constants,  *)
(* all failures and crashes included.  The steps that all controllers      *)
(* share are dealt with in ReconcilerProofs and ReconcilerPromise.         *)
(***************************************************************************)
EXTENDS AccessGroupController, ReconcilerPromise

-----------------------------------------------------------------------------
(* Types *)

\* Encoding a spec yields a spec.
LEMMA PersistedType ==
  ASSUME NEW s \in SpecType
  PROVE  Persisted(s) \in SpecType
  BY GroupAssumption DEF Persisted, GroupSpec

\* The definition an entity has is that of a group.
LEMMA GroupType ==
  ASSUME TypeOK, NEW i \in Ids
  PROVE  /\ iam[i].def \in Group
         /\ iam[i].def.members \in SUBSET Members
  BY GroupAssumption DEF TypeOK, IamTypeOK, Entity, Group

\* What a resource asks for is a group.
LEMMA SpecParts ==
  ASSUME TypeOK, pc # "idle"
  PROVE  /\ inst.spec.name \in Names \cup {NoName}
         /\ inst.spec.members \in SUBSET Members
         /\ Persisted(inst.spec) \in SpecType
  BY Busy, GroupAssumption, PersistedType DEF GroupSpec

\* The steps that leave the worker where it was, or move it, and no more.
LEMMA QuietStepsType ==
  ASSUME TypeOK, GroupUnchanged \/ FindTaken \/ FindFree
  PROVE  TypeOK'
<1>1. /\ pc # "idle" /\ ApiUnchanged /\ Frame /\ IamUnchanged
      /\ UNCHANGED faults \/ \E kind : Fault(kind)
  BY DEF GroupUnchanged, NothingToDo, LookedUp, FindTaken, FindFree, Recorded, RecordedAt,
         Unrecorded
<1>2. \/ \E r \in BOOLEAN : Return(r)
      \/ \E label \in PCs : Goto(label)
  BY DEF GroupUnchanged, NothingToDo, FindTaken, FindFree, PCs
<1>3. QED
  BY <1>1, <1>2, QuietType

\* The retrieval that finds a change.
LEMMA GroupChangedType == TypeOK /\ GroupChanged => TypeOK'
<1> SUFFICES ASSUME TypeOK, GroupChanged PROVE TypeOK'
  OBVIOUS
<1>1. pc # "idle" /\ inst.status.id \in Ids
  BY Busy DEF GroupChanged, Recorded, RecordedAt, Status
<1>2. iam[inst.status.id].def \in DefType
  BY <1>1, GroupType, GroupAssumption
<1>3. UNCHANGED faults \/ \E kind : Fault(kind)
  BY DEF GroupChanged, LookedUp
<1>4. QED
  BY <1>1, <1>2, <1>3, GoUpdateType DEF GroupChanged

\* The update of the group.
LEMMA UpdateGroupType == TypeOK /\ UpdateGroup => TypeOK'
<1> SUFFICES ASSUME TypeOK, UpdateGroup PROVE TypeOK'
  OBVIOUS
<1> DEFINE def == [iam[inst.status.id].def EXCEPT !.name = inst.spec.name]
<1>1. ASSUME inst.status.id \in Ids PROVE def \in DefType
  <2>1. iam[inst.status.id].def \in Group
    BY <1>1, GroupType
  <2>2. inst.spec.name \in Names \cup {NoName}
    BY SpecParts DEF UpdateGroup, UpdateEntity
  <2>3. QED
    BY <2>1, <2>2, GroupAssumption DEF Group
<1>2. UpdateEntity(def, "replaceMembers")
  BY DEF UpdateGroup
<1>3. "replaceMembers" \in PCs
  BY DEF PCs
<1>4. QED
  BY <1>1, <1>2, <1>3, UpdateEntityType

\* Setting the members of a group leaves groups.
LEMMA SetMembersType ==
  ASSUME TypeOK, NEW i, NEW m, i \in Ids => m \in SUBSET Members,
         SetMembers(i, m)
  PROVE  IamTypeOK'
<1> DEFINE def == [iam[i].def EXCEPT !.members = m]
<1>1. CASE Fault("member") /\ IamUnchanged
  BY <1>1, IamSameType
<1>2. ASSUME i \in Ids PROVE def \in DefType
  <2>1. iam[i].def \in Group
    BY <1>2, GroupType
  <2>2. QED
    BY <1>2, <2>1, GroupAssumption DEF Group
<1>3. CASE iam' = Redefined(i, def) /\ UNCHANGED faults
  BY <1>2, <1>3, RedefinedType DEF TypeOK, IamTypeOK
<1>4. CASE iam' = iam /\ UNCHANGED faults
  BY <1>4 DEF TypeOK, IamTypeOK
<1>5. QED
  BY <1>1, <1>3, <1>4 DEF SetMembers

\* A failure to resolve the members, or the end of the process.
LEMMA UnresolvedType ==
  ASSUME TypeOK, pc # "idle", NEW next \in PCs, Unresolved(next), IamUnchanged
  PROVE  TypeOK'
<1>1. IamTypeOK'
  BY IamSameType DEF Unresolved
<1>2. QED
  BY <1>1, MoveType, RestartType DEF Unresolved, TypeOK

\* The steps that set the members of a group.
LEMMA MemberStepsType ==
  ASSUME TypeOK, RemoveMembers \/ AddMembers \/ AddNewMembers
  PROVE  TypeOK'
<1>1. pc # "idle" /\ inst.spec.members \in SUBSET Members
  BY SpecParts DEF RemoveMembers, AddMembers, AddNewMembers
<1>2. CASE \E next \in {"reportFailed", "cleanup"} : Unresolved(next) /\ IamUnchanged
  BY <1>1, <1>2, UnresolvedType DEF PCs
<1>3. CASE /\ \E i, m : SetMembers(i, m) /\ (i \in Ids => m \in SUBSET Members)
           /\ \E label \in {"addMembers", "record"} : Goto(label)
           /\ ApiUnchanged /\ Frame
  BY <1>1, <1>3, SetMembersType, MoveType DEF PCs
<1>4. CASE AddNewMembers
  <2>1. made \in Ids => iam[made].def.members \cup inst.spec.members \in SUBSET Members
    BY <1>1, GroupType
  <2>2. QED
    BY <1>2, <1>3, <1>4, <2>1 DEF AddNewMembers
<1>5. CASE AddMembers
  <2>1. inst.status.id \in Ids =>
          iam[inst.status.id].def.members \cup (inst.spec.members \ held.members)
            \in SUBSET Members
    BY <1>1, GroupType
  <2>2. QED
    BY <1>3, <1>5, <2>1 DEF AddMembers
<1>6. CASE RemoveMembers
  <2>1. inst.status.id \in Ids =>
          iam[inst.status.id].def.members \ (held.members \ inst.spec.members)
            \in SUBSET Members
    BY GroupType
  <2>2. QED
    BY <1>2, <1>3, <1>6, <2>1 DEF RemoveMembers
<1>7. QED
  BY <1>4, <1>5, <1>6

\* The creation of the group.
LEMMA CreateGroupType == TypeOK /\ CreateGroup => TypeOK'
<1> SUFFICES ASSUME TypeOK, CreateGroup PROVE TypeOK'
  OBVIOUS
<1> DEFINE def == [name |-> inst.spec.name, members |-> {}]
<1>1. inst.spec.name \in Names \cup {NoName}
  BY SpecParts DEF CreateGroup, CreateEntity
<1>2. def \in DefType
  BY <1>1, GroupAssumption DEF Group
<1>3. CreateEntity(def, "newMembers")
  BY DEF CreateGroup
<1>4. "newMembers" \in PCs
  BY DEF PCs
<1>5. QED
  BY <1>2, <1>3, <1>4, CreateEntityType

\* The deletion of a group with a member that is not valid.
LEMMA CleanUpType == TypeOK /\ CleanUp => TypeOK'
<1> SUFFICES ASSUME TypeOK, CleanUp PROVE TypeOK'
  OBVIOUS
<1>1. IamTypeOK'
  BY DeletedType, IamSameType, FaultType DEF CleanUp, TypeOK, IamTypeOK
<1>2. QED
  BY <1>1, MoveType DEF CleanUp, PCs

\* The steps of Reconcile keep the types,
LEMMA ReconcileType == TypeOK /\ Reconcile => TypeOK'
<1> SUFFICES ASSUME TypeOK, Reconcile PROVE TypeOK'
  OBVIOUS
<1>1. ASSUME pc # "idle" PROVE Persisted(inst.spec) \in SpecType
  BY <1>1, SpecParts
<1>2. CASE CommonStep(isWellFormed(inst.spec), isWellFormed(inst.spec),
                      Persisted(inst.spec))
  BY <1>1, <1>2, CommonType, CommonBusy
<1>3. CASE Record(Persisted(inst.spec))
  BY <1>1, <1>3, RecordType DEF Record
<1>4. QED
  BY <1>2, <1>3, QuietStepsType, GroupChangedType, NotRetrievedType,
     UpdateGroupType, MemberStepsType, CreateGroupType, CleanUpType DEF Reconcile

\* and so do changes through the console.
LEMMA ConsoleStepType == TypeOK /\ ConsoleStep => TypeOK'
<1> SUFFICES ASSUME TypeOK, NEW i \in Ids, NEW s \in Specs,
                    LET def == [name |-> s.name, members |-> s.members] IN
                    \/ ConsoleCreates(i, def)
                    \/ ConsoleChanges(i, def, iam[i].def.name # def.name)
                    \/ ConsoleDeletes(i)
             PROVE  TypeOK'
  BY DEF ConsoleStep
<1>1. [name |-> s.name, members |-> s.members] \in DefType
  BY KubeAssumption, GroupAssumption DEF GroupSpec, Group
<1>2. QED
  BY <1>1, ConsoleType

\* Every step keeps the types.
LEMMA TypeStep == TypeOK /\ [Next]_vars => TypeOK'
  BY ReconcileType, EnvironmentType, ConsoleStepType, StutterType DEF Next

\* The type invariant: whatever users, the console, failures and crashes do to
\* a reconcile, every variable keeps its type and a busy worker has a key.
THEOREM TypeCorrect == Spec => []TypeOK
<1>1. Init => TypeOK
  BY InitType
<1>2. TypeOK /\ [Next]_vars => TypeOK'
  BY TypeStep
<1>3. QED
  BY <1>1, <1>2, PTL DEF Spec

-----------------------------------------------------------------------------
(* Ownership *)

\* The steps that leave the worker where it was, or move it, and no more.
LEMMA QuietStepsOwn ==
  ASSUME Inv, GroupUnchanged \/ FindTaken \/ FindFree
  PROVE  Ownership'
<1>1. pc # "idle" /\ ApiUnchanged /\ Frame /\ Keeps
  BY SameKeeps DEF GroupUnchanged, NothingToDo, FindTaken, FindFree, Recorded, RecordedAt,
                   Unrecorded
<1>2. \/ \E r \in BOOLEAN : Return(r)
      \/ \E label \in Labels : Goto(label)
  BY DEF GroupUnchanged, NothingToDo, FindTaken, FindFree, PCs, Labels
<1>3. QED
  BY <1>1, <1>2, QuietOwn

\* Setting members gives a group to nobody.
LEMMA SetMembersKeeps ==
  ASSUME Inv, NEW i, NEW m, SetMembers(i, m)
  PROVE  Keeps
  BY RedefinedKeeps, SameKeeps DEF SetMembers, IamUnchanged

\* The steps that set the members of a group.
LEMMA MemberStepsOwn ==
  ASSUME Inv, RemoveMembers \/ AddMembers \/ AddNewMembers
  PROVE  Ownership'
<1>1. pc # "idle"
  BY DEF RemoveMembers, AddMembers, AddNewMembers
<1>2. CASE \E next \in {"reportFailed", "cleanup"} : Unresolved(next) /\ IamUnchanged
  BY <1>1, <1>2, QuietOwn, SameKeeps, RestartOwn DEF Unresolved, PCs, Labels
<1>3. CASE /\ \E i, m : SetMembers(i, m)
           /\ \E label \in {"addMembers", "record"} : Goto(label)
           /\ ApiUnchanged /\ Frame
  BY <1>1, <1>3, SetMembersKeeps, QuietOwn DEF PCs, Labels
<1>4. QED
  BY <1>2, <1>3 DEF RemoveMembers, AddMembers, AddNewMembers

\* The deletion of a group with a member that is not valid.
LEMMA CleanUpOwn == Inv /\ CleanUp => Ownership'
<1> SUFFICES ASSUME Inv, CleanUp PROVE Ownership'
  OBVIOUS
<1>1. Keeps
  BY DeletedKeeps, SameKeeps DEF CleanUp
<1>2. QED
  BY <1>1, QuietOwn DEF CleanUp, PCs, Labels

\* The steps of Reconcile keep ownership.
LEMMA ReconcileOwn == Inv /\ Reconcile => Ownership'
<1> SUFFICES ASSUME Inv, Reconcile PROVE Ownership'
  OBVIOUS
<1>1. ASSUME pc # "idle" PROVE Persisted(inst.spec) \in SpecType
  BY <1>1, SpecParts DEF Inv
<1>2. CASE CommonStep(isWellFormed(inst.spec), isWellFormed(inst.spec),
                      Persisted(inst.spec))
  BY <1>1, <1>2, CommonOwn, CommonBusy
<1>3. CASE Record(Persisted(inst.spec))
  BY <1>1, <1>3, RecordOwn DEF Record
<1>4. CASE GroupChanged
  BY <1>4, GoUpdateOwn DEF GroupChanged, Recorded, RecordedAt
<1>5. CASE UpdateGroup
  BY <1>5, UpdateEntityOwn DEF UpdateGroup, Labels, PCs
<1>6. CASE CreateGroup
  BY <1>6, CreateEntityOwn DEF CreateGroup, PCs, Labels
<1>7. QED
  BY <1>2, <1>3, <1>4, <1>5, <1>6, QuietStepsOwn, NotRetrievedOwn,
     MemberStepsOwn, CleanUpOwn DEF Reconcile

\* Every step keeps ownership.
LEMMA OwnershipStep == Inv /\ [Next]_vars => Ownership'
<1> SUFFICES ASSUME Inv, Next PROVE Ownership'
  BY StutterOwn
<1>1. CASE ConsoleStep
  BY <1>1, ConsoleOwn DEF ConsoleStep
<1>2. QED
  BY <1>1, ReconcileOwn, EnvironmentOwn DEF Next

\* Both are kept together, from the start.
LEMMA InvCorrect == (Init => Inv) /\ (Inv /\ [Next]_vars => Inv')
  BY InitType, InitOwn, TypeStep, OwnershipStep DEF Inv

\* Under all failures, crashes and stale reads every copy of a resource names
\* only a group that was created for that incarnation of it.
THEOREM OwnershipCorrect == Spec => []Ownership
<1>1. Inv => Ownership
  BY DEF Inv
<1>2. QED
  BY <1>1, InvCorrect, PTL DEF Spec

\* In particular the stored ones do: ids are never inherited nor adopted.
THEOREM RecordedEntityCorrect == Spec => []RecordedEntityIsOwn
  BY RecordedOwn, OwnershipCorrect, PTL

-----------------------------------------------------------------------------
(* The operator leaves other people's groups alone *)

\* The steps of Reconcile touch own groups only.
LEMMA ReconcileTouches == Inv /\ Reconcile => Touches
<1> SUFFICES ASSUME Inv, Reconcile PROVE Touches
  OBVIOUS
<1>1. CASE CommonStep(isWellFormed(inst.spec), isWellFormed(inst.spec),
                      Persisted(inst.spec))
  BY <1>1, CommonTouches
<1>2. CASE UpdateGroup
  BY <1>2, UpdateTouches DEF UpdateGroup
<1>3. CASE CreateGroup
  BY <1>3, CreateTouches DEF CreateGroup
<1>4. CASE RemoveMembers \/ AddMembers \/ AddNewMembers
  <2>1. pc # "idle"
    BY <1>4 DEF RemoveMembers, AddMembers, AddNewMembers
  <2>2. IamUnchanged \/ \E i \in {inst.status.id, made} : \E m : SetMembers(i, m)
    BY <1>4 DEF RemoveMembers, AddMembers, AddNewMembers
  <2>3. QED
    BY <2>1, <2>2, TouchesOne DEF SetMembers, IamUnchanged
<1>5. CASE CleanUp
  BY <1>5, TouchesOne DEF CleanUp
<1>6. CASE \/ GroupUnchanged \/ GroupChanged \/ NotRetrieved("sync")
           \/ FindTaken \/ FindFree \/ Record(Persisted(inst.spec))
  BY <1>6, TouchesOne
     DEF GroupUnchanged, NothingToDo, GroupChanged, GoUpdate, NotRetrieved,
         FindTaken, FindFree, Recorded, RecordedAt, Unrecorded, Record
<1>7. QED
  BY <1>1, <1>2, <1>3, <1>4, <1>5, <1>6 DEF Reconcile

\* Whatever fails and however stale its copy, the operator changes and deletes
\* only groups created for the resource it reconciles.
THEOREM TouchesOnlyOwnEntitiesCorrect == Spec => TouchesOnlyOwnEntities
<1>1. Inv /\ [Next]_vars => [Touches]_vars
  <2> SUFFICES ASSUME Inv, Next PROVE Touches
    OBVIOUS
  <2>1. CASE ConsoleStep
    BY <2>1, ConsoleTouches DEF ConsoleStep
  <2>2. QED
    BY <2>1, ReconcileTouches, EnvironmentTouches DEF Next
<1>2. [Touches]_vars => [changes' = changes =>
         \A i \in Ids : iam[i].live /\ iam'[i] # iam[i] =>
             inst.uid # 0 /\ iam[i].owner = inst.uid]_vars
  BY DEF Touches
<1>3. QED
  BY <1>1, <1>2, InvCorrect, PTL DEF Spec, TouchesOnlyOwnEntities

-----------------------------------------------------------------------------
(* Incarnations *)

\* Steps that write nothing and leave the worker where it was, or move it.
LEMMA QuietStepsMove ==
  ASSUME TypeOK, NEW G, GroupUnchanged \/ FindTaken \/ FindFree
  PROVE  Moves(G)
<1>1. ApiUnchanged /\ Frame /\ IamUnchanged
  BY DEF GroupUnchanged, NothingToDo, FindTaken, FindFree
<1>2. WorkerMoves(G)
  BY ReturnMoves, GotoMoves
     DEF GroupUnchanged, NothingToDo, FindTaken, FindFree, Unrecorded
<1>3. QED
  BY <1>1, <1>2, QuietMoves, OneOwnerMoves

\* The steps that set the members of a group, or delete it.
LEMMA MemberStepsMove ==
  ASSUME TypeOK, NEW G, RemoveMembers \/ AddMembers \/ AddNewMembers \/ CleanUp
  PROVE  Moves(G)
<1>1. CASE Restart /\ IamUnchanged
  BY <1>1, RestartMoves
<1>2. CASE /\ ApiUnchanged /\ Frame
           /\ Goto("addMembers") \/ Goto("record") \/ Goto("reportFailed") \/ Goto("cleanup")
           /\ IamUnchanged \/ iam' = Deleted(made) \/ \E i, m : SetMembers(i, m)
  <2>1. WorkerMoves(G)
    BY <1>2, GotoMoves DEF RemoveMembers, AddMembers, AddNewMembers, CleanUp
  <2>2. OwnerMoves
    BY <1>2, OneOwnerMoves DEF SetMembers, IamUnchanged
  <2>3. QED
    BY <1>2, <2>1, <2>2, QuietMoves
<1>3. QED
  BY <1>1, <1>2 DEF RemoveMembers, AddMembers, AddNewMembers, CleanUp, Unresolved

\* The steps of Reconcile; they write specs as they are encoded.
LEMMA ReconcileMoves ==
  ASSUME TypeOK, NEW G, pc # "idle" => Persisted(inst.spec) \in G, Reconcile
  PROVE  Moves(G)
<1>1. CASE CommonStep(isWellFormed(inst.spec), isWellFormed(inst.spec),
                      Persisted(inst.spec))
  BY <1>1, CommonBusy, CommonMoves
<1>2. CASE GroupChanged \/ UpdateGroup \/ CreateGroup
  BY <1>2, GoUpdateMoves, UpdateEntityMoves, CreateEntityMoves
     DEF GroupChanged, UpdateGroup, CreateGroup, Recorded, RecordedAt
<1>3. QED
  BY <1>1, <1>2, QuietStepsMove, MemberStepsMove, NotRetrievedMoves, RecordMoves
     DEF Reconcile

\* Every step, if users submit specs of G.
LEMMA NextMoves ==
  ASSUME TypeOK, NEW G, Specs \subseteq G, pc # "idle" => Persisted(inst.spec) \in G,
         [Next]_vars
  PROVE  Moves(G)
<1>1. CASE ConsoleStep
  BY <1>1, ConsoleMoves DEF ConsoleStep
<1>2. QED
  BY <1>1, ReconcileMoves, EnvironmentMoves, StutterMoves DEF Next

\* Every step keeps Incarnations.
LEMMA IncarnationsStep == TypeOK /\ Incarnations /\ [Next]_vars => Incarnations'
  BY NextMoves, SpecParts, KubeAssumption, MovesKeep

\* Whatever fails, resources of one name are told apart by their uids, and no
\* step undoes a deletion or acts on one that did not happen.
THEOREM IncarnationsCorrect == Spec => []Incarnations
  BY InitIncarnations, IncarnationsStep, TypeCorrect, PTL DEF Spec

\* Nobody's status names the group just made, unless the answer to the write of
\* that status was lost.
LEMMA UnnamedCorrect == Spec => []Unnamed
<1>1. Inv /\ Unnamed /\ [Next]_vars => Unnamed'
  <2> SUFFICES ASSUME Inv, Unnamed, [Next]_vars PROVE Unnamed'
    OBVIOUS
  <2>1. Moves(SpecType)
    BY NextMoves, SpecParts, KubeAssumption DEF Inv
  <2>2. QED
    BY <2>1, MovesUnnamed
<1>2. QED
  BY <1>1, InitUnnamed, InvCorrect, PTL DEF Spec

\* A step of Reconcile deletes no recorded group of a resource that stays.
LEMMA ReconcileSpares == Inv /\ Incarnations /\ Unnamed /\ Reconcile => Spares
<1> SUFFICES ASSUME Inv, Incarnations, Unnamed, Reconcile PROVE Spares
  OBVIOUS
<1>1. CASE CommonStep(isWellFormed(inst.spec), isWellFormed(inst.spec),
                      Persisted(inst.spec))
  BY <1>1, CommonSpares
<1>2. CASE UpdateGroup \/ CreateGroup
  BY <1>2, SparesAll DEF UpdateGroup, UpdateEntity, CreateGroup, CreateEntity, Inv
<1>3. CASE RemoveMembers \/ AddMembers \/ AddNewMembers \/ CleanUp
  <2>1. IamUnchanged \/ iam' = Deleted(made) \/ \E i, m : SetMembers(i, m)
    BY <1>3 DEF RemoveMembers, AddMembers, AddNewMembers, CleanUp
  <2>2. QED
    BY <2>1, SparesAll DEF SetMembers, IamUnchanged, Inv
<1>4. CASE \/ GroupUnchanged \/ GroupChanged \/ NotRetrieved("sync")
           \/ FindTaken \/ FindFree \/ Record(Persisted(inst.spec))
  BY <1>4, SparesAll
     DEF GroupUnchanged, NothingToDo, GroupChanged, GoUpdate, NotRetrieved,
         FindTaken, FindFree, Record, Inv
<1>5. QED
  BY <1>1, <1>2, <1>3, <1>4 DEF Reconcile

\* Whatever fails and however stale the copy it works with, the operator never
\* deletes the group the status of a resource that stays names: neither in
\* tear-down nor in clean-up or compensation.  The one exception is a group just made whose
\* recording was done and reported as failed.
THEOREM KeepsRecordedEntitiesCorrect == Spec => KeepsRecordedEntities
<1>1. Inv /\ Incarnations /\ Unnamed /\ [Next]_vars => [Spares]_vars
  <2> SUFFICES ASSUME Inv, Incarnations, Unnamed, Next PROVE Spares
    OBVIOUS
  <2>1. CASE ConsoleStep
    BY <2>1, ConsoleSpares DEF ConsoleStep, Inv
  <2>2. QED
    BY <2>1, ReconcileSpares, EnvironmentSpares DEF Next, Inv
<1>2. [Spares]_vars => [changes' = changes =>
         \A c \in Resources :
            LET i == api[c].status.id IN
            i # 0 /\ ~api[c].deleting /\ iam[i].live =>
                iam'[i].live \/ (i = made /\ LostAnswer)]_vars
  BY DEF Spares
<1>3. QED
  BY <1>1, <1>2, InvCorrect, IncarnationsCorrect, UnnamedCorrect, PTL
     DEF Spec, KeepsRecordedEntities

-----------------------------------------------------------------------------
(* What those who refer to a resource see *)

\* Every step makes or loses at most one group.
LEMMA NextEntities == TypeOK /\ [Next]_vars => EntityMoves
<1> SUFFICES ASSUME TypeOK, [Next]_vars PROVE EntityMoves
  OBVIOUS
<1>1. CASE UNCHANGED vars
  BY <1>1, SameEntityMoves DEF vars, IamUnchanged
<1>2. CASE Environment
  BY <1>2, EnvironmentEntities
<1>3. CASE ConsoleStep
  BY <1>3, ConsoleEntities DEF ConsoleStep
<1>4. CASE CommonStep(isWellFormed(inst.spec), isWellFormed(inst.spec),
                      Persisted(inst.spec))
  BY <1>4, CommonEntities
<1>5. CASE CreateGroup
  BY <1>5, CreateEntities DEF CreateGroup
<1>6. CASE UpdateGroup
  BY <1>6, SameEntityMoves DEF UpdateGroup, UpdateEntity
<1>7. CASE RemoveMembers \/ AddMembers \/ AddNewMembers
  <2>1. IamUnchanged \/ \E i, m : SetMembers(i, m)
    BY <1>7 DEF RemoveMembers, AddMembers, AddNewMembers
  <2>2. QED
    BY <2>1, SameEntityMoves DEF SetMembers, IamUnchanged
<1>8. CASE CleanUp
  BY <1>8, SameEntityMoves, LoseMoves DEF CleanUp, ApiUnchanged, Frame
<1>9. CASE \/ GroupUnchanged \/ GroupChanged \/ NotRetrieved("sync")
           \/ FindTaken \/ FindFree \/ Record(Persisted(inst.spec))
  BY <1>9, SameEntityMoves
     DEF GroupUnchanged, NothingToDo, GroupChanged, GoUpdate, NotRetrieved,
         FindTaken, FindFree, Record
<1>10. QED
  BY <1>1, <1>2, <1>3, <1>4, <1>5, <1>6, <1>7, <1>8, <1>9 DEF Next, Reconcile

\* Every step is one of GroupReference to those who refer to resource c.
LEMMA ReferentStep ==
  ASSUME Inv, Inv', NEW c \in Resources, [Next]_vars
  PROVE  Referent(c)!Next
<1>1. EntityMoves
  BY NextEntities DEF Inv
<1>2. iam \in [Ids -> Entity] /\ iam' \in [Ids -> Entity]
  BY DEF Inv, TypeOK, IamTypeOK
<1>3. /\ cache[c].status.id \in Ids \cup {0}
      /\ cache'[c].status.id \in Ids \cup {0}
  BY HeldIds DEF Inv, TypeOK, KubeTypeOK, Object, Status
<1>4. CASE SameEntities
  <2>1. /\ cache'[c].status.id # 0 /\ iam'[cache'[c].status.id].live =>
              iam'[cache'[c].status.id].owner = cache'[c].uid
    BY DEF Inv, Ownership, Own
  <2>2. Referent(c)!Replaced
    BY <1>2, <1>3, <1>4, <2>1 DEF Referent!Replaced, SameEntities, Exists
  <2>3. QED
    BY <2>2 DEF Referent!Next
<1>5. CASE UNCHANGED cache /\ \E i \in Ids : Loses(i)
  <2>1. PICK i \in Ids : Loses(i)
    BY <1>5
  <2>2. Referent(c)!Lost(i)
    BY <1>5, <2>1 DEF Referent!Lost, Loses, Exists
  <2>3. QED
    BY <2>2 DEF Referent!Next
<1>6. CASE UNCHANGED cache /\ \E i \in Ids : \E owner : Gains(i, owner)
  <2>1. PICK i \in Ids : \E owner : Gains(i, owner)
    BY <1>6
  <2> PICK owner : Gains(i, owner)
    BY <2>1
  <2>2. ~iam[i].live /\ i # cache[c].status.id /\ i # NoResource
    BY <2>1, GroupAssumption DEF Gains, NewId, Unused
  <2>3. CASE Exists(cache[c]) /\ owner = cache[c].uid
    <3>1. Referent(c)!Made(i)
      BY <1>6, <2>1, <2>2, <2>3 DEF Referent!Made, Referent!Unused, Gains, Exists
    <3>2. QED
      BY <3>1 DEF Referent!Next
  <2>4. CASE ~(Exists(cache[c]) /\ owner = cache[c].uid)
    <3>1. Referent(c)!MadeElsewhere(i)
      BY <1>6, <2>1, <2>2, <2>4 DEF Referent!MadeElsewhere, Referent!Unused, Gains, Exists
    <3>2. QED
      BY <3>1 DEF Referent!Next
  <2>5. QED
    BY <2>3, <2>4
<1>7. QED
  BY <1>1, <1>4, <1>5, <1>6 DEF EntityMoves

\* Whatever fails, the controller serves those who refer to its resources by
\* name as GroupReference promises: never with somebody else's group.
THEOREM ServesReferencesCorrect == Spec => ServesReferences
<1>1. Init => \A c \in Resources : Referent(c)!Init
  BY DEF Init, KubeInit, Referent!Init, Absent, Exists, NoEntity
<1>2. Inv /\ Inv' /\ [Next]_vars =>
        [\A c \in Resources : [Referent(c)!Next]_(Referent(c)!vars)]_vars
  BY ReferentStep
<1>3. QED
  BY <1>1, <1>2, InvCorrect, PTL DEF Spec, ServesReferences

-----------------------------------------------------------------------------
(* No group is left behind, and no resource has two *)

\* What users submit is well-formed, also when it has been written back.
SpecsWellFormed == \A s \in Specs : isWellFormed(s) /\ Persisted(s) = s

\* The steps that write nothing and only go on, or end.
LEMMA QuietStepsServe ==
  ASSUME Inv, Custody, GroupUnchanged \/ FindTaken \/ FindFree
  PROVE  Serves /\ Controlled'
<1>1. pc = "sync" /\ "sync" \in Syncing \ Making /\ "compensate" \in Making
  BY DEF GroupUnchanged, FindTaken, FindFree, Recorded, RecordedAt, Unrecorded,
         Syncing, Making
<1>2. CASE GroupUnchanged
  BY <1>1, <1>2, NothingServes DEF GroupUnchanged
<1>3. CASE FindTaken \/ FindFree
  <2>1. Keeps
    BY <1>3, SameKeeps DEF FindTaken, FindFree
  <2>2. "create" \in Syncing
    BY DEF Syncing
  <2>3. QED
    BY <1>1, <1>3, <2>1, <2>2, OnServes DEF FindTaken, FindFree, Unrecorded
<1>4. QED
  BY <1>2, <1>3

\* The steps that set the members of a group, or delete it.
LEMMA MemberStepsServe ==
  ASSUME Reliable, Inv, Custody, RemoveMembers \/ AddMembers \/ AddNewMembers \/ CleanUp
  PROVE  Serves /\ Controlled'
<1>1. ~Fault("panic") /\ ~Fault("undo")
  BY DEF Reliable, Fault
<1>2. {"replaceMembers", "addMembers", "record", "newMembers", "cleanup"} \subseteq Syncing
  BY DEF Syncing
<1>3. /\ {"newMembers", "cleanup", "record"} \subseteq Making
      /\ {"replaceMembers", "addMembers"} \cap Making = {}
  BY DEF Making
<1>4. \A i, m : SetMembers(i, m) => Keeps
  BY RedefinedKeeps, SameKeeps DEF SetMembers, IamUnchanged
<1>5. CASE RemoveMembers \/ AddMembers
  <2>1. /\ pc \in {"replaceMembers", "addMembers"} /\ ApiUnchanged /\ Keeps
        /\ Goto("addMembers") \/ Goto("record") \/ Goto("reportFailed")
    BY <1>1, <1>4, <1>5, SameKeeps DEF RemoveMembers, AddMembers, Unresolved
  <2>2. QED
    BY <1>2, <1>3, <2>1, OnServes
<1>6. CASE AddNewMembers
  <2>1. /\ pc = "newMembers" /\ ApiUnchanged /\ Keeps
        /\ Goto("record") \/ Goto("cleanup")
    BY <1>1, <1>4, <1>6, SameKeeps DEF AddNewMembers, Unresolved
  <2>2. QED
    BY <1>2, <1>3, <2>1, OnServes
<1>7. CASE CleanUp
  <2>1. /\ pc = "cleanup" /\ ApiUnchanged /\ Goto("reportFailed") /\ iam' = Deleted(made)
        /\ Keeps
    BY <1>1, <1>7, DeletedKeeps DEF CleanUp
  <2>2. ~iam'[made].live \/ made = 0
    BY <2>1, HeldIds DEF Deleted, NoEntity, Inv
  <2>3. made # 0 => pc \in Making
    BY <2>1, <1>3
  <2>4. QED
    BY <1>2, <1>3, <2>1, <2>2, OnServes
<1>8. QED
  BY <1>5, <1>6, <1>7

\* The steps of Reconcile.
LEMMA ReconcileServes ==
  ASSUME Reliable, Inv, Incarnations, Custody,
         pc = "check" => isWellFormed(inst.spec), Reconcile
  PROVE  Serves /\ Controlled'
<1>1. CASE CommonStep(isWellFormed(inst.spec), isWellFormed(inst.spec),
                      Persisted(inst.spec))
  BY <1>1, CommonServes
<1>2. CASE GroupChanged
  <2>1. pc \in Syncing \ Making
    BY <1>2 DEF GroupChanged, Recorded, RecordedAt, Syncing, Making
  <2>2. QED
    BY <1>2, <2>1, GoUpdateServes DEF GroupChanged
<1>3. CASE UpdateGroup
  BY <1>3, UpdateEntityServes DEF UpdateGroup, Syncing
<1>4. CASE CreateGroup
  BY <1>4, CreateEntityServes DEF CreateGroup, Making
<1>5. CASE NotRetrieved("sync")
  BY <1>5, NotRetrievedServes DEF Syncing, Making
<1>6. QED
  BY <1>1, <1>2, <1>3, <1>4, <1>5, QuietStepsServe, MemberStepsServe, RecordServes
     DEF Reconcile

\* Every step.
LEMMA NextServes ==
  ASSUME Reliable, Inv, Incarnations, Custody,
         pc = "check" => isWellFormed(inst.spec), [Next]_vars
  PROVE  Serves /\ Controlled'
<1>1. CASE ConsoleStep
  BY <1>1, ConsoleServes DEF ConsoleStep
<1>2. QED
  BY <1>1, ReconcileServes, EnvironmentServes, StutterServes DEF Next

\* All that is kept while nothing fails that matters.
Kept == Inv /\ Incarnations /\ SpecsIn(Specs) /\ Custody

\* What the steps do while it is.
LEMMA KeptMoves ==
  ASSUME Reliable, SpecsWellFormed, Kept, [Next]_vars
  PROVE  Moves(Specs) /\ Serves /\ Controlled'
<1>1. ASSUME pc # "idle"
      PROVE  isWellFormed(inst.spec) /\ Persisted(inst.spec) \in Specs
  <2>1. inst.spec \in Specs
    BY <1>1, Busy DEF Kept, Inv, Ownership, SpecsIn, Copies
  <2>2. QED
    BY <2>1 DEF SpecsWellFormed
<1>2. Moves(Specs)
  BY <1>1, NextMoves DEF Kept, Inv
<1>3. Serves /\ Controlled'
  BY <1>1, NextServes DEF Kept
<1>4. QED
  BY <1>2, <1>3

\* It is kept.
LEMMA KeptCorrect ==
  ASSUME Reliable, SpecsWellFormed
  PROVE  (Init => Kept) /\ (Kept /\ [Next]_vars => Kept')
<1>1. Init => SpecsIn(Specs)
  BY DEF Init, KubeInit, SpecsIn, Copies, Absent, Exists
<1>2. Init => Kept
  BY <1>1, InvCorrect, InitIncarnations, InitCustody DEF Kept
<1>3. ASSUME Kept, [Next]_vars PROVE Kept'
  BY <1>3, KeptMoves, InvCorrect, MovesKeep, SpecsKeep, CustodyKeep DEF Kept, Inv
<1>4. QED
  BY <1>2, <1>3

\* The inductive invariant holds.
THEOREM CustodyCorrect ==
  ASSUME Reliable, SpecsWellFormed
  PROVE  Spec => []Custody
<1>1. Kept => Custody
  BY DEF Kept
<1>2. QED
  BY <1>1, KeptCorrect, PTL DEF Spec

\* While the process lives and IAM's answers arrive, every group made for a
\* resource has it, with the finalizer.
THEOREM EntitiesHaveTheirResourceCorrect ==
  ASSUME Reliable, SpecsWellFormed
  PROVE  Spec => []EntitiesHaveTheirResource
<1>1. Custody => EntitiesHaveTheirResource
  BY DEF Custody
<1>2. QED
  BY <1>1, CustodyCorrect, PTL

\* And no resource ever has two, but for the one just made.
THEOREM OneEntityPerResourceCorrect ==
  ASSUME Reliable, SpecsWellFormed
  PROVE  Spec => []OneEntityPerResource
<1>1. Custody => OneEntityPerResource
  BY DEF Custody
<1>2. QED
  BY <1>1, CustodyCorrect, PTL

\* The controller keeps the promise of ManagedEntity: groups are made only for
\* resources that are there, and a resource goes only when none of its groups
\* is left.
THEOREM ImplementsManagedEntityCorrect ==
  ASSUME Reliable, SpecsWellFormed
  PROVE  Spec => ImplementsManagedEntity
<1>1. Kept /\ Kept' /\ [Next]_vars => [Promise!Next]_(Promise!vars)
  <2> SUFFICES ASSUME Kept, Kept', [Next]_vars PROVE [Promise!Next]_(Promise!vars)
    OBVIOUS
  <2>1. EntityMoves
    BY NextEntities DEF Kept, Inv
  <2>2. QED
    BY <2>1, KeptMoves, PromiseStep DEF Kept
<1>2. QED
  BY <1>1, InitPromise, KeptCorrect, PTL DEF Spec, ImplementsManagedEntity, Promise!Spec
=============================================================================
