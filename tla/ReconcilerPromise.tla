------------------------- MODULE ReconcilerPromise -------------------------
(***************************************************************************)
(* Incarnations and Custody, proved once for all controllers.  What an     *)
(* action does to the stored objects, their copies and the entities is     *)
(* told by a few abstract steps, and only of these it is proved that they  *)
(* keep the invariants.                                                    *)
(***************************************************************************)
EXTENDS ReconcilerProofs

-----------------------------------------------------------------------------
(* Incarnations come and go *)

\* One object at a time stays what it is, goes, or is a new one; specs come
\* from G.
StoreMoves(G) ==
    /\ \/ created' = created
       \/ created' = created + 1 /\ \E c \in Resources : api'[c].uid = created'
    /\ \A c, d \in Resources : c = d \/ api'[c] = api[c] \/ api'[d] = api[d]
    /\ \A c \in Resources :
          \/ api'[c] = Absent
          \/ /\ api'[c].uid = api[c].uid
             /\ api[c].deleting => api'[c].deleting
             /\ api'[c].spec \in G \cup {api[c].spec}
          \/ /\ api'[c].uid = created + 1 /\ created' = created + 1
             /\ ~api'[c].deleting /\ api'[c].spec \in G
             /\ \A d \in Resources \ {c} : api'[d] = api[d]

\* A copy in the cache stays, or is made anew.
CacheMoves == \A c \in Resources : cache'[c] \in {cache[c], api[c]}

\* The entity just made is forgotten, still the same, or one whose id nobody held;
\* where it is to be deleted again, that is all that Reconcile does.
MadeMoves ==
    /\ \/ made' = 0
       \/ made' = made /\ (pc = "idle" \/ inst'.status.id = inst.status.id)
       \/ made' \in Ids /\ Unused(made') /\ inst'.status.id = inst.status.id
    /\ pc = "compensate" => made' = 0 \/ UNCHANGED <<pc, made, faults>>

\* The worker drops its copy, keeps it, or takes one from the cache.
WorkerMoves(G) ==
    /\ MadeMoves
    /\ \/ key' = NoResource /\ inst' = Absent
       \/ /\ key' = key
          /\ inst'.uid = inst.uid /\ inst'.deleting = inst.deleting
          /\ inst'.spec \in G \cup {inst.spec}
       \/ key' \in Resources /\ inst' = cache[key']
    /\ pc' = "teardown" => inst'.deleting \/ (pc = "teardown" /\ inst' = inst)

\* Entities are made for the resource being reconciled, or for nobody.
OwnerMoves ==
    \A i \in Ids : \/ iam'[i].owner \in {0, iam[i].owner}
                   \/ pc # "idle" /\ iam'[i].owner = inst.uid

\* No status names an entity that neither it nor the worker's copy named, but
\* for the one just made, which is then recorded, or about to be deleted.
NameMoves ==
    \/ made' = 0 \/ LostAnswer'
    \/ \A c \in Resources : api'[c].status.id \in {0, inst.status.id, api[c].status.id}

Moves(G) ==
    StoreMoves(G) /\ CacheMoves /\ WorkerMoves(G) /\ OwnerMoves /\ NameMoves

\* The copies are well typed.
LEMMA CopyType ==
  ASSUME TypeOK, NEW c \in Resources, NEW o \in Copies(c)
  PROVE  o \in Object /\ o.uid \in Nat
  BY DEF TypeOK, KubeTypeOK, WorkerTypeOK, Copies, Object

\* Where a copy comes from: it was one before, or it is of a new resource.
LEMMA CopyMoves ==
  ASSUME TypeOK, NEW G, Moves(G), NEW c \in Resources, NEW o \in Copies(c)'
  PROVE  \/ ~Exists(o) /\ ~o.deleting
         \/ \E p \in Copies(c) : /\ o.uid = p.uid
                                 /\ o.deleting => p.deleting \/ o = api'[c]
                                 /\ o.spec \in G \cup {p.spec}
         \/ /\ o = api'[c] /\ o.uid = created + 1 /\ created' = created + 1
            /\ ~o.deleting /\ o.spec \in G
<1>1. CASE o = Absent
  BY <1>1 DEF Absent, Exists
<1>2. CASE o = api'[c]
  BY <1>1, <1>2 DEF Moves, StoreMoves, Copies
<1>3. CASE o = cache'[c]
  BY <1>3 DEF Moves, CacheMoves, Copies
<1>4. CASE key' = c /\ o = inst'
  BY <1>1, <1>4, ReconcilerAssumption DEF Moves, WorkerMoves, Copies
<1>5. QED
  BY <1>2, <1>3, <1>4 DEF Copies

\* Such steps keep Incarnations.
LEMMA MovesKeep ==
  ASSUME TypeOK, Incarnations, NEW G, Moves(G)
  PROVE  Incarnations'
<1>1. created \in Nat /\ created' \in {created, created + 1}
  BY KubeAssumption DEF TypeOK, KubeTypeOK, Moves, StoreMoves
<1>2. ASSUME NEW c \in Resources, NEW o \in Copies(c)'
      PROVE  /\ o.uid <= created'
             /\ Exists(o) /\ o.uid = api'[c].uid /\ o.deleting => api'[c].deleting
  <2>1. \A p \in Copies(c) : p.uid \in Nat /\ p.uid <= created
    BY CopyType DEF Incarnations
  <2>2. CASE ~Exists(o) /\ ~o.deleting
    BY <1>1, <2>2 DEF Exists
  <2>3. CASE o = api'[c] /\ o.uid = created + 1 /\ created' = created + 1
    BY <1>1, <2>3
  <2>4. ASSUME NEW p \in Copies(c), o.uid = p.uid,
               o.deleting => p.deleting \/ o = api'[c]
        PROVE  /\ o.uid <= created'
               /\ Exists(o) /\ o.uid = api'[c].uid /\ o.deleting => api'[c].deleting
    <3>1. o.uid <= created'
      BY <1>1, <2>1, <2>4
    <3>2. ASSUME Exists(o), o.uid = api'[c].uid, p.deleting PROVE api'[c].deleting
      <4>1. o.uid # 0 /\ o.uid # created + 1
        <5>1. p.uid \in Nat /\ p.uid <= created /\ p.uid # 0
          BY <2>1, <2>4, <3>2 DEF Exists
        <5>2. QED
          BY <1>1, <2>4, <5>1
      <4>2. api'[c].uid = api[c].uid /\ (api[c].deleting => api'[c].deleting)
        BY <3>2, <4>1 DEF Moves, StoreMoves, Absent
      <4>3. QED
        BY <2>4, <3>2, <4>2 DEF Incarnations, Exists
    <3>3. QED
      BY <2>4, <3>1, <3>2
  <2>5. QED
    BY <2>2, <2>3, <2>4, CopyMoves
<1>3. ASSUME NEW c \in Resources, NEW d \in Resources,
             NEW o \in Copies(c)', NEW p \in Copies(d)', Exists(o), o.uid = p.uid
      PROVE  c = d
  <2>1. /\ \A q \in Copies(c) : q.uid \in Nat /\ q.uid <= created
        /\ \A q \in Copies(d) : q.uid \in Nat /\ q.uid <= created
    BY CopyType DEF Incarnations
  <2>2. CASE /\ \E q \in Copies(c) : o.uid = q.uid
             /\ \E q \in Copies(d) : p.uid = q.uid
    BY <1>3, <2>2 DEF Incarnations, Exists
  <2>3. CASE o = api'[c] /\ p = api'[d] /\ o.uid = created + 1
    <3>1. SUFFICES ASSUME c # d PROVE FALSE
      OBVIOUS
    <3>2. api[c] \in Copies(c) /\ api[d] \in Copies(d)
      BY DEF Copies
    <3>3. api[c].uid # created + 1 /\ api[d].uid # created + 1 /\ created + 1 # 0
      BY <1>1, <2>1, <3>2
    <3>4. QED
      BY <1>3, <2>3, <3>1, <3>3 DEF Moves, StoreMoves, Absent
  <2>4. QED
    <3>1. \A n \in Nat : n <= created => n # created + 1
      BY <1>1
    <3>2. QED
      BY <1>3, <2>1, <2>2, <2>3, <3>1, CopyMoves DEF Exists
<1>4. \A i \in Ids : iam'[i].owner <= created'
  <2>1. \A i \in Ids : iam[i].owner \in Nat /\ iam[i].owner <= created
    BY DEF TypeOK, IamTypeOK, Entity, Incarnations
  <2>2. pc # "idle" => inst.uid \in Nat /\ inst.uid <= created
    BY Busy DEF Incarnations, Copies
  <2>3. QED
    BY <1>1, <2>1, <2>2 DEF Moves, OwnerMoves
<1>5. pc' = "teardown" => inst'.deleting
  BY DEF Moves, WorkerMoves, Incarnations
<1>6. QED
  BY <1>2, <1>3, <1>4, <1>5 DEF Incarnations, Exists

\* The specs of all copies are among G.
SpecsIn(G) ==
    \A c \in Resources : \A o \in Copies(c) : Exists(o) => o.spec \in G

\* Such steps keep specs among G.
LEMMA SpecsKeep ==
  ASSUME TypeOK, NEW G, SpecsIn(G), Moves(G)
  PROVE  SpecsIn(G)'
  BY CopyMoves DEF SpecsIn, Exists

-----------------------------------------------------------------------------
(* The steps of a reconcile *)

\* What a write of the status leaves of an object, and of what was recorded.
LEMMA StatusUpdatedParts ==
  ASSUME TypeOK, pc # "idle", NEW s
  PROVE  /\ StatusUpdated(s).uid = api[key].uid
         /\ StatusUpdated(s).deleting = api[key].deleting
         /\ StatusUpdated(s).own = api[key].own
         /\ StatusUpdated(s).foreign = api[key].foreign
         /\ StatusUpdated(s).spec = api[key].spec
         /\ StatusUpdated(s).status = s
<1>1. api[key] \in Object
  BY Busy DEF TypeOK, KubeTypeOK
<1>2. QED
  BY <1>1 DEF StatusUpdated, Object

\* What a write of the rest leaves.
LEMMA UpdatedParts ==
  ASSUME TypeOK, pc # "idle", NEW s, NEW own, Updated(s, own) # Absent
  PROVE  /\ Updated(s, own).uid = api[key].uid
         /\ Updated(s, own).deleting = api[key].deleting
         /\ Updated(s, own).own = own
         /\ Updated(s, own).foreign = api[key].foreign
         /\ Updated(s, own).spec = s
         /\ Updated(s, own).status = api[key].status
<1>1. api[key] \in Object
  BY Busy DEF TypeOK, KubeTypeOK
<1>2. QED
  BY <1>1 DEF Updated, Collected, Object

\* A write, accepted or refused.
LEMMA WriteMoves ==
  ASSUME TypeOK, pc # "idle", NEW G, NEW o,
         \/ o = Absent
         \/ /\ o.uid = api[key].uid /\ o.deleting = api[key].deleting
            /\ o.spec \in G \cup {api[key].spec},
         \/ o.status.id \in {0, inst.status.id, api[key].status.id}
         \/ made' = 0 \/ LostAnswer' \/ ApiUnchanged,
         Accepted(o) \/ Refused(o), Frame, IamUnchanged, WorkerMoves(G)
  PROVE  Moves(G)
<1>1. api \in [Resources -> Object] /\ key \in Resources
  BY Busy DEF TypeOK, KubeTypeOK
<1>2. api' = [api EXCEPT ![key] = o] \/ api' = api
  BY DEF Accepted, Refused, Store
<1>3. StoreMoves(G)
  BY <1>1, <1>2 DEF StoreMoves, Frame
<1>4. NameMoves
  BY <1>1, <1>2 DEF NameMoves, ApiUnchanged
<1>5. QED
  BY <1>3, <1>4 DEF Moves, CacheMoves, OwnerMoves, Frame, IamUnchanged

\* An entity changes, goes or appears, or nothing does.
LEMMA OneOwnerMoves ==
  ASSUME TypeOK,
         \/ IamUnchanged
         \/ \E i : iam' = Deleted(i) \/ \E def : iam' = Redefined(i, def)
         \/ \E i, def : \/ iam' = NewEntity(i, 0, def)
                        \/ pc # "idle" /\ iam' = NewEntity(i, inst.uid, def)
  PROVE  OwnerMoves
<1>1. iam \in [Ids -> Entity]
  BY DEF TypeOK, IamTypeOK
<1>2. QED
  BY <1>1 DEF OwnerMoves, IamUnchanged, Deleted, Redefined, NewEntity, NoEntity, Entity

\* The worker returns,
LEMMA ReturnMoves ==
  ASSUME NEW G, NEW r, Return(r)
  PROVE  WorkerMoves(G)
  BY DEF Return, WorkerMoves, MadeMoves

\* or goes on.
LEMMA GotoMoves ==
  ASSUME NEW G, NEW label, label = "teardown" => inst.deleting, Goto(label),
         pc # "compensate"
  PROVE  WorkerMoves(G)
  BY DEF Goto, WorkerMoves, MadeMoves

\* A new process starts.
LEMMA RestartMoves ==
  ASSUME TypeOK, NEW G, Restart, IamUnchanged
  PROVE  Moves(G)
  BY DEF Restart, Relist, IamUnchanged, Moves, StoreMoves, CacheMoves, WorkerMoves,
         OwnerMoves, MadeMoves, NameMoves

\* Steps that write nothing.
LEMMA QuietMoves ==
  ASSUME NEW G, ApiUnchanged, Frame, WorkerMoves(G), OwnerMoves
  PROVE  Moves(G)
  BY DEF Moves, StoreMoves, CacheMoves, NameMoves, Frame, ApiUnchanged

\* The writes that all controllers share.
LEMMA WriteStepsMove ==
  ASSUME TypeOK, NEW G, NEW s \in G,
         \/ SetPending \/ DropFinalizer(s) \/ AddFinalizer(s) \/ ReportFailed
         \/ ClearStatus(s) \/ RemoveFinalizer(s) \/ ClearId
  PROVE  Moves(G)
<1>1. pc # "idle" /\ Frame /\ IamUnchanged
  BY DEF SetPending, DropFinalizer, AddFinalizer, ReportFailed, ClearStatus,
         RemoveFinalizer, ClearId
<1>2. \/ \E st : /\ Accepted(StatusUpdated(st)) \/ Refused(StatusUpdated(st))
               /\ st.id \in {0, inst.status.id}
      \/ \E own : Accepted(Updated(s, own)) \/ Refused(Updated(s, own))
  <2>1. CASE SetPending \/ ReportFailed \/ ClearId
    <3>1. inst.status \in Status
      BY DEF TypeOK, WorkerTypeOK, Object
    <3>2. /\ [inst.status EXCEPT !.state = "Pending"].id = inst.status.id
          /\ [inst.status EXCEPT !.state = "Failed"].id = inst.status.id
          /\ [inst.status EXCEPT !.state = "Failed", !.id = 0].id = 0
      BY <3>1 DEF Status
    <3>3. QED
      BY <2>1, <3>2 DEF SetPending, ReportFailed, ClearId
  <2>2. CASE \/ DropFinalizer(s) \/ AddFinalizer(s)
             \/ ClearStatus(s) \/ RemoveFinalizer(s)
    BY <2>2 DEF DropFinalizer, AddFinalizer, ClearStatus, RemoveFinalizer
  <2>3. QED
    BY <2>1, <2>2
<1>3. WorkerMoves(G)
  <2>1. CASE SetPending \/ AddFinalizer(s)
    <3>1. inst \in Object
      BY DEF TypeOK, WorkerTypeOK
    <3>2. CASE \E r : Return(r)
      BY <3>2, ReturnMoves
    <3>3. CASE pc' \in {"check", "sync"} /\ UNCHANGED <<key, made>>
               /\ \/ \E st : inst' = [inst EXCEPT !.status = st] /\ st.id = inst.status.id
                  \/ inst' = [inst EXCEPT !.own = TRUE]
      BY <2>1, <3>1, <3>3 DEF WorkerMoves, MadeMoves, Object, SetPending, AddFinalizer
    <3>4. [inst.status EXCEPT !.state = "Pending"].id = inst.status.id
      BY <3>1 DEF Object, Status
    <3>5. QED
      BY <2>1, <3>2, <3>3, <3>4 DEF SetPending, AddFinalizer
  <2>2. CASE \/ DropFinalizer(s) \/ ReportFailed \/ ClearStatus(s)
             \/ RemoveFinalizer(s) \/ ClearId
    BY <2>2, ReturnMoves, GotoMoves DEF DropFinalizer, ReportFailed, ClearStatus,
                             RemoveFinalizer, ClearId
  <2>3. QED
    BY <2>1, <2>2
<1>4. CASE \E st : /\ Accepted(StatusUpdated(st)) \/ Refused(StatusUpdated(st))
                   /\ st.id \in {0, inst.status.id}
  BY <1>1, <1>3, <1>4, WriteMoves, StatusUpdatedParts
<1>5. CASE \E own : Accepted(Updated(s, own)) \/ Refused(Updated(s, own))
  <2>1. PICK own : Accepted(Updated(s, own)) \/ Refused(Updated(s, own))
    BY <1>5
  <2>2. CASE Updated(s, own) = Absent
    <3>1. Absent.status.id = 0
      BY DEF Absent, NoStatus
    <3>2. QED
      BY <1>1, <1>3, <2>1, <2>2, <3>1, WriteMoves
  <2>3. CASE Updated(s, own) # Absent
    <3>1. /\ Updated(s, own).uid = api[key].uid
          /\ Updated(s, own).deleting = api[key].deleting
          /\ Updated(s, own).spec = s /\ Updated(s, own).status = api[key].status
      BY <1>1, <2>3, UpdatedParts
    <3>2. QED
      BY <1>1, <1>3, <2>1, <3>1, WriteMoves
  <2>4. QED
    BY <2>2, <2>3
<1>6. QED
  BY <1>2, <1>4, <1>5

\* All the steps that controllers share.
LEMMA CommonMoves ==
  ASSUME TypeOK, NEW G, NEW s \in G, NEW wellFormed, NEW ready,
         CommonStep(wellFormed, ready, s)
  PROVE  Moves(G)
<1>1. CASE Malformed(wellFormed) \/ GetAccountInfo(ready)
  <2>1. AfterAccount(inst) = "teardown" => inst.deleting
    BY DEF AfterAccount
  <2>2. WorkerMoves(G)
    BY <1>1, <2>1, ReturnMoves, GotoMoves DEF Malformed, GetAccountInfo
  <2>3. QED
    BY <1>1, <2>2, QuietMoves, OneOwnerMoves DEF Malformed, GetAccountInfo
<1>2. CASE DeleteEntity \/ Compensate
  <2>1. WorkerMoves(G)
    BY <1>2, ReturnMoves, GotoMoves DEF DeleteEntity, Compensate
  <2>2. OwnerMoves
    BY <1>2, OneOwnerMoves DEF DeleteEntity, Compensate
  <2>3. QED
    BY <1>2, <2>1, <2>2, QuietMoves DEF DeleteEntity, Compensate
<1>3. QED
  BY <1>1, <1>2, WriteStepsMove DEF CommonStep

\* The steps a controller fills in: the retrieval that finds nothing,
LEMMA NotRetrievedMoves ==
  ASSUME TypeOK, NEW G, NEW label, label # "compensate", NotRetrieved(label)
  PROVE  Moves(G)
<1>1. WorkerMoves(G)
  BY GotoMoves DEF NotRetrieved, RecordedAt
<1>2. QED
  BY <1>1, QuietMoves, OneOwnerMoves DEF NotRetrieved

\* the one that leads to an update,
LEMMA GoUpdateMoves ==
  ASSUME TypeOK, NEW G, NEW def, pc # "compensate", GoUpdate(def)
  PROVE  Moves(G)
<1>1. WorkerMoves(G)
  BY DEF GoUpdate, WorkerMoves, MadeMoves
<1>2. QED
  BY <1>1, QuietMoves, OneOwnerMoves DEF GoUpdate

\* the update,
LEMMA UpdateEntityMoves ==
  ASSUME TypeOK, NEW G, NEW def, NEW next, next # "teardown", UpdateEntity(def, next)
  PROVE  Moves(G)
<1>1. WorkerMoves(G)
  BY GotoMoves DEF UpdateEntity
<1>2. OwnerMoves
  BY OneOwnerMoves DEF UpdateEntity
<1>3. QED
  BY <1>1, <1>2, QuietMoves DEF UpdateEntity

\* the creation,
LEMMA CreateEntityMoves ==
  ASSUME TypeOK, NEW G, NEW def, NEW next, next # "teardown", CreateEntity(def, next)
  PROVE  Moves(G)
<1>1. WorkerMoves(G)
  <2>1. CASE pc' = next /\ UNCHANGED <<key, inst>> /\ \E i \in Ids : Unused(i) /\ made' = i
    BY <2>1 DEF WorkerMoves, MadeMoves, CreateEntity
  <2>2. CASE Goto("reportFailed")
    BY <2>2, GotoMoves DEF CreateEntity
  <2>3. QED
    BY <2>1, <2>2 DEF CreateEntity, NewId
<1>2. OwnerMoves
  BY OneOwnerMoves DEF CreateEntity
<1>3. QED
  BY <1>1, <1>2, QuietMoves DEF CreateEntity

\* and the record.
LEMMA RecordMoves ==
  ASSUME TypeOK, NEW G, NEW applied, Record(applied)
  PROVE  Moves(G)
<1> DEFINE st == [state |-> "Online", spec |-> applied,
                  id |-> IF made # 0 THEN made ELSE inst.status.id]
<1>1. Online(applied) = StatusUpdated(st)
  BY DEF Online
<1>2. WorkerMoves(G)
  BY ReturnMoves, GotoMoves DEF Record
<1>3. \/ StatusUpdated(st).status.id \in {0, inst.status.id, api[key].status.id}
      \/ made' = 0 \/ LostAnswer' \/ ApiUnchanged
  <2>1. CASE made = 0
    BY <2>1, StatusUpdatedParts DEF Record
  <2>2. CASE Return(TRUE)
    BY <2>2 DEF Return
  <2>3. CASE Refused(Online(applied)) /\ Goto("compensate")
    <3>1. CASE Fault("apiLost")
      <4>1. faults \in Nat /\ MaxFaults \in Nat
        BY ReconcilerAssumption DEF TypeOK, IamTypeOK
      <4>2. "apiLost" \in Faults /\ faults' = faults + 1
        BY <3>1 DEF Fault
      <4>3. QED
        BY <2>3, <4>1, <4>2 DEF LostAnswer, Goto
    <3>2. CASE ApiUnchanged
      BY <3>2
    <3>3. QED
      BY <2>3, <3>1, <3>2 DEF Refused, ApiUnchanged
  <2>4. QED
    BY <2>1, <2>2, <2>3 DEF Record
<1>4. QED
  BY <1>1, <1>2, <1>3, WriteMoves, StatusUpdatedParts DEF Record

-----------------------------------------------------------------------------
(* The environment *)

\* What users do to a resource.
LEMMA UserMoves ==
  ASSUME TypeOK, NEW G, Specs \subseteq G, UserStep
  PROVE  Moves(G)
<1>1. PICK c \in Resources :
        \/ \E s \in Specs, f \in Foreign : CreateResource(c, s, f)
        \/ \E s \in Specs : EditSpec(c, s)
        \/ \E f \in Foreign : DeleteResource(c, f)
  BY DEF UserStep, User
<1>2. /\ api \in [Resources -> Object]
      /\ UNCHANGED <<cache, pc, key, inst, made, iam, faults>>
  <2>1. UNCHANGED cache
    BY <1>1 DEF CreateResource, EditSpec, DeleteResource, UserChange
  <2>2. QED
    BY <2>1 DEF UserStep, TypeOK, KubeTypeOK
<1>3. StoreMoves(G)
  <2>1. CASE \E s \in Specs, f \in Foreign : CreateResource(c, s, f)
    <3>1. PICK s \in Specs, f \in Foreign : CreateResource(c, s, f)
      BY <2>1
    <3>2. DEFINE o == [Absent EXCEPT !.uid = created + 1, !.foreign = f, !.spec = s]
    <3>3. o.uid = created + 1 /\ ~o.deleting /\ o.spec = s
      BY DEF Absent
    <3>4. api' = [api EXCEPT ![c] = o] /\ created' = created + 1
      BY <3>1 DEF CreateResource, Store
    <3>5. QED
      BY <1>2, <3>3, <3>4 DEF StoreMoves
  <2>2. CASE \E s \in Specs : EditSpec(c, s)
    BY <1>2, <2>2 DEF StoreMoves, EditSpec, Store, UserChange, Object
  <2>3. CASE \E f \in Foreign : DeleteResource(c, f)
    <3>1. PICK f \in Foreign : DeleteResource(c, f)
      BY <2>3
    <3>2. DEFINE o == [api[c] EXCEPT !.deleting = TRUE, !.foreign = @ \/ f]
    <3>3. o.uid = api[c].uid /\ o.deleting /\ o.spec = api[c].spec
      BY <1>2 DEF Object
    <3>4. api' = [api EXCEPT ![c] = Collected(o)] /\ created' = created
      BY <3>1 DEF DeleteResource, Store, UserChange
    <3>5. Collected(o) \in {o, Absent}
      BY DEF Collected
    <3>6. QED
      BY <1>2, <3>3, <3>4, <3>5 DEF StoreMoves
  <2>4. QED
    BY <1>1, <2>1, <2>2, <2>3
<1>4. \A d \in Resources : api'[d].status.id \in {0, api[d].status.id}
  <2>1. \A spec \in Specs : [api[c] EXCEPT !.spec = spec].status = api[c].status
    BY <1>2 DEF Object
  <2>2. Absent.status.id = 0 /\ NoStatus.id = 0
    BY DEF Absent, NoStatus
  <2>3. \E o : /\ api' = [api EXCEPT ![c] = o]
               /\ o.status \in {api[c].status, NoStatus}
    <3>1. Absent.status = NoStatus
      BY DEF Absent
    <3>2. CASE \E spec \in Specs, f \in Foreign : CreateResource(c, spec, f)
      <4>1. PICK spec \in Specs, f \in Foreign : CreateResource(c, spec, f)
        BY <3>2
      <4>2. DEFINE o == [Absent EXCEPT !.uid = created + 1, !.foreign = f, !.spec = spec]
      <4>3. o.status = NoStatus
        BY DEF Absent
      <4>4. api' = [api EXCEPT ![c] = o]
        BY <4>1 DEF CreateResource, Store
      <4>5. QED
        BY <4>3, <4>4
    <3>3. CASE \E spec \in Specs : EditSpec(c, spec)
      BY <2>1, <3>3 DEF EditSpec, Store
    <3>4. CASE \E f \in Foreign : DeleteResource(c, f)
      <4>1. PICK f \in Foreign : DeleteResource(c, f)
        BY <3>4
      <4>2. DEFINE o == [api[c] EXCEPT !.deleting = TRUE, !.foreign = @ \/ f]
      <4>3. Collected(o).status \in {api[c].status, NoStatus}
        BY <1>2, <3>1 DEF Collected, Object
      <4>4. api' = [api EXCEPT ![c] = Collected(o)]
        BY <4>1 DEF DeleteResource, Store
      <4>5. QED
        BY <4>3, <4>4
    <3>5. QED
      BY <1>1, <3>2, <3>3, <3>4
  <2>4. QED
    BY <1>2, <2>2, <2>3
<1>5. QED
  BY <1>2, <1>3, <1>4 DEF Moves, CacheMoves, WorkerMoves, OwnerMoves, MadeMoves, NameMoves

\* The end of another finalizer.
LEMMA FinalizeMoves ==
  ASSUME TypeOK, NEW G, NEW c \in Resources, Finalize(c)
  PROVE  Moves(G)
<1> DEFINE o == [api[c] EXCEPT !.foreign = FALSE]
<1>1. /\ api \in [Resources -> Object]
      /\ UNCHANGED <<cache, created, pc, key, inst, made, iam, faults>>
  BY DEF Finalize, RemoveForeignFinalizer, TypeOK, KubeTypeOK
<1>2. /\ o.uid = api[c].uid /\ o.deleting = api[c].deleting /\ o.spec = api[c].spec
      /\ o.status = api[c].status /\ Absent.status.id = 0
  BY <1>1 DEF Object, Absent, NoStatus
<1>3. api' = [api EXCEPT ![c] = Collected(o)] /\ Collected(o) \in {o, Absent}
  BY DEF Finalize, RemoveForeignFinalizer, Store, Collected
<1>4. QED
  BY <1>1, <1>2, <1>3 DEF Moves, StoreMoves, CacheMoves, WorkerMoves, OwnerMoves, MadeMoves,
                          NameMoves

\* The watch, the resync, the timers and the start of a reconcile.
LEMMA KubeStepMoves ==
  ASSUME TypeOK, NEW G, NEW c \in Resources,
         \/ CacheSyncs(c) \/ Resyncs(c) \/ Fires(c)
         \/ GetNotFound(c) \/ GetInstance(c) \/ GetError(c)
  PROVE  Moves(G)
<1>1. UNCHANGED <<api, created, iam>>
  BY DEF CacheSyncs, Resyncs, Fires, CacheSync, Resync, TimerFires,
         GetNotFound, GetInstance, GetError
<1>2. CacheMoves
  BY DEF CacheMoves, CacheSyncs, Resyncs, Fires, CacheSync, Resync, TimerFires,
         GetNotFound, GetInstance, GetError, TypeOK, KubeTypeOK
<1>3. WorkerMoves(G)
  <2>1. CASE GetInstance(c)
    BY <2>1 DEF GetInstance, WorkerMoves, MadeMoves
  <2>2. CASE UNCHANGED worker /\ (pc = "idle" \/ UNCHANGED faults)
    BY <2>2 DEF worker, WorkerMoves, MadeMoves
  <2>3. QED
    BY <2>1, <2>2 DEF CacheSyncs, Resyncs, Fires, GetNotFound, GetError
<1>4. QED
  BY <1>1, <1>2, <1>3 DEF Moves, StoreMoves, OwnerMoves, NameMoves

\* All of these, and crashes.
LEMMA EnvironmentMoves ==
  ASSUME TypeOK, NEW G, Specs \subseteq G, Environment
  PROVE  Moves(G)
  BY UserMoves, FinalizeMoves, KubeStepMoves, RestartMoves DEF Environment, Crash

\* A change through the console.
LEMMA ConsoleMoves ==
  ASSUME TypeOK, NEW G, NEW i, NEW def, NEW covered,
         ConsoleCreates(i, def) \/ ConsoleChanges(i, def, covered) \/ ConsoleDeletes(i)
  PROVE  Moves(G)
<1>1. OwnerMoves
  <2>1. CASE iam' = NewEntity(i, 0, def)
    BY <2>1, OneOwnerMoves
  <2>2. CASE iam' = Redefined(i, def) \/ iam' = Deleted(i)
    BY <2>2, OneOwnerMoves
  <2>3. QED
    BY <2>1, <2>2 DEF ConsoleCreates, ConsoleChanges, ConsoleDeletes
<1>2. UNCHANGED <<api, cache, created, pc, key, inst, made, faults>>
  BY DEF ConsoleCreates, ConsoleChanges, ConsoleDeletes, Console
<1>3. QED
  BY <1>1, <1>2 DEF Moves, StoreMoves, CacheMoves, WorkerMoves, MadeMoves, NameMoves

\* Nothing happens.
LEMMA StutterMoves ==
  ASSUME NEW G, UNCHANGED vars
  PROVE  Moves(G)
  BY DEF vars, kube, worker, Moves, StoreMoves, CacheMoves, WorkerMoves, OwnerMoves,
         MadeMoves, NameMoves

\* Initially there is nothing.
LEMMA InitIncarnations == Init => Incarnations
  BY DEF Init, KubeInit, Incarnations, Copies, Absent, NoEntity, Exists

-----------------------------------------------------------------------------
(* The operator keeps the entities it recorded *)

\* No status names the entity just made, unless the answer to the write of that
\* status was lost.
Unnamed ==
    made # 0 =>
        /\ inst.status.id # made
        /\ \A c \in Resources : api[c].status.id = made => LostAnswer

\* Initially there is none.
LEMMA InitUnnamed == Init => Unnamed
  BY DEF Init, Unnamed

\* Every step keeps that: an id comes into a status from there, from the worker's
\* copy or by recording the entity.
LEMMA MovesUnnamed ==
  ASSUME Inv, Unnamed, NEW G, Moves(G)
  PROVE  Unnamed'
<1> SUFFICES ASSUME made' # 0 PROVE Unnamed'
  BY DEF Unnamed
<1>1. CASE made' = made
  <2>1. pc # "idle" /\ inst'.status.id = inst.status.id /\ inst.status.id # made
    BY <1>1 DEF Inv, Ownership, Moves, WorkerMoves, MadeMoves, Unnamed
  <2>2. LostAnswer => LostAnswer'
    BY DEF Moves, WorkerMoves, MadeMoves, LostAnswer
  <2>3. QED
    BY <1>1, <2>1, <2>2 DEF Unnamed, Moves, NameMoves
<1>2. CASE made' \in Ids /\ Unused(made') /\ inst'.status.id = inst.status.id
  BY <1>2 DEF Unused, Unnamed, Moves, NameMoves
<1>3. QED
  BY <1>1, <1>2 DEF Moves, WorkerMoves, MadeMoves

\* A step deletes no recorded entity of a resource that is not being deleted,
\* but for the one just made after a lost answer, or it is somebody else's.
Spares ==
    changes' = changes =>
        \A c \in Resources :
            LET i == api[c].status.id IN
            i # 0 /\ ~api[c].deleting /\ iam[i].live =>
                iam'[i].live \/ (i = made /\ LostAnswer)

\* A step that deletes at most the entity just made.
LEMMA SparesAll ==
  ASSUME TypeOK, Unnamed,
         \/ IamUnchanged
         \/ iam' = Deleted(made)
         \/ \E i, def : iam' = Redefined(i, def)
         \/ \E i, owner, def : iam' = NewEntity(i, owner, def)
  PROVE  Spares
<1>1. iam \in [Ids -> Entity]
  BY DEF TypeOK, IamTypeOK
<1>2. QED
  BY <1>1, HeldIds DEF Spares, Unnamed, IamUnchanged, Deleted, Redefined, NewEntity, Entity

\* The entity that is torn down is no other resource's, and that of a resource
\* being deleted.
LEMMA DeleteSpares ==
  ASSUME Inv, Incarnations, DeleteEntity
  PROVE  Spares
<1> SUFFICES ASSUME NEW c \in Resources, api[c].status.id # 0, ~api[c].deleting,
                    iam[api[c].status.id].live
             PROVE  iam'[api[c].status.id].live
  BY DEF Spares
<1> DEFINE i == api[c].status.id
<1>1. i \in Ids /\ iam \in [Ids -> Entity]
  BY HeldIds DEF Inv
<1>2. CASE i = inst.status.id
  <2>1. api[c].uid = inst.uid /\ Exists(inst)
    BY <1>2 DEF Inv, Ownership, Own, DeleteEntity
  <2>2. key \in Resources /\ inst.deleting
    BY Busy DEF Inv, Incarnations, DeleteEntity
  <2>3. inst \in Copies(key) /\ api[c] \in Copies(c)
    BY DEF Copies
  <2>4. c = key
    BY <2>1, <2>2, <2>3 DEF Incarnations
  <2>5. QED
    BY <2>1, <2>2, <2>3, <2>4 DEF Incarnations
<1>3. CASE i # inst.status.id
  BY <1>1, <1>3 DEF DeleteEntity, Deleted, IamUnchanged
<1>4. QED
  BY <1>2, <1>3

\* All the steps that controllers share.
LEMMA CommonSpares ==
  ASSUME Inv, Incarnations, Unnamed, NEW wellFormed, NEW ready, NEW s,
         CommonStep(wellFormed, ready, s)
  PROVE  Spares
<1>1. IamUnchanged \/ DeleteEntity \/ Compensate
  BY DEF CommonStep, SetPending, Malformed, GetAccountInfo, DropFinalizer,
         AddFinalizer, ReportFailed, ClearStatus, RemoveFinalizer, ClearId
<1>2. QED
  BY <1>1, DeleteSpares, SparesAll DEF Compensate, Inv

\* The environment, but for the console, deletes nothing,
LEMMA EnvironmentSpares ==
  ASSUME TypeOK, Unnamed, Environment
  PROVE  Spares
<1>1. IamUnchanged
  BY DEF Environment, UserStep, Crash, GetNotFound, GetInstance, GetError,
         Finalize, CacheSyncs, Resyncs, Fires, IamUnchanged
<1>2. QED
  BY <1>1, SparesAll

\* and what the console does is counted.
LEMMA ConsoleSpares ==
  ASSUME TypeOK, NEW i, NEW def, NEW covered,
         ConsoleCreates(i, def) \/ ConsoleChanges(i, def, covered) \/ ConsoleDeletes(i)
  PROVE  Spares
  BY KubeAssumption
     DEF Spares, ConsoleCreates, ConsoleChanges, ConsoleDeletes, Console,
         TypeOK, KubeTypeOK

-----------------------------------------------------------------------------
(* Entities come and go one at a time *)

\* The entities in IAM, and the resources they were made for, are the same.
SameEntities ==
    \A i \in Ids : /\ iam'[i].live <=> iam[i].live
                   /\ iam[i].live => iam'[i].owner = iam[i].owner

\* One is lost,
Loses(i) ==
    /\ iam[i].live /\ ~iam'[i].live
    /\ \A j \in Ids \ {i} : iam'[j] = iam[j]

\* or one is made.
Gains(i, owner) ==
    /\ NewId(i) /\ iam'[i].live /\ iam'[i].owner = owner
    /\ \A j \in Ids \ {i} : iam'[j] = iam[j]

EntityMoves ==
    \/ SameEntities
    \/ /\ UNCHANGED <<api, cache, created>>
       /\ \E i \in Ids : \/ Loses(i) \/ Gains(i, 0)
                         \/ pc = "create" /\ Gains(i, inst.uid)

\* Nothing is made or lost in IAM, or one entity.
LEMMA SameEntityMoves ==
  ASSUME TypeOK, IamUnchanged \/ \E i, def : iam' = Redefined(i, def)
  PROVE  EntityMoves
<1>1. iam \in [Ids -> Entity]
  BY DEF TypeOK, IamTypeOK
<1>2. QED
  BY <1>1 DEF EntityMoves, SameEntities, IamUnchanged, Redefined, Entity

\* A deletion.
LEMMA LoseMoves ==
  ASSUME TypeOK, NEW i, iam' = Deleted(i), UNCHANGED <<api, cache, created>>
  PROVE  EntityMoves
<1>1. iam \in [Ids -> Entity]
  BY DEF TypeOK, IamTypeOK
<1>2. CASE i \in Ids /\ iam[i].live
  BY <1>1, <1>2 DEF EntityMoves, Loses, Deleted, NoEntity
<1>3. CASE ~(i \in Ids /\ iam[i].live)
  BY <1>1, <1>3 DEF EntityMoves, SameEntities, Deleted, NoEntity
<1>4. QED
  BY <1>2, <1>3

\* A creation.
LEMMA GainMoves ==
  ASSUME TypeOK, NEW i \in Ids, NEW owner, NEW def, NewId(i),
         iam' = NewEntity(i, owner, def), UNCHANGED <<api, cache, created>>,
         owner = 0 \/ (pc = "create" /\ owner = inst.uid)
  PROVE  EntityMoves
<1>1. iam \in [Ids -> Entity]
  BY DEF TypeOK, IamTypeOK
<1>2. Gains(i, owner)
  BY <1>1 DEF Gains, NewEntity
<1>3. QED
  BY <1>2 DEF EntityMoves

\* The steps that all controllers share,
LEMMA CommonEntities ==
  ASSUME TypeOK, NEW wellFormed, NEW ready, NEW s, CommonStep(wellFormed, ready, s)
  PROVE  EntityMoves
<1>1. IamUnchanged \/ DeleteEntity \/ Compensate
  BY DEF CommonStep, SetPending, Malformed, GetAccountInfo, DropFinalizer,
         AddFinalizer, ReportFailed, ClearStatus, RemoveFinalizer, ClearId
<1>2. CASE DeleteEntity \/ Compensate
  BY <1>2, SameEntityMoves, LoseMoves DEF DeleteEntity, Compensate, ApiUnchanged, Frame
<1>3. QED
  BY <1>1, <1>2, SameEntityMoves

\* the creation,
LEMMA CreateEntities ==
  ASSUME TypeOK, NEW def, NEW next, CreateEntity(def, next)
  PROVE  EntityMoves
<1>1. UNCHANGED <<api, cache, created>>
  BY DEF CreateEntity, ApiUnchanged, Frame
<1>2. QED
  BY <1>1, SameEntityMoves, GainMoves DEF CreateEntity

\* the environment,
LEMMA EnvironmentEntities ==
  ASSUME TypeOK, Environment
  PROVE  EntityMoves
<1>1. IamUnchanged
  BY DEF Environment, UserStep, Crash, GetNotFound, GetInstance, GetError,
         Finalize, CacheSyncs, Resyncs, Fires, IamUnchanged
<1>2. QED
  BY <1>1, SameEntityMoves

\* and the console.
LEMMA ConsoleEntities ==
  ASSUME TypeOK, NEW i \in Ids, NEW def, NEW covered,
         ConsoleCreates(i, def) \/ ConsoleChanges(i, def, covered) \/ ConsoleDeletes(i)
  PROVE  EntityMoves
<1>1. UNCHANGED <<api, cache, created>>
  BY DEF ConsoleCreates, ConsoleChanges, ConsoleDeletes, Console
<1>2. CASE ConsoleCreates(i, def)
  <2>1. NewId(i) /\ iam' = NewEntity(i, 0, def)
    BY <1>2 DEF ConsoleCreates
  <2>2. QED
    BY <1>1, <2>1, GainMoves
<1>3. QED
  BY <1>1, <1>2, SameEntityMoves, LoseMoves DEF ConsoleChanges, ConsoleDeletes

-----------------------------------------------------------------------------
(* Custody *)

\* The finalizer stays with an object that stays, and the id of an entity that
\* is not gone.
Stays(c) ==
    /\ Exists(api[c]) /\ api'[c].uid = api[c].uid /\ ~api'[c].foreign
    /\ api[c].own \/ api'[c].deleting => api'[c].own
    /\ api'[c].status.id # api[c].status.id => Gone(api[c].status.id)

\* An object that goes had no finalizer, or had it removed by Reconcile.
Goes(c) ==
    /\ api'[c] = Absent
    /\ \/ ~api[c].own
       \/ fresh /\ c = key /\ inst.deleting /\ Gone(api[c].status.id)

\* A new object is only declared.
Comes(c) ==
    ~Exists(api[c]) /\ ~api'[c].own /\ ~api'[c].deleting /\ ~api'[c].foreign

ServesStore ==
    \A c \in Resources : api'[c] = api[c] \/ Stays(c) \/ Goes(c) \/ Comes(c)

\* The worker's copy gets the finalizer only as the stored one does; the worker
\* forgets an entity it made only when it is deleted, or recorded.
ServesWorker ==
    /\ key' = key =>
          /\ inst'.foreign = inst.foreign
          /\ inst.own => inst'.own
          /\ inst'.own => inst.own \/ (api'[key].own /\ api'[key].uid = inst.uid)
    /\ made # 0 /\ made' # made =>
          \/ ~iam'[made].live
          \/ api'[key].uid = inst.uid /\ api'[key].status.id = made

\* An entity is made by the console, or by Reconcile where it creates one.
ServesIam ==
    \A i \in Ids : iam'[i].live =>
        \/ iam[i].live /\ iam'[i].owner = iam[i].owner
        \/ iam'[i].owner = 0
        \/ /\ pc = "create" /\ iam'[i].owner = inst.uid /\ i = made'
           /\ UNCHANGED <<api, inst, key>>

Serves == ServesStore /\ ServesWorker /\ ServesIam

\* A copy that counts on the finalizer still can.
LEMMA StillOwn ==
  ASSUME Inv, Incarnations, Custody, Serves, NEW c \in Resources,
         NEW p \in Copies(c), p.own, ~p.deleting
  PROVE  p.uid = api'[c].uid /\ api'[c].own
<1>1. p.uid = api[c].uid /\ api[c].own /\ Exists(api[c])
  BY DEF Custody, Guarded, Copies
<1>2. CASE Goes(c)
  <2>1. fresh /\ c = key /\ inst.deleting
    BY <1>1, <1>2 DEF Goes
  <2>2. api[key].deleting /\ api[key].uid = inst.uid
    BY <2>1 DEF Inv, Ownership, Same, Custody, Controlled
  <2>3. cache[key].uid = inst.uid => cache[key].deleting
    BY <2>1 DEF Custody, Guarded
  <2>4. QED
    BY <1>1, <2>1, <2>2, <2>3 DEF Copies
<1>3. QED
  BY <1>1, <1>2 DEF Serves, ServesStore, Stays, Comes

\* Such steps keep copies guarded.
LEMMA GuardedKeep ==
  ASSUME Inv, Incarnations, Custody, NEW G, Moves(G), Serves
  PROVE  Guarded'
<1> DEFINE Good(c, o) == /\ ~o.foreign
                         /\ o.own => Exists(o)
                         /\ o.deleting => o.own
                         /\ o.own /\ ~o.deleting => o.uid = api'[c].uid /\ api'[c].own
<1>1. ASSUME NEW c \in Resources, NEW p \in Copies(c) PROVE Good(c, p)
  BY <1>1, StillOwn DEF Custody, Guarded
<1>2. ASSUME NEW c \in Resources PROVE Good(c, api'[c])
  <2>1. CASE api'[c] = api[c]
    BY <1>1, <2>1 DEF Copies
  <2>2. CASE Stays(c)
    BY <2>2 DEF Stays, Exists
  <2>3. CASE Goes(c) \/ Comes(c)
    BY <2>3 DEF Goes, Comes, Absent
  <2>4. QED
    BY <2>1, <2>2, <2>3 DEF Serves, ServesStore
<1>3. ASSUME NEW c \in Resources PROVE Good(c, cache'[c])
  BY <1>1 DEF Moves, CacheMoves, Copies
<1>4. ASSUME key' \in Resources PROVE Good(key', inst')
  <2>1. CASE inst' = Absent
    BY <2>1 DEF Absent
  <2>2. CASE inst' = cache[key']
    BY <1>1, <1>4, <2>2 DEF Copies
  <2>3. CASE key' = key /\ inst'.uid = inst.uid /\ inst'.deleting = inst.deleting
    <3>1. Good(key, inst) /\ Good(key, api'[key])
      BY <1>1, <1>2, <1>4, <2>3 DEF Copies
    <3>2. QED
      BY <3>1, <2>3 DEF Serves, ServesWorker, Exists
  <2>4. QED
    BY <2>1, <2>2, <2>3 DEF Moves, WorkerMoves
<1>5. ASSUME key' \in Resources, inst'.deleting, cache'[key'].uid = inst'.uid
      PROVE  cache'[key'].deleting
  <2>1. cache'[key'] \in {cache[key'], api[key']}
    BY <1>5 DEF Moves, CacheMoves
  <2>2. \A o \in Copies(key') : o.deleting => Exists(o)
    BY <1>5 DEF Custody, Guarded
  <2>3. CASE inst' = Absent
    BY <1>5, <2>3 DEF Absent
  <2>4. CASE inst' = cache[key']
    BY <1>5, <2>1, <2>2, <2>4 DEF Incarnations, Copies
  <2>5. CASE key' = key /\ inst'.uid = inst.uid /\ inst'.deleting = inst.deleting
    <3>1. inst.deleting /\ inst \in Copies(key) /\ Exists(inst) /\ key \in Resources
      BY <1>5, <2>2, <2>5 DEF Copies
    <3>2. api[key].uid = inst.uid => api[key].deleting
      BY <3>1 DEF Incarnations
    <3>3. cache[key].uid = inst.uid => cache[key].deleting
      BY <3>1 DEF Custody, Guarded
    <3>4. QED
      BY <1>5, <2>1, <2>5, <3>2, <3>3
  <2>6. QED
    BY <2>3, <2>4, <2>5 DEF Moves, WorkerMoves
<1>6. \A c \in Resources : \A o \in Copies(c)' : Good(c, o)
  BY <1>2, <1>3, <1>4 DEF Copies
<1>7. QED
  BY <1>5, <1>6 DEF Guarded, Exists

\* Such steps leave no entity without its resource.
LEMMA EntitiesKeep ==
  ASSUME Inv, Incarnations, Custody, Serves
  PROVE  EntitiesHaveTheirResource'
<1> SUFFICES ASSUME NEW i \in Ids, iam'[i].live, iam'[i].owner # 0
             PROVE  \E c \in Resources : api'[c].uid = iam'[i].owner /\ api'[c].own
  BY DEF EntitiesHaveTheirResource
<1>1. CASE iam[i].live /\ iam'[i].owner = iam[i].owner
  <2>1. PICK c \in Resources : api[c].uid = iam[i].owner /\ api[c].own
    BY <1>1 DEF Custody, EntitiesHaveTheirResource
  <2>2. CASE Goes(c)
    <3>1. fresh /\ c = key /\ inst.deleting /\ Gone(api[c].status.id)
      BY <2>1, <2>2 DEF Goes
    <3>2. i # made
      BY <1>1, <3>1, HeldIds DEF Inv, Custody, Controlled, Gone, Making, Syncing
    <3>3. PICK d \in Resources : api[d].uid = iam[i].owner /\ api[d].status.id = i
      BY <1>1, <3>2 DEF Custody, OneEntityPerResource
    <3>4. c = d
      BY <1>1, <2>1, <3>3 DEF Incarnations, Copies, Exists
    <3>5. QED
      BY <1>1, <3>1, <3>3, <3>4, HeldIds DEF Gone, Inv
  <2>3. CASE api'[c] = api[c] \/ Stays(c)
    BY <1>1, <2>1, <2>3 DEF Stays
  <2>4. CASE Comes(c)
    BY <1>1, <2>1, <2>4 DEF Comes, Exists
  <2>5. QED
    BY <2>2, <2>3, <2>4 DEF Serves, ServesStore
<1>2. CASE pc = "create" /\ iam'[i].owner = inst.uid /\ UNCHANGED <<api, inst, key>>
  <2>1. key \in Resources /\ inst.own /\ ~inst.deleting
    BY <1>2, Busy DEF Inv, Custody, Controlled, Syncing
  <2>2. api[key].uid = inst.uid /\ api[key].own
    BY <2>1 DEF Custody, Guarded, Copies
  <2>3. QED
    BY <1>2, <2>1, <2>2
<1>3. QED
  BY <1>1, <1>2 DEF Serves, ServesIam

\* Such steps leave at most one entity for a resource.
LEMMA OneKeeps ==
  ASSUME Inv, Incarnations, Custody, Serves
  PROVE  OneEntityPerResource'
<1> SUFFICES ASSUME NEW i \in Ids, iam'[i].live, iam'[i].owner # 0, i # made'
             PROVE  \E c \in Resources : api'[c].uid = iam'[i].owner /\ api'[c].status.id = i
  BY DEF OneEntityPerResource
<1>1. iam[i].live /\ iam'[i].owner = iam[i].owner /\ i # 0
  BY HeldIds DEF Serves, ServesIam, Inv
<1>2. CASE i = made
  <2>1. api'[key].uid = inst.uid /\ api'[key].status.id = made
    BY <1>1, <1>2 DEF Serves, ServesWorker
  <2>2. iam[i].owner = inst.uid /\ key \in Resources
    BY <1>1, <1>2, Busy DEF Inv, Ownership
  <2>3. QED
    BY <1>1, <1>2, <2>1, <2>2
<1>3. CASE i # made
  <2>1. PICK c \in Resources : api[c].uid = iam[i].owner /\ api[c].status.id = i
    BY <1>1, <1>3 DEF Custody, OneEntityPerResource
  <2>2. ~Gone(api[c].status.id)
    BY <1>1, <2>1 DEF Gone
  <2>3. PICK d \in Resources : api[d].uid = iam[i].owner /\ api[d].own
    BY <1>1 DEF Custody, EntitiesHaveTheirResource
  <2>4. c = d
    BY <1>1, <2>1, <2>3 DEF Incarnations, Copies, Exists
  <2>5. ~Goes(c) /\ ~Comes(c)
    BY <1>1, <2>1, <2>2, <2>3, <2>4 DEF Goes, Comes, Exists
  <2>6. QED
    BY <1>1, <2>1, <2>2, <2>5 DEF Serves, ServesStore, Stays
<1>4. QED
  BY <1>2, <1>3

\* All that is left to prove of a step is what it leaves Reconcile to rely on.
LEMMA CustodyKeep ==
  ASSUME Inv, Incarnations, Custody, NEW G, Moves(G), Serves, Controlled'
  PROVE  Custody'
  BY GuardedKeep, EntitiesKeep, OneKeeps DEF Custody

-----------------------------------------------------------------------------
(* The steps keep Custody *)

\* Entities appear only under new ids.
Afresh == \A i \in Ids : iam'[i].live /\ ~iam[i].live => NewId(i)

\* What is gone stays gone, for those who know it.
LEMMA GoneStays ==
  ASSUME Inv, Afresh, NEW i \in {inst.status.id, made}, Gone(i)
  PROVE  i = 0 \/ ~iam'[i].live
  BY HeldIds DEF Inv, Gone, Afresh, NewId, Unused

\* A step that leaves the worker alone.
LEMMA ControlledStays ==
  ASSUME Inv, Custody, Afresh, UNCHANGED <<pc, key, inst, made>>,
         fresh' => fresh /\ api'[key] = api[key]
  PROVE  Controlled'
<1>1. /\ Gone(inst.status.id) => Gone(inst.status.id)'
      /\ Gone(made) => Gone(made)'
  BY GoneStays DEF Gone
<1>2. QED
  BY <1>1 DEF Custody, Controlled, Syncing, Making

\* One that ends a reconcile.
LEMMA ControlledIdle ==
  ASSUME pc' = "idle", key' = NoResource, fresh' = FALSE, made' = 0
  PROVE  Controlled'
  BY DEF Controlled, Syncing, Making

\* A step that leaves the worker, its object and the entities alone.
LEMMA ServesStill ==
  ASSUME UNCHANGED <<inst, key, made>>,
         \A i \in Ids : iam'[i].live =>
             (iam[i].live /\ iam'[i].owner = iam[i].owner) \/ iam'[i].owner = 0
  PROVE  ServesWorker /\ ServesIam
  BY DEF ServesWorker, ServesIam

\* What users do to a resource.
LEMMA UserServes ==
  ASSUME Reliable, Inv, Custody, UserStep
  PROVE  Serves /\ Controlled'
<1>1. PICK c \in Resources :
        \/ \E s \in Specs, f \in Foreign : CreateResource(c, s, f)
        \/ \E s \in Specs : EditSpec(c, s)
        \/ \E f \in Foreign : DeleteResource(c, f)
  BY DEF UserStep, User
<1>2. /\ api \in [Resources -> Object] /\ UNCHANGED <<pc, key, inst, made, iam>>
      /\ fresh' => fresh /\ api'[key] = api[key]
      /\ ~api[c].foreign /\ (api[c].deleting => api[c].own)
  BY DEF UserStep, Inv, TypeOK, KubeTypeOK, Custody, Guarded, Copies
<1>3. ServesStore
  <2>1. CASE \E s \in Specs, f \in Foreign : CreateResource(c, s, f)
    <3>1. PICK s \in Specs, f \in Foreign : CreateResource(c, s, f)
      BY <2>1
    <3>2. DEFINE o == [Absent EXCEPT !.uid = created + 1, !.foreign = f, !.spec = s]
    <3>3. ~o.foreign /\ ~o.own /\ ~o.deleting
      BY DEF Absent, Reliable
    <3>4. api' = [api EXCEPT ![c] = o] /\ ~Exists(api[c])
      BY <3>1 DEF CreateResource, Store
    <3>5. QED
      BY <1>2, <3>3, <3>4 DEF ServesStore, Comes
  <2>2. CASE \E s \in Specs : EditSpec(c, s)
    BY <1>2, <2>2 DEF ServesStore, Stays, EditSpec, Store, Object
  <2>3. CASE \E f \in Foreign : DeleteResource(c, f)
    <3>1. PICK f \in Foreign : DeleteResource(c, f)
      BY <2>3
    <3>2. DEFINE o == [api[c] EXCEPT !.deleting = TRUE, !.foreign = @ \/ f]
    <3>3. /\ o.uid = api[c].uid /\ o.own = api[c].own /\ o.deleting
          /\ o.status = api[c].status /\ o.foreign = (api[c].foreign \/ f)
      BY <1>2 DEF Object
    <3>4. ~o.foreign
      BY <1>2, <3>3 DEF Reliable
    <3>5. api' = [api EXCEPT ![c] = Collected(o)] /\ Exists(api[c])
      BY <3>1 DEF DeleteResource, Store
    <3>6. Collected(o) = IF api[c].own THEN o ELSE Absent
      BY <3>3, <3>4 DEF Collected
    <3>7. QED
      BY <1>2, <3>3, <3>4, <3>5, <3>6 DEF ServesStore, Stays, Goes
  <2>4. QED
    BY <1>1, <2>1, <2>2, <2>3
<1>4. QED
  BY <1>2, <1>3, ServesStill, ControlledStays DEF Serves, Afresh

\* There is no other finalizer to end.
LEMMA FinalizeServes ==
  ASSUME Custody, NEW c \in Resources, Finalize(c)
  PROVE  FALSE
  BY DEF Custody, Guarded, Copies, Finalize, RemoveForeignFinalizer

\* The watch, the resync, the timers and the start of a reconcile.
LEMMA KubeStepServes ==
  ASSUME Inv, Custody, NEW c \in Resources,
         \/ CacheSyncs(c) \/ Resyncs(c) \/ Fires(c)
         \/ GetNotFound(c) \/ GetInstance(c) \/ GetError(c)
  PROVE  Serves /\ Controlled'
<1>1. UNCHANGED <<api, iam>>
  BY DEF CacheSyncs, Resyncs, Fires, CacheSync, Resync, TimerFires,
         GetNotFound, GetInstance, GetError
<1>2. CASE UNCHANGED worker
  BY <1>1, <1>2, ServesStill, ControlledStays DEF worker, Serves, ServesStore, Afresh
<1>3. CASE GetInstance(c)
  <2>1. /\ pc = "idle" /\ key' = c /\ inst' = cache[c] /\ fresh' = current[c]
        /\ pc' \in {"init", "check"} /\ made' = made
    BY <1>3 DEF GetInstance
  <2>2. made = 0 /\ (current[c] => cache[c] = api[c])
    BY <2>1 DEF Inv, Ownership
  <2>3. Controlled'
    BY <1>1, <2>1, <2>2 DEF Controlled, Syncing, Making
  <2>4. ServesWorker
    <3>1. key' # key
      BY <2>1, ReconcilerAssumption DEF Custody, Controlled
    <3>2. QED
      BY <2>1, <2>2, <3>1 DEF ServesWorker
  <2>5. QED
    BY <1>1, <2>3, <2>4 DEF Serves, ServesStore, ServesIam
<1>4. QED
  BY <1>2, <1>3 DEF CacheSyncs, Resyncs, Fires, GetNotFound, GetError

\* A reconcile ends that leaves nothing it made.
LEMMA ReturnServes ==
  ASSUME Inv, pc # "idle", NEW r, Return(r),
         \/ made = 0 \/ ~iam'[made].live
         \/ api'[key].uid = inst.uid /\ api'[key].status.id = made
  PROVE  ServesWorker /\ Controlled'
<1>1. key' # key
  BY Busy, ReconcilerAssumption DEF Inv, Return
<1>2. QED
  BY <1>1, ControlledIdle DEF Return, ServesWorker

\* What Reconcile can rely on at a label it goes to.
LEMMA GotoControlled ==
  ASSUME Inv, Custody, Keeps, NEW label, Goto(label), pc \notin {"idle", "compensate"},
         label \notin {"idle", "dropFinalizer"},
         label \in {"clearStatus", "removeFinalizer"} => inst.deleting,
         label \in {"clearStatus", "removeFinalizer", "clearId"} =>
             inst.status.id = 0 \/ ~iam'[inst.status.id].live,
         label \in Syncing \cup {"addFinalizer"} => ~inst.deleting,
         label \in Syncing => inst.own,
         label = "create" => inst.status.id = 0,
         made # 0 => label \in Making \/ ~iam'[made].live,
         fresh => api'[key].deleting = api[key].deleting,
         fresh /\ label # "compensate" => api'[key].status.id = api[key].status.id
  PROVE  ServesWorker /\ Controlled'
<1>1. label \in {"clearStatus", "removeFinalizer", "clearId"} => Gone(inst.status.id)'
  BY DEF Gone, Goto
<1>2. made # 0 => label \in Making \/ Gone(made)'
  BY DEF Gone, Goto
<1>3. Controlled'
  BY <1>1, <1>2 DEF Goto, Custody, Controlled
<1>4. QED
  BY <1>3 DEF Goto, ServesWorker

\* What was made and is not at hand is gone.
LEMMA MadeGone ==
  ASSUME Inv, Custody, Keeps, pc \notin Making, made # 0
  PROVE  ~iam'[made].live
  BY HeldIds DEF Inv, Custody, Controlled, Gone, Keeps

\* No write leaves an entity behind, if what it stores stays, or may go.
LEMMA StoreServes ==
  ASSUME Inv, Custody, pc # "idle", NEW o, Accepted(o) \/ Refused(o),
         fresh =>
            \/ /\ o.uid = api[key].uid /\ ~o.foreign
               /\ api[key].own \/ o.deleting => o.own
               /\ o.status.id # api[key].status.id => Gone(api[key].status.id)
            \/ o = Absent /\ inst.deleting /\ Gone(api[key].status.id)
  PROVE  ServesStore
<1>1. key \in Resources /\ api \in [Resources -> Object]
  BY Busy DEF Inv, TypeOK, KubeTypeOK
<1>2. CASE api' = [api EXCEPT ![key] = o] /\ fresh
  <2>1. Exists(api[key])
    BY <1>2 DEF Inv, Ownership, Same, Exists
  <2>2. Stays(key) \/ Goes(key)
    BY <1>1, <1>2, <2>1 DEF Stays, Goes
  <2>3. QED
    BY <1>1, <1>2, <2>2 DEF ServesStore
<1>3. CASE api' = api
  BY <1>3 DEF ServesStore
<1>4. QED
  BY <1>2, <1>3 DEF Accepted, Refused, Store

\* The worker's copy of the current version tells what is stored.
LEMMA FreshKey ==
  ASSUME Inv, Custody, fresh
  PROVE  /\ key \in Resources /\ api[key].uid = inst.uid /\ api[key].own = inst.own
         /\ api[key].deleting = inst.deleting /\ ~api[key].foreign
         /\ api[key].deleting => api[key].own
         /\ pc # "compensate" => api[key].status.id = inst.status.id
  BY Busy DEF Inv, Ownership, Same, Custody, Controlled, Guarded, Copies

\* A write of the status that forgets no entity there is.
LEMMA StatusServes ==
  ASSUME Inv, Custody, pc \notin {"idle", "compensate"}, NEW s,
         Accepted(StatusUpdated(s)) \/ Refused(StatusUpdated(s)),
         s.id = inst.status.id \/ Gone(inst.status.id)
  PROVE  ServesStore
  BY StoreServes, FreshKey, StatusUpdatedParts DEF Inv

\* A write of the rest that leaves the finalizer, or sets it.
LEMMA UpdateServes ==
  ASSUME Inv, Custody, pc # "idle", NEW s,
         Accepted(Updated(s, TRUE)) \/ Refused(Updated(s, TRUE))
  PROVE  /\ ServesStore
         /\ fresh => /\ Updated(s, TRUE).uid = api[key].uid
                     /\ Updated(s, TRUE).deleting = api[key].deleting
                     /\ Updated(s, TRUE).own
                     /\ Updated(s, TRUE).status = api[key].status
<1>1. ASSUME fresh
      PROVE  /\ Updated(s, TRUE).uid = api[key].uid
             /\ Updated(s, TRUE).deleting = api[key].deleting
             /\ Updated(s, TRUE).own
             /\ Updated(s, TRUE).foreign = api[key].foreign
             /\ Updated(s, TRUE).status = api[key].status
  <2>1. api[key] \in Object
    BY <1>1, FreshKey DEF Inv, TypeOK, KubeTypeOK
  <2>2. QED
    BY <2>1 DEF Updated, Collected, Object
<1>2. ServesStore
  BY <1>1, StoreServes, FreshKey
<1>3. QED
  BY <1>1, <1>2

\* The writes of the status that end a reconcile, or begin one,
LEMMA StatusStepsServe ==
  ASSUME Inv, Custody, SetPending \/ ReportFailed \/ ClearId
  PROVE  Serves /\ Controlled'
<1>1. /\ pc \in {"init", "reportFailed", "clearId"} /\ Frame /\ IamUnchanged /\ Keeps
      /\ made # 0 => ~iam'[made].live
  <2>1. pc \in {"init", "reportFailed", "clearId"} /\ Frame /\ IamUnchanged /\ Keeps
    BY SameKeeps DEF SetPending, ReportFailed, ClearId
  <2>2. pc \in {"init", "reportFailed", "clearId"} => pc \notin Making
    BY DEF Making
  <2>3. QED
    BY <2>1, <2>2, MadeGone
<1>2. ServesIam
  BY <1>1 DEF ServesIam, IamUnchanged
<1>3. CASE SetPending
  <2> DEFINE pending == [inst.status EXCEPT !.state = "Pending"]
  <2>1. pending.id = inst.status.id /\ inst \in Object
    BY <1>1, Busy DEF Inv, TypeOK, WorkerTypeOK, Status
  <2>2. ServesStore
    BY <1>1, <1>3, <2>1, StatusServes DEF SetPending
  <2>3. CASE Return(TRUE)
    BY <1>1, <1>2, <2>2, <2>3, ReturnServes DEF Serves
  <2>4. CASE /\ Accepted(StatusUpdated(pending))
             /\ inst' = [inst EXCEPT !.status = pending]
             /\ pc' = "check"
             /\ UNCHANGED <<key, fresh, held, etagOk, made, timers>>
    <3>1. /\ inst'.status.id = inst.status.id /\ inst'.uid = inst.uid
          /\ inst'.own = inst.own /\ inst'.deleting = inst.deleting
          /\ inst'.foreign = inst.foreign
      BY <2>1, <2>4 DEF Object
    <3>2. fresh => /\ api'[key].deleting = inst.deleting
                   /\ api'[key].status.id = inst.status.id
      BY <1>1, <2>1, <2>4, FreshKey, StatusUpdatedParts
         DEF Accepted, Store, Inv, TypeOK, KubeTypeOK
    <3>3. Controlled'
      BY <1>1, <2>4, <3>1, <3>2 DEF Controlled, Custody, Gone, Syncing, Making
    <3>4. ServesWorker
      BY <2>4, <3>1 DEF ServesWorker
    <3>5. QED
      BY <1>2, <2>2, <3>3, <3>4 DEF Serves
  <2>5. QED
    BY <1>3, <2>3, <2>4 DEF SetPending
<1>4. CASE ReportFailed \/ ClearId
  <2>1. PICK s : /\ Accepted(StatusUpdated(s)) \/ Refused(StatusUpdated(s))
                 /\ s.id = inst.status.id \/ Gone(inst.status.id)
    <3>1. CASE ReportFailed
      <4>1. [inst.status EXCEPT !.state = "Failed"].id = inst.status.id
        BY <1>1, Busy DEF Inv, Status
      <4>2. QED
        BY <3>1, <4>1 DEF ReportFailed
    <3>2. CASE ClearId
      BY <3>2 DEF ClearId, Custody, Controlled
    <3>3. QED
      BY <1>4, <3>1, <3>2
  <2>2. ServesStore
    BY <1>1, <2>1, StatusServes
  <2>3. ServesWorker /\ Controlled'
    BY <1>1, <1>4, ReturnServes DEF ReportFailed, ClearId
  <2>4. QED
    BY <1>2, <2>2, <2>3 DEF Serves
<1>5. QED
  BY <1>3, <1>4

\* of the finalizer,
LEMMA AddFinalizerServes ==
  ASSUME Inv, Custody, NEW s, AddFinalizer(s)
  PROVE  Serves /\ Controlled'
<1>1. /\ pc = "addFinalizer" /\ Frame /\ IamUnchanged /\ Keeps /\ ~inst.deleting
      /\ made # 0 => ~iam'[made].live
  BY SameKeeps, MadeGone DEF AddFinalizer, Making, Custody, Controlled
<1>2. ServesIam
  BY <1>1 DEF ServesIam, IamUnchanged
<1>3. ServesStore
  BY <1>1, UpdateServes DEF AddFinalizer
<1>4. CASE Return(TRUE)
  BY <1>1, <1>2, <1>3, <1>4, ReturnServes DEF Serves
<1>5. CASE /\ Accepted(Updated(s, TRUE))
           /\ inst' = [inst EXCEPT !.own = TRUE]
           /\ pc' = "sync"
           /\ UNCHANGED <<key, fresh, held, etagOk, made, timers>>
  <2>1. /\ inst'.status = inst.status /\ inst'.uid = inst.uid /\ inst'.own
        /\ inst'.deleting = inst.deleting /\ inst'.foreign = inst.foreign
    BY <1>5 DEF Inv, TypeOK, WorkerTypeOK, Object
  <2>2. fresh /\ api'[key] = Updated(s, TRUE)
    BY <1>5, FreshKey DEF Accepted, Store, Inv, TypeOK, KubeTypeOK
  <2>3. /\ api'[key].uid = inst.uid /\ api'[key].own
        /\ api'[key].deleting = inst.deleting
        /\ api'[key].status.id = inst.status.id
    BY <1>1, <1>5, <2>2, UpdateServes, FreshKey
  <2>4. ServesWorker
    BY <1>5, <2>1, <2>3 DEF ServesWorker
  <2>5. Controlled'
    BY <1>1, <1>5, <2>1, <2>3 DEF Controlled, Custody, Gone, Syncing
  <2>6. QED
    BY <1>2, <1>3, <2>4, <2>5 DEF Serves
<1>6. QED
  BY <1>1, <1>4, <1>5 DEF AddFinalizer

\* of the deletion,
LEMMA ClearStatusServes ==
  ASSUME Inv, Custody, NEW s, ClearStatus(s)
  PROVE  Serves /\ Controlled'
<1>1. /\ pc = "clearStatus" /\ Frame /\ IamUnchanged /\ Keeps /\ inst.deleting
      /\ made # 0 => ~iam'[made].live
      /\ Gone(inst.status.id)
  BY SameKeeps, MadeGone DEF ClearStatus, Making, Custody, Controlled
<1>2. inst.own = TRUE
  BY <1>1, Busy DEF Inv, Custody, Guarded, Copies
<1>3. ServesStore /\ ServesIam
  BY <1>1, <1>2, UpdateServes DEF ClearStatus, ServesIam, IamUnchanged
<1>4. CASE Return(TRUE)
  BY <1>1, <1>3, <1>4, ReturnServes DEF Serves
<1>5. CASE Accepted(Updated(s, TRUE)) /\ Goto("removeFinalizer")
  <2>1. api'[key] = Updated(s, TRUE) /\ fresh
    BY <1>5, FreshKey DEF Accepted, Store, Inv, TypeOK, KubeTypeOK
  <2>2. /\ api'[key].deleting = api[key].deleting
        /\ api'[key].status.id = api[key].status.id
    BY <1>1, <1>5, <2>1, UpdateServes
  <2>3. inst.status.id = 0 \/ ~iam'[inst.status.id].live
    BY <1>1 DEF Gone, IamUnchanged
  <2>4. ServesWorker /\ Controlled'
    <3>1. "removeFinalizer" \notin Syncing \cup Making
      BY DEF Syncing, Making
    <3>2. QED
      BY <1>1, <1>5, <2>2, <2>3, <3>1, GotoControlled
  <2>5. QED
    BY <1>3, <2>4 DEF Serves
<1>6. QED
  BY <1>2, <1>4, <1>5 DEF ClearStatus

\* and of its end.
LEMMA RemoveFinalizerServes ==
  ASSUME Inv, Custody, NEW s, RemoveFinalizer(s)
  PROVE  Serves /\ Controlled'
<1>1. /\ pc = "removeFinalizer" /\ Frame /\ IamUnchanged /\ Keeps /\ inst.deleting
      /\ made # 0 => ~iam'[made].live
      /\ Gone(inst.status.id)
  BY SameKeeps, MadeGone DEF RemoveFinalizer, Making, Custody, Controlled
<1>2. fresh => Updated(s, FALSE) = Absent
  <2>1. SUFFICES ASSUME fresh PROVE Updated(s, FALSE) = Absent
    OBVIOUS
  <2>2. api[key] \in Object /\ api[key].deleting /\ ~api[key].foreign
    BY <1>1, <2>1, FreshKey DEF Inv, TypeOK, KubeTypeOK
  <2>3. QED
    BY <2>2 DEF Updated, Collected, Object
<1>3. ServesStore /\ ServesIam
  BY <1>1, <1>2, StoreServes, FreshKey DEF RemoveFinalizer, ServesIam, IamUnchanged
<1>4. ServesWorker /\ Controlled'
  BY <1>1, ReturnServes DEF RemoveFinalizer
<1>5. QED
  BY <1>3, <1>4 DEF Serves

\* The checks that come first; a spec is well-formed.
LEMMA ChecksServe ==
  ASSUME Reliable, Inv, Custody, NEW wellFormed, NEW ready, pc = "check" => wellFormed,
         Malformed(wellFormed) \/ GetAccountInfo(ready)
  PROVE  Serves /\ Controlled'
<1>1. /\ pc = "check" /\ Keeps /\ ApiUnchanged /\ IamUnchanged
      /\ made # 0 => ~iam'[made].live
      /\ inst.deleting => inst.own
      /\ GetAccountInfo(ready)
  <2>1. pc = "check" /\ Keeps /\ ApiUnchanged /\ IamUnchanged /\ GetAccountInfo(ready)
    BY SameKeeps DEF Malformed, GetAccountInfo
  <2>2. "check" \notin Making
    BY DEF Making
  <2>3. QED
    BY <2>1, <2>2, MadeGone, Busy DEF Inv, Custody, Guarded, Copies
<1>2. Goto(AfterAccount(inst))
  <2>1. ~Fault("account")
    BY DEF Reliable, Fault
  <2>2. QED
    BY <1>1, <2>1 DEF GetAccountInfo
<1>3. /\ AfterAccount(inst) \in {"addFinalizer", "teardown", "removeFinalizer", "sync"}
      /\ AfterAccount(inst) = "addFinalizer" => ~inst.deleting
      /\ AfterAccount(inst) = "removeFinalizer" => inst.deleting /\ inst.status.id = 0
      /\ AfterAccount(inst) = "sync" => ~inst.deleting /\ inst.own
  BY <1>1 DEF AfterAccount
<1>4. ServesWorker /\ Controlled'
  <2>1. {"addFinalizer", "teardown", "removeFinalizer"} \cap Syncing = {}
    BY DEF Syncing
  <2>2. api'[key] = api[key]
    BY <1>1 DEF ApiUnchanged
  <2>3. QED
    BY <1>1, <1>2, <1>3, <2>1, <2>2, GotoControlled
<1>5. QED
  BY <1>1, <1>4 DEF Serves, ServesStore, ServesIam, ApiUnchanged, IamUnchanged

\* The deletions of the entity.
LEMMA DeleteStepsServe ==
  ASSUME Reliable, Inv, Incarnations, Custody, DeleteEntity \/ Compensate
  PROVE  Serves /\ Controlled'
<1>1. /\ pc \in {"teardown", "compensate"} /\ Keeps /\ ApiUnchanged
      /\ iam \in [Ids -> Entity]
  BY DeletedKeeps, SameKeeps DEF DeleteEntity, Compensate, Inv, TypeOK, IamTypeOK
<1>2. ServesStore /\ ServesIam
  BY <1>1 DEF ServesStore, ServesIam, ApiUnchanged, Keeps
<1>3. CASE DeleteEntity
  <2>1. made # 0 => ~iam'[made].live
    BY <1>1, <1>3, MadeGone DEF DeleteEntity, Making
  <2>2. CASE Return(TRUE)
    BY <1>1, <1>2, <2>1, <2>2, ReturnServes DEF Serves
  <2>3. CASE iam' = Deleted(inst.status.id) /\ Goto("clearStatus")
    <3>1. inst.deleting /\ pc = "teardown"
      BY <1>3 DEF DeleteEntity, Incarnations
    <3>2. inst.status.id = 0 \/ ~iam'[inst.status.id].live
      BY <1>1, <2>3, HeldIds DEF Deleted, NoEntity, Inv
    <3>3. "clearStatus" \notin Syncing \cup Making /\ api'[key] = api[key]
      BY <1>1 DEF Syncing, Making, ApiUnchanged
    <3>4. ServesWorker /\ Controlled'
      BY <1>1, <2>1, <2>3, <3>1, <3>2, <3>3, GotoControlled
    <3>5. QED
      BY <1>2, <3>4 DEF Serves
  <2>4. QED
    BY <1>3, <2>2, <2>3 DEF DeleteEntity
<1>4. CASE Compensate
  <2>1. iam' = Deleted(made)
    BY <1>4 DEF Compensate, Reliable, Fault
  <2>2. made = 0 \/ ~iam'[made].live
    BY <1>1, <2>1, HeldIds DEF Deleted, NoEntity, Inv
  <2>3. QED
    BY <1>1, <1>2, <1>4, <2>2, ReturnServes DEF Serves, Compensate
<1>5. QED
  BY <1>3, <1>4

\* All the steps that controllers share.
LEMMA CommonServes ==
  ASSUME Reliable, Inv, Incarnations, Custody, NEW wellFormed, NEW ready, NEW s,
         pc = "check" => wellFormed, CommonStep(wellFormed, ready, s)
  PROVE  Serves /\ Controlled'
<1>1. ~DropFinalizer(s)
  BY DEF DropFinalizer, Custody, Controlled
<1>2. QED
  BY <1>1, ChecksServe, DeleteStepsServe, StatusStepsServe, AddFinalizerServes,
     ClearStatusServes, RemoveFinalizerServes DEF CommonStep

\* A step that goes on and writes nothing, nor makes or loses an entity that is
\* not held.
LEMMA OnServes ==
  ASSUME Inv, Custody, ApiUnchanged, Keeps, NEW label, Goto(label),
         pc \in Syncing \ {"compensate"},
         label \in Syncing \cup {"reportFailed"},
         label = "clearId" => ~iam'[inst.status.id].live,
         label = "create" => inst.status.id = 0,
         pc \in Making => label \in Making \/ made = 0 \/ ~iam'[made].live
  PROVE  Serves /\ Controlled'
<1>1. /\ pc # "idle" /\ inst.own /\ ~inst.deleting /\ api'[key] = api[key]
      /\ {"idle", "dropFinalizer", "clearStatus", "removeFinalizer", "addFinalizer"}
            \cap (Syncing \cup {"reportFailed"}) = {}
  BY DEF Custody, Controlled, Syncing, ApiUnchanged
<1>2. made # 0 => label \in Making \/ ~iam'[made].live
  BY MadeGone
<1>3. ServesWorker /\ Controlled'
  BY <1>1, <1>2, GotoControlled
<1>4. QED
  BY <1>3 DEF Serves, ServesStore, ServesIam, ApiUnchanged, Keeps

\* A reconcile that ends with nothing to do.
LEMMA NothingServes ==
  ASSUME Inv, Custody, pc \notin Making \cup {"idle"}, NothingToDo
  PROVE  Serves /\ Controlled'
<1>1. Keeps
  BY SameKeeps DEF NothingToDo
<1>2. QED
  BY <1>1, MadeGone, ReturnServes
     DEF NothingToDo, Serves, ServesStore, ServesIam, ApiUnchanged, Keeps

\* The retrieval that finds nothing,
LEMMA NotRetrievedServes ==
  ASSUME Reliable, Inv, Custody, NEW label \in Syncing \ Making, NotRetrieved(label)
  PROVE  Serves /\ Controlled'
<1>1. pc = label /\ ApiUnchanged /\ Keeps /\ Goto("clearId")
  BY SameKeeps DEF NotRetrieved, RecordedAt
<1>2. ~iam'[inst.status.id].live
  BY DEF NotRetrieved, Reliable, Fault, IamUnchanged
<1>3. "clearId" \in Syncing /\ "compensate" \in Making
  BY DEF Syncing, Making
<1>4. QED
  BY <1>1, <1>2, <1>3, OnServes

\* and the one that leads to an update,
LEMMA GoUpdateServes ==
  ASSUME Inv, Custody, pc \in Syncing \ Making, NEW def, GoUpdate(def)
  PROVE  Serves /\ Controlled'
<1>1. inst.own /\ ~inst.deleting /\ (made # 0 => Gone(made))
  BY DEF Custody, Controlled
<1>2. Controlled'
  <2>1. /\ pc' = "update" /\ pc # "compensate" /\ pc # "idle"
        /\ UNCHANGED <<key, inst, fresh, made, api, iam>>
    BY DEF GoUpdate, ApiUnchanged, IamUnchanged, Making, Syncing
  <2>2. QED
    BY <1>1, <2>1 DEF Custody, Controlled, Syncing, Making, Gone
<1>3. QED
  BY <1>2 DEF GoUpdate, Serves, ServesStore, ServesWorker, ServesIam, ApiUnchanged,
              IamUnchanged

\* which has been made,
LEMMA UpdateEntityServes ==
  ASSUME Inv, Custody, NEW def, NEW next, UpdateEntity(def, next),
         next \in Syncing \ {"clearId", "create"}
  PROVE  Serves /\ Controlled'
<1>1. /\ pc = "update" /\ ApiUnchanged /\ Keeps
      /\ Goto(next) \/ Goto("reportFailed")
  BY RedefinedKeeps, SameKeeps DEF UpdateEntity
<1>2. "update" \in Syncing \ Making /\ "compensate" \in Making
  BY DEF Syncing, Making
<1>3. QED
  BY <1>1, <1>2, OnServes

\* the record,
LEMMA RecordServes ==
  ASSUME Inv, Custody, NEW applied, Record(applied)
  PROVE  Serves /\ Controlled'
<1> DEFINE s == [state |-> "Online", spec |-> applied,
                 id |-> IF made # 0 THEN made ELSE inst.status.id]
<1>1. /\ pc = "record" /\ IamUnchanged /\ Keeps /\ inst.own /\ ~inst.deleting
      /\ made # 0 => inst.status.id = 0
  BY SameKeeps DEF Record, Custody, Controlled, Syncing
<1>2. Accepted(StatusUpdated(s)) \/ Refused(StatusUpdated(s))
  BY DEF Record, Online
<1>3. ServesStore /\ ServesIam
  BY <1>1, <1>2, StatusServes DEF Gone, ServesIam, IamUnchanged
<1>4. ASSUME Accepted(StatusUpdated(s)), made # 0
      PROVE  api'[key].uid = inst.uid /\ api'[key].status.id = made
  <2>1. api'[key] = StatusUpdated(s)
    BY <1>4, FreshKey DEF Accepted, Store, Inv, TypeOK, KubeTypeOK
  <2>2. QED
    BY <1>1, <1>4, <2>1, StatusUpdatedParts, FreshKey DEF Accepted, Inv
<1>5. CASE Return(TRUE) /\ (made = 0 \/ Accepted(StatusUpdated(s)))
  BY <1>1, <1>3, <1>4, <1>5, ReturnServes DEF Serves
<1>6. CASE Goto("compensate") /\ made # 0
  <2>1. fresh => api'[key].deleting = api[key].deleting
    <3>1. fresh => api'[key] \in {api[key], StatusUpdated(s)}
      BY <1>2, FreshKey DEF Accepted, Refused, Store, Inv, TypeOK, KubeTypeOK
    <3>2. QED
      BY <1>1, <3>1, StatusUpdatedParts DEF Inv
  <2>2. "compensate" \in Making
    BY DEF Making
  <2>3. ServesWorker /\ Controlled'
    BY <1>1, <1>6, <2>1, <2>2, GotoControlled
  <2>4. QED
    BY <1>3, <2>3 DEF Serves
<1>7. QED
  BY <1>5, <1>6 DEF Record, Online

\* and the creation.
LEMMA CreateEntityServes ==
  ASSUME Reliable, Inv, Custody, NEW def, NEW next \in Making \ {"compensate"},
         CreateEntity(def, next)
  PROVE  Serves /\ Controlled'
<1>1. pc = "create" /\ ApiUnchanged /\ Frame
  BY DEF CreateEntity
<1>2. pc \in Syncing \ Making /\ inst.own /\ ~inst.deleting /\ inst.status.id = 0
  BY <1>1 DEF Custody, Controlled, Syncing, Making
<1>3. CASE Goto("reportFailed") /\ IamUnchanged
  BY <1>1, <1>2, <1>3, SameKeeps, OnServes DEF Making
<1>4. CASE \E i \in Ids : /\ NewId(i)
                          /\ iam' = NewEntity(i, inst.uid, def)
                          /\ made' = i /\ pc' = next
                          /\ UNCHANGED <<key, inst, fresh, held, etagOk, timers, faults>>
  <2>1. PICK i \in Ids : /\ NewId(i) /\ iam' = NewEntity(i, inst.uid, def)
                         /\ made' = i /\ pc' = next /\ UNCHANGED <<key, inst, fresh>>
    BY <1>4
  <2>2. /\ \A j \in Ids \ {i} : iam'[j] = iam[j]
        /\ iam'[i].owner = inst.uid
        /\ made # i
    BY <2>1, HeldIds DEF NewEntity, NewId, Unused, Inv
  <2>3. ServesIam
    BY <1>1, <2>1, <2>2 DEF ServesIam, ApiUnchanged
  <2>4. made # 0 => ~iam'[made].live
    BY <1>2, <2>2, HeldIds DEF Custody, Controlled, Gone, Inv
  <2>5. ServesWorker /\ ServesStore
    BY <1>1, <2>1, <2>4 DEF ServesWorker, ServesStore, ApiUnchanged
  <2>6. Controlled'
    <3>1. /\ next \in Syncing /\ next \notin {"idle", "dropFinalizer", "clearStatus",
                "removeFinalizer", "clearId", "addFinalizer", "create", "compensate"}
          /\ pc # "compensate"
      BY <1>1 DEF Syncing, Making
    <3>2. QED
      BY <1>1, <1>2, <2>1, <3>1 DEF Controlled, Custody, ApiUnchanged
  <2>7. QED
    BY <2>3, <2>5, <2>6 DEF Serves
<1>5. QED
  BY <1>3, <1>4 DEF CreateEntity, Reliable, Fault

\* The environment, while the process lives,
LEMMA EnvironmentServes ==
  ASSUME Reliable, Inv, Custody, Environment
  PROVE  Serves /\ Controlled'
<1>1. ~Crash
  BY DEF Crash, Fault, Reliable
<1>2. QED
  BY <1>1, UserServes, FinalizeServes, KubeStepServes DEF Environment

\* and the console.
LEMMA ConsoleServes ==
  ASSUME Inv, Custody, NEW i \in Ids, NEW def, NEW covered,
         ConsoleCreates(i, def) \/ ConsoleChanges(i, def, covered) \/ ConsoleDeletes(i)
  PROVE  Serves /\ Controlled'
<1>1. UNCHANGED <<api, pc, key, inst, fresh, made>> /\ iam \in [Ids -> Entity]
  BY DEF ConsoleCreates, ConsoleChanges, ConsoleDeletes, Console, Inv, TypeOK, IamTypeOK
<1>2. /\ Afresh
      /\ \A j \in Ids : iam'[j].live =>
             (iam[j].live /\ iam'[j].owner = iam[j].owner) \/ iam'[j].owner = 0
  <2>1. CASE ConsoleCreates(i, def)
    BY <1>1, <2>1 DEF ConsoleCreates, NewEntity, Afresh
  <2>2. CASE ConsoleChanges(i, def, covered) \/ ConsoleDeletes(i)
    <3>1. Keeps
      <4>1. CASE ConsoleChanges(i, def, covered)
        BY <4>1, RedefinedKeeps DEF ConsoleChanges
      <4>2. CASE ConsoleDeletes(i)
        BY <4>2, DeletedKeeps DEF ConsoleDeletes
      <4>3. QED
        BY <2>2, <4>1, <4>2
    <3>2. QED
      BY <3>1 DEF Keeps, Afresh
  <2>3. QED
    BY <2>1, <2>2
<1>3. ServesWorker /\ ServesIam
  BY <1>1, <1>2, ServesStill
<1>4. Controlled'
  BY <1>1, <1>2, ControlledStays
<1>5. QED
  BY <1>1, <1>3, <1>4 DEF Serves, ServesStore

\* Nothing happens.
LEMMA StutterServes ==
  ASSUME Inv, Custody, UNCHANGED vars
  PROVE  Serves /\ Controlled'
<1>1. UNCHANGED <<api, pc, key, inst, fresh, made, iam>>
  BY DEF vars, kube, worker
<1>2. Serves
  BY <1>1, ServesStill DEF Serves, ServesStore
<1>3. QED
  BY <1>1, <1>2, ControlledStays DEF Afresh

\* Initially there is nothing to have custody of.
LEMMA InitCustody == Init => Custody
<1> SUFFICES ASSUME Init PROVE Custody
  OBVIOUS
<1>1. Guarded
  BY ReconcilerAssumption DEF Init, KubeInit, Guarded, Copies, Absent
<1>2. Controlled
  BY DEF Init, Controlled, Syncing
<1>3. QED
  BY <1>1, <1>2 DEF Init, Custody, EntitiesHaveTheirResource, OneEntityPerResource, NoEntity

-----------------------------------------------------------------------------
(* The promise of ManagedEntity *)

StoredLive(u) == \E c \in Resources : api[c].uid = u /\ ~api[c].deleting

StoredDeleting(u) == \E c \in Resources : api[c].uid = u /\ api[c].deleting

\* An incarnation is in one phase at a time.
Phases ==
    \A u \in 1..MaxCreations :
        /\ u > created => Phase(u) = "none"
        /\ StoredLive(u) => Phase(u) = "declared"
        /\ StoredDeleting(u) => Phase(u) = "terminating"
        /\ ~(u > created) /\ ~StoredLive(u) /\ ~StoredDeleting(u) => Phase(u) = "gone"

\* It is, as uids are not shared.
LEMMA PhasesHold == TypeOK /\ Incarnations => Phases
<1> SUFFICES ASSUME TypeOK, Incarnations, NEW u \in 1..MaxCreations
             PROVE  /\ u > created => Phase(u) = "none"
                    /\ StoredLive(u) => Phase(u) = "declared"
                    /\ StoredDeleting(u) => Phase(u) = "terminating"
                    /\ ~(u > created) /\ ~StoredLive(u) /\ ~StoredDeleting(u) => Phase(u) = "gone"
  BY DEF Phases
<1>1. u # 0 /\ u \in Nat /\ created \in Nat
  BY KubeAssumption DEF TypeOK, KubeTypeOK
<1>2. \A c \in Resources : api[c] \in Copies(c) /\ api[c].uid <= created
  BY DEF Copies, Incarnations
<1>3. u > created => ~StoredLive(u) /\ ~StoredDeleting(u)
  BY <1>1, <1>2 DEF StoredLive, StoredDeleting
<1>4. ~(StoredLive(u) /\ StoredDeleting(u))
  BY <1>1, <1>2 DEF StoredLive, StoredDeleting, Incarnations, Exists
<1>5. QED
  BY <1>3, <1>4, Zenon DEF Phase, StoredLive, StoredDeleting

\* The phases of one incarnation and of the others in a step.
LEMMA PhaseSteps ==
  ASSUME Phases, Phases', NEW u \in 1..MaxCreations
  PROVE  /\ (u > created)' /\ u > created => Phase(u)' = Phase(u)
         /\ StoredLive(u)' /\ StoredLive(u) => Phase(u)' = Phase(u)
         /\ StoredDeleting(u)' /\ StoredDeleting(u) => Phase(u)' = Phase(u)
         /\ (/\ ~(u > created)' /\ ~StoredLive(u)' /\ ~StoredDeleting(u)'
             /\ ~(u > created) /\ ~StoredLive(u) /\ ~StoredDeleting(u)) => Phase(u)' = Phase(u)
  BY DEF Phases

\* Nothing stored changes, and no phase.
LEMMA PhasesSame ==
  ASSUME Phases, Phases', UNCHANGED <<api, created>>
  PROVE  \A u \in 1..MaxCreations : Phase(u)' = Phase(u)
<1> SUFFICES ASSUME NEW u \in 1..MaxCreations PROVE Phase(u)' = Phase(u)
  OBVIOUS
<1>1. /\ StoredLive(u)' <=> StoredLive(u)
      /\ StoredDeleting(u)' <=> StoredDeleting(u)
      /\ (u > created)' <=> u > created
  BY DEF StoredLive, StoredDeleting
<1>2. QED
  BY <1>1, PhaseSteps, Zenon

\* The entities made for each resource are the same.
LEMMA MadeForSame ==
  ASSUME TypeOK, TypeOK', SameEntities
  PROVE  \A u : MadeFor(u)' = MadeFor(u)
<1>1. iam \in [Ids -> Entity] /\ iam' \in [Ids -> Entity]
  BY DEF TypeOK, IamTypeOK
<1>2. QED
  BY <1>1 DEF SameEntities, MadeFor

\* Steps of the store: one resource is declared,
LEMMA DeclareStep ==
  ASSUME NEW u \in 1..MaxCreations, Phase(u) = "none", Phase(u)' = "declared",
         \A v \in 1..MaxCreations \ {u} : Phase(v)' = Phase(v),
         \A v \in 1..MaxCreations : MadeFor(v)' = MadeFor(v)
  PROVE  Promise!Next
<1>1. Promise!Declare(u)
  BY DEF Promise!Declare
<1>2. QED
  BY <1>1 DEF Promise!Next

\* marked for deletion,
LEMMA TerminateStep ==
  ASSUME NEW u \in 1..MaxCreations, Phase(u) = "declared", Phase(u)' = "terminating",
         \A v \in 1..MaxCreations \ {u} : Phase(v)' = Phase(v),
         \A v \in 1..MaxCreations : MadeFor(v)' = MadeFor(v)
  PROVE  Promise!Next
<1>1. Promise!Terminate(u)
  BY DEF Promise!Terminate
<1>2. QED
  BY <1>1 DEF Promise!Next

\* or released.
LEMMA ReleaseStep ==
  ASSUME NEW u \in 1..MaxCreations, Phase(u) \in {"declared", "terminating"},
         Phase(u)' = "gone", MadeFor(u) = {},
         \A v \in 1..MaxCreations \ {u} : Phase(v)' = Phase(v),
         \A v \in 1..MaxCreations : MadeFor(v)' = MadeFor(v)
  PROVE  Promise!Next
<1>1. Promise!Release(u)
  BY DEF Promise!Release
<1>2. QED
  BY <1>1 DEF Promise!Next

\* Steps of IAM: an entity is made,
LEMMA MakeStep ==
  ASSUME NEW u \in 1..MaxCreations, NEW i \in Ids,
         Phase(u) \in {"declared", "terminating"},
         \A v \in 1..MaxCreations : i \notin MadeFor(v),
         MadeFor(u)' = MadeFor(u) \cup {i},
         \A v \in 1..MaxCreations \ {u} : MadeFor(v)' = MadeFor(v),
         \A v \in 1..MaxCreations : Phase(v)' = Phase(v)
  PROVE  Promise!Next
<1>1. Promise!Make(u)
  BY DEF Promise!Make
<1>2. QED
  BY <1>1 DEF Promise!Next

\* or unmade.
LEMMA UnmakeStep ==
  ASSUME NEW u \in 1..MaxCreations, NEW i \in MadeFor(u),
         MadeFor(u)' = MadeFor(u) \ {i},
         \A v \in 1..MaxCreations \ {u} : MadeFor(v)' = MadeFor(v),
         \A v \in 1..MaxCreations : Phase(v)' = Phase(v)
  PROVE  Promise!Next
<1>1. Promise!Unmake(u)
  BY DEF Promise!Unmake
<1>2. QED
  BY <1>1 DEF Promise!Next

\* Nothing changes for any incarnation.
LEMMA PromiseStutter ==
  ASSUME \A v \in 1..MaxCreations : Phase(v)' = Phase(v),
         \A v \in 1..MaxCreations : MadeFor(v)' = MadeFor(v)
  PROVE  UNCHANGED Promise!vars
  BY DEF Promise!vars

\* A resource that goes has no entity left.
LEMMA NoneLeft ==
  ASSUME Inv, Incarnations, Custody, NEW c \in Resources, Exists(api[c]), Goes(c)
  PROVE  MadeFor(api[c].uid) = {}
<1> SUFFICES ASSUME NEW i \in Ids, iam[i].live, iam[i].owner = api[c].uid PROVE FALSE
  BY DEF MadeFor
<1>1. iam[i].owner # 0 /\ i # 0
  BY HeldIds DEF Exists, Inv
<1>2. PICK d \in Resources : api[d].uid = iam[i].owner /\ api[d].own
  BY <1>1 DEF Custody, EntitiesHaveTheirResource
<1>3. d = c
  BY <1>2 DEF Incarnations, Copies
<1>4. fresh /\ inst.deleting /\ Gone(api[c].status.id)
  BY <1>2, <1>3 DEF Goes
<1>5. i # made
  BY <1>1, <1>4 DEF Custody, Controlled, Gone, Making, Syncing
<1>6. PICK e \in Resources : api[e].uid = iam[i].owner /\ api[e].status.id = i
  BY <1>1, <1>5 DEF Custody, OneEntityPerResource
<1>7. e = c
  BY <1>6 DEF Incarnations, Copies
<1>8. QED
  BY <1>1, <1>4, <1>6, <1>7 DEF Gone

\* A step of IAM is one of the promise.
LEMMA IamPromise ==
  ASSUME Inv, Inv', Incarnations, Incarnations', Custody, Phases, Phases',
         UNCHANGED <<api, created>>, NEW i \in Ids,
         Loses(i) \/ Gains(i, 0) \/ (pc = "create" /\ Gains(i, inst.uid))
  PROVE  Promise!Next \/ UNCHANGED Promise!vars
<1>1. \A u \in 1..MaxCreations : Phase(u)' = Phase(u)
  BY PhasesSame
<1>2. /\ iam \in [Ids -> Entity] /\ iam' \in [Ids -> Entity] /\ MaxCreations \in Nat
      /\ created \in Nat /\ created <= MaxCreations
      /\ iam[i].owner \in Nat /\ iam[i].owner <= created
  BY KubeAssumption DEF Inv, TypeOK, IamTypeOK, KubeTypeOK, Incarnations, Entity
<1>3. CASE Loses(i) /\ iam[i].owner = 0
  <2>1. \A u \in 1..MaxCreations : MadeFor(u)' = MadeFor(u)
    BY <1>2, <1>3 DEF Loses, MadeFor
  <2>2. QED
    BY <1>1, <2>1, PromiseStutter
<1>4. CASE Loses(i) /\ iam[i].owner # 0
  <2>1. PICK u \in 1..MaxCreations : u = iam[i].owner
    BY <1>2, <1>4
  <2>2. /\ i \in MadeFor(u)
        /\ MadeFor(u)' = MadeFor(u) \ {i}
        /\ \A v \in 1..MaxCreations \ {u} : MadeFor(v)' = MadeFor(v)
    BY <1>4, <2>1 DEF Loses, MadeFor
  <2>3. QED
    BY <1>1, <2>2, UnmakeStep
<1>5. CASE Gains(i, 0)
  <2>1. \A u \in 1..MaxCreations : MadeFor(u)' = MadeFor(u)
    BY <1>2, <1>5 DEF Gains, NewId, Unused, MadeFor
  <2>2. QED
    BY <1>1, <2>1, PromiseStutter
<1>6. CASE pc = "create" /\ Gains(i, inst.uid)
  <2>1. key \in Resources /\ inst.own /\ ~inst.deleting
    BY <1>6, Busy DEF Inv, Custody, Controlled, Syncing
  <2>2. api[key].uid = inst.uid /\ Exists(api[key]) /\ api[key].uid <= created
    BY <2>1 DEF Custody, Guarded, Copies, Incarnations
  <2>3. PICK u \in 1..MaxCreations : u = inst.uid
    BY <1>2, <1>6, <2>2, Busy DEF Exists, Inv
  <2>4. Phase(u) \in {"declared", "terminating"}
    <3>1. StoredLive(u) \/ StoredDeleting(u)
      BY <2>1, <2>2, <2>3 DEF StoredLive, StoredDeleting
    <3>2. QED
      BY <3>1 DEF Phases
  <2>5. /\ \A v \in 1..MaxCreations : i \notin MadeFor(v)
        /\ MadeFor(u)' = MadeFor(u) \cup {i}
        /\ \A v \in 1..MaxCreations \ {u} : MadeFor(v)' = MadeFor(v)
    BY <1>2, <1>6, <2>3 DEF Gains, NewId, Unused, MadeFor
  <2>6. QED
    BY <1>1, <2>4, <2>5, MakeStep
<1>7. QED
  BY <1>3, <1>4, <1>5, <1>6

\* A step of the store is one of the promise.
LEMMA StorePromise ==
  ASSUME Inv, Inv', Incarnations, Incarnations', Custody, Phases, Phases', NEW G,
         Moves(G), Serves, SameEntities
  PROVE  Promise!Next \/ UNCHANGED Promise!vars
<1>1. \A u \in 1..MaxCreations : MadeFor(u)' = MadeFor(u)
  BY MadeForSame DEF Inv
<1>2. /\ MaxCreations \in Nat /\ created \in Nat /\ created' \in 0..MaxCreations
      /\ api \in [Resources -> Object] /\ api' \in [Resources -> Object]
      /\ \A d \in Resources : api[d].uid \in Nat /\ api[d].uid <= created
  BY KubeAssumption, CopyType DEF Inv, TypeOK, KubeTypeOK, Incarnations, Copies
<1>3. CASE api' = api
  <2>1. created' = created
    <3>1. created' = created + 1 => \A d \in Resources : api[d].uid # created'
      BY <1>2
    <3>2. QED
      BY <1>3, <3>1 DEF Moves, StoreMoves
  <2>2. QED
    BY <1>1, <1>3, <2>1, PhasesSame, PromiseStutter
<1>4. CASE api' # api
  <2>1. PICK c \in Resources : api'[c] # api[c]
    BY <1>2, <1>4
  <2>2. \A d \in Resources \ {c} : api'[d] = api[d]
    BY <2>1 DEF Moves, StoreMoves
  <2>3. created' = created \/ (created' = created + 1 /\ api'[c].uid = created')
    <3>1. created' = created + 1 => \A d \in Resources : api[d].uid # created'
      BY <1>2
    <3>2. QED
      BY <2>2, <3>1 DEF Moves, StoreMoves
  <2>4. CASE Comes(c) /\ ~Exists(api'[c])
    <3>1. api'[c].uid = 0 /\ api[c].uid = 0
      BY <2>4 DEF Comes, Exists
    <3>2. created' = created
      BY <1>2, <2>3, <3>1
    <3>3. ASSUME NEW u \in 1..MaxCreations PROVE Phase(u)' = Phase(u)
      <4>1. u # 0
        OBVIOUS
      <4>2. /\ StoredLive(u)' <=> StoredLive(u)
            /\ StoredDeleting(u)' <=> StoredDeleting(u)
            /\ (u > created)' <=> u > created
        BY <2>2, <3>1, <3>2, <4>1 DEF StoredLive, StoredDeleting
      <4>3. QED
        BY <4>2, PhaseSteps, Zenon
    <3>4. QED
      BY <1>1, <3>3, PromiseStutter
  <2>5. CASE Comes(c) /\ Exists(api'[c])
    <3>1. PICK u \in 1..MaxCreations : u = api'[c].uid /\ u = created + 1 /\ u = created'
      <4>1. api'[c].uid = created + 1 /\ created' = created + 1
        BY <2>5, <2>1 DEF Comes, Exists, Moves, StoreMoves, Absent
      <4>2. QED
        BY <1>2, <4>1
    <3>2. Phase(u) = "none" /\ Phase(u)' = "declared"
      <4>1. u > created
        BY <1>2, <3>1
      <4>2. StoredLive(u)'
        BY <2>5, <3>1 DEF StoredLive, Comes
      <4>3. QED
        BY <4>1, <4>2 DEF Phases
    <3>3. ASSUME NEW v \in 1..MaxCreations \ {u} PROVE Phase(v)' = Phase(v)
      <4>1. v # 0 /\ v # api'[c].uid /\ v # api[c].uid
        BY <2>5, <3>1 DEF Comes, Exists
      <4>2. /\ StoredLive(v)' <=> StoredLive(v)
            /\ StoredDeleting(v)' <=> StoredDeleting(v)
        BY <2>2, <4>1 DEF StoredLive, StoredDeleting
      <4>3. (v > created)' <=> v > created
        BY <1>2, <3>1
      <4>4. QED
        BY <4>2, <4>3, PhaseSteps, Zenon
    <3>4. QED
      BY <1>1, <3>2, <3>3, DeclareStep
  <2>6. CASE Exists(api[c]) /\ created' = created /\ (Stays(c) \/ Goes(c))
    <3>1. PICK u \in 1..MaxCreations : u = api[c].uid
      BY <1>2, <2>6 DEF Exists
    <3>2. ASSUME NEW v \in 1..MaxCreations \ {u} PROVE Phase(v)' = Phase(v)
      <4>1. v # 0 /\ v # api'[c].uid /\ v # api[c].uid
        BY <2>6, <3>1 DEF Stays, Goes, Absent
      <4>2. /\ StoredLive(v)' <=> StoredLive(v)
            /\ StoredDeleting(v)' <=> StoredDeleting(v)
            /\ (v > created)' <=> v > created
        BY <2>2, <2>6, <4>1 DEF StoredLive, StoredDeleting
      <4>3. QED
        BY <4>2, PhaseSteps, Zenon
    <3>3. CASE Goes(c)
      <4>1. StoredLive(u) \/ StoredDeleting(u)
        BY <3>1 DEF StoredLive, StoredDeleting
      <4>2. Phase(u) \in {"declared", "terminating"}
        BY <4>1 DEF Phases
      <4>3. \A d \in Resources : api'[d].uid # u
        BY <2>2, <3>1, <3>3 DEF Goes, Absent, Incarnations, Copies, Exists
      <4>4. ~(u > created)' /\ ~StoredLive(u)' /\ ~StoredDeleting(u)'
        BY <1>2, <2>6, <3>1, <4>3 DEF StoredLive, StoredDeleting
      <4>5. Phase(u)' = "gone"
        BY <4>4 DEF Phases
      <4>6. MadeFor(u) = {}
        BY <2>6, <3>1, <3>3, NoneLeft
      <4>7. QED
        BY <1>1, <3>2, <4>2, <4>5, <4>6, ReleaseStep
    <3>4. CASE Stays(c) /\ ~api[c].deleting /\ api'[c].deleting
      <4>1. StoredLive(u) /\ StoredDeleting(u)'
        BY <3>1, <3>4 DEF Stays, StoredLive, StoredDeleting
      <4>2. Phase(u) = "declared" /\ Phase(u)' = "terminating"
        BY <4>1 DEF Phases
      <4>3. QED
        BY <1>1, <3>2, <4>2, TerminateStep
    <3>5. CASE Stays(c) /\ (api[c].deleting <=> api'[c].deleting)
      <4>1. \/ StoredLive(u) /\ StoredLive(u)'
            \/ StoredDeleting(u) /\ StoredDeleting(u)'
        BY <3>1, <3>5 DEF Stays, StoredLive, StoredDeleting
      <4>2. Phase(u)' = Phase(u)
        BY <4>1, PhaseSteps, Zenon
      <4>3. QED
        BY <1>1, <3>2, <4>2, PromiseStutter
    <3>6. CASE Stays(c) /\ api[c].deleting /\ ~api'[c].deleting
      <4>1. api'[c].uid # created + 1 /\ api'[c] # Absent
        BY <1>2, <2>6, <3>6 DEF Stays, Absent, Exists
      <4>2. QED
        BY <3>6, <4>1 DEF Moves, StoreMoves
    <3>7. QED
      BY <2>6, <3>3, <3>4, <3>5, <3>6
  <2>7. CASE ~Exists(api[c]) /\ Goes(c)
    <3>1. Comes(c) /\ ~Exists(api'[c])
      BY <2>7 DEF Goes, Comes, Absent, Exists
    <3>2. QED
      BY <2>4, <3>1
  <2>8. CASE Exists(api[c]) /\ created' # created /\ (Stays(c) \/ Goes(c))
    <3>1. api'[c].uid = created + 1
      BY <2>3, <2>8
    <3>2. QED
      BY <1>2, <2>8, <3>1 DEF Stays, Goes, Absent
  <2>9. QED
    BY <2>1, <2>4, <2>5, <2>6, <2>7, <2>8 DEF Serves, ServesStore, Stays
<1>5. QED
  BY <1>3, <1>4

\* Every step is one of the promise, or none.
LEMMA PromiseStep ==
  ASSUME Inv, Inv', Incarnations, Incarnations', Custody, NEW G, Moves(G), Serves,
         EntityMoves
  PROVE  [Promise!Next]_(Promise!vars)
<1>1. Phases /\ Phases'
  BY PhasesHold, PTL DEF Inv
<1>2. QED
  BY <1>1, StorePromise, IamPromise DEF EntityMoves

\* The promise begins with nothing.
LEMMA InitPromise == Init => Promise!Init
<1> SUFFICES ASSUME Init PROVE Promise!Init
  OBVIOUS
<1>1. Phases
  BY InitIncarnations, PhasesHold, InitType
<1>2. ASSUME NEW u \in 1..MaxCreations PROVE Phase(u) = "none" /\ MadeFor(u) = {}
  <2>1. u > created
    BY DEF Init, KubeInit
  <2>2. QED
    BY <1>1, <2>1 DEF Phases, Init, MadeFor, NoEntity
<1>3. QED
  BY <1>2 DEF Promise!Init
=============================================================================
