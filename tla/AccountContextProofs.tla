------------------------ MODULE AccountContextProofs ------------------------
(***************************************************************************)
(* With at most one change during a lookup, the account context was in     *)
(* effect if the installation config map could be read, and a lookup that  *)
(* fails had a reason.  The reads of one object (its own place, the        *)
(* management namespace, the place there) amount to one view, and so do,   *)
(* unless the management namespace changed, those of the two objects.      *)
(***************************************************************************)
EXTENDS AccountContext, TLAPS, FiniteSetTheorems

\* The hypothesis of the theorems.  Two changes can tear a lookup apart.
OneChange == MaxChanges <= 1

Objects == {"secret", "config"}

TypeOK ==
    /\ view \in View
    /\ pc \in {"idle", "own", "install", "managed", "account", "found", "failed"}
    /\ what \in Objects
    /\ at \in Managements \cup {Default}
    /\ got \in [secret : Keys \cup {Missing}, config : Orgs \cup {Missing}]
    /\ failures \subseteq Faults

\* The same but for at most one place.
Near(f, g) == \E p \in Places : \A q \in Places \ {p} : f[q] = g[q]

\* At most one object of the cluster differs.
OneDiffers(u, v) ==
    \/ u.secret = v.secret /\ u.config = v.config
    \/ u.install = v.install /\ u.config = v.config /\ Near(u.secret, v.secret)
    \/ u.install = v.install /\ u.secret = v.secret /\ Near(u.config, v.config)

\* The cluster changed once at most since the lookup began.
ChangedOnce ==
    /\ past \subseteq View /\ IsFiniteSet(past)
    /\ pc = "idle" => past = {}
    /\ pc # "idle" => view \in past
    /\ \A u, v \in past : OneDiffers(u, v)

\* Where an object is looked for that is not in Own.
ManagementOf(v) == IF v.install = Missing THEN Default ELSE v.install

\* What has been read of an object so far is what one view says, if it could be
\* read that there is no installation config map.
ReadOfOneView ==
    "install" \notin failures =>
        /\ pc = "install" => \E u \in past : u[what][Own] = Missing
        /\ pc = "managed" => \E u \in past : u[what][Own] = Missing /\ at = ManagementOf(u)
        /\ what = "config" => \E u \in past : got.secret = InEffect(u, "secret")
        /\ pc \in {"account", "found"} =>
             what = "config" /\ \E u \in past : got.config = InEffect(u, "config")

\* Why a lookup failed in which no call did.
Reason ==
    pc = "failed" /\ failures = {} =>
        \/ \E u \in past : InEffect(u, what) = Missing
        \/ /\ what = "config" /\ got.config \notin Sees[got.secret]
           /\ \E u \in past : got.config = InEffect(u, "config")

\* A lookup starts afresh.
IdleOK == pc = "idle" => what = "secret" /\ failures = {}

Inv == TypeOK /\ IdleOK /\ ChangedOnce /\ ReadOfOneView /\ Reason

-----------------------------------------------------------------------------
(* Types *)

\* Objects are looked for at places.
LEMMA ManagedPlace ==
  /\ Own \in Places
  /\ \A m \in Managements \cup {Default} : Place(m) \in Places
BY DEF Places

\* What a view says of an object at a place.
LEMMA ViewType ==
  ASSUME NEW v \in View
  PROVE  /\ v.install \in Managements \cup {Missing}
         /\ v["secret"] = v.secret /\ v["config"] = v.config
         /\ \A p \in Places : /\ v.secret[p] \in Keys \cup {Missing}
                              /\ v.config[p] \in Orgs \cup {Missing}
BY DEF View

\* The state before the first lookup has the types.
LEMMA InitType == Init => TypeOK
BY DEF Init, TypeOK, Objects, Nothing

\* To take what was found keeps the types.
LEMMA TakeType ==
  ASSUME TypeOK, NEW p \in Places, Take(p), UNCHANGED view
  PROVE  TypeOK'
<1>1. CASE what = "secret"
  <2>1. got' \in [secret : Keys \cup {Missing}, config : Orgs \cup {Missing}]
    BY <1>1, ViewType DEF TypeOK, Take
  <2>2. QED
    BY <1>1, <2>1 DEF TypeOK, Take, Objects
<1>2. CASE what = "config"
  <2>1. got' \in [secret : Keys \cup {Missing}, config : Orgs \cup {Missing}]
    BY <1>2, ViewType DEF TypeOK, Take
  <2>2. QED
    BY <1>2, <2>1 DEF TypeOK, Take, Objects
<1>3. QED
  BY <1>1, <1>2 DEF TypeOK, Objects

\* What an administrator does is a change of one object.
LEMMA AdministratorType ==
  ASSUME TypeOK, Administrator
  PROVE  view' \in View /\ OneDiffers(view, view') /\ OneDiffers(view', view)
<1>1. CASE \E p \in Places, k \in Keys \cup {Missing} : view' = [view EXCEPT !.secret[p] = k]
  <2>1. PICK p \in Places : \E k \in Keys \cup {Missing} : view' = [view EXCEPT !.secret[p] = k]
    BY <1>1
  <2>2. PICK k \in Keys \cup {Missing} : view' = [view EXCEPT !.secret[p] = k]
    BY <2>1
  <2>3. view' \in View /\ view'.install = view.install /\ view'.config = view.config
    BY <2>2 DEF TypeOK, View
  <2>4. \A q \in Places \ {p} : view'.secret[q] = view.secret[q]
    BY <2>2 DEF TypeOK, View
  <2>5. QED
    BY <2>3, <2>4 DEF OneDiffers, Near
<1>2. CASE \E p \in Places, o \in Orgs \cup {Missing} : view' = [view EXCEPT !.config[p] = o]
  <2>1. PICK p \in Places : \E o \in Orgs \cup {Missing} : view' = [view EXCEPT !.config[p] = o]
    BY <1>2
  <2>2. PICK o \in Orgs \cup {Missing} : view' = [view EXCEPT !.config[p] = o]
    BY <2>1
  <2>3. view' \in View /\ view'.install = view.install /\ view'.secret = view.secret
    BY <2>2 DEF TypeOK, View
  <2>4. \A q \in Places \ {p} : view'.config[q] = view.config[q]
    BY <2>2 DEF TypeOK, View
  <2>5. QED
    BY <2>3, <2>4 DEF OneDiffers, Near
<1>3. CASE \E m \in Managements \cup {Missing} : view' = [view EXCEPT !.install = m]
  BY <1>3 DEF TypeOK, View, OneDiffers
<1>4. QED
  BY <1>1, <1>2, <1>3 DEF Administrator

\* Every step keeps the types.
LEMMA TypeStep ==
  ASSUME TypeOK, [Next]_vars
  PROVE  TypeOK'
<1>1. CASE Call
  BY <1>1 DEF TypeOK, Call
<1>2. CASE GetOwn
  <2>1. CASE Take(Own)
    BY <1>2, <2>1, TakeType, ManagedPlace DEF GetOwn
  <2>2. CASE pc' = "install" /\ UNCHANGED <<view, what, at, got, failures>>
    BY <2>2 DEF TypeOK
  <2>3. CASE Fault("own") /\ Fail
    BY <1>2, <2>3 DEF GetOwn, TypeOK, Fault, Fail
  <2>4. QED
    BY <1>2, <2>1, <2>2, <2>3 DEF GetOwn
<1>3. CASE getDefaultNamespace
  <2>1. failures' \subseteq Faults
    BY <1>3 DEF TypeOK, getDefaultNamespace, Fault
  <2>2. at' \in Managements \cup {Default}
    BY <1>3, ViewType DEF TypeOK, getDefaultNamespace
  <2>3. QED
    BY <1>3, <2>1, <2>2 DEF TypeOK, getDefaultNamespace
<1>4. CASE GetManaged
  <2>1. CASE Take(Place(at))
    BY <1>4, <2>1, TakeType, ManagedPlace DEF GetManaged, TypeOK
  <2>2. CASE Fail /\ (UNCHANGED failures \/ Fault("managed"))
    BY <1>4, <2>2 DEF GetManaged, TypeOK, Fault, Fail
  <2>3. QED
    BY <1>4, <2>1, <2>2 DEF GetManaged
<1>5. CASE FindAccount
  BY <1>5 DEF FindAccount, TypeOK, Fault, Fail
<1>6. CASE Return
  BY <1>6 DEF Return, TypeOK, Nothing, Objects
<1>7. CASE Administrator
  BY <1>7, AdministratorType DEF Administrator, TypeOK, lookup
<1>8. CASE UNCHANGED vars
  BY <1>8 DEF TypeOK, vars, lookup
<1>9. QED
  BY <1>1, <1>2, <1>3, <1>4, <1>5, <1>6, <1>7, <1>8 DEF Next, Lookup

-----------------------------------------------------------------------------
(* Views *)

\* Of one object, views of a lookup differ at one place or in the installation.
LEMMA ObjectDiffers ==
  ASSUME NEW u \in View, NEW v \in View, OneDiffers(u, v), NEW w \in Objects
  PROVE  u[w] = v[w] \/ (u.install = v.install /\ Near(u[w], v[w]))
<1>1. u["secret"] = u.secret /\ u["config"] = u.config
  BY ViewType
<1>2. v["secret"] = v.secret /\ v["config"] = v.config
  BY ViewType
<1>3. QED
  BY <1>1, <1>2 DEF OneDiffers, Objects

\* The object is not in Own, and the installation config map is read: a view
\* says both.
LEMMA InstalledView ==
  ASSUME TypeOK, ChangedOnce, pc # "idle",
         NEW u \in past, u[what][Own] = Missing
  PROVE  \E x \in past : x[what][Own] = Missing /\ x.install = view.install
<1>1. view \in past /\ OneDiffers(u, view) /\ u \in View /\ view \in View
  BY DEF ChangedOnce
<1>2. CASE u[what] = view[what]
  BY <1>1, <1>2
<1>3. CASE u.install = view.install
  BY <1>3
<1>4. QED
  BY <1>1, <1>2, <1>3, ObjectDiffers DEF TypeOK

\* What is in effect by a view.
LEMMA EffectIs ==
  ASSUME NEW v \in View, NEW w \in Objects
  PROVE  InEffect(v, w) = IF v[w][Own] # Missing THEN v[w][Own] ELSE v[w][Place(ManagementOf(v))]
BY DEF InEffect, ManagementOf

\* The object is read in the management namespace: with the reads before, that
\* is what is in effect by one view.  In namespace "default" that is the place
\* that was read before.
LEMMA ManagedView ==
  ASSUME TypeOK, ChangedOnce, pc # "idle",
         NEW u \in past, u[what][Own] = Missing, at = ManagementOf(u)
  PROVE  \E x \in past : InEffect(x, what) = view[what][Place(at)]
<1> DEFINE read == view[what][Place(at)]
<1>1. view \in past /\ view \in View /\ u \in View /\ what \in Objects
  BY DEF ChangedOnce, TypeOK
<1>2. Place(at) \in Places /\ Own \in Places
  BY ManagedPlace DEF TypeOK
<1>3. InEffect(u, what) = u[what][Place(at)]
  BY <1>1, EffectIs
<1>4. CASE u[what][Place(at)] = read
  BY <1>3, <1>4
<1>5. CASE Place(at) = Own
  <2>1. CASE read = Missing
    BY <1>3, <1>5, <2>1
  <2>2. CASE read # Missing
    BY <1>1, <1>5, <2>2, EffectIs
  <2>3. QED
    BY <2>1, <2>2
<1>6. CASE Place(at) # Own /\ u[what][Place(at)] # read
  <2>1. u[what] = view[what] \/ (u.install = view.install /\ Near(u[what], view[what]))
    BY <1>1, ObjectDiffers DEF ChangedOnce
  <2>2. u.install = view.install /\ Near(u[what], view[what])
    BY <1>6, <2>1
  <2>3. PICK p \in Places : \A q \in Places \ {p} : u[what][q] = view[what][q]
    BY <2>2 DEF Near
  <2>4. view[what][Own] = Missing
    BY <1>2, <1>6, <2>3
  <2>5. ManagementOf(view) = at
    BY <2>2 DEF ManagementOf
  <2>6. InEffect(view, what) = read
    BY <1>1, <2>4, <2>5, EffectIs
  <2>7. QED
    BY <1>1, <2>6
<1>7. QED
  BY <1>4, <1>5, <1>6

\* Two views of a lookup agree on the secrets or on the config maps.
LEMMA ViewsAgree ==
  ASSUME ChangedOnce, NEW v \in past, NEW w \in past
  PROVE  v.secret = w.secret \/ v.config = w.config
BY DEF ChangedOnce, OneDiffers

\* What was in effect by two views was in effect by one, unless the management
\* namespace changed between.
LEMMA TogetherInEffect ==
  ASSUME ChangedOnce, NEW v \in past, NEW w \in past
  PROVE  \E a, b \in past : /\ Together(a, b)
                             /\ InEffect(a, "secret") = InEffect(v, "secret")
                             /\ InEffect(b, "config") = InEffect(w, "config")
<1>1. CASE v.install # w.install
  BY <1>1 DEF Together
<1>2. CASE v.install = w.install
  <2>1. v \in View /\ w \in View
    BY DEF ChangedOnce
  <2>2. v.secret = w.secret \/ v.config = w.config
    BY ViewsAgree
  <2>3. CASE v.secret = w.secret
    <3>1. InEffect(w, "secret") = InEffect(v, "secret")
      BY <1>2, <2>1, <2>3, ViewType DEF InEffect
    <3>2. QED
      BY <3>1 DEF Together
  <2>4. CASE v.config = w.config
    <3>1. InEffect(w, "config") = InEffect(v, "config")
      BY <1>2, <2>1, <2>4, ViewType DEF InEffect
    <3>2. QED
      BY <3>1 DEF Together
  <2>5. QED
    BY <2>2, <2>3, <2>4
<1>3. QED
  BY <1>1, <1>2

-----------------------------------------------------------------------------
(* The inductive invariant *)

\* It holds before the first lookup.
LEMMA InvInit == Init => Inv
<1> SUFFICES ASSUME Init PROVE Inv
  OBVIOUS
<1>1. ChangedOnce
  BY FS_EmptySet DEF Init, ChangedOnce
<1>2. QED
  BY <1>1, InitType DEF Inv, IdleOK, ReadOfOneView, Reason, Init

\* A change is the only one since the lookup began.
LEMMA AdministratorChangesOnce ==
  ASSUME OneChange, Inv, Administrator
  PROVE  ChangedOnce' /\ IdleOK' /\ past \subseteq past'
<1>1. view' \in View /\ OneDiffers(view, view') /\ OneDiffers(view', view)
  BY AdministratorType DEF Inv
<1>2. pc' = pc /\ what' = what /\ failures' = failures
  BY DEF Administrator, lookup
<1>3. CASE pc = "idle"
  BY <1>2, <1>3 DEF Administrator, Inv, IdleOK, ChangedOnce
<1>4. CASE pc # "idle"
  <2>1. past = {view}
    <3>1. Cardinality(past) <= 1 /\ IsFiniteSet(past) /\ view \in past
      <4>1. IsFiniteSet(past) /\ view \in past
        BY <1>4 DEF Inv, ChangedOnce
      <4>2. Cardinality(past) \in Nat /\ Cardinality(past) <= MaxChanges
        BY <4>1, FS_CardinalityType DEF Administrator
      <4>3. QED
        BY <4>1, <4>2, AccountAssumption DEF OneChange
    <3>2. {view} \in SUBSET past /\ Cardinality({view}) = 1
      BY <3>1, FS_Singleton
    <3>3. Cardinality({view}) <= Cardinality(past) /\ Cardinality(past) \in Nat
      BY <3>1, <3>2, FS_Subset, FS_CardinalityType
    <3>4. Cardinality(past) = Cardinality({view})
      BY <3>1, <3>2, <3>3
    <3>5. QED
      BY <3>1, <3>2, <3>4, FS_Subset
  <2>2. past' = {view, view'}
    BY <1>4, <2>1 DEF Administrator
  <2>3. OneDiffers(view, view) /\ OneDiffers(view', view')
    BY DEF OneDiffers
  <2>4. IsFiniteSet(past') /\ past' \subseteq View
    <3>1. IsFiniteSet({view} \cup {view'})
      BY FS_Singleton, FS_AddElement
    <3>2. QED
      BY <1>1, <2>2, <3>1 DEF Inv, TypeOK
  <2>5. QED
    BY <1>1, <1>2, <1>4, <2>1, <2>2, <2>3, <2>4 DEF ChangedOnce, Inv, IdleOK
<1>5. QED
  BY <1>3, <1>4

\* A change takes nothing back of what was read before.
LEMMA AdministratorKeeps ==
  ASSUME OneChange, Inv, Administrator
  PROVE  Inv'
<1>1. ChangedOnce' /\ IdleOK' /\ past \subseteq past'
  BY AdministratorChangesOnce
<1>2. UNCHANGED <<pc, what, at, got, failures>>
  BY DEF Administrator, lookup
<1>3. TypeOK'
  BY TypeStep DEF Inv, Next
<1>4. ReadOfOneView'
  <2> SUFFICES ASSUME "install" \notin failures PROVE ReadOfOneView'
    BY <1>2 DEF ReadOfOneView
  <2>1. pc = "install" => \E u \in past' : u[what][Own] = Missing
    BY <1>1 DEF Inv, ReadOfOneView
  <2>2. pc = "managed" => \E u \in past' : u[what][Own] = Missing /\ at = ManagementOf(u)
    BY <1>1 DEF Inv, ReadOfOneView
  <2>3. what = "config" => \E u \in past' : got.secret = InEffect(u, "secret")
    BY <1>1 DEF Inv, ReadOfOneView
  <2>4. pc \in {"account", "found"} =>
          what = "config" /\ \E u \in past' : got.config = InEffect(u, "config")
    BY <1>1 DEF Inv, ReadOfOneView
  <2>5. QED
    BY <1>2, <2>1, <2>2, <2>3, <2>4 DEF ReadOfOneView, InEffect, ManagementOf
<1>5. Reason'
  <2>1. pc = "failed" /\ failures = {} =>
          \/ \E u \in past' : InEffect(u, what) = Missing
          \/ /\ what = "config" /\ got.config \notin Sees[got.secret]
             /\ \E u \in past' : got.config = InEffect(u, "config")
    BY <1>1 DEF Inv, Reason
  <2>2. QED
    BY <1>2, <2>1 DEF Reason, InEffect
<1>6. QED
  BY <1>1, <1>3, <1>4, <1>5 DEF Inv

\* A step of the lookup leaves the views as they are.
LEMMA LookupKeeps ==
  ASSUME Inv, UNCHANGED <<view, past>>, pc # "idle", pc' # "idle"
  PROVE  ChangedOnce' /\ IdleOK'
BY DEF Inv, ChangedOnce, IdleOK

\* What is taken is in effect by a view.
LEMMA TakeKeeps ==
  ASSUME Inv, NEW p \in Places, Take(p), UNCHANGED <<view, past>>, pc \in {"own", "managed"},
         "install" \notin failures => \E x \in past : InEffect(x, what) = view[what][p]
  PROVE  Inv'
<1>1. TypeOK'
  BY TakeType DEF Inv
<1>2. what' = "config" /\ failures' = failures /\ pc' \in {"own", "account"}
  BY DEF Take
<1>3. ChangedOnce' /\ IdleOK'
  BY <1>2, LookupKeeps
<1>4. Reason'
  BY <1>2 DEF Reason
<1>5. CASE "install" \in failures
  BY <1>1, <1>2, <1>3, <1>4, <1>5 DEF Inv, ReadOfOneView
<1>6. CASE "install" \notin failures /\ what = "secret"
  <2>1. got'.secret = view["secret"][p] /\ pc' = "own"
    BY <1>6 DEF Take, Inv, TypeOK
  <2>2. \E u \in past : got'.secret = InEffect(u, "secret")
    BY <1>6, <2>1
  <2>3. ReadOfOneView'
    BY <1>2, <2>1, <2>2 DEF ReadOfOneView, InEffect
  <2>4. QED
    BY <1>1, <1>3, <1>4, <2>3 DEF Inv
<1>7. CASE "install" \notin failures /\ what = "config"
  <2>1. got'.config = view["config"][p] /\ got'.secret = got.secret /\ pc' = "account"
    BY <1>7 DEF Take, Inv, TypeOK
  <2>2. \E u \in past : got'.config = InEffect(u, "config")
    BY <1>7, <2>1
  <2>3. \E u \in past : got'.secret = InEffect(u, "secret")
    BY <1>7, <2>1 DEF Inv, ReadOfOneView
  <2>4. ReadOfOneView'
    BY <1>2, <2>1, <2>2, <2>3 DEF ReadOfOneView, InEffect
  <2>5. QED
    BY <1>1, <1>3, <1>4, <2>4 DEF Inv
<1>8. QED
  BY <1>5, <1>6, <1>7 DEF Inv, TypeOK, Objects

\* A read that fails, or finds nothing in either place, ends the lookup.
LEMMA FailKeeps ==
  ASSUME Inv, Fail, UNCHANGED <<view, past>>, pc # "idle",
         \/ \E read \in {"own", "managed", "account"} : Fault(read)
         \/ /\ UNCHANGED failures
            /\ failures = {} =>
                 \/ \E u \in past : InEffect(u, what) = Missing
                 \/ /\ what = "config" /\ got.config \notin Sees[got.secret]
                    /\ \E u \in past : got.config = InEffect(u, "config")
  PROVE  Inv'
<1>1. pc' = "failed" /\ UNCHANGED <<what, at, got>>
  BY DEF Fail
<1>2. failures \subseteq failures' /\ failures' \subseteq failures \cup Faults
  BY DEF Fault
<1>3. TypeOK'
  BY <1>1, <1>2 DEF Inv, TypeOK
<1>4. ChangedOnce' /\ IdleOK'
  BY <1>1, LookupKeeps
<1>5. ReadOfOneView'
  BY <1>1, <1>2 DEF Inv, ReadOfOneView, InEffect
<1>6. Reason'
  <2>1. CASE failures' # {}
    BY <2>1 DEF Reason
  <2>2. CASE failures' = {}
    <3>1. UNCHANGED failures /\ failures = {}
      BY <2>2 DEF Fault
    <3>2. \/ \E u \in past : InEffect(u, what) = Missing
          \/ /\ what = "config" /\ got.config \notin Sees[got.secret]
             /\ \E u \in past : got.config = InEffect(u, "config")
      BY <2>2, <3>1 DEF Fault
    <3>3. QED
      BY <1>1, <3>2 DEF Reason, InEffect
  <2>3. QED
    BY <2>1, <2>2
<1>7. QED
  BY <1>3, <1>4, <1>5, <1>6 DEF Inv

\* The lookup begins.
LEMMA CallKeeps ==
  ASSUME Inv, Call
  PROVE  Inv'
<1>1. TypeOK'
  BY TypeStep DEF Inv, Next, Lookup
<1>2. pc' = "own" /\ what' = "secret" /\ past' = {view} /\ view' = view
  BY DEF Call, Inv, IdleOK
<1>3. ChangedOnce'
  <2>1. OneDiffers(view, view) /\ IsFiniteSet({view}) /\ view \in View
    BY FS_Singleton DEF OneDiffers, Inv, TypeOK
  <2>2. QED
    BY <1>2, <2>1 DEF ChangedOnce
<1>4. QED
  BY <1>1, <1>2, <1>3 DEF Inv, IdleOK, ReadOfOneView, Reason

\* The object is read in the resource's namespace.
LEMMA GetOwnKeeps ==
  ASSUME Inv, GetOwn
  PROVE  Inv'
<1>1. pc = "own" /\ UNCHANGED <<view, past>> /\ view \in past
  BY DEF GetOwn, Inv, ChangedOnce
<1>2. CASE Take(Own)
  <2>1. InEffect(view, what) = view[what][Own]
    BY <1>2 DEF Take, InEffect
  <2>2. QED
    BY <1>1, <1>2, <2>1, TakeKeeps, ManagedPlace
<1>3. CASE /\ view[what][Own] = Missing /\ pc' = "install"
           /\ UNCHANGED <<what, at, got, failures>>
  <2>1. TypeOK'
    BY TypeStep DEF Inv, Next, Lookup
  <2>2. ChangedOnce' /\ IdleOK'
    BY <1>1, <1>3, LookupKeeps
  <2>3. "install" \notin failures =>
          (what = "config" => \E u \in past : got.secret = InEffect(u, "secret"))
    BY DEF Inv, ReadOfOneView
  <2>4. \E u \in past' : u[what][Own] = Missing
    BY <1>1, <1>3
  <2>5. ReadOfOneView' /\ Reason'
    BY <1>1, <1>3, <2>3, <2>4 DEF ReadOfOneView, Reason, InEffect
  <2>6. QED
    BY <2>1, <2>2, <2>5 DEF Inv
<1>4. CASE Fault("own") /\ Fail
  BY <1>1, <1>4, FailKeeps
<1>5. QED
  BY <1>2, <1>3, <1>4 DEF GetOwn

\* The management namespace is read, or taken to be "default".
LEMMA getDefaultNamespaceKeeps ==
  ASSUME Inv, getDefaultNamespace
  PROVE  Inv'
<1>1. pc = "install" /\ pc' = "managed" /\ UNCHANGED <<what, got, view, past>>
  BY DEF getDefaultNamespace
<1>2. TypeOK'
  BY TypeStep DEF Inv, Next, Lookup
<1>3. ChangedOnce' /\ IdleOK'
  BY <1>1, LookupKeeps
<1>4. Reason'
  BY <1>1 DEF Reason
<1>5. CASE "install" \in failures'
  BY <1>2, <1>3, <1>4, <1>5 DEF Inv, ReadOfOneView
<1>6. CASE "install" \notin failures'
  <2>1. UNCHANGED failures /\ at' = IF view.install = Missing THEN Default ELSE view.install
    BY <1>6 DEF getDefaultNamespace, Fault
  <2>2. PICK u \in past : u[what][Own] = Missing
    BY <1>1, <1>6, <2>1 DEF Inv, ReadOfOneView
  <2>3. PICK x \in past : x[what][Own] = Missing /\ x.install = view.install
    BY <1>1, <2>2, InstalledView DEF Inv
  <2>4. at' = ManagementOf(x)
    BY <2>1, <2>3 DEF ManagementOf
  <2>5. what = "config" => \E v \in past : got.secret = InEffect(v, "secret")
    BY <1>6, <2>1 DEF Inv, ReadOfOneView
  <2>6. ReadOfOneView'
    BY <1>1, <2>3, <2>4, <2>5 DEF ReadOfOneView, InEffect, ManagementOf
  <2>7. QED
    BY <1>2, <1>3, <1>4, <2>6 DEF Inv
<1>7. QED
  BY <1>5, <1>6

\* The object is read in the management namespace.
LEMMA GetManagedKeeps ==
  ASSUME Inv, GetManaged
  PROVE  Inv'
<1>1. pc = "managed" /\ UNCHANGED <<view, past>>
  BY DEF GetManaged
<1>2. "install" \notin failures => \E x \in past : InEffect(x, what) = view[what][Place(at)]
  <2> SUFFICES ASSUME "install" \notin failures
               PROVE  \E x \in past : InEffect(x, what) = view[what][Place(at)]
    OBVIOUS
  <2>1. PICK u \in past : u[what][Own] = Missing /\ at = ManagementOf(u)
    BY <1>1 DEF Inv, ReadOfOneView
  <2>2. QED
    BY <1>1, <2>1, ManagedView DEF Inv
<1>3. CASE Take(Place(at))
  BY <1>1, <1>2, <1>3, TakeKeeps, ManagedPlace DEF Inv, TypeOK
<1>4. CASE view[what][Place(at)] = Missing /\ Fail /\ UNCHANGED failures
  BY <1>1, <1>2, <1>4, FailKeeps
<1>5. CASE Fault("managed") /\ Fail
  BY <1>1, <1>5, FailKeeps
<1>6. QED
  BY <1>3, <1>4, <1>5 DEF GetManaged

\* The account is looked for.
LEMMA FindAccountKeeps ==
  ASSUME Inv, FindAccount
  PROVE  Inv'
<1>1. pc = "account" /\ UNCHANGED <<view, past>>
  BY DEF FindAccount
<1>2. "install" \notin failures =>
        what = "config" /\ \E u \in past : got.config = InEffect(u, "config")
  BY <1>1 DEF Inv, ReadOfOneView
<1>3. CASE pc' = "found" /\ UNCHANGED <<what, at, got, failures>>
  <2>1. TypeOK'
    BY TypeStep DEF Inv, Next, Lookup
  <2>2. ChangedOnce' /\ IdleOK'
    BY <1>1, <1>3, LookupKeeps
  <2>3. ReadOfOneView' /\ Reason'
    BY <1>1, <1>2, <1>3 DEF Inv, ReadOfOneView, Reason, InEffect
  <2>4. QED
    BY <2>1, <2>2, <2>3 DEF Inv
<1>4. CASE got.config \notin Sees[got.secret] /\ Fail /\ UNCHANGED failures
  BY <1>1, <1>2, <1>4, FailKeeps
<1>5. CASE Fault("account") /\ Fail
  BY <1>1, <1>5, FailKeeps
<1>6. QED
  BY <1>3, <1>4, <1>5 DEF FindAccount

\* The lookup is over.
LEMMA ReturnKeeps ==
  ASSUME Inv, Return
  PROVE  Inv'
<1>1. TypeOK'
  BY TypeStep DEF Inv, Next, Lookup
<1>2. pc' = "idle" /\ what' = "secret" /\ failures' = {} /\ past' = {}
  BY DEF Return
<1>3. QED
  BY <1>1, <1>2, FS_EmptySet DEF Inv, IdleOK, ChangedOnce, ReadOfOneView, Reason

\* Every step keeps it.
LEMMA InvStep ==
  ASSUME OneChange, Inv, [Next]_vars
  PROVE  Inv'
<1>1. CASE UNCHANGED vars
  BY <1>1 DEF vars, lookup, Inv, TypeOK, IdleOK, ChangedOnce, ReadOfOneView, Reason,
              InEffect, ManagementOf
<1>2. QED
  BY <1>1, AdministratorKeeps, CallKeeps, GetOwnKeeps, getDefaultNamespaceKeeps,
     GetManagedKeeps, FindAccountKeeps, ReturnKeeps DEF Next, Lookup

\* What a finished lookup returns is what the context was.
LEMMA InvContext ==
  ASSUME Inv
  PROVE  ContextWasInEffectIfInstallRead /\ FailsForAReason
<1>1. ASSUME NEW v \in past, NEW w \in past,
             got.secret = InEffect(v, "secret"), got.config = InEffect(w, "config")
      PROVE  \E a, b \in past : /\ Together(a, b)
                                /\ got.secret = InEffect(a, "secret")
                                /\ got.config = InEffect(b, "config")
  BY <1>1, TogetherInEffect DEF Inv
<1>2. ContextWasInEffectIfInstallRead
  <2> SUFFICES ASSUME "install" \notin failures, pc = "found"
               PROVE  \E a, b \in past : /\ Together(a, b)
                                         /\ got.secret = InEffect(a, "secret")
                                         /\ got.config = InEffect(b, "config")
    BY DEF ContextWasInEffectIfInstallRead, ContextWasInEffect
  <2>1. PICK v \in past : got.secret = InEffect(v, "secret")
    BY DEF Inv, ReadOfOneView
  <2>2. PICK w \in past : got.config = InEffect(w, "config")
    BY DEF Inv, ReadOfOneView
  <2>3. QED
    BY <1>1, <2>1, <2>2
<1>3. FailsForAReason
  <2> SUFFICES ASSUME pc = "failed", failures = {}
               PROVE  \E a, b \in past :
                        /\ Together(a, b)
                        /\ \/ InEffect(a, "secret") = Missing
                           \/ InEffect(b, "config") = Missing
                           \/ InEffect(b, "config") \notin Sees[InEffect(a, "secret")]
    BY DEF FailsForAReason
  <2>1. CASE \E u \in past : InEffect(u, what) = Missing
    <3>1. PICK u \in past : InEffect(u, what) = Missing
      BY <2>1
    <3>2. InEffect(u, "secret") = Missing \/ InEffect(u, "config") = Missing
      BY <3>1 DEF Inv, TypeOK, Objects
    <3>3. QED
      BY <3>2 DEF Together
  <2>2. CASE /\ what = "config" /\ got.config \notin Sees[got.secret]
             /\ \E u \in past : got.config = InEffect(u, "config")
    <3>1. PICK v \in past : got.secret = InEffect(v, "secret")
      BY <2>2 DEF Inv, ReadOfOneView
    <3>2. PICK w \in past : got.config = InEffect(w, "config")
      BY <2>2
    <3>3. PICK a \in past, b \in past : /\ Together(a, b)
                                        /\ got.secret = InEffect(a, "secret")
                                        /\ got.config = InEffect(b, "config")
      BY <1>1, <3>1, <3>2
    <3>4. QED
      BY <2>2, <3>3
  <2>3. QED
    BY <2>1, <2>2 DEF Inv, Reason
<1>4. QED
  BY <1>2, <1>3

-----------------------------------------------------------------------------
(* Theorems *)

\* Unless the installation config map could not be read, a resource is reconciled
\* with a key and an organization that were in effect for its namespace while they
\* were looked up, at the same moment unless the management namespace was changed
\* then: for every set of namespaces, keys and organizations, that of the resource
\* being "default", a management namespace or any other, and whichever reads fail,
\* if the administrators change at most one object during a lookup.
THEOREM ContextWasInEffectCorrect ==
  ASSUME OneChange
  PROVE  Spec => []ContextWasInEffectIfInstallRead
<1>1. Init => Inv
  BY InvInit
<1>2. Inv /\ [Next]_vars => Inv'
  BY InvStep
<1>3. Inv => ContextWasInEffectIfInstallRead
  BY InvContext
<1>4. QED
  BY <1>1, <1>2, <1>3, PTL DEF Spec

\* A lookup in which no call fails returns an error only if the account context
\* was incomplete or wrong at the time: for the same values of the constants, under
\* the same hypothesis.
THEOREM FailsForAReasonCorrect ==
  ASSUME OneChange
  PROVE  Spec => []FailsForAReason
<1>1. Init => Inv
  BY InvInit
<1>2. Inv /\ [Next]_vars => Inv'
  BY InvStep
<1>3. Inv => FailsForAReason
  BY InvContext
<1>4. QED
  BY <1>1, <1>2, <1>3, PTL DEF Spec
=============================================================================
