-------------------------- MODULE StoreReloadProofs --------------------------
(***************************************************************************)
(* Theorems about StoreReload, for every set of releases, handlers and     *)
(* clock values.                                                           *)
(***************************************************************************)
EXTENDS StoreReload, TLAPS

USE ContentStoreAssumption, StoreReloadAssumption
USE DEF ContentStoreAssumption, StoreReloadAssumption

-----------------------------------------------------------------------------
(* Types. *)

LEMMA NothingReadType == NothingRead \in Store
  BY DEF NothingRead, Store, Origin

(* What every step that is not one of the loader's own does to its state. *)
LEMMA FinishType ==
  ASSUME NEW l \in Loader, NEW step \in Steps, TypeOK, Finish(l, step)
  PROVE  /\ pc' \in [Loader -> Steps]
         /\ build' \in [Loader -> Store]
         /\ todo' \in [Loader -> SUBSET ViewFile]
  BY NothingReadType DEF Finish, TypeOK

LEMMA FailType ==
  ASSUME NEW l \in Loader, TypeOK, Fail(l)
  PROVE  TypeOK'
  <1>1. PICK step \in Steps : Finish(l, step)
    BY DEF Fail, Steps
  <1>2. UNCHANGED <<env, served>>
    BY DEF Fail
  <1> QED
    BY <1>1, <1>2, FinishType DEF TypeOK, env

(* A step of load_from_dir keeps the types. *)
LEMMA LoadType ==
  ASSUME NEW l \in Loader, TypeOK, Load(l)
  PROVE  TypeOK'
  <1>1. CASE Fail(l)
    BY <1>1, FailType
  <1>2. CASE ReadManifest(l) /\ ~Fail(l)
    <2>1. disk \in Release
      BY <1>2 DEF ReadManifest, ManifestReadable, TypeOK
    <2>2. build' \in [Loader -> Store]
      <3>1. build[l] \in Store /\ disk \in Origin
        BY <2>1 DEF TypeOK, Origin
      <3>2. [build[l] EXCEPT !.manifest = disk] \in Store
        BY <3>1 DEF Store
      <3>3. build' = [build EXCEPT ![l] = [build[l] EXCEPT !.manifest = disk]]
        BY <1>2 DEF ReadManifest
      <3> QED
        BY <3>2, <3>3 DEF TypeOK
    <2>3. pc' \in [Loader -> Steps]
      BY <1>2 DEF ReadManifest, TypeOK, Steps
    <2> QED
      BY <1>2, <2>2, <2>3 DEF ReadManifest, TypeOK, env
  <1>3. CASE ReadIndex(l) /\ ~Fail(l)
    <2>1. disk \in Release
      BY <1>3 DEF ReadIndex, TypeOK
    <2>2. build' \in [Loader -> Store]
      <3>1. build[l] \in Store /\ disk \in Origin
        BY <2>1 DEF TypeOK, Origin
      <3>2. [build[l] EXCEPT !.index = disk] \in Store
        BY <3>1 DEF Store
      <3>3. build' = [build EXCEPT ![l] = [build[l] EXCEPT !.index = disk]]
        BY <1>3 DEF ReadIndex
      <3> QED
        BY <3>2, <3>3 DEF TypeOK
    <2>3. pc' \in [Loader -> Steps]
      BY <1>3 DEF ReadIndex, TypeOK, Steps
    <2> QED
      BY <1>3, <2>2, <2>3 DEF ReadIndex, TypeOK, env
  <1>4. CASE ListViews(l) /\ ~Fail(l)
    <2>1. todo' \in [Loader -> SUBSET ViewFile]
      BY <1>4 DEF ListViews, TypeOK, Files
    <2>2. pc' \in [Loader -> Steps]
      BY <1>4 DEF ListViews, TypeOK, Steps
    <2> QED
      BY <1>4, <2>1, <2>2 DEF ListViews, TypeOK, env
  <1>5. CASE ReadView(l) /\ ~Fail(l)
    <2>1. PICK f \in todo[l] :
            /\ ViewReadable(l, f)
            /\ build' = [build EXCEPT ![l].views[f] = disk]
            /\ todo' = [todo EXCEPT ![l] = @ \ {f}]
            /\ UNCHANGED <<env, served, pc>>
      BY <1>5 DEF ReadView
    <2>2. disk \in Release /\ f \in ViewFile
      BY <2>1 DEF ViewReadable, TypeOK
    <2>3. build' \in [Loader -> Store]
      BY <2>1, <2>2 DEF TypeOK, Store, Origin
    <2>4. todo' \in [Loader -> SUBSET ViewFile]
      BY <2>1 DEF TypeOK
    <2> QED
      BY <2>1, <2>3, <2>4 DEF TypeOK, env
  <1> QED
    BY <1>1, <1>2, <1>3, <1>4, <1>5 DEF Load

LEMMA TypeInit == Init => TypeOK
  <1> SUFFICES ASSUME Init PROVE TypeOK
    OBVIOUS
  <1>1. newest \in Int
    BY DEF Init, DirContent
  <1>2. pc \in [Loader -> Steps]
    BY DEF Init, Steps
  <1> QED
    BY <1>1, <1>2, NothingReadType DEF Init, TypeOK

LEMMA TypeStep == TypeOK /\ [Next]_vars => TypeOK'
  <1> SUFFICES ASSUME TypeOK, [Next]_vars PROVE TypeOK'
    OBVIOUS
  <1>1. ASSUME NEW r \in Release, Place(r) PROVE TypeOK'
    BY <1>1 DEF Place, TypeOK, loaders, DirContent
  <1>2. CASE MoveAside
    BY <1>2 DEF MoveAside, TypeOK, loaders
  <1>3. CASE SetClock
    BY <1>3 DEF SetClock, TypeOK, loaders
  <1>4. ASSUME NEW l \in Loader, Load(l) PROVE TypeOK'
    BY <1>4, LoadType
  <1>5. CASE Start
    <2>1. Boot \in Loader /\ "idle" \in Steps
      BY DEF Loader, Steps
    <2> QED
      BY <1>5, <2>1, FinishType DEF Start, TypeOK, env
  <1>6. ASSUME NEW h \in Handler, Post(h) PROVE TypeOK'
    BY <1>6 DEF Post, TypeOK, Steps
  <1>7. ASSUME NEW h \in Handler, Swap(h) PROVE TypeOK'
    <2>1. h \in Loader /\ "idle" \in Steps
      BY DEF Loader, Steps
    <2> QED
      BY <1>7, <2>1, FinishType DEF Swap, TypeOK, env
  <1>8. ASSUME NEW h \in Handler, RejectRollback(h) PROVE TypeOK'
    BY <1>8, FailType DEF RejectRollback, Loader
  <1>9. CASE UNCHANGED vars
    BY <1>9 DEF vars, TypeOK
  <1> QED
    BY <1>1, <1>2, <1>3, <1>4, <1>5, <1>6, <1>7, <1>8, <1>9
    DEF Next, Environment, Reload, Loader

(* Every variable keeps its type in every behaviour of startup and reload. *)
THEOREM TypeCorrect == Spec => []TypeOK
  BY TypeInit, TypeStep, PTL DEF Spec

-----------------------------------------------------------------------------
(* What a loader has read, by the step it is at. *)

Reading(l) ==
  /\ pc[l] \in {"idle", "exited", "manifest"} => build[l] = NothingRead
  /\ pc[l] # "views" => Loaded(build[l]) = {}
  /\ pc[l] \in {"index", "list", "views"} => build[l].manifest \in Release
  /\ pc[l] \in {"list", "views"} => build[l].index \in Release
  /\ Validated(build[l])

ReadingInv == \A l \in Loader : Reading(l)

LEMMA NothingReadValidated == Validated(NothingRead) /\ Loaded(NothingRead) = {}
  BY DEF Validated, NothingRead, Loaded

(* A step changes one loader only; the others keep what they have read. *)
LEMMA OthersKeepReading ==
  ASSUME NEW l \in Loader, TypeOK, ReadingInv, Reading(l)',
         \A k \in Loader \ {l} : pc'[k] = pc[k] /\ build'[k] = build[k]
  PROVE  ReadingInv'
  <1> SUFFICES ASSUME NEW k \in Loader, k # l PROVE Reading(k)'
    BY DEF ReadingInv
  <1>1. Reading(k) /\ pc'[k] = pc[k] /\ build'[k] = build[k]
    BY DEF ReadingInv
  <1> QED
    BY <1>1 DEF Reading, Validated, Loaded, TargetOf

LEMMA FinishReading ==
  ASSUME NEW l \in Loader, TypeOK, ReadingInv,
         NEW step \in {"idle", "exited"}, Finish(l, step)
  PROVE  ReadingInv'
  <1>1. pc'[l] = step /\ build'[l] = NothingRead
    BY DEF Finish, TypeOK
  <1>2. Reading(l)'
    <2>1. Validated(build[l])' /\ Loaded(build[l])' = {}
      BY <1>1, NothingReadValidated DEF Validated, Loaded, TargetOf
    <2> QED
      BY <1>1, <2>1 DEF Reading
  <1>3. \A k \in Loader \ {l} : pc'[k] = pc[k] /\ build'[k] = build[k]
    BY DEF Finish, TypeOK
  <1> QED
    BY <1>2, <1>3, OthersKeepReading

LEMMA FailReading ==
  ASSUME NEW l \in Loader, TypeOK, ReadingInv, Fail(l)
  PROVE  ReadingInv'
  <1>1. PICK step \in {"idle", "exited"} : Finish(l, step)
    BY DEF Fail
  <1> QED
    BY <1>1, FinishReading

(* A view that is read goes to a request target no view has yet. *)
LEMMA ReadViewValidated ==
  ASSUME NEW s \in Store, NEW f \in ViewFile, NEW r \in Release, Validated(s),
         Dir[r].views[f] \in Target, Dir[r].views[f] \notin Targets(s)
  PROVE  Validated([s EXCEPT !.views[f] = r])
  <1> DEFINE t == [s EXCEPT !.views[f] = r]
  <1>1. /\ t.manifest = s.manifest /\ t.index = s.index
        /\ t.views = [s.views EXCEPT ![f] = r]
    BY DEF Store
  <1>2. Loaded(t) = Loaded(s) \cup {f}
    BY <1>1 DEF Loaded, Store
  <1>3. TargetOf(t, f) = Dir[r].views[f]
    BY <1>1 DEF TargetOf, Store
  <1>4. \A g \in ViewFile \ {f} : TargetOf(t, g) = TargetOf(s, g)
    BY <1>1 DEF TargetOf, Store
  <1>5. \A g \in Loaded(s) : TargetOf(s, g) \in Target /\ TargetOf(s, g) \in Targets(s)
    BY DEF Validated, Targets
  <1>6. Loaded(s) \subseteq ViewFile
    BY DEF Loaded
  <1> HIDE DEF t
  <1>7. ASSUME NEW g \in Loaded(t), g # f
        PROVE  g \in Loaded(s) /\ TargetOf(t, g) = TargetOf(s, g)
    BY <1>2, <1>4, <1>6, <1>7
  <1>8. ASSUME NEW g \in Loaded(t) PROVE TargetOf(t, g) \in Target
    <2>1. CASE g = f
      BY <1>3, <2>1
    <2>2. CASE g # f
      BY <1>5, <1>7, <2>2
    <2> QED
      BY <2>1, <2>2
  <1>9. ASSUME NEW g \in Loaded(t), NEW h \in Loaded(t),
               TargetOf(t, g) = TargetOf(t, h), g # h
        PROVE  FALSE
    <2>1. CASE g = f
      BY <1>3, <1>5, <1>7, <1>9, <2>1
    <2>2. CASE h = f
      BY <1>3, <1>5, <1>7, <1>9, <2>2
    <2>3. CASE g # f /\ h # f
      BY <1>7, <1>9, <2>3 DEF Validated
    <2> QED
      BY <2>1, <2>2, <2>3
  <1>10. Validated(t)
    BY <1>1, <1>8, <1>9 DEF Validated
  <1> QED
    BY <1>10 DEF t

LEMMA LoadReading ==
  ASSUME NEW l \in Loader, TypeOK, ReadingInv, Load(l)
  PROVE  ReadingInv'
  <1> USE DEF ReadingInv
  <1>0. build[l] \in Store
    BY DEF TypeOK
  <1>1. CASE Fail(l)
    BY <1>1, FailReading
  <1>2. CASE ReadManifest(l) /\ ~Fail(l)
    <2>1. /\ disk \in Release /\ SoundManifest(disk) /\ build[l] = NothingRead
          /\ pc'[l] = "index" /\ build'[l] = [NothingRead EXCEPT !.manifest = disk]
      BY <1>2 DEF ReadManifest, ManifestReadable, ValidManifest, TypeOK, Reading
    <2>2. /\ build'[l].manifest = disk /\ build'[l].index = NoFile
          /\ Loaded(build[l])' = {}
      BY <2>1 DEF NothingRead, Loaded
    <2>3. Validated(build[l])'
      <3>1. SoundManifest(build[l].manifest)'
        BY <2>1, <2>2 DEF SoundManifest
      <3> QED
        BY <2>2, <3>1 DEF Validated
    <2>4. \A k \in Loader \ {l} : pc'[k] = pc[k] /\ build'[k] = build[k]
      BY <1>2 DEF ReadManifest, TypeOK
    <2> QED
      BY <2>1, <2>2, <2>3, <2>4, OthersKeepReading DEF Reading
  <1>3. CASE ReadIndex(l) /\ ~Fail(l)
    <2>1. /\ disk \in Release /\ "index" \in Dir[disk].sound
          /\ pc[l] = "index" /\ pc'[l] = "list"
          /\ build'[l] = [build[l] EXCEPT !.index = disk]
      BY <1>3 DEF ReadIndex, TypeOK
    <2>2. /\ build'[l].index = disk
          /\ build'[l].manifest = build[l].manifest
          /\ build'[l].views = build[l].views
      BY <1>0, <2>1 DEF Store
    <2>3. Loaded(build[l])' = {} /\ build[l].manifest \in Release
      BY <2>1, <2>2 DEF Loaded, Reading
    <2>4. Validated(build[l])'
      BY <2>1, <2>2, <2>3 DEF Validated, Reading, SoundManifest, Loaded
    <2>5. \A k \in Loader \ {l} : pc'[k] = pc[k] /\ build'[k] = build[k]
      BY <1>3 DEF ReadIndex, TypeOK
    <2> QED
      BY <2>1, <2>2, <2>3, <2>4, <2>5, OthersKeepReading DEF Reading
  <1>4. CASE ListViews(l) /\ ~Fail(l)
    <2>1. pc[l] = "list" /\ pc'[l] = "views" /\ build' = build
      BY <1>4 DEF ListViews, TypeOK
    <2>2. Reading(l)'
      BY <2>1 DEF Reading, Validated, Loaded, TargetOf
    <2>3. \A k \in Loader \ {l} : pc'[k] = pc[k] /\ build'[k] = build[k]
      BY <1>4 DEF ListViews, TypeOK
    <2> QED
      BY <2>2, <2>3, OthersKeepReading
  <1>5. CASE ReadView(l) /\ ~Fail(l)
    <2>1. PICK f \in todo[l] :
            /\ ViewReadable(l, f)
            /\ build' = [build EXCEPT ![l].views[f] = disk]
            /\ UNCHANGED pc
      BY <1>5 DEF ReadView
    <2>2. disk \in Release /\ f \in ViewFile /\ pc[l] = "views" /\ pc'[l] = "views"
      BY <1>5, <2>1 DEF ViewReadable, TypeOK, ReadView
    <2>3. build'[l] = [build[l] EXCEPT !.views[f] = disk]
      BY <2>1 DEF TypeOK
    <2>4. Validated([build[l] EXCEPT !.views[f] = disk])
      BY <1>0, <2>1, <2>2, ReadViewValidated DEF ViewReadable, Reading
    <2>5. Validated(build[l])'
      BY <2>3, <2>4 DEF Validated, Loaded, TargetOf
    <2>6. build'[l].manifest = build[l].manifest /\ build'[l].index = build[l].index
      BY <1>0, <2>3 DEF Store
    <2>7. \A k \in Loader \ {l} : pc'[k] = pc[k] /\ build'[k] = build[k]
      BY <2>1 DEF TypeOK
    <2> QED
      BY <2>2, <2>5, <2>6, <2>7, OthersKeepReading DEF Reading
  <1> QED
    BY <1>1, <1>2, <1>3, <1>4, <1>5 DEF Load

-----------------------------------------------------------------------------
(* The store in memory. *)

(* Nothing is served, and no handler runs, before startup has loaded. *)
Startup ==
  /\ pc[Boot] # "idle" => served = NoStore
  /\ served = NoStore => \A h \in Handler : pc[h] = "idle"

Inv == TypeOK /\ ReadingInv /\ Startup /\ ServedValidated

LEMMA LoadServed ==
  ASSUME NEW l \in Loader, TypeOK, Load(l)
  PROVE  /\ served' = served /\ env' = env
         /\ pc[l] # "idle"
         /\ l = Boot => pc'[Boot] # "idle"
         /\ \A k \in Loader \ {l} : pc'[k] = pc[k]
  <1>1. served' = served /\ env' = env
    BY DEF Load, ReadManifest, ReadIndex, ListViews, ReadView, Fail, env
  <1>2. pc[l] # "idle"
    BY DEF Load, ReadManifest, ReadIndex, ListViews, ReadView
  <1>3. l = Boot => pc'[Boot] # "idle"
    BY DEF Load, ReadManifest, ReadIndex, ListViews, ReadView, Fail, Finish,
           TypeOK, Loader
  <1>4. \A k \in Loader \ {l} : pc'[k] = pc[k]
    BY DEF Load, ReadManifest, ReadIndex, ListViews, ReadView, Fail, Finish,
           TypeOK, Loader
  <1> QED
    BY <1>1, <1>2, <1>3, <1>4

(* A loader whose list is exhausted has a store that may be served. *)
LEMMA LoadedValidated ==
  ASSUME NEW l \in Loader, TypeOK, ReadingInv, pc[l] = "views", served' = build[l]
  PROVE  served' \in Store /\ served' # NoStore /\ ServedValidated'
  <1>1. Reading(l) /\ build[l] \in Store
    BY DEF ReadingInv, TypeOK
  <1>2. {served'.manifest, served'.index} \subseteq Release
    BY <1>1 DEF Reading
  <1>3. Validated(served)'
    BY <1>1 DEF Reading, Validated, Loaded, TargetOf
  <1> QED
    BY <1>1, <1>2, <1>3 DEF ServedValidated

LEMMA ServedKept ==
  ASSUME ServedValidated, served' = served
  PROVE  ServedValidated'
  BY DEF ServedValidated, Validated, Loaded, TargetOf

LEMMA InvStep == Inv /\ [Next]_vars => Inv'
  <1> SUFFICES ASSUME Inv, [Next]_vars PROVE Inv'
    OBVIOUS
  <1> USE DEF Inv
  <1>0. TypeOK'
    BY TypeStep
  <1>1. ASSUME pc' = pc, build' = build, served' = served
        PROVE  ReadingInv' /\ Startup' /\ ServedValidated'
    <2>1. ReadingInv'
      BY <1>1 DEF ReadingInv, Reading, Validated, Loaded, TargetOf
    <2> QED
      BY <1>1, <2>1, ServedKept DEF Startup
  <1>2. CASE Environment
    BY <1>0, <1>1, <1>2 DEF Environment, Place, MoveAside, SetClock, loaders
  <1>3. ASSUME NEW l \in Loader, Load(l) PROVE Inv'
    <2>1. /\ served' = served /\ pc[l] # "idle" /\ (l = Boot => pc'[Boot] # "idle")
          /\ \A k \in Loader \ {l} : pc'[k] = pc[k]
      BY <1>3, LoadServed
    <2>2. Startup'
      BY <2>1 DEF Startup, Loader
    <2> QED
      BY <1>0, <1>3, <2>1, <2>2, LoadReading, ServedKept
  <1>4. CASE Start
    <2>1. Boot \in Loader /\ pc[Boot] = "views" /\ served' = build[Boot]
      BY <1>4 DEF Start, Loader
    <2>2. Finish(Boot, "idle") /\ pc'[Boot] = "idle"
      BY <1>4, <2>1 DEF Start, Finish, TypeOK
    <2>3. served' # NoStore /\ ServedValidated'
      BY <2>1, LoadedValidated
    <2> QED
      BY <1>0, <2>1, <2>2, <2>3, FinishReading DEF Startup
  <1>5. ASSUME NEW h \in Handler, Post(h) PROVE Inv'
    <2>1. h \in Loader /\ h # Boot
      BY DEF Loader
    <2>2. /\ pc[h] = "idle" /\ pc'[h] = "manifest" /\ pc'[Boot] = pc[Boot]
          /\ build' = build /\ served' = served /\ served # NoStore
          /\ \A k \in Loader \ {h} : pc'[k] = pc[k] /\ build'[k] = build[k]
      BY <1>5, <2>1 DEF Post, TypeOK, Loader
    <2>3. Reading(h)'
      BY <2>1, <2>2 DEF ReadingInv, Reading, Validated, Loaded, TargetOf
    <2> QED
      BY <1>0, <2>1, <2>2, <2>3, OthersKeepReading, ServedKept DEF Startup
  <1>6. ASSUME NEW h \in Handler, Swap(h) PROVE Inv'
    <2>1. h \in Loader /\ h # Boot
      BY DEF Loader
    <2>2. pc[h] = "views" /\ served' = build[h] /\ Finish(h, "idle")
      BY <1>6 DEF Swap
    <2>3. pc[Boot] = "idle" /\ pc'[Boot] = pc[Boot]
      BY <2>1, <2>2 DEF Startup, Finish, TypeOK, Loader
    <2>4. served' # NoStore /\ ServedValidated'
      BY <2>1, <2>2, LoadedValidated
    <2> QED
      BY <1>0, <2>1, <2>2, <2>3, <2>4, FinishReading DEF Startup
  <1>7. ASSUME NEW h \in Handler, RejectRollback(h) PROVE Inv'
    <2>1. h \in Loader /\ h # Boot /\ Fail(h)
      BY <1>7 DEF Loader, RejectRollback
    <2>2. /\ served' = served /\ pc'[Boot] = pc[Boot] /\ pc[h] = "views"
          /\ \A k \in Handler \ {h} : pc'[k] = pc[k]
      BY <1>7, <2>1 DEF Fail, Finish, TypeOK, Loader, RejectRollback
    <2> QED
      BY <1>0, <2>1, <2>2, FailReading, ServedKept DEF Startup
  <1>8. CASE UNCHANGED vars
    BY <1>0, <1>1, <1>8 DEF vars
  <1> QED
    BY <1>2, <1>3, <1>4, <1>5, <1>6, <1>7, <1>8 DEF Next, Reload, Loader

LEMMA InvInit == Init => Inv
  <1> SUFFICES ASSUME Init PROVE Inv
    OBVIOUS
  <1>1. ASSUME NEW l \in Loader PROVE Reading(l)
    <2>1. build[l] = NothingRead /\ pc[l] \in {"manifest", "idle"}
      BY DEF Init
    <2> QED
      BY <2>1, NothingReadValidated DEF Reading
  <1>2. Startup /\ ServedValidated
    BY DEF Init, Startup, ServedValidated, Loader
  <1> QED
    BY <1>1, <1>2, TypeInit DEF Inv, ReadingInv

LEMMA Invariance == Spec => []Inv
  BY InvInit, InvStep, PTL DEF Spec

(* What is served is validated in every behaviour, with any number of      *)
(* handlers loading at once and adapters renaming at any moment.           *)
THEOREM OnlyValidatedServed == Spec => []ServedValidated
  <1>1. Inv => ServedValidated
    BY DEF Inv
  <1> QED
    BY <1>1, Invariance, PTL

(* The store in memory is replaced only by Start and Swap. *)
LEMMA ServedChanges ==
  ASSUME Inv, [Next]_vars, served' # served
  PROVE  Start \/ \E h \in Handler : Swap(h)
  <1>1. CASE Environment
    BY <1>1 DEF Environment, Place, MoveAside, SetClock
  <1>2. ASSUME NEW l \in Loader, Load(l) PROVE FALSE
    BY <1>2, LoadServed DEF Inv
  <1>3. ASSUME NEW h \in Handler, Post(h) \/ RejectRollback(h) PROVE FALSE
    BY <1>3 DEF Post, RejectRollback, Fail
  <1> QED
    BY <1>1, <1>2, <1>3 DEF Next, Reload, Loader, vars

(* The sequence served never drops, in whatever order overlapping reloads  *)
(* reach the write lock.                                                   *)
THEOREM NoRollback == Spec => SequenceNeverDrops
  <1>1. ASSUME Inv, [Next]_vars, served' # served, served # NoStore
        PROVE  Sequence(served) <= Sequence(served')
    <2>1. CASE Start
      BY <1>1, <2>1 DEF Start, Inv, Startup
    <2>2. ASSUME NEW h \in Handler, Swap(h)
          PROVE  Sequence(served) <= Sequence(served')
      BY <2>2 DEF Swap, NotARollback, Sequence
    <2> QED
      BY <1>1, <2>1, <2>2, ServedChanges
  <1>2. Inv /\ [Next]_vars => [served # NoStore => Sequence(served) <= Sequence(served')]_served
    BY <1>1
  <1> QED
    BY <1>2, Invariance, PTL DEF Spec, SequenceNeverDrops

-----------------------------------------------------------------------------
(* Loads that no rename overlaps. *)

(* A load has read every part from the release that is still at store_dir. *)
Tracking(l) ==
  /\ pc[l] \in {"index", "list", "views"} =>
       disk \in Release /\ build[l].manifest = disk
  /\ pc[l] \in {"list", "views"} => build[l].index = disk
  /\ pc[l] = "views" =>
       /\ "views" \in Dir[disk].sound
       /\ todo[l] \subseteq Files(disk)
       /\ \A f \in ViewFile :
            build[l].views[f] = IF f \in Files(disk) \ todo[l] THEN disk ELSE NoFile

TrackingInv == \A l \in Loader : Tracking(l)

(* The strengthening of ServedWhole. *)
QuietInv == TrackingInv /\ ServedWhole

(* A load that has read all the views listed has the whole release. *)
LEMMA LoadedWhole ==
  ASSUME NEW l \in Loader, Inv, Tracking(l), pc[l] = "views", todo[l] = {}
  PROVE  /\ disk \in Release
         /\ SoundRelease(disk)
         /\ build[l] = WholeStore(disk)
  <1>1. /\ disk \in Release /\ "views" \in Dir[disk].sound
        /\ build[l].manifest = disk /\ build[l].index = disk
        /\ \A f \in ViewFile :
             build[l].views[f] = IF f \in Files(disk) THEN disk ELSE NoFile
    BY DEF Tracking
  <1>2. build[l] \in Store /\ Validated(build[l])
    BY DEF Inv, TypeOK, ReadingInv, Reading
  <1>3. build[l] = WholeStore(disk)
    <2>1. build[l].views = WholeStore(disk).views
      BY <1>1, <1>2 DEF Store, WholeStore
    <2> QED
      BY <1>1, <1>2, <2>1 DEF Store, WholeStore
  <1>4. disk # NoFile
    BY <1>1
  <1>5. Files(disk) \subseteq ViewFile
    BY DEF Files
  <1>6. Loaded(build[l]) = Files(disk)
    BY <1>1, <1>4, <1>5 DEF Loaded
  <1>7. \A f \in Files(disk) : TargetOf(build[l], f) = Dir[disk].views[f]
    BY <1>1, <1>5 DEF TargetOf
  <1>8. SoundViews(disk)
    BY <1>2, <1>6, <1>7 DEF SoundViews, Validated
  <1>9. SoundManifest(disk) /\ "index" \in Dir[disk].sound
    BY <1>1, <1>2, <1>4 DEF Validated
  <1> QED
    BY <1>1, <1>3, <1>8, <1>9 DEF SoundRelease

LEMMA OthersKeepTracking ==
  ASSUME NEW l \in Loader, TrackingInv, Tracking(l)', disk' = disk,
         \A k \in Loader \ {l} :
           pc'[k] = pc[k] /\ build'[k] = build[k] /\ todo'[k] = todo[k]
  PROVE  TrackingInv'
  <1> SUFFICES ASSUME NEW k \in Loader, k # l PROVE Tracking(k)'
    BY DEF TrackingInv
  <1>1. Tracking(k) /\ pc'[k] = pc[k] /\ build'[k] = build[k] /\ todo'[k] = todo[k]
    BY DEF TrackingInv
  <1> QED
    BY <1>1 DEF Tracking

LEMMA FinishTracking ==
  ASSUME NEW l \in Loader, TypeOK, TrackingInv, disk' = disk,
         NEW step \in {"idle", "exited"}, Finish(l, step)
  PROVE  TrackingInv'
  <1>1. pc'[l] = step
    BY DEF Finish, TypeOK
  <1>2. Tracking(l)'
    BY <1>1 DEF Tracking
  <1>3. \A k \in Loader \ {l} :
          pc'[k] = pc[k] /\ build'[k] = build[k] /\ todo'[k] = todo[k]
    BY DEF Finish, TypeOK
  <1> QED
    BY <1>2, <1>3, OthersKeepTracking

LEMMA LoadTracking ==
  ASSUME NEW l \in Loader, Inv, TrackingInv, Load(l)
  PROVE  TrackingInv'
  <1> USE DEF Inv
  <1>0. /\ disk' = disk
        /\ build[l] \in Store /\ Reading(l) /\ Tracking(l)
    BY LoadServed DEF env, TypeOK, ReadingInv, TrackingInv
  <1>1. CASE Fail(l)
    <2>1. PICK step \in {"idle", "exited"} : Finish(l, step)
      BY <1>1 DEF Fail
    <2> QED
      BY <1>0, <2>1, FinishTracking
  <1>2. CASE ReadManifest(l) /\ ~Fail(l)
    <2>1. /\ disk \in Release /\ pc'[l] = "index"
          /\ build'[l] = [build[l] EXCEPT !.manifest = disk]
      BY <1>2 DEF ReadManifest, ManifestReadable, TypeOK
    <2>2. Tracking(l)'
      BY <1>0, <2>1 DEF Tracking, Store
    <2>3. \A k \in Loader \ {l} :
            pc'[k] = pc[k] /\ build'[k] = build[k] /\ todo'[k] = todo[k]
      BY <1>2 DEF ReadManifest, TypeOK
    <2> QED
      BY <1>0, <2>2, <2>3, OthersKeepTracking
  <1>3. CASE ReadIndex(l) /\ ~Fail(l)
    <2>1. /\ pc[l] = "index" /\ pc'[l] = "list"
          /\ build'[l] = [build[l] EXCEPT !.index = disk]
      BY <1>3 DEF ReadIndex, TypeOK
    <2>2. Tracking(l)'
      BY <1>0, <2>1 DEF Tracking, Store
    <2>3. \A k \in Loader \ {l} :
            pc'[k] = pc[k] /\ build'[k] = build[k] /\ todo'[k] = todo[k]
      BY <1>3 DEF ReadIndex, TypeOK
    <2> QED
      BY <1>0, <2>2, <2>3, OthersKeepTracking
  <1>4. CASE ListViews(l) /\ ~Fail(l)
    <2>1. /\ pc[l] = "list" /\ pc'[l] = "views" /\ build'[l] = build[l]
          /\ "views" \in Dir[disk].sound /\ todo'[l] = Files(disk)
      BY <1>4 DEF ListViews, TypeOK
    <2>2. \A f \in ViewFile : build[l].views[f] = NoFile
      BY <1>0, <2>1 DEF Reading, Loaded
    <2>3. Tracking(l)'
      BY <1>0, <2>1, <2>2 DEF Tracking
    <2>4. \A k \in Loader \ {l} :
            pc'[k] = pc[k] /\ build'[k] = build[k] /\ todo'[k] = todo[k]
      BY <1>4 DEF ListViews, TypeOK
    <2> QED
      BY <1>0, <2>3, <2>4, OthersKeepTracking
  <1>5. CASE ReadView(l) /\ ~Fail(l)
    <2>1. PICK f \in todo[l] :
            /\ build' = [build EXCEPT ![l].views[f] = disk]
            /\ todo' = [todo EXCEPT ![l] = @ \ {f}]
            /\ UNCHANGED pc
      BY <1>5 DEF ReadView
    <2>2. pc[l] = "views" /\ pc'[l] = "views" /\ todo'[l] = todo[l] \ {f}
      BY <1>5, <2>1 DEF ReadView, TypeOK
    <2>3. f \in Files(disk) /\ f \in ViewFile
      BY <1>0, <2>1, <2>2 DEF Tracking, Files
    <2>4. /\ build'[l].manifest = build[l].manifest
          /\ build'[l].index = build[l].index
          /\ build'[l].views = [build[l].views EXCEPT ![f] = disk]
      BY <1>0, <2>1 DEF TypeOK, Store
    <2>5. build[l].views \in [ViewFile -> Origin]
      BY <1>0 DEF Store
    <2>6. ASSUME NEW g \in ViewFile
          PROVE  build'[l].views[g] =
                   IF g \in Files(disk) \ todo'[l] THEN disk ELSE NoFile
      BY <1>0, <2>2, <2>3, <2>4, <2>5 DEF Tracking
    <2>7. Tracking(l)'
      BY <1>0, <2>2, <2>4, <2>6 DEF Tracking
    <2>8. \A k \in Loader \ {l} :
            pc'[k] = pc[k] /\ build'[k] = build[k] /\ todo'[k] = todo[k]
      BY <2>1 DEF TypeOK
    <2> QED
      BY <1>0, <2>7, <2>8, OthersKeepTracking
  <1> QED
    BY <1>1, <1>2, <1>3, <1>4, <1>5 DEF Load

(* How startup and the handlers end a load: the served store is replaced   *)
(* by the whole of the release at store_dir.                               *)
LEMMA ReplacedWhole ==
  ASSUME Inv, TrackingInv, NEW l \in Loader, pc[l] = "views", todo[l] = {},
         served' = build[l]
  PROVE  ServedWhole'
  <1>1. disk \in Release /\ served' = WholeStore(disk)
    BY LoadedWhole DEF TrackingInv
  <1> QED
    BY <1>1 DEF ServedWhole, WholeStore, Files

LEMMA WholeKept ==
  ASSUME ServedWhole, served' = served
  PROVE  ServedWhole'
  BY DEF ServedWhole, WholeStore, Files

LEMMA QuietStep ==
  ASSUME ~MayOverlap, Inv, QuietInv, [Next]_vars
  PROVE  QuietInv'
  <1> USE DEF QuietInv
  <1>0. TypeOK
    BY DEF Inv
  <1>1. CASE MoveAside \/ \E r \in Release : Place(r)
    <2>1. /\ \A l \in Loader : ~Busy(l)
          /\ pc' = pc /\ served' = served
      BY <1>1 DEF Place, MoveAside, loaders
    <2>2. TrackingInv'
      BY <2>1 DEF TrackingInv, Tracking, Busy
    <2> QED
      BY <2>1, <2>2, WholeKept
  <1>2. ASSUME disk' = disk, served' = served, loaders' = loaders PROVE QuietInv'
    <2>1. TrackingInv'
      BY <1>2 DEF TrackingInv, Tracking, loaders
    <2> QED
      BY <1>2, <2>1, WholeKept
  <1>3. ASSUME NEW l \in Loader, Load(l) PROVE QuietInv'
    BY <1>0, <1>3, LoadServed, LoadTracking, WholeKept
  <1>4. CASE Start
    <2>1. /\ Boot \in Loader /\ pc[Boot] = "views" /\ todo[Boot] = {}
          /\ served' = build[Boot] /\ disk' = disk /\ Finish(Boot, "idle")
      BY <1>4 DEF Start, Loader, env
    <2> QED
      BY <1>0, <2>1, ReplacedWhole, FinishTracking
  <1>5. ASSUME NEW h \in Handler, Post(h) PROVE QuietInv'
    <2>1. /\ h \in Loader /\ pc'[h] = "manifest" /\ disk' = disk /\ served' = served
          /\ \A k \in Loader \ {h} :
               pc'[k] = pc[k] /\ build'[k] = build[k] /\ todo'[k] = todo[k]
      BY <1>0, <1>5 DEF Post, TypeOK, Loader
    <2>2. Tracking(h)'
      BY <2>1 DEF Tracking
    <2> QED
      BY <2>1, <2>2, OthersKeepTracking, WholeKept
  <1>6. ASSUME NEW h \in Handler, Swap(h) PROVE QuietInv'
    <2>1. /\ h \in Loader /\ pc[h] = "views" /\ todo[h] = {}
          /\ served' = build[h] /\ disk' = disk /\ Finish(h, "idle")
      BY <1>6 DEF Swap, Loader, env
    <2> QED
      BY <1>0, <2>1, ReplacedWhole, FinishTracking
  <1>7. ASSUME NEW h \in Handler, RejectRollback(h) PROVE QuietInv'
    <2>1. h \in Loader /\ served' = served /\ disk' = disk
      BY <1>7 DEF Loader, RejectRollback, Fail, env
    <2>2. PICK step \in {"idle", "exited"} : Finish(h, step)
      BY <1>7 DEF RejectRollback, Fail
    <2> QED
      BY <1>0, <2>1, <2>2, FinishTracking, WholeKept
  <1>8. CASE SetClock
    BY <1>2, <1>8 DEF SetClock
  <1>9. CASE UNCHANGED vars
    BY <1>2, <1>9 DEF vars, loaders
  <1> QED
    BY <1>1, <1>2, <1>3, <1>4, <1>5, <1>6, <1>7, <1>8, <1>9
    DEF Next, Environment, Reload, Loader

LEMMA QuietInit == Init => QuietInv
  BY DEF Init, QuietInv, TrackingInv, Tracking, ServedWhole, Loader

LEMMA QuietInvariance == ~MayOverlap => (Spec => []QuietInv)
  <1>1. ~MayOverlap => (Inv /\ QuietInv /\ [Next]_vars => QuietInv')
    BY QuietStep
  <1>2. ASSUME ~MayOverlap PROVE Spec => []QuietInv
    <2>1. Inv /\ QuietInv /\ [Next]_vars => QuietInv'
      BY <1>1, <1>2
    <2> QED
      BY <2>1, QuietInit, Invariance, PTL DEF Spec
  <1> QED
    BY <1>2

(* When no directory is renamed during a load, memory always holds the     *)
(* whole of one release: the condition under which "reload is atomic".     *)
THEOREM WholeIfQuiet == ~MayOverlap => (Spec => []ServedWhole)
  <1>1. QuietInv => ServedWhole
    BY DEF QuietInv
  <1>2. ASSUME ~MayOverlap PROVE Spec => []ServedWhole
    <2>1. Spec => []QuietInv
      BY <1>2, QuietInvariance
    <2> QED
      BY <1>1, <2>1, PTL
  <1> QED
    BY <1>2

-----------------------------------------------------------------------------
(* Refinement. *)

LEMMA CellDefinitions ==
  /\ \A r \in Release : Cell!WholeStore(r) = WholeStore(r)
  /\ \A r \in Release : Cell!SoundRelease(r) <=> SoundRelease(r)
  /\ \A s \in Store : Cell!Sequence(s) = Sequence(s)
  BY DEF Cell!WholeStore, WholeStore, Cell!SoundRelease, SoundRelease,
         Cell!Sequence, Sequence, Cell!Files, Files, Cell!SoundManifest,
         SoundManifest, Cell!SoundViews, SoundViews

LEMMA WholeStoreSequence ==
  ASSUME NEW r \in Release PROVE Sequence(WholeStore(r)) = Dir[r].sequence
  BY DEF Sequence, WholeStore

LEMMA ReplaceCell ==
  ASSUME Inv, QuietInv, NEW l \in Loader, pc[l] = "views", todo[l] = {},
         served' = build[l], disk' = disk,
         served # NoStore => Sequence(served) <= Sequence(build[l])
  PROVE  Cell!Replace
  <1>1. disk \in Release /\ SoundRelease(disk) /\ build[l] = WholeStore(disk)
    BY LoadedWhole DEF QuietInv, TrackingInv
  <1>2. served # NoStore => Cell!Sequence(served) = Sequence(served)
    BY CellDefinitions DEF Inv, TypeOK
  <1>3. Cell!Sequence(Cell!WholeStore(disk)) = Sequence(build[l])
    <2>1. build[l] \in Store
      BY DEF Inv, TypeOK
    <2> QED
      BY <1>1, <2>1, CellDefinitions
  <1> QED
    BY <1>1, <1>2, <1>3, CellDefinitions DEF Cell!Replace

(* Startup and hot reload, file by file, implement the atomic replacement  *)
(* of StoreCell when adapters do not rename during a load.                 *)
THEOREM ReloadImplementsCell == ~MayOverlap => (Spec => ImplementsStoreCell)
  <1>1. Init => Cell!Init
    BY DEF Init, Cell!Init
  <1>2. ASSUME Inv, QuietInv, [Next]_vars
        PROVE  [Cell!Next]_<<disk, served>>
    <2>0. TypeOK'
      BY <1>2, InvStep DEF Inv
    <2>1. CASE served' = served
      <3>1. disk' \in Release \cup {Absent}
        BY <2>0 DEF TypeOK
      <3> QED
        BY <2>1, <3>1 DEF Cell!Next, Cell!Publish
    <2>2. CASE served' # served
      <3>1. CASE Start
        <4>1. /\ Boot \in Loader /\ pc[Boot] = "views" /\ todo[Boot] = {}
              /\ served' = build[Boot] /\ disk' = disk
          BY <3>1 DEF Start, Loader, env
        <4>2. served = NoStore
          BY <1>2, <4>1 DEF Inv, Startup
        <4> QED
          BY <1>2, <4>1, <4>2, ReplaceCell DEF Cell!Next
      <3>2. ASSUME NEW h \in Handler, Swap(h) PROVE Cell!Next
        <4>1. /\ h \in Loader /\ pc[h] = "views" /\ todo[h] = {}
              /\ served' = build[h] /\ disk' = disk
              /\ Sequence(served) <= Sequence(build[h])
          BY <3>2 DEF Swap, Loader, env, NotARollback
        <4> QED
          BY <1>2, <4>1, ReplaceCell DEF Cell!Next
      <3> QED
        BY <1>2, <2>2, <3>1, <3>2, ServedChanges
    <2> QED
      BY <2>1, <2>2
  <1>3. ASSUME ~MayOverlap PROVE Spec => Cell!Spec
    <2>1. Inv /\ QuietInv /\ [Next]_vars => [Cell!Next]_<<disk, served>>
      BY <1>2
    <2>2. Spec => []QuietInv
      BY <1>3, QuietInvariance
    <2> QED
      BY <1>1, <2>1, <2>2, Invariance, PTL DEF Spec, Cell!Spec
  <1> QED
    BY <1>3 DEF ImplementsStoreCell

-----------------------------------------------------------------------------
(* Sequences that increase. *)

(* The release at store_dir is the newest, a loader's manifest is never    *)
(* newer than the index it read after it, and its index never newer than a *)
(* view it read after that.                                                *)
InOrder(l) ==
  /\ pc[l] \in {"index", "list", "views"} => Sequence(build[l]) <= newest
  /\ pc[l] \in {"list", "views"} =>
       /\ Sequence(build[l]) <= Dir[build[l].index].sequence
       /\ Dir[build[l].index].sequence <= newest
  /\ \A f \in Loaded(build[l]) :
       Dir[build[l].index].sequence <= Dir[build[l].views[f]].sequence

OrderInv ==
  /\ disk \in Release => Dir[disk].sequence = newest
  /\ \A l \in Loader : InOrder(l)
  /\ ContentNotOlder

LEMMA OthersInOrder ==
  ASSUME NEW l \in Loader, OrderInv, InOrder(l)', newest' = newest, disk' = disk,
         \A k \in Loader \ {l} : pc'[k] = pc[k] /\ build'[k] = build[k],
         ContentNotOlder'
  PROVE  OrderInv'
  <1>1. ASSUME NEW k \in Loader, k # l PROVE InOrder(k)'
    <2>1. InOrder(k) /\ pc'[k] = pc[k] /\ build'[k] = build[k]
      BY <1>1 DEF OrderInv
    <2> QED
      BY <2>1 DEF InOrder, Loaded, Sequence
  <1> QED
    BY <1>1 DEF OrderInv

LEMMA NotOlderKept ==
  ASSUME ContentNotOlder, served' = served
  PROVE  ContentNotOlder'
  BY DEF ContentNotOlder, Sequence, Loaded

LEMMA FinishInOrder ==
  ASSUME NEW l \in Loader, TypeOK, NEW step \in {"idle", "exited"}, Finish(l, step)
  PROVE  /\ InOrder(l)'
         /\ \A k \in Loader \ {l} : pc'[k] = pc[k] /\ build'[k] = build[k]
  <1>1. pc'[l] = step /\ build'[l] = NothingRead
    BY DEF Finish, TypeOK
  <1>2. Loaded(build[l])' = {}
    BY <1>1 DEF Loaded, NothingRead
  <1>3. InOrder(l)'
    BY <1>1, <1>2 DEF InOrder
  <1> QED
    BY <1>3 DEF Finish, TypeOK

LEMMA LoadInOrder ==
  ASSUME NEW l \in Loader, Inv, OrderInv, Load(l)
  PROVE  OrderInv'
  <1> USE DEF Inv
  <1>0. /\ disk' = disk /\ newest' = newest
        /\ build[l] \in Store /\ Reading(l) /\ InOrder(l)
        /\ ContentNotOlder'
    BY LoadServed, NotOlderKept DEF env, TypeOK, ReadingInv, OrderInv
  <1>1. disk \in Release => Dir[disk].sequence = newest
    BY DEF OrderInv
  <1>2. newest \in Int /\ \A r \in Release : Dir[r].sequence \in Int
    BY DEF TypeOK, DirContent
  <1>3. CASE Fail(l)
    <2>1. PICK step \in {"idle", "exited"} : Finish(l, step)
      BY <1>3 DEF Fail
    <2> QED
      BY <1>0, <2>1, FinishInOrder, OthersInOrder
  <1>4. CASE ReadManifest(l) /\ ~Fail(l)
    <2>1. /\ disk \in Release /\ pc[l] = "manifest" /\ pc'[l] = "index"
          /\ build'[l] = [build[l] EXCEPT !.manifest = disk]
      BY <1>4 DEF ReadManifest, ManifestReadable, TypeOK
    <2>2. Loaded(build[l])' = {} /\ build'[l].manifest = disk
      BY <1>0, <2>1 DEF Loaded, Store, Reading
    <2>3. InOrder(l)'
      BY <1>0, <1>1, <1>2, <2>1, <2>2 DEF InOrder, Sequence
    <2>4. \A k \in Loader \ {l} : pc'[k] = pc[k] /\ build'[k] = build[k]
      BY <1>4 DEF ReadManifest, TypeOK
    <2> QED
      BY <1>0, <2>3, <2>4, OthersInOrder
  <1>5. CASE ReadIndex(l) /\ ~Fail(l)
    <2>1. /\ disk \in Release /\ pc[l] = "index" /\ pc'[l] = "list"
          /\ build'[l] = [build[l] EXCEPT !.index = disk]
      BY <1>5 DEF ReadIndex, TypeOK
    <2>2. /\ Loaded(build[l])' = {} /\ build'[l].index = disk
          /\ build'[l].manifest = build[l].manifest
      BY <1>0, <2>1 DEF Loaded, Store, Reading
    <2>3. InOrder(l)'
      BY <1>0, <1>1, <1>2, <2>1, <2>2 DEF InOrder, Sequence
    <2>4. \A k \in Loader \ {l} : pc'[k] = pc[k] /\ build'[k] = build[k]
      BY <1>5 DEF ReadIndex, TypeOK
    <2> QED
      BY <1>0, <2>3, <2>4, OthersInOrder
  <1>6. CASE ListViews(l) /\ ~Fail(l)
    <2>1. pc[l] = "list" /\ pc'[l] = "views" /\ build' = build
      BY <1>6 DEF ListViews, TypeOK
    <2>2. InOrder(l)'
      BY <1>0, <2>1 DEF InOrder, Sequence, Loaded
    <2>3. \A k \in Loader \ {l} : pc'[k] = pc[k] /\ build'[k] = build[k]
      BY <1>6 DEF ListViews, TypeOK
    <2> QED
      BY <1>0, <2>2, <2>3, OthersInOrder
  <1>7. CASE ReadView(l) /\ ~Fail(l)
    <2>1. PICK f \in todo[l] :
            /\ ViewReadable(l, f)
            /\ build' = [build EXCEPT ![l].views[f] = disk]
            /\ UNCHANGED pc
      BY <1>7 DEF ReadView
    <2>2. /\ disk \in Release /\ f \in ViewFile
          /\ pc[l] = "views" /\ pc'[l] = "views"
      BY <1>7, <2>1 DEF ViewReadable, TypeOK, ReadView
    <2>3. /\ build'[l].manifest = build[l].manifest
          /\ build'[l].index = build[l].index
          /\ build'[l].views = [build[l].views EXCEPT ![f] = disk]
      BY <1>0, <2>1 DEF TypeOK, Store
    <2>4. build[l].views \in [ViewFile -> Origin]
      BY <1>0 DEF Store
    <2>5. Loaded(build[l])' \subseteq Loaded(build[l]) \cup {f}
      BY <2>2, <2>3, <2>4 DEF Loaded
    <2>6. ASSUME NEW g \in Loaded(build[l])'
          PROVE  Dir[build'[l].index].sequence <= Dir[build'[l].views[g]].sequence
      <3>1. CASE g = f
        BY <1>0, <1>1, <2>2, <2>3, <2>4, <3>1 DEF InOrder
      <3>2. CASE g # f
        <4>1. g \in Loaded(build[l]) /\ build'[l].views[g] = build[l].views[g]
          BY <2>3, <2>4, <2>5, <2>6, <3>2 DEF Loaded
        <4> QED
          BY <1>0, <2>3, <4>1 DEF InOrder
      <3> QED
        BY <3>1, <3>2
    <2>7. InOrder(l)'
      BY <1>0, <2>2, <2>3, <2>6 DEF InOrder, Sequence
    <2>8. \A k \in Loader \ {l} : pc'[k] = pc[k] /\ build'[k] = build[k]
      BY <2>1 DEF TypeOK
    <2> QED
      BY <1>0, <2>7, <2>8, OthersInOrder
  <1> QED
    BY <1>3, <1>4, <1>5, <1>6, <1>7 DEF Load

LEMMA ReplacedInOrder ==
  ASSUME NEW l \in Loader, InOrder(l), pc[l] = "views", served' = build[l]
  PROVE  ContentNotOlder'
  BY DEF InOrder, ContentNotOlder, Sequence, Loaded

LEMMA OrderStep ==
  ASSUME Increasing, Inv, OrderInv, [Next]_vars
  PROVE  OrderInv'
  <1>0. TypeOK /\ \A r \in Release : Dir[r].sequence \in Int
    BY DEF Inv, DirContent
  <1>1. ASSUME NEW r \in Release, Place(r) PROVE OrderInv'
    <2>1. /\ newest < newest' /\ newest' = Dir[r].sequence /\ disk' = r
          /\ pc' = pc /\ build' = build /\ served' = served
      BY <1>1 DEF Place, loaders
    <2>2. ASSUME NEW l \in Loader PROVE InOrder(l)'
      <3>1. InOrder(l) /\ Reading(l) /\ newest \in Int /\ newest' \in Int
        BY <1>0, <2>1 DEF OrderInv, Inv, ReadingInv, TypeOK
      <3> QED
        BY <1>0, <2>1, <3>1 DEF InOrder, Reading, Sequence, Loaded
    <2>3. ContentNotOlder'
      BY <2>1, NotOlderKept DEF OrderInv
    <2> QED
      BY <2>1, <2>2, <2>3 DEF OrderInv
  <1>2. CASE MoveAside
    <2>1. /\ disk' = Absent /\ newest' = newest
          /\ pc' = pc /\ build' = build /\ served' = served
      BY <1>2 DEF MoveAside, loaders
    <2>2. ASSUME NEW l \in Loader PROVE InOrder(l)'
      BY <2>1 DEF OrderInv, InOrder, Sequence, Loaded
    <2>3. ContentNotOlder'
      BY <2>1, NotOlderKept DEF OrderInv
    <2> QED
      BY <2>1, <2>2, <2>3 DEF OrderInv
  <1>3. ASSUME disk' = disk, newest' = newest, served' = served, loaders' = loaders
        PROVE  OrderInv'
    <2>1. ASSUME NEW l \in Loader PROVE InOrder(l)'
      BY <1>3 DEF OrderInv, InOrder, Sequence, Loaded, loaders
    <2>2. ContentNotOlder'
      BY <1>3, NotOlderKept DEF OrderInv
    <2> QED
      BY <1>3, <2>1, <2>2 DEF OrderInv
  <1>4. ASSUME NEW l \in Loader, Load(l) PROVE OrderInv'
    BY <1>4, LoadInOrder
  <1>5. CASE Start
    <2>1. /\ Boot \in Loader /\ pc[Boot] = "views" /\ served' = build[Boot]
          /\ disk' = disk /\ newest' = newest /\ Finish(Boot, "idle")
      BY <1>5 DEF Start, Loader, env
    <2>2. ContentNotOlder'
      BY <2>1, ReplacedInOrder DEF OrderInv
    <2> QED
      BY <1>0, <2>1, <2>2, FinishInOrder, OthersInOrder
  <1>6. ASSUME NEW h \in Handler, Post(h) PROVE OrderInv'
    <2>1. /\ h \in Loader /\ pc[h] = "idle" /\ pc'[h] = "manifest"
          /\ disk' = disk /\ newest' = newest /\ served' = served
          /\ build' = build
          /\ \A k \in Loader \ {h} : pc'[k] = pc[k] /\ build'[k] = build[k]
      BY <1>0, <1>6 DEF Post, TypeOK, Loader
    <2>2. InOrder(h)'
      BY <2>1 DEF OrderInv, InOrder, Loaded
    <2> QED
      BY <2>1, <2>2, OthersInOrder, NotOlderKept DEF OrderInv
  <1>7. ASSUME NEW h \in Handler, Swap(h) PROVE OrderInv'
    <2>1. /\ h \in Loader /\ pc[h] = "views" /\ served' = build[h]
          /\ disk' = disk /\ newest' = newest /\ Finish(h, "idle")
      BY <1>7 DEF Swap, Loader, env
    <2>2. ContentNotOlder'
      BY <2>1, ReplacedInOrder DEF OrderInv
    <2> QED
      BY <1>0, <2>1, <2>2, FinishInOrder, OthersInOrder
  <1>8. ASSUME NEW h \in Handler, RejectRollback(h) PROVE OrderInv'
    <2>1. h \in Loader /\ served' = served /\ disk' = disk /\ newest' = newest
      BY <1>8 DEF Loader, RejectRollback, Fail, env
    <2>2. PICK step \in {"idle", "exited"} : Finish(h, step)
      BY <1>8 DEF RejectRollback, Fail
    <2>3. ContentNotOlder'
      BY <2>1, NotOlderKept DEF OrderInv
    <2> QED
      BY <1>0, <2>1, <2>2, <2>3, FinishInOrder, OthersInOrder
  <1>9. CASE SetClock
    BY <1>3, <1>9 DEF SetClock
  <1>10. CASE UNCHANGED vars
    BY <1>3, <1>10 DEF vars, loaders
  <1> QED
    BY <1>1, <1>2, <1>4, <1>5, <1>6, <1>7, <1>8, <1>9, <1>10
    DEF Next, Environment, Reload, Loader

LEMMA OrderInit == Init => OrderInv
  <1> SUFFICES ASSUME Init PROVE OrderInv
    OBVIOUS
  <1>1. ASSUME NEW l \in Loader PROVE InOrder(l)
    <2>1. build[l] = NothingRead /\ pc[l] \in {"manifest", "idle"}
      BY DEF Init
    <2> QED
      BY <2>1, NothingReadValidated DEF InOrder
  <1>2. disk \in Release => Dir[disk].sequence = newest
    BY DEF Init
  <1>3. ContentNotOlder
    BY DEF Init, ContentNotOlder
  <1> QED
    BY <1>1, <1>2, <1>3 DEF OrderInv

(* If every release placed has a higher sequence than the last, no client  *)
(* is shown an index older than the manifest or a view older than the      *)
(* index, even from a store that mixes releases.                           *)
THEOREM NeverOlder == Spec => []ContentNotOlder
  <1>1. CASE Increasing
    <2>1. Inv /\ OrderInv /\ [Next]_vars => OrderInv'
      BY <1>1, OrderStep
    <2>2. OrderInv => ContentNotOlder
      BY DEF OrderInv
    <2> QED
      BY <2>1, <2>2, OrderInit, Invariance, PTL DEF Spec
  <1>2. CASE ~Increasing
    <2>1. ContentNotOlder
      BY <1>2 DEF ContentNotOlder
    <2> QED
      BY <2>1, PTL
  <1> QED
    BY <1>1, <1>2
-----------------------------------------------------------------------------
(* The newest release, when sequences increase. *)

(* The releases at store_dir and those whose manifest is in memory. *)
Seen ==
  {m \in Release : \/ m = disk
                   \/ served # NoStore /\ m = served.manifest
                   \/ \E l \in Loader : m = build[l].manifest}

(* One release at most has the newest sequence, and none has a higher one. *)
Agreed ==
  /\ \A m \in Seen : Dir[m].sequence <= newest
  /\ \A m, n \in Seen : Dir[m].sequence = newest /\ Dir[n].sequence = newest => m = n

(* A load whose manifest is the newest has read everything from its release. *)
FromNewest(l) ==
  (pc[l] \in {"index", "list", "views"} /\ Sequence(build[l]) = newest) =>
    /\ pc[l] \in {"list", "views"} => build[l].index = build[l].manifest
    /\ pc[l] = "views" =>
         /\ todo[l] \subseteq Files(build[l].manifest)
         /\ \A f \in ViewFile :
              build[l].views[f] = IF f \in Files(build[l].manifest) \ todo[l]
                                  THEN build[l].manifest ELSE NoFile

NewestInv == Agreed /\ (\A l \in Loader : FromNewest(l)) /\ TornIsOutdated

(* Loads and swaps show no manifest that was not seen before. *)
LEMMA AgreedKept ==
  ASSUME Agreed, NEW l \in Loader, newest' = newest, disk' \in {disk, Absent},
         served' = served \/ served' = build[l],
         build'[l].manifest \in {build[l].manifest, disk, NoFile},
         \A k \in Loader \ {l} : build'[k] = build[k]
  PROVE  Agreed'
  <1>1. Seen' \subseteq Seen
    BY DEF Seen
  <1> QED
    BY <1>1 DEF Agreed

LEMMA OthersFromNewest ==
  ASSUME NEW k \in Loader, FromNewest(k), newest' = newest,
         pc'[k] = pc[k], build'[k] = build[k], todo'[k] = todo[k]
  PROVE  FromNewest(k)'
  BY DEF FromNewest, Sequence, Files

LEMMA TornKept ==
  ASSUME TornIsOutdated, served' = served, newest' = newest
  PROVE  TornIsOutdated'
  BY DEF TornIsOutdated, Sequence, WholeStore, Files

(* What is at store_dir is the release a load of the newest began with. *)
LEMMA StillThere ==
  ASSUME Inv, OrderInv, Agreed, NEW l \in Loader, disk \in Release,
         pc[l] \in {"index", "list", "views"}, Sequence(build[l]) = newest
  PROVE  build[l].manifest = disk
  <1>1. build[l].manifest \in Release /\ Dir[disk].sequence = newest
    BY DEF Inv, ReadingInv, Reading, OrderInv
  <1>2. build[l].manifest \in Seen /\ disk \in Seen
    BY <1>1 DEF Seen
  <1> QED
    BY <1>1, <1>2 DEF Agreed, Sequence

LEMMA FinishFromNewest ==
  ASSUME NEW l \in Loader, TypeOK, NEW step \in {"idle", "exited"}, Finish(l, step)
  PROVE  /\ FromNewest(l)' /\ build'[l].manifest = NoFile
         /\ \A k \in Loader \ {l} :
              pc'[k] = pc[k] /\ build'[k] = build[k] /\ todo'[k] = todo[k]
  <1>1. pc'[l] = step /\ build'[l] = NothingRead
    BY DEF Finish, TypeOK
  <1>2. FromNewest(l)'
    BY <1>1 DEF FromNewest
  <1>3. build'[l].manifest = NoFile
    BY <1>1 DEF NothingRead
  <1> QED
    BY <1>2, <1>3 DEF Finish, TypeOK

LEMMA LoadFromNewest ==
  ASSUME NEW l \in Loader, Inv, OrderInv, NewestInv, Load(l)
  PROVE  NewestInv'
  <1> USE DEF Inv
  <1>0. /\ disk' = disk /\ newest' = newest /\ served' = served
        /\ build[l] \in Store /\ Reading(l) /\ FromNewest(l)
        /\ TornIsOutdated'
    BY LoadServed, TornKept DEF env, TypeOK, ReadingInv, NewestInv
  <1>1. ASSUME FromNewest(l)',
               build'[l].manifest \in {build[l].manifest, disk, NoFile},
               \A k \in Loader \ {l} :
                 pc'[k] = pc[k] /\ build'[k] = build[k] /\ todo'[k] = todo[k]
        PROVE  NewestInv'
    BY <1>0, <1>1, AgreedKept, OthersFromNewest DEF NewestInv
  <1>2. CASE Fail(l)
    <2>1. PICK step \in {"idle", "exited"} : Finish(l, step)
      BY <1>2 DEF Fail
    <2> QED
      BY <1>1, <2>1, FinishFromNewest
  <1>3. CASE ReadManifest(l) /\ ~Fail(l)
    <2>1. pc'[l] = "index" /\ build'[l] = [build[l] EXCEPT !.manifest = disk]
      BY <1>3 DEF ReadManifest, TypeOK
    <2>2. FromNewest(l)' /\ build'[l].manifest = disk
      BY <1>0, <2>1 DEF FromNewest, Store
    <2>3. \A k \in Loader \ {l} :
            pc'[k] = pc[k] /\ build'[k] = build[k] /\ todo'[k] = todo[k]
      BY <1>3 DEF ReadManifest, TypeOK
    <2> QED
      BY <1>1, <2>2, <2>3
  <1>4. CASE ReadIndex(l) /\ ~Fail(l)
    <2>1. /\ disk \in Release /\ pc[l] = "index" /\ pc'[l] = "list"
          /\ build'[l] = [build[l] EXCEPT !.index = disk]
      BY <1>4 DEF ReadIndex, TypeOK
    <2>2. build'[l].index = disk /\ build'[l].manifest = build[l].manifest
      BY <1>0, <2>1 DEF Store
    <2>3. Sequence(build[l]) = newest => build[l].manifest = disk
      BY <2>1, StillThere DEF NewestInv
    <2>4. FromNewest(l)'
      BY <1>0, <2>1, <2>2, <2>3 DEF FromNewest, Sequence
    <2>5. \A k \in Loader \ {l} :
            pc'[k] = pc[k] /\ build'[k] = build[k] /\ todo'[k] = todo[k]
      BY <1>4 DEF ReadIndex, TypeOK
    <2> QED
      BY <1>1, <2>2, <2>4, <2>5
  <1>5. CASE ListViews(l) /\ ~Fail(l)
    <2>1. /\ disk \in Release /\ pc[l] = "list" /\ pc'[l] = "views"
          /\ build'[l] = build[l] /\ todo'[l] = Files(disk)
      BY <1>5 DEF ListViews, TypeOK
    <2>2. \A f \in ViewFile : build[l].views[f] = NoFile
      BY <1>0, <2>1 DEF Reading, Loaded
    <2>3. Sequence(build[l]) = newest => build[l].manifest = disk
      BY <2>1, StillThere DEF NewestInv
    <2>4. FromNewest(l)'
      BY <1>0, <2>1, <2>2, <2>3 DEF FromNewest, Sequence, Files
    <2>5. \A k \in Loader \ {l} :
            pc'[k] = pc[k] /\ build'[k] = build[k] /\ todo'[k] = todo[k]
      BY <1>5 DEF ListViews, TypeOK
    <2> QED
      BY <1>1, <2>1, <2>4, <2>5
  <1>6. CASE ReadView(l) /\ ~Fail(l)
    <2>1. PICK f \in todo[l] :
            /\ ViewReadable(l, f)
            /\ build' = [build EXCEPT ![l].views[f] = disk]
            /\ todo' = [todo EXCEPT ![l] = @ \ {f}]
            /\ UNCHANGED pc
      BY <1>6 DEF ReadView
    <2>2. /\ disk \in Release /\ f \in ViewFile /\ todo'[l] = todo[l] \ {f}
          /\ pc[l] = "views" /\ pc'[l] = "views"
      BY <1>6, <2>1 DEF ViewReadable, TypeOK, ReadView
    <2>3. /\ build'[l].manifest = build[l].manifest
          /\ build'[l].index = build[l].index
          /\ build'[l].views = [build[l].views EXCEPT ![f] = disk]
      BY <1>0, <2>1 DEF TypeOK, Store
    <2>4. build[l].views \in [ViewFile -> Origin]
      BY <1>0 DEF Store
    <2>5. FromNewest(l)'
      <3> SUFFICES ASSUME Sequence(build[l]) = newest PROVE FromNewest(l)'
        BY <1>0, <2>3 DEF FromNewest, Sequence
      <3>1. build[l].manifest = disk
        BY <2>2, StillThere DEF NewestInv
      <3>2. /\ build[l].index = disk /\ todo[l] \subseteq Files(disk)
            /\ \A g \in ViewFile :
                 build[l].views[g] = IF g \in Files(disk) \ todo[l] THEN disk ELSE NoFile
        BY <1>0, <2>2, <3>1 DEF FromNewest
      <3>3. ASSUME NEW g \in ViewFile
            PROVE  build'[l].views[g] =
                     IF g \in Files(disk) \ todo'[l] THEN disk ELSE NoFile
        BY <2>1, <2>2, <2>3, <2>4, <3>2
      <3>4. todo'[l] \subseteq Files(disk)
        BY <2>2, <3>2
      <3> QED
        BY <2>3, <3>1, <3>2, <3>3, <3>4 DEF FromNewest, Files
    <2>6. \A k \in Loader \ {l} :
            pc'[k] = pc[k] /\ build'[k] = build[k] /\ todo'[k] = todo[k]
      BY <2>1 DEF TypeOK
    <2> QED
      BY <1>1, <2>3, <2>5, <2>6
  <1> QED
    BY <1>2, <1>3, <1>4, <1>5, <1>6 DEF Load

(* A load of the newest that is complete has the whole of it. *)
LEMMA NewestLoaded ==
  ASSUME Inv, NEW l \in Loader, FromNewest(l), pc[l] = "views", todo[l] = {},
         Sequence(build[l]) = newest
  PROVE  build[l] = WholeStore(build[l].manifest)
  <1>1. build[l] \in Store
    BY DEF Inv, TypeOK
  <1>2. /\ build[l].index = build[l].manifest
        /\ \A f \in ViewFile :
             build[l].views[f] = IF f \in Files(build[l].manifest)
                                 THEN build[l].manifest ELSE NoFile
    BY DEF FromNewest
  <1>3. build[l].views = WholeStore(build[l].manifest).views
    BY <1>1, <1>2 DEF Store, WholeStore
  <1> QED
    BY <1>1, <1>2, <1>3 DEF Store, WholeStore

LEMMA ReplacedByNewest ==
  ASSUME Inv, NewestInv, NEW l \in Loader, pc[l] = "views", todo[l] = {},
         served' = build[l], newest' = newest, disk' = disk, Finish(l, "idle")
  PROVE  NewestInv'
  <1>1. /\ FromNewest(l)' /\ build'[l].manifest = NoFile
        /\ \A k \in Loader \ {l} :
             pc'[k] = pc[k] /\ build'[k] = build[k] /\ todo'[k] = todo[k]
    BY FinishFromNewest DEF Inv
  <1>2. Agreed'
    BY <1>1, AgreedKept DEF NewestInv
  <1>3. TornIsOutdated'
    <2>1. Sequence(build[l]) = newest => build[l] = WholeStore(build[l].manifest)
      BY NewestLoaded DEF NewestInv
    <2> QED
      BY <2>1 DEF TornIsOutdated, Sequence, WholeStore, Files
  <1> QED
    BY <1>1, <1>2, <1>3, OthersFromNewest DEF NewestInv

(* Placing a release outdates everything that is in memory. *)
LEMMA PlaceNewest ==
  ASSUME Increasing, Inv, OrderInv, NewestInv, NEW r \in Release, Place(r)
  PROVE  NewestInv'
  <1>1. /\ newest < newest' /\ newest' = Dir[r].sequence /\ disk' = r
        /\ newest \in Int /\ \A m \in Release : Dir[m].sequence \in Int
        /\ pc' = pc /\ build' = build /\ served' = served
    BY DEF Place, loaders, Inv, TypeOK, DirContent
  <1>2. Seen' \subseteq Seen \cup {r} /\ Seen \subseteq Release
    BY <1>1 DEF Seen
  <1>3. Agreed'
    BY <1>1, <1>2 DEF NewestInv, Agreed
  <1>4. ASSUME NEW l \in Loader PROVE FromNewest(l)'
    <2>1. pc[l] \in {"index", "list", "views"} => Sequence(build[l]) < newest'
      BY <1>1 DEF Inv, ReadingInv, Reading, OrderInv, InOrder, Sequence
    <2>2. Sequence(build[l])' = Sequence(build[l])
      BY <1>1 DEF Sequence
    <2> QED
      BY <1>1, <2>1, <2>2 DEF FromNewest, Inv, ReadingInv, Reading, Sequence
  <1>5. TornIsOutdated'
    <2>1. served # NoStore => served.manifest \in Seen
      BY DEF Inv, ServedValidated, Seen
    <2>2. served # NoStore => Sequence(served) < newest'
      BY <1>1, <1>2, <2>1 DEF NewestInv, Agreed, Sequence
    <2> QED
      BY <1>1, <1>2, <2>1, <2>2 DEF TornIsOutdated, Sequence
  <1> QED
    BY <1>3, <1>4, <1>5 DEF NewestInv

LEMMA NewestStep ==
  ASSUME Increasing, Inv, OrderInv, NewestInv, [Next]_vars
  PROVE  NewestInv'
  <1>0. TypeOK
    BY DEF Inv
  <1>1. ASSUME NEW r \in Release, Place(r) PROVE NewestInv'
    BY <1>1, PlaceNewest
  <1>2. ASSUME disk' \in {disk, Absent}, newest' = newest, served' = served,
               loaders' = loaders
        PROVE  NewestInv'
    <2>1. Agreed'
      BY <1>2 DEF NewestInv, Agreed, Seen, loaders
    <2> QED
      BY <1>2, <2>1, OthersFromNewest, TornKept DEF NewestInv, loaders
  <1>3. ASSUME NEW l \in Loader, Load(l) PROVE NewestInv'
    BY <1>3, LoadFromNewest
  <1>4. CASE Start
    BY <1>4, ReplacedByNewest DEF Start, Loader, env
  <1>5. ASSUME NEW h \in Handler, Post(h) PROVE NewestInv'
    <2>1. /\ h \in Loader /\ pc'[h] = "manifest" /\ build' = build /\ todo' = todo
          /\ disk' = disk /\ newest' = newest /\ served' = served
          /\ \A k \in Loader \ {h} : pc'[k] = pc[k]
      BY <1>0, <1>5 DEF Post, TypeOK, Loader
    <2>2. FromNewest(h)'
      BY <2>1 DEF FromNewest
    <2>3. Agreed'
      BY <2>1, AgreedKept DEF NewestInv
    <2> QED
      BY <2>1, <2>2, <2>3, OthersFromNewest, TornKept DEF NewestInv
  <1>6. ASSUME NEW h \in Handler, Swap(h) PROVE NewestInv'
    BY <1>6, ReplacedByNewest DEF Swap, Loader, env
  <1>7. ASSUME NEW h \in Handler, RejectRollback(h) PROVE NewestInv'
    <2>1. h \in Loader /\ served' = served /\ disk' = disk /\ newest' = newest
      BY <1>7 DEF Loader, RejectRollback, Fail, env
    <2>2. PICK step \in {"idle", "exited"} : Finish(h, step)
      BY <1>7 DEF RejectRollback, Fail
    <2>3. /\ FromNewest(h)' /\ build'[h].manifest = NoFile
          /\ \A k \in Loader \ {h} :
               pc'[k] = pc[k] /\ build'[k] = build[k] /\ todo'[k] = todo[k]
      BY <1>0, <2>1, <2>2, FinishFromNewest
    <2>4. Agreed'
      BY <2>1, <2>3, AgreedKept DEF NewestInv
    <2> QED
      BY <2>1, <2>3, <2>4, OthersFromNewest, TornKept DEF NewestInv
  <1>8. CASE MoveAside \/ SetClock
    BY <1>2, <1>8 DEF MoveAside, SetClock
  <1>9. CASE UNCHANGED vars
    BY <1>2, <1>9 DEF vars, loaders
  <1> QED
    BY <1>1, <1>3, <1>4, <1>5, <1>6, <1>7, <1>8, <1>9
    DEF Next, Environment, Reload, Loader

LEMMA NewestInit == Init => NewestInv
  <1> SUFFICES ASSUME Init PROVE NewestInv
    OBVIOUS
  <1>1. \A l \in Loader : build[l].manifest = NoFile /\ pc[l] \in {"manifest", "idle"}
    BY DEF Init, NothingRead
  <1>2. Seen \subseteq {disk} /\ (disk \in Release => Dir[disk].sequence = newest)
    BY <1>1 DEF Init, Seen
  <1>3. Agreed
    BY <1>2 DEF Agreed, Seen, Init, DirContent
  <1> QED
    BY <1>1, <1>3 DEF Init, NewestInv, FromNewest, TornIsOutdated

LEMMA NewestInvariance == Increasing => (Spec => [](OrderInv /\ NewestInv))
  <1>1. ASSUME Increasing PROVE Spec => [](OrderInv /\ NewestInv)
    <2>1. Inv /\ OrderInv /\ NewestInv /\ [Next]_vars => (OrderInv /\ NewestInv)'
      BY <1>1, OrderStep, NewestStep
    <2> QED
      BY <2>1, OrderInit, NewestInit, Invariance, PTL DEF Spec
  <1> QED
    BY <1>1

(* As soon as the sequence served is the newest, everything that is served *)
(* comes from that one release, whatever renames its load overlapped.      *)
THEOREM OnlyOutdatedIsTorn == Spec => []TornIsOutdated
  <1>1. CASE Increasing
    <2>1. NewestInv => TornIsOutdated
      BY DEF NewestInv
    <2> QED
      BY <1>1, <2>1, NewestInvariance, PTL
  <1>2. CASE ~Increasing
    <2>1. TornIsOutdated
      BY <1>2 DEF TornIsOutdated
    <2> QED
      BY <2>1, PTL
  <1> QED
    BY <1>1, <1>2

(* No load in flight, of an older release, of a mixture or of the same     *)
(* release, displaces the newest release once it is served.                *)
THEOREM NewestIsKept == Spec => NewestStays
  <1>1. ASSUME Increasing, Inv, OrderInv, NewestInv, [Next]_vars, served' # served,
               served # NoStore, Sequence(served) = newest
        PROVE  FALSE
    <2>1. CASE Start
      BY <1>1, <2>1 DEF Start, Inv, Startup
    <2>2. ASSUME NEW h \in Handler, Swap(h)
          PROVE  FALSE
      <3>1. /\ h \in Loader /\ pc[h] = "views" /\ todo[h] = {} /\ served' = build[h]
            /\ Sequence(served) <= Sequence(build[h])
        BY <2>2 DEF Swap, NotARollback, Loader
      <3>2. build[h].manifest \in Release /\ served.manifest \in Release
        BY <1>1, <3>1 DEF Inv, ReadingInv, Reading, ServedValidated
      <3>3. build[h].manifest \in Seen /\ served.manifest \in Seen
        BY <1>1, <3>1, <3>2 DEF Seen
      <3>4. Sequence(build[h]) <= newest
        BY <1>1, <3>1, <3>3 DEF NewestInv, Agreed, Sequence
      <3>5. newest \in Int /\ Sequence(build[h]) \in Int
        BY <1>1, <3>2 DEF Inv, TypeOK, Sequence, DirContent
      <3>6. Sequence(build[h]) = newest
        BY <1>1, <3>1, <3>4, <3>5
      <3>7. build[h].manifest = served.manifest
        BY <1>1, <3>3, <3>6 DEF NewestInv, Agreed, Sequence
      <3>8. build[h] = WholeStore(build[h].manifest)
        BY <1>1, <3>1, <3>6, NewestLoaded DEF NewestInv
      <3>9. served = WholeStore(served.manifest)
        BY <1>1 DEF NewestInv, TornIsOutdated
      <3> QED
        BY <1>1, <3>1, <3>7, <3>8, <3>9
    <2> QED
      BY <1>1, <2>1, <2>2, ServedChanges
  <1>2. CASE Increasing
    <2>1. Inv /\ OrderInv /\ NewestInv /\ [Next]_vars =>
            [(Increasing /\ served # NoStore /\ Sequence(served) = newest) =>
               served' = served]_served
      BY <1>1
    <2> QED
      BY <1>2, <2>1, NewestInvariance, Invariance, PTL DEF Spec, NewestStays
  <1>3. CASE ~Increasing
    <2>1. [Next]_vars =>
            [(Increasing /\ served # NoStore /\ Sequence(served) = newest) =>
               served' = served]_served
      BY <1>3
    <2> QED
      BY <2>1, PTL DEF Spec, NewestStays
  <1> QED
    BY <1>2, <1>3
=============================================================================
