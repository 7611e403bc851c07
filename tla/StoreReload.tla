----------------------------- MODULE StoreReload -----------------------------
(***************************************************************************)
(* Startup and hot reload of the prepared content store: any number of     *)
(* POST /reload handlers run PreparedContentStore::load_from_dir, one file *)
(* at a time, beside the adapters that rename directories into place, and  *)
(* then swap the shared store under its write lock.                        *)
(*                                                                         *)
(* A loader holds no handle on store_dir: every read_artifact and the      *)
(* listing of views/ resolves the path again, so a rename between two      *)
(* reads is visible.  That interleaving is the subject of the module.      *)
(***************************************************************************)
EXTENDS ContentStore

CONSTANTS
  Handler,       \* concurrent executions of reload_store
  Boot,          \* the load of serve_until_shutdown_with_clock
  NoStore,       \* nothing is served yet
  Time,          \* values of the wall clock
  MayOverlap,    \* may adapters rename while a load is running?
  Increasing     \* does every release placed have a higher sequence than the last?

Loader == Handler \cup {Boot}

ASSUME StoreReloadAssumption ==
  /\ Boot \notin Handler
  /\ NoStore \notin Store
  /\ Time \subseteq Int
  /\ MayOverlap \in BOOLEAN
  /\ Increasing \in BOOLEAN

VARIABLES
  disk,      \* the release at store_dir, or Absent                (external)
  newest,    \* the sequence of the release placed last            (external)
  pending,   \* an adapter has renamed and not yet posted /reload  (external)
  now,       \* the clock                                          (external)
  served,    \* SharedPreparedContentStore
  pc,        \* what each loader does next
  build,     \* the store each loader has read so far
  todo       \* the view files each loader has listed and not yet read

env     == <<disk, newest, pending, now>>
loaders == <<pc, build, todo>>
vars    == <<disk, newest, pending, now, served, pc, build, todo>>

Steps == {"idle", "manifest", "index", "list", "views", "exited"}

TypeOK ==
  /\ disk \in Release \cup {Absent}
  /\ newest \in Int
  /\ pending \in BOOLEAN
  /\ now \in Time
  /\ served \in Store \cup {NoStore}
  /\ pc \in [Loader -> Steps]
  /\ build \in [Loader -> Store]
  /\ todo \in [Loader -> SUBSET ViewFile]

Busy(l) == pc[l] \notin {"idle", "exited"}

(* Startup: the store is loaded before any listener is bound. *)
Init ==
  /\ disk \in Release \cup {Absent}
  /\ newest = IF disk = Absent THEN 0 ELSE Dir[disk].sequence
  /\ pending = FALSE
  /\ now \in Time
  /\ served = NoStore
  /\ pc = [l \in Loader |-> IF l = Boot THEN "manifest" ELSE "idle"]
  /\ build = [l \in Loader |-> NothingRead]
  /\ todo = [l \in Loader |-> {}]

-----------------------------------------------------------------------------
(* The adapters and the clock. *)

(* "Write all files to the replacement directory, then rename it into      *)
(* place": one atomic exchange, or the second rename of two.               *)
Place(r) ==
  /\ MayOverlap \/ \A l \in Loader : ~Busy(l)
  /\ Increasing => newest < Dir[r].sequence
  /\ disk' = r
  /\ newest' = Dir[r].sequence
  /\ pending' = TRUE
  /\ UNCHANGED <<now, served, loaders>>

(* The first rename of two: rename(2) does not replace a non-empty directory. *)
MoveAside ==
  /\ MayOverlap \/ \A l \in Loader : ~Busy(l)
  /\ disk # Absent
  /\ disk' = Absent
  /\ UNCHANGED <<newest, pending, now, served, loaders>>

(* SystemClock follows the wall clock, which may also be set back. *)
SetClock ==
  /\ now' \in Time \ {now}
  /\ UNCHANGED <<disk, newest, pending, served, loaders>>

-----------------------------------------------------------------------------
(* load_from_dir *)

(* A POST /reload arrives; listeners are bound only after startup has loaded. *)
Post(h) ==
  /\ pc[h] = "idle"
  /\ served # NoStore
  /\ pc' = [pc EXCEPT ![h] = "manifest"]
  /\ pending' = FALSE
  /\ UNCHANGED <<disk, newest, now, served, build, todo>>

(* The loader's state is dropped.  A handler answers 409 and the store in  *)
(* memory stays; startup ends the process.                                 *)
Finish(l, step) ==
  /\ pc' = [pc EXCEPT ![l] = step]
  /\ build' = [build EXCEPT ![l] = NothingRead]
  /\ todo' = [todo EXCEPT ![l] = {}]

(* Mutant: a handler that fails is never free again. *)
FailStuck(l) ==
  /\ Finish(l, "exited")
  /\ UNCHANGED <<env, served>>

Fail(l) ==
  /\ Finish(l, IF l = Boot THEN "exited" ELSE "idle")
  /\ UNCHANGED <<env, served>>

(* Mutants: a missing manifest is taken for an empty one; the lifetime cap *)
(* is not checked.                                                         *)
ManifestReadableIfAbsent == disk = Absent \/ ValidManifest(disk, now)

ManifestReadableAnyLifetime ==
  /\ disk # Absent
  /\ "manifest" \in Dir[disk].sound
  /\ now < Dir[disk].expires_at

ManifestReadable == disk # Absent /\ ValidManifest(disk, now)

ReadManifest(l) ==
  /\ pc[l] = "manifest"
  /\ IF ManifestReadable
     THEN /\ pc' = [pc EXCEPT ![l] = "index"]
          /\ build' = [build EXCEPT ![l].manifest = disk]
          /\ UNCHANGED <<env, served, todo>>
     ELSE Fail(l)

ReadIndex(l) ==
  /\ pc[l] = "index"
  /\ IF disk # Absent /\ "index" \in Dir[disk].sound
     THEN /\ pc' = [pc EXCEPT ![l] = "list"]
          /\ build' = [build EXCEPT ![l].index = disk]
          /\ UNCHANGED <<env, served, todo>>
     ELSE Fail(l)

ListViews(l) ==
  /\ pc[l] = "list"
  /\ IF disk # Absent /\ "views" \in Dir[disk].sound
     THEN /\ pc' = [pc EXCEPT ![l] = "views"]
          /\ todo' = [todo EXCEPT ![l] = Files(disk)]
          /\ UNCHANGED <<env, served, build>>
     ELSE Fail(l)

(* Mutant: the target may be taken. *)
ViewReadableTwice(l, f) ==
  /\ disk # Absent
  /\ Dir[disk].views[f] \in Target

(* The listed file is still there, decodes, and its target is not taken. *)
ViewReadable(l, f) ==
  /\ disk # Absent
  /\ Dir[disk].views[f] \in Target
  /\ Dir[disk].views[f] \notin Targets(build[l])

(* Mutant: a view that is not readable is skipped. *)
ReadViewSkipping(l) ==
  /\ pc[l] = "views"
  /\ \E f \in todo[l] :
       /\ build' = IF ViewReadable(l, f) THEN [build EXCEPT ![l].views[f] = disk]
                                        ELSE build
       /\ todo' = [todo EXCEPT ![l] = @ \ {f}]
       /\ UNCHANGED <<env, served, pc>>

(* The paths are sorted: the least listed file is read next. *)
ReadView(l) ==
  /\ pc[l] = "views"
  /\ \E f \in todo[l] :
       /\ \A g \in todo[l] : f <= g
       /\ IF ViewReadable(l, f)
          THEN /\ build' = [build EXCEPT ![l].views[f] = disk]
               /\ todo' = [todo EXCEPT ![l] = @ \ {f}]
               /\ UNCHANGED <<env, served, pc>>
          ELSE Fail(l)

(* Startup succeeds: the store is shared and the listeners are bound. *)
Start ==
  /\ pc[Boot] = "views"
  /\ todo[Boot] = {}
  /\ served' = build[Boot]
  /\ Finish(Boot, "idle")
  /\ UNCHANGED env

-----------------------------------------------------------------------------
(* reload_store, after its load: compare and assign under the write lock. *)

(* Mutant: sequences are not compared. *)
NotARollbackUnchecked(h) == TRUE

NotARollback(h) == Sequence(served) <= Sequence(build[h])

(* Mutant: the manifest is read again before the swap. *)
SwapRereading(h) ==
  /\ pc[h] = "views"
  /\ todo[h] = {}
  /\ NotARollback(h)
  /\ disk # Absent
  /\ served' = [build[h] EXCEPT !.manifest = disk]
  /\ Finish(h, "idle")
  /\ UNCHANGED env

Swap(h) ==
  /\ pc[h] = "views"
  /\ todo[h] = {}
  /\ NotARollback(h)
  /\ served' = build[h]
  /\ Finish(h, "idle")
  /\ UNCHANGED env

RejectRollback(h) ==
  /\ pc[h] = "views"
  /\ todo[h] = {}
  /\ ~NotARollback(h)
  /\ Fail(h)

-----------------------------------------------------------------------------
Environment == (\E r \in Release : Place(r)) \/ MoveAside \/ SetClock

Load(l) == ReadManifest(l) \/ ReadIndex(l) \/ ListViews(l) \/ ReadView(l)

Reload(h) == Load(h) \/ Swap(h) \/ RejectRollback(h)

Next ==
  \/ Environment
  \/ Load(Boot) \/ Start
  \/ \E h \in Handler : Post(h) \/ Reload(h)

Spec == Init /\ [][Next]_vars

(* A load has no await: once begun it runs to its end.  An adapter that    *)
(* has renamed a release into place posts /reload ("then reload").         *)
Fairness ==
  /\ WF_vars(Load(Boot) \/ Start)
  /\ \A h \in Handler : WF_vars(Reload(h))
  /\ WF_vars(pending /\ \E h \in Handler : Post(h))

FairSpec == Spec /\ Fairness

-----------------------------------------------------------------------------
(* Everything read so far passed its checks in the release it was read     *)
(* from, and no two views answer for the same request target.              *)
Validated(s) ==
  /\ s.manifest # NoFile => SoundManifest(s.manifest)
  /\ s.index # NoFile => "index" \in Dir[s.index].sound
  /\ \A f \in Loaded(s) : TargetOf(s, f) \in Target
  /\ \A f, g \in Loaded(s) : TargetOf(s, f) = TargetOf(s, g) => f = g

(* Only validated artifacts are served, however renames and loads overlap: *)
(* the store in memory has a manifest and an index, and they and all its   *)
(* views are validated (load_from_dir, INTEGRATION.md "serves only         *)
(* validated artifacts").                                                  *)
ServedValidated ==
  served # NoStore =>
    /\ {served.manifest, served.index} \subseteq Release
    /\ Validated(served)

(* The store in memory is the whole of one release, provided that nobody   *)
(* renames a directory into place while a load is running.                 *)
ServedWhole ==
  served # NoStore => \E r \in Release : served = WholeStore(r)

(* With sequences that increase from release to release, what a served     *)
(* store shows is never older than its manifest says: load_from_dir reads  *)
(* the manifest before the index and the index before the views.           *)
ContentNotOlder ==
  (Increasing /\ served # NoStore) =>
    /\ Sequence(served) <= Dir[served.index].sequence
    /\ \A f \in Loaded(served) :
         Dir[served.index].sequence <= Dir[served.views[f]].sequence

(* A store that mixes releases is served only while a still newer release  *)
(* has been placed: as soon as the sequence served is the newest, all that *)
(* is served comes from that one release (the reads of load_from_dir, in   *)
(* their order, against the adapters' renames).                            *)
TornIsOutdated ==
  (Increasing /\ served # NoStore /\ Sequence(served) = newest) =>
    served = WholeStore(served.manifest)

(* Once the newest release is served, no reload changes what is served:    *)
(* not one that loaded an older release, a mixture or the same release     *)
(* again (the comparison of reload_store under the write lock).            *)
NewestStays ==
  [][(Increasing /\ served # NoStore /\ Sequence(served) = newest) =>
       served' = served]_served

(* Rollback protection: whatever the order in which overlapping reloads    *)
(* finish, the sequence served never drops (reload_store compares under    *)
(* the write lock).                                                        *)
SequenceNeverDrops ==
  [][served # NoStore => Sequence(served) <= Sequence(served')]_served

(* A sound release that never expires and that no other release outranks.  *)
Lasting(r) ==
  /\ SoundRelease(r)
  /\ \A t \in Time : ValidManifest(r, t)
  /\ \A q \in Release : Dir[r].sequence <= Dir[q].sequence => q = r

(* Every publication takes effect: when adapters stop at such a release,   *)
(* the gateway ends up serving the whole of it, also after loads that      *)
(* overlapped renames or each other; only a failed startup is exempt.      *)
LatestServed ==
  \A r \in Release :
    (Lasting(r) /\ <>[](disk = r)) =>
      <>[](served = WholeStore(r) \/ pc[Boot] = "exited")

(* The detailed reload implements the atomic one the documents describe.   *)
Cell == INSTANCE StoreCell WITH disk <- disk, served <- served
ImplementsStoreCell == Cell!Spec
=============================================================================
