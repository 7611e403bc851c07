---------------------------- MODULE ContentStore ----------------------------
(***************************************************************************)
(* The prepared content store of crates/store as data: what a directory    *)
(* at store_dir holds, which directories pass the validation of            *)
(* PreparedContentStore::load_from_dir, and what the store built from one  *)
(* is.                                                                     *)
(*                                                                         *)
(* A directory that an adapter puts at store_dir is a "release".  The      *)
(* bytes of an artifact are abstracted to the release they came from, so a *)
(* loaded store is a record of origins: the release its manifest, its view *)
(* index and each of its view files was read from.  That is enough to tell *)
(* a whole store from a mixture of two releases.                           *)
(***************************************************************************)
EXTENDS Integers

CONSTANTS
  Release,      \* the directories that adapters may put at store_dir
  Absent,       \* store_dir does not exist (between the two renames of a swap)
  ViewFile,     \* names of *.json files under views/: their positions in sort order
  Target,       \* request targets (path and query) that views resolve to
  Rejected,     \* a view file that is malformed or whose url cannot be served
  NoFile,       \* the release has no view file of that name / not read yet
  MaxLifetime,  \* MAX_MANIFEST_LIFETIME_SECONDS
  Dir           \* Dir[r] is the content of release r

(* The three parts of a store directory. *)
Part == {"manifest", "index", "views"}

(* `sound' names the parts that exist and decode: manifest.json is a JSON  *)
(* object with every required field of the right type and two timestamps   *)
(* of the accepted form, view-index.json is JSON, views/ can be listed.    *)
DirContent ==
  [sound      : SUBSET Part,
   sequence   : Int,
   issued_at  : Int,
   expires_at : Int,
   views      : [ViewFile -> Target \cup {Rejected, NoFile}]]

ASSUME ContentStoreAssumption ==
  /\ Absent \notin Release
  /\ NoFile \notin Release
  /\ Rejected \notin Target /\ NoFile \notin Target /\ Rejected # NoFile
  /\ ViewFile \subseteq Int
  /\ MaxLifetime \in Int
  /\ Dir \in [Release -> DirContent]

-----------------------------------------------------------------------------
(* validate_manifest_required_fields and validate_manifest_lifecycle.      *)
(* `SoundManifest' is the part that does not read the clock.               *)
SoundManifest(r) ==
  /\ "manifest" \in Dir[r].sound
  /\ Dir[r].sequence >= 0
  /\ Dir[r].issued_at < Dir[r].expires_at
  /\ Dir[r].expires_at - Dir[r].issued_at <= MaxLifetime

ValidManifest(r, t) == SoundManifest(r) /\ t < Dir[r].expires_at

(* The *.json files that json_files lists in views/. *)
Files(r) == {f \in ViewFile : Dir[r].views[f] # NoFile}

(* Every view is accepted and no two resolve to the same request target. *)
SoundViews(r) ==
  /\ \A f \in Files(r) : Dir[r].views[f] # Rejected
  /\ \A f, g \in Files(r) : Dir[r].views[f] = Dir[r].views[g] => f = g

SoundRelease(r) ==
  /\ SoundManifest(r)
  /\ {"index", "views"} \subseteq Dir[r].sound
  /\ SoundViews(r)

-----------------------------------------------------------------------------
(* A PreparedContentStore, complete or under construction. *)
Origin == Release \cup {NoFile}
Store == [manifest : Origin, index : Origin, views : [ViewFile -> Origin]]

NothingRead ==
  [manifest |-> NoFile, index |-> NoFile, views |-> [f \in ViewFile |-> NoFile]]

(* The keys of views_by_request_target (and seen_urls, which has the same). *)
Loaded(s) == {f \in ViewFile : s.views[f] # NoFile}
TargetOf(s, f) == Dir[s.views[f]].views[f]
Targets(s) == {TargetOf(s, f) : f \in Loaded(s)}

(* PreparedContentStore::manifest_sequence. *)
Sequence(s) == Dir[s.manifest].sequence

(* What loading release r gives when nothing is renamed in the meantime. *)
WholeStore(r) ==
  [manifest |-> r,
   index    |-> r,
   views    |-> [f \in ViewFile |-> IF f \in Files(r) THEN r ELSE NoFile]]
=============================================================================
