------------------------------ MODULE StoreCell ------------------------------
(***************************************************************************)
(* What docs/CONTENT-STORE.md promises of a hot reload, as an abstract     *)
(* specification: the store served from memory is always the whole of one  *)
(* sound release, it is replaced in a single step by the release now at    *)
(* store_dir, and never by one with a lower manifest sequence.             *)
(***************************************************************************)
EXTENDS ContentStore

CONSTANT NoStore        \* nothing is served yet (before startup completed)

VARIABLES
  disk,                 \* the release at store_dir, or Absent
  served                \* the store in memory

Init == disk \in Release \cup {Absent} /\ served = NoStore

(* An adapter moves a directory to or away from store_dir. *)
Publish == /\ disk' \in Release \cup {Absent}
           /\ UNCHANGED served

(* Startup, or a successful POST /reload: all or nothing. *)
Replace ==
  /\ disk \in Release
  /\ SoundRelease(disk)
  /\ served # NoStore => Sequence(served) <= Sequence(WholeStore(disk))
  /\ served' = WholeStore(disk)
  /\ UNCHANGED disk

Next == Publish \/ Replace

Spec == Init /\ [][Next]_<<disk, served>>
=============================================================================
