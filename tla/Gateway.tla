------------------------------- MODULE Gateway -------------------------------
(***************************************************************************)
(* StoreReload composed with the adapters that wait for the answer to      *)
(* their POST /reload and with the readers on the public listener, so that *)
(* what a reader is shown can be related to what was at store_dir when.    *)
(*                                                                         *)
(* A reader asks for one artifact (manifest, index or a view).  Expiry,    *)
(* conditional requests and the origin are left to Serving.                *)
(***************************************************************************)
EXTENDS StoreReload

CONSTANTS
  Reader,    \* clients that make one request at a time
  NoAnswer

ASSUME GatewayAssumption == NoAnswer \notin Int

VARIABLES
  promised,  \* promised[h]: the release that was placed last when h was posted
  acked,     \* history: the highest release whose POST /reload was answered 200
  asked,     \* history: asked[r] is acked at the time when reader r asked
  shown      \* the sequence of the release whose artifact reader r was shown

readers == <<asked, shown>>
gatewayVars == <<vars, promised, acked, asked, shown>>

GatewayTypeOK ==
  /\ TypeOK
  /\ promised \in [Handler -> Int]
  /\ acked \in Int
  /\ asked \in [Reader -> Int]
  /\ shown \in [Reader -> Int \cup {NoAnswer}]

GatewayInit ==
  /\ Init
  /\ promised = [h \in Handler |-> 0]
  /\ acked = 0
  /\ asked = [r \in Reader |-> 0]
  /\ shown = [r \in Reader |-> NoAnswer]

-----------------------------------------------------------------------------
(* The admin listener. *)

(* Steps that neither adapters waiting for an answer nor readers see. *)
Unseen ==
  /\ \/ Environment
     \/ Load(Boot) \/ Start
  /\ UNCHANGED <<promised, acked, readers>>

(* Mutant: a load that fails is answered 200. *)
LoadOrFailAcknowledged(h) ==
  /\ Load(h)
  /\ IF pc'[h] = "idle"
     THEN /\ promised' = [promised EXCEPT ![h] = 0]
          /\ acked' = IF acked < promised[h] THEN promised[h] ELSE acked
     ELSE UNCHANGED <<promised, acked>>
  /\ UNCHANGED readers

(* A load that fails is answered 409. *)
LoadOrFail(h) ==
  /\ Load(h)
  /\ promised' = IF pc'[h] = "idle" THEN [promised EXCEPT ![h] = 0] ELSE promised
  /\ UNCHANGED <<acked, readers>>

PostReload(h) ==
  /\ Post(h)
  /\ promised' = [promised EXCEPT ![h] = newest]
  /\ UNCHANGED <<acked, readers>>

(* 200: taken as answered at the swap, the earliest that it can be. *)
Reloaded(h) ==
  /\ Swap(h)
  /\ promised' = [promised EXCEPT ![h] = 0]
  /\ acked' = IF acked < promised[h] THEN promised[h] ELSE acked
  /\ UNCHANGED readers

(* 409: an older release was loaded. *)
Conflict(h) ==
  /\ RejectRollback(h)
  /\ promised' = [promised EXCEPT ![h] = 0]
  /\ UNCHANGED <<acked, readers>>

-----------------------------------------------------------------------------
(* The public listener. *)

(* Mutant: what the reader was shown before is used again. *)
AskCached(r) ==
  /\ served # NoStore
  /\ asked' = [asked EXCEPT ![r] = acked]
  /\ UNCHANGED <<vars, promised, acked, shown>>

Ask(r) ==
  /\ served # NoStore
  /\ asked' = [asked EXCEPT ![r] = acked]
  /\ shown' = [shown EXCEPT ![r] = NoAnswer]
  /\ UNCHANGED <<vars, promised, acked>>

(* The artifacts in a store, by the release each was read from. *)
Artifacts(s) == {s.manifest, s.index} \cup {s.views[f] : f \in Loaded(s)}

(* current_store takes the snapshot, and the answer is made from it. *)
Show(r) ==
  /\ served # NoStore
  /\ shown[r] = NoAnswer
  /\ \E a \in Artifacts(served) : shown' = [shown EXCEPT ![r] = Dir[a].sequence]
  /\ UNCHANGED <<vars, promised, acked, asked>>

-----------------------------------------------------------------------------
GatewayNext ==
  \/ Unseen
  \/ \E h \in Handler : PostReload(h) \/ LoadOrFail(h) \/ Reloaded(h) \/ Conflict(h)
  \/ \E r \in Reader : Ask(r) \/ Show(r)

GatewaySpec == GatewayInit /\ [][GatewayNext]_gatewayVars

(* The fairness of StoreReload; readers may never ask. *)
GatewayFairSpec == GatewaySpec /\ Fairness

-----------------------------------------------------------------------------
(* Read your publication: an adapter that was answered 200 to a reload     *)
(* posted after its rename, or anybody who asks later, is shown artifacts  *)
(* of that release or of a later one, however reloads and renames overlap, *)
(* provided that every release placed has a higher sequence than the last. *)
PublicationRead ==
  \A r \in Reader : (Increasing /\ shown[r] # NoAnswer) => asked[r] <= shown[r]

(* When the reload posted for the newest release has been answered 200,    *)
(* the whole of that release is served: an adapter need not look whether   *)
(* a second reload, one that began earlier or later, has undone its own.   *)
AcknowledgedIsServed ==
  (Increasing /\ served # NoStore /\ acked = newest) =>
    /\ Sequence(served) = newest
    /\ served = WholeStore(served.manifest)

(* The file-by-file reload, overlapping itself and the adapters' renames,  *)
(* implements the numbered bulletin board, if sequences increase.          *)
Board == IF served = NoStore THEN 0 ELSE Sequence(served)

Bulletins == INSTANCE Bulletin
  WITH newest <- newest, board <- Board, acked <- acked, asked <- asked, shown <- shown

ImplementsBulletin == Bulletins!Spec
=============================================================================
