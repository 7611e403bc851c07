---------------------------- MODULE GatewayProofs ----------------------------
(***************************************************************************)
(* What readers are shown, for any number of readers, reloads and          *)
(* releases.  The invariants of StoreReloadProofs carry over: a behaviour  *)
(* of Gateway is one of StoreReload when the added variables are hidden.   *)
(***************************************************************************)
EXTENDS Gateway, StoreReloadProofs

(* Every step of the composition is a step of StoreReload, or none. *)
LEMMA GatewayStep == [GatewayNext]_gatewayVars => [Next]_vars
<1>1. Unseen => Next
  BY DEF Unseen, Next
<1>2. ASSUME NEW h \in Handler, PostReload(h) \/ LoadOrFail(h) \/ Reloaded(h) \/ Conflict(h)
      PROVE  Next
  BY <1>2 DEF PostReload, LoadOrFail, Reloaded, Conflict, Next, Reload
<1>3. ASSUME NEW r \in Reader, Ask(r) \/ Show(r)
      PROVE  UNCHANGED vars
  BY <1>3 DEF Ask, Show
<1>4. UNCHANGED gatewayVars => UNCHANGED vars
  BY DEF gatewayVars
<1> QED
  BY <1>1, <1>2, <1>3, <1>4 DEF GatewayNext

(* Hence everything proved of StoreReload holds of the composition. *)
THEOREM GatewayReloads == GatewaySpec => Spec
BY GatewayStep, PTL DEF GatewaySpec, GatewayInit, Spec

-----------------------------------------------------------------------------
(* Types. *)

LEMMA Sequences ==
  /\ \A r \in Release : Dir[r].sequence \in Int
  /\ NoAnswer \notin Int
  /\ Boot \notin Handler
  /\ NoStore \notin Store
BY ContentStoreAssumption, StoreReloadAssumption, GatewayAssumption
   DEF ContentStoreAssumption, StoreReloadAssumption, GatewayAssumption, DirContent

LEMMA GatewayTypeInit == GatewayInit => GatewayTypeOK
BY InvInit DEF GatewayInit, GatewayTypeOK, Inv

LEMMA TypeKept ==
  ASSUME GatewayTypeOK, Inv, [GatewayNext]_gatewayVars
  PROVE  GatewayTypeOK'
<1> USE DEF GatewayTypeOK
<1>1. TypeOK' /\ newest \in Int
  BY GatewayStep, TypeStep DEF TypeOK
<1>2. CASE Unseen
  BY <1>1, <1>2 DEF Unseen, readers
<1>3. ASSUME NEW h \in Handler, PostReload(h) \/ LoadOrFail(h) \/ Reloaded(h) \/ Conflict(h)
      PROVE  GatewayTypeOK'
  BY <1>1, <1>3 DEF PostReload, LoadOrFail, Reloaded, Conflict, readers
<1>4. ASSUME NEW r \in Reader, Ask(r)
      PROVE  GatewayTypeOK'
  BY <1>1, <1>4 DEF Ask
<1>5. ASSUME NEW r \in Reader, Show(r)
      PROVE  GatewayTypeOK'
  <2>1. PICK a \in Artifacts(served) : shown' = [shown EXCEPT ![r] = Dir[a].sequence]
    BY <1>5 DEF Show
  <2>2. a \in Release
    BY <1>5, <2>1 DEF Show, Artifacts, Inv, ServedValidated, Loaded, TypeOK, Store, Origin
  <2> QED
    BY <1>1, <1>5, <2>1, <2>2, Sequences DEF Show
<1>6. CASE UNCHANGED gatewayVars
  BY <1>1, <1>6 DEF gatewayVars
<1> QED
  BY <1>2, <1>3, <1>4, <1>5, <1>6 DEF GatewayNext

(* Every variable keeps its type in every behaviour of the composition. *)
THEOREM GatewayTypeCorrect == GatewaySpec => []GatewayTypeOK
<1>1. GatewayTypeOK /\ Inv /\ [GatewayNext]_gatewayVars => GatewayTypeOK'
  BY TypeKept
<1> QED
  BY <1>1, GatewayTypeInit, GatewayReloads, Invariance, PTL DEF GatewaySpec

-----------------------------------------------------------------------------
(* Promises and what is read. *)

(* Everything in memory was placed at store_dir at some time. *)
Placed(s) ==
  /\ 0 <= Sequence(s)
  /\ \A a \in Artifacts(s) : Dir[a].sequence <= newest

(* So was what a loader has read so far, and its manifest is not older     *)
(* than what had been placed when its reload was posted.                   *)
Reaching(l) ==
  /\ pc[l] \in {"index", "list", "views"} => 0 <= Sequence(build[l])
  /\ \A f \in Loaded(build[l]) : Dir[build[l].views[f]].sequence <= newest
  /\ (l \in Handler /\ pc[l] = "manifest") => promised[l] <= newest
  /\ (l \in Handler /\ pc[l] \in {"index", "list", "views"}) =>
       promised[l] <= Sequence(build[l])

BoardInv ==
  /\ \A l \in Loader : Reaching(l)
  /\ served # NoStore => Placed(served)
  /\ 0 <= acked /\ acked <= Board

ReaderInv ==
  \A r \in Reader : /\ asked[r] <= acked
                    /\ shown[r] # NoAnswer => asked[r] <= shown[r]

GatewayInv == GatewayTypeOK /\ Inv /\ OrderInv /\ BoardInv /\ ReaderInv

LEMMA GatewayInitInv == GatewayInit => GatewayInv
<1> SUFFICES ASSUME GatewayInit PROVE GatewayInv
  OBVIOUS
<1>1. Init /\ Inv /\ OrderInv
  BY InvInit, OrderInit DEF GatewayInit
<1>2. GatewayTypeOK
  BY GatewayTypeInit
<1>3. \A l \in Loader : Loaded(build[l]) = {} /\ pc[l] \in {"manifest", "idle"}
  BY <1>1, NothingReadValidated DEF Init
<1>4. \A l \in Handler : pc[l] = "idle"
  BY <1>1, Sequences DEF Init, Loader
<1>5. BoardInv
  BY <1>1, <1>3, <1>4 DEF GatewayInit, BoardInv, Init, Reaching, Board
<1>6. ReaderInv
  BY DEF GatewayInit, ReaderInv
<1> QED
  BY <1>1, <1>2, <1>5, <1>6 DEF GatewayInv

(* A loader that is not touched keeps what it has reached, also when a     *)
(* newer release is placed.                                                *)
LEMMA OthersReaching ==
  ASSUME GatewayInv, NEW k \in Loader,
         pc'[k] = pc[k], build'[k] = build[k], newest <= newest', newest' \in Int,
         k \in Handler => promised'[k] = promised[k]
  PROVE  Reaching(k)'
<1>1. Reaching(k) /\ newest \in Int /\ build[k] \in Store /\ Reading(k)
  BY DEF GatewayInv, BoardInv, GatewayTypeOK, TypeOK, Inv, ReadingInv
<1>2. \A f \in Loaded(build[k]) : Dir[build[k].views[f]].sequence \in Int
  <2>1. \A f \in Loaded(build[k]) : build[k].views[f] \in Release
    BY <1>1 DEF Loaded, Store, Origin
  <2> QED
    BY <2>1, Sequences
<1>3. k \in Handler => promised[k] \in Int
  BY DEF GatewayInv, GatewayTypeOK
<1> QED
  BY <1>1, <1>2, <1>3 DEF Reaching, Loaded, Sequence

LEMMA IdleReaching ==
  ASSUME NEW l \in Loader, TypeOK, NEW s \in {"idle", "exited"}, Finish(l, s)
  PROVE  /\ Reaching(l)'
         /\ \A k \in Loader \ {l} : pc'[k] = pc[k] /\ build'[k] = build[k]
<1>1. pc'[l] = s /\ build'[l] = NothingRead
  BY DEF Finish, TypeOK
<1>2. Loaded(build[l])' = {}
  BY <1>1 DEF Loaded, NothingRead
<1>3. Reaching(l)'
  BY <1>1, <1>2 DEF Reaching
<1> QED
  BY <1>3 DEF Finish, TypeOK

LEMMA LoadReaching ==
  ASSUME NEW l \in Loader, GatewayInv, Load(l),
         l \in Handler => (pc'[l] = "idle" \/ promised'[l] = promised[l])
  PROVE  /\ Reaching(l)'
         /\ \A k \in Loader \ {l} : pc'[k] = pc[k] /\ build'[k] = build[k]
<1>0. /\ disk' = disk /\ newest' = newest /\ newest \in Int
      /\ build[l] \in Store /\ Reading(l) /\ Reaching(l) /\ TypeOK
      /\ disk \in Release => Dir[disk].sequence = newest
  BY LoadServed DEF env, GatewayInv, Inv, TypeOK, ReadingInv, BoardInv, OrderInv
<1>1. CASE Fail(l)
  <2>1. PICK s \in {"idle", "exited"} : Finish(l, s)
    BY <1>1 DEF Fail
  <2> QED
    BY <1>0, <2>1, IdleReaching
<1>2. CASE ReadManifest(l) /\ ~Fail(l)
  <2>1. /\ disk \in Release /\ SoundManifest(disk)
        /\ pc[l] = "manifest" /\ pc'[l] = "index"
        /\ build'[l] = [build[l] EXCEPT !.manifest = disk]
    BY <1>0, <1>2 DEF ReadManifest, ManifestReadable, ValidManifest, TypeOK
  <2>2. Loaded(build[l])' = {} /\ build'[l].manifest = disk
    BY <1>0, <2>1 DEF Loaded, Store, Reading
  <2>3. Reaching(l)'
    BY <1>0, <2>1, <2>2 DEF Reaching, Sequence, SoundManifest
  <2>4. \A k \in Loader \ {l} : pc'[k] = pc[k] /\ build'[k] = build[k]
    BY <1>0, <1>2 DEF ReadManifest, TypeOK
  <2> QED
    BY <2>3, <2>4
<1>3. CASE ReadIndex(l) /\ ~Fail(l)
  <2>1. /\ pc[l] = "index" /\ pc'[l] = "list"
        /\ build'[l] = [build[l] EXCEPT !.index = disk]
    BY <1>0, <1>3 DEF ReadIndex, TypeOK
  <2>2. /\ Loaded(build[l])' = {}
        /\ build'[l].manifest = build[l].manifest
    BY <1>0, <2>1 DEF Loaded, Store, Reading
  <2>3. Reaching(l)'
    BY <1>0, <2>1, <2>2 DEF Reaching, Sequence
  <2>4. \A k \in Loader \ {l} : pc'[k] = pc[k] /\ build'[k] = build[k]
    BY <1>0, <1>3 DEF ReadIndex, TypeOK
  <2> QED
    BY <2>3, <2>4
<1>4. CASE ListViews(l) /\ ~Fail(l)
  <2>1. pc[l] = "list" /\ pc'[l] = "views" /\ build' = build
    BY <1>0, <1>4 DEF ListViews, TypeOK
  <2>2. Reaching(l)'
    BY <1>0, <2>1 DEF Reaching, Sequence, Loaded
  <2>3. \A k \in Loader \ {l} : pc'[k] = pc[k] /\ build'[k] = build[k]
    BY <1>0, <1>4 DEF ListViews, TypeOK
  <2> QED
    BY <2>2, <2>3
<1>5. CASE ReadView(l) /\ ~Fail(l)
  <2>1. PICK f \in todo[l] :
          /\ ViewReadable(l, f)
          /\ build' = [build EXCEPT ![l].views[f] = disk]
          /\ UNCHANGED pc
    BY <1>5 DEF ReadView
  <2>2. /\ disk \in Release /\ f \in ViewFile
        /\ pc[l] = "views" /\ pc'[l] = "views"
    BY <1>0, <1>5, <2>1 DEF ViewReadable, TypeOK, ReadView
  <2>3. /\ build'[l].manifest = build[l].manifest
        /\ build'[l].views = [build[l].views EXCEPT ![f] = disk]
    BY <1>0, <2>1 DEF TypeOK, Store
  <2>4. build[l].views \in [ViewFile -> Origin]
    BY <1>0 DEF Store
  <2>5. ASSUME NEW g \in Loaded(build[l])'
        PROVE  Dir[build'[l].views[g]].sequence <= newest'
    <3>1. CASE g = f
      BY <1>0, <2>2, <2>3, <2>4, <3>1
    <3>2. CASE g # f
      <4>1. g \in Loaded(build[l]) /\ build'[l].views[g] = build[l].views[g]
        BY <2>3, <2>4, <3>2 DEF Loaded
      <4> QED
        BY <1>0, <4>1 DEF Reaching
    <3> QED
      BY <3>1, <3>2
  <2>6. Reaching(l)'
    BY <1>0, <2>2, <2>3, <2>5 DEF Reaching, Sequence
  <2>7. \A k \in Loader \ {l} : pc'[k] = pc[k] /\ build'[k] = build[k]
    BY <1>0, <2>1 DEF TypeOK
  <2> QED
    BY <2>6, <2>7
<1> QED
  BY <1>1, <1>2, <1>3, <1>4, <1>5 DEF Load

(* A step that changes neither the store nor what was acknowledged. *)
LEMMA BoardStays ==
  ASSUME GatewayInv, served' = served, acked' = acked, newest <= newest', newest' \in Int,
         \A l \in Loader : Reaching(l)'
  PROVE  BoardInv'
<1>1. served # NoStore => Placed(served)'
  <2> SUFFICES ASSUME served # NoStore PROVE Placed(served)'
    OBVIOUS
  <2>1. Placed(served) /\ newest \in Int /\ ServedValidated /\ served \in Store
    BY DEF GatewayInv, BoardInv, GatewayTypeOK, TypeOK, Inv
  <2>2. \A a \in Artifacts(served) : a \in Release
    BY <2>1 DEF Artifacts, ServedValidated, Loaded, Store, Origin
  <2>3. Artifacts(served)' = Artifacts(served)
    BY DEF Artifacts, Loaded
  <2> QED
    BY <2>1, <2>2, <2>3, Sequences DEF Placed, Sequence
<1>2. Board' = Board
  BY DEF Board, Sequence
<1> QED
  BY <1>1, <1>2 DEF GatewayInv, BoardInv

(* A loader that has read everything replaces the store. *)
LEMMA BoardReplaced ==
  ASSUME Increasing, GatewayInv, NEW l \in Loader, pc[l] = "views", served' = build[l],
         newest' = newest, served # NoStore => Sequence(served) <= Sequence(build[l]),
         \A k \in Loader : Reaching(k)'
  PROVE  /\ \A k \in Loader : Reaching(k)'
         /\ Placed(served)'
         /\ Board' = Sequence(build[l]) /\ Board <= Board'
         /\ Board \in Int /\ Board' \in Int
<1>1. /\ InOrder(l) /\ Reaching(l) /\ build[l] \in Store /\ Reading(l)
      /\ served \in Store \cup {NoStore} /\ newest \in Int /\ ServedValidated
  BY DEF GatewayInv, Inv, OrderInv, BoardInv, TypeOK, ReadingInv
<1>2. build[l].manifest \in Release /\ build[l].index \in Release
  BY <1>1 DEF Reading, Store, Origin
<1>3. served # NoStore => Sequence(served) \in Int
  BY <1>1, Sequences DEF ServedValidated, Sequence
<1>4. Sequence(build[l]) \in Int /\ 0 <= Sequence(build[l]) /\ Sequence(build[l]) <= newest
  BY <1>1, <1>2, Sequences DEF Sequence, InOrder, Reaching
<1>5. Board' = Sequence(build[l])
  BY <1>1, Sequences DEF Board, Sequence
<1>6. Placed(served)'
  BY <1>1, <1>2, <1>4 DEF Placed, Sequence, Artifacts, Loaded, InOrder, Reaching
<1>7. Board <= Board' /\ Board \in Int
  BY <1>3, <1>4, <1>5 DEF Board
<1> QED
  BY <1>4, <1>5, <1>6, <1>7

LEMMA BoardStep ==
  ASSUME Increasing, GatewayInv, [GatewayNext]_gatewayVars
  PROVE  BoardInv' /\ acked <= acked' /\ acked' \in Int
<1>0. TypeOK /\ newest \in Int /\ acked \in Int
  BY DEF GatewayInv, GatewayTypeOK, TypeOK
(* The adapters, the clock and the readers. *)
<1>1. ASSUME served' = served, acked' = acked, newest <= newest', newest' \in Int,
             pc' = pc, build' = build, promised' = promised
      PROVE  BoardInv' /\ acked <= acked' /\ acked' \in Int
  <2>1. \A l \in Loader : Reaching(l)'
    BY <1>1, OthersReaching
  <2> QED
    BY <1>0, <1>1, <2>1, BoardStays
<1>2. ASSUME NEW l \in Loader, Load(l), acked' = acked,
             l \in Handler => (pc'[l] = "idle" \/ promised'[l] = promised[l]),
             \A k \in Handler \ {l} : promised'[k] = promised[k]
      PROVE  BoardInv' /\ acked <= acked' /\ acked' \in Int
  <2>1. served' = served /\ newest' = newest
    BY <1>2, LoadServed DEF env, GatewayInv, Inv
  <2>2. \A k \in Loader : Reaching(k)'
    BY <1>0, <1>2, <2>1, LoadReaching, OthersReaching
  <2> QED
    BY <1>0, <1>2, <2>1, <2>2, BoardStays
<1>3. CASE Unseen /\ Environment
  BY <1>0, <1>1, <1>3, Sequences
     DEF Unseen, Environment, Place, MoveAside, SetClock, loaders
<1>4. CASE Unseen /\ Load(Boot)
  BY <1>2, <1>4 DEF Unseen, Loader
<1>5. CASE Unseen /\ Start
  <2>1. /\ Boot \in Loader /\ pc[Boot] = "views" /\ served' = build[Boot]
        /\ newest' = newest /\ Finish(Boot, "idle")
        /\ promised' = promised /\ acked' = acked
    BY <1>5 DEF Unseen, Start, Loader, env
  <2>2. served = NoStore
    BY <2>1 DEF GatewayInv, Inv, Startup
  <2>3. \A k \in Loader : Reaching(k)'
    BY <1>0, <2>1, IdleReaching, OthersReaching
  <2>4. Placed(served)' /\ Board <= Board' /\ Board \in Int /\ Board' \in Int
    BY <2>1, <2>2, <2>3, BoardReplaced
  <2> QED
    BY <1>0, <2>1, <2>3, <2>4 DEF GatewayInv, BoardInv
<1>6. ASSUME NEW h \in Handler, PostReload(h)
      PROVE  BoardInv' /\ acked <= acked' /\ acked' \in Int
  <2>1. /\ h \in Loader /\ pc'[h] = "manifest" /\ build'[h] = build[h]
        /\ newest' = newest /\ served' = served /\ acked' = acked
        /\ promised'[h] = newest
        /\ \A k \in Loader \ {h} : pc'[k] = pc[k] /\ build'[k] = build[k]
        /\ \A k \in Handler \ {h} : promised'[k] = promised[k]
    BY <1>0, <1>6 DEF PostReload, Post, TypeOK, Loader, GatewayInv, GatewayTypeOK
  <2>2. Reaching(h)'
    BY <1>0, <2>1 DEF GatewayInv, BoardInv, Reaching, Loaded
  <2>3. \A k \in Loader : Reaching(k)'
    BY <1>0, <2>1, <2>2, OthersReaching
  <2> QED
    BY <1>0, <2>1, <2>3, BoardStays
<1>7. ASSUME NEW h \in Handler, LoadOrFail(h)
      PROVE  BoardInv' /\ acked <= acked' /\ acked' \in Int
  BY <1>2, <1>7 DEF LoadOrFail, Loader, GatewayInv, GatewayTypeOK
<1>8. ASSUME NEW h \in Handler, Reloaded(h)
      PROVE  BoardInv' /\ acked <= acked' /\ acked' \in Int
  <2>1. /\ h \in Loader /\ pc[h] = "views" /\ served' = build[h]
        /\ newest' = newest /\ Finish(h, "idle")
        /\ \A k \in Handler \ {h} : promised'[k] = promised[k]
        /\ Sequence(served) <= Sequence(build[h])
    BY <1>8 DEF Reloaded, Swap, NotARollback, Loader, env, GatewayInv, GatewayTypeOK
  <2>2. \A k \in Loader : Reaching(k)'
    BY <1>0, <2>1, IdleReaching, OthersReaching
  <2>3. /\ Placed(served)' /\ Board' = Sequence(build[h])
        /\ Board <= Board' /\ Board \in Int /\ Board' \in Int
    BY <2>1, <2>2, BoardReplaced
  <2>4. promised[h] \in Int /\ promised[h] <= Board'
    BY <2>1, <2>3 DEF GatewayInv, GatewayTypeOK, BoardInv, Reaching
  <2>5. acked' = IF acked < promised[h] THEN promised[h] ELSE acked
    BY <1>8 DEF Reloaded
  <2>6. 0 <= acked /\ acked <= Board
    BY DEF GatewayInv, BoardInv
  <2>7. 0 <= acked' /\ acked' <= Board' /\ acked <= acked' /\ acked' \in Int
    BY <1>0, <2>3, <2>4, <2>5, <2>6
  <2> QED
    BY <2>2, <2>3, <2>7 DEF BoardInv
<1>9. ASSUME NEW h \in Handler, Conflict(h)
      PROVE  BoardInv' /\ acked <= acked' /\ acked' \in Int
  <2>1. /\ h \in Loader /\ served' = served /\ newest' = newest /\ acked' = acked
        /\ \A k \in Handler \ {h} : promised'[k] = promised[k]
    BY <1>9 DEF Conflict, RejectRollback, Fail, env, Loader, GatewayInv, GatewayTypeOK
  <2>2. PICK s \in {"idle", "exited"} : Finish(h, s)
    BY <1>9 DEF Conflict, RejectRollback, Fail
  <2>3. \A k \in Loader : Reaching(k)'
    BY <1>0, <2>1, <2>2, IdleReaching, OthersReaching
  <2> QED
    BY <1>0, <2>1, <2>3, BoardStays
<1>10. ASSUME NEW r \in Reader, Ask(r) \/ Show(r)
       PROVE  BoardInv' /\ acked <= acked' /\ acked' \in Int
  BY <1>0, <1>1, <1>10 DEF Ask, Show, vars
<1>11. CASE UNCHANGED gatewayVars
  BY <1>0, <1>1, <1>11 DEF gatewayVars, vars
<1> QED
  BY <1>3, <1>4, <1>5, <1>6, <1>7, <1>8, <1>9, <1>10, <1>11 DEF GatewayNext, Unseen

(* What a reader can be shown lies between the board and the last release. *)
LEMMA ShownRange ==
  ASSUME Increasing, GatewayInv, served # NoStore, NEW a \in Artifacts(served)
  PROVE  Dir[a].sequence \in Board..newest
<1>1. /\ ServedValidated /\ ContentNotOlder /\ Placed(served) /\ newest \in Int
      /\ served \in Store
  BY DEF GatewayInv, Inv, OrderInv, BoardInv, TypeOK
<1>2. \A b \in Artifacts(served) : b \in Release /\ Dir[b].sequence \in Int
  BY <1>1, Sequences DEF Artifacts, ServedValidated, Loaded, Store, Origin
<1>3. served.manifest \in Artifacts(served) /\ served.index \in Artifacts(served)
  BY DEF Artifacts
<1>4. Board = Sequence(served) /\ Board \in Int
  BY <1>2, <1>3 DEF Board, Sequence
<1>5. Sequence(served) <= Dir[served.index].sequence
  BY <1>1 DEF ContentNotOlder
<1>6. Sequence(served) <= Dir[a].sequence
  <2>1. CASE a = served.manifest
    BY <1>4, <2>1 DEF Sequence
  <2>2. CASE a = served.index
    BY <1>5, <2>2
  <2>3. ASSUME NEW f \in Loaded(served), a = served.views[f]
        PROVE  Sequence(served) <= Dir[a].sequence
    <3>1. Dir[served.index].sequence <= Dir[a].sequence
      BY <1>1, <2>3 DEF ContentNotOlder
    <3> QED
      BY <1>2, <1>3, <1>4, <1>5, <3>1
  <2> QED
    BY <2>1, <2>2, <2>3 DEF Artifacts
<1> QED
  BY <1>1, <1>2, <1>4, <1>6 DEF Placed

LEMMA ReaderStep ==
  ASSUME Increasing, GatewayInv, [GatewayNext]_gatewayVars
  PROVE  ReaderInv'
<1>0. /\ acked <= acked' /\ acked' \in Int /\ acked \in Int
      /\ \A r \in Reader : asked[r] \in Int
  BY BoardStep DEF GatewayInv, GatewayTypeOK
<1>1. CASE asked' = asked /\ shown' = shown
  BY <1>0, <1>1 DEF GatewayInv, ReaderInv
<1>2. ASSUME NEW r \in Reader, Ask(r)
      PROVE  ReaderInv'
  BY <1>0, <1>2 DEF Ask, GatewayInv, GatewayTypeOK, ReaderInv
<1>3. ASSUME NEW r \in Reader, Show(r)
      PROVE  ReaderInv'
  <2>1. PICK a \in Artifacts(served) : shown' = [shown EXCEPT ![r] = Dir[a].sequence]
    BY <1>3 DEF Show
  <2>2. asked' = asked /\ acked' = acked /\ served # NoStore
    BY <1>3 DEF Show
  <2>3. Dir[a].sequence \in Board..newest
    BY <2>2, ShownRange
  <2>4. acked <= Board /\ Board \in Int /\ newest \in Int
    <3>1. served.manifest \in Release
      BY <2>2 DEF GatewayInv, Inv, ServedValidated
    <3> QED
      BY <2>2, <3>1, Sequences DEF GatewayInv, BoardInv, Board, Sequence, Inv, TypeOK
  <2>5. acked <= Dir[a].sequence /\ Dir[a].sequence \in Int
    BY <1>0, <2>3, <2>4
  <2> QED
    BY <1>0, <2>1, <2>2, <2>5 DEF GatewayInv, GatewayTypeOK, ReaderInv
<1> QED
  BY <1>1, <1>2, <1>3
     DEF GatewayNext, gatewayVars, Unseen, PostReload, LoadOrFail, Reloaded, Conflict, readers

LEMMA GatewayInvariance == Increasing => (GatewaySpec => []GatewayInv)
<1>1. ASSUME Increasing, GatewayInv, [GatewayNext]_gatewayVars
      PROVE  GatewayInv'
  <2>1. [Next]_vars /\ Inv /\ OrderInv
    BY <1>1, GatewayStep DEF GatewayInv
  <2>2. Inv' /\ OrderInv'
    BY <1>1, <2>1, InvStep, OrderStep
  <2> QED
    BY <1>1, <2>2, TypeKept, BoardStep, ReaderStep DEF GatewayInv
<1>2. ASSUME Increasing PROVE GatewaySpec => []GatewayInv
  <2>1. GatewayInv /\ [GatewayNext]_gatewayVars => GatewayInv'
    BY <1>1, <1>2
  <2> QED
    BY <2>1, GatewayInitInv, PTL DEF GatewaySpec
<1> QED
  BY <1>2

-----------------------------------------------------------------------------
(* Read your publication: however many reloads overlap each other and the  *)
(* adapters' renames, nobody who asks after a 200 is shown an artifact     *)
(* older than the release that the reload was posted for (reload_store).   *)
THEOREM PublicationsAreRead == GatewaySpec => []PublicationRead
<1>1. CASE Increasing
  <2>1. GatewayInv => PublicationRead
    BY DEF GatewayInv, ReaderInv, PublicationRead
  <2> QED
    BY <1>1, <2>1, GatewayInvariance, PTL
<1>2. CASE ~Increasing
  <2>1. PublicationRead
    BY <1>2 DEF PublicationRead
  <2> QED
    BY <2>1, PTL
<1> QED
  BY <1>1, <1>2

(* A 200 to the reload for the newest release means that the whole of it   *)
(* is served: reload_store answers only after it has compared and swapped. *)
THEOREM AcknowledgedReleaseIsServed == GatewaySpec => []AcknowledgedIsServed
<1>1. GatewayInv /\ NewestInv => AcknowledgedIsServed
  <2> SUFFICES ASSUME Increasing, GatewayInv, NewestInv, served # NoStore, acked = newest
               PROVE  /\ Sequence(served) = newest
                      /\ served = WholeStore(served.manifest)
    BY DEF AcknowledgedIsServed
  <2>1. served.manifest \in Release
    BY DEF GatewayInv, Inv, ServedValidated
  <2>2. served.manifest \in Artifacts(served)
    BY DEF Artifacts
  <2>3. acked <= Sequence(served) /\ Sequence(served) <= newest
    BY <2>2 DEF GatewayInv, BoardInv, Board, Placed, Sequence
  <2>4. Sequence(served) \in Int /\ newest \in Int
    BY <2>1, Sequences DEF Sequence, GatewayInv, Inv, TypeOK
  <2>5. Sequence(served) = newest
    BY <2>3, <2>4
  <2> QED
    BY <2>1, <2>5 DEF NewestInv, TornIsOutdated, GatewayInv
<1>2. CASE Increasing
  BY <1>1, <1>2, GatewayInvariance, GatewayReloads, NewestInvariance, PTL
<1>3. CASE ~Increasing
  <2>1. AcknowledgedIsServed
    BY <1>3 DEF AcknowledgedIsServed
  <2> QED
    BY <2>1, PTL
<1> QED
  BY <1>2, <1>3

LEMMA BoardUnchanged ==
  ASSUME served' = served PROVE Board' = Board
BY DEF Board, Sequence

LEMMA BulletinStep ==
  ASSUME Increasing, GatewayInv, GatewayInv', [GatewayNext]_gatewayVars
  PROVE  [Bulletins!Next]_Bulletins!vars
<1> USE DEF Bulletins!Next, Bulletins!vars
<1>0. newest' \in Int
  BY DEF GatewayInv, GatewayTypeOK, TypeOK
<1>1. CASE UNCHANGED <<served, newest, acked, asked, shown>>
  BY <1>1, BoardUnchanged
<1>2. CASE Unseen /\ \E r \in Release : Place(r)
  <2>1. served' = served /\ newest < newest' /\ UNCHANGED <<acked, asked, shown>>
    BY <1>2 DEF Unseen, Place, readers
  <2> QED
    BY <1>0, <2>1, BoardUnchanged DEF Bulletins!Publish
<1>3. ASSUME NEW l \in Loader, pc[l] = "views", served' = build[l],
             served # NoStore => Sequence(served) <= Sequence(build[l]),
             UNCHANGED <<newest, asked, shown>>
      PROVE  Bulletins!Next
  <2>1. \A k \in Loader : Reaching(k)'
    BY DEF GatewayInv, BoardInv
  <2>2. Board <= Board' /\ Board \in Int /\ Board' \in Int /\ Placed(served)'
    BY <1>3, <2>1, BoardReplaced
  <2>3. Board' <= newest
    <3>1. served' # NoStore
      BY <1>3, Sequences DEF GatewayInv, GatewayTypeOK, TypeOK
    <3>2. Board' = Dir[served'.manifest].sequence
      BY <3>1 DEF Board, Sequence
    <3> QED
      BY <1>3, <2>2, <3>2 DEF Placed, Artifacts
  <2>4. acked <= acked' /\ acked' <= Board' /\ acked' \in Int /\ acked \in Int
    BY BoardStep DEF GatewayInv, BoardInv, GatewayTypeOK
  <2>5. newest \in Int
    BY DEF GatewayInv, GatewayTypeOK, TypeOK
  <2> QED
    BY <1>3, <2>2, <2>3, <2>4, <2>5 DEF Bulletins!Post
<1>4. CASE Unseen /\ Start
  <2>1. served = NoStore
    BY <1>4 DEF Start, GatewayInv, Inv, Startup
  <2> QED
    BY <1>3, <1>4, <2>1 DEF Unseen, Start, Loader, env, readers
<1>5. ASSUME NEW h \in Handler, Reloaded(h)
      PROVE  Bulletins!Next
  BY <1>3, <1>5 DEF Reloaded, Swap, NotARollback, Loader, env, readers
<1>6. ASSUME NEW r \in Reader, Ask(r)
      PROVE  Bulletins!Next
  BY <1>6, BoardUnchanged DEF Ask, vars, Bulletins!Ask
<1>7. ASSUME NEW r \in Reader, Show(r)
      PROVE  Bulletins!Next
  BY <1>7, BoardUnchanged, ShownRange DEF Show, vars, Bulletins!Show
<1>8. ASSUME NEW l \in Loader, Load(l) PROVE served' = served /\ newest' = newest
  BY <1>8, LoadServed DEF env, GatewayInv, Inv
<1>9. CASE Unseen /\ (MoveAside \/ SetClock \/ Load(Boot))
  BY <1>1, <1>8, <1>9 DEF Unseen, MoveAside, SetClock, Loader, readers
<1>10. ASSUME NEW h \in Handler, PostReload(h) \/ LoadOrFail(h) \/ Conflict(h)
       PROVE  UNCHANGED <<served, newest, acked, asked, shown>>
  BY <1>8, <1>10
     DEF PostReload, Post, LoadOrFail, Conflict, RejectRollback, Fail, env, Loader, readers
<1>11. CASE UNCHANGED gatewayVars
  BY <1>1, <1>11 DEF gatewayVars, vars
<1> QED
  BY <1>1, <1>2, <1>4, <1>5, <1>6, <1>7, <1>9, <1>10, <1>11
     DEF GatewayNext, Unseen, Environment

(* Loads one file at a time that overlap renames and each other are seen,  *)
(* by adapters and readers, as the bulletin board they implement.          *)
THEOREM GatewayImplementsBulletin == Increasing => (GatewaySpec => ImplementsBulletin)
<1>1. GatewayInit => Bulletins!Init
  <2>1. GatewayInit => newest \in Int
    BY TypeInit DEF GatewayInit, TypeOK
  <2> QED
    BY <2>1 DEF GatewayInit, Init, Board, Bulletins!Init
<1>2. ASSUME Increasing PROVE GatewaySpec => Bulletins!Spec
  <2>1. GatewayInv /\ GatewayInv' /\ [GatewayNext]_gatewayVars
          => [Bulletins!Next]_Bulletins!vars
    BY <1>2, BulletinStep
  <2>2. GatewaySpec => []GatewayInv
    BY <1>2, GatewayInvariance
  <2> QED
    BY <1>1, <2>1, <2>2, PTL DEF GatewaySpec, Bulletins!Spec
<1> QED
  BY <1>2 DEF ImplementsBulletin
=============================================================================
