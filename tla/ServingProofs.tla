---------------------------- MODULE ServingProofs ----------------------------
(***************************************************************************)
(* Theorems about Serving, for any number of requests, reloads and stores  *)
(* and whether or not stderr fails.                                        *)
(***************************************************************************)
EXTENDS Serving, FiniteSetTheorems, TLAPS

USE ServingAssumption
USE DEF ServingAssumption

-----------------------------------------------------------------------------
(* Types. *)

LEMMA TypeInit == Init => TypeOK
  <1> SUFFICES ASSUME Init PROVE TypeOK
    OBVIOUS
  <1>1. request \in [Request -> RequestState]
    BY DEF Init, RequestState, AllKinds, Answers, Store
  <1>2. reload \in [Handler -> ReloadState]
    BY DEF Init, ReloadState, Store
  <1>3. metrics \in [Counters -> Nat]
    BY DEF Init
  <1>4. served \in Store
    BY DEF Init, Store
  <1>5. now \in Int /\ acked \in Nat /\ expiries \in Nat
    BY DEF Init
  <1>6. writer \in Handler \cup {NoOne} /\ poisoned \in BOOLEAN /\ logged \in BOOLEAN
    BY DEF Init
  <1> QED
    BY <1>1, <1>2, <1>3, <1>4, <1>5, <1>6 DEF TypeOK

LEMMA CountType ==
  ASSUME metrics \in [Counters -> Nat], NEW c \in Counters
  PROVE  Count(c) \in [Counters -> Nat]
  BY DEF Count

LEMMA AnswerType ==
  ASSUME TypeOK, NEW r \in Request, NEW a \in Answers, Answer(r, a)
  PROVE  request' \in [Request -> RequestState]
  <1>1. request[r] \in RequestState
    BY DEF TypeOK
  <1>2. [request[r] EXCEPT !.at = "done", !.answer = a] \in RequestState
    BY <1>1 DEF RequestState
  <1> QED
    BY <1>2 DEF TypeOK, Answer

LEMMA GotoType ==
  ASSUME TypeOK, NEW h \in Handler,
         NEW step \in {"loading", "rejecting", "failing", "swapped", "counted", "reporting"},
         Goto(h, step)
  PROVE  reload' \in [Handler -> ReloadState]
  BY DEF TypeOK, Goto, ReloadState

LEMMA FinishType ==
  ASSUME TypeOK, NEW h \in Handler, NEW a \in {"reloaded", "conflict", "aborted"},
         Finish(h, a)
  PROVE  reload' \in [Handler -> ReloadState]
  <1>1. reload[h] \in ReloadState
    BY DEF TypeOK
  <1>2. [reload[h] EXCEPT !.at = "done", !.answer = a] \in ReloadState
    BY <1>1 DEF ReloadState
  <1> QED
    BY <1>2 DEF TypeOK, Finish

LEMMA ShowType ==
  ASSUME TypeOK, NEW s \in PreparedStore, Show(s)
  PROVE  acked' \in Nat
  BY DEF TypeOK, Show

LEMMA RequestType ==
  ASSUME TypeOK, NEW r \in Request, Arrive(r) \/ Handle(r) \/ Upstream(r)
  PROVE  TypeOK'
  <1>0. request[r] \in RequestState /\ metrics \in [Counters -> Nat]
    BY DEF TypeOK
  <1>1. CASE Arrive(r)
    <2>1. PICK k \in Kind : \E held \in Copies(k) :
            request' = [request EXCEPT ![r] =
              [@ EXCEPT !.at = "arrived", !.kind = k, !.held = held,
                        !.floor = acked, !.arrived = now]]
      BY <1>1 DEF Arrive
    <2>2. PICK held \in Copies(k) :
            request' = [request EXCEPT ![r] =
              [@ EXCEPT !.at = "arrived", !.kind = k, !.held = held,
                        !.floor = acked, !.arrived = now]]
      BY <2>1
    <2>3. k \in AllKinds /\ acked \in Nat /\ now \in Int
      BY DEF TypeOK
    <2>4. held \in Copy \cup {NoCopy}
      BY DEF Copies, Copy, TypeOK, RequestState
    <2>5. request' \in [Request -> RequestState]
      <3>1. [request[r] EXCEPT !.at = "arrived", !.kind = k, !.held = held,
                               !.floor = acked, !.arrived = now] \in RequestState
        BY <1>0, <2>3, <2>4 DEF RequestState
      <3> QED
        BY <2>2, <3>1 DEF TypeOK
    <2>6. metrics' \in [Counters -> Nat]
      BY <1>0, <1>1, CountType DEF Arrive, Counters
    <2> QED
      BY <1>1, <2>5, <2>6 DEF Arrive, TypeOK
  <1>2. CASE Snapshot(r)
    <2>1. request' \in [Request -> RequestState]
      <3>1. CASE poisoned
        BY <1>2, <3>1, AnswerType DEF Snapshot, Answers
      <3>2. CASE ~poisoned
        <4>1. [request[r] EXCEPT !.at = "routed", !.store = served] \in RequestState
          BY <1>0 DEF TypeOK, RequestState
        <4> QED
          BY <1>2, <3>2, <4>1 DEF Snapshot, TypeOK
      <3> QED
        BY <3>1, <3>2
    <2> QED
      BY <1>2, <2>1 DEF Snapshot, TypeOK
  <1>3. CASE ServeNotModified(r) \/ ServeContent(r)
    <2>1. request[r].store \in PreparedStore
      BY <1>0, <1>3 DEF ServeNotModified, ServeContent, FromStore, RequestState, Store
    <2>2. acked' \in Nat
      BY <1>3, <2>1, ShowType DEF ServeNotModified, ServeContent
    <2>3. request' \in [Request -> RequestState]
      BY <1>3, AnswerType DEF ServeNotModified, ServeContent, Answers
    <2>4. metrics' \in [Counters -> Nat]
      BY <1>0, <1>3, CountType DEF ServeNotModified, ServeContent, Counters
    <2> QED
      BY <1>3, <2>2, <2>3, <2>4 DEF ServeNotModified, ServeContent, TypeOK
  <1>4. CASE FindExpired(r)
    <2>1. request' \in [Request -> RequestState]
      BY <1>4 DEF FindExpired, TypeOK, RequestState
    <2> QED
      BY <1>4, <2>1 DEF FindExpired, TypeOK
  <1>5. CASE ReportExpired(r)
    <2>1. request' \in [Request -> RequestState]
      BY <1>5, AnswerType DEF ReportExpired, Answers
    <2>2. expiries' \in Nat
      BY <1>5 DEF ReportExpired, TypeOK
    <2> QED
      BY <1>5, <2>1, <2>2 DEF ReportExpired, TypeOK
  <1>6. CASE Forward(r)
    <2>1. request' \in [Request -> RequestState]
      BY <1>6 DEF Forward, TypeOK, RequestState
    <2>2. metrics' \in [Counters -> Nat]
      BY <1>0, <1>6, CountType DEF Forward, CountPassthrough, Counters
    <2> QED
      BY <1>6, <2>1, <2>2 DEF Forward, TypeOK
  <1>7. CASE Refuse(r) \/ OriginAnswers(r) \/ Disconnect(r)
    <2>1. request' \in [Request -> RequestState]
      BY <1>7, AnswerType DEF Refuse, OriginAnswers, Disconnect, Answers
    <2>2. metrics' \in [Counters -> Nat]
      BY <1>0, <1>7, CountType DEF Refuse, CountPassthrough, OriginAnswers, Disconnect, Counters
    <2> QED
      BY <1>7, <2>1, <2>2 DEF Refuse, OriginAnswers, Disconnect, TypeOK
  <1>8. CASE OriginFails(r) \/ TimeOut(r)
    <2>1. request' \in [Request -> RequestState]
      BY <1>8, AnswerType DEF OriginFails, TimeOut, UpstreamError, Answers
    <2>2. metrics' \in [Counters -> Nat]
      BY <1>0, <1>8, CountType DEF OriginFails, TimeOut, UpstreamError, Counters
    <2> QED
      BY <1>8, <2>1, <2>2 DEF OriginFails, TimeOut, UpstreamError, TypeOK
  <1> QED
    BY <1>1, <1>2, <1>3, <1>4, <1>5, <1>6, <1>7, <1>8 DEF Handle, Upstream

LEMMA ReloadType ==
  ASSUME TypeOK, NEW h \in Handler, Post(h) \/ HandleReload(h)
  PROVE  TypeOK'
  <1>0. reload[h] \in ReloadState /\ metrics \in [Counters -> Nat]
    BY DEF TypeOK
  <1>1. CASE Post(h) \/ LoadFails(h) \/ CountReload(h)
    <2>1. reload' \in [Handler -> ReloadState]
      BY <1>1, GotoType DEF Post, LoadFails, CountReload
    <2>2. metrics' \in [Counters -> Nat]
      BY <1>0, <1>1, CountType DEF Post, LoadFails, CountReload, Counters
    <2> QED
      BY <1>1, <2>1, <2>2 DEF Post, LoadFails, CountReload, TypeOK
  <1>2. CASE LoadStore(h)
    <2>1. reload' \in [Handler -> ReloadState]
      <3>1. PICK s \in PreparedStore :
              reload' = [reload EXCEPT ![h] = [@ EXCEPT !.at = "locking", !.store = s]]
        BY <1>2 DEF LoadStore
      <3>2. [reload[h] EXCEPT !.at = "locking", !.store = s] \in ReloadState
        BY <1>0 DEF ReloadState, Store
      <3> QED
        BY <3>1, <3>2 DEF TypeOK
    <2> QED
      BY <1>2, <2>1 DEF LoadStore, TypeOK
  <1>3. CASE Replace(h)
    <2>1. reload' \in [Handler -> ReloadState]
      <3>1. [reload[h] EXCEPT !.at = "swapped", !.swapped = TRUE] \in ReloadState
        BY <1>0 DEF ReloadState
      <3> QED
        BY <1>3, <3>1 DEF Replace, TypeOK
    <2>2. served' \in Store
      BY <1>0, <1>3 DEF Replace, ReloadState
    <2> QED
      BY <1>3, <2>1, <2>2 DEF Replace, TypeOK
  <1>4. CASE Reject(h)
    <2>1. reload' \in [Handler -> ReloadState]
      BY <1>4, GotoType DEF Reject
    <2>2. metrics' \in [Counters -> Nat]
      BY <1>0, <1>4, CountType DEF Reject, Counters
    <2> QED
      BY <1>4, <2>1, <2>2 DEF Reject, TypeOK
  <1>5. CASE ResetExpiryLog(h)
    <2>1. reload' \in [Handler -> ReloadState]
      BY <1>5, GotoType DEF ResetExpiryLog
    <2> QED
      BY <1>5, <2>1 DEF ResetExpiryLog, TypeOK
  <1>6. CASE ReportReload(h)
    <2>1. reload' \in [Handler -> ReloadState]
      BY <1>6, FinishType DEF ReportReload
    <2>2. acked' \in Nat
      BY <1>6 DEF ReportReload, Show, TypeOK
    <2> QED
      BY <1>6, <2>1, <2>2 DEF ReportReload, TypeOK
  <1>7. CASE ReportFailure(h) \/ LogPanics(h)
    <2>1. reload' \in [Handler -> ReloadState]
      BY <1>7, FinishType DEF ReportFailure, LogPanics
    <2>2. writer' \in Handler \cup {NoOne} /\ poisoned' \in BOOLEAN
      BY <1>7 DEF ReportFailure, LogPanics, TypeOK
    <2> QED
      BY <1>7, <2>1, <2>2 DEF ReportFailure, LogPanics, TypeOK
  <1> QED
    BY <1>1, <1>2, <1>3, <1>4, <1>5, <1>6, <1>7 DEF HandleReload

LEMMA TypeStep == TypeOK /\ [Next]_vars => TypeOK'
  <1> SUFFICES ASSUME TypeOK, [Next]_vars PROVE TypeOK'
    OBVIOUS
  <1>1. CASE Tick
    BY <1>1 DEF Tick, TypeOK
  <1>2. CASE UNCHANGED vars
    BY <1>2 DEF vars, TypeOK
  <1> QED
    BY <1>1, <1>2, RequestType, ReloadType DEF Next

(* Every variable keeps its type in every behaviour of requests, reloads   *)
(* and the clock.                                                          *)
THEOREM TypeCorrect == Spec => []TypeOK
  BY TypeInit, TypeStep, PTL DEF Spec

-----------------------------------------------------------------------------
(* Sequences seen by clients. *)

SequenceOf(s) == IF s = NoStore THEN 0 ELSE Sequence[s]

(* A snapshot is at least as new as what was shown when the request        *)
(* arrived, and not newer than the store served now.                       *)
Reads(r) ==
  /\ request[r].floor <= acked
  /\ request[r].at \in {"new", "arrived"} => request[r].store = NoStore
  /\ request[r].store # NoStore =>
       /\ request[r].floor <= Sequence[request[r].store]
       /\ Sequence[request[r].store] <= SequenceOf(served)

(* A reload that has assigned its store may since have been overtaken by a *)
(* newer one, never by an older one.                                       *)
Loads(h) ==
  /\ reload[h].at \in {"loading", "locking", "rejecting", "swapped", "counted", "reporting"} =>
       served # NoStore
  /\ reload[h].at \in {"locking", "swapped", "counted", "reporting"} =>
       reload[h].store # NoStore
  /\ reload[h].at \in {"swapped", "counted", "reporting"} =>
       Sequence[reload[h].store] <= SequenceOf(served)

(* The strengthening of MonotonicReads: nobody was shown more than is      *)
(* served now.                                                             *)
ReadsInv ==
  /\ acked <= SequenceOf(served)
  /\ \A r \in Request : Reads(r)
  /\ \A h \in Handler : Loads(h)

LEMMA SequenceOfType ==
  ASSUME NEW s \in Store PROVE SequenceOf(s) \in Nat
  BY DEF SequenceOf, Store

(* A step of one request, which leaves the shared store alone. *)
LEMMA RequestReads ==
  ASSUME TypeOK, TypeOK', ReadsInv, NEW r \in Request, Reads(r)',
         \A q \in Request \ {r} : request'[q] = request[q],
         served' = served, reload' = reload,
         acked <= acked', acked' <= SequenceOf(served)
  PROVE  ReadsInv'
  <1>1. ASSUME NEW q \in Request, q # r PROVE Reads(q)'
    <2>1. Reads(q) /\ request'[q] = request[q] /\ request[q].floor \in Nat
      BY <1>1 DEF ReadsInv, TypeOK, RequestState
    <2>2. acked \in Nat /\ acked' \in Nat
      BY DEF TypeOK
    <2> QED
      BY <2>1, <2>2 DEF Reads, SequenceOf
  <1>2. \A h \in Handler : Loads(h)'
    BY DEF ReadsInv, Loads, SequenceOf
  <1>3. (acked <= SequenceOf(served))'
    BY DEF SequenceOf
  <1> QED
    BY <1>1, <1>2, <1>3 DEF ReadsInv

(* A step of one reload, after which the shared store is not older. *)
LEMMA ReloadReads ==
  ASSUME TypeOK, TypeOK', ReadsInv, NEW h \in Handler, Loads(h)',
         \A k \in Handler \ {h} : reload'[k] = reload[k],
         SequenceOf(served) <= SequenceOf(served'),
         served # NoStore => served' # NoStore,
         request' = request,
         acked <= acked', acked' <= SequenceOf(served')
  PROVE  ReadsInv'
  <1>0. /\ SequenceOf(served) \in Nat /\ SequenceOf(served') \in Nat
        /\ acked \in Nat /\ acked' \in Nat
    BY SequenceOfType DEF TypeOK
  <1>1. ASSUME NEW r \in Request PROVE Reads(r)'
    <2>1. Reads(r) /\ request[r].floor \in Nat /\ request[r].store \in Store
      BY DEF ReadsInv, TypeOK, RequestState
    <2>2. request[r].store # NoStore => Sequence[request[r].store] \in Nat
      BY <2>1 DEF Store
    <2> QED
      BY <1>0, <2>1, <2>2 DEF Reads, SequenceOf
  <1>2. ASSUME NEW k \in Handler, k # h PROVE Loads(k)'
    <2>1. Loads(k) /\ reload'[k] = reload[k] /\ reload[k].store \in Store
      BY <1>2 DEF ReadsInv, TypeOK, ReloadState
    <2>2. reload[k].store # NoStore => Sequence[reload[k].store] \in Nat
      BY <2>1 DEF Store
    <2> QED
      BY <1>0, <2>1, <2>2 DEF Loads, SequenceOf
  <1>3. (acked <= SequenceOf(served))'
    BY DEF SequenceOf
  <1> QED
    BY <1>1, <1>2, <1>3 DEF ReadsInv

LEMMA AnswerReads ==
  ASSUME TypeOK, NEW r \in Request, NEW a \in Answers, Answer(r, a)
  PROVE  /\ request'[r].at = "done" /\ request'[r].answer = a
         /\ request'[r].floor = request[r].floor
         /\ request'[r].store = request[r].store
         /\ request'[r].arrived = request[r].arrived
         /\ request'[r].kind = request[r].kind
         /\ \A q \in Request \ {r} : request'[q] = request[q]
  BY DEF TypeOK, Answer, RequestState

LEMMA FinishReads ==
  ASSUME TypeOK, NEW h \in Handler, NEW a \in {"reloaded", "conflict", "aborted"},
         Finish(h, a)
  PROVE  /\ reload'[h].at = "done"
         /\ \A k \in Handler \ {h} : reload'[k] = reload[k]
  BY DEF TypeOK, Finish, ReloadState

LEMMA HandleReads ==
  ASSUME TypeOK, TypeOK', ReadsInv,
         NEW r \in Request, Arrive(r) \/ Handle(r) \/ Upstream(r)
  PROVE  ReadsInv'
  <1>0. /\ request[r] \in RequestState /\ Reads(r)
        /\ acked \in Nat /\ SequenceOf(served) \in Nat
        /\ acked <= SequenceOf(served)
    BY SequenceOfType DEF TypeOK, ReadsInv
  <1>1. CASE Arrive(r)
    <2>1. /\ request'[r].at = "arrived" /\ request'[r].floor = acked
          /\ request'[r].store = request[r].store /\ request[r].at = "new"
          /\ \A q \in Request \ {r} : request'[q] = request[q]
          /\ served' = served /\ reload' = reload /\ acked' = acked
      <3>1. PICK k \in Kind : \E held \in Copies(k) :
              request' = [request EXCEPT ![r] =
                [@ EXCEPT !.at = "arrived", !.kind = k, !.held = held,
                          !.floor = acked, !.arrived = now]]
        BY <1>1 DEF Arrive
      <3>2. PICK held \in Copies(k) :
              request' = [request EXCEPT ![r] =
                [@ EXCEPT !.at = "arrived", !.kind = k, !.held = held,
                          !.floor = acked, !.arrived = now]]
        BY <3>1
      <3>3. /\ request'[r] = [request[r] EXCEPT !.at = "arrived", !.kind = k,
                                !.held = held, !.floor = acked, !.arrived = now]
            /\ \A q \in Request \ {r} : request'[q] = request[q]
        BY <3>2 DEF TypeOK
      <3> QED
        BY <1>0, <1>1, <3>3 DEF Arrive, RequestState
    <2>2. Reads(r)'
      BY <1>0, <2>1 DEF Reads, SequenceOf
    <2> QED
      BY <1>0, <2>1, <2>2, RequestReads
  <1>2. CASE Snapshot(r) /\ ~poisoned
    <2>1. /\ request'[r].at = "routed" /\ request'[r].floor = request[r].floor
          /\ request'[r].store = served
          /\ \A q \in Request \ {r} : request'[q] = request[q]
          /\ served' = served /\ reload' = reload /\ acked' = acked
      <3>1. /\ request'[r] = [request[r] EXCEPT !.at = "routed", !.store = served]
            /\ \A q \in Request \ {r} : request'[q] = request[q]
        BY <1>2 DEF Snapshot, TypeOK
      <3> QED
        BY <1>0, <1>2, <3>1 DEF Snapshot, RequestState
    <2>2. request[r].floor \in Nat
      BY <1>0 DEF RequestState
    <2>3. Reads(r)'
      BY <1>0, <2>1, <2>2 DEF Reads, SequenceOf
    <2> QED
      BY <1>0, <2>1, <2>3, RequestReads
  <1>3. CASE ServeNotModified(r) \/ ServeContent(r)
    <2>1. /\ request'[r].at = "done" /\ request'[r].floor = request[r].floor
          /\ request'[r].store = request[r].store
          /\ \A q \in Request \ {r} : request'[q] = request[q]
      BY <1>3, AnswerReads DEF ServeNotModified, ServeContent, Answers
    <2>2. /\ served' = served /\ reload' = reload /\ Show(request[r].store)
          /\ request[r].store # NoStore
      BY <1>3 DEF ServeNotModified, ServeContent, FromStore
    <2>3. Sequence[request[r].store] \in Nat /\ request[r].floor \in Nat
      BY <1>0, <2>2 DEF RequestState, Store
    <2>4. acked <= acked' /\ acked' <= SequenceOf(served)
      BY <1>0, <2>2, <2>3 DEF Show, Reads
    <2>5. acked' \in Nat
      BY DEF TypeOK
    <2>6. Reads(r)'
      BY <1>0, <2>1, <2>2, <2>3, <2>4, <2>5 DEF Reads, SequenceOf
    <2> QED
      BY <2>1, <2>2, <2>4, <2>6, RequestReads
  <1>4. CASE FindExpired(r) \/ Forward(r)
    <2>1. /\ request'[r].at \in {"expired", "upstream"}
          /\ request'[r].floor = request[r].floor
          /\ request'[r].store = request[r].store
          /\ \A q \in Request \ {r} : request'[q] = request[q]
          /\ served' = served /\ reload' = reload /\ acked' = acked
      BY <1>0, <1>4 DEF FindExpired, Forward, TypeOK, RequestState
    <2>2. Reads(r)'
      BY <1>0, <2>1 DEF Reads, SequenceOf
    <2> QED
      BY <1>0, <2>1, <2>2, RequestReads
  <1>5. CASE \/ Snapshot(r) /\ poisoned
             \/ ReportExpired(r) \/ Refuse(r) \/ OriginAnswers(r) \/ Disconnect(r)
             \/ OriginFails(r) \/ TimeOut(r)
    <2>1. PICK a \in Answers : Answer(r, a)
      BY <1>5 DEF Snapshot, ReportExpired, Refuse, OriginAnswers, Disconnect,
                  OriginFails, TimeOut, UpstreamError, Answers
    <2>2. served' = served /\ reload' = reload /\ acked' = acked
      BY <1>5 DEF Snapshot, ReportExpired, Refuse, OriginAnswers, Disconnect,
                  OriginFails, TimeOut, UpstreamError
    <2>3. /\ request'[r].at = "done" /\ request'[r].floor = request[r].floor
          /\ request'[r].store = request[r].store
          /\ \A q \in Request \ {r} : request'[q] = request[q]
      BY <2>1, AnswerReads
    <2>4. Reads(r)'
      BY <1>0, <2>2, <2>3 DEF Reads, SequenceOf
    <2> QED
      BY <1>0, <2>2, <2>3, <2>4, RequestReads
  <1> QED
    BY <1>1, <1>2, <1>3, <1>4, <1>5 DEF Handle, Upstream

LEMMA HandleReloadReads ==
  ASSUME TypeOK, TypeOK', ReadsInv, NEW h \in Handler, Post(h) \/ HandleReload(h)
  PROVE  ReadsInv'
  <1>0. /\ reload[h] \in ReloadState /\ Loads(h)
        /\ acked \in Nat /\ SequenceOf(served) \in Nat
        /\ acked <= SequenceOf(served)
    BY SequenceOfType DEF TypeOK, ReadsInv
  <1>1. CASE \/ Post(h) \/ LoadFails(h) \/ Reject(h)
             \/ CountReload(h) \/ ResetExpiryLog(h)
    <2>1. /\ reload'[h].store = reload[h].store
          /\ \A k \in Handler \ {h} : reload'[k] = reload[k]
          /\ served' = served /\ request' = request /\ acked' = acked
      BY <1>0, <1>1 DEF Post, LoadFails, Reject, CountReload, ResetExpiryLog, Goto,
                        TypeOK, ReloadState
    <2>2. Loads(h)'
      BY <1>0, <1>1, <2>1 DEF Post, LoadFails, Reject, CountReload, ResetExpiryLog,
                              Goto, TypeOK, ReloadState, Loads, SequenceOf
    <2> QED
      BY <1>0, <2>1, <2>2, ReloadReads
  <1>2. CASE LoadStore(h)
    <2>1. /\ reload'[h].at = "locking" /\ reload'[h].store # NoStore
          /\ reload[h].at = "loading"
          /\ \A k \in Handler \ {h} : reload'[k] = reload[k]
          /\ served' = served /\ request' = request /\ acked' = acked
      BY <1>0, <1>2 DEF LoadStore, TypeOK, ReloadState
    <2>2. Loads(h)'
      BY <1>0, <2>1 DEF Loads
    <2> QED
      BY <1>0, <2>1, <2>2, ReloadReads
  <1>3. CASE Replace(h)
    <2>1. /\ reload'[h].at = "swapped" /\ reload'[h].store = reload[h].store
          /\ reload[h].at = "locking" /\ served' = reload[h].store
          /\ Sequence[served] <= Sequence[reload[h].store]
          /\ \A k \in Handler \ {h} : reload'[k] = reload[k]
          /\ request' = request /\ acked' = acked
      BY <1>0, <1>3 DEF Replace, MayReplace, Goto, TypeOK, ReloadState
    <2>2. served # NoStore /\ reload[h].store # NoStore
      BY <1>0, <2>1 DEF Loads
    <2>3. Sequence[reload[h].store] \in Nat
      BY <1>0, <2>2 DEF ReloadState, Store
    <2>4. SequenceOf(served) <= SequenceOf(served')
      BY <2>1, <2>2 DEF SequenceOf
    <2>5. acked' <= SequenceOf(served')
      BY <1>0, <2>1, <2>2, <2>3, <2>4 DEF SequenceOf
    <2>6. Loads(h)'
      BY <2>1, <2>2, <2>3 DEF Loads, SequenceOf
    <2> QED
      BY <1>0, <2>1, <2>2, <2>4, <2>5, <2>6, ReloadReads
  <1>4. CASE ReportReload(h)
    <2>1. /\ reload'[h].at = "done" /\ reload[h].at = "reporting"
          /\ \A k \in Handler \ {h} : reload'[k] = reload[k]
          /\ served' = served /\ request' = request /\ Show(reload[h].store)
      BY <1>4, FinishReads DEF ReportReload
    <2>2. acked <= acked' /\ acked' <= SequenceOf(served)
      <3>1. Sequence[reload[h].store] \in Nat
        BY <1>0, <2>1 DEF Loads, ReloadState, Store
      <3> QED
        BY <1>0, <2>1, <3>1 DEF Loads, Show
    <2>3. Loads(h)'
      BY <2>1 DEF Loads
    <2> QED
      BY <1>0, <2>1, <2>2, <2>3, ReloadReads
  <1>5. CASE ReportFailure(h) \/ LogPanics(h)
    <2>1. /\ reload'[h].at = "done"
          /\ \A k \in Handler \ {h} : reload'[k] = reload[k]
          /\ served' = served /\ request' = request /\ acked' = acked
      BY <1>5, FinishReads DEF ReportFailure, LogPanics
    <2>2. Loads(h)'
      BY <2>1 DEF Loads
    <2> QED
      BY <1>0, <2>1, <2>2, ReloadReads
  <1> QED
    BY <1>1, <1>2, <1>3, <1>4, <1>5 DEF HandleReload

LEMMA ReadsStep == TypeOK /\ ReadsInv /\ [Next]_vars => ReadsInv'
  <1> SUFFICES ASSUME TypeOK, ReadsInv, [Next]_vars PROVE ReadsInv'
    OBVIOUS
  <1>0. TypeOK'
    BY TypeStep
  <1>1. CASE UNCHANGED vars \/ Tick
    <2>1. UNCHANGED <<served, acked, request, reload>>
      BY <1>1 DEF vars, Tick
    <2> QED
      BY <2>1 DEF ReadsInv, Reads, Loads, SequenceOf
  <1> QED
    BY <1>0, <1>1, HandleReads, HandleReloadReads DEF Next

LEMMA ReadsInit == Init => ReadsInv
  <1> SUFFICES ASSUME Init PROVE ReadsInv
    OBVIOUS
  <1>1. acked = 0 /\ SequenceOf(served) \in Nat
    BY TypeInit, SequenceOfType DEF Init, TypeOK
  <1>2. ASSUME NEW r \in Request PROVE Reads(r)
    <2>1. request[r].floor = 0 /\ request[r].store = NoStore
      BY DEF Init
    <2> QED
      BY <1>1, <2>1 DEF Reads
  <1>3. \A h \in Handler : Loads(h)
    BY DEF Init, Loads
  <1> QED
    BY <1>1, <1>2, <1>3 DEF ReadsInv

(* A request never sees a store older than one shown to any client, or     *)
(* acknowledged to any operator, before the request arrived.               *)
THEOREM ReadsAreMonotonic == Spec => []MonotonicReads
  <1>1. ReadsInv => MonotonicReads
    BY DEF ReadsInv, Reads, MonotonicReads
  <1> QED
    BY <1>1, TypeInit, TypeStep, ReadsInit, ReadsStep, PTL DEF Spec

-----------------------------------------------------------------------------
(* Expiry. *)

(* The strengthening of FailClosed: requests arrive in the past, and have  *)
(* no answer before they are done.                                         *)
InTime(r) ==
  /\ request[r].at # "new" => request[r].arrived <= now
  /\ request[r].at # "done" => request[r].answer = "none"
  /\ request[r].answer \in {"content", "not_modified"} =>
       request[r].arrived < ExpiresAt[request[r].store]

InTimeInv == \A r \in Request : InTime(r)

LEMMA HandleInTime ==
  ASSUME TypeOK, InTimeInv, NEW r \in Request, Arrive(r) \/ Handle(r) \/ Upstream(r)
  PROVE  InTimeInv'
  <1>0. /\ request[r] \in RequestState /\ InTime(r)
        /\ now \in Int /\ request[r].arrived \in Int
    BY DEF TypeOK, InTimeInv, RequestState
  <1>1. now' = now
    BY DEF Arrive, Handle, Upstream, Snapshot, ServeNotModified, ServeContent,
           FindExpired, ReportExpired, Forward, Refuse, TimeOut, OriginAnswers,
           OriginFails, Disconnect, UpstreamError
  <1>2. ASSUME InTime(r)', \A q \in Request \ {r} : request'[q] = request[q]
        PROVE  InTimeInv'
    BY <1>1, <1>2 DEF InTimeInv, InTime
  <1>3. CASE Arrive(r)
    <2>1. PICK k \in Kind : \E held \in Copies(k) :
            request' = [request EXCEPT ![r] =
              [@ EXCEPT !.at = "arrived", !.kind = k, !.held = held,
                        !.floor = acked, !.arrived = now]]
      BY <1>3 DEF Arrive
    <2>2. PICK held \in Copies(k) :
            request' = [request EXCEPT ![r] =
              [@ EXCEPT !.at = "arrived", !.kind = k, !.held = held,
                        !.floor = acked, !.arrived = now]]
      BY <2>1
    <2>3. /\ request'[r] = [request[r] EXCEPT !.at = "arrived", !.kind = k,
                              !.held = held, !.floor = acked, !.arrived = now]
          /\ \A q \in Request \ {r} : request'[q] = request[q]
      BY <2>2 DEF TypeOK
    <2>4. /\ request'[r].arrived = now /\ request'[r].answer = "none"
          /\ request'[r].at = "arrived"
      BY <1>0, <1>3, <2>3 DEF Arrive, InTime, RequestState
    <2>5. InTime(r)'
      BY <1>0, <1>1, <2>4 DEF InTime
    <2> QED
      BY <1>2, <2>3, <2>5
  <1>4. CASE ServeNotModified(r) \/ ServeContent(r)
    <2>1. PICK a \in Answers : Answer(r, a)
      BY <1>4 DEF ServeNotModified, ServeContent, Answers
    <2>2. /\ request'[r].at = "done" /\ request'[r].arrived = request[r].arrived
          /\ request'[r].store = request[r].store
          /\ \A q \in Request \ {r} : request'[q] = request[q]
      BY <2>1, AnswerReads
    <2>3. now < ExpiresAt[request[r].store] /\ request[r].arrived <= now
      <3>1. ExpiresAt[request[r].store] \in Int
        BY <1>0, <1>4 DEF ServeNotModified, ServeContent, FromStore, RequestState, Store
      <3> QED
        BY <1>0, <1>4, <3>1 DEF ServeNotModified, ServeContent, FromStore, Expired, InTime
    <2>4. request[r].arrived < ExpiresAt[request[r].store]
      <3>1. ExpiresAt[request[r].store] \in Int
        BY <1>0, <1>4 DEF ServeNotModified, ServeContent, FromStore, RequestState, Store
      <3> QED
        BY <1>0, <2>3, <3>1
    <2>5. InTime(r)'
      BY <1>0, <1>1, <2>2, <2>3, <2>4 DEF InTime
    <2> QED
      BY <1>2, <2>2, <2>5
  <1>5. CASE Snapshot(r) /\ ~poisoned
    <2>1. /\ request'[r] = [request[r] EXCEPT !.at = "routed", !.store = served]
          /\ \A q \in Request \ {r} : request'[q] = request[q]
      BY <1>5 DEF Snapshot, TypeOK
    <2>2. /\ request'[r].arrived = request[r].arrived /\ request'[r].answer = "none"
          /\ request[r].at = "arrived"
      BY <1>0, <1>5, <2>1 DEF Snapshot, InTime, RequestState
    <2>3. InTime(r)'
      BY <1>0, <1>1, <2>2 DEF InTime
    <2> QED
      BY <1>2, <2>1, <2>3
  <1>6. CASE FindExpired(r) \/ Forward(r)
    <2>1. /\ request'[r].arrived = request[r].arrived
          /\ request'[r].answer = "none" /\ request[r].at = "routed"
          /\ \A q \in Request \ {r} : request'[q] = request[q]
      BY <1>0, <1>6 DEF FindExpired, Forward, FromStore, TypeOK, InTime, RequestState
    <2>2. InTime(r)'
      BY <1>0, <1>1, <2>1 DEF InTime
    <2> QED
      BY <1>2, <2>1, <2>2
  <1>7. CASE \/ Snapshot(r) /\ poisoned
             \/ ReportExpired(r) \/ Refuse(r) \/ OriginAnswers(r) \/ Disconnect(r)
             \/ OriginFails(r) \/ TimeOut(r)
    <2>1. PICK a \in Answers \ {"content", "not_modified"} : Answer(r, a)
      BY <1>7 DEF Snapshot, ReportExpired, Refuse, OriginAnswers, Disconnect,
                  OriginFails, TimeOut, UpstreamError, Answers
    <2>2. /\ request'[r].at = "done" /\ request'[r].answer = a
          /\ request'[r].arrived = request[r].arrived
          /\ \A q \in Request \ {r} : request'[q] = request[q]
      BY <2>1, AnswerReads
    <2>3. request[r].at # "new"
      BY <1>7 DEF Snapshot, ReportExpired, Refuse, OriginAnswers, Disconnect,
                  OriginFails, TimeOut, UpstreamError
    <2>4. InTime(r)'
      BY <1>0, <1>1, <2>2, <2>3 DEF InTime
    <2> QED
      BY <1>2, <2>2, <2>4
  <1> QED
    BY <1>3, <1>4, <1>5, <1>6, <1>7 DEF Handle, Upstream

LEMMA InTimeStep == TypeOK /\ InTimeInv /\ [Next]_vars => InTimeInv'
  <1> SUFFICES ASSUME TypeOK, InTimeInv, [Next]_vars PROVE InTimeInv'
    OBVIOUS
  <1>1. CASE Tick
    <2>1. request' = request /\ now' = now + 1 /\ now \in Int
      BY <1>1 DEF Tick, TypeOK
    <2>2. ASSUME NEW r \in Request PROVE InTime(r)'
      <3>1. request[r].arrived \in Int /\ InTime(r)
        BY DEF TypeOK, RequestState, InTimeInv
      <3> QED
        BY <2>1, <3>1 DEF InTime
    <2> QED
      BY <2>2 DEF InTimeInv
  <1>2. ASSUME NEW h \in Handler, Post(h) \/ HandleReload(h) PROVE InTimeInv'
    <2>1. request' = request /\ now' = now
      BY <1>2 DEF Post, HandleReload, LoadStore, LoadFails, Replace, Reject,
                  CountReload, ResetExpiryLog, ReportReload, ReportFailure, LogPanics
    <2> QED
      BY <2>1 DEF InTimeInv, InTime
  <1>3. CASE UNCHANGED vars
    BY <1>3 DEF vars, InTimeInv, InTime
  <1> QED
    BY <1>1, <1>2, <1>3, HandleInTime DEF Next

(* Nothing prepared is answered to a request that arrived after its store  *)
(* had expired, however long ago the store was loaded.                     *)
THEOREM ExpiryFailsClosed == Spec => []FailClosed
  <1>1. Init => InTimeInv
    <2> SUFFICES ASSUME Init, NEW r \in Request PROVE InTime(r)
      BY DEF InTimeInv
    <2>1. request[r].at = "new" /\ request[r].answer = "none"
      BY DEF Init
    <2> QED
      BY <2>1 DEF InTime
  <1>2. InTimeInv => FailClosed
    BY DEF InTimeInv, InTime, FailClosed
  <1> QED
    BY <1>1, <1>2, TypeInit, TypeStep, InTimeStep, PTL DEF Spec
-----------------------------------------------------------------------------
(* Expiry events. *)

(* The reloads that have been counted and have not reset the flag yet. *)
Resetting == {h \in Handler : reload[h].at = "counted"}

(* The events that the flag still lets be written. *)
Owed == IF logged THEN 0 ELSE 1

(* The strengthening of ExpiryLoggedOnce: a counted reload pays for one    *)
(* event, which it owes once it has reset the flag.                        *)
ExpiryInv ==
  /\ IsFiniteSet(Resetting)
  /\ expiries + Owed + Cardinality(Resetting) <= 1 + metrics["store_reloads_total"]

LEMMA ExpiryTypes ==
  ASSUME TypeOK, ExpiryInv
  PROVE  /\ Cardinality(Resetting) \in Nat /\ Owed \in {0, 1} /\ expiries \in Nat
         /\ metrics["store_reloads_total"] \in Nat
  <1>1. Cardinality(Resetting) \in Nat
    BY FS_CardinalityType DEF ExpiryInv
  <1> QED
    BY <1>1 DEF TypeOK, Owed, Counters

LEMMA OtherCount ==
  ASSUME TypeOK, NEW c \in Counters \ {"store_reloads_total"}, metrics' = Count(c)
  PROVE  metrics'["store_reloads_total"] = metrics["store_reloads_total"]
  BY DEF TypeOK, Count, Counters

(* No reload enters or leaves "counted", nothing is counted or reset. *)
LEMMA ExpiryUnchanged ==
  ASSUME ExpiryInv, Resetting' = Resetting,
         logged' = logged, expiries' = expiries,
         metrics'["store_reloads_total"] = metrics["store_reloads_total"]
  PROVE  ExpiryInv'
  <1>1. Owed' = Owed
    BY DEF Owed
  <1> QED
    BY <1>1 DEF ExpiryInv

LEMMA HandleExpiry ==
  ASSUME TypeOK, ExpiryInv, NEW r \in Request, Arrive(r) \/ Handle(r) \/ Upstream(r)
  PROVE  ExpiryInv'
  <1>1. CASE ReportExpired(r)
    <2>1. Resetting' = Resetting
      BY <1>1 DEF ReportExpired, Resetting
    <2>2. expiries' + Owed' <= expiries + Owed /\ Owed' = 0
          /\ expiries' \in Nat /\ metrics' = metrics
      BY <1>1 DEF ReportExpired, Owed, TypeOK
    <2> QED
      BY <2>1, <2>2, ExpiryTypes DEF ExpiryInv
  <1>2. CASE ~ReportExpired(r)
    <2>1. reload' = reload /\ logged' = logged /\ expiries' = expiries
      BY <1>2 DEF Arrive, Handle, Snapshot, ServeNotModified, ServeContent, FindExpired,
                  Forward, Refuse, TimeOut, Upstream, OriginAnswers, OriginFails,
                  Disconnect, UpstreamError
    <2>2. metrics'["store_reloads_total"] = metrics["store_reloads_total"]
      <3>1. \/ metrics' = metrics
            \/ \E c \in Counters \ {"store_reloads_total"} : metrics' = Count(c)
        BY <1>2 DEF Arrive, Handle, Snapshot, ServeNotModified, ServeContent, FindExpired,
                    Forward, Refuse, CountPassthrough, TimeOut, Upstream, OriginAnswers,
                    OriginFails, Disconnect, UpstreamError, Counters
      <3> QED
        BY <3>1, OtherCount
    <2>3. Resetting' = Resetting
      BY <2>1 DEF Resetting
    <2> QED
      BY <2>1, <2>2, <2>3, ExpiryUnchanged
  <1> QED
    BY <1>1, <1>2

LEMMA ReloadExpiry ==
  ASSUME TypeOK, ExpiryInv, NEW h \in Handler, Post(h) \/ HandleReload(h)
  PROVE  ExpiryInv'
  <1>0. reload[h] \in ReloadState
    BY DEF TypeOK
  <1>1. CASE CountReload(h)
    <2>1. /\ reload[h].at = "swapped" /\ reload'[h].at = "counted"
          /\ \A k \in Handler \ {h} : reload'[k] = reload[k]
      BY <1>0, <1>1 DEF CountReload, Goto, TypeOK, ReloadState
    <2>2. h \notin Resetting /\ Resetting' = Resetting \cup {h}
      BY <2>1 DEF Resetting
    <2>3. IsFiniteSet(Resetting') /\ Cardinality(Resetting') = Cardinality(Resetting) + 1
      BY <2>2, FS_AddElement DEF ExpiryInv
    <2>4. metrics'["store_reloads_total"] = metrics["store_reloads_total"] + 1
      BY <1>1 DEF CountReload, Count, Counters, TypeOK
    <2>5. Owed' = Owed /\ expiries' = expiries
      BY <1>1 DEF CountReload, Owed
    <2> QED
      BY <2>3, <2>4, <2>5, ExpiryTypes DEF ExpiryInv
  <1>2. CASE ResetExpiryLog(h)
    <2>1. /\ reload[h].at = "counted" /\ reload'[h].at = "reporting"
          /\ \A k \in Handler \ {h} : reload'[k] = reload[k]
      BY <1>0, <1>2 DEF ResetExpiryLog, Goto, TypeOK, ReloadState
    <2>2. h \in Resetting /\ Resetting' = Resetting \ {h}
      BY <2>1 DEF Resetting
    <2>3. IsFiniteSet(Resetting') /\ Cardinality(Resetting') = Cardinality(Resetting) - 1
      BY <2>2, FS_RemoveElement DEF ExpiryInv
    <2>4. Owed' = 1 /\ expiries' = expiries /\ metrics' = metrics
      BY <1>2 DEF ResetExpiryLog, Owed
    <2> QED
      BY <2>3, <2>4, ExpiryTypes DEF ExpiryInv
  <1>3. CASE ~CountReload(h) /\ ~ResetExpiryLog(h)
    <2>1. logged' = logged /\ expiries' = expiries
      BY <1>3 DEF Post, HandleReload, LoadStore, LoadFails, Replace, Reject,
                  ReportReload, ReportFailure, LogPanics
    <2>2. metrics'["store_reloads_total"] = metrics["store_reloads_total"]
      <3>1. \/ metrics' = metrics
            \/ metrics' = Count("store_reload_failures_total")
        BY <1>3 DEF Post, HandleReload, LoadStore, LoadFails, Replace, Reject,
                    ReportReload, ReportFailure, LogPanics
      <3> QED
        BY <3>1, OtherCount DEF Counters
    <2>3. /\ reload[h].at # "counted" /\ reload'[h].at # "counted"
          /\ \A k \in Handler \ {h} : reload'[k] = reload[k]
      <3>1. CASE ReportReload(h) \/ ReportFailure(h) \/ LogPanics(h)
        <4>1. PICK a \in {"reloaded", "conflict", "aborted"} : Finish(h, a)
          BY <3>1 DEF ReportReload, ReportFailure, LogPanics
        <4>2. /\ reload'[h].at = "done"
              /\ \A k \in Handler \ {h} : reload'[k] = reload[k]
          BY <4>1, FinishReads
        <4> QED
          BY <3>1, <4>2 DEF ReportReload, ReportFailure, LogPanics
      <3>2. CASE LoadStore(h)
        BY <1>0, <3>2 DEF LoadStore, TypeOK, ReloadState
      <3>3. CASE Post(h) \/ LoadFails(h) \/ Reject(h)
        BY <1>0, <3>3 DEF Post, LoadFails, Reject, Goto, TypeOK, ReloadState
      <3>4. CASE Replace(h)
        BY <1>0, <3>4 DEF Replace, TypeOK, ReloadState
      <3> QED
        BY <1>3, <3>1, <3>2, <3>3, <3>4 DEF HandleReload
    <2>4. Resetting' = Resetting
      BY <2>3 DEF Resetting
    <2> QED
      BY <2>1, <2>2, <2>4, ExpiryUnchanged
  <1> QED
    BY <1>1, <1>2, <1>3

LEMMA ExpiryStep == TypeOK /\ ExpiryInv /\ [Next]_vars => ExpiryInv'
  <1> SUFFICES ASSUME TypeOK, ExpiryInv, [Next]_vars PROVE ExpiryInv'
    OBVIOUS
  <1>1. CASE Tick
    <2>1. Resetting' = Resetting
      BY <1>1 DEF Tick, Resetting
    <2> QED
      BY <1>1, <2>1, ExpiryUnchanged DEF Tick
  <1>2. CASE UNCHANGED vars
    <2>1. Resetting' = Resetting
      BY <1>2 DEF vars, Resetting
    <2> QED
      BY <1>2, <2>1, ExpiryUnchanged DEF vars
  <1> QED
    BY <1>1, <1>2, HandleExpiry, ReloadExpiry DEF Next

(* However many requests find the manifest expired and however reloads     *)
(* interleave with them, log_manifest_expired_once writes at most one      *)
(* event, and one more for each reload counted.                            *)
THEOREM ExpiryIsLoggedOnce == Spec => []ExpiryLoggedOnce
  <1>1. Init => ExpiryInv
    <2> SUFFICES ASSUME Init PROVE ExpiryInv
      OBVIOUS
    <2>1. Resetting = {} /\ Owed = 1 /\ expiries = 0 /\ metrics["store_reloads_total"] = 0
      BY DEF Init, Resetting, Owed, Counters
    <2> QED
      BY <2>1, FS_EmptySet DEF ExpiryInv
  <1>2. TypeOK /\ ExpiryInv => ExpiryLoggedOnce
    BY ExpiryTypes DEF ExpiryInv, ExpiryLoggedOnce
  <1> QED
    BY <1>1, <1>2, TypeInit, TypeStep, ExpiryStep, PTL DEF Spec
-----------------------------------------------------------------------------
(* What one step does to one request or one reload, and to the counters.   *)

LEMMA RequestMoves ==
  ASSUME TypeOK, NEW r \in Request, Arrive(r) \/ Handle(r) \/ Upstream(r)
  PROVE  /\ UNCHANGED <<writer, poisoned, reload>>
         /\ \A q \in Request \ {r} : request'[q] = request[q]
         /\ request'[r].answer = request[r].answer \/ request'[r].at = "done"
         /\ Arrive(r) => request'[r].at = "arrived" /\ request'[r].answer = request[r].answer
         /\ request'[r].at = "expired" => FindExpired(r)
         /\ request'[r].answer = "unavailable" =>
              poisoned \/ request[r].answer = "unavailable"
  <1>0. request[r] \in RequestState
    BY DEF TypeOK
  <1>1. CASE Arrive(r)
    <2>1. PICK k \in Kind : \E held \in Copies(k) :
            request' = [request EXCEPT ![r] =
              [@ EXCEPT !.at = "arrived", !.kind = k, !.held = held,
                        !.floor = acked, !.arrived = now]]
      BY <1>1 DEF Arrive
    <2>2. PICK held \in Copies(k) :
            request' = [request EXCEPT ![r] =
              [@ EXCEPT !.at = "arrived", !.kind = k, !.held = held,
                        !.floor = acked, !.arrived = now]]
      BY <2>1
    <2>3. /\ request'[r].at = "arrived" /\ request'[r].answer = request[r].answer
          /\ \A q \in Request \ {r} : request'[q] = request[q]
      BY <1>0, <2>2 DEF TypeOK, RequestState
    <2> QED
      BY <1>1, <2>3 DEF Arrive
  <1>2. CASE (Snapshot(r) /\ ~poisoned) \/ FindExpired(r) \/ Forward(r)
    <2>1. /\ request'[r].answer = request[r].answer
          /\ request'[r].at = "expired" => FindExpired(r)
          /\ request[r].at # "new"
          /\ \A q \in Request \ {r} : request'[q] = request[q]
      <3>1. CASE Snapshot(r) /\ ~poisoned
        <4>1. /\ request'[r] = [request[r] EXCEPT !.at = "routed", !.store = served]
              /\ \A q \in Request \ {r} : request'[q] = request[q]
          BY <3>1 DEF Snapshot, TypeOK
        <4> QED
          BY <1>0, <3>1, <4>1 DEF Snapshot, RequestState
      <3>2. CASE FindExpired(r)
        BY <1>0, <3>2 DEF FindExpired, FromStore, TypeOK, RequestState
      <3>3. CASE Forward(r)
        BY <1>0, <3>3 DEF Forward, TypeOK, RequestState
      <3> QED
        BY <1>2, <3>1, <3>2, <3>3
    <2> QED
      BY <1>2, <2>1 DEF Arrive, Snapshot, FindExpired, Forward
  <1>3. CASE \/ Snapshot(r) /\ poisoned
             \/ ServeContent(r) \/ ServeNotModified(r) \/ ReportExpired(r) \/ Refuse(r)
             \/ OriginAnswers(r) \/ OriginFails(r) \/ TimeOut(r) \/ Disconnect(r)
    <2>1. PICK a \in Answers : Answer(r, a) /\ (a = "unavailable" => poisoned)
      BY <1>3 DEF Snapshot, ServeContent, ServeNotModified, ReportExpired, Refuse,
                  OriginAnswers, OriginFails, TimeOut, UpstreamError, Disconnect, Answers
    <2>2. /\ request'[r].at = "done" /\ request'[r].answer = a
          /\ \A q \in Request \ {r} : request'[q] = request[q]
      BY <2>1, AnswerReads
    <2>3. /\ UNCHANGED <<writer, poisoned, reload>> /\ request[r].at # "new"
      BY <1>3 DEF Snapshot, ServeContent, ServeNotModified, FromStore, ReportExpired, Refuse,
                  OriginAnswers, OriginFails, TimeOut, UpstreamError, Disconnect
    <2> QED
      BY <2>1, <2>2, <2>3 DEF Arrive
  <1> QED
    BY <1>1, <1>2, <1>3 DEF Handle, Upstream

LEMMA GotoMoves ==
  ASSUME TypeOK, NEW h \in Handler, NEW step, Goto(h, step)
  PROVE  /\ reload'[h].at = step /\ reload'[h].answer = reload[h].answer
         /\ reload'[h].swapped = reload[h].swapped
         /\ \A k \in Handler \ {h} : reload'[k] = reload[k]
  BY DEF TypeOK, Goto, ReloadState

LEMMA FinishMoves ==
  ASSUME TypeOK, NEW h \in Handler, NEW a, Finish(h, a)
  PROVE  /\ reload'[h].at = "done" /\ reload'[h].answer = a
         /\ reload'[h].swapped = reload[h].swapped
         /\ \A k \in Handler \ {h} : reload'[k] = reload[k]
  BY DEF TypeOK, Finish, ReloadState

LEMMA ReloadMoves ==
  ASSUME TypeOK, NEW h \in Handler, Post(h) \/ HandleReload(h)
  PROVE  /\ request' = request
         /\ \A k \in Handler \ {h} : reload'[k] = reload[k]
         /\ \/ /\ reload[h].at \in {"new", "loading", "locking"}
               /\ reload'[h].at \in {"failing", "rejecting"}
               /\ reload'[h].answer = reload[h].answer
               /\ reload'[h].swapped = reload[h].swapped
               /\ metrics' = Count("store_reload_failures_total")
            \/ /\ reload[h].at = "swapped" /\ reload'[h].at = "counted"
               /\ reload'[h].answer = reload[h].answer
               /\ reload'[h].swapped = reload[h].swapped
               /\ metrics' = Count("store_reloads_total")
            \/ /\ <<reload[h].at, reload'[h].at>> \in
                    {<<"new", "loading">>, <<"loading", "locking">>,
                     <<"counted", "reporting">>}
               /\ reload'[h].answer = reload[h].answer
               /\ reload'[h].swapped = reload[h].swapped
               /\ metrics' = metrics
            \/ /\ reload[h].at = "locking" /\ reload'[h].at = "swapped"
               /\ reload'[h].answer = reload[h].answer
               /\ reload'[h].swapped
               /\ metrics' = metrics
            \/ /\ reload'[h].at = "done"
               /\ \/ reload[h].at = "reporting" /\ reload'[h].answer = "reloaded"
                  \/ reload[h].at \in {"failing", "rejecting"}
                     /\ reload'[h].answer = "conflict"
                  \/ reload[h].at \in {"failing", "rejecting", "reporting"}
                     /\ reload'[h].answer = "aborted"
               /\ reload'[h].swapped = reload[h].swapped
               /\ metrics' = metrics
  <1>0. reload[h] \in ReloadState
    BY DEF TypeOK
  <1>1. CASE Post(h) /\ served = NoStore
    BY <1>1, GotoMoves DEF Post
  <1>2. CASE Post(h) /\ served # NoStore
    BY <1>2, GotoMoves DEF Post
  <1>3. CASE LoadStore(h)
    <2>1. /\ reload'[h].at = "locking" /\ reload'[h].answer = reload[h].answer
          /\ reload'[h].swapped = reload[h].swapped
          /\ \A k \in Handler \ {h} : reload'[k] = reload[k]
      BY <1>0, <1>3 DEF LoadStore, TypeOK, ReloadState
    <2> QED
      BY <1>3, <2>1 DEF LoadStore
  <1>4. CASE LoadFails(h)
    BY <1>4, GotoMoves DEF LoadFails
  <1>5. CASE Replace(h)
    <2>1. /\ reload'[h].at = "swapped" /\ reload'[h].answer = reload[h].answer
          /\ reload'[h].swapped
          /\ \A k \in Handler \ {h} : reload'[k] = reload[k]
      BY <1>0, <1>5 DEF Replace, TypeOK, ReloadState
    <2> QED
      BY <1>5, <2>1 DEF Replace
  <1>6. CASE Reject(h)
    BY <1>6, GotoMoves DEF Reject
  <1>7. CASE CountReload(h)
    BY <1>7, GotoMoves DEF CountReload
  <1>8. CASE ResetExpiryLog(h)
    BY <1>8, GotoMoves DEF ResetExpiryLog
  <1>9. CASE ReportReload(h)
    BY <1>9, FinishMoves DEF ReportReload
  <1>10. CASE ReportFailure(h)
    BY <1>10, FinishMoves DEF ReportFailure
  <1>11. CASE LogPanics(h)
    BY <1>11, FinishMoves DEF LogPanics
  <1> QED
    BY <1>1, <1>2, <1>3, <1>4, <1>5, <1>6, <1>7, <1>8, <1>9, <1>10, <1>11
    DEF HandleReload

-----------------------------------------------------------------------------
(* The write lock and its poisoning. *)

LEMMA LockStep == TypeOK /\ LockAccountedFor /\ [Next]_vars => LockAccountedFor'
  <1> SUFFICES ASSUME TypeOK, LockAccountedFor, [Next]_vars PROVE LockAccountedFor'
    OBVIOUS
  <1>1. CASE UNCHANGED <<writer, reload>>
    BY <1>1 DEF LockAccountedFor
  <1>2. ASSUME NEW r \in Request, Arrive(r) \/ Handle(r) \/ Upstream(r)
        PROVE  UNCHANGED <<writer, reload>>
    BY <1>2, RequestMoves
  <1>3. ASSUME NEW h \in Handler, Post(h) \/ HandleReload(h)
        PROVE  LockAccountedFor'
    <2>0. /\ writer = h <=> reload[h].at = "rejecting"
          /\ \A k \in Handler \ {h} : reload'[k] = reload[k]
          /\ \A k \in Handler : writer = k <=> reload[k].at = "rejecting"
      BY <1>3, ReloadMoves DEF LockAccountedFor
    <2>1. CASE Reject(h)
      <3>1. writer = NoOne /\ writer' = h /\ reload'[h].at = "rejecting"
        BY <2>1, GotoMoves DEF Reject
      <3>2. \A k \in Handler \ {h} : reload'[k].at # "rejecting"
        BY <2>0, <3>1
      <3> QED
        BY <3>1, <3>2 DEF LockAccountedFor
    <2>2. CASE ReportFailure(h) \/ LogPanics(h)
      <3>1. reload'[h].at = "done" /\ writer' = IF writer = h THEN NoOne ELSE writer
        BY <2>2, FinishMoves DEF ReportFailure, LogPanics
      <3> QED
        BY <2>0, <3>1 DEF LockAccountedFor
    <2>3. CASE ~Reject(h) /\ ~ReportFailure(h) /\ ~LogPanics(h)
      <3>1. writer' = writer /\ reload[h].at # "rejecting"
        BY <1>3, <2>3 DEF Post, HandleReload, LoadStore, LoadFails, Replace, CountReload,
                          ResetExpiryLog, ReportReload
      <3>2. reload'[h].at # "rejecting"
        <4>1. CASE LoadStore(h) \/ Replace(h)
          <5>1. CASE LoadStore(h)
            BY <5>1 DEF LoadStore, TypeOK, ReloadState
          <5>2. CASE Replace(h)
            BY <5>2 DEF Replace, TypeOK, ReloadState
          <5> QED
            BY <4>1, <5>1, <5>2
        <4>2. CASE Post(h) \/ LoadFails(h) \/ CountReload(h) \/ ResetExpiryLog(h)
          BY <4>2, GotoMoves DEF Post, LoadFails, CountReload, ResetExpiryLog
        <4>3. CASE ReportReload(h)
          BY <4>3, FinishMoves DEF ReportReload
        <4> QED
          BY <1>3, <2>3, <4>1, <4>2, <4>3 DEF HandleReload
      <3> QED
        BY <2>0, <3>1, <3>2 DEF LockAccountedFor
    <2> QED
      BY <2>1, <2>2, <2>3
  <1> QED
    BY <1>1, <1>2, <1>3 DEF Next, Tick, vars

(* Whatever way a reload ends, its write guard ends with it, and a holder  *)
(* of the lock never waits: at most one reload holds it, to report.        *)
THEOREM LockIsAccountedFor == Spec => []LockAccountedFor
  <1>1. Init => LockAccountedFor
    BY DEF Init, LockAccountedFor
  <1> QED
    BY <1>1, TypeInit, TypeStep, LockStep, PTL DEF Spec

(* The strengthening of OnlyAPanicRefuses: the lock is poisoned before a   *)
(* request is refused, and a reload is answered once.                      *)
PanicInv ==
  /\ \A h \in Handler : reload[h].at # "done" => reload[h].answer = "none"
  /\ (poisoned \/ \E r \in Request : request[r].answer = "unavailable") =>
       \E h \in Handler : reload[h].answer = "aborted"

LEMMA PanicStep == TypeOK /\ PanicInv /\ [Next]_vars => PanicInv'
  <1> SUFFICES ASSUME TypeOK, PanicInv, [Next]_vars PROVE PanicInv'
    OBVIOUS
  <1>1. CASE UNCHANGED <<poisoned, request, reload>>
    BY <1>1 DEF PanicInv
  <1>2. ASSUME NEW r \in Request, Arrive(r) \/ Handle(r) \/ Upstream(r)
        PROVE  PanicInv'
    <2>1. UNCHANGED <<poisoned, reload>>
      BY <1>2, RequestMoves
    <2>2. \A q \in Request \ {r} : request'[q] = request[q]
      BY <1>2, RequestMoves
    <2>3. request'[r].answer = "unavailable" =>
            poisoned \/ request[r].answer = "unavailable"
      BY <1>2, RequestMoves
    <2> QED
      BY <2>1, <2>2, <2>3 DEF PanicInv
  <1>3. ASSUME NEW h \in Handler, Post(h) \/ HandleReload(h)
        PROVE  PanicInv'
    <2>1. request' = request /\ \A k \in Handler \ {h} : reload'[k] = reload[k]
      BY <1>3, ReloadMoves
    <2>2. reload[h].at # "done" /\ reload[h].answer = "none"
      BY <1>3, ReloadMoves DEF PanicInv
    <2>3. reload'[h].at # "done" => reload'[h].answer = "none"
      BY <1>3, <2>2, ReloadMoves
    <2>4. poisoned' => poisoned \/ reload'[h].answer = "aborted"
      <3>1. CASE LogPanics(h)
        BY <3>1, FinishMoves DEF LogPanics
      <3>2. CASE ~LogPanics(h)
        BY <1>3, <3>2 DEF Post, HandleReload, LoadStore, LoadFails, Replace, Reject,
                          CountReload, ResetExpiryLog, ReportReload, ReportFailure
      <3> QED
        BY <3>1, <3>2
    <2> QED
      BY <2>1, <2>2, <2>3, <2>4 DEF PanicInv
  <1> QED
    BY <1>1, <1>2, <1>3 DEF Next, Tick, vars

LEMMA PanicInvariance == Spec => []PanicInv
  <1>1. Init => PanicInv
    BY DEF Init, PanicInv
  <1> QED
    BY <1>1, TypeInit, TypeStep, PanicStep, PTL DEF Spec

(* A request is refused only after a reload's task has panicked.           *)
THEOREM OnlyPanicsRefuse == Spec => []OnlyAPanicRefuses
  <1>1. PanicInv => OnlyAPanicRefuses
    BY DEF PanicInv, OnlyAPanicRefuses
  <1> QED
    BY <1>1, PanicInvariance, PTL

(* Where writes to stderr do not fail the document's claim holds: the      *)
(* gateway keeps serving, whichever reloads fail.                          *)
THEOREM KeepsServingUnlessStderrFails == ~StderrMayFail => (Spec => []KeepsServing)
  <1>1. ASSUME ~StderrMayFail PROVE Spec => []KeepsServing
    <2> DEFINE Calm == \A h \in Handler : reload[h].answer # "aborted"
    <2>1. Init => Calm
      BY DEF Init
    <2>2. TypeOK /\ Calm /\ [Next]_vars => Calm'
      <3> SUFFICES ASSUME TypeOK, Calm, [Next]_vars PROVE Calm'
        OBVIOUS
      <3>1. ASSUME NEW h \in Handler, Post(h) \/ HandleReload(h) PROVE Calm'
        <4>1. \A k \in Handler \ {h} : reload'[k] = reload[k]
          BY <3>1, ReloadMoves
        <4>2. CASE ReportReload(h) \/ ReportFailure(h)
          BY <4>1, <4>2, FinishMoves DEF ReportReload, ReportFailure
        <4>3. CASE ~ReportReload(h) /\ ~ReportFailure(h)
          <5>1. CASE LoadStore(h)
            BY <5>1 DEF LoadStore, TypeOK, ReloadState
          <5>3. CASE Replace(h)
            BY <5>3 DEF Replace, TypeOK, ReloadState
          <5>2. CASE Post(h) \/ LoadFails(h) \/ Reject(h) \/ CountReload(h)
                     \/ ResetExpiryLog(h)
            BY <4>1, <5>2, GotoMoves
               DEF Post, LoadFails, Reject, CountReload, ResetExpiryLog
          <5> QED
            BY <1>1, <3>1, <4>3, <5>1, <5>2, <5>3 DEF HandleReload, LogPanics
        <4> QED
          BY <4>2, <4>3
      <3>2. CASE UNCHANGED reload
        BY <3>2
      <3>3. ASSUME NEW r \in Request, Arrive(r) \/ Handle(r) \/ Upstream(r)
            PROVE  UNCHANGED reload
        BY <3>3, RequestMoves
      <3> QED
        BY <3>1, <3>2, <3>3 DEF Next, Tick, vars
    <2>3. Calm /\ PanicInv => KeepsServing
      BY DEF PanicInv, KeepsServing
    <2> QED
      BY <2>1, <2>2, <2>3, TypeInit, TypeStep, PanicInvariance, PTL DEF Spec
  <1> QED
    BY <1>1
-----------------------------------------------------------------------------
(* The counters. *)

RequestCounters ==
  {"requests_total", "upstream_errors_total", "views_served_total",
   "manifest_served_total", "negotiation_passthrough_total"}

ReloadCounters == {"store_reloads_total", "store_reload_failures_total"}

(* Counted, asked of one request and of one reload. *)
CountsRequest(c, x) ==
  CASE c = "requests_total"        -> x.at # "new"
    [] c = "manifest_served_total" -> x.answer = "content" /\ x.kind = "manifest"
    [] c = "views_served_total"    ->
         x.answer = "content" /\ x.kind \in {"index", "json", "markdown"}
    [] c = "negotiation_passthrough_total" ->
         x.kind = "browser" /\ x.store # NoStore /\ x.at \in {"upstream", "done"}
    [] c = "upstream_errors_total" -> x.answer \in {"bad_gateway", "timeout"}

CountsReload(c, x) ==
  CASE c = "store_reloads_total" -> x.swapped /\ x.at # "swapped"
    [] c = "store_reload_failures_total" ->
         ~x.swapped /\ x.at \in {"failing", "rejecting", "done"}

(* Where a reload stands tells whether it has assigned its store, until    *)
(* its task may have panicked.                                             *)
Swaps(h) ==
  /\ reload[h].at \in {"swapped", "counted", "reporting"} => reload[h].swapped
  /\ reload[h].at \in {"new", "loading", "locking", "failing", "rejecting"} =>
       ~reload[h].swapped
  /\ reload[h].answer = "reloaded" => reload[h].swapped
  /\ reload[h].answer = "conflict" => ~reload[h].swapped

(* The strengthening of OutcomesCounted.  The sets are finite although     *)
(* Request and Handler need not be.                                        *)
Tally == \A c \in Counters : IsFiniteSet(Counted(c)) /\ metrics[c] = Cardinality(Counted(c))

TallyInv ==
  /\ Tally
  /\ \A r \in Request : request[r].at = "expired" => request[r].kind # "browser"
  /\ \A h \in Handler : Swaps(h)

LEMMA CountedIs ==
  /\ Counters = RequestCounters \cup ReloadCounters
  /\ \A c \in RequestCounters : Counted(c) = {r \in Request : CountsRequest(c, request[r])}
  /\ \A c \in ReloadCounters : Counted(c) = {h \in Handler : CountsReload(c, reload[h])}
  <1>1. Counters = RequestCounters \cup ReloadCounters
    BY DEF Counters, RequestCounters, ReloadCounters
  <1>2. ASSUME NEW c \in RequestCounters
        PROVE  Counted(c) = {r \in Request : CountsRequest(c, request[r])}
    BY <1>2 DEF RequestCounters, Counted, CountsRequest
  <1>3. ASSUME NEW c \in ReloadCounters
        PROVE  Counted(c) = {h \in Handler : CountsReload(c, reload[h])}
    BY <1>3 DEF ReloadCounters, Counted, CountsReload
  <1> QED
    BY <1>1, <1>2, <1>3

LEMMA CountedWillBe ==
  /\ \A c \in RequestCounters : Counted(c)' = {r \in Request : CountsRequest(c, request'[r])}
  /\ \A c \in ReloadCounters : Counted(c)' = {h \in Handler : CountsReload(c, reload'[h])}
  <1>1. ASSUME NEW c \in RequestCounters
        PROVE  Counted(c)' = {r \in Request : CountsRequest(c, request'[r])}
    BY <1>1 DEF RequestCounters, Counted, CountsRequest
  <1>2. ASSUME NEW c \in ReloadCounters
        PROVE  Counted(c)' = {h \in Handler : CountsReload(c, reload'[h])}
    BY <1>2 DEF ReloadCounters, Counted, CountsReload
  <1> QED
    BY <1>1, <1>2

LEMMA CountMoves ==
  ASSUME TypeOK, NEW c \in Counters, metrics' = Count(c)
  PROVE  /\ metrics'[c] = metrics[c] + 1
         /\ \A d \in Counters \ {c} : metrics'[d] = metrics[d]
  BY DEF TypeOK, Count

LEMMA TallyKept ==
  ASSUME Tally, metrics' = metrics, \A c \in Counters : Counted(c)' = Counted(c)
  PROVE  Tally'
  BY DEF Tally

LEMMA TallyRaised ==
  ASSUME TypeOK, Tally, NEW c \in Counters, metrics' = Count(c),
         NEW x, x \notin Counted(c), Counted(c)' = Counted(c) \cup {x},
         \A d \in Counters \ {c} : Counted(d)' = Counted(d)
  PROVE  Tally'
  <1>1. IsFiniteSet(Counted(c)') /\ Cardinality(Counted(c)') = Cardinality(Counted(c)) + 1
    BY FS_AddElement DEF Tally
  <1>2. /\ metrics'[c] = metrics[c] + 1
        /\ \A d \in Counters \ {c} : metrics'[d] = metrics[d]
    BY CountMoves
  <1> QED
    BY <1>1, <1>2 DEF Tally

(* One request moves, and is counted where it has come to count.           *)
LEMMA RequestSets ==
  ASSUME UNCHANGED reload,
         NEW r \in Request, \A q \in Request \ {r} : request'[q] = request[q]
  PROVE  /\ \A c \in ReloadCounters : Counted(c)' = Counted(c)
         /\ \A c \in RequestCounters :
              (CountsRequest(c, request'[r]) <=> CountsRequest(c, request[r])) =>
                Counted(c)' = Counted(c)
         /\ \A c \in RequestCounters :
              CountsRequest(c, request'[r]) /\ ~CountsRequest(c, request[r]) =>
                r \notin Counted(c) /\ Counted(c)' = Counted(c) \cup {r}
  <1>1. \A c \in ReloadCounters : Counted(c)' = Counted(c)
    BY CountedIs, CountedWillBe
  <1>2. ASSUME NEW c \in RequestCounters,
               CountsRequest(c, request'[r]) <=> CountsRequest(c, request[r])
        PROVE  Counted(c)' = Counted(c)
    <2>1. \A q \in Request : CountsRequest(c, request'[q]) <=> CountsRequest(c, request[q])
      BY <1>2
    <2>2. {q \in Request : CountsRequest(c, request'[q])} =
            {q \in Request : CountsRequest(c, request[q])}
      BY <2>1, Zenon
    <2> QED
      BY <2>2, CountedIs, CountedWillBe
  <1>3. ASSUME NEW c \in RequestCounters,
               CountsRequest(c, request'[r]), ~CountsRequest(c, request[r])
        PROVE  r \notin Counted(c) /\ Counted(c)' = Counted(c) \cup {r}
    BY <1>3, CountedIs, CountedWillBe
  <1> QED
    BY <1>1, <1>2, <1>3

LEMMA RequestKept ==
  ASSUME Tally, UNCHANGED reload,
         NEW r \in Request, \A q \in Request \ {r} : request'[q] = request[q],
         \A c \in RequestCounters : CountsRequest(c, request'[r]) <=> CountsRequest(c, request[r]),
         metrics' = metrics
  PROVE  Tally'
  BY RequestSets, CountedIs, TallyKept

LEMMA RequestRaised ==
  ASSUME TypeOK, Tally, UNCHANGED reload,
         NEW r \in Request, \A q \in Request \ {r} : request'[q] = request[q],
         NEW c \in RequestCounters,
         \A d \in RequestCounters \ {c} :
           CountsRequest(d, request'[r]) <=> CountsRequest(d, request[r]),
         CountsRequest(c, request'[r]), ~CountsRequest(c, request[r]),
         metrics' = Count(c)
  PROVE  Tally'
  <1>1. r \notin Counted(c) /\ Counted(c)' = Counted(c) \cup {r}
    BY RequestSets
  <1>2. c \in Counters
    BY CountedIs
  <1>3. \A d \in Counters \ {c} : Counted(d)' = Counted(d)
    BY RequestSets, CountedIs
  <1> QED
    BY <1>1, <1>2, <1>3, TallyRaised

(* One reload moves, and is counted where it has come to count.            *)
LEMMA ReloadSets ==
  ASSUME UNCHANGED request,
         NEW h \in Handler, \A k \in Handler \ {h} : reload'[k] = reload[k]
  PROVE  /\ \A c \in RequestCounters : Counted(c)' = Counted(c)
         /\ \A c \in ReloadCounters :
              (CountsReload(c, reload'[h]) <=> CountsReload(c, reload[h])) =>
                Counted(c)' = Counted(c)
         /\ \A c \in ReloadCounters :
              CountsReload(c, reload'[h]) /\ ~CountsReload(c, reload[h]) =>
                h \notin Counted(c) /\ Counted(c)' = Counted(c) \cup {h}
  <1>1. \A c \in RequestCounters : Counted(c)' = Counted(c)
    BY CountedIs, CountedWillBe
  <1>2. ASSUME NEW c \in ReloadCounters, CountsReload(c, reload'[h]) <=> CountsReload(c, reload[h])
        PROVE  Counted(c)' = Counted(c)
    <2>1. \A k \in Handler : CountsReload(c, reload'[k]) <=> CountsReload(c, reload[k])
      BY <1>2
    <2>2. {k \in Handler : CountsReload(c, reload'[k])} =
            {k \in Handler : CountsReload(c, reload[k])}
      BY <2>1, Zenon
    <2> QED
      BY <2>2, CountedIs, CountedWillBe
  <1>3. ASSUME NEW c \in ReloadCounters,
               CountsReload(c, reload'[h]), ~CountsReload(c, reload[h])
        PROVE  h \notin Counted(c) /\ Counted(c)' = Counted(c) \cup {h}
    BY <1>3, CountedIs, CountedWillBe
  <1> QED
    BY <1>1, <1>2, <1>3

LEMMA ReloadKept ==
  ASSUME Tally, UNCHANGED request,
         NEW h \in Handler, \A k \in Handler \ {h} : reload'[k] = reload[k],
         \A c \in ReloadCounters : CountsReload(c, reload'[h]) <=> CountsReload(c, reload[h]),
         metrics' = metrics
  PROVE  Tally'
  BY ReloadSets, CountedIs, TallyKept

LEMMA ReloadRaised ==
  ASSUME TypeOK, Tally, UNCHANGED request,
         NEW h \in Handler, \A k \in Handler \ {h} : reload'[k] = reload[k],
         NEW c \in ReloadCounters,
         \A d \in ReloadCounters \ {c} :
           CountsReload(d, reload'[h]) <=> CountsReload(d, reload[h]),
         CountsReload(c, reload'[h]), ~CountsReload(c, reload[h]),
         metrics' = Count(c)
  PROVE  Tally'
  <1>1. h \notin Counted(c) /\ Counted(c)' = Counted(c) \cup {h}
    BY ReloadSets
  <1>2. c \in Counters
    BY CountedIs
  <1>3. \A d \in Counters \ {c} : Counted(d)' = Counted(d)
    BY ReloadSets, CountedIs
  <1> QED
    BY <1>1, <1>2, <1>3, TallyRaised

(* What the counters tell apart of a request that is answered. *)
LEMMA AnswerCounts ==
  ASSUME TypeOK, InTimeInv, NEW r \in Request, request[r].at \notin {"new", "done"},
         NEW a \in Answers, Answer(r, a)
  PROVE  LET x == request[r]
             y == request'[r]
         IN  /\ \A q \in Request \ {r} : request'[q] = request[q]
             /\ CountsRequest("requests_total", x) /\ CountsRequest("requests_total", y)
             /\ ~CountsRequest("manifest_served_total", x)
             /\ CountsRequest("manifest_served_total", y) <=>
                  a = "content" /\ x.kind = "manifest"
             /\ ~CountsRequest("views_served_total", x)
             /\ CountsRequest("views_served_total", y) <=>
                  a = "content" /\ x.kind \in {"index", "json", "markdown"}
             /\ ~CountsRequest("upstream_errors_total", x)
             /\ CountsRequest("upstream_errors_total", y) <=> a \in {"bad_gateway", "timeout"}
             /\ CountsRequest("negotiation_passthrough_total", x) <=>
                  x.kind = "browser" /\ x.store # NoStore /\ x.at = "upstream"
             /\ CountsRequest("negotiation_passthrough_total", y) <=>
                  x.kind = "browser" /\ x.store # NoStore
  <1>1. /\ request'[r].at = "done" /\ request'[r].answer = a
        /\ request'[r].kind = request[r].kind /\ request'[r].store = request[r].store
        /\ \A q \in Request \ {r} : request'[q] = request[q]
    BY AnswerReads
  <1>2. request[r].answer = "none"
    BY DEF InTimeInv, InTime
  <1> QED
    BY <1>1, <1>2 DEF CountsRequest

LEMMA HandleTally ==
  ASSUME TypeOK, InTimeInv, ReadsInv, TallyInv,
         NEW r \in Request, Arrive(r) \/ Handle(r) \/ Upstream(r)
  PROVE  Tally'
  <1>0. /\ Tally /\ UNCHANGED reload /\ request[r] \in RequestState
        /\ \A q \in Request \ {r} : request'[q] = request[q]
    BY RequestMoves DEF TallyInv, TypeOK
  <1>1. CASE Arrive(r)
    <2>1. /\ request[r].at = "new" /\ request'[r].at = "arrived"
          /\ request[r].answer = "none" /\ request'[r].answer = "none"
      BY <1>1, RequestMoves DEF Arrive, InTimeInv, InTime
    <2>2. metrics' = Count("requests_total")
      BY <1>1 DEF Arrive
    <2>3. /\ \A c \in RequestCounters \ {"requests_total"} :
               CountsRequest(c, request'[r]) <=> CountsRequest(c, request[r])
          /\ CountsRequest("requests_total", request'[r])
          /\ ~CountsRequest("requests_total", request[r])
      BY <2>1 DEF RequestCounters, CountsRequest
    <2>4. "requests_total" \in RequestCounters
      BY DEF RequestCounters
    <2> QED
      BY <1>0, <2>2, <2>3, <2>4, RequestRaised
  <1>2. CASE (Snapshot(r) /\ ~poisoned) \/ FindExpired(r)
    <2>1. /\ request[r].at \in {"arrived", "routed"} /\ request'[r].at \in {"routed", "expired"}
          /\ request'[r].answer = request[r].answer /\ request'[r].kind = request[r].kind
      <3>1. CASE Snapshot(r) /\ ~poisoned
        <4>1. request'[r] = [request[r] EXCEPT !.at = "routed", !.store = served]
          BY <3>1 DEF Snapshot, TypeOK
        <4> QED
          BY <1>0, <3>1, <4>1 DEF Snapshot, RequestState
      <3>2. CASE FindExpired(r)
        BY <1>0, <3>2 DEF FindExpired, FromStore, TypeOK, RequestState
      <3> QED
        BY <1>2, <3>1, <3>2
    <2>2. metrics' = metrics
      BY <1>2 DEF Snapshot, FindExpired
    <2>3. \A c \in RequestCounters : CountsRequest(c, request'[r]) <=> CountsRequest(c, request[r])
      BY <2>1 DEF RequestCounters, CountsRequest
    <2> QED
      BY <1>0, <2>2, <2>3, RequestKept
  <1>3. CASE Forward(r)
    <2>1. /\ request[r].at = "routed" /\ request'[r].at = "upstream"
          /\ request'[r].answer = request[r].answer /\ request'[r].kind = request[r].kind
          /\ request'[r].store = request[r].store
      BY <1>0, <1>3 DEF Forward, TypeOK, RequestState
    <2>2. \A c \in RequestCounters \ {"negotiation_passthrough_total"} :
            CountsRequest(c, request'[r]) <=> CountsRequest(c, request[r])
      BY <2>1 DEF RequestCounters, CountsRequest
    <2>3. /\ ~CountsRequest("negotiation_passthrough_total", request[r])
          /\ CountsRequest("negotiation_passthrough_total", request'[r]) <=>
               request[r].kind = "browser" /\ request[r].store # NoStore
      BY <2>1 DEF CountsRequest
    <2>4. "negotiation_passthrough_total" \in RequestCounters
      BY DEF RequestCounters
    <2>5. CASE request[r].kind = "browser" /\ request[r].store # NoStore
      <3>1. metrics' = Count("negotiation_passthrough_total")
        BY <1>3, <2>5 DEF Forward, CountPassthrough
      <3> QED
        BY <1>0, <2>2, <2>3, <2>4, <2>5, <3>1, RequestRaised
    <2>6. CASE ~(request[r].kind = "browser" /\ request[r].store # NoStore)
      <3>1. metrics' = metrics
        BY <1>3, <2>6 DEF Forward, CountPassthrough
      <3>2. \A c \in RequestCounters :
              CountsRequest(c, request'[r]) <=> CountsRequest(c, request[r])
        BY <2>2, <2>3, <2>6
      <3> QED
        BY <1>0, <3>1, <3>2, RequestKept
    <2> QED
      BY <2>5, <2>6
  <1>4. CASE Refuse(r)
    <2>1. /\ request[r].at = "routed" /\ Answer(r, "refused") /\ "refused" \in Answers
      BY <1>4 DEF Refuse, Answers
    <2>2. \A c \in RequestCounters \ {"negotiation_passthrough_total"} :
            CountsRequest(c, request'[r]) <=> CountsRequest(c, request[r])
      BY <2>1, AnswerCounts DEF RequestCounters
    <2>3. /\ ~CountsRequest("negotiation_passthrough_total", request[r])
          /\ CountsRequest("negotiation_passthrough_total", request'[r]) <=>
               request[r].kind = "browser" /\ request[r].store # NoStore
      BY <2>1, AnswerCounts
    <2>4. "negotiation_passthrough_total" \in RequestCounters
      BY DEF RequestCounters
    <2>5. CASE request[r].kind = "browser" /\ request[r].store # NoStore
      <3>1. metrics' = Count("negotiation_passthrough_total")
        BY <1>4, <2>5 DEF Refuse, CountPassthrough
      <3> QED
        BY <1>0, <2>2, <2>3, <2>4, <2>5, <3>1, RequestRaised
    <2>6. CASE ~(request[r].kind = "browser" /\ request[r].store # NoStore)
      <3>1. metrics' = metrics
        BY <1>4, <2>6 DEF Refuse, CountPassthrough
      <3>2. \A c \in RequestCounters :
              CountsRequest(c, request'[r]) <=> CountsRequest(c, request[r])
        BY <2>2, <2>3, <2>6
      <3> QED
        BY <1>0, <3>1, <3>2, RequestKept
    <2> QED
      BY <2>5, <2>6
  <1>5. CASE ServeContent(r)
    <2>1. /\ request[r].at = "routed" /\ Answer(r, "content") /\ "content" \in Answers
          /\ request[r].kind \in {"manifest", "index", "json", "markdown"}
      BY <1>5 DEF ServeContent, FromStore, Prepared, Answers
    <2> DEFINE c == IF request[r].kind = "manifest" THEN "manifest_served_total"
                                                    ELSE "views_served_total"
    <2>2. metrics' = Count(c)
      BY <1>5 DEF ServeContent
    <2>3. c \in RequestCounters
      BY DEF RequestCounters
    <2>4. /\ \A d \in RequestCounters \ {c} :
               CountsRequest(d, request'[r]) <=> CountsRequest(d, request[r])
          /\ CountsRequest(c, request'[r]) /\ ~CountsRequest(c, request[r])
      BY <2>1, AnswerCounts DEF RequestCounters
    <2> HIDE DEF c
    <2> QED
      BY <1>0, <2>2, <2>3, <2>4, RequestRaised
  <1>6. CASE OriginFails(r) \/ TimeOut(r)
    <2>1. PICK a \in {"bad_gateway", "timeout"} : Answer(r, a)
      BY <1>6 DEF OriginFails, TimeOut, UpstreamError
    <2>2. /\ request[r].at = "upstream" /\ a \in Answers /\ a # "content"
          /\ metrics' = Count("upstream_errors_total")
      BY <1>6 DEF OriginFails, TimeOut, UpstreamError, Answers
    <2>3. "upstream_errors_total" \in RequestCounters
      BY DEF RequestCounters
    <2>4. /\ \A d \in RequestCounters \ {"upstream_errors_total"} :
               CountsRequest(d, request'[r]) <=> CountsRequest(d, request[r])
          /\ CountsRequest("upstream_errors_total", request'[r])
          /\ ~CountsRequest("upstream_errors_total", request[r])
      BY <2>1, <2>2, AnswerCounts DEF RequestCounters
    <2> QED
      BY <1>0, <2>2, <2>3, <2>4, RequestRaised
  <1>7. CASE \/ Snapshot(r) /\ poisoned
             \/ ServeNotModified(r) \/ ReportExpired(r)
             \/ OriginAnswers(r) \/ Disconnect(r)
    <2>1. PICK a \in Answers \ {"content", "bad_gateway", "timeout"} : Answer(r, a)
      BY <1>7 DEF Snapshot, ServeNotModified, ReportExpired, OriginAnswers, Disconnect, Answers
    <2>2. request[r].at \notin {"new", "done"} /\ metrics' = metrics
      BY <1>7 DEF Snapshot, ServeNotModified, FromStore, ReportExpired, OriginAnswers,
                  Disconnect
    <2>3. \/ request[r].at = "upstream"
          \/ request[r].kind # "browser"
          \/ request[r].store = NoStore
      BY <1>7 DEF Snapshot, ServeNotModified, FromStore, Prepared, ReportExpired,
                  OriginAnswers, Disconnect, ReadsInv, Reads, TallyInv
    <2>4. \A c \in RequestCounters : CountsRequest(c, request'[r]) <=> CountsRequest(c, request[r])
      BY <2>1, <2>2, <2>3, AnswerCounts DEF RequestCounters
    <2> QED
      BY <1>0, <2>2, <2>4, RequestKept
  <1> QED
    BY <1>1, <1>2, <1>3, <1>4, <1>5, <1>6, <1>7 DEF Handle, Upstream

LEMMA ReloadStepTally ==
  ASSUME TypeOK, TallyInv, NEW h \in Handler, Post(h) \/ HandleReload(h)
  PROVE  Tally'
  <1>0. /\ Tally /\ UNCHANGED request /\ Swaps(h)
        /\ \A k \in Handler \ {h} : reload'[k] = reload[k]
        /\ ReloadCounters = {"store_reloads_total", "store_reload_failures_total"}
    BY ReloadMoves DEF TallyInv, ReloadCounters
  <1>1. CASE /\ reload[h].at \in {"new", "loading", "locking"}
             /\ reload'[h].at \in {"failing", "rejecting"}
             /\ reload'[h].swapped = reload[h].swapped
             /\ metrics' = Count("store_reload_failures_total")
    <2>1. ~reload[h].swapped
      BY <1>0, <1>1 DEF Swaps
    <2>2. /\ CountsReload("store_reload_failures_total", reload'[h])
          /\ ~CountsReload("store_reload_failures_total", reload[h])
          /\ CountsReload("store_reloads_total", reload'[h]) <=>
               CountsReload("store_reloads_total", reload[h])
      BY <1>1, <2>1 DEF CountsReload
    <2> QED
      BY <1>0, <1>1, <2>2, ReloadRaised
  <1>2. CASE /\ reload[h].at = "swapped" /\ reload'[h].at = "counted"
             /\ reload'[h].swapped = reload[h].swapped
             /\ metrics' = Count("store_reloads_total")
    <2>1. reload[h].swapped
      BY <1>0, <1>2 DEF Swaps
    <2>2. /\ CountsReload("store_reloads_total", reload'[h])
          /\ ~CountsReload("store_reloads_total", reload[h])
          /\ CountsReload("store_reload_failures_total", reload'[h]) <=>
               CountsReload("store_reload_failures_total", reload[h])
      BY <1>2, <2>1 DEF CountsReload
    <2> QED
      BY <1>0, <1>2, <2>2, ReloadRaised
  <1>3. CASE /\ \/ /\ <<reload[h].at, reload'[h].at>> \in
                        {<<"new", "loading">>, <<"loading", "locking">>,
                         <<"counted", "reporting">>}
                   /\ reload'[h].swapped = reload[h].swapped
                \/ reload[h].at = "locking" /\ reload'[h].at = "swapped"
                \/ /\ reload[h].at \in {"failing", "rejecting", "reporting"}
                   /\ reload'[h].at = "done" /\ reload'[h].swapped = reload[h].swapped
             /\ metrics' = metrics
    <2>1. \A c \in ReloadCounters : CountsReload(c, reload'[h]) <=> CountsReload(c, reload[h])
      BY <1>0, <1>3 DEF CountsReload, Swaps
    <2> QED
      BY <1>0, <1>3, <2>1, ReloadKept
  <1> QED
    BY <1>1, <1>2, <1>3, ReloadMoves

LEMMA TallyStep ==
  ASSUME TypeOK, InTimeInv, ReadsInv, PanicInv, TallyInv, [Next]_vars
  PROVE  TallyInv'
  <1>1. CASE UNCHANGED <<metrics, request, reload>>
    <2>1. \A c \in Counters : Counted(c)' = Counted(c)
      BY <1>1 DEF Counted
    <2> QED
      BY <1>1, <2>1, TallyKept DEF TallyInv, Swaps
  <1>2. ASSUME NEW r \in Request, Arrive(r) \/ Handle(r) \/ Upstream(r) PROVE TallyInv'
    <2>1. request'[r].at = "expired" => request'[r].kind # "browser"
      <3>1. CASE FindExpired(r)
        BY <3>1 DEF FindExpired, FromStore, Prepared, TypeOK, RequestState
      <3>2. CASE ~FindExpired(r)
        BY <1>2, <3>2, RequestMoves
      <3> QED
        BY <3>1, <3>2
    <2>2. UNCHANGED reload /\ \A q \in Request \ {r} : request'[q] = request[q]
      BY <1>2, RequestMoves
    <2> QED
      BY <1>2, <2>1, <2>2, HandleTally DEF TallyInv, Swaps
  <1>3. ASSUME NEW h \in Handler, Post(h) \/ HandleReload(h) PROVE TallyInv'
    <2>1. UNCHANGED request /\ \A k \in Handler \ {h} : reload'[k] = reload[k]
      BY <1>3, ReloadMoves
    <2>2. Swaps(h) /\ (reload[h].at # "done" => reload[h].answer = "none")
      BY DEF TallyInv, PanicInv
    <2>3. Swaps(h)'
      BY <1>3, <2>2, ReloadMoves DEF Swaps
    <2> QED
      BY <1>3, <2>1, <2>3, ReloadStepTally DEF TallyInv, Swaps
  <1> QED
    BY <1>1, <1>2, <1>3 DEF Next, Tick, vars

(* In every state, also between two steps of a handler and after handlers  *)
(* that panicked or were dropped, each counter is the number of requests   *)
(* or reloads that it is to count, and no reload is reported as what it    *)
(* was not.                                                                *)
THEOREM OutcomesAreCounted == Spec => []OutcomesCounted
  <1>1. Init => TallyInv
    <2> SUFFICES ASSUME Init PROVE TallyInv
      OBVIOUS
    <2>1. \A c \in RequestCounters : Counted(c) = {}
      BY CountedIs DEF Init, RequestCounters, CountsRequest
    <2>2. \A c \in ReloadCounters : Counted(c) = {}
      BY CountedIs DEF Init, ReloadCounters, CountsReload
    <2>3. Tally
      BY <2>1, <2>2, CountedIs, FS_EmptySet DEF Init, Tally
    <2> QED
      BY <2>3 DEF Init, TallyInv, Swaps
  <1>2. TallyInv => OutcomesCounted
    BY DEF TallyInv, Tally, Swaps, OutcomesCounted
  <1>3. Init => InTimeInv
    BY DEF Init, InTimeInv, InTime
  <1>4. TypeOK /\ InTimeInv /\ ReadsInv /\ PanicInv /\ TallyInv /\ [Next]_vars => TallyInv'
    BY TallyStep
  <1> QED
    BY <1>1, <1>2, <1>3, <1>4, TypeInit, TypeStep, InTimeStep, ReadsInit, ReadsStep,
       PanicInvariance, PTL DEF Spec
=============================================================================
