------------------------------- MODULE Serving -------------------------------
(***************************************************************************)
(* The request path and the reload path of crates/serving: proxied         *)
(* requests take a snapshot of the shared store and answer from it or from *)
(* the origin, while POST /reload handlers replace the store under its     *)
(* write lock, and both count, log and read the clock.                     *)
(*                                                                         *)
(* Loading is abstracted to its result: any store that is valid at the     *)
(* time, or a failure.  StoreReload models how the result comes about.     *)
(***************************************************************************)
EXTENDS Integers, FiniteSets

CONSTANTS
  Request,        \* requests to the public listener, each made once
  Handler,        \* POST /reload requests, each made once
  Kind,           \* the kinds of request made, a subset of AllKinds
  PreparedStore,  \* the stores that a load may return
  NoStore,        \* store_dir is not configured
  Sequence,       \* Sequence[s] is the manifest sequence of store s
  ExpiresAt,      \* ExpiresAt[s] is its expiry time
  ViewTag,        \* ViewTag[s] is the etag field of its View
  LastTime,       \* bound: the clock stops here
  StderrMayFail   \* may a write to stderr fail (a closed pipe)?

(* GET of the manifest and of the view index, GET of a view's URL with an  *)
(* Accept header that selects Ajar JSON, markdown or neither, and a        *)
(* request for anything else.                                              *)
AllKinds == {"manifest", "index", "json", "markdown", "browser", "other"}

Prepared == {"manifest", "index", "json", "markdown"}

Store == PreparedStore \cup {NoStore}

NoOne == "no one"      \* nobody holds the write lock

ASSUME ServingAssumption ==
  /\ Kind \subseteq AllKinds
  /\ NoStore \notin PreparedStore
  /\ NoOne \notin Handler
  /\ Sequence \in [PreparedStore -> Nat]
  /\ ExpiresAt \in [PreparedStore -> Int]
  /\ LastTime \in Nat
  /\ StderrMayFail \in BOOLEAN

VARIABLES
  now,         \* the clock, which does not go back here
  served,      \* the shared store
  writer,      \* who holds its write lock (a read guard is held within a step)
  poisoned,    \* the lock is poisoned: a writer panicked while holding it
  logged,      \* ProxyState::manifest_expiry_logged
  metrics,     \* Metrics
  request,     \* what each request is, has read and was answered
  reload,      \* what each reload has loaded and was answered
  acked,       \* history: the highest sequence any client was shown
  expiries     \* history: the ajar_manifest_expired events written

vars == <<now, served, writer, poisoned, logged, metrics, request, reload, acked, expiries>>

(* A copy is what a body was a representation of: its kind and its store. *)
Copy == AllKinds \X Store
NoCopy == <<>>

(* The entity tag of a copy. *)
Tag(kind, s) ==
  CASE kind \in {"json", "markdown"} -> ViewTag[s]   \* taken from the View
    [] OTHER                         -> <<kind, s>>  \* strong_etag: a hash of the bytes

Counters ==
  {"requests_total", "upstream_errors_total", "views_served_total",
   "manifest_served_total", "negotiation_passthrough_total",
   "store_reloads_total", "store_reload_failures_total"}

Count(c) == [metrics EXCEPT ![c] = @ + 1]

Answers ==
  {"none", "content", "not_modified", "expired", "origin", "refused",
   "bad_gateway", "timeout", "unavailable", "aborted"}

RequestState ==
  [at      : {"new", "arrived", "routed", "expired", "upstream", "done"},
   kind    : AllKinds,
   held    : Copy \cup {NoCopy},               \* what If-None-Match names
   floor   : Nat,                            \* history: acked when it arrived
   arrived : Int,                            \* history: the time when it arrived
   store   : Store,                          \* the snapshot
   answer  : Answers]

ReloadState ==
  [at      : {"new", "loading", "locking", "rejecting", "failing", "swapped",
              "counted", "reporting", "done"},
   store   : Store,
   swapped : BOOLEAN,                        \* history: has it assigned its store?
   answer  : {"none", "reloaded", "conflict", "aborted"}]

TypeOK ==
  /\ now \in Int
  /\ served \in Store
  /\ writer \in Handler \cup {NoOne}
  /\ poisoned \in BOOLEAN
  /\ logged \in BOOLEAN
  /\ metrics \in [Counters -> Nat]
  /\ request \in [Request -> RequestState]
  /\ reload \in [Handler -> ReloadState]
  /\ acked \in Nat
  /\ expiries \in Nat

(* The listeners are bound after the store has loaded. *)
Init ==
  /\ now = 0
  /\ served \in {s \in PreparedStore : now < ExpiresAt[s]} \cup {NoStore}
  /\ writer = NoOne
  /\ poisoned = FALSE
  /\ logged = FALSE
  /\ metrics = [c \in Counters |-> 0]
  /\ request = [r \in Request |->
       [at |-> "new", kind |-> "other", held |-> NoCopy, floor |-> 0,
        arrived |-> 0, store |-> NoStore, answer |-> "none"]]
  /\ reload = [h \in Handler |->
       [at |-> "new", store |-> NoStore, swapped |-> FALSE, answer |-> "none"]]
  /\ acked = 0
  /\ expiries = 0

Tick ==
  /\ now < LastTime
  /\ now' = now + 1
  /\ UNCHANGED <<served, writer, poisoned, logged, metrics, request, reload, acked, expiries>>

-----------------------------------------------------------------------------
(* proxy_request *)

Answer(r, answer) ==
  request' = [request EXCEPT ![r] = [@ EXCEPT !.at = "done", !.answer = answer]]

(* The client is shown store s. *)
Show(s) == acked' = IF acked < Sequence[s] THEN Sequence[s] ELSE acked

(* A view's URL is answered in two representations. *)
SameUrl(k1, k2) == k1 = k2 \/ {k1, k2} = {"json", "markdown"}

(* The copies that a client has got of the URL it asks for, or none. *)
Copies(kind) ==
  {NoCopy} \cup
  {<<request[r].kind, request[r].store>> :
     r \in {q \in Request : request[q].answer = "content" /\ SameUrl(request[q].kind, kind)}}

(* A request arrives and is counted. *)
Arrive(r) ==
  /\ request[r].at = "new"
  /\ \E k \in Kind : \E held \in Copies(k) :
       request' = [request EXCEPT ![r] =
         [@ EXCEPT !.at = "arrived", !.kind = k, !.held = held,
                   !.floor = acked, !.arrived = now]]
  /\ metrics' = Count("requests_total")
  /\ UNCHANGED <<now, served, writer, poisoned, logged, reload, acked, expiries>>

(* Mutant: the read lock is tried instead of awaited. *)
SnapshotTrying(r) ==
  /\ request[r].at = "arrived"
  /\ IF poisoned \/ writer # NoOne
     THEN Answer(r, "unavailable")
     ELSE request' = [request EXCEPT ![r] = [@ EXCEPT !.at = "routed", !.store = served]]
  /\ UNCHANGED <<now, served, writer, poisoned, logged, metrics, reload, acked, expiries>>

(* current_store: the read lock waits for a writer; a poisoned lock is an error. *)
Snapshot(r) ==
  /\ request[r].at = "arrived"
  /\ writer = NoOne
  /\ IF poisoned
     THEN Answer(r, "unavailable")
     ELSE request' = [request EXCEPT ![r] = [@ EXCEPT !.at = "routed", !.store = served]]
  /\ UNCHANGED <<now, served, writer, poisoned, logged, metrics, reload, acked, expiries>>

FromStore(r) ==
  /\ request[r].at = "routed"
  /\ request[r].store # NoStore
  /\ request[r].kind \in Prepared

(* Mutant: a manifest is still good at its expiry time. *)
ExpiredAfter(r) == ExpiresAt[request[r].store] < now

Expired(r) == ExpiresAt[request[r].store] <= now

NotModified(r) ==
  /\ request[r].held # NoCopy
  /\ Tag(request[r].held[1], request[r].held[2]) = Tag(request[r].kind, request[r].store)

(* serve_manifest, serve_view_index, serve_view_json, serve_view_markdown. *)
ServeNotModified(r) ==
  /\ FromStore(r) /\ ~Expired(r) /\ NotModified(r)
  /\ Answer(r, "not_modified")
  /\ Show(request[r].store)
  /\ UNCHANGED <<now, served, writer, poisoned, logged, metrics, reload, expiries>>

ServeContent(r) ==
  /\ FromStore(r) /\ ~Expired(r) /\ ~NotModified(r)
  /\ Answer(r, "content")
  /\ Show(request[r].store)
  /\ metrics' = Count(IF request[r].kind = "manifest" THEN "manifest_served_total"
                                                      ELSE "views_served_total")
  /\ UNCHANGED <<now, served, writer, poisoned, logged, reload, expiries>>

FindExpired(r) ==
  /\ FromStore(r) /\ Expired(r)
  /\ request' = [request EXCEPT ![r].at = "expired"]
  /\ UNCHANGED <<now, served, writer, poisoned, logged, metrics, reload, acked, expiries>>

(* Mutant: the flag is set without being compared. *)
ReportExpiredAlways(r) ==
  /\ request[r].at = "expired"
  /\ logged' = TRUE
  /\ expiries' = expiries + 1
  /\ Answer(r, "expired")
  /\ UNCHANGED <<now, served, writer, poisoned, metrics, reload, acked>>

(* log_manifest_expired_once, then the AJAR-VERIFY-EXPIRED problem. *)
ReportExpired(r) ==
  /\ request[r].at = "expired"
  /\ logged' = TRUE
  /\ \/ expiries' = (IF logged THEN expiries ELSE expiries + 1) /\ Answer(r, "expired")
     \/ ~logged /\ StderrMayFail /\ UNCHANGED expiries /\ Answer(r, "aborted")
  /\ UNCHANGED <<now, served, writer, poisoned, metrics, reload, acked>>

(* A GET of a view's URL that selects neither representation is counted    *)
(* before build_upstream_request looks at it.                              *)
CountPassthrough(r) ==
  metrics' = IF request[r].kind = "browser" /\ request[r].store # NoStore
             THEN Count("negotiation_passthrough_total") ELSE metrics

(* Only what is not answered from the store has its declared length read:  *)
(* any of these requests may have one that is accepted (or none) ...       *)
Forward(r) ==
  /\ request[r].at = "routed" /\ ~FromStore(r)
  /\ request' = [request EXCEPT ![r].at = "upstream"]
  /\ CountPassthrough(r)
  /\ UNCHANGED <<now, served, writer, poisoned, logged, reload, acked, expiries>>

(* Mutant: only what is forwarded is counted. *)
RefuseUncounted(r) ==
  /\ request[r].at = "routed" /\ ~FromStore(r)
  /\ Answer(r, "refused")
  /\ UNCHANGED <<now, served, writer, poisoned, logged, metrics, reload, acked, expiries>>

(* ... or one that is over the limit or no number. *)
Refuse(r) ==
  /\ request[r].at = "routed" /\ ~FromStore(r)
  /\ Answer(r, "refused")
  /\ CountPassthrough(r)
  /\ UNCHANGED <<now, served, writer, poisoned, logged, reload, acked, expiries>>

OriginAnswers(r) ==
  /\ request[r].at = "upstream"
  /\ Answer(r, "origin")
  /\ UNCHANGED <<now, served, writer, poisoned, logged, metrics, reload, acked, expiries>>

UpstreamError(r, answer) ==
  /\ request[r].at = "upstream"
  /\ Answer(r, answer)
  /\ metrics' = Count("upstream_errors_total")
  /\ UNCHANGED <<now, served, writer, poisoned, logged, reload, acked, expiries>>

OriginFails(r) == UpstreamError(r, "bad_gateway")
TimeOut(r)     == UpstreamError(r, "timeout")

(* The client goes away: the handler is dropped at its only await. *)
Disconnect(r) ==
  /\ request[r].at = "upstream"
  /\ Answer(r, "aborted")
  /\ UNCHANGED <<now, served, writer, poisoned, logged, metrics, reload, acked, expiries>>

-----------------------------------------------------------------------------
(* reload_store *)

Goto(h, step) == reload' = [reload EXCEPT ![h].at = step]

Finish(h, answer) ==
  reload' = [reload EXCEPT ![h] = [@ EXCEPT !.at = "done", !.answer = answer]]

(* reload_failed counts first; without a store_dir it is called at once. *)
Post(h) ==
  /\ reload[h].at = "new"
  /\ IF served = NoStore
     THEN Goto(h, "failing") /\ metrics' = Count("store_reload_failures_total")
     ELSE Goto(h, "loading") /\ UNCHANGED metrics
  /\ UNCHANGED <<now, served, writer, poisoned, logged, request, acked, expiries>>

LoadStore(h) ==
  /\ reload[h].at = "loading"
  /\ \E s \in PreparedStore :
       /\ now < ExpiresAt[s]
       /\ reload' = [reload EXCEPT ![h] = [@ EXCEPT !.at = "locking", !.store = s]]
  /\ UNCHANGED <<now, served, writer, poisoned, logged, metrics, request, acked, expiries>>

(* Mutant: a failure takes back the reload it never counted. *)
LoadFailsUncounting(h) ==
  /\ reload[h].at = "loading"
  /\ Goto(h, "failing")
  /\ metrics' = [metrics EXCEPT !["store_reloads_total"] = @ - 1]
  /\ UNCHANGED <<now, served, writer, poisoned, logged, request, acked, expiries>>

LoadFails(h) ==
  /\ reload[h].at = "loading"
  /\ Goto(h, "failing")
  /\ metrics' = Count("store_reload_failures_total")
  /\ UNCHANGED <<now, served, writer, poisoned, logged, request, acked, expiries>>

(* Mutant: sequences are not compared. *)
MayReplaceUnchecked(h) == ~poisoned

MayReplace(h) == ~poisoned /\ Sequence[served] <= Sequence[reload[h].store]

(* The write lock is taken, the store assigned and the lock released ... *)
Replace(h) ==
  /\ reload[h].at = "locking" /\ writer = NoOne
  /\ MayReplace(h)
  /\ served' = reload[h].store
  /\ reload' = [reload EXCEPT ![h] = [@ EXCEPT !.at = "swapped", !.swapped = TRUE]]
  /\ UNCHANGED <<now, writer, poisoned, logged, metrics, request, acked, expiries>>

(* ... or kept until reload_failed has counted and logged: the guard, or   *)
(* the error that holds it, lives to the end of the match.                 *)
Reject(h) ==
  /\ reload[h].at = "locking" /\ writer = NoOne
  /\ ~MayReplace(h)
  /\ writer' = h
  /\ Goto(h, "rejecting")
  /\ metrics' = Count("store_reload_failures_total")
  /\ UNCHANGED <<now, served, poisoned, logged, request, acked, expiries>>

CountReload(h) ==
  /\ reload[h].at = "swapped"
  /\ metrics' = Count("store_reloads_total")
  /\ Goto(h, "counted")
  /\ UNCHANGED <<now, served, writer, poisoned, logged, request, acked, expiries>>

ResetExpiryLog(h) ==
  /\ reload[h].at = "counted"
  /\ logged' = FALSE
  /\ Goto(h, "reporting")
  /\ UNCHANGED <<now, served, writer, poisoned, metrics, request, acked, expiries>>

(* log_event writes to stderr, and the answer is sent. *)
ReportReload(h) ==
  /\ reload[h].at = "reporting"
  /\ Finish(h, "reloaded")
  /\ Show(reload[h].store)
  /\ UNCHANGED <<now, served, writer, poisoned, logged, metrics, request, expiries>>

(* Mutant: the write guard outlives the handler. *)
ReportFailureLocked(h) ==
  /\ reload[h].at \in {"failing", "rejecting"}
  /\ Finish(h, "conflict")
  /\ UNCHANGED <<now, served, writer, poisoned, logged, metrics, request, acked, expiries>>

ReportFailure(h) ==
  /\ reload[h].at \in {"failing", "rejecting"}
  /\ Finish(h, "conflict")
  /\ writer' = IF writer = h THEN NoOne ELSE writer
  /\ UNCHANGED <<now, served, poisoned, logged, metrics, request, acked, expiries>>

(* eprintln! panics: the handler's task unwinds and drops its guard. *)
LogPanics(h) ==
  /\ StderrMayFail
  /\ reload[h].at \in {"failing", "rejecting", "reporting"}
  /\ Finish(h, "aborted")
  /\ writer' = IF writer = h THEN NoOne ELSE writer
  /\ poisoned' = (poisoned \/ writer = h)
  /\ UNCHANGED <<now, served, logged, metrics, request, acked, expiries>>

-----------------------------------------------------------------------------
(* What the gateway does on its own once a request has come in. *)
Handle(r) ==
  \/ Snapshot(r)
  \/ ServeNotModified(r) \/ ServeContent(r)
  \/ FindExpired(r) \/ ReportExpired(r)
  \/ Forward(r) \/ Refuse(r)
  \/ TimeOut(r)

Upstream(r) == OriginAnswers(r) \/ OriginFails(r) \/ Disconnect(r)

HandleReload(h) ==
  \/ LoadStore(h) \/ LoadFails(h)
  \/ Replace(h) \/ Reject(h)
  \/ CountReload(h) \/ ResetExpiryLog(h)
  \/ ReportReload(h) \/ ReportFailure(h) \/ LogPanics(h)

Next ==
  \/ Tick
  \/ \E r \in Request : Arrive(r) \/ Handle(r) \/ Upstream(r)
  \/ \E h \in Handler : Post(h) \/ HandleReload(h)

Spec == Init /\ [][Next]_vars

(* Tokio runs every handler on, its timer fires, and stderr is drained.    *)
(* Nothing is assumed of the origin or of the clients.                     *)
Fairness ==
  /\ \A r \in Request : WF_vars(Handle(r))
  /\ \A h \in Handler : WF_vars(HandleReload(h))

FairSpec == Spec /\ Fairness

-----------------------------------------------------------------------------
(* No client goes back in time: a request that arrives after some client   *)
(* was shown a store, or after a reload was acknowledged, is answered from *)
(* a store of that sequence or a later one (current_store, reload_store).  *)
MonotonicReads ==
  \A r \in Request :
    request[r].store # NoStore => request[r].floor <= Sequence[request[r].store]

(* Fail closed: nothing prepared is served for a request that arrives when *)
(* the manifest of the snapshot has expired ("expiry ... failures fail     *)
(* closed"), whenever the store was loaded, swapped or snapshotted.        *)
FailClosed ==
  \A r \in Request :
    request[r].answer \in {"content", "not_modified"} =>
      request[r].arrived < ExpiresAt[request[r].store]

(* log_manifest_expired_once: however requests and reloads interleave, at  *)
(* most one expiry event is written, and one more for each reload counted. *)
ExpiryLoggedOnce == expiries <= 1 + metrics["store_reloads_total"]

(* The write lock is never left behind, not by an early return and not by  *)
(* an unwinding task: whoever holds it is a rejected reload that has only  *)
(* its report left to make and waits for nobody (reload_store).            *)
LockAccountedFor ==
  \A h \in Handler : writer = h <=> reload[h].at = "rejecting"

(* "On failure, the Gateway keeps the old in-memory store serving", up to  *)
(* the one way in which it does not: a request is refused only after the   *)
(* task of a reload has panicked, and a reload that is answered 409, of    *)
(* whatever kind, never takes the store away (current_store, log_event).   *)
OnlyAPanicRefuses ==
  (\E r \in Request : request[r].answer = "unavailable") =>
    \E h \in Handler : reload[h].answer = "aborted"

(* What each counter is to count. *)
Counted(c) ==
  CASE c = "requests_total" -> {r \in Request : request[r].at # "new"}
    [] c = "manifest_served_total" ->
         {r \in Request : request[r].answer = "content" /\ request[r].kind = "manifest"}
    [] c = "views_served_total" ->
         {r \in Request : request[r].answer = "content"
                            /\ request[r].kind \in {"index", "json", "markdown"}}
    [] c = "negotiation_passthrough_total" ->
         {r \in Request : request[r].kind = "browser" /\ request[r].store # NoStore
                            /\ request[r].at \in {"upstream", "done"}}
    [] c = "upstream_errors_total" ->
         {r \in Request : request[r].answer \in {"bad_gateway", "timeout"}}
    [] c = "store_reloads_total" ->
         {h \in Handler : reload[h].swapped /\ reload[h].at # "swapped"}
    [] c = "store_reload_failures_total" ->
         {h \in Handler : ~reload[h].swapped
                            /\ reload[h].at \in {"failing", "rejecting", "done"}}

(* The counters agree with what happened, in the middle of any handler and *)
(* also for handlers that were dropped or panicked: each request, each     *)
(* content by its kind, each GET of a view's URL left to the origin (even  *)
(* if it is then refused), each origin that failed, each reload that       *)
(* assigned its store and each that did not is counted once; and a reload  *)
(* is answered 200 if it assigned its store and 409 if it did not.         *)
OutcomesCounted ==
  /\ \A c \in Counters : metrics[c] = Cardinality(Counted(c))
  /\ \A h \in Handler :
       /\ reload[h].answer = "reloaded" => reload[h].swapped
       /\ reload[h].answer = "conflict" => ~reload[h].swapped

(* Everyone is answered: the origin may be silent for ever and reloads may *)
(* hold the write lock, but no request and no reload hangs.                *)
EveryoneAnswered ==
  /\ \A r \in Request : request[r].at = "arrived" ~> request[r].at = "done"
  /\ \A h \in Handler : reload[h].at \in {"loading", "failing"} ~> reload[h].at = "done"

(* "On failure, the Gateway keeps the old in-memory store serving".        *)
KeepsServing == \A r \in Request : request[r].answer # "unavailable"

(* "Strong view-level entity tag": a client told that its copy is not      *)
(* modified has a copy of the representation it asked for.                 *)
NotModifiedTruthful ==
  \A r \in Request :
    request[r].answer = "not_modified" => request[r].held[1] = request[r].kind
=============================================================================
