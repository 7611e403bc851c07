------------------------------- MODULE Exchange -------------------------------
(***************************************************************************)
(* One exchange on the public listener, in the detail that Serving leaves  *)
(* out: which request target is routed to what (request_target_from_view_url,*)
(* views.index), how the Accept header is weighed item by item             *)
(* (negotiate), and which header fields cross the proxy                    *)
(* (strip_hop_by_hop_headers, the Link to the manifest).  The manifest of  *)
(* the snapshot has not expired; Serving covers its expiry.                *)
(***************************************************************************)
EXTENDS Integers, Sequences

CONSTANTS
  View, NoView,     \* the views that a store may hold
  Url,              \* Url[v] is the url of view v
  Path, Query, Fragment,  \* parts of URLs; an absent part is None
  None,
  ManifestPath,     \* MANIFEST_PATH
  AfterSlash,       \* AfterSlash[x] is the rest of a query or fragment x from its
                    \* first slash on, as a path, or None
  Field,            \* header fields
  Place,            \* Place[f] is the place of a field among others of its name
  Name,             \* NameOf[f] is the name of a field, in lower case, ...
  NameOf, Lists,    \* ... and Lists[f] the names that a Connection field f lists
  Fixed,            \* the names always stripped, in order, such as "connection"
  Proxy,            \* the names that start with "proxy-"
  Html,             \* the Content-Type fields that say text/html
  ManifestLink,     \* the field Link: </.well-known/ajar.json>; rel="ajar-manifest"
  Situation         \* the snapshots, the requests and the origin's answers that meet

(* A URL as its parts.  "none" is for one that starts with its path, and   *)
(* "other" for what the store refuses: another scheme, or relative.        *)
UrlParts ==
  [scheme   : {"none", "http", "other"},
   path     : Path \cup {None},
   query    : Query \cup {None},
   fragment : Fragment \cup {None}]

(* A request target, and a key of views_by_request_target. *)
Target ==
  [path : Path, query : Query \cup {None}, fragment : Fragment \cup {None}]

Weight == {"positive", "nan", "zero"}   \* "zero" is for all that are not above it

(* An item of Accept: its media type and its q parameters, in order. *)
Item ==
  [type : {"json", "markdown", "other"},
   q    : Seq(Weight \cup {"unparsable"})]

(* A client sends no fragment.  `accept' is combined_accept_header: the    *)
(* items of all readable Accept fields, one after the other.               *)
AnyRequest ==
  [get    : BOOLEAN,
   target : {t \in Target : t.fragment = None},
   accept : Seq(Item),
   length : {"undeclared", "within", "over", "malformed"},
   fields : SUBSET Field]

ASSUME ExchangeAssumption ==
  /\ NoView \notin View
  /\ None \notin Path \cup Query \cup Fragment
  /\ "/" \in Path
  /\ ManifestPath \in Path
  /\ Url \in [View -> UrlParts]
  /\ AfterSlash \in [Query \cup Fragment \cup {None} -> Path \cup {None}]
  /\ Place \in [Field -> Nat]
  /\ NameOf \in [Field -> Name]
  /\ Lists \in [Field -> Seq(Name)]
  /\ Fixed \in Seq(Name) /\ Proxy \subseteq Name
  /\ Html \subseteq {f \in Field : NameOf[f] = "content-type"}
  /\ ManifestLink \in Field /\ NameOf[ManifestLink] = "link"
  /\ Situation \subseteq
       [configured : BOOLEAN, store : SUBSET View, index : UrlParts,
        request : AnyRequest, origin : SUBSET Field]

VARIABLES
  configured, \* is a store_dir configured?
  store,      \* the snapshot: the views it holds
  index,      \* its manifest's views.index
  request,    \* the request
  origin,     \* the fields that the origin answers with, if it does
  step,       \* what proxy_request does next
  item,       \* negotiate: the position in Accept ...
  param,      \* ... and among the q of that item
  weight,     \* negotiate: q
  invalid,    \* negotiate: invalid_q
  markdown,   \* negotiate: has it seen an acceptable markdown item?
  leg,        \* which way the fields go that are stripped
  fields,     \* strip_hop_by_hop_headers: what is left of them
  unread,     \* the Connection fields that are still to be read
  keys,       \* the names with the prefix proxy- that are still to be found
  names,      \* the names collected, in order
  removed,    \* how many of them have been removed
  sent,       \* the fields of the upstream request
  received,   \* the fields of the answer that is relayed to the client
  answer      \* what the client is answered, and with which view

given     == <<configured, store, index, request, origin>>
weighing  == <<item, param, weight, invalid, markdown>>
stripping == <<leg, fields, unread, keys, names, removed>>

vars == <<given, step, weighing, stripping, sent, received, answer>>

Answered(kind, v) == [kind |-> kind, view |-> v]

Kinds ==
  {"none", "manifest", "index", "json", "markdown", "relayed",
   "too_large", "bad_length", "no_origin"}

-----------------------------------------------------------------------------
(* The keys of views_by_request_target. *)

(* request_target_from_view_url cuts the text of the URL at the first      *)
(* slash after the scheme, wherever that is; None stands for an error.     *)
RequestTarget(u) ==
  CASE u.scheme = "none" /\ u.path # None ->
         [path |-> u.path, query |-> u.query, fragment |-> u.fragment]
    [] u.scheme = "http" /\ u.path # None ->
         [path |-> u.path, query |-> u.query, fragment |-> u.fragment]
    [] u.scheme = "http" /\ u.path = None /\ AfterSlash[u.query] # None ->
         [path |-> AfterSlash[u.query], query |-> None, fragment |-> u.fragment]
    [] u.scheme = "http" /\ u.path = None /\ AfterSlash[u.query] = None
         /\ AfterSlash[u.fragment] # None ->
         [path |-> AfterSlash[u.fragment], query |-> None, fragment |-> None]
    [] u.scheme = "http" /\ u.path = None /\ AfterSlash[u.query] = None
         /\ AfterSlash[u.fragment] = None ->
         [path |-> "/", query |-> None, fragment |-> None]
    [] OTHER -> None

(* load_from_dir: every url has a target, and no two have the same. *)
Loadable(V) ==
  /\ \A v \in V : RequestTarget(Url[v]) # None
  /\ \A v, w \in V : RequestTarget(Url[v]) = RequestTarget(Url[w]) => v = w

TypeOK ==
  /\ configured \in BOOLEAN
  /\ store \in {V \in SUBSET View : Loadable(V)}
  /\ index \in UrlParts
  /\ request \in AnyRequest
  /\ origin \in SUBSET Field
  /\ step \in {"route", "negotiate", "forward", "strip", "upstream", "done"}
  /\ item \in 1..(Len(request.accept) + 1)
  /\ param \in Nat \ {0}
  /\ weight \in Weight
  /\ invalid \in BOOLEAN
  /\ markdown \in BOOLEAN
  /\ leg \in {"request", "response"}
  /\ fields \in SUBSET Field
  /\ unread \in SUBSET Field
  /\ keys \in SUBSET Name
  /\ names \in Seq(Name)
  /\ removed \in 0..Len(names)
  /\ sent \in SUBSET Field
  /\ received \in SUBSET Field
  /\ answer \in [kind : Kinds, view : View \cup {NoView}]

Init ==
  /\ \E x \in Situation :
       /\ Loadable(x.store)
       /\ configured = x.configured
       /\ store = x.store
       /\ index = x.index
       /\ request = x.request
       /\ origin = x.origin
  /\ step = "route"
  /\ item = 1 /\ param = 1
  /\ weight = "positive" /\ invalid = FALSE
  /\ markdown = FALSE
  /\ leg = "request"
  /\ fields = {} /\ unread = {} /\ keys = {}
  /\ names = <<>> /\ removed = 0
  /\ sent = {}
  /\ received = {}
  /\ answer = Answered("none", NoView)

-----------------------------------------------------------------------------
(* Routing: only GET is answered from the store. *)

Prepared == configured /\ request.get

ToManifest == Prepared /\ request.target.path = ManifestPath

(* The path of the request is compared with the whole text of views.index. *)
ToIndex ==
  /\ Prepared
  /\ ~ToManifest
  /\ index =
       [scheme |-> "none", path |-> request.target.path, query |-> None, fragment |-> None]

(* Mutant: the query of the request is left out of the lookup. *)
AnswersPathOnly(v) == RequestTarget(Url[v]) = [request.target EXCEPT !.query = None]

Answers(v) == RequestTarget(Url[v]) = request.target

ToView(v) == Prepared /\ ~ToManifest /\ ~ToIndex /\ v \in store /\ Answers(v)

Done(kind, v) ==
  /\ step' = "done"
  /\ answer' = Answered(kind, v)
  /\ UNCHANGED <<given, weighing, stripping, sent, received>>

Goto(s) ==
  /\ step' = s
  /\ UNCHANGED <<given, weighing, stripping, sent, received, answer>>

ServeManifest == step = "route" /\ ToManifest /\ Done("manifest", NoView)

ServeViewIndex == step = "route" /\ ToIndex /\ Done("index", NoView)

FindView == step = "route" /\ (\E v \in View : ToView(v)) /\ Goto("negotiate")

FindNothing ==
  /\ step = "route"
  /\ ~ToManifest /\ ~ToIndex
  /\ \A v \in View : ~ToView(v)
  /\ Goto("forward")

-----------------------------------------------------------------------------
(* negotiate: its loop over the items of Accept, and within it the loop    *)
(* over the q parameters of an item.                                       *)

Weighing == step = "negotiate" /\ item <= Len(request.accept)

Current == request.accept[item]

(* The last q that parses counts, and one that does not spoils the item. *)
ReadQ ==
  /\ Weighing
  /\ Current.type # "other"
  /\ param <= Len(Current.q)
  /\ param' = param + 1
  /\ IF Current.q[param] = "unparsable"
     THEN invalid' = TRUE /\ UNCHANGED weight
     ELSE weight' = Current.q[param] /\ UNCHANGED invalid
  /\ UNCHANGED <<given, step, item, markdown, stripping, sent, received, answer>>

Weighed == Current.type # "other" /\ param > Len(Current.q)

(* NaN is not below or equal to zero. *)
Unacceptable == invalid \/ weight = "zero"

(* Mutant: q is declared before the loop and keeps its value. *)
NextItemSameWeight ==
  /\ item' = item + 1
  /\ param' = 1 /\ invalid' = FALSE
  /\ UNCHANGED <<given, step, weight, stripping, sent, received, answer>>

NextItem ==
  /\ item' = item + 1
  /\ param' = 1 /\ weight' = "positive" /\ invalid' = FALSE
  /\ UNCHANGED <<given, step, stripping, sent, received, answer>>

(* Mutant: an item that is passed over takes the next one along. *)
PassOverTwo ==
  /\ Weighing
  /\ Current.type = "other" \/ (Weighed /\ Unacceptable)
  /\ item' = item + 2
  /\ param' = 1 /\ weight' = "positive" /\ invalid' = FALSE
  /\ UNCHANGED <<given, step, markdown, stripping, sent, received, answer>>

PassOver ==
  /\ Weighing
  /\ Current.type = "other" \/ (Weighed /\ Unacceptable)
  /\ NextItem
  /\ UNCHANGED markdown

NoteMarkdown ==
  /\ Weighing
  /\ Current.type = "markdown" /\ Weighed /\ ~Unacceptable
  /\ NextItem
  /\ markdown' = TRUE

(* Ajar JSON is returned at once, whatever its q and its place. *)
ServeViewJson ==
  /\ Weighing
  /\ Current.type = "json" /\ Weighed /\ ~Unacceptable
  /\ \E v \in View : ToView(v) /\ Done("json", v)

ServeViewMarkdown ==
  /\ step = "negotiate" /\ item > Len(request.accept)
  /\ markdown
  /\ \E v \in View : ToView(v) /\ Done("markdown", v)

Passthrough ==
  /\ step = "negotiate" /\ item > Len(request.accept)
  /\ ~markdown
  /\ Goto("forward")

-----------------------------------------------------------------------------
(* strip_hop_by_hop_headers, on the way to the origin and on the way back. *)

Names(H) == {NameOf[f] : f \in H}

Connections(H) == {f \in H : NameOf[f] = "connection"}

(* Mutant: the fixed names are removed before Connection is read. *)
BeginStripRemoving(way, H) ==
  /\ step' = "strip"
  /\ leg' = way
  /\ fields' = {f \in H : \A i \in DOMAIN Fixed : NameOf[f] # Fixed[i]}
  /\ unread' = Connections(fields')
  /\ keys' = Names(H) \cap Proxy
  /\ names' = Fixed /\ removed' = 0

BeginStrip(way, H) ==
  /\ step' = "strip"
  /\ leg' = way
  /\ fields' = H
  /\ unread' = Connections(H)
  /\ keys' = Names(H) \cap Proxy
  /\ names' = Fixed /\ removed' = 0

Stripping == step = "strip" /\ UNCHANGED <<given, step, weighing, leg, sent, received, answer>>

(* hop_by_hop_names reads the Connection fields in their order.  One that  *)
(* is not visible ASCII lists nothing.                                     *)
ReadConnection ==
  /\ Stripping
  /\ \E f \in unread :
       /\ \A g \in unread : Place[f] <= Place[g]
       /\ unread' = unread \ {f}
       /\ names' = names \o Lists[f]
  /\ UNCHANGED <<fields, keys, removed>>

(* The keys follow, in any order; those without the prefix change nothing. *)
FindProxyName ==
  /\ Stripping
  /\ unread = {}
  /\ \E n \in keys :
       /\ keys' = keys \ {n}
       /\ names' = Append(names, n)
  /\ UNCHANGED <<fields, unread, removed>>

Collected == unread = {} /\ keys = {}

(* All fields of the next name go; a name collected twice has none left. *)
RemoveName ==
  /\ Stripping
  /\ Collected /\ removed < Len(names)
  /\ removed' = removed + 1
  /\ fields' = {f \in fields : NameOf[f] # names[removed + 1]}
  /\ UNCHANGED <<unread, keys, names>>

Stripped(way) == step = "strip" /\ leg = way /\ Collected /\ removed = Len(names)

-----------------------------------------------------------------------------
(* The way to the origin and back. *)

(* Without a declared length the body is limited while it streams. *)
Forward ==
  /\ step = "forward" /\ request.length \in {"undeclared", "within"}
  /\ BeginStrip("request", request.fields)
  /\ UNCHANGED <<given, weighing, sent, received, answer>>

Refuse ==
  /\ step = "forward" /\ request.length \in {"over", "malformed"}
  /\ Done(IF request.length = "over" THEN "too_large" ELSE "bad_length", NoView)

Send ==
  /\ Stripped("request")
  /\ step' = "upstream"
  /\ sent' = fields
  /\ UNCHANGED <<given, weighing, stripping, received, answer>>

OriginAnswers ==
  /\ step = "upstream"
  /\ BeginStrip("response", origin)
  /\ UNCHANGED <<given, weighing, sent, received, answer>>

(* The upstream call fails or times out. *)
OriginFails == step = "upstream" /\ Done("no_origin", NoView)

(* is_html_content_type reads the first Content-Type field. *)
IsHtml(H) ==
  \E f \in H \cap Html :
    \A g \in H : NameOf[g] = "content-type" => Place[f] <= Place[g]

(* Mutant: the Link is added before the names are removed. *)
RelayStripLast ==
  /\ Stripped("response")
  /\ step' = "done"
  /\ received' = IF configured /\ IsHtml(fields)
                    /\ \A i \in DOMAIN names : names[i] # NameOf[ManifestLink]
                 THEN fields \cup {ManifestLink} ELSE fields
  /\ answer' = Answered("relayed", NoView)
  /\ UNCHANGED <<given, weighing, stripping, sent>>

(* The origin's own Link fields are kept. *)
Relay ==
  /\ Stripped("response")
  /\ step' = "done"
  /\ received' = IF configured /\ IsHtml(fields) THEN fields \cup {ManifestLink} ELSE fields
  /\ answer' = Answered("relayed", NoView)
  /\ UNCHANGED <<given, weighing, stripping, sent>>

-----------------------------------------------------------------------------
Route == ServeManifest \/ ServeViewIndex \/ FindView \/ FindNothing

Negotiate ==
  \/ ReadQ \/ PassOver \/ NoteMarkdown
  \/ ServeViewJson \/ ServeViewMarkdown \/ Passthrough

Strip == ReadConnection \/ FindProxyName \/ RemoveName

Next ==
  \/ Route \/ Negotiate \/ Strip
  \/ Forward \/ Refuse \/ Send
  \/ OriginAnswers \/ OriginFails \/ Relay

Spec == Init /\ [][Next]_vars

-----------------------------------------------------------------------------
(* Where the request for a URL goes (RFC 3986, RFC 9110): its path, or "/" *)
(* if it has none, with its query and without its fragment.                *)
Dereferenced(u) ==
  [path |-> IF u.path = None THEN "/" ELSE u.path, query |-> u.query, fragment |-> None]

(* An item is acceptable if all of its q are numbers and the last of them, *)
(* if it has any, is not zero or below.                                    *)
Acceptable(i) ==
  /\ \A k \in DOMAIN i.q : i.q[k] # "unparsable"
  /\ i.q # <<>> => i.q[Len(i.q)] # "zero"

Accepts(type) ==
  \E k \in DOMAIN request.accept :
    request.accept[k].type = type /\ Acceptable(request.accept[k])

(* What negotiate chooses depends on the set of acceptable items alone,    *)
(* not on their order nor on the q of their neighbours: JSON if any item   *)
(* accepts it, else markdown if any does, else the origin's page; and      *)
(* nobody gets a view who did not ask for one.                             *)
Negotiated ==
  /\ answer.kind = "json" => Accepts("json")
  /\ answer.kind = "markdown" => Accepts("markdown") /\ ~Accepts("json")
  /\ (step = "forward" /\ \E v \in View : ToView(v)) =>
       ~Accepts("json") /\ ~Accepts("markdown")

(* A GET of a URL on this host, as a client makes it. *)
Gets(u) == configured /\ request.get /\ request.target = Dereferenced(u)

PathOnly(u) ==
  u.scheme = "none" /\ u.path # None /\ u.query = None /\ u.fragment = None

(* A view with a path and no fragment, which neither the manifest nor the  *)
(* index shadows.                                                          *)
Ordinary(u) ==
  /\ u.path \notin {None, ManifestPath}
  /\ ~(PathOnly(index) /\ u.path = index.path)
  /\ u.fragment = None

(* An ordinary view is what a GET of its URL with Accept: Ajar JSON        *)
(* brings, whatever the URLs of the other views look like, and an index    *)
(* whose URL is a path is what a GET of it brings.                         *)
OrdinaryUrlsServed ==
  step = "done" =>
    /\ \A v \in store :
         Gets(Url[v]) /\ Accepts("json") /\ Ordinary(Url[v]) => answer = Answered("json", v)
    /\ Gets(index) /\ PathOnly(index) /\ index.path # ManifestPath => answer.kind = "index"

(* A field belongs to one hop: its name is always stripped, or starts with *)
(* "proxy-", or is listed by some Connection field beside it.              *)
OneHop(f, H) ==
  \/ \E i \in DOMAIN Fixed : Fixed[i] = NameOf[f]
  \/ NameOf[f] \in Proxy
  \/ \E g \in Connections(H) : \E i \in DOMAIN Lists[g] : Lists[g][i] = NameOf[f]

(* "Hop-by-hop request and response headers are stripped at the proxy      *)
(* boundary", in both directions, and no other field is lost, although the *)
(* fields that say what to strip are among those that are stripped.        *)
HopByHopStays ==
  /\ step = "upstream" => sent = {f \in request.fields : ~OneHop(f, request.fields)}
  /\ answer.kind = "relayed" =>
       received \ {ManifestLink} = {f \in origin : ~OneHop(f, origin)} \ {ManifestLink}

(* With a store, every HTML page that is relayed advertises the manifest,  *)
(* even if the origin's Connection lists "link"; without one, none is      *)
(* marked so by the gateway.                                               *)
ManifestAdvertised ==
  answer.kind = "relayed" =>
    /\ (configured /\ IsHtml(received)) => ManifestLink \in received
    /\ (~configured \/ ~IsHtml(received)) =>
         (ManifestLink \in received => ManifestLink \in origin)

(* "GET <view.url> with Accept: application/ajar+json as the signed View". *)
PublishedViewsServed ==
  \A v \in store :
    (step = "done" /\ Gets(Url[v]) /\ Accepts("json")) => answer = Answered("json", v)
=============================================================================
