------------------------------ MODULE MCExchange ------------------------------
(* Instances of Exchange for TLC.  Requests come in three families, each    *)
(* of which varies one thing in full: the target, Accept, the fields.       *)
EXTENDS Exchange, TLC, SequencesExt

U(scheme, path, query, fragment) ==
  [scheme |-> scheme, path |-> path, query |-> query, fragment |-> fragment]

(* The views' URLs, each in one of the forms that the store distinguishes. *)
MCUrl ==
  [v \in View |->
    CASE v = "path"      -> U("none", "/a", None, None)
      [] v = "absolute"  -> U("http", "/b", "?x", None)
      [] v = "same"      -> U("http", "/a", None, None)
      [] v = "fragment"  -> U("none", "/a", "?x", "#f")
      [] v = "root"      -> U("http", None, None, None)
      [] v = "rootquery" -> U("http", None, "?x", None)
      [] v = "slash"     -> U("http", None, "?n=/b", None)
      [] v = "hashbang"  -> U("http", None, None, "#/b")
      [] v = "shadowed"  -> U("none", "/index", "?x", None)
      [] v = "wellknown" -> U("http", ManifestPath, None, None)
      [] v = "relative"  -> U("other", "/a", None, None)]

MCAfterSlash ==
  [x \in Query \cup Fragment \cup {None} |->
    IF x \in {"?n=/b", "#/b"} THEN "/b" ELSE None]

(* The fields: two Connection fields, one of which lists "link" and the     *)
(* other itself and Content-Type, and HTML before and after another type.   *)
MCNameOf ==
  [f \in Field |->
    CASE f \in {"c1", "c2"}              -> "connection"
      [] f \in {"link", "ours"}          -> "link"
      [] f \in {"html", "plain", "late"} -> "content-type"
      [] OTHER                           -> f]

MCFixed == <<"connection", "te">>

MCPlace ==
  [f \in Field |-> CASE f \in {"c2", "plain"} -> 2
                     [] f = "late"           -> 3
                     [] OTHER                -> 1]

MCLists ==
  [f \in Field |-> CASE f = "c1" -> <<"x-one", "link", "x-one">>
                     [] f = "c2" -> <<"content-type", "connection", "x-two">>
                     [] OTHER    -> <<>>]

Json == [type |-> "json", q |-> <<>>]

Items ==
  [type : {"json", "markdown", "other"},
   q    : {<<>>, <<"positive">>, <<"zero">>, <<"nan">>, <<"unparsable">>,
           <<"zero", "positive">>, <<"positive", "zero">>, <<"unparsable", "positive">>}]

Ask(get, path, query, accept, length, fs) ==
  [get |-> get, target |-> [path |-> path, query |-> query, fragment |-> None],
   accept |-> accept, length |-> length, fields |-> fs]

Index == U("none", "/index", None, None)

(* Every store, and every target, with and without Accept; views.index as a *)
(* path, as an absolute URL and with a query.                               *)
ByTarget ==
  [configured : {TRUE}, store : SUBSET View,
   index : {Index, U("http", "/index", None, None), U("none", "/index", "?x", None)},
   request : {Ask(g, p, q, a, "undeclared", {}) :
     g \in BOOLEAN, p \in Path, q \in Query \cup {None}, a \in {<<>>, <<Json>>}},
   origin : {{}}]

ByAccept ==
  [configured : {TRUE}, store : {{"path"}}, index : {Index},
   request : {Ask(TRUE, "/a", None, a, "within", {}) : a \in BoundedSeq(Items, 2)},
   origin : {{}}]

ByRequestFields ==
  [configured : BOOLEAN, store : {{}}, index : {Index},
   request : {Ask(g, "/a", None, <<>>, l, H) :
     g \in BOOLEAN, l \in {"within", "over", "malformed"},
     H \in SUBSET {"c1", "c2", "te", "proxy-a", "proxy-b", "x-one", "x-two"}},
   origin : {{}}]

ByOriginFields ==
  [configured : BOOLEAN, store : {{}}, index : {Index},
   request : {Ask(TRUE, "/a", None, <<>>, "within", {})},
   origin : SUBSET {"c1", "c2", "proxy-a", "x-one", "link", "ours", "html", "plain", "late"}]

MCSituation == ByTarget \cup ByAccept \cup ByRequestFields \cup ByOriginFields

(* The store holds one view, whose URL has a query and no path. *)
Pathless == {x \in ByTarget : x.store = {"rootquery"}}
=============================================================================
