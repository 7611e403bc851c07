---------------------------- MODULE ExchangeProofs ----------------------------
(***************************************************************************)
(* Routing, negotiation and header fields for Accept headers of any length *)
(* and for any views, URLs and fields.                                     *)
(***************************************************************************)
EXTENDS Exchange, TLAPS

Wants(k, type) == request.accept[k].type = type /\ Acceptable(request.accept[k])

(* What the inner loop of negotiate knows of the q it has read.            *)
ParamInv ==
  /\ param \in 1..(Len(Current.q) + 1)
  /\ invalid <=> \E k \in 1..(param - 1) : Current.q[k] = "unparsable"
  /\ ~invalid => weight = IF param = 1 THEN "positive" ELSE Current.q[param - 1]

(* What negotiate knows of the items it has passed. *)
WeighedInv ==
  /\ step = "route" => item = 1 /\ param = 1 /\ weight = "positive" /\ ~invalid /\ ~markdown
  /\ step = "negotiate" =>
       /\ \E v \in View : ToView(v)
       /\ \A k \in 1..(item - 1) : ~Wants(k, "json")
       /\ markdown <=> \E k \in 1..(item - 1) : Wants(k, "markdown")
       /\ item <= Len(request.accept) => ParamInv

(* Nobody is left to the origin who asked for what the store has. *)
LeftToOrigin ==
  /\ ~ToManifest /\ ~ToIndex
  /\ (\E v \in View : ToView(v)) => ~Accepts("json") /\ ~Accepts("markdown")

AnswerInv ==
  /\ step \in {"forward", "strip", "upstream"} => LeftToOrigin
  /\ step # "done" => answer.kind = "none"
  /\ step = "done" =>
       CASE answer.kind = "manifest" -> ToManifest
         [] answer.kind = "index"    -> ToIndex
         [] answer.kind = "json"     -> ToView(answer.view) /\ Accepts("json")
         [] answer.kind = "markdown" ->
              ToView(answer.view) /\ Accepts("markdown") /\ ~Accepts("json")
         [] OTHER                    -> LeftToOrigin

Elem(n, s) == \E i \in DOMAIN s : s[i] = n

(* The fields that strip_hop_by_hop_headers was given. *)
Original == IF leg = "request" THEN request.fields ELSE origin

(* The names collected are those that the part of Original already looked  *)
(* at calls for; nothing goes before all are collected, and what has gone  *)
(* are the fields with the names passed.                                   *)
StripInv ==
  step = "strip" =>
    /\ unread \subseteq Connections(Original)
    /\ keys \subseteq Names(Original) \cap Proxy
    /\ \A n \in Name : Elem(n, names) <=>
         \/ Elem(n, Fixed)
         \/ n \in (Names(Original) \cap Proxy) \ keys
         \/ \E g \in Connections(Original) \ unread : Elem(n, Lists[g])
    /\ removed > 0 => Collected
    /\ fields = {f \in Original : \A i \in 1..removed : names[i] # NameOf[f]}

(* The fields of H that belong to more than one hop. *)
Crossing(H) == {f \in H : ~OneHop(f, H)}

FieldInv ==
  /\ step = "upstream" => sent = Crossing(request.fields)
  /\ answer.kind = "relayed" =>
       received = IF configured /\ IsHtml(Crossing(origin))
                  THEN Crossing(origin) \cup {ManifestLink} ELSE Crossing(origin)

Inv == TypeOK /\ WeighedInv /\ AnswerInv /\ StripInv /\ FieldInv

(* Nothing of what is given changes during the exchange. *)
LEMMA GivenStays == [Next]_vars => UNCHANGED <<configured, store, index, request, origin>>
BY DEF Next, vars, given, Route, Negotiate, Strip, ServeManifest, ServeViewIndex, FindView,
   FindNothing, ReadQ, PassOver, NoteMarkdown, ServeViewJson, ServeViewMarkdown, Passthrough,
   ReadConnection, FindProxyName, RemoveName, Stripping, Forward, Refuse, Send, OriginAnswers,
   OriginFails, Relay, NextItem, Done, Goto

LEMMA SameQuestions ==
  ASSUME UNCHANGED <<configured, store, index, request, origin>>
  PROVE  /\ \A v : ToView(v)' <=> ToView(v)
         /\ ToManifest' <=> ToManifest
         /\ ToIndex' <=> ToIndex
         /\ \A type : Accepts(type)' <=> Accepts(type)
         /\ \A k, type : Wants(k, type)' <=> Wants(k, type)
         /\ LeftToOrigin' <=> LeftToOrigin
BY DEF ToView, ToManifest, ToIndex, Accepts, Wants, LeftToOrigin, Prepared, Answers, Acceptable

(* The positions of Accept. *)
LEMMA Items ==
  ASSUME TypeOK
  PROVE  /\ request.accept \in Seq(Item)
         /\ DOMAIN request.accept = 1..Len(request.accept)
         /\ Len(request.accept) \in Nat
         /\ item \in Int
         /\ item <= Len(request.accept) =>
              /\ Current \in Item
              /\ Current.q \in Seq(Weight \cup {"unparsable"})
              /\ Len(Current.q) \in Nat
<1>1. request.accept \in Seq(Item) /\ item \in 1..(Len(request.accept) + 1)
  BY DEF TypeOK, AnyRequest
<1>2. /\ DOMAIN request.accept = 1..Len(request.accept)
      /\ Len(request.accept) \in Nat
      /\ item \in Int
  BY <1>1
<1>3. item <= Len(request.accept) => Current \in Item
  BY <1>1, <1>2 DEF Current
<1>4. Current \in Item =>
        Current.q \in Seq(Weight \cup {"unparsable"}) /\ Len(Current.q) \in Nat
  BY DEF Item
<1> QED
  BY <1>1, <1>2, <1>3, <1>4

LEMMA ElemConcat ==
  ASSUME NEW s \in Seq(Name), NEW t \in Seq(Name), NEW n
  PROVE  Elem(n, s \o t) <=> Elem(n, s) \/ Elem(n, t)
<1>1. /\ DOMAIN s = 1..Len(s) /\ DOMAIN t = 1..Len(t)
      /\ Len(s) \in Nat /\ Len(t) \in Nat
      /\ DOMAIN (s \o t) = 1..(Len(s) + Len(t))
      /\ \A i \in 1..(Len(s) + Len(t)) :
           (s \o t)[i] = IF i <= Len(s) THEN s[i] ELSE t[i - Len(s)]
  OBVIOUS
<1>2. ASSUME NEW i \in DOMAIN s, s[i] = n PROVE Elem(n, s \o t)
  BY <1>1, <1>2 DEF Elem
<1>3. ASSUME NEW i \in DOMAIN t, t[i] = n PROVE Elem(n, s \o t)
  <2>1. Len(s) + i \in DOMAIN (s \o t) /\ (s \o t)[Len(s) + i] = n
    BY <1>1, <1>3
  <2> QED
    BY <2>1 DEF Elem
<1>4. ASSUME NEW i \in DOMAIN (s \o t), (s \o t)[i] = n PROVE Elem(n, s) \/ Elem(n, t)
  <2>1. CASE i <= Len(s)
    BY <1>1, <1>4, <2>1 DEF Elem
  <2>2. CASE ~(i <= Len(s))
    <3>1. i - Len(s) \in DOMAIN t /\ t[i - Len(s)] = n
      BY <1>1, <1>4, <2>2
    <3> QED
      BY <3>1 DEF Elem
  <2> QED
    BY <2>1, <2>2
<1> QED
  BY <1>2, <1>3, <1>4 DEF Elem

LEMMA ElemAppend ==
  ASSUME NEW s \in Seq(Name), NEW m \in Name, NEW n
  PROVE  Elem(n, Append(s, m)) <=> Elem(n, s) \/ n = m
<1>1. /\ DOMAIN s = 1..Len(s) /\ Len(s) \in Nat
      /\ DOMAIN Append(s, m) = 1..(Len(s) + 1)
      /\ \A i \in 1..Len(s) : Append(s, m)[i] = s[i]
      /\ Append(s, m)[Len(s) + 1] = m
  OBVIOUS
<1>2. Len(s) + 1 \in DOMAIN Append(s, m)
  BY <1>1
<1> QED
  BY <1>1, <1>2 DEF Elem

LEMMA InitInv == Init => Inv
<1> SUFFICES ASSUME Init PROVE Inv
  OBVIOUS
<1>1. PICK x \in Situation :
        /\ Loadable(x.store) /\ configured = x.configured /\ store = x.store
        /\ index = x.index /\ request = x.request /\ origin = x.origin
  BY DEF Init
<1>2. /\ configured \in BOOLEAN /\ store \in SUBSET View /\ index \in UrlParts
      /\ request \in AnyRequest /\ origin \in SUBSET Field
  BY <1>1, ExchangeAssumption
<1>3. Len(request.accept) \in Nat
  BY <1>2 DEF AnyRequest
<1>4. /\ step = "route" /\ item = 1 /\ param = 1 /\ weight = "positive"
      /\ invalid = FALSE /\ markdown = FALSE /\ leg = "request"
      /\ fields = {} /\ unread = {} /\ keys = {} /\ names = <<>> /\ removed = 0
      /\ sent = {} /\ received = {} /\ answer = Answered("none", NoView)
  BY DEF Init
<1>5. TypeOK
  <2>1. Loadable(store)
    BY <1>1
  <2>2. item \in 1..(Len(request.accept) + 1)
    BY <1>3, <1>4
  <2>3. names \in Seq(Name) /\ removed \in 0..Len(names)
    BY <1>4
  <2>4. answer \in [kind : Kinds, view : View \cup {NoView}]
    BY <1>4 DEF Answered, Kinds
  <2>5. param \in Nat \ {0} /\ weight \in Weight
    BY <1>4 DEF Weight
  <2> QED
    BY <1>2, <1>4, <2>1, <2>2, <2>3, <2>4, <2>5 DEF TypeOK
<1>6. WeighedInv /\ AnswerInv /\ StripInv /\ FieldInv
  BY <1>4 DEF WeighedInv, AnswerInv, StripInv, FieldInv, Answered
<1> QED
  BY <1>5, <1>6 DEF Inv

-----------------------------------------------------------------------------
LEMMA TypeStep == TypeOK /\ [Next]_vars => TypeOK'
<1> SUFFICES ASSUME TypeOK, [Next]_vars PROVE TypeOK'
  OBVIOUS
<1>1. UNCHANGED <<configured, store, index, request, origin>>
  BY GivenStays
<1>2. (/\ configured \in BOOLEAN /\ store \in {V \in SUBSET View : Loadable(V)}
       /\ index \in UrlParts /\ request \in AnyRequest /\ origin \in SUBSET Field)'
  BY <1>1 DEF TypeOK, Loadable
<1>3. CASE \/ \E kind \in Kinds, v \in View \cup {NoView} : Done(kind, v)
           \/ \E s \in {"negotiate", "forward"} : Goto(s)
  BY <1>1, <1>2, <1>3 DEF TypeOK, Done, Goto, weighing, stripping, Answered
<1>4. CASE ReadQ
  <2>1. param' \in Nat \ {0}
    BY <1>4 DEF ReadQ, TypeOK
  <2>2. weight' \in Weight /\ invalid' \in BOOLEAN
    <3>1. Current.q[param] \in Weight \cup {"unparsable"}
      BY <1>4, Items DEF ReadQ, Weighing, TypeOK
    <3> QED
      BY <1>4, <3>1 DEF ReadQ, TypeOK
  <2> QED
    BY <1>1, <1>2, <1>4, <2>1, <2>2 DEF ReadQ, TypeOK, stripping
<1>5. CASE PassOver \/ NoteMarkdown
  <2>1. item' \in 1..(Len(request.accept') + 1)
    BY <1>1, <1>5, Items DEF TypeOK, PassOver, NoteMarkdown, NextItem, Weighing
  <2>2. param' \in Nat \ {0} /\ weight' \in Weight /\ invalid' \in BOOLEAN
    <3>1. param' = 1 /\ weight' = "positive"
      BY <1>5 DEF PassOver, NoteMarkdown, NextItem
    <3>2. invalid' \in BOOLEAN
      BY <1>5, Zenon DEF PassOver, NoteMarkdown, NextItem
    <3> QED
      BY <3>1, <3>2 DEF Weight
  <2>3. markdown' \in BOOLEAN
    <3>1. markdown' = markdown \/ markdown' = TRUE
      BY <1>5 DEF PassOver, NoteMarkdown
    <3>2. markdown \in BOOLEAN
      BY DEF TypeOK
    <3> QED
      BY <3>1, <3>2
  <2> QED
    BY <1>1, <1>2, <1>5, <2>1, <2>2, <2>3
       DEF TypeOK, PassOver, NoteMarkdown, NextItem, stripping
<1>6. CASE ReadConnection \/ FindProxyName \/ RemoveName
  <2>1. /\ fields' \in SUBSET Field /\ unread' \in SUBSET Field /\ keys' \in SUBSET Name
    BY <1>6 DEF ReadConnection, FindProxyName, RemoveName, TypeOK
  <2>2. names' \in Seq(Name) /\ removed' \in 0..Len(names')
    <3>1. CASE ReadConnection
      <4>1. PICK f \in unread : names' = names \o Lists[f] /\ removed' = removed
        BY <3>1 DEF ReadConnection
      <4>2. Lists[f] \in Seq(Name) /\ names \in Seq(Name) /\ removed \in 0..Len(names)
        BY ExchangeAssumption DEF TypeOK
      <4>3. Len(names') = Len(names) + Len(Lists[f]) /\ Len(Lists[f]) \in Nat
            /\ Len(names) \in Nat /\ names' \in Seq(Name)
        BY <4>1, <4>2
      <4> QED
        BY <4>1, <4>2, <4>3
    <3>2. CASE FindProxyName
      BY <3>2 DEF FindProxyName, TypeOK
    <3>3. CASE RemoveName
      BY <3>3 DEF RemoveName, TypeOK
    <3> QED
      BY <1>6, <3>1, <3>2, <3>3
  <2> QED
    BY <1>1, <1>2, <1>6, <2>1, <2>2
       DEF TypeOK, ReadConnection, FindProxyName, RemoveName, Stripping, weighing
<1>7. CASE Forward \/ OriginAnswers
  <2>1. /\ fields' \in SUBSET Field /\ unread' \in SUBSET Field /\ keys' \in SUBSET Name
        /\ leg' \in {"request", "response"} /\ step' = "strip"
    BY <1>7, ExchangeAssumption
       DEF Forward, OriginAnswers, BeginStrip, Connections, Names, TypeOK, AnyRequest
  <2>2. names' \in Seq(Name) /\ removed' \in 0..Len(names')
    <3>1. names' = Fixed /\ removed' = 0 /\ Fixed \in Seq(Name)
      BY <1>7, ExchangeAssumption DEF Forward, OriginAnswers, BeginStrip
    <3> QED
      BY <3>1
  <2> QED
    BY <1>1, <1>2, <1>7, <2>1, <2>2 DEF TypeOK, Forward, OriginAnswers, weighing
<1>8. CASE Send
  BY <1>1, <1>2, <1>8 DEF TypeOK, Send, weighing, stripping
<1>9. CASE Relay
  <2>1. received' \in SUBSET Field
    BY <1>9, ExchangeAssumption DEF Relay, TypeOK
  <2> QED
    BY <1>1, <1>2, <1>9, <2>1 DEF TypeOK, Relay, weighing, stripping, Answered, Kinds
<1>10. CASE UNCHANGED vars
  <2>1. UNCHANGED <<step, item, param, weight, invalid, markdown, leg, fields, unread, keys,
                    names, removed, sent, received, answer>>
    BY <1>10 DEF vars, weighing, stripping
  <2> QED
    BY <1>1, <1>2, <2>1 DEF TypeOK
<1>11. CASE \/ ServeManifest \/ ServeViewIndex \/ ServeViewJson \/ ServeViewMarkdown
            \/ Refuse \/ OriginFails \/ FindView \/ FindNothing \/ Passthrough
  BY <1>3, <1>11 DEF ServeManifest, ServeViewIndex, ServeViewJson, ServeViewMarkdown,
     Refuse, OriginFails, FindView, FindNothing, Passthrough, Kinds
<1> QED
  BY <1>4, <1>5, <1>6, <1>7, <1>8, <1>9, <1>10, <1>11 DEF Next, Route, Negotiate, Strip

(* When all q of an item are read, the loop has judged it right. *)
LEMMA Judged ==
  ASSUME Inv, Weighing, Weighed
  PROVE  Unacceptable <=> ~Acceptable(Current)
<1>1. /\ ParamInv /\ Len(Current.q) \in Nat
      /\ Current.q \in Seq(Weight \cup {"unparsable"})
  BY Items DEF Inv, WeighedInv, Weighing
<1>2. param = Len(Current.q) + 1
  BY <1>1 DEF ParamInv, Weighed
<1>3. DOMAIN Current.q = 1..(param - 1) /\ (Current.q = <<>> <=> param = 1)
  BY <1>1, <1>2
<1>4. CASE invalid
  BY <1>1, <1>3, <1>4 DEF ParamInv, Acceptable, Unacceptable
<1>5. CASE ~invalid
  BY <1>1, <1>2, <1>3, <1>5 DEF ParamInv, Acceptable, Unacceptable
<1> QED
  BY <1>4, <1>5

LEMMA FreshParam ==
  ASSUME TypeOK, item <= Len(request.accept), param = 1, weight = "positive", ~invalid
  PROVE  ParamInv
<1>1. Len(Current.q) \in Nat
  BY Items
<1> QED
  BY <1>1 DEF ParamInv

LEMMA WeighedStep == Inv /\ TypeOK' /\ [Next]_vars => WeighedInv'
<1> SUFFICES ASSUME Inv, TypeOK', [Next]_vars PROVE WeighedInv'
  OBVIOUS
<1>1. UNCHANGED <<configured, store, index, request, origin>>
  BY GivenStays
<1>2. CASE PassOver \/ NoteMarkdown
  <2>0. Weighing /\ item' = item + 1 /\ step' = "negotiate" /\ step = "negotiate"
    BY <1>2 DEF PassOver, NoteMarkdown, NextItem, Weighing
  <2>1. 1..(item' - 1) = (1..(item - 1)) \cup {item}
    BY <2>0, Items DEF Inv, TypeOK
  <2>2. ~Wants(item, "json")
    BY <1>2, <2>0, Judged DEF PassOver, NoteMarkdown, Wants, Current
  <2>3. markdown' <=> markdown \/ Wants(item, "markdown")
    BY <1>2, <2>0, Judged DEF PassOver, NoteMarkdown, Wants, Current, Inv, TypeOK
  <2>4. (item <= Len(request.accept) => ParamInv)'
    <3>1. param' = 1 /\ weight' = "positive" /\ ~invalid'
      BY <1>2 DEF PassOver, NoteMarkdown, NextItem
    <3>2. (item <= Len(request.accept) => Len(Current.q) \in Nat)'
      BY Items, PTL
    <3> QED
      BY <3>1, <3>2 DEF ParamInv
  <2>5. \E v \in View : ToView(v)'
    BY <1>1, <2>0, SameQuestions DEF Inv, WeighedInv
  <2>6. \A k \in 1..(item' - 1) : ~Wants(k, "json")'
    BY <1>1, <2>0, <2>1, <2>2, SameQuestions DEF Inv, WeighedInv
  <2>7. markdown' <=> \E k \in 1..(item' - 1) : Wants(k, "markdown")'
    BY <1>1, <2>0, <2>1, <2>3, SameQuestions DEF Inv, WeighedInv
  <2> QED
    BY <2>0, <2>4, <2>5, <2>6, <2>7 DEF WeighedInv
<1>3. CASE ReadQ
  <2>0. /\ step = "negotiate" /\ step' = "negotiate" /\ UNCHANGED <<item, markdown>>
        /\ Current' = Current /\ item <= Len(request.accept)
    BY <1>1, <1>3 DEF ReadQ, Weighing, Current
  <2>1. ParamInv /\ Len(Current.q) \in Nat /\ param <= Len(Current.q) /\ param' = param + 1
    BY <1>3, <2>0, Items DEF ReadQ, Inv, WeighedInv
  <2>2. 1..(param' - 1) = (1..(param - 1)) \cup {param}
    BY <2>1 DEF ParamInv
  <2>3. invalid' <=> invalid \/ Current.q[param] = "unparsable"
    BY <1>3 DEF ReadQ, Inv, TypeOK
  <2>4. ~invalid' => weight' = Current.q[param]
    BY <1>3 DEF ReadQ
  <2>5. ParamInv'
    BY <2>0, <2>1, <2>2, <2>3, <2>4 DEF ParamInv
  <2> QED
    BY <1>1, <2>0, <2>5, SameQuestions DEF Inv, WeighedInv
<1>4. CASE FindView
  <2>1. item = 1 /\ 1..(item - 1) = {} /\ ~markdown
    BY <1>4 DEF Inv, WeighedInv, FindView
  <2>2. item <= Len(request.accept) => ParamInv
    BY <1>4, FreshParam DEF Inv, WeighedInv, FindView
  <2>3. UNCHANGED <<item, param, weight, invalid, markdown>> /\ step' = "negotiate"
    BY <1>4 DEF FindView, Goto, weighing
  <2> QED
    BY <1>1, <1>4, <2>1, <2>2, <2>3, SameQuestions
       DEF WeighedInv, FindView, ParamInv, Current
<1>5. CASE UNCHANGED vars
  BY <1>1, <1>5, SameQuestions DEF vars, weighing, Inv, WeighedInv, ParamInv, Current
<1>6. CASE step' \notin {"route", "negotiate"}
  BY <1>6 DEF WeighedInv
<1> QED
  BY <1>2, <1>3, <1>4, <1>5, <1>6
     DEF Next, Route, Negotiate, Strip, Stripping, ServeManifest, ServeViewIndex, FindNothing,
         ServeViewJson, ServeViewMarkdown, Passthrough, ReadConnection, FindProxyName,
         RemoveName, Forward, Refuse, Send, OriginAnswers, OriginFails, Relay, BeginStrip,
         Done, Goto

(* Once every item is passed, what negotiate knows is the whole answer. *)
LEMMA AllWeighed ==
  ASSUME Inv, step = "negotiate", item > Len(request.accept)
  PROVE  ~Accepts("json") /\ (markdown <=> Accepts("markdown"))
<1>1. 1..(item - 1) = DOMAIN request.accept
  BY Items DEF Inv, TypeOK
<1> QED
  BY <1>1 DEF Inv, WeighedInv, Wants, Accepts

LEMMA AnswerStep == Inv /\ [Next]_vars => AnswerInv'
<1> SUFFICES ASSUME Inv, [Next]_vars PROVE AnswerInv'
  OBVIOUS
<1>1. UNCHANGED <<configured, store, index, request, origin>>
  BY GivenStays
<1>2. CASE ServeManifest \/ ServeViewIndex
  BY <1>1, <1>2, SameQuestions DEF ServeManifest, ServeViewIndex, Done, Answered, AnswerInv
<1>3. CASE FindView \/ ReadQ \/ PassOver \/ NoteMarkdown
  BY <1>3 DEF FindView, ReadQ, PassOver, NoteMarkdown, NextItem, Weighing, Goto, Inv, AnswerInv
<1>4. CASE FindNothing
  BY <1>1, <1>4, SameQuestions DEF FindNothing, Goto, Inv, AnswerInv, LeftToOrigin
<1>5. CASE ServeViewJson
  <2>1. item \in DOMAIN request.accept
    BY <1>5, Items DEF Inv, TypeOK, ServeViewJson, Weighing
  <2>2. Accepts("json")
    BY <1>5, <2>1, Judged DEF ServeViewJson, Accepts, Current
  <2> QED
    BY <1>1, <1>5, <2>2, SameQuestions DEF ServeViewJson, Done, Answered, AnswerInv
<1>6. CASE ServeViewMarkdown
  <2>1. ~Accepts("json") /\ Accepts("markdown")
    BY <1>6, AllWeighed DEF ServeViewMarkdown
  <2> QED
    BY <1>1, <1>6, <2>1, SameQuestions DEF ServeViewMarkdown, Done, Answered, AnswerInv
<1>7. CASE Passthrough
  <2>1. LeftToOrigin
    BY <1>7, AllWeighed DEF Passthrough, LeftToOrigin, Inv, WeighedInv, ToView
  <2> QED
    BY <1>1, <1>7, <2>1, SameQuestions DEF Passthrough, Goto, Inv, AnswerInv
<1>8. CASE Forward \/ Strip \/ Send \/ OriginAnswers
  BY <1>1, <1>8, SameQuestions
     DEF Forward, Strip, ReadConnection, FindProxyName, RemoveName, Stripping, Send, Stripped,
         OriginAnswers, BeginStrip, Inv, AnswerInv
<1>9. CASE Refuse \/ OriginFails \/ Relay
  BY <1>1, <1>9, SameQuestions
     DEF Refuse, OriginFails, Relay, Stripped, Done, Answered, Inv, AnswerInv
<1>10. CASE UNCHANGED vars
  BY <1>1, <1>10, SameQuestions DEF vars, Inv, AnswerInv
<1> QED
  BY <1>2, <1>3, <1>4, <1>5, <1>6, <1>7, <1>8, <1>9, <1>10 DEF Next, Route, Negotiate

-----------------------------------------------------------------------------
(* What both directions begin with. *)
LEMMA Begun ==
  ASSUME NEW way \in {"request", "response"}, NEW H \in SUBSET Field, BeginStrip(way, H),
         Original' = H
  PROVE  StripInv'
<1>1. /\ fields' = H /\ unread' = Connections(H) /\ keys' = Names(H) \cap Proxy
      /\ names' = Fixed /\ removed' = 0
  BY DEF BeginStrip
<1>2. Connections(H)' = Connections(H) /\ Names(H)' = Names(H)
  BY DEF Connections, Names
<1>3. \A n \in Name : Elem(n, names)' <=> Elem(n, Fixed)
  BY <1>1 DEF Elem
<1>4. 1..removed' = {}
  BY <1>1
<1> QED
  BY <1>1, <1>3, <1>4 DEF StripInv, Connections, Names, Elem

LEMMA StripStep == Inv /\ [Next]_vars => StripInv'
<1> SUFFICES ASSUME Inv, [Next]_vars PROVE StripInv'
  OBVIOUS
<1>1. UNCHANGED <<configured, store, index, request, origin>>
  BY GivenStays
<1>2. CASE Forward
  <2>1. request.fields \in SUBSET Field
    BY DEF Inv, TypeOK, AnyRequest
  <2>2. BeginStrip("request", request.fields) /\ Original' = request.fields
    BY <1>1, <1>2 DEF Forward, BeginStrip, Original
  <2> QED
    BY <2>1, <2>2, Begun
<1>3. CASE OriginAnswers
  <2>1. origin \in SUBSET Field
    BY DEF Inv, TypeOK
  <2>2. BeginStrip("response", origin) /\ Original' = origin
    BY <1>1, <1>3 DEF OriginAnswers, BeginStrip, Original
  <2> QED
    BY <2>1, <2>2, Begun
<1>4. CASE ReadConnection
  <2>0. /\ StripInv /\ step = "strip" /\ step' = "strip" /\ names \in Seq(Name)
        /\ Original' = Original /\ Original \in SUBSET Field
        /\ UNCHANGED <<fields, keys, removed>>
    BY <1>1, <1>4 DEF ReadConnection, Stripping, Inv, TypeOK, AnyRequest, Original
  <2>1. PICK f \in unread : unread' = unread \ {f} /\ names' = names \o Lists[f]
    BY <1>4 DEF ReadConnection
  <2>2. f \in Connections(Original) /\ Lists[f] \in Seq(Name) /\ removed = 0
    <3>1. unread # {} /\ removed \in Nat
      BY <2>1 DEF Inv, TypeOK
    <3> QED
      BY <2>0, <2>1, <3>1, ExchangeAssumption DEF StripInv, Collected, Connections
  <2>3. \A n \in Name : Elem(n, names') <=> Elem(n, names) \/ Elem(n, Lists[f])
    BY <2>0, <2>1, <2>2, ElemConcat
  <2>4. Connections(Original) \ unread' = (Connections(Original) \ unread) \cup {f}
    BY <2>1, <2>2
  <2>5. \A n \in Name : Elem(n, names') <=>
           \/ Elem(n, Fixed)
           \/ n \in (Names(Original) \cap Proxy) \ keys
           \/ \E g \in Connections(Original) \ unread' : Elem(n, Lists[g])
    BY <2>0, <2>3, <2>4 DEF StripInv
  <2>6. fields = {g \in Original : \A i \in 1..removed' : names'[i] # NameOf[g]}
    <3>1. 1..removed = {}
      BY <2>2
    <3> QED
      BY <2>0, <3>1 DEF StripInv
  <2>7. unread' \subseteq Connections(Original) /\ keys \subseteq Names(Original) \cap Proxy
    BY <2>0, <2>1 DEF StripInv
  <2>8. removed' = 0
    BY <2>0, <2>2
  <2> QED
    BY <2>0, <2>5, <2>6, <2>7, <2>8 DEF StripInv, Connections, Names, Elem
<1>5. CASE FindProxyName
  <2>0. /\ StripInv /\ step = "strip" /\ step' = "strip" /\ names \in Seq(Name)
        /\ Original' = Original /\ unread = {}
        /\ UNCHANGED <<fields, unread, removed>>
    BY <1>1, <1>5 DEF FindProxyName, Stripping, Inv, TypeOK, Original
  <2>1. PICK m \in keys : keys' = keys \ {m} /\ names' = Append(names, m)
    BY <1>5 DEF FindProxyName
  <2>2. m \in Names(Original) \cap Proxy /\ m \in Name /\ removed = 0
    <3>1. keys # {} /\ removed \in 0..Len(names) /\ keys \subseteq Name
      BY <2>1 DEF Inv, TypeOK
    <3>2. ~Collected
      BY <3>1 DEF Collected
    <3>3. keys \subseteq Names(Original) \cap Proxy /\ (removed > 0 => Collected)
      BY <2>0 DEF StripInv
    <3> QED
      BY <2>0, <2>1, <3>1, <3>2, <3>3
  <2>3. \A n \in Name : Elem(n, names') <=> Elem(n, names) \/ n = m
    BY <2>0, <2>1, <2>2, ElemAppend
  <2>4. (Names(Original) \cap Proxy) \ keys' = ((Names(Original) \cap Proxy) \ keys) \cup {m}
    BY <2>1, <2>2
  <2>5. \A n \in Name : Elem(n, names') <=>
           \/ Elem(n, Fixed)
           \/ n \in (Names(Original) \cap Proxy) \ keys'
           \/ \E g \in Connections(Original) \ unread : Elem(n, Lists[g])
    BY <2>0, <2>3, <2>4 DEF StripInv
  <2>6. fields = {g \in Original : \A i \in 1..removed' : names'[i] # NameOf[g]}
    <3>1. 1..removed = {}
      BY <2>2
    <3> QED
      BY <2>0, <3>1 DEF StripInv
  <2>7. unread \subseteq Connections(Original) /\ keys' \subseteq Names(Original) \cap Proxy
    BY <2>0, <2>1 DEF StripInv
  <2>8. removed' = 0
    BY <2>0, <2>2
  <2> QED
    BY <2>0, <2>5, <2>6, <2>7, <2>8 DEF StripInv, Connections, Names, Elem
<1>6. CASE RemoveName
  <2>0. /\ StripInv /\ step = "strip" /\ removed \in Nat /\ Collected
        /\ Original' = Original /\ removed' = removed + 1
        /\ fields' = {f \in fields : NameOf[f] # names[removed + 1]}
        /\ UNCHANGED <<unread, keys, names>>
    BY <1>1, <1>6 DEF RemoveName, Stripping, Inv, TypeOK, Original
  <2>1. 1..removed' = (1..removed) \cup {removed + 1}
    BY <2>0
  <2>2. fields' = {f \in Original : \A i \in 1..removed' : names[i] # NameOf[f]}
    BY <2>0, <2>1 DEF StripInv
  <2> QED
    BY <2>0, <2>2 DEF StripInv, Collected, Connections, Names, Elem
<1>7. CASE UNCHANGED vars
  BY <1>7 DEF vars, given, stripping, Inv, StripInv, Collected, Original, Connections, Names, Elem
<1>8. CASE step' # "strip"
  BY <1>8 DEF StripInv
<1> QED
  BY <1>2, <1>3, <1>4, <1>5, <1>6, <1>7, <1>8
     DEF Next, Route, Negotiate, Strip, Weighing, ServeManifest, ServeViewIndex, FindView,
         FindNothing, ReadQ, PassOver, NoteMarkdown, NextItem, ServeViewJson,
         ServeViewMarkdown, Passthrough, Refuse, Send, OriginFails, Relay, Done, Goto

(* At the end of both loops what is left is what may cross. *)
LEMMA LeftIsCrossing ==
  ASSUME Inv, NEW way, Stripped(way)
  PROVE  fields = Crossing(Original)
<1>1. /\ StripInv /\ step = "strip" /\ unread = {} /\ keys = {} /\ removed = Len(names)
      /\ names \in Seq(Name) /\ Original \in SUBSET Field
  BY DEF Stripped, Collected, Inv, TypeOK, AnyRequest, Original
<1>2. \A f \in Original : Elem(NameOf[f], names) <=> OneHop(f, Original)
  <2> SUFFICES ASSUME NEW f \in Original
               PROVE  Elem(NameOf[f], names) <=> OneHop(f, Original)
    OBVIOUS
  <2>1. NameOf[f] \in Name /\ NameOf[f] \in Names(Original)
    BY <1>1, ExchangeAssumption DEF Names
  <2> QED
    BY <1>1, <2>1 DEF StripInv, OneHop, Elem
<1>3. DOMAIN names = 1..removed
  BY <1>1
<1> QED
  BY <1>1, <1>2, <1>3 DEF StripInv, Crossing, Elem

LEMMA FieldStep == Inv /\ [Next]_vars => FieldInv'
<1> SUFFICES ASSUME Inv, [Next]_vars PROVE FieldInv'
  OBVIOUS
<1>1. UNCHANGED <<configured, store, index, request, origin>>
  BY GivenStays
<1>2. Crossing(request.fields)' = Crossing(request.fields) /\ Crossing(origin)' = Crossing(origin)
  BY <1>1 DEF Crossing, OneHop, Connections
<1>3. CASE Send
  <2>1. fields = Crossing(request.fields)
    BY <1>3, LeftIsCrossing DEF Send, Stripped, Original
  <2>2. sent' = fields /\ step' = "upstream" /\ answer'.kind = "none"
    BY <1>3 DEF Send, Stripped, Inv, AnswerInv
  <2> QED
    BY <1>2, <2>1, <2>2 DEF FieldInv
<1>4. CASE Relay
  <2>1. fields = Crossing(origin)
    BY <1>4, LeftIsCrossing DEF Relay, Stripped, Original
  <2>2. /\ received' = IF configured /\ IsHtml(fields)
                       THEN fields \cup {ManifestLink} ELSE fields
        /\ step' = "done"
    BY <1>4 DEF Relay
  <2> QED
    BY <1>1, <1>2, <2>1, <2>2 DEF FieldInv, IsHtml
<1>5. CASE UNCHANGED vars
  BY <1>1, <1>2, <1>5 DEF vars, FieldInv, Inv, IsHtml
<1>6. CASE step' # "upstream" /\ answer'.kind # "relayed"
  BY <1>6 DEF FieldInv
<1> QED
  BY <1>3, <1>4, <1>5, <1>6
     DEF Next, Route, Negotiate, Strip, Stripping, Weighing, ServeManifest, ServeViewIndex,
         FindView, FindNothing, ReadQ, PassOver, NoteMarkdown, NextItem, ServeViewJson,
         ServeViewMarkdown, Passthrough, ReadConnection, FindProxyName, RemoveName, Forward,
         Refuse, OriginAnswers, BeginStrip, OriginFails, Done, Goto, Answered, Inv, AnswerInv

THEOREM Invariance == Spec => []Inv
<1>1. Inv /\ [Next]_vars => Inv'
  BY TypeStep, WeighedStep, AnswerStep, StripStep, FieldStep DEF Inv
<1> QED
  BY InitInv, <1>1, PTL DEF Spec

-----------------------------------------------------------------------------
(* The exchange is type correct: neither negotiate nor the stripping looks *)
(* past the end of its list, and only fields that came in go out.          *)
THEOREM TypeCorrect == Spec => []TypeOK
<1>1. Inv => TypeOK
  BY DEF Inv
<1> QED
  BY <1>1, Invariance, PTL

(* For an Accept header of any length, the representation served is the    *)
(* one that the set of its acceptable items calls for (negotiate).         *)
THEOREM NegotiationIsRight == Spec => []Negotiated
<1>1. Inv => Negotiated
  <2> SUFFICES ASSUME Inv PROVE Negotiated
    OBVIOUS
  <2>1. CASE step = "done"
    BY <2>1 DEF Inv, AnswerInv, Negotiated
  <2>2. CASE step # "done"
    BY <2>2 DEF Inv, AnswerInv, LeftToOrigin, Negotiated
  <2> QED
    BY <2>1, <2>2
<1> QED
  BY <1>1, Invariance, PTL

LEMMA OrdinaryTarget ==
  ASSUME TypeOK, NEW v \in store, Gets(Url[v]), Ordinary(Url[v])
  PROVE  v \in View /\ ToView(v) /\ ~ToManifest /\ ~ToIndex
<1>0. v \in View
  BY DEF TypeOK
<1>1. Url[v] \in UrlParts /\ RequestTarget(Url[v]) # None
  BY <1>0, ExchangeAssumption DEF TypeOK, Loadable
<1>2. RequestTarget(Url[v]) = Dereferenced(Url[v])
  BY <1>1 DEF UrlParts, RequestTarget, Dereferenced, Ordinary
<1>3. request.target.path = Url[v].path
  BY DEF Gets, Dereferenced, Ordinary
<1>4. ~ToManifest
  BY <1>3 DEF ToManifest, Ordinary
<1>5. ~ToIndex
  BY <1>3 DEF ToIndex, Ordinary, PathOnly
<1> QED
  BY <1>0, <1>2, <1>4, <1>5 DEF ToView, Prepared, Answers, Gets

LEMMA IndexTarget ==
  ASSUME TypeOK, Gets(index), PathOnly(index), index.path # ManifestPath
  PROVE  ToIndex /\ ~ToManifest
<1>1. request.target.path = index.path
  BY DEF Gets, Dereferenced, PathOnly
<1>2. index = [scheme |-> "none", path |-> index.path, query |-> None, fragment |-> None]
  BY DEF TypeOK, UrlParts, PathOnly
<1> QED
  BY <1>1, <1>2 DEF ToIndex, ToManifest, Prepared, Gets

(* A view published under an ordinary URL is what a GET of that URL with   *)
(* Accept: Ajar JSON brings, whatever other views the store holds, and an  *)
(* index published under a path what a GET of that path brings             *)
(* (request_target_from_view_url, proxy_request).                          *)
THEOREM OrdinaryUrlsAreServed == Spec => []OrdinaryUrlsServed
<1>1. ASSUME Inv, step = "done", NEW v \in store, Gets(Url[v]), Accepts("json"),
             Ordinary(Url[v])
      PROVE  answer = Answered("json", v)
  <2>1. ToView(v) /\ ~ToManifest /\ ~ToIndex /\ v \in View
    BY <1>1, OrdinaryTarget DEF Inv
  <2>2. answer.kind = "json" /\ ToView(answer.view)
    BY <1>1, <2>1 DEF Inv, AnswerInv, LeftToOrigin
  <2>3. answer.view = v
    <3>1. answer.view \in store /\ RequestTarget(Url[answer.view]) = RequestTarget(Url[v])
      BY <2>1, <2>2 DEF ToView, Answers
    <3> QED
      BY <1>1, <3>1 DEF Inv, TypeOK, Loadable
  <2>4. answer = [kind |-> answer.kind, view |-> answer.view]
    BY <1>1 DEF Inv, TypeOK
  <2> QED
    BY <2>2, <2>3, <2>4 DEF Answered
<1>2. ASSUME Inv, step = "done", Gets(index), PathOnly(index), index.path # ManifestPath
      PROVE  answer.kind = "index"
  <2>1. ToIndex /\ ~ToManifest
    BY <1>2, IndexTarget DEF Inv
  <2> QED
    BY <1>2, <2>1 DEF Inv, AnswerInv, LeftToOrigin, ToView
<1>3. Inv => OrdinaryUrlsServed
  BY <1>1, <1>2 DEF OrdinaryUrlsServed
<1> QED
  BY <1>3, Invariance, PTL

(* No field of one hop crosses the proxy in either direction, and no other *)
(* is lost, by whatever fields and names (strip_hop_by_hop_headers).       *)
THEOREM HopByHopIsStripped == Spec => []HopByHopStays
<1>1. Inv => HopByHopStays
  BY DEF Inv, FieldInv, HopByHopStays, Crossing
<1> QED
  BY <1>1, Invariance, PTL

(* The Link is not a Content-Type field. *)
LEMMA LinkIsNoType ==
  ASSUME NEW H PROVE IsHtml(H \cup {ManifestLink}) <=> IsHtml(H)
<1>1. NameOf[ManifestLink] # "content-type" /\ ManifestLink \notin Html
  BY ExchangeAssumption
<1> QED
  BY <1>1 DEF IsHtml

(* Every HTML page relayed with a store advertises the manifest, and the   *)
(* gateway advertises it nowhere else (proxy_request).                     *)
THEOREM ManifestIsAdvertised == Spec => []ManifestAdvertised
<1>1. Inv => ManifestAdvertised
  BY LinkIsNoType DEF Inv, FieldInv, ManifestAdvertised, Crossing
<1> QED
  BY <1>1, Invariance, PTL
=============================================================================
