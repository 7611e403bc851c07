SPECIFICATION Spec
CHECK_DEADLOCK FALSE
CONSTANTS
  View = {"path", "absolute", "same", "fragment", "rootquery", "slash", "shadowed", "relative"}
  NoView = NoView
  Url <- MCUrl
  Path = {"/", "/a", "/b", "/index", "/manifest"}
  Query = {"?x", "?n=/b"}
  Fragment = {"#f", "#/b"}
  None = None
  ManifestPath = "/manifest"
  AfterSlash <- MCAfterSlash
  Field = {"c1", "c2", "te", "proxy-a", "proxy-b", "x-one", "x-two", "link", "ours", "html", "plain", "late"}
  Place <- MCPlace
  Name = {"connection", "te", "proxy-a", "proxy-b", "x-one", "x-two", "link", "content-type"}
  NameOf <- MCNameOf
  Lists <- MCLists
  Fixed <- MCFixed
  Proxy = {"proxy-a", "proxy-b"}
  Html = {"html"}
  ManifestLink = "ours"
  Situation <- MCSituation
INVARIANTS
  TypeOK
  Negotiated
  OrdinaryUrlsServed
  HopByHopStays
  ManifestAdvertised
