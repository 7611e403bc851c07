---------------------------- MODULE MCStoreReload ----------------------------
(* Instances of StoreReload for TLC. *)
EXTENDS StoreReload, TLC

All == Part

Interchangeable == Permutations(Handler)

Rel(sound, sequence, expires, v1, v2) ==
  [sound |-> sound, sequence |-> sequence, issued_at |-> 0,
   expires_at |-> expires, views |-> (1 :> v1) @@ (2 :> v2)]

(* Sound releases that move pages between view files (r2 and r2b have the  *)
(* same sequence, r3 expires when the clock reaches 1, r4 outranks all the *)
(* others and expires last) and releases that fail one check each.         *)
MCDir ==
  [r \in Release |->
    CASE r = "r1"  -> Rel(All, 1, 2, "a", "b")
      [] r = "r2"  -> Rel(All, 2, 2, "b", NoFile)
      [] r = "r2b" -> Rel(All, 2, 2, "b", "a")
      [] r = "r3"  -> Rel(All, 3, 1, "a", NoFile)
      [] r = "r4"  -> Rel(All, 4, 3, "b", "a")
      [] r = "dup" -> Rel(All, 4, 2, "a", "a")
      [] r = "noindex" -> Rel({"manifest", "views"}, 2, 2, "a", "b")
      [] r = "badview" -> Rel(All, 3, 2, "a", Rejected)
      [] r = "toolong" -> Rel(All, 3, 5, "a", "b")]
=============================================================================
