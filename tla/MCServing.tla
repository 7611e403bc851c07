------------------------------ MODULE MCServing ------------------------------
(* Instances of Serving for TLC: s2 follows s1, with a changed view, and    *)
(* expires one unit of time later.                                          *)
EXTENDS Serving, TLC

MCSequence  == [s \in PreparedStore |-> CASE s = "s1" -> 1 [] OTHER -> 2]
MCExpiresAt == [s \in PreparedStore |-> CASE s = "s1" -> 1 [] OTHER -> 2]
MCViewTag   == [s \in PreparedStore |-> CASE s = "s1" -> "v1" [] OTHER -> "v2"]

Interchangeable == Permutations(Request) \cup Permutations(Handler)
=============================================================================
