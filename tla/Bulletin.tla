------------------------------- MODULE Bulletin -------------------------------
(***************************************************************************)
(* What an adapter and the readers of the site may rely on, as an abstract *)
(* specification: publications are numbered, a publication that was        *)
(* acknowledged is on the board, the board is never taken back, and a      *)
(* reader finds what was acknowledged before it asked, or something newer, *)
(* but nothing newer than the last publication.  (The board keeps numbers, *)
(* not the set of publications: that a number shown was ever published is  *)
(* not said here.)                                                         *)
(***************************************************************************)
EXTENDS Integers

CONSTANTS
  Reader,
  NoAnswer     \* the reader has not been answered yet

VARIABLES
  newest,      \* the number of the last publication
  board,       \* everything up to this number has been replaced
  acked,       \* the highest publication acknowledged to an adapter
  asked,       \* asked[r] is what had been acknowledged when reader r asked
  shown        \* shown[r] is the number of what it was shown

vars == <<newest, board, acked, asked, shown>>

Init ==
  /\ newest \in Int
  /\ board = 0
  /\ acked = 0
  /\ asked = [r \in Reader |-> 0]
  /\ shown = [r \in Reader |-> NoAnswer]

Publish ==
  /\ newest' \in Int
  /\ newest < newest'
  /\ UNCHANGED <<board, acked, asked, shown>>

(* The board is brought forward, and perhaps a publication on it is        *)
(* acknowledged.                                                           *)
Post ==
  /\ board' \in board..newest
  /\ acked' \in acked..board'
  /\ UNCHANGED <<newest, asked, shown>>

Ask(r) ==
  /\ asked' = [asked EXCEPT ![r] = acked]
  /\ shown' = [shown EXCEPT ![r] = NoAnswer]
  /\ UNCHANGED <<newest, board, acked>>

(* While the board is being brought forward, parts of it may be newer. *)
Show(r) ==
  /\ shown[r] = NoAnswer
  /\ \E n \in board..newest : shown' = [shown EXCEPT ![r] = n]
  /\ UNCHANGED <<newest, board, acked, asked>>

Next == Publish \/ Post \/ \E r \in Reader : Ask(r) \/ Show(r)

Spec == Init /\ [][Next]_vars
=============================================================================
