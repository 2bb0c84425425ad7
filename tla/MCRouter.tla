------------------------------ MODULE MCRouter ------------------------------
(***************************************************************************)
(* Router for TLC: who writes what, on small sets of rooms and people.     *)
(***************************************************************************)
EXTENDS Router, TLC

CONSTANTS c1, t1, u1, u2, m1, m2, k1, k2

\* Two people write a message each.
TwoAuthors == m1 :> u1 @@ m2 :> u2
\* One person writes both.
OneAuthor == m1 :> u1 @@ m2 :> u1

\* One click is as good as another.
ClickSymmetry == Permutations(Clicks)
=============================================================================
