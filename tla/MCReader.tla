------------------------------ MODULE MCReader ------------------------------
(* An instance of Reader for TLC. *)
EXTENDS Reader

CONSTANTS a, b, c

\* The page of a names b twice and itself once, the one of b names all, and
\* the one of c names a.
AbcMentions ==
  [t \in {a, b, c} |-> [u \in {a, b, c} |->
     CASE t = a /\ u = b -> 2
       [] t = c /\ u # a -> 0
       [] t = a /\ u = c -> 0
       [] OTHER -> 1]]

AbcRelated == [t \in {a, b, c} |-> {a, b, c} \ {t}]
=============================================================================
