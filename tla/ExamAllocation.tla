--------------------------- MODULE ExamAllocation --------------------------
(***************************************************************************)
(* How the exam simulator divides an exam among topics (buildExam): each   *)
(* topic gets a share of the requested length by its relative weight, at   *)
(* least one question and no more than it has cards; then the shares are   *)
(* trimmed or grown, one question at a time, towards the length.           *)
(***************************************************************************)
EXTENDS Integers, Sequences, Functions

CONSTANTS
  Weights,                  \* the topic weights a blueprint may give
  Caps,                     \* the numbers of cards a topic may have
  Lengths,                  \* the lengths offered
  MaxTopics                 \* bound: topics of a blueprint

ASSUME ExamAssumption ==
  /\ Weights \subseteq Nat \ {0} /\ Caps \subseteq Nat \ {0}
  /\ Lengths \subseteq Nat \ {0} /\ MaxTopics \in Nat \ {0}

VARIABLES
  weight, cap,              \* the blueprint: topic weights, cards per topic
  n,                        \* questions wanted, clamped to the cards there are
  counts, total,            \* questions per topic so far, and their number
  built                     \* the questions are drawn and shown

vars == <<weight, cap, n, counts, total, built>>

Least(a, b) == IF a <= b THEN a ELSE b
Greatest(a, b) == IF a <= b THEN b ELSE a

Topics == DOMAIN weight
Sum(f) == FoldFunction(LAMBDA a, b : a + b, 0, f)

\* Math.round of the quotient of two naturals.
Rounded(a, b) == (2 * a + b) \div (2 * b)

\* A slip: a share is not held to the cards the topic has.
ShareUncapped(w, c, m) ==
  [t \in DOMAIN w |-> Greatest(1, Rounded(m * w[t], Sum(w)))]

\* A topic's first share: its weight's part of the length, within 1..cap.
Share(w, c, m) ==
  [t \in DOMAIN w |-> Least(c[t], Greatest(1, Rounded(m * w[t], Sum(w))))]

\* buildExam up to the loops, for a blueprint and a length picked by the user.
Begin ==
  \E k \in 1..MaxTopics : \E w \in [1..k -> Weights], c \in [1..k -> Caps], len \in Lengths :
    /\ weight' = w /\ cap' = c
    /\ n' = Least(len, Sum(c))
    /\ counts' = Share(w, c, n')
    /\ total' = Sum(counts')
    /\ built' = FALSE

Init ==
  /\ weight = <<>> /\ cap = <<>> /\ n = 0
  /\ counts = <<>> /\ total = 0
  /\ built = TRUE

\* A slip: the search stops at the first topic with any.
FirstWithAny(f) == CHOOSE t \in Topics :
  /\ f[t] > 0
  /\ \A u \in Topics : f[u] > 0 => t <= u

\* The first topic with the most of f.
First(f) == CHOOSE t \in Topics :
  /\ \A u \in Topics : f[u] <= f[t]
  /\ \A u \in Topics : f[u] = f[t] => t <= u

Slack == [t \in Topics |-> cap[t] - counts[t]]

\* A slip: growing stops one question early.
CanGrowEarly == total < n - 1 /\ \E t \in Topics : Slack[t] > 0

CanTrim == total > n /\ \E t \in Topics : counts[t] > 1
CanGrow == total < n /\ \E t \in Topics : Slack[t] > 0

\* One turn of the trimming loop.
Trim ==
  /\ ~built /\ CanTrim
  /\ counts' = [counts EXCEPT ![First(counts)] = @ - 1]
  /\ total' = total - 1
  /\ UNCHANGED <<weight, cap, n, built>>

\* One turn of the growing loop.
Grow ==
  /\ ~built /\ CanGrow
  /\ counts' = [counts EXCEPT ![First(Slack)] = @ + 1]
  /\ total' = total + 1
  /\ UNCHANGED <<weight, cap, n, built>>

\* Both loops are through and the questions are drawn from each topic.
Draw ==
  /\ ~built /\ ~CanTrim /\ ~CanGrow
  /\ built' = TRUE
  /\ UNCHANGED <<weight, cap, n, counts, total>>

Next == (built /\ Begin) \/ Trim \/ Grow \/ Draw

Spec == Init /\ [][Next]_vars

-----------------------------------------------------------------------------
\* "never over-draws a thin topic", and asks something of every topic: each
\* share stays between one and the topic's cards through both loops.
SharesWithinCaps == \A t \in Topics : counts[t] \in 1..cap[t]

\* "Guarantees: builds exactly min(n, poolSize) questions".  The code does not:
\* the trimming gives up at one question per topic.
LengthExact == built => Sum(counts) = n

\* The loops settle on one of two lengths, whatever the running total says: the
\* questions drawn are those asked for when the topics fit into that, and one of
\* each topic when there are more topics.
LengthOrTopics == built => Sum(counts) = Greatest(Len(weight), n)

\* The loops respect the blueprint: a topic with no less weight and no fewer
\* cards than another one ends up at most one question behind it.
HeavierNotShorted ==
  \A t, u \in Topics :
    weight[t] >= weight[u] /\ cap[t] >= cap[u] => counts[t] >= counts[u] - 1
=============================================================================
