----------------------------- MODULE SrsLedger -----------------------------
(***************************************************************************)
(* What the spaced-repetition store promises one learner: a schedule in    *)
(* which every grade takes effect at once, and a durable copy of it that a *)
(* save brings wholly up to date or leaves alone.  A restart goes back to  *)
(* the durable copy, so what it can lose is a suffix of the grades, never  *)
(* some cards' grades and not others'.                                     *)
(***************************************************************************)
EXTENDS Srs

VARIABLES sched,            \* the schedule the learner is working from
          durable,          \* the copy that survives a restart
          clock

ledgerVars == <<sched, durable, clock>>

LedgerInit ==
  /\ sched = [c \in Cards |-> Missing]
  /\ durable = sched
  /\ clock \in Nat

LedgerGrade(c, q) ==
  /\ sched' = [sched EXCEPT ![c] = Graded(@, q, clock)]
  /\ durable' \in {durable, sched'}
  /\ UNCHANGED clock

Restart ==
  /\ sched' = durable
  /\ UNCHANGED <<durable, clock>>

Time ==
  /\ clock' \in Nat /\ clock' > clock
  /\ UNCHANGED <<sched, durable>>

LedgerNext ==
  \/ \E c \in Cards, q \in Qualities : LedgerGrade(c, q)
  \/ Restart
  \/ Time

LedgerSpec == LedgerInit /\ [][LedgerNext]_ledgerVars
=============================================================================
