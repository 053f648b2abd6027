----------------------------- MODULE SrsStore ------------------------------
(***************************************************************************)
(* The store behind the schedule: localStorage['ell_srs_v1'], shared by    *)
(* the browser's tabs, and _srs, the copy each tab parses once and keeps   *)
(* until it is closed or reloaded.  A grade changes the tab's copy and     *)
(* writes all of it back; a write that throws is swallowed.                *)
(***************************************************************************)
EXTENDS Srs

CONSTANTS
  Tabs,
  StorageModes,             \* of {"ok", "full", "blocked"}
  Start,                    \* bounds: the clock runs from Start ...
  Horizon,                  \* ... to Horizon in steps taken from Jumps,
  Jumps,
  MaxReps                   \* and no entry is graded more often than this

ASSUME StoreAssumption ==
  /\ StorageModes \subseteq {"ok", "full", "blocked"}
  /\ Start \in Nat
  /\ Jumps \subseteq Nat \ {0}

VARIABLES
  disk,                     \* the parsed value of the localStorage item
  open,                     \* tabs that are loaded (boot has run)
  mem,                      \* mem[t] is _srs of tab t; empty when closed
  storage,                  \* how localStorage behaves now
  now,
  lastGrade                 \* history: the learner's latest grade of a card

vars == <<disk, open, mem, storage, now, lastGrade>>

Store == [Cards -> Entry]
EmptyStore == [c \in Cards |-> Missing]

Init ==
  /\ disk = EmptyStore
  /\ open = {}
  /\ mem = [t \in Tabs |-> EmptyStore]
  /\ storage \in StorageModes \ {"full"}
  /\ now = Start
  /\ lastGrade = [c \in Cards |-> "none"]

\* srsLoad, reached from boot through updateDueBadge.  A blocked getItem
\* throws and leaves the tab with an empty store.
Open(t) ==
  /\ t \notin open
  /\ open' = open \cup {t}
  /\ mem' = [mem EXCEPT ![t] = IF storage = "blocked" THEN EmptyStore ELSE disk]
  /\ UNCHANGED <<disk, storage, now, lastGrade>>

\* The tab is closed; a reload is this and then Open.
Close(t) ==
  /\ t \in open
  /\ open' = open \ {t}
  /\ mem' = [mem EXCEPT ![t] = EmptyStore]
  /\ UNCHANGED <<disk, storage, now, lastGrade>>

\* A slip: only the entry of the graded card is written back.
GradeSavingOneEntry(t, c, q) ==
  /\ t \in open
  /\ mem[t][c].reps < MaxReps
  /\ mem' = [mem EXCEPT ![t][c] = Graded(@, q, now)]
  /\ disk' = IF storage = "ok" THEN [disk EXCEPT ![c] = mem'[t][c]] ELSE disk
  /\ lastGrade' = [lastGrade EXCEPT ![c] = q]
  /\ UNCHANGED <<open, storage, now>>

\* srsGrade and the srsSave it ends with.
Grade(t, c, q) ==
  /\ t \in open
  /\ mem[t][c].reps < MaxReps
  /\ mem' = [mem EXCEPT ![t][c] = Graded(@, q, now)]
  /\ disk' = IF storage = "ok" THEN mem'[t] ELSE disk
  /\ lastGrade' = [lastGrade EXCEPT ![c] = q]
  /\ UNCHANGED <<open, storage, now>>

\* The origin's quota fills up or is freed; "blocked" is for good.
StorageChanges ==
  /\ storage' \in StorageModes \ {"blocked", storage}
  /\ storage # "blocked"
  /\ UNCHANGED <<disk, open, mem, now, lastGrade>>

Tick ==
  /\ now' \in {now + d : d \in Jumps}
  /\ now' <= Horizon
  /\ UNCHANGED <<disk, open, mem, storage, lastGrade>>

Next ==
  \/ \E t \in Tabs : Open(t) \/ Close(t)
  \/ \E t \in Tabs, c \in Cards, q \in Qualities : Grade(t, c, q)
  \/ StorageChanges
  \/ Tick

Spec == Init /\ [][Next]_vars

-----------------------------------------------------------------------------
TypeOK ==
  /\ disk \in Store
  /\ open \subseteq Tabs
  /\ mem \in [Tabs -> Store]
  /\ storage \in StorageModes
  /\ now \in Nat
  /\ lastGrade \in [Cards -> Qualities \cup {"none"}]

\* Every entry in the store or in a tab, whichever tabs wrote it and in
\* whatever order, is one the scheduling rule can write (srsGrade): box 0
\* means missed and due in a minute, a higher box is earned.
EntriesSound ==
  /\ \A c \in Cards : Seen(disk[c]) => EntrySound(disk[c])
  /\ \A t \in Tabs, c \in Cards : Seen(mem[t][c]) => EntrySound(mem[t][c])

\* README: Review "resurfaces what you miss".  A card whose latest grade is
\* "again" is on record in box 0, so that a session opened later offers it.
MissResurfaces ==
  \A c \in Cards : lastGrade[c] = "again" => Seen(disk[c]) /\ disk[c].box = 0

\* With one tab, the store is the ledger: the tab's copy is the schedule
\* (or, while no tab is open, the stored one) and localStorage its durable
\* copy.
TheTab == CHOOSE t \in Tabs : TRUE
Working == IF TheTab \in open THEN mem[TheTab] ELSE disk
Ledger == INSTANCE SrsLedger WITH sched <- Working, durable <- disk, clock <- now
LedgerPromise == Ledger!LedgerSpec
=============================================================================
