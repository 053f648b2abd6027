-------------------------- MODULE SrsStoreProofs ---------------------------
(***************************************************************************)
(* Proofs about the scheduling rule (Srs), for every entry, grade and      *)
(* time, and about the store (SrsStore), for every number of cards and     *)
(* tabs, every clock and every bound.                                      *)
(***************************************************************************)
EXTENDS SrsStore, TLAPS

-----------------------------------------------------------------------------
(* What the scheduling rule (srsGrade) does to an entry. *)

\* The part of EntrySound that is also true of a card without an entry, and
\* so carries over from one grade to the next.
Earned(e) == e.lapses <= e.reps /\ e.box <= 2 * (e.reps - e.lapses)

\* The table of boxes (SRS_BOX_DAYS), box by box.
LEMMA BoxDaysValues ==
  /\ BoxDays[0] = 0 /\ BoxDays[1] = 1 /\ BoxDays[2] = 3 /\ BoxDays[3] = 7
  /\ BoxDays[4] = 16 /\ BoxDays[5] = 35 /\ BoxDays[6] = 90
BY DEF BoxDays, MaxBox

\* NextBox and Delay, grade by grade.
LEMMA NextBoxValues ==
  \A b : /\ NextBox(b, "again") = 0
         /\ NextBox(b, "hard") = Greatest(1, b)
         /\ NextBox(b, "good") = Least(MaxBox, b + 1)
         /\ NextBox(b, "easy") = Least(MaxBox, b + 2)
BY Zenon DEF NextBox

LEMMA DelayValues ==
  \A b : /\ Delay(b, "again") = AgainDelay
         /\ Delay(b, "hard") = BoxDays[b] * 6 * Tenth
         /\ Delay(b, "good") = BoxDays[b] * 10 * Tenth
         /\ Delay(b, "easy") = BoxDays[b] * 13 * Tenth
BY Zenon DEF Delay

\* Where a grade moves a card among the boxes.
LEMMA NextBoxRange ==
  ASSUME NEW b \in 0..MaxBox, NEW q \in Qualities
  PROVE  /\ NextBox(b, q) \in 0..MaxBox
         /\ NextBox(b, q) <= b + 2
         /\ NextBox(b, q) = 0 <=> q = "again"
BY NextBoxValues DEF MaxBox, Least, Greatest, Qualities

\* How far a grade that is not a miss puts a card off.
LEMMA DelayRange ==
  ASSUME NEW b \in 1..MaxBox, NEW q \in Qualities, q # "again"
  PROVE  Delay(b, q) \in 6 * Tenth .. BoxDays[MaxBox] * 13 * Tenth
<1>1. BoxDays[b] \in {1, 3, 7, 16, 35, 90} /\ BoxDays[MaxBox] = 90
  <2>1. b \in {1, 2, 3, 4, 5, 6}
    BY DEF MaxBox
  <2>2. QED
    BY <2>1, BoxDaysValues DEF MaxBox
<1>2. q \in {"hard", "good", "easy"}
  BY DEF Qualities
<1>3. Delay(b, q) \in {BoxDays[b] * 6 * Tenth, BoxDays[b] * 10 * Tenth,
                       BoxDays[b] * 13 * Tenth}
  BY <1>2, DelayValues
<1>4. Tenth \in Nat
  BY SrsAssumption
<1>5. QED
  BY <1>1, <1>3, <1>4

\* srsGrade turns an entry, or the default for a card without one, into a
\* sound entry.
LEMMA GradedSound ==
  ASSUME NEW e \in Entry, Earned(e), NEW q \in Qualities, NEW t \in Nat
  PROVE  /\ Graded(e, q, t) \in Entry
         /\ Earned(Graded(e, q, t))
         /\ Seen(Graded(e, q, t))
         /\ EntrySound(Graded(e, q, t))
<1> DEFINE b == NextBox(e.box, q)
           d == Delay(b, q)
           g == Graded(e, q, t)
<1>1. /\ e.box \in 0..MaxBox /\ e.reps \in Nat /\ e.lapses \in Nat
      /\ e.lapses <= e.reps /\ e.box <= 2 * (e.reps - e.lapses)
  BY DEF Entry, Earned
<1>2. b \in 0..MaxBox /\ b <= e.box + 2 /\ (b = 0 <=> q = "again")
  BY <1>1, NextBoxRange
<1>3. q = "again" => d = AgainDelay
  BY DelayValues
<1>4. ASSUME q # "again" PROVE  d \in 6 * Tenth .. BoxDays[MaxBox] * 13 * Tenth
  <2>1. b \in 1..MaxBox
    BY <1>2, <1>4 DEF MaxBox
  <2>2. QED
    BY <2>1, <1>4, DelayRange
<1>5. g = [box |-> b, due |-> t + d, reps |-> e.reps + 1,
           lapses |-> IF q = "again" THEN e.lapses + 1 ELSE e.lapses,
           last |-> t]
  BY DEF Graded
<1> HIDE DEF b, d, g
<1>6. d \in Nat
  <2>1. BoxDays[MaxBox] = 90 /\ Tenth \in Nat /\ AgainDelay \in Nat
    BY BoxDaysValues, SrsAssumption DEF MaxBox
  <2>2. QED
    BY <1>3, <1>4, <2>1
<1>7. g \in Entry /\ Earned(g) /\ Seen(g)
  BY <1>1, <1>2, <1>5, <1>6 DEF Entry, Earned, Seen, MaxBox
<1>8. g.due - g.last = d /\ g.due = g.last + d /\ g.box = b
  BY <1>5, <1>6
<1>9. EntrySound(g)
  <2>1. CASE q = "again"
    BY <1>2, <1>3, <1>7, <1>8, <2>1 DEF EntrySound, Earned
  <2>2. CASE q # "again"
    <3>1. d # AgainDelay
      BY <1>4, <2>2, SrsAssumption
    <3>2. g.due # g.last + AgainDelay
      BY <3>1, <1>5, <1>6, SrsAssumption
    <3>3. QED
      BY <1>2, <1>4, <1>7, <1>8, <2>2, <3>2 DEF EntrySound, Earned
  <2>3. QED
    BY <2>1, <2>2
<1>10. QED
  BY <1>7, <1>9 DEF g

-----------------------------------------------------------------------------
\* Every copy of the store holds sound entries and defaults only.
SoundStore(st) ==
  \A c \in Cards : Earned(st[c]) /\ (Seen(st[c]) => EntrySound(st[c]))

\* The inductive invariant.  A blocked localStorage was never written, which
\* is why a tab that could not read it has lost nothing.
StoreInv ==
  /\ TypeOK
  /\ SoundStore(disk)
  /\ \A t \in Tabs : SoundStore(mem[t])
  /\ storage = "blocked" => disk = EmptyStore

LEMMA EmptyStoreSound == EmptyStore \in Store /\ SoundStore(EmptyStore)
BY DEF EmptyStore, Store, SoundStore, Missing, Entry, Earned, Seen, MaxBox

\* One more grade keeps a store sound.
LEMMA GradeKeepsSound ==
  ASSUME NEW st \in Store, SoundStore(st),
         NEW c \in Cards, NEW q \in Qualities, NEW t \in Nat
  PROVE  LET new == [st EXCEPT ![c] = Graded(@, q, t)]
         IN  new \in Store /\ SoundStore(new)
<1> DEFINE g == Graded(st[c], q, t)
           new == [st EXCEPT ![c] = g]
<1>1. st[c] \in Entry /\ Earned(st[c])
  BY DEF Store, SoundStore
<1>2. g \in Entry /\ Earned(g) /\ EntrySound(g)
  BY <1>1, GradedSound
<1> HIDE DEF g
<1>3. \A d \in Cards : new[d] = IF d = c THEN g ELSE st[d]
  BY DEF Store
<1>4. new \in Store
  BY <1>2 DEF Store
<1>5. SoundStore(new)
  BY <1>2, <1>3 DEF SoundStore
<1>6. QED
  BY <1>4, <1>5 DEF g

LEMMA StoreInit == Init => StoreInv
<1> SUFFICES ASSUME Init PROVE StoreInv
  OBVIOUS
<1>1. TypeOK
  BY StoreAssumption, EmptyStoreSound DEF Init, TypeOK
<1>2. QED
  BY <1>1, EmptyStoreSound DEF Init, StoreInv

LEMMA StoreStep == StoreInv /\ [Next]_vars => StoreInv'
<1> SUFFICES ASSUME StoreInv, [Next]_vars PROVE StoreInv'
  OBVIOUS
<1> USE DEF StoreInv, TypeOK
<1>1. CASE UNCHANGED vars
  BY <1>1 DEF vars
<1>2. ASSUME NEW t \in Tabs, Open(t) PROVE StoreInv'
  <2>1. mem' = [mem EXCEPT ![t] = mem'[t]] /\ mem'[t] \in {EmptyStore, disk}
    BY <1>2 DEF Open
  <2>2. mem'[t] \in Store /\ SoundStore(mem'[t])
    BY <2>1, EmptyStoreSound
  <2>3. \A u \in Tabs : u # t => mem'[u] = mem[u]
    BY <2>1
  <2>4. mem' \in [Tabs -> Store]
    BY <2>1, <2>2
  <2>5. \A u \in Tabs : SoundStore(mem'[u])
    BY <2>2, <2>3
  <2>6. QED
    BY <1>2, <2>4, <2>5 DEF Open
<1>3. ASSUME NEW t \in Tabs, Close(t) PROVE StoreInv'
  <2>1. mem' \in [Tabs -> Store]
    BY <1>3, EmptyStoreSound DEF Close
  <2>2. \A u \in Tabs : mem'[u] = IF u = t THEN EmptyStore ELSE mem[u]
    BY <1>3 DEF Close
  <2>3. \A u \in Tabs : SoundStore(mem'[u])
    BY <2>2, EmptyStoreSound
  <2>4. QED
    BY <1>3, <2>1, <2>3 DEF Close
<1>4. ASSUME NEW t \in Tabs, NEW c \in Cards, NEW q \in Qualities, Grade(t, c, q)
      PROVE StoreInv'
  <2> DEFINE new == [mem[t] EXCEPT ![c] = Graded(@, q, now)]
  <2>1. new \in Store /\ SoundStore(new)
    BY GradeKeepsSound
  <2>2. mem' = [mem EXCEPT ![t] = new]
    BY <1>4 DEF Grade
  <2> HIDE DEF new
  <2>3. mem' \in [Tabs -> Store]
    BY <2>1, <2>2
  <2>4. \A u \in Tabs : mem'[u] = IF u = t THEN new ELSE mem[u]
    BY <2>2
  <2>5. \A u \in Tabs : SoundStore(mem'[u])
    BY <2>1, <2>4
  <2>6. disk' = IF storage = "ok" THEN new ELSE disk
    BY <1>4, <2>4 DEF Grade
  <2>7. disk' \in Store /\ SoundStore(disk')
    BY <2>1, <2>6
  <2>8. storage' = "blocked" => disk' = EmptyStore
    BY <1>4, <2>6 DEF Grade
  <2>9. QED
    BY <1>4, <2>3, <2>5, <2>7, <2>8 DEF Grade
<1>5. CASE StorageChanges
  BY <1>5 DEF StorageChanges
<1>6. CASE Tick
  BY <1>6, StoreAssumption DEF Tick
<1>7. QED
  BY <1>1, <1>2, <1>3, <1>4, <1>5, <1>6 DEF Next

\* The inductive invariant holds in every reachable state.
THEOREM StoreInvariant == Spec => []StoreInv
<1>1. QED
  BY StoreInit, StoreStep, PTL DEF Spec

\* Type correctness of the store.
THEOREM StoreTypeCorrect == Spec => []TypeOK
<1>1. StoreInv => TypeOK
  BY DEF StoreInv
<1>2. QED
  BY <1>1, StoreInvariant, PTL

\* However many tabs write the store, in whatever order, no entry is ever
\* one the scheduling rule cannot write.
THEOREM EveryEntrySound == Spec => []EntriesSound
<1>1. StoreInv => EntriesSound
  BY DEF StoreInv, SoundStore, EntriesSound
<1>2. QED
  BY <1>1, StoreInvariant, PTL

-----------------------------------------------------------------------------
\* The ledger's scheduling rule is the store's.
LEMMA LedgerRule ==
  /\ Ledger!Cards = Cards
  /\ Ledger!Qualities = Qualities
  /\ Ledger!Missing = Missing
  /\ \A e, q, t : Ledger!Graded(e, q, t) = Graded(e, q, t)
<1>1. \A b, q : Ledger!NextBox(b, q) = NextBox(b, q)
  BY Zenon DEF Ledger!NextBox, NextBox, Ledger!MaxBox, MaxBox, Ledger!Least, Least,
               Ledger!Greatest, Greatest
<1>2. \A b, q : Ledger!Delay(b, q) = Delay(b, q)
  BY Zenon DEF Ledger!Delay, Delay, Ledger!BoxDays, BoxDays, Ledger!MaxBox, MaxBox
<1>3. \A e, q, t : Ledger!Graded(e, q, t) = Graded(e, q, t)
  BY <1>1, <1>2, Zenon DEF Ledger!Graded, Graded
<1>4. QED
  BY <1>3 DEF Ledger!Cards, Cards, Ledger!Qualities, Qualities, Ledger!Missing, Missing

\* A single tab keeps the ledger's promise: no grade is lost while the tab
\* is open, and a restart never keeps some cards' grades and drops others'.
THEOREM OneTabIsLedger ==
  ASSUME NEW tab, Tabs = {tab}
  PROVE  Spec => LedgerPromise
<1>0. TheTab = tab
  BY DEF TheTab
<1>1. ASSUME Init PROVE Ledger!LedgerInit
  <2>1. Working = disk /\ disk = EmptyStore /\ now \in Nat
    BY <1>1, StoreAssumption DEF Init, Working
  <2>2. QED
    BY <2>1, LedgerRule DEF Ledger!LedgerInit, EmptyStore
<1>2. StoreInv /\ [Next]_vars => [Ledger!LedgerNext]_(Ledger!ledgerVars)
  <2> SUFFICES ASSUME StoreInv, [Next]_vars
               PROVE  Ledger!LedgerNext \/ UNCHANGED Ledger!ledgerVars
    OBVIOUS
  <2> USE <1>0 DEF Working
  <2>1. CASE UNCHANGED vars
    BY <2>1 DEF vars, Ledger!ledgerVars
  <2>2. ASSUME Open(tab) PROVE UNCHANGED Ledger!ledgerVars
    BY <2>2 DEF Open, StoreInv, TypeOK, Ledger!ledgerVars
  <2>3. ASSUME Close(tab) PROVE Ledger!Restart
    BY <2>3 DEF Close, Ledger!Restart
  <2>4. ASSUME NEW c \in Cards, NEW q \in Qualities, Grade(tab, c, q)
        PROVE  Ledger!LedgerGrade(c, q)
    <3>1. tab \in open /\ tab \in open'
      BY <2>4 DEF Grade
    <3>2. mem'[tab] = [mem[tab] EXCEPT ![c] = Graded(@, q, now)]
      BY <2>4 DEF Grade, StoreInv, TypeOK
    <3>3. disk' \in {disk, mem'[tab]} /\ now' = now
      BY <2>4 DEF Grade
    <3>4. QED
      BY <3>1, <3>2, <3>3, LedgerRule DEF Ledger!LedgerGrade
  <2>5. CASE StorageChanges
    BY <2>5 DEF StorageChanges, Ledger!ledgerVars
  <2>6. ASSUME Tick PROVE Ledger!Time
    <3>1. now' \in Nat /\ now' > now
      BY <2>6, StoreAssumption DEF Tick, StoreInv, TypeOK
    <3>2. QED
      BY <2>6, <3>1 DEF Tick, Ledger!Time
  <2>7. QED
    BY <2>1, <2>2, <2>3, <2>4, <2>5, <2>6, LedgerRule DEF Next, Ledger!LedgerNext
<1>3. QED
  BY <1>1, <1>2, StoreInvariant, PTL DEF Spec, LedgerPromise, Ledger!LedgerSpec
=============================================================================
