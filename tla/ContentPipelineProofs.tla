------------------------ MODULE ContentPipelineProofs -----------------------
(***************************************************************************)
(* Proofs about the content pipeline (ContentPipeline), for every set of   *)
(* handwritten modules, every output of the workflows that the assumption  *)
(* of the pipeline allows, and every order and repetition of the scripts.  *)
(***************************************************************************)
EXTENDS ContentPipeline, FiniteSetTheorems, TLAPS

-----------------------------------------------------------------------------
\* A set of indices has a least one: the intervals that end at its members
\* are finite sets, and one of them has no smaller one within.
LEMMA LeastIndex ==
  ASSUME NEW S, S \subseteq Nat, S # {}
  PROVE  \E i \in S : \A j \in S : i <= j
<1> DEFINE T == {1 .. i : i \in S}
<1>1. T \subseteq FiniteSubsetsOf(Nat) /\ T # {}
  <2>1. ASSUME NEW i \in S PROVE 1 .. i \in SUBSET Nat /\ IsFiniteSet(1 .. i)
    <3>1. 1 .. i \in SUBSET Nat
      OBVIOUS
    <3>2. 1 \in Int /\ i \in Int
      OBVIOUS
    <3>3. IsFiniteSet(1 .. i)
      BY <3>2, FS_Interval
    <3>4. QED
      BY <3>1, <3>3
  <2>2. QED
    BY <2>1 DEF FiniteSubsetsOf
<1>2. PICK x \in T : \A y \in T : <<y, x>> \notin StrictSubsetOrdering(Nat)
  BY <1>1, FS_StrictSubsetOrderingWellFounded, WFMin
<1>3. PICK i \in S : x = 1 .. i
  BY <1>2
<1>4. ASSUME NEW j \in S, j < i PROVE FALSE
  <2>1. 1 .. j \subseteq 1 .. i /\ i \in 1 .. i /\ i \notin 1 .. j
    BY <1>4
  <2>2. 1 .. j \in SUBSET Nat /\ 1 .. i \in SUBSET Nat
    BY <1>3
  <2>3. <<1 .. j, 1 .. i>> \in StrictSubsetOrdering(Nat)
    BY <2>1, <2>2 DEF StrictSubsetOrdering
  <2>4. QED
    BY <2>3, <1>2, <1>3
<1>5. QED
  BY <1>4

-----------------------------------------------------------------------------
(* Writing files over a directory. *)

Over(files, c) ==
  [f \in DOMAIN files \cup DOMAIN c |-> IF f \in DOMAIN files THEN files[f] ELSE c[f]]

LEMMA OverIs ==
  ASSUME NEW files, NEW c
  PROVE  /\ DOMAIN Over(files, c) = DOMAIN files \cup DOMAIN c
         /\ \A f \in DOMAIN files : Over(files, c)[f] = files[f]
         /\ \A f \in DOMAIN c \ DOMAIN files : Over(files, c)[f] = c[f]
BY ZenonT(30) DEF Over

\* A run that did not replace a module left every module as it was.
LEMMA Written ==
  ASSUME NEW files, Write(files), overwrites \in Nat
  PROVE  /\ content' = Over(files, content)
         /\ overwrites' \in 0 .. MaxOverwrites
         /\ overwrites' = 0 =>
              overwrites = 0 /\ \A f \in DOMAIN content : content'[f] = content[f]
<1>1. content' = Over(files, content)
  BY DEF Write, Over
<1>2. overwrites' \in 0 .. MaxOverwrites /\ (overwrites' = 0 => overwrites = 0 /\ Replaced(files) = {})
  BY PipelineAssumption DEF Write
<1>3. ASSUME Replaced(files) = {}, NEW f \in DOMAIN content PROVE content'[f] = content[f]
  <2>1. CASE f \in DOMAIN files
    <3>1. f \notin Replaced(files)
      BY <1>3
    <3>2. files[f] = content[f]
      BY <2>1, <3>1 DEF Replaced
    <3>3. QED
      BY <1>1, <2>1, <3>2, OverIs
  <2>2. CASE f \notin DOMAIN files
    BY <1>1, <2>2 DEF Over
  <2>3. QED
    BY <2>1, <2>2
<1>4. QED
  BY <1>1, <1>2, <1>3


\* What is in a file is in the directory.
LEMMA InDirectory ==
  ASSUME NEW c, NEW f \in DOMAIN c
  PROVE  /\ DOMAIN c[f].group \subseteq Terms(c)
         /\ c[f].links \subseteq Links(c)
         /\ c[f].overlays \subseteq Overlays(c)
         /\ \A n \in c[f].names : n[2] \in Names(c)
BY DEF Terms, Links, Overlays, Names

\* Terms stay as long as no module is replaced.
LEMMA TermsGrow ==
  ASSUME NEW c, NEW d, DOMAIN c \subseteq DOMAIN d, \A f \in DOMAIN c : d[f] = c[f]
  PROVE  Terms(c) \subseteq Terms(d)
BY DEF Terms

-----------------------------------------------------------------------------
(* What the files of a run have to be for the directory to stay sound. *)

\* No key is defined by two modules.
Disjoint(c) ==
  \A f, g \in DOMAIN c : f # g => DOMAIN c[f].group \cap DOMAIN c[g].group = {}

\* Only keys with an overlay or an entry of the same module are taught.
TaughtInFile(c) ==
  \A f \in DOMAIN c : c[f].taught \subseteq c[f].overlays \cup DOMAIN c[f].group

\* Files that define no key twice, and none that is a term of c.
Separate(files, c) ==
  /\ TaughtInFile(files)
  /\ Disjoint(files)
  /\ \A f \in DOMAIN files : DOMAIN files[f].group \cap Terms(c) = {}

\* Files whose links and overlays lead to terms, once they are in c.
Resolves(files, c) ==
  \A f \in DOMAIN files :
    /\ \A l \in files[f].links : l[2] \in Terms(c) \cup Terms(files)
    /\ files[f].overlays \subseteq Terms(c)

\* Every link and every overlay of a directory leads to one of its terms, and
\* the terms of the handwritten modules are among them.
Resolved(c) ==
  /\ Dangling(c) = {}
  /\ Overlays(c) \subseteq Terms(c)
  /\ Terms(Handwritten) \subseteq Terms(c)

LEMMA OverSeparate ==
  ASSUME NEW files, NEW c, Separate(files, c), TaughtInFile(c), Disjoint(c)
  PROVE  TaughtInFile(Over(files, c)) /\ Disjoint(Over(files, c))
<1> DEFINE d == Over(files, c)
<1>1. \A f \in DOMAIN d : \/ f \in DOMAIN files /\ d[f] = files[f]
                          \/ f \in DOMAIN c /\ f \notin DOMAIN files /\ d[f] = c[f]
  BY DEF Over
<1> HIDE DEF d
<1>2. TaughtInFile(d)
  BY <1>1 DEF Separate, TaughtInFile
<1>3. ASSUME NEW f \in DOMAIN d, NEW g \in DOMAIN d, f # g
      PROVE  DOMAIN d[f].group \cap DOMAIN d[g].group = {}
  <2>1. CASE f \in DOMAIN files /\ g \in DOMAIN files
    BY <1>1, <1>3, <2>1 DEF Separate, Disjoint
  <2>2. CASE f \in DOMAIN files /\ g \notin DOMAIN files
    <3>1. DOMAIN d[g].group \subseteq Terms(c)
      BY <1>1, <2>2, InDirectory
    <3>2. QED
      BY <1>1, <2>2, <3>1 DEF Separate
  <2>3. CASE f \notin DOMAIN files /\ g \in DOMAIN files
    <3>1. DOMAIN d[f].group \subseteq Terms(c)
      BY <1>1, <2>3, InDirectory
    <3>2. QED
      BY <1>1, <2>3, <3>1 DEF Separate
  <2>4. CASE f \notin DOMAIN files /\ g \notin DOMAIN files
    BY <1>1, <1>3, <2>4 DEF Disjoint
  <2>5. QED
    BY <2>1, <2>2, <2>3, <2>4
<1>4. QED
  BY <1>2, <1>3 DEF d, Disjoint

LEMMA OverResolved ==
  ASSUME NEW files, NEW c, Resolves(files, c), Resolved(c),
         \A f \in DOMAIN c : Over(files, c)[f] = c[f]
  PROVE  Resolved(Over(files, c))
<1> DEFINE d == Over(files, c)
<1>1. \A f \in DOMAIN d : \/ f \in DOMAIN files /\ d[f] = files[f]
                          \/ f \in DOMAIN c /\ d[f] = c[f]
  BY DEF Over
<1>2. DOMAIN c \subseteq DOMAIN d /\ DOMAIN files \subseteq DOMAIN d
  BY DEF Over
<1>3. \A f \in DOMAIN files : d[f] = files[f]
  BY DEF Over
<1>4. Terms(c) \subseteq Terms(d) /\ Terms(files) \subseteq Terms(d)
  <2>1. Terms(c) \subseteq Terms(d)
    BY <1>2, TermsGrow
  <2>2. Terms(files) \subseteq Terms(d)
    BY <1>2, <1>3, TermsGrow
  <2>3. QED
    BY <2>1, <2>2
<1> HIDE DEF d
<1>5. \A l \in Links(c) : l[2] \in Terms(c)
  BY DEF Resolved, Dangling
<1>6. ASSUME NEW f \in DOMAIN d
      PROVE  (\A l \in d[f].links : l[2] \in Terms(d)) /\ d[f].overlays \subseteq Terms(d)
  <2>1. CASE f \in DOMAIN files /\ d[f] = files[f]
    BY <1>4, <2>1 DEF Resolves
  <2>2. CASE f \in DOMAIN c /\ d[f] = c[f]
    BY <1>4, <1>5, <2>2, InDirectory DEF Resolved
  <2>3. QED
    BY <1>1, <2>1, <2>2
<1>7. Dangling(d) = {}
  BY <1>6 DEF Dangling, Links
<1>8. Overlays(d) \subseteq Terms(d)
  BY <1>6 DEF Overlays
<1>9. Terms(Handwritten) \subseteq Terms(d)
  BY <1>4 DEF Resolved
<1>10. QED
  BY <1>7, <1>8, <1>9 DEF Resolved, d

-----------------------------------------------------------------------------
(* What the scripts write: a wave. *)

LEMMA OneFileIs ==
  ASSUME NEW topics, OneFilePerTopic(topics)
  PROVE  /\ Len(topics) \in Nat /\ DOMAIN topics = 1 .. Len(topics)
         /\ \A i, j \in DOMAIN topics : topics[i].code = topics[j].code => i = j
BY DEF OneFilePerTopic

\* The file of a topic holds the cards and the kept entries of that topic.
LEMMA WaveFilesAre ==
  ASSUME NEW known, NEW prefix, NEW topics, OneFilePerTopic(topics)
  PROVE  LET F == WaveFiles(known, prefix, topics)
             all == known \cup TermsUpTo(topics, Len(topics))
         IN  /\ DOMAIN F = {<<prefix, topics[n].code>> : n \in DOMAIN topics}
             /\ \A n \in DOMAIN topics :
                  F[<<prefix, topics[n].code>>] =
                    Stamped(topics[n], KeptTerms(known, topics, n), all)
<1> DEFINE F == WaveFiles(known, prefix, topics)
           all == known \cup TermsUpTo(topics, Len(topics))
           Module(n) == Stamped(topics[n], KeptTerms(known, topics, n), all)
           Which(f) == CHOOSE n \in DOMAIN topics : topics[n].code = f[2]
           S == {<<prefix, topics[n].code>> : n \in DOMAIN topics}
<1>1. F = [f \in S |-> Module(Which(f))]
  BY DEF WaveFiles
<1>2. ASSUME NEW n \in DOMAIN topics PROVE Which(<<prefix, topics[n].code>>) = n
  <2>1. <<prefix, topics[n].code>>[2] = topics[n].code
    OBVIOUS
  <2>2. \E m \in DOMAIN topics : topics[m].code = <<prefix, topics[n].code>>[2]
    BY <2>1
  <2>3. QED
    BY <2>1, <2>2, OneFileIs
<1>3. ASSUME NEW n \in DOMAIN topics PROVE F[<<prefix, topics[n].code>>] = Module(n)
  <2>1. <<prefix, topics[n].code>> \in S
    OBVIOUS
  <2> HIDE DEF S, Module, Which
  <2>2. QED
    BY <1>1, <1>2, <2>1
<1>4. QED
  BY <1>1, <1>3

\* No topic keeps what was known or what another topic keeps.
LEMMA KeptApart ==
  ASSUME NEW known, NEW topics, OneFilePerTopic(topics),
         NEW n \in DOMAIN topics, NEW m \in DOMAIN topics
  PROVE  /\ KeptTerms(known, topics, n) \cap known = {}
         /\ KeptTerms(known, topics, n) \subseteq topics[n].terms
         /\ n # m => KeptTerms(known, topics, n) \cap KeptTerms(known, topics, m) = {}
<1>1. n \in Nat /\ m \in Nat /\ n >= 1 /\ m >= 1
  BY OneFileIs
<1>2. ASSUME NEW i \in Nat, NEW j \in Nat, 1 <= i, i < j
      PROVE  topics[i].terms \cap KeptTerms(known, topics, j) = {}
  BY <1>2 DEF KeptTerms, TermsUpTo
<1>3. n # m => n < m \/ m < n
  BY <1>1
<1>4. /\ KeptTerms(known, topics, n) \subseteq topics[n].terms
      /\ KeptTerms(known, topics, m) \subseteq topics[m].terms
      /\ KeptTerms(known, topics, n) \cap known = {}
  BY DEF KeptTerms
<1>5. QED
  BY <1>1, <1>2, <1>3, <1>4

\* Every term of the output was known or is kept by the first topic that has it.
LEMMA KeptOrKnown ==
  ASSUME NEW known, NEW topics, OneFilePerTopic(topics),
         NEW k \in TermsUpTo(topics, Len(topics))
  PROVE  k \in known \/ \E n \in DOMAIN topics : k \in KeptTerms(known, topics, n)
<1> DEFINE S == {i \in DOMAIN topics : k \in topics[i].terms}
<1>1. S \subseteq Nat /\ S # {}
  BY OneFileIs DEF TermsUpTo
<1>2. PICK n \in S : \A j \in S : n <= j
  BY <1>1, LeastIndex
<1>3. n \in 1 .. Len(topics) /\ Len(topics) \in Nat /\ k \in topics[n].terms
  BY <1>2, OneFileIs
<1>4. k \notin TermsUpTo(topics, n - 1)
  <2>1. ASSUME NEW i \in 1 .. (n - 1), k \in topics[i].terms PROVE FALSE
    <3>1. i \in S /\ i < n
      BY <1>3, <2>1, OneFileIs
    <3>2. QED
      BY <1>2, <1>3, <3>1
  <2>2. QED
    BY <2>1 DEF TermsUpTo
<1>5. QED
  BY <1>3, <1>4, OneFileIs DEF KeptTerms

\* What a wave writes: files of its prefix, which lay nothing over, define
\* each kept term once, and link to terms of the wave or known ones.
LEMMA WaveWrites ==
  ASSUME NEW known, NEW prefix, NEW topics, OneFilePerTopic(topics)
  PROVE  LET F == WaveFiles(known, prefix, topics)
         IN  /\ \A f \in DOMAIN F : f[1] = prefix /\ F[f].overlays = {}
             /\ \A f \in DOMAIN F : DOMAIN F[f].group \cap known = {}
             /\ \A f \in DOMAIN F : DOMAIN F[f].group \subseteq TermsUpTo(topics, Len(topics))
             /\ TaughtInFile(F) /\ Disjoint(F)
             /\ \A f \in DOMAIN F : \A l \in F[f].links : l[2] \in known \cup Terms(F)
<1> DEFINE F == WaveFiles(known, prefix, topics)
           kept(n) == KeptTerms(known, topics, n)
           all == known \cup TermsUpTo(topics, Len(topics))
           file(n) == <<prefix, topics[n].code>>
<1>1. /\ DOMAIN F = {file(n) : n \in DOMAIN topics}
      /\ \A n \in DOMAIN topics : F[file(n)] = Stamped(topics[n], kept(n), all)
  BY WaveFilesAre
<1>2. ASSUME NEW n \in DOMAIN topics
      PROVE  /\ file(n)[1] = prefix
             /\ F[file(n)].overlays = {} /\ F[file(n)].taught = {}
             /\ DOMAIN F[file(n)].group = kept(n)
             /\ \A l \in F[file(n)].links : l[2] \in all
  <2>1. F[file(n)] = Stamped(topics[n], kept(n), all)
    BY <1>1
  <2>2. file(n)[1] = prefix
    OBVIOUS
  <2> HIDE DEF kept, all, F, file
  <2>3. QED
    BY <2>1, <2>2 DEF Stamped, ResolvingLinks
<1>3. ASSUME NEW n \in DOMAIN topics
      PROVE  kept(n) \subseteq TermsUpTo(topics, Len(topics)) /\ kept(n) \cap known = {}
  BY KeptApart, OneFileIs DEF TermsUpTo
<1>4. \A n, m \in DOMAIN topics : n # m => kept(n) \cap kept(m) = {}
  BY KeptApart
<1>5. ASSUME NEW n \in DOMAIN topics PROVE kept(n) \subseteq Terms(F)
  <2>1. file(n) \in DOMAIN F
    BY <1>1
  <2> HIDE DEF F, kept, file
  <2>2. QED
    BY <1>2, <2>1, InDirectory
<1> HIDE DEF F, kept, file
<1>6. all \subseteq known \cup Terms(F)
  BY <1>5, KeptOrKnown DEF kept
<1> HIDE DEF all
<1>7. \A f \in DOMAIN F : /\ f[1] = prefix /\ F[f].overlays = {} /\ F[f].taught = {}
                          /\ DOMAIN F[f].group \cap known = {}
                          /\ DOMAIN F[f].group \subseteq TermsUpTo(topics, Len(topics))
                          /\ \A l \in F[f].links : l[2] \in known \cup Terms(F)
  BY <1>1, <1>2, <1>3, <1>6
<1>8. Disjoint(F)
  BY <1>1, <1>2, <1>4 DEF Disjoint
<1>9. TaughtInFile(F)
  BY <1>7 DEF TaughtInFile
<1>10. QED
  BY <1>7, <1>8, <1>9 DEF F

-----------------------------------------------------------------------------
(* What the scripts write: overlays. *)

\* Overlays define and link nothing, and are laid over terms only.
LEMMA TeachWrites ==
  ASSUME NEW c, NEW d, NEW lost
  PROVE  LET F == TeachFiles(c, d, lost)
         IN  \A f \in DOMAIN F :
               /\ f[1] = TeachPrefix[d]
               /\ DOMAIN F[f].group = {} /\ F[f].links = {}
               /\ F[f].overlays \subseteq Terms(c)
               /\ F[f].taught = F[f].overlays
<1> DEFINE F == TeachFiles(c, d, lost)
           Keys(t) == KnownReturned(asked[d][t] \cup StrayKeys, Terms(c))
           Module(t) == [secs |-> {}, group |-> <<>>, names |-> {}, links |-> {},
                         overlays |-> Keys(t), taught |-> Keys(t)]
           S == {<<TeachPrefix[d], t>> : t \in {u \in DOMAIN asked[d] \ lost : Keys(u) # {}}}
<1>1. F = [f \in S |-> Module(f[2])]
  BY DEF TeachFiles
<1>2. ASSUME NEW f \in S PROVE f[1] = TeachPrefix[d]
  <2> DEFINE U == {u \in DOMAIN asked[d] \ lost : Keys(u) # {}}
  <2> HIDE DEF U
  <2>1. PICK t \in U : f = <<TeachPrefix[d], t>>
    BY DEF U
  <2>2. QED
    BY <2>1
<1>3. ASSUME NEW t
      PROVE  /\ DOMAIN Module(t).group = {} /\ Module(t).links = {}
             /\ Module(t).overlays \subseteq Terms(c) /\ Module(t).taught = Module(t).overlays
  <2>1. Keys(t) \subseteq Terms(c)
    BY DEF KnownReturned
  <2> HIDE DEF Keys
  <2>2. QED
    BY <2>1
<1> HIDE DEF F, S, Module
<1>4. \A f \in DOMAIN F : f \in S /\ F[f] = Module(f[2])
  BY <1>1
<1>5. QED
  BY <1>2, <1>3, <1>4 DEF F

-----------------------------------------------------------------------------
(* What the scripts write: jargon. *)

\* No entry keeps what was known, what another entry keeps, or a key whose
\* title is somebody's name.
LEMMA JargonApart ==
  ASSUME NEW known, NEW taken, NEW entries, entries \in Seq(Range(entries)),
         NEW n \in DOMAIN entries, NEW m \in DOMAIN entries
  PROVE  /\ KeptJargon(known, taken, entries, n) \cap known = {}
         /\ \A title \in entries[n].titles :
              title[1] \in KeptJargon(known, taken, entries, n) => title[2] \notin taken
         /\ n # m => KeptJargon(known, taken, entries, n)
                       \cap KeptJargon(known, taken, entries, m) = {}
<1> DEFINE Fresh(i) == {k \in entries[i].terms \ known :
                          \A title \in entries[i].titles : title[1] = k => title[2] \notin taken}
           kept(i) == KeptJargon(known, taken, entries, i)
<1>1. \A i : kept(i) = Fresh(i) \ UNION {Fresh(j) : j \in 1 .. (i - 1)}
  BY DEF KeptJargon
<1>2. n \in Nat /\ m \in Nat /\ n >= 1 /\ m >= 1 /\ (n # m => n < m \/ m < n)
  OBVIOUS
<1>3. /\ Fresh(n) \cap known = {}
      /\ \A title \in entries[n].titles : title[1] \in Fresh(n) => title[2] \notin taken
  OBVIOUS
<1> HIDE DEF Fresh, kept
<1>4. \A i : kept(i) \subseteq Fresh(i)
  BY <1>1
<1>5. ASSUME NEW i \in Nat, NEW j \in Nat, 1 <= i, i < j PROVE kept(i) \cap kept(j) = {}
  BY <1>1, <1>5
<1>6. QED
  BY <1>2, <1>3, <1>4, <1>5 DEF kept

\* What a jargon run writes: files of its prefix, which lay nothing over,
\* define each kept key once, link to keys of the run or known ones, and
\* bring no name that was taken.
LEMMA JargonWrites ==
  ASSUME NEW c, NEW d \in DOMAIN JargonWaves
  PROVE  LET F == JargonFiles(c, d)
         IN  /\ \A f \in DOMAIN F : f[1] = JargonPrefix[d] /\ F[f].overlays = {}
             /\ Separate(F, c)
             /\ \A f \in DOMAIN F : \A l \in F[f].links : l[2] \in Terms(c) \cup Terms(F)
             /\ \A f \in DOMAIN F : \A n \in F[f].names : n[2] \notin Names(c)
<1> DEFINE F == JargonFiles(c, d)
           entries == JargonWaves[d]
           known == Terms(c)
           taken == Names(c)
           kept == [n \in DOMAIN entries |-> KeptJargon(known, taken, entries, n)]
           willExist == known \cup UNION Range(kept)
           Of(t) == {n \in DOMAIN entries : entries[n].code = t}
           Keys(t) == UNION {kept[n] : n \in Of(t)}
           NamesOf(n) == {m \in entries[n].titles : m[1] \in kept[n]}
                           \cup FreeAliases(entries[n].aliases, kept[n], taken)
           LinksOf(n) == {l \in ResolvingLinks(entries[n].links, kept[n], willExist) : l[2] # l[1]}
           Module(t) == [secs |-> {}, group |-> [k \in Keys(t) |-> t],
                         names |-> UNION {NamesOf(n) : n \in Of(t)},
                         links |-> UNION {LinksOf(n) : n \in Of(t)},
                         overlays |-> {}, taught |-> Keys(t)]
           codes == {entries[n].code : n \in {i \in DOMAIN entries : kept[i] # {}}}
           S == {<<JargonPrefix[d], t>> : t \in codes}
<1>1. F = [f \in S |-> Module(f[2])]
  BY DEF JargonFiles
<1>2. entries \in Seq(Range(entries))
  BY PipelineAssumption
<1>3. ASSUME NEW n \in DOMAIN entries
      PROVE  /\ kept[n] \cap known = {}
             /\ \A m \in NamesOf(n) : m[2] \notin taken
             /\ \A l \in LinksOf(n) : l[2] \in willExist
             /\ \A m \in DOMAIN entries : n # m => kept[n] \cap kept[m] = {}
  <2>1. \A m \in DOMAIN entries : kept[m] = KeptJargon(known, taken, entries, m)
    OBVIOUS
  <2> HIDE DEF kept, entries, known, taken, willExist
  <2> DEFINE K(i) == KeptJargon(known, taken, entries, i)
  <2>2. /\ K(n) \cap known = {}
        /\ \A title \in entries[n].titles : title[1] \in K(n) => title[2] \notin taken
        /\ \A m \in DOMAIN entries : n # m => K(n) \cap K(m) = {}
    BY <1>2, JargonApart
  <2> HIDE DEF K
  <2>3. \A m \in DOMAIN entries : kept[m] = K(m)
    BY <2>1 DEF K
  <2>4. kept[n] \cap known = {} /\ \A m \in DOMAIN entries : n # m => kept[n] \cap kept[m] = {}
    BY <2>2, <2>3
  <2>5. \A m \in NamesOf(n) : m[2] \notin taken
    BY <2>2, <2>3 DEF FreeAliases
  <2>6. \A l \in LinksOf(n) : l[2] \in willExist
    BY DEF ResolvingLinks
  <2>7. QED
    BY <2>4, <2>5, <2>6
<1>4. /\ \A n \in DOMAIN entries : entries[n].code \in codes \/ kept[n] = {}
      /\ \A t \in codes : <<JargonPrefix[d], t>> \in S
  OBVIOUS
<1>5. \A f \in S : f = <<JargonPrefix[d], f[2]>> /\ f[1] = JargonPrefix[d] /\ f[2] \in codes
  OBVIOUS
<1>6. ASSUME NEW x \in willExist PROVE x \in known \/ \E n \in DOMAIN entries : x \in kept[n]
  BY DEF Range
<1> HIDE DEF entries, known, taken, kept, willExist
<1>7. \A t, u : t # u => Keys(t) \cap Keys(u) = {}
  BY <1>3
<1>8. \A t : /\ Keys(t) \cap known = {}
             /\ \A n \in Module(t).names : n[2] \notin taken
             /\ \A l \in Module(t).links : l[2] \in willExist
             /\ Module(t).overlays = {} /\ Module(t).taught = Keys(t)
             /\ DOMAIN Module(t).group = Keys(t)
  BY <1>3
<1>9. \A n \in DOMAIN entries : kept[n] \subseteq Keys(entries[n].code)
  OBVIOUS
<1> HIDE DEF F, Of, Keys, NamesOf, LinksOf, Module, codes, S
<1>10. DOMAIN F = S /\ \A f \in S : F[f] = Module(f[2])
  BY <1>1
<1>11. ASSUME NEW n \in DOMAIN entries PROVE kept[n] \subseteq Terms(F)
  <2>1. CASE kept[n] # {}
    <3>1. <<JargonPrefix[d], entries[n].code>> \in DOMAIN F
      BY <1>4, <1>10, <2>1
    <3>2. F[<<JargonPrefix[d], entries[n].code>>] = Module(entries[n].code)
      BY <1>10, <3>1
    <3>3. QED
      BY <1>8, <1>9, <3>1, <3>2, InDirectory
  <2>2. QED
    BY <2>1
<1>12. ASSUME NEW f \in DOMAIN F
       PROVE  /\ f[1] = JargonPrefix[d] /\ F[f].overlays = {}
              /\ F[f].taught = DOMAIN F[f].group
              /\ DOMAIN F[f].group \cap known = {}
              /\ \A l \in F[f].links : l[2] \in known \cup Terms(F)
              /\ \A n \in F[f].names : n[2] \notin taken
  <2>1. F[f] = Module(f[2]) /\ f[1] = JargonPrefix[d]
    BY <1>5, <1>10
  <2>2. \A l \in F[f].links : l[2] \in known \cup Terms(F)
    BY <1>6, <1>8, <1>11, <2>1
  <2>3. QED
    BY <1>8, <2>1, <2>2
<1>13. ASSUME NEW f \in DOMAIN F, NEW g \in DOMAIN F, f # g
       PROVE  DOMAIN F[f].group \cap DOMAIN F[g].group = {}
  <2>1. f[2] # g[2]
    BY <1>5, <1>10, <1>13
  <2>2. QED
    BY <1>7, <1>8, <1>10, <2>1
<1>14. Separate(F, c)
  BY <1>12, <1>13 DEF Separate, TaughtInFile, Disjoint, known
<1>15. QED
  BY <1>12, <1>14 DEF F, known, taken

-----------------------------------------------------------------------------
(* The invariant. *)

FoundationsFiles == WaveFiles(DemoKeys, 10, FoundationsWave)

\* The foundations are in the directory as they were assembled ...
Founded ==
  \A f \in DOMAIN FoundationsFiles : f \in DOMAIN content /\ content[f] = FoundationsFiles[f]

\* ... or nothing but the handwritten modules defines a term: the foundations
\* are written without a look at the terms that exist.
Unfounded ==
  /\ jargonAsked = {}
  /\ \A f \in DOMAIN content :
       /\ f[1] # 10
       /\ DOMAIN content[f].group # {} => f \in DOMAIN Handwritten /\ content[f] = Handwritten[f]

\* The inductive invariant.
ContentInv ==
  /\ TypeOK
  /\ Disjoint(content)
  /\ Founded \/ Unfounded
  /\ overwrites = 0 => Resolved(content) /\ index = {} /\ exit = "0"

LEMMA ContentInit == Init => ContentInv
<1> SUFFICES ASSUME Init PROVE ContentInv
  OBVIOUS
<1> USE DEF Init
<1>1. TypeOK
  <2>1. \A f \in DOMAIN content :
          content[f].taught \subseteq content[f].overlays \cup DOMAIN content[f].group
    BY PipelineAssumption
  <2>2. \A d \in DOMAIN asked : DOMAIN asked[d] = {}
    OBVIOUS
  <2>3. overwrites \in 0 .. MaxOverwrites
    BY PipelineAssumption
  <2>4. QED
    BY <2>1, <2>2, <2>3 DEF TypeOK
<1>2. Disjoint(content)
  BY PipelineAssumption DEF Disjoint
<1>3. Unfounded
  BY PipelineAssumption DEF Unfounded
<1>4. Resolved(content)
  BY PipelineAssumption DEF Resolved
<1>5. QED
  BY <1>1, <1>2, <1>3, <1>4 DEF ContentInv

\* The part of the invariant a run that writes files has to show.
LEMMA WriteKeeps ==
  ASSUME ContentInv, NEW files, Write(files), UNCHANGED <<asked, jargonAsked, index, exit>>,
         TaughtInFile(content') /\ Disjoint(content'),
         (Founded \/ Unfounded)',
         overwrites' = 0 => Resolved(content')
  PROVE  ContentInv'
<1>1. overwrites \in Nat
  BY PipelineAssumption DEF ContentInv, TypeOK
<1>2. overwrites' \in 0 .. MaxOverwrites /\ (overwrites' = 0 => overwrites = 0)
  BY <1>1, Written
<1>3. TypeOK'
  BY <1>2 DEF ContentInv, TypeOK, TaughtInFile
<1>4. QED
  BY <1>2, <1>3 DEF ContentInv

\* No workflow writes under the prefix of another one.
LEMMA Prefixes ==
  /\ 10 \notin Range(JargonPrefix)
  /\ \A p \in DOMAIN Waves : p \notin Range(JargonPrefix)
  /\ \A d \in DOMAIN TeachPrefix : TeachPrefix[d] # 10 /\ TeachPrefix[d] \notin Range(JargonPrefix)
  /\ \A d \in DOMAIN JargonWaves : JargonPrefix[d] # 10
<1>1. ({10} \cup DOMAIN Waves) \cap (Range(TeachPrefix) \cup Range(JargonPrefix)) = {}
  BY PipelineAssumption
<1>2. Range(TeachPrefix) \cap Range(JargonPrefix) = {}
  BY PipelineAssumption
<1>3. \A d \in DOMAIN TeachPrefix : TeachPrefix[d] \in Range(TeachPrefix)
  BY DEF Range
<1>4. \A d \in DOMAIN JargonWaves : JargonPrefix[d] \in Range(JargonPrefix)
  BY PipelineAssumption DEF Range
<1>5. QED
  BY <1>1, <1>2, <1>3, <1>4

\* Files of other workflows leave the foundations alone.
LEMMA FoundedStays ==
  ASSUME NEW files, content' = Over(files, content), Founded,
         \A f \in DOMAIN files : f[1] # 10
  PROVE  Founded'
<1>1. \A f \in DOMAIN FoundationsFiles : f[1] = 10
  BY WaveWrites, PipelineAssumption DEF FoundationsFiles
<1>2. QED
  BY <1>1 DEF Founded, Over

LEMMA FoundationsKeep ==
  ASSUME ContentInv, AssembleFoundations PROVE ContentInv'
<1> DEFINE F == FoundationsFiles
<1>1. Write(F) /\ UNCHANGED <<asked, jargonAsked, index, exit>>
  BY DEF AssembleFoundations, FoundationsFiles
<1>2. /\ content' = Over(F, content)
      /\ overwrites' = 0 =>
           overwrites = 0 /\ \A f \in DOMAIN content : content'[f] = content[f]
  BY <1>1, Written, PipelineAssumption DEF ContentInv, TypeOK
<1>3. Founded'
  BY <1>2 DEF Founded, Over, FoundationsFiles
<1>4. TaughtInFile(content) /\ Disjoint(content)
  BY DEF ContentInv, TypeOK, TaughtInFile
<1>5. /\ TaughtInFile(content') /\ Disjoint(content')
      /\ overwrites' = 0 => Resolved(content')
  <2>1. CASE Founded
    <3>1. DOMAIN content' = DOMAIN content /\ \A f \in DOMAIN content : content'[f] = content[f]
      BY <1>2, <2>1 DEF Founded, Over
    <3>2. TaughtInFile(content') /\ Disjoint(content')
      BY <1>4, <3>1 DEF TaughtInFile, Disjoint
    <3>3. Terms(content') = Terms(content) /\ Links(content') = Links(content)
            /\ Overlays(content') = Overlays(content)
      BY <3>1 DEF Terms, Links, Overlays
    <3>4. overwrites' = 0 => Resolved(content')
      BY <1>2, <3>3 DEF ContentInv, Resolved, Dangling
    <3>5. QED
      BY <3>2, <3>4
  <2>2. CASE Unfounded
    <3>1. /\ \A f \in DOMAIN F : F[f].overlays = {}
          /\ \A f \in DOMAIN F : DOMAIN F[f].group \cap DemoKeys = {}
          /\ \A f \in DOMAIN F :
               DOMAIN F[f].group \subseteq TermsUpTo(FoundationsWave, Len(FoundationsWave))
          /\ TaughtInFile(F) /\ Disjoint(F)
          /\ \A f \in DOMAIN F : \A l \in F[f].links : l[2] \in DemoKeys \cup Terms(F)
      BY WaveWrites, PipelineAssumption DEF FoundationsFiles
    <3>2. Terms(content) \subseteq Terms(Handwritten)
      BY <2>2 DEF Unfounded, Terms
    <3>3. \A f \in DOMAIN F : DOMAIN F[f].group \cap Terms(content) = {}
      BY <3>1, <3>2, PipelineAssumption
    <3>4. TaughtInFile(content') /\ Disjoint(content')
      BY <1>2, <1>4, <3>1, <3>3, OverSeparate DEF Separate
    <3>5. ASSUME overwrites' = 0 PROVE Resolved(content')
      <4>1. Resolved(content) /\ \A f \in DOMAIN content : content'[f] = content[f]
        BY <1>2, <3>5 DEF ContentInv
      <4>2. DemoKeys \subseteq Terms(content)
        BY <4>1, PipelineAssumption DEF Resolved
      <4>3. Resolves(F, content)
        BY <3>1, <4>2 DEF Resolves
      <4>4. QED
        BY <1>2, <4>1, <4>3, OverResolved
    <3>6. QED
      BY <3>4, <3>5
  <2>3. QED
    BY <2>1, <2>2 DEF ContentInv
<1>6. QED
  BY <1>1, <1>3, <1>5, WriteKeeps

\* Any other run that writes files the directory was ready for.
LEMMA SeparateWriteKeeps ==
  ASSUME ContentInv, NEW files, Write(files), UNCHANGED <<asked, jargonAsked, index, exit>>,
         Separate(files, content), Resolves(files, content),
         Founded' \/ Unfounded'
  PROVE  ContentInv'
<1>1. /\ content' = Over(files, content)
      /\ overwrites' = 0 =>
           overwrites = 0 /\ \A f \in DOMAIN content : content'[f] = content[f]
  BY Written, PipelineAssumption DEF ContentInv, TypeOK
<1>2. TaughtInFile(content) /\ Disjoint(content)
  BY DEF ContentInv, TypeOK, TaughtInFile
<1>3. TaughtInFile(content') /\ Disjoint(content')
  BY <1>1, <1>2, OverSeparate
<1>4. overwrites' = 0 => Resolved(content')
  BY <1>1, OverResolved DEF ContentInv
<1>5. QED
  BY <1>3, <1>4, WriteKeeps

LEMMA WaveKeeps ==
  ASSUME ContentInv, NEW p \in DOMAIN Waves, AssembleWave(p) PROVE ContentInv'
<1> DEFINE F == WaveFiles(Terms(content), p, Waves[p])
<1>1. Write(F) /\ UNCHANGED <<asked, jargonAsked, index, exit>> /\ content' = Over(F, content)
  BY Written, PipelineAssumption DEF ContentInv, TypeOK, AssembleWave
<1>2. /\ \A f \in DOMAIN F : f[1] = p /\ F[f].overlays = {}
      /\ \A f \in DOMAIN F : DOMAIN F[f].group \cap Terms(content) = {}
      /\ TaughtInFile(F) /\ Disjoint(F)
      /\ \A f \in DOMAIN F : \A l \in F[f].links : l[2] \in Terms(content) \cup Terms(F)
  BY WaveWrites, PipelineAssumption
<1>3. p \in Nat /\ 10 < p
  BY PipelineAssumption
<1>4. Assembled(10)
  BY <1>3 DEF AssembleWave
<1> HIDE DEF F
<1>5. Founded
  BY <1>4 DEF ContentInv, Unfounded, Assembled
<1>6. Founded'
  BY <1>1, <1>2, <1>3, <1>5, FoundedStays
<1>7. Separate(F, content) /\ Resolves(F, content)
  BY <1>2 DEF Separate, Resolves
<1>8. QED
  BY <1>1, <1>6, <1>7, SeparateWriteKeeps

LEMMA TeachKeeps ==
  ASSUME ContentInv, NEW d \in DOMAIN TeachPrefix, AssembleTeach(d) PROVE ContentInv'
<1>1. PICK lost \in LostTopics : Write(TeachFiles(content, d, lost))
  BY DEF AssembleTeach
<1> DEFINE F == TeachFiles(content, d, lost)
<1>2. Write(F) /\ UNCHANGED <<asked, jargonAsked, index, exit>> /\ content' = Over(F, content)
  BY <1>1, Written, PipelineAssumption DEF ContentInv, TypeOK, AssembleTeach
<1>3. \A f \in DOMAIN F :
        /\ f[1] = TeachPrefix[d]
        /\ DOMAIN F[f].group = {} /\ F[f].links = {}
        /\ F[f].overlays \subseteq Terms(content)
        /\ F[f].taught = F[f].overlays
  BY TeachWrites
<1> HIDE DEF F
<1>4. TeachPrefix[d] # 10
  BY Prefixes
<1>5. Founded' \/ Unfounded'
  <2>1. CASE Founded
    BY <1>2, <1>3, <1>4, <2>1, FoundedStays
  <2>2. CASE Unfounded
    BY <1>2, <1>3, <1>4, <2>2 DEF Unfounded, Over
  <2>3. QED
    BY <2>1, <2>2 DEF ContentInv
<1>6. Separate(F, content) /\ Resolves(F, content)
  BY <1>3 DEF Separate, Resolves, TaughtInFile, Disjoint
<1>7. QED
  BY <1>2, <1>5, <1>6, SeparateWriteKeeps

LEMMA JargonKeeps ==
  ASSUME ContentInv, NEW d \in DOMAIN JargonWaves, AssembleJargon(d) PROVE ContentInv'
<1> DEFINE F == JargonFiles(content, d)
<1>1. Write(F) /\ UNCHANGED <<asked, jargonAsked, index, exit>> /\ content' = Over(F, content)
  BY Written, PipelineAssumption DEF ContentInv, TypeOK, AssembleJargon
<1>2. /\ \A f \in DOMAIN F : f[1] = JargonPrefix[d] /\ F[f].overlays = {}
      /\ Separate(F, content)
      /\ \A f \in DOMAIN F : \A l \in F[f].links : l[2] \in Terms(content) \cup Terms(F)
  BY JargonWrites
<1> HIDE DEF F
<1>3. JargonPrefix[d] # 10
  BY Prefixes
<1>4. Founded
  BY DEF ContentInv, Unfounded, AssembleJargon
<1>5. Founded'
  BY <1>1, <1>2, <1>3, <1>4, FoundedStays
<1>6. Resolves(F, content)
  BY <1>2 DEF Resolves
<1>7. QED
  BY <1>1, <1>2, <1>5, <1>6, SeparateWriteKeeps

LEMMA ContentStep == ContentInv /\ [Next]_vars => ContentInv'
<1> SUFFICES ASSUME ContentInv, [Next]_vars PROVE ContentInv'
  OBVIOUS
<1>1. CASE UNCHANGED vars
  <2>1. /\ content' = content /\ asked' = asked /\ jargonAsked' = jargonAsked
        /\ index' = index /\ exit' = exit /\ overwrites' = overwrites
    BY <1>1 DEF vars
  <2>2. QED
    BY <2>1 DEF ContentInv, TypeOK, Founded, Unfounded
<1>2. CASE AssembleFoundations
  BY <1>2, FoundationsKeep
<1>3. ASSUME NEW p \in DOMAIN Waves, AssembleWave(p) PROVE ContentInv'
  BY <1>3, WaveKeeps
<1>4. ASSUME NEW d \in DOMAIN TeachPrefix, BuildTeachWave(d) PROVE ContentInv'
  <2>1. /\ content' = content /\ jargonAsked' = jargonAsked
        /\ index' = index /\ exit' = exit /\ overwrites' = overwrites
    BY <1>4 DEF BuildTeachWave
  <2>2. \A e \in DOMAIN asked' : DOMAIN asked'[e] \subseteq Decks[e]
    <3> DEFINE new == [t \in UntaughtTopics(content, d) |-> Untaught(content, t)]
    <3>1. DOMAIN new \subseteq Decks[d]
      BY DEF UntaughtTopics
    <3>2. asked' = [asked EXCEPT ![d] = new]
      BY <1>4 DEF BuildTeachWave
    <3> HIDE DEF new
    <3>3. \A e \in DOMAIN asked : DOMAIN asked[e] \subseteq Decks[e]
      BY DEF ContentInv, TypeOK
    <3>4. QED
      BY <3>1, <3>2, <3>3
  <2>3. TypeOK'
    BY <2>1, <2>2 DEF ContentInv, TypeOK
  <2>4. QED
    BY <2>1, <2>3 DEF ContentInv, Founded, Unfounded
<1>5. ASSUME NEW d \in DOMAIN TeachPrefix, AssembleTeach(d) PROVE ContentInv'
  BY <1>5, TeachKeeps
<1>6. ASSUME NEW d \in DOMAIN JargonWaves, BuildJargonWave(d) PROVE ContentInv'
  <2>1. /\ content' = content /\ asked' = asked /\ jargonAsked' = jargonAsked \cup {d}
        /\ index' = index /\ exit' = exit /\ overwrites' = overwrites
    BY <1>6 DEF BuildJargonWave
  <2>2. TypeOK'
    BY <2>1 DEF ContentInv, TypeOK
  <2>3. PICK t \in Decks[d] : TermsOf(content, t) # {}
    BY <1>6 DEF BuildJargonWave
  <2>4. TermsOf(Handwritten, t) = {}
    BY PipelineAssumption
  <2>5. ~Unfounded
    BY <2>3, <2>4 DEF Unfounded, TermsOf
  <2>6. Founded'
    BY <2>1, <2>5 DEF ContentInv, Founded
  <2>7. QED
    BY <2>1, <2>2, <2>6 DEF ContentInv
<1>7. ASSUME NEW d \in DOMAIN JargonWaves, AssembleJargon(d) PROVE ContentInv'
  BY <1>7, JargonKeeps
<1>8. CASE Build
  <2>1. /\ content' = content /\ asked' = asked /\ jargonAsked' = jargonAsked
        /\ overwrites' = overwrites
    BY <1>8 DEF Build
  <2>2. index' = Dangling(content) /\ exit' = IF DeadRelated(content) = {} THEN "0" ELSE "1"
    BY <1>8 DEF Build
  <2>3. DeadRelated(content) \subseteq Dangling(content)
    BY DEF DeadRelated, Dangling
  <2>4. overwrites' = 0 => Resolved(content') /\ index' = {} /\ exit' = "0"
    BY <2>1, <2>2, <2>3 DEF ContentInv, Resolved
  <2>5. TypeOK'
    BY <2>1, <2>2 DEF ContentInv, TypeOK
  <2>6. QED
    BY <2>1, <2>4, <2>5 DEF ContentInv, Founded, Unfounded
<1>9. QED
  BY <1>1, <1>2, <1>3, <1>4, <1>5, <1>6, <1>7, <1>8 DEF Next

THEOREM ContentInvariant == Spec => []ContentInv
BY ContentInit, ContentStep, PTL DEF Spec

-----------------------------------------------------------------------------
\* Whatever the workflows returned and in whatever order the scripts ran or
\* ran again, the modules are of their types and define each term once
\* (assemble_foundations.js, assemble_wave.js, assemble_teach.js,
\* assemble_jargon.js).
THEOREM ContentGlossarySound == Spec => []GlossarySound
<1>1. ContentInv => GlossarySound
  <2> SUFFICES ASSUME ContentInv PROVE GlossarySound
    OBVIOUS
  <2>1. ASSUME NEW f \in DOMAIN content
        PROVE  DOMAIN content[f].group \cap TermsElsewhere(content, f) = {}
    BY DEF ContentInv, Disjoint, TermsElsewhere
  <2>2. QED
    BY <2>1 DEF ContentInv, GlossarySound, DefinedOnce
<1>2. QED
  BY <1>1, ContentInvariant, PTL

\* As long as no run replaced a module, explanations are laid over terms only,
\* however old the list the teaching workflow worked from (assemble_teach.js).
THEOREM ContentOverlaysHaveTerms == Spec => []OverlaysHaveTerms
<1>1. ContentInv => OverlaysHaveTerms
  BY DEF ContentInv, Resolved, OverlaysHaveTerms
<1>2. QED
  BY <1>1, ContentInvariant, PTL

\* As long as no run replaced a module, no build fails and no published page
\* has a link that opens nothing (build.js, and the link filters of the
\* assembly scripts).
THEOREM ContentPageClean == Spec => []PageClean
<1>1. ContentInv => PageClean
  BY DEF ContentInv, PageClean
<1>2. QED
  BY <1>1, ContentInvariant, PTL

-----------------------------------------------------------------------------
\* A run that writes no file of a jargon prefix changes none.
LEMMA NoJargonWritten ==
  ASSUME NEW files, Write(files), \A f \in DOMAIN files : f[1] \notin Range(JargonPrefix)
  PROVE  ~JargonWritten
<1>1. content' = Over(files, content)
  BY DEF Write, Over
<1>2. ASSUME NEW f \in DOMAIN content', f[1] \in Range(JargonPrefix)
      PROVE  f \in DOMAIN content /\ content'[f] = content[f]
  BY <1>1, <1>2 DEF Over
<1>3. QED
  BY <1>2 DEF JargonWritten

\* A jargon wave gives no name of the glossary another term to lead to: its
\* titles and aliases are names nobody had (assemble_jargon.js).
THEOREM ContentNamesNotHijacked == Spec => NamesNotHijacked
<1> DEFINE Kept == \A name \in Names(content) :
                     Claimants(content', name) \subseteq Claimants(content, name)
<1>1. ASSUME [Next]_vars, JargonWritten PROVE Kept
  <2>1. ASSUME content' = content PROVE FALSE
    BY <1>1, <2>1 DEF JargonWritten
  <2>2. ~AssembleFoundations
    <3> SUFFICES ASSUME AssembleFoundations PROVE FALSE
      OBVIOUS
    <3>1. \A f \in DOMAIN WaveFiles(DemoKeys, 10, FoundationsWave) : f[1] = 10
      BY WaveWrites, PipelineAssumption
    <3>2. QED
      BY <1>1, <3>1, Prefixes, NoJargonWritten DEF AssembleFoundations
  <2>3. ASSUME NEW p \in DOMAIN Waves, AssembleWave(p) PROVE FALSE
    <3>1. \A f \in DOMAIN WaveFiles(Terms(content), p, Waves[p]) : f[1] = p
      BY WaveWrites, PipelineAssumption
    <3>2. QED
      BY <1>1, <2>3, <3>1, Prefixes, NoJargonWritten DEF AssembleWave
  <2>4. ASSUME NEW d \in DOMAIN TeachPrefix, AssembleTeach(d) PROVE FALSE
    <3>1. PICK lost \in LostTopics : Write(TeachFiles(content, d, lost))
      BY <2>4 DEF AssembleTeach
    <3>2. \A f \in DOMAIN TeachFiles(content, d, lost) : f[1] = TeachPrefix[d]
      BY TeachWrites
    <3>3. QED
      BY <1>1, <3>1, <3>2, Prefixes, NoJargonWritten
  <2>5. PICK d \in DOMAIN JargonWaves : AssembleJargon(d)
    <3>1. ~Build /\ ~UNCHANGED vars
      BY <2>1 DEF Build, vars
    <3>2. \A d \in DOMAIN TeachPrefix : ~BuildTeachWave(d)
      BY <2>1 DEF BuildTeachWave
    <3>3. \A d \in DOMAIN JargonWaves : ~BuildJargonWave(d)
      BY <2>1 DEF BuildJargonWave
    <3>4. QED
      BY <1>1, <2>2, <2>3, <2>4, <3>1, <3>2, <3>3 DEF Next
  <2> DEFINE F == JargonFiles(content, d)
  <2>6. content' = Over(F, content)
    BY <2>5 DEF AssembleJargon, Write, Over
  <2>7. \A f \in DOMAIN F : \A n \in F[f].names : n[2] \notin Names(content)
    BY JargonWrites
  <2> HIDE DEF F
  <2>8. ASSUME NEW name \in Names(content), NEW f \in DOMAIN content',
               NEW n \in content'[f].names, n[2] = name
        PROVE  f \in DOMAIN content /\ n \in content[f].names
    BY <2>6, <2>7, <2>8 DEF Over
  <2>9. QED
    BY <2>8 DEF Claimants
<1>2. [Next]_vars => [JargonWritten => Kept]_vars
  BY <1>1
<1>3. QED
  BY <1>2, PTL DEF Spec, NamesNotHijacked
=============================================================================
