-------------------------- MODULE ContentPipeline --------------------------
(***************************************************************************)
(* How the content of the lab is made: scripts/ turn the outputs of        *)
(* authoring workflows into modules under content/, and build.js joins the *)
(* modules into index.html and validates the cross-links.                  *)
(*                                                                         *)
(* Every script first evaluates the modules that exist, decides what to    *)
(* keep of the output it was given, and then writes one file per topic     *)
(* without looking at what the file held.  Nothing else connects the runs: *)
(* they come in any order, days apart, and may be repeated.                *)
(*                                                                         *)
(* A file is named by its prefix and its topic.  A module is what it       *)
(* evaluates to: the topics its cards are stamped with, the topic of each  *)
(* glossary entry, the names and the related links of the entries, and the *)
(* keys it lays an overlay over (enh) or teaches from the ground up.       *)
(***************************************************************************)
EXTENDS Naturals, Sequences, FiniteSets, Functions

CONSTANTS
  Decks,         \* deck -> the set of its topics (DECKS_DATA)
  Sections,      \* topic codes with a display name (SECTIONS_DATA)
  Handwritten,   \* file -> module: what was not assembled by a script
  FoundationsWave, \* the output of the foundations workflow: a sequence of topics
  Waves,         \* prefix -> output of a content workflow
  JargonWaves,   \* deck -> output of its jargon workflow
  TeachPrefix,   \* deck -> prefix of its overlay files
  JargonPrefix,  \* deck -> prefix of its jargon files
  LostTopics,    \* sets of topics whose teaching agent may return nothing
  StrayKeys,     \* keys a teaching agent may make up
  MaxOverwrites  \* how often a script may overwrite a module with another one

VARIABLES
  content,       \* file -> module: the directory content/
  asked,         \* deck -> topic -> keys: the teaching workflow last built
  jargonAsked,   \* decks whose jargon workflow was built
  index,         \* the links of index.html that resolve to no term
  exit,          \* the exit status of the last build
  overwrites     \* history: how many runs changed a module that existed

vars == <<content, asked, jargonAsked, index, exit, overwrites>>

-----------------------------------------------------------------------------
(* What the modules of a directory c evaluate to. *)

Terms(c) == UNION {DOMAIN c[f].group : f \in DOMAIN c}
TermsOf(c, t) == UNION {{k \in DOMAIN c[f].group : c[f].group[k] = t} : f \in DOMAIN c}
Names(c) == UNION {{n[2] : n \in c[f].names} : f \in DOMAIN c}
Links(c) == UNION {c[f].links : f \in DOMAIN c}
Overlays(c) == UNION {c[f].overlays : f \in DOMAIN c}
Taught(c) == UNION {c[f].taught : f \in DOMAIN c}

Dangling(c) == LET known == Terms(c) IN {l \in Links(c) : l[2] \notin known}

-----------------------------------------------------------------------------
(* What a workflow returns is a sequence of topics, each with the keys,    *)
(* titles, aliases and related links of its entries.  Slips the runs must  *)
(* catch stand before the definitions they are slips of.                   *)

TermsUpTo(topics, n) == UNION {topics[i].terms : i \in 1 .. n}

(* The entries of the n-th topic that are kept: not known before, and not  *)
(* in an earlier topic.                                                    *)
KeptTermsOfEach(known, topics, n) == topics[n].terms \ known
KeptTerms(known, topics, n) == topics[n].terms \ (known \cup TermsUpTo(topics, n - 1))

(* The links of kept entries that lead to an id. *)
ResolvingLinks(links, kept, ids) == {l \in links : l[1] \in kept /\ l[2] \in ids}

(* The module of a topic: cards always, entries and links as kept. *)
Stamped(topic, kept, ids) ==
  [secs     |-> {topic.code},
   group    |-> [k \in kept |-> topic.code],
   names    |-> {n \in topic.titles \cup topic.aliases : n[1] \in kept},
   links    |-> ResolvingLinks(topic.links, kept, ids),
   overlays |-> {},
   taught   |-> {}]

(* The files a wave is written to, given the keys that were known. *)
WaveFiles(known, prefix, topics) ==
  LET all == known \cup TermsUpTo(topics, Len(topics))
      Module(n) == Stamped(topics[n], KeptTerms(known, topics, n), all)
  IN  [f \in {<<prefix, topics[n].code>> : n \in DOMAIN topics} |->
         Module(CHOOSE n \in DOMAIN topics : topics[n].code = f[2])]

(* The keys worth an overlay: only terms that exist. *)
AllReturned(returned, known) == returned
KnownReturned(returned, known) == returned \cap known

(* The overlays of the topics whose agent answered. *)
TeachFiles(c, d, lost) ==
  LET known == Terms(c)
      Keys(t) == KnownReturned(asked[d][t] \cup StrayKeys, known)
      Module(t) == [secs |-> {}, group |-> <<>>, names |-> {}, links |-> {},
                    overlays |-> Keys(t), taught |-> Keys(t)]
  IN  [f \in {<<TeachPrefix[d], t>> : t \in {u \in DOMAIN asked[d] \ lost : Keys(u) # {}}} |->
         Module(f[2])]

(* The entries of the n-th record of a jargon output that are kept: the    *)
(* key is new, the title is nobody's name, and no earlier entry kept the   *)
(* key.                                                                    *)
KeptJargonByKey(known, taken, entries, n) ==
  (entries[n].terms \ known) \ UNION {entries[i].terms : i \in 1 .. (n - 1)}
KeptJargon(known, taken, entries, n) ==
  LET Fresh(i) == {k \in entries[i].terms \ known :
                     \A title \in entries[i].titles : title[1] = k => title[2] \notin taken}
  IN  Fresh(n) \ UNION {Fresh(i) : i \in 1 .. (n - 1)}

(* The aliases of kept entries that are nobody's name yet. *)
AllAliases(aliases, kept, taken) == {a \in aliases : a[1] \in kept}
FreeAliases(aliases, kept, taken) == {a \in aliases : a[1] \in kept /\ a[2] \notin taken}

(* The jargon files: kept entries by group, without links to oneself.  An  *)
(* entry carries its own explanation.                                      *)
JargonFiles(c, d) ==
  LET entries == JargonWaves[d]
      known == Terms(c)
      taken == Names(c)
      kept == [n \in DOMAIN entries |-> KeptJargon(known, taken, entries, n)]
      willExist == known \cup UNION Range(kept)
      Of(t) == {n \in DOMAIN entries : entries[n].code = t}
      Keys(t) == UNION {kept[n] : n \in Of(t)}
      NamesOf(n) == {m \in entries[n].titles : m[1] \in kept[n]}
                      \cup FreeAliases(entries[n].aliases, kept[n], taken)
      LinksOf(n) == {l \in ResolvingLinks(entries[n].links, kept[n], willExist) : l[2] # l[1]}
      Module(t) == [secs |-> {}, group |-> [k \in Keys(t) |-> t],
                    names |-> UNION {NamesOf(n) : n \in Of(t)},
                    links |-> UNION {LinksOf(n) : n \in Of(t)},
                    overlays |-> {}, taught |-> Keys(t)]
      codes == {entries[n].code : n \in {i \in DOMAIN entries : kept[i] # {}}}
  IN  [f \in {<<JargonPrefix[d], t>> : t \in codes} |-> Module(f[2])]

-----------------------------------------------------------------------------
(* The keys assemble_foundations.js takes for granted. *)
DemoKeys == {"dual-write-problem", "transactional-outbox", "idempotency", "exactly-once",
             "dead-letter-queue", "change-data-capture"}

(* An output names each topic once: a file is written once by a run. *)
OneFilePerTopic(topics) ==
  /\ topics \in Seq(Range(topics))
  /\ \A i, j \in DOMAIN topics : topics[i].code = topics[j].code => i = j

(* What the scripts take for granted: a prefix belongs to one workflow, and *)
(* the foundations come before the waves; the modules written by hand fit   *)
(* each other, have the keys assumed of them and no other key of the        *)
(* foundations; and there are no terms of a deck that jargon is written for *)
(* before its wave.                                                         *)
ASSUME PipelineAssumption ==
  /\ MaxOverwrites \in Nat
  /\ OneFilePerTopic(FoundationsWave)
  /\ \A p \in DOMAIN Waves : p \in Nat /\ p > 10 /\ OneFilePerTopic(Waves[p])
  /\ \A d \in DOMAIN JargonWaves :
       /\ JargonWaves[d] \in Seq(Range(JargonWaves[d]))
       /\ d \in DOMAIN JargonPrefix
       /\ \A t \in Decks[d] : TermsOf(Handwritten, t) = {}
  /\ ({10} \cup DOMAIN Waves) \cap (Range(TeachPrefix) \cup Range(JargonPrefix)) = {}
  /\ Range(TeachPrefix) \cap Range(JargonPrefix) = {}
  /\ \A f \in DOMAIN Handwritten :
       /\ f[1] # 10
       /\ Handwritten[f].taught \subseteq Handwritten[f].overlays \cup DOMAIN Handwritten[f].group
       /\ \A g \in DOMAIN Handwritten \ {f} :
            DOMAIN Handwritten[f].group \cap DOMAIN Handwritten[g].group = {}
  /\ Dangling(Handwritten) = {} /\ Overlays(Handwritten) \subseteq Terms(Handwritten)
  /\ DemoKeys \subseteq Terms(Handwritten)
  /\ TermsUpTo(FoundationsWave, Len(FoundationsWave)) \cap Terms(Handwritten) \subseteq DemoKeys

Init ==
  /\ content = Handwritten
  /\ asked = [d \in DOMAIN Decks |-> <<>>]
  /\ jargonAsked = {}
  /\ index = {}
  /\ exit = "0"
  /\ overwrites = 0

(* The modules that writing the files replaces with different ones. *)
Replaced(files) == {f \in DOMAIN files \cap DOMAIN content : files[f] # content[f]}

(* writeFileSync of each file, whatever it held. *)
Write(files) ==
  /\ content' = [f \in DOMAIN files \cup DOMAIN content |->
                   IF f \in DOMAIN files THEN files[f] ELSE content[f]]
  /\ overwrites' = overwrites + IF Replaced(files) = {} THEN 0 ELSE 1
  /\ overwrites' <= MaxOverwrites

(* assemble_foundations.js: the first wave, which reads no module. *)
AssembleFoundations ==
  /\ Write(WaveFiles(DemoKeys, 10, FoundationsWave))
  /\ UNCHANGED <<asked, jargonAsked, index, exit>>

Assembled(prefix) == prefix \in {f[1] : f \in DOMAIN content}

(* assemble_wave.js.  Prefixes were given in the order of the waves. *)
AssembleWave(prefix) ==
  /\ \A p \in {10} \cup DOMAIN Waves : p < prefix => Assembled(p)
  /\ Write(WaveFiles(Terms(content), prefix, Waves[prefix]))
  /\ UNCHANGED <<asked, jargonAsked, index, exit>>

Untaught(c, t) == TermsOf(c, t) \ Taught(c)

(* The topics of a deck with something left to teach. *)
UntaughtTopics(c, d) == {t \in Decks[d] : Untaught(c, t) # {}}

(* build_teach_wave.js: asks for every term of the deck not taught yet. *)
BuildTeachWave(d) ==
  /\ asked' = [asked EXCEPT ![d] = [t \in UntaughtTopics(content, d) |-> Untaught(content, t)]]
  /\ UNCHANGED <<content, jargonAsked, index, exit, overwrites>>

(* assemble_teach.js on what the workflow returned, some time later. *)
AssembleTeach(d) ==
  /\ \E lost \in LostTopics : Write(TeachFiles(content, d, lost))
  /\ UNCHANGED <<asked, jargonAsked, index, exit>>

(* build_jargon_wave.js: asks for a fixed list of terms a deck uses, once  *)
(* the deck has content to use them in.                                    *)
BuildJargonWave(d) ==
  /\ {t \in Decks[d] : TermsOf(content, t) # {}} # {}
  /\ jargonAsked' = jargonAsked \cup {d}
  /\ UNCHANGED <<content, asked, index, exit, overwrites>>

(* assemble_jargon.js on what the workflow returned, some time later. *)
AssembleJargon(d) ==
  /\ d \in jargonAsked
  /\ Write(JargonFiles(content, d))
  /\ UNCHANGED <<asked, jargonAsked, index, exit>>

(* A slip: links are looked up among the overlays only. *)
DeadRelatedToOverlays(c) == {l \in Links(c) : l[2] \notin Overlays(c)}

(* The links validate() reports: to neither a term nor an overlay. *)
DeadRelated(c) == LET ids == Terms(c) \cup Overlays(c) IN {l \in Links(c) : l[2] \notin ids}

(* build.js: index.html is written first and validated then. *)
Build ==
  /\ index' = Dangling(content)
  /\ exit' = IF DeadRelated(content) = {} THEN "0" ELSE "1"
  /\ UNCHANGED <<content, asked, jargonAsked, overwrites>>

Next ==
  \/ AssembleFoundations
  \/ \E p \in DOMAIN Waves : AssembleWave(p)
  \/ \E d \in DOMAIN TeachPrefix : BuildTeachWave(d) \/ AssembleTeach(d)
  \/ \E d \in DOMAIN JargonWaves : BuildJargonWave(d) \/ AssembleJargon(d)
  \/ Build

Spec == Init /\ [][Next]_vars

-----------------------------------------------------------------------------
TypeOK ==
  /\ \A f \in DOMAIN content :
       content[f].taught \subseteq content[f].overlays \cup DOMAIN content[f].group
  /\ \A d \in DOMAIN asked : DOMAIN asked[d] \subseteq Decks[d]
  /\ jargonAsked \subseteq DOMAIN JargonWaves
  /\ exit \in {"0", "1"}
  /\ overwrites \in 0 .. MaxOverwrites

TermsElsewhere(c, f) == UNION {DOMAIN c[g].group : g \in DOMAIN c \ {f}}

(* No key is defined by two modules, so the order in which the page loads  *)
(* the modules never decides which entry a learner reads.                  *)
DefinedOnce ==
  \A f \in DOMAIN content :
    DOMAIN content[f].group \cap TermsElsewhere(content, f) = {}

(* The content is sound in whatever order the scripts run: of its types,   *)
(* and with each term defined once.                                        *)
GlossarySound == TypeOK /\ DefinedOnce

(* As long as no run replaced a module, explanations are laid over terms   *)
(* only, however long ago the workflow that wrote them was built.          *)
OverlaysHaveTerms == overwrites = 0 => Overlays(content) \subseteq Terms(content)

(* As long as no run replaced a module, and although each script only saw  *)
(* the modules that existed when it ran, no build fails and no published   *)
(* page has a link that opens nothing.                                     *)
PageClean == overwrites = 0 => index = {} /\ exit # "1"

(* Every card can be found: its topic has a display name and belongs to    *)
(* exactly one deck.  The build does not insist on that.                   *)
CardsReachable ==
  \A f \in DOMAIN content : \A t \in content[f].secs :
    t \in Sections /\ Cardinality({d \in DOMAIN Decks : t \in Decks[d]}) = 1

Claimants(c, name) == {n[1] : n \in {x \in UNION {c[f].names : f \in DOMAIN c} : x[2] = name}}

JargonWritten ==
  \E f \in DOMAIN content' :
    f[1] \in Range(JargonPrefix) /\ (f \in DOMAIN content => content'[f] # content[f])

(* A jargon wave never hijacks a link: no name that leads to a term gets a *)
(* second claimant.                                                        *)
NamesNotHijacked ==
  [][JargonWritten =>
       \A name \in Names(content) :
         Claimants(content', name) \subseteq Claimants(content, name)]_vars

(* A defined term stays defined: earlier waves win, and links to their     *)
(* terms still resolve.                                                    *)
TermsSurvive == [][Terms(content) \subseteq Terms(content')]_vars
=============================================================================
