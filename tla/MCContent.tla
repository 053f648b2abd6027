----------------------------- MODULE MCContent -----------------------------
(***************************************************************************)
(* ContentPipeline over the content of this repository: the foundations,   *)
(* the frontend and the interview waves, their teaching and jargon waves   *)
(* and one wave of the same kind still to come.                            *)
(***************************************************************************)
EXTENDS ContentPipeline, ContentModules

(* Keys of the other waves that entries of these ones relate to. *)
OtherKeys == {"closure", "immutability", "pure-function", "xss", "csrf", "selector",
              "normalization", "idempotent-consumer", "schema-evolution", "oltp-vs-olap",
              "vectorization"}
OtherWaves == [OnlyCards({}) EXCEPT !.group = [k \in OtherKeys |-> "OTHER"]]

MCHandwritten ==
  <<0, "demo">> :> Demo @@ <<0, "demo-code">> :> DemoCode
  @@ <<0, "demo-diagrams">> :> DemoDiagrams @@ <<11, "other waves">> :> OtherWaves

(* A workflow knows nothing of the other modules, so its output may also   *)
(* hold keys that are taken and links that lead nowhere.                   *)
WithExtras(topics, code, keys, links) ==
  [n \in DOMAIN topics |->
     IF topics[n].code # code THEN topics[n]
     ELSE [topics[n] EXCEPT !.terms = @ \cup keys, !.links = @ \cup links]]

FrontendReturned ==
  WithExtras(FrontendTopics, "FE-SEC", {"xss", "async-await", "cap-theorem"},
             {<<"xss", "csp">>, <<"csp", "no-such-term">>})

(* A later wave on React: one new term, one that exists, a dead link. *)
LaterReact == Topic("FE-REACT", {"react-compiler", "closure"},
                    {<<"react-compiler", "no-such-term">>, <<"react-compiler", "immutability">>})

MCWaves == 22 :> FrontendReturned @@ 23 :> InterviewTopics @@ 34 :> <<LaterReact>>

(* What else the jargon workflow may return: a term that exists, one whose *)
(* title is another term's name, one key twice, an alias that is taken.    *)
JargonExtras ==
  JargonNamed("FE-SEC", {"cors", "outbox-pattern", "a11y"},
              {<<"outbox-pattern", "a11y">>}, {<<"outbox-pattern", "outbox">>}, {})
FrontendJargonReturned ==
  [n \in DOMAIN FrontendJargon |->
     IF FrontendJargon[n].code # "FE-STATE" THEN FrontendJargon[n]
     ELSE [FrontendJargon[n] EXCEPT !.aliases = {<<"swr", "idempotent">>},
                                    !.links = @ \cup {<<"swr", "swr">>,
                                                      <<"swr", "outbox-pattern">>}]]
  \o <<JargonExtras>>

MCJargonWaves == "frontend" :> FrontendJargonReturned @@ "interview-prep" :> InterviewJargon
MCTeachPrefix == "frontend" :> 30 @@ "interview-prep" :> 32
MCJargonPrefix == "frontend" :> 31 @@ "interview-prep" :> 33
MCLostTopics == {{}, {"FE-REACT"}}
MCStrayKeys == {"no-such-term"}

-----------------------------------------------------------------------------
(* The modules as they stand in the repository. *)
CommittedWave(prefix, topics) ==
  [f \in {<<prefix, topics[n].code>> : n \in DOMAIN topics} |->
     LET topic == CHOOSE m \in Range(topics) : m.code = f[2]
     IN  [secs |-> {topic.code}, group |-> [k \in topic.terms |-> topic.code], names |-> {},
          links |-> topic.links, overlays |-> {}, taught |-> {}]]
CommittedJargon(prefix, topics) ==
  [f \in {<<prefix, topics[n].code>> : n \in DOMAIN topics} |->
     LET topic == CHOOSE m \in Range(topics) : m.code = f[2]
     IN  [secs |-> {}, group |-> [k \in topic.terms |-> topic.code],
          names |-> topic.titles \cup topic.aliases,
          links |-> topic.links, overlays |-> {}, taught |-> topic.terms]]
CommittedTeaching(prefix, teaching) ==
  [f \in {<<prefix, t>> : t \in DOMAIN teaching} |-> teaching[f[2]]]

Repository ==
  CommittedWave(10, FoundationTopics) @@ CommittedWave(22, FrontendTopics)
  @@ CommittedWave(23, InterviewTopics)
  @@ CommittedJargon(31, FrontendJargon) @@ CommittedJargon(33, InterviewJargon)
  @@ CommittedTeaching(30, FrontendTeaching) @@ CommittedTeaching(32, InterviewTeaching)

(* The scripts are what made the repository: run on what the workflows      *)
(* returned, with the keys that were taken and the links that led nowhere, *)
(* in any order the waves allow and as long as no run replaced a module,   *)
(* they write the modules that are committed under content/.               *)
ModulesReproduced ==
  overwrites = 0 /\ ~Assembled(34) =>
    \A f \in DOMAIN content \cap DOMAIN Repository : content[f] = Repository[f]
=============================================================================
