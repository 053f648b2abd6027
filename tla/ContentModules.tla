--------------------------- MODULE ContentModules ---------------------------
(***************************************************************************)
(* The content of the repository as far as the pipeline sees it: one       *)
(* definition per module under content/, with the keys of its glossary     *)
(* entries and those of their related links that leave the module.  Links  *)
(* inside a module, the texts and most of the names are left out.          *)
(***************************************************************************)
EXTENDS TLC

(* What a topic of a content wave or a group of a jargon wave returned. *)
JargonNamed(code, terms, links, titles, aliases) ==
  [code |-> code, terms |-> terms, links |-> links, titles |-> titles, aliases |-> aliases]
Topic(code, terms, links) == JargonNamed(code, terms, links, {}, {})
Jargon(code, terms, links) == Topic(code, terms, links)

(* An overlay module that explains every term of a topic from the ground up. *)
Teaching(topic) ==
  [secs |-> {}, group |-> <<>>, names |-> {}, links |-> {},
   overlays |-> topic.terms, taught |-> topic.terms]

(* A module with nothing but cards. *)
OnlyCards(secs) ==
  [secs |-> secs, group |-> <<>>, names |-> {}, links |-> {}, overlays |-> {}, taught |-> {}]

(* content/00-decks.js *)
AllDecks ==
  "foundations" :> {"FND-BIGO", "FND-DS", "FND-ALGO", "FND-SYS", "FND-CAP", "FND-NET",
       "FND-CONC", "FND-HASH", "FND-CACHE", "FND-LB", "FND-RL", "FND-API"}
  @@ "streaming" :> {"MSG", "DELIV", "DSS-KAFKA", "DSS-PART", "DSS-CONSUMER", "DSS-PROC",
       "DSS-TIME", "DSS-EOS", "DSS-CONSENSUS", "DSS-COORD", "DSS-CLOCK", "DSS-TXN", "DSS-SCALE"}
  @@ "architecture" :> {"EDA", "ARCH-PRINCIPLES", "ARCH-HEX", "ARCH-DDD", "ARCH-MICRO",
       "ARCH-INTEG", "ARCH-RESIL", "ARCH-PATTERNS", "ARCH-EVENTS", "ARCH-CQRS", "ARCH-API",
       "ARCH-SCALE", "ARCH-TRADEOFFS"}
  @@ "databases" :> {"DB-ACID", "DB-ISO", "DB-MVCC", "DB-STORAGE", "DB-INDEX", "DB-QUERY",
       "DB-REPL", "DB-SHARD", "DB-NOSQL", "DB-WIDECOL", "DB-NEWSQL", "DB-MODELING"}
  @@ "jvm" :> {"JVM-MEM", "JVM-GC", "JVM-JMM", "JVM-CONC", "JVM-COLLECT", "JVM-LOOM", "JVM-JIT",
       "JVM-CLASS", "JVM-LANG", "JVM-MODERN", "JVM-PERF", "JVM-IO"}
  @@ "spark" :> {"SPARK-ARCH", "SPARK-RDD", "SPARK-DF", "SPARK-CATALYST", "SPARK-SHUFFLE",
       "SPARK-PART", "SPARK-SKEW", "SPARK-JOINS", "SPARK-MEMORY", "SPARK-AQE", "SPARK-STREAM",
       "SPARK-TUNE"}
  @@ "obs" :> {"OBS-PILLARS", "OBS-METRICS", "OBS-SLO", "OBS-ALERTING", "OBS-SRE",
       "OBS-INCIDENT", "OBS-CHAOS", "SEC-AUTHN", "SEC-AUTHZ", "SEC-CRYPTO", "SEC-APPSEC",
       "SEC-THREAT"}
  @@ "ml" :> {"ML-EMBED", "ML-ANN", "ML-RAG", "ML-RERANK", "ML-SEARCH", "ML-EVALIR", "ML-TRAIN",
       "ML-EVAL", "ML-FEATURE", "ML-XFMR", "ML-MLOPS", "ML-PROMPT"}
  @@ "lakehouse" :> {"MEDALLION", "LAKE-FORMATS", "LAKE-ICEBERG", "LAKE-PARQUET", "LAKE-LAYOUT",
       "LAKE-OLAP", "LAKE-WAREHOUSE", "LAKE-ETL", "LAKE-OPT", "LAKE-ACID", "LAKE-STREAM",
       "LAKE-CATALOG", "LAKE-ENGINE"}
  @@ "cloud" :> {"CLOUD-MODELS", "CLOUD-COMPUTE", "CLOUD-S3", "CLOUD-NETWORK", "CLOUD-IAM",
       "CLOUD-DATA", "CLOUD-STREAM", "CLOUD-MSG", "CLOUD-DB", "CLOUD-IAC", "CLOUD-OPS",
       "CLOUD-WELLARCH"}
  @@ "languages" :> {"PY-DATAMODEL", "PY-GIL", "PY-IDIOMS", "PY-FUNCTIONS", "PY-TYPING",
       "PY-PERF", "PY-GOTCHAS", "SCALA-FP", "SCALA-COLLECTIONS", "SCALA-TYPES", "SCALA-PATTERN",
       "SCALA-CONC"}
  @@ "governance" :> {"GOV-QUALITY", "GOV-CONTRACTS", "GOV-LINEAGE", "GOV-CATALOG", "GOV-MDM",
       "GOV-PRIVACY", "GOV-COMPLIANCE", "GOV-ACCESS", "GOV-DATAOBS", "GOV-MESH", "GOV-METADATA",
       "GOV-OPMODEL"}
  @@ "frontend" :> {"FE-HTML", "FE-CSS", "FE-CSSARCH", "FE-JS", "FE-ASYNC", "FE-TS", "FE-DOM",
       "FE-REACT", "FE-STATE", "FE-PERF", "FE-A11Y", "FE-NET", "FE-SEC", "FE-TEST", "FE-SYSDESIGN"}
  @@ "interview-prep" :> {"IP-LIFECYCLE", "IP-CLEARING", "IP-RECON", "IP-EQUITIES", "IP-CRYPTO",
       "IP-PREDICT", "IP-APIS", "IP-PYTHON", "IP-PANDAS", "IP-SQL", "IP-AUTOSYS", "IP-MARKETS",
       "IP-DATAENG", "IP-SCENARIOS", "IP-BEHAVIORAL", "IP-COMPANY"}

SystemsSections == {"EDA", "MSG", "DELIV", "MEDALLION", "DSS-KAFKA", "DSS-PART", "DSS-CONSUMER",
  "DSS-PROC", "DSS-TIME", "DSS-EOS", "DSS-CONSENSUS", "DSS-COORD", "DSS-CLOCK", "DSS-TXN",
  "DSS-SCALE", "FND-BIGO", "FND-DS", "FND-ALGO", "FND-SYS", "FND-CAP", "FND-NET", "FND-CONC",
  "FND-HASH", "FND-CACHE", "FND-LB", "FND-RL", "FND-API", "DB-ACID", "DB-ISO", "DB-MVCC",
  "DB-STORAGE", "DB-INDEX", "DB-QUERY", "DB-REPL", "DB-SHARD", "DB-NOSQL", "DB-WIDECOL",
  "DB-NEWSQL", "DB-MODELING", "SPARK-ARCH", "SPARK-RDD", "SPARK-DF", "SPARK-CATALYST",
  "SPARK-SHUFFLE", "SPARK-PART", "SPARK-SKEW", "SPARK-JOINS", "SPARK-MEMORY", "SPARK-AQE",
  "SPARK-STREAM", "SPARK-TUNE", "JVM-MEM", "JVM-GC", "JVM-JMM", "JVM-CONC", "JVM-COLLECT",
  "JVM-LOOM", "JVM-JIT", "JVM-CLASS", "JVM-LANG", "JVM-MODERN", "JVM-PERF", "JVM-IO", "ML-EMBED",
  "ML-ANN", "ML-RAG", "ML-RERANK", "ML-SEARCH", "ML-EVALIR", "ML-TRAIN", "ML-EVAL", "ML-FEATURE",
  "ML-XFMR", "ML-MLOPS", "ML-PROMPT", "LAKE-FORMATS", "LAKE-ICEBERG", "LAKE-PARQUET",
  "LAKE-LAYOUT", "LAKE-OLAP", "LAKE-WAREHOUSE", "LAKE-ETL", "LAKE-OPT", "LAKE-ACID",
  "LAKE-STREAM", "LAKE-CATALOG", "LAKE-ENGINE"}

PracticeSections == {"ARCH-PRINCIPLES", "ARCH-HEX", "ARCH-DDD", "ARCH-MICRO", "ARCH-INTEG",
  "ARCH-RESIL", "ARCH-PATTERNS", "ARCH-EVENTS", "ARCH-CQRS", "ARCH-API", "ARCH-SCALE",
  "ARCH-TRADEOFFS", "CLOUD-MODELS", "CLOUD-COMPUTE", "CLOUD-S3", "CLOUD-NETWORK", "CLOUD-IAM",
  "CLOUD-DATA", "CLOUD-STREAM", "CLOUD-MSG", "CLOUD-DB", "CLOUD-IAC", "CLOUD-OPS",
  "CLOUD-WELLARCH", "OBS-PILLARS", "OBS-METRICS", "OBS-SLO", "OBS-ALERTING", "OBS-SRE",
  "OBS-INCIDENT", "OBS-CHAOS", "SEC-AUTHN", "SEC-AUTHZ", "SEC-CRYPTO", "SEC-APPSEC", "SEC-THREAT",
  "PY-DATAMODEL", "PY-GIL", "PY-IDIOMS", "PY-FUNCTIONS", "PY-TYPING", "PY-PERF", "PY-GOTCHAS",
  "SCALA-FP", "SCALA-COLLECTIONS", "SCALA-TYPES", "SCALA-PATTERN", "SCALA-CONC", "GOV-QUALITY",
  "GOV-CONTRACTS", "GOV-LINEAGE", "GOV-CATALOG", "GOV-MDM", "GOV-PRIVACY", "GOV-COMPLIANCE",
  "GOV-ACCESS", "GOV-DATAOBS", "GOV-MESH", "GOV-METADATA", "GOV-OPMODEL", "FE-HTML", "FE-CSS",
  "FE-CSSARCH", "FE-JS", "FE-ASYNC", "FE-TS", "FE-DOM", "FE-REACT", "FE-STATE", "FE-PERF",
  "FE-A11Y", "FE-NET", "FE-SEC", "FE-TEST", "FE-SYSDESIGN", "IP-LIFECYCLE", "IP-CLEARING",
  "IP-RECON", "IP-EQUITIES", "IP-CRYPTO", "IP-PREDICT", "IP-APIS", "IP-PYTHON", "IP-PANDAS",
  "IP-SQL", "IP-AUTOSYS", "IP-MARKETS", "IP-DATAENG", "IP-SCENARIOS", "IP-BEHAVIORAL",
  "IP-COMPANY"}

(* A slip: the sections of the later decks were forgotten. *)
SectionsOfSystems == SystemsSections

AllSections == SystemsSections \cup PracticeSections

(* content/00-demo.js: the vertical slice the engine was first shown with *)
DemoGroup ==
  "dual-write-problem" :> "EDA" @@ "transactional-outbox" :> "EDA" @@ "idempotency" :> "MSG"
  @@ "exactly-once" :> "DELIV" @@ "dead-letter-queue" :> "MSG" @@ "change-data-capture" :> "MSG"

DemoNames ==
  {<<"dual-write-problem", "dual write">>, <<"transactional-outbox", "outbox">>,
   <<"idempotency", "idempotent">>, <<"exactly-once", "exactly once">>,
   <<"dead-letter-queue", "dlq">>, <<"change-data-capture", "cdc">>}

Demo ==
  [secs |-> {"EDA", "DELIV", "MSG"}, group |-> DemoGroup, names |-> DemoNames, links |-> {},
   overlays |-> DOMAIN DemoGroup, taught |-> {}]

(* content/00b-demo-code.js and content/00c-demo-diagrams.js: cards only *)
DemoCode == OnlyCards({"EDA", "MSG", "DELIV"})
DemoDiagrams == OnlyCards({"EDA", "MEDALLION"})

(* Foundations: content/10-*.js *)
FndBigo == Topic("FND-BIGO", {"big-o-notation", "theta-tight-bound", "growth-classes",
  "amortized-analysis", "dynamic-array-doubling", "best-avg-worst", "hash-vs-bst",
  "comparison-sort-bound", "big-o-misleads", "time-vs-space"}, {})
FndDs == Topic("FND-DS", {"dynamic-array", "hash-table", "load-factor", "binary-heap",
  "self-balancing-bst", "b-tree", "cache-locality", "linked-list", "trie"}, {<<"dynamic-array",
  "amortized-analysis">>, <<"hash-table", "amortized-analysis">>, <<"load-factor",
  "amortized-analysis">>, <<"binary-heap", "amortized-analysis">>})
FndAlgo == Topic("FND-ALGO", {"binary-search", "loop-invariant", "quicksort", "mergesort",
  "stability", "counting-radix-sort", "comparison-sort-lower-bound", "divide-and-conquer",
  "dynamic-programming", "greedy", "bfs-dfs", "dijkstra", "two-pointers", "sliding-window"}, {})
FndSys == Topic("FND-SYS", {"horizontal-scaling", "statelessness", "load-balancer", "sharding",
  "replication", "cache", "single-point-of-failure", "latency-numbers"}, {})
FndCap == Topic("FND-CAP", {"cap-theorem", "consistency-availability-partition",
  "linearizability", "sequential-consistency", "causal-consistency", "pacelc", "quorum",
  "eventual-consistency", "vector-clocks", "last-writer-wins", "crdt", "session-guarantees"}, {})
FndNet == Topic("FND-NET", {"tcp-three-way-handshake", "tcp", "udp", "head-of-line-blocking",
  "quic", "tls-handshake", "dns", "ports-and-sockets", "osi-vs-tcp-ip", "http-versions",
  "what-happens-when-you-type-a-url", "sequence-number-and-ack"}, {})
FndConc == Topic("FND-CONC", {"concurrency-vs-parallelism", "race-condition", "critical-section",
  "mutex-vs-semaphore", "deadlock", "atomic-cas", "happens-before", "async-io", "thread-pool",
  "context-switch"}, {})
FndHash == Topic("FND-HASH", {"avalanche-effect", "uniformity", "rehashing", "open-addressing",
  "consistent-hashing", "virtual-nodes", "rendezvous-hashing", "bloom-filter", "hyperloglog",
  "non-cryptographic-hash"}, {<<"uniformity", "load-factor">>, <<"rehashing", "load-factor">>,
  <<"open-addressing", "load-factor">>})
FndCache == Topic("FND-CACHE", {"hit-ratio", "eviction-policy", "cache-aside", "write-policies",
  "cache-invalidation", "cache-stampede", "hot-key", "ttl", "negative-caching"}, {})
FndLb == Topic("FND-LB", {"l4-vs-l7", "lb-algorithms", "health-check", "sticky-sessions",
  "reverse-proxy", "lb-spof", "connection-draining"}, {<<"l4-vs-l7", "consistent-hashing">>,
  <<"lb-algorithms", "consistent-hashing">>, <<"sticky-sessions", "consistent-hashing">>})
FndRl == Topic("FND-RL", {"token-bucket", "leaky-bucket", "fixed-window", "sliding-window-log",
  "sliding-window-counter", "distributed-rate-limiting", "backpressure", "load-shedding",
  "circuit-breaker", "rate-limiting", "throttling"}, {})
FndApi == Topic("FND-API", {"rest-uniform-interface", "http-idempotency", "idempotency-key",
  "cursor-pagination", "grpc-protobuf", "graphql", "websocket", "webhook"},
  {<<"rest-uniform-interface", "statelessness">>, <<"http-idempotency", "statelessness">>,
  <<"idempotency-key", "statelessness">>})

(* Frontend: content/22-*.js *)
FeHtml == Topic("FE-HTML", {"accessibility-tree", "semantic-elements", "document-outline",
  "constraint-validation-api", "label-association", "responsive-images", "native-dialog",
  "shadow-dom", "custom-elements", "template-slot", "iframe-sandbox", "head-metadata",
  "lazy-loading"}, {})
FeCss == Topic("FE-CSS", {"box-sizing", "box-model", "margin-collapsing", "position",
  "containing-block", "stacking-context", "flex-shorthand", "flex-axes", "grid-fr", "bfc"}, {})
FeCssarch == Topic("FE-CSSARCH", {"the-cascade", "specificity", "cascade-layers",
  "custom-properties", "var-fallback", "container-queries", "media-queries", "logical-properties",
  "is-where", "has-selector", "not-selector", "compositor-props", "will-change",
  "css-in-js-runtime", "reduced-motion", "oklch"}, {})
FeJs == Topic("FE-JS", {"this-binding", "hoisting-tdz", "var-let-const", "prototype-chain",
  "class-fields", "es-modules", "shallow-vs-deep-clone", "primitive-vs-reference",
  "type-coercion", "nullish-optional", "garbage-collection"}, {<<"this-binding", "closure">>,
  <<"hoisting-tdz", "closure">>, <<"var-let-const", "immutability">>, <<"es-modules",
  "immutability">>, <<"es-modules", "pure-function">>, <<"shallow-vs-deep-clone",
  "immutability">>, <<"garbage-collection", "closure">>, <<"garbage-collection",
  "immutability">>})
FeAsync == Topic("FE-ASYNC", {"event-loop", "call-stack", "microtask", "macrotask", "promise",
  "async-await", "promise-combinators", "set-timeout-zero", "request-animation-frame",
  "throttle-debounce", "abort-controller", "queue-microtask", "unhandled-rejection",
  "generator-iterator", "single-threaded"}, {})
FeTs == Topic("FE-TS", {"structural-typing", "type-vs-interface", "discriminated-union",
  "narrowing", "type-guard", "keyof", "mapped-type", "conditional-type", "utility-types",
  "unknown-type", "never-type", "type-assertion", "strict-null-checks", "as-const",
  "enum-vs-union", "declaration-merging", "generic-constraint"}, {})
FeDom == Topic("FE-DOM", {"node-vs-element", "live-vs-static", "query-selector", "event-flow",
  "event-delegation", "target-vs-currenttarget", "stop-propagation", "addeventlistener-options",
  "observers", "layout-thrashing", "document-fragment", "request-idle-callback"}, {})
FeReact == Topic("FE-REACT", {"reconciliation", "virtual-dom", "jsx-runtime", "keys",
  "render-commit", "use-effect-vs-layout", "deps-array", "referential-stability",
  "context-rerender", "rules-of-hooks", "use-reducer-pattern", "custom-hook", "server-components",
  "suspense", "concurrent-transition", "key-as-reset", "fiber"}, {})
FeState == Topic("FE-STATE", {"server-state", "client-state", "stale-while-revalidate",
  "query-key", "optimistic-update", "pure-reducer", "redux-toolkit"}, {<<"server-state",
  "cache-invalidation">>, <<"client-state", "selector">>, <<"stale-while-revalidate",
  "cache-invalidation">>, <<"query-key", "cache-invalidation">>, <<"optimistic-update",
  "cache-invalidation">>, <<"optimistic-update", "immutability">>, <<"pure-reducer",
  "immutability">>, <<"redux-toolkit", "immutability">>, <<"redux-toolkit", "normalization">>,
  <<"redux-toolkit", "selector">>})
FePerf == Topic("FE-PERF", {"lcp", "inp", "cls", "core-web-vitals", "critical-rendering-path",
  "render-blocking", "async-defer", "code-splitting", "resource-hints", "font-display",
  "caching-immutable", "service-worker", "lab-vs-field"}, {<<"lcp", "responsive-images">>,
  <<"cls", "responsive-images">>})
FeA11y == Topic("FE-A11Y", {"pour", "wcag-levels", "aria-rules", "accessible-name",
  "name-role-value", "focus-management", "focus-visible", "tabindex", "live-region",
  "aria-describedby", "skip-link"}, {<<"aria-rules", "accessibility-tree">>, <<"name-role-value",
  "accessibility-tree">>})
FeNet == Topic("FE-NET", {"idempotent-method", "safe-method", "cors-preflight",
  "cors-credentials", "samesite-cookie", "http-cache-control", "etag-revalidation", "http3-quic",
  "tls13-handshake", "sse-vs-websocket", "fetch-abortsignal", "rest-vs-graphql"},
  {<<"http-cache-control", "stale-while-revalidate">>, <<"etag-revalidation",
  "stale-while-revalidate">>})
FeSec == Topic("FE-SEC", {"csp", "same-origin-policy", "cors", "dom-purify", "trusted-types",
  "token-storage", "clickjacking", "prototype-pollution", "sri", "supply-chain",
  "security-headers", "dangerously-set-inner-html"}, {<<"csp", "xss">>, <<"same-origin-policy",
  "csrf">>, <<"same-origin-policy", "iframe-sandbox">>, <<"cors", "csrf">>, <<"dom-purify",
  "xss">>, <<"trusted-types", "xss">>, <<"token-storage", "xss">>, <<"token-storage", "csrf">>,
  <<"token-storage", "samesite-cookie">>, <<"clickjacking", "iframe-sandbox">>,
  <<"prototype-pollution", "xss">>, <<"dangerously-set-inner-html", "xss">>})
FeTest == Topic("FE-TEST", {"testing-trophy", "testing-pyramid", "react-testing-library",
  "user-event", "msw", "vite", "esbuild", "swc", "tree-shaking", "hmr", "flaky-test",
  "fake-timers"}, {})
FeSysdesign == Topic("FE-SYSDESIGN", {"hydration", "rsc", "ssr", "csr-spa", "ssg",
  "design-tokens", "list-virtualization", "bff", "optimistic-ui", "islands-architecture"},
  {<<"hydration", "core-web-vitals">>, <<"csr-spa", "core-web-vitals">>, <<"ssg",
  "core-web-vitals">>, <<"list-virtualization", "cursor-pagination">>, <<"list-virtualization",
  "core-web-vitals">>, <<"optimistic-ui", "cursor-pagination">>, <<"optimistic-ui",
  "core-web-vitals">>, <<"islands-architecture", "core-web-vitals">>})

(* Interview preparation: content/23-*.js *)
IpLifecycle == Topic("IP-LIFECYCLE", {"post-trade", "trade-lifecycle", "stp", "t-plus-one",
  "dtcc", "novation", "clearing", "fix-drop-copy", "settlement-fail", "affirmation",
  "prediction-markets", "crypto-settlement"}, {<<"post-trade", "reconciliation">>, <<"stp",
  "reconciliation">>, <<"novation", "reconciliation">>, <<"fix-drop-copy", "reconciliation">>,
  <<"fix-drop-copy", "idempotency">>, <<"settlement-fail", "reconciliation">>,
  <<"prediction-markets", "reconciliation">>, <<"crypto-settlement", "reconciliation">>})
IpClearing == Topic("IP-CLEARING", {"clearing-vs-settlement", "ccp-novation",
  "multilateral-netting", "delivery-versus-payment", "settlement-risk-herstatt",
  "continuous-net-settlement", "fails-to-deliver", "central-securities-depository",
  "reconciliation-breaks", "idempotency-keys", "crypto-onchain-settlement",
  "prediction-market-settlement", "settlement-finality"}, {<<"clearing-vs-settlement",
  "t-plus-one">>, <<"fails-to-deliver", "t-plus-one">>, <<"reconciliation-breaks", "t-plus-one">>,
  <<"reconciliation-breaks", "fix-drop-copy">>, <<"idempotency-keys", "fix-drop-copy">>})
IpRecon == Topic("IP-RECON", {"break", "exception-management", "nostro-vostro", "drop-copy"}, {})
IpEquities == Topic("IP-EQUITIES", {"dtcc-itp", "nscc-cns", "dtc-depository",
  "securities-lending"}, {<<"dtcc-itp", "affirmation">>, <<"nscc-cns", "settlement-fail">>,
  <<"nscc-cns", "reconciliation">>, <<"dtc-depository", "t-plus-one">>, <<"securities-lending",
  "settlement-fail">>, <<"securities-lending", "reconciliation">>})
IpCrypto == Topic("IP-CRYPTO", {"hot-vs-cold-wallet", "mpc-multisig", "custody-crux",
  "reorg-finality", "crypto-recon-challenges", "reconciliation-primitive", "idempotency-pattern",
  "settlement-window-247", "crypto-vs-equities-posttrade"}, {<<"reconciliation-primitive",
  "t-plus-one">>, <<"idempotency-pattern", "fix-drop-copy">>, <<"settlement-window-247",
  "t-plus-one">>, <<"crypto-vs-equities-posttrade", "t-plus-one">>})
IpPredict == Topic("IP-PREDICT", {"binary-event-contract", "resolution", "oracle-risk", "kalshi",
  "polymarket", "cftc-advisory", "multi-platform-arb", "position-keeping", "crypto-post-trade",
  "dtcc-equities-clearing"}, {<<"position-keeping", "reconciliation">>, <<"crypto-post-trade",
  "reconciliation">>, <<"dtcc-equities-clearing", "reconciliation">>})
IpApis == Topic("IP-APIS", {"fix-protocol", "fix-session", "execution-report", "new-order-single",
  "rest-vs-websocket", "client-order-id", "idempotency-key-store"}, {<<"fix-protocol",
  "drop-copy">>, <<"fix-session", "drop-copy">>, <<"execution-report", "drop-copy">>,
  <<"execution-report", "reconciliation">>, <<"rest-vs-websocket", "drop-copy">>,
  <<"client-order-id", "reconciliation">>, <<"idempotency-key-store", "reconciliation">>})
IpPython == Topic("IP-PYTHON", {"decimal-not-float", "backoff-jitter", "dtcc-chain",
  "rest-websocket", "datetime-tz"}, {<<"decimal-not-float", "reconciliation">>,
  <<"backoff-jitter", "idempotency-key">>, <<"dtcc-chain", "t-plus-one">>, <<"dtcc-chain",
  "reconciliation">>, <<"rest-websocket", "fix-drop-copy">>, <<"rest-websocket",
  "idempotency-key">>, <<"rest-websocket", "prediction-markets">>, <<"datetime-tz",
  "t-plus-one">>, <<"datetime-tz", "reconciliation">>})
IpPandas == Topic("IP-PANDAS", {"outer-merge-indicator", "anti-join", "match-key", "dtcc-roles",
  "groupby-agg", "merge-asof", "money-precision", "tz-aware", "performance-large-files",
  "dtypes-ingest"}, {<<"outer-merge-indicator", "reconciliation-primitive">>, <<"match-key",
  "reconciliation-primitive">>, <<"dtcc-roles", "post-trade-lifecycle">>, <<"dtcc-roles",
  "t-plus-one">>, <<"dtcc-roles", "reconciliation-primitive">>, <<"groupby-agg",
  "vectorization">>, <<"money-precision", "reconciliation-primitive">>, <<"tz-aware",
  "reconciliation-primitive">>, <<"performance-large-files", "vectorization">>})
IpSql == Topic("IP-SQL", {"window-function", "running-position", "row-number-dedup",
  "null-semantics", "select-for-update", "prediction-market", "fix-dropcopy"},
  {<<"running-position", "post-trade">>, <<"null-semantics", "anti-join">>, <<"null-semantics",
  "reconciliation">>, <<"null-semantics", "break">>, <<"select-for-update", "idempotency-key">>,
  <<"prediction-market", "post-trade">>, <<"prediction-market", "reconciliation">>,
  <<"fix-dropcopy", "post-trade">>, <<"fix-dropcopy", "idempotency-key">>})
IpAutosys == Topic("IP-AUTOSYS", {"stp-rate", "t-plus-1", "audit-trail"}, {<<"stp-rate",
  "break">>, <<"stp-rate", "reconciliation">>, <<"t-plus-1", "dtcc-chain">>, <<"t-plus-1",
  "break">>, <<"audit-trail", "reconciliation">>, <<"audit-trail", "idempotency-key">>,
  <<"audit-trail", "break">>})
IpMarkets == Topic("IP-MARKETS", {"bid-ask-spread", "order-types", "limit-order-book",
  "market-maker", "post-trade-lifecycle", "realized-unrealized-pnl", "leverage-margin"},
  {<<"order-types", "fix-protocol">>, <<"post-trade-lifecycle", "t-plus-one">>,
  <<"post-trade-lifecycle", "dtcc">>, <<"post-trade-lifecycle", "reconciliation">>,
  <<"realized-unrealized-pnl", "reconciliation">>, <<"leverage-margin", "reconciliation">>})
IpDataeng == Topic("IP-DATAENG", {"kafka-trade-capture", "delivery-semantics", "cdc",
  "dtcc-itp-nscc-dtc"}, {<<"kafka-trade-capture", "idempotent-consumer">>,
  <<"kafka-trade-capture", "oltp-vs-olap">>, <<"delivery-semantics", "idempotent-consumer">>,
  <<"delivery-semantics", "idempotency-key">>, <<"cdc", "oltp-vs-olap">>, <<"cdc",
  "schema-evolution">>, <<"dtcc-itp-nscc-dtc", "t-plus-one">>, <<"dtcc-itp-nscc-dtc",
  "reconciliation">>, <<"dtcc-itp-nscc-dtc", "settlement-fail">>})
IpScenarios == Topic("IP-SCENARIOS", {"trade-reconciliation", "break-exception",
  "canonical-schema", "position-keeper", "trade-correction", "sod-file", "dtcc-pipeline",
  "websocket-rest-ingest"}, {<<"trade-reconciliation", "idempotency-key">>, <<"break-exception",
  "settlement-fail">>, <<"break-exception", "t-plus-one">>, <<"canonical-schema",
  "fix-drop-copy">>, <<"position-keeper", "fix-drop-copy">>, <<"trade-correction",
  "fix-drop-copy">>, <<"sod-file", "crypto-settlement">>, <<"dtcc-pipeline", "t-plus-one">>,
  <<"dtcc-pipeline", "settlement-fail">>, <<"websocket-rest-ingest", "fix-drop-copy">>,
  <<"websocket-rest-ingest", "client-order-id">>, <<"websocket-rest-ingest",
  "crypto-settlement">>, <<"websocket-rest-ingest", "idempotency-key">>})
IpBehavioral == Topic("IP-BEHAVIORAL", {"star-method", "dtcc-affirmation",
  "transferable-primitives"}, {<<"star-method", "idempotency-key">>, <<"star-method",
  "reconciliation">>, <<"star-method", "break-exception">>, <<"dtcc-affirmation", "t-plus-one">>,
  <<"dtcc-affirmation", "reconciliation">>, <<"dtcc-affirmation", "break-exception">>,
  <<"transferable-primitives", "idempotency-key">>, <<"transferable-primitives",
  "reconciliation">>, <<"transferable-primitives", "break-exception">>})
IpCompany == Topic("IP-COMPANY", {"prop-market-making-firm"}, {<<"prop-market-making-firm",
  "prediction-markets">>, <<"prop-market-making-firm", "reconciliation">>,
  <<"prop-market-making-firm", "t-plus-one">>})

(* The jargon of the frontend deck: content/31-jargon-*.js *)
JargonFeHtml == Jargon("FE-HTML", {"seo", "html"}, {<<"seo", "avif">>, <<"seo", "webp">>,
  <<"html", "css">>, <<"html", "api">>, <<"html", "cms">>})
JargonFeCss == Jargon("FE-CSS", {"dpr", "hsl", "css"}, {<<"hsl", "oklch">>, <<"css", "html">>,
  <<"css", "api">>})
JargonFeCssarch == Jargon("FE-CSSARCH", {"bem"}, {<<"bem", "specificity">>})
JargonFeJs == Jargon("FE-JS", {"esm", "cjs", "tdz", "ast", "iife", "lifo", "api"}, {<<"esm",
  "jsx">>, <<"ast", "jsx">>, <<"api", "html">>, <<"api", "css">>, <<"api", "llm">>})
JargonFeDom == Jargon("FE-DOM", {"cssom", "bom", "dom", "ime", "utf"}, {<<"cssom", "fouc">>,
  <<"cssom", "fout">>, <<"bom", "whatwg">>, <<"bom", "w3c">>, <<"dom", "jsx">>, <<"dom",
  "prototype-pollution">>, <<"ime", "html">>, <<"ime", "css">>, <<"utf", "html">>})
JargonFeReact == Jargon("FE-REACT", {"jsx", "cra"}, {<<"jsx", "dom">>, <<"jsx", "esm">>, <<"jsx",
  "ast">>, <<"cra", "swr">>, <<"cra", "e2e">>})
JargonFeState == Jargon("FE-STATE", {"fsm", "crud", "rtk", "swr"}, {<<"fsm", "hydration">>,
  <<"crud", "url">>, <<"swr", "e2e">>, <<"swr", "cra">>})
JargonFePerf == Jargon("FE-PERF", {"fid", "cwv", "ttfb", "fcp", "tbt", "rum", "foit", "fout",
  "fouc", "tti", "avif", "webp", "gpu"}, {<<"fid", "inp">>, <<"fid", "lcp">>, <<"cwv", "lcp">>,
  <<"cwv", "inp">>, <<"ttfb", "lcp">>, <<"fcp", "lcp">>, <<"tbt", "inp">>, <<"tbt", "lcp">>,
  <<"rum", "lcp">>, <<"rum", "inp">>, <<"foit", "lcp">>, <<"fout", "cssom">>, <<"fouc", "cssom">>,
  <<"fouc", "csr">>, <<"tti", "hydration">>, <<"avif", "seo">>, <<"webp", "seo">>})
JargonFeA11y == JargonNamed("FE-A11Y", {"wcag", "aria", "wai-ara", "wai", "a11y", "ada", "nvda",
  "jaws", "apg", "apca", "uia", "accname", "cjk"}, {<<"wcag", "pour">>, <<"ada", "pour">>,
  <<"apca", "pour">>, <<"cjk", "i18n">>, <<"cjk", "l10n">>}, {<<"aria", "aria">>, <<"wai-ara",
  "wai-aria">>}, {<<"aria", "wai-aria">>, <<"wai-ara", "wai-aria">>})
JargonFeNet == Jargon("FE-NET", {"url", "uri", "xhr", "mime", "jsonp", "sni", "rfc", "llm"},
  {<<"url", "cors">>, <<"url", "sop">>, <<"xhr", "cors">>, <<"xhr", "sop">>, <<"mime", "sop">>,
  <<"mime", "cors">>, <<"jsonp", "cors">>, <<"jsonp", "sop">>, <<"sni", "coop">>, <<"sni",
  "coep">>, <<"sni", "sri">>, <<"rfc", "sso">>, <<"rfc", "w3c">>, <<"rfc", "whatwg">>, <<"rfc",
  "idn">>, <<"llm", "api">>, <<"llm", "html">>})
JargonFeSec == Jargon("FE-SEC", {"sop", "coop", "coep", "idn", "sso", "hsts", "xfo", "cms"},
  {<<"sop", "cors">>, <<"sop", "xhr">>, <<"sop", "mime">>, <<"sop", "jsonp">>, <<"coop", "sni">>,
  <<"coop", "sri">>, <<"coep", "sni">>, <<"coep", "sri">>, <<"idn", "rfc">>, <<"sso", "rfc">>,
  <<"sso", "sni">>, <<"hsts", "clickjacking">>, <<"xfo", "clickjacking">>, <<"cms", "html">>,
  <<"cms", "api">>})
JargonFeTest == Jargon("FE-TEST", {"rtl", "e2e", "cdp"}, {<<"rtl", "msw">>, <<"e2e", "swr">>,
  <<"e2e", "cra">>})
JargonFeSysdesign == Jargon("FE-SYSDESIGN", {"csr", "spa", "mfe", "mvc", "w3c", "whatwg", "i18n",
  "l10n"}, {<<"csr", "ssr">>, <<"csr", "ssg">>, <<"csr", "rsc">>, <<"csr", "fouc">>, <<"spa",
  "ssr">>, <<"spa", "ssg">>, <<"spa", "rsc">>, <<"mfe", "ssr">>, <<"mvc", "ssr">>, <<"w3c",
  "rfc">>, <<"w3c", "wcag">>, <<"whatwg", "rfc">>, <<"whatwg", "wcag">>, <<"i18n", "cjk">>,
  <<"l10n", "cjk">>})

(* The jargon of the interview deck: content/33-jargon-*.js *)
JargonIpClearing == Jargon("IP-CLEARING", {"nscc", "dtc", "ccp", "csd", "itp", "cns", "ftd",
  "cusip", "isin", "t-plus-2", "dvp", "pvp", "fcm", "reg-sho"}, {<<"nscc", "dtcc">>, <<"dtc",
  "dtcc">>, <<"ccp", "dtcc">>, <<"itp", "dtcc">>, <<"itp", "oms">>, <<"itp", "ems">>, <<"cns",
  "dtcc">>, <<"ftd", "eod">>, <<"ftd", "stp">>, <<"ftd", "t-plus-1">>, <<"cusip", "eod">>,
  <<"cusip", "stp">>, <<"isin", "stp">>, <<"t-plus-2", "t-plus-1">>, <<"t-plus-2", "stp">>,
  <<"dvp", "t-plus-1">>, <<"dvp", "stp">>, <<"pvp", "t-plus-1">>, <<"pvp", "stp">>, <<"fcm",
  "dcm">>, <<"fcm", "finra">>, <<"fcm", "sipc">>, <<"reg-sho", "reg-nms">>, <<"reg-sho", "nbbo">>,
  <<"reg-sho", "finra">>, <<"reg-sho", "sipc">>})
JargonIpRecon == Jargon("IP-RECON", {"sod", "eod", "tca", "mtm", "nostro", "vostro"}, {<<"sod",
  "oms">>, <<"sod", "ems">>, <<"sod", "itp">>, <<"sod", "dtc">>, <<"eod", "stp">>, <<"eod",
  "ftd">>, <<"eod", "t-plus-1">>, <<"eod", "cusip">>, <<"tca", "vwap">>, <<"tca", "twap">>,
  <<"tca", "cdc">>, <<"mtm", "vwap">>, <<"mtm", "ohlcv">>})
JargonIpEquities == Jargon("IP-EQUITIES", {"finra", "sipc", "reg-nms", "fok", "gtc", "tif"},
  {<<"finra", "reg-sho">>, <<"finra", "fcm">>, <<"sipc", "fcm">>, <<"sipc", "reg-sho">>,
  <<"reg-nms", "nbbo">>, <<"reg-nms", "reg-sho">>, <<"fok", "lob">>, <<"gtc", "lob">>, <<"tif",
  "lob">>})
JargonIpCrypto == Jargon("IP-CRYPTO", {"usdc", "usdt", "cex", "dex", "mpc", "amm", "mev", "defi",
  "genius-act"}, {<<"usdc", "dcm">>, <<"mev", "lob">>})
JargonIpPredict == Jargon("IP-PREDICT", {"cftc", "dcm"}, {<<"cftc", "sec">>, <<"cftc", "ftd">>,
  <<"dcm", "fcm">>, <<"dcm", "nbbo">>, <<"dcm", "reg-nms">>, <<"dcm", "usdc">>})
JargonIpApis == Jargon("IP-APIS", {"fix", "oms", "ems"}, {<<"fix", "itp">>, <<"oms", "sod">>,
  <<"oms", "itp">>, <<"ems", "itp">>})
JargonIpSql == Jargon("IP-SQL", {"cte"}, {})
JargonIpMarkets == Jargon("IP-MARKETS", {"sec", "nbbo", "lob", "otc", "vwap", "twap", "ohlcv"},
  {<<"sec", "cftc">>, <<"sec", "ftd">>, <<"sec", "t-plus-1">>, <<"nbbo", "reg-nms">>, <<"nbbo",
  "reg-sho">>, <<"lob", "fok">>, <<"lob", "gtc">>, <<"lob", "tif">>, <<"lob", "mev">>, <<"otc",
  "mev">>, <<"otc", "amm">>, <<"vwap", "tca">>, <<"vwap", "mtm">>, <<"twap", "tca">>, <<"ohlcv",
  "mtm">>})

(* The ground-up explanations, one overlay per term of the topic: content/30-teach-*.js *)
TeachFeHtml == Teaching(FeHtml)
TeachFeCss == Teaching(FeCss)
TeachFeCssarch == Teaching(FeCssarch)
TeachFeJs == Teaching(FeJs)
TeachFeAsync == Teaching(FeAsync)
TeachFeTs == Teaching(FeTs)
TeachFeDom == Teaching(FeDom)
TeachFeReact == Teaching(FeReact)
TeachFeState == Teaching(FeState)
TeachFePerf == Teaching(FePerf)
TeachFeA11y == Teaching(FeA11y)
TeachFeNet == Teaching(FeNet)
TeachFeSec == Teaching(FeSec)
TeachFeTest == Teaching(FeTest)
TeachFeSysdesign == Teaching(FeSysdesign)

(* The ground-up explanations, one overlay per term of the topic: content/32-teach-*.js *)
TeachIpLifecycle == Teaching(IpLifecycle)
TeachIpClearing == Teaching(IpClearing)
TeachIpRecon == Teaching(IpRecon)
TeachIpEquities == Teaching(IpEquities)
TeachIpCrypto == Teaching(IpCrypto)
TeachIpPredict == Teaching(IpPredict)
TeachIpApis == Teaching(IpApis)
TeachIpPython == Teaching(IpPython)
TeachIpPandas == Teaching(IpPandas)
TeachIpSql == Teaching(IpSql)
TeachIpAutosys == Teaching(IpAutosys)
TeachIpMarkets == Teaching(IpMarkets)
TeachIpDataeng == Teaching(IpDataeng)
TeachIpScenarios == Teaching(IpScenarios)
TeachIpBehavioral == Teaching(IpBehavioral)
TeachIpCompany == Teaching(IpCompany)

-----------------------------------------------------------------------------
(* The modules of each wave, in the order of the topics of its deck. *)

FoundationTopics == <<FndBigo, FndDs, FndAlgo, FndSys, FndCap, FndNet, FndConc, FndHash, FndCache,
  FndLb, FndRl, FndApi>>
FrontendTopics == <<FeHtml, FeCss, FeCssarch, FeJs, FeAsync, FeTs, FeDom, FeReact, FeState,
  FePerf, FeA11y, FeNet, FeSec, FeTest, FeSysdesign>>
InterviewTopics == <<IpLifecycle, IpClearing, IpRecon, IpEquities, IpCrypto, IpPredict, IpApis,
  IpPython, IpPandas, IpSql, IpAutosys, IpMarkets, IpDataeng, IpScenarios, IpBehavioral,
  IpCompany>>
FrontendJargon == <<JargonFeHtml, JargonFeCss, JargonFeCssarch, JargonFeJs, JargonFeDom,
  JargonFeReact, JargonFeState, JargonFePerf, JargonFeA11y, JargonFeNet, JargonFeSec,
  JargonFeTest, JargonFeSysdesign>>
InterviewJargon == <<JargonIpClearing, JargonIpRecon, JargonIpEquities, JargonIpCrypto,
  JargonIpPredict, JargonIpApis, JargonIpSql, JargonIpMarkets>>

(* The overlay module of each topic. *)
FrontendTeaching ==
  "FE-HTML" :> TeachFeHtml @@ "FE-CSS" :> TeachFeCss @@ "FE-CSSARCH" :> TeachFeCssarch @@ "FE-JS"
  :> TeachFeJs @@ "FE-ASYNC" :> TeachFeAsync @@ "FE-TS" :> TeachFeTs @@ "FE-DOM" :> TeachFeDom @@
  "FE-REACT" :> TeachFeReact @@ "FE-STATE" :> TeachFeState @@ "FE-PERF" :> TeachFePerf @@
  "FE-A11Y" :> TeachFeA11y @@ "FE-NET" :> TeachFeNet @@ "FE-SEC" :> TeachFeSec @@ "FE-TEST" :>
  TeachFeTest @@ "FE-SYSDESIGN" :> TeachFeSysdesign

InterviewTeaching ==
  "IP-LIFECYCLE" :> TeachIpLifecycle @@ "IP-CLEARING" :> TeachIpClearing @@ "IP-RECON" :>
  TeachIpRecon @@ "IP-EQUITIES" :> TeachIpEquities @@ "IP-CRYPTO" :> TeachIpCrypto @@ "IP-PREDICT"
  :> TeachIpPredict @@ "IP-APIS" :> TeachIpApis @@ "IP-PYTHON" :> TeachIpPython @@ "IP-PANDAS" :>
  TeachIpPandas @@ "IP-SQL" :> TeachIpSql @@ "IP-AUTOSYS" :> TeachIpAutosys @@ "IP-MARKETS" :>
  TeachIpMarkets @@ "IP-DATAENG" :> TeachIpDataeng @@ "IP-SCENARIOS" :> TeachIpScenarios @@
  "IP-BEHAVIORAL" :> TeachIpBehavioral @@ "IP-COMPANY" :> TeachIpCompany
=============================================================================
