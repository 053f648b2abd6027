# Engineering Learning Lab: specifications

The Engineering Learning Lab is a single page, `src/src/engine.html`, into which
`src/build.js` injects the content modules. The page is a study tool: flash cards, a glossary,
quizzes, mock exams, spaced repetition, an arcade game and two audio players, all inside one
document, one `#view` element and a handful of global variables. This directory holds TLA+
modules that model the parts of it in which order, time and interleaving decide what is right, and
of the scripts that make its content,
TLC configurations that check them on small instances, and TLAPS proofs of the results that matter
most.

Line numbers below are those of `src/src/engine.html` unless another file is named.

## 1. Inventory

There is one thread. Concurrency comes from elsewhere: `setTimeout` and `setInterval` callbacks,
promises (wake lock, `fetch`, MathJax), speech and audio events, and other tabs of the browser that
share `localStorage`. Nearly every callback reads a global variable that may have been replaced
since it was scheduled, and nearly none is cancelled.

| component | lines | state | operations | what is hard | what makes it correct |
|---|---|---|---|---|---|
| SRS rule | 1547–1553 | an entry per card: box, due, reps, lapses, last | `srsGrade` | limits of the boxes, delay of the new box | every entry is one the rule can write; mastery is earned |
| SRS store | 1542–1563 | `localStorage['ell_srs_v1']`, `_srs` in each tab | load once, grade, save whole | other tabs, failing writes, reloads | a reload loses a suffix of the grades; a miss resurfaces |
| Review session | 1560–1613 | `reviewState` | start, reveal, grade, back | queue grows while walked; parked by `setMode`; Velocity grades the same cards | a completed session recalled its misses and caught up |
| Velocity round | 1624–2271 | `velo`, `veloTimer`, `veloFx` | start, answer, time out, skip, end, again | feedback callbacks of 250–4000 ms that nothing cancels; tabs stay clickable | earned and single banking, lives, timer, no hard lock, an end |
| Velocity progress | 1636–1643 | `localStorage['ell_velo_v1']` | next target, bank | whole-store cache per tab | monotonic progress |
| Recall matcher | 1679–1707 | none | `veloRecallMatch` and helpers | edit-distance bound, early exit, symmetric initials | accepts what the bounded distance accepts |
| Canvas effects, biomes | 1652–1674, 1762–2031 | animation frame | start, burst, die, win, stop | frame callback after stop | calls its end callback |
| Exam allocation | 1339–1368 | local to `buildExam` | share, trim, grow | rounding, thin topics | shares within the cards, the length |
| Exam session | 1396–1514 | `examState`, `examTimer` | begin, choose, next, skip, tick | clock ticks at every render; time-out discards a choice | each question answered once, time is what it says |
| Quiz | 1247–1300 | `quizOrder`, `quizPos`, `quizScore`, `quizAnswered` | choose, next, restart, drawn at every visit | a redraw forgets that the question was answered | a question counts once |
| Study, Explore, Search | 1163–1245, 1516–1533 | index, filters, a debounce | step, flip, filter, search | little | the index stays inside the filtered list |
| Listen | 963–1093 | `listen`, `listenWake`, speech queue | play, pause, next, previous, replay, end | late utterance callbacks against a generation counter; asynchronous wake lock | one voice; a playing session goes on; the lock follows playback |
| Episode player | 1095–1161 | `epAudio`, `epManifest`, `epCardIdx`, `listen` | start, seek, toggle, end, media keys | manifest or failure arrives after the mode was left; keys and abandoned players live on | one player; the screen is of an episode there is; sound stops with the mode |
| Term drawer, auto-linker | 674–753, 755–775, 848–898 | `stack`, the drawer's content | open, back, breadcrumb, close | asynchronous typeset continues on replaced content; the drawer is live while it slides out | the top of the trail is what is shown and linked |
| Tooltip | 900–932 | `ttTimer`, an element | show, hide | a timer, a frame and any number of hide timers race | is of the hovered term, and goes |
| Modes and shell | 934–961, 2273–2288 | `mode` | `setMode`, `render`, `boot` | parked states of all components | leaving a mode stops what it started |
| Build | `build.js` | `index.html` | build, validate | writes first, validates later, with its own idea of what resolves | what is written resolves |
| Content scripts | `scripts/assemble_*.js`, `build_*_wave.js` | files under `content/`, outputs of workflows | build a wave, assemble it | each sees the modules of its moment and overwrites files; re-runs over their own output | terms defined once, links and overlays meet terms, names not hijacked |
| Content modules | `content/` | cards, glossary, overlays, decks | loaded in the order of their names | hundreds of files that refer to each other | every card is in one deck, every link opens a term |
| Audio scripts | `scripts/*.py`, `extract_audio_text.js` | files | extract, synthesise, validate | caches of segments | a manifest fits its recording |

Interactions: Review and Velocity both grade through `srsGrade`; `setMode` parks Review, Velocity,
Exam and Listen and stops only the exam clock and Listen's audio; Velocity's callbacks draw into
`#view` whatever mode is shown by then; the Review badge, Velocity's and Listen's "weak spots" read the
same store. The drawer and the tooltip lie over every mode. The content scripts communicate through the files under `content/` only.

`PROJECT.json` lists every component with its status, and under `hazards` what is hard to test at
the line where it bites, with the property that watches it or the reason why none does yet.

## 2. Modules

| module | models | extends |
|---|---|---|
| `Srs` | the scheduling rule: `srsGrade` on one entry, due and new cards | |
| `SrsLedger` | abstract: what the store promises one learner | `Srs` |
| `SrsStore` | tabs, `_srs`, `localStorage`, failing writes | `Srs`, instantiates `SrsLedger` |
| `ReviewSession` | a review session over the schedule | `Srs` |
| `VelocityRound` | the game, its timer and its callbacks | |
| `Listen` | read-aloud sessions and the wake lock | |
| `ExamAllocation` | `buildExam`'s shares and loops | |
| `ExamSession` | an exam taken under the clock | `ExamAllocation` |
| `Reader` | the term drawer, the linking of its pages, the tooltip | |
| `Shell` | the modes with the quiz, the episodes, and read-aloud sessions coarsely | |
| `ContentPipeline` | the scripts that write and build the content | |
| `ContentModules` | the content of the repository as the pipeline sees it | |
| `SrsStoreProofs`, `ReviewSessionProofs`, `ListenProofs`, `ExamSessionProofs`, `VelocityRoundProofs`, `ShellProofs`, `ReaderProofs`, `ContentPipelineProofs` | theorems | the module they are about (`SrsStoreProofs` also `Srs`) |
| `MCSrsStore`, `MCReviewSession`, `MCVelocityRound`, `MCReader`, `MCContent` | values of constants for TLC | the module they instantiate (`MCContent` also `ContentModules`) |

Operators named for a slip (`RequeuedOnce`, `WinsAgain`, ...) stand before the definition they
distort. No specification uses them; `PROJECT.json` pairs each with the property that must notice it.

### Srs

An entry is a record `[box, due, reps, lapses, last]`; a card without an entry is `Missing`, the
default in `srsGrade`, and is told apart by `reps = 0`, since an entry is stored only after its
first grade. Time is an integer; `Tenth` is `SRS_DAY/10` in that unit, so that 60% and 130% of a number of
days are whole and `Math.round` has nothing to do. `Graded` is the whole of `srsGrade` but
its save. `EntrySound` says which entries the rule can write: box 0 means missed and due again a
minute after, any other box is put off by 60% of a day to 130% of 90 days, and there are at
most two boxes per grade that was not a miss.

### SrsStore and SrsLedger

`disk` is the stored value, `mem[t]` the `_srs` of tab `t`, which `boot` loads through
`updateDueBadge`. `Grade` changes one entry of `mem[t]` and, when `setItem` works, replaces all of `disk` by
`mem[t]`. `storage` is `"ok"`, `"full"` (`setItem` throws, `getItem` works) or `"blocked"` (both
throw; the tab starts empty). `Close` then `Open` is a reload. `lastGrade` is a history variable.

`SrsLedger` states the promise: a schedule in which every grade takes effect at once, and a durable copy
that a save brings wholly up to date or leaves alone, so a restart loses a suffix of the grades and
never some cards' grades and not others'. With one tab, `SrsStore` implements it under
`sched <- Working` (the tab's copy, or the stored one while no tab is open),
`durable <- disk`. With two it does not, which is what `store_stale_tab` shows.

### ReviewSession

`session` is `reviewState` (`NoSession` for null); its fields are the code's. `ReviewQueues` is the
set of queues `buildReviewQueue(false)` may return: the due cards by due time (the sort is stable, so
deck order among equals) and then up to `NewPer` new cards in any order. `Grade` is
`rvGradeAdvance`, `Requeued` the push of a missed card. `SetMode` parks the session, `ExternalGrade` is
Velocity grading a card meanwhile, `Reload` drops the session and keeps the schedule (a reload that
loses saves is `SrsStore`'s subject). `hist` and `started` are history variables.

`#rvLearn` is left out because it cannot be pressed to any effect: it is drawn only when nothing
is due and `Math.min(SRS_NEW_PER, newAvail)` is 0, that is when there is no new card for it.

### VelocityRound

`velo` is the game (`NoGame` for null) without score, streak and combo. `view` is what `#view`
shows, which differs from `mode` when a callback of a game draws while another mode is on. `pending` counts
the outstanding callbacks by kind:

| kind | scheduled by | fires | action |
|---|---|---|---|
| `advance` | right answer, 750–1650 ms | 2164 | `Advance` |
| `miss` | wrong answer with lives left, 1900 ms | 2183 | `Miss` |
| `death` | wrong answer without, 850 ms | 2185 | `Death` |
| `crash` | death sequence, animation or 3300 ms | 2234 | `Crash` |
| `landed` | victory sequence, animation or 4000 ms | 2244 | `Landed` |
| `recover` | the catch block, 250 ms | 2190 | `Recover` |

A callback carries whether its round was a glossary interstitial, which does not consume a card. They
fire in any order, because their delays differ and a background tab throttles them. One that
dereferences a null `velo` throws and is lost. `Render` is `renderVelocity`: the landing page, the summary,
or a round, which picks a question, unlocks it and starts the interval. The question of the card on
turn is kept when it is the one last asked, with the skip mark it may carry. `Answer("time")` is the
interval calling `veloAnswer(-1)`.

`patient`, chosen once from `Patience`, confines the player to quiet moments: two properties
(`WaypointEarned`, `MissedStillQueued`) hold of such a player only, since a tab pressed during
feedback lets one question be answered, and passed, twice. The others hold of every player. `veloAnswer` may throw at any answer, before it did
anything to the game or after it did everything; `threw` is history and says that one has. The callback of the catch block passes the card or leaves the
heart taken, whatever was answered, so these two properties, and in `RoundSound` the end to come, are stated of the time before that. `reached` is `reachedIdx` of the scope in play.

### Listen

`listen` is the session (`NoSession` for null). A *place* is what a chain of callbacks closes over: the generation `g`, the card and
the side being read. `speech` holds the utterances given to `speechSynthesis` with the number of sentences
left after each, `timer` the place a `setTimeout` of `listenPlayCard` will continue; `listen._t` is not cleared when it fires,
but clearing a timer that fired does nothing, so `timer` is what is outstanding. `Speak` is `nxt` of
`listenSpeakSeq`: a sentence is spoken, some of them may throw, or none is left and the pause begins. A command
(`Pause`, `Resume`, `Move` for next and previous, `Replay`, `Exit`, `Leave` for `setMode`) goes through `listenCancel`:
`gen` goes up, `speech` is emptied into `late`, from which `LateEvent` may deliver an end or an error at any
later moment, or never. A long press of a button is two commands.

`wake` is `listenWake`: null, an active lock, or a lock the browser has taken back; `requests` counts
unanswered requests, and `leaked` says that some active lock is named by nobody any more (it was overwritten by a
second grant). `Hide` and `Show` are the page's visibility. `hid` is a history variable.

One assumption is made of the browser: the events of a session that was ended have come before the
learner presses Start again (`late = {}` in `Start`). Without it `OneVoice` fails, because `gen`
starts at 0 again with every session and an old event can then meet its own number. A visible page is granted its
lock; a hidden one is refused.

### ExamAllocation

`Begin` is `buildExam` up to its loops for an arbitrary blueprint (weights and cards per topic),
`Trim` and `Grow` one turn of each loop, `Draw` the rest. The loops exclude each other (`total > n`,
`total < n`), so their order needs no state of its own. The guard of 9999 turns is left out: a turn
changes `total` by one, and the deck is smaller than that. Integer rounding is `Math.round` for
quotients of naturals.

### ExamSession

`exam` is `examState` (`NoExam` for null); of a question only whether it is open, answered right or wrong, or
skipped is kept. `view` is what `renderExam` drew. `#startExam` is one handler, so while the loops of
`buildExam` take their turns (`~built`) nothing else does, and `Open` is its end. `Advance` is both buttons, since Skip keeps a
choice that is marked.

Time runs in half seconds, so that a rendering can fall between two ticks. `clocks` holds the intervals that
run, each with an id and its age; `SetInterval` gives one an id not in use and stores it in `examTimer`,
`Cleared` is `clearInterval(examTimer)`. `StartExamClock` ticks at once and then sets the interval, even when that
first tick found no time left and drew the results: this stray interval is in the model, and fires once. `elapsed` is a history
variable: the time a question was on screen, counted to just past what the exam grants.

Two things are assumed. An interval fires when it is due, as on a page that is shown: in a background tab the browser may delay it,
and then the exam gains that time. And nothing else draws into `#view`: callbacks of a Velocity game left
during feedback, and manifests of episodes, can.

### Reader

`stack` is the trail, `crumbs` what `#crumbs` shows of it, `body` the page in `#drawerBody` with the number of links it has to each
term; `Mentions[t][u]` says how often the page of `t` names `u`, which is all that `autolink` needs to be told of a text. A
page is drawn by `RenderDrawer`. Without MathJax it is linked at once; with it, `typesets` counts the requests under way and `Typeset`
is `done`, which links what the drawer shows by then, skipping the term it was called for. `drawer` is `"closing"` while the panel slides
out: the trail is empty already, and its page and breadcrumbs can still be clicked.

`over` is the link under the mouse, `ttTimer` the pending `showTooltip`, `tip` the element (`display` and
opacity are separate, as in the code), `frame` the frame that makes it opaque, `hides` the timers of
`hideTooltip`, which nothing cancels. `openTerm`'s `reset` is left out: what calls it with `reset` lies under the scrim.
The reader is `patient` or not: a patient one lets a typeset end before asking for the same page again, keeps the mouse a frame where it is,
and has no page redrawn under it.

### Shell

Three modes are told apart: Test, Listen, and any other. `view` is what `#view` shows; what can be clicked is
what is shown, and a callback that draws changes it in any mode. `quiz` holds the four variables of the quiz. An
episode has a `player` (`epAudio`, numbered so that abandoned ones can still report errors), the set `playing`, the
`fetches` whose answer is to come, `manifest`, the card at `currentTime` (`heard`), `epCardIdx` and the card on
screen (`shown`); `due` says that a jump or a pause has queued a `timeupdate`. `media` says that the media keys are handled, which they stay.
A read-aloud session is only whether there is one and whether it speaks; `Listen` has the rest.

A `patient` learner waits for the manifest before leaving or ending an episode, and uses the media keys only in its view. `PatientSoundStops` and
`PatientScreenIsModes` are about such a one; the other properties about everyone. Being patient only restrains what the learner does: the audio of
anyone plays on while the manifest is fetched, from card to card and to its end, and so do its updates and errors.
`misread` is history: the last `timeupdate` came before the manifest and after the first card, so `epOnTime` took the first card for the one
heard. The next update puts that right; an episode that fell silent meanwhile has none to come. `CardIsHeard` makes an exception of that case.

### ContentPipeline and ContentModules

`content` maps a file (prefix and topic) to what its module evaluates to: the topics of its cards, the topic of each entry, the names
and related links of entries, and the keys it overlays and teaches. An action is a run of a script: it evaluates `content`, decides what to keep of a
workflow's output, and writes one file per topic. `asked` is the list of terms a teaching workflow was built with, which may be old
when `AssembleTeach` runs. `index` and `exit` are what the last build wrote and returned. `overwrites` counts the runs that
replaced a module by a different one; the properties that such a run breaks say so.

`ContentModules` has one definition per module of the foundations, frontend and interview waves, their explanations and
their jargon, as keys and as links that leave the module, and the decks and sections. `MCContent` adds a wave still to come, and to the workflows'
outputs what a workflow may return: keys that are taken, links to nowhere, titles and aliases that are someone's name, a key
twice. `ModulesReproduced` compares what the scripts write with what is committed.

Prefixes are given in the order of the waves, so a wave is assembled first after those before it; later runs come in any order.

## 3. Runs

| run | properties | bounds |
|---|---|---|
| `store_one_tab` | `EntriesSound`, `LedgerPromise` | 2 cards, 2 grades each, all storage modes, 3 instants |
| `store_stale_tab` (violation) | `MissResurfaces` | 2 tabs, 2 cards |
| `review` | `QueueSound`, `DoneMeansRecalled`, `DoneMeansCaughtUp`, `NeverBackToBack` | 3 cards, 3 grades each, 2 misses a session, two schedules, one jump of a day |
| `velocity` | `RoundSound`, `MissedStillQueued`, `BankedOncePerGame`, `WaypointEarned`, `NeverHardLocked`, `DeathReachesSummary` | 2 cards, 2 games of 2 hearts, each of 4 answers by a patient player and of 2 by one who is not, any of them throwing, one callback of each kind outstanding |
| `listen` | `OneVoice`, `ReadsWhatIsShown`, `AwakeWhileVisible`, `PlaybackEnds` | queues of 1 and 2 cards, texts of 1 and 2 sentences, commands in 3 generations, any number of sessions, 2 lock requests under way |
| `listen_awake` (violation) | `ScreenKeptAwake` | the same |
| `exam` | `OneClock`, `ClockCoversTime`, `SettledInOrder`, `TimedExamEnds`, `SharesWithinCaps`, `LengthOrTopics`, `HeavierNotShorted` | 1 to 3 topics, weights 1, 2, 5, 1 or 4 cards each; exams of up to 2 questions (`MaxQuestions`) are taken, at 2 seconds each |
| `exam_length` (violation) | `LengthExact` | the same blueprints, lengths 2 and 6, without the session |
| `reader` | `TrailSound`, `PatientPagesLinkedOnce`, `PatientTipIsHovered`, `PageGetsLinked`, `PatientTipGoes` | 3 terms, trails of 3, 2 typesets of a page and 2 hide timers under way |
| `shell` | `EpisodesSound`, `ScoreIsEarned`, `PatientSoundStops`, `PatientScreenIsModes`, `CardIsHeard`, `LoadingEnds` | 2 questions, 2 episodes of 3 cards, scores up to 3 |
| `content` | `GlossarySound`, `OverlaysHaveTerms`, `PageClean`, `CardsReachable`, `ModulesReproduced`, `NamesNotHijacked` | the modules of three waves, two decks taught and with jargon, one later wave; one module-changing overwrite |
| `content_rerun` (violation) | `TermsSurvive` | the same |

`RoundSound`, `TrailSound`, `EpisodesSound` and `GlossarySound` are conjunctions of their module's type invariant and of the
named invariants before them, such as `TimerOnlyOnOpenQuestion` or `ShowsEndOfTrail`; `QueueSound` is one of `CountersAgree`,
`PendingOnce` and `MissedReturns`. The type invariants of the store, Review, Listen and the exam are proved for every instance, so
no run repeats them.

**Why the bounds are enough.** The store needs two cards to tell a save of one entry from a save of all of them,
and a second grade to move an entry that is already there; more grades are covered by the proof.
A review session needs a card that is missed twice (box 0 again after a return), one that is pending
meanwhile, and one graded from outside; cards due together and cards that become due later are in the
second schedule. The Velocity run scales hearts, legs and the gap of 6 to queues of one and two cards, so that
a leg can be shorter or longer than the queue, a missed card lands inside the queue or at its end,
and lives run out before or after the leg does; a second game is there to receive callbacks of the
first. Two answers precede a glossary round, as in the code, so three are the least that show one, which the patient player gives; the
two of the other cost all hearts, and the proofs cover more.
In Listen, two cards and two sentences have every kind of link in the chain, and three generations
let events of two cancelled ones be late at once; the proof covers the rest.
In the exam, one card against four distinguishes thin topics from thick ones, and a length of two
against three topics is the case in which trimming gives up. An exam of two questions at two seconds has a question
before and one after each button, and a clock that runs out in either, at a rendering or
between two; the proof covers longer ones.
In the drawer, a trail of three has a middle to jump to, and a page named twice and one that names itself are what the linker tells
apart; two typesets of one page are the least that link it twice. In `shell`, two questions have a next and a last, three cards a
middle to seek past, and of two players one is abandoned; a score of three is one more than there are questions. The content is the
repository's own; one overwrite is enough to see what it does to the modules that refer to the one replaced.

**Deadlock** is checked in every run. No model stops: the page always has a button.

**Fairness.** `velocity`, `listen`, `exam`, `reader` and `shell` need it: weak fairness of each callback and timer, that is, `setTimeout`
fires what it was given, and of the event that ends an utterance; in `exam`, that time passes and a due interval fires; in `reader`, that frames
come and MathJax answers or rejects every request; in `shell`, that a fetch resolves or rejects. Late events, tabs, buttons, the mouse and the
page's visibility are not fair. The commands of a Listen session are bounded, so `PlaybackEnds` says that a session ends
once the learner leaves it alone. `TimedExamEnds` needs no such bound: every rendering charges a second. Nothing is assumed of the player, nor of `requestAnimationFrame`, whose
end callback and the timeout behind it are the same action in `VelocityRound`.

**Actions** of every module fire in its passing runs: the callbacks of
an abandoned game and of a finished one only for the impatient player of `velocity`.

### What the violations say

- `store_stale_tab`. Tab A is open; tab B records a miss; A grades another card and writes its older copy
  over it. The README of the repository promises a "spaced-repetition scheduler that resurfaces what you
  miss" (`src/README.md:15`); after a reload this one does not.
- `listen_awake`. The learner starts a session and gets the lock, switches to another app and comes back. The browser
  released the lock when the page was hidden, but `listenWake` still names it, so the handler at 1010, written to ask again,
  does not. The page says "we keep your screen awake so playback isn’t cut off" (1051).
  `AwakeWhileVisible` is what does hold.
- `exam_length`. Three topics, two questions asked for: every topic gets at least one (1357), trimming stops at one per topic (1362), and the
  exam has three. The comment says "Guarantees: builds exactly min(n, poolSize) questions" (1340). It is the default exam: "All decks" has 178 topics
  with cards, so each of the three lengths offered builds 178 questions. `LengthOrTopics` is what does hold.
- `content_rerun`. `assemble_wave.js` is run again on the same output. It evaluates `content/` first, finds the keys of its own modules
  known, keeps none of them, and overwrites those modules with ones without a glossary. Its header says "this wave never redefines a prior concept
  (first/earlier wave wins, links still resolve to it)" (`src/scripts/assemble_wave.js:11`); after the second run the links of other waves
  resolve to nothing, and the next build fails after it has written the page.

### Deviations without a run

The models contain these too; the properties are stated around them.

- Velocity, skip (2083, 2108, 2137): Skip marks the question object, which is reused when the same card comes next; from then on every answer to it is
  a miss, although "a correct retrieval is thrust toward the next planet" (2149).
- Velocity, last heart (2165, 2239): a tab pressed in the 850 ms before the death sequence, or during it, reopens the question, and the right answer
  banks the waypoint without a heart left. `WaypointEarned` is what holds.
- Episode (1112, 1118, 1123): while its manifest is fetched `epOnTime` takes every moment for the first card. An episode that fails or ends past
  that card before the manifest comes is then drawn at the first, and no update corrects it. `CardIsHeard` is what holds.
- Drawer (748): a typeset that ends late links the page that is there by then, a second time or with the wrong term skipped, against "everything except the
  current term" (887). `PatientPagesLinkedOnce` and `PageGetsLinked` are what holds.
- Tooltip (912, 919): left within a frame, or with its link redrawn away, it stays on the page. `PatientTipGoes` is what holds.
- Episodes (1113): a manifest that fails draws "not available" over whatever is shown by then and pauses whatever episode plays. (1070): after a
  failure that the learner left by a tab, the Listen tab draws nothing until the page is loaded again. `PatientScreenIsModes` names the second as its exception.
- Quiz (1268): a tab draws an answered question as unanswered, and it counts again. `ScoreIsEarned` says that nothing else makes a question count twice.

## 4. Proofs

The theorems hold for every value of the constants that the named assumptions allow: any number
of cards, tabs, grades, any schedule, any length of session. TLC evaluates the assumptions in the runs.

**SrsStoreProofs.** `BoxDaysValues`, `NextBoxValues` and `DelayValues` expand the rule of `Srs` value by value; `GradedSound`
is the lemma the others rest on: grading a sound or missing entry gives a sound one. `StoreInvariant` proves the inductive `TypeOK /\ EntriesSound`, from which
`StoreTypeCorrect` and `EveryEntrySound` follow. `EntriesSound` has to speak of the tabs' copies as well as of
the stored one, since each overwrites the other. `OneTabIsLedger` is the refinement: with
one tab each action maps to a ledger action or a stutter (`Close` to a restart, `Open` and `StorageChanges` to a
stutter: where storage is blocked nothing was ever stored, so the empty copy a tab opens with is the stored one).

**ReviewSessionProofs.** The inductive invariant adds to the checked properties what they need to hold
together. `GradesOnRecord`: the schedule has counted every grade of the session, and where that grade is still the card's
last and was not a miss, the card has left box 0. `LaterCountsHigher`: a card asked again has a higher count,
so an earlier grade is never taken for the last. `OverdueWaits`: a card that was due when the session
began and has not been graded since is still ahead in the queue. `ReviewQueueSound`, `ReviewEndsRecalled`, `ReviewEndsCaughtUp` follow from it, and so does the
action property `ReviewNeverBackToBack`: two pending cards are different, so the one behind the
current is not the one appended.

**ListenProofs.** The inductive invariant is `TypeOK`, `OneVoice`, `ReadsWhatIsShown` and `LateIsOld`: every event still to come
is of a generation before the session's. That is what the counter is for, and `OneVoice` is not inductive
without it. `SpeakReads` is the lemma all steps that read rest on. `ListenAwakeWhileVisible` adds `AwakeInv`: a
playing session whose page stayed visible has a request under way or the lock.

**ExamSessionProofs.** `OneClock` is what makes a clearing leave no interval at all (`ClearedIsEmpty`). `ClockAhead` is the
strengthening that `ClockCoversTime` needs: while a question is shown, the second under way has been charged already, so the time on
screen is covered up to the age of the interval; and an interval runs for a timed exam only, or its tick would charge
another. `Sound` collects what is kept of the exam itself, and `RenderDraws` is the lemma all steps that draw
rest on.

The same module proves `buildExam` for any blueprint and length (`AllocationInvariant`): `ExamSharesWithinCaps`, `ExamLengthOrTopics`, `ExamHeavierNotShorted`.
Its sum is a fold over a set, of which the provers know nothing. `SumIsCells` gives it a meaning: it is the number of cells below the
graph of the function, so what a sum does becomes a fact about cardinalities (`SumOfOneMore`, `SumGrows`, `SumOfOnes`). The induction behind it is
over sets instead of predicates (`SubsetInduction`, from the well-foundedness of the subset relation). `FirstHasMost` shows that the
scan for the largest value finds it, `RoundedMonotone` that rounding keeps the order of the weights, and `DrawStep` that a stuck pair of loops
has met the length: without slack anywhere the cards are all drawn, and with nothing to trim every topic has one question.
The tie-breaking of the scan plays no part.

**VelocityRoundProofs.** Two invariants. `VelocityInv` holds of every game, whether `veloAnswer` throws or not: the types, the timer on an
open question (`VelocityTimerOnOpenQuestion`), never under the summary or the landing page (`TimerOnScreen`; a tab hides the round and leaves its timer running), the banks of a game
equal to its `_wonFx` (in `GameSound`; `BankedOncePerGame` alone is not inductive), and a
question for every game that is not over (`Asked`). From it follow `VelocityTypeCorrect` and
`VelocityBanksOnce`. `FaultlessInv` adds what holds until `veloAnswer` throws, hence the `~threw` of the other three properties: the
callback of the catch block passes the card, or leaves the heart taken, whatever was answered, so none of the accounts
below survives it. That what was thrown stays thrown (`ThrewStays`) is all the induction needs besides. `OutOfLivesIsEnding` then needs only that no such callback is outstanding (`NoRecovery`).
For a patient player `OneAtATime` says that the one outstanding callback is that of the question that was answered; `OnTurn` that an open
question is of the card on turn; and `Accounts`, stated where the game will be once that callback has fired (`PassedSoon`), that
every card passed has earned a leg or come back (`LegKeepsUp`) and that every missed card is still ahead (`MissedAhead`). At the end of the queue
`LegKeepsUp` is what makes the banked waypoint an earned one. `OutcomeKeepsAccounts` is the lemma about `veloAnswer` itself: for every gap and
every queue the card is put back behind the place the game will be at.

**ShellProofs.** `ShellInv` holds of every learner: a score or a question on screen is of the quiz there is (`QuestionOnScreen`), the menu is drawn only
when there is no session, a text only with its own, an episode only with its manifest, an episode has a player, the card on screen is the
one `epOnTime` saw last (`CardOnScreen`), and a paused episode without a queued update is where `epOnTime` saw it, unless that was a misreading
(`PausedAtCardSeen`), whether the episode is on screen or not, its manifest there or not. `ShellEpisodesSound`, `ShellScoreIsEarned` and
`ShellCardIsHeard` are consequences. `PatientInv` adds two facts that the patient learner's properties need: one fetch is under way at most, that of the last
episode started, and only while that one loads (`OneFetch`), so that a late manifest finds nothing else; and an episode that failed makes no sound
(`SilentWhenUnavailable`). `ShellSoundStops` and `ShellScreenIsModes` follow.

**ReaderProofs.** `TrailSound` needs to know that a drawer that is not closed has a page, whose breadcrumbs can still be
clicked (`PageThere`), and where the tooltip's element is (`TipThere`). For the patient reader `LinkedOnce` speaks of the two states a page can be
in, linked or waiting for the one typeset that will link it (`TypesetsItsPage`), and `TipOnTheWay` of the tooltip in
each of its stages: to come, drawn but not opaque, opaque.

**ContentPipelineProofs.** For any handwritten modules and any outputs of the workflows that `PipelineAssumption` allows, and any order
and repetition of the scripts. The assumption is what the scripts take for granted: an output names a topic once; each workflow has prefixes of its
own; the handwritten modules fit each other, have the keys `assemble_foundations.js` lists and share no others with its wave; and a
deck that jargon is asked for has no handwritten terms. TLC finds it true of the repository's content. Nothing is assumed of the keys, links, titles and aliases a workflow
returns otherwise: they may be taken, repeated or lead nowhere.

`ContentInv` has two clauses that the checked properties lack. The foundations are assembled without a look at what exists, so `Founded` or
`Unfounded` says that they are there as written, and writing them again changes nothing, or that only handwritten modules define a term.
`Resolved` says of `content` what `PageClean` says of the page last built, and that the handwritten terms are still there: a build shows
links that a run wrote days before. `WaveWrites`, `TeachWrites` and `JargonWrites` state what each script writes given the modules it saw, and `OverSeparate`
and `OverResolved` what becomes of a directory that is written over. A wave prunes its links before it has written its terms;
that each of these is indeed written by some topic takes the first topic that has it (`KeptOrKnown`, from `LeastIndex`).
`ContentNamesNotHijacked` needs no invariant: the names a jargon run brings were nobody's when it looked, and only such a run writes under its prefix.
TLC checked `ContentInv` on the instance of `content` before it was proved.

**Model-checked only.** Liveness (`NeverHardLocked`, `DeathReachesSummary`, `PlaybackEnds`, `PageGetsLinked`, `PatientTipGoes`, `LoadingEnds`, `TimedExamEnds`) is
beyond the prover. `CardsReachable` and `ModulesReproduced` are facts about the repository's own decks and modules, which TLC evaluates: no
script enforces the first, and the second compares with what is committed.

## 5. Not modelled, and why

Rendering, SVG, canvas and text formatting keep no state that a property is about. Study, Explore and Search have no interleaving worth a model. The
recall matcher is a set of pure functions on texts, planned below. The content of the other waves has the shape of those modelled; the recordings,
the audio scripts and `fork.js` are input and output. The wake lock of episodes is the one of `Listen` with nothing promised about its release.

## 6. Plan

1. `RecallMatch`: the bounded edit distance and the word matcher as functions over small alphabets,
   against reference definitions.
2. Velocity's callbacks and the exam's clock in `Shell`, so that what draws over what is seen in one model.
