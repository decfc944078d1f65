# Verification of the address structuring service

TLA+ models of the ISO 20022 address structuring program: the gRPC server with
its pool of worker processes, and the pipeline each worker runs (loading of the
gazetteers, CRF, fuzzy and postcode matching, post-processing). The models are
checked with TLC on small instances. Every safety property that a run checks is also
proved with TLAPS (worker pool, request path with its refinement, pipeline, postcodes,
database, CRF and spans, post-processing), for every number of workers and calls,
every batch size, every gazetteer and table of postcodes, every CRF and every
address. Liveness is model-checked only.

Paths below are relative to `src/`. The exact correspondence, definition by
definition, is the `map` of `PROJECT.json`.

- [The system](#the-system)
- [Modules](#modules)
- [Runs, bounds, fairness](#runs)
- [Theorems](#theorems)
- [Where code and documentation disagree](#where-code-and-documentation-disagree)
- [What is not modelled](#what-is-not-modelled)
- [Plan](#plan)

## The system

A client streams addresses to `ProcessAddress`. The servicer collects them into
one task, makes a pipe, puts the task into a bounded multiprocessing queue and
waits for the answer on the pipe. One of `pipeline_max_instances` worker
processes takes the task, runs the pipeline over its addresses and sends back
the results. A monitor starts the workers, watches their health events, kills
the stalled ones and replaces the dead ones; the health endpoint runs the same
detection without replacing anybody.

```
 client --stream--> AddressStructuringServicer --task, write end--> input queue
    ^                       |     ^                                    |
    +-------- reply --------+     +------- pipe (result) ------ WorkerProcess
                                                                 |        ^
 HealthServicer --handle_health_check--> WorkerMonitor <--events-+        |
 run_server ----handle_shutdown-------->       +----- start, kill, replace+

 WorkerProcess: AddressStructuringPipeline.run
   read, validate, clean, batch --> RunnerCRF --> RunnerFuzzyMatch, RunnerPostcodeMatch
                                      --> RunnerPostProcessing --> result
```

| Component | State it keeps | Operations | What is hard about it | What makes it correct |
|---|---|---|---|---|
| `grpc_api/server/worker_monitor.py`, shutdown in `run_server.py` | pool of processes, health queue, map of last events, starting and shutting-down flags | initial spawn, wait for readiness, periodic check, health check, replacement, shutdown | two coroutines work on the same pool; events of dead processes, reused process ids, failing starts, closed processes | no worker is lost or shared; broken slots recover; only stalled workers are killed; health tells the truth |
| `server/worker_process.py` | its pipeline, the current task | load, poll, run, send, report | killed at any point, with a lock, a task or half a message in hand | a task runs at most once, its caller hears of it |
| `server/address_structuring_servicer.py`, `process_address_tasks.py` | per call: samples, pipe, task | collect, enqueue, await, receive, clean up | two timeouts, cancellation, a full queue, late results, blocking reads | one answer per call, no pipe end left open but where a worker dies over it, the queue drains |
| `data_structuring/pipeline.py` | the batch at hand in a chain of generators | validate, clean, batch, tag, join, yield | four iterators joined by position, lazily; failure in the middle | each result belongs to its sample; none is missing |
| `components/models/crf_base.py`, `crf_with_marginal.py`, `transformer_crf.py` | parameters | Viterbi, forward, backward, marginals | padding and masks, indices at both ends | the best path and exact marginals |
| `components/models/utils.py`, `details.py` | - | group BIO tags into spans | borders, strict mode | spans tile the text and follow the tags |
| `components/runners/runner_crf.py` | - | group predictions and probabilities by tag | sums and means over rows and borders | a confidence is the probability of its tag |
| `components/post_code_matching/`, `runner_postcode_match.py`, `preprocessing/preprocess_geonames_postcodes.py` | dictionaries and regular expressions per group of countries | prepare, search, look up | matches that run into each other, optional separators, listed part and structure | what is found stands in the text, what stands there is found |
| `components/fuzzy_matching/`, `runner_fuzzy_match.py` | gazetteers | scan a text, choose which extended towns to look for | order of scans, sets of strings | what is suggested or found opens its towns |
| `components/runners/runner_post_processing.py`, `post_processing/` | a combination generator that outlives a sample | filter, flag, score, combine | suggestion handling, flags that depend on ranks and on each other, deduplication | the suggestion is honoured, the best pair is kept, no pair is one place |
| `config.py` | weights, thresholds, limits | - | signs and scales | - |
| `components/database.py`, `data_provider/` | gazetteers, loaded once | read, group, merge | rows in no order, names that share aliases, three sources | the most populous town stands for its name, whatever came last |
| `components/runners/result_processing.py`, reply of the servicer | - | the i-th best country and town | two lists joined by position | the halves of a pair fit |
| readers, tokenizer, export of results, command line, other preprocessing, infrastructure | little or none | sequential conversion and I/O | - | - |

`PROJECT.json` lists every component with its status, and the hazards of each
with the line where it bites and the properties that watch it.

## Modules

| Module | Models | Used by |
|---|---|---|
| `WorkerPool` | `WorkerMonitor`, the life of a `WorkerProcess`, shutdown | `MCWorkerPool`, `WorkerPoolProofs` |
| `RpcLifecycle` | abstract: what `ProcessAddress` promises its callers | refined by `RequestPath` |
| `RequestPath` | servicer, input queue, pipes, workers as takers of tasks | `MCRequestPath` |
| `Postcodes` | postcode files, regular expressions, search in a text | `Pipeline` |
| `Pipeline` | `AddressStructuringPipeline.run` as one generator chain | `Structuring` |
| `Database` | the tables of towns made of geonames, same names and OpenStreetMap | `Structuring` |
| `Structuring` | loads the database, then runs the pipeline; composes the two | `MCPipeline` |
| `Crf` | operators of `BaseCRF`, `CRF`, `CRFSecondOrder` | `TransformerCrf` |
| `BioSpans` | grouping of tags into spans | `TransformerCrf` |
| `TransformerCrf` | `predict_tags` around the networks, `RunnerCRF.tag`, and the properties of the decoding | `MCTransformerCrf` |
| `Lists` | filtering and sorting a list, in a form the prover can use | `Postcodes`, `BioSpans`, `FuzzyScan`, `MatchFlags`, `Combinations` |
| `FuzzyScan` | what a scan makes of occurrences; which gazetteers are scanned | `PostProcessing` |
| `Scores` | `ScoreComputer` with the default weights | `MatchFlags`, `PostProcessing` |
| `MatchFlags` | all flags of the post-processing | `PostProcessing` |
| `Combinations` | `CombinationGenerator` | `PostProcessing` |
| `PostProcessing` | the generator over the samples, composing the four above, and the reply | `MCPostProcessing`, data in `MCGazetteer` |
| `WorkerPoolProofs`, `RequestPathProofs`, `PipelineProofs`, `DatabaseProofs`, `TransformerCrfProofs`, `PostProcessingProofs` | - | the theorems on the module of the name (`PipelineProofs` and `DatabaseProofs` on `Structuring`) |
| `SequenceFacts` | - | lemmas on queues, parts of sequences, filters, sorting, recursion, folds and sums; used by the proofs |
| `CombinationsProofs` | - | lemmas on `Combinations`, used by `PostProcessingProofs` |

The `MC*` modules hold only the instances: small gazetteers, inputs and symmetry
sets. Definitions under a comment `Mutant:` are variants of the definition
beside them, wrong in the way a slip in the code would be; `PROJECT.json`
pairs each with a property that fails when it takes the place of the original.
No specification uses them.

### WorkerPool

*State.* `pool` is `_pipeline_processes`; a slot holds a process id, `Unused`
(the initial spawn has not come this far) or `Closed` (a `Process` object whose
`close()` has run). `known` and `seen` are the keys and the ages of
`_last_worker_health_event`; `pending` and `sent` say which ids have events in
the health queue and how old the newest is, which is all that draining lets one
see. `proc` is the operating system's view of an id; ids are reused.

*Steps.* All coroutines of the monitor share one event loop and none of its
loops over the pool awaits anything. So `turn` names the loop that occupies the
event loop, `slot` its index, `detected` its count, and one step is one
iteration: workers interleave between any two steps, other coroutines do not.
`SpawnInitial`, `Settle`, `InitialCheck`, `AwaitReady`, `AllReady` are the
startup of `_monitor_workers`; `MonitorWake` starts a cycle; `PassSlot`,
`KillSlot`, `ReplaceSlot`, `ReplaceFails` are the branches of
`_detect_dead_workers`, for the cycle and for the health check; `Shutdown` is
`handle_shutdown`. Starting a process can fail.

*Time.* `Tick` ages every event by one unit and may not pass the end of a sleep
of the monitor or of the idle wait of a worker. Ages are capped just above the
largest bound they are compared with, so nothing is lost by the cap.

*External.* A kill takes no time and succeeds; when the server exits, the
interpreter joins the workers that are left, which are not daemons.

### RequestPath and RpcLifecycle

`rpc` is where the coroutine of a call stands; `queue` the multiprocessing
queue, with the entries its feeder thread still has to pickle; `reader` and
`writers` are the open ends of each pipe, `worker` and `task` the processes,
`rlock` the lock of the queue's readers. `processed` and `unclaimed` are history:
the calls whose run has completed, and those whose write end no worker lived to
fetch. The semantics of `multiprocessing.Queue` and `Pipe` come from their use in the code
and are marked external in the map: an entry is pickled by a thread after
`put_nowait` has returned (and dropped if its pipe is closed by then), the
descriptor is duplicated on the way and the duplicate kept by the server's
resource sharer, a reader holds the queue's lock while it
polls, and a process killed with the lock takes it along (`Lost`).
`get()` reads the bytes of an entry and releases place and lock (`Take`); only then
does it unpickle them (`Unpickle`), for which the worker fetches the descriptor from
the resource sharer, which closes its duplicate. A worker killed in between
(`Killed` while `unpickling`, `KilledWithEntry` before the lock is released) never
asks for it, and the duplicate stays.
A result larger than the pipe arrives in two parts, and `recv()` holds the event
loop between them; all actions of coroutines are guarded by `LoopFree`.

A call that ends before its task is queued is `refused`: for a slow or vanished
client, a full queue, or a `Pipe()` that raises `OSError` (`PipeFails`). From
`put_nowait` to `add_reader` no coroutine but its own runs (`registering`). An
`OSError` of `add_reader` or `recv` (`PipeError`) gives the same `INTERNAL`, but by
then the task is in the queue or with a worker, and is still run.

`RpcLifecycle` knows calls only: opened, accepted or refused, processed at
most once and not if refused, answered once, `OK` only after processing. `RequestPath` implements
it (`ImplementsLifecycle`) under a mapping of the coroutine's position to a phase.

### Postcodes, Pipeline, Database, Structuring

`run` is a chain of lazy generators, so `phase` is where the one thread of
control stands: reading samples into a batch, tagging the batch, yielding its
results one by one. `batch` keeps the samples the other three iterators of the
`zip` have yet to give, `tagged` the sentences for which `predict_tags` gave a
result. A sample is an identity, a size and its text after cleaning.

`Postcodes` works on characters, because classes of characters are what the code
matches: `Dictionary` and `RegexList` are what `preprocess_geonames_postcodes.py`
writes for a group of countries (all but six countries share one), `Shape` is the
regular expression of a postcode, `Matched` the class sequences it stands for
(each separator may be missing, by `Kept`), `FindIter` is `re.finditer` (leftmost, longest,
no overlaps) and `ListedPart` the `re.findall` that leaves off what the country's
structure adds. An outcome of `PostProcess` carries the matches of its text.
Three consequences of the code are visible in the model: a code with a separator
before what the structure adds never matches (`48190-000`, `D02 X285`); nor does a
text without the separator of a listed code, because the dictionary is asked for
the text as it stands; and of two postcodes of one shape that overlap only the
left one is found.

`Database` reads the sources in the order of `_load_all_data`. `todo` holds the
names whose rows are still to be entered, in any order, as `group_by` keeps none;
of rows with equal population any may be the first of its group. A name is a
sequence of words and separators, so `Duplicates` and `SaintVariants` do what
`normalization.py` does; transliteration has happened before. `towns`,
`population`, `largest` and `extended` are the attributes of the database.
Two more consequences: a variant of a name of OpenStreetMap may be entered
although the base has it, since only the name itself is filtered (`san-marino`
brings people to `san marino`); and Saint variants are not made for
OpenStreetMap, whose names are in lower case by then.
`full_all_possibilities_town` is never read and left out.

`Structuring` puts the constructor before the requests: `Load`, then `Serve`.

### Crf, BioSpans, TransformerCrf

Potentials are natural numbers: products for sums of logarithms, sums for
`logsumexp`, so marginals are compared without division and without rounding.
The recursions are recursive functions over positions, the loops over runs of tags
recursive functions over their number, with `WithEntity` and `WithRun` as loop
bodies. `TransformerCrf` has the
steps of `predict_tags` and of the grouping, one sentence at a time, padded to
`SeqLen`. For sentences without the strict mode `GroupPredictions` is the loop body
of `RunnerCRF.tag`: spans by tag, each with the sum of its probabilities (the code
divides by the length), and zeros for kept tags without a span. The reference is the sum or the maximum over all paths.

### FuzzyScan, Scores, MatchFlags, Combinations, PostProcessing

A text is a number of positions and of line breaks; an occurrence of a place is
data of the sample (found by `cdist` or `find_near_matches`). Everything made of
it is modelled: the order of a scan, exact matching for short keys, which
extended gazetteers are opened, the union of their towns when a name occurs in
several, each flag, each filter, scores, sorting and deduplication.
`_fuzzy_match_country_towns` iterates over a set of strings, whose order
differs between processes, so `FuzzyMatches` is a set of outcomes.

`Lists` has `Kept` (a list comprehension with a condition) and `Arranged` (a stable
sort). They are used instead of `SelectSeq` and `SortSeq`, because those take an
operator and no prover here can say anything about such a parameter: `Kept` is
given the indices that stay, `Arranged` the set of elements before each.

Scores are whole percents, weights hundredths. Log-odds are tabulated for a grid of
percentages that holds all thresholds of the code; the CRF score of a match is
rounded down to the grid before it is weighted, and so is the final score. The
comparison with a threshold adds no further error, but a score near the next grid
point may stay below a threshold that the code's exact score reaches. The order of the
steps and the relations of the scores, which the properties are about, do not
depend on it.

`ReasonableMistakes` asks whether the text of a match occurs in one prediction of the
other tag. A prediction is given as the places whose text occurs in it, so the same
text elsewhere counts, and a match that goes over two predictions does not.

The actions `ScoreCountries`, `MergeMatches`, `FlagMatches`, `CombineMatches`
are the sections of the loop body; `Reply` is what the servicer makes of the
result: the pairs of the i-th country and the i-th town. `suggested` and `force` are the fields of the
combination generator, which keeps its values between samples.

## Runs

| Run | Asks | Instance | Distinct states, time with 2 workers |
|---|---|---|---|
| `pool_safety` | is the pool intact under every interleaving? | 2 slots, 3 process ids, stall timeout 2 | 265 564, 9 s |
| `pool_recovery` | does a broken slot recover, and serve again? | 2 slots, 2 ids, startup timeout 1 | 50 s |
| `pool_shutdown_skips` | does the shutdown stop every worker? (no) | 2 slots, 2 ids | |
| `pool_ready_wait` | does the wait for readiness end? (no) | 2 slots, 2 ids | |
| `path_safety` | tasks and pipes; is the lifecycle implemented? | 3 calls, 2 workers, queue of 2, large results, failing pipes, deaths everywhere | 366 467, 40 s |
| `path_progress` | is every call answered, does the queue drain? | 2 calls, 2 workers, queue of 2, failing pipes | 46 922, 60 s |
| `path_worker_error` | does the caller learn that its worker died? (no) | 2 calls, 1 worker | |
| `path_blocked_loop` | is every call answered if a worker dies while it sends? (no) | 2 calls, 1 worker | |
| `post_processing` | suggestion, pairs, flags, reply | 1536 samples over a gazetteer of 4 countries and 5 towns, 2 results | 77 384, 25 s |
| `crf` | decoding, marginals, spans, confidences | 4 characters, 4 tags, 2 models | 6 121, 45 s |
| `crf_empty_text` | spans of an empty text (wrong) | lengths 0 and 1 | |
| `pipeline` | loading, alignment, postcodes, failure, reading ahead | 20 rows of towns, ties included; at most 5 samples, batches of 2; about 2000 texts over 12 postcodes | 77 401, 120 s |

Why the bounds are enough to be interesting:

- *Pool.* Two slots give a loop a slot it has passed and one it has not reached,
  which is what the races with a dying worker need. A third id lets a
  replacement get a fresh id while an event of the old one is still in the
  queue; two ids force the reuse of ids. The stall timeout (2) is longer than the
  check interval and the idle interval (1), so a lively worker passes several
  checks and a silent one is caught. `pool_recovery` has startup timeouts that
  expire together, so that the timeout and the initial check race.
- *Path.* Three calls and a queue of two make the queue overflow; two workers let
  a killed one and a live one compete for the lock and for tasks. Large results
  take two parts, which covers small ones for every property but the blocked
  loop. `path_progress` leaves out deaths of workers in the middle of sending,
  and only these: `path_blocked_loop` shows that one of them stops the server.
- *Post-processing.* In the gazetteer a code and an alias of country A stand
  inside the name of country B (A, BET in BETA), as does a town (ETA); a country
  and a town share name and place (ALPHA); a province has a key as short as a
  code (AB); a town with a separator has a second spelling in the extended data
  of two countries (SAINT-X); a third country is always opened (C).
  Texts are combined with heads, tags and suggestions (none, known, unknown,
  forced or not).
- *CRF.* Four positions are the first, the last, and two in between; lengths 1
  to 4 give every amount of padding. Under the neutral model every sequence of
  tags is the decoded one for some sentence, so the grouping sees all of them;
  under the biased model the best path is not the best tag of each character.
- *Pipeline.* Five samples in batches of two are two full batches and an
  incomplete one; up to two odd samples put every kind at every place. The
  postcodes are of every group, some with one shape and common digits (196, 964,
  481 ..), and texts are all of up to three pieces of them, so that codes stand
  alone, overlap, lack separators or have them in the wrong place.
- *Database.* Three spellings of Saint Denis share variants with each other and
  with an alias of Paris; Hull is a tie between countries; Paris is in two countries; Monaco has no
  people in geonames and shares its country's name. In OpenStreetMap a name is
  filtered for each reason the code has, one has the wrong distance, one a
  variant that the base has, and one is admitted by a country group.

Deadlock is checked except in `path_safety` and `path_progress`: there, once all
calls have ended, workers may have nothing to do for ever because the lock of
the queue died with one of them.

### Fairness

- *Pool.* Weak fairness of the loop that occupies the event loop (synchronous
  code goes on), of the initial check (its timer is due), of loading and of
  heartbeats of a live worker. Strong fairness of the monitor's wake-up, of time
  and, per slot, of a successful start. asyncio serves callbacks in order, so
  health checks cannot starve the monitor; a start may fail, but not for ever.
  No fairness forces a worker to die, to stall or to finish a task.
- *Path.* Strong fairness of both timeouts: a due timer is served although
  other calls keep the loop busy. Weak fairness of the feeder thread, of the
  resource sharer (in `Unpickle`), of a coroutine that awaits nothing, of the
  second half of a receive and of each step of a worker; that a run ends is
  justified by the monitor, which kills and replaces a stalled worker. Strong
  fairness of polling by some worker: they are not all killed before they poll,
  for ever. Nothing is assumed about clients.
- *Pipeline.* Weak fairness of the two halves of the generator chain, which is
  sequential code; none for loading, nothing asks that it ends.

### What the properties say

`WorkerPool`: `EveryProcessHasOneSlot` (no worker lost or shared),
`ServesOnlyWhenAllReady`, `StalledWorkerIsSilentOrUnread` (who is killed as
stalled), `HealthAnswerMatchesPool`,
`CompletedCycleRestoresPool`, `SurvivorsStandBehindAClosedSlot` (how far a
shutdown gets), `BrokenSlotRecovers`, and `RecoveryReachesService`: if workers stop
dying and load within the stall timeout, the checks do not keep a slot from
serving. Its condition is not idle: a replacement has a timestamp from its
start, so one that loads for longer is killed while it loads, again and again.

`RequestPath`: `TaskIsInOnePlace`, `OnlyUnclaimedEndsStayOpen` (a call that is over
and whose task is nowhere leaves no end of its pipe open, except for the duplicate
that a worker was killed before fetching, which stays for good),
`ImplementsLifecycle`, `EveryCallIsAnswered`, `QueuedTaskLeavesQueue`,
`BlockedSenderFinishes`.

`Structuring`: `EachResultIsOfItsSample` (and none is missing), `FailureCostsItsBatch`,
`ReadAheadIsBounded`, `EveryRunEnds`; `PostcodesAreThoseOfTheText`, a specification of
the search that knows no regular expressions but for the exception of an
overlapping match to the left; `MostPopulousTownWins`, the tables in closed form,
whatever the order of rows. The mutant of the first property
is instructive: with an empty text the CRF returns too many tags (see below),
and giving it the none it should have would make `predict_tags` leave the
sentence out and shift all later results of its batch.

`TransformerCrf`: `BestPathIsDecoded`, `MarginalsAreExact`,
`NormaliserCountsEveryPath` (without second-order transitions, whose numerator
and normaliser differ in the code), `SpansTileTheText`, `SpansFollowTheTags`,
`StrictSpansAreEntities`, `ConfidenceIsTheProbabilityOfItsTag` (against sums over paths).

`PostProcessing`: `ForcedSuggestionIsTheOnlyCountry`, `SuggestedCountryIsOffered`,
`SuggestionOpensItsTowns`, `NoMatchIsLost`, `BestPairIsKept`,
`RepliedPairsFit` (the two lists of a result agree position by position, no pair
is one place, the best pairs are replied), `SupportIsMutual`, `NestedCountryIsNoAnswer`.

## Theorems

| Theorem | States | For every |
|---|---|---|
| **`WorkerPoolProofs`** | | number of slots, finite set of ids, timing |
| `TypeCorrect` | `Spec => []TypeOK` | |
| `ProcessesHaveOneSlot` | `Spec => []EveryProcessHasOneSlot` | |
| `StalledMeansSilentOrUnread` | `Spec => StalledWorkerIsSilentOrUnread` | |
| `ShutdownReachesAClosedSlot` | `Spec => []SurvivorsStandBehindAClosedSlot` | |
| `ServesOnceReady` | `Spec => ServesOnlyWhenAllReady` | |
| `HealthAnswerIsThePool` | `Spec => []HealthAnswerMatchesPool` | |
| `CycleRestoresThePool` | `Spec => []CompletedCycleRestoresPool` | |
| **`RequestPathProofs`** | | set of calls and of workers, queue size |
| `TypeCorrect` | `Spec => []TypeOK` | |
| `OnePlaceForEachTask` | `Spec => []TaskIsInOnePlace` | |
| `OnlyUnclaimedEndsStay` | `Spec => []OnlyUnclaimedEndsStayOpen` | |
| `PathImplementsLifecycle` | `Spec => ImplementsLifecycle` | |
| **`PipelineProofs`** | | batch size, length limit, set of requests, table of postcodes |
| `PipelineTypeCorrect` | `StructuringSpec => []TypeOK` | |
| `ResultsBelongToTheirSamples` | `StructuringSpec => []EachResultIsOfItsSample` | |
| `OneSampleCostsItsBatch` | `StructuringSpec => []FailureCostsItsBatch` | |
| `PostcodesStandInTheirText` | `StructuringSpec => []PostcodesAreThoseOfTheText` | |
| `OneBatchAhead` | `StructuringSpec => []ReadAheadIsBounded` | |
| **`DatabaseProofs`** | | set of rows, order of reading |
| `LargestTownForEachName` | `StructuringSpec => []MostPopulousTownWins` | |
| **`TransformerCrfProofs`** | | set of BIO tags, CRF, padding, text with characters |
| `ComputedFromInvariant` | `Spec => []ComputedFrom` | |
| `CrfTypeOK` | `Spec => []TypeOK` | |
| `DecodesBestPath` | `Spec => []BestPathIsDecoded` | |
| `DetailsTileTheText` | `Spec => []SpansTileTheText` | |
| `DetailsFollowTheTags` | `Spec => []SpansFollowTheTags` | |
| `StrictDetailsAreEntities` | `Spec => []StrictSpansAreEntities` | |
| `MarginalsCountPaths` | `Spec => []MarginalsAreExact` | |
| `NormaliserCountsPaths` | `Spec => []NormaliserCountsEveryPath` | |
| `ConfidenceCountsPaths` | `Spec => []ConfidenceIsTheProbabilityOfItsTag` | |
| **`PostProcessingProofs`** | | gazetteer, set of samples, number of results |
| `MatchesAreScored` | `Spec => []TypeOK` | |
| `NoOtherCountryIsAnswered` | `Spec => []ForcedSuggestionIsTheOnlyCountry` | |
| `TheSuggestionIsOffered` | `Spec => []SuggestedCountryIsOffered` | |
| `TheSuggestionOpensItsTowns` | `Spec => []SuggestionOpensItsTowns` | |
| `EveryMatchIsAnswered` | `Spec => []NoMatchIsLost` | |
| `TheBestPairIsKept` | `Spec => []BestPairIsKept` | |
| `ThePairsOfTheReplyFit` | `Spec => []RepliedPairsFit` | |
| `SupportGoesBothWays` | `Spec => []SupportIsMutual` | |
| `ANestedCountryIsNoAnswer` | `Spec => []NestedCountryIsNoAnswer` | |

Each property follows from an inductive invariant that was model-checked first.
The weights and thresholds of the post-processing are those of the code; they are
not parameters.

### Worker pool

*Assumptions.* `PidsAssumption` (finitely many ids, none of them a marker of a
slot), `SlotsAssumption` (at least one slot), `TimesAssumption` (times are
naturals, the two intervals positive) and `IdleAssumption` (an idle worker
reports at least as often as the stall timeout expects, or there is no stall
timeout). `config.py` does not enforce the last one; its defaults (10 s and 600 s) satisfy it.

*Argument.* Each property follows from an inductive invariant:

- `TypeInv`: the types and `CountInv`, that a loop has counted at most the slots
  it has passed, without which `detected` might leave its range.
- `SlotInv`: the property together with `SpawnInv`, that during the initial
  spawn the slots before the loop's index hold processes and the others are
  `Unused`, so that the spawn overwrites no slot that holds a process.
- `ReportInv`: for a worker that has loaded and is in the map, the map holds the
  age of its newest event unless an event of it is still pending; and an idle
  worker's newest event is never older than the idle interval, because time may
  not pass the end of its wait. A stalled worker with nothing pending is
  therefore silent, and an idle one is not stalled.
- `FillInv` (after the spawn every slot has been used) and `LoadedInv`: while
  the server starts, every id in the map or the queue is of a worker that has
  loaded, and until the first check that has to clear something no slot is closed. The wait ends when the map has N ids;
  `KnownFillsPool` is the pigeonhole argument that N distinct ids in N slots
  are all of them (cardinalities from `FiniteSetTheorems`).
- `LoopInv`: while a loop is at a slot, `detected` is the number of the slots
  before it that hold no process (`CountOneMore` adds one to the cardinality),
  and in a cycle there are none. Both answers follow at the end of the loop.
- `ShutdownInv`: when `handle_shutdown` ends, it has passed all slots or stands
  at a closed one.

### Request path

*Assumptions.* `QueueAssumption` (the queue has room for a task) and
`NamesAssumption` (the markers are no workers and no calls).

*Argument.*

- `TypeInv`: the types, and `TaskInv`: a live worker has a task exactly while it
  is at work, without which a worker might run no task.
- `PlaceInv`: the queue has no entry twice, no two live workers hold one task, a
  queued task is with no worker and has not been run, a worker that runs a task
  is the first to do so, and nothing of this before the call has submitted it.
  `TaskIsInOnePlace` counts both and follows with two cardinalities of at most one.
- `PipeInv`: the server's two ends are open exactly from the submission of the
  task to the end of its call, the duplicate only while the queue entry is there, a
  worker is about to fetch it, or none lived to do so, and the end of a
  worker only while that worker runs the task or sends. The ends are closed
  by a different line on every path (answer, timeout, cancellation, full queue,
  error of the pipe, failed run, death), so this is where a forgotten `close()`
  would show. That a worker about to fetch a descriptor finds it there, and that
  an unclaimed one belongs to a task that is gone, is part of it.
- `MessageInv`: what stands in a pipe is the result of a run that has completed.
  With `PlaceInv`, by which a refused call has left no task behind, this is what the
  refinement needs. A call that failed later has left one.
- `PathImplementsLifecycle` maps the position of the coroutine to a phase; most
  steps of queue and workers stutter. `StepImplements` names for each action the
  abstract one it implements, under the four invariants.

### Pipeline and database

*Assumptions.* `SizesAssumption` (batches are not empty, two characters fit),
`InputsAssumption` (a request is a sequence of samples, a text a sequence),
`PostcodeRowsAssumption` (all columns are read as strings) and
`RowsAssumption` (populations are naturals; no row of geonames has the name that
stands for no town: the code would overwrite its countries with that marker and
keep its population).

*Argument.* `PlaceOfSamples`: each sample has its result, is in the batch or is
unread, in this order, and the CRF results are those of the batch, position by
position. The step that matters is `PredictTags`: `NoSentenceIsLeftOut` shows that it
has tags for every sentence (also for an empty one, by the accident described
[below](#where-code-and-documentation-disagree)), so the positions agree.
`BatchesInv` says that all batches are full but the last, from which the number of
results a failure leaves follows by division; `ChecksInv` says what has passed the
checks and, after a failure, which sample of the batch did not.

*Postcodes.* The property names only what stands in the text; regular expressions
occur in it for the exception, a match of the same shape to the left. Between them
and the code stand two searches and a dictionary:

- `MatchedClasses`: what a shape matches has all its letters and digits, in as many
  places, and is no longer than the shape (from `KeptPicks`). So of two matched
  prefixes of one text neither goes on with a letter or a digit (`GoesOnWithMore`).
- `StructuresOf`: what completes the postcodes of a group has one length and begins with a
  letter or a digit, or is empty. By both, `ListedPartOf`: the second search, for the
  listed part within the match, finds the part that made the match, never one more
  separator. The code takes the first result of `findall` without checking this.
- `FindIterIs` unfolds the search: it goes on at the start or at the end of a match
  that began earlier, hence a match that could begin at a place is given unless a match
  from the left reaches over it.
- `FoundStands` and `StandingIsFound` are the two halves of the property. In the second
  the postcode itself is the longest match at its place (`CodeMatches`), because nothing
  its shape matches is longer and all completions are equally long. A country whose
  structures differed in length would break both halves.

*Database.* `DbInv` is `MostPopulousTownWins` for the rows entered so far, for each of the two
sources, with what the merge needs: which names have entries in which table, and
that the country of a name is among its countries. Rows of equal population come
in no order the code controls, so of equals either country may stand for the name;
the property says so (of the rows with the most people *some* row gives the
country), and `MCPipeline` has such rows.

### CRF and spans

*Assumptions.* `SeqLenAssumption` (padding to two positions or more),
`SentencesAssumption` (finitely many BIO tags, potentials are naturals, no sentence is
longer than its padding) and, as hypothesis of all but the first theorem,
`EveryTextHasCharacters`: of an empty text they are false, as `crf_empty_text` shows.

*Decoding.* The scores of `viterbi_decode` bound every path and the decoded path
reaches them. `ScoresOfTags`, `TagsDecoded` and `PotentialsAlong` unfold the three
recursive definitions (with `Recursion`, and the least position that would go wrong).
`PathsBelowScores`: up to each position no path is worth more than the score of its
tag there, as the score is a maximum over predecessors and multiplication with a
natural keeps order. `DecodedScores`: the decoded path is worth exactly its scores,
since each of its tags is the predecessor that the maximum was taken from (`History`).
`ScoresSettle`: from the last character on the mask keeps the scores, so the last row is
that of the last character, and the tag that is best there with the end potential is
best of all (`DecodedIsBest`).

*Spans.* `GroupedToRuns`: the runs of equal tags tile the text, each has one BIO tag
and neighbours differ (from `KeptPicks`). `RunAdded` and `EntityAdded` are the loop
bodies of `_get_span` and `_get_strict_span`: both keep `Tiles`, the first also
`Follows`. For the strict mode the invariant needs how far behind the spans may be,
`Behind`: at most at the end of the run, and not past its start if the run is B-*, so
that what the next entity pads lies before it. `StrictDetails` shows both inclusions:
two runs that make an entity can be extended to neither side (`RunsMakeLongest`), and
every longest entity is made of two runs that are neighbours (`LongestAreOfRuns`, with
`RunsCover` for the run at its first character).

*Sums over paths.* The references of the marginals are sums over all paths, of which
there are finitely many (`FinitelyManyPaths`). `SequenceFacts` has what is needed of
sums, by the smallest subset on which a fact fails: a sum is independent of the order
of its fold (`FoldInAnyOrder`), can be taken part by part, in either order over two
indices, and over other names. Then:

- `Sums(m, i, j, ..)`, the paths up to j grouped by their last tag, are the forward
  scores (`FirstSums`, `NextSums`, `SumsAreForward`): a longer path is a path and a tag,
  and its weight a product (`WeightOfLonger`).
- `Flow`: for the paths through a tag at position i, the sum over the tags at j of
  forward times backward score is the same for every j from i to the end (`FlowIsKept`,
  the swap of two sums). At i it is the numerator of the marginal; at the
  end, where the backward scores are the end potentials, the sum over all paths
  (`MarginalSums`). So numerator and reference agree at every position, in both cases of
  the mask (`ForwardThroughPadding` for the normaliser). Marginals need no assumption on
  the text.
- `ConfidenceCountsPaths`: `PredictionsOfSpans` shows that the loop body of
  `RunnerCRF.tag` adds for each tag just the probabilities of the characters of its
  spans, and, since spans tile the text, none twice.

`ComputedFrom`, that tags, spans, marginals and predictions are those of the sentence
at hand in every step, carries these lemmas to the specification.

### Post-processing

*Assumptions.* `GazetteersAssumption` (finitely many countries with extended data,
`None` not among them; entries are finite and have an origin), `SamplesAssumption`
(places are intervals of the text, distances are not negative, what evidence may be), `PlaceholderAssumption`
(the placeholder `NO TOWN`, in capitals, is no key of a gazetteer, all of which are
casefolded) and `NumResultsAssumption`.

*Lemmas on the operators.* Filters and sorts are recursive functions, and a fact
about all lists needs induction. The induction theorems of the library take an
operator and cannot be used, but its theorem on well-founded relations gives the
least element of a set of naturals (`LeastElement`), and with the set of
counterexamples for this set an induction is a proof by contradiction. So
`Recursion` shows that a recursive definition over `0..N` has a solution, `KeptPicks`
what a filter keeps, `ArrangedInOrder` that a sort is a permutation in order, and
`FlattenEntries` what a nested comprehension yields. On them rest `CombinationsProofs`
(`WhatIsGenerated`: the answers are sorted, no two read the same, each was found,
and for each one found there is an answer that reads the same and scores no less)
and the lemmas on scans and flags (`WhatAScanFinds`, `UnionOfGazetteers`,
`ListsFlagged`). Most flag managers only add flags of their own; `Regrown(s, r, W)`
says that `s` has the matches of `r` in some order, with the flags of `W` unchanged,
and composes (`RegrownTwice`).

*Invariant.* `PostInv` says for each section of the loop body what it leaves to the
next:

- `TypeInv`, `GeneratorInv`: lists of matches on the grid of scores; once set, the
  suggestion of the generator is that of the sample at hand, not of an earlier one.
- `MatchedInv`, `TownsInv`: the lists come from the fuzzy runner with no flags but those of
  suggestions, and each town the suggestion opens stays, flagged as extended.
- `SuggestInv`: the suggested match is among the codes, then the countries, then has
  its score and no flag but its own, so no malus has touched it.
- `RelationInv`: no relationship flag before the flag managers ran, mutual ones after.
- `AnswersInv`, `ReplyInv`: the answers are what the generator makes of the lists above the
  threshold, the reply is their first `NumResults`.

The theorems then speak about `Offer(x)`, the combinations that can be found.
`NestedCountryIsNoAnswer` needs more than the invariant: the flag of a nested match,
once `ScoreCountries` has sorted, stays through all later sections to the final score,
and with it the combined score lies below the smallest threshold whatever else the
match has. Its weights are a fold over its flags: the bonuses come to 121 at most (of
the three flags the country head can set, one at most counts), the maluses to -200 or
less, and the CRF's confidence, which shifts the share of each, does not make up for it.

### Only model-checked

- Liveness and everything under fairness: `BrokenSlotRecovers`, `RecoveryReachesService`,
  `EveryCallIsAnswered`, `QueuedTaskLeavesQueue`, `BlockedSenderFinishes`, `EveryRunEnds`. The
  prover does not reach `ENABLED`.
- The five runs that end in a counterexample.

## Where code and documentation disagree

Each has a run that ends in a counterexample (`findings` in `PROJECT.json`).

1. `pool_shutdown_skips`: `handle_shutdown` calls `is_alive()` on a process that
   a health check has closed; the `ValueError` ends the loop and the workers behind
   it are not stopped (`worker_monitor.py:200`).
2. `pool_ready_wait`: the wait for the ready events has no `await`, so the timeout
   around it cannot fire (`worker_monitor.py:156`).
3. `path_worker_error`: the handler of a failed run sends the exception on a pipe
   the `with` block has closed already; the caller waits for its timeout
   (`worker_process.py:51`).
4. `path_blocked_loop`: `recv()` blocks the event loop if the worker dies after the
   first part of its result (`process_address_tasks.py:64`).
5. `crf_empty_text`: `history[:seq_end]` with `seq_end = -1` decodes tags for
   characters an empty text does not have (`crf_base.py:174`).

Observed while modelling, reflected in the models, not a run of their own:

- A crashed worker gives no end of file, since the server keeps its own write
  end; the processing timeout is what ends the wait.
- One sample that is too long fails the whole request, and the worker with it.
- Tasks of calls that were given up are still processed; tasks of a killed
  worker are lost and not retried.
- A worker killed between reading a queue entry and fetching the write end from
  the server leaves the duplicate open in the server: one descriptor for each
  such death.
- An error of the pipe after `put_nowait` answers the call, not its task: a worker
  still runs it.
- The health check compares timestamps without draining the queue, so it may
  kill a worker whose event has merely not been read.
- A replacement has a timestamp from its start; if loading takes longer
  than the stall timeout it is killed while it loads, again and again
  (`worker_monitor.py:80` speaks of workers that processed a task).
- A closed multiprocessing queue raises `ValueError`, so the branch for
  `ShutDown` (`address_structuring_servicer.py:82`) is never taken.
- The threshold for the country head is `confidence * 100 >= 0.99`
  (`runner_post_processing.py:227`).
- `country_is_present_malus` is positive among values that must be negative
  (`config.py:182`).
- `details.py:10` calls `end` the index of the last letter of a span; the code takes
  it for the index behind it.
- `flags.py` (line 22) puts a metropolis above 500K people, the threshold is
  1 000 000 (`config.py:149`).
- The mask of a sentence leaves out every id that equals the padding
  (`transformer_crf.py:247`), not only those behind the text. The model takes it
  for a prefix, which it is as long as no character of a text has that id; the id
  is `padding_value` of the model's configuration file, which is not in the
  repository.
- Strict grouping drops an entity of a single `B-` tag.
- Of an extended town known to several opened countries the last one scanned
  wins, in the order of a set of strings: two worker processes may answer the
  same address differently (`runner_fuzzy_match.py:57-66`).

## What is not modelled

- The networks (encoder, country head, embeddings) and training: what they
  compute is data. The regularised losses of the CRF are left out with it.
- Matching of characters other than postcodes: edit distance, tokenisation,
  cleaning, IBAN patterns. Their outcomes are data of a sample. The towns that
  postcodes name are data of `PostProcessing` as well; `Pipeline` computes them.
- The dictionary of country aliases and provinces (`load_country_dict`), a plain
  inversion of two files; transliteration.
- Readers, export of results, command line, the other preprocessing scripts,
  infrastructure: sequential input and output. One thing met on the way: the
  first `read()` of a `DataFrameReader` changes its column names, so that a second
  one fails (`dataframe_reader.py:67`); nobody in the repository reads twice.
- Shutdown with calls in flight: `server.stop` cancels them first, inside of grpc.
- TLS, logging, request ids, the state grpc keeps for `Watch`.
- The locks of the health queue: a worker killed while its feeder thread writes
  may leave the queue unusable (a hazard without a property).

## Plan

Done in this order: `WorkerPool` with its proofs, `RpcLifecycle` and
`RequestPath`, `Pipeline`, `Crf` and `TransformerCrf`, `FuzzyScan` to
`PostProcessing`; then the CRF runner, `Postcodes`, `Database` and `Structuring`,
the reply, and the remaining safety proofs of `WorkerPool`; then the proofs of the
request path and its refinement, of the pipeline, the database, the CRF's decoding and
spans, and the post-processing; last the sums over paths, the nested countries and the
postcodes, with which every safety property is proved. Next:

1. *Model.* The health servicer's set-up; the country dictionary; calls that a
   shutdown of grpc cuts off.
