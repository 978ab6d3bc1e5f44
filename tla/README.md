# Verification of the radar quality marking service

TLA+ models, TLC runs and TLAPS proofs for `task203-radarqc`: an HTTP service in Go
that receives volume scans of weather radars, labels every gate of a scan (valid,
clutter, anomaly, missing) with a versioned rule, and keeps evidence, history and a
summary of what it did, in one SQLite database.

## 1. Inventory

Paths are relative to `src/internal/`.

| Component | State it keeps | Operations that change state | Modelled by |
| --- | --- | --- | --- |
| Marking, `service/mark_service.go` | `locks` (one mutex per scan) | `Mark`, `Recompute` | ScanPipeline, MarkWorkers, Service |
| Ingestion, `receive/` | none of its own | `CreateScan`, `AppendGates`, `Finalize`; `ValidateGates` is pure | Stations (CreateScan), ScanPipeline, Uploads, Validator |
| Scan life cycle, `service/scan_service.go`, `store/scan_store.go` | `scans` | `Seal` | ScanPipeline |
| Gates, `store/gate_store.go` | `gates` | `Upsert`, `UpdateLabel` | Uploads, ScanPipeline |
| Database, `store/db.go` | the connection, the schema | `Open` and `migrate`, transactions, a stop of the process | Database, Uploads |
| Evidence and history, `evidence/recorder.go`, `store/mark_store.go` | `rule_hits`, `quality_marks` | `RecordBatch` (two of them) | ScanPipeline |
| Summary, `summary/` | `scan_summaries` | `Compute`; `Score` is pure | ScanPipeline, Classifier |
| Rule versions, `rule/ruleset.go`, `store/rule_store.go` | `rule_versions` | `CreateDraft`, `Publish`, `Retire` | RuleVersions |
| Calibrations, `calibration/applier.go`, `store/calibration_store.go` | `calibrations` | `CreateDraft`, `Publish` | Stations |
| Stations, `service/station_service.go` | `stations` | `Create`, `Transition` | Stations |
| Classifier and comparison, `rule/classifier.go`, `rule/versioning.go`, `evidence/trace.go` | none | pure: `Classify`, `Apply`, `CompareVersions`, `TraceFlip` | Classifier, RuleChange |
| HTTP server, `httpapi/`, error values, `model/errors.go` | none | starts one goroutine per request, answers it | Start actions, Uploads, Replies, Service |
| Statistics, `service/stats_service.go` | none | reads only, in several queries | Statistics |
| Command line, `cmd/` | none | opens the database, serves, stops | Boot and Crash of Uploads, Crash of ScanPipeline and Service |

**How they interact.** Every request runs in a goroutine of its own and calls the
stores directly. There are three kinds of shared state: the tables, the `sync.Map` of scan
mutexes, which only `Mark` takes, and inside one `Mark` the slice its workers fill.
The store opens exactly one connection (`store/db.go:41`), so that a statement, or a
transaction, is atomic. Nothing else is: nearly every operation reads a row in
one statement, decides, and writes in a later one that looks at nothing.

**What is hard.** Requests that act on a stale read (Seal, Finalize, AppendGates,
Publish, Transition, CreateScan); the six groups of statements of a Mark, each of which
may be the last one before an error or a restart; rules and calibrations that change
under a running Mark; uploads that fail, lose their answer or are cut off by a stop and are
sent again; statistics whose queries see different states; the workers and the two
iterations over a Go map; the boundaries of the classifier. `PROJECT.json` lists every such hazard with its line and the
properties that cover it.

## 2. Modules

| Module | What it models |
| --- | --- |
| `ScanPipeline` | AppendGates, Finalize, Mark, Recompute, Seal as concurrent requests over the tables; failures, crashes; rule and calibration versions changing meanwhile |
| `MarkWorkers` | the parallel part of one Mark: grouping, sorting, workers, WaitGroup, merge |
| `Validator` | pure operators: what ValidateGates keeps and counts of a batch, keys and rows of the table `gates` |
| `Replies` | pure operators: from an error to a status code |
| `Database` | one connection, transactions, rollback, migration, stops of the process |
| `Uploads` | AppendGates from the request to the answer over `Database`: the transaction of each row statement by statement, failures, lost answers, retries, stops; implements `AtomicUploads` |
| `AtomicUploads` | abstract: the rows of a batch are upserted one by one, each at once |
| `Statistics` | the queries of one report among the requests of `ScanPipeline` |
| `VersionRegister` | abstract: per owner, the version published last, until withdrawn |
| `RuleVersions` | CreateDraft, Publish, Retire of rules; implements `VersionRegister` with one owner |
| `Stations` | stations, their calibrations, creation of scans; implements `VersionRegister` with one owner per station |
| `Service` | the requests of `RuleVersions`, `Stations` and `ScanPipeline` in one process: Mark reads the real tables, scans come from CreateScan, a stop ends requests of all kinds; implements `ScanPipeline` |
| `Classifier` | pure operators: Validate, Apply, Classify, CompareVersions, Score |
| `RuleChange` | replaces rule versions and calibrations one by one and compares what the operators of `Classifier` say before and after |
| `*_proofs` | the theorems about the module of that name |
| `MC*` | small instances for TLC |

The modules meet in five places. `ScanPipeline` reads the effective versions and assumes
of them only the steps of `VersionRegister` (`PublishRule`, `RetireRule`,
`PublishCalibration`); that the two stores provide exactly this is checked
(`ActsAsRegisters`) and proved. `Service` puts the three modules
together over their own tables and shows that the composition is a `ScanPipeline`
(`ActsAsPipeline`), so that what is proved of the pipeline under its assumptions holds of the
service without them. `ScanPipeline` takes the decisions
of a Mark as one function of rule, calibration and listed gates (`Decisions`);
that the goroutines compute this function, whatever their order, is `MergedAlike`
of `MarkWorkers`, also proved. `Decide` there is a constant: every classification is allowed, and the
one of the program is in `Classifier`. `ScanPipeline` upserts a row in one step
(`AppendUpsert`); that the five statements of `GateStore.Upsert` amount to this, with
failures and stops, is `RowsAreAtomic` of `Uploads`. `Statistics` extends `ScanPipeline` and
runs beside its requests.

### From the code to the model

*ScanPipeline.* `pc[q]` names the statement the request `q` executes next and `local[q]`
holds the Go variables it still needs. One action is one statement or transaction:

| Code | Actions |
| --- | --- |
| `AppendGates` (`ingest.go:79-123`) | `AppendCheck`, `AppendUpsert` (one row, one transaction), `AppendReturn` |
| `Finalize` (`ingest.go:126-139`) | `FinalizeCheck`, `FinalizeWrite` |
| `Seal` (`scan_service.go:48-65`) | `SealCheck`, `SealWrite` |
| `Recompute` (`mark_service.go:169-178`) | `RecomputeCheck`, then `Mark` |
| `Mark` (`mark_service.go:49-165`) | `MarkLock`, `MarkCheck`, `MarkRule`, `MarkCalibration`, `MarkList`, `MarkLabel` per gate, `MarkEvidence`, `MarkRecord`, `MarkCount`, `MarkSummary`, `MarkStatus` |
| any `return nil, err` | `Fail` |
| the process ends and is started again on the same file | `Crash` |

A gate is a number, its position in `(elevation, azimuth, range)` order. Its three variables
are one abstract value, or `Missing`: `ValidateGates` stores no variable at all when one
is missing. `intact[s]` is an auxiliary variable, written by the actions and read by
properties only: since the last listing of the gates by a Mark no gate was upserted and no Mark stopped half
way. Three details are easy to miss in the code and are modelled as they are:

- a station without an effective calibration makes Mark fail (`calibration_store.go:113`
  turns the missing row into an error before line 75 looks for it), although
  `mark_service.go:76` speaks of treating it as uncalibrated;
- `AppendGates` accepts a pending scan and overwrites gates, although
  `ingest.go:77-78` says "仅允许接收中状态" and that a repeated gate is skipped
  ("重复上传被跳过"), and `gate_store.go:43` that only receiving scans are overwritten;
- `Seal` accepts a scan that was never marked, although `scan_service.go:56` says that
  sealing requires a result ("不允许空封存"): such a scan can never be marked;
- Mark accepts a scan in any status but sealed: `ValidScanTransitions` and
  `ValidRuleTransitions` (`constants.go:65-92`) are called by tests only.

*RuleVersions, Stations.* Rows are never deleted, so a row is its UNIQUE key. A request reads
(`...Check`, `NextVersion`), remembers what it will write (`target`, `arg`) and writes
later (`...Write`, `...Insert`); `Refuse` is an early return. A request that has
returned may be used again, so that a few requests stand for any sequence of calls with at most that
many at a time. A crash is `Fail` of several requests.

*Classifier.* Floats are integers, for the code only compares, adds and subtracts them;
`Score` is in exact tenths of a point, so the last bit of a float on a rounding boundary is
not modelled. The NaN branch of `clamp01` is out of reach, `ValidateGates` skips NaN.

*RuleChange.* `from` and `to` are the last two published versions. `Flips` is `TraceFlip`, which hands the
variables to `Classify` as they were uploaded (`trace.go:60`), although `classifier.go:24` and `:39` say
that `Classify` takes corrected ones (校准后变量); `Mark` corrects them first. No handler calls `TraceFlip` so far, only
`RuleService` offers it.

*Uploads.* `pc[c]` is the next statement of the client's upload:

| Code | Actions |
| --- | --- |
| `handleAppendGates` (`scan_handler.go:49-68`) | `Send`, `Get` (an empty body), `Reply` |
| `AppendGates` up to the first row (`ingest.go:79-99`) | `Get` |
| `Upsert` (`gate_store.go:16-55`) | `BeginTx`, `Select`, `Insert` or `Update`, `CommitTx` |
| the deferred `tx.Rollback()`, any error, a panic | `Fail` |
| the process stops, is started, executes the next `CREATE` | `Crash`, `Boot` |
| CreateScan, Finalize, Mark, Seal | `SetStatus` |

The model variable `rows` is the committed table and `draft` the one the open transaction sees; `by`
in a row stands for the generated id and the creation time. An upload's answer is kept in
`answers`, with code 0 when none arrived. Three things the code does that its comments do not say:
the UPDATE keeps `range_meters`; an error of the database becomes `invalid_input` and so 400, also
after a panic (`errors.go:57`, `server.go:86`), although `server.go:137` says "其余 500"; 422, which
`errors.go:5` mentions, is never sent. Because a 400 may therefore come from an upload that has
stored part of its rows, `AnswersHonest` promises something of 404 and 409 only.

*Statistics.* `at` is the next query. `whole`, `clean` and `closed` are auxiliary: what the reader may
rely on. `CountGlobal` leaves its loop over the label rows without asking for `rows.Err` (`gate_store.go:142-150`,
unlike lines 100 and 128): a failure of the iteration ends the loop, the report is given with the labels
read so far, and nothing in the answer tells. `CountByLabel` therefore reads any part of the rows; every other
failure ends the report (`ReportFails`). The counts of stations, scans and rule versions are left out, their tables only grow.

*Service.* `RuleVersions`, `Stations` and `ScanPipeline` are instances that share no variable; `RuleRequest`,
`StationRequest` and `ScanRequest` are the steps of their requests, over one database one
statement at a time. `effRule` and `effCal`, variables of `ScanPipeline`, are here the queries
`Effective` (`rule_store.go:58`, `calibration_store.go:67`) over the tables. Identifiers are generated, so a
request can only name a scan whose CreateScan has answered (`Created`). `Crash` ends all requests and keeps all tables.

*MarkWorkers.* The cursors of the insertion sort are those of the code, counted from 1. `MapOrders`
are all orders a range over the map may take; the runtime chooses anew each time.

## 3. What the runs check

Passing runs:

| Run | Question | Instance and why it is enough |
| --- | --- | --- |
| `pipeline_safety` | what the results of one scan keep in common | 3 requests, 1 scan, 2 gates, 2 disagreeing rules, 1 calibration, batches of at most 2 rows. Three requests are a Mark, a disturber (upsert, Seal, Finalize) and a second Mark that repairs; two gates let a Mark stop between two labels; scans share no row and no lock |
| `statistics` | what a report is worth while requests run; does every request end | 1 scan, 2 gates, 2 rules, 2 requests, on an empty database or one with a marked scan: a request between any two queries, one more waiting for the scan lock |
| `classifier` | do classifier, comparison, trace and score agree | all pairs of 48 rules, 4 calibrations or none, 49 gates: of each variable, values on thresholds and on both sides of them, near ones and some further away than any correction; scans of up to 3 gates |
| `workers` | is the parallel result the sequential one | 4 elevations, one of 2 gates: 24 x 24 map orders and all interleavings |
| `uploads` | are answers true, is a retry harmless, do uploads end | 2 clients, 3 and not 13 CREATE statements, 1 scan of 2 gates; one client sends twice. Three batches: two new gates; one with a row out of range, a key twice and a variable missing; an empty one. One stop of the process at any point, any number of failures |
| `service` | do the version stores and the reception of scans keep their promises; are the versions in use published ones; does the composition act as the pipeline | 2 requests of each kind, 2 rule names of 2 versions, 2 stations of 2 calibrations, 1 scan, 1 gate, any number of failures and stops; explored in the three parts below |

Properties other than types:

- `CommitsSerialised`: the per-scan mutex does what `mark_service.go:18-21` promises.
- `RuleHasResults`: the rule a scan names has produced a complete batch of marks and a summary for it.
  Finalize and Seal write back what they read, so this could fail.
- `EvidenceBacksHistory`: every non-valid mark has committed evidence of its version.
- `IntactIsConsistent`: labels, history, evidence and summary of an undisturbed scan
  are those of one rule and one calibration on the variables stored now. The next undisturbed Mark
  therefore also repairs whatever an error has left.
- `SettledIsFrozen`: a sealed scan no request is on its way to never changes.
- `RequestsEnd`: no return path forgets the mutex, no waiter starves.
- `AtMostOneEffective`, `VersionsDense`, `NumberClaimedOnce`: publishing is exclusive,
  numbers have no gaps, rows are never overwritten, although check and write are apart.
- `PublishedForGood`: no race takes a published rule version or calibration back to draft, or away. It may
  come back from retired, which is what `retired` shows; that this happens only by a late Publish is
  proved (`OnlyLatePublishRevives`).
- `ActsAsRegisters`: refinement of `VersionRegister`, by the rules with one owner and by the calibrations with one per station.
- `ClosedReceivesNothing`: a station out of service gets no new scan once the requests that saw it
  active are gone. Those in flight may still insert theirs.
- `ValidWithinLimits`: the five ordered tests accept exactly the gates within the three limits that
  `DescribeThresholds` prints and outside the near-zero region. Its last clause, which is about this
  region, is printed inside out: see `described`.
- `AdmittingKeepsValid`: when every threshold moves in its admitting direction no valid gate is lost.
- `ScoreFollowsValidity`, `CompareAccountsForFlips`: score and comparison agree with the labels.
- `TraceRightBeyondCorrection`: `TraceFlip` classifies raw variables and Mark corrected ones. The trace
  lists a gate exactly when two Marks would label it differently, if each variable of the gate differs from
  every threshold of both versions by more than its correction, or is not corrected at all. Closer to a
  threshold the trace may be wrong in both directions.
- `AnswersAddUp`, `AnswersHonest`, `RetryInsertsNothing`: what the counts and the code of an answer
  say is true of the table, then and after any failure, stop or retry.
- `RowsAreAtomic`: refinement of `AtomicUploads`. `UploadsEnd`: no error path keeps the connection,
  and the service comes up again from any point of an interrupted migration.
- `ReportHolds`: the gates counted by label are still stored. If no failure cut their rows off, they are at least those
  of the total, and the four label figures account for every gate if all were marked and none came in between the two
  queries, even when a Mark relabels them meanwhile; cut off, they are at most that. A scan settled before the report is in the
  sealed figure and not in the marked one. More does not hold: a scan sealed between two queries is
  counted as both.
- `VersionsInUsePublished`: every rule version that a row names or a request holds, and every
  calibration a Mark holds, has been published, stays in the table, and the calibration is of the station
  of the scan. No foreign key says so (`db.go:99`, `127`, `153`), and each is written several statements after it was read.
- `ActsAsPipeline`: refinement of `ScanPipeline`; its `CommitsSerialised`, `RuleHasResults`,
  `EvidenceBacksHistory`, `IntactIsConsistent` and `SettledIsFrozen` hold of the service.
- `NoReadBeforeDone`, `MergedAlike`, `MarkEnds`: WaitGroup, merge order and termination.

Each of them is violated by at least one plausible bug: the operators named `Faulty...` in the modules are
these bugs, beside the definition they would replace, and nothing else uses them.

Runs that show a disagreement between the code and what it says of itself:

| Run | Property | Said by | What happens |
| --- | --- | --- | --- |
| `sealed` | `SealedIsTerminal` | `README.md:17` | Mark or Finalize, running since before the Seal, overwrites the status |
| `traceable` | `LabelsTraceable` | `README.md:12`, `mark_service.go:168` | Mark fails after its first label; no history explains it |
| `transition` | `TransitionsLegal` | `model.go:54`, `README.md:16` | of two Transitions that read the same status, the second takes the station past its calibration, from disabled to active or the other way |
| `retired` | `RetiredIsTerminal` | `ruleset.go:67`, `constants.go:87`, `README.md:19` | a late Publish makes a retired version effective again |
| `loosened` | `LooseningKeepsValid` | `versioning.go:83` | `zdr_abs_max` and `zh_clutter_min` are reported in the wrong direction |
| `described` | `NearZeroAsPrinted` | `classifier.go:95`, printed by `/api/health` | "\|ZDR\|≥x 或 ZH≤y 判近零杂波" names as near-zero clutter the gates outside the region that `classifier.go:64` tests: they are valid |

**Bounds.** `MaxRows` (rows of one batch), `MaxVersion`, `MaxAttempts` (uploads of a client) and
`MaxStops` are the only counters that are cut off;
requests of `ScanPipeline` run once, which bounds history and evidence. The instance of `statistics`
starts from restarted databases so that two requests suffice to disturb a report on marked scans. Symmetry is used in the
runs of safety properties only.

The run `service` explores three parts of its instance (`Explored` of `MCService`): two requests on rules, before there is a
station; two requests on stations, before there is a rule version, on one station with everything or on the calibrations of two;
and requests of all kinds together, one on rules or on the station beside one on the scan, or one on rules beside two on the
scan, over one version of each name and one station. Rules and stations share no table and no lock, so that a race of two requests
on the one does not depend on the state of the other, and only a Mark reads both. The third part is for that reading. Nothing of the
kind is assumed by the proofs.

**Fairness.** `ScanPipeline!FairSpec` has weak fairness of `Step(q)` for each request: a
runnable goroutine is scheduled, and `sync.Mutex` hands the lock to a waiter (its starvation
mode). No fairness is put on arrivals, failures, crashes or publications. Weak fairness suffices because
requests run once: those that hold the lock give it back and do not come for it again.
`Uploads!FairSpec` has strong fairness of the steps of an upload: `database/sql` hands a connection that is given back to a
waiting goroutine, so that one which can go on again and again does, while another may take the connection in
between. It has weak fairness of `Boot`, since a process that stopped is started again; clients, failures and stops have none.
`MarkWorkers!FairSpec` has weak fairness of Mark's goroutine and of each worker.

**Deadlock** is checked everywhere: in `classifier`, `workers` (where Mark's end is the
explicit step `Ended`), `uploads` and `service`, and in the pipeline: a rule or calibration may always be published,
so that a request that could never go on is found by `RequestsEnd` rather than by TLC's deadlock
check. No request waits for a scan lock while it holds the database connection.

## 4. What is proved

All theorems hold for every value of the constants under the named assumptions of the modules, which
say little more than that the null values are not members and that `Gate` is a finite set of numbers. `RuleVersions` and
`Stations` need none; `Service` states what it needs for all its parts.

| Module | Theorems | Argument |
| --- | --- | --- |
| `ScanPipeline_proofs` | `TypeCorrect` | inductive as it stands, one step per action |
| | `MarkMutualExclusion` | `pc[q]` is critical iff `lock[on[q]] = q`; the converse is what `Fail` and `Crash` need, which give the lock back |
| | `RuleOfScanHasResults` | strengthened by what requests carry: the version a Finalize or Seal has read, and the version of a Mark past its history, have results already; results are never removed |
| | `HistoryHasEvidence` | strengthened: a Mark at "marks" has committed the evidence of its non-valid decisions; evidence is only appended |
| | `SealedScanIsFrozen` | an action property: a step of a request of this scan from a place before its check leaves the rows alone |
| | `UndisturbedIsConsistent` | follows a Mark through its writes: while its scan is intact, the labels it has stored are its decisions, what it listed is still stored, and its evidence, history and count are those of these labels; mutual exclusion gives that nobody else writes; when it has written the summary, the four parts make the scan consistent |
| `RuleVersions_proofs` | `TypeCorrect`, `PublishingIsExclusive`, `NumbersAreDense`, `LatePublishOnly`, `ImplementsRegister` | density needs that a number about to be inserted has its predecessor; `LatePublishOnly` needs that a row about to be published or retired has left the status before only in one direction |
| `Stations_proofs` | `TypeCorrect`, `PublishingIsExclusive`, `NumbersAreDense`, `ImplementsRegisters`, `NumbersAreClaimedOnce`, `ClosedStationsReceiveNothing` | the same per station |
| `RuleChange_proofs` | `TypeCorrect`, `LimitsAreExact`, `AdmittingIsMonotone` | case analysis over the ordered tests; the bounds of Validate are not needed for either |
| | `ComparisonIsSymmetric`, `TraceIsRight` | threshold by threshold; a correction smaller than the distance to a threshold leaves the comparison with it as it is, also when RHOHV is cut off at 0 or 1, because Validate keeps `rhohv_min` between them |
| | `ScoreIsFair` | the counts are bounded by the length of the scan and grow with the set of valid gates; the nonlinear part is the monotonicity of the rounded quotient, a lemma of its own |
| `MarkWorkers_proofs` | `TypeCorrect` | with the insertion sort: the keys left of the outer cursor are in order but for the one the inner cursor is at, and the keys are always those of the map |
| | `WaitIsSound` | `wg` is the number of workers that are spawned and not done; it is zero after the spawning only when all are done |
| | `MergeIsSequential` | a set has one ascending enumeration, so that the two sorted iterations agree; each worker's place holds the verdicts of its own group as soon as it has stored them; concatenating groups and classifying gates commute |
| `Service_proofs` | `TypeCorrect`, `ImplementsPipeline` | the invariants of the three components are cited from their modules; each request is a step of its own component and leaves the others alone, a stop is shown to keep the invariants; by exclusiveness a change of a table changes what `Effective` finds as one publication or withdrawal does, or not at all |
| | `PublishingIsExclusive`, `NumbersAreDense`, `PublishedIsForGood`, `ImplementsRegisters`, `NumbersAreClaimedOnce`, `ClosedStationsReceiveNothing` | the inductive invariants of the components hold of the composition, and a stop, which no component takes as such, ends requests only |
| | `ResultsStaySound` | from the refinement and the theorems of `ScanPipeline_proofs` |
| | `UsedVersionsArePublished` | what a table records is what a request held, and what a request holds is what a table recorded or what was effective when it was read (`VersionsComeFrom`, `CalibrationsComeFrom`); published versions stay published |
| `Uploads_proofs` | `UploadsTypeCorrect` | with the phases: an upload is inside a transaction iff it holds the connection, and it has rows left to write unless it is idle, reading or replying |
| | `CountsAreTrue` | every step is one of four kinds: it changes no row, accepts a batch, commits one row, or ends uploads. The count of an upload under way is the number of rows that carry its name, and for every key of the batch that it has passed there is a row |
| | `AnswersAreHonest`, `RetriesInsertNothing` | rows are never deleted, an upload that was refused has not started to write, and after a 200 every kept key has a row, so that a later upload finds it |
| | `UploadsAreAtomic` | each kind maps to a step of `AtomicUploads` or a stutter |
| `Statistics_proofs` | `ReportsHold` | uses the invariant behind `UndisturbedIsConsistent`: a row has one of five labels as soon as it exists, so that the labels partition the rows; rows are never deleted; settled scans stay sealed. Whatever labels were read, their figures are those of disjoint parts of the stored rows. A restarted database satisfies these invariants too |

The named assumptions also say that `Scan` is finite where scans are counted, that clients are the users of the
database, and that the bounds are numbers.

**Only model-checked:** liveness (`RequestsEnd`, `MarkEnds`, `UploadsEnd`), which the prover does not cover. All
safety properties of the passing runs are proved. The inductions in `MarkWorkers_proofs` (positions of a
sequence, the concatenation of the groups) are made without the library's schemes, which
the provers cannot instantiate: a set that contains 0 and every successor but misses m would map its finite part below m
one to one into that part without 0, which the pigeonhole principle forbids.

**Not modelled:** listings and the health text, routing, decoding, logging, error wording, flag parsing; `Record`
of a single piece of evidence, which nothing calls; the checks of scan geometry and coordinates, which only refuse input;
generated identifiers are unique (one that collides is a failing statement); the pragmas of
SQLite, in particular what `synchronous(NORMAL)` loses when the machine and not the process fails; the floats'
rounding.

## 5. Plan

Done, in this order: the pipeline, which is the core; the two version stores against their abstract
register; classifier and comparison; the workers; the proofs beside each, the consistency of an
undisturbed scan last; then uploads with the database below them, the statistics, the traces
of calibrated gates, and their proofs; last the composition `Service`, and the proof that the
workers compute what a sequential pass would.

Left: `Uploads` and `ScanPipeline` describe AppendGates at two levels that meet in an informal
step: both have one atomic upsert per row (`RowsAreAtomic`, `AppendUpsert`). A refinement of the one's row
steps by the other would state it, at the price of the answers and retries in the pipeline.
