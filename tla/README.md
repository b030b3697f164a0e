# HAZOP-AI: a TLA+ verification project

HAZOP-AI (`src/src/hazop`, Python) takes a P&ID drawing, rebuilds the plant's
topology from it, and prepares a HAZOP worksheet with the help of a language
model whose every claim is checked against that topology and a knowledge base.
A small Flask hub serves the result, keeps a requirements matrix, and runs
benchmarks on a few machines of a lab.  This directory holds TLA+ models of the
parts of it whose control is hard to test, the TLC configurations that check
them, and proofs of the properties that matter most.

Paths below are relative to `src/src/hazop` unless they begin with `src/`.

Contents: 1 the system, 2 what is hard in it, 3 the modules, 4 the runs,
5 fairness, 6 the proofs, 7 disagreements between code and documentation,
8 what is not modelled, 9 the plan.

## 1. The system

| Component | State it keeps | Operations | Talks to |
|---|---|---|---|
| P&ID upload, `s1_dim/app.py`, `pipeline.py`, `build_viewer.py` | a run directory per upload, the process's working directory, module globals of the viewer, `labels.json` | `upload`, `run` and its stages, the label endpoints and the viewer's script | detectors, tracing, assembly, the DiagEx fallback, all through relative paths |
| Detectors, `s1_dim/detect_*.py`, `normalize_pdf.py`, `compat_check.py` | none | geometry over PDF drawing commands | the upload pipeline |
| Line tracing and run assembly, `trace_lines.py` `build_graph`, `assemble_graph.py` `assemble` | nodes, strokes and runs of a page | bridges, equipment ownership, chains to runs, connectors | detectors before, orientation after |
| DiagEx fallback, `diagex_fallback.py` | nodes, runs, connectors of each page, a report | `convert_graph`, `run_fallback` | a vision model before, orientation after |
| Run orientation, `assemble_graph.py` `orient_runs` | direction, source and conflict flag of each pipe run | four stages of seeds, propagation, conservation | either engine |
| Plant model adapter, `s2_pml/adapter.py` | the equipment graph | contraction, direction votes, pass-through forcing | the drawing's export |
| Study nodes and views, `s2_pml/nodes.py`, `condense.py` | a proposal and its redefinition | `propose_nodes`, `merge_nodes`, `move_member`, `condensed_node_view` | the equipment graph, the facilitator, prompts |
| Graph query and Neo4j store, `s2_pml/query.py`, `neo4j_store.py` | an external database | translate, ground, execute, Cypher; `load` in batches | the explorer page, a model, the server |
| Topology reasoner, `s3_are/reasoner/topology.py` | a directed graph with a `verified` flag per edge | `_build_graph`, `_reach`, `has_relief_path`, `isolation_boundary`, `flow_paths`, `check_valves_between` | the plant model |
| AI reasoner fan-out, `s3_are/reasoner/core.py` `analyze_node` | the pool's queue, the rows | serial loop, or a thread pool | the deviation pipeline |
| Deviation pipeline, `core.py`, `evidence_critic.py`, `llm.py`, `worksheet.py` | the finding lists of a row, the rejected list | `_analyze_deviation`, `_grounded`, `_evidence_checked`, the critics, `_topology_safeguards` | topology, retriever, model client, critic client |
| Knowledge base, `s4_kb` | the corpus, an index of what was curated when it was built | import, curation, indexing, search | the reasoner |
| Audits and measurements, `mdl`, `s3_are/reasoner/critic.py`, `s3_are/evaluate.py` | none | fabrication and grounding audits, gold matching, latency, seeded omissions, gates | finished worksheets |
| Suggestion telemetry, `mdl/telemetry.py` | an append-only JSONL log | `record`, `events`, `summarize` | two hub endpoints |
| LLM Lab run manager, `s5_sw/llm_lab.py` `RunManager`, and its page | `_busy` (devices), `_active` (status of each run), `runs.jsonl`; a card with timers | `start`, `_run`, `_append`, `status`, the headless `main`; `startLabRun` and its polls | request threads, one thread per run, a second process through the file |
| LLM Lab configuration, `load_config` | the YAML file, `_config_cache` keyed by mtime | one function, called by every request | an editor, through the file |
| LLM Lab benchmarks, `s5_sw/llm_lab.py` | none | latency, gold set, translator suite | Ollama on the devices |
| Requirements matrix, `s6_rcm/rtm.py` | one YAML file | `load_rtm`, `update_requirement`, `save_rtm` | two hub endpoints |
| Hub, `s5_sw/app.py`, `templates/index.html` | a lazily built `state()` | views, and the endpoints named above | everything above |
| Password gate, `authgate.py`; sharing script, `src/share.sh`; exports, demos, screening | none | see 8 | |

How they interact: an upload leaves a graph of strokes, or what a vision model
read; either engine turns it to runs and `orient_runs` gives these their flow
directions; the adapter contracts that to an equipment graph whose edges are
known or guessed; study nodes are proposed on it, and the topology reasoner
answers reachability, relief and isolation questions; the deviation pipeline
gates the model's findings with those answers and with what the knowledge base
retrieved; the fan-out runs one pipeline per deviation; the audits then look at
the finished rows.  The hub is one process with a thread per request, so every
function it reaches that keeps state outside its frame is concurrent: the run
manager (which locks), the configuration cache, the matrix, the telemetry log,
the labels and the uploads (which do not).

What makes each component correct:

* upload: no run directory holds anything of another drawing, and the process is
  in the right directory while a stage works and afterwards; a saved label stays;
* either engine: no stroke and no connection is lost or doubled on the way to runs;
* orientation: seeds stand, an inferred direction is forced by its neighbourhood,
  and the two inferences reach their common fixpoint;
* adapter: every joined pair is an edge, directions are drawn or implied, and
  the outcome does not depend on the order of the forcing;
* study nodes and views: each item is studied once, and a view neither invents a
  direction nor hides a connection;
* query and store: only named tags are executed, answer and Cypher agree, the
  database holds what was loaded;
* topology: the graph says what the drawing says; reach, relief and boundary are
  exact; a safeguard is claimed no more firmly than the drawing allows;
* fan-out: a pooled call returns exactly what the serial loop returns, rows or
  failure, and leaves no thread behind;
* deviation pipeline: every finding of the model is accounted for; nothing with
  an invented tag is in the body; a citation is kept only when a critic
  supports it; confidence follows the surviving citations;
* knowledge base: what is answered was curated, no row of a sheet is lost;
* audits: they tell what the gate did with what was generated, though they see
  only what is left; a score can be trusted and does not depend on who computes it;
* telemetry: a summary is complete or refused;
* run manager: one run per device; the busy set is exactly what live runs own; a
  verdict is on disk before it is visible; nothing is recorded twice; runs end,
  devices come free, the page says what was recorded and stops polling;
* configuration: no call serves a file older than the one present when it began;
* matrix: an acknowledged update stays; a reader sees a whole document.

## 2. What is hard

`PROJECT.json` lists the hazards line by line.  In groups:

* **threads and a lock**: look-up and registration of a device; a release on the
  run's own thread; a failure between them (`Thread.start`, the append);
* **threads and no lock**: stat/read/store of the configuration; load/change/save
  of the matrix and the truncation inside it; the process-wide working directory
  and module globals of the viewer; whole-file saves of labels that overlap;
* **crash**: a killed hub forgets its registry, not the file; another process
  writes that file too, and a partial last line swallows the next record; a page
  outlives the hub it polls;
* **order of completion**: workers finish in any order, the first failure in
  *row* order must win, queued work is cancelled and running work awaited;
* **order of a worklist**: a tag is first reached over a guess and then again
  over a verified path; a search meets closed and open routes to one place, or
  comes back to where it began; an orientation or a forcing meets evidence from
  both ends of a chain; loops of strokes are walked twice;
* **order of legal operations**: merges and moves of study nodes; import,
  curation and indexing; a chain of loads of which some fail;
* **answers of an unreliable party**: a model cites ids nobody retrieved, repeats
  them, a critic judges one id twice, leaves one out, or is not there; a
  translator names tags nobody asked for; a vision model's connections end
  at notes, at nothing, or on another page;
* **two accounts of one thing**: the answer and the Cypher beside it, the script
  and the pages that compute a score, the audit of a row and the gate it passed.

## 3. The modules

Geometry and orientation:

| Module | Models | Actions |
|---|---|---|
| `DimUpload` | `upload` and `pipeline.run`, with either engine | one action per stage, `Fail` at each, `Leave` for the `finally`, `Tick` |
| `LabelMap` | the labels of a viewer and their endpoints | `Load`, `Verdict`, `Mark`, `Remove`, `Save`, `Truncate`, `Dump` |
| `RunAssembly` | `build_graph` and `assemble` up to the connectors | `Bridge`, `Classify`, `Claim`, the two passes of chain walking, `Connect` |
| `DiagexGraph` | `convert_graph` | entities (`Place`, `Drop`, `PassOver`), connections (`Lay`, `Dangle`, `LeaveToStitching`), `AddNozzle`, `MarkSafety` |
| `OrientRuns` | `orient_runs` | `SeedArrow`, `SeedCheckValve`, `SeedConnector`, `SeedPsv`, `NextStage`, `StartPropagation`, `Propagate`, `StartPass`, `Conserve`, `EndPass` |
| `SheetTopology` | one sheet through either engine and the orientation | composes the three above; `HandOver`, `HandOverPage`, `ReadSeed` |

The plant:

| Module | Models | Actions |
|---|---|---|
| `EquipmentGraph` | the adapter | `Start`, `Expand`, `Emit`, `ForceThrough`, `Settled` |
| `StudyNodes` | `propose_nodes`, `merge_nodes`, `move_member` | one action per step of the proposal, `Merge`, `Move` |
| `CondensedView` | `condensed_node_view`; `_walk_to_equipment`, `_chain_direction` and `_folded_neighbors` as operators | `ExpandItem`, `NextHop` |
| `PlantModel` | drawing to study nodes to view | composes the three above |
| `PlantStore` | `load` and `to_cypher` | `BeginLoad`, `RunStatement`, `StatementFails`, `LoadReturns` |
| `GraphQuery` | a question and its answer, in memory and as Cypher | `Question`, `Parse`, `Translate`, `Ground`, `Run`, `Explore` |
| `TranslatorBench` | the translator suite of the lab, on `GraphQuery` | `Mark`, `NoIntentGiven` |

The reasoner:

| Module | Models | Actions |
|---|---|---|
| `FlowGraph` | `_build_graph` | `AddEdge` |
| `FlowReach` | `_reach` on that graph | building, asking, visiting a pair, the end of the worklist |
| `ReliefPath` | `has_relief_path` on that graph | `Build`, `Ask`, `Skip`, `Look`, `Exhausted` |
| `IsolationBoundary` | `isolation_boundary` on that graph | the same |
| `TopologySafeguards` | `_topology_safeguards`, with `flow_paths` and `check_valves_between` | `MorePressure`, `ReverseFlow` |
| `FanOut` | `analyze_node` and the executor as it drives it | the serial loop; submit, work, collect, cancel, shutdown |
| `EvidenceGate` | one deviation through generation, `_grounded`, the two critics, `_evidence_checked` | `Draft`, `Generated`, `NotJson`, `Stub`, `Ground`, `Grounded`, `PassThrough`, `LexicalCheck`, `ModelCheck`, `Emit`, `Raise` |
| `RowAudit` | the audits of that row | `Audit` |
| `KnowledgeBase` | import, curation, index and search | `Import`, `Curate`, `Load`, `Search` |
| `Scorecard` | the gates over one measured worksheet | `Measure`, `Seed`, `EndTrial`, and the four places that score |

The hub:

| Module | Models | Actions |
|---|---|---|
| `DeviceLease` | what the run manager promises: a device is held by at most one run, a run is used once, published records only accumulate | `Take`, `Return`, `Publish`, `Discard`, `Restart` |
| `LabRuns` | `RunManager` and `main` | `Register` (the critical section of `start`), `Spawn`/`SpawnFails`, `Settle`, `Release`, `Record`/`RecordFails`, `Flip`, `HeadlessRun`, `Crash` |
| `LabPage` | a device card over the run manager | a click, its POST, polls and their answers, the 404 after a restart |
| `ConfigCache` | `load_config` | `Begin`, `Stat`, `Hit`, `Miss`, `ReadFile`, `Store`, and `Edit` for the editor |
| `RtmStore` | `rtm.py` and its endpoints | `Read`; `Submit`, `Load`, `Truncate`, `WriteBlock`, `Answer` |
| `SuggestionLog` | the telemetry log and its endpoints | `Post`, `PostFails`, `Get`, `ReadLine`, `ReadEnd` |

`MC*` modules give the constants values for TLC, and where components do not
meet let one behaviour exercise one of several.  Definitions marked `Mutant` are
deliberately wrong versions of the definition that follows them; each is what a
slip in that code would look like, and `PROJECT.json` says which property
notices it.

How state maps to code, where it is not evident:

* `LabRuns.stage` is the program counter of a run's thread; `state` is the visible
  `status["state"]`; `file` is the complete lines of `runs.jsonl`, a line
  `read_runs` cannot parse being `Garbage`, and `torn` says that the file ends in
  a partial line.  `Owners` are the runs between registration and release.
* `FlowGraph.conn` and `verified` are the edges of the networkx graph and their
  flag.  The frontiers of `_reach`, `has_relief_path` and `isolation_boundary` are
  sets: popping in any order covers the order of the Python list.
* `TopologySafeguards` takes networkx's enumeration of simple paths as the set of
  simple paths up to the cutoff.
* `EvidenceGate` keeps citations as counts per id, because a repeated id raises
  the confidence; confidences are whole percentages.  The critics are an
  environment that answers anything the parser lets through.
* `KnowledgeBase` takes the scores of the two rankings as any numbers; a fused score
  is the fraction its reciprocal ranks add up to, and fractions are compared by
  multiplying out.
* `EquipmentGraph` numbers element ids in the order of `terminal_of`; `ForceThrough` looks
  at any pending item, where the code goes through a dict.
* `GraphQuery` keeps of a question the cues of the grammar it holds and what its
  tokens can mean; of the Cypher it keeps what a pattern matches: items for a hop
  count with `DISTINCT`, trails for a path (`Trails`: no relationship twice, an item
  perhaps), and how many rows a `LIMIT` leaves (`RowsLeft`).  `PlantStore` keeps of a statement the
  rows it merges, and leaves the order of the rows of one label or type open.
* `RtmStore` cuts the file into blocks, so that a reader can meet a save half done
  and two writers can overlap; values in `Longer` shift what comes after them.
* `Merge` takes any ids of which two or more are given: as `merge_nodes` checks no
  more than that, the id of the node it keeps may be among those it takes out.
* Which polylines of a reading are shorter than a stub, so that `orient_runs` passes
  them over, is any subset of its runs (`Converted`).
* `DimUpload` records per run directory and kind of file which uploads' drawings
  went into it.
* `RunAssembly` takes what geometry decides (what lies within reach of a symbol, in
  the box of an item, beside a text) as input, `DiagexGraph` the graph the vision
  model returned, `OrientRuns` which run an arrow lies on and from which side a
  run meets a valve.  The stack and the dict order are left open.

Which modules meet: `FlowReach`, `ReliefPath`, `IsolationBoundary` and
`TopologySafeguards` work on the graph `FlowGraph` builds; `RowAudit` extends
`EvidenceGate` and audits the row that comes out of it; `SheetTopology` joins
`RunAssembly`, `DiagexGraph` and `OrientRuns`; `PlantModel` joins
`EquipmentGraph`, `StudyNodes` and `CondensedView`, and hands the proposal the
graph as `CondensedView` folds it;
`GraphQuery` extends `PlantStore`; `LabPage` extends `LabRuns`, which
instantiates `DeviceLease` with a refinement mapping (`held` is device and run of
each owner, `used` is every run id drawn, `published` is the readable lines of
the file).

## 4. The runs

| Run | Instance | What it shows |
|---|---|---|
| `lab_runs` | 3 run ids on 2 devices with all four faults; or 2 under a page with 2 clicks | device exclusion and exact busy set, persistence before visibility, single recording, the lease; the page tells the truth; runs end, devices come free, the page comes back |
| `topology` | 3 tags of any type, up to 3 edges | relief credited exactly on unblockable paths, exact boundaries, safeguards as firm as the drawing allows |
| `evidence` | 2 findings, 5 citations, up to 2 checks per critic, then the audits; a knowledge base of 3 chunks; 3 deviations scored | nothing lost, findings earned, audits agree with the gate; knowledge curated; scores honest |
| `hub_state` | 2 threads and 2 edits of the YAML; 3 updates of the matrix one at a time with 2 readers; a telemetry log of 4 lines; 3 uploads one at a time; traces over 4 tags and up to 4 edges | nothing stale or broken served; readers see whole documents; summaries complete; uploads isolated and in place; the graph is what was drawn, both reaches are exact, the trace ends |
| `calls` | 5 deviations, 0 to 3 workers, any of them failing; 8 sheets, and 4 readings of two pages | the pool answers as the serial loop does, stops, returns; nothing lost by either engine, orientation justified, and it ends |
| `plant` | families of drawings under every flow evidence, 2 redefinitions, views of 2 hops; 4 graphs in batches of 2, 544 questions | edges drawn, forcing implied, no item studied twice and none lost but by a merge that names its kept node again, views honest; store, tags and Cypher agree |
| `rtm_two_writers` | the matrix of `hub_state`, with 2 updates at once | **violated**: an acknowledged update is lost; that none is lost one at a time is a theorem (`AckedUpdatesStand`) |
| `dim_together` | the uploads of `hub_state`, with 2 at once | **violated**: isolation |
| `labels` | 1 tab, no overlap, 2 loads | **violated**: a saved label is replaced |
| `translator_bench` | the suite, a translator that answers well or not (in `MCPlant`) | **violated**: a match whose answers differ |
| `sheet_conflicts` | the sheets of `calls` | **violated**: a run two seeds disagree about has a direction |
| `sheet_twins` | the sheets of `calls` | **violated**: twin strokes flow against each other |

Why the bounds suffice:

* `lab_runs`: an exclusion violation needs two runs on one device; a leak across
  a release needs a second run of the device, and the third gives an independent
  one or a headless run between them.  A glued record needs a torn line and one
  more append.  With the page, two clicks let a late answer of the first run
  arrive while the second is polled.
* `hub_state`, traces: an upgrade after the fact needs four tags: a root, a tag reached
  over a guess, a neighbour visited through it, and the detour that verifies it.
  Four edges include parallel and opposite ones on one pair.
* A trace in `hub_state` is asked of one of four interchangeable tags, so that the
  others alone are taken for symmetric.
* `topology`: three tags give a blocked and an open route, a cycle through the
  asked tag, and an item that is a valve itself; a path of two edges and one of
  one edge between the same ends, of which only one holds the check valve.
* `calls`, the pool: more deviations than workers, so that some are queued, some are
  running and some are done when the first failure is collected.  0 and 1
  workers are the serial loop.
* `evidence`: five citations pass the 0.95 cap (0.55 plus 0.1 each), the only
  place where the two compositions of the confidence could differ; two checks let
  a critic judge one id twice or leave one out.  Three chunks give two that are
  boosted and one that is better in both halves; two trials of two omissions let
  a seed fall on a row that has one, or on a gap of the worksheet.
* `hub_state`: the bad interleaving of a slow and a fast cache thread needs two
  threads and an edit between; the second edit makes the slow thread two versions
  late.  Three blocks of the matrix give a beginning, a middle and an end, with
  the two requirements at the two ends.  A glued line takes a torn one and one
  more event.  Three uploads in turn let a third inherit what a second left.
* `calls`, the sheets: a tee before a valve, twin strokes, an instrument tap with a stub, a
  ring, a valve with its spring tick, two junctions in a row (where conservation
  at a junction feeds conservation at the next, which takes three seeds), a pipe
  across a vessel's shell with a vendor box, and a stub two valves can reach.
  The readings have a note and a missing entity as ends, connections between pages,
  several pipes at one item and a pipe with an item at both ends, connectors whose
  labels speak against their heading, and headings that contradict each other.
* `plant`: the drawings are tees, rows of in-line items, crossings, partings and
  whole plants, each with every assignment of flow evidence to its segments, so
  that evidence meets from two ends; two redefinitions are a merge after a move
  or the reverse.  Four graphs differ in one edge or its verification, and a
  second load repeats or changes the first.

Bounds are constants with `Max` names, `Cutoff`, `QueryHops`, `Trials` and
`SampleSize`; the last four and `MaxPaths`, `RowLimit`, `BatchSize`, `K` are limits
the code itself has, made small.

`CHECK_DEADLOCK FALSE` is set everywhere because every instance is finite: run
ids, edges, edits, requests and stages are used up and the system then stops.

## 5. Fairness

* `LabPage`: weak fairness of each run thread's steps, and of each card's watching.
  The operating system schedules every started thread, and the function of a run
  ends because every HTTP call it makes has a timeout (600 s, 3600 s for a pull);
  the browser fires the timers it was given and a poll is answered or fails.
  Nothing is assumed of clicks, faults, crashes or the headless runner.
* `FanOut`: weak fairness of the caller and of the pool's work.  A deviation's
  analysis ends, as its model calls have timeouts too.
* `SheetTopology`: weak fairness of `Work`, the steps the one thread takes by
  itself; a sequential function runs on until it returns.  No fairness of the
  seeds a sheet may hold: fewer may be there.
* `FlowReach`: none.  That the trace ends is shown by `TraceEnds`, a measure that
  every step of the worklist lowers.

## 6. The proofs

Each proof module extends the modules it is about; the proofs of `FanOut`, which are
few, stand at its end.  The theorems hold for every value of the constants allowed
by the named assumptions.

**`LabRunsProofs`**, for any set of devices, runs and faults.
`TypeCorrect` comes first, with the fact that a settled run has an outcome.
`DeviceMutex`: that a device has one owner at most (`OneRunPerDevice`) is not
inductive alone, since a start is only safe if `busy` covers the owners; the
invariant is the conjunction with `BusyIsOwned`, which is `DevicesAreHeld`.  `VerdictPersisted`: the invariant says that a recorded run's
verdict is logged and that what is visible is the outcome; the lemmas say that
complete lines stay when a line is appended, and that an append logs its record
unless it is glued to a partial line.  `NoDoubleRecord`: a run whose
record is in the file is past its record step, so no step can add another.
`Implements`: every step of `LabRuns` is a step of the lease or leaves it alone
(`LeaseStep`, by cases on the action), a torn append being the lease's `Discard`.
`PageUsesRunManager`: a step of the page is a step of the run manager or leaves
it alone, so that what is proved of the one holds under the other.
`CardIsTruthful` follows the answers: a verdict on its way to the page is already
in the file, a 404 on its way means that the run was killed, a run the process
has forgotten never comes back, and each call that disabled the buttons still
polls or has been answered (`PageInv`).

**`FlowReachProofs`**, for any set of tags and any bound on the edges.
`GraphFaithful`: by induction over the edges added, the verified pairs are those
whose last edge is known, and the crossable pairs the drawn and guessed ones.
`TraceExact`: the invariant of the worklist says that what is on the trace is
reachable, that a visited tag's successors are on the trace or still to be
looked at, with at least its verdict; an empty worklist then makes the trace
closed, hence exactly the reach.  Reach is stated without recursion: a set is the
reach when it is in every closed set with the root in it.  `TraceRunsDry`, for
finitely many tags: a visit removes its tag from the worklist, and each tag it
pushes has left the absent (worth 4) or the guessed for good (worth 2), so the
weighted count `Effort` goes down by at least one.

**`TopologyProofs`**, likewise.  `ReliefExact`: the seen set stays
inside every sealed set with the root in it, and is sealed itself when the
frontier is empty; so a `False` exhibits a sealed set without a relief valve, and
a `True` a valve in every sealed set.  `BoundaryIsolates`: what was walked has
handed its neighbours on unless it closes, and is inside every set that contains
the neighbours of the item and of whatever does not close.
`SafeguardsStand`, for finitely many tags: an unverified pair of the graph goes
back to an edge drawn without a direction (`RowGraph`), so a plant lies between the
verified and the crossable pairs, and both kinds of path are monotone in the
pairs; that settles what is credited and that nothing is dropped.  That a relief
path that is merely drawn is there in *some* plant is the hard part
(`SomePlantRelieves`): take a plant in which relief flow gets as far as in any; a
crossable pair that leads out of what it reaches is an edge this plant sends the
other way, and turning it around loses nothing reached and gains a tag
(`FurtherPlant`, `WidestPlant`, by the well-foundedness of strict inclusion).  For
check valves the edges along the path are all sent its way, which is possible
because the path visits no tag twice (`SomePlantFlows`).  `SearchServesRows` links
the search of `ReliefPath` to the relief path `TopologySafeguards` speaks of.

**`FanOut`**, for any number of deviations, workers and failures.
`SerialAnswer`: up to where the caller is, what it holds is the serial answer
(`Prefix`); it meets a failure only after all rows before it, and an outcome is
the one the deviation was bound to (`Truthful`), so the failure it meets is the
first in order.  `NoneLeftRunning`: shutdown waits for every job, and the serial
loop never queues one (`Quiet`).

**`EvidenceProofs`**, for any tags, sources, findings, citations per id and
answers of the critic.  The invariant `GateInv` has two parts beside the types.
`Accounting` says of each stage which drafts are behind it and that each of those
is either among the findings kept or in the audit table, and in one place only:
`EveryFindingIsAccountedFor` is its last stage.  `Standards` says what a finding
has been through: the drafts are what the generator may answer, a grounded one
has only known tags and citations, one in the worksheet kept what the critic
supported and has the confidence that gives: `OnlyTheEarnedStands`.  The
confidence counts citations with repetition; that the count of a subset is at most that of
the whole (`CitedMonotone` and its like) is shown of finite sets without an
induction scheme, by taking a smallest set it fails for
(`LeastSubset`, from the well-foundedness of strict inclusion).
`AuditTellsTheTruth` adds that a report is only made of an emitted row; the
counts the audits recompute are then cardinalities of the same sets
(`CountsChecked`, `CountsUnchecked`), and the lowest confidence is one of a
finding that stands (`MinLeast`, `LowTells`).

Two more components are proved in the same module, with invariants of their own.

* The scorecard, for any deviations, omissions, timings and number of trials.
  `ScoreIsTold`: the copy of a trial is the worksheet with exactly the omissions of
  its ground truth, one for each picked row (`OneOmissionEach`, `CopyIsSeeded`), so
  that the critic, reading rows one by one, finds all of them and names no row that
  was complete (`TrialsFound`).  A percentile is the nearest rank of the sorted
  timings: lemmas show that as many timings are within a value as the rank says,
  whichever way equal ones are sorted.
* The knowledge base, for any documents, sheets, scores and `K`.  `SearchIsCurated`:
  a loaded corpus is an earlier state of the one on disk (`LoadedIsOlder`), an
  index holds each chunk that was curated when it was loaded, once
  (`IndexIsLoaded`), and each row of a sheet is a document or in the report
  (`ImportIsJudged`).  That an answer holds the `K` best needs that fused scores are
  ordered strictly once ties are broken by position (`AnswerIsRanked`), and a
  counting argument for what has `K` better ones.

**`PlantProofs`** follows the plant through the hub, in four parts.

* *The equipment graph*, for any drawings with finitely many elements
  (`DrawingsAssumption`).  `EdgesComeFromTheDrawing` says that two tags are joined
  exactly if a walk over untagged elements joins them, and with a direction
  exactly as the drawing has it.  The invariant `GraphInv` keeps of a search that
  each frontier entry is led to by a walk from the start with its votes, and the
  same walk back with the votes turned (`Led`); that each bucket filled is drawn
  (`IsRight`); and that what is seen hands its neighbours on unless it bears another
  tag (`SearchIsClosed`), so that an empty stack has served its terminal (`Served`).
  Walks are a recursive function over their length, and a step of the search
  folds over the hops of an element: `RecursionsExist`, `StepsExist` and
  `StepByStep` show that these functions are what their equations say, by taking a
  least counterexample.
* *Forcing* (`ForcingIsExact`): a direction is forced exactly if every completion
  of the drawn edges that conserves flow has it, whatever the order, or no completion
  conserves it.  The invariant `FlowInv` says that the edges are those emitted with
  some of the open ones turned, and that each conserving completion follows
  what was forced (`Follows`).  When nothing is left to force, the edges still open
  can be turned one way or all the other way and both conserve, so that none of them
  is implied.
* *Study nodes*, for any equipment graph whose tags are numbers (`Studied`
  takes any two functions), any order of the rules, and any merges and moves.
  Through the proposal the clusters are a partition of the active tags (`Partition`),
  each of one section, fed from within and of one train (`Sound`), and neither
  rule mixes trains with sections before the attachment (`Unmixed`).  A node has
  the name of its least tag, so that a merge or a move never lands on a name in
  use.  Afterwards no active tag is in two nodes, and each is in one as long as no merge
  in the log has named its kept node twice (`Placed`, `Careful`); a node is as
  proposed or in the log (`Traced`).  `LossesAreNamed` bounds what such a merge
  does: the items it takes out of study were in the nodes it names, and no other
  step takes out any (`MergeHolds`, `MoveHolds`).
* *The store and questions*, for any versions of the graph whose labels are known
  and any questions.  `LoadsAreWhole`: every row of the groups a load is past is in the
  database, those of the current group are there or still to be sent, and a load
  that broke off leaves only rows of its own graph (`StoreInv`).  `EveryTagIsNamed`:
  an intent that is executed has its tags from mentions of the text that mean one
  item only; the folds of the parser read off what is named (`NamedIn`), and
  grounding accepts no other.
* *Answers and their Cypher* (`CypherAgrees`): whatever loads begin, break off or
  return until the Cypher of an answer has run (`AskSpec`), the rows found do not
  contradict the answer.  The invariant `Asked` adds to those of the store and the
  question that every relationship has its ends (`RelsHaveEnds`) and that the
  answer is one the runner gives for the intent.  Under it the relationships are
  among the connections of the graph, and all of them once a load has returned
  (`DatabaseIs`), and each kind of question is compared in a lemma of its own
  (`TraceCase` to `PathCase`).  They need that hops beyond the number of items lead to nothing new
  (`WithinAll`), that a simple path is a trail that meets no item twice (`PathsAreTrails`,
  `OnceIsAPath`), and that trails end in what the hops lead to, and reach all of it
  (`TrailsEndWithin`, `WithinEndsATrail`).
  The theorem assumes `Narrow(bound)`: all that verified flow gets to is within
  `QueryHops` hops.  The search in memory has no such bound, so that in a plant
  where flow gets further than `MAX_HOPS` (10) hops the two do differ (section 7);
  `SmallIsNarrow` shows that a graph of no more items than hops is narrow, whatever
  is drawn, as those of the run are.

**`SheetProofs`**, for any sheet and any reading, whichever engine it went through.
`OrientationJustified`: a seed is kept (`SeedsAreKept`); each other direction stands
on what was there when it was given, and directions are never withdrawn, so that it
still does (`Reasoned`); and what the frontier or the pass has behind it owes no
direction any more (`Exhausting`), so that the end leaves nothing that could be
inferred.  How a sheet is assembled or read need not be known for that: it is
enough that the runs are a sequence (`RunsAreSequences`).

`DrawingKept`, that nothing drawn is lost on the way to the runs, has an invariant
for each of the three passes (`DrawingInv`).

* `AssemblyInv`, of a sheet that is traced.  Until the boxes are claimed, bridges are
  only added to the strokes, each from a symbol to an end that has another stroke,
  and no end is bridged twice (`BridgedSoFar`, `BridgedOnce`); the claim leaves the strokes that are not inside a box
  and joins each nozzle to its item (`ClaimedSince`).  The walk was led from its start
  to where it stands through corners, along strokes of one style (`Led`, `WalkIs`);
  a run that was emitted is such a walk that ended (`Finished`), each visited stroke
  is in one run or on the walk (`RunsAre`), and where one stroke of a corner is in a
  run the other is too (`CornersArePassed`).  The last is why the second pass, over
  strokes no anchor is left for, must come back to the corner it set out from: the
  walk cannot end at a corner that an earlier run went through.
* `GraphInv`, of a page that is read.  Entities and connections that are past are
  one node and one run each, or counted as dropped, dangling or left to stitching
  (`EntitiesAre`, `ConnectionsAre`, `CountsAre`), and the node a run ends in stands
  for the entity the connection names, a dead end for one that was not kept.
* `HeadingInv`, of the orientation of such a page: a connector whose turn has come
  has its heading followed or its run flagged, which stands because directions are
  only added; and a direction comes off a connector, or from its neighbours.

Each of these invariants says of a loop how far it has come, so that no induction
over a sequence is needed: a step adds what its one element adds.

**`HubStateProofs`**, four components that share no variable.

* The configuration cache, for any number of threads and edits.  `NoStaleConfig`:
  the invariant counts the writes in the stamp and says, per stage
  of a call, how far behind the file it may be: the version it began at is
  older than the stamp it saw, what it read is no older than that stamp, and what
  is cached is no older than the stamp it is filed under.  `NoBrokenConfig` is the
  same invariant with what has parsed.
* The requirements matrix, for any requests and any size of the file, *as long as
  no two POSTs overlap* (`[]Alone`).  Between saves every block of the file is of
  one document with the acknowledged values; during a save the blocks before the
  writer's offset are of the document it will acknowledge and the file does not
  parse until the last (`MatrixInv`).  A reader starts from what is on disk.
* The uploads, *as long as they are served one by one* (`[]OneByOne`), and for
  isolation also *with slugs of their own* (`[]Apart`).  Between `chdir` and the
  end of the `try` block the working directory is the upload's, and the directory
  to go back to was noted before (`PlaceInv`); so an upload's files go where its
  slug says, and a fresh directory is empty (`RunDirInv`).
* The telemetry log, for any number of events, readers and torn lines.  While
  every line is readable, the log holds each acknowledged event at least once
  (`Holds`): a torn line and the event glued to it make the log unreadable
  together.  A reader's lines are how the log began when it came past (`ReaderInv`),
  and a summary is answered only of a log that was read to its end.

Nothing in the code makes the two hypotheses true: Flask serves each request on a
thread of its own.  They are what the runs `rtm_two_writers` and `dim_together`
show to be needed, and the theorems say that nothing else is.
`OneWriterIsAlone` and `OneUploadIsApart` derive them from the bounds of the run
`hub_state` (one POST, one upload at a time, file names that differ).

Assumptions used are the named ones of the modules.  Counts are natural numbers;
known and unknown tags, citations and devices are different things
(`ConstantsAssumption`); the card is of a device or of none (`CardAssumption`); a
file has at least one block; the generator may cite an id at least once and a
knowledge base is finite (`EvidenceGate`); the cutoff of a path is a number and
nodes are lists of tags (`RowAssumption`).  Sheets, documents and texts are
sequences, and scores, `K`, `QueryHops`, `MaxPaths` and `RowLimit` are numbers
(`KBAssumption`, `QueryAssumption`); the
deviations are a list without repetition, of which a trial may seed as many as it is
told to (`ScorecardAssumption`, a `ValueError` otherwise); what a graph connects are
its items, of known types (`StoreAssumption`); a drawing has finitely many
elements, numbered, and segments between them (`DrawingsAssumption`); the strokes of
a sheet and the entities and connections of a reading are lists (`SheetsAreTraced`,
`ReadingsAssumption`).  No other set
is assumed finite, except tags in `TraceRunsDry` and `SafeguardsStand`, and requests
and uploads in the two theorems on the bounds.

Only model-checked, and why:

* liveness (`RunningEnds`, `DeviceComesFree`, `PageComesBack`, `CallReturns`,
  `OrientationEnds`): out of the prover's reach;
* `ViewIsHonest` (`CondensedView`, `PlantModel`): the folding (`WalkOn`) is
  recursive, which the prover cannot reason about.

## 7. Where code and documentation disagree

With a run that shows it:

1. `rtm_two_writers`: two overlapping updates of different requirements lose one
   (`s6_rcm/rtm.py:76`), though `update_requirement` says that it persists.
2. `dim_together`: uploads served at the same time share the working directory
   (`s1_dim/pipeline.py:59`), though each is said to be isolated.
3. `labels`: markers are numbered by their count at loading
   (`s1_dim/build_viewer.py:173`), so that after a removal a new marker replaces
   one that stands, though labels are said to persist.
4. `translator_bench`: two intents whose answers show the same items count as one
   answer (`s5_sw/llm_lab.py:414`), though a trace hides rows by its type filter
   and a count shows none.
5. `sheet_conflicts`: `set_dir` keeps the direction of the first seed when a second
   disagrees and flags the run (`s1_dim/assemble_graph.py:108`); the docstring
   (lines 91-92) promises no direction.  `SeedsStand` says what the code does.
6. `sheet_twins`: `orient_runs` calls twin strokes "one physical branch" (lines
   214-215, 263), and treats them so from the runs beside them.  From one of the twins
   the other counts as a branch of its own (line 224): a direction does not get past a
   node with twin strokes on one side, and twins that end at a dead end are
   given opposite directions.  `NothingIsGuessed` therefore counts one twin as the
   way on of the other.

Seen while modelling, named in the properties as exceptions or recorded here.

The lab and the hub:

* `_append` is outside the `try` of `_run`: when the write raises, the run stays
  "running" and is in no log; when `Thread.start` raises, the device stays
  busy.  `RunningEnds`, `DeviceComesFree` and `BusyIsOwned` name both cases.
* A partial last line in `runs.jsonl` swallows the record after it;
  `PersistedBeforeVisible` holds up to that point.  In the telemetry log one torn
  line makes every later summary raise; it is never short.
* After a restart the page shows a run it still polls as failed, whatever became
  of it, since a 404 is an answer without a state.
* Two uploads of one name within a second share a run directory
  (`s1_dim/app.py:186`); `DimUpload` reaches this when `FileName` is not injective.

Reasoner, knowledge and measurements:

* A critic that answers about one id twice is taken at its last word, so
  "contradicted" followed by "supported" keeps the citation.  A repeated evidence
  id raises the confidence once per repetition.
* `check_valves_between` credits a check valve on any of the paths between two
  tags, not one on all of them; `SafeguardsAreEarned` therefore says "named".
* A curator's rejection does not reach an index already in memory.  In an
  imported sheet a row with content but no deviation is reported as empty, and a
  repeated header row is read as data.
* The grounding audit leaves out what starts like the name of a standards body,
  so an invented tag such as API-521 is not seen; that every seeded omission is
  found follows from how the critic reads a row; recall and precision of nothing
  are 1.0, and the P95 of three deviations is their maximum.

Drawings:

* The spring tick of a valve, a run from the valve to itself, is a branch for
  propagation and conservation: it stops the former and can be given a
  direction by the latter.  `OrientationIsJustified` leaves it out.
* A stroke whose ends lie in two different equipment boxes is dropped as internal
  (`assemble_graph.py:329`): a pipe drawn as one stroke between two vessels is
  lost.  A valve or an instrument inside a box becomes a nozzle (337).
* Angle valves are relabelled as safety valves after `orient_runs` has run, so they
  never get its safety-valve seed; a circle that becomes a connector has internal
  runs only, so its text seeds nothing.
* In `convert_graph` an entity on a page nobody asked for is passed over without a
  count, though nothing is to disappear silently (docstring, line 140); one counter
  holds both dropped connections and synthesized ends; a connection flagged
  as crossing sheets is no run even when both its ends are on one page; a connector
  whose label holds the word against its heading seeds nothing.

Plant graph:

* `merge_nodes` refuses less than two ids and unknown ones, not a repeated one
  (`s2_pml/nodes.py:302`).  Given the first id again it takes that node out of the
  list and rebuilds it where the proposal no longer sees it: its items, and those of
  the others named, are in no node, though the docstring merges them into the first.
  `EquipmentIsStudiedOnce` names the exception, `OnlySuchMergesLose` bounds what is
  lost.  Another id given twice raises.
* Evidence that contradicts itself through a row of valves leaves the adapter's
  forcing dependent on the order; it never reports a conflict.
* In a condensed view an unverified connection can hide a verified one through the
  same components (`condense.py:175`).
* A question with an unknown token is answered for its known ones, though unknown
  tags are said to raise (`query.py:9`).
* The Cypher of an answer is said to ask the same question, but it stops at `MAX_HOPS`
  hops where the search in memory goes on; of paths the answer keeps the shortest,
  unverified ones included, where the Cypher matches verified ones only, round
  trips among them, and any `MAX_PATHS` of them.
* Loading a changed graph leaves the old flows and labels in the database, though a
  load is safe to repeat; that is so for one version of the graph.

## 8. What is not modelled

Geometry (detectors, clustering of end points, scale), the patterns of the rule
translator and of the wording of connectors, scores of the rankings, HTTP to
models and to Ollama, serialisers (DEXPI), the Neo4j server, command lines,
demonstrations and rendering: they are pure or outside the process, and enter
the models as inputs or as steps that return or raise.  Screening is a table of
rules that each read the kinds next to an item, without state or order.  The
requirements matrix's summary and citation scan and the hub's read-only views
keep nothing; `state()` builds the same value whoever comes first.  The password
gate is one comparison per request.  Uploads of one name within a second, and
two edits of the YAML within the resolution of its mtime, are outside the
passing instances; a crash inside a save of the matrix or the labels is not
modelled, as nothing in the code recovers from it.

## 9. The plan

In this order; what is done is marked.

1. (done) `DeviceLease`, `LabRuns`, `LabPage`; proofs of `LabRuns`.
2. (done) `FlowGraph`, `FlowReach`, `ReliefPath`, with proofs; `IsolationBoundary`,
   `TopologySafeguards`.
3. (done) `FanOut`, `ConfigCache`, with proofs; `EvidenceGate`, `RtmStore`,
   `DimUpload`, `LabelMap`, `SuggestionLog`.
4. (done) Drawings: `RunAssembly`, `DiagexGraph`, `OrientRuns`, `SheetTopology`.
5. (done) Plant: `EquipmentGraph`, `StudyNodes`, `CondensedView`,
   `PlantStore`, `GraphQuery`, `TranslatorBench`.
6. (done) What is said of finished rows: `KnowledgeBase`, `RowAudit`, `Scorecard`.
7. (done) Proofs of `IsolationBoundary`, `EvidenceGate`, `RowAudit`, `RtmStore`,
   `DimUpload`, `SuggestionLog`, `StudyNodes`, `LabPage`, and of the end of a trace.
8. (done) Proof of `TopologySafeguards`.
9. (done) Proofs of the equipment graph, `OrientRuns`, `PlantStore`, the tags of
   `GraphQuery`, `KnowledgeBase` and `Scorecard`.
10. (done) Proof of `DrawingIsKept`, one pass at a time: `HeadingsAreFollowed`,
    `GraphIsConverted`, `RunsCoverTheDrawing`.
11. (done) Proof of `AnswerAgreesWithCypher`.
