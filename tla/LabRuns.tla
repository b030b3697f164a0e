------------------------------ MODULE LabRuns ------------------------------
(* The LLM Lab's RunManager (hazop/s5_sw/llm_lab.py): benchmark and pull    *)
(* runs on background threads, the in-memory registry the hub's pollers     *)
(* read, the set of busy devices, and the shared log runs.jsonl, which the  *)
(* headless runner (another process) appends to as well.                    *)
(*                                                                          *)
(* A run id stands for a uuid: it is used once, across restarts too.        *)
EXTENDS Naturals, Sequences

CONSTANTS Devices,   \* worker machines the YAML declares
          Runs,      \* run ids ever drawn
          NoDevice,  \* the device of a run id not drawn yet
          Faults     \* what the environment may do: see FaultKinds

\* "spawn":  Thread.start raises;      "append": the write to runs.jsonl raises;
\* "tear":   a failed write leaves a partial line;  "crash": the hub is killed
FaultKinds == {"spawn", "append", "tear", "crash"}

ASSUME ConstantsAssumption ==
    /\ NoDevice \notin Devices
    /\ Faults \subseteq FaultKinds

VARIABLES
    busy,     \* RunManager._busy
    device,   \* status["device"] of each run
    state,    \* the visible status["state"]; "absent" when not in _active
    stage,    \* how far the thread of the run has come
    outcome,  \* the local final_state of _run
    file,     \* the complete lines of runs.jsonl
    torn      \* does runs.jsonl end in a partial line?

vars == <<busy, device, state, stage, outcome, file, torn>>

Verdicts == {"done", "error"}
States   == {"absent", "running"} \cup Verdicts

\* idle: id not drawn; spawning: registered, thread not started; working: in
\* fn; settled: fn over, device still held; released: device given back;
\* recorded: line appended; over: thread ended; stillborn: Thread.start raised;
\* failed: _append raised; killed: ended with the process; headless: a CLI run.
Stages == {"idle", "spawning", "working", "settled", "released", "recorded",
           "over", "stillborn", "failed", "killed", "headless"}

\* The stages in which a hub run owns its device.
Holding == {"spawning", "working", "settled"}

\* A line json.loads accepts, and one it does not.
Records  == [run : Runs, state : Verdicts]
Garbage  == [run |-> NoDevice]
Lines    == Records \cup {Garbage}

TypeOK ==
    /\ busy \subseteq Devices
    /\ device \in [Runs -> Devices \cup {NoDevice}]
    /\ state \in [Runs -> States]
    /\ stage \in [Runs -> Stages]
    /\ outcome \in [Runs -> Verdicts \cup {"none"}]
    /\ file \in Seq(Lines)
    /\ torn \in BOOLEAN

Init ==
    /\ busy = {}
    /\ device = [r \in Runs |-> NoDevice]
    /\ state = [r \in Runs |-> "absent"]
    /\ stage = [r \in Runs |-> "idle"]
    /\ outcome = [r \in Runs |-> "none"]
    /\ file = <<>>
    /\ torn = FALSE

----------------------------------------------------------------------------
(* start(): the critical section, then Thread.start outside the lock.       *)

\* Mutant of Register: the device is not looked up in _busy.
RegisterUnguarded(r, d) ==
    /\ stage[r] = "idle"
    /\ busy' = busy \cup {d}
    /\ device' = [device EXCEPT ![r] = d]
    /\ state' = [state EXCEPT ![r] = "running"]
    /\ stage' = [stage EXCEPT ![r] = "spawning"]
    /\ UNCHANGED <<outcome, file, torn>>

\* A refused start (device busy, LabError, HTTP 409) changes nothing.
Register(r, d) ==
    /\ stage[r] = "idle"
    /\ d \notin busy
    /\ busy' = busy \cup {d}
    /\ device' = [device EXCEPT ![r] = d]
    /\ state' = [state EXCEPT ![r] = "running"]
    /\ stage' = [stage EXCEPT ![r] = "spawning"]
    /\ UNCHANGED <<outcome, file, torn>>

Spawn(r) ==
    /\ stage[r] = "spawning"
    /\ stage' = [stage EXCEPT ![r] = "working"]
    /\ UNCHANGED <<busy, device, state, outcome, file, torn>>

\* Nothing undoes the registration when Thread.start raises.
SpawnFails(r) ==
    /\ "spawn" \in Faults
    /\ stage[r] = "spawning"
    /\ stage' = [stage EXCEPT ![r] = "stillborn"]
    /\ UNCHANGED <<busy, device, state, outcome, file, torn>>

----------------------------------------------------------------------------
(* _run(): the thread body.                                                 *)

\* fn returns ("done") or raises ("error").
Settle(r, v) ==
    /\ stage[r] = "working"
    /\ outcome' = [outcome EXCEPT ![r] = v]
    /\ stage' = [stage EXCEPT ![r] = "settled"]
    /\ UNCHANGED <<busy, device, state, file, torn>>

\* Mutant of Release: the device is not given back.
ReleaseNothing(r) ==
    /\ stage[r] = "settled"
    /\ stage' = [stage EXCEPT ![r] = "released"]
    /\ UNCHANGED <<busy, device, state, outcome, file, torn>>

Release(r) ==
    /\ stage[r] = "settled"
    /\ busy' = busy \ {device[r]}
    /\ stage' = [stage EXCEPT ![r] = "released"]
    /\ UNCHANGED <<device, state, outcome, file, torn>>

\* One write in append mode: behind a partial line the record is glued to it.
AppendLine(r, v) ==
    /\ file' = Append(file, IF torn THEN Garbage
                                    ELSE [run |-> r, state |-> v])
    /\ torn' = FALSE

Record(r) ==
    /\ stage[r] = "released"
    /\ AppendLine(r, outcome[r])
    /\ stage' = [stage EXCEPT ![r] = "recorded"]
    /\ UNCHANGED <<busy, device, state, outcome>>

\* Mutant of RecordFails: the line was written all the same, and is tried again.
RecordRetried(r) ==
    /\ "append" \in Faults
    /\ stage[r] = "released"
    /\ AppendLine(r, outcome[r])
    /\ UNCHANGED <<busy, device, state, stage, outcome>>

\* open or write raises: the exception ends the thread.
RecordFails(r) ==
    /\ "append" \in Faults
    /\ stage[r] = "released"
    /\ torn' \in {torn, torn \/ "tear" \in Faults}
    /\ stage' = [stage EXCEPT ![r] = "failed"]
    /\ UNCHANGED <<busy, device, state, outcome, file>>

\* Mutants of Flip: the verdict is shown before it is recorded, or never.
FlipEarly(r) ==
    /\ stage[r] \in {"released", "recorded"}
    /\ state' = [state EXCEPT ![r] = outcome[r]]
    /\ stage' = [stage EXCEPT ![r] = "over"]
    /\ UNCHANGED <<busy, device, outcome, file, torn>>
FlipNothing(r) ==
    /\ stage[r] = "recorded"
    /\ stage' = [stage EXCEPT ![r] = "over"]
    /\ UNCHANGED <<busy, device, state, outcome, file, torn>>

Flip(r) ==
    /\ stage[r] = "recorded"
    /\ state' = [state EXCEPT ![r] = outcome[r]]
    /\ stage' = [stage EXCEPT ![r] = "over"]
    /\ UNCHANGED <<busy, device, outcome, file, torn>>

----------------------------------------------------------------------------
(* main(): the headless runner knows no _busy and only appends.             *)

HeadlessRun(r, v) ==
    /\ stage[r] = "idle"
    /\ AppendLine(r, v)
    /\ stage' = [stage EXCEPT ![r] = "headless"]
    /\ UNCHANGED <<busy, device, state, outcome>>

\* Mutant of Crash: run ids are drawn afresh after a restart.
CrashReusesIds ==
    /\ "crash" \in Faults
    /\ busy' = {}
    /\ state' = [r \in Runs |-> "absent"]
    /\ stage' = [r \in Runs |-> "idle"]
    /\ UNCHANGED <<device, outcome, file, torn>>

\* The hub is killed and started again: threads are daemons, and only
\* runs.jsonl outlives the process.
Crash ==
    /\ "crash" \in Faults
    /\ busy' = {}
    /\ state' = [r \in Runs |-> "absent"]
    /\ stage' = [r \in Runs |-> IF stage[r] \in {"idle", "headless"}
                                THEN stage[r] ELSE "killed"]
    /\ UNCHANGED <<device, outcome, file, torn>>

ThreadStep(r) ==
    \/ Spawn(r)
    \/ SpawnFails(r)
    \/ \E v \in Verdicts : Settle(r, v)
    \/ Release(r)
    \/ Record(r)
    \/ RecordFails(r)
    \/ Flip(r)

Next ==
    \/ \E r \in Runs, d \in Devices : Register(r, d)
    \/ \E r \in Runs : ThreadStep(r)
    \/ \E r \in Runs, v \in Verdicts : HeadlessRun(r, v)
    \/ Crash

Spec == Init /\ [][Next]_vars

\* The OS schedules every started thread, and fn ends: each HTTP call it
\* makes has a timeout.
Fairness == \A r \in Runs : WF_vars(ThreadStep(r))
FairSpec == Spec /\ Fairness

----------------------------------------------------------------------------
(* Properties.                                                              *)

\* A run owns its device until Release; a stillborn run never lets go.
Owning == Holding \cup {"stillborn"}
Owners == {r \in Runs : stage[r] \in Owning}

\* A line read_runs skips.
Glued == \E i \in 1..Len(file) : file[i] = Garbage

Logged(r, v) == \E i \in 1..Len(file) : file[i] = [run |-> r, state |-> v]

\* Two hub runs never have the same device at the same time, whatever the
\* interleaving of starts, threads and restarts (class comment of RunManager).
OneRunPerDevice ==
    \A r, s \in Owners : device[r] = device[s] => r = s

\* The busy set is exactly the devices of the runs that own one: no finished
\* or failed run leaks its device, no working run has lost its own. The one
\* leak the code has is the stillborn run, which Owners counts.
BusyIsOwned == busy = {device[r] : r \in Owners}

\* A device has one owner at most, and is busy exactly while it has one: what
\* start looks up in _busy speaks of the threads.
DevicesAreHeld == OneRunPerDevice /\ BusyIsOwned

\* A poller that sees done or error finds that verdict in runs.jsonl (comment
\* in _run: "persist BEFORE flipping the visible state"), and keeps finding
\* it, as long as no record has been glued to the partial line a failed write
\* left: nothing in _append looks at how the file ends.
PersistedBeforeVisible ==
    ~Glued => \A r \in Runs : state[r] \in Verdicts => Logged(r, state[r])

\* No run has two records in runs.jsonl, across restarts and append faults.
RecordedOnce ==
    \A i, j \in 1..Len(file) :
        file[i] \in Records /\ file[j] \in Records /\ file[i].run = file[j].run
            => i = j

\* A run shown as running is shown otherwise some day: the hub page, which
\* polls until the state is not "running", does not spin forever. The two
\* exceptions are a thread that never started and one whose append raised.
RunningEnds ==
    \A r \in Runs :
        state[r] = "running" ~> \/ state[r] # "running"
                               \/ stage[r] \in {"stillborn", "failed"}

\* A device taken by a run comes free again, unless its thread never started.
DeviceComesFree ==
    \A d \in Devices :
        d \in busy ~> \/ d \notin busy
                     \/ \E r \in Owners : device[r] = d /\ stage[r] = "stillborn"

\* RunManager implements the device lease: owners are the lease holders and
\* the readable lines of runs.jsonl are what has been published.
Lease == INSTANCE DeviceLease WITH
    held <- {<<device[r], r>> : r \in Owners},
    used <- {r \in Runs : stage[r] # "idle"},
    published <- {file[i] : i \in 1..Len(file)} \cap Records

ImplementsLease == Lease!Spec
=============================================================================
