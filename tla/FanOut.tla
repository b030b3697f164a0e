------------------------------- MODULE FanOut -------------------------------
(* AIReasoner.analyze_node (hazop/s3_are/reasoner/core.py): the deviations   *)
(* of a node, analysed one after the other or by a pool of worker threads.   *)
(* The pool is concurrent.futures.ThreadPoolExecutor, as pool.map and the    *)
(* with block drive it: every deviation is submitted, workers take them      *)
(* first in, first out, the caller collects the rows in order; the first     *)
(* failure it comes to cancels what has not started, waits for what has, and *)
(* is raised.                                                                *)
EXTENDS Naturals, FiniteSets, TLAPS

CONSTANTS N,           \* deviations of the node
          MaxWorkers   \* bound of max_workers

ASSUME SizesAssumption == N \in Nat /\ MaxWorkers \in Nat

Jobs == 1..N

VARIABLES doomed,   \* deviations whose analysis raises, whoever runs it
          workers,  \* max_workers, 1 or less for the serial loop
          job,      \* what has become of each deviation
          at,       \* the deviation the caller is at
          phase,    \* what the caller is doing
          answer    \* the rows collected, or the failure raised

given == <<doomed, workers>>
poolVars  == <<given, job, at, phase, answer>>

\* The caller: in the list comprehension; submitting; collecting; cancelling
\* after a failure; in the pool's shutdown(wait=True); back.
Phases    == {"serial", "submit", "collect", "cancel", "shutdown", "returned"}
JobStates == {"new", "queued", "running", "done", "raised", "cancelled"}

\* rows: how many rows, in order; failed: the deviation whose exception is out.
Answers == [rows : 0..N, failed : 0..N]

PoolTypeOK ==
    /\ doomed \subseteq Jobs
    /\ workers \in 0..MaxWorkers
    /\ job \in [Jobs -> JobStates]
    /\ at \in 0..(N + 1)
    /\ phase \in Phases
    /\ answer \in Answers

PoolInit ==
    /\ doomed \in SUBSET Jobs
    /\ workers \in 0..MaxWorkers
    /\ job = [i \in Jobs |-> "new"]
    /\ at = 1
    /\ phase = IF workers <= 1 THEN "serial" ELSE "submit"
    /\ answer = [rows |-> 0, failed |-> 0]

Ended(i)   == job[i] \in {"done", "raised", "cancelled"}
Running    == {i \in Jobs : job[i] = "running"}
Outcome(i) == IF i \in doomed THEN "raised" ELSE "done"

----------------------------------------------------------------------------
(* The serial loop.                                                          *)

SerialStep ==
    /\ phase = "serial"
    /\ at \in Jobs
    /\ job' = [job EXCEPT ![at] = Outcome(at)]
    /\ IF at \in doomed
       THEN /\ answer' = [answer EXCEPT !.failed = at]
            /\ phase' = "returned"
            /\ UNCHANGED at
       ELSE /\ answer' = [answer EXCEPT !.rows = at]
            /\ at' = at + 1
            /\ UNCHANGED phase
    /\ UNCHANGED given

SerialReturn ==
    /\ phase = "serial"
    /\ at = N + 1
    /\ phase' = "returned"
    /\ UNCHANGED <<given, job, at, answer>>

----------------------------------------------------------------------------
(* The caller of the pool.                                                   *)

Submit ==
    /\ phase = "submit"
    /\ at \in Jobs
    /\ job' = [job EXCEPT ![at] = "queued"]
    /\ at' = at + 1
    /\ UNCHANGED <<given, phase, answer>>

Submitted ==
    /\ phase = "submit"
    /\ at = N + 1
    /\ phase' = "collect"
    /\ at' = 1
    /\ UNCHANGED <<given, job, answer>>

Collect ==
    /\ phase = "collect"
    /\ at \in Jobs
    /\ job[at] = "done"
    /\ answer' = [answer EXCEPT !.rows = at]
    /\ at' = at + 1
    /\ UNCHANGED <<given, job, phase>>

Collected ==
    /\ phase = "collect"
    /\ at = N + 1
    /\ phase' = "shutdown"
    /\ UNCHANGED <<given, job, at, answer>>

\* Mutant of MeetFailure: the failure that comes first in time is raised.
MeetAnyFailure ==
    /\ phase = "collect"
    /\ \E i \in Jobs : /\ job[i] = "raised"
                       /\ answer' = [answer EXCEPT !.failed = i]
    /\ phase' = "cancel"
    /\ at' = N
    /\ UNCHANGED <<given, job>>

\* result() raises; map's finally clause then cancels the later futures, the
\* last one first.
MeetFailure ==
    /\ phase = "collect"
    /\ at \in Jobs
    /\ job[at] = "raised"
    /\ answer' = [answer EXCEPT !.failed = at]
    /\ phase' = "cancel"
    /\ at' = N
    /\ UNCHANGED <<given, job>>

\* A future that is running or over cannot be cancelled.
Cancel ==
    /\ phase = "cancel"
    /\ at > answer.failed
    /\ job' = [job EXCEPT ![at] = IF @ = "queued" THEN "cancelled" ELSE @]
    /\ at' = at - 1
    /\ UNCHANGED <<given, phase, answer>>

Cancelled ==
    /\ phase = "cancel"
    /\ at = answer.failed
    /\ phase' = "shutdown"
    /\ UNCHANGED <<given, job, at, answer>>

\* Mutants of Return: shutdown(wait=False); a wait for every row.
ReturnAtOnce ==
    /\ phase = "shutdown"
    /\ phase' = "returned"
    /\ UNCHANGED <<given, job, at, answer>>
ReturnWithEveryRow ==
    /\ phase = "shutdown"
    /\ \A i \in Jobs : job[i] = "done"
    /\ phase' = "returned"
    /\ UNCHANGED <<given, job, at, answer>>

\* shutdown(wait=True) joins the workers, who first empty the queue.
Return ==
    /\ phase = "shutdown"
    /\ \A i \in Jobs : Ended(i)
    /\ phase' = "returned"
    /\ UNCHANGED <<given, job, at, answer>>

----------------------------------------------------------------------------
(* The workers.                                                              *)

Start(i) ==
    /\ job[i] = "queued"
    /\ \A h \in 1..(i - 1) : job[h] # "queued"
    /\ Cardinality(Running) < workers
    /\ job' = [job EXCEPT ![i] = "running"]
    /\ UNCHANGED <<given, at, phase, answer>>

Finish(i) ==
    /\ job[i] = "running"
    /\ job' = [job EXCEPT ![i] = Outcome(i)]
    /\ UNCHANGED <<given, at, phase, answer>>

Caller ==
    \/ SerialStep \/ SerialReturn
    \/ Submit \/ Submitted
    \/ Collect \/ Collected
    \/ MeetFailure \/ Cancel \/ Cancelled
    \/ Return

PoolNext == Caller \/ \E i \in Jobs : Start(i) \/ Finish(i)

PoolSpec == PoolInit /\ [][PoolNext]_poolVars

\* Threads are scheduled, and an analysis ends: every model call has a timeout.
PoolFairness ==
    /\ WF_poolVars(Caller)
    /\ \A i \in Jobs : WF_poolVars(Start(i)) /\ WF_poolVars(Finish(i))
PoolFairSpec == PoolSpec /\ PoolFairness

----------------------------------------------------------------------------
(* Properties.                                                               *)

\* However the workers interleave, analyze_node answers as the serial loop
\* does: all rows in order, or the exception of the first deviation that
\* fails in order, whichever failed first in time (comment in analyze_node).
AnswerIsSerial ==
    phase = "returned" =>
        \/ doomed = {} /\ answer = [rows |-> N, failed |-> 0]
        \/ /\ answer.failed \in doomed
           /\ answer.rows + 1 = answer.failed
           /\ \A i \in doomed : answer.failed <= i

\* No worker touches the reasoner, the model or the critic after analyze_node
\* has returned or raised.
NothingRunsOn ==
    phase = "returned" => \A i \in Jobs : job[i] \notin {"queued", "running"}

\* analyze_node comes back, with more deviations than workers and with
\* failures and cancellations in between.
CallReturns == <>(phase = "returned")

----------------------------------------------------------------------------
(* Proofs, for any number of deviations, of workers and of failures.         *)

\* A finished job came out the way it was bound to.
Truthful ==
    \A i \in Jobs : /\ job[i] = "done" => i \notin doomed
                    /\ job[i] = "raised" => i \in doomed

\* What the caller holds is the serial answer up to where it is.
Prefix ==
    /\ answer.rows + 1 = at
    /\ answer.failed = 0
    /\ \A i \in doomed : at <= i

\* The first failure in order is the one to be raised.
FirstFailure ==
    /\ answer.failed \in doomed
    /\ answer.rows + 1 = answer.failed
    /\ \A i \in doomed : answer.failed <= i

AllRows == doomed = {} /\ answer = [rows |-> N, failed |-> 0]

Settled == AllRows \/ FirstFailure

Quiet == \A i \in Jobs : job[i] \notin {"queued", "running"}

ByPhase ==
    /\ phase \in {"serial", "collect"} => Prefix
    /\ phase = "submit" => answer = [rows |-> 0, failed |-> 0]
    /\ phase = "cancel" => FirstFailure /\ answer.failed <= at
    /\ phase \in {"shutdown", "returned"} => Settled
    /\ phase \in {"serial", "returned"} => Quiet

IInv == PoolTypeOK /\ Truthful /\ ByPhase

\* Nothing is queued, running or collected when analyze_node begins.
LEMMA InvInit == PoolInit => IInv
<1> SUFFICES ASSUME PoolInit PROVE IInv
  OBVIOUS
<1> USE SizesAssumption DEF PoolInit, Jobs
<1>1. PoolTypeOK
  BY DEF PoolTypeOK, JobStates, Phases, Answers
<1>2. Truthful /\ Quiet
  BY DEF Truthful, Quiet
<1>3. Prefix
  BY DEF Prefix
<1>4. QED  BY <1>1, <1>2, <1>3 DEF IInv, ByPhase

\* Every step of the caller and of the pool keeps the types.
LEMMA TypeStep == PoolTypeOK /\ [PoolNext]_poolVars => PoolTypeOK'
<1> SUFFICES ASSUME PoolTypeOK, [PoolNext]_poolVars PROVE PoolTypeOK'
  OBVIOUS
<1> USE SizesAssumption DEF PoolTypeOK, Jobs, JobStates, Phases, Answers, given
<1>1. CASE SerialStep
  BY <1>1 DEF SerialStep, Outcome
<1>r. CASE SerialReturn
  BY <1>r DEF SerialReturn
<1>2. CASE Submitted
  <2>1. at' \in 0..(N + 1) /\ phase' \in Phases
    BY <1>2 DEF Submitted
  <2>2. QED  BY <1>2, <2>1 DEF Submitted
<1>s. CASE Submit
  BY <1>s DEF Submit
<1>3. CASE Collect \/ Collected \/ MeetFailure
  BY <1>3 DEF Collect, Collected, MeetFailure
<1>c. CASE Cancel
  <2>1. job' \in [Jobs -> JobStates]
    BY <1>c DEF Cancel
  <2>2. at' \in 0..(N + 1)
    BY <1>c DEF Cancel
  <2>3. QED  BY <1>c, <2>1, <2>2 DEF Cancel
<1>4. CASE Cancelled \/ Return
  BY <1>4 DEF Cancelled, Return
<1>5. ASSUME NEW i \in Jobs, Start(i) \/ Finish(i) PROVE PoolTypeOK'
  BY <1>5 DEF Start, Finish, Outcome
<1>6. CASE UNCHANGED poolVars
  BY <1>6 DEF poolVars
<1>7. QED
  BY <1>1, <1>r, <1>2, <1>s, <1>3, <1>c, <1>4, <1>5, <1>6 DEF PoolNext, Caller

\* Only an analysis that ends sets an outcome, and sets the right one.
LEMMA TruthStep == PoolTypeOK /\ Truthful /\ [PoolNext]_poolVars => Truthful'
<1> SUFFICES ASSUME PoolTypeOK, Truthful, [PoolNext]_poolVars, NEW i \in Jobs
             PROVE  /\ job'[i] = "done" => i \notin doomed'
                    /\ job'[i] = "raised" => i \in doomed'
  BY DEF Truthful
<1>1. doomed' = doomed
  BY DEF PoolNext, Caller, SerialStep, SerialReturn, Submit, Submitted, Collect,
         Collected, MeetFailure, Cancel, Cancelled, Return, Start, Finish,
         poolVars, given
<1>2. \/ job'[i] = job[i]
      \/ job'[i] \in {"queued", "cancelled", "running"}
      \/ job'[i] = Outcome(i)
  BY DEF PoolTypeOK, PoolNext, Caller, SerialStep, SerialReturn, Submit, Submitted,
         Collect, Collected, MeetFailure, Cancel, Cancelled, Return, Start,
         Finish, poolVars
<1>3. QED  BY <1>1, <1>2 DEF Truthful, Outcome

\* The caller's steps: what it holds grows in order, or meets the first failure.
LEMMA CallerStep == IInv /\ Caller => ByPhase'
<1> SUFFICES ASSUME IInv, Caller PROVE ByPhase'
  OBVIOUS
<1>t. PoolTypeOK /\ PoolTypeOK' /\ Truthful /\ ByPhase
  BY TypeStep DEF IInv, PoolNext
<1> USE SizesAssumption DEF Jobs, given
<1>1. CASE SerialStep
  <2>1. Quiet'
    BY <1>t, <1>1 DEF SerialStep, ByPhase, Quiet, Outcome, PoolTypeOK
  <2>2. CASE at \in doomed
    <3>1. FirstFailure' /\ phase' = "returned"
      BY <1>t, <1>1, <2>2 DEF SerialStep, ByPhase, Prefix, FirstFailure, PoolTypeOK, Answers
    <3>2. QED  BY <2>1, <3>1 DEF ByPhase, Settled
  <2>3. CASE at \notin doomed
    <3>1. Prefix' /\ phase' = "serial"
      BY <1>t, <1>1, <2>3 DEF SerialStep, ByPhase, Prefix, PoolTypeOK, Answers
    <3>2. QED  BY <2>1, <3>1 DEF ByPhase
  <2>4. QED  BY <2>2, <2>3
<1>2. CASE SerialReturn
  <2>1. AllRows' /\ phase' = "returned"
    BY <1>t, <1>2 DEF SerialReturn, ByPhase, Prefix, AllRows, PoolTypeOK, Answers
  <2>2. Quiet'
    BY <1>t, <1>2 DEF SerialReturn, ByPhase, Quiet
  <2>3. QED  BY <2>1, <2>2 DEF ByPhase, Settled
<1>3. CASE Submit
  BY <1>t, <1>3 DEF Submit, ByPhase
<1>4. CASE Submitted
  <2>1. Prefix' /\ phase' = "collect"
    BY <1>t, <1>4 DEF Submitted, ByPhase, Prefix, PoolTypeOK
  <2>2. QED  BY <2>1 DEF ByPhase
<1>5. CASE Collect
  <2>1. at \notin doomed
    BY <1>t, <1>5 DEF Collect, Truthful
  <2>2. Prefix' /\ phase' = "collect"
    BY <1>t, <1>5, <2>1 DEF Collect, ByPhase, Prefix, PoolTypeOK, Answers
  <2>3. QED  BY <2>2 DEF ByPhase
<1>6. CASE Collected
  <2>1. AllRows' /\ phase' = "shutdown"
    BY <1>t, <1>6 DEF Collected, ByPhase, Prefix, AllRows, PoolTypeOK, Answers
  <2>2. QED  BY <2>1 DEF ByPhase, Settled
<1>7. CASE MeetFailure
  <2>1. at \in doomed
    BY <1>t, <1>7 DEF MeetFailure, Truthful
  <2>2. FirstFailure' /\ answer'.failed <= at' /\ phase' = "cancel"
    BY <1>t, <1>7, <2>1 DEF MeetFailure, ByPhase, Prefix, FirstFailure, PoolTypeOK, Answers
  <2>3. QED  BY <2>2 DEF ByPhase
<1>8. CASE Cancel
  <2>1. FirstFailure' /\ answer'.failed <= at' /\ phase' = "cancel"
    BY <1>t, <1>8 DEF Cancel, ByPhase, FirstFailure, PoolTypeOK, Answers
  <2>2. QED  BY <2>1 DEF ByPhase
<1>9. CASE Cancelled
  <2>1. FirstFailure' /\ phase' = "shutdown"
    BY <1>t, <1>9 DEF Cancelled, ByPhase, FirstFailure
  <2>2. QED  BY <2>1 DEF ByPhase, Settled
<1>10. CASE Return
  <2>1. Settled' /\ phase' = "returned"
    BY <1>t, <1>10 DEF Return, ByPhase, Settled, AllRows, FirstFailure
  <2>2. Quiet'
    BY <1>10 DEF Return, Quiet, Ended
  <2>3. QED  BY <2>1, <2>2 DEF ByPhase
<1>11. QED
  BY <1>1, <1>2, <1>3, <1>4, <1>5, <1>6, <1>7, <1>8, <1>9, <1>10 DEF Caller

\* The workers change neither where the caller is nor what it holds, and have
\* nothing to take in a quiet pool.
LEMMA WorkerStep ==
    ASSUME IInv, NEW i \in Jobs, Start(i) \/ Finish(i) PROVE ByPhase'
<1>1. UNCHANGED <<given, at, phase, answer>> /\ job[i] \in {"queued", "running"}
  BY DEF Start, Finish
<1>2. phase \notin {"serial", "returned"}
  BY <1>1 DEF IInv, ByPhase, Quiet
<1>3. QED
  BY <1>1, <1>2 DEF IInv, ByPhase, Prefix, FirstFailure, AllRows, Settled, given

\* Every step of the caller and of the pool keeps the invariant.
LEMMA InvStep == IInv /\ [PoolNext]_poolVars => IInv'
<1> SUFFICES ASSUME IInv, [PoolNext]_poolVars PROVE IInv'
  OBVIOUS
<1>1. PoolTypeOK' /\ Truthful'
  BY TypeStep, TruthStep DEF IInv
<1>2. ByPhase'
  <2>1. CASE UNCHANGED poolVars
    BY <2>1 DEF IInv, ByPhase, Prefix, FirstFailure, AllRows, Settled, Quiet,
                poolVars, given
  <2>2. QED  BY <2>1, CallerStep, WorkerStep DEF PoolNext
<1>3. QED  BY <1>1, <1>2 DEF IInv

\* The state of analyze_node and of its pool is well typed.
THEOREM TypeCorrect == PoolSpec => []PoolTypeOK
<1>1. IInv => PoolTypeOK
  BY DEF IInv
<1>2. QED  BY InvInit, InvStep, <1>1, PTL DEF PoolSpec

\* analyze_node returns all rows in order, or raises the failure that comes
\* first in order, however many workers there are and however they interleave.
THEOREM SerialAnswer == PoolSpec => []AnswerIsSerial
<1>1. IInv => AnswerIsSerial
  BY DEF IInv, ByPhase, Settled, AllRows, FirstFailure, AnswerIsSerial
<1>2. QED  BY InvInit, InvStep, <1>1, PTL DEF PoolSpec

\* When analyze_node is back, no deviation is queued or being analysed.
THEOREM NoneLeftRunning == PoolSpec => []NothingRunsOn
<1>1. IInv => NothingRunsOn
  BY DEF IInv, ByPhase, Quiet, NothingRunsOn
<1>2. QED  BY InvInit, InvStep, <1>1, PTL DEF PoolSpec
=============================================================================
