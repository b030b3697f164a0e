--------------------------- MODULE LabRunsProofs ---------------------------
(* Theorems about RunManager for every set of devices, run ids and faults,  *)
(* and about the page that polls it for any number of clicks.               *)
EXTENDS LabPage, TLAPS

\* The thread has computed final_state.
Concluded == {"settled", "released", "recorded", "over", "failed"}

OutcomeKnown == \A r \in Runs : stage[r] \in Concluded => outcome[r] \in Verdicts

TypeInv == TypeOK /\ OutcomeKnown

\* A line appended to the log keeps the log's type.
LEMMA AppendLineType ==
    ASSUME TypeOK, NEW r \in Runs, NEW v \in Verdicts, AppendLine(r, v)
    PROVE  file' \in Seq(Lines) /\ torn' \in BOOLEAN
<1>1. [run |-> r, state |-> v] \in Lines /\ Garbage \in Lines
  BY DEF Lines, Records
<1>2. PICK line \in Lines : file' = Append(file, line) /\ torn' = FALSE
  BY <1>1 DEF AppendLine
<1>3. file \in Seq(Lines)
  BY DEF TypeOK
<1>4. file' \in Seq(Lines)
  BY <1>2, <1>3
<1>5. torn' \in BOOLEAN
  BY <1>2
<1>6. QED  BY <1>4, <1>5

\* A hub that has just started is well typed.
LEMMA TypeInvInit == Init => TypeInv
<1>1. <<>> \in Seq(Lines)
  OBVIOUS
<1>2. QED
  BY <1>1 DEF Init, TypeInv, TypeOK, OutcomeKnown, States, Stages, Verdicts, Concluded

\* Every step of a run, of a fault and of a restart keeps the types.
LEMMA TypeInvStep == TypeInv /\ [Next]_vars => TypeInv'
<1> SUFFICES ASSUME TypeInv, [Next]_vars PROVE TypeInv'
  OBVIOUS
<1> USE DEF TypeInv, TypeOK, OutcomeKnown, States, Stages, Verdicts, Concluded
<1>1. ASSUME NEW r \in Runs, NEW d \in Devices, Register(r, d)
      PROVE  TypeInv'
  BY <1>1 DEF Register
<1>2. ASSUME NEW r \in Runs, ThreadStep(r) PROVE TypeInv'
  <2>1. CASE Spawn(r)  BY <2>1 DEF Spawn
  <2>2. CASE SpawnFails(r)  BY <2>2 DEF SpawnFails
  <2>3. ASSUME NEW v \in Verdicts, Settle(r, v) PROVE TypeInv'
    BY <2>3 DEF Settle
  <2>4. CASE Release(r)  BY <2>4 DEF Release
  <2>5. CASE Record(r)
    <3>1. outcome[r] \in Verdicts
      BY <2>5 DEF Record
    <3>2. file' \in Seq(Lines) /\ torn' \in BOOLEAN
      BY <2>5, <3>1, AppendLineType DEF Record
    <3>3. QED  BY <2>5, <3>2 DEF Record
  <2>6. CASE RecordFails(r)  BY <2>6 DEF RecordFails
  <2>7. CASE Flip(r)  BY <2>7 DEF Flip
  <2>8. QED
    BY <1>2, <2>1, <2>2, <2>3, <2>4, <2>5, <2>6, <2>7 DEF ThreadStep
<1>3. ASSUME NEW r \in Runs, NEW v \in Verdicts, HeadlessRun(r, v)
      PROVE  TypeInv'
  <2>1. file' \in Seq(Lines) /\ torn' \in BOOLEAN
    BY <1>3, AppendLineType DEF HeadlessRun
  <2>2. QED  BY <1>3, <2>1 DEF HeadlessRun
<1>4. CASE Crash  BY <1>4 DEF Crash
<1>5. CASE UNCHANGED vars  BY <1>5 DEF vars
<1>6. QED  BY <1>1, <1>2, <1>3, <1>4, <1>5 DEF Next

\* Every variable of the run manager keeps its type under all faults, and a
\* thread past fn has a verdict to record.
THEOREM TypeCorrect == Spec => [](TypeOK /\ OutcomeKnown)
<1>1. TypeInv <=> TypeOK /\ OutcomeKnown
  BY DEF TypeInv
<1>2. QED  BY <1>1, TypeInvInit, TypeInvStep, PTL DEF Spec

----------------------------------------------------------------------------
(* Mutual exclusion on devices. BusyIsOwned is what makes the guard of      *)
(* Register speak about runs; it needs the device of every owner to be one. *)

OwnersHaveDevices == \A r \in Owners : device[r] \in Devices

MutexInv == TypeInv /\ OwnersHaveDevices /\ BusyIsOwned /\ OneRunPerDevice

\* Every step keeps the busy set equal to what is owned, by one run per device.
LEMMA MutexStep == MutexInv /\ [Next]_vars => MutexInv'
<1> SUFFICES ASSUME MutexInv, [Next]_vars PROVE MutexInv'
  OBVIOUS
<1>0. TypeInv'
  BY TypeInvStep DEF MutexInv
<1> USE <1>0 DEF MutexInv, OwnersHaveDevices, BusyIsOwned, OneRunPerDevice,
                 Owners, Owning, Holding
<1>t. /\ device \in [Runs -> Devices \cup {NoDevice}]
      /\ stage \in [Runs -> Stages]
  BY DEF TypeInv, TypeOK
<1>1. ASSUME NEW r \in Runs, NEW d \in Devices, Register(r, d)
      PROVE  MutexInv'
  <2>1. r \notin Owners
    BY <1>1 DEF Register
  <2>2. Owners' = Owners \cup {r}
    BY <1>1, <1>t DEF Register
  <2>3. \A s \in Owners : s # r /\ device'[s] = device[s]
    BY <1>1, <1>t, <2>1 DEF Register
  <2>4. device'[r] = d /\ busy' = busy \cup {d} /\ d \notin busy
    BY <1>1, <1>t DEF Register
  <2>5. OneRunPerDevice'
    BY <2>2, <2>3, <2>4
  <2>6. BusyIsOwned'
    BY <2>2, <2>3, <2>4
  <2>7. OwnersHaveDevices'
    BY <2>2, <2>3, <2>4
  <2>8. QED  BY <2>5, <2>6, <2>7
<1>2. ASSUME NEW r \in Runs, ThreadStep(r) PROVE MutexInv'
  <2>1. CASE stage[r] # "settled"
    <3>1. Owners' = Owners /\ device' = device /\ busy' = busy
      BY <1>2, <1>t, <2>1
         DEF ThreadStep, Spawn, SpawnFails, Settle, Release, Record, RecordFails, Flip
    <3>2. QED  BY <3>1
  <2>2. CASE stage[r] = "settled"
    <3>1. Release(r)
      BY <1>2, <2>2
         DEF ThreadStep, Spawn, SpawnFails, Settle, Record, RecordFails, Flip
    <3>2. /\ r \in Owners
          /\ Owners' = Owners \ {r}
          /\ device' = device
          /\ busy' = busy \ {device[r]}
      BY <1>t, <3>1 DEF Release
    <3>3. QED  BY <3>2
  <2>3. QED  BY <2>1, <2>2
<1>3. ASSUME NEW r \in Runs, NEW v \in Verdicts, HeadlessRun(r, v)
      PROVE  MutexInv'
  <2>1. Owners' = Owners /\ device' = device /\ busy' = busy
    BY <1>3, <1>t DEF HeadlessRun
  <2>2. QED  BY <2>1
<1>4. CASE Crash
  <2>1. Owners' = {} /\ busy' = {}
    BY <1>4, <1>t DEF Crash
  <2>2. QED  BY <2>1
<1>5. CASE UNCHANGED vars  BY <1>5 DEF vars
<1>6. QED  BY <1>1, <1>2, <1>3, <1>4, <1>5 DEF Next

\* A device has at most one hub run at a time, and is busy exactly while one
\* owns it, whatever fails.
THEOREM DeviceMutex == Spec => []DevicesAreHeld
<1>1. Init => MutexInv
  BY TypeInvInit DEF Init, MutexInv, OwnersHaveDevices, BusyIsOwned,
                     OneRunPerDevice, Owners, Owning, Holding
<1>2. MutexInv => DevicesAreHeld
  BY DEF MutexInv, DevicesAreHeld
<1>3. QED  BY <1>1, <1>2, MutexStep, PTL DEF Spec

----------------------------------------------------------------------------
(* The log. A run is in the log only past Record; a visible verdict is that *)
(* of a run past Record.                                                    *)

\* What an append does to the lines.
LEMMA AppendLineLookup ==
    ASSUME file \in Seq(Lines), NEW r, NEW v, AppendLine(r, v)
    PROVE  /\ Len(file') = Len(file) + 1
           /\ \A i \in 1..Len(file) : file'[i] = file[i]
           /\ file'[Len(file')] = IF torn THEN Garbage
                                         ELSE [run |-> r, state |-> v]
<1> DEFINE line == IF torn THEN Garbage ELSE [run |-> r, state |-> v]
<1>1. file' = Append(file, line)
  BY DEF AppendLine
<1> HIDE DEF line
<1>2. /\ Len(file') = Len(file) + 1
      /\ \A i \in 1..Len(file) : file'[i] = file[i]
      /\ file'[Len(file')] = line
  BY <1>1
<1>3. QED  BY <1>2 DEF line

\* No step takes a line out of the log.
LEMMA LinesStay ==
    ASSUME TypeInv, [Next]_vars, NEW line, NEW i \in 1..Len(file),
           file[i] = line
    PROVE  i \in 1..Len(file') /\ file'[i] = line
<1>0. file \in Seq(Lines)
  BY DEF TypeInv, TypeOK
<1>1. CASE file' = file
  BY <1>1
<1>2. ASSUME NEW s, NEW w, AppendLine(s, w)
      PROVE  i \in 1..Len(file') /\ file'[i] = line
  <2>1. /\ Len(file') = Len(file) + 1
        /\ file'[i] = file[i]
    BY <1>0, <1>2, AppendLineLookup
  <2>2. i \in 1..Len(file')
    BY <1>0, <2>1
  <2>3. QED  BY <2>1, <2>2
<1>3. \/ file' = file
      \/ \E s \in Runs : AppendLine(s, outcome[s])
      \/ \E s \in Runs, w \in Verdicts : AppendLine(s, w)
  BY DEF Next, Register, ThreadStep, Spawn, SpawnFails, Settle, Release,
         Record, RecordFails, Flip, HeadlessRun, Crash, vars
<1>4. QED  BY <1>1, <1>2, <1>3

\* A record once logged, and a glued line once there, stay.
LEMMA LogGrows ==
    ASSUME TypeInv, [Next]_vars
    PROVE  /\ Glued => Glued'
           /\ \A r \in Runs : \A v : Logged(r, v) => Logged(r, v)'
BY LinesStay DEF Glued, Logged

\* An append leaves the record itself, or a line nobody reads.
LEMMA AppendLineLogs ==
    ASSUME TypeInv, NEW r \in Runs, NEW v \in Verdicts, AppendLine(r, v)
    PROVE  Glued' \/ \E i \in 1..Len(file') :
                        file'[i] = [run |-> r, state |-> v]
<1>1. file \in Seq(Lines)
  BY DEF TypeInv, TypeOK
<1>2. /\ Len(file') = Len(file) + 1
      /\ file'[Len(file')] = IF torn THEN Garbage
                                    ELSE [run |-> r, state |-> v]
  BY <1>1, AppendLineLookup
<1>3. Len(file') \in 1..Len(file')
  BY <1>1, <1>2
<1>4. QED  BY <1>2, <1>3 DEF Glued

\* The record is what Record writes, and a verdict is visible only on a
\* thread that has gone past it.
Kept == \A r \in Runs :
    /\ stage[r] \in {"recorded", "over"} => Logged(r, outcome[r])
    /\ state[r] \in Verdicts => stage[r] = "over" /\ state[r] = outcome[r]

PersistInv == TypeInv /\ (Glued \/ Kept)

\* Every step keeps visible verdicts logged, short of a glued line.
LEMMA PersistStep == PersistInv /\ [Next]_vars => PersistInv'
<1> SUFFICES ASSUME PersistInv, [Next]_vars PROVE Glued' \/ Kept'
  BY TypeInvStep DEF PersistInv
<1>t. /\ TypeInv
      /\ state \in [Runs -> States]
      /\ stage \in [Runs -> Stages]
      /\ outcome \in [Runs -> Verdicts \cup {"none"}]
      /\ file \in Seq(Lines)
      /\ OutcomeKnown
  BY DEF PersistInv, TypeInv, TypeOK
<1>g. CASE Glued
  BY <1>g, <1>t, LogGrows
<1>k. CASE Kept
  <2>i. \A r \in Runs :
          /\ stage[r] \in {"recorded", "over"} => Logged(r, outcome[r])
          /\ state[r] \in Verdicts => stage[r] = "over" /\ state[r] = outcome[r]
    BY <1>k DEF Kept
  <2>g. \A r \in Runs : outcome'[r] = outcome[r] /\ Logged(r, outcome[r])
                          => Logged(r, outcome[r])'
    <3> SUFFICES ASSUME NEW r \in Runs, outcome'[r] = outcome[r],
                        Logged(r, outcome[r])
                 PROVE  Logged(r, outcome[r])'
      OBVIOUS
    <3>1. \A v : Logged(r, v) => Logged(r, v)'
      BY <1>t, LogGrows
    <3>2. QED  BY <3>1 DEF Logged
  <2>1. ASSUME NEW r \in Runs, NEW d \in Devices, Register(r, d)
        PROVE  Kept'
    BY <2>1, <1>t, <2>i, <2>g DEF Register, Verdicts, Kept
  <2>2. ASSUME NEW r \in Runs, ThreadStep(r) PROVE Glued' \/ Kept'
    <3>1. CASE Spawn(r)
      BY <3>1, <1>t, <2>i, <2>g DEF Spawn, Verdicts, Kept
    <3>2. CASE SpawnFails(r)
      BY <3>2, <1>t, <2>i, <2>g DEF SpawnFails, Verdicts, Kept
    <3>3. ASSUME NEW v \in Verdicts, Settle(r, v) PROVE Kept'
      BY <3>3, <1>t, <2>i, <2>g DEF Settle, Verdicts, Kept
    <3>4. CASE Release(r)
      BY <3>4, <1>t, <2>i, <2>g DEF Release, Verdicts, Kept
    <3>5. CASE Record(r)
      <4>1. outcome[r] \in Verdicts /\ UNCHANGED outcome
        BY <3>5, <1>t DEF Record, OutcomeKnown, Concluded
      <4>2. Glued' \/ Logged(r, outcome[r])'
        BY <3>5, <4>1, <1>t, AppendLineLogs DEF Record, Logged
      <4>3. ASSUME Logged(r, outcome[r])' PROVE Kept'
        BY <3>5, <4>3, <1>t, <2>i, <2>g DEF Record, Verdicts, Kept
      <4>4. QED  BY <4>2, <4>3
    <3>6. CASE RecordFails(r)
      BY <3>6, <1>t, <2>i, <2>g DEF RecordFails, Verdicts, Kept
    <3>7. CASE Flip(r)
      BY <3>7, <1>t, <2>i, <2>g DEF Flip, Verdicts, Kept
    <3>8. QED
      BY <2>2, <3>1, <3>2, <3>3, <3>4, <3>5, <3>6, <3>7 DEF ThreadStep
  <2>3. ASSUME NEW r \in Runs, NEW v \in Verdicts, HeadlessRun(r, v)
        PROVE  Kept'
    BY <2>3, <1>t, <2>i, <2>g DEF HeadlessRun, Verdicts, Kept
  <2>4. CASE Crash
    BY <2>4, <1>t, <2>i, <2>g DEF Crash, Verdicts, Kept
  <2>5. CASE UNCHANGED vars
    BY <2>5, <1>t, <2>i, <2>g DEF vars, Verdicts, Kept
  <2>6. QED  BY <2>1, <2>2, <2>3, <2>4, <2>5 DEF Next
<1>q. QED  BY <1>g, <1>k DEF PersistInv

\* A poller that sees a verdict finds that verdict in the log, crashes and
\* failed appends included, unless a record was glued to half a line.
THEOREM VerdictPersisted == Spec => []PersistedBeforeVisible
<1>1. Init => PersistInv
  BY TypeInvInit DEF Init, PersistInv, Kept, Verdicts
<1>2. PersistInv => PersistedBeforeVisible
  BY DEF PersistInv, Kept, PersistedBeforeVisible
<1>3. QED  BY <1>1, <1>2, PersistStep, PTL DEF Spec

----------------------------------------------------------------------------
(* The log as the set of verdicts a reader finds in it.                     *)

Published == {file[i] : i \in 1..Len(file)} \cap Records

\* The line read_runs skips is not a record.
LEMMA GarbageIsNoRecord == Garbage \notin Records
<1> SUFFICES ASSUME Garbage \in Records PROVE FALSE
  OBVIOUS
<1>1. DOMAIN Garbage = {"run"}
  BY DEF Garbage
<1>2. DOMAIN Garbage = {"run", "state"}
  BY DEF Records
<1>3. QED  BY <1>1, <1>2

\* An append publishes the record, unless it is glued to a partial line.
LEMMA AppendLinePublishes ==
    ASSUME file \in Seq(Lines), NEW r \in Runs, NEW v \in Verdicts,
           AppendLine(r, v)
    PROVE  Published' = IF torn THEN Published
                        ELSE Published \cup {[run |-> r, state |-> v]}
<1> DEFINE line == IF torn THEN Garbage ELSE [run |-> r, state |-> v]
<1>1. /\ Len(file') = Len(file) + 1
      /\ \A i \in 1..Len(file) : file'[i] = file[i]
      /\ file'[Len(file')] = line
  BY AppendLineLookup
<1> HIDE DEF line
<1>2. Len(file) \in Nat
  OBVIOUS
<1>3. {file'[i] : i \in 1..Len(file')} = {file[i] : i \in 1..Len(file)} \cup {line}
  <2>1. 1..Len(file') = (1..Len(file)) \cup {Len(file')}
    BY <1>1, <1>2
  <2>2. QED  BY <1>1, <2>1
<1>4. [run |-> r, state |-> v] \in Records
  BY DEF Records
<1>5. QED  BY <1>3, <1>4, GarbageIsNoRecord DEF line, Published

\* The stages of a run whose record may be in the log.
Logging == {"recorded", "over", "killed", "headless"}

OnceInv ==
    /\ MutexInv
    /\ RecordedOnce
    /\ \A i \in 1..Len(file) :
        file[i] \in Records => stage[file[i].run] \in Logging

\* Published in terms of the second part of OnceInv.
LEMMA PublishedLogging ==
    ASSUME OnceInv, NEW p \in Published
    PROVE  p \in Records /\ p.run \in Runs /\ stage[p.run] \in Logging
BY DEF OnceInv, Published, Records

\* Every step keeps the records of the file distinct.
LEMMA OnceStep == OnceInv /\ [Next]_vars => OnceInv'
<1> SUFFICES ASSUME OnceInv, [Next]_vars PROVE OnceInv'
  OBVIOUS
<1>0. MutexInv'
  BY MutexStep DEF OnceInv
<1>t. /\ stage \in [Runs -> Stages]
      /\ outcome \in [Runs -> Verdicts \cup {"none"}]
      /\ file \in Seq(Lines)
      /\ OutcomeKnown
  BY DEF OnceInv, MutexInv, TypeInv, TypeOK
<1>o. /\ RecordedOnce
      /\ \A i \in 1..Len(file) :
           file[i] \in Records => stage[file[i].run] \in Logging
  BY DEF OnceInv
<1>r. \A p \in Records : p.run \in Runs
  BY DEF Records
\* A step that leaves the log alone and takes no run out of Logging.
<1>s. ASSUME file' = file,
             \A r \in Runs : stage[r] \in Logging => stage'[r] \in Logging
      PROVE  OnceInv'
  BY <1>0, <1>o, <1>r, <1>s DEF OnceInv, RecordedOnce
\* A step that appends the record of a run that had none.
<1>a. ASSUME NEW r \in Runs, NEW v \in Verdicts, AppendLine(r, v),
             stage[r] \notin Logging, NEW g \in Logging,
             stage' = [stage EXCEPT ![r] = g]
      PROVE  OnceInv'
  <2>1. /\ Len(file') = Len(file) + 1
        /\ \A i \in 1..Len(file) : file'[i] = file[i]
        /\ file'[Len(file')] = IF torn THEN Garbage
                                      ELSE [run |-> r, state |-> v]
    BY <1>t, <1>a, AppendLineLookup
  <2>2. Len(file) \in Nat
    BY <1>t
  <2>3. \A i \in 1..Len(file') : i \in 1..Len(file) \/ i = Len(file')
    BY <2>1, <2>2
  <2>4. file'[Len(file')] \in Records => file'[Len(file')].run = r
    BY <2>1, GarbageIsNoRecord
  <2>5. \A i \in 1..Len(file) : file[i] \in Records => file[i].run # r
    BY <1>o, <1>a
  <2>6. RecordedOnce'
    BY <1>o, <2>1, <2>3, <2>4, <2>5 DEF RecordedOnce
  <2>7. \A i \in 1..Len(file') :
          file'[i] \in Records => stage'[file'[i].run] \in Logging
    BY <1>o, <1>a, <1>r, <1>t, <2>1, <2>3, <2>4
  <2>8. QED  BY <1>0, <2>6, <2>7 DEF OnceInv
<1>1. ASSUME NEW r \in Runs, NEW d \in Devices, Register(r, d)
      PROVE  OnceInv'
  BY <1>1, <1>s, <1>t DEF Register, Logging
<1>2. ASSUME NEW r \in Runs, ThreadStep(r) PROVE OnceInv'
  <2>1. CASE Record(r)
    <3>1. outcome[r] \in Verdicts
      BY <2>1, <1>t DEF Record, OutcomeKnown, Concluded
    <3>2. QED  BY <2>1, <1>a, <3>1 DEF Record, Logging
  <2>2. CASE ~Record(r)
    BY <1>2, <2>2, <1>s, <1>t
       DEF ThreadStep, Spawn, SpawnFails, Settle, Release, RecordFails, Flip, Logging
  <2>3. QED  BY <2>1, <2>2
<1>3. ASSUME NEW r \in Runs, NEW v \in Verdicts, HeadlessRun(r, v)
      PROVE  OnceInv'
  BY <1>3, <1>a DEF HeadlessRun, Logging
<1>4. CASE Crash  BY <1>4, <1>s, <1>t DEF Crash, Logging
<1>5. CASE UNCHANGED vars  BY <1>5, <1>s DEF vars
<1>6. QED  BY <1>1, <1>2, <1>3, <1>4, <1>5 DEF Next

\* The empty file has no record twice.
LEMMA OnceInit == Init => OnceInv
BY TypeInvInit DEF Init, OnceInv, MutexInv, OwnersHaveDevices, BusyIsOwned,
                   OneRunPerDevice, Owners, Owning, Holding, RecordedOnce

\* No run is recorded twice, however appends fail and the hub restarts.
THEOREM NoDoubleRecord == Spec => []RecordedOnce
<1>1. OnceInv => RecordedOnce
  BY DEF OnceInv
<1>2. QED  BY <1>1, OnceInit, OnceStep, PTL DEF Spec

----------------------------------------------------------------------------
(* RunManager implements DeviceLease.                                       *)

Held == {<<device[r], r>> : r \in Owners}
Used == {r \in Runs : stage[r] # "idle"}

\* Every step of the run manager is a step of the lease or leaves it alone.
LEMMA LeaseStep == OnceInv /\ [Next]_vars => [Lease!Next]_(Lease!leaseVars)
<1> SUFFICES ASSUME OnceInv, [Next]_vars
             PROVE  [Lease!Next]_(Lease!leaseVars)
  OBVIOUS
<1>t. /\ device \in [Runs -> Devices \cup {NoDevice}]
      /\ stage \in [Runs -> Stages]
      /\ outcome \in [Runs -> Verdicts \cup {"none"}]
      /\ file \in Seq(Lines)
      /\ OutcomeKnown
      /\ OwnersHaveDevices
      /\ BusyIsOwned
  BY DEF OnceInv, MutexInv, TypeInv, TypeOK
<1>k. /\ UNCHANGED Held /\ UNCHANGED Used /\ UNCHANGED Published
        => UNCHANGED Lease!leaseVars
  BY DEF Lease!leaseVars, Held, Used, Published
<1>u. file' = file => UNCHANGED Published
  BY DEF Published
\* A record appended by a run that owns nothing and has not recorded yet.
<1>p. ASSUME NEW r \in Runs, NEW v \in Verdicts, AppendLine(r, v),
             stage[r] \notin Logging, r \notin Owners,
             UNCHANGED Held, Used' = Used \cup {r}
      PROVE  Lease!Next \/ UNCHANGED Lease!leaseVars
  <2>1. CASE torn
    <3>1. UNCHANGED Published
      BY <1>p, <1>t, <2>1, AppendLinePublishes
    <3>2. Lease!Discard(r)
      BY <1>p, <3>1 DEF Lease!Discard, Held, Used, Published
    <3>3. QED  BY <3>2 DEF Lease!Next
  <2>2. CASE ~torn
    <3>1. Published' = Published \cup {[run |-> r, state |-> v]}
      BY <1>p, <1>t, <2>2, AppendLinePublishes
    <3>2. \A p \in Published : p.run # r
      BY <1>p, PublishedLogging
    <3>3. \A h \in Held : h[2] # r
      BY <1>p DEF Held
    <3>4. Lease!Publish(r, v)
      BY <1>p, <3>1, <3>2, <3>3 DEF Lease!Publish, Held, Used, Published
    <3>5. QED  BY <3>4 DEF Lease!Next
  <2>3. QED  BY <2>1, <2>2
<1>1. ASSUME NEW r \in Runs, NEW d \in Devices, Register(r, d)
      PROVE  Lease!Next
  <2>1. /\ r \notin Owners
        /\ Owners' = Owners \cup {r}
    BY <1>1, <1>t DEF Register, Owners, Owning, Holding
  <2>2. /\ device'[r] = d
        /\ \A s \in Owners : device'[s] = device[s]
    BY <1>1, <1>t, <2>1 DEF Register, Owners
  <2>3. Held' = Held \cup {<<d, r>>}
    BY <2>1, <2>2 DEF Held
  <2>4. \A h \in Held : h[1] # d
    BY <1>1, <1>t DEF Register, Held, BusyIsOwned
  <2>5. r \notin Used /\ Used' = Used \cup {r}
    BY <1>1, <1>t DEF Register, Used
  <2>6. UNCHANGED Published
    BY <1>1, <1>u DEF Register
  <2>7. Lease!Take(d, r)
    BY <2>3, <2>4, <2>5, <2>6 DEF Lease!Take, Held, Used, Published
  <2>8. QED  BY <2>7 DEF Lease!Next
<1>2. ASSUME NEW r \in Runs, ThreadStep(r)
      PROVE  Lease!Next \/ UNCHANGED Lease!leaseVars
  <2>0. UNCHANGED Used
    BY <1>2, <1>t DEF ThreadStep, Spawn, SpawnFails, Settle, Release, Record,
                      RecordFails, Flip, Used
  <2>1. CASE Release(r)
    <3>1. /\ r \in Owners
          /\ Owners' = Owners \ {r}
          /\ device' = device
      BY <1>t, <2>1 DEF Release, Owners, Owning, Holding
    <3>2. /\ <<device[r], r>> \in Held
          /\ Held' = Held \ {<<device[r], r>>}
      BY <3>1 DEF Held
    <3>3. device[r] \in Devices
      BY <1>t, <3>1 DEF OwnersHaveDevices
    <3>4. UNCHANGED Published
      BY <1>u, <2>1 DEF Release
    <3>5. Lease!Return(device[r], r)
      BY <2>0, <3>2, <3>4 DEF Lease!Return, Held, Used, Published
    <3>6. QED  BY <3>3, <3>5 DEF Lease!Next
  <2>2. CASE Record(r)
    <3>1. outcome[r] \in Verdicts
      BY <1>t, <2>2 DEF Record, OutcomeKnown, Concluded
    <3>2. /\ r \notin Owners
          /\ Owners' = Owners
          /\ device' = device
      BY <1>t, <2>2 DEF Record, Owners, Owning, Holding
    <3>3. UNCHANGED Held
      BY <3>2 DEF Held
    <3>4. Used' = Used \cup {r}
      BY <2>0, <2>2 DEF Record, Used
    <3>5. stage[r] \notin Logging /\ AppendLine(r, outcome[r])
      BY <2>2 DEF Record, Logging
    <3>6. QED  BY <1>p, <3>1, <3>2, <3>3, <3>4, <3>5
  <2>3. CASE ~Release(r) /\ ~Record(r)
    <3>1. /\ Owners' = Owners
          /\ device' = device
          /\ file' = file
      BY <1>2, <1>t, <2>3 DEF ThreadStep, Spawn, SpawnFails, Settle,
                              RecordFails, Flip, Owners, Owning, Holding
    <3>2. UNCHANGED Held
      BY <3>1 DEF Held
    <3>3. QED  BY <1>k, <1>u, <2>0, <3>1, <3>2
  <2>4. QED  BY <2>1, <2>2, <2>3
<1>3. ASSUME NEW r \in Runs, NEW v \in Verdicts, HeadlessRun(r, v)
      PROVE  Lease!Next \/ UNCHANGED Lease!leaseVars
  <2>1. /\ r \notin Owners
        /\ Owners' = Owners
        /\ device' = device
    BY <1>3, <1>t DEF HeadlessRun, Owners, Owning, Holding
  <2>2. UNCHANGED Held
    BY <2>1 DEF Held
  <2>3. Used' = Used \cup {r}
    BY <1>3, <1>t DEF HeadlessRun, Used
  <2>4. stage[r] \notin Logging /\ AppendLine(r, v)
    BY <1>3 DEF HeadlessRun, Logging
  <2>5. QED  BY <1>p, <2>1, <2>2, <2>3, <2>4
<1>4. CASE Crash
  <2>1. Owners' = {}
    BY <1>4, <1>t DEF Crash, Owners, Owning, Holding
  <2>2. Held' = {}
    BY <2>1 DEF Held
  <2>3. UNCHANGED Used
    BY <1>4, <1>t DEF Crash, Used
  <2>4. UNCHANGED Published
    BY <1>4, <1>u DEF Crash
  <2>5. Lease!Restart
    BY <2>2, <2>3, <2>4 DEF Lease!Restart, Held, Used, Published
  <2>6. QED  BY <2>5 DEF Lease!Next
<1>5. CASE UNCHANGED vars
  <2>1. UNCHANGED Held /\ UNCHANGED Used /\ UNCHANGED Published
    BY <1>5 DEF vars, Held, Used, Published, Owners
  <2>2. QED  BY <1>k, <2>1
<1>6. QED  BY <1>1, <1>2, <1>3, <1>4, <1>5 DEF Next

\* Every behaviour of the threads, the registry and the log, faults included,
\* is one of the abstract lease.
THEOREM Implements == Spec => ImplementsLease
<1>1. Init => Lease!Init
  BY DEF Init, Lease!Init, Owners, Owning, Holding
<1>2. QED  BY <1>1, OnceInit, OnceStep, LeaseStep, PTL
              DEF Spec, ImplementsLease, Lease!Spec

----------------------------------------------------------------------------
(* The page. What a poll was answered stays true while the answer is on its *)
(* way: lines stay in the log, and a run that was killed stays dead.        *)

\* The page makes no step the run manager does not know.
LEMMA PageImplements == PageNext /\ (\A c \in Calls : call[c] = "posted" => Card \in Devices)
                            => [Next]_vars
<1> SUFFICES ASSUME PageNext, \A c \in Calls : call[c] = "posted" => Card \in Devices
             PROVE  [Next]_vars
  OBVIOUS
<1>1. CASE Elsewhere
  BY <1>1 DEF Elsewhere, Next
<1>2. CASE HubCrash
  BY <1>2 DEF HubCrash, Next
<1>3. ASSUME NEW c \in Calls, PageStep(c) PROVE [Next]_vars
  <2>1. CASE Post(c)
    BY <2>1 DEF Post, Next
  <2>2. CASE Click(c) \/ Accepted(c) \/ Refused(c) \/ Watch(c)
    BY <2>2 DEF Click, Accepted, Refused, Watch, Poll, Deliver
  <2>3. QED  BY <1>3, <2>1, <2>2 DEF PageStep
<1>4. QED  BY <1>1, <1>2, <1>3 DEF PageNext

\* A run this process has forgotten has been killed, was another process's, or
\* never was.
Forgotten == \A r \in Runs : state[r] = "absent" => stage[r] \in {"idle", "headless", "killed"}

\* The answer s to a poll for r.
Told(r, s) == /\ s \in Verdicts => Logged(r, s)
              /\ s = "absent" => stage[r] = "killed"

PageTypes ==
    /\ call \in [Calls -> {"none", "posted", "accepted", "refused", "polling", "over", "lost"}]
    /\ polled \in [Calls -> Runs \cup {NoRun}]
    /\ answers \in [Calls -> SUBSET States]

\* How a call stands to its run and its answers.
CallInv(c) ==
    /\ call[c] # "none" => Card \in Devices
    /\ call[c] \in {"accepted", "polling"} =>
          polled[c] \in Runs /\ stage[polled[c]] \notin {"idle", "headless"}
    /\ answers[c] # {} => call[c] \in {"polling", "over"} /\ polled[c] \in Runs

ShownInv ==
    /\ shown[1] \in {"done", "failed"} => shown[2] \in Runs
    /\ shown[1] = "done" => Logged(shown[2], "done")
    /\ shown[1] = "failed" => Logged(shown[2], "error") \/ stage[shown[2]] = "killed"

TellInv == ShownInv /\ \A c \in Calls : \A s \in answers[c] : Told(polled[c], s)

Watched == ~enabled => \E c \in Calls : call[c] = "polling"

PageInv ==
    /\ PersistInv /\ Forgotten
    /\ PageTypes /\ Watched
    /\ \A c \in Calls : CallInv(c)
    /\ Glued \/ TellInv

\* A run that has started never goes back, and a killed one stays killed.
LEMMA StagesMoveOn ==
    ASSUME TypeInv, [Next]_vars, NEW r \in Runs
    PROVE  /\ stage[r] = "killed" => stage'[r] = "killed"
           /\ stage[r] \notin {"idle", "headless"} => stage'[r] \notin {"idle", "headless"}
<1>1. stage \in [Runs -> Stages]
  BY DEF TypeInv, TypeOK
<1>2. QED
  BY <1>1 DEF Next, Register, ThreadStep, Spawn, SpawnFails, Settle, Release, Record,
              RecordFails, Flip, HeadlessRun, Crash, vars

\* What a restart has forgotten stays forgotten: no step of a run without a
\* status gives it one.
LEMMA ForgottenStep == TypeInv /\ Forgotten /\ [Next]_vars => Forgotten'
<1> SUFFICES ASSUME TypeInv, Forgotten, [Next]_vars,
                    NEW r \in Runs, state'[r] = "absent"
             PROVE  stage'[r] \in {"idle", "headless", "killed"}
  BY DEF Forgotten
<1>t. /\ stage \in [Runs -> Stages] /\ state \in [Runs -> States]
      /\ outcome \in [Runs -> Verdicts \cup {"none"}] /\ OutcomeKnown
  BY DEF TypeInv, TypeOK
<1>1. CASE Crash
  BY <1>t, <1>1 DEF Crash
<1>2. CASE state' = state /\ ~Crash
  BY <1>t, <1>2 DEF Forgotten, Next, Register, ThreadStep, Spawn, SpawnFails, Settle,
                    Release, Record, RecordFails, Flip, HeadlessRun, vars
<1>3. ASSUME NEW s \in Runs,
             \/ \E d \in Devices : Register(s, d)
             \/ Flip(s)
      PROVE  stage'[r] \in {"idle", "headless", "killed"}
  <2>1. s # r
    BY <1>t, <1>3 DEF Register, Flip, OutcomeKnown, Concluded, Verdicts
  <2>2. stage'[r] = stage[r] /\ state'[r] = state[r]
    BY <1>t, <1>3, <2>1 DEF Register, Flip
  <2>3. QED  BY <2>2 DEF Forgotten
<1>4. QED
  BY <1>1, <1>2, <1>3 DEF Next, ThreadStep, Spawn, SpawnFails, Settle, Release, Record,
                          RecordFails, HeadlessRun, vars

\* What has been said of a run stays true, whatever the hub does next.
LEMMA WordsStand ==
    ASSUME TypeInv, [Next]_vars
    PROVE  /\ Glued => Glued'
           /\ \A r \in Runs, s \in States : Told(r, s) => Told(r, s)'
           /\ ShownInv /\ UNCHANGED shown => ShownInv'
<1>1. /\ Glued => Glued'
      /\ \A r \in Runs : \A v : Logged(r, v) => Logged(r, v)'
  BY LogGrows
<1>2. \A r \in Runs : stage[r] = "killed" => stage'[r] = "killed"
  BY StagesMoveOn
<1>3. ASSUME NEW r \in Runs, NEW s \in States, Told(r, s) PROVE Told(r, s)'
  <2>1. Logged(r, s) => Logged(r, s)'
    BY <1>1
  <2>2. QED  BY <1>2, <1>3, <2>1 DEF Told
<1>4. ASSUME ShownInv, UNCHANGED shown PROVE ShownInv'
  <2>1. CASE shown[1] \notin {"done", "failed"}
    BY <1>4, <2>1 DEF ShownInv
  <2>2. CASE shown[1] = "done"
    <3>1. shown[2] \in Runs /\ Logged(shown[2], "done")
      BY <2>2, <1>4 DEF ShownInv
    <3>2. Logged(shown[2], "done")'
      BY <1>1, <1>4, <3>1 DEF Logged
    <3>3. QED  BY <1>4, <2>2, <3>1, <3>2 DEF ShownInv
  <2>3. CASE shown[1] = "failed"
    <3>1. shown[2] \in Runs /\ (Logged(shown[2], "error") \/ stage[shown[2]] = "killed")
      BY <2>3, <1>4 DEF ShownInv
    <3>2. Logged(shown[2], "error")' \/ stage'[shown[2]] = "killed"
      BY <1>1, <1>2, <1>4, <3>1 DEF Logged
    <3>3. QED  BY <1>4, <2>3, <3>1, <3>2 DEF ShownInv
  <2>4. QED  BY <2>1, <2>2, <2>3
<1>5. QED  BY <1>1, <1>3, <1>4

\* A step that only takes answers away, or leaves them, makes no new claim.
LEMMA AnswersStand ==
    ASSUME PageInv, [Next]_vars,
           \A c \in Calls : /\ answers'[c] \subseteq answers[c]
                            /\ answers'[c] # {} => polled'[c] = polled[c],
           Glued' \/ ShownInv'
    PROVE  Glued' \/ TellInv'
<1>1. TypeInv /\ PageTypes /\ (Glued \/ TellInv)
  BY DEF PageInv, PersistInv
<1>2. (Glued => Glued') /\ \A r \in Runs, s \in States : Told(r, s) => Told(r, s)'
  BY <1>1, WordsStand
<1>3. CASE TellInv
  <2> SUFFICES ASSUME NEW c \in Calls, NEW s \in answers'[c] PROVE Told(polled[c], s)'
    BY DEF TellInv, Told
  <2>1. s \in answers[c] /\ s \in States /\ answers[c] # {}
    BY <1>1 DEF PageTypes
  <2>2. polled[c] \in Runs
    BY <2>1 DEF PageInv, CallInv
  <2>3. QED  BY <1>2, <1>3, <2>1, <2>2 DEF TellInv
<1>4. QED  BY <1>1, <1>2, <1>3

\* A step that is none of the page's: the run manager moves on under it. A
\* crash takes the POSTs along.
LEMMA HubMoves ==
    ASSUME PageInv, Elsewhere \/ HubCrash, [Next]_vars
    PROVE  PageInv'
<1>t. /\ PersistInv /\ Forgotten /\ TypeInv /\ PageTypes /\ Watched
      /\ (Glued \/ TellInv) /\ \A c \in Calls : CallInv(c)
  BY DEF PageInv, PersistInv
<1>1. PersistInv' /\ Forgotten'
  BY <1>t, PersistStep, ForgottenStep
<1>2. /\ UNCHANGED <<polled, answers, enabled, shown>>
      /\ \A c \in Calls : \/ call'[c] = call[c]
                          \/ call[c] \in {"posted", "accepted", "refused"} /\ call'[c] = "lost"
      /\ PageTypes'
  <2>1. CASE UNCHANGED pageVars
    BY <1>t, <2>1 DEF pageVars, PageTypes
  <2>2. CASE HubCrash
    <3>1. UNCHANGED <<polled, answers, enabled, shown>>
      BY <2>2 DEF HubCrash
    <3>2. call' = [c \in Calls |->
            IF call[c] \in {"posted", "accepted", "refused"} THEN "lost" ELSE call[c]]
      BY <2>2 DEF HubCrash
    <3>3. QED  BY <1>t, <3>1, <3>2 DEF PageTypes
  <2>3. QED  BY <2>1, <2>2 DEF Elsewhere
<1>3. Watched'
  BY <1>t, <1>2 DEF Watched
<1>4. ASSUME NEW c \in Calls PROVE CallInv(c)'
  <2>1. \A r \in Runs : stage[r] \notin {"idle", "headless"}
                             => stage'[r] \notin {"idle", "headless"}
    BY <1>t, StagesMoveOn
  <2>2. QED  BY <1>t, <1>2, <2>1 DEF CallInv
<1>5. Glued' \/ ShownInv'
  BY <1>t, <1>2, WordsStand DEF TellInv
<1>6. Glued' \/ TellInv'
  BY <1>2, <1>5, AnswersStand
<1>7. QED  BY <1>1, <1>2, <1>3, <1>4, <1>6 DEF PageInv

\* A click, its POST, and the answer to it.
LEMMA CallMoves ==
    ASSUME PageInv, NEW c \in Calls,
           Click(c) \/ Post(c) \/ Accepted(c) \/ Refused(c), [Next]_vars
    PROVE  PageInv'
<1>t. /\ PersistInv /\ Forgotten /\ TypeInv /\ PageTypes /\ Watched
      /\ (Glued \/ TellInv) /\ \A e \in Calls : CallInv(e)
  BY DEF PageInv, PersistInv
<1>1. PersistInv' /\ Forgotten'
  BY <1>t, PersistStep, ForgottenStep
<1>m. \A r \in Runs : stage[r] \notin {"idle", "headless"}
                           => stage'[r] \notin {"idle", "headless"}
  BY <1>t, StagesMoveOn
<1>2. PageTypes' /\ answers' = answers
  BY <1>t DEF Click, Post, Accepted, Refused, PageTypes
<1>3. /\ call[c] \notin {"polling", "over"}
      /\ \A e \in Calls \ {c} : call'[e] = call[e] /\ polled'[e] = polled[e]
  BY <1>t DEF Click, Post, Accepted, Refused, PageTypes
<1>4. answers[c] = {}
  BY <1>t, <1>3 DEF CallInv
<1>5. Watched'
  <2>1. CASE Accepted(c)
    BY <1>t, <2>1 DEF Accepted, PageTypes, Watched
  <2>2. CASE enabled' = enabled
    BY <1>t, <1>3, <2>2 DEF Watched
  <2>3. QED  BY <2>1, <2>2 DEF Click, Post, Refused
<1>6. CallInv(c)'
  <2>1. CASE Click(c)
    BY <1>t, <1>4, <2>1, CardAssumption DEF Click, PageTypes, CallInv
  <2>2. CASE Post(c)
    <3>1. ASSUME NEW r \in Runs, Register(r, Card), polled' = [polled EXCEPT ![c] = r]
          PROVE  polled'[c] \in Runs /\ stage'[polled'[c]] \notin {"idle", "headless"}
      <4>1. stage \in [Runs -> Stages]
        BY <1>t DEF TypeInv, TypeOK
      <4>2. polled'[c] = r /\ stage'[r] = "spawning"
        BY <1>t, <3>1, <4>1 DEF Register, PageTypes
      <4>3. QED  BY <4>2
    <3>2. QED  BY <1>t, <1>4, <2>2, <3>1 DEF Post, PageTypes, CallInv
  <2>3. CASE Accepted(c)
    BY <1>t, <1>4, <2>3 DEF Accepted, PageTypes, CallInv, vars
  <2>4. CASE Refused(c)
    BY <1>t, <1>4, <2>4 DEF Refused, PageTypes, CallInv
  <2>5. QED  BY <2>1, <2>2, <2>3, <2>4
<1>7. ASSUME NEW e \in Calls PROVE CallInv(e)'
  BY <1>t, <1>m, <1>2, <1>3, <1>6 DEF CallInv
<1>8. Glued' \/ ShownInv'
  <2>1. CASE Click(c) \/ Refused(c)
    BY <2>1 DEF Click, Refused, ShownInv
  <2>2. CASE shown' = shown
    BY <1>t, <2>2, WordsStand DEF TellInv
  <2>3. QED  BY <2>1, <2>2 DEF Post, Accepted
<1>9. Glued' \/ TellInv'
  <2>1. \A e \in Calls : /\ answers'[e] \subseteq answers[e]
                         /\ answers'[e] # {} => polled'[e] = polled[e]
    BY <1>2, <1>3, <1>4
  <2>2. QED  BY <1>8, <2>1, AnswersStand
<1>10. QED  BY <1>1, <1>2, <1>5, <1>7, <1>9 DEF PageInv

\* A poll and its answer, late ones included.
LEMMA WatchMoves ==
    ASSUME PageInv, NEW c \in Calls, Watch(c)
    PROVE  PageInv'
<1>t. /\ PersistInv /\ Forgotten /\ TypeInv /\ PageTypes /\ Watched
      /\ (Glued \/ TellInv) /\ \A e \in Calls : CallInv(e)
      /\ state \in [Runs -> States]
  BY DEF PageInv, PersistInv, TypeInv, TypeOK
<1>v. UNCHANGED vars
  BY DEF Watch, Poll, Deliver
<1>1. PersistInv' /\ Forgotten'
  BY <1>t, <1>v, PersistStep, ForgottenStep
<1>w. /\ Glued' <=> Glued
      /\ \A r \in Runs, s \in States : Told(r, s)' <=> Told(r, s)
      /\ UNCHANGED stage
  BY <1>v DEF vars, Glued, Told, Logged
<1>2. CASE Poll(c)
  <2> DEFINE r == polled[c]
  <2>1. /\ call[c] = "polling" /\ r \in Runs
        /\ answers' = [answers EXCEPT ![c] = @ \cup {state[r]}]
        /\ UNCHANGED <<call, polled, enabled, shown>>
    BY <1>t, <1>2 DEF Poll, CallInv
  <2>2. ASSUME ~Glued PROVE Told(r, state[r])
    <3>1. state[r] \in Verdicts => Logged(r, state[r])
      BY <1>t, <2>1, <2>2 DEF PersistInv, Kept
    <3>2. state[r] = "absent" => stage[r] = "killed"
      BY <1>t, <2>1 DEF Forgotten, CallInv
    <3>3. QED  BY <3>1, <3>2 DEF Told
  <2> HIDE DEF r
  <2>3. PageTypes' /\ Watched'
    BY <1>t, <2>1 DEF PageTypes, Watched
  <2>4. ASSUME NEW e \in Calls PROVE CallInv(e)'
    BY <1>t, <1>w, <2>1 DEF CallInv, PageTypes, r
  <2>5. ASSUME ~Glued, NEW e \in Calls, NEW s \in answers'[e] PROVE Told(polled[e], s)'
    <3>1. s \in States /\ polled[e] \in Runs
      BY <1>t, <2>3, <2>4 , <2>1 DEF PageTypes, CallInv
    <3>2. CASE s \in answers[e]
      BY <1>t, <1>w, <2>1, <2>5, <3>1, <3>2 DEF TellInv
    <3>3. CASE s \notin answers[e]
      <4>1. e = c /\ s = state[r]
        BY <1>t, <2>1, <2>5, <3>3 DEF PageTypes
      <4>2. polled'[e] = r /\ Told(r, s)
        BY <2>1, <2>2, <2>5, <4>1 DEF r
      <4>3. QED  BY <1>w, <3>1, <4>2, <2>1
    <3>4. QED  BY <3>2, <3>3
  <2>6. Glued' \/ TellInv'
    <3>1. ShownInv' <=> ShownInv
      BY <1>v, <2>1 DEF vars, ShownInv, Logged
    <3>2. QED  BY <1>t, <1>w, <2>1, <2>5, <3>1 DEF TellInv, Told
  <2>7. QED  BY <1>1, <2>3, <2>4, <2>6 DEF PageInv
<1>3. ASSUME NEW s \in States, Deliver(c, s) PROVE PageInv'
  <2>1. /\ s \in answers[c] /\ polled[c] \in Runs
        /\ call[c] \in {"polling", "over"}
        /\ UNCHANGED polled /\ shown' = <<Text(s), polled[c]>>
        /\ answers' = [answers EXCEPT ![c] = @ \ {s}]
    BY <1>t, <1>3 DEF Deliver, CallInv
  <2>2. /\ \/ call' = [call EXCEPT ![c] = "over"] /\ enabled' = TRUE
           \/ UNCHANGED <<call, enabled>>
    BY <1>3 DEF Deliver
  <2>3. PageTypes' /\ Watched'
    BY <1>t, <2>1, <2>2 DEF PageTypes, Watched
  <2>4. \A e \in Calls : answers'[e] \subseteq answers[e]
    BY <1>t, <2>1 DEF PageTypes
  <2>5. ASSUME NEW e \in Calls PROVE CallInv(e)'
    BY <1>t, <1>w, <2>1, <2>2, <2>4 DEF CallInv, PageTypes
  <2>6. Glued' \/ ShownInv'
    <3>1. CASE Glued
      BY <1>w, <3>1
    <3>2. CASE ~Glued
      <4>1. Told(polled[c], s)
        BY <1>t, <2>1, <3>2 DEF TellInv
      <4>2. Told(polled[c], s)'
        BY <1>w, <2>1, <4>1
      <4>3. /\ shown'[1] = Text(s) /\ shown'[2] = polled[c]
        BY <2>1
      <4>4. /\ Text(s) = "done" => s = "done"
            /\ Text(s) = "failed" => s = "error" \/ s = "absent"
        BY DEF Text, States, Verdicts
      <4>5. QED  BY <1>v, <2>1, <4>1, <4>3, <4>4 DEF Told, ShownInv, Verdicts, vars, Logged
    <3>3. QED  BY <3>1, <3>2
  <2>7. Glued' \/ TellInv'
    BY <1>v, <2>1, <2>4, <2>6, AnswersStand
  <2>8. QED  BY <1>1, <2>3, <2>5, <2>7 DEF PageInv
<1>4. QED  BY <1>2, <1>3 DEF Watch

\* Every step of the page and of the run manager keeps the invariant of the card.
LEMMA PageInvStep == PageInv /\ [PageNext]_<<vars, pageVars>> => PageInv'
<1> SUFFICES ASSUME PageInv, [PageNext]_<<vars, pageVars>> PROVE PageInv'
  OBVIOUS
<1>1. CASE PageNext
  <2>1. [Next]_vars
    BY <1>1, PageImplements DEF PageInv, CallInv
  <2>2. QED
    BY <1>1, <2>1, HubMoves, CallMoves, WatchMoves DEF PageNext, PageStep
<1>2. CASE UNCHANGED <<vars, pageVars>>
  BY <1>2 DEF vars, pageVars, PageInv, PersistInv, TypeInv, TypeOK, OutcomeKnown, Kept,
              Forgotten, PageTypes, Watched, CallInv, TellInv, ShownInv, Told, Glued, Logged
<1>3. QED  BY <1>1, <1>2

\* A card that has asked for nothing shows nothing.
LEMMA PageInvInit == Init /\ PageInit => PageInv
<1> SUFFICES ASSUME Init, PageInit PROVE PageInv
  OBVIOUS
<1>1. PersistInv /\ Forgotten
  BY TypeInvInit DEF Init, PersistInv, Kept, Verdicts, Forgotten
<1>2. PageTypes /\ Watched /\ \A c \in Calls : CallInv(c)
  BY DEF PageInit, PageTypes, Watched, CallInv
<1>3. TellInv
  BY DEF PageInit, TellInv, ShownInv, Idle
<1>4. QED  BY <1>1, <1>2, <1>3 DEF PageInv

\* With the page in front of it the run manager does nothing it does not do
\* alone: everything proved of it holds for the hub as it is used.
THEOREM PageUsesRunManager == PageSpec => Spec
<1>1. PageInv /\ [PageNext]_<<vars, pageVars>> => [Next]_vars
  BY PageImplements DEF PageInv, CallInv, vars
<1>2. QED  BY PageInvInit, PageInvStep, <1>1, PTL DEF PageSpec, Spec

\* The end a card shows is the verdict in runs.jsonl, or the failure of a run
\* that went with its process, and its buttons are disabled only while a call
\* polls, in whatever order polls are answered and however often the hub is
\* killed.
THEOREM CardIsTruthful == PageSpec => []PageTellsTheTruth
<1>1. PageInv => PageTellsTheTruth
  BY DEF PageInv, Watched, TellInv, ShownInv, PageTellsTheTruth
<1>2. QED  BY PageInvInit, PageInvStep, <1>1, PTL DEF PageSpec
=============================================================================
