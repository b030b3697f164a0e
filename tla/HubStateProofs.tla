--------------------------- MODULE HubStateProofs ---------------------------
(* What the hub's requests share on disk stays right as long as the requests *)
(* that write do not meet: the requirements matrix (RtmStore) when no two    *)
(* POSTs are served at a time, the validator's run directories and working   *)
(* directory (DimUpload) when no two uploads are. Nothing in the code keeps  *)
(* them apart, so that is a hypothesis on the behaviour, and not on a        *)
(* constant: the theorems hold of any number of requests that follow one     *)
(* another, and the runs RtmStoreTwoWriters and DimUploadTogether show what  *)
(* happens without it.                                                       *)
EXTENDS ConfigCache, RtmStore, DimUpload, SuggestionLog, FiniteSetTheorems, TLAPS

----------------------------------------------------------------------------
(* RtmStore. Between two saves every block of the file is of one document,  *)
(* which has the values acknowledged; during a save, the blocks before the  *)
(* writer's offset are of the document it will acknowledge, and the file    *)
(* does not parse until the last one is.                                    *)

Alone == \A c, d \in Writers : c = d

Full(d) == [b \in 1..Blocks |-> d]

Agrees(d) == \A r \in Reqs : acked[r] # None => d[r] = acked[r]

\* The document c saves: its own change, and what others were promised.
Changed(c) ==
    /\ data[c] \in Docs
    /\ data[c][Wanted[c][1]] = Wanted[c][2]
    /\ \A r \in Reqs : r # Wanted[c][1] /\ acked[r] # None => data[c][r] = acked[r]

Settled == (\A c \in Clients : progress[c] # "writing") =>
               \E d \in whole : file = Full(d) /\ Agrees(d)

ClientInv(c) ==
    /\ Wanted[c] = None => progress[c] \in {"idle", "answered", "refused"}
    /\ Wanted[c] = None /\ progress[c] = "answered" => data[c] \in whole
    /\ progress[c] \in {"idle", "submitted", "saving"} => offset[c] = 0
    /\ progress[c] \in {"saving", "writing"} => Changed(c)
    /\ progress[c] = "writing" =>
          /\ file = [b \in 1..Blocks |-> IF b <= offset[c] THEN data[c] ELSE None]
          /\ offset[c] = Blocks => data[c] \in whole

MatrixInv == RtmTypeOK /\ Settled /\ \A c \in Clients : ClientInv(c)

\* The types of what the constants describe.
LEMMA WantedType ==
    ASSUME NEW c \in Clients, Wanted[c] # None
    PROVE  /\ Wanted[c] \in Reqs \X Values
           /\ Wanted[c][1] \in Reqs /\ Wanted[c][2] \in Values /\ Wanted[c][2] # None
<1>1. /\ Wanted \in [Clients -> (Reqs \X Values) \cup {None}]
      /\ None \notin Values
  BY ConstantsAssumption
<1>2. Wanted[c] \in Reqs \X Values
  BY <1>1
<1>3. QED  BY <1>1, <1>2

\* A file written from end to end is read as the document it is.
LEMMA FullParses ==
    ASSUME NEW d \in Docs, file = Full(d)
    PROVE  Parsed = d
<1>1. d # None /\ BlockOf \in [Reqs -> 1..Blocks]
  BY ConstantsAssumption
<1>2. \A b \in 1..Blocks : file[b] = d
  BY DEF Full
<1>3. Fits
  BY <1>1, <1>2 DEF Fits
<1>4. Parsed = [r \in Reqs |-> d[r]]
  BY <1>1, <1>2, <1>3 DEF Parsed
<1>5. QED  BY <1>4 DEF Docs

\* A file with a block missing is not read at all.
LEMMA HoleIsRefused ==
    ASSUME NEW b \in 1..Blocks, file[b] = None
    PROVE  Parsed = None
BY DEF Parsed, Fits

\* Before any request the file is whole and nothing has been acknowledged.
LEMMA MatrixInit == RtmInit => MatrixInv
<1> SUFFICES ASSUME RtmInit PROVE MatrixInv
  OBVIOUS
<1> USE ConstantsAssumption DEF RtmInit
<1>1. RtmTypeOK
  BY DEF RtmTypeOK, Progress
<1>2. Settled
  BY DEF Settled, Full, Agrees
<1>3. ASSUME NEW c \in Clients PROVE ClientInv(c)
  BY DEF ClientInv
<1>4. QED  BY <1>1, <1>2, <1>3 DEF MatrixInv

\* What a reader or a writer gets is nothing, or a document that was whole.
LEMMA ParsedIsWhole ==
    ASSUME MatrixInv
    PROVE  Parsed # None => Parsed \in whole /\ Parsed \in Docs
<1>t. RtmTypeOK /\ Blocks \in Nat \ {0} /\ None \notin Docs
  BY ConstantsAssumption DEF MatrixInv
<1>1. CASE \A c \in Clients : progress[c] # "writing"
  <2>1. PICK d \in whole : file = Full(d)
    BY <1>1 DEF MatrixInv, Settled
  <2>2. d \in Docs
    BY <1>t DEF RtmTypeOK
  <2>3. QED  BY <2>1, <2>2, FullParses
<1>2. ASSUME NEW c \in Clients, progress[c] = "writing"
      PROVE  Parsed # None => Parsed \in whole /\ Parsed \in Docs
  <2>0. offset[c] \in 0..Blocks
    BY <1>t DEF RtmTypeOK
  <2>1. /\ file = [b \in 1..Blocks |-> IF b <= offset[c] THEN data[c] ELSE None]
        /\ offset[c] = Blocks => data[c] \in whole
        /\ data[c] \in Docs
    BY <1>2 DEF MatrixInv, ClientInv, Changed
  <2>2. CASE offset[c] = Blocks
    <3>1. file = Full(data[c])
      BY <1>t, <2>1, <2>2 DEF Full
    <3>2. QED  BY <2>1, <2>2, <3>1, FullParses
  <2>3. CASE offset[c] # Blocks
    <3>1. Blocks \in 1..Blocks /\ ~(Blocks <= offset[c])
      BY <1>t, <2>0, <2>3
    <3>2. file[Blocks] = None
      BY <2>1, <3>1
    <3>3. QED  BY <3>1, <3>2, HoleIsRefused
  <2>4. QED  BY <2>2, <2>3
<1>3. QED  BY <1>1, <1>2

\* A step of c leaves what another client holds where it was, except that a
\* writer changes the file and the values acknowledged: there is no other one.
LEMMA OtherClients ==
    ASSUME MatrixInv, Alone, NEW c \in Clients, Request(c),
           NEW e \in Clients \ {c}
    PROVE  ClientInv(e)'
<1>t. RtmTypeOK /\ ClientInv(e) /\ ClientInv(c)
  BY DEF MatrixInv
<1>1. /\ progress'[e] = progress[e] /\ data'[e] = data[e]
      /\ offset'[e] = offset[e] /\ whole \subseteq whole'
  BY <1>t DEF RtmTypeOK, Request, Read, Submit, Load, Truncate, WriteBlock, Answer, Go
<1>2. CASE Read(c) \/ Submit(c) \/ Load(c)
  BY <1>t, <1>1, <1>2 DEF Read, Submit, Load, ClientInv, Changed
<1>3. CASE Truncate(c) \/ WriteBlock(c) \/ Answer(c)
  <2>1. Wanted[c] # None /\ progress[c] \in {"saving", "writing"}
    BY <1>t, <1>3 DEF Truncate, WriteBlock, Answer, ClientInv
  <2>2. c \in Writers /\ e \notin Writers
    BY <2>1 DEF Writers, Alone
  <2>3. progress[e] \notin {"saving", "writing"}
    BY <1>t, <2>2 DEF Writers, ClientInv
  <2>4. QED  BY <1>t, <1>1, <2>3 DEF ClientInv
<1>4. QED  BY <1>2, <1>3 DEF Request

\* The requests that do not write leave the disk as it is.
LEMMA QuietStep ==
    ASSUME MatrixInv, Alone, NEW c \in Clients, Read(c) \/ Submit(c) \/ Load(c)
    PROVE  MatrixInv'
<1>t. RtmTypeOK /\ ClientInv(c) /\ Settled
  BY DEF MatrixInv
<1>p. Parsed # None => Parsed \in whole /\ Parsed \in Docs
  BY ParsedIsWhole
<1>1. RtmTypeOK'
  <2>1. CASE Read(c)
    BY <1>t, <1>p, <2>1 DEF RtmTypeOK, Read, Go, Progress
  <2>2. CASE Submit(c)
    BY <1>t, <2>2 DEF RtmTypeOK, Submit, Go, Progress
  <2>3. CASE Load(c)
    <3>1. CASE Parsed = None
      BY <1>t, <2>3, <3>1 DEF RtmTypeOK, Load, Go, Progress
    <3>2. CASE Parsed # None
      <4>1. [Parsed EXCEPT ![Wanted[c][1]] = Wanted[c][2]] \in Docs
        <5>1. Wanted[c] # None
          BY <1>t, <2>3 DEF Load, ClientInv
        <5>2. QED  BY <1>p, <3>2, <5>1, WantedType DEF Docs
      <4>2. QED  BY <1>t, <2>3, <3>2, <4>1 DEF RtmTypeOK, Load, Go, Progress
    <3>3. QED  BY <3>1, <3>2
  <2>4. QED  BY <2>1, <2>2, <2>3
<1>2. Settled'
  <2>1. /\ \A e \in Clients : progress'[e] = "writing" <=> progress[e] = "writing"
        /\ UNCHANGED <<file, acked, whole>>
    BY <1>t DEF RtmTypeOK, Read, Submit, Load, Go
  <2>2. QED  BY <1>t, <2>1 DEF Settled, Agrees, Full
<1>3. ClientInv(c)'
  <2>1. CASE Read(c)
    BY <1>t, <1>p, <2>1 DEF RtmTypeOK, Read, Go, ClientInv
  <2>2. CASE Submit(c)
    BY <1>t, <2>2 DEF RtmTypeOK, Submit, Go, ClientInv
  <2>3. CASE Load(c) /\ Parsed = None
    BY <1>t, <2>3 DEF RtmTypeOK, Load, Go, ClientInv
  <2>4. CASE Load(c) /\ Parsed # None
    <3>1. Wanted[c] # None /\ progress[c] = "submitted"
      BY <1>t, <2>4 DEF Load, ClientInv
    <3>2. \A e \in Clients : progress[e] # "writing"
      <4>1. c \in Writers
        BY <3>1 DEF Writers
      <4>2. ASSUME NEW e \in Clients, progress[e] = "writing" PROVE FALSE
        <5>1. e \in Writers
          BY <4>2 DEF MatrixInv, ClientInv, Writers
        <5>2. QED  BY <3>1, <4>1, <4>2, <5>1 DEF Alone
      <4>3. QED  BY <4>2
    <3>3. PICK d \in whole : file = Full(d) /\ Agrees(d)
      BY <1>t, <3>2 DEF Settled
    <3>4. d \in Docs /\ Parsed = d
      BY <1>t, <3>3, FullParses DEF RtmTypeOK
    <3>5. Changed(c)'
      <4> DEFINE r0 == Wanted[c][1]
                 v0 == Wanted[c][2]
      <4>1. r0 \in Reqs /\ v0 \in Values
        BY <3>1, WantedType
      <4>2. data'[c] = [d EXCEPT ![r0] = v0] /\ acked' = acked
        BY <1>t, <2>4, <3>4 DEF RtmTypeOK, Load
      <4> HIDE DEF r0, v0
      <4>3. /\ data'[c] \in Docs /\ data'[c][r0] = v0
            /\ \A r \in Reqs : r # r0 => data'[c][r] = d[r]
        BY <3>4, <4>1, <4>2 DEF Docs
      <4>4. \A r \in Reqs : r # r0 /\ acked'[r] # None => data'[c][r] = acked'[r]
        BY <3>3, <4>2, <4>3 DEF Agrees
      <4>5. QED  BY <4>3, <4>4 DEF Changed, r0, v0
    <3>6. QED  BY <1>t, <2>4, <3>1, <3>5 DEF RtmTypeOK, Load, Go, ClientInv
  <2>5. QED  BY <2>1, <2>2, <2>3, <2>4
<1>4. ASSUME NEW e \in Clients PROVE ClientInv(e)'
  BY <1>3, OtherClients DEF Request
<1>5. QED  BY <1>1, <1>2, <1>4 DEF MatrixInv

\* A save, from truncation to acknowledgement.
LEMMA SaveStep ==
    ASSUME MatrixInv, Alone, NEW c \in Clients,
           Truncate(c) \/ WriteBlock(c) \/ Answer(c)
    PROVE  MatrixInv'
<1>t. RtmTypeOK /\ ClientInv(c)
  BY DEF MatrixInv
<1>b. Blocks \in Nat \ {0} /\ None \notin Docs
  BY ConstantsAssumption
<1>w. /\ Wanted[c] # None /\ progress[c] \in {"saving", "writing"}
      /\ Changed(c) /\ data[c] \in Docs
  BY <1>t DEF Truncate, WriteBlock, Answer, ClientInv, Changed
<1>o. \A e \in Clients : progress[e] = "writing" => e = c
  <2> SUFFICES ASSUME NEW e \in Clients, progress[e] = "writing" PROVE e = c
    OBVIOUS
  <2>1. e \in Writers /\ c \in Writers
    BY <1>w DEF MatrixInv, ClientInv, Writers
  <2>2. QED  BY <2>1 DEF Alone
<1>1. CASE Truncate(c)
  <2>1. RtmTypeOK'
    BY <1>t, <1>1 DEF RtmTypeOK, Truncate, Go, Progress
  <2>2. Settled'
    BY <1>t, <1>1 DEF Settled, RtmTypeOK, Truncate, Go
  <2>3. ClientInv(c)'
    <3>1. offset[c] = 0
      BY <1>t, <1>1 DEF Truncate, ClientInv
    <3>2. \A b \in 1..Blocks : ~(b <= 0)
      BY <1>b
    <3>3. file' = [b \in 1..Blocks |-> IF b <= offset'[c] THEN data'[c] ELSE None]
      BY <1>1, <3>1, <3>2 DEF Truncate
    <3>4. Changed(c)'
      BY <1>w, <1>1 DEF Truncate, Changed
    <3>5. QED  BY <1>t, <1>b, <1>1, <1>w, <3>1, <3>3, <3>4 DEF RtmTypeOK, Truncate, Go, ClientInv
  <2>4. QED  BY <2>1, <2>2, <2>3, OtherClients DEF MatrixInv, Request
<1>2. CASE WriteBlock(c)
  <2>0. offset[c] \in Nat /\ offset[c] + 1 \in 1..Blocks
    BY <1>t, <1>b, <1>2 DEF RtmTypeOK, WriteBlock
  <2>1. RtmTypeOK'
    BY <1>t, <1>w, <1>2, <2>0 DEF RtmTypeOK, WriteBlock
  <2>2. Settled'
    BY <1>t, <1>2 DEF Settled, WriteBlock
  <2>3. ClientInv(c)'
    <3>1. file = [b \in 1..Blocks |-> IF b <= offset[c] THEN data[c] ELSE None]
      BY <1>t, <1>2 DEF WriteBlock, ClientInv
    <3>2. offset'[c] = offset[c] + 1 /\ data'[c] = data[c]
      BY <1>t, <1>2 DEF RtmTypeOK, WriteBlock
    <3>3. file' = [b \in 1..Blocks |-> IF b <= offset[c] + 1 THEN data[c] ELSE None]
      <4>1. file' = [file EXCEPT ![offset[c] + 1] = data[c]]
        BY <1>2 DEF WriteBlock
      <4>2. \A b \in 1..Blocks : b <= offset[c] + 1 <=> b <= offset[c] \/ b = offset[c] + 1
        BY <1>b, <2>0
      <4>3. QED  BY <2>0, <3>1, <4>1, <4>2
    <3>4. offset[c] + 1 = Blocks => data[c] \in whole'
      BY <1>2, <2>0, <3>3 DEF WriteBlock
    <3>5. Changed(c)'
      BY <1>w, <1>2 DEF WriteBlock, Changed
    <3>6. progress'[c] = "writing"
      BY <1>2 DEF WriteBlock
    <3>7. QED  BY <1>w, <3>2, <3>3, <3>4, <3>5, <3>6 DEF ClientInv
  <2>4. QED  BY <2>1, <2>2, <2>3, OtherClients DEF MatrixInv, Request
<1>3. CASE Answer(c)
  <2>1. RtmTypeOK'
    BY <1>t, <1>w, <1>3, WantedType DEF RtmTypeOK, Answer, Go, Progress
  <2>2. Settled'
    <3>1. /\ file = [b \in 1..Blocks |-> IF b <= offset[c] THEN data[c] ELSE None]
          /\ offset[c] = Blocks /\ data[c] \in whole
      BY <1>t, <1>3 DEF Answer, ClientInv
    <3>2. file' = Full(data[c])
      BY <1>b, <1>3, <3>1 DEF Answer, Full
    <3>3. Agrees(data[c])'
      BY <1>t, <1>w, <1>3, WantedType DEF RtmTypeOK, Answer, Agrees, Changed
    <3>4. QED  BY <1>3, <3>1, <3>2, <3>3 DEF Settled, Answer, Agrees, Full
  <2>3. ClientInv(c)'
    BY <1>t, <1>w, <1>3 DEF RtmTypeOK, Answer, Go, ClientInv
  <2>4. QED  BY <2>1, <2>2, <2>3, OtherClients DEF MatrixInv, Request
<1>4. QED  BY <1>1, <1>2, <1>3

\* While one writer at most is at work, every step of a request keeps the
\* invariant of the matrix.
LEMMA MatrixStep == MatrixInv /\ Alone /\ [RtmNext]_rtmVars => MatrixInv'
<1> SUFFICES ASSUME MatrixInv, Alone, [RtmNext]_rtmVars PROVE MatrixInv'
  OBVIOUS
<1>1. ASSUME NEW c \in Clients, Request(c) PROVE MatrixInv'
  BY <1>1, QuietStep, SaveStep DEF Request
<1>2. CASE UNCHANGED rtmVars
  BY <1>2 DEF rtmVars, MatrixInv, RtmTypeOK, Settled, Full, Agrees, ClientInv, Changed
<1>3. QED  BY <1>1, <1>2 DEF RtmNext

\* The invariant of the matrix holds as long as no two POSTs overlap.
LEMMA MatrixAlways == RtmSpec /\ []Alone => []MatrixInv
BY MatrixInit, MatrixStep, PTL DEF RtmSpec

\* While no two POSTs overlap, what update_requirement has acknowledged is what
\* the file says once nothing is being written, for any number of requests and
\* any size of the file.
THEOREM AckedUpdatesStand == RtmSpec /\ []Alone => []AckedUpdateStands
<1>1. MatrixInv => AckedUpdateStands
  <2> SUFFICES ASSUME MatrixInv, Writers = {}
               PROVE  \A r \in Reqs : acked[r] # None =>
                         Parsed # None /\ Parsed[r] = acked[r]
    BY DEF AckedUpdateStands
  <2>1. \A c \in Clients : progress[c] # "writing"
    BY DEF Writers, MatrixInv, ClientInv
  <2>2. PICK d \in whole : file = Full(d) /\ Agrees(d)
    BY <2>1 DEF MatrixInv, Settled
  <2>3. d \in Docs /\ d # None /\ Parsed = d
    BY <2>2, FullParses, ConstantsAssumption DEF MatrixInv, RtmTypeOK
  <2>4. QED  BY <2>2, <2>3 DEF Agrees
<1>2. QED  BY <1>1, MatrixAlways, PTL

\* While no two POSTs overlap, a GET that is answered shows a document that was
\* on disk from end to end, however it falls into a save.
THEOREM ReadersSeeWholeFiles == RtmSpec /\ []Alone => []ReadersSeeWhole
<1>1. MatrixInv => ReadersSeeWhole
  BY DEF MatrixInv, ClientInv, ReadersSeeWhole
<1>2. QED  BY <1>1, MatrixAlways, PTL

\* Serving one POST at a time keeps the writers apart: the hypothesis above is
\* what the bound of the run HubState makes of every behaviour.
THEOREM OneWriterIsAlone ==
    ASSUME MaxWriters <= 1, IsFiniteSet(Clients)
    PROVE  RtmSpec => []Alone
<1> DEFINE Inv == progress \in [Clients -> Progress] /\ Alone
<1>1. RtmInit => Inv
  BY DEF RtmInit, Progress, Alone, Writers
<1>2. Inv /\ [RtmNext]_rtmVars => Inv'
  <2> SUFFICES ASSUME Inv, [RtmNext]_rtmVars PROVE Inv'
    OBVIOUS
  <2>1. ASSUME NEW c \in Clients, Submit(c) PROVE Inv'
    <3>1. IsFiniteSet(Writers)
      BY FS_Subset DEF Writers
    <3>2. Cardinality(Writers) \in Nat /\ Cardinality(Writers) < MaxWriters /\ MaxWriters \in Nat
      BY <2>1, <3>1, FS_CardinalityType, ConstantsAssumption DEF Submit
    <3>3. Writers = {}
      BY <3>1, <3>2, FS_EmptySet
    <3>4. Writers' = {c}
      BY <2>1, <3>3 DEF Submit, Go, Writers
    <3>5. QED  BY <2>1, <3>4 DEF Submit, Go, Progress, Alone
  <2>2. ASSUME NEW c \in Clients, Read(c) \/ Load(c) \/ Truncate(c) \/ WriteBlock(c) \/ Answer(c)
        PROVE  Inv'
    <3>1. Writers' \subseteq Writers /\ progress' \in [Clients -> Progress]
      BY <2>2 DEF Read, Load, Truncate, WriteBlock, Answer, Go, Writers, Progress
    <3>2. QED  BY <3>1 DEF Alone
  <2>3. CASE UNCHANGED rtmVars
    BY <2>3 DEF rtmVars, Alone, Writers
  <2>4. QED  BY <2>1, <2>2, <2>3 DEF RtmNext, Request
<1>3. QED  BY <1>1, <1>2, PTL DEF RtmSpec

----------------------------------------------------------------------------
(* DimUpload, the working directory. Between chdir and the end of the try    *)
(* block it is the upload's own, and the directory to go back to has been    *)
(* taken down in time.                                                       *)

OneByOne == \A u, v \in InFlight : u = v

\* What an upload on its way through run() relies on.
PlaceInv ==
    /\ InFlight = {} => cwd = Base
    /\ \A u \in Uploads :
          /\ step[u] \in {"saved", "captured"} => cwd = Base
          /\ step[u] = "captured" \/ step[u] \in Inside => home[u] = Base
          /\ step[u] \in Inside => cwd = slug[u]

----------------------------------------------------------------------------
(* DimUpload, the files. An upload at work has its own drawing open, and its *)
(* run directory holds nothing of another; a directory no upload has drawn   *)
(* yet is empty.                                                             *)

\* The slug is the second and the name: two uploads of one name in one second
\* get the same, and the code does not look.
Apart == \A u, v \in Uploads :
            step[u] # "idle" /\ step[v] # "idle" /\ slug[u] = slug[v] => u = v

UploadInv(u) ==
    /\ step[u] # "idle" =>
          /\ slug[u] \in Dirs
          /\ pdf[u] \in Paths /\ pdf[u][1] = slug[u]
          /\ \A k \in Kinds : files[slug[u]][k] \subseteq {u}
    /\ shows[u] \subseteq {u}
    /\ step[u] = "pointed" => global = pdf[u]
    /\ step[u] = "unwinding" \/ result[u] = "viewer" => files[slug[u]]["viewer"] = {u}
    /\ result[u] # "none" => step[u] = "over"

DirsInv == \A d \in Dirs : \/ \A k \in Kinds : files[d][k] = {}
                           \/ \E u \in Uploads : step[u] # "idle" /\ slug[u] = d

RunDirInv == DimTypeOK /\ PlaceInv /\ DirsInv /\ \A u \in Uploads : UploadInv(u)

\* Nobody else is at work while u is.
LEMMA OthersAreOver ==
    ASSUME DimTypeOK, OneByOne, NEW u \in Uploads, step[u] \notin {"idle", "over"},
           NEW v \in Uploads \ {u}
    PROVE  step[v] \in {"idle", "over"}
BY DEF OneByOne, InFlight

\* Before any upload the run directories are empty.
LEMMA RunDirInit == DimInit => RunDirInv
<1> SUFFICES ASSUME DimInit PROVE RunDirInv
  OBVIOUS
<1> USE UploadAssumption DEF DimInit
<1>1. DimTypeOK
  BY DEF DimTypeOK, Steps
<1>2. PlaceInv
  BY DEF PlaceInv, Inside
<1>3. DirsInv
  BY DEF DirsInv
<1>4. ASSUME NEW u \in Uploads PROVE UploadInv(u)
  BY DEF UploadInv
<1>5. QED  BY <1>1, <1>2, <1>3, <1>4 DEF RunDirInv

\* A write below the run directory of u, of nothing but its own drawing,
\* touches no directory of another upload.
LEMMA WriteStaysHome ==
    ASSUME DimTypeOK, Apart, NEW u \in Uploads, step[u] # "idle", UploadInv(u),
           NEW k \in Kinds, NEW content \in SUBSET {u},
           \/ files' = files
           \/ files' = [files EXCEPT ![slug[u]][k] = content]
    PROVE  /\ files' \in [Dirs -> [Kinds -> SUBSET Uploads]]
           /\ \A j \in Kinds : files'[slug[u]][j] \subseteq {u}
           /\ \A d \in Dirs : d # slug[u] => files'[d] = files[d]
<1>1. slug[u] \in Dirs /\ \A j \in Kinds : files[slug[u]][j] \subseteq {u}
  BY DEF UploadInv
<1>2. files \in [Dirs -> [Kinds -> SUBSET Uploads]]
  BY DEF DimTypeOK
<1>3. CASE files' = files
  BY <1>1, <1>2, <1>3
<1>4. CASE files' = [files EXCEPT ![slug[u]][k] = content]
  <2>1. files' = [files EXCEPT ![slug[u]] = [files[slug[u]] EXCEPT ![k] = content]]
    BY <1>4
  <2>2. [files[slug[u]] EXCEPT ![k] = content] \in [Kinds -> SUBSET Uploads]
    BY <1>1, <1>2
  <2>3. files'[slug[u]] = [files[slug[u]] EXCEPT ![k] = content]
    BY <1>1, <1>2, <2>1
  <2>4. \A j \in Kinds : files'[slug[u]][j] \subseteq {u}
    BY <1>1, <1>2, <2>3
  <2>5. QED  BY <1>1, <1>2, <2>1, <2>2, <2>4
<1>5. QED  BY <1>3, <1>4

\* What every stage of run() does to the state, and that it keeps the
\* invariant: it writes one file of the directory of u, which it stays in.
LEMMA StageKeeps ==
    ASSUME RunDirInv, OneByOne, Apart, NEW u \in Uploads, step[u] \in Inside,
           NEW to \in Inside, step' = [step EXCEPT ![u] = to],
           UNCHANGED <<clock, cwd, slug, home, result>>,
           NEW k \in Kinds, NEW content \in SUBSET {u},
           \/ files' = files
           \/ files' = [files EXCEPT ![slug[u]][k] = content],
           shows' \in [Uploads -> SUBSET Uploads], shows'[u] \subseteq {u},
           \A v \in Uploads \ {u} : shows'[v] = shows[v],
           pdf' \in [Uploads -> Paths \cup {Nowhere}],
           pdf'[u] \in Paths, pdf'[u][1] = slug[u],
           \A v \in Uploads \ {u} : pdf'[v] = pdf[v],
           global' \in Paths \cup {Nowhere},
           to = "pointed" => global' = pdf'[u],
           to = "unwinding" => files'[slug[u]]["viewer"] = {u}
    PROVE  RunDirInv'
<1>t. /\ DimTypeOK /\ PlaceInv /\ DirsInv /\ UploadInv(u)
      /\ step \in [Uploads -> Steps] /\ result[u] = "none"
  BY DEF RunDirInv, DimTypeOK, UploadInv, Inside
<1>i. step[u] \notin {"idle", "saved", "captured", "over"} /\ step[u] \in Steps
  BY DEF Inside
<1>j. to \notin {"idle", "saved", "captured", "over"} /\ to \in Steps
  BY DEF Inside
<1>f. /\ files' \in [Dirs -> [Kinds -> SUBSET Uploads]]
      /\ \A j \in Kinds : files'[slug[u]][j] \subseteq {u}
      /\ \A d \in Dirs : d # slug[u] => files'[d] = files[d]
  BY <1>t, <1>i, WriteStaysHome
<1>1. DimTypeOK'
  BY <1>t, <1>f, <1>j DEF DimTypeOK
<1>2. PlaceInv'
  <2>1. InFlight' # {}
    BY <1>t, <1>j DEF InFlight
  <2>2. QED  BY <1>t, <1>i, <1>j, <2>1 DEF PlaceInv, Inside
<1>3. DirsInv'
  <2> SUFFICES ASSUME NEW d \in Dirs
               PROVE  \/ \A j \in Kinds : files'[d][j] = {}
                      \/ \E v \in Uploads : step'[v] # "idle" /\ slug'[v] = d
    BY DEF DirsInv
  <2>1. \A v \in Uploads : step[v] # "idle" => step'[v] # "idle"
    BY <1>t, <1>j
  <2>2. QED  BY <1>t, <1>f, <1>i, <2>1 DEF DirsInv
<1>4. UploadInv(u)'
  BY <1>t, <1>f, <1>i, <1>j DEF UploadInv
<1>5. ASSUME NEW v \in Uploads \ {u} PROVE UploadInv(v)'
  <2>1. UploadInv(v) /\ step'[v] = step[v] /\ step[v] \in {"idle", "over"}
    BY <1>t, <1>i, OthersAreOver DEF RunDirInv
  <2>2. step[v] # "idle" => slug[v] \in Dirs /\ slug[v] # slug[u]
    BY <1>i, <2>1 DEF Apart, UploadInv
  <2>3. step[v] # "idle" => files'[slug[v]] = files[slug[v]]
    BY <1>f, <2>2
  <2>4. result[v] = "viewer" => step[v] # "idle"
    BY <2>1 DEF UploadInv
  <2>5. QED  BY <2>1, <2>3, <2>4 DEF UploadInv
<1>6. QED  BY <1>1, <1>2, <1>3, <1>4, <1>5 DEF RunDirInv

\* A path of u leads to nothing but its own drawing.
LEMMA ContentIsOwn ==
    ASSUME NEW u \in Uploads, UploadInv(u), step[u] # "idle"
    PROVE  Content(pdf[u]) \in SUBSET {u}
<1>1. pdf[u][2] \in Kinds /\ pdf[u][1] = slug[u]
  BY DEF UploadInv, Paths, Kinds
<1>2. QED  BY <1>1 DEF UploadInv, Content

\* The stages of run() up to the assembled drawing.
LEMMA StagesKeep ==
    ASSUME RunDirInv, OneByOne, Apart, NEW u \in Uploads,
           \/ \E how \in {"unscaled", "scaled"} : Normalize(u, how)
           \/ Calibrate(u) \/ Open(u)
           \/ \E route \in {"supported", "vision"} : Gate(u, route)
           \/ Index(u) \/ Trace(u) \/ Assemble(u) \/ Fallback(u)
    PROVE  RunDirInv'
<1>i. step[u] \in Inside
  BY DEF Normalize, Calibrate, Open, Gate, Index, Trace, Assemble, Fallback, Step,
         Inside, Steps
<1>t. /\ DimTypeOK /\ UploadInv(u) /\ cwd = slug[u] /\ step[u] # "idle"
      /\ shows \in [Uploads -> SUBSET Uploads] /\ shows[u] \subseteq {u}
      /\ pdf \in [Uploads -> Paths \cup {Nowhere}]
      /\ pdf[u] \in Paths /\ pdf[u][1] = slug[u] /\ global \in Paths \cup {Nowhere}
      /\ slug[u] \in Dirs
  BY <1>i DEF RunDirInv, DimTypeOK, PlaceInv, UploadInv, Inside
<1>c. Content(pdf[u]) \in SUBSET {u}
  BY <1>t, ContentIsOwn
<1> USE DEF Step, Advance, Write
<1>1. ASSUME NEW how \in {"unscaled", "scaled"}, Normalize(u, how) PROVE RunDirInv'
  <2>1. how \in Inside /\ how \notin {"pointed", "unwinding"} /\ "normalized" \in Kinds
    BY DEF Inside, Steps, Kinds
  <2>2. /\ step' = [step EXCEPT ![u] = how]
        /\ UNCHANGED <<clock, cwd, slug, home, result, global, pdf, shows>>
        /\ \/ files' = files
           \/ files' = [files EXCEPT ![slug[u]]["normalized"] = Content(pdf[u])]
    BY <1>1, <1>t DEF Normalize
  <2>3. QED  BY <1>i, <1>t, <1>c, <2>1, <2>2, StageKeeps
<1>2. CASE Calibrate(u)
  <2>1. "calibrated" \in Inside /\ "calibration" \in Kinds
    BY DEF Inside, Steps, Kinds
  <2>2. /\ step' = [step EXCEPT ![u] = "calibrated"]
        /\ UNCHANGED <<clock, cwd, slug, home, result, global, shows>>
        /\ files' = [files EXCEPT ![slug[u]]["calibration"] = Content(pdf[u])]
        /\ pdf' = pdf \/ pdf' = [pdf EXCEPT ![u] = <<slug[u], "normalized">>]
    BY <1>2, <1>t DEF Calibrate
  <2>3. <<slug[u], "normalized">> \in Paths
    BY <1>t DEF Paths
  <2>4. /\ pdf' \in [Uploads -> Paths \cup {Nowhere}]
        /\ pdf'[u] \in Paths /\ pdf'[u][1] = slug[u]
        /\ \A v \in Uploads \ {u} : pdf'[v] = pdf[v]
    BY <1>t, <2>2, <2>3
  <2>5. QED  BY <1>i, <1>t, <1>c, <2>1, <2>2, <2>4, StageKeeps
<1>3. CASE Open(u)
  <2>1. "opened" \in Inside /\ "source" \in Kinds
    BY DEF Inside, Steps, Kinds
  <2>2. /\ step' = [step EXCEPT ![u] = "opened"]
        /\ UNCHANGED <<clock, cwd, slug, home, result, global, files, pdf>>
        /\ shows' = [shows EXCEPT ![u] = Content(pdf[u])]
    BY <1>3 DEF Open
  <2>3. /\ shows' \in [Uploads -> SUBSET Uploads] /\ shows'[u] \subseteq {u}
        /\ \A v \in Uploads \ {u} : shows'[v] = shows[v]
    BY <1>t, <1>c, <2>2
  <2>4. /\ UNCHANGED <<clock, cwd, slug, home, result>> /\ files' = files
        /\ pdf' \in [Uploads -> Paths \cup {Nowhere}]
        /\ pdf'[u] \in Paths /\ pdf'[u][1] = slug[u]
        /\ \A v \in Uploads \ {u} : pdf'[v] = pdf[v]
        /\ global' \in Paths \cup {Nowhere}
    BY <1>t, <2>2
  <2> HIDE DEF Step, Advance, Write
  <2>5. "opened" \notin {"pointed", "unwinding"} /\ step' = [step EXCEPT ![u] = "opened"]
    BY <2>2
  <2>6. QED  BY <1>i, <1>c, <2>1, <2>3, <2>4, <2>5, StageKeeps
\* The later ones write the open drawing, under a name of their own.
<1>w. ASSUME NEW to \in Inside \ {"pointed", "unwinding"}, NEW k \in Kinds,
             NEW content \in SUBSET {u},
             step' = [step EXCEPT ![u] = to],
             UNCHANGED <<clock, cwd, slug, home, result, global, pdf, shows>>,
             files' = [files EXCEPT ![slug[u]][k] = content]
      PROVE  RunDirInv'
  BY <1>i, <1>t, <1>w, StageKeeps
<1>4. ASSUME NEW route \in {"supported", "vision"}, Gate(u, route) PROVE RunDirInv'
  <2>1. route \in Inside \ {"pointed", "unwinding"} /\ "compat" \in Kinds
    BY DEF Inside, Steps, Kinds
  <2>2. QED  BY <1>t, <1>w, <1>4, <2>1 DEF Gate
<1>5. CASE Index(u)
  <2>1. "indexed" \in Inside \ {"pointed", "unwinding"} /\ "index" \in Kinds
    BY DEF Inside, Steps, Kinds
  <2>2. QED  BY <1>t, <1>w, <1>5, <2>1 DEF Index
<1>6. CASE Trace(u)
  <2>1. "traced" \in Inside \ {"pointed", "unwinding"} /\ "graph" \in Kinds
    BY DEF Inside, Steps, Kinds
  <2>2. QED  BY <1>t, <1>w, <1>6, <2>1 DEF Trace
<1>7. CASE Assemble(u)
  <2>1. "assembled" \in Inside \ {"pointed", "unwinding"} /\ {"topology", "graph"} \subseteq Kinds
    BY DEF Inside, Steps, Kinds
  <2>2. files[slug[u]]["graph"] \subseteq {u}
    BY <1>t, <2>1 DEF UploadInv
  <2>3. shows[u] \cup files[cwd]["graph"] \in SUBSET {u}
    BY <1>t, <2>2
  <2>4. QED  BY <1>t, <1>w, <1>7, <2>1, <2>3 DEF Assemble
<1>8. CASE Fallback(u)
  <2>1. "assembled" \in Inside \ {"pointed", "unwinding"} /\ "topology" \in Kinds
    BY DEF Inside, Steps, Kinds
  <2>2. QED  BY <1>t, <1>w, <1>8, <2>1 DEF Fallback
<1>9. QED  BY <1>1, <1>2, <1>3, <1>4, <1>5, <1>6, <1>7, <1>8

\* The viewer: page images by way of the global, which is the upload's own from
\* PointViewer to BuildViewer.
LEMMA ViewerKeeps ==
    ASSUME RunDirInv, OneByOne, Apart, NEW u \in Uploads,
           PointViewer(u) \/ BuildViewer(u)
    PROVE  RunDirInv'
<1>i. step[u] \in Inside
  BY DEF PointViewer, BuildViewer, Step, Inside, Steps
<1>t. /\ DimTypeOK /\ UploadInv(u) /\ cwd = slug[u] /\ step[u] # "idle"
      /\ shows \in [Uploads -> SUBSET Uploads] /\ shows[u] \subseteq {u}
      /\ pdf \in [Uploads -> Paths \cup {Nowhere}]
      /\ pdf[u] \in Paths /\ pdf[u][1] = slug[u] /\ global \in Paths \cup {Nowhere}
      /\ slug[u] \in Dirs /\ files \in [Dirs -> [Kinds -> SUBSET Uploads]]
  BY <1>i DEF RunDirInv, DimTypeOK, PlaceInv, UploadInv, Inside
<1>c. Content(pdf[u]) \in SUBSET {u}
  BY <1>t, ContentIsOwn
<1> USE DEF Step, Advance, Write
<1>1. CASE PointViewer(u)
  <2>1. "pointed" \in Inside /\ "source" \in Kinds
    BY DEF Inside, Steps, Kinds
  <2>2. /\ step' = [step EXCEPT ![u] = "pointed"]
        /\ UNCHANGED <<clock, cwd, slug, home, result, files, pdf, shows>>
        /\ global' = pdf[u]
    BY <1>1 DEF PointViewer
  <2>3. QED  BY <1>i, <1>t, <1>c, <2>1, <2>2, StageKeeps
<1>2. CASE BuildViewer(u)
  <2>1. "unwinding" \in Inside /\ {"viewer", "topology", "compat"} \subseteq Kinds
    BY DEF Inside, Steps, Kinds
  <2> DEFINE content == Content(global) \cup files[cwd]["topology"] \cup files[cwd]["compat"]
  <2>2. global = pdf[u]
    BY <1>t, <1>2 DEF BuildViewer, UploadInv
  <2>3. /\ files[slug[u]]["topology"] \subseteq {u} /\ files[slug[u]]["topology"] # {}
        /\ files[slug[u]]["compat"] \subseteq {u}
    BY <1>t, <1>2, <2>1 DEF BuildViewer, UploadInv
  <2>4. content = {u}
    BY <1>t, <1>c, <2>2, <2>3
  <2> HIDE DEF content
  <2>5. /\ step' = [step EXCEPT ![u] = "unwinding"]
        /\ UNCHANGED <<clock, cwd, slug, home, result, global, pdf, shows>>
        /\ files' = [files EXCEPT ![slug[u]]["viewer"] = content]
    BY <1>2, <1>t DEF BuildViewer, content
  <2>6. files'[slug[u]]["viewer"] = {u}
    BY <1>t, <2>1, <2>4, <2>5
  <2>7. QED  BY <1>i, <1>t, <2>1, <2>4, <2>5, <2>6, StageKeeps
<1>3. QED  BY <1>1, <1>2

\* Which stages there are, by what they do to the step of the upload: none
\* changes directory.
LEMMA StageMoves ==
    ASSUME NEW u \in Uploads,
           \/ \E how \in {"unscaled", "scaled"} : Normalize(u, how)
           \/ Calibrate(u) \/ Open(u)
           \/ \E route \in {"supported", "vision"} : Gate(u, route)
           \/ Index(u) \/ Trace(u) \/ Assemble(u) \/ Fallback(u)
           \/ PointViewer(u) \/ BuildViewer(u)
    PROVE  /\ step[u] \in Inside
           /\ \E to \in Inside : step' = [step EXCEPT ![u] = to]
           /\ UNCHANGED <<clock, cwd, slug, home>>
BY DEF Normalize, Calibrate, Open, Gate, Index, Trace, Assemble, Fallback, PointViewer,
       BuildViewer, Step, Advance, Inside, Steps

PlaceTypes ==
    /\ clock \in 0..MaxClock
    /\ cwd \in Dirs \cup {Base}
    /\ step \in [Uploads -> Steps]
    /\ slug \in [Uploads -> Dirs \cup {Base}]
    /\ home \in [Uploads -> Dirs \cup {Base}]

\* Into the run directory and out of it: who comes next finds the process where
\* it was started, however the one before has ended.
LEMMA PlaceStep ==
    PlaceTypes /\ PlaceInv /\ OneByOne /\ OneByOne' /\ [DimNext]_dimVars
        => (PlaceTypes /\ PlaceInv)'
<1> SUFFICES ASSUME PlaceTypes, PlaceInv, OneByOne, OneByOne', [DimNext]_dimVars
             PROVE  (PlaceTypes /\ PlaceInv)'
  OBVIOUS
<1>o. ASSUME NEW u \in Uploads, NEW v \in Uploads \ {u}, step[u] \notin {"idle", "over"}
      PROVE  step[v] \in {"idle", "over"}
  BY <1>o DEF OneByOne, InFlight
<1>s. "saved" \in Steps /\ "captured" \in Steps /\ "over" \in Steps /\ "entered" \in Inside
  BY DEF Steps, Inside
<1> USE DEF PlaceTypes, PlaceInv, Inside
<1>1. CASE Tick
  BY <1>1, UploadAssumption DEF Tick, local, InFlight
<1>2. ASSUME NEW u \in Uploads, Save(u) PROVE (PlaceTypes /\ PlaceInv)'
  <2>1. step' = [step EXCEPT ![u] = "saved"] /\ step[u] = "idle"
        /\ slug' = [slug EXCEPT ![u] = <<clock, FileName[u]>>]
        /\ UNCHANGED <<clock, cwd, home>>
    BY <1>2 DEF Save, Advance
  <2>2. <<clock, FileName[u]>> \in Dirs
    BY DEF Dirs, Names
  <2>3. InFlight' = InFlight \cup {u}
    BY <2>1, <1>s DEF InFlight
  <2>4. InFlight = {}
    BY <2>1, <2>3 DEF OneByOne, InFlight
  <2>5. cwd = Base /\ \A v \in Uploads : step[v] \in {"idle", "over"}
    BY <2>4 DEF InFlight
  <2>6. QED  BY <1>s, <2>1, <2>2, <2>3, <2>5
<1>3. ASSUME NEW u \in Uploads, Capture(u) PROVE (PlaceTypes /\ PlaceInv)'
  <2>1. u \in InFlight' /\ cwd = Base
    BY <1>3, <1>s DEF Capture, Advance, InFlight
  <2>2. QED  BY <1>3, <1>s, <1>o, <2>1 DEF Capture, Advance
<1>4. ASSUME NEW u \in Uploads, Enter(u) PROVE (PlaceTypes /\ PlaceInv)'
  <2>1. u \in InFlight' /\ "entered" \in Steps
    BY <1>4, <1>s DEF Enter, Advance, InFlight
  <2>2. QED  BY <1>4, <1>s, <1>o, <2>1 DEF Enter, Advance
<1>5. ASSUME NEW u \in Uploads, Fail(u) \/ Restore(u) PROVE (PlaceTypes /\ PlaceInv)'
  <2>1. /\ step[u] \in Inside /\ step' = [step EXCEPT ![u] = "over"]
        /\ cwd' = home[u] /\ UNCHANGED <<clock, slug, home>>
    BY <1>5 DEF Fail, Restore, Leave, Advance, Steps
  <2>2. home[u] = Base
    BY <2>1
  <2>3. \A v \in Uploads : step'[v] \in {"idle", "over"}
    BY <1>o, <2>1
  <2>4. QED  BY <1>s, <2>1, <2>2, <2>3
<1>6. ASSUME NEW u \in Uploads, step[u] \in Inside,
             \E to \in Inside : step' = [step EXCEPT ![u] = to],
             UNCHANGED <<clock, cwd, slug, home>>
      PROVE  (PlaceTypes /\ PlaceInv)'
  <2>1. u \in InFlight'
    BY <1>6 DEF InFlight
  <2>2. QED  BY <1>6, <2>1
<1>7. CASE UNCHANGED dimVars
  BY <1>7 DEF dimVars, local, InFlight
<1>8. QED
  BY <1>1, <1>2, <1>3, <1>4, <1>5, <1>6, <1>7, StageMoves DEF DimNext, Handler

\* While uploads follow one another, every stage's relative paths resolve in the
\* upload's own run directory, and the process comes back to where it was
\* started, whichever stage fails: the chdir in the finally clause of run().
THEOREM StagesWorkInPlace == DimSpec /\ []OneByOne => []WorksInPlace
<1>1. DimInit => PlaceTypes /\ PlaceInv
  BY RunDirInit DEF RunDirInv, DimTypeOK, PlaceTypes
<1>2. PlaceInv => WorksInPlace
  BY DEF PlaceInv, WorksInPlace
<1>3. QED  BY <1>1, <1>2, PlaceStep, PTL DEF DimSpec

\* While uploads come one by one and at different seconds, every stage keeps
\* the directories of the runs apart.
LEMMA RunDirStep ==
    RunDirInv /\ OneByOne /\ OneByOne' /\ Apart /\ Apart' /\ [DimNext]_dimVars
        => RunDirInv'
<1> SUFFICES ASSUME RunDirInv, OneByOne, OneByOne', Apart, Apart', [DimNext]_dimVars
             PROVE  RunDirInv'
  OBVIOUS
<1>t. DimTypeOK /\ DirsInv /\ PlaceInv /\ \A v \in Uploads : UploadInv(v)
  BY DEF RunDirInv
<1>p. PlaceInv'
  BY PlaceStep DEF RunDirInv, DimTypeOK, PlaceTypes
<1>s. "saved" \in Steps /\ "captured" \in Steps /\ "over" \in Steps /\ "entered" \in Steps
  BY DEF Steps
<1>1. CASE Tick \/ UNCHANGED dimVars
  <2>1. clock' \in 0..MaxClock /\ UNCHANGED <<cwd, global, files, local>>
    BY <1>t, <1>1, UploadAssumption DEF Tick, dimVars, DimTypeOK
  <2>2. DimTypeOK' /\ DirsInv' /\ \A v \in Uploads : UploadInv(v)'
    BY <1>t, <2>1 DEF local, DimTypeOK, DirsInv, UploadInv
  <2>3. QED  BY <1>p, <2>2 DEF RunDirInv
<1>2. ASSUME NEW u \in Uploads, Save(u) PROVE RunDirInv'
  <2> DEFINE dir == <<clock, FileName[u]>>
  <2>1. dir \in Dirs /\ <<dir, "source">> \in Paths /\ "source" \in Kinds
    BY <1>t DEF DimTypeOK, Dirs, Names, Paths, Kinds
  <2> HIDE DEF dir
  <2>2. /\ step[u] = "idle" /\ step' = [step EXCEPT ![u] = "saved"]
        /\ slug' = [slug EXCEPT ![u] = dir]
        /\ pdf' = [pdf EXCEPT ![u] = <<dir, "source">>]
        /\ files' = [files EXCEPT ![dir]["source"] = {u}]
        /\ UNCHANGED <<clock, cwd, global, home, shows, result>>
    BY <1>2 DEF Save, Advance, dir
  <2>3. /\ step'[u] = "saved" /\ slug'[u] = dir /\ pdf'[u] = <<dir, "source">>
        /\ \A v \in Uploads \ {u} :
              step'[v] = step[v] /\ slug'[v] = slug[v] /\ pdf'[v] = pdf[v]
    BY <1>t, <2>2 DEF DimTypeOK
  <2>4. \A v \in Uploads : step[v] # "idle" => slug[v] # dir
    BY <2>2, <2>3 DEF Apart
  <2>5. \A k \in Kinds : files[dir][k] = {}
    BY <1>t, <2>1, <2>4 DEF DirsInv
  <2>6. /\ files' \in [Dirs -> [Kinds -> SUBSET Uploads]]
        /\ \A k \in Kinds : files'[dir][k] \subseteq {u}
        /\ \A d \in Dirs : d # dir => files'[d] = files[d]
    <3>1. files \in [Dirs -> [Kinds -> SUBSET Uploads]]
      BY <1>t DEF DimTypeOK
    <3>2. files' = [files EXCEPT ![dir] = [files[dir] EXCEPT !["source"] = {u}]]
      BY <2>2
    <3>3. [files[dir] EXCEPT !["source"] = {u}] \in [Kinds -> SUBSET Uploads]
      BY <2>1, <3>1
    <3>4. files'[dir] = [files[dir] EXCEPT !["source"] = {u}]
      BY <2>1, <3>1, <3>2
    <3>5. \A k \in Kinds : files'[dir][k] \subseteq {u}
      BY <2>1, <2>5, <3>1, <3>4
    <3>6. QED  BY <2>1, <3>1, <3>2, <3>3, <3>5
  <2>7. DimTypeOK'
    BY <1>t, <1>s, <2>1, <2>2, <2>6 DEF DimTypeOK
  <2>8. DirsInv'
    <3> SUFFICES ASSUME NEW d \in Dirs
                 PROVE  \/ \A k \in Kinds : files'[d][k] = {}
                        \/ \E v \in Uploads : step'[v] # "idle" /\ slug'[v] = d
      BY DEF DirsInv
    <3>1. CASE d = dir
      BY <2>3, <3>1
    <3>2. CASE d # dir
      BY <1>t, <2>2, <2>3, <2>6, <3>2 DEF DirsInv
    <3>3. QED  BY <3>1, <3>2
  <2>9. UploadInv(u)'
    <3>1. /\ slug'[u] \in Dirs
          /\ pdf'[u] \in Paths /\ pdf'[u][1] = slug'[u]
          /\ \A k \in Kinds : files'[slug'[u]][k] \subseteq {u}
      BY <2>1, <2>3, <2>6
    <3>2. result[u] = "none" /\ shows[u] \subseteq {u}
      <4>1. result[u] # "none" => step[u] = "over"
        BY <1>t DEF UploadInv
      <4>2. QED  BY <1>t, <2>2, <4>1 DEF UploadInv
    <3>3. QED  BY <2>2, <2>3, <3>1, <3>2 DEF UploadInv
  <2>10. ASSUME NEW v \in Uploads \ {u} PROVE UploadInv(v)'
    <3>1. UploadInv(v) /\ (step[v] # "idle" => slug[v] \in Dirs /\ slug[v] # dir)
      BY <1>t, <2>4 DEF UploadInv
    <3>2. step[v] # "idle" => files'[slug[v]] = files[slug[v]]
      BY <2>6, <3>1
    <3>3. result[v] = "viewer" => step[v] # "idle"
      BY <3>1 DEF UploadInv
    <3>4. QED  BY <2>2, <2>3, <3>1, <3>2, <3>3 DEF UploadInv
  <2>11. QED  BY <1>p, <2>7, <2>8, <2>9, <2>10 DEF RunDirInv
\* The ways in and out write no file.
<1>3. ASSUME NEW u \in Uploads, Capture(u) \/ Enter(u) \/ Fail(u) \/ Restore(u)
      PROVE  RunDirInv'
  <2>1. DimTypeOK'
    BY <1>t, <1>3, <1>s DEF DimTypeOK, Capture, Enter, Fail, Restore, Leave, Advance
  <2>2. /\ UNCHANGED <<files, slug, pdf, shows, global>>
        /\ step[u] # "idle" /\ step'[u] \in {"captured", "entered", "over"}
        /\ \A v \in Uploads \ {u} : step'[v] = step[v] /\ result'[v] = result[v]
    BY <1>t, <1>3 DEF DimTypeOK, Capture, Enter, Fail, Restore, Leave, Advance, Inside
  <2>3. DirsInv'
    BY <1>t, <2>2 DEF DirsInv
  <2>4. /\ result'[u] # "none" => result'[u] = result[u] \/ step'[u] = "over"
        /\ result'[u] = "viewer" => result[u] = "viewer" \/ step[u] = "unwinding"
        /\ step[u] = "over" => step'[u] = "over"
    BY <1>t, <1>3 DEF DimTypeOK, Capture, Enter, Fail, Restore, Leave, Advance, Inside
  <2>5. UploadInv(u)'
    BY <1>t, <2>2, <2>4 DEF UploadInv
  <2>6. ASSUME NEW v \in Uploads \ {u} PROVE UploadInv(v)'
    BY <1>t, <2>2 DEF UploadInv
  <2>7. QED  BY <1>p, <2>1, <2>3, <2>5, <2>6 DEF RunDirInv
<1>4. QED
  BY <1>1, <1>2, <1>3, StagesKeep, ViewerKeeps DEF DimNext, Handler

\* While uploads follow one another and no two draw one slug, a run directory
\* never holds anything of another drawing, and the viewer an upload is
\* redirected to shows its own: page images by way of the module's global,
\* topology and verdict by way of the disk.
THEOREM RunsAreIsolated == DimSpec /\ []OneByOne /\ []Apart => []Isolated
<1>1. DimInit => RunDirInv
  BY RunDirInit
<1>2. RunDirInv => Isolated
  <2> SUFFICES ASSUME RunDirInv, NEW u \in Uploads, step[u] # "idle"
               PROVE  /\ \A k \in Kinds : files[slug[u]][k] \subseteq {u}
                      /\ result[u] = "viewer" => files[slug[u]]["viewer"] = {u}
    BY DEF Isolated
  <2>1. UploadInv(u)
    BY DEF RunDirInv
  <2>2. QED  BY <2>1 DEF UploadInv
<1>3. QED  BY <1>1, <1>2, RunDirStep, PTL DEF DimSpec

\* Serving one upload at a time, of drawings with names of their own, keeps them
\* one by one and apart: the hypotheses above are what the bounds of the run
\* HubState make of every behaviour.
THEOREM OneUploadIsApart ==
    ASSUME MaxInFlight <= 1, IsFiniteSet(Uploads),
           \A u, v \in Uploads : FileName[u] = FileName[v] => u = v
    PROVE  DimSpec => [](OneByOne /\ Apart)
<1> DEFINE Named == \A u \in Uploads : step[u] # "idle" => slug[u][2] = FileName[u]
           Inv == /\ step \in [Uploads -> Steps]
                  /\ slug \in [Uploads -> Dirs \cup {Base}]
                  /\ clock \in 0..MaxClock
                  /\ OneByOne /\ Named
<1>1. DimInit => Inv
  BY UploadAssumption DEF DimInit, Steps, OneByOne, InFlight
<1>2. Inv /\ [DimNext]_dimVars => Inv'
  <2> SUFFICES ASSUME Inv, [DimNext]_dimVars PROVE Inv'
    OBVIOUS
  <2>1. ASSUME NEW u \in Uploads, Save(u) PROVE Inv'
    <3>1. /\ step[u] = "idle" /\ step' = [step EXCEPT ![u] = "saved"]
          /\ slug' = [slug EXCEPT ![u] = <<clock, FileName[u]>>]
          /\ clock' = clock /\ Cardinality(InFlight) < MaxInFlight
      BY <2>1 DEF Save, Advance
    <3>2. IsFiniteSet(InFlight)
      BY FS_Subset DEF InFlight
    <3>3. Cardinality(InFlight) \in Nat /\ MaxInFlight \in Nat
      BY <3>2, FS_CardinalityType, UploadAssumption
    <3>4. InFlight = {}
      BY <3>1, <3>2, <3>3, FS_EmptySet
    <3>5. InFlight' = {u} /\ "saved" \in Steps
      BY <3>1, <3>4 DEF InFlight, Steps
    <3>6. <<clock, FileName[u]>> \in Dirs
      BY DEF Dirs, Names
    <3>7. Named'
      BY <3>1
    <3>8. QED  BY <3>1, <3>5, <3>6, <3>7 DEF OneByOne
  <2>2. CASE Tick \/ UNCHANGED dimVars
    BY <2>2, UploadAssumption DEF Tick, dimVars, local, OneByOne, InFlight
  <2>3. ASSUME NEW u \in Uploads, NEW to \in Steps \ {"idle"}, step[u] # "idle",
               to = "over" \/ step[u] # "over",
               step' = [step EXCEPT ![u] = to], UNCHANGED <<clock, slug>>
        PROVE  Inv'
    <3>1. InFlight' \subseteq InFlight
      BY <2>3 DEF InFlight
    <3>2. QED  BY <2>3, <3>1 DEF OneByOne
  <2>4. ASSUME NEW u \in Uploads, Capture(u) \/ Enter(u) \/ Fail(u) \/ Restore(u)
        PROVE  Inv'
    <3>1. /\ step[u] \notin {"idle", "over"} /\ UNCHANGED <<clock, slug>>
          /\ \E to \in {"captured", "entered", "over"} : step' = [step EXCEPT ![u] = to]
      BY <2>4 DEF Capture, Enter, Fail, Restore, Leave, Advance, Inside
    <3>2. {"captured", "entered", "over"} \subseteq Steps \ {"idle"}
      BY DEF Steps
    <3>3. QED  BY <2>3, <3>1, <3>2
  <2>5. ASSUME NEW u \in Uploads,
               \/ \E how \in {"unscaled", "scaled"} : Normalize(u, how)
               \/ Calibrate(u) \/ Open(u)
               \/ \E route \in {"supported", "vision"} : Gate(u, route)
               \/ Index(u) \/ Trace(u) \/ Assemble(u) \/ Fallback(u)
               \/ PointViewer(u) \/ BuildViewer(u)
        PROVE  Inv'
    <3>1. step[u] \in Inside /\ \E to \in Inside : step' = [step EXCEPT ![u] = to]
      BY <2>5, StageMoves
    <3>2. UNCHANGED <<clock, slug>>
      BY <2>5, StageMoves
    <3>3. Inside \subseteq Steps \ {"idle", "over"}
      BY DEF Inside
    <3>4. QED  BY <2>3, <3>1, <3>2, <3>3
  <2>6. QED  BY <2>1, <2>2, <2>4, <2>5 DEF DimNext, Handler
<1>3. Inv => OneByOne /\ Apart
  BY DEF Apart
<1>4. QED  BY <1>1, <1>2, <1>3, PTL DEF DimSpec

----------------------------------------------------------------------------
(* ConfigCache. The stamp counts the writes to the file; a thread in the    *)
(* middle of load_config is behind the file by no more than its stage says. *)

Busy == {"stamped", "missed", "read"}

\* The stamp counts the writes to the file.
Counted == stamp = version + 1

\* What is cached is no older than its stamp says, and parses.
CacheInv ==
    /\ cache.stamp <= cache.version + 1
    /\ cache.stamp # 0 => cache.version \in sound

\* How far behind the file thread t may be in each stage of load_config.
CallInv(t) ==
    /\ since[t] <= version
    /\ stage[t] \in Busy => since[t] < seen[t] /\ seen[t] <= version + 1
    /\ stage[t] = "read" => seen[t] <= got[t] + 1 /\ got[t] \in sound
    /\ stage[t] = "served" => since[t] <= got[t] /\ got[t] \in sound

ConfigInv == TypeOK /\ Counted /\ CacheInv /\ \A t \in Threads : CallInv(t)

\* A cache that has served nobody yet has its type.
LEMMA ConfigTypeInit == Init => TypeOK
BY MaxEditsAssumption DEF Init, TypeOK, Versions, Empty, Stages

\* It holds nothing, and nobody has asked.
LEMMA ConfigInvInit == Init => ConfigInv
<1> SUFFICES ASSUME Init PROVE ConfigInv
  OBVIOUS
<1>1. TypeOK
  BY ConfigTypeInit
<1>2. Counted /\ CacheInv
  BY DEF Init, Counted, CacheInv, Empty
<1>3. ASSUME NEW t \in Threads PROVE CallInv(t)
  <2>1. version = 0 /\ since[t] = 0 /\ stage[t] = "idle"
    BY DEF Init
  <2>2. QED  BY <2>1 DEF CallInv, Busy
<1>4. QED  BY <1>1, <1>2, <1>3 DEF ConfigInv

\* Every step keeps the types; the bound on the edits keeps the versions.
LEMMA ConfigTypeStep == TypeOK /\ Counted /\ [Next]_vars => TypeOK'
<1> SUFFICES ASSUME TypeOK, Counted, [Next]_vars PROVE TypeOK'
  OBVIOUS
<1> USE MaxEditsAssumption DEF TypeOK, Versions, Stages
<1>1. ASSUME NEW parses \in BOOLEAN, Edit(parses) PROVE TypeOK'
  BY <1>1 DEF Edit, Counted
<1>2. ASSUME NEW t \in Threads, Begin(t) PROVE TypeOK'
  BY <1>2 DEF Begin
<1>3. ASSUME NEW t \in Threads, Stat(t) PROVE TypeOK'
  BY <1>3 DEF Stat
<1>4. ASSUME NEW t \in Threads, Hit(t) PROVE TypeOK'
  BY <1>4 DEF Hit
<1>5. ASSUME NEW t \in Threads, Miss(t) PROVE TypeOK'
  BY <1>5 DEF Miss
<1>6. ASSUME NEW t \in Threads, ReadFile(t) PROVE TypeOK'
  BY <1>6 DEF ReadFile
<1>7. ASSUME NEW t \in Threads, Store(t) PROVE TypeOK'
  BY <1>7 DEF Store
<1>8. CASE UNCHANGED vars
  BY <1>8 DEF vars
<1>9. QED
  BY <1>1, <1>2, <1>3, <1>4, <1>5, <1>6, <1>7, <1>8 DEF Next

\* A step of thread t leaves every other thread's call where it was.
LEMMA OthersStay ==
    ASSUME ConfigInv, NEW t \in Threads, NEW u \in Threads \ {t},
           Begin(t) \/ Stat(t) \/ Hit(t) \/ Miss(t) \/ ReadFile(t) \/ Store(t)
    PROVE  CallInv(u)'
<1>1. /\ stage'[u] = stage[u] /\ seen'[u] = seen[u]
      /\ got'[u] = got[u] /\ since'[u] = since[u]
      /\ version' = version /\ sound' = sound
  BY DEF ConfigInv, TypeOK, Begin, Stat, Hit, Miss, ReadFile, Store
<1>2. QED  BY <1>1 DEF ConfigInv, CallInv

\* Every step of a thread, and every edit, keeps the invariant.
LEMMA ConfigInvStep == ConfigInv /\ [Next]_vars => ConfigInv'
<1> SUFFICES ASSUME ConfigInv, [Next]_vars PROVE ConfigInv'
  OBVIOUS
<1>t. TypeOK /\ TypeOK' /\ Counted /\ CacheInv
  BY ConfigTypeStep DEF ConfigInv
<1> USE MaxEditsAssumption DEF TypeOK, Versions
<1>1. ASSUME NEW parses \in BOOLEAN, Edit(parses) PROVE ConfigInv'
  <2>1. Counted' /\ CacheInv'
    BY <1>t, <1>1 DEF Edit, Counted, CacheInv
  <2>2. ASSUME NEW u \in Threads PROVE CallInv(u)'
    BY <1>t, <1>1, <2>2 DEF ConfigInv, Edit, CallInv
  <2>3. QED  BY <1>t, <2>1, <2>2 DEF ConfigInv
<1>2. ASSUME NEW t \in Threads,
             Begin(t) \/ Stat(t) \/ Hit(t) \/ Miss(t) \/ ReadFile(t) \/ Store(t)
      PROVE  ConfigInv'
  <2>c. CallInv(t)
    BY DEF ConfigInv
  <2>1. Counted'
    BY <1>t, <1>2 DEF Counted, Begin, Stat, Hit, Miss, ReadFile, Store
  <2>2. CacheInv'
    <3>1. CASE Store(t)
      BY <1>t, <3>1, <2>c DEF Store, CacheInv, CallInv
    <3>2. CASE UNCHANGED <<cache, sound>>
      BY <1>t, <3>2 DEF CacheInv
    <3>3. QED  BY <1>2, <3>1, <3>2 DEF Begin, Stat, Hit, Miss, ReadFile
  <2>3. CallInv(t)'
    <3>1. CASE Begin(t)
      BY <1>t, <3>1, <2>c DEF Begin, CallInv, Busy
    <3>2. CASE Stat(t)
      BY <1>t, <3>2, <2>c DEF Stat, CallInv, Busy, Counted
    <3>3. CASE Hit(t)
      BY <1>t, <3>3, <2>c DEF Hit, CallInv, Busy, CacheInv
    <3>4. CASE Miss(t)
      BY <1>t, <3>4, <2>c DEF Miss, CallInv, Busy
    <3>5. CASE ReadFile(t)
      BY <1>t, <3>5, <2>c DEF ReadFile, CallInv, Busy
    <3>6. CASE Store(t)
      BY <1>t, <3>6, <2>c DEF Store, CallInv, Busy
    <3>7. QED  BY <1>2, <3>1, <3>2, <3>3, <3>4, <3>5, <3>6
  <2>4. ASSUME NEW u \in Threads PROVE CallInv(u)'
    BY <1>2, <2>3, OthersStay
  <2>5. QED  BY <1>t, <2>1, <2>2, <2>4 DEF ConfigInv
<1>3. CASE UNCHANGED vars
  BY <1>t, <1>3 DEF vars, ConfigInv, Counted, CacheInv, CallInv
<1>4. QED  BY <1>1, <1>2, <1>3 DEF Next

\* The cache, the calls and the file keep their types (load_config).
THEOREM ConfigTypeCorrect == Spec => []TypeOK
<1>1. ConfigInv => TypeOK
  BY DEF ConfigInv
<1>2. QED  BY ConfigInvInit, ConfigInvStep, <1>1, PTL DEF Spec

\* No call of load_config serves a version older than the file was when the
\* call began, however many threads and edits interleave.
THEOREM NoStaleConfig == Spec => []EditsArePickedUp
<1>1. ConfigInv => EditsArePickedUp
  BY DEF ConfigInv, CallInv, EditsArePickedUp
<1>2. QED  BY ConfigInvInit, ConfigInvStep, <1>1, PTL DEF Spec

\* Whatever load_config serves has parsed.
THEOREM NoBrokenConfig == Spec => []ServesOnlySound
<1>1. ConfigInv => ServesOnlySound
  BY DEF ConfigInv, CallInv, ServesOnlySound
<1>2. QED  BY ConfigInvInit, ConfigInvStep, <1>1, PTL DEF Spec

----------------------------------------------------------------------------
(* SuggestionLog. What a GET has read is the beginning of the log, and as    *)
(* long as no line of the log is unreadable it holds all that was answered.  *)

Said == Actions \cup {Unreadable}

LogTypes ==
    /\ partial \in BOOLEAN
    /\ log \in Seq(Said) /\ logged \in Seq(Actions)
    /\ reading \in [Readers -> {"idle", "reading", "raised", "answered"}]
    /\ lines \in [Readers -> Seq(Actions)]
    /\ owed \in [Readers -> Nat]

\* s is how t begins.
Begins(s, t) == Len(s) <= Len(t) /\ \A n \in 1..Len(s) : s[n] = t[n]

Whole == \A n \in 1..Len(log) : log[n] # Unreadable

Holds == Whole => \A a \in Actions : Count(log, a) >= Count(logged, a)

Promised(g) == SubSeq(logged, 1, owed[g])

ReaderInv(g) ==
    /\ owed[g] <= Len(logged)
    /\ Begins(lines[g], log)
    /\ reading[g] = "answered" =>
          \A a \in Actions : Count(lines[g], a) >= Count(Promised(g), a)

LogInv == LogTypes /\ Holds /\ \A g \in Readers : ReaderInv(g)

\* The places that hold a are finitely many, and Count is a number.
LEMMA CountNat ==
    ASSUME NEW R, NEW s \in Seq(R), NEW a
    PROVE  /\ IsFiniteSet({n \in DOMAIN s : s[n] = a})
           /\ Count(s, a) \in Nat
<1> DEFINE P == {n \in DOMAIN s : s[n] = a}
           U == 1..Len(s)
<1>1. Len(s) \in Nat /\ P \in SUBSET U
  OBVIOUS
<1>2. IsFiniteSet(U)
  BY <1>1, FS_Interval
<1> HIDE DEF P, U
<1>3. IsFiniteSet(P)
  BY <1>1, <1>2, FS_Subset
<1>4. Count(s, a) = Cardinality(P)
  BY DEF Count, P
<1>5. QED  BY <1>3, <1>4, FS_CardinalityType DEF P

\* A longer sequence holds no less of anything.
LEMMA CountBegins ==
    ASSUME NEW R, NEW S, NEW s \in Seq(R), NEW t \in Seq(S), NEW a, Begins(s, t)
    PROVE  Count(s, a) <= Count(t, a)
<1> DEFINE P == {n \in DOMAIN s : s[n] = a}
           Q == {n \in DOMAIN t : t[n] = a}
<1>1. P \in SUBSET Q
  BY DEF Begins
<1>2. IsFiniteSet(Q)
  BY CountNat
<1> HIDE DEF P, Q
<1>3. Cardinality(P) <= Cardinality(Q)
  BY <1>1, <1>2, FS_Subset
<1>4. QED  BY <1>3 DEF Count, P, Q

\* One more element counts once.
LEMMA CountAppend ==
    ASSUME NEW R, NEW s \in Seq(R), NEW e \in R, NEW a
    PROVE  Count(Append(s, e), a) = Count(s, a) + (IF e = a THEN 1 ELSE 0)
<1> DEFINE P == {n \in DOMAIN s : s[n] = a}
           Q == {n \in DOMAIN Append(s, e) : Append(s, e)[n] = a}
           k == Len(s) + 1
<1>1. /\ Len(s) \in Nat /\ DOMAIN s = 1..Len(s) /\ DOMAIN Append(s, e) = 1..k
      /\ Append(s, e)[k] = e
      /\ \A n \in 1..Len(s) : Append(s, e)[n] = s[n]
  OBVIOUS
<1>2. Q = IF e = a THEN P \cup {k} ELSE P
  BY <1>1
<1>3. k \notin P
  BY <1>1
<1>4. IsFiniteSet(P) /\ Cardinality(P) \in Nat
  BY CountNat, FS_CardinalityType
<1> HIDE DEF P, Q, k
<1>5. Cardinality(P \cup {k}) = Cardinality(P) + 1
  BY <1>3, <1>4, FS_AddElement
<1>6. Cardinality(Q) = Cardinality(P) + (IF e = a THEN 1 ELSE 0)
  BY <1>2, <1>4, <1>5
<1>7. QED  BY <1>6 DEF Count, P, Q

\* A sequence begins as it did before something was put at its end, and as
\* every part of it from the front does.
LEMMA BeginsAppend ==
    ASSUME NEW R, NEW S, NEW s \in Seq(R), NEW t \in Seq(S), Begins(s, t), NEW e \in S
    PROVE  Begins(s, Append(t, e))
BY DEF Begins

\* The log is empty, or holds one line of an older schema.
LEMMA LogInvInit == LogInit => LogInv
<1> SUFFICES ASSUME LogInit PROVE LogInv
  OBVIOUS
<1>1. LogTypes
  <2>1. <<>> \in Seq(Actions) /\ <<>> \in Seq(Said) /\ <<Unreadable>> \in Seq(Said)
    BY DEF Said
  <2>2. log \in Seq(Said)
    BY <2>1 DEF LogInit
  <2>3. QED  BY <2>1, <2>2 DEF LogInit, LogTypes
<1>2. Holds
  <2>1. CASE log = <<>>
    <3>1. \A a \in Actions : Count(log, a) \in Nat
      BY <1>1, CountNat DEF LogTypes
    <3>2. QED  BY <2>1, <3>1 DEF LogInit, Holds
  <2>2. CASE log = <<Unreadable>>
    BY <2>2 DEF Holds, Whole
  <2>3. QED  BY <2>1, <2>2 DEF LogInit
<1>3. \A g \in Readers : ReaderInv(g)
  BY <1>1 DEF LogInit, ReaderInv, Begins, LogTypes
<1>4. QED  BY <1>1, <1>2, <1>3 DEF LogInv

\* A line is added for an event that is answered, or for one that is not.
LEMMA AddLine ==
    ASSUME LogInv, NEW a \in Actions,
           log' = Append(log, IF partial THEN Unreadable ELSE a), partial' = FALSE,
           logged' = Append(logged, a) \/ logged' = logged,
           UNCHANGED <<reading, lines, owed>>
    PROVE  LogInv'
<1> DEFINE e == IF partial THEN Unreadable ELSE a
<1>1. LogTypes /\ Holds /\ e \in Said
  BY DEF LogInv, Said
<1>2. /\ log \in Seq(Said) /\ logged \in Seq(Actions) /\ log' = Append(log, e)
      /\ log' \in Seq(Said) /\ logged' \in Seq(Actions) /\ Len(log) \in Nat
      /\ Len(log') = Len(log) + 1 /\ log'[Len(log) + 1] = e
      /\ \A n \in 1..Len(log) : log'[n] = log[n]
  <2>1. log \in Seq(Said) /\ logged \in Seq(Actions) /\ log' = Append(log, e)
    BY <1>1 DEF LogTypes
  <2>2. logged' \in Seq(Actions)
    BY <2>1
  <2> HIDE DEF e
  <2>3. QED  BY <1>1, <2>1, <2>2
<1>3. LogTypes'
  BY <1>1, <1>2 DEF LogTypes
<1>4. Holds'
  <2> SUFFICES ASSUME Whole', NEW b \in Actions PROVE Count(log', b) >= Count(logged', b)
    BY DEF Holds
  <2>1. e = a
    BY <1>2 DEF Whole
  <2>2. Whole
    BY <1>2 DEF Whole
  <2>3. Count(log, b) >= Count(logged, b)
    BY <1>1, <2>2 DEF Holds
  <2>4. Count(log', b) = Count(log, b) + (IF a = b THEN 1 ELSE 0)
    <3> HIDE DEF e
    <3>1. QED  BY <1>1, <1>2, <2>1, CountAppend
  <2>5. Count(logged', b) = Count(logged, b) \/
        Count(logged', b) = Count(logged, b) + (IF a = b THEN 1 ELSE 0)
    <3>1. logged \in Seq(Actions)
      BY <1>2
    <3>2. Count(Append(logged, a), b) = Count(logged, b) + (IF a = b THEN 1 ELSE 0)
      BY <3>1, CountAppend
    <3>3. QED  BY <3>2
  <2>6. Count(log, b) \in Nat /\ Count(logged, b) \in Nat
    BY <1>2, CountNat
  <2>7. QED  BY <2>3, <2>4, <2>5, <2>6
<1>5. ASSUME NEW g \in Readers PROVE ReaderInv(g)'
  <2>1. ReaderInv(g) /\ owed[g] \in Nat /\ lines[g] \in Seq(Actions)
    BY <1>1 DEF LogInv, LogTypes
  <2>2. Begins(lines[g], log')
    <3> HIDE DEF e
    <3>1. QED  BY <1>1, <1>2, <2>1, BeginsAppend DEF ReaderInv
  <2>3. owed[g] <= Len(logged') /\ SubSeq(logged', 1, owed[g]) = Promised(g)
    <3>1. logged \in Seq(Actions) /\ owed[g] \in Nat /\ owed[g] <= Len(logged)
      BY <1>2, <2>1 DEF ReaderInv
    <3>2. CASE logged' = logged
      BY <3>1, <3>2 DEF Promised
    <3>3. CASE logged' = Append(logged, a)
      <4>1. Len(logged') = Len(logged) + 1
        BY <3>1, <3>3
      <4>2. SubSeq(Append(logged, a), 1, owed[g]) = SubSeq(logged, 1, owed[g])
        BY <3>1
      <4>3. QED  BY <3>1, <3>3, <4>1, <4>2 DEF Promised
    <3>4. QED  BY <3>2, <3>3
  <2>4. QED  BY <2>1, <2>2, <2>3 DEF ReaderInv, Promised
<1>6. QED  BY <1>3, <1>4, <1>5 DEF LogInv

\* A GET begins, reads a line, or ends.
LEMMA ReadStep ==
    ASSUME LogInv, NEW g \in Readers, Get(g) \/ ReadLine(g) \/ ReadEnd(g)
    PROVE  LogInv'
<1>1. /\ LogTypes /\ Holds /\ UNCHANGED <<log, partial, logged>>
      /\ owed[g] \in Nat /\ lines[g] \in Seq(Actions)
      /\ log \in Seq(Said) /\ logged \in Seq(Actions)
      /\ Len(logged) \in Nat /\ Len(log) \in Nat /\ Len(lines[g]) \in Nat
  BY DEF LogInv, LogTypes, Get, ReadLine, ReadEnd
<1>2. Holds'
  BY <1>1 DEF Holds, Whole
<1>3. ASSUME NEW h \in Readers, h # g PROVE ReaderInv(h)'
  <2>1. reading'[h] = reading[h] /\ lines'[h] = lines[h] /\ owed'[h] = owed[h]
    BY <1>1, <1>3 DEF LogTypes, Get, ReadLine, ReadEnd
  <2>2. QED  BY <1>1, <2>1 DEF LogInv, ReaderInv, Promised
<1>4. ReaderInv(g)
  BY DEF LogInv
<1>5. CASE Get(g)
  <2>1. /\ reading'[g] = "reading" /\ owed'[g] = Len(logged) /\ lines' = lines
        /\ reading' = [reading EXCEPT ![g] = "reading"]
        /\ owed' = [owed EXCEPT ![g] = Len(logged)]
    BY <1>1, <1>5 DEF Get, LogTypes
  <2>2. LogTypes'
    BY <1>1, <2>1 DEF LogTypes
  <2>3. ReaderInv(g)'
    BY <1>1, <1>4, <2>1 DEF ReaderInv
  <2>4. QED  BY <1>2, <1>3, <2>2, <2>3 DEF LogInv
<1>6. CASE ReadLine(g) /\ log[At(g)] = Unreadable
  <2>1. /\ reading' = [reading EXCEPT ![g] = "raised"] /\ UNCHANGED <<lines, owed>>
    BY <1>6 DEF ReadLine
  <2>2. LogTypes' /\ reading'[g] = "raised"
    BY <1>1, <2>1 DEF LogTypes
  <2>3. ReaderInv(g)'
    BY <1>1, <1>4, <2>1, <2>2 DEF ReaderInv
  <2>4. QED  BY <1>2, <1>3, <2>2, <2>3 DEF LogInv
<1>7. CASE ReadLine(g) /\ log[At(g)] # Unreadable
  <2> DEFINE k == Len(lines[g]) + 1
  <2>1. /\ k <= Len(log) /\ log[k] # Unreadable /\ reading[g] = "reading"
        /\ lines' = [lines EXCEPT ![g] = Append(@, log[k])]
        /\ UNCHANGED <<reading, owed>>
    BY <1>7 DEF ReadLine, At
  <2>2. k \in 1..Len(log) /\ log[k] \in Actions
    BY <1>1, <2>1 DEF Said
  <2>3. Append(lines[g], log[k]) \in Seq(Actions)
    BY <1>1, <2>2
  <2>4. lines'[g] = Append(lines[g], log[k]) /\ lines' \in [Readers -> Seq(Actions)]
    BY <1>1, <2>1, <2>3 DEF LogTypes
  <2>5. Begins(lines'[g], log)
    <3>1. /\ Len(lines'[g]) = k /\ lines'[g][k] = log[k]
          /\ \A n \in 1..Len(lines[g]) : lines'[g][n] = lines[g][n]
      BY <1>1, <2>2, <2>4
    <3>2. \A n \in 1..k : n = k \/ n \in 1..Len(lines[g])
      BY <1>1
    <3>3. QED  BY <1>4, <2>1, <3>1, <3>2 DEF ReaderInv, Begins
  <2>6. LogTypes'
    BY <1>1, <2>1, <2>4 DEF LogTypes
  <2>7. ReaderInv(g)'
    BY <1>1, <1>4, <2>1, <2>5 DEF ReaderInv
  <2>8. QED  BY <1>2, <1>3, <2>6, <2>7 DEF LogInv
<1>8. CASE ReadEnd(g)
  <2>1. /\ Len(lines[g]) >= Len(log) /\ UNCHANGED <<lines, owed>>
        /\ reading' = [reading EXCEPT ![g] = IF partial THEN "raised" ELSE "answered"]
    BY <1>1, <1>8 DEF ReadEnd, At
  <2>2. LogTypes'
    BY <1>1, <2>1 DEF LogTypes
  <2>3. Len(lines[g]) = Len(log) /\ \A n \in 1..Len(log) : log[n] = lines[g][n]
    BY <1>1, <1>4, <2>1 DEF ReaderInv, Begins
  <2>4. Whole
    BY <1>1, <2>3 DEF Whole, Actions, Unreadable
  <2>5. Begins(log, lines[g]) /\ Begins(Promised(g), logged) /\ Promised(g) \in Seq(Actions)
    BY <1>1, <1>4, <2>3 DEF Begins, Promised, ReaderInv
  <2>6. ASSUME NEW a \in Actions PROVE Count(lines[g], a) >= Count(Promised(g), a)
    <3>1. Count(log, a) <= Count(lines[g], a)
      BY <1>1, <2>5, CountBegins
    <3>2. Count(log, a) >= Count(logged, a)
      BY <1>1, <2>4 DEF Holds
    <3>3. Count(Promised(g), a) <= Count(logged, a)
      BY <1>1, <2>5, CountBegins
    <3>4. /\ Count(log, a) \in Nat /\ Count(lines[g], a) \in Nat
          /\ Count(logged, a) \in Nat /\ Count(Promised(g), a) \in Nat
      BY <1>1, <2>5, CountNat
    <3>5. QED  BY <3>1, <3>2, <3>3, <3>4
  <2>7. ReaderInv(g)'
    BY <1>1, <1>4, <2>1, <2>6 DEF ReaderInv, Promised
  <2>8. QED  BY <1>2, <1>3, <2>2, <2>7 DEF LogInv
<1>9. QED  BY <1>5, <1>6, <1>7, <1>8

\* No POST, failed or not, and no GET makes the log hold less than it promised.
LEMMA LogStep == LogInv /\ [LogNext]_logVars => LogInv'
<1> SUFFICES ASSUME LogInv, [LogNext]_logVars PROVE LogInv'
  OBVIOUS
<1>1. ASSUME NEW p \in Payloads, Post(p) \/ PostFails(p) PROVE LogInv'
  <2>1. p.action \in Actions /\ UNCHANGED <<reading, lines, owed>>
    BY <1>1 DEF Post, PostFails, Valid
  <2>2. CASE partial' = TRUE /\ UNCHANGED <<log, logged>>
    BY <2>1, <2>2 DEF LogInv, LogTypes, Holds, Whole, ReaderInv, Begins, Promised
  <2>3. QED  BY <1>1, <2>1, <2>2, AddLine DEF Post, PostFails
<1>2. ASSUME NEW g \in Readers, Get(g) \/ ReadLine(g) \/ ReadEnd(g) PROVE LogInv'
  BY <1>2, ReadStep
<1>3. CASE UNCHANGED logVars
  BY <1>3 DEF logVars, LogInv, LogTypes, Holds, Whole, ReaderInv, Begins, Promised
<1>4. QED  BY <1>1, <1>2, <1>3 DEF LogNext

\* A summary that is answered misses no event acknowledged before its GET began
\* and counts none that nobody sent, for any number of readers, failed writes,
\* torn and glued lines.
THEOREM SummariesAreWhole == LogSpec => []SummaryIsNeverShort
<1>1. LogInv => SummaryIsNeverShort
  <2> SUFFICES ASSUME LogInv, NEW g \in Readers, reading[g] = "answered",
                      NEW a \in Actions
               PROVE  /\ Count(lines[g], a) >= Count(Promised(g), a)
                      /\ Count(lines[g], a) <= Count(log, a)
    BY DEF SummaryIsNeverShort, Promised
  <2>1. /\ lines[g] \in Seq(Actions) /\ log \in Seq(Said) /\ Begins(lines[g], log)
        /\ Count(lines[g], a) >= Count(Promised(g), a)
    BY DEF LogInv, LogTypes, ReaderInv
  <2>2. QED  BY <2>1, CountBegins
<1>2. QED  BY <1>1, LogInvInit, LogStep, PTL DEF LogSpec

=============================================================================
