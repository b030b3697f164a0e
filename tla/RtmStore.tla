------------------------------ MODULE RtmStore ------------------------------
(* The requirements traceability matrix on disk (hazop/s6_rcm/rtm.py) under  *)
(* the requests of the hub (s5_sw/app.py): GET loads the whole file, POST    *)
(* loads it, changes one requirement and writes the whole file again. The    *)
(* file is truncated on open and reaches the disk a buffer at a time, each   *)
(* writer keeping its own offset; a read takes the file as it is.            *)
(*                                                                           *)
(* A document gives every requirement a value (its status and notes) and is  *)
(* cut into blocks. A requirement lies in one block as long as no text       *)
(* before it changes length.                                                 *)
EXTENDS Naturals, FiniteSets

CONSTANTS Clients,    \* requests
          Wanted,     \* the update <<requirement, value>> of each, or None
          None,       \* no update (a GET), no block on disk, no document
          Original,   \* the document the repository ships
          Values,     \* values a requirement may get
          Longer,     \* those of them that take a character more
          Blocks,     \* buffers the file takes
          BlockOf,    \* the block each requirement lies in
          MaxWriters  \* POST requests served at the same time

Reqs == DOMAIN Original
Docs == [Reqs -> Values]

ASSUME ConstantsAssumption ==
    /\ Original \in Docs
    /\ Wanted \in [Clients -> (Reqs \X Values) \cup {None}]
    /\ None \notin (Reqs \X Values) \cup Docs \cup Values
    /\ Blocks \in Nat \ {0}
    /\ BlockOf \in [Reqs -> 1..Blocks]
    /\ MaxWriters \in Nat

VARIABLES file,    \* the document each block on disk belongs to
          progress,   \* how far each request has come
          data,    \* the document it has loaded, and changes
          offset,  \* blocks it has written
          acked,   \* the last value acknowledged for each requirement
          whole    \* documents that have been on disk from end to end

rtmVars == <<file, progress, data, offset, acked, whole>>

Progress == {"idle", "submitted", "saving", "writing", "answered", "refused"}

RtmTypeOK ==
    /\ file \in [1..Blocks -> Docs \cup {None}]
    /\ progress \in [Clients -> Progress]
    /\ data \in [Clients -> Docs \cup {None}]
    /\ offset \in [Clients -> 0..Blocks]
    /\ acked \in [Reqs -> Values \cup {None}]
    /\ whole \subseteq Docs

RtmInit ==
    /\ file = [b \in 1..Blocks |-> Original]
    /\ progress = [c \in Clients |-> "idle"]
    /\ data = [c \in Clients |-> Original]
    /\ offset = [c \in Clients |-> 0]
    /\ acked = [r \in Reqs |-> None]
    /\ whole = {Original}

Length(d) == Cardinality({r \in Reqs : d[r] \in Longer})

\* Blocks of texts of different length do not meet at a seam.
Fits ==
    /\ \A b \in 1..Blocks : file[b] # None
    /\ \A a, b \in 1..Blocks : Length(file[a]) = Length(file[b])

\* What load_rtm returns, or None where it raises.
Parsed == IF Fits THEN [r \in Reqs |-> file[BlockOf[r]][r]] ELSE None

Writers == {c \in Clients : Wanted[c] # None
                            /\ progress[c] \in {"submitted", "saving", "writing"}}

Go(c, s) == progress' = [progress EXCEPT ![c] = s]

----------------------------------------------------------------------------
\* GET: rtm_view; an unreadable file is an error.
Read(c) ==
    /\ progress[c] = "idle"
    /\ Wanted[c] = None
    /\ data' = [data EXCEPT ![c] = Parsed]
    /\ Go(c, IF Parsed = None THEN "refused" ELSE "answered")
    /\ UNCHANGED <<file, offset, acked, whole>>

\* POST: update_requirement. A request refused for its status or its id
\* changes nothing and is left out.
Submit(c) ==
    /\ progress[c] = "idle"
    /\ Wanted[c] # None
    /\ Cardinality(Writers) < MaxWriters
    /\ Go(c, "submitted")
    /\ UNCHANGED <<file, data, offset, acked, whole>>

Load(c) ==
    /\ progress[c] = "submitted"
    /\ IF Parsed = None
       THEN Go(c, "refused") /\ UNCHANGED data
       ELSE /\ Go(c, "saving")
            /\ data' = [data EXCEPT ![c] =
                          [Parsed EXCEPT ![Wanted[c][1]] = Wanted[c][2]]]
    /\ UNCHANGED <<file, offset, acked, whole>>

\* Mutant of Truncate: the file is opened for update.
TruncateNothing(c) ==
    /\ progress[c] = "saving"
    /\ Go(c, "writing")
    /\ UNCHANGED <<file, data, offset, acked, whole>>

\* save_rtm: open(path, "w").
Truncate(c) ==
    /\ progress[c] = "saving"
    /\ file' = [b \in 1..Blocks |-> None]
    /\ Go(c, "writing")
    /\ UNCHANGED <<data, offset, acked, whole>>

WriteBlock(c) ==
    /\ progress[c] = "writing"
    /\ offset[c] < Blocks
    /\ offset' = [offset EXCEPT ![c] = @ + 1]
    /\ file' = [file EXCEPT ![offset[c] + 1] = data[c]]
    /\ whole' = IF \A b \in 1..Blocks : file'[b] = data[c]
                THEN whole \cup {data[c]} ELSE whole
    /\ UNCHANGED <<progress, data, acked>>

Answer(c) ==
    /\ progress[c] = "writing"
    /\ offset[c] = Blocks
    /\ acked' = [acked EXCEPT ![Wanted[c][1]] = Wanted[c][2]]
    /\ Go(c, "answered")
    /\ UNCHANGED <<file, data, offset, whole>>

Request(c) ==
    Read(c) \/ Submit(c) \/ Load(c) \/ Truncate(c) \/ WriteBlock(c) \/ Answer(c)

RtmNext == \E c \in Clients : Request(c)

RtmSpec == RtmInit /\ [][RtmNext]_rtmVars

----------------------------------------------------------------------------
(* Properties.                                                               *)

\* Once nothing is being written, every requirement has the value last
\* acknowledged for it (docstring of update_requirement: "Update the
\* human-owned fields of one requirement and persist").
AckedUpdateStands ==
    Writers = {} =>
        \A r \in Reqs : acked[r] # None =>
            Parsed # None /\ Parsed[r] = acked[r]

\* A GET that is answered shows a document that was on disk from end to end:
\* a save half done is an error, never half an answer.
ReadersSeeWhole ==
    \A c \in Clients :
        Wanted[c] = None /\ progress[c] = "answered" => data[c] \in whole
=============================================================================
