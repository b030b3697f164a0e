--------------------------- MODULE SuggestionLog ---------------------------
(* What the scribes did with each AI suggestion: TelemetryLog               *)
(* (hazop/mdl/telemetry.py) behind POST and GET /api/telemetry              *)
(* (hazop/s5_sw/app.py). A record is one write in append mode; a GET reads  *)
(* line by line while others append, and gives up on the first line that    *)
(* json.loads or SuggestionEvent refuses.                                   *)
EXTENDS Naturals, Sequences, FiniteSets

CONSTANTS Readers,  \* GET requests
          MaxLines  \* bound: complete lines of the log

VARIABLES log,       \* the complete lines
          partial,   \* does the file end in a partial line?
          logged,    \* the actions answered with 201, in order
          reading,   \* how far each GET has come
          lines,     \* the actions it has read
          owed       \* how many had been answered when it began

logVars == <<log, partial, logged, reading, lines, owed>>

Actions == {"accepted", "edited", "rejected"}

\* What a POST may say. A payload without a user, an edit without its text, or
\* an action that is none of the three is refused by SuggestionEvent.
Payloads == [action : Actions \cup {"unknown"}, user : BOOLEAN, text : BOOLEAN]
Valid(p) == p.action \in Actions /\ p.user /\ (p.action = "edited" => p.text)

\* A line nothing reads: a torn one, what was glued to it, or the record of an
\* older schema.
Unreadable == "unreadable"

LogInit ==
    /\ log \in {<<>>, <<Unreadable>>} /\ partial = FALSE /\ logged = <<>>
    /\ reading = [g \in Readers |-> "idle"]
    /\ lines = [g \in Readers |-> <<>>]
    /\ owed = [g \in Readers |-> 0]

Bounded == Len(log) < MaxLines

\* record: never half a record for a payload that is refused.
Post(p) ==
    /\ Valid(p)
    /\ Bounded
    /\ log' = Append(log, IF partial THEN Unreadable ELSE p.action)
    /\ partial' = FALSE
    /\ logged' = Append(logged, p.action)
    /\ UNCHANGED <<reading, lines, owed>>

\* The line is there, but the request dies before its answer; or the disk is
\* full, and part of the line is there.
PostFails(p) ==
    /\ Valid(p)
    /\ Bounded
    /\ \/ /\ log' = Append(log, IF partial THEN Unreadable ELSE p.action)
          /\ partial' = FALSE
       \/ /\ partial' = TRUE
          /\ UNCHANGED log
    /\ UNCHANGED <<logged, reading, lines, owed>>

Get(g) ==
    /\ reading[g] = "idle"
    /\ reading' = [reading EXCEPT ![g] = "reading"]
    /\ owed' = [owed EXCEPT ![g] = Len(logged)]
    /\ UNCHANGED <<log, partial, logged, lines>>

At(g) == Len(lines[g]) + 1

\* Mutant of ReadLine: what cannot be read is skipped, as read_runs does.
ReadLineSkip(g) ==
    /\ reading[g] = "reading"
    /\ At(g) <= Len(log)
    /\ lines' = [lines EXCEPT ![g] = Append(@, log[At(g)])]
    /\ UNCHANGED <<log, partial, logged, reading, owed>>

ReadLine(g) ==
    /\ reading[g] = "reading"
    /\ At(g) <= Len(log)
    /\ IF log[At(g)] = Unreadable
       THEN reading' = [reading EXCEPT ![g] = "raised"] /\ UNCHANGED lines
       ELSE lines' = [lines EXCEPT ![g] = Append(@, log[At(g)])] /\ UNCHANGED reading
    /\ UNCHANGED <<log, partial, logged, owed>>

\* End of file: a partial line is a line to the reader, and does not parse.
ReadEnd(g) ==
    /\ reading[g] = "reading"
    /\ At(g) > Len(log)
    /\ reading' = [reading EXCEPT ![g] = IF partial THEN "raised" ELSE "answered"]
    /\ UNCHANGED <<log, partial, logged, lines, owed>>

LogNext ==
    \/ \E p \in Payloads : Post(p) \/ PostFails(p)
    \/ \E g \in Readers : Get(g) \/ ReadLine(g) \/ ReadEnd(g)

LogSpec == LogInit /\ [][LogNext]_logVars

----------------------------------------------------------------------------
\* summarize: by_action of what has been read.
Count(events, a) == Cardinality({n \in DOMAIN events : events[n] = a})

\* A summary that is answered counts, action by action, at least every event
\* acknowledged before the GET began and nothing that no scribe sent, whatever
\* was torn, glued or appended meanwhile: one unreadable line makes the study
\* unreadable (events raises), never short.
SummaryIsNeverShort ==
    \A g \in Readers : reading[g] = "answered" =>
        \A a \in Actions :
            /\ Count(lines[g], a) >= Count(SubSeq(logged, 1, owed[g]), a)
            /\ Count(lines[g], a) <= Count(log, a)
=============================================================================
