------------------------------ MODULE LabPage ------------------------------
(* A device card of the LLM Lab page (hazop/s5_sw/templates/index.html)     *)
(* over the run manager: every click on its buttons is a call of            *)
(* startLabRun with a POST (api_lab_run, api_lab_pull in s5_sw/app.py) and, *)
(* once accepted, a timer that polls /api/lab/run/<id> until the state is   *)
(* not "running". Answers to polls overtake each other, and a poll can be   *)
(* under way when the hub is killed.                                        *)
EXTENDS LabRuns

CONSTANTS Calls,  \* clicks
          Card,   \* the device of the card, or NoDevice: no page is open
          NoRun   \* the run of a call that has none yet

ASSUME CardAssumption == Card \in Devices \cup {NoDevice}

VARIABLES call,     \* how far each call of startLabRun has come
          polled,   \* its d.run_id
          answers,  \* states answered to its polls and not yet delivered
          enabled,  \* the buttons of the card
          shown     \* what .runprog says, and of which run

pageVars == <<call, polled, answers, enabled, shown>>

Idle == <<"", NoRun>>

PageInit ==
    /\ call = [c \in Calls |-> "none"]
    /\ polled = [c \in Calls |-> NoRun]
    /\ answers = [c \in Calls |-> {}]
    /\ enabled = TRUE
    /\ shown = Idle

\* The buttons stay enabled until the POST is answered.
Click(c) ==
    /\ Card # NoDevice
    /\ call[c] = "none"
    /\ enabled
    /\ call' = [call EXCEPT ![c] = "posted"]
    /\ shown' = <<"starting", NoRun>>
    /\ UNCHANGED <<vars, polled, answers, enabled>>

\* RunManager.start, or a LabError and 409.
Post(c) ==
    /\ call[c] = "posted"
    /\ \/ \E r \in Runs :
            /\ Register(r, Card)
            /\ call' = [call EXCEPT ![c] = "accepted"]
            /\ polled' = [polled EXCEPT ![c] = r]
       \/ /\ Card \in busy
          /\ call' = [call EXCEPT ![c] = "refused"]
          /\ UNCHANGED <<vars, polled>>
    /\ UNCHANGED <<answers, enabled, shown>>

Accepted(c) ==
    /\ call[c] = "accepted"
    /\ call' = [call EXCEPT ![c] = "polling"]
    /\ enabled' = FALSE
    /\ UNCHANGED <<vars, polled, answers, shown>>

Refused(c) ==
    /\ call[c] = "refused"
    /\ call' = [call EXCEPT ![c] = "over"]
    /\ shown' = <<"refused", NoRun>>
    /\ UNCHANGED <<vars, polled, answers, enabled>>

\* The timer fires again whether or not the last poll has been answered. The
\* state of a run this process does not know is "absent": a 404.
Poll(c) ==
    /\ call[c] = "polling"
    /\ answers' = [answers EXCEPT ![c] = @ \cup {state[polled[c]]}]
    /\ UNCHANGED <<vars, call, polled, enabled, shown>>

\* Mutant of Final: a run the hub does not know may yet come back.
FinalKnown(s) == s \in Verdicts

\* What ends the polling.
Final(s) == s # "running"

\* Mutant of Text: what is not an error is a success.
TextByError(s) == CASE s = "running" -> "running" [] s = "error" -> "failed" [] OTHER -> "done"

\* What .runprog says of an answered state.
Text(s) == CASE s = "running" -> "running" [] s = "done" -> "done" [] OTHER -> "failed"

\* Answers of earlier polls are shown even if the timer has been cleared.
Deliver(c, s) ==
    /\ s \in answers[c]
    /\ answers' = [answers EXCEPT ![c] = @ \ {s}]
    /\ shown' = <<Text(s), polled[c]>>
    /\ IF Final(s)
       THEN call' = [call EXCEPT ![c] = "over"] /\ enabled' = TRUE
       ELSE UNCHANGED <<call, enabled>>
    /\ UNCHANGED <<vars, polled>>

\* With the hub go the POSTs it was serving: startLabRun ends without an
\* answer. A poll that is lost ends nothing, and is no step here.
HubCrash ==
    /\ Crash
    /\ call' = [c \in Calls |->
                  IF call[c] \in {"posted", "accepted", "refused"} THEN "lost" ELSE call[c]]
    /\ UNCHANGED <<polled, answers, enabled, shown>>

\* Other clients start runs as well.
Elsewhere ==
    /\ \/ \E r \in Runs, d \in Devices : Register(r, d)
       \/ \E r \in Runs : ThreadStep(r)
       \/ \E r \in Runs, v \in Verdicts : HeadlessRun(r, v)
    /\ UNCHANGED pageVars

Watch(c) == Poll(c) \/ \E s \in States : Deliver(c, s)

PageStep(c) == Click(c) \/ Post(c) \/ Accepted(c) \/ Refused(c) \/ Watch(c)

PageNext == Elsewhere \/ HubCrash \/ \E c \in Calls : PageStep(c)

\* Threads run on, the timer goes on firing, and some polls are answered.
PageFairness ==
    /\ \A r \in Runs : WF_<<vars, pageVars>>(ThreadStep(r) /\ UNCHANGED pageVars)
    /\ \A c \in Calls : WF_<<vars, pageVars>>(Watch(c))

PageSpec == Init /\ PageInit /\ [][PageNext]_<<vars, pageVars>> /\ PageFairness

----------------------------------------------------------------------------
\* What the card says of the end of a run is in runs.jsonl, or the hub that ran
\* it is gone (a 404 is shown as a failure, whatever the run had come to); and
\* the buttons are disabled only while some call still polls.
PageTellsTheTruth ==
    /\ ~Glued => \/ shown[1] \notin {"done", "failed"}
                 \/ shown[1] = "done" /\ Logged(shown[2], "done")
                 \/ shown[1] = "failed" /\ (Logged(shown[2], "error") \/ stage[shown[2]] = "killed")
    /\ ~enabled => \E c \in Calls : call[c] = "polling"

\* No card polls for ever: restarts included, a call that polls ends one day,
\* unless its run is one of the two the hub itself shows as running for ever.
PageComesBack ==
    \A c \in Calls :
        call[c] = "polling" ~> \/ call[c] = "over"
                              \/ \E r \in Runs : r = polled[c] /\ stage[r] \in {"stillborn", "failed"}
=============================================================================
