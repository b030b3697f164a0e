----------------------------- MODULE MCLabRuns -----------------------------
(* The LLM Lab's run manager on two devices and three run ids; or, with a   *)
(* page open, on one device and two run ids, with two clicks.               *)
EXTENDS LabPage, TLC

CONSTANTS d1, d2, r1, r2, r3, c1, c2

MCDevices == {d1, d2}
MCRuns    == {r1, r2, r3}
MCCalls   == {c1, c2}

VARIABLE open  \* is the page open?

MCInit == Init /\ PageInit /\ open \in BOOLEAN

MCNext ==
    /\ PageNext
    /\ UNCHANGED open
    /\ IF open THEN stage'[r3] = "idle" /\ d2 \notin busy'
               ELSE UNCHANGED pageVars

MCSpec == MCInit /\ [][MCNext]_<<vars, pageVars, open>> /\ PageFairness
=============================================================================
