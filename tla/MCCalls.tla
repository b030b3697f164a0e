------------------------------ MODULE MCCalls ------------------------------
(* Two calls that go on by themselves until they return, one per behaviour: *)
(* a node is analysed with a pool, or a sheet is assembled and oriented.    *)
EXTENDS FanOut, MCSheetTopology

VARIABLE running  \* which of them

\* A node that has been analysed, and no sheet at hand.
NoNode ==
    /\ doomed = {} /\ workers = 0 /\ job = [i \in Jobs |-> "done"]
    /\ at = N /\ phase = "returned" /\ answer = [rows |-> N, failed |-> 0]
NoSheet ==
    /\ engine = "off" /\ oriented = 0
    /\ sheet = "off" /\ building = "off" /\ kind = <<>> /\ edges = <<>> /\ bridged = {}
    /\ visited = {} /\ walk = NoWalk /\ runs = <<>> /\ read = 0
    /\ reading = "off" /\ converting = "off" /\ turn = 1 /\ papers = <<>> /\ report = "off"
    /\ page = [ends |-> <<>>, kind |-> <<>>, short |-> {}, seeds |-> 0]
    /\ stage = "done" /\ seeded = 0 /\ asked = <<>> /\ direction = <<>> /\ source = <<>>
    /\ conflict = {} /\ frontier = {} /\ newly = {} /\ unvisited = {}

MCInit ==
    \/ running = "pool" /\ PoolInit /\ NoSheet
    \/ running = "sheet" /\ Init /\ NoNode

MCNext ==
    /\ UNCHANGED running
    /\ \/ running = "pool" /\ PoolNext /\ UNCHANGED sheetVars
       \/ running = "sheet" /\ Next /\ UNCHANGED poolVars

MCSpec ==
    /\ MCInit /\ [][MCNext]_<<running, poolVars, sheetVars>>
    /\ PoolFairness /\ WF_sheetVars(Work)
=============================================================================
