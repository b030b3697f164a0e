--------------------------- MODULE SheetTopology ----------------------------
(* One sheet to directed runs, by either engine: from its strokes, with      *)
(* build_graph and assemble (RunAssembly), or from what a vision model read  *)
(* (DiagexGraph). Both hand the runs drawn solid, with their nodes, to      *)
(* orient_runs (OrientRuns), which needs no more of the sheet.              *)
EXTENDS RunAssembly, DiagexGraph, OrientRuns

VARIABLE engine,   \* "geometric" or "diagex"
         oriented  \* the page of the reading that was handed over

sheetVars == <<assemblyVars, diagexVars, orientVars, engine, oriented>>

\* The runs orient_runs takes for pipes.
Solid(rs) == {k \in DOMAIN rs : rs[k].style = "solid"}

EndsOf(rs) == [k \in Solid(rs) |-> [a |-> rs[k].a, b |-> rs[k].b]]

Length(r) == FoldLeft(LAMBDA sum, i : sum + edges[i].length, 0, r.chain)

\* The seeds a sheet holds are input, as its arrows and markers are.
Assembled ==
    [ends  |-> EndsOf(runs),
     kind  |-> kind,
     short |-> {k \in Solid(runs) : Length(runs[k]) < 8},
     seeds |-> sheet.seeds]

\* Which polylines of a reading are as short as a stub is input.
Converted(paper, short) ==
    [ends  |-> EndsOf(paper.runs),
     kind  |-> [n \in DOMAIN paper.nodes |-> paper.nodes[n].kind],
     short |-> short,
     seeds |-> Len(paper.nodes)]

Init ==
    /\ AssemblyInit /\ DiagexInit /\ OrientInit
    /\ engine \in {"geometric", "diagex"} /\ oriented = 0
    /\ engine = "geometric" => reading = CHOOSE g \in Readings : TRUE
    /\ engine = "diagex" => sheet = CHOOSE s \in Sheets : TRUE

HandOver == building = "built" /\ Orient(Assembled) /\ UNCHANGED oriented

\* The pages of a reading are oriented one by one and have nothing in common.
HandOverPage(p) ==
    /\ converting = "converted"
    /\ \E short \in SUBSET Solid(papers[p].runs) : Orient(Converted(papers[p], short))
    /\ oriented' = p

----------------------------------------------------------------------------
(* Seeds of a page that was read: the connectors whose heading and label do  *)
(* not speak against each other, and the valves marked as safety valves, of  *)
(* which there are none before the page has been oriented.                   *)

Paper == papers[oriented]
AsRead(n) == reading.entities[Paper.nodes[n].of]

Clear(n) == AsRead(n).wording \in
               {"none", IF AsRead(n).heading = "out" THEN "to" ELSE "from"}

Heads(n) == [r \in Incident(n) |-> IF AsRead(n).heading = "out" THEN Toward(r, n)
                                                                ELSE Away(r, n)]

Unread == unvisited \cap CASE stage = "connector" -> {n \in Paper.connectors : Clear(n)}
                           [] stage = "psv" -> Paper.marked
                           [] OTHER -> {}

ReadSeed ==
    \E n \in Unread :
       \E ask \in IF stage = "connector" THEN {Heads(n)} ELSE [Incident(n) -> Dirs] :
          SeedAt(n, stage, ask)

----------------------------------------------------------------------------
\* All that the one thread does by itself.
Geometric ==
    /\ engine = "geometric"
    /\ UNCHANGED <<diagexVars, engine>>
    /\ \/ AssemblyNext /\ UNCHANGED <<orientVars, oriented>>
       \/ HandOver /\ UNCHANGED assemblyVars
       \/ Step /\ UNCHANGED <<assemblyVars, oriented>>

Vision ==
    /\ engine = "diagex"
    /\ UNCHANGED <<assemblyVars, engine>>
    /\ \/ ConvertNext /\ UNCHANGED <<orientVars, oriented>>
       \/ (\E p \in Pages : HandOverPage(p)) /\ UNCHANGED diagexVars
       \/ ReadSeed /\ UNCHANGED <<diagexVars, oriented>>
       \/ Unread = {} /\ Step /\ UNCHANGED <<diagexVars, oriented>>
       \/ stage = "done" /\ MarkSafety(oriented) /\ UNCHANGED <<orientVars, oriented>>

Work == Geometric \/ Vision

\* What the arrows and markers of a sheet say.
Seeding ==
    /\ engine = "geometric" /\ SeedStep
    /\ UNCHANGED <<assemblyVars, diagexVars, engine, oriented>>

Next == Work \/ Seeding

Spec == Init /\ [][Next]_sheetVars /\ WF_sheetVars(Work)

----------------------------------------------------------------------------
\* On a page that was read, a direction was read off a connector or follows from
\* such directions (module docstring of diagex_fallback.py: flow direction is
\* never guessed, the orientation of safety valves is not trusted), every clear
\* heading is followed or its run flagged, and safety valves end up marked.
HeadingsAreFollowed ==
    engine = "diagex" /\ stage \notin {"waiting", "arrow", "check-valve", "connector"} =>
        /\ \A r \in Runs : source[r] \in {"none", "connector", "propagated", "conservation"}
        /\ \A n \in {m \in Paper.connectors : Clear(m)} : \A r \in Incident(n) :
              direction[r] = Heads(n)[r] \/ r \in conflict
        /\ converting = "emitted" => \A n \in DOMAIN Paper.nodes :
              Paper.nodes[n].of # 0 /\ AsRead(n).kind = "safety-valve" => n \in Paper.marked

\* Whichever engine reads it, nothing of a drawing is lost on the way to its runs,
\* and what a reading says of flow is what is kept.
DrawingIsKept == RunsCoverTheDrawing /\ GraphIsConverted /\ HeadingsAreFollowed
=============================================================================
