------------------------------- MODULE MCPlant ------------------------------
(* The plant in the hub: a behaviour either takes a drawing to study nodes  *)
(* and the view of one of them, or loads a graph into the database and asks *)
(* questions of it, or benches a translator of questions (BenchSpec).       *)
EXTENDS PlantModel, TranslatorBench

Element(class, letter, label, parent) ==
    [class |-> class, letter |-> letter, label |-> label, parent |-> parent]
Equip(letter)  == Element("Equipment", letter, None, None)
NozzleOf(i)    == Element("Nozzle", "", None, i)
Inl(class)     == Element(class, "", None, None)
Node           == Element("PipingNode", "", None, None)

\* All drawings of these elements whose segments join these pairs.
Family(elems, pairs) ==
    {[elems |-> elems,
      segs |-> [k \in DOMAIN pairs |->
          [from |-> pairs[k][1], to |-> pairs[k][2], flow |-> f[k]]]] :
     f \in [DOMAIN pairs -> {-1, 0, 1}]}

\* Two ways between the geometry of a vessel's nozzle and two items, one of them
\* named on two sheets.
Tees == UNION {Family(
    <<Equip("V"), Element("Equipment", "P", 50, None), Element("Equipment", "P", 50, None),
      NozzleOf(1), Node, Node>>,
    pairs) : pairs \in {<< <<4, 5>>, <<5, 6>>, <<6, 2>>, <<5, 3>> >>,
                        << <<1, 5>>, <<5, 2>>, <<4, 6>>, <<6, 3>> >>,
                        << <<4, 5>>, <<5, 6>>, <<6, 4>>, <<6, 2>> >>}}

\* A row of pass-through items, one with an instrument tap, and a ring.
Rows == UNION {Family(
    <<Equip("V"), Inl("Valve"), Inl("CheckValve"), Inl("SafetyValve"), Equip("T"),
      Inl("Instrument")>>,
    pairs) : pairs \in {<< <<1, 2>>, <<2, 3>>, <<3, 4>>, <<4, 5>>, <<2, 6>> >>,
                        << <<1, 2>>, <<2, 3>>, <<3, 4>>, <<4, 2>>, <<4, 5>> >>,
                        << <<1, 2>>, <<3, 2>>, <<1, 3>>, <<3, 4>>, <<4, 5>> >>}}

\* Two crossed ways through two valves.
Crossings == Family(
    <<Equip("V"), Inl("Valve"), Inl("Valve"), Equip("T")>>,
    << <<1, 2>>, <<2, 3>>, <<3, 4>>, <<1, 3>>, <<2, 4>> >>)

\* A valve between a tank and a node of the piping where flow may part.
Partings == Family(
    <<Equip("V"), Inl("Valve"), Node, Equip("T")>>,
    << <<1, 2>>, <<2, 3>>, <<3, 4>> >>)

\* Sections, machines, exchangers and an off-page connector behind a valve.
Plants == UNION {Family(
    <<Equip("V"), Equip(l[1]), Equip(l[2]), Inl("Valve"), Inl("OffPage"), NozzleOf(2)>>,
    pairs) : l \in {"T", "P", "E"} \X {"V", "K"},
             pairs \in {<< <<1, 4>>, <<4, 2>>, <<6, 3>>, <<3, 1>> >>,
                        << <<1, 2>>, <<2, 3>>, <<3, 6>>, <<3, 5>> >>}}

MCDrawings == Tees \cup Rows \cup Crossings \cup Partings \cup Plants

----------------------------------------------------------------------------
Version(types, lines) == [type |-> types, edges |-> lines]
Flow(a, b) == [src |-> a, dst |-> b, known |-> TRUE]
Line(a, b) == [src |-> a, dst |-> b, known |-> FALSE]

\* A machine, a vessel, a relief valve behind a valve or not, and a stub.
Types == <<"compressor", "vessel", "relief_valve", "valve">>
MCGraphs == {Version(Types, es) : es \in
    {{Flow(1, 2), Flow(2, 3), Line(2, 4)},
     {Flow(1, 2), Flow(2, 1), Flow(2, 4), Flow(4, 3)},
     {Line(1, 2), Flow(2, 4), Line(3, 4), Flow(1, 4)},
     {Flow(1, 2), Flow(2, 4), Flow(4, 1), Line(1, 3)}}}
MCLabelOrder == <<"compressor", "relief_valve", "valve", "vessel">>

Exactly(t) == [exact |-> t, ends |-> {}]
Ending(S) == [exact |-> NoTag, ends |-> S]
Mentions == {Exactly(1), Exactly(9), Ending({2}), Ending({1, 2}), Ending({})}
Texts == {<<>>} \cup {<<m>> : m \in Mentions} \cup ({Exactly(1), Exactly(9)} \X Mentions)

Cues == {"how many", "route", "downstream", "upstream", "protected", "relief",
         "connected", "list", "about"}
CueSets == {{}} \cup {{c} : c \in Cues} \cup
    {{"how many", "route"}, {"route", "downstream"}, {"downstream", "upstream"},
     {"upstream", "protected"}, {"relief", "connected"}, {"connected", "list"},
     {"list", "about"}}
MCQuestions == [cues : CueSets, type : {NoType, "relief_valve"}, mentions : Texts]

\* One of each intent, for every state of the database.
Plain == {q \in MCQuestions : /\ Cardinality(q.cues) = 1
                              /\ q.mentions \in {<<Exactly(1)>>, <<Exactly(1), Ending({2})>>}}

MCPayloads ==
    {[kind |-> k, tag |-> t, source |-> s, target |-> <<Exactly(3)>>, type |-> y] :
        k \in Kinds \cup {"junk"}, s \in {<<>>, <<Ending({2})>>, <<Exactly(3)>>},
        t \in {<<>>, <<Exactly(2)>>, <<Ending({1, 2})>>},
        y \in {NoType, "valve"}}

VARIABLE part  \* which of them

First == CHOOSE d \in MCDrawings : TRUE

MCInit ==
    /\ part \in {"drawing", "questions"}
    /\ part = "questions" => drawing = First
    /\ PlantInit /\ StoreInit
    /\ part = "drawing" => bound = CHOOSE g \in Graphs : TRUE
    /\ QueryInit
    /\ suite = <<>> /\ marks = <<>>

\* Questions come while no load is under way, and while the database has met no
\* other version than the one the hub answers from.
MCStep ==
    \/ part = "drawing" /\ PlantNext /\ UNCHANGED <<part, storeVars, queryVars>>
    \/ /\ part = "questions" /\ asking = "idle"
       /\ StoreNext /\ UNCHANGED <<part, plantVars, queryVars>>
    \/ /\ part = "questions" /\ loading = NoGraph /\ ToSet(begun) \subseteq {bound}
       /\ QueryNext /\ UNCHANGED <<part, plantVars, storeVars>>
       /\ begun = <<>> \/ question' \in Plain

MCNext == MCStep /\ UNCHANGED benchVars

mcVars == <<part, plantVars, storeVars, queryVars, benchVars>>

MCSpec == MCInit /\ [][MCNext]_mcVars

----------------------------------------------------------------------------
\* A compressor that feeds two vessels, one with a relief valve, and a
\* translator that may leave the equipment type of a question out.
BenchGraphs == {Version(<<"compressor", "vessel", "vessel", "relief_valve">>,
                        {Flow(1, 2), Flow(1, 3), Flow(2, 4)})}
BenchLabelOrder == <<"compressor", "relief_valve", "vessel">>

BenchPayloads ==
    {[kind |-> k, tag |-> t, source |-> <<>>, target |-> <<>>, type |-> y] :
        k \in {"downstream", "upstream", "count"},
        t \in {<<>>, <<Exactly(1)>>, <<Exactly(2)>>}, y \in {NoType, "vessel"}}

BenchSpec ==
    /\ part = "bench" /\ drawing = First
    /\ PlantInit /\ StoreInit /\ QueryInit /\ BenchInit
    /\ [][BenchNext /\ UNCHANGED <<part, plantVars, storeVars, queryVars>>]_mcVars
=============================================================================
