-------------------------- MODULE MCSheetTopology ---------------------------
(* Eight sheets: a tee before a valve, twin strokes, a line with an          *)
(* instrument tap and a stub, a ring, a valve with its spring tick, two      *)
(* junctions in a row, a vessel with a pipe across its shell and a vendor    *)
(* box of dashes, and a stub two valves can reach; and four readings.        *)
EXTENDS SheetTopology

P == "point"
V == "valve"
I == "instrument"

Pipe(a, b)   == [a |-> a, b |-> b, style |-> "solid", length |-> 10]
Dashed(a, b) == [a |-> a, b |-> b, style |-> "dashed", length |-> 10]
Tick(a, b)   == [a |-> a, b |-> b, style |-> "solid", length |-> 3]

\* A sheet without equipment, and one with.
Sheet(kinds, strokes, near, texts, seeds) ==
    [kind |-> kinds, strokes |-> strokes, near |-> near, texts |-> texts,
     seeds |-> seeds, owner |-> <<>>, shape |-> <<>>]
Equipped(s, owner, shape) == [s EXCEPT !.owner = owner, !.shape = shape]

MCSheets == {
    \* 2 and 3 meet at 1; 4 is a valve between 5 and 6; 7 a corner
    Sheet(<<P, P, P, V, P, P, P, P>>,
          <<Pipe(2, 1), Pipe(3, 1), Pipe(1, 5), Pipe(6, 7), Pipe(7, 8)>>,
          {<<4, 5>>, <<4, 6>>}, <<2, 8>>, 2),
    \* 1 and 2 are joined twice, by way of 3
    Sheet(<<P, P, P, P, P, P, P>>,
          <<Pipe(1, 2), Pipe(2, 3), Pipe(3, 1), Pipe(1, 4), Pipe(2, 5), Pipe(6, 2)>>,
          {}, <<4>>, 2),
    \* an instrument 3 reaches its leader's end 4; 7 is a stub
    Sheet(<<P, P, I, P, P, P, P>>,
          <<Pipe(1, 2), Pipe(2, 4), Pipe(2, 5), Pipe(5, 6), Tick(5, 7)>>,
          {<<3, 4>>}, <<1, 6>>, 2),
    \* a ring of 1, 2 and 3 with a way out at each, one behind a valve 4
    Sheet(<<P, P, P, V, P, P, P, P>>,
          <<Pipe(1, 2), Pipe(2, 3), Pipe(3, 1), Pipe(1, 5), Pipe(6, 7), Pipe(3, 8)>>,
          {<<4, 5>>, <<4, 6>>}, <<8>>, 2),
    \* the tick of a valve 1, both of whose ends 2 and 3 it reaches
    Sheet(<<V, P, P, P, P, P, P>>,
          <<Tick(2, 3), Pipe(4, 5), Pipe(6, 7)>>,
          {<<1, 2>>, <<1, 3>>, <<1, 4>>, <<1, 6>>}, <<5>>, 2),
    \* two tees in a row
    Sheet(<<P, P, P, P, P, P>>,
          <<Pipe(1, 2), Pipe(3, 2), Pipe(2, 4), Pipe(4, 5), Pipe(6, 4)>>,
          {}, <<1, 6>>, 3),
    \* a vessel over 1, 2, 3 whose pipe goes by 4 to 5; a circle over 6; dashes
    \* around 8, 9, 10 and from 4 to an instrument
    Equipped(Sheet(<<P, P, P, P, P, P, P, P, P, P, P, I>>,
                   <<Pipe(1, 2), Pipe(2, 3), Pipe(3, 1), Pipe(3, 4), Pipe(4, 5),
                     Pipe(6, 7), Pipe(7, 5), Dashed(8, 9), Dashed(9, 10), Dashed(10, 8),
                     Dashed(4, 11)>>,
                   {<<12, 11>>}, <<14, 14, 5>>, 2),
             [n \in {1, 2, 3, 6} |-> IF n = 6 THEN 2 ELSE 1], <<"capsule", "circle">>),
    \* 3 is in reach of the valves 1 and 2; 2 lies in a vessel's box
    Equipped(Sheet(<<V, V, P, P, P, P>>,
                   <<Pipe(3, 4), Pipe(5, 6)>>,
                   {<<1, 3>>, <<2, 3>>, <<2, 5>>}, <<4>>, 2),
             [n \in {2} |-> 1], <<"capsule">>) }

----------------------------------------------------------------------------
\* Readings of two pages.
Thing(k, p) == [kind |-> k, page |-> p, heading |-> "none", wording |-> "none"]
Opc(p, heading, wording) ==
    [kind |-> "opc", page |-> p, heading |-> heading, wording |-> wording]
Process(a, b) == [from |-> a, to |-> b, process |-> TRUE, cross |-> FALSE]
Signal(a, b)  == [from |-> a, to |-> b, process |-> FALSE, cross |-> FALSE]
Stitch(a, b)  == [from |-> a, to |-> b, process |-> TRUE, cross |-> TRUE]

MCReadings == {
    \* a tank to a connector by way of a valve, a transmitter, a note
    [entities |-> <<Opc(1, "out", "to"), Thing("valve", 1), Thing("equipment", 1),
                    Thing("instrument", 1), Thing("text", 1)>>,
     edges |-> <<Process(3, 2), Process(2, 1), Signal(4, 3), Process(2, 5), Process(5, 9)>>],
    \* two items with three pipes and a safety valve, on to the second page
    [entities |-> <<Thing("equipment", 1), Thing("equipment", 1), Thing("safety-valve", 1),
                    Opc(1, "in", "none"), Opc(2, "out", "none"), Thing("equipment", 2),
                    Thing("other", 1)>>,
     edges |-> <<Process(1, 2), Process(1, 7), Process(7, 3), Process(7, 2), Process(4, 1),
                 Process(4, 5), Stitch(3, 9), Process(5, 6), Process(6, 6)>>],
    \* a tee whose connectors agree, or one of whose labels speaks against its heading
    [entities |-> <<Thing("other", 1), Opc(1, "in", "from"), Opc(1, "in", "to"),
                    Opc(1, "out", "none"), Thing("safety-valve", 1), Opc(3, "in", "none")>>,
     edges |-> <<Process(1, 2), Process(1, 3), Process(4, 1), Process(5, 1), Process(6, 5)>>],
    \* both ends of a pipe say that flow comes from there
    [entities |-> <<Opc(1, "in", "none"), Opc(1, "in", "none"), Thing("valve", 1),
                    Opc(1, "out", "from"), Opc(1, "none", "none")>>,
     edges |-> <<Process(1, 2), Process(1, 3), Process(3, 4), Process(3, 5)>>] }
=============================================================================
