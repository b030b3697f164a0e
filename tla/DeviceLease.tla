---------------------------- MODULE DeviceLease ----------------------------
(* What the RunManager promises, without threads or files: a device is      *)
(* leased to at most one run, a run id is used once, and a run's verdict is *)
(* published at most once, after its lease has been given back, and is then *)
(* never withdrawn - not even by a restart, which voids every lease.        *)

CONSTANTS Devices, Runs, Verdicts

VARIABLES held,       \* the pairs <<device, run>> leased
          used,       \* run ids drawn
          published   \* the records [run, state] a reader of the log can find

leaseVars == <<held, used, published>>

Init == held = {} /\ used = {} /\ published = {}

Take(d, r) ==
    /\ r \notin used
    /\ \A h \in held : h[1] # d
    /\ held' = held \cup {<<d, r>>}
    /\ used' = used \cup {r}
    /\ UNCHANGED published

Return(d, r) ==
    /\ <<d, r>> \in held
    /\ held' = held \ {<<d, r>>}
    /\ UNCHANGED <<used, published>>

Publish(r, v) ==
    /\ \A h \in held : h[2] # r
    /\ \A p \in published : p.run # r
    /\ published' = published \cup {[run |-> r, state |-> v]}
    /\ used' = used \cup {r}
    /\ UNCHANGED held

\* A run that will never be published: its id is used up all the same.
Discard(r) ==
    /\ used' = used \cup {r}
    /\ UNCHANGED <<held, published>>

Restart ==
    /\ held' = {}
    /\ UNCHANGED <<used, published>>

Next ==
    \/ \E d \in Devices, r \in Runs : Take(d, r) \/ Return(d, r)
    \/ \E r \in Runs, v \in Verdicts : Publish(r, v)
    \/ \E r \in Runs : Discard(r)
    \/ Restart

Spec == Init /\ [][Next]_leaseVars
=============================================================================
