----------------------- MODULE MCEvidenceAccumulator -----------------------
(***************************************************************************)
(* Instances of EvidenceAccumulator for TLC.                               *)
(***************************************************************************)
EXTENDS EvidenceAccumulator

Event(id, run, valid, canonical, body) ==
    [event_id |-> id, run_id |-> run, valid |-> valid,
     canonical |-> canonical, body |-> body]

DistinctEvents ==
    {Event(id, "run", TRUE, TRUE, "x") : id \in {"e1", "e2", "e3"}}

\* Besides, another document under one of their ids, and a document for each
\* reason to refuse one.
MixedEvents ==
    DistinctEvents \cup
    {Event("e1", "run", TRUE, TRUE, "y"), Event("e4", "run", FALSE, TRUE, "x"),
     Event("e5", "run", TRUE, FALSE, "x"), Event("e6", "other", TRUE, TRUE, "x")}
=============================================================================
