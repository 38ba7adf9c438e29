--------------------------- MODULE MCTsTelemetry ---------------------------
(***************************************************************************)
(* Two events of a run, one the schema refuses, and one of another run.    *)
(***************************************************************************)
EXTENDS TsTelemetry, TLC

Document(id, valid, chainable) ==
    [event_id |-> id, valid |-> valid, chainable |-> chainable]

SomeDocuments ==
    {Document("a", TRUE, TRUE), Document("b", TRUE, TRUE),
     Document("refused", FALSE, TRUE), Document("foreign", TRUE, FALSE)}
=============================================================================
