------------------------- MODULE MCTelemetryClient -------------------------
(***************************************************************************)
(* Instances of TelemetryClient for TLC.                                   *)
(***************************************************************************)
EXTENDS TelemetryClient, TLC

Ev(id, event_type) ==
    [source_id |-> id, named |-> TRUE, mappable |-> TRUE,
     event_type |-> event_type, observed |-> {}, valid |-> TRUE,
     chainable |-> TRUE]

Policy(id) == Ev(id, "policy.decision")
Usage(id, amounts) == [Ev(id, "usage.recorded") EXCEPT !.observed = amounts]
Unnamed(e) == [e EXCEPT !.named = FALSE]
Unmappable(e) == [e EXCEPT !.mappable = FALSE]
Refused(e) == [e EXCEPT !.valid = FALSE]
OfAnotherRun(e) == [e EXCEPT !.chainable = FALSE]

\* Two hosts whose batches share an event, with a flow that gets an id with each
\* try behind it in the first, and an event of another run in the second; one
\* whose batch cannot be mapped; one with an event the schema refuses; and one
\* whose span ids disagree.
MixedBatches ==
    "w1" :> <<Usage("a", {"input", "cost"}),
              Unnamed(Ev("b", "data_flow.observed"))>> @@
    "w2" :> <<Usage("a", {"input", "cost"}), OfAnotherRun(Ev("c", "evidence"))>> @@
    "w3" :> <<Policy("d"), Unmappable(Policy("e"))>> @@
    "w4" :> <<Refused(Policy("f"))>> @@
    "w5" :> <<Ev("g", "action.executed")>>

MixedSpans ==
    "w1" :> "valid" @@ "w2" :> "none" @@ "w3" :> "valid" @@
    "w4" :> "none" @@ "w5" :> "valid"

\* One event for each call of the sink, and two that get an id with each try.
RetriedBatches ==
    "w1" :> <<Policy("a")>> @@
    "w2" :> <<Unnamed(Ev("b", "data_flow.observed")),
              Unnamed(Ev("c", "data_flow.observed"))>>

\* Two events in one call of the sink.
PairBatches == "w1" :> <<Ev("a", "approval"), Ev("b", "approval")>>

Spans == "w1" :> "valid" @@ "w2" :> "none"
=============================================================================
