---------------------------- MODULE TsAppraisal ----------------------------
(***************************************************************************)
(* appraisal of the TypeScript finalizer (trace-finalizer.ts), over events *)
(* as in TraceAppraisal.  boundApprovals compares fields by JSON.stringify,*)
(* so that two equal digests differ when their keys are written in another *)
(* order: Reversed are the events with the digest's value before its       *)
(* algorithm.                                                              *)
(***************************************************************************)
EXTENDS TraceAppraisal

\* JSON.stringify of a field: the value and the order its keys are written in.
Stringified(e, field, Reversed) ==
    <<e[field], field = "action_digest" /\ e \in Reversed>>

\* Mutant of SameBinding: digests are not compared.
SameBindingButDigest(approval, request, Reversed) ==
    \A field \in BindingFields \ {"action_digest"} :
        /\ field \in DOMAIN approval /\ field \in DOMAIN request
        /\ Stringified(approval, field, Reversed)
               = Stringified(request, field, Reversed)

SameBinding(approval, request, Reversed) ==
    \A field \in BindingFields :
        /\ field \in DOMAIN approval /\ field \in DOMAIN request
        /\ Stringified(approval, field, Reversed)
               = Stringified(request, field, Reversed)

TsBoundApprovals(events, Reversed) ==
    {approval \in Approved(events) :
        \E request \in Requests(events) :
            /\ SameBinding(approval, request, Reversed)
            /\ request.requested_at_unix_nano <= approval.time_unix_nano
            /\ approval.time_unix_nano <= request.expires_at_unix_nano}

\* The action's loop over its candidates: what it makes of each of them.
Answers(events, action, bound) ==
    {IF Disagrees(approval, action) THEN "contradicts"
     ELSE IF approval \in bound THEN "satisfies" ELSE "neither" :
         approval \in Candidates(events, action)}

TsActionBinding(events, bound) ==
    LET open == {answers \in {Answers(events, a, bound) : a \in Gated(events)} :
                    "satisfies" \notin answers}
    IN  IF \E answers \in open : "contradicts" \in answers THEN "contradicted"
        ELSE IF open # {} THEN "unresolved" ELSE "bound"

TsAppraisal(events, Reversed) ==
    LET decisions == Decisions(events)
        types     == {e.event_type : e \in Approvals(events)}
        bound     == TsBoundApprovals(events, Reversed)
        binding   == TsActionBinding(events, bound)
        approved  == {a.policy_event_id : a \in bound}
    IN  IF \/ \E d \in decisions : d.decision \in {"deny", "error"}
           \/ types \cap {"approval.rejected", "approval.expired",
                          "approval.execution_failed"} # {}
           \/ binding = "contradicted"
        THEN "contraindicated"
        ELSE IF \/ \E d \in decisions :
                       d.decision = "challenge" /\ d.event_id \notin approved
                \/ "approval.cancelled" \in types
                \/ binding = "unresolved"
        THEN "warning"
        ELSE IF decisions # {} \/ types # {} THEN "affirming" ELSE "none"
=============================================================================
