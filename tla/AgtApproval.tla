---------------------------- MODULE AgtApproval ----------------------------
(***************************************************************************)
(* The adapters of adapters/agt_approval.py: what becomes of the records   *)
(* of AGT's approval protocol. They are records the host holds: a decision *)
(* that suspended an action, the request it led to, and a resolution. A    *)
(* field is "none" when the source leaves it out or it is not well formed. *)
(* Each adapter raises, or maps its source to one event. Fields that no    *)
(* binding reads (rule, agent, evidence digest) are taken to be present.   *)
(***************************************************************************)
EXTENDS Naturals

Present(value) == value # "none"

\* _source_event_id: uuid5 over kind and source id.
SourceEventId(kind, source_id) == <<kind, source_id>>

Agree(left, right, fields) ==
    \A field \in fields : Present(left[field]) /\ left[field] = right[field]

-----------------------------------------------------------------------------
DecisionMaps(decision) ==
    /\ decision.verdict = "require_approval"
    /\ Present(decision.policy_decision_id)

agt_policy_decision_record(decision) ==
    [event_type     |-> "policy.decision",
     event_id       |-> SourceEventId("policy", decision.policy_decision_id),
     time_unix_nano |-> decision.decided_at,
     decision       |-> "challenge"]

-----------------------------------------------------------------------------
\* _verify_request_binding, and the fields the event needs.
RequestMaps(request, decision) ==
    /\ Agree(request, decision,
             {"policy_decision_id", "action_digest", "policy_version",
              "approval_chain_id", "approval_chain_version"})
    /\ Present(request.approval_request_id)

agt_approval_request(request) ==
    [event_type      |-> "approval.requested",
     event_id        |->
         SourceEventId("approval.requested", request.approval_request_id),
     time_unix_nano  |-> request.requested_at,
     approval_id     |-> request.approval_request_id,
     policy_event_id |-> SourceEventId("policy", request.policy_decision_id),
     chain_id        |-> request.approval_chain_id,
     chain_version   |-> request.approval_chain_version,
     action_digest   |-> request.action_digest,
     requested_at_unix_nano |-> request.requested_at,
     expires_at_unix_nano   |-> request.expires_at]

-----------------------------------------------------------------------------
EventTypeOf == [allow   |-> "approval.approved",
                deny    |-> "approval.rejected",
                expired |-> "approval.expired"]

\* Mutant of ResolutionMaps: the resolution may be about another action.
ResolutionMapsLoosely(resolution, request) ==
    /\ Agree(resolution, request,
             {"approval_request_id", "policy_version", "approval_chain_version"})
    /\ resolution.outcome \in DOMAIN EventTypeOf
    /\ resolution.resolved_at >= request.requested_at
    /\ Present(request.policy_decision_id) /\ Present(request.approval_chain_id)
    /\ Present(resolution.approval_resolution_id)

\* _verify_resolution_binding, the outcome, the times, the fields of the event.
ResolutionMaps(resolution, request) ==
    /\ Agree(resolution, request,
             {"approval_request_id", "action_digest", "policy_version",
              "approval_chain_version"})
    /\ resolution.outcome \in DOMAIN EventTypeOf
    /\ resolution.resolved_at >= request.requested_at
    /\ Present(request.policy_decision_id) /\ Present(request.approval_chain_id)
    /\ Present(resolution.approval_resolution_id)

agt_approval_resolution(resolution, request) ==
    [event_type      |-> EventTypeOf[resolution.outcome],
     event_id        |-> SourceEventId("approval.resolution",
                                       resolution.approval_resolution_id),
     time_unix_nano  |-> resolution.resolved_at,
     approval_id     |-> resolution.approval_request_id,
     policy_event_id |-> SourceEventId("policy", request.policy_decision_id),
     chain_id        |-> request.approval_chain_id,
     chain_version   |-> request.approval_chain_version,
     action_digest   |-> resolution.action_digest,
     requested_at_unix_nano |-> request.requested_at,
     expires_at_unix_nano   |-> request.expires_at]
=============================================================================
