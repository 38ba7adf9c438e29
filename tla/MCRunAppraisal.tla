--------------------------- MODULE MCRunAppraisal ---------------------------
(***************************************************************************)
(* The evidence the verdict is checked on: a challenge (at time 1), the    *)
(* request it leads to (2), its resolutions (3 to 5), actions (3 to 6).    *)
(* AGT's records are mapped by the adapters; some of them do not map.      *)
(***************************************************************************)
EXTENDS GovernedRun, TLC

PolicyDecision(verdict, digest, time) ==
    [verdict |-> verdict, policy_decision_id |-> "P", action_digest |-> digest,
     policy_version |-> "1", approval_chain_id |-> "chain",
     approval_chain_version |-> "1", decided_at |-> time]

ApprovalRequest(id, digest, requested, expires) ==
    [approval_request_id |-> id, policy_decision_id |-> "P",
     action_digest |-> digest, policy_version |-> "1",
     approval_chain_id |-> "chain", approval_chain_version |-> "1",
     requested_at |-> requested, expires_at |-> expires]

ApprovalResolution(id, outcome, digest, time) ==
    [approval_resolution_id |-> id, approval_request_id |-> "A",
     outcome |-> outcome, action_digest |-> digest, policy_version |-> "1",
     approval_chain_version |-> "1", resolved_at |-> time]

\* The host suspended one action, and allowed another.
SomeDecisions == {PolicyDecision("require_approval", "x", 1),
               PolicyDecision("allow", "y", 1)}

\* A request for the suspended action, and one for another under its decision.
SomeRequests == {ApprovalRequest("A", "x", 2, 4), ApprovalRequest("B", "y", 2, 4)}

\* In time, too late, refused; of another action, too early, and still open.
SomeResolutions == {ApprovalResolution("in time", "allow", "x", 4),
                 ApprovalResolution("too late", "allow", "x", 5),
                 ApprovalResolution("refused", "deny", "x", 4),
                 ApprovalResolution("other", "allow", "y", 3),
                 ApprovalResolution("too early", "allow", "x", 1),
                 ApprovalResolution("open", "pending", "x", 3)}

Id(name) == <<"other", name>>
ThePolicy == SourceEventId("policy", "P")

\* Policy engines and audit rows: AGT asks for review, an audited decision
\* allows, OPA and Cedar refuse; for each there is a record that does not map.
SomePolicyEvents ==
    {[kind |-> kind, decision |-> decision, event_id |-> id,
      occurred_at |-> 1, latency_ms |-> latency] :
        <<kind, decision, id, latency>> \in
            {<<"policy_violation", "review", "review", 3>>,
             <<"policy_check", "blocked", "negative", -1>>,
             <<"trust_change", "allowed", "no decision", 0>>}}

SomeAuditRows ==
    {[event_type |-> "policy_evaluation", entry_id |-> "allow",
      policy_decision |-> "allowed", timestamp |-> 1],
     [event_type |-> "tool_invocation", entry_id |-> "ungated", outcome |-> "success",
      issued_at |-> 5, completed_at |-> 6, timestamp |-> 6, action_digest |-> "z"],
     [event_type |-> "tool_invocation", entry_id |-> "ended first",
      outcome |-> "success", issued_at |-> 6, completed_at |-> 5, timestamp |-> 6,
      action_digest |-> "z"],
     [event_type |-> "policy_violation", entry_id |-> "unsupported",
      policy_decision |-> "block", timestamp |-> 1]}

SomeOpaEntries ==
    {[decision_id |-> "refused", result |-> "false", timestamp |-> 1],
     [decision_id |-> "object", result |-> "object", timestamp |-> 1]}

SomeCedarAnswers ==
    {[call |-> "answer", decision |-> "deny", time |-> 1],
     [call |-> "other answer", decision |-> "permit", time |-> 1]}

Approval(name, type, time, digest) ==
    [event_type |-> type, event_id |-> Id(name), time_unix_nano |-> time,
     approval_id |-> "A", policy_event_id |-> ThePolicy,
     action_digest |-> digest, chain_id |-> "chain", chain_version |-> "1",
     requested_at_unix_nano |-> 2, expires_at_unix_nano |-> 4]

\* An approval that names neither its policy event nor a chain.
Unlinked(name, time) ==
    [event_type |-> "approval.approved", event_id |-> Id(name),
     time_unix_nano |-> time, approval_id |-> "A", action_digest |-> "x",
     requested_at_unix_nano |-> 2, expires_at_unix_nano |-> 4]

Action(name, time, digest, outcome) ==
    [event_type |-> "action.executed", event_id |-> Id(name),
     time_unix_nano |-> time, action_digest |-> digest, outcome |-> outcome]

ByApproval(action) == action @@ ("approval_id" :> "A")
ByPolicy(action, decision) == action @@ ("policy_event_id" :> decision)

Others ==
    {Approval("other digest", "approval.approved", 3, "y"),
     Approval("cancelled", "approval.cancelled", 4, "x"),
     Unlinked("unlinked", 3),
     ByApproval(Action("approved", 4, "x", "success")),
     ByApproval(Action("early", 3, "x", "error")),
     ByApproval(Action("denied", 3, "y", "denied")),
     ByPolicy(Action("challenged", 6, "x", "timeout"), ThePolicy),
     ByPolicy(ByApproval(Action("other policy", 6, "x", "success")), SourceEventId("audit policy", "allow"))}
    \cup SourceEvents

Evidence == AdapterEvents \cup Others

\* The request is written by one SDK, and the approvals by the other.
ByOtherSdk == {e \in AdapterEvents : e.event_type = "approval.requested"}
=============================================================================
