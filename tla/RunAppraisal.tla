---------------------------- MODULE RunAppraisal ----------------------------
(***************************************************************************)
(* The verdict on a run as its evidence grows: what finalize_trace would   *)
(* answer if the run were sealed now.  Evidence only grows while a run is  *)
(* open (EvidenceLog), and the verdict reads it as a set.                  *)
(***************************************************************************)
EXTENDS TraceAppraisal

CONSTANT Documents   \* the events hosts may emit in the run

ASSUME DocumentsAssumption ==
    /\ \A d, e \in Documents : d.event_id = e.event_id => d = e
    /\ \A d \in Documents : d.time_unix_nano \in Nat

VARIABLE evidence    \* the events accepted so far

Init == evidence = {}

\* EvidenceAccumulator.append: an event that is not in the run yet.
Accept(e) ==
    /\ e \notin evidence
    /\ evidence' = evidence \cup {e}

Next == \E e \in Documents : Accept(e)

Spec == Init /\ [][Next]_evidence

Verdict == Appraisal(evidence)

-----------------------------------------------------------------------------
\* One approval answers for one action: what docs/action-events.md asks of the
\* approval.approved event an approval-gated action must run under.
AnswersFor(approval, action) ==
    /\ approval \in evidence /\ approval.event_type = "approval.approved"
    /\ "approval_id" \in DOMAIN action =>
           approval.approval_id = action.approval_id
    /\ "policy_event_id" \in DOMAIN action =>
           /\ "policy_event_id" \in DOMAIN approval
           /\ approval.policy_event_id = action.policy_event_id
    /\ approval.action_digest = action.action_digest
    /\ approval.time_unix_nano <= action.time_unix_nano
    /\ \E request \in evidence :
           /\ request.event_type = "approval.requested"
           /\ request.approval_id = approval.approval_id
           /\ request.action_digest = approval.action_digest
           /\ request.requested_at_unix_nano <= approval.time_unix_nano
           /\ approval.time_unix_nano <= request.expires_at_unix_nano

\* An affirming verdict means that nothing was denied, rejected, expired or
\* cancelled, that every challenge was approved, and that every gated action
\* that ran has an approval of that very action, given inside its request's
\* window and before the action completed (trace_adapter.py:225-326).
AffirmingIsSound ==
    Verdict = "affirming" =>
        /\ \A e \in evidence :
               e.event_type \notin {"approval.rejected", "approval.expired",
                                    "approval.cancelled",
                                    "approval.execution_failed"}
        /\ \A d \in evidence : d.event_type = "policy.decision" =>
               /\ d.decision \notin {"deny", "error"}
               /\ d.decision = "challenge" =>
                      \E a \in evidence :
                          /\ a.event_type = "approval.approved"
                          /\ "policy_event_id" \in DOMAIN a
                          /\ a.policy_event_id = d.event_id
        /\ \A a \in evidence :
               (/\ a.event_type = "action.executed"
                /\ a.outcome # "denied"
                /\ \/ "approval_id" \in DOMAIN a
                   \/ Challenged(evidence, a))
               => \E approval \in evidence : AnswersFor(approval, a)

\* Two events of which one speaks against the other.
Conflict(approval, action) ==
    /\ approval.event_type = "approval.approved"
    /\ action.event_type = "action.executed" /\ action.outcome # "denied"
    /\ \/ approval.action_digest # action.action_digest
       \/ approval.time_unix_nano > action.time_unix_nano
       \/ OtherPolicyEvent(approval, action)

\* A run is never condemned without a cause in its evidence: a denial, an
\* approval that ended badly, or an approval at odds with the action it is for
\* (docs/trace-finalization.md, Appraisal).
ContraindicationHasCause ==
    Verdict = "contraindicated" =>
        \/ \E d \in evidence :
               /\ d.event_type = "policy.decision"
               /\ d.decision \in {"deny", "error"}
        \/ \E e \in evidence :
               e.event_type \in {"approval.rejected", "approval.expired",
                                 "approval.execution_failed"}
        \/ \E approval, action \in evidence :
               /\ Conflict(approval, action)
               /\ \/ /\ "approval_id" \in DOMAIN action
                     /\ approval.approval_id = action.approval_id
                  \/ /\ "policy_event_id" \in DOMAIN action
                     /\ "policy_event_id" \in DOMAIN approval
                     /\ approval.policy_event_id = action.policy_event_id

Severity(verdict) ==
    CASE verdict = "contraindicated" -> 2
      [] verdict = "warning" -> 1
      [] OTHER -> 0

\* Only a request or an approval makes a verdict better: no decision, action or
\* data flow recorded later talks a finding away (trace_adapter.py:235-257).
OnlyApprovalsImprove ==
    [][Severity(Verdict') < Severity(Verdict) =>
           \A e \in evidence' \ evidence :
               e.event_type \in {"approval.requested", "approval.approved"}]_evidence

\* No later evidence, approvals included, lifts a denial, a rejection, an
\* expiry or a failed execution (trace_adapter.py:235-242).
RefusalIsFinal ==
    [][Refused(evidence) => Verdict' = "contraindicated"]_evidence
=============================================================================
