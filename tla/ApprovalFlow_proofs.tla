------------------------ MODULE ApprovalFlow_proofs ------------------------
(***************************************************************************)
(* Approval records that map as one approval answer each other in the      *)
(* evidence, whatever records a host holds and whatever else is recorded;  *)
(* the verdict on a governed run is what its sources said, and the two     *)
(* SDKs agree on it.                                                       *)
(***************************************************************************)
EXTENDS GovernedRun, RunAppraisal_proofs, TLAPS

\* The field by field comparison of the finalizer succeeds.
LEMMA FieldsAgree ==
    ASSUME NEW q, NEW r
    PROVE  \A field \in BindingFields :
               /\ field \in DOMAIN agt_approval_resolution(r, q)
               /\ field \in DOMAIN agt_approval_request(q)
               /\ ResolutionMaps(r, q) =>
                      agt_approval_resolution(r, q)[field]
                          = agt_approval_request(q)[field]
<1> DEFINE A == agt_approval_resolution(r, q)
           B == agt_approval_request(q)
<1>1. /\ A.approval_id = r.approval_request_id
      /\ A.policy_event_id = B.policy_event_id
      /\ A.action_digest = r.action_digest
      /\ A.chain_id = B.chain_id
      /\ A.chain_version = B.chain_version
      /\ A.requested_at_unix_nano = B.requested_at_unix_nano
      /\ A.expires_at_unix_nano = B.expires_at_unix_nano
    BY DEF agt_approval_resolution, agt_approval_request
<1>2. B.approval_id = q.approval_request_id /\ B.action_digest = q.action_digest
    BY DEF agt_approval_request
<1>3. ResolutionMaps(r, q) => /\ r.approval_request_id = q.approval_request_id
                              /\ r.action_digest = q.action_digest
    BY DEF ResolutionMaps, Agree
<1>4. BindingFields \subseteq DOMAIN A /\ BindingFields \subseteq DOMAIN B
    BY DEF BindingFields, agt_approval_resolution, agt_approval_request
<1> HIDE DEF A, B
<1>5. \A field \in BindingFields : ResolutionMaps(r, q) => A[field] = B[field]
    BY <1>1, <1>2, <1>3 DEF BindingFields
<1>6. QED
    BY <1>4, <1>5 DEF A, B

\* An allowing resolution is bound if and only if it came in time.
LEMMA BoundInTime ==
    ASSUME NEW q, NEW r, ResolutionMaps(r, q), r.outcome = "allow",
           agt_approval_request(q) \in evidence,
           agt_approval_resolution(r, q) \in evidence
    PROVE  agt_approval_resolution(r, q) \in BoundApprovals(evidence)
               <=> r.resolved_at <= q.expires_at
<1> DEFINE A == agt_approval_resolution(r, q)
           B == agt_approval_request(q)
<1>1. /\ A.event_type = "approval.approved" /\ B.event_type = "approval.requested"
      /\ A.time_unix_nano = r.resolved_at
      /\ A.expires_at_unix_nano = q.expires_at
      /\ B.expires_at_unix_nano = q.expires_at
      /\ B.requested_at_unix_nano = q.requested_at
    BY DEF agt_approval_resolution, agt_approval_request, EventTypeOf
<1>2. A \in Approved(evidence) /\ B \in Requests(evidence)
    BY <1>1 DEF Approved, Requests, OfType
<1>3. \A field \in BindingFields :
          field \in DOMAIN A /\ field \in DOMAIN B /\ A[field] = B[field]
    BY FieldsAgree
<1>4. q.requested_at <= r.resolved_at
    BY DEF ResolutionMaps
<1> HIDE DEF A, B
<1>5. ASSUME r.resolved_at <= q.expires_at
      PROVE  A \in BoundApprovals(evidence)
    <2>1. BoundTo(A, B)
        BY <1>1, <1>3, <1>4, <1>5 DEF BoundTo
    <2>2. QED
        BY <1>2, <2>1 DEF BoundApprovals
<1>6. ASSUME A \in BoundApprovals(evidence)
      PROVE  r.resolved_at <= q.expires_at
    <2>1. PICK c \in Requests(evidence) : BoundTo(A, c)
        BY <1>6 DEF BoundApprovals
    <2>2. c.expires_at_unix_nano = A.expires_at_unix_nano
        BY <2>1 DEF BoundTo, BindingFields
    <2>3. QED
        BY <1>1, <2>1, <2>2 DEF BoundTo
<1>7. QED
    BY <1>5, <1>6 DEF A, B

\* What the finalizer reads in a run that is one approval and nothing else.
LEMMA OneApproval ==
    ASSUME NEW d, NEW q, NEW r, ResolutionMaps(r, q), RequestMaps(q, d),
           evidence = {agt_policy_decision_record(d), agt_approval_request(q),
                       agt_approval_resolution(r, q)}
    PROVE  /\ Verdict = "contraindicated" <=> r.outcome # "allow"
           /\ r.outcome = "allow" =>
                  Verdict = IF r.resolved_at <= q.expires_at
                            THEN "affirming" ELSE "warning"
<1> DEFINE A == agt_approval_resolution(r, q)
           B == agt_approval_request(q)
           C == agt_policy_decision_record(d)
           P == SourceEventId("policy", q.policy_decision_id)
<1>1. /\ B.event_type = "approval.requested"
      /\ C.event_type = "policy.decision" /\ C.decision = "challenge"
      /\ C.event_id = SourceEventId("policy", d.policy_decision_id)
      /\ A.event_type = EventTypeOf[r.outcome] /\ A.policy_event_id = P
    BY DEF agt_approval_resolution, agt_approval_request,
           agt_policy_decision_record
<1>2. C.event_id = P
    BY <1>1 DEF RequestMaps, Agree
<1>3. r.outcome \in {"allow", "deny", "expired"}
    BY DEF ResolutionMaps, EventTypeOf
<1>4. A.event_type = CASE r.outcome = "allow"   -> "approval.approved"
                       [] r.outcome = "deny"    -> "approval.rejected"
                       [] r.outcome = "expired" -> "approval.expired"
    BY <1>1, <1>3 DEF EventTypeOf
<1>5. A \in evidence /\ B \in evidence
    OBVIOUS
<1>6. r.outcome = "allow" =>
          (A \in BoundApprovals(evidence) <=> r.resolved_at <= q.expires_at)
    BY <1>5, BoundInTime
<1>7. evidence = {C, B, A}
    OBVIOUS
<1> HIDE DEF A, B, C, P
<1>8. Decisions(evidence) = {C} /\ Actions(evidence) = {}
    BY <1>1, <1>3, <1>4, <1>7 DEF Decisions, Actions, OfType
<1>9. ActionBinding(evidence) = "bound"
    BY <1>8 DEF ActionBinding, Gated
<1>10. Refused(evidence) <=> r.outcome # "allow"
    <2>1. OfType(evidence, {"approval.rejected", "approval.expired",
                            "approval.execution_failed"}) # {}
              <=> r.outcome # "allow"
        BY <1>1, <1>3, <1>4, <1>7 DEF OfType
    <2>2. QED
        BY <1>1, <1>8, <2>1 DEF Refused
<1>11. BoundApprovals(evidence) \subseteq {A}
    BY <1>1, <1>3, <1>4, <1>7 DEF BoundApprovals, Approved, OfType
<1>12. OfType(evidence, {"approval.cancelled"}) = {}
    BY <1>1, <1>3, <1>4, <1>7 DEF OfType
<1>13. Resolved(evidence, C) <=> A \in BoundApprovals(evidence)
    BY <1>1, <1>2, <1>11 DEF Resolved
<1>14. Unresolved(evidence) <=> A \notin BoundApprovals(evidence)
    BY <1>1, <1>8, <1>12, <1>13 DEF Unresolved
<1>15. QED
    BY <1>6, <1>8, <1>9, <1>10, <1>14 DEF Verdict, Appraisal

\* This holds of any evidence, so no induction is needed.
LEMMA LinkedInAnyEvidence == LinkedApprovalsCount
<1> SUFFICES ASSUME NEW x \in Requested, NEW r \in ApprovalResolutions,
                    ResolutionMaps(r, x[1]),
                    {agt_policy_decision_record(x[2]), agt_approval_request(x[1]),
                     agt_approval_resolution(r, x[1])} \subseteq evidence
             PROVE  /\ r.outcome = "allow" =>
                           (agt_approval_resolution(r, x[1]) \in BoundApprovals(evidence)
                                <=> r.resolved_at <= x[1].expires_at)
                    /\ evidence = {agt_policy_decision_record(x[2]),
                                   agt_approval_request(x[1]),
                                   agt_approval_resolution(r, x[1])} =>
                           Verdict = IF r.outcome # "allow" THEN "contraindicated"
                                     ELSE IF r.resolved_at <= x[1].expires_at
                                          THEN "affirming" ELSE "warning"
    BY DEF LinkedApprovalsCount
<1>1. RequestMaps(x[1], x[2])
    BY DEF Requested
<1>2. QED
    BY <1>1, BoundInTime, OneApproval

\* Records that the adapters let pass as one approval answer each other in every
\* state of a run.
THEOREM LinkedRecordsAnswer == Spec => []LinkedApprovalsCount
BY LinkedInAnyEvidence, PTL

-----------------------------------------------------------------------------
(***************************************************************************)
(* The verdicts of the two SDKs on any events.                             *)
(***************************************************************************)
\* The verdict when nothing is found against the run.
LEMMA NothingFound ==
    ASSUME NEW events, ~Refused(events), ~Unresolved(events),
           ActionBinding(events) = "bound"
    PROVE  Appraisal(events) =
               IF Decisions(events) \cup Approvals(events) # {}
               THEN "affirming" ELSE "none"
<1>1. ActionBinding(events) # "contradicted" /\ ActionBinding(events) # "unresolved"
    OBVIOUS
<1>2. CASE Decisions(events) \cup Approvals(events) # {}
    BY <1>1, <1>2 DEF Appraisal
<1>3. CASE Decisions(events) \cup Approvals(events) = {}
    BY <1>1, <1>3 DEF Appraisal
<1>4. QED
    BY <1>2, <1>3

\* Values compared as JSON text are equal, and the same if the keys are written
\* in one order.
LEMMA BoundAlike ==
    ASSUME NEW events, NEW R
    PROVE  /\ TsBoundApprovals(events, R) \subseteq BoundApprovals(events)
           /\ TsBoundApprovals(events, {}) = BoundApprovals(events)
<1>1. ASSUME NEW approval, NEW request, SameBinding(approval, request, R)
      PROVE  \A field \in BindingFields :
                 /\ field \in DOMAIN approval /\ field \in DOMAIN request
                 /\ approval[field] = request[field]
    BY <1>1 DEF SameBinding, Stringified
<1>2. TsBoundApprovals(events, R) \subseteq BoundApprovals(events)
    <2> SUFFICES ASSUME NEW a \in TsBoundApprovals(events, R)
                 PROVE  a \in BoundApprovals(events)
        OBVIOUS
    <2>1. PICK r \in Requests(events) :
              /\ SameBinding(a, r, R)
              /\ r.requested_at_unix_nano <= a.time_unix_nano
              /\ a.time_unix_nano <= r.expires_at_unix_nano
        BY DEF TsBoundApprovals
    <2>2. BoundTo(a, r)
        BY <1>1, <2>1 DEF BoundTo
    <2>3. QED
        BY <2>2 DEF TsBoundApprovals, BoundApprovals
<1>3. ASSUME NEW approval, NEW request
      PROVE  SameBinding(approval, request, {}) <=>
                 \A field \in BindingFields :
                     /\ field \in DOMAIN approval /\ field \in DOMAIN request
                     /\ approval[field] = request[field]
    BY DEF SameBinding, Stringified
<1>4. TsBoundApprovals(events, {}) = BoundApprovals(events)
    <2>1. \A a, r : BoundTo(a, r) <=>
              /\ SameBinding(a, r, {})
              /\ r.requested_at_unix_nano <= a.time_unix_nano
              /\ a.time_unix_nano <= r.expires_at_unix_nano
        BY <1>3 DEF BoundTo
    <2>2. QED
        BY <2>1 DEF TsBoundApprovals, BoundApprovals
<1>5. QED
    BY <1>2, <1>4

\* The loop over an action's candidates finds what TraceAppraisal asks for.
SatisfiedBy(events, action, bound) ==
    \E a \in Candidates(events, action) \cap bound : ~Disagrees(a, action)

LEMMA AnswersAre ==
    ASSUME NEW events, NEW action, NEW bound
    PROVE  /\ "satisfies" \in Answers(events, action, bound)
                  <=> SatisfiedBy(events, action, bound)
           /\ "contradicts" \in Answers(events, action, bound)
                  <=> \E a \in Candidates(events, action) : Disagrees(a, action)
BY DEF Answers, SatisfiedBy

LEMMA TsBindingCases ==
    ASSUME NEW events, NEW bound
    PROVE  /\ TsActionBinding(events, bound) = "contradicted" <=>
                  \E a \in Gated(events) :
                      /\ ~SatisfiedBy(events, a, bound)
                      /\ \E c \in Candidates(events, a) : Disagrees(c, a)
           /\ TsActionBinding(events, bound) = "bound" <=>
                  \A a \in Gated(events) : SatisfiedBy(events, a, bound)
           /\ TsActionBinding(events, bound) \in
                  {"contradicted", "unresolved", "bound"}
<1> DEFINE open == {answers \in {Answers(events, a, bound) : a \in Gated(events)} :
                       "satisfies" \notin answers}
<1>1. TsActionBinding(events, bound) =
          IF \E answers \in open : "contradicts" \in answers THEN "contradicted"
          ELSE IF open # {} THEN "unresolved" ELSE "bound"
    BY DEF TsActionBinding
<1>2. (\E answers \in open : "contradicts" \in answers) <=>
          \E a \in Gated(events) :
              /\ ~SatisfiedBy(events, a, bound)
              /\ \E c \in Candidates(events, a) : Disagrees(c, a)
    BY AnswersAre
<1>3. open = {} <=> \A a \in Gated(events) : SatisfiedBy(events, a, bound)
    BY AnswersAre
<1> HIDE DEF open
<1>4. (\E answers \in open : "contradicts" \in answers) => open # {}
    OBVIOUS
<1>5. QED
    BY <1>1, <1>2, <1>3, <1>4

\* What the TypeScript finalizer finds unresolved.
TsUnresolved(events, R) ==
    \/ \E d \in Decisions(events) :
           /\ d.decision = "challenge"
           /\ \A a \in TsBoundApprovals(events, R) : a.policy_event_id # d.event_id
    \/ OfType(events, {"approval.cancelled"}) # {}

LEMMA TsAppraisalIs ==
    ASSUME NEW events, NEW R, NEW binding,
           binding = TsActionBinding(events, TsBoundApprovals(events, R))
    PROVE  TsAppraisal(events, R) =
               IF Refused(events) \/ binding = "contradicted" THEN "contraindicated"
               ELSE IF TsUnresolved(events, R) \/ binding = "unresolved"
               THEN "warning"
               ELSE IF Decisions(events) \cup Approvals(events) # {}
               THEN "affirming" ELSE "none"
<1> DEFINE types == {e.event_type : e \in Approvals(events)}
           approved == {a.policy_event_id : a \in TsBoundApprovals(events, R)}
<1>1. types \cap {"approval.rejected", "approval.expired",
                  "approval.execution_failed"} # {}
          <=> OfType(events, {"approval.rejected", "approval.expired",
                              "approval.execution_failed"}) # {}
    BY DEF Approvals, OfType, Outcomes
<1>2. "approval.cancelled" \in types
          <=> OfType(events, {"approval.cancelled"}) # {}
    BY DEF Approvals, OfType, Outcomes
<1>3. types # {} <=> Approvals(events) # {}
    OBVIOUS
<1>4. \A d : d.event_id \notin approved <=>
          \A a \in TsBoundApprovals(events, R) : a.policy_event_id # d.event_id
    OBVIOUS
<1>5. TsAppraisal(events, R) =
          IF \/ \E d \in Decisions(events) : d.decision \in {"deny", "error"}
             \/ types \cap {"approval.rejected", "approval.expired",
                            "approval.execution_failed"} # {}
             \/ binding = "contradicted"
          THEN "contraindicated"
          ELSE IF \/ \E d \in Decisions(events) :
                         d.decision = "challenge" /\ d.event_id \notin approved
                  \/ "approval.cancelled" \in types
                  \/ binding = "unresolved"
          THEN "warning"
          ELSE IF Decisions(events) # {} \/ types # {} THEN "affirming" ELSE "none"
    BY DEF TsAppraisal
<1> HIDE DEF types, approved
<1>6. (\/ \E d \in Decisions(events) : d.decision \in {"deny", "error"}
       \/ types \cap {"approval.rejected", "approval.expired",
                      "approval.execution_failed"} # {})
          <=> Refused(events)
    BY <1>1 DEF Refused
<1>7. (\/ \E d \in Decisions(events) :
              d.decision = "challenge" /\ d.event_id \notin approved
       \/ "approval.cancelled" \in types)
          <=> TsUnresolved(events, R)
    BY <1>2, <1>4 DEF TsUnresolved
<1>8. QED
    BY <1>3, <1>5, <1>6, <1>7

\* Written alike, the events of a run get one verdict.
LEMMA SameVerdict ==
    ASSUME NEW events
    PROVE  TsAppraisal(events, {}) = Appraisal(events)
<1> DEFINE B == BoundApprovals(events)
           binding == TsActionBinding(events, TsBoundApprovals(events, {}))
<1>1. TsBoundApprovals(events, {}) = B
    BY BoundAlike
<1>2. \A a : SatisfiedBy(events, a, B) <=> Satisfied(events, a)
    BY DEF SatisfiedBy, Satisfied
<1>3. \A a : Contradicted(events, a) <=>
          /\ ~SatisfiedBy(events, a, B)
          /\ \E c \in Candidates(events, a) : Disagrees(c, a)
    BY <1>2 DEF Contradicted
<1>4. ActionBinding(events) \in {"contradicted", "unresolved", "bound"}
    BY DEF ActionBinding
<1>5. binding = ActionBinding(events)
    <2>1. binding = "contradicted" <=> ActionBinding(events) = "contradicted"
        BY <1>1, <1>3, TsBindingCases, BindingCases
    <2>2. binding = "bound" <=> ActionBinding(events) = "bound"
        BY <1>1, <1>2, TsBindingCases, BindingCases
    <2>3. binding \in {"contradicted", "unresolved", "bound"}
        BY TsBindingCases
    <2>4. QED
        BY <1>4, <2>1, <2>2, <2>3
<1>6. TsUnresolved(events, {}) <=> Unresolved(events)
    BY <1>1 DEF TsUnresolved, Unresolved, Resolved
<1>7. TsAppraisal(events, {}) =
          IF Refused(events) \/ binding = "contradicted" THEN "contraindicated"
          ELSE IF TsUnresolved(events, {}) \/ binding = "unresolved"
          THEN "warning"
          ELSE IF Decisions(events) \cup Approvals(events) # {}
          THEN "affirming" ELSE "none"
    BY TsAppraisalIs
<1> HIDE DEF B, binding
<1>8. CASE Refused(events) \/ binding = "contradicted"
    BY <1>5, <1>7, <1>8, AppraisalCases
<1>9. CASE /\ ~(Refused(events) \/ binding = "contradicted")
           /\ Unresolved(events) \/ binding = "unresolved"
    BY <1>5, <1>6, <1>7, <1>9, AppraisalCases
<1>10. CASE ~(\/ Refused(events) \/ binding = "contradicted"
              \/ Unresolved(events) \/ binding = "unresolved")
    BY <1>4, <1>5, <1>6, <1>7, <1>10, NothingFound
<1>11. QED
    BY <1>8, <1>9, <1>10

\* However they are written, the TypeScript verdict is not the milder one.
LEMMA NotMilder ==
    ASSUME NEW events, NEW R
    PROVE  Severity(TsAppraisal(events, R)) >= Severity(Appraisal(events))
<1> DEFINE T == TsAppraisal(events, R)
           binding == TsActionBinding(events, TsBoundApprovals(events, R))
<1>1. TsBoundApprovals(events, R) \subseteq BoundApprovals(events)
    BY BoundAlike
<1>2. \A a : SatisfiedBy(events, a, TsBoundApprovals(events, R))
                 => Satisfied(events, a)
    BY <1>1 DEF SatisfiedBy, Satisfied
<1>3. ActionBinding(events) = "contradicted" => binding = "contradicted"
    BY <1>2, TsBindingCases, BindingCases DEF Contradicted
<1>4. /\ binding \in {"contradicted", "unresolved", "bound"}
      /\ binding = "bound" => ActionBinding(events) = "bound"
    BY <1>2, TsBindingCases, BindingCases
<1>5. Unresolved(events) => TsUnresolved(events, R)
    BY <1>1 DEF TsUnresolved, Unresolved, Resolved
<1>6. T = IF Refused(events) \/ binding = "contradicted" THEN "contraindicated"
          ELSE IF TsUnresolved(events, R) \/ binding = "unresolved"
          THEN "warning"
          ELSE IF Decisions(events) \cup Approvals(events) # {}
          THEN "affirming" ELSE "none"
    BY TsAppraisalIs
<1> HIDE DEF T, binding
<1>7. Appraisal(events) = "contraindicated" => T = "contraindicated"
    BY <1>3, <1>6, AppraisalCases
<1>8. Appraisal(events) = "warning" => T \in {"warning", "contraindicated"}
    BY <1>4, <1>5, <1>6, AppraisalCases
<1>9. T \in Verdicts /\ Appraisal(events) \in Verdicts
    BY <1>6, AppraisalCases DEF Verdicts
<1>10. /\ Severity("contraindicated") = 2 /\ Severity("warning") = 1
       /\ Severity("affirming") = 0 /\ Severity("none") = 0
    BY DEF Severity
<1>11. Severity(T) >= Severity(Appraisal(events))
    BY <1>7, <1>8, <1>9, <1>10 DEF Verdicts
<1>12. QED
    BY <1>11 DEF T

\* The two finalizers on any events, not only on what the run's sources
\* can produce: one verdict where digests are written alike, never a milder
\* TypeScript one where they are not.
THEOREM TypeScriptIsNeverMilder == Spec => []TsIsNeverMilder
<1>1. TsIsNeverMilder
    BY SameVerdict, NotMilder DEF TsIsNeverMilder, Verdict
<1>2. QED
    BY <1>1, PTL

-----------------------------------------------------------------------------
(***************************************************************************)
(* A run with events of the adapters only: what its sources said.          *)
(***************************************************************************)
FromAdapters == evidence \subseteq AdapterEvents \cup SourceEvents

\* What each adapter makes of its source.
LEMMA AdapterShapes ==
    /\ \A d \in Suspended :
           /\ agt_policy_decision_record(d).event_type = "policy.decision"
           /\ agt_policy_decision_record(d).decision = "challenge"
           /\ agt_policy_decision_record(d).event_id
                  = <<"policy", d.policy_decision_id>>
    /\ \A x \in Requested :
           agt_approval_request(x[1]).event_type = "approval.requested"
    /\ \A x \in Settled :
           /\ x[1].outcome \in {"allow", "deny", "expired"}
           /\ agt_approval_resolution(x[1], x[2]).event_type =
                  IF x[1].outcome = "allow" THEN "approval.approved"
                  ELSE IF x[1].outcome = "deny" THEN "approval.rejected"
                  ELSE "approval.expired"
           /\ agt_approval_resolution(x[1], x[2]).policy_event_id
                  = <<"policy", x[2].policy_decision_id>>
    /\ \A s \in AuditActions :
           /\ agt_audit_action(s).event_type = "action.executed"
           /\ "approval_id" \notin DOMAIN agt_audit_action(s)
           /\ "policy_event_id" \notin DOMAIN agt_audit_action(s)
<1>1. \A d : /\ agt_policy_decision_record(d).event_type = "policy.decision"
             /\ agt_policy_decision_record(d).decision = "challenge"
             /\ agt_policy_decision_record(d).event_id
                    = <<"policy", d.policy_decision_id>>
    BY DEF agt_policy_decision_record, SourceEventId
<1>2. \A q : agt_approval_request(q).event_type = "approval.requested"
    BY DEF agt_approval_request
<1>3. \A x \in Settled : x[1].outcome \in {"allow", "deny", "expired"}
    BY DEF Settled, ResolutionMaps, EventTypeOf
<1>4. \A x \in Settled :
          /\ agt_approval_resolution(x[1], x[2]).event_type = EventTypeOf[x[1].outcome]
          /\ agt_approval_resolution(x[1], x[2]).policy_event_id
                 = <<"policy", x[2].policy_decision_id>>
    BY DEF agt_approval_resolution, SourceEventId
<1>5. /\ EventTypeOf["allow"] = "approval.approved"
      /\ EventTypeOf["deny"] = "approval.rejected"
      /\ EventTypeOf["expired"] = "approval.expired"
    BY DEF EventTypeOf
<1>6. \A s : /\ agt_audit_action(s).event_type = "action.executed"
             /\ "approval_id" \notin DOMAIN agt_audit_action(s)
             /\ "policy_event_id" \notin DOMAIN agt_audit_action(s)
    BY DEF agt_audit_action
<1>7. QED
    BY <1>1, <1>2, <1>3, <1>4, <1>5, <1>6

\* What each policy source's word becomes, and that no approval can name its id.
LEMMA SourceShapes ==
    /\ \A s \in AgtMapped :
           LET e == agt_policy_decision(s)
           IN  /\ e.event_type = "policy.decision"
               /\ e.event_id[1] # "policy"
               /\ e.decision # "error"
               /\ e.decision = "deny" <=>
                      s.decision \in {"deny", "denied", "block", "blocked"}
               /\ e.decision = "challenge" <=> s.decision \in Pending
    /\ \A s \in AuditPolicy :
           LET e == agt_audit_policy_decision(s)
           IN  /\ e.event_type = "policy.decision"
               /\ e.event_id[1] # "policy"
               /\ e.decision \in {"deny", "error"} <=>
                      s.policy_decision \in {"deny", "denied", "error"}
               /\ e.decision = "challenge" <=> s.policy_decision \in Pending
    /\ \A s \in OpaMapped :
           LET e == opa_decision_log(s)
           IN  /\ e.event_type = "policy.decision"
               /\ e.event_id[1] # "policy"
               /\ e.decision \in {"deny", "error"} <=>
                      IF "mapped" \in DOMAIN s THEN s.mapped \in {"deny", "error"}
                                               ELSE s.result = "false"
               /\ e.decision = "challenge" <=>
                      "mapped" \in DOMAIN s /\ s.mapped = "challenge"
    /\ \A s \in CedarMapped :
           LET e == cedar_policy_decision(s)
           IN  /\ e.event_type = "policy.decision"
               /\ e.event_id[1] # "policy"
               /\ e.decision \in {"deny", "error"} <=> s.decision = "deny"
               /\ e.decision # "challenge"
<1>1. ASSUME NEW s \in AgtMapped
      PROVE  LET e == agt_policy_decision(s)
             IN  /\ e.event_type = "policy.decision"
                 /\ e.event_id[1] # "policy"
                 /\ e.decision # "error"
                 /\ e.decision = "deny" <=>
                        s.decision \in {"deny", "denied", "block", "blocked"}
                 /\ e.decision = "challenge" <=> s.decision \in Pending
    <2>1. s.decision \in {"allow", "allowed", "deny", "denied", "block", "blocked"}
                         \cup Pending
        BY DEF AgtMapped, AgtPolicyMaps, Decision, Pending
    <2>2. Decision[s.decision] =
              IF s.decision \in Pending THEN "challenge"
              ELSE IF s.decision \in {"allow", "allowed"} THEN "allow" ELSE "deny"
        BY <2>1 DEF Decision, Pending
    <2>3. QED
        BY <2>1, <2>2
           DEF agt_policy_decision, PolicyDecisionEvent, SourceEventId, Pending
<1>2. ASSUME NEW s \in AuditPolicy
      PROVE  LET e == agt_audit_policy_decision(s)
             IN  /\ e.event_type = "policy.decision"
                 /\ e.event_id[1] # "policy"
                 /\ e.decision \in {"deny", "error"} <=>
                        s.policy_decision \in {"deny", "denied", "error"}
                 /\ e.decision = "challenge" <=> s.policy_decision \in Pending
    <2>1. s.policy_decision \in {"allow", "allowed", "deny", "denied", "error",
                                 "not_applicable"} \cup Pending
        BY DEF AuditPolicy, AuditPolicyMaps, AuditDecision, Pending
    <2>2. AuditDecision[s.policy_decision] =
              IF s.policy_decision \in Pending THEN "challenge"
              ELSE IF s.policy_decision \in {"allow", "allowed"} THEN "allow"
              ELSE IF s.policy_decision \in {"deny", "denied"} THEN "deny"
              ELSE s.policy_decision
        BY <2>1 DEF AuditDecision, Pending
    <2>3. QED
        BY <2>1, <2>2
           DEF agt_audit_policy_decision, PolicyDecisionEvent, SourceEventId, Pending
<1>3. ASSUME NEW s \in OpaMapped
      PROVE  LET e == opa_decision_log(s)
             IN  /\ e.event_type = "policy.decision"
                 /\ e.event_id[1] # "policy"
                 /\ e.decision \in {"deny", "error"} <=>
                        IF "mapped" \in DOMAIN s THEN s.mapped \in {"deny", "error"}
                                                 ELSE s.result = "false"
                 /\ e.decision = "challenge" <=>
                        "mapped" \in DOMAIN s /\ s.mapped = "challenge"
    <2>1. "mapped" \notin DOMAIN s =>
              /\ s.result \in {"true", "false", "null"}
              /\ BooleanDecision[s.result] =
                     IF s.result = "true" THEN "allow"
                     ELSE IF s.result = "false" THEN "deny" ELSE "not_applicable"
        BY DEF OpaMapped, OpaMaps, BooleanDecision
    <2>2. QED
        BY <2>1 DEF opa_decision_log, PolicyDecisionEvent, SourceEventId
<1>4. ASSUME NEW s \in CedarMapped
      PROVE  LET e == cedar_policy_decision(s)
             IN  /\ e.event_type = "policy.decision"
                 /\ e.event_id[1] # "policy"
                 /\ e.decision \in {"deny", "error"} <=> s.decision = "deny"
                 /\ e.decision # "challenge"
    BY DEF CedarMapped, CedarMaps, cedar_policy_decision, PolicyDecisionEvent,
           SourceEventId
<1>5. QED
    BY <1>1, <1>2, <1>3, <1>4

\* Where an event of each type may come from.
LEMMA Origins ==
    ASSUME FromAdapters, NEW e \in evidence
    PROVE  /\ e.event_type = "policy.decision" =>
                  \/ \E d \in Suspended : e = agt_policy_decision_record(d)
                  \/ e \in PolicyEvents
           /\ e.event_type = "approval.requested" =>
                  \E x \in Requested : e = agt_approval_request(x[1])
           /\ e.event_type \in {"approval.approved", "approval.cancelled"} \cup Outcomes
                  => \E x \in Settled : e = agt_approval_resolution(x[1], x[2])
           /\ e.event_type = "action.executed" =>
                  \E s \in AuditActions : e = agt_audit_action(s)
           /\ e.event_type = "action.executed" <=>
                  e \notin AdapterEvents \cup PolicyEvents
<1>1. \A p \in PolicyEvents : p.event_type = "policy.decision"
    BY SourceShapes DEF PolicyEvents
<1>2. \/ \E d \in Suspended : e = agt_policy_decision_record(d)
      \/ \E x \in Requested : e = agt_approval_request(x[1])
      \/ \E x \in Settled : e = agt_approval_resolution(x[1], x[2])
      \/ e \in PolicyEvents
      \/ \E s \in AuditActions : e = agt_audit_action(s)
    BY DEF FromAdapters, AdapterEvents, SourceEvents
<1>3. \A f \in AdapterEvents : f.event_type # "action.executed"
    BY AdapterShapes DEF AdapterEvents
<1>4. CASE \E d \in Suspended : e = agt_policy_decision_record(d)
    <2>1. e.event_type = "policy.decision" /\ e \in AdapterEvents
        BY <1>4, AdapterShapes DEF AdapterEvents
    <2>2. QED
        BY <1>4, <2>1 DEF Outcomes
<1>5. CASE \E x \in Requested : e = agt_approval_request(x[1])
    <2>1. e.event_type = "approval.requested" /\ e \in AdapterEvents
        BY <1>5, AdapterShapes DEF AdapterEvents
    <2>2. QED
        BY <1>5, <2>1 DEF Outcomes
<1>6. CASE \E x \in Settled : e = agt_approval_resolution(x[1], x[2])
    <2>1. /\ e.event_type \in {"approval.approved", "approval.rejected",
                               "approval.expired"}
          /\ e \in AdapterEvents
        BY <1>6, AdapterShapes DEF AdapterEvents
    <2>2. QED
        BY <1>6, <2>1
<1>7. CASE e \in PolicyEvents
    <2>1. e.event_type = "policy.decision"
        BY <1>1, <1>7
    <2>2. QED
        BY <1>7, <2>1 DEF Outcomes
<1>8. CASE \E s \in AuditActions : e = agt_audit_action(s)
    <2>1. e.event_type = "action.executed" /\ e \notin AdapterEvents \cup PolicyEvents
        BY <1>1, <1>3, <1>8, AdapterShapes
    <2>2. QED
        BY <1>8, <2>1 DEF Outcomes
<1>9. QED
    BY <1>2, <1>4, <1>5, <1>6, <1>7, <1>8

\* Audited actions are not gated, so none of them needs an approval.
LEMMA NothingGated ==
    ASSUME FromAdapters
    PROVE  ActionBinding(evidence) = "bound"
<1>1. ASSUME NEW a \in Actions(evidence)
      PROVE  "approval_id" \notin DOMAIN a /\ "policy_event_id" \notin DOMAIN a
    <2>1. a \in evidence /\ a.event_type = "action.executed"
        BY DEF Actions, OfType
    <2>2. PICK s \in AuditActions : a = agt_audit_action(s)
        BY <2>1, Origins
    <2>3. QED
        BY <2>2, AdapterShapes
<1>2. Gated(evidence) = {}
    BY <1>1 DEF Gated, Challenged
<1>3. QED
    BY <1>2, BindingCases

\* A source refused if and only if the finalizer finds a refusal.
LEMMA SaidNoIsRefused ==
    ASSUME FromAdapters
    PROVE  SaidNo <=> Refused(evidence)
<1>1. ASSUME SaidNo PROVE Refused(evidence)
    <2>1. \A e \in evidence :
              e.event_type = "policy.decision" /\ e.decision \in {"deny", "error"}
                  => Refused(evidence)
        BY DEF Refused, Decisions, OfType
    <2>2. \A e \in evidence :
              e.event_type \in {"approval.rejected", "approval.expired",
                                "approval.execution_failed"} => Refused(evidence)
        BY DEF Refused, OfType
    <2>3. ASSUME NEW s \in AgtMapped, agt_policy_decision(s) \in evidence,
                 s.decision \in {"deny", "denied", "block", "blocked"}
          PROVE  Refused(evidence)
        BY <2>1, <2>3, SourceShapes
    <2>4. ASSUME NEW s \in AuditPolicy, agt_audit_policy_decision(s) \in evidence,
                 s.policy_decision \in {"deny", "denied", "error"}
          PROVE  Refused(evidence)
        BY <2>1, <2>4, SourceShapes
    <2>5. ASSUME NEW s \in OpaMapped, opa_decision_log(s) \in evidence,
                 IF "mapped" \in DOMAIN s THEN s.mapped \in {"deny", "error"}
                                          ELSE s.result = "false"
          PROVE  Refused(evidence)
        BY <2>1, <2>5, SourceShapes
    <2>6. ASSUME NEW s \in CedarMapped, cedar_policy_decision(s) \in evidence,
                 s.decision = "deny"
          PROVE  Refused(evidence)
        BY <2>1, <2>6, SourceShapes
    <2>7. ASSUME NEW x \in Settled,
                 agt_approval_resolution(x[1], x[2]) \in evidence,
                 x[1].outcome # "allow"
          PROVE  Refused(evidence)
        BY <2>2, <2>7, AdapterShapes
    <2>8. QED
        BY <1>1, <2>3, <2>4, <2>5, <2>6, <2>7 DEF SaidNo
<1>2. ASSUME Refused(evidence) PROVE SaidNo
    <2>1. CASE \E d \in Decisions(evidence) : d.decision \in {"deny", "error"}
        <3>1. PICK d \in evidence : /\ d.event_type = "policy.decision"
                                    /\ d.decision \in {"deny", "error"}
            BY <2>1 DEF Decisions, OfType
        <3>2. d \in PolicyEvents
            BY <3>1, Origins, AdapterShapes
        <3>3. CASE \E s \in AgtMapped : d = agt_policy_decision(s)
            BY <3>1, <3>3, SourceShapes DEF SaidNo
        <3>4. CASE \E s \in AuditPolicy : d = agt_audit_policy_decision(s)
            BY <3>1, <3>4, SourceShapes DEF SaidNo
        <3>5. CASE \E s \in OpaMapped : d = opa_decision_log(s)
            BY <3>1, <3>5, SourceShapes DEF SaidNo
        <3>6. CASE \E s \in CedarMapped : d = cedar_policy_decision(s)
            BY <3>1, <3>6, SourceShapes DEF SaidNo
        <3>7. QED
            BY <3>2, <3>3, <3>4, <3>5, <3>6 DEF PolicyEvents
    <2>2. CASE OfType(evidence, {"approval.rejected", "approval.expired",
                                 "approval.execution_failed"}) # {}
        <3>1. PICK e \in evidence :
                  e.event_type \in {"approval.rejected", "approval.expired",
                                    "approval.execution_failed"}
            BY <2>2 DEF OfType
        <3>2. PICK x \in Settled : e = agt_approval_resolution(x[1], x[2])
            BY <3>1, Origins DEF Outcomes
        <3>3. x[1].outcome # "allow"
            BY <3>1, <3>2, AdapterShapes
        <3>4. QED
            BY <3>2, <3>3 DEF SaidNo
    <2>3. QED
        BY <1>2, <2>1, <2>2 DEF Refused
<1>3. QED
    BY <1>1, <1>2

\* A request is known by the seven fields an approval is bound by.
LEMMA RequestIsItsBinding ==
    ASSUME NEW p, NEW q,
           \A field \in BindingFields :
               agt_approval_request(p)[field] = agt_approval_request(q)[field]
    PROVE  agt_approval_request(p) = agt_approval_request(q)
<1> DEFINE B(x) == agt_approval_request(x)
<1>1. /\ B(p).approval_id = B(q).approval_id
      /\ B(p).policy_event_id = B(q).policy_event_id
      /\ B(p).action_digest = B(q).action_digest
      /\ B(p).chain_id = B(q).chain_id
      /\ B(p).chain_version = B(q).chain_version
      /\ B(p).requested_at_unix_nano = B(q).requested_at_unix_nano
      /\ B(p).expires_at_unix_nano = B(q).expires_at_unix_nano
    BY DEF BindingFields
<1>2. /\ p.approval_request_id = q.approval_request_id
      /\ SourceEventId("policy", p.policy_decision_id)
             = SourceEventId("policy", q.policy_decision_id)
      /\ p.action_digest = q.action_digest
      /\ p.approval_chain_id = q.approval_chain_id
      /\ p.approval_chain_version = q.approval_chain_version
      /\ p.requested_at = q.requested_at
      /\ p.expires_at = q.expires_at
    BY <1>1 DEF agt_approval_request
<1>3. QED
    BY <1>2 DEF agt_approval_request

\* What the evidence holds was released in time if and only if the finalizer
\* finds an approval bound to its request.
LEMMA AllowedIsResolved ==
    ASSUME FromAdapters, NEW d \in Suspended
    PROVE  AllowedInTime(d) <=> Resolved(evidence, agt_policy_decision_record(d))
<1> DEFINE id == <<"policy", d.policy_decision_id>>
<1>1. agt_policy_decision_record(d).event_id = id
    BY AdapterShapes
<1>2. ASSUME AllowedInTime(d)
      PROVE  \E a \in BoundApprovals(evidence) : a.policy_event_id = id
    <2>1. PICK x \in Settled :
              /\ {agt_approval_resolution(x[1], x[2]), agt_approval_request(x[2])}
                     \subseteq evidence
              /\ x[2].policy_decision_id = d.policy_decision_id
              /\ x[1].outcome = "allow" /\ x[1].resolved_at <= x[2].expires_at
        BY <1>2 DEF AllowedInTime
    <2>2. ResolutionMaps(x[1], x[2])
        BY DEF Settled
    <2>3. agt_approval_resolution(x[1], x[2]) \in BoundApprovals(evidence)
        BY <2>1, <2>2, BoundInTime
    <2>4. agt_approval_resolution(x[1], x[2]).policy_event_id = id
        BY <2>1, AdapterShapes
    <2>5. QED
        BY <2>3, <2>4
<1>3. ASSUME NEW a \in BoundApprovals(evidence), a.policy_event_id = id
      PROVE  AllowedInTime(d)
    <2>1. /\ a \in evidence /\ a.event_type = "approval.approved"
          /\ \E r \in Requests(evidence) : BoundTo(a, r)
        BY DEF BoundApprovals, Approved, OfType
    <2>2. PICK r \in evidence : r.event_type = "approval.requested" /\ BoundTo(a, r)
        BY <2>1 DEF Requests, OfType
    <2>3. PICK x \in Settled : a = agt_approval_resolution(x[1], x[2])
        BY <2>1, Origins
    <2>4. PICK y \in Requested : r = agt_approval_request(y[1])
        BY <2>2, Origins
    <2>5. ResolutionMaps(x[1], x[2]) /\ x[1].outcome = "allow"
        BY <2>1, <2>3, AdapterShapes DEF Settled
    <2>6. \A field \in BindingFields :
              agt_approval_request(x[2])[field] = agt_approval_request(y[1])[field]
        <3>1. \A field \in BindingFields : a[field] = r[field]
            BY <2>2 DEF BoundTo
        <3>2. \A field \in BindingFields :
                  a[field] = agt_approval_request(x[2])[field]
            BY <2>3, <2>5, FieldsAgree
        <3>3. QED
            BY <2>4, <3>1, <3>2
    <2>7. agt_approval_request(x[2]) = r
        BY <2>4, <2>6, RequestIsItsBinding
    <2>8. x[1].resolved_at <= x[2].expires_at
        BY <2>3, <2>5, <2>1, <2>2, <2>7, BoundInTime
    <2>9. x[2].policy_decision_id = d.policy_decision_id
        <3>1. <<"policy", x[2].policy_decision_id>> = id
            BY <1>3, <2>3, AdapterShapes
        <3>2. QED
            BY <3>1
    <2>10. QED
        BY <2>1, <2>2, <2>3, <2>5, <2>7, <2>8, <2>9 DEF AllowedInTime
<1>4. QED
    BY <1>1, <1>2, <1>3 DEF Resolved

\* Approvals are bound by an id that only the approval protocol gives.
LEMMA OnlyPolicyIsAnswered ==
    ASSUME FromAdapters, NEW e, e.event_id[1] # "policy"
    PROVE  ~Resolved(evidence, e)
<1> SUFFICES ASSUME NEW a \in BoundApprovals(evidence),
                    a.policy_event_id = e.event_id
             PROVE  FALSE
    BY DEF Resolved
<1>1. a \in evidence /\ a.event_type = "approval.approved"
    BY DEF BoundApprovals, Approved, OfType
<1>2. PICK x \in Settled : a = agt_approval_resolution(x[1], x[2])
    BY <1>1, Origins
<1>3. a.policy_event_id = <<"policy", x[2].policy_decision_id>>
    BY <1>2, AdapterShapes
<1>4. QED
    BY <1>3

\* A source left an action open if and only if the finalizer finds it open.
LEMMA LeftOpenIsUnresolved ==
    ASSUME FromAdapters
    PROVE  LeftOpen <=> Unresolved(evidence)
<1>1. \A e \in evidence :
          e.event_type = "policy.decision" /\ e.decision = "challenge"
          /\ ~Resolved(evidence, e) => Unresolved(evidence)
    BY DEF Unresolved, Decisions, OfType
<1>2. ASSUME LeftOpen PROVE Unresolved(evidence)
    <2>1. ASSUME NEW d \in Suspended, agt_policy_decision_record(d) \in evidence,
                 ~AllowedInTime(d)
          PROVE  Unresolved(evidence)
        BY <1>1, <2>1, AdapterShapes, AllowedIsResolved
    <2>2. ASSUME NEW s \in AgtMapped, agt_policy_decision(s) \in evidence,
                 s.decision \in Pending
          PROVE  Unresolved(evidence)
        BY <1>1, <2>2, SourceShapes, OnlyPolicyIsAnswered
    <2>3. ASSUME NEW s \in AuditPolicy, agt_audit_policy_decision(s) \in evidence,
                 s.policy_decision \in Pending
          PROVE  Unresolved(evidence)
        BY <1>1, <2>3, SourceShapes, OnlyPolicyIsAnswered
    <2>4. ASSUME NEW s \in OpaMapped, opa_decision_log(s) \in evidence,
                 "mapped" \in DOMAIN s, s.mapped = "challenge"
          PROVE  Unresolved(evidence)
        BY <1>1, <2>4, SourceShapes, OnlyPolicyIsAnswered
    <2>5. QED
        BY <1>2, <2>1, <2>2, <2>3, <2>4 DEF LeftOpen
<1>3. ASSUME Unresolved(evidence) PROVE LeftOpen
    <2>1. \A e \in evidence : e.event_type # "approval.cancelled"
        <3> SUFFICES ASSUME NEW e \in evidence, e.event_type = "approval.cancelled"
                     PROVE  FALSE
            OBVIOUS
        <3>1. PICK x \in Settled : e = agt_approval_resolution(x[1], x[2])
            BY Origins
        <3>2. QED
            BY <3>1, AdapterShapes
    <2>2. PICK e \in evidence : /\ e.event_type = "policy.decision"
                                /\ e.decision = "challenge"
                                /\ ~Resolved(evidence, e)
        BY <1>3, <2>1 DEF Unresolved, Decisions, OfType
    <2>3. CASE \E d \in Suspended : e = agt_policy_decision_record(d)
        BY <2>2, <2>3, AllowedIsResolved DEF LeftOpen
    <2>4. CASE e \in PolicyEvents
        <3>1. CASE \E s \in AgtMapped : e = agt_policy_decision(s)
            BY <2>2, <3>1, SourceShapes DEF LeftOpen
        <3>2. CASE \E s \in AuditPolicy : e = agt_audit_policy_decision(s)
            BY <2>2, <3>2, SourceShapes DEF LeftOpen
        <3>3. CASE \E s \in OpaMapped : e = opa_decision_log(s)
            BY <2>2, <3>3, SourceShapes DEF LeftOpen
        <3>4. CASE \E s \in CedarMapped : e = cedar_policy_decision(s)
            BY <2>2, <3>4, SourceShapes
        <3>5. QED
            BY <2>4, <3>1, <3>2, <3>3, <3>4 DEF PolicyEvents
    <2>5. QED
        BY <2>2, <2>3, <2>4, Origins
<1>4. QED
    BY <1>2, <1>3

\* The sources that do not act but decide, ask or answer.
LEMMA SomeoneSpoke ==
    ASSUME FromAdapters
    PROVE  evidence \cap (AdapterEvents \cup PolicyEvents) # {}
               <=> Decisions(evidence) \cup Approvals(evidence) # {}
<1>1. \A e \in evidence : e \in AdapterEvents \cup PolicyEvents <=>
          e.event_type # "action.executed"
    BY Origins
<1>2. \A e \in evidence : e.event_type # "action.executed" <=>
          e.event_type \in {"policy.decision", "approval.requested",
                            "approval.approved"} \cup Outcomes
    <2> SUFFICES ASSUME NEW e \in evidence, e.event_type # "action.executed"
                 PROVE  e.event_type \in {"policy.decision", "approval.requested",
                                          "approval.approved"} \cup Outcomes
        BY DEF Outcomes
    <2>1. \/ \E d \in Suspended : e = agt_policy_decision_record(d)
          \/ \E x \in Requested : e = agt_approval_request(x[1])
          \/ \E x \in Settled : e = agt_approval_resolution(x[1], x[2])
          \/ e \in PolicyEvents
        BY <1>1 DEF AdapterEvents
    <2>2. QED
        BY <2>1, AdapterShapes, SourceShapes DEF PolicyEvents, Outcomes
<1>3. \A e \in evidence :
          e.event_type \in {"policy.decision", "approval.requested",
                            "approval.approved"} \cup Outcomes
          <=> e \in Decisions(evidence) \cup Approvals(evidence)
    BY DEF Decisions, Approvals, OfType
<1>4. Decisions(evidence) \cup Approvals(evidence) \subseteq evidence
    BY DEF Decisions, Approvals, OfType
<1>5. QED
    BY <1>1, <1>2, <1>3, <1>4

\* On a run with adapter events only, the verdict is what its sources said,
\* whatever records the host mapped and however many.
THEOREM VerdictSpeaksForSources == Spec => []VerdictIsTheSources
<1>1. VerdictIsTheSources
    <2> SUFFICES ASSUME FromAdapters
                 PROVE  Verdict =
                     IF SaidNo THEN "contraindicated"
                     ELSE IF LeftOpen THEN "warning"
                     ELSE IF evidence \cap (AdapterEvents \cup PolicyEvents) # {}
                     THEN "affirming" ELSE "none"
        BY DEF FromAdapters, VerdictIsTheSources
    <2>1. ActionBinding(evidence) = "bound"
        BY NothingGated
    <2>2. CASE SaidNo
        BY <2>2, SaidNoIsRefused, AppraisalCases DEF Verdict
    <2>3. CASE ~SaidNo /\ LeftOpen
        <3>1. ActionBinding(evidence) # "contradicted"
            BY <2>1
        <3>2. Verdict = "warning"
            BY <2>3, <3>1, SaidNoIsRefused, LeftOpenIsUnresolved, AppraisalCases
               DEF Verdict
        <3>3. QED
            BY <2>3, <3>2
    <2>4. CASE ~SaidNo /\ ~LeftOpen
        <3>1. Verdict = IF Decisions(evidence) \cup Approvals(evidence) # {}
                        THEN "affirming" ELSE "none"
            BY <2>1, <2>4, SaidNoIsRefused, LeftOpenIsUnresolved, NothingFound
               DEF Verdict
        <3>2. QED
            BY <2>4, <3>1, SomeoneSpoke
    <2>5. QED
        BY <2>2, <2>3, <2>4
<1>2. QED
    BY <1>1, PTL
=============================================================================
