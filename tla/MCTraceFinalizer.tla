-------------------------- MODULE MCTraceFinalizer --------------------------
(***************************************************************************)
(* Instances of TraceFinalizer for TLC.                                    *)
(***************************************************************************)
EXTENDS TraceFinalizer, PolicySources, TLC

Document(id, type, time) ==
    [event_type |-> type, event_id |-> <<"source", id>>, time_unix_nano |-> time,
     run_id |-> "run", valid |-> TRUE, canonical |-> TRUE]

Bundle(algorithm, value) ==
    "bundle_digest" :> [algorithm |-> algorithm, value |-> value]

Decided(id, decision, mode) ==
    Document(id, "policy.decision", 1)
        @@ [decision |-> decision, enforcement_mode |-> mode]

\* Accesses to labelled data, of which agt_data_access_flow maps three.
Accesses ==
    {[call |-> call, classification |-> level, allowed |-> call # "refused",
      evaluated_at |-> time] :
        <<call, level, time>> \in {<<"open", 0, 2>>, <<"refused", 2, 3>>,
                                  <<"unranked", 4, 3>>, <<"no label", 5, 3>>}}

Flow(access) ==
    agt_data_access_flow(access)
        @@ Document(access.call, "data_flow.observed", access.evaluated_at)

Act(id, time, outcome) ==
    Document(id, "action.executed", time)
        @@ [outcome |-> outcome, action_digest |-> "x"]

\* Decisions and flows that agree, conflict or cannot be represented, an action,
\* and an event of another run for the editor.
MixedRun ==
    {Decided("allow", "allow", "enforce") @@ Bundle("sha256", "b1"),
     Decided("other bundle", "deny", "enforce") @@ Bundle("sha256", "b2"),
     Decided("sha512", "allow", "enforce") @@ Bundle("sha512", "b1"),
     Act("act", 4, "error"),
     [Act("foreign", 3, "success") EXCEPT !.run_id = "other"]}
    \cup {Flow(access) : access \in {x \in Accesses : DataAccessMaps(x)}}

Configuration ==
    [trusted |-> TRUE, taxonomy |-> "agt.data_classification.v1",
     rank |-> ("public" :> 0 @@ "internal" :> 1 @@ "confidential" :> 2)]
=============================================================================
