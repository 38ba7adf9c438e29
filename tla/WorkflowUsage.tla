--------------------------- MODULE WorkflowUsage ---------------------------
(***************************************************************************)
(* Agents hand work to each other, record the usage of their model calls   *)
(* under the context they were handed, and a collector adds what reaches   *)
(* it to one UsageAccumulator and rolls it up.                             *)
(*                                                                         *)
(* The agents, the transport of their calls and that of the events are     *)
(* outside the repository. A carrier may be used again, by its owner or by *)
(* the agent that received it, and a transport may change the case of its  *)
(* names. Events arrive in any order and any number of times, or not at    *)
(* all.                                                                    *)
(***************************************************************************)
EXTENDS Propagation, Usage, Sequences

CONSTANTS
    Agents, Runs,
    WorkflowOf,    \* the workflow of each run, or None
    Usages,        \* the [valid, tokens, cost] a model call may turn out to have
    MaxSteps,      \* bound: starts and calls together
    MaxEvents,     \* bound: usage events
    MaxArrivals    \* bound: arrivals at the collector

ASSUME IdentifiersAssumption ==
    /\ None \notin Agents \cup Runs
    /\ \A r \in Runs : Safe(r)
    /\ \A a \in Agents : Safe(a)
    /\ Safe(None)

\* Token counts and amounts that are valid are numbers from 0.
ASSUME UsagesAssumption ==
    /\ IsFiniteSet(Agents)
    /\ \A u \in Usages : u.valid =>
           /\ u.cost.amount \in Nat
           /\ \A f \in DOMAIN u.tokens : u.tokens[f] \in Nat

ASSUME BoundsAssumption ==
    MaxSteps \in Nat /\ MaxEvents \in Nat /\ MaxArrivals \in Nat

Idle == [run_id |-> None, workflow_id |-> None, upstream_agent_id |-> None]

VARIABLES
    context,    \* what each agent works under, as it extracted it
    carrier,    \* the carrier each agent will inject into next
    sent,       \* carriers on their way, with sender and receiver
    task,       \* history: the run each agent does work for, and who handed it
    steps,
    recorded,   \* usage events, with the run they are about
    facts,      \* UsageAccumulator._events
    arrived     \* history: the events that reached the collector, in order

handoffVars == <<context, carrier, sent, task, steps>>
usageVars == <<recorded, facts, arrived>>
vars == <<handoffVars, usageVars>>

Init ==
    /\ context = [a \in Agents |-> Idle]
    /\ carrier = [a \in Agents |-> [f \in {} |-> None]]
    /\ sent = {}
    /\ task = [a \in Agents |-> [run |-> None, from |-> None]]
    /\ steps = 0
    /\ recorded = {}
    /\ facts = NoFacts
    /\ arrived = << >>

-----------------------------------------------------------------------------
\* An agent begins a run of its own.
Start(a, r) ==
    /\ steps < MaxSteps
    /\ steps' = steps + 1
    /\ context' = [context EXCEPT ![a] =
           [Idle EXCEPT !.run_id = r, !.workflow_id = WorkflowOf[r]]]
    /\ task' = [task EXCEPT ![a] = [run |-> r, from |-> None]]
    /\ UNCHANGED <<carrier, sent, usageVars>>

\* An agent injects its context for a call to another one. If that raises there
\* is no call, and the carrier is as inject_context left it.
HandOff(a, b) ==
    LET headers == Headers(context[a].run_id, a, context[a].workflow_id)
    IN  /\ steps < MaxSteps
        /\ a # b /\ context[a] # Idle
        /\ carrier' = [carrier EXCEPT ![a] = inject_context(@, headers)]
        /\ \/ /\ Injectable(headers)
              /\ sent' = sent \cup {[from |-> a, to |-> b, run |-> task[a].run,
                                     carrier |-> carrier'[a]]}
              /\ steps' = steps + 1
           \/ /\ ~Injectable(headers)
              /\ UNCHANGED <<sent, steps>>
        /\ UNCHANGED <<context, task, usageVars>>

\* A transport changes the case of every name, unless the carrier holds a name
\* twice.
Retitled(c) == [f \in {Title(g[1]) : g \in DOMAIN c} |-> c[Lower(f[1])]]

Transported(c) ==
    {c} \cup IF \A f \in DOMAIN c : f = Lower(f[1]) THEN {Retitled(c)} ELSE {}

\* An agent extracts the context of a call, and may use its carrier for calls of
\* its own.
Receive(m, c) ==
    /\ c \in Transported(m.carrier)
    /\ Extractable(c)
    /\ context' = [context EXCEPT ![m.to] = extract_context(c)]
    /\ task' = [task EXCEPT ![m.to] = [run |-> m.run, from |-> m.from]]
    /\ \/ UNCHANGED carrier
       \/ carrier' = [carrier EXCEPT ![m.to] = c]
    /\ sent' = sent \ {m}
    /\ UNCHANGED <<steps, usageVars>>

-----------------------------------------------------------------------------
Fields(a) == event_fields(context[a], a)

\* usage_record, for a model call or a step that sums up model calls. It raises
\* when the usage is not valid.
Record(a, scope, usage) ==
    /\ Cardinality(recorded) < MaxEvents
    /\ context[a] # Idle /\ usage.valid
    /\ recorded' = recorded \cup
           {[event |-> [event_id |-> Cardinality(recorded), scope |-> scope,
                        run_id |-> Fields(a).run_id, agent_id |-> Fields(a).agent_id,
                        workflow_id |-> Fields(a).workflow_id,
                        valid |-> usage.valid, tokens |-> usage.tokens,
                        cost |-> usage.cost],
             run |-> task[a].run, agent |-> a]}
    /\ UNCHANGED <<handoffVars, facts, arrived>>

\* A producer changes the usage in an event it has recorded, perhaps to one that
\* is not valid.
Revise(r, usage) ==
    /\ Cardinality(recorded) < MaxEvents
    /\ r \in recorded
    /\ recorded' = recorded \cup
           {[r EXCEPT !.event.valid = usage.valid, !.event.tokens = usage.tokens,
                      !.event.cost = usage.cost]}
    /\ UNCHANGED <<handoffVars, facts, arrived>>

\* An event reaches the collector, which adds it.
Arrive(r) ==
    /\ Len(arrived) < MaxArrivals
    /\ r \in recorded
    /\ facts' = add(facts, r.event)
    /\ arrived' = Append(arrived, r)
    /\ UNCHANGED <<handoffVars, recorded>>

Next ==
    \/ \E a \in Agents, r \in Runs : Start(a, r)
    \/ \E a, b \in Agents : HandOff(a, b)
    \/ \E m \in sent : \E c \in Transported(m.carrier) : Receive(m, c)
    \/ \E a \in Agents, s \in {"model_call", "agent_step"}, u \in Usages :
           Record(a, s, u)
    \/ \E r \in recorded, u \in Usages : Revise(r, u)
    \/ \E r \in recorded : Arrive(r)

Spec == Init /\ [][Next]_vars

-----------------------------------------------------------------------------
TypeOK ==
    /\ \A a \in Agents :
           /\ context[a].upstream_agent_id \in Agents \cup {None}
           /\ context[a].run_id \in Runs \cup {None}
           /\ DOMAIN carrier[a] \subseteq FieldNames
    /\ steps \in 0..MaxSteps
    /\ \A id \in DOMAIN facts : Leaf(facts[id])

\* An agent that was handed work records it under the run and the workflow of the
\* agent that handed it, and names that agent as its parent, though carriers are
\* used again, half written by an injection that failed, or renamed on the way
\* (propagation.py:48-83). A run without a workflow is excepted: nothing removes
\* the workflow of an earlier call from a carrier.
ContextIsSenders ==
    \A a \in Agents :
        task[a].from # None =>
            /\ context[a].run_id = task[a].run
            /\ context[a].upstream_agent_id = task[a].from
            /\ WorkflowOf[task[a].run] # None =>
                   context[a].workflow_id = WorkflowOf[task[a].run]

\* The model calls of a run that have arrived, each as it arrived first.
ArrivedFirst ==
    {arrived[i] : i \in
        {j \in 1..Len(arrived) :
            /\ Leaf(arrived[j].event)
            /\ \A k \in 1..j-1 : Leaf(arrived[k].event) =>
                   arrived[k].event.event_id # arrived[j].event.event_id}}

Calls(r, agents) ==
    {x.event : x \in {y \in ArrivedFirst : y.run = r /\ y.agent \in agents}}

AgentAsk(r, a) ==
    [scope |-> "agent_run", run_id |-> r, agent_id |-> a,
     workflow_id |-> WorkflowOf[r]]

WorkflowAsk(r) ==
    [scope |-> "workflow_run", run_id |-> r, agent_id |-> None,
     workflow_id |-> WorkflowOf[r]]

\* A rollup is about the model calls that the agents of a run made for it and that
\* reached the collector: each counted once, however often it arrived, none of
\* another run, and no sum counted beside its parts, although the collector only
\* knows what each agent was told about its run (usage.py:139-165).
RollupCountsTheRun ==
    \A r \in Runs :
        /\ WorkflowOf[r] # None => Matches(facts, WorkflowAsk(r)) = Calls(r, Agents)
        /\ \A a \in Agents : Matches(facts, AgentAsk(r, a)) = Calls(r, {a})

Total(n, S) == MapThenSumSet(LAMBDA x : n[x], S)

OrZero(rolled, f) == IF f \in DOMAIN rolled.totals THEN rolled.totals[f] ELSE 0

\* Where a workflow can be rolled up, so can each agent that has any part in it,
\* and what they say adds up: events, tokens with the events they come from, and
\* costs (docs/usage-attribution.md: coverage tells a complete total from the sum
\* of only the observations that happened to include a field).
AgentsAddUp ==
    \A r \in {s \in Runs : Rollable(facts, WorkflowAsk(s))} :
        LET whole   == rollup(facts, WorkflowAsk(r))
            part(a) == rollup(facts, AgentAsk(r, a))
            Sum(n)  == Total(n, Agents)
        IN  /\ \A a \in Agents : part(a).event_count = 0
                                 \/ Rollable(facts, AgentAsk(r, a))
            /\ whole.event_count = Sum([a \in Agents |-> part(a).event_count])
            /\ whole.cost = Sum([a \in Agents |-> part(a).cost])
            /\ \A f \in TokenFields :
                   /\ OrZero(whole, f) = Sum([a \in Agents |-> OrZero(part(a), f)])
                   /\ whole.token_coverage[f] =
                          Sum([a \in Agents |-> part(a).token_coverage[f]])

\* A fact that was added is never replaced or dropped, whatever arrives later under
\* its id (usage.py:131-134).
FactsNeverChange ==
    [][\A id \in DOMAIN facts :
           id \in DOMAIN facts' /\ facts'[id] = facts[id]]_vars
=============================================================================
