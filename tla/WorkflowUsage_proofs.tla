------------------------ MODULE WorkflowUsage_proofs ------------------------
(***************************************************************************)
(* Agents work under the context of the agent that called them, and        *)
(* rollups are about the calls made for a run, for any agents, runs,       *)
(* workflows, reuse of carriers, and arrivals. Agents add up to their      *)
(* workflow, and the totals of a TypeScript rollup are exact.              *)
(***************************************************************************)
EXTENDS CollectedUsage, FiniteSetTheorems, WellFoundedInduction, TLAPS

-----------------------------------------------------------------------------
\* What a header is after a successful injection (propagation.py:58-63).
LEMMA InjectedHeader ==
    ASSUME NEW c, NEW headers, Injectable(headers), NEW name \in DOMAIN headers
    PROVE  /\ Lower(name) \in DOMAIN inject_context(c, headers)
           /\ inject_context(c, headers)[Lower(name)] = headers[name]
<1>1. name \in Written(headers)
    BY DEF Injectable
<1>2. Lower(name) \in {Lower(n) : n \in Written(headers)}
    BY <1>1
<1>3. Lower(name)[1] = name
    BY DEF Lower
<1>4. QED
    BY <1>2, <1>3 DEF inject_context

\* A header is read as it was written, whatever case its name arrives in.
LEMMA TransportedHeader ==
    ASSUME NEW c, NEW name, Lower(name) \in DOMAIN c, NEW d \in Transported(c)
    PROVE  Header(d, name) = c[Lower(name)]
<1>1. Lower(name)[1] = name /\ Title(name)[1] = name
    BY DEF Lower, Title
<1>2. CASE d = c
    BY <1>2 DEF Header
<1>3. CASE d = Retitled(c)
    <2>1. Title(name) \in DOMAIN d
        BY <1>1, <1>3 DEF Retitled
    <2>2. ASSUME NEW n
          PROVE  Lower(name) # Title(n)
        BY DEF Lower, Title
    <2>3. Lower(name) \notin DOMAIN d
        BY <1>3, <2>2 DEF Retitled
    <2>4. d[Title(name)] = c[Lower(name)]
        BY <1>1, <1>3, <2>1 DEF Retitled
    <2>5. QED
        BY <2>1, <2>3, <2>4 DEF Header
<1>4. QED
    BY <1>2, <1>3 DEF Transported

LEMMA HeadersOf ==
    ASSUME NEW run, NEW agent, NEW workflow
    PROVE  LET h == Headers(run, agent, workflow)
           IN  /\ "run_id" \in DOMAIN h /\ h["run_id"] = run
               /\ "agent_id" \in DOMAIN h /\ h["agent_id"] = agent
               /\ workflow # None =>
                      "workflow_id" \in DOMAIN h /\ h["workflow_id"] = workflow
BY DEF Headers, Names

-----------------------------------------------------------------------------
\* A carrier on its way names its sender, the sender's run, and the workflow of
\* that run if it has one, in whatever case it arrives.
Named(m) ==
    \A c \in Transported(m.carrier) :
        /\ Header(c, "run_id") = m.run
        /\ Header(c, "agent_id") = m.from
        /\ WorkflowOf[m.run] # None =>
               Header(c, "workflow_id") = WorkflowOf[m.run]

SentInv ==
    \A m \in sent :
        m.from \in Agents /\ m.to \in Agents /\ m.run \in Runs /\ Named(m)

\* An agent that works has its run, and the workflow of that run.
WorkInv ==
    \A a \in Agents : context[a] # Idle =>
        /\ task[a].run \in Runs
        /\ context[a].run_id = task[a].run
        /\ WorkflowOf[task[a].run] # None =>
               context[a].workflow_id = WorkflowOf[task[a].run]

\* One that was handed its work names the agent it has it from.
HandedInv ==
    \A a \in Agents : task[a].from # None =>
        context[a] # Idle /\ context[a].upstream_agent_id = task[a].from

Shape ==
    DOMAIN context = Agents /\ DOMAIN task = Agents /\ DOMAIN carrier = Agents

HandoffInv == Shape /\ SentInv /\ WorkInv /\ HandedInv

LEMMA InitHandoff == Init => HandoffInv
BY DEF Init, HandoffInv, Shape, SentInv, WorkInv, HandedInv

LEMMA StartHandoff ==
    ASSUME HandoffInv, NEW a \in Agents, NEW r \in Runs, Start(a, r)
    PROVE  HandoffInv'
<1> USE DEF HandoffInv, Shape
<1>1. /\ context' = [context EXCEPT ![a] =
              [Idle EXCEPT !.run_id = r, !.workflow_id = WorkflowOf[r]]]
      /\ task' = [task EXCEPT ![a] = [run |-> r, from |-> None]]
      /\ sent' = sent /\ carrier' = carrier
    BY DEF Start
<1>2. SentInv'
    BY <1>1 DEF SentInv, Named
<1>3. /\ context'[a].run_id = r /\ context'[a].workflow_id = WorkflowOf[r]
      /\ task'[a].run = r /\ task'[a].from = None
    BY <1>1 DEF Idle
<1>4. \A b \in Agents \ {a} : context'[b] = context[b] /\ task'[b] = task[b]
    BY <1>1
<1>5. WorkInv'
    BY <1>3, <1>4 DEF WorkInv
<1>6. HandedInv'
    BY <1>3, <1>4 DEF HandedInv
<1>7. QED
    BY <1>1, <1>2, <1>5, <1>6

LEMMA HandOffHandoff ==
    ASSUME HandoffInv, NEW a \in Agents, NEW b \in Agents, HandOff(a, b)
    PROVE  HandoffInv'
<1> DEFINE h == Headers(context[a].run_id, a, context[a].workflow_id)
           c == inject_context(carrier[a], h)
           m == [from |-> a, to |-> b, run |-> task[a].run,
                 carrier |-> carrier'[a]]
<1>1. /\ context' = context /\ task' = task /\ context[a] # Idle
      /\ DOMAIN carrier' = DOMAIN carrier /\ a \in DOMAIN carrier
    BY DEF HandOff, HandoffInv, Shape
<1>2. CASE Injectable(h) /\ sent' = sent \cup {m}
    <2>1. task[a].run \in Runs /\ context[a].run_id = task[a].run
        BY <1>1 DEF HandoffInv, WorkInv
    <2>2. SentInv'
        <3>1. carrier'[a] = c
            BY <1>1 DEF HandOff
        <3>2. /\ Lower("run_id") \in DOMAIN c /\ c[Lower("run_id")] = task[a].run
              /\ Lower("agent_id") \in DOMAIN c /\ c[Lower("agent_id")] = a
            BY <1>2, <2>1, HeadersOf, InjectedHeader
        <3>3. WorkflowOf[task[a].run] # None =>
                  /\ Lower("workflow_id") \in DOMAIN c
                  /\ c[Lower("workflow_id")] = WorkflowOf[task[a].run]
            <4>1. WorkflowOf[task[a].run] # None =>
                      context[a].workflow_id = WorkflowOf[task[a].run]
                BY <1>1 DEF HandoffInv, WorkInv
            <4>2. QED
                BY <1>2, <4>1, HeadersOf, InjectedHeader
        <3> HIDE DEF c, h
        <3>4. Named(m)
            BY <3>1, <3>2, <3>3, TransportedHeader DEF Named
        <3>5. QED
            BY <1>1, <1>2, <2>1, <3>4 DEF HandoffInv, SentInv, Named
    <2>3. QED
        BY <1>1, <2>2 DEF HandoffInv, Shape, WorkInv, HandedInv
<1>3. CASE sent' = sent
    BY <1>1, <1>3 DEF HandoffInv, Shape, SentInv, Named, WorkInv, HandedInv
<1>4. QED
    BY <1>2, <1>3 DEF HandOff

LEMMA ReceiveHandoff ==
    ASSUME HandoffInv, NEW m \in sent, NEW c \in Transported(m.carrier),
           Receive(m, c)
    PROVE  HandoffInv'
<1> DEFINE b == m.to
<1>1. /\ m.from \in Agents /\ b \in Agents /\ m.run \in Runs
      /\ Header(c, "run_id") = m.run
      /\ Header(c, "agent_id") = m.from
      /\ WorkflowOf[m.run] # None =>
             Header(c, "workflow_id") = WorkflowOf[m.run]
    BY DEF HandoffInv, SentInv, Named
<1>2. /\ context' = [context EXCEPT ![b] = extract_context(c)]
      /\ task' = [task EXCEPT ![b] = [run |-> m.run, from |-> m.from]]
      /\ sent' \subseteq sent
      /\ DOMAIN carrier' = DOMAIN carrier
    BY DEF Receive
<1>3. /\ context'[b] = extract_context(c)
      /\ task'[b].run = m.run /\ task'[b].from = m.from
    BY <1>1, <1>2 DEF HandoffInv, Shape
<1>4. \A a \in Agents \ {b} : context'[a] = context[a] /\ task'[a] = task[a]
    BY <1>2 DEF HandoffInv, Shape
<1>5. SentInv'
    BY <1>2 DEF HandoffInv, SentInv, Named
<1>6. /\ context'[b].run_id = m.run
      /\ context'[b].upstream_agent_id = m.from
      /\ context'[b].workflow_id = Header(c, "workflow_id")
    BY <1>1, <1>3 DEF extract_context
<1>7. WorkInv'
    BY <1>1, <1>3, <1>4, <1>6 DEF HandoffInv, WorkInv
<1>8. context'[b] # Idle
    BY <1>1, <1>6, IdentifiersAssumption DEF Idle
<1>9. HandedInv'
    BY <1>3, <1>4, <1>6, <1>8 DEF HandoffInv, HandedInv
<1>10. QED
    BY <1>2, <1>5, <1>7, <1>9 DEF HandoffInv, Shape

LEMMA NextHandoff == HandoffInv /\ [Next]_vars => HandoffInv'
<1> SUFFICES ASSUME HandoffInv, [Next]_vars
             PROVE  HandoffInv'
    OBVIOUS
<1>1. ASSUME NEW a \in Agents, NEW r \in Runs, Start(a, r)
      PROVE  HandoffInv'
    BY <1>1, StartHandoff
<1>2. ASSUME NEW a \in Agents, NEW b \in Agents, HandOff(a, b)
      PROVE  HandoffInv'
    BY <1>2, HandOffHandoff
<1>3. ASSUME NEW m \in sent, NEW c \in Transported(m.carrier), Receive(m, c)
      PROVE  HandoffInv'
    BY <1>3, ReceiveHandoff
<1>4. CASE UNCHANGED handoffVars
    BY <1>4 DEF handoffVars, HandoffInv, Shape, SentInv, Named, WorkInv, HandedInv
<1>5. QED
    BY <1>1, <1>2, <1>3, <1>4 DEF Next, Record, Revise, Arrive, vars

LEMMA HandoffAlways == Spec => []HandoffInv
BY InitHandoff, NextHandoff, PTL DEF Spec

\* An agent that was handed work has the run, the workflow and the name of the
\* agent it has it from.
THEOREM WorkKeepsItsContext == Spec => []ContextIsSenders
<1>1. HandoffInv => ContextIsSenders
    BY DEF HandoffInv, WorkInv, HandedInv, ContextIsSenders
<1>2. QED
    BY <1>1, HandoffAlways, PTL

-----------------------------------------------------------------------------
\* What add does, one case for each of its outcomes.
LEMMA AddKeeps ==
    ASSUME NEW f, NEW e, NEW id \in DOMAIN f
    PROVE  id \in DOMAIN add(f, e) /\ add(f, e)[id] = f[id]
BY DEF add, Known, IsNew

\* A fact is never replaced or dropped.
THEOREM FactsStay == Spec => FactsNeverChange
<1>1. ASSUME [Next]_vars
      PROVE  [\A id \in DOMAIN facts :
                 id \in DOMAIN facts' /\ facts'[id] = facts[id]]_vars
    <2>1. ASSUME NEW r \in recorded, Arrive(r)
          PROVE  \A id \in DOMAIN facts :
                     id \in DOMAIN facts' /\ facts'[id] = facts[id]
        BY <2>1, AddKeeps DEF Arrive
    <2>2. CASE facts' = facts
        BY <2>2
    <2>3. QED
        BY <1>1, <2>1, <2>2
           DEF Next, vars, handoffVars, usageVars, Start, HandOff, Receive,
               Record, Revise
<1>2. QED
    BY <1>1, PTL DEF Spec, FactsNeverChange

-----------------------------------------------------------------------------
\* What was recorded says of itself which run and agent it is about.
Truthful(x) ==
    /\ {"event", "run", "agent"} \subseteq DOMAIN x
    /\ {"run_id", "agent_id", "workflow_id"} \subseteq DOMAIN x.event
    /\ x.event.run_id = x.run /\ x.event.agent_id = x.agent
    /\ x.agent \in Agents
    /\ WorkflowOf[x.run] # None => x.event.workflow_id = WorkflowOf[x.run]

RecordInv == \A x \in recorded : Truthful(x)

\* The facts are the leaves that arrived first under their ids.
Leaves == {j \in 1..Len(arrived) : Leaf(arrived[j].event)}

FactsInv ==
    /\ arrived \in Seq(recorded)
    /\ \A id : id \in DOMAIN facts <=>
                  \E j \in Leaves : arrived[j].event.event_id = id
    /\ FactsIn(facts) = {x.event : x \in ArrivedFirst}

UsageInv == RecordInv /\ FactsInv

LEMMA InitUsage == Init => UsageInv
<1> SUFFICES ASSUME Init PROVE UsageInv
    OBVIOUS
<1>1. recorded = {} /\ arrived = << >> /\ DOMAIN facts = {}
    BY DEF Init, NoFacts
<1>2. Leaves = {} /\ ArrivedFirst = {} /\ FactsIn(facts) = {}
    BY <1>1 DEF Leaves, ArrivedFirst, FactsIn
<1>3. arrived \in Seq(recorded)
    BY <1>1
<1>4. QED
    BY <1>1, <1>2, <1>3 DEF UsageInv, RecordInv, FactsInv

LEMMA GrowsUsage ==
    ASSUME UsageInv, recorded \subseteq recorded', RecordInv',
           UNCHANGED <<facts, arrived>>
    PROVE  UsageInv'
<1>1. arrived' \in Seq(recorded')
    BY DEF UsageInv, FactsInv
<1>2. QED
    BY <1>1 DEF UsageInv, FactsInv, Leaves, ArrivedFirst

LEMMA RecordUsage ==
    ASSUME HandoffInv, UsageInv, NEW a \in Agents, NEW s, NEW u, Record(a, s, u)
    PROVE  UsageInv'
<1> DEFINE x == [event |-> [event_id |-> Cardinality(recorded), scope |-> s,
                            run_id |-> Fields(a).run_id,
                            agent_id |-> Fields(a).agent_id,
                            workflow_id |-> Fields(a).workflow_id,
                            valid |-> u.valid, tokens |-> u.tokens,
                            cost |-> u.cost],
                 run |-> task[a].run, agent |-> a]
<1>1. /\ recorded' = recorded \cup {x} /\ context[a] # Idle
      /\ UNCHANGED <<facts, arrived>>
    BY DEF Record
<1>2. /\ DOMAIN x = {"event", "run", "agent"}
      /\ DOMAIN x.event = {"event_id", "scope", "run_id", "agent_id",
                           "workflow_id", "valid", "tokens", "cost"}
      /\ x.event.run_id = context[a].run_id /\ x.event.agent_id = a
      /\ x.event.workflow_id = context[a].workflow_id
      /\ x.run = task[a].run /\ x.agent = a
    BY DEF Fields, event_fields
<1> HIDE DEF x
<1>3. Truthful(x)
    BY <1>1, <1>2 DEF Truthful, HandoffInv, WorkInv
<1>4. QED
    BY <1>1, <1>3, GrowsUsage DEF UsageInv, RecordInv

LEMMA ReviseUsage ==
    ASSUME UsageInv, NEW r \in recorded, NEW u, Revise(r, u)
    PROVE  UsageInv'
<1> DEFINE x == [r EXCEPT !.event.valid = u.valid, !.event.tokens = u.tokens,
                          !.event.cost = u.cost]
<1>1. recorded' = recorded \cup {x} /\ UNCHANGED <<facts, arrived>>
    BY DEF Revise
<1>2. Truthful(r)
    BY DEF UsageInv, RecordInv
<1>3. Truthful(x)
    <2> DEFINE e == [r.event EXCEPT !.valid = u.valid, !.tokens = u.tokens,
                                    !.cost = u.cost]
    <2>1. /\ x.event = e /\ x.run = r.run /\ x.agent = r.agent
          /\ DOMAIN x = DOMAIN r
        BY <1>2 DEF Truthful
    <2>2. /\ e.run_id = r.event.run_id /\ e.agent_id = r.event.agent_id
          /\ e.workflow_id = r.event.workflow_id
          /\ DOMAIN e = DOMAIN r.event
        BY <1>2 DEF Truthful
    <2> HIDE DEF x, e
    <2>3. QED
        BY <1>2, <2>1, <2>2 DEF Truthful
<1>4. QED
    BY <1>1, <1>3, GrowsUsage DEF UsageInv, RecordInv

LEMMA ArriveUsage ==
    ASSUME UsageInv, NEW r \in recorded, Arrive(r)
    PROVE  UsageInv'
<1> DEFINE n == Len(arrived)
           e == r.event
<1>1. /\ recorded' = recorded /\ facts' = add(facts, e)
      /\ arrived' = Append(arrived, r)
    BY DEF Arrive
<1>2. arrived \in Seq(recorded) /\ n \in Nat
    BY DEF UsageInv, FactsInv
<1>3. /\ arrived' \in Seq(recorded') /\ Len(arrived') = n + 1
      /\ arrived'[n + 1] = r
      /\ \A i \in 1..n : arrived'[i] = arrived[i]
    BY <1>1, <1>2
<1> HIDE DEF n
<1>4. Leaves' = Leaves \cup (IF Leaf(e) THEN {n + 1} ELSE {})
    BY <1>2, <1>3 DEF Leaves, n
<1>5. \A id : id \in DOMAIN facts <=>
                \E j \in Leaves : arrived[j].event.event_id = id
    BY DEF UsageInv, FactsInv
<1>6. \A j \in Leaves : j \in 1..n /\ arrived'[j] = arrived[j]
    BY <1>3 DEF Leaves, n
<1>7. DOMAIN facts' = DOMAIN facts \cup (IF Leaf(e) THEN {e.event_id} ELSE {})
    BY <1>1 DEF add, Known, IsNew
<1>8. \A id : id \in DOMAIN facts' <=>
                \E j \in Leaves' : arrived'[j].event.event_id = id
    BY <1>3, <1>4, <1>5, <1>6, <1>7
<1>9. ArrivedFirst' = ArrivedFirst \cup
          (IF Leaf(e) /\ IsNew(facts, e) THEN {r} ELSE {})
    <2> DEFINE First(q, j) ==
                   /\ Leaf(q[j].event)
                   /\ \A k \in 1..j-1 : Leaf(q[k].event) =>
                          q[k].event.event_id # q[j].event.event_id
    <2>1. ASSUME NEW j \in 1..n
          PROVE  First(arrived', j) <=> First(arrived, j)
        <3>1. \A k \in 1..j-1 : k \in 1..n
            BY <1>2
        <3>2. QED
            BY <1>3, <3>1
    <2>2. First(arrived', n + 1) <=> Leaf(e) /\ IsNew(facts, e)
        <3>1. \A k \in 1..n : k \in Leaves <=> Leaf(arrived[k].event)
            BY DEF Leaves, n
        <3>2. IsNew(facts, e) <=>
                  \A k \in Leaves : arrived[k].event.event_id # e.event_id
            BY <1>5 DEF IsNew
        <3>3. (n + 1) - 1 = n
            BY <1>2
        <3>4. \A k \in Leaves : k \in 1..n
            BY <1>6
        <3>5. QED
            BY <1>3, <3>1, <3>2, <3>3, <3>4
    <2>3. ArrivedFirst = {arrived[i] : i \in {j \in 1..n : First(arrived, j)}}
        BY DEF ArrivedFirst, n
    <2>4. ArrivedFirst' =
              {arrived'[i] : i \in {j \in 1..n + 1 : First(arrived', j)}}
        BY <1>3 DEF ArrivedFirst
    <2> HIDE DEF First
    <2>5. 1..n + 1 = (1..n) \cup {n + 1}
        BY <1>2
    <2>6. {j \in 1..n + 1 : First(arrived', j)} =
              {j \in 1..n : First(arrived, j)}
              \cup (IF Leaf(e) /\ IsNew(facts, e) THEN {n + 1} ELSE {})
        BY <2>1, <2>2, <2>5
    <2>7. QED
        BY <1>3, <2>3, <2>4, <2>6
<1>10. FactsIn(facts') = FactsIn(facts) \cup
          (IF Leaf(e) /\ IsNew(facts, e) THEN {e} ELSE {})
    BY <1>1 DEF FactsIn, add, Known, IsNew
<1>11. FactsIn(facts') = {x.event : x \in ArrivedFirst'}
    BY <1>9, <1>10 DEF UsageInv, FactsInv
<1>12. QED
    BY <1>1, <1>3, <1>8, <1>11 DEF UsageInv, RecordInv, FactsInv

LEMMA NextUsage == HandoffInv /\ UsageInv /\ [Next]_vars => UsageInv'
<1> SUFFICES ASSUME HandoffInv, UsageInv, [Next]_vars
             PROVE  UsageInv'
    OBVIOUS
<1>1. ASSUME NEW a \in Agents, NEW s, NEW u, Record(a, s, u)
      PROVE  UsageInv'
    BY <1>1, RecordUsage
<1>2. ASSUME NEW r \in recorded, NEW u, Revise(r, u)
      PROVE  UsageInv'
    BY <1>2, ReviseUsage
<1>3. ASSUME NEW r \in recorded, Arrive(r)
      PROVE  UsageInv'
    BY <1>3, ArriveUsage
<1>4. CASE UNCHANGED usageVars
    BY <1>4 DEF usageVars, UsageInv, RecordInv, FactsInv, Leaves, ArrivedFirst
<1>5. QED
    BY <1>1, <1>2, <1>3, <1>4 DEF Next, Start, HandOff, Receive, vars

LEMMA UsageAlways == Spec => []UsageInv
BY InitUsage, HandoffAlways, NextUsage, PTL DEF Spec

\* A rollup is about the calls made for its run that reached the collector.
LEMMA RollupsCount == UsageInv => RollupCountsTheRun
<1> SUFFICES ASSUME UsageInv PROVE RollupCountsTheRun
    OBVIOUS
<1>1. \A x \in ArrivedFirst : Truthful(x)
    BY DEF ArrivedFirst, UsageInv, RecordInv, FactsInv
<1>2. FactsIn(facts) = {x.event : x \in ArrivedFirst}
    BY DEF UsageInv, FactsInv
<1>3. ASSUME NEW r \in Runs, WorkflowOf[r] # None
      PROVE  Matches(facts, WorkflowAsk(r)) = Calls(r, Agents)
    BY <1>1, <1>2, <1>3 DEF Matches, WorkflowAsk, Calls, Truthful
<1>4. ASSUME NEW r \in Runs, NEW a \in Agents
      PROVE  Matches(facts, AgentAsk(r, a)) = Calls(r, {a})
    BY <1>1, <1>2 DEF Matches, AgentAsk, Calls, Truthful, None
<1>5. QED
    BY <1>3, <1>4 DEF RollupCountsTheRun

\* Each model call that reached the collector is counted once, in the run its
\* agent made it for.
THEOREM RollupsAreTrue == Spec => []RollupCountsTheRun
BY UsageAlways, RollupsCount, PTL

-----------------------------------------------------------------------------
\* Types: a carrier holds headers and nothing else, wherever it is.
SentFields == \A m \in sent : DOMAIN m.carrier \subseteq FieldNames

LEMMA FieldsInjected ==
    ASSUME NEW c, DOMAIN c \subseteq FieldNames, NEW run, NEW agent, NEW workflow
    PROVE  DOMAIN inject_context(c, Headers(run, agent, workflow))
               \subseteq FieldNames
<1> DEFINE h == Headers(run, agent, workflow)
<1>1. DOMAIN h \subseteq Names
    BY DEF Headers, Names
<1>2. Written(h) \subseteq DOMAIN h
    BY DEF Written
<1> HIDE DEF h
<1>3. \A name \in Written(h) : Lower(name) \in FieldNames
    BY <1>1, <1>2 DEF Lower, FieldNames
<1>4. DOMAIN inject_context(c, h) = DOMAIN c \cup {Lower(n) : n \in Written(h)}
    BY DEF inject_context
<1>5. QED
    BY <1>3, <1>4 DEF h

LEMMA FieldsTransported ==
    ASSUME NEW c, DOMAIN c \subseteq FieldNames, NEW d \in Transported(c)
    PROVE  DOMAIN d \subseteq FieldNames
<1>1. \A f \in DOMAIN c : Title(f[1]) \in FieldNames
    BY DEF FieldNames, Title
<1>2. CASE d = c
    BY <1>2
<1>3. CASE d = Retitled(c)
    BY <1>1, <1>3 DEF Retitled
<1>4. QED
    BY <1>2, <1>3 DEF Transported

LEMMA NextTypes ==
    HandoffInv /\ SentFields /\ TypeOK /\ [Next]_vars => SentFields' /\ TypeOK'
<1> SUFFICES ASSUME HandoffInv, SentFields, TypeOK, [Next]_vars
             PROVE  SentFields' /\ TypeOK'
    OBVIOUS
<1>0. Shape
    BY DEF HandoffInv
<1>1. ASSUME NEW a \in Agents, NEW r \in Runs, Start(a, r)
      PROVE  SentFields' /\ TypeOK'
    <2>1. /\ context'[a].upstream_agent_id = None /\ context'[a].run_id = r
          /\ \A b \in Agents \ {a} : context'[b] = context[b]
        BY <1>0, <1>1 DEF Start, Idle, Shape
    <2>2. steps' \in 0..MaxSteps
        BY <1>1, BoundsAssumption DEF Start, TypeOK
    <2>3. carrier' = carrier /\ sent' = sent /\ facts' = facts
        BY <1>1 DEF Start, usageVars
    <2>4. QED
        BY <2>1, <2>2, <2>3 DEF SentFields, TypeOK
<1>2. ASSUME NEW a \in Agents, NEW b \in Agents, HandOff(a, b)
      PROVE  SentFields' /\ TypeOK'
    <2> DEFINE h == Headers(context[a].run_id, a, context[a].workflow_id)
    <2>1. /\ carrier'[a] = inject_context(carrier[a], h)
          /\ \A d \in Agents \ {a} : carrier'[d] = carrier[d]
        BY <1>0, <1>2 DEF HandOff, Shape
    <2>2. DOMAIN carrier'[a] \subseteq FieldNames
        BY <2>1, FieldsInjected DEF TypeOK
    <2>3. SentFields'
        BY <1>2, <2>2 DEF HandOff, SentFields
    <2>4. steps' \in 0..MaxSteps
        BY <1>2, BoundsAssumption DEF HandOff, TypeOK
    <2>5. context' = context /\ facts' = facts
        BY <1>2 DEF HandOff, usageVars
    <2>6. QED
        BY <2>1, <2>2, <2>3, <2>4, <2>5 DEF TypeOK
<1>3. ASSUME NEW m \in sent, NEW c \in Transported(m.carrier), Receive(m, c)
      PROVE  SentFields' /\ TypeOK'
    <2>1. /\ m.from \in Agents /\ m.to \in Agents /\ m.run \in Runs
          /\ Header(c, "run_id") = m.run /\ Header(c, "agent_id") = m.from
        BY DEF HandoffInv, SentInv, Named
    <2>2. /\ context'[m.to] = extract_context(c)
          /\ \A a \in Agents \ {m.to} : context'[a] = context[a]
        BY <1>0, <1>3, <2>1 DEF Receive, Shape
    <2>3. /\ context'[m.to].upstream_agent_id \in Agents
          /\ context'[m.to].run_id \in Runs
        BY <2>1, <2>2 DEF extract_context
    <2>4. DOMAIN c \subseteq FieldNames
        BY FieldsTransported DEF SentFields
    <2>5. \A a \in Agents : DOMAIN carrier'[a] \subseteq FieldNames
        BY <1>0, <1>3, <2>4 DEF Receive, Shape, TypeOK
    <2>6. /\ sent' \subseteq sent /\ steps' = steps /\ facts' = facts
        BY <1>3 DEF Receive, usageVars
    <2>7. QED
        BY <2>2, <2>3, <2>5, <2>6 DEF SentFields, TypeOK
<1>4. ASSUME NEW r \in recorded, Arrive(r)
      PROVE  SentFields' /\ TypeOK'
    <2>1. \A id \in DOMAIN facts' : Leaf(facts'[id])
        BY <1>4 DEF Arrive, add, Known, TypeOK
    <2>2. UNCHANGED handoffVars
        BY <1>4 DEF Arrive
    <2>3. QED
        BY <2>1, <2>2 DEF handoffVars, SentFields, TypeOK
<1>5. CASE UNCHANGED <<handoffVars, facts>>
    BY <1>5 DEF handoffVars, SentFields, TypeOK
<1>6. QED
    BY <1>1, <1>2, <1>3, <1>4, <1>5
       DEF Next, Record, Revise, vars, usageVars

\* An agent works for a known run and agent or none, carriers hold known headers,
\* and no fact is the sum of others.
THEOREM TypeCorrect == Spec => []TypeOK
<1>1. Init => SentFields /\ TypeOK
    BY BoundsAssumption
       DEF Init, SentFields, TypeOK, Idle, NoFacts, FieldNames
<1>2. QED
    BY <1>1, HandoffAlways, NextTypes, PTL DEF Spec

-----------------------------------------------------------------------------
\* Sums over finite sets. A fold is a recursive function: that there is one, and
\* what it adds up to, is shown by a least number, or a minimal set, without.
LEMMA LeastNumber ==
    ASSUME NEW T \in SUBSET Nat, T # {}
    PROVE  \E x \in T : \A y \in T : x <= y
<1>1. PICK x \in T : \A y \in T : ~(<<y, x>> \in OpToRel(<, Nat))
    BY NatLessThanWellFounded, WFMin, Zenon
<1>2. \A y \in T : ~(y < x)
    BY <1>1 DEF OpToRel
<1>3. QED
    BY <1>2

LEMMA MinimalSet ==
    ASSUME NEW S, IsFiniteSet(S), NEW F \in SUBSET SUBSET S, F # {}
    PROVE  \E T \in F : \A U \in SUBSET T : U # T => U \notin F
<1>1. F \subseteq FiniteSubsetsOf(S)
    BY FS_Subset DEF FiniteSubsetsOf
<1>2. PICK T \in F : \A U \in F : ~(<<U, T>> \in StrictSubsetOrdering(S))
    BY <1>1, FS_StrictSubsetOrderingWellFounded, WFMin, Zenon
<1>3. ASSUME NEW U \in SUBSET T, U # T
      PROVE  U \notin F
    BY <1>2, <1>3 DEF StrictSubsetOrdering
<1>4. QED
    BY <1>2, <1>3

-----------------------------------------------------------------------------
AnyOf(s) == CHOOSE x \in s : TRUE

\* g adds up w over the subsets of S, as MapThenSumSet does.
Adds(g, w, S) ==
    g = [s \in SUBSET S |->
            IF s = {} THEN 0 ELSE w[AnyOf(s)] + g[s \ {AnyOf(s)}]]

LEMMA AnyOfIn == ASSUME NEW s, s # {} PROVE AnyOf(s) \in s
BY DEF AnyOf

LEMMA SumExists ==
    ASSUME NEW S, IsFiniteSet(S), NEW w \in [S -> Nat]
    PROVE  \E g \in [SUBSET S -> Nat] : Adds(g, w, S)
<1> DEFINE Upto(n) == {s \in SUBSET S : Cardinality(s) <= n}
           Turn(g, s) == IF s = {} THEN 0 ELSE w[AnyOf(s)] + g[s \ {AnyOf(s)}]
           Up(n, g) == g \in [Upto(n) -> Nat] /\ \A s \in Upto(n) : g[s] = Turn(g, s)
           Without == {n \in Nat : ~\E g : Up(n, g)}
<1>1. \A s \in SUBSET S : IsFiniteSet(s) /\ Cardinality(s) \in Nat
    BY FS_Subset, FS_CardinalityType
<1>2. Up(0, [s \in Upto(0) |-> 0])
    <2>1. \A s \in Upto(0) : s = {}
        BY <1>1, FS_EmptySet
    <2>2. QED
        BY <2>1
<1>3. ASSUME NEW n \in Nat, NEW g, Up(n, g)
      PROVE  Up(n + 1, [s \in Upto(n + 1) |-> Turn(g, s)])
    <2> DEFINE h == [s \in Upto(n + 1) |-> Turn(g, s)]
    <2>1. ASSUME NEW s \in Upto(n + 1), s # {}
          PROVE  AnyOf(s) \in S /\ s \ {AnyOf(s)} \in Upto(n)
        <3>1. AnyOf(s) \in s
            BY <2>1, AnyOfIn
        <3>2. Cardinality(s \ {AnyOf(s)}) = Cardinality(s) - 1
            BY <1>1, <3>1, FS_RemoveElement
        <3>3. Cardinality(s) \in Nat /\ Cardinality(s) <= n + 1
            BY <1>1
        <3>4. Cardinality(s \ {AnyOf(s)}) <= n
            BY <3>2, <3>3
        <3>5. QED
            BY <3>1, <3>4
    <2>2. h \in [Upto(n + 1) -> Nat]
        <3> SUFFICES ASSUME NEW s \in Upto(n + 1)
                     PROVE  Turn(g, s) \in Nat
            OBVIOUS
        <3>1. CASE s = {}
            BY <3>1
        <3>2. CASE s # {}
            <4>1. w[AnyOf(s)] \in Nat /\ g[s \ {AnyOf(s)}] \in Nat
                BY <1>3, <2>1, <3>2
            <4>2. QED
                BY <3>2, <4>1
        <3>3. QED
            BY <3>1, <3>2
    <2>3. Upto(n) \subseteq Upto(n + 1)
        BY <1>1
    <2>4. \A s \in Upto(n) : h[s] = g[s]
        BY <1>3, <2>3
    <2>5. \A s \in Upto(n + 1) : h[s] = Turn(h, s)
        BY <2>1, <2>4
    <2>6. QED
        BY <2>2, <2>5
<1>4. Without = {}
    <2> SUFFICES ASSUME Without # {}
                 PROVE  FALSE
        OBVIOUS
    <2> HIDE DEF Up
    <2>1. PICK n \in Without : \A m \in Without : n <= m
        <3>1. Without \in SUBSET Nat
            OBVIOUS
        <3> HIDE DEF Without
        <3>2. QED
            BY <3>1, LeastNumber
    <2>2. n # 0
        BY <1>2
    <2>3. n - 1 \in Nat /\ n - 1 \notin Without
        BY <2>1, <2>2
    <2>4. PICK g : Up(n - 1, g)
        BY <2>3
    <2>5. \E h : Up((n - 1) + 1, h)
        BY <1>3, <2>3, <2>4
    <2>6. (n - 1) + 1 = n
        BY <2>3
    <2>7. QED
        BY <2>5, <2>6
<1> DEFINE k == Cardinality(S)
<1>5. k \in Nat /\ Upto(k) = SUBSET S
    BY <1>1, FS_Subset, FS_CardinalityType
<1>6. PICK g : Up(k, g)
    <2> HIDE DEF Up, k
    <2>1. QED
        BY <1>4, <1>5
<1>7. g \in [SUBSET S -> Nat] /\ \A s \in SUBSET S : g[s] = Turn(g, s)
    <2> HIDE DEF k
    <2>1. QED
        BY <1>5, <1>6
<1>8. QED
    BY <1>7 DEF Adds

LEMMA SumIsNumber ==
    ASSUME NEW S, IsFiniteSet(S), NEW w \in [S -> Nat], NEW g, Adds(g, w, S)
    PROVE  g \in [SUBSET S -> Nat]
<1> DEFINE Bad == {T \in SUBSET S : g[T] \notin Nat}
<1>1. \A T \in SUBSET S : g[T] = IF T = {} THEN 0 ELSE w[AnyOf(T)] + g[T \ {AnyOf(T)}]
    BY DEF Adds
<1>2. Bad = {}
    <2> SUFFICES ASSUME Bad # {}
                 PROVE  FALSE
        OBVIOUS
    <2>1. PICK T \in Bad : \A U \in SUBSET T : U # T => U \notin Bad
        <3>1. Bad \in SUBSET SUBSET S
            OBVIOUS
        <3> HIDE DEF Bad
        <3>2. QED
            BY <3>1, MinimalSet
    <2>2. g[T] = IF T = {} THEN 0 ELSE w[AnyOf(T)] + g[T \ {AnyOf(T)}]
        BY <1>1
    <2>3. T # {} /\ g[T] \notin Nat
        BY <2>2
    <2>4. AnyOf(T) \in T
        BY <2>3, AnyOfIn
    <2>5. T \ {AnyOf(T)} \notin Bad
        BY <2>1, <2>4
    <2>6. g[T \ {AnyOf(T)}] \in Nat
        BY <2>5
    <2>7. w[AnyOf(T)] \in Nat
        BY <2>4
    <2> HIDE DEF Bad
    <2>8. w[AnyOf(T)] + g[T \ {AnyOf(T)}] \in Nat
        BY <2>6, <2>7
    <2>9. QED
        BY <2>2, <2>3, <2>8
<1>3. DOMAIN g = SUBSET S /\ g = [s \in SUBSET S |-> g[s]]
    BY DEF Adds
<1>4. QED
    BY <1>2, <1>3

LEMMA SumStep ==
    ASSUME NEW S, IsFiniteSet(S), NEW w \in [S -> Nat], NEW g, Adds(g, w, S)
    PROVE  \A T \in SUBSET S : \A x \in T : g[T] = w[x] + g[T \ {x}]
<1> DEFINE Bad == {T \in SUBSET S : \E x \in T : g[T] # w[x] + g[T \ {x}]}
<1> SUFFICES ASSUME Bad # {}
             PROVE  FALSE
    OBVIOUS
<1>1. PICK T \in Bad : \A U \in SUBSET T : U # T => U \notin Bad
    <2>1. Bad \in SUBSET SUBSET S
        OBVIOUS
    <2> HIDE DEF Bad
    <2>2. QED
        BY <2>1, MinimalSet
<1>2. PICK x \in T : g[T] # w[x] + g[T \ {x}]
    OBVIOUS
<1> DEFINE p == AnyOf(T)
<1>3. p \in T
    BY <1>2, AnyOfIn
<1>4. g[T] = w[p] + g[T \ {p}]
    BY <1>3 DEF Adds
<1> HIDE DEF p
<1>5. x # p
    BY <1>2, <1>4
<1>6. /\ T \ {p} \notin Bad /\ x \in T \ {p}
      /\ T \ {x} \notin Bad /\ p \in T \ {x}
    BY <1>1, <1>3, <1>5
<1>7. /\ g[T \ {p}] = w[x] + g[(T \ {p}) \ {x}]
      /\ g[T \ {x}] = w[p] + g[(T \ {x}) \ {p}]
    BY <1>6
<1>8. (T \ {p}) \ {x} = (T \ {x}) \ {p}
    OBVIOUS
<1>9. g[(T \ {x}) \ {p}] \in Nat /\ w[p] \in Nat /\ w[x] \in Nat
    <2>1. (T \ {x}) \ {p} \in SUBSET S /\ p \in S /\ x \in S
        BY <1>3
    <2>2. g \in [SUBSET S -> Nat]
        BY SumIsNumber
    <2> HIDE DEF Bad
    <2>3. QED
        BY <2>1, <2>2
<1>10. g[T] = w[x] + g[T \ {x}]
    <2> HIDE DEF Bad
    <2> DEFINE rest == g[(T \ {x}) \ {p}]
    <2>1. g[T] = w[p] + (w[x] + rest) /\ g[T \ {x}] = w[p] + rest
        BY <1>4, <1>7, <1>8
    <2>2. rest \in Nat /\ w[p] \in Nat /\ w[x] \in Nat
        BY <1>9
    <2> HIDE DEF rest
    <2>3. w[p] + (w[x] + rest) = w[x] + (w[p] + rest)
        BY <2>2
    <2>4. QED
        BY <2>1, <2>3
<1>11. QED
    BY <1>2, <1>10

\* A measure gives disjoint sets together what it gives each.
Measure(mu, S) ==
    /\ mu \in [SUBSET S -> Nat]
    /\ mu[{}] = 0
    /\ \A A, B \in SUBSET S : A \cap B = {} => mu[A \cup B] = mu[A] + mu[B]

LEMMA SumIsMeasure ==
    ASSUME NEW S, IsFiniteSet(S), NEW w \in [S -> Nat], NEW g, Adds(g, w, S)
    PROVE  Measure(g, S)
<1>1. g \in [SUBSET S -> Nat] /\ g[{}] = 0
    BY SumIsNumber DEF Adds
<1>2. ASSUME NEW A \in SUBSET S
      PROVE  \A B \in SUBSET S : A \cap B = {} => g[A \cup B] = g[A] + g[B]
    <2> DEFINE Bad == {B \in SUBSET S : A \cap B = {} /\ g[A \cup B] # g[A] + g[B]}
    <2> SUFFICES ASSUME Bad # {}
                 PROVE  FALSE
        OBVIOUS
    <2>1. PICK B \in Bad : \A U \in SUBSET B : U # B => U \notin Bad
        <3>1. Bad \in SUBSET SUBSET S
            OBVIOUS
        <3> HIDE DEF Bad
        <3>2. QED
            BY <3>1, MinimalSet
    <2>2. B # {}
        <3> SUFFICES ASSUME B = {}
                     PROVE  FALSE
            OBVIOUS
        <3>1. A \cup B = A /\ g[A] \in Nat
            BY <1>1
        <3>2. g[A \cup B] # g[A] + g[B] /\ g[B] = 0
            BY <1>1
        <3> HIDE DEF Bad
        <3>3. QED
            BY <3>1, <3>2
    <2>3. PICK x \in B : TRUE
        BY <2>2
    <2>4. B \ {x} \notin Bad /\ A \cap (B \ {x}) = {}
        BY <2>1
    <2>5. g[A \cup (B \ {x})] = g[A] + g[B \ {x}]
        BY <2>4
    <2>6. (A \cup B) \ {x} = A \cup (B \ {x})
        BY <2>3
    <2>7. /\ g[A \cup B] = w[x] + g[(A \cup B) \ {x}]
          /\ g[B] = w[x] + g[B \ {x}]
        BY <2>3, SumStep
    <2>8. /\ w[x] \in Nat /\ g[A] \in Nat /\ g[B \ {x}] \in Nat
        BY <1>1
    <2>9. g[A \cup B] # g[A] + g[B]
        OBVIOUS
    <2> DEFINE rest == g[B \ {x}]
    <2>10. g[A \cup B] = w[x] + (g[A] + rest) /\ g[B] = w[x] + rest
        <3> HIDE DEF Bad
        <3>1. QED
            BY <2>5, <2>6, <2>7
    <2> HIDE DEF rest, Bad
    <2>11. w[x] + (g[A] + rest) = g[A] + (w[x] + rest)
        BY <2>8 DEF rest
    <2>12. QED
        BY <2>9, <2>10, <2>11
<1>3. QED
    BY <1>1, <1>2 DEF Measure

LEMMA CountIsMeasure ==
    ASSUME NEW S, IsFiniteSet(S)
    PROVE  Measure([A \in SUBSET S |-> Cardinality(A)], S)
<1>1. \A A \in SUBSET S : IsFiniteSet(A) /\ Cardinality(A) \in Nat
    BY FS_Subset, FS_CardinalityType
<1>2. Cardinality({}) = 0
    BY FS_EmptySet
<1>3. \A A, B \in SUBSET S : A \cap B = {} =>
          Cardinality(A \cup B) = Cardinality(A) + Cardinality(B)
    <2> SUFFICES ASSUME NEW A \in SUBSET S, NEW B \in SUBSET S, A \cap B = {}
                 PROVE  Cardinality(A \cup B) = Cardinality(A) + Cardinality(B)
        OBVIOUS
    <2>1. Cardinality(A \cup B) =
              Cardinality(A) + Cardinality(B) - Cardinality(A \cap B)
        BY <1>1, FS_Union
    <2>2. Cardinality(A) \in Nat /\ Cardinality(B) \in Nat
        BY <1>1
    <2>3. Cardinality(A \cap B) = 0
        BY <1>2
    <2> HIDE <1>2
    <2>4. QED
        BY <2>1, <2>2, <2>3
<1>4. QED
    BY <1>1, <1>2, <1>3 DEF Measure

\* What a measure gives the parts adds up to what it gives the whole.
LEMMA PartsAddUp ==
    ASSUME NEW S, NEW mu, Measure(mu, S), NEW C, IsFiniteSet(C),
           NEW part \in [C -> SUBSET S],
           \A a, b \in C : a # b => part[a] \cap part[b] = {},
           NEW g, Adds(g, [a \in C |-> mu[part[a]]], C)
    PROVE  g[C] = mu[UNION {part[a] : a \in C}]
<1> DEFINE w == [a \in C |-> mu[part[a]]]
           Whole(B) == UNION {part[a] : a \in B}
           Bad == {B \in SUBSET C : g[B] # mu[Whole(B)]}
<1> SUFFICES ASSUME Bad # {}
             PROVE  FALSE
    OBVIOUS
<1>1. PICK B \in Bad : \A U \in SUBSET B : U # B => U \notin Bad
    <2>1. Bad \in SUBSET SUBSET C
        OBVIOUS
    <2> HIDE DEF Bad
    <2>2. QED
        BY <2>1, MinimalSet
<1>2. B # {}
    <2>1. g[{}] = 0
        BY DEF Adds
    <2>2. Whole({}) = {}
        OBVIOUS
    <2>3. QED
        BY <2>1, <2>2 DEF Measure
<1> DEFINE p == AnyOf(B)
<1>3. p \in B
    BY <1>2, AnyOfIn
<1>4. g[B] = mu[part[p]] + g[B \ {p}]
    BY <1>3 DEF Adds
<1> HIDE DEF p
<1>5. g[B \ {p}] = mu[Whole(B \ {p})]
    BY <1>1, <1>3
<1>6. /\ part[p] \in SUBSET S /\ Whole(B \ {p}) \in SUBSET S
      /\ part[p] \cap Whole(B \ {p}) = {}
      /\ Whole(B) = part[p] \cup Whole(B \ {p})
    BY <1>3
<1> HIDE DEF Whole
<1>7. mu[Whole(B)] = mu[part[p]] + mu[Whole(B \ {p})]
    BY <1>6 DEF Measure
<1>8. QED
    BY <1>4, <1>5, <1>7

\* The sums of a smaller set are those of a larger one.
LEMMA SumsAgree ==
    ASSUME NEW S, NEW w, NEW g, Adds(g, w, S),
           NEW X \in SUBSET S, IsFiniteSet(X), NEW v, \A x \in X : v[x] = w[x],
           NEW h, Adds(h, v, X)
    PROVE  h[X] = g[X]
<1> DEFINE Bad == {T \in SUBSET X : h[T] # g[T]}
<1> SUFFICES ASSUME Bad # {}
             PROVE  FALSE
    BY DEF Bad
<1>1. PICK T \in Bad : \A U \in SUBSET T : U # T => U \notin Bad
    <2>1. Bad \in SUBSET SUBSET X
        OBVIOUS
    <2> HIDE DEF Bad
    <2>2. QED
        BY <2>1, MinimalSet
<1>2. T # {}
    <2>1. h[{}] = 0 /\ g[{}] = 0
        BY DEF Adds
    <2>2. QED
        BY <2>1
<1>3. AnyOf(T) \in T
    BY <1>2, AnyOfIn
<1>4. h[T \ {AnyOf(T)}] = g[T \ {AnyOf(T)}]
    BY <1>1, <1>3
<1>5. /\ h[T] = v[AnyOf(T)] + h[T \ {AnyOf(T)}]
      /\ g[T] = w[AnyOf(T)] + g[T \ {AnyOf(T)}]
    BY <1>2 DEF Adds
<1>6. v[AnyOf(T)] = w[AnyOf(T)]
    BY <1>3
<1>7. QED
    BY <1>4, <1>5, <1>6

\* The sums of a rollup.
TokensOf(f, S) == MapThenSumSet(LAMBDA e : e.tokens[f], S)
CostsOf(S)     == MapThenSumSet(LAMBDA e : e.cost.amount, S)

\* MapThenSumSet adds up, for each of the maps it is used with.
LEMMA ValuesAdd ==
    ASSUME NEW S, IsFiniteSet(S), NEW w \in [S -> Nat]
    PROVE  \E h : Adds(h, w, S) /\ h[S] = Total(w, S)
<1> DEFINE iter == CHOOSE h : h = [s \in SUBSET S |->
                       IF s = {} THEN 0
                       ELSE LET x == CHOOSE x \in s : TRUE
                            IN  w[x] + h[s \ {x}]]
<1>1. PICK g : Adds(g, w, S)
    BY SumExists
<1>2. g = [s \in SUBSET S |-> IF s = {} THEN 0
                              ELSE LET x == CHOOSE x \in s : TRUE
                                   IN  w[x] + g[s \ {x}]]
    BY <1>1 DEF Adds, AnyOf
<1>3. iter = [s \in SUBSET S |-> IF s = {} THEN 0
                                 ELSE LET x == CHOOSE x \in s : TRUE
                                      IN  w[x] + iter[s \ {x}]]
    BY <1>2
<1>4. Total(w, S) = iter[S]
    BY Zenon DEF Total, MapThenSumSet, MapThenFoldSet
<1> HIDE DEF iter
<1>5. Adds(iter, w, S)
    BY <1>3 DEF Adds, AnyOf
<1>6. QED
    BY <1>4, <1>5

LEMMA TokensAdd ==
    ASSUME NEW S, IsFiniteSet(S), NEW f,
           \A e \in S : e.tokens[f] \in Nat
    PROVE  \E h : /\ Adds(h, [e \in S |-> e.tokens[f]], S)
                  /\ h[S] = TokensOf(f, S)
<1> DEFINE w == [e \in S |-> e.tokens[f]]
           Turned(h) == [s \in SUBSET S |->
                            IF s = {} THEN 0
                            ELSE LET x == CHOOSE x \in s : TRUE
                                 IN  x.tokens[f] + h[s \ {x}]]
           iter == CHOOSE h : h = Turned(h)
<1>1. PICK g : Adds(g, w, S)
    <2>1. w \in [S -> Nat]
        OBVIOUS
    <2> HIDE DEF w
    <2>2. QED
        BY <2>1, SumExists
<1>2. \A s \in SUBSET S : s # {} => w[AnyOf(s)] = AnyOf(s).tokens[f]
    BY AnyOfIn
<1>3. \A h : Adds(h, w, S) <=> h = Turned(h)
    <2> HIDE DEF w
    <2>1. QED
        BY <1>2 DEF Adds, AnyOf
<1>4. Adds(iter, w, S)
    <2> HIDE DEF w, Turned
    <2>1. iter = Turned(iter)
        BY <1>1, <1>3
    <2> HIDE DEF iter
    <2>2. QED
        BY <1>3, <2>1
<1>5. TokensOf(f, S) = iter[S]
    BY Zenon DEF TokensOf, MapThenSumSet, MapThenFoldSet
<1>6. QED
    BY <1>4, <1>5

LEMMA CostsAdd ==
    ASSUME NEW S, IsFiniteSet(S), \A e \in S : e.cost.amount \in Nat
    PROVE  \E h : /\ Adds(h, [e \in S |-> e.cost.amount], S)
                  /\ h[S] = CostsOf(S)
<1> DEFINE w == [e \in S |-> e.cost.amount]
           Turned(h) == [s \in SUBSET S |->
                            IF s = {} THEN 0
                            ELSE LET x == CHOOSE x \in s : TRUE
                                 IN  x.cost.amount + h[s \ {x}]]
           iter == CHOOSE h : h = Turned(h)
<1>1. PICK g : Adds(g, w, S)
    <2>1. w \in [S -> Nat]
        OBVIOUS
    <2> HIDE DEF w
    <2>2. QED
        BY <2>1, SumExists
<1>2. \A s \in SUBSET S : s # {} => w[AnyOf(s)] = AnyOf(s).cost.amount
    BY AnyOfIn
<1>3. \A h : Adds(h, w, S) <=> h = Turned(h)
    <2> HIDE DEF w
    <2>1. QED
        BY <1>2 DEF Adds, AnyOf
<1>4. Adds(iter, w, S)
    <2> HIDE DEF w, Turned
    <2>1. iter = Turned(iter)
        BY <1>1, <1>3
    <2> HIDE DEF iter
    <2>2. QED
        BY <1>3, <2>1
<1>5. CostsOf(S) = iter[S]
    BY Zenon DEF CostsOf, MapThenSumSet, MapThenFoldSet
<1>6. QED
    BY <1>4, <1>5

\* What a measure gives each of the parts, summed up, is what it gives the whole.
LEMMA PartsSum ==
    ASSUME NEW S, NEW mu, Measure(mu, S), NEW C, IsFiniteSet(C),
           NEW part \in [C -> SUBSET S], UNION {part[a] : a \in C} = S,
           \A a, b \in C : a # b => part[a] \cap part[b] = {},
           NEW n, n = [a \in C |-> mu[part[a]]]
    PROVE  mu[S] = Total(n, C)
<1>1. n \in [C -> Nat]
    BY DEF Measure
<1>2. PICK g : Adds(g, n, C) /\ g[C] = Total(n, C)
    BY <1>1, ValuesAdd
<1>3. Adds(g, [a \in C |-> mu[part[a]]], C)
    BY <1>2
<1>4. g[C] = mu[UNION {part[a] : a \in C}]
    BY <1>3, PartsAddUp
<1>5. QED
    BY <1>2, <1>4

-----------------------------------------------------------------------------
\* Facts are finitely many, of agents, and their amounts are numbers.
Numbered(e) ==
    /\ e.cost.amount \in Nat
    /\ \A f \in DOMAIN e.tokens : e.tokens[f] \in Nat

NumberInv ==
    \A x \in recorded :
        /\ {"valid", "tokens", "cost"} \subseteq DOMAIN x.event
        /\ x.event.valid => Numbered(x.event)

LEMMA NextNumbers ==
    UsageInv /\ NumberInv /\ [Next]_vars => NumberInv'
<1> SUFFICES ASSUME UsageInv, NumberInv, [Next]_vars
             PROVE  NumberInv'
    OBVIOUS
<1>1. ASSUME NEW a \in Agents, NEW s, NEW u \in Usages, Record(a, s, u)
      PROVE  NumberInv'
    <2> DEFINE x == [event |-> [event_id |-> Cardinality(recorded), scope |-> s,
                                run_id |-> Fields(a).run_id,
                                agent_id |-> Fields(a).agent_id,
                                workflow_id |-> Fields(a).workflow_id,
                                valid |-> u.valid, tokens |-> u.tokens,
                                cost |-> u.cost],
                     run |-> task[a].run, agent |-> a]
    <2>1. recorded' = recorded \cup {x} /\ u.valid
        BY <1>1 DEF Record
    <2>2. /\ {"valid", "tokens", "cost"} \subseteq DOMAIN x.event
          /\ x.event.tokens = u.tokens /\ x.event.cost = u.cost
        OBVIOUS
    <2>3. Numbered(x.event)
        <3> HIDE DEF x
        <3>1. QED
            BY <2>1, <2>2, UsagesAssumption DEF Numbered
    <2> HIDE DEF x
    <2>4. QED
        BY <2>1, <2>2, <2>3 DEF NumberInv
<1>2. ASSUME NEW r \in recorded, NEW u \in Usages, Revise(r, u)
      PROVE  NumberInv'
    <2> DEFINE x == [r EXCEPT !.event.valid = u.valid,
                              !.event.tokens = u.tokens, !.event.cost = u.cost]
               e == [r.event EXCEPT !.valid = u.valid, !.tokens = u.tokens,
                                    !.cost = u.cost]
    <2>1. recorded' = recorded \cup {x}
        BY <1>2 DEF Revise
    <2>2. Truthful(r) /\ {"valid", "tokens", "cost"} \subseteq DOMAIN r.event
        BY DEF UsageInv, RecordInv, NumberInv
    <2>3. x.event = e
        BY <2>2 DEF Truthful
    <2>4. /\ DOMAIN e = DOMAIN r.event
          /\ e.valid = u.valid /\ e.tokens = u.tokens /\ e.cost = u.cost
        BY <2>2
    <2> HIDE DEF x, e
    <2>5. e.valid => Numbered(e)
        BY <2>4, UsagesAssumption DEF Numbered
    <2>6. QED
        BY <2>1, <2>2, <2>3, <2>4, <2>5 DEF NumberInv
<1>3. CASE recorded' = recorded
    BY <1>3 DEF NumberInv
<1>4. QED
    BY <1>1, <1>2, <1>3
       DEF Next, Start, HandOff, Receive, Arrive, vars, usageVars

LEMMA FactsFinite ==
    ASSUME UsageInv
    PROVE  IsFiniteSet(FactsIn(facts))
<1> DEFINE n == Len(arrived)
           I == {j \in 1..n : arrived[j] \in ArrivedFirst}
           F == [j \in I |-> arrived[j].event]
<1>1. n \in Nat
    BY DEF UsageInv, FactsInv
<1>2. IsFiniteSet(I)
    <2>1. IsFiniteSet(1..n) /\ I \in SUBSET (1..n)
        BY <1>1, FS_Interval
    <2> HIDE DEF I
    <2>2. QED
        BY <2>1, FS_Subset
<1>3. \A x \in ArrivedFirst : \E j \in I : x = arrived[j]
    BY DEF ArrivedFirst
<1>4. FactsIn(facts) = {x.event : x \in ArrivedFirst}
    BY DEF UsageInv, FactsInv
<1>5. F \in Surjection(I, FactsIn(facts))
    <2>1. F \in [I -> FactsIn(facts)]
        BY <1>4
    <2>2. \A e \in FactsIn(facts) : \E j \in I : F[j] = e
        BY <1>3, <1>4
    <2> HIDE DEF F, I
    <2>3. QED
        BY <2>1, <2>2 DEF Surjection
<1> HIDE DEF F, I
<1>6. QED
    BY <1>2, <1>5, FS_Surjection

LEMMA FactsAre ==
    ASSUME UsageInv, NumberInv, NEW e \in FactsIn(facts)
    PROVE  Numbered(e) /\ e.agent_id \in Agents
<1>1. PICK x \in ArrivedFirst : e = x.event
    BY DEF UsageInv, FactsInv
<1>2. x \in recorded /\ Leaf(x.event)
    BY DEF ArrivedFirst, UsageInv, FactsInv
<1>3. QED
    BY <1>1, <1>2 DEF NumberInv, Leaf, UsageInv, RecordInv, Truthful

-----------------------------------------------------------------------------
\* A rollup's totals as values of measures on the facts of a workflow.
PartOf(W, a) == {e \in W : e.agent_id = a}

\* mu is the measure of the tokens of a field.
TokenMeasure(mu, W, f) ==
    /\ Measure(mu, Observed(W, f))
    /\ \A X \in SUBSET W : OrZero(Summary(X), f) = mu[Observed(X, f)]
    /\ \A e \in Observed(W, f) : mu[{e}] = e.tokens[f]

LEMMA TokensMeasure ==
    ASSUME NEW W, IsFiniteSet(W), NEW f \in TokenFields,
           \A e \in W : Numbered(e)
    PROVE  \E mu : TokenMeasure(mu, W, f)
<1> DEFINE S == Observed(W, f)
           w == [e \in S |-> e.tokens[f]]
<1>1. S \in SUBSET W /\ IsFiniteSet(S)
    BY FS_Subset DEF Observed
<1>2. \A e \in S : e.tokens[f] \in Nat
    BY DEF Observed, Numbered
<1>3. w \in [S -> Nat]
    BY <1>2
<1> HIDE DEF w, S
<1>4. PICK mu : Adds(mu, w, S)
    BY <1>1, <1>3, SumExists
<1>5. Measure(mu, S)
    BY <1>1, <1>3, <1>4, SumIsMeasure
<1>6. ASSUME NEW X \in SUBSET W
      PROVE  OrZero(Summary(X), f) = mu[Observed(X, f)]
    <2> DEFINE T == Observed(X, f)
               v == [e \in T |-> e.tokens[f]]
    <2>1. T \in SUBSET S /\ IsFiniteSet(T)
        <3>1. T \in SUBSET S
            BY DEF S, Observed
        <3> HIDE DEF T
        <3>2. QED
            BY <1>1, <3>1, FS_Subset
    <2>2. OrZero(Summary(X), f) =
              IF T = {} THEN 0 ELSE TokensOf(f, T)
        BY DEF OrZero, Summary, TokensOf
    <2> HIDE DEF T
    <2>3. PICK h : /\ Adds(h, v, T)
                   /\ h[T] = TokensOf(f, T)
        BY <1>2, <2>1, TokensAdd
    <2>4. \A e \in T : v[e] = w[e]
        BY <2>1 DEF w
    <2> HIDE DEF v
    <2>5. h[T] = mu[T]
        BY <1>4, <2>1, <2>3, <2>4, SumsAgree
    <2>6. mu[{}] = 0
        BY <1>5 DEF Measure
    <2>7. QED
        BY <2>2, <2>3, <2>5, <2>6 DEF T
<1>7. ASSUME NEW e \in S
      PROVE  mu[{e}] = e.tokens[f]
    <2>1. mu[{e}] = w[e] + mu[{e} \ {e}]
        BY <1>1, <1>3, <1>4, SumStep
    <2>2. {e} \ {e} = {} /\ mu[{}] = 0
        BY <1>5 DEF Measure
    <2>3. w[e] = e.tokens[f] /\ w[e] \in Nat
        BY <1>3 DEF w
    <2>4. QED
        BY <2>1, <2>2, <2>3
<1>8. TokenMeasure(mu, W, f)
    BY <1>5, <1>6, <1>7 DEF S, TokenMeasure
<1>9. QED
    BY <1>8

LEMMA CostsMeasure ==
    ASSUME NEW W, IsFiniteSet(W), \A e \in W : Numbered(e)
    PROVE  \E mu : /\ Measure(mu, Costed(W))
                   /\ \A X \in SUBSET W : Summary(X).cost = mu[Costed(X)]
<1> DEFINE S == Costed(W)
           w == [e \in S |-> e.cost.amount]
<1>1. S \in SUBSET W /\ IsFiniteSet(S)
    BY FS_Subset DEF Costed
<1>2. \A e \in S : e.cost.amount \in Nat
    BY DEF Costed, Numbered
<1>3. w \in [S -> Nat]
    BY <1>2
<1> HIDE DEF w, S
<1>4. PICK mu : Adds(mu, w, S)
    BY <1>1, <1>3, SumExists
<1>5. Measure(mu, S)
    BY <1>1, <1>3, <1>4, SumIsMeasure
<1>6. ASSUME NEW X \in SUBSET W
      PROVE  Summary(X).cost = mu[Costed(X)]
    <2> DEFINE T == Costed(X)
               v == [e \in T |-> e.cost.amount]
    <2>1. T \in SUBSET S /\ IsFiniteSet(T)
        <3>1. T \in SUBSET S
            BY DEF S, Costed
        <3> HIDE DEF T
        <3>2. QED
            BY <1>1, <3>1, FS_Subset
    <2>2. Summary(X).cost = CostsOf(T)
        BY DEF Summary, CostsOf
    <2> HIDE DEF T
    <2>3. PICK h : /\ Adds(h, v, T)
                   /\ h[T] = CostsOf(T)
        BY <1>2, <2>1, CostsAdd
    <2>4. \A e \in T : v[e] = w[e]
        BY <2>1 DEF w
    <2> HIDE DEF v
    <2>5. h[T] = mu[T]
        BY <1>4, <2>1, <2>3, <2>4, SumsAgree
    <2>6. QED
        BY <2>2, <2>3, <2>5 DEF T
<1>7. QED
    BY <1>5, <1>6 DEF S

\* The parts of any set of facts that are told apart by their agents.
LEMMA AgentsSum ==
    ASSUME NEW S, \A e \in S : e.agent_id \in Agents,
           NEW mu, Measure(mu, S),
           NEW n, n = [a \in Agents |-> mu[PartOf(S, a)]]
    PROVE  mu[S] = Total(n, Agents)
<1> DEFINE part == [a \in Agents |-> PartOf(S, a)]
<1>1. part \in [Agents -> SUBSET S]
    BY DEF PartOf
<1>2. UNION {part[a] : a \in Agents} = S
    BY DEF PartOf
<1>3. \A a, b \in Agents : a # b => part[a] \cap part[b] = {}
    BY DEF PartOf
<1>4. n = [a \in Agents |-> mu[part[a]]]
    OBVIOUS
<1> HIDE DEF part
<1>5. QED
    BY <1>1, <1>2, <1>3, <1>4, UsagesAssumption, PartsSum

LEMMA CountsSum ==
    ASSUME NEW S, IsFiniteSet(S), \A e \in S : e.agent_id \in Agents,
           NEW n, n = [a \in Agents |-> Cardinality(PartOf(S, a))]
    PROVE  Cardinality(S) = Total(n, Agents)
<1> DEFINE mu == [A \in SUBSET S |-> Cardinality(A)]
<1>1. Measure(mu, S)
    BY CountIsMeasure
<1>2. \A a \in Agents : PartOf(S, a) \in SUBSET S
    BY DEF PartOf
<1>3. n = [a \in Agents |-> mu[PartOf(S, a)]]
    BY <1>2
<1>4. mu[S] = Cardinality(S)
    OBVIOUS
<1> HIDE DEF mu
<1>5. mu[S] = Total(n, Agents)
    BY <1>1, <1>3, AgentsSum
<1>6. QED
    BY <1>4, <1>5

LEMMA FewerCurrencies ==
    ASSUME NEW W, IsFiniteSet(W), NEW X \in SUBSET W,
           Cardinality(Currencies(W)) <= 1
    PROVE  Cardinality(Currencies(X)) <= 1
<1> DEFINE F == [e \in Costed(W) |-> e.cost.currency]
<1>1. IsFiniteSet(Costed(W))
    BY FS_Subset DEF Costed
<1>2. F \in Surjection(Costed(W), Currencies(W))
    BY DEF Surjection, Currencies
<1> HIDE DEF F
<1>3. IsFiniteSet(Currencies(W))
    BY <1>1, <1>2, FS_Surjection
<1>4. Currencies(X) \in SUBSET Currencies(W)
    BY DEF Currencies, Costed
<1>5. /\ Cardinality(Currencies(X)) <= Cardinality(Currencies(W))
      /\ Cardinality(Currencies(X)) \in Nat /\ Cardinality(Currencies(W)) \in Nat
    BY <1>3, <1>4, FS_Subset, FS_CardinalityType
<1>6. QED
    BY <1>5

LEMMA RollupsAddUp == UsageInv /\ NumberInv => AgentsAddUp
<1> SUFFICES ASSUME UsageInv, NumberInv, NEW r \in Runs,
                    Rollable(facts, WorkflowAsk(r))
             PROVE  LET whole   == rollup(facts, WorkflowAsk(r))
                        part(a) == rollup(facts, AgentAsk(r, a))
                        Sum(n)  == Total(n, Agents)
                    IN  /\ \A a \in Agents :
                               \/ part(a).event_count = 0
                               \/ Rollable(facts, AgentAsk(r, a))
                        /\ whole.event_count =
                               Sum([a \in Agents |-> part(a).event_count])
                        /\ whole.cost = Sum([a \in Agents |-> part(a).cost])
                        /\ \A f \in TokenFields :
                               /\ OrZero(whole, f) =
                                      Sum([a \in Agents |-> OrZero(part(a), f)])
                               /\ whole.token_coverage[f] =
                                      Sum([a \in Agents |->
                                              part(a).token_coverage[f]])
    BY DEF AgentsAddUp
<1> DEFINE W == Matches(facts, WorkflowAsk(r))
           Sum(n) == Total(n, Agents)
<1>1. W \in SUBSET FactsIn(facts)
    BY DEF Matches
<1>2. IsFiniteSet(W)
    BY <1>1, FactsFinite, FS_Subset
<1>3. \A e \in W : Numbered(e) /\ e.agent_id \in Agents
    BY <1>1, FactsAre
<1>4. \A a \in Agents : Matches(facts, AgentAsk(r, a)) = PartOf(W, a)
    BY DEF Matches, AgentAsk, WorkflowAsk, PartOf
<1>5. Cardinality(Currencies(W)) <= 1
    BY DEF Rollable
<1> HIDE DEF W
<1>6. \A a \in Agents : PartOf(W, a) \in SUBSET W
    BY DEF PartOf
<1>7. /\ rollup(facts, WorkflowAsk(r)) = Summary(W)
      /\ \A a \in Agents : rollup(facts, AgentAsk(r, a)) = Summary(PartOf(W, a))
    BY <1>4 DEF rollup, W
<1>8. ASSUME NEW a \in Agents
      PROVE  \/ rollup(facts, AgentAsk(r, a)).event_count = 0
             \/ Rollable(facts, AgentAsk(r, a))
    <2>1. rollup(facts, AgentAsk(r, a)).event_count = Cardinality(PartOf(W, a))
        <3>1. Summary(PartOf(W, a)).event_count = Cardinality(PartOf(W, a))
            BY DEF Summary
        <3>2. QED
            BY <1>7, <3>1
    <2>2. CASE PartOf(W, a) = {}
        BY <2>1, <2>2, FS_EmptySet
    <2>3. CASE PartOf(W, a) # {}
        <3>1. Cardinality(Currencies(PartOf(W, a))) <= 1
            BY <1>2, <1>5, <1>6, FewerCurrencies
        <3>2. QED
            BY <1>4, <2>3, <3>1 DEF Rollable, AgentAsk
    <2>4. QED
        BY <2>2, <2>3
<1>9. Summary(W).event_count =
          Sum([a \in Agents |-> Summary(PartOf(W, a)).event_count])
    <2> DEFINE n == [a \in Agents |-> Cardinality(PartOf(W, a))]
    <2>1. n = [a \in Agents |-> Summary(PartOf(W, a)).event_count]
        BY DEF Summary
    <2>2. Summary(W).event_count = Cardinality(W)
        BY DEF Summary
    <2>3. Cardinality(W) = Sum(n)
        BY <1>2, <1>3, CountsSum
    <2>4. QED
        BY <2>1, <2>2, <2>3
<1>10. Summary(W).cost = Sum([a \in Agents |-> Summary(PartOf(W, a)).cost])
    <2>1. PICK mu : /\ Measure(mu, Costed(W))
                    /\ \A X \in SUBSET W : Summary(X).cost = mu[Costed(X)]
        BY <1>2, <1>3, CostsMeasure
    <2> DEFINE n == [a \in Agents |-> mu[PartOf(Costed(W), a)]]
    <2>2. \A a \in Agents : Costed(PartOf(W, a)) = PartOf(Costed(W), a)
        BY DEF Costed, PartOf
    <2>3. n = [a \in Agents |-> Summary(PartOf(W, a)).cost]
        BY <1>6, <2>1, <2>2
    <2>4. Summary(W).cost = mu[Costed(W)]
        BY <2>1
    <2>5. \A e \in Costed(W) : e.agent_id \in Agents
        BY <1>3 DEF Costed
    <2>6. mu[Costed(W)] = Sum(n)
        BY <2>1, <2>5, AgentsSum
    <2>7. QED
        BY <2>3, <2>4, <2>6
<1>11. ASSUME NEW f \in TokenFields
       PROVE  /\ OrZero(Summary(W), f) =
                     Sum([a \in Agents |-> OrZero(Summary(PartOf(W, a)), f)])
              /\ Summary(W).token_coverage[f] =
                     Sum([a \in Agents |->
                             Summary(PartOf(W, a)).token_coverage[f]])
    <2>1. \A a \in Agents : Observed(PartOf(W, a), f) = PartOf(Observed(W, f), a)
        BY DEF Observed, PartOf
    <2>2. \A e \in Observed(W, f) : e.agent_id \in Agents
        BY <1>3 DEF Observed
    <2>3. OrZero(Summary(W), f) =
              Sum([a \in Agents |-> OrZero(Summary(PartOf(W, a)), f)])
        <3>1. PICK mu : /\ Measure(mu, Observed(W, f))
                        /\ \A X \in SUBSET W :
                               OrZero(Summary(X), f) = mu[Observed(X, f)]
            BY <1>2, <1>3, TokensMeasure DEF TokenMeasure
        <3> DEFINE n == [a \in Agents |-> mu[PartOf(Observed(W, f), a)]]
        <3>2. n = [a \in Agents |-> OrZero(Summary(PartOf(W, a)), f)]
            BY <1>6, <2>1, <3>1
        <3>3. OrZero(Summary(W), f) = mu[Observed(W, f)]
            BY <3>1
        <3>4. mu[Observed(W, f)] = Sum(n)
            BY <2>2, <3>1, AgentsSum
        <3>5. QED
            BY <3>2, <3>3, <3>4
    <2>4. Summary(W).token_coverage[f] =
              Sum([a \in Agents |-> Summary(PartOf(W, a)).token_coverage[f]])
        <3> DEFINE n == [a \in Agents |-> Cardinality(PartOf(Observed(W, f), a))]
        <3>1. n = [a \in Agents |-> Summary(PartOf(W, a)).token_coverage[f]]
            BY <2>1 DEF Summary
        <3>2. Summary(W).token_coverage[f] = Cardinality(Observed(W, f))
            BY DEF Summary
        <3>3. IsFiniteSet(Observed(W, f))
            BY <1>2, FS_Subset DEF Observed
        <3>4. Cardinality(Observed(W, f)) = Sum(n)
            BY <2>2, <3>3, CountsSum
        <3>5. QED
            BY <3>1, <3>2, <3>4
    <2>5. QED
        BY <2>3, <2>4
<1>12. /\ [a \in Agents |-> rollup(facts, AgentAsk(r, a)).event_count] =
              [a \in Agents |-> Summary(PartOf(W, a)).event_count]
       /\ [a \in Agents |-> rollup(facts, AgentAsk(r, a)).cost] =
              [a \in Agents |-> Summary(PartOf(W, a)).cost]
       /\ \A f \in TokenFields :
              /\ [a \in Agents |-> OrZero(rollup(facts, AgentAsk(r, a)), f)] =
                     [a \in Agents |-> OrZero(Summary(PartOf(W, a)), f)]
              /\ [a \in Agents |-> rollup(facts, AgentAsk(r, a)).token_coverage[f]]
                     = [a \in Agents |-> Summary(PartOf(W, a)).token_coverage[f]]
    BY <1>7
<1>13. QED
    BY <1>7, <1>8, <1>9, <1>10, <1>11, <1>12

\* Where a workflow is rolled up, so is every agent with a part in it, and their
\* events, costs, tokens and coverage add up to the workflow's.
THEOREM AgentsAddUpAlways == Spec => []AgentsAddUp
<1>1. Init => NumberInv
    BY DEF Init, NumberInv
<1>2. Spec => []NumberInv
    BY <1>1, UsageAlways, NextNumbers, PTL DEF Spec
<1>3. QED
    BY <1>2, UsageAlways, RollupsAddUp, PTL

-----------------------------------------------------------------------------
\* JavaScript numbers: small sums are exact, and no sum past the largest safe
\* integer is rounded back to it.
Turn(g, n) == IF n <= MaxSafe + 1 THEN 1 ELSE 2 * g[(n + 1) \div 2]

\* g is the spacing of the numbers to m.
SpacingTo(m, g) == g \in [0..m -> Nat] /\ \A n \in 0..m : g[n] = Turn(g, n)

LEMMA HalfIsLess ==
    ASSUME NEW n \in Nat, n > MaxSafe + 1
    PROVE  (n + 1) \div 2 \in 0..(n - 1)
BY MaxSafeAssumption

LEMMA SpacingGrows ==
    ASSUME NEW m \in Nat, NEW g, SpacingTo(m, g)
    PROVE  \E h : SpacingTo(m + 1, h)
<1> DEFINE h == [n \in 0..(m + 1) |-> Turn(g, n)]
<1>1. ASSUME NEW n \in 0..(m + 1), n > MaxSafe + 1
      PROVE  (n + 1) \div 2 \in 0..m
    BY <1>1, HalfIsLess
<1>2. ASSUME NEW n \in 0..(m + 1)
      PROVE  Turn(g, n) \in Nat
    <2>1. CASE n <= MaxSafe + 1
        BY <2>1 DEF Turn
    <2>2. CASE n > MaxSafe + 1
        <3>1. g[(n + 1) \div 2] \in Nat
            BY <1>1, <2>2 DEF SpacingTo
        <3>2. Turn(g, n) = 2 * g[(n + 1) \div 2]
            BY <2>2, MaxSafeAssumption DEF Turn
        <3>3. QED
            BY <3>1, <3>2
    <2>3. QED
        BY <2>1, <2>2, MaxSafeAssumption
<1>3. h \in [0..(m + 1) -> Nat]
    BY <1>2
<1>4. \A n \in 0..m : n \in 0..(m + 1)
    OBVIOUS
<1>5. \A n \in 0..m : h[n] = g[n]
    BY <1>4 DEF SpacingTo
<1>6. ASSUME NEW n \in 0..(m + 1)
      PROVE  h[n] = Turn(h, n)
    <2>1. n > MaxSafe + 1 => h[(n + 1) \div 2] = g[(n + 1) \div 2]
        BY <1>1, <1>5
    <2>2. n <= MaxSafe + 1 \/ n > MaxSafe + 1
        BY MaxSafeAssumption
    <2>3. QED
        BY <2>1, <2>2 DEF Turn
<1> HIDE DEF h
<1>7. QED
    BY <1>3, <1>6 DEF SpacingTo

LEMMA SpacingToExists ==
    ASSUME NEW m \in Nat
    PROVE  \E g : SpacingTo(m, g)
<1> DEFINE Without == {k \in Nat : ~\E g : SpacingTo(k, g)}
<1> SUFFICES ASSUME Without # {}
             PROVE  FALSE
    OBVIOUS
<1>1. SpacingTo(0, [n \in 0..0 |-> 1])
    BY MaxSafeAssumption DEF SpacingTo, Turn
<1>2. PICK k \in Without : \A j \in Without : k <= j
    <2>1. Without \in SUBSET Nat
        OBVIOUS
    <2> HIDE DEF Without
    <2>2. QED
        BY <2>1, LeastNumber
<1>3. k # 0
    BY <1>1
<1>4. k - 1 \in Nat /\ k - 1 \notin Without
    BY <1>2, <1>3
<1>5. PICK g : SpacingTo(k - 1, g)
    BY <1>4
<1>6. \E h : SpacingTo((k - 1) + 1, h)
    BY <1>4, <1>5, SpacingGrows
<1>7. (k - 1) + 1 = k
    BY <1>4
<1>8. QED
    BY <1>6, <1>7

LEMMA SpacingToAgrees ==
    ASSUME NEW m \in Nat, NEW g, SpacingTo(m, g),
           NEW k \in Nat, NEW h, SpacingTo(k, h), NEW n \in 0..m, n <= k
    PROVE  g[n] = h[n]
<1> DEFINE Bad == {j \in Nat : j <= m /\ j <= k /\ g[j] # h[j]}
<1> SUFFICES ASSUME Bad # {}
             PROVE  FALSE
    OBVIOUS
<1>1. PICK j \in Bad : \A i \in Bad : j <= i
    <2>1. Bad \in SUBSET Nat
        OBVIOUS
    <2> HIDE DEF Bad
    <2>2. QED
        BY <2>1, LeastNumber
<1>2. g[j] = Turn(g, j) /\ h[j] = Turn(h, j) /\ g[j] # h[j]
    BY DEF SpacingTo
<1>3. j > MaxSafe + 1
    BY <1>2, MaxSafeAssumption DEF Turn
<1>4. (j + 1) \div 2 \in 0..(j - 1)
    BY <1>3, HalfIsLess
<1>5. g[(j + 1) \div 2] = h[(j + 1) \div 2]
    BY <1>1, <1>4
<1>6. QED
    BY <1>2, <1>5 DEF Turn

LEMMA SpacingIs ==
    /\ Spacing \in [Nat -> Nat]
    /\ \A n \in Nat : Spacing[n] = Turn(Spacing, n)
<1> DEFINE To(m) == CHOOSE g : SpacingTo(m, g)
           G == [n \in Nat |-> To(n)[n]]
<1>1. \A m \in Nat : SpacingTo(m, To(m))
    BY SpacingToExists
<1> HIDE DEF To
<1>2. ASSUME NEW n \in Nat
      PROVE  G[n] \in Nat /\ G[n] = Turn(G, n)
    <2>1. n \in 0..n
        OBVIOUS
    <2>2. To(n)[n] \in Nat /\ To(n)[n] = Turn(To(n), n)
        BY <1>1, <2>1 DEF SpacingTo
    <2>3. n > MaxSafe + 1 => G[(n + 1) \div 2] = To(n)[(n + 1) \div 2]
        <3> SUFFICES ASSUME n > MaxSafe + 1
                     PROVE  G[(n + 1) \div 2] = To(n)[(n + 1) \div 2]
            OBVIOUS
        <3> DEFINE k == (n + 1) \div 2
        <3>1. k \in 0..(n - 1)
            BY HalfIsLess
        <3>2. k \in Nat /\ k \in 0..k /\ k <= n
            BY <3>1
        <3> HIDE DEF k
        <3>3. To(k)[k] = To(n)[k]
            BY <1>1, <3>2, SpacingToAgrees
        <3>4. QED
            BY <3>2, <3>3 DEF k
    <2>4. n <= MaxSafe + 1 \/ n > MaxSafe + 1
        BY MaxSafeAssumption
    <2>5. Turn(G, n) = Turn(To(n), n)
        BY <2>3, <2>4 DEF Turn
    <2>6. QED
        BY <2>2, <2>5
<1>3. G \in [Nat -> Nat]
    BY <1>2
<1>4. G = [n \in Nat |->
              IF n <= MaxSafe + 1 THEN 1 ELSE 2 * G[(n + 1) \div 2]]
    <2> DEFINE H == [n \in Nat |->
                        IF n <= MaxSafe + 1 THEN 1 ELSE 2 * G[(n + 1) \div 2]]
    <2>1. \A n \in Nat : G[n] = H[n]
        BY <1>2 DEF Turn
    <2>2. QED
        BY <2>1
<1>5. Spacing = [n \in Nat |->
                    IF n <= MaxSafe + 1 THEN 1 ELSE 2 * Spacing[(n + 1) \div 2]]
    <2> HIDE DEF G
    <2>1. QED
        BY <1>4 DEF Spacing
<1>6. \A n \in Nat : Spacing[n] = Turn(Spacing, n)
    BY <1>5 DEF Turn
<1> DEFINE Bad == {n \in Nat : Spacing[n] \notin Nat}
<1>7. Bad = {}
    <2> SUFFICES ASSUME Bad # {}
                 PROVE  FALSE
        OBVIOUS
    <2>1. PICK n \in Bad : \A k \in Bad : n <= k
        <3>1. Bad \in SUBSET Nat
            OBVIOUS
        <3> HIDE DEF Bad
        <3>2. QED
            BY <3>1, LeastNumber
    <2>2. n > MaxSafe + 1
        BY <1>6, MaxSafeAssumption DEF Turn
    <2>3. (n + 1) \div 2 \in 0..(n - 1)
        BY <2>2, HalfIsLess
    <2>4. Spacing[(n + 1) \div 2] \in Nat
        BY <2>1, <2>3
    <2>5. Spacing[n] = 2 * Spacing[(n + 1) \div 2]
        BY <1>6, <2>2, MaxSafeAssumption DEF Turn
    <2>6. QED
        BY <2>4, <2>5
<1>8. QED
    BY <1>5, <1>6, <1>7

\* Past the largest safe integer the spacing is even, and half of it, as often as
\* there are safe integers, lies below.
EvenSpacing(n) ==
    \E h \in Nat : h > 0 /\ Spacing[n] = 2 * h /\ h * (MaxSafe + 1) < n

LEMMA SpacingIsEven ==
    ASSUME NEW n \in Nat, n > MaxSafe + 1
    PROVE  EvenSpacing(n)
<1> DEFINE Bad == {k \in Nat : k > MaxSafe + 1 /\ ~EvenSpacing(k)}
<1> SUFFICES ASSUME Bad # {}
             PROVE  FALSE
    OBVIOUS
<1>1. PICK k \in Bad : \A j \in Bad : k <= j
    <2>1. Bad \in SUBSET Nat
        OBVIOUS
    <2> HIDE DEF Bad
    <2>2. QED
        BY <2>1, LeastNumber
<1>2. k \in Nat /\ k > MaxSafe + 1 /\ ~EvenSpacing(k)
    OBVIOUS
<1> DEFINE j == (k + 1) \div 2
<1>3. j \in 0..(k - 1) /\ 2 * j <= k + 1
    BY <1>2, HalfIsLess
<1>4. Spacing[k] = 2 * Spacing[j]
    BY <1>2, SpacingIs, MaxSafeAssumption DEF Turn
<1>5. j \in Nat /\ Spacing[j] \in Nat
    BY <1>3, SpacingIs
<1> HIDE DEF j
<1>6. CASE j <= MaxSafe + 1
    <2>1. Spacing[j] = 1
        BY <1>5, <1>6, SpacingIs DEF Turn
    <2>2. Spacing[k] = 2 * 1 /\ 1 * (MaxSafe + 1) < k
        BY <1>2, <1>4, <2>1, MaxSafeAssumption
    <2>3. QED
        BY <1>2, <2>2 DEF EvenSpacing
<1>7. CASE j > MaxSafe + 1
    <2>1. EvenSpacing(j)
        BY <1>1, <1>3, <1>5, <1>7
    <2>2. PICK h \in Nat : h > 0 /\ Spacing[j] = 2 * h /\ h * (MaxSafe + 1) < j
        BY <2>1 DEF EvenSpacing
    <2>3. (2 * h) * (MaxSafe + 1) = 2 * (h * (MaxSafe + 1))
        BY MaxSafeAssumption
    <2>4. h * (MaxSafe + 1) \in Nat
        BY MaxSafeAssumption
    <2>5. 2 * (h * (MaxSafe + 1)) < k
        BY <1>2, <1>3, <1>5, <2>2, <2>4
    <2>6. 2 * h \in Nat /\ 2 * h > 0
        BY <2>2
    <2>7. QED
        BY <1>2, <1>4, <2>2, <2>3, <2>5, <2>6 DEF EvenSpacing
<1>8. QED
    BY <1>5, <1>6, <1>7, MaxSafeAssumption

LEMMA SmallIsExact ==
    ASSUME NEW n \in Nat, n <= MaxSafe + 1
    PROVE  Rounded(n) = n
<1>1. Spacing[n] = 1
    BY SpacingIs DEF Turn
<1>2. n % 1 = 0
    OBVIOUS
<1>3. QED
    BY <1>1, <1>2 DEF Rounded

LEMMA LargeStaysLarge ==
    ASSUME NEW n \in Nat, n > MaxSafe + 1
    PROVE  Rounded(n) \in Nat /\ Rounded(n) > MaxSafe
<1>1. PICK h \in Nat : h > 0 /\ Spacing[n] = 2 * h /\ h * (MaxSafe + 1) < n
    BY SpacingIsEven DEF EvenSpacing
<1> DEFINE s == 2 * h
           q == n \div s
           rest == n % s
           c == (MaxSafe + 1) \div 2
<1>2. s \in Nat /\ s > 0 /\ h \in Nat
    BY <1>1
<1>3. c \in Nat /\ MaxSafe + 1 = 2 * c
    BY MaxSafeAssumption
<1> HIDE DEF s, c
<1>4. n = s * q + rest /\ q \in Nat /\ rest \in 0..(s - 1)
    BY <1>2
<1> HIDE DEF q, rest
<1>5. s * c = h * (MaxSafe + 1)
    BY <1>2, <1>3 DEF s
<1>6. s * c < n
    BY <1>1, <1>5
<1>7. q >= c
    <2> SUFFICES ASSUME q < c
                 PROVE  FALSE
        BY <1>3, <1>4
    <2>1. q + 1 <= c
        BY <1>3, <1>4
    <2>2. s * (q + 1) <= s * c
        BY <1>2, <1>3, <1>4, <2>1
    <2>3. s * (q + 1) = s * q + s
        BY <1>2, <1>4
    <2>4. s * q \in Nat /\ s * c \in Nat
        BY <1>2, <1>3, <1>4
    <2>5. QED
        BY <1>2, <1>4, <1>6, <2>2, <2>3, <2>4
<1>8. s * q >= s * c
    BY <1>2, <1>3, <1>4, <1>7
<1>9. h * (MaxSafe + 1) >= MaxSafe + 1
    <2>1. h >= 1 /\ MaxSafe + 1 \in Nat
        BY <1>1, MaxSafeAssumption
    <2>2. QED
        BY <2>1
<1>10. s * q \in Nat /\ s * c \in Nat
    BY <1>2, <1>3, <1>4
<1>11. n - rest \in Nat /\ n - rest > MaxSafe
    BY <1>4, <1>5, <1>8, <1>9, <1>10, MaxSafeAssumption
<1>12. Rounded(n) = n - rest \/ Rounded(n) = n - rest + s
    BY <1>1 DEF Rounded, rest, s
<1>13. QED
    BY <1>2, <1>11, <1>12, MaxSafeAssumption

-----------------------------------------------------------------------------
\* The total of a TypeScript rollup, event by event.
TotalTurn(ms, f, g, i) ==
    IF i = 0 THEN 0
    ELSE IF f \in DOMAIN ms[i].tokens THEN Rounded(g[i - 1] + ms[i].tokens[f])
         ELSE g[i - 1]

TotalsTo(ms, f, m, g) == g = [i \in 0..m |-> TotalTurn(ms, f, g, i)]

LEMMA TotalsExist ==
    ASSUME NEW ms, NEW f, NEW m \in Nat
    PROVE  \E g : TotalsTo(ms, f, m, g)
<1> DEFINE Without == {k \in Nat : ~\E g : TotalsTo(ms, f, k, g)}
<1> SUFFICES ASSUME Without # {}
             PROVE  FALSE
    OBVIOUS
<1>1. PICK k \in Without : \A j \in Without : k <= j
    <2>1. Without \in SUBSET Nat
        OBVIOUS
    <2> HIDE DEF Without
    <2>2. QED
        BY <2>1, LeastNumber
<1>2. k # 0
    <2>1. TotalsTo(ms, f, 0, [i \in 0..0 |-> 0])
        BY DEF TotalsTo, TotalTurn
    <2>2. QED
        BY <2>1
<1>3. k - 1 \in Nat /\ k - 1 \notin Without
    BY <1>1, <1>2
<1>4. PICK g : TotalsTo(ms, f, k - 1, g)
    BY <1>3
<1> DEFINE h == [i \in 0..k |-> TotalTurn(ms, f, g, i)]
<1>5. \A i \in 0..(k - 1) : h[i] = g[i]
    BY <1>4 DEF TotalsTo
<1>6. \A i \in 0..k : h[i] = TotalTurn(ms, f, h, i)
    <2> SUFFICES ASSUME NEW i \in 0..k
                 PROVE  h[i] = TotalTurn(ms, f, h, i)
        OBVIOUS
    <2>1. i # 0 => h[i - 1] = g[i - 1]
        BY <1>5
    <2>2. TotalTurn(ms, f, h, i) = TotalTurn(ms, f, g, i)
        <3> HIDE DEF h
        <3>1. QED
            BY <2>1 DEF TotalTurn
    <2>3. QED
        BY <2>2
<1>7. TotalsTo(ms, f, k, h)
    BY <1>6 DEF TotalsTo
<1>8. QED
    BY <1>7

LEMMA TotalIs ==
    ASSUME NEW ms, NEW f, Len(ms) \in Nat
    PROVE  \E t : /\ TsTotal(ms, f) = t[Len(ms)]
                  /\ \A i \in 0..Len(ms) : t[i] = TotalTurn(ms, f, t, i)
<1> DEFINE n == Len(ms)
           t == CHOOSE g : g = [i \in 0..n |->
                    IF i = 0 THEN 0
                    ELSE IF f \in DOMAIN ms[i].tokens
                         THEN Rounded(g[i - 1] + ms[i].tokens[f])
                         ELSE g[i - 1]]
<1>1. PICK g : TotalsTo(ms, f, n, g)
    BY TotalsExist
<1>2. TotalsTo(ms, f, n, t)
    BY <1>1 DEF TotalsTo, TotalTurn
<1>3. TsTotal(ms, f) = t[n]
    BY Zenon DEF TsTotal
<1> HIDE DEF t
<1>4. \A i \in 0..n : t[i] = TotalTurn(ms, f, t, i)
    BY <1>2 DEF TotalsTo
<1>5. QED
    BY <1>3, <1>4

\* An order of a set lists each of its elements once.
LEMMA OrderIs ==
    ASSUME NEW W, IsFiniteSet(W), NEW ms \in SetToSeqs(W)
    PROVE  /\ Len(ms) = Cardinality(W) /\ Len(ms) \in Nat
           /\ ms \in [1..Len(ms) -> W]
           /\ \A i, j \in 1..Len(ms) : i # j => ms[i] # ms[j]
           /\ ToSet(ms) = W
<1> DEFINE n == Cardinality(W)
<1>1. n \in Nat
    BY FS_CardinalityType
<1>2. ms \in [1..n -> W] /\ \A i, j \in 1..n : i # j => ms[i] # ms[j]
    BY DEF SetToSeqs
<1> HIDE DEF n
<1>3. Len(ms) = n
    BY <1>1, <1>2
<1>4. ms \in Injection(1..n, W)
    BY <1>2 DEF Injection, IsInjective
<1>5. Cardinality(1..n) = n /\ IsFiniteSet(1..n)
    BY <1>1, FS_Interval
<1>6. ms \in Surjection(1..n, W)
    BY <1>4, <1>5, FS_Injection DEF n
<1>7. ToSet(ms) = W
    BY <1>2, <1>6 DEF ToSet, Surjection
<1>8. QED
    BY <1>1, <1>2, <1>3, <1>7 DEF n

\* Rounded sums are exact as long as they are safe, and past it they stay past it.
LEMMA TotalsFollow ==
    ASSUME NEW W, IsFiniteSet(W), NEW f \in TokenFields,
           \A e \in W : Numbered(e), NEW ms \in SetToSeqs(W)
    PROVE  /\ OrZero(Summary(W), f) \in Nat /\ TsTotal(ms, f) \in Nat
           /\ OrZero(Summary(W), f) <= MaxSafe =>
                  TsTotal(ms, f) = OrZero(Summary(W), f)
           /\ OrZero(Summary(W), f) > MaxSafe => TsTotal(ms, f) > MaxSafe
<1> DEFINE n == Len(ms)
           S == Observed(W, f)
           Before(i) == {ms[j] : j \in 1..i}
           Seen(i) == Observed(Before(i), f)
<1>1. /\ n \in Nat /\ ms \in [1..n -> W]
      /\ \A i, j \in 1..n : i # j => ms[i] # ms[j]
      /\ ToSet(ms) = W
    BY OrderIs
<1>2. PICK t : /\ TsTotal(ms, f) = t[n]
               /\ \A i \in 0..n : t[i] = TotalTurn(ms, f, t, i)
    BY <1>1, TotalIs
<1>3. PICK mu : /\ Measure(mu, S)
                /\ \A X \in SUBSET W : OrZero(Summary(X), f) = mu[Observed(X, f)]
                /\ \A e \in S : mu[{e}] = e.tokens[f]
    <2>1. PICK mu : TokenMeasure(mu, W, f)
        BY TokensMeasure
    <2>2. QED
        BY <2>1 DEF TokenMeasure
<1> HIDE DEF n
<1>4. Before(n) = W
    BY <1>1 DEF ToSet, n
<1>5. OrZero(Summary(W), f) = mu[Seen(n)]
    BY <1>3, <1>4
<1>6. ASSUME NEW i \in 0..n
      PROVE  Seen(i) \in SUBSET S /\ mu[Seen(i)] \in Nat
    <2>1. Seen(i) \in SUBSET S
        BY <1>1 DEF Observed
    <2> HIDE DEF Seen, S
    <2>2. QED
        BY <1>3, <2>1 DEF Measure
<1>7. mu[Seen(0)] = 0
    <2>1. Seen(0) = {}
        BY DEF Observed
    <2>2. QED
        BY <1>3, <2>1 DEF Measure
<1>8. ASSUME NEW i \in 1..n
      PROVE  IF f \in DOMAIN ms[i].tokens
             THEN /\ ms[i].tokens[f] \in Nat
                  /\ mu[Seen(i)] = mu[Seen(i - 1)] + ms[i].tokens[f]
             ELSE mu[Seen(i)] = mu[Seen(i - 1)]
    <2>1. Before(i) = Before(i - 1) \cup {ms[i]} /\ ms[i] \notin Before(i - 1)
        <3>1. 1..i = (1..(i - 1)) \cup {i} /\ i \notin 1..(i - 1)
            BY <1>1
        <3>2. \A j \in 1..(i - 1) : j \in 1..n /\ j # i
            BY <1>1
        <3>3. QED
            BY <1>1, <3>1, <3>2
    <2>2. ms[i] \in W
        BY <1>1
    <2> HIDE DEF Before
    <2>3. CASE f \in DOMAIN ms[i].tokens
        <3>1. ms[i] \in S
            BY <2>2, <2>3 DEF Observed
        <3>2. Seen(i) = Seen(i - 1) \cup {ms[i]} /\ Seen(i - 1) \cap {ms[i]} = {}
            BY <2>1, <2>3 DEF Observed
        <3>3. Seen(i - 1) \in SUBSET S /\ {ms[i]} \in SUBSET S
            BY <1>1, <1>6, <3>1
        <3>4. ms[i].tokens[f] \in Nat
            BY <2>2, <2>3 DEF Numbered
        <3>5. mu[{ms[i]}] = ms[i].tokens[f]
            BY <1>3, <3>1
        <3> HIDE DEF Seen, S
        <3>6. mu[Seen(i)] = mu[Seen(i - 1)] + mu[{ms[i]}]
            BY <1>3, <3>2, <3>3 DEF Measure
        <3>7. QED
            BY <2>3, <3>4, <3>5, <3>6
    <2>4. CASE f \notin DOMAIN ms[i].tokens
        <3>1. Seen(i) = Seen(i - 1)
            BY <2>1, <2>4 DEF Observed
        <3>2. QED
            BY <2>4, <3>1
    <2>5. QED
        BY <2>3, <2>4
<1> HIDE DEF Seen, Before, S
<1> DEFINE Follows(i) == /\ t[i] \in Nat
                         /\ mu[Seen(i)] <= MaxSafe => t[i] = mu[Seen(i)]
                         /\ mu[Seen(i)] > MaxSafe => t[i] > MaxSafe
           Bad == {i \in 0..n : ~Follows(i)}
<1>9. Follows(0)
    <2>1. 0 \in 0..n
        BY <1>1
    <2>2. t[0] = 0
        BY <1>2, <2>1 DEF TotalTurn
    <2>3. QED
        BY <1>7, <2>2, MaxSafeAssumption
<1>10. ASSUME NEW i \in 1..n, Follows(i - 1)
       PROVE  Follows(i)
    <2> DEFINE exact == mu[Seen(i)]
               before == mu[Seen(i - 1)]
    <2>1. i - 1 \in 0..n /\ i \in 0..n /\ i # 0
        BY <1>1
    <2>2. exact \in Nat /\ before \in Nat
        BY <1>6, <2>1
    <2>3. t[i] = TotalTurn(ms, f, t, i)
        BY <1>2, <2>1
    <2>4. t[i - 1] \in Nat
        BY <1>10
    <2>5. CASE f \notin DOMAIN ms[i].tokens
        <3>1. t[i] = t[i - 1]
            BY <2>1, <2>3, <2>5 DEF TotalTurn
        <3>2. exact = before
            BY <1>8, <2>5
        <3>3. QED
            BY <1>10, <3>1, <3>2
    <2>6. CASE f \in DOMAIN ms[i].tokens
        <3> DEFINE v == ms[i].tokens[f]
                   sum == t[i - 1] + v
        <3>1. v \in Nat /\ exact = before + v
            BY <1>8, <2>6
        <3>2. t[i] = Rounded(sum)
            BY <2>1, <2>3, <2>6 DEF TotalTurn
        <3>3. sum \in Nat
            BY <2>4, <3>1
        <3>4. /\ before <= MaxSafe => t[i - 1] = before
              /\ before > MaxSafe => t[i - 1] > MaxSafe
            BY <1>10
        <3> HIDE DEF exact, before, v, Follows
        <3>5. sum <= MaxSafe + 1 => t[i] = sum
            BY <3>2, <3>3, SmallIsExact
        <3>6. sum > MaxSafe + 1 => t[i] \in Nat /\ t[i] > MaxSafe
            BY <3>2, <3>3, LargeStaysLarge
        <3>7. exact <= MaxSafe => sum = exact
            BY <2>2, <3>1, <3>4, MaxSafeAssumption
        <3>8. exact > MaxSafe => sum > MaxSafe
            BY <2>2, <2>4, <3>1, <3>4, MaxSafeAssumption
        <3> HIDE DEF sum
        <3>9. /\ t[i] \in Nat
              /\ exact <= MaxSafe => t[i] = exact
              /\ exact > MaxSafe => t[i] > MaxSafe
            BY <2>2, <3>3, <3>5, <3>6, <3>7, <3>8, MaxSafeAssumption
        <3>10. QED
            BY <3>9 DEF Follows, exact
    <2>7. QED
        BY <2>5, <2>6
<1>11. Bad = {}
    <2> HIDE DEF Follows
    <2> SUFFICES ASSUME Bad # {}
                 PROVE  FALSE
        OBVIOUS
    <2>1. PICK i \in Bad : \A j \in Bad : i <= j
        <3>1. Bad \in SUBSET Nat
            OBVIOUS
        <3> HIDE DEF Bad
        <3>2. QED
            BY <3>1, LeastNumber
    <2>2. i # 0
        BY <1>9
    <2>3. i \in 1..n /\ i - 1 \in 0..n /\ i - 1 \notin Bad
        BY <1>1, <2>1, <2>2
    <2>4. QED
        BY <1>10, <2>3
<1>12. Follows(n)
    <2>1. n \in 0..n
        BY <1>1
    <2> HIDE DEF Follows
    <2>2. QED
        BY <1>11, <2>1
<1>13. mu[Seen(n)] \in Nat
    <2>1. n \in 0..n
        BY <1>1
    <2>2. QED
        BY <1>6, <2>1
<1>14. QED
    BY <1>2, <1>5, <1>12, <1>13

\* What a TypeScript rollup publishes, whatever the order of its Map.
LEMMA SafeTotals == UsageInv /\ NumberInv => SafeTotalsAreExact
<1> SUFFICES ASSUME UsageInv, NumberInv, NEW ask, Rollable(facts, ask),
                    NEW ms \in SetToSeqs(Matches(facts, ask))
             PROVE  LET exact == rollup(facts, ask).totals
                    IN  /\ TsRollable(ms) <=>
                               \A f \in DOMAIN exact : exact[f] <= MaxSafe
                        /\ TsRollable(ms) =>
                               \A f \in DOMAIN exact : TsTotal(ms, f) = exact[f]
    BY DEF SafeTotalsAreExact
<1> DEFINE W == Matches(facts, ask)
           exact == rollup(facts, ask).totals
<1>1. W \in SUBSET FactsIn(facts)
    BY DEF Matches
<1>2. IsFiniteSet(W) /\ \A e \in W : Numbered(e)
    BY <1>1, FactsFinite, FactsAre, FS_Subset
<1>3. W # {} /\ Cardinality(Currencies(W)) <= 1
    BY DEF Rollable
<1>4. exact = Summary(W).totals
    BY DEF rollup
<1> HIDE DEF W, exact
<1>5. ms \in SetToSeqs(W)
    BY DEF W
<1>6. ToSet(ms) = W /\ ms # << >>
    <2>1. ToSet(ms) = W
        BY <1>2, <1>5, OrderIs
    <2>2. ASSUME ms = << >>
          PROVE  FALSE
        BY <1>3, <2>1, <2>2 DEF ToSet
    <2>3. QED
        BY <2>1, <2>2
<1>7. DOMAIN exact = {f \in TokenFields : Observed(W, f) # {}}
    BY <1>4 DEF Summary
<1>8. \A f \in TokenFields :
          OrZero(Summary(W), f) = IF f \in DOMAIN exact THEN exact[f] ELSE 0
    BY <1>4 DEF OrZero
<1>9. ASSUME NEW f \in TokenFields
      PROVE  /\ OrZero(Summary(W), f) \in Nat /\ TsTotal(ms, f) \in Nat
             /\ OrZero(Summary(W), f) <= MaxSafe =>
                    TsTotal(ms, f) = OrZero(Summary(W), f)
             /\ OrZero(Summary(W), f) > MaxSafe => TsTotal(ms, f) > MaxSafe
    BY <1>2, <1>5, TotalsFollow
<1>10. \A f \in TokenFields :
           IsSafeInteger(TsTotal(ms, f)) <=> OrZero(Summary(W), f) <= MaxSafe
    BY <1>9, MaxSafeAssumption DEF IsSafeInteger
<1>11. (\A f \in TokenFields : OrZero(Summary(W), f) <= MaxSafe) <=>
           \A f \in DOMAIN exact : exact[f] <= MaxSafe
    BY <1>7, <1>8, MaxSafeAssumption
<1>12. TsRollable(ms) <=> \A f \in TokenFields : IsSafeInteger(TsTotal(ms, f))
    BY <1>3, <1>6 DEF TsRollable
<1>13. ASSUME TsRollable(ms), NEW f \in DOMAIN exact
       PROVE  TsTotal(ms, f) = exact[f]
    <2>1. f \in TokenFields
        BY <1>7
    <2>2. OrZero(Summary(W), f) <= MaxSafe
        BY <1>10, <1>12, <1>13, <2>1
    <2>3. QED
        BY <1>8, <1>9, <1>13, <2>1, <2>2
<1>14. QED
    BY <1>10, <1>11, <1>12, <1>13 DEF exact

\* A total that a TypeScript rollup publishes is the exact one, in whatever order
\* it adds and however its sums are rounded on the way; it refuses a rollup for
\* its totals only when an exact one is out of range.
THEOREM SafeTotalsAreExactAlways == Spec => []SafeTotalsAreExact
<1>1. Init => NumberInv
    BY DEF Init, NumberInv
<1>2. Spec => []NumberInv
    BY <1>1, UsageAlways, NextNumbers, PTL DEF Spec
<1>3. QED
    BY <1>2, UsageAlways, SafeTotals, PTL
=============================================================================
