---------------------------- MODULE Propagation ----------------------------
(***************************************************************************)
(* inject_context and extract_context (propagation.py): the correlation    *)
(* headers that travel with a call from one agent to the next.             *)
(*                                                                         *)
(* A carrier is a mapping the caller owns: a function from field names to  *)
(* values. The code writes its names in lower case; a transport may hand   *)
(* them on in title case. The W3C headers, which OpenTelemetry writes and  *)
(* reads, are left out.                                                    *)
(***************************************************************************)
CONSTANT Unsafe   \* values that are empty, too long, or hold a line break

None  == "none"   \* a header or field that is left out
Names == {"run_id", "agent_id", "workflow_id"}

Lower(name) == <<name, "lower">>
Title(name) == <<name, "title">>
FieldNames  == Names \X {"lower", "title"}

Safe(value) == value \notin Unsafe

\* The headers of one injection; without a workflow there is none for it.
Headers(run_id, agent_id, workflow_id) ==
    [name \in IF workflow_id = None THEN {"run_id", "agent_id"} ELSE Names |->
        CASE name = "run_id"      -> run_id
          [] name = "agent_id"    -> agent_id
          [] name = "workflow_id" -> workflow_id]

\* They are checked and written one after the other, in this order.
UpTo(name) == CASE name = "run_id"      -> {"run_id"}
                [] name = "agent_id"    -> {"run_id", "agent_id"}
                [] name = "workflow_id" -> Names

Written(headers) ==
    {name \in DOMAIN headers :
        \A n \in UpTo(name) \cap DOMAIN headers : Safe(headers[n])}

\* inject_context raises unless all of them are safe...
Injectable(headers) == Written(headers) = DOMAIN headers

\* ...and leaves in the carrier what it wrote until then. Nothing is removed.
inject_context(carrier, headers) ==
    LET new == {Lower(name) : name \in Written(headers)}
    IN  [f \in DOMAIN carrier \cup new |->
            IF f \in new THEN headers[f[1]] ELSE carrier[f]]

\* Mutant of Header: it does not prefer the name as the code writes it.
HeaderAnyCase(carrier, name) ==
    IF Title(name) \in DOMAIN carrier THEN carrier[Title(name)]
    ELSE IF Lower(name) \in DOMAIN carrier THEN carrier[Lower(name)] ELSE None

\* _header: the name as the code writes it, or else in any other case.
Header(carrier, name) ==
    IF Lower(name) \in DOMAIN carrier THEN carrier[Lower(name)]
    ELSE IF Title(name) \in DOMAIN carrier THEN carrier[Title(name)] ELSE None

Extractable(carrier) == \A name \in Names : Safe(Header(carrier, name))

extract_context(carrier) ==
    [run_id            |-> Header(carrier, "run_id"),
     workflow_id       |-> Header(carrier, "workflow_id"),
     upstream_agent_id |-> Header(carrier, "agent_id")]

\* ExtractedContext.event_fields: the envelope of what agent_id records.
event_fields(context, agent_id) ==
    [agent_id        |-> agent_id,
     run_id          |-> context.run_id,
     workflow_id     |-> context.workflow_id,
     parent_agent_id |-> context.upstream_agent_id]
=============================================================================
