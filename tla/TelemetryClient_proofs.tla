----------------------- MODULE TelemetryClient_proofs -----------------------
(***************************************************************************)
(* Proofs about TelemetryClient, for any workers, batches, limits and      *)
(* numbers of failures and retries.                                        *)
(***************************************************************************)
EXTENDS TelemetryClient, SequenceTheorems, TLAPS

Elements(s) == {s[i] : i \in 1..Len(s)}

Distinct(s) == \A i, j \in 1..Len(s) : s[i] = s[j] => i = j

InLog(e) == \E k \in 1..Len(log) : log[k] = e

Emitting(w) == pc[w] \in {"emit", "copy", "evidence", "project"}

\* Where a worker is, what has been checked of its batch and its event.
PlaceOK(w) ==
    /\ pc[w] # "answered" => answer[w] = "none"
    /\ Emitting(w) \/ answer[w] = "SUCCESS" => \A s \in Sources(w) : s.mappable
    /\ Emitting(w) => pos[w] \in 1..Len(Batch[w])
    /\ pc[w] \in {"copy", "evidence", "project"} =>
           Event(w).valid /\ w \notin Mismatched
    /\ pc[w] \in {"copy", "evidence"} =>
           HasEvidence /\ ~errors[w] /\ todo[w] = Route(w)
    /\ pc[w] = "evidence" => copy[w] = Event(w)

\* An event with an evidence sink is projected after it is in the log; what is
\* left to do was not done, and the rest of the route was done or failed.
ProjectingOK(w) ==
    pc[w] = "project" =>
        /\ HasEvidence =>
               /\ InLog(Event(w))
               /\ Distinct(todo[w])
               /\ \A ch \in Elements(todo[w]) : ~Reached(ch, Event(w))
        /\ ~errors[w] =>
               \A ch \in Elements(Route(w)) :
                   Reached(ch, Event(w)) \/ ch \in Elements(todo[w])

Delivered(w, e) ==
    /\ HasEvidence => InLog(e)
    /\ SpanOf[w] = "valid" => Reached("span", e)
    /\ HasLog => Reached("log", e)
    /\ HasMetrics => \A ch \in Elements(Instruments(e)) : Reached(ch, e)

\* The events a worker has left behind in its batch were delivered.
DeliveredOK(w) ==
    \A i \in 1..Len(Batch[w]) :
        \/ Emitting(w) /\ i < pos[w]
        \/ answer[w] = "SUCCESS"
        => Delivered(w, EventOf(w, i, tries[w]))

\* No two workers project one event.
OneProjector ==
    HasEvidence =>
        \A v, w \in Workers :
            pc[v] = "project" /\ pc[w] = "project" /\ v # w =>
                Event(v).event_id # Event(w).event_id

Traces ==
    durable \cup Evidence!Accepted \cup {x[2] : x \in BagToSet(projected)}

\* Every trace is that of a valid event of a batch that was mapped.
HasOrigin(id) ==
    \E v \in Workers : \E i \in 1..Len(Batch[v]) :
        /\ id[1] = Batch[v][i].source_id
        /\ \A s \in Sources(v) : s.mappable
        /\ Batch[v][i].valid /\ v \notin Mismatched

TracesOK == \A id \in Traces : HasOrigin(id)

ClientInv ==
    /\ TypeOK
    /\ \A w \in Workers : PlaceOK(w) /\ ProjectingOK(w) /\ DeliveredOK(w)
    /\ OneProjector
    /\ EvidenceIsValidated
    /\ ProjectedIsEvidence
    /\ ProjectedAtMostOnce
    /\ TracesOK

-----------------------------------------------------------------------------
(***************************************************************************)
(* Batches, events and routes.                                             *)
(***************************************************************************)
LEMMA SourceTypes ==
    ASSUME NEW w \in Workers, NEW i \in 1..Len(Batch[w])
    PROVE  /\ Batch[w][i] \in Sources(w)
           /\ Batch[w][i].event_type \in EventTypes
           /\ Batch[w][i].valid \in BOOLEAN /\ Batch[w][i].chainable \in BOOLEAN
<1>1. Batch[w][i] \in Sources(w)
  BY DEF Sources
<1> QED
  BY <1>1, WorkersAssumption

LEMMA BatchLength ==
    ASSUME NEW w \in Workers
    PROVE  Len(Batch[w]) \in Nat \ {0} /\ 1 \in 1..Len(Batch[w])
<1>1. Batch[w] \in Seq(Sources(w)) /\ Batch[w] # << >>
  BY WorkersAssumption
<1>2. Len(Batch[w]) \in Nat \ {0}
  BY <1>1, EmptySeq
<1> QED
  BY <1>2

LEMMA EventFields ==
    ASSUME NEW w \in Workers, NEW i \in 1..Len(Batch[w]), NEW t \in 0..MaxTries
    PROVE  /\ EventOf(w, i, t) \in Events /\ EventOf(w, i, t) \in Documents
           /\ EventOf(w, i, t).event_id \in EventIds
           /\ EventOf(w, i, t).event_id[1] = Batch[w][i].source_id
           /\ EventOf(w, i, t).valid = Batch[w][i].valid
           /\ EventOf(w, i, t).event_type \in EventTypes
           /\ Invalid(EventOf(w, i, t)) \in Documents
           /\ Invalid(EventOf(w, i, t)).valid = FALSE
           /\ Invalid(EventOf(w, i, t)).event_id = EventOf(w, i, t).event_id
<1>1. EventOf(w, i, t) \in Events
  BY DEF Events
<1>2. /\ EventOf(w, i, t).event_id = IdOf(w, Batch[w][i], t)
      /\ EventOf(w, i, t).valid = Batch[w][i].valid
      /\ EventOf(w, i, t).event_type = Batch[w][i].event_type
      /\ Invalid(EventOf(w, i, t)).valid = FALSE
      /\ Invalid(EventOf(w, i, t)).event_id = EventOf(w, i, t).event_id
  BY DEF EventOf, Invalid
<1>3. IdOf(w, Batch[w][i], t)[1] = Batch[w][i].source_id
  BY DEF IdOf
<1> QED
  BY <1>1, <1>2, <1>3, SourceTypes DEF Documents, EventIds

LEMMA ConcatDistinct ==
    ASSUME NEW S, NEW s \in Seq(S), NEW t \in Seq(S), Distinct(s), Distinct(t),
           Elements(s) \cap Elements(t) = {}
    PROVE  /\ s \o t \in Seq(S) /\ Distinct(s \o t)
           /\ Elements(s \o t) = Elements(s) \cup Elements(t)
<1> DEFINE m == Len(s)
           n == Len(t)
           u == s \o t
<1>1. m \in Nat /\ n \in Nat
  BY LenProperties
<1>2. /\ u \in Seq(S) /\ Len(u) = m + n
      /\ \A i \in 1..m + n : u[i] = IF i <= m THEN s[i] ELSE t[i - m]
  BY ConcatProperties
<1> HIDE DEF m, n, u
<1>3. /\ \A i \in 1..m : i \in 1..m + n /\ u[i] = s[i]
      /\ \A j \in 1..n : j + m \in 1..m + n /\ u[j + m] = t[j]
      /\ \A i \in 1..m + n : i \in 1..m \/ i - m \in 1..n
  <2>1. \A j \in 1..n : j + m \in 1..m + n /\ ~(j + m <= m) /\ j + m - m = j
    BY <1>1
  <2> QED
    BY <1>1, <1>2, <2>1
<1>4. Elements(u) = Elements(s) \cup Elements(t)
  <2>1. ASSUME NEW x \in Elements(u) PROVE x \in Elements(s) \cup Elements(t)
    <3>1. PICK i \in 1..m + n : x = u[i]
      BY <1>2 DEF Elements
    <3>2. i \in 1..m => x \in Elements(s)
      BY <1>3, <3>1 DEF Elements, m
    <3>3. i \notin 1..m => i - m \in 1..n /\ u[i] = t[i - m]
      BY <1>1, <1>2, <1>3, <3>1
    <3>4. i \notin 1..m => x \in Elements(t)
      BY <3>1, <3>3 DEF Elements, n
    <3> QED
      BY <3>2, <3>4
  <2>2. Elements(s) \subseteq Elements(u)
    BY <1>2, <1>3 DEF Elements, m
  <2>3. Elements(t) \subseteq Elements(u)
    BY <1>2, <1>3 DEF Elements, n
  <2> QED
    BY <2>1, <2>2, <2>3
<1>5. ASSUME NEW i \in 1..m + n, NEW j \in 1..m + n, u[i] = u[j]
      PROVE  i = j
  <2>1. \A k \in 1..m : s[k] \in Elements(s)
    BY DEF Elements, m
  <2>2. \A k \in 1..n : t[k] \in Elements(t)
    BY DEF Elements, n
  <2>3. /\ i \in 1..m => u[i] = s[i]
        /\ i \notin 1..m => i - m \in 1..n /\ u[i] = t[i - m]
        /\ j \in 1..m => u[j] = s[j]
        /\ j \notin 1..m => j - m \in 1..n /\ u[j] = t[j - m]
    BY <1>1, <1>2, <1>3
  <2>4. CASE i \in 1..m /\ j \in 1..m
    BY <1>5, <2>3, <2>4 DEF Distinct, m
  <2>5. CASE i \notin 1..m /\ j \notin 1..m
    <3>1. i - m = j - m
      BY <1>5, <2>3, <2>5 DEF Distinct, n
    <3> QED
      BY <1>1, <3>1
  <2> QED
    BY <1>5, <2>1, <2>2, <2>3, <2>4, <2>5
<1> QED
  BY <1>2, <1>4, <1>5 DEF Distinct, u

LEMMA Short ==
    ASSUME NEW x \in Channels
    PROVE  /\ <<x>> \in Seq(Channels) /\ Distinct(<<x>>) /\ Elements(<<x>>) = {x}
           /\ << >> \in Seq(Channels) /\ Distinct(<< >>) /\ Elements(<< >>) = {}
BY DEF Distinct, Elements

LEMMA AmountIs ==
    ASSUME NEW e, NEW x \in Channels
    PROVE  /\ Amount(e, x) \in Seq(Channels) /\ Distinct(Amount(e, x))
           /\ Elements(Amount(e, x)) \subseteq {x}
BY Short DEF Amount

LEMMA InstrumentsAre ==
    ASSUME NEW e, e.event_type \in EventTypes
    PROVE  /\ Instruments(e) \in Seq(Channels) /\ Distinct(Instruments(e))
           /\ Elements(Instruments(e)) \cap {"span", "log"} = {}
<1> DEFINE Good(s, names) == /\ s \in Seq(Channels) /\ Distinct(s)
                             /\ Elements(s) \subseteq names
<1>1. ASSUME NEW s, NEW t, NEW M, NEW N, Good(s, M), Good(t, N), M \cap N = {}
      PROVE  Good(s \o t, M \cup N)
  BY <1>1, ConcatDistinct
<1>2. ASSUME NEW x \in Channels PROVE Good(Amount(e, x), {x})
  BY AmountIs
<1>3. {"count", "duration", "input", "output", "cache_read", "cache_write",
       "reasoning", "cost"} \subseteq Channels
  BY DEF Channels
<1>4. Good(<<"count">>, {"count"}) /\ Good(<<"duration">>, {"duration"})
  BY <1>3, Short
<1>5. Good(<<"count", "duration">>, {"count", "duration"})
  BY <1>3 DEF Distinct, Elements
<1>6. Good(<< >>, {})
  BY <1>3, Short
<1> HIDE DEF Good
<1>7. Good(Amount(e, "input") \o Amount(e, "output"), {"input"} \cup {"output"})
  BY <1>1, <1>2, <1>3
<1>8. Good(Amount(e, "input") \o Amount(e, "output") \o Amount(e, "cache_read"),
           ({"input"} \cup {"output"}) \cup {"cache_read"})
  BY <1>1, <1>2, <1>3, <1>7
<1>9. Good(Amount(e, "input") \o Amount(e, "output") \o Amount(e, "cache_read")
           \o Amount(e, "cache_write"),
           ({"input"} \cup {"output"} \cup {"cache_read"}) \cup {"cache_write"})
  BY <1>1, <1>2, <1>3, <1>8
<1>10. Good(Amount(e, "input") \o Amount(e, "output") \o Amount(e, "cache_read")
            \o Amount(e, "cache_write") \o Amount(e, "reasoning"),
            ({"input"} \cup {"output"} \cup {"cache_read"} \cup {"cache_write"})
                \cup {"reasoning"})
  BY <1>1, <1>2, <1>3, <1>9
<1>11. Good(Amount(e, "input") \o Amount(e, "output") \o Amount(e, "cache_read")
            \o Amount(e, "cache_write") \o Amount(e, "reasoning")
            \o Amount(e, "cost"),
            ({"input"} \cup {"output"} \cup {"cache_read"} \cup {"cache_write"}
                \cup {"reasoning"}) \cup {"cost"})
  BY <1>1, <1>2, <1>3, <1>10
<1>12. \E names : Good(Instruments(e), names) /\ names \cap {"span", "log"} = {}
  <2>1. CASE e.event_type \in {"policy.decision", "action.executed"}
    BY <1>5, <2>1 DEF Instruments
  <2>2. CASE e.event_type \in {"approval", "data_flow.observed"}
    BY <1>4, <2>2 DEF Instruments
  <2>3. CASE e.event_type = "usage.recorded"
    BY <1>11, <2>3 DEF Instruments
  <2>4. CASE e.event_type = "evidence"
    BY <1>6, <2>4 DEF Instruments
  <2> QED
    BY <2>1, <2>2, <2>3, <2>4 DEF EventTypes
<1> QED
  BY <1>12 DEF Good

\* The channels of an event, each once.
LEMMA RouteIs ==
    ASSUME NEW w \in Workers, Event(w).event_type \in EventTypes
    PROVE  /\ Route(w) \in Seq(Channels) /\ Distinct(Route(w))
           /\ SpanOf[w] = "valid" => "span" \in Elements(Route(w))
           /\ HasLog => "log" \in Elements(Route(w))
           /\ HasMetrics =>
                  Elements(Instruments(Event(w))) \subseteq Elements(Route(w))
<1> DEFINE a == IF SpanOf[w] = "valid" THEN <<"span">> ELSE << >>
           b == IF HasLog THEN <<"log">> ELSE << >>
           c == IF HasMetrics THEN Instruments(Event(w)) ELSE << >>
<1>1. "span" \in Channels /\ "log" \in Channels
  BY DEF Channels
<1>2. /\ a \in Seq(Channels) /\ Distinct(a)
      /\ Elements(a) = IF SpanOf[w] = "valid" THEN {"span"} ELSE {}
  BY <1>1, Short
<1>3. /\ b \in Seq(Channels) /\ Distinct(b)
      /\ Elements(b) = IF HasLog THEN {"log"} ELSE {}
  BY <1>1, Short
<1>4. /\ c \in Seq(Channels) /\ Distinct(c)
      /\ Elements(c) \cap {"span", "log"} = {}
      /\ HasMetrics => Elements(c) = Elements(Instruments(Event(w)))
  BY <1>1, Short, InstrumentsAre
<1>5. Route(w) = a \o b \o c
  BY DEF Route
<1> HIDE DEF a, b, c
<1>6. /\ a \o b \in Seq(Channels) /\ Distinct(a \o b)
      /\ Elements(a \o b) = Elements(a) \cup Elements(b)
  BY <1>2, <1>3, ConcatDistinct
<1>7. /\ a \o b \o c \in Seq(Channels) /\ Distinct(a \o b \o c)
      /\ Elements(a \o b \o c) = Elements(a) \cup Elements(b) \cup Elements(c)
  <2> DEFINE ab == a \o b
  <2>1. ab \in Seq(Channels) /\ Distinct(ab)
    BY <1>6
  <2>2. Elements(ab) = Elements(a) \cup Elements(b)
    BY <1>6
  <2> HIDE DEF ab
  <2>3. Elements(ab) \cap Elements(c) = {}
    BY <1>2, <1>3, <1>4, <2>2
  <2>4. /\ ab \o c \in Seq(Channels) /\ Distinct(ab \o c)
        /\ Elements(ab \o c) = Elements(ab) \cup Elements(c)
    BY <1>4, <2>1, <2>3, ConcatDistinct
  <2> QED
    BY <2>2, <2>4 DEF ab
<1> QED
  BY <1>2, <1>3, <1>4, <1>5, <1>7

LEMMA TailOf ==
    ASSUME NEW s \in Seq(Channels), s # << >>
    PROVE  /\ Head(s) \in Channels /\ Head(s) \in Elements(s)
           /\ Tail(s) \in Seq(Channels)
           /\ Elements(s) = {Head(s)} \cup Elements(Tail(s))
           /\ Distinct(s) => Distinct(Tail(s)) /\ Head(s) \notin Elements(Tail(s))
<1> DEFINE n == Len(s)
           t == Tail(s)
<1>1. n \in Nat \ {0} /\ Head(s) = s[1]
  BY EmptySeq
<1>2. /\ Head(s) \in Channels /\ t \in Seq(Channels) /\ Len(t) = n - 1
      /\ \A i \in 1..n - 1 : t[i] = s[i + 1]
  BY HeadTailProperties
<1> HIDE DEF n, t
<1>3. \A i \in 1..n : i = 1 \/ (i - 1 \in 1..n - 1 /\ i = (i - 1) + 1)
  BY <1>1
<1>4. \A i \in 1..n - 1 : i + 1 \in 1..n /\ i + 1 # 1
  BY <1>1
<1>5. 1 \in 1..n
  BY <1>1
<1>6. Elements(s) = {Head(s)} \cup Elements(t)
  <2>1. ASSUME NEW x \in Elements(s) PROVE x = Head(s) \/ x \in Elements(t)
    <3>1. PICK i \in 1..n : x = s[i]
      BY DEF Elements, n
    <3>2. i # 1 => i - 1 \in 1..n - 1 /\ t[i - 1] = s[i]
      BY <1>2, <1>3
    <3> QED
      BY <1>1, <1>2, <3>1, <3>2 DEF Elements
  <2>2. \A i \in 1..n - 1 : t[i] \in Elements(s)
    BY <1>2, <1>4 DEF Elements, n
  <2>3. Elements(t) \subseteq Elements(s)
    BY <1>2, <2>2 DEF Elements
  <2>4. Head(s) \in Elements(s)
    BY <1>1, <1>5 DEF Elements, n
  <2> QED
    BY <2>1, <2>3, <2>4
<1>7. ASSUME Distinct(s)
      PROVE  Distinct(t) /\ Head(s) \notin Elements(t)
  <2>1. \A i, j \in 1..n : s[i] = s[j] => i = j
    BY <1>7 DEF Distinct, n
  <2>2. \A i, j \in 1..n - 1 : t[i] = t[j] => i = j
    <3> SUFFICES ASSUME NEW i \in 1..n - 1, NEW j \in 1..n - 1, t[i] = t[j]
                 PROVE  i = j
      OBVIOUS
    <3>1. i + 1 = j + 1
      BY <1>2, <1>4, <2>1
    <3> QED
      BY <3>1
  <2>3. \A i \in 1..n - 1 : t[i] # Head(s)
    BY <1>1, <1>2, <1>4, <1>5, <2>1
  <2> QED
    BY <1>2, <2>2, <2>3 DEF Distinct, Elements
<1> QED
  BY <1>2, <1>6, <1>7 DEF t

LEMMA BagAdd ==
    ASSUME NEW x, IsABag(projected),
           projected' = projected (+) SetToBag({x})
    PROVE  /\ IsABag(projected')
           /\ BagToSet(projected') = BagToSet(projected) \cup {x}
           /\ \A y \in BagToSet(projected) : y # x => projected'[y] = projected[y]
           /\ x \notin BagToSet(projected) => projected'[x] = 1
BY DEF IsABag, BagToSet, SetToBag, (+)

\* The event a worker is emitting is an event of its batch.
LEMMA EventHere ==
    ASSUME TypeOK, NEW w \in Workers, pos[w] \in 1..Len(Batch[w])
    PROVE  /\ Event(w) \in Events /\ Event(w) \in Documents
           /\ Event(w).event_id \in EventIds
           /\ Event(w).event_type \in EventTypes
           /\ Event(w).event_id[1] = Batch[w][pos[w]].source_id
           /\ Event(w).valid = Batch[w][pos[w]].valid
           /\ Invalid(Event(w)) \in Documents /\ Invalid(Event(w)).valid = FALSE
<1>1. tries[w] \in 0..MaxTries
  BY DEF TypeOK
<1> QED
  BY <1>1, EventFields DEF Event

LEMMA AcceptedIs ==
    \A e : InLog(e) => e.event_id \in Evidence!Accepted
BY DEF InLog, Evidence!Accepted

-----------------------------------------------------------------------------
(***************************************************************************)
(* What a step of one worker leaves to the others.                         *)
(***************************************************************************)
Rests(v) ==
    /\ pc'[v] = pc[v] /\ tries'[v] = tries[v] /\ pos'[v] = pos[v]
    /\ copy'[v] = copy[v] /\ todo'[v] = todo[v]
    /\ errors'[v] = errors[v] /\ answer'[v] = answer[v]

\* The log and what was projected only grow.
Grows ==
    /\ \A e : InLog(e) => InLog(e)'
    /\ BagToSet(projected) \subseteq BagToSet(projected')

WorkerOK(w) == PlaceOK(w) /\ ProjectingOK(w) /\ DeliveredOK(w)

LEMMA SameEvent ==
    ASSUME NEW v \in Workers, pos'[v] = pos[v], tries'[v] = tries[v]
    PROVE  Event(v)' = Event(v) /\ Route(v)' = Route(v)
BY DEF Event, Route

LEMMA StaysDelivered ==
    ASSUME NEW v, NEW e, Grows, Delivered(v, e)
    PROVE  Delivered(v, e)'
BY DEF Grows, Delivered, Reached, BagIn

LEMMA DeliveredStays ==
    ASSUME NEW v \in Workers, Grows, DeliveredOK(v),
           tries'[v] = tries[v] /\ pos'[v] = pos[v],
           Emitting(v)' => Emitting(v),
           answer'[v] = "SUCCESS" => answer[v] = "SUCCESS"
    PROVE  DeliveredOK(v)'
<1> SUFFICES ASSUME NEW i \in 1..Len(Batch[v]),
                    \/ Emitting(v)' /\ i < pos'[v]
                    \/ answer'[v] = "SUCCESS"
             PROVE  Delivered(v, EventOf(v, i, tries[v]))'
  BY DEF DeliveredOK
<1>1. Delivered(v, EventOf(v, i, tries[v]))
  BY DEF DeliveredOK
<1>2. PICK e : e = EventOf(v, i, tries[v])
  OBVIOUS
<1>3. Delivered(v, e)'
  BY <1>1, <1>2, StaysDelivered
<1>4. e = EventOf(v, i, tries'[v])
  BY <1>2
<1> QED
  BY <1>3, <1>4 DEF Delivered, InLog, Reached

LEMMA RestsOK ==
    ASSUME NEW v \in Workers, WorkerOK(v), Rests(v), Grows,
           HasEvidence /\ pc[v] = "project" =>
               \A ch : <<ch, Event(v).event_id>> \in BagToSet(projected') =>
                       <<ch, Event(v).event_id>> \in BagToSet(projected)
    PROVE  WorkerOK(v)'
<1>1. Event(v)' = Event(v) /\ Route(v)' = Route(v)
  BY SameEvent DEF Rests
<1>2. PlaceOK(v)'
  BY <1>1 DEF WorkerOK, Rests, PlaceOK, Emitting
<1>3. ProjectingOK(v)'
  BY <1>1 DEF WorkerOK, Rests, ProjectingOK, Grows, Reached, BagIn, InLog
<1>4. DeliveredOK(v)'
  BY DeliveredStays DEF WorkerOK, Rests, Emitting
<1> QED
  BY <1>2, <1>3, <1>4 DEF WorkerOK

\* A step that is neither evidence nor a projection.
LEMMA Quiet ==
    ASSUME ClientInv, TypeOK', UNCHANGED <<log, durable, projected>>,
           NEW w \in Workers, \A v \in Workers \ {w} : Rests(v),
           HasEvidence /\ pc'[w] = "project" =>
               pc[w] = "project" /\ Event(w)' = Event(w),
           WorkerOK(w)'
    PROVE  ClientInv'
<1>1. Grows
  BY DEF Grows, InLog
<1>2. ASSUME NEW v \in Workers PROVE WorkerOK(v)'
  BY <1>1, RestsOK DEF ClientInv, WorkerOK
<1>3. OneProjector'
  <2>1. \A v \in Workers : HasEvidence /\ pc'[v] = "project" =>
            pc[v] = "project" /\ Event(v)' = Event(v)
    BY SameEvent DEF Rests
  <2> QED
    BY <2>1 DEF ClientInv, OneProjector
<1>4. /\ EvidenceIsValidated' /\ ProjectedIsEvidence' /\ ProjectedAtMostOnce'
      /\ TracesOK'
  BY DEF ClientInv, EvidenceIsValidated, ProjectedIsEvidence, ProjectedAtMostOnce,
         TracesOK, Traces, HasOrigin, Evidence!Accepted
<1> QED
  BY <1>2, <1>3, <1>4 DEF ClientInv, WorkerOK

-----------------------------------------------------------------------------
(***************************************************************************)
(* The steps of a worker that neither keep evidence nor project.           *)
(***************************************************************************)
LEMMA MapBatchInv ==
    ASSUME ClientInv, NEW w \in Workers, MapBatch(w)
    PROVE  ClientInv'
<1>1. /\ TypeOK /\ pc[w] = "map" /\ PlaceOK(w)
      /\ UNCHANGED <<log, durable, projected>>
  BY DEF ClientInv, MapBatch, evidenceVars
<1>2. TypeOK'
  <2>1. /\ pc' \in [Workers -> Labels]
        /\ answer' \in [Workers -> {"none", "SUCCESS", "FAILURE"}]
        /\ pos' \in [Workers -> Nat \ {0}]
    <3>1. \/ /\ pc' = [pc EXCEPT ![w] = "emit"] /\ pos' = [pos EXCEPT ![w] = 1]
             /\ answer' = answer
          \/ /\ pc' = [pc EXCEPT ![w] = "answered"] /\ pos' = pos
             /\ answer' = [answer EXCEPT ![w] = "FAILURE"]
      BY DEF MapBatch, GoTo, Answer
    <3>2. 1 \in Nat \ {0} /\ "emit" \in Labels /\ "answered" \in Labels
      BY DEF Labels
    <3> QED
      BY <1>1, <3>1, <3>2 DEF TypeOK
  <2>2. \A v \in Workers : answer'[v] = "none" <=> pc'[v] # "answered"
    BY <1>1 DEF MapBatch, GoTo, Answer, TypeOK
  <2> QED
    BY <1>1, <2>1, <2>2 DEF MapBatch, evidenceVars, TypeOK
<1>3. \A v \in Workers \ {w} : Rests(v)
  BY <1>1 DEF MapBatch, GoTo, Answer, TypeOK, Rests
<1>4. \/ /\ pc'[w] = "emit" /\ pos'[w] = 1 /\ answer'[w] = "none"
         /\ \A s \in Sources(w) : s.mappable
      \/ pc'[w] = "answered" /\ answer'[w] = "FAILURE"
  BY <1>1 DEF MapBatch, GoTo, Answer, TypeOK, PlaceOK
<1>5. PlaceOK(w)'
  BY <1>4, BatchLength DEF PlaceOK, Emitting
<1>6. ProjectingOK(w)'
  BY <1>4 DEF ProjectingOK
<1>7. DeliveredOK(w)'
  BY <1>4 DEF DeliveredOK, Emitting
<1> QED
  BY <1>1, <1>2, <1>3, <1>4, <1>5, <1>6, <1>7, Quiet DEF WorkerOK

LEMMA BeginEmitInv ==
    ASSUME ClientInv, NEW w \in Workers, BeginEmit(w)
    PROVE  ClientInv'
<1>1. /\ TypeOK /\ pc[w] = "emit" /\ PlaceOK(w) /\ DeliveredOK(w)
      /\ UNCHANGED <<log, durable, projected>>
      /\ pos' = pos /\ tries' = tries
  BY DEF ClientInv, BeginEmit, evidenceVars
<1>2. Event(w)' = Event(w) /\ Route(w)' = Route(w)
  BY <1>1, SameEvent
<1>3. Event(w).event_type \in EventTypes /\ Route(w) \in Seq(Channels)
  BY <1>1, EventHere, RouteIs DEF PlaceOK, Emitting
<1>4. TypeOK'
  BY <1>1, <1>3 DEF BeginEmit, GoTo, Answer, evidenceVars, TypeOK, Labels
<1>5. \A v \in Workers \ {w} : Rests(v)
  BY <1>1 DEF BeginEmit, GoTo, Answer, TypeOK, Rests
<1>6. /\ ~errors'[w] /\ todo'[w] = Route(w)
      /\ \/ /\ Event(w).valid /\ w \notin Mismatched
            /\ pc'[w] = IF HasEvidence THEN "copy" ELSE "project"
            /\ answer'[w] = "none"
         \/ pc'[w] = "answered" /\ answer'[w] = "FAILURE"
  BY <1>1 DEF BeginEmit, GoTo, Answer, TypeOK, PlaceOK
<1>7. PlaceOK(w)'
  BY <1>1, <1>2, <1>6 DEF PlaceOK, Emitting
<1>8. ProjectingOK(w)'
  BY <1>2, <1>6 DEF ProjectingOK
<1>9. DeliveredOK(w)'
  <2>1. Emitting(w) /\ Grows
    BY <1>1 DEF Emitting, Grows, InLog
  <2> QED
    BY <1>1, <1>6, <2>1, DeliveredStays
<1> QED
  BY <1>1, <1>4, <1>5, <1>6, <1>7, <1>8, <1>9, Quiet DEF WorkerOK

LEMMA ChangeEventInv ==
    ASSUME ClientInv, NEW w \in Workers, ChangeEvent(w)
    PROVE  ClientInv'
<1>1. \A v \in Workers : Rests(v)
  BY DEF ChangeEvent, Rests
<1>2. TypeOK'
  BY DEF ClientInv, ChangeEvent, evidenceVars, TypeOK
<1>3. /\ UNCHANGED <<log, durable, projected>> /\ pc'[w] = "copy"
      /\ Grows
  BY DEF ChangeEvent, evidenceVars, Grows, InLog
<1>4. WorkerOK(w)'
  BY <1>1, <1>3, RestsOK DEF ClientInv, WorkerOK
<1> QED
  BY <1>1, <1>2, <1>3, <1>4, Quiet

LEMMA CopyEventInv ==
    ASSUME ClientInv, NEW w \in Workers, CopyEvent(w)
    PROVE  ClientInv'
<1>1. /\ TypeOK /\ pc[w] = "copy" /\ PlaceOK(w) /\ DeliveredOK(w)
      /\ UNCHANGED <<log, durable, projected>>
      /\ pos' = pos /\ tries' = tries /\ todo' = todo /\ errors' = errors
  BY DEF ClientInv, CopyEvent, evidenceVars
<1>2. Event(w)' = Event(w) /\ Route(w)' = Route(w)
  BY <1>1, SameEvent
<1>3. /\ Document(w) \in Documents
      /\ Document(w).valid => Document(w) = Event(w)
  BY <1>1, EventHere DEF PlaceOK, Emitting, Document
<1>4. TypeOK'
  BY <1>1, <1>3 DEF CopyEvent, GoTo, Answer, evidenceVars, TypeOK, Labels
<1>5. \A v \in Workers \ {w} : Rests(v)
  BY <1>1 DEF CopyEvent, GoTo, Answer, TypeOK, Rests
<1>6. \/ /\ pc'[w] = "evidence" /\ copy'[w] = Event(w) /\ answer'[w] = "none"
      \/ pc'[w] = "answered" /\ answer'[w] = "FAILURE"
  BY <1>1, <1>3 DEF CopyEvent, GoTo, Answer, TypeOK, PlaceOK
<1>7. PlaceOK(w)'
  BY <1>1, <1>2, <1>6 DEF PlaceOK, Emitting
<1>8. ProjectingOK(w)'
  BY <1>6 DEF ProjectingOK
<1>9. DeliveredOK(w)'
  <2>1. Emitting(w) /\ Grows
    BY <1>1 DEF Emitting, Grows, InLog
  <2> QED
    BY <1>1, <1>6, <2>1, DeliveredStays
<1> QED
  BY <1>1, <1>4, <1>5, <1>6, <1>7, <1>8, <1>9, Quiet DEF WorkerOK

LEMMA RefuseEvidenceInv ==
    ASSUME ClientInv, NEW w \in Workers, RefuseEvidence(w)
    PROVE  ClientInv'
<1>1. /\ TypeOK /\ pc[w] = "evidence" /\ PlaceOK(w)
      /\ UNCHANGED <<log, durable, projected>>
  BY DEF ClientInv, RefuseEvidence, evidenceVars
<1>2. failures' \in Nat
  BY <1>1 DEF RefuseEvidence, TypeOK
<1>3. TypeOK'
  BY <1>1, <1>2
     DEF RefuseEvidence, GoTo, Answer, evidenceVars, emitVars, TypeOK, Labels
<1>4. \A v \in Workers \ {w} : Rests(v)
  BY <1>1 DEF RefuseEvidence, GoTo, Answer, emitVars, TypeOK, Rests
<1>5. pc'[w] = "answered" /\ answer'[w] = "FAILURE"
  BY <1>1 DEF RefuseEvidence, GoTo, Answer, TypeOK
<1>6. PlaceOK(w)' /\ ProjectingOK(w)' /\ DeliveredOK(w)'
  BY <1>5 DEF PlaceOK, ProjectingOK, DeliveredOK, Emitting
<1> QED
  BY <1>1, <1>3, <1>4, <1>5, <1>6, Quiet DEF WorkerOK

LEMMA RetryInv ==
    ASSUME ClientInv, NEW w \in Workers, Retry(w)
    PROVE  ClientInv'
<1>1. TypeOK /\ UNCHANGED <<log, durable, projected>>
  BY DEF ClientInv, Retry, evidenceVars
<1>2. tries' \in [Workers -> 0..MaxTries]
  <2>1. /\ tries \in [Workers -> 0..MaxTries] /\ MaxTries \in Nat
        /\ \/ tries[w] < MaxTries /\ tries' = [tries EXCEPT ![w] = @ + 1]
           \/ tries' = tries
    BY <1>1, BoundsAssumption DEF Retry, TypeOK
  <2>2. tries[w] < MaxTries => tries[w] + 1 \in 0..MaxTries
    BY <2>1
  <2> QED
    BY <2>1, <2>2
<1>3. TypeOK'
  BY <1>1, <1>2 DEF Retry, GoTo, evidenceVars, emitVars, TypeOK, Labels
<1>4. \A v \in Workers \ {w} : Rests(v)
  BY <1>1 DEF Retry, GoTo, emitVars, TypeOK, Rests
<1>5. pc'[w] = "map" /\ answer'[w] = "none"
  BY <1>1 DEF Retry, GoTo, TypeOK
<1>6. PlaceOK(w)' /\ ProjectingOK(w)' /\ DeliveredOK(w)'
  BY <1>5 DEF PlaceOK, ProjectingOK, DeliveredOK, Emitting
<1> QED
  BY <1>1, <1>3, <1>4, <1>5, <1>6, Quiet DEF WorkerOK

LEMMA SealRunInv ==
    ASSUME ClientInv, SealRun
    PROVE  ClientInv'
<1>1. /\ UNCHANGED <<log, durable, projected>>
      /\ \A v \in Workers : Rests(v)
  BY DEF SealRun, emitVars, Rests, Evidence!Seal
<1>2. TypeOK'
  BY DEF ClientInv, SealRun, emitVars, TypeOK, Evidence!Seal
<1>3. Grows
  BY <1>1 DEF Grows, InLog
<1>4. \A v \in Workers : WorkerOK(v)'
  BY <1>1, <1>3, RestsOK DEF ClientInv, WorkerOK
<1>5. OneProjector'
  BY <1>1, SameEvent DEF ClientInv, OneProjector, Rests
<1>6. /\ EvidenceIsValidated' /\ ProjectedIsEvidence' /\ ProjectedAtMostOnce'
      /\ TracesOK'
  <2>1. log' = log /\ durable' = durable /\ projected' = projected
    BY <1>1
  <2> QED
    BY <2>1 DEF ClientInv, EvidenceIsValidated, ProjectedIsEvidence,
                ProjectedAtMostOnce, TracesOK, Traces, HasOrigin, Evidence!Accepted
<1> QED
  BY <1>2, <1>4, <1>5, <1>6 DEF ClientInv, WorkerOK

\* When nothing is left to do and nothing failed, the event is delivered.
LEMMA RouteDone ==
    ASSUME ClientInv, NEW w \in Workers, pc[w] = "project", todo[w] = << >>,
           ~errors[w]
    PROVE  Delivered(w, Event(w))
<1>1. TypeOK /\ PlaceOK(w) /\ ProjectingOK(w) /\ pos[w] \in 1..Len(Batch[w])
  BY DEF ClientInv, PlaceOK, Emitting
<1>2. Elements(todo[w]) = {}
  BY DEF Elements
<1>3. /\ HasEvidence => InLog(Event(w))
      /\ \A ch \in Elements(Route(w)) : Reached(ch, Event(w))
  BY <1>1, <1>2 DEF ProjectingOK
<1> QED
  BY <1>1, <1>3, EventHere, RouteIs DEF Delivered

LEMMA ReadResultInv ==
    ASSUME ClientInv, NEW w \in Workers, ReadResult(w)
    PROVE  ClientInv'
<1>1. /\ TypeOK /\ pc[w] = "project" /\ PlaceOK(w) /\ DeliveredOK(w)
      /\ todo[w] = << >>
      /\ UNCHANGED <<log, durable, projected>>
      /\ tries' = tries
      /\ pos[w] \in 1..Len(Batch[w]) /\ Len(Batch[w]) \in Nat
  BY BatchLength DEF ClientInv, ReadResult, evidenceVars, PlaceOK, Emitting
<1>2. \/ /\ pc' = [pc EXCEPT ![w] = "answered"] /\ pos' = pos
         /\ answer' = [answer EXCEPT ![w] = "FAILURE"]
      \/ /\ ~errors[w] /\ pos[w] < Len(Batch[w])
         /\ pc' = [pc EXCEPT ![w] = "emit"] /\ pos' = [pos EXCEPT ![w] = @ + 1]
         /\ answer' = answer
      \/ /\ ~errors[w] /\ pos[w] = Len(Batch[w])
         /\ pc' = [pc EXCEPT ![w] = "answered"] /\ pos' = pos
         /\ answer' = [answer EXCEPT ![w] = "SUCCESS"]
  BY DEF ReadResult, GoTo, Answer
<1>3. /\ pc' \in [Workers -> Labels] /\ pos' \in [Workers -> Nat \ {0}]
      /\ answer' \in [Workers -> {"none", "SUCCESS", "FAILURE"}]
  <2>1. /\ "emit" \in Labels /\ "answered" \in Labels /\ pos[w] + 1 \in Nat \ {0}
    BY <1>1 DEF Labels
  <2> QED
    BY <1>1, <1>2, <2>1 DEF TypeOK
<1>4. TypeOK'
  <2>1. \A v \in Workers : answer'[v] = "none" <=> pc'[v] # "answered"
    BY <1>1, <1>2 DEF TypeOK
  <2> QED
    BY <1>1, <1>3, <2>1 DEF ReadResult, evidenceVars, TypeOK
<1>5. \A v \in Workers \ {w} : Rests(v)
  BY <1>1, <1>2 DEF ReadResult, TypeOK, Rests
<1>6. \/ pc'[w] = "answered" /\ answer'[w] = "FAILURE"
      \/ /\ ~errors[w] /\ pos[w] < Len(Batch[w]) /\ pc'[w] = "emit"
         /\ pos'[w] = pos[w] + 1 /\ answer'[w] = "none"
      \/ /\ ~errors[w] /\ pos[w] = Len(Batch[w]) /\ pc'[w] = "answered"
         /\ answer'[w] = "SUCCESS"
  BY <1>1, <1>2 DEF TypeOK, PlaceOK
<1>7. PlaceOK(w)'
  <2>1. \A s \in Sources(w) : s.mappable
    BY <1>1 DEF PlaceOK, Emitting
  <2> QED
    BY <1>1, <1>6, <2>1 DEF PlaceOK, Emitting
<1>8. ProjectingOK(w)'
  BY <1>6 DEF ProjectingOK
<1>9. DeliveredOK(w)'
  <2> SUFFICES ASSUME NEW i \in 1..Len(Batch[w]),
                      \/ Emitting(w)' /\ i < pos'[w]
                      \/ answer'[w] = "SUCCESS"
               PROVE  Delivered(w, EventOf(w, i, tries[w]))'
    BY DEF DeliveredOK
  <2>1. ~errors[w] /\ (i < pos[w] \/ i = pos[w])
    BY <1>1, <1>6 DEF Emitting
  <2>2. Delivered(w, EventOf(w, i, tries[w]))
    BY <1>1, <2>1, RouteDone DEF DeliveredOK, Emitting, Event
  <2> QED
    BY <1>1, <2>2 DEF Delivered, InLog, Reached
<1> QED
  BY <1>1, <1>4, <1>5, <1>6, <1>7, <1>8, <1>9, Quiet DEF WorkerOK

-----------------------------------------------------------------------------
(***************************************************************************)
(* Evidence.                                                               *)
(***************************************************************************)
\* What was validated and mapped may leave a trace.
LEMMA Origin ==
    ASSUME ClientInv, NEW w \in Workers,
           pc[w] \in {"copy", "evidence", "project"}
    PROVE  HasOrigin(Event(w).event_id)
<1>1. /\ TypeOK /\ pos[w] \in 1..Len(Batch[w]) /\ \A s \in Sources(w) : s.mappable
      /\ Event(w).valid /\ w \notin Mismatched
  BY DEF ClientInv, PlaceOK, Emitting
<1>2. /\ Event(w).event_id[1] = Batch[w][pos[w]].source_id
      /\ Event(w).valid = Batch[w][pos[w]].valid
  BY <1>1, EventHere
<1> QED
  BY <1>1, <1>2 DEF HasOrigin

LEMMA PersistEvidenceInv ==
    ASSUME ClientInv, NEW w \in Workers, PersistEvidence(w)
    PROVE  ClientInv'
<1>1. /\ TypeOK /\ pc[w] = "evidence" /\ pos[w] \in 1..Len(Batch[w])
      /\ copy[w] = Event(w)
      /\ log' = log /\ projected' = projected
      /\ durable' = durable \cup {Event(w).event_id}
      /\ \A v \in Workers : Rests(v)
  BY DEF ClientInv, PersistEvidence, PlaceOK, Emitting, emitVars, Rests,
         Evidence!Persist
<1>2. TypeOK'
  BY <1>1, EventHere DEF PersistEvidence, Evidence!Persist, emitVars, TypeOK
<1>3. Grows
  BY <1>1 DEF Grows, InLog
<1>4. \A v \in Workers : WorkerOK(v)'
  BY <1>1, <1>3, RestsOK DEF ClientInv, WorkerOK
<1>5. OneProjector'
  BY <1>1, SameEvent DEF ClientInv, OneProjector, Rests
<1>6. /\ EvidenceIsValidated' /\ ProjectedIsEvidence' /\ ProjectedAtMostOnce'
  BY <1>1 DEF ClientInv, EvidenceIsValidated, ProjectedIsEvidence,
              ProjectedAtMostOnce, Evidence!Accepted
<1>7. TracesOK'
  <2>1. Traces' = Traces \cup {Event(w).event_id}
    BY <1>1 DEF Traces, Evidence!Accepted
  <2> QED
    BY <1>1, <2>1, Origin DEF ClientInv, TracesOK, HasOrigin
<1> QED
  BY <1>2, <1>4, <1>5, <1>6, <1>7 DEF ClientInv, WorkerOK

LEMMA AcceptEvidenceInv ==
    ASSUME ClientInv, NEW w \in Workers, AcceptEvidence(w)
    PROVE  ClientInv'
<1> DEFINE n == Len(log)
<1>1. /\ TypeOK /\ PlaceOK(w) /\ DeliveredOK(w)
      /\ pc[w] = "evidence" /\ pos[w] \in 1..Len(Batch[w])
      /\ Event(w).chainable /\ Event(w).event_id \notin Evidence!Accepted
      /\ log' = Append(log, Event(w))
      /\ projected' = projected /\ durable' = durable
      /\ pos' = pos /\ tries' = tries /\ todo' = todo /\ errors' = errors
      /\ answer' = answer /\ copy' = copy
      /\ pc' = [pc EXCEPT ![w] = "project"]
  BY DEF ClientInv, AcceptEvidence, PlaceOK, Emitting, emitVars, GoTo,
         Evidence!Accept
<1>2. /\ Event(w) \in Documents /\ Event(w).event_type \in EventTypes
      /\ Event(w).valid /\ w \notin Mismatched
      /\ HasEvidence /\ ~errors[w] /\ todo[w] = Route(w)
  BY <1>1, EventHere DEF PlaceOK
<1>3. /\ log' \in Seq(Documents) /\ n \in Nat /\ Len(log') = n + 1
      /\ \A i \in 1..n : log'[i] = log[i]
      /\ log'[n + 1] = Event(w)
  BY <1>1, <1>2, AppendProperties, LenProperties DEF TypeOK
<1>4. \A i \in 1..n : i \in 1..n + 1
  BY <1>3
<1>5. n + 1 \in 1..n + 1 /\ \A i \in 1..n + 1 : i \in 1..n \/ i = n + 1
  BY <1>3
<1>6. Evidence!Accepted' = Evidence!Accepted \cup {Event(w).event_id}
  BY <1>3, <1>4, <1>5 DEF Evidence!Accepted, n
<1> HIDE DEF n
<1>7. TypeOK'
  <2>1. pc' \in [Workers -> Labels]
    BY <1>1 DEF TypeOK, Labels
  <2> QED
    BY <1>1, <1>3, <2>1
       DEF AcceptEvidence, Evidence!Accept, emitVars, TypeOK
<1>8. Grows
  <2>1. \A e : InLog(e) => InLog(e)'
    BY <1>3, <1>4 DEF InLog, n
  <2> QED
    BY <1>1, <2>1 DEF Grows
<1>9. /\ pc'[w] = "project" /\ Event(w)' = Event(w) /\ Route(w)' = Route(w)
      /\ \A v \in Workers \ {w} : Rests(v)
  BY <1>1, SameEvent DEF TypeOK, Rests
<1>10. \A v \in Workers \ {w} : WorkerOK(v)'
  BY <1>1, <1>8, <1>9, RestsOK DEF ClientInv, WorkerOK
<1>11. PlaceOK(w)'
  BY <1>1, <1>2, <1>9 DEF PlaceOK, Emitting
<1>12. ProjectingOK(w)'
  <2>1. InLog(Event(w))'
    BY <1>3, <1>5, <1>9 DEF InLog
  <2>2. Distinct(todo'[w]) /\ Elements(todo'[w]) = Elements(Route(w))
    BY <1>1, <1>2, RouteIs
  <2>3. \A ch : ~Reached(ch, Event(w))'
    BY <1>1, <1>2, <1>9 DEF ClientInv, ProjectedIsEvidence, Reached, BagIn
  <2> QED
    BY <1>9, <2>1, <2>2, <2>3 DEF ProjectingOK
<1>13. DeliveredOK(w)'
  BY <1>1, <1>8, DeliveredStays DEF Emitting
<1>14. OneProjector'
  <2>1. \A v \in Workers : Event(v)' = Event(v)
    BY <1>1, SameEvent
  <2>2. \A v \in Workers \ {w} : pc'[v] = "project" =>
            pc[v] = "project" /\ Event(v).event_id # Event(w).event_id
    <3> SUFFICES ASSUME NEW v \in Workers \ {w}, pc'[v] = "project"
                 PROVE  pc[v] = "project" /\ Event(v).event_id # Event(w).event_id
      OBVIOUS
    <3>1. pc[v] = "project"
      BY <1>9 DEF Rests
    <3>2. InLog(Event(v))
      BY <1>2, <3>1 DEF ClientInv, ProjectingOK
    <3> QED
      BY <1>1, <3>1, <3>2, AcceptedIs
  <2> QED
    BY <2>1, <2>2 DEF ClientInv, OneProjector
<1>15. EvidenceIsValidated'
  BY <1>1, <1>2, <1>3, <1>5 DEF ClientInv, EvidenceIsValidated, n
<1>16. ProjectedIsEvidence' /\ ProjectedAtMostOnce'
  BY <1>1, <1>6 DEF ClientInv, ProjectedIsEvidence, ProjectedAtMostOnce
<1>17. TracesOK'
  <2>1. Traces' = Traces \cup {Event(w).event_id}
    BY <1>1, <1>6 DEF Traces
  <2> QED
    BY <1>1, <2>1, Origin DEF ClientInv, TracesOK, HasOrigin
<1> QED
  BY <1>7, <1>10, <1>11, <1>12, <1>13, <1>14, <1>15, <1>16, <1>17
     DEF ClientInv, WorkerOK

-----------------------------------------------------------------------------
(***************************************************************************)
(* Projections.                                                            *)
(***************************************************************************)
\* What does not depend on how a projection ends.
LEMMA Projecting ==
    ASSUME ClientInv, NEW w \in Workers, Project(w)
    PROVE  /\ TypeOK /\ PlaceOK(w) /\ ProjectingOK(w) /\ DeliveredOK(w)
           /\ pc[w] = "project" /\ pos[w] \in 1..Len(Batch[w])
           /\ todo[w] \in Seq(Channels) /\ todo[w] # << >>
           /\ UNCHANGED <<log, durable, sealed, completeness, pc, tries, pos,
                          changed, copy, answer>>
           /\ Event(w)' = Event(w) /\ Route(w)' = Route(w)
           /\ \E channels : todo' = [todo EXCEPT ![w] = channels]
           /\ \A v \in Workers \ {w} : Rests(v)
<1>1. /\ TypeOK /\ PlaceOK(w) /\ ProjectingOK(w) /\ DeliveredOK(w)
      /\ pc[w] = "project" /\ pos[w] \in 1..Len(Batch[w]) /\ todo[w] # << >>
      /\ UNCHANGED <<log, durable, sealed, completeness, pc, tries, pos,
                     changed, copy, answer>>
  BY DEF ClientInv, Project, evidenceVars, PlaceOK, Emitting
<1>2. /\ \E channels : todo' = [todo EXCEPT ![w] = channels]
      /\ errors' = errors \/ errors' = [errors EXCEPT ![w] = TRUE]
  BY DEF Project
<1>3. Event(w)' = Event(w) /\ Route(w)' = Route(w) /\ todo[w] \in Seq(Channels)
  BY <1>1, SameEvent DEF TypeOK
<1>4. \A v \in Workers \ {w} : Rests(v)
  BY <1>1, <1>2 DEF TypeOK, Rests
<1> QED
  BY <1>1, <1>2, <1>3, <1>4

LEMMA ProjectFails ==
    ASSUME ClientInv, NEW w \in Workers, Project(w), projected' = projected,
           failures' = failures - 1, failures > 0,
           errors' = [errors EXCEPT ![w] = TRUE],
           \/ todo' = [todo EXCEPT ![w] = Tail(todo[w])]
           \/ todo' = [todo EXCEPT ![w] = << >>]
    PROVE  ClientInv'
<1>1. /\ TypeOK /\ PlaceOK(w) /\ ProjectingOK(w) /\ DeliveredOK(w)
      /\ pc[w] = "project" /\ todo[w] \in Seq(Channels) /\ todo[w] # << >>
      /\ UNCHANGED <<log, durable, sealed, completeness, pc, tries, pos,
                     changed, copy, answer>>
      /\ Event(w)' = Event(w)
      /\ \A v \in Workers \ {w} : Rests(v)
  BY Projecting
<1>2. /\ Tail(todo[w]) \in Seq(Channels)
      /\ Elements(Tail(todo[w])) \subseteq Elements(todo[w])
      /\ Distinct(todo[w]) => Distinct(Tail(todo[w]))
  BY <1>1, TailOf
<1>3. << >> \in Seq(Channels) /\ Distinct(<< >>) /\ Elements(<< >>) = {}
  BY DEF Distinct, Elements
<1>4. TypeOK'
  <2>1. /\ todo' \in [Workers -> Seq(Channels)]
        /\ errors' \in [Workers -> BOOLEAN]
        /\ failures' \in Nat
    <3>1. todo' \in [Workers -> Seq(Channels)]
      BY <1>1, <1>2, <1>3 DEF TypeOK
    <3>2. errors' \in [Workers -> BOOLEAN]
      BY <1>1 DEF TypeOK
    <3>3. failures' \in Nat
      BY <1>1 DEF TypeOK
    <3> QED
      BY <3>1, <3>2, <3>3
  <2> QED
    BY <1>1, <2>1 DEF TypeOK
<1>5. errors'[w] /\ (todo'[w] = Tail(todo[w]) \/ todo'[w] = << >>)
  BY <1>1 DEF TypeOK
<1>6. PlaceOK(w)'
  BY <1>1 DEF PlaceOK, Emitting
<1>7. ProjectingOK(w)'
  <2>1. /\ Distinct(todo[w]) => Distinct(todo'[w])
        /\ Elements(todo'[w]) \subseteq Elements(todo[w])
    BY <1>2, <1>3, <1>5
  <2> QED
    BY <1>1, <1>5, <2>1 DEF ProjectingOK, InLog, Reached
<1>8. DeliveredOK(w)'
  <2>1. Grows
    BY <1>1 DEF Grows, InLog
  <2> QED
    BY <1>1, <2>1, DeliveredStays DEF Emitting
<1> QED
  BY <1>1, <1>4, <1>6, <1>7, <1>8, Quiet DEF WorkerOK

LEMMA ProjectDelivers ==
    ASSUME ClientInv, NEW w \in Workers, Project(w),
           projected' = projected (+) SetToBag({<<Head(todo[w]), Event(w).event_id>>}),
           todo' = [todo EXCEPT ![w] = Tail(todo[w])],
           UNCHANGED <<errors, failures>>
    PROVE  ClientInv'
<1> DEFINE x == <<Head(todo[w]), Event(w).event_id>>
           id == Event(w).event_id
<1>1. /\ TypeOK /\ PlaceOK(w) /\ ProjectingOK(w) /\ DeliveredOK(w)
      /\ pc[w] = "project" /\ pos[w] \in 1..Len(Batch[w])
      /\ todo[w] \in Seq(Channels) /\ todo[w] # << >>
      /\ UNCHANGED <<log, durable, sealed, completeness, pc, tries, pos,
                     changed, copy, answer>>
      /\ Event(w)' = Event(w) /\ Route(w)' = Route(w)
      /\ \A v \in Workers \ {w} : Rests(v)
  BY Projecting
<1>2. /\ Head(todo[w]) \in Channels /\ Head(todo[w]) \in Elements(todo[w])
      /\ Tail(todo[w]) \in Seq(Channels)
      /\ Elements(todo[w]) = {Head(todo[w])} \cup Elements(Tail(todo[w]))
      /\ Distinct(todo[w]) => /\ Distinct(Tail(todo[w]))
                              /\ Head(todo[w]) \notin Elements(Tail(todo[w]))
  BY <1>1, TailOf
<1>3. id \in EventIds /\ x \in Channels \X EventIds
  BY <1>1, <1>2, EventHere
<1>4. IsABag(projected) /\ projected' = projected (+) SetToBag({x})
  BY <1>1 DEF TypeOK
<1>5. PICK y : y = x
  OBVIOUS
<1>6. /\ IsABag(projected')
      /\ BagToSet(projected') = BagToSet(projected) \cup {x}
      /\ \A z \in BagToSet(projected) : z # x => projected'[z] = projected[z]
      /\ x \notin BagToSet(projected) => projected'[x] = 1
  <2>1. projected' = projected (+) SetToBag({y})
    BY <1>4, <1>5
  <2> HIDE DEF x
  <2> QED
    BY <1>4, <1>5, <2>1, BagAdd
<1>7. HasEvidence => InLog(Event(w)) /\ x \notin BagToSet(projected)
  BY <1>1, <1>2 DEF ProjectingOK, Reached, BagIn
<1>8. TypeOK'
  <2>1. todo' \in [Workers -> Seq(Channels)]
    BY <1>1, <1>2 DEF TypeOK
  <2>2. BagToSet(projected') \subseteq Channels \X EventIds
    BY <1>1, <1>3, <1>6 DEF TypeOK
  <2> QED
    BY <1>1, <1>6, <2>1, <2>2 DEF TypeOK
<1>9. Grows
  BY <1>1, <1>6 DEF Grows, InLog
<1>10. ASSUME NEW v \in Workers \ {w} PROVE WorkerOK(v)'
  <2>1. ASSUME HasEvidence, pc[v] = "project", NEW ch,
               <<ch, Event(v).event_id>> \in BagToSet(projected')
        PROVE  <<ch, Event(v).event_id>> \in BagToSet(projected)
    <3>1. Event(v).event_id # id
      BY <1>1, <2>1 DEF ClientInv, OneProjector
    <3> QED
      BY <1>6, <2>1, <3>1
  <2> QED
    BY <1>1, <1>9, <2>1, RestsOK DEF ClientInv, WorkerOK
<1>11. PlaceOK(w)'
  BY <1>1 DEF PlaceOK, Emitting
<1>12. ProjectingOK(w)'
  <2>1. todo'[w] = Tail(todo[w]) /\ errors'[w] = errors[w]
    BY <1>1 DEF TypeOK
  <2>2. \A ch : <<ch, id>> \in BagToSet(projected') <=>
                    ch = Head(todo[w]) \/ <<ch, id>> \in BagToSet(projected)
    BY <1>6
  <2>3. HasEvidence => InLog(Event(w))'
    BY <1>1, <1>7 DEF InLog
  <2>4. HasEvidence =>
            /\ Distinct(todo'[w])
            /\ \A ch \in Elements(todo'[w]) : ~Reached(ch, Event(w))'
    BY <1>1, <1>2, <2>1, <2>2 DEF ProjectingOK, Reached, BagIn
  <2>5. ~errors'[w] =>
            \A ch \in Elements(Route(w)') :
                Reached(ch, Event(w))' \/ ch \in Elements(todo'[w])
    BY <1>1, <1>2, <2>1, <2>2 DEF ProjectingOK, Reached, BagIn
  <2> QED
    BY <2>3, <2>4, <2>5 DEF ProjectingOK
<1>13. DeliveredOK(w)'
  BY <1>1, <1>9, DeliveredStays DEF Emitting
<1>14. OneProjector'
  <2>1. \A v \in Workers : pc'[v] = pc[v] /\ Event(v)' = Event(v)
    BY <1>1, SameEvent
  <2> QED
    BY <2>1 DEF ClientInv, OneProjector
<1>15. EvidenceIsValidated'
  BY <1>1 DEF ClientInv, EvidenceIsValidated
<1>16. ProjectedIsEvidence' /\ ProjectedAtMostOnce'
  <2>1. x[2] = id /\ (HasEvidence => id \in Evidence!Accepted)
    BY <1>7, AcceptedIs
  <2>2. Evidence!Accepted' = Evidence!Accepted
    BY <1>1 DEF Evidence!Accepted
  <2>3. ProjectedIsEvidence'
    BY <1>6, <2>1, <2>2 DEF ClientInv, ProjectedIsEvidence
  <2>4. ProjectedAtMostOnce'
    BY <1>6, <1>7 DEF ClientInv, ProjectedAtMostOnce
  <2> QED
    BY <2>3, <2>4
<1>17. TracesOK'
  <2>1. Traces' = Traces \cup {id}
    <3>1. {z[2] : z \in BagToSet(projected')}
              = {z[2] : z \in BagToSet(projected)} \cup {id}
      BY <1>6
    <3>2. Evidence!Accepted' = Evidence!Accepted /\ durable' = durable
      BY <1>1 DEF Evidence!Accepted
    <3> QED
      BY <3>1, <3>2 DEF Traces
  <2> QED
    BY <1>1, <2>1, Origin DEF ClientInv, TracesOK, HasOrigin
<1> QED
  BY <1>8, <1>10, <1>11, <1>12, <1>13, <1>14, <1>15, <1>16, <1>17
     DEF ClientInv, WorkerOK

LEMMA ProjectInv ==
    ASSUME ClientInv, NEW w \in Workers, Project(w)
    PROVE  ClientInv'
<1>1. \/ /\ projected'
               = projected (+) SetToBag({<<Head(todo[w]), Event(w).event_id>>})
         /\ todo' = [todo EXCEPT ![w] = Tail(todo[w])]
         /\ UNCHANGED <<errors, failures>>
      \/ /\ projected' = projected /\ failures > 0 /\ failures' = failures - 1
         /\ errors' = [errors EXCEPT ![w] = TRUE]
         /\ \/ todo' = [todo EXCEPT ![w] = Tail(todo[w])]
            \/ todo' = [todo EXCEPT ![w] = << >>]
  BY DEF Project
<1> QED
  BY <1>1, ProjectDelivers, ProjectFails

-----------------------------------------------------------------------------
LEMMA InitInv == Init => ClientInv
<1> SUFFICES ASSUME Init PROVE ClientInv
  OBVIOUS
<1>1. /\ log = << >> /\ durable = {} /\ sealed = FALSE /\ completeness = "unknown"
      /\ BagToSet(projected) = {} /\ IsABag(projected)
  BY DEF Init, Evidence!LogInit, EmptyBag, SetToBag, BagToSet, IsABag
<1>2. Evidence!Accepted = {} /\ Len(log) = 0
  BY <1>1 DEF Evidence!Accepted
<1>3. TypeOK
  <2>1. 0 \in 0..MaxTries /\ MaxFailures \in Nat /\ 1 \in Nat \ {0}
    BY BoundsAssumption
  <2>2. \A w \in Workers : EventOf(w, 1, 0) \in Documents
    BY <2>1, BatchLength, EventFields
  <2>3. log \in Seq(Documents) /\ \A w \in Workers : todo[w] \in Seq(Channels)
    BY <1>1 DEF Init
  <2>4. /\ pc \in [Workers -> Labels] /\ tries \in [Workers -> 0..MaxTries]
        /\ pos \in [Workers -> Nat \ {0}] /\ copy \in [Workers -> Documents]
        /\ todo \in [Workers -> Seq(Channels)]
        /\ errors \in [Workers -> BOOLEAN]
        /\ answer \in [Workers -> {"none", "SUCCESS", "FAILURE"}]
    BY <2>1, <2>2, <2>3 DEF Init, Labels
  <2> QED
    BY <1>1, <2>1, <2>3, <2>4 DEF Init, TypeOK
<1>4. \A w \in Workers : PlaceOK(w) /\ ProjectingOK(w) /\ DeliveredOK(w)
  BY DEF Init, PlaceOK, ProjectingOK, DeliveredOK, Emitting
<1>5. OneProjector
  BY DEF Init, OneProjector
<1>6. EvidenceIsValidated /\ ProjectedIsEvidence /\ ProjectedAtMostOnce
  BY <1>1, <1>2 DEF EvidenceIsValidated, ProjectedIsEvidence, ProjectedAtMostOnce
<1>7. TracesOK
  BY <1>1, <1>2 DEF TracesOK, Traces
<1> QED
  BY <1>3, <1>4, <1>5, <1>6, <1>7 DEF ClientInv

LEMMA NextInv == ClientInv /\ [Next]_vars => ClientInv'
<1> SUFFICES ASSUME ClientInv, [Next]_vars PROVE ClientInv'
  OBVIOUS
<1>1. CASE SealRun
  BY <1>1, SealRunInv
<1>2. CASE \E w \in Workers : Step(w) \/ Retry(w) \/ ChangeEvent(w)
  BY <1>2, MapBatchInv, BeginEmitInv, CopyEventInv, PersistEvidenceInv,
     AcceptEvidenceInv, RefuseEvidenceInv, ProjectInv, ReadResultInv, RetryInv,
     ChangeEventInv DEF Step
<1>3. CASE UNCHANGED vars
  <2>1. /\ UNCHANGED <<log, durable, projected>> /\ \A v \in Workers : Rests(v)
    BY <1>3 DEF vars, evidenceVars, emitVars, Rests
  <2>2. TypeOK'
    BY <1>3 DEF vars, evidenceVars, emitVars, ClientInv, TypeOK
  <2>3. Grows
    BY <2>1 DEF Grows, InLog
  <2>4. \A v \in Workers : WorkerOK(v)'
    BY <2>1, <2>3, RestsOK DEF ClientInv, WorkerOK
  <2>5. OneProjector'
    BY <2>1, SameEvent DEF ClientInv, OneProjector, Rests
  <2>6. log' = log /\ durable' = durable /\ projected' = projected
    BY <2>1
  <2>7. /\ EvidenceIsValidated' /\ ProjectedIsEvidence' /\ ProjectedAtMostOnce'
        /\ TracesOK'
    BY <2>6 DEF ClientInv, EvidenceIsValidated, ProjectedIsEvidence,
                ProjectedAtMostOnce, TracesOK, Traces, HasOrigin, Evidence!Accepted
  <2> QED
    BY <2>2, <2>4, <2>5, <2>7 DEF ClientInv, WorkerOK
<1> QED
  BY <1>1, <1>2, <1>3 DEF Next

\* The inductive invariant holds in every behaviour.
THEOREM ClientInvariant == Spec => []ClientInv
<1> QED
  BY InitInv, NextInv, PTL DEF Spec

\* The variables of the evidence run, the workers and the channels keep their
\* types, for any workers and batches.
THEOREM TypeCorrect == Spec => []TypeOK
<1>1. ClientInv => TypeOK
  BY DEF ClientInv
<1> QED
  BY <1>1, ClientInvariant, PTL

\* append validates the copy it was given, so nothing invalid becomes evidence,
\* whenever the host changes its dict (client.py:60 and 74, evidence.py:97-101).
THEOREM OnlyValidatedIsEvidence == Spec => []EvidenceIsValidated
<1>1. ClientInv => EvidenceIsValidated
  BY DEF ClientInv
<1> QED
  BY <1>1, ClientInvariant, PTL

\* With an evidence sink no channel shows an event the run did not accept.
THEOREM OnlyEvidenceIsProjected == Spec => []ProjectedIsEvidence
<1>1. ClientInv => ProjectedIsEvidence
  BY DEF ClientInv
<1> QED
  BY <1>1, ClientInvariant, PTL

\* With an evidence sink no event reaches a channel twice, whatever threads
\* share it and however often its batch is retried: the run accepts it once,
\* and a route names each channel once.
THEOREM NoDoubleProjection == Spec => []ProjectedAtMostOnce
<1>1. ClientInv => ProjectedAtMostOnce
  BY DEF ClientInv
<1> QED
  BY <1>1, ClientInvariant, PTL

\* SUCCESS means that the whole batch is evidence and reached every channel.
THEOREM SuccessVouches == Spec => []SuccessIsWhole
<1>1. ClientInv => SuccessIsWhole
  <2> SUFFICES ASSUME ClientInv, NEW w \in Workers, answer[w] = "SUCCESS",
                      NEW i \in 1..Len(Batch[w]), NEW e,
                      e = EventOf(w, i, tries[w])
               PROVE  /\ HasEvidence => \E k \in 1..Len(log) : log[k] = e
                      /\ SpanOf[w] = "valid" => Reached("span", e)
                      /\ HasLog => Reached("log", e)
                      /\ HasMetrics =>
                             \A k \in 1..Len(Instruments(e)) :
                                 Reached(Instruments(e)[k], e)
    BY DEF SuccessIsWhole
  <2>1. Delivered(w, e)
    BY DEF ClientInv, DeliveredOK
  <2> QED
    BY <2>1 DEF Delivered, InLog, Elements
<1> QED
  BY <1>1, ClientInvariant, PTL

LEMMA NoTrace ==
    ASSUME ClientInv, NEW source_id,
           \A id : HasOrigin(id) => id[1] # source_id
    PROVE  LeavesNoTrace(source_id)
BY DEF ClientInv, TracesOK, Traces, LeavesNoTrace

\* A source that only occurs in batches with an unmappable source leaves no
\* trace: the sink maps a batch as a whole before it emits any of it.
THEOREM UnmappableIsDropped == Spec => []UnmappableDeliversNothing
<1>1. ClientInv => UnmappableDeliversNothing
  <2> SUFFICES ASSUME ClientInv, NEW source_id \in UnmappableSources
               PROVE  LeavesNoTrace(source_id)
    BY DEF UnmappableDeliversNothing
  <2>1. \A id : HasOrigin(id) => id[1] # source_id
    BY SourceTypes DEF HasOrigin, UnmappableSources
  <2> QED
    BY <2>1, NoTrace
<1> QED
  BY <1>1, ClientInvariant, PTL

\* An event the schema refuses, or whose span ids disagree with the active
\* span, leaves no trace: it is refused before append and before any channel.
THEOREM RefusedIsDropped == Spec => []RefusedLeavesNoTrace
<1>1. ClientInv => RefusedLeavesNoTrace
  <2> SUFFICES ASSUME ClientInv, NEW source_id \in RefusedSources
               PROVE  LeavesNoTrace(source_id)
    BY DEF RefusedLeavesNoTrace
  <2>1. \A id : HasOrigin(id) => id[1] # source_id
    BY SourceTypes DEF HasOrigin, RefusedSources
  <2> QED
    BY <2>1, NoTrace
<1> QED
  BY <1>1, ClientInvariant, PTL
=============================================================================
