------------------------- MODULE TsTelemetry_proofs -------------------------
(***************************************************************************)
(* Proofs about TsTelemetry, for any documents, limit and depth of calls.  *)
(***************************************************************************)
EXTENDS TsTelemetry, SequenceTheorems, TLAPS

Copies == [event_id : EventIds, valid : BOOLEAN, chainable : BOOLEAN]

Places == {"resolver", "append", "callback", "span", "log", "metric"}

Frames == [at : Places, event : Copies, position : Nat]

\* What append has checked of an event still holds while its callback runs.
DraftOK(f) ==
    /\ f.event.valid /\ f.event.chainable
    /\ f.event.event_id \notin Evidence!Accepted
    /\ f.position = Len(log)
    /\ Len(log) < MaxEvents
    /\ mutating /\ ~sealed

FrameOK(f) ==
    /\ f.event.valid => f.event \in Documents
    /\ f.at = "callback" => DraftOK(f)
    /\ f.at \in {"span", "log", "metric"} => f.event.event_id \in Evidence!Accepted

\* An emit that waits for its append is the caller of the callback above it.
CallerOK(frames, i) ==
    frames[i].at = "append" =>
        /\ i < Len(frames)
        /\ frames[i+1].at = "callback"
        /\ frames[i+1].event.event_id = frames[i].event.event_id

OneDraft(frames) ==
    \A i, j \in 1..Len(frames) :
        frames[i].at = "callback" /\ frames[j].at = "callback" => i = j

TypeOK ==
    /\ log \in Seq(Documents)
    /\ durable \subseteq EventIds
    /\ sealed \in BOOLEAN
    /\ mutating \in BOOLEAN
    /\ stack \in Seq(Frames)

StackInv ==
    /\ TypeOK
    /\ \A i \in 1..Len(stack) : FrameOK(stack[i]) /\ CallerOK(stack, i)
    /\ OneDraft(stack)
    /\ mutating => \E i \in 1..Len(stack) : stack[i].at = "callback"
    /\ ProjectedIsEvidence

-----------------------------------------------------------------------------
(***************************************************************************)
(* The stack, call by call.                                                *)
(***************************************************************************)
LEMMA FrontOf ==
    ASSUME NEW s \in Seq(Frames), s # << >>
    PROVE  /\ Front(s) \in Seq(Frames)
           /\ Len(s) \in Nat \ {0}
           /\ Len(Front(s)) = Len(s) - 1
           /\ \A i \in 1..Len(s) - 1 : Front(s)[i] = s[i]
           /\ Last(s) = s[Len(s)] /\ Last(s) \in Frames
<1>1. Len(s) \in Nat \ {0}
  BY EmptySeq
<1>2. \A i \in 1..Len(s) : s[i] \in Frames
  BY ElementOfSeq
<1> DEFINE n == Len(s) - 1
<1>3. n \in Int /\ 1 \in Int /\ \A i \in 1..n : s[i] \in Frames
  BY <1>1, <1>2
<1> HIDE DEF n
<1>4. /\ SubSeq(s, 1, n) \in Seq(Frames)
      /\ Len(SubSeq(s, 1, n)) = IF 1 <= n THEN n - 1 + 1 ELSE 0
      /\ \A i \in 1..n - 1 + 1 : SubSeq(s, 1, n)[i] = s[1 + i - 1]
  BY <1>3, SubSeqProperties
<1>5. n = Len(s) - 1 /\ Front(s) = SubSeq(s, 1, n)
  BY DEF n, Front
<1>6. /\ Front(s) \in Seq(Frames)
      /\ Len(Front(s)) = Len(s) - 1
  BY <1>1, <1>4, <1>5
<1>7. \A i \in 1..Len(s) - 1 : Front(s)[i] = s[i]
  <2> TAKE i \in 1..Len(s) - 1
  <2>1. i \in 1..n - 1 + 1 /\ 1 + i - 1 = i
    BY <1>1, <1>5
  <2> QED
    BY <1>4, <1>5, <2>1
<1>8. Last(s) = s[Len(s)] /\ Last(s) \in Frames
  BY <1>1, <1>2 DEF Last
<1>9. QED
  BY <1>1, <1>6, <1>7, <1>8

LEMMA MovedOf ==
    ASSUME NEW s \in Seq(Frames), s # << >>, NEW place \in Places
    PROVE  /\ Moved(s, place) \in Seq(Frames)
           /\ Len(Moved(s, place)) = Len(s)
           /\ \A i \in 1..Len(s) - 1 : Moved(s, place)[i] = s[i]
           /\ Moved(s, place)[Len(s)].at = place
           /\ Moved(s, place)[Len(s)].event = s[Len(s)].event
<1> DEFINE f == [s[Len(s)] EXCEPT !.at = place]
<1>1. Len(s) \in Nat \ {0} /\ s[Len(s)] \in Frames
  BY FrontOf
<1>2. f \in Frames /\ f.at = place /\ f.event = s[Len(s)].event
  BY <1>1 DEF Frames
<1>3. Moved(s, place) = [s EXCEPT ![Len(s)] = f]
  BY DEF Moved
<1> HIDE DEF f
<1>4. QED
  BY <1>1, <1>2, <1>3, ExceptSeq

\* An emit that waits for its append is never on top.
LEMMA TopIsNotWaiting ==
    ASSUME StackInv, stack # << >>
    PROVE  Top.at # "append"
<1>1. Len(stack) \in 1..Len(stack) /\ Top = stack[Len(stack)]
  BY FrontOf DEF StackInv, TypeOK, Top
<1>2. QED
  BY <1>1 DEF StackInv, CallerOK

\* A call that is not waiting for its callback ends.
LEMMA CallEnds ==
    ASSUME StackInv, stack # << >>, Top.at # "callback",
           stack' = Front(stack),
           UNCHANGED <<log, durable, sealed, mutating>>,
           ProjectedIsEvidence'
    PROVE  StackInv'
<1>1. /\ stack' \in Seq(Frames) /\ Len(stack) \in Nat \ {0}
      /\ Len(stack') = Len(stack) - 1
      /\ \A i \in 1..Len(stack) - 1 : stack'[i] = stack[i]
      /\ Top = stack[Len(stack)]
  BY FrontOf DEF StackInv, TypeOK, Top
<1>2. TypeOK'
  BY <1>1 DEF StackInv, TypeOK
<1>3. ASSUME NEW i \in 1..Len(stack')
      PROVE  FrameOK(stack[i])'
  <2>1. i \in 1..Len(stack) /\ stack'[i] = stack[i]
    BY <1>1
  <2>2. FrameOK(stack[i])
    BY <2>1 DEF StackInv
  <2> QED
    BY <2>1, <2>2 DEF FrameOK, DraftOK, Evidence!Accepted
<1>4. \A i \in 1..Len(stack') : CallerOK(stack', i)
  <2>1. SUFFICES ASSUME NEW i \in 1..Len(stack'), stack'[i].at = "append"
                 PROVE  /\ i < Len(stack')
                        /\ stack'[i+1].at = "callback"
                        /\ stack'[i+1].event.event_id = stack'[i].event.event_id
    BY DEF CallerOK
  <2>2. /\ i \in 1..Len(stack) /\ i + 1 \in 1..Len(stack) /\ stack'[i] = stack[i]
        /\ stack[i+1].at = "callback"
        /\ stack[i+1].event.event_id = stack[i].event.event_id
    BY <1>1, <2>1 DEF StackInv, CallerOK
  <2>3. i + 1 # Len(stack)
    BY <1>1, <2>2
  <2> QED
    BY <1>1, <2>2, <2>3
<1>5. OneDraft(stack')
  <2>1. \A i \in 1..Len(stack') : i \in 1..Len(stack) /\ stack'[i] = stack[i]
    BY <1>1
  <2> QED
    BY <2>1 DEF StackInv, OneDraft
<1>6. mutating' => \E i \in 1..Len(stack') : stack'[i].at = "callback"
  BY <1>1 DEF StackInv
<1> QED
  BY <1>1, <1>2, <1>3, <1>4, <1>5, <1>6 DEF StackInv
-----------------------------------------------------------------------------
(***************************************************************************)
(* append: its callback is pushed on its caller, or it throws.             *)
(***************************************************************************)
LEMMA Accepts ==
    ASSUME NEW e, log \in Seq(Documents), e \in Documents, log' = Append(log, e)
    PROVE  /\ log' \in Seq(Documents)
           /\ Len(log') = Len(log) + 1
           /\ Evidence!Accepted' = Evidence!Accepted \cup {e.event_id}
<1>1. /\ log' \in Seq(Documents) /\ Len(log) \in Nat
      /\ Len(log') = Len(log) + 1
      /\ \A i \in 1..Len(log) : log'[i] = log[i]
      /\ log'[Len(log) + 1] = e
  BY AppendProperties, LenProperties
<1>2. QED
  BY <1>1 DEF Evidence!Accepted

LEMMA NoDraft ==
    ASSUME StackInv, ~mutating, NEW i \in 1..Len(stack)
    PROVE  stack[i].at # "callback"
BY DEF StackInv, FrameOK, DraftOK

\* No frame waits for an append unless a callback is on the stack.
LEMMA NoneWaits ==
    ASSUME StackInv, ~mutating, NEW i \in 1..Len(stack)
    PROVE  stack[i].at # "append"
<1>1. Len(stack) \in Nat
  BY LenProperties DEF StackInv, TypeOK
<1>2. ASSUME stack[i].at = "append" PROVE FALSE
  <2>1. i + 1 \in 1..Len(stack) /\ stack[i+1].at = "callback"
    BY <1>1, <1>2 DEF StackInv, CallerOK
  <2> QED
    BY <2>1, NoDraft
<1> QED
  BY <1>2

\* The frames an append is called on: those of the host's code, or those of the
\* emit on top.
CalledOn(e, frames) ==
    \/ frames = stack
    \/ /\ TopAt("resolver") /\ Top.event = e
       /\ frames = Moved(stack, "append")

LEMMA CalledOnIs ==
    ASSUME StackInv, NEW e, NEW frames, CalledOn(e, frames)
    PROVE  /\ frames \in Seq(Frames) /\ Len(frames) = Len(stack)
           /\ Len(stack) \in Nat
           /\ \A i \in 1..Len(stack) :
                  /\ frames[i].event = stack[i].event
                  /\ \/ frames[i] = stack[i]
                     \/ i = Len(stack) /\ frames[i].at = "append"
                                       /\ frames[i].event = e
<1>1. stack \in Seq(Frames) /\ Len(stack) \in Nat
  BY LenProperties DEF StackInv, TypeOK
<1>2. CASE frames = stack
  BY <1>1, <1>2
<1>3. CASE TopAt("resolver") /\ Top.event = e /\ frames = Moved(stack, "append")
  <2>1. stack # << >> /\ "append" \in Places
    BY <1>3 DEF TopAt, Places
  <2>2. Top = stack[Len(stack)]
    BY <1>1, <2>1, FrontOf DEF Top
  <2>3. /\ frames \in Seq(Frames) /\ Len(frames) = Len(stack)
        /\ \A i \in 1..Len(stack) - 1 : frames[i] = stack[i]
        /\ frames[Len(stack)].at = "append"
        /\ frames[Len(stack)].event = stack[Len(stack)].event
    BY <1>1, <1>3, <2>1, MovedOf
  <2> QED
    BY <1>1, <1>3, <2>2, <2>3
<1> QED
  BY <1>2, <1>3 DEF CalledOn

LEMMA AppendDrafts ==
    ASSUME StackInv, NEW e \in Copies, e.valid => e \in Documents,
           NEW frames, CalledOn(e, frames), Admitted(e), append(e, frames),
           UNCHANGED <<durable, sealed, projected>>
    PROVE  StackInv'
<1> DEFINE f == [at |-> "callback", event |-> e, position |-> Len(log)]
           n == Len(stack)
<1>1. /\ frames \in Seq(Frames) /\ Len(frames) = n /\ n \in Nat
      /\ \A i \in 1..n :
             /\ frames[i].event = stack[i].event
             /\ \/ frames[i] = stack[i]
                \/ i = n /\ frames[i].at = "append" /\ frames[i].event = e
  BY CalledOnIs
<1>2. f \in Frames /\ f.at = "callback" /\ f.event = e /\ f.position = Len(log)
  BY LenProperties DEF Frames, Places, StackInv, TypeOK
<1>3. stack' = Append(frames, f) /\ mutating' = TRUE /\ log' = log
  BY DEF append
<1>4. /\ stack' \in Seq(Frames) /\ Len(stack') = n + 1
      /\ \A i \in 1..n : stack'[i] = frames[i]
      /\ stack'[n + 1] = f
  BY <1>1, <1>2, <1>3, AppendProperties
<1> HIDE DEF f, n
<1>5. \A i \in 1..n : stack[i].at \notin {"callback", "append"}
  BY NoDraft, NoneWaits DEF n, Admitted
<1>6. TypeOK'
  BY <1>3, <1>4 DEF StackInv, TypeOK
<1>7. ASSUME NEW i \in 1..n + 1
      PROVE  FrameOK(stack[i])'
  <2>1. CASE i = n + 1
    BY <1>2, <1>3, <1>4, <2>1 DEF FrameOK, DraftOK, Admitted, Evidence!Accepted
  <2>2. CASE i \in 1..n
    <3>1. FrameOK(stack[i])
      BY <2>2 DEF StackInv, n
    <3> QED
      BY <1>1, <1>3, <1>4, <1>5, <2>2, <3>1 DEF FrameOK, Evidence!Accepted
  <2> QED
    BY <1>1, <2>1, <2>2
<1>8. \A i \in 1..n + 1 : CallerOK(stack', i)
  BY <1>1, <1>2, <1>4, <1>5 DEF CallerOK
<1>9. \A i \in 1..n + 1 : stack'[i].at = "callback" => i = n + 1
  BY <1>1, <1>4, <1>5
<1>10. OneDraft(stack') /\ \E i \in 1..n + 1 : stack'[i].at = "callback"
  BY <1>1, <1>2, <1>4, <1>9 DEF OneDraft
<1>11. ProjectedIsEvidence'
  BY <1>3 DEF StackInv, ProjectedIsEvidence, Evidence!Accepted
<1> QED
  BY <1>4, <1>6, <1>7, <1>8, <1>10, <1>11 DEF StackInv

LEMMA AppendThrows ==
    ASSUME StackInv, NEW e \in Copies, NEW frames, CalledOn(e, frames),
           ~Admitted(e), append(e, frames),
           UNCHANGED <<durable, sealed, projected>>
    PROVE  StackInv'
<1>1. stack' = Thrown(frames) /\ UNCHANGED <<log, mutating>>
  BY DEF append
<1>2. ProjectedIsEvidence'
  BY <1>1 DEF StackInv, ProjectedIsEvidence, Evidence!Accepted
<1>3. CASE frames = stack
  <2>1. stack' = stack
    BY <1>1, <1>3, TopIsNotWaiting DEF Thrown, Top
  <2> QED
    BY <1>1, <1>2, <2>1 DEF StackInv, TypeOK, FrameOK, DraftOK, Evidence!Accepted
<1>4. CASE TopAt("resolver") /\ frames = Moved(stack, "append")
  <2>1. stack # << >> /\ "append" \in Places /\ stack \in Seq(Frames)
    BY <1>4 DEF TopAt, Places, StackInv, TypeOK
  <2>2. /\ frames \in Seq(Frames) /\ Len(frames) = Len(stack)
        /\ Len(stack) \in Nat \ {0}
        /\ \A i \in 1..Len(stack) - 1 : frames[i] = stack[i]
        /\ frames[Len(stack)].at = "append"
    BY <1>4, <2>1, MovedOf, FrontOf
  <2>3. frames # << >>
    BY <2>2, EmptySeq
  <2>4. stack' = Front(frames)
    BY <1>1, <2>2, <2>3, FrontOf DEF Thrown
  <2>5. /\ Front(frames) \in Seq(Frames) /\ Front(stack) \in Seq(Frames)
        /\ Len(Front(frames)) = Len(stack) - 1
        /\ Len(Front(stack)) = Len(stack) - 1
        /\ \A i \in 1..Len(stack) - 1 : Front(frames)[i] = frames[i]
        /\ \A i \in 1..Len(stack) - 1 : Front(stack)[i] = stack[i]
    BY <2>1, <2>2, <2>3, FrontOf
  <2>6. \A i \in 1..Len(Front(frames)) : Front(frames)[i] = Front(stack)[i]
    BY <2>2, <2>5
  <2>7. Front(frames) = Front(stack)
    BY <2>5, <2>6, SeqEqual
  <2> QED
    BY <1>1, <1>2, <1>4, <2>1, <2>4, <2>7, CallEnds DEF TopAt
<1> QED
  BY <1>3, <1>4 DEF CalledOn
-----------------------------------------------------------------------------
(***************************************************************************)
(* A callback returns.  Its frame is the only draft and the only one an    *)
(* emit waits for.                                                         *)
(***************************************************************************)
\* The frames below the callback, of which the caller may have moved on.
LEMMA Unwound ==
    ASSUME StackInv, TopAt("callback"), mutating' = FALSE,
           UNCHANGED <<durable, sealed, projected>>,
           log' \in Seq(Documents), Evidence!Accepted \subseteq Evidence!Accepted',
           stack' \in Seq(Frames), Len(stack') < Len(stack),
           \A i \in 1..Len(stack') :
               \/ stack'[i] = stack[i] /\ stack[i].at # "append"
               \/ /\ stack'[i].event = stack[i].event /\ stack'[i].at = "span"
                  /\ stack[i].event.event_id \in Evidence!Accepted'
    PROVE  StackInv'
<1>1. /\ Len(stack) \in Nat \ {0} /\ stack[Len(stack)].at = "callback"
      /\ Len(stack') \in Nat
  BY FrontOf, LenProperties DEF TopAt, Top, StackInv, TypeOK
<1>2. \A i \in 1..Len(stack') : i \in 1..Len(stack) /\ stack[i].at # "callback"
  BY <1>1 DEF StackInv, OneDraft
<1>3. TypeOK'
  BY DEF StackInv, TypeOK
<1>4. \A i \in 1..Len(stack') : stack'[i].at \notin {"callback", "append"}
  BY <1>2
<1>5. ASSUME NEW i \in 1..Len(stack')
      PROVE  FrameOK(stack[i])'
  <2>1. FrameOK(stack[i])
    BY <1>2 DEF StackInv
  <2> QED
    BY <1>2, <1>4, <2>1 DEF FrameOK
<1>6. \A i \in 1..Len(stack') : CallerOK(stack', i)
  BY <1>4 DEF CallerOK
<1>7. OneDraft(stack')
  BY <1>4 DEF OneDraft
<1>8. ProjectedIsEvidence'
  BY DEF StackInv, ProjectedIsEvidence
<1> QED
  BY <1>3, <1>5, <1>6, <1>7, <1>8 DEF StackInv

\* What is below the callback.
LEMMA BelowCallback ==
    ASSUME StackInv, TopAt("callback")
    PROVE  /\ Front(stack) \in Seq(Frames)
           /\ Len(Front(stack)) = Len(stack) - 1 /\ Len(stack) \in Nat \ {0}
           /\ Top = stack[Len(stack)] /\ DraftOK(Top) /\ Top \in Frames
           /\ Top.event \in Documents
           /\ \A i \in 1..Len(stack) - 1 :
                  /\ Front(stack)[i] = stack[i]
                  /\ stack[i].at = "append" =>
                         /\ i = Len(stack) - 1
                         /\ stack[i].event.event_id = Top.event.event_id
<1>1. /\ Front(stack) \in Seq(Frames)
      /\ Len(Front(stack)) = Len(stack) - 1 /\ Len(stack) \in Nat \ {0}
      /\ Top = stack[Len(stack)] /\ Top \in Frames
      /\ \A i \in 1..Len(stack) - 1 : Front(stack)[i] = stack[i]
  BY FrontOf DEF TopAt, Top, StackInv, TypeOK
<1>2. DraftOK(Top) /\ Top.event \in Documents
  BY <1>1 DEF StackInv, FrameOK, TopAt, DraftOK
<1>3. ASSUME NEW i \in 1..Len(stack) - 1, stack[i].at = "append"
      PROVE  i = Len(stack) - 1 /\ stack[i].event.event_id = Top.event.event_id
  <2>1. /\ i + 1 \in 1..Len(stack) /\ stack[i+1].at = "callback"
        /\ stack[i+1].event.event_id = stack[i].event.event_id
    BY <1>1, <1>3 DEF StackInv, CallerOK
  <2>2. i + 1 = Len(stack)
    BY <1>1, <2>1 DEF StackInv, OneDraft, TopAt
  <2> QED
    BY <1>1, <2>1, <2>2
<1> QED
  BY <1>1, <1>2, <1>3

LEMMA ReturnsInv ==
    ASSUME StackInv, CallbackReturns
    PROVE  StackInv'
<1> DEFINE F == Front(stack)
           n == Len(stack)
<1>1. /\ F \in Seq(Frames) /\ Len(F) = n - 1 /\ n \in Nat \ {0}
      /\ DraftOK(Top) /\ Top.event \in Documents
      /\ \A i \in 1..n - 1 :
             /\ F[i] = stack[i]
             /\ stack[i].at = "append" =>
                    /\ i = n - 1
                    /\ stack[i].event.event_id = Top.event.event_id
  BY BelowCallback DEF CallbackReturns
<1>2. /\ TopAt("callback") /\ mutating' = FALSE
      /\ UNCHANGED <<durable, sealed, projected>>
  BY DEF CallbackReturns
<1>3. /\ F = << >> => n = 1
      /\ F # << >> => /\ n - 1 \in 1..n - 1 /\ Last(F) = stack[n - 1]
                      /\ Front(F) \in Seq(Frames) /\ Len(Front(F)) = n - 2
                      /\ \A i \in 1..n - 2 : Front(F)[i] = F[i]
                      /\ Moved(F, "span") \in Seq(Frames)
                      /\ Len(Moved(F, "span")) = n - 1
                      /\ \A i \in 1..n - 2 : Moved(F, "span")[i] = F[i]
                      /\ Moved(F, "span")[n - 1].at = "span"
                      /\ Moved(F, "span")[n - 1].event = F[n - 1].event
  <2>1. F = << >> => n = 1
    BY <1>1, EmptySeq
  <2>2. ASSUME F # << >>
        PROVE  /\ Front(F) \in Seq(Frames) /\ Len(Front(F)) = Len(F) - 1
               /\ Len(F) \in Nat \ {0}
               /\ \A i \in 1..Len(F) - 1 : Front(F)[i] = F[i]
               /\ Last(F) = F[Len(F)]
    BY <1>1, <2>2, FrontOf
  <2>3. ASSUME F # << >>
        PROVE  /\ Moved(F, "span") \in Seq(Frames)
               /\ Len(Moved(F, "span")) = Len(F)
               /\ \A i \in 1..Len(F) - 1 : Moved(F, "span")[i] = F[i]
               /\ Moved(F, "span")[Len(F)].at = "span"
               /\ Moved(F, "span")[Len(F)].event = F[Len(F)].event
    <3>1. "span" \in Places
      BY DEF Places
    <3> QED
      BY <1>1, <2>3, <3>1, MovedOf
  <2> HIDE DEF F, n
  <2> QED
    BY <1>1, <2>1, <2>2, <2>3
<1> HIDE DEF F, n
<1>4. CASE /\ log' = Append(log, Top.event) /\ stack' = Returned(F)
  <2>1. /\ log' \in Seq(Documents)
        /\ Evidence!Accepted' = Evidence!Accepted \cup {Top.event.event_id}
    BY <1>1, <1>4, Accepts DEF StackInv, TypeOK
  <2>2. CASE F # << >> /\ Last(F).at = "append"
    <3>1. stack' = Moved(F, "span")
      BY <1>4, <2>2 DEF Returned
    <3>2. stack[n - 1].event.event_id \in Evidence!Accepted'
      BY <1>1, <1>3, <2>1, <2>2
    <3>3. \A i \in 1..n - 1 :
              \/ stack'[i] = stack[i] /\ stack[i].at # "append"
              \/ /\ stack'[i].event = stack[i].event /\ stack'[i].at = "span"
                 /\ stack[i].event.event_id \in Evidence!Accepted'
      <4> TAKE i \in 1..n - 1
      <4>1. i = n - 1 \/ i \in 1..n - 2
        BY <1>1
      <4> QED
        BY <1>1, <1>3, <2>2, <3>1, <3>2, <4>1
    <3>4. stack' \in Seq(Frames) /\ Len(stack') = n - 1 /\ n - 1 < n
      BY <1>1, <1>3, <2>2, <3>1
    <3> QED
      BY <1>2, <2>1, <3>3, <3>4, Unwound DEF n
  <2>3. CASE ~(F # << >> /\ Last(F).at = "append")
    <3>1. stack' = F
      BY <1>4, <2>3 DEF Returned
    <3>2. \A i \in 1..n - 1 : stack'[i] = stack[i] /\ stack[i].at # "append"
      BY <1>1, <1>3, <2>3, <3>1
    <3>3. stack' \in Seq(Frames) /\ Len(stack') = n - 1 /\ n - 1 < n
      BY <1>1, <3>1
    <3> QED
      BY <1>2, <2>1, <3>2, <3>3, Unwound DEF n
  <2> QED
    BY <2>2, <2>3
<1>5. CASE stack' = Thrown(F) /\ UNCHANGED log
  <2>1. log' \in Seq(Documents) /\ Evidence!Accepted' = Evidence!Accepted
    BY <1>5 DEF StackInv, TypeOK, Evidence!Accepted
  <2>2. CASE F # << >> /\ Last(F).at = "append"
    <3>1. stack' = Front(F)
      BY <1>5, <2>2 DEF Thrown
    <3>2. stack' \in Seq(Frames) /\ Len(stack') = n - 2 /\ n - 2 < n
      BY <1>1, <1>3, <2>2, <3>1
    <3>3. \A i \in 1..n - 2 : stack'[i] = stack[i] /\ stack[i].at # "append"
      BY <1>1, <1>3, <2>2, <3>1
    <3> QED
      BY <1>2, <2>1, <3>2, <3>3, Unwound DEF n
  <2>3. CASE ~(F # << >> /\ Last(F).at = "append")
    <3>1. stack' = F
      BY <1>5, <2>3 DEF Thrown
    <3>2. \A i \in 1..n - 1 : stack'[i] = stack[i] /\ stack[i].at # "append"
      BY <1>1, <1>3, <2>3, <3>1
    <3>3. stack' \in Seq(Frames) /\ Len(stack') = n - 1 /\ n - 1 < n
      BY <1>1, <3>1
    <3> QED
      BY <1>2, <2>1, <3>2, <3>3, Unwound DEF n
  <2> QED
    BY <2>2, <2>3
<1> QED
  BY <1>4, <1>5 DEF CallbackReturns, F
-----------------------------------------------------------------------------
(***************************************************************************)
(* The other steps.                                                        *)
(***************************************************************************)
LEMMA DocumentsAreCopies == Documents \subseteq Copies
BY DocumentsAssumption DEF Copies

LEMMA TopEvent ==
    ASSUME StackInv, stack # << >>
    PROVE  /\ Len(stack) \in 1..Len(stack) /\ Top = stack[Len(stack)]
           /\ Top \in Frames /\ Top.event \in Copies
           /\ Top.event.valid => Top.event \in Documents
           /\ FrameOK(Top)
<1>1. Len(stack) \in 1..Len(stack) /\ Top = stack[Len(stack)] /\ Top \in Frames
  BY FrontOf DEF StackInv, TypeOK, Top
<1>2. FrameOK(Top)
  BY <1>1 DEF StackInv
<1> QED
  BY <1>1, <1>2 DEF FrameOK, Frames

LEMMA CallAppendInv ==
    ASSUME StackInv, NEW e \in Documents, CallAppend(e)
    PROVE  StackInv'
<1>1. /\ CalledOn(e, stack) /\ append(e, stack) /\ e \in Copies
      /\ UNCHANGED <<durable, sealed, projected>>
  BY DocumentsAreCopies DEF CalledOn, CallAppend
<1> QED
  BY <1>1, AppendDrafts, AppendThrows

LEMMA ResolverReturnsInv ==
    ASSUME StackInv, ResolverReturns
    PROVE  StackInv'
<1>1. TopAt("resolver") /\ stack # << >> /\ Top.at = "resolver"
  BY DEF ResolverReturns, TopAt
<1>2. UNCHANGED <<durable, sealed, projected>>
  BY DEF ResolverReturns
<1>3. CASE stack' = Front(stack) /\ UNCHANGED <<log, mutating>>
  <2>1. ProjectedIsEvidence'
    BY <1>2, <1>3 DEF StackInv, ProjectedIsEvidence, Evidence!Accepted
  <2> QED
    BY <1>1, <1>2, <1>3, <2>1, CallEnds
<1>4. CASE append(Top.event, Moved(stack, "append"))
  <2>1. CalledOn(Top.event, Moved(stack, "append"))
    BY <1>1 DEF CalledOn
  <2> QED
    BY <1>1, <1>2, <1>4, <2>1, TopEvent, AppendDrafts, AppendThrows
<1> QED
  BY <1>3, <1>4 DEF ResolverReturns

LEMMA CallEmitInv ==
    ASSUME StackInv, NEW e \in Documents, CallEmit(e)
    PROVE  StackInv'
<1> DEFINE f == [at |-> "resolver", event |-> e, position |-> 0]
           n == Len(stack)
<1>1. f \in Frames /\ f.at = "resolver" /\ f.event = e
  BY DocumentsAreCopies DEF Frames, Places
<1>2. /\ stack' = Append(stack, f)
      /\ UNCHANGED <<log, durable, sealed, mutating, projected>>
  BY DEF CallEmit
<1>3. /\ stack' \in Seq(Frames) /\ Len(stack') = n + 1 /\ n \in Nat
      /\ \A i \in 1..n : stack'[i] = stack[i]
      /\ stack'[n + 1] = f
  BY <1>1, <1>2, AppendProperties, LenProperties DEF StackInv, TypeOK
<1> HIDE DEF f
<1>4. TypeOK'
  BY <1>2, <1>3 DEF StackInv, TypeOK
<1>5. ASSUME NEW i \in 1..n + 1
      PROVE  FrameOK(stack[i])'
  <2>1. CASE i = n + 1
    BY <1>1, <1>3, <2>1 DEF FrameOK
  <2>2. CASE i \in 1..n
    <3>1. FrameOK(stack[i]) /\ stack'[i] = stack[i]
      BY <1>3, <2>2 DEF StackInv
    <3> QED
      BY <1>2, <3>1 DEF FrameOK, DraftOK, Evidence!Accepted
  <2> QED
    BY <1>3, <2>1, <2>2
<1>6. ASSUME NEW i \in 1..n + 1
      PROVE  CallerOK(stack', i)
  <2>1. CASE i = n + 1
    BY <1>1, <1>3, <2>1 DEF CallerOK
  <2>2. CASE i \in 1..n
    <3>1. CallerOK(stack, i) /\ stack'[i] = stack[i]
      BY <1>3, <2>2 DEF StackInv
    <3>2. i < n => i + 1 \in 1..n /\ stack'[i+1] = stack[i+1]
      BY <1>3, <2>2
    <3> QED
      BY <1>3, <2>2, <3>1, <3>2 DEF CallerOK
  <2> QED
    BY <1>3, <2>1, <2>2
<1>7. \A i \in 1..n + 1 :
          stack'[i].at = "callback" => i \in 1..n /\ stack[i].at = "callback"
  <2> TAKE i \in 1..n + 1
  <2>1. i = n + 1 \/ i \in 1..n
    BY <1>3
  <2> QED
    BY <1>1, <1>3, <2>1
<1>8. OneDraft(stack')
  BY <1>3, <1>7 DEF StackInv, OneDraft
<1>9. mutating' => \E i \in 1..Len(stack') : stack'[i].at = "callback"
  <2>1. \A i \in 1..n : i \in 1..n + 1 /\ stack'[i] = stack[i]
    BY <1>3
  <2> QED
    BY <1>2, <1>3, <2>1 DEF StackInv
<1>10. ProjectedIsEvidence'
  BY <1>2 DEF StackInv, ProjectedIsEvidence, Evidence!Accepted
<1> QED
  BY <1>3, <1>4, <1>5, <1>6, <1>8, <1>9, <1>10 DEF StackInv

LEMMA StoreWritesInv ==
    ASSUME StackInv, StoreWrites
    PROVE  StackInv'
<1>1. Top.event.event_id \in EventIds
  BY TopEvent DEF StoreWrites, TopAt, Copies
<1>2. /\ durable' = durable \cup {Top.event.event_id}
      /\ UNCHANGED <<log, sealed, mutating, stack, projected>>
  BY DEF StoreWrites
<1>3. TypeOK'
  BY <1>1, <1>2 DEF StackInv, TypeOK
<1>4. \A f : FrameOK(f)' <=> FrameOK(f)
  BY <1>2 DEF FrameOK, DraftOK, Evidence!Accepted
<1> QED
  BY <1>2, <1>3 DEF StackInv, FrameOK, DraftOK, ProjectedIsEvidence,
                    Evidence!Accepted

LEMMA CallSealInv ==
    ASSUME StackInv, NEW c, CallSeal(c)
    PROVE  StackInv'
<1>1. /\ ~mutating /\ sealed' = TRUE
      /\ UNCHANGED <<log, durable, mutating, stack, projected>>
  BY DEF CallSeal, Evidence!Seal
<1>2. TypeOK'
  BY <1>1 DEF StackInv, TypeOK
<1>3. ASSUME NEW i \in 1..Len(stack)
      PROVE  FrameOK(stack[i])'
  <2>1. FrameOK(stack[i]) /\ stack[i].at # "callback"
    BY <1>1, NoDraft DEF StackInv
  <2> QED
    BY <1>1, <2>1 DEF FrameOK, Evidence!Accepted
<1> QED
  BY <1>1, <1>2, <1>3 DEF StackInv, ProjectedIsEvidence, Evidence!Accepted

\* One frame changes, and is neither a callback nor an emit that waits for one.
LEMMA FrameChanges ==
    ASSUME StackInv, NEW k \in 1..Len(stack), NEW f \in Frames,
           stack' = [stack EXCEPT ![k] = f],
           stack[k].at # "callback", f.at # "callback",
           f.at = "append" => stack[k].at = "append",
           f.event.event_id = stack[k].event.event_id,
           f.event.valid => f.event \in Documents,
           f.at \in {"span", "log", "metric"} =>
               f.event.event_id \in Evidence!Accepted,
           UNCHANGED <<log, durable, sealed, mutating>>,
           ProjectedIsEvidence'
    PROVE  StackInv'
<1>1. /\ stack' \in Seq(Frames) /\ Len(stack') = Len(stack) /\ Len(stack) \in Nat
      /\ \A i \in 1..Len(stack) : stack'[i] = IF i = k THEN f ELSE stack[i]
  BY ExceptSeq, LenProperties DEF StackInv, TypeOK
<1>2. TypeOK'
  BY <1>1 DEF StackInv, TypeOK
<1>3. ASSUME NEW i \in 1..Len(stack)
      PROVE  FrameOK(stack[i])'
  <2>1. CASE i = k
    BY <1>1, <2>1 DEF FrameOK, Evidence!Accepted
  <2>2. CASE i # k
    <3>1. FrameOK(stack[i]) /\ stack'[i] = stack[i]
      BY <1>1, <2>2 DEF StackInv
    <3> QED
      BY <3>1 DEF FrameOK, DraftOK, Evidence!Accepted
  <2> QED
    BY <2>1, <2>2
<1>4. ASSUME NEW i \in 1..Len(stack), stack'[i].at = "append"
      PROVE  /\ i < Len(stack') /\ stack'[i+1].at = "callback"
             /\ stack'[i+1].event.event_id = stack'[i].event.event_id
  <2>1. /\ stack[i].at = "append"
        /\ stack'[i].event.event_id = stack[i].event.event_id
    BY <1>1, <1>4
  <2>2. /\ i < Len(stack) /\ i + 1 \in 1..Len(stack)
        /\ stack[i+1].at = "callback"
        /\ stack[i+1].event.event_id = stack[i].event.event_id
    BY <1>1, <2>1 DEF StackInv, CallerOK
  <2>3. i + 1 # k
    BY <2>2
  <2> QED
    BY <1>1, <2>1, <2>2, <2>3
<1>5. \A i \in 1..Len(stack) : stack'[i].at = "callback" <=> stack[i].at = "callback"
  BY <1>1
<1>6. OneDraft(stack')
  BY <1>1, <1>5 DEF StackInv, OneDraft
<1>7. mutating' => \E i \in 1..Len(stack') : stack'[i].at = "callback"
  BY <1>1, <1>5 DEF StackInv
<1> QED
  BY <1>1, <1>2, <1>3, <1>4, <1>6, <1>7 DEF StackInv, CallerOK

LEMMA ProjectionReturnsInv ==
    ASSUME StackInv, ProjectionReturns
    PROVE  StackInv'
<1>1. /\ stack # << >> /\ Top.at \in {"span", "log", "metric"}
      /\ UNCHANGED <<log, durable, sealed, mutating>>
  BY DEF ProjectionReturns
<1>2. /\ Len(stack) \in 1..Len(stack) /\ Top = stack[Len(stack)] /\ Top \in Frames
      /\ Top.event.valid => Top.event \in Documents
      /\ Top.event.event_id \in Evidence!Accepted
  BY <1>1, TopEvent DEF FrameOK
<1>3. ProjectedIsEvidence'
  <2>1. \A x \in projected' :
            x \in projected \/ x = <<Top.at, Top.event.event_id>>
    BY DEF ProjectionReturns
  <2>2. \A x \in projected' : x[2] \in Evidence!Accepted
    BY <1>2, <2>1 DEF StackInv, ProjectedIsEvidence
  <2> QED
    BY <1>1, <2>2 DEF ProjectedIsEvidence, Evidence!Accepted
<1>4. CASE Top.at = "metric"
  <2>1. stack' = Front(stack)
    BY <1>4 DEF ProjectionReturns
  <2> QED
    BY <1>1, <1>3, <1>4, <2>1, CallEnds
<1>5. CASE Top.at # "metric"
  <2> DEFINE f == [Top EXCEPT !.at = After[Top.at]]
  <2>1. After[Top.at] \in {"log", "metric"}
    BY <1>1, <1>5 DEF After
  <2>2. f \in Frames /\ f.at = After[Top.at] /\ f.event = Top.event
    BY <1>2, <2>1 DEF Frames, Places
  <2>3. stack' = [stack EXCEPT ![Len(stack)] = f]
    BY <1>2, <1>5 DEF ProjectionReturns, Moved
  <2> HIDE DEF f
  <2> QED
    BY <1>1, <1>2, <1>3, <2>1, <2>2, <2>3, FrameChanges
<1> QED
  BY <1>4, <1>5

LEMMA ChangeEventInv ==
    ASSUME StackInv, ChangeEvent
    PROVE  StackInv'
<1>1. PICK k \in 1..Len(stack) :
          /\ stack[k].at # "callback"
          /\ stack' = [stack EXCEPT ![k].event.valid = FALSE]
          /\ UNCHANGED <<log, durable, sealed, completeness, mutating, projected>>
  BY DEF ChangeEvent
<1> DEFINE f == [stack[k] EXCEPT !.event.valid = FALSE]
<1>2. stack[k] \in Frames /\ FrameOK(stack[k])
  BY ElementOfSeq DEF StackInv, TypeOK
<1>3. /\ f \in Frames /\ f.at = stack[k].at /\ f.event.valid = FALSE
      /\ f.event.event_id = stack[k].event.event_id
  BY <1>2 DEF Frames, Copies
<1>4. stack' = [stack EXCEPT ![k] = f]
  BY <1>1
<1> HIDE DEF f
<1>5. ProjectedIsEvidence'
  BY <1>1 DEF StackInv, ProjectedIsEvidence, Evidence!Accepted
<1> QED
  BY <1>1, <1>2, <1>3, <1>4, <1>5, FrameChanges DEF FrameOK
-----------------------------------------------------------------------------
LEMMA InitStack == Init => StackInv
<1> SUFFICES ASSUME Init PROVE StackInv
  OBVIOUS
<1>1. /\ log = << >> /\ durable = {} /\ sealed = FALSE /\ mutating = FALSE
      /\ stack = << >> /\ projected = {}
  BY DEF Init, Evidence!LogInit
<1>2. << >> \in Seq(Documents) /\ << >> \in Seq(Frames)
  BY EmptySeq
<1>3. \A i \in 1..Len(stack) : FALSE
  BY <1>1
<1>4. TypeOK
  BY <1>1, <1>2 DEF TypeOK
<1>5. OneDraft(stack)
  BY <1>3 DEF OneDraft
<1>6. ProjectedIsEvidence
  BY <1>1 DEF ProjectedIsEvidence
<1> QED
  BY <1>1, <1>3, <1>4, <1>5, <1>6 DEF StackInv

LEMMA NextStack ==
    ASSUME StackInv, [Next]_vars
    PROVE  StackInv'
<1>1. ASSUME NEW e \in Documents, CallAppend(e) \/ CallEmit(e)
      PROVE  StackInv'
  BY <1>1, CallAppendInv, CallEmitInv
<1>2. ASSUME NEW c, CallSeal(c)
      PROVE  StackInv'
  BY <1>2, CallSealInv
<1>3. CASE UNCHANGED vars
  BY <1>3 DEF vars, StackInv, TypeOK, FrameOK, DraftOK, CallerOK, OneDraft,
              ProjectedIsEvidence, Evidence!Accepted
<1> QED
  BY <1>1, <1>2, <1>3, StoreWritesInv, ReturnsInv, ResolverReturnsInv,
     ProjectionReturnsInv, ChangeEventInv
  DEF Next

LEMMA StackIsInductive == Spec => []StackInv
BY InitStack, NextStack, PTL DEF Spec

\* However deep the host's code nests its calls, one append at a time is in its
\* callback, and the position it drafted is still the next one.
THEOREM DraftsStayNext == Spec => []DraftIsNextEntry
<1>1. StackInv => DraftIsNextEntry
  BY DEF StackInv, DraftIsNextEntry, OneDraft, FrameOK, DraftOK
<1> QED
  BY <1>1, StackIsInductive, PTL

\* No call of emit, however nested, projects an event that append has refused.
THEOREM OnlyEvidenceIsProjected == Spec => []ProjectedIsEvidence
<1>1. StackInv => ProjectedIsEvidence
  BY DEF StackInv
<1> QED
  BY <1>1, StackIsInductive, PTL

-----------------------------------------------------------------------------
(***************************************************************************)
(* Each step is a step of the evidence log, or none.                       *)
(***************************************************************************)
Acceptable == {e \in Documents : e.valid /\ e.chainable}

LEMMA CallbackIsAcceptable ==
    ASSUME StackInv, TopAt("callback")
    PROVE  /\ Top.event \in Acceptable
           /\ ~sealed /\ Len(log) < MaxEvents
           /\ Top.event.event_id \notin Evidence!Accepted
BY BelowCallback DEF DraftOK, Acceptable

LEMMA WritePersists ==
    ASSUME StackInv, StoreWrites
    PROVE  Evidence!LogNext
<1>1. Evidence!Persist(Top.event)
  BY CallbackIsAcceptable DEF StoreWrites, Evidence!Persist
<1> QED
  BY <1>1, CallbackIsAcceptable DEF StoreWrites, Evidence!LogNext, Acceptable

LEMMA ReturnAccepts ==
    ASSUME StackInv, CallbackReturns
    PROVE  Evidence!LogNext \/ UNCHANGED Evidence!logVars
<1>1. TopAt("callback") /\ UNCHANGED <<durable, sealed, completeness>>
  BY DEF CallbackReturns
<1>2. CASE UNCHANGED log
  BY <1>1, <1>2 DEF Evidence!logVars
<1>3. CASE /\ Top.event.event_id \in durable
           /\ log' = Append(log, Top.event)
  <2>1. Evidence!Accept(Top.event)
    BY <1>1, <1>3, CallbackIsAcceptable DEF Evidence!Accept
  <2> QED
    BY <1>1, <2>1, CallbackIsAcceptable DEF Evidence!LogNext, Acceptable
<1> QED
  BY <1>2, <1>3 DEF CallbackReturns

\* The accumulator is an evidence log to its callers: what it accepts is valid, of
\* the run, new and durable, within the limit, and nothing follows the seal.
THEOREM Implementation == Spec => ImplementsEvidenceLog
<1>1. Init => Evidence!LogInit
  BY DEF Init
<1>2. ASSUME StackInv, [Next]_vars
      PROVE  [Evidence!LogNext]_Evidence!logVars
  <2>1. ASSUME NEW c \in {"complete", "incomplete", "unknown"}, CallSeal(c)
        PROVE  Evidence!LogNext
    BY <2>1 DEF CallSeal, Evidence!LogNext
  <2>2. ASSUME NEW e, append(e, stack) \/ append(e, Moved(stack, "append"))
        PROVE  log' = log
    BY <2>2 DEF append
  <2>3. ASSUME NEW e \in Documents, CallAppend(e) \/ CallEmit(e)
        PROVE  UNCHANGED Evidence!logVars
    BY <2>2, <2>3 DEF CallAppend, CallEmit, Evidence!logVars
  <2>4. CASE ResolverReturns \/ ProjectionReturns \/ ChangeEvent
    BY <2>2, <2>4
    DEF ResolverReturns, ProjectionReturns, ChangeEvent, Evidence!logVars
  <2>5. CASE UNCHANGED vars
    BY <2>5 DEF vars, Evidence!logVars
  <2> QED
    BY <1>2, <2>1, <2>3, <2>4, <2>5, WritePersists, ReturnAccepts DEF Next
<1> QED
  BY <1>1, <1>2, StackIsInductive, PTL
  DEF Spec, ImplementsEvidenceLog, Evidence!LogSpec
=============================================================================
