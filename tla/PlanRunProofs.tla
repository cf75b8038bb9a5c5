--------------------------- MODULE PlanRunProofs ---------------------------
(***************************************************************************)
(* Theorems about PlanRun and the commands of Cli, for every set of        *)
(* documents, sessions and labels: a plan stops where it should, is "ok"   *)
(* only if it was carried out completely, leaves no session open unless it *)
(* is interrupted in certain places, keeps to its references and to the    *)
(* policy, and the exit status says so.                                    *)
(***************************************************************************)
EXTENDS Cli, PolicyProofs, FiniteSetTheorems, TLAPS

(***************************************************************************)
(* The inductive invariant.                                                *)
(***************************************************************************)
\* The plan is one whose steps name their sessions.
PlanKnown == /\ plan \in {EmptyPlan, LoadPlan(document)}
             /\ Len(plan.steps) \in Nat
             /\ \A k \in 1 .. Len(plan.steps) : Step(k).session \in Handles

Shape == /\ document \in Documents
         /\ pc \in Places
         /\ current \in 0 .. Len(plan.steps)
         /\ sessions \in Seq(Handles)
         /\ product \in [Handles -> {"none", "live", "closed", "stuck"}]
         /\ IsSequence(results) /\ IsSequence(done)
         /\ \A k \in 1 .. Len(results) : results[k].ok \in BOOLEAN
         /\ labelled \subseteq 1 .. current
         /\ going \in BOOLEAN /\ raised \in BOOLEAN

\* The step in hand, and it alone, has no result; an interrupted one never gets one.
StepInHand ==
  /\ pc = "load" => current = 0
  /\ pc \in {"load", "next"} => Len(results) = current
  /\ pc \in {"open", "execute"} => current = Len(results) + 1 /\ going
  /\ pc \in {"close", "over"} =>
       \/ Len(results) = current
       \/ raised /\ current = Len(results) + 1

\* The executor goes on as long as every step so far allows it.
GoesOn ==
  /\ going => \A k \in 1 .. Len(results) : MayGoOn(k)
  /\ \A k \in 1 .. Len(results) : k < Len(results) => MayGoOn(k)
  /\ ~going => /\ Len(results) > 0 /\ ~MayGoOn(Len(results))
               /\ pc \in {"next", "close", "over"} /\ Len(results) = current
  /\ pc \in {"close", "over"} /\ ~raised /\ going => current = Len(plan.steps)

\* As long as nothing failed, the products did exactly the steps that have results, and
\* perhaps one that was interrupted.
Done == (\A k \in 1 .. Len(results) : results[k].ok) =>
          /\ Len(done) = Len(results) \/ "execute" \in interrupted
          /\ \A n \in 1 .. Len(done) : done[n].step = n

\* A product lost by an interrupt during its launch.
Lost(h) == "open" \in interrupted /\ h = Handle

\* A live product is one of the executor's, unless it was lost.
LiveIsOpened ==
  /\ \A h \in Handles : product[h] = "live" => Opened(h) \/ Lost(h)
  /\ pc = "load" => \A h \in Handles : product[h] # "live"
  /\ pc = "over" => \A h \in Handles :
       product[h] = "live" => "close" \in interrupted \/ (Lost(h) /\ ~Opened(h))

\* An interrupt ends the work, and an exception is on its way from then on.
Interruptions ==
  /\ interrupted \subseteq Places
  /\ pc \in {"load", "next", "open", "execute"} => interrupted = {}
  /\ ~raised => interrupted \subseteq {"over"}
  /\ "over" \in interrupted => pc = "over"

PlanInv == PlanKnown /\ Shape /\ StepInHand /\ GoesOn /\ Done /\ LiveIsOpened /\ Interruptions

-----------------------------------------------------------------------------
(***************************************************************************)
(* Loading.                                                                *)
(***************************************************************************)
\* The steps of a loaded plan are those of its document, each with its session.
LEMMA LoadedPlan ==
  ASSUME NEW d \in Documents, d.direct \/ PlanOk(d)
  PROVE  LET p == LoadPlan(d)
         IN /\ Len(p.steps) \in Nat
            /\ \A k \in 1 .. Len(p.steps) : p.steps[k].session \in Handles
<1>1. Named(d)
  BY DocumentsAssumption
<1>2. Len(d.steps) \in Nat /\ DOMAIN d.steps = 1 .. Len(d.steps)
  BY <1>1, SequenceDomain DEF Named
<1> DEFINE q == [k \in 1 .. Len(d.steps) |-> LoadStep(d.steps[k])]
<1>3. LoadPlan(d).steps = q
  BY <1>2 DEF LoadPlan
<1>4. Len(q) = Len(d.steps)
  <2> HIDE DEF LoadStep
  <2>. QED BY <1>2
<1>5. \A k \in 1 .. Len(d.steps) : q[k].session \in Handles
  <2>1. SUFFICES ASSUME NEW k \in 1 .. Len(d.steps) PROVE LoadStep(d.steps[k]).session \in Handles
    OBVIOUS
  <2>2. {d.steps[k].session, d.steps[k].adapter} \subseteq Handles \cup {NoName}
    BY <1>1, <1>2 DEF Named
  <2>3. CASE d.direct
    <3>1. d.steps[k].session # NoName
      BY <1>1, <1>2, <2>3 DEF Named
    <3>. QED
      BY <3>1, <2>2 DEF LoadStep
  <2>4. CASE PlanOk(d)
    <3>1. (d.steps[k].session = NoName) # (d.steps[k].adapter = NoName)
      BY <2>4, <1>2 DEF PlanOk, StepOk
    <3>. QED
      BY <3>1, <2>2 DEF LoadStep
  <2>. QED
    BY <2>3, <2>4
<1>. QED
  BY <1>2, <1>3, <1>4, <1>5

-----------------------------------------------------------------------------
(***************************************************************************)
(* The initial state and the steps.                                        *)
(***************************************************************************)
\* The invariant holds before the plan is loaded.
LEMMA InitInv == Init => PlanInv
<1>1. IsSequence(<<>>) /\ Len(<<>>) = 0 /\ <<>> \in Seq(Handles)
  BY DEF IsSequence
<1>. SUFFICES ASSUME Init PROVE PlanInv
  OBVIOUS
<1>2. Len(plan.steps) = 0
  BY <1>1 DEF Init, EmptyPlan
<1>3. PlanKnown
  BY <1>2 DEF Init, PlanKnown
<1>4. Shape
  <2>1. current = 0 /\ 0 \in 0 .. Len(plan.steps) /\ labelled = {}
    BY <1>2 DEF Init
  <2>2. sessions \in Seq(Handles) /\ IsSequence(results) /\ IsSequence(done)
    BY <1>1, Zenon DEF Init
  <2>3. \A k \in 1 .. Len(results) : results[k].ok \in BOOLEAN
    BY <1>1 DEF Init
  <2>4. product \in [Handles -> {"none", "live", "closed", "stuck"}]
    BY DEF Init
  <2>. QED
    BY <2>1, <2>2, <2>3, <2>4 DEF Init, Shape, Places
<1>5. StepInHand /\ GoesOn
  BY <1>1 DEF Init, StepInHand, GoesOn
<1>6. Done /\ LiveIsOpened
  BY <1>1 DEF Init, Done, LiveIsOpened
<1>7. Interruptions
  BY DEF Init, Interruptions
<1>. QED
  BY <1>3, <1>4, <1>5, <1>6, <1>7 DEF PlanInv

\* A step that is no interrupt, while nobody has interrupted.
LEMMA Uninterrupted ==
  ASSUME PlanInv, pc \in {"load", "next", "open", "execute"}, UNCHANGED interrupted
  PROVE  interrupted = {} /\ Interruptions' /\ \A h : ~Lost(h) /\ ~Lost(h)'
BY DEF PlanInv, Interruptions, Lost

\* Loading gives a plan whose steps name sessions, or ends with an exception.
LEMMA LoadInv == ASSUME PlanInv, Load PROVE PlanInv'
<1>1. CASE document.direct \/ PlanOk(document)
  <2>1. plan' = LoadPlan(document) /\ pc' = "next" /\ document' = document
        /\ UNCHANGED <<current, sessions, product, results, labelled, going, raised, done>>
        /\ interrupted' = interrupted /\ pc = "load"
    BY <1>1 DEF Load
  <2>2. PlanKnown'
    BY <2>1, <1>1, LoadedPlan DEF PlanInv, Shape, PlanKnown, Step
  <2>3. current = 0 /\ Len(results) = 0 /\ going
    BY DEF Load, PlanInv, Shape, StepInHand, GoesOn
  <2>4. Shape' /\ StepInHand'
    BY <2>1, <2>2, <2>3 DEF PlanInv, Shape, StepInHand, Places, PlanKnown
  <2>5. GoesOn' /\ Done' /\ LiveIsOpened'
    BY <2>1, <2>3 DEF PlanInv, GoesOn, Done, LiveIsOpened
  <2>6. Interruptions'
    BY <2>1, Uninterrupted
  <2>. QED
    BY <2>2, <2>4, <2>5, <2>6 DEF PlanInv
<1>2. CASE ~(document.direct \/ PlanOk(document))
  <2>1. pc' = "over" /\ raised' = TRUE /\ pc = "load"
        /\ UNCHANGED <<document, plan, current, sessions, product, results, labelled, going,
             done, interrupted>>
    BY <1>2 DEF Load
  <2>2. PlanKnown'
    BY <2>1 DEF PlanInv, PlanKnown, Step
  <2>3. Shape' /\ StepInHand'
    BY <2>1 DEF PlanInv, Shape, Places, StepInHand
  <2>4. GoesOn' /\ Done'
    BY <2>1 DEF PlanInv, GoesOn, MayGoOn, Step, Done
  <2>5. LiveIsOpened'
    BY <2>1 DEF PlanInv, LiveIsOpened
  <2>6. Interruptions'
    BY <2>1, Uninterrupted
  <2>. QED
    BY <2>2, <2>3, <2>4, <2>5, <2>6 DEF PlanInv
<1>. QED
  BY <1>1, <1>2
-----------------------------------------------------------------------------
\* What every step after Load leaves alone.
LEMMA PlanStays ==
  ASSUME PlanKnown, UNCHANGED <<document, plan>>
  PROVE  PlanKnown' /\ Len(plan'.steps) = Len(plan.steps) /\ \A k : Step(k)' = Step(k)
BY DEF PlanKnown, Step

\* One more result: what a step does that ends in Record.
LEMMA RecordInv ==
  ASSUME PlanInv, NEW k, NEW ok \in BOOLEAN, NEW params, Record(k, ok, params),
         k = Len(results) + 1, k \in 1 .. Len(plan.steps), current' = k, going,
         pc \in {"next", "open", "execute"},
         UNCHANGED <<document, plan, sessions, product, interrupted>>,
         labelled \subseteq 1 .. k,
         (ok = FALSE /\ done' = done)
           \/ (ok = TRUE /\ \E e : done' = Append(done, e) /\ e.step = k)
  PROVE  PlanInv'
<1>. USE DEF PlanInv
<1>1. /\ IsSequence(results') /\ Len(results') = k
      /\ \A j \in 1 .. Len(results) : results'[j] = results[j]
      /\ results'[k].ok = ok
      /\ Len(results) \in Nat
  BY SequenceAppend, SequenceDomain DEF Record, Shape
<1>2. PlanKnown' /\ Len(plan'.steps) = Len(plan.steps) /\ \A j : Step(j)' = Step(j)
  BY PlanStays
<1>3. /\ pc' = "next" /\ going' \in BOOLEAN /\ raised' \in BOOLEAN
      /\ labelled' \subseteq 1 .. k
      /\ going' = ~Stops(k, ok)
  <2>1. pc' = "next"
    BY DEF Record
  <2>4. labelled' \in {labelled, labelled \cup {k}} /\ k \in 1 .. k
    BY DEF Record, PlanKnown
  <2>2. raised' \in BOOLEAN /\ going' \in BOOLEAN
    BY Zenon DEF Record
  <2>3. going' = ~Stops(k, ok)
    BY Zenon DEF Record
  <2>. QED
    BY <2>1, <2>4, <2>2, <2>3
<1>4. IsSequence(done')
  <2>1. IsSequence(done)
    BY DEF Shape
  <2>2. ASSUME NEW e, done' = Append(done, e) PROVE IsSequence(done')
    BY <2>1, <2>2, SequenceAppend
  <2>3. CASE done' = done
    BY <2>1, <2>3
  <2>. QED
    BY <2>2, <2>3, Zenon
<1>5. Shape'
  <2>1. \A j \in 1 .. Len(results') : results'[j].ok \in BOOLEAN
    BY <1>1 DEF Shape
  <2>2. current' \in 0 .. Len(plan'.steps)
    BY <1>2 DEF PlanKnown
  <2>. QED
    BY <1>1, <1>2, <1>3, <1>4, <2>1, <2>2 DEF Shape, Places
<1>6. StepInHand'
  BY <1>1, <1>3 DEF StepInHand
<1>7. GoesOn'
  <2>1. \A j \in 1 .. Len(results) : MayGoOn(j) /\ MayGoOn(j)'
    BY <1>1, <1>2 DEF GoesOn, MayGoOn
  <2>2. going' = MayGoOn(k)'
    BY <1>1, <1>2, <1>3 DEF MayGoOn, Stops
  <2>. QED
    BY <1>1, <1>3, <2>1, <2>2 DEF GoesOn
<1>8. Done'
  <2>1. SUFFICES ASSUME \A j \in 1 .. Len(results') : results'[j].ok
                 PROVE  /\ Len(done') = Len(results')
                        /\ \A n \in 1 .. Len(done') : done'[n].step = n
    BY DEF Done
  <2>0. interrupted = {}
    BY Uninterrupted
  <2>2. ok /\ \A j \in 1 .. Len(results) : results[j].ok
    BY <1>1, <2>1
  <2>3. Len(done) = Len(results) /\ \A n \in 1 .. Len(done) : done[n].step = n
    BY <2>0, <2>2 DEF Done
  <2>4. PICK e : done' = Append(done, e) /\ e.step = k
    BY <2>2
  <2>5. /\ Len(done') = Len(done) + 1
        /\ \A n \in 1 .. Len(done) : done'[n] = done[n]
        /\ done'[Len(done) + 1] = e
    BY <2>4, SequenceAppend DEF Shape
  <2>. QED
    BY <1>1, <2>3, <2>4, <2>5
<1>9. LiveIsOpened' /\ Interruptions'
  BY <1>3, Uninterrupted DEF LiveIsOpened, Opened
<1>. QED
  BY <1>2, <1>5, <1>6, <1>7, <1>8, <1>9

\* What is true of the step that is about to begin.
LEMMA StepBeginsInv ==
  ASSUME PlanInv, StepBegins
  PROVE  /\ current + 1 = Len(results) + 1 /\ current + 1 \in 1 .. Len(plan.steps)
         /\ going /\ current' = current + 1 /\ labelled \subseteq 1 .. current + 1
BY DEF PlanInv, StepBegins, Shape, PlanKnown, StepInHand

\* A step that leaves the plan and the results as they are, and the work done, unless it
\* is seen to.
LEMMA MoveInv ==
  ASSUME PlanInv, UNCHANGED <<document, plan, results, going>>,
         done' = done \/ Done',
         interrupted' = interrupted \/ Done',
         Shape', StepInHand', LiveIsOpened', Interruptions',
         ~going => pc' \in {"next", "close", "over"} /\ current' = current,
         pc' \in {"close", "over"} /\ ~raised' /\ going => current' = Len(plan.steps)
  PROVE  PlanInv'
<1>1. PlanKnown' /\ Len(plan'.steps) = Len(plan.steps) /\ \A j : Step(j)' = Step(j)
  BY PlanStays DEF PlanInv
<1>2. GoesOn'
  <2>1. \A j : MayGoOn(j)' = MayGoOn(j)
    BY <1>1 DEF MayGoOn
  <2>. QED
    BY <1>1, <2>1 DEF PlanInv, GoesOn
<1>3. Done'
  BY DEF PlanInv, Done
<1>. QED
  BY <1>1, <1>2, <1>3 DEF PlanInv

\* A step that is ready is in hand, whether its session is open or not.
LEMMA BeginInv == ASSUME PlanInv, Begin PROVE PlanInv'
<1>1. /\ current + 1 = Len(results) + 1 /\ current + 1 \in 1 .. Len(plan.steps)
      /\ going /\ current' = current + 1 /\ labelled \subseteq 1 .. current + 1
  BY StepBeginsInv DEF Begin
<1>2. /\ UNCHANGED <<document, plan, sessions, product, results, labelled, going, raised, done,
                     interrupted>>
      /\ pc = "next" /\ pc' \in {"open", "execute"}
  BY DEF Begin, StepBegins
<1>3. Shape' /\ StepInHand'
  BY <1>1, <1>2 DEF PlanInv, PlanKnown, Shape, Places, StepInHand
<1>4. LiveIsOpened' /\ Interruptions'
  BY <1>2, Uninterrupted DEF PlanInv, LiveIsOpened, Opened
<1>. QED
  BY <1>1, <1>2, <1>3, <1>4, MoveInv

\* A step that is not ready has failed.
LEMMA RefuseInv == ASSUME PlanInv, Refuse PROVE PlanInv'
<1>1. /\ current + 1 = Len(results) + 1 /\ current + 1 \in 1 .. Len(plan.steps)
      /\ going /\ current' = current + 1 /\ labelled \subseteq 1 .. current + 1
  BY StepBeginsInv DEF Refuse
<1>2. /\ Record(current + 1, FALSE, <<>>) /\ pc = "next"
      /\ UNCHANGED <<document, plan, sessions, product, done, interrupted>>
  BY DEF Refuse, Fail, StepBegins
<1>. QED
  BY <1>1, <1>2, RecordInv

\* What is true of the step in hand.
LEMMA InHand ==
  ASSUME PlanInv, pc \in {"open", "execute"}
  PROVE  /\ current = Len(results) + 1 /\ current \in 1 .. Len(plan.steps)
         /\ going /\ labelled \subseteq 1 .. current /\ Handle \in Handles
BY SequenceDomain DEF PlanInv, Shape, PlanKnown, StepInHand, Handle

\* A session that is opened is entered before anything else happens to it.
LEMMA OpenInv == ASSUME PlanInv, Open PROVE PlanInv'
<1>1. /\ current = Len(results) + 1 /\ current \in 1 .. Len(plan.steps)
      /\ going /\ labelled \subseteq 1 .. current /\ Handle \in Handles
  BY InHand DEF Open
<1>2. /\ UNCHANGED <<document, plan, current, results, labelled, going, raised, done,
                     interrupted>>
      /\ pc = "open" /\ pc' = "execute"
      /\ product' = [product EXCEPT ![Handle] = "live"]
      /\ sessions' = Append(sessions, Handle)
  BY DEF Open
<1>3. Shape' /\ StepInHand'
  <2>1. sessions' \in Seq(Handles)
    BY <1>1, <1>2 DEF PlanInv, Shape
  <2>2. product' \in [Handles -> {"none", "live", "closed", "stuck"}]
    BY <1>1, <1>2 DEF PlanInv, Shape
  <2>. QED
    BY <1>1, <1>2, <2>1, <2>2 DEF PlanInv, Shape, Places, StepInHand
<1>4. LiveIsOpened'
  <2>1. SUFFICES ASSUME NEW h \in Handles, product'[h] = "live" PROVE Opened(h)'
    BY <1>2 DEF LiveIsOpened
  <2>2. /\ DOMAIN sessions' = 1 .. Len(sessions) + 1 /\ DOMAIN sessions = 1 .. Len(sessions)
        /\ Len(sessions) \in Nat
        /\ \A n \in 1 .. Len(sessions) : sessions'[n] = sessions[n]
        /\ sessions'[Len(sessions) + 1] = Handle
    BY <1>1, <1>2 DEF PlanInv, Shape
  <2>3. CASE h = Handle
    BY <2>2, <2>3 DEF Opened
  <2>4. CASE h # Handle
    <3>1. product[h] = "live"
      BY <1>1, <1>2, <2>1, <2>4 DEF PlanInv, Shape
    <3>2. Opened(h)
      BY <1>2, <3>1, Uninterrupted DEF PlanInv, LiveIsOpened
    <3>. QED
      BY <2>2, <3>2 DEF Opened
  <2>. QED
    BY <2>3, <2>4
<1>5. Interruptions'
  BY <1>2, Uninterrupted
<1>. QED
  BY <1>1, <1>2, <1>3, <1>4, <1>5, MoveInv

\* A launch that fails fails its step.
LEMMA OpenFailsInv == ASSUME PlanInv, OpenFails PROVE PlanInv'
<1>1. /\ current = Len(results) + 1 /\ current \in 1 .. Len(plan.steps)
      /\ going /\ labelled \subseteq 1 .. current
  BY InHand DEF OpenFails
<1>2. /\ Record(current, FALSE, <<>>) /\ current' = current /\ pc \in {"open", "execute"}
      /\ UNCHANGED <<document, plan, sessions, product, done, interrupted>>
  BY DEF OpenFails, Fail
<1>. QED
  BY <1>1, <1>2, RecordInv

\* A step carried out is the step in hand.
LEMMA ExecuteInv == ASSUME PlanInv, Execute PROVE PlanInv'
<1>1. /\ current = Len(results) + 1 /\ current \in 1 .. Len(plan.steps)
      /\ going /\ labelled \subseteq 1 .. current
  BY InHand DEF Execute
<1>2. /\ Record(current, TRUE, SecondCheck.params) /\ current' = current /\ pc = "execute"
      /\ UNCHANGED <<document, plan, sessions, product, interrupted>>
      /\ done' = Append(done, Carrying)
  BY DEF Execute
<1>3. \E e : done' = Append(done, e) /\ e.step = current
  BY <1>2 DEF Carrying
<1>. QED
  BY <1>1, <1>2, <1>3, RecordInv

\* A call that fails fails its step.
LEMMA ExecuteFailsInv == ASSUME PlanInv, ExecuteFails PROVE PlanInv'
<1>1. /\ current = Len(results) + 1 /\ current \in 1 .. Len(plan.steps)
      /\ going /\ labelled \subseteq 1 .. current
  BY InHand DEF ExecuteFails
<1>2. /\ Record(current, FALSE, <<>>) /\ current' = current /\ pc \in {"open", "execute"}
      /\ UNCHANGED <<document, plan, sessions, product, done, interrupted>>
  BY DEF ExecuteFails, Fail
<1>. QED
  BY <1>1, <1>2, RecordInv

\* What an interrupt does in any case, before the executor is over.
LEMMA InterruptedInv ==
  ASSUME PlanInv, NEW place \in {"load", "next", "open", "execute", "close"},
         NEW next \in {"close", "over"}, Interrupted(place, next),
         product' \in [Handles -> {"none", "live", "closed", "stuck"}], IsSequence(done'),
         LiveIsOpened', Done'
  PROVE  PlanInv'
<1>1. /\ UNCHANGED <<document, plan, current, sessions, results, labelled, going>>
      /\ pc = place /\ pc' = next /\ raised' = TRUE
      /\ interrupted' = interrupted \cup {place}
  BY DEF Interrupted
<1>2. Shape' /\ StepInHand'
  BY <1>1 DEF PlanInv, Shape, Places, StepInHand
<1>3. Interruptions'
  BY <1>1 DEF PlanInv, Interruptions, Places
<1>. QED
  BY <1>1, <1>2, <1>3, MoveInv

\* Before anything is opened, or while a step is prepared, nothing is lost.
LEMMA InterruptEarlyInv == ASSUME PlanInv, InterruptLoad \/ InterruptNext PROVE PlanInv'
<1>1. PICK place \in {"load", "next"}, next \in {"close", "over"} :
        Interrupted(place, next) /\ (place = "next" => next = "close")
  BY DEF InterruptLoad, InterruptNext
<1>2. UNCHANGED <<product, done>>
  BY DEF InterruptLoad, InterruptNext
<1>3. /\ pc = place /\ pc' = next /\ UNCHANGED <<sessions, results, current, plan>>
      /\ interrupted' = interrupted \cup {place}
  BY <1>1 DEF Interrupted
<1>4. interrupted = {}
  BY <1>3 DEF PlanInv, Interruptions
<1>5. LiveIsOpened'
  BY <1>1, <1>2, <1>3, <1>4 DEF PlanInv, LiveIsOpened, Opened, Lost
<1>6. Done'
  BY <1>2, <1>3, <1>4 DEF PlanInv, Done
<1>. QED
  BY <1>1, <1>2, <1>5, <1>6, InterruptedInv DEF PlanInv, Shape

\* The product that is being launched may be lost, and no other.
LEMMA InterruptOpenInv == ASSUME PlanInv, InterruptOpen PROVE PlanInv'
<1>1. /\ Interrupted("open", "close") /\ UNCHANGED done
      /\ product' \in {product, [product EXCEPT ![Handle] = "live"]}
  BY DEF InterruptOpen
<1>2. /\ pc = "open" /\ pc' = "close" /\ UNCHANGED <<sessions, results, current, plan>>
      /\ interrupted' = interrupted \cup {"open"}
  BY <1>1 DEF Interrupted
<1>3. interrupted = {} /\ Handle \in Handles
  BY <1>2, InHand DEF PlanInv, Interruptions
<1>4. product' \in [Handles -> {"none", "live", "closed", "stuck"}]
  BY <1>1, <1>3 DEF PlanInv, Shape
<1>5. \A h \in Handles : product'[h] = "live" => product[h] = "live" \/ h = Handle
  BY <1>1, <1>3 DEF PlanInv, Shape
<1>6. Handle' = Handle
  BY <1>2 DEF Handle, Step
<1>7. LiveIsOpened'
  BY <1>2, <1>3, <1>5, <1>6 DEF PlanInv, LiveIsOpened, Opened, Lost
<1>8. Done'
  BY <1>1, <1>2, <1>3 DEF PlanInv, Done
<1>. QED
  BY <1>1, <1>4, <1>7, <1>8, InterruptedInv DEF PlanInv, Shape

\* An interrupted step may have been carried out; it keeps its place without a result.
LEMMA InterruptExecuteInv == ASSUME PlanInv, InterruptExecute PROVE PlanInv'
<1>1. /\ Interrupted("execute", "close") /\ product' = product
      /\ done' = done \/ done' = Append(done, Carrying)
  BY DEF InterruptExecute
<1>2. /\ pc = "execute" /\ pc' = "close" /\ UNCHANGED <<sessions, results, current, plan>>
      /\ interrupted' = interrupted \cup {"execute"}
  BY <1>1 DEF Interrupted
<1>3. interrupted = {} /\ current = Len(results) + 1
  BY <1>2, InHand DEF PlanInv, Interruptions
<1>4. IsSequence(done) /\ Len(done) \in Nat
  BY SequenceDomain DEF PlanInv, Shape
<1>5. ASSUME done' = Append(done, Carrying)
      PROVE  /\ IsSequence(done') /\ Len(done') = Len(done) + 1
             /\ \A n \in 1 .. Len(done) : done'[n] = done[n]
             /\ done'[Len(done) + 1].step = current
  BY <1>4, <1>5, SequenceAppend DEF Carrying
<1>6. Done'
  <2>1. SUFFICES ASSUME \A k \in 1 .. Len(results') : results'[k].ok
                 PROVE  \A n \in 1 .. Len(done') : done'[n].step = n
    BY <1>2 DEF Done
  <2>2. Len(done) = Len(results) /\ \A n \in 1 .. Len(done) : done[n].step = n
    BY <1>2, <1>3, <2>1 DEF PlanInv, Done
  <2>3. CASE done' = done
    BY <2>2, <2>3
  <2>4. CASE done' = Append(done, Carrying)
    BY <1>3, <1>4, <1>5, <2>2, <2>4
  <2>. QED
    BY <1>1, <2>3, <2>4
<1>7. IsSequence(done')
  BY <1>1, <1>4, <1>5
<1>8. LiveIsOpened'
  BY <1>1, <1>2, <1>3 DEF PlanInv, LiveIsOpened, Opened, Lost
<1>. QED
  BY <1>1, <1>6, <1>7, <1>8, InterruptedInv DEF PlanInv, Shape

\* A close in hand may have been made; the others never are.
LEMMA InterruptCloseInv == ASSUME PlanInv, InterruptClose PROVE PlanInv'
<1>1. /\ Interrupted("close", "over") /\ UNCHANGED done
      /\ product' = product \/ CloseTo("closed") \/ CloseTo("stuck")
  BY DEF InterruptClose
<1>2. /\ pc = "close" /\ pc' = "over" /\ UNCHANGED <<sessions, results, current, plan>>
      /\ interrupted' = interrupted \cup {"close"}
  BY <1>1 DEF Interrupted
<1>3. /\ product' \in [Handles -> {"none", "live", "closed", "stuck"}]
      /\ \A h \in Handles : product'[h] = "live" => product[h] = "live"
  <2>1. CASE product' = product
    BY <2>1 DEF PlanInv, Shape
  <2>2. ASSUME NEW state \in {"closed", "stuck"}, CloseTo(state)
        PROVE  /\ product' \in [Handles -> {"none", "live", "closed", "stuck"}]
               /\ \A h \in Handles : product'[h] = "live" => product[h] = "live"
    <3>1. PICK x : product' = [product EXCEPT ![x] = state]
      BY <2>2 DEF CloseTo
    <3>. QED
      BY <3>1 DEF PlanInv, Shape
  <2>. QED
    BY <1>1, <2>1, <2>2
<1>4. Handle' = Handle
  BY <1>2 DEF Handle, Step
<1>5. LiveIsOpened'
  BY <1>2, <1>3, <1>4 DEF PlanInv, LiveIsOpened, Opened, Lost
<1>6. Done'
  BY <1>1, <1>2 DEF PlanInv, Done
<1>. QED
  BY <1>1, <1>3, <1>5, <1>6, InterruptedInv DEF PlanInv, Shape

\* Once the executor is over, an interrupt changes nothing in it.
LEMMA InterruptAnswerInv == ASSUME PlanInv, InterruptAnswer PROVE PlanInv'
<1>1. /\ UNCHANGED <<document, plan, pc, current, sessions, product, results, labelled, going,
                     raised, done>>
      /\ pc = "over" /\ interrupted' = interrupted \cup {"over"}
  BY DEF InterruptAnswer, work
<1>2. Shape' /\ StepInHand'
  BY <1>1 DEF PlanInv, Shape, StepInHand
<1>3. Handle' = Handle
  BY <1>1 DEF Handle, Step
<1>4. LiveIsOpened'
  BY <1>1, <1>3 DEF PlanInv, LiveIsOpened, Opened, Lost
<1>5. Done' /\ Interruptions'
  BY <1>1 DEF PlanInv, Done, Interruptions, Places
<1>6. ~raised' /\ going => current' = Len(plan.steps)
  BY <1>1 DEF PlanInv, GoesOn
<1>. QED
  BY <1>1, <1>2, <1>4, <1>5, <1>6, MoveInv

\* Wherever an interrupt comes.
LEMMA InterruptInv == ASSUME PlanInv, Interrupt PROVE PlanInv'
BY InterruptEarlyInv, InterruptOpenInv, InterruptExecuteInv, InterruptCloseInv,
   InterruptAnswerInv DEF Interrupt

\* The executor turns to closing when nothing is left to do, or it may not go on.
LEMMA NoMoreStepsInv == ASSUME PlanInv, NoMoreSteps PROVE PlanInv'
<1>1. /\ UNCHANGED <<document, plan, current, sessions, product, results, labelled, going,
                     raised, done, interrupted>>
      /\ pc = "next" /\ pc' = "close"
      /\ ~going \/ current = Len(plan.steps)
  BY DEF NoMoreSteps
<1>2. Shape' /\ StepInHand'
  BY <1>1 DEF PlanInv, Shape, Places, StepInHand
<1>3. LiveIsOpened' /\ Interruptions'
  BY <1>1, Uninterrupted DEF PlanInv, LiveIsOpened, Opened
<1>. QED
  BY <1>1, <1>2, <1>3, MoveInv

\* Closing one session makes none live.
LEMMA CloseToInv ==
  ASSUME PlanInv, NEW state \in {"closed", "stuck"}, CloseTo(state), pc' = pc,
         UNCHANGED <<document, plan, current, sessions, results, labelled, going, done,
                     interrupted>>,
         raised' \in BOOLEAN, raised => raised'
  PROVE  PlanInv'
<1>1. /\ product' \in [Handles -> {"none", "live", "closed", "stuck"}]
      /\ \A h \in Handles : product'[h] \in {product[h], state}
  <2>1. PICK x : product' = [product EXCEPT ![x] = state]
    BY DEF CloseTo
  <2>. QED
    BY <2>1 DEF PlanInv, Shape
<1>2. pc = "close"
  BY DEF CloseTo
<1>3. Shape' /\ StepInHand'
  BY <1>1, <1>2 DEF PlanInv, Shape, Places, StepInHand
<1>4. LiveIsOpened' /\ Interruptions'
  <2>1. Handle' = Handle
    BY DEF Handle, Step
  <2>2. LiveIsOpened'
    BY <1>1, <1>2, <2>1 DEF PlanInv, Shape, LiveIsOpened, Opened, Lost
  <2>. QED
    BY <1>2, <2>2 DEF PlanInv, Interruptions
<1>5. ~raised' /\ going => current' = Len(plan.steps)
  BY <1>2 DEF PlanInv, GoesOn
<1>6. ~going => pc' \in {"next", "close", "over"} /\ current' = current
  BY <1>2
<1>. QED
  BY <1>2, <1>3, <1>4, <1>5, <1>6, MoveInv

\* A close.
LEMMA CloseInv == ASSUME PlanInv, Close PROVE PlanInv'
<1>1. /\ CloseTo("closed") /\ pc' = pc /\ raised' = raised
      /\ UNCHANGED <<document, plan, current, sessions, results, labelled, going, done,
                     interrupted>>
  BY DEF Close
<1>2. raised' \in BOOLEAN
  BY <1>1 DEF PlanInv, Shape
<1>. QED
  BY <1>1, <1>2, CloseToInv

\* A close that fails may raise, and takes back no exception.
LEMMA CloseFailsInv == ASSUME PlanInv, CloseFails PROVE PlanInv'
<1>1. /\ CloseTo("stuck") /\ pc' = pc
      /\ UNCHANGED <<document, plan, current, sessions, results, labelled, going, done,
                     interrupted>>
  BY DEF CloseFails
<1>2. raised' = (raised \/ plan.direct)
  BY DEF CloseFails
<1>3. raised' \in BOOLEAN /\ (raised => raised')
  BY <1>2, Zenon
<1>. QED
  BY <1>1, <1>3, CloseToInv

\* The end: no session is live.
LEMMA FinishInv == ASSUME PlanInv, Finish PROVE PlanInv'
<1>1. /\ UNCHANGED <<document, plan, current, sessions, product, results, labelled, going,
                     raised, done, interrupted>>
      /\ pc = "close" /\ pc' = "over" /\ Unclosed = {}
  BY DEF Finish
<1>2. Shape' /\ StepInHand'
  BY <1>1 DEF PlanInv, Shape, Places, StepInHand
<1>3. LiveIsOpened' /\ Interruptions'
  <2>1. Handle' = Handle
    BY <1>1 DEF Handle, Step
  <2>2. \A h : product[h] = "live" => ~Opened(h)
    BY <1>1 DEF Opened, Unclosed
  <2>3. LiveIsOpened'
    BY <1>1, <2>1, <2>2 DEF PlanInv, LiveIsOpened, Opened, Lost
  <2>. QED
    BY <1>1, <2>3 DEF PlanInv, Interruptions
<1>4. ~raised' /\ going => current' = Len(plan.steps)
  BY <1>1 DEF PlanInv, GoesOn
<1>. QED
  BY <1>1, <1>2, <1>3, <1>4, MoveInv

-----------------------------------------------------------------------------
\* An interrupt records nothing, and nothing is done at it but the step in hand.
LEMMA InterruptKeeps ==
  ASSUME Interrupt
  PROVE  /\ UNCHANGED <<plan, results, labelled>> /\ pc' \in {"close", "over"}
         /\ ~InterruptExecute => UNCHANGED done
BY DEF Interrupt, InterruptLoad, InterruptNext, InterruptOpen, InterruptExecute, InterruptClose,
       InterruptAnswer, Interrupted, work

\* Every step keeps the invariant.
LEMMA NextInv == PlanInv /\ [Next]_vars => PlanInv'
<1>. SUFFICES ASSUME PlanInv, [Next]_vars PROVE PlanInv'
  OBVIOUS
<1>1. CASE Load BY <1>1, LoadInv
<1>2. CASE Begin BY <1>2, BeginInv
<1>3. CASE Refuse BY <1>3, RefuseInv
<1>4. CASE Open BY <1>4, OpenInv
<1>5. CASE OpenFails BY <1>5, OpenFailsInv
<1>6. CASE Execute BY <1>6, ExecuteInv
<1>7. CASE ExecuteFails BY <1>7, ExecuteFailsInv
<1>8. CASE Interrupt BY <1>8, InterruptInv
<1>9. CASE NoMoreSteps BY <1>9, NoMoreStepsInv
<1>10. CASE Close BY <1>10, CloseInv
<1>11. CASE CloseFails BY <1>11, CloseFailsInv
<1>12. CASE Finish BY <1>12, FinishInv
<1>13. CASE UNCHANGED vars
  <2>1. UNCHANGED <<document, plan, pc, current, sessions, product, results, labelled, going,
                    raised, done, interrupted>>
    BY <1>13 DEF vars, work
  <2>2. Handle' = Handle
    BY <2>1 DEF Handle, Step
  <2>3. LiveIsOpened' /\ Interruptions'
    BY <2>1, <2>2 DEF PlanInv, LiveIsOpened, Opened, Lost, Interruptions
  <2>. QED
    BY <2>1, <2>3 DEF PlanInv, PlanKnown, Shape, StepInHand, GoesOn, Done, MayGoOn, Step
<1>. QED
  BY <1>1, <1>2, <1>3, <1>4, <1>5, <1>6, <1>7, <1>8, <1>9, <1>10, <1>11, <1>12, <1>13 DEF Next

\* The invariant holds of every behaviour of the executor.
LEMMA Invariance == Spec => []PlanInv
BY InitInv, NextInv, PTL DEF Spec

\* The variables stay in their ranges, whatever the documents.
THEOREM TypeCorrect == Spec => []TypeOK
<1>1. PlanInv => TypeOK
  <2>. SUFFICES ASSUME PlanInv PROVE TypeOK
    OBVIOUS
  <2>1. Len(results) <= current
    BY SequenceDomain DEF PlanInv, Shape, Places, StepInHand
  <2>. QED
    BY <2>1 DEF PlanInv, PlanKnown, Shape, Interruptions, TypeOK
<1>. QED
  BY <1>1, Invariance, PTL

\* Whatever fails, is refused or is interrupted in between, no session that was recorded
\* is left open without a try to close it; an interrupt during a launch loses that one
\* product, and only an interrupt during the closes leaves others.
THEOREM NothingLeft == Spec => []NothingLeftOpen
<1>1. PlanInv => NothingLeftOpen
  BY DEF PlanInv, LiveIsOpened, Lost, NothingLeftOpen
<1>. QED
  BY <1>1, Invariance, PTL

\* Every plan stops at the first failure that nobody said to go on after, and only
\* there.
THEOREM StopsRight == Spec => []StopsWhereItShould
<1>1. PlanInv => StopsWhereItShould
  <2>. SUFFICES ASSUME PlanInv PROVE StopsWhereItShould
    OBVIOUS
  <2>1. DOMAIN results = 1 .. Len(results) /\ Len(results) \in Nat
    BY SMTT(60), SequenceDomain DEF PlanInv, Shape
  <2>2. ASSUME NEW k \in DOMAIN results, k < current PROVE MayGoOn(k)
    BY <2>1, <2>2 DEF PlanInv, GoesOn, StepInHand, Shape, Places
  <2>3. ASSUME pc = "over", ~raised, Len(results) < Len(plan.steps) PROVE ~MayGoOn(Len(results))
    BY <2>1, <2>3 DEF PlanInv, GoesOn, StepInHand
  <2>. QED
    BY <2>2, <2>3 DEF StopsWhereItShould
<1>. QED
  BY <1>1, Invariance, PTL

\* A plan that ends well was carried out completely and in its order, whatever its
\* documents, its sessions and its labels.
THEOREM OkIsAll == Spec => []OkMeansAll
<1>1. PlanInv => OkMeansAll
  <2>. SUFFICES ASSUME PlanInv, pc = "over", ~raised, AllSucceeded
                PROVE  /\ Len(done) = Len(plan.steps)
                       /\ \A n \in DOMAIN done : done[n].step = n
    BY DEF OkMeansAll
  <2>1. DOMAIN results = 1 .. Len(results) /\ DOMAIN done = 1 .. Len(done)
    BY SequenceDomain DEF PlanInv, Shape
  <2>2. \A k \in 1 .. Len(results) : results[k].ok
    BY <2>1 DEF AllSucceeded
  <2>3. Len(done) = Len(results) /\ \A n \in 1 .. Len(done) : done[n].step = n
    BY <2>2 DEF PlanInv, Done, Interruptions
  <2>4. going
    BY <2>2, SequenceDomain DEF PlanInv, Shape, GoesOn, MayGoOn
  <2>5. Len(results) = Len(plan.steps)
    BY <2>4 DEF PlanInv, GoesOn, StepInHand
  <2>. QED
    BY <2>1, <2>3, <2>5
<1>. QED
  BY <1>1, Invariance, PTL

-----------------------------------------------------------------------------
(***************************************************************************)
(* References.  The labels of a plan are distinct, only steps with results *)
(* can be referred to, and a result once recorded stays; so what a step    *)
(* found before its session was opened is still so when it is carried out. *)
(***************************************************************************)
\* The steps of the plan are a sequence.
StepsNumbered == DOMAIN plan.steps = 1 .. Len(plan.steps)

\* No two steps bear the same label.
LabelsApart ==
  \A j, k \in 1 .. Len(plan.steps) : Step(j).label = Step(k).label /\ Step(j).label # NoName =>
    j = k

\* Only a step with a result and a label can be referred to.
LabelledHaveResults ==
  /\ labelled \subseteq 1 .. Len(results)
  /\ \A k \in labelled : Step(k).label # NoName

\* What step k refers to is an earlier step, and a file is one of a success.
ReferencesOf(k) ==
  \A p \in DOMAIN Step(k).params : LET x == Step(k).params[p] IN
    x.root = "steps" =>
      \E j \in labelled : /\ j < k
                          /\ Step(j).label = x.key
                          /\ x.field = "file" => results[j].ok

ReferencesFound ==
  /\ pc \in {"open", "execute"} => ReferencesOf(current)
  /\ \A n \in DOMAIN done : done[n].step \in Nat /\ ReferencesOf(done[n].step)

RefInv == StepsNumbered /\ LabelsApart /\ LabelledHaveResults /\ ReferencesFound

\* The labels of a plan that loads are distinct.
LEMMA LoadedLabels ==
  ASSUME NEW d \in Documents, d.direct \/ PlanOk(d)
  PROVE  LET p == LoadPlan(d)
         IN /\ DOMAIN p.steps = 1 .. Len(p.steps)
            /\ \A j, k \in 1 .. Len(p.steps) :
                 p.steps[j].label = p.steps[k].label /\ p.steps[j].label # NoName => j = k
<1>1. Named(d)
  BY DocumentsAssumption
<1>2. Len(d.steps) \in Nat /\ DOMAIN d.steps = 1 .. Len(d.steps)
  BY <1>1, SequenceDomain DEF Named
<1> DEFINE q == [k \in 1 .. Len(d.steps) |-> LoadStep(d.steps[k])]
<1>3. LoadPlan(d).steps = q
  BY <1>2 DEF LoadPlan
<1>4. Len(q) = Len(d.steps)
  <2> HIDE DEF LoadStep
  <2>. QED BY <1>2
<1>5. \A k \in 1 .. Len(d.steps) : q[k].label = d.steps[k].label
  BY DEF LoadStep
<1>6. d.direct => Len(d.steps) = 1
  BY <1>1 DEF Named
<1>7. PlanOk(d) => \A j, k \in 1 .. Len(d.steps) :
                     d.steps[j].label = d.steps[k].label /\ d.steps[j].label # NoName => j = k
  BY <1>2 DEF PlanOk, LabelsDistinct, LabelOf
<1>8. DOMAIN q = 1 .. Len(d.steps)
  OBVIOUS
<1> HIDE DEF q
<1>. QED
  BY <1>3, <1>4, <1>5, <1>6, <1>7, <1>8

\* A label stands for the one step that bears it.
LEMMA SourceIs ==
  ASSUME PlanInv, RefInv, NEW j \in labelled
  PROVE  /\ j \in 1 .. Len(results) /\ Len(results) \in Nat /\ Len(results) <= Len(plan.steps)
         /\ Source(Step(j).label) = j
<1>1. /\ j \in 1 .. Len(results) /\ Len(results) \in Nat /\ Len(results) <= Len(plan.steps)
      /\ Len(plan.steps) \in Nat
  BY SequenceDomain DEF RefInv, LabelledHaveResults, PlanInv, Shape, StepInHand, PlanKnown, Places
<1>2. \A i \in labelled : Step(i).label = Step(j).label => i = j
  BY <1>1 DEF RefInv, LabelledHaveResults, LabelsApart
<1>3. \A i \in labelled : Step(i).label = Step(j).label => i <= j
  BY <1>1, <1>2
<1>. QED
  BY <1>1, <1>2, <1>3 DEF Source

\* A step that is ready refers to what is there.
LEMMA ReadyFound ==
  ASSUME PlanInv, RefInv, NEW k, AllResolve(Step(k).params), k = Len(results) + 1
  PROVE  ReferencesOf(k)
<1>. SUFFICES ASSUME NEW p \in DOMAIN Step(k).params, Step(k).params[p].root = "steps"
              PROVE  \E j \in labelled : /\ j < k
                                         /\ Step(j).label = Step(k).params[p].key
                                         /\ Step(k).params[p].field = "file" => results[j].ok
  BY DEF ReferencesOf
<1> DEFINE x == Step(k).params[p]
<1>1. /\ \E j \in labelled : Step(j).label = x.key
      /\ x.field = "file" => HasFile(Source(x.key))
  <2>1. Resolves(x)
    BY DEF AllResolve
  <2>. QED
    BY <2>1 DEF Resolves
<1>2. PICK j \in labelled : Step(j).label = x.key
  BY <1>1
<1>3. j < k /\ Source(x.key) = j
  BY <1>2, SourceIs
<1>4. x.field = "file" => results[j].ok
  BY <1>1, <1>3 DEF HasFile
<1>. QED
  BY <1>2, <1>3, <1>4

\* One more call refers to what there is, as those before it do.
LEMMA DoneRefs ==
  ASSUME PlanInv, RefInv, NEW k \in Nat,
         done' = done \/ (ReferencesOf(k) /\ \E e : done' = Append(done, e) /\ e.step = k)
  PROVE  \A n \in DOMAIN done' : done'[n].step \in Nat /\ ReferencesOf(done'[n].step)
<1>. SUFFICES ASSUME NEW n \in DOMAIN done'
              PROVE  done'[n].step \in Nat /\ ReferencesOf(done'[n].step)
  OBVIOUS
<1>1. CASE done' = done
  BY <1>1 DEF RefInv, ReferencesFound
<1>2. CASE ReferencesOf(k) /\ \E e : done' = Append(done, e) /\ e.step = k
  <2>1. PICK e : done' = Append(done, e) /\ e.step = k
    BY <1>2
  <2>2. /\ DOMAIN done' = 1 .. Len(done) + 1 /\ DOMAIN done = 1 .. Len(done)
        /\ Len(done) \in Nat
        /\ \A i \in 1 .. Len(done) : done'[i] = done[i]
        /\ done'[Len(done) + 1] = e
    BY <2>1, SequenceAppend, SequenceDomain DEF PlanInv, Shape
  <2>3. CASE n = Len(done) + 1
    <3>1. done'[n].step = k
      BY <2>1, <2>2, <2>3
    <3>. QED
      BY <1>2, <3>1
  <2>4. CASE n # Len(done) + 1
    <3>1. n \in DOMAIN done /\ done'[n] = done[n]
      BY SMTT(60), <2>2, <2>4
    <3>. QED
      BY <3>1 DEF RefInv, ReferencesFound
  <2>. QED
    BY <2>3, <2>4
<1>. QED
  BY <1>1, <1>2

\* A result that is recorded takes nothing from what was found.
LEMMA RecordRefs ==
  ASSUME PlanInv, RefInv, NEW k, NEW ok \in BOOLEAN, NEW params, Record(k, ok, params),
         k = Len(results) + 1, plan' = plan,
         done' = done \/ (ReferencesOf(k) /\ \E e : done' = Append(done, e) /\ e.step = k)
  PROVE  RefInv'
<1>1. /\ Len(results) \in Nat /\ IsSequence(done)
      /\ Len(results') = k /\ \A j \in 1 .. Len(results) : results'[j] = results[j]
      /\ pc' = "next"
      /\ labelled' = IF Step(k).label = NoName THEN labelled ELSE labelled \cup {k}
  BY SequenceAppend, SequenceDomain DEF Record, PlanInv, Shape
<1>2. StepsNumbered' /\ LabelsApart'
  BY DEF RefInv, StepsNumbered, LabelsApart, Step
<1>3. LabelledHaveResults'
  <2>1. \A j : Step(j)' = Step(j)
    BY DEF Step
  <2>2. labelled' \subseteq 1 .. Len(results')
    <3>1. labelled \subseteq 1 .. Len(results) /\ labelled' \subseteq labelled \cup {k}
      BY <1>1 DEF RefInv, LabelledHaveResults
    <3>2. k \in Nat /\ 1 <= k /\ 1 .. Len(results) \subseteq 1 .. k
      BY <1>1
    <3>3. Len(results') = k
      BY <1>1
    <3>. QED
      BY <3>1, <3>2, <3>3
  <2>3. ASSUME NEW j \in labelled' PROVE Step(j).label # NoName
    <3>1. j \in labelled \/ (j = k /\ Step(k).label # NoName)
      BY <1>1
    <3>. QED
      BY <3>1 DEF RefInv, LabelledHaveResults
  <2>. QED
    BY <2>1, <2>2, <2>3 DEF LabelledHaveResults
<1>5. \A n \in DOMAIN done' : done'[n].step \in Nat /\ ReferencesOf(done'[n].step)
  BY <1>1, DoneRefs
<1>6. ReferencesFound'
  <2>1. pc' \notin {"open", "execute"}
    BY <1>1
  <2>2. \A i : ReferencesOf(i) =>
           (\A p \in DOMAIN Step(i).params :
              Step(i).params[p].root = "steps" =>
                \E j \in labelled' : /\ j < i
                                     /\ Step(i).params[p].key = Step(j).label
                                     /\ Step(i).params[p].field = "file" => results'[j].ok)
    BY <1>1 DEF ReferencesOf, RefInv, LabelledHaveResults
  <2>. QED
    BY ZenonT(60), <1>5, <2>1, <2>2 DEF ReferencesFound, ReferencesOf, Step
<1>. QED
  BY <1>2, <1>3, <1>6 DEF RefInv

\* A step that leaves results and labels alone.
LEMMA MoveRefs ==
  ASSUME PlanInv, RefInv, UNCHANGED <<plan, results, labelled>>, NEW k \in Nat,
         done' = done \/ (ReferencesOf(k) /\ \E e : done' = Append(done, e) /\ e.step = k),
         \/ pc' \notin {"open", "execute"}
         \/ ReferencesOf(current')
  PROVE  RefInv'
<1>1. \A i : ReferencesOf(i)' <=> ReferencesOf(i)
  BY DEF ReferencesOf, Step
<1>2. StepsNumbered' /\ LabelsApart' /\ LabelledHaveResults'
  BY DEF RefInv, StepsNumbered, LabelsApart, LabelledHaveResults, Step
<1>3. (pc \in {"open", "execute"} => ReferencesOf(current))'
  <2>1. ReferencesOf(current') => ReferencesOf(current)'
    BY DEF ReferencesOf, Step
  <2>. QED
    BY <2>1
<1>4. (\A n \in DOMAIN done : done[n].step \in Nat /\ ReferencesOf(done[n].step))'
  <2>1. \A n \in DOMAIN done' : done'[n].step \in Nat /\ ReferencesOf(done'[n].step)
    BY DoneRefs
  <2>. QED
    BY <1>1, <2>1
<1>5. ReferencesFound'
  BY <1>3, <1>4 DEF ReferencesFound
<1>. QED
  BY <1>2, <1>5 DEF RefInv

\* Every step keeps the references.
LEMMA NextRefs == PlanInv /\ RefInv /\ [Next]_vars => RefInv'
<1>. SUFFICES ASSUME PlanInv, RefInv, [Next]_vars PROVE RefInv'
  OBVIOUS
<1>1. CASE Load
  <2>1. /\ Len(results) = 0 /\ labelled = {} /\ document \in Documents
        /\ \A i \in DOMAIN done : FALSE
    <3>1. Len(results) = 0 /\ current = 0
      BY <1>1 DEF Load, PlanInv, StepInHand
    <3>2. Len(done) = 0
      BY <1>1, <3>1 DEF Load, PlanInv, Done, Interruptions
    <3>. QED
      BY <3>1, <3>2, SequenceDomain DEF PlanInv, Shape
  <2>2. /\ UNCHANGED <<results, labelled, done>> /\ pc' \in {"next", "over"}
        /\ \/ plan' = plan
           \/ plan' = LoadPlan(document) /\ (document.direct \/ PlanOk(document))
    BY <1>1 DEF Load
  <2>3. StepsNumbered' /\ LabelsApart'
    <3>1. CASE plan' = plan
      BY <3>1 DEF RefInv, StepsNumbered, LabelsApart, Step
    <3>2. CASE plan' = LoadPlan(document) /\ (document.direct \/ PlanOk(document))
      BY <2>1, <3>2, LoadedLabels DEF StepsNumbered, LabelsApart, Step
    <3>. QED
      BY <2>2, <3>1, <3>2
  <2>. QED
    BY <2>1, <2>2, <2>3 DEF RefInv, LabelledHaveResults, ReferencesFound
<1>2. CASE Begin
  <2>1. /\ current' = current + 1 /\ current' = Len(results) + 1
        /\ UNCHANGED <<plan, results, labelled, done>> /\ AllResolve(Step(current + 1).params)
    BY <1>2, StepBeginsInv DEF Begin, StepBegins, Ready
  <2>2. ReferencesOf(current') /\ 0 \in Nat
    BY <2>1, ReadyFound
  <2>. QED
    BY <2>1, <2>2, MoveRefs
<1>3. CASE Refuse
  BY <1>3, StepBeginsInv, RecordRefs DEF Refuse, Fail
<1>4. CASE Open
  <2>1. UNCHANGED <<plan, results, labelled, done>> /\ ReferencesOf(current') /\ 0 \in Nat
    BY <1>4 DEF Open, RefInv, ReferencesFound
  <2>. QED
    BY <2>1, MoveRefs
<1>5. CASE OpenFails \/ ExecuteFails
  <2>1. current = Len(results) + 1 /\ Fail(current) /\ UNCHANGED <<plan, done>>
    BY <1>5, InHand DEF OpenFails, ExecuteFails
  <2>. QED
    BY <2>1, RecordRefs DEF Fail
<1>6. CASE Execute
  <2>1. /\ current = Len(results) + 1 /\ plan' = plan
        /\ Record(current, TRUE, SecondCheck.params)
        /\ done' = Append(done, Carrying)
    BY <1>6, InHand DEF Execute
  <2>2. ReferencesOf(current)
    BY <1>6 DEF Execute, RefInv, ReferencesFound
  <2>3. \E e : done' = Append(done, e) /\ e.step = current
    BY <2>1 DEF Carrying
  <2>. QED
    BY <2>1, <2>2, <2>3, RecordRefs
<1>7. CASE NoMoreSteps \/ Close \/ CloseFails \/ Finish
  <2>1. /\ UNCHANGED <<plan, results, labelled, done>> /\ pc' \notin {"open", "execute"}
        /\ 0 \in Nat
    BY <1>7 DEF NoMoreSteps, Close, CloseFails, Finish, CloseTo
  <2>. QED
    BY <2>1, MoveRefs
<1>9. CASE Interrupt
  <2>1. CASE InterruptExecute
    <3>1. current \in Nat /\ ReferencesOf(current)
      BY <2>1, InHand DEF InterruptExecute, Interrupted, RefInv, ReferencesFound, PlanInv,
         Shape, PlanKnown
    <3>2. /\ UNCHANGED <<plan, results, labelled>> /\ pc' \notin {"open", "execute"}
          /\ done' = done \/ \E e : done' = Append(done, e) /\ e.step = current
      BY <2>1 DEF InterruptExecute, Interrupted, Carrying
    <3>. QED
      BY <3>1, <3>2, MoveRefs
  <2>2. CASE ~InterruptExecute
    <3>1. UNCHANGED <<plan, results, labelled, done>> /\ pc' \notin {"open", "execute"}
      BY <1>9, <2>2, InterruptKeeps
    <3>. QED
      BY <3>1, MoveRefs, 0 \in Nat
  <2>. QED
    BY <2>1, <2>2
<1>8. CASE UNCHANGED vars
  <2>1. UNCHANGED <<plan, results, labelled, done, pc, current>> /\ 0 \in Nat
    BY <1>8 DEF vars, work
  <2>2. pc \in {"open", "execute"} => ReferencesOf(current)
    BY DEF RefInv, ReferencesFound
  <2>. QED
    BY <2>1, <2>2, MoveRefs
<1>. QED
  BY <1>1, <1>2, <1>3, <1>4, <1>5, <1>6, <1>7, <1>8, <1>9 DEF Next

\* There is nothing to refer to at first.
LEMMA InitRefs == Init => RefInv
<1>. SUFFICES ASSUME Init PROVE RefInv
  OBVIOUS
<1>1. /\ Len(plan.steps) = 0 /\ DOMAIN plan.steps = 1 .. 0
      /\ labelled = {} /\ DOMAIN done = {} /\ pc = "load"
  BY DEF Init, EmptyPlan
<1>. QED
  BY <1>1 DEF RefInv, StepsNumbered, LabelsApart, LabelledHaveResults, ReferencesFound

\* What a step carried out refers to, whatever the documents: the one step of that
\* label, which came earlier, and a file only of a step that succeeded.
THEOREM ReferencesRight == Spec => []ReferencesHold
<1>1. PlanInv /\ RefInv => ReferencesHold
  <2>. SUFFICES ASSUME PlanInv, RefInv, NEW n \in DOMAIN done,
                       NEW p \in DOMAIN Step(done[n].step).params,
                       Step(done[n].step).params[p].root = "steps"
                PROVE  LET k == done[n].step
                           x == Step(k).params[p]
                       IN /\ Cardinality({j \in DOMAIN plan.steps : Step(j).label = x.key}) = 1
                          /\ \E j \in 1 .. k - 1 : /\ Step(j).label = x.key
                                                   /\ x.field = "file" => results[j].ok
    BY DEF ReferencesHold
  <2> DEFINE k == done[n].step
  <2> DEFINE x == Step(k).params[p]
  <2>1. PICK j \in labelled : /\ j < k
                              /\ Step(j).label = x.key
                              /\ x.field = "file" => results[j].ok
    BY DEF RefInv, ReferencesFound, ReferencesOf
  <2>2. k \in Nat
    BY DEF RefInv, ReferencesFound
  <2>3. /\ j \in 1 .. Len(plan.steps) /\ DOMAIN plan.steps = 1 .. Len(plan.steps)
        /\ j \in 1 .. k - 1 /\ Step(j).label # NoName
    BY <2>1, <2>2, SequenceDomain
       DEF RefInv, StepsNumbered, LabelledHaveResults, PlanInv, Shape, StepInHand, PlanKnown,
         Places
  <2>4. {i \in DOMAIN plan.steps : Step(i).label = x.key} = {j}
    <3>1. \A i \in 1 .. Len(plan.steps) : Step(i).label = x.key => i = j
      <4> HIDE DEF x
      <4>. QED BY <2>1, <2>3 DEF RefInv, LabelsApart
    <3> HIDE DEF x
    <3>. QED BY <2>1, <2>3, <3>1
  <2>5. Cardinality({j}) = 1
    BY FS_Singleton
  <2>6. \E i \in 1 .. k - 1 : Step(i).label = x.key /\ (x.field = "file" => results[i].ok)
    BY <2>1, <2>3
  <2> HIDE DEF x, k
  <2>7. Cardinality({i \in DOMAIN plan.steps : Step(i).label = x.key}) = 1
    BY <2>4, <2>5
  <2>. QED
    BY <2>6, <2>7 DEF x, k
<1>. QED
  BY <1>1, InitRefs, NextRefs, Invariance, PTL DEF Spec

-----------------------------------------------------------------------------
(***************************************************************************)
(* The policy.  What the first check let through stays what it is until    *)
(* the second one sees it, and what the products got is what was let       *)
(* through, of this step or, by reference, of an earlier one.              *)
(***************************************************************************)
\* q is what the first check of step k made of parameters users can write.
AcceptedFor(k, q) ==
  \E p : ParamsFormed(p)
    /\ PrepareAction(Step(k).action, p, Config(Step(k).session)) = Accepted(q)

\* The configurations and the parameters of a plan are those of its document.
PlanFormed ==
  /\ \A h : SessionFormed(Config(h))
  /\ \A k \in 1 .. Len(plan.steps) : \A n \in DOMAIN Step(k).params :
       ExpressionFormed(Step(k).params[n])

PolicyInv ==
  /\ PlanFormed
  /\ pc \in {"open", "execute"} => AcceptedFor(current, prepared)
  /\ \A n \in DOMAIN done : AcceptedFor(done[n].step, done[n].params)
  /\ \A j \in 1 .. Len(results) : results[j].ok => AcceptedFor(j, results[j].params)

\* A session the plan does not describe is described by its default.
LEMMA DefaultFormed == \A h : SessionFormed(Default(h))
BY CwdAssumption DEF Default, SessionFormed

\* A plan that loads is formed as its document is.
LEMMA LoadedFormed ==
  ASSUME NEW d \in Documents
  PROVE  LET p == LoadPlan(d)
         IN /\ \A h \in DOMAIN p.sessions : SessionFormed(p.sessions[h])
            /\ \A k \in 1 .. Len(p.steps) : \A n \in DOMAIN p.steps[k].params :
                 ExpressionFormed(p.steps[k].params[n])
<1>1. DocumentFormed(d) /\ IsSequence(d.steps)
  BY DocumentsAssumption DEF Named
<1>2. Len(d.steps) \in Nat /\ DOMAIN d.steps = 1 .. Len(d.steps)
  BY <1>1, SequenceDomain
<1> DEFINE q == [k \in 1 .. Len(d.steps) |-> LoadStep(d.steps[k])]
           s == [h \in DOMAIN d.sessions |-> LoadSession(d, h)]
<1>3. LoadPlan(d).steps = q /\ LoadPlan(d).sessions = s
  BY <1>2 DEF LoadPlan
<1>4. Len(q) = Len(d.steps)
  <2> HIDE DEF LoadStep
  <2>. QED BY <1>2
<1>5. \A k \in 1 .. Len(d.steps) : q[k].params = d.steps[k].params
  BY DEF LoadStep
<1>6. ASSUME NEW h \in DOMAIN d.sessions PROVE SessionFormed(LoadSession(d, h))
  <2> DEFINE c == d.sessions[h]
             e == LoadSession(d, h)
  <2>1. SessionFormed(c)
    BY <1>1 DEF DocumentFormed
  <2> HIDE DEF c
  <2>2. e = c \/ e = [c EXCEPT !.adapter = h]
    BY DEF LoadSession, c
  <2> HIDE DEF e
  <2>3. DOMAIN e = DOMAIN c /\ e.cwd = c.cwd /\ e.roots = c.roots
    BY <2>1, <2>2 DEF SessionFormed
  <2>4. SessionFormed(e)
    BY <2>1, <2>3 DEF SessionFormed
  <2>. QED
    BY <2>4 DEF e
<1>7. DOMAIN s = DOMAIN d.sessions /\ \A h \in DOMAIN d.sessions : SessionFormed(s[h])
  <2> HIDE DEF LoadSession
  <2>. QED BY <1>6
<1> HIDE DEF q, s
<1>. QED
  BY <1>1, <1>2, <1>3, <1>4, <1>5, <1>7 DEF DocumentFormed

\* The file of a step that succeeded is a path.
LEMMA FileFormed ==
  ASSUME PolicyInv, NEW j \in 1 .. Len(results), results[j].ok,
         "file_name" \in DOMAIN results[j].params
  PROVE  LET v == results[j].params.file_name IN Formed(v) /\ v.t = "str"
<1> DEFINE v == results[j].params.file_name
           c == Config(Step(j).session)
<1>1. PICK p : ParamsFormed(p) /\ PrepareAction(Step(j).action, p, c)
             = Accepted(results[j].params)
  BY DEF PolicyInv, AcceptedFor
<1>2. UnderRoot(v, c)
  BY <1>1, AcceptedKeeps DEF PolicyInv, PlanFormed
<1>. QED
  BY <1>2 DEF UnderRoot, IsProperPath, Formed, TextFormed

\* What a parameter refers to is a value, once the reference resolves.
LEMMA ReferredFormed ==
  ASSUME PlanInv, RefInv, PolicyInv, NEW x, ExpressionFormed(x), Resolves(x)
  PROVE  Formed(Referred(x))
<1>1. CASE x.root = "value"
  BY <1>1 DEF ExpressionFormed, Referred
<1>2. CASE x.root = "steps" /\ x.field = "ok"
  BY <1>2 DEF Referred, Truth, Formed, TextFormed
<1>3. CASE x.root = "steps" /\ x.field = "error"
  <2>1. Formed(None)
    BY DEF None, Formed, TextFormed
  <2>2. Formed(Word("error"))
    <3>1. IsSequence(<<"error">>)
      BY SequenceOne
    <3>. QED
      BY <3>1 DEF Word, Text, Formed, TextFormed
  <2>3. Referred(x) \in {None, Word("error")}
    BY <1>3 DEF Referred
  <2>. QED
    BY <2>1, <2>2, <2>3
<1>4. CASE x.root = "steps" /\ x.field = "file"
  <2>1. PICK j \in labelled : Step(j).label = x.key
    BY <1>4 DEF Resolves
  <2>2. j \in 1 .. Len(results) /\ Source(x.key) = j
    BY <2>1, SourceIs
  <2>3. HasFile(j)
    BY <1>4, <2>2 DEF Resolves
  <2>. QED
    BY <1>4, <2>2, <2>3, FileFormed DEF HasFile, Referred
<1>5. CASE x.root = "sessions" /\ x.field = "workspace"
  <2>1. x.key \in DOMAIN plan.sessions
    BY <1>5 DEF Resolves
  <2>2. SessionFormed(plan.sessions[x.key])
    <3>1. Config(x.key) = plan.sessions[x.key]
      BY <2>1 DEF Config
    <3>2. SessionFormed(Config(x.key))
      BY DEF PolicyInv, PlanFormed
    <3>. QED
      BY <3>1, <3>2
  <2>3. IsSequence(plan.sessions[x.key].cwd)
    BY <2>2 DEF SessionFormed, IsProperPath
  <2>4. Referred(x) = Absolute(plan.sessions[x.key].cwd)
    BY <1>5 DEF Referred
  <2>. QED
    BY <2>3, <2>4 DEF Absolute, Formed, TextFormed
<1>. QED
  BY <1>1, <1>2, <1>3, <1>4, <1>5 DEF ExpressionFormed

\* Text around a reference makes text of it.
LEMMA FilledFormed ==
  ASSUME PlanInv, RefInv, PolicyInv, NEW x, ExpressionFormed(x), Resolves(x)
  PROVE  Formed(Filled(x))
<1> DEFINE v == Referred(x)
<1>1. Formed(v)
  BY ReferredFormed
<1>2. IsSequence(x.tail)
  BY DEF ExpressionFormed
<1> HIDE DEF v
<1>3. CASE x.tail = <<>>
  BY <1>1, <1>3 DEF Filled, v
<1>4. CASE x.tail # <<>> /\ v.t = "str"
  <2>1. DOMAIN v = {"t", "abs", "parts"} /\ IsSequence(v.parts)
    BY <1>1, <1>4 DEF Formed, TextFormed
  <2> DEFINE w == [v EXCEPT !.parts = @ \o x.tail]
  <2>2. Filled(x) = w
    BY <1>4 DEF Filled, v
  <2>3. DOMAIN w = DOMAIN v /\ w.t = "str" /\ w.parts = v.parts \o x.tail
    BY <1>4, <2>1
  <2>4. IsSequence(v.parts \o x.tail)
    BY <1>2, <2>1, SequenceConcat
  <2> HIDE DEF w
  <2>. QED
    BY <2>1, <2>2, <2>3, <2>4 DEF Formed, TextFormed
<1>5. CASE x.tail # <<>> /\ v.t # "str"
  <2>1. Filled(x) = Text(<<"text">> \o x.tail)
    BY <1>5 DEF Filled, v
  <2>2. IsSequence(<<"text">>)
    BY SequenceOne
  <2>3. IsSequence(<<"text">> \o x.tail)
    BY <1>2, <2>2, SequenceConcat
  <2>. QED
    BY <2>1, <2>3 DEF Text, Formed, TextFormed
<1>. QED
  BY <1>3, <1>4, <1>5


\* A step that leaves the plan alone leaves it formed.
LEMMA PlanFormedStays ==
  ASSUME UNCHANGED plan
  PROVE  /\ PlanFormed' <=> PlanFormed
         /\ \A k, q : AcceptedFor(k, q)' <=> AcceptedFor(k, q)
BY DEF PlanFormed, AcceptedFor, Config, Step

\* One more call was accepted, as those before it were.
LEMMA DonePolicy ==
  ASSUME PlanInv, PolicyInv, NEW k, NEW params,
         \/ done' = done
         \/ AcceptedFor(k, params) /\ done' = Append(done, [step |-> k, params |-> params])
  PROVE  \A n \in DOMAIN done' : AcceptedFor(done'[n].step, done'[n].params)
<1>. SUFFICES ASSUME NEW n \in DOMAIN done' PROVE AcceptedFor(done'[n].step, done'[n].params)
  OBVIOUS
<1>1. CASE done' = done
  BY <1>1 DEF PolicyInv
<1>2. CASE AcceptedFor(k, params) /\ done' = Append(done, [step |-> k, params |-> params])
  <2> DEFINE e == [step |-> k, params |-> params]
  <2>1. e.step = k /\ e.params = params
    OBVIOUS
  <2> HIDE DEF e
  <2>2. done' = Append(done, e)
    BY <1>2 DEF e
  <2>3. /\ DOMAIN done' = 1 .. Len(done) + 1 /\ DOMAIN done = 1 .. Len(done)
        /\ Len(done) \in Nat
        /\ \A i \in 1 .. Len(done) : done'[i] = done[i]
        /\ done'[Len(done) + 1] = e
    BY <2>2, SequenceAppend, SequenceDomain DEF PlanInv, Shape
  <2>4. CASE n = Len(done) + 1
    BY <1>2, <2>1, <2>3, <2>4
  <2>5. CASE n # Len(done) + 1
    <3>1. n \in DOMAIN done /\ done'[n] = done[n]
      BY <2>3, <2>5
    <3>. QED
      BY <3>1 DEF PolicyInv
  <2>. QED
    BY <2>4, <2>5
<1>. QED
  BY <1>1, <1>2

\* The result of a step, failed or with the parameters the first check let through.
LEMMA RecordPolicy ==
  ASSUME PlanInv, PolicyInv, NEW k, NEW ok \in BOOLEAN, NEW params, Record(k, ok, params),
         k = Len(results) + 1, plan' = plan, ok => AcceptedFor(k, params),
         \/ done' = done
         \/ ok /\ done' = Append(done, [step |-> k, params |-> params])
  PROVE  PolicyInv'
<1>1. /\ Len(results) \in Nat /\ IsSequence(done)
      /\ Len(results') = k /\ \A j \in 1 .. Len(results) : results'[j] = results[j]
      /\ results'[k].ok = ok /\ results'[k].params = params
      /\ pc' = "next"
  BY SequenceAppend, SequenceDomain DEF Record, PlanInv, Shape
<1>2. PlanFormed' /\ \A j, q : AcceptedFor(j, q)' <=> AcceptedFor(j, q)
  BY PlanFormedStays DEF PolicyInv
<1>3. ASSUME NEW n \in DOMAIN done' PROVE AcceptedFor(done'[n].step, done'[n].params)
  BY DonePolicy
<1>4. ASSUME NEW j \in 1 .. Len(results'), results'[j].ok PROVE AcceptedFor(j, results'[j].params)
  <2>1. CASE j = k
    BY <1>1, <1>4, <2>1
  <2>2. CASE j # k
    <3>1. j \in 1 .. Len(results)
      BY <1>1, <2>2
    <3>2. results'[j] = results[j]
      BY <1>1, <3>1
    <3>. QED
      BY <1>4, <3>1, <3>2 DEF PolicyInv
  <2>. QED
    BY <2>1, <2>2
<1>5. \A n \in DOMAIN done' : AcceptedFor(done[n].step, done[n].params)'
  BY <1>2, <1>3
<1>6. \A j \in 1 .. Len(results') : results'[j].ok => AcceptedFor(j, results[j].params)'
  BY <1>2, <1>4
<1>. QED
  BY <1>1, <1>2, <1>5, <1>6 DEF PolicyInv

\* A step that records nothing.
LEMMA MovePolicy ==
  ASSUME PlanInv, PolicyInv, UNCHANGED <<plan, results>>, NEW k, NEW params,
         \/ done' = done
         \/ AcceptedFor(k, params) /\ done' = Append(done, [step |-> k, params |-> params]),
         pc' \in {"open", "execute"} => AcceptedFor(current', prepared')
  PROVE  PolicyInv'
<1>1. PlanFormed' /\ \A j, q : AcceptedFor(j, q)' <=> AcceptedFor(j, q)
  BY PlanFormedStays DEF PolicyInv
<1>2. pc' \in {"open", "execute"} => AcceptedFor(current, prepared)'
  BY <1>1, PlanFormedStays DEF AcceptedFor, Config, Step
<1>3. \A n \in DOMAIN done' : AcceptedFor(done[n].step, done[n].params)'
  BY <1>1, DonePolicy
<1>4. \A j \in 1 .. Len(results') : results'[j].ok => AcceptedFor(j, results[j].params)'
  BY PlanFormedStays DEF PolicyInv
<1>. QED
  BY <1>1, <1>2, <1>3, <1>4 DEF PolicyInv

\* What the first check let through, the second lets through as it is.
LEMMA SecondAgrees ==
  ASSUME PlanInv, PolicyInv, pc = "execute"
  PROVE  SecondCheck = Accepted(prepared)
<1>1. AcceptedFor(current, prepared) /\ SessionFormed(Config(Step(current).session))
  BY DEF PolicyInv, PlanFormed
<1> DEFINE c == Config(Step(current).session)
<1>2. PICK p : ParamsFormed(p) /\ PrepareAction(Step(current).action, p, c) = Accepted(prepared)
  BY <1>1 DEF AcceptedFor
<1>3. PrepareAction(Step(current).action, prepared, Settled(c)) = Accepted(prepared)
  BY <1>1, <1>2, AcceptedAgain
<1>4. Context = Settled(c)
  BY DEF Context, Settled, Handle
<1>. QED
  BY <1>3, <1>4 DEF SecondCheck

\* The first check sees parameters users can write.
LEMMA FirstAccepts ==
  ASSUME PlanInv, RefInv, PolicyInv, NEW k \in 1 .. Len(plan.steps), Ready(k)
  PROVE  AcceptedFor(k, FirstCheck(k).params)
<1> DEFINE x == Step(k).params
           p == Params(x)
           c == Config(Step(k).session)
<1>1. ASSUME NEW n \in DOMAIN x PROVE Formed(Filled(x[n]))
  BY <1>1, FilledFormed DEF PolicyInv, PlanFormed, Ready, AllResolve
<1>2. ParamsFormed(p)
  <2> HIDE DEF Filled, x
  <2>. QED
    BY <1>1 DEF Params, ParamsFormed
<1>3. FirstCheck(k) = PrepareAction(Step(k).action, p, c)
  BY DEF FirstCheck
<1>4. FirstCheck(k) = Accepted(FirstCheck(k).params)
  <2> HIDE DEF p, c
  <2>1. \A a, b, s : \/ PrepareAction(a, b, s) = Refused
                     \/ \E q : PrepareAction(a, b, s) = Accepted(q)
    BY DEF PrepareAction
  <2>2. FirstCheck(k) # Refused
    <3>1. FirstCheck(k).ok
      BY DEF Ready
    <3>. QED
      BY <3>1 DEF Refused
  <2>3. PICK q : FirstCheck(k) = Accepted(q)
    BY <1>3, <2>1, <2>2
  <2>4. Accepted(q).params = q
    BY DEF Accepted
  <2>. QED
    BY <2>3, <2>4
<1>. QED
  BY <1>2, <1>3, <1>4 DEF AcceptedFor

\* Every step keeps to the policy.
LEMMA NextPolicy == PlanInv /\ RefInv /\ PolicyInv /\ [Next]_vars => PolicyInv'
<1>. SUFFICES ASSUME PlanInv, RefInv, PolicyInv, [Next]_vars PROVE PolicyInv'
  OBVIOUS
<1>1. CASE Load
  <2>1. /\ Len(results) = 0 /\ document \in Documents /\ \A i \in DOMAIN done : FALSE
    <3>1. Len(results) = 0 /\ current = 0
      BY <1>1 DEF Load, PlanInv, StepInHand
    <3>2. Len(done) = 0
      BY <1>1, <3>1 DEF Load, PlanInv, Done, Interruptions
    <3>. QED
      BY <3>1, <3>2, SequenceDomain DEF PlanInv, Shape
  <2>2. UNCHANGED <<results, done>> /\ pc' \in {"next", "over"}
          /\ plan' \in {plan, LoadPlan(document)}
    BY <1>1 DEF Load
  <2>3. PlanFormed'
    <3>1. CASE plan' = plan
      BY <3>1, PlanFormedStays DEF PolicyInv
    <3>2. CASE plan' = LoadPlan(document)
      <4>1. /\ \A h \in DOMAIN plan'.sessions : SessionFormed(plan'.sessions[h])
            /\ \A k \in 1 .. Len(plan'.steps) : \A n \in DOMAIN plan'.steps[k].params :
                 ExpressionFormed(plan'.steps[k].params[n])
        BY <2>1, <3>2, LoadedFormed
      <4>2. \A h : SessionFormed(Config(h))'
        BY <4>1, DefaultFormed DEF Config
      <4>. QED
        BY <4>1, <4>2 DEF PlanFormed, Step
    <3>. QED
      BY <2>2, <3>1, <3>2
  <2>. QED
    BY <2>1, <2>2, <2>3 DEF PolicyInv
<1>2. CASE Begin
  <2>1. /\ current' = current + 1 /\ current + 1 \in 1 .. Len(plan.steps)
        /\ UNCHANGED <<plan, results, done>> /\ Ready(current + 1)
        /\ prepared' = FirstCheck(current + 1).params
    BY <1>2, StepBeginsInv DEF Begin, StepBegins
  <2>2. AcceptedFor(current', prepared')
    BY <2>1, FirstAccepts
  <2>. QED
    BY <2>1, <2>2, MovePolicy
<1>3. CASE Refuse
  <2>1. /\ current + 1 = Len(results) + 1 /\ Record(current + 1, FALSE, <<>>)
        /\ UNCHANGED <<plan, done>>
    BY <1>3, StepBeginsInv DEF Refuse, Fail
  <2>. QED
    BY <2>1, RecordPolicy
<1>4. CASE Open
  <2>1. UNCHANGED <<plan, results, done, current, prepared>> /\ pc = "open"
    BY <1>4 DEF Open
  <2>. QED
    BY <2>1, MovePolicy DEF PolicyInv
<1>5. CASE OpenFails \/ ExecuteFails
  <2>1. current = Len(results) + 1 /\ Record(current, FALSE, <<>>) /\ UNCHANGED <<plan, done>>
    BY <1>5, InHand DEF OpenFails, ExecuteFails, Fail
  <2>. QED
    BY <2>1, RecordPolicy
<1>6. CASE Execute
  <2>1. SecondCheck = Accepted(prepared) /\ AcceptedFor(current, prepared)
    BY <1>6, SecondAgrees DEF Execute, PolicyInv
  <2>2. SecondCheck.params = prepared
    BY <2>1 DEF Accepted
  <2>3. /\ current = Len(results) + 1 /\ plan' = plan
        /\ Record(current, TRUE, prepared)
        /\ done' = Append(done, [step |-> current, params |-> prepared])
    BY <1>6, <2>2, InHand DEF Execute, Carrying
  <2>. QED
    BY <2>1, <2>3, RecordPolicy
<1>7. CASE NoMoreSteps \/ Close \/ CloseFails \/ Finish
  <2>1. UNCHANGED <<plan, results, done>> /\ pc' \notin {"open", "execute"}
    BY <1>7 DEF NoMoreSteps, Close, CloseFails, Finish, CloseTo
  <2>. QED
    BY <2>1, MovePolicy
<1>9. CASE Interrupt
  <2>1. UNCHANGED <<plan, results>> /\ pc' \notin {"open", "execute"}
    BY <1>9, InterruptKeeps
  <2>2. CASE InterruptExecute /\ done' # done
    <3>1. /\ SecondCheck.ok /\ pc = "execute"
          /\ done' = Append(done, [step |-> current, params |-> SecondCheck.params])
      BY <2>2 DEF InterruptExecute, Interrupted, Carrying
    <3>2. SecondCheck = Accepted(prepared) /\ AcceptedFor(current, prepared)
      BY <3>1, SecondAgrees DEF PolicyInv
    <3>3. SecondCheck.params = prepared
      BY <3>2 DEF Accepted
    <3>. QED
      BY <2>1, <3>1, <3>2, <3>3, MovePolicy
  <2>3. CASE ~InterruptExecute \/ done' = done
    BY <1>9, <2>1, <2>3, InterruptKeeps, MovePolicy
  <2>. QED
    BY <2>2, <2>3
<1>8. CASE UNCHANGED vars
  <2>1. UNCHANGED <<plan, results, done, pc, current, prepared>>
    BY <1>8 DEF vars, work
  <2>. QED
    BY <2>1, MovePolicy DEF PolicyInv
<1>. QED
  BY <1>1, <1>2, <1>3, <1>4, <1>5, <1>6, <1>7, <1>8, <1>9 DEF Next

\* Before the plan is loaded there is nothing to keep.
LEMMA InitPolicy == Init => PolicyInv
<1>. SUFFICES ASSUME Init PROVE PolicyInv
  OBVIOUS
<1>1. /\ Len(plan.steps) = 0 /\ Len(results) = 0 /\ DOMAIN plan.sessions = {}
      /\ DOMAIN done = {} /\ pc = "load"
  BY DEF Init, EmptyPlan
<1>2. \A h : SessionFormed(Config(h))
  BY <1>1, DefaultFormed DEF Config
<1>. QED
  BY <1>1, <1>2 DEF PolicyInv, PlanFormed

\* All that is known of an execution.
LEMMA PlanRunInvariant == Spec => [](PlanInv /\ RefInv /\ PolicyInv)
<1>1. Init => PlanInv /\ RefInv /\ PolicyInv
  BY InitInv, InitRefs, InitPolicy
<1>2. PlanInv /\ RefInv /\ PolicyInv /\ [Next]_vars => (PlanInv /\ RefInv /\ PolicyInv)'
  BY NextInv, NextRefs, NextPolicy
<1>. QED
  BY <1>1, <1>2, PTL DEF Spec

\* The session's own check never refuses what the first check let through, nor
\* changes it, whatever the documents, the paths in them and the roots.
THEOREM ChecksAlwaysAgree == Spec => []ChecksAgree
<1>1. PlanInv /\ PolicyInv => ChecksAgree
  BY SecondAgrees DEF ChecksAgree
<1>. QED
  BY <1>1, PlanRunInvariant, PTL

\* Whatever a plan says, products carry out raw actions only in expert sessions that
\* opted in, and get only files under a root of their session.
THEOREM PolicyIsKept == Spec => []PolicyKept
<1>1. ASSUME NEW v, NEW h, UnderRoot(v, Config(h)) PROVE IsProper(v.parts, h)
  BY <1>1 DEF UnderRoot, IsProper, IsProperPath
<1>2. PolicyInv => PolicyKept
  <2>. SUFFICES ASSUME PolicyInv, NEW n \in DOMAIN done
                PROVE  LET step == Step(done[n].step) IN
                         /\ step.action \in RawActions =>
                              Config(step.session).profile = "expert" /\ Config(step.session).raw
                         /\ "file_name" \in DOMAIN done[n].params =>
                              IsProper(done[n].params.file_name.parts, step.session)
                         /\ "images" \in DOMAIN done[n].params =>
                              \A k \in DOMAIN done[n].params.images.items :
                                IsProper(done[n].params.images.items[k].fields.file_name.parts,
                                         step.session)
    BY DEF PolicyKept
  <2> DEFINE step == Step(done[n].step)
             q == done[n].params
             c == Config(step.session)
  <2>1. PICK p : ParamsFormed(p) /\ PrepareAction(step.action, p, c) = Accepted(q)
    BY DEF PolicyInv, AcceptedFor
  <2>2. SessionFormed(c)
    BY DEF PolicyInv, PlanFormed
  <2>3. /\ step.action \in RawActions => c.profile = "expert" /\ c.raw
        /\ "file_name" \in DOMAIN q => UnderRoot(q.file_name, c)
        /\ "images" \in DOMAIN q =>
             \A k \in DOMAIN q.images.items : UnderRoot(q.images.items[k].fields.file_name, c)
    BY <2>1, <2>2, AcceptedKeeps
  <2> HIDE DEF step, q
  <2>4. /\ "file_name" \in DOMAIN q => IsProper(q.file_name.parts, step.session)
        /\ "images" \in DOMAIN q =>
             \A k \in DOMAIN q.images.items :
               IsProper(q.images.items[k].fields.file_name.parts, step.session)
    BY <1>1, <2>3
  <2>. QED
    BY <2>3, <2>4 DEF step, q
<1>. QED
  BY <1>2, PlanRunInvariant, PTL

-----------------------------------------------------------------------------

(***************************************************************************)
(* The commands.  What has to be known of the executor besides PlanInv.    *)
(***************************************************************************)
\* There is something to do, and for a direct call one step.
Substance == /\ pc = "load" => plan = EmptyPlan
             /\ pc \notin {"load", "over"} => plan.steps # <<>>
             /\ pc = "over" /\ ~raised => plan.steps # <<>>
             /\ pc # "load" /\ plan.direct => Len(plan.steps) = 1

\* A step without success is a step the products did not do; an interrupted one they may
\* have done.
Missed == "execute" \notin interrupted =>
            /\ Len(done) <= Len(results)
            /\ (\E k \in 1 .. Len(results) : ~results[k].ok) => Len(done) < Len(results)

\* The caller of a direct call hears of what failed in it.
Loud == /\ plan.direct /\ ~raised => \A k \in 1 .. Len(results) : results[k].ok
        /\ \A h \in Handles : product[h] = "stuck" =>
             pc \in {"close", "over"} /\ (plan.direct => raised)

\* An interrupt goes out as such, unless the close of a direct call failed after it.
GoesOut == /\ ctrlC => interrupted # {}
           /\ interrupted # {} => ctrlC \/ (raised /\ Hidden)

CliInv == PlanInv /\ Substance /\ Missed /\ Loud /\ GoesOut

-----------------------------------------------------------------------------
\* Nothing is missed before anything is done.
LEMMA CliInitInv == CliInit => CliInv /\ ExitTellsTruth
<1>1. Len(<<>>) = 0
  OBVIOUS
<1>. SUFFICES ASSUME CliInit PROVE CliInv /\ ExitTellsTruth
  OBVIOUS
<1>2. PlanInv
  BY InitInv DEF CliInit
<1>3. Substance /\ GoesOut
  BY DEF CliInit, Init, Substance, GoesOut
<1>4. Missed /\ Loud
  BY <1>1 DEF CliInit, Init, Missed, Loud
<1>5. ExitTellsTruth
  BY ExitAssumption DEF CliInit, ExitTellsTruth
<1>. QED
  BY <1>2, <1>3, <1>4, <1>5 DEF CliInv

\* What is loaded has at least one step, a direct call exactly one.
LEMMA LoadSubstance ==
  ASSUME PlanInv, Substance, Missed, Loud, Load
  PROVE  Substance' /\ Missed' /\ Loud'
<1>1. /\ pc = "load" /\ current = 0 /\ Len(results) = 0 /\ document \in Documents
      /\ UNCHANGED <<document, product, results, done, interrupted>>
  BY DEF Load, PlanInv, StepInHand, Shape
<1>2. Missed' /\ \A k \in 1 .. Len(results') : results'[k].ok
  BY <1>1 DEF Missed
<1>3. \A h \in Handles : product'[h] # "stuck"
  BY <1>1 DEF Loud
<1>4. CASE document.direct \/ PlanOk(document)
  <2>1. plan' = LoadPlan(document) /\ pc' = "next"
    BY <1>4 DEF Load
  <2>2. Named(document)
    BY <1>1, DocumentsAssumption
  <2>3. Len(document.steps) \in Nat /\ DOMAIN document.steps = 1 .. Len(document.steps)
    BY <2>2, SequenceDomain DEF Named
  <2>4. document.steps # <<>> /\ (document.direct => Len(document.steps) = 1)
    BY <1>4, <2>2 DEF Named, PlanOk
  <2>5. Len(document.steps) > 0
    BY <2>2, <2>3, <2>4 DEF Named, IsSequence
  <2> DEFINE q == [k \in 1 .. Len(document.steps) |-> LoadStep(document.steps[k])]
  <2>6. plan'.steps = q /\ plan'.direct = document.direct
    BY <2>1, <2>3 DEF LoadPlan
  <2>7. Len(q) = Len(document.steps)
    <3> HIDE DEF LoadStep
    <3>. QED BY <2>3
  <2>8. plan'.steps # <<>>
    BY <2>5, <2>6, <2>7
  <2>. QED
    BY <1>2, <1>3, <2>1, <2>4, <2>6, <2>7, <2>8 DEF Substance, Loud
<1>5. CASE ~(document.direct \/ PlanOk(document))
  <2>1. pc' = "over" /\ raised' = TRUE /\ plan' = plan
    BY <1>5 DEF Load
  <2>2. ~plan.direct
    BY <1>1 DEF Substance, EmptyPlan
  <2>. QED
    BY <1>2, <1>3, <2>1, <2>2 DEF Substance, Loud
<1>. QED
  BY <1>4, <1>5

\* A recorded result counts as done only if the products did the step.
LEMMA RecordSubstance ==
  ASSUME PlanInv, Substance, Missed, Loud, NEW ok \in BOOLEAN, NEW params,
         NEW k, Record(k, ok, params), k = Len(results) + 1, k \in 1 .. Len(plan.steps),
         pc \in {"next", "open", "execute"},
         UNCHANGED <<document, plan, product, interrupted>>,
         (ok = FALSE /\ done' = done) \/ (ok = TRUE /\ \E e : done' = Append(done, e))
  PROVE  Substance' /\ Missed' /\ Loud'
<1>1. /\ Len(results') = k /\ Len(results) \in Nat /\ Len(done) \in Nat
      /\ \A j \in 1 .. Len(results) : results'[j] = results[j]
      /\ results'[k].ok = ok
  BY SequenceAppend, SequenceDomain DEF Record, PlanInv, Shape
<1>2. /\ ok = FALSE => Len(done') = Len(done)
      /\ ok = TRUE => Len(done') = Len(done) + 1
  BY SequenceAppend DEF PlanInv, Shape
<1>3. pc' = "next" /\ raised' = (plan.direct /\ ~ok)
  BY DEF Record
<1>4. Substance'
  BY <1>3 DEF Substance
<1>5. Missed'
  BY <1>1, <1>2, Uninterrupted DEF Missed
<1>6. Loud'
  <2>1. \A h \in Handles : product'[h] # "stuck"
    BY DEF Loud
  <2>2. plan.direct => Len(plan.steps) = 1
    BY DEF Substance
  <2>3. ASSUME plan.direct PROVE k = 1
    <3>1. Len(plan.steps) = 1
      BY <2>2, <2>3
    <3>2. k \in 1 .. 1
      BY <3>1
    <3>. QED
      BY <3>2
  <2>4. ASSUME plan.direct, ~raised', NEW j \in 1 .. Len(results') PROVE results'[j].ok
    <3>1. j = k
      BY <1>1, <2>3, <2>4
    <3>2. ok
      BY <1>3, <2>4, Zenon
    <3>. QED
      BY <1>1, <3>1, <3>2
  <2>. QED
    BY <2>1, <2>4 DEF Loud
<1>. QED
  BY <1>4, <1>5, <1>6

\* Steps that record no result.
LEMMA MoveSubstance ==
  ASSUME Substance, Missed, Loud, UNCHANGED <<plan, results>>, pc # "load", pc' # "load",
         \/ UNCHANGED done /\ interrupted \subseteq interrupted'
         \/ "execute" \in interrupted',
         pc = "over" => pc' = "over", raised => raised',
         \A h \in Handles : product'[h] = "stuck" =>
           /\ product[h] = "stuck" \/ (plan.direct => raised')
           /\ pc' \in {"close", "over"}
  PROVE  Substance' /\ Missed' /\ Loud'
<1>1. Substance'
  BY DEF Substance
<1>2. Missed'
  BY DEF Missed
<1>3. Loud'
  BY DEF Loud
<1>. QED
  BY <1>1, <1>2, <1>3

\* An interrupt, before anything is loaded or later.
LEMMA InterruptSubstance ==
  ASSUME PlanInv, Substance, Missed, Loud, Interrupt
  PROVE  Substance' /\ Missed' /\ Loud'
<1>1. CASE InterruptLoad
  <2>1. /\ UNCHANGED <<plan, results, product, done>> /\ raised' = TRUE
        /\ pc = "load" /\ pc' = "over" /\ interrupted' = interrupted \cup {"load"}
    BY <1>1 DEF InterruptLoad, Interrupted
  <2>2. plan = EmptyPlan /\ ~plan.direct /\ \A h \in Handles : product[h] # "stuck"
    BY <2>1 DEF Substance, Loud, EmptyPlan
  <2>. QED
    BY <2>1, <2>2 DEF Substance, Missed, Loud
<1>2. CASE InterruptAnswer
  <2>1. /\ UNCHANGED <<plan, results, product, done, raised, pc>> /\ pc = "over"
        /\ interrupted' = interrupted \cup {"over"}
    BY <1>2 DEF InterruptAnswer, work
  <2>. QED
    BY <2>1, MoveSubstance DEF Loud
<1>3. CASE InterruptNext \/ InterruptOpen \/ InterruptExecute
  <2>1. PICK place \in {"next", "open", "execute"} :
          /\ pc = place /\ pc' = "close" /\ raised' = TRUE
          /\ interrupted' = interrupted \cup {place}
          /\ UNCHANGED <<plan, results>>
          /\ place # "execute" => done' = done
          /\ \/ product' = product
             \/ place = "open" /\ product' = [product EXCEPT ![Handle] = "live"]
    BY <1>3 DEF InterruptNext, InterruptOpen, InterruptExecute, Interrupted
  <2>2. \A h \in Handles : product'[h] # "stuck"
    BY <2>1 DEF Loud, PlanInv, Shape
  <2>. QED
    BY <2>1, <2>2, MoveSubstance
<1>4. CASE InterruptClose
  <2>1. /\ UNCHANGED <<plan, results, done>> /\ raised' = TRUE
        /\ pc = "close" /\ pc' = "over" /\ interrupted' = interrupted \cup {"close"}
    BY <1>4 DEF InterruptClose, Interrupted
  <2>. QED
    BY <2>1, MoveSubstance
<1>. QED
  BY <1>1, <1>2, <1>3, <1>4 DEF Interrupt

\* Every step of the executor keeps what has to be known of it.
LEMMA NextSubstance ==
  ASSUME PlanInv, Substance, Missed, Loud, Next
  PROVE  Substance' /\ Missed' /\ Loud'
<1>1. CASE Load
  BY <1>1, LoadSubstance
<1>2. CASE Begin \/ NoMoreSteps
  <2>1. /\ UNCHANGED <<plan, results, done, raised, product, interrupted>>
        /\ pc = "next" /\ pc' \in {"open", "execute", "close"}
    BY <1>2 DEF Begin, StepBegins, NoMoreSteps
  <2>2. \A h \in Handles : product[h] # "stuck"
    BY <2>1 DEF Loud
  <2>. QED
    BY <2>1, <2>2, MoveSubstance
<1>3. CASE Refuse
  <2>1. current + 1 = Len(results) + 1 /\ current + 1 \in 1 .. Len(plan.steps)
    BY <1>3, StepBeginsInv DEF Refuse
  <2>2. /\ Record(current + 1, FALSE, <<>>)
        /\ UNCHANGED <<document, plan, product, done, interrupted>>
        /\ pc = "next"
    BY <1>3 DEF Refuse, Fail, StepBegins
  <2>. QED
    BY <2>1, <2>2, RecordSubstance
<1>4. CASE Open
  <2>1. /\ UNCHANGED <<plan, results, done, raised, interrupted>>
        /\ pc = "open" /\ pc' = "execute" /\ product' = [product EXCEPT ![Handle] = "live"]
    BY <1>4 DEF Open
  <2>2. \A h \in Handles : product'[h] # "stuck"
    BY <2>1 DEF Loud, PlanInv, Shape
  <2>. QED
    BY <2>1, <2>2, MoveSubstance
<1>5. CASE OpenFails \/ ExecuteFails
  <2>1. current = Len(results) + 1 /\ current \in 1 .. Len(plan.steps)
    BY <1>5, InHand DEF OpenFails, ExecuteFails
  <2>2. /\ Record(current, FALSE, <<>>)
        /\ UNCHANGED <<document, plan, product, done, interrupted>>
        /\ pc \in {"open", "execute"}
    BY <1>5 DEF OpenFails, ExecuteFails, Fail
  <2>. QED
    BY <2>1, <2>2, RecordSubstance
<1>6. CASE Execute
  <2>1. current = Len(results) + 1 /\ current \in 1 .. Len(plan.steps)
    BY <1>6, InHand DEF Execute
  <2>2. /\ Record(current, TRUE, SecondCheck.params)
        /\ UNCHANGED <<document, plan, product, interrupted>>
        /\ \E e : done' = Append(done, e)
        /\ pc = "execute"
    BY <1>6 DEF Execute
  <2>. QED
    BY <2>1, <2>2, RecordSubstance
<1>7. CASE Interrupt
  BY <1>7, InterruptSubstance
<1>8. CASE Close \/ CloseFails
  <2>1. /\ UNCHANGED <<plan, results, done, pc, interrupted>> /\ pc = "close"
        /\ \/ CloseTo("closed") /\ raised' = raised
           \/ CloseTo("stuck") /\ raised' = (raised \/ plan.direct)
    BY <1>8 DEF Close, CloseFails, CloseTo
  <2>2. \A h \in Handles : product'[h] = "stuck" =>
          product[h] = "stuck" \/ (plan.direct => raised')
    <3>1. CASE CloseTo("closed")
      <4>1. PICK x : product' = [product EXCEPT ![x] = "closed"]
        BY <3>1 DEF CloseTo
      <4>. QED
        BY <4>1 DEF PlanInv, Shape
    <3>2. CASE raised' = (raised \/ plan.direct)
      BY <3>2, Zenon
    <3>. QED
      BY <2>1, <3>1, <3>2
  <2>3. raised => raised'
    BY <2>1, Zenon
  <2>. QED
    BY <2>1, <2>2, <2>3, MoveSubstance
<1>9. CASE Finish
  <2>1. /\ UNCHANGED <<plan, results, done, product, raised, interrupted>>
        /\ pc = "close" /\ pc' = "over"
    BY <1>9 DEF Finish
  <2>. QED
    BY <2>1, MoveSubstance
<1>. QED
  BY <1>1, <1>2, <1>3, <1>4, <1>5, <1>6, <1>7, <1>8, <1>9 DEF Next

\* The session closed next is one of those that are not.
LEMMA EarliestIs ==
  ASSUME PlanInv, Unclosed # {}
  PROVE  Earliest(Unclosed) \in Unclosed
<1>1. Unclosed \subseteq Nat /\ Unclosed # {}
  BY DEF Unclosed, PlanInv, Shape
<1>. HIDE DEF Unclosed
<1>2. \E n \in Unclosed : \A m \in Unclosed : n <= m
  BY <1>1, LeastNumber
<1>. QED
  BY <1>2 DEF Earliest

\* The executor keeps an interrupt on its way, or the close that fails after it.
LEMMA WorksGoesOut ==
  ASSUME PlanInv, Substance, Missed, Loud, GoesOut, Works
  PROVE  GoesOut'
<1>1. Next /\ ctrlC' = IF Interrupt THEN TRUE ELSE ctrlC /\ ~(CloseFails /\ plan.direct)
  BY DEF Works
<1>2. CASE Interrupt
  <2>1. interrupted' # {}
    BY <1>2 DEF Interrupt, InterruptLoad, InterruptNext, InterruptOpen, InterruptExecute,
                InterruptClose, InterruptAnswer, Interrupted
  <2>. QED
    BY <1>1, <1>2, <2>1 DEF GoesOut
<1>3. CASE ~Interrupt
  <2>1. interrupted' = interrupted
    BY <1>1, <1>3 DEF Next, Load, Begin, Refuse, Open, OpenFails, Execute, ExecuteFails,
                      NoMoreSteps, Close, CloseFails, Finish
  <2>2. interrupted # {} => pc \in {"close", "over"}
    BY DEF PlanInv, Interruptions, Shape, Places
  <2>3. ASSUME interrupted # {}
        PROVE  /\ plan' = plan /\ (raised => raised')
               /\ \/ CloseFails \/ Close
                  \/ Finish /\ product' = product
    <3>1. Close \/ CloseFails \/ Finish
      BY <1>1, <1>3, <2>2, <2>3 DEF Next, Load, Begin, StepBegins, Refuse, Open, OpenFails,
                                    Execute, ExecuteFails, NoMoreSteps
    <3>2. plan' = plan /\ (Finish => product' = product)
      BY <3>1 DEF Close, CloseFails, Finish
    <3>3. raised => raised'
      <4>1. CASE CloseFails
        BY <4>1, Zenon DEF CloseFails
      <4>2. CASE Close \/ Finish
        BY <4>2 DEF Close, Finish
      <4>. QED
        BY <3>1, <4>1, <4>2
    <3>. QED
      BY <3>1, <3>2, <3>3
  <2>4. ASSUME interrupted # {}, Hidden PROVE Hidden'
    <3>1. PICK h \in Handles : product[h] = "stuck"
      BY <2>4 DEF Hidden
    <3>2. product'[h] = "stuck"
      <4>1. CASE product' = product
        BY <3>1, <4>1
      <4>2. ASSUME NEW state \in {"closed", "stuck"}, CloseTo(state) PROVE product'[h] = "stuck"
        <5>1. Unclosed # {} /\ product' = [product EXCEPT ![sessions[Earliest(Unclosed)]] = state]
          BY <4>2 DEF CloseTo
        <5>2. Earliest(Unclosed) \in Unclosed
          BY <5>1, EarliestIs
        <5>3. product[sessions[Earliest(Unclosed)]] = "live"
          BY <5>2 DEF Unclosed
        <5>. QED
          BY <3>1, <5>1, <5>3 DEF PlanInv, Shape
      <4>. QED
        BY <2>3, <2>4, <4>1, <4>2 DEF Close, CloseFails
    <3>3. plan' = plan
      BY <2>3, <2>4
    <3>. QED
      BY <2>4, <3>2, <3>3 DEF Hidden
  <2>5. ASSUME interrupted # {}, CloseFails, plan.direct PROVE raised' /\ Hidden'
    <3>1. plan' = plan /\ raised'
      BY <2>3, <2>5, Zenon DEF CloseFails
    <3>2. Unclosed # {} /\ product' = [product EXCEPT ![sessions[Earliest(Unclosed)]] = "stuck"]
      BY <2>5 DEF CloseFails, CloseTo
    <3>3. sessions[Earliest(Unclosed)] \in Handles
      BY <3>2, EarliestIs DEF Unclosed, PlanInv, Shape
    <3>. QED
      BY <2>5, <3>1, <3>2, <3>3 DEF Hidden, PlanInv, Shape
  <2>6. CASE interrupted = {}
    <3>1. ~ctrlC
      BY <2>6 DEF GoesOut
    <3>. QED
      BY <1>1, <1>3, <2>1, <2>6, <3>1, Zenon DEF GoesOut
  <2>7. CASE interrupted # {} /\ CloseFails /\ plan.direct
    BY <2>1, <2>5, <2>7 DEF GoesOut
  <2>8. CASE interrupted # {} /\ ~(CloseFails /\ plan.direct)
    <3>1. ctrlC => ctrlC'
      BY <1>1, <1>3, <2>8, Zenon
    <3>3. ctrlC' => interrupted # {}
      BY <2>8
    <3>2. ctrlC \/ (raised' /\ Hidden')
      BY <2>3, <2>4, <2>8 DEF GoesOut
    <3>. QED
      BY <2>1, <3>1, <3>2, <3>3 DEF GoesOut
  <2>. QED
    BY <2>6, <2>7, <2>8
<1>. QED
  BY <1>2, <1>3

-----------------------------------------------------------------------------
\* What is answered is what happened.
LEMMA AnswersTruth == ASSUME CliInv, Answers PROVE ExitTellsTruth'
<1>1. /\ pc = "over" /\ ~raised /\ ~ctrlC /\ exit' = Status /\ shown' = "result"
      /\ UNCHANGED <<plan, done, results, product, interrupted>>
  BY DEF Answers, Exit, vars, work
<1>0. interrupted = {}
  BY <1>1 DEF CliInv, GoesOut
<1>2. /\ DOMAIN results = 1 .. Len(results) /\ DOMAIN done = 1 .. Len(done)
      /\ Len(results) \in Nat /\ Len(done) \in Nat /\ Len(plan.steps) \in Nat
  BY SequenceDomain DEF CliInv, PlanInv, Shape, PlanKnown
<1>3. CASE plan.direct \/ AllSucceeded
  <2>1. exit' = "0"
    BY <1>1, <1>3 DEF Status
  <2>2. \A k \in 1 .. Len(results) : results[k].ok
    BY <1>1, <1>2, <1>3 DEF CliInv, Loud, AllSucceeded
  <2>3. Len(done) = Len(results) /\ \A n \in 1 .. Len(done) : done[n].step = n
    BY <1>0, <2>2 DEF CliInv, PlanInv, Done
  <2>4. going
    <3>1. going \in BOOLEAN /\ (~going => Len(results) > 0 /\ ~MayGoOn(Len(results)))
      BY DEF CliInv, PlanInv, Shape, GoesOn
    <3>2. Len(results) > 0 => MayGoOn(Len(results))
      BY <1>2, <2>2 DEF MayGoOn
    <3>. QED
      BY <3>1, <3>2
  <2>5. Len(results) = Len(plan.steps)
    BY <1>1, <2>4 DEF CliInv, PlanInv, GoesOn, StepInHand
  <2>6. AllDone'
    BY <1>0, <1>1, <1>2, <2>3, <2>5 DEF AllDone, CliInv, PlanInv, LiveIsOpened, Lost
  <2>7. plan.steps # <<>> /\ (plan.direct => \A h \in Handles : product[h] # "stuck")
    BY <1>1 DEF CliInv, Substance, Loud
  <2>. QED
    BY <1>0, <1>1, <2>1, <2>6, <2>7, ExitAssumption DEF ExitTellsTruth
<1>4. CASE ~(plan.direct \/ AllSucceeded)
  <2>1. exit' = "1"
    BY <1>1, <1>4 DEF Status
  <2>2. Len(done) < Len(results)
    BY <1>0, <1>2, <1>4 DEF AllSucceeded, CliInv, Missed
  <2>3. Len(results) <= Len(plan.steps)
    <3>1. current \in 0 .. Len(plan.steps)
      BY DEF CliInv, PlanInv, Shape
    <3>2. Len(results) = current
      BY <1>1 DEF CliInv, PlanInv, StepInHand
    <3>. QED
      BY <1>2, <3>1, <3>2
  <2>. QED
    BY <1>0, <1>1, <1>2, <2>1, <2>2, <2>3 DEF ExitTellsTruth
<1>. QED
  BY <1>3, <1>4

\* The exit status of a command tells the truth, whatever its plan, its sessions and
\* its labels are, whatever fails, and wherever it is interrupted.
THEOREM ExitTruth == CliSpec => []ExitTellsTruth
<1>1. CliInv /\ ExitTellsTruth /\ [CliNext]_cliVars => (CliInv /\ ExitTellsTruth)'
  <2>. SUFFICES ASSUME CliInv, ExitTellsTruth, [CliNext]_cliVars PROVE (CliInv /\ ExitTellsTruth)'
    OBVIOUS
  <2>1. ASSUME UNCHANGED <<vars, ctrlC>> PROVE CliInv'
    <3>1. PlanInv'
      BY <2>1, NextInv DEF CliInv
    <3>2. UNCHANGED <<plan, pc, results, raised, product, done, interrupted, ctrlC>>
      BY <2>1 DEF vars, work
    <3>3. Substance' /\ GoesOut'
      BY <3>2 DEF CliInv, Substance, GoesOut, Hidden
    <3>4. Missed' /\ Loud'
      BY <3>2 DEF CliInv, Missed, Loud
    <3>. QED
      BY <3>1, <3>3, <3>4 DEF CliInv
  <2>2. CASE UNCHANGED cliVars
    <3>1. /\ UNCHANGED <<plan, done, product, interrupted, exit, shown>>
          /\ UNCHANGED <<vars, ctrlC>>
      BY <2>2 DEF cliVars, vars, work
    <3>. QED
      BY <3>1, <2>1 DEF ExitTellsTruth, AllDone, Hidden
  <2>3. CASE exit = NoName /\ Works
    <3>1. PlanInv'
      BY <2>3, NextInv DEF Works, CliInv
    <3>2. Substance' /\ Missed' /\ Loud'
      BY <2>3, NextSubstance DEF Works, CliInv
    <3>3. GoesOut'
      BY <2>3, WorksGoesOut DEF CliInv
    <3>4. exit' = NoName
      BY <2>3 DEF Works
    <3>5. ExitTellsTruth'
      BY <3>4, ExitAssumption DEF ExitTellsTruth
    <3>. QED
      BY <3>1, <3>2, <3>3, <3>5 DEF CliInv
  <2>4. CASE Answers
    BY <2>1, <2>4, AnswersTruth DEF Answers
  <2>5. CASE Misused \/ Unprepared
    <3>1. /\ UNCHANGED <<vars, ctrlC>> /\ exit' \in {"1", "2"} /\ shown' = "error"
          /\ pc = "load"
      BY <2>5 DEF Misused, Unprepared, Exit
    <3>2. interrupted' = {}
      BY <3>1 DEF CliInv, PlanInv, Interruptions, vars
    <3>. QED
      BY <2>1, <3>1, <3>2 DEF ExitTellsTruth
  <2>7. CASE Errs
    <3>1. UNCHANGED <<vars, ctrlC>> /\ exit' = "1" /\ shown' = "error" /\ ~ctrlC
      BY <2>7 DEF Errs, Exit
    <3>2. interrupted' # {} => Hidden'
      BY <3>1 DEF CliInv, GoesOut, Hidden, vars, work
    <3>. QED
      BY <2>1, <3>1, <3>2 DEF ExitTellsTruth
  <2>6. CASE Breaks
    <3>1. UNCHANGED <<vars, ctrlC>> /\ exit' = "130" /\ ctrlC
      BY <2>6 DEF Breaks, Exit
    <3>2. interrupted' # {}
      BY <3>1 DEF CliInv, GoesOut, vars
    <3>. QED
      BY <2>1, <3>1, <3>2 DEF ExitTellsTruth
  <2>. QED
    BY <2>2, <2>3, <2>4, <2>5, <2>6, <2>7 DEF CliNext
<1>. QED
  BY <1>1, CliInitInv, PTL DEF CliSpec
=============================================================================
