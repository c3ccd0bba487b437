------------------------- MODULE BridgeServerProofs -------------------------
(***************************************************************************)
(* The bridge implements the service: whatever its callers send, abandon   *)
(* or never read, the service behind it takes only steps of its own        *)
(* specification, so every theorem of EditorServiceProofs holds behind the *)
(* bridge as well.                                                         *)
(***************************************************************************)
EXTENDS BridgeServer, EditorServiceProofs

\* What is in flight is a message a caller sent; its plan is one of Requests.
InFlight == asked \in [Callers -> Messages \cup {Nothing}]

BridgeInv == TypeOK /\ InFlight

\* The plan a handler passes to the service is one the service's own
\* specification quantifies over.
LEMMA ServedRequest ==
    ASSUME InFlight, NEW c \in Callers, asked[c] # Nothing,
           asked[c].path = "plan", asked[c].mode \in Modes,
           asked[c].request # NoRequest
    PROVE  asked[c].request \in Requests
  <1>1. asked[c] \in Messages
    BY DEF InFlight
  <1>2. asked[c] # GetContext
    BY DEF GetContext
  <1>3. \A id \in 1 .. MaxPlans : asked[c] # GetPlan(id)
    BY DEF GetPlan
  <1>4. /\ asked[c] # PostPlan("unknown", NoRequest)
        /\ asked[c] # PostPlan("submit", NoRequest)
    BY DEF PostPlan
  <1>5. \E mode \in Modes, r \in Requests : asked[c] = PostPlan(mode, r)
    BY <1>1, <1>2, <1>3, <1>4 DEF Messages
  <1> QED
    BY <1>5 DEF PostPlan

\* A step that only clears the last call's reply is one the editor takes when
\* nothing about it changes.
LEMMA QuietStep ==
    ASSUME TypeOK, reply' = NoReply, UNCHANGED <<approvalVars, editorVars, settingVars>>
    PROVE  Next
  <1>1. /\ bAllowExternalSessionApproval \in BOOLEAN
        /\ bRequireInEditorConfirmForDestructive \in BOOLEAN
    BY DEF TypeOK
  <1>2. /\ bAllowExternalSessionApproval' \in BOOLEAN
        /\ bRequireInEditorConfirmForDestructive' \in BOOLEAN
    BY <1>1 DEF settingVars
  <1>3. ToggleSettings
    BY <1>2 DEF ToggleSettings
  <1> QED
    BY <1>3 DEF Environment, Next

\* A handler on the game thread is one call of the service, or none.
LEMMA HandleStep ==
    ASSUME TypeOK, InFlight, NEW c \in Callers, Handle(c)
    PROVE  Next
  <1>1. CASE HandlePostPlan(c)
    <2>1. CASE RejectPost(c)
      BY <2>1, QuietStep DEF RejectPost
    <2>2. CASE ServePost(c)
      <3> DEFINE r == asked[c].request
      <3>1. r \in Requests
        BY <1>1, <2>2, ServedRequest DEF ServePost, HandlePostPlan, Handle
      <3>2. /\ Len(plans) < MaxPlans
            /\ \/ SubmitPlanRequest(r, "Bridge")
               \/ PreviewPlanRequest(r)
               \/ SubmitExternalPlan(r)
        BY <2>2 DEF ServePost
      <3> HIDE DEF r
      <3> QED
        BY <3>1, <3>2 DEF Next
    <2> QED
      BY <1>1, <2>1, <2>2 DEF HandlePostPlan
  <1>2. CASE HandleGetPlan(c)
    BY <1>2, QuietStep DEF HandleGetPlan
  <1>3. CASE HandleGetContext(c)
    BY <1>3, QuietStep DEF HandleGetContext
  <1> QED
    BY <1>1, <1>2, <1>3 DEF Handle

\* Every step of the bridge, its callers and the editor is a step of the
\* service or leaves it alone.
LEMMA BridgeTakesServiceSteps ==
    ASSUME BridgeInv, [BridgeNext]_allVars
    PROVE  [Next]_vars
  <1> USE DEF BridgeInv
  <1>1. ASSUME NEW c \in Callers, NEW ask \in Messages, Send(c, ask)
        PROVE  Next
    BY <1>1, QuietStep DEF Send
  <1>2. ASSUME NEW c \in Callers, Handle(c)
        PROVE  Next
    BY <1>2, HandleStep
  <1>3. ASSUME NEW c \in Callers, HandleUnbound(c) \/ LoseAnswer(c) \/ Receive(c)
        PROVE  Next
    BY <1>3, QuietStep DEF HandleUnbound, LoseAnswer, Receive
  <1>4. CASE Start \/ Stop
    BY <1>4, QuietStep DEF Start, Stop
  <1>5. CASE EditorStep
    BY <1>5 DEF EditorStep, Next
  <1>6. CASE UNCHANGED allVars
    BY <1>6 DEF allVars
  <1> QED
    BY <1>1, <1>2, <1>3, <1>4, <1>5, <1>6 DEF BridgeNext

\* Requests enter by Send alone and leave when they are handled.
LEMMA InFlightStep ==
    ASSUME InFlight, [BridgeNext]_allVars
    PROVE  InFlight'
  <1> USE DEF InFlight
  <1>1. ASSUME NEW c \in Callers, NEW ask \in Messages, Send(c, ask)
        PROVE  InFlight'
    BY <1>1 DEF Send
  <1>2. ASSUME NEW c \in Callers, Handle(c) \/ HandleUnbound(c)
        PROVE  InFlight'
    <2>1. asked' = [asked EXCEPT ![c] = Nothing]
      BY <1>2 DEF Handle, HandleUnbound
    <2> QED
      BY <2>1
  <1>3. ASSUME UNCHANGED asked
        PROVE  InFlight'
    BY <1>3
  <1>4. ASSUME NEW c \in Callers, LoseAnswer(c) \/ Receive(c)
        PROVE  UNCHANGED asked
    BY <1>4 DEF LoseAnswer, Receive
  <1>5. CASE Start \/ Stop
    BY <1>3, <1>5 DEF Start, Stop
  <1>6. CASE EditorStep
    BY <1>3, <1>6 DEF EditorStep, bridgeVars
  <1>7. CASE UNCHANGED allVars
    BY <1>3, <1>7 DEF allVars, bridgeVars
  <1> QED
    BY <1>1, <1>2, <1>3, <1>4, <1>5, <1>6, <1>7 DEF BridgeNext

\* The bridge with any callers implements the service's specification.
THEOREM BridgeImplementsService == BridgeSpec => ServiceSpec
  <1>1. BridgeInit => Init /\ BridgeInv
    <2> SUFFICES ASSUME BridgeInit
                 PROVE  Init /\ BridgeInv
      OBVIOUS
    <2>1. Init /\ TypeOK
      BY InitType DEF BridgeInit
    <2>2. InFlight
      BY DEF BridgeInit, InFlight
    <2> QED
      BY <2>1, <2>2 DEF BridgeInv
  <1>2. BridgeInv /\ [BridgeNext]_allVars => BridgeInv' /\ [Next]_vars
    <2> SUFFICES ASSUME BridgeInv, [BridgeNext]_allVars
                 PROVE  BridgeInv' /\ [Next]_vars
      OBVIOUS
    <2>1. [Next]_vars
      BY BridgeTakesServiceSteps
    <2>2. TypeOK'
      BY <2>1, TypeStep DEF BridgeInv
    <2>3. InFlight'
      BY InFlightStep DEF BridgeInv
    <2> QED
      BY <2>1, <2>2, <2>3 DEF BridgeInv
  <1> QED
    BY <1>1, <1>2, PTL DEF BridgeSpec, ServiceSpec, Spec

\* So behind the bridge, too, a mutation runs only through the gate its risk
\* asks for, and a plan runs at most once.
THEOREM BridgeKeepsTheGates ==
    BridgeSpec => [](MutationsPassTheirGate /\ StatusTellsWhetherItRan)
  BY BridgeImplementsService, GatesHold, RunsAtMostOnce, PTL DEF ServiceSpec

-----------------------------------------------------------------------------
\* What an answer says of a plan is what its record says when it is written.
Contexts == [scene : Worlds \cup {NoWorld}, seen : SUBSET Actors]

AnswerAt(a, heap) ==
    /\ a.context \in Contexts
    /\ \/ a.plan = NoPlan /\ a.status = "none" /\ a.code # 202
       \/ a.plan \in DOMAIN heap /\ \E code : a = Serialized(code, a.plan, heap[a.plan])

LEMMA ErrorSaysNothing ==
    ASSUME NEW code, NEW error, NEW heap, code # 202
    PROVE  AnswerAt(Error(code, error), heap)
  BY DEF AnswerAt, Error, Contexts, NoContext

LEMMA SerializedSaysTheRecord ==
    ASSUME NEW code, NEW heap, NEW id \in DOMAIN heap
    PROVE  AnswerAt(Serialized(code, id, heap[id]), heap)
  BY DEF AnswerAt, Serialized, Contexts, NoContext

\* The ids of the records kept are ids of records.
LEMMA FoundIsCreated ==
    ASSUME TypeOK, RecordsAreTheNewest, NEW id, FindRecord(id)
    PROVE  id \in PlanIds
  <1>1. PICK k \in DOMAIN Records : Records[k] = id
    BY DEF FindRecord
  <1>2. id = (Len(plans) - Len(Records)) + k
    BY <1>1 DEF RecordsAreTheNewest
  <1>3. /\ Len(plans) \in Nat /\ Len(Records) \in Nat /\ Len(Records) <= Len(plans)
        /\ k \in 1 .. Len(Records) /\ PlanIds = 1 .. Len(plans)
    BY MaxRecordsAssumption DEF TypeOK, RecordsAreTheNewest, PlanIds
  <1> QED
    BY <1>2, <1>3

LEMMA ServedAnswer ==
    ASSUME TypeOK', NEW c \in Callers, ServePost(c), DOMAIN answered = Callers
    PROVE  AnswerAt(answered'[c], plans')
  <1> DEFINE id == reply'.plan
  <1>1. id \in 0 .. Len(plans') /\ DOMAIN plans' = 1 .. Len(plans') /\ Len(plans') \in Nat
    BY DEF TypeOK
  <1>2. id # NoPlan => id \in DOMAIN plans'
    BY <1>1 DEF NoPlan
  <1>3. CASE AnswerWith(c, SubmitAnswer(id, reply'.code, plans'))
    <2>1. answered'[c] = SubmitAnswer(id, reply'.code, plans')
      BY <1>3 DEF AnswerWith
    <2>2. CASE id = NoPlan
      <3>1. answered'[c] = Error(409, reply'.code)
        BY <2>1, <2>2 DEF SubmitAnswer
      <3> QED
        BY <3>1, ErrorSaysNothing
    <2>3. CASE id # NoPlan
      <3> DEFINE code == IF plans'[id].status = "Invalid" THEN 400 ELSE 200
      <3>1. answered'[c] = Serialized(code, id, plans'[id])
        BY <2>1, <2>3 DEF SubmitAnswer
      <3> HIDE DEF code
      <3> QED
        BY <1>2, <2>3, <3>1, SerializedSaysTheRecord
    <2> QED
      BY <2>2, <2>3
  <1>4. CASE PreviewPlanRequest(asked[c].request)
             /\ AnswerWith(c, PreviewAnswer(id, plans'))
    <2>1. id # NoPlan
      BY <1>4, <1>1 DEF PreviewPlanRequest, Answer, Reply, NoPlan, CreateRecord, TypeOK
    <2>2. answered'[c] = PreviewAnswer(id, plans')
      BY <1>4 DEF AnswerWith
    <2> QED
      BY <1>2, <2>1, <2>2, SerializedSaysTheRecord DEF PreviewAnswer
  <1>5. CASE AnswerWith(c, ExternalAnswer(id, reply'.code, plans'))
    <2>1. answered'[c] = ExternalAnswer(id, reply'.code, plans')
      BY <1>5 DEF AnswerWith
    <2>2. CASE id = NoPlan
      <3>1. answered'[c] \in {Error(403, reply'.code), Error(409, reply'.code)}
        BY <2>1, <2>2 DEF ExternalAnswer
      <3> QED
        BY <3>1, ErrorSaysNothing
    <2>3. CASE id # NoPlan
      <3>1. answered'[c] = Serialized(ExternalCode(plans'[id]), id, plans'[id])
        BY <2>1, <2>3 DEF ExternalAnswer
      <3> QED
        BY <1>2, <2>3, <3>1, SerializedSaysTheRecord
    <2> QED
      BY <2>2, <2>3
  <1> QED
    BY <1>3, <1>4, <1>5 DEF ServePost

LEMMA HandledAnswer ==
    ASSUME TypeOK, TypeOK', RecordsAreTheNewest, NEW c \in Callers, Handle(c),
           DOMAIN answered = Callers
    PROVE  AnswerAt(answered'[c], plans')
  <1>1. CASE RejectPost(c)
    <2>1. answered'[c] \in {Error(400, "unknown_mode"), Error(400, "invalid_plan")}
      BY <1>1 DEF RejectPost, AnswerWith
    <2> QED
      BY <2>1, ErrorSaysNothing
  <1>2. CASE HandleGetPlan(c)
    <2>1. plans' = plans
      BY <1>2 DEF HandleGetPlan, approvalVars
    <2>2. CASE FindRecord(asked[c].plan)
      <3>1. answered'[c] = Serialized(200, asked[c].plan, plans[asked[c].plan])
        BY <1>2, <2>2 DEF HandleGetPlan, AnswerWith
      <3> QED
        BY <2>1, <2>2, <3>1, FoundIsCreated, SerializedSaysTheRecord DEF PlanIds
    <2>3. CASE ~FindRecord(asked[c].plan)
      <3>1. answered'[c] = Error(404, "plan_not_found")
        BY <1>2, <2>3 DEF HandleGetPlan, AnswerWith
      <3> QED
        BY <3>1, ErrorSaysNothing
    <2> QED
      BY <2>2, <2>3
  <1>3. CASE HandleGetContext(c)
    <2>1. answered'[c] = [code |-> 200, error |-> "none", plan |-> NoPlan, status |-> "none",
                          ran |-> FALSE,
                          context |-> [scene |-> world, seen |-> ContextSelected]]
      BY <1>3, Zenon DEF HandleGetContext, AnswerWith, Error
    <2>2. [scene |-> world, seen |-> ContextSelected] \in Contexts
      BY DEF Contexts, ContextSelected, TypeOK
    <2> QED
      BY <2>1, <2>2 DEF AnswerAt
  <1> QED
    BY <1>1, <1>2, <1>3, ServedAnswer DEF Handle, HandlePostPlan
-----------------------------------------------------------------------------
\* What FinalAnswersStayTrue says of one answer, with the plan it speaks of.
StaysTrue(a) ==
    a.status \in Terminal =>
        /\ a.plan \in PlanIds
        /\ plans[a.plan].status = a.status
        /\ (plans[a.plan].runs > 0) = a.ran

AnswersInv ==
    /\ DOMAIN answered = Callers
    /\ \A c \in Callers : answered[c] # Nothing => StaysTrue(answered[c])

LEMMA SerializedRan ==
    ASSUME NEW code, NEW id, NEW record
    PROVE  /\ Serialized(code, id, record).ran = (record.runs > 0)
           /\ Serialized(code, id, record).status = record.status
  BY Zenon DEF Serialized

\* An answer that says what the record says is true of it.
LEMMA FreshAnswerIsTrue ==
    ASSUME NEW a, AnswerAt(a, plans')
    PROVE  a.status \in Terminal =>
               /\ a.plan \in PlanIds'
               /\ plans'[a.plan].status = a.status
               /\ (plans'[a.plan].runs > 0) = a.ran
  <1> SUFFICES ASSUME a.status \in Terminal
               PROVE  /\ a.plan \in PlanIds'
                      /\ plans'[a.plan].status = a.status
                      /\ (plans'[a.plan].runs > 0) = a.ran
    OBVIOUS
  <1>1. "none" \notin Terminal
    BY DEF Terminal, Statuses
  <1>2. a.plan \in DOMAIN plans' /\ \E code : a = Serialized(code, a.plan, plans'[a.plan])
    BY <1>1, Zenon DEF AnswerAt
  <1>3. PICK code : a = Serialized(code, a.plan, plans'[a.plan])
    BY <1>2
  <1>4. PICK record : record = plans'[a.plan]
    OBVIOUS
  <1>5. PICK said : said = Serialized(code, a.plan, record)
    OBVIOUS
  <1>6. a = said
    BY <1>3, <1>4, <1>5
  <1>7. said.ran = (record.runs > 0) /\ said.status = record.status
    BY <1>5, SerializedRan, Zenon
  <1> QED
    BY <1>2, <1>4, <1>6, <1>7, Zenon DEF PlanIds

\* An answer about a decided plan stays true whatever happens next.
LEMMA OldAnswerStaysTrue ==
    ASSUME TypeOK, Shape, NEW a, StaysTrue(a)
    PROVE  a.status \in Terminal =>
               /\ a.plan \in PlanIds'
               /\ plans'[a.plan].status = a.status
               /\ (plans'[a.plan].runs > 0) = a.ran
  <1> SUFFICES ASSUME a.status \in Terminal
               PROVE  /\ a.plan \in PlanIds'
                      /\ plans'[a.plan].status = a.status
                      /\ (plans'[a.plan].runs > 0) = a.ran
    OBVIOUS
  <1>1. a.plan \in PlanIds /\ plans[a.plan].status = a.status
    BY Zenon DEF StaysTrue
  <1>2. (plans[a.plan].runs > 0) = a.ran
    BY Zenon DEF StaysTrue
  <1>3. plans'[a.plan] = plans[a.plan]
    BY <1>1, DecidedStaysDecided
  <1>4. a.plan \in PlanIds'
    <2>1. ApprovalTypeOK' /\ Len(plans') >= Len(plans)
      BY ApprovalTypeStep
    <2> QED
      BY <1>1, <2>1 DEF PlanIds, TypeOK, ApprovalTypeOK
  <1> QED
    BY <1>1, <1>2, <1>3, <1>4, Zenon

LEMMA AnswersStep ==
    ASSUME IInv, TypeOK', InFlight, AnswersInv, [BridgeNext]_allVars
    PROVE  AnswersInv'
  <1>1. TypeOK /\ RecordsAreTheNewest /\ Shape
    BY BridgeTakesServiceSteps, StepShape DEF IInv, BridgeInv
  <1>2. ASSUME NEW c \in Callers, NEW a, answered' = [answered EXCEPT ![c] = a],
               a # Nothing => AnswerAt(a, plans')
        PROVE  AnswersInv'
    <2>1. DOMAIN answered' = Callers /\ answered'[c] = a
      BY <1>2 DEF AnswersInv
    <2>2. ASSUME NEW d \in Callers, answered'[d] # Nothing
          PROVE  StaysTrue(answered[d])'
      <3>1. CASE d = c
        BY <1>2, <2>1, <2>2, <3>1, FreshAnswerIsTrue DEF StaysTrue
      <3>2. CASE d # c
        <4>1. answered'[d] = answered[d] /\ StaysTrue(answered[d])
          BY <1>2, <2>2, <3>2 DEF AnswersInv
        <4> QED
          BY <1>1, <4>1, OldAnswerStaysTrue DEF StaysTrue
      <3> QED
        BY <3>1, <3>2
    <2> QED
      BY <2>1, <2>2 DEF AnswersInv
  <1>3. ASSUME UNCHANGED answered
        PROVE  AnswersInv'
    <2>1. ASSUME NEW d \in Callers, answered'[d] # Nothing
          PROVE  StaysTrue(answered[d])'
      <3>1. answered'[d] = answered[d] /\ StaysTrue(answered[d])
        BY <1>3, <2>1 DEF AnswersInv
      <3> QED
        BY <1>1, <3>1, OldAnswerStaysTrue DEF StaysTrue
    <2> QED
      BY <1>3, <2>1 DEF AnswersInv
  <1>4. ASSUME NEW c \in Callers, (\E ask \in Messages : Send(c, ask)) \/ Receive(c)
        PROVE  AnswersInv'
    BY <1>2, <1>4 DEF Send, Receive, AnswerWith
  <1>5. ASSUME NEW c \in Callers, HandleUnbound(c) \/ LoseAnswer(c)
        PROVE  AnswersInv'
    <2>1. PICK answer \in {Error(404, "none"), Error(0, "none")} : AnswerWith(c, answer)
      BY <1>5 DEF HandleUnbound, LoseAnswer, Broken
    <2>2. AnswerAt(Error(404, "none"), plans') /\ AnswerAt(Error(0, "none"), plans')
      BY ErrorSaysNothing
    <2> QED
      BY <1>2, <2>1, <2>2 DEF AnswerWith
  <1>6. ASSUME NEW c \in Callers, Handle(c)
        PROVE  AnswersInv'
    <2>1. AnswerAt(answered'[c], plans')
      BY <1>1, <1>6, HandledAnswer DEF AnswersInv
    <2>2. \E a : answered' = [answered EXCEPT ![c] = a]
      BY <1>6 DEF Handle, HandlePostPlan, RejectPost, ServePost, HandleGetPlan,
                  HandleGetContext, AnswerWith
    <2>3. PICK a : answered' = [answered EXCEPT ![c] = a]
      BY <2>2
    <2>4. a = answered'[c]
      BY <2>3 DEF AnswersInv
    <2> QED
      BY <1>2, <2>1, <2>3, <2>4
  <1>7. CASE Start \/ Stop \/ EditorStep \/ UNCHANGED allVars
    BY <1>3, <1>7 DEF Start, Stop, EditorStep, allVars, bridgeVars
  <1> QED
    BY <1>4, <1>5, <1>6, <1>7 DEF BridgeNext

\* What a caller was told of a decided plan holds for as long as it keeps the
\* answer, however late it reads it.
THEOREM AnswersStayTrue == BridgeSpec => []FinalAnswersStayTrue
  <1>1. BridgeInit => InFlight /\ AnswersInv
    BY DEF BridgeInit, InFlight, AnswersInv
  <1>2. IInv /\ IInv' /\ InFlight /\ AnswersInv /\ [BridgeNext]_allVars
        => InFlight' /\ AnswersInv'
    BY InFlightStep, AnswersStep DEF IInv
  <1>3. AnswersInv => FinalAnswersStayTrue
    BY Zenon DEF AnswersInv, StaysTrue, FinalAnswersStayTrue
  <1> QED
    BY <1>1, <1>2, <1>3, BridgeImplementsService, Invariant, PTL DEF BridgeSpec, ServiceSpec

-----------------------------------------------------------------------------
(***************************************************************************)
(* Refusals.  A request either did nothing, or left a record whose code is *)
(* not that of a refusal.                                                  *)
(***************************************************************************)
NothingHappens ==
    /\ UNCHANGED <<CurrentPlanId, bLastPlanConsumed, live, selected>>
    /\ \A id \in DOMAIN plans' :
          plans'[id].runs = IF id \in PlanIds THEN plans[id].runs ELSE 0

LEMMA UnchangedIsNothing ==
    ASSUME TypeOK, UNCHANGED <<approvalVars, editorVars>>
    PROVE  NothingHappens
  BY DEF NothingHappens, approvalVars, editorVars, TypeOK, PlanIds

\* The record of an answer is the newest, and the reply names it.
LEMMA AnsweredRecord ==
    ASSUME TypeOK, NEW record \in PlanRecord, Answer(record)
    PROVE  /\ reply'.plan # NoPlan /\ plans'[reply'.plan] = record
           /\ DOMAIN plans' = PlanIds \cup {reply'.plan}
           /\ reply'.plan \notin PlanIds
           /\ \A id \in PlanIds : plans'[id] = plans[id]
  BY DEF Answer, Reply, CreateRecord, NoPlan, PlanIds, TypeOK

\* A plan that is answered without running or waiting did nothing.
LEMMA UnrunAnswerIsNothing ==
    ASSUME TypeOK, NEW r \in PlanRequest, NEW source \in Sources, NEW external \in BOOLEAN,
           NEW status \in Statuses, NEW refusal \in RefusalCodes, status # "PendingApproval",
           Answer(NewRecord(r, source, external, status, refusal)), UNCHANGED editorVars
    PROVE  NothingHappens
  <1> PICK record : record = NewRecord(r, source, external, status, refusal)
    OBVIOUS
  <1>1. record \in PlanRecord
    BY NewRecordType
  <1>2. record.runs = 0 /\ record.status # "PendingApproval"
    BY DEF NewRecord
  <1>3. UNCHANGED <<CurrentPlanId, bLastPlanConsumed, live, selected>>
    BY <1>2 DEF Answer, CreateRecord, editorVars
  <1> QED
    BY <1>1, <1>2, <1>3, AnsweredRecord DEF NothingHappens

\* A plan that ran is answered by a record that says so.
LEMMA RanAnswer ==
    ASSUME TypeOK, NEW r \in PlanRequest, NEW source \in Sources, NEW external \in BOOLEAN,
           NEW gate \in Gates,
           \E ok \in BOOLEAN :
              Answer(RanRecord(NewRecord(r, source, external, "Executed", "none"), ok, gate))
    PROVE  /\ reply'.plan # NoPlan
           /\ plans'[reply'.plan].runs = 1
           /\ plans'[reply'.plan].status \in {"Executed", "Failed"}
  <1>1. PICK ok \in BOOLEAN :
           Answer(RanRecord(NewRecord(r, source, external, "Executed", "none"), ok, gate))
    OBVIOUS
  <1>2. PICK born : born = NewRecord(r, source, external, "Executed", "none")
    OBVIOUS
  <1>3. PICK record : record = RanRecord(born, ok, gate)
    OBVIOUS
  <1>4. born \in PlanRecord /\ born.runs = 0
    BY <1>2, NewRecordType DEF Statuses, RefusalCodes, NewRecord
  <1>5. record \in PlanRecord /\ record.status \in {"Executed", "Failed"}
    BY <1>3, <1>4, RanRecordType
  <1>6. record.runs = 1
    BY <1>3, <1>4 DEF RanRecord
  <1> QED
    BY <1>1, <1>2, <1>3, <1>5, <1>6, AnsweredRecord

LEMMA SubmitRefusals ==
    ASSUME TypeOK, NEW r \in PlanRequest, SubmitPlanRequest(r, "Bridge")
    PROVE  \/ NothingHappens
           \/ reply'.plan # NoPlan /\ plans'[reply'.plan].status # "Invalid"
  <1> USE DEF Sources, Statuses, RefusalCodes, Gates
  <1>1. CASE SubmitInvalid(r, "Bridge") \/ SubmitDestructive(r, "Bridge")
    BY <1>1, UnrunAnswerIsNothing DEF SubmitInvalid, SubmitDestructive
  <1>2. CASE SubmitReadOnly(r, "Bridge")
    BY <1>2, RanAnswer DEF SubmitReadOnly, ExecuteReadOnly
  <1>3. CASE SubmitWhilePending(r)
    BY <1>3, UnchangedIsNothing DEF SubmitWhilePending, Refuse
  <1>4. CASE SubmitForApproval(r, "Bridge")
    <2> PICK record : record = NewRecord(r, "Bridge", FALSE, "PendingApproval", "none")
      OBVIOUS
    <2>1. record \in PlanRecord /\ record.status = "PendingApproval" /\ record.refusal = "none"
      BY NewRecordType DEF NewRecord
    <2>2. Answer(record)
      BY <1>4, <2>1 DEF SubmitForApproval, SupersededPlans, Answer
    <2> QED
      BY <2>1, <2>2, AnsweredRecord
  <1> QED
    BY <1>1, <1>2, <1>3, <1>4 DEF SubmitPlanRequest

LEMMA ExternalRefusals ==
    ASSUME TypeOK, NEW r \in PlanRequest, SubmitExternalPlan(r)
    PROVE  \/ NothingHappens
           \/ reply'.plan # NoPlan /\ ExternalCode(plans'[reply'.plan]) < 400
  <1> USE DEF Sources, Statuses, RefusalCodes, Gates
  <1>1. CASE ExternalDisabled \/ ExternalConfirmWhilePending(r)
    BY <1>1, UnchangedIsNothing DEF ExternalDisabled, ExternalConfirmWhilePending, Refuse
  <1>2. CASE ExternalInvalid(r) \/ ExternalBlocked(r) \/ ExternalStale(r)
    BY <1>2, UnrunAnswerIsNothing DEF ExternalInvalid, ExternalBlocked, ExternalStale, BlockCode
  <1>3. CASE ExternalReadOnly(r) \/ ExternalExecute(r)
    <2>1. /\ reply'.plan # NoPlan /\ plans'[reply'.plan].runs = 1
          /\ plans'[reply'.plan].status \in {"Executed", "Failed"}
      BY <1>3, RanAnswer DEF ExternalReadOnly, ExecuteReadOnly, ExternalExecute
    <2> QED
      BY <2>1 DEF ExternalCode
  <1>4. CASE ExternalConfirm(r)
    <2> PICK record : record = NewRecord(r, "Bridge", TRUE, "PendingApproval", "none")
      OBVIOUS
    <2>1. record \in PlanRecord /\ record.status = "PendingApproval"
      BY NewRecordType DEF NewRecord
    <2>2. Answer(record)
      BY <1>4 DEF ExternalConfirm
    <2>3. reply'.plan # NoPlan /\ plans'[reply'.plan].status = "PendingApproval"
      BY <2>1, <2>2, AnsweredRecord
    <2> QED
      BY <2>3 DEF ExternalCode
  <1> QED
    BY <1>1, <1>2, <1>3, <1>4 DEF SubmitExternalPlan

LEMMA PreviewDoesNothing ==
    ASSUME TypeOK, NEW r \in PlanRequest, PreviewPlanRequest(r)
    PROVE  NothingHappens
  <1>1. \/ Answer(NewRecord(r, "Bridge", FALSE, "PreviewedOnly", "none"))
        \/ Answer(NewRecord(r, "Bridge", FALSE, "Invalid", "invalid_plan"))
    BY DEF PreviewPlanRequest
  <1>2. UNCHANGED editorVars
    BY DEF PreviewPlanRequest
  <1> QED
    BY <1>1, <1>2, UnrunAnswerIsNothing DEF Sources, Statuses, RefusalCodes

LEMMA SerializedCode ==
    /\ \A code, id, record : Serialized(code, id, record).code = code
    /\ \A code, error : Error(code, error).code = code
  BY Zenon DEF Serialized, Error

LEMMA ServedRefusals ==
    ASSUME TypeOK, InFlight, DOMAIN answered = Callers, NEW c \in Callers, Handle(c),
           ServePost(c), asked[c].path = "plan", answered'[c].code >= 400
    PROVE  NothingHappens
  <1> PICK r : r = asked[c].request
    OBVIOUS
  <1>1. r \in PlanRequest
    BY ServedRequest, ServiceAssumption DEF ServePost, Handle
  <1>2. CASE SubmitPlanRequest(r, "Bridge")
             /\ AnswerWith(c, SubmitAnswer(reply'.plan, reply'.code, plans'))
    <2>1. answered'[c] = SubmitAnswer(reply'.plan, reply'.code, plans')
      BY <1>2 DEF AnswerWith
    <2>2. ASSUME reply'.plan # NoPlan, plans'[reply'.plan].status # "Invalid"
          PROVE  FALSE
      <3>1. answered'[c] = Serialized(200, reply'.plan, plans'[reply'.plan])
        BY <2>1, <2>2 DEF SubmitAnswer
      <3> QED
        BY <3>1, SerializedCode
    <2> QED
      BY <1>1, <1>2, <2>2, SubmitRefusals
  <1>3. CASE PreviewPlanRequest(r)
    BY <1>1, <1>3, PreviewDoesNothing
  <1>4. CASE SubmitExternalPlan(r)
             /\ AnswerWith(c, ExternalAnswer(reply'.plan, reply'.code, plans'))
    <2>1. answered'[c] = ExternalAnswer(reply'.plan, reply'.code, plans')
      BY <1>4 DEF AnswerWith
    <2>2. ASSUME reply'.plan # NoPlan, ExternalCode(plans'[reply'.plan]) < 400
          PROVE  FALSE
      <3> PICK code : code = ExternalCode(plans'[reply'.plan])
        OBVIOUS
      <3>1. answered'[c] = Serialized(code, reply'.plan, plans'[reply'.plan])
        BY <2>1, <2>2 DEF ExternalAnswer
      <3>2. answered'[c].code = code /\ code \in Nat
        BY <3>1, SerializedCode DEF ExternalCode
      <3> QED
        BY <2>2, <3>2
    <2> QED
      BY <1>1, <1>4, <2>2, ExternalRefusals
  <1> QED
    BY <1>2, <1>3, <1>4 DEF ServePost

LEMMA HandledRefusals ==
    ASSUME TypeOK, InFlight, DOMAIN answered = Callers, NEW c \in Callers, Handle(c),
           answered'[c].code >= 400
    PROVE  NothingHappens
  <1>1. CASE HandlePostPlan(c)
    BY <1>1, ServedRefusals, UnchangedIsNothing DEF HandlePostPlan, RejectPost
  <1>2. CASE HandleGetPlan(c) \/ HandleGetContext(c)
    BY <1>2, UnchangedIsNothing DEF HandleGetPlan, HandleGetContext
  <1> QED
    BY <1>1, <1>2 DEF Handle

\* A caller that reads 400, 403, 404 or 409 may send again: its request ran nothing,
\* took no slot and left the level alone, however many others are in flight.
THEOREM RefusalsAreHarmless == BridgeSpec => RefusalChangesNothing
  <1> DEFINE Refused(c) == answered[c] # answered'[c] /\ answered'[c] # Nothing
                             /\ answered'[c].code >= 400
  <1>1. ASSUME TypeOK, InFlight, DOMAIN answered = Callers, BridgeNext,
               NEW c \in Callers, Refused(c)
        PROVE  NothingHappens
    <2>1. ASSUME NEW d \in Callers, Handle(d)
          PROVE  NothingHappens
      <3>1. \E a : answered' = [answered EXCEPT ![d] = a]
        BY <2>1 DEF Handle, HandlePostPlan, RejectPost, ServePost, HandleGetPlan,
                    HandleGetContext, AnswerWith
      <3>2. c = d
        BY <1>1, <3>1
      <3> QED
        BY <1>1, <2>1, <3>2, HandledRefusals
    <2>2. ASSUME NEW d \in Callers,
                 (\E ask \in Messages : Send(d, ask)) \/ HandleUnbound(d) \/ LoseAnswer(d)
                    \/ Receive(d)
          PROVE  NothingHappens
      BY <1>1, <2>2, UnchangedIsNothing DEF Send, HandleUnbound, LoseAnswer, Receive
    <2>3. CASE Start \/ Stop \/ EditorStep
      BY <1>1, <2>3 DEF Start, Stop, EditorStep, bridgeVars
    <2> QED
      BY <1>1, <2>1, <2>2, <2>3 DEF BridgeNext
  <1>2. TypeOK /\ InFlight /\ AnswersInv /\ [BridgeNext]_allVars =>
          [\A c \in Callers : Refused(c) => NothingHappens]_allVars
    <2> HIDE DEF Refused
    <2> QED
      BY <1>1 DEF AnswersInv
  <1>3. BridgeInit => InFlight /\ AnswersInv
    BY DEF BridgeInit, InFlight, AnswersInv
  <1>4. IInv /\ IInv' /\ InFlight /\ AnswersInv /\ [BridgeNext]_allVars
        => InFlight' /\ AnswersInv' /\ TypeOK
    BY InFlightStep, AnswersStep DEF IInv
  <1> QED
    BY <1>2, <1>3, <1>4, BridgeImplementsService, Invariant, PTL
       DEF BridgeSpec, ServiceSpec, RefusalChangesNothing, NothingHappens

=============================================================================
