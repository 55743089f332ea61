----------------------------- MODULE AgentProofs -----------------------------
(***************************************************************************)
(* Theorems of Agent, for any turns, limits, token counts and number of    *)
(* runs, interrupted anywhere.  Each safety property has an invariant of   *)
(* its own that says what the process may rely on at each stage; all of    *)
(* them rest on the types and on the order of the calls of a turn.         *)
(***************************************************************************)
EXTENDS MCAgent, TLAPS

\* What the assumptions say, under one name.
LEMMA Constants ==
  /\ \A t \in Turns : t \in Seq(Call)
  /\ Limits \subseteq [turns : Nat, tokens : Nat]
  /\ Usages \subseteq Nat /\ Inputs \subseteq Nat /\ MaxCallsPerTurn \in Nat
  /\ Nil \notin Repair /\ Foreign \notin Repair
BY TurnsAssumption, LimitsAssumption, NothingAssumption

\* A mark replaces one entry of the turn and keeps its call.
LEMMA MarkFacts ==
  ASSUME turn \in Seq(Entry), NEW k \in DOMAIN turn,
         NEW phase \in {"queued", "dispatched", "completed"},
         NEW lookup \in Lookups \cup {"none", "dispatched"},
         NEW res \in Results \cup {Nil},
         Mark(k, phase, lookup, res)
  PROVE  /\ turn' \in Seq(Entry)
         /\ DOMAIN turn' = DOMAIN turn /\ Len(turn') = Len(turn)
         /\ \A j \in DOMAIN turn : j # k => turn'[j] = turn[j]
         /\ turn'[k] = [call |-> turn[k].call, phase |-> phase,
                        lookup |-> lookup, result |-> res]
<1>1. turn[k] \in Entry
  OBVIOUS
<1>2. [call |-> turn[k].call, phase |-> phase, lookup |-> lookup, result |-> res] \in Entry
  BY <1>1 DEF Entry
<1>3. QED
  BY <1>2 DEF Mark

\* What get_operation answers, case by case.
LEMMA FoundFacts ==
  ASSUME NEW r
  PROVE  /\ Found(r) \in {"absent", "same", "other"}
         /\ Found(r) = "same" => journal[r.op] = r
BY DEF Found

\* A response queues its calls in order.
LEMMA QueuedFacts ==
  ASSUME NEW t \in Turns, turn' = [k \in 1..Len(t) |-> Pending(t[k])]
  PROVE  /\ turn' \in Seq(Entry)
         /\ Len(turn') = Len(t) /\ DOMAIN turn' = 1..Len(t)
         /\ \A k \in 1..Len(t) : turn'[k] = Pending(t[k])
<1>1. t \in Seq(Call) /\ Len(t) \in Nat
  BY Constants
<1>2. \A k \in 1..Len(t) : Pending(t[k]) \in Entry
  BY <1>1 DEF Pending, Entry
<1>3. QED
  BY <1>1, <1>2

-----------------------------------------------------------------------------
(* Types.                                                                  *)

\* The variables that say how the process stands.
StandTypes ==
  /\ status \in Statuses /\ pc \in Stages
  /\ result \in Results \cup {Nil} /\ stopping \in BOOLEAN

\* TypeOK says where the process stands.
LEMMA StandOf == TypeOK => StandTypes
BY DEF TypeOK, StandTypes

\* A process that stops, goes on or dies still stands somewhere.
LEMMA StopTypes ==
  ASSUME NEW last \in {"completed", "blocked", "budget_exhausted", "indeterminate", "interrupted"},
         Stop(last)
  PROVE  StandTypes'
BY DEF StandTypes, Stop, Down, Statuses, FinalStatuses, Stages

\* So does one that goes on to another stage.
LEMMA AtTypes ==
  ASSUME StandTypes,
         NEW stage \in {"loop", "counting", "counted", "asking", "awaiting", "calling", "looking"},
         At(stage), status' \in {status, "running"}
  PROVE  StandTypes'
BY DEF StandTypes, At, Stages, Statuses

\* So does one that is gone.
LEMMA DownTypes ==
  ASSUME StandTypes, Down, status' \in {status, "error"}
  PROVE  StandTypes'
BY DEF StandTypes, Down, Stages, Statuses

\* A new checkpoint has the types of TypeOK.
LEMMA InitTypes == Init => TypeOK
<1> SUFFICES ASSUME Init PROVE TypeOK
  OBVIOUS
<1>1. StandTypes
  BY DEF Init, StandTypes, Statuses, Stages
<1>2. journal \in [Ops -> Repair \cup {Nil, Foreign}]
  BY DEF Init
<1>3. handed \in [Repair -> Nat] /\ limit \in [turns : Nat, tokens : Nat]
  BY DEF Init
<1>4. turn \in Seq(Entry)
  BY DEF Init
<1>5. QED
  BY <1>1, <1>2, <1>3, <1>4 DEF Init, TypeOK, StandTypes

\* Beginning, ending and interrupting a run keep the types.
LEMMA RunTypes ==
  ASSUME TypeOK, (\E l \in Limits : Open(l)) \/ Prelude \/ Raise \/ Die
  PROVE  TypeOK'
<1>0. StandTypes
  BY StandOf
<1>1. CASE \E l \in Limits : Open(l)
  <2> PICK l \in Limits : Open(l)
    BY <1>1
  <2>1. StandTypes'
    BY <1>0 DEF StandTypes, Open, MayOpen, LimitOf, Statuses, Stages
  <2>2. limit' \in [turns : Nat, tokens : Nat]
    BY Constants DEF TypeOK, Open, MayOpen, LimitOf, Min2
  <2>3. granted' \in SUBSET Limits
    BY DEF TypeOK, Open, MayOpen, LimitOf
  <2>4. QED
    BY <2>1, <2>2, <2>3 DEF TypeOK, StandTypes, Open, MayOpen, LimitOf, toolbox
<1>2. CASE Prelude
  <2>1. StandTypes'
    BY <1>0, <1>2, StopTypes, AtTypes DEF Prelude
  <2>2. terminal' \in BOOLEAN /\ unknown' \in BOOLEAN
    BY <1>2 DEF TypeOK, Prelude
  <2>3. QED
    BY <1>2, <2>1, <2>2 DEF TypeOK, StandTypes, Prelude, toolbox, history
<1>3. CASE Raise
  <2>1. StandTypes'
    BY <1>0, <1>3, DownTypes DEF Raise
  <2>2. QED
    BY <1>3, <2>1 DEF TypeOK, StandTypes, Raise, toolbox, history
<1>4. CASE Die
  <2>1. Down /\ status' = status
    BY <1>4 DEF Die, checkpoint
  <2>2. StandTypes'
    BY <1>0, <2>1, DownTypes
  <2>3. QED
    BY <1>4, <2>2 DEF TypeOK, StandTypes, Die, checkpoint, toolbox, history
<1>5. QED
  BY <1>1, <1>2, <1>3, <1>4

\* So do the steps of a model request.
LEMMA ModelTypes ==
  ASSUME TypeOK, ModelStep
  PROVE  TypeOK'
<1>0. StandTypes
  BY StandOf
<1>1. CASE Conclude
  <2>1. StandTypes' /\ terminal' \in BOOLEAN
    BY <1>1, StopTypes DEF Conclude, TypeOK
  <2>2. QED
    BY <1>1, <2>1 DEF TypeOK, StandTypes, Conclude, toolbox, history
<1>2. CASE Preflight
  <2>1. StandTypes'
    BY <1>0, <1>2, AtTypes DEF Preflight
  <2>2. QED
    BY <1>2, <2>1 DEF TypeOK, StandTypes, Preflight, toolbox, history
<1>3. CASE Count
  <2>1. StandTypes' /\ preflight' \in {"counted", "failed"}
    BY <1>0, <1>3, StopTypes, AtTypes DEF Count
  <2>2. QED
    BY <1>3, <2>1 DEF TypeOK, StandTypes, Count, toolbox, history
<1>4. CASE \E input \in Inputs : Reserve(input)
  <2> PICK input \in Inputs : Reserve(input)
    BY <1>4
  <2>1. StandTypes'
    BY <1>0, StopTypes, AtTypes DEF Reserve
  <2>2. modelCalls' \in Nat
    BY DEF TypeOK, Reserve
  <2>4. pending' \in BOOLEAN
    BY DEF TypeOK, Reserve
  <2>3. QED
    BY <2>1, <2>2, <2>4 DEF TypeOK, StandTypes, Reserve, toolbox, history
<1>5. CASE Ask
  <2>1. StandTypes'
    BY <1>0, <1>5, AtTypes DEF Ask, checkpoint
  <2>2. QED
    BY <1>5, <2>1 DEF TypeOK, StandTypes, Ask, checkpoint, toolbox
<1>6. CASE GenerateFails
  <2>1. StandTypes'
    BY <1>6, StopTypes DEF GenerateFails
  <2>2. QED
    BY <1>6, <2>1 DEF TypeOK, StandTypes, GenerateFails, toolbox, history
<1>7. CASE ReceiveUnusable
  <2>1. StandTypes'
    BY <1>7, StopTypes DEF ReceiveUnusable
  <2>2. total' \in Nat /\ responses' \in Nat
    BY <1>7, Constants DEF TypeOK, ReceiveUnusable
  <2>3. unknown' \in BOOLEAN /\ pending' \in BOOLEAN
    BY <1>7 DEF TypeOK, ReceiveUnusable
  <2>4. UNCHANGED <<runs, limit, modelCalls, toolCalls, preflight, turn, attempts,
                    terminal, toolbox, history>>
    BY <1>7 DEF ReceiveUnusable
  <2>5. QED
    BY <2>1, <2>2, <2>3, <2>4 DEF TypeOK, StandTypes, toolbox, history
<1>8. CASE \E usage \in Usages, t \in Turns : Receive(usage, t)
  <2> PICK usage \in Usages, t \in Turns : Receive(usage, t)
    BY <1>8
  <2>1. turn' \in Seq(Entry)
    BY QueuedFacts DEF Receive, TypeOK
  <2>2. StandTypes'
    BY <1>0, StopTypes, AtTypes DEF Receive
  <2>3. total' \in Nat /\ responses' \in Nat
    BY Constants DEF TypeOK, Receive
  <2>6. pending' \in BOOLEAN
    BY DEF Receive
  <2>4. UNCHANGED <<runs, limit, modelCalls, toolCalls, unknown, preflight, attempts,
                    terminal, toolbox, history>>
    BY DEF Receive
  <2>5. QED
    BY <2>1, <2>2, <2>3, <2>4, <2>6 DEF TypeOK, StandTypes, toolbox, history
<1>9. QED
  BY <1>1, <1>2, <1>3, <1>4, <1>5, <1>6, <1>7, <1>8 DEF ModelStep

\* The parts of TypeOK that a tool call may touch outside the turn.
LEMMA HandTypes ==
  ASSUME TypeOK, NEW r \in Repair, Hand(r)
  PROVE  handed' \in [Repair -> Nat] /\ untold' \in SUBSET Repair
BY DEF TypeOK, Hand

\* What the journal becomes when a proposal reaches it is still a journal.
LEMMA BoundTypes ==
  ASSUME TypeOK, NEW r \in Repair
  PROVE  Bound(r) \in [Ops -> Repair \cup {Nil, Foreign}]
BY DEF TypeOK, Bound, Repair

\* The steps of a tool call keep the types.
LEMMA CallTypes ==
  ASSUME TypeOK, NEW k \in DOMAIN turn,
         turn[k].call.tool = "propose_repair" => turn[k].call.repair \in Repair,
         \/ BlockRepair(k) \/ StartCall(k) \/ Execute(k) \/ Propose(k) \/ ProposeLate(k)
         \/ SaveResult(k) \/ AskJournal(k) \/ Lookup(k) \/ Judge(k) \/ InterruptInside(k)
  PROVE  TypeOK'
<1>0. turn \in Seq(Entry) /\ turn[k] \in Entry /\ StandTypes
  BY StandOf DEF TypeOK
<1>1. CASE BlockRepair(k)
  <2>1. StandTypes'
    BY <1>1, StopTypes DEF BlockRepair
  <2>2. QED
    BY <1>1, <2>1 DEF TypeOK, StandTypes, BlockRepair, toolbox, history
<1>2. CASE StartCall(k)
  <2>1. attempts' \in SUBSET Call /\ toolCalls' \in Nat
    BY <1>0, <1>2 DEF StartCall, LogAttempt, TypeOK, Entry
  <2>4. turn' \in Seq(Entry)
    <3>1. turn' = turn \/ Mark(k, "dispatched", turn[k].lookup, Nil)
      BY <1>2 DEF StartCall, LogAttempt
    <3>2. turn[k].lookup \in Lookups \cup {"none", "dispatched"}
      BY <1>0 DEF Entry
    <3>3. QED
      BY <1>0, <3>1, <3>2, MarkFacts
  <2>2. StandTypes'
    BY <1>0, <1>2, StopTypes, AtTypes DEF StartCall, LogAttempt
  <2>3. QED
    BY <1>2, <2>1, <2>2, <2>4 DEF TypeOK, StandTypes, StartCall, LogAttempt, toolbox, history
<1>3. CASE Execute(k)
  <2>1. \E res \in Results : Answered(res)
    BY <1>3 DEF Execute, Results
  <2>2. UNCHANGED <<journal, wire, handed, untold>> /\ finished' \in BOOLEAN
    BY <1>3 DEF TypeOK, Execute, toolbox
  <2>3. QED
    BY <2>1, <2>2 DEF TypeOK, Answered, Stages, checkpoint
<1>4. CASE Propose(k)
  <2> DEFINE r == turn[k].call.repair
  <2>1. r \in Repair /\ Hand(r)
    BY <1>4 DEF Propose
  <2>2. journal' \in [Ops -> Repair \cup {Nil, Foreign}]
    BY <1>4, <2>1, BoundTypes DEF Propose, TypeOK
  <2>3. \E res \in Results : Answered(res)
    BY <1>4 DEF Propose, Results
  <2>4. handed' \in [Repair -> Nat] /\ untold' \in SUBSET Repair
    BY <2>1, HandTypes
  <2>5. UNCHANGED <<wire, finished>>
    BY <1>4 DEF Propose
  <2>6. QED
    BY <2>2, <2>3, <2>4, <2>5 DEF TypeOK, Answered, Stages, checkpoint
<1>5. CASE ProposeLate(k)
  <2> DEFINE r == turn[k].call.repair
  <2>1. r \in Repair /\ Hand(r)
    BY <1>5 DEF ProposeLate
  <2>2. handed' \in [Repair -> Nat] /\ untold' \in SUBSET Repair
    BY <2>1, HandTypes
  <2>3. StandTypes'
    BY <1>0, <1>5, DownTypes DEF ProposeLate
  <2>4. QED
    BY <1>5, <2>1, <2>2, <2>3 DEF TypeOK, StandTypes, ProposeLate
<1>6. CASE SaveResult(k)
  <2>1. turn' \in Seq(Entry)
    BY <1>0, <1>6, MarkFacts DEF SaveResult, TypeOK
  <2>2. StandTypes' /\ terminal' \in BOOLEAN /\ untold' \in SUBSET Repair
    BY <1>0, <1>6 DEF TypeOK, StandTypes, SaveResult, Claimed, Stages
  <2>3. QED
    BY <1>6, <2>1, <2>2 DEF TypeOK, StandTypes, SaveResult, toolbox
<1>7. CASE AskJournal(k)
  <2>1. toolCalls' \in Nat
    BY <1>7 DEF AskJournal, TypeOK
  <2>4. turn' \in Seq(Entry)
    <3>1. turn' = turn \/ Mark(k, "dispatched", "dispatched", Nil)
      BY <1>7 DEF AskJournal
    <3>2. QED
      BY <1>0, <3>1, MarkFacts
  <2>2. StandTypes'
    BY <1>0, <1>7, StopTypes, AtTypes DEF AskJournal
  <2>3. QED
    BY <1>7, <2>1, <2>2, <2>4 DEF TypeOK, StandTypes, AskJournal, toolbox, history
<1>8. CASE Lookup(k)
  <2>1. turn' \in Seq(Entry)
    BY <1>0, <1>8, FoundFacts, MarkFacts DEF Lookup, TypeOK, Lookups
  <2>2. StandTypes' /\ terminal' \in BOOLEAN /\ untold' \in SUBSET Repair
    BY <1>0, <1>8 DEF TypeOK, StandTypes, Lookup, Claimed, Stages
  <2>3. QED
    BY <1>8, <2>1, <2>2 DEF TypeOK, StandTypes, Lookup, toolbox
<1>9. CASE Judge(k)
  <2>1. turn' \in Seq(Entry)
    BY <1>0, <1>9, MarkFacts DEF Judge, TypeOK, Results
  <2>2. StandTypes'
    BY <1>0, <1>9, StopTypes, AtTypes DEF Judge
  <2>3. QED
    BY <1>9, <2>1, <2>2 DEF TypeOK, StandTypes, Judge, toolbox, history
<1>10. CASE InterruptInside(k)
  <2>1. toolCalls' \in Nat
    BY <1>10 DEF InterruptInside, TypeOK
  <2>4. turn' \in Seq(Entry)
    <3>1. \/ Mark(k, "dispatched", "dispatched", Nil)
          \/ Mark(k, "dispatched", turn[k].lookup, Nil)
          \/ Mark(k, "queued", "absent", Nil)
      BY <1>10 DEF InterruptInside
    <3>2. turn[k].lookup \in Lookups \cup {"none", "dispatched"}
      BY <1>0 DEF Entry
    <3>3. QED
      BY <1>0, <3>1, <3>2, MarkFacts DEF Lookups
  <2>2. StandTypes'
    BY <1>0, <1>10, DownTypes DEF InterruptInside
  <2>3. QED
    BY <1>10, <2>1, <2>2, <2>4 DEF TypeOK, StandTypes, InterruptInside, toolbox, history
<1>11. QED
  BY <1>1, <1>2, <1>3, <1>4, <1>5, <1>6, <1>7, <1>8, <1>9, <1>10

\* So do the steps that end a turn.
LEMMA CloseTypes ==
  ASSUME TypeOK, Interrupt \/ CloseTurn
  PROVE  TypeOK'
<1>0. StandTypes
  BY StandOf
<1>1. CASE Interrupt
  <2>1. StandTypes'
    BY <1>1, StopTypes DEF Interrupt
  <2>2. QED
    BY <1>1, <2>1 DEF TypeOK, StandTypes, Interrupt, toolbox, history
<1>2. CASE CloseTurn
  <2>1. StandTypes' /\ turn' \in Seq(Entry)
    BY <1>0, <1>2, AtTypes DEF CloseTurn
  <2>2. QED
    BY <1>2, <2>1 DEF TypeOK, StandTypes, CloseTurn, toolbox, history
<1>3. QED
  BY <1>1, <1>2

\* So does the late arrival of a proposal.
LEMMA DeliverTypes ==
  ASSUME TypeOK, NEW r \in wire, Deliver(r)
  PROVE  TypeOK'
<1>1. journal' \in [Ops -> Repair \cup {Nil, Foreign}]
  BY BoundTypes DEF TypeOK, Deliver
<1>2. QED
  BY <1>1 DEF TypeOK, Deliver, checkpoint, process, history

-----------------------------------------------------------------------------
(* The order of a turn's calls.                                            *)

\* What was let through by the parser, and what was begun in order.
Begun(k) ==
  /\ \A j \in 1..k - 1 : turn[j].phase = "completed"
  /\ turn[k].call.tool = "propose_repair" => ~RejectedBefore(k)

Ordered ==
  \A k \in DOMAIN turn :
    /\ turn[k].call.tool = "propose_repair" <=> turn[k].call.repair \in Repair
    /\ k # Len(turn) => turn[k].call.tool # "finish"
    /\ turn[k].phase # "queued" => Begun(k)

\* A mark on the current call keeps the order if it may be begun.
LEMMA MarkOrdered ==
  ASSUME TypeOK, Ordered, NEW k \in DOMAIN turn, IsCurrent(k),
         NEW phase \in {"queued", "dispatched", "completed"},
         NEW lookup \in Lookups \cup {"none", "dispatched"},
         NEW res \in Results \cup {Nil},
         Mark(k, phase, lookup, res),
         turn[k].call.tool = "propose_repair" => ~RejectedBefore(k)
  PROVE  Ordered'
<1>1. turn \in Seq(Entry)
  BY DEF TypeOK
<1>7. /\ DOMAIN turn' = DOMAIN turn /\ Len(turn') = Len(turn)
      /\ \A j \in DOMAIN turn : j # k => turn'[j] = turn[j]
      /\ turn'[k] = [call |-> turn[k].call, phase |-> phase, lookup |-> lookup, result |-> res]
  BY <1>1, MarkFacts
<1>2. /\ DOMAIN turn' = DOMAIN turn /\ Len(turn') = Len(turn) /\ DOMAIN turn = 1..Len(turn)
      /\ \A j \in DOMAIN turn : j # k => turn'[j] = turn[j]
      /\ turn'[k].call = turn[k].call /\ Len(turn) \in Nat
  BY <1>1, <1>7
<1>3. \A j \in 1..k - 1 : j \in DOMAIN turn /\ turn'[j] = turn[j] /\ turn[j].phase = "completed"
  BY <1>2 DEF IsCurrent
<1>4. ASSUME NEW i \in DOMAIN turn, turn'[i].phase # "queued"
      PROVE  /\ \A j \in 1..i - 1 : turn'[j].phase = "completed"
             /\ turn'[i].call.tool = "propose_repair" =>
                  ~(\E j \in 1..i - 1 : turn'[j].result = "rejected")
  <2>1. CASE i = k
    BY <1>2, <1>3, <2>1 DEF RejectedBefore
  <2>2. CASE i < k
    <3>1. Begun(i) /\ turn'[i] = turn[i]
      BY <1>2, <1>4, <2>2 DEF Ordered
    <3>2. \A j \in 1..i - 1 : turn'[j] = turn[j]
      BY <1>2, <1>3, <2>2
    <3>3. QED
      BY <3>1, <3>2 DEF Begun, RejectedBefore
  <2>3. CASE i > k
    <3>1. Begun(i)
      BY <1>2, <1>4, <2>3 DEF Ordered
    <3>2. k \in 1..i - 1
      BY <1>2, <2>3
    <3>3. QED
      BY <3>1, <3>2 DEF Begun, IsCurrent
  <2>4. QED
    BY <1>2, <2>1, <2>2, <2>3
<1>5. ASSUME NEW i \in DOMAIN turn
      PROVE  turn'[i].call = turn[i].call
  BY <1>2
<1>6. QED
  BY <1>2, <1>4, <1>5 DEF Ordered, Begun, RejectedBefore

\* The calls of a response are in order and none is begun.
LEMMA QueuedOrdered ==
  ASSUME NEW t \in Turns, turn' = [k \in 1..Len(t) |-> Pending(t[k])]
  PROVE  Ordered'
<1>1. /\ Len(turn') = Len(t) /\ DOMAIN turn' = 1..Len(t)
      /\ \A k \in 1..Len(t) : turn'[k] = Pending(t[k])
  BY QueuedFacts
<1>2. /\ Len(t) \in Nat
      /\ \A k \in 1..Len(t) : t[k].tool = "propose_repair" <=> t[k].repair \in Repair
      /\ \A k \in 1..Len(t) - 1 : t[k].tool # "finish"
  BY TurnsAssumption, LimitsAssumption
<1>3. QED
  BY <1>1, <1>2 DEF Ordered, Pending

\* What a step does to the turn.
TurnStep ==
  \/ turn' = turn
  \/ turn' = <<>>
  \/ \E t \in Turns : turn' = [k \in 1..Len(t) |-> Pending(t[k])]
  \/ \E k \in DOMAIN turn :
       /\ IsCurrent(k)
       /\ turn[k].phase = "queued" /\ turn[k].call.tool = "propose_repair" => ~RejectedBefore(k)
       /\ \E phase \in {"queued", "dispatched", "completed"},
             lookup \in Lookups \cup {"none", "dispatched"},
             res \in Results \cup {Nil} : Mark(k, phase, lookup, res)

\* Every step of a tool call leaves the turn alone or marks its call.
LEMMA CallTurns ==
  ASSUME TypeOK, Ordered, NEW k \in DOMAIN turn,
         \/ BlockRepair(k) \/ StartCall(k) \/ Execute(k) \/ Propose(k) \/ ProposeLate(k)
         \/ SaveResult(k) \/ AskJournal(k) \/ Lookup(k) \/ Judge(k) \/ InterruptInside(k),
         pc = "returned" => turn[k].phase # "queued" \/ ~IsCurrent(k),
         pc = "looking" => turn[k].phase # "queued" \/ ~IsCurrent(k)
  PROVE  TurnStep
<1>0. turn[k] \in Entry
  BY DEF TypeOK
<1>1. CASE BlockRepair(k) \/ ProposeLate(k)
  BY <1>1 DEF TurnStep, BlockRepair, ProposeLate
<1>2. CASE Execute(k) \/ Propose(k)
  BY <1>2 DEF TurnStep, Execute, Propose, Answered, checkpoint
<1>3. CASE StartCall(k)
  BY <1>0, <1>3 DEF TurnStep, StartCall, LogAttempt, Entry
<1>4. CASE SaveResult(k)
  <2>1. IsCurrent(k) /\ turn[k].phase # "queued" /\ Mark(k, "completed", "none", result)
    BY <1>4 DEF SaveResult
  <2>2. QED
    BY <2>1 DEF TurnStep, TypeOK
<1>5. CASE AskJournal(k)
  BY <1>5 DEF TurnStep, AskJournal
<1>6. CASE Lookup(k)
  <2>1. /\ IsCurrent(k) /\ turn[k].phase # "queued"
        /\ \E lookup \in Lookups : Mark(k, "dispatched", lookup, Nil)
    BY <1>6, FoundFacts DEF Lookup, Lookups
  <2>2. QED
    BY <2>1 DEF TurnStep
<1>7. CASE Judge(k)
  <2>1. /\ IsCurrent(k) /\ turn[k].phase # "queued"
        /\ \/ Mark(k, "queued", "none", Nil) \/ Mark(k, "completed", "none", "operation")
           \/ turn' = turn
    BY <1>7 DEF Judge, InDoubt
  <2>2. QED
    BY <2>1 DEF TurnStep, Results
<1>8. CASE InterruptInside(k)
  <2>1. /\ IsCurrent(k) /\ ~RejectedBefore(k)
        /\ \/ Mark(k, "dispatched", "dispatched", Nil)
           \/ Mark(k, "dispatched", turn[k].lookup, Nil)
           \/ Mark(k, "queued", "absent", Nil)
    BY <1>8 DEF InterruptInside
  <2>2. QED
    BY <1>0, <2>1 DEF TurnStep, Entry, Lookups
<1>9. QED
  BY <1>1, <1>2, <1>3, <1>4, <1>5, <1>6, <1>7, <1>8

\* Every step on the turn keeps the order.
LEMMA TurnStepOrdered ==
  ASSUME TypeOK, Ordered, TurnStep
  PROVE  Ordered'
<1>1. CASE turn' = turn
  BY <1>1 DEF Ordered, Begun, RejectedBefore
<1>2. CASE turn' = <<>>
  BY <1>2 DEF Ordered
<1>3. CASE \E t \in Turns : turn' = [k \in 1..Len(t) |-> Pending(t[k])]
  BY <1>3, QueuedOrdered
<1>4. ASSUME NEW k \in DOMAIN turn, IsCurrent(k),
             turn[k].phase = "queued" /\ turn[k].call.tool = "propose_repair" => ~RejectedBefore(k),
             NEW phase \in {"queued", "dispatched", "completed"},
             NEW lookup \in Lookups \cup {"none", "dispatched"},
             NEW res \in Results \cup {Nil},
             Mark(k, phase, lookup, res)
      PROVE  Ordered'
  <2>1. turn[k].call.tool = "propose_repair" => ~RejectedBefore(k)
    BY <1>4 DEF Ordered, Begun
  <2>2. QED
    BY <1>4, <2>1, MarkOrdered
<1>5. QED
  BY <1>1, <1>2, <1>3, <1>4 DEF TurnStep

-----------------------------------------------------------------------------
(* What is in the turn at each stage.                                      *)

Staged ==
  /\ \A k \in DOMAIN turn : IsCurrent(k) =>
       /\ pc \in {"calling", "returned"} =>
            turn[k].phase = "dispatched" /\ turn[k].call \in attempts
       /\ pc = "looking" => InDoubt(k)
  /\ pc \in {"counting", "counted", "asking", "awaiting"} => turn = <<>>

Base == TypeOK /\ Ordered /\ Staged

\* Between two calls, and without a process, the stage says nothing.
LEMMA RestingStaged ==
  ASSUME pc' \in {"down", "opened", "loop"}
  PROVE  Staged'
BY DEF Staged

\* After a mark that does not complete it, k is still the current call, and
\* no other is.
LEMMA MarkCurrent ==
  ASSUME TypeOK, NEW k \in DOMAIN turn, IsCurrent(k),
         NEW lookup \in Lookups \cup {"none", "dispatched"},
         Mark(k, "dispatched", lookup, Nil)
  PROVE  /\ turn'[k].phase = "dispatched" /\ turn'[k].call = turn[k].call
         /\ \A j \in DOMAIN turn' : IsCurrent(j)' => j = k
<1>1. turn \in Seq(Entry)
  BY DEF TypeOK
<1>2. /\ DOMAIN turn' = DOMAIN turn
      /\ \A j \in DOMAIN turn : j # k => turn'[j] = turn[j]
      /\ turn'[k] = [call |-> turn[k].call, phase |-> "dispatched", lookup |-> lookup, result |-> Nil]
  BY <1>1, MarkFacts
<1>3. turn'[k].phase = "dispatched" /\ turn'[k].call = turn[k].call
  BY <1>2
<1>4. ASSUME NEW j \in DOMAIN turn', IsCurrent(j)', j # k PROVE FALSE
  <2>1. DOMAIN turn = 1..Len(turn) /\ Len(turn) \in Nat
    BY <1>1
  <2>2. CASE j < k
    BY <1>2, <1>4, <2>1, <2>2 DEF IsCurrent
  <2>3. CASE k < j
    BY <1>2, <1>3, <1>4, <2>1, <2>3 DEF IsCurrent
  <2>4. QED
    BY <1>2, <1>4, <2>1, <2>2, <2>3
<1>5. QED
  BY <1>3, <1>4

\* The steps of a tool call keep types, order and stages.
LEMMA CallBase ==
  ASSUME Base, NEW k \in DOMAIN turn,
         \/ BlockRepair(k) \/ StartCall(k) \/ Execute(k) \/ Propose(k) \/ ProposeLate(k)
         \/ SaveResult(k) \/ AskJournal(k) \/ Lookup(k) \/ Judge(k) \/ InterruptInside(k)
  PROVE  Base'
<1>1. TypeOK'
  BY CallTypes DEF Base, Ordered
<1>2. Ordered'
  <2>1. pc \in {"returned", "looking"} => turn[k].phase # "queued" \/ ~IsCurrent(k)
    BY DEF Base, Staged, InDoubt
  <2>2. QED
    BY <2>1, CallTurns, TurnStepOrdered DEF Base
<1>3. Staged'
  <2>1. CASE StartCall(k)
    <3>1. CASE pc' = "calling"
      <4>1. turn[k].lookup \in Lookups \cup {"none", "dispatched"}
        <5>1. turn[k] \in Entry
          BY DEF Base, TypeOK
        <5>2. QED
          BY <5>1 DEF Entry
      <4>2. IsCurrent(k) /\ attempts' = attempts \cup {turn[k].call}
            /\ Mark(k, "dispatched", turn[k].lookup, Nil)
        BY <2>1, <3>1 DEF StartCall, LogAttempt, Stop, Down
      <4>3. QED
        BY <3>1, <4>1, <4>2, MarkCurrent DEF Staged, Base
    <3>2. CASE pc' # "calling"
      BY <2>1, <3>2, RestingStaged DEF StartCall, LogAttempt, Stop, Down, At
    <3>3. QED
      BY <3>1, <3>2
  <2>2. CASE AskJournal(k)
    <3>1. CASE pc' = "looking"
      <4>1. IsCurrent(k) /\ InDoubt(k) /\ Mark(k, "dispatched", "dispatched", Nil)
        BY <2>2, <3>1 DEF AskJournal, Stop, Down
      <4>2. QED
        BY <3>1, <4>1, MarkCurrent DEF Staged, Base, InDoubt
    <3>2. CASE pc' # "looking"
      BY <2>2, <3>2, RestingStaged DEF AskJournal, Stop, Down, At
    <3>3. QED
      BY <3>1, <3>2
  <2>3. CASE Execute(k) \/ Propose(k)
    BY <2>3 DEF Execute, Propose, Answered, checkpoint, Base, Staged, IsCurrent
  <2>4. CASE BlockRepair(k) \/ ProposeLate(k) \/ SaveResult(k) \/ Lookup(k) \/ Judge(k)
             \/ InterruptInside(k)
    BY <2>4, RestingStaged DEF BlockRepair, ProposeLate, SaveResult, Lookup, Judge,
       InterruptInside, Stop, Down, At
  <2>5. QED
    BY <2>1, <2>2, <2>3, <2>4
<1>4. QED
  BY <1>1, <1>2, <1>3 DEF Base

\* So do the steps of a model request.
LEMMA ModelBase ==
  ASSUME Base, ModelStep
  PROVE  Base'
<1>1. TypeOK'
  BY ModelTypes DEF Base
<1>2. TurnStep
  BY DEF ModelStep, Conclude, Preflight, Count, Reserve, Ask, GenerateFails, ReceiveUnusable,
         Receive, TurnStep, checkpoint
<1>3. Staged'
  BY RestingStaged DEF Base, Staged, ModelStep, Conclude, Preflight, Count, Reserve, Ask,
     GenerateFails, ReceiveUnusable, Receive, Stop, Down, At, checkpoint
<1>4. QED
  BY <1>1, <1>2, <1>3, TurnStepOrdered DEF Base

\* Steps that end or begin a run, close a turn or deliver a proposal.
LEMMA OtherBase ==
  ASSUME Base,
         \/ \E l \in Limits : Open(l)
         \/ Prelude \/ Raise \/ Die \/ Interrupt \/ CloseTurn
         \/ \E r \in wire : Deliver(r)
         \/ UNCHANGED vars
  PROVE  Base'
<1>1. CASE (\E l \in Limits : Open(l)) \/ Prelude \/ Raise \/ Die \/ Interrupt \/ CloseTurn
  <2>1. TypeOK'
    BY <1>1, RunTypes, CloseTypes DEF Base
  <2>2. TurnStep
    BY <1>1 DEF TurnStep, Open, MayOpen, LimitOf, Prelude, Raise, Die, Interrupt, CloseTurn, checkpoint
  <2>3. Staged'
    BY <1>1, RestingStaged DEF Open, MayOpen, LimitOf, Prelude, Raise, Die, Interrupt, CloseTurn, Stop, Down, At
  <2>4. QED
    BY <2>1, <2>2, <2>3, TurnStepOrdered DEF Base
<1>2. CASE \E r \in wire : Deliver(r)
  <2>1. TypeOK'
    BY <1>2, DeliverTypes DEF Base
  <2>2. UNCHANGED <<turn, pc, attempts>>
    BY <1>2 DEF Deliver, checkpoint, process
  <2>3. QED
    BY <2>1, <2>2, TurnStepOrdered DEF Base, TurnStep, Staged, IsCurrent, InDoubt
<1>3. CASE UNCHANGED vars
  <2>1. TypeOK'
    BY <1>3 DEF Base, TypeOK, vars, checkpoint, process, toolbox, history
  <2>2. UNCHANGED <<turn, pc, attempts>>
    BY <1>3 DEF vars, checkpoint, process
  <2>3. QED
    BY <2>1, <2>2, TurnStepOrdered DEF Base, TurnStep, Staged, IsCurrent, InDoubt
<1>4. QED
  BY <1>1, <1>2, <1>3

\* Every step keeps types, order and stages.
LEMMA NextBase == Base /\ [Next]_vars => Base'
BY CallBase, ModelBase, OtherBase DEF Next, QuietNext, Step, CallStep

\* A new checkpoint has an empty turn and no process.
LEMMA InitBase == Init => Base
BY InitTypes DEF Base, Init, Ordered, Staged

\* Types, order and stages hold in every reachable state.
THEOREM AgentBase == Spec => []Base
<1>1. QED
  BY InitBase, NextBase, PTL DEF Spec

\* Every variable keeps its type (Agent's TypeOK).
THEOREM AgentTypes == Spec => []TypeOK
<1>1. Base => TypeOK
  BY DEF Base
<1>2. QED
  BY <1>1, AgentBase, PTL

-----------------------------------------------------------------------------
(* Model requests.                                                         *)

\* The counters tell whether a request is out, and an unknown outcome is only
\* in a checkpoint that no run goes on from.
Requests ==
  /\ pending  => modelCalls = responses + 1 /\ turn = <<>>
  /\ ~pending => modelCalls = responses /\ asked = responses
  /\ asked \in {responses, responses + 1}
  /\ unknown => Final /\ pc = "down"
  /\ pc \notin {"down", "opened", "asking", "awaiting"} => ~pending
  /\ pc = "asking"   => pending /\ asked = responses
  /\ pc = "awaiting" => pending /\ asked = responses + 1

\* The steps of a model request keep the counters in agreement.
LEMMA ModelRequests ==
  ASSUME Base, Requests, ModelStep
  PROVE  Requests'
<1>0. /\ modelCalls \in Nat /\ responses \in Nat /\ asked \in Nat
      /\ pc \in {"counting", "counted", "asking", "awaiting"} => turn = <<>>
  BY DEF Base, TypeOK, Staged
<1>1. CASE Conclude
  BY <1>0, <1>1 DEF Requests, Conclude, Stop, Down, Final, FinalStatuses, history
<1>2. CASE Preflight
  BY <1>0, <1>2 DEF Requests, Preflight, At, history
<1>3. CASE Count
  BY <1>0, <1>3 DEF Requests, Count, Stop, Down, At, history
<1>4. CASE \E input \in Inputs : Reserve(input)
  BY <1>0, <1>4 DEF Requests, Reserve, Stop, Down, At, history
<1>5. CASE Ask
  BY <1>0, <1>5 DEF Requests, Ask, At, checkpoint
<1>6. CASE GenerateFails
  BY <1>0, <1>6 DEF Requests, GenerateFails, Stop, Down, Final, FinalStatuses, history
<1>7. CASE ReceiveUnusable
  BY <1>0, <1>7 DEF Requests, ReceiveUnusable, Stop, Down, Final, FinalStatuses, history
<1>8. CASE \E usage \in Usages, t \in Turns : Receive(usage, t)
  BY <1>0, <1>8 DEF Requests, Receive, Stop, Down, At, history
<1>9. QED
  BY <1>1, <1>2, <1>3, <1>4, <1>5, <1>6, <1>7, <1>8 DEF ModelStep

\* No other step counts, sends or receives a request, or goes on from one of
\* unknown outcome.
LEMMA OtherRequests ==
  ASSUME Base, Requests, [Next]_vars, ~ModelStep
  PROVE  Requests'
<1>1. CASE \E l \in Limits : Open(l)
  BY <1>1 DEF Requests, Open, MayOpen, LimitOf
<1>2. CASE Prelude
  BY <1>2 DEF Requests, Prelude, Stop, Down, At, Final, FinalStatuses, history
<1>3. CASE Raise
  BY <1>3 DEF Requests, Raise, Down, history
<1>4. CASE Die
  BY <1>4 DEF Requests, Die, Down, checkpoint, history, Final
<1>5. CASE Interrupt \/ CloseTurn
  BY <1>5 DEF Requests, Interrupt, CloseTurn, Stop, Down, At, history
<1>6. CASE \E k \in DOMAIN turn :
             \/ BlockRepair(k) \/ StartCall(k) \/ Execute(k) \/ Propose(k) \/ ProposeLate(k)
             \/ SaveResult(k) \/ AskJournal(k) \/ Lookup(k) \/ Judge(k) \/ InterruptInside(k)
  <2>0. turn # <<>>
    BY <1>6
  <2>1. ~pending /\ ~unknown
    BY <1>6, <2>0 DEF Requests, BlockRepair, StartCall, LogAttempt, Execute, Propose, ProposeLate, SaveResult,
       AskJournal, Lookup, Judge, InterruptInside
  <2>2. UNCHANGED <<modelCalls, responses, asked, pending, unknown>>
    BY <1>6 DEF BlockRepair, StartCall, LogAttempt, Execute, Propose, ProposeLate, SaveResult,
       AskJournal, Lookup, Judge, InterruptInside, Answered, checkpoint, history
  <2>3. pc' \in {"down", "loop", "calling", "returned", "looking"}
    BY <1>6 DEF BlockRepair, StartCall, LogAttempt, Execute, Propose, ProposeLate, SaveResult,
       AskJournal, Lookup, Judge, InterruptInside, Answered, Stop, Down, At
  <2>4. QED
    BY <2>1, <2>2, <2>3 DEF Requests
<1>7. CASE (\E r \in wire : Deliver(r)) \/ UNCHANGED vars
  BY <1>7 DEF Requests, Deliver, Final, vars, checkpoint, process, history
<1>8. QED
  BY <1>1, <1>2, <1>3, <1>4, <1>5, <1>6, <1>7 DEF Next, QuietNext, Step, CallStep

\* The counters agree in every reachable state.
THEOREM AgentRequests == Spec => []Requests
<1>1. Init => Requests
  BY DEF Init, Requests
<1>2. Base /\ Requests /\ [Next]_vars => Requests'
  BY ModelRequests, OtherRequests
<1>3. QED
  BY <1>1, <1>2, AgentBase, PTL DEF Spec

\* Over all runs of a checkpoint the provider gets each request once, and none
\* after one of unknown outcome (ProviderAskedOnce).
THEOREM RequestsAreSentOnce == Spec => ProviderAskedOnce
<1>1. ASSUME Base, Requests, [Next]_vars, asked' # asked
      PROVE  pending /\ ~unknown /\ modelCalls = asked + 1 /\ responses = asked
  <2>1. Ask
    BY <1>1 DEF Next, QuietNext, Step, ModelStep, CallStep, Open, MayOpen, LimitOf, Prelude, Raise, Die, Conclude, Preflight,
       Count, Reserve, GenerateFails, ReceiveUnusable, Receive, BlockRepair, StartCall, Execute,
       Propose, ProposeLate, SaveResult, AskJournal, Lookup, Judge, Interrupt, CloseTurn,
       InterruptInside, Answered, Deliver, vars, history
  <2>2. QED
    BY <1>1, <2>1 DEF Requests, Ask
<1>2. QED
  BY <1>1, AgentBase, AgentRequests, PTL DEF Spec, ProviderAskedOnce

-----------------------------------------------------------------------------
(* Budgets.                                                                *)

\* The limit in force is within all that were ever granted, and a request that
\* is prepared or sent is within the limit.
Budgets ==
  /\ \A l \in granted : limit.turns <= l.turns /\ limit.tokens <= l.tokens
  /\ status = "absent" => granted = {}
  /\ pc \in {"counting", "counted"} => modelCalls < limit.turns /\ total < limit.tokens
  /\ pc = "asking" => modelCalls <= limit.turns /\ total < limit.tokens

\* A new run lowers the limit or keeps it.
LEMMA OpenBudgets ==
  ASSUME Base, Budgets, NEW l \in Limits, Open(l)
  PROVE  Budgets'
<1>1. /\ limit \in [turns : Nat, tokens : Nat] /\ l \in [turns : Nat, tokens : Nat]
      /\ \A g \in granted : g \in [turns : Nat, tokens : Nat]
  BY Constants DEF Base, TypeOK
<1>2. limit'.turns <= l.turns /\ limit'.tokens <= l.tokens
  BY <1>1 DEF Open, MayOpen, LimitOf, Min2
<1>3. status # "absent" => limit'.turns <= limit.turns /\ limit'.tokens <= limit.tokens
  BY <1>1 DEF Open, MayOpen, LimitOf, Min2
<1>4. limit' \in [turns : Nat, tokens : Nat]
  BY <1>1 DEF Open, MayOpen, LimitOf, Min2
<1>5. ASSUME NEW g \in granted' PROVE limit'.turns <= g.turns /\ limit'.tokens <= g.tokens
  <2>1. CASE g = l
    BY <1>2, <2>1
  <2>2. CASE g \in granted
    BY <1>1, <1>3, <1>4, <2>2 DEF Budgets
  <2>3. QED
    BY <2>1, <2>2 DEF Open, MayOpen, LimitOf
<1>6. QED
  BY <1>5 DEF Budgets, Open, MayOpen, LimitOf

\* Every step keeps within the limits.
LEMMA NextBudgets ==
  ASSUME Base, Budgets, [Next]_vars
  PROVE  Budgets'
<1>1. CASE \E l \in Limits : Open(l)
  BY <1>1, OpenBudgets
<1>2. CASE \E input \in Inputs : Reserve(input)
  <2>1. modelCalls \in Nat /\ limit \in [turns : Nat, tokens : Nat]
    BY DEF Base, TypeOK
  <2>2. QED
    BY <1>2, <2>1 DEF Budgets, Reserve, Stop, Down, At, history
<1>3. CASE Preflight \/ Count
  BY <1>3 DEF Budgets, Preflight, Count, Stop, Down, At, history
<1>4. CASE ~(Preflight \/ Count) /\ ~(\E l \in Limits : Open(l))
             /\ ~(\E input \in Inputs : Reserve(input))
  <2>1. UNCHANGED <<limit, granted>>
    BY <1>4 DEF Next, QuietNext, Step, ModelStep, CallStep, Prelude, Raise, Die, Conclude, Ask, GenerateFails,
       ReceiveUnusable, Receive, BlockRepair, StartCall, Execute, Propose, ProposeLate, SaveResult,
       AskJournal, Lookup, Judge, Interrupt, CloseTurn, InterruptInside, Answered, Deliver,
       vars, history, checkpoint
  <2>2. pc' \notin {"counting", "counted", "asking"} \/ UNCHANGED <<pc, modelCalls, total>>
    BY <1>4 DEF Next, QuietNext, Step, ModelStep, CallStep, Prelude, Raise, Die, Conclude, Ask, GenerateFails,
       ReceiveUnusable, Receive, BlockRepair, StartCall, Execute, Propose, ProposeLate, SaveResult,
       AskJournal, Lookup, Judge, Interrupt, CloseTurn, InterruptInside, Answered, Deliver,
       Stop, Down, At, vars, process, checkpoint
  <2>3. status' # "absent" \/ status' = status
    BY <1>4 DEF Next, QuietNext, Step, ModelStep, CallStep, Prelude, Raise, Die, Conclude, Ask, GenerateFails,
       ReceiveUnusable, Receive, BlockRepair, StartCall, Execute, Propose, ProposeLate, SaveResult,
       AskJournal, Lookup, Judge, Interrupt, CloseTurn, InterruptInside, Answered, Deliver,
       Stop, Down, At, vars, checkpoint
  <2>4. QED
    BY <2>1, <2>2, <2>3 DEF Budgets
<1>5. QED
  BY <1>1, <1>2, <1>3, <1>4

\* The limits hold in every reachable state.
THEOREM AgentBudgets == Spec => []Budgets
<1>1. Init => Budgets
  BY DEF Init, Budgets
<1>2. QED
  BY <1>1, NextBudgets, AgentBase, PTL DEF Spec

\* A smaller number of turns allows a smaller number of calls.
LEMMA Monotone ==
  ASSUME NEW x \in Nat, NEW y \in Nat, NEW m \in Nat, x <= y
  PROVE  x * m <= y * m /\ x * m \in Nat /\ y * m \in Nat
OBVIOUS

\* Requests, tokens and tool calls stay within every limit any run of the
\* checkpoint was given (BudgetsOnlyShrink).
THEOREM NoRunExceedsALimit == Spec => BudgetsOnlyShrink
<1>1. ASSUME Base, Requests, Budgets, [Next]_vars, NEW l \in granted, asked' # asked
      PROVE  asked' <= l.turns /\ total < l.tokens
  <2>1. Ask
    BY <1>1 DEF Next, QuietNext, Step, ModelStep, CallStep, Open, MayOpen, LimitOf, Prelude, Raise, Die, Conclude, Preflight,
       Count, Reserve, GenerateFails, ReceiveUnusable, Receive, BlockRepair, StartCall, Execute,
       Propose, ProposeLate, SaveResult, AskJournal, Lookup, Judge, Interrupt, CloseTurn,
       InterruptInside, Answered, Deliver, vars, history
  <2>2. /\ asked \in Nat /\ total \in Nat /\ modelCalls \in Nat
        /\ limit \in [turns : Nat, tokens : Nat] /\ l \in [turns : Nat, tokens : Nat]
    BY <1>1, Constants DEF Base, TypeOK
  <2>3. asked' = modelCalls /\ modelCalls <= limit.turns /\ total < limit.tokens
    BY <1>1, <2>1 DEF Requests, Budgets, Ask
  <2>4. limit.turns <= l.turns /\ limit.tokens <= l.tokens
    BY <1>1 DEF Budgets
  <2>5. QED
    BY <2>2, <2>3, <2>4
<1>2. ASSUME Base, Requests, Budgets, [Next]_vars, NEW l \in granted, toolCalls' # toolCalls
      PROVE  toolCalls' <= l.turns * MaxCallsPerTurn
  <2>1. ~ToolBudgetSpent /\ toolCalls' = toolCalls + 1
    BY <1>2 DEF Next, QuietNext, Step, ModelStep, CallStep, Open, MayOpen, LimitOf, Prelude, Raise, Die, Conclude, Preflight,
       Count, Reserve, Ask, GenerateFails, ReceiveUnusable, Receive, BlockRepair, StartCall, Execute,
       Propose, ProposeLate, SaveResult, AskJournal, Lookup, Judge, Interrupt, CloseTurn,
       InterruptInside, Answered, Deliver, vars, checkpoint
  <2>2. /\ toolCalls \in Nat /\ MaxCallsPerTurn \in Nat
        /\ limit.turns \in Nat /\ l.turns \in Nat /\ limit.turns <= l.turns
    BY <1>2, Constants DEF Base, TypeOK, Budgets
  <2>3. limit.turns * MaxCallsPerTurn <= l.turns * MaxCallsPerTurn
        /\ limit.turns * MaxCallsPerTurn \in Nat /\ l.turns * MaxCallsPerTurn \in Nat
    BY <2>2, Monotone
  <2>4. QED
    BY <2>1, <2>2, <2>3 DEF ToolBudgetSpent
<1>3. Base /\ Requests /\ Budgets /\ [Next]_vars =>
        \A l \in granted :
          /\ asked' # asked => asked' <= l.turns /\ total < l.tokens
          /\ toolCalls' # toolCalls => toolCalls' <= l.turns * MaxCallsPerTurn
  BY <1>1, <1>2
<1>4. QED
  BY <1>3, AgentBase, AgentRequests, AgentBudgets, PTL DEF Spec, BudgetsOnlyShrink

-----------------------------------------------------------------------------
(* Proposals.                                                              *)

\* The step that hands a proposal to the toolbox hands the current one, which
\* was dispatched and logged before.
LEMMA Handing ==
  ASSUME Base, [Next]_vars, NEW r \in Repair, handed'[r] # handed[r]
  PROVE  \E k \in DOMAIN turn :
           /\ Propose(k) \/ ProposeLate(k)
           /\ turn[k].call.repair = r /\ turn[k].phase = "dispatched" /\ Begun(k)
           /\ turn[k].call.tool = "propose_repair"
<1>1. \E k \in DOMAIN turn : Propose(k) \/ ProposeLate(k)
  BY DEF Next, QuietNext, Step, ModelStep, CallStep, Open, MayOpen, LimitOf, Prelude, Raise, Die, Conclude, Preflight,
     Count, Reserve, Ask, GenerateFails, ReceiveUnusable, Receive, BlockRepair, StartCall, Execute,
     SaveResult, AskJournal, Lookup, Judge, Interrupt, CloseTurn,
     InterruptInside, Answered, Deliver, vars, history
<1>2. PICK k \in DOMAIN turn : Propose(k) \/ ProposeLate(k)
  BY <1>1
<1>3. IsCurrent(k) /\ pc = "calling" /\ Hand(turn[k].call.repair)
      /\ turn[k].call.tool = "propose_repair"
  BY <1>2 DEF Propose, ProposeLate
<1>4. turn[k].call.repair = r
  BY <1>3 DEF Hand, Base, TypeOK
<1>5. turn[k].phase = "dispatched"
  BY <1>3 DEF Base, Staged
<1>6. Begun(k)
  BY <1>5 DEF Base, Ordered
<1>7. QED
  BY <1>2, <1>3, <1>4, <1>5, <1>6

\* Repairs keep to the order of their turn and heed its incident records
\* (RepairsFollowTheirTurn).
THEOREM RepairsAreInOrder == Spec => RepairsFollowTheirTurn
<1>1. ASSUME Base, [Next]_vars, NEW r \in Repair, handed'[r] # handed[r]
      PROVE  \E k \in DOMAIN turn :
               /\ turn[k].call.repair = r /\ turn[k].phase = "dispatched"
               /\ \A j \in 1..k - 1 : turn[j].phase = "completed" /\ turn[j].result # "rejected"
  BY <1>1, Handing DEF Begun, RejectedBefore
<1>2. Base /\ [Next]_vars => \A r \in Repair : handed'[r] # handed[r] =>
       \E k \in DOMAIN turn :
         /\ turn[k].call.repair = r /\ turn[k].phase = "dispatched"
         /\ \A j \in 1..k - 1 : turn[j].phase = "completed" /\ turn[j].result # "rejected"
  BY <1>1
<1>3. QED
  BY <1>2, AgentBase, PTL DEF Spec, RepairsFollowTheirTurn

\* What a step adds to the wire or the journal is what it hands over, or was
\* on the wire.
LEMMA NewEffects ==
  ASSUME Base, [Next]_vars, NEW r \in Repair,
         r \in wire' \/ journal'[r.op] = r, ~(r \in wire \/ journal[r.op] = r)
  PROVE  \E k \in DOMAIN turn : (Propose(k) \/ ProposeLate(k)) /\ turn[k].call.repair = r
<1>1. journal \in [Ops -> Repair \cup {Nil, Foreign}] /\ r.op \in Ops
  BY DEF Base, TypeOK, Repair
<1>2. \/ \E k \in DOMAIN turn : Propose(k) \/ ProposeLate(k)
      \/ \E q \in wire : Deliver(q)
      \/ UNCHANGED <<journal, wire>>
  BY DEF Next, QuietNext, Step, ModelStep, CallStep, Open, MayOpen, LimitOf, Prelude, Raise, Die, Conclude, Preflight,
     Count, Reserve, Ask, GenerateFails, ReceiveUnusable, Receive, BlockRepair, StartCall, Execute,
     SaveResult, AskJournal, Lookup, Judge, Interrupt, CloseTurn,
     InterruptInside, Answered, vars, toolbox
<1>3. ASSUME NEW q \in Repair, journal' = Bound(q), journal'[r.op] = r, journal[r.op] # r
      PROVE  q = r
  BY <1>1, <1>3 DEF Bound, Repair
<1>4. CASE \E q \in wire : Deliver(q)
  <2>1. PICK q \in wire : Deliver(q)
    BY <1>4
  <2>2. q \in Repair /\ journal' = Bound(q) /\ wire' = wire \ {q}
    BY <2>1 DEF Deliver, Base, TypeOK
  <2>3. journal'[r.op] = r /\ journal[r.op] # r
    BY <2>2
  <2>4. q = r
    BY <1>3, <2>2, <2>3
  <2>5. QED
    BY <2>1, <2>4
<1>5. CASE \E k \in DOMAIN turn : Propose(k) \/ ProposeLate(k)
  <2>1. PICK k \in DOMAIN turn : Propose(k) \/ ProposeLate(k)
    BY <1>5
  <2>2. turn[k].call.repair \in Repair
    BY <2>1 DEF Base, Ordered, Propose, ProposeLate
  <2>3. \/ wire' = wire /\ (journal' = journal \/ journal' = Bound(turn[k].call.repair))
        \/ wire' = wire \cup {turn[k].call.repair} /\ journal' = journal
    BY <2>1 DEF Propose, ProposeLate
  <2>4. QED
    BY <1>3, <2>1, <2>2, <2>3
<1>6. QED
  BY <1>2, <1>4, <1>5

\* An attempt that is logged stays logged.
LEMMA AttemptsGrow ==
  ASSUME [Next]_vars
  PROVE  attempts \subseteq attempts'
BY DEF Next, QuietNext, Step, ModelStep, CallStep, Open, MayOpen, LimitOf, Prelude, Raise, Die, Conclude, Preflight,
   Count, Reserve, Ask, GenerateFails, ReceiveUnusable, Receive, BlockRepair, StartCall, LogAttempt,
   Execute,
   Propose, ProposeLate, SaveResult, AskJournal, Lookup, Judge, Interrupt, CloseTurn,
   InterruptInside, Answered, Deliver, vars, checkpoint

\* Whatever reached the journal, or may still, is an attempt in the checkpoint
\* (EffectsAreAttempts).
THEOREM EffectsAreLogged == Spec => []EffectsAreAttempts
<1>1. Init => EffectsAreAttempts
  BY Constants DEF Init, EffectsAreAttempts, Repair
<1>2. ASSUME Base, EffectsAreAttempts, [Next]_vars
      PROVE  EffectsAreAttempts'
  <2> SUFFICES ASSUME NEW r \in Repair, r \in wire' \/ journal'[r.op] = r
               PROVE  [tool |-> "propose_repair", repair |-> r] \in attempts'
    BY DEF EffectsAreAttempts
  <2>1. CASE r \in wire \/ journal[r.op] = r
    BY <1>2, <2>1, AttemptsGrow DEF EffectsAreAttempts
  <2>2. CASE ~(r \in wire \/ journal[r.op] = r)
    <3>1. PICK k \in DOMAIN turn : (Propose(k) \/ ProposeLate(k)) /\ turn[k].call.repair = r
      BY <1>2, <2>2, NewEffects
    <3>2. turn[k].call \in attempts /\ turn[k].call.tool = "propose_repair"
      BY <1>2, <3>1 DEF Propose, ProposeLate, Base, Staged
    <3>3. turn[k] \in Entry
      BY <1>2 DEF Base, TypeOK
    <3>4. turn[k].call = [tool |-> "propose_repair", repair |-> r]
      BY <3>1, <3>2, <3>3 DEF Entry, Call
    <3>5. QED
      BY <1>2, <3>2, <3>4, AttemptsGrow
  <2>3. QED
    BY <2>1, <2>2
<1>3. QED
  BY <1>1, <1>2, AgentBase, PTL DEF Spec

\* A final checkpoint is never changed (FinalStays).
THEOREM FinalIsKept == Spec => FinalStays
<1>1. ASSUME [Next]_vars, Final, pc = "down"
      PROVE  UNCHANGED checkpoint
  BY <1>1 DEF Next, QuietNext, Step, ModelStep, CallStep, Open, MayOpen, LimitOf, Prelude, Raise, Die, Conclude, Preflight,
     Count, Reserve, Ask, GenerateFails, ReceiveUnusable, Receive, BlockRepair, StartCall, Execute,
     Propose, ProposeLate, SaveResult, AskJournal, Lookup, Judge, Interrupt, CloseTurn,
     InterruptInside, Deliver, vars
<1>2. QED
  BY <1>1, PTL DEF Spec, FinalStays

-----------------------------------------------------------------------------
(* The claim.                                                              *)

\* Once the claim is in the evidence log no call is left to make, and only
\* then does the checkpoint report it.
Claims ==
  /\ finished => pc \in {"down", "opened", "returned", "loop"}
  /\ finished /\ pc = "returned" => \A k \in DOMAIN turn : IsCurrent(k) => k = Len(turn)
  /\ finished /\ pc = "loop" => \A k \in DOMAIN turn : turn[k].phase = "completed"
  /\ terminal \/ status = "completed" => finished

\* At most one call of a turn is current.
LEMMA OneCurrent ==
  ASSUME TypeOK, NEW k \in DOMAIN turn, NEW j \in DOMAIN turn, IsCurrent(k), IsCurrent(j)
  PROVE  j = k
<1>1. DOMAIN turn = 1..Len(turn) /\ Len(turn) \in Nat
  BY DEF TypeOK
<1>2. CASE j < k
  BY <1>1, <1>2 DEF IsCurrent
<1>3. CASE k < j
  BY <1>1, <1>3 DEF IsCurrent
<1>4. QED
  BY <1>1, <1>2, <1>3

\* The evidence log keeps the claim, and only finish, the last call of its
\* turn, makes it.
LEMMA ClaimIsKept ==
  ASSUME Base, [Next]_vars
  PROVE  /\ finished => finished'
         /\ finished' /\ ~finished =>
              /\ pc' = "returned" /\ UNCHANGED <<turn, terminal, status>>
              /\ \A k \in DOMAIN turn : IsCurrent(k) => k = Len(turn)
<1>1. \/ UNCHANGED finished
      \/ \E k \in DOMAIN turn : Execute(k) /\ turn[k].call.tool = "finish" /\ ~finished /\ finished' = TRUE
  BY DEF Next, QuietNext, Step, ModelStep, CallStep, Open, MayOpen, LimitOf, Prelude, Raise, Die, Conclude, Preflight,
     Count, Reserve, Ask, GenerateFails, ReceiveUnusable, Receive, BlockRepair, StartCall, Execute,
     Propose, ProposeLate, SaveResult, AskJournal, Lookup, Judge, Interrupt, CloseTurn,
     InterruptInside, Deliver, vars, toolbox
<1>2. ASSUME NEW k \in DOMAIN turn, Execute(k), turn[k].call.tool = "finish"
      PROVE  /\ pc' = "returned" /\ UNCHANGED <<turn, terminal, status>>
             /\ \A j \in DOMAIN turn : IsCurrent(j) => j = Len(turn)
  <2>1. IsCurrent(k) /\ pc' = "returned" /\ UNCHANGED <<turn, terminal, status>>
    BY <1>2 DEF Execute, Answered, checkpoint
  <2>2. k = Len(turn)
    BY <1>2 DEF Base, Ordered
  <2>3. QED
    BY <2>1, <2>2, OneCurrent DEF Base
<1>3. QED
  BY <1>1, <1>2

\* Every step keeps what is known of the claim.
LEMMA NextClaims ==
  ASSUME Base, Claims, [Next]_vars
  PROVE  Claims'
<1>1. CASE finished
  <2>1. finished'
    BY <1>1, ClaimIsKept
  <2>2. Claimed
    BY <1>1 DEF Claimed
  <2>3. ASSUME NEW k \in DOMAIN turn,
               \/ BlockRepair(k) \/ StartCall(k) \/ Execute(k) \/ Propose(k) \/ ProposeLate(k)
               \/ AskJournal(k) \/ Lookup(k) \/ Judge(k) \/ InterruptInside(k)
        PROVE  FALSE
    BY <1>1, <2>3 DEF Claims, IsCurrent, BlockRepair, StartCall, LogAttempt, Execute, Propose, ProposeLate,
       AskJournal, Lookup, Judge, InterruptInside
  <2>4. CASE \E k \in DOMAIN turn : SaveResult(k)
    <3>1. PICK k \in DOMAIN turn : SaveResult(k)
      BY <2>4
    <3>2. k = Len(turn) /\ IsCurrent(k) /\ pc' = "loop" /\ Mark(k, "completed", "none", result)
      BY <1>1, <3>1 DEF SaveResult, Claims
    <3>3. turn \in Seq(Entry) /\ result \in Results \cup {Nil}
      BY DEF Base, TypeOK
    <3>4. /\ DOMAIN turn' = DOMAIN turn
          /\ \A j \in DOMAIN turn : j # k => turn'[j] = turn[j]
          /\ turn'[k] = [call |-> turn[k].call, phase |-> "completed", lookup |-> "none", result |-> result]
      BY <3>2, <3>3, MarkFacts
    <3>5. \A j \in DOMAIN turn : turn'[j].phase = "completed"
      <4>1. DOMAIN turn = 1..Len(turn) /\ Len(turn) \in Nat
        BY <3>3
      <4>2. turn'[k].phase = "completed"
        BY <3>4
      <4>3. \A j \in DOMAIN turn : j # k => turn[j].phase = "completed"
        BY <3>2, <4>1 DEF IsCurrent
      <4>4. QED
        BY <3>4, <4>2, <4>3
    <3>6. QED
      BY <2>1, <3>2, <3>4, <3>5 DEF Claims
  <2>5. CASE (\E l \in Limits : Open(l)) \/ Prelude \/ Raise \/ Die \/ Interrupt \/ Conclude
    BY <2>1, <2>2, <2>5 DEF Claims, Open, MayOpen, LimitOf, Prelude, Raise, Die, Interrupt, Conclude, Stop, Down, At
  <2>6. CASE CloseTurn
    BY <2>1, <2>6 DEF Claims, CloseTurn, At
  <2>7. CASE (\E r \in wire : Deliver(r)) \/ UNCHANGED vars
    BY <1>1, <2>1, <2>7 DEF Claims, Deliver, vars, checkpoint, process, IsCurrent
  <2>8. CASE Preflight \/ Count \/ (\E input \in Inputs : Reserve(input)) \/ Ask \/ GenerateFails
             \/ ReceiveUnusable \/ (\E usage \in Usages, t \in Turns : Receive(usage, t))
    BY <1>1, <2>2, <2>8 DEF Claims, Preflight, Count, Reserve, Ask, GenerateFails, ReceiveUnusable, Receive
  <2>9. QED
    BY <2>3, <2>4, <2>5, <2>6, <2>7, <2>8 DEF Next, QuietNext, Step, ModelStep, CallStep
<1>2. CASE ~finished /\ finished'
  <2>1. /\ pc' = "returned" /\ UNCHANGED <<turn, terminal, status>>
        /\ \A k \in DOMAIN turn : IsCurrent(k) => k = Len(turn)
    BY <1>2, ClaimIsKept
  <2>2. QED
    BY <1>2, <2>1 DEF Claims, IsCurrent
<1>3. CASE ~finished /\ ~finished'
  <2>1. ~terminal /\ status # "completed" /\ ~Claimed
    BY <1>3 DEF Claims, Claimed
  <2>2. ~terminal' /\ status' # "completed"
    BY <2>1 DEF Next, QuietNext, Step, ModelStep, CallStep, Open, MayOpen, LimitOf, Prelude, Raise, Die, Conclude, Preflight,
       Count, Reserve, Ask, GenerateFails, ReceiveUnusable, Receive, BlockRepair, StartCall, Execute,
       Propose, ProposeLate, SaveResult, AskJournal, Lookup, Judge, Interrupt, CloseTurn,
       InterruptInside, Answered, Deliver, Stop, Down, At, vars, checkpoint
  <2>3. QED
    BY <1>3, <2>2 DEF Claims
<1>4. QED
  BY <1>1, <1>2, <1>3

\* Claims holds in every reachable state.
THEOREM AgentClaims == Spec => []Claims
<1>1. Init => Claims
  BY DEF Init, Claims
<1>2. QED
  BY <1>1, NextClaims, AgentBase, PTL DEF Spec

\* Nothing is asked or proposed once the claim is made (ClaimIsLast).
THEOREM NothingAfterTheClaim == Spec => ClaimIsLast
<1>1. ASSUME Base, Claims, [Next]_vars, finished
      PROVE  asked' = asked /\ handed' = handed
  <2>1. \A k \in DOMAIN turn : ~Propose(k) /\ ~ProposeLate(k)
    BY <1>1 DEF Claims, Propose, ProposeLate
  <2>2. ~Ask
    BY <1>1 DEF Claims, Ask
  <2>3. QED
    BY <1>1, <2>1, <2>2 DEF Next, QuietNext, Step, ModelStep, CallStep, Open, MayOpen, LimitOf, Prelude, Raise, Die, Conclude,
       Preflight, Count, Reserve, GenerateFails, ReceiveUnusable, Receive, BlockRepair, StartCall,
       Execute, SaveResult, AskJournal, Lookup, Judge, Interrupt, CloseTurn,
       InterruptInside, Answered, Deliver, vars, history
<1>2. QED
  BY <1>1, AgentBase, AgentClaims, PTL DEF Spec, ClaimIsLast

-----------------------------------------------------------------------------
(* What the checkpoint reports of the journal.                             *)

\* The journal has the very request of call k.
Held(k) == /\ turn[k].call.repair \in Repair
           /\ journal[turn[k].call.repair.op] = turn[k].call.repair

Answers ==
  \A k \in DOMAIN turn :
    /\ turn[k].result = "operation" \/ turn[k].lookup = "same" => Held(k)
    /\ pc = "returned" /\ result = "operation" /\ IsCurrent(k) => Held(k)

\* The journal never gives an identifier to another request.
LEMMA JournalKeeps ==
  ASSUME Base, [Next]_vars, NEW r \in Repair, journal[r.op] = r
  PROVE  journal'[r.op] = r
<1>1. journal \in [Ops -> Repair \cup {Nil, Foreign}] /\ r.op \in Ops /\ r # Nil
  BY Constants DEF Base, TypeOK, Repair
<1>2. UNCHANGED journal \/ \E q : journal' = Bound(q)
  BY DEF Next, QuietNext, Step, ModelStep, CallStep, Open, MayOpen, LimitOf, Prelude, Raise, Die, Conclude, Preflight,
     Count, Reserve, Ask, GenerateFails, ReceiveUnusable, Receive, BlockRepair, StartCall, Execute,
     Propose, ProposeLate, SaveResult, AskJournal, Lookup, Judge, Interrupt, CloseTurn,
     InterruptInside, Answered, Deliver, vars, toolbox
<1>3. QED
  BY <1>1, <1>2 DEF Bound

\* A mark whose result and lookup are so keeps the answers.
LEMMA MarkAnswers ==
  ASSUME Base, Answers, [Next]_vars, NEW k \in DOMAIN turn,
         NEW phase \in {"queued", "dispatched", "completed"},
         NEW lookup \in Lookups \cup {"none", "dispatched"},
         NEW res \in Results \cup {Nil},
         Mark(k, phase, lookup, res), pc' # "returned",
         res = "operation" \/ lookup = "same" =>
           turn[k].call.repair \in Repair
           /\ journal'[turn[k].call.repair.op] = turn[k].call.repair
  PROVE  Answers'
<1>1. turn \in Seq(Entry)
  BY DEF Base, TypeOK
<1>2. /\ DOMAIN turn' = DOMAIN turn
      /\ \A j \in DOMAIN turn : j # k => turn'[j] = turn[j]
      /\ turn'[k] = [call |-> turn[k].call, phase |-> phase, lookup |-> lookup, result |-> res]
  BY ONLY <1>1, k \in DOMAIN turn, phase \in {"queued", "dispatched", "completed"},
     lookup \in Lookups \cup {"none", "dispatched"}, res \in Results \cup {Nil}, Mark(k, phase, lookup, res),
     MarkFacts
<1>3. turn'[k].call = turn[k].call /\ turn'[k].lookup = lookup /\ turn'[k].result = res
  BY <1>2
<1>4. ASSUME NEW j \in DOMAIN turn, turn'[j].result = "operation" \/ turn'[j].lookup = "same"
      PROVE  /\ turn'[j].call.repair \in Repair
             /\ journal'[turn'[j].call.repair.op] = turn'[j].call.repair
  <2>1. CASE j = k
    BY <1>3, <1>4, <2>1
  <2>2. CASE j # k
    BY <1>2, <1>4, <2>2, JournalKeeps DEF Answers, Held
  <2>3. QED
    BY <2>1, <2>2
<1>5. QED
  BY <1>2, <1>4 DEF Answers, Held

\* So does a step that leaves the turn alone and brings no new answer.
LEMMA SameAnswers ==
  ASSUME Base, Answers, [Next]_vars, turn' = turn,
         pc' # "returned" \/ result' # "operation" \/ UNCHANGED <<pc, result>>
  PROVE  Answers'
<1>1. ASSUME NEW k \in DOMAIN turn, Held(k) PROVE Held(k)'
  BY <1>1, JournalKeeps DEF Held
<1>2. QED
  BY <1>1 DEF Answers, IsCurrent

\* The steps of a tool call keep the answers true.
LEMMA CallAnswers ==
  ASSUME Base, Answers, [Next]_vars, NEW k \in DOMAIN turn,
         \/ BlockRepair(k) \/ StartCall(k) \/ Execute(k) \/ Propose(k) \/ ProposeLate(k)
         \/ SaveResult(k) \/ AskJournal(k) \/ Lookup(k) \/ Judge(k) \/ InterruptInside(k)
  PROVE  Answers'
<1>0. turn[k] \in Entry /\ result \in Results \cup {Nil}
  BY DEF Base, TypeOK
<1>1. CASE BlockRepair(k) \/ ProposeLate(k)
  BY <1>1, SameAnswers DEF BlockRepair, ProposeLate, Stop, Down
<1>2. CASE Execute(k)
  BY <1>2, SameAnswers DEF Execute, Answered, checkpoint
<1>3. CASE Propose(k)
  <2>1. /\ IsCurrent(k) /\ turn[k].call.repair \in Repair /\ turn' = turn
        /\ result' = "operation" =>
             journal'[turn[k].call.repair.op] = turn[k].call.repair
    BY <1>3 DEF Propose, Answered, checkpoint, Base, Ordered
  <2>2. ASSUME NEW j \in DOMAIN turn, Held(j) PROVE Held(j)'
    BY <2>1, <2>2, JournalKeeps DEF Held
  <2>3. ASSUME NEW j \in DOMAIN turn, result' = "operation", IsCurrent(j) PROVE Held(j)'
    <3>1. j = k
      BY <2>1, <2>3, OneCurrent DEF Base
    <3>2. QED
      BY <2>1, <2>3, <3>1 DEF Held
  <2>4. QED
    BY <2>1, <2>2, <2>3 DEF Answers, IsCurrent
<1>4. CASE StartCall(k)
  <2>1. CASE turn' = turn
    BY <1>4, <2>1, SameAnswers DEF StartCall, LogAttempt, Stop, Down, At
  <2>2. CASE Mark(k, "dispatched", turn[k].lookup, Nil)
    <3>1. turn[k].lookup \in Lookups \cup {"none", "dispatched"}
      BY <1>0 DEF Entry
    <3>2. turn[k].lookup = "same" => Held(k)
      BY DEF Answers
    <3>3. pc' # "returned" /\ UNCHANGED journal
      BY <1>4 DEF StartCall, LogAttempt, Stop, Down, At, toolbox
    <3>4. Nil # "operation"
      BY NothingAssumption DEF Results
    <3>5. QED
      BY <2>2, <3>1, <3>2, <3>3, <3>4, MarkAnswers DEF Held
  <2>3. QED
    BY <1>4, <2>1, <2>2 DEF StartCall, LogAttempt
<1>5. CASE SaveResult(k)
  <2>1. IsCurrent(k) /\ pc = "returned" /\ pc' = "loop" /\ Mark(k, "completed", "none", result)
        /\ UNCHANGED journal
    BY <1>5 DEF SaveResult, toolbox
  <2>2. result = "operation" => Held(k)
    BY <2>1 DEF Answers
  <2>3. QED
    BY <1>0, <2>1, <2>2, MarkAnswers DEF Held
<1>6. CASE AskJournal(k)
  <2>1. CASE turn' = turn
    BY <1>6, <2>1, SameAnswers DEF AskJournal, Stop, Down, At
  <2>2. CASE Mark(k, "dispatched", "dispatched", Nil)
    <3>1. pc' # "returned" /\ Nil # "operation"
      BY <1>6, NothingAssumption DEF AskJournal, Stop, Down, At, Results
    <3>2. QED
      BY <2>2, <3>1, MarkAnswers
  <2>3. QED
    BY <1>6, <2>1, <2>2 DEF AskJournal
<1>7. CASE Lookup(k)
  <2>1. /\ IsCurrent(k) /\ pc' = "loop" /\ UNCHANGED journal
        /\ \E lookup \in Lookups :
             /\ Mark(k, "dispatched", lookup, Nil)
             /\ lookup = "same" => journal[turn[k].call.repair.op] = turn[k].call.repair
    BY <1>7, FoundFacts DEF Lookup, Lookups, toolbox
  <2>2. turn[k].call.repair \in Repair
    BY <1>7 DEF Lookup, Base, Staged, Ordered, InDoubt
  <2>3. Nil # "operation"
    BY NothingAssumption DEF Results
  <2>4. QED
    BY <2>1, <2>2, <2>3, MarkAnswers
<1>8. CASE Judge(k)
  <2>1. pc' # "returned" /\ UNCHANGED journal
    BY <1>8 DEF Judge, Stop, Down, At, toolbox
  <2>2. CASE turn' = turn
    BY <2>1, <2>2, SameAnswers
  <2>3. CASE Mark(k, "queued", "none", Nil)
    <3>1. Nil # "operation"
      BY NothingAssumption DEF Results
    <3>2. QED
      BY <2>1, <2>3, <3>1, MarkAnswers
  <2>4. CASE turn[k].lookup = "same" /\ Mark(k, "completed", "none", "operation")
    <3>1. Held(k)
      BY <2>4 DEF Answers
    <3>2. QED
      BY <2>1, <2>4, <3>1, MarkAnswers DEF Held, Results
  <2>5. QED
    BY <1>8, <2>2, <2>3, <2>4 DEF Judge
<1>9. CASE InterruptInside(k)
  <2>1. pc' # "returned" /\ UNCHANGED journal
    BY <1>9 DEF InterruptInside, Down, toolbox
  <2>2. \E lookup \in {"dispatched", "absent", turn[k].lookup}, phase \in {"queued", "dispatched"} :
          Mark(k, phase, lookup, Nil)
    BY <1>9 DEF InterruptInside
  <2>3. turn[k].lookup \in Lookups \cup {"none", "dispatched"}
    BY <1>0 DEF Entry
  <2>4. Nil # "operation"
    BY NothingAssumption DEF Results
  <2>5. turn[k].lookup = "same" => Held(k)
    BY DEF Answers
  <2>6. QED
    BY <2>1, <2>2, <2>3, <2>4, <2>5, MarkAnswers DEF Held, Lookups
<1>10. QED
  BY <1>1, <1>2, <1>3, <1>4, <1>5, <1>6, <1>7, <1>8, <1>9

\* So does every step.
LEMMA NextAnswers ==
  ASSUME Base, Answers, [Next]_vars
  PROVE  Answers'
<1>1. CASE \E k \in DOMAIN turn :
             \/ BlockRepair(k) \/ StartCall(k) \/ Execute(k) \/ Propose(k) \/ ProposeLate(k)
             \/ SaveResult(k) \/ AskJournal(k) \/ Lookup(k) \/ Judge(k) \/ InterruptInside(k)
  BY <1>1, CallAnswers
<1>2. CASE \E usage \in Usages, t \in Turns : Receive(usage, t)
  <2>1. PICK usage \in Usages, t \in Turns : Receive(usage, t)
    BY <1>2
  <2>2. pc' # "returned"
    BY <2>1 DEF Receive, Stop, Down, At
  <2>3. CASE turn' = turn
    BY <2>2, <2>3, SameAnswers
  <2>4. CASE turn' = [k \in 1..Len(t) |-> Pending(t[k])]
    <3>1. DOMAIN turn' = 1..Len(t) /\ \A k \in 1..Len(t) : turn'[k] = Pending(t[k])
      BY <2>4, QueuedFacts
    <3>2. Nil # "operation"
      BY NothingAssumption DEF Results
    <3>3. QED
      BY <2>2, <3>1, <3>2 DEF Answers, Pending
  <2>5. QED
    BY <2>1, <2>3, <2>4 DEF Receive
<1>3. CASE CloseTurn
  BY <1>3 DEF Answers, CloseTurn
<1>4. CASE (\E l \in Limits : Open(l)) \/ Prelude \/ Raise \/ Die \/ Conclude \/ Preflight \/ Count
             \/ (\E input \in Inputs : Reserve(input)) \/ Ask \/ GenerateFails \/ ReceiveUnusable
             \/ Interrupt \/ (\E r \in wire : Deliver(r)) \/ UNCHANGED vars
  <2>1. turn' = turn
    BY <1>4 DEF Open, MayOpen, LimitOf, Prelude, Raise, Die, Conclude, Preflight, Count, Reserve, Ask, GenerateFails,
       ReceiveUnusable, Interrupt, Deliver, vars, checkpoint
  <2>2. pc' # "returned" \/ UNCHANGED <<pc, result>>
    BY <1>4 DEF Open, MayOpen, LimitOf, Prelude, Raise, Die, Conclude, Preflight, Count, Reserve, Ask, GenerateFails,
       ReceiveUnusable, Interrupt, Deliver, Stop, Down, At, vars, process
  <2>3. QED
    BY <2>1, <2>2, SameAnswers
<1>5. QED
  BY <1>1, <1>2, <1>3, <1>4 DEF Next, QuietNext, Step, ModelStep, CallStep

\* What the checkpoint says of an answer is true in every reachable state.
THEOREM AgentAnswers == Spec => []Answers
<1>1. Init => Answers
  BY DEF Init, Answers
<1>2. QED
  BY <1>1, NextAnswers, AgentBase, PTL DEF Spec

\* An operation or a claim that the checkpoint reports is there (ReportsHold).
THEOREM ReportsAreTrue == Spec => []ReportsHold
<1>1. Answers /\ Claims => ReportsHold
  BY DEF Answers, Claims, Held, ReportsHold
<1>2. QED
  BY <1>1, AgentAnswers, AgentClaims, PTL

-----------------------------------------------------------------------------
(* Proposals in doubt, when Ctrl-C comes between steps only.               *)

Settled == {"absent", "same", "other"}

\* A proposal whose fate is not known is the current call, dispatched, and the
\* journal has not answered for it; what is being called is not in doubt.
Doubts ==
  /\ \A k \in DOMAIN turn :
       /\ turn[k].lookup # "none" => InDoubt(k)
       /\ pc = "calling" /\ IsCurrent(k) => turn[k].lookup = "none"
  /\ \A r \in untold : \E k \in DOMAIN turn :
       /\ IsCurrent(k) /\ InDoubt(k) /\ turn[k].call.repair = r
       /\ turn[k].lookup \notin Settled /\ pc # "calling"

\* A mark on the current call, seen from the calls of the turn afterwards.
LEMMA MarkedTurn ==
  ASSUME TypeOK, NEW k \in DOMAIN turn, IsCurrent(k),
         NEW phase \in {"queued", "dispatched", "completed"},
         NEW lookup \in Lookups \cup {"none", "dispatched"},
         NEW res \in Results \cup {Nil},
         Mark(k, phase, lookup, res)
  PROVE  /\ DOMAIN turn' = DOMAIN turn
         /\ \A j \in DOMAIN turn : j # k => turn'[j] = turn[j]
         /\ turn'[k].call = turn[k].call /\ turn'[k].phase = phase /\ turn'[k].lookup = lookup
         /\ phase # "completed" => IsCurrent(k)' /\ \A j \in DOMAIN turn : IsCurrent(j)' => j = k
<1>1. turn \in Seq(Entry)
  BY DEF TypeOK
<1>2. /\ DOMAIN turn' = DOMAIN turn
      /\ \A j \in DOMAIN turn : j # k => turn'[j] = turn[j]
      /\ turn'[k] = [call |-> turn[k].call, phase |-> phase, lookup |-> lookup, result |-> res]
  BY <1>1, MarkFacts
<1>3. DOMAIN turn = 1..Len(turn) /\ Len(turn) \in Nat
  BY <1>1
<1>4. turn'[k].call = turn[k].call /\ turn'[k].phase = phase /\ turn'[k].lookup = lookup
  BY <1>2
<1>5. ASSUME phase # "completed" PROVE IsCurrent(k)'
  BY <1>2, <1>3, <1>4, <1>5 DEF IsCurrent
<1>6. ASSUME phase # "completed", NEW j \in DOMAIN turn, IsCurrent(j)', j # k PROVE FALSE
  <2>1. CASE j < k
    BY <1>2, <1>3, <1>6, <2>1 DEF IsCurrent
  <2>2. CASE k < j
    BY <1>3, <1>4, <1>6, <2>2 DEF IsCurrent
  <2>3. QED
    BY <1>3, <1>6, <2>1, <2>2
<1>7. QED
  BY <1>2, <1>4, <1>5, <1>6

\* All of untold is one proposal, the current one.
LEMMA UntoldIsCurrent ==
  ASSUME TypeOK, Doubts, NEW k \in DOMAIN turn, IsCurrent(k)
  PROVE  /\ untold \subseteq {turn[k].call.repair}
         /\ ~InDoubt(k) \/ turn[k].lookup \in Settled \/ pc = "calling" => untold = {}
BY OneCurrent DEF Doubts

\* A step that leaves the turn alone, and does not start a call, leaves the
\* doubts.
LEMMA SameDoubts ==
  ASSUME Doubts, turn' = turn, untold' = untold, pc' # "calling"
  PROVE  Doubts'
BY DEF Doubts, IsCurrent, InDoubt

\* Without Ctrl-C in the middle of a step, the steps of a tool call keep track
\* of the proposals in doubt.
LEMMA CallDoubts ==
  ASSUME Base, Doubts, NEW k \in DOMAIN turn,
         \/ BlockRepair(k) \/ StartCall(k) \/ Execute(k) \/ Propose(k) \/ ProposeLate(k)
         \/ SaveResult(k) \/ AskJournal(k) \/ Lookup(k) \/ Judge(k)
  PROVE  Doubts'
<1>0. /\ TypeOK /\ turn[k] \in Entry /\ result \in Results \cup {Nil} /\ untold \subseteq Repair
      /\ turn[k].lookup \in Lookups \cup {"none", "dispatched"}
  <2>1. TypeOK /\ turn[k] \in Entry
    BY DEF Base, TypeOK
  <2>2. turn[k].lookup \in Lookups \cup {"none", "dispatched"}
    BY <2>1 DEF Entry
  <2>3. QED
    BY <2>1, <2>2 DEF TypeOK
<1>1. CASE BlockRepair(k) \/ Execute(k)
  BY <1>1, SameDoubts DEF BlockRepair, Execute, Answered, Stop, Down, checkpoint, history
<1>2. CASE StartCall(k)
  <2>1. CASE pc' # "calling"
    BY <1>2, <2>1, SameDoubts DEF StartCall, LogAttempt, At, history
  <2>2. CASE pc' = "calling"
    <3>1. IsCurrent(k) /\ ~InDoubt(k) /\ Mark(k, "dispatched", turn[k].lookup, Nil) /\ untold' = untold
      BY <1>2, <2>2 DEF StartCall, LogAttempt, Stop, Down, history
    <3>2. untold = {} /\ turn[k].lookup = "none"
      BY <1>0, <3>1, UntoldIsCurrent DEF Doubts
    <3>3. QED
      BY <1>0, <3>1, <3>2, MarkedTurn DEF Doubts, InDoubt
  <2>3. QED
    BY <2>1, <2>2
<1>3. CASE Propose(k) \/ ProposeLate(k)
  <2>1. /\ IsCurrent(k) /\ pc = "calling" /\ turn[k].call.tool = "propose_repair"
        /\ untold' = untold \cup {turn[k].call.repair} /\ turn' = turn /\ pc' # "calling"
    BY <1>3 DEF Propose, ProposeLate, Hand, Answered, Down, checkpoint
  <2>2. InDoubt(k) /\ turn[k].lookup = "none" /\ untold = {}
    BY <1>0, <2>1, UntoldIsCurrent DEF Base, Staged, InDoubt, Doubts
  <2>3. QED
    BY <2>1, <2>2 DEF Doubts, IsCurrent, InDoubt, Settled
<1>4. CASE SaveResult(k)
  <2>1. /\ IsCurrent(k) /\ Mark(k, "completed", "none", result) /\ pc' = "loop"
        /\ untold' = untold \ {turn[k].call.repair}
    BY <1>4 DEF SaveResult
  <2>2. untold' = {}
    BY <1>0, <2>1, UntoldIsCurrent
  <2>3. QED
    BY <1>0, <2>1, <2>2, MarkedTurn DEF Doubts, InDoubt
<1>5. CASE AskJournal(k)
  <2>1. CASE turn' = turn
    BY <1>5, <2>1, SameDoubts DEF AskJournal, Stop, Down, At, history
  <2>2. CASE Mark(k, "dispatched", "dispatched", Nil)
    <3>1. IsCurrent(k) /\ InDoubt(k) /\ untold' = untold /\ pc' # "calling"
      BY <1>5 DEF AskJournal, Stop, Down, At, history
    <3>2. untold \subseteq {turn[k].call.repair}
      BY <1>0, <3>1, UntoldIsCurrent
    <3>3. QED
      BY <1>0, <2>2, <3>1, <3>2, MarkedTurn DEF Doubts, InDoubt, Settled
  <2>3. QED
    BY <1>5, <2>1, <2>2 DEF AskJournal
<1>6. CASE Lookup(k)
  <2>1. /\ IsCurrent(k) /\ pc = "looking" /\ pc' = "loop"
        /\ \/ /\ \E lookup \in Settled : Mark(k, "dispatched", lookup, Nil)
              /\ untold' = untold \ {turn[k].call.repair}
           \/ Mark(k, "dispatched", "inconclusive", Nil) /\ untold' = untold
    BY <1>6, FoundFacts DEF Lookup, Settled
  <2>2. InDoubt(k) /\ untold \subseteq {turn[k].call.repair}
    BY <1>0, <2>1, UntoldIsCurrent DEF Base, Staged
  <2>3. CASE \E lookup \in Settled :
               Mark(k, "dispatched", lookup, Nil) /\ untold' = untold \ {turn[k].call.repair}
    BY <1>0, <2>1, <2>2, <2>3, MarkedTurn DEF Doubts, InDoubt, Settled, Lookups
  <2>4. CASE Mark(k, "dispatched", "inconclusive", Nil) /\ untold' = untold
    <3>1. "inconclusive" \in Lookups \cup {"none", "dispatched"} /\ "inconclusive" \notin Settled
      BY DEF Lookups, Settled
    <3>2. QED
      BY <1>0, <2>1, <2>2, <2>4, <3>1, MarkedTurn DEF Doubts, InDoubt
  <2>5. QED
    BY <2>1, <2>3, <2>4
<1>7. CASE Judge(k)
  <2>1. IsCurrent(k) /\ untold' = untold /\ pc' # "calling"
    BY <1>7 DEF Judge, Stop, Down, At, history
  <2>2. CASE turn' = turn
    BY <2>1, <2>2, SameDoubts
  <2>3. CASE turn' # turn
    <3>1. /\ turn[k].lookup \in Settled
          /\ \/ Mark(k, "queued", "none", Nil)
             \/ Mark(k, "completed", "none", "operation")
      BY <1>7, <2>3 DEF Judge, Settled
    <3>2. untold = {}
      BY <1>0, <2>1, <3>1, UntoldIsCurrent
    <3>3. QED
      BY <1>0, <2>1, <3>1, <3>2, MarkedTurn DEF Doubts, InDoubt, Results
  <2>4. QED
    BY <2>2, <2>3
<1>8. QED
  BY <1>1, <1>2, <1>3, <1>4, <1>5, <1>6, <1>7

\* So does every step.
LEMMA NextDoubts ==
  ASSUME Base, Doubts, [QuietNext]_vars
  PROVE  Doubts'
<1>1. CASE \E k \in DOMAIN turn :
             \/ BlockRepair(k) \/ StartCall(k) \/ Execute(k) \/ Propose(k) \/ ProposeLate(k)
             \/ SaveResult(k) \/ AskJournal(k) \/ Lookup(k) \/ Judge(k)
  BY <1>1, CallDoubts
<1>2. CASE \E usage \in Usages, t \in Turns : Receive(usage, t)
  <2>1. PICK usage \in Usages, t \in Turns : Receive(usage, t)
    BY <1>2
  <2>2. turn = <<>> /\ untold' = untold /\ pc' # "calling"
    BY <2>1 DEF Base, Staged, Receive, Stop, Down, At, history
  <2>3. CASE turn' = turn
    BY <2>2, <2>3, SameDoubts
  <2>4. CASE turn' = [k \in 1..Len(t) |-> Pending(t[k])]
    <3>1. DOMAIN turn' = 1..Len(t) /\ \A k \in 1..Len(t) : turn'[k] = Pending(t[k])
      BY <2>4, QueuedFacts
    <3>2. untold = {}
      BY <2>2 DEF Doubts
    <3>3. QED
      BY <2>2, <3>1, <3>2 DEF Doubts, Pending
  <2>5. QED
    BY <2>1, <2>3, <2>4 DEF Receive
<1>3. CASE CloseTurn
  <2>1. untold = {} /\ untold' = untold /\ turn' = <<>>
    BY <1>3 DEF Doubts, InDoubt, CloseTurn, history
  <2>2. QED
    BY <2>1 DEF Doubts
<1>4. CASE (\E l \in Limits : Open(l)) \/ Prelude \/ Raise \/ Die \/ Conclude \/ Preflight \/ Count
             \/ (\E input \in Inputs : Reserve(input)) \/ Ask \/ GenerateFails \/ ReceiveUnusable
             \/ Interrupt
  <2>1. turn' = turn /\ untold' = untold
    BY <1>4 DEF Open, MayOpen, LimitOf, Prelude, Raise, Die, Conclude, Preflight, Count, Reserve, Ask, GenerateFails,
       ReceiveUnusable, Interrupt, checkpoint, history
  <2>2. pc' # "calling"
    BY <1>4 DEF Open, MayOpen, LimitOf, Prelude, Raise, Die, Conclude, Preflight, Count, Reserve, Ask, GenerateFails,
       ReceiveUnusable, Interrupt, Stop, Down, At
  <2>3. QED
    BY <2>1, <2>2, SameDoubts
<1>5. CASE (\E r \in wire : Deliver(r)) \/ UNCHANGED vars
  <2>1. UNCHANGED <<turn, untold, pc>>
    BY <1>5 DEF Deliver, vars, checkpoint, process, history
  <2>2. QED
    BY <2>1 DEF Doubts, IsCurrent, InDoubt
<1>6. QED
  BY <1>1, <1>2, <1>3, <1>4, <1>5 DEF QuietNext, Step, ModelStep, CallStep

\* A behaviour of the agent, quiet or not, is one of its specification.
LEMMA QuietOrNot == MCSpec => Spec
<1>1. MCInit => Init
  BY DEF MCInit
<1>2. [MCNext]_mcvars => [Next]_vars
  BY DEF MCNext, Next, mcvars
<1>3. QED
  BY <1>1, <1>2, PTL DEF MCSpec, Spec

\* Where Ctrl-C comes between steps only, a proposal in doubt is looked up before
\* it is made again (QuietlyNoBlindRetry).
THEOREM DoubtsAreLookedUp == MCSpec => QuietlyNoBlindRetry
<1> DEFINE LookedUp == \A r \in Repair : handed'[r] # handed[r] => r \notin untold
<1>1. MCInit => (quiet => Doubts)
  BY DEF MCInit, Init, Doubts
<1>2. Base /\ (quiet => Doubts) /\ [MCNext]_mcvars => (quiet => Doubts)'
  <2> SUFFICES ASSUME Base, quiet => Doubts, [MCNext]_mcvars, quiet' PROVE Doubts'
    OBVIOUS
  <2>1. quiet /\ [QuietNext]_vars
    BY DEF MCNext, mcvars
  <2>2. QED
    BY <2>1, NextDoubts
<1>3. ASSUME Base, Doubts, [Next]_vars, NEW r \in Repair, handed'[r] # handed[r]
      PROVE  r \notin untold
  <2>1. pc = "calling"
    BY <1>3, Handing DEF Propose, ProposeLate
  <2>2. QED
    BY <1>3, <2>1 DEF Doubts
<1>4. Base /\ (quiet => Doubts) /\ [Next]_vars => [quiet => LookedUp]_mcvars
  BY <1>3
<1>5. QED
  BY <1>1, <1>2, <1>4, AgentBase, QuietOrNot, PTL DEF MCSpec, Spec, QuietlyNoBlindRetry, LookedUpFirst

\* The checkpoint holds what was done, in every reachable state
\* (CheckpointIsTrue).
THEOREM CheckpointsAreTrue == Spec => []CheckpointIsTrue
<1>1. TypeOK /\ ReportsHold /\ EffectsAreAttempts => CheckpointIsTrue
  BY DEF CheckpointIsTrue
<1>2. QED
  BY <1>1, AgentTypes, ReportsAreTrue, EffectsAreLogged, PTL

\* No run undoes or repeats what an earlier one did (CheckpointMovesForward).
THEOREM CheckpointsMoveForward == Spec => CheckpointMovesForward
<1>1. QED
  BY RequestsAreSentOnce, NoRunExceedsALimit, RepairsAreInOrder, NothingAfterTheClaim,
     FinalIsKept DEF CheckpointMovesForward

=============================================================================
