------------------------------- MODULE Agent -------------------------------
(***************************************************************************)
(* The agent loop: one process at a time (a file lock) that asks a model   *)
(* for turns of tool calls and keeps everything it did in a checkpoint.    *)
(* It may die, raise or be interrupted anywhere and be run again, with     *)
(* other limits, from what is on disk.                                     *)
(*                                                                         *)
(* Every save replaces the whole checkpoint atomically, and the process    *)
(* changes nothing it does not save before it goes on: between two steps   *)
(* memory and checkpoint agree, and there is one set of variables for      *)
(* both.  A save is what ends a step; a process killed in the middle of    *)
(* one has done nothing but its effects outside, which are steps of their  *)
(* own.  Ctrl-C in the middle is caught and saves what is half done; what  *)
(* of that a later run can see is InterruptInside.                         *)
(*                                                                         *)
(* The model provider and the toolbox with the broker's journal behind it  *)
(* live on when the process dies.                                          *)
(***************************************************************************)
EXTENDS Naturals, Sequences

CONSTANTS
  Ops, Arguments,  \* of proposed repairs
  Turns,           \* the sequences of calls a model may answer with
  MaxCallsPerTurn,
  Limits,          \* the limits a run may be given: [turns, tokens]
  Usages, Inputs,  \* token counts of a response, reserved for an input
  MaxRuns,         \* bound: the runs explored
  Nil,             \* nothing: no repair, no result, a free identifier
  Foreign          \* an identifier another run's operation has

Repair == [op : Ops, args : Arguments]
Tools  == {"observe", "record_incident", "propose_repair", "finish"}
Call   == [tool : Tools, repair : Repair \cup {Nil}]

Results == {"observed", "recorded", "rejected", "operation", "refused", "finished"}

\* What the parser lets through: at most so many calls, finish the last.
ASSUME TurnsAssumption ==
  \A t \in Turns :
    /\ t \in Seq(Call)
    /\ Len(t) \in 1..MaxCallsPerTurn
    /\ \A k \in 1..Len(t) : t[k].tool = "propose_repair" <=> t[k].repair \in Repair
    /\ \A k \in 1..Len(t) - 1 : t[k].tool # "finish"
ASSUME LimitsAssumption ==
  /\ Limits \subseteq [turns : Nat \ {0}, tokens : Nat \ {0}]
  /\ Usages \subseteq Nat /\ Inputs \subseteq Nat
  /\ MaxCallsPerTurn \in Nat /\ MaxRuns \in Nat
ASSUME NothingAssumption ==
  Nil \notin Repair \cup Results /\ Foreign \notin Repair /\ Nil # Foreign

VARIABLES
  \* the checkpoint
  status, runs, limit,             \* limit: the smallest of each so far
  modelCalls, toolCalls, total, unknown,
  pending, responses, preflight,   \* pending_model, model_responses, token_preflights
  turn, attempts, terminal,        \* pending_turn, tool_attempts, terminal
  \* the process
  pc, result, stopping,            \* stopping: interrupt_requested
  \* the toolbox
  journal, wire, finished,
  \* history
  asked, handed, untold, granted

checkpoint == <<status, runs, limit, modelCalls, toolCalls, total, unknown,
                pending, responses, preflight, turn, attempts, terminal>>
process == <<pc, result, stopping>>
toolbox == <<journal, wire, finished>>
history == <<asked, handed, untold, granted>>
vars    == <<checkpoint, process, toolbox, history>>

FinalStatuses == {"completed", "blocked", "budget_exhausted", "indeterminate"}
Statuses == FinalStatuses \cup {"absent", "running", "interrupted", "error"}

Stages == {"down", "opened", "loop", "counting", "counted", "asking",
           "awaiting", "calling", "returned", "looking"}
Lookups == {"absent", "same", "other", "inconclusive"}

Pending(c) == [call |-> c, phase |-> "queued", lookup |-> "none", result |-> Nil]

Min2(a, b) == IF a < b THEN a ELSE b

\* Opening one of these is not another execution.
Final == \/ status \in FinalStatuses
         \/ status = "error" /\ turn = <<>>

Init ==
  /\ status = "absent" /\ runs = 0 /\ limit = [turns |-> 0, tokens |-> 0]
  /\ modelCalls = 0 /\ toolCalls = 0 /\ total = 0 /\ unknown = FALSE
  /\ pending = FALSE /\ responses = 0 /\ preflight = "none"
  /\ turn = <<>> /\ attempts = {} /\ terminal = FALSE
  /\ pc = "down" /\ result = Nil /\ stopping = FALSE
  /\ journal \in [Ops -> {Nil, Foreign}] /\ wire = {} /\ finished = FALSE
  /\ asked = 0 /\ handed = [r \in Repair |-> 0] /\ untold = {} /\ granted = {}

-----------------------------------------------------------------------------
(* Runs.                                                                   *)

\* The process is at `stage` and remembers nothing of a call.
At(stage) == pc' = stage /\ result' = Nil /\ UNCHANGED stopping

Down == pc' = "down" /\ result' = Nil /\ stopping' = FALSE

\* stop: the run ends with a last save, or with the error of that save.
Stop(last) == status' \in {last, "error"} /\ Down

\* The limits of a checkpoint only shrink.
LimitOf(l) ==
  IF status = "absent" THEN l
  ELSE [turns |-> Min2(limit.turns, l.turns), tokens |-> Min2(limit.tokens, l.tokens)]

MayOpen == pc = "down" /\ ~Final /\ runs < MaxRuns

\* run_agent under the lock: a new checkpoint, or an old one with smaller
\* limits.  A final checkpoint, or a second process, changes nothing.
Open(l) ==
  /\ MayOpen
  /\ pc' = "opened" /\ result' = Nil /\ stopping' = FALSE
  /\ runs'   = runs + 1
  /\ status' = IF status = "absent" THEN "running" ELSE status
  /\ limit'  = LimitOf(l)
  /\ granted' = granted \cup {l}
  /\ UNCHANGED <<modelCalls, toolCalls, total, unknown, pending, responses,
                 preflight, turn, attempts, terminal, toolbox, asked, handed, untold>>

Claimed == terminal \/ finished

\* The start of run: what may not be continued.
Prelude ==
  /\ pc = "opened"
  /\ \/ Claimed /\ Stop("completed") /\ terminal' = TRUE /\ UNCHANGED unknown
     \/ /\ ~Claimed /\ pending
        /\ Stop("indeterminate") /\ unknown' = TRUE /\ UNCHANGED terminal
     \/ /\ ~Claimed /\ ~pending /\ preflight = "pending"
        /\ Stop("blocked") /\ UNCHANGED <<unknown, terminal>>
     \/ /\ ~Claimed /\ ~pending /\ preflight # "pending"
        /\ total > limit.tokens \/ modelCalls > limit.turns
        /\ Stop("budget_exhausted") /\ UNCHANGED <<unknown, terminal>>
     \/ /\ ~Claimed /\ ~pending /\ preflight # "pending"
        /\ total <= limit.tokens /\ modelCalls <= limit.turns
        /\ status' = "running" /\ At("loop") /\ UNCHANGED <<unknown, terminal>>
  /\ UNCHANGED <<runs, limit, modelCalls, toolCalls, total, pending, responses,
                 preflight, turn, attempts, toolbox, history>>

\* An exception, or Ctrl-C between two steps: the run ends in an error.
Raise ==
  /\ pc # "down"
  /\ status' = "error" /\ Down
  /\ UNCHANGED <<runs, limit, modelCalls, toolCalls, total, unknown, pending, responses,
                 preflight, turn, attempts, terminal, toolbox, history>>

\* The process is killed, or even the error cannot be saved.
Die ==
  /\ pc # "down"
  /\ Down
  /\ UNCHANGED <<checkpoint, toolbox, history>>

-----------------------------------------------------------------------------
(* Model requests.                                                         *)

\* Between turns: a claim ends the run, as does an exhausted budget.
Conclude ==
  /\ pc = "loop" /\ turn = <<>>
  /\ \/ Claimed /\ Stop("completed") /\ terminal' = TRUE
     \/ /\ ~Claimed
        /\ modelCalls >= limit.turns \/ total >= limit.tokens
        /\ Stop("budget_exhausted") /\ UNCHANGED terminal
  /\ UNCHANGED <<runs, limit, modelCalls, toolCalls, total, unknown, pending,
                 responses, preflight, turn, attempts, toolbox, history>>

\* The token preflight is recorded before the provider is asked to count.
Preflight ==
  /\ pc = "loop" /\ turn = <<>> /\ ~Claimed
  /\ modelCalls < limit.turns /\ total < limit.tokens
  /\ preflight' = "pending" /\ At("counting")
  /\ UNCHANGED <<status, runs, limit, modelCalls, toolCalls, total, unknown, pending,
                 responses, turn, attempts, terminal, toolbox, history>>

Count ==
  /\ pc = "counting"
  /\ \/ preflight' = "counted" /\ At("counted") /\ UNCHANGED status
     \/ preflight' = "failed" /\ Stop("blocked")
  /\ UNCHANGED <<runs, limit, modelCalls, toolCalls, total, unknown, pending,
                 responses, turn, attempts, terminal, toolbox, history>>

\* The request with its reserved input is saved as pending before it is sent.
Reserve(input) ==
  /\ pc = "counted"
  /\ IF total + input >= limit.tokens
     THEN Stop("budget_exhausted") /\ UNCHANGED <<modelCalls, pending>>
     ELSE /\ modelCalls' = modelCalls + 1
          /\ pending' = TRUE
          /\ At("asking") /\ UNCHANGED status
  /\ UNCHANGED <<runs, limit, toolCalls, total, unknown, responses, preflight,
                 turn, attempts, terminal, toolbox, history>>

\* generate: the request is on its way to the provider.
Ask ==
  /\ pc = "asking"
  /\ asked' = asked + 1 /\ At("awaiting")
  /\ UNCHANGED <<checkpoint, toolbox, handed, untold, granted>>

\* The provider, its transport or its client fails without a response.
GenerateFails ==
  /\ pc \in {"asking", "awaiting"}
  /\ unknown' = TRUE /\ Stop("indeterminate")
  /\ UNCHANGED <<runs, limit, modelCalls, toolCalls, total, pending, responses,
                 preflight, turn, attempts, terminal, toolbox, history>>

\* A response without usage is the last; one that is malformed, or that came
\* with an error, ends the run too.
ReceiveUnusable ==
  /\ pc = "awaiting"
  /\ responses' = responses + 1 /\ pending' = FALSE
  /\ \/ unknown' = TRUE /\ UNCHANGED total
     \/ UNCHANGED unknown /\ \E usage \in Usages : total' = total + usage
  /\ Stop("blocked")
  /\ UNCHANGED <<runs, limit, modelCalls, toolCalls, preflight, turn, attempts,
                 terminal, toolbox, history>>

\* A response: its usage is charged, even beyond the limit, and only within
\* it are its calls queued, in the same save.
Receive(usage, t) ==
  /\ pc = "awaiting"
  /\ responses' = responses + 1 /\ pending' = FALSE
  /\ total' = total + usage
  /\ IF total + usage > limit.tokens
     THEN Stop("budget_exhausted") /\ UNCHANGED turn
     ELSE /\ turn' = [k \in 1..Len(t) |-> Pending(t[k])]
          /\ At("loop") /\ UNCHANGED status
  /\ UNCHANGED <<runs, limit, modelCalls, toolCalls, unknown, preflight, attempts,
                 terminal, toolbox, history>>

-----------------------------------------------------------------------------
(* The calls of a turn.                                                    *)

\* k is the first call of the turn that is not completed.
IsCurrent(k) ==
  /\ turn[k].phase # "completed"
  /\ \A j \in 1..k - 1 : turn[j].phase = "completed"

Mark(k, phase, lookup, res) ==
  turn' = [turn EXCEPT ![k] = [call |-> turn[k].call, phase |-> phase,
                               lookup |-> lookup, result |-> res]]

ToolBudgetSpent == toolCalls >= limit.turns * MaxCallsPerTurn

\* Bug: what the model noted does not matter to what it does.
IgnoredIncident(k) == FALSE

\* An earlier call of the turn was a record_incident that was refused.
RejectedBefore(k) == \E j \in 1..k - 1 : turn[j].result = "rejected"

\* Bug: a proposal that may have been sent is simply sent again.
NeverInDoubt(k) == FALSE

\* A proposal was dispatched and nothing of it has come back.
InDoubt(k) == turn[k].phase = "dispatched" /\ turn[k].call.tool = "propose_repair"

\* No repair after a refused incident of the same turn.
BlockRepair(k) ==
  /\ pc = "loop" /\ ~stopping /\ IsCurrent(k)
  /\ turn[k].call.tool = "propose_repair" /\ RejectedBefore(k)
  /\ Stop("blocked")
  /\ UNCHANGED <<runs, limit, modelCalls, toolCalls, total, unknown, pending, responses,
                 preflight, turn, attempts, terminal, toolbox, history>>

LogAttempt(k) == attempts' = attempts \cup {turn[k].call}

\* call_tool: the attempt is charged and saved before the call is made.
StartCall(k) ==
  /\ pc = "loop" /\ ~stopping /\ IsCurrent(k)
  /\ ~InDoubt(k) /\ ~(turn[k].call.tool = "propose_repair" /\ RejectedBefore(k))
  /\ IF ToolBudgetSpent
     THEN Stop("budget_exhausted") /\ UNCHANGED <<toolCalls, turn, attempts>>
     ELSE /\ toolCalls' = toolCalls + 1
          /\ LogAttempt(k)
          /\ Mark(k, "dispatched", turn[k].lookup, Nil)
          /\ At("calling") /\ UNCHANGED status
  /\ UNCHANGED <<runs, limit, modelCalls, total, unknown, pending, responses,
                 preflight, terminal, toolbox, history>>

Answered(res) ==
  /\ pc' = "returned" /\ result' = res
  /\ UNCHANGED <<stopping, checkpoint, asked, granted>>

\* Observations change nothing; an incident note is checked locally; finish
\* leaves a claim unless it is refused.
Execute(k) ==
  /\ pc = "calling" /\ IsCurrent(k)
  /\ \/ turn[k].call.tool = "observe" /\ Answered("observed") /\ UNCHANGED toolbox
     \/ /\ turn[k].call.tool = "record_incident"
        /\ \E res \in {"recorded", "rejected"} : Answered(res)
        /\ UNCHANGED toolbox
     \/ /\ turn[k].call.tool = "finish" /\ ~finished
        /\ finished' = TRUE /\ Answered("finished") /\ UNCHANGED <<journal, wire>>
     \/ turn[k].call.tool = "finish" /\ Answered("refused") /\ UNCHANGED toolbox
  /\ UNCHANGED <<handed, untold>>

Hand(r) ==
  /\ handed' = [handed EXCEPT ![r] = @ + 1]
  /\ untold' = untold \cup {r}

\* The broker binds an identifier to the first request for it.
Bound(r) == IF journal[r.op] = Nil THEN [journal EXCEPT ![r.op] = r] ELSE journal

\* propose_repair answers with the operation, or with an error whether or not
\* the broker got it; after the claim, or for evidence it never issued, the
\* toolbox refuses.
Propose(k) ==
  LET r == turn[k].call.repair IN
  /\ pc = "calling" /\ IsCurrent(k) /\ turn[k].call.tool = "propose_repair"
  /\ Hand(r)
  /\ \/ /\ ~finished
        /\ journal' = Bound(r)
        /\ Answered("refused") \/ (Bound(r)[r.op] = r /\ Answered("operation"))
     \/ Answered("refused") /\ UNCHANGED journal
  /\ UNCHANGED <<wire, finished>>

\* The call ends without an answer; what it asked for may still be done.
ProposeLate(k) ==
  LET r == turn[k].call.repair IN
  /\ pc = "calling" /\ IsCurrent(k) /\ turn[k].call.tool = "propose_repair"
  /\ ~finished
  /\ Hand(r)
  /\ wire' = wire \cup {r}
  /\ status' \in {status, "error"} /\ Down
  /\ UNCHANGED <<runs, limit, modelCalls, toolCalls, total, unknown, pending, responses,
                 preflight, turn, attempts, terminal, journal, finished, asked, granted>>

Deliver(r) ==
  /\ wire' = wire \ {r}
  /\ journal' = Bound(r)
  /\ UNCHANGED <<checkpoint, process, finished, history>>

\* The result is saved, and with it a claim the toolbox has recorded.
SaveResult(k) ==
  /\ pc = "returned" /\ IsCurrent(k)
  /\ Mark(k, "completed", "none", result)
  /\ terminal' = Claimed
  /\ untold'   = untold \ {turn[k].call.repair}
  /\ pc' = "loop" /\ result' = Nil /\ stopping' \in BOOLEAN
  /\ UNCHANGED <<status, runs, limit, modelCalls, toolCalls, total, unknown, pending,
                 responses, preflight, attempts, toolbox, asked, handed, granted>>

\* recover_proposal: the journal is asked before any second dispatch.
AskJournal(k) ==
  /\ pc = "loop" /\ ~stopping /\ IsCurrent(k) /\ InDoubt(k) /\ ~RejectedBefore(k)
  /\ turn[k].lookup \notin Lookups
  /\ IF ToolBudgetSpent
     THEN Stop("indeterminate") /\ UNCHANGED <<toolCalls, turn>>
     ELSE /\ toolCalls' = toolCalls + 1
          /\ Mark(k, "dispatched", "dispatched", Nil)
          /\ At("looking") /\ UNCHANGED status
  /\ UNCHANGED <<runs, limit, modelCalls, total, unknown, pending, responses,
                 preflight, attempts, terminal, toolbox, history>>

\* Bug: any operation under the identifier is taken for the one proposed.
FoundByIdentifier(r) == IF journal[r.op] \in {Nil, Foreign} THEN "absent" ELSE "same"

\* get_operation hides the operations of other runs.
Found(r) ==
  IF journal[r.op] = r THEN "same"
  ELSE IF journal[r.op] \in {Nil, Foreign} THEN "absent" ELSE "other"

\* The answer of get_operation, which may be an error, is saved.
Lookup(k) ==
  LET r == turn[k].call.repair IN
  /\ pc = "looking" /\ IsCurrent(k)
  /\ \/ /\ ~finished
        /\ Mark(k, "dispatched", Found(r), Nil)
        /\ untold' = untold \ {r}
     \/ Mark(k, "dispatched", "inconclusive", Nil) /\ UNCHANGED untold
  /\ pc' = "loop" /\ result' = Nil /\ stopping' \in BOOLEAN
  /\ terminal' = Claimed
  /\ UNCHANGED <<status, runs, limit, modelCalls, toolCalls, total, unknown, pending,
                 responses, preflight, attempts, toolbox, asked, handed, granted>>

\* What the saved answer means for the proposal, in this run or the next.
Judge(k) ==
  /\ pc = "loop" /\ IsCurrent(k) /\ InDoubt(k) /\ turn[k].lookup \in Lookups
  /\ \/ turn[k].lookup = "absent" /\ Mark(k, "queued", "none", Nil) /\ At("loop")
        /\ UNCHANGED status
     \/ turn[k].lookup = "same" /\ Mark(k, "completed", "none", "operation")
        /\ At("loop") /\ UNCHANGED status
     \/ turn[k].lookup \in {"other", "inconclusive"} /\ Stop("blocked") /\ UNCHANGED turn
  /\ UNCHANGED <<runs, limit, modelCalls, toolCalls, total, unknown, pending, responses,
                 preflight, attempts, terminal, toolbox, history>>

\* interrupt_after_tool was reached by the last call.
Interrupt ==
  /\ pc = "loop" /\ stopping
  /\ \A k \in DOMAIN turn : ~(InDoubt(k) /\ turn[k].lookup \in Lookups)
  /\ Stop("interrupted")
  /\ UNCHANGED <<runs, limit, modelCalls, toolCalls, total, unknown, pending, responses,
                 preflight, turn, attempts, terminal, toolbox, history>>

\* Bug: the turn is answered but stays queued.
KeepTurn ==
  /\ pc = "loop" /\ ~stopping /\ turn # <<>>
  /\ \A k \in DOMAIN turn : turn[k].phase = "completed"
  /\ At("loop")
  /\ UNCHANGED <<checkpoint, toolbox, history>>

\* All calls completed: their results become the next message.
CloseTurn ==
  /\ pc = "loop" /\ ~stopping /\ turn # <<>>
  /\ \A k \in DOMAIN turn : turn[k].phase = "completed"
  /\ turn' = <<>> /\ At("loop")
  /\ UNCHANGED <<status, runs, limit, modelCalls, toolCalls, total, unknown, pending,
                 responses, preflight, attempts, terminal, toolbox, history>>

\* Ctrl-C inside a step that a later run goes on from: a call or a lookup not
\* yet saved before it is made, or a proposal put back in the queue with the
\* answer that was the reason still beside it.
InterruptInside(k) ==
  /\ pc = "loop" /\ IsCurrent(k) /\ ~RejectedBefore(k)
  /\ \/ /\ ~stopping /\ ~ToolBudgetSpent
        /\ IF InDoubt(k)
           THEN turn[k].lookup \notin Lookups /\ Mark(k, "dispatched", "dispatched", Nil)
           ELSE Mark(k, "dispatched", turn[k].lookup, Nil)
        /\ toolCalls' \in {toolCalls, toolCalls + 1}
     \/ /\ InDoubt(k) /\ turn[k].lookup = "absent"
        /\ Mark(k, "queued", "absent", Nil)
        /\ UNCHANGED toolCalls
  /\ status' = "error" /\ Down
  /\ UNCHANGED <<runs, limit, modelCalls, total, unknown, pending, responses,
                 preflight, attempts, terminal, toolbox, history>>

-----------------------------------------------------------------------------
ModelStep ==
  \/ Conclude \/ Preflight \/ Count \/ \E input \in Inputs : Reserve(input)
  \/ Ask \/ GenerateFails \/ ReceiveUnusable
  \/ \E usage \in Usages, t \in Turns : Receive(usage, t)

CallStep ==
  \/ \E k \in DOMAIN turn :
       \/ BlockRepair(k) \/ StartCall(k) \/ Execute(k) \/ Propose(k) \/ ProposeLate(k)
       \/ SaveResult(k) \/ AskJournal(k) \/ Lookup(k) \/ Judge(k)
  \/ Interrupt \/ CloseTurn

Step == Prelude \/ ModelStep \/ CallStep

\* What happens if Ctrl-C comes between steps only.
QuietNext ==
  \/ \E l \in Limits : Open(l)
  \/ Step \/ Raise \/ Die
  \/ \E r \in wire : Deliver(r)

Next == QuietNext \/ \E k \in DOMAIN turn : InterruptInside(k)

Spec == Init /\ [][Next]_vars

\* A live process goes on: the provider's client, the RPC channel and the
\* tools all have timeouts.  Nobody has to run the agent again.
FairSpec == Spec /\ WF_vars(Step)

-----------------------------------------------------------------------------
Entry == [call : Call, phase : {"queued", "dispatched", "completed"},
          lookup : Lookups \cup {"none", "dispatched"}, result : Results \cup {Nil}]

TypeOK ==
  /\ status \in Statuses /\ runs \in Nat
  /\ limit \in [turns : Nat, tokens : Nat]
  /\ modelCalls \in Nat /\ toolCalls \in Nat /\ total \in Nat /\ unknown \in BOOLEAN
  /\ pending \in BOOLEAN /\ responses \in Nat
  /\ preflight \in {"none", "pending", "counted", "failed"}
  /\ turn \in Seq(Entry) /\ attempts \in SUBSET Call /\ terminal \in BOOLEAN
  /\ pc \in Stages /\ result \in Results \cup {Nil} /\ stopping \in BOOLEAN
  /\ journal \in [Ops -> Repair \cup {Nil, Foreign}] /\ wire \in SUBSET Repair
  /\ finished \in BOOLEAN
  /\ asked \in Nat /\ handed \in [Repair -> Nat] /\ untold \in SUBSET Repair
  /\ granted \in SUBSET Limits

-----------------------------------------------------------------------------
(* Safety.                                                                 *)

\* What the checkpoint reports is so, also when it was pieced together after
\* a crash: an operation it reports is in the journal with the very request
\* it proposed, and a claim it reports is in the evidence log.
ReportsHold ==
  /\ \A k \in DOMAIN turn : turn[k].result = "operation" =>
       journal[turn[k].call.repair.op] = turn[k].call.repair
  /\ terminal \/ status = "completed" => finished

\* No effect without a record of its cause: what this agent got into the
\* journal, or may still get there, is an attempt in the checkpoint, whatever
\* was lost with a dead process.
EffectsAreAttempts ==
  \A r \in Repair :
    r \in wire \/ journal[r.op] = r => [tool |-> "propose_repair", repair |-> r] \in attempts

\* The checkpoint neither claims an effect that is not there nor misses one.
CheckpointIsTrue == TypeOK /\ ReportsHold /\ EffectsAreAttempts

-----------------------------------------------------------------------------
(* Action properties.                                                      *)

\* The provider gets a request once, when the checkpoint holds it as pending
\* and holds response and usage of every earlier one; over all runs a request
\* of unknown outcome is the last (run_agent's "no automatic retry").
ProviderAskedOnce ==
  [][asked' # asked =>
       /\ pending /\ ~unknown
       /\ modelCalls = asked + 1 /\ responses = asked]_vars

\* No run spends what an earlier run of the same checkpoint was not allowed:
\* requests, tool calls and tokens stay within the smallest limits so far.
BudgetsOnlyShrink ==
  [][\A l \in granted :
       /\ asked' # asked => asked' <= l.turns /\ total < l.tokens
       /\ toolCalls' # toolCalls => toolCalls' <= l.turns * MaxCallsPerTurn]_vars

\* A proposal goes to the toolbox only as the turn's next call, after every
\* earlier call of the turn was completed in the checkpoint and none of them
\* was a refused incident record (promised to the model in agent.py:469).
RepairsFollowTheirTurn ==
  [][\A r \in Repair : handed'[r] # handed[r] =>
       \E k \in DOMAIN turn :
         /\ turn[k].call.repair = r /\ turn[k].phase = "dispatched"
         /\ \A j \in 1..k - 1 : turn[j].phase = "completed" /\ turn[j].result # "rejected"]_vars

\* A proposal whose fate the checkpoint does not know is not made again: the
\* journal has answered for it first (agent.py:291, "Read the broker's
\* independent journal before any possible redispatch").
LookedUpFirst == \A r \in Repair : handed'[r] # handed[r] => r \notin untold

\* After the claim nothing more is asked of the provider or the broker.
ClaimIsLast ==
  [][finished => asked' = asked /\ handed' = handed]_vars

\* A final checkpoint is evidence: no later run changes it.
FinalStays == [][Final /\ pc = "down" => UNCHANGED checkpoint]_vars

\* Over all runs of a checkpoint: one request at a time, limits that only
\* shrink, proposals in the order of their turn, and nothing after the end.
CheckpointMovesForward ==
  /\ ProviderAskedOnce /\ BudgetsOnlyShrink /\ RepairsFollowTheirTurn
  /\ ClaimIsLast /\ FinalStays

-----------------------------------------------------------------------------
(* Liveness, under FairSpec.                                               *)

\* Every run ends: budgets stop the loop, recovery does not go in circles,
\* and no answer is waited for for ever.
EveryRunEnds == pc # "down" ~> pc = "down"

=============================================================================
