----------------------------- MODULE ModelRelay -----------------------------
(***************************************************************************)
(* The host of an isolated agent: it charges each RPC of the container and *)
(* relays model requests to the provider, with its own books on disk.      *)
(* Nothing is assumed of the agent: it may ask anything in any order, and  *)
(* its checkpoint may claim anything.                                      *)
(*                                                                         *)
(* The host may die between any two steps, and a save may fail, with or    *)
(* without having replaced the file; memory then differs from disk, and    *)
(* the host goes on with what it has in memory.                            *)
(***************************************************************************)
EXTENDS Naturals

CONSTANTS
  Inputs,         \* what may be counted and generated from
  Counts,         \* token counts the provider may give an input
  Thoughts,       \* thought tokens that submitted history may carry
  Outputs,        \* output limits an agent may ask for
  Usages,         \* tokens a response may have used
  Options,        \* options of a run of the host: [turns, tokens, output]
  RpcsPerTurn,    \* 12
  MaxRuns,        \* bound: runs of the host
  None            \* no input is counted

ASSUME BooksAssumption ==
  /\ Counts \subseteq Nat /\ Thoughts \subseteq Nat /\ Outputs \subseteq Nat /\ Usages \subseteq Nat
  /\ Options \subseteq [turns : Nat, tokens : Nat, output : Nat]
  /\ RpcsPerTurn \in Nat /\ MaxRuns \in Nat
  /\ None \notin [input : Inputs, count : Counts]

VARIABLES
  disk, rpc,                     \* model-relay.json, rpc-budget.json
  pc, options, mem, counted,     \* a run of the host; counted: self.preflight
  reserved,                      \* tokens reserved for the request being made
  runs,
  asked, spent, overrun, served, granted  \* history; granted: of the runs that charged

host    == <<pc, options, mem, counted, reserved>>
history == <<asked, spent, overrun, served, granted>>
vars    == <<disk, rpc, host, runs, history>>

Books == [calls : Nat, tokens : Nat, pending : BOOLEAN, responses : Nat, counts : Nat]

\* tokens is spent as far as it is known, spent is what the provider bills.
Init ==
  /\ disk = [calls |-> 0, tokens |-> 0, pending |-> FALSE, responses |-> 0, counts |-> 0]
  /\ rpc = [count |-> 0, limit |-> 0]
  /\ pc = "down" /\ options \in Options /\ mem = disk /\ counted = None /\ reserved = 0
  /\ runs = 0
  /\ asked = 0 /\ spent = 0 /\ overrun = FALSE /\ served = 0 /\ granted = {}

\* The books in memory become b; a save that fails leaves the file old or new.
Save(b, next) == mem' = b /\ disk' = b /\ pc' = next

SaveFails(b) == mem' = b /\ disk' \in {disk, b} /\ pc' = "ready"

-----------------------------------------------------------------------------
(* Runs of the host and their RPCs.                                        *)

Open(o) ==
  /\ pc = "down" /\ runs < MaxRuns
  /\ pc' = "ready" /\ runs' = runs + 1
  /\ options' = o /\ mem' = disk /\ counted' = None /\ reserved' = 0
  /\ UNCHANGED <<disk, rpc, history>>

\* The result arrived, a deadline passed, an error was raised or the host died.
End ==
  /\ pc # "down"
  /\ pc' = "down"
  /\ UNCHANGED <<disk, rpc, options, mem, counted, reserved, runs, history>>

\* charge_rpc: the limit only shrinks; a new file takes the run's.
RpcLimit ==
  LET own == options.turns * RpcsPerTurn IN
  IF rpc.count = 0 \/ own < rpc.limit THEN own ELSE rpc.limit

\* A request of the container is charged on disk before it is served.
Charge ==
  /\ pc = "ready"
  /\ IF rpc.count >= RpcLimit
     THEN pc' = "down" /\ UNCHANGED <<rpc, served, granted>>
     ELSE /\ rpc' = [count |-> rpc.count + 1, limit |-> RpcLimit]
          /\ pc' = "serving" /\ served' = served + 1
          /\ granted' = granted \cup {options}
  /\ UNCHANGED <<disk, options, mem, counted, reserved, runs, asked, spent, overrun>>

\* A tool call, a boundary event, or a request that is refused out of hand.
ServeOther ==
  /\ pc = "serving" /\ pc' = "ready"
  /\ UNCHANGED <<disk, rpc, options, mem, counted, reserved, runs, history>>

-----------------------------------------------------------------------------
(* The model requests.                                                     *)

\* Bug: a request of unknown outcome does not matter to the next.
NothingToFear == TRUE

\* A request of unknown outcome is never followed by another.
MayAsk == ~mem.pending

CountTokens ==
  /\ pc = "serving" /\ MayAsk /\ mem.counts < options.turns * 2
  /\ LET b == [mem EXCEPT !.counts = @ + 1] IN Save(b, "counting") \/ SaveFails(b)
  /\ UNCHANGED <<rpc, options, counted, reserved, runs, history>>

\* An earlier count stays valid when the provider fails.
Counted(input) ==
  /\ pc = "counting" /\ pc' = "ready"
  /\ counted' \in {counted} \cup {[input |-> input, count |-> c] : c \in Counts}
  /\ UNCHANGED <<disk, rpc, options, mem, reserved, runs, history>>

\* Bug: what was spent before is no part of the budget.
AffordableAlone(input, output, thoughts) ==
  /\ mem.calls < options.turns
  /\ counted.count + thoughts + output <= options.tokens

\* The thoughts of history are charged again; the output is reserved whole.
Affordable(input, output, thoughts) ==
  /\ mem.calls < options.turns
  /\ mem.tokens + counted.count + thoughts + output <= options.tokens

\* The count is used up whether or not the request is accepted.
RefuseGenerate ==
  /\ pc = "serving" /\ MayAsk /\ counted # None
  /\ pc' = "ready" /\ counted' = None
  /\ UNCHANGED <<disk, rpc, options, mem, reserved, runs, history>>

\* The request is pending on disk before the provider sees it.
Generate(input, output, thoughts) ==
  /\ pc = "serving" /\ MayAsk /\ counted # None
  /\ counted.input = input /\ output \in 1..options.output
  /\ Affordable(input, output, thoughts)
  /\ counted'  = None
  /\ reserved' = counted.count + thoughts + output
  /\ LET b == [mem EXCEPT !.calls = @ + 1, !.pending = TRUE]
     IN Save(b, "asking") \/ SaveFails(b)
  /\ UNCHANGED <<rpc, options, runs, history>>

Ask ==
  /\ pc = "asking" /\ pc' = "awaiting"
  /\ asked' = asked + 1
  /\ UNCHANGED <<disk, rpc, options, mem, counted, reserved, runs, spent, overrun, served, granted>>

\* No response, or none with usage: the request stays pending for ever,
\* whatever the provider did with it.
Fail(usage) ==
  /\ pc = "awaiting" /\ pc' \in {"ready", "down"}
  /\ spent' = spent + usage
  /\ UNCHANGED <<disk, rpc, options, mem, counted, reserved, runs, asked, overrun, served, granted>>

\* record: the response, also one that came with an error, closes the request.
Record(usage) ==
  /\ pc = "awaiting"
  /\ LET b == [mem EXCEPT !.responses = @ + 1, !.tokens = @ + usage, !.pending = FALSE] IN
     \/ Save(b, IF usage > reserved THEN "overrun" ELSE "ready")
     \/ SaveFails(b)
  /\ spent' = spent + usage
  /\ overrun' = (overrun \/ usage > reserved)
  /\ UNCHANGED <<rpc, options, counted, reserved, runs, asked, served, granted>>

\* Bug: an overrun is reported, but not remembered.
ReportOverrun ==
  /\ pc = "overrun" /\ pc' = "ready"
  /\ UNCHANGED <<disk, rpc, options, mem, counted, reserved, runs, history>>

\* The second save of record: pending for ever, to fail closed.
MarkOverrun ==
  /\ pc = "overrun"
  /\ LET b == [mem EXCEPT !.pending = TRUE] IN Save(b, "ready") \/ SaveFails(b)
  /\ UNCHANGED <<rpc, options, counted, reserved, runs, history>>

-----------------------------------------------------------------------------
Next ==
  \/ \E o \in Options : Open(o)
  \/ End \/ Charge \/ ServeOther
  \/ CountTokens \/ \E input \in Inputs : Counted(input)
  \/ RefuseGenerate
  \/ \E input \in Inputs, output \in Outputs, thoughts \in Thoughts : Generate(input, output, thoughts)
  \/ Ask \/ MarkOverrun
  \/ \E usage \in Usages : Fail(usage) \/ Record(usage)

Spec == Init /\ [][Next]_vars

\* A step at which the two saves of an overrun do not come apart: neither fails,
\* and the host lives until the second.
OverrunIsWhole ==
  /\ overrun' # overrun => pc' = "overrun"
  /\ pc = "overrun" => pc' = "ready" /\ disk' = mem'

-----------------------------------------------------------------------------
TypeOK ==
  /\ disk \in Books /\ rpc \in [count : Nat, limit : Nat]
  /\ pc \in {"down", "ready", "serving", "counting", "asking", "awaiting", "overrun"}
  /\ options \in Options /\ mem \in Books /\ reserved \in Nat
  /\ counted \in [input : Inputs, count : Counts] \cup {None}
  /\ runs \in Nat /\ asked \in Nat /\ spent \in Nat /\ served \in Nat
  /\ overrun \in BOOLEAN /\ granted \subseteq Options

\* The provider gets one request at a time, each when the responses to all
\* earlier ones are on disk, whatever the agent asks for and whenever the host
\* dies (ModelRelay: "Uncertain provider request cannot be retried").
Promise == INSTANCE ProviderPromise WITH answered <- disk.responses
KeepsPromise == Promise!Spec

\* When a request is sent, the books on disk hold all that the provider has
\* billed so far, and with the reservation it is within the run's limit.
SpendingIsKnown ==
  [][asked' # asked => spent = disk.tokens /\ spent + reserved <= options.tokens]_vars

\* The container is served no more often than any run of the host that
\* charged for it allows, over all restarts (test_rpc_budget_survives_new_process_and_cannot_increase).
RpcsWithinEveryLimit ==
  [][served' # served => \A o \in granted : served' <= o.turns * RpcsPerTurn]_vars

\* Neither tokens nor RPCs exceed a limit, whatever a dead host left behind.
BudgetsHold == []TypeOK /\ SpendingIsKnown /\ RpcsWithinEveryLimit

\* A provider that used more than was reserved is not asked again (record:
\* "fail closed on provider accounting overrun").
NotAskedAgain == overrun => asked' = asked
=============================================================================
