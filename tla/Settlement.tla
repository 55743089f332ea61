----------------------------- MODULE Settlement -----------------------------
(***************************************************************************)
(* Measuring two real services in batches (request_settlement): Quote asks *)
(* Inventory, Inventory reads the database, and callers may give up on     *)
(* either while it works on.  Each service admits requests only in the     *)
(* open epoch of its own instance; the controller opens both, offers a     *)
(* batch, shuts both fences, and changes the database for the next batch   *)
(* only when both ledgers and the database say that nothing is left.       *)
(***************************************************************************)
EXTENDS Naturals, FiniteSets

CONSTANTS
    Ids,        \* the requests of a batch
    MaxEpoch,   \* bound: batches
    MaxFaults   \* bound: crashes of a service and repeated requests

SettlementAssumption == MaxEpoch \in Nat \ {0} /\ MaxFaults \in Nat

Services == {"quote", "inventory"}
Epochs == 1 .. MaxEpoch

VARIABLES
    gate,       \* the services: each one's process and its ledger
    born,       \* instance identities given so far
    wire,       \* requests on their way
    calls,      \* Quote's handlers at work
    workers,    \* Inventory's handlers at work
    sessions,   \* Inventory's sessions, as the database sees them
    client,     \* the callers of the batch: what each has seen
    ctl,        \* the controller and the receipts it has read
    conditions, \* the batch the database is set up for
    accepted,   \* per settled epoch, the ledgers that were accepted
    ran,        \* history: how often a handler ran a request
    faults

services == <<gate, born, wire, calls, workers, sessions, ran>>
controller == <<ctl, conditions, accepted>>
vars == <<services, client, controller, faults>>

Fresh(instance, downstream) ==
    [up |-> TRUE, instance |-> instance, epoch |-> 0, closed |-> TRUE, downstream |-> downstream,
     active |-> {}, done |-> {}]
\* The identities the controller met when it started the services.
instances == [quote |-> 1, inventory |-> 2]

Init ==
    /\ gate = [s \in Services |-> Fresh(instances[s], 0)] /\ born = 2
    /\ wire = {} /\ calls = {} /\ workers = {} /\ sessions = {}
    /\ client = [i \in Ids |-> "unsent"] /\ ctl = [at |-> "next", epoch |-> 0, seen |-> gate]
    /\ conditions = 0 /\ accepted = {} /\ faults = MaxFaults
    /\ ran = [s \in Services |-> [e \in Epochs |-> [i \in Ids |-> 0]]]

---------------------------------------------------------------------------
(* The services: services.Gate around quote.quote and inventory.inventory. *)

\* Bug: the fence is only looked at when an epoch is opened.
FenceIgnored(s) == TRUE
FenceUp(s) == ~gate[s].closed
IsNew(s, i) == i \notin gate[s].active \cup gate[s].done
Admits(s, m) ==
    /\ m.instance = gate[s].instance /\ m.epoch = gate[s].epoch
    /\ FenceUp(s) /\ IsNew(s, m.id)
Admit(s, m) ==
    /\ gate' = [gate EXCEPT ![s].active = @ \cup {m.id}]
    /\ ran' = [ran EXCEPT ![s][m.epoch][m.id] = @ + 1]
Finish(s, h) == gate' = [gate EXCEPT ![s].active = @ \ {h.id}, ![s].done = @ \cup {h.id}]

Arrives(s, m) == m \in wire /\ m.to = s /\ gate[s].up /\ wire' = wire \ {m}
Hears(i, status) == client' = [client EXCEPT ![i] = IF @ = "sent" THEN status ELSE @]

Refusal == "conflict"
AdmitQuote(m) ==
    /\ Arrives("quote", m)
    /\ \/ /\ Admits("quote", m) /\ Admit("quote", m) /\ UNCHANGED client
          /\ calls' = calls \cup {[epoch |-> m.epoch, id |-> m.id, stage |-> "forward"]}
       \/ ~Admits("quote", m) /\ Hears(m.id, Refusal) /\ UNCHANGED <<gate, calls, ran>>
    /\ UNCHANGED <<born, workers, sessions, controller, faults>>
\* The request to Inventory names the instance the epoch was opened with.
Forward(h) ==
    /\ h \in calls /\ h.stage = "forward"
    /\ calls' = (calls \ {h}) \cup {[h EXCEPT !.stage = "waiting"]}
    /\ wire' = wire \cup {[to |-> "inventory", instance |-> gate["quote"].downstream, epoch |-> h.epoch, id |-> h.id]}
    /\ UNCHANGED <<gate, born, workers, sessions, client, controller, ran, faults>>
\* Quote answers; it gives up on Inventory after its timeout, on a refusal and
\* on an error alike.
FinishQuote(h) ==
    /\ h \in calls /\ h.stage \in {"waiting", "answered"}
    /\ calls' = calls \ {h} /\ Finish("quote", h)
    /\ \/ h.stage = "answered" /\ Hears(h.id, "ok")
       \/ Hears(h.id, "unavailable")
    /\ UNCHANGED <<born, wire, workers, sessions, controller, ran, faults>>
\* A request waits for one of the threads before it comes to the fence.
AdmitInventory(m) ==
    /\ Arrives("inventory", m)
    /\ \/ /\ Admits("inventory", m) /\ Admit("inventory", m)
          /\ workers' = workers \cup {[epoch |-> m.epoch, id |-> m.id, stage |-> "connect"]}
       \/ ~Admits("inventory", m) /\ UNCHANGED <<gate, workers, ran>>
    /\ UNCHANGED <<born, calls, sessions, client, controller, faults>>
Session(w) == [epoch |-> w.epoch, id |-> w.id]
Connect(w) ==
    /\ w \in workers /\ w.stage = "connect"
    /\ workers' = (workers \ {w}) \cup {[w EXCEPT !.stage = "read"]}
    /\ sessions' = sessions \cup {Session(w)}
    /\ UNCHANGED <<gate, born, wire, calls, client, controller, ran, faults>>
\* The connection is closed; the database may end the session later.  At the
\* limit of connections there is none.
FinishInventory(w) ==
    /\ w \in workers /\ workers' = workers \ {w} /\ Finish("inventory", w)
    /\ sessions' \in {sessions, sessions \ {Session(w)}}
    /\ calls' = {IF w.stage = "read" /\ h.id = w.id /\ h.epoch = w.epoch /\ h.stage = "waiting"
                 THEN [h EXCEPT !.stage = "answered"] ELSE h : h \in calls}
    /\ UNCHANGED <<born, wire, client, controller, ran, faults>>
SessionEnds(x) ==
    /\ x \in sessions /\ (\A w \in workers : Session(w) # x) /\ sessions' = sessions \ {x}
    /\ UNCHANGED <<gate, born, wire, calls, workers, client, controller, ran, faults>>

Handlers ==
    \/ \E m \in wire : AdmitQuote(m) \/ AdmitInventory(m)
    \/ \E h \in calls : Forward(h) \/ FinishQuote(h)
    \/ \E w \in workers : Connect(w) \/ FinishInventory(w)
    \/ \E x \in sessions : SessionEnds(x)

\* A process dies with its ledger and its handlers, and another one may be
\* started in its place.
Crash(s) ==
    /\ gate[s].up /\ faults > 0 /\ faults' = faults - 1
    /\ gate' = [gate EXCEPT ![s].up = FALSE, ![s].active = {}, ![s].done = {}]
    /\ calls' = (IF s = "quote" THEN {} ELSE calls)
    /\ workers' = (IF s = "inventory" THEN {} ELSE workers)
    /\ UNCHANGED <<born, wire, sessions, client, controller, ran>>
Restart(s) ==
    /\ ~gate[s].up /\ born' = born + 1 /\ gate' = [gate EXCEPT ![s] = Fresh(born + 1, 0)]
    /\ UNCHANGED <<wire, calls, workers, sessions, client, controller, ran, faults>>

---------------------------------------------------------------------------
(* The callers: opportunity.batch, probe.request. *)

Request(i) == [to |-> "quote", instance |-> instances["quote"], epoch |-> ctl.epoch, id |-> i]
Dispatch(i) ==
    /\ ctl.at = "batch" /\ client[i] = "unsent" /\ client' = [client EXCEPT ![i] = "sent"]
    /\ wire' = wire \cup {Request(i)}
    /\ UNCHANGED <<gate, born, calls, workers, sessions, controller, ran, faults>>
IsWaiting(i) == client[i] = "sent"
GiveUp(i) ==
    /\ IsWaiting(i) /\ client' = [client EXCEPT ![i] = "lost"]
    /\ UNCHANGED <<services, controller, faults>>
\* The same request once more, whatever became of the first.
Repeat(i) ==
    /\ ctl.at = "batch" /\ client[i] \notin {"unsent", "sent"} /\ faults > 0 /\ faults' = faults - 1
    /\ wire' = wire \cup {Request(i)}
    /\ UNCHANGED <<gate, born, calls, workers, sessions, client, controller, ran>>

---------------------------------------------------------------------------
(* The controller: opportunity.run with harness.Services. *)

At(step) == ctl.at = step
Goes(step) == ctl' = [ctl EXCEPT !.at = step]
OnlyController == UNCHANGED <<services, client, faults>>

\* The quota and the delay of the next batch are put in place.
Configure ==
    /\ At("next") /\ UNCHANGED <<services, accepted, faults>>
    /\ \/ /\ ctl.epoch < MaxEpoch /\ conditions' = conditions + 1
          /\ ctl' = [ctl EXCEPT !.at = "open inventory", !.epoch = @ + 1]
          /\ client' = [i \in Ids |-> "unsent"]
       \/ ctl.epoch = MaxEpoch /\ Goes("done") /\ UNCHANGED <<conditions, client>>

\* A service that is down, or that refuses, ends the run.
Opens(s) ==
    /\ gate[s].up /\ gate[s].instance = instances[s] /\ ctl.epoch = gate[s].epoch + 1
    /\ gate[s].closed /\ gate[s].active = {}
OpenAt(s, step, next) ==
    /\ At(step) /\ UNCHANGED <<born, wire, calls, workers, sessions, ran, client, conditions, accepted, faults>>
    /\ IF Opens(s)
       THEN /\ Goes(next)
            /\ gate' = [gate EXCEPT ![s].epoch = ctl.epoch, ![s].closed = FALSE, ![s].done = {},
                                    ![s].downstream = IF s = "quote" THEN instances["inventory"] ELSE 0]
       ELSE Goes("failed") /\ UNCHANGED gate
EndBatch ==
    /\ At("batch") /\ (\A i \in Ids : client[i] # "sent") /\ Goes("close quote")
    /\ OnlyController /\ UNCHANGED <<conditions, accepted>>
CloseAt(s, step, next) ==
    /\ At(step) /\ UNCHANGED <<born, wire, calls, workers, sessions, ran, client, conditions, accepted, faults>>
    /\ IF gate[s].up /\ gate[s].instance = instances[s] /\ gate[s].epoch = ctl.epoch
       THEN Goes(next) /\ gate' = [gate EXCEPT ![s].closed = TRUE]
       ELSE Goes("failed") /\ UNCHANGED gate
ReadAt(s, step, next) ==
    /\ At(step) /\ OnlyController /\ UNCHANGED <<conditions, accepted>>
    /\ IF gate[s].up THEN ctl' = [ctl EXCEPT !.at = next, !.seen[s] = gate[s]] ELSE Goes("failed")

dispatched == {i \in Ids : client[i] # "unsent"}
known == {i \in Ids : client[i] \in {"ok", "unavailable"}}
known_downstream == {i \in Ids : client[i] = "ok"}

\* Bug: an instance is as good as another at the same epoch.
SameEpoch(s) == TRUE
SameInstance(s) == ctl.seen[s].instance = instances[s] /\ ctl.seen[s].epoch = ctl.epoch
Ledger(s) == ctl.seen[s].done
settled ==
    /\ \A s \in Services : SameInstance(s) /\ ctl.seen[s].closed /\ Ledger(s) \subseteq dispatched
    /\ ctl.seen["quote"].downstream = instances["inventory"]
    /\ known \subseteq Ledger("quote") /\ Ledger("inventory") \subseteq Ledger("quote")
    /\ known_downstream \subseteq Ledger("inventory")
AllFinished == \A s \in Services : ctl.seen[s].active = {}
Judge ==
    /\ At("judge") /\ OnlyController /\ UNCHANGED <<conditions, accepted>>
    /\ \/ (\E s \in Services : ~SameInstance(s) \/ ~ctl.seen[s].closed) /\ Goes("failed")
       \/ /\ \A s \in Services : SameInstance(s) /\ ctl.seen[s].closed
          /\ \/ ~AllFinished /\ Goes("read quote")
             \/ AllFinished /\ ~settled /\ Goes("refused")
             \/ AllFinished /\ settled /\ Goes("readers")
NoReaders == sessions = {}
CheckReaders ==
    /\ At("readers") /\ OnlyController /\ UNCHANGED conditions
    /\ IF NoReaders
       THEN /\ Goes("next")
            /\ accepted' = accepted \cup {[epoch |-> ctl.epoch, ledger |-> [s \in Services |-> Ledger(s)]]}
       ELSE Goes("read quote") /\ UNCHANGED accepted
WaitEnds ==
    /\ ctl.at \in {"read quote", "read inventory", "judge", "readers"} /\ Goes("failed")
    /\ OnlyController /\ UNCHANGED <<conditions, accepted>>

Controller ==
    \/ Configure \/ OpenAt("inventory", "open inventory", "open quote") \/ OpenAt("quote", "open quote", "batch")
    \/ EndBatch \/ CloseAt("quote", "close quote", "close inventory")
    \/ CloseAt("inventory", "close inventory", "read quote")
    \/ ReadAt("quote", "read quote", "read inventory") \/ ReadAt("inventory", "read inventory", "judge")
    \/ Judge \/ CheckReaders

\* The run is over, or the batch waits for its callers.
Waits == ctl.at \in {"batch", "done", "failed", "refused"} /\ UNCHANGED vars
Next ==
    \/ Handlers \/ Controller \/ WaitEnds \/ Waits
    \/ \E s \in Services : Crash(s) \/ Restart(s)
    \/ \E i \in Ids : Dispatch(i) \/ GiveUp(i) \/ Repeat(i)

---------------------------------------------------------------------------
(* Properties. *)

TypeOK ==
    /\ \A s \in Services : gate[s].active \cap gate[s].done = {} /\ gate[s].instance \in 1 .. born
    /\ ctl.epoch = conditions /\ conditions \in 0 .. MaxEpoch /\ faults \in 0 .. MaxFaults
    /\ \A i \in Ids : client[i] \in {"unsent", "sent", "ok", "unavailable", "conflict", "lost"}
    /\ \A s \in Services, e \in Epochs, i \in Ids : ran[s][e][i] \in Nat

\* Nothing of a settled batch is left or comes later: no handler of either
\* service and no session, though callers gave up and requests still travel.
SettledIsQuiet ==
    \A x \in calls \cup workers \cup sessions : \A a \in accepted : x.epoch # a.epoch

\* The accepted ledgers name exactly the requests that ran: a process that died
\* is never taken for one that had nothing to do.
SettlementIsHonest ==
    \A a \in accepted : \A s \in Services : a.ledger[s] = {i \in Ids : ran[s][a.epoch][i] > 0}

\* docs/LEARNING_SETTLEMENT.md "A duplicate identity never executes twice":
\* over all instances of a service.
AdmittedOnce == \A s \in Services, e \in Epochs, i \in Ids : ran[s][e][i] <= 1

\* What a caller sees tells of admission: 503 of Quote's, 200 of Inventory's too.
AnswersAreBacked ==
    \A i \in Ids :
        /\ client[i] \in {"ok", "unavailable"} => ran["quote"][ctl.epoch][i] > 0
        /\ client[i] = "ok" => ran["inventory"][ctl.epoch][i] > 0

\* The audit refuses nothing these services produce, crashes included: what it
\* refuses was altered.
AuditAcceptsHonest == ctl.at # "refused"

\* Two fences, two ledgers and a database keep the promise of one.
Fenced == INSTANCE FencedReads WITH
    open <- gate["inventory"].up /\ ~gate["inventory"].closed,
    reads <- {<<x.epoch, x.id>> : x \in workers \cup sessions}
KeepsFence == [Fenced!Next]_(Fenced!vars)

Ended == ctl.at \in {"done", "failed", "refused"}
\* Settled means quiet, and the ledgers and answers tell what ran.
SettlementIsSound ==
    /\ TypeOK /\ SettledIsQuiet /\ SettlementIsHonest /\ AdmittedOnce /\ AnswersAreBacked
    /\ AuditAcceptsHonest
=============================================================================
