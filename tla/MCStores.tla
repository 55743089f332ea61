------------------------------ MODULE MCStores ------------------------------
(* What outlives a process beside the broker's journal, for TLC: the         *)
(* admission registry, the mailbox and the evidence log, and the authored    *)
(* actors that use the toolbox once.  A behaviour is one of one part; the    *)
(* variables of the others keep a value that means nothing.                  *)
EXTENDS ProgramRegistry, TLC

CONSTANTS v1, v2, e1, e2, o1, o2, c1, c2, i1, i2,
          Ids, MaxRuns, MaxRpc,     \* of the mailbox
          MaxCalls, MaxId           \* of the evidence log

VARIABLES part,
          posted, answered, result, boots, configured, failed, phase, process, asking,
          current, runs, outcome, opened, resumes, charged, served, since,   \* mailbox
          log, tail, quarantined, issued, callCount, terminal, pending, fresh, effects,
          kind, choices, view, operation, landed, verdicts, claim,           \* actors
          pc

Host   == INSTANCE Mailbox WITH Crashes <- TRUE
Calm   == INSTANCE Mailbox WITH Crashes <- FALSE
Log    == INSTANCE EvidenceLog WITH Faults <- FALSE, Nothing <- Nil
Faulty == INSTANCE EvidenceLog WITH Faults <- TRUE, Nothing <- Nil
Actors == INSTANCE FixedActors WITH decisions <- choices, seen <- view

ASSUME StoresAssumption == Host!MailboxAssumption /\ Log!CallsAssumption

ledger  == vars
mailbox == <<posted, answered, result, boots, configured, failed, phase, process, asking,
             current, runs, outcome, opened, resumes, charged, served, since>>
evidence == <<log, tail, quarantined, issued, callCount, terminal, pending, fresh, effects>>
actors  == <<kind, choices, view, operation, landed, verdicts, claim>>
mcvars  == <<part, ledger, mailbox, evidence, actors, pc>>

NoMailbox ==
  /\ posted = 0 /\ answered = 0 /\ result = 0 /\ boots = 0 /\ configured = 0 /\ failed = 0
  /\ phase = 0 /\ process = 0 /\ asking = 0 /\ current = 0 /\ runs = 0 /\ outcome = 0
  /\ opened = 0 /\ resumes = 0 /\ charged = 0 /\ served = 0 /\ since = 0
NoEvidence ==
  /\ log = 0 /\ tail = 0 /\ quarantined = 0 /\ issued = 0 /\ callCount = 0 /\ terminal = 0
  /\ pending = 0 /\ fresh = 0 /\ effects = 0
NoActors ==
  /\ kind = 0 /\ choices = 0 /\ view = 0 /\ operation = 0 /\ landed = 0 /\ verdicts = 0
  /\ claim = 0

MCInit ==
  /\ Init
  /\ \/ part = "ledger" /\ NoMailbox /\ NoEvidence /\ NoActors /\ pc = 0
     \/ part \in {"mailbox", "calm"} /\ Host!Init /\ NoEvidence /\ NoActors
     \/ part \in {"evidence", "faulty"} /\ Log!Init /\ NoMailbox /\ NoActors
     \/ part = "actors" /\ Actors!Init /\ NoMailbox /\ NoEvidence

MCNext ==
  /\ \/ part = "ledger" /\ Next /\ UNCHANGED <<mailbox, evidence, actors, pc>>
     \/ part = "mailbox" /\ Host!Next /\ UNCHANGED <<ledger, evidence, actors>>
     \/ part = "calm" /\ Calm!Next /\ UNCHANGED <<ledger, evidence, actors>>
     \/ part = "evidence" /\ Log!Next /\ UNCHANGED <<ledger, mailbox, actors>>
     \/ part = "faulty" /\ Faulty!Next /\ UNCHANGED <<ledger, mailbox, actors>>
     \/ part = "actors" /\ Actors!Next /\ UNCHANGED <<ledger, mailbox, evidence>>
  /\ UNCHANGED part

MCSpec == MCInit /\ [][MCNext]_mcvars

\* Suspended, resumed and abandoned by its hosts, the task gets each request
\* served at most once, for the process that asked and within the budget, and
\* the mailbox implements ChannelPromise (ax_runtime.py).
KeepsChannelPromise ==
  /\ part = "mailbox" => Host!Promise!Init
  /\ [](part = "mailbox" => Host!RequestsAreSafe)
  /\ [][part = "mailbox" => Host!StepsAreSafe /\ [Host!Promise!Next]_(Host!Promise!pvars)]_mcvars
  /\ [][part = "calm" => Calm!StepsAreSafe]_mcvars

\* Replayed after any death, the log has what it had, ends with its claim and is
\* all that a proposal may cite; with appends that fail in a process that goes on
\* it has what it had, within the budget, and is final for who knows of its claim
\* (toolbox.py).
EvidenceStands ==
  /\ [](part = "evidence" => Log!LogIsSound)
  /\ [](part = "faulty" => Faulty!LogIsSound)
  /\ [][part = "evidence" => Log!LogOnlyGrows]_mcvars
  /\ [][part = "faulty" => Faulty!LogOnlyGrows]_mcvars

\* Whatever the toolbox answers, an authored actor has one effect at most and
\* claims what it verified after it (runbook.py, desired_state.py).
ActorsRepairOnce ==
  /\ [](part = "actors" => Actors!ActorIsCareful)
  /\ [][part = "actors" => Actors!WorkingIsLeftAlone]_mcvars

Symmetry == Permutations(Episodes) \cup Permutations(Ops) \cup Permutations(Controllers)
              \cup Permutations(Versions) \cup Permutations(Ids)
=============================================================================
