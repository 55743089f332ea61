------------------------------ MODULE Mailbox ------------------------------
(***************************************************************************)
(* An agent in an AX task talks to its host through files in a durable     *)
(* workspace (mailbox.py, ax_runtime.py).  The guest process publishes     *)
(* requests and polls for responses; the host polls for requests, serves   *)
(* them and uploads responses.  A later run of the host suspends and       *)
(* resumes the task, which replaces the guest process and keeps the files. *)
(* A boot is named by its position in agent-boots.json.                    *)
(***************************************************************************)
EXTENDS Naturals, Sequences, FiniteSets

CONSTANTS Ids,        \* identities of requests (uuids: never reused)
          Nil,        \* no request
          MaxRuns,    \* bound: runs of the host
          MaxRpc,     \* the durable RPC budget, max_turns * 12
          Crashes     \* whether a run that did not return is followed by one

MailboxAssumption == Nil \notin Ids /\ MaxRpc \in Nat /\ MaxRuns \in Nat

VARIABLES
  \* the durable workspace of the task
  posted,      \* [Ids -> Nat]: boot that published the request, 0 if none
  answered,    \* requests with a response file
  result,      \* boot that published result.json, 0 if there is none
  boots,       \* length of agent-boots.json
  configured,  \* config.json is there
  failed,      \* agent-error.json is there
  \* the task and its process
  phase,       \* "absent", "Running", "Suspended"
  process,     \* where the guest process is
  asking,      \* the request its caller waits for
  \* the host
  pc, current, runs, outcome,
  opened,      \* ax-session.json is there
  resumes,     \* its list of transitions
  charged,     \* rpc-budget.json
  \* histories
  served,      \* [Ids -> Nat]: how often the host executed it
  since        \* run that began the last transition

workspace == <<posted, answered, result, boots, configured, failed>>
guest == <<process, asking>>
session == <<opened, resumes, since>>
vars == <<workspace, guest, phase, pc, current, runs, outcome, session, charged, served>>

TypeOK ==
  /\ posted \in [Ids -> Nat] /\ answered \subseteq Ids /\ result \in Nat
  /\ boots \in Nat /\ configured \in BOOLEAN /\ failed \in BOOLEAN
  /\ phase \in {"absent", "Running", "Suspended"}
  /\ process \in {"none", "starting", "configuring", "running", "waiting", "ended", "dead", "refused"}
  /\ asking \in Ids \cup {Nil} /\ current \in Ids \cup {Nil}
  /\ pc \in {"down", "apply", "save", "ready", "configure", "reconfigure", "unlink", "begin",
             "suspend", "suspended", "resume", "complete", "poll", "charge", "serve",
             "respond", "collect"}
  /\ runs \in Nat /\ charged \in Nat /\ since \in Nat
  /\ outcome \in {"none", "returned", "indeterminate", "unreconstructed", "failed"}
  /\ opened \in BOOLEAN /\ resumes \in Seq({"started", "suspended", "complete"})
  /\ served \in [Ids -> Nat]

Init ==
  /\ posted = [i \in Ids |-> 0] /\ answered = {} /\ result = 0 /\ boots = 0
  /\ configured = FALSE /\ failed = FALSE
  /\ phase = "absent" /\ process = "none" /\ asking = Nil
  /\ pc = "down" /\ current = Nil /\ runs = 0 /\ outcome = "none"
  /\ opened = FALSE /\ resumes = <<>> /\ charged = 0
  /\ served = [i \in Ids |-> 0] /\ since = 0

\* Processes whose boot is not in agent-boots.json.
Unbooted == {"none", "starting", "configuring", "refused"}

\* One boot for the task and one for each transition.
Expected == Len(resumes) + 1
Incomplete == \E k \in DOMAIN resumes : resumes[k] # "complete"
---------------------------------------------------------------------------
(* The guest process.  It runs only while the task does. *)

hostVars == <<pc, current, runs, outcome, session, charged, served, phase>>

\* Boundary checks and the mailbox directory.
GuestStarts ==
  /\ phase = "Running" /\ process = "starting"
  /\ \/ process' = "configuring" /\ UNCHANGED failed
     \/ process' = "refused" /\ failed' = TRUE
  /\ UNCHANGED <<hostVars, asking, posted, answered, result, boots, configured>>

GuestBoots ==
  /\ phase = "Running" /\ process = "configuring" /\ configured
  /\ boots' = boots + 1
  /\ process' = "running"
  /\ UNCHANGED <<hostVars, asking, posted, answered, result, configured, failed>>

GuestAsks(i) ==
  /\ phase = "Running" /\ process = "running" /\ posted[i] = 0
  /\ posted' = [posted EXCEPT ![i] = boots]
  /\ process' = "waiting" /\ asking' = i
  /\ UNCHANGED <<hostVars, answered, result, boots, configured, failed>>

\* The call returns with the response, or after its deadline without one.
GuestReturns ==
  /\ phase = "Running" /\ process = "waiting"
  /\ process' = "running" /\ asking' = Nil
  /\ UNCHANGED <<hostVars, workspace>>

GuestFinishes ==
  /\ phase = "Running" /\ process = "running"
  /\ result' = boots /\ process' = "ended"
  /\ UNCHANGED <<hostVars, asking, posted, answered, boots, configured, failed>>

GuestFails ==
  /\ phase = "Running" /\ process = "running"
  /\ failed' = TRUE /\ process' = "dead"
  /\ UNCHANGED <<hostVars, asking, posted, answered, result, boots, configured>>
---------------------------------------------------------------------------
(* The host's first run: create the task, then its configuration. *)

Goto(label) == pc' = label /\ UNCHANGED <<runs, outcome, current>>

Stop(how) == pc' = "down" /\ outcome' = how /\ current' = Nil /\ UNCHANGED runs

MayResume == opened => ~Incomplete

HostOpens ==
  /\ pc = "down" /\ runs < MaxRuns
  /\ runs = 0 \/ outcome = "returned" \/ Crashes
  /\ runs' = runs + 1 /\ current' = Nil
  /\ IF MayResume
     THEN pc' = (IF opened THEN "reconfigure" ELSE "apply") /\ outcome' = "none"
     ELSE pc' = "down" /\ outcome' = "indeterminate"
  /\ UNCHANGED <<workspace, guest, phase, session, charged, served>>

Apply ==
  /\ pc = "apply"
  /\ phase' = "Running"
  /\ process' = IF phase = "absent" THEN "starting" ELSE process
  /\ Goto("save")
  /\ UNCHANGED <<workspace, asking, session, charged, served>>

SaveSession ==
  /\ pc = "save"
  /\ opened' = TRUE /\ resumes' = <<>>
  /\ Goto("ready")
  /\ UNCHANGED <<workspace, guest, phase, since, charged, served>>

\* An agent-error.json or the 30 seconds' deadline end the run.
MailboxReady ==
  /\ pc = "ready"
  /\ \/ ~failed /\ process # "starting" /\ Goto("configure")
     \/ Stop("failed")
  /\ UNCHANGED <<workspace, guest, phase, session, charged, served>>

\* ax.write: the upload becomes config.json by one rename.
Configure ==
  /\ pc \in {"configure", "reconfigure"}
  /\ configured' = TRUE
  /\ Goto(IF pc = "configure" THEN "poll" ELSE "unlink")
  /\ UNCHANGED <<posted, answered, result, boots, failed, guest, phase, session, charged, served>>
---------------------------------------------------------------------------
(* A later run: suspend and resume, the intent journalled before each.     *)

Unlink ==
  /\ pc = "unlink"
  /\ result' = 0
  /\ Goto("begin")
  /\ UNCHANGED <<posted, answered, boots, configured, failed, guest, phase, session, charged, served>>

BeginTransition ==
  /\ pc = "begin"
  /\ resumes' = Append(resumes, "started") /\ since' = runs
  /\ Goto("suspend")
  /\ UNCHANGED <<workspace, guest, phase, opened, charged, served>>

Suspend ==
  /\ pc = "suspend"
  /\ phase' = "Suspended" /\ process' = "none" /\ asking' = Nil
  /\ Goto("suspended")
  /\ UNCHANGED <<workspace, session, charged, served>>

Mark(k, state) == resumes' = [resumes EXCEPT ![k] = state]

SuspensionSaved ==
  /\ pc = "suspended"
  /\ Mark(Len(resumes), "suspended") /\ Goto("resume")
  /\ UNCHANGED <<workspace, guest, phase, opened, since, charged, served>>

\* A fresh process over the same files.
Resume ==
  /\ pc = "resume"
  /\ phase' = "Running" /\ process' = "starting"
  /\ Goto("complete")
  /\ UNCHANGED <<workspace, asking, session, charged, served>>

TransitionSaved ==
  /\ pc = "complete"
  /\ Mark(Len(resumes), "complete") /\ Goto("poll")
  /\ UNCHANGED <<workspace, guest, phase, opened, since, charged, served>>
---------------------------------------------------------------------------
(* The polling loop. *)

\* Bug: requests of an earlier boot are read too.
OfAnyBoot == {i \in Ids \ answered : posted[i] # 0}

Pending == {i \in Ids \ answered : posted[i] # 0 /\ posted[i] = boots}

\* The script of one poll, run inside the task as one command.
Poll ==
  /\ pc = "poll"
  /\ \/ failed /\ Stop("failed")
     \/ ~failed /\ result # 0 /\ Goto("collect")
     \/ ~failed /\ result = 0 /\ boots > Expected /\ Stop("failed")
     \/ /\ ~failed /\ result = 0 /\ boots = Expected
        /\ \E i \in Pending : current' = i
        /\ pc' = "charge" /\ UNCHANGED <<runs, outcome>>
  /\ UNCHANGED <<workspace, guest, phase, session, charged, served>>

Charge ==
  /\ pc = "charge"
  /\ IF charged < MaxRpc THEN charged' = charged + 1 /\ Goto("serve")
                         ELSE UNCHANGED charged /\ Stop("failed")
  /\ UNCHANGED <<workspace, guest, phase, session, served>>

\* toolbox.call or relay.call; an exception is a response too.
Serve ==
  /\ pc = "serve"
  /\ served' = [served EXCEPT ![current] = @ + 1]
  /\ Goto("respond")
  /\ UNCHANGED <<workspace, guest, phase, session, charged>>

Respond ==
  /\ pc = "respond"
  /\ answered' = answered \cup {current}
  /\ pc' = "poll" /\ current' = Nil /\ UNCHANGED <<runs, outcome>>
  /\ UNCHANGED <<posted, result, boots, configured, failed, guest, phase, session, charged, served>>

\* The result counts only if exactly one fresh process per transition booted.
Collect ==
  /\ pc = "collect"
  /\ Stop(IF boots = Expected THEN "returned" ELSE "unreconstructed")
  /\ UNCHANGED <<workspace, guest, phase, session, charged, served>>

\* A command of AX that fails, a deadline, or the end of the host's process.
HostStops ==
  /\ pc # "down"
  /\ Stop("failed")
  /\ UNCHANGED <<workspace, guest, phase, session, charged, served>>

GuestStep == \/ GuestStarts \/ GuestBoots \/ GuestReturns \/ GuestFinishes \/ GuestFails
             \/ \E i \in Ids : GuestAsks(i)

HostStep == \/ Apply \/ SaveSession \/ MailboxReady \/ Configure \/ Unlink \/ BeginTransition
            \/ Suspend \/ SuspensionSaved \/ Resume \/ TransitionSaved
            \/ Poll \/ Charge \/ Serve \/ Respond \/ Collect

Next == GuestStep \/ HostOpens \/ HostStep \/ HostStops
---------------------------------------------------------------------------
(* Properties: of states, and of steps. *)

\* The host executes a request at most once, over all its runs, whether or
\* not its response arrived (ax_runtime.py:171 reads unanswered requests).
ServedOnce == \A i \in Ids : served[i] <= 1

\* What is executed was asked by the process that runs now: requests that an
\* earlier boot left in the workspace are dead (ax_runtime.py:172).
OnlyThisBoot ==
  \A i \in Ids : served'[i] # served[i] => posted[i] = boots /\ process \notin Unbooted

\* A transition that a stopped run left half done is never tried again, and
\* nothing else is done to the task (ax_runtime.py:138).
InterruptedTransitionStays ==
  Incomplete /\ since # runs =>
    UNCHANGED <<phase, configured, resumes, charged, served, answered>>

\* The durable budget covers every execution, counting those whose response
\* was lost with their host (ax_runtime.py:205).
ChargedBeforeServed ==
  Cardinality({i \in Ids : served[i] > 0}) <= charged /\ charged <= MaxRpc

\* The result that is returned was published by the process of the last
\* transition (ax_runtime.py:141).  After a crash of the host it need not be.
ReturnedIsCurrent ==
  ~Crashes /\ outcome' = "returned" /\ outcome # "returned" => result = Expected

RequestsAreSafe == TypeOK /\ ServedOnce /\ ChargedBeforeServed
StepsAreSafe == OnlyThisBoot /\ InterruptedTransitionStays /\ ReturnedIsCurrent

Stage(i) == IF posted[i] = 0 THEN "unsent"
            ELSE IF i \in answered THEN "answered"
            ELSE IF served[i] > 0 THEN "served" ELSE "asked"

\* Over suspensions and crashes of the host the mailbox keeps its promise.
Promise == INSTANCE ChannelPromise WITH
  stage <- [i \in Ids |-> Stage(i)],
  open <- IF process \in Unbooted THEN {}
          ELSE {i \in Ids : posted[i] # 0 /\ posted[i] = boots}
===========================================================================
