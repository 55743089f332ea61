---------------------------- MODULE MCLifecycle ----------------------------
(* The processes that must end, for TLC: a persistent campaign with its      *)
(* owner, workers and janitor, the observer's calendar, and a study as a     *)
(* systemd unit.  A behaviour is one of one part; the variables of the       *)
(* others keep a value that means nothing.                                   *)
EXTENDS Naturals

CONSTANT Parts      \* the parts a run explores

VARIABLES part,
          owner, janitor, launch, ws, table, disk, cluster, creating, clock, sweep, astray, budget,
          now, healthy, sick, observer, samples, left,
          unit, again, at, claim, run, docker, credential, lingers, post, receipt,
          sidecar, gate, entered, refused, stops, faults

campaign == <<owner, janitor, launch, ws, table, disk, cluster, creating, clock, sweep, astray, budget>>
calendar == <<now, healthy, sick, observer, samples, left>>
service  == <<unit, again, at, claim, run, docker, credential, lingers, post, receipt,
              sidecar, gate, entered, refused, stops, faults>>
vars == <<part, campaign, calendar, service>>

\* One command that starts an operator; workers, owner and a cleanup may fail.
Campaign ==
  INSTANCE CampaignLifecycle WITH
    Launchers <- {"command"}, MaxOperatorStarts <- 1, Pids <- 1..2, Kills <- 1,
    OwnerDeaths <- 1, OrphanCreate <- FALSE, Expires <- FALSE, Faults <- 1, PromptReuse <- FALSE
\* The owner outlives its lease, and cleans up together with the janitor.
Lease ==
  INSTANCE CampaignLifecycle WITH
    Launchers <- {"command"}, MaxOperatorStarts <- 1, Pids <- 1..2, Kills <- 0,
    OwnerDeaths <- 0, OrphanCreate <- FALSE, Expires <- TRUE, Faults <- 1, PromptReuse <- FALSE
\* A killed operator is replaced while identifiers are scarce and recycled.
Restart ==
  INSTANCE CampaignLifecycle WITH
    Launchers <- {"command"}, MaxOperatorStarts <- 2, Pids <- 1..2, Kills <- 1,
    OwnerDeaths <- 0, OrphanCreate <- FALSE, Expires <- FALSE, Faults <- 0, PromptReuse <- FALSE
\* No cleanup raises: the janitor tries it once only.
Ends ==
  INSTANCE CampaignLifecycle WITH
    Launchers <- {"command"}, MaxOperatorStarts <- 1, Pids <- 1..2, Kills <- 1,
    OwnerDeaths <- 1, OrphanCreate <- FALSE, Expires <- FALSE, Faults <- 0, PromptReuse <- FALSE
\* The kind command may outlive the owner that was killed while it waited.
Orphan ==
  INSTANCE CampaignLifecycle WITH
    Launchers <- {"command"}, MaxOperatorStarts <- 1, Pids <- 1..2, Kills <- 0,
    OwnerDeaths <- 1, OrphanCreate <- TRUE, Expires <- TRUE, Faults <- 0, PromptReuse <- FALSE

Observer == INSTANCE SampleCalendar WITH Slots <- 2, Interval <- 3, Lateness <- 1, Changes <- 2

Service ==
  INSTANCE StudyService WITH
    Trials <- 2, Modes <- {"stop", "restart", "kill", "none"}, Prefixes <- {0, 1}, MaxFaults <- 2
Settles ==
  INSTANCE StudyService WITH
    Trials <- 2, Modes <- {"stop", "restart", "kill", "none"}, Prefixes <- {0, 1}, MaxFaults <- 1
\* One trial that no gate watches.
Early ==
  INSTANCE StudyService WITH
    Trials <- 1, Modes <- {"none"}, Prefixes <- {0}, MaxFaults <- 2

ASSUME Campaign!LifecycleAssumption /\ Restart!LifecycleAssumption
ASSUME Observer!CalendarAssumption /\ Service!ServiceAssumption

NoCampaign ==
  /\ owner = 0 /\ janitor = 0 /\ launch = 0 /\ ws = 0 /\ table = 0 /\ disk = 0 /\ cluster = 0
  /\ creating = 0 /\ clock = 0 /\ sweep = 0 /\ astray = 0 /\ budget = 0
NoCalendar ==
  now = 0 /\ healthy = 0 /\ sick = 0 /\ observer = 0 /\ samples = 0 /\ left = 0
NoService ==
  /\ unit = 0 /\ again = 0 /\ at = 0 /\ claim = 0 /\ run = 0 /\ docker = 0 /\ credential = 0
  /\ lingers = 0 /\ post = 0 /\ receipt = 0 /\ sidecar = 0 /\ gate = 0 /\ entered = 0
  /\ refused = 0 /\ stops = 0 /\ faults = 0

Init ==
  /\ part \in Parts
  /\ \/ part = "campaign" /\ Campaign!Init /\ NoCalendar /\ NoService
     \/ part = "lease" /\ Lease!Init /\ NoCalendar /\ NoService
     \/ part = "restart" /\ Restart!Init /\ NoCalendar /\ NoService
     \/ part = "ends" /\ Ends!Init /\ NoCalendar /\ NoService
     \/ part = "orphan" /\ Orphan!Init /\ NoCalendar /\ NoService
     \/ part = "calendar" /\ Observer!Init /\ NoCampaign /\ NoService
     \/ part = "service" /\ Service!Init /\ NoCampaign /\ NoCalendar
     \/ part = "settles" /\ Settles!Init /\ NoCampaign /\ NoCalendar
     \/ part = "early" /\ Early!Init /\ NoCampaign /\ NoCalendar

Next ==
  /\ \/ part = "campaign" /\ Campaign!Next /\ UNCHANGED <<calendar, service>>
     \/ part = "lease" /\ Lease!Next /\ UNCHANGED <<calendar, service>>
     \/ part = "restart" /\ Restart!Next /\ UNCHANGED <<calendar, service>>
     \/ part = "ends" /\ Ends!Next /\ UNCHANGED <<calendar, service>>
     \/ part = "orphan" /\ Orphan!Next /\ UNCHANGED <<calendar, service>>
     \/ part = "calendar" /\ Observer!Next /\ UNCHANGED <<campaign, service>>
     \/ part = "service" /\ Service!Next /\ UNCHANGED <<campaign, calendar>>
     \/ part = "settles" /\ Settles!Next /\ UNCHANGED <<campaign, calendar>>
     \/ part = "early" /\ Early!Next /\ UNCHANGED <<campaign, calendar>>
  /\ UNCHANGED part

Spec == Init /\ [][Next]_vars

\* The processes of a campaign that are not killed go on, and the clock does.
LaunchStep(a) ==
  \/ part = "ends" /\ Ends!LaunchStep(a)
  \/ part = "orphan" /\ Orphan!LaunchStep(a)
WorkerStep(w) ==
  \/ part = "ends" /\ Ends!WorkerStep(w)
  \/ part = "orphan" /\ Orphan!WorkerStep(w)
OwnerStep ==
  \/ part = "ends" /\ Ends!OwnerStep
  \/ part = "orphan" /\ Orphan!OwnerStep
JanitorStep ==
  \/ part = "ends" /\ Ends!JanitorStep
  \/ part = "orphan" /\ Orphan!JanitorStep
WindowEnds ==
  \/ part = "ends" /\ Ends!WindowEnds
  \/ part = "orphan" /\ Orphan!WindowEnds
OrphanCreates == part = "orphan" /\ Orphan!OrphanCreates

\* Nor does systemd leave a unit, or the gate its study, as it is.
FairSpec ==
  /\ Spec
  /\ \A a \in Ends!Actors : WF_campaign(LaunchStep(a))
  /\ \A w \in Ends!Workspaces : WF_campaign(WorkerStep(w))
  /\ WF_campaign(OwnerStep) /\ WF_campaign(JanitorStep) /\ WF_campaign(WindowEnds)
  /\ WF_campaign(OrphanCreates)
  /\ WF_service(part = "settles" /\ Settles!Invocation)
  /\ WF_service(part = "settles" /\ Settles!Work)
  /\ WF_service(part = "settles" /\ Settles!MainExits)
  /\ WF_service(part = "settles" /\ Settles!PostStop)
  /\ WF_service(part = "settles" /\ Settles!Gate)

\* Whoever is killed or late and whatever cleanup fails: only leased processes are
\* killed, if no identifier is reused between check and kill; starts stay within the
\* contract, connected workers are registered and alone, a cluster is watched or its
\* cleanup reported as failed, a campaign reported as finished has left nothing, and
\* no worker gets ready after the stop (campaign.py, janitor.py).
NothingIsLeftUnwatched ==
  /\ [](part = "campaign" => Campaign!CampaignIsSafe)
  /\ [](part = "lease" => Lease!CampaignIsSafe)
  /\ [](part = "restart" => Restart!CampaignIsSafe)
  /\ [][part = "campaign" => Campaign!NoReadinessAfterStop]_vars
  /\ [][part = "lease" => Lease!NoReadinessAfterStop]_vars
  /\ [][part = "restart" => Restart!NoReadinessAfterStop]_vars

\* A slot of the calendar is credited with what the service was during it, and
\* one that was missed stays unknown (campaign.py:442).
SamplesAreOfTheirSlot ==
  /\ [](part = "calendar" => Observer!TypeOK /\ Observer!CreditIsAboutTheSlot)
  /\ [][part = "calendar" => Observer!CalendarIsKept]_vars

\* However a study is stopped, restarted or killed, it is entered once, its
\* recovery leaves nothing, credits only what was committed, and stands; and a
\* gate passes only what it cut off itself (service_experiment.py).
StudiesAreRecovered ==
  /\ [](part = "service" => Service!ServiceIsSound)
  /\ [][part = "service" => Service!ReceiptStands]_vars

\* Whatever is killed, and whenever, the workers of a campaign end and the
\* cluster of a dead owner goes (README.md, janitor.py).
CampaignsEnd == <>[](part = "ends" => Ends!CampaignEnded)

\* Every gate comes to its verdict and every study to its end.
StudiesSettle == <>[](part = "settles" => Settles!Settled)

\* "A detached janitor ... removes registered agent containers and the owned
\* cluster after controller death" (README.md:93): the same where the kind
\* command of the dead owner may still be at work.
ClusterEventuallyGone == <>[](part = "orphan" => Orphan!CampaignEnded)

\* A finished receipt "establishes completed recovery" (infra/gcp/README.md:235),
\* also of a unit that was stopped before its study was claimed.
FinishedMeansClean == part = "early" => Early!FinishedMeansClean
=============================================================================
