----------------------------- MODULE Experiment -----------------------------
(***************************************************************************)
(* An experiment (experiments.run_experiment): declared trials, one after  *)
(* the other on one cluster, each in a worker process that a supervisor    *)
(* bounds in time and removes with its process group (supervise_trial,     *)
(* supervisor.supervise), and the accounting of what was planned, recorded *)
(* and never run.  Workers fail, hang and leave half-written records;      *)
(* Ctrl-C comes while a trial is waited for, or at any point.              *)
(***************************************************************************)
EXTENDS Naturals, Sequences, FiniteSets

CONSTANTS
    Planned,          \* how many trials the manifest declares
    Signals,          \* bound on Ctrl-C
    Mishaps,          \* bound on failing calls of the controller
    SignalsAnywhere   \* may Ctrl-C come outside the wait for a worker?

ExperimentAssumption ==
    /\ Planned \in Nat \ {0} /\ Signals \in Nat /\ Mishaps \in Nat
    /\ SignalsAnywhere \in BOOLEAN

Trials == 1 .. Planned

\* trial.json: what run_trial saves; damage stands for an unmatched write or
\* protected state damage found in the trial.
Absent == [status |-> "absent", score |-> FALSE, damage |-> FALSE]
Partial(d) == [status |-> "running", score |-> FALSE, damage |-> d]
Final(d) == [status |-> "recorded", score |-> TRUE, damage |-> d]
Broken(d) == [status |-> "infrastructure_error", score |-> FALSE, damage |-> d]
Records == [status : {"absent", "running", "recorded", "infrastructure_error",
                      "interrupted", "timed_out"},
            score : BOOLEAN, damage : BOOLEAN]

VARIABLES
    step,       \* what the controller does next
    trial,      \* index of the current trial
    worker,     \* "none", "running", "exited" or "dead"
    exit,       \* did the worker exit with code 0?
    group,      \* trials of which some process may still run
    file,       \* trial.json of the current trial
    result,     \* the supervisor's reading of it
    outcome,    \* "none", "exited", "timed_out", "error" or "interrupted"
    results,    \* results.json: trial and record, in order
    raised,     \* what leaves run_experiment: "none", "error" or "interrupt"
    accounting, \* accounting.json: recorded and unrun, or not yet written
    cluster,    \* "none", "made" (environment.json exists) or "deleted"
    cleanup,    \* cleanup.json: "none", "kept", "deleted", "failed", "not_provisioned"
    keep,       \* --keep
    attempted,  \* history: the trials whose worker was asked for
    overlap,    \* history: did a trial start while another's processes ran?
    left        \* remaining signals and mishaps

child == <<worker, exit, group, file>>
books == <<results, accounting, cluster, cleanup>>
vars == <<step, trial, child, result, outcome, books, raised, keep, attempted, overlap, left>>

NotYet == [recorded |-> 0, unrun |-> {}, written |-> FALSE]

Init ==
    /\ step = "provision" /\ trial = 0 /\ worker = "none" /\ exit = FALSE /\ group = {}
    /\ file = Absent /\ result = Absent /\ outcome = "none" /\ results = <<>>
    /\ raised = "none" /\ accounting = NotYet /\ cluster = "none" /\ cleanup = "none"
    /\ keep \in BOOLEAN /\ attempted = {} /\ overlap = FALSE
    /\ left = [signals |-> Signals, mishaps |-> Mishaps]

Steps == {"provision", "next", "start", "wait", "reap", "read", "move", "save",
          "append", "stop", "account", "teardown", "over", "cut"}

TypeOK ==
    /\ step \in Steps /\ trial \in 0 .. Planned
    /\ worker \in {"none", "running", "exited", "dead"} /\ exit \in BOOLEAN
    /\ group \subseteq Trials /\ file \in Records /\ result \in Records
    /\ outcome \in {"none", "exited", "timed_out", "error", "interrupted"}
    /\ results \in Seq([trial : Trials, record : Records])
    /\ raised \in {"none", "error", "interrupt"}
    /\ accounting \in [recorded : 0 .. Planned, unrun : SUBSET Trials, written : BOOLEAN]
    /\ cluster \in {"none", "made", "deleted"}
    /\ cleanup \in {"none", "kept", "deleted", "failed", "not_provisioned"}
    /\ keep \in BOOLEAN /\ attempted \subseteq Trials /\ overlap \in BOOLEAN
    /\ left \in [signals : 0 .. Signals, mishaps : 0 .. Mishaps]

(***************************************************************************)
(* The worker: trial_worker, run_trial.                                    *)
(***************************************************************************)

WorkerWrites(record) ==
    /\ worker = "running"
    /\ \/ file = Absent /\ record = Partial(FALSE)
       \/ file.status = "running"
            /\ record \in UNION {{Partial(d), Final(d), Broken(d)} : d \in BOOLEAN}
            /\ (file.damage => record.damage)
    /\ file' = record
    /\ UNCHANGED <<step, trial, worker, exit, group, result, outcome, books,
                   raised, keep, attempted, overlap, left>>
\* It returns 0 once run_trial returned, even with an infrastructure error.
WorkerExits(code) ==
    /\ worker = "running" /\ worker' = "exited"
    /\ code => file.status \in {"recorded", "infrastructure_error"}
    /\ exit' = code
    /\ UNCHANGED <<step, trial, group, file, result, outcome, books, raised,
                   keep, attempted, overlap, left>>

(***************************************************************************)
(* The controller.                                                         *)
(***************************************************************************)

Moves(from, to) == step = from /\ step' = to
Raise(what) == step' = "account" /\ raised' = what
Fails == left.mishaps > 0 /\ left' = [left EXCEPT !.mishaps = @ - 1]

Provision ==
    /\ step = "provision"
    /\ \/ step' = "next" /\ cluster' = "made" /\ UNCHANGED <<raised, left>>
       \/ Fails /\ Raise("error") /\ cluster' \in {"none", "made"}
    /\ UNCHANGED <<trial, child, result, outcome, results, accounting, cleanup,
                   keep, attempted, overlap>>
\* reset_application, but before the first trial.
NextTrial ==
    /\ step = "next"
    /\ \/ trial < Planned /\ step' = "start" /\ trial' = trial + 1 /\ UNCHANGED <<raised, left>>
       \/ trial \in 1 .. (Planned - 1) /\ Fails /\ Raise("error") /\ trial' = trial + 1
       \/ trial = Planned /\ step' = "account" /\ UNCHANGED <<trial, raised, left>>
    /\ UNCHANGED <<child, result, outcome, books, keep, attempted, overlap>>
\* mkdir, worker-request.json and Popen.
Start ==
    /\ step = "start"
    /\ attempted' = attempted \cup {trial} /\ file' = Absent
    /\ overlap' = (overlap \/ group # {})
    /\ \/ /\ step' = "wait" /\ worker' = "running" /\ group' = group \cup {trial}
          /\ exit' = FALSE /\ outcome' = "none" /\ UNCHANGED left
       \/ /\ Fails /\ step' = "read" /\ worker' = "none" /\ outcome' = "error"
          /\ UNCHANGED <<group, exit>>
    /\ UNCHANGED <<trial, result, books, raised, keep>>

\* process.wait: the worker exits or its time is over.
Wait(how) ==
    /\ Moves("wait", "reap")
    /\ (how = "exited") => (worker = "exited")
    /\ outcome' = how
    /\ UNCHANGED <<trial, child, result, books, raised, keep, attempted, overlap, left>>
\* The finally clause: killpg and wait, after every kind of end.
Reap ==
    /\ Moves("reap", "read")
    /\ worker' = "dead" /\ group' = group \ {trial}
    /\ UNCHANGED <<trial, exit, file, result, outcome, books, raised, keep,
                   attempted, overlap, left>>

\* Only a worker that ended in time, with code 0 and a final record is believed.
Trusted == /\ outcome = "exited" /\ exit
           /\ file.status \in {"recorded", "infrastructure_error"}

\* Read trial.json; what is not believed is moved away.
ReadRecord ==
    /\ step = "read" /\ result' = file
    /\ step' = IF Trusted THEN "append" ELSE IF file = Absent THEN "save" ELSE "move"
    /\ UNCHANGED <<trial, child, outcome, books, raised, keep, attempted, overlap, left>>
MoveAway ==
    /\ Moves("move", "save") /\ file' = Absent
    /\ UNCHANGED <<trial, worker, exit, group, result, outcome, books, raised,
                   keep, attempted, overlap, left>>
\* Bug: the score stays in the record.
VerdictKeepsScore ==
    [result EXCEPT !.status = IF outcome \in {"interrupted", "timed_out"} THEN outcome
                              ELSE "infrastructure_error"]
Verdict ==
    [result EXCEPT !.score = FALSE,
                   !.status = IF outcome \in {"interrupted", "timed_out"} THEN outcome
                              ELSE "infrastructure_error"]
SaveResult ==
    /\ Moves("save", "append") /\ result' = Verdict /\ file' = Verdict
    /\ UNCHANGED <<trial, worker, exit, group, outcome, books, raised, keep,
                   attempted, overlap, left>>

\* An interrupted trial is recorded when its file is there.
Appends == outcome # "interrupted" \/ file # Absent
Append1 ==
    /\ step = "append"
    /\ results' = IF Appends
                  THEN Append(results, [trial |-> trial, record |-> result]) ELSE results
    /\ IF outcome = "interrupted" THEN Raise("interrupt") ELSE step' = "stop" /\ UNCHANGED raised
    /\ UNCHANGED <<trial, child, result, outcome, accounting, cluster, cleanup,
                   keep, attempted, overlap, left>>
Damaged == result.damage
\* An unmatched privileged write, or protected damage, stops the experiment.
StopOrGo ==
    /\ step = "stop"
    /\ IF Damaged THEN Raise("error") ELSE step' = "next" /\ UNCHANGED raised
    /\ UNCHANGED <<trial, child, result, outcome, books, keep, attempted, overlap, left>>

\* The finally clause: accounting, teardown, cleanup.json and the report.
Account ==
    /\ Moves("account", "teardown")
    /\ accounting' = [recorded |-> Len(results), written |-> TRUE,
                      unrun |-> {t \in Trials : t > Len(results)}]
    /\ UNCHANGED <<trial, child, result, outcome, results, cluster, cleanup,
                   raised, keep, attempted, overlap, left>>
Teardown ==
    /\ step = "teardown" /\ step' = "over"
    /\ \/ (cluster = "none" \/ keep) /\ cleanup' = (IF keep THEN "kept" ELSE "not_provisioned")
            /\ UNCHANGED <<cluster, raised, left>>
       \/ cluster = "made" /\ ~keep /\ cluster' = "deleted" /\ cleanup' = "deleted"
            /\ UNCHANGED <<raised, left>>
       \/ cluster = "made" /\ ~keep /\ Fails /\ cleanup' = "failed" /\ raised' = "error"
            /\ cluster' \in {"made", "deleted"}   \* kind's deletion may time out
    /\ UNCHANGED <<trial, child, result, outcome, results, accounting, keep,
                   attempted, overlap>>

\* Ctrl-C: in the wait it is an outcome of the trial; in provision or among the
\* trials it leads to the finally clause.  Inside supervise_trial the file of the
\* trial, if it is there, becomes its record.
Interrupt ==
    /\ left.signals > 0 /\ left' = [left EXCEPT !.signals = @ - 1]
    /\ \/ step = "wait" /\ step' = "reap" /\ outcome' = "interrupted"
            /\ UNCHANGED <<raised, results, cluster>>
       \* the group is not killed, and remains
       \/ SignalsAnywhere /\ step = "reap" /\ step' = "read" /\ outcome' = "interrupted"
            /\ UNCHANGED <<raised, results, cluster>>
       \/ /\ SignalsAnywhere /\ Raise("interrupt") /\ UNCHANGED outcome
          /\ \/ step = "provision" /\ cluster' \in {"none", "made"} /\ UNCHANGED results
             \/ step \in {"next", "start", "read", "move", "save", "append", "stop"}
                  /\ (step \in {"read", "move", "save"} => file = Absent)
                  /\ UNCHANGED <<cluster, results>>
             \/ step \in {"read", "move", "save", "append"} /\ file # Absent
                  /\ results' = Append(results, [trial |-> trial, record |-> file])
                  /\ UNCHANGED cluster
    /\ UNCHANGED <<trial, child, result, accounting, cleanup, keep, attempted, overlap>>

\* What cleanup.json may say when Ctrl-C ends the clean-up (it is no Exception):
\* nothing, the status of before teardown, or that of a teardown that was done.
StatusSoFar ==
    {"none", IF keep THEN "kept" ELSE "not_provisioned"}
      \cup (IF cluster' = "deleted" THEN {"deleted"} ELSE {})
\* Ctrl-C in the finally clause: in the accounting it also skips the clean-up.
CutShort ==
    /\ SignalsAnywhere /\ left.signals > 0 /\ left' = [left EXCEPT !.signals = @ - 1]
    /\ step' = "cut" /\ raised' = "interrupt"
    /\ \/ step = "account" /\ UNCHANGED <<cluster, cleanup>>
       \/ /\ step = "teardown"
          /\ UNCHANGED cluster \/ (cluster = "made" /\ ~keep /\ cluster' = "deleted")
          /\ cleanup' \in StatusSoFar
    /\ UNCHANGED <<trial, child, result, outcome, results, accounting, keep, attempted, overlap>>

Controller ==
    \/ Provision \/ NextTrial \/ Start \/ Reap \/ ReadRecord
    \/ \E how \in {"exited", "timed_out"} : Wait(how)
    \/ MoveAway \/ SaveResult \/ Append1 \/ StopOrGo \/ Account \/ Teardown
Next ==
    \/ Controller \/ Interrupt \/ CutShort
    \/ \E r \in Records : WorkerWrites(r)
    \/ \E code \in BOOLEAN : WorkerExits(code)

(***************************************************************************)
(* Properties.                                                             *)
(***************************************************************************)

\* experiments.py:703-704: an attempted trial is kept out of the unrun count;
\* and recorded and unrun trials are the planned ones, each once.
AttemptedIsRecorded ==
    accounting.written =>
        /\ accounting.recorded + Cardinality(accounting.unrun) = Planned
        /\ attempted \cap accounting.unrun = {}

\* A trial that was cut off, that failed or that hung never keeps a score, even
\* when its worker had already written a final record (supervise_trial).
ScoresAreOfWholeTrials ==
    \A i \in DOMAIN results :
        results[i].record.score => results[i].record.status = "recorded"

\* No process of a trial runs while another trial is measured (supervise).
OneTrialAtATime == ~overlap /\ (step \in {"over", "cut"} => group = {})

\* Once a trial has shown an unmatched write or protected damage, no other is
\* started, whatever became of its record (run_experiment).
NothingAfterDamage ==
    attempted' # attempted => \A i \in DOMAIN results : ~results[i].record.damage

\* The experiment ends whatever its workers do; unless Ctrl-C cut its clean-up
\* short its cluster is then kept on request, removed, or reported, and in no case
\* does cleanup.json report a deletion that was not (run_experiment's finally).
Ended ==
    /\ step \in {"over", "cut"}
    /\ step = "over" /\ cluster = "made" => cleanup \in {"kept", "failed"}
    /\ cleanup = "deleted" => cluster = "deleted"

\* The books of an experiment say what was tried, and one trial runs at a time.
BooksAreSound ==
    TypeOK /\ AttemptedIsRecorded /\ ScoresAreOfWholeTrials /\ OneTrialAtATime
=============================================================================
