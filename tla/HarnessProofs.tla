---------------------------- MODULE HarnessProofs ----------------------------
(***************************************************************************)
(* Theorems about what measures the system and keeps the books of it, for  *)
(* every value of the constants: the verification window, a trial, the     *)
(* check of crash recovery and the acceptance run, the experiment over its *)
(* trials, and the declared study.  Each part has an inductive invariant   *)
(* of its own; a theorem takes it from the part to the whole module.       *)
(***************************************************************************)
EXTENDS MCHarness, Sequences, FiniteSetTheorems, TLAPS

---------------------------------------------------------------------------
(* The verification window. *)

\* What the running probe has read.
ReadDatabases == {"service", "quotes", "judge"}
ReadServices  == {"quotes", "judge"}

\* A fault that has lasted since the probe began is in what the probe has read of
\* it: no read of the fault's place was as expected.
LastingIsRead ==
  /\ lasting \subseteq broken \cap Window!Faults
  /\ step \in ReadDatabases /\ "data" \in lasting => snapshot.database # "expected"
  /\ step \in ReadServices /\ "route" \in lasting => snapshot.service # "expected"
  /\ step \in ReadServices /\ "arithmetic" \in lasting => snapshot.quotes["available-single"] # "expected"

\* What was read to differ was a fault of the window, and a quote was in error
\* only with its control.
ReadsAreFaults ==
  /\ broken \cap Window!Faults \subseteq ever
  /\ snapshot.database = "differs" \/ snapshot.service = "differs" => ever # {}
  /\ \A c \in QuoteCases : snapshot.quotes[c] \in Window!Wrong => ever # {}
  /\ step \notin ReadServices => \A c \in QuoteCases : snapshot.quotes[c] = "absent"
  /\ step \in ReadServices \cup {"inventory_control", "database", "service"} /\ "quote_control" \in broken
       => snapshot.controls["quote_control"] = "error"
  /\ step # "done" =>
       \A c \in QuoteCases : snapshot.quotes[c] = "error" => "quote_control" \in broken /\ step \in ReadServices

\* Every probe that a fault outlasted left a verdict that says so, or says that
\* it does not know; and failures were of faults.
VerdictsRemember ==
  /\ overlooked # {} => \E v \in verdicts : v # Window!Success
  /\ Window!Failure \in verdicts => ever # {}
  /\ step = "done" => result = Window!WindowVerdict(verdicts)

\* The faults there since the deadline lasted through the last probe.
DeadlineIsProbed ==
  /\ since \subseteq broken \cap Window!Faults \/ step = "done"
  /\ now < WindowTicks => since = {}
  /\ probe.started <= now
  /\ step \notin {"idle", "done"} /\ probe.started >= WindowTicks => since \subseteq lasting
  /\ step = "done" => since \subseteq overlooked

WindowInv == Window!TypeOK /\ LastingIsRead /\ ReadsAreFaults /\ VerdictsRemember /\ DeadlineIsProbed

\* What was not as expected keeps a snapshot from being a success.
LEMMA UnexpectedIsNoSuccess ==
  ASSUME snapshot \in Window!Snapshots,
         \/ snapshot.database # "expected" \/ snapshot.service # "expected"
         \/ \E c \in QuoteCases : snapshot.quotes[c] # "expected"
  PROVE  Window!Evaluate(snapshot) # Window!Success
<1> SUFFICES Window!Failures(snapshot) # {} \/ Window!Unknowns(snapshot) # {}
  BY DEF Window!Evaluate, Window!Failure, Window!Indeterminate, Window!Success
<1>1. ASSUME NEW k \in {"database", "service"}, snapshot[k] # "expected"
      PROVE  Window!Failures(snapshot) # {} \/ Window!Unknowns(snapshot) # {}
  <2>1. snapshot[k] \in {"differs", "error"}
    BY <1>1 DEF Window!Snapshots
  <2>2. CASE snapshot[k] = "differs"
    BY <2>2 DEF Window!Failures
  <2>3. CASE snapshot[k] = "error"
    BY <2>3 DEF Window!Unknowns
  <2>4. QED
    BY <2>1, <2>2, <2>3
<1>2. ASSUME NEW c \in QuoteCases, snapshot.quotes[c] # "expected"
      PROVE  Window!Failures(snapshot) # {} \/ Window!Unknowns(snapshot) # {}
  <2>1. snapshot.quotes[c] \in Window!Quotes(snapshot) /\ snapshot.quotes[c] \in Window!Wrong \cup {"error", "absent"}
    BY <1>2 DEF Window!Quotes, Window!Snapshots, Window!Wrong
  <2>2. CASE snapshot.quotes[c] \in Window!Wrong
    BY <2>1, <2>2 DEF Window!Failures
  <2>3. CASE snapshot.quotes[c] = "error" /\ Window!PathCounts(snapshot)
    BY <2>1, <2>3 DEF Window!Failures
  <2>4. CASE snapshot.quotes[c] = "error" /\ ~Window!PathCounts(snapshot)
    BY <2>1, <2>4 DEF Window!Unknowns
  <2>5. CASE snapshot.quotes[c] = "absent"
    <3>1. <<"quote", "absent">> \in Window!Unknowns(snapshot)
      BY <2>1, <2>5 DEF Window!Unknowns
    <3>2. QED
      BY <3>1
  <2>6. QED
    BY <2>1, <2>2, <2>3, <2>4, <2>5
<1>3. QED
  BY <1>1, <1>2

\* A failure is a difference, a wrong quote, or a quote that had an error while
\* its control had none.
LEMMA FailureIsRead ==
  ASSUME snapshot \in Window!Snapshots, Window!Evaluate(snapshot) = Window!Failure
  PROVE  \/ snapshot.database = "differs" \/ snapshot.service = "differs"
         \/ \E c \in QuoteCases : \/ snapshot.quotes[c] \in Window!Wrong
                                 \/ /\ snapshot.quotes[c] = "error"
                                    /\ snapshot.controls["quote_control"] = "expected"
<1>1. Window!Failures(snapshot) # {}
  BY DEF Window!Evaluate, Window!Failure, Window!Indeterminate, Window!Success
<1>2. \/ \E k \in {"database", "service"} : snapshot[k] = "differs"
      \/ \E q \in Window!Quotes(snapshot) : q \in Window!Wrong
      \/ Window!PathCounts(snapshot)
  BY <1>1 DEF Window!Failures
<1>3. Window!PathCounts(snapshot) =>
        snapshot.controls["quote_control"] = "expected" /\ "error" \in Window!Quotes(snapshot)
  BY DEF Window!PathCounts, Window!ControlsHealthy, Window!Controls
<1>4. QED
  BY <1>2, <1>3 DEF Window!Quotes

LEMMA WindowStarts == Window!Init => WindowInv
<1> SUFFICES ASSUME Window!Init PROVE WindowInv
  OBVIOUS
<1> USE HarnessAssumption DEF Window!WindowAssumption, Window!Init
<1>1. Window!Blank \in Window!Snapshots
  BY DEF Window!Blank, Window!Snapshots
<1>2. Window!TypeOK
  BY <1>1 DEF Window!TypeOK, Window!Steps, Window!Success, Window!Failure, Window!Indeterminate
<1>3. LastingIsRead /\ ReadsAreFaults /\ VerdictsRemember /\ DeadlineIsProbed
  BY DEF LastingIsRead, ReadsAreFaults, VerdictsRemember, DeadlineIsProbed, ReadDatabases, ReadServices,
     Window!Blank, Window!Wrong, Window!Controls
<1>4. QED
  BY <1>2, <1>3 DEF WindowInv

LEMMA WindowTypeStep ==
  ASSUME WindowInv, Window!Next
  PROVE  Window!TypeOK'
<1> USE HarnessAssumption DEF Window!WindowAssumption, Window!TypeOK, Window!world, Window!seen, Window!history
<1>1. Window!TypeOK
  BY DEF WindowInv
<1>2. ASSUME NEW x \in Window!Faults \cup Window!Outages, Window!Change(x) PROVE Window!TypeOK'
  BY <1>1, <1>2 DEF Window!Change
<1>3. CASE Window!Tick
  BY <1>1, <1>3 DEF Window!Tick, Window!Done
<1>4. CASE Window!StartProbe
  BY <1>1, <1>4 DEF Window!StartProbe, Window!Steps
<1>5. CASE Window!Read
  BY <1>1, <1>5 DEF Window!Read, Window!ReadQuoteControl, Window!ReadInventoryControl, Window!ReadDatabase,
     Window!ReadService, Window!ReadQuote, Window!Reads, Window!Steps, Window!Snapshots, Window!Seen, Window!Differs,
     Window!Quoted, Window!Controls
<1>6. ASSUME NEW v \in {Window!Success, Window!Failure, Window!Indeterminate}, Window!Judge(v), step # "done",
             left' \in 0 .. MaxChanges
      PROVE  Window!TypeOK'
  <2>1. Window!Blank \in Window!Snapshots
    BY DEF Window!Blank, Window!Snapshots
  <2>2. QED
    BY <1>1, <1>6, <2>1 DEF Window!Judge, Window!Steps, Window!WindowVerdict, Window!Success, Window!Failure,
       Window!Indeterminate
<1>7. CASE Window!EndProbe
  BY <1>1, <1>6, <1>7 DEF Window!EndProbe, Window!Evaluate
<1>8. CASE Window!CollectorFails
  BY <1>1, <1>6, <1>8 DEF Window!CollectorFails
<1>9. QED
  BY <1>2, <1>3, <1>4, <1>5, <1>7, <1>8 DEF Window!Next

\* What a read of the probe leaves in the snapshot.
LEMMA ReadChanges ==
  ASSUME WindowInv, Window!Read
  PROVE  /\ UNCHANGED <<now, broken, left, probe, verdicts, result, lasting, overlooked, since, ever>>
         /\ \/ /\ step = "quote_control" /\ step' = "inventory_control"
               /\ snapshot'.controls["quote_control"] = (IF "quote_control" \in broken THEN "error" ELSE "expected")
               /\ snapshot'.database = snapshot.database /\ snapshot'.service = snapshot.service
               /\ snapshot'.quotes = snapshot.quotes
            \/ /\ step = "inventory_control" /\ step' = "database"
               /\ snapshot'.controls["quote_control"] = snapshot.controls["quote_control"]
               /\ snapshot'.database = snapshot.database /\ snapshot'.service = snapshot.service
               /\ snapshot'.quotes = snapshot.quotes
            \/ /\ step = "database" /\ step' = "service"
               /\ snapshot' = [snapshot EXCEPT !.database = Window!Seen("database", Window!Differs({"data"}))]
            \/ /\ step = "service" /\ step' = "quotes"
               /\ snapshot' = [snapshot EXCEPT !.service = Window!Seen("service", Window!Differs({"route"}))]
            \/ /\ step = "quotes" /\ step' \in {"quotes", "judge"}
               /\ \E c \in QuoteCases :
                    snapshot' = [snapshot EXCEPT !.quotes = [@ EXCEPT ![c] = Window!Quoted(c)]]
<1> USE DEF WindowInv, Window!TypeOK, Window!Snapshots, Window!Controls, Window!Reads, Window!world, Window!history
<1>1. CASE Window!ReadQuoteControl
  BY <1>1 DEF Window!ReadQuoteControl, Window!Seen
<1>2. CASE Window!ReadInventoryControl
  BY <1>2 DEF Window!ReadInventoryControl, Window!Seen
<1>3. CASE Window!ReadDatabase
  BY <1>3 DEF Window!ReadDatabase
<1>4. CASE Window!ReadService
  BY <1>4 DEF Window!ReadService
<1>5. ASSUME NEW c \in QuoteCases, Window!ReadQuote(c)
      PROVE  /\ UNCHANGED <<now, broken, left, probe, verdicts, result, lasting, overlooked, since, ever>>
             /\ step = "quotes" /\ step' \in {"quotes", "judge"}
             /\ snapshot' = [snapshot EXCEPT !.quotes = [@ EXCEPT ![c] = Window!Quoted(c)]]
  BY <1>5 DEF Window!ReadQuote
<1>6. QED
  BY <1>1, <1>2, <1>3, <1>4, <1>5 DEF Window!Read

\* What each read finds of a fault.
LEMMA FaultsAreFound ==
  /\ "data" \in broken => Window!Seen("database", Window!Differs({"data"})) # "expected"
  /\ "route" \in broken => Window!Seen("service", Window!Differs({"route"})) # "expected"
  /\ "arithmetic" \in broken => Window!Quoted("available-single") # "expected"
  /\ Window!Seen("database", Window!Differs({"data"})) = "differs" => "data" \in broken
  /\ Window!Seen("service", Window!Differs({"route"})) = "differs" => "route" \in broken
  /\ \A c \in QuoteCases : /\ Window!Quoted(c) \in Window!Wrong => broken \cap Window!Faults # {}
                           /\ Window!Quoted(c) = "error" => "quote_control" \in broken
BY DEF Window!Seen, Window!Differs, Window!Quoted, Window!Wrong, Window!Faults

LEMMA LastingStep ==
  ASSUME WindowInv, Window!Next
  PROVE  LastingIsRead'
<1> USE DEF LastingIsRead, ReadDatabases, ReadServices, Window!world, Window!seen, Window!history
<1>1. LastingIsRead /\ snapshot \in Window!Snapshots /\ "available-single" \in QuoteCases
  BY HarnessAssumption DEF WindowInv, Window!TypeOK, Window!WindowAssumption
<1>2. ASSUME NEW x \in Window!Faults \cup Window!Outages, Window!Change(x) PROVE LastingIsRead'
  BY <1>1, <1>2 DEF Window!Change
<1>3. CASE Window!Tick \/ Window!StartProbe
  BY <1>1, <1>3 DEF Window!Tick, Window!StartProbe
<1>4. CASE Window!Read
  <2>1. lasting' = lasting /\ broken' = broken
    BY <1>4, ReadChanges
  <2>2. CASE step \in {"quote_control", "inventory_control", "database"}
    BY <1>1, <1>4, <2>1, <2>2, ReadChanges, FaultsAreFound DEF Window!Snapshots
  <2>3. CASE step = "service"
    <3>1. /\ step' = "quotes" /\ snapshot'.database = snapshot.database
          /\ snapshot'.service = Window!Seen("service", Window!Differs({"route"}))
          /\ snapshot'.quotes = snapshot.quotes
      BY <1>1, <1>4, <2>3, ReadChanges DEF Window!Snapshots
    <3>2. snapshot.quotes["available-single"] = "absent"
      BY <1>1, <2>3 DEF WindowInv, ReadsAreFaults
    <3>3. QED
      BY <1>1, <2>1, <2>3, <3>1, <3>2, FaultsAreFound
  <2>4. CASE step = "quotes"
    <3>1. PICK c \in QuoteCases : snapshot' = [snapshot EXCEPT !.quotes = [@ EXCEPT ![c] = Window!Quoted(c)]]
      BY <1>4, <2>4, ReadChanges
    <3>2. /\ snapshot'.database = snapshot.database /\ snapshot'.service = snapshot.service
          /\ snapshot'.quotes["available-single"] =
               (IF c = "available-single" THEN Window!Quoted("available-single")
                ELSE snapshot.quotes["available-single"])
      BY <1>1, <3>1 DEF Window!Snapshots
    <3>3. QED
      BY <1>1, <2>1, <2>4, <3>2, FaultsAreFound
  <2>5. QED
    BY <1>4, <2>2, <2>3, <2>4, ReadChanges
<1>5. CASE Window!EndProbe \/ Window!CollectorFails
  BY <1>5 DEF Window!EndProbe, Window!CollectorFails, Window!Judge
<1>6. QED
  BY <1>2, <1>3, <1>4, <1>5 DEF Window!Next

LEMMA ReadsStep ==
  ASSUME WindowInv, Window!Next
  PROVE  ReadsAreFaults'
<1> USE DEF ReadsAreFaults, ReadServices, Window!world, Window!seen, Window!history
<1>1. ReadsAreFaults /\ snapshot \in Window!Snapshots /\ step \in Window!Steps
  BY DEF WindowInv, Window!TypeOK
<1>2. ASSUME NEW x \in Window!Faults \cup Window!Outages, Window!Change(x) PROVE ReadsAreFaults'
  <2>1. "quote_control" \notin Window!Faults /\ "quote_control" \in Window!Outages
    BY DEF Window!Faults, Window!Outages
  <2>2. step # "done" /\ step' = step /\ snapshot' = snapshot /\ ever' = ever \cup (broken' \cap Window!Faults)
        /\ (step = "idle" \/ ("quote_control" \in broken' <=> "quote_control" \in broken))
    BY <1>2, <2>1 DEF Window!Change, Window!Done
  <2>3. QED
    BY <1>1, <2>2
<1>3. CASE Window!Tick \/ Window!StartProbe
  BY <1>1, <1>3 DEF Window!Tick, Window!StartProbe
<1>4. CASE Window!Read
  BY <1>1, <1>4, ReadChanges, FaultsAreFound DEF Window!Snapshots, Window!Wrong, Window!Faults
<1>5. CASE Window!EndProbe \/ Window!CollectorFails
  <2>1. snapshot' = Window!Blank /\ step' \in {"idle", "done"} /\ ever' = ever /\ broken' = broken
    BY <1>5 DEF Window!EndProbe, Window!CollectorFails, Window!Judge
  <2>2. QED
    BY <1>1, <2>1 DEF Window!Blank, Window!Wrong
<1>6. QED
  BY <1>2, <1>3, <1>4, <1>5 DEF Window!Next

\* The verdict of a probe that a fault outlasted is not success, and a verdict of
\* failure is of a fault.
LEMMA ProbeTells ==
  ASSUME WindowInv, step = "judge"
  PROVE  /\ lasting # {} => Window!Evaluate(snapshot) # Window!Success
         /\ Window!Evaluate(snapshot) = Window!Failure => ever # {}
<1>1. snapshot \in Window!Snapshots /\ "available-single" \in QuoteCases
  BY HarnessAssumption DEF WindowInv, Window!TypeOK, Window!WindowAssumption
<1>2. ASSUME lasting # {} PROVE Window!Evaluate(snapshot) # Window!Success
  <2>1. "data" \in lasting \/ "route" \in lasting \/ "arithmetic" \in lasting
    BY <1>2 DEF WindowInv, LastingIsRead, Window!Faults
  <2>2. \/ snapshot.database # "expected" \/ snapshot.service # "expected"
        \/ snapshot.quotes["available-single"] # "expected"
    BY <2>1 DEF WindowInv, LastingIsRead, ReadDatabases, ReadServices
  <2>3. QED
    BY <1>1, <2>2, UnexpectedIsNoSuccess
<1>3. ASSUME Window!Evaluate(snapshot) = Window!Failure PROVE ever # {}
  <2>1. \/ snapshot.database = "differs" \/ snapshot.service = "differs"
        \/ \E c \in QuoteCases : \/ snapshot.quotes[c] \in Window!Wrong
                                \/ /\ snapshot.quotes[c] = "error"
                                   /\ snapshot.controls["quote_control"] = "expected"
    BY <1>1, <1>3, FailureIsRead
  <2>2. \A c \in QuoteCases : snapshot.quotes[c] = "error" => snapshot.controls["quote_control"] = "error"
    BY DEF WindowInv, ReadsAreFaults, ReadServices
  <2>3. QED
    BY <2>1, <2>2 DEF WindowInv, ReadsAreFaults
<1>4. QED
  BY <1>2, <1>3

\* Whatever a probe ends with, its verdict is kept.
LEMMA JudgeRemembers ==
  ASSUME WindowInv, NEW v, Window!Judge(v), step \notin {"idle", "done"},
         lasting # {} => v # Window!Success, v = Window!Failure => ever # {}
  PROVE  VerdictsRemember' /\ DeadlineIsProbed'
<1> USE DEF Window!Judge
<1>1. VerdictsRemember /\ DeadlineIsProbed /\ step # "done"
  BY DEF WindowInv
<1>2. /\ verdicts' = verdicts \cup {v} /\ overlooked' = overlooked \cup lasting /\ ever' = ever
      /\ since' = since /\ broken' = broken /\ now' = now /\ probe' = probe /\ lasting' = {}
  OBVIOUS
<1>3. step' = "done" => result' = Window!WindowVerdict(verdicts') /\ probe.started >= WindowTicks
  BY DEF Window!Last
<1>4. step' \in {"done", "idle"}
  OBVIOUS
<1>5. VerdictsRemember'
  <2>1. overlooked' # {} => \E u \in verdicts' : u # Window!Success
    BY <1>1, <1>2 DEF VerdictsRemember
  <2>2. Window!Failure \in verdicts' => ever' # {}
    BY <1>1, <1>2 DEF VerdictsRemember
  <2>3. step' = "done" => result' = Window!WindowVerdict(verdicts)'
    BY <1>3 DEF Window!WindowVerdict
  <2>4. QED
    BY <2>1, <2>2, <2>3 DEF VerdictsRemember, Window!Success, Window!Failure
<1>6. DeadlineIsProbed'
  <2>1. step' = "done" => since \subseteq lasting
    BY <1>1, <1>3 DEF DeadlineIsProbed
  <2>2. since' \subseteq broken' \cap Window!Faults \/ step' = "done"
    BY <1>1, <1>2 DEF DeadlineIsProbed
  <2>3. (now' < WindowTicks => since' = {}) /\ probe'.started <= now'
    BY <1>1, <1>2 DEF DeadlineIsProbed
  <2>4. step' = "done" => since' \subseteq overlooked'
    BY <1>2, <2>1
  <2>5. QED
    BY <1>4, <2>2, <2>3, <2>4 DEF DeadlineIsProbed
<1>7. QED
  BY <1>5, <1>6

LEMMA VerdictsStep ==
  ASSUME WindowInv, Window!Next
  PROVE  VerdictsRemember' /\ DeadlineIsProbed'
<1> USE DEF Window!world, Window!seen, Window!history
<1>1. /\ VerdictsRemember /\ DeadlineIsProbed /\ now \in Nat /\ probe.started \in Nat /\ WindowTicks \in Nat
      /\ probe \in [started : 0 .. ClockEnd, count : 0 .. 2] /\ lasting \subseteq broken \cap Window!Faults
  BY HarnessAssumption DEF WindowInv, Window!TypeOK, Window!WindowAssumption, LastingIsRead
<1>2. ASSUME NEW x \in Window!Faults \cup Window!Outages, Window!Change(x)
      PROVE  VerdictsRemember' /\ DeadlineIsProbed'
  BY <1>1, <1>2 DEF Window!Change, Window!Done, VerdictsRemember, DeadlineIsProbed
<1>3. CASE Window!Tick
  <2>1. VerdictsRemember'
    BY <1>1, <1>3 DEF Window!Tick, VerdictsRemember
  <2>2. DeadlineIsProbed'
    BY <1>1, <1>3 DEF Window!Tick, Window!Done, DeadlineIsProbed
  <2>3. QED
    BY <2>1, <2>2
<1>4. CASE Window!StartProbe
  <2>1. VerdictsRemember'
    BY <1>1, <1>4 DEF Window!StartProbe, VerdictsRemember
  <2>2. DeadlineIsProbed'
    BY <1>1, <1>4 DEF Window!StartProbe, DeadlineIsProbed
  <2>3. QED
    BY <2>1, <2>2
<1>5. CASE Window!Read
  <2>1. /\ UNCHANGED <<now, broken, probe, verdicts, result, lasting, overlooked, since, ever>>
        /\ step \notin {"idle", "done"} /\ step' # "done"
    BY <1>5, ReadChanges
  <2>2. QED
    BY <1>1, <2>1 DEF VerdictsRemember, DeadlineIsProbed
<1>6. CASE Window!EndProbe
  BY <1>6, ProbeTells, JudgeRemembers DEF Window!EndProbe
<1>7. CASE Window!CollectorFails
  BY <1>7, JudgeRemembers DEF Window!CollectorFails, Window!Indeterminate, Window!Success, Window!Failure
<1>8. QED
  BY <1>2, <1>3, <1>4, <1>5, <1>6, <1>7 DEF Window!Next

LEMMA VerdictsAreSound == WindowInv => Window!VerdictIsSound
<1> SUFFICES ASSUME WindowInv PROVE Window!VerdictIsSound
  OBVIOUS
<1>1. /\ result # "none" => step = "done" /\ result = Window!WindowVerdict(verdicts)
      /\ verdicts \subseteq {Window!Success, Window!Failure, Window!Indeterminate}
  BY DEF WindowInv, Window!TypeOK, VerdictsRemember
<1>2. ASSUME result = Window!Success PROVE overlooked = {} /\ since = {}
  <2>1. \A v \in verdicts : v = Window!Success
    BY <1>1, <1>2 DEF Window!WindowVerdict, Window!Success, Window!Failure, Window!Indeterminate
  <2>2. overlooked = {}
    BY <2>1 DEF WindowInv, VerdictsRemember
  <2>3. step = "done"
    BY <1>1, <1>2 DEF Window!Success
  <2>4. QED
    BY <2>2, <2>3 DEF WindowInv, DeadlineIsProbed
<1>3. ASSUME result = Window!Failure PROVE ever # {}
  BY <1>1, <1>3 DEF WindowInv, VerdictsRemember, Window!WindowVerdict, Window!Success, Window!Failure,
     Window!Indeterminate
<1>4. QED
  BY <1>2, <1>3 DEF WindowInv, Window!VerdictIsSound, Window!LastingFaultIsNoSuccess,
     Window!FaultAtTheDeadlineIsSeen, Window!FailureWasAFault

\* VerdictsAreTrue: a verification reports no success over a fault that outlasted
\* a probe or was there from the deadline on, and no failure of a service without
\* a fault, however long the window and whatever changes in it (verifier.py).
THEOREM WindowVerdictsAreTrue == Spec => []VerdictsAreTrue
<1> DEFINE Inv == part = "window" => WindowInv
<1>1. Init => Inv
  BY WindowStarts DEF Init
<1>2. Inv /\ [Next]_vars => Inv'
  <2> SUFFICES ASSUME Inv, [Next]_vars PROVE Inv'
    OBVIOUS
  <2>1. CASE part = "window" /\ Window!Next /\ UNCHANGED part
    BY <2>1, WindowTypeStep, LastingStep, ReadsStep, VerdictsStep DEF WindowInv
  <2>2. CASE part # "window" /\ UNCHANGED part
    BY <2>2
  <2>3. CASE UNCHANGED vars
    BY <2>3 DEF vars, window, WindowInv, Window!TypeOK, LastingIsRead, ReadsAreFaults, VerdictsRemember,
       DeadlineIsProbed
  <2>4. QED
    BY <2>1, <2>2, <2>3 DEF Next
<1>3. Inv => VerdictsAreTrue
  BY VerdictsAreSound DEF VerdictsAreTrue
<1>4. QED
  BY <1>1, <1>2, <1>3, PTL DEF Spec

---------------------------------------------------------------------------
(* One trial. *)

BeforeTruth == {"identities", "baseline", "fault_injection", "actor_setup", "actor", "final_verification"}

\* The truth is of what was measured, the score is the truth, and the disk holds
\* what the trial ended with.
ScoreFollowsTruth ==
  /\ truth # "none" => truth = IF measured = {} THEN "success" ELSE "failure"
  /\ during \in {"evidence_export", "scoring", "independent_audit"} => truth # "none"
  /\ during \notin {"independent_audit", "over"} => trial.score = "none"
  /\ trial.score # "none" => truth # "none" /\ trial.score = truth
  /\ during # "over" => saved.status = "running" /\ saved.score = "none"
  /\ during = "over" => saved = trial /\ (trial.score # "none" => trial.status = "recorded")

\* The external actor acts with the trigger, and the export drops a trigger
\* without a lost answer.
TriggerFollowsChange ==
  /\ ~triggered /\ during \in BeforeTruth \cup {"evidence_export"} => changes = 0
  /\ triggered /\ scenario \in Trial!ChangingScenarios => changes = 1
  /\ during \notin BeforeTruth \cup {"evidence_export"} /\ triggered /\ scenario \in Trial!LostAcks =>
       lost \/ (during = "over" /\ trial.status # "recorded")
  /\ during # "over" => trial.status = "running"
  /\ during \in {"identities", "baseline", "fault_injection", "actor_setup"} => actor = "none"

TrialInv == Trial!TypeOK /\ ScoreFollowsTruth /\ TriggerFollowsChange

LEMMA TrialStarts == Trial!Init => TrialInv
<1> SUFFICES ASSUME Trial!Init PROVE TrialInv
  OBVIOUS
<1> USE TrialsAssumption DEF Trial!TrialAssumption, Trial!Init, Trial!Running
<1>1. Trial!TypeOK
  <2>1. resumes \in 0 .. Resumes /\ changes \in 0 .. 1 /\ upsets \in 0 .. TrialMishaps
    OBVIOUS
  <2>2. {trial, saved} \subseteq
          [status : {"running", "recorded", "infrastructure_error", "interrupted"},
           score : {"none", "success", "failure", "unknown"}]
    OBVIOUS
  <2>3. QED
    BY <2>1, <2>2 DEF Trial!TypeOK, Trial!Stages
<1>2. ScoreFollowsTruth /\ TriggerFollowsChange
  BY DEF ScoreFollowsTruth, TriggerFollowsChange, BeforeTruth
<1>3. QED
  BY <1>1, <1>2 DEF TrialInv

LEMMA TrialTypeStep ==
  ASSUME TrialInv, Trial!Next
  PROVE  Trial!TypeOK'
<1> USE DEF Trial!actors, Trial!record, Trial!At, Trial!ToStage, Trial!Stages, Trial!TypeOK
<1>1. Trial!TypeOK /\ TrialMishaps \in Nat /\ Resumes \in Nat
  BY TrialsAssumption DEF TrialInv, Trial!TrialAssumption
<1>2. CASE Trial!Identities \/ Trial!Baseline \/ Trial!Establish \/ Trial!ActorDone
  BY <1>1, <1>2 DEF Trial!Identities, Trial!Baseline, Trial!BeforeActor, Trial!Establish, Trial!ActorDone
<1>3. CASE Trial!Inject \/ Trial!SetUp
  <2>1. damaged' \subseteq Trial!Faults /\ (scenario \in Trial!VerifierOutages) \in BOOLEAN
    BY <1>1, <1>3 DEF Trial!Inject, Trial!SetUp, Trial!Injected
  <2>2. CASE Trial!Inject
    BY <1>1, <2>1, <2>2 DEF Trial!Inject
  <2>3. CASE Trial!SetUp
    BY <1>1, <2>1, <2>3 DEF Trial!SetUp
  <2>4. QED
    BY <1>3, <2>2, <2>3
<1>4. CASE Trial!ActorEnds
  BY <1>1, <1>4 DEF Trial!ActorEnds, Trial!Acting
<1>12. CASE Trial!Killed
  <2>1. upsets' \in 0 .. TrialMishaps
    BY <1>1, <1>12 DEF Trial!Killed
  <2>2. QED
    BY <1>1, <1>12, <2>1 DEF Trial!Killed
<1>5. CASE Trial!Resume
  <2>1. changes' \in 0 .. 1
    BY <1>1, <1>5 DEF Trial!Resume, Trial!Changes, TrialInv, TriggerFollowsChange, BeforeTruth
  <2>2. damaged' \subseteq Trial!Faults
    BY <1>1, <1>5 DEF Trial!Resume, Trial!Changed, Trial!Faults
  <2>3. QED
    BY <1>1, <1>5, <2>1, <2>2 DEF Trial!Resume
<1>6. CASE Trial!FinalVerification \/ Trial!Export
  BY <1>1, <1>6 DEF Trial!FinalVerification, Trial!Truth, Trial!Export, Trial!TriggerReport
<1>7. CASE Trial!Score \/ Trial!Audit
  BY <1>1, <1>7 DEF Trial!Score, Trial!Audit
<1>8. ASSUME NEW how \in {"interrupted", "crashed"}, Trial!ActorStops(how) PROVE Trial!TypeOK'
  BY <1>1, <1>8 DEF Trial!ActorStops, Trial!Acting
<1>9. ASSUME NEW name \in {"observe_service", "propose_repair"}, Trial!Tool(name) PROVE Trial!TypeOK'
  <2>1. changes' \in 0 .. 1
    BY <1>1, <1>9 DEF Trial!Tool, Trial!Acting, TrialInv, TriggerFollowsChange, BeforeTruth
  <2>2. damaged' \subseteq Trial!Faults
    BY <1>1, <1>9 DEF Trial!Tool, Trial!Changed, Trial!Faults
  <2>3. QED
    BY <1>1, <1>9, <2>1, <2>2 DEF Trial!Tool, Trial!Acting, Trial!Withheld
<1>10. ASSUME NEW how \in {"infrastructure_error", "interrupted"}, Trial!Fails(how) PROVE Trial!TypeOK'
  BY <1>1, <1>10 DEF Trial!Fails
<1>11. QED
  BY <1>2, <1>3, <1>4, <1>5, <1>6, <1>7, <1>8, <1>9, <1>10, <1>12 DEF Trial!Next, Trial!Works

LEMMA ScoreStep ==
  ASSUME TrialInv, Trial!Next
  PROVE  ScoreFollowsTruth'
<1> USE DEF Trial!actors, Trial!record, Trial!At, Trial!ToStage, ScoreFollowsTruth
<1>1. ScoreFollowsTruth
  BY DEF TrialInv
<1>2. CASE \/ Trial!Identities \/ Trial!Baseline \/ Trial!Establish \/ Trial!ActorDone
           \/ Trial!Inject \/ Trial!SetUp
  BY <1>1, <1>2 DEF Trial!Identities, Trial!Baseline, Trial!BeforeActor, Trial!Establish, Trial!ActorDone,
     Trial!Inject, Trial!SetUp
<1>3. CASE Trial!ActorEnds \/ Trial!Killed \/ Trial!Resume
  BY <1>1, <1>3 DEF Trial!ActorEnds, Trial!Killed, Trial!Acting, Trial!Resume
<1>4. CASE Trial!FinalVerification
  BY <1>1, <1>4 DEF Trial!FinalVerification, Trial!Truth
<1>5. CASE Trial!Export
  BY <1>1, <1>5 DEF Trial!Export
<1>6. CASE Trial!Score \/ Trial!Audit
  <2>1. trial = [status |-> trial.status, score |-> trial.score]
    BY DEF TrialInv, Trial!TypeOK
  <2>2. QED
    BY <1>1, <1>6, <2>1 DEF Trial!Score, Trial!Audit
<1>7. ASSUME NEW how \in {"interrupted", "crashed"}, Trial!ActorStops(how) PROVE ScoreFollowsTruth'
  BY <1>1, <1>7 DEF Trial!ActorStops, Trial!Acting
<1>8. ASSUME NEW name \in {"observe_service", "propose_repair"}, Trial!Tool(name) PROVE ScoreFollowsTruth'
  BY <1>1, <1>8 DEF Trial!Tool, Trial!Acting
<1>9. ASSUME NEW how \in {"infrastructure_error", "interrupted"}, Trial!Fails(how)
      PROVE  ScoreFollowsTruth'
  BY <1>1, <1>9 DEF Trial!Fails
<1>10. QED
  BY <1>2, <1>3, <1>4, <1>5, <1>6, <1>7, <1>8, <1>9 DEF Trial!Next, Trial!Works

LEMMA TriggerStep ==
  ASSUME TrialInv, Trial!Next
  PROVE  TriggerFollowsChange' /\ Trial!ChangedOnce
<1> USE DEF Trial!actors, Trial!record, Trial!At, Trial!ToStage, TriggerFollowsChange, BeforeTruth, Trial!ChangedOnce
<1>1. /\ TriggerFollowsChange /\ triggered \in BOOLEAN /\ lost \in BOOLEAN /\ changes \in 0 .. 1
      /\ trial = [status |-> trial.status, score |-> trial.score]
  BY DEF TrialInv, Trial!TypeOK
<1>2. CASE \/ Trial!Identities \/ Trial!Baseline \/ Trial!Establish \/ Trial!ActorDone
           \/ Trial!Inject \/ Trial!SetUp
  BY <1>1, <1>2 DEF Trial!Identities, Trial!Baseline, Trial!BeforeActor, Trial!Establish, Trial!ActorDone,
     Trial!Inject, Trial!SetUp
<1>3. CASE Trial!ActorEnds \/ Trial!Killed
  BY <1>1, <1>3 DEF Trial!ActorEnds, Trial!Killed, Trial!Acting
<1>4. CASE Trial!Resume
  <2>1. during = "actor" /\ UNCHANGED <<during, scenario, trial, lost>> /\ actor' = "running"
    BY <1>4 DEF Trial!Resume
  <2>2. CASE actor = "interrupted" /\ scenario \in Trial!ChangingScenarios /\ ~triggered
    <3>1. changes' = changes + 1 /\ triggered'
      BY <1>4, <2>2 DEF Trial!Resume, Trial!Changes
    <3>2. changes = 0
      BY <1>1, <2>1, <2>2
    <3>3. QED
      BY <1>1, <2>1, <2>2, <3>1, <3>2
  <2>3. CASE ~(actor = "interrupted" /\ scenario \in Trial!ChangingScenarios /\ ~triggered)
    <3>1. changes' = changes /\ (triggered' => triggered \/ actor = "interrupted") /\ (triggered => triggered')
      BY <1>4, <2>3 DEF Trial!Resume, Trial!Changes
    <3>2. QED
      BY <1>1, <2>1, <2>3, <3>1
  <2>4. QED
    BY <2>2, <2>3
<1>5. CASE Trial!FinalVerification \/ Trial!Export
  BY <1>1, <1>5 DEF Trial!FinalVerification, Trial!Export, Trial!TriggerReport
<1>6. CASE Trial!Score \/ Trial!Audit
  BY <1>1, <1>6 DEF Trial!Score, Trial!Audit
<1>7. ASSUME NEW how \in {"interrupted", "crashed"}, Trial!ActorStops(how)
      PROVE  TriggerFollowsChange' /\ Trial!ChangedOnce
  BY <1>1, <1>7 DEF Trial!ActorStops, Trial!Acting
<1>8. ASSUME NEW name \in {"observe_service", "propose_repair"}, Trial!Tool(name)
      PROVE  TriggerFollowsChange' /\ Trial!ChangedOnce
  <2>1. during = "actor" /\ UNCHANGED <<during, scenario, trial>>
    BY <1>8 DEF Trial!Tool, Trial!Acting
  <2>2. CASE ~triggered /\ triggered'
    <3>1. changes = 0 /\ changes' = 1
      BY <1>1, <1>8, <2>1, <2>2 DEF Trial!Tool
    <3>2. QED
      BY <1>1, <2>1, <2>2, <3>1
  <2>3. CASE triggered \/ ~triggered'
    <3>1. changes' = changes /\ (triggered' <=> triggered)
      BY <1>1, <1>8, <2>3 DEF Trial!Tool
    <3>2. QED
      BY <1>1, <2>1, <3>1
  <2>4. QED
    BY <2>2, <2>3
<1>9. ASSUME NEW how \in {"infrastructure_error", "interrupted"}, Trial!Fails(how)
      PROVE  TriggerFollowsChange' /\ Trial!ChangedOnce
  BY <1>1, <1>9 DEF Trial!Fails
<1>10. QED
  BY <1>2, <1>3, <1>4, <1>5, <1>6, <1>7, <1>8, <1>9 DEF Trial!Next, Trial!Works

LEMMA TrialsAreSound == TrialInv => Trial!TrialIsSound
<1> SUFFICES ASSUME TrialInv PROVE Trial!TrialIsSound
  OBVIOUS
<1>1. Trial!TypeOK /\ ScoreFollowsTruth /\ TriggerFollowsChange
  BY DEF TrialInv
<1>2. Trial!ScoreIsTheTruth
  BY <1>1 DEF Trial!ScoreIsTheTruth, ScoreFollowsTruth
<1>3. Trial!ReportedTriggerHappened
  <2>1. saved.status = "recorded" => during = "over" /\ saved = trial
    BY <1>1 DEF ScoreFollowsTruth
  <2>2. QED
    BY <1>1, <2>1 DEF Trial!ReportedTriggerHappened, TriggerFollowsChange, BeforeTruth
<1>4. QED
  BY <1>1, <1>2, <1>3 DEF Trial!TrialIsSound

\* TrialsAreTrue: a trial's score is of the state the actor left, the system was
\* changed under it at most once, and an interruption it reports happened,
\* however often the actor crashes and is resumed (run_trial).
THEOREM EveryTrialIsTrue == Spec => TrialsAreTrue
<1> DEFINE Inv == part = "trial" => TrialInv
           Once == part = "trial" => Trial!ChangedOnce
<1>1. Init => Inv
  BY TrialStarts DEF Init
<1>2. Inv /\ [Next]_vars => Inv' /\ [Once]_vars
  <2> SUFFICES ASSUME Inv, [Next]_vars PROVE Inv' /\ [Once]_vars
    OBVIOUS
  <2>1. CASE part = "trial" /\ Trial!Next /\ UNCHANGED part
    BY <2>1, TrialTypeStep, ScoreStep, TriggerStep DEF TrialInv
  <2>2. CASE part # "trial" /\ UNCHANGED part
    BY <2>2
  <2>3. CASE UNCHANGED vars
    BY <2>3 DEF vars, trials, TrialInv, Trial!TypeOK, ScoreFollowsTruth, TriggerFollowsChange
  <2>4. QED
    BY <2>1, <2>2, <2>3 DEF Next
<1>3. Inv => (part = "trial" => Trial!TrialIsSound)
  BY TrialsAreSound
<1>4. QED
  BY <1>1, <1>2, <1>3, PTL DEF Spec, TrialsAreTrue

---------------------------------------------------------------------------
(* The check of crash recovery. *)

\* The worker goes no further than its barrier, and reports nothing before it.
WorkerStopsAtBarrier ==
  /\ Barrier!Barrier(progress) => worker # "running"
  /\ worker \in {"barrier", "paused"} \/ pipe \in {"part", "barrier"} => Barrier!Barrier(progress)

\* The controller kills only what has reported, and goes on only with the dead.
KilledAfterReport ==
  /\ controller = "kill" => pipe = "barrier"
  /\ controller \in {"inspect", "recover"} =>
       worker = "killed" /\ killedAt = progress /\ Barrier!Barrier(progress)
  /\ controller = "over" => worker \in {"exited", "killed"}
  /\ verdict = "passed" => controller = "over"

BarrierInv == Barrier!TypeOK /\ WorkerStopsAtBarrier /\ KilledAfterReport /\ Barrier!PassedIsEvidence

LEMMA BarrierStarts == Barrier!Init => BarrierInv
<1> SUFFICES ASSUME Barrier!Init PROVE BarrierInv
  OBVIOUS
<1> USE HarnessAssumption DEF Barrier!BarrierAssumption, Barrier!Init
<1>1. waited \in 0 .. BarrierTimeout /\ misdeeds \in 0 .. BarrierMisdeeds
  OBVIOUS
<1>2. Barrier!TypeOK
  BY <1>1 DEF Barrier!TypeOK, Barrier!Progress
<1>3. WorkerStopsAtBarrier /\ KilledAfterReport /\ Barrier!PassedIsEvidence
  BY DEF WorkerStopsAtBarrier, KilledAfterReport, Barrier!PassedIsEvidence, Barrier!Barrier, Barrier!Stages
<1>4. QED
  BY <1>2, <1>3 DEF BarrierInv

LEMMA WorkerStep ==
  ASSUME BarrierInv, Barrier!WorkerSteps
  PROVE  BarrierInv'
<1> USE DEF Barrier!TypeOK, WorkerStopsAtBarrier, KilledAfterReport, Barrier!PassedIsEvidence
<1>1. /\ Barrier!TypeOK /\ WorkerStopsAtBarrier /\ KilledAfterReport /\ Barrier!PassedIsEvidence
      /\ UNCHANGED <<stage, controller, waited, verdict, killedAt>> /\ BarrierMisdeeds \in Nat
  BY HarnessAssumption DEF BarrierInv, Barrier!WorkerSteps, Barrier!BarrierAssumption
<1>2. misdeeds' \in 0 .. BarrierMisdeeds
  BY <1>1 DEF Barrier!WorkerSteps, Barrier!Misbehave
<1>3. ASSUME NEW from, NEW to \in Barrier!Progress, Barrier!Advances(from, to), ~Barrier!Barrier(from),
             journal' \in {"none", "prepared", "dispatching", "rejected", "uncertain", "unreadable"},
             sent' \in [worker : 0 .. 1, reopened : 0 .. 1]
      PROVE  BarrierInv'
  <2>1. /\ worker = "running" /\ progress' = to /\ pipe' = pipe
        /\ worker' = IF Barrier!Barrier(to) THEN "barrier" ELSE "running"
    BY <1>3 DEF Barrier!Advances
  <2>2. Barrier!TypeOK'
    BY <1>1, <1>2, <1>3, <2>1
  <2>3. pipe' \notin {"part", "barrier"} /\ controller \notin {"inspect", "recover", "over"}
    BY <1>1, <2>1
  <2>4. Barrier!Barrier(progress)' <=> Barrier!Barrier(to)
    BY <1>1, <2>1 DEF Barrier!Barrier
  <2>5. WorkerStopsAtBarrier' /\ KilledAfterReport' /\ Barrier!PassedIsEvidence'
    BY <1>1, <2>1, <2>3, <2>4
  <2>6. QED
    BY <2>2, <2>5 DEF BarrierInv
<1>4. CASE Barrier!Prepare \/ Barrier!Claim \/ Barrier!Patch
  <2>1. \E from, to \in Barrier!Progress : Barrier!Advances(from, to) /\ ~Barrier!Barrier(from)
    <3>1. worker = "running" /\ ~Barrier!Barrier(progress)
      BY <1>1, <1>4 DEF Barrier!Prepare, Barrier!Claim, Barrier!Patch, Barrier!Advances
    <3>2. QED
      BY <1>4, <3>1 DEF Barrier!Prepare, Barrier!Claim, Barrier!Patch, Barrier!Advances, Barrier!Progress
  <2>2. /\ journal' \in {"none", "prepared", "dispatching", "rejected", "uncertain", "unreadable"}
        /\ sent' \in [worker : 0 .. 1, reopened : 0 .. 1]
    BY <1>1, <1>4 DEF Barrier!Prepare, Barrier!Claim, Barrier!Patch
  <2>3. QED
    BY <1>3, <2>1, <2>2
<1>5. CASE Barrier!Report \/ Barrier!Deliver \/ Barrier!Misbehave
  <2>1. UNCHANGED <<progress, sent, journal>>
    BY <1>5 DEF Barrier!Report, Barrier!Deliver, Barrier!Misbehave
  <2>2. /\ worker' \in {worker, "paused", "hung", "exited"} /\ (worker' # worker => worker \in {"running", "barrier"})
        /\ (worker' = "paused" => worker \in {"barrier", "paused"})
        /\ (pipe' # pipe => pipe \in {"empty", "part"}) /\ pipe' \in {pipe, "part", "barrier", "other"}
        /\ (pipe' \in {"part", "barrier"} => worker = "barrier" \/ pipe \in {"part", "barrier"})
    BY <1>5 DEF Barrier!Report, Barrier!Deliver, Barrier!Misbehave
  <2>3. Barrier!TypeOK'
    BY <1>1, <1>2, <2>1, <2>2
  <2>4. Barrier!Barrier(progress)' <=> Barrier!Barrier(progress)
    BY <1>1, <2>1 DEF Barrier!Barrier
  <2>5. WorkerStopsAtBarrier' /\ KilledAfterReport' /\ Barrier!PassedIsEvidence'
    BY <1>1, <2>1, <2>2, <2>4
  <2>6. QED
    BY <2>3, <2>5 DEF BarrierInv
<1>6. QED
  BY <1>4, <1>5 DEF Barrier!WorkerSteps

LEMMA ControllerStep ==
  ASSUME BarrierInv, Barrier!Controller
  PROVE  BarrierInv'
<1> USE DEF Barrier!TypeOK, WorkerStopsAtBarrier, KilledAfterReport, Barrier!PassedIsEvidence, Barrier!Controls,
            Barrier!Quiet, Barrier!child
<1>1. /\ Barrier!TypeOK /\ WorkerStopsAtBarrier /\ KilledAfterReport /\ Barrier!PassedIsEvidence
      /\ BarrierMisdeeds \in Nat /\ BarrierTimeout \in Nat
  BY HarnessAssumption DEF BarrierInv, Barrier!BarrierAssumption
<1>2. stage' = stage /\ (progress' = progress => (Barrier!Barrier(progress)' <=> Barrier!Barrier(progress)))
  BY DEF Barrier!Controller, Barrier!Barrier, Barrier!ReadLine, Barrier!EndOfFile, Barrier!Wait, Barrier!Expire,
     Barrier!Kill, Barrier!CleanUp, Barrier!Inspect, Barrier!Recover
<1>3. CASE Barrier!ReadLine \/ Barrier!EndOfFile \/ Barrier!Expire
  BY <1>1, <1>2, <1>3 DEF BarrierInv, Barrier!ReadLine, Barrier!EndOfFile, Barrier!Expire
<1>4. CASE Barrier!Wait
  <2>1. waited' \in 0 .. BarrierTimeout
    BY <1>1, <1>4 DEF Barrier!Wait
  <2>2. QED
    BY <1>1, <1>2, <1>4, <2>1 DEF BarrierInv, Barrier!Wait
<1>5. CASE Barrier!Kill
  BY <1>1, <1>2, <1>5 DEF BarrierInv, Barrier!Kill, Barrier!Dead
<1>6. CASE Barrier!CleanUp
  BY <1>1, <1>2, <1>6 DEF BarrierInv, Barrier!CleanUp, Barrier!Dead
<1>7. CASE Barrier!Inspect
  BY <1>1, <1>2, <1>7 DEF BarrierInv, Barrier!Inspect
<1>8. CASE Barrier!Recover
  <2>1. /\ controller = "recover" /\ controller' = "over" /\ worker = "killed" /\ killedAt = progress
        /\ UNCHANGED <<worker, progress, pipe, waited, killedAt>> /\ Barrier!Barrier(progress)
    BY <1>1, <1>8 DEF Barrier!Recover
  <2>2. sent' \in [worker : 0 .. 1, reopened : 0 .. 1] /\ misdeeds' \in 0 .. BarrierMisdeeds
    BY <1>1, <1>8 DEF Barrier!Recover
  <2>3. journal' \in {"none", "prepared", "dispatching", "rejected", "uncertain", "unreadable"}
        /\ verdict' \in {"passed", "failed"}
    BY <1>1, <1>8 DEF Barrier!Recover
  <2>4. verdict' = "passed" => sent' = [worker |-> IF stage = "after_intent" THEN 0 ELSE 1, reopened |-> 0]
    BY <1>8, <2>2 DEF Barrier!Recover, Barrier!Accepted
  <2>5. killedAt = IF stage = "after_intent" THEN "prepared" ELSE "patched"
    BY <2>1 DEF Barrier!Barrier
  <2>6. QED
    BY <1>1, <1>2, <2>1, <2>2, <2>3, <2>4, <2>5 DEF BarrierInv
<1>9. QED
  BY <1>3, <1>4, <1>5, <1>6, <1>7, <1>8 DEF Barrier!Controller

LEMMA ChecksAreSound == BarrierInv => Barrier!CheckIsSound
BY DEF BarrierInv, Barrier!CheckIsSound, Barrier!KilledAtItsBarrier, Barrier!NoWorkerLeft, KilledAfterReport,
   Barrier!Barrier

---------------------------------------------------------------------------
(* The acceptance run. *)

\* run_demo's script, step by step.
LEMMA ScriptSteps ==
  /\ DOMAIN Acceptance!Script = 1 .. 19 /\ Len(Acceptance!Script) = 19
  /\ \A i \in 1 .. 19 : Acceptance!Script[i].do \in {"set", "clear"} =>
       i \in {2, 5, 7, 10, 12, 13, 15}
  /\ Acceptance!Script[2] = Acceptance!Set("route") /\ Acceptance!Script[5] = Acceptance!Set("route")
  /\ Acceptance!Script[7] = Acceptance!Clear("route") /\ Acceptance!Script[10] = Acceptance!Set("arithmetic")
  /\ Acceptance!Script[12] = Acceptance!Clear("arithmetic") /\ Acceptance!Script[13] = Acceptance!Set("data")
  /\ Acceptance!Script[15] = Acceptance!Clear("data")
  /\ \A i \in 1 .. 19 : Acceptance!Script[i].do = "phase" => i \in {1, 4, 6, 9, 11, 14, 16, 19}
  /\ Acceptance!Script[1] = Acceptance!Phase("healthy", Acceptance!Success)
  /\ Acceptance!Script[4] = Acceptance!Phase("routing-fault", Acceptance!Failure)
  /\ Acceptance!Script[6] = Acceptance!Phase("noop-repair", Acceptance!Failure)
  /\ Acceptance!Script[9] = Acceptance!Phase("scripted-recovery", Acceptance!Success)
  /\ Acceptance!Script[11] = Acceptance!Phase("wrong-http200-total", Acceptance!Failure)
  /\ Acceptance!Script[14] = Acceptance!Phase("protected-data-changed", Acceptance!Failure)
  /\ Acceptance!Script[16] = Acceptance!Phase("verifier-outage", Acceptance!Indeterminate)
  /\ Acceptance!Script[19] = Acceptance!Phase("final-recovery", Acceptance!Success)
  /\ \A i \in 1 .. 19 : Acceptance!Script[i].do = "broker" => i = 17
  /\ \A i \in 1 .. 19 : Acceptance!Script[i].do = "await" => i \in {3, 8, 18}
  /\ Acceptance!Script[3] = Acceptance!Await("fault") /\ Acceptance!Script[8] = Acceptance!Await("recovery")
  /\ Acceptance!Script[18] = Acceptance!Await("recovery")
<1> USE DEF Acceptance!Script, Acceptance!Set, Acceptance!Clear, Acceptance!Phase, Acceptance!Await
<1>1. DOMAIN Acceptance!Script = 1 .. 19 /\ Len(Acceptance!Script) = 19
  OBVIOUS
<1>2. \A i \in 1 .. 19 : \/ i = 1 \/ i = 2 \/ i = 3 \/ i = 4 \/ i = 5 \/ i = 6 \/ i = 7 \/ i = 8 \/ i = 9 \/ i = 10
                         \/ i = 11 \/ i = 12 \/ i = 13 \/ i = 14 \/ i = 15 \/ i = 16 \/ i = 17 \/ i = 18 \/ i = 19
  OBVIOUS
<1>3. /\ Acceptance!Script[1].do = "phase" /\ Acceptance!Script[2].do = "set" /\ Acceptance!Script[3].do = "await"
      /\ Acceptance!Script[4].do = "phase" /\ Acceptance!Script[5].do = "set" /\ Acceptance!Script[6].do = "phase"
      /\ Acceptance!Script[7].do = "clear" /\ Acceptance!Script[8].do = "await" /\ Acceptance!Script[9].do = "phase"
      /\ Acceptance!Script[10].do = "set" /\ Acceptance!Script[11].do = "phase" /\ Acceptance!Script[12].do = "clear"
      /\ Acceptance!Script[13].do = "set" /\ Acceptance!Script[14].do = "phase" /\ Acceptance!Script[15].do = "clear"
      /\ Acceptance!Script[16].do = "phase" /\ Acceptance!Script[17].do = "broker" /\ Acceptance!Script[18].do = "await"
      /\ Acceptance!Script[19].do = "phase"
  OBVIOUS
<1>4. \A i \in 1 .. 19 : Acceptance!Script[i].do \in {"set", "clear"} => i \in {2, 5, 7, 10, 12, 13, 15}
  <2> HIDE DEF Acceptance!Script
  <2>1. QED
    BY ONLY <1>2, <1>3
<1>5. /\ \A i \in 1 .. 19 : Acceptance!Script[i].do = "phase" => i \in {1, 4, 6, 9, 11, 14, 16, 19}
      /\ \A i \in 1 .. 19 : Acceptance!Script[i].do = "broker" => i = 17
      /\ \A i \in 1 .. 19 : Acceptance!Script[i].do = "await" => i \in {3, 8, 18}
  <2> HIDE DEF Acceptance!Script
  <2>1. \A i \in 1 .. 19 : Acceptance!Script[i].do = "phase" => i \in {1, 4, 6, 9, 11, 14, 16, 19}
    BY ONLY <1>2, <1>3
  <2>2. \A i \in 1 .. 19 : Acceptance!Script[i].do = "broker" => i = 17
    BY ONLY <1>2, <1>3
  <2>3. \A i \in 1 .. 19 : Acceptance!Script[i].do = "await" => i \in {3, 8, 18}
    BY ONLY <1>2, <1>3
  <2>4. QED
    BY ONLY <2>1, <2>2, <2>3
<1>6. /\ Acceptance!Script[2] = Acceptance!Set("route") /\ Acceptance!Script[5] = Acceptance!Set("route")
      /\ Acceptance!Script[7] = Acceptance!Clear("route") /\ Acceptance!Script[10] = Acceptance!Set("arithmetic")
      /\ Acceptance!Script[12] = Acceptance!Clear("arithmetic") /\ Acceptance!Script[13] = Acceptance!Set("data")
      /\ Acceptance!Script[15] = Acceptance!Clear("data")
  OBVIOUS
<1>7. /\ Acceptance!Script[1] = Acceptance!Phase("healthy", Acceptance!Success)
      /\ Acceptance!Script[4] = Acceptance!Phase("routing-fault", Acceptance!Failure)
      /\ Acceptance!Script[6] = Acceptance!Phase("noop-repair", Acceptance!Failure)
      /\ Acceptance!Script[9] = Acceptance!Phase("scripted-recovery", Acceptance!Success)
      /\ Acceptance!Script[11] = Acceptance!Phase("wrong-http200-total", Acceptance!Failure)
      /\ Acceptance!Script[14] = Acceptance!Phase("protected-data-changed", Acceptance!Failure)
      /\ Acceptance!Script[16] = Acceptance!Phase("verifier-outage", Acceptance!Indeterminate)
      /\ Acceptance!Script[19] = Acceptance!Phase("final-recovery", Acceptance!Success)
  OBVIOUS
<1>8. /\ Acceptance!Script[3] = Acceptance!Await("fault") /\ Acceptance!Script[8] = Acceptance!Await("recovery")
      /\ Acceptance!Script[18] = Acceptance!Await("recovery")
  OBVIOUS
<1> HIDE DEF Acceptance!Script, Acceptance!Set, Acceptance!Clear, Acceptance!Phase, Acceptance!Await
<1>9. QED
  BY ONLY <1>1, <1>4, <1>5, <1>6, <1>7, <1>8

\* The fault that the script has injected before its step p.
LabAt(p) == IF p \in 3 .. 7 THEN {"route"}
            ELSE IF p \in 11 .. 12 THEN {"arithmetic"}
            ELSE IF p \in 14 .. 15 THEN {"data"} ELSE {}

\* What the run has come past has passed.
ScriptPassed ==
  /\ pc > 1 => phases["healthy"] = "passed"
  /\ pc > 4 => phases["routing-fault"] = "passed"
  /\ pc > 6 => phases["noop-repair"] = "passed"
  /\ pc > 9 => phases["scripted-recovery"] = "passed"
  /\ pc > 11 => phases["wrong-http200-total"] = "passed"
  /\ pc > 14 => phases["protected-data-changed"] = "passed"
  /\ pc > 16 => phases["verifier-outage"] = "passed"
  /\ pc > 19 => phases["final-recovery"] = "passed"
  /\ pc > 17 => broker = "passed"
  /\ status = "passed" => pc = 20
  /\ mode = "run" => status # "failed"
  /\ settled \subseteq {"http_503"} \/ status = "failed"

\* The cluster is there from the first step of the script to the clean-up, and
\* what is stored of its end is so.
ClusterFollows ==
  /\ mode = "run" /\ pc = 0 => cluster = "none"
  /\ mode # "over" /\ pc > 0 => cluster = "made"
  /\ pc > 0 => recorded
  /\ ~recorded => cluster = "none"
  /\ mode # "over" => stored = [status |-> "running", cleanup |-> "pending"]
  /\ stored.status = "passed" =>
       /\ status = "passed" /\ stored.cleanup = (IF keep THEN "kept" ELSE "deleted")
       /\ cluster = (IF keep THEN "made" ELSE "deleted")
  /\ stored.cleanup \in {"deleted", "not_created"} => cluster # "made"

\* As long as nothing went wrong, the lab is as the script has left it.
LabAsScripted ==
  mishaps = LabMishaps =>
    /\ unsound = {}
    /\ mode = "run" =>
         /\ injected = LabAt(pc) /\ ~stray
         /\ pc \in 4 .. 7 => path = "http_503"
         /\ pc \in (0 .. 2) \cup (9 .. 17) \cup (19 .. 20) => path = "expected"

AcceptInv == Acceptance!TypeOK /\ ScriptPassed /\ ClusterFollows /\ LabAsScripted

LEMMA AcceptanceStarts == Acceptance!Init => AcceptInv
<1> SUFFICES ASSUME Acceptance!Init PROVE AcceptInv
  OBVIOUS
<1> USE HarnessAssumption, ScriptSteps DEF Acceptance!AcceptanceAssumption, Acceptance!Init
<1>1. checks \in 0 .. LabPatience /\ mishaps \in 0 .. LabMishaps /\ pc \in 0 .. 20
  OBVIOUS
<1>2. Acceptance!TypeOK
  <2>1. phases \in [Acceptance!Phases -> {"none", "passed", "failed"}]
    OBVIOUS
  <2>2. stored \in [status : Acceptance!Statuses, cleanup : Acceptance!Cleanups] /\ status \in Acceptance!Statuses
    BY DEF Acceptance!Statuses, Acceptance!Cleanups
  <2>3. /\ keep \in BOOLEAN /\ pc \in 0 .. (Len(Acceptance!Script) + 1) /\ mode = "run" /\ injected = {} /\ stray = FALSE
        /\ path = "expected" /\ broker = "none" /\ recorded = FALSE /\ cluster = "none" /\ settled = {} /\ unsound = {}
        /\ stored.status = "running"
    BY <1>1
  <2>4. QED
    BY ONLY <1>1, <2>1, <2>2, <2>3 DEF Acceptance!TypeOK
<1>3. ScriptPassed /\ ClusterFollows /\ LabAsScripted
  BY DEF ScriptPassed, ClusterFollows, LabAsScripted, LabAt
<1>4. QED
  BY <1>2, <1>3 DEF AcceptInv

\* A step that leaves the place in the script alone.
LEMMA AcceptFrame ==
  ASSUME AcceptInv, UNCHANGED <<keep, pc, phases, broker, settled, unsound, recorded>>, mode' # "run"
  PROVE  /\ status' # "passed" /\ (status = "failed" => status' = "failed") => ScriptPassed'
         /\ status' = status => ScriptPassed'
         /\ mishaps' # LabMishaps \/ mishaps' = mishaps => LabAsScripted'
BY DEF AcceptInv, ScriptPassed, LabAsScripted

\* Each step of the script that goes on leaves the lab as the next one finds it.
LEMMA GoSteps ==
  ASSUME AcceptInv, mode = "run", pc \in 0 .. 19, Acceptance!Go
  PROVE  /\ pc' = pc + 1 /\ pc' \in 1 .. 20 /\ mode' = "run"
         /\ status' \in Acceptance!Statuses /\ (status' = "passed" => pc' = 20)
         /\ status' # "failed" /\ settled \subseteq {"http_503"}
BY ScriptSteps DEF AcceptInv, Acceptance!TypeOK, Acceptance!Statuses, Acceptance!Go, ScriptPassed

LEMMA MishapsLeft ==
  ASSUME AcceptInv, mishaps > 0, mishaps' = mishaps - 1
  PROVE  mishaps' \in 0 .. LabMishaps /\ mishaps' # LabMishaps
BY HarnessAssumption DEF AcceptInv, Acceptance!TypeOK, Acceptance!AcceptanceAssumption

LEMMA OutsideScriptStep ==
  ASSUME AcceptInv,
         \/ Acceptance!Finish \/ Acceptance!RecordEnvironment \/ Acceptance!CallFails
         \/ Acceptance!Interrupt \/ Acceptance!InterruptCleanUp
         \/ \E c \in Acceptance!Cleanups : Acceptance!CleanUp(c)
  PROVE  AcceptInv'
<1> USE DEF Acceptance!lab, Acceptance!report, Acceptance!history
<1>1. /\ Acceptance!TypeOK /\ ScriptPassed /\ ClusterFollows /\ LabAsScripted /\ LabMishaps \in Nat
      /\ Len(Acceptance!Script) = 19 /\ DOMAIN Acceptance!Script = 1 .. 19
  BY HarnessAssumption, ScriptSteps DEF AcceptInv, Acceptance!AcceptanceAssumption
<1>2. CASE Acceptance!Finish \/ Acceptance!Interrupt
  <2>1. /\ mode' = "cleanup" /\ mode = "run"
        /\ UNCHANGED <<pc, keep, injected, stray, path, checks, phases, broker, status, stored, recorded, cluster,
                       settled, unsound>>
        /\ mishaps' = mishaps \/ (mishaps > 0 /\ mishaps' = mishaps - 1)
    BY <1>2 DEF Acceptance!Finish, Acceptance!Interrupt
  <2>2. mishaps' \in 0 .. LabMishaps /\ (mishaps' = LabMishaps => mishaps' = mishaps)
    BY <1>1, <2>1, MishapsLeft DEF Acceptance!TypeOK
  <2>3. Acceptance!TypeOK'
    BY <1>1, <2>1, <2>2 DEF Acceptance!TypeOK
  <2>4. ScriptPassed' /\ LabAsScripted'
    BY <2>1, <2>2, AcceptFrame
  <2>5. ClusterFollows'
    BY <1>1, <2>1 DEF ClusterFollows
  <2>6. QED
    BY <2>3, <2>4, <2>5 DEF AcceptInv
<1>3. CASE Acceptance!RecordEnvironment
  <2>1. /\ mode = "run" /\ pc = 0 /\ ~recorded /\ recorded' = TRUE
        /\ UNCHANGED <<pc, mode, keep, injected, stray, path, checks, phases, broker, status, stored, cluster,
                       settled, unsound, mishaps>>
    BY <1>3 DEF Acceptance!RecordEnvironment
  <2>2. Acceptance!TypeOK'
    BY <1>1, <2>1 DEF Acceptance!TypeOK
  <2>3. ScriptPassed' /\ LabAsScripted' /\ ClusterFollows'
    BY <1>1, <2>1 DEF ScriptPassed, LabAsScripted, ClusterFollows, LabAt
  <2>4. QED
    BY <2>2, <2>3 DEF AcceptInv
<1>4. CASE Acceptance!CallFails
  <2>1. /\ mode = "run" /\ mode' = "cleanup" /\ status' = "failed" /\ mishaps > 0 /\ mishaps' = mishaps - 1
        /\ UNCHANGED <<pc, keep, injected, stray, path, checks, phases, broker, stored, recorded, cluster,
                       settled, unsound>>
    BY <1>4 DEF Acceptance!CallFails, Acceptance!Running, Acceptance!Fail
  <2>2. mishaps' \in 0 .. LabMishaps /\ mishaps' # LabMishaps
    BY <2>1, MishapsLeft
  <2>3. stored' = [status |-> "running", cleanup |-> "pending"]
    BY <1>1, <2>1 DEF ClusterFollows
  <2>4. Acceptance!TypeOK'
    BY <1>1, <2>1, <2>2, <2>3 DEF Acceptance!TypeOK, Acceptance!Statuses
  <2>5. ScriptPassed' /\ LabAsScripted'
    BY <2>1, <2>2, AcceptFrame
  <2>6. ClusterFollows'
    BY <1>1, <2>1, <2>3 DEF ClusterFollows
  <2>7. QED
    BY <2>4, <2>5, <2>6 DEF AcceptInv
<1>5. CASE Acceptance!InterruptCleanUp
  <2>1. /\ mode = "cleanup" /\ mode' = "over" /\ mishaps > 0 /\ mishaps' = mishaps - 1
        /\ cluster' \in {cluster, "deleted"} /\ (~recorded => cluster' = cluster)
        /\ UNCHANGED <<pc, keep, injected, stray, path, checks, phases, broker, status, stored, recorded,
                       settled, unsound>>
    BY <1>5 DEF Acceptance!InterruptCleanUp
  <2>2. mishaps' \in 0 .. LabMishaps /\ mishaps' # LabMishaps
    BY <2>1, MishapsLeft
  <2>3. Acceptance!TypeOK'
    BY <1>1, <2>1, <2>2 DEF Acceptance!TypeOK
  <2>4. ScriptPassed' /\ LabAsScripted'
    BY <2>1, <2>2, AcceptFrame
  <2>5. ClusterFollows'
    BY <1>1, <2>1 DEF ClusterFollows
  <2>6. QED
    BY <2>3, <2>4, <2>5 DEF AcceptInv
<1>6. ASSUME NEW c \in Acceptance!Cleanups, Acceptance!CleanUp(c) PROVE AcceptInv'
  <2>1. /\ mode = "cleanup" /\ mode' = "over" /\ stored' = [status |-> status', cleanup |-> c]
        /\ UNCHANGED <<pc, keep, injected, stray, path, checks, phases, broker, recorded, settled, unsound>>
    BY <1>6 DEF Acceptance!CleanUp
  <2>2. /\ mishaps' = mishaps \/ (mishaps > 0 /\ mishaps' = mishaps - 1)
        /\ cluster' = (IF c = "deleted" THEN "deleted" ELSE cluster)
        /\ status' = (IF c = "failed" THEN "failed" ELSE IF status = "running" THEN "interrupted" ELSE status)
    BY <1>6 DEF Acceptance!CleanUp, Acceptance!Final
  <2>3. /\ ~recorded => c = "not_created"
        /\ recorded => c = (IF keep THEN "kept" ELSE c) /\ c \in {"kept", "deleted", "failed"}
        /\ recorded /\ ~keep => c \in {"deleted", "failed"}
    BY <1>6 DEF Acceptance!CleanUp
  <2>4. mishaps' \in 0 .. LabMishaps /\ (mishaps' = LabMishaps => mishaps' = mishaps)
    BY <1>1, <2>2, MishapsLeft DEF Acceptance!TypeOK
  <2>5. Acceptance!TypeOK'
    <3>1. status' \in Acceptance!Statuses /\ cluster' \in {"none", "made", "deleted"}
      BY <1>1, <2>2 DEF Acceptance!TypeOK, Acceptance!Statuses
    <3>2. QED
      BY <1>1, <2>1, <2>4, <3>1 DEF Acceptance!TypeOK
  <2>6. status' = "passed" => status = "passed" /\ c # "failed"
    BY <2>2
  <2>7. LabAsScripted'
    BY <2>1, <2>4, AcceptFrame
  <2>8. ScriptPassed'
    <3>1. CASE status' = status
      BY <2>1, <3>1, AcceptFrame
    <3>2. CASE status' # status
      BY <2>1, <2>2, <2>6, <3>2, AcceptFrame
    <3>3. QED
      BY <3>1, <3>2
  <2>9. ClusterFollows'
    <3>1. status' = "passed" => pc = 20 /\ recorded /\ cluster = "made"
      BY <1>1, <2>1, <2>6 DEF ScriptPassed, ClusterFollows
    <3>2. keep \in BOOLEAN /\ recorded \in BOOLEAN
      BY <1>1 DEF Acceptance!TypeOK
    <3>3. stored'.status = "passed" =>
            /\ status' = "passed" /\ stored'.cleanup = (IF keep THEN "kept" ELSE "deleted")
            /\ cluster' = (IF keep THEN "made" ELSE "deleted")
      BY <2>1, <2>2, <2>3, <2>6, <3>1, <3>2
    <3>4. stored'.cleanup \in {"deleted", "not_created"} => cluster' # "made"
      BY <1>1, <2>1, <2>2, <2>3 DEF ClusterFollows
    <3>5. ~recorded => cluster' = "none"
      BY <1>1, <2>2, <2>3 DEF ClusterFollows
    <3>6. QED
      BY <1>1, <2>1, <3>3, <3>4, <3>5 DEF ClusterFollows
  <2>10. QED
    BY <2>5, <2>7, <2>8, <2>9 DEF AcceptInv
<1>7. QED
  BY <1>2, <1>3, <1>4, <1>5, <1>6

LEMMA CreateStep ==
  ASSUME AcceptInv, NEW works \in BOOLEAN, Acceptance!Create(works)
  PROVE  AcceptInv'
<1> USE DEF Acceptance!lab, Acceptance!report, Acceptance!history
<1>1. /\ Acceptance!TypeOK /\ ScriptPassed /\ ClusterFollows /\ LabAsScripted /\ LabMishaps \in Nat
      /\ Len(Acceptance!Script) = 19 /\ DOMAIN Acceptance!Script = 1 .. 19
  BY HarnessAssumption, ScriptSteps DEF AcceptInv, Acceptance!AcceptanceAssumption
<1>2. /\ mode = "run" /\ pc = 0 /\ recorded /\ cluster = "none"
      /\ UNCHANGED <<recorded, keep, injected, stray, path, checks, phases, broker, stored, settled, unsound>>
      /\ stored = [status |-> "running", cleanup |-> "pending"]
  BY <1>1 DEF Acceptance!Create, ClusterFollows
<1>3. CASE works
  <2>1. Acceptance!Go /\ mishaps' = mishaps /\ cluster' = "made"
    BY <1>3 DEF Acceptance!Create
  <2>2. pc' = 1 /\ mode' = "run" /\ status' \in Acceptance!Statuses /\ status' \notin {"passed", "failed"}
        /\ settled \subseteq {"http_503"}
    BY <1>2, <2>1, GoSteps
  <2>3. Acceptance!TypeOK'
    BY <1>1, <1>2, <2>1, <2>2 DEF Acceptance!TypeOK
  <2>4. \A p \in {"healthy"} : ScriptPassed
    BY <1>1
  <2>5. ScriptPassed'
    BY <1>1, <1>2, <2>1, <2>2 DEF ScriptPassed
  <2>6. ClusterFollows' /\ LabAsScripted'
    BY <1>1, <1>2, <2>1, <2>2 DEF ClusterFollows, LabAsScripted, LabAt
  <2>7. QED
    BY <2>3, <2>5, <2>6 DEF AcceptInv
<1>4. CASE ~works
  <2>1. /\ mishaps > 0 /\ mishaps' = mishaps - 1 /\ cluster' \in {"none", "made"}
        /\ mode' = "cleanup" /\ status' = "failed" /\ pc' = pc
    BY <1>4 DEF Acceptance!Create, Acceptance!Fail
  <2>2. mishaps' \in 0 .. LabMishaps /\ mishaps' # LabMishaps
    BY <2>1, MishapsLeft
  <2>3. Acceptance!TypeOK'
    BY <1>1, <1>2, <2>1, <2>2 DEF Acceptance!TypeOK, Acceptance!Statuses
  <2>4. ScriptPassed' /\ LabAsScripted'
    BY <1>2, <2>1, <2>2, AcceptFrame
  <2>5. ClusterFollows'
    BY <1>1, <1>2, <2>1 DEF ClusterFollows
  <2>6. QED
    BY <2>3, <2>4, <2>5 DEF AcceptInv
<1>5. QED
  BY <1>3, <1>4

\* What happens beside the script: the route converges, or something breaks.
LEMMA LabStep ==
  ASSUME AcceptInv, Acceptance!Converge \/ Acceptance!Stray
  PROVE  AcceptInv'
<1> USE DEF Acceptance!report, Acceptance!history
<1>1. /\ Acceptance!TypeOK /\ ScriptPassed /\ ClusterFollows /\ LabAsScripted
  BY DEF AcceptInv
<1>2. /\ mode = "run" /\ UNCHANGED <<pc, mode, keep, injected, checks, phases, broker, status, stored, recorded,
                                     cluster, settled, unsound>>
  BY DEF Acceptance!Converge, Acceptance!Stray
<1>3. ScriptPassed' /\ ClusterFollows'
  BY <1>1, <1>2 DEF ScriptPassed, ClusterFollows
<1>4. CASE Acceptance!Converge
  <2>1. path' = Acceptance!Target /\ path' \in {"expected", "http_503"} /\ UNCHANGED <<stray, mishaps>>
    BY <1>4 DEF Acceptance!Converge, Acceptance!Target
  <2>2. Acceptance!TypeOK'
    BY <1>1, <1>2, <2>1 DEF Acceptance!TypeOK
  <2>3. LabAsScripted'
    BY <1>1, <1>2, <2>1 DEF LabAsScripted, LabAt, Acceptance!Target
  <2>4. QED
    BY <1>3, <2>2, <2>3 DEF AcceptInv
<1>5. CASE Acceptance!Stray
  <2>1. mishaps > 0 /\ mishaps' = mishaps - 1 /\ path' = path /\ stray' \in BOOLEAN
    BY <1>5 DEF Acceptance!Stray
  <2>2. mishaps' \in 0 .. LabMishaps /\ mishaps' # LabMishaps
    BY <2>1, MishapsLeft
  <2>3. Acceptance!TypeOK'
    BY <1>1, <1>2, <2>1, <2>2 DEF Acceptance!TypeOK
  <2>4. QED
    BY <1>3, <2>2, <2>3 DEF AcceptInv, LabAsScripted
<1>6. QED
  BY <1>4, <1>5

LEMMA ConfigureStep ==
  ASSUME AcceptInv, Acceptance!Configure
  PROVE  AcceptInv'
<1> USE DEF Acceptance!history
<1>1. /\ Acceptance!TypeOK /\ ScriptPassed /\ ClusterFollows /\ LabAsScripted /\ pc \in 1 .. 19 /\ mode = "run"
      /\ Acceptance!Step.do \in {"set", "clear"} /\ pc \in {2, 5, 7, 10, 12, 13, 15}
  BY ScriptSteps DEF AcceptInv, Acceptance!Configure, Acceptance!Running, Acceptance!Step
<1>2. /\ UNCHANGED <<keep, stray, path, checks, phases, broker, stored, recorded, cluster, settled, unsound, mishaps>>
      /\ injected' = IF Acceptance!Step.do = "set" THEN injected \cup {Acceptance!Step.arg}
                     ELSE injected \ {Acceptance!Step.arg}
  BY DEF Acceptance!Configure
<1>3. /\ pc' = pc + 1 /\ pc' \in 1 .. 20 /\ mode' = "run" /\ status' \in Acceptance!Statuses
      /\ status' # "passed" /\ status' # "failed" /\ settled \subseteq {"http_503"}
  BY <1>1, GoSteps DEF Acceptance!Configure
<1>4. \/ pc \in {2, 5} /\ injected' = injected \cup {"route"}
      \/ pc = 7 /\ injected' = injected \ {"route"}
      \/ pc = 10 /\ injected' = injected \cup {"arithmetic"}
      \/ pc = 12 /\ injected' = injected \ {"arithmetic"}
      \/ pc = 13 /\ injected' = injected \cup {"data"}
      \/ pc = 15 /\ injected' = injected \ {"data"}
  <2>1. \/ pc \in {2, 5} /\ Acceptance!Step = Acceptance!Set("route")
        \/ pc = 7 /\ Acceptance!Step = Acceptance!Clear("route")
        \/ pc = 10 /\ Acceptance!Step = Acceptance!Set("arithmetic")
        \/ pc = 12 /\ Acceptance!Step = Acceptance!Clear("arithmetic")
        \/ pc = 13 /\ Acceptance!Step = Acceptance!Set("data")
        \/ pc = 15 /\ Acceptance!Step = Acceptance!Clear("data")
    BY <1>1, ScriptSteps DEF Acceptance!Step
  <2>2. \A x : /\ Acceptance!Set(x).do = "set" /\ Acceptance!Set(x).arg = x
              /\ Acceptance!Clear(x).do = "clear" /\ Acceptance!Clear(x).arg = x
    BY DEF Acceptance!Set, Acceptance!Clear
  <2>3. QED
    BY <1>2, <2>1, <2>2
<1>5. Acceptance!TypeOK'
  <2>1. injected' \subseteq Acceptance!Faults
    BY <1>1, <1>4 DEF Acceptance!TypeOK, Acceptance!Faults
  <2>2. stored'.status # "running" => stored'.status = status'
    BY <1>1, <1>2 DEF ClusterFollows
  <2>3. QED
    BY <1>1, <1>2, <1>3, <2>1, <2>2, ScriptSteps DEF Acceptance!TypeOK
<1>6. ScriptPassed'
  BY <1>1, <1>2, <1>3 DEF ScriptPassed
<1>7. ClusterFollows'
  BY <1>1, <1>2, <1>3 DEF ClusterFollows
<1>8. LabAsScripted'
  <2> SUFFICES ASSUME mishaps = LabMishaps
               PROVE  /\ unsound' = {} /\ injected' = LabAt(pc') /\ ~stray'
                      /\ pc' \in 4 .. 7 => path' = "http_503"
                      /\ pc' \in (0 .. 2) \cup (9 .. 17) \cup (19 .. 20) => path' = "expected"
    BY <1>2 DEF LabAsScripted
  <2>1. injected = LabAt(pc) /\ unsound = {} /\ ~stray
        /\ (pc \in 4 .. 7 => path = "http_503")
        /\ (pc \in (0 .. 2) \cup (9 .. 17) \cup (19 .. 20) => path = "expected")
    BY <1>1 DEF LabAsScripted
  <2>2. injected' = LabAt(pc')
    BY <1>3, <1>4, <2>1 DEF LabAt
  <2>3. QED
    BY <1>1, <1>2, <1>3, <2>1, <2>2
<1>9. QED
  BY <1>5, <1>6, <1>7, <1>8 DEF AcceptInv

\* What one check shows of the route, and what it leaves of it.
LEMMA CheckShows ==
  ASSUME AcceptInv, NEW outage \in BOOLEAN, NEW reasons, Acceptance!Checked(outage, reasons)
  PROVE  /\ path' \in {"expected", "http_503"} /\ (path = Acceptance!Target => path' = path)
         /\ reasons = {} => path = "expected" /\ path' = "expected"
         /\ "http_503" \in reasons /\ "route" \in injected => path' = "http_503"
<1>1. path \in {"expected", "http_503"} /\ Acceptance!Target \in {"expected", "http_503"}
  BY DEF AcceptInv, Acceptance!TypeOK, Acceptance!Target
<1>2. PICK shown \in {{path}, {path, Acceptance!Target}} :
        /\ reasons = Acceptance!Seen(shown, outage)
        /\ path' = IF Acceptance!Cardinality(shown) = 2 THEN Acceptance!Target ELSE path
  BY Zenon DEF Acceptance!Checked
<1>3. path' \in {path, Acceptance!Target}
  BY <1>2
<1>4. path # Acceptance!Target /\ shown = {path, Acceptance!Target} => path' = Acceptance!Target
  <2>1. IsFiniteSet({path}) /\ Cardinality({path}) = 1
    BY FS_Singleton
  <2>2. path # Acceptance!Target => Cardinality({path} \cup {Acceptance!Target}) = 2
    BY <2>1, FS_AddElement
  <2>3. {path} \cup {Acceptance!Target} = {path, Acceptance!Target}
    OBVIOUS
  <2>4. Acceptance!Cardinality({path, Acceptance!Target}) = Cardinality({path, Acceptance!Target})
    BY DEF Acceptance!Cardinality, Cardinality
  <2>5. QED
    BY <1>2, <2>2, <2>3, <2>4
<1>5. ("http_503" \in shown => "http_503" \in reasons) /\ (reasons = {} => "route" \notin injected)
  BY <1>2 DEF Acceptance!Seen
<1>6. "http_503" \in reasons => "http_503" \in shown
  BY <1>2 DEF Acceptance!Seen
<1>7. "route" \in injected => Acceptance!Target = "http_503"
  BY DEF Acceptance!Target
<1>8. "route" \notin injected => Acceptance!Target = "expected"
  BY DEF Acceptance!Target
<1>9. reasons = {} => path = "expected" /\ path' = "expected"
  BY <1>1, <1>2, <1>3, <1>5, <1>8
<1>10. "http_503" \in reasons /\ "route" \in injected => path' = "http_503"
  <2>1. CASE path = "http_503"
    BY <1>3, <1>7, <2>1
  <2>2. CASE path = "expected"
    BY <1>2, <1>4, <1>6, <1>7, <2>2
  <2>3. QED
    BY <1>1, <2>1, <2>2
<1>11. QED
  BY <1>1, <1>3, <1>9, <1>10

\* A step of the script that fails: the clean-up decides.
LEMMA FailStep ==
  ASSUME AcceptInv, mode = "run", Acceptance!Fail, UNCHANGED <<keep, stored, recorded, cluster>>,
         mishaps' \in 0 .. LabMishaps, injected' \subseteq Acceptance!Faults, stray' = stray,
         path' \in {"expected", "http_503"}, checks' = checks,
         phases' \in [Acceptance!Phases -> {"none", "passed", "failed"}], broker' \in {"none", "passed", "failed"},
         settled' \subseteq Acceptance!Reasons, unsound' \subseteq Acceptance!Phases
  PROVE  Acceptance!TypeOK' /\ ClusterFollows'
<1>1. Acceptance!TypeOK /\ ClusterFollows /\ mode' = "cleanup" /\ status' = "failed" /\ pc' = pc
  BY DEF AcceptInv, Acceptance!Fail
<1>2. stored' = [status |-> "running", cleanup |-> "pending"]
  BY <1>1 DEF ClusterFollows
<1>3. Acceptance!TypeOK'
  BY <1>1, <1>2 DEF Acceptance!TypeOK, Acceptance!Statuses
<1>4. ClusterFollows'
  BY <1>1, <1>2 DEF ClusterFollows
<1>5. QED
  BY <1>3, <1>4

\* A step of the script that goes on.
LEMMA ScriptGoes ==
  ASSUME AcceptInv, mode = "run", pc \in 1 .. 19, Acceptance!Go, UNCHANGED <<keep, stored, recorded, cluster>>,
         mishaps' = mishaps, injected' \subseteq Acceptance!Faults, stray' = stray,
         path' \in {"expected", "http_503"}, checks' \in 0 .. LabPatience,
         phases' \in [Acceptance!Phases -> {"none", "passed", "failed"}], broker' \in {"none", "passed", "failed"},
         settled' \subseteq Acceptance!Reasons, unsound' \subseteq Acceptance!Phases
  PROVE  /\ Acceptance!TypeOK' /\ ClusterFollows'
         /\ pc' = pc + 1 /\ pc' \in 1 .. 20 /\ mode' = "run" /\ (status' = "passed" => pc' = 20)
         /\ status' # "failed" /\ settled \subseteq {"http_503"}
<1>1. Acceptance!TypeOK /\ ClusterFollows /\ pc \in 0 .. 19
  BY DEF AcceptInv
<1>2. /\ pc' = pc + 1 /\ pc' \in 1 .. 20 /\ mode' = "run" /\ status' \in Acceptance!Statuses
      /\ (status' = "passed" => pc' = 20) /\ status' # "failed" /\ settled \subseteq {"http_503"}
  BY <1>1, GoSteps
<1>3. stored' = [status |-> "running", cleanup |-> "pending"]
  BY <1>1 DEF ClusterFollows
<1>4. Acceptance!TypeOK'
  BY <1>1, <1>2, <1>3, ScriptSteps DEF Acceptance!TypeOK
<1>5. ClusterFollows'
  BY <1>1, <1>2, <1>3 DEF ClusterFollows
<1>6. QED
  BY <1>2, <1>4, <1>5

LEMMA RecoveryStep ==
  ASSUME AcceptInv, NEW reasons \in SUBSET Acceptance!Reasons, Acceptance!AwaitRecovery(reasons)
  PROVE  AcceptInv'
<1>1. /\ Acceptance!TypeOK /\ ScriptPassed /\ ClusterFollows /\ LabAsScripted /\ pc \in 1 .. 19 /\ mode = "run"
      /\ Acceptance!Step = Acceptance!Await("recovery") /\ LabPatience \in Nat \ {0}
  BY HarnessAssumption, ScriptSteps DEF AcceptInv, Acceptance!AwaitRecovery, Acceptance!Running,
     Acceptance!AcceptanceAssumption
<1>2. pc \in {8, 18}
  <2>1. Acceptance!Step.do = "await" /\ Acceptance!Step.arg = "recovery"
    BY <1>1 DEF Acceptance!Await
  <2>2. pc \in {3, 8, 18}
    BY <1>1, <2>1, ScriptSteps DEF Acceptance!Step
  <2>3. pc = 3 => Acceptance!Step = Acceptance!Await("fault")
    BY ScriptSteps DEF Acceptance!Step
  <2>4. Acceptance!Await("fault").arg = "fault"
    BY DEF Acceptance!Await
  <2>5. QED
    BY ONLY <2>1, <2>2, <2>3, <2>4
<1>3. /\ UNCHANGED <<keep, injected, stray, phases, broker, stored, recorded, cluster, unsound, mishaps>>
      /\ settled' = settled \cup reasons
  BY DEF Acceptance!AwaitRecovery
<1>4. /\ path' \in {"expected", "http_503"}
      /\ reasons = {} => path' = "expected"
  BY CheckShows DEF Acceptance!AwaitRecovery
<1>5. \/ reasons = {} /\ Acceptance!Go /\ checks' = 0
      \/ reasons = {"http_503"} /\ checks + 1 < LabPatience /\ Acceptance!Stay
      \/ Acceptance!Fail /\ checks' = checks
  BY DEF Acceptance!AwaitRecovery, Acceptance!Verdict, Acceptance!Settles, Acceptance!Success, Acceptance!Failure,
     Acceptance!Indeterminate
<1>6. settled' \subseteq Acceptance!Reasons /\ injected' \subseteq Acceptance!Faults
      /\ phases' \in [Acceptance!Phases -> {"none", "passed", "failed"}] /\ broker' \in {"none", "passed", "failed"}
      /\ unsound' \subseteq Acceptance!Phases /\ mishaps' \in 0 .. LabMishaps
  BY <1>1, <1>3 DEF Acceptance!TypeOK
<1>7. CASE reasons = {} /\ Acceptance!Go /\ checks' = 0
  <2>1. /\ Acceptance!TypeOK' /\ ClusterFollows'
        /\ pc' = pc + 1 /\ mode' = "run" /\ (status' = "passed" => pc' = 20)
        /\ status' # "failed" /\ settled \subseteq {"http_503"}
    BY <1>1, <1>3, <1>4, <1>6, <1>7, ScriptGoes
  <2>2. ScriptPassed'
    BY <1>1, <1>2, <1>3, <1>7, <2>1 DEF ScriptPassed
  <2>3. LabAsScripted'
    BY <1>1, <1>2, <1>3, <1>4, <1>7, <2>1 DEF LabAsScripted, LabAt
  <2>4. QED
    BY <2>1, <2>2, <2>3 DEF AcceptInv
<1>8. CASE reasons = {"http_503"} /\ checks + 1 < LabPatience /\ Acceptance!Stay
  <2>1. UNCHANGED <<pc, mode, status>> /\ checks' = checks + 1 /\ checks' \in 0 .. LabPatience
    BY <1>1, <1>8 DEF Acceptance!Stay, Acceptance!TypeOK
  <2>2. Acceptance!TypeOK'
    BY <1>1, <1>3, <1>4, <1>6, <2>1 DEF Acceptance!TypeOK
  <2>3. ScriptPassed'
    BY <1>1, <1>3, <1>8, <2>1 DEF ScriptPassed
  <2>4. ClusterFollows' /\ LabAsScripted'
    BY <1>1, <1>2, <1>3, <2>1 DEF ClusterFollows, LabAsScripted, LabAt
  <2>5. QED
    BY <2>2, <2>3, <2>4 DEF AcceptInv
<1>9. CASE Acceptance!Fail /\ checks' = checks
  <2>1. Acceptance!TypeOK' /\ ClusterFollows'
    BY <1>1, <1>3, <1>4, <1>6, <1>9, FailStep
  <2>2. mode' = "cleanup" /\ status' = "failed" /\ pc' = pc
    BY <1>9 DEF Acceptance!Fail
  <2>3. ScriptPassed' /\ LabAsScripted'
    BY <1>1, <1>3, <2>2 DEF ScriptPassed, LabAsScripted
  <2>4. QED
    BY <2>1, <2>3 DEF AcceptInv
<1>10. QED
  BY <1>5, <1>7, <1>8, <1>9

LEMMA FaultStep ==
  ASSUME AcceptInv, NEW reasons \in SUBSET Acceptance!Reasons, Acceptance!AwaitFault(reasons)
  PROVE  AcceptInv'
<1> USE DEF Acceptance!history
<1>1. /\ Acceptance!TypeOK /\ ScriptPassed /\ ClusterFollows /\ LabAsScripted /\ pc \in 1 .. 19 /\ mode = "run"
      /\ Acceptance!Step = Acceptance!Await("fault") /\ LabPatience \in Nat \ {0}
  BY HarnessAssumption, ScriptSteps DEF AcceptInv, Acceptance!AwaitFault, Acceptance!Running,
     Acceptance!AcceptanceAssumption
<1>2. pc = 3
  <2>1. Acceptance!Step.do = "await" /\ Acceptance!Step.arg = "fault"
    BY <1>1 DEF Acceptance!Await
  <2>2. pc \in {3, 8, 18}
    BY <1>1, <2>1, ScriptSteps DEF Acceptance!Step
  <2>3. pc \in {8, 18} => Acceptance!Step = Acceptance!Await("recovery")
    BY ScriptSteps DEF Acceptance!Step
  <2>4. Acceptance!Await("recovery").arg = "recovery"
    BY DEF Acceptance!Await
  <2>5. QED
    BY ONLY <2>1, <2>2, <2>3, <2>4
<1>3. UNCHANGED <<keep, injected, stray, phases, broker, stored, recorded, cluster, settled, unsound, mishaps>>
  BY DEF Acceptance!AwaitFault
<1>4. /\ path' \in {"expected", "http_503"}
      /\ "http_503" \in reasons /\ "route" \in injected => path' = "http_503"
  BY CheckShows DEF Acceptance!AwaitFault
<1>5. \/ "http_503" \in reasons /\ Acceptance!Go /\ checks' = 0
      \/ checks + 1 < LabPatience /\ Acceptance!Stay
      \/ Acceptance!Fail /\ checks' = checks
  BY DEF Acceptance!AwaitFault
<1>6. settled' \subseteq Acceptance!Reasons /\ injected' \subseteq Acceptance!Faults
      /\ phases' \in [Acceptance!Phases -> {"none", "passed", "failed"}] /\ broker' \in {"none", "passed", "failed"}
      /\ unsound' \subseteq Acceptance!Phases /\ mishaps' \in 0 .. LabMishaps
  BY <1>1, <1>3 DEF Acceptance!TypeOK
<1>7. CASE "http_503" \in reasons /\ Acceptance!Go /\ checks' = 0
  <2>1. /\ Acceptance!TypeOK' /\ ClusterFollows'
        /\ pc' = pc + 1 /\ mode' = "run" /\ (status' = "passed" => pc' = 20)
        /\ status' # "failed" /\ settled \subseteq {"http_503"}
    BY <1>1, <1>3, <1>4, <1>6, <1>7, ScriptGoes
  <2>2. ScriptPassed'
    BY <1>1, <1>2, <1>3, <1>7, <2>1 DEF ScriptPassed
  <2>3. LabAsScripted'
    BY <1>1, <1>2, <1>3, <1>4, <1>7, <2>1 DEF LabAsScripted, LabAt
  <2>4. QED
    BY <2>1, <2>2, <2>3 DEF AcceptInv
<1>8. CASE checks + 1 < LabPatience /\ Acceptance!Stay
  <2>1. UNCHANGED <<pc, mode, status>> /\ checks' = checks + 1 /\ checks' \in 0 .. LabPatience
    BY <1>1, <1>8 DEF Acceptance!Stay, Acceptance!TypeOK
  <2>2. Acceptance!TypeOK'
    BY <1>1, <1>3, <1>4, <1>6, <2>1 DEF Acceptance!TypeOK
  <2>3. ScriptPassed' /\ ClusterFollows' /\ LabAsScripted'
    BY <1>1, <1>2, <1>3, <2>1 DEF ScriptPassed, ClusterFollows, LabAsScripted, LabAt
  <2>4. QED
    BY <2>2, <2>3 DEF AcceptInv
<1>9. CASE Acceptance!Fail /\ checks' = checks
  <2>1. Acceptance!TypeOK' /\ ClusterFollows'
    BY <1>1, <1>3, <1>4, <1>6, <1>9, FailStep
  <2>2. mode' = "cleanup" /\ status' = "failed" /\ pc' = pc
    BY <1>9 DEF Acceptance!Fail
  <2>3. ScriptPassed' /\ LabAsScripted'
    BY <1>1, <1>3, <2>2 DEF ScriptPassed, LabAsScripted
  <2>4. QED
    BY <2>1, <2>3 DEF AcceptInv
<1>10. QED
  BY <1>5, <1>7, <1>8, <1>9

\* The names of the phases, and where each of them is checked.
LEMMA PhaseNames ==
  /\ Acceptance!Phases = {"healthy", "routing-fault", "noop-repair", "scripted-recovery", "wrong-http200-total",
                          "protected-data-changed", "verifier-outage", "final-recovery"}
  /\ Acceptance!Script[1].arg = "healthy" /\ Acceptance!Script[4].arg = "routing-fault"
  /\ Acceptance!Script[6].arg = "noop-repair" /\ Acceptance!Script[9].arg = "scripted-recovery"
  /\ Acceptance!Script[11].arg = "wrong-http200-total" /\ Acceptance!Script[14].arg = "protected-data-changed"
  /\ Acceptance!Script[16].arg = "verifier-outage" /\ Acceptance!Script[19].arg = "final-recovery"
<1>1. \A x, e : Acceptance!Phase(x, e).arg = x /\ Acceptance!Phase(x, e).do = "phase"
  BY DEF Acceptance!Phase
<1>2. /\ Acceptance!Script[1].arg = "healthy" /\ Acceptance!Script[4].arg = "routing-fault"
      /\ Acceptance!Script[6].arg = "noop-repair" /\ Acceptance!Script[9].arg = "scripted-recovery"
      /\ Acceptance!Script[11].arg = "wrong-http200-total" /\ Acceptance!Script[14].arg = "protected-data-changed"
      /\ Acceptance!Script[16].arg = "verifier-outage" /\ Acceptance!Script[19].arg = "final-recovery"
  BY <1>1, ScriptSteps
<1>3. \A i \in {1, 4, 6, 9, 11, 14, 16, 19} : i \in DOMAIN Acceptance!Script /\ Acceptance!Script[i].do = "phase"
  BY <1>1, ScriptSteps
<1>4. {j \in DOMAIN Acceptance!Script : Acceptance!Script[j].do = "phase"} = {1, 4, 6, 9, 11, 14, 16, 19}
  BY <1>3, ScriptSteps
<1>5. Acceptance!Phases = {Acceptance!Script[i].arg : i \in {1, 4, 6, 9, 11, 14, 16, 19}}
  BY <1>4 DEF Acceptance!Phases
<1>6. QED
  BY ONLY <1>2, <1>5

\* While the script goes on undisturbed, the phases look at the lab they name.
LEMMA PhaseSeesItsLab ==
  ASSUME AcceptInv, mode = "run", pc \in {1, 4, 6, 9, 11, 14, 16, 19}, mishaps = LabMishaps
  PROVE  Acceptance!Claimed(Acceptance!Step.arg) /\ path = Acceptance!Target
<1>1. /\ injected = LabAt(pc) /\ ~stray /\ (pc \in {4, 6} => path = "http_503")
      /\ (pc \in {1, 9, 11, 14, 16, 19} => path = "expected")
  BY DEF AcceptInv, LabAsScripted
<1>2. path = Acceptance!Target
  BY <1>1 DEF Acceptance!Target, LabAt
<1>3. CASE pc \in {4, 6}
  BY <1>1, <1>2, <1>3, PhaseNames DEF Acceptance!Claimed, Acceptance!Step, LabAt
<1>4. CASE pc = 11
  BY <1>1, <1>2, <1>4, PhaseNames DEF Acceptance!Claimed, Acceptance!Step, LabAt
<1>5. CASE pc = 14
  BY <1>1, <1>2, <1>5, PhaseNames DEF Acceptance!Claimed, Acceptance!Step, LabAt
<1>6. CASE pc \in {1, 9, 16, 19}
  BY <1>1, <1>2, <1>6, PhaseNames DEF Acceptance!Claimed, Acceptance!Step, LabAt
<1>7. QED
  BY <1>3, <1>4, <1>5, <1>6

LEMMA PhaseStep ==
  ASSUME AcceptInv, NEW reasons \in SUBSET Acceptance!Reasons, Acceptance!CheckPhase(reasons)
  PROVE  AcceptInv'
<1> DEFINE name == Acceptance!Step.arg
<1>1. /\ Acceptance!TypeOK /\ ScriptPassed /\ ClusterFollows /\ LabAsScripted /\ pc \in 1 .. 19 /\ mode = "run"
      /\ pc \in {1, 4, 6, 9, 11, 14, 16, 19}
  BY ScriptSteps DEF AcceptInv, Acceptance!CheckPhase, Acceptance!Running, Acceptance!Step
<1>2. /\ pc = 1 => name = "healthy"
      /\ pc = 4 => name = "routing-fault"
      /\ pc = 6 => name = "noop-repair"
      /\ pc = 9 => name = "scripted-recovery"
      /\ pc = 11 => name = "wrong-http200-total"
      /\ pc = 14 => name = "protected-data-changed"
      /\ pc = 16 => name = "verifier-outage"
      /\ pc = 19 => name = "final-recovery"
  BY PhaseNames DEF Acceptance!Step
<1>3. name \in Acceptance!Phases
  BY <1>1, <1>2, PhaseNames
<1>4. /\ UNCHANGED <<keep, injected, stray, checks, broker, stored, recorded, cluster, settled, mishaps>>
      /\ phases' = [phases EXCEPT ![name] = IF Acceptance!Passes(reasons) THEN "passed" ELSE "failed"]
      /\ unsound' = IF Acceptance!Passes(reasons) /\ ~Acceptance!Claimed(name) THEN unsound \cup {name} ELSE unsound
      /\ Acceptance!Passes(reasons) => Acceptance!Go
      /\ ~Acceptance!Passes(reasons) => Acceptance!Fail
  BY DEF Acceptance!CheckPhase
<1>5. path' \in {"expected", "http_503"} /\ (path = Acceptance!Target => path' = path)
  <2>1. PICK outage \in BOOLEAN : Acceptance!Checked(outage, reasons)
    BY DEF Acceptance!CheckPhase
  <2>2. QED
    BY <2>1, CheckShows
<1>6. /\ settled' \subseteq Acceptance!Reasons /\ injected' \subseteq Acceptance!Faults
      /\ broker' \in {"none", "passed", "failed"} /\ mishaps' \in 0 .. LabMishaps /\ checks' \in 0 .. LabPatience
      /\ phases \in [Acceptance!Phases -> {"none", "passed", "failed"}] /\ unsound \subseteq Acceptance!Phases
  BY <1>1, <1>4 DEF Acceptance!TypeOK
<1>7. phases' \in [Acceptance!Phases -> {"none", "passed", "failed"}] /\ unsound' \subseteq Acceptance!Phases
  BY <1>3, <1>4, <1>6
<1>8. \A q \in Acceptance!Phases : q # name => phases'[q] = phases[q]
  BY <1>4, <1>6
<1>9. Acceptance!Passes(reasons) => phases'[name] = "passed"
  BY <1>3, <1>4, <1>6
<1>10. unsound' = unsound \/ mishaps # LabMishaps
  BY <1>1, <1>4, PhaseSeesItsLab
<1>11. CASE Acceptance!Passes(reasons)
  <2>1. /\ Acceptance!TypeOK' /\ ClusterFollows'
        /\ pc' = pc + 1 /\ mode' = "run" /\ (status' = "passed" => pc' = 20)
        /\ status' # "failed" /\ settled \subseteq {"http_503"}
    BY <1>1, <1>4, <1>5, <1>6, <1>7, <1>11, ScriptGoes
  <2>2. ScriptPassed'
    <3>1. \A q \in Acceptance!Phases : phases[q] = "passed" => phases'[q] = "passed"
      BY <1>8, <1>9, <1>11
    <3>2. /\ pc' > 1 => phases'["healthy"] = "passed"
          /\ pc' > 4 => phases'["routing-fault"] = "passed"
          /\ pc' > 6 => phases'["noop-repair"] = "passed"
          /\ pc' > 9 => phases'["scripted-recovery"] = "passed"
      BY <1>1, <1>2, <1>9, <1>11, <2>1, <3>1, PhaseNames DEF ScriptPassed
    <3>3. /\ pc' > 11 => phases'["wrong-http200-total"] = "passed"
          /\ pc' > 14 => phases'["protected-data-changed"] = "passed"
          /\ pc' > 16 => phases'["verifier-outage"] = "passed"
          /\ pc' > 19 => phases'["final-recovery"] = "passed"
      BY <1>1, <1>2, <1>9, <1>11, <2>1, <3>1, PhaseNames DEF ScriptPassed
    <3>4. pc' > 17 => broker' = "passed"
      BY <1>1, <1>4, <2>1 DEF ScriptPassed
    <3>5. QED
      BY <1>4, <2>1, <3>2, <3>3, <3>4 DEF ScriptPassed
  <2>3. LabAsScripted'
    <3> SUFFICES ASSUME mishaps = LabMishaps
                 PROVE  /\ unsound' = {} /\ injected' = LabAt(pc') /\ ~stray'
                        /\ pc' \in 4 .. 7 => path' = "http_503"
                        /\ pc' \in (0 .. 2) \cup (9 .. 17) \cup (19 .. 20) => path' = "expected"
      BY <1>4 DEF LabAsScripted
    <3>1. path' = path
      BY <1>1, <1>5, PhaseSeesItsLab
    <3>2. injected = LabAt(pc) /\ unsound = {} /\ ~stray
          /\ (pc \in 4 .. 7 => path = "http_503")
          /\ (pc \in (0 .. 2) \cup (9 .. 17) \cup (19 .. 20) => path = "expected")
      BY <1>1 DEF LabAsScripted
    <3>3. injected' = LabAt(pc')
      BY <1>1, <1>4, <2>1, <3>2 DEF LabAt
    <3>4. QED
      BY <1>1, <1>4, <1>10, <2>1, <3>1, <3>2, <3>3
  <2>4. QED
    BY <2>1, <2>2, <2>3 DEF AcceptInv
<1>12. CASE ~Acceptance!Passes(reasons)
  <2>1. Acceptance!TypeOK' /\ ClusterFollows'
    BY <1>1, <1>4, <1>5, <1>6, <1>7, <1>12, FailStep
  <2>2. mode' = "cleanup" /\ status' = "failed" /\ pc' = pc
    BY <1>4, <1>12 DEF Acceptance!Fail
  <2>3. ScriptPassed'
    <3>1. /\ pc > 1 => phases'["healthy"] = "passed"
          /\ pc > 4 => phases'["routing-fault"] = "passed"
          /\ pc > 6 => phases'["noop-repair"] = "passed"
          /\ pc > 9 => phases'["scripted-recovery"] = "passed"
      BY <1>1, <1>2, <1>8, PhaseNames DEF ScriptPassed
    <3>2. /\ pc > 11 => phases'["wrong-http200-total"] = "passed"
          /\ pc > 14 => phases'["protected-data-changed"] = "passed"
          /\ pc > 16 => phases'["verifier-outage"] = "passed"
          /\ ~(pc > 19)
      BY <1>1, <1>2, <1>8, PhaseNames DEF ScriptPassed
    <3>3. QED
      BY <1>1, <1>4, <2>2, <3>1, <3>2 DEF ScriptPassed
  <2>4. LabAsScripted'
    BY <1>1, <1>4, <1>10, <2>2 DEF LabAsScripted
  <2>5. QED
    BY <2>1, <2>3, <2>4 DEF AcceptInv
<1>13. QED
  BY <1>11, <1>12

LEMMA BrokerStep ==
  ASSUME AcceptInv, NEW good \in BOOLEAN, NEW exported \in BOOLEAN, Acceptance!BrokerChecks(good, exported)
  PROVE  AcceptInv'
<1> USE DEF Acceptance!history
<1>1. /\ Acceptance!TypeOK /\ ScriptPassed /\ ClusterFollows /\ LabAsScripted /\ pc = 17 /\ mode = "run"
  BY ScriptSteps DEF AcceptInv, Acceptance!BrokerChecks, Acceptance!Running, Acceptance!Step
<1>2. /\ UNCHANGED <<keep, stray, checks, phases, stored, recorded, cluster, settled, unsound>>
      /\ path' \in {"expected", "http_503"}
      /\ injected' = IF good THEN injected \ {"route"} ELSE injected \cup {"route"}
  BY DEF Acceptance!BrokerChecks
<1>3. \/ good /\ broker' = "passed" /\ mishaps' = mishaps /\ Acceptance!Go
      \/ broker' = "failed" /\ mishaps > 0 /\ mishaps' = mishaps - 1 /\ Acceptance!Fail
  BY DEF Acceptance!BrokerChecks, Acceptance!BrokerPasses
<1>4. /\ settled' \subseteq Acceptance!Reasons /\ checks' \in 0 .. LabPatience
      /\ phases' \in [Acceptance!Phases -> {"none", "passed", "failed"}] /\ unsound' \subseteq Acceptance!Phases
      /\ mishaps \in 0 .. LabMishaps /\ injected \subseteq Acceptance!Faults
  BY <1>1, <1>2 DEF Acceptance!TypeOK
<1>5. injected' \subseteq Acceptance!Faults
  BY <1>2, <1>4 DEF Acceptance!Faults
<1>6. CASE good /\ broker' = "passed" /\ mishaps' = mishaps /\ Acceptance!Go
  <2>1. /\ Acceptance!TypeOK' /\ ClusterFollows'
        /\ pc' = pc + 1 /\ mode' = "run" /\ (status' = "passed" => pc' = 20)
        /\ status' # "failed" /\ settled \subseteq {"http_503"}
    BY <1>1, <1>2, <1>4, <1>5, <1>6, ScriptGoes
  <2>2. ScriptPassed'
    BY <1>1, <1>2, <1>6, <2>1 DEF ScriptPassed
  <2>3. LabAsScripted'
    BY <1>1, <1>2, <1>6, <2>1 DEF LabAsScripted, LabAt
  <2>4. QED
    BY <2>1, <2>2, <2>3 DEF AcceptInv
<1>7. CASE broker' = "failed" /\ mishaps > 0 /\ mishaps' = mishaps - 1 /\ Acceptance!Fail
  <2>1. mishaps' \in 0 .. LabMishaps /\ mishaps' # LabMishaps
    BY <1>7, MishapsLeft
  <2>2. Acceptance!TypeOK' /\ ClusterFollows'
    BY <1>1, <1>2, <1>4, <1>5, <1>7, <2>1, FailStep
  <2>3. mode' = "cleanup" /\ status' = "failed" /\ pc' = pc
    BY <1>7 DEF Acceptance!Fail
  <2>4. ScriptPassed' /\ LabAsScripted'
    BY <1>1, <1>2, <2>1, <2>3 DEF ScriptPassed, LabAsScripted
  <2>5. QED
    BY <2>2, <2>4 DEF AcceptInv
<1>8. QED
  BY <1>3, <1>6, <1>7

LEMMA ReportsAreSound == AcceptInv => Acceptance!ReportIsSound
<1> SUFFICES ASSUME AcceptInv PROVE Acceptance!ReportIsSound
  OBVIOUS
<1>1. Acceptance!TypeOK /\ ScriptPassed /\ ClusterFollows /\ LabAsScripted
  BY DEF AcceptInv
<1>2. stored.status = "passed" => status = "passed" /\ pc = 20
  BY <1>1 DEF ClusterFollows, ScriptPassed
<1>3. Acceptance!PassedIsComplete
  <2> SUFFICES ASSUME stored.status = "passed"
               PROVE  /\ \A p \in Acceptance!Phases : phases[p] = "passed"
                      /\ broker = "passed"
                      /\ stored.cleanup = IF keep THEN "kept" ELSE "deleted"
                      /\ cluster = IF keep THEN "made" ELSE "deleted"
    BY DEF Acceptance!PassedIsComplete
  <2>1. \A p \in Acceptance!Phases : phases[p] = "passed"
    BY <1>1, <1>2, PhaseNames DEF ScriptPassed
  <2>2. QED
    BY <1>1, <1>2, <2>1 DEF ScriptPassed, ClusterFollows
<1>4. Acceptance!OnlyRoutingSettles
  BY <1>1, <1>2 DEF Acceptance!OnlyRoutingSettles, ScriptPassed
<1>5. Acceptance!PhasesSeeTheirFault /\ Acceptance!ClusterIsAccounted
  BY <1>1 DEF Acceptance!PhasesSeeTheirFault, Acceptance!ClusterIsAccounted, LabAsScripted, ClusterFollows
<1>6. QED
  BY <1>1, <1>3, <1>4, <1>5 DEF Acceptance!ReportIsSound

\* What the report of an acceptance run says is so: one that passed had every
\* phase see the fault it names, waited out nothing but routing and accounts for
\* its cluster; and a passed check of crash recovery killed its worker at the
\* barrier, after it had reported, and left none.
THEOREM AcceptancesAreEarned == Spec => AcceptanceIsEarned
<1> DEFINE Inv == (part = "acceptance" => AcceptInv) /\ (part = "barrier" => BarrierInv)
<1>1. Init => Inv
  BY AcceptanceStarts, BarrierStarts DEF Init
<1>2. Inv /\ [Next]_vars => Inv'
  <2> SUFFICES ASSUME Inv, [Next]_vars PROVE Inv'
    OBVIOUS
  <2>1. CASE part = "acceptance" /\ Acceptance!Next /\ UNCHANGED part
    <3>1. AcceptInv
      BY <2>1
    <3>2. \/ Acceptance!Finish \/ Acceptance!RecordEnvironment \/ Acceptance!CallFails
          \/ Acceptance!Interrupt \/ Acceptance!InterruptCleanUp
          \/ \E c \in Acceptance!Cleanups : Acceptance!CleanUp(c)
          \/ \E works \in BOOLEAN : Acceptance!Create(works)
          \/ Acceptance!Configure \/ Acceptance!Converge \/ Acceptance!Stray
          \/ \E r \in SUBSET Acceptance!Reasons :
               Acceptance!AwaitRecovery(r) \/ Acceptance!AwaitFault(r) \/ Acceptance!CheckPhase(r)
          \/ \E good, exported \in BOOLEAN : Acceptance!BrokerChecks(good, exported)
      BY <2>1 DEF Acceptance!Next
    <3>3. AcceptInv'
      BY <3>1, <3>2, OutsideScriptStep, CreateStep, LabStep, ConfigureStep, RecoveryStep, FaultStep, PhaseStep, BrokerStep
    <3>4. QED
      BY <2>1, <3>3
  <2>2. CASE part = "barrier" /\ Barrier!Next /\ UNCHANGED part
    BY <2>2, WorkerStep, ControllerStep DEF Barrier!Next
  <2>3. CASE part \notin {"acceptance", "barrier"} /\ UNCHANGED part
    BY <2>3
  <2>4. CASE UNCHANGED vars
    <3>1. UNCHANGED part /\ UNCHANGED acceptance /\ UNCHANGED barrier
      BY <2>4 DEF vars
    <3>2. AcceptInv => AcceptInv'
      BY <3>1 DEF acceptance, AcceptInv, Acceptance!TypeOK, ScriptPassed, ClusterFollows, LabAsScripted
    <3>3. BarrierInv => BarrierInv'
      BY <3>1 DEF barrier, BarrierInv, Barrier!TypeOK, WorkerStopsAtBarrier, KilledAfterReport,
         Barrier!PassedIsEvidence, Barrier!Barrier
    <3>4. QED
      BY <3>1, <3>2, <3>3
  <2>5. QED
    BY <2>1, <2>2, <2>3, <2>4 DEF Next
<1>3. Inv => /\ part = "acceptance" => Acceptance!ReportIsSound
             /\ part = "barrier" => Barrier!CheckIsSound
  BY ReportsAreSound, ChecksAreSound
<1>4. QED
  BY <1>1, <1>2, <1>3, PTL DEF Spec, AcceptanceIsEarned

---------------------------------------------------------------------------
(* The experiment. *)

TrialSteps == {"start", "wait", "reap", "read", "move", "save", "append", "stop"}
Ending == {"account", "teardown", "over", "cut"}

\* The controller is at one of its steps, with a trial of the manifest.
Placed ==
  /\ doing \in Waits!Steps /\ current \in 0 .. Planned
  /\ doing \in TrialSteps => current \in Waits!Trials

\* A score stands only in a record that is final.
Whole(r) == r.score = TRUE => r.status = "recorded"
RecordsWhole ==
  /\ file \in Waits!Records /\ reading \in Waits!Records /\ Whole(file) /\ Whole(reading)
ResultsWhole ==
  /\ results \in Seq([trial : Waits!Trials, record : Waits!Records])
  /\ \A i \in DOMAIN results : Whole(results[i].record)

\* While trials are still started no record shows damage; the last one may, until
\* the controller has looked at it.
DamageStops ==
  /\ doing \notin Ending \cup {"stop"} => \A i \in DOMAIN results : results[i].record.damage = FALSE
  /\ doing = "stop" => \A i \in DOMAIN results : results[i].record.damage = TRUE => reading.damage = TRUE

MeasuredInv == Placed /\ RecordsWhole /\ ResultsWhole /\ DamageStops

LEMMA AppendIs ==
  ASSUME NEW R, NEW s \in Seq(R), NEW e \in R
  PROVE  /\ Append(s, e) \in Seq(R) /\ Len(Append(s, e)) = Len(s) + 1 /\ Len(s) \in Nat
         /\ \A i \in DOMAIN Append(s, e) :
              (i \in DOMAIN s /\ Append(s, e)[i] = s[i]) \/ Append(s, e)[i] = e
OBVIOUS

\* The steps of the controller and of the worker are the same ones, whether
\* Ctrl-C comes in the waits only or anywhere.
LEMMA SameSteps ==
  /\ Anywhere!Controller => Waits!Controller
  /\ \A r : Anywhere!WorkerWrites(r) => Waits!WorkerWrites(r)
  /\ \A code : Anywhere!WorkerExits(code) => Waits!WorkerExits(code)
  /\ Anywhere!Records = Waits!Records
  /\ Waits!NothingAfterDamage => Anywhere!NothingAfterDamage
<1> USE DEF Waits!books, Anywhere!books, Waits!child, Anywhere!child, Waits!Absent, Anywhere!Absent,
            Waits!Moves, Anywhere!Moves, Waits!Raise, Anywhere!Raise, Waits!Fails, Anywhere!Fails
<1>1. Anywhere!Provision => Waits!Provision
  BY DEF Anywhere!Provision, Waits!Provision
<1>2. Anywhere!NextTrial => Waits!NextTrial
  BY DEF Anywhere!NextTrial, Waits!NextTrial
<1>3. Anywhere!Start => Waits!Start
  BY DEF Anywhere!Start, Waits!Start
<1>4. \A how : Anywhere!Wait(how) => Waits!Wait(how)
  BY DEF Anywhere!Wait, Waits!Wait
<1>5. Anywhere!Reap => Waits!Reap
  BY DEF Anywhere!Reap, Waits!Reap
<1>6. Anywhere!ReadRecord => Waits!ReadRecord
  BY DEF Anywhere!ReadRecord, Waits!ReadRecord, Anywhere!Trusted, Waits!Trusted
<1>7. Anywhere!MoveAway => Waits!MoveAway
  BY DEF Anywhere!MoveAway, Waits!MoveAway
<1>8. Anywhere!SaveResult => Waits!SaveResult
  BY DEF Anywhere!SaveResult, Waits!SaveResult, Anywhere!Verdict, Waits!Verdict
<1>9. Anywhere!Append1 => Waits!Append1
  BY DEF Anywhere!Append1, Waits!Append1, Anywhere!Appends, Waits!Appends
<1>10. Anywhere!StopOrGo => Waits!StopOrGo
  BY DEF Anywhere!StopOrGo, Waits!StopOrGo, Anywhere!Damaged, Waits!Damaged
<1>11. Anywhere!Account => Waits!Account
  BY DEF Anywhere!Account, Waits!Account, Anywhere!Trials, Waits!Trials
<1>12. Anywhere!Teardown => Waits!Teardown
  BY DEF Anywhere!Teardown, Waits!Teardown
<1>13. Anywhere!Controller => Waits!Controller
  BY ONLY <1>1, <1>2, <1>3, <1>4, <1>5, <1>6, <1>7, <1>8, <1>9, <1>10, <1>11, <1>12
     DEF Anywhere!Controller, Waits!Controller
<1>14. \A r : Anywhere!WorkerWrites(r) => Waits!WorkerWrites(r)
  BY DEF Anywhere!WorkerWrites, Waits!WorkerWrites, Anywhere!Partial, Waits!Partial, Anywhere!Final, Waits!Final,
     Anywhere!Broken, Waits!Broken
<1>15. \A code : Anywhere!WorkerExits(code) => Waits!WorkerExits(code)
  BY DEF Anywhere!WorkerExits, Waits!WorkerExits
<1>16. Anywhere!Records = Waits!Records
  BY DEF Anywhere!Records, Waits!Records
<1>17. Waits!NothingAfterDamage => Anywhere!NothingAfterDamage
  BY DEF Waits!NothingAfterDamage, Anywhere!NothingAfterDamage
<1>18. QED
  BY ONLY <1>13, <1>14, <1>15, <1>16, <1>17

LEMMA MeasuredStarts == Waits!Init \/ Anywhere!Init => MeasuredInv
<1> SUFFICES ASSUME Waits!Init \/ Anywhere!Init PROVE MeasuredInv
  OBVIOUS
<1>1. /\ doing = "provision" /\ current = 0 /\ file = Waits!Absent /\ reading = Waits!Absent /\ results = <<>>
      /\ Planned \in Nat \ {0}
  BY TrialsAssumption DEF Waits!Init, Anywhere!Init, Waits!Absent, Anywhere!Absent, Waits!ExperimentAssumption
<1>2. Placed
  BY <1>1 DEF Placed, Waits!Steps, TrialSteps
<1>3. RecordsWhole
  BY <1>1 DEF RecordsWhole, Whole, Waits!Absent, Waits!Records
<1>4. ResultsWhole /\ DamageStops
  BY <1>1 DEF ResultsWhole, DamageStops
<1>5. QED
  BY <1>2, <1>3, <1>4 DEF MeasuredInv

LEMMA PlacedStep ==
  ASSUME Placed, Waits!Controller
  PROVE  Placed'
<1> USE DEF Placed, Waits!Steps, TrialSteps, Waits!Trials, Waits!Moves, Waits!Raise
<1>1. Planned \in Nat \ {0}
  BY TrialsAssumption DEF Waits!ExperimentAssumption
<1>2. CASE Waits!Provision
  BY <1>1, <1>2 DEF Waits!Provision
<1>3. CASE Waits!NextTrial
  <2>1. \/ doing' = "start" /\ current < Planned /\ current' = current + 1
        \/ doing' = "account" /\ current' = current + 1 /\ current \in 1 .. (Planned - 1)
        \/ doing' = "account" /\ current' = current
    BY <1>3 DEF Waits!NextTrial
  <2>2. current' \in 0 .. Planned /\ (doing' = "start" => current' \in 1 .. Planned)
    BY <1>1, <2>1
  <2>3. QED
    BY <2>1, <2>2
<1>4. CASE Waits!Start \/ Waits!Reap \/ Waits!ReadRecord \/ Waits!MoveAway \/ Waits!SaveResult
  BY <1>4 DEF Waits!Start, Waits!Reap, Waits!ReadRecord, Waits!MoveAway, Waits!SaveResult
<1>5. ASSUME NEW how \in {"exited", "timed_out"}, Waits!Wait(how) PROVE Placed'
  BY <1>5 DEF Waits!Wait
<1>6. CASE Waits!Append1 \/ Waits!StopOrGo \/ Waits!Account \/ Waits!Teardown
  BY <1>6 DEF Waits!Append1, Waits!StopOrGo, Waits!Account, Waits!Teardown
<1>7. QED
  BY <1>2, <1>3, <1>4, <1>5, <1>6 DEF Waits!Controller

\* A verdict of the supervisor keeps no score, and names no record that is not there.
LEMMA VerdictIs ==
  ASSUME RecordsWhole
  PROVE  /\ Waits!Verdict \in Waits!Records /\ Whole(Waits!Verdict)
         /\ outcome = "interrupted" => Waits!Verdict.status = "interrupted"
         /\ Waits!Verdict.status # "absent"
<1>1. reading \in Waits!Records
  BY DEF RecordsWhole
<1>2. \E s \in {"interrupted", "timed_out", "infrastructure_error"} :
        /\ Waits!Verdict = [reading EXCEPT !.score = FALSE, !.status = s]
        /\ outcome = "interrupted" => s = "interrupted"
  BY DEF Waits!Verdict
<1>3. QED
  BY <1>1, <1>2 DEF Waits!Records, Whole

LEMMA RecordsStep ==
  ASSUME RecordsWhole,
         \/ Waits!Controller
         \/ \E r \in Waits!Records : Waits!WorkerWrites(r)
         \/ \E code \in BOOLEAN : Waits!WorkerExits(code)
  PROVE  RecordsWhole'
<1>1. CASE UNCHANGED <<file, reading>>
  BY <1>1 DEF RecordsWhole, Whole
<1>2. Waits!Absent \in Waits!Records /\ Whole(Waits!Absent)
  BY DEF Waits!Absent, Waits!Records, Whole
<1>3. CASE Waits!Start \/ Waits!MoveAway
  <2>1. file' = Waits!Absent /\ reading' = reading
    BY <1>3 DEF Waits!Start, Waits!MoveAway
  <2>2. QED
    BY <1>2, <2>1 DEF RecordsWhole, Whole
<1>4. CASE Waits!ReadRecord
  <2>1. reading' = file /\ file' = file
    BY <1>4 DEF Waits!ReadRecord, Waits!child
  <2>2. QED
    BY <2>1 DEF RecordsWhole, Whole
<1>5. CASE Waits!SaveResult
  <2>1. reading' = Waits!Verdict /\ file' = Waits!Verdict
    BY <1>5 DEF Waits!SaveResult
  <2>2. QED
    BY <2>1, VerdictIs DEF RecordsWhole, Whole
<1>6. ASSUME NEW r \in Waits!Records, Waits!WorkerWrites(r) PROVE RecordsWhole'
  <2>1. file' = r /\ reading' = reading
    BY <1>6 DEF Waits!WorkerWrites
  <2>2. \E d \in BOOLEAN : r = Waits!Partial(d) \/ r = Waits!Final(d) \/ r = Waits!Broken(d)
    BY <1>6 DEF Waits!WorkerWrites
  <2>3. Whole(r)
    BY <2>2 DEF Whole, Waits!Partial, Waits!Final, Waits!Broken
  <2>4. QED
    BY <2>1, <2>3 DEF RecordsWhole, Whole
<1>7. CASE Waits!Provision \/ Waits!NextTrial \/ Waits!Reap \/ Waits!Append1 \/ Waits!StopOrGo \/ Waits!Account
            \/ Waits!Teardown \/ (\E how \in {"exited", "timed_out"} : Waits!Wait(how))
            \/ (\E code \in BOOLEAN : Waits!WorkerExits(code))
  BY <1>1, <1>7 DEF Waits!Provision, Waits!NextTrial, Waits!Reap, Waits!Append1, Waits!StopOrGo, Waits!Account,
     Waits!Teardown, Waits!Wait, Waits!WorkerExits, Waits!child
<1>8. QED
  BY <1>3, <1>4, <1>5, <1>6, <1>7 DEF Waits!Controller

\* What is written down in results.json grows by one whole record.
LEMMA ResultsGrow ==
  ASSUME ResultsWhole, NEW r \in Waits!Records, Whole(r), current \in Waits!Trials,
         results' = Append(results, [trial |-> current, record |-> r])
  PROVE  /\ ResultsWhole' /\ Len(results') = Len(results) + 1
         /\ \A i \in DOMAIN results' : (i \in DOMAIN results /\ results'[i] = results[i]) \/ results'[i].record = r
<1> DEFINE R == [trial : Waits!Trials, record : Waits!Records]
           e == [trial |-> current, record |-> r]
<1>1. results \in Seq(R) /\ e \in R /\ e.record = r
  BY DEF ResultsWhole
<1>2. /\ results' \in Seq(R) /\ Len(results') = Len(results) + 1
      /\ \A i \in DOMAIN results' : (i \in DOMAIN results /\ results'[i] = results[i]) \/ results'[i] = e
  BY <1>1, AppendIs
<1>3. \A i \in DOMAIN results' : (i \in DOMAIN results /\ results'[i] = results[i]) \/ results'[i].record = r
  BY <1>1, <1>2
<1>4. \A i \in DOMAIN results' : Whole(results'[i].record)
  BY <1>3 DEF ResultsWhole
<1>5. QED
  BY <1>2, <1>3, <1>4 DEF ResultsWhole, Whole

LEMMA MeasuredStep ==
  ASSUME MeasuredInv,
         \/ Waits!Controller
         \/ \E r \in Waits!Records : Waits!WorkerWrites(r)
         \/ \E code \in BOOLEAN : Waits!WorkerExits(code)
  PROVE  MeasuredInv' /\ Waits!NothingAfterDamage
<1>1. Placed /\ RecordsWhole /\ ResultsWhole /\ DamageStops
  BY DEF MeasuredInv
<1>2. RecordsWhole'
  BY <1>1, RecordsStep
<1>3. CASE (\E r \in Waits!Records : Waits!WorkerWrites(r)) \/ (\E code \in BOOLEAN : Waits!WorkerExits(code))
  <2>1. UNCHANGED <<doing, current, reading, results, attempted>>
    BY <1>3 DEF Waits!WorkerWrites, Waits!WorkerExits, Waits!books
  <2>2. QED
    BY <1>1, <1>2, <2>1 DEF MeasuredInv, Placed, ResultsWhole, Whole, DamageStops, Waits!NothingAfterDamage
<1>4. CASE Waits!Append1
  <2>1. Placed' /\ doing = "append" /\ UNCHANGED <<current, reading, attempted>>
    BY <1>1, <1>4, PlacedStep DEF Waits!Controller, Waits!Append1
  <2>2. \/ results' = results /\ outcome = "interrupted"
        \/ results' = Append(results, [trial |-> current, record |-> reading])
    BY <1>4 DEF Waits!Append1, Waits!Appends
  <2>3. doing' = IF outcome = "interrupted" THEN "account" ELSE "stop"
    BY <1>4 DEF Waits!Append1, Waits!Raise
  <2>4. current \in Waits!Trials /\ reading \in Waits!Records /\ Whole(reading)
    BY <1>1, <2>1 DEF Placed, TrialSteps, RecordsWhole
  <2>5. \A i \in DOMAIN results : results[i].record.damage = FALSE
    BY <1>1, <2>1 DEF DamageStops, Ending
  <2>6. CASE results' = results /\ outcome = "interrupted"
    BY <1>1, <1>2, <2>1, <2>3, <2>6 DEF MeasuredInv, ResultsWhole, Whole, DamageStops, Ending, Waits!NothingAfterDamage
  <2>7. CASE results' = Append(results, [trial |-> current, record |-> reading])
    <3>1. /\ ResultsWhole'
          /\ \A i \in DOMAIN results' :
               (i \in DOMAIN results /\ results'[i] = results[i]) \/ results'[i].record = reading
      BY <1>1, <2>4, <2>7, ResultsGrow
    <3>2. \A i \in DOMAIN results' : results'[i].record.damage = TRUE => reading.damage = TRUE
      BY <2>5, <3>1
    <3>3. DamageStops'
      BY <2>1, <2>3, <3>2 DEF DamageStops, Ending
    <3>4. QED
      BY <1>2, <2>1, <3>1, <3>3 DEF MeasuredInv, Waits!NothingAfterDamage
  <2>8. QED
    BY <2>2, <2>6, <2>7
<1>5. CASE Waits!StopOrGo
  <2>1. Placed' /\ doing = "stop" /\ UNCHANGED <<current, reading, attempted, results>>
    BY <1>1, <1>5, PlacedStep DEF Waits!Controller, Waits!StopOrGo, Waits!books
  <2>2. doing' = "account" \/ (doing' = "next" /\ ~reading.damage)
    BY <1>5 DEF Waits!StopOrGo, Waits!Damaged, Waits!Raise
  <2>3. \A i \in DOMAIN results : results[i].record.damage \in BOOLEAN
    <3>1. \A r \in Waits!Records : r.damage \in BOOLEAN
      BY DEF Waits!Records
    <3>2. \A i \in DOMAIN results : results[i].record \in Waits!Records
      <4> DEFINE R == [trial : Waits!Trials, record : Waits!Records]
      <4>1. results \in Seq(R)
        BY <1>1 DEF ResultsWhole
      <4>2. \A i \in DOMAIN results : results[i] \in R
        <5> HIDE DEF R
        <5>1. QED
          BY ONLY <4>1
      <4>3. QED
        BY ONLY <4>2
    <3>3. QED
      BY <3>1, <3>2
  <2>4. DamageStops'
    BY <1>1, <2>1, <2>2, <2>3 DEF DamageStops, Ending
  <2>5. QED
    BY <1>1, <1>2, <2>1, <2>4 DEF MeasuredInv, ResultsWhole, Whole, Waits!NothingAfterDamage
<1>6. CASE Waits!Start
  <2>1. Placed' /\ doing = "start" /\ doing' \in {"wait", "read"} /\ UNCHANGED <<current, reading, results>>
    BY <1>1, <1>6, PlacedStep DEF Waits!Controller, Waits!Start, Waits!books
  <2>2. \A i \in DOMAIN results : results[i].record.damage = FALSE
    BY <1>1, <2>1 DEF DamageStops, Ending
  <2>3. DamageStops' /\ Waits!NothingAfterDamage
    BY <2>1, <2>2 DEF DamageStops, Ending, Waits!NothingAfterDamage
  <2>4. QED
    BY <1>1, <1>2, <2>1, <2>3 DEF MeasuredInv, ResultsWhole, Whole
<1>7. ASSUME Placed', UNCHANGED <<results, attempted>>, doing # "stop", doing \notin Ending \/ doing' \in Ending, doing' # "stop"
      PROVE  MeasuredInv' /\ Waits!NothingAfterDamage
  BY <1>1, <1>2, <1>7 DEF MeasuredInv, ResultsWhole, Whole, DamageStops, Ending, Waits!NothingAfterDamage
<1>8. CASE Waits!Provision \/ Waits!NextTrial \/ Waits!Reap \/ (\E how \in {"exited", "timed_out"} : Waits!Wait(how))
  <2>1. /\ UNCHANGED <<results, attempted>> /\ doing # "stop" /\ doing' # "stop" /\ doing \notin Ending
    BY <1>8 DEF Waits!Provision, Waits!NextTrial, Waits!Reap, Waits!Wait, Waits!Moves, Waits!Raise, Waits!books, Ending
  <2>2. Placed'
    BY <1>1, <1>8, PlacedStep DEF Waits!Controller
  <2>3. QED
    BY <1>7, <2>1, <2>2
<1>9. CASE Waits!ReadRecord \/ Waits!MoveAway \/ Waits!SaveResult
  <2>1. /\ UNCHANGED <<results, attempted>> /\ doing # "stop" /\ doing' # "stop" /\ doing \notin Ending
    BY <1>9 DEF Waits!ReadRecord, Waits!MoveAway, Waits!SaveResult, Waits!Moves, Waits!books, Ending
  <2>2. Placed'
    BY <1>1, <1>9, PlacedStep DEF Waits!Controller
  <2>3. QED
    BY <1>7, <2>1, <2>2
<1>10. CASE Waits!Account \/ Waits!Teardown
  <2>1. /\ UNCHANGED <<results, attempted>> /\ doing # "stop" /\ doing' # "stop" /\ doing' \in Ending
    BY <1>10 DEF Waits!Account, Waits!Teardown, Waits!Moves, Ending
  <2>2. Placed'
    BY <1>1, <1>10, PlacedStep DEF Waits!Controller
  <2>3. QED
    BY <1>7, <2>1, <2>2
<1>11. QED
  BY <1>3, <1>4, <1>5, <1>6, <1>8, <1>9, <1>10 DEF Waits!Controller

LEMMA InterruptMeasured ==
  ASSUME MeasuredInv, Waits!Interrupt \/ Anywhere!Interrupt \/ Anywhere!CutShort
  PROVE  MeasuredInv' /\ attempted' = attempted
<1>1. Placed /\ RecordsWhole /\ ResultsWhole /\ DamageStops
  BY DEF MeasuredInv
<1>2. UNCHANGED <<current, file, reading, attempted>>
  BY DEF Waits!Interrupt, Anywhere!Interrupt, Anywhere!CutShort, Waits!child, Anywhere!child
<1>3. \/ doing = "wait" /\ doing' = "reap" /\ results' = results
      \/ doing = "reap" /\ doing' = "read" /\ results' = results
      \/ doing' \in {"account", "cut"} /\ results' = results
      \/ doing' = "account" /\ doing \in {"read", "move", "save", "append"}
           /\ results' = Append(results, [trial |-> current, record |-> file])
  BY DEF Waits!Interrupt, Anywhere!Interrupt, Anywhere!CutShort, Waits!Raise, Anywhere!Raise
<1>4. RecordsWhole'
  BY <1>1, <1>2 DEF RecordsWhole, Whole
<1>5. Placed'
  BY <1>1, <1>2, <1>3 DEF Placed, TrialSteps, Waits!Steps
<1>6. DamageStops'
  BY <1>1, <1>3 DEF DamageStops, Ending
<1>7. ResultsWhole'
  <2>1. CASE results' = results
    BY <1>1, <2>1 DEF ResultsWhole, Whole
  <2>2. CASE /\ doing \in {"read", "move", "save", "append"}
             /\ results' = Append(results, [trial |-> current, record |-> file])
    BY <1>1, <2>2, ResultsGrow DEF Placed, TrialSteps, RecordsWhole
  <2>3. QED
    BY <1>3, <2>1, <2>2
<1>8. QED
  BY <1>2, <1>4, <1>5, <1>6, <1>7 DEF MeasuredInv

\* As long as Ctrl-C comes in the waits only, the trials are tried in order, and
\* each that was tried is written down before the next one is.
Counted ==
  /\ doing = "provision" => current = 0
  /\ doing \in {"provision", "next", "stop"} => Len(results) = current /\ attempted = 1 .. current
  /\ doing = "start" => Len(results) = current - 1 /\ attempted = 1 .. (current - 1)
  /\ doing \in {"wait", "reap", "read", "move", "save", "append"} =>
       Len(results) = current - 1 /\ attempted = 1 .. current
  /\ doing \in Ending => Len(results) <= Planned /\ attempted = 1 .. Len(results)
  /\ doing = "append" /\ outcome = "interrupted" => file.status = "interrupted"

\* Only the current trial has processes, and only until it is reaped.
Alone ==
  /\ overlap = FALSE /\ group \subseteq {current}
  /\ doing \notin {"wait", "reap"} => group = {}

Accounted ==
  /\ accounting.written = TRUE => doing \in {"teardown", "over"}
  /\ accounting \in [recorded : 0 .. Planned, unrun : SUBSET Waits!Trials, written : BOOLEAN]
  /\ Waits!AttemptedIsRecorded

OtherTypes ==
  /\ process \in {"none", "running", "exited", "dead"} /\ exit \in BOOLEAN
  /\ outcome \in {"none", "exited", "timed_out", "error", "interrupted"}
  /\ raised \in {"none", "error", "interrupt"} /\ nodes \in {"none", "made", "deleted"}
  /\ cleanup \in {"none", "kept", "deleted", "failed", "not_provisioned"} /\ kept \in BOOLEAN
  /\ allowed \in [signals : 0 .. Signals, mishaps : 0 .. CallMishaps]

WaitsInv == MeasuredInv /\ Counted /\ Alone /\ Accounted /\ OtherTypes

LEMMA WaitsStarts == Waits!Init => WaitsInv
<1> SUFFICES ASSUME Waits!Init PROVE WaitsInv
  OBVIOUS
<1> USE DEF Waits!Init
<1>1. MeasuredInv
  BY MeasuredStarts
<1>2. Planned \in Nat \ {0} /\ Signals \in Nat /\ CallMishaps \in Nat
  BY TrialsAssumption DEF Waits!ExperimentAssumption
<1>3. Counted
  BY DEF Counted, Ending
<1>4. Alone
  BY DEF Alone
<1>5. Accounted
  BY <1>2 DEF Accounted, Waits!NotYet, Waits!AttemptedIsRecorded
<1>6. OtherTypes
  <2>1. allowed \in [signals : 0 .. Signals, mishaps : 0 .. CallMishaps]
    BY <1>2
  <2>2. /\ process = "none" /\ exit = FALSE /\ outcome = "none" /\ raised = "none" /\ nodes = "none"
        /\ cleanup = "none" /\ kept \in BOOLEAN
    OBVIOUS
  <2>3. QED
    BY ONLY <2>1, <2>2 DEF OtherTypes
<1>7. QED
  BY <1>1, <1>3, <1>4, <1>5, <1>6 DEF WaitsInv

LEMMA CountedStep ==
  ASSUME MeasuredInv, Counted, Waits!Controller \/ Waits!Interrupt
  PROVE  Counted'
<1>1. /\ Placed /\ Planned \in Nat \ {0} /\ current \in 0 .. Planned /\ Len(results) \in Nat
      /\ results \in Seq([trial : Waits!Trials, record : Waits!Records])
  BY TrialsAssumption DEF MeasuredInv, Placed, ResultsWhole, Waits!ExperimentAssumption
<1>2. CASE Waits!Provision
  BY <1>1, <1>2 DEF Waits!Provision, Waits!Raise, Counted, Ending
<1>3. CASE Waits!NextTrial
  <2>1. /\ doing = "next" /\ UNCHANGED <<results, attempted>>
        /\ \/ doing' = "start" /\ current' = current + 1
           \/ doing' = "account"
    BY <1>3 DEF Waits!NextTrial, Waits!Raise, Waits!books
  <2>2. Len(results) = current /\ attempted = 1 .. current
    BY <2>1 DEF Counted
  <2>3. CASE doing' = "start" /\ current' = current + 1
    <3>1. Len(results') = current' - 1 /\ attempted' = 1 .. (current' - 1)
      BY <1>1, <2>1, <2>2, <2>3
    <3>2. QED
      BY <2>3, <3>1 DEF Counted, Ending
  <2>4. CASE doing' = "account"
    BY <1>1, <2>1, <2>2, <2>4 DEF Counted, Ending
  <2>5. QED
    BY <2>1, <2>3, <2>4
<1>4. CASE Waits!Start
  <2>1. /\ doing = "start" /\ doing' \in {"wait", "read"} /\ UNCHANGED <<current, results>>
        /\ attempted' = attempted \cup {current}
    BY <1>4 DEF Waits!Start, Waits!books
  <2>2. Len(results) = current - 1 /\ attempted = 1 .. (current - 1) /\ current \in 1 .. Planned
    BY <1>1, <2>1 DEF Counted, Placed, TrialSteps, Waits!Trials
  <2>3. attempted' = 1 .. current
    BY <1>1, <2>1, <2>2
  <2>4. QED
    BY <2>1, <2>2, <2>3 DEF Counted, Ending
<1>5. CASE Waits!Reap \/ (\E how \in {"exited", "timed_out"} : Waits!Wait(how)) \/ Waits!MoveAway
  BY <1>5 DEF Waits!Reap, Waits!Wait, Waits!MoveAway, Waits!Moves, Waits!books, Counted, Ending
<1>6. CASE Waits!ReadRecord
  <2>1. /\ doing = "read" /\ doing' \in {"append", "save", "move"} /\ UNCHANGED <<current, results, attempted, outcome>>
        /\ doing' = "append" => outcome = "exited"
    BY <1>6 DEF Waits!ReadRecord, Waits!Trusted, Waits!books
  <2>2. QED
    BY <2>1 DEF Counted, Ending
<1>7. CASE Waits!SaveResult
  <2>1. /\ doing = "save" /\ doing' = "append" /\ UNCHANGED <<current, results, attempted, outcome>>
        /\ file' = Waits!Verdict
    BY <1>7 DEF Waits!SaveResult, Waits!Moves, Waits!books
  <2>2. outcome = "interrupted" => file'.status = "interrupted"
    BY <2>1, VerdictIs DEF MeasuredInv
  <2>3. QED
    BY <2>1, <2>2 DEF Counted, Ending
<1>8. CASE Waits!Append1
  <2>1. /\ doing = "append" /\ doing' \in {"stop", "account"} /\ UNCHANGED <<current, attempted>>
        /\ results' = (IF outcome # "interrupted" \/ file # Waits!Absent
                       THEN Append(results, [trial |-> current, record |-> reading]) ELSE results)
    BY <1>8 DEF Waits!Append1, Waits!Appends, Waits!Raise
  <2>2. Len(results) = current - 1 /\ attempted = 1 .. current /\ current \in 1 .. Planned
    BY <1>1, <2>1 DEF Counted, Placed, TrialSteps, Waits!Trials
  <2>3. outcome = "interrupted" => file # Waits!Absent
    BY <2>1 DEF Counted, Waits!Absent
  <2>4. reading \in Waits!Records /\ current \in Waits!Trials
    BY <2>2 DEF MeasuredInv, RecordsWhole, Waits!Trials
  <2>5. Len(results') = Len(results) + 1
    BY <1>1, <2>1, <2>3, <2>4, AppendIs
  <2>6. Len(results') = current
    BY <2>2, <2>5
  <2>7. QED
    BY <2>1, <2>2, <2>6 DEF Counted, Ending
<1>9. CASE Waits!StopOrGo
  BY <1>1, <1>9 DEF Waits!StopOrGo, Waits!Raise, Waits!books, Counted, Ending
<1>10. CASE Waits!Account \/ Waits!Teardown
  BY <1>10 DEF Waits!Account, Waits!Teardown, Waits!Moves, Counted, Ending
<1>11. CASE Waits!Interrupt
  BY <1>11 DEF Waits!Interrupt, Counted, Ending
<1>12. QED
  BY <1>2, <1>3, <1>4, <1>5, <1>6, <1>7, <1>8, <1>9, <1>10, <1>11 DEF Waits!Controller

LEMMA AloneStep ==
  ASSUME Alone, Waits!Controller \/ Waits!Interrupt
  PROVE  Alone'
<1>1. CASE Waits!Start
  BY <1>1 DEF Alone, Waits!Start
<1>2. CASE Waits!Reap
  BY <1>2 DEF Alone, Waits!Reap, Waits!Moves
<1>3. CASE Waits!NextTrial
  BY <1>3 DEF Alone, Waits!NextTrial, Waits!Raise, Waits!child
<1>4. CASE Waits!Provision \/ Waits!ReadRecord \/ Waits!MoveAway \/ Waits!SaveResult \/ Waits!Append1
  BY <1>4 DEF Alone, Waits!Provision, Waits!ReadRecord, Waits!MoveAway, Waits!SaveResult, Waits!Append1, Waits!Moves,
     Waits!Raise, Waits!child
<1>5. CASE Waits!StopOrGo \/ Waits!Account \/ Waits!Teardown \/ Waits!Interrupt
           \/ (\E how \in {"exited", "timed_out"} : Waits!Wait(how))
  BY <1>5 DEF Alone, Waits!StopOrGo, Waits!Account, Waits!Teardown, Waits!Interrupt, Waits!Wait, Waits!Moves,
     Waits!Raise, Waits!child
<1>6. QED
  BY <1>1, <1>2, <1>3, <1>4, <1>5 DEF Waits!Controller

\* The account adds up: the trials that it does not count are those after the last one recorded.
LEMMA AccountAddsUp ==
  ASSUME NEW k \in 0 .. Planned
  PROVE  LET unrun == {t \in Waits!Trials : t > k}
         IN  /\ k + Cardinality(unrun) = Planned /\ (1 .. k) \cap unrun = {} /\ unrun \subseteq Waits!Trials
<1> DEFINE unrun == {t \in Waits!Trials : t > k}
<1>1. Planned \in Nat /\ k \in Nat /\ k <= Planned
  BY TrialsAssumption DEF Waits!ExperimentAssumption
<1>2. unrun = (k + 1) .. Planned
  BY <1>1 DEF Waits!Trials
<1>3. Cardinality((k + 1) .. Planned) = IF k + 1 > Planned THEN 0 ELSE Planned - (k + 1) + 1
  BY <1>1, FS_Interval
<1>4. k + Cardinality(unrun) = Planned
  <2>1. k + (IF k + 1 > Planned THEN 0 ELSE Planned - (k + 1) + 1) = Planned
    BY <1>1
  <2>2. QED
    BY ONLY <1>2, <1>3, <2>1
<1>5. (1 .. k) \cap unrun = {} /\ unrun \subseteq Waits!Trials
  BY <1>1 DEF Waits!Trials
<1>6. QED
  BY <1>4, <1>5

LEMMA AccountedStep ==
  ASSUME Accounted, Counted, ResultsWhole, Waits!Controller \/ Waits!Interrupt
  PROVE  Accounted'
<1>1. CASE UNCHANGED <<accounting, attempted>> /\ (accounting.written = TRUE => doing' \in {"teardown", "over"})
  <2>1. accounting \in [recorded : 0 .. Planned, unrun : SUBSET Waits!Trials, written : BOOLEAN] /\ Waits!AttemptedIsRecorded
    BY DEF Accounted
  <2>2. Waits!AttemptedIsRecorded'
    BY <1>1, <2>1 DEF Waits!AttemptedIsRecorded
  <2>3. QED
    BY <1>1, <2>1, <2>2 DEF Accounted
<1>2. CASE Waits!Account
  <2> DEFINE unrun == {t \in Waits!Trials : t > Len(results)}
  <2>1. /\ doing = "account" /\ doing' = "teardown" /\ UNCHANGED <<results, attempted>>
        /\ accounting' = [recorded |-> Len(results), written |-> TRUE, unrun |-> unrun]
    BY <1>2 DEF Waits!Account, Waits!Moves
  <2>2. Len(results) <= Planned /\ attempted = 1 .. Len(results)
    BY <2>1 DEF Counted, Ending
  <2>3. Len(results) \in 0 .. Planned
    <3>1. Len(results) \in Nat
      BY DEF ResultsWhole
    <3>2. QED
      BY <2>2, <3>1, TrialsAssumption DEF Waits!ExperimentAssumption
  <2>4. Len(results) + Cardinality(unrun) = Planned /\ attempted \cap unrun = {} /\ unrun \subseteq Waits!Trials
    BY <2>2, <2>3, AccountAddsUp
  <2>5. /\ accounting'.recorded = Len(results) /\ accounting'.unrun = unrun /\ accounting'.written = TRUE
        /\ accounting' \in [recorded : 0 .. Planned, unrun : SUBSET Waits!Trials, written : BOOLEAN]
    <3> HIDE DEF unrun
    <3>1. QED
      BY <2>1, <2>3, <2>4
  <2>6. Waits!Cardinality(unrun) = Cardinality(unrun)
    BY DEF Waits!Cardinality, Cardinality
  <2>7. Waits!AttemptedIsRecorded'
    <3> HIDE DEF unrun
    <3>1. accounting'.recorded + Waits!Cardinality(accounting'.unrun) = Planned /\ attempted' \cap accounting'.unrun = {}
      BY <2>1, <2>4, <2>5, <2>6
    <3>2. QED
      BY <3>1 DEF Waits!AttemptedIsRecorded
  <2>8. QED
    BY <2>1, <2>5, <2>7 DEF Accounted
<1>3. CASE Waits!Start \/ Waits!Teardown
  <2>1. UNCHANGED accounting /\ (doing = "start" \/ (doing' = "over" /\ attempted' = attempted))
    BY <1>3 DEF Waits!Start, Waits!Teardown, Waits!books
  <2>2. CASE doing = "start"
    <3>1. accounting.written \in BOOLEAN /\ accounting.written # TRUE
      BY <2>2 DEF Accounted
    <3>2. Waits!AttemptedIsRecorded' /\ accounting'.written # TRUE
      BY <2>1, <3>1 DEF Waits!AttemptedIsRecorded
    <3>3. QED
      BY <2>1, <3>2 DEF Accounted
  <2>3. QED
    BY <1>1, <2>1, <2>2
<1>4. ASSUME UNCHANGED <<accounting, attempted>>, doing \notin {"teardown", "over"} PROVE Accounted'
  BY <1>1, <1>4 DEF Accounted
<1>5. CASE Waits!Provision \/ Waits!NextTrial \/ Waits!Reap \/ Waits!ReadRecord \/ Waits!MoveAway \/ Waits!SaveResult
  BY <1>4, <1>5 DEF Waits!Provision, Waits!NextTrial, Waits!Reap, Waits!ReadRecord, Waits!MoveAway, Waits!SaveResult,
     Waits!Moves, Waits!books
<1>6. CASE Waits!Append1 \/ Waits!StopOrGo \/ Waits!Interrupt \/ (\E how \in {"exited", "timed_out"} : Waits!Wait(how))
  BY <1>4, <1>6 DEF Waits!Append1, Waits!StopOrGo, Waits!Interrupt, Waits!Wait, Waits!Moves, Waits!books
<1>7. QED
  BY <1>2, <1>3, <1>5, <1>6 DEF Waits!Controller

LEMMA AllowanceFalls ==
  ASSUME allowed \in [signals : 0 .. Signals, mishaps : 0 .. CallMishaps],
         \/ Waits!Fails
         \/ allowed.signals > 0 /\ allowed' = [allowed EXCEPT !.signals = @ - 1]
  PROVE  allowed' \in [signals : 0 .. Signals, mishaps : 0 .. CallMishaps]
<1>1. Signals \in Nat /\ CallMishaps \in Nat
  BY TrialsAssumption DEF Waits!ExperimentAssumption
<1>2. allowed.signals \in 0 .. Signals /\ allowed.mishaps \in 0 .. CallMishaps
  OBVIOUS
<1>3. CASE Waits!Fails
  <2>1. allowed.mishaps - 1 \in 0 .. CallMishaps
    BY <1>1, <1>2, <1>3 DEF Waits!Fails
  <2>2. QED
    BY <1>2, <1>3, <2>1 DEF Waits!Fails
<1>4. CASE allowed.signals > 0 /\ allowed' = [allowed EXCEPT !.signals = @ - 1]
  <2>1. allowed.signals - 1 \in 0 .. Signals
    BY <1>1, <1>2, <1>4
  <2>2. QED
    BY <1>2, <1>4, <2>1
<1>5. QED
  BY <1>3, <1>4

LEMMA OtherTypesStep ==
  ASSUME OtherTypes, Waits!Controller \/ Waits!Interrupt
  PROVE  OtherTypes'
<1>1. /\ process \in {"none", "running", "exited", "dead"} /\ exit \in BOOLEAN
      /\ outcome \in {"none", "exited", "timed_out", "error", "interrupted"}
      /\ raised \in {"none", "error", "interrupt"} /\ nodes \in {"none", "made", "deleted"}
      /\ cleanup \in {"none", "kept", "deleted", "failed", "not_provisioned"} /\ kept \in BOOLEAN
      /\ allowed \in [signals : 0 .. Signals, mishaps : 0 .. CallMishaps]
  BY DEF OtherTypes
<1>2. allowed' \in [signals : 0 .. Signals, mishaps : 0 .. CallMishaps]
  <2>1. \/ allowed' = allowed
        \/ Waits!Fails
        \/ allowed.signals > 0 /\ allowed' = [allowed EXCEPT !.signals = @ - 1]
    <3>1. CASE Waits!Provision \/ Waits!NextTrial \/ Waits!Start \/ Waits!Teardown \/ Waits!Interrupt
      BY <3>1 DEF Waits!Provision, Waits!NextTrial, Waits!Start, Waits!Teardown, Waits!Interrupt
    <3>2. CASE Waits!Reap \/ Waits!ReadRecord \/ Waits!MoveAway \/ Waits!SaveResult \/ Waits!Append1
      BY <3>2 DEF Waits!Reap, Waits!ReadRecord, Waits!MoveAway, Waits!SaveResult, Waits!Append1
    <3>3. CASE Waits!StopOrGo \/ Waits!Account \/ (\E how \in {"exited", "timed_out"} : Waits!Wait(how))
      BY <3>3 DEF Waits!StopOrGo, Waits!Account, Waits!Wait
    <3>4. QED
      BY <3>1, <3>2, <3>3 DEF Waits!Controller
  <2>2. QED
    BY <1>1, <2>1, AllowanceFalls
<1>3. process' \in {"none", "running", "exited", "dead"} /\ exit' \in BOOLEAN /\ kept' = kept
      /\ outcome' \in {"none", "exited", "timed_out", "error", "interrupted"}
  <2>1. CASE Waits!Provision \/ Waits!NextTrial \/ Waits!Start \/ Waits!Teardown \/ Waits!Interrupt
    BY <1>1, <2>1 DEF Waits!Provision, Waits!NextTrial, Waits!Start, Waits!Teardown, Waits!Interrupt, Waits!child
  <2>2. CASE Waits!Reap \/ Waits!ReadRecord \/ Waits!MoveAway \/ Waits!SaveResult \/ Waits!Append1
    BY <1>1, <2>2 DEF Waits!Reap, Waits!ReadRecord, Waits!MoveAway, Waits!SaveResult, Waits!Append1, Waits!child
  <2>3. CASE Waits!StopOrGo \/ Waits!Account \/ (\E how \in {"exited", "timed_out"} : Waits!Wait(how))
    BY <1>1, <2>3 DEF Waits!StopOrGo, Waits!Account, Waits!Wait, Waits!child
  <2>4. QED
    BY <2>1, <2>2, <2>3 DEF Waits!Controller
<1>4. raised' \in {"none", "error", "interrupt"} /\ nodes' \in {"none", "made", "deleted"}
      /\ cleanup' \in {"none", "kept", "deleted", "failed", "not_provisioned"}
  <2> USE DEF Waits!Raise, Waits!books
  <2>1. CASE Waits!Provision \/ Waits!NextTrial \/ Waits!Start \/ Waits!Teardown \/ Waits!Interrupt
    BY <1>1, <2>1 DEF Waits!Provision, Waits!NextTrial, Waits!Start, Waits!Teardown, Waits!Interrupt
  <2>2. CASE Waits!Reap \/ Waits!ReadRecord \/ Waits!MoveAway \/ Waits!SaveResult \/ Waits!Append1
    BY <1>1, <2>2 DEF Waits!Reap, Waits!ReadRecord, Waits!MoveAway, Waits!SaveResult, Waits!Append1
  <2>3. CASE Waits!StopOrGo \/ Waits!Account \/ (\E how \in {"exited", "timed_out"} : Waits!Wait(how))
    BY <1>1, <2>3 DEF Waits!StopOrGo, Waits!Account, Waits!Wait
  <2>4. QED
    BY <2>1, <2>2, <2>3 DEF Waits!Controller
<1>5. QED
  BY <1>1, <1>2, <1>3, <1>4 DEF OtherTypes

LEMMA WaitsStep ==
  ASSUME WaitsInv, Waits!Next
  PROVE  WaitsInv' /\ Waits!NothingAfterDamage
<1>1. MeasuredInv /\ Counted /\ Alone /\ Accounted /\ OtherTypes /\ ResultsWhole
  BY DEF WaitsInv, MeasuredInv
<1>2. CASE Waits!Controller
  BY <1>1, <1>2, MeasuredStep, CountedStep, AloneStep, AccountedStep, OtherTypesStep DEF WaitsInv
<1>3. CASE Waits!Interrupt
  <2>1. MeasuredInv' /\ attempted' = attempted
    BY <1>1, <1>3, InterruptMeasured
  <2>2. Waits!NothingAfterDamage
    BY <2>1 DEF Waits!NothingAfterDamage
  <2>3. QED
    BY <1>1, <1>3, <2>1, <2>2, CountedStep, AloneStep, AccountedStep, OtherTypesStep DEF WaitsInv
<1>4. CASE (\E r \in Waits!Records : Waits!WorkerWrites(r)) \/ (\E code \in BOOLEAN : Waits!WorkerExits(code))
  <2>1. MeasuredInv' /\ Waits!NothingAfterDamage
    BY <1>1, <1>4, MeasuredStep
  <2>2. /\ UNCHANGED <<doing, current, group, outcome, results, accounting, nodes, cleanup, raised, kept, attempted,
                       overlap, allowed>>
        /\ process' \in {process, "exited"} /\ exit' \in {exit} \cup BOOLEAN
    BY <1>4 DEF Waits!WorkerWrites, Waits!WorkerExits, Waits!books
  <2>3. file' = file \/ file.status \in {"absent", "running"}
    <3>1. ASSUME NEW r \in Waits!Records, Waits!WorkerWrites(r) PROVE file = Waits!Absent \/ file.status = "running"
      BY Zenon, <3>1 DEF Waits!WorkerWrites
    <3>2. ASSUME NEW code \in BOOLEAN, Waits!WorkerExits(code) PROVE file' = file
      BY <3>2 DEF Waits!WorkerExits
    <3>3. Waits!Absent.status = "absent"
      BY DEF Waits!Absent
    <3>4. QED
      BY ONLY <1>4, <3>1, <3>2, <3>3
  <2>4. Counted'
    BY <1>1, <2>2, <2>3 DEF Counted
  <2>5. Alone' /\ Accounted'
    BY <1>1, <2>2 DEF Alone, Accounted, Waits!AttemptedIsRecorded
  <2>6. OtherTypes'
    BY <1>1, <2>2 DEF OtherTypes
  <2>7. QED
    BY <2>1, <2>4, <2>5, <2>6 DEF WaitsInv
<1>5. ~Waits!CutShort
  BY DEF Waits!CutShort
<1>6. QED
  BY <1>2, <1>3, <1>4, <1>5 DEF Waits!Next

LEMMA AnywhereStep ==
  ASSUME MeasuredInv, Anywhere!Next
  PROVE  MeasuredInv' /\ Anywhere!NothingAfterDamage
<1>1. CASE Anywhere!Interrupt \/ Anywhere!CutShort
  <2>1. MeasuredInv' /\ attempted' = attempted
    BY <1>1, InterruptMeasured
  <2>2. QED
    BY <2>1 DEF Anywhere!NothingAfterDamage
<1>2. CASE Anywhere!Controller
  BY <1>2, SameSteps, MeasuredStep
<1>3. CASE (\E r \in Anywhere!Records : Anywhere!WorkerWrites(r)) \/ (\E code \in BOOLEAN : Anywhere!WorkerExits(code))
  <2>1. (\E r \in Waits!Records : Waits!WorkerWrites(r)) \/ (\E code \in BOOLEAN : Waits!WorkerExits(code))
    BY <1>3, SameSteps
  <2>2. QED
    BY <2>1, SameSteps, MeasuredStep
<1>4. QED
  BY <1>1, <1>2, <1>3 DEF Anywhere!Next

LEMMA BooksAreKept == WaitsInv => Waits!BooksAreSound
<1> SUFFICES ASSUME WaitsInv PROVE Waits!BooksAreSound
  OBVIOUS
<1>1. MeasuredInv /\ Placed /\ RecordsWhole /\ ResultsWhole /\ Counted /\ Alone /\ Accounted /\ OtherTypes
  BY DEF WaitsInv, MeasuredInv
<1>2. Planned \in Nat \ {0} /\ Len(results) \in Nat
  BY <1>1, TrialsAssumption DEF ResultsWhole, Waits!ExperimentAssumption
<1>3. attempted \subseteq Waits!Trials
  <2>1. doing \in {"provision", "next", "stop"} \cup TrialSteps \cup Ending
    <3>1. doing \in Waits!Steps
      BY <1>1 DEF Placed
    <3>2. QED
      BY ONLY <3>1 DEF Waits!Steps, TrialSteps, Ending
  <2>2. \E k \in Int : k <= Planned /\ attempted = 1 .. k
    <3>1. CASE doing \in Ending
      BY <1>1, <1>2, <3>1 DEF Counted
    <3>2. CASE doing = "start"
      BY <1>1, <1>2, <3>2 DEF Counted, Placed
    <3>3. CASE doing \in ({"provision", "next", "stop"} \cup TrialSteps) \ {"start"}
      BY <1>1, <1>2, <3>3 DEF Counted, Placed, TrialSteps
    <3>4. QED
      BY <2>1, <3>1, <3>2, <3>3
  <2>3. QED
    BY <1>2, <2>2 DEF Waits!Trials
<1>4. group \subseteq Waits!Trials
  BY <1>1 DEF Alone, Placed, TrialSteps
<1>5. Waits!TypeOK
  BY <1>1, <1>3, <1>4 DEF Waits!TypeOK, Placed, RecordsWhole, ResultsWhole, Alone, Accounted, OtherTypes
<1>6. Waits!ScoresAreOfWholeTrials
  BY <1>1 DEF Waits!ScoresAreOfWholeTrials, ResultsWhole, Whole
<1>7. Waits!AttemptedIsRecorded
  BY <1>1 DEF Accounted
<1>8. Waits!OneTrialAtATime
  BY <1>1 DEF Waits!OneTrialAtATime, Alone
<1>9. QED
  BY <1>5, <1>6, <1>7, <1>8 DEF Waits!BooksAreSound

\* An experiment accounts for every trial it tried, keeps no score of one that
\* was cut off, runs one at a time and none after damage; where Ctrl-C comes at
\* any point, the scores and the stop after damage still hold.
THEOREM TrialsAreAllAccounted == Spec => TrialsAreAccounted
<1> DEFINE Inv == (part = "waits" => WaitsInv) /\ (part = "anywhere" => MeasuredInv)
           Stops == /\ part = "waits" => Waits!NothingAfterDamage
                    /\ part = "anywhere" => Anywhere!NothingAfterDamage
<1>1. Init => Inv
  BY WaitsStarts, MeasuredStarts DEF Init
<1>2. Inv /\ [Next]_vars => Inv' /\ [Stops]_vars
  <2> SUFFICES ASSUME Inv, [Next]_vars PROVE Inv' /\ [Stops]_vars
    OBVIOUS
  <2>1. CASE part = "waits" /\ Waits!Next /\ UNCHANGED part
    BY <2>1, WaitsStep
  <2>2. CASE part = "anywhere" /\ Anywhere!Next /\ UNCHANGED part
    BY <2>2, AnywhereStep
  <2>3. CASE part \notin {"waits", "anywhere"} /\ UNCHANGED part
    BY <2>3
  <2>4. CASE UNCHANGED vars
    <3>1. UNCHANGED part /\ UNCHANGED experiment
      BY <2>4 DEF vars
    <3>2. MeasuredInv => MeasuredInv'
      BY <3>1 DEF experiment, MeasuredInv, Placed, RecordsWhole, ResultsWhole, Whole, DamageStops
    <3>3. WaitsInv => WaitsInv'
      BY <3>1, <3>2 DEF experiment, WaitsInv, Counted, Alone, Accounted, Waits!AttemptedIsRecorded, OtherTypes
    <3>4. QED
      BY <2>4, <3>1, <3>2, <3>3
  <2>5. QED
    BY <2>1, <2>2, <2>3, <2>4 DEF Next
<1>3. Inv => /\ part = "waits" => Waits!BooksAreSound
             /\ part = "anywhere" => Anywhere!ScoresAreOfWholeTrials
  BY BooksAreKept DEF MeasuredInv, ResultsWhole, Whole, Anywhere!ScoresAreOfWholeTrials
<1>4. [Stops]_vars => /\ [part = "waits" => Waits!NothingAfterDamage]_vars
                      /\ [part = "anywhere" => Anywhere!NothingAfterDamage]_vars
  OBVIOUS
<1>5. QED
  BY <1>1, <1>2, <1>3, <1>4, PTL DEF Spec, TrialsAreAccounted

---------------------------------------------------------------------------
(* The declared study. *)

InCase == {"execute", "judge", "finalize", "export", "settle"}
ReceiptType ==
  [status : {"none", "failed", "passed"}, error : {"none", "error", "interrupt"}, executed : BOOLEAN,
   finalized : BOOLEAN, cleanup : BOOLEAN, evaluation : {"none", "passed", "failed"}, identical : BOOLEAN]
WorldType ==
  [owner : {"none", "running", "exited", "killed"}, cluster : {"none", "up", "deleted"}, window : BOOLEAN]
LedgerType ==
  [status : {"running", "failed", "passed"}, error : {"none", "error", "interrupt"},
   cases : [Study!Cases -> {"unrun", "running", "passed", "failed"}]]

StudyTypes ==
  /\ gate \in Gates /\ at \in InCase \cup {"calibrate", "next", "ended", "crashed"}
  /\ n \in 0 .. Len(Study!Order(gate)) /\ (at \in InCase => n >= 1)
  /\ faults \in 0 .. StudyFaults /\ error \in {"none", "error", "interrupt"} /\ ledger \in LedgerType
  /\ receipts \in [Study!Cases -> ReceiptType] /\ mem \in ReceiptType
  /\ world \in [Study!Cases -> WorldType] /\ aborted \in BOOLEAN
  /\ at \in InCase <=> mem.status # "none"

\* The cases before the n-th are closed, the n-th is the one that runs, and
\* nothing was touched of those after it.
Begun(c) == \E i \in 1 .. n : Study!Order(gate)[i] = c
InOrder ==
  /\ \A c \in Study!Cases : ~Begun(c) =>
       ledger.cases[c] = "unrun" /\ receipts[c] = Study!NoReceipt /\ world[c] = Study!Untouched
  /\ \A c \in Study!Cases : Begun(c) => ledger.cases[c] # "unrun"
  /\ \A c \in Study!Cases : ledger.cases[c] = "running" => at \in InCase \cup {"crashed"} /\ n >= 1 /\ c = Study!Case
  /\ at \in InCase => ledger.cases[Study!Case] = "running"
  /\ at = "calibrate" => n = 0
  /\ at \in {"next"} \cup InCase /\ Study!Calibrated(gate) => promoted = TRUE

Earned(r, x) ==
  /\ r.executed = TRUE /\ r.error = "none" /\ r.cleanup = FALSE /\ r.identical = TRUE /\ r.evaluation = "passed"
  /\ x.owner = "exited" /\ x.cluster = "deleted"
LeftOver(x) == x.cluster = "up" \/ x.owner = "running"
Fair(r, x) == (r.status = "passed" => Earned(r, x)) /\ (r.error # "none" => r.status = "failed")

\* What is on disk of a case is fair at any moment, and what is left behind of a
\* closed one is on record.
Recorded ==
  \A c \in Study!Cases :
    /\ Fair(receipts[c], world[c])
    /\ ledger.cases[c] = "passed" => receipts[c].status = "passed"
    /\ ledger.cases[c] \in {"passed", "failed"} /\ ledger.error # "interrupt" =>
         /\ receipts[c].status = "passed" => ledger.cases[c] = "passed"
         /\ LeftOver(world[c]) => receipts[c].cleanup = TRUE

Ends ==
  /\ ledger.status = "passed" => \A i \in DOMAIN Study!Order(gate) : ledger.cases[Study!Order(gate)[i]] = "passed"
  /\ at # "ended" => ledger.status = "running" /\ ledger.error = "none"
  /\ at = "ended" => ledger.status # "running"

\* The running case c, with r on disk of it and the world x: what is in memory,
\* and what is on its way as an exception, are of that world.
First(c) == IF Study!JudgedFirst(c) THEN Study!NoReceipt ELSE Study!Opened
Runs(c, r, x) ==
  /\ at = "execute" => mem = Study!Opened /\ error = "none" /\ x = Study!Untouched /\ r = First(c)
  /\ at = "judge" =>
       /\ Study!JudgedFirst(c) /\ mem = [Study!Opened EXCEPT !.executed = TRUE] /\ error = "none"
       /\ x = Study!Completed /\ r = First(c)
  /\ at = "finalize" =>
       r = First(c) /\ error = mem.error /\ mem.cleanup = FALSE
  /\ at \in {"finalize", "export"} =>
       /\ mem.status = "passed" => Study!JudgedFirst(c)
       /\ error = "error" => mem.error # "none" \/ mem.cleanup = TRUE
  /\ at \in {"finalize", "export", "settle"} =>
       /\ Fair(mem, x) /\ (mem.error # "none" => error # "none")
       /\ mem.error = "none" => mem.executed = TRUE /\ x = Study!Completed
       /\ Study!JudgedFirst(c) /\ error = "none" => mem.status = "passed"
       /\ error = "error" => mem.status = "failed"
  /\ at \in {"export", "settle"} /\ error # "interrupt" => (LeftOver(x) => mem.cleanup = TRUE)
  /\ at = "export" => r = First(c) \/ r = mem
  /\ at = "settle" => r = mem \/ (r = First(c) /\ error # "none" /\ x = Study!Untouched)

\* An interrupt is still on its way, or another exception has taken its place.
Excuse(c, r) ==
  \/ r.cleanup = TRUE
  \/ (Study!JudgedFirst(c) /\ r.identical = TRUE /\ r.status = "failed")
OnItsWay(c, r) ==
  \/ at \in {"finalize", "export", "settle"} /\ error = "interrupt"
  \/ at \in {"export", "settle"} /\ r = mem /\ Excuse(c, r)
ExcusedBefore == \E d \in Study!Cases : ledger.cases[d] \in {"passed", "failed"} /\ Excuse(d, receipts[d])
Aborts ==
  aborted = TRUE /\ at \notin {"ended", "crashed"} =>
    ExcusedBefore \/ (at \in InCase /\ OnItsWay(Study!Case, receipts[Study!Case]))

StudyInv ==
  /\ StudyTypes /\ InOrder /\ Recorded /\ Ends /\ Aborts
  /\ at \in InCase => Runs(Study!Case, receipts[Study!Case], world[Study!Case])

\* Each study runs different cases.
LEMMA OrderIs ==
  ASSUME NEW g \in Gates
  PROVE  /\ Len(Study!Order(g)) \in Nat /\ DOMAIN Study!Order(g) = 1 .. Len(Study!Order(g))
         /\ \A i \in 1 .. Len(Study!Order(g)) : Study!Order(g)[i] \in Study!Cases
         /\ \A i, j \in 1 .. Len(Study!Order(g)) : Study!Order(g)[i] = Study!Order(g)[j] => i = j
<1>1. /\ Len(Study!Order(g)) \in Nat /\ DOMAIN Study!Order(g) = 1 .. Len(Study!Order(g))
      /\ \A i, j \in 1 .. Len(Study!Order(g)) : Study!Order(g)[i] = Study!Order(g)[j] => i = j
  <2>1. CASE g = "ambiguity"
    BY <2>1 DEF Study!Order
  <2>2. CASE g = "refresh"
    BY <2>2 DEF Study!Order
  <2>3. CASE g = "withdrawal"
    BY <2>3 DEF Study!Order
  <2>4. CASE g = "program"
    BY <2>4 DEF Study!Order
  <2>5. QED
    BY <2>1, <2>2, <2>3, <2>4, StudiesAssumption DEF Study!StudyAssumption
<1>2. \A i \in DOMAIN Study!Order(g) : Study!Order(g)[i] \in Study!Cases
  BY DEF Study!Cases
<1>3. QED
  BY <1>1, <1>2

LEMMA StudyConstants ==
  /\ Study!NoReceipt \in ReceiptType /\ Study!Opened \in ReceiptType
  /\ Study!Untouched \in WorldType /\ Study!Completed \in WorldType
  /\ Study!Broken \subseteq WorldType
  /\ Study!Opened.status = "failed" /\ Study!Opened.error = "none" /\ Study!Opened.cleanup = FALSE
  /\ Study!Opened.executed = FALSE /\ Study!Opened.identical = FALSE /\ Study!Opened.evaluation = "none"
  /\ Study!NoReceipt.status = "none" /\ Study!NoReceipt.error = "none" /\ Study!NoReceipt.cleanup = FALSE
  /\ Study!NoReceipt.identical = FALSE
  /\ Study!Completed.owner = "exited" /\ Study!Completed.cluster = "deleted" /\ Study!Completed.window = TRUE
  /\ ~LeftOver(Study!Untouched) /\ ~LeftOver(Study!Completed)
  /\ \A c, x : (First(c) = Study!NoReceipt \/ First(c) = Study!Opened) /\ Fair(First(c), x)
<1>1. Study!NoReceipt \in ReceiptType /\ Study!Opened \in ReceiptType
  BY DEF Study!NoReceipt, Study!Opened, ReceiptType
<1>2. Study!Untouched \in WorldType /\ Study!Completed \in WorldType
  BY DEF Study!Untouched, Study!Completed, WorldType
<1>3. Study!Broken \subseteq WorldType
  <2>1. \A k \in {"up", "deleted"} : [owner |-> "exited", cluster |-> k, window |-> TRUE] \in WorldType
    BY DEF WorldType
  <2>2. \A o \in BOOLEAN : [owner |-> "running", cluster |-> "up", window |-> o] \in WorldType
    BY DEF WorldType
  <2>3. QED
    BY Zenon, <2>1, <2>2 DEF Study!Broken
<1>4. /\ Study!Opened.status = "failed" /\ Study!Opened.error = "none" /\ Study!Opened.cleanup = FALSE
      /\ Study!Opened.executed = FALSE /\ Study!Opened.identical = FALSE /\ Study!Opened.evaluation = "none"
  BY DEF Study!NoReceipt, Study!Opened
<1>5. /\ Study!NoReceipt.status = "none" /\ Study!NoReceipt.error = "none" /\ Study!NoReceipt.cleanup = FALSE
      /\ Study!NoReceipt.identical = FALSE
  BY DEF Study!NoReceipt
<1>6. /\ Study!Completed.owner = "exited" /\ Study!Completed.cluster = "deleted" /\ Study!Completed.window = TRUE
      /\ ~LeftOver(Study!Untouched) /\ ~LeftOver(Study!Completed)
  BY DEF Study!Untouched, Study!Completed, LeftOver
<1>7. \A c : First(c) = Study!NoReceipt \/ First(c) = Study!Opened
  BY DEF First
<1>8. \A c, x : Fair(First(c), x)
  BY <1>4, <1>5, <1>7 DEF Fair
<1>9. QED
  BY ONLY <1>1, <1>2, <1>3, <1>4, <1>5, <1>6, <1>7, <1>8

LEMMA StudyStarts == Study!Init => StudyInv
<1> SUFFICES ASSUME Study!Init PROVE StudyInv
  OBVIOUS
<1> USE DEF Study!Init
<1>1. gate \in Gates /\ n = 0 /\ at \in {"calibrate", "next"} /\ at \notin InCase /\ (Study!Calibrated(gate) => at = "calibrate")
  BY DEF InCase
<1>2. Len(Study!Order(gate)) \in Nat /\ StudyFaults \in Nat
  BY <1>1, OrderIs, StudiesAssumption DEF Study!StudyAssumption
<1>3. StudyTypes
  <2>1. ledger \in LedgerType
    BY DEF LedgerType
  <2>2. receipts \in [Study!Cases -> ReceiptType] /\ mem \in ReceiptType /\ world \in [Study!Cases -> WorldType]
        /\ mem.status = "none"
    BY StudyConstants
  <2>3. aborted \in BOOLEAN /\ faults \in 0 .. StudyFaults /\ error = "none"
    <3>1. aborted = FALSE /\ faults = StudyFaults /\ error = "none"
      OBVIOUS
    <3>2. aborted \in BOOLEAN
      BY Zenon, <3>1
    <3>3. faults \in 0 .. StudyFaults
      BY <1>2, <3>1
    <3>4. QED
      BY <3>1, <3>2, <3>3
  <2>4. QED
    BY ONLY <1>1, <1>2, <2>1, <2>2, <2>3 DEF StudyTypes
<1>4. InOrder
  BY <1>1 DEF InOrder, Begun
<1>5. Recorded
  BY StudyConstants DEF Recorded, Fair
<1>6. Ends /\ Aborts
  BY <1>1 DEF Ends, Aborts
<1>7. QED
  BY <1>1, <1>3, <1>4, <1>5, <1>6 DEF StudyInv

\* The case that runs.
LEMMA RunningCase ==
  ASSUME StudyInv, at \in InCase
  PROVE  \E c \in Study!Cases, r \in ReceiptType, x \in WorldType :
           /\ c = Study!Case /\ r = receipts[c] /\ x = world[c]
           /\ ledger.cases[c] = "running" /\ Runs(c, r, x) /\ mem \in ReceiptType /\ mem.status # "none"
<1>1. StudyTypes /\ InOrder /\ Runs(Study!Case, receipts[Study!Case], world[Study!Case])
  BY DEF StudyInv
<1>2. /\ gate \in Gates /\ n \in 1 .. Len(Study!Order(gate)) /\ receipts \in [Study!Cases -> ReceiptType]
      /\ world \in [Study!Cases -> WorldType] /\ mem \in ReceiptType /\ mem.status # "none"
  BY <1>1, OrderIs DEF StudyTypes
<1>3. Study!Case \in Study!Cases
  BY <1>2, OrderIs DEF Study!Case
<1>4. ledger.cases[Study!Case] = "running"
  BY <1>1 DEF InOrder
<1>5. QED
  BY <1>1, <1>2, <1>3, <1>4

\* A step inside the case c that leaves r of it on disk and the world x.
LEMMA InCaseStep ==
  ASSUME StudyInv, at \in InCase, at' \in InCase, UNCHANGED <<gate, n, ledger, promoted>>,
         NEW c \in Study!Cases, c = Study!Case, NEW r \in ReceiptType, NEW x \in WorldType,
         receipts' = [receipts EXCEPT ![c] = r], world' = [world EXCEPT ![c] = x],
         mem' \in ReceiptType, mem'.status # "none", error' \in {"none", "error", "interrupt"},
         faults' \in 0 .. StudyFaults, aborted' \in BOOLEAN, Fair(r, x), Runs(c, r, x)',
         aborted' = TRUE => (aborted = TRUE /\ ExcusedBefore) \/ OnItsWay(c, r)'
  PROVE  StudyInv'
<1>1. StudyTypes /\ InOrder /\ Recorded /\ Ends /\ ledger.cases[c] = "running" /\ Study!Case' = c
  BY DEF StudyInv, InOrder, Study!Case
<1>2. receipts \in [Study!Cases -> ReceiptType] /\ world \in [Study!Cases -> WorldType] /\ at \notin {"calibrate", "ended", "crashed"}
  BY <1>1 DEF StudyTypes, InCase
<1>3. /\ receipts'[c] = r /\ world'[c] = x
      /\ \A d \in Study!Cases : d # c => receipts'[d] = receipts[d] /\ world'[d] = world[d]
  BY <1>2
<1>4. StudyTypes'
  <2>1. receipts' \in [Study!Cases -> ReceiptType] /\ world' \in [Study!Cases -> WorldType]
    BY <1>2
  <2>2. gate' \in Gates /\ n' \in 0 .. Len(Study!Order(gate')) /\ n' >= 1 /\ ledger' \in LedgerType
    BY <1>1 DEF StudyTypes
  <2>3. QED
    BY <2>1, <2>2 DEF StudyTypes
<1>5. InOrder'
  <2>1. Begun(c) /\ (\A d : Begun(d)' = Begun(d))
    <3>1. n \in 1 .. n
      BY <1>1 DEF StudyTypes
    <3>2. QED
      BY <3>1 DEF Begun, Study!Case
  <2>2. \A d \in Study!Cases : ~Begun(d)' =>
          ledger'.cases[d] = "unrun" /\ receipts'[d] = Study!NoReceipt /\ world'[d] = Study!Untouched
    BY <1>1, <1>3, <2>1 DEF InOrder
  <2>3. /\ \A d \in Study!Cases : Begun(d)' => ledger'.cases[d] # "unrun"
        /\ \A d \in Study!Cases : ledger'.cases[d] = "running" => d = c /\ n' >= 1
        /\ Study!Calibrated(gate) => promoted = TRUE
    BY <1>1, <2>1 DEF InOrder
  <2>4. Study!Calibrated(gate') = Study!Calibrated(gate) /\ at' # "calibrate"
    BY DEF Study!Calibrated, InCase
  <2>5. QED
    BY <1>1, <2>2, <2>3, <2>4 DEF InOrder
<1>6. Recorded'
  BY <1>1, <1>3 DEF Recorded
<1>7. Ends'
  BY <1>1, <1>2 DEF Ends, InCase
<1>8. Aborts'
  <2>1. ExcusedBefore => ExcusedBefore'
    <3> SUFFICES ASSUME NEW d \in Study!Cases, ledger.cases[d] \in {"passed", "failed"}, Excuse(d, receipts[d])
                 PROVE  ExcusedBefore'
      BY DEF ExcusedBefore
    <3>1. d # c /\ receipts'[d] = receipts[d]
      BY <1>1, <1>3
    <3>2. Excuse(d, receipts'[d])
      BY <3>1
    <3>3. QED
      BY <3>2 DEF ExcusedBefore, Excuse
  <2>2. aborted' = TRUE => ExcusedBefore' \/ OnItsWay(c, r)'
    BY <2>1
  <2>3. QED
    BY <1>1, <1>3, <2>2 DEF Aborts, OnItsWay, Excuse
<1>9. Runs(Study!Case, receipts[Study!Case], world[Study!Case])'
  BY <1>1, <1>3 DEF Runs
<1>10. QED
  BY <1>4, <1>5, <1>6, <1>7, <1>8, <1>9 DEF StudyInv

LEMMA FaultsLeft ==
  ASSUME StudyTypes, NEW happens \in BOOLEAN, Study!Costs(happens)
  PROVE  faults' \in 0 .. StudyFaults
BY StudiesAssumption DEF StudyTypes, Study!Costs, Study!StudyAssumption

LEMMA NoticeIs ==
  ASSUME StudyTypes, NEW interrupted \in BOOLEAN, Study!Notice(interrupted)
  PROVE  aborted' \in BOOLEAN /\ (aborted' = TRUE => aborted = TRUE \/ interrupted = TRUE)
BY DEF StudyTypes, Study!Notice

\* What is known of the running case before a step inside it.
LEMMA BeforeStep ==
  ASSUME StudyInv, at \in InCase, NEW c \in Study!Cases, c = Study!Case
  PROVE  /\ StudyTypes /\ faults \in 0 .. StudyFaults /\ error \in {"none", "error", "interrupt"} /\ aborted \in BOOLEAN
         /\ receipts = [receipts EXCEPT ![c] = receipts[c]] /\ world = [world EXCEPT ![c] = world[c]]
         /\ Fair(receipts[c], world[c])
         /\ aborted = TRUE => ExcusedBefore \/ OnItsWay(c, receipts[c])
<1>1. StudyTypes /\ Recorded /\ Aborts
  BY DEF StudyInv
<1>2. receipts \in [Study!Cases -> ReceiptType] /\ world \in [Study!Cases -> WorldType]
  BY <1>1 DEF StudyTypes
<1>3. at \notin {"ended", "crashed"}
  BY DEF InCase
<1>4. QED
  BY <1>1, <1>2, <1>3 DEF StudyTypes, Recorded, Aborts

LEMMA CompleteStep ==
  ASSUME StudyInv, Study!Complete
  PROVE  StudyInv'
<1>1. at = "execute" /\ at \in InCase /\ UNCHANGED <<gate, n, ledger, receipts, error, promoted, aborted, faults>>
  BY DEF Study!Complete, InCase
<1>2. PICK c \in Study!Cases, r \in ReceiptType, x \in WorldType :
        c = Study!Case /\ r = receipts[c] /\ x = world[c] /\ Runs(c, r, x) /\ mem \in ReceiptType
  BY <1>1, RunningCase
<1>3. mem = Study!Opened /\ error = "none" /\ r = First(c)
  BY <1>1, <1>2 DEF Runs
<1>4. /\ at' \in {"judge", "finalize"} /\ at' \in InCase /\ (at' = "judge" <=> Study!JudgedFirst(c))
      /\ world' = [world EXCEPT ![c] = Study!Completed] /\ mem' = [mem EXCEPT !.executed = TRUE]
  BY <1>2 DEF Study!Complete, InCase
<1>5. /\ mem' \in ReceiptType /\ mem'.status = "failed" /\ mem'.error = "none" /\ mem'.cleanup = FALSE
      /\ mem'.executed = TRUE
  BY <1>2, <1>3, <1>4, StudyConstants DEF ReceiptType
<1>6. Runs(c, r, Study!Completed)'
  BY <1>1, <1>3, <1>4, <1>5, StudyConstants DEF Runs, Fair
<1>7. Fair(r, Study!Completed)
  BY <1>3, StudyConstants
<1>8. aborted' = TRUE => aborted = TRUE /\ ExcusedBefore
  BY <1>1, <1>2, BeforeStep DEF OnItsWay
<1>9. receipts' = [receipts EXCEPT ![c] = r] /\ faults' \in 0 .. StudyFaults /\ aborted' \in BOOLEAN
  BY <1>1, <1>2, BeforeStep
<1>10. QED
  BY <1>1, <1>2, <1>3, <1>4, <1>5, <1>6, <1>7, <1>8, <1>9, StudyConstants, InCaseStep

LEMMA BreakStep ==
  ASSUME StudyInv, Study!Break \/ Study!NotStarted
  PROVE  StudyInv'
<1>1. at = "execute" /\ at \in InCase /\ UNCHANGED <<gate, n, ledger, receipts, promoted>> /\ Study!Costs(TRUE)
  BY DEF Study!Break, Study!NotStarted, InCase
<1>2. PICK c \in Study!Cases, r \in ReceiptType, x \in WorldType :
        c = Study!Case /\ r = receipts[c] /\ x = world[c] /\ Runs(c, r, x) /\ mem \in ReceiptType
  BY <1>1, RunningCase
<1>3. mem = Study!Opened /\ error = "none" /\ r = First(c) /\ x = Study!Untouched
  BY <1>1, <1>2 DEF Runs
<1>4. PICK kind \in Study!Kinds : Study!Notice(kind = "interrupt") /\ mem' = [mem EXCEPT !.error = kind] /\ error' = kind
  BY DEF Study!Break, Study!NotStarted
<1>5. kind \in {"error", "interrupt"}
  BY DEF Study!Kinds
<1>6. PICK y \in WorldType :
        /\ world' = [world EXCEPT ![c] = y]
        /\ at' = "finalize" \/ (y = Study!Untouched /\ at' = (IF Study!JudgedFirst(c) THEN "settle" ELSE "export"))
  <2>1. CASE Study!Break
    BY <1>2, <2>1, StudyConstants DEF Study!Break
  <2>2. CASE Study!NotStarted
    <3>1. world' = world /\ at' = (IF Study!JudgedFirst(c) THEN "settle" ELSE "export")
      BY <1>2, <2>2 DEF Study!NotStarted
    <3>2. world = [world EXCEPT ![c] = x]
      BY <1>1, <1>2, BeforeStep
    <3>3. QED
      BY <1>3, <3>1, <3>2
  <2>3. QED
    BY <2>1, <2>2
<1>7. mem' \in ReceiptType /\ mem'.status = "failed" /\ mem'.error = kind /\ mem'.cleanup = FALSE
  BY <1>2, <1>3, <1>4, <1>5, StudyConstants DEF ReceiptType
<1>8. Runs(c, r, y)'
  BY <1>1, <1>3, <1>4, <1>5, <1>6, <1>7, StudyConstants DEF Runs, Fair
<1>9. aborted' \in BOOLEAN /\ faults' \in 0 .. StudyFaults /\ (aborted' = TRUE => aborted = TRUE \/ kind = "interrupt")
  <2>1. StudyTypes /\ (kind = "interrupt") \in BOOLEAN /\ TRUE \in BOOLEAN
    BY <1>1, <1>2, BeforeStep
  <2>2. QED
    BY <1>1, <1>4, <2>1, NoticeIs, FaultsLeft
<1>10. aborted' = TRUE => (aborted = TRUE /\ ExcusedBefore) \/ OnItsWay(c, r)'
  <2>1. aborted = TRUE => ExcusedBefore
    BY <1>1, <1>2, BeforeStep DEF OnItsWay
  <2>2. kind = "interrupt" => OnItsWay(c, r)'
    BY <1>4, <1>6 DEF OnItsWay
  <2>3. QED
    BY <1>9, <2>1, <2>2
<1>11. at' \in InCase /\ mem'.status # "none" /\ error' \in {"none", "error", "interrupt"}
  BY <1>4, <1>5, <1>6, <1>7 DEF InCase
<1>12. receipts' = [receipts EXCEPT ![c] = r] /\ Fair(r, y)
  <2>1. receipts' = [receipts EXCEPT ![c] = r]
    BY <1>1, <1>2, BeforeStep
  <2>2. Fair(r, y)
    BY ONLY <1>3, StudyConstants
  <2>3. QED
    BY <2>1, <2>2
<1>13. QED
  BY <1>1, <1>2, <1>6, <1>7, <1>8, <1>9, <1>10, <1>11, <1>12, InCaseStep

\* A failure on its way, or none, costs what it costs and is noticed.
LEMMA FaultNoticed ==
  ASSUME StudyTypes, NEW what, NEW fine, Study!Costs(what # fine), Study!Notice(what = "interrupt")
  PROVE  /\ faults' \in 0 .. StudyFaults /\ aborted' \in BOOLEAN
         /\ aborted' = TRUE => aborted = TRUE \/ what = "interrupt"
<1>1. (what # fine) \in BOOLEAN /\ (what = "interrupt") \in BOOLEAN
  OBVIOUS
<1>2. faults' \in 0 .. StudyFaults
  BY <1>1, FaultsLeft
<1>3. aborted' \in BOOLEAN /\ (aborted' = TRUE => aborted = TRUE \/ (what = "interrupt") = TRUE)
  BY <1>1, NoticeIs
<1>4. QED
  BY <1>2, <1>3

LEMMA JudgeStep ==
  ASSUME StudyInv, Study!Judge
  PROVE  StudyInv'
<1>1. /\ at = "judge" /\ at' = "finalize" /\ at \in InCase /\ at' \in InCase
      /\ UNCHANGED <<gate, n, ledger, receipts, world, promoted>>
  BY DEF Study!Judge, InCase
<1>2. PICK c \in Study!Cases, r \in ReceiptType, x \in WorldType :
        c = Study!Case /\ r = receipts[c] /\ x = world[c] /\ Runs(c, r, x) /\ mem \in ReceiptType
  BY <1>1, RunningCase
<1>3. /\ Study!JudgedFirst(c) /\ mem = [Study!Opened EXCEPT !.executed = TRUE] /\ error = "none"
      /\ x = Study!Completed /\ r = First(c)
  BY <1>1, <1>2 DEF Runs
<1>4. PICK what \in {"passed", "failed"} \cup Study!Kinds :
        /\ Study!Costs(what # "passed") /\ Study!Notice(what = "interrupt")
        /\ IF what = "passed"
           THEN /\ mem' = [mem EXCEPT !.status = "passed", !.identical = TRUE, !.evaluation = "passed"]
                /\ UNCHANGED error
           ELSE /\ error' = (IF what = "interrupt" THEN what ELSE "error")
                /\ mem' = [mem EXCEPT !.error = error', !.evaluation = IF what = "failed" THEN what ELSE @]
  BY DEF Study!Judge
<1>5. /\ mem.status = "failed" /\ mem.error = "none" /\ mem.cleanup = FALSE /\ mem.executed = TRUE
      /\ mem.evaluation = "none" /\ mem.identical = FALSE
  <2>1. Study!Opened \in ReceiptType
    BY StudyConstants
  <2>2. QED
    BY <1>3, <2>1, StudyConstants DEF ReceiptType
<1>6. error' \in {"none", "error", "interrupt"} /\ (what = "interrupt" => error' = "interrupt")
  BY <1>3, <1>4
<1>7. Runs(c, r, x)' /\ mem' \in ReceiptType /\ mem'.status # "none"
  <2>1. CASE what = "passed"
    <3>1. /\ mem' \in ReceiptType /\ mem'.status = "passed" /\ mem'.error = "none" /\ mem'.cleanup = FALSE
          /\ mem'.executed = TRUE /\ mem'.evaluation = "passed" /\ mem'.identical = TRUE /\ error' = "none"
      BY <1>2, <1>3, <1>4, <1>5, <2>1 DEF ReceiptType
    <3>2. Runs(c, r, x)'
      BY <1>1, <1>3, <3>1, StudyConstants DEF Runs, Fair, Earned
    <3>3. QED
      BY <3>1, <3>2
  <2>2. CASE what # "passed"
    <3>1. /\ mem' \in ReceiptType /\ mem'.status = "failed" /\ mem'.error = error' /\ mem'.cleanup = FALSE
          /\ mem'.executed = TRUE /\ error' \in {"error", "interrupt"}
      <4>1. PICK e \in {"error", "interrupt"}, v \in {"none", "failed"} :
              error' = e /\ mem' = [mem EXCEPT !.error = e, !.evaluation = v]
        <5> DEFINE e == IF what = "interrupt" THEN what ELSE "error"
                   v == IF what = "failed" THEN what ELSE mem.evaluation
        <5>1. e \in {"error", "interrupt"} /\ v \in {"none", "failed"}
          BY <1>5
        <5>2. error' = e /\ mem' = [mem EXCEPT !.error = e, !.evaluation = v]
          BY <1>4, <2>2
        <5>3. QED
          BY <5>1, <5>2
      <4>2. QED
        BY <1>2, <1>5, <4>1 DEF ReceiptType
    <3>2. Runs(c, r, x)'
      BY <1>1, <1>3, <3>1, StudyConstants DEF Runs, Fair
    <3>3. QED
      BY <3>1, <3>2
  <2>3. QED
    BY <2>1, <2>2
<1>8. StudyTypes /\ (aborted = TRUE => ExcusedBefore)
  BY <1>1, <1>2, BeforeStep DEF OnItsWay
<1>9. faults' \in 0 .. StudyFaults /\ aborted' \in BOOLEAN /\ (aborted' = TRUE => aborted = TRUE \/ what = "interrupt")
  BY <1>4, <1>8, FaultNoticed
<1>10. aborted' = TRUE => (aborted = TRUE /\ ExcusedBefore) \/ OnItsWay(c, r)'
  BY <1>1, <1>6, <1>8, <1>9 DEF OnItsWay
<1>11. receipts' = [receipts EXCEPT ![c] = r] /\ world' = [world EXCEPT ![c] = x]
  BY <1>1, <1>2, BeforeStep
<1>12. Fair(r, x)
  BY <1>3, StudyConstants
<1>13. QED
  BY <1>1, <1>2, <1>6, <1>7, <1>9, <1>10, <1>11, <1>12, InCaseStep

LEMMA FinalizeStep ==
  ASSUME StudyInv, Study!Finalize
  PROVE  StudyInv'
<1>1. /\ at = "finalize" /\ at' = "export" /\ at \in InCase /\ at' \in InCase
      /\ UNCHANGED <<gate, n, ledger, promoted, aborted>>
  BY DEF Study!Finalize, InCase
<1>2. PICK c \in Study!Cases, r \in ReceiptType, x \in WorldType :
        c = Study!Case /\ r = receipts[c] /\ x = world[c] /\ Runs(c, r, x) /\ mem \in ReceiptType /\ mem.status # "none"
  BY <1>1, RunningCase
<1>3. PICK errors \in BOOLEAN, clean \in BOOLEAN :
        /\ Study!Costs(errors) /\ (~errors => clean)
        /\ world' = [world EXCEPT ![c].owner = IF @ = "running" /\ clean THEN "killed" ELSE @,
                                  ![c].cluster = IF clean THEN "deleted" ELSE @]
        /\ mem' = [mem EXCEPT !.finalized = ~errors, !.cleanup = errors,
                              !.status = IF errors THEN "failed" ELSE @]
        /\ error' = (IF errors THEN "error" ELSE error)
        /\ receipts' = [receipts EXCEPT ![c] = mem']
  BY <1>2 DEF Study!Finalize, Study!Collected, Study!Saved
<1>4. /\ StudyTypes /\ faults' \in 0 .. StudyFaults /\ error \in {"none", "error", "interrupt"} /\ aborted' \in BOOLEAN
      /\ world \in [Study!Cases -> WorldType] /\ (aborted = TRUE => ExcusedBefore \/ error = "interrupt")
  <2>1. StudyTypes /\ (aborted = TRUE => ExcusedBefore \/ error = "interrupt") /\ aborted \in BOOLEAN
        /\ error \in {"none", "error", "interrupt"}
    BY <1>1, <1>2, BeforeStep DEF OnItsWay
  <2>2. world \in [Study!Cases -> WorldType]
    BY <2>1 DEF StudyTypes
  <2>3. QED
    BY <1>1, <1>3, <2>1, <2>2, FaultsLeft
<1>5. /\ error = mem.error /\ mem.cleanup = FALSE
      /\ Fair(mem, x) /\ (mem.error # "none" => error # "none")
      /\ mem.status = "passed" => Study!JudgedFirst(c)
      /\ mem.error = "none" => mem.executed = TRUE /\ x = Study!Completed
      /\ Study!JudgedFirst(c) /\ error = "none" => mem.status = "passed"
      /\ error = "error" => mem.status = "failed"
  BY <1>1, <1>2 DEF Runs
<1>6. PICK y \in WorldType :
        /\ world' = [world EXCEPT ![c] = y]
        /\ y.owner = (IF x.owner = "running" /\ clean THEN "killed" ELSE x.owner)
        /\ y.cluster = (IF clean THEN "deleted" ELSE x.cluster) /\ y.window = x.window
  <2> DEFINE o == IF x.owner = "running" /\ clean THEN "killed" ELSE x.owner
             k == IF clean THEN "deleted" ELSE x.cluster
             z == [x EXCEPT !.owner = o, !.cluster = k]
  <2>1. o \in {"none", "running", "exited", "killed"} /\ k \in {"none", "up", "deleted"}
    BY <1>2 DEF WorldType
  <2>2. z \in WorldType /\ z.owner = o /\ z.cluster = k /\ z.window = x.window
    BY <1>2, <2>1 DEF WorldType
  <2>3. world' = [world EXCEPT ![c] = z]
    BY <1>2, <1>3, <1>4
  <2>4. QED
    BY <2>2, <2>3
<1>7. mem.error = "none" => y = Study!Completed
  <2>1. Study!Completed \in WorldType /\ Study!Completed.owner = "exited" /\ Study!Completed.cluster = "deleted"
    BY StudyConstants
  <2>2. mem.error = "none" => y.owner = "exited" /\ y.cluster = "deleted" /\ y.window = Study!Completed.window
    BY <1>5, <1>6, <2>1
  <2>3. \A u, v \in WorldType : u.owner = v.owner /\ u.cluster = v.cluster /\ u.window = v.window => u = v
    BY DEF WorldType
  <2>4. QED
    BY ONLY <1>6, <2>1, <2>2, <2>3
<1>8. /\ mem' \in ReceiptType /\ mem'.error = mem.error /\ mem'.executed = mem.executed
      /\ mem'.identical = mem.identical /\ mem'.evaluation = mem.evaluation
      /\ mem'.cleanup = errors /\ mem'.status = (IF errors THEN "failed" ELSE mem.status)
  <2>1. errors = TRUE \/ errors = FALSE
    OBVIOUS
  <2>2. CASE errors = TRUE
    BY <1>2, <1>3, <2>2 DEF ReceiptType
  <2>3. CASE errors = FALSE
    BY <1>2, <1>3, <2>3 DEF ReceiptType
  <2>4. QED
    BY <2>1, <2>2, <2>3
<1>9. PICK s \in ReceiptType : s = mem'
  BY <1>8
<1>10. Fair(s, y) /\ Runs(c, s, y)' /\ (aborted = TRUE => ExcusedBefore \/ OnItsWay(c, s)')
  <2>1. CASE errors = TRUE
    <3>1. mem'.status = "failed" /\ mem'.cleanup = TRUE /\ error' = "error"
      BY <1>3, <1>8, <2>1
    <3>2. Fair(s, y)
      BY <1>9, <3>1 DEF Fair
    <3>3. Runs(c, s, y)'
      BY <1>1, <1>5, <1>7, <1>8, <1>9, <3>1, <3>2 DEF Runs
    <3>4. OnItsWay(c, s)'
      BY <1>1, <1>9, <3>1 DEF OnItsWay, Excuse
    <3>5. QED
      BY <3>2, <3>3, <3>4
  <2>2. CASE errors = FALSE
    <3>1. /\ mem'.status = mem.status /\ mem'.cleanup = FALSE /\ error' = error /\ clean = TRUE
          /\ y.cluster = "deleted" /\ y.owner # "running"
      BY <1>3, <1>6, <1>8, <2>2
    <3>2. Fair(s, y)
      BY <1>5, <1>6, <1>8, <1>9, <3>1 DEF Fair, Earned
    <3>3. ~LeftOver(y)
      BY <3>1 DEF LeftOver
    <3>4. Runs(c, s, y)'
      BY <1>1, <1>5, <1>7, <1>8, <1>9, <3>1, <3>2, <3>3 DEF Runs
    <3>5. error = "interrupt" => OnItsWay(c, s)'
      BY <1>1, <3>1 DEF OnItsWay
    <3>6. QED
      BY <1>4, <3>2, <3>4, <3>5
  <2>3. QED
    BY <2>1, <2>2
<1>11. mem'.status # "none" /\ error' \in {"none", "error", "interrupt"}
  BY <1>2, <1>3, <1>4, <1>8
<1>12. /\ receipts' = [receipts EXCEPT ![c] = s]
       /\ (aborted' = TRUE => (aborted = TRUE /\ ExcusedBefore) \/ OnItsWay(c, s)')
  BY <1>1, <1>3, <1>9, <1>10
<1>13. QED
  BY <1>1, <1>2, <1>4, <1>6, <1>8, <1>10, <1>11, <1>12, InCaseStep

LEMMA InterruptedFinalizingStep ==
  ASSUME StudyInv, Study!InterruptedFinalizing
  PROVE  StudyInv'
<1>1. /\ at = "finalize" /\ at' = "export" /\ at \in InCase /\ at' \in InCase /\ error' = "interrupt"
      /\ UNCHANGED <<gate, n, ledger, receipts, mem, promoted>> /\ Study!Costs(TRUE) /\ Study!Notice(TRUE)
  BY DEF Study!InterruptedFinalizing, InCase
<1>2. PICK c \in Study!Cases, r \in ReceiptType, x \in WorldType :
        c = Study!Case /\ r = receipts[c] /\ x = world[c] /\ Runs(c, r, x) /\ mem \in ReceiptType /\ mem.status # "none"
  BY <1>1, RunningCase
<1>3. PICK killed \in BOOLEAN :
        world' = [world EXCEPT ![c].owner = IF @ = "running" /\ killed THEN "killed" ELSE @]
  BY <1>2 DEF Study!InterruptedFinalizing
<1>4. StudyTypes /\ faults' \in 0 .. StudyFaults /\ aborted' \in BOOLEAN /\ world \in [Study!Cases -> WorldType]
  <2>1. StudyTypes
    BY <1>1, <1>2, BeforeStep
  <2>2. world \in [Study!Cases -> WorldType]
    BY <2>1 DEF StudyTypes
  <2>3. QED
    BY <1>1, <2>1, <2>2, FaultsLeft, NoticeIs
<1>5. /\ r = First(c) /\ Fair(mem, x) /\ error = mem.error
      /\ mem.status = "passed" => Study!JudgedFirst(c)
      /\ mem.error = "none" => mem.executed = TRUE /\ x = Study!Completed
  BY <1>1, <1>2 DEF Runs
<1>6. PICK y \in WorldType :
        /\ world' = [world EXCEPT ![c] = y] /\ (x.owner = "exited" => y = x)
  <2> DEFINE o == IF x.owner = "running" /\ killed THEN "killed" ELSE x.owner
             z == [x EXCEPT !.owner = o]
  <2>1. o \in {"none", "running", "exited", "killed"}
    BY <1>2 DEF WorldType
  <2>2. z \in WorldType
    BY <1>2, <2>1 DEF WorldType
  <2>3. x.owner = "exited" => z = x
    BY <1>2 DEF WorldType
  <2>4. world' = [world EXCEPT ![c] = z]
    BY <1>2, <1>3, <1>4
  <2>5. QED
    BY <2>2, <2>3, <2>4
<1>7. Fair(mem, y)
  BY <1>5, <1>6 DEF Fair, Earned
<1>8. mem.error = "none" => y = Study!Completed
  BY <1>5, <1>6, StudyConstants
<1>9. mem.status \in {"passed", "failed"} /\ (mem.error # "none" => mem.status = "failed")
  BY <1>2, <1>5 DEF ReceiptType, Fair
<1>10. Runs(c, r, y)'
  <2>1. Fair(mem, y)'
    BY <1>1, <1>7 DEF Fair, Earned
  <2>2. QED
    BY <1>1, <1>5, <1>8, <2>1 DEF Runs, First, Fair
<1>11. OnItsWay(c, r)'
  BY <1>1 DEF OnItsWay
<1>12. receipts' = [receipts EXCEPT ![c] = r]
  BY <1>1, <1>2, BeforeStep
<1>13. Fair(r, y)
  BY <1>5, StudyConstants
<1>14. QED
  BY <1>1, <1>2, <1>4, <1>6, <1>10, <1>11, <1>12, <1>13, InCaseStep

\* After the exports of a case its receipt is what is in memory of it.
LEMMA ExportStep ==
  ASSUME StudyInv, Study!Export
  PROVE  StudyInv'
<1>1. /\ at = "export" /\ at' = "settle" /\ at \in InCase /\ at' \in InCase
      /\ UNCHANGED <<gate, n, ledger, world, promoted>>
  BY DEF Study!Export, InCase
<1>2. PICK c \in Study!Cases, r \in ReceiptType, x \in WorldType :
        c = Study!Case /\ r = receipts[c] /\ x = world[c] /\ Runs(c, r, x) /\ mem \in ReceiptType /\ mem.status # "none"
  BY <1>1, RunningCase
<1>3. ~Study!JudgedFirst(c) /\ receipts' = [receipts EXCEPT ![c] = mem']
  BY <1>2 DEF Study!Export, Study!Saved
<1>4. /\ StudyTypes /\ faults \in 0 .. StudyFaults /\ error \in {"none", "error", "interrupt"} /\ aborted \in BOOLEAN
      /\ world' = [world EXCEPT ![c] = x] /\ (aborted = TRUE => ExcusedBefore \/ OnItsWay(c, r))
  BY <1>1, <1>2, BeforeStep
<1>5. /\ Fair(mem, x) /\ (mem.error # "none" => error # "none") /\ mem.status = "failed"
      /\ error = "error" => mem.error # "none" \/ mem.cleanup = TRUE
      /\ mem.error = "none" => mem.executed = TRUE /\ x = Study!Completed
      /\ error # "interrupt" => (LeftOver(x) => mem.cleanup = TRUE)
  BY <1>1, <1>2, <1>3 DEF Runs, ReceiptType
<1>6. /\ faults' \in 0 .. StudyFaults /\ aborted' \in BOOLEAN
      /\ \/ UNCHANGED <<mem, error, aborted>>
         \/ \E what \in {"passed", "failed", "error", "interrupt"} :
              /\ aborted' = TRUE => aborted = TRUE \/ what = "interrupt"
              /\ mem' = (CASE what = "passed" ->
                              [mem EXCEPT !.evaluation = what, !.identical = TRUE,
                                          !.status = IF Study!Earned THEN "passed" ELSE @]
                           [] what = "failed" -> [mem EXCEPT !.evaluation = what, !.identical = TRUE]
                           [] what = "error" -> [mem EXCEPT !.status = "failed"]
                           [] OTHER -> mem)
              /\ error' = (IF what = "interrupt" THEN what ELSE error)
  <2>1. CASE UNCHANGED <<mem, error, aborted, faults>>
    BY <1>4, <2>1
  <2>2. ASSUME NEW what \in {"passed", "failed"} \cup Study!Kinds,
               Study!Costs(what # "passed"), Study!Notice(what = "interrupt")
        PROVE  /\ faults' \in 0 .. StudyFaults /\ aborted' \in BOOLEAN /\ what \in {"passed", "failed", "error", "interrupt"}
               /\ aborted' = TRUE => aborted = TRUE \/ what = "interrupt"
    BY <1>4, <2>2, FaultNoticed DEF Study!Kinds
  <2>3. QED
    BY <2>1, <2>2 DEF Study!Export
<1> DEFINE Exported ==
      /\ mem' \in ReceiptType /\ mem'.error = mem.error /\ mem'.executed = mem.executed /\ mem'.cleanup = mem.cleanup
      /\ mem'.status \in {"failed", "passed"}
      /\ mem'.status = "passed" =>
           /\ mem.executed = TRUE /\ mem.error = "none" /\ mem.cleanup = FALSE /\ mem'.identical = TRUE
           /\ mem'.evaluation = "passed"
      /\ error' \in {error, "interrupt"}
      /\ aborted' = TRUE => aborted = TRUE \/ error' = "interrupt"
<1>7. Exported
  <2>1. CASE UNCHANGED <<mem, error, aborted>>
    BY <1>2, <1>5, <2>1
  <2>2. ASSUME NEW what \in {"passed", "failed", "error", "interrupt"},
               aborted' = TRUE => aborted = TRUE \/ what = "interrupt",
               mem' = (CASE what = "passed" ->
                              [mem EXCEPT !.evaluation = what, !.identical = TRUE,
                                          !.status = IF Study!Earned THEN "passed" ELSE @]
                         [] what = "failed" -> [mem EXCEPT !.evaluation = what, !.identical = TRUE]
                         [] what = "error" -> [mem EXCEPT !.status = "failed"]
                         [] OTHER -> mem),
               error' = (IF what = "interrupt" THEN what ELSE error)
        PROVE  Exported
    <3>1. CASE what = "passed"
      <4>1. PICK v \in {"passed", "failed"} :
              /\ mem' = [mem EXCEPT !.evaluation = "passed", !.identical = TRUE, !.status = v]
              /\ v = "passed" => mem.executed = TRUE /\ mem.error = "none" /\ mem.cleanup = FALSE
        <5>1. CASE Study!Earned
          BY <1>2, <2>2, <3>1, <5>1 DEF Study!Earned, ReceiptType
        <5>2. CASE ~Study!Earned
          BY <1>5, <2>2, <3>1, <5>2
        <5>3. QED
          BY <5>1, <5>2
      <4>2. QED
        BY <1>2, <2>2, <3>1, <4>1 DEF ReceiptType
    <3>2. CASE what = "failed"
      BY <1>2, <1>5, <2>2, <3>2 DEF ReceiptType
    <3>3. CASE what = "error"
      BY <1>2, <1>5, <2>2, <3>3 DEF ReceiptType
    <3>4. CASE what = "interrupt"
      BY <1>2, <1>5, <2>2, <3>4
    <3>5. QED
      BY <3>1, <3>2, <3>3, <3>4
  <2>3. QED
    BY <1>6, <2>1, <2>2
<1>8. PICK s \in ReceiptType : s = mem'
  BY <1>7
<1>9. Fair(s, x)
  BY <1>5, <1>7, <1>8, StudyConstants DEF Fair, Earned
<1>10. Runs(c, s, x)'
  <2>1. error' = "error" => mem'.status = "failed"
    BY <1>5, <1>7
  <2>2. error' # "interrupt" => (LeftOver(x) => mem'.cleanup = TRUE)
    BY <1>5, <1>7
  <2>3. /\ mem'.error # "none" => error' # "none"
        /\ mem'.error = "none" => mem'.executed = TRUE /\ x = Study!Completed
    BY <1>5, <1>7
  <2>4. QED
    BY <1>1, <1>3, <1>8, <1>9, <2>1, <2>2, <2>3 DEF Runs
<1>11. aborted' = TRUE => (aborted = TRUE /\ ExcusedBefore) \/ OnItsWay(c, s)'
  <2>1. CASE error' = "interrupt"
    BY <1>1, <2>1 DEF OnItsWay
  <2>2. CASE error' # "interrupt"
    <3>1. error' = error /\ error # "interrupt" /\ (aborted' = TRUE => aborted = TRUE)
      BY <1>7, <2>2
    <3>2. OnItsWay(c, r) => r.cleanup = TRUE /\ r = mem
      BY <1>1, <1>3, <3>1 DEF OnItsWay, Excuse
    <3>3. r.cleanup = TRUE /\ r = mem => OnItsWay(c, s)'
      BY <1>1, <1>7, <1>8 DEF OnItsWay, Excuse
    <3>4. QED
      BY <1>4, <3>1, <3>2, <3>3
  <2>3. QED
    BY <2>1, <2>2
<1>12. mem'.status # "none" /\ error' \in {"none", "error", "interrupt"} /\ receipts' = [receipts EXCEPT ![c] = s]
  BY <1>3, <1>4, <1>7, <1>8
<1>13. QED
  BY <1>1, <1>2, <1>4, <1>6, <1>7, <1>9, <1>10, <1>11, <1>12, InCaseStep

LEMMA ExportAgainStep ==
  ASSUME StudyInv, Study!ExportAgain
  PROVE  StudyInv'
<1>1. /\ at = "export" /\ at' = "settle" /\ at \in InCase /\ at' \in InCase
      /\ UNCHANGED <<gate, n, ledger, world, promoted>>
  BY DEF Study!ExportAgain, InCase
<1>2. PICK c \in Study!Cases, r \in ReceiptType, x \in WorldType :
        c = Study!Case /\ r = receipts[c] /\ x = world[c] /\ Runs(c, r, x) /\ mem \in ReceiptType /\ mem.status # "none"
  BY <1>1, RunningCase
<1>3. Study!JudgedFirst(c) /\ receipts' = [receipts EXCEPT ![c] = mem']
  BY <1>2 DEF Study!ExportAgain, Study!Saved
<1>4. /\ StudyTypes /\ faults \in 0 .. StudyFaults /\ error \in {"none", "error", "interrupt"} /\ aborted \in BOOLEAN
      /\ world' = [world EXCEPT ![c] = x] /\ (aborted = TRUE => ExcusedBefore \/ OnItsWay(c, r))
  BY <1>1, <1>2, BeforeStep
<1>5. /\ Fair(mem, x) /\ (mem.error # "none" => error # "none")
      /\ error = "none" => mem.status = "passed"
      /\ error = "error" => mem.status = "failed"
      /\ mem.error = "none" => mem.executed = TRUE /\ x = Study!Completed
      /\ error # "interrupt" => (LeftOver(x) => mem.cleanup = TRUE)
  BY <1>1, <1>2, <1>3 DEF Runs
\* Nothing, an interrupt on its way, or a case that had passed is spoilt.
<1> DEFINE Same == mem' = mem /\ error' = error /\ (aborted' = TRUE => aborted = TRUE)
           Stopped == mem' = mem /\ error' = "interrupt"
           Spoilt == /\ mem.status = "passed" /\ mem' = [mem EXCEPT !.status = "failed"] /\ error' = "error"
                     /\ aborted' = TRUE => aborted = TRUE
<1>6. faults' \in 0 .. StudyFaults /\ aborted' \in BOOLEAN /\ (Same \/ Stopped \/ Spoilt)
  <2>1. CASE UNCHANGED <<mem, error, aborted, faults>>
    BY <1>4, <2>1
  <2>2. ASSUME NEW what \in {"exported"} \cup Study!Kinds,
               Study!Costs(what # "exported"), Study!Notice(what = "interrupt"),
               mem' = IF what = "error" /\ mem.status = "passed" THEN [mem EXCEPT !.status = "failed"] ELSE mem,
               error' = (IF what = "error" /\ mem.status = "passed" THEN "error"
                         ELSE IF what = "interrupt" THEN what ELSE error)
        PROVE  faults' \in 0 .. StudyFaults /\ aborted' \in BOOLEAN /\ (Same \/ Stopped \/ Spoilt)
    <3>1. /\ faults' \in 0 .. StudyFaults /\ aborted' \in BOOLEAN
          /\ aborted' = TRUE => aborted = TRUE \/ what = "interrupt"
      BY <1>4, <2>2, FaultNoticed
    <3>2. CASE what = "error" /\ mem.status = "passed"
      BY <2>2, <3>1, <3>2
    <3>3. CASE what = "interrupt"
      BY <2>2, <3>1, <3>3
    <3>4. CASE what # "interrupt" /\ ~(what = "error" /\ mem.status = "passed")
      BY <2>2, <3>1, <3>4
    <3>5. QED
      BY <3>1, <3>2, <3>3, <3>4
  <2>3. CASE world[Study!Case].window = FALSE
    BY <2>1, <2>3 DEF Study!ExportAgain
  <2>4. QED
    BY <2>1, <2>2 DEF Study!ExportAgain
<1>7. /\ mem' \in ReceiptType /\ mem'.error = mem.error /\ mem'.executed = mem.executed /\ mem'.cleanup = mem.cleanup
      /\ mem'.identical = mem.identical
      /\ (mem' = mem \/ (mem.status = "passed" /\ mem'.status = "failed" /\ error' = "error"))
      /\ mem'.status # "none"
  <2>1. CASE mem' = mem
    BY <1>2, <2>1
  <2>2. CASE Spoilt
    BY <1>2, <2>2 DEF ReceiptType
  <2>3. QED
    BY <1>6, <2>1, <2>2
<1>8. PICK s \in ReceiptType : s = mem'
  BY <1>7
<1>9. Fair(s, x)
  BY <1>5, <1>7, <1>8 DEF Fair
<1>10. Runs(c, s, x)'
  <2>1. CASE mem' = mem /\ error' \in {error, "interrupt"}
    <3>1. Fair(mem, x)' /\ (error' # "interrupt" => error' = error)
      BY <1>8, <1>9, <2>1
    <3>2. QED
      BY <1>1, <1>3, <1>5, <1>8, <2>1, <3>1 DEF Runs
  <2>2. CASE Spoilt
    <3>1. Fair(mem, x)' /\ mem'.status = "failed" /\ error' = "error"
      BY <1>7, <1>8, <1>9, <2>2
    <3>2. ~LeftOver(x)
      BY <1>5, <2>2 DEF Fair, Earned, LeftOver
    <3>3. QED
      BY <1>1, <1>5, <1>7, <1>8, <3>1, <3>2 DEF Runs
  <2>3. QED
    BY <1>6, <2>1, <2>2
<1>11. aborted' = TRUE => (aborted = TRUE /\ ExcusedBefore) \/ OnItsWay(c, s)'
  <2>1. CASE Stopped
    BY <1>1, <2>1 DEF OnItsWay
  <2>2. CASE Same
    <3>1. OnItsWay(c, r) => OnItsWay(c, s)'
      BY <1>1, <1>3, <1>8, <2>2 DEF OnItsWay, Excuse
    <3>2. QED
      BY <1>4, <2>2, <3>1
  <2>3. CASE Spoilt
    <3>1. mem.identical = TRUE /\ mem'.status = "failed"
      BY <1>5, <1>7, <2>3 DEF Fair, Earned
    <3>2. OnItsWay(c, s)'
      BY <1>1, <1>3, <1>7, <1>8, <3>1 DEF OnItsWay, Excuse
    <3>3. QED
      BY <3>2
  <2>4. QED
    BY <1>6, <2>1, <2>2, <2>3
<1>12. error' \in {"none", "error", "interrupt"} /\ receipts' = [receipts EXCEPT ![c] = s]
  BY <1>3, <1>4, <1>6, <1>8
<1>13. QED
  BY <1>1, <1>2, <1>4, <1>6, <1>7, <1>9, <1>10, <1>11, <1>12, InCaseStep

\* What a step says of the ledger: cases open and close one at a time, and a
\* later one only after an interrupt that something took the place of.
InTurn == Study!EachCaseOnce /\ Study!InterruptStops

\* A step between the cases, or the last one before the process dies.
LEMMA BetweenStep ==
  ASSUME StudyInv, UNCHANGED <<gate, n, receipts, world>>, at \notin {"ended", "crashed"},
         at' \in {"next", "ended", "crashed"}, at' # "crashed" => at \in {"calibrate", "next"},
         at' = "next" => (Study!Calibrated(gate) => promoted' = TRUE) /\ (aborted' = TRUE => aborted = TRUE),
         ledger' \in LedgerType, ledger'.cases = ledger.cases, Ends',
         mem' \in ReceiptType, mem'.status = "none", error' \in {"none", "error", "interrupt"},
         faults' \in 0 .. StudyFaults, aborted' \in BOOLEAN
  PROVE  StudyInv' /\ InTurn
<1>1. StudyTypes /\ InOrder /\ Recorded /\ Ends /\ Aborts
  BY DEF StudyInv
<1>2. at' \notin InCase /\ ledger.error = "none"
  BY <1>1 DEF InCase, Ends
<1>3. StudyTypes'
  BY <1>1, <1>2 DEF StudyTypes
<1>4. InOrder'
  <2>1. Study!Case' = Study!Case /\ (\A d : Begun(d)' = Begun(d)) /\ Study!Calibrated(gate') = Study!Calibrated(gate)
    BY DEF Study!Case, Begun, Study!Calibrated
  <2>2. /\ \A d \in Study!Cases : ~Begun(d)' =>
             ledger'.cases[d] = "unrun" /\ receipts'[d] = Study!NoReceipt /\ world'[d] = Study!Untouched
        /\ \A d \in Study!Cases : Begun(d)' => ledger'.cases[d] # "unrun"
    BY <1>1, <2>1 DEF InOrder
  <2>3. \A d \in Study!Cases : ledger'.cases[d] = "running" => at' = "crashed" /\ n' >= 1 /\ d = Study!Case'
    BY <1>1, <2>1 DEF InOrder, InCase
  <2>4. QED
    BY <1>2, <2>1, <2>2, <2>3 DEF InOrder
<1>5. Recorded'
  BY <1>1, <1>2 DEF Recorded
<1>6. Aborts'
  <2>1. at' = "next" /\ aborted' = TRUE => ExcusedBefore
    BY <1>1 DEF Aborts, InCase
  <2>2. ExcusedBefore => ExcusedBefore'
    BY DEF ExcusedBefore, Excuse
  <2>3. QED
    BY <2>1, <2>2 DEF Aborts
<1>7. InTurn
  BY DEF InTurn, Study!EachCaseOnce, Study!InterruptStops
<1>8. QED
  BY <1>2, <1>3, <1>4, <1>5, <1>6, <1>7 DEF StudyInv

\* The study's result with the failure it ended in.
LEMMA EndedIs ==
  ASSUME StudyTypes, NEW kind \in {"error", "interrupt"}
  PROVE  /\ Study!Ended(kind) \in LedgerType /\ Study!Ended(kind).cases = ledger.cases
         /\ Study!Ended(kind).status = "failed" /\ Study!Ended(kind).error = kind
BY DEF StudyTypes, LedgerType, Study!Ended

LEMMA CalibrateStep ==
  ASSUME StudyInv, Study!Calibrate
  PROVE  StudyInv' /\ InTurn
<1>1. at = "calibrate" /\ UNCHANGED <<gate, n, receipts, mem, error, world>> /\ StudyTypes /\ Ends
  BY DEF Study!Calibrate, StudyInv
<1>2. PICK how \in {"qualified"} \cup Study!Kinds :
        /\ Study!Costs(how # "qualified") /\ Study!Notice(how = "interrupt") /\ promoted' = (how = "qualified")
        /\ at' = (IF how = "qualified" THEN "next" ELSE "ended")
        /\ ledger' = IF how = "qualified" THEN ledger ELSE Study!Ended(how)
  BY DEF Study!Calibrate
<1>3. /\ faults' \in 0 .. StudyFaults /\ aborted' \in BOOLEAN
      /\ aborted' = TRUE => aborted = TRUE \/ how = "interrupt"
  BY <1>1, <1>2, FaultNoticed
<1>4. mem \in ReceiptType /\ mem.status = "none" /\ error \in {"none", "error", "interrupt"} /\ ledger \in LedgerType
  BY <1>1 DEF StudyTypes, InCase
<1>5. CASE how = "qualified"
  <2>1. at' = "next" /\ ledger' = ledger /\ promoted' = TRUE /\ (aborted' = TRUE => aborted = TRUE)
    BY <1>2, <1>3, <1>5
  <2>2. Ends'
    BY <1>1, <2>1 DEF Ends
  <2>3. QED
    BY <1>1, <1>3, <1>4, <2>1, <2>2, BetweenStep
<1>6. CASE how # "qualified"
  <2>1. how \in {"error", "interrupt"} /\ at' = "ended" /\ ledger' = Study!Ended(how)
    BY <1>2, <1>6 DEF Study!Kinds
  <2>2. ledger' \in LedgerType /\ ledger'.cases = ledger.cases /\ ledger'.status = "failed"
    BY <1>1, <2>1, EndedIs
  <2>3. Ends'
    BY <2>1, <2>2 DEF Ends
  <2>4. QED
    BY <1>1, <1>3, <1>4, <2>1, <2>2, <2>3, BetweenStep
<1>7. QED
  BY <1>5, <1>6

LEMMA CloseStep ==
  ASSUME StudyInv, Study!Close \/ Study!InterruptedBetween
  PROVE  StudyInv' /\ InTurn
<1>1. at = "next" /\ at' = "ended" /\ UNCHANGED <<gate, n, receipts, mem, error, world, promoted>> /\ StudyTypes /\ Ends
  BY DEF Study!Close, Study!InterruptedBetween, StudyInv
<1>2. faults' \in 0 .. StudyFaults /\ aborted' \in BOOLEAN
  <2>1. CASE Study!Close
    BY <1>1, <2>1 DEF Study!Close, StudyTypes
  <2>2. CASE Study!InterruptedBetween
    <3>1. Study!Costs(TRUE) /\ Study!Notice(TRUE)
      BY <2>2 DEF Study!InterruptedBetween
    <3>2. QED
      BY <1>1, <3>1, FaultsLeft, NoticeIs
  <2>3. QED
    BY <2>1, <2>2
<1>3. ledger' \in LedgerType /\ ledger'.cases = ledger.cases /\ Ends'
  <2>1. CASE ledger' = Study!Ended("error") \/ ledger' = Study!Ended("interrupt")
    <3>1. ledger' \in LedgerType /\ ledger'.cases = ledger.cases /\ ledger'.status = "failed"
      BY <1>1, <2>1, EndedIs
    <3>2. Ends'
      BY <1>1, <3>1 DEF Ends
    <3>3. QED
      BY <3>1, <3>2
  <2>2. ASSUME n = Len(Study!Order(gate)), \A i \in 1 .. n : ledger.cases[Study!Order(gate)[i]] = "passed",
               ledger' = [ledger EXCEPT !.status = "passed"]
        PROVE  ledger' \in LedgerType /\ ledger'.cases = ledger.cases /\ Ends'
    <3>1. ledger' \in LedgerType /\ ledger'.cases = ledger.cases /\ ledger'.status = "passed"
      BY <1>1, <2>2 DEF StudyTypes, LedgerType
    <3>2. DOMAIN Study!Order(gate') = 1 .. n /\ gate' = gate
      BY <1>1, <2>2, OrderIs DEF StudyTypes
    <3>3. Ends'
      BY <1>1, <2>2, <3>1, <3>2 DEF Ends
    <3>4. QED
      BY <3>1, <3>3
  <2>3. QED
    BY <2>1, <2>2 DEF Study!Close, Study!InterruptedBetween
<1>4. mem \in ReceiptType /\ mem.status = "none" /\ error \in {"none", "error", "interrupt"}
  BY <1>1 DEF StudyTypes, InCase
<1>5. QED
  BY <1>1, <1>2, <1>3, <1>4, BetweenStep

LEMMA CrashStep ==
  ASSUME StudyInv, Study!Crash
  PROVE  StudyInv' /\ InTurn
<1>1. /\ at \notin {"ended", "crashed"} /\ at' = "crashed" /\ mem' = Study!NoReceipt /\ error' = "none"
      /\ UNCHANGED <<gate, n, ledger, receipts, world, promoted, aborted>> /\ Study!Costs(TRUE) /\ StudyTypes /\ Ends
  BY DEF Study!Crash, StudyInv
<1>2. faults' \in 0 .. StudyFaults /\ aborted' \in BOOLEAN /\ ledger' \in LedgerType
  BY <1>1, FaultsLeft DEF StudyTypes
<1>3. Ends'
  BY <1>1 DEF Ends
<1>4. mem' \in ReceiptType /\ mem'.status = "none"
  BY <1>1, StudyConstants
<1>5. QED
  BY <1>1, <1>2, <1>3, <1>4, BetweenStep

LEMMA StudyStays ==
  ASSUME StudyInv, UNCHANGED declared
  PROVE  StudyInv' /\ InTurn
<1>1. UNCHANGED <<gate, at, n, ledger, receipts, mem, error, world, promoted, aborted, faults>>
  BY DEF declared
<1>2. Study!Case' = Study!Case /\ (\A d : Begun(d)' = Begun(d)) /\ Study!Calibrated(gate') = Study!Calibrated(gate)
  BY <1>1 DEF Study!Case, Begun, Study!Calibrated
<1>3. StudyTypes' /\ Recorded' /\ Ends'
  BY <1>1 DEF StudyInv, StudyTypes, Recorded, Ends
<1>4. InOrder'
  BY <1>1, <1>2 DEF StudyInv, InOrder
<1>5. Aborts'
  BY <1>1, <1>2 DEF StudyInv, Aborts, ExcusedBefore, OnItsWay, Excuse
<1>6. at' \in InCase => Runs(Study!Case, receipts[Study!Case], world[Study!Case])'
  BY <1>1, <1>2 DEF StudyInv, Runs, Fair, Earned
<1>7. InTurn
  BY <1>1 DEF InTurn, Study!EachCaseOnce, Study!InterruptStops
<1>8. QED
  BY <1>3, <1>4, <1>5, <1>6, <1>7 DEF StudyInv

\* The case that ran is closed, as its receipt or an exception says.
LEMMA SettleStep ==
  ASSUME StudyInv, Study!Settle
  PROVE  StudyInv' /\ InTurn
<1>1. /\ at = "settle" /\ at \in InCase /\ mem' = Study!NoReceipt /\ error' = "none"
      /\ UNCHANGED <<gate, n, receipts, world, promoted, aborted, faults>>
  BY DEF Study!Settle, InCase
<1>2. PICK c \in Study!Cases, r \in ReceiptType, x \in WorldType :
        /\ c = Study!Case /\ r = receipts[c] /\ x = world[c] /\ ledger.cases[c] = "running" /\ Runs(c, r, x)
        /\ mem \in ReceiptType /\ mem.status # "none"
  BY <1>1, RunningCase
<1>3. /\ mem.error # "none" => error # "none"
      /\ Study!JudgedFirst(c) /\ error = "none" => mem.status = "passed"
      /\ error = "error" => mem.status = "failed"
      /\ error # "interrupt" => (LeftOver(x) => mem.cleanup = TRUE)
      /\ r = mem \/ (r = First(c) /\ error # "none" /\ x = Study!Untouched)
  BY <1>1, <1>2 DEF Runs
<1>4. StudyTypes /\ InOrder /\ Recorded /\ Ends /\ Aborts
  BY DEF StudyInv
<1>5. ledger \in LedgerType /\ error \in {"none", "error", "interrupt"} /\ ledger.status = "running" /\ ledger.error = "none"
  BY <1>1, <1>4 DEF StudyTypes, Ends
<1>6. PICK v \in {"passed", "failed"} :
        /\ v = "failed" <=> error # "none" \/ (~Study!JudgedFirst(c) /\ mem.status # "passed")
        /\ \/ /\ error = "interrupt" /\ at' = "ended"
              /\ ledger' = [ledger EXCEPT !.cases[c] = v, !.status = "failed", !.error = "interrupt"]
           \/ error # "interrupt" /\ at' = "next" /\ ledger' = [ledger EXCEPT !.cases[c] = v]
  <2> DEFINE v == IF Study!CaseFailed THEN "failed" ELSE "passed"
             noted == [ledger EXCEPT !.cases[Study!Case] = v]
  <2>1. IF Study!Stops
        THEN ledger' = [noted EXCEPT !.status = "failed", !.error = "interrupt"] /\ at' = "ended"
        ELSE ledger' = noted /\ at' = "next"
    BY DEF Study!Settle
  <2>2. v = "failed" <=> error # "none" \/ (~Study!JudgedFirst(c) /\ mem.status # "passed")
    BY <1>2 DEF Study!CaseFailed
  <2>3. [noted EXCEPT !.status = "failed", !.error = "interrupt"]
          = [ledger EXCEPT !.cases[c] = v, !.status = "failed", !.error = "interrupt"]
    BY <1>2
  <2>4. QED
    BY <1>2, <2>1, <2>2, <2>3 DEF Study!Stops
<1>7. /\ ledger' \in LedgerType /\ ledger'.cases[c] = v
      /\ \A d \in Study!Cases : d # c => ledger'.cases[d] = ledger.cases[d]
      /\ at' = "ended" => ledger'.status = "failed" /\ ledger'.error = "interrupt"
      /\ at' = "next" => ledger'.status = "running" /\ ledger'.error = "none"
      /\ at' \in {"ended", "next"} /\ (at' = "ended" <=> error = "interrupt")
  <2>1. [ledger.cases EXCEPT ![c] = v] \in [Study!Cases -> {"unrun", "running", "passed", "failed"}]
    BY <1>5, <1>6 DEF LedgerType
  <2>2. [ledger EXCEPT !.cases[c] = v, !.status = "failed", !.error = "interrupt"] \in LedgerType
        /\ [ledger EXCEPT !.cases[c] = v] \in LedgerType
    BY <1>5, <2>1 DEF LedgerType
  <2>3. ledger.cases \in [Study!Cases -> {"unrun", "running", "passed", "failed"}] /\ ledger'.cases = [ledger.cases EXCEPT ![c] = v]
    BY <1>5, <1>6 DEF LedgerType
  <2>4. CASE at' = "ended"
    BY <1>5, <1>6, <2>2, <2>3, <2>4 DEF LedgerType
  <2>5. CASE at' = "next"
    BY <1>5, <1>6, <2>2, <2>3, <2>5 DEF LedgerType
  <2>6. QED
    BY <1>6, <2>4, <2>5
<1>8. at' \notin InCase /\ at' \notin {"calibrate", "crashed"}
  BY <1>7 DEF InCase
<1>9. StudyTypes'
  <2>1. mem' \in ReceiptType /\ mem'.status = "none"
    BY <1>1, StudyConstants
  <2>2. QED
    BY <1>1, <1>4, <1>7, <1>8, <2>1 DEF StudyTypes
<1>10. InOrder'
  <2>1. (\A d : Begun(d)' = Begun(d)) /\ Study!Calibrated(gate') = Study!Calibrated(gate)
    BY <1>1 DEF Begun, Study!Calibrated
  <2>2. Begun(c)
    BY <1>2, <1>4 DEF InOrder
  <2>3. \A d \in Study!Cases : ledger'.cases[d] # "running"
    BY <1>1, <1>2, <1>4, <1>6, <1>7 DEF InOrder
  <2>4. /\ \A d \in Study!Cases : ~Begun(d)' =>
             ledger'.cases[d] = "unrun" /\ receipts'[d] = Study!NoReceipt /\ world'[d] = Study!Untouched
        /\ \A d \in Study!Cases : Begun(d)' => ledger'.cases[d] # "unrun"
    BY <1>1, <1>4, <1>6, <1>7, <2>1, <2>2 DEF InOrder
  <2>5. Study!Calibrated(gate) => promoted' = TRUE
    BY <1>1, <1>4 DEF InOrder
  <2>6. QED
    BY <1>8, <2>1, <2>3, <2>4, <2>5 DEF InOrder
<1>11. Recorded'
  <2>1. v = "passed" => r.status = "passed"
    BY <1>3, <1>5, <1>6
  <2>2. error # "interrupt" => (r.status = "passed" => v = "passed")
    BY <1>3, <1>5, <1>6, StudyConstants
  <2>3. error # "interrupt" => (LeftOver(x) => r.cleanup = TRUE)
    BY <1>3, StudyConstants
  <2>4. receipts'[c] = r /\ world'[c] = x
    BY <1>1, <1>2
  <2>5. ASSUME NEW d \in Study!Cases
        PROVE  /\ Fair(receipts'[d], world'[d])
               /\ ledger'.cases[d] = "passed" => receipts'[d].status = "passed"
               /\ ledger'.cases[d] \in {"passed", "failed"} /\ ledger'.error # "interrupt" =>
                    /\ receipts'[d].status = "passed" => ledger'.cases[d] = "passed"
                    /\ LeftOver(world'[d]) => receipts'[d].cleanup = TRUE
    <3>1. CASE d = c
      <4>1. Fair(receipts'[d], world'[d])
        BY <1>1, <1>4 DEF Recorded
      <4>2. ledger'.cases[d] = v /\ receipts'[d] = r /\ world'[d] = x /\ (ledger'.error # "interrupt" => error # "interrupt")
        BY <1>7, <2>4, <3>1
      <4>3. QED
        BY <2>1, <2>2, <2>3, <4>1, <4>2
    <3>2. CASE d # c
      BY <1>1, <1>4, <1>5, <1>7, <3>2 DEF Recorded
    <3>3. QED
      BY <3>1, <3>2
  <2>6. QED
    BY <2>5 DEF Recorded, Fair, Earned, LeftOver
<1>12. Ends'
  BY <1>7 DEF Ends
<1>13. Aborts'
  <2>1. CASE at' = "ended"
    BY <2>1 DEF Aborts
  <2>2. CASE at' = "next" /\ aborted = TRUE
    <3>1. ExcusedBefore \/ OnItsWay(c, r)
      BY <1>1, <1>2, <2>2, BeforeStep
    <3>2. ExcusedBefore => ExcusedBefore'
      BY <1>1, <1>2, <1>7 DEF ExcusedBefore, Excuse
    <3>3. OnItsWay(c, r) => ExcusedBefore'
      BY <1>1, <1>2, <1>6, <1>7, <2>2 DEF OnItsWay, ExcusedBefore, Excuse
    <3>4. QED
      BY <3>1, <3>2, <3>3 DEF Aborts
  <2>3. CASE aborted # TRUE
    BY <1>1, <2>3 DEF Aborts
  <2>4. QED
    BY <1>7, <2>1, <2>2, <2>3
<1>14. InTurn
  <2>1. \A d \in Study!Cases : ledger.cases[d] # ledger'.cases[d] =>
          ledger.cases[d] = "running" /\ ledger'.cases[d] \in {"passed", "failed"}
    BY <1>2, <1>6, <1>7
  <2>2. QED
    BY <1>1, <2>1 DEF InTurn, Study!EachCaseOnce, Study!InterruptStops
<1>15. QED
  BY <1>8, <1>9, <1>10, <1>11, <1>12, <1>13, <1>14 DEF StudyInv

LEMMA BeginStep ==
  ASSUME StudyInv, Study!Begin
  PROVE  StudyInv' /\ InTurn
<1>1. /\ at = "next" /\ at' = "execute" /\ at' \in InCase /\ n < Len(Study!Order(gate)) /\ n' = n + 1
      /\ mem' = Study!Opened /\ error' = "none" /\ UNCHANGED <<gate, world, promoted, aborted, faults>>
  BY DEF Study!Begin, InCase
<1>2. StudyTypes /\ InOrder /\ Recorded /\ Ends /\ Aborts
  BY DEF StudyInv
<1>3. /\ gate \in Gates /\ n \in Nat /\ ledger \in LedgerType /\ ledger.status = "running" /\ ledger.error = "none"
      /\ receipts \in [Study!Cases -> ReceiptType] /\ world \in [Study!Cases -> WorldType]
  BY <1>1, <1>2 DEF StudyTypes, Ends
<1>4. n + 1 \in 1 .. Len(Study!Order(gate)) /\ n + 1 \notin 1 .. n /\ 1 .. (n + 1) = (1 .. n) \cup {n + 1}
      /\ Len(Study!Order(gate)) \in Nat
  BY <1>1, <1>3, OrderIs
<1>5. PICK c \in Study!Cases : c = Study!Order(gate)[n + 1]
  BY <1>3, <1>4, OrderIs
<1>6. /\ ledger' = [ledger EXCEPT !.cases[c] = "running"]
      /\ receipts' = [receipts EXCEPT ![c] = IF Study!JudgedFirst(c) THEN @ ELSE Study!Opened]
  BY <1>5 DEF Study!Begin, Study!Upcoming
<1>7. ~Begun(c)
  <2>1. \A i \in 1 .. n : i \in 1 .. Len(Study!Order(gate)) /\ i # n + 1
    BY <1>1, <1>3, <1>4
  <2>2. QED
    BY <1>3, <1>4, <1>5, <2>1, OrderIs DEF Begun
<1>8. ledger.cases[c] = "unrun" /\ receipts[c] = Study!NoReceipt /\ world[c] = Study!Untouched
  BY <1>2, <1>7 DEF InOrder
<1>9. /\ ledger' \in LedgerType /\ ledger'.cases[c] = "running" /\ ledger'.status = "running" /\ ledger'.error = "none"
      /\ \A d \in Study!Cases : d # c => ledger'.cases[d] = ledger.cases[d]
  <2>1. [ledger.cases EXCEPT ![c] = "running"] \in [Study!Cases -> {"unrun", "running", "passed", "failed"}]
    BY <1>3 DEF LedgerType
  <2>2. ledger' \in LedgerType
    BY <1>3, <1>6, <2>1 DEF LedgerType
  <2>3. QED
    BY <1>3, <1>6, <2>2 DEF LedgerType
<1>10. /\ receipts' \in [Study!Cases -> ReceiptType] /\ receipts'[c] = First(c) /\ First(c) \in ReceiptType
       /\ \A d \in Study!Cases : d # c => receipts'[d] = receipts[d]
  <2>1. First(c) \in ReceiptType
    BY StudyConstants DEF First
  <2>2. receipts' = [receipts EXCEPT ![c] = First(c)]
    BY <1>3, <1>6, <1>8 DEF First
  <2>3. QED
    BY <1>3, <2>1, <2>2
<1>11. Study!Case' = c
  BY <1>1, <1>5 DEF Study!Case
<1>12. \A d : Begun(d)' <=> (Begun(d) \/ d = c)
  <2>1. \A d : Begun(d)' <=> \E i \in 1 .. (n + 1) : Study!Order(gate)[i] = d
    BY <1>1 DEF Begun
  <2>2. QED
    BY <1>4, <1>5, <2>1 DEF Begun
<1>13. \A d \in Study!Cases : ledger.cases[d] # "running"
  BY <1>1, <1>2 DEF InOrder, InCase
<1>14. StudyTypes'
  <2>1. n' \in 0 .. Len(Study!Order(gate')) /\ n' >= 1
    BY <1>1, <1>3, <1>4
  <2>2. mem' \in ReceiptType /\ mem'.status # "none"
    BY <1>1, StudyConstants
  <2>3. QED
    BY <1>1, <1>2, <1>9, <1>10, <2>1, <2>2 DEF StudyTypes
<1>15. InOrder'
  <2>1. Study!Calibrated(gate') = Study!Calibrated(gate) /\ (Study!Calibrated(gate) => promoted' = TRUE) /\ at' # "calibrate"
    BY <1>1, <1>2 DEF InOrder, Study!Calibrated
  <2>2. /\ \A d \in Study!Cases : ~Begun(d)' =>
             ledger'.cases[d] = "unrun" /\ receipts'[d] = Study!NoReceipt /\ world'[d] = Study!Untouched
        /\ \A d \in Study!Cases : Begun(d)' => ledger'.cases[d] # "unrun"
    BY <1>1, <1>2, <1>9, <1>10, <1>12 DEF InOrder
  <2>3. /\ \A d \in Study!Cases : ledger'.cases[d] = "running" => d = c
        /\ n' >= 1
    BY <1>1, <1>3, <1>9, <1>13
  <2>4. QED
    BY <1>1, <1>9, <1>11, <2>1, <2>2, <2>3 DEF InOrder
<1>16. Recorded'
  <2>1. ASSUME NEW d \in Study!Cases
        PROVE  /\ Fair(receipts'[d], world'[d])
               /\ ledger'.cases[d] = "passed" => receipts'[d].status = "passed"
               /\ ledger'.cases[d] \in {"passed", "failed"} /\ ledger'.error # "interrupt" =>
                    /\ receipts'[d].status = "passed" => ledger'.cases[d] = "passed"
                    /\ LeftOver(world'[d]) => receipts'[d].cleanup = TRUE
    <3>1. CASE d = c
      BY <1>9, <1>10, <3>1, StudyConstants
    <3>2. CASE d # c
      BY <1>1, <1>2, <1>3, <1>9, <1>10, <3>2 DEF Recorded
    <3>3. QED
      BY <3>1, <3>2
  <2>2. QED
    BY <2>1 DEF Recorded, Fair, Earned, LeftOver
<1>17. Ends'
  BY <1>1, <1>9 DEF Ends
<1>18. aborted = TRUE => ExcusedBefore
  BY <1>1, <1>2 DEF Aborts, InCase
<1>19. Aborts'
  <2>1. ExcusedBefore => ExcusedBefore'
    BY <1>8, <1>9, <1>10 DEF ExcusedBefore, Excuse
  <2>2. QED
    BY <1>1, <1>18, <2>1 DEF Aborts
<1>20. Runs(Study!Case, receipts[Study!Case], world[Study!Case])'
  BY <1>1, <1>8, <1>10, <1>11 DEF Runs, First
<1>21. InTurn
  <2>1. Study!InterruptStops
    BY <1>18 DEF Study!InterruptStops, ExcusedBefore, Excuse
  <2>2. ASSUME NEW i \in DOMAIN Study!Order(gate), NEW j \in DOMAIN Study!Order(gate), i < j, Study!Order(gate)[j] = c
        PROVE  ledger.cases[Study!Order(gate)[i]] # "unrun"
    <3>1. DOMAIN Study!Order(gate) = 1 .. Len(Study!Order(gate)) /\ j = n + 1
      BY <1>3, <1>4, <1>5, <2>2, OrderIs
    <3>2. i \in 1 .. n
      BY <1>3, <1>4, <2>2, <3>1
    <3>3. Study!Order(gate)[i] \in Study!Cases /\ Begun(Study!Order(gate)[i])
      BY <1>3, <2>2, <3>1, <3>2, OrderIs DEF Begun
    <3>4. QED
      BY <1>2, <3>3 DEF InOrder
  <2>3. Study!Calibrated(gate) => promoted
    BY <1>1, <1>2 DEF InOrder
  <2>4. Study!EachCaseOnce
    BY <1>8, <1>9, <1>13, <2>2, <2>3 DEF Study!EachCaseOnce
  <2>5. QED
    BY <2>1, <2>4 DEF InTurn
<1>22. QED
  BY <1>14, <1>15, <1>16, <1>17, <1>19, <1>20, <1>21 DEF StudyInv

LEMMA StudyStep ==
  ASSUME StudyInv, Study!Next
  PROVE  StudyInv' /\ InTurn
<1>1. ASSUME \/ Study!Complete \/ Study!Break \/ Study!NotStarted \/ Study!Judge \/ Study!Finalize
             \/ Study!InterruptedFinalizing \/ Study!Export \/ Study!ExportAgain
      PROVE  StudyInv' /\ InTurn
  <2>1. StudyInv'
    BY <1>1, CompleteStep, BreakStep, JudgeStep, FinalizeStep, InterruptedFinalizingStep, ExportStep, ExportAgainStep
  <2>2. UNCHANGED <<ledger, n>>
    BY <1>1 DEF Study!Complete, Study!Break, Study!NotStarted, Study!Judge, Study!Finalize,
                Study!InterruptedFinalizing, Study!Export, Study!ExportAgain
  <2>3. InTurn
    BY <2>2 DEF InTurn, Study!EachCaseOnce, Study!InterruptStops
  <2>4. QED
    BY <2>1, <2>3
<1>2. Study!Over => UNCHANGED declared
  BY DEF Study!Over, Study!vars, declared
<1>3. QED
  BY <1>1, <1>2, CalibrateStep, CloseStep, CrashStep, StudyStays, SettleStep, BeginStep DEF Study!Next

LEMMA StudiesAreSound == StudyInv => Study!StudyIsSound
<1> SUFFICES ASSUME StudyInv PROVE Study!StudyIsSound
  OBVIOUS
<1>1. StudyTypes /\ InOrder /\ Recorded /\ Ends
  BY DEF StudyInv
<1>2. \A c \in Study!Cases :
        /\ receipts[c] \in ReceiptType /\ world[c] \in WorldType
        /\ ledger.cases[c] \in {"unrun", "running", "passed", "failed"}
        /\ Begun(c) \/ (receipts[c].status = "none" /\ receipts[c].error = "none" /\ ~LeftOver(world[c]))
  <2>1. \A c \in Study!Cases :
          /\ receipts[c] \in ReceiptType /\ world[c] \in WorldType
          /\ ledger.cases[c] \in {"unrun", "running", "passed", "failed"}
    BY <1>1 DEF StudyTypes, LedgerType
  <2>2. QED
    BY <1>1, <2>1, StudyConstants DEF InOrder
<1>3. Study!TypeOK
  <2>1. \A c \in Study!Cases :
          /\ ledger.cases[c] \in {"unrun", "running", "passed", "failed"}
          /\ receipts[c].status \in {"none", "failed", "passed"}
          /\ world[c].owner \in {"none", "running", "exited", "killed"}
    BY <1>2 DEF ReceiptType, WorldType
  <2>2. QED
    BY <1>1, <2>1 DEF Study!TypeOK, Study!Kinds, StudyTypes, InCase
<1>4. Study!PassedIsEarned
  BY <1>1 DEF Study!PassedIsEarned, Recorded, Fair, Earned
<1>5. at = "ended" => \A c \in Study!Cases : Begun(c) => ledger.cases[c] \in {"passed", "failed"}
  BY <1>1, <1>2 DEF InOrder, InCase
<1>6. Study!LedgerFollowsReceipts
  <2>1. at = "ended" /\ ledger.error # "interrupt" =>
          \A c \in Study!Cases : receipts[c].status = "passed" => ledger.cases[c] = "passed"
    BY <1>1, <1>2, <1>5 DEF Recorded
  <2>2. QED
    BY <1>1, <2>1 DEF Study!LedgerFollowsReceipts, Recorded, Ends
<1>7. Study!LeftoversAreRecorded
  BY <1>1, <1>2, <1>5 DEF Study!LeftoversAreRecorded, Recorded, LeftOver
<1>8. Study!FailureIsKept
  BY <1>1 DEF Study!FailureIsKept, Recorded, Fair
<1>9. QED
  BY <1>3, <1>4, <1>6, <1>7, <1>8 DEF Study!StudyIsSound

\* A study's receipts, its ledger and what it leaves behind agree, and each case
\* is run once and in order, through failures, interrupts and crashes at any
\* step (the check_* studies and finalize_gate).
THEOREM StudiesAreKept == Spec => StudiesKeepBooks
<1> DEFINE Inv == part = "study" => StudyInv
           Turns == part = "study" => Study!EachCaseOnce /\ Study!InterruptStops
<1>1. Init => Inv
  BY StudyStarts DEF Init
<1>2. Inv /\ [Next]_vars => Inv' /\ [Turns]_vars
  <2> SUFFICES ASSUME Inv, [Next]_vars PROVE Inv' /\ [Turns]_vars
    OBVIOUS
  <2>1. CASE part = "study" /\ Study!Next /\ UNCHANGED part
    BY <2>1, StudyStep DEF InTurn
  <2>2. CASE part # "study" /\ UNCHANGED part
    BY <2>2
  <2>3. CASE UNCHANGED vars
    BY <2>3, StudyStays DEF vars
  <2>4. QED
    BY <2>1, <2>2, <2>3 DEF Next
<1>3. Inv => (part = "study" => Study!StudyIsSound)
  BY StudiesAreSound
<1>4. QED
  BY <1>1, <1>2, <1>3, PTL DEF Spec, StudiesKeepBooks
=============================================================================
