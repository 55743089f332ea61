---------------------------- MODULE EvidenceLog ----------------------------
(***************************************************************************)
(* The toolbox and its append-only evidence log (toolbox.py).  Every tool  *)
(* call within the budget ends as one record; the record's identifier is   *)
(* what later proposals and the final claim may cite.  The process dies at *)
(* any statement, also inside an append, and another one replays the file. *)
(***************************************************************************)
EXTENDS Naturals, Sequences, SequencesExt

CONSTANTS MaxCalls,   \* max_calls
          MaxId,      \* bound: identifiers (uuids) handed out over all processes
          Nothing,    \* no torn append
          Faults      \* whether an append may fail in a process that lives on

CallsAssumption == MaxCalls \in Nat \ {0} /\ MaxId \in Nat

Sources == {"observe", "propose_repair", "finish", "unknown_tool"}
Cites == SUBSET (1..MaxId)
Record == [id : 1..MaxId, source : Sources, kind : {"response", "error", "claim"}, cites : Cites]
Corrupt == [id |-> 0, source |-> "unknown_tool", kind |-> "error", cites |-> {}]

VARIABLES
  log,          \* the terminated lines of evidence.jsonl
  tail,         \* what an append left without its newline
  quarantined,  \* files evidence.jsonl.torn-*
  pc,           \* "closed" (no process), "torn", "truncate", "idle", "append"
  issued, callCount, terminal,     \* the object's memory
  pending,      \* the record that is being appended
  fresh,        \* identifiers handed out
  effects       \* proposals handed to the broker

mem == <<issued, callCount, terminal>>
vars == <<log, tail, quarantined, pc, mem, pending, fresh, effects>>

TypeOK ==
  /\ log \in Seq(Record \cup {Corrupt})
  /\ tail \in Record \cup {Nothing} /\ pending \in Record \cup {Nothing}
  /\ quarantined \subseteq Record
  /\ pc \in {"closed", "torn", "truncate", "idle", "append"}
  /\ issued \subseteq 1..MaxId /\ callCount \in Nat /\ terminal \in BOOLEAN
  /\ fresh \in 0..MaxId /\ effects \subseteq Record

Init ==
  /\ log = <<>> /\ tail = Nothing /\ quarantined = {} /\ pc = "closed"
  /\ issued = {} /\ callCount = 0 /\ terminal = FALSE
  /\ pending = Nothing /\ fresh = 0 /\ effects = {}

LoggedIds == {log[k].id : k \in DOMAIN log} \ {0}
Claimed == \E k \in DOMAIN log : log[k].kind = "claim"
---------------------------------------------------------------------------
(* Opening: replay the committed prefix, then put a torn append aside. *)

Readable == \A k \in DOMAIN log : log[k] # Corrupt

ReplayIds == LoggedIds

ReplayCalls == Len(log)

\* Bug: the claim of an earlier process is not looked for.
ForgetClaim == FALSE

ReplayTerminal == Claimed

\* A complete line that does not parse refuses the file, at every opening.
Open ==
  /\ pc = "closed" /\ Readable
  /\ issued' = ReplayIds /\ callCount' = ReplayCalls /\ terminal' = ReplayTerminal
  /\ pc' = IF tail = Nothing THEN "idle" ELSE "torn"
  /\ UNCHANGED <<log, tail, quarantined, pending, fresh, effects>>

Quarantine ==
  /\ pc = "torn"
  /\ quarantined' = quarantined \cup {tail} /\ pc' = "truncate"
  /\ UNCHANGED <<log, tail, mem, pending, fresh, effects>>

Truncate ==
  /\ pc = "truncate"
  /\ tail' = Nothing /\ pc' = "idle"
  /\ UNCHANGED <<log, quarantined, mem, pending, fresh, effects>>
---------------------------------------------------------------------------
(* A call, up to the record it will append. *)

\* Only a proposal and a claim cite evidence, and only what was issued.
Admissible(source, cites) ==
  source \in {"propose_repair", "finish"} => cites \subseteq issued

\* What executing a tool may return: an exception is an error, and so is a
\* record above max_result_bytes, a claim included.
Kinds(source) == CASE source = "finish" -> {"claim", "error"}
                   [] source = "unknown_tool" -> {"error"}
                   [] OTHER -> {"response", "error"}

MayCall == callCount < MaxCalls /\ ~terminal

Call(source, cites) ==
  /\ pc = "idle" /\ MayCall /\ fresh < MaxId
  /\ callCount' = callCount + 1 /\ fresh' = fresh + 1 /\ pc' = "append"
  /\ LET Line(kind) == [id |-> fresh + 1, source |-> source, kind |-> kind, cites |-> cites]
     IN \/ pending' = Line("error") /\ UNCHANGED effects   \* refused: arguments, run_id, evidence
        \/ /\ Admissible(source, cites)
           /\ \E kind \in Kinds(source) :
                /\ pending' = Line(kind)
                /\ effects' = IF source = "propose_repair" THEN effects \cup {Line(kind)}
                                                           ELSE effects
  /\ UNCHANGED <<log, tail, quarantined, issued, terminal>>

\* The line and its newline reach the file; a tail before it spoils the line.
WriteLine ==
  /\ pc = "append" /\ pending' = Nothing /\ pc' = "idle"
  /\ log' = Append(log, IF tail = Nothing THEN pending ELSE Corrupt) /\ tail' = Nothing
  /\ UNCHANGED <<quarantined, callCount, fresh, effects>>

\* Written, synchronised and issued.
Append_ ==
  /\ WriteLine
  /\ issued' = issued \cup {pending.id} /\ terminal' = (pending.kind = "claim")

\* The write raises after some bytes, or fsync of the file or of its directory
\* raises after all of them, and the process handles its next call: the record,
\* a claim too, is then committed and neither issued nor remembered.
AppendFails ==
  /\ Faults
  /\ \/ /\ pc = "append" /\ pending' = Nothing /\ pc' = "idle"
        /\ tail' = IF tail = Nothing THEN pending ELSE tail
        /\ UNCHANGED <<log, quarantined, mem, fresh, effects>>
     \/ WriteLine /\ UNCHANGED <<issued, terminal>>

\* The process ends: inside an append, before it or between two calls.
Die ==
  /\ pc # "closed" /\ pc' = "closed" /\ pending' = Nothing
  /\ \/ UNCHANGED tail
     \/ pc = "append" /\ tail = Nothing /\ tail' = pending
  /\ issued' = {} /\ callCount' = 0 /\ terminal' = FALSE
  /\ UNCHANGED <<log, quarantined, fresh, effects>>

CitesOf(source) == IF source \in {"propose_repair", "finish"} THEN Cites ELSE {{}}

Next == \/ Open \/ Quarantine \/ Truncate \/ Append_ \/ AppendFails \/ Die
        \/ \E source \in Sources : \E cites \in CitesOf(source) : Call(source, cites)

---------------------------------------------------------------------------
(* Properties: of states, and of steps. *)

\* No process takes back a committed record (toolbox.py:144).
CommittedStays == IsPrefix(log, log')

\* A torn append leaves the log only once its bytes are in quarantine
\* (toolbox.py:179), as long as the process dies of a failed append.
TornBytesAreKept == ~Faults /\ tail # Nothing /\ tail' = Nothing => tail \in quarantined

\* The claim was returned by this process, or read by it at the opening.
ClaimIsKnown == \E k \in DOMAIN log : log[k].kind = "claim" /\ log[k].id \in issued

\* Nothing is proposed or recorded once the log has a claim: where appends fail
\* in a process that goes on, once it has a claim this process returned or read,
\* so that only the process whose own claim raised can go behind it (toolbox.py:241).
ClaimIsFinal == (IF Faults THEN ClaimIsKnown ELSE Claimed) => UNCHANGED <<log, effects>>

\* A claim is the last record of the log, whoever reopens it (toolbox.py:241).
ClaimEndsTheLog == ~Faults => \A k \in DOMAIN log : log[k].kind = "claim" => k = Len(log)

\* All processes together record no more calls than one may make.
BudgetSurvives == Len(log) <= MaxCalls

\* What a proposal cited is on record: a torn record was never evidence, and
\* evidence of an earlier process still is (toolbox.py:274).
CitedIsOnRecord == ~Faults => \A e \in effects : e.cites \subseteq LoggedIds

\* An issued identifier is there for the next process (tests/test_toolbox.py:554).
IssuedSurvive == ~Faults => issued \subseteq LoggedIds

LogIsSound == TypeOK /\ ClaimEndsTheLog /\ BudgetSurvives /\ CitedIsOnRecord /\ IssuedSurvive
LogOnlyGrows == CommittedStays /\ TornBytesAreKept /\ ClaimIsFinal
===========================================================================
