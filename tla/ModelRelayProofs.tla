-------------------------- MODULE ModelRelayProofs --------------------------
(***************************************************************************)
(* Theorems about ModelRelay, for all inputs, options and provider         *)
(* answers.                                                                *)
(***************************************************************************)
EXTENDS MCModelRelay, TLAPS

\* Books that hold every request and all that was billed.
Complete(b) == b.tokens = spent /\ b.responses = asked

\* While a request is made, memory and disk are the same books; whoever does
\* not hold a pending request holds complete books.
BooksAgree ==
  /\ disk.responses <= asked /\ asked <= disk.responses + 1
  /\ disk.pending \/ Complete(disk)
  /\ pc = "down" \/ mem.pending \/ Complete(mem)
  /\ pc \in {"asking", "awaiting"} => disk = mem /\ mem.pending
  /\ pc = "asking" => Complete(disk) /\ disk.tokens + reserved <= options.tokens
  /\ pc = "awaiting" => disk.tokens = spent /\ disk.responses + 1 = asked
  /\ pc = "overrun" => disk = mem /\ Complete(disk)

Inv == TypeOK /\ BooksAgree

\* What CountTokens, Generate, Record and MarkOverrun write.
LEMMA Writes ==
  ASSUME TypeOK
  PROVE  /\ CountTokens => \E b \in Books :
              /\ b.pending = mem.pending /\ b.tokens = mem.tokens /\ b.responses = mem.responses
              /\ Save(b, "counting") \/ SaveFails(b)
         /\ \A i \in Inputs, o \in Outputs, t \in Thoughts : Generate(i, o, t) => \E b \in Books :
              /\ b.pending = TRUE /\ b.tokens = mem.tokens /\ b.responses = mem.responses
              /\ Save(b, "asking") \/ SaveFails(b)
         /\ \A u \in Usages : Record(u) => \E b \in Books :
              /\ b.pending = FALSE /\ b.tokens = mem.tokens + u /\ b.responses = mem.responses + 1
              /\ \/ Save(b, IF u > reserved THEN "overrun" ELSE "ready")
                 \/ SaveFails(b)
         /\ MarkOverrun => \E b \in Books :
              /\ b.pending = TRUE /\ b.tokens = mem.tokens /\ b.responses = mem.responses
              /\ Save(b, "ready") \/ SaveFails(b)
<1>1. /\ mem \in Books /\ mem.counts + 1 \in Nat /\ mem.calls + 1 \in Nat /\ mem.responses + 1 \in Nat
      /\ \A u \in Usages : mem.tokens + u \in Nat
  BY BooksAssumption DEF TypeOK, Books
<1>2. ASSUME CountTokens
      PROVE  \E b \in Books :
               /\ b.pending = mem.pending /\ b.tokens = mem.tokens /\ b.responses = mem.responses
               /\ Save(b, "counting") \/ SaveFails(b)
  <2> DEFINE b == [mem EXCEPT !.counts = mem.counts + 1]
  <2>1. b \in Books /\ b.pending = mem.pending /\ b.tokens = mem.tokens /\ b.responses = mem.responses
    BY <1>1, Zenon DEF Books
  <2>2. Save(b, "counting") \/ SaveFails(b)
    BY <1>2, Zenon DEF CountTokens
  <2> HIDE DEF b
  <2>3. QED
    BY <2>1, <2>2
<1>3. ASSUME NEW i \in Inputs, NEW o \in Outputs, NEW t \in Thoughts, Generate(i, o, t)
      PROVE  \E b \in Books :
               /\ b.pending = TRUE /\ b.tokens = mem.tokens /\ b.responses = mem.responses
               /\ Save(b, "asking") \/ SaveFails(b)
  <2> DEFINE b == [mem EXCEPT !.calls = mem.calls + 1, !.pending = TRUE]
  <2>1. b \in Books /\ b.pending = TRUE /\ b.tokens = mem.tokens /\ b.responses = mem.responses
    BY <1>1, Zenon DEF Books
  <2>2. Save(b, "asking") \/ SaveFails(b)
    BY <1>3, Zenon DEF Generate
  <2> HIDE DEF b
  <2>3. QED
    BY <2>1, <2>2
<1>4. ASSUME NEW u \in Usages, Record(u)
      PROVE  \E b \in Books :
               /\ b.pending = FALSE /\ b.tokens = mem.tokens + u /\ b.responses = mem.responses + 1
               /\ \/ Save(b, IF u > reserved THEN "overrun" ELSE "ready")
                  \/ SaveFails(b)
  <2> DEFINE b == [mem EXCEPT !.responses = mem.responses + 1, !.tokens = mem.tokens + u, !.pending = FALSE]
  <2>1. b \in Books /\ b.pending = FALSE /\ b.tokens = mem.tokens + u /\ b.responses = mem.responses + 1
    BY <1>1, Zenon DEF Books
  <2>2. \/ Save(b, IF u > reserved THEN "overrun" ELSE "ready")
        \/ SaveFails(b)
    BY <1>4, Zenon DEF Record
  <2> HIDE DEF b
  <2>3. QED
    BY <2>1, <2>2
<1>5. ASSUME MarkOverrun
      PROVE  \E b \in Books :
               /\ b.pending = TRUE /\ b.tokens = mem.tokens /\ b.responses = mem.responses
               /\ Save(b, "ready") \/ SaveFails(b)
  <2> DEFINE b == [mem EXCEPT !.pending = TRUE]
  <2>1. b \in Books /\ b.pending = TRUE /\ b.tokens = mem.tokens /\ b.responses = mem.responses
    BY <1>1, Zenon DEF Books
  <2>2. Save(b, "ready") \/ SaveFails(b)
    BY <1>5, Zenon DEF MarkOverrun
  <2> HIDE DEF b
  <2>3. QED
    BY <2>1, <2>2
<1>6. QED
  BY <1>2, <1>3, <1>4, <1>5

\* How the budget of RPCs is bounded.
LEMMA RpcLimitFacts ==
  ASSUME TypeOK
  PROVE  /\ RpcLimit \in Nat /\ RpcLimit <= options.turns * RpcsPerTurn
         /\ rpc.count = 0 \/ RpcLimit <= rpc.limit
<1>1. options.turns * RpcsPerTurn \in Nat /\ rpc.limit \in Nat
  BY BooksAssumption DEF TypeOK
<1> DEFINE own == options.turns * RpcsPerTurn
<1>2. RpcLimit = IF rpc.count = 0 \/ own < rpc.limit THEN own ELSE rpc.limit
  BY DEF RpcLimit
<1>3. own \in Nat
  BY <1>1
<1> HIDE DEF own
<1>4. RpcLimit \in Nat /\ RpcLimit <= own /\ (rpc.count = 0 \/ RpcLimit <= rpc.limit)
  BY <1>1, <1>2, <1>3
<1>5. QED
  BY <1>4 DEF own

\* A host starts with empty books.
LEMMA InitInv == Init => Inv
<1> SUFFICES ASSUME Init PROVE Inv
  OBVIOUS
<1>1. TypeOK
  BY DEF Init, TypeOK, Books
<1>2. BooksAgree
  BY DEF Init, BooksAgree, Complete
<1>3. QED
  BY <1>1, <1>2 DEF Inv

\* The steps that write the books.
Writing ==
  \/ CountTokens \/ MarkOverrun \/ \E u \in Usages : Record(u)
  \/ \E i \in Inputs, o \in Outputs, t \in Thoughts : Generate(i, o, t)

\* Steps that write the books keep the types.
LEMMA WritingTypes == TypeOK /\ Writing => TypeOK'
<1> SUFFICES ASSUME TypeOK, Writing PROVE TypeOK'
  OBVIOUS
<1>1. mem' \in Books /\ disk' \in Books /\ pc' \in {"down", "ready", "serving", "counting", "asking", "awaiting", "overrun"}
  BY Writes DEF Writing, Save, SaveFails, TypeOK
<1>2. CASE CountTokens \/ MarkOverrun
  BY <1>1, <1>2 DEF TypeOK, CountTokens, MarkOverrun, history
<1>3. ASSUME NEW u \in Usages, Record(u) PROVE TypeOK'
  <2>1. spent' \in Nat /\ overrun' \in BOOLEAN
    BY <1>3, BooksAssumption DEF Record, TypeOK
  <2>2. QED
    BY <1>1, <1>3, <2>1 DEF TypeOK, Record
<1>4. ASSUME NEW i \in Inputs, NEW o \in Outputs, NEW t \in Thoughts, Generate(i, o, t)
      PROVE  TypeOK'
  <2>1. counted \in [input : Inputs, count : Counts] /\ counted.count \in Nat
    BY <1>4, BooksAssumption DEF Generate, TypeOK
  <2>2. reserved' \in Nat /\ counted' = None
    BY <1>4, <2>1, BooksAssumption DEF Generate
  <2>3. QED
    BY <1>1, <1>4, <2>2 DEF TypeOK, Generate, history
<1>5. QED
  BY <1>2, <1>3, <1>4 DEF Writing

\* So does every step.
LEMMA NextTypes == TypeOK /\ [Next]_vars => TypeOK'
<1> SUFFICES ASSUME TypeOK, [Next]_vars PROVE TypeOK'
  OBVIOUS
<1>1. CASE Writing
  BY <1>1, WritingTypes
<1>2. CASE Charge
  BY <1>2, RpcLimitFacts DEF Charge, TypeOK
<1>3. CASE \E input \in Inputs : Counted(input)
  BY <1>3 DEF Counted, TypeOK, history
<1>4. CASE (\E o \in Options : Open(o)) \/ End \/ ServeOther \/ RefuseGenerate \/ Ask
  BY <1>4 DEF Open, End, ServeOther, RefuseGenerate, Ask, TypeOK, history
<1>5. CASE \E usage \in Usages : Fail(usage)
  BY <1>5, BooksAssumption DEF Fail, TypeOK
<1>6. CASE UNCHANGED vars
  BY <1>6 DEF vars, host, history, TypeOK
<1>7. QED
  BY <1>1, <1>2, <1>3, <1>4, <1>5, <1>6 DEF Next, Writing

\* The types that arithmetic on the books needs.
LEMMA Numbers ==
  TypeOK => /\ disk.responses \in Nat /\ disk.tokens \in Nat /\ mem.responses \in Nat
            /\ mem.tokens \in Nat /\ asked \in Nat /\ spent \in Nat /\ reserved \in Nat
BY DEF TypeOK, Books

\* Steps that write the books keep them in agreement.
LEMMA WritingAgrees == Inv /\ Writing => BooksAgree'
<1> SUFFICES ASSUME Inv, Writing PROVE BooksAgree'
  OBVIOUS
<1>0. TypeOK /\ BooksAgree
  BY DEF Inv
<1>1. CASE CountTokens
  <2>1. PICK b \in Books :
          /\ b.pending = mem.pending /\ b.tokens = mem.tokens /\ b.responses = mem.responses
          /\ Save(b, "counting") \/ SaveFails(b)
    BY <1>0, <1>1, Writes
  <2>2. ~mem.pending /\ Complete(mem) /\ asked' = asked /\ spent' = spent
    BY <1>0, <1>1 DEF CountTokens, MayAsk, BooksAgree, history
  <2>3. Complete(b) /\ mem' = b /\ disk' \in {disk, b} /\ pc' \in {"counting", "ready"}
    BY <2>1, <2>2 DEF Save, SaveFails, Complete
  <2>4. QED
    BY <1>0, <2>2, <2>3, Numbers DEF BooksAgree, Complete
<1>2. CASE MarkOverrun
  <2>1. PICK b \in Books :
          /\ b.pending = TRUE /\ b.tokens = mem.tokens /\ b.responses = mem.responses
          /\ Save(b, "ready") \/ SaveFails(b)
    BY <1>0, <1>2, Writes
  <2>2. Complete(mem) /\ asked' = asked /\ spent' = spent
    BY <1>0, <1>2 DEF MarkOverrun, BooksAgree, history
  <2>3. Complete(b) /\ mem' = b /\ disk' \in {disk, b} /\ pc' = "ready"
    BY <2>1, <2>2 DEF Save, SaveFails, Complete
  <2>4. QED
    BY <1>0, <2>2, <2>3, Numbers DEF BooksAgree, Complete
<1>3. ASSUME NEW u \in Usages, Record(u) PROVE BooksAgree'
  <2>1. PICK b \in Books :
          /\ b.pending = FALSE /\ b.tokens = mem.tokens + u /\ b.responses = mem.responses + 1
          /\ \/ Save(b, IF u > reserved THEN "overrun" ELSE "ready")
             \/ SaveFails(b)
    BY <1>0, <1>3, Writes
  <2>2. /\ disk = mem /\ disk.pending /\ disk.tokens = spent /\ disk.responses + 1 = asked
        /\ asked' = asked /\ spent' = spent + u
    BY <1>0, <1>3 DEF Record, BooksAgree
  <2>3. /\ b.tokens = spent' /\ b.responses = asked'
        /\ mem' = b /\ disk' \in {disk, b} /\ pc' \in {"overrun", "ready"}
        /\ pc' = "overrun" => disk' = b
    BY <2>1, <2>2 DEF Save, SaveFails
  <2>4. QED
    BY <1>0, <2>2, <2>3, Numbers DEF BooksAgree, Complete
<1>4. ASSUME NEW i \in Inputs, NEW o \in Outputs, NEW t \in Thoughts, Generate(i, o, t)
      PROVE  BooksAgree'
  <2>1. PICK b \in Books :
          /\ b.pending = TRUE /\ b.tokens = mem.tokens /\ b.responses = mem.responses
          /\ Save(b, "asking") \/ SaveFails(b)
    BY <1>0, <1>4, Writes
  <2>2. ~mem.pending /\ Complete(mem) /\ asked' = asked /\ spent' = spent
    BY <1>0, <1>4 DEF Generate, MayAsk, BooksAgree, history
  <2>3. /\ Complete(b) /\ mem' = b /\ disk' \in {disk, b} /\ pc' \in {"asking", "ready"}
        /\ pc' = "asking" => disk' = b
    BY <2>1, <2>2 DEF Save, SaveFails, Complete
  <2>4. mem.tokens + reserved' <= options'.tokens
    <3>1. counted.count \in Nat /\ t \in Nat /\ o \in Nat /\ mem.tokens \in Nat
      BY <1>0, <1>4, BooksAssumption DEF Generate, TypeOK, Books
    <3>2. reserved' = counted.count + t + o /\ options' = options
          /\ mem.tokens + counted.count + t + o <= options.tokens
      BY <1>4 DEF Generate, Affordable
    <3>3. options.tokens \in Nat
      BY <1>0, BooksAssumption DEF TypeOK
    <3>4. QED
      BY <3>1, <3>2, <3>3
  <2>5. QED
    BY <1>0, <2>1, <2>2, <2>3, <2>4, Numbers DEF BooksAgree, Complete
<1>5. QED
  BY <1>1, <1>2, <1>3, <1>4 DEF Writing

\* So does every step.
LEMMA NextInv == Inv /\ [Next]_vars => Inv'
<1> SUFFICES ASSUME Inv, [Next]_vars PROVE Inv'
  OBVIOUS
<1>0. TypeOK /\ BooksAgree
  BY DEF Inv
<1>1. TypeOK'
  BY <1>0, NextTypes
<1>2. CASE Writing
  BY <1>1, <1>2, WritingAgrees DEF Inv
<1>3. CASE Charge \/ ServeOther \/ RefuseGenerate \/ \E input \in Inputs : Counted(input)
  <2>1. /\ UNCHANGED <<disk, mem, asked, spent>> /\ pc # "down"
        /\ pc' \in {"down", "serving", "ready"}
    BY <1>3 DEF Charge, ServeOther, RefuseGenerate, Counted, history
  <2>2. QED
    BY <1>0, <1>1, <2>1 DEF Inv, BooksAgree, Complete
<1>4. CASE (\E o \in Options : Open(o)) \/ End
  <2>1. /\ UNCHANGED <<disk, asked, spent>>
        /\ pc' = "down" \/ (pc' = "ready" /\ mem' = disk)
    BY <1>4 DEF Open, End, history
  <2>2. QED
    BY <1>0, <1>1, <2>1 DEF Inv, BooksAgree, Complete
<1>5. CASE Ask
  BY <1>0, <1>1, <1>5, Numbers DEF Inv, Ask, BooksAgree, Complete
<1>6. CASE \E usage \in Usages : Fail(usage)
  BY <1>0, <1>1, <1>6 DEF Inv, Fail, BooksAgree, Complete
<1>7. CASE UNCHANGED vars
  BY <1>0, <1>1, <1>7 DEF Inv, vars, host, history, BooksAgree, Complete
<1>8. QED
  BY <1>2, <1>3, <1>4, <1>5, <1>6, <1>7 DEF Next, Writing

\* The books agree with the provider's in every reachable state.
THEOREM BooksAlwaysAgree == Spec => []Inv
<1>1. Init => Inv
  BY InitInv
<1>2. Inv /\ [Next]_vars => Inv'
  BY NextInv
<1>3. QED
  BY <1>1, <1>2, PTL DEF Spec

\* Books and host keep their types.
THEOREM RelayTypes == Spec => []TypeOK
<1>1. Inv => TypeOK
  BY DEF Inv
<1>2. QED
  BY <1>1, BooksAlwaysAgree, PTL

\* The provider's part of every step is an asking, a recording or a stutter.
LEMMA StepKeepsPromise ==
  Inv /\ [Next]_vars => [Promise!Ask \/ Promise!Record]_<<asked, disk.responses>>
<1> SUFFICES ASSUME Inv, [Next]_vars
             PROVE  [Promise!Ask \/ Promise!Record]_<<asked, disk.responses>>
  OBVIOUS
<1>0. TypeOK /\ BooksAgree /\ BooksAgree' /\ TypeOK'
  BY NextInv DEF Inv
<1>1. CASE Writing
  <2>1. asked' = asked
    BY <1>1 DEF Writing, CountTokens, MarkOverrun, Record, Generate, history
  <2>2. disk'.responses \in {disk.responses, asked}
    <3>1. CASE CountTokens
      BY <1>0, <3>1, Writes DEF CountTokens, MayAsk, BooksAgree, Complete, Save, SaveFails
    <3>2. CASE MarkOverrun
      BY <1>0, <3>2, Writes DEF MarkOverrun, BooksAgree, Complete, Save, SaveFails
    <3>3. CASE \E u \in Usages : Record(u)
      BY <1>0, <3>3, Writes DEF Record, BooksAgree, Complete, Save, SaveFails
    <3>4. CASE \E i \in Inputs, o \in Outputs, t \in Thoughts : Generate(i, o, t)
      BY <1>0, <3>4, Writes DEF Generate, MayAsk, BooksAgree, Complete, Save, SaveFails
    <3>5. QED
      BY <1>1, <3>1, <3>2, <3>3, <3>4 DEF Writing
  <2>3. disk.responses \in Nat /\ asked \in Nat /\ disk.responses <= asked /\ asked <= disk.responses + 1
    BY <1>0, Numbers DEF BooksAgree
  <2>4. QED
    BY <2>1, <2>2, <2>3 DEF Promise!Record
<1>2. CASE Ask
  BY <1>0, <1>2 DEF Ask, BooksAgree, Complete, Promise!Ask
<1>3. CASE ~Writing /\ ~Ask
  <2>1. disk' = disk /\ asked' = asked
    BY <1>3 DEF Next, Writing, Open, End, Charge, ServeOther, Counted, RefuseGenerate, Fail,
         vars, host, history
  <2>2. QED
    BY <2>1
<1>4. QED
  BY <1>1, <1>2, <1>3

\* The host implements ProviderPromise: requests go out one at a time, each
\* with the responses to all earlier ones on disk (KeepsPromise).
THEOREM RelayKeepsPromise == Spec => KeepsPromise
<1>1. Init => Promise!Init
  BY DEF Init, Promise!Init
<1>2. Inv /\ [Next]_vars => [Promise!Ask \/ Promise!Record]_<<asked, disk.responses>>
  BY StepKeepsPromise
<1>3. QED
  BY <1>1, <1>2, BooksAlwaysAgree, PTL DEF Spec, KeepsPromise, Promise!Spec

\* When a request is sent the books hold everything billed so far, and with
\* its reservation the run's limit is kept (SpendingIsKnown).
THEOREM SpendingIsAlwaysKnown == Spec => SpendingIsKnown
<1>1. Inv /\ [Next]_vars =>
        [asked' # asked => spent = disk.tokens /\ spent + reserved <= options.tokens]_vars
  <2> SUFFICES ASSUME Inv, Next, asked' # asked
               PROVE  spent = disk.tokens /\ spent + reserved <= options.tokens
    OBVIOUS
  <2>1. Ask
    BY DEF Next, Open, End, Charge, ServeOther, CountTokens, Counted, RefuseGenerate, Generate,
         MarkOverrun, Fail, Record, history
  <2>2. QED
    BY <2>1 DEF Inv, Ask, BooksAgree, Complete
<1>2. QED
  BY <1>1, BooksAlwaysAgree, PTL DEF Spec, SpendingIsKnown

\* The budget of RPCs covers what was served, and only shrinks.
RpcsAgree ==
  /\ served = rpc.count
  /\ rpc.count = 0 => granted = {}
  /\ \A o \in granted : rpc.limit <= o.turns * RpcsPerTurn

\* Every step keeps it.
LEMMA NextRpcs == TypeOK /\ RpcsAgree /\ [Next]_vars => RpcsAgree'
<1> SUFFICES ASSUME TypeOK, RpcsAgree, [Next]_vars PROVE RpcsAgree'
  OBVIOUS
<1>1. CASE Charge /\ pc' = "serving"
  <2>1. /\ rpc'.count = rpc.count + 1 /\ rpc'.limit = RpcLimit /\ served' = served + 1
        /\ granted' = granted \cup {options}
    BY <1>1 DEF Charge
  <2>2. ASSUME NEW o \in granted PROVE RpcLimit <= o.turns * RpcsPerTurn
    <3>1. rpc.limit <= o.turns * RpcsPerTurn /\ RpcLimit <= rpc.limit
      BY <2>2, RpcLimitFacts DEF RpcsAgree
    <3>2. RpcLimit \in Nat /\ rpc.limit \in Nat /\ o.turns * RpcsPerTurn \in Nat
      BY <2>2, RpcLimitFacts, BooksAssumption DEF TypeOK
    <3>3. QED
      BY <3>1, <3>2
  <2>3. RpcLimit <= options.turns * RpcsPerTurn
    BY RpcLimitFacts
  <2>4. rpc.count \in Nat
    BY DEF TypeOK
  <2>5. QED
    BY <2>1, <2>2, <2>3, <2>4 DEF RpcsAgree
<1>2. CASE UNCHANGED <<rpc, served, granted>>
  BY <1>2 DEF RpcsAgree
<1>3. QED
  BY <1>1, <1>2 DEF Next, Open, End, Charge, ServeOther, CountTokens, Counted, RefuseGenerate,
     Generate, Ask, MarkOverrun, Fail, Record, vars, history, TypeOK

\* The container is served no more often than any charging run allows
\* (RpcsWithinEveryLimit).
THEOREM RpcBudgetOnlyShrinks == Spec => RpcsWithinEveryLimit
<1>1. Init => RpcsAgree
  BY DEF Init, RpcsAgree
<1>2. TypeOK /\ RpcsAgree /\ [Next]_vars =>
        [served' # served => \A o \in granted : served' <= o.turns * RpcsPerTurn]_vars
  <2> SUFFICES ASSUME TypeOK, RpcsAgree, Next, served' # served, NEW o \in granted
               PROVE  served' <= o.turns * RpcsPerTurn
    OBVIOUS
  <2>1. Charge /\ ~(rpc.count >= RpcLimit) /\ served' = rpc.count + 1
    BY DEF Next, Open, End, Charge, ServeOther, CountTokens, Counted, RefuseGenerate,
       Generate, Ask, MarkOverrun, Fail, Record, history, RpcsAgree
  <2>2. /\ rpc.count \in Nat /\ RpcLimit \in Nat /\ rpc.limit \in Nat
        /\ o.turns * RpcsPerTurn \in Nat
    BY RpcLimitFacts, BooksAssumption DEF TypeOK
  <2>3. RpcLimit <= rpc.limit /\ rpc.limit <= o.turns * RpcsPerTurn
    BY RpcLimitFacts DEF RpcsAgree
  <2>4. QED
    BY <2>1, <2>2, <2>3
<1>3. TypeOK /\ RpcsAgree /\ [Next]_vars => RpcsAgree'
  BY NextRpcs
<1>4. QED
  BY <1>1, <1>2, <1>3, RelayTypes, PTL DEF Spec, RpcsWithinEveryLimit

\* After an overrun every book says pending, once the second save is done.
Closed ==
  overrun => \/ pc = "overrun"
             \/ /\ disk.pending /\ pc \notin {"asking", "awaiting"}
                /\ pc = "down" \/ mem.pending

\* Every step keeps it at which the two saves of an overrun do not come apart.
LEMMA NextClosed == Inv /\ Closed /\ ((Next /\ OverrunIsWhole) \/ UNCHANGED vars) => Closed'
<1> SUFFICES ASSUME Inv, Closed, (Next /\ OverrunIsWhole) \/ UNCHANGED vars PROVE Closed'
  OBVIOUS
<1>0. TypeOK /\ BooksAgree
  BY DEF Inv
<1>1. CASE CountTokens \/ \E i \in Inputs, o \in Outputs, t \in Thoughts : Generate(i, o, t)
  <2>1. ~overrun /\ overrun' = overrun
    BY <1>1 DEF CountTokens, Generate, MayAsk, Closed, history
  <2>2. QED
    BY <2>1 DEF Closed
<1>2. CASE MarkOverrun /\ OverrunIsWhole
  <2>1. disk' = mem' /\ pc' = "ready"
    BY <1>2 DEF OverrunIsWhole, MarkOverrun
  <2>2. PICK b \in Books : b.pending = TRUE /\ (Save(b, "ready") \/ SaveFails(b))
    BY <1>0, <1>2, Writes
  <2>3. mem' = b
    BY <2>2 DEF Save, SaveFails
  <2>4. QED
    BY <2>1, <2>2, <2>3 DEF Closed
<1>3. ASSUME NEW u \in Usages, Record(u), OverrunIsWhole PROVE Closed'
  <2>1. ~overrun /\ pc = "awaiting"
    BY <1>0, <1>3 DEF Record, Closed, TypeOK
  <2>2. overrun' => pc' = "overrun"
    BY <1>3, <2>1 DEF OverrunIsWhole
  <2>3. QED
    BY <2>2 DEF Closed
<1>4. CASE (\E o \in Options : Open(o)) \/ (End /\ OverrunIsWhole) \/ Charge \/ ServeOther \/ RefuseGenerate
           \/ Ask \/ UNCHANGED vars
  BY <1>4 DEF Open, End, OverrunIsWhole, Charge, ServeOther, RefuseGenerate, Ask, vars, host, history, Closed
<1>5. CASE (\E input \in Inputs : Counted(input)) \/ \E usage \in Usages : Fail(usage)
  BY <1>5 DEF Counted, Fail, history, Closed
<1>6. QED
  BY <1>1, <1>2, <1>3, <1>4, <1>5 DEF Next

\* A behaviour of the relay, whole or not, is one of its specification.
LEMMA WholeOrNot == MCSpec => Spec
<1>1. MCInit => Init
  BY DEF MCInit
<1>2. [MCNext]_mcvars => [Next]_vars
  BY DEF MCNext, mcvars
<1>3. QED
  BY <1>1, <1>2, PTL DEF MCSpec, Spec

\* A provider that used more than was reserved is not asked again, unless the
\* host dies or a save fails between the two saves that say so
\* (WholeOverrunIsFinal).
THEOREM OverrunsAreFinal == MCSpec => WholeOverrunIsFinal
<1> DEFINE NotAsked == overrun => asked' = asked
<1>1. MCInit => (whole => Closed)
  BY DEF MCInit, Init, Closed
<1>2. Inv /\ (whole => Closed) /\ [MCNext]_mcvars => (whole => Closed)'
  <2> SUFFICES ASSUME Inv, whole => Closed, [MCNext]_mcvars, whole' PROVE Closed'
    OBVIOUS
  <2>1. whole /\ ((Next /\ OverrunIsWhole) \/ UNCHANGED vars)
    BY DEF MCNext, mcvars
  <2>2. QED
    BY <2>1, NextClosed
<1>3. ASSUME Closed, Next, overrun, asked' # asked PROVE FALSE
  <2>1. Ask
    BY <1>3 DEF Next, Open, End, Charge, ServeOther, CountTokens, Counted, RefuseGenerate, Generate,
       MarkOverrun, Fail, Record, history
  <2>2. QED
    BY <1>3, <2>1 DEF Ask, Closed
<1>4. (whole => Closed) /\ [MCNext]_mcvars => [whole => NotAsked]_mcvars
  BY <1>3 DEF MCNext, mcvars
<1>5. QED
  BY <1>1, <1>2, <1>4, BooksAlwaysAgree, WholeOrNot, PTL DEF MCSpec, WholeOverrunIsFinal, NotAskedAgain

\* The relay's limits bind over restarts and failed saves (BudgetsHold).
THEOREM LimitsBind == Spec => BudgetsHold
<1>1. QED
  BY RelayTypes, SpendingIsAlwaysKnown, RpcBudgetOnlyShrinks DEF BudgetsHold

=============================================================================
