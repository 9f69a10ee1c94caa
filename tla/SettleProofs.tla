---------------------------- MODULE SettleProofs ----------------------------
(***************************************************************************)
(* Proofs about the settle stage, for any number of sessions, buyers,      *)
(* payouts and faults: type correctness, the order of the three events and *)
(* the agreement of Trace and the chain columns with them and the finality *)
(* of a withdrawal under every interleaving, and, when purchases do not    *)
(* overlap, that the three events are about one sale and that each fault   *)
(* costs one license token at most.                                        *)
(***************************************************************************)
EXTENDS Settle, SequenceTheorems, TLAPS

-----------------------------------------------------------------------------
(* The invariant of every interleaving.                                    *)

SoldPcs == {"soldStage"} \cup PayPcs \cup {"settle", "settleStage"}
PaidPcs == {"project", "settle", "settleStage"}

\* What a purchase believes about the log, which can only grow, and about
\* Trace, which keeps the first document it accepted.
Knows(r) ==
  /\ run[r].done \subseteq Recorded(log)
  /\ run[r].root # 0 => log[2] # 0
  /\ run[r].pc \in SalePcs \cup SoldPcs /\ run[r].root # 0 => 2 \in run[r].done
  /\ run[r].pc \in {"sold"} \cup SoldPcs => run[r].sale # 0
  /\ run[r].pc \in SoldPcs => log[1] # 0
  /\ run[r].pc \in {"promote", "credited", "project"} => run[r].payout # 0
  /\ run[r].pc = "promote" => 2 \notin run[r].done
  /\ run[r].pc \in {"credited", "project"} => trace = run[r].payout
  /\ run[r].pc \in PaidPcs => log[2] # 0
  /\ run[r].pc = "settleStage" => log[3] # 0

LogInv ==
  /\ TypeOK
  /\ \A r \in Sessions : Knows(r)
  /\ PromotedFirst
  /\ ChainFollows

\* What is in the log stays there, and what Trace accepted stays accepted.
Grows ==
  /\ \A s \in SubSteps : log[s] # 0 => log'[s] = log[s]
  /\ trace # 0 => trace' = trace

\* The program counters the actions assign.
LEMMA PcNames ==
  /\ {"owner", "item", "asset", "events", "sale", "record", "sold", "soldStage"} \subseteq Pcs
  /\ {"payout", "promote", "credited", "project", "settle", "settleStage"} \subseteq Pcs
  /\ {"idle", "refused", "skipped", "settled", "failed", "conflict"} \subseteq Pcs
  BY DEF Pcs, ActivePcs, EndPcs, CheckPcs, SalePcs, PayPcs

LEMMA InitLogInv == Init => LogInv
<1> SUFFICES ASSUME Init PROVE LogInv
  OBVIOUS
<1> USE DEF Init
<1>1. PICK b \in Buyers :
        run = [r \in Sessions |-> [pc |-> "idle", buyer |-> b, root |-> 0,
                                   done |-> {}, sale |-> 0, payout |-> 0]]
  OBVIOUS
<1>2. run \in [Sessions -> RunStates]
  BY <1>1, PcNames DEF RunStates
<1>3. Len(sales) = 0 /\ Len(payouts) = 0
  OBVIOUS
<1>4. TypeOK
  <2>1. sales \in Seq(Buyers) /\ minted \in Seq(Buyers) /\ payouts \in Seq(1..Len(sales))
    OBVIOUS
  <2>2. log \in [SubSteps -> Nat] /\ stage \in Stages
    BY DEF Stages
  <2>3. \A r \in Sessions : run[r].sale = 0 /\ run[r].payout = 0
    BY <1>1
  <2>4. root = 0 /\ withdrawn \in BOOLEAN /\ trace = 0 /\ faults = 0
    OBVIOUS
  <2> HIDE DEF Init
  <2>5. /\ root \in Nat /\ trace \in 0..Len(payouts) /\ faults \in Nat
        /\ \A r \in Sessions : run[r].sale <= Len(sales) /\ run[r].payout <= Len(payouts)
    <3>1. root = 0 /\ trace = 0 /\ faults = 0
      BY <2>4
    <3> QED
      BY <1>3, <2>3, <3>1
  <2> QED
    BY <1>2, <2>1, <2>2, <2>4, <2>5 DEF TypeOK
<1>5. \A r \in Sessions : Knows(r)
  BY <1>1 DEF Knows, SalePcs, SoldPcs, PaidPcs, PayPcs
<1> QED
  BY <1>4, <1>5 DEF LogInv, PromotedFirst, ChainFollows, SubSteps

\* The fields of a purchase, one by one.
LEMMA Fields ==
  ASSUME TypeOK, NEW r \in Sessions
  PROVE  /\ run[r] \in RunStates /\ run \in [Sessions -> RunStates]
         /\ run[r].pc \in Pcs /\ run[r].buyer \in Buyers /\ run[r].root \in Nat
         /\ run[r].done \in SUBSET SubSteps
         /\ run[r].sale \in 0..Len(sales) /\ run[r].payout \in 0..Len(payouts)
  BY DEF TypeOK, RunStates

LEMMA GotoTyped ==
  ASSUME TypeOK, NEW r \in Sessions, NEW to \in Pcs, Goto(r, to)
  PROVE  /\ run' \in [Sessions -> RunStates]
         /\ run'[r] = [run[r] EXCEPT !.pc = to]
         /\ \A q \in Sessions : q # r => run'[q] = run[q]
         /\ \A q \in Sessions : /\ run'[q].sale = run[q].sale
                                /\ run'[q].payout = run[q].payout
  BY Fields DEF TypeOK, Goto, RunStates

\* A row appended leaves the rows before it, and a payout row that pointed at
\* a sale still does.
LEMMA AppendRow ==
  ASSUME NEW S, NEW seq \in Seq(S), NEW e \in S
  PROVE  /\ Append(seq, e) \in Seq(S) /\ Len(Append(seq, e)) = Len(seq) + 1
         /\ \A i \in 1..Len(seq) : Append(seq, e)[i] = seq[i]
         /\ Append(seq, e)[Len(seq) + 1] = e
  BY AppendProperties

LEMMA MorePointers ==
  ASSUME NEW n \in Nat, NEW seq \in Seq(1..n)
  PROVE  seq \in Seq(1..(n + 1))
<1>1. 1..n \subseteq 1..(n + 1)
  OBVIOUS
<1> QED
  BY <1>1, SeqMonotonic

-----------------------------------------------------------------------------
(* Type correctness.                                                       *)

\* Steps that change no row and only move the purchase on.
LEMMA MoveTypeOK ==
  ASSUME LogInv, NEW r \in Sessions, NEW to \in Pcs, Goto(r, to),
         UNCHANGED <<sales, payouts>>, log' \in [SubSteps -> Nat], stage' \in Stages,
         root' \in Nat, withdrawn' \in BOOLEAN, minted' \in Seq(Buyers),
         trace' \in 0..Len(payouts), faults' \in Nat
  PROVE  TypeOK'
  BY GotoTyped DEF LogInv, TypeOK

LEMMA StepTypeOK ==
  ASSUME LogInv, NEW r \in Sessions, Step(r)
  PROVE  TypeOK'
<1>0. /\ TypeOK /\ Knows(r) /\ run[r] \in RunStates /\ run \in [Sessions -> RunStates]
      /\ run[r].pc \in Pcs /\ run[r].buyer \in Buyers /\ run[r].root \in Nat
      /\ run[r].done \in SUBSET SubSteps
      /\ run[r].sale \in 0..Len(sales) /\ run[r].payout \in 0..Len(payouts)
      /\ Len(sales) \in Nat /\ Len(payouts) \in Nat
  BY Fields DEF LogInv, TypeOK
<1> USE <1>0, PcNames
<1>1. CASE CheckOwner(r) \/ ReadItem(r) \/ SkipPayout(r)
  <2>1. \E to \in Pcs : Goto(r, to)
    BY <1>1 DEF CheckOwner, ReadItem, SkipPayout
  <2> QED
    BY <1>1, <2>1, MoveTypeOK DEF TypeOK, CheckOwner, ReadItem, SkipPayout, rows
<1>2. CASE ReadAsset(r)
  BY <1>2 DEF TypeOK, ReadAsset, RunStates, rows
<1>3. CASE ReadEvents(r)
  <2>1. Recorded(log) \in SUBSET SubSteps
    BY DEF Recorded
  <2> QED
    BY <1>3, <2>1 DEF TypeOK, ReadEvents, RunStates, rows
<1>4. CASE ResumeSale(r)
  <2> DEFINE to == IF Latest = 0 THEN "failed" ELSE "payout"
  <2>1. to \in Pcs /\ Latest = Len(sales)
    BY DEF Latest
  <2>2. run' = [run EXCEPT ![r] = [@ EXCEPT !.sale = Latest, !.pc = to]]
    BY <1>4 DEF ResumeSale
  <2> HIDE DEF to
  <2>3. [run[r] EXCEPT !.sale = Latest, !.pc = to] \in RunStates
    BY <2>1 DEF RunStates
  <2>4. run' \in [Sessions -> RunStates]
    BY <2>2, <2>3
  <2>5. \A q \in Sessions : run'[q].sale <= Len(sales) /\ run'[q].payout <= Len(payouts)
    <3>1. /\ run'[r].sale = Latest /\ run'[r].payout = run[r].payout
      BY <2>2, <2>3 DEF RunStates
    <3>2. \A q \in Sessions : q # r => run'[q] = run[q]
      BY <2>2
    <3> QED
      BY <2>1, <3>1, <3>2 DEF TypeOK
  <2> QED
    BY <1>4, <2>4, <2>5 DEF TypeOK, ResumeSale, rows
<1>5. CASE Mint(r)
  BY <1>5, MoveTypeOK, AppendRow DEF TypeOK, Mint, rows
<1>6. CASE RecordSale(r)
  <2>1. sales' \in Seq(Buyers) /\ Len(sales') = Len(sales) + 1
    BY <1>6, AppendRow DEF TypeOK, RecordSale
  <2>2. payouts' \in Seq(1..Len(sales')) /\ payouts' = payouts
    BY <1>6, <2>1, MorePointers DEF TypeOK, RecordSale
  <2>3. /\ run' = [run EXCEPT ![r] = [@ EXCEPT !.sale = Len(sales) + 1, !.pc = "sold"]]
        /\ Len(sales) + 1 \in Nat
    BY <1>6 DEF RecordSale
  <2>4. run' \in [Sessions -> RunStates]
    BY <2>3 DEF RunStates
  <2>5. \A q \in Sessions : run'[q].sale <= Len(sales') /\ run'[q].payout <= Len(payouts')
    BY <2>1, <2>2, <2>3 DEF TypeOK, RunStates
  <2> QED
    BY <1>6, <2>1, <2>2, <2>4, <2>5 DEF TypeOK, RecordSale
<1>7. CASE AppendSold(r) \/ AppendSettled(r) \/ AppendCredited(r)
  <2>1. \E s \in SubSteps, v \in Nat : Record(s, v)
    BY <1>7 DEF AppendSold, AppendSettled, AppendCredited, SubSteps
  <2>3. log' \in [SubSteps -> Nat]
    BY <2>1 DEF TypeOK, Record
  <2>2. \E to \in Pcs : Goto(r, to)
    BY <1>7 DEF AppendSold, AppendSettled, AppendCredited
  <2> QED
    BY <1>7, <2>2, <2>3, MoveTypeOK DEF TypeOK, AppendSold, AppendSettled, AppendCredited
<1>8. CASE SetSold(r) \/ SetSettled(r) \/ ProjectRoot(r)
  <2>1. \E to \in Pcs : Goto(r, to)
    BY <1>8 DEF SetSold, SetSettled, ProjectRoot
  <2> QED
    BY <1>8, <2>1, MoveTypeOK DEF TypeOK, SetSold, SetSettled, ProjectRoot, Stages
<1>9. CASE CreditPayout(r)
  <2>1. run[r].sale \in 1..Len(sales)
    BY <1>9 DEF Knows, CreditPayout, SoldPcs, PayPcs
  <2>2. payouts' \in Seq(1..Len(sales)) /\ Len(payouts') = Len(payouts) + 1
    BY <1>9, <2>1, AppendRow DEF TypeOK, CreditPayout
  <2>3. /\ run' = [run EXCEPT ![r] = [@ EXCEPT !.payout = Len(payouts) + 1, !.pc = "promote"]]
        /\ Len(payouts) + 1 \in Nat
    BY <1>9 DEF CreditPayout
  <2>4. run' \in [Sessions -> RunStates]
    BY <2>3 DEF RunStates
  <2>5. \A q \in Sessions : run'[q].sale <= Len(sales) /\ run'[q].payout <= Len(payouts')
    BY <2>2, <2>3 DEF TypeOK, RunStates
  <2> QED
    BY <1>9, <2>2, <2>4, <2>5 DEF TypeOK, CreditPayout
<1>10. CASE Promote(r)
  <2>1. \E to \in Pcs : Goto(r, to)
    BY <1>10 DEF Promote
  <2>2. trace' \in 0..Len(payouts)
    BY <1>10 DEF Promote, TypeOK
  <2> QED
    BY <1>10, <2>1, <2>2, MoveTypeOK DEF TypeOK, Promote, rows
<1> QED
  BY <1>1, <1>2, <1>3, <1>4, <1>5, <1>6, <1>7, <1>8, <1>9, <1>10 DEF Step

LEMMA VisitTypeOK ==
  ASSUME LogInv, NEW r \in Sessions, NEW b \in Buyers, Visit(r, b)
  PROVE  TypeOK'
<1> DEFINE q == [pc |-> Readiness, buyer |-> b, root |-> 0, done |-> {}, sale |-> 0, payout |-> 0]
<1>1. Readiness \in {"refused", "owner", "item"}
  BY DEF Readiness
<1>2. run' = [run EXCEPT ![r] = q] /\ q \in RunStates
  BY <1>1, PcNames DEF Visit, RunStates
<1>3. q.sale = 0 /\ q.payout = 0
  OBVIOUS
<1> HIDE DEF q
<1>4. run' \in [Sessions -> RunStates]
  BY <1>2 DEF LogInv, TypeOK
<1>5. \A p \in Sessions : run'[p].sale <= Len(sales) /\ run'[p].payout <= Len(payouts)
  <2>1. TypeOK /\ Len(sales) \in Nat /\ Len(payouts) \in Nat
    BY DEF LogInv, TypeOK
  <2>2. \A p \in Sessions : p # r => run'[p] = run[p]
    BY <1>2, <2>1 DEF TypeOK
  <2>3. run'[r] = q
    BY <1>2, <2>1 DEF TypeOK
  <2> QED
    BY <1>3, <2>1, <2>2, <2>3 DEF TypeOK
<1> QED
  BY <1>4, <1>5 DEF LogInv, TypeOK, Visit, rows

LEMMA NextTypeOK ==
  ASSUME LogInv, [Next]_vars
  PROVE  TypeOK'
<1>1. ASSUME NEW r \in Sessions, Fault(r)
      PROVE  TypeOK'
  <2>1. faults' \in Nat
    BY <1>1 DEF Fault, LogInv, TypeOK
  <2> QED
    BY <1>1, <2>1, MoveTypeOK, PcNames DEF Fault, LogInv, TypeOK, rows
<1>2. CASE Withdraw
  BY <1>2 DEF LogInv, TypeOK, Withdraw, rows
<1>3. CASE UNCHANGED vars
  BY <1>3 DEF LogInv, TypeOK, vars, rows
<1> QED
  BY <1>1, <1>2, <1>3, StepTypeOK, VisitTypeOK DEF Next
-----------------------------------------------------------------------------
(* The order of the events, and Trace.                                     *)

\* The effect of an append on the log.
LEMMA RecordLog ==
  ASSUME log \in [SubSteps -> Nat], NEW s \in SubSteps, NEW v \in Nat \ {0}, Record(s, v)
  PROVE  /\ log'[s] # 0 /\ (log[s] = 0 => log'[s] = v)
         /\ \A u \in SubSteps : u # s \/ log[s] # 0 => log'[u] = log[u]
         /\ log[s] = 0 => log' = [log EXCEPT ![s] = log'[s]]
         /\ log[s] # 0 => log' = log
  BY DEF Record

\* Who appends, appends a number.
LEMMA Appends ==
  ASSUME LogInv, NEW r \in Sessions
  PROVE  /\ AppendSold(r) => Record(1, run[r].sale) /\ run[r].sale \in Nat \ {0}
         /\ AppendCredited(r) => /\ Record(2, run[r].payout) /\ run[r].payout \in Nat \ {0}
                                 /\ run[r].payout = trace /\ log[1] # 0
         /\ AppendSettled(r) => /\ Record(3, run[r].sale) /\ run[r].sale \in Nat \ {0}
                                /\ log[1] # 0 /\ log[2] # 0
  BY Fields DEF LogInv, TypeOK, Knows, AppendSold, AppendCredited, AppendSettled,
     SoldPcs, PaidPcs, PayPcs

\* Every other step leaves the log alone.
LEMMA LogStep ==
  ASSUME [Next]_vars
  PROVE  \/ UNCHANGED log
         \/ \E r \in Sessions : AppendSold(r) \/ AppendCredited(r) \/ AppendSettled(r)
  BY DEF Next, Step, CheckOwner, ReadItem, ReadAsset, ReadEvents, ResumeSale, Mint, RecordSale,
     SetSold, SkipPayout, CreditPayout, Promote, ProjectRoot, SetSettled, Fault, Visit,
     Withdraw, vars, rows

\* Only the appends change the log, in the order and with the effect the
\* ledger allows.
LEMMA NextLog ==
  ASSUME LogInv, [Next]_vars
  PROVE  UNCHANGED log \/ L!Next
<1>0. log \in [SubSteps -> Nat] /\ SubSteps = 1..3
  BY DEF LogInv, TypeOK, SubSteps
<1>1. ASSUME NEW s \in SubSteps, NEW v \in Nat \ {0}, Record(s, v),
             \A u \in 1..(s - 1) : log[u] # 0
      PROVE  UNCHANGED log \/ L!Next
  <2>1. CASE log[s] # 0
    BY <1>0, <1>1, <2>1, RecordLog
  <2>2. CASE log[s] = 0
    BY <1>0, <1>1, <2>2, RecordLog DEF L!Next, L!Commit
  <2> QED
    BY <2>1, <2>2
<1>2. ASSUME NEW r \in Sessions, AppendSold(r) \/ AppendCredited(r) \/ AppendSettled(r)
      PROVE  UNCHANGED log \/ L!Next
  <2>1. CASE AppendSold(r)
    BY <1>0, <1>1, <2>1, Appends
  <2>2. CASE AppendCredited(r)
    <3>1. \A u \in 1..(2 - 1) : log[u] # 0
      BY <2>2, Appends
    <3> QED
      BY <1>0, <1>1, <2>2, <3>1, Appends
  <2>3. CASE AppendSettled(r)
    <3>1. \A u \in 1..(3 - 1) : log[u] # 0
      BY <2>3, Appends
    <3> QED
      BY <1>0, <1>1, <2>3, <3>1, Appends
  <2> QED
    BY <1>2, <2>1, <2>2, <2>3
<1> QED
  BY <1>2, LogStep

LEMMA NextGrows ==
  ASSUME LogInv, [Next]_vars
  PROVE  Grows
<1>1. \A s \in SubSteps : log[s] # 0 => log'[s] = log[s]
  BY NextLog DEF L!Next, L!Commit, LogInv, TypeOK, SubSteps
<1>2. trace # 0 => trace' = trace
  BY DEF Next, Step, CheckOwner, ReadItem, ReadAsset, ReadEvents, ResumeSale, Mint, RecordSale,
     AppendSold, AppendCredited, AppendSettled, SetSold, SkipPayout, CreditPayout, Promote,
     ProjectRoot, SetSettled, Fault, Visit, Withdraw, vars, rows
<1> QED
  BY <1>1, <1>2 DEF Grows

\* What a purchase knows stays true while others work.
LEMMA KnowsStable ==
  ASSUME LogInv, Grows, NEW r \in Sessions, run'[r] = run[r]
  PROVE  Knows(r)'
<1>1. Knows(r) /\ TypeOK
  BY DEF LogInv
<1>2. Recorded(log) \subseteq Recorded(log')
  BY DEF Grows, Recorded
<1>3. \A s \in SubSteps : log[s] # 0 => log'[s] # 0
  BY DEF Grows
<1>4. run[r].pc \in {"credited", "project"} => trace' = run[r].payout
  BY <1>1 DEF Knows, Grows
<1> QED
  BY <1>1, <1>2, <1>3, <1>4 DEF Knows, SubSteps

\* The steps of a purchase leave the others as they are.
LEMMA OthersRun ==
  ASSUME LogInv, NEW r \in Sessions,
         Step(r) \/ Fault(r) \/ \E b \in Buyers : Visit(r, b),
         NEW q \in Sessions, q # r
  PROVE  run'[q] = run[q]
  BY DEF LogInv, TypeOK, Step, CheckOwner, ReadItem, ReadAsset, ReadEvents, ResumeSale, Mint,
     RecordSale, AppendSold, AppendCredited, AppendSettled, SetSold, SkipPayout, CreditPayout,
     Promote, ProjectRoot, SetSettled, Fault, Visit, Goto
\* The local variables a step that only moves on leaves alone.
LEMMA GotoRun ==
  ASSUME LogInv, NEW r \in Sessions, NEW to, Goto(r, to)
  PROVE  /\ run'[r].pc = to /\ run'[r].root = run[r].root /\ run'[r].done = run[r].done
         /\ run'[r].sale = run[r].sale /\ run'[r].payout = run[r].payout
  BY DEF LogInv, TypeOK, Goto, RunStates

\* Moving on asks for what the next program counter stands for.
LEMMA KnowsMoving ==
  ASSUME LogInv, Grows, NEW r \in Sessions, NEW to, Goto(r, to),
         to \in SalePcs \cup SoldPcs => run[r].pc \in SalePcs \cup SoldPcs,
         to \in {"sold"} \cup SoldPcs => run[r].sale # 0,
         to \in SoldPcs => log'[1] # 0,
         to \in {"promote", "credited", "project"} => run[r].payout # 0,
         to # "promote",
         to \in {"credited", "project"} => trace' = run[r].payout,
         to \in PaidPcs => log'[2] # 0,
         to = "settleStage" => log'[3] # 0
  PROVE  Knows(r)'
<1>1. Knows(r) /\ TypeOK
  BY DEF LogInv
<1>2. Recorded(log) \subseteq Recorded(log')
  BY DEF Grows, Recorded
<1>3. log[2] # 0 => log'[2] # 0
  BY DEF Grows, SubSteps
<1>4. /\ run'[r].pc = to /\ run'[r].root = run[r].root /\ run'[r].done = run[r].done
      /\ run'[r].sale = run[r].sale /\ run'[r].payout = run[r].payout
  BY GotoRun
<1> QED
  BY <1>1, <1>2, <1>3, <1>4 DEF Knows

LEMMA KnowsStep ==
  ASSUME LogInv, Grows, NEW r \in Sessions, Step(r)
  PROVE  Knows(r)'
<1>0. /\ TypeOK /\ Knows(r) /\ run[r] \in RunStates /\ run \in [Sessions -> RunStates]
      /\ run[r].sale \in Nat /\ run[r].payout \in Nat /\ run[r].done \in SUBSET SubSteps
      /\ Len(sales) \in Nat /\ Len(payouts) \in Nat
      /\ log \in [SubSteps -> Nat] /\ 1 \in SubSteps /\ 2 \in SubSteps /\ 3 \in SubSteps
  BY Fields DEF LogInv, TypeOK, SubSteps
<1>9. Recorded(log) \subseteq Recorded(log')
  BY DEF Grows, Recorded
<1> USE DEF SalePcs, SoldPcs, PaidPcs, PayPcs
<1>1. CASE CheckOwner(r) \/ ReadItem(r) \/ SetSettled(r)
  <2>1. \E to \in {"item", "refused", "asset", "settled"} : Goto(r, to)
    BY <1>1 DEF CheckOwner, ReadItem, SetSettled
  <2> QED
    BY <1>0, <2>1, KnowsMoving
<1>2. CASE ReadAsset(r)
  <2>1. /\ run'[r].pc = "events" /\ run'[r].root = root /\ run'[r].done = run[r].done
        /\ log' = log
    BY <1>0, <1>2 DEF ReadAsset, RunStates, rows
  <2>2. root # 0 => log[2] # 0
    BY DEF LogInv, ChainFollows
  <2> QED
    BY <1>0, <2>1, <2>2 DEF Knows
<1>3. CASE ReadEvents(r)
  <2>1. /\ run'[r].pc \in {"skipped", "sale"} /\ run'[r].root = run[r].root
        /\ run'[r].done = Recorded(log) /\ log' = log
    BY <1>0, <1>3 DEF ReadEvents, RunStates, rows
  <2> QED
    BY <1>0, <2>1 DEF Knows, Recorded
<1>4. CASE ResumeSale(r)
  <2>1. /\ run'[r].pc = IF Latest = 0 THEN "failed" ELSE "payout"
        /\ run'[r].root = run[r].root /\ run'[r].done = run[r].done /\ run'[r].sale = Latest
        /\ log' = log /\ run[r].pc = "sale" /\ 1 \in run[r].done
    BY <1>0, <1>4 DEF ResumeSale, RunStates, rows
  <2>2. log[1] # 0
    BY <1>0, <2>1 DEF Knows, Recorded
  <2> QED
    BY <1>0, <2>1, <2>2 DEF Knows
<1>5. CASE Mint(r)
  <2>1. Goto(r, "record") /\ run[r].pc = "sale"
    BY <1>5 DEF Mint
  <2> QED
    BY <1>0, <2>1, KnowsMoving
<1>6. CASE RecordSale(r)
  <2>1. /\ run'[r].pc = "sold" /\ run'[r].root = run[r].root /\ run'[r].done = run[r].done
        /\ run'[r].sale = Len(sales) + 1 /\ log' = log /\ run[r].pc = "record"
    BY <1>0, <1>6 DEF RecordSale, RunStates
  <2> QED
    BY <1>0, <2>1 DEF Knows
<1>7. CASE AppendSold(r)
  <2>1. Goto(r, "soldStage") /\ run[r].pc = "sold" /\ run[r].sale # 0
    BY <1>0, <1>7 DEF AppendSold, Knows
  <2>2. log'[1] # 0
    BY <1>0, <1>7, Appends, RecordLog
  <2> QED
    BY <1>0, <2>1, <2>2, KnowsMoving
<1>8. CASE SetSold(r)
  <2>1. Goto(r, "payout") /\ run[r].pc = "soldStage" /\ log' = log
    BY <1>8 DEF SetSold
  <2> QED
    BY <1>0, <2>1, KnowsMoving DEF Knows
<1>10. CASE SkipPayout(r)
  <2>1. Goto(r, "settle") /\ run[r].pc = "payout" /\ log' = log /\ 2 \in run[r].done
    BY <1>10 DEF SkipPayout, rows
  <2>2. log[2] # 0
    BY <1>0, <2>1 DEF Knows, Recorded
  <2> QED
    BY <1>0, <2>1, <2>2, KnowsMoving DEF Knows
<1>11. CASE CreditPayout(r)
  <2>1. /\ run'[r].pc = "promote" /\ run'[r].root = run[r].root /\ run'[r].done = run[r].done
        /\ run'[r].sale = run[r].sale /\ run'[r].payout = Len(payouts) + 1
        /\ log' = log /\ run[r].pc = "payout" /\ 2 \notin run[r].done
    BY <1>0, <1>11 DEF CreditPayout, RunStates
  <2> QED
    BY <1>0, <2>1 DEF Knows
<1>12. CASE Promote(r)
  <2>1. run[r].pc = "promote" /\ log' = log
    BY <1>12 DEF Promote, rows
  <2>2. CASE trace = 0
    BY <1>0, <1>12, <2>1, <2>2, KnowsMoving DEF Promote, Knows
  <2>3. CASE trace # 0
    BY <1>0, <1>12, <2>1, <2>3, KnowsMoving DEF Promote
  <2> QED
    BY <2>2, <2>3
<1>13. CASE AppendCredited(r)
  <2>1. /\ run[r].pc = "credited" /\ trace' = trace /\ run[r].sale # 0
        /\ \E to \in {"failed", "project"} : Goto(r, to)
    BY <1>0, <1>13 DEF AppendCredited, Knows
  <2>2. log'[2] # 0 /\ log'[1] # 0 /\ run[r].payout # 0 /\ trace = run[r].payout
    BY <1>0, <1>13, Appends, RecordLog DEF Grows
  <2> QED
    BY <1>0, <2>1, <2>2, KnowsMoving
<1>14. CASE ProjectRoot(r)
  <2>1. Goto(r, "settle") /\ run[r].pc = "project" /\ log' = log
    BY <1>14 DEF ProjectRoot
  <2> QED
    BY <1>0, <2>1, KnowsMoving DEF Knows
<1>15. CASE AppendSettled(r)
  <2>1. Goto(r, "settleStage") /\ run[r].pc = "settle" /\ run[r].sale # 0
    BY <1>0, <1>15 DEF AppendSettled, Knows
  <2>2. log'[3] # 0 /\ log'[1] # 0 /\ log'[2] # 0
    BY <1>0, <1>15, Appends, RecordLog DEF Grows
  <2> QED
    BY <1>0, <2>1, <2>2, KnowsMoving
<1> QED
  BY <1>1, <1>2, <1>3, <1>4, <1>5, <1>6, <1>7, <1>8, <1>10, <1>11, <1>12, <1>13, <1>14, <1>15
     DEF Step

\* Trace has what the log names, and the chain columns follow the log.
LEMMA NextTrace ==
  ASSUME LogInv, Grows, [Next]_vars
  PROVE  PromotedFirst' /\ ChainFollows'
<1>0. /\ TypeOK /\ PromotedFirst /\ ChainFollows /\ log \in [SubSteps -> Nat]
      /\ 1 \in SubSteps /\ 2 \in SubSteps /\ 3 \in SubSteps
  BY DEF LogInv, TypeOK, SubSteps
<1>1. ASSUME NEW r \in Sessions, AppendCredited(r)
      PROVE  PromotedFirst' /\ ChainFollows'
  <2>1. trace' = trace /\ root' = root /\ run[r].payout = trace
    BY <1>1, Appends DEF AppendCredited
  <2>2. log'[2] = trace
    BY <1>0, <1>1, <2>1, Appends, RecordLog DEF PromotedFirst, Grows
  <2> QED
    BY <1>0, <2>1, <2>2 DEF PromotedFirst, ChainFollows
<1>2. ASSUME NEW r \in Sessions, ProjectRoot(r)
      PROVE  PromotedFirst' /\ ChainFollows'
  <2>1. /\ trace' = trace /\ log' = log /\ root' = run[r].payout
        /\ trace = run[r].payout /\ log[2] # 0
    BY <1>2 DEF ProjectRoot, LogInv, Knows, PaidPcs
  <2> QED
    BY <1>0, <2>1 DEF PromotedFirst, ChainFollows
<1>3. ASSUME NEW r \in Sessions, AppendSold(r) \/ AppendSettled(r)
      PROVE  PromotedFirst' /\ ChainFollows'
  <2>1. log'[2] = log[2]
    BY <1>0, <1>3, Appends, RecordLog
  <2>2. trace' = trace /\ root' = root
    BY <1>3 DEF AppendSold, AppendSettled
  <2> QED
    BY <1>0, <2>1, <2>2 DEF PromotedFirst, ChainFollows
<1>4. CASE ~\E r \in Sessions : \/ AppendCredited(r) \/ ProjectRoot(r)
                                \/ AppendSold(r) \/ AppendSettled(r)
  <2>1. log' = log /\ root' = root
    BY <1>4 DEF Next, Step, CheckOwner, ReadItem, ReadAsset, ReadEvents, ResumeSale, Mint,
       RecordSale, SetSold, SkipPayout, CreditPayout, Promote, SetSettled, Fault, Visit,
       Withdraw, vars, rows
  <2> QED
    BY <1>0, <2>1 DEF PromotedFirst, ChainFollows, Grows
<1> QED
  BY <1>1, <1>2, <1>3, <1>4

LEMMA NextLogInv ==
  ASSUME LogInv, [Next]_vars
  PROVE  LogInv'
<1>1. TypeOK' /\ Grows /\ PromotedFirst' /\ ChainFollows'
  BY NextTypeOK, NextGrows, NextTrace
<1>2. ASSUME NEW r \in Sessions, Fault(r) \/ \E b \in Buyers : Visit(r, b)
      PROVE  Knows(r)'
  <2>1. CASE Fault(r)
    BY <1>1, <2>1, KnowsMoving DEF Fault, SalePcs, SoldPcs, PaidPcs, PayPcs
  <2>2. ASSUME NEW b \in Buyers, Visit(r, b)
        PROVE  Knows(r)'
    <3>1. Readiness \in {"refused", "owner", "item"}
      BY DEF Readiness
    <3>2. run'[r].pc = Readiness /\ run'[r].root = 0 /\ run'[r].done = {}
      BY <2>2 DEF Visit, LogInv, TypeOK
    <3> QED
      BY <3>1, <3>2 DEF Knows, SalePcs, SoldPcs, PaidPcs, PayPcs
  <2> QED
    BY <1>2, <2>1, <2>2
<1>3. ASSUME NEW r \in Sessions, Step(r) \/ Fault(r) \/ \E b \in Buyers : Visit(r, b)
      PROVE  \A q \in Sessions : Knows(q)'
  BY <1>1, <1>2, <1>3, KnowsStep, KnowsStable, OthersRun
<1>4. CASE Withdraw \/ UNCHANGED vars
  BY <1>1, <1>4, KnowsStable DEF Withdraw, vars, LogInv
<1> QED
  BY <1>1, <1>3, <1>4 DEF Next, LogInv

LEMMA LogInvariant == Spec => []LogInv
  BY InitLogInv, NextLogInv, PTL DEF Spec

\* The rows, Trace and the purchases only ever hold values of their types, and
\* no row or purchase points at a row that does not exist.
THEOREM TypeCorrect == Spec => []TypeOK
<1>1. LogInv => TypeOK
  BY DEF LogInv
<1> QED
  BY <1>1, LogInvariant, PTL

\* However purchases interleave and whatever fails, the log of the stage is
\* the ledger: sold, credited and settled once each, in order, never changed.
THEOREM LogIsLedger == Spec => LedgerRefined
<1>1. Init => L!Init
  BY DEF Init, L!Init, SubSteps
<1>2. LogInv /\ [Next]_vars => [L!Next]_log
  BY NextLog
<1> QED
  BY <1>1, <1>2, LogInvariant, PTL DEF Spec, LedgerRefined, L!Spec

\* Trace holds the document the log names, the chain columns follow the log,
\* and no purchase ever sends a second metadata update, in every interleaving.
THEOREM TraceFollowsLog == Spec => [](PromotedFirst /\ ChainFollows /\ NeverSecondUpdate)
<1>1. LogInv => PromotedFirst /\ ChainFollows /\ NeverSecondUpdate
  BY DEF LogInv, Knows, NeverSecondUpdate, SoldPcs, PayPcs
<1> QED
  BY <1>1, LogInvariant, PTL

-----------------------------------------------------------------------------
(* Purchases in turn.                                                      *)

Alone == \A r, q \in Sessions : Active(r) /\ Active(q) => r = q

\* What the one active purchase has in hand: no sale of it is recorded, or it
\* works on the recorded one.
Holds(r) ==
  /\ run[r].pc = "sale" => (1 \in run[r].done <=> log[1] # 0)
  /\ run[r].pc \in {"record", "sold"} => log[1] = 0
  /\ run[r].pc = "sold" => run[r].sale = Len(sales)
  /\ run[r].pc \in SoldPcs => run[r].sale = log[1]
  /\ run[r].pc \in {"promote", "credited", "project"} => payouts[run[r].payout] = run[r].sale

\* Only rows that were never reported can precede the sale of the log.
LatestIsSold == log[1] # 0 => log[1] = Len(sales)

SaleInv ==
  /\ LogInv
  /\ Alone
  /\ \A r \in Sessions : Holds(r)
  /\ LatestIsSold
  /\ SalesAgree

LEMMA InitSaleInv == Init => SaleInv
<1> SUFFICES ASSUME Init PROVE SaleInv
  OBVIOUS
<1>1. PICK b \in Buyers :
        run = [r \in Sessions |-> [pc |-> "idle", buyer |-> b, root |-> 0,
                                   done |-> {}, sale |-> 0, payout |-> 0]]
  BY DEF Init
<1>2. \A r \in Sessions : run[r].pc = "idle"
  BY <1>1
<1>3. Alone /\ \A r \in Sessions : Holds(r)
  BY <1>2 DEF Alone, Active, ActivePcs, CheckPcs, Holds, SalePcs, SoldPcs, PayPcs
<1>4. log[1] = 0 /\ log[2] = 0 /\ log[3] = 0
  BY DEF Init, SubSteps
<1>5. LatestIsSold /\ SalesAgree
  BY <1>4 DEF LatestIsSold, SalesAgree
<1> QED
  BY <1>3, <1>5, InitLogInv DEF SaleInv

\* A step belongs to the one active purchase, and leaves no other active.
LEMMA AloneStep ==
  ASSUME SaleInv, Overlap = FALSE, NEW r \in Sessions,
         Step(r) \/ Fault(r) \/ \E b \in Buyers : Visit(r, b)
  PROVE  \A q \in Sessions : q # r => ~Active(q) /\ ~Active(q)'
<1>1. \A q \in Sessions : q # r => run'[q] = run[q]
  BY OthersRun DEF SaleInv
<1>2. \A q \in Sessions : q # r => ~Active(q)
  <2>1. CASE \E b \in Buyers : Visit(r, b)
    BY <2>1 DEF Visit
  <2>2. CASE Step(r) \/ Fault(r)
    <3>1. Active(r)
      BY <2>2 DEF Step, CheckOwner, ReadItem, ReadAsset, ReadEvents, ResumeSale, Mint,
         RecordSale, AppendSold, AppendCredited, AppendSettled, SetSold, SkipPayout,
         CreditPayout, Promote, ProjectRoot, SetSettled, Fault, Active, ActivePcs, CheckPcs,
         SalePcs, PayPcs
    <3> QED
      BY <3>1 DEF SaleInv, Alone
  <2> QED
    BY <2>1, <2>2
<1> QED
  BY <1>1, <1>2 DEF Active

\* Rows never change: what points at one still does after an append.
LEMMA RowsStay ==
  ASSUME LogInv, [Next]_vars
  PROVE  /\ \A i \in 1..Len(sales) : sales'[i] = sales[i]
         /\ \A i \in 1..Len(payouts) : payouts'[i] = payouts[i]
<1>1. sales \in Seq(Buyers) /\ payouts \in Seq(1..Len(sales))
  BY DEF LogInv, TypeOK
<1>2. CASE sales' = sales /\ payouts' = payouts
  BY <1>2
<1>3. ASSUME NEW r \in Sessions, RecordSale(r)
      PROVE  /\ \A i \in 1..Len(sales) : sales'[i] = sales[i]
             /\ \A i \in 1..Len(payouts) : payouts'[i] = payouts[i]
  <2>1. run[r].buyer \in Buyers
    BY Fields DEF LogInv
  <2> QED
    BY <1>1, <1>3, <2>1, AppendRow DEF RecordSale
<1>4. ASSUME NEW r \in Sessions, CreditPayout(r)
      PROVE  /\ \A i \in 1..Len(sales) : sales'[i] = sales[i]
             /\ \A i \in 1..Len(payouts) : payouts'[i] = payouts[i]
  <2>1. run[r].sale \in 1..Len(sales)
    BY <1>4, Fields DEF LogInv, TypeOK, Knows, CreditPayout, SoldPcs, PayPcs
  <2> QED
    BY <1>1, <1>4, <2>1, AppendRow DEF CreditPayout
<1>5. \/ sales' = sales /\ payouts' = payouts
      \/ \E r \in Sessions : RecordSale(r) \/ CreditPayout(r)
  BY DEF Next, Step, CheckOwner, ReadItem, ReadAsset, ReadEvents, ResumeSale, Mint,
     AppendSold, AppendCredited, AppendSettled, SetSold, SkipPayout, Promote, ProjectRoot,
     SetSettled, Fault, Visit, Withdraw, vars, rows
<1> QED
  BY <1>2, <1>3, <1>4, <1>5

\* The log names rows that exist, and nothing before the sale.
LEMMA LogNames ==
  ASSUME SaleInv
  PROVE  /\ log \in [SubSteps -> Nat] /\ log[2] \in 0..Len(payouts) /\ log[1] \in 0..Len(sales)
         /\ log[1] = 0 => log[2] = 0 /\ log[3] = 0
<1>1. TypeOK /\ PromotedFirst /\ SalesAgree /\ LatestIsSold
  BY DEF SaleInv, LogInv
<1>2. /\ log \in [SubSteps -> Nat] /\ Len(sales) \in Nat /\ Len(payouts) \in Nat
      /\ payouts \in [1..Len(payouts) -> 1..Len(sales)]
  BY <1>1, LenProperties DEF TypeOK
<1>3. log[2] \in 0..Len(payouts) /\ log[1] \in 0..Len(sales)
  BY <1>1, <1>2 DEF TypeOK, PromotedFirst, LatestIsSold
<1> QED
  BY <1>1, <1>2, <1>3 DEF SalesAgree

LEMMA HoldsOutside ==
  ASSUME NEW r \in Sessions, run'[r].pc \notin {"sale", "record", "sold"} \cup SoldPcs
  PROVE  Holds(r)'
  BY DEF Holds, SoldPcs, PayPcs

\* Moving on without touching the rows a purchase holds.
LEMMA HoldsMoving ==
  ASSUME SaleInv, NEW r \in Sessions, NEW to, Goto(r, to), UNCHANGED <<sales, payouts>>,
         run[r].pc \in SoldPcs, to \notin {"sale", "record", "sold", "promote"},
         log'[1] = log[1],
         to \in {"credited", "project"} => run[r].pc \in {"promote", "credited"}
  PROVE  Holds(r)'
  BY GotoRun DEF SaleInv, Holds, SoldPcs, PayPcs

\* One purchase in turn keeps hold of its sale, and the log agrees with it.
LEMMA SaleStep ==
  ASSUME SaleInv, LogInv', [Next]_vars, NEW r \in Sessions, Step(r)
  PROVE  Holds(r)' /\ LatestIsSold' /\ SalesAgree'
<1>0. /\ TypeOK /\ Holds(r) /\ Knows(r) /\ run[r] \in RunStates
      /\ run \in [Sessions -> RunStates] /\ run[r].buyer \in Buyers
      /\ run[r].sale \in 0..Len(sales) /\ run[r].payout \in 0..Len(payouts)
      /\ Len(sales) \in Nat /\ Len(payouts) \in Nat
      /\ LatestIsSold /\ SalesAgree /\ LogInv
      /\ 1 \in SubSteps /\ 2 \in SubSteps /\ 3 \in SubSteps
  <2>1. SaleInv /\ LogInv /\ TypeOK /\ Knows(r)
    BY DEF SaleInv, LogInv
  <2>2. Len(sales) \in Nat /\ Len(payouts) \in Nat
    BY <2>1 DEF TypeOK
  <2> QED
    BY <2>1, <2>2, Fields DEF SaleInv, SubSteps
<1>01. /\ log \in [SubSteps -> Nat] /\ log[2] \in 0..Len(payouts) /\ log[1] \in 0..Len(sales)
       /\ log[1] = 0 => log[2] = 0 /\ log[3] = 0
  BY LogNames
<1>02. /\ \A i \in 1..Len(sales) : sales'[i] = sales[i]
       /\ \A i \in 1..Len(payouts) : payouts'[i] = payouts[i]
  BY <1>0, RowsStay
<1> USE <1>0, <1>01
<1>1. ASSUME UNCHANGED <<log, sales>>
      PROVE  LatestIsSold' /\ SalesAgree'
  BY <1>1, <1>02 DEF LatestIsSold, SalesAgree
<1>2. CASE CheckOwner(r) \/ ReadItem(r) \/ ReadAsset(r)
  <2>1. run'[r].pc \in {"refused", "item", "asset", "events"}
    <3>1. CASE CheckOwner(r) \/ ReadItem(r)
      <4>1. \E to \in {"refused", "item", "asset"} : Goto(r, to)
        BY <3>1 DEF CheckOwner, ReadItem
      <4> QED
        BY <4>1, GotoRun
    <3>2. CASE ReadAsset(r)
      BY <3>2 DEF ReadAsset, RunStates
    <3> QED
      BY <1>2, <3>1, <3>2
  <2> QED
    BY <1>1, <1>2, <2>1, HoldsOutside
       DEF CheckOwner, ReadItem, ReadAsset, rows, SoldPcs, PayPcs
<1>3. CASE ReadEvents(r)
  <2>1. run'[r].pc \in {"skipped", "sale"} /\ run'[r].done = Recorded(log)
    BY <1>3 DEF ReadEvents, RunStates
  <2>2. log' = log /\ sales' = sales
    BY <1>3 DEF ReadEvents, rows
  <2> QED
    BY <1>1, <2>1, <2>2 DEF Holds, Recorded, SoldPcs, PayPcs
<1>4. CASE ResumeSale(r)
  <2>1. /\ run'[r].pc \in {"failed", "payout"} /\ run'[r].sale = Len(sales)
        /\ 1 \in run[r].done /\ run[r].pc = "sale" /\ log' = log /\ sales' = sales
    BY <1>4 DEF ResumeSale, RunStates, Latest, rows
  <2>2. log[1] = Len(sales)
    BY <2>1 DEF Holds, LatestIsSold
  <2> QED
    BY <1>1, <2>1, <2>2 DEF Holds, SoldPcs, PayPcs
<1>5. CASE Mint(r)
  <2>1. run'[r].pc = "record" /\ log[1] = 0 /\ log' = log /\ sales' = sales
    BY <1>5, GotoRun DEF Mint, Holds, rows
  <2> QED
    BY <1>1, <2>1 DEF Holds, SoldPcs, PayPcs
<1>6. CASE RecordSale(r)
  <2>1. /\ run'[r].pc = "sold" /\ run'[r].sale = Len(sales) + 1 /\ log[1] = 0 /\ log' = log
    BY <1>6 DEF RecordSale, RunStates, Holds
  <2>2. Len(sales') = Len(sales) + 1
    BY <1>6, AppendRow DEF RecordSale, TypeOK
  <2> QED
    BY <2>1, <2>2 DEF Holds, LatestIsSold, SalesAgree, SoldPcs, PayPcs
<1>7. CASE AppendSold(r)
  <2>1. log[1] = 0 /\ log'[1] = run[r].sale /\ run[r].sale = Len(sales)
    BY <1>7, Appends, RecordLog DEF Holds, AppendSold
  <2>2. log'[2] = 0 /\ log'[3] = 0
    BY <1>7, <2>1, Appends, RecordLog
  <2>3. run'[r].pc = "soldStage" /\ run'[r].sale = run[r].sale /\ sales' = sales
    BY <1>7, GotoRun DEF AppendSold
  <2> QED
    BY <2>1, <2>2, <2>3 DEF Holds, LatestIsSold, SalesAgree, SoldPcs, PayPcs
<1>8. CASE SetSold(r) \/ SkipPayout(r) \/ ProjectRoot(r) \/ SetSettled(r)
  <2>1. \E to \in {"payout", "settle", "settled"} : Goto(r, to)
    BY <1>8 DEF SetSold, SkipPayout, ProjectRoot, SetSettled
  <2>2. run[r].pc \in SoldPcs /\ UNCHANGED <<log, sales, payouts>>
    BY <1>8 DEF SetSold, SkipPayout, ProjectRoot, SetSettled, SoldPcs, PayPcs, rows
  <2> QED
    BY <1>1, <2>1, <2>2, HoldsMoving
<1>9. CASE Promote(r)
  <2>1. \E to \in {"credited", "conflict"} : Goto(r, to)
    BY <1>9 DEF Promote
  <2>2. run[r].pc = "promote" /\ run[r].pc \in SoldPcs /\ UNCHANGED <<log, sales, payouts>>
    BY <1>9 DEF Promote, SoldPcs, PayPcs, rows
  <2> QED
    BY <1>1, <2>1, <2>2, HoldsMoving
<1>10. CASE CreditPayout(r)
  <2>1. /\ run'[r].pc = "promote" /\ run'[r].sale = run[r].sale
        /\ run'[r].payout = Len(payouts) + 1 /\ log' = log /\ sales' = sales
        /\ run[r].sale = log[1] /\ run[r].sale # 0
    BY <1>10 DEF CreditPayout, RunStates, Holds, Knows, SoldPcs, PayPcs
  <2>2. payouts'[Len(payouts) + 1] = run[r].sale
    BY <1>10, <2>1, AppendRow DEF CreditPayout, TypeOK
  <2> QED
    BY <1>1, <2>1, <2>2 DEF Holds, SoldPcs, PayPcs
<1>11. CASE AppendCredited(r)
  <2>1. /\ run[r].pc = "credited" /\ run[r].pc \in SoldPcs /\ UNCHANGED <<sales, payouts>>
        /\ \E to \in {"failed", "project"} : Goto(r, to)
    BY <1>11 DEF AppendCredited, SoldPcs, PayPcs
  <2>2. /\ log'[1] = log[1] /\ log'[3] = log[3]
        /\ log'[2] = IF log[2] = 0 THEN run[r].payout ELSE log[2]
    BY <1>11, Appends, RecordLog
  <2>3. payouts[run[r].payout] = run[r].sale /\ run[r].sale = log[1]
    BY <2>1 DEF Holds
  <2>4. Holds(r)'
    BY <2>1, <2>2, HoldsMoving
  <2> QED
    BY <2>1, <2>2, <2>3, <2>4 DEF LatestIsSold, SalesAgree
<1>12. CASE AppendSettled(r)
  <2>1. /\ run[r].pc = "settle" /\ run[r].pc \in SoldPcs /\ UNCHANGED <<sales, payouts>>
        /\ Goto(r, "settleStage")
    BY <1>12 DEF AppendSettled, SoldPcs
  <2>2. /\ log'[1] = log[1] /\ log'[2] = log[2]
        /\ log'[3] = IF log[3] = 0 THEN run[r].sale ELSE log[3]
    BY <1>12, Appends, RecordLog
  <2>3. run[r].sale = log[1]
    BY <2>1 DEF Holds
  <2>4. Holds(r)'
    BY <2>1, <2>2, HoldsMoving
  <2> QED
    BY <2>1, <2>2, <2>3, <2>4 DEF LatestIsSold, SalesAgree
<1> QED
  BY <1>2, <1>3, <1>4, <1>5, <1>6, <1>7, <1>8, <1>9, <1>10, <1>11, <1>12 DEF Step

LEMMA NextSaleInv ==
  ASSUME SaleInv, Overlap = FALSE, [Next]_vars
  PROVE  SaleInv'
<1>1. LogInv'
  BY NextLogInv DEF SaleInv
<1>2. ASSUME NEW r \in Sessions, Fault(r) \/ \E b \in Buyers : Visit(r, b)
      PROVE  Holds(r)' /\ LatestIsSold' /\ SalesAgree'
  <2>1. run'[r].pc \in {"failed", "refused", "owner", "item"}
    BY <1>2 DEF Fault, Visit, Readiness, Goto, SaleInv, LogInv, TypeOK, RunStates
  <2>2. UNCHANGED <<log, sales, payouts>>
    BY <1>2 DEF Fault, Visit, rows
  <2> QED
    BY <2>1, <2>2, HoldsOutside DEF SaleInv, LatestIsSold, SalesAgree, SoldPcs, PayPcs
<1>3. ASSUME NEW r \in Sessions, Step(r) \/ Fault(r) \/ \E b \in Buyers : Visit(r, b)
      PROVE  SaleInv'
  <2>1. Holds(r)' /\ LatestIsSold' /\ SalesAgree'
    BY <1>1, <1>2, <1>3, SaleStep
  <2>2. \A q \in Sessions : q # r => ~Active(q)'
    BY <1>3, AloneStep
  <2>3. \A q \in Sessions : q # r => Holds(q)'
    BY <2>2, HoldsOutside DEF Active, ActivePcs, SalePcs, SoldPcs
  <2>4. Alone'
    BY <2>2 DEF Alone
  <2> QED
    BY <1>1, <2>1, <2>3, <2>4 DEF SaleInv
<1>4. CASE Withdraw \/ UNCHANGED vars
  <2>1. UNCHANGED <<log, sales, payouts, run>>
    BY <1>4 DEF Withdraw, vars, rows
  <2> QED
    BY <1>1, <2>1 DEF SaleInv, Alone, Active, Holds, LatestIsSold, SalesAgree
<1> QED
  BY <1>3, <1>4 DEF Next

\* Purchases in turn, whatever fails and for any number of payouts: what was
\* sold is what is paid, and what is paid is what is settled.
THEOREM PurchasesInTurn ==
  ASSUME Overlap = FALSE
  PROVE  Spec => []SalesAgree
<1>1. Init => SaleInv
  BY InitSaleInv
<1>2. SaleInv /\ [Next]_vars => SaleInv'
  BY NextSaleInv
<1>3. SaleInv => SalesAgree
  BY DEF SaleInv
<1> QED
  BY <1>1, <1>2, <1>3, PTL DEF Spec

-----------------------------------------------------------------------------
(* Purchases in turn, when only calls fail.                                *)

\* A purchase past the readiness check works for the buyer of the sale.
Mine(r) ==
  /\ run[r].pc \in {"item", "asset", "events", "sale"} /\ log[1] # 0
       => sales[log[1]] = run[r].buyer
  /\ run[r].pc = "sold" => sales[run[r].sale] = run[r].buyer
  /\ run[r].pc \in SoldPcs \cup {"settled"} => log[1] # 0 /\ sales[log[1]] = run[r].buyer
  /\ run[r].pc = "settled" => log[3] # 0

\* A recorded sale is shown by the stage, or about to be.
Shown == stage = "LISTED" /\ log[1] # 0 => \E r \in Sessions : run[r].pc = "soldStage"

\* A token minted is recorded, or about to be.
Tokens ==
  /\ Len(minted) \in {0, 1}
  /\ Len(minted) = 1 /\ log[1] = 0 => \E r \in Sessions : run[r].pc \in {"record", "sold"}

PortInv ==
  /\ SaleInv
  /\ \A r \in Sessions : Mine(r)
  /\ Shown
  /\ Tokens

LEMMA InitPortInv == Init => PortInv
<1> SUFFICES ASSUME Init PROVE PortInv
  OBVIOUS
<1>1. PICK b \in Buyers :
        run = [r \in Sessions |-> [pc |-> "idle", buyer |-> b, root |-> 0,
                                   done |-> {}, sale |-> 0, payout |-> 0]]
  BY DEF Init
<1>2. \A r \in Sessions : run[r].pc = "idle"
  BY <1>1
<1>3. log[1] = 0 /\ Len(minted) = 0
  BY DEF Init, SubSteps
<1>4. \A r \in Sessions : Mine(r)
  BY <1>2 DEF Mine, SoldPcs, PayPcs
<1> QED
  BY <1>3, <1>4, InitSaleInv DEF PortInv, Shown, Tokens

\* Moving on with the same sale for the same buyer.
LEMMA MineMoving ==
  ASSUME PortInv, NEW r \in Sessions, NEW to, Goto(r, to), UNCHANGED sales,
         log'[1] = log[1], to # "sold", to = "settled" => log'[3] # 0,
         \/ to \in {"refused", "failed", "conflict", "record"}
         \/ /\ run[r].pc \in {"item", "asset", "events", "sale"}
            /\ to \in {"item", "asset", "events", "sale"}
         \/ run[r].pc \in SoldPcs /\ to \in SoldPcs \cup {"settled"}
  PROVE  Mine(r)'
<1>1. run'[r].pc = to /\ run'[r].buyer = run[r].buyer /\ run'[r].sale = run[r].sale
  BY DEF PortInv, SaleInv, LogInv, TypeOK, Goto, RunStates
<1> QED
  BY <1>1 DEF PortInv, Mine, SoldPcs, PayPcs

LEMMA MineStep ==
  ASSUME PortInv, SaleInv', [Next]_vars, NEW r \in Sessions, Step(r)
  PROVE  Mine(r)'
<1>0. /\ TypeOK /\ Holds(r) /\ Knows(r) /\ Mine(r) /\ run[r] \in RunStates
      /\ run \in [Sessions -> RunStates] /\ run[r].buyer \in Buyers
      /\ Len(sales) \in Nat /\ sales \in Seq(Buyers) /\ LatestIsSold /\ LogInv
      /\ 1 \in SubSteps /\ 2 \in SubSteps /\ 3 \in SubSteps
  <2>1. SaleInv /\ LogInv /\ TypeOK /\ Knows(r) /\ Mine(r)
    BY DEF PortInv, SaleInv, LogInv
  <2>2. Len(sales) \in Nat /\ sales \in Seq(Buyers)
    BY <2>1 DEF TypeOK
  <2> QED
    BY <2>1, <2>2, Fields DEF SaleInv, SubSteps
<1>01. log \in [SubSteps -> Nat] /\ log[1] \in 0..Len(sales)
  BY LogNames DEF PortInv
<1> USE <1>0, <1>01
<1>1. CASE CheckOwner(r)
  <2>1. CASE Goto(r, "refused")
    BY <1>1, <2>1, MineMoving DEF CheckOwner, rows
  <2>2. CASE Latest # 0 /\ sales[Latest] = run[r].buyer /\ Goto(r, "item")
    <3>1. run'[r].pc = "item" /\ run'[r].buyer = run[r].buyer
      BY <2>2 DEF Goto, RunStates
    <3>2. log[1] # 0 => sales[log[1]] = run[r].buyer
      BY <2>2 DEF Latest, LatestIsSold
    <3>3. log' = log /\ sales' = sales
      BY <1>1 DEF CheckOwner, rows
    <3> QED
      BY <3>1, <3>2, <3>3 DEF Mine, SoldPcs, PayPcs
  <2> QED
    BY <1>1, <2>1, <2>2 DEF CheckOwner
<1>2. CASE ReadItem(r)
  <2>1. \E to \in {"asset", "refused"} : Goto(r, to)
    BY <1>2 DEF ReadItem
  <2>2. run[r].pc = "item" /\ log' = log /\ sales' = sales
    BY <1>2 DEF ReadItem, rows
  <2> QED
    BY <2>1, <2>2, MineMoving
<1>3. CASE ReadAsset(r) \/ ReadEvents(r)
  <2>1. run'[r].buyer = run[r].buyer /\ run'[r].pc \in {"events", "sale", "skipped"}
    <3>1. CASE ReadAsset(r)
      BY <3>1 DEF ReadAsset, RunStates
    <3>2. CASE ReadEvents(r)
      BY <3>2 DEF ReadEvents, RunStates
    <3> QED
      BY <1>3, <3>1, <3>2
  <2>2. run[r].pc \in {"asset", "events"} /\ log' = log /\ sales' = sales
    BY <1>3 DEF ReadAsset, ReadEvents, rows
  <2> QED
    BY <2>1, <2>2 DEF Mine, SoldPcs, PayPcs
<1>4. CASE ResumeSale(r)
  <2>1. /\ run'[r].pc \in {"failed", "payout"} /\ run'[r].buyer = run[r].buyer
        /\ log[1] # 0 /\ run[r].pc = "sale" /\ log' = log /\ sales' = sales
    BY <1>4 DEF ResumeSale, RunStates, Holds, rows
  <2> QED
    BY <2>1 DEF Mine, SoldPcs, PayPcs
<1>5. CASE Mint(r)
  BY <1>5, MineMoving DEF Mint, rows
<1>6. CASE RecordSale(r)
  <2>1. /\ run'[r].pc = "sold" /\ run'[r].sale = Len(sales) + 1
        /\ run'[r].buyer = run[r].buyer
    BY <1>6 DEF RecordSale, RunStates
  <2>2. sales'[Len(sales) + 1] = run[r].buyer
    BY <1>6, AppendRow DEF RecordSale
  <2> QED
    BY <2>1, <2>2 DEF Mine, SoldPcs, PayPcs
<1>7. CASE AppendSold(r)
  <2>1. log'[1] = run[r].sale /\ run[r].sale # 0 /\ sales[run[r].sale] = run[r].buyer
    BY <1>7, Appends, RecordLog DEF Holds, Mine, AppendSold
  <2>2. run'[r].pc = "soldStage" /\ run'[r].buyer = run[r].buyer /\ sales' = sales
    BY <1>7 DEF AppendSold, Goto, RunStates
  <2> QED
    BY <2>1, <2>2 DEF Mine, SoldPcs, PayPcs
<1>8. CASE SetSold(r) \/ SkipPayout(r) \/ Promote(r) \/ ProjectRoot(r) \/ SetSettled(r)
  <2>1. \E to \in {"payout", "settle", "credited", "conflict", "settled"} : Goto(r, to)
    BY <1>8 DEF SetSold, SkipPayout, Promote, ProjectRoot, SetSettled
  <2>2. run[r].pc \in SoldPcs /\ log' = log /\ sales' = sales
    BY <1>8 DEF SetSold, SkipPayout, Promote, ProjectRoot, SetSettled, SoldPcs, PayPcs, rows
  <2>3. Goto(r, "settled") => log[3] # 0
    BY <1>8, GotoRun DEF SetSold, SkipPayout, Promote, ProjectRoot, SetSettled, Knows
  <2> QED
    BY <2>1, <2>2, <2>3, MineMoving DEF SoldPcs, PayPcs
<1>9. CASE CreditPayout(r)
  <2>1. /\ run'[r].pc = "promote" /\ run'[r].buyer = run[r].buyer /\ run[r].pc = "payout"
        /\ log' = log /\ sales' = sales
    BY <1>9 DEF CreditPayout, RunStates
  <2> QED
    BY <2>1 DEF Mine, SoldPcs, PayPcs
<1>10. CASE AppendCredited(r)
  <2>1. /\ run[r].pc \in SoldPcs /\ sales' = sales
        /\ \E to \in {"failed", "project"} : Goto(r, to)
    BY <1>10 DEF AppendCredited, SoldPcs, PayPcs
  <2>2. log'[1] = log[1]
    BY <1>10, Appends, RecordLog
  <2> QED
    BY <2>1, <2>2, MineMoving DEF SoldPcs, PayPcs
<1>11. CASE AppendSettled(r)
  <2>1. run[r].pc \in SoldPcs /\ sales' = sales /\ Goto(r, "settleStage")
    BY <1>11 DEF AppendSettled, SoldPcs
  <2>2. log'[1] = log[1]
    BY <1>11, Appends, RecordLog
  <2> QED
    BY <2>1, <2>2, MineMoving DEF SoldPcs
<1> QED
  BY <1>1, <1>2, <1>3, <1>4, <1>5, <1>6, <1>7, <1>8, <1>9, <1>10, <1>11 DEF Step

\* A new purchase of a listed asset finds no sale in the log.
LEMMA MineVisit ==
  ASSUME PortInv, Overlap = FALSE, NEW r \in Sessions, NEW b \in Buyers, Visit(r, b)
  PROVE  Mine(r)'
<1>1. run'[r].pc = Readiness /\ UNCHANGED <<log, stage, sales>>
  BY DEF Visit, PortInv, SaleInv, LogInv, TypeOK, rows
<1>2. Readiness \in {"refused", "owner", "item"}
  BY DEF Readiness
<1>3. Readiness = "item" => stage = "LISTED"
  BY DEF Readiness, PortInv, SaleInv, LogInv, TypeOK, Stages
<1>4. \A q \in Sessions : run[q].pc # "soldStage"
  <2>1. \A q \in Sessions : ~Active(q) \/ q = r
    BY DEF Visit
  <2>2. run[r].pc # "soldStage"
    BY DEF Visit, CanBuy, EndPcs
  <2> QED
    BY <2>1, <2>2 DEF Active, ActivePcs, SalePcs
<1>5. Readiness = "item" => log[1] = 0
  BY <1>3, <1>4 DEF PortInv, Shown
<1> QED
  BY <1>1, <1>2, <1>5 DEF Mine, SoldPcs, PayPcs

\* A failed call leaves no sale, and no token, without its record.
LEMMA MineFault ==
  ASSUME PortInv, FaultKinds \subseteq {"port"}, NEW r \in Sessions, Fault(r)
  PROVE  /\ Mine(r)' /\ run[r].pc \in {"sale", "promote"}
         /\ UNCHANGED <<log, stage, sales, minted>>
<1>1. Goto(r, "failed") /\ UNCHANGED <<log, stage, sales, minted>>
  BY DEF Fault, rows
<1>2. Mine(r)'
  BY <1>1, MineMoving
<1>3. run[r].pc \in {"sale", "promote"}
  BY DEF Fault, Kind
<1> QED
  BY <1>1, <1>2, <1>3

\* The stage and the token follow the sale.
LEMMA ShownStep ==
  ASSUME PortInv, SaleInv', Overlap = FALSE, [Next]_vars, NEW r \in Sessions, Step(r)
  PROVE  Shown' /\ Tokens'
<1>0. /\ LogInv /\ Holds(r) /\ Shown /\ Tokens /\ TypeOK /\ run \in [Sessions -> RunStates]
      /\ log \in [SubSteps -> Nat] /\ 1 \in SubSteps /\ minted \in Seq(Buyers)
      /\ run[r].buyer \in Buyers
  <2>1. LogInv /\ Holds(r) /\ Shown /\ Tokens /\ TypeOK
    BY DEF PortInv, SaleInv, LogInv
  <2>2. run \in [Sessions -> RunStates] /\ run[r].buyer \in Buyers
    BY <2>1, Fields
  <2>3. log \in [SubSteps -> Nat] /\ 1 \in SubSteps /\ minted \in Seq(Buyers)
    BY <2>1 DEF TypeOK, SubSteps
  <2> QED
    BY <2>1, <2>2, <2>3
<1>1. log[1] # 0 => log'[1] # 0
  BY <1>0, NextGrows DEF Grows
<1>2. \A q \in Sessions : q # r => /\ run'[q] = run[q]
                                   /\ run[q].pc \notin {"record", "sold", "soldStage"}
  BY <1>0, OthersRun, AloneStep DEF PortInv, Active, ActivePcs, SalePcs
<1>3. CASE Mint(r)
  <2>1. run'[r].pc = "record" /\ log[1] = 0 /\ run[r].pc = "sale"
    BY <1>0, <1>3, GotoRun DEF Mint, Holds
  <2>2. Len(minted) = 0
    BY <1>0, <1>2, <2>1 DEF Tokens
  <2>3. Len(minted') = 1
    BY <1>0, <1>3, <2>2, AppendRow DEF Mint
  <2>4. log' = log
    BY <1>3 DEF Mint, rows
  <2> QED
    BY <2>1, <2>3, <2>4 DEF Shown, Tokens
<1>4. CASE RecordSale(r)
  <2>1. run'[r].pc = "sold" /\ log[1] = 0 /\ log' = log /\ minted' = minted
    BY <1>0, <1>4 DEF RecordSale, RunStates, Holds
  <2> QED
    BY <1>0, <2>1 DEF Shown, Tokens
<1>5. CASE AppendSold(r)
  <2>1. run'[r].pc = "soldStage" /\ log'[1] # 0 /\ minted' = minted
    BY <1>0, <1>5, GotoRun, Appends, RecordLog DEF AppendSold
  <2> QED
    BY <1>0, <2>1 DEF Shown, Tokens
<1>6. CASE SetSold(r)
  <2>1. stage' = "SOLD" /\ minted' = minted /\ log[1] # 0
    BY <1>0, <1>6 DEF SetSold, LogInv, Knows, SoldPcs
  <2> QED
    BY <1>0, <1>1, <2>1 DEF Shown, Tokens
<1>7. CASE /\ ~Mint(r) /\ ~RecordSale(r) /\ ~AppendSold(r) /\ ~SetSold(r)
  <2>1. /\ run[r].pc \notin {"record", "sold", "soldStage"} /\ minted' = minted
        /\ stage' \in {stage, "SETTLED"} /\ (log'[1] # 0 => log[1] # 0)
    <3>1. CASE AppendCredited(r) \/ AppendSettled(r)
      <4>1. log'[1] = log[1]
        BY <1>0, <3>1, Appends, RecordLog DEF SubSteps
      <4> QED
        BY <3>1, <4>1 DEF AppendCredited, AppendSettled
    <3>2. CASE ~AppendCredited(r) /\ ~AppendSettled(r)
      BY <1>7, <3>2 DEF Step, CheckOwner, ReadItem, ReadAsset, ReadEvents, ResumeSale,
         SkipPayout, CreditPayout, Promote, ProjectRoot, SetSettled, rows
    <3> QED
      BY <3>1, <3>2
  <2> QED
    BY <1>0, <1>1, <1>2, <2>1 DEF Shown, Tokens
<1> QED
  BY <1>3, <1>4, <1>5, <1>6, <1>7

LEMMA NextPortInv ==
  ASSUME PortInv, Overlap = FALSE, FaultKinds \subseteq {"port"}, [Next]_vars
  PROVE  PortInv'
<1>1. SaleInv' /\ SaleInv /\ LogInv /\ Grows
  BY NextSaleInv, NextGrows DEF PortInv, SaleInv
<1>2. ASSUME NEW r \in Sessions, run'[r] = run[r],
             ~Active(r) \/ UNCHANGED <<log, sales>>
      PROVE  Mine(r)'
  <2>1. log[1] \in 0..Len(sales) /\ Len(sales) \in Nat
    BY <1>1, LogNames DEF LogInv, TypeOK
  <2>2. \A i \in 1..Len(sales) : sales'[i] = sales[i]
    BY <1>1, RowsStay
  <2>3. CASE UNCHANGED <<log, sales>>
    BY <1>2, <2>3 DEF PortInv, Mine
  <2>4. CASE ~Active(r)
    BY <1>1, <1>2, <2>1, <2>2, <2>4
       DEF PortInv, Mine, Grows, SubSteps, Active, ActivePcs, CheckPcs, SalePcs, SoldPcs
  <2> QED
    BY <1>2, <2>3, <2>4
<1>3. ASSUME NEW r \in Sessions, Step(r) \/ Fault(r) \/ \E b \in Buyers : Visit(r, b)
      PROVE  PortInv'
  <2>1. Mine(r)'
    BY <1>1, <1>3, MineStep, MineFault, MineVisit
  <2>2. \A q \in Sessions : q # r => Mine(q)'
    BY <1>1, <1>2, <1>3, OthersRun, AloneStep
  <2>3. Shown' /\ Tokens'
    <3>1. CASE Step(r)
      BY <1>1, <3>1, ShownStep
    <3>2. CASE Fault(r) \/ \E b \in Buyers : Visit(r, b)
      <4>1. /\ UNCHANGED <<log, stage, minted>>
            /\ run[r].pc \notin {"record", "sold", "soldStage"}
        BY <3>2, MineFault DEF Visit, CanBuy, rows, EndPcs
      <4>2. \A q \in Sessions : q # r => run'[q] = run[q]
        BY <1>1, <3>2, OthersRun
      <4> QED
        BY <4>1, <4>2 DEF PortInv, Shown, Tokens
    <3> QED
      BY <1>3, <3>1, <3>2
  <2> QED
    BY <1>1, <2>1, <2>2, <2>3 DEF PortInv
<1>4. CASE Withdraw \/ UNCHANGED vars
  <2>1. UNCHANGED <<log, stage, sales, minted, run>>
    BY <1>4 DEF Withdraw, vars, rows
  <2> QED
    BY <1>1, <1>2, <2>1 DEF PortInv, Shown, Tokens
<1> QED
  BY <1>3, <1>4 DEF Next

\* When only calls fail and purchases take turns, retries never mint a second
\* token, and the purchase ends with the buyer it was sold to.
THEOREM FailedCallsResume ==
  ASSUME Overlap = FALSE, FaultKinds \subseteq {"port"}
  PROVE  Spec => [](MintsOnce /\ ResumedByBuyer)
<1>1. Init => PortInv
  BY InitPortInv
<1>2. PortInv /\ [Next]_vars => PortInv'
  BY NextPortInv
<1>3. PortInv => MintsOnce /\ ResumedByBuyer
  <2> SUFFICES ASSUME PortInv PROVE MintsOnce /\ ResumedByBuyer
    OBVIOUS
  <2>1. MintsOnce
    <3>1. Len(minted) = 0 \/ Len(minted) = 1
      BY DEF PortInv, Tokens
    <3>2. CASE Len(minted) = 0
      BY <3>2 DEF MintsOnce
    <3>3. CASE Len(minted) = 1
      BY <3>3 DEF MintsOnce
    <3> QED
      BY <3>1, <3>2, <3>3
  <2>2. ResumedByBuyer
    BY DEF PortInv, SaleInv, SalesAgree, Mine, ResumedByBuyer
  <2> QED
    BY <2>1, <2>2
<1> QED
  BY <1>1, <1>2, <1>3, PTL DEF Spec

-----------------------------------------------------------------------------
(* Tokens.  A token minted is accounted for by the SOLD event, by the one  *)
(* purchase between the mint and the event, or by a fault that ended one.  *)

HandPcs == {"record", "sold"}

\* The active purchase is the only one that may hold an unrecorded token.
LEMMA OneInHand ==
  ASSUME SaleInv, Overlap = FALSE, NEW r \in Sessions,
         Step(r) \/ Fault(r) \/ \E b \in Buyers : Visit(r, b)
  PROVE  /\ InHand # {} <=> run[r].pc \in HandPcs
         /\ InHand' # {} <=> run'[r].pc \in HandPcs
<1>1. \A q \in Sessions : q # r => ~Active(q) /\ ~Active(q)'
  BY AloneStep
<1>2. HandPcs \subseteq ActivePcs
  BY DEF HandPcs, ActivePcs, SalePcs
<1>3. InHand \subseteq {r} /\ InHand' \subseteq {r}
  BY <1>1, <1>2 DEF InHand, HandPcs, Active
<1>4. r \in InHand <=> run[r].pc \in HandPcs
  BY DEF InHand, HandPcs
<1>5. r \in InHand' <=> run'[r].pc \in HandPcs
  BY DEF InHand, HandPcs
<1> QED
  BY <1>3, <1>4, <1>5

\* The bound, case by case.
LEMMA BoundCases ==
  ASSUME NEW n \in Nat, NEW f \in Nat, NEW covered \in BOOLEAN
  PROVE  n <= f + (IF covered THEN 1 ELSE 0) <=> n <= f + 1 /\ (~covered => n <= f)
<1>1. CASE covered
  BY <1>1
<1>2. CASE ~covered
  BY <1>2
<1> QED
  BY <1>1, <1>2

LEMMA NextTokens ==
  ASSUME SaleInv, Overlap = FALSE, TokensBounded, [Next]_vars
  PROVE  TokensBounded'
<1> DEFINE covered  == log[1] # 0 \/ InHand # {}
           covered2 == log'[1] # 0 \/ InHand' # {}
<1>0. LogInv /\ TypeOK /\ TypeOK' /\ Grows
  BY NextSaleInv, NextGrows DEF SaleInv, LogInv
<1>1. PICK n \in Nat, n2 \in Nat, f \in Nat, f2 \in Nat :
        /\ n = Len(minted) /\ n2 = Len(minted') /\ f = faults /\ f2 = faults'
  BY <1>0 DEF TypeOK
<1>2. n <= f + 1 /\ (~covered => n <= f)
  <2>1. n <= f + (IF covered THEN 1 ELSE 0)
    BY <1>1 DEF TokensBounded
  <2> QED
    BY <2>1, BoundCases
<1>3. ASSUME n2 <= f2 + 1, ~covered2 => n2 <= f2
      PROVE  TokensBounded'
  <2>1. n2 <= f2 + (IF covered2 THEN 1 ELSE 0)
    BY <1>3, BoundCases
  <2> QED
    BY <1>1, <2>1 DEF TokensBounded
<1>4. log[1] # 0 => log'[1] # 0
  BY <1>0 DEF Grows, SubSteps
<1>5. ASSUME NEW r \in Sessions, Step(r) \/ Fault(r) \/ \E b \in Buyers : Visit(r, b)
      PROVE  TokensBounded'
  <2>1. /\ InHand # {} <=> run[r].pc \in HandPcs
        /\ InHand' # {} <=> run'[r].pc \in HandPcs
    BY <1>5, OneInHand
  <2>2. Knows(r) /\ Holds(r)
    BY DEF SaleInv, LogInv
  <2>3. CASE Mint(r)
    <3>1. minted' = Append(minted, run[r].buyer) /\ faults' = faults /\ run[r].pc = "sale"
      BY <2>3 DEF Mint
    <3>2. ~covered
      BY <2>1, <2>2, <2>3, <3>1 DEF Mint, Holds, HandPcs
    <3>3. run'[r].pc = "record"
      BY <1>0, <2>3, GotoRun DEF Mint
    <3>4. Len(minted') = Len(minted) + 1
      BY <1>0, <3>1, Fields DEF TypeOK, RunStates
    <3>5. n2 = n + 1 /\ f2 = f
      BY <1>1, <3>1, <3>4
    <3>6. n2 <= f2 + 1
      BY <1>2, <3>2, <3>5
    <3>7. covered2
      BY <2>1, <3>3 DEF HandPcs
    <3> HIDE DEF covered, covered2
    <3> QED
      BY <1>3, <3>6, <3>7
  <2>4. CASE RecordSale(r)
    <3>1. minted' = minted /\ faults' = faults
      BY <2>4 DEF RecordSale
    <3>2. run'[r].pc = "sold"
      <4> DEFINE q == [run[r] EXCEPT !.sale = Len(sales) + 1, !.pc = "sold"]
      <4>1. q.pc = "sold"
        BY <1>0, Fields DEF RunStates
      <4>2. run' = [run EXCEPT ![r] = q]
        BY <2>4 DEF RecordSale
      <4> HIDE DEF q
      <4> QED
        BY <1>0, <4>1, <4>2 DEF TypeOK
    <3>3. n2 <= f2 + 1 /\ covered2
      BY <1>1, <1>2, <2>1, <3>1, <3>2 DEF HandPcs
    <3> HIDE DEF covered, covered2
    <3> QED
      BY <1>3, <3>3
  <2>5. CASE AppendSold(r)
    <3>1. minted' = minted /\ faults' = faults
      BY <2>5 DEF AppendSold
    <3>2. log'[1] # 0
      <4>1. run[r].sale # 0 /\ log \in [SubSteps -> Nat] /\ 1 \in SubSteps
        BY <1>0, <2>2, <2>5 DEF AppendSold, Knows, TypeOK, SubSteps
      <4> QED
        BY <2>5, <4>1 DEF AppendSold, Record
    <3>3. n2 <= f2 + 1 /\ covered2
      BY <1>1, <1>2, <3>1, <3>2
    <3> HIDE DEF covered, covered2
    <3> QED
      BY <1>3, <3>3
  <2>6. CASE Fault(r)
    <3>1. minted' = minted /\ faults' = faults + 1
      BY <2>6 DEF Fault
    <3>2. n2 = n /\ f2 = f + 1
      BY <1>1, <3>1
    <3>3. n2 <= f2 /\ n2 <= f2 + 1
      BY <1>2, <3>2
    <3> HIDE DEF covered, covered2
    <3> QED
      BY <1>3, <3>3
  <2>7. CASE /\ ~Mint(r) /\ ~RecordSale(r) /\ ~AppendSold(r) /\ ~Fault(r)
    <3>1. minted' = minted /\ faults' = faults /\ run[r].pc \notin HandPcs
      BY <1>5, <2>7 DEF Step, CheckOwner, ReadItem, ReadAsset, ReadEvents, ResumeSale,
         AppendCredited, AppendSettled, SetSold, SkipPayout, CreditPayout, Promote,
         ProjectRoot, SetSettled, Visit, CanBuy, EndPcs, HandPcs
    <3>2. n2 = n /\ f2 = f
      BY <1>1, <3>1
    <3>3. covered => covered2
      BY <1>4, <2>1, <3>1
    <3> HIDE DEF covered, covered2
    <3> QED
      BY <1>2, <1>3, <3>2, <3>3
  <2> QED
    BY <2>3, <2>4, <2>5, <2>6, <2>7
<1>6. CASE Withdraw \/ UNCHANGED vars
  <2>1. UNCHANGED <<log, minted, run, faults>>
    BY <1>6 DEF Withdraw, vars, rows
  <2> QED
    BY <2>1 DEF TokensBounded, InHand
<1> QED
  BY <1>5, <1>6 DEF Next

\* While purchases take turns, whatever fails, each fault costs at most one
\* license token that no sale accounts for.
THEOREM TokensAreFaults ==
  ASSUME Overlap = FALSE
  PROVE  Spec => []TokensBounded
<1>1. Init => SaleInv /\ TokensBounded
  <2>1. ASSUME Init PROVE TokensBounded
    <3>1. Len(minted) = 0 /\ faults = 0
      BY <2>1 DEF Init
    <3> QED
      BY <3>1 DEF TokensBounded
  <2> QED
    BY <2>1, InitSaleInv
<1>2. SaleInv /\ TokensBounded /\ [Next]_vars => (SaleInv /\ TokensBounded)'
  BY NextSaleInv, NextTokens
<1> QED
  BY <1>1, <1>2, PTL DEF Spec

-----------------------------------------------------------------------------
(* A withdrawal, under every interleaving.                                 *)

\* Nobody who has still to look at the listing gets past it any more.
LEMMA QuietNext ==
  ASSUME LogInv, [Next]_vars, Quiet
  PROVE  Quiet'
<1> DEFINE Calm == {"idle"} \cup CheckPcs \cup EndPcs
<1>1. ASSUME NEW r \in Sessions, Step(r)
      PROVE  withdrawn' /\ run'[r].pc \in Calm
  <2>1. run[r].pc \in Calm /\ withdrawn
    BY DEF Quiet
  <2>2. CheckOwner(r) \/ ReadItem(r)
    BY <1>1, <2>1 DEF Step, ReadAsset, ReadEvents, ResumeSale, Mint, RecordSale, AppendSold,
       AppendCredited, AppendSettled, SetSold, SkipPayout, CreditPayout, Promote,
       ProjectRoot, SetSettled, CheckPcs, EndPcs
  <2>3. withdrawn' = withdrawn
    BY <2>2 DEF CheckOwner, ReadItem
  <2>4. run'[r].pc \in {"item", "refused"}
    BY <2>1, <2>2, GotoRun DEF CheckOwner, ReadItem, Offered
  <2> QED
    BY <2>1, <2>3, <2>4 DEF CheckPcs, EndPcs
<1>2. ASSUME NEW r \in Sessions, Fault(r)
      PROVE  withdrawn' /\ run'[r].pc \in Calm
  BY <1>2, GotoRun DEF Fault, Quiet, EndPcs
<1>3. ASSUME NEW r \in Sessions, NEW b \in Buyers, Visit(r, b)
      PROVE  withdrawn' /\ run'[r].pc \in Calm
  <2>1. Readiness = "refused"
    BY DEF Readiness, Offered, Quiet
  <2>2. run' = [run EXCEPT ![r] = [pc |-> "refused", buyer |-> b, root |-> 0,
                                  done |-> {}, sale |-> 0, payout |-> 0]]
    BY <1>3, <2>1 DEF Visit
  <2>3. run'[r].pc = "refused" /\ withdrawn' = withdrawn
    BY <1>3, <2>2 DEF Visit, LogInv, TypeOK
  <2> QED
    BY <2>3 DEF Quiet, EndPcs
<1>4. ASSUME NEW r \in Sessions, Step(r) \/ Fault(r) \/ \E b \in Buyers : Visit(r, b)
      PROVE  Quiet'
  <2>1. withdrawn' /\ run'[r].pc \in Calm
    BY <1>1, <1>2, <1>3, <1>4
  <2>2. \A q \in Sessions : q # r => run'[q] = run[q]
    BY <1>4, OthersRun
  <2> QED
    BY <2>1, <2>2 DEF Quiet
<1>5. CASE Withdraw \/ UNCHANGED vars
  BY <1>5 DEF Withdraw, Quiet, vars
<1> QED
  BY <1>4, <1>5 DEF Next

\* Once an asset is withdrawn and no purchase is past its last look at the
\* listing, none ever will be, however many sessions visit it.
THEOREM WithdrawalHolds == Spec => WithdrawnIsFinal
<1>1. LogInv /\ [Next]_vars => [Quiet => Quiet']_vars
  BY QuietNext
<1> QED
  BY <1>1, LogInvariant, PTL DEF Spec, WithdrawnIsFinal
=============================================================================
