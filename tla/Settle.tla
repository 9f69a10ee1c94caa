------------------------------- MODULE Settle -------------------------------
(***************************************************************************)
(* Stage 5 for one listed asset, as the catalog triggers it: purchaseAsset *)
(* reads the listing, the stage and the latest sale, reads the listing a   *)
(* second time and runs the settle handler, which performs                 *)
(*    1 = sale    mint a license token, insert the sale row, event SOLD    *)
(*    2 = payout  insert the payout row, update the metadata at Trace,     *)
(*                event PAYOUT_CREDITED, chain columns of the asset row    *)
(*    3 = settle  event SETTLED                                            *)
(* every statement and every call on its own, while the creator may        *)
(* withdraw the listing.  Sale and payout rows are numbered from 1 in the  *)
(* order they were inserted; 0 is null, or no event.                       *)
(*                                                                         *)
(* The handler's catch block writes nothing, so a failed statement, a      *)
(* failed call and a stopped process all do the same: the purchase ends    *)
(* where it was.  A lost reply is a fault just after the call.             *)
(***************************************************************************)
EXTENDS Naturals, Sequences

CONSTANTS
  Sessions,    \* browser sessions; each makes one purchase attempt at a time
  Buyers,      \* eligible buyers: not the creator, with a wallet address
  Overlap,     \* may a purchase start while another one is active?
  FaultKinds,  \* "port": a call fails, "reply": its reply is lost,
               \* "stop": a statement fails or the process stops
  Takedown,    \* may the creator withdraw the asset?
  MaxFaults,   \* bound on faults
  MaxPayouts   \* bound on payout rows

AllFaultKinds == {"port", "reply", "stop"}

ASSUME SettleAssumption ==
  /\ Overlap \in BOOLEAN
  /\ Takedown \in BOOLEAN
  /\ FaultKinds \subseteq AllFaultKinds
  /\ MaxFaults \in Nat
  /\ MaxPayouts \in Nat

VARIABLES
  log,        \* log[1], log[3]: sale the event names; log[2]: payout it names
  stage,      \* asset.stage
  root,       \* asset.trace_metadata_root: payout it was promoted with; 0 at 3b
  withdrawn,  \* listing withdrawn and TAKEDOWN in the log (one transaction)
  sales,      \* sale rows: the buyer of each
  payouts,    \* payout rows: the sale of each
  minted,     \* license tokens: the buyer who received each
  trace,      \* update 1 of this data id: the payout its document carries
  run,        \* local state of each session's purchase
  faults

rows == <<log, stage, root, sales, payouts>>
vars == <<rows, withdrawn, minted, trace, run, faults>>

SubSteps == 1..3
Stages   == {"LISTED", "SOLD", "SETTLED"}
CheckPcs == {"owner", "item"}
SalePcs  == {"sale", "record", "sold", "soldStage"}
PayPcs   == {"payout", "promote", "credited", "project"}
ActivePcs == CheckPcs \cup {"asset", "events"} \cup SalePcs \cup PayPcs
               \cup {"settle", "settleStage"}
EndPcs   == {"refused", "skipped", "settled", "failed", "conflict"} \* conflict: failed at Trace
Pcs      == {"idle"} \cup ActivePcs \cup EndPcs

RunStates == [pc: Pcs,
              buyer: Buyers,
              root: Nat,                 \* asset.traceMetadataRoot as read
              done: SUBSET SubSteps,     \* alreadyDone
              sale: Nat,                 \* local sale row
              payout: Nat]               \* local payout row, and its document

\* Rows point at rows that exist; everything else has its type.
TypeOK ==
  /\ log \in [SubSteps -> Nat]
  /\ stage \in Stages
  /\ root \in Nat
  /\ withdrawn \in BOOLEAN
  /\ sales \in Seq(Buyers)
  /\ payouts \in Seq(1..Len(sales))
  /\ minted \in Seq(Buyers)
  /\ trace \in 0..Len(payouts)
  /\ run \in [Sessions -> RunStates]
  /\ \A r \in Sessions : run[r].sale <= Len(sales) /\ run[r].payout <= Len(payouts)
  /\ faults \in Nat

Active(r) == run[r].pc \in ActivePcs
Recorded(l) == {s \in SubSteps : l[s] # 0}

Init ==
  /\ log = [s \in SubSteps |-> 0]
  /\ stage = "LISTED"
  /\ root = 0
  /\ withdrawn = FALSE
  /\ sales = <<>>
  /\ payouts = <<>>
  /\ minted = <<>>
  /\ trace = 0
  /\ \E b \in Buyers :
       run = [r \in Sessions |-> [pc |-> "idle", buyer |-> b, root |-> 0,
                                  done |-> {}, sale |-> 0, payout |-> 0]]
  /\ faults = 0

-----------------------------------------------------------------------------
Goto(r, to) == run' = [run EXCEPT ![r].pc = to]

\* Mutant of Offered: the listing status is not part of the query.
OfferedAlways == TRUE

\* getCatalogItem returns the asset only while its listing is active.
Offered == ~withdrawn

\* Mutant of Readiness: SOLD is taken for the end of a purchase.
ReadinessTerminal ==
  CASE ~Offered -> "refused"
    [] stage \in {"SOLD", "SETTLED"} -> "refused"
    [] OTHER -> "item"

Readiness ==
  CASE ~Offered -> "refused"
    [] stage = "SETTLED" -> "refused"
    [] Offered /\ stage = "SOLD" -> "owner"
    [] OTHER -> "item"

\* A tab whose buy button is enabled: its last purchase, if any, has ended.
CanBuy(r) == run[r].pc \in {"idle"} \cup EndPcs

Visit(r, b) ==
  /\ CanBuy(r)
  /\ Overlap \/ \A other \in Sessions : ~Active(other)
  /\ run' = [run EXCEPT ![r] = [pc |-> Readiness, buyer |-> b, root |-> 0,
                                done |-> {}, sale |-> 0, payout |-> 0]]
  /\ UNCHANGED <<rows, withdrawn, minted, trace, faults>>

\* Mutant of Latest: the first sale of the asset instead of the last.
LatestFirst == IF sales = <<>> THEN 0 ELSE 1

Latest == Len(sales)

\* A SOLD asset is a half-finished purchase that only its buyer may resume.
CheckOwner(r) ==
  /\ run[r].pc = "owner"
  /\ LET mine == Latest # 0 /\ sales[Latest] = run[r].buyer
     IN Goto(r, IF mine THEN "item" ELSE "refused")
  /\ UNCHANGED <<rows, withdrawn, minted, trace, faults>>

ReadItem(r) ==
  /\ run[r].pc = "item"
  /\ Goto(r, IF Offered THEN "asset" ELSE "refused")
  /\ UNCHANGED <<rows, withdrawn, minted, trace, faults>>

ReadAsset(r) ==
  /\ run[r].pc = "asset"
  /\ run' = [run EXCEPT ![r] = [@ EXCEPT !.root = root, !.pc = "events"]]
  /\ UNCHANGED <<rows, withdrawn, minted, trace, faults>>

\* Mutant of ReadEvents: the purchase starts over whatever the log holds.
ReadEventsRestart(r) ==
  /\ run[r].pc = "events"
  /\ run' = [run EXCEPT ![r] = [@ EXCEPT !.done = {}, !.pc = "sale"]]
  /\ UNCHANGED <<rows, withdrawn, minted, trace, faults>>

ReadEvents(r) ==
  /\ run[r].pc = "events"
  /\ run' = [run EXCEPT ![r] = [@ EXCEPT !.done = Recorded(log),
                        !.pc = IF log[3] # 0 THEN "skipped" ELSE "sale"]]
  /\ UNCHANGED <<rows, withdrawn, minted, trace, faults>>

-----------------------------------------------------------------------------
(* The sale.                                                               *)

\* getSale, when the sale is in the log already.
ResumeSale(r) ==
  /\ run[r].pc = "sale"
  /\ 1 \in run[r].done
  /\ run' = [run EXCEPT ![r] = [@ EXCEPT !.sale = Latest,
                        !.pc = IF Latest = 0 THEN "failed" ELSE "payout"]]
  /\ UNCHANGED <<rows, withdrawn, minted, trace, faults>>

\* Live fee read, then the mint to the buyer's wallet.
Mint(r) ==
  /\ run[r].pc = "sale"
  /\ 1 \notin run[r].done
  /\ minted' = Append(minted, run[r].buyer)
  /\ Goto(r, "record")
  /\ UNCHANGED <<rows, withdrawn, trace, faults>>

RecordSale(r) ==
  /\ run[r].pc = "record"
  /\ sales' = Append(sales, run[r].buyer)
  /\ run' = [run EXCEPT ![r] = [@ EXCEPT !.sale = Len(sales) + 1, !.pc = "sold"]]
  /\ UNCHANGED <<log, stage, root, payouts, withdrawn, minted, trace, faults>>

\* appendEvent: a sub-step already in the log is not recorded again.
Record(s, value) == log' = IF log[s] = 0 THEN [log EXCEPT ![s] = value] ELSE log

\* Mutant of AppendSold: the key carries the sale, and the last one wins.
AppendSoldAgain(r) ==
  /\ run[r].pc = "sold"
  /\ log' = [log EXCEPT ![1] = run[r].sale]
  /\ Goto(r, "soldStage")
  /\ UNCHANGED <<stage, root, sales, payouts, withdrawn, minted, trace, faults>>

AppendSold(r) ==
  /\ run[r].pc = "sold"
  /\ Record(1, run[r].sale)
  /\ Goto(r, "soldStage")
  /\ UNCHANGED <<stage, root, sales, payouts, withdrawn, minted, trace, faults>>

SetSold(r) ==
  /\ run[r].pc = "soldStage"
  /\ stage' = "SOLD"
  /\ Goto(r, "payout")
  /\ UNCHANGED <<log, root, sales, payouts, withdrawn, minted, trace, faults>>

-----------------------------------------------------------------------------
(* The payout.  Its document carries the time of this attempt, so no two   *)
(* payout rows ever give the same document.                                *)

SkipPayout(r) ==
  /\ run[r].pc = "payout"
  /\ 2 \in run[r].done
  /\ Goto(r, "settle")
  /\ UNCHANGED <<rows, withdrawn, minted, trace, faults>>

CreditPayout(r) ==
  /\ run[r].pc = "payout"
  /\ 2 \notin run[r].done
  /\ Len(payouts) < MaxPayouts
  /\ payouts' = Append(payouts, run[r].sale)
  /\ run' = [run EXCEPT ![r] = [@ EXCEPT !.payout = Len(payouts) + 1, !.pc = "promote"]]
  /\ UNCHANGED <<log, stage, root, sales, withdrawn, minted, trace, faults>>

\* Mutant of Promote: the status of the answer is not looked at.
PromoteUnchecked(r) ==
  /\ run[r].pc = "promote"
  /\ trace' = IF trace = 0 THEN run[r].payout ELSE trace
  /\ Goto(r, "credited")
  /\ UNCHANGED <<rows, withdrawn, minted, faults>>

\* updateMetadata: Trace accepts the first document for a sequence number and
\* answers conflict to another one.  A root read after a promotion would make
\* this the second update; see NeverSecondUpdate.
Promote(r) ==
  /\ run[r].pc = "promote"
  /\ run[r].root = 0
  /\ IF trace = 0
     THEN trace' = run[r].payout /\ Goto(r, "credited")
     ELSE UNCHANGED trace /\ Goto(r, "conflict")
  /\ UNCHANGED <<rows, withdrawn, minted, faults>>

\* The key of PAYOUT_CREDITED names the sale, and its trace_seq is unique:
\* a second event for another sale is refused.
AppendCredited(r) ==
  /\ run[r].pc = "credited"
  /\ Record(2, run[r].payout)
  /\ Goto(r, IF log[2] # 0 /\ payouts[log[2]] # run[r].sale THEN "failed" ELSE "project")
  /\ UNCHANGED <<stage, root, sales, payouts, withdrawn, minted, trace, faults>>

ProjectRoot(r) ==
  /\ run[r].pc = "project"
  /\ root' = run[r].payout
  /\ Goto(r, "settle")
  /\ UNCHANGED <<log, stage, sales, payouts, withdrawn, minted, trace, faults>>

AppendSettled(r) ==
  /\ run[r].pc = "settle"
  /\ Record(3, run[r].sale)
  /\ Goto(r, "settleStage")
  /\ UNCHANGED <<stage, root, sales, payouts, withdrawn, minted, trace, faults>>

SetSettled(r) ==
  /\ run[r].pc = "settleStage"
  /\ stage' = "SETTLED"
  /\ Goto(r, "settled")
  /\ UNCHANGED <<log, root, sales, payouts, withdrawn, minted, trace, faults>>

-----------------------------------------------------------------------------
\* What a fault at this point is: a call that fails, a call whose reply is
\* lost, or anything else.
Kind(r) ==
  CASE run[r].pc = "promote" -> "port"
    [] run[r].pc = "sale" /\ 1 \notin run[r].done -> "port"
    [] run[r].pc \in {"record", "credited"} -> "reply"
    [] OTHER -> "stop"

Fault(r) ==
  /\ Active(r)
  /\ faults < MaxFaults
  /\ Kind(r) \in FaultKinds
  /\ faults' = faults + 1
  /\ Goto(r, "failed")
  /\ UNCHANGED <<rows, withdrawn, minted, trace>>

\* withdrawAsset: listing and event in one transaction.
Withdraw ==
  /\ Takedown
  /\ ~withdrawn
  /\ withdrawn' = TRUE
  /\ UNCHANGED <<rows, minted, trace, run, faults>>

Step(r) ==
  \/ CheckOwner(r) \/ ReadItem(r) \/ ReadAsset(r) \/ ReadEvents(r)
  \/ ResumeSale(r) \/ Mint(r) \/ RecordSale(r) \/ AppendSold(r) \/ SetSold(r)
  \/ SkipPayout(r) \/ CreditPayout(r) \/ Promote(r) \/ AppendCredited(r)
  \/ ProjectRoot(r) \/ AppendSettled(r) \/ SetSettled(r)

Next ==
  \/ \E r \in Sessions : Step(r) \/ Fault(r) \/ \E b \in Buyers : Visit(r, b)
  \/ Withdraw

Spec == Init /\ [][Next]_vars

\* The runtime drives every purchase on, and a buyer who wants the asset
\* tries again and again and gets a turn among the others.
FairSpec ==
  /\ Spec
  /\ \A r \in Sessions : WF_vars(Step(r))
  /\ \A b \in Buyers : SF_vars(\E r \in Sessions : Visit(r, b))
-----------------------------------------------------------------------------
(* Properties.                                                             *)

L == INSTANCE Ledger WITH Depth <- 3, entry <- log

\* SOLD, PAYOUT_CREDITED and SETTLED are recorded once each, in this order,
\* and never changed, whichever purchases interleave and wherever they fail.
LedgerRefined == L!Spec

\* "Only after that succeeds is the promoted event appended": Trace holds the
\* very document the PAYOUT_CREDITED event names.
PromotedFirst == log[2] # 0 => trace = log[2]

\* The chain the next update would extend is the one the log promoted.
ChainFollows == root \in {0, log[2]}

\* A purchase that still has to pay has read the root of the registration:
\* no asset ever needs a second metadata update.
NeverSecondUpdate == \A r \in Sessions : run[r].pc = "promote" => run[r].root = 0

\* The three events are about one sale: what was sold is paid, what was paid
\* is settled.
SalesAgree ==
  /\ log[2] # 0 => payouts[log[2]] = log[1]
  /\ log[3] # 0 => log[3] = log[1]

\* A retry resumes: no license token is minted twice.
MintsOnce == Len(minted) <= 1

InHand == {r \in Sessions : run[r].pc \in {"record", "sold"}}
\* Tokens no SOLD event and no purchase in progress accounts for: at most one
\* for each fault.
TokensBounded ==
  Len(minted) <= faults + (IF log[1] # 0 \/ InHand # {} THEN 1 ELSE 0)

\* Whoever is told that the purchase is settled is the buyer it was sold to.
ResumedByBuyer ==
  \A r \in Sessions : run[r].pc = "settled" => sales[log[3]] = run[r].buyer

\* After a withdrawal no purchase starts: once none is past its last look at
\* the listing, none ever will be.
Quiet == withdrawn /\ \A r \in Sessions : run[r].pc \in {"idle"} \cup CheckPcs \cup EndPcs
WithdrawnIsFinal == [][Quiet => Quiet']_vars

\* Trace took a promotion that the log does not have.
Unrecorded == trace # 0 /\ log[2] = 0

\* A sale on record is paid and settled as long as buyers try again, whatever
\* failed or stopped before, with one exception: between the promotion and its
\* event a lost reply leaves Trace with a document no retry can send again.
EventuallySettled ==
  (log[1] # 0) ~> [](Recorded(log) = SubSteps \/ Unrecorded)

\* One payout row for one sale.
CreditedOnce == \A i, j \in DOMAIN payouts : payouts[i] = payouts[j] => i = j

\* A purchase that finds the asset settled leaves it showing so.
SkippedIsSettled == \A r \in Sessions : run[r].pc = "skipped" => stage = "SETTLED"

=============================================================================
