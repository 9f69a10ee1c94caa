-------------------------------- MODULE Spine --------------------------------
(***************************************************************************)
(* The life of one asset from the tray to settlement, as the handlers that *)
(* share its row see it: the whole pipeline driven by the operator         *)
(* (runPipeline), registration started from the dashboard, purchases       *)
(* started from the catalogue, the creator's license choice and withdrawal *)
(* and the pages that offer them.  Any of them may overlap, be repeated    *)
(* after it finished, and stop between two statements.                     *)
(*                                                                         *)
(* Stages 3 and 5 appear with their events, the columns a later step reads *)
(* and the two calls whose repetition Trace may refuse; Register and       *)
(* Settle hold the other calls, the artefacts and the sale rows.  The      *)
(* reads at the head of a handler are one action here.                     *)
(***************************************************************************)
EXTENDS Naturals, FiniteSets

CONSTANTS
  Runs,       \* invocations of handlers that may be active at a time
  Presets,    \* license presets
  Proposed,   \* the preset the operator's script proposes
  NoPreset,   \* none of them
  Overlap,    \* may a run start while another one is active?
  MaxFaults,  \* bound on failed statements, failed calls and stops
  MaxEdits    \* bound on label writes of the creator and of label jobs

ASSUME SpineAssumption ==
  /\ Proposed \in Presets
  /\ NoPreset \notin Presets
  /\ Overlap \in BOOLEAN
  /\ MaxFaults \in Nat
  /\ MaxEdits \in Nat

VARIABLES
  log,      \* asset_event: the kinds of event recorded
  stage,    \* asset.stage
  label,    \* the wtr:license_preset label
  labels,   \* version of the asset's other labels
  columns,  \* what 3a, 3b and 3c found and wrote into the row: media vault,
            \* data id, ipId with license terms
  listing,  \* listing[p]: status of the row (asset, p)
  traced,   \* document Trace holds for this asset ({} before any)
  promoted, \* has Trace accepted the update that promotes the payment?
  run,      \* local state of each invocation
  editing,  \* a license choice passed its stage check and is not written yet
  edits,
  faults

rows  == <<log, stage, label, labels, columns, listing>>
trace == <<traced, promoted>>
vars  == <<rows, trace, run, editing, edits, faults>>

\* The events of the five stages; the sub-steps 3a to 3d have one each.
SubSteps == {"MEDIA", "TRACE", "IP", "VAULT"}
Kinds == {"INGESTED", "LABELED"} \cup SubSteps
           \cup {"LISTED", "SOLD", "CREDITED", "SETTLED", "TAKEDOWN"}

Stages == {"IN_TRAY", "LABELED", "REGISTERED", "LISTED", "SOLD", "SETTLED", "FAILED_REGISTER"}
Editable == {"IN_TRAY", "LABELED"}
TriggerStages == Editable \cup {"FAILED_REGISTER"}
OnSale == {"LISTED", "SOLD", "SETTLED"}

\* A run reads the log (Reads), appends an event (the domain of EventAt), keeps
\* a column (of ColumnAt), sets the stage (of StageAt), or is in one of the
\* other statements; "send" and "promote" are calls of Trace.
Reads == {"ingest", "label", "register", "list", "settle"}

EventAt == [ingested |-> "INGESTED", labeled |-> "LABELED", media |-> "MEDIA",
            trace |-> "TRACE", ip |-> "IP", vault |-> "VAULT", listed |-> "LISTED",
            sold |-> "SOLD", credited |-> "CREDITED", settled |-> "SETTLED"]

ColumnAt == [keepMedia |-> "MEDIA", keepTrace |-> "TRACE", keepIp |-> "IP"]
Columns  == {"MEDIA", "TRACE", "IP"}

StageAt == [inTray |-> "IN_TRAY", setLabeled |-> "LABELED", setRegistered |-> "REGISTERED",
            reRegistered |-> "REGISTERED", setListed |-> "LISTED", setSold |-> "SOLD",
            setSettled |-> "SETTLED", setFailed |-> "FAILED_REGISTER"]

Pcs == {"idle", "putLabels", "send", "promote", "find", "create"}
         \cup Reads \cup DOMAIN EventAt \cup DOMAIN ColumnAt \cup DOMAIN StageAt

Jobs == {"none", "pipeline", "dashboard", "purchase"}

\* The preset is the label as stage 3 or 4 read it; done are the sub-steps
\* skipped or performed, have the columns at hand.
RunStates == [pc: Pcs, job: Jobs, preset: Presets \cup {NoPreset},
              done: SUBSET SubSteps, have: SUBSET Columns]

Idle == [pc |-> "idle", job |-> "none", preset |-> NoPreset, done |-> {}, have |-> {}]

Documents == [preset: Presets \cup {NoPreset}, license: Presets, labels: Nat]

\* Every variable has its type.
TypeOK ==
  /\ log \subseteq Kinds
  /\ stage \in Stages
  /\ label \in Presets
  /\ labels \in Nat
  /\ columns \subseteq Columns
  /\ listing \in [Presets -> {"none", "active", "withdrawn"}]
  /\ traced \subseteq Documents
  /\ promoted \in BOOLEAN
  /\ run \in [Runs -> RunStates]
  /\ editing \in BOOLEAN
  /\ edits \in Nat
  /\ faults \in Nat

\* Uploaded from a browser the asset is ingested already; seeded by the
\* operator's script it is not.
Init ==
  /\ log \in {{}, {"INGESTED"}}
  /\ stage = "IN_TRAY"
  /\ label \in Presets
  /\ labels = 0
  /\ columns = {}
  /\ listing = [p \in Presets |-> "none"]
  /\ traced = {}
  /\ promoted = FALSE
  /\ run = [r \in Runs |-> Idle]
  /\ editing = FALSE
  /\ edits = 0
  /\ faults = 0

-----------------------------------------------------------------------------
\* What the pages read.

Has(e) == e \in log

OnOffer == \E p \in Presets : listing[p] = "active"

\* The catalogue and its count in the navigation: active rows of assets on sale.
Catalogue == {p \in Presets : listing[p] = "active" /\ stage \in OnSale}

\* The item page needs an active row only; its buy card asks purchaseReadiness.
Buyable == OnOffer /\ stage # "SETTLED"

\* The asset page's pickers.
OfferEdit == stage \in Editable

\* The assets the bulk editor lists: one license choice for all of them.
OfferBulk == stage \in Editable

OfferWithdraw == ~Has("TAKEDOWN") /\ ~OfferEdit

-----------------------------------------------------------------------------
\* Starting a run.

Free == Overlap \/ \A r \in Runs : run[r].pc = "idle"

Start(r, job, pc) ==
  /\ run[r].pc = "idle"
  /\ Free
  /\ run' = [run EXCEPT ![r] = [Idle EXCEPT !.pc = pc, !.job = job]]
  /\ UNCHANGED <<rows, trace, editing, edits, faults>>

\* The operator's script: all five stages, as often as it is started.
Launch(r) == Start(r, "pipeline", "ingest")

\* registerAsset: stages 1 to 3, if the asset is not registered yet.
Press(r) == stage \in TriggerStages /\ Start(r, "dashboard", "ingest")

\* purchaseAsset: stage 5, if the item is offered and not settled.
Buy(r) == Buyable /\ Start(r, "purchase", "settle")

-----------------------------------------------------------------------------
\* The handlers.

\* Run r goes on with local state l, or ends.
Become(r, l) == run' = [run EXCEPT ![r] = IF l.pc = "idle" THEN Idle ELSE l]
Goto(r, pc)  == Become(r, [run[r] EXCEPT !.pc = pc])

\* The reads at the head of a handler, which remembers the preset, the done
\* sub-steps and the columns it needs.
Read(r, at, pc, preset, done, have) ==
  /\ run[r].pc = at
  /\ Become(r, [pc |-> pc, job |-> run[r].job, preset |-> preset, done |-> done, have |-> have])
  /\ UNCHANGED <<rows, trace, editing, edits, faults>>

Look(r, at, pc) == Read(r, at, pc, NoPreset, {}, {})

\* Mutant of ReadIngest: a repeated stage sets its stage again, as stage 3 does.
ReadIngestAgain(r) == Look(r, "ingest", IF Has("INGESTED") THEN "inTray" ELSE "ingested")

ReadIngest(r) == Look(r, "ingest", IF Has("INGESTED") THEN "label" ELSE "ingested")


\* A stage that finds its predecessor missing fails, and the pipeline stops.
ReadLabel(r) ==
  Look(r, "label", IF Has("LABELED") THEN "register"
                   ELSE IF Has("INGESTED") THEN "putLabels" ELSE "idle")

\* The operator's script proposes a preset; the dashboard proposes nothing.
PutLabels(r) ==
  /\ run[r].pc = "putLabels"
  /\ \/ run[r].job = "pipeline" /\ label' = Proposed
     \/ run[r].job = "dashboard" /\ UNCHANGED label
  /\ Goto(r, "labeled")
  /\ UNCHANGED <<log, stage, labels, columns, listing, trace, editing, edits, faults>>

\* The sub-steps in order; 3d gives up without the media vault or the ipId.
NextSub(done, have) ==
  IF "MEDIA" \notin done THEN "media"
  ELSE IF "TRACE" \notin done THEN "send"
  ELSE IF "IP" \notin done THEN "ip"
  ELSE IF "VAULT" \in done THEN "setRegistered"
  ELSE IF {"MEDIA", "IP"} \subseteq have THEN "vault" ELSE "setFailed"

\* Mutant of ReadRegister: 3d is forgotten when the stage is resumed.
ReadRegisterShort(r) ==
  LET done == log \cap SubSteps IN
  Read(r, "register", IF ~Has("LABELED") THEN "idle"
                      ELSE IF {"MEDIA", "TRACE", "IP"} \subseteq done THEN "reRegistered"
                      ELSE NextSub(done, columns), label, done, columns)

\* Sub-steps found in the log are skipped, what they found is read from the
\* row, and a complete stage only sets the stage.
ReadRegister(r) ==
  LET done == log \cap SubSteps IN
  Read(r, "register", IF ~Has("LABELED") THEN "idle"
                      ELSE IF done = SubSteps THEN "reRegistered"
                      ELSE NextSub(done, columns), label, done, columns)

\* A call that Trace accepted: its reply arrives, or is lost.
Reply(r, pc, lost) ==
  \/ Goto(r, pc) /\ UNCHANGED faults
  \/ faults < MaxFaults /\ faults' = faults + 1 /\ Goto(r, lost)

\* 3b sends the preset this attempt read and all the labels as they are now;
\* Trace takes an equal document as a duplicate and refuses any other.
SendTrace(r) ==
  /\ run[r].pc = "send"
  /\ LET document == [preset |-> run[r].preset, license |-> label, labels |-> labels] IN
     \/ /\ traced \subseteq {document}
        /\ traced' = {document}
        /\ Reply(r, "trace", "setFailed")
     \/ /\ ~(traced \subseteq {document})
        /\ Goto(r, "setFailed")
        /\ UNCHANGED <<traced, faults>>
  /\ UNCHANGED <<rows, promoted, editing, edits>>

\* A sub-step writes what it found into the row, after its event.
Project(r) ==
  /\ run[r].pc \in DOMAIN ColumnAt
  /\ LET k    == ColumnAt[run[r].pc]
         done == run[r].done \cup {k}
         have == run[r].have \cup {k}
     IN /\ columns' = columns \cup {k}
        /\ Become(r, [pc |-> NextSub(done, have), job |-> run[r].job,
                      preset |-> run[r].preset, done |-> done, have |-> have])
  /\ UNCHANGED <<log, stage, label, labels, listing, trace, editing, edits, faults>>

\* Mutant of ReadList: it goes by the stage instead of the log.
ReadListByStage(r) ==
  Look(r, "list", IF stage \in OnSale THEN "settle"
                  ELSE IF Has("VAULT") /\ "IP" \in columns THEN "find" ELSE "idle")

ReadList(r) ==
  Look(r, "list", IF Has("LISTED") THEN "settle"
                  ELSE IF Has("VAULT") /\ "IP" \in columns THEN "find" ELSE "idle")

\* getLabels, then getListing: a row that exists is taken as it is.
FindListing(r) ==
  /\ run[r].pc = "find"
  /\ Become(r, [run[r] EXCEPT !.pc = IF listing[label] = "none" THEN "create" ELSE "listed",
                             !.preset = label])
  /\ UNCHANGED <<rows, trace, editing, edits, faults>>

\* INSERT ... ON CONFLICT DO UPDATE SET updated_at: a row that appeared keeps its status.
CreateListing(r) ==
  /\ run[r].pc = "create"
  /\ listing' = [listing EXCEPT ![run[r].preset] = IF @ = "none" THEN "active" ELSE @]
  /\ Goto(r, "listed")
  /\ UNCHANGED <<log, stage, label, labels, columns, trace, editing, edits, faults>>

ReadSettle(r) ==
  Read(r, "settle", IF Has("SETTLED") \/ ~Has("LISTED") \/ "IP" \notin columns THEN "idle"
                    ELSE IF ~Has("SOLD") THEN "sold"
                    ELSE IF ~Has("CREDITED") THEN "promote" ELSE "settled",
       NoPreset, {}, columns)

\* The payment is promoted to Trace under the data id of the row.  The document
\* carries the time of this attempt, so Trace refuses a second one.
Promote(r) ==
  /\ run[r].pc = "promote"
  /\ \/ /\ "TRACE" \in run[r].have /\ ~promoted
        /\ promoted' = TRUE
        /\ Reply(r, "credited", "idle")
     \/ /\ "TRACE" \notin run[r].have \/ promoted
        /\ Goto(r, "idle")
        /\ UNCHANGED <<promoted, faults>>
  /\ UNCHANGED <<rows, traced, editing, edits>>

\* Where a handler goes on after an append.
AfterEvent(pc) ==
  [ingested |-> "inTray", labeled |-> "setLabeled", media |-> "keepMedia",
   trace |-> "keepTrace", ip |-> "keepIp", vault |-> "setRegistered", listed |-> "setListed",
   sold |-> "setSold", credited |-> "settled", settled |-> "setSettled"][pc]

\* appendEvent: a no-op on a known key.
AppendEvent(r) ==
  /\ run[r].pc \in DOMAIN EventAt
  /\ log' = log \cup {EventAt[run[r].pc]}
  /\ Goto(r, AfterEvent(run[r].pc))
  /\ UNCHANGED <<stage, label, labels, columns, listing, trace, editing, edits, faults>>

\* The next handler of the pipeline, or the next sub-step of this one.
AfterStage(r) ==
  [inTray |-> "label", setLabeled |-> "register",
   setRegistered |-> IF run[r].job = "dashboard" THEN "idle" ELSE "list",
   reRegistered |-> IF run[r].job = "dashboard" THEN "idle" ELSE "list",
   setListed |-> "settle",
   setSold |-> "promote",   \* a log without SOLD has no CREDITED
   setSettled |-> "idle", setFailed |-> "idle"][run[r].pc]

SetStage(r) ==
  /\ run[r].pc \in DOMAIN StageAt
  /\ stage' = StageAt[run[r].pc]
  /\ Goto(r, AfterStage(r))
  /\ UNCHANGED <<log, label, labels, columns, listing, trace, editing, edits, faults>>

\* The statements in the try block of the register handler.
TryPcs == {"media", "send", "trace", "ip", "vault", "setRegistered"} \cup DOMAIN ColumnAt

\* A call or a statement fails: the handler returns failed and the pipeline
\* stops; the register handler sets FAILED_REGISTER first.  Or the process stops.
Fault(r) ==
  /\ run[r].pc # "idle"
  /\ faults < MaxFaults
  /\ faults' = faults + 1
  /\ \/ Goto(r, "idle")
     \/ run[r].pc \in TryPcs /\ Goto(r, "setFailed")
  /\ UNCHANGED <<rows, trace, editing, edits>>

-----------------------------------------------------------------------------
\* The creator.

\* setLicenseChoice and batchApply read the stage in one statement ...
CheckEdit ==
  /\ stage \in Editable /\ ~editing /\ edits < MaxEdits
  /\ editing' = TRUE
  /\ UNCHANGED <<rows, trace, run, edits, faults>>

\* ... and write the label in another.
WriteEdit ==
  /\ editing
  /\ label' \in Presets
  /\ editing' = FALSE
  /\ edits' = edits + 1
  /\ UNCHANGED <<log, stage, labels, columns, listing, trace, run, faults>>

\* A label job inserts what it found whatever the stage.
LabelJob ==
  /\ edits < MaxEdits
  /\ labels' = labels + 1
  /\ edits' = edits + 1
  /\ UNCHANGED <<log, stage, label, columns, listing, trace, run, editing, faults>>

\* withdrawAsset, one transaction; it does not look at the stage.
Withdraw ==
  /\ ~Has("TAKEDOWN")
  /\ log' = log \cup {"TAKEDOWN"}
  /\ listing' = [p \in Presets |-> IF listing[p] = "active" THEN "withdrawn" ELSE listing[p]]
  /\ UNCHANGED <<stage, label, labels, columns, trace, run, editing, edits, faults>>

-----------------------------------------------------------------------------
Step(r) ==
  \/ ReadIngest(r) \/ ReadLabel(r) \/ ReadRegister(r) \/ ReadList(r) \/ ReadSettle(r)
  \/ PutLabels(r) \/ SendTrace(r) \/ Project(r) \/ FindListing(r) \/ CreateListing(r)
  \/ Promote(r)
  \/ AppendEvent(r) \/ SetStage(r)

Next ==
  \/ \E r \in Runs : Launch(r) \/ Press(r) \/ Buy(r) \/ Step(r) \/ Fault(r)
  \/ CheckEdit \/ WriteEdit \/ LabelJob \/ Withdraw

Spec == Init /\ [][Next]_vars

\* Node runs a handler on, and the operator starts the pipeline again as long
\* as the asset is not settled (each run waits for the one before it).
FairSpec ==
  Spec /\ \A r \in Runs : WF_vars(Step(r)) /\ SF_vars(~Has("SETTLED") /\ Launch(r))

-----------------------------------------------------------------------------
\* The stage never claims what the log does not have, whatever overlaps,
\* stops or is replayed: the dashboard, the catalogue, the label editor and
\* registration all decide by the stage.  What the catalogue shows carries
\* registered license terms, so that a purchase of it can be minted.
StageBacked ==
  /\ stage = "LABELED" => Has("LABELED")
  /\ stage = "REGISTERED" => Has("VAULT")
  /\ stage \in {"LISTED", "SOLD", "SETTLED"} => Has(stage)
  /\ Catalogue # {} => Has("VAULT") /\ "IP" \in columns

\* While a listing is on offer the asset page offers its withdrawal and no
\* change of its terms, and the bulk editor does not list the asset: no replay
\* takes the stage back to where terms are chosen.
OfferedIsFixed == OnOffer => ~OfferEdit /\ ~OfferBulk /\ (OfferWithdraw \/ Has("TAKEDOWN"))

\* Of an asset that was listed and withdrawn nothing comes on offer again,
\* whatever is replayed: the list handler takes a withdrawn row as it is.
WithdrawnNotOffered ==
  [][Has("LISTED") /\ Has("TAKEDOWN") /\ ~OnOffer => ~OnOffer']_vars

\* The asset is lost to every retry: a stop between the event of 3a, 3b or 3c
\* and its columns left them null, which 3d or the promotion needs; Trace
\* accepted 3b without an event, and the labels were written since; or it
\* accepted the promotion without an event.
Stranded ==
  \/ \E k \in Columns : Has(k) /\ k \notin columns
  \/ ~Has("TRACE") /\ \E d \in traced : d # [preset |-> label, license |-> label, labels |-> labels]
  \/ promoted /\ ~Has("CREDITED")

\* An operator who goes on starting the pipeline gets the asset settled in the
\* log, whatever stopped before, or it stays stranded in one of these ways.
EventuallySettled == <>[](Has("SETTLED") \/ Stranded)

\* Not guaranteed: an asset that was withdrawn is never on offer.
WithdrawnIsOff == Has("TAKEDOWN") => ~OnOffer

=============================================================================
