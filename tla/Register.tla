------------------------------ MODULE Register ------------------------------
(***************************************************************************)
(* Stage 3 of the pipeline for one asset, as the dashboard triggers it:    *)
(* registerAsset checks readiness, then runs the label and the register    *)
(* handlers (the ingest handler only skips: a browser upload is ingested   *)
(* when its row is created).  Register performs four external sub-steps,   *)
(*    1 = 3a  encrypt and upload      -> ipfs cid and media vault          *)
(*    2 = 3b  Trace registration      -> data id                           *)
(*    3 = 3c  IP asset registration   -> ipId                              *)
(*    4 = 3d  license-gated CDR vault -> vault uuid                        *)
(* each followed by its event and by its columns of the asset row, every   *)
(* one of them a statement of its own.  Nothing in the code stops two      *)
(* attempts from running together.  Artefacts are numbered from 1 in the   *)
(* order the service made them; 0 is null (a column) or no event (the log).*)
(***************************************************************************)
EXTENDS Naturals, Sequences, FiniteSets

CONSTANTS
  Runs,        \* attempts: each is one call of registerAsset
  Presets,     \* license presets; each has a licenseTermsId of its own
  Overlap,     \* may an attempt start while another is active?
  FaultKinds,  \* which faults strike, see below
  MaxFaults,   \* bound on faults
  MaxEdits     \* bound on label edits, label jobs and profile changes

(***************************************************************************)
(* "port":  an external call fails and has no effect                       *)
(* "reply": an external call takes effect but its reply is lost            *)
(* "db":    a statement fails and has no effect                            *)
(* "commit": a statement commits but its reply is lost                     *)
(* "crash": the process stops, or an error leaves the handler uncaught     *)
(***************************************************************************)
AllFaultKinds == {"port", "reply", "db", "commit", "crash"}

ASSUME RegisterAssumption ==
  /\ Presets # {}
  /\ Overlap \in BOOLEAN
  /\ FaultKinds \subseteq AllFaultKinds
  /\ MaxFaults \in Nat
  /\ MaxEdits \in Nat

VARIABLES
  log,        \* log[s]: artefact recorded by sub-step s's event
  labeled,    \* is LABELED in the log?
  failures,   \* REGISTER_FAILED events
  seq,        \* highest asset_event.seq, which is also the number of events
  asset,      \* asset[s]: the columns sub-step s writes in the asset row
  stage,      \* asset.stage
  choice,     \* label wtr:license_preset
  labels,     \* version of the asset's other labels
  profile,    \* version of consent, KYC, tax and wallet data of the creator
  editor,     \* the creator's label edit: idle, or past its stage check
  edits,
  uploads,    \* encrypted uploads the media port made
  trace,      \* document Trace holds for this source id ({} before any)
  ips,        \* IP assets Story registered
  vaults,     \* license-gated vaults CDR allocated
  run,        \* local state of each attempt
  faults

dbVars      == <<log, labeled, failures, seq, asset, stage>>
creatorVars == <<choice, labels, profile, editor, edits>>
worldVars   == <<uploads, trace, ips, vaults>>
vars == <<dbVars, creatorVars, worldVars, run, faults>>

SubSteps == 1..4
Stages   == {"IN_TRAY", "LABELED", "REGISTERED", "FAILED_REGISTER"}
\* Mutant of TriggerStages: the retry button is gone after a failure.
TriggerStagesNoRetry == {"IN_TRAY", "LABELED"}
TriggerStages  == {"IN_TRAY", "LABELED", "FAILED_REGISTER"}
EditableStages == {"IN_TRAY", "LABELED"}

LabelPcs  == {"label", "labelAppend", "labelStage"}
TryPcs    == {"sub", "append", "project"}
CatchPcs  == {"catch", "record", "failStage"}
ActivePcs == LabelPcs \cup {"asset", "events", "preset"} \cup TryPcs \cup CatchPcs
EndPcs    == {"registered", "failed", "dead"}
Pcs       == {"idle"} \cup ActivePcs \cup EndPcs
Errors    == {"none", "fault", "order", "conflict", "missing"}

Documents == [preset: Presets, license: Presets, labels: Nat, profile: Nat,
              cid: Nat, ip: Nat, vault: Nat]
IpAssets  == [terms: Presets, cid: Nat]
Vaults    == [ip: Nat, media: Nat]
RunStates == [pc: Pcs,
              sub: 1..5,                   \* sub-step in hand; 5 is past 3d
              have: [SubSteps -> Nat],     \* cid/mediaVaultUuid, ipId locals
              alreadyDone: SUBSET SubSteps,
              performed: SUBSET SubSteps,
              preset: Presets,
              seen: Nat,                   \* events.length in the catch block
              err: Errors]

\* One type invariant for the shared rows, the services and every attempt.
TypeOK ==
  /\ log \in [SubSteps -> Nat]
  /\ labeled \in BOOLEAN
  /\ failures \subseteq [sub: SubSteps, at: Nat, completed: SUBSET SubSteps]
  /\ seq \in Nat
  /\ asset \in [SubSteps -> Nat]
  /\ stage \in Stages
  /\ choice \in Presets
  /\ labels \in Nat
  /\ profile \in Nat
  /\ editor \in {"idle", "checked"}
  /\ edits \in Nat
  /\ uploads \in Nat
  /\ trace \subseteq Documents
  /\ ips \in Seq(IpAssets)
  /\ vaults \in Seq(Vaults)
  /\ run \in [Runs -> RunStates]
  /\ faults \in Nat

Recorded(l) == {s \in SubSteps : l[s] # 0}
Active(r) == run[r].pc \in ActivePcs
Completed(r) == run[r].alreadyDone \cup run[r].performed

\* registerProgress: the sub-steps the register card ticks off.
Progress(s) == s \in Recorded(log)

(***************************************************************************)
(* An asset as the dashboard hands it to registerAsset: ingested, its      *)
(* ciphertext complete, a license chosen.                                  *)
(***************************************************************************)
Init ==
  /\ log = [s \in SubSteps |-> 0]
  /\ labeled = FALSE
  /\ failures = {}
  /\ seq = 1
  /\ asset = [s \in SubSteps |-> 0]
  /\ stage = "IN_TRAY"
  /\ choice \in Presets
  /\ labels = 0
  /\ profile = 0
  /\ editor = "idle"
  /\ edits = 0
  /\ uploads = 0
  /\ trace = {}
  /\ ips = <<>>
  /\ vaults = <<>>
  /\ run = [r \in Runs |-> [pc |-> "idle", sub |-> 1,
                            have |-> [s \in SubSteps |-> 0],
                            alreadyDone |-> {}, performed |-> {},
                            preset |-> choice, seen |-> 0, err |-> "none"]]
  /\ faults = 0

-----------------------------------------------------------------------------
Goto(r, to) == run' = [run EXCEPT ![r].pc = to]

Strike(kind) ==
  /\ kind \in FaultKinds
  /\ faults < MaxFaults
  /\ faults' = faults + 1

\* An exception inside the try block of the register handler.
Raise(r, error) == run' = [run EXCEPT ![r] = [@ EXCEPT !.pc = "catch", !.err = error]]

Trigger(r) ==
  /\ run[r].pc = "idle"
  /\ stage \in TriggerStages
  /\ Overlap \/ \A other \in Runs : ~Active(other)
  /\ Goto(r, "label")
  /\ UNCHANGED <<dbVars, creatorVars, worldVars, faults>>

LabelCheck(r) ==
  /\ run[r].pc = "label"
  /\ Goto(r, IF labeled THEN "asset" ELSE "labelAppend")
  /\ UNCHANGED <<dbVars, creatorVars, worldVars, faults>>

LabelAppend(r) ==
  /\ run[r].pc = "labelAppend"
  /\ labeled' = TRUE
  /\ seq' = IF labeled THEN seq ELSE seq + 1
  /\ Goto(r, "labelStage")
  /\ UNCHANGED <<log, failures, asset, stage, creatorVars, worldVars, faults>>

LabelStage(r) ==
  /\ run[r].pc = "labelStage"
  /\ stage' = "LABELED"
  /\ Goto(r, "asset")
  /\ UNCHANGED <<log, labeled, failures, seq, asset, creatorVars, worldVars, faults>>

\* Mutant of ReadAsset: a retry forgets what the row already holds.
ReadAssetForgetful(r) ==
  /\ run[r].pc = "asset"
  /\ Goto(r, "events")
  /\ UNCHANGED <<dbVars, creatorVars, worldVars, faults>>

ReadAsset(r) ==
  /\ run[r].pc = "asset"
  /\ run' = [run EXCEPT ![r] = [@ EXCEPT !.have = asset, !.pc = "events"]]
  /\ UNCHANGED <<dbVars, creatorVars, worldVars, faults>>

\* Mutant of ReadEvents: the attempt restarts whatever the log holds.
ReadEventsRestart(r) ==
  /\ run[r].pc = "events"
  /\ run' = [run EXCEPT ![r] = [@ EXCEPT !.alreadyDone = {}, !.sub = 1, !.pc = "preset"]]
  /\ UNCHANGED <<dbVars, creatorVars, worldVars, faults>>

\* StageOrderError ends the attempt; a fully registered asset only gets its
\* stage set; anything else enters the try block at 3a.
ReadEvents(r) ==
  /\ run[r].pc = "events"
  /\ LET done == Recorded(log) IN
     run' = [run EXCEPT ![r] = [@ EXCEPT
       !.alreadyDone = done,
       !.pc  = CASE ~labeled -> "failed"
               [] labeled /\ done = SubSteps -> "sub"
               [] OTHER -> "preset",
       !.sub = IF labeled /\ done = SubSteps THEN 5 ELSE 1,
       !.err = IF labeled THEN "none" ELSE "order"]]
  /\ UNCHANGED <<dbVars, creatorVars, worldVars, faults>>

ReadPreset(r) ==
  /\ run[r].pc = "preset"
  /\ run' = [run EXCEPT ![r] = [@ EXCEPT !.preset = choice, !.pc = "sub"]]
  /\ UNCHANGED <<dbVars, creatorVars, worldVars, faults>>

-----------------------------------------------------------------------------
(* The four sub-steps: skip it, or call the port, append the event, write  *)
(* the row.                                                                *)

At(r, s) == run[r].pc = "sub" /\ run[r].sub = s

Skip(r) ==
  /\ \E s \in SubSteps : At(r, s) /\ s \in run[r].alreadyDone
  /\ run' = [run EXCEPT ![r].sub = @ + 1]
  /\ UNCHANGED <<dbVars, creatorVars, worldVars, faults>>

\* The reply of a call that took effect: it arrives, or it is lost.
Reply(r, artefact) ==
  \/ /\ run' = [run EXCEPT ![r] = [@ EXCEPT !.have[run[r].sub] = artefact, !.pc = "append"]]
     /\ UNCHANGED faults
  \/ /\ Strike("reply")
     /\ Raise(r, "fault")

Calling(r, s) == At(r, s) /\ s \notin run[r].alreadyDone

\* Mutant of CallUpload: the row is written before the event.
CallUploadEager(r) ==
  /\ Calling(r, 1)
  /\ uploads' = uploads + 1
  /\ asset' = [asset EXCEPT ![1] = uploads + 1]
  /\ Reply(r, uploads + 1)
  /\ UNCHANGED <<log, labeled, failures, seq, stage, creatorVars, trace, ips, vaults>>

CallUpload(r) ==
  /\ Calling(r, 1)
  /\ uploads' = uploads + 1
  /\ Reply(r, uploads + 1)
  /\ UNCHANGED <<dbVars, creatorVars, trace, ips, vaults>>

\* buildTraceDocument reads all the labels, the creator and the row as they
\* are now; the preset and the cid are this attempt's.
Document(r) == [preset |-> run[r].preset, license |-> choice, labels |-> labels,
                profile |-> profile, cid |-> run[r].have[1],
                ip |-> asset[3], vault |-> asset[4]]

\* Trace accepts a first document, takes an equal one as a duplicate and
\* answers conflict to any other; the data id depends on the source id only.
CallTrace(r) ==
  /\ Calling(r, 2)
  /\ \/ /\ trace \subseteq {Document(r)}
        /\ trace' = {Document(r)}
        /\ Reply(r, 1)
     \/ /\ ~(trace \subseteq {Document(r)})
        /\ Raise(r, "conflict")
        /\ UNCHANGED <<trace, faults>>
  /\ UNCHANGED <<dbVars, creatorVars, uploads, ips, vaults>>

\* The metadata document carries the time of the call, so Story never finds
\* two registrations of one asset to be the same.
CallIp(r) ==
  /\ Calling(r, 3)
  /\ ips' = Append(ips, [terms |-> run[r].preset, cid |-> run[r].have[1]])
  /\ Reply(r, Len(ips) + 1)
  /\ UNCHANGED <<dbVars, creatorVars, uploads, trace, vaults>>

\* Mutant of HasInputs: the two null checks before 3d are dropped.
HasInputsUnchecked(r) == TRUE

HasInputs(r) == run[r].have[3] # 0 /\ run[r].have[1] # 0

CallVault(r) ==
  /\ Calling(r, 4)
  /\ \/ /\ HasInputs(r)
        /\ vaults' = Append(vaults, [ip |-> run[r].have[3], media |-> run[r].have[1]])
        /\ Reply(r, Len(vaults) + 1)
     \/ /\ ~HasInputs(r)
        /\ Raise(r, "missing")
        /\ UNCHANGED <<vaults, faults>>
  /\ UNCHANGED <<dbVars, creatorVars, uploads, trace, ips>>

PortFails(r) ==
  /\ \E s \in SubSteps : Calling(r, s) /\ (s = 4 => HasInputs(r))
  /\ Strike("port")
  /\ Raise(r, "fault")
  /\ UNCHANGED <<dbVars, creatorVars, worldVars>>

\* Mutant of AppendSub: the event replaces the one with its key.
AppendSubOver(r) ==
  /\ run[r].pc = "append"
  /\ log' = [log EXCEPT ![run[r].sub] = run[r].have[run[r].sub]]
  /\ seq' = seq + 1
  /\ Goto(r, "project")
  /\ UNCHANGED <<labeled, failures, asset, stage, creatorVars, worldVars, faults>>

\* appendEvent: an event whose key is in the log already is not appended,
\* and the handler goes on as if it had been.
AppendSub(r) ==
  /\ run[r].pc = "append"
  /\ LET s == run[r].sub IN
     /\ log' = IF log[s] = 0 THEN [log EXCEPT ![s] = run[r].have[s]] ELSE log
     /\ seq' = IF log[s] = 0 THEN seq + 1 ELSE seq
  /\ \/ Goto(r, "project") /\ UNCHANGED faults
     \/ Strike("commit") /\ Raise(r, "fault")
  /\ UNCHANGED <<labeled, failures, asset, stage, creatorVars, worldVars>>

ProjectSub(r) ==
  /\ run[r].pc = "project"
  /\ LET s == run[r].sub IN
     /\ asset' = [asset EXCEPT ![s] = run[r].have[s]]
     /\ \/ /\ run' = [run EXCEPT ![r] =
                 [@ EXCEPT !.performed = run[r].performed \cup {s}, !.sub = s + 1,
                           !.pc = "sub"]]
           /\ UNCHANGED faults
        \/ Strike("commit") /\ Raise(r, "fault")
  /\ UNCHANGED <<log, labeled, failures, seq, stage, creatorVars, worldVars>>

Finish(r) ==
  /\ At(r, 5)
  /\ stage' = "REGISTERED"
  /\ \/ Goto(r, "registered") /\ UNCHANGED faults
     \/ run[r].alreadyDone # SubSteps /\ Strike("commit") /\ Raise(r, "fault")
  /\ UNCHANGED <<log, labeled, failures, seq, asset, creatorVars, worldVars>>

\* Mutant of DbFails: an append that fails is taken for one that conflicts.
DbFailsSilently(r) ==
  /\ run[r].pc = "append"
  /\ Strike("db")
  /\ Goto(r, "project")
  /\ UNCHANGED <<dbVars, creatorVars, worldVars>>

DbFails(r) ==
  /\ \/ run[r].pc \in {"append", "project"}
     \/ At(r, 5) /\ run[r].alreadyDone # SubSteps
  /\ Strike("db")
  /\ Raise(r, "fault")
  /\ UNCHANGED <<dbVars, creatorVars, worldVars>>

-----------------------------------------------------------------------------
(* The catch block.  A second error in it leaves the handler uncaught.     *)

CatchRead(r) ==
  /\ run[r].pc = "catch"
  /\ run' = [run EXCEPT ![r] = [@ EXCEPT !.seen = seq, !.pc = "record"]]
  /\ UNCHANGED <<dbVars, creatorVars, worldVars, faults>>

Failure(r) == [sub |-> IF run[r].sub = 5 THEN 4 ELSE run[r].sub,
               at |-> run[r].seen, completed |-> Completed(r)]

RecordFailure(r) ==
  /\ run[r].pc = "record"
  /\ LET f     == Failure(r)
         known == \E g \in failures : g.sub = f.sub /\ g.at = f.at
     IN /\ failures' = IF known THEN failures ELSE failures \cup {f}
        /\ seq' = IF known THEN seq ELSE seq + 1
  /\ Goto(r, "failStage")
  /\ UNCHANGED <<log, labeled, asset, stage, creatorVars, worldVars, faults>>

FailStage(r) ==
  /\ run[r].pc = "failStage"
  /\ stage' = "FAILED_REGISTER"
  /\ Goto(r, "failed")
  /\ UNCHANGED <<log, labeled, failures, seq, asset, creatorVars, worldVars, faults>>

\* The process stops between two statements, or a statement outside the try
\* block fails: the attempt ends and records nothing.
Die(r) ==
  /\ Active(r)
  /\ Strike("crash")
  /\ run' = [run EXCEPT ![r] = [@ EXCEPT !.pc = "dead", !.err = "fault"]]
  /\ UNCHANGED <<dbVars, creatorVars, worldVars>>

-----------------------------------------------------------------------------
(* The rows the Trace document is made of have other writers.  Every label *)
(* edit of the creator (setLicenseChoice, setCreatorLabel, removeLabel,    *)
(* batchApply) reads the stage first and writes afterwards; a label job    *)
(* inserts what it found whatever the stage.                               *)

CheckEdit ==
  /\ editor = "idle"
  /\ stage \in EditableStages
  /\ edits < MaxEdits
  /\ editor' = "checked"
  /\ edits' = edits + 1
  /\ UNCHANGED <<dbVars, choice, labels, profile, worldVars, run, faults>>

\* The edit chooses a license, or sets or removes another label.
WriteEdit(p) ==
  /\ editor = "checked"
  /\ \/ choice' = p /\ UNCHANGED labels
     \/ labels' = labels + 1 /\ UNCHANGED choice
  /\ editor' = "idle"
  /\ UNCHANGED <<dbVars, profile, edits, worldVars, run, faults>>

LabelJob ==
  /\ edits < MaxEdits
  /\ edits' = edits + 1
  /\ labels' = labels + 1
  /\ UNCHANGED <<dbVars, choice, profile, editor, worldVars, run, faults>>

UpdateProfile ==
  /\ edits < MaxEdits
  /\ edits' = edits + 1
  /\ profile' = profile + 1
  /\ UNCHANGED <<dbVars, choice, labels, editor, worldVars, run, faults>>

Step(r) ==
  \/ LabelCheck(r) \/ LabelAppend(r) \/ LabelStage(r)
  \/ ReadAsset(r) \/ ReadEvents(r) \/ ReadPreset(r)
  \/ Skip(r) \/ CallUpload(r) \/ CallTrace(r) \/ CallIp(r) \/ CallVault(r)
  \/ AppendSub(r) \/ ProjectSub(r) \/ Finish(r)
  \/ CatchRead(r) \/ RecordFailure(r) \/ FailStage(r)

Fault(r) == PortFails(r) \/ DbFails(r) \/ Die(r)

Writers ==
  CheckEdit \/ UpdateProfile \/ LabelJob \/ \E p \in Presets : WriteEdit(p)

Next ==
  \/ \E r \in Runs : Trigger(r) \/ Step(r) \/ Fault(r)
  \/ Writers

Spec == Init /\ [][Next]_vars

\* The runtime drives every attempt on, and the creator presses the retry
\* button as long as the dashboard offers it.
FairSpec == Spec /\ \A r \in Runs : WF_vars(Step(r)) /\ WF_vars(Trigger(r))
-----------------------------------------------------------------------------
(* Properties.                                                             *)

L == INSTANCE Ledger WITH Depth <- 4, entry <- log

\* The four events are recorded once each, in the order 3a, 3b, 3c, 3d, and
\* what one of them refers to never changes, however many attempts interleave
\* and wherever they fail: "strict order" and the no-op re-append of the log.
LedgerRefined == L!Spec

\* The dashboard never shows REGISTERED for an asset whose log lacks one of
\* the four events, even while another attempt is half way.
RegisteredMeansRecorded == stage = "REGISTERED" => Recorded(log) = SubSteps

\* Rebuilding the asset row from the log loses nothing: a column of the row
\* is null or holds what the event of its sub-step refers to.
ProjectionFromLog == \A s \in SubSteps : asset[s] \in {0, log[s]}

\* The vault buyers read is sealed behind the very ipId, and around the very
\* media vault, that the log names: 3c comes before 3d for this reason.
VaultGated ==
  log[4] # 0 => vaults[log[4]] = [ip |-> log[3], media |-> log[1]]

\* An event whose column was never written: the log says the sub-step is
\* done, and the row has not got what the next sub-steps need of it.
Stranded == \E s \in SubSteps : log[s] # 0 /\ asset[s] = 0

\* Trace holds a document no event names yet, and a row it was made of has
\* been written since: by the creator, or by a label job in the background.
Overtaken ==
  /\ log[2] = 0
  /\ \E d \in trace : <<d.preset, d.license, d.labels, d.profile>>
                        # <<choice, choice, labels, profile>>

\* "A retry RESUMES": an attempt that meets no fault of its own fails in two
\* cases only, whatever the attempts before it went through.  Trace refuses
\* its document when the rows were written since the lost reply, or under the
\* attempt itself, and never for what the attempts put into it (cid, ipId,
\* vault); 3d gives up when the asset is stranded.
Excused(r) ==
  \/ run'[r].err \in {"none", "fault"}
  \/ run'[r].err = "conflict" /\ (Overtaken \/ run[r].preset # choice)
  \/ run'[r].err = "missing" /\ Stranded

RetryResumes == [][\A r \in Runs : run'[r].err # run[r].err => Excused(r)]_vars

\* Both cases are real: a retry that finds the column null gives up, and one
\* that comes after a label job does not "re-derive a byte-identical document".
NeverStuck     == \A r \in Runs : run[r].err # "missing"
NeverConflicts == \A r \in Runs : run[r].err # "conflict"

Missing(made, s) == IF log[s] # 0 THEN made - 1 ELSE made
InHand == {r \in Runs : run[r].pc = "append" /\ run[r].sub # 2}
\* Uploads, IP assets and vaults that exist outside and that neither the log
\* nor an attempt in progress refers to.
Orphans == (Missing(uploads, 1) + Missing(Len(ips), 3) + Missing(Len(vaults), 4))
             - Cardinality(InHand)

\* Resuming leaves at most one abandoned artefact behind for each fault.
OrphansBounded == Orphans <= faults

\* What the card promises of a retry, "nothing is redone": no attempt calls a
\* service again for a sub-step that is ticked off.
NothingRedone ==
  [][/\ Progress(1) => UNCHANGED uploads
     /\ Progress(2) => UNCHANGED trace
     /\ Progress(3) => UNCHANGED ips
     /\ Progress(4) => UNCHANGED vaults]_vars

\* Pressing retry until the faults are spent registers every asset that is
\* neither stranded nor overtaken.
EventuallyRegistered == <>[](stage = "REGISTERED" \/ Stranded \/ Overtaken)

=============================================================================
