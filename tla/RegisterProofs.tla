--------------------------- MODULE RegisterProofs ---------------------------
(***************************************************************************)
(* Proofs about the register stage, for any number of attempts, presets    *)
(* and faults: type correctness, the strict order and immutability of the  *)
(* log under every interleaving, and, when attempts do not overlap, the    *)
(* agreement of the asset row and of the license vault with the log, that  *)
(* nothing is redone, that each fault leaves at most one artefact behind,  *)
(* and that a retry resumes.                                               *)
(***************************************************************************)
EXTENDS Register, SequenceTheorems, FiniteSetTheorems, TLAPS

-----------------------------------------------------------------------------
(* Types of the local state.                                               *)

\* The program counters the actions assign.
LEMMA PcNames ==
  /\ {"label", "labelAppend", "labelStage", "asset", "events", "preset"} \subseteq Pcs
  /\ {"sub", "append", "project", "catch", "record", "failStage"} \subseteq Pcs
  /\ {"idle", "registered", "failed", "dead"} \subseteq Pcs
  BY DEF Pcs, ActivePcs, EndPcs, LabelPcs, TryPcs, CatchPcs

\* The fields of an attempt, one by one.
LEMMA Fields ==
  ASSUME TypeOK, NEW r \in Runs
  PROVE  /\ run[r] \in RunStates
         /\ run[r].pc \in Pcs /\ run[r].sub \in 1..5
         /\ run[r].have \in [SubSteps -> Nat]
         /\ run[r].alreadyDone \in SUBSET SubSteps
         /\ run[r].performed \in SUBSET SubSteps
         /\ run[r].preset \in Presets /\ run[r].seen \in Nat /\ run[r].err \in Errors
  BY DEF TypeOK, RunStates

LEMMA GotoTyped ==
  ASSUME TypeOK, NEW r \in Runs, NEW to \in Pcs, Goto(r, to)
  PROVE  run' \in [Runs -> RunStates]
  BY DEF TypeOK, Goto, RunStates

LEMMA RaiseTyped ==
  ASSUME TypeOK, NEW r \in Runs, NEW error \in Errors, Raise(r, error)
  PROVE  run' \in [Runs -> RunStates]
<1>1. [run[r] EXCEPT !.pc = "catch", !.err = error] \in RunStates
  BY PcNames DEF TypeOK, RunStates
<1> QED
  BY <1>1 DEF TypeOK, Raise

\* What the ways to move do to the attempts.
LEMMA Moved ==
  ASSUME TypeOK, NEW r \in Runs, NEW q, run' = [run EXCEPT ![r] = q]
  PROVE  run'[r] = q /\ \A other \in Runs : other # r => run'[other] = run[other]
  BY DEF TypeOK

LEMMA GotoEffect ==
  ASSUME TypeOK, NEW r \in Runs, NEW to, Goto(r, to)
  PROVE  /\ run'[r].pc = to
         /\ run'[r].sub = run[r].sub /\ run'[r].have = run[r].have
         /\ run'[r].alreadyDone = run[r].alreadyDone
         /\ run'[r].preset = run[r].preset /\ run'[r].err = run[r].err
         /\ \A q \in Runs : q # r => run'[q] = run[q]
  BY DEF TypeOK, Goto, RunStates

LEMMA RaiseEffect ==
  ASSUME TypeOK, NEW r \in Runs, NEW error, Raise(r, error)
  PROVE  /\ run'[r].pc = "catch"
         /\ run'[r].sub = run[r].sub /\ run'[r].have = run[r].have
         /\ run'[r].alreadyDone = run[r].alreadyDone
         /\ run'[r].preset = run[r].preset /\ run'[r].err = error
         /\ \A q \in Runs : q # r => run'[q] = run[q]
  BY DEF TypeOK, Raise, RunStates

LEMMA ReplyEffect ==
  ASSUME TypeOK, NEW r \in Runs, NEW artefact, Reply(r, artefact)
  PROVE  /\ \/ /\ run'[r].pc = "append"
               /\ run'[r].have = [run[r].have EXCEPT ![run[r].sub] = artefact]
               /\ run'[r].err = run[r].err /\ faults' = faults
            \/ /\ run'[r].pc = "catch" /\ run'[r].have = run[r].have
               /\ run'[r].err = "fault" /\ faults' = faults + 1
         /\ run'[r].sub = run[r].sub /\ run'[r].alreadyDone = run[r].alreadyDone
         /\ run'[r].preset = run[r].preset
         /\ \A q \in Runs : q # r => run'[q] = run[q]
<1>1. CASE run' = [run EXCEPT ![r] = [@ EXCEPT !.have[run[r].sub] = artefact, !.pc = "append"]]
           /\ UNCHANGED faults
  BY <1>1 DEF TypeOK, RunStates
<1>2. CASE Strike("reply") /\ Raise(r, "fault")
  BY <1>2, RaiseEffect DEF Strike
<1> QED
  BY <1>1, <1>2 DEF Reply

\* An attempt moves alone.
LEMMA OthersRun ==
  ASSUME TypeOK, NEW r \in Runs, Step(r) \/ Trigger(r) \/ Fault(r)
  PROVE  \A q \in Runs : q # r => run'[q] = run[q]
<1>1. ASSUME NEW to, Goto(r, to)
      PROVE  \A q \in Runs : q # r => run'[q] = run[q]
  BY <1>1, GotoEffect
<1>2. ASSUME NEW error, Raise(r, error)
      PROVE  \A q \in Runs : q # r => run'[q] = run[q]
  BY <1>2, RaiseEffect
<1>3. ASSUME NEW artefact, Reply(r, artefact)
      PROVE  \A q \in Runs : q # r => run'[q] = run[q]
  BY <1>3, ReplyEffect
<1>4. ASSUME NEW q, run' = [run EXCEPT ![r] = q]
      PROVE  \A q2 \in Runs : q2 # r => run'[q2] = run[q2]
  BY <1>4 DEF TypeOK
<1>5. CASE Trigger(r) \/ PortFails(r) \/ DbFails(r)
  BY <1>1, <1>2, <1>5 DEF Trigger, PortFails, DbFails
<1>6. CASE \/ LabelCheck(r) \/ LabelAppend(r) \/ LabelStage(r) \/ AppendSub(r) \/ Finish(r)
           \/ RecordFailure(r) \/ FailStage(r)
  BY <1>1, <1>2, <1>6 DEF LabelCheck, LabelAppend, LabelStage, AppendSub, Finish,
     RecordFailure, FailStage
<1>7. CASE CallUpload(r) \/ CallTrace(r) \/ CallIp(r) \/ CallVault(r)
  BY <1>2, <1>3, <1>7 DEF CallUpload, CallTrace, CallIp, CallVault
<1>8. CASE Die(r) \/ ReadAsset(r) \/ ReadPreset(r) \/ Skip(r) \/ CatchRead(r)
  BY <1>4, <1>8 DEF Die, ReadAsset, ReadPreset, Skip, CatchRead, TypeOK
<1>9. CASE ReadEvents(r)
  BY <1>4, <1>9 DEF ReadEvents
<1>10. CASE ProjectSub(r)
  BY <1>2, <1>4, <1>10 DEF ProjectSub
<1> QED
  BY <1>5, <1>6, <1>7, <1>8, <1>9, <1>10 DEF Step, Fault

\* The steps before the reads, after the try block, and the faults, keep what
\* the attempt has read.
OutsidePcs == {"label", "labelAppend", "labelStage", "asset", "catch", "record", "failStage",
               "registered", "failed", "dead"}

LEMMA OutsideEffect ==
  ASSUME TypeOK, NEW r \in Runs,
         \/ Trigger(r) \/ Fault(r) \/ LabelCheck(r) \/ LabelAppend(r) \/ LabelStage(r)
         \/ Finish(r) \/ CatchRead(r) \/ RecordFailure(r) \/ FailStage(r)
  PROVE  /\ run'[r].pc \in OutsidePcs
         /\ run'[r].sub = run[r].sub /\ run'[r].have = run[r].have
         /\ run'[r].alreadyDone = run[r].alreadyDone
         /\ run'[r].preset = run[r].preset /\ run'[r].err \in {run[r].err, "fault"}
<1> DEFINE Kept == /\ run'[r].sub = run[r].sub /\ run'[r].have = run[r].have
                   /\ run'[r].alreadyDone = run[r].alreadyDone
                   /\ run'[r].preset = run[r].preset /\ run'[r].err \in {run[r].err, "fault"}
<1>1. ASSUME NEW to \in OutsidePcs, Goto(r, to)
      PROVE  run'[r].pc \in OutsidePcs /\ Kept
  BY <1>1, GotoEffect
<1>2. ASSUME Raise(r, "fault")
      PROVE  run'[r].pc \in OutsidePcs /\ Kept
  BY <1>2, RaiseEffect DEF OutsidePcs
<1>3. CASE Trigger(r) \/ PortFails(r) \/ DbFails(r)
  BY <1>1, <1>2, <1>3 DEF Trigger, PortFails, DbFails, OutsidePcs
<1>4. CASE LabelCheck(r) \/ LabelAppend(r) \/ LabelStage(r) \/ RecordFailure(r) \/ FailStage(r)
  BY <1>1, <1>4 DEF LabelCheck, LabelAppend, LabelStage, RecordFailure, FailStage, OutsidePcs
<1>5. CASE Finish(r)
  BY <1>1, <1>2, <1>5 DEF Finish, OutsidePcs
<1>6. CASE Die(r) \/ CatchRead(r)
  <2> DEFINE dead == [run[r] EXCEPT !.pc = "dead", !.err = "fault"]
             read == [run[r] EXCEPT !.seen = seq, !.pc = "record"]
  <2>1. run' = [run EXCEPT ![r] = dead] \/ run' = [run EXCEPT ![r] = read]
    BY <1>6 DEF Die, CatchRead
  <2>2. /\ dead.pc = "dead" /\ dead.sub = run[r].sub /\ dead.have = run[r].have
        /\ dead.alreadyDone = run[r].alreadyDone /\ dead.preset = run[r].preset
        /\ dead.err = "fault"
    BY Fields DEF RunStates
  <2>3. /\ read.pc = "record" /\ read.sub = run[r].sub /\ read.have = run[r].have
        /\ read.alreadyDone = run[r].alreadyDone /\ read.preset = run[r].preset
        /\ read.err = run[r].err
    BY Fields DEF RunStates
  <2> HIDE DEF dead, read
  <2>4. run'[r] = dead \/ run'[r] = read
    BY <2>1, Moved
  <2> QED
    BY <2>2, <2>3, <2>4 DEF OutsidePcs
<1> QED
  BY <1>3, <1>4, <1>5, <1>6 DEF Fault

\* The two outcomes of a row update.
LEMMA ProjectEffect ==
  ASSUME TypeOK, NEW r \in Runs, ProjectSub(r)
  PROVE  /\ \/ /\ run'[r].pc = "sub" /\ run'[r].sub = run[r].sub + 1
               /\ run'[r].err = run[r].err /\ faults' = faults
            \/ /\ run'[r].pc = "catch" /\ run'[r].sub = run[r].sub
               /\ run'[r].err = "fault" /\ faults' = faults + 1
         /\ run'[r].have = run[r].have /\ run'[r].alreadyDone = run[r].alreadyDone
         /\ run'[r].preset = run[r].preset
<1> DEFINE s == run[r].sub
           q == [run[r] EXCEPT !.performed = @ \cup {s}, !.sub = s + 1, !.pc = "sub"]
<1>1. /\ q.pc = "sub" /\ q.sub = s + 1 /\ q.err = run[r].err /\ q.have = run[r].have
      /\ q.alreadyDone = run[r].alreadyDone /\ q.preset = run[r].preset
  BY Fields DEF RunStates
<1>2. \/ run' = [run EXCEPT ![r] = q] /\ faults' = faults
      \/ Strike("commit") /\ Raise(r, "fault")
  BY DEF ProjectSub
<1>3. CASE run' = [run EXCEPT ![r] = q] /\ faults' = faults
  <2> HIDE DEF q
  <2>1. run'[r] = q
    BY <1>3, Moved
  <2> QED
    BY <1>1, <1>3, <2>1
<1>4. CASE Strike("commit") /\ Raise(r, "fault")
  BY <1>4, RaiseEffect DEF Strike
<1> QED
  BY <1>2, <1>3, <1>4

\* What the reads before the try block leave in the attempt.
LEMMA ReadAssetEffect ==
  ASSUME TypeOK, NEW r \in Runs, ReadAsset(r)
  PROVE  /\ run'[r].pc = "events" /\ run'[r].have = asset
         /\ run'[r].sub = run[r].sub /\ run'[r].alreadyDone = run[r].alreadyDone
         /\ run'[r].preset = run[r].preset /\ run'[r].err = run[r].err
<1> DEFINE q == [run[r] EXCEPT !.have = asset, !.pc = "events"]
<1>1. /\ q.pc = "events" /\ q.have = asset /\ q.sub = run[r].sub
      /\ q.alreadyDone = run[r].alreadyDone /\ q.preset = run[r].preset
      /\ q.err = run[r].err
  BY Fields DEF RunStates
<1>2. run' = [run EXCEPT ![r] = q]
  BY DEF ReadAsset
<1> HIDE DEF q
<1> QED
  BY <1>1, <1>2, Moved

LEMMA ReadEventsEffect ==
  ASSUME TypeOK, NEW r \in Runs, ReadEvents(r)
  PROVE  /\ run'[r].alreadyDone = Recorded(log)
         /\ run'[r].pc = IF ~labeled THEN "failed"
                         ELSE IF Recorded(log) = SubSteps THEN "sub" ELSE "preset"
         /\ run'[r].sub = IF labeled /\ Recorded(log) = SubSteps THEN 5 ELSE 1
         /\ run'[r].err = IF labeled THEN "none" ELSE "order"
         /\ run'[r].have = run[r].have /\ run'[r].preset = run[r].preset
<1> DEFINE done == Recorded(log)
           pc   == CASE ~labeled -> "failed" [] labeled /\ done = SubSteps -> "sub"
                  [] OTHER -> "preset"
           sub  == IF labeled /\ done = SubSteps THEN 5 ELSE 1
           err  == IF labeled THEN "none" ELSE "order"
           q    == [run[r] EXCEPT !.alreadyDone = done, !.pc = pc, !.sub = sub, !.err = err]
<1>1. run' = [run EXCEPT ![r] = q]
  BY DEF ReadEvents
<1>2. pc = IF ~labeled THEN "failed" ELSE IF done = SubSteps THEN "sub" ELSE "preset"
  <2>1. CASE ~labeled
    BY <2>1
  <2>2. CASE labeled /\ done = SubSteps
    BY <2>2
  <2>3. CASE labeled /\ done # SubSteps
    BY <2>3
  <2> QED
    BY <2>1, <2>2, <2>3
<1> HIDE DEF done, pc, sub, err
<1>3. /\ q.alreadyDone = done /\ q.pc = pc /\ q.sub = sub /\ q.err = err
      /\ q.have = run[r].have /\ q.preset = run[r].preset
  BY Fields DEF RunStates
<1> HIDE DEF q
<1>4. run'[r] = q
  BY <1>1, Moved
<1> QED
  BY <1>2, <1>3, <1>4 DEF done, sub, err

LEMMA ReadPresetEffect ==
  ASSUME TypeOK, NEW r \in Runs, ReadPreset(r)
  PROVE  /\ run'[r].pc = "sub" /\ run'[r].preset = choice
         /\ run'[r].sub = run[r].sub /\ run'[r].have = run[r].have
         /\ run'[r].alreadyDone = run[r].alreadyDone /\ run'[r].err = run[r].err
<1> DEFINE q == [run[r] EXCEPT !.preset = choice, !.pc = "sub"]
<1>1. /\ q.pc = "sub" /\ q.preset = choice /\ q.sub = run[r].sub /\ q.have = run[r].have
      /\ q.alreadyDone = run[r].alreadyDone /\ q.err = run[r].err
  BY Fields DEF RunStates
<1>2. run' = [run EXCEPT ![r] = q]
  BY DEF ReadPreset
<1> HIDE DEF q
<1> QED
  BY <1>1, <1>2, Moved

LEMMA SkipEffect ==
  ASSUME TypeOK, NEW r \in Runs, Skip(r)
  PROVE  /\ run'[r].pc = "sub" /\ run'[r].sub = run[r].sub + 1
         /\ run[r].sub \in SubSteps /\ run[r].sub \in run[r].alreadyDone
         /\ run'[r].have = run[r].have /\ run'[r].alreadyDone = run[r].alreadyDone
         /\ run'[r].preset = run[r].preset /\ run'[r].err = run[r].err
<1> DEFINE q == [run[r] EXCEPT !.sub = run[r].sub + 1]
<1>1. /\ q.pc = run[r].pc /\ q.sub = run[r].sub + 1 /\ q.have = run[r].have
      /\ q.alreadyDone = run[r].alreadyDone /\ q.preset = run[r].preset
      /\ q.err = run[r].err
  BY Fields DEF RunStates
<1>2. run' = [run EXCEPT ![r] = q]
  BY DEF Skip
<1>3. run[r].pc = "sub" /\ run[r].sub \in SubSteps /\ run[r].sub \in run[r].alreadyDone
  BY DEF Skip, At
<1> HIDE DEF q
<1> QED
  BY <1>1, <1>2, <1>3, Moved

LEMMA FaultEffect ==
  ASSUME TypeOK, NEW r \in Runs, Fault(r)
  PROVE  run'[r].pc \in {"catch", "dead"}
<1>1. CASE PortFails(r) \/ DbFails(r)
  BY <1>1, RaiseEffect DEF PortFails, DbFails
<1>2. CASE Die(r)
  <2> DEFINE q == [run[r] EXCEPT !.pc = "dead", !.err = "fault"]
  <2>1. q.pc = "dead"
    BY Fields DEF RunStates
  <2>2. run' = [run EXCEPT ![r] = q]
    BY <1>2 DEF Die
  <2> HIDE DEF q
  <2> QED
    BY <2>1, <2>2, Moved
<1> QED
  BY <1>1, <1>2 DEF Fault

\* Only an append is followed by a row update.
LEMMA StartsProjecting ==
  ASSUME TypeOK, NEW r \in Runs, Step(r) \/ Trigger(r) \/ Fault(r), ~AppendSub(r)
  PROVE  run'[r].pc # "project"
<1>1. CASE \/ Trigger(r) \/ Fault(r) \/ LabelCheck(r) \/ LabelAppend(r) \/ LabelStage(r)
           \/ Finish(r) \/ CatchRead(r) \/ RecordFailure(r) \/ FailStage(r)
  BY <1>1, OutsideEffect DEF OutsidePcs
<1>2. CASE ReadAsset(r) \/ ReadEvents(r) \/ ReadPreset(r) \/ Skip(r) \/ ProjectSub(r)
  BY <1>2, ReadAssetEffect, ReadEventsEffect, ReadPresetEffect, SkipEffect, ProjectEffect
<1>3. CASE CallUpload(r) \/ CallTrace(r) \/ CallIp(r) \/ CallVault(r)
  BY <1>3, ReplyEffect, RaiseEffect DEF CallUpload, CallTrace, CallIp, CallVault
<1> QED
  BY <1>1, <1>2, <1>3 DEF Step

LEMMA StrikeTyped ==
  ASSUME TypeOK, NEW kind, Strike(kind)
  PROVE  faults' \in Nat
  BY DEF TypeOK, Strike

LEMMA ReplyTyped ==
  ASSUME TypeOK, NEW r \in Runs, run[r].sub \in SubSteps,
         NEW artefact \in Nat, Reply(r, artefact)
  PROVE  run' \in [Runs -> RunStates] /\ faults' \in Nat
<1>1. CASE /\ run' = [run EXCEPT ![r] = [@ EXCEPT !.have[run[r].sub] = artefact, !.pc = "append"]]
           /\ UNCHANGED faults
  <2> DEFINE have == [run[r].have EXCEPT ![run[r].sub] = artefact]
             q    == [run[r] EXCEPT !.have = have, !.pc = "append"]
  <2>1. have \in [SubSteps -> Nat]
    BY Fields
  <2>2. q \in RunStates
    BY <2>1, Fields, PcNames DEF RunStates
  <2>3. run' = [run EXCEPT ![r] = q]
    BY <1>1
  <2> HIDE DEF q
  <2> QED
    BY <1>1, <2>2, <2>3 DEF TypeOK
<1>2. CASE Strike("reply") /\ Raise(r, "fault")
  BY <1>2, RaiseTyped, StrikeTyped DEF Errors
<1> QED
  BY <1>1, <1>2 DEF Reply

-----------------------------------------------------------------------------
(* Type correctness.                                                       *)

LEMMA InitTypeOK == Init => TypeOK
<1> SUFFICES ASSUME Init PROVE TypeOK
  OBVIOUS
<1> USE DEF Init
<1>1. run \in [Runs -> RunStates]
  BY PcNames DEF RunStates, Errors, SubSteps
<1>2. ips \in Seq(IpAssets) /\ vaults \in Seq(Vaults)
  OBVIOUS
<1>3. log \in [SubSteps -> Nat] /\ asset \in [SubSteps -> Nat]
  OBVIOUS
<1> QED
  BY <1>1, <1>2, <1>3 DEF TypeOK, Stages

\* An attempt that has called a port is at one of the four sub-steps.
Working(r) == run[r].pc \in {"append", "project"} => run[r].sub \in SubSteps

TypeInv == TypeOK /\ \A r \in Runs : Working(r)

\* A step of an attempt keeps every variable typed.
LEMMA StepTypeOK ==
  ASSUME TypeOK, NEW r \in Runs, Working(r), Step(r)
  PROVE  TypeOK'
<1>0. /\ run[r] \in RunStates /\ run[r].pc \in Pcs /\ run[r].sub \in 1..5
      /\ run[r].have \in [SubSteps -> Nat]
      /\ run[r].alreadyDone \in SUBSET SubSteps
      /\ run[r].performed \in SUBSET SubSteps
      /\ run[r].preset \in Presets /\ run[r].seen \in Nat /\ run[r].err \in Errors
      /\ run \in [Runs -> RunStates]
  BY Fields DEF TypeOK
<1> USE <1>0, PcNames
<1>1. CASE LabelCheck(r) \/ LabelAppend(r) \/ LabelStage(r)
  <2>1. run' \in [Runs -> RunStates]
    <3>1. \E to \in Pcs : Goto(r, to)
      BY <1>1 DEF LabelCheck, LabelAppend, LabelStage
    <3> QED
      BY <3>1, GotoTyped
  <2>2. CASE LabelCheck(r)
    BY <2>1, <2>2 DEF TypeOK, LabelCheck, dbVars, creatorVars, worldVars
  <2>3. CASE LabelAppend(r)
    BY <2>1, <2>3 DEF TypeOK, LabelAppend, creatorVars, worldVars
  <2>4. CASE LabelStage(r)
    BY <2>1, <2>4 DEF TypeOK, LabelStage, Stages, creatorVars, worldVars
  <2> QED
    BY <1>1, <2>2, <2>3, <2>4
<1>2. CASE ReadAsset(r)
  BY <1>2 DEF TypeOK, ReadAsset, RunStates, dbVars, creatorVars, worldVars
<1>3. CASE ReadEvents(r)
  <2> DEFINE done == Recorded(log)
             pc == CASE ~labeled -> "failed" [] labeled /\ done = SubSteps -> "sub"
                  [] OTHER -> "preset"
             sub == IF labeled /\ done = SubSteps THEN 5 ELSE 1
             err == IF labeled THEN "none" ELSE "order"
  <2>1. done \in SUBSET SubSteps /\ pc \in Pcs /\ sub \in 1..5 /\ err \in Errors
    BY DEF Recorded, Errors
  <2>2. run' = [run EXCEPT ![r] = [@ EXCEPT !.alreadyDone = done, !.pc = pc, !.sub = sub, !.err = err]]
    BY <1>3 DEF ReadEvents
  <2> HIDE DEF done, pc, sub, err
  <2>3. [run[r] EXCEPT !.alreadyDone = done, !.pc = pc, !.sub = sub, !.err = err] \in RunStates
    BY <2>1 DEF RunStates
  <2>4. run' \in [Runs -> RunStates]
    BY <2>2, <2>3
  <2> QED
    BY <1>3, <2>4 DEF TypeOK, ReadEvents, dbVars, creatorVars, worldVars
<1>4. CASE ReadPreset(r)
  BY <1>4 DEF TypeOK, ReadPreset, RunStates, dbVars, creatorVars, worldVars
<1>5. CASE Skip(r)
  <2>1. run[r].sub + 1 \in 1..5
    BY <1>5 DEF Skip, At, SubSteps
  <2>2. run' \in [Runs -> RunStates]
    BY <1>5, <2>1 DEF TypeOK, Skip, RunStates
  <2> QED
    BY <1>5, <2>2 DEF TypeOK, Skip, dbVars, creatorVars, worldVars
<1>6. CASE CallUpload(r)
  <2>1. run[r].sub \in SubSteps /\ uploads + 1 \in Nat
    BY <1>6 DEF CallUpload, Calling, At, SubSteps, TypeOK
  <2>2. run' \in [Runs -> RunStates] /\ faults' \in Nat
    BY <1>6, <2>1, ReplyTyped DEF CallUpload
  <2> QED
    BY <1>6, <2>1, <2>2 DEF TypeOK, CallUpload, dbVars, creatorVars
<1>7. CASE CallTrace(r)
  <2>1. run[r].sub \in SubSteps /\ 1 \in Nat /\ "conflict" \in Errors
    BY <1>7 DEF CallTrace, Calling, At, SubSteps, Errors
  <2>2. run' \in [Runs -> RunStates] /\ faults' \in Nat
    BY <1>7, <2>1, ReplyTyped, RaiseTyped DEF CallTrace, TypeOK
  <2>3. trace' \subseteq Documents
    <3>1. Document(r) \in Documents
      BY DEF Document, Documents, TypeOK, SubSteps
    <3> QED
      BY <1>7, <3>1 DEF CallTrace, TypeOK
  <2> QED
    BY <1>7, <2>2, <2>3 DEF TypeOK, CallTrace, dbVars, creatorVars
<1>8. CASE CallIp(r)
  <2>1. run[r].sub \in SubSteps /\ Len(ips) + 1 \in Nat
    BY <1>8 DEF CallIp, Calling, At, SubSteps, TypeOK
  <2>2. run' \in [Runs -> RunStates] /\ faults' \in Nat
    BY <1>8, <2>1, ReplyTyped DEF CallIp
  <2>3. ips' \in Seq(IpAssets)
    <3>1. [terms |-> run[r].preset, cid |-> run[r].have[1]] \in IpAssets
      BY DEF IpAssets, SubSteps
    <3> QED
      BY <1>8, <3>1 DEF CallIp, TypeOK
  <2> QED
    BY <1>8, <2>2, <2>3 DEF TypeOK, CallIp, dbVars, creatorVars
<1>9. CASE CallVault(r)
  <2>1. run[r].sub \in SubSteps /\ Len(vaults) + 1 \in Nat /\ "missing" \in Errors
    BY <1>9 DEF CallVault, Calling, At, SubSteps, TypeOK, Errors
  <2>2. run' \in [Runs -> RunStates] /\ faults' \in Nat
    BY <1>9, <2>1, ReplyTyped, RaiseTyped DEF CallVault, TypeOK
  <2>3. vaults' \in Seq(Vaults)
    <3>1. [ip |-> run[r].have[3], media |-> run[r].have[1]] \in Vaults
      BY DEF Vaults, SubSteps
    <3> QED
      <4>1. Append(vaults, [ip |-> run[r].have[3], media |-> run[r].have[1]]) \in Seq(Vaults)
        BY <3>1 DEF TypeOK
      <4> QED
        BY <1>9, <4>1 DEF CallVault, TypeOK
  <2> QED
    BY <1>9, <2>2, <2>3 DEF TypeOK, CallVault, dbVars, creatorVars
<1>10. CASE AppendSub(r)
  <2>1. run' \in [Runs -> RunStates] /\ faults' \in Nat
    BY <1>10, GotoTyped, RaiseTyped, StrikeTyped DEF AppendSub, Errors, TypeOK
  <2>2. log' \in [SubSteps -> Nat]
    <3>1. \A s : [log EXCEPT ![s] = run[r].have[s]] \in [SubSteps -> Nat]
      BY DEF TypeOK
    <3> QED
      BY <1>10, <3>1 DEF AppendSub, TypeOK
  <2>3. seq' \in Nat
    BY <1>10 DEF AppendSub, TypeOK
  <2> QED
    BY <1>10, <2>1, <2>2, <2>3 DEF TypeOK, AppendSub, creatorVars, worldVars
<1>11. CASE ProjectSub(r)
  <2> DEFINE q == [run[r] EXCEPT !.performed = @ \cup {run[r].sub}, !.sub = run[r].sub + 1,
                             !.pc = "sub"]
  <2>1. run' \in [Runs -> RunStates] /\ faults' \in Nat
    <3>1. ASSUME Strike("commit"), Raise(r, "fault")
          PROVE  run' \in [Runs -> RunStates] /\ faults' \in Nat
      BY <3>1, RaiseTyped, StrikeTyped DEF Errors
    <3>2. ASSUME run[r].sub \in SubSteps, run' = [run EXCEPT ![r] = q], faults' = faults
          PROVE  run' \in [Runs -> RunStates] /\ faults' \in Nat
      <4>1. run[r].sub + 1 \in 1..5 /\ run[r].performed \cup {run[r].sub} \in SUBSET SubSteps
        BY <3>2 DEF SubSteps
      <4>2. q \in RunStates
        BY <4>1 DEF RunStates
      <4> HIDE DEF q
      <4> QED
        BY <3>2, <4>2 DEF TypeOK
    <3>3. run[r].sub \in SubSteps
      BY <1>11 DEF Working, ProjectSub
    <3>4. \/ run' = [run EXCEPT ![r] = q] /\ faults' = faults
          \/ Strike("commit") /\ Raise(r, "fault")
      BY <1>11 DEF ProjectSub
    <3> QED
      BY <3>1, <3>2, <3>3, <3>4
  <2>2. asset' \in [SubSteps -> Nat]
    BY <1>11 DEF ProjectSub, TypeOK, SubSteps
  <2> QED
    BY <1>11, <2>1, <2>2 DEF TypeOK, ProjectSub, creatorVars, worldVars
<1>12. CASE Finish(r)
  <2>1. run' \in [Runs -> RunStates] /\ faults' \in Nat
    BY <1>12, GotoTyped, RaiseTyped, StrikeTyped DEF Finish, Errors, TypeOK
  <2> QED
    BY <1>12, <2>1 DEF TypeOK, Finish, Stages, creatorVars, worldVars
<1>13. CASE CatchRead(r)
  <2>1. run' \in [Runs -> RunStates]
    <3>1. seq \in Nat
      BY DEF TypeOK
    <3> QED
      BY <1>13, <3>1 DEF CatchRead, RunStates
  <2> QED
    BY <1>13, <2>1 DEF TypeOK, CatchRead, dbVars, creatorVars, worldVars
<1>14. CASE RecordFailure(r)
  <2>1. run' \in [Runs -> RunStates]
    BY <1>14, GotoTyped DEF RecordFailure
  <2>2. Failure(r) \in [sub: SubSteps, at: Nat, completed: SUBSET SubSteps]
    BY DEF Failure, Completed, SubSteps
  <2> QED
    BY <1>14, <2>1, <2>2 DEF TypeOK, RecordFailure, creatorVars, worldVars
<1>15. CASE FailStage(r)
  BY <1>15, GotoTyped DEF TypeOK, FailStage, Stages, creatorVars, worldVars
<1> QED
  BY <1>1, <1>2, <1>3, <1>4, <1>5, <1>6, <1>7, <1>8, <1>9, <1>10, <1>11, <1>12, <1>13,
     <1>14, <1>15 DEF Step

\* So does every other action: a fault, a new attempt, an edit.
LEMMA NextTypeOK ==
  ASSUME TypeInv, [Next]_vars
  PROVE  TypeOK'
<1>0. TypeOK
  BY DEF TypeInv
<1> USE PcNames, <1>0
<1>1. ASSUME NEW r \in Runs, Trigger(r)
      PROVE  TypeOK'
  BY <1>1, GotoTyped DEF TypeOK, Trigger, dbVars, creatorVars, worldVars
<1>2. ASSUME NEW r \in Runs, Step(r)
      PROVE  TypeOK'
  BY <1>2, StepTypeOK DEF TypeInv
<1>3. ASSUME NEW r \in Runs, PortFails(r) \/ DbFails(r)
      PROVE  TypeOK'
  <2>1. run' \in [Runs -> RunStates] /\ faults' \in Nat
    BY <1>3, RaiseTyped, StrikeTyped DEF PortFails, DbFails, Errors
  <2> QED
    BY <1>3, <2>1 DEF TypeOK, PortFails, DbFails, dbVars, creatorVars, worldVars
<1>4. ASSUME NEW r \in Runs, Die(r)
      PROVE  TypeOK'
  <2>1. [run[r] EXCEPT !.pc = "dead", !.err = "fault"] \in RunStates
    BY Fields DEF RunStates, Errors
  <2>2. run' \in [Runs -> RunStates] /\ faults' \in Nat
    BY <1>4, <2>1, StrikeTyped DEF Die, TypeOK
  <2> QED
    BY <1>4, <2>2 DEF TypeOK, Die, dbVars, creatorVars, worldVars
<1>5. CASE Writers
  BY <1>5 DEF TypeOK, Writers, CheckEdit, UpdateProfile, LabelJob, WriteEdit, dbVars, worldVars
<1>6. CASE UNCHANGED vars
  BY <1>6 DEF TypeOK, vars, dbVars, creatorVars, worldVars
<1> QED
  BY <1>1, <1>2, <1>3, <1>4, <1>5, <1>6 DEF Next, Fault

LEMMA NextWorking ==
  ASSUME TypeInv, [Next]_vars
  PROVE  \A r \in Runs : Working(r)'
<1> SUFFICES ASSUME NEW q \in Runs PROVE Working(q)'
  OBVIOUS
<1>0. TypeOK /\ Working(q) /\ run[q] \in RunStates /\ run \in [Runs -> RunStates]
  BY Fields DEF TypeInv, TypeOK
<1>1. ASSUME run'[q] = run[q]
      PROVE  Working(q)'
  BY <1>0, <1>1 DEF Working
<1>2. ASSUME run'[q].pc \notin {"append", "project"}
      PROVE  Working(q)'
  BY <1>2 DEF Working
<1>3. ASSUME NEW r \in Runs, r # q, Trigger(r) \/ Step(r) \/ Fault(r)
      PROVE  Working(q)'
  <2>1. run'[q] = run[q]
    BY <1>0, <1>3, OthersRun
  <2> QED
    BY <1>1, <2>1
<1>4. CASE \/ Trigger(q) \/ Fault(q) \/ LabelCheck(q) \/ LabelAppend(q) \/ LabelStage(q)
           \/ Finish(q) \/ CatchRead(q) \/ RecordFailure(q) \/ FailStage(q)
  <2>1. run'[q].pc \in OutsidePcs
    BY <1>0, <1>4, OutsideEffect
  <2> QED
    BY <1>2, <2>1 DEF OutsidePcs
<1>5. ASSUME NEW s \in SubSteps, Calling(q, s), NEW artefact, Reply(q, artefact)
      PROVE  Working(q)'
  <2>1. run'[q].sub = s
    BY <1>0, <1>5, ReplyEffect DEF Calling, At
  <2> QED
    BY <2>1 DEF Working
<1>6. CASE CallUpload(q) \/ CallTrace(q) \/ CallIp(q) \/ CallVault(q)
  <2>1. \/ \E s \in SubSteps : Calling(q, s) /\ (\E artefact : Reply(q, artefact))
        \/ \E error : Raise(q, error)
    BY <1>6 DEF CallUpload, CallTrace, CallIp, CallVault, SubSteps
  <2>2. ASSUME NEW error, Raise(q, error)
        PROVE  Working(q)'
    BY <1>0, <1>2, <2>2, RaiseEffect
  <2> QED
    BY <1>5, <2>1, <2>2
<1>7. CASE AppendSub(q)
  <2>1. /\ run'[q].sub = run[q].sub /\ run[q].sub \in SubSteps
    BY <1>0, <1>7, GotoEffect, RaiseEffect DEF AppendSub, Working
  <2> QED
    BY <2>1 DEF Working
<1>8. CASE ReadAsset(q) \/ ReadPreset(q) \/ ProjectSub(q)
  <2>1. run'[q].pc \in {"events", "sub", "catch"}
    <3>1. CASE ReadAsset(q) \/ ReadPreset(q)
      BY <1>0, <3>1, ReadAssetEffect, ReadPresetEffect
    <3>2. CASE ProjectSub(q)
      BY <1>0, <3>2, ProjectEffect
    <3> QED
      BY <1>8, <3>1, <3>2
  <2> QED
    BY <1>2, <2>1
<1>9. CASE ReadEvents(q)
  <2>1. run'[q].pc \in {"failed", "sub", "preset"}
    BY <1>0, <1>9, ReadEventsEffect
  <2> QED
    BY <1>2, <2>1
<1>10. CASE Skip(q)
  BY <1>0, <1>2, <1>10, SkipEffect
<1>11. CASE Writers \/ UNCHANGED vars
  BY <1>0, <1>1, <1>11 DEF Writers, CheckEdit, UpdateProfile, LabelJob, WriteEdit, vars
<1> QED
  BY <1>3, <1>4, <1>6, <1>7, <1>8, <1>9, <1>10, <1>11 DEF Next, Step

\* The rows, the services and the attempts only ever hold values of their
\* types, whatever the number of attempts, presets, faults and edits.
THEOREM TypeCorrect == Spec => []TypeOK
<1>1. Init => TypeInv
  BY InitTypeOK DEF Init, TypeInv, Working
<1>2. TypeInv /\ [Next]_vars => TypeInv'
  BY NextTypeOK, NextWorking DEF TypeInv
<1>3. TypeInv => TypeOK
  BY DEF TypeInv
<1> QED
  BY <1>1, <1>2, <1>3, PTL DEF Spec

-----------------------------------------------------------------------------
(* The strict order of the log, under any interleaving.  What an attempt   *)
(* believes about the log is old, but the log only grows: what it saw      *)
(* recorded, and what it recorded itself, is still there.                  *)

Knows(r) ==
  /\ run[r].alreadyDone \subseteq Recorded(log)
  /\ run[r].pc = "preset" => run[r].sub = 1
  /\ run[r].pc \in TryPcs => \A s \in SubSteps : s < run[r].sub => log[s] # 0
  /\ run[r].pc \in {"append", "project"} => run[r].sub \in SubSteps
  /\ run[r].pc = "append" => run[r].have[run[r].sub] # 0
  /\ run[r].pc = "project" => log[run[r].sub] # 0

LogInv ==
  /\ TypeOK
  /\ \A r \in Runs : Knows(r)
  /\ RegisteredMeansRecorded

\* An event that is in the log stays there, and still says the same.
LogGrows == \A s \in SubSteps : log[s] # 0 => log'[s] = log[s]

\* Only the append of a sub-step event changes the log, in the order and
\* with the effect the ledger allows.
LEMMA NextLog ==
  ASSUME LogInv, [Next]_vars
  PROVE  UNCHANGED log \/ L!Next
<1>1. ASSUME NEW r \in Runs, AppendSub(r)
      PROVE  UNCHANGED log \/ L!Next
  <2> DEFINE s == run[r].sub
  <2>1. /\ s \in 1..4 /\ run[r].have[s] # 0
        /\ \A t \in 1..(s - 1) : log[t] # 0
    BY <1>1 DEF AppendSub, LogInv, Knows, SubSteps, TryPcs
  <2>2. CASE log[s] = 0
    <3>1. log' = [log EXCEPT ![s] = run[r].have[s]]
      BY <1>1, <2>2 DEF AppendSub
    <3>2. log'[s] = run[r].have[s]
      BY <2>1, <3>1 DEF LogInv, TypeOK, SubSteps
    <3> QED
      BY <2>1, <2>2, <3>1, <3>2 DEF L!Next, L!Commit
  <2>3. CASE log[s] # 0
    BY <1>1, <2>3 DEF AppendSub
  <2> QED
    BY <2>2, <2>3
<1>2. ASSUME NEW r \in Runs, Step(r), ~AppendSub(r)
      PROVE  UNCHANGED log
  BY <1>2 DEF Step, LabelCheck, LabelAppend, LabelStage, ReadAsset, ReadEvents, ReadPreset,
     Skip, CallUpload, CallTrace, CallIp, CallVault, ProjectSub, Finish, CatchRead,
     RecordFailure, FailStage, dbVars
<1>3. ASSUME NEW r \in Runs, Trigger(r) \/ Fault(r)
      PROVE  UNCHANGED log
  BY <1>3 DEF Trigger, Fault, PortFails, DbFails, Die, dbVars
<1>4. CASE Writers \/ UNCHANGED vars
  BY <1>4 DEF Writers, CheckEdit, UpdateProfile, LabelJob, WriteEdit, vars, dbVars
<1> QED
  BY <1>1, <1>2, <1>3, <1>4 DEF Next

LEMMA NextLogGrows ==
  ASSUME LogInv, [Next]_vars
  PROVE  LogGrows
<1>1. ASSUME NEW s \in 1..4, L!Commit(s)
      PROVE  LogGrows
  BY <1>1 DEF L!Commit, LogGrows, LogInv, TypeOK, SubSteps
<1> QED
  BY <1>1, NextLog DEF LogGrows, L!Next

\* An attempt that does not move keeps knowing what it knew.
LEMMA KnowsStable ==
  ASSUME LogInv, LogGrows, TypeOK', NEW r \in Runs, run'[r] = run[r]
  PROVE  Knows(r)'
  BY DEF LogInv, LogGrows, Knows, Recorded, SubSteps, TypeOK

\* An attempt that leaves the try block, or has not entered it, has nothing
\* to know beyond what it had read.
LEMMA KnowsOutside ==
  ASSUME LogInv, LogGrows, NEW r \in Runs,
         run'[r].alreadyDone = run[r].alreadyDone,
         run'[r].pc \notin TryPcs \cup {"preset"}
  PROVE  Knows(r)'
  BY DEF LogInv, LogGrows, Knows, Recorded, SubSteps, TypeOK, TryPcs

\* The steps that keep an attempt inside the try block, one by one.
LEMMA KnowsInside ==
  ASSUME LogInv, LogGrows, NEW r \in Runs,
         \/ ReadEvents(r) \/ ReadPreset(r) \/ Skip(r) \/ CallUpload(r) \/ CallTrace(r)
         \/ CallIp(r) \/ CallVault(r) \/ AppendSub(r) \/ ProjectSub(r)
  PROVE  Knows(r)'
<1>0. /\ TypeOK /\ Knows(r)
      /\ run \in [Runs -> RunStates] /\ log \in [SubSteps -> Nat]
      /\ run[r].have \in [SubSteps -> Nat] /\ run[r].sub \in 1..5
      /\ run[r] \in RunStates
      /\ \A s \in SubSteps : log[s] # 0 => log'[s] # 0
      /\ Recorded(log) \subseteq Recorded(log')
  BY Fields DEF LogInv, LogGrows, TypeOK, Recorded
<1>1. CASE ReadEvents(r)
  <2> DEFINE done == Recorded(log)
  <2>1. /\ run'[r].alreadyDone = done
        /\ run'[r].pc = IF ~labeled THEN "failed" ELSE IF done = SubSteps THEN "sub" ELSE "preset"
        /\ run'[r].sub = IF labeled /\ done = SubSteps THEN 5 ELSE 1
    BY <1>0, <1>1, ReadEventsEffect
  <2>2. run'[r].pc \in {"failed", "sub", "preset"}
    BY <2>1
  <2>3. run'[r].pc = "preset" => run'[r].sub = 1
    BY <2>1
  <2>4. run'[r].pc = "sub" => done = SubSteps
    BY <2>1
  <2>5. run'[r].pc = "sub" => \A s \in SubSteps : log'[s] # 0
    BY <1>0, <2>4 DEF Recorded
  <2> QED
    BY <1>0, <2>1, <2>2, <2>3, <2>5 DEF Knows, TryPcs
<1>2. CASE ReadPreset(r) \/ Skip(r)
  <2>1. CASE ReadPreset(r)
    <3>1. /\ run'[r].pc = "sub" /\ run'[r].sub = run[r].sub
          /\ run'[r].alreadyDone = run[r].alreadyDone /\ run[r].pc = "preset"
      BY <1>0, <2>1, ReadPresetEffect DEF ReadPreset
    <3> QED
      BY <1>0, <3>1 DEF Knows, TryPcs, SubSteps
  <2>2. CASE Skip(r)
    <3>1. /\ run'[r].pc = "sub" /\ run'[r].sub = run[r].sub + 1
          /\ run[r].sub \in SubSteps /\ run[r].sub \in run[r].alreadyDone
          /\ run'[r].alreadyDone = run[r].alreadyDone /\ run[r].pc = "sub"
      BY <1>0, <2>2, SkipEffect DEF Skip, At
    <3>2. \A s \in SubSteps : s < run[r].sub + 1 => log[s] # 0
      BY <1>0, <3>1 DEF Knows, TryPcs, Recorded, SubSteps
    <3> QED
      BY <1>0, <3>1, <3>2 DEF Knows, TryPcs
  <2> QED
    BY <1>2, <2>1, <2>2
<1>3. ASSUME NEW artefact \in Nat, artefact # 0, At(r, run[r].sub), run[r].sub \in SubSteps,
             Reply(r, artefact)
      PROVE  Knows(r)'
  <2>1. CASE Strike("reply") /\ Raise(r, "fault")
    BY <1>0, <2>1, KnowsOutside DEF Raise, TryPcs, RunStates
  <2>2. CASE run' = [run EXCEPT ![r] = [@ EXCEPT !.have[run[r].sub] = artefact, !.pc = "append"]]
    <3>1. /\ run'[r].pc = "append" /\ run'[r].sub = run[r].sub
          /\ run'[r].alreadyDone = run[r].alreadyDone
          /\ run'[r].have = [run[r].have EXCEPT ![run[r].sub] = artefact]
      BY <1>0, <2>2 DEF RunStates
    <3> QED
      BY <1>0, <1>3, <3>1 DEF Knows, At, TryPcs
  <2> QED
    BY <1>3, <2>1, <2>2 DEF Reply
<1>4. ASSUME NEW error, Raise(r, error)
      PROVE  Knows(r)'
  BY <1>0, <1>4, KnowsOutside DEF Raise, TryPcs, RunStates
<1>5. CASE CallUpload(r)
  <2>1. /\ uploads + 1 \in Nat /\ uploads + 1 # 0
        /\ Reply(r, uploads + 1) /\ At(r, 1)
    BY <1>0, <1>5 DEF CallUpload, Calling, TypeOK
  <2>2. At(r, run[r].sub) /\ run[r].sub \in SubSteps
    BY <2>1 DEF At, SubSteps
  <2> QED
    BY <1>3, <2>1, <2>2
<1>6. CASE CallTrace(r)
  BY <1>0, <1>3, <1>4, <1>6 DEF CallTrace, Calling, At, SubSteps
<1>7. CASE CallIp(r)
  BY <1>0, <1>3, <1>7 DEF CallIp, Calling, At, TypeOK, SubSteps
<1>8. CASE CallVault(r)
  BY <1>0, <1>3, <1>4, <1>8 DEF CallVault, Calling, At, TypeOK, SubSteps
<1>9. CASE AppendSub(r)
  <2> DEFINE s == run[r].sub
  <2>1. CASE Goto(r, "project")
    <3>1. /\ run'[r].pc = "project" /\ run'[r].sub = s
          /\ run'[r].alreadyDone = run[r].alreadyDone
      BY <1>0, <2>1 DEF Goto, RunStates
    <3>2. s \in SubSteps /\ log'[s] # 0
      BY <1>0, <1>9 DEF AppendSub, Knows
    <3> QED
      BY <1>0, <1>9, <3>1, <3>2 DEF Knows, AppendSub, TryPcs
  <2> QED
    BY <1>4, <1>9, <2>1 DEF AppendSub
<1>10. CASE ProjectSub(r)
  <2> DEFINE s == run[r].sub
  <2>1. CASE run'[r].pc = "sub" /\ run'[r].sub = s + 1
    <3>1. run'[r].alreadyDone = run[r].alreadyDone
      BY <1>0, <1>10, ProjectEffect
    <3>2. \A t \in SubSteps : t < s + 1 => log[t] # 0
      BY <1>0, <1>10 DEF ProjectSub, Knows, TryPcs, SubSteps
    <3> QED
      BY <1>0, <2>1, <3>1, <3>2 DEF Knows
  <2>2. CASE run'[r].pc = "catch"
    BY <1>0, <1>10, <2>2, ProjectEffect, KnowsOutside DEF TryPcs
  <2> QED
    BY <1>0, <1>10, <2>1, <2>2, ProjectEffect
<1> QED
  BY <1>1, <1>2, <1>5, <1>6, <1>7, <1>8, <1>9, <1>10

LEMMA LogInvTyped == LogInv => TypeInv
  BY DEF LogInv, Knows, TypeInv, Working

\* The log invariant is inductive.
LEMMA NextLogInv ==
  ASSUME LogInv, [Next]_vars
  PROVE  LogInv'
<1>0. TypeOK /\ TypeOK' /\ LogGrows /\ run \in [Runs -> RunStates]
  BY LogInvTyped, NextTypeOK, NextLogGrows DEF LogInv, TypeOK
<1>1. ASSUME NEW r \in Runs, Step(r) \/ Trigger(r) \/ Fault(r),
             NEW q \in Runs, q # r
      PROVE  run'[q] = run[q]
  BY <1>0, <1>1, OthersRun
<1>2. ASSUME NEW r \in Runs, Step(r) \/ Trigger(r) \/ Fault(r)
      PROVE  Knows(r)'
  <2>1. CASE \/ Trigger(r) \/ Fault(r) \/ LabelCheck(r) \/ LabelAppend(r) \/ LabelStage(r)
             \/ ReadAsset(r) \/ CatchRead(r) \/ RecordFailure(r) \/ FailStage(r) \/ Finish(r)
    <3>1. /\ run'[r].alreadyDone = run[r].alreadyDone
          /\ run'[r].pc \notin TryPcs \cup {"preset"}
      <4>1. CASE ReadAsset(r)
        BY <1>0, <4>1, ReadAssetEffect DEF TryPcs
      <4>2. CASE ~ReadAsset(r)
        BY <1>0, <2>1, <4>2, OutsideEffect DEF OutsidePcs, TryPcs
      <4> QED
        BY <4>1, <4>2
    <3> QED
      BY <1>0, <3>1, KnowsOutside
  <2> QED
    BY <1>0, <1>2, <2>1, KnowsInside DEF Step
<1>3. ASSUME NEW r \in Runs, Step(r) \/ Trigger(r) \/ Fault(r)
      PROVE  RegisteredMeansRecorded'
  <2>1. CASE Finish(r)
    <3>1. \A s \in SubSteps : log[s] # 0
      BY <2>1 DEF Finish, At, LogInv, Knows, TryPcs, SubSteps
    <3>2. log' = log
      BY <2>1 DEF Finish
    <3> QED
      BY <3>1, <3>2 DEF RegisteredMeansRecorded, Recorded
  <2>2. CASE ~Finish(r)
    <3>1. stage' = "REGISTERED" => stage = "REGISTERED"
      BY <1>3, <2>2 DEF Step, Trigger, Fault, LabelCheck, LabelAppend, LabelStage, ReadAsset,
         ReadEvents, ReadPreset, Skip, CallUpload, CallTrace, CallIp, CallVault, AppendSub,
         ProjectSub, CatchRead, RecordFailure, FailStage, PortFails, DbFails, Die, dbVars
    <3> QED
      BY <1>0, <3>1 DEF LogInv, RegisteredMeansRecorded, LogGrows, Recorded
  <2> QED
    BY <2>1, <2>2
<1>4. CASE Writers \/ UNCHANGED vars
  <2>1. run' = run /\ stage' = stage
    BY <1>4 DEF Writers, CheckEdit, UpdateProfile, LabelJob, WriteEdit, vars, dbVars
  <2> QED
    BY <1>0, <2>1, KnowsStable DEF LogInv, RegisteredMeansRecorded, LogGrows, Recorded
<1> QED
  BY <1>0, <1>1, <1>2, <1>3, <1>4, KnowsStable DEF Next, LogInv

LEMMA InitLogInv == Init => LogInv
  BY InitTypeOK DEF Init, LogInv, Knows, Recorded, SubSteps, TryPcs, RegisteredMeansRecorded

LEMMA LogInvariant == Spec => []LogInv
  BY InitLogInv, NextLogInv, PTL DEF Spec

\* However many attempts interleave and whatever fails, the log of the stage
\* is the ledger: each sub-step once, in order, never changed.
THEOREM LogIsLedger == Spec => LedgerRefined
<1>1. Init => L!Init
  BY DEF Init, L!Init, SubSteps
<1>2. LogInv /\ [Next]_vars => [L!Next]_log
  BY NextLog
<1> QED
  BY <1>1, <1>2, LogInvariant, PTL DEF Spec, LedgerRefined, L!Spec

\* REGISTERED is only ever shown for an asset whose log is complete.
THEOREM RegisteredIsComplete == Spec => []RegisteredMeansRecorded
<1>1. LogInv => RegisteredMeansRecorded
  BY DEF LogInv
<1> QED
  BY <1>1, LogInvariant, PTL

-----------------------------------------------------------------------------
(* One attempt at a time: the row and the vault agree with the log.  The   *)
(* attempt in progress then knows exactly which events are missing, and    *)
(* each artefact it holds is the one in the log, or null.                  *)

Alone == \A r, q \in Runs : Active(r) /\ Active(q) => r = q

Holds(r) ==
  /\ run[r].pc \in {"events", "preset"} \cup TryPcs =>
       \A s \in SubSteps : \/ run[r].pc = "append" /\ s = run[r].sub
                          \/ run[r].have[s] \in {0, log[s]}
  /\ run[r].pc \in {"preset", "sub", "append"} =>
       \A s \in SubSteps : s >= run[r].sub /\ s \notin run[r].alreadyDone => log[s] = 0
  /\ run[r].pc = "append" => run[r].sub \notin run[r].alreadyDone
  /\ run[r].pc = "project" =>
       \A s \in SubSteps : s > run[r].sub /\ s \notin run[r].alreadyDone => log[s] = 0
  /\ run[r].pc = "append" /\ run[r].sub = 4 =>
       /\ run[r].have[4] \in 1..Len(vaults)
       /\ vaults[run[r].have[4]] = [ip |-> log[3], media |-> log[1]]

VaultKnown == log[4] # 0 => log[1] # 0 /\ log[3] # 0 /\ log[4] \in 1..Len(vaults)

SeqInv ==
  /\ LogInv
  /\ Alone
  /\ \A r \in Runs : Active(r) => Holds(r)
  /\ ProjectionFromLog
  /\ VaultKnown /\ VaultGated

LEMMA InitSeqInv == Init => SeqInv
  BY InitLogInv DEF Init, SeqInv, Alone, Active, ActivePcs, LabelPcs, TryPcs, CatchPcs,
     ProjectionFromLog, VaultKnown, VaultGated, SubSteps

\* Only an attempt in progress takes a step or meets a fault.
LEMMA ActsWhenActive ==
  ASSUME NEW r \in Runs, Step(r) \/ Fault(r)
  PROVE  Active(r)
  BY DEF Step, Fault, LabelCheck, LabelAppend, LabelStage, ReadAsset, ReadEvents,
     ReadPreset, Skip, CallUpload, CallTrace, CallIp, CallVault, Calling, At, AppendSub,
     ProjectSub, Finish, CatchRead, RecordFailure, FailStage, PortFails, DbFails, Die,
     Active, ActivePcs, LabelPcs, TryPcs, CatchPcs

\* A step belongs to the one active attempt, and leaves no other active.
LEMMA AloneStep ==
  ASSUME SeqInv, Overlap = FALSE, NEW r \in Runs, Step(r) \/ Trigger(r) \/ Fault(r)
  PROVE  \A q \in Runs : q # r => ~Active(q) /\ ~Active(q)'
<1>1. CASE Trigger(r)
  BY <1>1 DEF Trigger, Goto, SeqInv, LogInv, TypeOK, Active
<1>2. CASE Step(r) \/ Fault(r)
  <2>1. Active(r)
    BY <1>2, ActsWhenActive
  <2>2. \A q \in Runs : q # r => run'[q] = run[q]
    BY <1>2, OthersRun DEF SeqInv, LogInv
  <2> QED
    BY <2>1, <2>2 DEF SeqInv, Alone, Active
<1> QED
  BY <1>1, <1>2

\* Outside the reads and the try block an attempt holds nothing.
LEMMA HoldsOutside ==
  ASSUME NEW r \in Runs, run'[r].pc \notin {"events", "preset"} \cup TryPcs
  PROVE  Holds(r)'
  BY DEF Holds, TryPcs

\* The reply of a call: the new artefact is in hand, the others are as before.
LEMMA HoldsReply ==
  ASSUME SeqInv, NEW r \in Runs, Active(r), NEW s \in SubSteps, Calling(r, s),
         NEW artefact \in Nat, Reply(r, artefact), UNCHANGED log,
         s = 4 => /\ artefact \in 1..Len(vaults')
                  /\ vaults'[artefact] = [ip |-> log[3], media |-> log[1]]
  PROVE  Holds(r)'
<1>0. /\ Holds(r) /\ run[r].sub = s /\ run[r].pc = "sub" /\ s \notin run[r].alreadyDone
      /\ run \in [Runs -> RunStates] /\ run[r] \in RunStates
      /\ run[r].have \in [SubSteps -> Nat]
  BY Fields DEF SeqInv, LogInv, TypeOK, Calling, At
<1>1. CASE Strike("reply") /\ Raise(r, "fault")
  BY <1>0, <1>1, HoldsOutside DEF Raise, TryPcs, RunStates
<1>2. CASE run' = [run EXCEPT ![r] = [@ EXCEPT !.have[run[r].sub] = artefact, !.pc = "append"]]
  <2>1. /\ run'[r].pc = "append" /\ run'[r].sub = s
        /\ run'[r].alreadyDone = run[r].alreadyDone
        /\ run'[r].have = [run[r].have EXCEPT ![s] = artefact]
    BY <1>0, <1>2 DEF RunStates
  <2> QED
    BY <1>0, <2>1 DEF Holds, TryPcs, SubSteps
<1> QED
  BY <1>1, <1>2 DEF Reply

LEMMA HoldsStep ==
  ASSUME SeqInv, Overlap = FALSE, NEW r \in Runs, Active(r), Step(r)
  PROVE  Holds(r)'
<1>0. /\ TypeOK /\ Knows(r) /\ Holds(r) /\ ProjectionFromLog
      /\ run \in [Runs -> RunStates] /\ run[r] \in RunStates
      /\ log \in [SubSteps -> Nat] /\ asset \in [SubSteps -> Nat]
      /\ run[r].have \in [SubSteps -> Nat] /\ run[r].sub \in 1..5
  BY Fields DEF SeqInv, LogInv, TypeOK
<1>1. ASSUME NEW error, Raise(r, error)
      PROVE  Holds(r)'
  BY <1>0, <1>1, HoldsOutside DEF Raise, TryPcs, RunStates
<1>2. CASE \/ LabelCheck(r) \/ LabelAppend(r) \/ LabelStage(r)
           \/ CatchRead(r) \/ RecordFailure(r) \/ FailStage(r)
  BY <1>0, <1>2, OutsideEffect, HoldsOutside DEF OutsidePcs, TryPcs
<1>3. CASE Finish(r)
  BY <1>0, <1>3, OutsideEffect, HoldsOutside DEF OutsidePcs, TryPcs
<1>4. CASE ReadAsset(r)
  <2>1. run'[r].pc = "events" /\ run'[r].have = asset /\ log' = log
    BY <1>0, <1>4, ReadAssetEffect DEF ReadAsset, dbVars
  <2> QED
    BY <1>0, <2>1 DEF Holds, ProjectionFromLog
<1>5. CASE ReadEvents(r)
  <2>1. /\ run'[r].alreadyDone = Recorded(log)
        /\ run'[r].pc \in {"failed", "sub", "preset"}
        /\ run'[r].have = run[r].have /\ run[r].pc = "events"
    BY <1>0, <1>5, ReadEventsEffect DEF ReadEvents
  <2>2. log' = log
    BY <1>5 DEF ReadEvents, dbVars
  <2> QED
    BY <1>0, <2>1, <2>2 DEF Holds, Recorded, TryPcs
<1>6. CASE ReadPreset(r) \/ Skip(r)
  <2>1. /\ run'[r].pc = "sub" /\ run'[r].have = run[r].have
        /\ run'[r].alreadyDone = run[r].alreadyDone
        /\ run'[r].sub \in {run[r].sub, run[r].sub + 1}
        /\ run[r].pc \in {"preset", "sub"} /\ log' = log
    BY <1>0, <1>6, ReadPresetEffect, SkipEffect DEF ReadPreset, Skip, At, dbVars
  <2>2. \A s \in SubSteps : s >= run'[r].sub => s >= run[r].sub
    BY <1>0, <2>1 DEF SubSteps
  <2> QED
    BY <1>0, <2>1, <2>2 DEF Holds, TryPcs
<1>7. CASE CallUpload(r)
  <2>1. uploads + 1 \in Nat /\ 1 \in SubSteps
    BY <1>0 DEF TypeOK, SubSteps
  <2> QED
    BY <1>7, <2>1, HoldsReply DEF CallUpload, dbVars
<1>8. CASE CallTrace(r)
  <2>1. 1 \in Nat /\ 2 \in SubSteps
    BY DEF SubSteps
  <2> QED
    BY <1>1, <1>8, <2>1, HoldsReply DEF CallTrace, dbVars
<1>9. CASE CallIp(r)
  <2>1. Len(ips) + 1 \in Nat /\ 3 \in SubSteps
    BY <1>0 DEF TypeOK, SubSteps
  <2> QED
    BY <1>9, <2>1, HoldsReply DEF CallIp, dbVars
<1>10. CASE CallVault(r)
  <2> DEFINE vault == [ip |-> run[r].have[3], media |-> run[r].have[1]]
  <2>1. CASE ~HasInputs(r)
    BY <1>1, <1>10, <2>1 DEF CallVault
  <2>2. CASE HasInputs(r)
    <3>1. Len(vaults) + 1 \in Nat /\ 4 \in SubSteps /\ log' = log
      BY <1>0, <1>10 DEF CallVault, TypeOK, SubSteps, dbVars
    <3>2. vaults' = Append(vaults, vault) /\ Reply(r, Len(vaults) + 1) /\ Calling(r, 4)
      BY <1>10, <2>2 DEF CallVault
    <3>3. vault \in Vaults
      BY <1>0 DEF Vaults, SubSteps
    <3>4. Len(vaults) + 1 \in 1..Len(vaults') /\ vaults'[Len(vaults) + 1] = vault
      BY <1>0, <3>2, <3>3 DEF TypeOK
    <3>5. vault = [ip |-> log[3], media |-> log[1]]
      BY <1>0, <2>2, <3>2 DEF Holds, HasInputs, Calling, At, TryPcs, SubSteps
    <3> QED
      BY <3>1, <3>2, <3>4, <3>5, HoldsReply
  <2> QED
    BY <2>1, <2>2
<1>11. CASE AppendSub(r)
  <2> DEFINE s == run[r].sub
  <2>1. /\ s \in SubSteps /\ log[s] = 0
        /\ log' = [log EXCEPT ![s] = run[r].have[s]]
    BY <1>0, <1>11 DEF AppendSub, Knows, Holds
  <2>2. CASE Goto(r, "project")
    <3>1. /\ run'[r].pc = "project" /\ run'[r].sub = s /\ run'[r].have = run[r].have
          /\ run'[r].alreadyDone = run[r].alreadyDone
      BY <1>0, <2>2 DEF Goto, RunStates
    <3>2. run[r].pc = "append"
      BY <1>11 DEF AppendSub
    <3>3. \A t \in SubSteps : run[r].have[t] \in {0, log'[t]}
      <4>1. \A t \in SubSteps : t = s => log'[t] = run[r].have[t]
        BY <1>0, <2>1
      <4>2. \A t \in SubSteps : t # s => log'[t] = log[t] /\ run[r].have[t] \in {0, log[t]}
        BY <1>0, <2>1, <3>2 DEF Holds, TryPcs
      <4> QED
        BY <4>1, <4>2
    <3>4. \A t \in SubSteps : t > s /\ t \notin run[r].alreadyDone => log'[t] = 0
      <4>1. \A t \in SubSteps : t >= s /\ t \notin run[r].alreadyDone => log[t] = 0
        BY <1>0, <3>2 DEF Holds
      <4>2. \A t \in SubSteps : t > s => t >= s /\ t # s
        BY <2>1 DEF SubSteps
      <4>3. \A t \in SubSteps : t # s => log'[t] = log[t]
        BY <1>0, <2>1
      <4> QED
        BY <4>1, <4>2, <4>3
    <3> QED
      BY <3>1, <3>3, <3>4 DEF Holds
  <2> QED
    BY <1>1, <1>11, <2>2 DEF AppendSub
<1>12. CASE ProjectSub(r)
  <2> DEFINE s == run[r].sub
  <2>1. run'[r].have = run[r].have /\ run'[r].alreadyDone = run[r].alreadyDone
    BY <1>0, <1>12, ProjectEffect
  <2>2. CASE run'[r].pc = "sub" /\ run'[r].sub = s + 1
    BY <1>0, <1>12, <2>1, <2>2 DEF Holds, ProjectSub, TryPcs, SubSteps
  <2>3. CASE run'[r].pc = "catch"
    BY <2>3, HoldsOutside DEF TryPcs
  <2> QED
    BY <1>0, <1>12, <2>2, <2>3, ProjectEffect
<1> QED
  BY <1>2, <1>3, <1>4, <1>5, <1>6, <1>7, <1>8, <1>9, <1>10, <1>11, <1>12 DEF Step

\* What is shared between attempts is kept by each statement of the active one.
LEMMA SharedStep ==
  ASSUME SeqInv, Overlap = FALSE, TypeOK', NEW r \in Runs, Active(r), Step(r)
  PROVE  (ProjectionFromLog /\ VaultKnown /\ VaultGated)'
<1>0. /\ TypeOK /\ Knows(r) /\ Holds(r) /\ ProjectionFromLog /\ VaultKnown /\ VaultGated
      /\ log \in [SubSteps -> Nat] /\ asset \in [SubSteps -> Nat] /\ run[r].sub \in 1..5
  BY Fields DEF SeqInv, LogInv, TypeOK
<1>1. CASE AppendSub(r)
  <2> DEFINE s == run[r].sub
  <2>1. /\ s \in SubSteps /\ log[s] = 0 /\ run[r].have[s] # 0
        /\ log' = [log EXCEPT ![s] = run[r].have[s]] /\ asset' = asset /\ vaults' = vaults
        /\ \A t \in SubSteps : t < s => log[t] # 0
    BY <1>0, <1>1 DEF AppendSub, Knows, Holds, TryPcs, worldVars
  <2>2. ProjectionFromLog'
    BY <1>0, <2>1 DEF ProjectionFromLog
  <2>3. CASE s = 4
    <3>1. /\ log'[4] = run[r].have[4] /\ log'[1] = log[1] /\ log'[3] = log[3]
          /\ log[1] # 0 /\ log[3] # 0
      BY <1>0, <2>1, <2>3 DEF SubSteps
    <3>2. /\ run[r].have[4] \in 1..Len(vaults)
          /\ vaults[run[r].have[4]] = [ip |-> log[3], media |-> log[1]]
      BY <1>0, <1>1, <2>3 DEF AppendSub, Holds
    <3> QED
      BY <2>1, <2>2, <3>1, <3>2 DEF VaultKnown, VaultGated
  <2>4. CASE s # 4
    <3>1. log'[4] = log[4] /\ (log[4] # 0 => log'[3] = log[3] /\ log'[1] = log[1])
      BY <1>0, <2>1, <2>4 DEF SubSteps, VaultKnown
    <3> QED
      BY <1>0, <2>1, <2>2, <3>1 DEF VaultKnown, VaultGated
  <2> QED
    BY <2>3, <2>4
<1>2. CASE ProjectSub(r)
  <2> DEFINE s == run[r].sub
  <2>1. /\ s \in SubSteps /\ run[r].have[s] \in {0, log[s]}
        /\ asset' = [asset EXCEPT ![s] = run[r].have[s]] /\ log' = log /\ vaults' = vaults
    BY <1>0, <1>2 DEF ProjectSub, Knows, Holds, TryPcs, worldVars
  <2> QED
    BY <1>0, <2>1 DEF ProjectionFromLog, VaultKnown, VaultGated
<1>3. CASE CallVault(r)
  <2>1. /\ log' = log /\ asset' = asset
        /\ \/ vaults' = vaults
           \/ \E v \in Vaults : vaults' = Append(vaults, v)
    <3>1. [ip |-> run[r].have[3], media |-> run[r].have[1]] \in Vaults
      BY <1>0, Fields DEF Vaults, SubSteps
    <3> QED
      BY <1>3, <3>1 DEF CallVault, dbVars
  <2>2. /\ Len(vaults) \in Nat
        /\ Len(vaults') >= Len(vaults)
        /\ \A i \in 1..Len(vaults) : vaults'[i] = vaults[i]
    <3>1. vaults \in Seq(Vaults)
      BY <1>0 DEF TypeOK
    <3>2. CASE vaults' = vaults
      BY <3>1, <3>2
    <3>3. ASSUME NEW v \in Vaults, vaults' = Append(vaults, v)
          PROVE  /\ Len(vaults) \in Nat
                 /\ Len(vaults') >= Len(vaults)
                 /\ \A i \in 1..Len(vaults) : vaults'[i] = vaults[i]
      BY <3>1, <3>3
    <3> QED
      BY <2>1, <3>2, <3>3
  <2>3. Len(vaults') \in Nat
    BY DEF TypeOK
  <2> QED
    BY <1>0, <2>1, <2>2, <2>3 DEF ProjectionFromLog, VaultKnown, VaultGated
<1>4. CASE ~AppendSub(r) /\ ~ProjectSub(r) /\ ~CallVault(r)
  <2>1. log' = log /\ asset' = asset /\ vaults' = vaults
    BY <1>4 DEF Step, LabelCheck, LabelAppend, LabelStage, ReadAsset, ReadEvents, ReadPreset,
       Skip, CallUpload, CallTrace, CallIp, Finish, CatchRead, RecordFailure, FailStage,
       dbVars, worldVars
  <2> QED
    BY <1>0, <2>1 DEF ProjectionFromLog, VaultKnown, VaultGated
<1> QED
  BY <1>1, <1>2, <1>3, <1>4

LEMMA NextSeqInv ==
  ASSUME SeqInv, Overlap = FALSE, [Next]_vars
  PROVE  SeqInv'
<1>0. LogInv' /\ TypeOK'
  BY NextLogInv DEF SeqInv, LogInv
<1>1. ASSUME NEW r \in Runs, Step(r) \/ Trigger(r) \/ Fault(r),
             Active(r)' => Holds(r)',
             (ProjectionFromLog /\ VaultKnown /\ VaultGated)'
      PROVE  SeqInv'
  BY <1>0, <1>1, AloneStep DEF SeqInv, Alone
<1>2. ASSUME NEW r \in Runs, Step(r)
      PROVE  SeqInv'
  <2>1. Active(r)
    BY <1>2, ActsWhenActive
  <2> QED
    BY <1>0, <1>1, <1>2, <2>1, HoldsStep, SharedStep
<1>3. ASSUME NEW r \in Runs, Trigger(r) \/ Fault(r)
      PROVE  SeqInv'
  <2>1. run'[r].pc \in OutsidePcs
    BY <1>3, OutsideEffect DEF SeqInv, LogInv
  <2>2. log' = log /\ asset' = asset /\ vaults' = vaults
    BY <1>3 DEF Trigger, Fault, PortFails, DbFails, Die, dbVars, worldVars
  <2>3. Holds(r)'
    BY <2>1, HoldsOutside DEF OutsidePcs, TryPcs
  <2> QED
    BY <1>1, <1>3, <2>2, <2>3 DEF SeqInv, ProjectionFromLog, VaultKnown, VaultGated
<1>4. CASE Writers \/ UNCHANGED vars
  <2>1. run' = run /\ log' = log /\ asset' = asset /\ vaults' = vaults
    BY <1>4 DEF Writers, CheckEdit, UpdateProfile, LabelJob, WriteEdit, vars, dbVars, worldVars
  <2> QED
    BY <1>0, <2>1 DEF SeqInv, Alone, Active, Holds, ProjectionFromLog, VaultKnown, VaultGated
<1> QED
  BY <1>2, <1>3, <1>4 DEF Next

\* As long as attempts do not overlap, the row can be rebuilt from the log
\* and the vault is gated by the recorded ipId, whatever fails and however
\* often the creator retries.
THEOREM SequentialAttemptsAgree ==
  ASSUME Overlap = FALSE
  PROVE  Spec => [](ProjectionFromLog /\ VaultGated)
<1>1. Init => SeqInv
  BY InitSeqInv
<1>2. SeqInv /\ [Next]_vars => SeqInv'
  BY NextSeqInv
<1>3. SeqInv => ProjectionFromLog /\ VaultGated
  BY DEF SeqInv
<1> QED
  BY <1>1, <1>2, <1>3, PTL DEF Spec

-----------------------------------------------------------------------------
(* The artefacts a retry leaves behind.  Everything made outside is in the *)
(* log, in the hands of the one active attempt, or paid for by a fault.    *)

MadeUploads == Missing(uploads, 1)
MadeIps     == Missing(Len(ips), 3)
MadeVaults  == Missing(Len(vaults), 4)
Made == MadeUploads + MadeIps + MadeVaults

LEMMA OrphansSum ==
  /\ Orphans = Made - Cardinality(InHand)
  /\ Orphans' = Made' - Cardinality(InHand)'
<1>1. Orphans = Made - Cardinality(InHand)
  BY DEF Orphans, Made, MadeUploads, MadeIps, MadeVaults
<1>2. Orphans' = Made' - Cardinality(InHand)'
  BY DEF Orphans, Made, MadeUploads, MadeIps, MadeVaults
<1> QED
  BY <1>1, <1>2

\* 1 if attempt r holds an artefact it has not recorded yet, else 0.
Hand(r) == IF run[r].pc = "append" /\ run[r].sub # 2 THEN 1 ELSE 0

\* A set with no other element than r has one element or none.
LEMMA AtMostOne ==
  ASSUME NEW S, NEW r, S \subseteq {r}
  PROVE  Cardinality(S) = IF r \in S THEN 1 ELSE 0
<1>1. S = {} \/ S = {r}
  OBVIOUS
<1> QED
  BY <1>1, FS_EmptySet, FS_Singleton

LEMMA MadeTyped ==
  ASSUME TypeOK, TypeOK'
  PROVE  /\ uploads \in Nat /\ Len(ips) \in Nat /\ Len(vaults) \in Nat
         /\ MadeUploads \in Int /\ MadeIps \in Int /\ MadeVaults \in Int /\ Made \in Int
         /\ MadeUploads' \in Int /\ MadeIps' \in Int /\ MadeVaults' \in Int /\ Made' \in Int
<1>1. /\ uploads \in Nat /\ Len(ips) \in Nat /\ Len(vaults) \in Nat
      /\ uploads' \in Nat /\ Len(ips') \in Nat /\ Len(vaults') \in Nat
  BY DEF TypeOK
<1>2. /\ MadeUploads \in Int /\ MadeIps \in Int /\ MadeVaults \in Int
      /\ MadeUploads' \in Int /\ MadeIps' \in Int /\ MadeVaults' \in Int
  BY <1>1 DEF MadeUploads, MadeIps, MadeVaults, Missing
<1> QED
  BY <1>1, <1>2 DEF Made

\* While an attempt steps it is the only one that may hold an artefact.
LEMMA InHandCounted ==
  ASSUME SeqInv, Overlap = FALSE, NEW r \in Runs, Step(r) \/ Trigger(r) \/ Fault(r)
  PROVE  /\ Cardinality(InHand) = Hand(r)
         /\ Cardinality(InHand)' = Hand(r)'
<1>1. \A q \in Runs : q # r => ~Active(q) /\ ~Active(q)'
  BY AloneStep
<1>2. InHand \subseteq {r} /\ InHand' \subseteq {r}
  BY <1>1 DEF InHand, Active, ActivePcs, TryPcs
<1>3. Cardinality(InHand) = IF r \in InHand THEN 1 ELSE 0
  BY <1>2, AtMostOne
<1>4. Cardinality(InHand') = IF r \in InHand' THEN 1 ELSE 0
  BY <1>2, AtMostOne
<1> QED
  BY <1>3, <1>4 DEF InHand, Hand

\* A reply that arrives is in hand; one that is lost is a fault.
LEMMA ReplyCounted ==
  ASSUME TypeOK, NEW r \in Runs, NEW s \in SubSteps, Calling(r, s),
         NEW artefact, Reply(r, artefact)
  PROVE  /\ Hand(r) = 0
         /\ s # 2 => faults' + Hand(r)' = faults + 1
         /\ faults' >= faults
<1>1. run[r].pc = "sub" /\ run[r].sub = s /\ faults \in Nat
  BY DEF Calling, At, TypeOK
<1>2. /\ run'[r].sub = s
      /\ \/ run'[r].pc = "append" /\ faults' = faults
         \/ run'[r].pc = "catch" /\ faults' = faults + 1
  BY <1>1, ReplyEffect
<1> QED
  BY <1>1, <1>2 DEF Hand

\* Per step, what is made is covered by what is in hand and by the faults.
Covered(r) == Made' - Made <= (faults' - faults) + (Hand(r)' - Hand(r))

LEMMA StepCovered ==
  ASSUME SeqInv, TypeOK', NEW r \in Runs, Active(r), Step(r) \/ Fault(r)
  PROVE  Covered(r)
<1>0. /\ TypeOK /\ Knows(r) /\ Holds(r) /\ run[r].sub \in 1..5
      /\ log \in [SubSteps -> Nat] /\ ips \in Seq(IpAssets) /\ vaults \in Seq(Vaults)
  BY Fields DEF SeqInv, LogInv, TypeOK
<1>1. /\ faults \in Nat /\ faults' \in Nat /\ Hand(r) \in Int /\ Hand(r)' \in Int
      /\ Hand(r) <= 1 /\ Hand(r)' >= 0
  BY <1>0 DEF TypeOK, Hand
<1>2. /\ uploads \in Nat /\ Len(ips) \in Nat /\ Len(vaults) \in Nat
      /\ MadeUploads \in Int /\ MadeIps \in Int /\ MadeVaults \in Int
  BY <1>0, MadeTyped
<1>3. Made \in Int /\ Made' \in Int
  BY <1>0, MadeTyped
<1>4. ASSUME Made' = Made, faults' >= faults, Hand(r) = 0
      PROVE  Covered(r)
  BY <1>1, <1>3, <1>4 DEF Covered
<1>5. ASSUME Made' = Made + 1, faults' + Hand(r)' = faults + 1, Hand(r) = 0
      PROVE  Covered(r)
  BY <1>1, <1>3, <1>5 DEF Covered
<1>6. ASSUME UNCHANGED <<log, uploads, ips, vaults>>
      PROVE  Made' = Made
  BY <1>6 DEF Made, MadeUploads, MadeIps, MadeVaults, Missing
<1>7. CASE CallUpload(r)
  <2>1. Calling(r, 1) /\ Reply(r, uploads + 1) /\ 1 \in SubSteps
    BY <1>7 DEF CallUpload, SubSteps
  <2>2. Hand(r) = 0 /\ faults' + Hand(r)' = faults + 1
    BY <1>0, <2>1, ReplyCounted
  <2>3. uploads' = uploads + 1 /\ log' = log /\ ips' = ips /\ vaults' = vaults
    BY <1>7 DEF CallUpload, dbVars
  <2>4. MadeUploads' = MadeUploads + 1 /\ MadeIps' = MadeIps /\ MadeVaults' = MadeVaults
    BY <1>2, <2>3 DEF MadeUploads, MadeIps, MadeVaults, Missing
  <2> QED
    BY <1>2, <1>5, <2>2, <2>4 DEF Made
<1>8. CASE CallTrace(r)
  <2>1. UNCHANGED <<log, uploads, ips, vaults>>
    BY <1>8 DEF CallTrace, dbVars
  <2>2. Hand(r) = 0 /\ faults' >= faults
    <3>1. CASE Reply(r, 1)
      <4>1. Calling(r, 2) /\ 2 \in SubSteps
        BY <1>8 DEF CallTrace, SubSteps
      <4> QED
        BY <1>0, <3>1, <4>1, ReplyCounted
    <3>2. CASE faults' = faults
      BY <1>1, <1>8, <3>2 DEF CallTrace, Calling, At, Hand
    <3> QED
      BY <1>8, <3>1, <3>2 DEF CallTrace
  <2> QED
    BY <1>4, <1>6, <2>1, <2>2
<1>9. CASE CallIp(r)
  <2>1. Calling(r, 3) /\ Reply(r, Len(ips) + 1) /\ 3 \in SubSteps
    BY <1>9 DEF CallIp, SubSteps
  <2>2. Hand(r) = 0 /\ faults' + Hand(r)' = faults + 1
    BY <1>0, <2>1, ReplyCounted
  <2>3. Len(ips') = Len(ips) + 1 /\ log' = log /\ uploads' = uploads /\ vaults' = vaults
    BY <1>0, <1>9 DEF CallIp, dbVars
  <2>4. MadeIps' = MadeIps + 1 /\ MadeUploads' = MadeUploads /\ MadeVaults' = MadeVaults
    BY <1>2, <2>3 DEF MadeUploads, MadeIps, MadeVaults, Missing
  <2> QED
    BY <1>2, <1>5, <2>2, <2>4 DEF Made
<1>10. CASE CallVault(r)
  <2>1. CASE ~HasInputs(r)
    <3>1. UNCHANGED <<log, uploads, ips, vaults, faults>>
      BY <1>10, <2>1 DEF CallVault, dbVars
    <3>2. Hand(r) = 0
      BY <1>10 DEF CallVault, Calling, At, Hand
    <3> QED
      BY <1>1, <1>4, <1>6, <3>1, <3>2
  <2>2. CASE HasInputs(r)
    <3>1. Calling(r, 4) /\ Reply(r, Len(vaults) + 1) /\ 4 \in SubSteps
      BY <1>10, <2>2 DEF CallVault, SubSteps
    <3>2. Hand(r) = 0 /\ faults' + Hand(r)' = faults + 1
      BY <1>0, <3>1, ReplyCounted
    <3>3. Len(vaults') = Len(vaults) + 1 /\ log' = log /\ uploads' = uploads /\ ips' = ips
      BY <1>0, <1>10, <2>2 DEF CallVault, dbVars
    <3>4. MadeVaults' = MadeVaults + 1 /\ MadeUploads' = MadeUploads /\ MadeIps' = MadeIps
      BY <1>2, <3>3 DEF MadeUploads, MadeIps, MadeVaults, Missing
    <3> QED
      BY <1>2, <1>5, <3>2, <3>4 DEF Made
  <2> QED
    BY <2>1, <2>2
<1>11. CASE AppendSub(r)
  <2> DEFINE s == run[r].sub
  <2>1. run[r].pc = "append"
    BY <1>11 DEF AppendSub
  <2>2. s \in SubSteps /\ log[s] = 0 /\ run[r].have[s] # 0
    BY <1>0, <2>1 DEF Knows, Holds
  <2>3. /\ log' = [log EXCEPT ![s] = run[r].have[s]]
        /\ uploads' = uploads /\ ips' = ips /\ vaults' = vaults
    BY <1>11, <2>2 DEF AppendSub, worldVars
  <2>4. faults' >= faults
    BY <1>1, <1>11 DEF AppendSub, Strike
  <2>5. run'[r].pc \in {"project", "catch"}
    BY <1>0, <1>11, GotoEffect, RaiseEffect DEF AppendSub
  <2>6. log'[s] # 0 /\ \A t \in SubSteps : t # s => log'[t] = log[t]
    BY <1>0, <2>2, <2>3
  <2>7. s \in {1, 2, 3, 4} /\ {1, 2, 3, 4} \subseteq SubSteps
    BY <2>2 DEF SubSteps
  <2>8. CASE s = 2
    <3>1. Hand(r) = 0
      BY <2>8 DEF Hand
    <3>2. log'[1] = log[1] /\ log'[3] = log[3] /\ log'[4] = log[4]
      BY <2>6, <2>7, <2>8
    <3>3. Made' = Made
      BY <2>3, <3>2 DEF Made, MadeUploads, MadeIps, MadeVaults, Missing
    <3> QED
      BY <1>4, <2>4, <3>1, <3>3
  <2>9. CASE s # 2
    <3>1. Hand(r) = 1 /\ Hand(r)' = 0
      BY <2>1, <2>5, <2>9 DEF Hand
    <3>2. Made' = Made - 1
      <4>1. CASE s = 1
        <5>1. /\ MadeUploads' = MadeUploads - 1 /\ MadeIps' = MadeIps
              /\ MadeVaults' = MadeVaults
          BY <1>2, <2>2, <2>3, <2>6, <2>7, <4>1 DEF MadeUploads, MadeIps, MadeVaults, Missing
        <5> QED
          BY <1>2, <5>1 DEF Made
      <4>2. CASE s = 3
        <5>1. /\ MadeIps' = MadeIps - 1 /\ MadeUploads' = MadeUploads
              /\ MadeVaults' = MadeVaults
          BY <1>2, <2>2, <2>3, <2>6, <2>7, <4>2 DEF MadeUploads, MadeIps, MadeVaults, Missing
        <5> QED
          BY <1>2, <5>1 DEF Made
      <4>3. CASE s = 4
        <5>1. /\ MadeVaults' = MadeVaults - 1 /\ MadeUploads' = MadeUploads
              /\ MadeIps' = MadeIps
          BY <1>2, <2>2, <2>3, <2>6, <2>7, <4>3 DEF MadeUploads, MadeIps, MadeVaults, Missing
        <5> QED
          BY <1>2, <5>1 DEF Made
      <4> QED
        BY <2>7, <2>9, <4>1, <4>2, <4>3
    <3> QED
      <4>1. PICK m \in Int, n \in Int, f \in Nat, g \in Nat :
              m = Made /\ n = Made' /\ f = faults /\ g = faults'
        BY <1>1, <1>3
      <4>2. n = m - 1 /\ g >= f
        BY <2>4, <3>2, <4>1
      <4>3. n - m <= (g - f) + (0 - 1)
        BY <4>2
      <4> QED
        BY <3>1, <4>1, <4>3 DEF Covered
  <2> QED
    BY <2>8, <2>9
<1>12. CASE Fault(r)
  <2>1. UNCHANGED <<log, uploads, ips, vaults>>
    BY <1>12 DEF Fault, PortFails, DbFails, Die, dbVars, worldVars
  <2>2. faults' = faults + 1
    BY <1>12 DEF Fault, PortFails, DbFails, Die, Strike
  <2>3. Made' = Made
    BY <1>6, <2>1
  <2> QED
    BY <1>1, <1>3, <2>2, <2>3 DEF Covered
<1>13. CASE \/ LabelCheck(r) \/ LabelAppend(r) \/ LabelStage(r)
            \/ ReadAsset(r) \/ ReadEvents(r) \/ ReadPreset(r) \/ Skip(r)
            \/ ProjectSub(r) \/ Finish(r)
            \/ CatchRead(r) \/ RecordFailure(r) \/ FailStage(r)
  <2>1. UNCHANGED <<log, uploads, ips, vaults>>
    BY <1>13 DEF LabelCheck, LabelAppend, LabelStage, ReadAsset, ReadEvents, ReadPreset, Skip,
       ProjectSub, Finish, CatchRead, RecordFailure, FailStage, dbVars, worldVars
  <2>2. faults' = faults \/ faults' = faults + 1
    BY <1>13 DEF LabelCheck, LabelAppend, LabelStage, ReadAsset, ReadEvents, ReadPreset, Skip,
       ProjectSub, Finish, CatchRead, RecordFailure, FailStage, Strike
  <2>3. run[r].pc # "append"
    BY <1>13 DEF LabelCheck, LabelAppend, LabelStage, ReadAsset, ReadEvents, ReadPreset, Skip,
       ProjectSub, Finish, CatchRead, RecordFailure, FailStage, At
  <2>4. Hand(r) = 0 /\ faults' >= faults
    BY <1>1, <2>2, <2>3 DEF Hand
  <2> QED
    BY <1>4, <1>6, <2>1, <2>4
<1> QED
  BY <1>7, <1>8, <1>9, <1>10, <1>11, <1>12, <1>13 DEF Step

LEMMA NextOrphans ==
  ASSUME SeqInv, Overlap = FALSE, OrphansBounded, [Next]_vars
  PROVE  OrphansBounded'
<1>0. TypeOK /\ TypeOK' /\ Made \in Int /\ Made' \in Int /\ faults \in Nat /\ faults' \in Nat
  <2>1. TypeOK /\ TypeOK'
    BY LogInvTyped, NextTypeOK DEF SeqInv, LogInv
  <2>2. faults \in Nat /\ faults' \in Nat
    BY <2>1 DEF TypeOK
  <2> QED
    BY <2>1, <2>2, MadeTyped
<1>1. ASSUME NEW r \in Runs, Step(r) \/ Trigger(r) \/ Fault(r)
      PROVE  OrphansBounded'
  <2>1. Cardinality(InHand) = Hand(r) /\ Cardinality(InHand)' = Hand(r)'
    BY <1>1, InHandCounted
  <2>4. Orphans = Made - Hand(r)
    BY <2>1, OrphansSum
  <2>5. Orphans' = Made' - Hand(r)'
    BY <2>1, OrphansSum
  <2>2. Covered(r)
    <3>1. CASE Trigger(r)
      <4>1. run'[r].pc = "label" /\ run[r].pc = "idle"
        BY <1>0, <3>1 DEF Trigger, Goto, TypeOK, RunStates
      <4>2. UNCHANGED <<log, uploads, ips, vaults, faults>>
        BY <3>1 DEF Trigger, dbVars, worldVars
      <4> QED
        BY <1>0, <4>1, <4>2 DEF Covered, Made, MadeUploads, MadeIps, MadeVaults, Missing, Hand
    <3>2. CASE Step(r) \/ Fault(r)
      <4>1. Active(r)
        BY <3>2, ActsWhenActive
      <4> QED
        BY <1>0, <3>2, <4>1, StepCovered
    <3> QED
      BY <1>1, <3>1, <3>2
  <2>3. Hand(r) \in Int /\ Hand(r)' \in Int
    BY DEF Hand
  <2> QED
    BY <1>0, <2>2, <2>3, <2>4, <2>5 DEF OrphansBounded, Covered
<1>2. CASE Writers \/ UNCHANGED vars
  <2>1. UNCHANGED <<log, run, uploads, ips, vaults, faults>>
    BY <1>2 DEF Writers, CheckEdit, UpdateProfile, LabelJob, WriteEdit, vars, dbVars, worldVars
  <2> QED
    BY <2>1 DEF OrphansBounded, Orphans, Missing, InHand
<1> QED
  BY <1>1, <1>2 DEF Next

\* Resuming is cheap: whatever fails, and wherever, the attempts leave at most
\* one upload, IP asset or vault that nothing refers to for each fault.
THEOREM OrphansAreFaults ==
  ASSUME Overlap = FALSE
  PROVE  Spec => []OrphansBounded
<1>1. Init => SeqInv /\ OrphansBounded
  <2>1. Init => OrphansBounded
    <3>1. Init => InHand = {}
      BY DEF Init, InHand
    <3> QED
      <4>1. ASSUME Init PROVE Orphans = 0 /\ faults = 0
        <5>1. Cardinality(InHand) = 0
          BY <3>1, <4>1, FS_EmptySet
        <5>2. /\ Missing(uploads, 1) = 0 /\ Missing(Len(ips), 3) = 0
              /\ Missing(Len(vaults), 4) = 0
          BY <4>1 DEF Init, Missing, SubSteps
        <5> QED
          BY <4>1, <5>1, <5>2 DEF Init, Orphans
      <4> QED
        BY <4>1 DEF OrphansBounded
  <2> QED
    BY <2>1, InitSeqInv
<1>2. SeqInv /\ OrphansBounded /\ [Next]_vars => (SeqInv /\ OrphansBounded)'
  BY NextSeqInv, NextOrphans
<1> QED
  BY <1>1, <1>2, PTL DEF Spec

-----------------------------------------------------------------------------
(* Nothing is redone: a call is only made for a sub-step that is not in    *)
(* the log, which the active attempt knows exactly.                        *)

LEMMA CallsAreMissing ==
  ASSUME SeqInv, NEW r \in Runs, NEW s \in SubSteps, Calling(r, s)
  PROVE  log[s] = 0
<1>1. Active(r) /\ run[r].pc = "sub" /\ run[r].sub = s /\ s \notin run[r].alreadyDone
  BY DEF Calling, At, Active, ActivePcs, TryPcs
<1>2. s >= s
  BY DEF SubSteps
<1> QED
  BY <1>1, <1>2 DEF SeqInv, Holds

\* While attempts do not overlap, a retry never uploads, registers or seals
\* again what the register card shows as done, whatever failed before.
THEOREM RetryRedoesNothing ==
  ASSUME Overlap = FALSE
  PROVE  Spec => NothingRedone
<1> DEFINE Kept == /\ Progress(1) => UNCHANGED uploads
                   /\ Progress(2) => UNCHANGED trace
                   /\ Progress(3) => UNCHANGED ips
                   /\ Progress(4) => UNCHANGED vaults
<1>1. SeqInv /\ [Next]_vars => [Kept]_vars
  <2> SUFFICES ASSUME SeqInv, [Next]_vars
               PROVE  Kept \/ UNCHANGED vars
    OBVIOUS
  <2>1. ASSUME UNCHANGED <<uploads, trace, ips, vaults>>
        PROVE  Kept
    BY <2>1
  <2>2. ASSUME NEW r \in Runs, NEW s \in SubSteps, Calling(r, s)
        PROVE  ~Progress(s)
    BY <2>2, CallsAreMissing DEF Progress, Recorded
  <2>3. ASSUME NEW r \in Runs, CallUpload(r)
        PROVE  Kept
    BY <2>2, <2>3 DEF CallUpload, SubSteps
  <2>4. ASSUME NEW r \in Runs, CallTrace(r)
        PROVE  Kept
    BY <2>2, <2>4 DEF CallTrace, SubSteps
  <2>5. ASSUME NEW r \in Runs, CallIp(r)
        PROVE  Kept
    BY <2>2, <2>5 DEF CallIp, SubSteps
  <2>6. ASSUME NEW r \in Runs, CallVault(r)
        PROVE  Kept
    BY <2>2, <2>6 DEF CallVault, SubSteps
  <2>7. ASSUME NEW r \in Runs,
               \/ Trigger(r) \/ Fault(r) \/ LabelCheck(r) \/ LabelAppend(r) \/ LabelStage(r)
               \/ ReadAsset(r) \/ ReadEvents(r) \/ ReadPreset(r) \/ Skip(r)
               \/ AppendSub(r) \/ ProjectSub(r) \/ Finish(r)
               \/ CatchRead(r) \/ RecordFailure(r) \/ FailStage(r)
        PROVE  UNCHANGED <<uploads, trace, ips, vaults>>
    BY <2>7 DEF Trigger, Fault, PortFails, DbFails, Die, LabelCheck, LabelAppend, LabelStage,
       ReadAsset, ReadEvents, ReadPreset, Skip, AppendSub, ProjectSub, Finish, CatchRead,
       RecordFailure, FailStage, worldVars
  <2>8. CASE Writers
    BY <2>8 DEF Writers, CheckEdit, UpdateProfile, LabelJob, WriteEdit, worldVars
  <2> HIDE DEF Kept
  <2> QED
    BY <2>1, <2>3, <2>4, <2>5, <2>6, <2>7, <2>8 DEF Next, Step
<1>2. Init => SeqInv
  BY InitSeqInv
<1>3. SeqInv /\ [Next]_vars => SeqInv'
  BY NextSeqInv
<1> QED
  BY <1>1, <1>2, <1>3, PTL DEF Spec, NothingRedone

-----------------------------------------------------------------------------
(* A retry resumes.  In turn, every attempt puts the same cid, ipId and    *)
(* vault into the Trace document, so that only another writer of the rows  *)
(* can make Trace refuse it; and 3d lacks an input only when the asset is  *)
(* stranded: an event is in the log, its column is null, and no attempt is *)
(* about to write it.                                                      *)

StuckAt(s) ==
  /\ log[s] # 0 /\ asset[s] = 0
  /\ \A r \in Runs : ~(run[r].pc = "project" /\ run[r].sub = s)

Ordered == \A s, t \in SubSteps : s < t /\ log[t] # 0 => log[s] # 0

\* What the active attempt holds is what the row says, for the sub-steps it
\* found done, and what the log says, for those it did itself.
Follows(r) ==
  /\ run[r].pc \in {"labelStage", "asset", "events"} => labeled
  /\ run[r].pc = "events" => run[r].have = asset
  /\ run[r].pc \in {"preset"} \cup TryPcs =>
       \A s \in SubSteps :
         /\ s \in run[r].alreadyDone => run[r].have[s] = asset[s]
         /\ s \notin run[r].alreadyDone /\ s < run[r].sub =>
              asset[s] = log[s] /\ run[r].have[s] = log[s]
  /\ run[r].pc \in {"append", "project"} => run[r].sub \notin run[r].alreadyDone
  /\ run[r].pc = "project" => run[r].have[run[r].sub] = log[run[r].sub]

\* The document Trace holds was built after 3a and before 3c, from the cid the
\* row still has.
TraceKept ==
  /\ log[1] = 0 => trace = {}
  /\ \A r \in Runs : run[r].pc = "project" /\ run[r].sub = 1 => trace = {}
  /\ \A d \in trace : d.cid = asset[1] /\ d.ip = 0 /\ d.vault = 0

ResumeInv ==
  /\ SeqInv /\ Ordered /\ TraceKept
  /\ \A r \in Runs : Active(r) => Follows(r)

\* While attempts do not overlap an append is never a duplicate.
LEMMA AppendIsNew ==
  ASSUME SeqInv, NEW r \in Runs, run[r].pc = "append"
  PROVE  /\ Active(r) /\ run[r].sub \in SubSteps /\ log[run[r].sub] = 0
         /\ run[r].sub \notin run[r].alreadyDone
<1>1. Active(r) /\ Knows(r)
  BY DEF Active, ActivePcs, TryPcs, SeqInv, LogInv
<1>2. Holds(r) /\ run[r].sub \in SubSteps
  BY <1>1 DEF SeqInv, Knows
<1>3. run[r].sub >= run[r].sub
  BY <1>2 DEF SubSteps
<1> QED
  BY <1>1, <1>2, <1>3 DEF Holds

\* What an attempt needs of an earlier sub-step is at hand, or it is stuck.
LEMMA AtHand ==
  ASSUME SeqInv, NEW r \in Runs, run[r].pc = "sub", Follows(r),
         NEW s \in SubSteps, s < run[r].sub
  PROVE  run[r].have[s] = log[s] \/ StuckAt(s)
<1>1. Active(r) /\ Knows(r) /\ Alone /\ ProjectionFromLog
  BY DEF Active, ActivePcs, TryPcs, SeqInv, LogInv
<1>2. \A q \in Runs : run[q].pc # "project"
  BY <1>1 DEF Alone, Active, ActivePcs, TryPcs
<1>3. log[s] # 0
  BY <1>1 DEF Knows, TryPcs
<1>4. CASE s \in run[r].alreadyDone
  <2>1. run[r].have[s] = asset[s] /\ asset[s] \in {0, log[s]}
    BY <1>1, <1>4 DEF Follows, TryPcs, ProjectionFromLog
  <2> QED
    BY <1>2, <1>3, <2>1 DEF StuckAt
<1>5. CASE s \notin run[r].alreadyDone
  BY <1>5 DEF Follows, TryPcs
<1> QED
  BY <1>4, <1>5

\* What an attempt puts into its document is what the row says.
LEMMA DocumentKept ==
  ASSUME SeqInv, Ordered, NEW r \in Runs, Follows(r), Calling(r, 2)
  PROVE  /\ log[1] # 0 /\ log[2] = 0
         /\ Document(r).cid = asset[1] /\ Document(r).ip = 0 /\ Document(r).vault = 0
<1>1. /\ run[r].pc = "sub" /\ run[r].sub = 2 /\ Active(r) /\ Knows(r) /\ ProjectionFromLog
      /\ 1 \in SubSteps /\ 2 \in SubSteps /\ 3 \in SubSteps /\ 4 \in SubSteps
  BY DEF Calling, At, Active, ActivePcs, TryPcs, SeqInv, LogInv, SubSteps
<1>2. log[2] = 0
  BY <1>1, CallsAreMissing
<1>3. log[3] = 0 /\ log[4] = 0
  <2>1. 2 < 3 /\ 2 < 4
    OBVIOUS
  <2> QED
    BY <1>1, <1>2, <2>1 DEF Ordered
<1>4. asset[3] = 0 /\ asset[4] = 0
  BY <1>1, <1>3 DEF ProjectionFromLog
<1>5. 1 < run[r].sub
  BY <1>1
<1>6. log[1] # 0
  BY <1>1, <1>5 DEF Knows, TryPcs
<1>7. run[r].have[1] = asset[1]
  BY <1>1, <1>5 DEF Follows, TryPcs
<1> QED
  BY <1>2, <1>4, <1>6, <1>7 DEF Document

\* A step leaves the order of the log alone.
LEMMA OrderedNext ==
  ASSUME SeqInv, Ordered, [Next]_vars
  PROVE  Ordered'
<1>0. LogInv /\ log \in [SubSteps -> Nat] /\ LogGrows
  BY NextLogGrows DEF SeqInv, LogInv, TypeOK
<1>1. CASE UNCHANGED log
  BY <1>1 DEF Ordered
<1>2. ASSUME NEW s \in 1..4, L!Commit(s)
      PROVE  Ordered'
  BY <1>0, <1>2 DEF L!Commit, Ordered, LogGrows, SubSteps
<1> QED
  BY <1>0, <1>1, <1>2, NextLog DEF L!Next

\* The steps of the active attempt, one by one.
LEMMA FollowsStep ==
  ASSUME SeqInv, Overlap = FALSE, NEW r \in Runs, Step(r), Follows(r)
  PROVE  Follows(r)'
<1>0. /\ TypeOK /\ Active(r) /\ Knows(r) /\ Holds(r) /\ run[r].sub \in 1..5
      /\ log \in [SubSteps -> Nat] /\ asset \in [SubSteps -> Nat]
      /\ run[r].have \in [SubSteps -> Nat]
  BY ActsWhenActive, Fields DEF SeqInv, LogInv, TypeOK
<1>1. ASSUME run'[r].pc \in OutsidePcs \ {"labelStage", "asset"}
      PROVE  Follows(r)'
  BY <1>1 DEF Follows, OutsidePcs, TryPcs
<1>2. CASE LabelCheck(r) \/ LabelAppend(r) \/ LabelStage(r)
  <2>1. run'[r].pc \in {"labelAppend", "labelStage", "asset"}
    BY <1>0, <1>2, GotoEffect DEF LabelCheck, LabelAppend, LabelStage
  <2>2. run'[r].pc \in {"labelStage", "asset"} => labeled'
    BY <1>0, <1>2, GotoEffect DEF LabelCheck, LabelAppend, LabelStage, dbVars, Follows
  <2> QED
    BY <2>1, <2>2 DEF Follows, TryPcs
<1>3. CASE Finish(r) \/ CatchRead(r) \/ RecordFailure(r) \/ FailStage(r)
  <2>1. run'[r].pc \in {"registered", "catch", "record", "failStage", "failed"}
    <3>1. CASE Finish(r)
      BY <1>0, <3>1, GotoEffect, RaiseEffect DEF Finish
    <3>2. CASE RecordFailure(r) \/ FailStage(r)
      BY <1>0, <3>2, GotoEffect DEF RecordFailure, FailStage
    <3>3. CASE CatchRead(r)
      <4> DEFINE q == [run[r] EXCEPT !.seen = seq, !.pc = "record"]
      <4>1. q.pc = "record"
        BY <1>0, Fields DEF RunStates
      <4>2. run' = [run EXCEPT ![r] = q]
        BY <3>3 DEF CatchRead
      <4> HIDE DEF q
      <4> QED
        BY <1>0, <4>1, <4>2, Moved
    <3> QED
      BY <1>3, <3>1, <3>2, <3>3
  <2> QED
    BY <1>1, <2>1 DEF OutsidePcs
<1>4. CASE ReadAsset(r)
  <2>1. run'[r].pc = "events" /\ run'[r].have = asset /\ asset' = asset /\ labeled' = labeled
    BY <1>0, <1>4, ReadAssetEffect DEF ReadAsset, dbVars
  <2>2. labeled
    BY <1>4 DEF ReadAsset, Follows
  <2> QED
    BY <2>1, <2>2 DEF Follows, TryPcs
<1>5. CASE ReadEvents(r)
  <2>1. /\ run'[r].have = asset /\ asset' = asset
        /\ run'[r].alreadyDone = Recorded(log)
        /\ run'[r].pc \in {"sub", "preset", "failed"}
        /\ run'[r].pc = "preset" => run'[r].sub = 1
        /\ run'[r].pc = "sub" => Recorded(log) = SubSteps
    <3>1. run[r].pc = "events" /\ asset' = asset
      BY <1>5 DEF ReadEvents, dbVars
    <3>2. run[r].have = asset
      BY <3>1 DEF Follows
    <3> QED
      BY <1>0, <1>5, <3>1, <3>2, ReadEventsEffect
  <2>2. \A s \in SubSteps : ~(s < 1)
    BY DEF SubSteps
  <2> QED
    BY <2>1, <2>2 DEF Follows, TryPcs
<1>6. CASE ReadPreset(r)
  <2>1. /\ run'[r].pc = "sub" /\ run'[r].sub = run[r].sub /\ run'[r].have = run[r].have
        /\ run'[r].alreadyDone = run[r].alreadyDone /\ log' = log /\ asset' = asset
        /\ run[r].pc = "preset"
    BY <1>0, <1>6, ReadPresetEffect DEF ReadPreset, dbVars
  <2> QED
    BY <2>1 DEF Follows, TryPcs
<1>7. CASE Skip(r)
  <2>1. /\ run'[r].pc = "sub" /\ run'[r].sub = run[r].sub + 1 /\ run'[r].have = run[r].have
        /\ run'[r].alreadyDone = run[r].alreadyDone /\ log' = log /\ asset' = asset
        /\ run[r].pc = "sub" /\ run[r].sub \in run[r].alreadyDone
    BY <1>0, <1>7, SkipEffect DEF Skip, At, dbVars
  <2>2. \A s \in SubSteps : s < run[r].sub + 1 => s < run[r].sub \/ s = run[r].sub
    BY <1>0 DEF SubSteps
  <2> QED
    BY <2>1, <2>2 DEF Follows, TryPcs
<1>8. CASE CallUpload(r) \/ CallTrace(r) \/ CallIp(r) \/ CallVault(r)
  <2>1. log' = log /\ asset' = asset
    BY <1>8 DEF CallUpload, CallTrace, CallIp, CallVault, dbVars
  <2>2. ASSUME NEW error, Raise(r, error)
        PROVE  Follows(r)'
    BY <1>0, <1>1, <2>2, RaiseEffect DEF OutsidePcs
  <2>3. ASSUME NEW s \in SubSteps, Calling(r, s), NEW artefact, Reply(r, artefact)
        PROVE  Follows(r)'
    <3>1. run[r].pc = "sub" /\ run[r].sub = s /\ s \notin run[r].alreadyDone
      BY <2>3 DEF Calling, At
    <3>2. CASE /\ run'[r].pc = "append"
               /\ run'[r].have = [run[r].have EXCEPT ![run[r].sub] = artefact]
      <4>1. run'[r].sub = s /\ run'[r].alreadyDone = run[r].alreadyDone
        BY <1>0, <2>3, <3>1, ReplyEffect
      <4>2. \A t \in SubSteps : t # s => run'[r].have[t] = run[r].have[t]
        BY <1>0, <3>1, <3>2
      <4>3. \A t \in SubSteps : t < s => t # s
        BY <2>3 DEF SubSteps
      <4> QED
        BY <2>1, <3>1, <3>2, <4>1, <4>2, <4>3 DEF Follows, TryPcs
    <3>3. CASE run'[r].pc = "catch"
      BY <1>1, <3>3 DEF OutsidePcs
    <3> QED
      BY <1>0, <2>3, <3>2, <3>3, ReplyEffect
  <2>4. \/ \E error : Raise(r, error)
        \/ \E s \in SubSteps : Calling(r, s) /\ (\E artefact : Reply(r, artefact))
    BY <1>8 DEF CallUpload, CallTrace, CallIp, CallVault, SubSteps
  <2> QED
    BY <2>2, <2>3, <2>4
<1>9. CASE AppendSub(r)
  <2>1. run[r].pc = "append"
    BY <1>9 DEF AppendSub
  <2>2. /\ run[r].sub \in SubSteps /\ log[run[r].sub] = 0
        /\ run[r].sub \notin run[r].alreadyDone
    BY <2>1, AppendIsNew
  <2>3. /\ run'[r].sub = run[r].sub /\ run'[r].have = run[r].have
        /\ run'[r].alreadyDone = run[r].alreadyDone /\ asset' = asset
        /\ run'[r].pc \in {"project", "catch"}
    BY <1>0, <1>9, GotoEffect, RaiseEffect DEF AppendSub
  <2>4. log' = [log EXCEPT ![run[r].sub] = run[r].have[run[r].sub]]
    BY <1>9, <2>2 DEF AppendSub
  <2>5. /\ log'[run[r].sub] = run[r].have[run[r].sub]
        /\ \A s \in SubSteps : s < run[r].sub => log'[s] = log[s]
    BY <1>0, <2>2, <2>4 DEF SubSteps
  <2> QED
    BY <2>1, <2>2, <2>3, <2>5 DEF Follows, TryPcs
<1>10. CASE ProjectSub(r)
  <2> DEFINE k == run[r].sub
  <2>1. run[r].pc = "project" /\ k \in SubSteps /\ k \notin run[r].alreadyDone
    BY <1>0, <1>10 DEF ProjectSub, Knows, Follows
  <2>2. /\ run'[r].have = run[r].have /\ run'[r].alreadyDone = run[r].alreadyDone
        /\ \/ run'[r].pc = "sub" /\ run'[r].sub = k + 1
           \/ run'[r].pc = "catch"
    BY <1>0, <1>10, ProjectEffect
  <2>3. asset' = [asset EXCEPT ![k] = run[r].have[k]] /\ log' = log
    BY <1>10 DEF ProjectSub
  <2>4. asset'[k] = log[k] /\ run[r].have[k] = log[k]
    BY <1>0, <2>1, <2>3 DEF Follows
  <2>5. \A s \in SubSteps : s # k => asset'[s] = asset[s]
    BY <1>0, <2>3
  <2>6. \A s \in SubSteps : s < k + 1 => s < k \/ s = k
    BY <2>1 DEF SubSteps
  <2>7. CASE run'[r].pc = "sub" /\ run'[r].sub = k + 1
    BY <2>1, <2>2, <2>3, <2>4, <2>5, <2>6, <2>7 DEF Follows, TryPcs
  <2> QED
    BY <1>1, <2>2, <2>7 DEF OutsidePcs
<1> QED
  BY <1>2, <1>3, <1>4, <1>5, <1>6, <1>7, <1>8, <1>9, <1>10 DEF Step

\* An attempt learns of an error by a fault, or from what it read.
LEMMA NewErrors ==
  ASSUME TypeOK, NEW r \in Runs, Step(r) \/ Trigger(r) \/ Fault(r)
  PROVE  /\ run'[r].preset \in {run[r].preset, choice}
         /\ \/ run'[r].err \in {run[r].err, "none", "fault"}
            \/ ReadEvents(r) /\ ~labeled
            \/ /\ Calling(r, 2) /\ ~(trace \subseteq {Document(r)})
               /\ run'[r].err = "conflict"
            \/ Calling(r, 4) /\ ~HasInputs(r) /\ run'[r].err = "missing"
<1>1. CASE \/ Trigger(r) \/ Fault(r) \/ LabelCheck(r) \/ LabelAppend(r) \/ LabelStage(r)
           \/ Finish(r) \/ CatchRead(r) \/ RecordFailure(r) \/ FailStage(r)
  BY <1>1, OutsideEffect
<1>2. CASE ReadAsset(r) \/ ReadPreset(r) \/ Skip(r) \/ ProjectSub(r)
  BY <1>2, ReadAssetEffect, ReadPresetEffect, SkipEffect, ProjectEffect
<1>3. CASE ReadEvents(r)
  BY <1>3, ReadEventsEffect
<1>4. CASE CallUpload(r) \/ CallIp(r)
  BY <1>4, ReplyEffect DEF CallUpload, CallIp
<1>5. CASE CallTrace(r)
  BY <1>5, ReplyEffect, RaiseEffect DEF CallTrace
<1>6. CASE CallVault(r)
  BY <1>6, ReplyEffect, RaiseEffect DEF CallVault
<1>7. CASE AppendSub(r)
  BY <1>7, GotoEffect, RaiseEffect DEF AppendSub
<1> QED
  BY <1>1, <1>2, <1>3, <1>4, <1>5, <1>6, <1>7 DEF Step

LEMMA ErrorExcused ==
  ASSUME ResumeInv, NEW r \in Runs, Step(r) \/ Trigger(r) \/ Fault(r),
         run'[r].err # run[r].err
  PROVE  Excused(r)
<1>0. TypeOK /\ (Active(r) => Follows(r) /\ Knows(r))
  BY DEF ResumeInv, SeqInv, LogInv
<1>1. 1 \in SubSteps /\ 3 \in SubSteps
  BY DEF SubSteps
<1>2. CASE run'[r].err \in {"none", "fault"}
  BY <1>2 DEF Excused
<1>3. CASE ReadEvents(r) /\ ~labeled
  <2>1. run[r].pc = "events" /\ Active(r)
    BY <1>3 DEF ReadEvents, Active, ActivePcs
  <2> QED
    BY <1>0, <1>3, <2>1 DEF Follows
<1>4. CASE /\ Calling(r, 2) /\ ~(trace \subseteq {Document(r)}) /\ run'[r].err = "conflict"
  <2>1. Follows(r)
    BY <1>0, <1>4 DEF Calling, At, Active, ActivePcs, TryPcs
  <2>2. log[2] = 0 /\ Document(r).cid = asset[1] /\ Document(r).ip = 0 /\ Document(r).vault = 0
    BY <1>4, <2>1, DocumentKept DEF ResumeInv
  <2>3. PICK d \in trace : d # Document(r)
    BY <1>4
  <2>4. d.cid = Document(r).cid /\ d.ip = Document(r).ip /\ d.vault = Document(r).vault
    BY <2>2, <2>3 DEF ResumeInv, TraceKept
  <2>5. d \in Documents
    BY <1>0, <2>3 DEF TypeOK
  <2>6. \/ d.preset # run[r].preset \/ d.license # choice
        \/ d.labels # labels \/ d.profile # profile
    BY <2>3, <2>4, <2>5 DEF Document, Documents
  <2>7. run[r].preset = choice => Overtaken
    BY <2>2, <2>3, <2>6 DEF Overtaken
  <2> QED
    BY <1>4, <2>7 DEF Excused
<1>5. CASE Calling(r, 4) /\ ~HasInputs(r) /\ run'[r].err = "missing"
  <2>1. run[r].pc = "sub" /\ run[r].sub = 4 /\ Follows(r) /\ Knows(r)
    BY <1>0, <1>5 DEF Calling, At, Active, ActivePcs, TryPcs
  <2>2. 1 < run[r].sub /\ 3 < run[r].sub
    BY <2>1
  <2>3. log[1] # 0 /\ log[3] # 0
    BY <1>1, <2>1, <2>2 DEF Knows, TryPcs
  <2>4. (run[r].have[1] = log[1] \/ StuckAt(1)) /\ (run[r].have[3] = log[3] \/ StuckAt(3))
    BY <1>1, <2>1, <2>2, AtHand DEF ResumeInv
  <2>5. Stranded
    BY <1>1, <1>5, <2>3, <2>4 DEF HasInputs, StuckAt, Stranded
  <2> QED
    BY <1>5, <2>5 DEF Excused
<1> QED
  BY <1>0, <1>2, <1>3, <1>4, <1>5, NewErrors

LEMMA TraceKeptStep ==
  ASSUME ResumeInv, Overlap = FALSE, NEW r \in Runs, [Next]_vars,
         Step(r) \/ Trigger(r) \/ Fault(r)
  PROVE  TraceKept'
<1>0. /\ SeqInv /\ Ordered /\ TypeOK /\ LogGrows /\ TraceKept /\ 1 \in SubSteps
      /\ asset \in [SubSteps -> Nat]
  <2>1. SeqInv /\ Ordered /\ LogInv /\ TypeOK /\ TraceKept
    BY DEF ResumeInv, SeqInv, LogInv
  <2> QED
    BY <2>1, NextLogGrows DEF SubSteps, TypeOK
<1>1. \A q \in Runs : q # r => run'[q] = run[q] /\ ~Active(q)'
  BY <1>0, OthersRun, AloneStep
<1>2. log'[1] = 0 => log[1] = 0
  BY <1>0 DEF LogGrows
<1>3. CASE CallTrace(r) /\ trace' # trace
  <2>1. Calling(r, 2) /\ trace' = {Document(r)} /\ log' = log /\ asset' = asset
    BY <1>3 DEF CallTrace, dbVars
  <2>2. Follows(r)
    BY <2>1 DEF Calling, At, Active, ActivePcs, TryPcs, ResumeInv
  <2>3. /\ log[1] # 0
        /\ Document(r).cid = asset[1] /\ Document(r).ip = 0 /\ Document(r).vault = 0
    BY <1>0, <2>1, <2>2, DocumentKept
  <2>4. run'[r].pc # "project"
    BY <1>0, <2>1, StartsProjecting DEF Calling, At, AppendSub
  <2>5. \A q \in Runs : run'[q].pc # "project"
    BY <1>1, <2>4 DEF Active, ActivePcs, TryPcs
  <2> QED
    BY <2>1, <2>3, <2>5 DEF TraceKept
<1>4. CASE trace' = trace
  <2>1. log'[1] = 0 => trace' = {}
    BY <1>0, <1>2, <1>4 DEF TraceKept
  <2>2. run'[r].pc = "project" /\ run'[r].sub = 1 => trace = {}
    <3>1. CASE AppendSub(r)
      <4>1. log[run[r].sub] = 0 /\ run'[r].sub = run[r].sub
        BY <1>0, <3>1, AppendIsNew, GotoEffect, RaiseEffect DEF AppendSub
      <4> QED
        BY <1>0, <4>1 DEF TraceKept
    <3>2. CASE ~AppendSub(r)
      BY <1>0, <3>2, StartsProjecting
    <3> QED
      BY <3>1, <3>2
  <2>3. asset'[1] = asset[1] \/ trace = {}
    <3>1. CASE ProjectSub(r)
      BY <1>0, <3>1 DEF ProjectSub, TraceKept
    <3>2. CASE ~ProjectSub(r)
      BY <3>2 DEF Step, Trigger, Fault, PortFails, DbFails, Die, LabelCheck, LabelAppend,
         LabelStage, ReadAsset, ReadEvents, ReadPreset, Skip, CallUpload, CallTrace, CallIp,
         CallVault, AppendSub, Finish, CatchRead, RecordFailure, FailStage, dbVars
    <3> QED
      BY <3>1, <3>2
  <2>4. \A q \in Runs : run'[q].pc = "project" /\ run'[q].sub = 1 => trace = {}
    BY <1>0, <1>1, <2>2 DEF TraceKept
  <2>5. \A d \in trace : d.cid = asset'[1] /\ d.ip = 0 /\ d.vault = 0
    BY <1>0, <2>3 DEF TraceKept
  <2> QED
    BY <1>4, <2>1, <2>4, <2>5 DEF TraceKept
<1>5. ASSUME ~CallTrace(r)
      PROVE  trace' = trace
  BY <1>5 DEF Step, Trigger, Fault, PortFails, DbFails, Die, LabelCheck, LabelAppend,
     LabelStage, ReadAsset, ReadEvents, ReadPreset, Skip, CallUpload, CallIp,
     CallVault, AppendSub, ProjectSub, Finish, CatchRead, RecordFailure, FailStage, worldVars
<1> QED
  BY <1>3, <1>4, <1>5

LEMMA NextResumeInv ==
  ASSUME ResumeInv, Overlap = FALSE, [Next]_vars
  PROVE  ResumeInv'
<1>0. SeqInv /\ SeqInv' /\ TypeOK /\ Ordered'
  BY NextSeqInv, OrderedNext DEF ResumeInv, SeqInv, LogInv
<1>1. ASSUME NEW r \in Runs, Step(r) \/ Trigger(r) \/ Fault(r)
      PROVE  ResumeInv'
  <2>1. \A q \in Runs : q # r => ~Active(q)'
    BY <1>0, <1>1, AloneStep
  <2>2. TraceKept'
    BY <1>1, TraceKeptStep
  <2>3. Active(r)' => Follows(r)'
    <3>1. CASE Step(r)
      BY <1>0, <3>1, ActsWhenActive, FollowsStep DEF ResumeInv
    <3>2. CASE Trigger(r)
      <4>1. run'[r].pc = "label"
        BY <1>0, <3>2, GotoEffect DEF Trigger
      <4> QED
        BY <4>1 DEF Follows, TryPcs
    <3>3. CASE Fault(r)
      <4>1. run'[r].pc \in {"catch", "dead"}
        BY <1>0, <3>3, FaultEffect
      <4> QED
        BY <4>1 DEF Follows, TryPcs
    <3> QED
      BY <1>1, <3>1, <3>2, <3>3
  <2> QED
    BY <1>0, <2>1, <2>2, <2>3 DEF ResumeInv
<1>2. CASE Writers \/ UNCHANGED vars
  <2>1. UNCHANGED <<log, labeled, asset, trace, run>>
    BY <1>2 DEF Writers, CheckEdit, UpdateProfile, LabelJob, WriteEdit, vars, dbVars, worldVars
  <2>2. TraceKept /\ \A r \in Runs : Active(r) => Follows(r)
    BY DEF ResumeInv
  <2> QED
    BY <1>0, <2>1, <2>2 DEF ResumeInv, TraceKept, Active, Follows
<1> QED
  BY <1>1, <1>2 DEF Next

LEMMA InitResumeInv == Init => ResumeInv
<1> SUFFICES ASSUME Init PROVE ResumeInv
  OBVIOUS
<1>1. SeqInv
  BY InitSeqInv
<1>2. Ordered /\ TraceKept
  BY DEF Init, Ordered, TraceKept, SubSteps
<1>3. \A r \in Runs : ~Active(r)
  BY DEF Init, Active, ActivePcs, LabelPcs, TryPcs, CatchPcs
<1> QED
  BY <1>1, <1>2, <1>3 DEF ResumeInv

\* "A retry RESUMES": as long as attempts do not overlap, an attempt only ever
\* fails by a fault of its own, unless an earlier one left a column unwritten
\* behind its event, or the creator or a label job wrote the rows of the
\* document Trace has accepted.  What the attempts themselves put into the
\* document never differs.
THEOREM RetriesResume ==
  ASSUME Overlap = FALSE
  PROVE  Spec => RetryResumes
<1>1. Init => ResumeInv
  BY InitResumeInv
<1>2. ResumeInv /\ [Next]_vars => ResumeInv'
  BY NextResumeInv
<1>3. ResumeInv /\ [Next]_vars =>
        [\A r \in Runs : run'[r].err # run[r].err => Excused(r)]_vars
  <2> SUFFICES ASSUME ResumeInv, [Next]_vars, NEW r \in Runs, run'[r].err # run[r].err
               PROVE  Excused(r)
    OBVIOUS
  <2>1. ASSUME NEW q \in Runs, Step(q) \/ Trigger(q) \/ Fault(q)
        PROVE  Excused(r)
    <3>1. q = r
      BY <2>1, OthersRun DEF ResumeInv, SeqInv, LogInv
    <3> QED
      BY <2>1, <3>1, ErrorExcused
  <2>2. CASE Writers \/ UNCHANGED vars
    BY <2>2 DEF Writers, CheckEdit, UpdateProfile, LabelJob, WriteEdit, vars
  <2> QED
    BY <2>1, <2>2 DEF Next
<1> QED
  BY <1>1, <1>2, <1>3, PTL DEF Spec, RetryResumes

=============================================================================
