---------------------------- MODULE SpineProofs ----------------------------
(***************************************************************************)
(* Theorems about Spine, for every number of runs, presets, faults and     *)
(* edits.  Whatever overlaps, a run sets a stage only after it appended or *)
(* read the event the stage claims, and the log only grows.  When handlers *)
(* take turns, the log is moreover a prefix of the pipeline, so a run that *)
(* moves the stage back knows that nothing later has happened.             *)
(***************************************************************************)
EXTENDS Spine, TLAPS

\* What a run with local state l saw or wrote, and what nobody takes back.
Knows(l) ==
  /\ l.pc = "setLabeled" => Has("LABELED")
  /\ l.pc \in {"setRegistered", "reRegistered", "find", "create"} \/ "VAULT" \in l.done => Has("VAULT")
  /\ l.pc \in {"find", "create"} => "IP" \in columns
  /\ l.pc = "setListed" => Has("LISTED")
  /\ l.pc = "setSold" => Has("SOLD")
  /\ l.pc = "setSettled" => Has("SETTLED")

\* What is on offer was registered with license terms.
OfferBacked == OnOffer => Has("VAULT") /\ "IP" \in columns

Backed ==
  /\ stage = "LABELED" => Has("LABELED")
  /\ stage = "REGISTERED" => Has("VAULT")
  /\ stage = "LISTED" => Has("LISTED")
  /\ stage = "SOLD" => Has("SOLD")
  /\ stage = "SETTLED" => Has("SETTLED")

Inv == TypeOK /\ Backed /\ OfferBacked /\ \A r \in Runs : Knows(run[r])

\* In turn, the events of the stages form a prefix of the pipeline.
Prefix ==
  /\ Has("LABELED") => Has("INGESTED")
  /\ Has("VAULT") => Has("LABELED")
  /\ Has("LISTED") => Has("VAULT")

\* Where the register handler is between its reads and the event of 3d.
InRegister == {"media", "keepMedia", "send", "trace", "keepTrace", "ip", "keepIp", "vault"}

\* What the active run holds exactly: what it is about to do is not yet done,
\* and what follows stage 3 finds the asset past the stages where it is edited.
Turn(l) ==
  /\ l.pc = "ingested" => ~Has("INGESTED")
  /\ l.pc \in {"inTray", "putLabels", "labeled"} => Has("INGESTED") /\ ~Has("LABELED")
  /\ l.pc = "setLabeled" => ~Has("VAULT")
  /\ l.pc \in InRegister => Has("LABELED")
  /\ l.pc \in {"list", "find", "create", "listed"} => ~OfferEdit
  /\ l.pc \in {"find", "create"} => ~Has("LISTED")
  /\ l.pc = "listed" => Has("VAULT")

Alone == \A q, r \in Runs : run[q].pc # "idle" /\ run[r].pc # "idle" => q = r

\* Only an asset past the stages where it is edited is on offer.
OfferPast == OnOffer => ~OfferEdit

TurnInv == Inv /\ Prefix /\ Alone /\ OfferPast /\ \A r \in Runs : Turn(run[r])

LEMMA InitInv == Init => Inv
<1> SUFFICES ASSUME Init PROVE Inv
  OBVIOUS
<1>1. Idle \in RunStates /\ Idle.pc = "idle"
  BY DEF Idle, RunStates, Pcs, Jobs
<1>2. TypeOK
  BY <1>1 DEF Init, TypeOK, Kinds, Stages
<1>3. \A r \in Runs : Knows(run[r])
  BY <1>1 DEF Init, Knows, Idle
<1> QED
  BY <1>2, <1>3 DEF Init, Inv, Backed, OfferBacked, OnOffer

-----------------------------------------------------------------------------
\* The tables of events and stages, entry by entry.
LEMMA Tables ==
  /\ DOMAIN EventAt = {"ingested", "labeled", "media", "trace", "ip", "vault", "listed", "sold",
                       "credited", "settled"}
  /\ DOMAIN ColumnAt = {"keepMedia", "keepTrace", "keepIp"}
  /\ DOMAIN StageAt = {"inTray", "setLabeled", "setRegistered", "reRegistered", "setListed",
                       "setSold", "setSettled", "setFailed"}
  /\ EventAt["ingested"] = "INGESTED" /\ EventAt["labeled"] = "LABELED"
  /\ EventAt["media"] = "MEDIA" /\ EventAt["trace"] = "TRACE"
  /\ EventAt["ip"] = "IP" /\ EventAt["vault"] = "VAULT" /\ EventAt["listed"] = "LISTED"
  /\ EventAt["sold"] = "SOLD" /\ EventAt["credited"] = "CREDITED" /\ EventAt["settled"] = "SETTLED"
  /\ ColumnAt["keepMedia"] = "MEDIA" /\ ColumnAt["keepTrace"] = "TRACE" /\ ColumnAt["keepIp"] = "IP"
  /\ StageAt["inTray"] = "IN_TRAY" /\ StageAt["setLabeled"] = "LABELED"
  /\ StageAt["setRegistered"] = "REGISTERED" /\ StageAt["reRegistered"] = "REGISTERED"
  /\ StageAt["setListed"] = "LISTED" /\ StageAt["setSold"] = "SOLD"
  /\ StageAt["setSettled"] = "SETTLED" /\ StageAt["setFailed"] = "FAILED_REGISTER"
BY DEF EventAt, ColumnAt, StageAt

LEMMA AfterEvents ==
  /\ AfterEvent("ingested") = "inTray" /\ AfterEvent("labeled") = "setLabeled"
  /\ AfterEvent("media") = "keepMedia" /\ AfterEvent("trace") = "keepTrace"
  /\ AfterEvent("ip") = "keepIp" /\ AfterEvent("vault") = "setRegistered"
  /\ AfterEvent("listed") = "setListed" /\ AfterEvent("sold") = "setSold"
  /\ AfterEvent("credited") = "settled" /\ AfterEvent("settled") = "setSettled"
BY DEF AfterEvent

LEMMA AfterStages ==
  ASSUME NEW r \in Runs
  PROVE  /\ run[r].pc = "inTray" => AfterStage(r) = "label"
         /\ run[r].pc = "setLabeled" => AfterStage(r) = "register"
         /\ run[r].pc \in {"setRegistered", "reRegistered"} => AfterStage(r) \in {"idle", "list"}
         /\ run[r].pc = "setListed" => AfterStage(r) = "settle"
         /\ run[r].pc = "setSold" => AfterStage(r) = "promote"
         /\ run[r].pc \in {"setSettled", "setFailed"} => AfterStage(r) = "idle"
BY DEF AfterStage

LEMMA PcsAre ==
  Pcs = {"idle", "putLabels", "send", "promote", "find", "create", "ingest", "label", "register",
         "list", "settle", "ingested", "labeled", "media", "trace", "ip", "vault", "listed", "sold",
         "credited", "settled", "keepMedia", "keepTrace", "keepIp", "inTray", "setLabeled",
         "setRegistered", "reRegistered", "setListed", "setSold", "setSettled", "setFailed"}
BY Tables DEF Pcs, Reads

\* Stage 3 is complete for a run that knows of 3d only.
LEMMA NextSubIs ==
  ASSUME NEW done, NEW have
  PROVE  /\ NextSub(done, have) \in {"media", "send", "ip", "vault", "setRegistered", "setFailed"}
         /\ NextSub(done, have) = "setRegistered" => "VAULT" \in done
BY DEF NextSub

\* A run that moves on is a run with another local state.
LEMMA BecomeIs ==
  ASSUME TypeOK, NEW r \in Runs, NEW l \in RunStates, Become(r, l)
  PROVE  \E l2 \in RunStates : /\ run' = [run EXCEPT ![r] = l2] /\ l2.pc = l.pc
                               /\ l2.done \subseteq l.done
<1>1. CASE l.pc = "idle"
  <2>1. Idle \in RunStates /\ Idle.pc = "idle" /\ Idle.done = {}
    BY DEF Idle, RunStates, Pcs, Jobs
  <2> QED
    BY <1>1, <2>1 DEF Become
<1>2. CASE l.pc # "idle"
  BY <1>2 DEF Become
<1> QED
  BY <1>1, <1>2

LEMMA GotoIs ==
  ASSUME TypeOK, NEW r \in Runs, NEW pc \in Pcs, Goto(r, pc)
  PROVE  \E l \in RunStates : /\ run' = [run EXCEPT ![r] = l] /\ l.pc = pc
                              /\ l.done \subseteq run[r].done
<1> DEFINE l == [run[r] EXCEPT !.pc = pc]
<1>1. l \in RunStates /\ l.pc = pc /\ l.done = run[r].done
  BY DEF TypeOK, RunStates
<1>2. Become(r, l)
  BY DEF Goto
<1> HIDE DEF l
<1> QED
  BY <1>1, <1>2, BecomeIs

LEMMA ReadIs ==
  ASSUME TypeOK, NEW r \in Runs, NEW at, NEW pc \in Pcs, NEW preset \in Presets \cup {NoPreset},
         NEW done \in SUBSET SubSteps, NEW have \in SUBSET Columns,
         Read(r, at, pc, preset, done, have)
  PROVE  \E l \in RunStates : run' = [run EXCEPT ![r] = l] /\ l.pc = pc /\ l.done \subseteq done
<1> DEFINE l == [pc |-> pc, job |-> run[r].job, preset |-> preset, done |-> done, have |-> have]
<1>1. l \in RunStates /\ l.pc = pc /\ l.done = done
  BY DEF TypeOK, RunStates
<1>2. Become(r, l)
  BY DEF Read
<1> HIDE DEF l
<1> QED
  BY <1>1, <1>2, BecomeIs

\* What the other runs know stays true: the log grows and no column is taken back.
LEMMA KnowsStable ==
  ASSUME Inv, NEW r \in Runs, NEW l \in RunStates, run' = [run EXCEPT ![r] = l], Knows(l)',
         log \subseteq log', columns \subseteq columns'
  PROVE  \A q \in Runs : Knows(run[q])'
<1> SUFFICES ASSUME NEW q \in Runs PROVE Knows(run[q])'
  OBVIOUS
<1>1. CASE q = r
  <2>1. run'[q] = l
    BY <1>1 DEF Inv, TypeOK
  <2> QED
    BY <2>1 DEF Knows, Has
<1>2. CASE q # r
  <2>1. run'[q] = run[q]
    BY <1>2 DEF Inv, TypeOK
  <2>2. Knows(run[q])
    BY DEF Inv
  <2> QED
    BY <2>1, <2>2 DEF Knows, Has
<1> QED
  BY <1>1, <1>2

\* A run that wrote nothing into the tables.
LEMMA MoveInv ==
  ASSUME Inv, NEW r \in Runs, NEW l \in RunStates, run' = [run EXCEPT ![r] = l], Knows(l),
         UNCHANGED <<rows, editing, edits>>, traced' \subseteq Documents, promoted' \in BOOLEAN,
         faults' \in Nat
  PROVE  Inv'
<1>1. TypeOK'
  BY DEF Inv, TypeOK, rows
<1>2. Knows(l)'
  BY DEF Knows, Has, rows
<1>3. \A q \in Runs : Knows(run[q])'
  BY <1>2, KnowsStable DEF rows
<1>4. Backed' /\ OfferBacked'
  BY DEF Inv, Backed, OfferBacked, OnOffer, Has, rows
<1> QED
  BY <1>1, <1>3, <1>4 DEF Inv

LEMMA StartInv ==
  ASSUME Inv, NEW r \in Runs, Launch(r) \/ Press(r) \/ Buy(r)
  PROVE  Inv'
<1>1. PICK job \in {"pipeline", "dashboard", "purchase"}, pc \in {"ingest", "settle"} : Start(r, job, pc)
  BY DEF Launch, Press, Buy
<1> DEFINE l == [Idle EXCEPT !.pc = pc, !.job = job]
<1>2. l \in RunStates /\ Knows(l)
  BY PcsAre DEF RunStates, Jobs, Knows, Idle
<1>3. run' = [run EXCEPT ![r] = l] /\ UNCHANGED <<rows, trace, editing, edits, faults>>
  BY <1>1 DEF Start
<1> HIDE DEF l
<1> QED
  BY <1>2, <1>3, MoveInv DEF Inv, TypeOK, trace

\* What the head of a handler goes on with.
LEMMA HeadInv ==
  ASSUME Inv, NEW r \in Runs, NEW at, NEW pc \in Pcs, NEW preset \in Presets \cup {NoPreset},
         NEW done \in SUBSET SubSteps, NEW have \in SUBSET Columns,
         Read(r, at, pc, preset, done, have),
         pc \in {"setRegistered", "reRegistered", "find"} \/ "VAULT" \in done => Has("VAULT"),
         pc = "find" => "IP" \in columns,
         pc \notin {"create", "setLabeled", "setListed", "setSold", "setSettled"}
  PROVE  Inv'
<1>1. PICK l \in RunStates : run' = [run EXCEPT ![r] = l] /\ l.pc = pc /\ l.done \subseteq done
  BY ReadIs DEF Inv
<1>2. Knows(l)
  BY <1>1 DEF Knows
<1>3. UNCHANGED <<rows, trace, editing, edits, faults>>
  BY DEF Read
<1> QED
  BY <1>1, <1>2, <1>3, MoveInv DEF Inv, TypeOK, trace

\* The heads of the handlers that only branch.
LEMMA ReadInv ==
  ASSUME Inv, NEW r \in Runs,
         ReadIngest(r) \/ ReadLabel(r) \/ ReadList(r) \/ ReadSettle(r)
  PROVE  Inv'
<1>1. PICK at \in Pcs, pc \in Pcs, have \in SUBSET Columns :
        /\ Read(r, at, pc, NoPreset, {}, have)
        /\ pc \in {"idle", "label", "ingested", "register", "putLabels", "settle", "sold",
                   "promote", "settled"} \/ (pc = "find" /\ Has("VAULT") /\ "IP" \in columns)
  <2>1. CASE ReadIngest(r)
    BY <2>1, PcsAre DEF ReadIngest, Look
  <2>2. CASE ReadLabel(r)
    BY <2>2, PcsAre DEF ReadLabel, Look
  <2>3. CASE ReadList(r)
    BY <2>3, PcsAre DEF ReadList, Look
  <2>4. CASE ReadSettle(r)
    BY <2>4, PcsAre DEF ReadSettle, Inv, TypeOK
  <2> QED
    BY <2>1, <2>2, <2>3, <2>4
<1> QED
  BY <1>1, HeadInv

LEMMA ReadRegisterInv ==
  ASSUME Inv, NEW r \in Runs, ReadRegister(r)
  PROVE  Inv'
<1> DEFINE done == log \cap SubSteps
<1>1. done \in SUBSET SubSteps /\ label \in Presets /\ columns \in SUBSET Columns
      /\ ("VAULT" \in done => Has("VAULT")) /\ (done = SubSteps => Has("VAULT"))
  BY DEF Inv, TypeOK, SubSteps, Has
<1> HIDE DEF done
<1>2. PICK pc \in Pcs :
        /\ Read(r, "register", pc, label, done, columns)
        /\ \/ pc \in {"idle", "media", "send", "ip", "vault", "setFailed"}
           \/ pc = "setRegistered" /\ "VAULT" \in done
           \/ pc = "reRegistered" /\ done = SubSteps
  BY NextSubIs, PcsAre DEF ReadRegister, done
<1> QED
  BY <1>1, <1>2, HeadInv

LEMMA FindListingInv ==
  ASSUME Inv, NEW r \in Runs, FindListing(r)
  PROVE  Inv'
<1> DEFINE to == IF listing[label] = "none" THEN "create" ELSE "listed"
           l == [run[r] EXCEPT !.pc = to, !.preset = label]
<1>1. /\ run[r].pc = "find" /\ UNCHANGED <<rows, trace, editing, edits, faults>>
      /\ Has("VAULT") /\ "IP" \in columns
  BY DEF FindListing, Inv, Knows
<1>2. to \in {"create", "listed"} /\ to \in Pcs
  BY PcsAre
<1> HIDE DEF to
<1>3. l \in RunStates /\ l.pc = to
  BY <1>2 DEF Inv, TypeOK, RunStates
<1>4. Become(r, l)
  BY DEF FindListing, to
<1> HIDE DEF l
<1>5. PICK k \in RunStates : run' = [run EXCEPT ![r] = k] /\ k.pc = to
  BY <1>3, <1>4, BecomeIs DEF Inv
<1>6. Knows(k)
  BY <1>1, <1>2, <1>5 DEF Knows
<1> QED
  BY <1>1, <1>5, <1>6, MoveInv DEF Inv, TypeOK, trace

\* A call of Trace, answered, refused or without a reply.
LEMMA CallInv ==
  ASSUME Inv, NEW r \in Runs, SendTrace(r) \/ Promote(r)
  PROVE  Inv'
<1>1. PICK pc \in {"trace", "setFailed", "credited", "idle"} : Goto(r, pc)
  BY DEF SendTrace, Promote, Reply
<1>2. UNCHANGED <<rows, editing, edits>>
  BY DEF SendTrace, Promote
<1>3. faults' \in Nat
  BY DEF SendTrace, Promote, Reply, Inv, TypeOK
<1>4. promoted' \in BOOLEAN
  BY DEF SendTrace, Promote, Inv, TypeOK
<1>5. traced' \subseteq Documents
  <2>1. run[r].preset \in Presets \cup {NoPreset} /\ label \in Presets /\ labels \in Nat
    BY DEF Inv, TypeOK, RunStates
  <2>2. traced \subseteq Documents
    BY DEF Inv, TypeOK
  <2> DEFINE document == [preset |-> run[r].preset, license |-> label, labels |-> labels]
  <2>3. document \in Documents
    BY <2>1 DEF Documents
  <2>4. traced' = {document} \/ traced' = traced
    BY DEF SendTrace, Promote
  <2> QED
    BY <2>2, <2>3, <2>4
<1>6. PICK l \in RunStates : /\ run' = [run EXCEPT ![r] = l] /\ l.pc = pc
                             /\ l.done \subseteq run[r].done
  BY <1>1, GotoIs, PcsAre DEF Inv
<1>7. Knows(l)
  BY <1>1, <1>6 DEF Knows, Inv
<1> QED
  BY <1>2, <1>3, <1>4, <1>5, <1>6, <1>7, MoveInv

LEMMA PutLabelsInv ==
  ASSUME Inv, NEW r \in Runs, PutLabels(r)
  PROVE  Inv'
<1>1. /\ label' \in Presets /\ Goto(r, "labeled")
      /\ UNCHANGED <<log, stage, labels, columns, listing, trace, editing, edits, faults>>
  BY SpineAssumption DEF PutLabels, Inv, TypeOK
<1>2. PICK l \in RunStates : /\ run' = [run EXCEPT ![r] = l] /\ l.pc = "labeled"
                             /\ l.done \subseteq run[r].done
  BY <1>1, GotoIs, PcsAre DEF Inv
<1>3. Knows(l)'
  BY <1>1, <1>2 DEF Knows, Inv, Has
<1>4. TypeOK'
  BY <1>1, <1>2 DEF Inv, TypeOK, trace
<1>5. \A q \in Runs : Knows(run[q])'
  BY <1>1, <1>2, <1>3, KnowsStable
<1>6. Backed' /\ OfferBacked'
  BY <1>1 DEF Inv, Backed, OfferBacked, OnOffer, Has
<1> QED
  BY <1>4, <1>5, <1>6 DEF Inv

\* What a projecting run goes on with.
LEMMA ProjectIs ==
  ASSUME Inv, NEW r \in Runs, Project(r)
  PROVE  /\ run[r].pc \in {"keepMedia", "keepTrace", "keepIp"}
         /\ columns \subseteq columns' /\ columns' \subseteq Columns
         /\ UNCHANGED <<log, stage, label, labels, listing, trace, editing, edits, faults>>
         /\ \E l \in RunStates :
              /\ run' = [run EXCEPT ![r] = l]
              /\ l.pc \in {"media", "send", "ip", "vault", "setRegistered", "setFailed"}
              /\ l.pc = "setRegistered" \/ "VAULT" \in l.done => Has("VAULT")
<1> DEFINE k == ColumnAt[run[r].pc]
           done == run[r].done \cup {k}
           have == run[r].have \cup {k}
           pc == NextSub(done, have)
           l == [pc |-> pc, job |-> run[r].job, preset |-> run[r].preset, done |-> done, have |-> have]
<1>1. run[r].pc \in {"keepMedia", "keepTrace", "keepIp"}
  BY Tables DEF Project
<1>2. k \in {"MEDIA", "TRACE", "IP"}
  BY <1>1, Tables
<1>3. /\ columns' = columns \cup {k} /\ Become(r, l)
      /\ UNCHANGED <<log, stage, label, labels, listing, trace, editing, edits, faults>>
  BY DEF Project
<1> HIDE DEF k
<1>4. columns \subseteq columns' /\ columns' \subseteq Columns
  BY <1>2, <1>3 DEF Inv, TypeOK, Columns
<1>5. run[r] \in RunStates /\ ("VAULT" \in run[r].done => Has("VAULT"))
  BY DEF Inv, TypeOK, Knows
<1>6. done \in SUBSET SubSteps /\ have \in SUBSET Columns /\ ("VAULT" \in done => Has("VAULT"))
  BY <1>2, <1>5 DEF RunStates, SubSteps, Columns
<1> HIDE DEF done, have
<1>7. /\ pc \in {"media", "send", "ip", "vault", "setRegistered", "setFailed"}
      /\ pc = "setRegistered" => Has("VAULT")
  BY <1>6, NextSubIs
<1>8. pc \in Pcs
  BY <1>7, PcsAre
<1> HIDE DEF pc
<1>9. l \in RunStates /\ l.pc = pc /\ l.done = done
  BY <1>5, <1>6, <1>8 DEF RunStates
<1> HIDE DEF l
<1>10. PICK m \in RunStates : run' = [run EXCEPT ![r] = m] /\ m.pc = pc /\ m.done \subseteq done
  BY <1>3, <1>9, BecomeIs DEF Inv
<1>11. /\ m.pc \in {"media", "send", "ip", "vault", "setRegistered", "setFailed"}
       /\ m.pc = "setRegistered" \/ "VAULT" \in m.done => Has("VAULT")
  BY <1>6, <1>7, <1>10
<1> QED
  BY <1>1, <1>3, <1>4, <1>10, <1>11

LEMMA ProjectInv ==
  ASSUME Inv, NEW r \in Runs, Project(r)
  PROVE  Inv'
<1>1. /\ columns \subseteq columns' /\ columns' \subseteq Columns
      /\ UNCHANGED <<log, stage, label, labels, listing, trace, editing, edits, faults>>
  BY ProjectIs
<1>2. PICK l \in RunStates :
        /\ run' = [run EXCEPT ![r] = l]
        /\ l.pc \in {"media", "send", "ip", "vault", "setRegistered", "setFailed"}
        /\ l.pc = "setRegistered" \/ "VAULT" \in l.done => Has("VAULT")
  BY ProjectIs
<1>3. Knows(l)'
  BY <1>1, <1>2 DEF Knows, Has
<1>4. TypeOK'
  BY <1>1, <1>2 DEF Inv, TypeOK, trace
<1>5. \A q \in Runs : Knows(run[q])'
  BY <1>1, <1>2, <1>3, KnowsStable
<1>6. Backed' /\ OfferBacked'
  BY <1>1 DEF Inv, Backed, OfferBacked, OnOffer, Has
<1> QED
  BY <1>4, <1>5, <1>6 DEF Inv

LEMMA CreateListingInv ==
  ASSUME Inv, NEW r \in Runs, CreateListing(r)
  PROVE  Inv'
<1>1. /\ run[r].pc = "create" /\ Goto(r, "listed")
      /\ UNCHANGED <<log, stage, label, labels, columns, trace, editing, edits, faults>>
      /\ listing' = [listing EXCEPT ![run[r].preset] = IF @ = "none" THEN "active" ELSE @]
  BY DEF CreateListing
<1>2. Has("VAULT") /\ "IP" \in columns
  BY <1>1 DEF Inv, Knows
<1>3. PICK l \in RunStates : /\ run' = [run EXCEPT ![r] = l] /\ l.pc = "listed"
                             /\ l.done \subseteq run[r].done
  BY <1>1, GotoIs, PcsAre DEF Inv
<1>4. Knows(l)'
  BY <1>1, <1>2, <1>3 DEF Knows, Has
<1>5. listing' \in [Presets -> {"none", "active", "withdrawn"}]
  BY <1>1 DEF Inv, TypeOK
<1>6. TypeOK'
  BY <1>1, <1>3, <1>5 DEF Inv, TypeOK, trace
<1>7. \A q \in Runs : Knows(run[q])'
  BY <1>1, <1>3, <1>4, KnowsStable
<1>8. Backed' /\ OfferBacked'
  BY <1>1, <1>2 DEF Inv, Backed, OfferBacked, Has
<1> QED
  BY <1>6, <1>7, <1>8 DEF Inv

\* The event a run appends is what it then knows.
LEMMA AppendEventInv ==
  ASSUME Inv, NEW r \in Runs, AppendEvent(r)
  PROVE  Inv'
<1> DEFINE pc == run[r].pc
           e == EventAt[pc]
           to == AfterEvent(pc)
<1>1. /\ pc \in DOMAIN EventAt /\ log' = log \cup {e} /\ Goto(r, to)
      /\ UNCHANGED <<stage, label, labels, columns, listing, trace, editing, edits, faults>>
  BY DEF AppendEvent
<1>2. e \in Kinds /\ to \in Pcs
  BY <1>1, Tables, AfterEvents, PcsAre DEF Kinds, SubSteps
<1>3. /\ to = "setLabeled" => e = "LABELED"
      /\ to = "setRegistered" => e = "VAULT"
      /\ to = "setListed" => e = "LISTED"
      /\ to = "setSold" => e = "SOLD"
      /\ to = "setSettled" => e = "SETTLED"
      /\ to \in {"inTray", "setLabeled", "keepMedia", "keepTrace", "keepIp", "setRegistered",
                 "setListed", "setSold", "settled", "setSettled"}
  BY <1>1, Tables, AfterEvents
<1>4. "VAULT" \in run[r].done => Has("VAULT")
  BY DEF Inv, Knows
<1> HIDE DEF e, to
<1>5. PICK l \in RunStates : /\ run' = [run EXCEPT ![r] = l] /\ l.pc = to
                             /\ l.done \subseteq run[r].done
  BY <1>1, <1>2, GotoIs DEF Inv
<1>6. e \in log' /\ log \subseteq log' /\ columns' = columns
  BY <1>1
<1>7. l.pc \notin {"create", "reRegistered", "find"}
  BY <1>3, <1>5
<1>8. Knows(l)'
  BY <1>3, <1>4, <1>5, <1>6, <1>7 DEF Knows, Has
<1>9. TypeOK'
  BY <1>1, <1>2, <1>5 DEF Inv, TypeOK, trace
<1>10. \A q \in Runs : Knows(run[q])'
  BY <1>5, <1>6, <1>8, KnowsStable
<1>11. Backed' /\ OfferBacked'
  BY <1>1 DEF Inv, Backed, OfferBacked, OnOffer, Has
<1> QED
  BY <1>9, <1>10, <1>11 DEF Inv

\* The stage a run sets is one it knows of.
LEMMA SetStageInv ==
  ASSUME Inv, NEW r \in Runs, SetStage(r)
  PROVE  Inv'
<1> DEFINE pc == run[r].pc
           to == AfterStage(r)
<1>1. /\ pc \in DOMAIN StageAt /\ stage' = StageAt[pc] /\ Goto(r, to)
      /\ UNCHANGED <<log, label, labels, columns, listing, trace, editing, edits, faults>>
  BY DEF SetStage
<1>2. stage' \in Stages /\ to \in {"idle", "label", "register", "list", "settle", "promote"}
  BY <1>1, Tables, AfterStages DEF Stages
<1>3. Knows(run[r])
  BY DEF Inv
<1>4. Backed'
  BY <1>1, <1>3, Tables DEF Backed, Knows, Has
<1> HIDE DEF to
<1>5. PICK l \in RunStates : /\ run' = [run EXCEPT ![r] = l] /\ l.pc = to
                             /\ l.done \subseteq run[r].done
  BY <1>1, <1>2, GotoIs, PcsAre DEF Inv
<1>6. Knows(l)'
  BY <1>1, <1>2, <1>3, <1>5 DEF Knows, Has
<1>7. TypeOK'
  BY <1>1, <1>2, <1>5 DEF Inv, TypeOK, trace
<1>8. \A q \in Runs : Knows(run[q])'
  BY <1>1, <1>5, <1>6, KnowsStable
<1>9. OfferBacked'
  BY <1>1 DEF Inv, OfferBacked, OnOffer, Has
<1> QED
  BY <1>4, <1>7, <1>8, <1>9 DEF Inv

LEMMA FaultInv ==
  ASSUME Inv, NEW r \in Runs, Fault(r)
  PROVE  Inv'
<1>1. PICK pc \in {"idle", "setFailed"} : Goto(r, pc)
  BY DEF Fault
<1>2. UNCHANGED <<rows, trace, editing, edits>> /\ faults' \in Nat
  BY DEF Fault, Inv, TypeOK
<1>3. PICK l \in RunStates : /\ run' = [run EXCEPT ![r] = l] /\ l.pc = pc
                             /\ l.done \subseteq run[r].done
  BY <1>1, GotoIs, PcsAre DEF Inv
<1>4. Knows(l)
  BY <1>3 DEF Knows, Inv
<1> QED
  BY <1>2, <1>3, <1>4, MoveInv DEF Inv, TypeOK, trace

LEMMA CreatorInv ==
  ASSUME Inv, CheckEdit \/ WriteEdit \/ LabelJob \/ Withdraw
  PROVE  Inv'
<1>1. /\ log \subseteq log' /\ log' \subseteq Kinds /\ UNCHANGED <<stage, columns, trace, run, faults>>
      /\ label' \in Presets /\ labels' \in Nat /\ editing' \in BOOLEAN /\ edits' \in Nat
  <2>1. CASE CheckEdit
    BY <2>1 DEF CheckEdit, rows, Inv, TypeOK
  <2>2. CASE WriteEdit
    <3>1. editing' \in BOOLEAN
      BY <2>2 DEF WriteEdit
    <3>2. edits' \in Nat /\ label' \in Presets
      BY <2>2 DEF WriteEdit, Inv, TypeOK
    <3> QED
      BY <2>2, <3>1, <3>2 DEF WriteEdit, Inv, TypeOK
  <2>3. CASE Withdraw
    BY <2>3 DEF Withdraw, Inv, TypeOK, Kinds
  <2>4. CASE LabelJob
    BY <2>4 DEF LabelJob, Inv, TypeOK
  <2> QED
    BY <2>1, <2>2, <2>3, <2>4
<1>2. /\ listing' \in [Presets -> {"none", "active", "withdrawn"}]
      /\ OnOffer' => OnOffer
  BY DEF CheckEdit, WriteEdit, LabelJob, Withdraw, rows, Inv, TypeOK, OnOffer
<1>3. TypeOK'
  BY <1>1, <1>2 DEF Inv, TypeOK, trace
<1>4. ASSUME NEW q \in Runs PROVE Knows(run[q])'
  <2>1. Knows(run[q])
    BY DEF Inv
  <2> QED
    BY <1>1, <2>1 DEF Knows, Has
<1>5. Backed' /\ OfferBacked'
  BY <1>1, <1>2 DEF Inv, Backed, OfferBacked, Has
<1> QED
  BY <1>3, <1>4, <1>5 DEF Inv

LEMMA NextInv ==
  ASSUME Inv, [Next]_vars
  PROVE  Inv'
<1>1. ASSUME NEW r \in Runs, Step(r) PROVE Inv'
  BY <1>1, ReadInv, ReadRegisterInv, FindListingInv, PutLabelsInv, ProjectInv, CreateListingInv,
     CallInv, AppendEventInv, SetStageInv DEF Step
<1>2. CASE UNCHANGED vars
  BY <1>2 DEF vars, rows, trace, Inv, TypeOK, Backed, OfferBacked, OnOffer, Knows, Has
<1> QED
  BY <1>1, <1>2, StartInv, FaultInv, CreatorInv DEF Next

LEMMA AlwaysInv == Spec => []Inv
<1>1. Init => Inv
  BY InitInv
<1>2. Inv /\ [Next]_vars => Inv'
  BY NextInv
<1> QED
  BY <1>1, <1>2, PTL DEF Spec

\* The stage never claims what the log does not have, and what the catalogue
\* shows carries registered terms: in every interleaving of the five handlers.
THEOREM StagesAreBacked == Spec => []StageBacked
<1>1. Inv => StageBacked
  BY DEF Inv, Backed, OfferBacked, StageBacked, Catalogue, OnOffer
<1> QED
  BY <1>1, AlwaysInv, PTL

\* Every variable has its type.
THEOREM TypeCorrect == Spec => []TypeOK
<1>1. Inv => TypeOK
  BY DEF Inv
<1> QED
  BY <1>1, AlwaysInv, PTL

-----------------------------------------------------------------------------
\* Handlers in turn.

\* The one that moves is the only one, so the others are idle and hold nothing.
LEMMA TurnStable ==
  ASSUME TurnInv, NEW r \in Runs, NEW l \in RunStates, run' = [run EXCEPT ![r] = l], Turn(l)',
         run[r].pc # "idle" \/ \A q \in Runs : run[q].pc = "idle"
  PROVE  Alone' /\ \A q \in Runs : Turn(run[q])'
<1>1. \A q \in Runs : q # r => run'[q] = run[q] /\ run[q].pc = "idle"
  BY DEF TurnInv, Alone, Inv, TypeOK
<1>2. run'[r] = l
  BY DEF TurnInv, Inv, TypeOK
<1>3. Alone'
  BY <1>1 DEF Alone
<1>4. ASSUME NEW q \in Runs PROVE Turn(run[q])'
  <2>1. CASE q = r
    BY <1>2, <2>1 DEF Turn, Has, OfferEdit
  <2>2. CASE q # r
    BY <1>1, <2>2 DEF Turn, InRegister
  <2> QED
    BY <2>1, <2>2
<1> QED
  BY <1>3, <1>4

LEMMA InitTurn == Init => TurnInv
<1> SUFFICES ASSUME Init PROVE TurnInv
  OBVIOUS
<1>1. \A r \in Runs : run[r].pc = "idle"
  BY DEF Init, Idle
<1>2. Alone /\ \A r \in Runs : Turn(run[r])
  BY <1>1 DEF Alone, Turn, InRegister
<1> QED
  BY <1>2, InitInv DEF Init, TurnInv, Prefix, OfferPast, OnOffer, Has

LEMMA MoveTurn ==
  ASSUME TurnInv, NEW r \in Runs, NEW l \in RunStates, run' = [run EXCEPT ![r] = l], Turn(l),
         run[r].pc # "idle" \/ \A q \in Runs : run[q].pc = "idle", UNCHANGED rows, Inv'
  PROVE  TurnInv'
<1>1. Turn(l)'
  BY DEF Turn, Has, OfferEdit, rows
<1>2. Alone' /\ \A q \in Runs : Turn(run[q])'
  BY <1>1, TurnStable
<1>3. Prefix' /\ OfferPast'
  BY DEF TurnInv, Prefix, OfferPast, OnOffer, OfferEdit, Has, rows
<1> QED
  BY <1>2, <1>3 DEF TurnInv

LEMMA StartTurn ==
  ASSUME TurnInv, Overlap = FALSE, NEW r \in Runs, Launch(r) \/ Press(r) \/ Buy(r), Inv'
  PROVE  TurnInv'
<1>1. PICK job \in {"pipeline", "dashboard", "purchase"}, pc \in {"ingest", "settle"} : Start(r, job, pc)
  BY DEF Launch, Press, Buy
<1> DEFINE l == [Idle EXCEPT !.pc = pc, !.job = job]
<1>2. l \in RunStates /\ Turn(l)
  BY PcsAre DEF RunStates, Jobs, Turn, InRegister, Idle
<1>3. /\ run' = [run EXCEPT ![r] = l] /\ UNCHANGED rows
      /\ \A q \in Runs : run[q].pc = "idle"
  BY <1>1 DEF Start, Free
<1> HIDE DEF l
<1> QED
  BY <1>2, <1>3, MoveTurn

LEMMA ReadTurn ==
  ASSUME TurnInv, NEW r \in Runs, Inv',
         ReadIngest(r) \/ ReadLabel(r) \/ ReadRegister(r) \/ ReadList(r) \/ ReadSettle(r)
  PROVE  TurnInv'
<1>1. Turn(run[r]) /\ TypeOK
  BY DEF TurnInv, Inv
<1>2. PICK at \in Pcs, pc \in Pcs, preset \in Presets \cup {NoPreset},
           done \in SUBSET SubSteps, have \in SUBSET Columns :
        /\ Read(r, at, pc, preset, done, have) /\ at # "idle"
        /\ \/ pc \in {"idle", "label", "register", "setFailed", "setRegistered", "reRegistered",
                      "settle", "sold", "promote", "settled"}
           \/ pc = "ingested" /\ ~Has("INGESTED")
           \/ pc = "putLabels" /\ Has("INGESTED") /\ ~Has("LABELED")
           \/ pc \in {"media", "send", "ip", "vault"} /\ Has("LABELED")
           \/ pc = "find" /\ ~Has("LISTED") /\ ~OfferEdit
  <2>1. CASE ReadIngest(r)
    <3>1. PICK pc \in {"label", "ingested"} :
            /\ Read(r, "ingest", pc, NoPreset, {}, {})
            /\ pc = "ingested" => ~Has("INGESTED")
      BY <2>1 DEF ReadIngest, Look
    <3> QED
      BY <3>1, PcsAre
  <2>2. CASE ReadLabel(r)
    BY <2>2, PcsAre DEF ReadLabel, Look
  <2>3. CASE ReadRegister(r)
    <3>1. label \in Presets /\ columns \in SUBSET Columns /\ log \cap SubSteps \in SUBSET SubSteps
      BY <1>1 DEF TypeOK
    <3> QED
      BY <2>3, <3>1, NextSubIs, PcsAre DEF ReadRegister
  <2>4. CASE ReadList(r)
    <3>1. PICK pc \in {"settle", "find", "idle"} :
            /\ Read(r, "list", pc, NoPreset, {}, {})
            /\ pc = "find" => ~Has("LISTED")
      BY <2>4 DEF ReadList, Look
    <3>2. ~OfferEdit
      BY <1>1, <3>1 DEF Read, Turn
    <3> QED
      BY <3>1, <3>2, PcsAre
  <2>5. CASE ReadSettle(r)
    BY <1>1, <2>5, PcsAre DEF ReadSettle, TypeOK
  <2> QED
    BY <2>1, <2>2, <2>3, <2>4, <2>5
<1>3. PICK l \in RunStates : run' = [run EXCEPT ![r] = l] /\ l.pc = pc
  BY <1>1, <1>2, ReadIs
<1>4. UNCHANGED rows /\ run[r].pc # "idle"
  BY <1>2 DEF Read
<1>5. Turn(l)
  BY <1>2, <1>3 DEF Turn, InRegister
<1> QED
  BY <1>3, <1>4, <1>5, MoveTurn

LEMMA FindListingTurn ==
  ASSUME TurnInv, NEW r \in Runs, Inv', FindListing(r)
  PROVE  TurnInv'
<1> DEFINE to == IF listing[label] = "none" THEN "create" ELSE "listed"
           l == [run[r] EXCEPT !.pc = to, !.preset = label]
<1>1. run[r].pc = "find" /\ UNCHANGED rows
  BY DEF FindListing
<1>2. Has("VAULT") /\ ~Has("LISTED") /\ ~OfferEdit
  BY <1>1 DEF TurnInv, Inv, Knows, Turn
<1>3. to \in {"create", "listed"} /\ to \in Pcs
  BY PcsAre
<1> HIDE DEF to
<1>4. l \in RunStates /\ l.pc = to
  BY <1>3 DEF TurnInv, Inv, TypeOK, RunStates
<1>5. Become(r, l)
  BY DEF FindListing, to
<1> HIDE DEF l
<1>6. PICK k \in RunStates : run' = [run EXCEPT ![r] = k] /\ k.pc = to
  BY <1>4, <1>5, BecomeIs DEF TurnInv, Inv
<1>7. Turn(k)
  BY <1>2, <1>3, <1>6 DEF Turn, InRegister
<1> QED
  BY <1>1, <1>6, <1>7, MoveTurn

LEMMA CallTurn ==
  ASSUME TurnInv, NEW r \in Runs, Inv', SendTrace(r) \/ Promote(r)
  PROVE  TurnInv'
<1>1. PICK pc \in {"trace", "setFailed", "credited", "idle"} :
        Goto(r, pc) /\ (pc = "trace" => run[r].pc = "send")
  BY DEF SendTrace, Promote, Reply
<1>2. UNCHANGED rows /\ run[r].pc # "idle"
  BY DEF SendTrace, Promote
<1>3. PICK l \in RunStates : run' = [run EXCEPT ![r] = l] /\ l.pc = pc
  BY <1>1, GotoIs, PcsAre DEF TurnInv, Inv
<1>4. Turn(l)
  BY <1>1, <1>3 DEF TurnInv, Turn, InRegister
<1> QED
  BY <1>2, <1>3, <1>4, MoveTurn

LEMMA WriteTurn ==
  ASSUME TurnInv, NEW r \in Runs, Inv', PutLabels(r) \/ Project(r)
  PROVE  TurnInv'
<1>1. Turn(run[r])
  BY DEF TurnInv
<1>2. run[r].pc \in {"putLabels", "keepMedia", "keepTrace", "keepIp"}
      /\ UNCHANGED <<log, stage, listing>>
  BY ProjectIs DEF PutLabels, TurnInv
<1>3. PICK l \in RunStates :
        /\ run' = [run EXCEPT ![r] = l]
        /\ \/ l.pc = "labeled" /\ run[r].pc = "putLabels"
           \/ /\ l.pc \in {"media", "send", "ip", "vault", "setRegistered", "setFailed"}
              /\ run[r].pc \in InRegister
  <2>1. CASE PutLabels(r)
    BY <2>1, GotoIs, PcsAre DEF PutLabels, TurnInv, Inv
  <2>2. CASE Project(r)
    BY <2>2, ProjectIs DEF TurnInv, InRegister
  <2> QED
    BY <2>1, <2>2
<1>4. Turn(l)'
  BY <1>1, <1>2, <1>3 DEF Turn, InRegister, Has
<1>5. Alone' /\ \A q \in Runs : Turn(run[q])'
  BY <1>2, <1>3, <1>4, TurnStable
<1>6. Prefix' /\ OfferPast'
  BY <1>2 DEF TurnInv, Prefix, OfferPast, OnOffer, OfferEdit, Has
<1> QED
  BY <1>5, <1>6 DEF TurnInv

LEMMA CreateListingTurn ==
  ASSUME TurnInv, NEW r \in Runs, Inv', CreateListing(r)
  PROVE  TurnInv'
<1>1. run[r].pc = "create" /\ Goto(r, "listed") /\ UNCHANGED <<log, stage>>
  BY DEF CreateListing
<1>2. Turn(run[r]) /\ Knows(run[r])
  BY DEF TurnInv, Inv
<1>3. Has("VAULT") /\ ~OfferEdit
  BY <1>1, <1>2 DEF Turn, Knows
<1>4. PICK l \in RunStates : run' = [run EXCEPT ![r] = l] /\ l.pc = "listed"
  BY <1>1, GotoIs, PcsAre DEF TurnInv, Inv
<1>5. Turn(l)'
  BY <1>1, <1>3, <1>4 DEF Turn, InRegister, Has, OfferEdit
<1>6. Alone' /\ \A q \in Runs : Turn(run[q])'
  BY <1>1, <1>4, <1>5, TurnStable
<1>7. Prefix' /\ OfferPast'
  BY <1>1, <1>3 DEF TurnInv, Prefix, OfferPast, OfferEdit, Has
<1> QED
  BY <1>5, <1>6, <1>7 DEF TurnInv

\* An event is appended after the one before it.
LEMMA AppendEventTurn ==
  ASSUME TurnInv, NEW r \in Runs, Inv', AppendEvent(r)
  PROVE  TurnInv'
<1> DEFINE pc == run[r].pc
           e == EventAt[pc]
           to == AfterEvent(pc)
<1>1. /\ pc \in DOMAIN EventAt /\ log' = log \cup {e} /\ Goto(r, to)
      /\ UNCHANGED <<stage, listing>>
  BY DEF AppendEvent
<1>2. Turn(run[r])
  BY DEF TurnInv
<1>3. \/ pc = "ingested" /\ e = "INGESTED" /\ to = "inTray"
      \/ pc = "labeled" /\ e = "LABELED" /\ to = "setLabeled"
      \/ pc \in {"media", "trace", "ip"} /\ e \in {"MEDIA", "TRACE", "IP"}
                                      /\ to \in {"keepMedia", "keepTrace", "keepIp"}
      \/ pc = "vault" /\ e = "VAULT" /\ to = "setRegistered"
      \/ pc = "listed" /\ e = "LISTED" /\ to = "setListed"
      \/ pc \in {"sold", "credited", "settled"} /\ e \in {"SOLD", "CREDITED", "SETTLED"}
                                               /\ to \in {"setSold", "settled", "setSettled"}
  BY <1>1, Tables, AfterEvents
<1> HIDE DEF e, to
<1>4. PICK l \in RunStates : run' = [run EXCEPT ![r] = l] /\ l.pc = to
  BY <1>1, <1>3, GotoIs, PcsAre DEF TurnInv, Inv
<1>5. Turn(l)'
  BY <1>1, <1>2, <1>3, <1>4 DEF TurnInv, Prefix, Turn, InRegister, Has
<1>6. Prefix'
  BY <1>1, <1>2, <1>3 DEF TurnInv, Prefix, Turn, InRegister, Has
<1>7. run[r].pc # "idle"
  BY <1>3
<1>8. Alone' /\ \A q \in Runs : Turn(run[q])'
  BY <1>4, <1>5, <1>7, TurnStable
<1>9. OfferPast'
  BY <1>1 DEF TurnInv, OfferPast, OnOffer, OfferEdit
<1> QED
  BY <1>6, <1>8, <1>9 DEF TurnInv

\* A run that sets a stage where terms are chosen knows that nothing is on offer.
LEMMA SetStageTurn ==
  ASSUME TurnInv, NEW r \in Runs, Inv', SetStage(r)
  PROVE  TurnInv'
<1> DEFINE pc == run[r].pc
           to == AfterStage(r)
<1>1. /\ pc \in DOMAIN StageAt /\ stage' = StageAt[pc] /\ Goto(r, to)
      /\ UNCHANGED <<log, listing>>
  BY DEF SetStage
<1>2. Turn(run[r])
  BY DEF TurnInv
<1>3. /\ stage' \in Editable => pc \in {"inTray", "setLabeled"}
      /\ to \in {"idle", "label", "register", "list", "settle", "promote"}
      /\ to = "list" => stage' = "REGISTERED"
  BY <1>1, Tables, AfterStages DEF Editable
<1>4. pc \in {"inTray", "setLabeled"} => ~OnOffer
  BY <1>2 DEF TurnInv, Inv, OfferBacked, Prefix, Turn
<1> HIDE DEF to
<1>5. PICK l \in RunStates : run' = [run EXCEPT ![r] = l] /\ l.pc = to
  BY <1>1, <1>3, GotoIs, PcsAre DEF TurnInv, Inv
<1>6. Turn(l)'
  BY <1>3, <1>5 DEF Turn, InRegister, OfferEdit, Editable
<1>7. run[r].pc # "idle"
  BY <1>1, Tables
<1>8. Alone' /\ \A q \in Runs : Turn(run[q])'
  BY <1>5, <1>6, <1>7, TurnStable
<1>9. Prefix' /\ OfferPast'
  BY <1>1, <1>3, <1>4 DEF TurnInv, Prefix, OfferPast, OnOffer, OfferEdit, Has
<1> QED
  BY <1>8, <1>9 DEF TurnInv

LEMMA FaultTurn ==
  ASSUME TurnInv, NEW r \in Runs, Inv', Fault(r)
  PROVE  TurnInv'
<1>1. PICK pc \in {"idle", "setFailed"} : Goto(r, pc)
  BY DEF Fault
<1>2. UNCHANGED rows /\ run[r].pc # "idle"
  BY DEF Fault
<1>3. PICK l \in RunStates : run' = [run EXCEPT ![r] = l] /\ l.pc = pc
  BY <1>1, GotoIs, PcsAre DEF TurnInv, Inv
<1>4. Turn(l)
  BY <1>3 DEF Turn, InRegister
<1> QED
  BY <1>2, <1>3, <1>4, MoveTurn

LEMMA CreatorTurn ==
  ASSUME TurnInv, Inv', CheckEdit \/ WriteEdit \/ LabelJob \/ Withdraw
  PROVE  TurnInv'
<1>1. /\ log' = log \/ log' = log \cup {"TAKEDOWN"}
      /\ UNCHANGED <<stage, run>>
      /\ OnOffer' => OnOffer
  BY DEF CheckEdit, WriteEdit, LabelJob, Withdraw, rows, OnOffer, TurnInv, Inv, TypeOK
<1>2. ASSUME NEW q \in Runs PROVE Turn(run[q])'
  <2>1. Turn(run[q])
    BY DEF TurnInv
  <2> QED
    BY <1>1, <2>1 DEF Turn, Has, OfferEdit
<1>3. Alone'
  BY <1>1 DEF TurnInv, Alone
<1>4. Prefix' /\ OfferPast'
  BY <1>1 DEF TurnInv, Prefix, OfferPast, OfferEdit, Has
<1> QED
  BY <1>2, <1>3, <1>4 DEF TurnInv

LEMMA NextTurn ==
  ASSUME TurnInv, Overlap = FALSE, [Next]_vars
  PROVE  TurnInv'
<1>1. Inv'
  BY NextInv DEF TurnInv
<1>2. ASSUME NEW r \in Runs, Step(r) PROVE TurnInv'
  BY <1>1, <1>2, ReadTurn, FindListingTurn, CallTurn, WriteTurn, CreateListingTurn,
     AppendEventTurn, SetStageTurn DEF Step
<1>3. CASE UNCHANGED vars
  <2>1. Prefix' /\ OfferPast' /\ Alone'
    BY <1>3 DEF vars, rows, TurnInv, Prefix, OfferPast, OnOffer, OfferEdit, Alone, Has
  <2>2. \A q \in Runs : Turn(run[q])'
    BY <1>3 DEF vars, rows, TurnInv, Turn, InRegister, OfferEdit, Has
  <2> QED
    BY <1>1, <2>1, <2>2 DEF TurnInv
<1> QED
  BY <1>1, <1>2, <1>3, StartTurn, FaultTurn, CreatorTurn DEF Next

\* A listing row becomes active only where the log has no LISTED.
LEMMA NextOffer ==
  ASSUME TurnInv, [Next]_vars, Has("LISTED"), ~OnOffer
  PROVE  ~OnOffer'
<1>1. CASE \E r \in Runs : CreateListing(r)
  <2>1. PICK r \in Runs : CreateListing(r)
    BY <1>1
  <2>2. run[r].pc = "create" /\ Turn(run[r])
    BY <2>1 DEF CreateListing, TurnInv
  <2> QED
    BY <2>2 DEF Turn
<1>2. CASE Withdraw
  BY <1>2 DEF Withdraw, OnOffer, TurnInv, Inv, TypeOK
<1>3. CASE UNCHANGED listing
  BY <1>3 DEF OnOffer
<1>4. ASSUME NEW r \in Runs, Step(r), ~CreateListing(r) PROVE UNCHANGED listing
  BY <1>4 DEF Step, ReadIngest, ReadLabel, ReadRegister, ReadList, ReadSettle, Look, Read, PutLabels,
     SendTrace, Promote, Project, FindListing, AppendEvent, SetStage, rows
<1>5. ASSUME NEW r \in Runs, Launch(r) \/ Press(r) \/ Buy(r) \/ Fault(r) PROVE UNCHANGED listing
  BY <1>5 DEF Launch, Press, Buy, Start, Fault, rows
<1>6. CheckEdit \/ WriteEdit \/ LabelJob \/ UNCHANGED vars => UNCHANGED listing
  BY DEF CheckEdit, WriteEdit, LabelJob, vars, rows
<1> QED
  BY <1>1, <1>2, <1>3, <1>4, <1>5, <1>6 DEF Next

\* When handlers take turns, whatever is replayed and wherever they stop: what
\* is on offer keeps its terms, and what was withdrawn does not come back.
THEOREM ReplaysInTurn ==
  Spec /\ Overlap = FALSE => []OfferedIsFixed /\ WithdrawnNotOffered
<1> SUFFICES ASSUME Overlap = FALSE PROVE Spec => []OfferedIsFixed /\ WithdrawnNotOffered
  OBVIOUS
<1>1. Init => TurnInv
  BY InitTurn
<1>2. TurnInv /\ [Next]_vars => TurnInv'
  BY NextTurn
<1>3. TurnInv => OfferedIsFixed
  BY DEF TurnInv, OfferPast, OfferedIsFixed, OfferWithdraw, OfferEdit, OfferBulk
<1>4. TurnInv /\ [Next]_vars => [Has("LISTED") /\ Has("TAKEDOWN") /\ ~OnOffer => ~OnOffer']_vars
  BY NextOffer
<1> QED
  BY <1>1, <1>2, <1>3, <1>4, PTL DEF Spec, WithdrawnNotOffered
=============================================================================
