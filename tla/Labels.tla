------------------------------- MODULE Labels -------------------------------
(***************************************************************************)
(* The labels of one asset: the job queue that requests fill and workers   *)
(* drain, the labelers behind it (structure, judge, vision, the preference *)
(* jury), the labels the browser measures and those the creator edits.     *)
(* Every statement is an action: an enqueue looks before it writes, a      *)
(* claim, each label inserted and the job's end are statements of their    *)
(* own, and so are an edit's stage check and its write.                    *)
(***************************************************************************)
EXTENDS Naturals, Sequences, FiniteSets

CONSTANTS
  Keys,              \* label keys
  KeysOf,            \* KeysOf[t]: the keys a labeler of type t may emit
  Measurable,        \* those the browser may measure
  Pairs,             \* preference specs, told apart by their fingerprint
  SourceOf,          \* SourceOf[p]: the family that wrote the candidates of p
  Jurors, FamilyOf,  \* the panel; FamilyOf[j]: the family of juror j
  Answers,           \* a juror's winner for a/b and, second, for b/a
  Null,              \* no row, no spec
  Callers, Workers,  \* requests and labelers that may be active at a time
  Tabs,              \* label edits that may be in flight at a time
  MaxCalls,          \* bound on enqueueing requests
  MaxStops,          \* bound on server stops
  Concurrent         \* may two requests enqueue at the same time?

Families == {FamilyOf[x] : x \in Jurors}

Types == {"trace_structural", "trace_judge", "tier2_vision", "text_pairwise_preference"}

Winners == {"a", "b", "tie"}

Labelled == [source : {"model", "creator"}, confirmed : BOOLEAN]

ASSUME LabelsAssumption ==
  /\ KeysOf \in [Types -> SUBSET Keys] /\ Measurable \subseteq Keys
  /\ Answers \subseteq Winners \X Winners
  /\ MaxCalls \in Nat /\ MaxStops \in Nat /\ Concurrent \in BOOLEAN
  /\ IsFiniteSet(Jurors)
  /\ Null \notin Pairs \cup Labelled

VARIABLES
  sealed,      \* the stage has passed LABELED
  configured,  \* which of the model and the jury have a key
  job,         \* label_job, numbered by created_at
  caller,      \* local state of the requests that enqueue
  runs,        \* runs[t]: calls of runJob / runTier2Job handed to after()
  worker,      \* local state of the runs that have claimed a job
  label,       \* asset_label, by key
  tab,         \* local state of the label edits
  pairs,       \* preference_pair
  word,        \* history: what the creator last said about a key
  calls, stops \* counted for MaxCalls and MaxStops

queue == <<configured, job, caller, runs, worker, pairs, calls, stops>>
labels == <<sealed, label, tab, word>>
labelsVars == <<queue, labels>>

Jobs == DOMAIN job

Unfinished == {"awaiting_model", "queued", "running"}

\* Only a preference job has a spec, its pair.
Specified(x) == (x.type = "text_pairwise_preference") = (x.spec # Null)

Rows ==
  {x \in [type : Types, state : Unfinished \cup {"done", "failed"}, spec : Pairs \cup {Null}] : Specified(x)}

\* A request on its way; the jobs it found and the runs it will hand over.
Requesting ==
  {x \in [pc : {"look", "write"}, type : Types, spec : Pairs \cup {Null}, state : {"queued", "awaiting_model"},
          found : SUBSET Jobs, launch : SUBSET Types] : Specified(x)}

\* A pair with, of its jurors column, how many voted, how many of those named
\* the winner in both orders, and their families.
Verdicts == [job : Nat, spec : Pairs, winner : Winners, cast : Nat, named : Nat, families : SUBSET Families]

\* A run with the job it claimed and, to be written, keys or a verdict.
Claims ==
  [pc : {"work", "write", "done", "failed"}, job : Jobs, out : SUBSET Keys]
    \cup [pc : {"persist"}, job : Jobs, out : SUBSET Keys, verdict : Verdicts]

\* A label edit between its stage check and its write.
Edits == [pc : {"write"}, act : {"confirm", "set", "remove", "measure"}, key : Keys, shown : BOOLEAN]

Free == [pc |-> "idle"]

\* Every variable has its type.
LabelsTypeOK ==
  /\ sealed \in BOOLEAN
  /\ configured \subseteq {"model", "jury"}
  /\ job \in Seq(Rows)
  /\ caller \in [Callers -> {Free} \cup Requesting]
  /\ runs \in [Types -> Nat]
  /\ worker \in [Workers -> {Free} \cup Claims]
  /\ label \in [Keys -> Labelled \cup {Null}]
  /\ tab \in [Tabs -> {Free} \cup Edits]
  /\ pairs \subseteq Verdicts
  /\ word \in [Keys -> {"none", "ok", "set"}]
  /\ calls \in 0..MaxCalls /\ stops \in 0..MaxStops

LabelsInit ==
  /\ sealed = FALSE
  /\ configured \in SUBSET {"model", "jury"}
  /\ job = <<>>
  /\ caller = [c \in Callers |-> Free]
  /\ runs = [t \in Types |-> 0]
  /\ worker = [w \in Workers |-> Free]
  /\ label = [k \in Keys |-> Null]
  /\ tab = [b \in Tabs |-> Free]
  /\ pairs = {}
  /\ word = [k \in Keys |-> "none"]
  /\ calls = 0 /\ stops = 0

-----------------------------------------------------------------------------
\* Enqueueing: the trace and preview routes, enqueuePreferenceJob.

Configured(t) ==
  \/ t = "trace_structural"
  \/ t \in {"trace_judge", "tier2_vision"} /\ "model" \in configured
  \/ t = "text_pairwise_preference" /\ "jury" \in configured

Configure(x) ==
  /\ configured' = configured \cup {x}
  /\ UNCHANGED <<job, caller, runs, worker, pairs, calls, stops, labels>>

Looking(t, p, launch) ==
  [pc |-> "look", type |-> t, spec |-> p, state |-> "queued", found |-> {}, launch |-> launch]

\* The trace route enqueues the structural labeler, then the judge, and
\* refuses a sealed asset; the preview route does not look at the stage.
Call(c, t, p) ==
  /\ calls < MaxCalls /\ caller[c] = Free
  /\ Concurrent \/ \A d \in Callers : caller[d] = Free
  /\ t # "trace_judge"
  /\ t = "trace_structural" => ~sealed
  /\ Specified(Looking(t, p, {}))
  /\ caller' = [caller EXCEPT ![c] = Looking(t, p, {})]
  /\ calls' = calls + 1
  /\ UNCHANGED <<configured, job, runs, worker, pairs, stops, labels>>

\* UPDATE label_job SET state.
SetTo(S, state) ==
  [j \in Jobs |-> IF j \in S THEN [job[j] EXCEPT !.state = state] ELSE job[j]]

\* ORDER BY created_at LIMIT 1.
Oldest(S) == CHOOSE j \in S : \A i \in S : j <= i

\* The unfinished jobs an enqueue finds; a pair is found by its fingerprint.
Same(t, p) ==
  {j \in Jobs : job[j].type = t /\ job[j].spec = p /\ job[j].state \in Unfinished}

Look(c) ==
  /\ caller[c].pc = "look"
  /\ caller' = [caller EXCEPT ![c] = [@ EXCEPT !.pc = "write",
                              !.state = IF Configured(caller[c].type) THEN "queued" ELSE "awaiting_model",
                              !.found = Same(caller[c].type, caller[c].spec)]]
  /\ UNCHANGED <<configured, job, runs, worker, pairs, calls, stops, labels>>

\* What an enqueue promotes: every parked row of its type, or the one pair's.
Parked(e) ==
  LET rows == {j \in Jobs : job[j].type = e.type /\ job[j].state = "awaiting_model"}
  IN IF e.spec = Null THEN rows ELSE rows \cap {Oldest(e.found)}

Enqueued(e) ==
  IF e.found = {}
  THEN Append(job, [type |-> e.type, state |-> e.state, spec |-> e.spec])
  ELSE IF e.state = "queued"
  THEN SetTo(Parked(e), "queued")
  ELSE job

\* Mutant of Launch: only a job that was inserted is run.
LaunchNew(e) == e.launch \cup (IF e.state = "queued" /\ e.found = {} THEN {e.type} ELSE {})

\* A job that may run is run, whether it was inserted, found or promoted.
Launch(e) == e.launch \cup (IF e.state = "queued" THEN {e.type} ELSE {})

\* The second statement; the last one of a request hands its runs to after().
Write(c) ==
  /\ caller[c].pc = "write"
  /\ LET e == caller[c]
         launch == Launch(e)
     IN /\ job' = Enqueued(e)
        /\ IF e.type = "trace_structural"
           THEN caller' = [caller EXCEPT ![c] = Looking("trace_judge", Null, launch)] /\ runs' = runs
           ELSE /\ caller' = [caller EXCEPT ![c] = Free]
                /\ runs' = [t \in Types |-> runs[t] + (IF t \in launch THEN 1 ELSE 0)]
  /\ UNCHANGED <<configured, worker, pairs, calls, stops, labels>>

-----------------------------------------------------------------------------
\* Running a job.

Queued(t) == {j \in Jobs : job[j].type = t /\ job[j].state = "queued"}

\* Mutant of Claimed: the row is taken but stays queued.
ClaimedSoftly(t) == {}

\* What one UPDATE sets to running: the oldest queued row, or, for vision, all.
Claimed(t) == IF t = "tier2_vision" \/ Queued(t) = {} THEN Queued(t) ELSE {Oldest(Queued(t))}

\* runJob and runTier2Job work on one row; with none queued they return.
Claim(w, t) ==
  /\ worker[w] = Free /\ runs[t] > 0
  /\ runs' = [runs EXCEPT ![t] = @ - 1]
  /\ IF Queued(t) = {} THEN UNCHANGED <<job, worker>>
     ELSE /\ job' = SetTo(Claimed(t), "running")
          /\ \E j \in IF t = "tier2_vision" THEN Queued(t) ELSE {Oldest(Queued(t))} :
               worker' = [worker EXCEPT ![w] = [pc |-> "work", job |-> j, out |-> {}]]
  /\ UNCHANGED <<configured, caller, pairs, calls, stops, labels>>

Proceed(w, pc, out) == worker' = [worker EXCEPT ![w] = [pc |-> pc, job |-> worker[w].job, out |-> out]]

Runs(w, t) == worker[w].pc = "work" /\ job[worker[w].job].type = t

Working == UNCHANGED <<configured, job, caller, runs, pairs, calls, stops, labels>>

\* runStructural: every key is derived from the counts.
DeriveStructure(w) ==
  /\ Runs(w, "trace_structural")
  /\ Proceed(w, "write", KeysOf["trace_structural"])
  /\ Working

\* judgeRedactedTrace: any of the judge's keys; an answer with none has failed.
AskJudge(w) ==
  /\ Runs(w, "trace_judge")
  /\ \E out \in SUBSET KeysOf["trace_judge"] : Proceed(w, IF out = {} THEN "failed" ELSE "write", out)
  /\ Working

\* labelPreviewWithModel: no preview or no answer fails; no usable key does not.
AskVision(w) ==
  /\ Runs(w, "tier2_vision")
  /\ \/ Proceed(w, "failed", {})
     \/ \E out \in SUBSET KeysOf["tier2_vision"] : Proceed(w, IF out = {} THEN "done" ELSE "write", out)
  /\ Working

\* Mutant of Inserted: the last writer wins.
InsertedOver(k) == [label EXCEPT ![k] = [source |-> "model", confirmed |-> FALSE]]

\* ON CONFLICT (asset_id, namespace, key) DO NOTHING.
Inserted(k) ==
  IF label[k] # Null THEN label ELSE [label EXCEPT ![k] = [source |-> "model", confirmed |-> FALSE]]

\* applyTier1Labels, one statement; no stage is looked at.
Apply(w) ==
  /\ worker[w].pc = "write"
  /\ \E k \in worker[w].out :
       /\ label' = Inserted(k)
       /\ Proceed(w, IF worker[w].out = {k} THEN "done" ELSE "write", worker[w].out \ {k})
  /\ UNCHANGED <<configured, job, caller, runs, pairs, calls, stops, sealed, tab, word>>

-----------------------------------------------------------------------------
\* The jury.

Swap(v) == IF v = "a" THEN "b" ELSE IF v = "b" THEN "a" ELSE "tie"

\* judgeWithJuror: a verdict that flips with the order is a tie.
Vote(v) == IF v[1] = Swap(v[2]) THEN v[1] ELSE "tie"

\* runJury: a juror of the candidates' family sits out.
Sitting(p) == {x \in Jurors : FamilyOf[x] # SourceOf[p]}

VotesFor(votes, x) == {v \in votes : Vote(v[2]) = x}

\* Mutant of Agreed: more than half of the votes are enough.
AgreedMajority(votes, x) == x # "tie" /\ 2 * Cardinality(VotesFor(votes, x)) > Cardinality(votes)

\* aggregateVotes: a winner, not a tie, of at least three votes in four.
Agreed(votes, x) == x # "tie" /\ 4 * Cardinality(VotesFor(votes, x)) >= 3 * Cardinality(votes)

Verdict(j, voting, answer, x) ==
  [job |-> j, spec |-> job[j].spec, winner |-> x, cast |-> Cardinality(voting),
   named |-> Cardinality({y \in voting : answer[y] = <<x, Swap(x)>>}),
   families |-> {FamilyOf[y] : y \in voting}]

\* A juror that never answers is dropped; no votes, or nobody to ask, is an error.
Judge(w) ==
  /\ Runs(w, "text_pairwise_preference")
  /\ \E voting \in SUBSET Sitting(job[worker[w].job].spec) : \E answer \in [voting -> Answers] :
       LET winners == {x \in Winners : Agreed({<<y, answer[y]>> : y \in voting}, x)}
       IN \/ voting = {} /\ Proceed(w, "failed", {})
          \/ voting # {} /\ winners = {} /\ Proceed(w, "done", {})
          \/ voting # {} /\ \E x \in winners :
               worker' = [worker EXCEPT ![w] = [pc |-> "persist", job |-> worker[w].job, out |-> {},
                                                verdict |-> Verdict(worker[w].job, voting, answer, x)]]
  /\ Working

\* persistPreferencePair: ON CONFLICT (job_id) DO NOTHING.
Persist(w) ==
  /\ worker[w].pc = "persist"
  /\ LET v == worker[w].verdict
     IN pairs' = IF \E x \in pairs : x.job = v.job THEN pairs ELSE pairs \cup {v}
  /\ Proceed(w, "done", {})
  /\ UNCHANGED <<configured, job, caller, runs, calls, stops, labels>>

Finish(w) ==
  /\ worker[w].pc \in {"done", "failed"}
  /\ job' = [job EXCEPT ![worker[w].job].state = worker[w].pc]
  /\ worker' = [worker EXCEPT ![w] = Free]
  /\ UNCHANGED <<configured, caller, runs, pairs, calls, stops, labels>>

\* The server stops: requests, handed over runs and claimed jobs are dropped.
Stop ==
  /\ stops < MaxStops
  /\ caller' = [c \in Callers |-> Free]
  /\ runs' = [t \in Types |-> 0]
  /\ worker' = [w \in Workers |-> Free]
  /\ tab' = [b \in Tabs |-> Free]
  /\ stops' = stops + 1
  /\ UNCHANGED <<configured, job, pairs, calls, sealed, label, word>>

-----------------------------------------------------------------------------
\* Labels the browser measures and labels the creator edits.

\* validateMeasuredLabels: only known keys are taken.
Allowed(k) == k \in Measurable

\* What the browser measured; the stage is read first.
Measure(b, k) ==
  /\ tab[b] = Free /\ ~sealed
  /\ Allowed(k)
  /\ tab' = [tab EXCEPT ![b] = [pc |-> "write", act |-> "measure", key |-> k, shown |-> TRUE]]
  /\ UNCHANGED <<queue, sealed, label, word>>

\* The stage is read; a confirmation or a removal names the row that was shown.
Edit(b, act, k) ==
  /\ tab[b] = Free /\ ~sealed
  /\ act \in {"confirm", "remove"} => label[k] # Null
  /\ tab' = [tab EXCEPT ![b] = [pc |-> "write", act |-> act, key |-> k, shown |-> TRUE]]
  /\ UNCHANGED <<queue, sealed, label, word>>

\* The row the tab was shown is still there: its id is not used again.
Named(e) == e.shown

Edited(e) ==
  IF e.act = "measure" THEN Inserted(e.key)
  ELSE IF e.act = "set" THEN [label EXCEPT ![e.key] = [source |-> "creator", confirmed |-> TRUE]]
  ELSE IF ~Named(e) THEN label
  ELSE IF e.act = "remove" THEN [label EXCEPT ![e.key] = Null]
  ELSE [label EXCEPT ![e.key].confirmed = TRUE]

Save(b) ==
  /\ tab[b].pc = "write"
  /\ LET e == tab[b]
         gone == e.act = "remove" /\ e.shown
     IN /\ label' = Edited(e)
        /\ word' = [word EXCEPT ![e.key] =
             IF e.act = "set" THEN "set" ELSE IF gone THEN "none"
             ELSE IF e.act = "confirm" /\ e.shown /\ @ = "none" THEN "ok" ELSE @]
        /\ tab' = [d \in Tabs |-> IF d = b THEN Free
                     ELSE IF gone /\ tab[d] # Free /\ tab[d].key = e.key THEN [tab[d] EXCEPT !.shown = FALSE]
                     ELSE tab[d]]
  /\ UNCHANGED <<queue, sealed>>

\* Stage 3 moves the asset on.
Seal ==
  /\ ~sealed
  /\ sealed' = TRUE
  /\ UNCHANGED <<queue, label, tab, word>>

-----------------------------------------------------------------------------
Step(w) ==
  \/ \E t \in Types : Claim(w, t)
  \/ DeriveStructure(w) \/ AskJudge(w) \/ AskVision(w) \/ Apply(w)
  \/ Judge(w) \/ Persist(w) \/ Finish(w)

LabelsNext ==
  \/ \E x \in {"model", "jury"} : Configure(x)
  \/ \E c \in Callers : (\E t \in Types, p \in Pairs \cup {Null} : Call(c, t, p)) \/ Look(c) \/ Write(c)
  \/ \E w \in Workers : Step(w)
  \/ Stop \/ Seal
  \/ \E b \in Tabs, k \in Keys : Measure(b, k) \/ \E act \in {"confirm", "set", "remove"} : Edit(b, act, k)
  \/ \E b \in Tabs : Save(b)

LabelsSpec == LabelsInit /\ [][LabelsNext]_labelsVars

\* A request goes on, and a run handed to after() is made and goes on.
FairSpec ==
  /\ LabelsSpec
  /\ \A c \in Callers : WF_labelsVars(Look(c) \/ Write(c))
  /\ \A w \in Workers : WF_labelsVars(Step(w))

-----------------------------------------------------------------------------
\* A job is being run by one worker at most, and is marked running while it is.
OneWorker ==
  \A w \in Workers : worker[w] # Free =>
    /\ job[worker[w].job].state = "running"
    /\ \A v \in Workers \ {w} : worker[v] # Free => worker[v].job # worker[w].job

\* What the creator wrote stands until the creator removes it, whatever jobs
\* and measurements land later, and a label is shown as confirmed only when
\* the creator confirmed that very row.
WordStands ==
  \A k \in Keys :
    /\ word[k] = "set" => label[k] = [source |-> "creator", confirmed |-> TRUE]
    /\ label[k] # Null /\ label[k].confirmed => word[k] # "none"

\* A preference pair was decided: one per job, a winner that three in four of
\* the voting jurors named in both orders, none of the candidates' family.
PairsDecided ==
  \A x \in pairs :
    /\ \A y \in pairs : y.job = x.job => y = x
    /\ x.winner # "tie" /\ x.cast > 0 /\ 4 * x.named >= 3 * x.cast
    /\ SourceOf[x.spec] \notin x.families

\* While the server is up the queue runs empty again and again: every job that
\* is queued, at once or when a model is configured later, is run and ends one
\* way or the other.
EventuallyFinished ==
  []<>(stops > 0 \/ \A j \in Jobs : job[j].state \notin {"queued", "running"})

\* Not guaranteed: a job that is running is held by a worker.
RunningIsHeld ==
  \A j \in Jobs : job[j].state = "running"
                    => \E w \in Workers : worker[w] # Free /\ worker[w].job = j
=============================================================================
