# A verification development for WTR

WTR registers creators' media and agent traces as licensed training data.  An
asset goes through five stages (ingest, label, register, list, settle); the
stages that matter talk to IPFS and a key vault (CDR), to Story (IP assets,
licence tokens) and to Trace (provenance documents), and record what they did in
PostgreSQL.  None of those systems share a transaction.  The code relies on one
idea: every externally visible step is followed by an event in an append-only
log, `asset_event`, and a retry reads the log and resumes.  Around that log a
dashboard, a label queue, a marketplace of requests and a dataset builder read
rows, decide, and write in later statements.  This directory models those parts,
checks them with TLC and proves the central facts with TLAPS.

Paths below are relative to `src/src/lib/` unless they say otherwise.

## 1. Inventory

| Component | State | Operations | Hard behaviour | What must hold |
|---|---|---|---|---|
| Registration, `pipeline/stages/register.ts`, `register/service.ts`, `stages/label.ts`, `trace-document.ts` | log, asset row, stage; artefacts at IPFS/CDR, Trace, Story | label, 3a upload, 3b Trace, 3c IP asset, 3d vault, failure record | four external calls, three statements between each two, no transaction, no lock on the asset | the log is the truth, resuming is possible, the vault is gated by the recorded IP asset |
| Purchase and settlement, `stages/settle.ts`, `catalog/service.ts` | sale and payout rows, log, stage, chain columns; licence tokens, Trace updates | readiness check, mint, sale, payout, promotion, settle | as above, with money; several buyers | one sale, its three events about it, Trace and log agree |
| Encrypted upload, `upload/encrypted-uploader.ts`, `upload/ciphertext-store.ts`, `storage/media-store.ts` | key in localStorage, offset columns, ciphertext file or parts | begin, status, append chunk | a request outlives its tab; file and row are written separately | the recorded offset is backed by the file, one key per file |
| Spine, `pipeline/index.ts`, `stages/ingest.ts`, `stages/list.ts`, `scripts/e2e.ts` | log, stage, listing, labels | runPipeline, registration, purchase, licence choice, withdrawal | replay of a finished pipeline, skip paths, stops between event and stage | the stage never claims more than the log, what is on offer does not change |
| Withdrawal, `takedown/service.ts` | listing status, TAKEDOWN event, pending submissions | withdrawAsset | against purchases, listing, submissions, exports | nothing withdrawn is sold or offered again |
| Accounts, `auth/`, `consent/`, `settings/` | creator, consent rows, cookies | sign in, onboard, accept, retype the address | lost answers, two statements of a sign-in, parallel acceptances | a verified stamp is a proof, one acceptance is active |
| Upload intake, `upload/register-asset.ts`, `db/migrations/0001_init.sql`, `components/dashboard/upload-queue.tsx`, `bulk-upload.tsx` | asset row, duplicate flags, the browser's queue | register, flag, encrypt, apply a manifest | accounts that share a browser, contested bytes | no upload without its own account's consent, collisions flagged on both sides |
| Label edits and jobs, `labels/`, `traces/job-types.ts` | labels, `label_job` | edit, enqueue, claim, run, finish | two workers with two claim statements, a server that stops, edits against jobs | one worker per job, the creator's word stands, the queue drains |
| Preference jury, `labels/preference.ts` | `preference_pair` | ask both orders, aggregate, persist | failing jurors, position bias, ties | a pair is what three quarters of the voting jurors named |
| Trace client, `trace/client.ts`, `trace/mock.ts` | none; slots at the provider | register, update, status, policy | delayed, lost and repeated requests | sending again is safe, a conflict is real |
| Lab requests, `requests/service.ts`, `components/dashboard/request-form.tsx` | request, submission | post, close, submit, retract, review | reads in statements before the insert, two tabs | a submission answers its brief, decisions are final |
| Datasets, `datasets/` | dataset, snapshot, pairs | build, freeze, export | withdrawals and replays while an export is read | an export holds what is licensed and not withdrawn |
| Agent traces, `traces/parse.ts`, `redact.ts`, `labels.ts` | none | parse, redact, validate | four tools' formats in one reader, results by position | counts are right, what leaves the device is accepted |
| Measurement, previews, hashing | none | functions of bytes and pixels | | not modelled |
| Dashboard queries and pages, marketing site, charts, infrastructure | none of its own | | | partly, see section 5 |

Components interact through rows (the stage, the labels, the listing), never
through messages.  That is why the models interleave single statements.
`PROJECT.json` lists each component with its status, and the hazards at their
lines.

## 2. Modules

| Module | Content |
|---|---|
| `Ledger` | abstract: entries recorded one after the other, each once, none changed |
| `Answer` | abstract: the life of one submission |
| `WriteOnce` | abstract: slots that take one document each and tell the truth about it |
| `Register` | label and register handlers, the creator's edits, every fault; implements `Ledger` |
| `Settle` | purchase readiness, the settle handler, withdrawal, every fault; implements `Ledger` |
| `Upload` | browser, PUT handler and media store of the encrypted upload |
| `Spine` | the five handlers on one asset, replayed and overlapped; pages that decide by the stage |
| `Account` | sign-in, onboarding, settings and consent |
| `Intake` | extends `Account`: the upload queue, the transaction of registerAsset, the manifest |
| `Labels` | label jobs, the labelers, the jury, label edits |
| `TraceClient` | the retry loop and the provider behind a bad network; implements `WriteOnce` |
| `Requests` | briefs and submissions, with form and pages; implements `Answer` |
| `Datasets` | filters, snapshots and exports |
| `Traces` | the four parsers reading a file along, the structure and the preview, the server's validation |
| `MC...` | constants for TLC, one module per component |
| `RegisterProofs`, `SettleProofs`, `DeviceProofs`, `SpineProofs`, `TraceClientProofs`, `RequestsProofs`, `DatasetsProofs`, `CreatorProofs` | theorems; `DeviceProofs` about `Upload` and `Traces`, `CreatorProofs` about `Account`, `Intake` and `Labels` |

Composition: `Spine` has the outcomes of stages 3 and 5 that the rest of the
system reads, and `Register` and `Settle` have their inside.  `Intake` composes
accounts, consent and uploads.  `TraceClient` discharges what `Register` and
`Settle` assume of a call to Trace: a repeated document is a duplicate, another
one a conflict.

### Register

* `log[s]` stands for the event of sub-step `s` (1 = 3a ... 4 = 3d), and holds
  the artefact its payload names; `asset[s]` for the columns that the sub-step
  writes in the asset row.  Both name artefacts by the order in which the
  service made them: `uploads`, `ips`, `vaults`; `trace` is the document Trace
  holds.
* One action per statement or port call: `Trigger` (registerAsset and its
  readiness check), `LabelCheck/Append/Stage`, `ReadAsset`, `ReadEvents`,
  `ReadPreset`, `Skip`, `CallUpload/Trace/Ip/Vault`, `AppendSub`, `ProjectSub`,
  `Finish`, and the catch block `CatchRead`, `RecordFailure`, `FailStage`.
* `run[r]` holds an attempt's local variables; where the code reads locals
  (`asset` at the start, `cid` and `ipId` from it), so does the model.
* `CallIp` always makes a new IP asset: its metadata carries the time of the call.
  `CallTrace` compares documents: the document depends on the licence label, on all
  the asset's other labels (`labels`, a version), on creator rows (`profile`) and on
  the asset row, read at the time of the call.
* Label edits read the stage in one statement (`CheckEdit`) and write in
  another (`WriteEdit`).  A label job runs in `after()` and inserts labels at any
  stage (`LabelJob`): registration waits for none of them.
* Two states are beyond a retry, and the properties name them: `Stranded`, an event
  whose column was never written, and `Overtaken`, a document that Trace took, whose
  reply was lost, and whose labels or creator rows were written since.
* `Progress` is what the register card ticks off, and `NothingRedone` speaks of it.

### Settle

* `log[1]` and `log[3]` hold the sale SOLD and SETTLED are about, `log[2]` the
  payout of PAYOUT_CREDITED.  `root` is `asset.trace_metadata_root`, `trace` the
  document Trace accepted as update 1 of the data id.
* `CanBuy` is the purchase card between two purchases.
* `Visit` is purchaseReadiness and the head of purchaseAsset; `CheckOwner` and
  `ReadItem` are its further reads; the rest is the handler.
* The handler's catch block writes nothing, so a failed call, a failed statement
  and a stop are one action, `Fault`; when a reply is lost, it strikes after the
  call.
* A second metadata update is not modelled because it cannot happen: that is
  `NeverSecondUpdate`, an invariant, not an assumption (`Promote` would be
  disabled, and the run would report it).  For the same reason Trace's cap of
  100 updates is out of reach.
* Fee quotes, prices, metadata text and the token id are left out.

### Upload

* Chunk `c` is known by the key it was sealed under: an asset is identified by
  the hash of its plaintext, so there is only one file.  Two more contents
  exist: `absent`, and `zeros` for the hole a file gets when it is written or
  cut beyond its end.
* `backend` is chosen in `Init`: one file (`FsMediaStore`), or one object per
  chunk (`BlobMediaStore`, `R2MediaStore`).  Truncation looks first (`stat`, or
  the list of parts) and acts later, in both.
* A request (`req[t]`) goes on when its tab has gone (`Drop`).

### Spine

* `log` is the set of kinds of event the asset has; `stage`, `label`, `columns` and
  `listing[p]` are columns and rows.  `listing` has one row for each preset: its
  id is made from asset and terms, so a replay finds the row it made before.
  `columns` are those of 3a, 3b and 3c that a later step reads: 3d gives up without
  media vault and ipId, settlement without the ipId or the data id.
* Of the calls, the two that Trace may refuse to repeat are here: `SendTrace`, whose
  document has the preset the attempt read and the labels as they are, and `Promote`,
  whose document carries the time of the attempt.  A lost reply of either, or a stop
  between an event and its column, may leave the asset `Stranded`.
* The reads at the head of a handler are one action (`ReadIngest` ...
  `ReadSettle`); every write after them is its own (`AppendEvent`, `SetStage`,
  `CreateListing`, ...), and a stop may come between any two.
* `Launch` starts runPipeline, `Press` the dashboard's registration, `Buy` a
  purchase.  `OfferEdit`, `OfferBulk` and `OfferWithdraw` are what the pages show.

### Account and Intake

* A sign-in is two statements: `Login` looks the account up, `Welcome` stamps it
  where the address is still this one.  `proof` is a history variable: the
  wallets proved for an account since its address was last changed.
* `Accept` and `CommitAccept` are the two statements of one READ COMMITTED
  transaction; `Abort` rolls it back.
* `item[<<b, d>>]` is an entry of the queue in browser `b`; `Insert` is the
  trigger's look at committed rows of other accounts, `Commit` the transaction's
  end.  `Registered` says which rows the trigger flags and tells.

### Labels

* `job[j]` is a row of `label_job`, `worker[w]` a run handed to `after()`,
  `caller[c]` a request between its look at unfinished jobs and its insert.
* Both claim statements are modelled: the one that takes jobs of every type for
  an asset, and the one for a type.
* A juror votes for `a/b` and `b/a`; a vote counts when both name the same
  candidate.  Jurors of the family that wrote the candidates do not vote.
* `word[k]` is a history variable: what the creator last did to a label.
* Its state predicates carry the module's name (`LabelsTypeOK`, `LabelsSpec`), so that
  one proof module can extend it and `Intake`.

### TraceClient

* `net` is the set of requests on their way.  A request the client gave up may
  still arrive; a served one is answered, refused for a moment, or its answer lost.
* A call tries at most `MaxAttempts` times, with the error classes of `client.ts`.

### Requests

* A submission reads brief, KYC flag and listing in three statements and inserts
  in a fourth (`ReadRequest`, `CheckKyc`, `CheckEligible`, `Insert`).
* The form keeps its own amount: choosing how to fund and changing the budget fill it
  in (`Suggested`), and it may be typed over.  Amounts are counted in `Grain` per IP.

### Datasets

* A saved filter is data of its own and may be edited directly (`HandEdit`).
* An export reads members, pairs and documents one after the other.  Two history
  variables: `gone`, of a snapshot and of an export, is what was withdrawn when it was
  asked for, and `offered` holds the works that have been active and on sale.
* A pair is of the asset it was judged for and may name the trace its candidates came
  from; the export asks about the asset only (`Sources` are the traces).

### Traces

* A line of a file is a record of what the parsers look at: whose it is, its kind,
  its role, the calls and results in it.  The file is written in pieces, `BeginLine`
  (a record, a Claude Code entry, a Hermes conversation with its first turn) and
  `AddBlock` (a further `tool_use` or `tool_result` block; a further turn, a declared
  call, or a piece of the turn's text: prose, or a `<tool_call>` block).
* `text` counts the pieces in the text of the last turn, and `MaxText` is
  `MAX_TEXT_CHARS`: the text is cut before it is searched, so an embedded call beyond
  the cut is not found, and one within it whose JSON is invalid makes the parser throw.
* `read[f]` is what the parser of format `f` has made of the pieces so far; each of
  the four loops of `parse.ts` reads along (`ReadEvent`, `ReadEntry`, `ReadBlock`,
  `ReadTurn`) and throws by setting `refused`.  `Parsed` is `parseTrace` of the file
  as it is: detection, `assertSingleFormat`, `finalize`.  A parser keeps nothing but
  what it has made so far, so reading along is reading the whole file at the end.
* `trace.calls` has the calls of all messages in one list, `of` is the message of a
  call.  The list is in the order of the messages (`CallsInOrder`), so the search of
  `markLastToolCall`, from the last message and its last call backwards, is a
  search from the end of the list (`Latest`).
* `tally` is a history variable: reference counts that know neither the formats nor
  which call a result belongs to.  `calls` and `left` are the calls that an accepted
  trace has and those a Hermes conversation loses (no usable name, or beyond the cut).
  Its `own` are the calls of the entry being read:
  `fromClaudeCode` pushes an entry after its blocks, so the results in it can only
  answer earlier entries.
* `Upload` has an `Init`, a `Next` and a `Spec` of its own, and `DeviceProofs` is about
  both modules; those of `Traces` are named `TracesInit`, `TracesNext`, `TracesSpec`.

### The event append

`appendEvent` (`pg-store.ts:404`) is `INSERT ... ON CONFLICT DO NOTHING`, and
`asset_event` has rewrite rules on UPDATE and DELETE (`0001_init.sql:153`).
PostgreSQL documents restrictions on combining ON CONFLICT with rules;
`scripts/seed-demo.ts:266-269` avoids it.  The models take the contract that
`pipeline/store.ts:127` declares (a no-op on a known key); an error of that
statement is one of the `db`/`stop` faults.

## 3. Runs

| Run | Question | Bounds | Distinct states |
|---|---|---|---|
| `register_turns` | Do retries resume, and do row, log and artefacts agree under every fault and while labels are written? | 3 attempts in turn, 2 faults, 1 edit or label job | 1,360,554 |
| `register_overlap` | What survives attempts that overlap? | 2 attempts, every fault, 2 faults, 1 edit or label job | 2,564,493 |
| `settle_turns` | Are the three events about one sale, and is a sold asset settled? | 2 buyers in turn, every fault, 3 faults, 5 payouts | 13,980 |
| `settle_overlap` | What survives purchases that overlap with each other and a withdrawal? | 2 sessions, 2 buyers, 2 faults, 3 payouts | 3,135,274 |
| `upload_resume` | Can the upload be resumed to the end, under one key? | 2 devices in turn, 3 chunks, 3 faults, both stores | 13,942 |
| `spine_turns` | Do stage, log and listing agree when handlers are replayed and stopped? | 2 runs in turn, 2 presets, 2 faults, 2 edits or label jobs | 602,964 |
| `requests_answers` | Do submissions answer the brief, and live one life each? | 1 brief, 1 work, 2 tabs, 3 submissions | 52,284 |
| `datasets_exports` | Do snapshots and exports hold only what they may? | 2 works, 1 dataset, 1 snapshot, 1 pair with or without a trace | 2,016,852 |
| `labels_queue` | Is each job run by one worker to its end, and does the creator's word stand? | 1 key, 1 pair, 5 jurors of whom one does not vote, 2 answers, 2 workers, 2 requests, 1 stop | 906,012 |
| `intake_shared` | Do stamps, consent and flags hold when two accounts share a browser? | 2 wallets, 2 accounts, 1 file, 2 versions of the terms | 2,467,470 |
| `traces_files` | Are counts and previews right for every file? | files of up to 5 pieces, limits of 4 messages, 3 in a preview, 2 names, 1 piece of text | 4,122,575 |
| `trace_retries` | Is sending again safe over a bad network? | 2 calls of 3 attempts, 2 faults | 128,692 |

Why these bounds are enough to be interesting.  A fault's effect depends on the
statement it strikes and on what earlier attempts left, so two faults and three
attempts reach every pair (fault during the first run, fault during the retry,
clean retry).  Overlap needs two actors.  Three chunks are a first, a middle and
a last one.  Four voting jurors are the fewest of whom three in four may agree and one
may not.  A submission that is retracted, repeated and decided takes three
rows.  One worker finishing between the other's look and write takes two workers
and two requests.  Two calls, one of them delayed beyond its retry, are what a
conflict takes.  The limits of `Traces` are small so that five pieces reach
and pass each of them.  The bounds are the constants named `Max...` and the sizes of
the sets in the `MC` modules; an action that a bound stops is guarded by it.

`Overlap = FALSE` means that the actors of one kind take turns; the code does not
enforce it, it is how the system is used when people wait for the page.  What
fails without it is in the list below.

`CHECK_DEADLOCK FALSE` is set where the system comes to rest: when attempts,
payouts, requests, calls, rows or lines are used up.

### What the code does not guarantee

Further configurations, outside the listed runs, with properties that TLC finds
violated (where there are two, `-continue` shows both).  They show behaviours that differ from what a comment, a page or
a reader would expect (run `tlc -config MCSettle_credit.cfg MCSettle`).

| Configuration | Property | What happens | Where |
|---|---|---|---|
| `MCRegister_stranded` | `NeverStuck` | event appended, row update failed: every retry fails on a null column | `stages/register.ts:79`, `:104` |
| `MCRegister_stranded` | `NeverConflicts` | a label job writes between a lost reply of Trace and the retry: every retry is refused | `stages/register.ts:119`, `trace-document.ts:107` |
| `MCRegister_split` | `ProjectionFromLog` | overlapping attempts: the row ends with the artefact the log lacks | `stages/register.ts:36` |
| `MCSettle_credit` | `CreditedOnce` | each retry of a failed promotion credits the creator again | `stages/settle.ts:108` |
| `MCSettle_stranded` | `EventuallySettled` | withdrawal of a half-finished purchase: the creator is never credited | `catalog/service.ts:185` |
| `MCSettle_skipped` | `SkippedIsSettled` | a stop between SETTLED and setStage is never repaired | `stages/settle.ts:171` |
| `MCUpload_stale` | `CompleteIsWhole` | overlapping chunk requests: the row is complete, the ciphertext has a gap | `upload/ciphertext-store.ts:131` |
| `MCSpine_withdrawn` | `WithdrawnIsOff` | an asset withdrawn before its listing is created comes on offer | `takedown/service.ts:44` |
| `MCRequests_late` | `ArrivesInTime` | a submission is inserted after its brief was closed | `requests/service.ts:352` |
| `MCDatasets_sent` | `SentIsOffered` | a work is withdrawn while the export that holds it is sent | `datasets/export.ts:257` |
| `MCDatasets_sent` | `SourcesHonourWithdrawal` | a pair is exported although the trace its candidates came from was withdrawn before | `datasets/service.ts:305`, `labels/preference.ts:94` |
| `MCLabels_held` | `RunningIsHeld` | the server stops: a job stays running, and counts as unfinished | `labels/registry.ts:120` |
| `MCIntake_race` | `FlaggedTogether` | two accounts insert the same bytes at once: neither is flagged | `db/migrations/0001_init.sql:106` |
| `MCIntake_marked` | `MarkedIsDescribed` | a file marked "manifest applied" that the batch skipped | `components/dashboard/bulk-upload.tsx:163` |
| `MCTraces_half` | `NeverHalfParsed` | dropped without a word: Hermes conversations after the first, calls without a usable name, calls beyond the first 100,000 characters of a turn | `traces/parse.ts:257`, `:262`, `:452` |
| `MCTraceClient_policy` | `PolicyIsNewest` | a delayed policy arrives after a newer one | `trace/client.ts:204` |

Seen while modelling, and without a configuration: parallel acceptances each
revoke what they saw and may leave two active rows (`consent/service.ts:70`); an
onboarding whose answer was lost leaves a wallet with two accounts, as the address
has no uniqueness; a label edit that was checked before registration is written
after it (`listing/service.ts:40`); the amount the form suggests for a deposit is
rounded and may be refused by the server (`request-form.tsx:48`); two tabs that
both generate a key keep the one that is not used (`encrypted-uploader.ts:4`).  An upload that was
begun and wrote nothing keeps its key for ever, so that no other device can take it up
(`ciphertext-store.ts:81`).

### Fairness

* `Register`, `Settle`, `Spine`, `Labels`, `TraceClient`: `WF` of the steps of what
  is running: Node runs an async handler on; a stop is a fault, and faults
  are bounded.
* `Register`: `WF` of `Trigger`: the creator presses retry as long as the dashboard
  offers it.  `Settle`: `Visit` is strongly fair for each buyer, `Upload`: `Start` for
  each tab, because attempts take turns there and each waits for the other's end.
* `Spine`: `SF` of `Launch`: the operator goes on starting the pipeline until the asset
  is settled.
* `Labels`: a run handed to `after()` is made and goes on while the server is up;
  `EventuallyFinished` claims nothing after a stop.
* `TraceClient`: `fetch` has a time-out, so a call always goes on; a request that is
  neither lost nor refused is served.

All liveness properties are therefore of the form "as long as somebody retries".

## 4. Proofs

The modules whose names end in `Proofs` hold machine-checked proofs for every
value of the constants: any number of attempts, sessions, tabs, buyers, chunks,
faults, accounts, browsers, files and lines in them, calls, works, briefs and snapshots.  They rest
on the assumptions the modules name (`RegisterAssumption`, `SettleAssumption`,
`UploadAssumption`, `SpineAssumption`, `TraceClientAssumption`,
`RequestsAssumption`, `DatasetsAssumption`, `AccountAssumption`,
`IntakeAssumption`, `NoneAssumption`, `LabelsAssumption`, `TracesAssumption`: types of
the constants, at least one preset and one chunk, key names distinct from the two
other chunk contents, a `None`, a `Null` and `NoTerms` that are no values, a finite
panel of jurors, room for at least one message in a trace and two in a preview, which
`MAX_MESSAGES` and `MAX_PREVIEW_MESSAGES` are well above) and on nothing else.

| Theorem | What it says | When |
|---|---|---|
| `RegisterProofs!TypeCorrect` | types | every interleaving |
| `RegisterProofs!LogIsLedger` | the log of stage 3 is the ledger (`LedgerRefined`) | every interleaving |
| `RegisterProofs!RegisteredIsComplete` | REGISTERED only with four events | every interleaving |
| `RegisterProofs!SequentialAttemptsAgree` | the row never contradicts the log, the vault is gated by the recorded IP asset | attempts in turn, every fault |
| `RegisterProofs!OrphansAreFaults` | at most one unreferenced artefact for each fault | attempts in turn, every fault |
| `RegisterProofs!RetryRedoesNothing` | no service is called for a sub-step that is ticked off (`NothingRedone`) | attempts in turn, every fault |
| `RegisterProofs!RetriesResume` | an attempt fails only by a fault of its own, on a stranded column, or on a document whose rows others wrote since Trace took it | attempts in turn, every fault, any edits and label jobs |
| `SettleProofs!TypeCorrect` | types; no row points at a row that is not there | every interleaving |
| `SettleProofs!LogIsLedger` | the log of stage 5 is the ledger (`LedgerRefined`) | every interleaving |
| `SettleProofs!TraceFollowsLog` | Trace has the document the log names, the chain columns follow it, no second update | every interleaving |
| `SettleProofs!PurchasesInTurn` | SOLD, PAYOUT_CREDITED and SETTLED are about one sale | purchases in turn, every fault |
| `SettleProofs!FailedCallsResume` | one token, and the purchase ends with the buyer it was sold to | purchases in turn, failed calls only |
| `SettleProofs!TokensAreFaults` | at most one licence token more than was sold for each fault | purchases in turn, every fault |
| `SettleProofs!WithdrawalHolds` | once no purchase is past its last look at a withdrawn listing, none will be | every interleaving |
| `DeviceProofs!TypeCorrect`, `TracesTypeCorrect` | types of `Upload` and of `Traces` | every interleaving, every file |
| `DeviceProofs!KeysNeverMix` | one key per ciphertext | every interleaving |
| `DeviceProofs!UploadsInTurn` | the offset is backed, the key is kept, done is complete | uploads in turn, every fault |
| `DeviceProofs!CallsAllCounted` | an accepted trace counts the calls of every line, all but those without a usable name or beyond the cut | every file, Hermes conversations standing alone |
| `DeviceProofs!FailuresAllCounted` | it counts as many failures as failing results that found a call open | the same |
| `DeviceProofs!SubmissionsServe` | the server accepts structure and preview; the preview keeps both ends of the session in order | every file, all limits |
| `DeviceProofs!CallsInOrder` | calls stand in the order of their messages | every file, all four parsers |
| `SpineProofs!TypeCorrect` | types | every interleaving |
| `SpineProofs!StagesAreBacked` | the stage claims nothing the log lacks, the catalogue shows registered terms | every interleaving |
| `SpineProofs!ReplaysInTurn` | what is on offer keeps its terms, what was withdrawn does not come back | handlers in turn, every fault |
| `TraceClientProofs!TypeCorrect` | types | every interleaving |
| `TraceClientProofs!ClientIsWriteOnce` | client, network and provider implement `WriteOnce` | every interleaving |
| `TraceClientProofs!ConflictsHaveRivals` | a conflict is against another call's other document | every interleaving |
| `RequestsProofs!TypeCorrect` | types | every interleaving |
| `RequestsProofs!AnswersAreFinal` | submissions implement `Answer` | every interleaving |
| `RequestsProofs!SubmissionsAnswer` | a submission answers the brief's terms and is stranded by nothing | every interleaving |
| `RequestsProofs!BadgesAreBacked` | the funding badge is paid for | every interleaving, every amount |
| `DatasetsProofs!TypeCorrect` | types | every interleaving |
| `DatasetsProofs!SnapshotsAreLicensed` | a snapshot holds works that have been on offer under the terms asked for, never no-train, none withdrawn before | every interleaving |
| `DatasetsProofs!ExportsHonourWithdrawal` | no line and no card entry is for a work withdrawn before the export started | every interleaving |
| `DatasetsProofs!ExportsAreFrozen` | lines and card speak of frozen members | every interleaving |
| `CreatorProofs!TypeCorrect` | types | every interleaving |
| `CreatorProofs!StampsAreProofs` | a stamp is about the address shown | every interleaving |
| `CreatorProofs!UploadsAreConsented` | no upload without its own account's acceptance of its version | every interleaving |
| `CreatorProofs!InTurn` | one active acceptance; collisions flagged and told on both sides | acceptances and registrations in turn |
| `CreatorProofs!LabelsTypeCorrect` | types of the label queue | every interleaving |
| `CreatorProofs!JobsHaveOneWorker` | a claimed job is running, and claimed by nobody else | every interleaving, every stop |
| `CreatorProofs!PairsAreDecided` | one pair per job, named in both orders by three jurors in four, none of the candidates' family | every interleaving, every panel |
| `CreatorProofs!CreatorsWordStands` | what the creator wrote stands; confirmed only by the creator | every interleaving |

How the models are written helps the provers: a record at an index is updated as a
whole, `[run EXCEPT ![r] = [@ EXCEPT !.pc = p, !.sub = s]]`, never by several updates
through one index, and the guards of a `CASE` exclude each other.

The argument is the same in `Register`, `Settle` and `Upload`.

*Every interleaving.*  A handler decides on what it read, and by the time it
acts the rows may have moved on.  None of the properties is inductive by itself:
that sub-step 3 is appended after sub-step 2 follows from a local variable,
not from the log.  The invariants `LogInv` therefore say what an actor
`Knows`: each of its beliefs (`alreadyDone`, its program counter, the root it
read) was true when it was read.  The log only grows (`NextLogGrows`, `Grows`)
and Trace keeps the first document it accepted, so an old belief stays true
(`KnowsStable`), whoever moves in between; each action then has to be shown to
preserve only its own actor's knowledge.  In `Settle` this gives
`NeverSecondUpdate`: a purchase that read a promoted root also read the
PAYOUT_CREDITED event, since the root is written after it and read before it.
In `Upload`, `KeyInv` does the same with `Informed`: a request past the check
carries the key of the row, and the row's key is written once.

*In turn.*  With `Overlap = FALSE` the invariants `SeqInv`, `SaleInv` and `TurnInv` add
`Alone` (at most one actor is active) and what the active one holds exactly,
no longer as a lower bound: `Holds` relates its locals to the row and
to the service's artefacts, `Turn` its offset and key to the row and to the
browser.  An actor that stops anywhere leaves a state in which the next one
re-establishes this.  `LatestIsSold` is the strengthening that makes `SalesAgree`
inductive: retries of lost replies leave sale rows nobody recorded, but only
*before* the recorded one, so `getSale`'s "latest sale" is it.  Under overlap it
fails: the other purchase's sale may be the later row.

*What a fault costs.*  `OrphansBounded` and `TokensBounded` are sums over what was
made, what the log names, what an attempt has in hand and what failed, and they
follow step by step from the invariants above: a service is called only for a
sub-step that is missing in the log and while nobody has an artefact in hand, an
append of the one in hand is never a duplicate (`AppendIsNew`), and what is in hand is
dropped only by a fault, which is counted.  The same `CallsAreMissing` gives
`NothingRedone`.  Under overlap all three fail: two attempts call for one sub-step.

*A retry resumes.*  An attempt may fail in three ways that no fault explains: the
sub-steps out of order, a conflict at Trace, a null column.  `ResumeInv` excludes the
first and explains the others.  `Ordered`: the log has no gaps.  `Follows`: what the
active attempt holds is what the row or the log says, or the row lacks it for ever
(`StuckAt`).  `TraceKept`: what the attempts themselves put into the document Trace
holds, cid, ipId and vault, is what any retry would put there.  A conflict is hence
due to what others wrote, label edits, label jobs or the creator's rows, since Trace
took the document or under the attempt itself.

*A withdrawal holds.*  `WithdrawnIsFinal` is about steps: a purchase passes its last
look only by reading an active listing, and a withdrawn one does not come back.

*Failed calls only.*  `FailedCallsResume` assumes in addition that nothing but a
port call fails.  `PortInv` then ties the stage and the tokens to the log; a stop
between the SOLD event and `setStage` breaks `Shown`: the next buyer then settles
the first one's purchase.

*Spine.*  Under overlap a run `Knows` that the event behind the stage it is about to
set is in the log, because it appended or read it, and that a listing it is about to
create is of an asset with an ipId; the log and the columns only grow, so this stays
true and `StageBacked` follows.  It says nothing of what came later: an overlapping
run may still set the stage back to IN_TRAY under an active listing, so
`OfferedIsFixed` is proved in turn only.  There the log is a `Prefix` of the pipeline,
and `Turn` gives the run that is about to set an editable stage the absence of the
next event, hence of every listing.

*Trace client.*  An answer may arrive long after the slot was looked at.
`Truthful` says that what any message on its way says of a slot is so now; it is
inductive because a slot that took a document keeps it (`ServeSlots`), the
adoption of parked updates by a late registration included.  `Offered` finds the
rival: what a slot holds was some call's ask, and a call never changes its ask.

*Requests.*  The four statements of `submitAsset` check four things at four times.
`Kept` says which of them no step of anybody takes back: the brief's terms and
money, the listing's terms and its having been listed, a verification.  What a
session `Knows` is built of these only, so it survives to the insert.  That the
brief is still open is not among them, which is what `MCRequests_late` shows.
With `Single` each pair has one row, and each row's steps are those of `Answer`.

*Datasets.*  `ExportHonoursWithdrawal` needs that a withdrawn listing never comes
back, and `ExportWithin`: what each of the three reads takes is within the members,
and the members left `gone` out when they were read.  That a filter edited by
hand is sanitised when it is read, not when it is saved, is where
`SnapshotsLicensed` comes from; that a snapshot holds only what has been on offer is
`OfferNoted`: whatever is active and on sale when the catalogue is read was noted.

*Accounts.*  `StampIsProof` is inductive once `Known` (sessions and calls are of
accounts that exist) is added: `Welcome` compares the address in the very UPDATE
that stamps it.  `UploadsConsented` follows from `Backed`: a request that was
let in has its acceptance row, and rows are marked but never removed
(`RowsKept`).  In turn, `OneEach` and `Turns` say that what a running transaction
saw is still all there is; the commit then leaves one active row, and flags every
claimant.

*Labels.*  `OneWorker` is inductive: a claim takes rows that are queued, whoever
holds a row holds one that is running, and rows are promoted to queued only from
`awaiting_model`.  For `PairsDecided` the invariant speaks of the verdict a worker is
about to write as well, since asking the jury and writing the pair are two steps.
That its numbers are those of the votes is a matter of cardinalities: `Agreed` counts
pairs of a juror and an answer, the row counts jurors, and a bijection joins the
two; this is where the panel has to be finite.  `WordStands` needs `ShownStands`: an edit
in flight that still names its row names one that is there, so a late confirmation
cannot make a row that the creator never wrote.  No order of model, measurement
and edit matters beyond that, because only an edit by the creator ever updates a
row.

*Traces.*  `CallsCounted` compares the parser that detection will choose at the end
with counts of the whole file, so the invariant `ReadInv` says of every parser what
would follow if it were chosen: `Agrees(f)`, as long as parser `f` has not thrown and
the file is `Clean(f)` (all it carries is of tool `f`), calls, open calls and failed
calls are as many as were counted.  A call that is passed over joins neither side
(`LeftAccounts`), and a block whose JSON is invalid makes the parser throw, which
satisfies every account.  `ParsedClean` joins the two: a file that passes
detection and `assertSingleFormat` is clean for the tool detected, where a Hermes
conversation, which carries no marker, has to be excluded (`HermesAlone`; without it
`MCTraces_half` finds the counterexample).  Open calls are counted because failures
alone are not inductive: whether a result fails a call depends on whether one is
open, not on which (`MarkAccounts`).  Inside an entry the open calls before it are those
counted less its own (`OwnAccounts`, `OpenBefore`), all of which are still open since
its results answer earlier entries only; this uses that calls stand in the order of
their messages (`InOrder`).  A call of an event log goes to the last message of the
assistant, not to the last message: `ByAssistant` says that no call stands beyond it,
so the list stays in order (`AttachIs`).  For `SubmissionServes` the types suffice: the
last name added found room, so all the names are those before it and itself
(`ToolNamesFit`), and the halves of the preview meet without overlap (`KeptIs`).

## 5. Only model-checked, and not modelled

Liveness (`EventuallyRegistered`, `EventuallySettled`, `EventuallyComplete`,
`EventuallyFinished`, `EventuallyAnswered`) stays with TLC: the provers do not
reason about fairness and ENABLED.  Every other property of the runs is stated by a
theorem.  That reading along agrees with reading at the end is a modelling decision
and not a theorem: a fold over a file needs induction over data, which the provers
do not have.  That all counts are below `MAX_COUNT` (1,000,000) is not modelled: it
follows from the size of a file, at most 8 MB.

Not modelled:

* browser measurement, previews, hashing: functions of bytes and pixels, whose
  results are inputs of `Labels` and `Intake`;
* the marketing site (WebGL scenes) and the chart components (canvas drawing);
* dashboard queries and pages, beyond what they offer a user to do: they read;
* chain and storage adapters, beyond what a call may return: encodings, addresses;
* infrastructure: migrations, logging, canonical JSON, scripts; withTransaction is
  the atomic commit or rollback the models rely on.

Of the modelled parts, the detail left out is the content of documents and
metadata, prices, addresses, the redactor's patterns, error messages and logging.

## 6. Plan

Done, in the order of importance: registration, settlement and upload; the
spine; the Trace client and its provider; requests; accounts and intake;
datasets; labels and jury; the trace parsers, all with proofs.

Left: larger instances of `Spine` with overlapping runs.
