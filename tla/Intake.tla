------------------------------- MODULE Intake -------------------------------
(***************************************************************************)
(* A file is registered from the browser: the upload queue posts the hash  *)
(* of the bytes for the signed-in account, the server checks its consent   *)
(* and inserts the asset, and the trigger of the table compares it with    *)
(* the assets of other accounts.  Unless the bytes are contested the       *)
(* browser then encrypts and uploads the file; bulk upload follows with    *)
(* the entry the manifest loaded by then has for it.  Tabs close, accounts *)
(* change and files are added again.  Labels, the chunks of the upload and *)
(* the stages of the asset are Labels', Upload's and Spine's matter.       *)
(***************************************************************************)
EXTENDS Account

CONSTANTS
  Files,     \* what a file hashes to
  Entries    \* BOOLEAN, or {FALSE} where no manifest is loaded

ASSUME IntakeAssumption == Entries \in {BOOLEAN, {FALSE}}

VARIABLES
  asset,     \* asset[<<c, d>>]: the row of account c for bytes d
  item,      \* item[<<b, d>>]: the queue entry of a file in browser b
  stored,    \* the assets whose ciphertext reached the store
  manifest   \* manifest[<<b, d>>]: has the bulk page of browser b an entry for the file?

vars == <<creator, consent, published, jar, call, proof, asset, item, stored, manifest>>

\* told: the timeline says DUPLICATE_CLAIM_FLAGGED.
\* terms: the version hasCurrentConsent found accepted.
\* described: carries the labels and the license choice of a manifest.
Assets == [flagged : BOOLEAN, told : BOOLEAN, terms : 1..MaxVersion, described : BOOLEAN]

ASSUME NoneAssumption == None \notin Assets

Final == {"registered", "duplicate", "flagged"}

InFlight == {"hashing", "posted", "inserting", "encrypting", "applying"}

\* A queue entry: its status, the account and version its request was let in
\* with, the other claimants its INSERT saw, what the answer makes of it, and
\* whether it is marked "manifest applied".
Items == [status : InFlight \cup Final \cup {"none", "error"},
          creator : Ids \cup {None}, terms : 1..MaxVersion,
          seen : SUBSET Ids, answer : Final, applied : BOOLEAN]

Absent == [status |-> "none", creator |-> None, terms |-> 1, seen |-> {}, answer |-> "registered",
           applied |-> FALSE]

\* Every variable has its type.
TypeOK ==
  /\ AccountTypeOK
  /\ asset \in [Ids \X Files -> Assets \cup {None}]
  /\ item \in [Browsers \X Files -> Items]
  /\ stored \subseteq Ids \X Files
  /\ manifest \in [Browsers \X Files -> Entries]

Init ==
  /\ AccountInit
  /\ asset = [r \in Ids \X Files |-> None]
  /\ item = [i \in Browsers \X Files |-> Absent]
  /\ stored = {}
  /\ manifest = [i \in Browsers \X Files |-> FALSE]

-----------------------------------------------------------------------------
\* The accounts that claim these bytes.
Claimants(d) == {c \in Ids : asset[<<c, d>>] # None}

Goto(b, d, s) == item' = [item EXCEPT ![<<b, d>>].status = s]

\* The entry is left with its error.
Drop(b, d) == item' = [item EXCEPT ![<<b, d>>] = [Absent EXCEPT !.status = "error"]]

\* A file joins the queue and is hashed on the device.  One that failed, is
\* done or was dropped with its tab may be added again.
AddFile(b, d) ==
  /\ item[<<b, d>>].status \notin InFlight
  /\ item' = [item EXCEPT ![<<b, d>>] = [Absent EXCEPT !.status = "hashing"]]
  /\ UNCHANGED <<accountVars, asset, stored, manifest>>

\* The hash is posted: the route wants an acting creator and their consent to
\* the current documents.
Post(b, d) ==
  LET c == Acting(b) IN
  /\ item[<<b, d>>].status = "hashing"
  /\ IF c # None /\ HasCurrentConsent(c)
     THEN item' = [item EXCEPT ![<<b, d>>] =
                     [@ EXCEPT !.status = "posted", !.creator = c, !.terms = published]]
     ELSE Drop(b, d)
  /\ UNCHANGED <<accountVars, asset, stored, manifest>>

\* The INSERT of registerAsset runs its trigger first: it sees the committed
\* rows of other accounts.
Insert(b, d) ==
  LET c == item[<<b, d>>].creator IN
  /\ item[<<b, d>>].status = "posted"
  /\ Overlap \/ \A e \in Browsers : item[<<e, d>>].status # "inserting"
  /\ item' = [item EXCEPT ![<<b, d>>] = [@ EXCEPT !.status = "inserting", !.seen = Claimants(d) \ {c}]]
  /\ UNCHANGED <<accountVars, asset, stored, manifest>>

\* Mutant: the collision is told to the newcomer's timeline only.
RegisteredAlone(c, d, seen, terms) ==
  LET new == asset[<<c, d>>] = None
      row == [flagged |-> seen # {}, told |-> seen # {}, terms |-> terms, described |-> FALSE]
      rows == [asset EXCEPT ![<<c, d>>] = IF new THEN row ELSE @] IN
  [r \in Ids \X Files |->
     IF r[2] # d \/ rows[r] = None THEN rows[r]
     ELSE [rows[r] EXCEPT !.flagged = @ \/ r[1] \in seen]]

\* The trigger flags the rows it saw, also under an INSERT that then conflicts;
\* a new row that is flagged is told to the timeline of every claimant.
Registered(c, d, seen, terms) ==
  LET new == asset[<<c, d>>] = None
      row == [flagged |-> seen # {}, told |-> FALSE, terms |-> terms, described |-> FALSE]
      tell == new /\ seen # {}
      rows == [asset EXCEPT ![<<c, d>>] = IF new THEN row ELSE @] IN
  [r \in Ids \X Files |->
     IF r[2] # d \/ rows[r] = None THEN rows[r]
     ELSE [rows[r] EXCEPT !.flagged = @ \/ r[1] \in seen, !.told = @ \/ tell]]

\* The answer: contested before everything, then whether the row was there.
StatusOf(row, existing) ==
  IF row.flagged THEN "flagged" ELSE IF existing THEN "duplicate" ELSE "registered"

Commit(b, d) ==
  LET i == item[<<b, d>>]
      c == i.creator
      status == StatusOf(asset'[<<c, d>>], asset[<<c, d>>] # None) IN
  /\ i.status = "inserting"
  /\ asset' = Registered(c, d, i.seen, i.terms)
  /\ item' = [item EXCEPT ![<<b, d>>] =
                [@ EXCEPT !.status = IF status = "flagged" THEN "flagged" ELSE "encrypting",
                          !.seen = {}, !.answer = status]]
  /\ UNCHANGED <<accountVars, stored, manifest>>

\* parseManifest: a file has an entry or not.
Manifests == [Files -> Entries]

\* A manifest is loaded, before or after files are added; one that does not
\* parse leaves none.
LoadManifest(b) ==
  /\ \E m \in Manifests :
       manifest' = [i \in Browsers \X Files |-> IF i[1] = b THEN m[i[2]] ELSE manifest[i]]
  /\ UNCHANGED <<accountVars, asset, item, stored>>

\* The file is encrypted and its ciphertext uploaded, as long as its account is
\* the acting one; the queue is done with it, or goes on to its manifest entry.
\* A failure leaves an error.
Encrypt(b, d) ==
  LET i == item[<<b, d>>] IN
  /\ i.status = "encrypting"
  /\ \/ /\ Acting(b) = i.creator
        /\ stored' = stored \cup {<<i.creator, d>>}
        /\ Goto(b, d, IF manifest[<<b, d>>] THEN "applying" ELSE i.answer)
     \/ /\ Drop(b, d)
        /\ UNCHANGED stored
  /\ UNCHANGED <<accountVars, asset, manifest>>

\* batchApply.  An entry it refuses is an error; an asset that is another
\* account's, or sealed, is only counted as skipped, and the queue does not ask.
ApplyManifest(b, d) ==
  LET i == item[<<b, d>>]
      c == Acting(b) IN
  /\ i.status = "applying"
  /\ \E refused, sealed \in BOOLEAN :
       /\ item' = [item EXCEPT ![<<b, d>>] =
                     [i EXCEPT !.status = i.answer, !.applied = c # None /\ ~refused]]
       /\ asset' = IF c = i.creator /\ ~refused /\ ~sealed
                   THEN [asset EXCEPT ![<<c, d>>].described = TRUE] ELSE asset
  /\ UNCHANGED <<accountVars, stored, manifest>>

\* The request fails: no answer, or the server stops and rolls back.
Fail(b, d) ==
  /\ item[<<b, d>>].status \in {"hashing", "posted", "inserting", "applying"}
  /\ Drop(b, d)
  /\ UNCHANGED <<accountVars, asset, stored, manifest>>

\* The tab is closed and opened: restoreQueue drops what was in flight.  (A
\* request the server is already working on is ended by Commit or Fail.)
Reopen(b) ==
  /\ \A d \in Files : item[<<b, d>>].status \notin {"posted", "inserting"}
  /\ item' = [i \in Browsers \X Files |->
                IF i[1] = b /\ item[i].status \in InFlight THEN Absent ELSE item[i]]
  /\ manifest' = [i \in Browsers \X Files |-> i[1] # b /\ manifest[i]]
  /\ UNCHANGED <<accountVars, asset, stored>>

IntakeStep ==
  \E b \in Browsers :
    \/ Reopen(b) \/ LoadManifest(b)
    \/ \E d \in Files :
         \/ AddFile(b, d) \/ Post(b, d) \/ Insert(b, d) \/ Commit(b, d)
         \/ Encrypt(b, d) \/ ApplyManifest(b, d) \/ Fail(b, d)

Next ==
  \/ AccountStep /\ UNCHANGED <<asset, item, stored, manifest>>
  \/ IntakeStep

Spec == Init /\ [][Next]_vars

-----------------------------------------------------------------------------
\* goal.md P0-1: every asset stands under an acceptance its own account made of
\* the very version that was current when the upload was let in, although the
\* terms change and accounts share a browser.
UploadsConsented ==
  \A c \in Ids, d \in Files :
    asset[<<c, d>>] # None =>
      \E i \in DOMAIN consent : consent[i].creator = c /\ consent[i].version = asset[<<c, d>>].terms

\* A collision between accounts flags both sides and is on both timelines
\* (registrations of the same bytes that do not overlap).
FlaggedTogether ==
  \A d \in Files : Cardinality(Claimants(d)) > 1 =>
    \A c \in Claimants(d) : asset[<<c, d>>].flagged /\ asset[<<c, d>>].told

\* Not guaranteed: a file marked "manifest applied" carries its manifest entry.
MarkedIsDescribed ==
  \A b \in Browsers, d \in Files :
    item[<<b, d>>].applied => asset[<<item[<<b, d>>].creator, d>>].described

=============================================================================
