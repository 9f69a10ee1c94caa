------------------------------ MODULE Datasets ------------------------------
(***************************************************************************)
(* The finetuning playground: filters previewed and saved by a builder,    *)
(* snapshots that freeze what a saved filter selects, and exports of a     *)
(* snapshot, while works are listed, unlisted by a replay and withdrawn.   *)
(* An export is several statements: the members, the preference pairs and  *)
(* the trace documents are read one after the other.                       *)
(***************************************************************************)
EXTENDS Naturals, FiniteSets

CONSTANTS
  Assets, Presets,
  NoTrain,    \* WTR-NO-TRAIN
  AnyTerms,   \* no preset is asked for
  Names,      \* dataset names, one owner
  Snaps,      \* ids of dataset_snapshot rows
  None,       \* no row, or nothing being read
  Overlap,    \* may a snapshot be taken while an export is read?
  MaxPairs    \* bound on preference pairs

ASSUME DatasetsAssumption ==
  /\ NoTrain \in Presets
  /\ AnyTerms \notin Presets
  /\ Overlap \in BOOLEAN
  /\ MaxPairs \in Nat

VARIABLES
  listing,   \* listing[a]: the row of asset a
  onSale,    \* assets whose stage is LISTED, SOLD or SETTLED
  offered,   \* history: assets that have been on offer, active and on sale
  captioned, \* assets with a public label to make a caption of
  pairs,     \* preference_pair: the asset, and the trace its candidates came from
  builder,   \* the builder's page: controls, what was previewed, whether it matched
  saved,     \* dataset.filters, by name
  snapshot,  \* dataset_snapshot
  taking,    \* takeSnapshot in progress
  export     \* exportSnapshot in progress

vars == <<listing, onSale, offered, captioned, pairs, builder, saved, snapshot, taking, export>>

\* The preset asked for and whether training is forced; modality, text and
\* KYC filters only narrow a selection further.
Filters == [preset : Presets \cup {AnyTerms}, training : BOOLEAN]

\* gone, here and in an export: what had been withdrawn (of an export: what no
\* training listing offered) when it was asked for.
Rows == [filter : Filters, items : SUBSET Assets, gone : SUBSET Assets]

Pairs == [asset : Assets, trace : Assets \cup {None}]

\* sft_jsonl and caption_pairs are both made from the members alone.
Templates == {"records", "dpo_pairs"}

Exports == [pc : {"members", "pairs", "documents", "done"}, snap : Snaps, template : Templates,
            card : BOOLEAN, gone : SUBSET Assets, members : SUBSET Assets,
            captions : SUBSET Assets, pairs : SUBSET Pairs, documents : SUBSET Assets]

Takings == [pc : {"read", "insert"}, filter : Filters, items : SUBSET Assets, gone : SUBSET Assets]

\* Every variable has its type.
TypeOK ==
  /\ listing \in [Assets -> [status : {"none", "active", "withdrawn"}, preset : Presets]]
  /\ onSale \subseteq Assets
  /\ offered \subseteq Assets
  /\ captioned \subseteq Assets
  /\ pairs \subseteq Pairs
  /\ builder \in [controls : Presets \cup {AnyTerms}, previewed : Presets \cup {AnyTerms}, matched : BOOLEAN]
  /\ saved \in [Names -> Filters \cup {None}]
  /\ snapshot \in [Snaps -> Rows \cup {None}]
  /\ taking \in Takings \cup {None}
  /\ export \in Exports \cup {None}

EmptyBuilder == [controls |-> AnyTerms, previewed |-> AnyTerms, matched |-> FALSE]

Init ==
  /\ listing \in [Assets -> [status : {"none"}, preset : Presets]]
  /\ onSale = {}
  /\ offered = {}
  /\ captioned = {}
  /\ pairs = {}
  /\ builder = EmptyBuilder
  /\ saved = [d \in Names |-> None]
  /\ snapshot = [k \in Snaps |-> None]
  /\ taking = None
  /\ export = None

-----------------------------------------------------------------------------
\* The catalogue.

OnOffer == {a \in onSale : listing[a].status = "active"}

Matching(assets, f) ==
  {a \in assets : /\ f.preset # AnyTerms => listing[a].preset = f.preset
                  /\ f.training => listing[a].preset # NoTrain}

\* Mutant of Catalog: the status of the listing is not asked for.
CatalogAnyStatus(f) == Matching(onSale, f)

\* listCatalog: active listings of assets on sale that match the filters.
Catalog(f) == Matching(OnOffer, f)

\* The only way filters reach SQL.
TrainingFilters(f) ==
  [preset |-> IF f.preset # NoTrain THEN f.preset ELSE AnyTerms, training |-> TRUE]

\* Stage 4: the row, then the stage; a replay of stage 3 takes the stage back.
List(a) ==
  /\ listing[a].status = "none"
  /\ listing' = [listing EXCEPT ![a].status = "active"]
  /\ UNCHANGED onSale
  /\ offered' = offered \cup OnOffer'
  /\ UNCHANGED <<captioned, pairs, builder, saved, snapshot, taking, export>>

SetStage(a) ==
  /\ listing[a].status # "none"
  /\ onSale' \in {onSale \cup {a}, onSale \ {a}}
  /\ UNCHANGED listing
  /\ offered' = offered \cup OnOffer'
  /\ UNCHANGED <<captioned, pairs, builder, saved, snapshot, taking, export>>

Withdraw(a) ==
  /\ listing[a].status = "active"
  /\ listing' = [listing EXCEPT ![a].status = "withdrawn"]
  /\ UNCHANGED <<onSale, offered, captioned, pairs, builder, saved, snapshot, taking, export>>

\* A label job describes an asset; the creator removes what it found until the
\* asset is registered.
Describe(a) ==
  /\ \/ captioned' = captioned \cup {a}
     \/ listing[a].status = "none" /\ captioned' = captioned \ {a}
  /\ UNCHANGED <<listing, onSale, offered, pairs, builder, saved, snapshot, taking, export>>

\* The jury judged a pair for asset a, with candidates taken from trace b.
Judge(a, b) ==
  /\ Cardinality(pairs) < MaxPairs
  /\ pairs' = pairs \cup {[asset |-> a, trace |-> b]}
  /\ UNCHANGED <<listing, onSale, offered, captioned, builder, saved, snapshot, taking, export>>

-----------------------------------------------------------------------------
\* The builder.

\* The builder is left when every name is used (the bound Names).
Building == \E d \in Names : saved[d] = None

Choose(p) ==
  /\ Building
  /\ builder' = [builder EXCEPT !.controls = p]
  /\ UNCHANGED <<listing, onSale, offered, captioned, pairs, saved, snapshot, taking, export>>

\* The page's query parameters are the controls; the count is the server's.
Preview ==
  /\ Building
  /\ builder' = [builder EXCEPT !.previewed = builder.controls,
       !.matched = Catalog(TrainingFilters([preset |-> builder.controls, training |-> FALSE])) # {}]
  /\ UNCHANGED <<listing, onSale, offered, captioned, pairs, saved, snapshot, taking, export>>

\* createDataset: offered for what was previewed and matched; a name is used once.
Save(d) ==
  /\ builder.controls = builder.previewed /\ builder.matched
  /\ saved[d] = None
  /\ saved' = [saved EXCEPT ![d] = TrainingFilters([preset |-> builder.previewed, training |-> TRUE])]
  /\ builder' = EmptyBuilder
  /\ UNCHANGED <<listing, onSale, offered, captioned, pairs, snapshot, taking, export>>

\* The filters column is JSON that anyone with the database can edit.
HandEdit(d) ==
  /\ saved[d] # None
  /\ \E f \in Filters : saved' = [saved EXCEPT ![d] = f]
  /\ UNCHANGED <<listing, onSale, offered, captioned, pairs, builder, snapshot, taking, export>>

-----------------------------------------------------------------------------
\* takeSnapshot: the dataset, the catalogue, the insert.

ReadDataset(d) ==
  /\ taking = None /\ (Overlap \/ export = None) /\ saved[d] # None
  /\ taking' = [pc |-> "read", filter |-> TrainingFilters(saved[d]), items |-> {},
                gone |-> {a \in Assets : listing[a].status = "withdrawn"}]
  /\ UNCHANGED <<listing, onSale, offered, captioned, pairs, builder, saved, snapshot, export>>

\* Nothing matches: refused.
ReadCatalog ==
  /\ taking # None /\ taking.pc = "read"
  /\ LET items == Catalog(TrainingFilters(taking.filter))
     IN taking' = IF items = {} THEN None
                  ELSE [pc |-> "insert", filter |-> taking.filter, items |-> items,
                        gone |-> taking.gone]
  /\ UNCHANGED <<listing, onSale, offered, captioned, pairs, builder, saved, snapshot, export>>

InsertSnapshot(k) ==
  /\ taking # None /\ taking.pc = "insert"
  /\ snapshot[k] = None
  /\ snapshot' = [snapshot EXCEPT ![k] =
       [filter |-> taking.filter, items |-> taking.items, gone |-> taking.gone]]
  /\ taking' = None
  /\ UNCHANGED <<listing, onSale, offered, captioned, pairs, builder, saved, export>>

-----------------------------------------------------------------------------
\* exportSnapshot.

Trainable(a) == listing[a].status = "active" /\ listing[a].preset # NoTrain

StartExport(k, t, card) ==
  /\ export = None /\ (Overlap \/ taking = None) /\ snapshot[k] # None
  /\ export' = [pc |-> "members", snap |-> k, template |-> t, card |-> card,
                gone |-> {a \in Assets : ~Trainable(a)},
                members |-> {}, captions |-> {}, pairs |-> {}, documents |-> {}]
  /\ UNCHANGED <<listing, onSale, offered, captioned, pairs, builder, saved, snapshot, taking>>

\* Mutant of Members: the frozen list is exported.
MembersFrozen(row) == row.items

\* snapshotMembers: the frozen list, checked again.
Members(row) == {a \in row.items : Trainable(a)}

After(pc) ==
  IF pc = "members" /\ export.template = "dpo_pairs" THEN "pairs"
  ELSE IF pc # "documents" /\ export.card THEN "documents" ELSE "done"

ReadMembers ==
  /\ export # None /\ export.pc = "members"
  /\ LET members == Members(snapshot[export.snap])
     IN export' = [export EXCEPT !.members = members, !.captions = members \cap captioned,
                                 !.pc = After("members")]
  /\ UNCHANGED <<listing, onSale, offered, captioned, pairs, builder, saved, snapshot, taking>>

\* Mutant of PairsOf: of the whole snapshot.
PairsOfSnapshot(e) == {x \in pairs : x.asset \in snapshot[e.snap].items}

\* preferencePairsForAssets, of the members.
PairsOf(e) == {x \in pairs : x.asset \in e.members}

ReadPairs ==
  /\ export # None /\ export.pc = "pairs"
  /\ export' = [export EXCEPT !.pairs = PairsOf(export), !.pc = After("pairs")]
  /\ UNCHANGED <<listing, onSale, offered, captioned, pairs, builder, saved, snapshot, taking>>

\* loadTraceDocuments leaves out what it cannot build.
ReadDocuments ==
  /\ export # None /\ export.pc = "documents"
  /\ \E docs \in SUBSET export.members :
       export' = [export EXCEPT !.documents = docs, !.pc = After("documents")]
  /\ UNCHANGED <<listing, onSale, offered, captioned, pairs, builder, saved, snapshot, taking>>

\* The assets the file has a line for: of the members, those with a caption or
\* those with a judged pair.
Subjects(e) == IF e.template = "dpo_pairs" THEN {x.asset : x \in e.pairs} ELSE e.captions

\* The traces the candidates in the lines were taken from.
Sources(e) == {x.trace : x \in e.pairs} \ {None}

\* The assets the dataset card accounts for.
Card(e) == e.members \cup e.documents

\* The file is sent, or the request ended early.
EndExport ==
  /\ export # None
  /\ export' = None
  /\ UNCHANGED <<listing, onSale, offered, captioned, pairs, builder, saved, snapshot, taking>>

-----------------------------------------------------------------------------
Next ==
  \/ \E a \in Assets : List(a) \/ SetStage(a) \/ Withdraw(a) \/ Describe(a)
  \/ \E a \in Assets, b \in Assets \cup {None} : Judge(a, b)
  \/ \E p \in Presets \cup {AnyTerms} : Choose(p)
  \/ Preview
  \/ \E d \in Names : Save(d) \/ HandEdit(d) \/ ReadDataset(d)
  \/ ReadCatalog
  \/ \E k \in Snaps : InsertSnapshot(k)
  \/ \E k \in Snaps, t \in Templates, c \in BOOLEAN : StartExport(k, t, c)
  \/ ReadMembers \/ ReadPairs \/ ReadDocuments \/ EndExport

Spec == Init /\ [][Next]_vars

-----------------------------------------------------------------------------
\* A snapshot holds works that have been on offer, active and on sale, under
\* the terms it asked for and never under WTR-NO-TRAIN, and none that was
\* withdrawn before it was asked for, though the filters may be edited by hand
\* and the statements lie apart.  It is not empty.
SnapshotsLicensed ==
  \A k \in Snaps : snapshot[k] # None =>
    /\ snapshot[k].items # {}
    /\ snapshot[k].items \subseteq offered \ snapshot[k].gone
    /\ \A a \in snapshot[k].items :
         /\ listing[a].preset # NoTrain
         /\ snapshot[k].filter.preset # AnyTerms => listing[a].preset = snapshot[k].filter.preset

\* No line of an export, of any template, is for a work withdrawn or put out
\* of training before the export started, and the card accounts for none.
ExportHonoursWithdrawal ==
  export # None => export.gone \cap (Subjects(export) \cup Card(export)) = {}

\* The lines and the card speak of exported members, and members were frozen.
ExportIsWithinSnapshot ==
  export # None =>
    /\ Subjects(export) \cup Card(export) \subseteq export.members
    /\ export.members \subseteq snapshot[export.snap].items

\* Not guaranteed: the candidates of a preference pair were taken from no work
\* that was withdrawn when the export started.  The pair stays in the export
\* with the work it was judged for; its trace is not asked about.
SourcesHonourWithdrawal == export # None => export.gone \cap Sources(export) = {}

\* Not guaranteed: what an export contains is still offered when it is sent.
SentIsOffered ==
  export # None /\ export.pc = "done" => \A a \in export.members : Trainable(a)

=============================================================================
