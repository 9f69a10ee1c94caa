--------------------------- MODULE DatasetsProofs ---------------------------
(***************************************************************************)
(* Theorems about Datasets, for every set of works, presets and names and  *)
(* whether or not snapshots and exports overlap.  A listing's terms never  *)
(* change and a listed work never becomes an unlisted one, so what was     *)
(* checked when a snapshot was taken, or when an export started, stays     *)
(* true of the works it is about.                                          *)
(***************************************************************************)
EXTENDS Datasets, TLAPS

\* Offered at some time under terms that allow training, the ones asked for.
Licensed(a, f) ==
  /\ a \in offered /\ listing[a].preset # NoTrain
  /\ f.preset # AnyTerms => listing[a].preset = f.preset

\* What is on offer is noted, and what is noted was listed.
OfferNoted ==
  /\ OnOffer \subseteq offered
  /\ \A a \in offered : listing[a].status # "none"

\* The filter in hand never asks for WTR-NO-TRAIN, which would select by
\* other terms than the snapshot says; what was selected is licensed.
TakingLicensed ==
  taking # None =>
    /\ taking.filter.preset # NoTrain
    /\ \A a \in taking.gone : listing[a].status = "withdrawn"
    /\ taking.pc = "insert" =>
         /\ taking.items # {} /\ taking.items \cap taking.gone = {}
         /\ \A a \in taking.items : Licensed(a, taking.filter)

\* An export is of a snapshot that exists; of its works, those that were gone
\* when it started are gone now, and are not among its members; whatever else
\* was read was read of the members.
ExportWithin ==
  export # None =>
    /\ snapshot[export.snap] # None
    /\ export.members \subseteq snapshot[export.snap].items
    /\ \A a \in export.gone \cap snapshot[export.snap].items : ~Trainable(a)
    /\ export.gone \cap export.members = {}
    /\ export.captions \subseteq export.members
    /\ export.documents \subseteq export.members
    /\ \A x \in export.pairs : x.asset \in export.members

\* Members are read first.
Unread == export # None /\ export.pc = "members" => export.pairs = {} /\ export.documents = {}

Inv == TypeOK /\ OfferNoted /\ SnapshotsLicensed /\ TakingLicensed /\ ExportWithin /\ Unread

LEMMA InitInv == Init => Inv
<1> SUFFICES ASSUME Init PROVE Inv
  OBVIOUS
<1>1. listing \in [Assets -> [status : {"none", "active", "withdrawn"}, preset : Presets]]
  BY DEF Init
<1>2. builder \in [controls : Presets \cup {AnyTerms}, previewed : Presets \cup {AnyTerms}, matched : BOOLEAN]
  BY DEF Init, EmptyBuilder
<1>3. saved \in [Names -> Filters \cup {None}] /\ snapshot \in [Snaps -> Rows \cup {None}]
  BY DEF Init
<1>4. TypeOK
  BY <1>1, <1>2, <1>3 DEF Init, TypeOK
<1> QED
  BY <1>4 DEF Init, Inv, OfferNoted, OnOffer, SnapshotsLicensed, TakingLicensed, ExportWithin, Unread

LEMMA FilterOK ==
  ASSUME NEW f \in Filters
  PROVE  /\ TrainingFilters(f) \in Filters
         /\ TrainingFilters(f).training
         /\ TrainingFilters(f).preset # NoTrain
         /\ f.preset # NoTrain => TrainingFilters(f).preset = f.preset
BY DatasetsAssumption DEF TrainingFilters, Filters

\* What the catalogue selects under training filters is licensed.
LEMMA CatalogLicensed ==
  ASSUME Inv, NEW f \in Filters, f.training
  PROVE  /\ Catalog(f) \subseteq Assets
         /\ \A a \in Catalog(f) : Licensed(a, f) /\ listing[a].status = "active"
BY DEF Catalog, Matching, OnOffer, OfferNoted, Licensed, Inv, TypeOK

-----------------------------------------------------------------------------
\* A work that is listed or withdrawn keeps its terms and stays listed, and
\* one that is not trainable does not become so.
LEMMA ListingInv ==
  ASSUME Inv, NEW b \in Assets, NEW s \in {"active", "withdrawn"},
         listing' = [listing EXCEPT ![b].status = s],
         listing[b].status = IF s = "active" THEN "none" ELSE "active",
         UNCHANGED <<onSale, captioned, pairs, builder, saved, snapshot, taking, export>>,
         offered' \in SUBSET Assets, offered \subseteq offered', OfferNoted'
  PROVE  Inv'
<1>1. listing' \in [Assets -> [status : {"none", "active", "withdrawn"}, preset : Presets]]
  BY DEF Inv, TypeOK
<1>2. \A a \in Assets : /\ listing'[a].preset = listing[a].preset
                        /\ listing[a].status = "withdrawn" => listing'[a].status = "withdrawn"
  BY DEF Inv, TypeOK
<1>3. \A a \in Assets : listing[a].status # "none" /\ ~Trainable(a) => ~Trainable(a)'
  BY DEF Inv, TypeOK, Trainable
<1>4. TypeOK'
  BY <1>1 DEF Inv, TypeOK, Takings
<1>5. \A k \in Snaps : snapshot[k] # None => snapshot[k].items \subseteq Assets
  BY DEF Inv, TypeOK, Rows
<1>6. SnapshotsLicensed'
  BY <1>2, <1>5 DEF Inv, SnapshotsLicensed
<1>7. TakingLicensed'
  <2>1. taking # None => taking.items \subseteq Assets /\ taking.gone \subseteq Assets
    BY DEF Inv, TypeOK, Takings
  <2> QED
    BY <1>2, <2>1 DEF Inv, TakingLicensed, Licensed
<1>8. ExportWithin'
  <2>1. export # None => export.snap \in Snaps
    BY DEF Inv, TypeOK, Exports
  <2> QED
    BY <1>3, <1>5, <2>1 DEF Inv, OfferNoted, SnapshotsLicensed, ExportWithin
<1> QED
  BY <1>4, <1>6, <1>7, <1>8 DEF Inv, Unread

\* What an export is to be of is fixed before it starts.
LEMMA StartExportInv ==
  ASSUME Inv, NEW k \in Snaps, NEW t \in Templates, NEW c \in BOOLEAN, StartExport(k, t, c)
  PROVE  Inv'
<1> DEFINE gone == {a \in Assets : ~Trainable(a)}
<1> DEFINE e == [pc |-> "members", snap |-> k, template |-> t, card |-> c,
                gone |-> gone, members |-> {}, captions |-> {}, pairs |-> {}, documents |-> {}]
<1>1. e \in Exports
  BY DEF Exports
<1>2. export' = e /\ snapshot[k] # None
     /\ UNCHANGED <<listing, onSale, offered, captioned, pairs, builder, saved, snapshot, taking>>
  BY DEF StartExport
<1>3. TypeOK'
  BY <1>1, <1>2 DEF Inv, TypeOK
<1>4. \A a \in gone : ~Trainable(a)'
  BY <1>2 DEF Trainable
<1>5. ExportWithin'
  BY <1>2, <1>4 DEF ExportWithin
<1>6. OfferNoted' /\ SnapshotsLicensed' /\ TakingLicensed'
  BY <1>2 DEF Inv, OfferNoted, OnOffer, SnapshotsLicensed, TakingLicensed, Licensed
<1> QED
  BY <1>2, <1>3, <1>5, <1>6 DEF Inv, Unread

\* The pages of an export are read in turn.
LEMMA NextPage ==
  ASSUME NEW pc \in {"members", "pairs", "documents"}
  PROVE  After(pc) \in {"pairs", "documents", "done"}
BY DEF After

\* What an export's members are read from is a row of licensed works.
LEMMA RowOK ==
  ASSUME Inv, export # None
  PROVE  /\ export \in Exports
         /\ export.snap \in Snaps
         /\ snapshot[export.snap] \in Rows
         /\ snapshot[export.snap].items \subseteq Assets
BY DEF Inv, TypeOK, Exports, ExportWithin, Rows

LEMMA ReadMembersInv ==
  ASSUME Inv, ReadMembers
  PROVE  Inv'
<1> DEFINE ms == Members(snapshot[export.snap])
           cs == ms \cap captioned
           pc == After("members")
<1>1. /\ export # None /\ export' = [export EXCEPT !.members = ms, !.captions = cs, !.pc = pc]
      /\ UNCHANGED <<listing, onSale, offered, captioned, pairs, builder, saved, snapshot, taking>>
  BY DEF ReadMembers
<1>2. /\ export \in Exports /\ export.snap \in Snaps
      /\ snapshot[export.snap].items \subseteq Assets
  BY <1>1, RowOK
<1>3. /\ ms \subseteq snapshot[export.snap].items
      /\ \A a \in ms : Trainable(a)
  BY DEF Members
<1>4. pc \in {"pairs", "documents", "done"} /\ ms \subseteq Assets /\ cs \subseteq Assets
  BY <1>2, <1>3, NextPage
<1>5. export.gone \cap ms = {}
  BY <1>1, <1>3 DEF Inv, ExportWithin
<1>6. export.pairs = {} /\ export.documents = {}
  BY <1>1 DEF Inv, Unread, ReadMembers
<1> HIDE DEF ms, pc
<1>7. export' \in Exports
  BY <1>1, <1>2, <1>4 DEF Exports
<1>8. TypeOK'
  BY <1>1, <1>7 DEF Inv, TypeOK
<1>9. \A a \in Assets : Trainable(a)' <=> Trainable(a)
  BY <1>1 DEF Trainable
<1>10. ExportWithin'
  BY <1>1, <1>2, <1>3, <1>5, <1>6, <1>9 DEF Inv, ExportWithin, Exports
<1>11. Unread'
  BY <1>1, <1>2, <1>4 DEF Unread, Exports
<1>12. OfferNoted' /\ SnapshotsLicensed' /\ TakingLicensed'
  BY <1>1 DEF Inv, OfferNoted, OnOffer, SnapshotsLicensed, TakingLicensed, Licensed
<1> QED
  BY <1>8, <1>10, <1>11, <1>12 DEF Inv

LEMMA ReadPairsInv ==
  ASSUME Inv, ReadPairs
  PROVE  Inv'
<1> DEFINE ps == PairsOf(export)
           pc == After("pairs")
<1>1. /\ export # None /\ export' = [export EXCEPT !.pairs = ps, !.pc = pc]
      /\ UNCHANGED <<listing, onSale, offered, captioned, pairs, builder, saved, snapshot, taking>>
  BY DEF ReadPairs
<1>2. export \in Exports /\ pc \in {"pairs", "documents", "done"}
  BY <1>1, RowOK, NextPage
<1>3. ps \subseteq Pairs /\ \A x \in ps : x.asset \in export.members
  BY DEF Inv, TypeOK, PairsOf
<1> HIDE DEF ps, pc
<1>4. export' \in Exports
  BY <1>1, <1>2, <1>3 DEF Exports
<1>5. TypeOK'
  BY <1>1, <1>4 DEF Inv, TypeOK
<1>6. \A a \in Assets : Trainable(a)' <=> Trainable(a)
  BY <1>1 DEF Trainable
<1>7. ExportWithin'
  BY <1>1, <1>2, <1>3, <1>6 DEF Inv, ExportWithin, Exports
<1>8. Unread'
  BY <1>1, <1>2 DEF Unread, Exports
<1>9. OfferNoted' /\ SnapshotsLicensed' /\ TakingLicensed'
  BY <1>1 DEF Inv, OfferNoted, OnOffer, SnapshotsLicensed, TakingLicensed, Licensed
<1> QED
  BY <1>5, <1>7, <1>8, <1>9 DEF Inv

LEMMA ReadDocumentsInv ==
  ASSUME Inv, ReadDocuments
  PROVE  Inv'
<1> DEFINE pc == After("documents")
<1>1. PICK ds \in SUBSET export.members :
        /\ export # None /\ export' = [export EXCEPT !.documents = ds, !.pc = pc]
        /\ UNCHANGED <<listing, onSale, offered, captioned, pairs, builder, saved, snapshot, taking>>
  BY DEF ReadDocuments
<1>2. export \in Exports /\ pc \in {"pairs", "documents", "done"}
  BY <1>1, RowOK, NextPage
<1> HIDE DEF pc
<1>3. export' \in Exports
  BY <1>1, <1>2 DEF Exports
<1>4. TypeOK'
  BY <1>1, <1>3 DEF Inv, TypeOK
<1>5. \A a \in Assets : Trainable(a)' <=> Trainable(a)
  BY <1>1 DEF Trainable
<1>6. ExportWithin'
  BY <1>1, <1>2, <1>5 DEF Inv, ExportWithin, Exports
<1>7. Unread'
  BY <1>1, <1>2 DEF Unread, Exports
<1>8. OfferNoted' /\ SnapshotsLicensed' /\ TakingLicensed'
  BY <1>1 DEF Inv, OfferNoted, OnOffer, SnapshotsLicensed, TakingLicensed, Licensed
<1> QED
  BY <1>4, <1>6, <1>7, <1>8 DEF Inv

-----------------------------------------------------------------------------
\* The dataset's filters are normalised when they are read, and the catalogue
\* is asked with them.
LEMMA ReadDatasetInv ==
  ASSUME Inv, NEW d \in Names, ReadDataset(d)
  PROVE  Inv'
<1> DEFINE f == TrainingFilters(saved[d])
           gone == {a \in Assets : listing[a].status = "withdrawn"}
           new == [pc |-> "read", filter |-> f, items |-> {}, gone |-> gone]
<1>1. /\ taking' = new
      /\ UNCHANGED <<listing, onSale, offered, captioned, pairs, builder, saved, snapshot, export>>
  BY DEF ReadDataset
<1>2. f \in Filters /\ f.preset # NoTrain
  <2>1. saved[d] \in Filters
    BY DEF Inv, TypeOK, ReadDataset
  <2> QED
    BY <2>1, FilterOK
<1>3. gone \subseteq Assets /\ \A a \in gone : listing[a].status = "withdrawn"
  OBVIOUS
<1> HIDE DEF f, gone
<1>4. TypeOK' /\ TakingLicensed'
  BY <1>1, <1>2, <1>3 DEF Inv, TypeOK, Takings, TakingLicensed
<1>5. OfferNoted' /\ SnapshotsLicensed' /\ ExportWithin' /\ Unread'
  BY <1>1 DEF Inv, OfferNoted, OnOffer, SnapshotsLicensed, ExportWithin, Unread, Trainable
<1> QED
  BY <1>4, <1>5 DEF Inv

LEMMA ReadCatalogInv ==
  ASSUME Inv, ReadCatalog
  PROVE  Inv'
<1> DEFINE f == taking.filter
           items == Catalog(TrainingFilters(f))
           new == [pc |-> "insert", filter |-> f, items |-> items, gone |-> taking.gone]
<1>1. /\ taking # None /\ taking' = IF items = {} THEN None ELSE new
      /\ UNCHANGED <<listing, onSale, offered, captioned, pairs, builder, saved, snapshot, export>>
  BY DEF ReadCatalog
<1>2. taking \in Takings /\ f \in Filters /\ f.preset # NoTrain
      /\ \A a \in taking.gone : listing[a].status = "withdrawn"
  BY <1>1 DEF Inv, TypeOK, Takings, TakingLicensed
<1>3. items \subseteq Assets /\ \A a \in items : Licensed(a, f) /\ listing[a].status = "active"
  BY <1>2, FilterOK, CatalogLicensed DEF Licensed
<1> HIDE DEF items
<1>4. taking' = IF items = {} THEN None ELSE new
  BY <1>1
<1>5. new \in Takings
  BY <1>2, <1>3 DEF Takings
<1>6. items \cap taking.gone = {}
  BY <1>2, <1>3
<1>7. TypeOK'
  BY <1>1, <1>4, <1>5 DEF Inv, TypeOK
<1>8. TakingLicensed'
  BY <1>1, <1>2, <1>3, <1>4, <1>6 DEF TakingLicensed, Licensed
<1>9. OfferNoted' /\ SnapshotsLicensed' /\ ExportWithin' /\ Unread'
  BY <1>1 DEF Inv, OfferNoted, OnOffer, SnapshotsLicensed, ExportWithin, Unread, Trainable
<1> QED
  BY <1>7, <1>8, <1>9 DEF Inv

LEMMA InsertSnapshotInv ==
  ASSUME Inv, NEW k \in Snaps, InsertSnapshot(k)
  PROVE  Inv'
<1> DEFINE new == [filter |-> taking.filter, items |-> taking.items, gone |-> taking.gone]
<1>1. /\ taking # None /\ taking.pc = "insert" /\ snapshot[k] = None
      /\ snapshot' = [snapshot EXCEPT ![k] = new] /\ taking' = None
      /\ UNCHANGED <<listing, onSale, offered, captioned, pairs, builder, saved, export>>
  BY DEF InsertSnapshot
<1>2. new \in Rows
  BY <1>1 DEF Inv, TypeOK, Takings, Rows
<1>3. /\ new.items # {} /\ new.items \cap new.gone = {}
      /\ \A a \in new.items : Licensed(a, new.filter)
  BY <1>1 DEF Inv, TakingLicensed
<1> HIDE DEF new
<1>4. TypeOK' /\ TakingLicensed'
  BY <1>1, <1>2 DEF Inv, TypeOK, TakingLicensed
<1>5. snapshot'[k] = new /\ \A j \in Snaps : j # k => snapshot'[j] = snapshot[j]
  BY <1>1 DEF Inv, TypeOK
<1>6. OfferNoted' /\ SnapshotsLicensed'
  BY <1>1, <1>3, <1>5 DEF Inv, OfferNoted, OnOffer, SnapshotsLicensed, Licensed
<1>7. ExportWithin' /\ Unread'
  <2>1. export # None => export.snap \in Snaps /\ snapshot'[export.snap] = snapshot[export.snap]
    BY <1>1, <1>5, RowOK DEF Inv, ExportWithin
  <2> QED
    BY <1>1, <2>1 DEF Inv, ExportWithin, Unread, Trainable
<1> QED
  BY <1>4, <1>6, <1>7 DEF Inv

\* The builder, the labels and the jury touch nothing of this.
LEMMA AsideInv ==
  ASSUME Inv, UNCHANGED <<listing, onSale, offered, snapshot, taking>>, TypeOK',
         export' \in {export, None}
  PROVE  Inv'
BY DEF Inv, OfferNoted, OnOffer, SnapshotsLicensed, TakingLicensed, Licensed, ExportWithin, Unread, Trainable

\* A replay moves the stage: a listed work goes on or off sale.
LEMMA SetStageInv ==
  ASSUME Inv, NEW a \in Assets, SetStage(a)
  PROVE  Inv'
<1>1. /\ UNCHANGED <<listing, captioned, pairs, builder, saved, snapshot, taking, export>>
      /\ onSale' \subseteq Assets /\ offered' = offered \cup OnOffer'
  BY DEF SetStage, Inv, TypeOK
<1>2. TypeOK'
  BY <1>1 DEF Inv, TypeOK, OnOffer
<1>3. OfferNoted'
  BY <1>1 DEF Inv, OfferNoted, OnOffer
<1> QED
  BY <1>1, <1>2, <1>3 DEF Inv, SnapshotsLicensed, TakingLicensed, Licensed, ExportWithin, Unread, Trainable

LEMMA NextInv == Inv /\ [Next]_vars => Inv'
<1> SUFFICES ASSUME Inv, [Next]_vars PROVE Inv'
  OBVIOUS
<1>1. ASSUME NEW a \in Assets, List(a) PROVE Inv'
  <2>1. offered' \in SUBSET Assets /\ offered \subseteq offered'
    BY <1>1 DEF List, OnOffer, Inv, TypeOK
  <2>2. OfferNoted'
    BY <1>1 DEF List, OnOffer, OfferNoted, Inv, TypeOK
  <2> QED
    BY <1>1, <2>1, <2>2, ListingInv DEF List
<1>2. ASSUME NEW a \in Assets, SetStage(a) PROVE Inv'
  BY <1>2, SetStageInv
<1>3. ASSUME NEW a \in Assets, Withdraw(a) PROVE Inv'
  <2>1. OfferNoted'
    BY <1>3 DEF Withdraw, OnOffer, OfferNoted, Inv, TypeOK
  <2> QED
    BY <1>3, <2>1, ListingInv DEF Withdraw, Inv, TypeOK
<1>4. ASSUME NEW a \in Assets, Describe(a) PROVE Inv'
  BY <1>4, AsideInv DEF Describe, Inv, TypeOK
<1>5. ASSUME NEW a \in Assets, NEW b \in Assets \cup {None}, Judge(a, b) PROVE Inv'
  BY <1>5, AsideInv DEF Judge, Inv, TypeOK, Pairs
<1>6. ASSUME NEW p \in Presets \cup {AnyTerms}, Choose(p) PROVE Inv'
  BY <1>6, AsideInv DEF Choose, Inv, TypeOK
<1>7. CASE Preview
  <2> DEFINE found == Catalog(TrainingFilters([preset |-> builder.controls, training |-> FALSE])) # {}
  <2>1. builder' \in [controls : Presets \cup {AnyTerms}, previewed : Presets \cup {AnyTerms}, matched : BOOLEAN]
    <3>1. builder' = [builder EXCEPT !.previewed = builder.controls, !.matched = found]
      BY <1>7 DEF Preview
    <3>2. found \in BOOLEAN
      OBVIOUS
    <3> HIDE DEF found
    <3> QED
      BY <3>1, <3>2 DEF Inv, TypeOK
  <2> QED
    BY <1>7, <2>1, AsideInv DEF Preview, Inv, TypeOK
<1>8. ASSUME NEW d \in Names, Save(d) PROVE Inv'
  <2> DEFINE f == TrainingFilters([preset |-> builder.previewed, training |-> TRUE])
  <2>1. f \in Filters
    <3>1. [preset |-> builder.previewed, training |-> TRUE] \in Filters
      BY DEF Inv, TypeOK, Filters
    <3> QED
      BY <3>1, FilterOK
  <2>2. saved' \in [Names -> Filters \cup {None}] /\ builder' = EmptyBuilder
    BY <1>8, <2>1 DEF Save, Inv, TypeOK
  <2> QED
    BY <1>8, <2>2, AsideInv DEF Save, Inv, TypeOK, EmptyBuilder
<1>9. ASSUME NEW d \in Names, HandEdit(d) PROVE Inv'
  BY <1>9, AsideInv DEF HandEdit, Inv, TypeOK
<1>10. ASSUME NEW d \in Names, ReadDataset(d) PROVE Inv'
  BY <1>10, ReadDatasetInv
<1>11. ASSUME NEW k \in Snaps, InsertSnapshot(k) PROVE Inv'
  BY <1>11, InsertSnapshotInv
<1>12. ASSUME NEW k \in Snaps, NEW t \in Templates, NEW c \in BOOLEAN, StartExport(k, t, c)
       PROVE  Inv'
  BY <1>12, StartExportInv
<1>13. CASE EndExport
  BY <1>13, AsideInv DEF EndExport, Inv, TypeOK
<1>14. CASE UNCHANGED vars
  BY <1>14, AsideInv DEF vars, Inv, TypeOK
<1> QED
  BY <1>1, <1>2, <1>3, <1>4, <1>5, <1>6, <1>7, <1>8, <1>9, <1>10, <1>11, <1>12, <1>13, <1>14,
     ReadCatalogInv, ReadMembersInv, ReadPairsInv, ReadDocumentsInv DEF Next

-----------------------------------------------------------------------------
\* Every variable of Datasets has its type in every reachable state.
THEOREM TypeCorrect == Spec => []TypeOK
<1>1. Inv => TypeOK
  BY DEF Inv
<1> QED
  BY <1>1, InitInv, NextInv, PTL DEF Spec

\* Whatever is withdrawn, replayed or edited by hand meanwhile, a snapshot
\* holds works that have been on offer under the terms it asked for, never
\* under WTR-NO-TRAIN and never withdrawn before it was asked for.
THEOREM SnapshotsAreLicensed == Spec => []SnapshotsLicensed
<1>1. Inv => SnapshotsLicensed
  BY DEF Inv
<1> QED
  BY <1>1, InitInv, NextInv, PTL DEF Spec

\* No line of an export is for a work withdrawn before it started, and its
\* card accounts for none, also when snapshots are taken while it is read.
THEOREM ExportsHonourWithdrawal == Spec => []ExportHonoursWithdrawal
<1>1. Inv => ExportHonoursWithdrawal
  BY DEF Inv, ExportWithin, ExportHonoursWithdrawal, Subjects, Card
<1> QED
  BY <1>1, InitInv, NextInv, PTL DEF Spec

\* Lines and card are about members, and members are of the frozen list.
THEOREM ExportsAreFrozen == Spec => []ExportIsWithinSnapshot
<1>1. Inv => ExportIsWithinSnapshot
  BY DEF Inv, ExportWithin, ExportIsWithinSnapshot, Subjects, Card
<1> QED
  BY <1>1, InitInv, NextInv, PTL DEF Spec
=============================================================================
