---------------------------- MODULE DeviceProofs ----------------------------
(***************************************************************************)
(* Theorems about what runs on the creator's device.                       *)
(*                                                                         *)
(* Upload.  The first part holds for any interleaving of tabs and          *)
(* requests: types, and one key for one ciphertext.  The second part       *)
(* assumes uploads in turn: the offset is backed by the store, the key is  *)
(* kept, and done means complete.                                          *)
(*                                                                         *)
(* Traces.  Every parser, read along, agrees with the reference counts as  *)
(* long as the file is of its tool; a file that is accepted is of the tool *)
(* that was detected.  The preview and the names need only the types.      *)
(***************************************************************************)
EXTENDS Upload, Traces, FiniteSetTheorems, WellFoundedInduction, TLAPS

-----------------------------------------------------------------------------
(* Upload.                                                                 *)

Writing == {"look", "truncate", "open", "write", "update"}

TabRecords == [pc: TabPcs, key: Keys \cup {NoKey}, offset: 0..Size]
ReqRecords == [pc: ReqPcs, key: Keys \cup {NoKey}, offset: 0..Size, stale: SUBSET Slots]

\* What a tab and its request know, whatever the others do: a tab that sends
\* has a key and something left to send; a request past its checks carries
\* the key of the upload, which nobody changes.
Informed(t) ==
  /\ tab[t].pc \in {"status", "send", "wait"} => tab[t].key \in Keys
  /\ tab[t].pc = "send" => tab[t].offset < Size
  /\ Serving(t) => req[t].key \in Keys /\ req[t].offset < Size
  /\ req[t].pc \in Writing => req[t].key = begun

KeyInv ==
  /\ TypeOK
  /\ \A t \in Tabs : Informed(t)
  /\ OneKey

LEMMA InitKeyInv == Init => KeyInv
<1> SUFFICES ASSUME Init PROVE KeyInv
  OBVIOUS
<1>1. tab \in [Tabs -> TabRecords] /\ req \in [Tabs -> ReqRecords]
  BY UploadAssumption DEF Init, TabRecords, ReqRecords, TabPcs, ReqPcs
<1>2. /\ store \in [Slots -> Contents] /\ stored \in [Devices -> Keys \cup {NoKey}]
      /\ received \in 0..Size
  BY UploadAssumption DEF Init, Contents
<1>3. complete = (received = Size)
  <2>1. complete = FALSE /\ received # Size
    BY UploadAssumption DEF Init
  <2> QED
    BY <2>1
<1>4. TypeOK
  BY <1>1, <1>2, <1>3 DEF Init, TypeOK, TabRecords, ReqRecords
<1>5. \A t \in Tabs : Informed(t)
  BY DEF Init, Informed, Serving, Writing
<1>6. OneKey
  BY UploadAssumption DEF Init, OneKey
<1> QED
  BY <1>4, <1>5, <1>6 DEF KeyInv

\* A tab's step changes the records of this tab only, and leaves the store,
\* or writes under the key of the upload.
LEMMA StartKeyInv ==
  ASSUME KeyInv, NEW t \in Tabs, Start(t)
  PROVE  KeyInv'
<1>1. LoadedKey(t) \in Keys \cup {NoKey}
  BY UploadAssumption DEF KeyInv, TypeOK, LoadedKey
<1>2. tab' \in [Tabs -> TabRecords] /\ \A u \in Tabs : u # t => tab'[u] = tab[u]
  <2> DEFINE pc == IF LoadedKey(t) = NoKey THEN "generate" ELSE "status"
  <2>1. pc \in TabPcs
    BY DEF TabPcs
  <2>2. tab' = [tab EXCEPT ![t] = [@ EXCEPT !.key = LoadedKey(t), !.pc = pc]]
    BY DEF Start
  <2> HIDE DEF pc
  <2> QED
    BY <1>1, <2>1, <2>2 DEF KeyInv, TypeOK, TabRecords
<1>3. TypeOK'
  BY <1>2 DEF KeyInv, TypeOK, Start, TabRecords, row, browser
<1>4. Informed(t)'
  BY <1>1, <1>2 DEF KeyInv, TypeOK, Start, Informed, Serving, row, Writing
<1>5. \A u \in Tabs : u # t => Informed(u)'
  BY <1>2 DEF KeyInv, Start, Informed, Serving, row
<1> QED
  BY <1>3, <1>4, <1>5 DEF KeyInv, OneKey, Start, row

LEMMA GenerateKeyInv ==
  ASSUME KeyInv, NEW t \in Tabs, Generate(t)
  PROVE  KeyInv'
<1>1. PICK k \in Keys \ used :
        /\ used' = used \cup {k}
        /\ stored' = [stored EXCEPT ![DeviceOf[t]] = k]
        /\ tab' = [tab EXCEPT ![t] = [@ EXCEPT !.key = k, !.pc = "status"]]
  BY DEF Generate
<1>2. tab' \in [Tabs -> TabRecords] /\ \A u \in Tabs : u # t => tab'[u] = tab[u]
  <2>1. tab \in [Tabs -> TabRecords]
    BY DEF KeyInv, TypeOK, TabRecords
  <2>2. PICK d : d = [tab[t] EXCEPT !.key = k, !.pc = "status"]
    OBVIOUS
  <2>3. d \in TabRecords
    BY <2>1, <2>2 DEF TabRecords, TabPcs
  <2>4. tab' = [tab EXCEPT ![t] = d]
    BY <1>1, <2>2
  <2> QED
    BY <2>1, <2>3, <2>4
<1>3. stored' \in [Devices -> Keys \cup {NoKey}] /\ used' \subseteq Keys
  BY <1>1, UploadAssumption DEF KeyInv, TypeOK
<1>4. TypeOK'
  BY <1>2, <1>3 DEF KeyInv, TypeOK, Generate, TabRecords, row
<1>5. \A u \in Tabs : Informed(u)'
  BY <1>1, <1>2 DEF KeyInv, TypeOK, Generate, Informed, Serving, row, Writing
<1> QED
  BY <1>4, <1>5 DEF KeyInv, OneKey, Generate, row

LEMMA ReadStatusKeyInv ==
  ASSUME KeyInv, NEW t \in Tabs, ReadStatus(t)
  PROVE  KeyInv'
<1> DEFINE pc == CASE complete -> "done"
                   [] ~complete /\ received > 0 /\ begun # tab[t].key -> "failed"
                   [] OTHER -> "send"
           d  == [tab[t] EXCEPT !.offset = received, !.pc = pc]
<1>1. pc \in TabPcs /\ (pc = "send" => ~complete) /\ pc # "wait" /\ pc # "status"
  <2>1. CASE complete
    BY <2>1 DEF TabPcs
  <2>2. CASE ~complete /\ received > 0 /\ begun # tab[t].key
    BY <2>2 DEF TabPcs
  <2>3. CASE ~complete /\ ~(received > 0 /\ begun # tab[t].key)
    BY <2>3 DEF TabPcs
  <2> QED
    BY <2>1, <2>2, <2>3
<1>2. tab' = [tab EXCEPT ![t] = d]
  BY DEF ReadStatus
<1> HIDE DEF pc
<1>3. d \in TabRecords /\ d.pc = pc /\ d.offset = received /\ d.key = tab[t].key
  BY <1>1 DEF KeyInv, TypeOK, TabRecords
<1> HIDE DEF d
<1>4. /\ tab' \in [Tabs -> TabRecords] /\ tab'[t] = d
      /\ \A u \in Tabs : u # t => tab'[u] = tab[u]
  BY <1>2, <1>3 DEF KeyInv, TypeOK, TabRecords
<1>5. TypeOK'
  BY <1>4 DEF KeyInv, TypeOK, ReadStatus, TabRecords, row, browser
<1>6. \A u \in Tabs : Informed(u)'
  <2>1. req' = req /\ begun' = begun
    BY DEF ReadStatus, row
  <2>2. ASSUME NEW u \in Tabs, u # t PROVE Informed(u)'
    BY <1>4, <2>1, <2>2 DEF KeyInv, Informed, Serving
  <2>3. tab'[t].key \in Keys
    BY <1>3, <1>4 DEF KeyInv, Informed, ReadStatus
  <2>4. tab'[t].pc = "send" => tab'[t].offset < Size
    <3>1. ~complete => received < Size
      <4>1. received \in 0..Size /\ Size \in Nat
        BY UploadAssumption DEF KeyInv, TypeOK
      <4>2. ~complete => received # Size
        BY Zenon DEF KeyInv, TypeOK
      <4> QED
        BY <4>1, <4>2
    <3>2. tab'[t].pc = pc /\ tab'[t].offset = received
      BY <1>3, <1>4
    <3> QED
      BY <1>1, <3>1, <3>2
  <2>5. Informed(t)'
    BY <2>1, <2>3, <2>4 DEF KeyInv, Informed, Serving
  <2> QED
    BY <2>2, <2>5
<1> QED
  BY <1>5, <1>6 DEF KeyInv, OneKey, ReadStatus, row

LEMMA SendKeyInv ==
  ASSUME KeyInv, NEW t \in Tabs, Send(t)
  PROVE  KeyInv'
<1>1. tab' \in [Tabs -> TabRecords] /\ \A u \in Tabs : u # t => tab'[u] = tab[u]
  BY DEF KeyInv, TypeOK, Send, TabRecords, TabPcs
<1>2. req' \in [Tabs -> ReqRecords] /\ \A u \in Tabs : u # t => req'[u] = req[u]
  BY DEF KeyInv, TypeOK, Send, ReqRecords, ReqPcs
<1>3. TypeOK'
  BY <1>1, <1>2 DEF KeyInv, TypeOK, Send, TabRecords, ReqRecords, row, browser
<1>4. \A u \in Tabs : Informed(u)'
  BY <1>1, <1>2 DEF KeyInv, TypeOK, Send, Informed, Serving, row, Writing
<1> QED
  BY <1>3, <1>4 DEF KeyInv, OneKey, Send, row

\* A request at rest.
LEMMA RestIs ==
  ASSUME NEW r \in ReqRecords
  PROVE  [r EXCEPT !.pc = "none", !.stale = {}] \in ReqRecords /\ [r EXCEPT !.pc = "none", !.stale = {}].pc = "none"
  BY DEF ReqRecords, ReqPcs

\* How a request goes on, or ends.
LEMMA AnswerTyped ==
  ASSUME KeyInv, NEW t \in Tabs, NEW pc \in {"failed"}, Answer(t, pc)
  PROVE  /\ tab' \in [Tabs -> TabRecords] /\ req' \in [Tabs -> ReqRecords]
         /\ \A u \in Tabs : u # t => tab'[u] = tab[u] /\ req'[u] = req[u]
         /\ req'[t].pc = "none"
         /\ tab'[t].key = tab[t].key /\ tab'[t].pc \in {tab[t].pc, pc}
         /\ tab'[t].offset = tab[t].offset
<1>1. tab \in [Tabs -> TabRecords] /\ req \in [Tabs -> ReqRecords]
  BY DEF KeyInv, TypeOK, TabRecords, ReqRecords
<1>2. PICK r : r = [req[t] EXCEPT !.pc = "none", !.stale = {}]
  OBVIOUS
<1>3. r \in ReqRecords /\ r.pc = "none"
  BY <1>1, <1>2, RestIs
<1>4. req' = [req EXCEPT ![t] = r]
  BY <1>2 DEF Answer
<1>5. req' \in [Tabs -> ReqRecords] /\ req'[t].pc = "none" /\ \A u \in Tabs : u # t => req'[u] = req[u]
  BY <1>1, <1>3, <1>4
<1>6. PICK d : d = [tab[t] EXCEPT !.pc = pc]
  OBVIOUS
<1>7. d \in TabRecords /\ d.pc = pc /\ d.key = tab[t].key /\ d.offset = tab[t].offset
  BY <1>1, <1>6 DEF TabRecords, TabPcs
<1>8. tab' = IF tab[t].pc = "wait" THEN [tab EXCEPT ![t] = d] ELSE tab
  BY <1>6 DEF Answer
<1>9. /\ tab' \in [Tabs -> TabRecords] /\ \A u \in Tabs : u # t => tab'[u] = tab[u]
      /\ tab'[t].key = tab[t].key /\ tab'[t].pc \in {tab[t].pc, pc} /\ tab'[t].offset = tab[t].offset
  BY <1>1, <1>7, <1>8
<1> QED
  BY <1>5, <1>9

LEMMA ContinueTyped ==
  ASSUME KeyInv, NEW t \in Tabs, NEW pc \in ReqPcs, Continue(t, pc)
  PROVE  /\ tab' = tab /\ req' \in [Tabs -> ReqRecords]
         /\ \A u \in Tabs : u # t => req'[u] = req[u]
         /\ req'[t] = [req[t] EXCEPT !.pc = pc]
  BY DEF KeyInv, TypeOK, Continue, ReqRecords, ReqPcs

LEMMA BeginKeyInv ==
  ASSUME KeyInv, NEW t \in Tabs, Begin(t)
  PROVE  KeyInv'
<1>1. req[t].key \in Keys
  BY DEF KeyInv, Informed, Serving, Begin, On
<1>2. begun' \in Keys /\ (begun # NoKey => begun' = begun)
  BY <1>1 DEF Begin, KeyInv, TypeOK
<1>3. OneKey'
  BY <1>2, UploadAssumption DEF Begin, KeyInv, OneKey
<1>4. \A u \in Tabs : req[u].pc \in Writing => begun' = begun
  BY <1>2, UploadAssumption DEF KeyInv, Informed, Writing, Serving
<1>5. CASE Continue(t, "check")
  <2>1. /\ tab' = tab /\ req' \in [Tabs -> ReqRecords]
        /\ \A u \in Tabs : u # t => req'[u] = req[u]
        /\ req'[t] = [req[t] EXCEPT !.pc = "check"]
    BY <1>5, ContinueTyped DEF ReqPcs
  <2>2. TypeOK'
    BY <1>2, <2>1 DEF Begin, KeyInv, TypeOK, ReqRecords, browser
  <2>3. Informed(t)'
    BY <1>1, <2>1 DEF Begin, On, KeyInv, TypeOK, Informed, Serving, Writing, ReqRecords
  <2>4. \A u \in Tabs : u # t => Informed(u)'
    BY <1>4, <2>1 DEF KeyInv, Informed, Serving
  <2> QED
    BY <1>3, <2>2, <2>3, <2>4 DEF KeyInv
<1>6. CASE Answer(t, "failed")
  <2>1. /\ tab' \in [Tabs -> TabRecords] /\ req' \in [Tabs -> ReqRecords]
        /\ \A u \in Tabs : u # t => tab'[u] = tab[u] /\ req'[u] = req[u]
        /\ req'[t].pc = "none"
        /\ tab'[t].key = tab[t].key /\ tab'[t].pc \in {tab[t].pc, "failed"}
        /\ tab'[t].offset = tab[t].offset
    BY <1>6, AnswerTyped
  <2>2. TypeOK'
    BY <1>2, <2>1 DEF Begin, KeyInv, TypeOK, TabRecords, ReqRecords, browser
  <2>3. Informed(t)'
    BY <2>1 DEF KeyInv, Informed, Serving, Writing
  <2>4. \A u \in Tabs : u # t => Informed(u)'
    BY <1>4, <2>1 DEF KeyInv, Informed, Serving
  <2> QED
    BY <1>3, <2>2, <2>3, <2>4 DEF KeyInv
<1> QED
  BY <1>5, <1>6 DEF Begin

\* A request that ends without touching row or store.
LEMMA AnswerKeyInv ==
  ASSUME KeyInv, NEW t \in Tabs, Answer(t, "failed"),
         UNCHANGED <<row, backend, store, browser>>, faults' \in Nat
  PROVE  KeyInv'
<1>1. /\ tab' \in [Tabs -> TabRecords] /\ req' \in [Tabs -> ReqRecords]
      /\ \A u \in Tabs : u # t => tab'[u] = tab[u] /\ req'[u] = req[u]
      /\ req'[t].pc = "none"
      /\ tab'[t].key = tab[t].key /\ tab'[t].pc \in {tab[t].pc, "failed"}
      /\ tab'[t].offset = tab[t].offset
  BY AnswerTyped
<1>2. TypeOK'
  BY <1>1 DEF KeyInv, TypeOK, TabRecords, ReqRecords, row, browser
<1>3. Informed(t)'
  BY <1>1 DEF KeyInv, Informed, Serving, Writing
<1>4. \A u \in Tabs : u # t => Informed(u)'
  BY <1>1 DEF KeyInv, Informed, Serving, row
<1> QED
  BY <1>2, <1>3, <1>4 DEF KeyInv, OneKey, row

LEMMA CheckKeyInv ==
  ASSUME KeyInv, NEW t \in Tabs, Check(t)
  PROVE  KeyInv'
<1>1. CASE Answer(t, "failed")
  BY <1>1, AnswerKeyInv DEF Check, KeyInv, TypeOK
<1>2. CASE Acceptable(t) /\ Continue(t, "look")
  <2>1. /\ tab' = tab /\ req' \in [Tabs -> ReqRecords]
        /\ \A u \in Tabs : u # t => req'[u] = req[u]
        /\ req'[t] = [req[t] EXCEPT !.pc = "look"]
    BY <1>2, ContinueTyped DEF ReqPcs
  <2>2. TypeOK'
    BY <2>1 DEF Check, KeyInv, TypeOK, ReqRecords, row, browser
  <2>3. Informed(t)'
    BY <1>2, <2>1 DEF Check, On, Acceptable, KeyInv, TypeOK, Informed, Serving, row, ReqRecords
  <2>4. \A u \in Tabs : u # t => Informed(u)'
    BY <2>1 DEF Check, KeyInv, Informed, Serving, row
  <2> QED
    BY <2>2, <2>3, <2>4 DEF Check, KeyInv, OneKey, row
<1> QED
  BY <1>1, <1>2 DEF Check

LEMMA LookStaleKeyInv ==
  ASSUME KeyInv, NEW t \in Tabs, LookStale(t)
  PROVE  KeyInv'
<1> DEFINE q == {c \in Present : c >= req[t].offset}
<1>1. q \in SUBSET Slots
  BY DEF Present
<1>2. req' = [req EXCEPT ![t] = [@ EXCEPT !.pc = "truncate", !.stale = q]]
  BY DEF LookStale
<1> HIDE DEF q
<1>3. req' \in [Tabs -> ReqRecords] /\ \A u \in Tabs : u # t => req'[u] = req[u]
  <2>1. req \in [Tabs -> ReqRecords] /\ req[t] \in ReqRecords
    BY DEF KeyInv, TypeOK, ReqRecords
  <2>2. [req[t] EXCEPT !.pc = "truncate", !.stale = q] \in ReqRecords
    BY <1>1, <2>1 DEF ReqRecords, ReqPcs
  <2>3. req' = [req EXCEPT ![t] = [req[t] EXCEPT !.pc = "truncate", !.stale = q]]
    BY <1>2, <2>1
  <2> QED
    BY <2>1, <2>2, <2>3
<1>4. TypeOK'
  BY <1>3 DEF LookStale, KeyInv, TypeOK, ReqRecords, row, browser
<1>5. \A u \in Tabs : Informed(u)'
  BY <1>2, <1>3 DEF LookStale, On, KeyInv, TypeOK, Informed, Serving, Writing, row
<1> QED
  BY <1>4, <1>5 DEF LookStale, KeyInv, OneKey, row

LEMMA FilledContents ==
  ASSUME TypeOK, NEW c \in Slots
  PROVE  Filled(c) \in {store[c], "zeros"} /\ Filled(c) \in Contents
  BY DEF Filled, TypeOK, Contents

LEMMA TruncateKeyInv ==
  ASSUME KeyInv, NEW t \in Tabs, Truncate(t)
  PROVE  KeyInv'
<1>1. store' \in [Slots -> Contents]
      /\ \A c \in Slots : store'[c] \in {store[c], "zeros", "absent"}
  BY FilledContents DEF Truncate, KeyInv, TypeOK, Contents
<1>2. OneKey'
  BY <1>1, UploadAssumption DEF Truncate, KeyInv, OneKey, row
<1>3. /\ tab' = tab /\ req' \in [Tabs -> ReqRecords]
      /\ \A u \in Tabs : u # t => req'[u] = req[u]
      /\ \E pc \in Writing : req'[t] = [req[t] EXCEPT !.pc = pc]
  <2>1. CASE Continue(t, "open")
    BY <2>1, ContinueTyped DEF ReqPcs, Writing
  <2>2. CASE Continue(t, "write")
    BY <2>2, ContinueTyped DEF ReqPcs, Writing
  <2> QED
    BY <2>1, <2>2 DEF Truncate
<1>4. TypeOK'
  BY <1>1, <1>3 DEF Truncate, KeyInv, TypeOK, ReqRecords, row, browser
<1>5. \A u \in Tabs : Informed(u)'
  BY <1>3 DEF Truncate, On, KeyInv, TypeOK, Informed, Serving, Writing, row
<1> QED
  BY <1>2, <1>4, <1>5 DEF KeyInv

LEMMA OpenFileKeyInv ==
  ASSUME KeyInv, NEW t \in Tabs, OpenFile(t)
  PROVE  KeyInv'
<1>1. CASE Answer(t, "failed")
  BY <1>1, AnswerKeyInv DEF OpenFile, KeyInv, TypeOK
<1>2. CASE Continue(t, "write")
  <2>1. /\ tab' = tab /\ req' \in [Tabs -> ReqRecords]
        /\ \A u \in Tabs : u # t => req'[u] = req[u]
        /\ req'[t] = [req[t] EXCEPT !.pc = "write"]
    BY <1>2, ContinueTyped DEF ReqPcs
  <2>2. TypeOK'
    BY <2>1 DEF OpenFile, KeyInv, TypeOK, ReqRecords, row, browser
  <2>3. \A u \in Tabs : Informed(u)'
    BY <2>1 DEF OpenFile, On, KeyInv, TypeOK, Informed, Serving, Writing, row
  <2> QED
    BY <2>2, <2>3 DEF OpenFile, KeyInv, OneKey, row
<1> QED
  BY <1>1, <1>2 DEF OpenFile

LEMMA WriteChunkKeyInv ==
  ASSUME KeyInv, NEW t \in Tabs, WriteChunk(t)
  PROVE  KeyInv'
<1>1. req[t].key \in Keys /\ req[t].key = begun
  BY DEF WriteChunk, On, KeyInv, Informed, Serving, Writing
<1>2. store' \in [Slots -> Contents]
      /\ \A c \in Slots : store'[c] \in {store[c], "zeros", begun}
  BY <1>1, FilledContents DEF WriteChunk, KeyInv, TypeOK, Contents
<1>3. OneKey'
  BY <1>2, UploadAssumption DEF WriteChunk, KeyInv, OneKey, row
<1>4. /\ tab' = tab /\ req' \in [Tabs -> ReqRecords]
      /\ \A u \in Tabs : u # t => req'[u] = req[u]
      /\ req'[t] = [req[t] EXCEPT !.pc = "update"]
  BY ContinueTyped DEF WriteChunk, ReqPcs
<1>5. TypeOK'
  BY <1>2, <1>4 DEF WriteChunk, KeyInv, TypeOK, ReqRecords, row, browser
<1>6. \A u \in Tabs : Informed(u)'
  BY <1>4 DEF WriteChunk, On, KeyInv, TypeOK, Informed, Serving, Writing, row
<1> QED
  BY <1>3, <1>5, <1>6 DEF KeyInv

LEMMA UpdateKeyInv ==
  ASSUME KeyInv, NEW t \in Tabs, Update(t)
  PROVE  KeyInv'
<1> DEFINE next == req[t].offset + 1
           pc   == IF next = Size THEN "done" ELSE "send"
<1>1. next \in 0..Size /\ pc \in TabPcs
  BY UploadAssumption DEF Update, On, KeyInv, TypeOK, Informed, Serving, TabPcs
<1>2. /\ received' = next /\ complete' = (next = Size)
      /\ req' = [req EXCEPT ![t] = [@ EXCEPT !.pc = "none", !.stale = {}]]
      /\ tab' \in {tab, [tab EXCEPT ![t] = [@ EXCEPT !.offset = next, !.pc = pc]]}
  BY DEF Update
<1>3. pc = "send" => next < Size
  BY <1>1, UploadAssumption
<1>4. pc \in {"send", "done"} /\ (tab' # tab => tab[t].pc = "wait")
  BY DEF Update
<1> HIDE DEF next, pc
<1>5. req' \in [Tabs -> ReqRecords] /\ \A u \in Tabs : u # t => req'[u] = req[u]
  <2>1. req' = [req EXCEPT ![t] = [@ EXCEPT !.pc = "none", !.stale = {}]]
    BY <1>2
  <2>2. req \in [Tabs -> ReqRecords]
    BY DEF KeyInv, TypeOK, ReqRecords
  <2>3. PICK r : r = [req[t] EXCEPT !.pc = "none", !.stale = {}]
    OBVIOUS
  <2>4. r \in ReqRecords
    BY <2>2, <2>3, RestIs
  <2>5. req' = [req EXCEPT ![t] = r]
    BY <2>1, <2>3
  <2> QED
    BY <2>2, <2>4, <2>5
<1>6. tab' \in [Tabs -> TabRecords] /\ \A u \in Tabs : u # t => tab'[u] = tab[u]
  <2>1. tab \in [Tabs -> TabRecords]
    BY DEF KeyInv, TypeOK, TabRecords
  <2>2. PICK d : d = [tab[t] EXCEPT !.offset = next, !.pc = pc]
    OBVIOUS
  <2>3. d \in TabRecords
    BY <1>1, <2>1, <2>2 DEF TabRecords
  <2>4. tab' \in {tab, [tab EXCEPT ![t] = d]}
    BY <1>2, <2>2
  <2> QED
    BY <2>1, <2>3, <2>4
<1>7. TypeOK'
  BY <1>1, <1>2, <1>5, <1>6 DEF Update, KeyInv, TypeOK, TabRecords, ReqRecords, browser
<1>8. Informed(t)'
  <2>1. req'[t].pc = "none"
    BY <1>2 DEF KeyInv, TypeOK
  <2>2. CASE tab' = tab
    BY <2>1, <2>2 DEF KeyInv, Informed, Serving, Writing
  <2>3. CASE tab' # tab
    <3>1. tab'[t].pc = pc /\ tab'[t].offset = next /\ tab'[t].key = tab[t].key
      <4> DEFINE d == [tab[t] EXCEPT !.offset = next, !.pc = pc]
      <4>1. d.pc = pc /\ d.offset = next /\ d.key = tab[t].key
        BY DEF KeyInv, TypeOK
      <4>2. tab' = [tab EXCEPT ![t] = d]
        BY <1>2, <2>3
      <4> HIDE DEF d
      <4>3. tab'[t] = d
        BY <4>2 DEF KeyInv, TypeOK
      <4> QED
        BY <4>1, <4>3
    <3>2. tab[t].key \in Keys
      BY <1>4, <2>3 DEF KeyInv, Informed
    <3> QED
      BY <1>3, <2>1, <3>1, <3>2 DEF Informed, Serving, Writing
  <2> QED
    BY <2>2, <2>3
<1>9. \A u \in Tabs : u # t => Informed(u)'
  BY <1>5, <1>6 DEF Update, KeyInv, Informed, Serving
<1> QED
  BY <1>7, <1>8, <1>9 DEF Update, KeyInv, OneKey

LEMMA DropKeyInv ==
  ASSUME KeyInv, NEW t \in Tabs, Drop(t)
  PROVE  KeyInv'
<1>1. tab' \in [Tabs -> TabRecords] /\ \A u \in Tabs : u # t => tab'[u] = tab[u]
  BY DEF KeyInv, TypeOK, Drop, TabRecords, TabPcs
<1>2. TypeOK'
  BY <1>1 DEF KeyInv, TypeOK, Drop, Strike, TabRecords, row, browser
<1>3. \A u \in Tabs : Informed(u)'
  BY <1>1 DEF KeyInv, TypeOK, Drop, Informed, Serving, row, Writing
<1> QED
  BY <1>2, <1>3 DEF KeyInv, OneKey, Drop, row

LEMMA NextKeyInv ==
  ASSUME KeyInv, [Next]_vars
  PROVE  KeyInv'
<1>1. ASSUME NEW t \in Tabs, Crash(t)
      PROVE  KeyInv'
  BY <1>1, AnswerKeyInv DEF Crash, Strike, KeyInv, TypeOK
<1>2. ASSUME NEW t \in Tabs, Step(t) \/ Start(t) \/ Drop(t)
      PROVE  KeyInv'
  BY <1>2, StartKeyInv, GenerateKeyInv, ReadStatusKeyInv, SendKeyInv, BeginKeyInv, CheckKeyInv,
     LookStaleKeyInv, TruncateKeyInv, OpenFileKeyInv, WriteChunkKeyInv, UpdateKeyInv, DropKeyInv
     DEF Step
<1>3. CASE UNCHANGED vars
  BY <1>3 DEF vars, row, browser, KeyInv, TypeOK, Informed, Serving, OneKey
<1> QED
  BY <1>1, <1>2, <1>3 DEF Next

LEMMA KeyInvariant == Spec => []KeyInv
  BY InitKeyInv, NextKeyInv, PTL DEF Spec

\* Every reachable state is well typed.
THEOREM TypeCorrect == Spec => []TypeOK
<1>1. KeyInv => TypeOK
  BY DEF KeyInv
<1> QED
  BY <1>1, KeyInvariant, PTL

\* However tabs, devices and requests overlap, and whatever fails, a
\* ciphertext never holds chunks sealed under two keys.
THEOREM KeysNeverMix == Spec => []OneKey
<1>1. KeyInv => OneKey
  BY DEF KeyInv
<1> QED
  BY <1>1, KeyInvariant, PTL

-----------------------------------------------------------------------------
(* Uploads in turn.  The tab at work, or the request it left behind, is    *)
(* alone: nobody moves the offset between its check and its update, and    *)
(* nobody replaces the key of its device.                                  *)

Busy(t) == Working(t) \/ Serving(t)
Alone == \A t, u \in Tabs : Busy(t) /\ Busy(u) => t = u

Turn(t) ==
  /\ tab[t].pc = "generate" => stored[DeviceOf[t]] = NoKey
  /\ tab[t].pc \in {"status", "send", "wait"} => stored[DeviceOf[t]] = tab[t].key
  /\ Serving(t) => stored[DeviceOf[t]] = req[t].key
  /\ req[t].pc \in Writing => req[t].offset = received
  /\ req[t].pc = "update" => store[received] = begun

Begun == begun = NoKey => received = 0

TurnInv ==
  /\ KeyInv
  /\ Alone
  /\ \A t \in Tabs : Busy(t) => Turn(t)
  /\ Begun /\ OffsetBacked /\ KeyKept /\ DoneIsComplete

LEMMA InitTurnInv == Init => TurnInv
  BY InitKeyInv DEF Init, TurnInv, Alone, Busy, Working, Serving, Begun, OffsetBacked, KeyKept,
     DoneIsComplete, Slots

\* Whoever steps is the only one at work, before and after.
LEMMA OthersIdle ==
  ASSUME TurnInv, Overlap = FALSE, NEW t \in Tabs,
         Start(t) \/ Step(t) \/ Drop(t) \/ Crash(t)
  PROVE  \A u \in Tabs : u # t => /\ ~Busy(u) /\ ~Busy(u)'
                                /\ tab'[u] = tab[u]
<1>1. \A u \in Tabs : u # t => tab'[u] = tab[u] /\ req'[u] = req[u]
  BY DEF TurnInv, KeyInv, TypeOK, Start, Step, Drop, Crash, Generate, ReadStatus, Send, Begin,
     Check, LookStale, Truncate, OpenFile, WriteChunk, Update, Answer, Continue
<1>2. \A u \in Tabs : u # t => ~Busy(u)
  <2>1. CASE Start(t)
    BY <2>1 DEF Start, Busy
  <2>2. CASE Step(t) \/ Drop(t) \/ Crash(t)
    <3>1. Busy(t)
      BY <2>2 DEF Step, Drop, Crash, Generate, ReadStatus, Send, Begin, Check, LookStale,
         Truncate, OpenFile, WriteChunk, Update, On, Busy, Working, Serving
    <3> QED
      BY <3>1 DEF TurnInv, Alone
  <2> QED
    BY <2>1, <2>2
<1> QED
  BY <1>1, <1>2 DEF Busy, Working, Serving

\* The steps that leave the row and the store as they are, and the key too.
LEMMA QuietStep ==
  ASSUME TurnInv, KeyInv', NEW t \in Tabs,
         UNCHANGED <<row, stored>>, \A c \in Slots : c < received => store'[c] = store[c],
         tab'[t].pc = "done" => complete, \A u \in Tabs : u # t => tab'[u] = tab[u]
  PROVE  Begun' /\ OffsetBacked' /\ KeyKept' /\ DoneIsComplete'
  BY DEF TurnInv, Begun, OffsetBacked, KeyKept, DoneIsComplete, row, KeyInv, TypeOK

\* What the steps of the browser keep.
LEMMA BrowserTurn ==
  ASSUME TurnInv, Overlap = FALSE, KeyInv', NEW t \in Tabs,
         Start(t) \/ Generate(t) \/ ReadStatus(t) \/ Send(t) \/ Drop(t),
         \A u \in Tabs : u # t => tab'[u] = tab[u]
  PROVE  /\ Busy(t)' => Turn(t)'
         /\ Begun' /\ OffsetBacked' /\ KeyKept' /\ DoneIsComplete'
<1> USE DEF TurnInv, KeyInv, TypeOK
<1>1. CASE Start(t)
  <2>1. Turn(t)'
    BY <1>1, UploadAssumption DEF Start, LoadedKey, Turn, Serving, row, browser, Writing
  <2>2. tab'[t].pc # "done"
    BY <1>1 DEF Start
  <2> QED
    BY <1>1, <2>1, <2>2, QuietStep DEF Start, row, browser
<1>2. CASE Generate(t)
  <2>1. PICK k \in Keys \ used :
          /\ stored' = [stored EXCEPT ![DeviceOf[t]] = k]
          /\ tab' = [tab EXCEPT ![t] = [@ EXCEPT !.key = k, !.pc = "status"]]
    BY <1>2 DEF Generate
  <2>2. stored[DeviceOf[t]] = NoKey /\ DeviceOf[t] \in Devices
    BY <1>2, UploadAssumption DEF Generate, Busy, Working, Turn
  <2>3. ~Serving(t) \/ req[t].key = NoKey
    BY <1>2, <2>2 DEF Generate, Busy, Working, Turn
  <2>4. ~Serving(t)
    BY <2>3, UploadAssumption DEF Informed
  <2>5. Turn(t)'
    <3>1. tab'[t].pc = "status" /\ tab'[t].key = k /\ stored'[DeviceOf[t]] = k
      BY <2>1, <2>2
    <3>2. req'[t].pc = "none"
      BY <1>2, <2>4 DEF Generate, Serving
    <3> QED
      BY <3>1, <3>2 DEF Turn, Serving, Writing
  <2>6. KeyKept'
    BY <1>2, <2>1, <2>2 DEF Generate, KeyKept, row
  <2>7. Begun' /\ OffsetBacked'
    BY <1>2 DEF Generate, Begun, OffsetBacked, row
  <2>8. DoneIsComplete'
    <3>1. tab'[t].pc = "status"
      BY <2>1
    <3> QED
      BY <1>2, <3>1 DEF Generate, DoneIsComplete, row
  <2> QED
    BY <2>5, <2>6, <2>7, <2>8
<1>3. CASE ReadStatus(t)
  <2>1. Busy(t)
    BY <1>3 DEF ReadStatus, Busy, Working
  <2>2. Turn(t)'
    BY <1>3, <2>1 DEF ReadStatus, Turn, Serving, row, browser, Writing
  <2>3. tab'[t].pc = "done" => complete
    BY <1>3 DEF ReadStatus
  <2> QED
    BY <1>3, <2>2, <2>3, QuietStep DEF ReadStatus, row, browser
<1>4. CASE Send(t)
  <2>1. Busy(t)
    BY <1>4 DEF Send, Busy, Working
  <2>2. Turn(t)'
    BY <1>4, <2>1 DEF Send, Turn, Serving, row, browser, Writing
  <2>3. tab'[t].pc # "done"
    BY <1>4 DEF Send
  <2> QED
    BY <1>4, <2>2, <2>3, QuietStep DEF Send, row, browser
<1>5. CASE Drop(t)
  <2>1. Busy(t)
    BY <1>5 DEF Drop, Busy
  <2>2. Turn(t)'
    BY <1>5, <2>1 DEF Drop, Turn, Serving, row, browser, Writing
  <2>3. tab'[t].pc # "done"
    BY <1>5 DEF Drop
  <2> QED
    BY <1>5, <2>2, <2>3, QuietStep DEF Drop, row, browser
<1> QED
  BY <1>1, <1>2, <1>3, <1>4, <1>5

\* A request that ends early: no check has been passed, or no step is left.
LEMMA AnswerTurn ==
  ASSUME TurnInv, KeyInv', NEW t \in Tabs, Busy(t), Answer(t, "failed"),
         UNCHANGED <<row, backend, store, browser>>
  PROVE  /\ Turn(t)'
         /\ Begun' /\ OffsetBacked' /\ KeyKept' /\ DoneIsComplete'
<1> USE DEF TurnInv
<1>1. /\ \A u \in Tabs : u # t => tab'[u] = tab[u]
      /\ req'[t].pc = "none" /\ tab'[t].key = tab[t].key
      /\ tab'[t].pc \in {tab[t].pc, "failed"}
  BY AnswerTyped
<1>2. Turn(t)'
  BY <1>1 DEF Turn, Serving, Writing, browser
<1>3. tab'[t].pc = "done" => complete
  BY <1>1 DEF DoneIsComplete
<1> QED
  BY <1>1, <1>2, <1>3, QuietStep DEF row, browser

\* A request that goes on without touching the row.
LEMMA ContinueTurn ==
  ASSUME TurnInv, KeyInv', NEW t \in Tabs, Serving(t), Busy(t), NEW pc \in Writing,
         Continue(t, pc), req[t].pc \in Writing \/ req[t].offset = received,
         pc = "update" => store'[received] = begun,
         UNCHANGED <<row, browser>>, \A c \in Slots : c < received => store'[c] = store[c]
  PROVE  /\ Turn(t)'
         /\ Begun' /\ OffsetBacked' /\ KeyKept' /\ DoneIsComplete'
<1> USE DEF TurnInv
<1>1. tab' = tab /\ req'[t] = [req[t] EXCEPT !.pc = pc] /\ req[t] \in ReqRecords
  BY ContinueTyped DEF Writing, ReqPcs, KeyInv, TypeOK, ReqRecords
<1>2. /\ req'[t].pc = pc /\ req'[t].key = req[t].key /\ req'[t].offset = req[t].offset
  BY <1>1 DEF ReqRecords
<1>3. Turn(t)
  OBVIOUS
<1>4. Turn(t)'
  BY <1>1, <1>2, <1>3 DEF Turn, Serving, row, browser
<1>5. tab'[t].pc = "done" => complete
  BY <1>1 DEF DoneIsComplete
<1> QED
  BY <1>1, <1>4, <1>5, QuietStep DEF row, browser

\* What the steps of a request keep.
LEMMA RequestTurn ==
  ASSUME TurnInv, Overlap = FALSE, KeyInv', NEW t \in Tabs,
         \/ Begin(t) \/ Check(t) \/ LookStale(t) \/ Truncate(t)
         \/ OpenFile(t) \/ WriteChunk(t) \/ Update(t) \/ Crash(t),
         \A u \in Tabs : u # t => tab'[u] = tab[u]
  PROVE  /\ Turn(t)'
         /\ Begun' /\ OffsetBacked' /\ KeyKept' /\ DoneIsComplete'
<1>0. /\ TypeOK /\ Informed(t) /\ Serving(t) /\ Busy(t) /\ Turn(t)
  <2>1. Serving(t)
    BY DEF Begin, Check, LookStale, Truncate, OpenFile, WriteChunk, Update, Crash, On, Serving
  <2> QED
    BY <2>1 DEF TurnInv, KeyInv, Busy
<1>1. CASE Begin(t)
  <2>1. begun # NoKey => begun' = begun
    BY <1>1 DEF Begin
  <2>2. begun = NoKey => begun' = req[t].key /\ req[t].key \in Keys
    BY <1>0, <1>1 DEF Begin, Informed
  <2>3. Begun' /\ OffsetBacked'
    BY <1>0, <1>1, <2>1, <2>2, UploadAssumption
       DEF Begin, TurnInv, Begun, OffsetBacked, TypeOK, Slots
  <2>4. KeyKept'
    BY <1>0, <1>1, <2>1, <2>2, UploadAssumption
       DEF Begin, TurnInv, KeyKept, Turn, browser, TypeOK
  <2>5. /\ tab'[t].key = tab[t].key /\ tab'[t].pc \in {tab[t].pc, "failed"}
        /\ \/ req'[t].pc = "none"
           \/ req'[t].pc = "check" /\ req'[t].key = req[t].key
    <3>1. CASE Continue(t, "check")
      BY <1>0, <3>1 DEF Continue, TypeOK
    <3>2. CASE Answer(t, "failed")
      BY <3>2, AnswerTyped DEF TurnInv
    <3> QED
      BY <1>1, <3>1, <3>2 DEF Begin
  <2>6. Turn(t)'
    BY <1>0, <1>1, <2>5 DEF Begin, Turn, Serving, Writing, browser
  <2>7. DoneIsComplete'
    BY <1>1, <2>5 DEF Begin, TurnInv, DoneIsComplete
  <2> QED
    BY <2>3, <2>4, <2>6, <2>7
<1>2. CASE Check(t)
  <2>1. CASE Answer(t, "failed")
    BY <1>0, <1>2, <2>1, AnswerTurn DEF Check
  <2>2. CASE Acceptable(t) /\ Continue(t, "look")
    BY <1>0, <1>2, <2>2, ContinueTurn DEF Check, Acceptable, Writing
  <2> QED
    BY <1>2, <2>1, <2>2 DEF Check
<1>3. CASE LookStale(t)
  <2> DEFINE q == {c \in Present : c >= req[t].offset}
  <2>1. req' = [req EXCEPT ![t] = [@ EXCEPT !.pc = "truncate", !.stale = q]]
    BY <1>3 DEF LookStale
  <2> HIDE DEF q
  <2>2. /\ req'[t].pc = "truncate" /\ req'[t].key = req[t].key
        /\ req'[t].offset = req[t].offset
    BY <1>0, <2>1 DEF TypeOK
  <2>3. Turn(t)'
    BY <1>0, <1>3, <2>2 DEF LookStale, On, Turn, Serving, Writing, row, browser
  <2>4. tab'[t].pc = "done" => complete
    BY <1>3 DEF LookStale, TurnInv, DoneIsComplete
  <2> QED
    BY <1>3, <2>3, <2>4, QuietStep DEF LookStale, row, browser
<1>4. ASSUME req[t].pc \in {"truncate", "write"}
      PROVE  /\ req[t].offset = received /\ req[t].key = begun /\ begun \in Keys
             /\ \A c \in Slots : c < received => Filled(c) = store[c]
  <2>1. req[t].offset = received /\ req[t].key = begun /\ begun \in Keys
    BY <1>0, <1>4 DEF Turn, Informed, Writing
  <2>2. \A c \in Slots : c < received => store[c] = begun
    BY DEF TurnInv, OffsetBacked
  <2> QED
    BY <2>1, <2>2, UploadAssumption DEF Filled
<1>5. CASE Truncate(t)
  <2>1. req[t].pc \in Writing /\ req[t].pc \in {"truncate", "write"}
    BY <1>5 DEF Truncate, On, Writing
  <2>2. \A c \in Slots : c < received => store'[c] = store[c]
    <3>1. CASE req[t].stale = {}
      BY <1>5, <3>1 DEF Truncate
    <3>2. ASSUME req[t].stale # {}, NEW c \in Slots, c < received
          PROVE  store'[c] = store[c]
      <4>1. c < req[t].offset /\ Filled(c) = store[c]
        BY <1>4, <2>1, <3>2
      <4>2. store' = [d \in Slots |->
                         IF d < req[t].offset THEN Filled(d)
                         ELSE IF backend = "fs" \/ d \in req[t].stale THEN "absent"
                              ELSE store[d]]
        BY <1>5, <3>2 DEF Truncate
      <4> QED
        BY <3>2, <4>1, <4>2
    <3> QED
      BY <3>1, <3>2
  <2>3. CASE Continue(t, "open")
    BY <1>0, <1>5, <2>1, <2>2, <2>3, ContinueTurn DEF Truncate, Writing
  <2>4. CASE Continue(t, "write")
    BY <1>0, <1>5, <2>1, <2>2, <2>4, ContinueTurn DEF Truncate, Writing
  <2> QED
    BY <1>5, <2>3, <2>4 DEF Truncate
<1>6. CASE OpenFile(t)
  <2>1. CASE Answer(t, "failed")
    BY <1>0, <1>6, <2>1, AnswerTurn DEF OpenFile
  <2>2. CASE Continue(t, "write")
    BY <1>0, <1>6, <2>2, ContinueTurn DEF OpenFile, On, Writing
  <2> QED
    BY <1>6, <2>1, <2>2 DEF OpenFile
<1>7. CASE WriteChunk(t)
  <2>1. req[t].pc \in Writing /\ req[t].pc \in {"truncate", "write"}
    BY <1>7 DEF WriteChunk, On, Writing
  <2>2. received \in Slots
    BY <1>0, <1>4, <2>1, UploadAssumption DEF Informed, TypeOK, Slots
  <2>3. \A c \in Slots : c < received => store'[c] = store[c]
    <3>1. ASSUME NEW c \in Slots, c < received
          PROVE  store'[c] = store[c]
      <4>1. c # req[t].offset /\ c < req[t].offset /\ Filled(c) = store[c]
        BY <1>0, <1>4, <2>1, <2>2, <3>1 DEF Slots, TypeOK
      <4> QED
        BY <1>7, <3>1, <4>1 DEF WriteChunk
    <3> QED
      BY <3>1
  <2>4. store'[received] = begun
    <3>1. req[t].offset \in Slots /\ req[t].offset = received /\ req[t].key = begun
      BY <1>4, <2>1, <2>2
    <3>2. store'[req[t].offset] = req[t].key
      BY <1>7, <3>1 DEF WriteChunk
    <3> QED
      BY <3>1, <3>2
  <2> QED
    BY <1>0, <1>7, <2>1, <2>3, <2>4, ContinueTurn DEF WriteChunk, Writing
<1>8. CASE Update(t)
  <2>1. /\ req[t].offset = received /\ store[received] = begun /\ received < Size
        /\ req[t].key = begun /\ begun \in Keys
    BY <1>0, <1>8 DEF Update, On, Turn, Informed, Writing
  <2>2. received' = received + 1 /\ complete' = (received + 1 = Size)
    BY <1>8, <2>1 DEF Update
  <2>3. Begun' /\ OffsetBacked'
    BY <1>0, <1>8, <2>1, <2>2, UploadAssumption
       DEF Update, TurnInv, Begun, OffsetBacked, TypeOK, Slots
  <2>4. KeyKept'
    BY <1>8 DEF Update, TurnInv, KeyKept, browser
  <2>5. ~complete
    BY <1>0, <2>1, UploadAssumption DEF TypeOK
  <2>6. tab'[t].pc = "done" => complete'
    <3> DEFINE next == received + 1
               pc   == IF next = Size THEN "done" ELSE "send"
               d    == [tab[t] EXCEPT !.offset = next, !.pc = pc]
    <3>1. tab' = tab \/ tab' = [tab EXCEPT ![t] = d]
      BY <1>8, <2>1 DEF Update
    <3>2. d.pc = pc /\ (pc = "done" => complete')
      BY <1>0, <2>2 DEF TypeOK
    <3> HIDE DEF next, pc, d
    <3>3. tab'[t] = tab[t] \/ tab'[t] = d
      BY <1>0, <3>1 DEF TypeOK
    <3>4. tab[t].pc # "done"
      BY <2>5 DEF TurnInv, DoneIsComplete
    <3> QED
      BY <3>2, <3>3, <3>4
  <2>7. DoneIsComplete'
    BY <2>5, <2>6 DEF TurnInv, DoneIsComplete
  <2>8. /\ req'[t].pc = "none" /\ tab'[t].key = tab[t].key
        /\ tab'[t].pc # tab[t].pc => tab[t].pc = "wait" /\ tab'[t].pc \in {"done", "send"}
    BY <1>0, <1>8 DEF Update, TypeOK
  <2>9. Turn(t)'
    BY <1>0, <1>8, <2>8 DEF Update, Turn, Serving, Writing, browser
  <2> QED
    BY <2>3, <2>4, <2>7, <2>9
<1>9. CASE Crash(t)
  BY <1>0, <1>9, AnswerTurn DEF Crash
<1> QED
  BY <1>1, <1>2, <1>3, <1>5, <1>6, <1>7, <1>8, <1>9

LEMMA NextTurnInv ==
  ASSUME TurnInv, Overlap = FALSE, [Next]_vars
  PROVE  TurnInv'
<1>1. KeyInv'
  BY NextKeyInv DEF TurnInv
<1>2. ASSUME NEW t \in Tabs, Start(t) \/ Step(t) \/ Drop(t) \/ Crash(t)
      PROVE  TurnInv'
  <2>1. \A u \in Tabs : u # t => ~Busy(u)' /\ tab'[u] = tab[u]
    BY <1>2, OthersIdle
  <2>2. Alone'
    BY <2>1 DEF Alone
  <2>3. /\ Busy(t)' => Turn(t)'
        /\ Begun' /\ OffsetBacked' /\ KeyKept' /\ DoneIsComplete'
    <3>1. CASE Start(t) \/ Generate(t) \/ ReadStatus(t) \/ Send(t) \/ Drop(t)
      BY <1>1, <2>1, <3>1, BrowserTurn
    <3>2. CASE \/ Begin(t) \/ Check(t) \/ LookStale(t) \/ Truncate(t)
               \/ OpenFile(t) \/ WriteChunk(t) \/ Update(t) \/ Crash(t)
      BY <1>1, <2>1, <3>2, RequestTurn
    <3> QED
      BY <1>2, <3>1, <3>2 DEF Step
  <2> QED
    BY <1>1, <2>1, <2>2, <2>3 DEF TurnInv
<1>3. CASE UNCHANGED vars
  BY <1>1, <1>3 DEF vars, row, browser, TurnInv, Alone, Busy, Working, Serving, Turn, Begun,
     OffsetBacked, KeyKept, DoneIsComplete
<1> QED
  BY <1>2, <1>3 DEF Next

\* Uploads in turn: whatever is closed, lost or stopped between the write and
\* the update, the offset never runs ahead of the store, the key of the
\* ciphertext stays in a browser, and done means complete.
THEOREM UploadsInTurn ==
  ASSUME Overlap = FALSE
  PROVE  Spec => [](OffsetBacked /\ KeyKept /\ DoneIsComplete)
<1>1. Init => TurnInv
  BY InitTurnInv
<1>2. TurnInv /\ [Next]_vars => TurnInv'
  BY NextTurnInv
<1>3. TurnInv => OffsetBacked /\ KeyKept /\ DoneIsComplete
  BY DEF TurnInv
<1> QED
  BY <1>1, <1>2, <1>3, PTL DEF Spec

-----------------------------------------------------------------------------
(* Traces.                                                                 *)

\* Calls belong to messages, and stand in the order of the messages.
InOrder(t) ==
  \A k \in DOMAIN t.calls :
    /\ t.calls[k].of \in 1..Len(t.roles)
    /\ \A j \in 1..k : t.calls[j].of <= t.calls[k].of

\* Of an event log, they belong to messages of the assistant.
ByAssistant(t) == \A k \in DOMAIN t.calls : t.roles[t.calls[k].of] = "assistant"

\* The trace has the calls, the open ones and the failed ones that were counted.
Accounts(t, n) ==
  /\ Len(t.calls) = n.calls
  /\ Cardinality(Failed(t)) = n.failed
  /\ Cardinality(Unanswered(t, Len(t.roles))) = n.open

\* The calls of the entry being read are open, and as many as were counted.
Own(t) == {k \in DOMAIN t.calls : t.calls[k].of = Len(t.roles)}

OwnAccounts(t, n) ==
  /\ \A k \in Own(t) : t.calls[k].ok = None
  /\ Cardinality(Own(t)) = n.own

\* Lines that carry nothing.
Quiet(line) == line.by = "any" \/ line.kind = "end"

\* The file is of one tool, as far as it carries anything.
Clean(f) == HermesAlone /\ \A i \in DOMAIN file : file[i].by = f \/ Quiet(file[i])

At(kind) == file # <<>> /\ file[Len(file)].kind = kind

Agrees(f) ==
  ~read[f].refused /\ Clean(f) =>
    /\ Accounts(read[f], tally)
    /\ At("entry") => OwnAccounts(read[f], tally)

\* A line that takes blocks has made a message.
Speaking(f) ==
  (At("entry") \/ At("conversation")) /\ Reads(f, Len(file), file[Len(file)]) => read[f].roles # <<>>

ReadInv ==
  /\ TracesTypeOK
  /\ \A f \in Formats : InOrder(read[f]) /\ Agrees(f) /\ Speaking(f)
  /\ \A f \in {"openclaw", "codex"} : ByAssistant(read[f])

-----------------------------------------------------------------------------
(* What the helpers of the parsers do to a trace.                          *)

CallTypes == [of : Nat, name : Names, ok : BOOLEAN \cup {None}]

\* The parts of a trace.
LEMMA TraceFields ==
  ASSUME NEW t \in Traces
  PROVE  /\ t.roles \in Seq(Roles) /\ Len(t.roles) \in Nat /\ DOMAIN t.roles = 1..Len(t.roles)
         /\ t.calls \in Seq(CallTypes) /\ Len(t.calls) \in Nat /\ DOMAIN t.calls = 1..Len(t.calls)
         /\ \A k \in DOMAIN t.calls :
              /\ t.calls[k] \in CallTypes /\ t.calls[k].of \in Nat
              /\ t.calls[k].name \in Names /\ t.calls[k].ok \in BOOLEAN \cup {None}
         /\ t.outcome \in Outcomes /\ t.refused \in BOOLEAN
<1>1. t.roles \in Seq(Roles) /\ t.calls \in Seq(CallTypes) /\ t.outcome \in Outcomes /\ t.refused \in BOOLEAN
  BY DEF Traces, CallTypes
<1>2. \A k \in DOMAIN t.calls : t.calls[k] \in CallTypes
  BY <1>1
<1> QED
  BY <1>1, <1>2 DEF CallTypes

\* An element joins the end of a sequence.
LEMMA AppendIs ==
  ASSUME NEW S, NEW s \in Seq(S), NEW x \in S
  PROVE  /\ Append(s, x) \in Seq(S) /\ Len(Append(s, x)) = Len(s) + 1
         /\ DOMAIN Append(s, x) = DOMAIN s \cup {Len(s) + 1} /\ DOMAIN Append(s, x) = 1..Len(s) + 1
         /\ Append(s, x)[Len(s) + 1] = x
         /\ \A k \in DOMAIN s : k <= Len(s) /\ Append(s, x)[k] = s[k]
  OBVIOUS

\* A parser that throws keeps the messages it made: nobody reads them.
LEMMA RefuseIs ==
  ASSUME NEW t \in Traces
  PROVE  Refuse(t) \in Traces /\ Refuse(t).refused /\ Refuse(t).roles = t.roles /\ Refuse(t).calls = t.calls
  BY DEF Traces, Refuse

\* The outcome changes nothing else.
LEMMA EndedIs ==
  ASSUME NEW t \in Traces, NEW outcome \in Outcomes
  PROVE  /\ Ended(t, outcome) \in Traces /\ Ended(t, outcome).refused = t.refused
         /\ Ended(t, outcome).roles = t.roles /\ Ended(t, outcome).calls = t.calls
  BY DEF Traces, Ended

\* A message joins the end.
LEMMA SaidIs ==
  ASSUME NEW t \in Traces, NEW role \in Roles
  PROVE  /\ Said(t, role) \in Traces
         /\ Said(t, role).calls = t.calls /\ Said(t, role).refused = t.refused
         /\ Said(t, role).roles = Append(t.roles, role)
<1>1. role # None
  BY TracesAssumption
<1>2. Append(t.roles, role) \in Seq(Roles)
  BY TraceFields, AppendIs
<1>3. [t EXCEPT !.roles = Append(t.roles, role)] \in Traces
  BY <1>2 DEF Traces
<1> QED
  BY <1>1, <1>3 DEF Said, Traces

\* A call joins the end of the list.
LEMMA CalledIs ==
  ASSUME NEW t \in Traces, NEW of \in Nat, NEW name \in Names
  PROVE  /\ Called(t, of, name) \in Traces
         /\ Called(t, of, name).roles = t.roles /\ Called(t, of, name).refused = t.refused
         /\ Called(t, of, name).calls = Append(t.calls, [of |-> of, name |-> name, ok |-> None])
<1>1. [of |-> of, name |-> name, ok |-> None] \in CallTypes
  BY DEF CallTypes
<1>2. Append(t.calls, [of |-> of, name |-> name, ok |-> None]) \in Seq(CallTypes)
  BY <1>1, TraceFields, AppendIs
<1> QED
  BY <1>2 DEF Called, Traces, CallTypes

\* The last of a bounded set of numbers that is not empty.
LEMMA LatestIn ==
  ASSUME NEW n \in Nat, NEW S \in SUBSET (1..n), S # {}
  PROVE  Latest(S) \in S /\ \A j \in S : j <= Latest(S)
<1> DEFINE T == {n - k : k \in S}
<1>0. \A j \in S : j \in Nat /\ n - j \in Nat /\ n - j \in T
  <2>1. \A j \in 1..n : j \in Nat /\ n - j \in Nat
    OBVIOUS
  <2>2. \A j \in S : n - j \in T
    BY Zenon
  <2> QED
    BY <2>1, <2>2
<1>1. T \in SUBSET Nat /\ T # {}
  BY <1>0
<1>2. PICK m \in T : \A j \in T : ~(<<j, m>> \in OpToRel(<, Nat))
  <2> HIDE DEF T
  <2> QED
    BY <1>1, NatLessThanWellFounded, WFMin
<1>3. \A x, y \in Nat : y < x => <<y, x>> \in OpToRel(<, Nat)
  BY Zenon DEF OpToRel
<1>4. \A j \in T : ~(j < m)
  <2> HIDE DEF T
  <2> QED
    BY <1>1, <1>2, <1>3
<1>5. PICK k \in S : m = n - k
  OBVIOUS
<1>6. ASSUME NEW j \in S
      PROVE  j <= k
  <2>1. ~(n - j < n - k)
    BY <1>0, <1>4, <1>5
  <2> QED
    BY <1>0, <1>5, <2>1
<1> QED
  BY <1>6, Zenon DEF Latest

\* A result changes one call that was open, or nothing.
LEMMA MarkIs ==
  ASSUME NEW t \in Traces, NEW n \in Int, NEW ok \in BOOLEAN
  PROVE  /\ Mark(t, n, ok) \in Traces
         /\ Mark(t, n, ok).roles = t.roles /\ Mark(t, n, ok).refused = t.refused
         /\ Len(Mark(t, n, ok).calls) = Len(t.calls)
         /\ \A k \in DOMAIN t.calls : Mark(t, n, ok).calls[k].of = t.calls[k].of
         /\ \/ Unanswered(t, n) = {} /\ Mark(t, n, ok) = t
            \/ \E k \in Unanswered(t, n) :
                 /\ Mark(t, n, ok).calls[k].ok = ok
                 /\ \A j \in DOMAIN t.calls : j # k => Mark(t, n, ok).calls[j] = t.calls[j]
<1>1. CASE Unanswered(t, n) = {}
  BY <1>1 DEF Mark
<1>2. CASE Unanswered(t, n) # {}
  <2>1. Unanswered(t, n) \in SUBSET (1..Len(t.calls)) /\ Len(t.calls) \in Nat
    BY TraceFields DEF Unanswered
  <2>2. PICK k : k = Latest(Unanswered(t, n))
    OBVIOUS
  <2>3. k \in Unanswered(t, n) /\ k \in 1..Len(t.calls)
    BY <1>2, <2>1, <2>2, LatestIn
  <2>4. PICK c : c = [t.calls EXCEPT ![k].ok = ok]
    OBVIOUS
  <2>5. /\ c \in Seq(CallTypes) /\ Len(c) = Len(t.calls)
        /\ c[k].ok = ok /\ c[k].of = t.calls[k].of
        /\ \A j \in DOMAIN t.calls : j # k => c[j] = t.calls[j]
    <3>1. t.calls \in Seq(CallTypes) /\ t.calls[k] \in CallTypes /\ DOMAIN t.calls = 1..Len(t.calls)
      BY <2>3, TraceFields
    <3>2. PICK x : x = [t.calls[k] EXCEPT !.ok = ok]
      OBVIOUS
    <3>3. x \in CallTypes /\ x.ok = ok /\ x.of = t.calls[k].of
      BY <3>1, <3>2 DEF CallTypes
    <3>4. c = [t.calls EXCEPT ![k] = x]
      BY <2>4, <3>2
    <3> QED
      BY <2>3, <3>1, <3>3, <3>4
  <2>6. Mark(t, n, ok) = [t EXCEPT !.calls = c]
    BY <1>2, <2>2, <2>4 DEF Mark
  <2>7. /\ [t EXCEPT !.calls = c] \in Traces /\ [t EXCEPT !.calls = c].calls = c
        /\ [t EXCEPT !.calls = c].roles = t.roles /\ [t EXCEPT !.calls = c].refused = t.refused
    BY <2>5 DEF Traces, CallTypes
  <2> QED
    BY <2>3, <2>5, <2>6, <2>7
<1> QED
  BY <1>1, <1>2

-----------------------------------------------------------------------------
(* What they do to the sets that are counted.                              *)

\* What is counted is finite.
LEMMA SetsFinite ==
  ASSUME NEW t \in Traces, NEW n
  PROVE  /\ IsFiniteSet(Failed(t)) /\ Cardinality(Failed(t)) \in Nat
         /\ IsFiniteSet(Unanswered(t, n)) /\ Cardinality(Unanswered(t, n)) \in Nat
         /\ IsFiniteSet(Own(t)) /\ Cardinality(Own(t)) \in Nat
<1>1. Len(t.calls) \in Nat /\ DOMAIN t.calls = 1..Len(t.calls)
  BY TraceFields
<1>2. IsFiniteSet(1..Len(t.calls))
  BY <1>1, FS_Interval
<1>3. \A S \in SUBSET (1..Len(t.calls)) : IsFiniteSet(S)
  BY <1>2, FS_Subset
<1>4. Failed(t) \subseteq 1..Len(t.calls) /\ Unanswered(t, n) \subseteq 1..Len(t.calls) /\ Own(t) \subseteq 1..Len(t.calls)
  BY <1>1 DEF Failed, Unanswered, Own
<1> QED
  BY <1>3, <1>4, FS_CardinalityType

\* A new message has no calls: it opens, answers and fails none.
LEMMA SaidSets ==
  ASSUME NEW t \in Traces, InOrder(t), NEW role \in Roles
  PROVE  /\ InOrder(Said(t, role)) /\ (ByAssistant(t) => ByAssistant(Said(t, role)))
         /\ Failed(Said(t, role)) = Failed(t)
         /\ Unanswered(Said(t, role), Len(Said(t, role).roles)) = Unanswered(t, Len(t.roles))
         /\ Own(Said(t, role)) = {}
         /\ Said(t, role).roles # <<>>
<1>1. PICK u : u = Said(t, role)
  OBVIOUS
<1>2. u.calls = t.calls /\ u.roles = Append(t.roles, role)
  BY <1>1, SaidIs
<1>3. /\ t.roles \in Seq(Roles) /\ Len(t.roles) \in Nat /\ DOMAIN t.roles = 1..Len(t.roles)
      /\ DOMAIN t.calls = 1..Len(t.calls) /\ \A k \in DOMAIN t.calls : t.calls[k].of \in Nat
  BY TraceFields
<1>4. Len(u.roles) = Len(t.roles) + 1 /\ \A i \in 1..Len(t.roles) : u.roles[i] = t.roles[i]
  BY <1>2, <1>3, AppendIs
<1>5. \A k \in DOMAIN t.calls : t.calls[k].of \in 1..Len(t.roles)
  BY DEF InOrder
<1>6. InOrder(u)
  BY <1>2, <1>3, <1>4, <1>5 DEF InOrder
<1>7. ByAssistant(t) => ByAssistant(u)
  BY <1>2, <1>4, <1>5 DEF ByAssistant
<1>8. Failed(u) = Failed(t)
  BY <1>2 DEF Failed
<1>9. Unanswered(u, Len(u.roles)) = Unanswered(t, Len(t.roles))
  BY <1>2, <1>3, <1>4, <1>5 DEF Unanswered
<1>10. Own(u) = {}
  BY <1>2, <1>3, <1>4, <1>5 DEF Own
<1>11. u.roles # <<>>
  BY <1>3, <1>4
<1> QED
  BY <1>1, <1>6, <1>7, <1>8, <1>9, <1>10, <1>11

\* A call of the last message that has any opens one call, and keeps the order.
LEMMA CalledSets ==
  ASSUME NEW t \in Traces, InOrder(t), NEW of \in 1..Len(t.roles), NEW name \in Names,
         \A k \in DOMAIN t.calls : t.calls[k].of <= of
  PROVE  /\ InOrder(Called(t, of, name))
         /\ ByAssistant(t) /\ t.roles[of] = "assistant" => ByAssistant(Called(t, of, name))
         /\ Len(Called(t, of, name).calls) = Len(t.calls) + 1
         /\ Failed(Called(t, of, name)) = Failed(t)
         /\ Unanswered(Called(t, of, name), Len(t.roles)) = Unanswered(t, Len(t.roles)) \cup {Len(t.calls) + 1}
         /\ Len(t.calls) + 1 \notin Unanswered(t, Len(t.roles)) /\ Len(t.calls) + 1 \notin Own(t)
         /\ of = Len(t.roles) => /\ Own(Called(t, of, name)) = Own(t) \cup {Len(t.calls) + 1}
                                 /\ \A k \in Own(t) : t.calls[k].ok = None
                                      => Called(t, of, name).calls[k].ok = None
         /\ Called(t, of, name).calls[Len(t.calls) + 1].ok = None
<1>1. PICK u, new, c : u = Called(t, of, name) /\ new = Len(t.calls) + 1 /\ c = [of |-> of, name |-> name, ok |-> None]
  OBVIOUS
<1>2. /\ t.calls \in Seq(CallTypes) /\ Len(t.calls) \in Nat /\ DOMAIN t.calls = 1..Len(t.calls) /\ Len(t.roles) \in Nat
      /\ \A k \in DOMAIN t.calls : t.calls[k].of \in Nat
  BY TraceFields
<1>3. c \in CallTypes /\ c.of = of /\ c.ok = None /\ of \in Nat
  BY <1>1, <1>2 DEF CallTypes
<1>4. u.roles = t.roles /\ u.calls = Append(t.calls, c)
  BY <1>1, <1>3, CalledIs
<1>5. /\ Len(u.calls) = new /\ DOMAIN u.calls = DOMAIN t.calls \cup {new} /\ u.calls[new] = c
      /\ \A k \in DOMAIN t.calls : u.calls[k] = t.calls[k]
  BY <1>1, <1>2, <1>3, <1>4, AppendIs
<1>6. new \notin DOMAIN t.calls /\ new \in Nat /\ \A k \in DOMAIN t.calls : 1..k \subseteq DOMAIN t.calls
  BY <1>1, <1>2
<1>7. InOrder(u)
  <2>1. \A k \in DOMAIN t.calls : u.calls[k].of \in 1..Len(u.roles) /\ \A j \in 1..k : u.calls[j].of <= u.calls[k].of
    BY <1>4, <1>5, <1>6 DEF InOrder
  <2>2. u.calls[new].of \in 1..Len(u.roles)
    BY <1>3, <1>4, <1>5
  <2>3. \A j \in 1..new : j \in DOMAIN t.calls \/ j = new
    BY <1>1, <1>2
  <2>4. \A j \in 1..new : u.calls[j].of <= u.calls[new].of
    BY <1>3, <1>5, <2>3
  <2> QED
    BY <1>5, <2>1, <2>2, <2>4 DEF InOrder
<1>8. ByAssistant(t) /\ t.roles[of] = "assistant" => ByAssistant(u)
  BY <1>3, <1>4, <1>5 DEF ByAssistant
<1>9. None # FALSE
  BY TracesAssumption
<1>10. Failed(u) = Failed(t)
  BY <1>3, <1>5, <1>6, <1>9 DEF Failed
<1>11. Unanswered(u, Len(t.roles)) = Unanswered(t, Len(t.roles)) \cup {new}
  BY <1>2, <1>3, <1>5, <1>6 DEF Unanswered
<1>12. new \notin Unanswered(t, Len(t.roles)) /\ new \notin Own(t)
  BY <1>6 DEF Unanswered, Own
<1>13. of = Len(t.roles) => Own(u) = Own(t) \cup {new}
  BY <1>3, <1>4, <1>5, <1>6 DEF Own
<1>14. \A k \in Own(t) : t.calls[k].ok = None => u.calls[k].ok = None
  BY <1>5 DEF Own
<1> QED
  BY <1>1, <1>3, <1>5, <1>7, <1>8, <1>10, <1>11, <1>12, <1>13, <1>14

\* A result closes one open call, and fails it or not.
LEMMA MarkSets ==
  ASSUME NEW t \in Traces, InOrder(t), NEW n \in Int, NEW ok \in BOOLEAN
  PROVE  /\ InOrder(Mark(t, n, ok)) /\ (ByAssistant(t) => ByAssistant(Mark(t, n, ok)))
         /\ Len(Mark(t, n, ok).calls) = Len(t.calls)
         /\ Own(Mark(t, n, ok)) = Own(t)
         /\ n < Len(t.roles) => \A k \in Own(t) : Mark(t, n, ok).calls[k].ok = t.calls[k].ok
         /\ \/ Unanswered(t, n) = {} /\ Mark(t, n, ok) = t
            \/ \E k \in Unanswered(t, n) :
                 /\ k \notin Failed(t)
                 /\ Failed(Mark(t, n, ok)) = Failed(t) \cup (IF ok THEN {} ELSE {k})
                 /\ \A m : Unanswered(Mark(t, n, ok), m) = Unanswered(t, m) \ {k}
<1>1. PICK u : u = Mark(t, n, ok)
  OBVIOUS
<1>0. \/ Unanswered(t, n) = {} /\ Mark(t, n, ok) = t
      \/ \E k \in Unanswered(t, n) :
           /\ Mark(t, n, ok).calls[k].ok = ok
           /\ \A j \in DOMAIN t.calls : j # k => Mark(t, n, ok).calls[j] = t.calls[j]
  BY MarkIs
<1>2. /\ u \in Traces /\ u.roles = t.roles /\ Len(u.calls) = Len(t.calls)
      /\ \A k \in DOMAIN t.calls : u.calls[k].of = t.calls[k].of
      /\ \/ Unanswered(t, n) = {} /\ u = t
         \/ \E k \in Unanswered(t, n) :
              u.calls[k].ok = ok /\ \A j \in DOMAIN t.calls : j # k => u.calls[j] = t.calls[j]
  BY <1>0, <1>1, MarkIs
<1>3. /\ DOMAIN t.calls = 1..Len(t.calls) /\ DOMAIN u.calls = DOMAIN t.calls /\ Len(t.calls) \in Nat
      /\ Len(t.roles) \in Nat
  BY <1>2, TraceFields
<1>4. InOrder(u)
  <2>1. \A k \in DOMAIN t.calls : \A j \in 1..k : j \in DOMAIN t.calls
    BY <1>3
  <2> QED
    BY <1>2, <1>3, <2>1 DEF InOrder
<1>5. ByAssistant(t) => ByAssistant(u)
  BY <1>2, <1>3 DEF ByAssistant
<1>6. Own(u) = Own(t)
  BY <1>2, <1>3 DEF Own
<1>7. n < Len(t.roles) => \A k \in Own(t) : u.calls[k].ok = t.calls[k].ok
  <2>1. \A k \in Own(t) : k \in DOMAIN t.calls /\ t.calls[k].of = Len(t.roles)
    BY DEF Own
  <2>2. \A k \in Unanswered(t, n) : t.calls[k].of <= n
    BY DEF Unanswered
  <2> QED
    BY <1>2, <1>3, <2>1, <2>2
<1>8. ASSUME NEW k \in Unanswered(t, n), u.calls[k].ok = ok,
             \A j \in DOMAIN t.calls : j # k => u.calls[j] = t.calls[j]
      PROVE  /\ k \notin Failed(t)
             /\ Failed(u) = Failed(t) \cup (IF ok THEN {} ELSE {k})
             /\ \A m : Unanswered(u, m) = Unanswered(t, m) \ {k}
  <2>1. None # FALSE /\ None # TRUE
    BY TracesAssumption
  <2>2. k \in DOMAIN t.calls /\ t.calls[k].ok = None
    BY DEF Unanswered
  <2>3. k \notin Failed(t)
    BY <2>1, <2>2 DEF Failed
  <2>4. CASE ok = TRUE
    <3>1. Failed(u) = Failed(t)
      BY <1>3, <1>8, <2>1, <2>2, <2>4 DEF Failed
    <3>2. ASSUME NEW m
          PROVE  Unanswered(u, m) = Unanswered(t, m) \ {k}
      <4>1. \A j \in DOMAIN t.calls : u.calls[j].ok = None /\ u.calls[j].of <= m
                                      <=> j # k /\ t.calls[j].ok = None /\ t.calls[j].of <= m
        BY <1>2, <1>8, <2>1, <2>2, <2>4
      <4> QED
        BY <1>3, <4>1 DEF Unanswered
    <3> QED
      BY <2>3, <2>4, <3>1, <3>2
  <2>5. CASE ok = FALSE
    <3>1. Failed(u) = Failed(t) \cup {k}
      BY <1>3, <1>8, <2>1, <2>2, <2>5 DEF Failed
    <3>2. ASSUME NEW m
          PROVE  Unanswered(u, m) = Unanswered(t, m) \ {k}
      <4>1. \A j \in DOMAIN t.calls : u.calls[j].ok = None /\ u.calls[j].of <= m
                                      <=> j # k /\ t.calls[j].ok = None /\ t.calls[j].of <= m
        BY <1>2, <1>8, <2>1, <2>2, <2>5
      <4> QED
        BY <1>3, <4>1 DEF Unanswered
    <3> QED
      BY <2>3, <2>5, <3>1, <3>2
  <2> QED
    BY <2>4, <2>5
<1> QED
  BY <1>1, <1>2, <1>4, <1>5, <1>6, <1>7, <1>8

-----------------------------------------------------------------------------
(* The accounts stay balanced.                                             *)

\* Counting keeps the type: no count falls below zero.
LEMMA CountedTyped ==
  ASSUME NEW n \in Tallies, NEW x \in LineTypes \cup BlockTypes
  PROVE  Counted(n, x) \in Tallies
<1>1. n.calls \in Nat /\ n.left \in Nat /\ n.open \in Nat /\ n.own \in Nat /\ n.failed \in Nat
  BY DEF Tallies
<1>2. CASE x.kind \in {"call", "embedded"}
  <2>1. CASE PassedOver(x)
    <3>1. Counted(n, x) = [n EXCEPT !.left = n.left + 1]
      BY <1>2, <2>1 DEF Counted
    <3> QED
      BY <1>1, <3>1 DEF Tallies
  <2>2. CASE ~PassedOver(x)
    <3>1. Counted(n, x) = [calls |-> n.calls + 1, left |-> n.left, open |-> n.open + 1, own |-> n.own + 1,
                           failed |-> n.failed]
      BY <1>2, <2>2 DEF Counted, Tallies
    <3> QED
      BY <1>1, <3>1 DEF Tallies
  <2> QED
    BY <2>1, <2>2
<1>3. CASE x.kind = "result" /\ n.open > n.own
  <2>1. n.open - 1 \in Nat
    BY <1>1, <1>3
  <2>2. PICK add \in Nat : add = IF x.ok THEN 0 ELSE 1
    OBVIOUS
  <2>3. Counted(n, x) = [n EXCEPT !.open = n.open - 1, !.failed = n.failed + add]
    BY <1>3, <2>2 DEF Counted
  <2>4. n.failed + add \in Nat
    BY <1>1
  <2>5. [n EXCEPT !.open = n.open - 1, !.failed = n.failed + add] \in Tallies
    BY <2>1, <2>4 DEF Tallies
  <2> QED
    BY <2>3, <2>5
<1>4. CASE x.kind \notin {"call", "embedded"} /\ ~(x.kind = "result" /\ n.open > n.own)
  BY <1>4 DEF Counted
<1> QED
  BY <1>2, <1>3, <1>4

\* A new line has no calls of its own yet.
LEMMA OwnReset ==
  ASSUME NEW n \in Tallies
  PROVE  /\ [n EXCEPT !.own = 0] \in Tallies /\ [n EXCEPT !.own = 0].own = 0
         /\ [n EXCEPT !.own = 0].open = n.open /\ [n EXCEPT !.own = 0].calls = n.calls
         /\ [n EXCEPT !.own = 0].failed = n.failed
         /\ \A t : Accounts(t, n) => Accounts(t, [n EXCEPT !.own = 0])
  BY DEF Tallies, Accounts

\* A call that is passed over leaves the accounts as they are.
LEMMA LeftAccounts ==
  ASSUME NEW n \in Tallies, NEW x, x.kind \in {"call", "embedded"}, PassedOver(x)
  PROVE  \A t : Accounts(t, n) => Accounts(t, Counted(n, x))
  BY DEF Tallies, Accounts, Counted

\* Messages are not counted.
LEMMA SaidAccounts ==
  ASSUME NEW t \in Traces, InOrder(t), NEW role \in Roles, NEW n, Accounts(t, n)
  PROVE  Accounts(Said(t, role), n)
  BY SaidIs, SaidSets DEF Accounts

\* A call is counted, open, and the entry's own.
LEMMA CalledAccounts ==
  ASSUME NEW t \in Traces, InOrder(t), NEW n \in Tallies, Accounts(t, n),
         NEW of \in 1..Len(t.roles), \A k \in DOMAIN t.calls : t.calls[k].of <= of,
         NEW x, x.kind \in {"call", "embedded"}, x.name \in Names, ~PassedOver(x)
  PROVE  /\ Accounts(Called(t, of, x.name), Counted(n, x))
         /\ of = Len(t.roles) /\ OwnAccounts(t, n) => OwnAccounts(Called(t, of, x.name), Counted(n, x))
<1>1. PICK u, new : u = Called(t, of, x.name) /\ new = Len(t.calls) + 1
  OBVIOUS
<1>2. PICK m : m = Counted(n, x)
  OBVIOUS
<1>9. m.calls = n.calls + 1 /\ m.open = n.open + 1 /\ m.own = n.own + 1 /\ m.failed = n.failed
  BY <1>2 DEF Counted, Tallies
<1>3. /\ Len(u.calls) = new /\ Failed(u) = Failed(t)
      /\ Unanswered(u, Len(t.roles)) = Unanswered(t, Len(t.roles)) \cup {new}
      /\ new \notin Unanswered(t, Len(t.roles)) /\ new \notin Own(t)
      /\ of = Len(t.roles) => /\ Own(u) = Own(t) \cup {new}
                              /\ \A k \in Own(t) : t.calls[k].ok = None => u.calls[k].ok = None
      /\ u.calls[new].ok = None
  BY <1>1, CalledSets
<1>4. u.roles = t.roles
  <2>1. of \in Nat
    BY TraceFields
  <2> QED
    BY <1>1, <2>1, CalledIs
<1>5. /\ IsFiniteSet(Unanswered(t, Len(t.roles))) /\ IsFiniteSet(Own(t))
      /\ Cardinality(Unanswered(t, Len(t.roles))) \in Nat /\ Cardinality(Own(t)) \in Nat
  BY SetsFinite
<1>6. Cardinality(Unanswered(u, Len(u.roles))) = Cardinality(Unanswered(t, Len(t.roles))) + 1
  BY <1>3, <1>4, <1>5, FS_AddElement
<1>7. Accounts(u, Counted(n, x))
  BY <1>1, <1>2, <1>3, <1>6, <1>9 DEF Accounts
<1>8. ASSUME of = Len(t.roles), OwnAccounts(t, n)
      PROVE  OwnAccounts(u, Counted(n, x))
  <2>1. Cardinality(Own(u)) = Cardinality(Own(t)) + 1
    BY <1>3, <1>5, <1>8, FS_AddElement
  <2>2. \A k \in Own(u) : u.calls[k].ok = None
    BY <1>3, <1>8 DEF OwnAccounts
  <2> QED
    BY <1>2, <1>8, <1>9, <2>1, <2>2 DEF OwnAccounts
<1> QED
  BY <1>1, <1>7, <1>8

\* A result finds an open call exactly if one is counted.
LEMMA OpenBefore ==
  ASSUME NEW t \in Traces, InOrder(t), NEW n \in Tallies, Accounts(t, n), OwnAccounts(t, n)
  PROVE  Unanswered(t, Len(t.roles) - 1) # {} <=> n.open > n.own
<1>1. PICK before, all : before = Unanswered(t, Len(t.roles) - 1) /\ all = Unanswered(t, Len(t.roles))
  OBVIOUS
<1>2. Len(t.roles) \in Nat /\ \A k \in DOMAIN t.calls : t.calls[k].of \in Nat
  BY TraceFields
<1>3. \A k \in DOMAIN t.calls : t.calls[k].of <= Len(t.roles)
                                 <=> t.calls[k].of <= Len(t.roles) - 1 \/ t.calls[k].of = Len(t.roles)
  BY <1>2
<1>4. all = before \cup Own(t)
  BY <1>1, <1>3 DEF Unanswered, Own, OwnAccounts
<1>5. before \cap Own(t) = {}
  BY <1>1, <1>2 DEF Unanswered, Own
<1>6. IsFiniteSet(before) /\ IsFiniteSet(Own(t)) /\ Cardinality(before) \in Nat /\ Cardinality(Own(t)) \in Nat
  BY <1>1, SetsFinite
<1>7. Cardinality(all) = Cardinality(before) + Cardinality(Own(t)) - Cardinality(before \cap Own(t))
  BY <1>4, <1>6, FS_Union
<1>8. Cardinality(before \cap Own(t)) = 0
  BY <1>5, FS_EmptySet
<1>9. Cardinality(before) = 0 <=> before = {}
  BY <1>6, FS_EmptySet
<1>10. Cardinality(all) = n.open /\ Cardinality(Own(t)) = n.own
  BY <1>1 DEF Accounts, OwnAccounts
<1> QED
  BY <1>1, <1>6, <1>7, <1>8, <1>9, <1>10

\* A result is counted if and only if it finds an open call.
LEMMA MarkAccounts ==
  ASSUME NEW t \in Traces, InOrder(t), NEW n \in Tallies, Accounts(t, n),
         NEW m \in Int, m <= Len(t.roles), Unanswered(t, m) # {} <=> n.open > n.own,
         NEW x, x.kind = "result", x.ok \in BOOLEAN
  PROVE  /\ Accounts(Mark(t, m, x.ok), Counted(n, x))
         /\ m < Len(t.roles) /\ OwnAccounts(t, n) => OwnAccounts(Mark(t, m, x.ok), Counted(n, x))
<1>1. PICK u : u = Mark(t, m, x.ok)
  OBVIOUS
<1>2. /\ Len(u.calls) = Len(t.calls) /\ Own(u) = Own(t) /\ u.roles = t.roles
      /\ m < Len(t.roles) => \A k \in Own(t) : u.calls[k].ok = t.calls[k].ok
  BY <1>1, MarkIs, MarkSets
<1>3. \/ Unanswered(t, m) = {} /\ u = t
      \/ \E k \in Unanswered(t, m) :
           /\ k \notin Failed(t)
           /\ Failed(u) = Failed(t) \cup (IF x.ok THEN {} ELSE {k})
           /\ \A l : Unanswered(u, l) = Unanswered(t, l) \ {k}
  <2>1. \/ Unanswered(t, m) = {} /\ Mark(t, m, x.ok) = t
        \/ \E k \in Unanswered(t, m) :
             /\ k \notin Failed(t)
             /\ Failed(Mark(t, m, x.ok)) = Failed(t) \cup (IF x.ok THEN {} ELSE {k})
             /\ \A l : Unanswered(Mark(t, m, x.ok), l) = Unanswered(t, l) \ {k}
    BY MarkSets
  <2> QED
    BY <1>1, <2>1
<1>4. CASE Unanswered(t, m) = {}
  <2>1. u = t
    BY <1>3, <1>4
  <2>2. Counted(n, x) = n
    BY <1>4 DEF Counted
  <2> QED
    BY <1>1, <2>1, <2>2
<1>5. CASE Unanswered(t, m) # {}
  <2>1. PICK k \in Unanswered(t, m) :
          /\ k \notin Failed(t)
          /\ Failed(u) = Failed(t) \cup (IF x.ok THEN {} ELSE {k})
          /\ \A l : Unanswered(u, l) = Unanswered(t, l) \ {k}
    BY <1>3, <1>5
  <2>2. PICK add \in Nat : add = IF x.ok THEN 0 ELSE 1
    OBVIOUS
  <2>3. Counted(n, x) = [n EXCEPT !.open = n.open - 1, !.failed = n.failed + add]
    BY <1>5, <2>2 DEF Counted
  <2>4. /\ Counted(n, x).calls = n.calls /\ Counted(n, x).own = n.own
        /\ Counted(n, x).open = n.open - 1 /\ Counted(n, x).failed = n.failed + add
    BY <2>3 DEF Tallies
  <2>5. k \in Unanswered(t, Len(t.roles))
    <3>1. \A i \in DOMAIN t.calls : t.calls[i].of \in Nat
      BY TraceFields
    <3>2. Len(t.roles) \in Nat
      BY TraceFields
    <3> QED
      BY <3>1, <3>2 DEF Unanswered
  <2>6. /\ IsFiniteSet(Failed(t)) /\ Cardinality(Failed(t)) \in Nat
        /\ IsFiniteSet(Unanswered(t, Len(t.roles))) /\ Cardinality(Unanswered(t, Len(t.roles))) \in Nat
    BY SetsFinite
  <2>7. Cardinality(Failed(u)) = Cardinality(Failed(t)) + add
    <3>1. CASE x.ok = TRUE
      <4>1. Failed(u) = Failed(t)
        BY <2>1, <3>1
      <4> QED
        BY <2>2, <2>6, <3>1, <4>1
    <3>2. CASE x.ok = FALSE
      <4>1. Failed(u) = Failed(t) \cup {k}
        BY <2>1, <3>2
      <4>2. Cardinality(Failed(t) \cup {k}) = Cardinality(Failed(t)) + 1
        BY <2>1, <2>6, FS_AddElement
      <4> QED
        BY <2>2, <3>2, <4>1, <4>2
    <3> QED
      BY <3>1, <3>2
  <2>8. Cardinality(Unanswered(u, Len(u.roles))) = Cardinality(Unanswered(t, Len(t.roles))) - 1
    <3>1. Unanswered(u, Len(u.roles)) = Unanswered(t, Len(t.roles)) \ {k}
      BY <1>2, <2>1
    <3>2. PICK open : open = Unanswered(t, Len(t.roles))
      OBVIOUS
    <3>3. Cardinality(open \ {k}) = Cardinality(open) - 1
      BY <2>5, <2>6, <3>2, FS_RemoveElement
    <3> QED
      BY <3>1, <3>2, <3>3
  <2>9. Accounts(u, Counted(n, x))
    BY <1>2, <2>4, <2>7, <2>8 DEF Accounts
  <2>10. m < Len(t.roles) /\ OwnAccounts(t, n) => OwnAccounts(u, Counted(n, x))
    BY <1>2, <2>4 DEF OwnAccounts
  <2> QED
    BY <1>1, <2>9, <2>10
<1> QED
  BY <1>4, <1>5

-----------------------------------------------------------------------------
(* One line, one block: what the parsers make of it.                       *)

\* What a line or block of each kind carries.
LEMMA LineFields ==
  ASSUME NEW x \in LineTypes \cup BlockTypes
  PROVE  /\ x.kind \in {"entry", "conversation", "message", "turn"} => x.role \in Roles \cup {None}
         /\ x.kind \in {"call", "embedded"} => x.name \in Names \cup {None}
         /\ x.kind = "result" => x.ok \in BOOLEAN
         /\ x \in LineTypes /\ x.kind = "end" => x.outcome \in Outcomes
  BY DEF LineTypes, BlockTypes

\* The kinds of lines that each tool writes.
LEMMA LineKinds ==
  ASSUME NEW x \in LineTypes
  PROVE  /\ x.by \in Formats \cup {"any"}
         /\ x.by = "claude_code" => x.kind \in {"entry", "end"}
         /\ x.by = "hermes" => x.kind = "conversation"
         /\ x.by \in {"openclaw", "codex"} => x.kind \in {"message", "call", "result", "end"}
         /\ x.by = "any" => x.kind \in {"note", "broken"}
         /\ x.kind = "entry" => x.by = "claude_code"
         /\ x.kind = "conversation" => x.by = "hermes"
  BY DEF LineTypes, Formats

\* The kinds of blocks.
LEMMA BlockKinds ==
  ASSUME NEW x \in BlockTypes
  PROVE  x.kind \in {"call", "embedded", "result", "turn", "prose", "garbled"}
  BY DEF BlockTypes

\* A call of an event log joins the last message of the assistant.
LEMMA AttachIs ==
  ASSUME NEW t \in Traces, InOrder(t), ByAssistant(t), NEW x, x.kind = "call", x.name \in Names
  PROVE  /\ Attach(t, x.name) \in Traces /\ Attach(t, x.name).refused = t.refused
         /\ InOrder(Attach(t, x.name)) /\ ByAssistant(Attach(t, x.name))
         /\ \A n \in Tallies : Accounts(t, n) => Accounts(Attach(t, x.name), Counted(n, x))
<1>0. ~PassedOver(x)
  BY TracesAssumption DEF PassedOver
<1>1. PICK S : S = {i \in DOMAIN t.roles : t.roles[i] = "assistant"}
  OBVIOUS
<1>2. /\ Len(t.roles) \in Nat /\ DOMAIN t.roles = 1..Len(t.roles)
      /\ \A k \in DOMAIN t.calls : t.calls[k].of \in Nat
  BY TraceFields
<1>3. \A k \in DOMAIN t.calls : t.calls[k].of \in S
  BY <1>1, <1>2 DEF InOrder, ByAssistant
<1>4. CASE S = {}
  <2>1. PICK u : u = Said(t, "assistant")
    OBVIOUS
  <2>2. /\ u \in Traces /\ u.calls = t.calls /\ u.refused = t.refused
        /\ u.roles = Append(t.roles, "assistant")
    BY <2>1, SaidIs DEF Roles
  <2>3. InOrder(u) /\ ByAssistant(u) /\ \A n : Accounts(t, n) => Accounts(u, n)
    BY <2>1, SaidSets, SaidAccounts DEF Roles
  <2>4. /\ Len(u.roles) = Len(t.roles) + 1 /\ u.roles[Len(t.roles) + 1] = "assistant"
        /\ Len(t.roles) + 1 \in 1..Len(u.roles) /\ Len(t.roles) + 1 \in Nat
    <3>1. t.roles \in Seq(Roles) /\ "assistant" \in Roles
      BY TraceFields DEF Roles
    <3> QED
      BY <1>2, <2>2, <3>1
  <2>5. \A k \in DOMAIN u.calls : u.calls[k].of <= Len(t.roles) + 1
    BY <1>3, <1>4, <2>2
  <2>6. Attach(t, x.name) = Called(u, Len(t.roles) + 1, x.name)
    BY <1>1, <1>4, <2>1 DEF Attach
  <2>7. Called(u, Len(t.roles) + 1, x.name) \in Traces /\ Called(u, Len(t.roles) + 1, x.name).refused = t.refused
    BY <2>2, <2>4, CalledIs
  <2>8. InOrder(Called(u, Len(t.roles) + 1, x.name)) /\ ByAssistant(Called(u, Len(t.roles) + 1, x.name))
    BY <2>2, <2>3, <2>4, <2>5, CalledSets
  <2>9. ASSUME NEW n \in Tallies, Accounts(t, n)
        PROVE  Accounts(Called(u, Len(t.roles) + 1, x.name), Counted(n, x))
    BY <2>2, <2>3, <2>4, <2>5, <2>9, <1>0, CalledAccounts
  <2> QED
    BY <2>6, <2>7, <2>8, <2>9
<1>5. CASE S # {}
  <2>1. PICK of : of = Latest(S)
    OBVIOUS
  <2>2. of \in S /\ \A j \in S : j <= of
    BY <1>1, <1>2, <1>5, <2>1, LatestIn
  <2>3. of \in 1..Len(t.roles) /\ of \in Nat /\ t.roles[of] = "assistant"
    BY <1>1, <1>2, <2>2
  <2>4. \A k \in DOMAIN t.calls : t.calls[k].of <= of
    BY <1>3, <2>2
  <2>5. Attach(t, x.name) = Called(t, of, x.name)
    BY <1>1, <1>5, <2>1 DEF Attach
  <2>6. Called(t, of, x.name) \in Traces /\ Called(t, of, x.name).refused = t.refused
    BY <2>3, CalledIs
  <2>7. InOrder(Called(t, of, x.name)) /\ ByAssistant(Called(t, of, x.name))
    BY <2>3, <2>4, CalledSets
  <2>8. ASSUME NEW n \in Tallies, Accounts(t, n)
        PROVE  Accounts(Called(t, of, x.name), Counted(n, x))
    BY <2>3, <2>4, <2>8, <1>0, CalledAccounts
  <2> QED
    BY <2>5, <2>6, <2>7, <2>8
<1> QED
  BY <1>4, <1>5

\* What reading does to a trace, whatever is read: it stays in order, once
\* refused it stays refused, and the accounts follow the count.
Follows(t, u, n, m) ==
  /\ u \in Traces /\ InOrder(u) /\ (t.refused => u.refused)
  /\ ~u.refused /\ Accounts(t, n) => Accounts(u, m)

\* Throwing satisfies every account.
LEMMA RefusedFollows ==
  ASSUME NEW t \in Traces, InOrder(t), NEW n, NEW m
  PROVE  Follows(t, Refuse(t), n, m) /\ (ByAssistant(t) => ByAssistant(Refuse(t)))
<1>1. PICK u : u = Refuse(t)
  OBVIOUS
<1>2. u \in Traces /\ u.refused /\ u.roles = t.roles /\ u.calls = t.calls
  BY <1>1, RefuseIs
<1>3. InOrder(u) /\ (ByAssistant(t) => ByAssistant(u))
  BY <1>2 DEF InOrder, ByAssistant
<1> QED
  BY <1>1, <1>2, <1>3 DEF Follows

\* A message, or a role that is not usable.
LEMMA SaidFollows ==
  ASSUME NEW t \in Traces, InOrder(t), NEW role \in Roles \cup {None}, NEW n
  PROVE  /\ Follows(t, Said(t, role), n, n) /\ (ByAssistant(t) => ByAssistant(Said(t, role)))
         /\ ~Said(t, role).refused => Own(Said(t, role)) = {} /\ Said(t, role).roles # <<>>
<1>1. CASE role = None
  <2>1. Said(t, role) = Refuse(t)
    BY <1>1 DEF Said
  <2> QED
    BY <2>1, RefusedFollows, RefuseIs
<1>2. CASE role \in Roles
  BY <1>2, SaidIs, SaidSets, SaidAccounts DEF Follows
<1> QED
  BY <1>1, <1>2

\* A line that ends the session carries nothing.
LEMMA EndedFollows ==
  ASSUME NEW t \in Traces, InOrder(t), NEW outcome \in Outcomes, NEW n
  PROVE  Follows(t, Ended(t, outcome), n, n) /\ (ByAssistant(t) => ByAssistant(Ended(t, outcome)))
<1>1. PICK u : u = Ended(t, outcome)
  OBVIOUS
<1>2. u \in Traces /\ u.refused = t.refused /\ u.roles = t.roles /\ u.calls = t.calls
  BY <1>1, EndedIs
<1>3. InOrder(u) /\ (ByAssistant(t) => ByAssistant(u))
  BY <1>2 DEF InOrder, ByAssistant
<1>4. Accounts(t, n) => Accounts(u, n)
  BY <1>2 DEF Accounts, Failed, Unanswered
<1> QED
  BY <1>1, <1>2, <1>3, <1>4 DEF Follows

\* Two steps are one.
LEMMA FollowsTwice ==
  ASSUME NEW t, NEW u, NEW v, NEW n, NEW m, NEW k, Follows(t, u, n, m), Follows(u, v, m, k)
  PROVE  Follows(t, v, n, k)
  BY DEF Follows

\* One event of OpenClaw or Codex, of every kind.
LEMMA EventFollows ==
  ASSUME NEW t \in Traces, InOrder(t), ByAssistant(t),
         NEW x \in LineTypes, x.by \in {"openclaw", "codex"}, NEW n \in Tallies, n.own = 0
  PROVE  Follows(t, ReadEvent(t, x), n, Counted(n, x)) /\ ByAssistant(ReadEvent(t, x))
<1>1. x.kind \in {"message", "call", "result", "end"}
  BY LineKinds
<1>2. CASE x.kind = "message"
  <2>1. ReadEvent(t, x) = Said(t, x.role) /\ Counted(n, x) = n
    BY <1>2 DEF ReadEvent, Counted
  <2>2. x.role \in Roles \cup {None}
    BY <1>2, LineFields
  <2> QED
    BY <2>1, <2>2, SaidFollows
<1>3. CASE x.kind = "call" /\ x.name = None
  <2>1. ReadEvent(t, x) = Refuse(t)
    BY <1>3 DEF ReadEvent
  <2> QED
    BY <2>1, RefusedFollows
<1>4. CASE x.kind = "call" /\ x.name \in Names
  <2>1. ReadEvent(t, x) = Attach(t, x.name)
    BY <1>4, TracesAssumption DEF ReadEvent
  <2>2. PICK u : u = Attach(t, x.name)
    OBVIOUS
  <2>3. u \in Traces /\ u.refused = t.refused /\ InOrder(u) /\ ByAssistant(u)
    BY <1>4, <2>2, AttachIs
  <2>4. Accounts(t, n) => Accounts(u, Counted(n, x))
    BY <1>4, <2>2, AttachIs
  <2> QED
    BY <2>1, <2>2, <2>3, <2>4 DEF Follows
<1>5. CASE x.kind = "result"
  <2>0. x.ok \in BOOLEAN /\ Len(t.roles) \in Int /\ "tool" \in Roles
    BY <1>5, LineFields, TraceFields DEF Roles
  <2>1. PICK u : u = Mark(t, Len(t.roles), x.ok)
    OBVIOUS
  <2>2. ReadEvent(t, x) = Said(u, "tool")
    BY <1>5, <2>1 DEF ReadEvent
  <2>3. u \in Traces /\ u.refused = t.refused /\ InOrder(u) /\ ByAssistant(u)
    BY <2>0, <2>1, MarkIs, MarkSets
  <2>4. ASSUME Accounts(t, n)
        PROVE  Accounts(u, Counted(n, x))
    <3>1. IsFiniteSet(Unanswered(t, Len(t.roles))) /\ Cardinality(Unanswered(t, Len(t.roles))) = n.open
      BY <2>4, SetsFinite DEF Accounts
    <3>2. n.open = 0 <=> Unanswered(t, Len(t.roles)) = {}
      BY <3>1, FS_EmptySet
    <3>3. Unanswered(t, Len(t.roles)) # {} <=> n.open > n.own
      BY <3>2 DEF Tallies
    <3> QED
      BY <1>5, <2>0, <2>1, <2>4, <3>3, MarkAccounts
  <2>5. Follows(t, u, n, Counted(n, x))
    BY <2>3, <2>4 DEF Follows
  <2>6. Follows(u, Said(u, "tool"), Counted(n, x), Counted(n, x)) /\ ByAssistant(Said(u, "tool"))
    BY <2>0, <2>3, SaidFollows
  <2> QED
    BY <2>2, <2>5, <2>6, FollowsTwice
<1>6. CASE x.kind = "end"
  <2>1. ReadEvent(t, x) = Ended(t, x.outcome) /\ Counted(n, x) = n
    BY <1>6 DEF ReadEvent, Counted
  <2>2. x.outcome \in Outcomes
    BY <1>6, LineFields
  <2> QED
    BY <2>1, <2>2, EndedFollows
<1> QED
  BY <1>1, <1>2, <1>3, <1>4, <1>5, <1>6, LineFields

\* An entry of Claude Code has no calls before its first block.
LEMMA EntryFollows ==
  ASSUME NEW t \in Traces, InOrder(t), NEW x \in LineTypes, x.by = "claude_code", NEW n
  PROVE  /\ Follows(t, ReadEntry(t, x), n, Counted(n, x)) /\ Counted(n, x) = n
         /\ x.kind = "entry" /\ ~ReadEntry(t, x).refused =>
              Own(ReadEntry(t, x)) = {} /\ ReadEntry(t, x).roles # <<>>
<1>1. CASE x.kind = "entry"
  <2>1. ReadEntry(t, x) = Said(t, x.role) /\ Counted(n, x) = n
    BY <1>1 DEF ReadEntry, Counted
  <2>2. x.role \in Roles \cup {None}
    BY <1>1, LineFields
  <2> QED
    BY <2>1, <2>2, SaidFollows
<1>2. CASE x.kind = "end"
  <2>1. ReadEntry(t, x) = Ended(t, x.outcome) /\ Counted(n, x) = n
    BY <1>2 DEF ReadEntry, Counted
  <2>2. x.outcome \in Outcomes
    BY <1>2, LineFields
  <2> QED
    BY <1>2, <2>1, <2>2, EndedFollows
<1> QED
  BY <1>1, <1>2, LineKinds

\* One block of an entry: a call of its own, or a result for an earlier entry.
LEMMA BlockFollows ==
  ASSUME NEW t \in Traces, InOrder(t), t.roles # <<>>,
         NEW x \in BlockTypes, x.kind \in {"call", "result"}, NEW n \in Tallies
  PROVE  /\ ReadBlock(t, x) \in Traces /\ InOrder(ReadBlock(t, x)) /\ (t.refused => ReadBlock(t, x).refused)
         /\ ReadBlock(t, x).roles # <<>>
         /\ ~ReadBlock(t, x).refused /\ Accounts(t, n) /\ OwnAccounts(t, n) =>
              Accounts(ReadBlock(t, x), Counted(n, x)) /\ OwnAccounts(ReadBlock(t, x), Counted(n, x))
<1>1. Len(t.roles) \in Nat /\ Len(t.roles) \in 1..Len(t.roles) /\ Len(t.roles) - 1 \in Int
  <2>1. t.roles \in Seq(Roles)
    BY TraceFields
  <2> QED
    BY <2>1
<1>2. CASE x.kind = "call" /\ x.name = None
  <2>1. ReadBlock(t, x) = Refuse(t)
    BY <1>2 DEF ReadBlock
  <2> QED
    BY <2>1, RefuseIs, RefusedFollows DEF Follows
<1>3. CASE x.kind = "call" /\ x.name \in Names
  <2>1. PICK u : u = Called(t, Len(t.roles), x.name)
    OBVIOUS
  <2>2. ReadBlock(t, x) = u
    BY <1>3, <2>1, TracesAssumption DEF ReadBlock
  <2>3. u \in Traces /\ u.roles = t.roles /\ u.refused = t.refused
    BY <1>1, <1>3, <2>1, CalledIs
  <2>4. \A k \in DOMAIN t.calls : t.calls[k].of <= Len(t.roles)
    BY <1>1 DEF InOrder
  <2>5. InOrder(u)
    BY <1>1, <1>3, <2>1, <2>4, CalledSets
  <2>6. ASSUME Accounts(t, n), OwnAccounts(t, n)
        PROVE  Accounts(u, Counted(n, x)) /\ OwnAccounts(u, Counted(n, x))
    BY <1>1, <1>3, <2>1, <2>4, <2>6, CalledAccounts, TracesAssumption DEF PassedOver
  <2> QED
    BY <2>2, <2>3, <2>5, <2>6
<1>4. CASE x.kind = "result"
  <2>0. x.ok \in BOOLEAN
    BY <1>4, LineFields
  <2>1. PICK u, m : m = Len(t.roles) - 1 /\ u = Mark(t, m, x.ok)
    OBVIOUS
  <2>2. ReadBlock(t, x) = u /\ m \in Int
    BY <1>1, <1>4, <2>1 DEF ReadBlock
  <2>3. u \in Traces /\ u.roles = t.roles /\ u.refused = t.refused
    <3>1. /\ Mark(t, m, x.ok) \in Traces
          /\ Mark(t, m, x.ok).roles = t.roles /\ Mark(t, m, x.ok).refused = t.refused
      BY <2>0, <2>2, MarkIs
    <3> QED
      BY <2>1, <3>1
  <2>4. InOrder(u)
    BY <2>0, <2>1, <2>2, MarkSets
  <2>5. ASSUME Accounts(t, n), OwnAccounts(t, n)
        PROVE  Accounts(u, Counted(n, x)) /\ OwnAccounts(u, Counted(n, x))
    <3>1. Unanswered(t, Len(t.roles) - 1) # {} <=> n.open > n.own
      BY <2>5, OpenBefore
    <3>2. m < Len(t.roles) /\ m <= Len(t.roles)
      BY <1>1, <2>1
    <3> QED
      BY <1>4, <2>0, <2>1, <2>2, <2>5, <3>1, <3>2, MarkAccounts
  <2> QED
    BY <2>2, <2>3, <2>4, <2>5
<1> QED
  BY <1>2, <1>3, <1>4, LineFields

\* One turn of a Hermes conversation, one declared call or one piece of text in it.
LEMMA TurnFollows ==
  ASSUME NEW t \in Traces, InOrder(t), t.roles # <<>>,
         NEW x \in BlockTypes, x.kind \in {"turn", "call"} \cup InText, NEW n \in Tallies
  PROVE  Follows(t, ReadTurn(t, x), n, Counted(n, x)) /\ ReadTurn(t, x).roles # <<>>
<1>1. CASE x.kind = "turn"
  <2>1. ReadTurn(t, x) = Said(t, x.role) /\ Counted(n, x) = n
    BY <1>1 DEF ReadTurn, Counted
  <2>2. x.role \in Roles \cup {None}
    BY <1>1, LineFields
  <2>3. Said(t, x.role).roles # <<>>
    <3>1. CASE x.role = None
      BY <3>1, RefuseIs DEF Said
    <3>2. CASE x.role \in Roles
      BY <3>2, SaidSets
    <3> QED
      BY <2>2, <3>1, <3>2
  <2> QED
    BY <2>1, <2>2, <2>3, SaidFollows
<1>2. CASE x.kind \in {"call", "embedded"} /\ PassedOver(x)
  <2>1. ReadTurn(t, x) = t
    BY <1>2 DEF ReadTurn, PassedOver
  <2> QED
    BY <1>2, <2>1, LeftAccounts DEF Follows
<1>3. CASE x.kind \in {"call", "embedded"} /\ ~PassedOver(x)
  <2>0. x.name \in Names
    BY <1>3, LineFields DEF PassedOver
  <2>1. PICK u : u = Called(t, Len(t.roles), x.name)
    OBVIOUS
  <2>2. ReadTurn(t, x) = u
    BY <1>3, <2>1 DEF ReadTurn, PassedOver
  <2>3. Len(t.roles) \in Nat /\ Len(t.roles) \in 1..Len(t.roles)
    <3>1. t.roles \in Seq(Roles)
      BY TraceFields
    <3> QED
      BY <3>1
  <2>4. u \in Traces /\ u.roles = t.roles /\ u.refused = t.refused
    BY <2>0, <2>1, <2>3, CalledIs
  <2>5. \A k \in DOMAIN t.calls : t.calls[k].of <= Len(t.roles)
    BY <2>3 DEF InOrder
  <2>6. InOrder(u)
    BY <2>0, <2>1, <2>3, <2>5, CalledSets
  <2>7. Accounts(t, n) => Accounts(u, Counted(n, x))
    BY <1>3, <2>0, <2>1, <2>3, <2>5, CalledAccounts
  <2> QED
    BY <2>2, <2>4, <2>6, <2>7 DEF Follows
<1>4. CASE x.kind \in {"prose", "garbled"}
  <2>1. Counted(n, x) = n
    BY <1>4 DEF Counted
  <2>2. ReadTurn(t, x) \in {t, Refuse(t)}
    BY <1>4 DEF ReadTurn
  <2>3. CASE ReadTurn(t, x) = t
    BY <2>1, <2>3 DEF Follows
  <2>4. CASE ReadTurn(t, x) = Refuse(t)
    BY <2>4, RefuseIs, RefusedFollows
  <2> QED
    BY <2>2, <2>3, <2>4
<1> QED
  BY <1>1, <1>2, <1>3, <1>4 DEF InText

\* One line, for the parser of the tool that wrote it.
LEMMA LineFollows ==
  ASSUME NEW t \in Traces, InOrder(t), NEW f \in Formats, f \in {"openclaw", "codex"} => ByAssistant(t),
         NEW x \in LineTypes, x.by = f, NEW n \in Tallies, n.own = 0
  PROVE  /\ Follows(t, ReadLine(f, t, x), n, Counted(n, x))
         /\ f \in {"openclaw", "codex"} => ByAssistant(ReadLine(f, t, x))
         /\ x.kind = "entry" /\ ~ReadLine(f, t, x).refused => Own(ReadLine(f, t, x)) = {} /\ Counted(n, x) = n
         /\ x.kind \in {"entry", "conversation"} /\ ~ReadLine(f, t, x).refused => ReadLine(f, t, x).roles # <<>>
<1>1. CASE f = "claude_code"
  <2>1. ReadLine(f, t, x) = ReadEntry(t, x)
    BY <1>1 DEF ReadLine
  <2>2. x.kind # "conversation"
    BY <1>1, LineKinds
  <2> QED
    BY <1>1, <2>1, <2>2, EntryFollows
<1>2. CASE f = "hermes"
  <2>1. ReadLine(f, t, x) = Said(t, x.role)
    BY <1>2 DEF ReadLine
  <2>2. x.kind = "conversation" /\ x.role \in Roles \cup {None}
    BY <1>2, LineKinds, LineFields
  <2>3. Counted(n, x) = n
    BY <2>2 DEF Counted
  <2> QED
    BY <1>2, <2>1, <2>2, <2>3, SaidFollows
<1>3. CASE f \in {"openclaw", "codex"}
  <2>1. ReadLine(f, t, x) = ReadEvent(t, x)
    BY <1>3 DEF ReadLine
  <2>2. x.kind \notin {"entry", "conversation"}
    BY <1>3, LineKinds
  <2> QED
    BY <1>3, <2>1, <2>2, EventFollows
<1> QED
  BY <1>1, <1>2, <1>3 DEF Formats

-----------------------------------------------------------------------------
(* The invariant.                                                          *)

\* Its part for the parser of format f.
Parser(f) ==
  /\ InOrder(read[f]) /\ Agrees(f) /\ Speaking(f)
  /\ f \in {"openclaw", "codex"} => ByAssistant(read[f])

\* The invariant, parser by parser.
LEMMA InvParts ==
  ReadInv <=> TracesTypeOK /\ \A f \in Formats : Parser(f)
  BY DEF ReadInv, Parser, Formats

\* An empty file: nothing read, nothing counted.
LEMMA InitReadInv ==
  ASSUME TracesInit
  PROVE  ReadInv
<1>1. Blank \in Traces /\ Blank.calls = <<>> /\ Len(Blank.calls) = 0 /\ DOMAIN Blank.calls = {}
  BY DEF Blank, Traces, Outcomes
<1>2. TracesTypeOK
  BY <1>1, TracesAssumption DEF TracesInit, TracesTypeOK, Tallies
<1>3. Cardinality({}) = 0
  BY FS_EmptySet
<1>4. Failed(Blank) = {} /\ Unanswered(Blank, Len(Blank.roles)) = {}
  BY <1>1 DEF Failed, Unanswered
<1>5. Accounts(Blank, tally)
  BY <1>1, <1>3, <1>4 DEF Accounts, TracesInit
<1>6. InOrder(Blank) /\ ByAssistant(Blank)
  BY <1>1 DEF InOrder, ByAssistant
<1>7. ASSUME NEW f \in Formats
      PROVE  Parser(f)
  <2>1. read[f] = Blank
    BY DEF TracesInit
  <2>2. ~At("entry") /\ ~At("conversation")
    BY DEF At, TracesInit
  <2> QED
    BY <1>5, <1>6, <2>1, <2>2 DEF Parser, Agrees, Speaking
<1> QED
  BY <1>2, <1>7, InvParts

\* A line begins: the parser of its tool follows, the others have nothing to claim.
LEMMA BeginLineParser ==
  ASSUME ReadInv, NEW line \in Lines, BeginLine(line), NEW f \in Formats
  PROVE  read'[f] \in Traces /\ Parser(f)'
<1>1. PICK t, u, n : t = read[f] /\ u = read'[f] /\ n = [tally EXCEPT !.own = 0]
  OBVIOUS
<1>2. /\ t \in Traces /\ InOrder(t) /\ Agrees(f) /\ Speaking(f)
      /\ f \in {"openclaw", "codex"} => ByAssistant(t)
      /\ file \in Seq(Lines) /\ tally \in Tallies
  BY <1>1 DEF ReadInv, TracesTypeOK
<1>3. n \in Tallies /\ n.own = 0 /\ (Accounts(t, tally) => Accounts(t, n))
  BY <1>1, <1>2, OwnReset
<1>4. tally' = Counted(n, line)
  BY <1>1 DEF BeginLine
<1>5. line \in LineTypes
  BY TracesAssumption
<1>6. /\ Len(file) \in Nat /\ Len(file') = Len(file) + 1 /\ DOMAIN file' = DOMAIN file \cup {Len(file) + 1}
      /\ file'[Len(file) + 1] = line /\ file' # <<>> /\ \A i \in DOMAIN file : file'[i] = file[i]
      /\ DOMAIN file = 1..Len(file)
  <2>1. file' = Append(file, line)
    BY DEF BeginLine
  <2> QED
    BY <1>2, <2>1, AppendIs
<1>7. u = IF Reads(f, Len(file) + 1, line) THEN ReadLine(f, t, line) ELSE t
  BY <1>1 DEF BeginLine
<1>8. Clean(f)' => Clean(f) /\ (line.by = f \/ Quiet(line)) /\ (line.by = "hermes" => Len(file) + 1 = 1)
  <2>1. ASSUME Clean(f)'
        PROVE  /\ \A i \in DOMAIN file' : file'[i].by = f \/ Quiet(file'[i])
               /\ \A i \in DOMAIN file' : file'[i].by = "hermes" => Len(file') = 1
    BY <2>1 DEF Clean, HermesAlone
  <2> QED
    BY <1>6, <2>1 DEF Clean, HermesAlone
<1>9. /\ At("entry")' <=> line.kind = "entry"
      /\ At("conversation")' <=> line.kind = "conversation"
  BY <1>6 DEF At
<1>10. CASE Reads(f, Len(file) + 1, line)
  <2>1. u = ReadLine(f, t, line) /\ line.by = f /\ ~t.refused
    BY <1>1, <1>7, <1>10 DEF Reads
  <2>2. /\ Follows(t, u, n, Counted(n, line)) /\ (f \in {"openclaw", "codex"} => ByAssistant(u))
        /\ line.kind = "entry" /\ ~u.refused => Own(u) = {} /\ Counted(n, line) = n
        /\ line.kind \in {"entry", "conversation"} /\ ~u.refused => u.roles # <<>>
    BY <1>2, <1>3, <1>5, <2>1, LineFollows
  <2>3. ASSUME ~u.refused, Clean(f)'
        PROVE  Accounts(u, tally') /\ (line.kind = "entry" => OwnAccounts(u, tally'))
    <3>1. Accounts(t, tally)
      BY <1>1, <1>2, <1>8, <2>1, <2>3 DEF Agrees
    <3>2. Accounts(u, tally')
      BY <1>3, <1>4, <2>2, <2>3, <3>1 DEF Follows
    <3>3. ASSUME line.kind = "entry"
          PROVE  OwnAccounts(u, tally')
      <4>1. Own(u) = {} /\ tally'.own = 0
        BY <1>3, <1>4, <2>2, <2>3, <3>3
      <4> QED
        BY <4>1, FS_EmptySet DEF OwnAccounts
    <3> QED
      BY <3>2, <3>3
  <2>4. Agrees(f)'
    BY <1>1, <1>9, <2>3 DEF Agrees
  <2>5. Speaking(f)'
    BY <1>1, <1>9, <2>2 DEF Speaking, Reads
  <2> QED
    BY <1>1, <2>2, <2>4, <2>5 DEF Parser, Follows
<1>11. CASE ~Reads(f, Len(file) + 1, line)
  <2>1. u = t
    BY <1>7, <1>11
  <2>2. ASSUME ~t.refused, Clean(f)'
        PROVE  Accounts(t, tally') /\ line.kind # "entry"
    <3>1. Quiet(line) /\ line.by # f
      BY <1>1, <1>8, <1>11, <2>2 DEF Reads
    <3>2. line.kind \in {"end", "note", "broken"}
      BY <1>5, <3>1, LineKinds DEF Quiet
    <3>3. Counted(n, line) = n
      BY <3>2 DEF Counted
    <3>4. Accounts(t, tally)
      BY <1>1, <1>2, <1>8, <2>2 DEF Agrees
    <3> QED
      BY <1>3, <1>4, <3>2, <3>3, <3>4
  <2>3. Agrees(f)'
    BY <1>1, <1>9, <2>1, <2>2 DEF Agrees
  <2>4. Speaking(f)'
    BY <1>1, <1>6, <1>11, <2>1 DEF Speaking, Reads
  <2> QED
    BY <1>1, <1>2, <2>1, <2>3, <2>4 DEF Parser
<1> QED
  BY <1>10, <1>11

\* A line goes on: only the parser that read its beginning has anything to claim.
LEMMA AddBlockParser ==
  ASSUME ReadInv, NEW block \in Blocks, AddBlock(block), NEW f \in Formats
  PROVE  read'[f] \in Traces /\ Parser(f)'
<1>1. PICK t, u, line : t = read[f] /\ u = read'[f] /\ line = file[Len(file)]
  OBVIOUS
<1>2. /\ t \in Traces /\ InOrder(t) /\ Agrees(f) /\ Speaking(f)
      /\ f \in {"openclaw", "codex"} => ByAssistant(t)
      /\ file \in Seq(Lines) /\ tally \in Tallies
  BY <1>1 DEF ReadInv, TracesTypeOK
<1>3. file # <<>> /\ Takes(line, block) /\ file' = file /\ tally' = Counted(tally, block)
  BY <1>1 DEF AddBlock
<1>4. Len(file) \in DOMAIN file /\ line \in LineTypes /\ block \in BlockTypes
  BY <1>1, <1>2, <1>3, TracesAssumption
<1>5. u = IF ~Reads(f, Len(file), line) THEN t
          ELSE IF f = "hermes" THEN ReadTurn(t, block) ELSE ReadBlock(t, block)
  BY <1>1 DEF AddBlock
<1>6. /\ At("entry")' <=> line.kind = "entry"
      /\ At("conversation")' <=> line.kind = "conversation"
      /\ At("entry") <=> line.kind = "entry"
      /\ At("conversation") <=> line.kind = "conversation"
  BY <1>1, <1>3 DEF At
<1>7. Clean(f)' => Clean(f)
  BY <1>3 DEF Clean, HermesAlone
<1>8. CASE Reads(f, Len(file), line)
  <2>1. ~t.refused /\ line.by = f /\ line.kind \in {"entry", "conversation"}
    BY <1>1, <1>3, <1>8 DEF Reads, Takes
  <2>2. t.roles # <<>>
    BY <1>1, <1>2, <1>6, <1>8, <2>1 DEF Speaking
  <2>3. /\ u \in Traces /\ InOrder(u) /\ (t.refused => u.refused) /\ u.roles # <<>>
        /\ ~u.refused /\ Accounts(t, tally) /\ (line.kind = "entry" => OwnAccounts(t, tally)) =>
             Accounts(u, tally') /\ (line.kind = "entry" => OwnAccounts(u, tally'))
        /\ f \notin {"openclaw", "codex"}
    <3>1. CASE line.kind = "entry"
      <4>1. f = "claude_code" /\ block.kind \in {"call", "result"}
        BY <1>3, <1>4, <2>1, <3>1, LineKinds DEF Takes
      <4>2. u = ReadBlock(t, block)
        BY <1>5, <1>8, <4>1
      <4> QED
        BY <1>2, <1>3, <1>4, <2>2, <3>1, <4>1, <4>2, BlockFollows
    <3>2. CASE line.kind = "conversation"
      <4>1. f = "hermes" /\ block.kind \in {"turn", "call"} \cup InText
        BY <1>3, <1>4, <2>1, <3>2, LineKinds DEF Takes
      <4>2. u = ReadTurn(t, block)
        BY <1>5, <1>8, <4>1
      <4> QED
        BY <1>2, <1>3, <1>4, <2>2, <3>2, <4>1, <4>2, TurnFollows DEF Follows
    <3> QED
      BY <2>1, <3>1, <3>2
  <2>4. ASSUME ~u.refused, Clean(f)'
        PROVE  Accounts(u, tally') /\ (line.kind = "entry" => OwnAccounts(u, tally'))
    <3>1. Accounts(t, tally) /\ (line.kind = "entry" => OwnAccounts(t, tally))
      BY <1>1, <1>2, <1>6, <1>7, <2>1, <2>4 DEF Agrees
    <3> QED
      BY <2>3, <2>4, <3>1
  <2>5. Agrees(f)'
    BY <1>1, <1>6, <2>4 DEF Agrees
  <2>6. Speaking(f)'
    BY <1>1, <2>3 DEF Speaking
  <2> QED
    BY <1>1, <2>3, <2>5, <2>6 DEF Parser
<1>9. CASE ~Reads(f, Len(file), line)
  <2>1. u = t
    BY <1>5, <1>9
  <2>2. ~(~t.refused /\ Clean(f))
    <3>1. SUFFICES ASSUME ~t.refused, Clean(f)
                   PROVE  FALSE
      OBVIOUS
    <3>2. line.by = f \/ Quiet(line)
      BY <1>1, <1>4, <3>1 DEF Clean
    <3>3. line.kind \in {"entry", "conversation"}
      BY <1>3 DEF Takes
    <3>4. line.by = f
      BY <1>4, <3>2, <3>3, LineKinds DEF Quiet
    <3>5. f = "hermes" => Len(file) = 1
      BY <1>1, <1>4, <3>1, <3>4 DEF Clean, HermesAlone
    <3> QED
      BY <1>1, <1>9, <3>1, <3>4, <3>5 DEF Reads
  <2>3. Agrees(f)'
    BY <1>1, <1>7, <2>1, <2>2 DEF Agrees
  <2>4. Speaking(f)'
    BY <1>1, <1>3, <1>9, <2>1 DEF Speaking, Reads
  <2> QED
    BY <1>1, <1>2, <2>1, <2>3, <2>4 DEF Parser
<1> QED
  BY <1>8, <1>9

\* Every step preserves the invariant.
LEMMA NextReadInv ==
  ASSUME ReadInv, [TracesNext]_tracesVars
  PROVE  ReadInv'
<1>1. TracesTypeOK /\ \A f \in Formats : Parser(f)
  BY InvParts
<1>2. ASSUME NEW line \in Lines, BeginLine(line)
      PROVE  ReadInv'
  <2>1. \A f \in Formats : read'[f] \in Traces /\ Parser(f)'
    BY <1>2, BeginLineParser
  <2>2. file' \in Seq(Lines) /\ text' \in Nat /\ size' \in 0..MaxPieces
    BY <1>1, <1>2, TracesAssumption DEF TracesTypeOK, BeginLine
  <2>3. read' \in [Formats -> Traces]
    <3>1. read' = [f \in Formats |-> read'[f]]
      BY <1>2 DEF BeginLine
    <3> QED
      BY <2>1, <3>1
  <2>4. tally' \in Tallies
    <3>1. line \in LineTypes /\ [tally EXCEPT !.own = 0] \in Tallies
      BY <1>1, TracesAssumption, OwnReset DEF TracesTypeOK
    <3>2. tally' = Counted([tally EXCEPT !.own = 0], line)
      BY <1>2 DEF BeginLine
    <3> QED
      BY <3>1, <3>2, CountedTyped
  <2>5. TracesTypeOK'
    BY <2>2, <2>3, <2>4 DEF TracesTypeOK
  <2> QED
    BY <2>1, <2>5 DEF ReadInv, Parser, Formats
<1>3. ASSUME NEW block \in Blocks, AddBlock(block)
      PROVE  ReadInv'
  <2>1. \A f \in Formats : read'[f] \in Traces /\ Parser(f)'
    BY <1>3, AddBlockParser
  <2>2. file' \in Seq(Lines) /\ text' \in Nat /\ size' \in 0..MaxPieces
    BY <1>1, <1>3, TracesAssumption DEF TracesTypeOK, AddBlock
  <2>3. read' \in [Formats -> Traces]
    <3>1. read' = [f \in Formats |-> read'[f]]
      BY <1>3 DEF AddBlock
    <3> QED
      BY <2>1, <3>1
  <2>4. tally' \in Tallies
    <3>1. block \in BlockTypes /\ tally \in Tallies
      BY <1>1, TracesAssumption DEF TracesTypeOK
    <3>2. tally' = Counted(tally, block)
      BY <1>3 DEF AddBlock
    <3> QED
      BY <3>1, <3>2, CountedTyped
  <2>5. TracesTypeOK'
    BY <2>2, <2>3, <2>4 DEF TracesTypeOK
  <2> QED
    BY <2>1, <2>5 DEF ReadInv, Parser, Formats
<1>4. CASE UNCHANGED tracesVars
  BY <1>4 DEF tracesVars, ReadInv, TracesTypeOK, InOrder, ByAssistant, Agrees, Speaking, Accounts,
              OwnAccounts, Clean, HermesAlone, At, Reads
<1> QED
  BY <1>2, <1>3, <1>4 DEF TracesNext

\* What the parsers have made of the lines agrees with what was counted.
THEOREM ReadInvariant == TracesSpec => []ReadInv
<1>1. TracesInit => ReadInv
  BY InitReadInv
<1>2. ReadInv /\ [TracesNext]_tracesVars => ReadInv'
  BY NextReadInv
<1> QED
  BY <1>1, <1>2, PTL DEF TracesSpec

\* File, traces and counts keep their types: parse.ts, "callers only ever see
\* the canonical shape".
THEOREM TracesTypeCorrect == TracesSpec => []TracesTypeOK
<1>1. ReadInv => TracesTypeOK
  BY DEF ReadInv
<1> QED
  BY <1>1, ReadInvariant, PTL
-----------------------------------------------------------------------------
(* What leaves the device.                                                 *)

\* A trace that is not refused is what the parser of the detected format read.
LEMMA ParsedIs ==
  ASSUME TracesTypeOK, ~Parsed.refused
  PROVE  /\ Detected \in Formats /\ Parsed = read[Detected] /\ Parsed \in Traces
         /\ Len(file) <= MaxMessages /\ Len(Parsed.roles) <= MaxMessages /\ Parsed.roles # <<>>
         /\ Detected # "hermes" => ~Mixed(Detected)
<1>1. Refuse(Blank).refused
  BY DEF Refuse, Blank
<1>2. Detected # None /\ ~(Len(file) > MaxMessages) /\ (Detected # "hermes" => ~Mixed(Detected))
  BY <1>1 DEF Parsed
<1>3. Detected \in Formats
  BY <1>2 DEF Detected, Formats
<1>4. read[Detected] \in Traces
  BY <1>3 DEF TracesTypeOK
<1>5. Parsed = Finalized(read[Detected])
  BY <1>2 DEF Parsed
<1>6. Parsed = read[Detected] /\ Parsed.roles # <<>> /\ ~(Len(Parsed.roles) > MaxMessages)
  BY <1>4, <1>5, RefuseIs DEF Finalized
<1>7. Len(file) \in Nat /\ Len(Parsed.roles) \in Nat /\ MaxMessages \in Nat
  BY <1>4, <1>6, TraceFields, TracesAssumption DEF TracesTypeOK
<1> QED
  BY <1>2, <1>3, <1>4, <1>6, <1>7

\* It carries all that the file carries.
LEMMA ParsedClean ==
  ASSUME TracesTypeOK, ~Parsed.refused, HermesAlone
  PROVE  Clean(Detected)
<1>1. file \in Seq(Lines) /\ \A i \in DOMAIN file : file[i] \in LineTypes
  <2>1. file \in Seq(Lines) /\ Lines \subseteq LineTypes
    BY TracesAssumption DEF TracesTypeOK
  <2> QED
    BY <2>1
<1>2. Detected \in Formats /\ (Detected # "hermes" => ~Mixed(Detected)) /\ None \notin Formats
  BY ParsedIs, TracesAssumption
<1>3. file # <<>> /\ 1 \in DOMAIN file
  <2>1. file # <<>>
    BY <1>2 DEF Detected
  <2> QED
    BY <1>1, <2>1
<1>4. ASSUME NEW i \in DOMAIN file
      PROVE  file[i].by = Detected \/ Quiet(file[i])
  <2>1. CASE file[i].by = "hermes"
    <3>1. Len(file) = 1
      BY <2>1 DEF HermesAlone
    <3>2. i = 1 /\ \A j \in DOMAIN file : j = 1
      BY <1>1, <3>1
    <3>3. Markers = {None}
      BY <1>3, <2>1, <3>2 DEF Markers, Marker
    <3>4. Detected = "hermes"
      <4>1. "claude_code" \notin Markers /\ "codex" \notin Markers /\ "openclaw" \notin Markers
        BY <1>2, <3>3 DEF Formats
      <4>2. Detected \in {None, "hermes"}
        BY <4>1 DEF Detected
      <4> QED
        BY <1>2, <4>2
    <3> QED
      BY <2>1, <3>4
  <2>2. CASE file[i].by # "hermes" /\ Detected = "hermes"
    <3>1. file[1].by = "hermes"
      BY <1>2, <2>2 DEF Detected
    <3>2. Len(file) = 1
      BY <1>3, <3>1 DEF HermesAlone
    <3>3. i = 1
      BY <1>1, <3>2
    <3> QED
      BY <2>2, <3>1, <3>3
  <2>3. CASE file[i].by # "hermes" /\ Detected # "hermes"
    <3>1. Marker(file[i]) \in {None, Detected}
      BY <1>2, <2>3 DEF Mixed, Markers
    <3>2. CASE Marker(file[i]) = Detected
      BY <1>2, <3>2 DEF Marker
    <3>3. CASE Marker(file[i]) = None
      <4>1. file[i].by \in Formats \cup {"any"}
        BY <1>1, LineKinds
      <4>2. file[i].by = "any" \/ file[i].kind = "end"
        BY <1>2, <2>3, <3>3, <4>1 DEF Marker, Formats
      <4> QED
        BY <4>2 DEF Quiet
    <3> QED
      BY <3>1, <3>2, <3>3
  <2> QED
    BY <2>1, <2>2, <2>3
<1> QED
  BY <1>4 DEF Clean

\* What is parsed agrees with what was counted.
LEMMA ParsedAccounts ==
  ASSUME ReadInv, ~Parsed.refused, HermesAlone
  PROVE  Accounts(Parsed, tally)
<1>1. Detected \in Formats /\ Parsed = read[Detected] /\ Clean(Detected)
  BY ParsedIs, ParsedClean DEF ReadInv
<1>2. Agrees(Detected)
  BY <1>1 DEF ReadInv
<1> QED
  BY <1>1, <1>2 DEF Agrees

\* parse.ts, assertSingleFormat, "confident but wrong counts": whatever the
\* file, if it is accepted, and has no Hermes conversation beside other lines,
\* its structure counts the calls of every line, no more and no less: all but those
\* without a usable name or beyond the cut of a Hermes turn's text.
THEOREM CallsAllCounted == TracesSpec => []CallsCounted
<1>1. ReadInv => CallsCounted
  BY ParsedAccounts DEF CallsCounted, Structure, Accounts
<1> QED
  BY <1>1, ReadInvariant, PTL

\* parse.ts, markLastToolCall: a result goes to the last open call, whichever
\* it answers, and still the calls counted as failed are as many as the failing
\* results that found a call open.
THEOREM FailuresAllCounted == TracesSpec => []FailuresCounted
<1>1. ReadInv => FailuresCounted
  BY ParsedAccounts DEF FailuresCounted, Structure, Accounts
<1> QED
  BY <1>1, ReadInvariant, PTL

\* The calls in one list: they stand in the order of their messages, so that it
\* lists the calls of each message in turn, and in an event log they are of
\* messages of the assistant.
THEOREM CallsInOrder ==
  TracesSpec => [](\A f \in Formats : InOrder(read[f]) /\ (f \in {"openclaw", "codex"} => ByAssistant(read[f])))
<1>1. ReadInv => \A f \in Formats : InOrder(read[f]) /\ (f \in {"openclaw", "codex"} => ByAssistant(read[f]))
  BY DEF ReadInv
<1> QED
  BY <1>1, ReadInvariant, PTL

\* Names are added while there is room: the set never outgrows it.
LEMMA ToolNamesFit ==
  ASSUME NEW t \in Traces
  PROVE  /\ ToolNames(t) \subseteq Names /\ IsFiniteSet(ToolNames(t))
         /\ Cardinality(ToolNames(t)) <= MaxNames
<1>1. PICK D : D = {k \in DOMAIN t.calls : Cardinality(NamesOf(t, k - 1)) < MaxNames}
  OBVIOUS
<1>2. ToolNames(t) = {t.calls[k].name : k \in D}
  BY <1>1 DEF ToolNames
<1>3. /\ Len(t.calls) \in Nat /\ DOMAIN t.calls = 1..Len(t.calls) /\ MaxNames \in Nat
      /\ \A k \in DOMAIN t.calls : t.calls[k].name \in Names
  BY TraceFields, TracesAssumption
<1>4. ToolNames(t) \subseteq Names
  BY <1>1, <1>2, <1>3
<1>5. CASE D = {}
  <2>1. ToolNames(t) = {}
    BY <1>2, <1>5
  <2> QED
    BY <1>3, <1>4, <2>1, FS_EmptySet
<1>6. CASE D # {}
  <2>1. PICK last : last = Latest(D)
    OBVIOUS
  <2>2. last \in D /\ \A k \in D : k <= last
    BY <1>1, <1>3, <1>6, <2>1, LatestIn
  <2>3. PICK before, name : before = NamesOf(t, last - 1) /\ name = t.calls[last].name
    OBVIOUS
  <2>4. IsFiniteSet(before) /\ Cardinality(before) \in Nat
    <3>1. PICK E : E = {k \in DOMAIN t.calls : k <= last - 1}
      OBVIOUS
    <3>2. IsFiniteSet(E)
      <4>1. IsFiniteSet(1..Len(t.calls))
        BY <1>3, FS_Interval
      <4>2. E \in SUBSET (1..Len(t.calls))
        BY <1>3, <3>1
      <4> QED
        BY <4>1, <4>2, FS_Subset
    <3>3. before = {t.calls[k].name : k \in E}
      BY <2>3, <3>1 DEF NamesOf
    <3>4. PICK f : f = [k \in E |-> t.calls[k].name]
      OBVIOUS
    <3>5. f \in Surjection(E, before)
      BY <3>3, <3>4 DEF Surjection
    <3> QED
      BY <3>2, <3>5, FS_Surjection, FS_CardinalityType
  <2>5. ToolNames(t) \subseteq before \cup {name}
    <3>1. \A k \in D : k \in DOMAIN t.calls /\ (k <= last - 1 \/ k = last)
      BY <1>1, <1>3, <2>2
    <3> QED
      BY <1>2, <2>3, <3>1 DEF NamesOf
  <2>6. Cardinality(before) < MaxNames
    BY <1>1, <2>2, <2>3
  <2>7. IsFiniteSet(before \cup {name}) /\ Cardinality(before \cup {name}) <= Cardinality(before) + 1
        /\ Cardinality(before \cup {name}) \in Nat
    <3>1. IsFiniteSet(before \cup {name})
          /\ Cardinality(before \cup {name}) = IF name \in before THEN Cardinality(before) ELSE Cardinality(before) + 1
      BY <2>4, FS_AddElement
    <3> QED
      BY <2>4, <3>1
  <2>8. IsFiniteSet(ToolNames(t)) /\ Cardinality(ToolNames(t)) <= Cardinality(before \cup {name})
        /\ Cardinality(ToolNames(t)) \in Nat
    BY <2>5, <2>7, FS_Subset, FS_CardinalityType
  <2> QED
    BY <1>3, <1>4, <2>4, <2>6, <2>7, <2>8
<1> QED
  BY <1>5, <1>6

\* The places kept are in order, and begin and end with the session.
LEMMA KeptIs ==
  ASSUME NEW n \in Nat \ {0}
  PROVE  /\ DOMAIN Kept(n) = 1..Len(Kept(n)) /\ Len(Kept(n)) = (IF n <= MaxPreview THEN n ELSE MaxPreview)
         /\ \A k \in DOMAIN Kept(n) : Kept(n)[k] \in 1..n
         /\ \A j, k \in DOMAIN Kept(n) : j < k => Kept(n)[j] < Kept(n)[k]
         /\ Kept(n)[1] = 1 /\ Kept(n)[Len(Kept(n))] = n
<1>1. MaxPreview \in Nat /\ MaxPreview >= 2
  BY TracesAssumption
<1>2. CASE n <= MaxPreview
  <2>1. Kept(n) = [k \in 1..n |-> k]
    BY <1>2 DEF Kept
  <2>2. Len([k \in 1..n |-> k]) = n
    OBVIOUS
  <2> QED
    BY <1>2, <2>1, <2>2
<1>3. CASE n > MaxPreview
  <2>1. PICK head : head = (MaxPreview + 1) \div 2
    OBVIOUS
  <2>2. head \in Nat /\ 1 <= head /\ head < MaxPreview
    BY <1>1, <2>1
  <2>3. PICK kept : kept = [k \in 1..MaxPreview |-> IF k <= head THEN k ELSE n - (MaxPreview - k)]
    OBVIOUS
  <2>4. Kept(n) = kept
    BY <1>1, <1>3, <2>1, <2>3 DEF Kept
  <2>5. DOMAIN kept = 1..MaxPreview /\ Len(kept) = MaxPreview
    BY <1>1, <2>3
  <2>6. \A k \in 1..MaxPreview : kept[k] = IF k <= head THEN k ELSE n - (MaxPreview - k)
    BY <2>3
  <2>7. \A k \in 1..MaxPreview : kept[k] \in 1..n
    BY <1>1, <1>3, <2>2, <2>6
  <2>8. \A j, k \in 1..MaxPreview : j < k => kept[j] < kept[k]
    BY <1>1, <1>3, <2>2, <2>6
  <2>9. kept[1] = 1 /\ kept[MaxPreview] = n
    BY <1>1, <1>3, <2>2, <2>6
  <2> QED
    BY <1>1, <1>3, <2>4, <2>5, <2>7, <2>8, <2>9
<1> QED
  BY <1>1, <1>2, <1>3

\* labels.ts, "a trace the browser could produce is never rejected here", and
\* redact.ts, the preview: whatever the trace, the server takes its structure
\* and its preview, and the preview shows how the session began and ended.
THEOREM SubmissionsServe == TracesSpec => []SubmissionServes
<1>1. ASSUME TracesTypeOK, ~Parsed.refused
      PROVE  /\ StructureAccepted(Structure(Parsed)) /\ PreviewAccepted(Preview(Parsed))
             /\ \A j, k \in DOMAIN Kept(Len(Parsed.roles)) : j < k => Kept(Len(Parsed.roles))[j] < Kept(Len(Parsed.roles))[k]
             /\ Kept(Len(Parsed.roles))[1] = 1
             /\ Kept(Len(Parsed.roles))[Len(Kept(Len(Parsed.roles)))] = Len(Parsed.roles)
             /\ Len(Kept(Len(Parsed.roles))) = IF Len(Parsed.roles) <= MaxPreview THEN Len(Parsed.roles) ELSE MaxPreview
  <2>1. PICK t, n, kept : t = Parsed /\ n = Len(t.roles) /\ kept = Kept(n)
    OBVIOUS
  <2>2. t \in Traces /\ t.roles # <<>>
    BY <1>1, <2>1, ParsedIs
  <2>3. /\ t.roles \in Seq(Roles) /\ n \in Nat \ {0} /\ t.outcome \in Outcomes
        /\ \A i \in 1..n : t.roles[i] \in Roles
    <3>1. t.roles \in Seq(Roles) /\ t.outcome \in Outcomes
      BY <2>2, TraceFields
    <3> QED
      BY <2>1, <2>2, <3>1
  <2>4. StructureAccepted(Structure(t))
    BY <2>2, <2>3, ToolNamesFit DEF StructureAccepted, Structure
  <2>5. /\ DOMAIN kept = 1..Len(kept) /\ Len(kept) = (IF n <= MaxPreview THEN n ELSE MaxPreview)
        /\ \A k \in DOMAIN kept : kept[k] \in 1..n
        /\ \A j, k \in DOMAIN kept : j < k => kept[j] < kept[k]
        /\ kept[1] = 1 /\ kept[Len(kept)] = n
    BY <2>1, <2>3, KeptIs
  <2>6. PreviewAccepted(Preview(t))
    <3>1. Preview(t) = [k \in 1..Len(kept) |-> t.roles[kept[k]]]
      BY <2>1, <2>5 DEF Preview
    <3>2. \A k \in 1..Len(kept) : t.roles[kept[k]] \in Roles
      BY <2>3, <2>5
    <3>3. Len(kept) \in 1..MaxPreview
      BY <2>3, <2>5, TracesAssumption
    <3>4. Len([k \in 1..Len(kept) |-> t.roles[kept[k]]]) = Len(kept)
      BY <3>3
    <3> QED
      BY <3>1, <3>2, <3>3, <3>4 DEF PreviewAccepted
  <2> QED
    BY <2>1, <2>4, <2>5, <2>6
<1>2. TracesTypeOK => SubmissionServes
  BY <1>1 DEF SubmissionServes, JobSpec
<1> QED
  BY <1>2, TracesTypeCorrect, PTL
=============================================================================
