------------------------------- MODULE Upload -------------------------------
(***************************************************************************)
(* The resumable encrypted upload of one file: the browser seals the file  *)
(* chunk by chunk under a key it keeps in localStorage and PUTs each chunk *)
(* at the offset the server recorded; the server writes the chunk to the   *)
(* media store and then advances the offset in the asset row.  Nothing     *)
(* ties the two together, a request outlives the tab that sent it, and two *)
(* tabs or two devices of the creator may upload one asset at once.        *)
(*                                                                         *)
(* The plaintext is fixed (an asset is identified by its hash), so chunk c *)
(* of the ciphertext is known by the key it was sealed under.              *)
(***************************************************************************)
EXTENDS Naturals, FiniteSets

CONSTANTS
  Devices,     \* browsers: each has a localStorage
  Tabs,        \* tabs; each runs one uploadEncrypted at a time
  DeviceOf,    \* the device of each tab
  Keys,        \* the keys a browser may generate (a bound)
  NoKey,       \* null
  Size,        \* chunks of the file
  Backends,    \* "fs": one file; "parts": an object per chunk (Blob, R2)
  Overlap,     \* may an upload start while another, or its request, is active?
  FaultKinds,  \* "drop": the tab closes or a reply is lost; "crash": the
               \* request handler stops or a write fails
  MaxFaults    \* bound on faults

AllFaultKinds == {"drop", "crash"}

ASSUME UploadAssumption ==
  /\ DeviceOf \in [Tabs -> Devices]
  /\ Keys \cap {NoKey, "absent", "zeros"} = {}
  /\ Size \in Nat \ {0}
  /\ Backends \subseteq {"fs", "parts"}
  /\ Overlap \in BOOLEAN
  /\ FaultKinds \subseteq AllFaultKinds
  /\ MaxFaults \in Nat

VARIABLES
  begun,      \* asset.ciphertext_iv_base: the key of the upload
  received,   \* asset.ciphertext_received, in chunks
  complete,   \* asset.ciphertext_complete
  backend,    \* the media store of this deployment
  store,      \* chunk slot -> what the media store has there
  stored,     \* localStorage of each device
  used,       \* keys generated
  tab,        \* uploadEncrypted in each tab
  req,        \* the PUT request that the tab sent last
  faults

row     == <<begun, received, complete>>
browser == <<stored, used>>
vars    == <<row, backend, store, browser, tab, req, faults>>

Slots    == 0..(Size - 1)
Contents == Keys \cup {"absent", "zeros"}  \* zeros: a hole in a file
TabPcs   == {"idle", "generate", "status", "send", "wait", "done", "failed"}
ReqPcs   == {"none", "begin", "check", "look", "truncate", "open", "write", "update"}

TypeOK ==
  /\ begun \in Keys \cup {NoKey}
  /\ received \in 0..Size
  /\ complete = (received = Size)
  /\ backend \in Backends
  /\ store \in [Slots -> Contents]
  /\ stored \in [Devices -> Keys \cup {NoKey}]
  /\ used \subseteq Keys
  /\ tab \in [Tabs -> [pc: TabPcs, key: Keys \cup {NoKey}, offset: 0..Size]]
  /\ req \in [Tabs -> [pc: ReqPcs, key: Keys \cup {NoKey}, offset: 0..Size,
                       stale: SUBSET Slots]]
  /\ faults \in Nat

Working(t) == tab[t].pc \in {"generate", "status", "send", "wait"}
Serving(t) == req[t].pc # "none"

Init ==
  /\ begun = NoKey
  /\ received = 0
  /\ complete = FALSE
  /\ backend \in Backends
  /\ store = [c \in Slots |-> "absent"]
  /\ stored = [d \in Devices |-> NoKey]
  /\ used = {}
  /\ tab = [t \in Tabs |-> [pc |-> "idle", key |-> NoKey, offset |-> 0]]
  /\ req = [t \in Tabs |-> [pc |-> "none", key |-> NoKey, offset |-> 0, stale |-> {}]]
  /\ faults = 0

-----------------------------------------------------------------------------
(* The browser.                                                            *)

LoadedKey(t) == stored[DeviceOf[t]]

Start(t) ==
  /\ ~Working(t) /\ ~Serving(t)
  /\ Overlap \/ \A u \in Tabs : ~Working(u) /\ ~Serving(u)
  /\ tab' = [tab EXCEPT ![t] = [@ EXCEPT !.key = LoadedKey(t),
               !.pc = IF LoadedKey(t) = NoKey THEN "generate" ELSE "status"]]
  /\ UNCHANGED <<row, backend, store, browser, req, faults>>

Generate(t) ==
  /\ tab[t].pc = "generate"
  /\ \E k \in Keys \ used :
       /\ used' = used \cup {k}
       /\ stored' = [stored EXCEPT ![DeviceOf[t]] = k]
       /\ tab' = [tab EXCEPT ![t] = [@ EXCEPT !.key = k, !.pc = "status"]]
  /\ UNCHANGED <<row, backend, store, req, faults>>

\* The upload goes on from the recorded offset, unless chunks sealed under
\* another key are there already.
ReadStatus(t) ==
  /\ tab[t].pc = "status"
  /\ tab' = [tab EXCEPT ![t] = [@ EXCEPT !.offset = received,
               !.pc = CASE complete -> "done"
                           [] ~complete /\ received > 0 /\ begun # tab[t].key -> "failed"
                           [] OTHER -> "send"]]
  /\ UNCHANGED <<row, backend, store, browser, req, faults>>

Send(t) ==
  /\ tab[t].pc = "send"
  /\ tab' = [tab EXCEPT ![t].pc = "wait"]
  /\ req' = [req EXCEPT ![t] = [pc |-> IF tab[t].offset = 0 THEN "begin" ELSE "check",
                                key |-> tab[t].key, offset |-> tab[t].offset, stale |-> {}]]
  /\ UNCHANGED <<row, backend, store, browser, faults>>

-----------------------------------------------------------------------------
(* The request.                                                            *)

On(t, pc) == req[t].pc = pc
Continue(t, pc) == req' = [req EXCEPT ![t].pc = pc] /\ UNCHANGED tab

\* The request ends; the tab hears of it if it still waits.
Answer(t, pc) ==
  /\ req' = [req EXCEPT ![t] = [@ EXCEPT !.pc = "none", !.stale = {}]]
  /\ tab' = IF tab[t].pc = "wait" THEN [tab EXCEPT ![t].pc = pc] ELSE tab

\* Mutant of Begin: an upload that was begun may be begun again.
BeginAgain(t) ==
  /\ On(t, "begin")
  /\ begun' = req[t].key
  /\ Continue(t, "check")
  /\ UNCHANGED <<received, complete, backend, store, browser, faults>>

\* Mutant of Begin: beginning again is refused whatever the parameters.
BeginOnce(t) ==
  /\ On(t, "begin")
  /\ begun' = IF begun = NoKey THEN req[t].key ELSE begun
  /\ IF begun = NoKey THEN Continue(t, "check") ELSE Answer(t, "failed")
  /\ UNCHANGED <<received, complete, backend, store, browser, faults>>

\* beginUpload: one conditional UPDATE; beginning again with the same
\* parameters is accepted.
Begin(t) ==
  /\ On(t, "begin")
  /\ begun' = IF begun = NoKey THEN req[t].key ELSE begun
  /\ IF begun \in {NoKey, req[t].key} THEN Continue(t, "check") ELSE Answer(t, "failed")
  /\ UNCHANGED <<received, complete, backend, store, browser, faults>>

Acceptable(t) ==
  ~complete /\ begun # NoKey /\ req[t].key = begun /\ req[t].offset = received

\* Mutant of Check: the offset is advanced before the chunk is written.
CheckAdvances(t) ==
  /\ On(t, "check")
  /\ IF Acceptable(t)
     THEN /\ received' = req[t].offset + 1
          /\ complete' = (req[t].offset + 1 = Size)
          /\ Continue(t, "look")
     ELSE Answer(t, "failed") /\ UNCHANGED <<received, complete>>
  /\ UNCHANGED <<begun, backend, store, browser, faults>>

Check(t) ==
  /\ On(t, "check")
  /\ IF Acceptable(t) THEN Continue(t, "look") ELSE Answer(t, "failed")
  /\ UNCHANGED <<row, backend, store, browser, faults>>

Present == {c \in Slots : store[c] # "absent"}

\* truncateCiphertext, first half: the size of the file or the list of parts.
LookStale(t) ==
  /\ On(t, "look")
  /\ req' = [req EXCEPT ![t] = [@ EXCEPT !.pc = "truncate",
                        !.stale = {c \in Present : c >= req[t].offset}]]
  /\ UNCHANGED <<row, backend, store, browser, tab, faults>>

\* A file written, or cut, at a slot past its end is filled up with zeros.
Filled(c) == IF backend = "fs" /\ store[c] = "absent" THEN "zeros" ELSE store[c]

\* Second half: the file is cut at the offset, the parts listed are deleted.
Truncate(t) ==
  /\ On(t, "truncate")
  /\ store' =
       IF req[t].stale = {} THEN store
       ELSE [c \in Slots |->
               IF c < req[t].offset THEN Filled(c)
               ELSE IF backend = "fs" \/ c \in req[t].stale THEN "absent" ELSE store[c]]
  /\ Continue(t, IF backend = "fs" THEN "open" ELSE "write")
  /\ UNCHANGED <<row, backend, browser, faults>>

\* The file must reach up to the offset.
OpenFile(t) ==
  /\ On(t, "open")
  /\ IF Cardinality(Present) >= req[t].offset
     THEN Continue(t, "write") ELSE Answer(t, "failed")
  /\ UNCHANGED <<row, backend, store, browser, faults>>

WriteChunk(t) ==
  /\ On(t, "write")
  /\ store' = [c \in Slots |->
                 IF c = req[t].offset THEN req[t].key
                 ELSE IF c < req[t].offset THEN Filled(c) ELSE store[c]]
  /\ Continue(t, "update")
  /\ UNCHANGED <<row, backend, browser, faults>>

\* The new offset is computed from the one this request checked.
Update(t) ==
  /\ On(t, "update")
  /\ LET next == req[t].offset + 1 IN
     /\ received' = next
     /\ complete' = (next = Size)
     /\ req' = [req EXCEPT ![t] = [@ EXCEPT !.pc = "none", !.stale = {}]]
     /\ tab' = IF tab[t].pc # "wait" THEN tab
               ELSE [tab EXCEPT ![t] = [@ EXCEPT !.offset = next,
                                !.pc = IF next = Size THEN "done" ELSE "send"]]
  /\ UNCHANGED <<begun, backend, store, browser, faults>>

-----------------------------------------------------------------------------
Strike(kind) ==
  /\ kind \in FaultKinds
  /\ faults < MaxFaults
  /\ faults' = faults + 1

\* The tab closes, or its connection does; the request goes on.
Drop(t) ==
  /\ Working(t)
  /\ Strike("drop")
  /\ tab' = [tab EXCEPT ![t].pc = "failed"]
  /\ UNCHANGED <<row, backend, store, browser, req>>

Crash(t) ==
  /\ Serving(t)
  /\ Strike("crash")
  /\ Answer(t, "failed")
  /\ UNCHANGED <<row, backend, store, browser>>

Step(t) ==
  \/ Generate(t) \/ ReadStatus(t) \/ Send(t)
  \/ Begin(t) \/ Check(t) \/ LookStale(t) \/ Truncate(t) \/ OpenFile(t)
  \/ WriteChunk(t) \/ Update(t)

Next == \E t \in Tabs : Start(t) \/ Step(t) \/ Drop(t) \/ Crash(t)

Spec == Init /\ [][Next]_vars

\* Tabs and requests run on; the creator drops the file again in every tab
\* and gets a turn there.
FairSpec == Spec /\ \A t \in Tabs : WF_vars(Step(t)) /\ SF_vars(Start(t))
-----------------------------------------------------------------------------
(* Properties.                                                             *)

\* The recorded offset is backed by the media store: every chunk below it is
\* there, sealed under the key of the upload; a complete row is a whole file.
OffsetBacked == \A c \in Slots : c < received => store[c] = begun

\* The key the ciphertext can be opened with is kept in a browser.
KeyKept == begun # NoKey => \E d \in Devices : stored[d] = begun

\* An upload that told the creator it is done has made the row complete.
DoneIsComplete == \A t \in Tabs : tab[t].pc = "done" => complete

\* Every chunk the media store holds, below the offset or left behind above it
\* by a request that stopped, is sealed under the key the upload was begun
\* with: no other device and no later attempt mixes a second key in.
OneKey == \A c \in Slots : store[c] \in Keys => store[c] = begun

\* "A stale retry can never corrupt the file": once the row says complete and
\* no request is in progress, the media store has the whole file.
CompleteIsWhole ==
  complete /\ (\A t \in Tabs : ~Serving(t)) => \A c \in Slots : store[c] = begun

\* Dropping the file again after each failure completes the upload.
EventuallyComplete == <>[]complete
=============================================================================
