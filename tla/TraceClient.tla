----------------------------- MODULE TraceClient -----------------------------
(***************************************************************************)
(* The client of the audit provider and the provider it speaks to, about   *)
(* one source record.  A call is one batch of one item, sent again after   *)
(* every transport failure and every retryable answer; a request given up  *)
(* by the client may still be on its way, and takes effect whenever it     *)
(* arrives.  The provider is what mock.ts has it be, plus the failures the *)
(* client's tests make of it.                                              *)
(*                                                                         *)
(* A document stands for everything the provider hashes of an item (root,  *)
(* body and, of an update, the root before); the time of the item is not   *)
(* part of it.                                                             *)
(***************************************************************************)
EXTENDS Naturals

CONSTANTS
  Calls,        \* calls of the client, the bound on them
  Documents,    \* metadata documents of the record
  Leaky,        \* those that carry a name, an address or the like
  Counts,       \* values of the asset's trace_update_count
  MaxAttempts,  \* config.maxAttempts
  MaxUpdates,   \* MAX_TRACE_UPDATES_PER_DATA_ID
  MaxVersion,   \* bound on published policies
  MaxFaults     \* bound on failures of network, provider and process

None == "none"

ASSUME TraceClientAssumption ==
  /\ None \notin Documents
  /\ Leaky \subseteq Documents
  /\ Counts \subseteq Nat
  /\ MaxAttempts \in Nat \ {0}
  /\ MaxUpdates \in Nat \ {0}
  /\ MaxVersion \in Nat \ {0}
  /\ MaxFaults \in Nat

VARIABLES
  call,        \* call[k]: local state of call k
  net,         \* requests and answers on their way
  registered,  \* the document the record was registered with
  history,     \* the updates of the registered record, by seq
  parked,      \* updates that came before the registration
  policy,      \* the provider's copy of the active policy
  published,   \* the version WTR shows
  faults       \* failures so far

service == <<registered, history, parked, policy>>
vars == <<call, net, registered, history, parked, policy, published, faults>>

Seqs == 1..MaxUpdates

\* Slot 0 is the registration, slot n update number n.
Slots == 0..MaxUpdates

Clean == Documents \ Leaky

Versions == 1..MaxVersion

Asks == [kind : {"record"}, slot : Slots, doc : Clean] \cup [kind : {"policy"}, doc : Versions]

Idle == [pc |-> "idle"]

\* failed: out of attempts; denied: refused for good; gone: its process stopped.
Outcomes == {"ok", "conflict", "failed", "denied", "gone"}

Locals == [pc : {"send", "wait", "sleep"} \cup Outcomes, ask : Asks, attempt : 1..MaxAttempts]

Replies == {"accepted", "duplicate", "conflict", "busy", "denied"}

Messages == [call : Calls, attempt : 1..MaxAttempts, ask : Asks, says : {"request"} \cup Replies]

\* Every variable has its type.
TypeOK ==
  /\ call \in [Calls -> {Idle} \cup Locals]
  /\ net \subseteq Messages
  /\ registered \in Documents \cup {None}
  /\ history \in [Seqs -> Documents \cup {None}]
  /\ parked \in [Seqs -> Documents \cup {None}]
  /\ policy \in Versions
  /\ published \in Versions
  /\ faults \in 0..MaxFaults

Init ==
  /\ call = [k \in Calls |-> Idle]
  /\ net = {}
  /\ registered = None
  /\ history = [n \in Seqs |-> None]
  /\ parked = [n \in Seqs |-> None]
  /\ policy = 1
  /\ published = 1
  /\ faults = 0

-----------------------------------------------------------------------------
\* The client.
Fail == faults < MaxFaults /\ faults' = faults + 1

Begin(k, a) ==
  /\ call[k] = Idle
  /\ call' = [call EXCEPT ![k] = [pc |-> "send", ask |-> a, attempt |-> 1]]
  /\ UNCHANGED <<net, service, published, faults>>

\* registerData.  A document that would leak is refused before it is sent.
RegisterData(k, d) == d \in Clean /\ Begin(k, [kind |-> "record", slot |-> 0, doc |-> d])

\* updateMetadata: at most MaxUpdates of one record, numbered by the caller's count.
UpdateMetadata(k, d, count) ==
  /\ count < MaxUpdates
  /\ d \in Clean
  /\ Begin(k, [kind |-> "record", slot |-> count + 1, doc |-> d])

\* pushProviderPolicy: the script pushes the version it finds published.
PushPolicy(k) == Begin(k, [kind |-> "policy", doc |-> published])

\* A new version of the terms is published; pushing it is a call of its own.
Publish ==
  /\ published < MaxVersion
  /\ published' = published + 1
  /\ UNCHANGED <<call, net, service, faults>>

Message(k, says) ==
  [call |-> k, attempt |-> call[k].attempt, ask |-> call[k].ask, says |-> says]

\* fetch: the same body and batch id on every attempt.
Send(k) ==
  /\ call[k].pc = "send"
  /\ net' = net \cup {Message(k, "request")}
  /\ call' = [call EXCEPT ![k].pc = "wait"]
  /\ UNCHANGED <<service, published, faults>>

\* Mutant of AfterFailure: the last attempt is not made.
AfterFailureShort(c) == IF c.attempt + 1 < MaxAttempts THEN "sleep" ELSE "failed"

\* Back off, or throw the last error.
AfterFailure(c) == IF c.attempt < MaxAttempts THEN "sleep" ELSE "failed"

\* What becomes of a call that is answered.
Decode(c, says) ==
  CASE says \in {"accepted", "duplicate"} -> "ok"
    [] says = "conflict" -> "conflict"
    [] says = "denied" -> "denied"
    [] OTHER -> AfterFailure(c)

Receive(k) ==
  \E s \in Replies :
    /\ call[k].pc = "wait"
    /\ Message(k, s) \in net
    /\ net' = net \ {Message(k, s)}
    /\ call' = [call EXCEPT ![k].pc = Decode(call[k], s)]
    /\ UNCHANGED <<service, published, faults>>

\* A transport failure: fetch throws, or the body is not JSON.  What was sent
\* and not lost stays on its way.
Break(k) ==
  /\ call[k].pc = "wait"
  /\ \/ Fail
     \/ /\ \A m \in net : ~ (m.call = k /\ m.attempt = call[k].attempt)
        /\ UNCHANGED faults
  /\ call' = [call EXCEPT ![k].pc = AfterFailure(call[k])]
  /\ UNCHANGED <<net, service, published>>

\* The back-off is over.
Wake(k) ==
  /\ call[k].pc = "sleep"
  /\ call' = [call EXCEPT ![k] = [@ EXCEPT !.pc = "send", !.attempt = call[k].attempt + 1]]
  /\ UNCHANGED <<net, service, published, faults>>

\* The process stops; another one may call again.
Die(k) ==
  /\ call[k].pc \in {"send", "wait", "sleep"}
  /\ Fail
  /\ call' = [call EXCEPT ![k].pc = "gone"]
  /\ UNCHANGED <<net, service, published>>

-----------------------------------------------------------------------------
\* The provider.
Held(s) ==
  IF s = 0 THEN registered
  ELSE IF registered = None THEN parked[s] ELSE history[s]

Reply(m, says) == net' = (net \ {m}) \cup {[m EXCEPT !.says = says]}

\* Mutant: the hash covers the attempt's own occurred_at.
VerdictDated(m) ==
  IF Held(m.ask.slot) = None THEN "accepted"
  ELSE IF Held(m.ask.slot) = m.ask.doc /\ m.attempt = 1 THEN "duplicate" ELSE "conflict"

Verdict(m) ==
  IF Held(m.ask.slot) = None THEN "accepted"
  ELSE IF Held(m.ask.slot) = m.ask.doc THEN "duplicate" ELSE "conflict"

\* Mutant: registering starts with no updates.
RegisterAfresh(d) ==
  /\ registered' = d
  /\ history' = [n \in Seqs |-> None]
  /\ parked' = [n \in Seqs |-> None]

\* The registration adopts what came before it.
Register(d) ==
  /\ registered' = d
  /\ history' = parked
  /\ parked' = [n \in Seqs |-> None]

Update(n, d) ==
  /\ IF registered = None
     THEN parked' = [parked EXCEPT ![n] = d] /\ UNCHANGED history
     ELSE history' = [history EXCEPT ![n] = d] /\ UNCHANGED parked
  /\ UNCHANGED registered

\* An item is taken, found again, or found with other content.  (The mock looks
\* the record up, waits for a hash and then compares: a registration in between
\* moves the very object it found.)
ServeRecord(m) ==
  /\ m.ask.kind = "record"
  /\ Reply(m, Verdict(m))
  /\ IF Held(m.ask.slot) # None
     THEN UNCHANGED <<registered, history, parked>>
     ELSE IF m.ask.slot = 0 THEN Register(m.ask.doc) ELSE Update(m.ask.slot, m.ask.doc)
  /\ UNCHANGED policy

ServePolicy(m) ==
  /\ m.ask.kind = "policy"
  /\ Reply(m, "accepted")
  /\ policy' = m.ask.doc
  /\ UNCHANGED <<registered, history, parked>>

Serve(m) ==
  /\ m.says = "request"
  /\ ServeRecord(m) \/ ServePolicy(m)
  /\ UNCHANGED <<call, published, faults>>

\* 429 and 5xx: not now.  Any other 4xx: not at all.
Refuse(m) ==
  /\ m.says = "request"
  /\ Fail
  /\ \E s \in {"busy", "denied"} : Reply(m, s)
  /\ UNCHANGED <<call, service, published>>

Lose(m) ==
  /\ Fail
  /\ net' = net \ {m}
  /\ UNCHANGED <<call, service, published>>

-----------------------------------------------------------------------------
Client(k) == Send(k) \/ Receive(k) \/ Break(k) \/ Wake(k)

Next ==
  \/ \E k \in Calls :
       \/ \E d \in Documents :
            RegisterData(k, d) \/ \E n \in Counts : UpdateMetadata(k, d, n)
       \/ PushPolicy(k)
       \/ Client(k)
       \/ Die(k)
  \/ \E m \in net : Serve(m) \/ Refuse(m) \/ Lose(m)
  \/ Publish

Spec == Init /\ [][Next]_vars

\* A call's own steps happen, fetch's time-outs included, and a request that is
\* neither refused nor lost is served.
FairSpec ==
  /\ Spec
  /\ \A k \in Calls : WF_vars(Client(k))
  /\ WF_vars(\E m \in net : Serve(m))

-----------------------------------------------------------------------------
\* What a call reports to the stage handler.
Told(k) ==
  IF call[k].pc \in {"ok", "conflict"} /\ call[k].ask.kind = "record"
  THEN {<<call[k].ask.slot, call[k].ask.doc, IF call[k].pc = "ok" THEN "held" ELSE "taken">>}
  ELSE {}

Provider == INSTANCE WriteOnce WITH
  slot <- [s \in Slots |-> IF Held(s) = None THEN {} ELSE {Held(s)}],
  verdict <- [k \in Calls |-> Told(k)]

\* However requests are delayed, repeated, lost and reordered, the provider and
\* its client together are write-once slots: a document a caller was told is
\* held stays, an update that came before its registration included, and a
\* conflict is reported only against other content.
ClaimsOnce == Provider!Spec

\* client.ts:10 and register.ts: sending one document again is safe; a call is
\* refused as a conflict only where another call offered another document.
ConflictHasRival ==
  \A k \in Calls : call[k].pc = "conflict" =>
    \E j \in Calls : /\ call[j] # Idle /\ call[j].ask.kind = "record"
                     /\ call[j].ask.slot = call[k].ask.slot
                     /\ call[j].ask.doc # call[k].ask.doc

\* While less goes wrong than a call has attempts, no call gives up: each one
\* learns what became of its document, unless it is denied or its process stops.
EventuallyAnswered ==
  \A k \in Calls :
    call[k].pc = "send" ~> call[k].pc \in Outcomes \ {"failed"} \/ faults >= MaxAttempts

\* Not guaranteed: once pushes have ended, the provider has the newest version
\* any of them was told it took.
PolicyIsNewest ==
  \A k \in Calls : call[k].pc = "ok" /\ call[k].ask.kind = "policy" => policy >= call[k].ask.doc

=============================================================================
