-------------------------- MODULE TraceClientProofs --------------------------
(***************************************************************************)
(* Theorems about TraceClient, for every number of calls, attempts, faults *)
(* and updates.  A slot that took a document keeps it, so what an answer   *)
(* says of a slot stays true while the answer is on its way, whatever is   *)
(* served, repeated or lost in between.                                    *)
(***************************************************************************)
EXTENDS TraceClient, TLAPS

\* A call's ask, once made, is the ask of all its messages.
Asked == \A m \in net : call[m.call] # Idle /\ call[m.call].ask = m.ask

\* What is said of the document d offered to a slot.
Conflicts(a) == a.kind = "record" /\ Held(a.slot) \notin {None, a.doc}

\* What an answer says is so.
Truthful ==
  \A m \in net :
    /\ m.ask.kind = "record" /\ m.says \in {"accepted", "duplicate"} => Held(m.ask.slot) = m.ask.doc
    /\ m.says = "conflict" => Conflicts(m.ask)

\* What a slot holds was offered by a call.
Offered ==
  \A s \in Slots : Held(s) # None =>
    \E j \in Calls : /\ call[j] # Idle /\ call[j].ask.kind = "record"
                     /\ call[j].ask.slot = s /\ call[j].ask.doc = Held(s)

\* A call that reports a conflict offered another document than its slot holds.
Learned == \A k \in Calls : call[k].pc = "conflict" => Conflicts(call[k].ask)

\* A call backs off only if it has an attempt left.
Tries == \A k \in Calls : call[k].pc = "sleep" => call[k].attempt < MaxAttempts

Inv == TypeOK /\ Asked /\ Truthful /\ Offered /\ Learned /\ Tries

\* Call k has gone on to pc, at attempt n.
Moved(k, pc, n) ==
  /\ call' \in [Calls -> {Idle} \cup Locals]
  /\ call'[k] # Idle /\ call'[k].ask = call[k].ask
  /\ call'[k].pc = pc /\ call'[k].attempt = n
  /\ \A j \in Calls \ {k} : call'[j] = call[j]

LEMMA InitInv == Init => Inv
<1> SUFFICES ASSUME Init PROVE Inv
  OBVIOUS
<1>1. TypeOK
  BY TraceClientAssumption DEF Init, TypeOK, Versions
<1>2. \A s \in Slots : Held(s) = None
  BY DEF Init, Held, Slots, Seqs
<1>3. \A k \in Calls : call[k].pc = "idle"
  BY DEF Init, Idle
<1> QED
  BY <1>1, <1>2, <1>3 DEF Init, Inv, Asked, Truthful, Offered, Learned, Tries

-----------------------------------------------------------------------------
\* Of what a call and a message are made.
LEMMA LocalOK ==
  ASSUME TypeOK, NEW k \in Calls
  PROVE  /\ call[k].pc = "idle" <=> call[k] = Idle
         /\ call[k].pc # "idle" => call[k] \in Locals
<1>1. call[k] \in {Idle} \cup Locals
  BY DEF TypeOK
<1>2. Idle.pc = "idle"
  BY DEF Idle
<1>3. \A c \in Locals : c.pc # "idle"
  BY DEF Locals, Outcomes
<1> QED
  BY <1>1, <1>2, <1>3

LEMMA AskOK ==
  ASSUME NEW a \in Asks
  PROVE  /\ a.kind \in {"record", "policy"}
         /\ a.kind = "record" => a.slot \in Slots /\ a.doc \in Clean /\ a.doc # None
         /\ a.kind = "policy" => a.doc \in Versions
BY TraceClientAssumption DEF Asks, Clean

\* A call that goes on keeps its ask.
LEMMA StepCall ==
  ASSUME TypeOK, NEW k \in Calls, call[k].pc # "idle",
         NEW pc \in {"send", "wait", "sleep"} \cup Outcomes, NEW n \in 1..MaxAttempts,
         call' = [call EXCEPT ![k] = [@ EXCEPT !.pc = pc, !.attempt = n]]
  PROVE  Moved(k, pc, n)
<1>1. PICK c \in Locals : c = call[k]
  BY LocalOK
<1> DEFINE d == [c EXCEPT !.pc = pc, !.attempt = n]
<1>2. d \in Locals /\ d.pc = pc /\ d.ask = c.ask /\ d.attempt = n
  BY DEF Locals
<1>3. call' = [call EXCEPT ![k] = d]
  BY <1>1 DEF TypeOK
<1>4. d # Idle
  BY <1>2 DEF Idle, Outcomes
<1> HIDE DEF d
<1> QED
  BY <1>1, <1>2, <1>3, <1>4 DEF TypeOK, Moved

LEMMA AttemptOK ==
  ASSUME TypeOK, NEW k \in Calls, call[k].pc # "idle", NEW pc,
         call' = [call EXCEPT ![k].pc = pc]
  PROVE  call' = [call EXCEPT ![k] = [@ EXCEPT !.pc = pc, !.attempt = call[k].attempt]]
<1>1. PICK c \in Locals : c = call[k]
  BY LocalOK
<1>2. [c EXCEPT !.pc = pc] = [c EXCEPT !.pc = pc, !.attempt = c.attempt]
  BY DEF Locals
<1> QED
  BY <1>1, <1>2 DEF TypeOK

LEMMA MoveCall ==
  ASSUME TypeOK, NEW k \in Calls, call[k].pc # "idle",
         NEW pc \in {"send", "wait", "sleep"} \cup Outcomes, call' = [call EXCEPT ![k].pc = pc]
  PROVE  Moved(k, pc, call[k].attempt)
<1>1. call[k].attempt \in 1..MaxAttempts
  BY LocalOK DEF Locals
<1>2. call' = [call EXCEPT ![k] = [@ EXCEPT !.pc = pc, !.attempt = call[k].attempt]]
  BY AttemptOK
<1> QED
  BY <1>1, <1>2, StepCall

LEMMA MessageOK ==
  ASSUME TypeOK, NEW k \in Calls, call[k].pc # "idle", NEW says \in {"request"} \cup Replies
  PROVE  /\ Message(k, says) \in Messages /\ Message(k, says).call = k
         /\ Message(k, says).ask = call[k].ask /\ Message(k, says).says = says
BY LocalOK DEF Message, Messages, Locals

\* New messages say nothing of a slot.
QuietNet ==
  \A m \in net' \ net :
    /\ call'[m.call] # Idle /\ call'[m.call].ask = m.ask
    /\ \/ m.says \in {"request", "busy", "denied"}
       \/ m.says = "accepted" /\ m.ask.kind = "policy"

\* A call keeps its ask, and a new conflict is one.
FaithfulCalls ==
  \A k \in Calls :
    /\ call[k] # Idle => call'[k] # Idle /\ call'[k].ask = call[k].ask
    /\ call'[k].pc = "conflict" => call[k] # Idle
    /\ call'[k].pc = "conflict" => (call[k].pc = "conflict" \/ Conflicts(call[k].ask))

\* With slots unchanged, what is said and what was learned stay true.
LEMMA SlotsUnchanged ==
  ASSUME Inv, TypeOK', Tries', UNCHANGED <<registered, history, parked>>, QuietNet, FaithfulCalls
  PROVE  Inv'
<1> USE DEF QuietNet, FaithfulCalls
<1>1. \A s : Held(s)' = Held(s)
  BY DEF Held
<1>2. \A a : Conflicts(a)' = Conflicts(a)
  BY <1>1 DEF Conflicts
<1>3. \A m \in net : m.call \in Calls
  BY DEF Inv, TypeOK, Messages
<1>4. Asked'
  BY <1>3 DEF Inv, Asked
<1>5. Truthful'
  BY <1>1, <1>2 DEF Inv, Truthful
<1>6. Offered'
  <2> SUFFICES ASSUME NEW s \in Slots, Held(s) # None
               PROVE \E j \in Calls : /\ call'[j] # Idle /\ call'[j].ask.kind = "record"
                                      /\ call'[j].ask.slot = s /\ call'[j].ask.doc = Held(s)
    BY <1>1 DEF Offered
  <2> QED
    BY DEF Inv, Offered
<1>7. Learned'
  <2> SUFFICES ASSUME NEW k \in Calls, call'[k].pc = "conflict" PROVE Conflicts(call[k].ask)'
    BY DEF Learned
  <2>1. call'[k].ask = call[k].ask /\ Conflicts(call[k].ask)
    BY DEF Inv, Learned
  <2> QED
    BY <1>1, <2>1 DEF Conflicts
<1> QED
  BY <1>4, <1>5, <1>6, <1>7 DEF Inv

-----------------------------------------------------------------------------
\* The client's steps leave the slots alone.

LEMMA BeginInv ==
  ASSUME Inv, NEW k \in Calls, NEW a \in Asks, Begin(k, a)
  PROVE  Inv'
<1> DEFINE c == [pc |-> "send", ask |-> a, attempt |-> 1]
<1>1. /\ call[k] = Idle /\ call' = [call EXCEPT ![k] = c]
      /\ UNCHANGED <<net, service, published, faults>>
  BY DEF Begin
<1>2. c \in Locals /\ c # Idle /\ c.pc = "send"
  BY TraceClientAssumption DEF Locals, Idle
<1> HIDE DEF c
<1>3. TypeOK'
  BY <1>1, <1>2 DEF Inv, TypeOK, service
<1>4. \A j \in Calls : call[j] # Idle => call'[j] = call[j]
  BY <1>1 DEF Inv, TypeOK
<1>5. \A j \in Calls : call'[j].pc = "conflict" => call'[j] = call[j] /\ call[j].pc = "conflict"
  BY <1>1, <1>2 DEF Inv, TypeOK
<1>6. \A j \in Calls : call[j].pc = "conflict" => call[j] # Idle
  BY DEF Idle
<1>7. Tries'
  BY <1>1, <1>2 DEF Inv, TypeOK, Tries
<1>8. QuietNet
  BY <1>1 DEF QuietNet
<1>9. FaithfulCalls
  BY <1>4, <1>5, <1>6 DEF FaithfulCalls
<1> QED
  BY <1>1, <1>3, <1>7, <1>8, <1>9, SlotsUnchanged DEF service

\* What a call is begun with.
LEMMA StartAsks ==
  ASSUME TypeOK, NEW k \in Calls,
         (\E d \in Documents : RegisterData(k, d) \/ \E n \in Counts : UpdateMetadata(k, d, n))
           \/ PushPolicy(k)
  PROVE  \E a \in Asks : Begin(k, a)
<1>1. CASE \E d \in Documents : RegisterData(k, d)
  <2>1. PICK d \in Clean : Begin(k, [kind |-> "record", slot |-> 0, doc |-> d])
    BY <1>1 DEF RegisterData
  <2>2. [kind |-> "record", slot |-> 0, doc |-> d] \in Asks
    BY TraceClientAssumption DEF Asks, Slots
  <2> QED
    BY <2>1, <2>2
<1>2. CASE \E d \in Documents : \E n \in Counts : UpdateMetadata(k, d, n)
  <2>1. PICK d \in Clean, n \in Counts :
          n < MaxUpdates /\ Begin(k, [kind |-> "record", slot |-> n + 1, doc |-> d])
    BY <1>2 DEF UpdateMetadata
  <2>2. n + 1 \in Slots
    BY <2>1, TraceClientAssumption DEF Slots
  <2>3. [kind |-> "record", slot |-> n + 1, doc |-> d] \in Asks
    BY <2>2 DEF Asks
  <2> QED
    BY <2>1, <2>3
<1>3. CASE PushPolicy(k)
  <2>1. [kind |-> "policy", doc |-> published] \in Asks
    BY DEF Asks, TypeOK
  <2> QED
    BY <1>3, <2>1 DEF PushPolicy
<1> QED
  BY <1>1, <1>2, <1>3

\* A call that sends, waits, backs off or stops learns nothing of a slot.
LEMMA ClientInv ==
  ASSUME Inv, NEW k \in Calls, Send(k) \/ Break(k) \/ Wake(k) \/ Die(k)
  PROVE  Inv'
<1>1. /\ call[k] # Idle /\ call[k].pc # "idle"
      /\ \A j \in Calls : call[j].pc = "conflict" => call[j] # Idle
  BY LocalOK DEF Send, Break, Wake, Die, Inv, Idle
<1>2. PICK pc \in {"send", "wait", "sleep", "failed", "gone"}, n \in 1..MaxAttempts :
        Moved(k, pc, n) /\ (pc = "sleep" => n < MaxAttempts)
  <2>1. call[k].attempt \in 1..MaxAttempts
    BY <1>1, LocalOK DEF Inv, Locals
  <2>2. CASE Send(k)
    BY <1>1, <2>1, <2>2, MoveCall DEF Send, Inv
  <2>3. CASE Break(k)
    <3>1. CASE call' = [call EXCEPT ![k].pc = "sleep"] /\ call[k].attempt < MaxAttempts
      BY <1>1, <2>1, <3>1, MoveCall DEF Inv
    <3>2. CASE call' = [call EXCEPT ![k].pc = "failed"]
      BY <1>1, <2>1, <3>2, MoveCall DEF Inv, Outcomes
    <3> QED
      BY <2>3, <3>1, <3>2 DEF Break, AfterFailure
  <2>4. CASE Wake(k)
    <3>1. call[k].attempt + 1 \in 1..MaxAttempts
      BY <2>1, <2>4, TraceClientAssumption DEF Wake, Inv, Tries
    <3>2. call' = [call EXCEPT ![k] = [@ EXCEPT !.pc = "send", !.attempt = call[k].attempt + 1]]
      BY <2>4 DEF Wake, Inv, TypeOK
    <3> QED
      BY <1>1, <3>1, <3>2, StepCall DEF Inv
  <2>5. CASE Die(k)
    BY <1>1, <2>1, <2>5, MoveCall DEF Die, Inv, Outcomes
  <2> QED
    BY <2>2, <2>3, <2>4, <2>5
<1>3. /\ UNCHANGED <<service, published>> /\ faults' \in 0..MaxFaults
      /\ \/ net' = net
         \/ net' = net \cup {Message(k, "request")}
  BY TraceClientAssumption DEF Send, Break, Wake, Die, Fail, Inv, TypeOK
<1>4. /\ Message(k, "request") \in Messages /\ Message(k, "request").call = k
      /\ Message(k, "request").ask = call[k].ask /\ Message(k, "request").says = "request"
  BY <1>1, MessageOK DEF Inv
<1>5. TypeOK'
  BY <1>2, <1>3, <1>4 DEF Inv, TypeOK, service, Moved
<1>6. \A j \in Calls : call[j] # Idle => call'[j] # Idle /\ call'[j].ask = call[j].ask
  BY <1>2 DEF Moved
<1>7. \A j \in Calls : call'[j].pc = "conflict" => call[j].pc = "conflict" /\ call[j] # Idle
  BY <1>1, <1>2 DEF Moved
<1>8. \A m \in net' \ net : call'[m.call] # Idle /\ call'[m.call].ask = m.ask /\ m.says = "request"
  BY <1>2, <1>3, <1>4 DEF Moved
<1>9. Tries'
  BY <1>2 DEF Inv, Tries, Moved
<1>10. UNCHANGED <<registered, history, parked>>
  BY <1>3 DEF service
<1>11. QuietNet
  BY <1>8 DEF QuietNet
<1>12. FaithfulCalls
  BY <1>6, <1>7 DEF FaithfulCalls
<1> QED
  BY <1>5, <1>9, <1>10, <1>11, <1>12, SlotsUnchanged

\* A call that is answered: a conflict it reports was said to be one.
LEMMA ReceiveInv ==
  ASSUME Inv, NEW k \in Calls, Receive(k)
  PROVE  Inv'
<1>1. PICK says \in Replies :
        /\ call[k].pc = "wait" /\ Message(k, says) \in net
        /\ net' = net \ {Message(k, says)}
        /\ call' = [call EXCEPT ![k].pc = Decode(call[k], says)]
        /\ UNCHANGED <<service, published, faults>>
  BY DEF Receive
<1>2. call[k] # Idle /\ call[k].pc # "idle" /\ call[k].attempt \in 1..MaxAttempts
  BY <1>1, LocalOK DEF Inv, Locals, Idle
<1>3. /\ Moved(k, call'[k].pc, call[k].attempt)
      /\ call'[k].pc = "sleep" => call[k].attempt < MaxAttempts
      /\ call'[k].pc = "conflict" => says = "conflict"
  <2>1. CASE says \in {"accepted", "duplicate"}
    <3>1. call' = [call EXCEPT ![k].pc = "ok"]
      BY <1>1, <2>1 DEF Decode
    <3>2. Moved(k, "ok", call[k].attempt)
      BY <1>2, <3>1, MoveCall DEF Inv, Outcomes
    <3> QED
      BY <2>1, <3>2 DEF Moved
  <2>2. CASE says = "conflict"
    <3>1. call' = [call EXCEPT ![k].pc = "conflict"]
      BY <1>1, <2>2 DEF Decode
    <3>2. Moved(k, "conflict", call[k].attempt)
      BY <1>2, <3>1, MoveCall DEF Inv, Outcomes
    <3> QED
      BY <2>2, <3>2 DEF Moved
  <2>3. CASE says = "denied"
    <3>1. call' = [call EXCEPT ![k].pc = "denied"]
      BY <1>1, <2>3 DEF Decode
    <3>2. Moved(k, "denied", call[k].attempt)
      BY <1>2, <3>1, MoveCall DEF Inv, Outcomes
    <3> QED
      BY <2>3, <3>2 DEF Moved
  <2>4. CASE says = "busy"
    <3>1. \/ call' = [call EXCEPT ![k].pc = "sleep"] /\ call[k].attempt < MaxAttempts
          \/ call' = [call EXCEPT ![k].pc = "failed"]
      BY <1>1, <2>4 DEF Decode, AfterFailure
    <3> QED
      BY <1>2, <3>1, MoveCall DEF Inv, Outcomes, Moved
  <2> QED
    BY <2>1, <2>2, <2>3, <2>4 DEF Replies
<1>4. says = "conflict" => Conflicts(call[k].ask)
  BY <1>1, <1>2, MessageOK DEF Inv, Truthful
<1>5. TypeOK' /\ Tries'
  BY <1>1, <1>3 DEF Inv, TypeOK, Tries, service, Moved
<1>6. QuietNet
  BY <1>1 DEF QuietNet
<1>7. \A j \in Calls : call[j].pc = "conflict" => call[j] # Idle
  BY DEF Idle
<1>8. FaithfulCalls
  BY <1>2, <1>3, <1>4, <1>7 DEF FaithfulCalls, Moved
<1> QED
  BY <1>1, <1>5, <1>6, <1>8, SlotsUnchanged DEF service

-----------------------------------------------------------------------------
\* The provider.

\* A request answered with says.
LEMMA ReplyOK ==
  ASSUME TypeOK, NEW m \in net, NEW says \in Replies, Reply(m, says)
  PROVE  \E a \in Messages : /\ net' = (net \ {m}) \cup {a}
                             /\ a.call = m.call /\ a.ask = m.ask /\ a.says = says
<1> DEFINE a == [m EXCEPT !.says = says]
<1>1. m \in Messages
  BY DEF TypeOK
<1>2. a \in Messages /\ a.call = m.call /\ a.ask = m.ask /\ a.says = says
  BY <1>1 DEF Messages
<1> QED
  BY <1>2 DEF Reply

\* The slot asked for takes the document if it has none; the others, and those
\* that have one, keep what they have.
LEMMA ServeSlots ==
  ASSUME TypeOK, NEW m \in net, ServeRecord(m)
  PROVE  /\ m.ask.slot \in Slots /\ m.ask.doc \in Clean /\ m.ask.doc # None
         /\ \A s \in Slots :
              Held(s)' = IF s = m.ask.slot /\ Held(s) = None THEN m.ask.doc ELSE Held(s)
         /\ registered' \in Documents \cup {None}
         /\ history' \in [Seqs -> Documents \cup {None}]
         /\ parked' \in [Seqs -> Documents \cup {None}]
<1>1. m.ask \in Asks /\ m.ask.kind = "record"
  BY DEF TypeOK, Messages, ServeRecord
<1> DEFINE n == m.ask.slot
           d == m.ask.doc
<1>2. n \in Slots /\ d \in Clean /\ d # None /\ d \in Documents
  BY <1>1, AskOK DEF Clean
<1>3. Slots = {0} \cup Seqs /\ 0 \notin Seqs
  BY TraceClientAssumption DEF Slots, Seqs
<1> HIDE DEF n, d
<1>4. CASE Held(n) # None
  <2>1. UNCHANGED <<registered, history, parked>>
    BY <1>4 DEF ServeRecord, n
  <2> QED
    BY <1>2, <1>4, <2>1 DEF Held, TypeOK, n, d
<1>5. CASE Held(n) = None /\ n = 0
  <2>1. Register(d) /\ registered = None
    BY <1>5 DEF ServeRecord, Held, n, d
  <2>2. /\ registered' = d /\ history' = parked /\ parked' = [s \in Seqs |-> None]
    BY <2>1 DEF Register
  <2>3. \A s \in Slots : Held(s)' = IF s = n /\ Held(s) = None THEN d ELSE Held(s)
    BY <1>2, <1>3, <1>5, <2>1, <2>2 DEF Held
  <2> QED
    BY <1>2, <2>2, <2>3 DEF TypeOK, n, d
<1>6. CASE Held(n) = None /\ n # 0
  <2>1. Update(n, d) /\ n \in Seqs
    BY <1>2, <1>3, <1>6 DEF ServeRecord, n, d
  <2>2. CASE registered = None
    <3>1. parked' = [parked EXCEPT ![n] = d] /\ UNCHANGED <<registered, history>>
      BY <2>1, <2>2 DEF Update
    <3>2. \A s \in Slots : Held(s)' = IF s = n /\ Held(s) = None THEN d ELSE Held(s)
      BY <1>3, <1>6, <2>1, <2>2, <3>1 DEF Held, TypeOK
    <3> QED
      BY <1>2, <3>1, <3>2 DEF TypeOK, n, d
  <2>3. CASE registered # None
    <3>1. history' = [history EXCEPT ![n] = d] /\ UNCHANGED <<registered, parked>>
      BY <2>1, <2>3 DEF Update
    <3>2. \A s \in Slots : Held(s)' = IF s = n /\ Held(s) = None THEN d ELSE Held(s)
      BY <1>3, <1>6, <2>1, <2>3, <3>1 DEF Held, TypeOK
    <3> QED
      BY <1>2, <3>1, <3>2 DEF TypeOK, n, d
  <2> QED
    BY <2>2, <2>3
<1> QED
  BY <1>4, <1>5, <1>6

\* What is said of a slot that has a document stays true.
LEMMA ServeRecordInv ==
  ASSUME Inv, NEW m \in net, m.says = "request", ServeRecord(m),
         UNCHANGED <<call, published, faults>>
  PROVE  Inv'
<1> DEFINE n == m.ask.slot
           d == m.ask.doc
<1>1. /\ n \in Slots /\ d \in Clean /\ d # None
      /\ \A s \in Slots : Held(s)' = IF s = n /\ Held(s) = None THEN d ELSE Held(s)
      /\ registered' \in Documents \cup {None}
      /\ history' \in [Seqs -> Documents \cup {None}]
      /\ parked' \in [Seqs -> Documents \cup {None}]
  BY ServeSlots DEF Inv
<1>2. m.ask.kind = "record" /\ policy' = policy
  BY DEF ServeRecord
<1>3. PICK says \in Replies :
        /\ Reply(m, says)
        /\ \/ says = "accepted" /\ Held(n) = None
           \/ says = "duplicate" /\ Held(n) = d
           \/ says = "conflict" /\ Held(n) \notin {None, d}
  BY DEF ServeRecord, Verdict, Replies
<1>4. PICK a \in Messages : /\ net' = (net \ {m}) \cup {a}
                            /\ a.call = m.call /\ a.ask = m.ask /\ a.says = says
  BY <1>3, ReplyOK DEF Inv
<1> HIDE DEF n, d
<1>5. \A b \in Asks : Conflicts(b) => Conflicts(b)'
  BY <1>1, AskOK DEF Conflicts
<1>6. TypeOK'
  BY <1>1, <1>2, <1>4 DEF Inv, TypeOK
<1>7. Asked'
  BY <1>4 DEF Inv, Asked
<1>8. Truthful'
  <2>1. \A x \in net : x.ask \in Asks
    BY DEF Inv, TypeOK, Messages
  <2>2. ASSUME NEW x \in net
        PROVE  /\ x.ask.kind = "record" /\ x.says \in {"accepted", "duplicate"}
                    => Held(x.ask.slot)' = x.ask.doc
               /\ x.says = "conflict" => Conflicts(x.ask)'
    <3>1. x.ask.kind = "record" => x.ask.slot \in Slots /\ x.ask.doc # None
      BY <2>1, AskOK
    <3> QED
      BY <1>1, <1>5, <2>1, <3>1 DEF Inv, Truthful
  <2>3. /\ a.says \in {"accepted", "duplicate"} => Held(n)' = d
        /\ a.says = "conflict" => Held(n)' \notin {None, d}
    BY <1>1, <1>3, <1>4
  <2>4. a.ask.slot = n /\ a.ask.doc = d /\ a.ask.kind = "record"
    BY <1>2, <1>4 DEF n, d
  <2> QED
    BY <1>4, <2>2, <2>3, <2>4 DEF Truthful, Conflicts
<1>9. Offered'
  <2>1. m.call \in Calls /\ call[m.call] # Idle /\ call[m.call].ask = m.ask
    BY DEF Inv, TypeOK, Messages, Asked
  <2> QED
    BY <1>1, <1>2, <2>1 DEF Inv, Offered, n, d
<1>10. Learned'
  <2> SUFFICES ASSUME NEW k \in Calls, call[k].pc = "conflict" PROVE Conflicts(call[k].ask)'
    BY DEF Learned
  <2>1. call[k].ask \in Asks /\ Conflicts(call[k].ask)
    BY LocalOK DEF Inv, Learned, Locals
  <2> QED
    BY <1>1, <2>1, AskOK DEF Conflicts
<1>11. Tries'
  BY DEF Inv, Tries
<1> QED
  BY <1>6, <1>7, <1>8, <1>9, <1>10, <1>11 DEF Inv

\* A policy, a refusal and a loss leave the slots alone.
LEMMA NetInv ==
  ASSUME Inv, NEW m \in net, (m.says = "request" /\ ServePolicy(m) /\ UNCHANGED <<call, published, faults>>)
                               \/ Refuse(m) \/ Lose(m)
  PROVE  Inv'
<1>1. /\ UNCHANGED <<call, published, registered, history, parked>>
      /\ policy' \in Versions /\ faults' \in 0..MaxFaults
  <2>1. m.ask.kind = "policy" => m.ask.doc \in Versions
    BY AskOK DEF Inv, TypeOK, Messages
  <2> QED
    BY <2>1, TraceClientAssumption DEF ServePolicy, Refuse, Lose, Fail, Inv, TypeOK, service
<1>2. \/ net' = net \ {m}
      \/ \E a \in Messages : /\ net' = (net \ {m}) \cup {a}
                             /\ a.call = m.call /\ a.ask = m.ask
                             /\ \/ a.says \in {"busy", "denied"}
                                \/ a.says = "accepted" /\ m.ask.kind = "policy"
  BY ReplyOK DEF ServePolicy, Refuse, Lose, Inv, Replies
<1>3. TypeOK' /\ Tries'
  BY <1>1, <1>2 DEF Inv, TypeOK, Tries
<1>4. call[m.call] # Idle /\ call[m.call].ask = m.ask
  BY DEF Inv, Asked
<1>5. QuietNet
  BY <1>1, <1>2, <1>4 DEF QuietNet
<1>6. \A j \in Calls : call[j].pc = "conflict" => call[j] # Idle
  BY DEF Idle
<1>7. FaithfulCalls
  BY <1>1, <1>6 DEF FaithfulCalls
<1> QED
  BY <1>1, <1>3, <1>5, <1>7, SlotsUnchanged

LEMMA NextInv ==
  ASSUME Inv, [Next]_vars
  PROVE  Inv'
<1>1. ASSUME NEW k \in Calls, Client(k) PROVE Inv'
  BY <1>1, ClientInv, ReceiveInv DEF Client
<1>2. ASSUME NEW m \in net, Serve(m) PROVE Inv'
  BY <1>2, ServeRecordInv, NetInv DEF Serve
<1>3. CASE Publish \/ UNCHANGED vars
  <2>1. TypeOK' /\ Tries'
    BY <1>3, TraceClientAssumption DEF Publish, vars, service, Inv, TypeOK, Versions, Tries
  <2>2. UNCHANGED <<call, net, registered, history, parked>>
    BY <1>3 DEF Publish, vars, service
  <2>3. \A j \in Calls : call[j].pc = "conflict" => call[j] # Idle
    BY DEF Idle
  <2>4. QuietNet /\ FaithfulCalls
    BY <2>2, <2>3 DEF QuietNet, FaithfulCalls
  <2> QED
    BY <2>1, <2>2, <2>4, SlotsUnchanged
<1>4. ASSUME NEW k \in Calls, \E a \in Asks : Begin(k, a) PROVE Inv'
  BY <1>4, BeginInv
<1> QED
  BY <1>1, <1>2, <1>3, <1>4, StartAsks, ClientInv, NetInv DEF Next, Inv

LEMMA AlwaysInv == Spec => []Inv
<1>1. Init => Inv
  BY InitInv
<1>2. Inv /\ [Next]_vars => Inv'
  BY NextInv
<1> QED
  BY <1>1, <1>2, PTL DEF Spec

\* Every variable has its type.
THEOREM TypeCorrect == Spec => []TypeOK
<1>1. Inv => TypeOK
  BY DEF Inv
<1> QED
  BY <1>1, AlwaysInv, PTL

\* Sending one document again is safe: a call is refused as a conflict only
\* where another call offered the slot another document.
THEOREM ConflictsHaveRivals == Spec => []ConflictHasRival
<1>1. Inv => ConflictHasRival
  <2> SUFFICES ASSUME Inv, NEW k \in Calls, call[k].pc = "conflict"
               PROVE \E j \in Calls : /\ call[j] # Idle /\ call[j].ask.kind = "record"
                                      /\ call[j].ask.slot = call[k].ask.slot
                                      /\ call[j].ask.doc # call[k].ask.doc
    BY DEF ConflictHasRival
  <2>1. /\ call[k].ask \in Asks /\ call[k].ask.kind = "record"
        /\ Held(call[k].ask.slot) \notin {None, call[k].ask.doc}
    BY LocalOK DEF Inv, Learned, Conflicts, Locals
  <2>2. call[k].ask.slot \in Slots
    BY <2>1, AskOK
  <2> QED
    BY <2>1, <2>2 DEF Inv, Offered
<1> QED
  BY <1>1, AlwaysInv, PTL

-----------------------------------------------------------------------------
\* The refinement.  What slot s holds and what call k was told, as functions.

SlotMap == [s \in Slots |-> IF Held(s) = None THEN {} ELSE {Held(s)}]

VerdictMap == [k \in Calls |-> Told(k)]

LEMMA SameSlots ==
  ASSUME UNCHANGED <<registered, history, parked>>
  PROVE  UNCHANGED SlotMap
BY DEF SlotMap, Held

\* A call that does not come to know of its slot was told nothing, and is.
LEMMA NothingTold ==
  ASSUME TypeOK, NEW k \in Calls, call[k].pc \notin {"ok", "conflict"},
         call'[k].pc \in {"ok", "conflict"} => call'[k].ask.kind # "record",
         \A j \in Calls \ {k} : call'[j] = call[j]
  PROVE  UNCHANGED VerdictMap
<1>1. \A j \in Calls : Told(j)' = Told(j)
  <2> SUFFICES ASSUME NEW j \in Calls PROVE Told(j)' = Told(j)
    OBVIOUS
  <2>1. CASE j = k
    BY <2>1 DEF Told
  <2>2. CASE j # k
    BY <2>2 DEF Told
  <2> QED
    BY <2>1, <2>2
<1> QED
  BY <1>1 DEF VerdictMap

LEMMA ClientStutters ==
  ASSUME Inv, NEW k \in Calls,
         (\E a \in Asks : Begin(k, a)) \/ Send(k) \/ Break(k) \/ Wake(k) \/ Die(k)
  PROVE  UNCHANGED <<SlotMap, VerdictMap>>
<1>1. UNCHANGED <<registered, history, parked>>
  BY DEF Begin, Send, Break, Wake, Die, service
<1>2. /\ call[k].pc \in {"idle", "send", "wait", "sleep"}
      /\ call'[k].pc \in {"send", "wait", "sleep", "failed", "gone"}
      /\ \A j \in Calls \ {k} : call'[j] = call[j]
  <2>1. CASE \E a \in Asks : Begin(k, a)
    BY <2>1 DEF Begin, Idle, Inv, TypeOK
  <2>2. CASE Send(k) \/ Wake(k) \/ Die(k)
    <3>1. call[k].pc # "idle" /\ call[k].pc \in {"send", "wait", "sleep"}
      BY <2>2 DEF Send, Wake, Die
    <3>2. call[k].attempt \in 1..MaxAttempts
      BY <3>1, LocalOK DEF Inv, Locals
    <3>3. CASE Send(k) \/ Die(k)
      <4>1. \E pc \in {"wait", "gone"} : Moved(k, pc, call[k].attempt)
        BY <3>1, <3>3, MoveCall DEF Send, Die, Inv, Outcomes
      <4> QED
        BY <3>1, <4>1 DEF Moved
    <3>4. CASE Wake(k)
      <4>1. call[k].attempt + 1 \in 1..MaxAttempts
        BY <3>2, <3>4, TraceClientAssumption DEF Wake, Inv, Tries
      <4>2. call' = [call EXCEPT ![k] = [@ EXCEPT !.pc = "send", !.attempt = call[k].attempt + 1]]
        BY <3>4 DEF Wake
      <4>3. Moved(k, "send", call[k].attempt + 1)
        BY <3>1, <4>1, <4>2, StepCall DEF Inv
      <4> QED
        BY <3>1, <4>3 DEF Moved
    <3> QED
      BY <2>2, <3>3, <3>4
  <2>3. CASE Break(k)
    <3>1. call' = [call EXCEPT ![k].pc = "sleep"] \/ call' = [call EXCEPT ![k].pc = "failed"]
      BY <2>3 DEF Break, AfterFailure
    <3>2. Moved(k, "sleep", call[k].attempt) \/ Moved(k, "failed", call[k].attempt)
      BY <2>3, <3>1, MoveCall DEF Break, Inv, Outcomes
    <3> QED
      BY <2>3, <3>2 DEF Break, Moved
  <2> QED
    BY <2>1, <2>2, <2>3
<1> QED
  BY <1>1, <1>2, SameSlots, NothingTold DEF Inv

\* An answer about a slot is what the slot holds.
LEMMA ReceiveTells ==
  ASSUME Inv, NEW k \in Calls, Receive(k)
  PROVE  [Provider!Next]_(Provider!vars)
<1>1. PICK says \in Replies :
        /\ call[k].pc = "wait" /\ Message(k, says) \in net
        /\ call' = [call EXCEPT ![k].pc = Decode(call[k], says)]
        /\ UNCHANGED <<registered, history, parked>>
  BY DEF Receive, service
<1>2. call[k] # Idle /\ call[k].pc # "idle" /\ call[k].ask \in Asks
  BY <1>1, LocalOK DEF Inv, Locals, Idle
<1>3. UNCHANGED SlotMap
  BY <1>1, SameSlots
<1> DEFINE n == call[k].ask.slot
           d == call[k].ask.doc
<1>4. CASE says \in {"accepted", "duplicate", "conflict"} /\ call[k].ask.kind = "record"
  <2> DEFINE verdict == IF says = "conflict" THEN "taken" ELSE "held"
  <2>1. n \in Slots /\ d \in Documents /\ d # None
    BY <1>2, <1>4, AskOK DEF Clean
  <2>2. Message(k, says).ask = call[k].ask /\ Message(k, says).says = says
    BY DEF Message
  <2>3. /\ says = "conflict" => Held(n) \notin {None, d}
        /\ says # "conflict" => Held(n) = d
    BY <1>1, <1>4, <2>2 DEF Inv, Truthful, Conflicts
  <2>4. Held(n) # None /\ verdict = IF {Held(n)} = {d} THEN "held" ELSE "taken"
    BY <2>1, <2>3
  <2>5. /\ call'[k].pc = IF says = "conflict" THEN "conflict" ELSE "ok"
        /\ call'[k].ask = call[k].ask
        /\ \A j \in Calls \ {k} : call'[j] = call[j]
    <3>1. CASE says = "conflict"
      <4>1. call' = [call EXCEPT ![k].pc = "conflict"]
        BY <1>1, <3>1 DEF Decode
      <4>2. Moved(k, "conflict", call[k].attempt)
        BY <1>2, <4>1, MoveCall DEF Inv, Outcomes
      <4> QED
        BY <3>1, <4>2 DEF Moved
    <3>2. CASE says \in {"accepted", "duplicate"}
      <4>1. call' = [call EXCEPT ![k].pc = "ok"]
        BY <1>1, <3>2 DEF Decode
      <4>2. Moved(k, "ok", call[k].attempt)
        BY <1>2, <4>1, MoveCall DEF Inv, Outcomes
      <4> QED
        BY <3>2, <4>2 DEF Moved
    <3> QED
      BY <1>4, <3>1, <3>2
  <2>6. Told(k) = {} /\ Told(k)' = {<<n, d, verdict>>}
    BY <1>1, <1>4, <2>5 DEF Told
  <2>7. \A j \in Calls \ {k} : Told(j)' = Told(j)
    BY <2>5 DEF Told
  <2> HIDE DEF n, d, verdict
  <2>8. VerdictMap' = [VerdictMap EXCEPT ![k] = {<<n, d, verdict>>}] /\ VerdictMap[k] = {}
    BY <2>6, <2>7 DEF VerdictMap
  <2>9. SlotMap[n] = {Held(n)} /\ SlotMap[n] # {}
    BY <2>1, <2>4 DEF SlotMap
  <2>10. Provider!Tell(k, n, d)
    BY <1>3, <2>4, <2>8, <2>9 DEF Provider!Tell, SlotMap, VerdictMap
  <2> QED
    BY <2>1, <2>10 DEF Provider!Next
<1>5. CASE ~(says \in {"accepted", "duplicate", "conflict"} /\ call[k].ask.kind = "record")
  <2>1. /\ call'[k].pc \in {"ok", "conflict"} => call'[k].ask.kind # "record"
        /\ \A j \in Calls \ {k} : call'[j] = call[j]
    <3>1. CASE says = "conflict"
      <4>1. Message(k, says).ask = call[k].ask /\ Message(k, says).says = says
        BY DEF Message
      <4> QED
        BY <1>1, <1>5, <3>1, <4>1 DEF Inv, Truthful, Conflicts
    <3>2. CASE says \in {"accepted", "duplicate"}
      <4>1. call' = [call EXCEPT ![k].pc = "ok"]
        BY <1>1, <3>2 DEF Decode
      <4>2. Moved(k, "ok", call[k].attempt)
        BY <1>2, <4>1, MoveCall DEF Inv, Outcomes
      <4> QED
        BY <1>5, <3>2, <4>2 DEF Moved
    <3>3. CASE says = "denied"
      <4>1. call' = [call EXCEPT ![k].pc = "denied"]
        BY <1>1, <3>3 DEF Decode
      <4>2. Moved(k, "denied", call[k].attempt)
        BY <1>2, <4>1, MoveCall DEF Inv, Outcomes
      <4> QED
        BY <4>2 DEF Moved
    <3>4. CASE says = "busy"
      <4>1. call' = [call EXCEPT ![k].pc = "sleep"] \/ call' = [call EXCEPT ![k].pc = "failed"]
        BY <1>1, <3>4 DEF Decode, AfterFailure
      <4>2. Moved(k, "sleep", call[k].attempt) \/ Moved(k, "failed", call[k].attempt)
        BY <1>2, <4>1, MoveCall DEF Inv, Outcomes
      <4> QED
        BY <4>2 DEF Moved
    <3> QED
      BY <3>1, <3>2, <3>3, <3>4 DEF Replies
  <2>2. UNCHANGED VerdictMap
    BY <1>1, <2>1, NothingTold DEF Inv
  <2> QED
    BY <1>3, <2>2 DEF Provider!vars, SlotMap, VerdictMap
<1> QED
  BY <1>4, <1>5

\* A slot takes the first document, and keeps it.
LEMMA ServeTakes ==
  ASSUME Inv, NEW m \in net, Serve(m)
  PROVE  [Provider!Next]_(Provider!vars)
<1>1. UNCHANGED VerdictMap
  BY DEF Serve, VerdictMap, Told
<1>2. CASE ServePolicy(m)
  <2>1. UNCHANGED SlotMap
    BY <1>2, SameSlots DEF ServePolicy
  <2> QED
    BY <1>1, <2>1 DEF Provider!vars, SlotMap, VerdictMap
<1>3. CASE ServeRecord(m)
  <2> DEFINE n == m.ask.slot
             d == m.ask.doc
  <2>1. /\ n \in Slots /\ d \in Clean /\ d # None
        /\ \A s \in Slots : Held(s)' = IF s = n /\ Held(s) = None THEN d ELSE Held(s)
    BY <1>3, ServeSlots DEF Inv
  <2> HIDE DEF n, d
  <2>2. CASE Held(n) = None
    <3>1. SlotMap' = [SlotMap EXCEPT ![n] = {d}] /\ SlotMap[n] = {}
      BY <2>1, <2>2 DEF SlotMap
    <3>2. Provider!Take(n, d)
      BY <1>1, <3>1 DEF Provider!Take, SlotMap, VerdictMap
    <3>3. d \in Documents
      BY <2>1 DEF Clean
    <3> QED
      BY <2>1, <3>2, <3>3 DEF Provider!Next
  <2>3. CASE Held(n) # None
    <3>1. UNCHANGED SlotMap
      BY <2>1, <2>3 DEF SlotMap
    <3> QED
      BY <1>1, <3>1 DEF Provider!vars, SlotMap, VerdictMap
  <2> QED
    BY <2>2, <2>3
<1> QED
  BY <1>2, <1>3 DEF Serve

LEMMA NextProvider ==
  ASSUME Inv, [Next]_vars
  PROVE  [Provider!Next]_(Provider!vars)
<1>1. ASSUME UNCHANGED <<SlotMap, VerdictMap>> PROVE [Provider!Next]_(Provider!vars)
  BY <1>1 DEF Provider!vars, SlotMap, VerdictMap
<1>2. ASSUME NEW k \in Calls,
             (\E d \in Documents : RegisterData(k, d) \/ \E n \in Counts : UpdateMetadata(k, d, n))
               \/ PushPolicy(k)
      PROVE  \E a \in Asks : Begin(k, a)
  BY <1>2, StartAsks DEF Inv
<1>3. ASSUME NEW m \in net, Refuse(m) \/ Lose(m) PROVE UNCHANGED <<SlotMap, VerdictMap>>
  <2>1. UNCHANGED <<call, registered, history, parked>>
    BY <1>3 DEF Refuse, Lose, service
  <2> QED
    BY <2>1, SameSlots DEF VerdictMap, Told
<1>4. CASE Publish \/ UNCHANGED vars
  <2>1. UNCHANGED <<call, registered, history, parked>>
    BY <1>4 DEF Publish, vars, service
  <2>2. UNCHANGED <<SlotMap, VerdictMap>>
    BY <2>1, SameSlots DEF VerdictMap, Told
  <2> QED
    BY <1>1, <2>2
<1>5. CASE \E m \in net : Serve(m) \/ Refuse(m) \/ Lose(m)
  BY <1>1, <1>3, <1>5, ServeTakes
<1>6. ASSUME NEW k \in Calls, Client(k) \/ Die(k) PROVE [Provider!Next]_(Provider!vars)
  BY <1>1, <1>6, ClientStutters, ReceiveTells DEF Client
<1>7. ASSUME NEW k \in Calls, \E a \in Asks : Begin(k, a) PROVE [Provider!Next]_(Provider!vars)
  BY <1>1, <1>7, ClientStutters
<1> QED
  BY <1>2, <1>4, <1>5, <1>6, <1>7 DEF Next

\* However requests are delayed, repeated, lost and reordered, the provider and
\* its client are write-once slots that tell the truth.
THEOREM ClientIsWriteOnce == Spec => ClaimsOnce
<1>1. Init => Provider!Init
  <2> SUFFICES ASSUME Init PROVE Provider!Init
    OBVIOUS
  <2>1. \A s \in Slots : Held(s) = None
    BY DEF Init, Held, Slots, Seqs
  <2>2. \A k \in Calls : Told(k) = {}
    BY DEF Init, Told, Idle
  <2> QED
    BY <2>1, <2>2 DEF Provider!Init
<1>2. Inv /\ [Next]_vars => [Provider!Next]_(Provider!vars)
  BY NextProvider
<1> QED
  BY <1>1, <1>2, AlwaysInv, PTL DEF Spec, ClaimsOnce, Provider!Spec
=============================================================================
