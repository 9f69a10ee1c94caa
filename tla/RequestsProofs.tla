--------------------------- MODULE RequestsProofs ---------------------------
(***************************************************************************)
(* Theorems about Requests, for every set of accounts, works, briefs and   *)
(* sessions.  A brief's terms never change once it is posted, a listing    *)
(* keeps its terms and a verified creator stays verified, so what a call   *)
(* of submitAsset checked statement by statement is still so when it       *)
(* inserts --- except that the brief is open and the work on offer.        *)
(***************************************************************************)
EXTENDS Requests, TLAPS

\* What a submission of a to q rests on, and no later step takes back.
Apart(q, a) == Posted(q) /\ request[q].poster # OwnerOf[a]

Vetted(q, a) == request[q].kyc => OwnerOf[a] \in verified

Terms(q, a) == listing[a].status # "none" /\ listing[a].preset = request[q].preset

\* What a call with local state c has checked.
Knows(c) ==
  /\ c.pc # "idle" => Apart(c.req, c.asset)
  /\ c.pc \in {"eligible", "insert"} => Vetted(c.req, c.asset)
  /\ c.pc = "insert" => Terms(c.req, c.asset)

RowsRest == \A r \in rows : Apart(r.req, r.asset) /\ Vetted(r.req, r.asset) /\ Terms(r.req, r.asset)

\* The constraint submission_unique.
Single == \A r, x \in rows : r.req = x.req /\ r.asset = x.asset => r = x

Funds == \A q \in Requests : Posted(q) =>
           FundingRules(request[q].budget, request[q].mode, request[q].paid)

Inv == TypeOK /\ RowsRest /\ Single /\ Funds /\ \A s \in Sessions : Knows(session[s])

\* No step changes a posted brief's terms and money, a listing's terms, or
\* takes a listing or a verification back.
Kept ==
  /\ \A q \in Requests : Posted(q) =>
       /\ request'[q] # NoRequest
       /\ request'[q].poster = request[q].poster /\ request'[q].kyc = request[q].kyc
       /\ request'[q].preset = request[q].preset /\ request'[q].budget = request[q].budget
       /\ request'[q].mode = request[q].mode /\ request'[q].paid = request[q].paid
  /\ verified \subseteq verified'
  /\ \A a \in Assets : /\ listing'[a].preset = listing[a].preset
                       /\ listing[a].status # "none" => listing'[a].status # "none"

LEMMA InitInv == Init => Inv
<1> SUFFICES ASSUME Init PROVE Inv
  OBVIOUS
<1>1. \A s \in Sessions : session[s].pc = "idle"
  BY DEF Init, Idle
<1>2. listing \in [Assets -> [status : {"none", "active", "withdrawn"}, preset : Presets]]
  BY DEF Init
<1>3. form \in [budget : Nat, mode : Modes, amount : Nat]
  BY DEF Init, EmptyForm, Modes
<1>4. TypeOK
  BY <1>2, <1>3 DEF Init, TypeOK
<1> QED
  BY <1>1, <1>4 DEF Init, Inv, RowsRest, Single, Funds, Posted, Knows

LEMMA BriefOK ==
  ASSUME TypeOK, NEW q \in Requests
  PROVE  Posted(q) <=> request[q] \in Briefs
<1>1. NoRequest \notin Briefs
  BY DEF NoRequest, Briefs
<1> QED
  BY <1>1 DEF TypeOK, Posted

LEMMA CallOK ==
  ASSUME TypeOK, NEW s \in Sessions, session[s].pc # "idle"
  PROVE  session[s] \in Calls /\ session[s].req \in Requests /\ session[s].asset \in Assets
BY DEF TypeOK, Calls, Idle

LEMMA RowOK ==
  ASSUME TypeOK, NEW r \in rows
  PROVE  r.id \in Subs /\ r.req \in Requests /\ r.asset \in Assets
         /\ r.status \in {"pending", "accepted", "rejected"}
BY DEF TypeOK, Submissions

LEMMA Rests ==
  ASSUME Kept, NEW q \in Requests, NEW a \in Assets, Apart(q, a)
  PROVE  /\ Apart(q, a)'
         /\ Vetted(q, a) => Vetted(q, a)'
         /\ Terms(q, a) => Terms(q, a)'
BY DEF Kept, Apart, Posted, Vetted, Terms

LEMMA FundsKept ==
  ASSUME Inv, Kept, \A q \in Requests : Posted(q) \/ request'[q] = request[q]
  PROVE  Funds'
BY DEF Inv, Funds, Kept, Posted, FundingRules

\* What the sessions know stays true, of the one that moves if it checked it.
LEMMA SessionsKept ==
  ASSUME Inv, Kept, NEW s \in Sessions, NEW c \in Calls \cup {Idle},
         session' = [session EXCEPT ![s] = c], Knows(c)
  PROVE  session' \in [Sessions -> Calls \cup {Idle}] /\ \A x \in Sessions : Knows(session[x])'
<1>1. session' \in [Sessions -> Calls \cup {Idle}]
  BY DEF Inv, TypeOK
<1>2. ASSUME NEW d \in Calls \cup {Idle}, Knows(d) PROVE Knows(d)'
  <2>1. d.pc # "idle" => d.req \in Requests /\ d.asset \in Assets
    BY DEF Calls, Idle
  <2> QED
    BY <1>2, <2>1, Rests DEF Knows
<1>3. ASSUME NEW x \in Sessions PROVE Knows(session[x])'
  <2>1. PICK d \in Calls \cup {Idle} : d = session'[x]
    BY <1>1
  <2>2. Knows(d)
    BY <2>1 DEF Inv, TypeOK
  <2>3. Knows(d)'
    BY <1>2, <2>2
  <2> QED
    BY <2>1, <2>3
<1> QED
  BY <1>1, <1>3

LEMMA RowsKept ==
  ASSUME Inv, Kept, UNCHANGED rows
  PROVE  RowsRest' /\ Single'
BY RowOK, Rests DEF Inv, RowsRest, Single

\* A step that leaves submissions and sessions alone.
LEMMA AroundInv ==
  ASSUME Inv, Kept, UNCHANGED <<rows, session>>, TypeOK', Funds'
  PROVE  Inv'
<1>1. ASSUME NEW x \in Sessions PROVE Knows(session[x])'
  <2>1. Knows(session[x]) /\ (session[x].pc # "idle" => session[x].req \in Requests /\ session[x].asset \in Assets)
    BY CallOK DEF Inv
  <2> QED
    BY <2>1, Rests DEF Knows
<1> QED
  BY <1>1, RowsKept DEF Inv

-----------------------------------------------------------------------------
\* Posting and closing.

LEMMA TenthOK ==
  ASSUME NEW b \in Nat
  PROVE  Tenth(b) \in Nat
<1> DEFINE g == 10 * Grain
           d == (b + 5 * Grain) \div g
<1>1. g \in Nat \ {0} /\ b + 5 * Grain \in Nat
  BY RequestsAssumption
<1> HIDE DEF g
<1>2. d \in Nat
  BY <1>1
<1> HIDE DEF d
<1>3. d * Grain \in Nat
  BY <1>2, RequestsAssumption
<1> QED
  BY <1>3 DEF Tenth, d, g

\* What the form fills in is a sum.
LEMMA SuggestedOK ==
  ASSUME NEW b \in Nat, NEW m
  PROVE  Suggested(b, m) \in Nat
  BY TenthOK DEF Suggested

LEMMA FormInv ==
  ASSUME Inv, (\E n \in Amounts : TypeBudget(n) \/ TypeAmount(n)) \/ (\E m \in Modes : ChooseFunding(m))
  PROVE  Inv'
<1>1. UNCHANGED <<listing, verified, request, past, rows, log, session>>
  BY DEF TypeBudget, TypeAmount, ChooseFunding
<1>2. form' \in [budget : Nat, mode : Modes, amount : Nat]
  <2>1. form \in [budget : Nat, mode : Modes, amount : Nat] /\ Amounts \subseteq Nat
    BY RequestsAssumption DEF Inv, TypeOK
  <2>2. CASE \E n \in Amounts : TypeAmount(n)
    BY <2>1, <2>2 DEF TypeAmount
  <2>4. ASSUME NEW n \in Amounts, TypeBudget(n)
        PROVE  form' \in [budget : Nat, mode : Modes, amount : Nat]
    <3>1. n \in Nat /\ form.mode \in Modes /\ Suggested(n, form.mode) \in Nat
      BY <2>1, SuggestedOK
    <3> QED
      BY <2>4, <3>1 DEF TypeBudget
  <2>3. ASSUME NEW m \in Modes, ChooseFunding(m)
        PROVE  form' \in [budget : Nat, mode : Modes, amount : Nat]
    <3>1. form.budget \in Nat /\ Suggested(form.budget, m) \in Nat
      BY <2>1, SuggestedOK
    <3> QED
      BY <2>3, <3>1 DEF ChooseFunding
  <2> QED
    BY <2>2, <2>3, <2>4
<1>3. Kept
  BY <1>1 DEF Kept, Posted
<1>4. TypeOK'
  BY <1>1, <1>2 DEF Inv, TypeOK
<1> QED
  BY <1>1, <1>3, <1>4, FundsKept, AroundInv

LEMMA PostInv ==
  ASSUME Inv, NEW c \in Accounts, NEW q \in Requests, NEW p \in Presets,
         NEW k \in BOOLEAN, NEW d \in BOOLEAN, Post(c, q, p, k, d)
  PROVE  Inv'
<1> DEFINE b == [status |-> "open", poster |-> c, preset |-> p, kyc |-> k, deadline |-> d,
                 budget |-> Posting.budget, mode |-> Posting.mode, paid |-> Posting.paid]
<1>1. /\ request[q] = NoRequest /\ request' = [request EXCEPT ![q] = b] /\ form' = EmptyForm
      /\ FundingRules(Posting.budget, Posting.mode, Posting.paid)
      /\ UNCHANGED <<listing, verified, past, rows, log, session>>
  BY DEF Post
<1>2. Posting.budget \in Nat /\ Posting.mode \in Modes /\ Posting.paid \in Nat
  <2>1. form \in [budget : Nat, mode : Modes, amount : Nat]
    BY DEF Inv, TypeOK
  <2>2. PICK n \in Nat : Posting = [budget |-> form.budget, mode |-> form.mode, paid |-> n]
    BY <2>1 DEF Posting
  <2> QED
    BY <2>1, <2>2
<1>3. b \in Briefs
  BY <1>2 DEF Briefs
<1>4. b.budget = Posting.budget /\ b.mode = Posting.mode /\ b.paid = Posting.paid
  OBVIOUS
<1> HIDE DEF b
<1>5. FundingRules(b.budget, b.mode, b.paid)
  BY <1>1, <1>4
<1>6. Kept
  BY <1>1 DEF Kept, Posted, Inv, TypeOK
<1>7. form' \in [budget : Nat, mode : Modes, amount : Nat]
  BY <1>1 DEF EmptyForm, Modes
<1>8. TypeOK'
  BY <1>1, <1>3, <1>7 DEF Inv, TypeOK
<1>9. Funds'
  <2> SUFFICES ASSUME NEW x \in Requests, request'[x] # NoRequest
               PROVE FundingRules(request'[x].budget, request'[x].mode, request'[x].paid)
    BY DEF Funds, Posted
  <2>1. CASE x = q
    BY <1>1, <1>5, <2>1 DEF Inv, TypeOK
  <2>2. CASE x # q
    BY <1>1, <2>2 DEF Inv, TypeOK, Funds, Posted
  <2> QED
    BY <2>1, <2>2
<1> QED
  BY <1>1, <1>6, <1>8, <1>9, AroundInv

LEMMA CloseInv ==
  ASSUME Inv, NEW c \in Accounts, NEW q \in Requests, Close(c, q)
  PROVE  Inv'
<1>1. /\ request[q].status = "open" /\ request' = [request EXCEPT ![q].status = "closed"]
      /\ UNCHANGED <<listing, verified, past, rows, log, session, form>>
  BY DEF Close
<1>2. PICK b \in Briefs : b = request[q]
  BY <1>1 DEF Inv, TypeOK, NoRequest
<1> DEFINE d == [b EXCEPT !.status = "closed"]
<1>3. /\ d \in Briefs /\ d.poster = b.poster /\ d.kyc = b.kyc /\ d.preset = b.preset
      /\ d.budget = b.budget /\ d.mode = b.mode /\ d.paid = b.paid
  BY DEF Briefs
<1>4. request' = [request EXCEPT ![q] = d]
  BY <1>1, <1>2 DEF Inv, TypeOK
<1>5. d # NoRequest
  BY <1>3 DEF Briefs, NoRequest
<1> HIDE DEF d
<1>6. request' \in [Requests -> Briefs \cup {NoRequest}]
  BY <1>3, <1>4 DEF Inv, TypeOK
<1>7. Kept
  <2>1. \A x \in Requests : request'[x] = IF x = q THEN d ELSE request[x]
    BY <1>4 DEF Inv, TypeOK
  <2> QED
    BY <1>1, <1>2, <1>3, <1>5, <2>1 DEF Kept, Posted
<1>8. TypeOK'
  BY <1>1, <1>6 DEF Inv, TypeOK
<1>9. Funds'
  <2>1. \A x \in Requests : Posted(x) \/ request'[x] = request[x]
    BY <1>2, <1>4 DEF Posted, Inv, TypeOK, Briefs, NoRequest
  <2> QED
    BY <1>7, <2>1, FundsKept
<1> QED
  BY <1>1, <1>7, <1>8, <1>9, AroundInv

\* Listings, withdrawals, deadlines and the KYC flag.
LEMMA WorldInv ==
  ASSUME Inv, (\E a \in Assets : List(a) \/ Withdraw(a)) \/ (\E c \in Accounts : Verify(c))
                \/ (\E q \in Requests : Pass(q))
  PROVE  Inv'
<1>1. UNCHANGED <<request, rows, log, session, form>>
  BY DEF List, Withdraw, Verify, Pass
<1>2. /\ listing' \in [Assets -> [status : {"none", "active", "withdrawn"}, preset : Presets]]
      /\ \A a \in Assets : /\ listing'[a].preset = listing[a].preset
                           /\ listing[a].status # "none" => listing'[a].status # "none"
  BY DEF List, Withdraw, Verify, Pass, Inv, TypeOK
<1>3. verified \subseteq verified' /\ verified' \subseteq Accounts /\ past' \subseteq Requests
  BY DEF List, Withdraw, Verify, Pass, Inv, TypeOK
<1>4. Kept
  BY <1>1, <1>2, <1>3 DEF Kept, Posted
<1>5. TypeOK'
  BY <1>1, <1>2, <1>3 DEF Inv, TypeOK
<1> QED
  BY <1>1, <1>4, <1>5, FundsKept, AroundInv

-----------------------------------------------------------------------------
\* submitAsset.

LEMMA StillKept ==
  ASSUME UNCHANGED <<listing, verified, request>>
  PROVE  Kept
BY DEF Kept, Posted

\* Where a session goes on.
Onward == {"idle", "kyc", "eligible", "insert"}

LEMMA GotoIs ==
  ASSUME Inv, NEW s \in Sessions, session[s].pc # "idle", NEW pc \in Onward, Goto(s, pc)
  PROVE  \E c \in Calls \cup {Idle} :
           /\ session' = [session EXCEPT ![s] = c] /\ c.pc = pc
           /\ pc # "idle" => c.req = session[s].req /\ c.asset = session[s].asset
<1>1. session[s].req \in Requests /\ session[s].asset \in Assets
  BY CallOK DEF Inv
<1>2. CASE pc = "idle"
  <2>1. session' = [session EXCEPT ![s] = Idle] /\ Idle.pc = "idle"
    BY <1>2 DEF Goto, Idle
  <2> QED
    BY <1>2, <2>1
<1>3. CASE pc # "idle"
  <2> DEFINE c == [pc |-> pc, req |-> session[s].req, asset |-> session[s].asset]
  <2>1. c \in Calls
    BY <1>1, <1>3 DEF Calls, Onward
  <2>2. session' = [session EXCEPT ![s] = c]
    BY <1>3 DEF Goto
  <2>3. c.pc = pc /\ c.req = session[s].req /\ c.asset = session[s].asset
    OBVIOUS
  <2> HIDE DEF c
  <2> QED
    BY <2>1, <2>2, <2>3
<1> QED
  BY <1>2, <1>3

\* A session that goes on, and knows enough to be where it is.
LEMMA GotoInv ==
  ASSUME Inv, NEW s \in Sessions, session[s].pc # "idle",
         NEW pc \in Onward, Goto(s, pc),
         pc \in {"eligible", "insert"} => Vetted(session[s].req, session[s].asset),
         pc = "insert" => Terms(session[s].req, session[s].asset),
         UNCHANGED <<listing, verified, request>>
  PROVE  session' \in [Sessions -> Calls \cup {Idle}] /\ \A x \in Sessions : Knows(session[x])'
<1> DEFINE q == session[s].req
           a == session[s].asset
<1>1. q \in Requests /\ a \in Assets /\ Apart(q, a)
  BY CallOK DEF Inv, Knows
<1>2. PICK c \in Calls \cup {Idle} :
        /\ session' = [session EXCEPT ![s] = c] /\ c.pc = pc
        /\ pc # "idle" => c.req = q /\ c.asset = a
  BY GotoIs
<1>3. Knows(c)
  BY <1>1, <1>2 DEF Knows
<1>4. Kept
  BY StillKept
<1> QED
  BY <1>2, <1>3, <1>4, SessionsKept

\* With submissions unchanged, the steps of a session.
LEMMA CallInv ==
  ASSUME Inv, NEW s \in Sessions,
         ReadRequest(s) \/ CheckKyc(s) \/ CheckEligible(s) \/ Abort(s)
  PROVE  Inv'
<1>1. /\ session[s].pc # "idle"
      /\ UNCHANGED <<listing, verified, request, past, rows, log, form>>
  BY DEF ReadRequest, CheckKyc, CheckEligible, Abort, Inv, TypeOK, Calls, Idle
<1>2. Knows(session[s])
  BY DEF Inv
<1>3. PICK pc \in Onward :
        /\ Goto(s, pc)
        /\ pc \in {"eligible", "insert"} => Vetted(session[s].req, session[s].asset)
        /\ pc = "insert" => Terms(session[s].req, session[s].asset)
  <2>1. CASE ReadRequest(s)
    BY <2>1 DEF ReadRequest, Vetted, Onward
  <2>2. CASE CheckKyc(s)
    BY <2>2 DEF CheckKyc, Vetted, Onward
  <2>3. CASE CheckEligible(s)
    BY <1>2, <2>3 DEF CheckEligible, Eligible, Terms, Knows, Onward
  <2>4. CASE Abort(s)
    BY <2>4 DEF Abort, Onward
  <2> QED
    BY <2>1, <2>2, <2>3, <2>4
<1>4. session' \in [Sessions -> Calls \cup {Idle}] /\ \A x \in Sessions : Knows(session[x])'
  BY <1>1, <1>3, GotoInv
<1>5. Kept
  BY <1>1, StillKept
<1>6. TypeOK'
  BY <1>1, <1>4 DEF Inv, TypeOK
<1>7. Funds' /\ RowsRest' /\ Single'
  BY <1>1, <1>5, FundsKept, RowsKept
<1> QED
  BY <1>4, <1>6, <1>7 DEF Inv

LEMMA StartInv ==
  ASSUME Inv, NEW s \in Sessions, NEW q \in Requests, NEW a \in Assets, Start(s, q, a)
  PROVE  Inv'
<1> DEFINE c == [pc |-> "request", req |-> q, asset |-> a]
<1>1. /\ session' = [session EXCEPT ![s] = c] /\ Apart(q, a)
      /\ UNCHANGED <<listing, verified, request, past, rows, log, form>>
  BY DEF Start, OfferSubmit, Apart
<1>2. c \in Calls /\ Knows(c)
  BY <1>1 DEF Calls, Knows
<1> HIDE DEF c
<1>3. Kept
  BY <1>1, StillKept
<1>4. session' \in [Sessions -> Calls \cup {Idle}] /\ \A x \in Sessions : Knows(session[x])'
  BY <1>1, <1>2, <1>3, SessionsKept
<1>5. TypeOK'
  BY <1>1, <1>4 DEF Inv, TypeOK
<1>6. Funds' /\ RowsRest' /\ Single'
  BY <1>1, <1>3, FundsKept, RowsKept
<1> QED
  BY <1>4, <1>5, <1>6 DEF Inv

\* What an insert adds, if it adds anything.
LEMMA InsertIs ==
  ASSUME Inv, NEW s \in Sessions, Insert(s)
  PROVE  /\ session[s].req \in Requests /\ session[s].asset \in Assets
         /\ \/ UNCHANGED <<rows, log>>
            \/ /\ ~Answered(session[s].req, session[s].asset)
               /\ \E r \in Submissions :
                    /\ r.req = session[s].req /\ r.asset = session[s].asset /\ r.status = "pending"
                    /\ rows' = rows \cup {r}
                    /\ log' = Submitted(r)
<1>1. session[s].req \in Requests /\ session[s].asset \in Assets
  BY CallOK DEF Inv, Insert
<1>2. ASSUME NEW i \in Subs
      PROVE  [id |-> i, req |-> session[s].req, asset |-> session[s].asset, status |-> "pending"]
               \in Submissions
  BY <1>1 DEF Submissions
<1> QED
  BY <1>1, <1>2 DEF Insert

LEMMA RecordOK ==
  ASSUME TypeOK, NEW r \in Submissions, NEW e \in Events
  PROVE  Record(e, r) \subseteq [event : Events, id : Subs, req : Requests, asset : Assets]
BY DEF Record, TypeOK, Submissions

LEMMA InsertInv ==
  ASSUME Inv, NEW s \in Sessions, Insert(s)
  PROVE  Inv'
<1>1. /\ session[s].pc = "insert" /\ Goto(s, "idle")
      /\ UNCHANGED <<listing, verified, request, past, form>>
  BY DEF Insert
<1>2. Kept
  BY <1>1, StillKept
<1>3. session' \in [Sessions -> Calls \cup {Idle}] /\ \A x \in Sessions : Knows(session[x])'
  BY <1>1, GotoInv DEF Onward
<1>4. Funds'
  BY <1>1, <1>2, FundsKept
<1>5. CASE UNCHANGED <<rows, log>>
  BY <1>1, <1>2, <1>3, <1>4, <1>5, RowsKept DEF Inv, TypeOK
<1>6. CASE ~UNCHANGED <<rows, log>>
  <2>1. PICK r \in Submissions :
          /\ r.req = session[s].req /\ r.asset = session[s].asset
          /\ rows' = rows \cup {r} /\ log' = Submitted(r)
    BY <1>6, InsertIs
  <2>2. ~Answered(r.req, r.asset)
    BY <1>6, <2>1, InsertIs
  <2>3. log' \subseteq [event : Events, id : Subs, req : Requests, asset : Assets]
    BY <2>1, RecordOK DEF Submitted, Events, Inv
  <2>4. TypeOK'
    BY <1>1, <1>3, <2>1, <2>3 DEF Inv, TypeOK
  <2>5. Apart(r.req, r.asset) /\ Vetted(r.req, r.asset) /\ Terms(r.req, r.asset)
    BY <1>1, <2>1 DEF Inv, Knows
  <2>6. RowsRest'
    BY <1>1, <2>1, <2>5 DEF Inv, RowsRest, Apart, Posted, Vetted, Terms
  <2>7. Single'
    BY <2>1, <2>2 DEF Inv, Single, Answered
  <2> QED
    BY <1>3, <1>4, <2>4, <2>6, <2>7 DEF Inv
<1> QED
  BY <1>5, <1>6

-----------------------------------------------------------------------------
\* Retracting and deciding.

LEMMA RetractInv ==
  ASSUME Inv, NEW c \in Accounts, NEW r \in rows, Retract(c, r)
  PROVE  Inv'
<1>1. /\ rows' = rows \ {r} /\ log' = Record("SUBMISSION_WITHDRAWN", r)
      /\ UNCHANGED <<listing, verified, request, past, session, form>>
  BY DEF Retract
<1>2. log' \subseteq [event : Events, id : Subs, req : Requests, asset : Assets]
  BY <1>1, RecordOK DEF Inv, TypeOK, Events
<1>3. TypeOK'
  BY <1>1, <1>2 DEF Inv, TypeOK
<1>4. Funds'
  BY <1>1, StillKept, FundsKept
<1>5. RowsRest' /\ Single'
  BY <1>1 DEF Inv, RowsRest, Single, Apart, Posted, Vetted, Terms
<1>6. \A x \in Sessions : Knows(session[x])'
  BY <1>1 DEF Inv, Knows, Apart, Posted, Vetted, Terms
<1> QED
  BY <1>3, <1>4, <1>5, <1>6 DEF Inv

\* The row a decision leaves.
LEMMA ReviewIs ==
  ASSUME Inv, NEW c \in Accounts, NEW r \in rows, NEW b \in BOOLEAN, Review(c, r, b)
  PROVE  \E d \in Submissions :
           /\ rows' = (rows \ {r}) \cup {d}
           /\ d.req = r.req /\ d.asset = r.asset /\ d.status = Verdict(b)
<1> DEFINE d == [r EXCEPT !.status = Verdict(b)]
<1>1. r \in Submissions /\ Verdict(b) \in {"accepted", "rejected"}
  BY DEF Inv, TypeOK, Verdict
<1>2. d \in Submissions /\ d.req = r.req /\ d.asset = r.asset /\ d.status = Verdict(b)
  BY <1>1 DEF Submissions
<1> QED
  BY <1>2 DEF Review

LEMMA ReviewInv ==
  ASSUME Inv, NEW c \in Accounts, NEW r \in rows, NEW b \in BOOLEAN, Review(c, r, b)
  PROVE  Inv'
<1>1. PICK e \in {"SUBMISSION_ACCEPTED", "SUBMISSION_REJECTED"} : log' = Record(e, r)
  BY DEF Review
<1>2. UNCHANGED <<listing, verified, request, past, session, form>>
  BY DEF Review
<1>3. PICK d \in Submissions : /\ rows' = (rows \ {r}) \cup {d}
                               /\ d.req = r.req /\ d.asset = r.asset
  BY ReviewIs
<1>4. log' \subseteq [event : Events, id : Subs, req : Requests, asset : Assets]
  BY <1>1, RecordOK DEF Inv, TypeOK, Events
<1>5. TypeOK'
  BY <1>2, <1>3, <1>4 DEF Inv, TypeOK
<1>6. Funds'
  BY <1>2, StillKept, FundsKept
<1>7. RowsRest' /\ Single'
  BY <1>2, <1>3 DEF Inv, RowsRest, Single, Apart, Posted, Vetted, Terms
<1>8. \A x \in Sessions : Knows(session[x])'
  BY <1>2 DEF Inv, Knows, Apart, Posted, Vetted, Terms
<1> QED
  BY <1>5, <1>6, <1>7, <1>8 DEF Inv

LEMMA NextInv ==
  ASSUME Inv, [Next]_vars
  PROVE  Inv'
<1>1. ASSUME NEW s \in Sessions, Submit(s) PROVE Inv'
  BY <1>1, CallInv, InsertInv DEF Submit
<1>2. CASE UNCHANGED vars
  <2>1. TypeOK' /\ Funds'
    BY <1>2, StillKept, FundsKept DEF vars, Inv, TypeOK
  <2> QED
    BY <1>2, <2>1, StillKept, AroundInv DEF vars
<1> QED
  BY <1>1, <1>2, FormInv, PostInv, CloseInv, WorldInv, StartInv, RetractInv, ReviewInv DEF Next

LEMMA AlwaysInv == Spec => []Inv
<1>1. Init => Inv
  BY InitInv
<1>2. Inv /\ [Next]_vars => Inv'
  BY NextInv
<1> QED
  BY <1>1, <1>2, PTL DEF Spec

\* Every variable has its type.
THEOREM TypeCorrect == Spec => []TypeOK
<1>1. Inv => TypeOK
  BY DEF Inv
<1> QED
  BY <1>1, AlwaysInv, PTL

\* Every submission answers its brief's terms, by a creator the brief admits,
\* and whoever may decide or retract it is offered to, in every interleaving.
THEOREM SubmissionsAnswer == Spec => []AnswersTheBrief
<1>1. Inv => AnswersTheBrief
  <2> SUFFICES ASSUME Inv, NEW r \in rows
               PROVE /\ listing[r.asset].status # "none"
                     /\ listing[r.asset].preset = request[r.req].preset
                     /\ request[r.req].kyc => OwnerOf[r.asset] \in verified
                     /\ r.status = "pending" =>
                          (/\ OfferRetract(OwnerOf[r.asset], r.req, r.asset)
                           /\ OfferReview(request[r.req].poster, r))
    BY DEF AnswersTheBrief
  <2>1. Apart(r.req, r.asset) /\ Vetted(r.req, r.asset) /\ Terms(r.req, r.asset)
    BY DEF Inv, RowsRest
  <2>2. r.asset \in Shown(OwnerOf[r.asset], r.req)
    BY RowOK DEF Inv, Shown, Answered
  <2>3. r.status = "pending" =>
          (/\ OfferRetract(OwnerOf[r.asset], r.req, r.asset)
           /\ OfferReview(request[r.req].poster, r))
    BY <2>1, <2>2 DEF Apart, OfferRetract, OfferReview
  <2> QED
    BY <2>1, <2>3 DEF Vetted, Terms
<1> QED
  BY <1>1, AlwaysInv, PTL

\* A share of a budget, rounded down, is not more than was paid.
LEMMA ShareBound ==
  ASSUME NEW a \in Nat, NEW b \in Nat, b > 0
  PROVE  (a \div b) * b <= a
OBVIOUS

\* The funding badge says no more than the lab paid, whatever was typed.
THEOREM BadgesAreBacked == Spec => []BadgeBacked
<1>1. Inv => BadgeBacked
  <2> SUFFICES ASSUME Inv, NEW q \in Requests, Posted(q)
               PROVE /\ Funded(q) * request[q].budget <= 100 * request[q].paid
                     /\ request[q].mode = "deposit" => 10 * request[q].paid + 9 >= request[q].budget
    BY DEF BadgeBacked
  <2> DEFINE b == request[q].budget
             n == request[q].paid
  <2>1. b \in Nat /\ n \in Nat /\ request[q].mode \in Modes
    BY BriefOK DEF Inv, Briefs
  <2>2. /\ b > 0
        /\ request[q].mode = "deposit" => (b \div 10 <= n /\ n <= b)
        /\ request[q].mode = "full" => n = b
    BY DEF Inv, Funds, FundingRules
  <2>3. request[q].mode = "deposit" => 10 * n + 9 >= b
    BY <2>1, <2>2
  <2>4. CASE request[q].mode = "full"
    BY <2>1, <2>2, <2>4 DEF Funded
  <2>5. CASE request[q].mode = "deposit"
    <3>1. Funded(q) = (n * 100) \div b /\ n * 100 \in Nat /\ n * 100 = 100 * n
      BY <2>1, <2>5 DEF Funded
    <3> QED
      BY <2>1, <2>2, <2>3, <3>1, ShareBound
  <2>6. CASE request[q].mode = "none"
    BY <2>1, <2>6 DEF Funded
  <2> QED
    BY <2>1, <2>3, <2>4, <2>5, <2>6 DEF Modes
<1> QED
  BY <1>1, AlwaysInv, PTL

-----------------------------------------------------------------------------
\* The refinement: the statuses of the submissions of each pair.

Statuses(set, q, a) == {r.status : r \in {x \in set : x.req = q /\ x.asset = a}}

AnswerMap == [p \in Requests \X Assets |->
                {r.status : r \in {x \in rows : x.req = p[1] /\ x.asset = p[2]}}]

\* A step that touches the submissions of one pair only.
LEMMA OnePair ==
  ASSUME Inv, NEW q \in Requests, NEW a \in Assets, NEW set,
         \A x \in rows \cup rows' : (x \in rows /\ x \in rows') \/ (x.req = q /\ x.asset = a),
         Statuses(rows', q, a) = set
  PROVE  AnswerMap' = [AnswerMap EXCEPT ![<<q, a>>] = set]
<1>1. ASSUME NEW p \in Requests \X Assets, p # <<q, a>>
      PROVE  {x \in rows' : x.req = p[1] /\ x.asset = p[2]} = {x \in rows : x.req = p[1] /\ x.asset = p[2]}
  <2>1. p[1] # q \/ p[2] # a
    BY <1>1
  <2> QED
    BY <2>1
<1>2. <<q, a>> \in Requests \X Assets /\ <<q, a>>[1] = q /\ <<q, a>>[2] = a
  OBVIOUS
<1>3. AnswerMap'[<<q, a>>] = set
  BY <1>2 DEF AnswerMap, Statuses
<1>4. ASSUME NEW p \in Requests \X Assets, p # <<q, a>>
      PROVE  AnswerMap'[p] = AnswerMap[p]
  BY <1>1, <1>4 DEF AnswerMap
<1> QED
  BY <1>3, <1>4 DEF AnswerMap

LEMMA StatusOf ==
  ASSUME Inv, NEW r \in rows
  PROVE  /\ <<r.req, r.asset>> \in Requests \X Assets
         /\ AnswerMap[<<r.req, r.asset>>] = {r.status}
<1>1. r.req \in Requests /\ r.asset \in Assets
  BY RowOK DEF Inv
<1>2. {x \in rows : x.req = r.req /\ x.asset = r.asset} = {r}
  BY DEF Inv, Single
<1>3. AnswerMap[<<r.req, r.asset>>] = {x.status : x \in {y \in rows : y.req = r.req /\ y.asset = r.asset}}
  BY <1>1 DEF AnswerMap
<1> QED
  BY <1>1, <1>2, <1>3

LEMMA InsertAnswers ==
  ASSUME Inv, NEW s \in Sessions, Insert(s)
  PROVE  [Answers!Next]_AnswerMap
<1> DEFINE q == session[s].req
           a == session[s].asset
<1>1. CASE UNCHANGED <<rows, log>>
  BY <1>1 DEF AnswerMap
<1>2. CASE ~UNCHANGED <<rows, log>>
  <2>1. q \in Requests /\ a \in Assets /\ ~Answered(q, a)
    BY <1>2, InsertIs
  <2>2. PICK r \in Submissions : r.req = q /\ r.asset = a /\ r.status = "pending" /\ rows' = rows \cup {r}
    BY <1>2, InsertIs
  <2> HIDE DEF q, a
  <2>3. {x \in rows : x.req = q /\ x.asset = a} = {} /\ {x \in rows' : x.req = q /\ x.asset = a} = {r}
    BY <2>1, <2>2 DEF Answered
  <2>4. Statuses(rows', q, a) = {"pending"}
    BY <2>2, <2>3 DEF Statuses
  <2>5. AnswerMap' = [AnswerMap EXCEPT ![<<q, a>>] = {"pending"}]
    BY <2>1, <2>2, <2>4, OnePair
  <2>6. AnswerMap[<<q, a>>] = {} /\ <<q, a>> \in Requests \X Assets
    BY <2>1, <2>3 DEF AnswerMap
  <2>7. PICK p \in Requests \X Assets : p = <<q, a>>
    BY <2>6
  <2>8. Answers!Submit(p)
    BY <2>5, <2>6, <2>7 DEF Answers!Submit, AnswerMap
  <2> QED
    BY <2>8 DEF Answers!Next
<1> QED
  BY <1>1, <1>2

LEMMA RetractAnswers ==
  ASSUME Inv, NEW c \in Accounts, NEW r \in rows, Retract(c, r)
  PROVE  [Answers!Next]_AnswerMap
<1> DEFINE p == <<r.req, r.asset>>
<1>1. r.req \in Requests /\ r.asset \in Assets /\ r.status = "pending" /\ rows' = rows \ {r}
  BY RowOK DEF Retract, Inv
<1>2. p \in Requests \X Assets /\ AnswerMap[p] = {"pending"}
  BY <1>1, StatusOf
<1>3. {x \in rows' : x.req = r.req /\ x.asset = r.asset} = {}
  BY <1>1 DEF Inv, Single
<1>4. Statuses(rows', r.req, r.asset) = {}
  BY <1>3 DEF Statuses
<1>5. AnswerMap' = [AnswerMap EXCEPT ![p] = {}]
  BY <1>1, <1>4, OnePair
<1>6. Answers!Retract(p)
  BY <1>2, <1>5 DEF Answers!Retract, AnswerMap
<1> QED
  BY <1>2, <1>6 DEF Answers!Next

LEMMA ReviewAnswers ==
  ASSUME Inv, NEW c \in Accounts, NEW r \in rows, NEW b \in BOOLEAN, Review(c, r, b)
  PROVE  [Answers!Next]_AnswerMap
<1> DEFINE p == <<r.req, r.asset>>
<1>1. r.req \in Requests /\ r.asset \in Assets /\ r.status = "pending"
  BY RowOK DEF Review, OfferReview, Inv
<1>2. PICK d \in Submissions : /\ rows' = (rows \ {r}) \cup {d}
                               /\ d.req = r.req /\ d.asset = r.asset /\ d.status = Verdict(b)
  BY ReviewIs
<1>3. p \in Requests \X Assets /\ AnswerMap[p] = {"pending"}
  BY <1>1, StatusOf
<1>4. {x \in rows' : x.req = r.req /\ x.asset = r.asset} = {d}
  BY <1>1, <1>2 DEF Inv, Single
<1>5. Statuses(rows', r.req, r.asset) = {Verdict(b)}
  BY <1>2, <1>4 DEF Statuses
<1>6. AnswerMap' = [AnswerMap EXCEPT ![p] = {Verdict(b)}]
  BY <1>1, <1>2, <1>5, OnePair
<1>7. Verdict(b) \in {"accepted", "rejected"}
  BY DEF Verdict
<1>8. Answers!Decide(p)
  BY <1>3, <1>6, <1>7 DEF Answers!Decide, AnswerMap
<1> QED
  BY <1>3, <1>8 DEF Answers!Next

LEMMA NextAnswers ==
  ASSUME Inv, [Next]_vars
  PROVE  [Answers!Next]_AnswerMap
<1>1. UNCHANGED rows => UNCHANGED AnswerMap
  BY DEF AnswerMap
<1>2. ASSUME NEW s \in Sessions, Submit(s) PROVE [Answers!Next]_AnswerMap
  BY <1>1, <1>2, InsertAnswers DEF Submit, ReadRequest, CheckKyc, CheckEligible, Abort
<1>3. CASE UNCHANGED vars
  BY <1>1, <1>3 DEF vars
<1>4. CASE \E c \in Accounts, r \in rows : Retract(c, r) \/ \E b \in BOOLEAN : Review(c, r, b)
  BY <1>4, RetractAnswers, ReviewAnswers
<1> QED
  BY <1>1, <1>2, <1>3, <1>4 DEF Next, TypeBudget, TypeAmount, ChooseFunding, Close, Post, Pass, List,
     Withdraw, Verify, Start

\* Each work answers a brief at most once at a time; an answer is taken back
\* only while it is pending, and a decision is final, in every interleaving.
THEOREM AnswersAreFinal == Spec => LifecycleRefined
<1>1. Init => Answers!Init
  BY DEF Init, Answers!Init
<1>2. Inv /\ [Next]_vars => [Answers!Next]_AnswerMap
  BY NextAnswers
<1> QED
  BY <1>1, <1>2, AlwaysInv, PTL DEF Spec, LifecycleRefined, Answers!Spec, AnswerMap
=============================================================================
