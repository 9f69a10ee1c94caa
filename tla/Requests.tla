------------------------------ MODULE Requests ------------------------------
(***************************************************************************)
(* Lab data requests: the form a lab posts a brief from, the submissions   *)
(* creators answer it with, and the lab's decisions.  submitAsset checks   *)
(* the brief, the creator and the listing in statements of their own       *)
(* before it inserts, so the brief may be closed, and the listing          *)
(* withdrawn, in between.  Its insert, the event and the commit are one    *)
(* action: a second insert of the same pair waits for the first to commit. *)
(***************************************************************************)
EXTENDS Naturals

CONSTANTS
  Accounts, Labs,   \* creators; those whose lab_verified flag is set
  Assets, OwnerOf,  \* OwnerOf[a]: asset.creator_id
  Presets,
  Requests,         \* ids of data_request rows
  Subs,             \* ids of submission rows, the bound on insertions
  Sessions,         \* calls of submitAsset that may be active at a time
  Amounts,          \* amounts the lab types, in wei
  Grain             \* the wei in the last digit the form rounds to

ASSUME RequestsAssumption ==
  /\ Labs \subseteq Accounts
  /\ OwnerOf \in [Assets -> Accounts]
  /\ Amounts \subseteq Nat /\ 0 \in Amounts
  /\ Grain \in Nat \ {0}

VARIABLES
  listing,   \* listing[a]: the row of asset a
  verified,  \* accounts whose kyc_status is 'verified'
  request,   \* request[q]: the data_request row
  past,      \* requests whose deadline has passed
  rows,      \* submission
  log,       \* the asset_event rows about submissions
  session,   \* local state of the calls of submitAsset
  form       \* the funding part of the lab's form

vars == <<listing, verified, request, past, rows, log, session, form>>

Modes == {"none", "deposit", "full"}

Events == {"SUBMITTED_TO_REQUEST", "SUBMISSION_ACCEPTED", "SUBMISSION_REJECTED",
           "SUBMISSION_WITHDRAWN"}

Submissions == [id : Subs, req : Requests, asset : Assets,
                status : {"pending", "accepted", "rejected"}]

NoRequest == [status |-> "none"]

Briefs == [status : {"open", "closed"}, poster : Accounts, preset : Presets, kyc : BOOLEAN,
           deadline : BOOLEAN, budget : Nat, mode : Modes, paid : Nat]

Idle == [pc |-> "idle"]

Calls == [pc : {"request", "kyc", "eligible", "insert"}, req : Requests, asset : Assets]

EmptyForm == [budget |-> 0, mode |-> "none", amount |-> 0]

\* Every variable has its type.
TypeOK ==
  /\ listing \in [Assets -> [status : {"none", "active", "withdrawn"}, preset : Presets]]
  /\ verified \subseteq Accounts
  /\ request \in [Requests -> Briefs \cup {NoRequest}]
  /\ past \subseteq Requests
  /\ rows \subseteq Submissions
  /\ log \subseteq [event : Events, id : Subs, req : Requests, asset : Assets]
  /\ session \in [Sessions -> Calls \cup {Idle}]
  /\ form \in [budget : Nat, mode : Modes, amount : Nat]

Init ==
  /\ listing \in [Assets -> [status : {"none"}, preset : Presets]]
  /\ verified = {}
  /\ request = [q \in Requests |-> NoRequest]
  /\ past = {}
  /\ rows = {}
  /\ log = {}
  /\ session = [s \in Sessions |-> Idle]
  /\ form = EmptyForm

-----------------------------------------------------------------------------
\* Posting a brief.

\* tenthOf: the suggested deposit, rounded to the digits the form shows.
Tenth(b) == ((b + 5 * Grain) \div (10 * Grain)) * Grain

\* What the form fills in, which may then be typed over.
Suggested(b, m) == IF m = "full" THEN b ELSE IF m = "deposit" THEN Tenth(b) ELSE 0

\* The form is left alone when no request can be posted any more (the bound Requests).
FormOpen == \E q \in Requests : request[q] = NoRequest

TypeBudget(b) ==
  /\ FormOpen
  /\ form' = [budget |-> b, mode |-> form.mode, amount |-> Suggested(b, form.mode)]
  /\ UNCHANGED <<listing, verified, request, past, rows, log, session>>

ChooseFunding(m) ==
  /\ FormOpen
  /\ form' = [budget |-> form.budget, mode |-> m, amount |-> Suggested(form.budget, m)]
  /\ UNCHANGED <<listing, verified, request, past, rows, log, session>>

TypeAmount(n) ==
  /\ FormOpen /\ form.mode # "none"
  /\ form' = [form EXCEPT !.amount = n]
  /\ UNCHANGED <<listing, verified, request, past, rows, log, session>>

\* Mutant of FundingRules: the amount in full is not compared with the budget.
FundingRulesLoose(b, m, paid) == b > 0 /\ (m = "deposit" => b \div 10 <= paid /\ paid <= b)

\* createRequest's rules: a deposit is at least a tenth (divided in whole wei).
FundingRules(b, m, paid) ==
  /\ b > 0
  /\ m = "deposit" => b \div 10 <= paid /\ paid <= b
  /\ m = "full" => paid = b
  /\ m = "none" => paid = 0

\* createRequestAction: what the form posts; an unfunded brief pays nothing.
Posting == [budget |-> form.budget, mode |-> form.mode,
            paid |-> IF form.mode = "none" THEN 0 ELSE form.amount]

Post(lab, q, p, k, d) ==
  /\ request[q] = NoRequest
  /\ lab \in Labs
  /\ FundingRules(Posting.budget, Posting.mode, Posting.paid)
  /\ request' = [request EXCEPT ![q] =
       [status |-> "open", poster |-> lab, preset |-> p, kyc |-> k, deadline |-> d,
        budget |-> Posting.budget, mode |-> Posting.mode, paid |-> Posting.paid]]
  /\ form' = EmptyForm
  /\ UNCHANGED <<listing, verified, past, rows, log, session>>

\* Submissions stop; what is pending stays so.
Close(who, q) ==
  /\ request[q].status = "open" /\ request[q].poster = who
  /\ request' = [request EXCEPT ![q].status = "closed"]
  /\ UNCHANGED <<listing, verified, past, rows, log, session, form>>

Pass(q) ==
  /\ request[q] # NoRequest /\ request[q].deadline
  /\ past' = past \cup {q}
  /\ UNCHANGED <<listing, verified, request, rows, log, session, form>>

-----------------------------------------------------------------------------
\* Around the requests: stage 4, withdrawAsset, the operator's KYC flag.

List(a) ==
  /\ listing[a].status = "none"
  /\ listing' = [listing EXCEPT ![a].status = "active"]
  /\ UNCHANGED <<verified, request, past, rows, log, session, form>>

Withdraw(a) ==
  /\ listing[a].status = "active"
  /\ listing' = [listing EXCEPT ![a].status = "withdrawn"]
  /\ UNCHANGED <<verified, request, past, rows, log, session, form>>

Verify(c) ==
  /\ verified' = verified \cup {c}
  /\ UNCHANGED <<listing, request, past, rows, log, session, form>>

-----------------------------------------------------------------------------
\* What the request's page shows.

Posted(q) == request[q] # NoRequest

\* fundingLabel, in percent.
Funded(q) == IF request[q].mode = "full" THEN 100
             ELSE IF request[q].mode = "deposit"
                  THEN (request[q].paid * 100) \div request[q].budget ELSE 0

Answered(q, a) == \E r \in rows : r.req = q /\ r.asset = a

\* Mutant of Eligible: any active listing will do.
EligibleAny(q, a) == listing[a].status = "active"

Eligible(q, a) == listing[a].status = "active" /\ listing[a].preset = request[q].preset

\* eligibleAssets: the listed works and whatever was submitted.
Shown(c, q) == {a \in Assets : OwnerOf[a] = c /\ (Eligible(q, a) \/ Answered(q, a))}

\* The poster sees the review instead of the submissions of its own.
OfferSubmit(c, q, a) ==
  /\ Posted(q) /\ request[q].poster # c /\ request[q].status = "open"
  /\ a \in Shown(c, q) /\ Eligible(q, a) /\ ~Answered(q, a)

OfferRetract(c, q, a) ==
  /\ Posted(q) /\ request[q].poster # c
  /\ a \in Shown(c, q)
  /\ \E r \in rows : r.req = q /\ r.asset = a /\ r.status = "pending"

OfferReview(c, r) == Posted(r.req) /\ request[r.req].poster = c /\ r.status = "pending"

-----------------------------------------------------------------------------
\* submitAsset.

Goto(s, pc) ==
  session' = [session EXCEPT ![s] =
    IF pc = "idle" THEN Idle ELSE [pc |-> pc, req |-> session[s].req, asset |-> session[s].asset]]

Start(s, q, a) ==
  /\ session[s] = Idle
  /\ OfferSubmit(OwnerOf[a], q, a)
  /\ session' = [session EXCEPT ![s] = [pc |-> "request", req |-> q, asset |-> a]]
  /\ UNCHANGED <<listing, verified, request, past, rows, log, form>>

ReadRequest(s) ==
  /\ session[s].pc = "request"
  /\ LET q == session[s].req
     IN Goto(s, IF request[q].status # "open" \/ q \in past THEN "idle"
                ELSE IF request[q].kyc THEN "kyc" ELSE "eligible")
  /\ UNCHANGED <<listing, verified, request, past, rows, log, form>>

CheckKyc(s) ==
  /\ session[s].pc = "kyc"
  /\ Goto(s, IF OwnerOf[session[s].asset] \in verified THEN "eligible" ELSE "idle")
  /\ UNCHANGED <<listing, verified, request, past, rows, log, form>>

CheckEligible(s) ==
  /\ session[s].pc = "eligible"
  /\ Goto(s, IF Eligible(session[s].req, session[s].asset) THEN "insert" ELSE "idle")
  /\ UNCHANGED <<listing, verified, request, past, rows, log, form>>

Record(event, r) == log \cup {[event |-> event, id |-> r.id, req |-> r.req, asset |-> r.asset]}

Submitted(r) == Record("SUBMITTED_TO_REQUEST", r)

Fresh(i) == (\A r \in rows : r.id # i) /\ (\A e \in log : e.id # i)

\* ON CONFLICT ON CONSTRAINT submission_unique DO NOTHING.
Insert(s) ==
  /\ session[s].pc = "insert"
  /\ \/ /\ Answered(session[s].req, session[s].asset)
        /\ UNCHANGED <<rows, log>>
     \/ /\ ~Answered(session[s].req, session[s].asset)
        /\ \E i \in Subs :
             LET r == [id |-> i, req |-> session[s].req, asset |-> session[s].asset,
                       status |-> "pending"]
             IN Fresh(i) /\ rows' = rows \cup {r} /\ log' = Submitted(r)
  /\ Goto(s, "idle")
  /\ UNCHANGED <<listing, verified, request, past, form>>

\* A statement fails, the event's seq is taken, or the process stops: the
\* transaction is rolled back.
Abort(s) ==
  /\ session[s] # Idle
  /\ Goto(s, "idle")
  /\ UNCHANGED <<listing, verified, request, past, rows, log, form>>

-----------------------------------------------------------------------------
\* Retracting and deciding: one statement on the row, the event, the commit.

\* Mutant of Retract: what was decided can be retracted.
RetractAny(c, r) ==
  /\ OwnerOf[r.asset] = c
  /\ rows' = rows \ {r}
  /\ log' = Record("SUBMISSION_WITHDRAWN", r)
  /\ UNCHANGED <<listing, verified, request, past, session, form>>

Retract(c, r) ==
  /\ OwnerOf[r.asset] = c /\ r.status = "pending"
  /\ rows' = rows \ {r}
  /\ log' = Record("SUBMISSION_WITHDRAWN", r)
  /\ UNCHANGED <<listing, verified, request, past, session, form>>

Verdict(accept) == IF accept THEN "accepted" ELSE "rejected"

\* A closed request does not matter.
Review(c, r, accept) ==
  /\ OfferReview(c, r)
  /\ rows' = (rows \ {r}) \cup {[r EXCEPT !.status = Verdict(accept)]}
  /\ log' = Record(IF accept THEN "SUBMISSION_ACCEPTED" ELSE "SUBMISSION_REJECTED", r)
  /\ UNCHANGED <<listing, verified, request, past, session, form>>

-----------------------------------------------------------------------------
Submit(s) ==
  ReadRequest(s) \/ CheckKyc(s) \/ CheckEligible(s) \/ Insert(s) \/ Abort(s)

Next ==
  \/ \E n \in Amounts : TypeBudget(n) \/ TypeAmount(n)
  \/ \E m \in Modes : ChooseFunding(m)
  \/ \E c \in Accounts, q \in Requests :
       Close(c, q) \/ \E p \in Presets, k, d \in BOOLEAN : Post(c, q, p, k, d)
  \/ \E q \in Requests : Pass(q)
  \/ \E a \in Assets : List(a) \/ Withdraw(a)
  \/ \E c \in Accounts : Verify(c)
  \/ \E s \in Sessions, q \in Requests, a \in Assets : Start(s, q, a)
  \/ \E s \in Sessions : Submit(s)
  \/ \E c \in Accounts, r \in rows : Retract(c, r) \/ \E b \in BOOLEAN : Review(c, r, b)

Spec == Init /\ [][Next]_vars

-----------------------------------------------------------------------------
\* Every submission answers its brief's terms: the work was listed under
\* exactly them, by a verified creator where the brief asks for one.  Neither a
\* closed brief nor a withdrawn listing strands it: as long as it is pending its
\* creator can retract it and the lab can decide it.
AnswersTheBrief ==
  \A r \in rows :
    /\ listing[r.asset].status # "none"
    /\ listing[r.asset].preset = request[r.req].preset
    /\ request[r.req].kyc => OwnerOf[r.asset] \in verified
    /\ r.status = "pending" =>
         OfferRetract(OwnerOf[r.asset], r.req, r.asset) /\ OfferReview(request[r.req].poster, r)

\* The funding badge says no more than the lab paid, and a deposit is a tenth
\* of the budget less the division's remainder.
BadgeBacked ==
  \A q \in Requests : Posted(q) =>
    /\ Funded(q) * request[q].budget <= 100 * request[q].paid
    /\ request[q].mode = "deposit" => 10 * request[q].paid + 9 >= request[q].budget

\* Each work answers a brief at most once at a time, and decisions are final.
Answers == INSTANCE Answer WITH
  Pairs <- Requests \X Assets,
  answer <- [p \in Requests \X Assets |->
               {r.status : r \in {x \in rows : x.req = p[1] /\ x.asset = p[2]}}]

LifecycleRefined == Answers!Spec

\* Not guaranteed: a submission arrives while its brief is open and its work listed.
ArrivesInTime ==
  [][\A r \in rows' \ rows : r.id \notin {x.id : x \in rows} =>
       request[r.req].status = "open" /\ Eligible(r.req, r.asset)]_vars

=============================================================================
