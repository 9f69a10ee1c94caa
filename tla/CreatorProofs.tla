--------------------------- MODULE CreatorProofs ---------------------------
(***************************************************************************)
(* Theorems about what a creator brings in: Account, Intake and Labels.    *)
(* The first part is about accounts: stamps are proofs in every            *)
(* interleaving, and acceptances that do not overlap leave one row active. *)
(* The second is about uploads: consent is never lost track of, and        *)
(* collisions are flagged on both sides.  The third is about labels, which *)
(* share no state with the others: a job has one worker, a pair was        *)
(* decided by its jury, and the creator's word stands.                     *)
(***************************************************************************)
EXTENDS Intake, Labels, FiniteSetTheorems, SequenceTheorems, WellFoundedInduction, TLAPS

\* Sessions, calls and acceptances are of accounts that exist.
Known ==
  /\ \A b \in Browsers : jar[b].session # None => jar[b].session.creator \in DOMAIN creator
  /\ \A b \in Browsers : call[b].op = "login" /\ call[b].found # None =>
                           call[b].found \in DOMAIN creator
  /\ \A b \in Browsers : call[b].op = "accept" => call[b].creator \in DOMAIN creator
  /\ \A i \in DOMAIN consent : consent[i].creator \in DOMAIN creator

AInv == AccountTypeOK /\ Known /\ StampIsProof

LEMMA InitAInv == AccountInit => AInv
<1> SUFFICES ASSUME AccountInit PROVE AInv
  OBVIOUS
<1>1. jar \in [Browsers -> Jars] /\ call \in [Browsers -> SignIns \cup Accepts \cup {Idle}]
  BY DEF AccountInit, Jars, Addresses
<1>2. creator \in Seq(Creators) /\ Len(creator) <= MaxCreators /\ consent \in Seq(Acceptances)
      /\ Len(consent) <= MaxRows
  BY AccountAssumption DEF AccountInit
<1>3. proof \in [Ids -> SUBSET Wallets]
  BY DEF AccountInit
<1>4. AccountTypeOK
  BY <1>1, <1>2, <1>3, AccountAssumption DEF AccountInit, AccountTypeOK
<1> QED
  BY <1>4 DEF AccountInit, AInv, Known, StampIsProof, Idle

\* The kinds of call can be told apart.
LEMMA CallKinds ==
  ASSUME AInv, NEW b \in Browsers
  PROVE  /\ call[b].op = "login" => call[b] \in SignIns
         /\ call[b].op = "accept" => call[b] \in Accepts
BY DEF AInv, AccountTypeOK, SignIns, Accepts, Idle

LEMMA KnownIds ==
  ASSUME AInv
  PROVE  DOMAIN creator = 1..Len(creator) /\ DOMAIN creator \subseteq Ids
BY AccountAssumption DEF AInv, AccountTypeOK, Ids

LEMMA ActingKnown ==
  ASSUME AInv, NEW b \in Browsers, Acting(b) # None
  PROVE  Acting(b) \in DOMAIN creator /\ Acting(b) \in Ids
BY DEF AInv, AccountTypeOK, Known, Acting, Jars, Sessions, Ids

\* The account found for an address exists.
LEMMA FoundKnown ==
  ASSUME AInv, NEW w
  PROVE  CreatorIdForWallet(w) = None \/ CreatorIdForWallet(w) \in DOMAIN creator
<1> DEFINE P(c) == creator[c].wallet = w /\ \A d \in DOMAIN creator : creator[d].wallet = w => c <= d
           S == {c \in DOMAIN creator : creator[c].wallet = w}
<1>1. CASE S = {}
  BY <1>1 DEF CreatorIdForWallet
<1>2. CASE S # {}
  <2>1. S \subseteq 1..Len(creator) /\ Len(creator) \in Nat
    BY DEF AInv, AccountTypeOK
  <2>2. S \subseteq Nat
    BY <2>1
  <2>3. \E c \in S : \A d \in S : ~ (<<d, c>> \in OpToRel(<, Nat))
    <3> HIDE DEF S
    <3> QED
      BY <1>2, <2>2, WFMin, NatLessThanWellFounded, Zenon
  <2>4. PICK c \in S : \A d \in S : ~ (d < c)
    BY <2>2, <2>3 DEF OpToRel
  <2>5. \A d \in S : c <= d
    BY <2>2, <2>4
  <2> QED
    BY <2>5 DEF CreatorIdForWallet
<1> QED
  BY <1>1, <1>2

\* A row joins the end of a table.
LEMMA AppendRow ==
  ASSUME NEW S, NEW s \in Seq(S), NEW x \in S
  PROVE  /\ Append(s, x) \in Seq(S) /\ Len(Append(s, x)) = Len(s) + 1
         /\ DOMAIN Append(s, x) = DOMAIN s \cup {Len(s) + 1}
         /\ Len(s) + 1 \notin DOMAIN s
         /\ Append(s, x)[Len(s) + 1] = x
         /\ \A i \in DOMAIN s : Append(s, x)[i] = s[i]
OBVIOUS

-----------------------------------------------------------------------------
(* Accounts.                                                               *)

\* Cookies come and go; none names an account that does not exist.
LEMMA CookiesAInv ==
  ASSUME AInv, NEW b \in Browsers, NEW j \in Jars, j.session \in {jar[b].session, None},
         jar' = [jar EXCEPT ![b] = j], UNCHANGED <<creator, consent, published, call, proof>>
  PROVE  AInv'
<1>1. AccountTypeOK'
  BY DEF AInv, AccountTypeOK
<1>2. \A e \in Browsers : jar'[e].session \in {jar[e].session, None}
  BY DEF AInv, AccountTypeOK
<1> QED
  BY <1>1, <1>2 DEF AInv, Known, StampIsProof

LEMMA LoginAInv ==
  ASSUME AInv, NEW b \in Browsers, Login(b)
  PROVE  AInv'
<1> DEFINE w == jar[b].nonce
           f == CreatorIdForWallet(w)
           c == [op |-> "login", wallet |-> w, found |-> f]
           j == [jar[b] EXCEPT !.nonce = None]
<1>1. w \in Wallets
  BY DEF Login, AInv, AccountTypeOK, Jars, Addresses
<1>2. f = None \/ f \in DOMAIN creator
  BY FoundKnown
<1>3. DOMAIN creator \subseteq Ids
  BY KnownIds
<1>4. /\ jar' = [jar EXCEPT ![b] = j] /\ call' \in {[call EXCEPT ![b] = c], call}
      /\ UNCHANGED <<creator, consent, published, proof>>
  BY DEF Login
<1>5. j \in Jars /\ j.session = jar[b].session
  BY DEF AInv, AccountTypeOK, Jars, Addresses
<1>6. c \in SignIns
  BY <1>1, <1>2, <1>3 DEF SignIns
<1>7. c.op = "login" /\ c.found = f
  OBVIOUS
<1> HIDE DEF w, f, c, j
<1>8. AccountTypeOK'
  BY <1>4, <1>5, <1>6 DEF AInv, AccountTypeOK
<1>9. \A e \in Browsers : jar'[e].session = jar[e].session /\ call'[e] \in {call[e], c}
  BY <1>4, <1>5 DEF AInv, AccountTypeOK
<1> QED
  BY <1>2, <1>4, <1>7, <1>8, <1>9 DEF AInv, Known, StampIsProof

\* The account that was found may have another address by now: it is stamped
\* only where its address is the one that was signed for.
LEMMA WelcomeAInv ==
  ASSUME AInv, NEW b \in Browsers, Welcome(b)
  PROVE  AInv'
<1> DEFINE w == call[b].wallet
           c == call[b].found
           stamp == creator[c].verified \/ creator[c].wallet = w
           row == [creator[c] EXCEPT !.verified = stamp]
           j == [jar[b] EXCEPT !.session = [creator |-> c, wallet |-> w]]
<1>1. c \in DOMAIN creator /\ c \in Ids /\ w \in Wallets
  BY CallKinds DEF Welcome, AInv, AccountTypeOK, Known, SignIns, Ids
<1>2. /\ creator' = [creator EXCEPT ![c] = row]
      /\ proof' = [proof EXCEPT ![c] = @ \cup {w}]
      /\ jar' = [jar EXCEPT ![b] = j] /\ call' = [call EXCEPT ![b] = Idle]
      /\ UNCHANGED <<consent, published>>
  BY DEF Welcome, Marked
<1>3. stamp \in BOOLEAN
  OBVIOUS
<1>4. stamp => creator[c].verified \/ creator[c].wallet = w
  OBVIOUS
<1>5. j \in Jars /\ j.session.creator = c
  BY <1>1 DEF AInv, AccountTypeOK, Jars, Sessions
<1>12. creator[c] \in Creators
  BY <1>1 DEF AInv, AccountTypeOK
<1> HIDE DEF w, c, stamp, j
<1>13. row \in Creators /\ row.wallet = creator[c].wallet /\ row.verified = stamp
  BY <1>3, <1>12 DEF Creators
<1> HIDE DEF row
<1>6. /\ creator' \in Seq(Creators) /\ DOMAIN creator' = DOMAIN creator /\ Len(creator') = Len(creator)
      /\ \A d \in DOMAIN creator : creator'[d].wallet = creator[d].wallet
      /\ \A d \in DOMAIN creator : d # c => creator'[d] = creator[d]
      /\ creator'[c].verified = stamp
  BY <1>1, <1>2, <1>13 DEF AInv, AccountTypeOK
<1>7. proof' \in [Ids -> SUBSET Wallets] /\ w \in proof'[c] /\ \A d \in Ids : proof[d] \subseteq proof'[d]
  BY <1>1, <1>2 DEF AInv, AccountTypeOK
<1>8. AccountTypeOK'
  BY <1>2, <1>5, <1>6, <1>7 DEF AInv, AccountTypeOK
<1>9. StampIsProof'
  <2>1. DOMAIN creator \subseteq Ids
    BY KnownIds
  <2> QED
    BY <1>4, <1>6, <1>7, <2>1 DEF AInv, StampIsProof
<1>10. \A e \in Browsers : jar'[e].session \in {jar[e].session, j.session} /\ call'[e] \in {call[e], Idle}
  BY <1>2 DEF AInv, AccountTypeOK
<1>11. Known'
  BY <1>1, <1>2, <1>5, <1>6, <1>10 DEF AInv, Known, Idle
<1> QED
  BY <1>8, <1>9, <1>11 DEF AInv

LEMMA CallEndsAInv ==
  ASSUME AInv, NEW b \in Browsers, call' = [call EXCEPT ![b] = Idle],
         UNCHANGED <<creator, consent, published, jar, proof>>
  PROVE  AInv'
<1>1. AccountTypeOK'
  BY DEF AInv, AccountTypeOK
<1>2. \A e \in Browsers : call'[e] \in {call[e], Idle}
  BY DEF AInv, AccountTypeOK
<1> QED
  BY <1>1, <1>2 DEF AInv, Known, StampIsProof, Idle

LEMMA CarryAInv ==
  ASSUME AInv, NEW b \in Browsers, CarryWallet(b)
  PROVE  AInv'
<1> DEFINE j == [jar[b] EXCEPT !.pending = call[b].wallet]
<1>1. call[b].wallet \in Wallets
  BY CallKinds DEF CarryWallet, SignIns
<1>2. j \in Jars /\ j.session = jar[b].session
  BY <1>1 DEF AInv, AccountTypeOK, Jars, Addresses
<1>3. /\ jar' = [jar EXCEPT ![b] = j] /\ call' = [call EXCEPT ![b] = Idle]
      /\ UNCHANGED <<creator, consent, published, proof>>
  BY DEF CarryWallet
<1> HIDE DEF j
<1>4. AccountTypeOK'
  <2>1. jar' \in [Browsers -> Jars]
    BY <1>2, <1>3 DEF AInv, AccountTypeOK
  <2>2. call' \in [Browsers -> SignIns \cup Accepts \cup {Idle}]
    BY <1>3 DEF AInv, AccountTypeOK
  <2> QED
    BY <1>3, <2>1, <2>2 DEF AInv, AccountTypeOK
<1>5. \A e \in Browsers : jar'[e].session = jar[e].session /\ call'[e] \in {call[e], Idle}
  BY <1>2, <1>3 DEF AInv, AccountTypeOK
<1> QED
  BY <1>3, <1>4, <1>5 DEF AInv, Known, StampIsProof, Idle

\* A changed address takes stamp and history with it.
LEMMA SaveSettingsAInv ==
  ASSUME AInv, NEW b \in Browsers, NEW address \in Typed, SaveSettings(b, address)
  PROVE  AInv'
<1> DEFINE c == Acting(b)
           same == creator[c].wallet = address
           stamp == same /\ creator[c].verified
           row == [wallet |-> address, verified |-> stamp]
           shown == IF same THEN proof[c] ELSE {}
<1>1. c \in DOMAIN creator /\ c \in Ids
  BY ActingKnown DEF SaveSettings
<1>2. /\ creator' = [creator EXCEPT ![c] = row] /\ proof' = [proof EXCEPT ![c] = shown]
      /\ UNCHANGED <<consent, published, jar, call>>
  BY DEF SaveSettings
<1>3. stamp \in BOOLEAN /\ address \in Addresses
  BY AccountAssumption DEF Addresses
<1>4. row \in Creators
  BY <1>3 DEF Creators
<1>5. shown \subseteq Wallets
  BY <1>1 DEF AInv, AccountTypeOK
<1>6. row.verified => row.wallet \in shown
  BY <1>1 DEF AInv, StampIsProof
<1> HIDE DEF c, row, shown
<1>7. /\ creator' \in Seq(Creators) /\ DOMAIN creator' = DOMAIN creator /\ Len(creator') = Len(creator)
      /\ creator'[c] = row /\ \A d \in DOMAIN creator : d # c => creator'[d] = creator[d]
  BY <1>1, <1>2, <1>4 DEF AInv, AccountTypeOK
<1>8. proof' \in [Ids -> SUBSET Wallets] /\ proof'[c] = shown /\ \A d \in Ids : d # c => proof'[d] = proof[d]
  BY <1>1, <1>2, <1>5 DEF AInv, AccountTypeOK
<1>9. AccountTypeOK' /\ Known'
  BY <1>2, <1>7, <1>8 DEF AInv, AccountTypeOK, Known
<1>10. DOMAIN creator \subseteq Ids
  BY KnownIds
<1>11. StampIsProof'
  BY <1>6, <1>7, <1>8, <1>10 DEF AInv, StampIsProof
<1> QED
  BY <1>9, <1>11 DEF AInv

LEMMA OpenAccountAInv ==
  ASSUME AInv, NEW b \in Browsers, OpenAccount(b)
  PROVE  AInv'
<1> DEFINE w == jar[b].pending
           c == Len(creator) + 1
           account == [wallet |-> w, verified |-> TRUE]
           row == [creator |-> c, version |-> published, revoked |-> FALSE]
           j == [jar[b] EXCEPT !.session = [creator |-> c, wallet |-> w], !.pending = None]
<1>1. w \in Wallets /\ c \in Ids /\ Len(creator) \in Nat /\ Len(consent) < MaxRows
  BY DEF OpenAccount, AInv, AccountTypeOK, Jars, Addresses, Ids
<1>2. /\ creator' = Append(creator, account) /\ consent' = Append(consent, row)
      /\ proof' = [proof EXCEPT ![c] = {w}]
      /\ jar' \in {[jar EXCEPT ![b] = j], jar} /\ UNCHANGED <<published, call>>
  BY DEF OpenAccount
<1>3. account \in Creators /\ row \in Acceptances
  BY <1>1 DEF Creators, Addresses, Acceptances, AInv, AccountTypeOK
<1>4. j \in Jars /\ j.session.creator = c
  BY <1>1 DEF AInv, AccountTypeOK, Jars, Addresses, Sessions
<1>5. account.wallet = w /\ row.creator = c /\ c = Len(creator) + 1
  OBVIOUS
<1> HIDE DEF w, c, account, row, j
<1>6. /\ creator' \in Seq(Creators) /\ DOMAIN creator' = DOMAIN creator \cup {c}
      /\ Len(creator') = c /\ creator'[c] = account
      /\ \A d \in DOMAIN creator : creator'[d] = creator[d]
  BY <1>1, <1>2, <1>3, <1>5 DEF AInv, AccountTypeOK
<1>7. /\ consent' \in Seq(Acceptances) /\ Len(consent') = Len(consent) + 1
      /\ \A i \in DOMAIN consent' : consent'[i] = row \/ (i \in DOMAIN consent /\ consent'[i] = consent[i])
  <2>1. consent \in Seq(Acceptances)
    BY DEF AInv, AccountTypeOK
  <2>2. consent' = Append(consent, row) /\ row \in Acceptances
    BY <1>2, <1>3
  <2>3. /\ consent' \in Seq(Acceptances) /\ Len(consent') = Len(consent) + 1
        /\ DOMAIN consent' = DOMAIN consent \cup {Len(consent) + 1}
        /\ consent'[Len(consent) + 1] = row
        /\ \A i \in DOMAIN consent : consent'[i] = consent[i]
    BY <2>1, <2>2, AppendRow
  <2>4. ASSUME NEW i \in DOMAIN consent'
        PROVE  consent'[i] = row \/ (i \in DOMAIN consent /\ consent'[i] = consent[i])
    BY <2>3, <2>4
  <2> QED
    BY <2>3, <2>4
<1>8. proof' \in [Ids -> SUBSET Wallets] /\ proof'[c] = {w} /\ \A d \in Ids : d # c => proof'[d] = proof[d]
  BY <1>1, <1>2 DEF AInv, AccountTypeOK
<1>9. AccountTypeOK'
  <2>1. Len(creator') <= MaxCreators
    BY <1>1, <1>6 DEF Ids
  <2>2. Len(consent') <= MaxRows
    BY <1>1, <1>7, AccountAssumption DEF AInv, AccountTypeOK
  <2>3. jar' \in [Browsers -> Jars]
    BY <1>2, <1>4 DEF AInv, AccountTypeOK
  <2> QED
    BY <1>2, <1>6, <1>7, <1>8, <2>1, <2>2, <2>3 DEF AInv, AccountTypeOK
<1>10. \A e \in Browsers : jar'[e].session \in {jar[e].session, j.session}
  BY <1>2 DEF AInv, AccountTypeOK
<1>11. Known'
  BY <1>2, <1>4, <1>5, <1>6, <1>7, <1>10 DEF AInv, Known
<1>12. StampIsProof'
  <2>1. DOMAIN creator \subseteq Ids /\ c \notin DOMAIN creator
    BY KnownIds, <1>1, <1>5
  <2> QED
    BY <1>5, <1>6, <1>8, <2>1 DEF AInv, StampIsProof
<1> QED
  BY <1>9, <1>11, <1>12 DEF AInv

LEMMA AcceptAInv ==
  ASSUME AInv, NEW b \in Browsers, Accept(b)
  PROVE  AInv'
<1> DEFINE c == Acting(b)
           a == [op |-> "accept", creator |-> c, version |-> published, seen |-> Active(c)]
<1>1. c \in DOMAIN creator /\ c \in Ids
  BY ActingKnown DEF Accept
<1>2. Active(c) \subseteq 1..MaxRows
  BY AccountAssumption DEF Active, AInv, AccountTypeOK
<1>3. a \in Accepts /\ a.op = "accept" /\ a.creator = c
  BY <1>1, <1>2 DEF Accepts, AInv, AccountTypeOK
<1>4. call' = [call EXCEPT ![b] = a] /\ UNCHANGED <<creator, consent, published, jar, proof>>
  BY DEF Accept
<1> HIDE DEF c, a
<1>5. AccountTypeOK'
  BY <1>3, <1>4 DEF AInv, AccountTypeOK
<1>6. \A e \in Browsers : call'[e] \in {call[e], a}
  BY <1>4 DEF AInv, AccountTypeOK
<1> QED
  BY <1>1, <1>3, <1>4, <1>5, <1>6 DEF AInv, Known, StampIsProof

\* An acceptance only marks rows and appends its own.
LEMMA AcceptedRows ==
  ASSUME AInv, NEW a \in Accepts
  PROVE  /\ Accepted(a) \in Seq(Acceptances) /\ Len(Accepted(a)) = Len(consent) + 1
         /\ Accepted(a)[Len(consent) + 1] =
              [creator |-> a.creator, version |-> a.version, revoked |-> FALSE]
         /\ \A i \in DOMAIN consent :
              /\ Accepted(a)[i].creator = consent[i].creator
              /\ Accepted(a)[i].version = consent[i].version
              /\ Accepted(a)[i].revoked <=> consent[i].revoked \/ i \in a.seen
<1> DEFINE past(i) == consent[i].revoked \/ i \in a.seen
           marked(i) == [consent[i] EXCEPT !.revoked = past(i)]
           old == [i \in DOMAIN consent |-> marked(i)]
           new == [creator |-> a.creator, version |-> a.version, revoked |-> FALSE]
<1>1. \A i \in DOMAIN consent : consent[i] \in Acceptances
  BY DEF AInv, AccountTypeOK
<1>2. \A i \in DOMAIN consent : past(i) \in BOOLEAN
  OBVIOUS
<1>3. \A i \in DOMAIN consent :
        /\ marked(i) \in Acceptances
        /\ marked(i).creator = consent[i].creator /\ marked(i).version = consent[i].version
        /\ marked(i).revoked = past(i)
  <2> TAKE i \in DOMAIN consent
  <2>1. past(i) \in BOOLEAN /\ consent[i] \in Acceptances
    BY <1>1, <1>2
  <2> HIDE DEF past
  <2> QED
    BY <2>1 DEF Acceptances
<1>4. new \in Acceptances
  BY DEF Accepts, Acceptances
<1>5. Accepted(a) = Append(old, new)
  BY DEF Accepted
<1>6. DOMAIN consent = 1..Len(consent) /\ Len(consent) \in Nat
  BY DEF AInv, AccountTypeOK
<1>7. old \in Seq(Acceptances) /\ Len(old) = Len(consent)
  <2> HIDE DEF marked
  <2> QED
    BY <1>3, <1>6
<1>8. \A i \in DOMAIN consent : old[i] = marked(i)
  OBVIOUS
<1>9. \A i \in DOMAIN consent : marked(i).revoked <=> consent[i].revoked \/ i \in a.seen
  BY <1>3
<1> HIDE DEF old, new, marked, past
<1>10. /\ Append(old, new) \in Seq(Acceptances) /\ Len(Append(old, new)) = Len(consent) + 1
       /\ Append(old, new)[Len(consent) + 1] = new
       /\ \A i \in DOMAIN consent : Append(old, new)[i] = marked(i)
  BY <1>4, <1>6, <1>7, <1>8
<1> QED
  BY <1>3, <1>5, <1>9, <1>10 DEF new

LEMMA CommitAcceptAInv ==
  ASSUME AInv, NEW b \in Browsers, CommitAccept(b)
  PROVE  AInv'
<1>1. call[b] \in Accepts /\ call[b].creator \in DOMAIN creator
  BY CallKinds DEF CommitAccept, AInv, Known
<1>2. /\ consent' = Accepted(call[b]) /\ call' = [call EXCEPT ![b] = Idle]
      /\ Len(consent) < MaxRows /\ UNCHANGED <<creator, published, jar, proof>>
  BY DEF CommitAccept
<1>3. /\ consent' \in Seq(Acceptances) /\ Len(consent') = Len(consent) + 1
      /\ \A i \in DOMAIN consent' : consent'[i].creator = call[b].creator \/
                                    (i \in DOMAIN consent /\ consent'[i].creator = consent[i].creator)
  <2> DEFINE a == call[b]
  <2>1. a \in Accepts /\ consent' = Accepted(a)
    BY <1>1, <1>2
  <2> HIDE DEF a
  <2>2. /\ consent' \in Seq(Acceptances) /\ Len(consent') = Len(consent) + 1
        /\ consent'[Len(consent) + 1] = [creator |-> a.creator, version |-> a.version, revoked |-> FALSE]
        /\ \A i \in DOMAIN consent : consent'[i].creator = consent[i].creator
    BY <2>1, AcceptedRows
  <2>3. DOMAIN consent' = DOMAIN consent \cup {Len(consent) + 1}
    BY <2>2 DEF AInv, AccountTypeOK
  <2>4. consent'[Len(consent) + 1].creator = a.creator
    BY <2>2
  <2>5. ASSUME NEW i \in DOMAIN consent'
        PROVE  consent'[i].creator = a.creator \/
               (i \in DOMAIN consent /\ consent'[i].creator = consent[i].creator)
    BY <2>2, <2>3, <2>4, <2>5
  <2> QED
    BY <2>2, <2>5 DEF a
<1>4. AccountTypeOK'
  BY <1>2, <1>3, AccountAssumption DEF AInv, AccountTypeOK
<1>5. \A e \in Browsers : call'[e] \in {call[e], Idle}
  BY <1>2 DEF AInv, AccountTypeOK
<1> QED
  BY <1>1, <1>2, <1>3, <1>4, <1>5 DEF AInv, Known, StampIsProof, Idle

LEMMA AccountStepAInv ==
  ASSUME AInv, AccountStep
  PROVE  AInv'
<1> SUFFICES ASSUME NEW b \in Browsers,
        \/ \E w \in Wallets : GeneratePayload(b, w)
        \/ \E address \in Typed : SaveSettings(b, address)
        \/ Login(b) \/ Welcome(b) \/ CarryWallet(b) \/ Logout(b) \/ Expire(b)
        \/ OpenAccount(b) \/ Accept(b) \/ CommitAccept(b) \/ Abort(b)
     PROVE AInv'
  <2>1. CASE Publish
    <3>1. published' \in 1..MaxVersion
      BY <2>1, AccountAssumption DEF Publish, AInv, AccountTypeOK
    <3> QED
      BY <2>1, <3>1 DEF Publish, AInv, AccountTypeOK, Known, StampIsProof
  <2> QED
    BY <2>1 DEF AccountStep
<1>1. jar[b] \in Jars /\ None \in Addresses
  BY DEF AInv, AccountTypeOK, Addresses
<1>2. ASSUME NEW w \in Wallets, GeneratePayload(b, w) PROVE AInv'
  <2> DEFINE j == [jar[b] EXCEPT !.nonce = w]
  <2>1. j \in Jars /\ j.session = jar[b].session
    BY <1>1 DEF Jars, Addresses
  <2>2. jar' = [jar EXCEPT ![b] = j]
    BY <1>2 DEF GeneratePayload
  <2> HIDE DEF j
  <2> QED
    BY <1>2, <2>1, <2>2, CookiesAInv DEF GeneratePayload
<1>3. CASE Logout(b)
  <2> DEFINE j == [jar[b] EXCEPT !.session = None, !.pending = None]
  <2>1. j \in Jars /\ j.session = None
    BY <1>1 DEF Jars
  <2>2. jar' = [jar EXCEPT ![b] = j]
    BY <1>3 DEF Logout
  <2> HIDE DEF j
  <2> QED
    BY <1>3, <2>1, <2>2, CookiesAInv DEF Logout
<1>4. CASE Expire(b)
  <2>1. PICK cookie \in {"nonce", "pending", "session"} :
          jar' = [jar EXCEPT ![b] = [jar[b] EXCEPT ![cookie] = None]]
    BY <1>4 DEF Expire
  <2> DEFINE j == [jar[b] EXCEPT ![cookie] = None]
  <2>2. j \in Jars /\ j.session \in {jar[b].session, None}
    BY <1>1 DEF Jars
  <2> HIDE DEF j
  <2> QED
    BY <1>4, <2>1, <2>2, CookiesAInv DEF Expire, j
<1>5. CASE Abort(b)
  BY <1>5, CallEndsAInv DEF Abort
<1> QED
  BY <1>2, <1>3, <1>4, <1>5, LoginAInv, WelcomeAInv, CarryAInv, SaveSettingsAInv, OpenAccountAInv,
     AcceptAInv, CommitAcceptAInv

-----------------------------------------------------------------------------
(* Acceptances that do not overlap: each account has one active row, and   *)
(* the rows a running acceptance is about to supersede are still those.    *)

OneEach ==
  /\ \A b, e \in Browsers :
       call[b].op = "accept" /\ call[e].op = "accept" /\ call[b].creator = call[e].creator => b = e
  /\ \A b \in Browsers : call[b].op = "accept" => call[b].seen = Active(call[b].creator)
  /\ \A c \in DOMAIN creator : \E i \in DOMAIN consent : Active(c) = {i}

LEMMA InitOneEach == AccountInit => OneEach
BY DEF AccountInit, OneEach, Idle

\* A step that writes no acceptance and begins none.
LEMMA QuietOneEach ==
  ASSUME OneEach, consent' = consent, DOMAIN creator' = DOMAIN creator,
         \A e \in Browsers : call'[e] = call[e] \/ call'[e].op # "accept"
  PROVE  OneEach'
<1>1. \A c : Active(c)' = Active(c)
  BY DEF Active
<1>2. \A b \in Browsers : call'[b].op = "accept" => call'[b] = call[b]
  OBVIOUS
<1> QED
  BY <1>1, <1>2 DEF OneEach

LEMMA OpenAccountOneEach ==
  ASSUME AInv, OneEach, NEW b \in Browsers, OpenAccount(b)
  PROVE  OneEach'
<1>0. PICK c, n : c = Len(creator) + 1 /\ n = Len(consent) + 1
  OBVIOUS
<1> DEFINE row == [creator |-> c, version |-> published, revoked |-> FALSE]
           new == [wallet |-> jar[b].pending, verified |-> TRUE]
<1>1. /\ consent' = Append(consent, row) /\ call' = call /\ c \in Ids
      /\ new \in Creators /\ creator' = Append(creator, new)
  <2>1. consent' = Append(consent, row) /\ call' = call /\ creator' = Append(creator, new)
        /\ c <= MaxCreators
    BY <1>0 DEF OpenAccount
  <2>2. jar[b].pending \in Addresses
    BY DEF AInv, AccountTypeOK, Jars
  <2>3. new \in Creators
    BY <2>2 DEF Creators
  <2> QED
    BY <1>0, <2>1, <2>3, AccountAssumption DEF AInv, AccountTypeOK, Ids
<1>2. row \in Acceptances
  BY <1>1, AccountAssumption DEF Acceptances, AInv, AccountTypeOK
<1>3. DOMAIN creator' = DOMAIN creator \cup {c} /\ c \notin DOMAIN creator
  BY <1>0, <1>1, AppendRow DEF AInv, AccountTypeOK
<1>4. row.creator = c /\ row.revoked = FALSE
  OBVIOUS
<1> HIDE DEF row, new
<1>5. /\ DOMAIN consent' = DOMAIN consent \cup {n} /\ n \notin DOMAIN consent
      /\ consent'[n] = row /\ \A i \in DOMAIN consent : consent'[i] = consent[i]
  BY <1>0, <1>1, <1>2, AppendRow DEF AInv, AccountTypeOK
<1>6. \A i \in DOMAIN consent : consent[i].creator # c
  BY <1>3 DEF AInv, Known
<1>7. Active(c)' = {n}
  <2>1. Active(c)' = {i \in DOMAIN consent' : consent'[i].creator = c /\ ~consent'[i].revoked}
    BY DEF Active
  <2> QED
    BY <1>4, <1>5, <1>6, <2>1
<1>8. \A e \in DOMAIN creator : Active(e)' = Active(e)
  BY <1>3, <1>4, <1>5 DEF Active
<1>9. \A e \in Browsers : call[e].op = "accept" => call[e].creator \in DOMAIN creator
  BY DEF AInv, Known
<1> QED
  BY <1>1, <1>3, <1>5, <1>7, <1>8, <1>9 DEF OneEach

LEMMA AcceptOneEach ==
  ASSUME AInv, OneEach, Overlap = FALSE, NEW b \in Browsers, Accept(b)
  PROVE  OneEach'
<1> DEFINE c == Acting(b)
           a == [op |-> "accept", creator |-> c, version |-> published, seen |-> Active(c)]
<1>1. /\ call' = [call EXCEPT ![b] = a] /\ consent' = consent /\ creator' = creator
      /\ \A d \in Browsers : ~(call[d].op = "accept" /\ call[d].creator = c)
  BY DEF Accept
<1>2. a.creator = c /\ a.seen = Active(c)
  OBVIOUS
<1> HIDE DEF a, c
<1>3. call'[b] = a /\ \A e \in Browsers : e # b => call'[e] = call[e]
  BY <1>1 DEF AInv, AccountTypeOK
<1>4. \A e : Active(e)' = Active(e)
  BY <1>1 DEF Active
<1> QED
  BY <1>1, <1>2, <1>3, <1>4 DEF OneEach

LEMMA CommitAcceptOneEach ==
  ASSUME AInv, OneEach, NEW b \in Browsers, CommitAccept(b)
  PROVE  OneEach'
<1>0. PICK a, c, n : a = call[b] /\ c = a.creator /\ n = Len(consent) + 1
  OBVIOUS
<1>1. /\ consent' = Accepted(a) /\ call' = [call EXCEPT ![b] = Idle] /\ creator' = creator
      /\ a.op = "accept" /\ a \in Accepts /\ a.seen = Active(c)
  BY <1>0, CallKinds DEF CommitAccept, OneEach
<1>2. /\ call'[b].op # "accept" /\ \A e \in Browsers : e # b => call'[e] = call[e]
  BY <1>1 DEF AInv, AccountTypeOK, Idle
<1>3. \A e \in Browsers : e # b /\ call[e].op = "accept" => call[e].creator # c
  BY <1>0, <1>1 DEF OneEach
<1>4. /\ consent' \in Seq(Acceptances) /\ Len(consent') = n
      /\ consent'[n] = [creator |-> a.creator, version |-> a.version, revoked |-> FALSE]
      /\ \A i \in DOMAIN consent :
           /\ consent'[i].creator = consent[i].creator
           /\ consent'[i].revoked <=> consent[i].revoked \/ i \in a.seen
  BY <1>0, <1>1, AcceptedRows
<1>5. DOMAIN consent' = DOMAIN consent \cup {n} /\ n \notin DOMAIN consent
  BY <1>0, <1>4 DEF AInv, AccountTypeOK
<1>6. consent'[n].creator = c /\ consent'[n].revoked = FALSE
  BY <1>0, <1>4
<1>7. Active(c)' = {n}
  <2>1. \A i \in DOMAIN consent : consent'[i].creator = c => consent'[i].revoked
    BY <1>1, <1>4 DEF Active
  <2> QED
    <3>1. Active(c)' = {i \in DOMAIN consent' : consent'[i].creator = c /\ ~consent'[i].revoked}
      BY DEF Active
    <3> QED
      BY <1>5, <1>6, <2>1, <3>1
<1>8. \A e : e # c => Active(e)' = Active(e)
  <2> TAKE e
  <2> HAVE e # c
  <2>1. \A i \in DOMAIN consent : consent[i].creator = e => i \notin a.seen
    BY <1>1 DEF Active
  <2> QED
    BY <1>4, <1>5, <1>6, <2>1 DEF Active
<1> QED
  BY <1>1, <1>2, <1>3, <1>5, <1>7, <1>8 DEF OneEach

LEMMA AccountStepOneEach ==
  ASSUME AInv, OneEach, Overlap = FALSE, AccountStep
  PROVE  OneEach'
<1>1. CASE Publish
  BY <1>1, QuietOneEach DEF Publish
<1>2. ASSUME NEW b \in Browsers, OpenAccount(b) \/ Accept(b) \/ CommitAccept(b) PROVE OneEach'
  BY <1>2, OpenAccountOneEach, AcceptOneEach, CommitAcceptOneEach
<1>3. ASSUME NEW b \in Browsers,
             \/ \E w \in Wallets : GeneratePayload(b, w)
             \/ \E address \in Typed : SaveSettings(b, address)
             \/ Logout(b) \/ Expire(b)
      PROVE  OneEach'
  <2>1. consent' = consent /\ call' = call /\ DOMAIN creator' = DOMAIN creator
    BY <1>3 DEF GeneratePayload, SaveSettings, Logout, Expire
  <2> QED
    BY <2>1, QuietOneEach
<1>4. ASSUME NEW b \in Browsers, Login(b) \/ Welcome(b) \/ CarryWallet(b) \/ Abort(b)
      PROVE  OneEach'
  <2>1. consent' = consent /\ DOMAIN creator' = DOMAIN creator
    BY <1>4 DEF Login, Welcome, CarryWallet, Abort, Marked
  <2>2. \A e \in Browsers : call'[e] = call[e] \/ call'[e].op # "accept"
    BY <1>4 DEF Login, Welcome, CarryWallet, Abort, AInv, AccountTypeOK, Idle
  <2> QED
    BY <2>1, <2>2, QuietOneEach
<1> QED
  BY <1>1, <1>2, <1>3, <1>4 DEF AccountStep

LEMMA OneEachActive == OneEach => OneActive
BY FS_Singleton DEF OneEach, OneActive

-----------------------------------------------------------------------------
(* Uploads.                                                                *)

Placed == {"posted", "inserting"}

Uploading == {"encrypting", "applying"}

HasRow(c, v) == \E i \in DOMAIN consent : consent[i].creator = c /\ consent[i].version = v

\* A request that was let in has its acceptance, an upload its asset.
Backed ==
  \A b \in Browsers, d \in Files :
    /\ item[<<b, d>>].status \in Placed =>
         item[<<b, d>>].creator \in Ids /\ HasRow(item[<<b, d>>].creator, item[<<b, d>>].terms)
    /\ item[<<b, d>>].status \in Uploading =>
         item[<<b, d>>].creator \in Ids /\ asset[<<item[<<b, d>>].creator, d>>] # None

IInv == AInv /\ TypeOK /\ Backed /\ UploadsConsented

LEMMA InitIInv == Init => IInv
<1> SUFFICES ASSUME Init PROVE IInv
  OBVIOUS
<1>1. AInv
  BY InitAInv DEF Init
<1>2. Absent \in Items
  BY AccountAssumption DEF Absent, Items, Final, InFlight
<1>3. TypeOK
  BY <1>1, <1>2, IntakeAssumption DEF Init, TypeOK, AInv
<1>4. Backed /\ UploadsConsented
  BY DEF Init, Backed, UploadsConsented, Absent, Placed, Uploading
<1> QED
  BY <1>1, <1>3, <1>4 DEF IInv

\* Acceptances are superseded, never taken back.
LEMMA RowsKept ==
  ASSUME AInv, AccountStep
  PROVE  \A c, v : HasRow(c, v) => HasRow(c, v)'
<1>1. CASE consent' = consent
  BY <1>1 DEF HasRow
<1>2. ASSUME NEW b \in Browsers, OpenAccount(b)
      PROVE  \A c, v : HasRow(c, v) => HasRow(c, v)'
  <2>1. PICK row : consent' = Append(consent, row)
    BY <1>2 DEF OpenAccount
  <2>2. consent \in Seq(Acceptances)
    BY DEF AInv, AccountTypeOK
  <2>3. \A i \in DOMAIN consent : i \in DOMAIN consent' /\ consent'[i] = consent[i]
    BY <2>1, <2>2
  <2> QED
    BY <2>3 DEF HasRow
<1>3. ASSUME NEW b \in Browsers, CommitAccept(b)
      PROVE  \A c, v : HasRow(c, v) => HasRow(c, v)'
  <2>1. PICK a : a = call[b]
    OBVIOUS
  <2>2. a \in Accepts /\ consent' = Accepted(a)
    BY <1>3, <2>1, CallKinds DEF CommitAccept
  <2>3. /\ consent' \in Seq(Acceptances) /\ Len(consent') = Len(consent) + 1
        /\ \A i \in DOMAIN consent :
             consent'[i].creator = consent[i].creator /\ consent'[i].version = consent[i].version
    BY <2>2, AcceptedRows
  <2>4. \A i \in DOMAIN consent : i \in DOMAIN consent'
    BY <2>3 DEF AInv, AccountTypeOK
  <2> QED
    BY <2>3, <2>4 DEF HasRow
<1> QED
  BY <1>1, <1>2, <1>3 DEF AccountStep, Publish, GeneratePayload, SaveSettings, Login, Welcome,
     CarryWallet, Logout, Expire, Accept, Abort

LEMMA AccountStepIInv ==
  ASSUME IInv, AccountStep, UNCHANGED <<asset, item, stored, manifest>>
  PROVE  IInv'
<1>1. AInv'
  BY AccountStepAInv DEF IInv
<1>2. TypeOK'
  BY <1>1 DEF IInv, TypeOK, AInv
<1>3. \A c, v : HasRow(c, v) => HasRow(c, v)'
  BY RowsKept DEF IInv
<1>4. Backed'
  BY <1>3 DEF IInv, Backed
<1>5. UploadsConsented'
  <2> SUFFICES ASSUME NEW c \in Ids, NEW d \in Files, asset[<<c, d>>] # None
               PROVE  HasRow(c, asset[<<c, d>>].terms)'
    BY DEF UploadsConsented, HasRow
  <2>1. HasRow(c, asset[<<c, d>>].terms)
    BY DEF IInv, UploadsConsented, HasRow
  <2>2. HasRow(c, asset[<<c, d>>].terms)' = (\E i \in DOMAIN consent' :
          consent'[i].creator = c /\ consent'[i].version = asset[<<c, d>>].terms)
    BY DEF HasRow
  <2> QED
    BY <1>3, <2>1, <2>2 DEF HasRow
<1> QED
  BY <1>1, <1>2, <1>4, <1>5 DEF IInv

\* A step of the queue leaves accounts as they are.
LEMMA AccountsStand ==
  ASSUME AInv, UNCHANGED accountVars
  PROVE  AInv' /\ AccountTypeOK' /\ \A c, v : HasRow(c, v)' <=> HasRow(c, v)
BY DEF accountVars, AInv, AccountTypeOK, Known, StampIsProof, HasRow

\* One entry of one queue changes; the asset table stays or only gains.
LEMMA EntryIInv ==
  ASSUME IInv, UNCHANGED accountVars, NEW b \in Browsers, NEW d \in Files, NEW x \in Items,
         item' = [item EXCEPT ![<<b, d>>] = x],
         asset' \in [Ids \X Files -> Assets \cup {None}],
         \A c \in Ids, f \in Files : asset[<<c, f>>] # None => asset'[<<c, f>>] # None,
         stored' \subseteq Ids \X Files, manifest' = manifest,
         UploadsConsented',
         x.status \in Placed => x.creator \in Ids /\ HasRow(x.creator, x.terms),
         x.status \in Uploading => x.creator \in Ids /\ asset'[<<x.creator, d>>] # None
  PROVE  IInv'
<1>1. AInv' /\ AccountTypeOK' /\ \A c, v : HasRow(c, v)' <=> HasRow(c, v)
  BY AccountsStand DEF IInv
<1>2. item' \in [Browsers \X Files -> Items]
  BY DEF IInv, TypeOK
<1>3. TypeOK'
  BY <1>1, <1>2 DEF IInv, TypeOK
<1>4. item'[<<b, d>>] = x /\ \A e \in Browsers, f \in Files : <<e, f>> # <<b, d>> => item'[<<e, f>>] = item[<<e, f>>]
  BY DEF IInv, TypeOK
<1>5. Backed'
  <2> SUFFICES ASSUME NEW e \in Browsers, NEW f \in Files
               PROVE  /\ item'[<<e, f>>].status \in Placed =>
                           /\ item'[<<e, f>>].creator \in Ids
                           /\ HasRow(item'[<<e, f>>].creator, item'[<<e, f>>].terms)
                      /\ item'[<<e, f>>].status \in Uploading =>
                           /\ item'[<<e, f>>].creator \in Ids
                           /\ asset'[<<item'[<<e, f>>].creator, f>>] # None
    BY <1>1 DEF Backed
  <2>1. CASE <<e, f>> = <<b, d>>
    BY <1>4, <2>1
  <2>2. CASE <<e, f>> # <<b, d>>
    BY <1>4, <2>2 DEF IInv, Backed
  <2> QED
    BY <2>1, <2>2
<1> QED
  BY <1>1, <1>3, <1>5 DEF IInv

Statuses == InFlight \cup Final \cup {"none", "error"}

LEMMA Entry ==
  ASSUME IInv, NEW b \in Browsers, NEW d \in Files
  PROVE  item[<<b, d>>] \in Items
BY DEF IInv, TypeOK

\* An entry moves to another status.
LEMMA Moved ==
  ASSUME NEW i \in Items, NEW s \in Statuses
  PROVE  LET x == [i EXCEPT !.status = s]
         IN  /\ x \in Items /\ x.status = s
             /\ x.creator = i.creator /\ x.terms = i.terms /\ x.seen = i.seen
BY DEF Items, Statuses

LEMMA FreshEntries ==
  /\ \A s \in Statuses : [Absent EXCEPT !.status = s] \in Items /\ [Absent EXCEPT !.status = s].status = s
  /\ Absent \in Items /\ Absent.status = "none"
<1>1. Absent \in Items /\ Absent.status = "none"
  BY AccountAssumption DEF Absent, Items, Final, InFlight
<1> QED
  BY <1>1, Moved

\* An entry that is neither with the server nor uploading asks for nothing.
LEMMA IdleEntryIInv ==
  ASSUME IInv, UNCHANGED accountVars, NEW b \in Browsers, NEW d \in Files, NEW x \in Items,
         item' = [item EXCEPT ![<<b, d>>] = x], x.status \notin Placed \cup Uploading,
         UNCHANGED <<asset, stored, manifest>>
  PROVE  IInv'
<1>1. /\ asset' \in [Ids \X Files -> Assets \cup {None}] /\ stored' \subseteq Ids \X Files
      /\ manifest' = manifest
      /\ \A c \in Ids, f \in Files : asset[<<c, f>>] # None => asset'[<<c, f>>] # None
  BY DEF IInv, TypeOK
<1>2. UploadsConsented'
  BY DEF IInv, UploadsConsented, accountVars
<1> QED
  BY <1>1, <1>2, EntryIInv

LEMMA DropIInv ==
  ASSUME IInv, UNCHANGED accountVars, NEW b \in Browsers, NEW d \in Files, Drop(b, d),
         UNCHANGED <<asset, stored, manifest>>
  PROVE  IInv'
<1>1. PICK x : x = [Absent EXCEPT !.status = "error"]
  OBVIOUS
<1>2. x \in Items /\ x.status = "error"
  BY <1>1, FreshEntries DEF Statuses
<1>3. item' = [item EXCEPT ![<<b, d>>] = x]
  BY <1>1 DEF Drop
<1> QED
  BY <1>2, <1>3, IdleEntryIInv DEF Placed, Uploading

LEMMA AddFileIInv ==
  ASSUME IInv, NEW b \in Browsers, NEW d \in Files, AddFile(b, d)
  PROVE  IInv'
<1>1. PICK x : x = [Absent EXCEPT !.status = "hashing"]
  OBVIOUS
<1>2. x \in Items /\ x.status = "hashing"
  BY <1>1, FreshEntries DEF Statuses, InFlight
<1>3. item' = [item EXCEPT ![<<b, d>>] = x] /\ UNCHANGED <<accountVars, asset, stored, manifest>>
  BY <1>1 DEF AddFile
<1> QED
  BY <1>2, <1>3, IdleEntryIInv DEF Placed, Uploading

LEMMA PostIInv ==
  ASSUME IInv, NEW b \in Browsers, NEW d \in Files, Post(b, d)
  PROVE  IInv'
<1>1. CASE Drop(b, d)
  BY <1>1, DropIInv DEF Post
<1>2. ASSUME ~ Drop(b, d) PROVE IInv'
  <2>1. PICK c : c = Acting(b)
    OBVIOUS
  <2>2. PICK i : i = item[<<b, d>>]
    OBVIOUS
  <2>3. PICK x : x = [i EXCEPT !.status = "posted", !.creator = c, !.terms = published]
    OBVIOUS
  <2>4. /\ c # None /\ HasCurrentConsent(c) /\ item' = [item EXCEPT ![<<b, d>>] = x]
        /\ UNCHANGED <<accountVars, asset, stored, manifest>>
    BY <1>2, <2>1, <2>2, <2>3 DEF Post
  <2>5. c \in Ids /\ i \in Items /\ published \in 1..MaxVersion
    BY <2>1, <2>2, <2>4, ActingKnown, Entry DEF IInv, AInv, AccountTypeOK
  <2>6. x \in Items /\ x.status = "posted" /\ x.creator = c /\ x.terms = published
    BY <2>3, <2>5 DEF Items, InFlight
  <2>7. HasRow(c, published)
    BY <2>4 DEF HasCurrentConsent, HasRow, Active
  <2>8. UploadsConsented'
    BY <2>4 DEF IInv, UploadsConsented, accountVars
  <2>9. /\ asset' \in [Ids \X Files -> Assets \cup {None}] /\ stored' \subseteq Ids \X Files
        /\ manifest' = manifest
        /\ \A e \in Ids, f \in Files : asset[<<e, f>>] # None => asset'[<<e, f>>] # None
    BY <2>4 DEF IInv, TypeOK
  <2> QED
    BY <2>4, <2>5, <2>6, <2>7, <2>8, <2>9, EntryIInv DEF Uploading
<1> QED
  BY <1>1, <1>2

LEMMA InsertIInv ==
  ASSUME IInv, NEW b \in Browsers, NEW d \in Files, Insert(b, d)
  PROVE  IInv'
<1>1. PICK i : i = item[<<b, d>>]
  OBVIOUS
<1>2. PICK x : x = [i EXCEPT !.status = "inserting", !.seen = Claimants(d) \ {i.creator}]
  OBVIOUS
<1>3. item' = [item EXCEPT ![<<b, d>>] = x] /\ i.status = "posted"
      /\ UNCHANGED <<accountVars, asset, stored, manifest>>
  BY <1>1, <1>2 DEF Insert
<1>4. i \in Items /\ i.creator \in Ids /\ HasRow(i.creator, i.terms)
  BY <1>1, <1>3, Entry DEF IInv, Backed, Placed
<1>5. Claimants(d) \ {i.creator} \subseteq Ids
  BY DEF Claimants
<1>6. x \in Items /\ x.status = "inserting" /\ x.creator = i.creator /\ x.terms = i.terms
  BY <1>2, <1>4, <1>5 DEF Items, InFlight
<1>7. UploadsConsented'
  BY <1>3 DEF IInv, UploadsConsented, accountVars
<1>8. /\ asset' \in [Ids \X Files -> Assets \cup {None}] /\ stored' \subseteq Ids \X Files
      /\ manifest' = manifest
      /\ \A e \in Ids, f \in Files : asset[<<e, f>>] # None => asset'[<<e, f>>] # None
  BY <1>3 DEF IInv, TypeOK
<1> QED
  BY <1>3, <1>4, <1>6, <1>7, <1>8, EntryIInv DEF Uploading

\* What an INSERT and its trigger make of the asset table: the rows that were
\* there stand, the account has its row, and only these bytes are concerned.
RowAdded(c, d, seen, terms, after) ==
  /\ after \in [Ids \X Files -> Assets \cup {None}]
  /\ \A r \in Ids \X Files : after[r] # None <=> (asset[r] # None \/ r = <<c, d>>)
  /\ \A r \in Ids \X Files : asset[r] # None => after[r].terms = asset[r].terms
  /\ asset[<<c, d>>] = None => after[<<c, d>>].terms = terms
  /\ \A r \in Ids \X Files : r[2] # d => after[r] = asset[r]
  /\ \A e \in Ids : after[<<e, d>>] # None =>
       /\ asset[<<e, d>>] # None =>
            /\ asset[<<e, d>>].flagged \/ e \in seen => after[<<e, d>>].flagged
            /\ asset[<<e, d>>].told => after[<<e, d>>].told
       /\ (asset[<<e, d>>] = None /\ seen # {}) => after[<<e, d>>].flagged
       /\ (asset[<<c, d>>] = None /\ seen # {}) => after[<<e, d>>].told

LEMMA RegisteredRows ==
  ASSUME asset \in [Ids \X Files -> Assets \cup {None}],
         NEW c \in Ids, NEW d \in Files, NEW seen \in SUBSET Ids, NEW terms \in 1..MaxVersion,
         NEW after, after = Registered(c, d, seen, terms)
  PROVE  RowAdded(c, d, seen, terms, after)
<1>1. PICK flag \in BOOLEAN : flag <=> seen # {}
  OBVIOUS
<1>2. PICK tell \in BOOLEAN : tell <=> (asset[<<c, d>>] = None /\ seen # {})
  OBVIOUS
<1> DEFINE row == [flagged |-> flag, told |-> FALSE, terms |-> terms, described |-> FALSE]
           rows == [asset EXCEPT ![<<c, d>>] = IF asset[<<c, d>>] = None THEN row ELSE @]
           named(r) == r[1] \in seen
           value(r) == IF r[2] # d \/ rows[r] = None THEN rows[r]
                       ELSE [rows[r] EXCEPT !.flagged = @ \/ named(r), !.told = @ \/ tell]
<1>3. after = [r \in Ids \X Files |-> value(r)]
  <2>1. seen # {} <=> flag
    BY <1>1
  <2>2. (seen # {}) = flag /\ (asset[<<c, d>>] = None /\ seen # {}) = tell
    BY <1>1, <1>2
  <2> QED
    BY <2>2 DEF Registered
<1>4. row \in Assets /\ row.flagged = flag /\ row.told = FALSE /\ row.terms = terms
  BY DEF Assets
<1> HIDE DEF row
<1>5. /\ rows \in [Ids \X Files -> Assets \cup {None}]
      /\ \A r \in Ids \X Files : r # <<c, d>> => rows[r] = asset[r]
      /\ rows[<<c, d>>] = IF asset[<<c, d>>] = None THEN row ELSE asset[<<c, d>>]
  BY <1>4
<1> HIDE DEF rows
<1>6. \A r \in Ids \X Files : rows[r] # None <=> (asset[r] # None \/ r = <<c, d>>)
  BY <1>4, <1>5, NoneAssumption
<1>7. ASSUME NEW r \in Ids \X Files, r[2] = d, rows[r] # None
      PROVE  /\ value(r) \in Assets /\ value(r).terms = rows[r].terms
             /\ rows[r].flagged \/ r[1] \in seen => value(r).flagged
             /\ rows[r].told \/ tell => value(r).told
  <2>1. rows[r] \in Assets
    BY <1>5, <1>7
  <2>2. PICK was : was = rows[r]
    OBVIOUS
  <2>3. PICK f \in BOOLEAN : f <=> (was.flagged \/ named(r))
    OBVIOUS
  <2>4. PICK t \in BOOLEAN : t <=> (was.told \/ tell)
    OBVIOUS
  <2>5. value(r) = [was EXCEPT !.flagged = f, !.told = t]
    <3>1. value(r) = [was EXCEPT !.flagged = was.flagged \/ named(r), !.told = was.told \/ tell]
      BY <1>7, <2>2
    <3>2. (was.flagged \/ named(r)) = f /\ (was.told \/ tell) = t
      BY <2>3, <2>4
    <3> QED
      BY <3>1, <3>2
  <2>6. was \in Assets
    BY <2>1, <2>2
  <2>7. /\ value(r) \in Assets /\ value(r).terms = was.terms
        /\ value(r).flagged = f /\ value(r).told = t
    <3> HIDE DEF value
    <3> QED
      BY <2>5, <2>6 DEF Assets
  <2> HIDE DEF value
  <2> QED
    BY <2>2, <2>3, <2>4, <2>7
<1>8. \A r \in Ids \X Files : r[2] # d \/ rows[r] = None => value(r) = rows[r]
  OBVIOUS
<1>9. \A r \in Ids \X Files : after[r] = value(r)
  BY <1>3
<1> HIDE DEF value
<1>10. after \in [Ids \X Files -> Assets \cup {None}]
  <2>1. \A r \in Ids \X Files : value(r) \in Assets \cup {None}
    BY <1>5, <1>7, <1>8
  <2> QED
    BY <1>3, <2>1
<1>11. \A r \in Ids \X Files : after[r] # None <=> rows[r] # None
  BY <1>7, <1>8, <1>9, NoneAssumption
<1>12. \A r \in Ids \X Files : rows[r] # None => after[r].terms = rows[r].terms
  BY <1>7, <1>8, <1>9
<1>13. \A r \in Ids \X Files : r[2] # d => after[r] = asset[r]
  BY <1>5, <1>8, <1>9
<1>14. \A e \in Ids : rows[<<e, d>>] # None =>
         /\ rows[<<e, d>>].flagged \/ e \in seen => after[<<e, d>>].flagged
         /\ rows[<<e, d>>].told \/ tell => after[<<e, d>>].told
  BY <1>7, <1>9
<1>15. /\ \A r \in Ids \X Files : asset[r] # None => rows[r] = asset[r]
       /\ asset[<<c, d>>] = None => rows[<<c, d>>] = row
       /\ \A e \in Ids : asset[<<e, d>>] = None /\ rows[<<e, d>>] # None => e = c
  BY <1>5, <1>6
<1>16. \A r \in Ids \X Files : after[r] # None <=> (asset[r] # None \/ r = <<c, d>>)
  BY <1>6, <1>11
<1>17. \A r \in Ids \X Files : asset[r] # None => after[r].terms = asset[r].terms
  BY <1>6, <1>12, <1>15
<1>18. asset[<<c, d>>] = None => after[<<c, d>>].terms = terms
  BY <1>4, <1>6, <1>12, <1>15
<1>19. \A e \in Ids : after[<<e, d>>] # None =>
         /\ asset[<<e, d>>] # None =>
              /\ asset[<<e, d>>].flagged \/ e \in seen => after[<<e, d>>].flagged
              /\ asset[<<e, d>>].told => after[<<e, d>>].told
         /\ (asset[<<e, d>>] = None /\ seen # {}) => after[<<e, d>>].flagged
         /\ (asset[<<c, d>>] = None /\ seen # {}) => after[<<e, d>>].told
  <2> SUFFICES ASSUME NEW e \in Ids, after[<<e, d>>] # None
               PROVE  /\ asset[<<e, d>>] # None =>
                           /\ asset[<<e, d>>].flagged \/ e \in seen => after[<<e, d>>].flagged
                           /\ asset[<<e, d>>].told => after[<<e, d>>].told
                      /\ (asset[<<e, d>>] = None /\ seen # {}) => after[<<e, d>>].flagged
                      /\ (asset[<<c, d>>] = None /\ seen # {}) => after[<<e, d>>].told
    OBVIOUS
  <2>1. rows[<<e, d>>] # None
    BY <1>11
  <2>2. /\ rows[<<e, d>>].flagged \/ e \in seen => after[<<e, d>>].flagged
        /\ rows[<<e, d>>].told \/ tell => after[<<e, d>>].told
    BY <1>14, <2>1
  <2>3. asset[<<e, d>>] # None => rows[<<e, d>>] = asset[<<e, d>>]
    BY <1>15
  <2>4. asset[<<e, d>>] = None => rows[<<e, d>>] = row
    BY <1>15, <2>1
  <2> QED
    BY <1>1, <1>2, <1>4, <2>2, <2>3, <2>4
<1> QED
  BY <1>10, <1>13, <1>16, <1>17, <1>18, <1>19 DEF RowAdded

LEMMA CommitIInv ==
  ASSUME IInv, NEW b \in Browsers, NEW d \in Files, Commit(b, d)
  PROVE  IInv'
<1>1. PICK i : i = item[<<b, d>>]
  OBVIOUS
<1>2. /\ i.status = "inserting" /\ i \in Items /\ i.creator \in Ids /\ HasRow(i.creator, i.terms)
      /\ i.seen \in SUBSET Ids /\ i.terms \in 1..MaxVersion
  BY <1>1, Entry DEF Commit, IInv, Backed, Placed, Items
<1>3. PICK c : c = i.creator
  OBVIOUS
<1>4. PICK s : s = StatusOf(asset'[<<c, d>>], asset[<<c, d>>] # None)
  OBVIOUS
<1>5. PICK t : t = IF s = "flagged" THEN "flagged" ELSE "encrypting"
  OBVIOUS
<1>6. PICK x : x = [i EXCEPT !.status = t, !.seen = {}, !.answer = s]
  OBVIOUS
<1>7. /\ item' = [item EXCEPT ![<<b, d>>] = x] /\ asset' = Registered(c, d, i.seen, i.terms)
      /\ UNCHANGED <<accountVars, stored, manifest>>
  BY <1>1, <1>3, <1>4, <1>5, <1>6 DEF Commit
<1>8. s \in Final /\ t \in {"flagged", "encrypting"}
  BY <1>4, <1>5 DEF StatusOf, Final
<1>9. x \in Items /\ x.status = t /\ x.creator = c
  BY <1>2, <1>3, <1>6, <1>8 DEF Items, InFlight, Final
<1>10. /\ asset' \in [Ids \X Files -> Assets \cup {None}]
       /\ \A r \in Ids \X Files : asset'[r] # None <=> (asset[r] # None \/ r = <<c, d>>)
       /\ \A r \in Ids \X Files : asset[r] # None => asset'[r].terms = asset[r].terms
       /\ asset[<<c, d>>] = None => asset'[<<c, d>>].terms = i.terms
  <2>1. asset \in [Ids \X Files -> Assets \cup {None}]
    BY DEF IInv, TypeOK
  <2>2. PICK seen, terms, after : seen = i.seen /\ terms = i.terms /\ after = asset'
    OBVIOUS
  <2>3. c \in Ids /\ seen \in SUBSET Ids /\ terms \in 1..MaxVersion
    BY <1>2, <1>3, <2>2
  <2>4. after = Registered(c, d, seen, terms)
    BY <1>7, <2>2
  <2>5. /\ after \in [Ids \X Files -> Assets \cup {None}]
        /\ \A r \in Ids \X Files : after[r] # None <=> (asset[r] # None \/ r = <<c, d>>)
        /\ \A r \in Ids \X Files : asset[r] # None => after[r].terms = asset[r].terms
        /\ asset[<<c, d>>] = None => after[<<c, d>>].terms = terms
    <3>1. RowAdded(c, d, seen, terms, after)
      BY <2>1, <2>3, <2>4, RegisteredRows
    <3> QED
      BY <3>1 DEF RowAdded
  <2> QED
    BY <2>2, <2>5
<1>11. UploadsConsented'
  <2> SUFFICES ASSUME NEW e \in Ids, NEW f \in Files, asset'[<<e, f>>] # None
               PROVE  HasRow(e, asset'[<<e, f>>].terms)
    BY <1>7 DEF UploadsConsented, HasRow, accountVars
  <2>1. CASE asset[<<e, f>>] # None
    BY <1>10, <2>1 DEF IInv, UploadsConsented, HasRow
  <2>2. CASE asset[<<e, f>>] = None
    <3>1. <<e, f>> = <<c, d>>
      BY <1>10, <2>2
    <3> QED
      BY <1>2, <1>3, <1>10, <2>2, <3>1
  <2> QED
    BY <2>1, <2>2
<1>12. /\ \A e \in Ids, f \in Files : asset[<<e, f>>] # None => asset'[<<e, f>>] # None
       /\ asset'[<<c, d>>] # None
  BY <1>2, <1>3, <1>10
<1>13. stored' \subseteq Ids \X Files /\ manifest' = manifest
  BY <1>7 DEF IInv, TypeOK
<1>14. UNCHANGED accountVars
  BY <1>7
<1>15. x.status \notin Placed /\ x.creator \in Ids
  BY <1>2, <1>3, <1>8, <1>9 DEF Placed
<1> QED
  BY <1>7, <1>9, <1>10, <1>11, <1>12, <1>13, <1>14, <1>15, EntryIInv

LEMMA EncryptIInv ==
  ASSUME IInv, NEW b \in Browsers, NEW d \in Files, Encrypt(b, d)
  PROVE  IInv'
<1>1. CASE Drop(b, d) /\ UNCHANGED stored
  BY <1>1, DropIInv DEF Encrypt
<1>2. ASSUME ~(Drop(b, d) /\ UNCHANGED stored) PROVE IInv'
  <2>1. PICK i : i = item[<<b, d>>]
    OBVIOUS
  <2>2. PICK s : s = IF manifest[<<b, d>>] THEN "applying" ELSE i.answer
    OBVIOUS
  <2>3. PICK x : x = [i EXCEPT !.status = s]
    OBVIOUS
  <2>4. /\ i.status = "encrypting" /\ stored' = stored \cup {<<i.creator, d>>}
        /\ item' = [item EXCEPT ![<<b, d>>].status = s]
        /\ UNCHANGED <<accountVars, asset, manifest>>
    BY <1>2, <2>1, <2>2 DEF Encrypt, Goto
  <2>5. i \in Items /\ i.creator \in Ids /\ asset[<<i.creator, d>>] # None
    BY <2>1, <2>4, Entry DEF IInv, Backed, Uploading
  <2>6. s \in Statuses /\ s \notin Placed
    BY <2>2, <2>5 DEF Items, Statuses, InFlight, Final, Placed
  <2>7. x \in Items /\ x.status = s /\ x.creator = i.creator
    BY <2>3, <2>5, <2>6, Moved
  <2>8. item' = [item EXCEPT ![<<b, d>>] = x]
    BY <2>1, <2>3, <2>4
  <2>9. UploadsConsented'
    BY <2>4 DEF IInv, UploadsConsented, accountVars
  <2>10. /\ asset' \in [Ids \X Files -> Assets \cup {None}] /\ stored' \subseteq Ids \X Files
         /\ manifest' = manifest /\ asset' = asset
    BY <2>4, <2>5 DEF IInv, TypeOK
  <2>11. /\ x.status \notin Placed /\ x.creator \in Ids /\ asset'[<<x.creator, d>>] # None
         /\ UNCHANGED accountVars
         /\ \A e \in Ids, f \in Files : asset[<<e, f>>] # None => asset'[<<e, f>>] # None
    BY <2>4, <2>5, <2>6, <2>7, <2>10
  <2> QED
    BY <2>7, <2>8, <2>9, <2>10, <2>11, EntryIInv
<1> QED
  BY <1>1, <1>2

LEMMA ApplyManifestIInv ==
  ASSUME IInv, NEW b \in Browsers, NEW d \in Files, ApplyManifest(b, d)
  PROVE  IInv'
<1>1. PICK i : i = item[<<b, d>>]
  OBVIOUS
<1>2. PICK c : c = Acting(b)
  OBVIOUS
<1>3. PICK refused \in BOOLEAN, past \in BOOLEAN :
        /\ item' = [item EXCEPT ![<<b, d>>] =
                      [i EXCEPT !.status = i.answer, !.applied = c # None /\ ~refused]]
        /\ asset' = IF c = i.creator /\ ~refused /\ ~past
                    THEN [asset EXCEPT ![<<c, d>>].described = TRUE] ELSE asset
  BY <1>1, <1>2 DEF ApplyManifest
<1>4. /\ i.status = "applying" /\ UNCHANGED <<accountVars, stored, manifest>>
  BY <1>1 DEF ApplyManifest
<1>5. i \in Items /\ i.creator \in Ids /\ asset[<<i.creator, d>>] # None
  BY <1>1, <1>4, Entry DEF IInv, Backed, Uploading
<1>6. PICK applied \in BOOLEAN : applied = (c # None /\ ~refused)
  OBVIOUS
<1>7. PICK x : x = [i EXCEPT !.status = i.answer, !.applied = applied]
  OBVIOUS
<1>8. item' = [item EXCEPT ![<<b, d>>] = x]
  BY <1>3, <1>6, <1>7
<1>9. x \in Items /\ x.status \in Final
  BY <1>5, <1>7 DEF Items
<1>10. asset \in [Ids \X Files -> Assets \cup {None}]
  BY DEF IInv, TypeOK
<1>11. /\ asset' \in [Ids \X Files -> Assets \cup {None}]
       /\ \A r \in Ids \X Files : asset[r] # None => asset'[r] # None
       /\ \A r \in Ids \X Files : asset'[r] # None => asset[r] # None
       /\ \A r \in Ids \X Files : asset[r] # None => asset'[r].terms = asset[r].terms
  <2>1. CASE asset' = asset
    BY <1>10, <2>1
  <2>2. CASE c = i.creator /\ asset' = [asset EXCEPT ![<<c, d>>].described = TRUE]
    <3>1. PICK row : row = asset[<<c, d>>]
      OBVIOUS
    <3>2. row \in Assets
      BY <1>5, <1>10, <2>2, <3>1
    <3>3. PICK new : new = [row EXCEPT !.described = TRUE]
      OBVIOUS
    <3>4. new \in Assets /\ new.terms = row.terms
      BY <3>2, <3>3 DEF Assets
    <3>5. asset' = [asset EXCEPT ![<<c, d>>] = new]
      BY <2>2, <3>1, <3>3
    <3> QED
      BY <1>5, <1>10, <2>2, <3>1, <3>2, <3>4, <3>5, NoneAssumption
  <2> QED
    BY <1>3, <2>1, <2>2
<1>12. UploadsConsented'
  <2> SUFFICES ASSUME NEW e \in Ids, NEW f \in Files, asset'[<<e, f>>] # None
               PROVE  HasRow(e, asset'[<<e, f>>].terms)
    BY <1>4 DEF UploadsConsented, HasRow, accountVars
  <2>1. asset[<<e, f>>] # None /\ asset'[<<e, f>>].terms = asset[<<e, f>>].terms
    BY <1>11
  <2> QED
    BY <2>1 DEF IInv, UploadsConsented, HasRow
<1>13. stored' \subseteq Ids \X Files /\ manifest' = manifest
  BY <1>4 DEF IInv, TypeOK
<1>14. x.status \notin Placed /\ x.status \notin Uploading
  BY <1>9 DEF Final, Placed, Uploading
<1> QED
  BY <1>4, <1>8, <1>9, <1>11, <1>12, <1>13, <1>14, EntryIInv

LEMMA LoadManifestIInv ==
  ASSUME IInv, NEW b \in Browsers, LoadManifest(b)
  PROVE  IInv'
<1>1. PICK m \in Manifests :
        manifest' = [i \in Browsers \X Files |-> IF i[1] = b THEN m[i[2]] ELSE manifest[i]]
  BY DEF LoadManifest
<1>2. UNCHANGED <<accountVars, asset, item, stored>>
  BY DEF LoadManifest
<1>3. manifest' \in [Browsers \X Files -> Entries]
  <2>1. \A i \in Browsers \X Files : m[i[2]] \in Entries /\ manifest[i] \in Entries
    BY DEF Manifests, IInv, TypeOK
  <2> QED
    BY <1>1, <2>1
<1>4. AInv' /\ AccountTypeOK' /\ \A c, v : HasRow(c, v)' <=> HasRow(c, v)
  BY <1>2, AccountsStand DEF IInv
<1>5. TypeOK'
  BY <1>2, <1>3, <1>4 DEF IInv, TypeOK
<1>6. Backed' /\ UploadsConsented'
  BY <1>2 DEF IInv, Backed, UploadsConsented, HasRow, accountVars
<1> QED
  BY <1>4, <1>5, <1>6 DEF IInv

LEMMA ReopenIInv ==
  ASSUME IInv, NEW b \in Browsers, Reopen(b)
  PROVE  IInv'
<1>1. UNCHANGED <<accountVars, asset, stored>>
  BY DEF Reopen
<1>2. \A i \in Browsers \X Files : item'[i] \in {item[i], Absent}
  BY DEF Reopen
<1>3. item' \in [Browsers \X Files -> Items]
  <2>1. \A i \in Browsers \X Files :
          (IF i[1] = b /\ item[i].status \in InFlight THEN Absent ELSE item[i]) \in Items
    BY FreshEntries DEF IInv, TypeOK
  <2> QED
    BY <2>1 DEF Reopen
<1>4. manifest' \in [Browsers \X Files -> Entries]
  <2>1. \A i \in Browsers \X Files : (i[1] # b /\ manifest[i]) \in Entries
    BY IntakeAssumption DEF IInv, TypeOK
  <2> QED
    BY <2>1 DEF Reopen
<1>5. AInv' /\ AccountTypeOK' /\ \A c, v : HasRow(c, v)' <=> HasRow(c, v)
  BY <1>1, AccountsStand DEF IInv
<1>6. TypeOK'
  BY <1>1, <1>3, <1>4, <1>5 DEF IInv, TypeOK
<1>7. UploadsConsented'
  BY <1>1 DEF IInv, UploadsConsented, accountVars
<1>8. Backed'
  <2> SUFFICES ASSUME NEW e \in Browsers, NEW f \in Files
               PROVE  /\ item'[<<e, f>>].status \in Placed =>
                           /\ item'[<<e, f>>].creator \in Ids
                           /\ HasRow(item'[<<e, f>>].creator, item'[<<e, f>>].terms)
                      /\ item'[<<e, f>>].status \in Uploading =>
                           /\ item'[<<e, f>>].creator \in Ids
                           /\ asset'[<<item'[<<e, f>>].creator, f>>] # None
    BY <1>5 DEF Backed
  <2>1. CASE item'[<<e, f>>] = Absent
    BY <2>1, FreshEntries DEF Placed, Uploading
  <2>2. CASE item'[<<e, f>>] = item[<<e, f>>]
    BY <1>1, <2>2 DEF IInv, Backed
  <2> QED
    BY <1>2, <2>1, <2>2
<1> QED
  BY <1>5, <1>6, <1>7, <1>8 DEF IInv

LEMMA NextIInv == IInv /\ [Next]_vars => IInv'
<1> SUFFICES ASSUME IInv, [Next]_vars PROVE IInv'
  OBVIOUS
<1>1. CASE AccountStep /\ UNCHANGED <<asset, item, stored, manifest>>
  BY <1>1, AccountStepIInv
<1>2. ASSUME NEW b \in Browsers, Reopen(b) \/ LoadManifest(b) PROVE IInv'
  BY <1>2, ReopenIInv, LoadManifestIInv
<1>3. ASSUME NEW b \in Browsers, NEW d \in Files, AddFile(b, d) \/ Post(b, d) \/ Insert(b, d)
      PROVE  IInv'
  BY <1>3, AddFileIInv, PostIInv, InsertIInv
<1>4. ASSUME NEW b \in Browsers, NEW d \in Files,
             Commit(b, d) \/ Encrypt(b, d) \/ ApplyManifest(b, d)
      PROVE  IInv'
  BY <1>4, CommitIInv, EncryptIInv, ApplyManifestIInv
<1>5. ASSUME NEW b \in Browsers, NEW d \in Files, Fail(b, d) PROVE IInv'
  BY <1>5, DropIInv DEF Fail
<1>6. CASE UNCHANGED vars
  BY <1>6 DEF vars, IInv, AInv, AccountTypeOK, Known, StampIsProof, TypeOK, Backed, UploadsConsented,
     HasRow
<1> QED
  BY <1>1, <1>2, <1>3, <1>4, <1>5, <1>6 DEF Next, IntakeStep

-----------------------------------------------------------------------------
(* Registrations of the same bytes that do not overlap.                    *)

Inserting(b, d) == item[<<b, d>>].status = "inserting"

\* What the one running INSERT saw is still all there is, and two claimants
\* are flagged and told.
Turns ==
  /\ \A b, e \in Browsers, d \in Files : Inserting(b, d) /\ Inserting(e, d) => b = e
  /\ \A b \in Browsers, d \in Files : Inserting(b, d) =>
       item[<<b, d>>].seen = Claimants(d) \ {item[<<b, d>>].creator}
  /\ \A d \in Files : \A c, e \in Claimants(d) : c # e =>
       asset[<<c, d>>].flagged /\ asset[<<c, d>>].told

LEMMA InitTurns == Init => Turns
BY DEF Init, Turns, Inserting, Absent, Claimants

\* A step of one entry that neither begins an INSERT nor touches the table.
LEMMA QuietTurns ==
  ASSUME IInv, Turns,
         \A i \in Browsers \X Files : item'[i] = item[i] \/ item'[i].status # "inserting",
         \A r \in Ids \X Files :
           /\ asset'[r] # None <=> asset[r] # None
           /\ asset[r] # None => /\ asset'[r].flagged = asset[r].flagged
                                 /\ asset'[r].told = asset[r].told
  PROVE  Turns'
<1>1. \A d \in Files : Claimants(d)' = Claimants(d)
  BY DEF Claimants
<1>2. \A b \in Browsers, d \in Files : Inserting(b, d)' =>
        Inserting(b, d) /\ item'[<<b, d>>] = item[<<b, d>>]
  BY DEF Inserting
<1>3. \A d \in Files : \A c \in Claimants(d) :
        /\ asset'[<<c, d>>].flagged = asset[<<c, d>>].flagged
        /\ asset'[<<c, d>>].told = asset[<<c, d>>].told
  BY DEF Claimants
<1>4. \A b, e \in Browsers, d \in Files : Inserting(b, d)' /\ Inserting(e, d)' => b = e
  BY <1>2 DEF Turns
<1>5. \A b \in Browsers, d \in Files : Inserting(b, d)' =>
        item'[<<b, d>>].seen = Claimants(d)' \ {item'[<<b, d>>].creator}
  <2> SUFFICES ASSUME NEW b \in Browsers, NEW d \in Files, Inserting(b, d)'
               PROVE  item'[<<b, d>>].seen = Claimants(d)' \ {item'[<<b, d>>].creator}
    OBVIOUS
  <2>1. Inserting(b, d) /\ item'[<<b, d>>] = item[<<b, d>>]
    BY <1>2
  <2>2. item[<<b, d>>].seen = Claimants(d) \ {item[<<b, d>>].creator}
    BY <2>1 DEF Turns
  <2> QED
    BY <1>1, <2>1, <2>2
<1>6. \A d \in Files : \A c, e \in Claimants(d)' : c # e =>
        asset'[<<c, d>>].flagged /\ asset'[<<c, d>>].told
  BY <1>1, <1>3 DEF Turns
<1> QED
  BY <1>4, <1>5, <1>6 DEF Turns

LEMMA InsertTurns ==
  ASSUME IInv, Turns, Overlap = FALSE, NEW b \in Browsers, NEW d \in Files, Insert(b, d)
  PROVE  Turns'
<1>1. PICK i : i = item[<<b, d>>]
  OBVIOUS
<1>2. PICK x : x = [i EXCEPT !.status = "inserting", !.seen = Claimants(d) \ {i.creator}]
  OBVIOUS
<1>3. /\ item' = [item EXCEPT ![<<b, d>>] = x] /\ asset' = asset
      /\ \A e \in Browsers : ~ Inserting(e, d)
  BY <1>1, <1>2 DEF Insert, Inserting
<1>4. i \in Items
  BY <1>1, Entry
<1>5. x.status = "inserting" /\ x.seen = Claimants(d) \ {x.creator}
  BY <1>2, <1>4 DEF Items
<1>6. /\ item'[<<b, d>>] = x
      /\ \A e \in Browsers, f \in Files : <<e, f>> # <<b, d>> => item'[<<e, f>>] = item[<<e, f>>]
  BY <1>3 DEF IInv, TypeOK
<1>7. \A f \in Files : Claimants(f)' = Claimants(f)
  BY <1>3 DEF Claimants
<1>8. \A e \in Browsers, f \in Files : Inserting(e, f)' => Inserting(e, f) \/ <<e, f>> = <<b, d>>
  BY <1>6 DEF Inserting
<1>9. \A e, g \in Browsers, f \in Files : Inserting(e, f)' /\ Inserting(g, f)' => e = g
  BY <1>3, <1>8 DEF Turns
<1>10. \A e \in Browsers, f \in Files : Inserting(e, f)' =>
         item'[<<e, f>>].seen = Claimants(f)' \ {item'[<<e, f>>].creator}
  <2> SUFFICES ASSUME NEW e \in Browsers, NEW f \in Files, Inserting(e, f)'
               PROVE  item'[<<e, f>>].seen = Claimants(f)' \ {item'[<<e, f>>].creator}
    OBVIOUS
  <2>1. CASE <<e, f>> = <<b, d>>
    BY <1>5, <1>6, <1>7, <2>1
  <2>2. CASE <<e, f>> # <<b, d>>
    BY <1>6, <1>7, <1>8, <2>2 DEF Turns
  <2> QED
    BY <2>1, <2>2
<1>11. \A f \in Files : \A c, e \in Claimants(f)' : c # e =>
         asset'[<<c, f>>].flagged /\ asset'[<<c, f>>].told
  BY <1>3, <1>7 DEF Turns
<1> QED
  BY <1>9, <1>10, <1>11 DEF Turns

LEMMA CommitTurns ==
  ASSUME IInv, Turns, NEW b \in Browsers, NEW d \in Files, Commit(b, d)
  PROVE  Turns'
<1>1. PICK i : i = item[<<b, d>>]
  OBVIOUS
<1>2. /\ i.status = "inserting" /\ i \in Items /\ i.creator \in Ids
      /\ i.seen \in SUBSET Ids /\ i.terms \in 1..MaxVersion
  BY <1>1, Entry DEF Commit, IInv, Backed, Placed, Items
<1>3. PICK c, seen, terms, after :
        c = i.creator /\ seen = i.seen /\ terms = i.terms /\ after = asset'
  OBVIOUS
<1>4. /\ c \in Ids /\ seen \in SUBSET Ids /\ terms \in 1..MaxVersion
      /\ asset \in [Ids \X Files -> Assets \cup {None}]
  BY <1>2, <1>3 DEF IInv, TypeOK
<1>5. after = Registered(c, d, seen, terms)
  BY <1>1, <1>3 DEF Commit
<1>6. /\ \A r \in Ids \X Files : after[r] # None <=> (asset[r] # None \/ r = <<c, d>>)
      /\ \A r \in Ids \X Files : r[2] # d => after[r] = asset[r]
      /\ \A e \in Ids : after[<<e, d>>] # None =>
           /\ asset[<<e, d>>] # None =>
                /\ asset[<<e, d>>].flagged \/ e \in seen => after[<<e, d>>].flagged
                /\ asset[<<e, d>>].told => after[<<e, d>>].told
           /\ (asset[<<e, d>>] = None /\ seen # {}) => after[<<e, d>>].flagged
           /\ (asset[<<c, d>>] = None /\ seen # {}) => after[<<e, d>>].told
  <2>1. RowAdded(c, d, seen, terms, after)
    BY <1>4, <1>5, RegisteredRows
  <2> QED
    BY <2>1 DEF RowAdded
<1>7. seen = Claimants(d) \ {c}
  BY <1>1, <1>2, <1>3 DEF Turns, Inserting
<1>8. /\ \A f \in Files : f # d => Claimants(f)' = Claimants(f)
      /\ Claimants(d)' = Claimants(d) \cup {c}
  BY <1>3, <1>4, <1>6 DEF Claimants
<1>9. \A e \in Browsers, f \in Files : Inserting(e, f)' =>
        /\ Inserting(e, f) /\ item'[<<e, f>>] = item[<<e, f>>] /\ f # d
  <2>1. PICK x : item' = [item EXCEPT ![<<b, d>>] = x] /\ x.status # "inserting"
    <3>1. PICK s : s = StatusOf(asset'[<<c, d>>], asset[<<c, d>>] # None)
      OBVIOUS
    <3>2. PICK t : t = IF s = "flagged" THEN "flagged" ELSE "encrypting"
      OBVIOUS
    <3>3. PICK x : x = [i EXCEPT !.status = t, !.seen = {}, !.answer = s]
      OBVIOUS
    <3>4. item' = [item EXCEPT ![<<b, d>>] = x]
      BY <1>1, <1>3, <3>1, <3>2, <3>3 DEF Commit
    <3>5. x.status = t
      BY <1>2, <3>3 DEF Items
    <3> QED
      BY <3>2, <3>4, <3>5
  <2>2. Inserting(b, d)
    BY <1>1, <1>2 DEF Inserting
  <2>3. \A e \in Browsers, f \in Files : <<e, f>> # <<b, d>> => item'[<<e, f>>] = item[<<e, f>>]
    BY <2>1 DEF IInv, TypeOK
  <2>4. ~ Inserting(b, d)'
    BY <2>1 DEF Inserting, IInv, TypeOK
  <2> SUFFICES ASSUME NEW e \in Browsers, NEW f \in Files, Inserting(e, f)'
               PROVE  Inserting(e, f) /\ item'[<<e, f>>] = item[<<e, f>>] /\ f # d
    OBVIOUS
  <2>5. item'[<<e, f>>] = item[<<e, f>>] /\ Inserting(e, f)
    BY <2>3, <2>4 DEF Inserting
  <2>6. CASE f = d
    <3>1. e = b
      BY <2>2, <2>5, <2>6 DEF Turns
    <3> QED
      BY <2>4, <2>6, <3>1
  <2> QED
    BY <2>5, <2>6
<1>10. \A f \in Files : \A g, e \in Claimants(f)' : g # e =>
         asset'[<<g, f>>].flagged /\ asset'[<<g, f>>].told
  <2> SUFFICES ASSUME NEW f \in Files, NEW g \in Claimants(f)', NEW e \in Claimants(f)', g # e
               PROVE  after[<<g, f>>].flagged /\ after[<<g, f>>].told
    BY <1>3
  <2>1. CASE f # d
    BY <1>6, <1>8, <2>1 DEF Turns, Claimants
  <2>2. CASE f = d
    <3>1. g \in Ids /\ after[<<g, d>>] # None /\ seen # {}
      BY <1>3, <1>6, <1>7, <1>8, <2>2 DEF Claimants
    <3>2. CASE asset[<<c, d>>] = None
      <4>1. g = c \/ (g \in seen /\ asset[<<g, d>>] # None)
        BY <1>7, <1>8, <2>2 DEF Claimants
      <4> QED
        BY <1>6, <2>2, <3>1, <3>2, <4>1
    <3>3. CASE asset[<<c, d>>] # None
      <4>1. Claimants(d)' = Claimants(d)
        BY <1>4, <1>8, <3>3 DEF Claimants
      <4>2. asset[<<g, d>>] # None /\ asset[<<g, d>>].flagged /\ asset[<<g, d>>].told
        BY <2>2, <4>1 DEF Turns, Claimants
      <4> QED
        BY <1>6, <2>2, <3>1, <4>2
    <3> QED
      BY <3>2, <3>3
  <2> QED
    BY <2>1, <2>2
<1> QED
  BY <1>8, <1>9, <1>10 DEF Turns

LEMMA ApplyManifestTurns ==
  ASSUME IInv, Turns, NEW b \in Browsers, NEW d \in Files, ApplyManifest(b, d)
  PROVE  Turns'
<1>1. PICK i : i = item[<<b, d>>]
  OBVIOUS
<1>2. PICK c : c = Acting(b)
  OBVIOUS
<1>3. PICK refused \in BOOLEAN, past \in BOOLEAN :
        /\ item' = [item EXCEPT ![<<b, d>>] =
                      [i EXCEPT !.status = i.answer, !.applied = c # None /\ ~refused]]
        /\ asset' = IF c = i.creator /\ ~refused /\ ~past
                    THEN [asset EXCEPT ![<<c, d>>].described = TRUE] ELSE asset
  BY <1>1, <1>2 DEF ApplyManifest
<1>4. i.status = "applying"
  BY <1>1 DEF ApplyManifest
<1>5. i \in Items /\ i.creator \in Ids /\ asset[<<i.creator, d>>] # None
  BY <1>1, <1>4, Entry DEF IInv, Backed, Uploading
<1>6. asset \in [Ids \X Files -> Assets \cup {None}]
  BY DEF IInv, TypeOK
<1>7. \A r \in Ids \X Files :
        /\ asset'[r] # None <=> asset[r] # None
        /\ asset[r] # None => asset'[r].flagged = asset[r].flagged /\ asset'[r].told = asset[r].told
  <2>1. CASE asset' = asset
    BY <2>1
  <2>2. CASE c = i.creator /\ asset' = [asset EXCEPT ![<<c, d>>].described = TRUE]
    <3>1. PICK row : row = asset[<<c, d>>]
      OBVIOUS
    <3>2. row \in Assets
      BY <1>5, <1>6, <2>2, <3>1
    <3>3. PICK new : new = [row EXCEPT !.described = TRUE]
      OBVIOUS
    <3>4. new \in Assets /\ new.flagged = row.flagged /\ new.told = row.told
      BY <3>2, <3>3 DEF Assets
    <3>5. asset' = [asset EXCEPT ![<<c, d>>] = new]
      BY <2>2, <3>1, <3>3
    <3> QED
      BY <1>5, <1>6, <2>2, <3>1, <3>2, <3>4, <3>5, NoneAssumption
  <2> QED
    BY <1>3, <2>1, <2>2
<1>8. \A e \in Browsers \X Files : item'[e] = item[e] \/ item'[e].status # "inserting"
  <2>1. PICK applied \in BOOLEAN : applied = (c # None /\ ~refused)
    OBVIOUS
  <2>2. PICK x : x = [i EXCEPT !.status = i.answer, !.applied = applied]
    OBVIOUS
  <2>3. item' = [item EXCEPT ![<<b, d>>] = x]
    BY <1>3, <2>1, <2>2
  <2>4. x.status # "inserting"
    BY <1>5, <2>2 DEF Items, Final
  <2> QED
    BY <2>3, <2>4 DEF IInv, TypeOK
<1> QED
  BY <1>7, <1>8, QuietTurns

LEMMA NextTurns ==
  ASSUME IInv, Turns, Overlap = FALSE, [Next]_vars
  PROVE  Turns'
<1> DEFINE Quiet(t) == \A i \in Browsers \X Files : t[i] = item[i] \/ t[i].status # "inserting"
<1>1. ASSUME asset' = asset, Quiet(item') PROVE Turns'
  BY <1>1, QuietTurns
<1>2. CASE UNCHANGED vars \/ (AccountStep /\ UNCHANGED <<asset, item, stored, manifest>>)
  BY <1>1, <1>2 DEF vars
<1>3. ASSUME NEW b \in Browsers, LoadManifest(b) PROVE Turns'
  BY <1>1, <1>3 DEF LoadManifest
<1>4. ASSUME NEW b \in Browsers, Reopen(b) PROVE Turns'
  BY <1>1, <1>4, FreshEntries DEF Reopen
<1>5. ASSUME NEW b \in Browsers, NEW d \in Files, Drop(b, d), asset' = asset PROVE Turns'
  <2>1. PICK x : x = [Absent EXCEPT !.status = "error"]
    OBVIOUS
  <2>2. item' = [item EXCEPT ![<<b, d>>] = x] /\ x.status # "inserting"
    BY <1>5, <2>1, FreshEntries DEF Drop, Statuses
  <2> QED
    BY <1>1, <1>5, <2>2 DEF IInv, TypeOK
<1>6. ASSUME NEW b \in Browsers, NEW d \in Files, AddFile(b, d) PROVE Turns'
  <2>1. PICK x : x = [Absent EXCEPT !.status = "hashing"]
    OBVIOUS
  <2>2. item' = [item EXCEPT ![<<b, d>>] = x] /\ x.status # "inserting" /\ asset' = asset
    BY <1>6, <2>1, FreshEntries DEF AddFile, Statuses, InFlight
  <2> QED
    BY <1>1, <2>2 DEF IInv, TypeOK
<1>7. ASSUME NEW b \in Browsers, NEW d \in Files, Post(b, d) PROVE Turns'
  <2>1. CASE Drop(b, d)
    BY <1>5, <1>7, <2>1 DEF Post
  <2>2. ASSUME ~ Drop(b, d) PROVE Turns'
    <3>1. PICK i, x : /\ i = item[<<b, d>>]
                      /\ x = [i EXCEPT !.status = "posted", !.creator = Acting(b), !.terms = published]
      OBVIOUS
    <3>2. item' = [item EXCEPT ![<<b, d>>] = x] /\ asset' = asset
      BY <1>7, <2>2, <3>1 DEF Post
    <3>3. x.status # "inserting"
      BY <3>1, Entry DEF Items
    <3> QED
      BY <1>1, <3>2, <3>3 DEF IInv, TypeOK
  <2> QED
    BY <2>1, <2>2
<1>8. ASSUME NEW b \in Browsers, NEW d \in Files, Encrypt(b, d) PROVE Turns'
  <2>1. CASE Drop(b, d)
    BY <1>5, <1>8, <2>1 DEF Encrypt
  <2>2. ASSUME ~ Drop(b, d) PROVE Turns'
    <3>1. PICK i : i = item[<<b, d>>]
      OBVIOUS
    <3>2. PICK s : s = IF manifest[<<b, d>>] THEN "applying" ELSE i.answer
      OBVIOUS
    <3>3. PICK x : x = [i EXCEPT !.status = s]
      OBVIOUS
    <3>4. item' = [item EXCEPT ![<<b, d>>] = x] /\ asset' = asset
      BY <1>8, <2>2, <3>1, <3>2, <3>3 DEF Encrypt, Goto
    <3>5. i \in Items
      BY <3>1, Entry
    <3>6. s # "inserting"
      BY <3>2, <3>5 DEF Items, Final
    <3>7. x.status # "inserting"
      BY <3>3, <3>5, <3>6 DEF Items
    <3> QED
      BY <1>1, <3>4, <3>7 DEF IInv, TypeOK
  <2> QED
    BY <2>1, <2>2
<1>9. ASSUME NEW b \in Browsers, NEW d \in Files,
             Insert(b, d) \/ Commit(b, d) \/ ApplyManifest(b, d)
      PROVE  Turns'
  BY <1>9, InsertTurns, CommitTurns, ApplyManifestTurns
<1>10. ASSUME NEW b \in Browsers, NEW d \in Files, Fail(b, d) PROVE Turns'
  BY <1>5, <1>10 DEF Fail
<1> QED
  BY <1>2, <1>3, <1>4, <1>6, <1>7, <1>8, <1>9, <1>10 DEF Next, IntakeStep

\* Two claimants of a file differ, so each has another one.
LEMMA TurnsFlagged == Turns => FlaggedTogether
<1> SUFFICES ASSUME Turns, NEW d \in Files, Cardinality(Claimants(d)) > 1, NEW c \in Claimants(d)
             PROVE  asset[<<c, d>>].flagged /\ asset[<<c, d>>].told
  BY DEF FlaggedTogether
<1>1. CASE \E e \in Claimants(d) : e # c
  BY <1>1 DEF Turns
<1>2. CASE ~ \E e \in Claimants(d) : e # c
  <2>1. Claimants(d) = {c}
    BY <1>2
  <2>2. Cardinality(Claimants(d)) = 1
    BY <2>1, FS_Singleton
  <2> QED
    BY <2>2
<1> QED
  BY <1>1, <1>2

LEMMA NextOneEach ==
  ASSUME IInv, OneEach, Overlap = FALSE, [Next]_vars
  PROVE  OneEach'
<1>1. CASE AccountStep
  BY <1>1, AccountStepOneEach DEF IInv
<1>2. CASE UNCHANGED accountVars
  BY <1>2, QuietOneEach DEF accountVars
<1>3. IntakeStep => UNCHANGED accountVars
  <2>1. ASSUME NEW b \in Browsers, Reopen(b) \/ LoadManifest(b)
        PROVE  UNCHANGED accountVars
    BY <2>1 DEF Reopen, LoadManifest
  <2>2. ASSUME NEW b \in Browsers, NEW d \in Files,
               \/ AddFile(b, d) \/ Post(b, d) \/ Insert(b, d) \/ Commit(b, d)
               \/ Encrypt(b, d) \/ ApplyManifest(b, d) \/ Fail(b, d)
        PROVE  UNCHANGED accountVars
    BY <2>2 DEF AddFile, Post, Insert, Commit, Encrypt, ApplyManifest, Fail
  <2> QED
    BY <2>1, <2>2 DEF IntakeStep
<1> QED
  BY <1>1, <1>2, <1>3 DEF Next, vars, accountVars

-----------------------------------------------------------------------------
\* Every variable of Account and Intake has its type in every reachable state.
THEOREM TypeCorrect == Spec => []TypeOK
<1>1. IInv => TypeOK
  BY DEF IInv
<1> QED
  BY <1>1, InitIInv, NextIInv, PTL DEF Spec

\* For every number of browsers, wallets and accounts, and in every
\* interleaving of sign-ins, settings and onboarding, the stamp of an account
\* is about the address it shows.
THEOREM StampsAreProofs == Spec => []StampIsProof
<1>1. IInv => StampIsProof
  BY DEF IInv, AInv
<1> QED
  BY <1>1, InitIInv, NextIInv, PTL DEF Spec

\* No upload stands without an acceptance, by its own account, of the version
\* it was let in with, also when acceptances or registrations overlap.
THEOREM UploadsAreConsented == Spec => []UploadsConsented
<1>1. IInv => UploadsConsented
  BY DEF IInv
<1> QED
  BY <1>1, InitIInv, NextIInv, PTL DEF Spec

\* When neither acceptances of one account nor registrations of the same bytes
\* overlap, an account has one active acceptance and a collision is flagged and
\* told on both sides.
THEOREM InTurn == ASSUME Overlap = FALSE PROVE Spec => [](OneActive /\ FlaggedTogether)
<1>1. IInv /\ Turns /\ OneEach => OneActive /\ FlaggedTogether
  BY OneEachActive, TurnsFlagged
<1>2. Init => IInv /\ Turns /\ OneEach
  BY InitIInv, InitTurns, InitOneEach DEF Init
<1>3. (IInv /\ Turns /\ OneEach) /\ [Next]_vars => (IInv /\ Turns /\ OneEach)'
  BY NextIInv, NextTurns, NextOneEach
<1> QED
  BY <1>1, <1>2, <1>3, PTL DEF Spec

-----------------------------------------------------------------------------
(* Labels: the queue.                                                      *)

\* ORDER BY created_at LIMIT 1 names a row of a set that is not empty.
LEMMA OldestIn ==
  ASSUME NEW S \in SUBSET Nat, S # {}
  PROVE  Oldest(S) \in S
<1>1. \E x \in S : \A y \in S : ~(<<y, x>> \in OpToRel(<, Nat))
  BY NatLessThanWellFounded, WFMin
<1>2. \A x, y \in Nat : y < x => <<y, x>> \in OpToRel(<, Nat)
  BY Zenon DEF OpToRel
<1>3. \A x, y \in Nat : ~(y < x) => x <= y
  OBVIOUS
<1>4. \E x \in S : \A y \in S : x <= y
  BY <1>1, <1>2, <1>3, Zenon
<1> QED
  BY <1>4, Zenon DEF Oldest

-----------------------------------------------------------------------------
(* Rows and local states.                                                  *)

States == Unfinished \cup {"done", "failed"}

\* A statement that sets the state of some rows leaves the others alone.
LEMMA RowsSetTo ==
  ASSUME job \in Seq(Rows), NEW S, NEW st \in States
  PROVE  /\ SetTo(S, st) \in Seq(Rows) /\ DOMAIN SetTo(S, st) = Jobs
         /\ \A j \in Jobs : SetTo(S, st)[j].state = IF j \in S THEN st ELSE job[j].state
<1> DEFINE new == [j \in Jobs |-> IF j \in S THEN [job[j] EXCEPT !.state = st] ELSE job[j]]
<1>1. Len(job) \in Nat /\ Jobs = 1..Len(job) /\ \A j \in Jobs : job[j] \in Rows
  BY DEF Jobs
<1>2. \A j \in Jobs : new[j] \in Rows /\ new[j].state = IF j \in S THEN st ELSE job[j].state
  BY <1>1 DEF Rows, States, Specified
<1>3. new \in [1..Len(job) -> Rows]
  BY <1>1, <1>2
<1> QED
  BY <1>1, <1>2, <1>3 DEF SetTo

\* Every row keeps its place when one is inserted.
LEMMA RowInserted ==
  ASSUME job \in Seq(Rows), NEW row \in Rows
  PROVE  /\ Append(job, row) \in Seq(Rows)
         /\ Jobs \subseteq DOMAIN Append(job, row)
         /\ \A j \in Jobs : Append(job, row)[j] = job[j]
  BY DEF Jobs

\* A run that has claimed a job, field by field.
LEMMA Claiming ==
  ASSUME LabelsTypeOK, NEW w \in Workers, worker[w].pc # "idle"
  PROVE  /\ worker[w] # Free
         /\ worker[w].pc \in {"work", "write", "persist", "done", "failed"}
         /\ worker[w].job \in Jobs /\ worker[w].out \subseteq Keys
         /\ worker[w].pc = "persist" => worker[w].verdict \in Verdicts
  BY DEF LabelsTypeOK, Free, Claims

LEMMA Enqueuing ==
  ASSUME LabelsTypeOK, NEW c \in Callers, caller[c].pc # "idle"
  PROVE  /\ caller[c].type \in Types /\ caller[c].spec \in Pairs \cup {Null}
         /\ caller[c].state \in {"queued", "awaiting_model"}
         /\ caller[c].found \subseteq Jobs /\ caller[c].launch \subseteq Types
         /\ caller[c] \in Requesting /\ Specified(caller[c])
  BY DEF LabelsTypeOK, Free, Requesting

\* An enqueue adds a row or promotes parked ones: none that is running.
LEMMA EnqueuedRows ==
  ASSUME LabelsTypeOK, NEW c \in Callers, caller[c].pc # "idle", job' = Enqueued(caller[c])
  PROVE  /\ job' \in Seq(Rows) /\ Jobs \subseteq Jobs'
         /\ \A j \in Jobs : job[j].state = "running" => job'[j].state = "running"
<1> DEFINE e == caller[c]
           row == [type |-> e.type, state |-> e.state, spec |-> e.spec]
<1>1. job \in Seq(Rows) /\ row \in Rows
  BY Enqueuing DEF LabelsTypeOK, Rows, Unfinished, Specified
<1>2. CASE e.found = {}
  <2>1. job' = Append(job, row)
    BY <1>2 DEF Enqueued
  <2> HIDE DEF row
  <2> QED
    BY <1>1, <2>1, RowInserted DEF Jobs
<1>3. CASE e.found # {} /\ e.state = "queued"
  <2>1. job' = SetTo(Parked(e), "queued")
    BY <1>3 DEF Enqueued
  <2>2. \A j \in Parked(e) : job[j].state = "awaiting_model"
    BY DEF Parked
  <2>3. "queued" \in States
    BY DEF States, Unfinished
  <2>4. /\ job' \in Seq(Rows) /\ DOMAIN job' = Jobs
        /\ \A j \in Jobs : job'[j].state = IF j \in Parked(e) THEN "queued" ELSE job[j].state
    BY <1>1, <2>1, <2>3, RowsSetTo
  <2> QED
    BY <2>2, <2>4 DEF Jobs
<1>4. CASE e.found # {} /\ e.state # "queued"
  <2>1. job' = job
    BY <1>4 DEF Enqueued
  <2> QED
    BY <1>1, <2>1 DEF Jobs
<1> QED
  BY <1>2, <1>3, <1>4

-----------------------------------------------------------------------------
(* Type correctness.                                                       *)

\* Rows are never removed: what names a row goes on naming one.
LEMMA RowsRemain ==
  ASSUME LabelsTypeOK, Jobs \subseteq Jobs'
  PROVE  worker \in [Workers -> {Free} \cup Claims'] /\ caller \in [Callers -> {Free} \cup Requesting']
<1>1. Claims \subseteq Claims' /\ Requesting \subseteq Requesting'
  BY DEF Claims, Requesting, Verdicts
<1> QED
  BY <1>1 DEF LabelsTypeOK, Claims, Requesting

LEMMA EnqueueTyped ==
  ASSUME LabelsTypeOK, NEW c \in Callers,
         (\E t \in Types, p \in Pairs \cup {Null} : Call(c, t, p)) \/ Look(c) \/ Write(c)
  PROVE  LabelsTypeOK'
<1>0. calls \in 0..MaxCalls /\ MaxCalls \in Nat
  BY LabelsAssumption DEF LabelsTypeOK
<1>1. ASSUME NEW t \in Types, NEW p \in Pairs \cup {Null}, Call(c, t, p)
      PROVE  LabelsTypeOK'
  <2>1. Jobs' = Jobs /\ job' = job
    BY <1>1 DEF Call, Jobs
  <2>2. Looking(t, p, {}) \in Requesting'
    BY <1>1 DEF Call, Looking, Requesting, Specified
  <2>3. worker \in [Workers -> {Free} \cup Claims'] /\ caller \in [Callers -> {Free} \cup Requesting']
    BY <2>1, RowsRemain
  <2>4. caller' \in [Callers -> {Free} \cup Requesting']
    BY <1>1, <2>2, <2>3 DEF Call
  <2> QED
    BY <1>0, <1>1, <2>1, <2>3, <2>4 DEF Call, LabelsTypeOK, labels
<1>2. CASE Look(c)
  <2>1. caller[c].pc # "idle"
    BY <1>2 DEF Look
  <2> DEFINE q == [caller[c] EXCEPT !.pc = "write",
                              !.state = IF Configured(caller[c].type) THEN "queued" ELSE "awaiting_model",
                              !.found = Same(caller[c].type, caller[c].spec)]
  <2>2. q \in Requesting
    BY <2>1, Enqueuing DEF Requesting, Same, Specified
  <2>3. caller' = [caller EXCEPT ![c] = q]
    BY <1>2 DEF Look
  <2> HIDE DEF q
  <2>4. job' = job /\ Jobs' = Jobs
    BY <1>2 DEF Look, Jobs
  <2>5. q \in Requesting'
    BY <2>2, <2>4 DEF Requesting, Specified
  <2>6. worker \in [Workers -> {Free} \cup Claims'] /\ caller \in [Callers -> {Free} \cup Requesting']
    BY <2>4, RowsRemain
  <2>7. caller' \in [Callers -> {Free} \cup Requesting']
    BY <2>3, <2>5, <2>6
  <2> QED
    BY <1>2, <2>4, <2>6, <2>7 DEF Look, LabelsTypeOK, labels
<1>3. CASE Write(c)
  <2>1. caller[c].pc # "idle" /\ job' = Enqueued(caller[c])
    BY <1>3 DEF Write
  <2>2. job' \in Seq(Rows) /\ Jobs \subseteq Jobs'
    BY <2>1, EnqueuedRows
  <2>3. worker \in [Workers -> {Free} \cup Claims'] /\ caller \in [Callers -> {Free} \cup Requesting']
    BY <2>2, RowsRemain
  <2>4. Launch(caller[c]) \subseteq Types /\ Looking("trace_judge", Null, Launch(caller[c])) \in Requesting'
    BY <2>1, Enqueuing DEF Launch, Looking, Requesting, Types, Specified
  <2>5. caller' \in [Callers -> {Free} \cup Requesting']
    BY <1>3, <2>3, <2>4 DEF Write
  <2>6. runs' \in [Types -> Nat]
    BY <1>3 DEF Write, LabelsTypeOK
  <2> QED
    BY <1>3, <2>2, <2>3, <2>5, <2>6 DEF Write, LabelsTypeOK, labels, Verdicts
<1> QED
  BY <1>1, <1>2, <1>3

\* A claim takes the state of rows that were queued, one of them for its run.
LEMMA ClaimedRows ==
  ASSUME LabelsTypeOK, NEW w \in Workers, NEW t \in Types, Claim(w, t), Queued(t) # {}
  PROVE  /\ worker[w] = Free /\ job' = SetTo(Claimed(t), "running")
         /\ Claimed(t) \subseteq Queued(t)
         /\ \E j \in Claimed(t) : worker' = [worker EXCEPT ![w] = [pc |-> "work", job |-> j, out |-> {}]]
<1>1. Queued(t) \in SUBSET Nat
  BY DEF Queued, LabelsTypeOK, Jobs
<1>2. Oldest(Queued(t)) \in Queued(t)
  BY <1>1, OldestIn
<1> QED
  BY <1>2 DEF Claim, Claimed

LEMMA ClaimTyped ==
  ASSUME LabelsTypeOK, NEW w \in Workers, NEW t \in Types, Claim(w, t)
  PROVE  LabelsTypeOK'
<1>1. runs' \in [Types -> Nat]
  BY DEF Claim, LabelsTypeOK
<1>2. CASE Queued(t) = {}
  <2>1. job' = job /\ worker' = worker /\ Jobs' = Jobs
    BY <1>2 DEF Claim, Jobs
  <2>2. worker \in [Workers -> {Free} \cup Claims'] /\ caller \in [Callers -> {Free} \cup Requesting']
    BY <2>1, RowsRemain
  <2> QED
    BY <1>1, <2>1, <2>2 DEF Claim, LabelsTypeOK, labels, Verdicts
<1>3. CASE Queued(t) # {}
  <2>1. job' \in Seq(Rows) /\ Jobs' = Jobs
    <3>1. job \in Seq(Rows) /\ "running" \in States
      BY DEF LabelsTypeOK, States, Unfinished
    <3>2. job' = SetTo(Claimed(t), "running")
      BY <1>3, ClaimedRows
    <3>3. job' \in Seq(Rows) /\ DOMAIN job' = Jobs
      BY <3>1, <3>2, RowsSetTo
    <3> QED
      BY <3>3 DEF Jobs
  <2>2. Claimed(t) \subseteq Jobs
    BY <1>3, ClaimedRows DEF Queued
  <2>3. worker' \in [Workers -> {Free} \cup Claims']
    <3>1. PICK j \in Claimed(t) : worker' = [worker EXCEPT ![w] = [pc |-> "work", job |-> j, out |-> {}]]
      BY <1>3, ClaimedRows
    <3>2. [pc |-> "work", job |-> j, out |-> {}] \in Claims'
      BY <2>1, <2>2 DEF Claims
    <3>3. worker \in [Workers -> {Free} \cup Claims']
      BY <2>1, RowsRemain
    <3> QED
      BY <3>1, <3>2, <3>3
  <2>4. caller \in [Callers -> {Free} \cup Requesting']
    BY <2>1, RowsRemain
  <2> QED
    BY <1>1, <2>1, <2>3, <2>4 DEF Claim, LabelsTypeOK, labels, Verdicts
<1> QED
  BY <1>2, <1>3

\* A run goes on with the job it has: everything but itself, a label and the
\* pairs stays as it is.
LEMMA WorkTyped ==
  ASSUME LabelsTypeOK, NEW w \in Workers, NEW q \in Claims, worker' = [worker EXCEPT ![w] = q],
         UNCHANGED <<configured, job, caller, runs, calls, stops, sealed, tab, word>>,
         label' \in [Keys -> Labelled \cup {Null}], pairs' \subseteq Verdicts
  PROVE  LabelsTypeOK'
<1>1. Jobs' = Jobs
  BY DEF Jobs
<1>2. q \in Claims'
  BY <1>1 DEF Claims, Verdicts
<1>3. worker \in [Workers -> {Free} \cup Claims'] /\ caller \in [Callers -> {Free} \cup Requesting']
  BY <1>1, RowsRemain
<1>4. worker' \in [Workers -> {Free} \cup Claims']
  BY <1>2, <1>3
<1> QED
  BY <1>1, <1>3, <1>4 DEF LabelsTypeOK, Verdicts

LEMMA ProceedTyped ==
  ASSUME LabelsTypeOK, NEW w \in Workers, worker[w].pc # "idle",
         NEW pc \in {"work", "write", "done", "failed"}, NEW out \in SUBSET Keys, Proceed(w, pc, out),
         UNCHANGED <<configured, job, caller, runs, calls, stops, sealed, tab, word>>,
         label' \in [Keys -> Labelled \cup {Null}], pairs' \subseteq Verdicts
  PROVE  LabelsTypeOK'
<1> DEFINE q == [pc |-> pc, job |-> worker[w].job, out |-> out]
<1>1. q \in Claims
  BY Claiming DEF Claims
<1>2. worker' = [worker EXCEPT ![w] = q]
  BY DEF Proceed
<1> HIDE DEF q
<1> QED
  BY <1>1, <1>2, WorkTyped

LEMMA InsertedTyped ==
  ASSUME LabelsTypeOK, NEW k \in Keys
  PROVE  Inserted(k) \in [Keys -> Labelled \cup {Null}]
  BY DEF LabelsTypeOK, Inserted, Labelled

\* A jury that agreed: what it leaves for the next statement to write.
Decision(w, voting, answer, x) ==
  [pc |-> "persist", job |-> worker[w].job, out |-> {},
   verdict |-> Verdict(worker[w].job, voting, answer, x)]

LEMMA JudgeCases ==
  ASSUME NEW w \in Workers, Judge(w)
  PROVE  \/ Proceed(w, "failed", {}) \/ Proceed(w, "done", {})
         \/ \E voting \in SUBSET Sitting(job[worker[w].job].spec) :
              \E answer \in [voting -> Answers] : \E x \in Winners :
                /\ voting # {} /\ Agreed({<<y, answer[y]>> : y \in voting}, x)
                /\ worker' = [worker EXCEPT ![w] = Decision(w, voting, answer, x)]
<1>1. PICK voting \in SUBSET Sitting(job[worker[w].job].spec) : \E answer \in [voting -> Answers] :
       \/ voting = {} /\ Proceed(w, "failed", {})
       \/ voting # {} /\ Proceed(w, "done", {})
       \/ voting # {} /\ \E x \in Winners :
            /\ Agreed({<<y, answer[y]>> : y \in voting}, x)
            /\ worker' = [worker EXCEPT ![w] = Decision(w, voting, answer, x)]
  BY DEF Judge, Decision
<1> QED
  BY <1>1

\* What an agreeing jury decided.
Decided(v) ==
  /\ v.winner # "tie" /\ v.cast > 0 /\ 4 * v.named >= 3 * v.cast
  /\ SourceOf[v.spec] \notin v.families

\* A vote counts for a candidate only if the juror named it in both orders.
LEMMA VoteIsTwice ==
  ASSUME NEW v \in Answers, NEW x \in Winners, x # "tie"
  PROVE  Vote(v) = x <=> v = <<x, Swap(x)>>
<1>1. v \in Winners \X Winners
  BY LabelsAssumption
<1>2. PICK a \in Winners, b \in Winners : v = <<a, b>>
  BY <1>1
<1> QED
  BY <1>2 DEF Vote, Swap, Winners

\* The aggregate counts votes, and there are as many as jurors that voted.
LEMMA JuryDecides ==
  ASSUME LabelsTypeOK, NEW j \in Jobs, job[j].spec # Null,
         NEW voting \in SUBSET Sitting(job[j].spec), voting # {},
         NEW answer \in [voting -> Answers], NEW x \in Winners,
         Agreed({<<y, answer[y]>> : y \in voting}, x)
  PROVE  /\ Verdict(j, voting, answer, x) \in Verdicts
         /\ Decided(Verdict(j, voting, answer, x))
<1> DEFINE votes == {<<y, answer[y]>> : y \in voting}
           named == {y \in voting : answer[y] = <<x, Swap(x)>>}
           pair == [y \in voting |-> <<y, answer[y]>>]
           twice == [y \in named |-> <<y, answer[y]>>]
<1>1. x # "tie" /\ 4 * Cardinality(VotesFor(votes, x)) >= 3 * Cardinality(votes)
  BY DEF Agreed
<1>2. voting \subseteq Jurors /\ IsFiniteSet(Jurors)
  BY LabelsAssumption DEF Sitting
<1>3. IsFiniteSet(voting) /\ IsFiniteSet(named)
  BY <1>2, FS_Subset
<1>4. Cardinality(votes) = Cardinality(voting)
  <2>1. pair \in Bijection(voting, votes)
    <3>1. pair \in [voting -> votes] /\ \A t \in votes : \E y \in voting : pair[y] = t
      OBVIOUS
    <3>2. \A y, z \in voting : pair[y] = pair[z] => y = z
      OBVIOUS
    <3> HIDE DEF pair, votes
    <3> QED
      BY <3>1, <3>2 DEF Bijection, Injection, Surjection, IsInjective
  <2> QED
    BY <1>3, <2>1, FS_Bijection DEF ExistsBijection
<1>5. Cardinality(VotesFor(votes, x)) = Cardinality(named)
  <2>1. VotesFor(votes, x) = {<<y, answer[y]>> : y \in named}
    BY <1>1, VoteIsTwice DEF VotesFor
  <2>2. twice \in Bijection(named, VotesFor(votes, x))
    <3>1. /\ twice \in [named -> VotesFor(votes, x)]
          /\ \A t \in VotesFor(votes, x) : \E y \in named : twice[y] = t
      BY <2>1
    <3>2. \A y, z \in named : twice[y] = twice[z] => y = z
      OBVIOUS
    <3> HIDE DEF twice, named, votes
    <3> QED
      BY <3>1, <3>2 DEF Bijection, Injection, Surjection, IsInjective
  <2> QED
    BY <1>3, <2>2, FS_Bijection DEF ExistsBijection
<1>6. Cardinality(voting) \in Nat /\ Cardinality(voting) > 0 /\ Cardinality(named) \in Nat
  BY <1>3, FS_CardinalityType, FS_EmptySet
<1>7. 4 * Cardinality(named) >= 3 * Cardinality(voting)
  BY <1>1, <1>4, <1>5
<1>8. \A y \in voting : FamilyOf[y] # SourceOf[job[j].spec] /\ FamilyOf[y] \in Families
  BY <1>2 DEF Sitting, Families
<1>9. job[j].spec \in Pairs /\ j \in Nat
  BY DEF LabelsTypeOK, Rows, Jobs
<1> QED
  BY <1>1, <1>6, <1>7, <1>8, <1>9 DEF Verdict, Verdicts, Decided

LEMMA JudgeTyped ==
  ASSUME LabelsTypeOK, NEW w \in Workers, Judge(w)
  PROVE  LabelsTypeOK'
<1>1. /\ worker[w].pc = "work" /\ job[worker[w].job].type = "text_pairwise_preference"
      /\ UNCHANGED <<configured, job, caller, runs, pairs, calls, stops, sealed, label, tab, word>>
  BY DEF Judge, Runs, Working, labels
<1>2. worker[w].job \in Jobs /\ job[worker[w].job].spec # Null
  BY <1>1, Claiming DEF LabelsTypeOK, Rows, Specified, Jobs
<1>3. label' \in [Keys -> Labelled \cup {Null}] /\ pairs' \subseteq Verdicts
  BY <1>1 DEF LabelsTypeOK
<1>4. CASE Proceed(w, "failed", {}) \/ Proceed(w, "done", {})
  BY <1>1, <1>3, <1>4, ProceedTyped
<1>5. ASSUME NEW voting \in SUBSET Sitting(job[worker[w].job].spec), NEW answer \in [voting -> Answers],
             NEW x \in Winners, voting # {}, Agreed({<<y, answer[y]>> : y \in voting}, x),
             worker' = [worker EXCEPT ![w] = Decision(w, voting, answer, x)]
      PROVE  LabelsTypeOK'
  <2>1. Decision(w, voting, answer, x) \in Claims
    BY <1>2, <1>5, JuryDecides DEF Decision, Claims
  <2> QED
    BY <1>1, <1>3, <1>5, <2>1, WorkTyped
<1> QED
  <2>1. CASE \E voting \in SUBSET Sitting(job[worker[w].job].spec) :
               \E answer \in [voting -> Answers] : \E x \in Winners :
                 /\ voting # {} /\ Agreed({<<y, answer[y]>> : y \in voting}, x)
                 /\ worker' = [worker EXCEPT ![w] = Decision(w, voting, answer, x)]
    BY <1>5, <2>1
  <2> QED
    BY <1>4, <2>1, JudgeCases

\* The labelers and the statements that write what they found.
LEMMA RunTyped ==
  ASSUME LabelsTypeOK, NEW w \in Workers,
         DeriveStructure(w) \/ AskJudge(w) \/ AskVision(w) \/ Apply(w) \/ Persist(w)
  PROVE  LabelsTypeOK'
<1>0. \A t \in Types : KeysOf[t] \subseteq Keys
  BY LabelsAssumption
<1>1. label \in [Keys -> Labelled \cup {Null}] /\ pairs \subseteq Verdicts
  BY DEF LabelsTypeOK
<1>2. ASSUME NEW pc \in {"write", "done", "failed"}, NEW out \in SUBSET Keys, worker[w].pc = "work",
             Proceed(w, pc, out), Working
      PROVE  LabelsTypeOK'
  BY <1>1, <1>2, ProceedTyped DEF Working, labels
<1>3. CASE DeriveStructure(w)
  BY <1>0, <1>2, <1>3 DEF DeriveStructure, Runs, Types
<1>4. CASE AskJudge(w)
  BY <1>0, <1>2, <1>4 DEF AskJudge, Runs, Types
<1>5. CASE AskVision(w)
  BY <1>0, <1>2, <1>5 DEF AskVision, Runs, Types
<1>6. CASE Apply(w)
  <2>1. worker[w].pc = "write" /\ worker[w].out \subseteq Keys
    BY <1>6, Claiming DEF Apply
  <2>2. PICK k \in worker[w].out :
          /\ label' = Inserted(k)
          /\ Proceed(w, IF worker[w].out = {k} THEN "done" ELSE "write", worker[w].out \ {k})
    BY <1>6 DEF Apply
  <2>3. label' \in [Keys -> Labelled \cup {Null}]
    BY <2>1, <2>2, InsertedTyped
  <2>4. PICK pc \in {"done", "write"}, out \in SUBSET Keys : Proceed(w, pc, out)
    BY <2>1, <2>2
  <2> QED
    BY <1>1, <1>6, <2>1, <2>3, <2>4, ProceedTyped DEF Apply
<1>7. CASE Persist(w)
  <2>1. worker[w].pc = "persist" /\ worker[w].verdict \in Verdicts
    BY <1>7, Claiming DEF Persist
  <2>2. pairs' \subseteq Verdicts
    BY <1>1, <1>7, <2>1 DEF Persist
  <2> QED
    BY <1>1, <1>7, <2>1, <2>2, ProceedTyped DEF Persist, labels
<1> QED
  BY <1>3, <1>4, <1>5, <1>6, <1>7

LEMMA FinishRows ==
  ASSUME LabelsTypeOK, NEW w \in Workers, Finish(w)
  PROVE  /\ worker[w].job \in Jobs /\ worker' = [worker EXCEPT ![w] = Free]
         /\ job' \in Seq(Rows) /\ Jobs' = Jobs
         /\ \A j \in Jobs : j # worker[w].job => job'[j] = job[j]
<1>1. worker[w].job \in Jobs /\ worker[w].pc \in {"done", "failed"}
  BY Claiming DEF Finish
<1>2. Len(job) \in Nat /\ Jobs = 1..Len(job) /\ \A j \in Jobs : job[j] \in Rows
  BY DEF LabelsTypeOK, Jobs
<1> DEFINE row == [job[worker[w].job] EXCEPT !.state = worker[w].pc]
<1>3. row \in Rows
  BY <1>1, <1>2 DEF Rows, Specified
<1>4. job' = [job EXCEPT ![worker[w].job] = row]
  BY DEF Finish
<1> HIDE DEF row
<1>5. job \in [1..Len(job) -> Rows]
  BY <1>2 DEF LabelsTypeOK
<1>6. job' \in [1..Len(job) -> Rows]
  BY <1>3, <1>4, <1>5
<1> QED
  BY <1>1, <1>2, <1>4, <1>6 DEF Finish, Jobs

LEMMA FinishTyped ==
  ASSUME LabelsTypeOK, NEW w \in Workers, Finish(w)
  PROVE  LabelsTypeOK'
<1>1. job' \in Seq(Rows) /\ Jobs' = Jobs /\ worker' = [worker EXCEPT ![w] = Free]
  BY FinishRows
<1>2. worker \in [Workers -> {Free} \cup Claims'] /\ caller \in [Callers -> {Free} \cup Requesting']
  BY <1>1, RowsRemain
<1>3. worker' \in [Workers -> {Free} \cup Claims']
  BY <1>1, <1>2
<1> QED
  BY <1>1, <1>2, <1>3 DEF Finish, LabelsTypeOK, labels, Verdicts

LEMMA StopTyped ==
  ASSUME LabelsTypeOK, Stop
  PROVE  LabelsTypeOK'
<1>1. stops' \in 0..MaxStops
  BY LabelsAssumption DEF Stop, LabelsTypeOK
<1> QED
  BY <1>1 DEF Stop, LabelsTypeOK, Verdicts

\* A label edit in flight.
LEMMA Editing ==
  ASSUME LabelsTypeOK, NEW b \in Tabs, tab[b].pc # "idle"
  PROVE  /\ tab[b].key \in Keys /\ tab[b].shown \in BOOLEAN
         /\ tab[b].act \in {"confirm", "set", "remove", "measure"}
  BY DEF LabelsTypeOK, Free, Edits

LEMMA EditedTyped ==
  ASSUME LabelsTypeOK, NEW b \in Tabs, tab[b].pc # "idle",
         tab[b].act = "confirm" /\ tab[b].shown => label[tab[b].key] # Null
  PROVE  Edited(tab[b]) \in [Keys -> Labelled \cup {Null}]
<1>1. /\ tab[b].key \in Keys /\ label \in [Keys -> Labelled \cup {Null}]
      /\ Inserted(tab[b].key) \in [Keys -> Labelled \cup {Null}]
  BY Editing, InsertedTyped DEF LabelsTypeOK
<1>2. [source |-> "creator", confirmed |-> TRUE] \in Labelled
  BY DEF Labelled
<1>3. tab[b].act = "confirm" /\ tab[b].shown =>
        [label EXCEPT ![tab[b].key].confirmed = TRUE] \in [Keys -> Labelled \cup {Null}]
  BY <1>1 DEF Labelled
<1> QED
  BY <1>1, <1>2, <1>3, Editing DEF Edited, Named

\* Rows that a tab was shown, and nobody removed since, are there.
ShownStands ==
  \A b \in Tabs : tab[b].pc # "idle" /\ tab[b].act \in {"confirm", "remove"} /\ tab[b].shown
                    => label[tab[b].key] # Null

LEMMA EditTyped ==
  ASSUME LabelsTypeOK, ShownStands, NEW b \in Tabs,
         \/ \E k \in Keys : Measure(b, k) \/ (\E act \in {"confirm", "set", "remove"} : Edit(b, act, k))
         \/ Save(b)
  PROVE  LabelsTypeOK'
<1>0. tab \in [Tabs -> {Free} \cup Edits]
  BY DEF LabelsTypeOK
<1>1. ASSUME UNCHANGED queue
      PROVE  Jobs' = Jobs /\ Claims' = Claims /\ Requesting' = Requesting
  BY <1>1 DEF queue, Jobs, Claims, Requesting, Verdicts, Specified
<1>2. ASSUME NEW k \in Keys, Measure(b, k) \/ (\E act \in {"confirm", "set", "remove"} : Edit(b, act, k))
      PROVE  LabelsTypeOK'
  <2>1. UNCHANGED queue /\ UNCHANGED <<sealed, label, word>>
    BY <1>2 DEF Measure, Edit
  <2>2. tab' \in [Tabs -> {Free} \cup Edits]
    <3>1. \A act \in {"confirm", "set", "remove", "measure"} :
            [pc |-> "write", act |-> act, key |-> k, shown |-> TRUE] \in Edits
      BY DEF Edits
    <3> QED
      BY <1>0, <1>2, <3>1 DEF Measure, Edit
  <2> QED
    BY <1>1, <2>1, <2>2 DEF LabelsTypeOK, queue
<1>3. CASE Save(b)
  <2>1. tab[b].pc = "write" /\ UNCHANGED queue /\ UNCHANGED sealed
    BY <1>3 DEF Save
  <2>2. label' \in [Keys -> Labelled \cup {Null}]
    BY <1>3, <2>1, EditedTyped DEF Save, ShownStands
  <2>3. word' \in [Keys -> {"none", "ok", "set"}]
    BY <1>3, <2>1, Editing DEF Save, LabelsTypeOK
  <2>4. tab' \in [Tabs -> {Free} \cup Edits]
    <3>1. \A d \in Tabs : tab[d] # Free => [tab[d] EXCEPT !.shown = FALSE] \in Edits
      BY <1>0 DEF Edits
    <3> QED
      BY <1>0, <1>3, <3>1 DEF Save
  <2> QED
    BY <1>1, <2>1, <2>2, <2>3, <2>4 DEF LabelsTypeOK, queue
<1> QED
  BY <1>2, <1>3

-----------------------------------------------------------------------------
(* One worker for a job, and the pair it decides.                          *)

\* What a step that leaves the claims alone has to keep: running rows.
LEMMA ClaimsStand ==
  ASSUME LabelsTypeOK, OneWorker, worker' = worker,
         \A j \in Jobs : job[j].state = "running" => job'[j].state = "running"
  PROVE  OneWorker'
<1>1. \A w \in Workers : worker[w] # Free => worker[w].job \in Jobs
  BY DEF LabelsTypeOK, Claims
<1> QED
  BY <1>1 DEF OneWorker

\* A run goes on with its job.
LEMMA ClaimKept ==
  ASSUME OneWorker, NEW w \in Workers, worker[w] # Free, NEW q, worker' = [worker EXCEPT ![w] = q],
         q.job = worker[w].job, worker \in [Workers -> {Free} \cup Claims], job' = job
  PROVE  OneWorker'
  BY DEF OneWorker

\* The row a run claims was queued: nobody's, and nobody else claims it.
LEMMA ClaimOne ==
  ASSUME LabelsTypeOK, OneWorker, NEW w \in Workers, NEW t \in Types, Claim(w, t)
  PROVE  OneWorker'
<1>1. CASE Queued(t) = {}
  BY <1>1 DEF Claim, OneWorker
<1>2. CASE Queued(t) # {}
  <2>1. job \in Seq(Rows) /\ "running" \in States
    BY DEF LabelsTypeOK, States, Unfinished
  <2>2. \A j \in Jobs : job'[j].state = IF j \in Claimed(t) THEN "running" ELSE job[j].state
    BY <1>2, <2>1, ClaimedRows, RowsSetTo
  <2>3. \A j \in Claimed(t) : j \in Jobs /\ job[j].state = "queued"
    BY <1>2, ClaimedRows DEF Queued
  <2>4. PICK j \in Claimed(t) : worker' = [worker EXCEPT ![w] = [pc |-> "work", job |-> j, out |-> {}]]
    BY <1>2, ClaimedRows
  <2>5. job[j].state = "queued" /\ job'[j].state = "running"
    BY <2>2, <2>3
  <2>6. worker'[w].job = j /\ \A v \in Workers \ {w} : worker'[v] = worker[v]
    BY <2>4 DEF LabelsTypeOK
  <2>7. ASSUME NEW v \in Workers \ {w}, worker[v] # Free
        PROVE  /\ worker[v].job # j /\ job'[worker[v].job].state = "running"
               /\ \A u \in Workers \ {v, w} : worker[u] # Free => worker[u].job # worker[v].job
    <3>1. worker[v].job \in Jobs /\ job[worker[v].job].state = "running"
      BY <2>7 DEF OneWorker, LabelsTypeOK, Claims
    <3> QED
      BY <2>2, <2>5, <2>7, <3>1 DEF OneWorker
  <2> QED
    BY <2>5, <2>6, <2>7 DEF OneWorker
<1> QED
  BY <1>1, <1>2

\* A job that has ended was this run's only.
LEMMA FinishOne ==
  ASSUME LabelsTypeOK, OneWorker, NEW w \in Workers, Finish(w)
  PROVE  OneWorker'
<1>1. /\ worker' = [worker EXCEPT ![w] = Free] /\ worker[w] # Free
      /\ \A j \in Jobs : j # worker[w].job => job'[j] = job[j]
  BY FinishRows, Claiming DEF Finish
<1>2. worker'[w] = Free /\ \A v \in Workers \ {w} : worker'[v] = worker[v]
  BY <1>1 DEF LabelsTypeOK
<1>3. ASSUME NEW v \in Workers \ {w}, worker[v] # Free
      PROVE  job'[worker[v].job].state = "running"
  <2>1. worker[v].job \in Jobs /\ worker[v].job # worker[w].job
    BY <1>1, <1>3 DEF OneWorker, LabelsTypeOK, Claims
  <2> QED
    BY <1>1, <1>3, <2>1 DEF OneWorker
<1> QED
  BY <1>2, <1>3 DEF OneWorker

\* A pair waits for its row to be written, and no job has two rows.
PairInv ==
  /\ PairsDecided
  /\ \A w \in Workers : worker[w].pc = "persist" => Decided(worker[w].verdict)

\* A run that goes on with no verdict in hand.
LEMMA PairsKept ==
  ASSUME LabelsTypeOK, PairInv, NEW w \in Workers, NEW q, worker' = [worker EXCEPT ![w] = q],
         q.pc # "persist" \/ Decided(q.verdict), pairs' = pairs
  PROVE  PairInv'
<1>1. worker'[w] = q /\ \A v \in Workers \ {w} : worker'[v] = worker[v]
  BY DEF LabelsTypeOK
<1> QED
  BY <1>1 DEF PairInv, PairsDecided, Decided

LEMMA JudgeInv ==
  ASSUME LabelsTypeOK, OneWorker, PairInv, NEW w \in Workers, Judge(w)
  PROVE  OneWorker' /\ PairInv'
<1>1. /\ worker[w].pc = "work" /\ job[worker[w].job].type = "text_pairwise_preference"
      /\ job' = job /\ pairs' = pairs
  BY DEF Judge, Runs, Working
<1>2. worker[w].job \in Jobs /\ job[worker[w].job].spec # Null /\ worker[w] # Free
  BY <1>1, Claiming DEF LabelsTypeOK, Rows, Specified, Jobs
<1>3. ASSUME NEW pc \in {"done", "failed"}, Proceed(w, pc, {})
      PROVE  OneWorker' /\ PairInv'
  <2> DEFINE q == [pc |-> pc, job |-> worker[w].job, out |-> {}]
  <2>1. worker' = [worker EXCEPT ![w] = q] /\ q.job = worker[w].job /\ q.pc # "persist"
    BY <1>3 DEF Proceed
  <2> HIDE DEF q
  <2> QED
    BY <1>1, <1>2, <2>1, ClaimKept, PairsKept DEF LabelsTypeOK
<1>4. ASSUME NEW voting \in SUBSET Sitting(job[worker[w].job].spec), NEW answer \in [voting -> Answers],
             NEW x \in Winners, voting # {}, Agreed({<<y, answer[y]>> : y \in voting}, x),
             worker' = [worker EXCEPT ![w] = Decision(w, voting, answer, x)]
      PROVE  OneWorker' /\ PairInv'
  <2> DEFINE q == Decision(w, voting, answer, x)
  <2>1. Decided(Verdict(worker[w].job, voting, answer, x))
    BY <1>2, <1>4, JuryDecides
  <2>2. worker' = [worker EXCEPT ![w] = q] /\ q.job = worker[w].job /\ Decided(q.verdict)
    BY <1>4, <2>1 DEF Decision
  <2> HIDE DEF q
  <2> QED
    BY <1>1, <1>2, <2>2, ClaimKept, PairsKept DEF LabelsTypeOK
<1>5. CASE \E voting \in SUBSET Sitting(job[worker[w].job].spec) :
             \E answer \in [voting -> Answers] : \E x \in Winners :
               /\ voting # {} /\ Agreed({<<y, answer[y]>> : y \in voting}, x)
               /\ worker' = [worker EXCEPT ![w] = Decision(w, voting, answer, x)]
  BY <1>4, <1>5
<1> QED
  BY <1>3, <1>5, JudgeCases

LEMMA RunInv ==
  ASSUME LabelsTypeOK, OneWorker, PairInv, NEW w \in Workers,
         DeriveStructure(w) \/ AskJudge(w) \/ AskVision(w) \/ Apply(w) \/ Persist(w)
  PROVE  OneWorker' /\ PairInv'
<1>1. worker[w].pc # "idle" /\ job' = job
  BY DEF DeriveStructure, AskJudge, AskVision, Apply, Persist, Runs, Working
<1>2. PICK pc \in {"write", "done", "failed"} : \E any : Proceed(w, pc, any)
  BY DEF DeriveStructure, AskJudge, AskVision, Apply, Persist
<1>3. PICK out : Proceed(w, pc, out)
  BY <1>2
<1> DEFINE q == [pc |-> pc, job |-> worker[w].job, out |-> out]
<1>4. worker' = [worker EXCEPT ![w] = q] /\ q.job = worker[w].job /\ q.pc # "persist"
  BY <1>3 DEF Proceed
<1> HIDE DEF q
<1>5. OneWorker'
  BY <1>1, <1>4, Claiming, ClaimKept DEF LabelsTypeOK
<1>6. CASE pairs' = pairs
  BY <1>4, <1>5, <1>6, PairsKept
<1>7. CASE Persist(w)
  <2>1. Decided(worker[w].verdict)
    BY <1>7 DEF Persist, PairInv
  <2>2. PairsDecided'
    BY <1>7, <2>1 DEF Persist, PairInv, PairsDecided, Decided
  <2>3. worker'[w] = q /\ \A v \in Workers \ {w} : worker'[v] = worker[v]
    BY <1>4 DEF LabelsTypeOK
  <2> QED
    BY <1>4, <1>5, <2>2, <2>3 DEF PairInv, Decided
<1> QED
  BY <1>5, <1>6, <1>7 DEF DeriveStructure, AskJudge, AskVision, Apply, Working

-----------------------------------------------------------------------------
(* The creator's word.                                                     *)

\* What is said of labels says something of rows that are there.
LEMMA SetStands ==
  ASSUME LabelsTypeOK, WordStands, NEW k \in Keys, word[k] = "set"
  PROVE  label[k] # Null
<1>1. [source |-> "creator", confirmed |-> TRUE] \in Labelled
  BY DEF Labelled
<1> QED
  BY <1>1, LabelsAssumption DEF WordStands

\* A job or a measurement writes where nothing is, and confirms nothing.
LEMMA InsertedStands ==
  ASSUME LabelsTypeOK, WordStands, ShownStands, NEW k \in Keys, label' = Inserted(k), word' = word,
         \A b \in Tabs : tab'[b] = tab[b] \/ tab'[b].pc = "idle"
  PROVE  WordStands' /\ ShownStands'
<1> DEFINE row == [source |-> "model", confirmed |-> FALSE]
<1>1. row \in Labelled /\ row.confirmed = FALSE
  BY DEF Labelled
<1>2. row # Null
  BY <1>1, LabelsAssumption
<1>3. CASE label[k] # Null
  BY <1>3 DEF Inserted, WordStands, ShownStands
<1>4. CASE label[k] = Null
  <2>1. label'[k] = row /\ \A l \in Keys \ {k} : label'[l] = label[l]
    BY <1>4 DEF Inserted, LabelsTypeOK
  <2>2. word[k] # "set"
    BY <1>4, SetStands
  <2> HIDE DEF row
  <2>3. WordStands'
    BY <1>1, <2>1, <2>2 DEF WordStands
  <2>4. \A b \in Tabs : tab[b].pc # "idle" => tab[b].key \in Keys
    BY Editing
  <2> QED
    BY <1>2, <1>4, <2>1, <2>3, <2>4 DEF ShownStands
<1> QED
  BY <1>3, <1>4

\* A stage check only takes note of the row that is shown.
LEMMA CheckStands ==
  ASSUME LabelsTypeOK, WordStands, ShownStands, NEW b \in Tabs, NEW k \in Keys,
         Measure(b, k) \/ (\E act \in {"confirm", "set", "remove"} : Edit(b, act, k))
  PROVE  WordStands' /\ ShownStands'
<1>1. label' = label /\ word' = word
  BY DEF Measure, Edit
<1>2. PICK act \in {"confirm", "set", "remove", "measure"} :
        /\ act \in {"confirm", "remove"} => label[k] # Null
        /\ tab' = [tab EXCEPT ![b] = [pc |-> "write", act |-> act, key |-> k, shown |-> TRUE]]
  BY DEF Measure, Edit
<1>3. /\ tab'[b] = [pc |-> "write", act |-> act, key |-> k, shown |-> TRUE]
      /\ \A d \in Tabs \ {b} : tab'[d] = tab[d]
  BY <1>2 DEF LabelsTypeOK
<1> QED
  BY <1>1, <1>2, <1>3 DEF WordStands, ShownStands

\* The write of an edit: a creator's label, its removal, or a confirmation of
\* the row that was shown.
LEMMA SaveStands ==
  ASSUME LabelsTypeOK, WordStands, ShownStands, NEW b \in Tabs, Save(b)
  PROVE  WordStands' /\ ShownStands'
<1> DEFINE k == tab[b].key
<1>1. /\ tab[b].pc # "idle" /\ k \in Keys /\ tab[b].shown \in BOOLEAN
      /\ tab[b].act \in {"confirm", "set", "remove", "measure"} /\ label' = Edited(tab[b])
  BY Editing DEF Save
<1>2. /\ label \in [Keys -> Labelled \cup {Null}] /\ word \in [Keys -> {"none", "ok", "set"}]
      /\ tab \in [Tabs -> {Free} \cup Edits]
  BY DEF LabelsTypeOK
<1>3. \A d \in Tabs : tab[d].pc # "idle" => tab[d].key \in Keys
  BY Editing
<1>4. ASSUME ~(tab[b].act = "remove" /\ tab[b].shown)
      PROVE  tab' = [d \in Tabs |-> IF d = b THEN Free ELSE tab[d]]
  BY <1>4 DEF Save
<1>5. CASE tab[b].act = "measure" \/ (tab[b].act = "confirm" /\ ~tab[b].shown)
            \/ (tab[b].act = "remove" /\ ~tab[b].shown)
  <2>1. word' = word
    BY <1>1, <1>2, <1>5 DEF Save
  <2>2. \A d \in Tabs : tab'[d] = tab[d] \/ tab'[d].pc = "idle"
    BY <1>4, <1>5 DEF Free
  <2>3. CASE tab[b].act = "measure"
    BY <1>1, <2>1, <2>2, <2>3, InsertedStands DEF Edited
  <2>4. CASE tab[b].act # "measure"
    <3>1. label' = label
      BY <1>1, <1>5, <2>4 DEF Edited, Named
    <3> QED
      BY <2>1, <2>2, <3>1 DEF WordStands, ShownStands
  <2> QED
    BY <2>3, <2>4
<1>6. CASE tab[b].act = "set"
  <2> DEFINE row == [source |-> "creator", confirmed |-> TRUE]
  <2>1. label' = [label EXCEPT ![k] = row] /\ word' = [word EXCEPT ![k] = "set"]
    BY <1>1, <1>6 DEF Save, Edited
  <2>2. row # Null
    <3>1. row \in Labelled
      BY DEF Labelled
    <3> HIDE DEF row
    <3> QED
      BY <3>1, LabelsAssumption
  <2>3. \A l \in Keys \ {k} : label'[l] = label[l] /\ word'[l] = word[l]
    BY <1>2, <2>1
  <2>4. label'[k] = row /\ word'[k] = "set"
    BY <1>1, <1>2, <2>1
  <2>5. WordStands'
    BY <2>3, <2>4 DEF WordStands
  <2>6. \A d \in Tabs : tab'[d] = tab[d] \/ tab'[d].pc = "idle"
    BY <1>4, <1>6 DEF Free
  <2> HIDE DEF row
  <2> QED
    BY <1>3, <2>2, <2>3, <2>4, <2>5, <2>6 DEF ShownStands
<1>7. CASE tab[b].act = "confirm" /\ tab[b].shown
  <2>1. label[k] # Null /\ label[k] \in Labelled
    BY <1>1, <1>2, <1>7 DEF ShownStands
  <2>2. /\ label' = [label EXCEPT ![k].confirmed = TRUE]
        /\ word' = [word EXCEPT ![k] = IF word[k] = "none" THEN "ok" ELSE word[k]]
    BY <1>1, <1>7 DEF Save, Edited, Named
  <2>3. \A l \in Keys \ {k} : label'[l] = label[l] /\ word'[l] = word[l]
    BY <1>2, <2>2
  <2>4. /\ label'[k] = [label[k] EXCEPT !.confirmed = TRUE]
        /\ word'[k] = IF word[k] = "none" THEN "ok" ELSE word[k]
    BY <1>1, <1>2, <2>2
  <2>5. label'[k] \in Labelled /\ label'[k] # Null
    BY <2>1, <2>4, LabelsAssumption DEF Labelled
  <2>6. /\ word'[k] = "set" => label'[k] = [source |-> "creator", confirmed |-> TRUE]
        /\ word'[k] # "none"
    <3>1. word'[k] \in {"ok", "set"} /\ (word'[k] = "set" => word[k] = "set")
      BY <1>1, <1>2, <2>4
    <3>2. word[k] = "set" => label[k].source = "creator"
      BY <1>1 DEF WordStands
    <3>3. label[k].source = "creator" => label'[k] = [source |-> "creator", confirmed |-> TRUE]
      BY <2>1, <2>4 DEF Labelled
    <3> QED
      BY <3>1, <3>2, <3>3
  <2>7. \A d \in Tabs : tab'[d] = tab[d] \/ tab'[d].pc = "idle"
    BY <1>4, <1>7 DEF Free
  <2>8. WordStands'
    BY <2>3, <2>6 DEF WordStands
  <2> QED
    BY <1>3, <2>3, <2>5, <2>7, <2>8 DEF ShownStands
<1>8. CASE tab[b].act = "remove" /\ tab[b].shown
  <2>1. /\ label' = [label EXCEPT ![k] = Null] /\ word' = [word EXCEPT ![k] = "none"]
        /\ tab' = [d \in Tabs |-> IF d = b THEN Free
                     ELSE IF tab[d] # Free /\ tab[d].key = k THEN [tab[d] EXCEPT !.shown = FALSE] ELSE tab[d]]
    BY <1>1, <1>8 DEF Save, Edited, Named
  <2>2. \A l \in Keys \ {k} : label'[l] = label[l] /\ word'[l] = word[l]
    BY <1>2, <2>1
  <2>3. label'[k] = Null /\ word'[k] = "none"
    BY <1>1, <1>2, <2>1
  <2>4. WordStands'
    BY <2>2, <2>3 DEF WordStands
  <2>5. ASSUME NEW d \in Tabs, tab'[d].pc # "idle", tab'[d].shown
        PROVE  tab'[d] = tab[d] /\ tab[d].key # k
    BY <1>2, <2>1, <2>5 DEF Free, Edits
  <2> QED
    BY <1>3, <2>2, <2>4, <2>5 DEF ShownStands
<1> QED
  BY <1>1, <1>5, <1>6, <1>7, <1>8
-----------------------------------------------------------------------------
(* The theorems.                                                           *)

LabelsInv == LabelsTypeOK /\ OneWorker /\ PairInv /\ WordStands /\ ShownStands

LEMMA InitLabelsInv == LabelsInit => LabelsInv
<1> SUFFICES ASSUME LabelsInit PROVE LabelsInv
  OBVIOUS
<1>1. LabelsTypeOK
  <2>1. calls \in 0..MaxCalls /\ stops \in 0..MaxStops /\ job \in Seq(Rows)
    BY LabelsAssumption DEF LabelsInit
  <2>2. configured \subseteq {"model", "jury"} /\ pairs \subseteq Verdicts /\ sealed \in BOOLEAN
    BY DEF LabelsInit
  <2>3. /\ worker \in [Workers -> {Free} \cup Claims] /\ caller \in [Callers -> {Free} \cup Requesting]
        /\ tab \in [Tabs -> {Free} \cup Edits] /\ runs \in [Types -> Nat]
    BY DEF LabelsInit
  <2>4. label \in [Keys -> Labelled \cup {Null}] /\ word \in [Keys -> {"none", "ok", "set"}]
    BY DEF LabelsInit
  <2> QED
    BY <2>1, <2>2, <2>3, <2>4 DEF LabelsTypeOK
<1>2. \A w \in Workers : worker[w] = Free
  BY DEF LabelsInit
<1>3. \A b \in Tabs : tab[b] = Free
  BY DEF LabelsInit
<1>4. WordStands
  <2>1. \A k \in Keys : label[k] = Null /\ word[k] = "none"
    BY DEF LabelsInit
  <2> QED
    BY <2>1 DEF WordStands
<1> QED
  BY <1>1, <1>2, <1>3, <1>4 DEF LabelsInv, OneWorker, PairInv, PairsDecided, ShownStands, LabelsInit, Free

\* Steps of the queue that write no label.
LEMMA LabelsAlone ==
  ASSUME WordStands, ShownStands, UNCHANGED <<label, tab, word>>
  PROVE  WordStands' /\ ShownStands'
  BY DEF WordStands, ShownStands

\* Steps of the creator.
LEMMA QueueAlone ==
  ASSUME LabelsTypeOK, OneWorker, PairInv, UNCHANGED queue
  PROVE  OneWorker' /\ PairInv'
  BY DEF queue, OneWorker, PairInv, PairsDecided, Decided

LEMMA StepLabelsInv ==
  ASSUME LabelsInv, NEW w \in Workers, Step(w)
  PROVE  LabelsInv'
<1>0. LabelsTypeOK /\ OneWorker /\ PairInv /\ WordStands /\ ShownStands
  BY DEF LabelsInv
<1>1. ASSUME NEW t \in Types, Claim(w, t)
      PROVE  LabelsInv'
  <2>1. worker[w] = Free /\ pairs' = pairs /\ UNCHANGED <<label, tab, word>>
    BY <1>1 DEF Claim, labels
  <2>2. \/ worker' = worker
        \/ \E j : worker' = [worker EXCEPT ![w] = [pc |-> "work", job |-> j, out |-> {}]]
    BY <1>0, <1>1, ClaimedRows DEF Claim
  <2>3. PairInv'
    <3>1. CASE worker' = worker
      BY <1>0, <2>1, <3>1 DEF PairInv, PairsDecided, Decided
    <3>2. ASSUME NEW j, worker' = [worker EXCEPT ![w] = [pc |-> "work", job |-> j, out |-> {}]]
          PROVE  PairInv'
      <4> DEFINE q == [pc |-> "work", job |-> j, out |-> {}]
      <4>1. worker' = [worker EXCEPT ![w] = q] /\ q.pc # "persist"
        BY <3>2
      <4> HIDE DEF q
      <4> QED
        BY <1>0, <2>1, <4>1, PairsKept
    <3> QED
      BY <2>2, <3>1, <3>2
  <2> QED
    BY <1>0, <1>1, <2>1, <2>3, ClaimTyped, ClaimOne, LabelsAlone DEF LabelsInv
<1>2. CASE DeriveStructure(w) \/ AskJudge(w) \/ AskVision(w) \/ Persist(w)
  <2>1. UNCHANGED <<label, tab, word>>
    BY <1>2 DEF DeriveStructure, AskJudge, AskVision, Persist, Working, labels
  <2> QED
    BY <1>0, <1>2, <2>1, RunTyped, RunInv, LabelsAlone DEF LabelsInv
<1>3. CASE Apply(w)
  <2>1. PICK k \in worker[w].out : label' = Inserted(k)
    BY <1>3 DEF Apply
  <2>2. k \in Keys /\ tab' = tab /\ word' = word
    BY <1>0, <1>3, <2>1, Claiming DEF Apply
  <2> QED
    BY <1>0, <1>3, <2>1, <2>2, RunTyped, RunInv, InsertedStands DEF LabelsInv
<1>4. CASE Judge(w)
  <2>1. UNCHANGED <<label, tab, word>>
    BY <1>4 DEF Judge, Working, labels
  <2> QED
    BY <1>0, <1>4, <2>1, JudgeTyped, JudgeInv, LabelsAlone DEF LabelsInv
<1>5. CASE Finish(w)
  <2>1. UNCHANGED <<label, tab, word>> /\ pairs' = pairs /\ worker' = [worker EXCEPT ![w] = Free]
    BY <1>5 DEF Finish, labels
  <2>2. PairInv'
    <3>1. Free.pc # "persist"
      BY DEF Free
    <3> QED
      BY <1>0, <2>1, <3>1, PairsKept
  <2> QED
    BY <1>0, <1>5, <2>1, <2>2, FinishTyped, FinishOne, LabelsAlone DEF LabelsInv
<1> QED
  BY <1>1, <1>2, <1>3, <1>4, <1>5 DEF Step

LEMMA NextLabelsInv == LabelsInv /\ [LabelsNext]_labelsVars => LabelsInv'
<1> SUFFICES ASSUME LabelsInv, [LabelsNext]_labelsVars
             PROVE  LabelsInv'
  OBVIOUS
<1>0. LabelsTypeOK /\ OneWorker /\ PairInv /\ WordStands /\ ShownStands
  BY DEF LabelsInv
<1>1. ASSUME NEW x \in {"model", "jury"}, Configure(x)
      PROVE  LabelsInv'
  <2>1. job' = job /\ worker' = worker /\ pairs' = pairs /\ UNCHANGED <<label, tab, word>>
    BY <1>1 DEF Configure, labels
  <2>2. LabelsTypeOK'
    <3>1. Jobs' = Jobs
      BY <2>1 DEF Jobs
    <3>2. worker \in [Workers -> {Free} \cup Claims'] /\ caller \in [Callers -> {Free} \cup Requesting']
      BY <1>0, <3>1, RowsRemain
    <3> QED
      BY <1>0, <1>1, <3>2 DEF Configure, LabelsTypeOK, labels, Verdicts
  <2> QED
    BY <1>0, <2>1, <2>2, ClaimsStand, LabelsAlone DEF LabelsInv, PairInv, PairsDecided, Decided
<1>2. ASSUME NEW c \in Callers,
             (\E t \in Types, p \in Pairs \cup {Null} : Call(c, t, p)) \/ Look(c) \/ Write(c)
      PROVE  LabelsInv'
  <2>1. worker' = worker /\ pairs' = pairs /\ UNCHANGED <<label, tab, word>>
    BY <1>2 DEF Call, Look, Write, labels
  <2>2. \A j \in Jobs : job[j].state = "running" => job'[j].state = "running"
    <3>1. CASE job' = job
      BY <3>1
    <3>2. CASE Write(c)
      BY <1>0, <3>2, EnqueuedRows DEF Write
    <3> QED
      BY <1>2, <3>1, <3>2 DEF Call, Look
  <2> QED
    BY <1>0, <1>2, <2>1, <2>2, EnqueueTyped, ClaimsStand, LabelsAlone
       DEF LabelsInv, PairInv, PairsDecided, Decided
<1>3. CASE Stop
  <2>1. /\ \A w \in Workers : worker'[w] = Free
        /\ \A b \in Tabs : tab'[b] = Free
        /\ label' = label /\ word' = word /\ pairs' = pairs
    BY <1>3 DEF Stop
  <2> QED
    BY <1>0, <1>3, <2>1, StopTyped
       DEF LabelsInv, OneWorker, PairInv, PairsDecided, Decided, WordStands, ShownStands, Free
<1>4. CASE Seal \/ UNCHANGED labelsVars
  <2>1. UNCHANGED queue /\ UNCHANGED <<label, tab, word>> /\ sealed' \in BOOLEAN
    BY <1>0, <1>4 DEF Seal, labelsVars, labels, LabelsTypeOK
  <2>2. LabelsTypeOK'
    BY <1>0, <2>1 DEF LabelsTypeOK, queue, Claims, Requesting, Verdicts, Jobs, Specified
  <2> QED
    BY <1>0, <2>1, <2>2, QueueAlone, LabelsAlone DEF LabelsInv
<1>5. ASSUME NEW b \in Tabs, NEW k \in Keys,
             Measure(b, k) \/ (\E act \in {"confirm", "set", "remove"} : Edit(b, act, k))
      PROVE  LabelsInv'
  <2>1. UNCHANGED queue
    BY <1>5 DEF Measure, Edit
  <2> QED
    BY <1>0, <1>5, <2>1, EditTyped, CheckStands, QueueAlone DEF LabelsInv
<1>6. ASSUME NEW b \in Tabs, Save(b)
      PROVE  LabelsInv'
  <2>1. UNCHANGED queue
    BY <1>6 DEF Save
  <2> QED
    BY <1>0, <1>6, <2>1, EditTyped, SaveStands, QueueAlone DEF LabelsInv
<1> QED
  BY <1>1, <1>2, <1>3, <1>4, <1>5, <1>6, StepLabelsInv DEF LabelsNext

LEMMA LabelsInvariant == LabelsSpec => []LabelsInv
  BY InitLabelsInv, NextLabelsInv, PTL DEF LabelsSpec

\* Type correctness of Labels: an enqueue, a run and an edit name rows that
\* exist, and the pair of a preference job is there when its jury sits.
THEOREM LabelsTypeCorrect == LabelsSpec => []LabelsTypeOK
<1>1. LabelsInv => LabelsTypeOK
  BY DEF LabelsInv
<1> QED
  BY <1>1, LabelsInvariant, PTL

\* However runs, requests and stops interleave, the two claim statements give
\* a job to one run.
THEOREM JobsHaveOneWorker == LabelsSpec => []OneWorker
<1>1. LabelsInv => OneWorker
  BY DEF LabelsInv
<1> QED
  BY <1>1, LabelsInvariant, PTL

\* For every panel and every way its jurors answer or fail to, a pair on record
\* is one per job and was named in both orders by three in four of the jurors.
THEOREM PairsAreDecided == LabelsSpec => []PairsDecided
<1>1. LabelsInv => PairsDecided
  BY DEF LabelsInv, PairInv
<1> QED
  BY <1>1, LabelsInvariant, PTL

\* Whatever jobs, measurements and other tabs write later, what the creator
\* said of a label stands until the creator takes it back.
THEOREM CreatorsWordStands == LabelsSpec => []WordStands
<1>1. LabelsInv => WordStands
  BY DEF LabelsInv
<1> QED
  BY <1>1, LabelsInvariant, PTL
=============================================================================
