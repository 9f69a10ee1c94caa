------------------------------ MODULE Account -------------------------------
(***************************************************************************)
(* Accounts, sessions and consent.  A wallet signs in by signing a         *)
(* one-time payload; a wallet without an account is carried into           *)
(* onboarding, which opens the account and records its first acceptance of *)
(* the terms.  The creator later retypes the address in the settings and   *)
(* accepts new versions of the terms, from any number of browsers.         *)
(* A sign-in is two statements (find the account, stamp it); an acceptance *)
(* is one READ COMMITTED transaction of two (supersede, insert).           *)
(* Display name, payout and tax fields of the settings are left out.       *)
(***************************************************************************)
EXTENDS Naturals, Sequences, FiniteSets

CONSTANTS
  Browsers,
  Wallets,
  Holds,         \* Holds[b]: the wallets the person at browser b signs with
  Typed,         \* the addresses, or None, typed into the settings
  None,          \* no cookie, no address, no account, nothing running
  Overlap,       \* may two acceptances of one account run at once?
  MaxCreators,   \* bound on accounts
  MaxVersion,    \* bound on published versions of the terms
  MaxRows        \* bound on consent_acceptance rows

ASSUME AccountAssumption ==
  /\ Holds \in [Browsers -> SUBSET Wallets]
  /\ Typed \subseteq Wallets \cup {None}
  /\ None \notin Wallets \cup Nat
  /\ Overlap \in BOOLEAN
  /\ MaxCreators \in Nat /\ MaxVersion \in Nat \ {0} /\ MaxRows \in Nat

VARIABLES
  creator,    \* rows of creator, in the order of created_at
  consent,    \* rows of consent_acceptance, in the order of accepted_at
  published,  \* version of CURRENT_TOS and CURRENT_PRIVACY, as deployed
  jar,        \* jar[b]: the cookies of browser b
  call,       \* call[b]: the sign-in or acceptance in progress from browser b
  proof       \* history: the wallets proved for an account since its address was last changed

accountVars == <<creator, consent, published, jar, call, proof>>

Ids == 1..MaxCreators

Addresses == Wallets \cup {None}

Creators == [wallet : Addresses, verified : BOOLEAN]

Acceptances == [creator : Ids, version : 1..MaxVersion, revoked : BOOLEAN]

Sessions == [creator : Ids, wallet : Wallets]

Jars == [nonce : Addresses, pending : Addresses, session : Sessions \cup {None}]

SignIns == [op : {"login"}, wallet : Wallets, found : Ids \cup {None}]

\* seen: the rows the UPDATE of the transaction found unrevoked.
Accepts == [op : {"accept"}, creator : Ids, version : 1..MaxVersion, seen : SUBSET (1..MaxRows)]

Idle == [op |-> "idle"]

\* Every variable has its type.
AccountTypeOK ==
  /\ creator \in Seq(Creators) /\ Len(creator) <= MaxCreators
  /\ consent \in Seq(Acceptances) /\ Len(consent) <= MaxRows
  /\ published \in 1..MaxVersion
  /\ jar \in [Browsers -> Jars]
  /\ call \in [Browsers -> SignIns \cup Accepts \cup {Idle}]
  /\ proof \in [Ids -> SUBSET Wallets]

AccountInit ==
  /\ creator = <<>> /\ consent = <<>> /\ published = 1
  /\ jar = [b \in Browsers |-> [nonce |-> None, pending |-> None, session |-> None]]
  /\ call = [b \in Browsers |-> Idle]
  /\ proof = [c \in Ids |-> {}]

-----------------------------------------------------------------------------
\* getActingCreator: the account of the session cookie.
Acting(b) == IF jar[b].session = None THEN None ELSE jar[b].session.creator

\* creatorIdForWallet: the earliest account with this address.
CreatorIdForWallet(w) ==
  IF \E c \in DOMAIN creator : creator[c].wallet = w
  THEN CHOOSE c \in DOMAIN creator :
         creator[c].wallet = w /\ \A d \in DOMAIN creator : creator[d].wallet = w => c <= d
  ELSE None

\* The rows of an account that no later acceptance has superseded.
Active(c) == {i \in DOMAIN consent : consent[i].creator = c /\ ~consent[i].revoked}

\* Mutant: any active acceptance will do.
HasAnyConsent(c) == Active(c) # {}

\* hasCurrentConsent: the newest active row accepts the current documents.
HasCurrentConsent(c) ==
  \E i \in Active(c) : /\ \A j \in Active(c) : j <= i
                       /\ consent[i].version = published

-----------------------------------------------------------------------------
\* A payload to sign, its nonce bound to the requesting wallet.
GeneratePayload(b, w) ==
  /\ jar' = [jar EXCEPT ![b].nonce = w]
  /\ UNCHANGED <<creator, consent, published, call, proof>>

\* The nonce is consumed whether or not the signature verifies; for a verified
\* wallet the account is looked up.
Login(b) ==
  LET w == jar[b].nonce IN
  /\ call[b] = Idle
  /\ w # None
  /\ jar' = [jar EXCEPT ![b].nonce = None]
  /\ call' = IF w \in Holds[b]
             THEN [call EXCEPT ![b] = [op |-> "login", wallet |-> w, found |-> CreatorIdForWallet(w)]]
             ELSE call
  /\ UNCHANGED <<creator, consent, published, proof>>

\* Mutant: the account that was found is stamped, whatever its address now is.
MarkedFound(c, w) == [creator EXCEPT ![c].verified = TRUE]

\* markWalletVerified: the stamp is set where the address is still this one.
Marked(c, w) == [creator EXCEPT ![c].verified = @ \/ creator[c].wallet = w]

\* The account found is stamped and the session issued.
Welcome(b) ==
  LET w == call[b].wallet
      c == call[b].found IN
  /\ call[b].op = "login" /\ c # None
  /\ creator' = Marked(c, w)
  /\ proof' = [proof EXCEPT ![c] = @ \cup {w}]
  /\ jar' = [jar EXCEPT ![b].session = [creator |-> c, wallet |-> w]]
  /\ call' = [call EXCEPT ![b] = Idle]
  /\ UNCHANGED <<consent, published>>

\* No account: the verified wallet is carried into onboarding.
CarryWallet(b) ==
  /\ call[b].op = "login" /\ call[b].found = None
  /\ jar' = [jar EXCEPT ![b].pending = call[b].wallet]
  /\ call' = [call EXCEPT ![b] = Idle]
  /\ UNCHANGED <<creator, consent, published, proof>>

Logout(b) ==
  /\ jar' = [jar EXCEPT ![b] = [@ EXCEPT !.session = None, !.pending = None]]
  /\ UNCHANGED <<creator, consent, published, call, proof>>

\* A cookie outlives its time to live.
Expire(b) ==
  /\ \E cookie \in {"nonce", "pending", "session"} : jar' = [jar EXCEPT ![b][cookie] = None]
  /\ UNCHANGED <<creator, consent, published, call, proof>>

\* updateCreatorSettings: one UPDATE; a changed address loses its stamp.
SaveSettings(b, address) ==
  LET c == Acting(b)
      same == creator[c].wallet = address IN
  /\ c # None
  /\ creator' = [creator EXCEPT ![c] = [wallet |-> address, verified |-> same /\ @.verified]]
  /\ proof' = [proof EXCEPT ![c] = IF same THEN @ ELSE {}]
  /\ UNCHANGED <<consent, published, jar, call>>

-----------------------------------------------------------------------------
\* createCreatorWithConsent: the account, its proven wallet and its first
\* acceptance in one transaction.  The answer may be lost on its way.
OpenAccount(b) ==
  LET w == jar[b].pending
      c == Len(creator) + 1 IN
  /\ w # None /\ Acting(b) = None
  /\ c <= MaxCreators /\ Len(consent) < MaxRows
  /\ creator' = Append(creator, [wallet |-> w, verified |-> TRUE])
  /\ proof' = [proof EXCEPT ![c] = {w}]
  /\ consent' = Append(consent, [creator |-> c, version |-> published, revoked |-> FALSE])
  /\ \/ jar' = [jar EXCEPT ![b] = [@ EXCEPT !.session = [creator |-> c, wallet |-> w], !.pending = None]]
     \/ UNCHANGED jar
  /\ UNCHANGED <<published, call>>

\* Mutant: the UPDATE runs outside the transaction.
AcceptOutside(b) ==
  LET c == Acting(b) IN
  /\ call[b] = Idle
  /\ c # None
  /\ consent' = [i \in DOMAIN consent |-> [consent[i] EXCEPT !.revoked = @ \/ i \in Active(c)]]
  /\ call' = [call EXCEPT ![b] =
                [op |-> "accept", creator |-> c, version |-> published, seen |-> Active(c)]]
  /\ UNCHANGED <<creator, published, jar, proof>>

\* acceptCurrentConsent, its UPDATE: the acceptances to supersede are found and
\* locked.  Reached from the page of changed terms, and from onboarding when
\* the browser already acts for an account.
Accept(b) ==
  LET c == Acting(b) IN
  /\ call[b] = Idle
  /\ c # None
  /\ Overlap \/ ~\E d \in Browsers : call[d].op = "accept" /\ call[d].creator = c
  /\ call' = [call EXCEPT ![b] =
                [op |-> "accept", creator |-> c, version |-> published, seen |-> Active(c)]]
  /\ UNCHANGED <<creator, consent, published, jar, proof>>

\* What its commit makes of the table.
Accepted(a) ==
  Append([i \in DOMAIN consent |-> [consent[i] EXCEPT !.revoked = @ \/ i \in a.seen]],
         [creator |-> a.creator, version |-> a.version, revoked |-> FALSE])

CommitAccept(b) ==
  /\ call[b].op = "accept"
  /\ Len(consent) < MaxRows
  /\ consent' = Accepted(call[b])
  /\ call' = [call EXCEPT ![b] = Idle]
  /\ UNCHANGED <<creator, published, jar, proof>>

\* The server stops: a transaction rolls back, a sign-in is not finished.
Abort(b) ==
  /\ call[b] # Idle
  /\ call' = [call EXCEPT ![b] = Idle]
  /\ UNCHANGED <<creator, consent, published, jar, proof>>

\* A deployment with new documents; running calls keep theirs.
Publish ==
  /\ published < MaxVersion
  /\ published' = published + 1
  /\ UNCHANGED <<creator, consent, jar, call, proof>>

AccountStep ==
  \/ Publish
  \/ \E b \in Browsers :
       \/ \E w \in Wallets : GeneratePayload(b, w)
       \/ \E address \in Typed : SaveSettings(b, address)
       \/ Login(b) \/ Welcome(b) \/ CarryWallet(b) \/ Logout(b) \/ Expire(b)
       \/ OpenAccount(b) \/ Accept(b) \/ CommitAccept(b) \/ Abort(b)

-----------------------------------------------------------------------------
\* Migration 0011 and service.ts: a stamped account has proved, by a sign-in or
\* at onboarding and since the address was last changed, control of exactly the
\* address it shows, whatever was retyped between the two statements of a sign-in.
StampIsProof ==
  \A c \in DOMAIN creator : creator[c].verified => creator[c].wallet \in proof[c]

\* An account never exists without its consent row, and a new acceptance
\* supersedes the one before it: exactly one row is active, also when a
\* transaction is rolled back half way (acceptances that do not overlap).
OneActive == \A c \in DOMAIN creator : Cardinality(Active(c)) = 1

=============================================================================
