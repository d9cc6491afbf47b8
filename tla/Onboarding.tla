----------------------------- MODULE Onboarding -----------------------------
(***************************************************************************)
(* How a client comes into being: onboard_client, called by an app (POST   *)
(* /apps/onboard, which also credits the plan's grant, a promotion's bonus *)
(* and the referral), by the API (POST /clients) and by the admin panel.   *)
(* Each call is one READ COMMITTED transaction that get_db commits after   *)
(* the handler; several are open at the same time, and a call is repeated  *)
(* by another call with the same reference.  The monthly closing counts its *)
(* discounts in the same row of promotions: it appears here as the closing  *)
(* that has the row locked (MonthlyClosing models the rest of it).          *)
(*                                                                         *)
(* A client is named after the call that inserted it.  No caller passes a  *)
(* scraping_company_id, so the link to Scraping is never made.             *)
(***************************************************************************)
EXTENDS Integers, FiniteSets

CONSTANTS
  Calls, NoCall,
  KindOf,     \* "app", "api" or "admin"
  RefOf,      \* request_id of the call: app-<external_ref> or the header's
  NoRef,
  RfcOf, GenericRfc, \* the client's RFC; XAXX010101000, which may repeat
  EmailOf,    \* titular_email
  PlanOf,
  Plans,      \* the plans of the organization
  Active,     \* those with is_active
  CreditOf,   \* monthly_credit_cents of a plan
  BonusOf,    \* the promotion's percentage of it, rounded: 0 for 0% or few cents
  WithPromo,  \* calls with the code of the promotion
  MaxUses,    \* its max_uses
  ReferrerOf, \* the distributor behind the call's referral code
  NoReferrer,
  ClosingUses, \* bound: uses of the promotion by closings
  MaxFaults    \* bound: failures in a behaviour

ASSUME CallsAssumption ==
  /\ NoCall \notin Calls
  /\ KindOf \in [Calls -> {"app", "api", "admin"}]
  /\ DOMAIN RefOf = Calls /\ DOMAIN EmailOf = Calls /\ DOMAIN PlanOf = Calls
  /\ DOMAIN RfcOf = Calls
  /\ DOMAIN ReferrerOf = Calls /\ WithPromo \subseteq Calls

ASSUME PlansAssumption ==
  /\ CreditOf \in [Plans -> Nat]
  /\ BonusOf \in [Plans -> Nat]
  /\ Active \subseteq Plans
  /\ MaxUses \in Nat /\ ClosingUses \in Nat /\ MaxFaults \in Nat

VARIABLES
  clients,  \* committed clients, each with its subscription and its user
  grants,   \* committed credits of prepaid_ledger: <<client, plan, cents, promo>>,
            \* promo when its meta names the promotion
  uses,     \* committed promotions.uses_count
  redeemed, \* those of them that closings counted
  raised,   \* uses the open closing that holds the promotion's row has counted
  referrer, \* committed clients.referral_distributor_id
  mailed,   \* calls that sent an activation mail
  audited,  \* calls with a committed 'onboard_failed'
  pc,       \* next statement of each call
  of,       \* the client it works for
  tx,       \* what its transaction holds
  answer,   \* what it was answered: status and granted_cents
  overlap,  \* history: two calls were granting one plan to one client
  late,     \* history: a closing counted a use with the promotion used up
  faults

book == <<clients, grants, uses, referrer, redeemed, raised, late>>
outside == <<mailed, audited>>
vars == <<book, outside, pc, of, tx, answer, overlap, faults>>

CleanTx == [client |-> FALSE, user |-> FALSE, use |-> FALSE, credit |-> 0,
            referrer |-> NoReferrer, broken |-> FALSE]

NoAnswer == [status |-> "none", granted |-> 0]

Init ==
  /\ clients = {} /\ uses = 0
  /\ redeemed = 0 /\ raised = 0 /\ late = FALSE
  /\ grants = {}
  /\ referrer = [c \in Calls |-> NoReferrer]
  /\ mailed = {} /\ audited = {}
  /\ pc = [c \in Calls |-> "replay"]
  /\ of = [c \in Calls |-> NoCall]
  /\ tx = [c \in Calls |-> CleanTx]
  /\ answer = [c \in Calls |-> NoAnswer]
  /\ overlap = FALSE /\ faults = 0

Fault ==
  /\ faults < MaxFaults
  /\ faults' = faults + 1

Step(c, from, to) ==
  /\ pc[c] = from
  /\ pc' = [pc EXCEPT ![c] = to]

\* The end of the request without a commit.
Rollback(c, status) ==
  /\ pc' = [pc EXCEPT ![c] = "done"]
  /\ tx' = [tx EXCEPT ![c] = CleanTx]
  /\ answer' = [answer EXCEPT ![c].status = status]
  /\ UNCHANGED <<book, of>>

\* Where onboard_client returns to: only the app's call goes on to the grant.
Returned(c) == IF KindOf[c] = "app" THEN "grant" ELSE "reply"

-----------------------------------------------------------------------------
(***************************************************************************)
(* onboard_client                                                          *)
(***************************************************************************)
SameRef(c, d) == RefOf[c] # NoRef /\ RefOf[c] = RefOf[d]

\* The rows of the two clients meet in an unique index of clients: request_id
\* (uq_clients_request_id) or rfc.
Collides(c, d) ==
  SameRef(c, d) \/ (RfcOf[c] # GenericRfc /\ RfcOf[c] = RfcOf[d])

\* At any time the call arrives.  The SELECT by request_id returns the client
\* of an earlier call; otherwise the plan is looked up.
Replay(c) ==
  /\ pc[c] = "replay"
  /\ IF \E d \in clients : SameRef(c, d)
       THEN /\ Step(c, "replay", Returned(c))
            /\ of' = [of EXCEPT ![c] = CHOOSE d \in clients : SameRef(c, d)]
            /\ UNCHANGED <<book, tx, answer>>
       ELSE IF PlanOf[c] \in Active
         THEN Step(c, "replay", "insert") /\ UNCHANGED <<book, of, tx, answer>>
         ELSE Rollback(c, "refused")
  /\ UNCHANGED <<outside, overlap, faults>>

Key(c) == <<of[c], PlanOf[c]>>

\* The open calls that the next statement of c waits for: with its request_id,
\* its RFC or its email, with the row of the promotion, the key of its grant or
\* the row of its client.
WaitsFor(c, d) ==
  \/ pc[c] = "insert" /\ d # c /\ tx[d].client /\ Collides(c, d)
  \/ pc[c] = "provision" /\ d # c /\ tx[d].user /\ EmailOf[d] = EmailOf[c]
  \/ pc[c] = "promo" /\ tx[d].use
  \/ pc[c] = "credit" /\ d # c /\ tx[d].credit > 0 /\ Key(d) = Key(c)
  \/ pc[c] = "refer" /\ d # c /\ ReferrerOf[c] # NoReferrer
       /\ tx[d].referrer # NoReferrer /\ of[d] = of[c]

Unhindered(c) == \A d \in Calls : ~WaitsFor(c, d)

\* The row of the promotion may also be held by a closing.
Free(c) == Unhindered(c) /\ (pc[c] = "promo" => raised = 0)

\* Mutant: uq_clients_request_id is missing.
RowTakenNever(c, S) == FALSE

RowTaken(c, S) == \E d \in S : Collides(c, d)

\* The IntegrityError of the INSERT is not caught by onboard_client.
InsertClient(c) ==
  /\ pc[c] = "insert" /\ Free(c)
  /\ IF RowTaken(c, clients)
       THEN Rollback(c, "failed")
       ELSE /\ Step(c, "insert", "provision")
            /\ of' = [of EXCEPT ![c] = c]
            /\ tx' = [tx EXCEPT ![c].client = TRUE]
            /\ UNCHANGED <<book, answer>>
  /\ UNCHANGED <<outside, overlap, faults>>

EmailTaken(c) == \E d \in clients \ {c} : EmailOf[d] = EmailOf[c]

\* _persist_failure_audit: a session and a commit of its own.
AuditFailure(c) == audited' = audited \cup {c}

\* References, subscription, user with its unique email, role and activation
\* token.  An error, of the email or any other, is compensated: rollback, and
\* an audit row in a transaction of its own, itself best-effort.
Provision(c) ==
  /\ pc[c] = "provision" /\ Free(c)
  /\ \/ /\ ~EmailTaken(c)
        /\ Step(c, "provision", "mail")
        /\ tx' = [tx EXCEPT ![c].user = TRUE]
        /\ UNCHANGED <<book, audited, of, answer, faults>>
     \/ /\ \/ EmailTaken(c) /\ AuditFailure(c) /\ UNCHANGED faults
           \/ Fault /\ (AuditFailure(c) \/ UNCHANGED audited)
        /\ Rollback(c, "refused")
  /\ UNCHANGED <<mailed, overlap>>

\* The mail is sent by the organization's provider, or else by Centro de
\* Mensajes.  Every error is swallowed; an SQL error of the look-up of the
\* provider has aborted the transaction by then.
MailOutcome(c, sent, aborted) ==
  /\ IF sent /\ ~aborted THEN UNCHANGED faults ELSE Fault
  /\ mailed' = IF sent THEN mailed \cup {c} ELSE mailed
  /\ tx' = [tx EXCEPT ![c].broken = aborted]

SendMail(c) ==
  /\ Step(c, "mail", Returned(c))
  /\ \E sent, aborted \in BOOLEAN : MailOutcome(c, sent, aborted)
  /\ UNCHANGED <<book, audited, of, answer, overlap>>

-----------------------------------------------------------------------------
(***************************************************************************)
(* api_app_onboard: grant, bonus and referral                              *)
(***************************************************************************)
\* The grant of a plan is paid whether the plan is active or not: a repeated
\* call is not compared with is_active.
CreditFor(c) == IF PlanOf[c] \in Plans THEN CreditOf[PlanOf[c]] ELSE 0

\* Calls that have passed the look-up of the grant and are not committed.
Granting(d) == pc[d] \in {"promo", "credit"} \/ tx[d].credit > 0

\* The cents of the row with the idempotency key of the call's grant.
Granted(c) == {g[3] : g \in {g \in grants : <<g[1], g[2]>> = Key(c)}}

\* A grant that is already there is the answer, and nothing else is done.
ReadGrant(c) ==
  /\ pc[c] = "grant" /\ ~tx[c].broken
  /\ IF Granted(c) # {}
       THEN /\ Step(c, "grant", "reply")
            /\ \E x \in Granted(c) : answer' = [answer EXCEPT ![c].granted = x]
            /\ UNCHANGED overlap
       ELSE /\ Step(c, "grant", IF CreditFor(c) = 0 THEN "refer"
                                ELSE IF c \in WithPromo THEN "promo" ELSE "credit")
            /\ overlap' = (overlap \/ \E d \in Calls \ {c} :
                                         Granting(d) /\ Key(d) = Key(c))
            /\ UNCHANGED answer
  /\ UNCHANGED <<book, outside, of, tx, faults>>

\* Mutant: the UPDATE relies on the SELECT before it for max_uses.
CountUseUnlimited(c) ==
  /\ Step(c, "promo", "credit") /\ Free(c)
  /\ tx' = [tx EXCEPT ![c].use = MaxUses > 0]
  /\ UNCHANGED <<book, outside, of, answer, overlap, faults>>

\* The conditional UPDATE of uses_count looks at the committed count once it has
\* the lock of the row.
CountUse(c) ==
  /\ Step(c, "promo", "credit") /\ Free(c)
  /\ tx' = [tx EXCEPT ![c].use = uses < MaxUses]
  /\ UNCHANGED <<book, outside, of, answer, overlap, faults>>

Total(c) == CreditFor(c) + IF tx[c].use THEN BonusOf[PlanOf[c]] ELSE 0

\* Mutant: the bonus is left out of the answer.
TellPlan(c) == CreditFor(c)

Tell(c) == Total(c)

\* ON CONFLICT DO NOTHING.
Credit(c) ==
  /\ Step(c, "credit", "refer") /\ Free(c)
  /\ tx' = [tx EXCEPT ![c].credit = IF Granted(c) = {} THEN Total(c) ELSE 0]
  /\ answer' = [answer EXCEPT ![c].granted = Tell(c)]
  /\ UNCHANGED <<book, outside, of, overlap, faults>>

\* The UPDATE of the client.
Refer(c) ==
  /\ Step(c, "refer", "reply") /\ Free(c)
  /\ tx' = [tx EXCEPT ![c].referrer = ReferrerOf[c]]
  /\ UNCHANGED <<book, outside, of, answer, overlap, faults>>

-----------------------------------------------------------------------------
\* CreateClientResponse of the API wants a string for wallet_id, and a new
\* client has none: the response cannot be built, and the call fails after
\* its mail.
Unanswerable(c) == KindOf[c] = "api" /\ of[c] = c

\* The response, and the commit of get_db: a rollback if the transaction was
\* aborted.
Reply(c) ==
  /\ pc[c] = "reply" /\ ~Unanswerable(c)
  /\ pc' = [pc EXCEPT ![c] = "done"]
  /\ answer' = [answer EXCEPT ![c].status = "ok"]
  /\ IF tx[c].broken
       THEN /\ tx' = [tx EXCEPT ![c] = [CleanTx EXCEPT !.broken = TRUE]]
            /\ UNCHANGED book
       ELSE /\ clients' = IF tx[c].client THEN clients \cup {c} ELSE clients
            /\ grants' = IF tx[c].credit > 0
                           THEN grants \cup {<<of[c], PlanOf[c], tx[c].credit, tx[c].use>>}
                         ELSE grants
            /\ uses' = IF tx[c].use THEN uses + 1 ELSE uses
            /\ referrer' = IF tx[c].referrer # NoReferrer
                             THEN [referrer EXCEPT ![of[c]] = tx[c].referrer] ELSE referrer
            /\ tx' = [tx EXCEPT ![c] = CleanTx]
            /\ UNCHANGED <<redeemed, raised, late>>
  /\ UNCHANGED <<outside, of, overlap, faults>>

\* Mutant: a request that fails leaves its transaction open.
FailKeepsTx(c) ==
  /\ \/ pc[c] = "reply" /\ Unanswerable(c) /\ UNCHANGED faults
     \/ pc[c] = "grant" /\ tx[c].broken /\ UNCHANGED faults
     \/ pc[c] # "done" /\ Fault
  /\ pc' = [pc EXCEPT ![c] = "done"]
  /\ answer' = [answer EXCEPT ![c].status = "failed"]
  /\ UNCHANGED <<book, of, tx, outside, overlap>>

\* An error that leaves the handler, or the death of the process: the
\* transaction is rolled back.  After an aborted one the next statement fails.
Fail(c) ==
  /\ \/ pc[c] = "reply" /\ Unanswerable(c) /\ UNCHANGED faults
     \/ pc[c] = "grant" /\ tx[c].broken /\ UNCHANGED faults
     \/ pc[c] # "done" /\ Fault
  /\ Rollback(c, "failed")
  /\ UNCHANGED <<outside, overlap>>

-----------------------------------------------------------------------------
(***************************************************************************)
(* The monthly closing, in the row of the promotion                        *)
(***************************************************************************)
\* Another tenant of the closing is discounted: the SELECT found the promotion
\* not used up, maybe before the uses that are committed now; the UPDATE waits
\* for the row and does not look at the limit again.
ClosingCounts ==
  /\ redeemed + raised < ClosingUses /\ MaxUses > 0
  /\ \A c \in Calls : ~tx[c].use
  /\ raised > 0 => uses + raised < MaxUses
  /\ raised' = raised + 1
  /\ late' = (late \/ uses >= MaxUses)
  /\ UNCHANGED <<clients, grants, uses, referrer, redeemed>>
  /\ UNCHANGED <<outside, pc, of, tx, answer, overlap, faults>>

\* The only COMMIT of the closing, or its rollback.
ClosingEnds ==
  /\ raised > 0 /\ raised' = 0
  /\ \/ /\ uses' = uses + raised /\ redeemed' = redeemed + raised
        /\ UNCHANGED faults
     \/ Fault /\ UNCHANGED <<uses, redeemed>>
  /\ UNCHANGED <<clients, grants, referrer, late>>
  /\ UNCHANGED <<outside, pc, of, tx, answer, overlap>>

-----------------------------------------------------------------------------
Handle(c) ==
  \/ Replay(c) \/ InsertClient(c) \/ Provision(c) \/ SendMail(c)
  \/ ReadGrant(c) \/ CountUse(c) \/ Credit(c) \/ Refer(c) \/ Reply(c) \/ Fail(c)

\* Stutter once every call has been answered.
Done == (\A c \in Calls : pc[c] = "done") /\ UNCHANGED vars

Next == (\E c \in Calls : Handle(c)) \/ ClosingCounts \/ ClosingEnds \/ Done

\* The event loop goes on with a request whose statement is not waiting, and a
\* closing ends, as MonthlyClosing!EveryRunEnds says.
Fairness == (\A c \in Calls : WF_vars(Handle(c))) /\ WF_vars(ClosingEnds)

Spec == Init /\ [][Next]_vars /\ Fairness

-----------------------------------------------------------------------------
TypeOK ==
  /\ clients \subseteq Calls
  /\ grants \subseteq Calls \X Plans \X Nat \X BOOLEAN
  /\ uses \in Nat /\ redeemed \in Nat /\ raised \in Nat /\ late \in BOOLEAN
  /\ referrer \in [Calls -> {ReferrerOf[c] : c \in Calls} \cup {NoReferrer}]
  /\ mailed \subseteq Calls /\ audited \subseteq Calls
  /\ pc \in [Calls -> {"replay", "insert", "provision", "mail", "grant",
                       "promo", "credit", "refer", "reply", "done"}]
  /\ of \in [Calls -> Calls \cup {NoCall}]
  /\ tx \in [Calls -> [client : BOOLEAN, user : BOOLEAN, use : BOOLEAN, credit : Nat,
                       referrer : {ReferrerOf[c] : c \in Calls} \cup {NoReferrer},
                       broken : BOOLEAN]]
  /\ answer \in [Calls -> [status : {"none", "ok", "refused", "failed"}, granted : Nat]]
  /\ overlap \in BOOLEAN /\ faults \in 0..MaxFaults
  \* a transaction holds nothing, no lock either, once its request has ended
  /\ \A c \in Calls :
       /\ tx[c].user => tx[c].client /\ of[c] = c
       /\ pc[c] = "done" => tx[c] \in {CleanTx, [CleanTx EXCEPT !.broken = TRUE]}

\* However often and at whatever moment a call is repeated, it makes one client
\* per reference, and no two clients share an RFC or the email of their user.
OneClientPerReference ==
  \A c, d \in clients : c # d => ~Collides(c, d) /\ EmailOf[c] # EmailOf[d]

\* The credits that carry the promotion, with or without cents of its own.
Bonuses == {g \in grants : g[4]}

\* Every use of the promotion has its owner: the credit of an onboarding that
\* names it, or a closing; two calls that grant one plan to one client at the
\* same time are the exception, both count a use, and the INSERT of one of them
\* does nothing.  The limit is kept but for a closing that counts with the
\* promotion used up since its SELECT, and onboardings never count more.
PromotionCounted ==
  /\ Cardinality(Bonuses) + redeemed <= uses
  /\ ~overlap => Cardinality(Bonuses) + redeemed = uses
  /\ uses - redeemed <= MaxUses
  /\ ~late => uses <= MaxUses

\* A call that was answered with an error left no client and no mark in the
\* books; one that was answered 201 has its client, and the app was told the
\* credit the ledger has, but for calls that granted one plan at the same time.
\* An SQL error swallowed with those of the mail is the exception.
ToldIsTrue ==
  \A c \in Calls :
    /\ c \in audited \/ answer[c].status \in {"refused", "failed"} => c \notin clients
    /\ answer[c].status = "ok" /\ ~tx[c].broken =>
         /\ of[c] \in clients
         /\ KindOf[c] = "app" /\ CreditFor(c) > 0 /\ ~overlap =>
               Granted(c) = {answer[c].granted}

Position == [replay |-> 0, insert |-> 1, provision |-> 2, mail |-> 3, grant |-> 4, promo |-> 5,
             credit |-> 6, refer |-> 7, reply |-> 8]

\* A call only waits for open calls that are at a later statement, so that the
\* waits never close a circle: while a call is open, one of them waits for no
\* other.
WaitsInOrder ==
  /\ \A c, d \in Calls : WaitsFor(c, d) =>
       pc[d] # "done" /\ Position[pc[c]] < Position[pc[d]]
  /\ (\E c \in Calls : pc[c] # "done") => (\E c \in Calls : pc[c] # "done" /\ Unhindered(c))

\* What the others see of a call is one step, its commit, and that step is one
\* that Enrolment allows.
Enrolments == INSTANCE Enrolment
                WITH ended <- {c \in Calls : pc[c] = "done"}, crossed <- overlap

ImplementsEnrolment == Enrolments!Spec

\* A call that waits for others, for a reference, an email, a promotion (which a
\* closing may hold) or a grant, is answered: the waits never close a circle.
EveryCallEnds == <>(\A c \in Calls : pc[c] = "done")
=============================================================================
