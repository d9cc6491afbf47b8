-------------------------- MODULE OnboardingProofs --------------------------
(***************************************************************************)
(* Proofs about Onboarding, for any calls, plans and promotion.  Types and *)
(* Control say where each call is and what its transaction holds; Apart,   *)
(* GrantInv and UseInv are about calls that meet in a reference or an      *)
(* email, in the grant of a plan and, with a closing, in the promotion.    *)
(***************************************************************************)
EXTENDS Onboarding, TLAPS, FiniteSetTheorems

Referrers == {ReferrerOf[c] : c \in Calls} \cup {NoReferrer}

TxStates == [client : BOOLEAN, user : BOOLEAN, use : BOOLEAN, credit : Nat,
             referrer : Referrers, broken : BOOLEAN]

Answers == [status : {"none", "ok", "refused", "failed"}, granted : Nat]

Types ==
  /\ clients \subseteq Calls
  /\ grants \subseteq Calls \X Plans \X Nat \X BOOLEAN
  /\ uses \in Nat /\ redeemed \in Nat /\ raised \in Nat /\ late \in BOOLEAN
  /\ referrer \in [Calls -> Referrers]
  /\ mailed \subseteq Calls /\ audited \subseteq Calls
  /\ pc \in [Calls -> {"replay", "insert", "provision", "mail", "grant",
                       "promo", "credit", "refer", "reply", "done"}]
  /\ of \in [Calls -> Calls \cup {NoCall}]
  /\ tx \in [Calls -> TxStates]
  /\ answer \in [Calls -> Answers]
  /\ overlap \in BOOLEAN /\ faults \in 0..MaxFaults

Clean == {CleanTx, [CleanTx EXCEPT !.broken = TRUE]}

Blank(c) == ~tx[c].client /\ ~tx[c].user /\ tx[c].referrer = NoReferrer
Ungranted(c) == ~tx[c].use /\ tx[c].credit = 0

\* What one call may hold at each of its statements, and what its answer says.
Ctl(c) ==
  /\ pc[c] \in {"replay", "insert", "done"} => Blank(c)
  /\ pc[c] = "done" => tx[c] \in Clean
  /\ pc[c] \in {"replay", "insert"} => ~tx[c].broken
  /\ pc[c] \in {"provision", "mail"} => tx[c].client /\ of[c] = c
  /\ tx[c].client => of[c] = c /\ (tx[c].user \/ pc[c] = "provision")
  /\ tx[c].user => tx[c].client /\ pc[c] # "provision"
  /\ pc[c] \in {"grant", "promo", "credit", "refer", "reply"} =>
       tx[c].client \/ of[c] \in clients
  /\ pc[c] \notin {"credit", "refer", "reply"} => Ungranted(c)
  /\ pc[c] = "credit" => tx[c].credit = 0
  /\ pc[c] \in {"promo", "credit"} \/ tx[c].use \/ tx[c].credit > 0 =>
       KindOf[c] = "app" /\ PlanOf[c] \in Plans /\ CreditOf[PlanOf[c]] > 0 /\ of[c] \in Calls
  /\ pc[c] \in {"grant", "promo", "credit", "refer"} => KindOf[c] = "app"
  /\ pc[c] \in {"promo", "credit", "refer", "reply"} /\ KindOf[c] = "app" => ~tx[c].broken
  /\ tx[c].credit > 0 =>
       tx[c].credit = Total(c) /\ answer[c].granted = tx[c].credit
  /\ c \in clients => pc[c] = "done"
  /\ pc[c] = "done" <=> answer[c].status # "none"
  /\ c \in audited \/ answer[c].status \in {"refused", "failed"} =>
       pc[c] = "done" /\ c \notin clients
  /\ answer[c].status = "ok" /\ ~tx[c].broken => of[c] \in clients

Control == \A c \in Calls : Ctl(c)

-----------------------------------------------------------------------------
\* The variables of other calls, which a step of c leaves alone.
Alone(c) ==
  /\ \A d \in Calls \ {c} : /\ pc'[d] = pc[d] /\ of'[d] = of[d]
                            /\ tx'[d] = tx[d] /\ answer'[d] = answer[d]
  /\ clients \subseteq clients' /\ clients' \subseteq clients \cup {c}
  /\ audited' \subseteq audited \cup {c}
  /\ overlap => overlap'

LEMMA CleanType == CleanTx \in TxStates /\ [CleanTx EXCEPT !.broken = TRUE] \in TxStates
BY DEF CleanTx, TxStates, Referrers

LEMMA CleanBlank ==
  \A t \in Clean : /\ ~t.client /\ ~t.user /\ ~t.use /\ t.credit = 0
                    /\ t.referrer = NoReferrer
BY DEF Clean, CleanTx

LEMMA CreditType ==
  ASSUME Types, NEW c \in Calls
  PROVE  /\ CreditFor(c) \in Nat
         /\ CreditFor(c) # 0 => PlanOf[c] \in Plans /\ CreditOf[PlanOf[c]] > 0
BY PlansAssumption DEF CreditFor

LEMMA TotalType ==
  ASSUME Types, NEW c \in Calls, PlanOf[c] \in Plans
  PROVE  /\ Total(c) = CreditOf[PlanOf[c]] + IF tx[c].use THEN BonusOf[PlanOf[c]] ELSE 0
         /\ Total(c) \in Nat /\ Total(c) >= CreditOf[PlanOf[c]]
BY PlansAssumption DEF Total, CreditFor, Types, TxStates

LEMMA OthersControl ==
  ASSUME Types, Control, NEW c \in Calls, Alone(c), NEW d \in Calls \ {c}
  PROVE  Ctl(d)'
BY DEF Control, Ctl, Alone, Blank, Ungranted, Total, CreditFor

LEMMA RollbackStep ==
  ASSUME Types, Control, NEW c \in Calls, NEW s \in {"refused", "failed"}, pc[c] # "done",
         Rollback(c, s), UNCHANGED <<mailed, overlap>>, faults' \in 0..MaxFaults,
         audited' \in {audited, audited \cup {c}}
  PROVE  Types' /\ Control' /\ Alone(c)
<1>1. Types'
  BY CleanType DEF Types, Rollback, book, Answers
<1>2. Alone(c)
  BY DEF Types, Rollback, book, Alone
<1>3. tx'[c] \in Clean
  BY DEF Types, Rollback, Clean
<1>4. Blank(c)' /\ Ungranted(c)'
  BY <1>3, CleanBlank DEF Blank, Ungranted
<1>5. pc'[c] = "done" /\ answer'[c].status = s /\ clients' = clients /\ c \notin clients
  BY DEF Types, Control, Ctl, Rollback, book, Answers
<1>6. Ctl(c)'
  BY <1>3, <1>4, <1>5 DEF Ctl, Blank, Ungranted
<1> QED BY <1>1, <1>2, <1>6, OthersControl DEF Control

LEMMA FaultStep == ASSUME Types, Fault PROVE faults' \in 0..MaxFaults
BY PlansAssumption DEF Fault, Types

LEMMA ReplayStep ==
  ASSUME Types, Control, NEW c \in Calls, Replay(c)
  PROVE  Types' /\ Control' /\ Alone(c)
<1>1. CASE \E d \in clients : SameRef(c, d)
  <2> DEFINE e == CHOOSE d \in clients : SameRef(c, d)
  <2>1. e \in clients /\ e \in Calls
    BY <1>1 DEF Types
  <2>2. /\ pc[c] = "replay" /\ pc' = [pc EXCEPT ![c] = Returned(c)]
        /\ of' = [of EXCEPT ![c] = e]
        /\ UNCHANGED <<book, outside, tx, answer, overlap, faults>>
    BY <1>1 DEF Replay, Step
  <2>3. Returned(c) \in {"grant", "reply"} /\ (Returned(c) = "reply" <=> KindOf[c] # "app")
    BY DEF Returned
  <2> HIDE DEF e
  <2>4. Types'
    BY <2>1, <2>2, <2>3 DEF Types, book, outside
  <2>5. Alone(c)
    BY <2>2 DEF Types, Alone, book, outside
  <2>6. Ctl(c)'
    BY <2>1, <2>2, <2>3 DEF Types, Control, Ctl, Blank, Ungranted, Total, CreditFor, book,
                            outside
  <2> QED BY <2>4, <2>5, <2>6, OthersControl DEF Control
<1>2. CASE ~(\E d \in clients : SameRef(c, d)) /\ PlanOf[c] \in Active
  <2>1. /\ pc[c] = "replay" /\ pc' = [pc EXCEPT ![c] = "insert"]
        /\ UNCHANGED <<book, outside, of, tx, answer, overlap, faults>>
    BY <1>2 DEF Replay, Step
  <2>2. Types' /\ Alone(c)
    BY <2>1 DEF Types, Alone, book, outside
  <2>3. Ctl(c)'
    BY <2>1 DEF Types, Control, Ctl, Blank, Ungranted, Total, CreditFor, book, outside
  <2> QED BY <2>2, <2>3, OthersControl DEF Control
<1>3. CASE ~(\E d \in clients : SameRef(c, d)) /\ PlanOf[c] \notin Active
  BY <1>3, RollbackStep DEF Replay, outside, Types
<1> QED BY <1>1, <1>2, <1>3

LEMMA InsertClientStep ==
  ASSUME Types, Control, NEW c \in Calls, InsertClient(c)
  PROVE  Types' /\ Control' /\ Alone(c)
<1>1. CASE RowTaken(c, clients)
  BY <1>1, RollbackStep DEF InsertClient, outside, Types
<1>2. CASE ~RowTaken(c, clients)
  <2>1. /\ pc[c] = "insert" /\ pc' = [pc EXCEPT ![c] = "provision"]
        /\ of' = [of EXCEPT ![c] = c]
        /\ tx' = [tx EXCEPT ![c].client = TRUE]
        /\ UNCHANGED <<book, outside, answer, overlap, faults>>
    BY <1>2 DEF InsertClient, Step
  <2>2. Types'
    BY <2>1 DEF Types, TxStates, book, outside
  <2>3. Alone(c)
    BY <2>1 DEF Types, Alone, book, outside
  <2>4. Ctl(c)'
    BY <2>1 DEF Types, TxStates, Control, Ctl, Blank, Ungranted, Total, CreditFor, book,
                outside
  <2> QED BY <2>2, <2>3, <2>4, OthersControl DEF Control
<1> QED BY <1>1, <1>2

LEMMA ProvisionStep ==
  ASSUME Types, Control, NEW c \in Calls, Provision(c)
  PROVE  Types' /\ Control' /\ Alone(c)
<1>1. CASE pc' = [pc EXCEPT ![c] = "mail"] /\ tx' = [tx EXCEPT ![c].user = TRUE]
           /\ UNCHANGED <<book, audited, of, answer, faults>>
  <2>1. pc[c] = "provision" /\ UNCHANGED <<mailed, overlap>>
    BY DEF Provision
  <2>2. Types'
    BY <1>1, <2>1 DEF Types, TxStates, book
  <2>3. Alone(c)
    BY <1>1, <2>1 DEF Types, Alone, book
  <2>4. Ctl(c)'
    BY <1>1, <2>1 DEF Types, TxStates, Control, Ctl, Blank, Ungranted, Total, CreditFor, book
  <2> QED BY <2>2, <2>3, <2>4, OthersControl DEF Control
<1>2. CASE /\ \/ EmailTaken(c) /\ AuditFailure(c) /\ UNCHANGED faults
              \/ Fault /\ (AuditFailure(c) \/ UNCHANGED audited)
           /\ Rollback(c, "refused")
  <2>1. faults' \in 0..MaxFaults
    BY <1>2, FaultStep DEF Types
  <2> QED BY <1>2, <2>1, RollbackStep DEF Provision, AuditFailure
<1> QED BY <1>1, <1>2 DEF Provision, Step

LEMMA SendMailStep ==
  ASSUME Types, Control, NEW c \in Calls, SendMail(c)
  PROVE  Types' /\ Control' /\ Alone(c)
<1>1. PICK aborted \in BOOLEAN :
        /\ pc[c] = "mail" /\ pc' = [pc EXCEPT ![c] = Returned(c)]
        /\ tx' = [tx EXCEPT ![c].broken = aborted]
        /\ mailed' \in {mailed, mailed \cup {c}} /\ (Fault \/ UNCHANGED faults)
        /\ UNCHANGED <<book, audited, of, answer, overlap>>
  BY DEF SendMail, MailOutcome, Step
<1>2. Returned(c) \in {"grant", "reply"} /\ (Returned(c) = "reply" <=> KindOf[c] # "app")
  BY DEF Returned
<1>3. faults' \in 0..MaxFaults
  BY <1>1, FaultStep DEF Types
<1>4. Types'
  BY <1>1, <1>2, <1>3 DEF Types, TxStates, book
<1>5. Alone(c)
  BY <1>1 DEF Types, Alone, book
<1>6. Ctl(c)'
  BY <1>1, <1>2 DEF Types, TxStates, Control, Ctl, Blank, Ungranted, Total, CreditFor, book
<1> QED BY <1>4, <1>5, <1>6, OthersControl DEF Control

LEMMA GrantedType == ASSUME Types, NEW c \in Calls PROVE Granted(c) \subseteq Nat
BY DEF Types, Granted

LEMMA ReadGrantStep ==
  ASSUME Types, Control, NEW c \in Calls, ReadGrant(c)
  PROVE  Types' /\ Control' /\ Alone(c)
<1>1. /\ pc[c] = "grant" /\ ~tx[c].broken
      /\ UNCHANGED <<book, outside, of, tx, faults>>
  BY DEF ReadGrant
<1>2. /\ pc' = [pc EXCEPT ![c] = pc'[c]]
      /\ pc'[c] \in {"reply", "refer", "promo", "credit"}
      /\ pc'[c] \in {"promo", "credit"} => CreditFor(c) # 0
      /\ overlap' \in BOOLEAN /\ (overlap => overlap')
  BY DEF ReadGrant, Step, Types
<1>3. /\ answer' \in [Calls -> Answers] /\ answer'[c].status = answer[c].status
      /\ \A d \in Calls \ {c} : answer'[d] = answer[d]
  <2>1. CASE UNCHANGED answer
    BY <2>1 DEF Types
  <2>2. CASE \E x \in Granted(c) : answer' = [answer EXCEPT ![c].granted = x]
    BY <2>2, GrantedType DEF Types, Answers
  <2> QED BY <2>1, <2>2 DEF ReadGrant
<1>4. KindOf[c] = "app" /\ of[c] \in Calls /\ Ungranted(c)
  BY <1>1 DEF Types, Control, Ctl
<1>5. Types'
  BY <1>1, <1>2, <1>3 DEF Types, book, outside
<1>6. Alone(c)
  BY <1>1, <1>2, <1>3 DEF Types, Alone, book, outside
<1>7. Ctl(c)'
  BY <1>1, <1>2, <1>3, <1>4, CreditType
     DEF Types, Control, Ctl, Blank, Ungranted, Total, CreditFor, book, outside
<1> QED BY <1>5, <1>6, <1>7, OthersControl DEF Control

LEMMA CountUseStep ==
  ASSUME Types, Control, NEW c \in Calls, CountUse(c)
  PROVE  Types' /\ Control' /\ Alone(c)
<1>1. /\ pc[c] = "promo" /\ pc' = [pc EXCEPT ![c] = "credit"]
      /\ tx' = [tx EXCEPT ![c].use = uses < MaxUses]
      /\ UNCHANGED <<book, outside, of, answer, overlap, faults>>
  BY DEF CountUse, Step
<1>2. (uses < MaxUses) \in BOOLEAN
  OBVIOUS
<1>3. Types'
  BY <1>1, <1>2 DEF Types, TxStates, book, outside
<1>4. Alone(c)
  BY <1>1 DEF Types, Alone, book, outside
<1>5. Ctl(c)'
  BY <1>1 DEF Types, TxStates, Control, Ctl, Blank, Ungranted, book, outside
<1> QED BY <1>3, <1>4, <1>5, OthersControl DEF Control

LEMMA CreditStep ==
  ASSUME Types, Control, NEW c \in Calls, Credit(c)
  PROVE  Types' /\ Control' /\ Alone(c)
<1> DEFINE new == IF Granted(c) = {} THEN Total(c) ELSE 0
<1>1. /\ pc[c] = "credit" /\ pc' = [pc EXCEPT ![c] = "refer"]
      /\ tx' = [tx EXCEPT ![c].credit = new]
      /\ answer' = [answer EXCEPT ![c].granted = Total(c)]
      /\ UNCHANGED <<book, outside, of, overlap, faults>>
  BY DEF Credit, Step, Tell
<1>2. Total(c) \in Nat /\ new \in Nat /\ (new > 0 => new = Total(c))
  BY <1>1, TotalType DEF Control, Ctl
<1> HIDE DEF new
<1>3. Types'
  BY <1>1, <1>2 DEF Types, TxStates, Answers, book, outside
<1>4. Alone(c)
  BY <1>1 DEF Types, Alone, book, outside
<1>5. Total(c)' = Total(c)
  BY <1>1 DEF Total, CreditFor, Types, TxStates
<1>6. Ctl(c)'
  BY <1>1, <1>2, <1>5 DEF Types, TxStates, Answers, Control, Ctl, Blank, Ungranted, book,
                          outside
<1> QED BY <1>3, <1>4, <1>6, OthersControl DEF Control

LEMMA ReferStep ==
  ASSUME Types, Control, NEW c \in Calls, Refer(c)
  PROVE  Types' /\ Control' /\ Alone(c)
<1>1. /\ pc[c] = "refer" /\ pc' = [pc EXCEPT ![c] = "reply"]
      /\ tx' = [tx EXCEPT ![c].referrer = ReferrerOf[c]]
      /\ UNCHANGED <<book, outside, of, answer, overlap, faults>>
  BY DEF Refer, Step
<1>2. Types'
  BY <1>1 DEF Types, TxStates, Referrers, book, outside
<1>3. Alone(c)
  BY <1>1 DEF Types, Alone, book, outside
<1>4. Total(c)' = Total(c)
  BY <1>1 DEF Total, CreditFor, Types, TxStates
<1>5. Ctl(c)'
  BY <1>1, <1>4 DEF Types, TxStates, Control, Ctl, Blank, Ungranted, book, outside
<1> QED BY <1>2, <1>3, <1>5, OthersControl DEF Control

LEMMA ReplyStep ==
  ASSUME Types, Control, NEW c \in Calls, Reply(c)
  PROVE  Types' /\ Control' /\ Alone(c)
<1>1. /\ pc[c] = "reply" /\ pc' = [pc EXCEPT ![c] = "done"]
      /\ answer' = [answer EXCEPT ![c].status = "ok"]
      /\ UNCHANGED <<outside, of, overlap, faults>>
  BY DEF Reply
<1>2. tx' = [tx EXCEPT ![c] = tx'[c]] /\ tx'[c] \in TxStates
  BY CleanType DEF Reply, Types
<1>3. Blank(c)' /\ Ungranted(c)' /\ tx'[c] \in Clean
  <2>1. tx'[c] \in Clean
    BY DEF Reply, Types, Clean
  <2> QED BY <2>1, CleanBlank DEF Blank, Ungranted
<1>4. clients' = IF ~tx[c].broken /\ tx[c].client THEN clients \cup {c} ELSE clients
  BY DEF Reply, book
<1>5. ~tx'[c].broken => ~tx[c].broken
  BY DEF Reply, Types, CleanTx
<1>6. Types'
  <2>1. grants' \subseteq Calls \X Plans \X Nat \X BOOLEAN
    BY DEF Reply, Types, TxStates, Control, Ctl, book
  <2>2. uses' \in Nat /\ UNCHANGED <<redeemed, raised, late>>
    BY DEF Reply, Types, book
  <2>3. referrer' \in [Calls -> Referrers]
    BY DEF Reply, Types, TxStates, book
  <2> QED BY <1>1, <1>2, <1>4, <2>1, <2>2, <2>3 DEF Types, Answers, outside
<1>7. Alone(c)
  BY <1>1, <1>2, <1>4 DEF Types, Alone, outside
<1>8. Ctl(c)'
  BY <1>1, <1>3, <1>4, <1>5 DEF Types, Answers, Control, Ctl, Blank, Ungranted, outside
<1> QED BY <1>6, <1>7, <1>8, OthersControl DEF Control

LEMMA FailStep ==
  ASSUME Types, Control, NEW c \in Calls, Fail(c)
  PROVE  Types' /\ Control' /\ Alone(c)
<1>1. pc[c] # "done" /\ Rollback(c, "failed") /\ UNCHANGED <<mailed, audited, overlap>>
  BY DEF Fail, outside
<1>2. faults' \in 0..MaxFaults
  BY FaultStep DEF Fail, Types
<1> QED BY <1>1, <1>2, RollbackStep

LEMMA HandleStep ==
  ASSUME Types, Control, NEW c \in Calls, Handle(c)
  PROVE  Types' /\ Control' /\ Alone(c)
BY ReplayStep, InsertClientStep, ProvisionStep, SendMailStep, ReadGrantStep, CountUseStep,
   CreditStep, ReferStep, ReplyStep, FailStep DEF Handle

-----------------------------------------------------------------------------
(***************************************************************************)
(* References, RFCs and emails                                             *)
(***************************************************************************)
\* Committed, or inserted by a transaction that is open.
HasRow(c) == c \in clients \/ tx[c].client
HasUser(c) == c \in clients \/ tx[c].user

Apart ==
  \A c, d \in Calls : c # d =>
    /\ HasRow(c) /\ HasRow(d) => ~Collides(c, d)
    /\ HasUser(c) /\ HasUser(d) => EmailOf[c] # EmailOf[d]

\* A row or a user that a step adds meets no other with its reference, RFC or email.
NewApart(c) ==
  \A d \in Calls \ {c} :
    /\ HasRow(c)' /\ ~HasRow(c) /\ HasRow(d) => ~Collides(c, d)
    /\ HasUser(c)' /\ ~HasUser(c) /\ HasUser(d) => EmailOf[c] # EmailOf[d]

LEMMA NewApartStep ==
  ASSUME Types, Control, NEW c \in Calls, Handle(c)
  PROVE  NewApart(c)
<1>1. CASE InsertClient(c)
  <2>1. clients' = clients
    BY <1>1 DEF InsertClient, Rollback, book
  <2>2. tx'[c].user => tx[c].user
    BY <1>1, CleanType DEF InsertClient, Rollback, Types, TxStates, CleanTx
  <2>3. tx'[c].client => ~RowTaken(c, clients)
    BY <1>1, CleanType DEF InsertClient, Rollback, Types, TxStates, CleanTx
  <2>4. \A d \in Calls \ {c} : HasRow(d) /\ tx'[c].client => ~Collides(c, d)
    BY <1>1, <2>3 DEF InsertClient, Free, Unhindered, WaitsFor, RowTaken, HasRow
  <2> QED BY <2>1, <2>2, <2>4 DEF NewApart, HasRow, HasUser
<1>2. CASE Provision(c)
  <2>1. clients' = clients
    BY <1>2 DEF Provision, Rollback, book
  <2>2. tx'[c].client => tx[c].client
    BY <1>2, CleanType DEF Provision, Rollback, Types, TxStates, CleanTx
  <2>3. tx'[c].user => tx[c].user \/ ~EmailTaken(c)
    BY <1>2, CleanType DEF Provision, Rollback, Types, TxStates, CleanTx
  <2>4. \A d \in Calls \ {c} : HasUser(d) /\ tx'[c].user /\ ~tx[c].user =>
          EmailOf[c] # EmailOf[d]
    BY <1>2, <2>3 DEF Provision, Free, Unhindered, WaitsFor, EmailTaken, HasUser
  <2> QED BY <2>1, <2>2, <2>4 DEF NewApart, HasRow, HasUser
<1>3. CASE Reply(c)
  <2>1. clients' \subseteq clients \cup {c} /\ (c \in clients' => HasRow(c))
    BY <1>3 DEF Reply, book, HasRow
  <2>2. tx[c].client => tx[c].user
    BY <1>3 DEF Reply, Control, Ctl
  <2>3. (tx'[c].client => tx[c].client) /\ (tx'[c].user => tx[c].user)
    BY <1>3, CleanType DEF Reply, Types, TxStates, CleanTx
  <2> QED BY <2>1, <2>2, <2>3 DEF NewApart, HasRow, HasUser
<1>4. CASE Replay(c) \/ SendMail(c) \/ ReadGrant(c) \/ CountUse(c) \/ Credit(c) \/ Refer(c)
           \/ Fail(c)
  <2>1. clients' = clients
    BY <1>4 DEF Replay, SendMail, ReadGrant, CountUse, Credit, Refer, Fail, Rollback, book
  <2>2. (tx'[c].client => tx[c].client) /\ (tx'[c].user => tx[c].user)
    <3>1. CASE Replay(c) \/ ReadGrant(c) \/ Fail(c)
      BY <3>1, CleanType DEF Replay, ReadGrant, Fail, Rollback, Types, CleanTx
    <3>2. CASE SendMail(c)
      BY <3>2 DEF SendMail, MailOutcome, Types, TxStates
    <3>3. CASE CountUse(c) \/ Credit(c) \/ Refer(c)
      BY <3>3 DEF CountUse, Credit, Refer, Types, TxStates
    <3> QED BY <1>4, <3>1, <3>2, <3>3
  <2> QED BY <2>1, <2>2 DEF NewApart, HasRow, HasUser
<1> QED BY <1>1, <1>2, <1>3, <1>4 DEF Handle

LEMMA ApartStep ==
  ASSUME Types, Control, Apart, NEW c \in Calls, Handle(c)
  PROVE  Apart'
<1>1. Alone(c) /\ NewApart(c)
  BY HandleStep, NewApartStep
<1>2. \A d \in Calls \ {c} : HasRow(d)' = HasRow(d) /\ HasUser(d)' = HasUser(d)
  BY <1>1 DEF Alone, HasRow, HasUser
<1> QED BY <1>1, <1>2 DEF Apart, NewApart, Collides, SameRef

-----------------------------------------------------------------------------
(***************************************************************************)
(* Grants                                                                  *)
(***************************************************************************)
\* What the app is told is what the ledger has, or what its own transaction is
\* about to commit.
Told(c) ==
  /\ KindOf[c] = "app" /\ CreditFor(c) > 0
  /\ pc[c] \in {"refer", "reply"} \/ (answer[c].status = "ok" /\ ~tx[c].broken)
  => tx[c].credit > 0 \/ Granted(c) = {answer[c].granted}

UseBacked(c) == tx[c].use /\ pc[c] # "credit" => tx[c].credit > 0

GrantInv ==
  /\ \A g, h \in grants : g[1] = h[1] /\ g[2] = h[2] => g = h
  /\ \A c \in Calls : tx[c].credit > 0 => Granted(c) = {}
  /\ \A c, d \in Calls : c # d /\ tx[c].credit > 0 /\ tx[d].credit > 0 => Key(c) # Key(d)
  /\ ~overlap =>
       /\ \A c \in Calls : (Granting(c) => Granted(c) = {}) /\ Told(c) /\ UseBacked(c)
       /\ \A c, d \in Calls : c # d /\ Granting(c) /\ Granting(d) => Key(c) # Key(d)

LEMMA GrantedSame ==
  ASSUME grants' = grants, NEW c \in Calls, of'[c] = of[c]
  PROVE  Granted(c)' = Granted(c) /\ Key(c)' = Key(c)
BY DEF Granted, Key

LEMMA OthersSame ==
  ASSUME NEW c \in Calls, Alone(c), NEW d \in Calls \ {c}
  PROVE  /\ Key(d)' = Key(d) /\ Granting(d)' = Granting(d)
         /\ UseBacked(d)' = UseBacked(d)
         /\ tx'[d] = tx[d] /\ answer'[d] = answer[d] /\ pc'[d] = pc[d]
         /\ Granted(d)' = Granted(d) => Told(d)' = Told(d)
BY DEF Alone, Key, Granting, UseBacked, Told, CreditFor

\* A step that adds no grant and no grant in progress.
LEMMA QuietGrant ==
  ASSUME GrantInv, NEW c \in Calls, Alone(c), grants' = grants,
         Granting(c)' => Granting(c) /\ of'[c] = of[c],
         tx'[c].credit > 0 => tx[c].credit > 0 /\ of'[c] = of[c],
         ~overlap' => Told(c)' /\ UseBacked(c)'
  PROVE  GrantInv'
<1>1. \A d \in Calls \ {c} : Granted(d)' = Granted(d)
  BY GrantedSame DEF Alone
<1>2. of'[c] = of[c] => Granted(c)' = Granted(c) /\ Key(c)' = Key(c)
  BY GrantedSame
<1>3. \A d \in Calls : tx'[d].credit > 0 =>
        tx[d].credit > 0 /\ Key(d)' = Key(d) /\ Granted(d)' = Granted(d)
  BY <1>1, <1>2, OthersSame
<1>4. \A d \in Calls : Granting(d)' =>
        Granting(d) /\ Key(d)' = Key(d) /\ Granted(d)' = Granted(d)
  BY <1>1, <1>2, OthersSame
<1>5. ~overlap' => ~overlap
  BY DEF Alone
<1>6. ~overlap' => \A d \in Calls : Told(d)' /\ UseBacked(d)'
  BY <1>1, <1>5, OthersSame DEF GrantInv
<1> QED BY <1>3, <1>4, <1>5, <1>6 DEF GrantInv

LEMMA QuietSteps ==
  ASSUME Types, Control, GrantInv, NEW c \in Calls,
         \/ Replay(c) \/ InsertClient(c) \/ Provision(c) \/ SendMail(c) \/ CountUse(c)
         \/ Refer(c) \/ Fail(c)
  PROVE  GrantInv'
<1>1. Types' /\ Control' /\ Alone(c)
  BY HandleStep DEF Handle
<1>2. CASE Replay(c) \/ InsertClient(c) \/ Provision(c) \/ SendMail(c) \/ Fail(c)
  <2>1. grants' = grants
    BY <1>2 DEF Replay, InsertClient, Provision, SendMail, Fail, Rollback, book
  <2>2. /\ pc'[c] \in {"replay", "insert", "provision", "mail", "grant", "done"}
           \/ (pc'[c] = "reply" /\ KindOf[c] # "app")
        /\ answer'[c].status # "ok"
    <3>1. CASE Replay(c) \/ SendMail(c)
      BY <3>1, <1>1 DEF Replay, SendMail, Step, Returned, Rollback, Types, Answers, Control, Ctl
    <3>2. CASE InsertClient(c) \/ Provision(c) \/ Fail(c)
      BY <3>2, <1>1 DEF InsertClient, Provision, Fail, Step, Rollback, Types, Answers, Control,
                        Ctl
    <3> QED BY <1>2, <3>1, <3>2
  <2>3. tx'[c].use \/ tx'[c].credit > 0 => KindOf[c] = "app"
    BY <1>1 DEF Control, Ctl
  <2>4. ~tx'[c].use /\ ~(tx'[c].credit > 0)
    BY <1>1, <2>2, <2>3 DEF Types, TxStates, Control, Ctl, Ungranted
  <2>5. Told(c)' /\ ~Granting(c)'
    BY <2>2, <2>4 DEF Told, Granting
  <2> QED BY <1>1, <2>1, <2>4, <2>5, QuietGrant DEF UseBacked
<1>3. CASE CountUse(c)
  <2>1. /\ pc[c] = "promo" /\ pc' = [pc EXCEPT ![c] = "credit"]
        /\ UNCHANGED <<grants, of, answer>> /\ tx'[c].credit = tx[c].credit
    BY <1>3 DEF CountUse, Step, book, Types, TxStates
  <2>2. answer[c].status # "ok"
    BY <2>1 DEF Types, Answers, Control, Ctl
  <2> QED BY <1>1, <2>1, <2>2, QuietGrant DEF Told, UseBacked, Granting, Types
<1>4. CASE Refer(c)
  <2>1. /\ pc[c] = "refer" /\ pc' = [pc EXCEPT ![c] = "reply"]
        /\ UNCHANGED <<grants, of, answer, overlap>>
        /\ tx'[c].credit = tx[c].credit /\ tx'[c].use = tx[c].use
    BY <1>4 DEF Refer, Step, book, Types, TxStates
  <2>2. Granted(c)' = Granted(c)
    BY <2>1, GrantedSame
  <2>3. ~overlap' => Told(c)' /\ UseBacked(c)'
    BY <2>1, <2>2 DEF GrantInv, Told, UseBacked, CreditFor, Types
  <2> QED BY <1>1, <2>1, <2>3, QuietGrant DEF Granting, Types
<1> QED BY <1>2, <1>3, <1>4

LEMMA ReadGrantGrants ==
  ASSUME Types, Control, GrantInv, NEW c \in Calls, ReadGrant(c)
  PROVE  GrantInv'
<1>1. Types' /\ Control' /\ Alone(c)
  BY HandleStep DEF Handle
<1>2. /\ pc[c] = "grant" /\ pc' = [pc EXCEPT ![c] = pc'[c]]
      /\ UNCHANGED <<grants, of, tx>>
  BY DEF ReadGrant, Step, book, Types
<1>3. /\ Granted(c)' = Granted(c) /\ Key(c)' = Key(c)
      /\ tx[c].credit = 0 /\ ~tx[c].use /\ answer'[c].status # "ok"
  BY <1>1, <1>2, GrantedSame DEF Types, Answers, Control, Ctl, Ungranted, ReadGrant, Step
<1>4. CASE Granted(c) # {}
  <2>1. PICK x \in Granted(c) : answer' = [answer EXCEPT ![c].granted = x]
    BY <1>4 DEF ReadGrant
  <2>2. \A y \in Granted(c) : y = x
    BY <2>1 DEF GrantInv, Granted, Key
  <2>3. Granted(c) = {answer'[c].granted}
    BY <2>1, <2>2 DEF Types, Answers
  <2>4. ~Granting(c)'
    BY <1>2, <1>3, <1>4 DEF ReadGrant, Granting, Step, Types
  <2> QED BY <1>1, <1>2, <1>3, <2>3, <2>4, QuietGrant DEF Told, UseBacked
<1>5. CASE Granted(c) = {}
  <2>1. /\ answer' = answer
        /\ overlap' = (overlap \/ \E d \in Calls \ {c} : Granting(d) /\ Key(d) = Key(c))
        /\ pc'[c] # "reply" /\ (pc'[c] = "refer" => CreditFor(c) = 0)
    BY <1>5 DEF ReadGrant, Step, Types
  <2>2. Told(c)' /\ UseBacked(c)'
    BY <1>2, <1>3, <2>1 DEF Told, UseBacked, CreditFor
  <2>3. \A d \in Calls : Granted(d)' = Granted(d) /\ Key(d)' = Key(d)
    BY <1>2, GrantedSame
  <2>4. ~overlap' => \A d \in Calls : (Granting(d)' => Granted(d)' = {}) /\ Told(d)'
                                                                         /\ UseBacked(d)'
    BY <1>1, <1>5, <2>1, <2>2, <2>3, OthersSame DEF GrantInv
  <2>5. ~overlap' => \A d, e \in Calls :
          d # e /\ Granting(d)' /\ Granting(e)' => Key(d)' # Key(e)'
    <3>1. ~overlap' => /\ ~overlap
                       /\ \A d \in Calls \ {c} : Granting(d) => Key(d) # Key(c)
      BY <2>1
    <3>2. \A d \in Calls \ {c} : Granting(d)' = Granting(d)
      BY <1>1, OthersSame
    <3>3. ~overlap' => \A d, e \in Calls \ {c} :
            d # e /\ Granting(d) /\ Granting(e) => Key(d) # Key(e)
      BY <3>1 DEF GrantInv
    <3> QED BY <2>3, <3>1, <3>2, <3>3
  <2>6. /\ \A d \in Calls : tx'[d].credit > 0 => Granted(d)' = {}
        /\ \A d, e \in Calls :
             d # e /\ tx'[d].credit > 0 /\ tx'[e].credit > 0 => Key(d)' # Key(e)'
    BY <1>2, <2>3 DEF GrantInv
  <2>7. \A g, h \in grants' : g[1] = h[1] /\ g[2] = h[2] => g = h
    BY <1>2 DEF GrantInv
  <2> QED BY <2>4, <2>5, <2>6, <2>7 DEF GrantInv
<1> QED BY <1>4, <1>5

LEMMA CreditGrants ==
  ASSUME Types, Control, GrantInv, NEW c \in Calls, Credit(c)
  PROVE  GrantInv'
<1>1. Types' /\ Control' /\ Alone(c)
  BY HandleStep DEF Handle
<1>2. /\ pc[c] = "credit" /\ pc' = [pc EXCEPT ![c] = "refer"]
      /\ UNCHANGED <<grants, of, overlap>> /\ answer'[c].status = answer[c].status
      /\ tx'[c].credit = IF Granted(c) = {} THEN Total(c) ELSE 0
      /\ \A d \in Calls \ {c} : tx[d].credit > 0 => Key(d) # Key(c)
  <2>1. Free(c) /\ pc[c] = "credit"
    BY DEF Credit, Step
  <2>2. \A d \in Calls \ {c} : tx[d].credit > 0 => Key(d) # Key(c)
    BY <2>1 DEF Free, Unhindered, WaitsFor
  <2> QED BY <2>1, <2>2 DEF Credit, Step, book, Types, TxStates, Answers
<1>3. Total(c) > 0 /\ Granting(c)
  BY <1>2, TotalType, PlansAssumption DEF Control, Ctl, Granting
<1>4. \A d \in Calls : Granted(d)' = Granted(d) /\ Key(d)' = Key(d)
  BY <1>2, GrantedSame
<1>5. \A d \in Calls : tx'[d].credit > 0 => Granted(d)' = {}
  BY <1>1, <1>2, <1>4, OthersSame DEF GrantInv
<1>6. \A d, e \in Calls :
        d # e /\ tx'[d].credit > 0 /\ tx'[e].credit > 0 => Key(d)' # Key(e)'
  BY <1>1, <1>2, <1>4, OthersSame DEF GrantInv
<1>7. ~overlap' => Told(c)' /\ UseBacked(c)'
  BY <1>2, <1>3 DEF GrantInv, Told, UseBacked
<1>8. ~overlap' => \A d \in Calls : (Granting(d)' => Granted(d)' = {}) /\ Told(d)'
                                                                       /\ UseBacked(d)'
  BY <1>1, <1>2, <1>3, <1>4, <1>7, OthersSame DEF GrantInv
<1>9. ~overlap' => \A d, e \in Calls :
        d # e /\ Granting(d)' /\ Granting(e)' => Key(d)' # Key(e)'
  BY <1>1, <1>2, <1>3, <1>4, OthersSame DEF GrantInv
<1> QED BY <1>2, <1>5, <1>6, <1>8, <1>9 DEF GrantInv

\* The only step that adds a row: of a grant nobody else has in the ledger or
\* in an open transaction.
LEMMA ReplyGrants ==
  ASSUME Types, Control, GrantInv, NEW c \in Calls, Reply(c)
  PROVE  GrantInv'
<1> DEFINE new == <<of[c], PlanOf[c], tx[c].credit, tx[c].use>>
<1>1. Types' /\ Control' /\ Alone(c)
  BY HandleStep DEF Handle
<1>2. /\ pc[c] = "reply" /\ pc' = [pc EXCEPT ![c] = "done"]
      /\ UNCHANGED <<of, overlap>> /\ answer'[c].granted = answer[c].granted
  BY DEF Reply, Types, Answers
<1>3. ~Granting(c)' /\ UseBacked(c)' /\ ~(tx'[c].credit > 0)
  BY <1>1, <1>2 DEF Types, Control, Ctl, Ungranted, Granting, UseBacked
<1>5. CASE ~(tx[c].credit > 0)
  <2>1. grants' = grants
    BY <1>5 DEF Reply, book
  <2>2. ~overlap' => Told(c)'
    <3>1. ~tx'[c].broken => ~tx[c].broken
      BY DEF Reply, Types, CleanTx
    <3> QED BY <1>2, <1>5, <2>1, <3>1, GrantedSame DEF GrantInv, Told, CreditFor
  <2> QED BY <1>1, <1>3, <2>1, <2>2, QuietGrant
<1>6. CASE tx[c].credit > 0
  <2>1. grants' = grants \cup {new}
    BY <1>2, <1>6 DEF Reply, Control, Ctl
  <2>2. Granted(c) = {} /\ answer[c].granted = tx[c].credit
    BY <1>6 DEF GrantInv, Control, Ctl
  <2>3. Granted(c)' = {answer'[c].granted}
    <3>1. Granted(c)' = {g[3] : g \in {g \in grants \cup {new} : <<g[1], g[2]>> = Key(c)}}
      BY <1>2, <2>1 DEF Granted, Key
    <3>2. \A g \in grants : <<g[1], g[2]>> # Key(c)
      BY <2>2 DEF Granted
    <3>3. <<new[1], new[2]>> = Key(c) /\ new[3] = tx[c].credit
      BY DEF Key
    <3>4. {g \in grants \cup {new} : <<g[1], g[2]>> = Key(c)} = {new}
      BY <3>2, <3>3
    <3> QED BY <1>2, <2>2, <3>1, <3>3, <3>4
  <2>4. \A d \in Calls \ {c} : Key(d) # Key(c) => Granted(d)' = Granted(d)
    BY <1>2, <2>1 DEF Granted, Key
  <2>5. \A d \in Calls \ {c} : Granted(d) # {} => Key(d) # Key(c)
    BY <2>2 DEF Granted
  <2>6. \A g, h \in grants' : g[1] = h[1] /\ g[2] = h[2] => g = h
    BY <2>1, <2>2 DEF GrantInv, Granted, Key
  <2>7. \A d \in Calls : tx'[d].credit > 0 => tx[d].credit > 0 /\ d # c /\ Key(d)' = Key(d)
                                              /\ Granted(d)' = {}
    BY <1>1, <1>3, <1>6, <2>4, OthersSame DEF GrantInv
  <2>8. ~overlap => \A d \in Calls : Granting(d)' => Granting(d) /\ d # c /\ Key(d)' = Key(d)
                                                     /\ Granted(d)' = {}
    <3>1. Granting(c)
      BY <1>6 DEF Granting
    <3> QED BY <1>1, <1>3, <2>4, <3>1, OthersSame DEF GrantInv
  <2>9. ~overlap => \A d \in Calls : Told(d)' /\ UseBacked(d)'
    <3>1. ASSUME ~overlap, NEW d \in Calls \ {c} PROVE Told(d)' /\ UseBacked(d)'
      <4>1. Told(d) /\ UseBacked(d)
        BY <3>1 DEF GrantInv
      <4>2. CASE tx[d].credit > 0
        BY <1>1, <4>1, <4>2, OthersSame DEF Told
      <4>3. CASE ~(tx[d].credit > 0) /\ Granted(d) = {answer[d].granted}
        BY <1>1, <2>4, <2>5, <4>1, <4>3, OthersSame
      <4> QED BY <1>1, <4>1, <4>2, <4>3, OthersSame DEF Told, Alone, CreditFor
    <3>2. Told(c)'
      BY <2>3 DEF Told
    <3> QED BY <1>3, <3>1, <3>2
  <2> QED BY <1>2, <2>6, <2>7, <2>8, <2>9 DEF GrantInv
<1> QED BY <1>5, <1>6

LEMMA GrantStep ==
  ASSUME Types, Control, GrantInv, NEW c \in Calls, Handle(c)
  PROVE  GrantInv'
BY QuietSteps, ReadGrantGrants, CreditGrants, ReplyGrants DEF Handle

-----------------------------------------------------------------------------
(***************************************************************************)
(* The promotion                                                           *)
(***************************************************************************)
\* The row of the promotion is held by one call or by a closing, and a call that
\* holds it found the promotion not used up.
UseInv ==
  /\ IsFiniteSet(grants)
  /\ \A c, d \in Calls : tx[c].use /\ tx[d].use => c = d
  /\ \A c \in Calls : tx[c].use => uses < MaxUses /\ raised = 0
  /\ uses - redeemed <= MaxUses
  /\ ~late => uses + raised <= MaxUses
  /\ Cardinality(Bonuses) + redeemed <= uses
  /\ ~overlap => Cardinality(Bonuses) + redeemed = uses

LEMMA QuietUse ==
  ASSUME UseInv, NEW c \in Calls, Alone(c), UNCHANGED book, tx'[c].use => tx[c].use
  PROVE  UseInv'
<1>1. \A d \in Calls : tx'[d].use => tx[d].use
  BY DEF Alone
<1>2. ~overlap' => ~overlap
  BY DEF Alone
<1>3. Bonuses' = Bonuses
  BY DEF Bonuses, book
<1> QED BY <1>1, <1>2, <1>3 DEF UseInv, book

LEMMA CountUseUses ==
  ASSUME Types, Control, UseInv, NEW c \in Calls, CountUse(c)
  PROVE  UseInv'
<1>1. Alone(c)
  BY CountUseStep
<1>2. /\ UNCHANGED <<book, overlap>> /\ (tx'[c].use => uses < MaxUses)
      /\ raised = 0 /\ \A d \in Calls : ~tx[d].use
  BY DEF CountUse, Step, Free, Unhindered, WaitsFor, Types, TxStates
<1>3. \A d \in Calls : tx'[d].use => d = c
  BY <1>1, <1>2 DEF Alone
<1>4. Bonuses' = Bonuses
  BY <1>2 DEF Bonuses, book
<1> QED BY <1>2, <1>3, <1>4 DEF UseInv, book

\* A use and its bonus are committed together.
LEMMA ReplyUses ==
  ASSUME Types, Control, GrantInv, UseInv, NEW c \in Calls, Reply(c)
  PROVE  UseInv'
<1> DEFINE new == <<of[c], PlanOf[c], tx[c].credit, tx[c].use>>
<1>1. Types' /\ Control' /\ Alone(c) /\ overlap' = overlap /\ pc[c] = "reply"
  BY ReplyStep DEF Reply
<1>2. ~tx'[c].use
  BY <1>1 DEF Reply, Types, Control, Ctl, Ungranted
<1>3. grants' = IF tx[c].credit > 0 THEN grants \cup {new} ELSE grants
  BY <1>1 DEF Reply, book, Control, Ctl
<1>4. /\ uses' = IF tx[c].use THEN uses + 1 ELSE uses
      /\ UNCHANGED <<redeemed, raised, late>>
  BY <1>1 DEF Reply, book, Control, Ctl
<1>5. tx[c].credit > 0 => new \notin grants
  BY DEF GrantInv, Granted, Key
<1>6. /\ IsFiniteSet(Bonuses) /\ Cardinality(Bonuses) \in Nat /\ Bonuses \subseteq grants
  <2>1. Bonuses \subseteq grants
    BY DEF Bonuses
  <2> QED BY <2>1, FS_Subset, FS_CardinalityType DEF UseInv
<1>7. IsFiniteSet(grants')
  BY <1>3, FS_AddElement DEF UseInv
<1>8. CASE tx[c].use
  <2>1. /\ uses' = uses + 1 /\ uses < MaxUses /\ raised = 0
        /\ \A d \in Calls : ~tx'[d].use
    BY <1>1, <1>2, <1>4, <1>8 DEF UseInv, Alone
  <2>2. CASE tx[c].credit > 0
    <3>1. Bonuses' = Bonuses \cup {new} /\ new \notin Bonuses
      <4>1. new[4]
        BY <1>8
      <4>2. grants' = grants \cup {new} /\ new \notin grants
        BY <1>3, <1>5, <2>2
      <4> HIDE DEF new
      <4> QED BY <1>6, <4>1, <4>2, Zenon DEF Bonuses
    <3>2. Cardinality(Bonuses') = Cardinality(Bonuses) + 1
      BY <1>6, <3>1, FS_AddElement
    <3> QED BY <1>1, <1>4, <1>6, <1>7, <2>1, <3>2, PlansAssumption DEF UseInv, Types
  <2>3. CASE ~(tx[c].credit > 0)
    <3>1. Bonuses' = Bonuses
      BY <1>3, <2>3 DEF Bonuses
    <3>2. overlap
      BY <1>1, <1>8, <2>3 DEF GrantInv, UseBacked
    <3> QED BY <1>1, <1>4, <1>6, <1>7, <2>1, <3>1, <3>2, PlansAssumption DEF UseInv, Types
  <2> QED BY <2>2, <2>3
<1>9. CASE ~tx[c].use
  <2>1. Bonuses' = Bonuses
    <3>1. ~new[4] /\ grants' \in {grants, grants \cup {new}}
      BY <1>3, <1>9
    <3> HIDE DEF new
    <3> QED BY <3>1 DEF Bonuses
  <2>2. \A d \in Calls : tx'[d].use => tx[d].use /\ d # c
    BY <1>1, <1>2 DEF Alone
  <2> QED BY <1>1, <1>4, <1>7, <1>9, <2>1, <2>2 DEF UseInv
<1> QED BY <1>8, <1>9

LEMMA UseStep ==
  ASSUME Types, Control, GrantInv, UseInv, NEW c \in Calls, Handle(c)
  PROVE  UseInv'
<1>1. Alone(c)
  BY HandleStep
<1>2. CASE Replay(c) \/ InsertClient(c) \/ Provision(c) \/ ReadGrant(c) \/ Fail(c)
  <2>1. UNCHANGED book
    BY <1>2 DEF Replay, InsertClient, Provision, ReadGrant, Fail, Rollback, book
  <2>2. tx'[c].use => tx[c].use
    BY <1>2, CleanType DEF Replay, InsertClient, Provision, ReadGrant, Fail, Rollback, Types,
                           TxStates, CleanTx
  <2> QED BY <1>1, <2>1, <2>2, QuietUse
<1>3. CASE SendMail(c) \/ Credit(c) \/ Refer(c)
  <2>1. UNCHANGED book
    BY <1>3 DEF SendMail, Credit, Refer
  <2>2. tx'[c].use => tx[c].use
    BY <1>3 DEF SendMail, MailOutcome, Credit, Refer, Types, TxStates
  <2> QED BY <1>1, <2>1, <2>2, QuietUse
<1> QED BY <1>2, <1>3, CountUseUses, ReplyUses DEF Handle

-----------------------------------------------------------------------------
(***************************************************************************)
(* Waits                                                                   *)
(***************************************************************************)
\* The UPDATE of the client is the last statement: its lock is held by calls
\* that only have to reply.
ReferInv == \A c \in Calls : tx[c].referrer # NoReferrer => pc[c] = "reply"

LEMMA ReferInvStep ==
  ASSUME Types, Control, ReferInv, NEW c \in Calls, Handle(c)
  PROVE  ReferInv'
<1>1. Alone(c)
  BY HandleStep
<1>2. tx'[c].referrer # NoReferrer => pc'[c] = "reply"
  <2>1. CASE Refer(c)
    BY <2>1 DEF Refer, Step, Types
  <2>2. CASE Reply(c)
    BY <2>2, CleanType DEF Reply, Types, CleanTx
  <2>3. CASE \/ Replay(c) \/ InsertClient(c) \/ Provision(c) \/ SendMail(c) \/ ReadGrant(c)
             \/ CountUse(c) \/ Credit(c) \/ Fail(c)
    <3>1. pc[c] # "reply" => tx[c].referrer = NoReferrer
      BY DEF ReferInv
    <3>2. pc[c] # "reply" \/ Fail(c)
      BY <2>3 DEF Replay, InsertClient, Provision, SendMail, ReadGrant, CountUse, Credit, Step
    <3>3. tx'[c].referrer \in {tx[c].referrer, NoReferrer}
      <4>1. CASE Replay(c) \/ ReadGrant(c) \/ Fail(c)
        BY <4>1 DEF Replay, ReadGrant, Fail, Rollback, Types, CleanTx
      <4>2. CASE InsertClient(c) \/ Provision(c)
        BY <4>2 DEF InsertClient, Provision, Rollback, Types, TxStates, CleanTx
      <4>3. CASE SendMail(c) \/ CountUse(c) \/ Credit(c)
        BY <4>3 DEF SendMail, MailOutcome, CountUse, Credit, Types, TxStates
      <4> QED BY <2>3, <4>1, <4>2, <4>3
    <3>4. Fail(c) => tx'[c].referrer = NoReferrer
      BY DEF Fail, Rollback, Types, CleanTx
    <3> QED BY <3>1, <3>2, <3>3, <3>4
  <2> QED BY <2>1, <2>2, <2>3 DEF Handle
<1> QED BY <1>1, <1>2 DEF Alone, ReferInv

\* Whoever is waited for has passed the statement that waits.
LEMMA WaitedForIsLater ==
  ASSUME Types, Control, ReferInv, NEW c \in Calls, NEW d \in Calls, WaitsFor(c, d)
  PROVE  pc[d] # "done" /\ Position[pc[c]] < Position[pc[d]]
<1> USE DEF Position
<1>1. /\ pc[d] \in {"replay", "insert", "provision", "mail", "grant", "promo", "credit",
                    "refer", "reply", "done"}
      /\ Ctl(d)
  BY DEF Types, Control
<1>2. CASE pc[c] = "insert" /\ tx[d].client
  <2>1. pc[d] \in {"provision", "mail", "grant", "promo", "credit", "refer", "reply"}
    BY <1>1, <1>2 DEF Ctl, Blank
  <2> QED BY <1>2, <2>1
<1>3. CASE pc[c] = "provision" /\ tx[d].user
  <2>1. pc[d] \in {"mail", "grant", "promo", "credit", "refer", "reply"}
    BY <1>1, <1>3 DEF Ctl, Blank
  <2> QED BY <1>3, <2>1
<1>4. CASE pc[c] = "promo" /\ tx[d].use
  <2>1. pc[d] \in {"credit", "refer", "reply"}
    BY <1>1, <1>4 DEF Ctl, Ungranted
  <2> QED BY <1>4, <2>1
<1>5. CASE pc[c] = "credit" /\ tx[d].credit > 0
  <2>1. pc[d] \in {"refer", "reply"}
    BY <1>1, <1>5 DEF Ctl, Ungranted
  <2> QED BY <1>5, <2>1
<1>6. CASE pc[c] = "refer" /\ tx[d].referrer # NoReferrer
  <2>1. pc[d] = "reply"
    BY <1>6 DEF ReferInv
  <2> QED BY <1>6, <2>1
<1> QED BY <1>2, <1>3, <1>4, <1>5, <1>6 DEF WaitsFor

\* From the last statement back: as long as no call is at a later one, a call
\* that is at this one waits for none.
LEMMA SomeoneIsFree ==
  ASSUME Types, Control, ReferInv, NEW b \in Calls, pc[b] # "done"
  PROVE  \E c \in Calls : pc[c] # "done" /\ Unhindered(c)
<1> SUFFICES ASSUME \A c \in Calls : pc[c] # "done" => ~Unhindered(c) PROVE FALSE
  OBVIOUS
<1> DEFINE None(l) == \A c \in Calls : pc[c] # l
<1>1. \A c \in Calls : pc[c] # "done" =>
        /\ pc[c] \in {"insert", "provision", "promo", "credit", "refer"}
        /\ \E d \in Calls : WaitsFor(c, d)
  BY DEF Unhindered, WaitsFor
<1>2. \A c \in Calls : pc[c] # "done" => \E d \in Calls :
        /\ pc[d] \in {"insert", "provision", "promo", "credit", "refer"}
        /\ Position[pc[c]] < Position[pc[d]]
  BY <1>1, WaitedForIsLater
<1> USE DEF Position
<1>3. None("refer")
  BY <1>2
<1>4. None("credit")
  BY <1>2, <1>3
<1>5. None("promo")
  BY <1>2, <1>3, <1>4
<1>6. None("provision")
  BY <1>2, <1>3, <1>4, <1>5
<1>7. None("insert")
  BY <1>2, <1>3, <1>4, <1>5, <1>6
<1> QED BY <1>1, <1>3, <1>4, <1>5, <1>6, <1>7

-----------------------------------------------------------------------------
\* The client a call works for is its own or one of its reference, and the
\* distributor it writes is its own.
WorkInv ==
  \A c \in Calls : /\ of[c] \in {NoCall, c} \/ SameRef(c, of[c])
                   /\ tx[c].referrer \in {NoReferrer, ReferrerOf[c]}

LEMMA WorkInvStep ==
  ASSUME Types, Control, WorkInv, NEW c \in Calls, Handle(c)
  PROVE  WorkInv'
<1>1. Alone(c)
  BY HandleStep
<1>2. of'[c] \in {NoCall, c} \/ SameRef(c, of'[c])
  <2>1. CASE Replay(c) /\ \E d \in clients : SameRef(c, d)
    BY <2>1 DEF Replay, Types
  <2>2. CASE InsertClient(c) /\ ~RowTaken(c, clients)
    BY <2>2 DEF InsertClient, Types
  <2>3. CASE of' = of
    BY <2>3 DEF WorkInv
  <2> QED BY <2>1, <2>2, <2>3 DEF Handle, Replay, InsertClient, Provision, SendMail, ReadGrant,
                                  CountUse, Credit, Refer, Reply, Fail, Rollback
<1>3. tx'[c].referrer \in {NoReferrer, ReferrerOf[c]}
  <2>1. CASE Refer(c)
    BY <2>1 DEF Refer, Types, TxStates
  <2>2. CASE Reply(c) \/ Replay(c) \/ ReadGrant(c) \/ Fail(c)
    BY <2>2 DEF Reply, Replay, ReadGrant, Fail, Rollback, Types, TxStates, CleanTx, WorkInv
  <2>3. CASE InsertClient(c) \/ Provision(c)
    BY <2>3 DEF InsertClient, Provision, Rollback, Types, TxStates, CleanTx, WorkInv
  <2>4. CASE SendMail(c) \/ CountUse(c) \/ Credit(c)
    BY <2>4 DEF SendMail, MailOutcome, CountUse, Credit, Types, TxStates, WorkInv
  <2> QED BY <2>1, <2>2, <2>3, <2>4 DEF Handle
<1> QED BY <1>1, <1>2, <1>3 DEF Alone, WorkInv

-----------------------------------------------------------------------------
IInv == Types /\ Control /\ Apart /\ GrantInv /\ UseInv /\ ReferInv /\ WorkInv

LEMMA InvGivesProperties ==
  IInv => TypeOK /\ OneClientPerReference /\ PromotionCounted /\ ToldIsTrue /\ WaitsInOrder
<1> SUFFICES ASSUME IInv
             PROVE  /\ TypeOK /\ OneClientPerReference /\ PromotionCounted /\ ToldIsTrue
                    /\ WaitsInOrder
  OBVIOUS
<1>1. TypeOK
  <2>1. \A c \in Calls : tx[c].user => tx[c].client /\ of[c] = c
    BY DEF IInv, Control, Ctl
  <2>2. \A c \in Calls : pc[c] = "done" => tx[c] \in Clean
    BY DEF IInv, Control, Ctl
  <2> QED BY <2>1, <2>2 DEF IInv, Types, TypeOK, TxStates, Answers, Referrers, Clean
<1>2. OneClientPerReference
  BY DEF IInv, Types, Apart, HasRow, HasUser, OneClientPerReference
<1>3. PromotionCounted
  BY PlansAssumption DEF IInv, Types, UseInv, PromotionCounted
<1>4. ToldIsTrue
  BY DEF IInv, Types, TxStates, Answers, Control, Ctl, Ungranted, GrantInv, Told, ToldIsTrue
<1>5. WaitsInOrder
  BY WaitedForIsLater, SomeoneIsFree DEF IInv, WaitsInOrder
<1> QED BY <1>1, <1>2, <1>3, <1>4, <1>5

LEMMA InitIInv == Init => IInv
<1> SUFFICES ASSUME Init PROVE IInv
  OBVIOUS
<1>1. Types
  <2>1. NoAnswer \in Answers /\ CleanTx \in TxStates /\ NoReferrer \in Referrers
    BY CleanType DEF NoAnswer, Answers, Referrers
  <2>2. faults \in 0..MaxFaults
    BY PlansAssumption DEF Init
  <2> QED BY <2>1, <2>2 DEF Init, Types
<1>2. \A c \in Calls : pc[c] = "replay" /\ Blank(c) /\ Ungranted(c) /\ ~tx[c].broken
                       /\ answer[c].status = "none"
  BY DEF Init, Blank, Ungranted, CleanTx, NoAnswer
<1>3. Control
  BY <1>2 DEF Init, Control, Ctl, Blank, Ungranted
<1>4. Apart
  BY <1>2 DEF Init, Apart, HasRow, HasUser, Blank
<1>5. GrantInv
  BY <1>2 DEF Init, GrantInv, Granting, Told, UseBacked, Ungranted
<1>6. UseInv
  <2>1. Bonuses = {} /\ grants = {} /\ uses = 0
    BY DEF Init, Bonuses
  <2>2. redeemed = 0 /\ raised = 0
    BY DEF Init
  <2> QED BY <1>2, <2>1, <2>2, FS_EmptySet, PlansAssumption DEF UseInv, Ungranted
<1>7. ReferInv
  BY <1>2 DEF ReferInv, Blank
<1>8. WorkInv
  BY <1>2 DEF Init, WorkInv, Blank
<1> QED BY <1>1, <1>3, <1>4, <1>5, <1>6, <1>7, <1>8 DEF IInv

\* The closing changes what the promotion counts, and nothing of the calls.
LEMMA ClosingStep ==
  ASSUME IInv, ClosingCounts \/ ClosingEnds
  PROVE  IInv'
<1> USE DEF IInv
<1>1. /\ UNCHANGED <<clients, grants, referrer, outside, pc, of, tx, answer, overlap>>
      /\ faults' \in 0..MaxFaults
  BY FaultStep DEF ClosingCounts, ClosingEnds, Types
<1>2. Types'
  <2>1. uses' \in Nat /\ redeemed' \in Nat /\ raised' \in Nat
    BY DEF ClosingCounts, ClosingEnds, Types
  <2>2. late' \in BOOLEAN
    <3>1. (late \/ uses >= MaxUses) \in BOOLEAN
      OBVIOUS
    <3> QED BY <3>1 DEF ClosingCounts, ClosingEnds, Types
  <2> QED BY <1>1, <2>1, <2>2 DEF Types, outside
<1>3. Control' /\ Apart' /\ ReferInv' /\ WorkInv'
  BY <1>1 DEF Control, Ctl, Blank, Ungranted, Total, CreditFor, Apart, HasRow, HasUser, Collides,
              SameRef, ReferInv, WorkInv, outside
<1>4. GrantInv'
  BY <1>1 DEF GrantInv, Granted, Key, Granting, Told, UseBacked, CreditFor
<1>5. UseInv'
  <2>1. Bonuses' = Bonuses /\ Cardinality(Bonuses) \in Nat
    <3>1. IsFiniteSet(Bonuses)
      BY FS_Subset DEF UseInv, Bonuses
    <3> QED BY <1>1, <3>1, FS_CardinalityType DEF Bonuses
  <2>2. CASE ClosingCounts
    <3>1. /\ UNCHANGED <<uses, redeemed>> /\ raised' = raised + 1
          /\ \A c \in Calls : ~tx[c].use
          /\ raised > 0 => uses + raised < MaxUses
      BY <2>2 DEF ClosingCounts
    <3>2. ~late' => ~late /\ ~(uses >= MaxUses)
      BY <2>2, Zenon DEF ClosingCounts
    <3> QED BY <1>1, <2>1, <3>1, <3>2, PlansAssumption DEF UseInv, Types
  <2>3. CASE ClosingEnds
    <3>1. \A c \in Calls : ~tx[c].use
      BY <2>3 DEF ClosingEnds, UseInv, Types
    <3> QED BY <1>1, <2>1, <2>3, <3>1, PlansAssumption DEF ClosingEnds, UseInv, Types
  <2> QED BY <2>2, <2>3
<1> QED BY <1>2, <1>3, <1>4, <1>5

LEMMA NextIInv == IInv /\ [Next]_vars => IInv'
<1> SUFFICES ASSUME IInv, [Next]_vars PROVE IInv'
  OBVIOUS
<1>1. ASSUME NEW c \in Calls, Handle(c) PROVE IInv'
  BY <1>1, HandleStep, ApartStep, GrantStep, UseStep, ReferInvStep, WorkInvStep DEF IInv
<1>2. CASE UNCHANGED vars
  <2>1. Types' /\ Control' /\ Apart'
    BY <1>2 DEF IInv, Types, Control, Ctl, Blank, Ungranted, Total, CreditFor, Apart, HasRow,
                HasUser, Collides, SameRef, vars, book, outside
  <2>2. GrantInv'
    BY <1>2 DEF IInv, GrantInv, Granted, Key, Granting, Told, UseBacked, CreditFor, vars, book
  <2>3. UseInv' /\ ReferInv' /\ WorkInv'
    BY <1>2 DEF IInv, UseInv, Bonuses, ReferInv, WorkInv, vars, book
  <2> QED BY <2>1, <2>2, <2>3 DEF IInv
<1> QED BY <1>1, <1>2, ClosingStep DEF Next, Done

\* Of every open call what its transaction holds, and of every two what keeps
\* them apart: the inductive invariant of Onboarding.
THEOREM Invariance == Spec => []IInv
BY InitIInv, NextIInv, PTL DEF Spec

\* The variables keep their types, and a call that was answered holds nothing.
THEOREM TypeCorrect == Spec => []TypeOK
BY Invariance, InvGivesProperties, PTL

\* A repeated call, at whatever moment it comes, does not make a second client.
THEOREM OneClient == Spec => []OneClientPerReference
BY Invariance, InvGivesProperties, PTL

\* The promotion keeps its limit but for a closing that counts late, and each of
\* its uses is a credit that names it or a closing's.
THEOREM UsesAccounted == Spec => []PromotionCounted
BY Invariance, InvGivesProperties, PTL

\* What a call was answered is what was committed for it.
THEOREM AnswersAreTrue == Spec => []ToldIsTrue
BY Invariance, InvGivesProperties, PTL

\* A call waits only for calls at a later statement, so there is always one that
\* can go on.
THEOREM NoCircleOfWaits == Spec => []WaitsInOrder
BY Invariance, InvGivesProperties, PTL

-----------------------------------------------------------------------------
(***************************************************************************)
(* The refinement of Enrolment: the commit of a call is one Enrol, its     *)
(* rollback one Fail, and the statements before are not seen.              *)
(***************************************************************************)
Ended == {c \in Calls : pc[c] = "done"}

LEMMA InitEnrolment == Init => Enrolments!Init
BY DEF Init, Enrolments!Init

LEMMA StatementEnrols ==
  ASSUME NEW c \in Calls, Alone(c), pc[c] # "done", pc'[c] # "done", UNCHANGED book,
         overlap' = overlap \/ overlap' = TRUE
  PROVE  Enrolments!Cross \/ UNCHANGED Enrolments!evars
<1>1. Ended' = Ended
  BY DEF Ended, Alone
<1> QED BY <1>1 DEF Enrolments!Cross, Enrolments!evars, book, Ended

LEMMA EndEnrols ==
  ASSUME Types, NEW c \in Calls, pc[c] # "done", pc' = [pc EXCEPT ![c] = "done"]
  PROVE  Enrolments!End(c)
<1>1. Ended' = Ended \cup {c} /\ c \notin Ended
  BY DEF Ended, Types
<1> QED BY <1>1 DEF Enrolments!End, Ended

LEMMA RollbackEnrols ==
  ASSUME Types, NEW c \in Calls, NEW s, pc[c] # "done", Rollback(c, s), overlap' = overlap
  PROVE  Enrolments!Fail(c)
BY EndEnrols DEF Rollback, Enrolments!Fail, book

\* The commit: what the transaction holds is what Enrolment lets it enter.
LEMMA CommitEnrols ==
  ASSUME IInv, NEW c \in Calls, Reply(c), ~tx[c].broken
  PROVE  Enrolments!Enrol(c)
<1> USE DEF IInv
<1> DEFINE x == of[c]
           new == <<x, PlanOf[c], tx[c].credit, tx[c].use>>
<1>1. /\ pc[c] = "reply" /\ pc' = [pc EXCEPT ![c] = "done"] /\ overlap' = overlap
      /\ clients' = IF tx[c].client THEN clients \cup {c} ELSE clients
      /\ grants' = IF tx[c].credit > 0 THEN grants \cup {new} ELSE grants
      /\ uses' = IF tx[c].use THEN uses + 1 ELSE uses
      /\ redeemed' = redeemed
      /\ referrer' = IF tx[c].referrer # NoReferrer
                       THEN [referrer EXCEPT ![x] = tx[c].referrer] ELSE referrer
  BY DEF Reply
<1>2. Ctl(c) /\ c \notin clients /\ clients \subseteq Calls
  BY <1>1 DEF Types, Control, Ctl
<1>3. x \in Calls /\ Enrolments!WorksFor(c, x)
  <2>1. CASE tx[c].client
    <3>1. x = c /\ tx[c].user /\ HasRow(c) /\ HasUser(c)
      BY <1>1, <1>2, <2>1 DEF Ctl, HasRow, HasUser
    <3>2. \A d \in clients : ~SameRef(c, d) /\ EmailOf[d] # EmailOf[c]
      BY <1>2, <3>1 DEF Apart, HasRow, HasUser, Collides
    <3> QED BY <1>1, <2>1, <3>1, <3>2
            DEF Enrolments!WorksFor, Enrolments!SameReference, SameRef
  <2>2. CASE ~tx[c].client
    <3>1. x \in clients
      BY <1>1, <1>2, <2>2 DEF Ctl
    <3>2. SameRef(c, x)
      BY <1>2, <3>1, CallsAssumption DEF WorkInv
    <3> QED BY <1>1, <1>2, <2>2, <3>1, <3>2
            DEF Enrolments!WorksFor, Enrolments!SameReference, SameRef
  <2> QED BY <2>1, <2>2
<1>4. Enrolments!Grants(c, x)
  <2> DEFINE paid == tx[c].credit > 0
             counted == tx[c].use
  <2>1. paid \in BOOLEAN /\ counted \in BOOLEAN
    BY DEF Types, TxStates
  <2>2. paid => /\ PlanOf[c] \in Plans
                /\ \A g \in grants : <<g[1], g[2]>> # <<x, PlanOf[c]>>
    BY <1>2 DEF Ctl, GrantInv, Granted, Key
  <2>3. counted => uses < MaxUses /\ (paid \/ overlap)
    BY <1>1 DEF UseInv, GrantInv, UseBacked
  <2>4. paid => tx[c].credit = CreditOf[PlanOf[c]] + IF counted THEN BonusOf[PlanOf[c]] ELSE 0
    BY <1>2, <2>2, TotalType DEF Ctl
  <2>5. grants' = IF ~paid THEN grants
                  ELSE grants \cup {<<x, PlanOf[c], CreditOf[PlanOf[c]] +
                                        IF counted THEN BonusOf[PlanOf[c]] ELSE 0, counted>>}
    BY <1>1, <2>4
  <2>6. uses' = IF counted THEN uses + 1 ELSE uses
    BY <1>1
  <2> HIDE DEF paid, counted
  <2> QED BY <2>1, <2>2, <2>3, <2>5, <2>6 DEF Enrolments!Grants
<1>5. referrer' \in {referrer, [referrer EXCEPT ![x] = ReferrerOf[c]]}
  BY <1>1 DEF WorkInv
<1>6. Enrolments!End(c)
  BY <1>1, EndEnrols
<1> HIDE DEF x
<1> QED BY <1>1, <1>3, <1>4, <1>5, <1>6 DEF Enrolments!Enrol

LEMMA NextEnrolment == IInv /\ [Next]_vars => [Enrolments!Next]_(Enrolments!evars)
<1> SUFFICES ASSUME IInv, [Next]_vars
             PROVE  Enrolments!Next \/ UNCHANGED Enrolments!evars
  OBVIOUS
<1> USE DEF IInv
<1>1. ASSUME NEW c \in Calls, Handle(c)
      PROVE  Enrolments!Next \/ UNCHANGED Enrolments!evars
  <2>1. Alone(c)
    BY <1>1, HandleStep
  <2>2. CASE Reply(c)
    <3>1. CASE ~tx[c].broken
      BY <2>2, <3>1, CommitEnrols DEF Enrolments!Next
    <3>2. CASE tx[c].broken
      <4>1. /\ pc[c] = "reply" /\ pc' = [pc EXCEPT ![c] = "done"]
            /\ UNCHANGED <<book, overlap>>
        BY <2>2, <3>2 DEF Reply
      <4> QED BY <4>1, EndEnrols DEF Enrolments!Fail, Enrolments!Next, book
    <3> QED BY <3>1, <3>2
  <2>3. CASE \E s : Rollback(c, s) /\ overlap' = overlap /\ pc[c] # "done"
    BY <2>3, RollbackEnrols DEF Enrolments!Next
  <2>4. CASE /\ pc[c] # "done" /\ pc'[c] # "done" /\ UNCHANGED book
             /\ overlap' = overlap \/ overlap' = TRUE
    BY <2>1, <2>4, StatementEnrols DEF Enrolments!Next
  <2>5. CASE Replay(c) \/ InsertClient(c) \/ Provision(c)
    BY <2>3, <2>4, <2>5 DEF Replay, InsertClient, Provision, Step, Returned, Types
  <2>6. CASE SendMail(c) \/ CountUse(c) \/ Credit(c) \/ Refer(c)
    BY <2>4, <2>6 DEF SendMail, CountUse, Credit, Refer, Step, Returned, Types
  <2>7. CASE ReadGrant(c)
    <3>1. overlap' = overlap \/ overlap' = TRUE
      BY <2>7 DEF ReadGrant, Types
    <3> QED BY <2>4, <2>7, <3>1 DEF ReadGrant, Step, Types
  <2>8. CASE Fail(c)
    BY <2>3, <2>8 DEF Fail, Control, Ctl
  <2> QED BY <1>1, <2>2, <2>5, <2>6, <2>7, <2>8 DEF Handle
<1>2. CASE ClosingCounts
  BY <1>2 DEF ClosingCounts, Enrolments!evars
<1>3. CASE ClosingEnds
  <2>1. CASE UNCHANGED <<uses, redeemed>>
    BY <1>3, <2>1 DEF ClosingEnds, Enrolments!evars
  <2>2. CASE uses' = uses + raised /\ redeemed' = redeemed + raised
    <3>1. redeemed' > redeemed /\ uses' - uses = redeemed' - redeemed
      BY <1>3, <2>2 DEF ClosingEnds, Types
    <3> QED BY <1>3, <3>1 DEF ClosingEnds, Enrolments!Redeem, Enrolments!Next
  <2> QED BY <1>3, <2>1, <2>2 DEF ClosingEnds
<1>4. CASE UNCHANGED vars
  BY <1>4 DEF vars, book, Enrolments!evars
<1> QED BY <1>1, <1>2, <1>3, <1>4 DEF Next, Done

\* However calls overlap, are repeated or fail, each is one enrolment or none.
THEOREM Refinement == Spec => ImplementsEnrolment
<1>1. Spec => Enrolments!Spec
  BY InitEnrolment, NextEnrolment, Invariance, PTL DEF Spec, Enrolments!Spec
<1> QED BY <1>1 DEF ImplementsEnrolment
=============================================================================
