------------------------------ MODULE Invoicing ------------------------------
(***************************************************************************)
(* Life of an invoice after the monthly closing: the worker invoice_retry  *)
(* (cron, every few minutes) asks the PAC for the CFDI of each unstamped   *)
(* invoice, the PAC reports what it did to the webhook /webhooks/pac, and  *)
(* the worker overdue_notifier (cron, every 6 hours) mails a reminder of   *)
(* each stamped invoice and records it in audit_log.                       *)
(*                                                                         *)
(* cron starts a run although the one before may still be working, so two  *)
(* runs of invoice_retry can overlap.  The PAC is external: a POST that    *)
(* times out may still have issued a CFDI.  Nothing in the code turns a    *)
(* 'stamped' invoice into a 'paid' one, and all invoices are taken to be   *)
(* more than 15 days old.                                                  *)
(***************************************************************************)
EXTENDS Integers, Sequences, FiniteSets, FiniteSetsExt

CONSTANTS
  Invoices,   \* ids, in the order of created_at
  Refused,    \* those whose data the PAC never accepts
  MaxPerRun,  \* MAX_PER_RUN of invoice_retry
  MaxMails,   \* LIMIT of overdue_notifier
  Runs,       \* runs of invoice_retry that may be alive at the same time
  MaxFaults   \* bound: failures in a behaviour

ASSUME InvoicesAssumption ==
  /\ Invoices \subseteq Nat \ {0} /\ IsFiniteSet(Invoices)
  /\ Refused \subseteq Invoices

ASSUME LimitsAssumption ==
  MaxPerRun \in Nat \ {0} /\ MaxMails \in Nat \ {0} /\ MaxFaults \in Nat

VARIABLES
  status,   \* committed invoices.status
  uuid,     \* committed uuid_cfdi, 0 for NULL
  paths,    \* the CFDI that xml_path and pdf_path name, 0 for NULL
  cfdis,    \* the CFDIs at the PAC: uuid -> invoice
  refusals, \* invoices the PAC has refused
  files,    \* uuids whose files are in INVOICES_DIR
  pc, todo, hand, \* of a run: next statement, invoices left, CFDI received
  lost,     \* history: CFDIs whose answer or whose UPDATE was lost
  overlap,  \* history: two runs were stamping one invoice at the same time
  desk,     \* overdue_notifier: next statement, rows left, uncommitted audit
  notified, \* invoices with a committed 'overdue_notified' of the last 7 days
  mails,    \* reminders of each invoice sent in those 7 days
  faults

row == <<status, uuid, paths>>
worker == <<pc, todo, hand>>
pac == <<cfdis, refusals>>
notices == <<desk, notified, mails>>
vars == <<row, worker, pac, files, lost, overlap, notices, faults>>

Unstamped == {i \in Invoices : status[i] \in {"pending_stamp", "failed"}}

DeskIdle == [pc |-> "idle", left |-> {}, audit |-> {}, broken |-> FALSE]

Init ==
  /\ status = [i \in Invoices |-> "pending_stamp"]
  /\ uuid = [i \in Invoices |-> 0] /\ paths = [i \in Invoices |-> 0]
  /\ cfdis = <<>> /\ refusals = {} /\ files = {} /\ lost = {} /\ overlap = FALSE
  /\ pc = [r \in Runs |-> "idle"] /\ todo = [r \in Runs |-> {}]
  /\ hand = [r \in Runs |-> 0]
  /\ desk = DeskIdle /\ notified = {} /\ mails = [i \in Invoices |-> 0]
  /\ faults = 0

Fault ==
  /\ faults < MaxFaults
  /\ faults' = faults + 1

-----------------------------------------------------------------------------
(***************************************************************************)
(* invoice_retry                                                           *)
(***************************************************************************)
Current(r) == Min(todo[r])
Stamping(r) == pc[r] \in {"post", "files", "update"}

Step(r, from, to) ==
  /\ pc[r] = from
  /\ pc' = [pc EXCEPT ![r] = to]

\* Mutant: LIMIT MAX_PER_RUN is off by one.
BatchShort ==
  {i \in Unstamped : Cardinality({j \in Unstamped : j < i}) < MaxPerRun - 1}

\* ORDER BY created_at LIMIT MAX_PER_RUN
Batch == {i \in Unstamped : Cardinality({j \in Unstamped : j < i}) < MaxPerRun}

Start(r) ==
  /\ Batch # {}
  /\ Step(r, "idle", "read")
  /\ todo' = [todo EXCEPT ![r] = Batch]
  /\ UNCHANGED <<row, hand, pac, files, lost, overlap, notices, faults>>

\* The end of the loop's body, whether the transaction was committed or
\* rolled back.
NextInvoice(r) ==
  /\ todo' = [todo EXCEPT ![r] = @ \ {Current(r)}]
  /\ pc' = [pc EXCEPT ![r] = IF todo'[r] = {} THEN "idle" ELSE "read"]
  /\ hand' = [hand EXCEPT ![r] = 0]

\* Mutant: the status read again is not looked at.
ReadAll(r) ==
  /\ Step(r, "read", "post")
  /\ overlap' = (overlap \/ \E q \in Runs \ {r} : Stamping(q) /\ Current(q) = Current(r))
  /\ UNCHANGED <<row, todo, hand, pac, files, lost, notices, faults>>

\* stamp_invoice reads the invoice and returns if it is stamped by now.
Read(r) ==
  /\ pc[r] = "read"
  /\ IF Current(r) \in Unstamped
       THEN /\ Step(r, "read", "post")
            /\ overlap' = (overlap \/ \E q \in Runs \ {r} :
                                         Stamping(q) /\ Current(q) = Current(r))
            /\ UNCHANGED <<todo, hand>>
       ELSE NextInvoice(r) /\ UNCHANGED overlap
  /\ UNCHANGED <<row, pac, files, lost, notices, faults>>

\* What _build_cfdi_payload makes of the invoice passes the PAC's validation.
Acceptable(i) == i \notin Refused

\* The PAC issues the CFDI, and its XML and PDF are downloaded.
Issue(r) ==
  /\ Step(r, "post", "files")
  /\ Acceptable(Current(r))
  /\ cfdis' = Append(cfdis, Current(r))
  /\ hand' = [hand EXCEPT ![r] = Len(cfdis')]
  /\ UNCHANGED <<row, todo, refusals, files, lost, overlap, notices, faults>>

\* The PAC answers the POST with an error.
Refuse(r) ==
  /\ pc[r] = "post"
  /\ IF Acceptable(Current(r)) THEN Fault ELSE UNCHANGED faults
  /\ refusals' = refusals \cup {Current(r)}
  /\ NextInvoice(r)
  /\ UNCHANGED <<row, cfdis, files, lost, overlap, notices>>

\* The CFDI is issued, but the answer to the POST or one of the two downloads
\* fails.
LoseAnswer(r) ==
  /\ pc[r] = "post" /\ Acceptable(Current(r))
  /\ Fault
  /\ cfdis' = Append(cfdis, Current(r))
  /\ lost' = lost \cup {Len(cfdis')}
  /\ NextInvoice(r)
  /\ UNCHANGED <<row, refusals, files, overlap, notices>>

WriteFiles(r) ==
  /\ Step(r, "files", "update")
  /\ files' = files \cup {hand[r]}
  /\ UNCHANGED <<row, todo, hand, pac, lost, overlap, notices, faults>>

\* Mutant: the row is not given the paths of the files.
UpdateNoPaths(r) ==
  /\ pc[r] = "update"
  /\ status' = [status EXCEPT ![Current(r)] = "stamped"]
  /\ uuid' = [uuid EXCEPT ![Current(r)] = hand[r]]
  /\ NextInvoice(r)
  /\ UNCHANGED <<paths, pac, files, lost, overlap, notices, faults>>

\* The UPDATE, which does not look at the status, and its commit.
Update(r) ==
  /\ pc[r] = "update"
  /\ status' = [status EXCEPT ![Current(r)] = "stamped"]
  /\ uuid' = [uuid EXCEPT ![Current(r)] = hand[r]]
  /\ paths' = [paths EXCEPT ![Current(r)] = hand[r]]
  /\ NextInvoice(r)
  /\ UNCHANGED <<pac, files, lost, overlap, notices, faults>>

\* The files or the row cannot be written: rollback, next invoice.
FailStore(r) ==
  /\ pc[r] \in {"files", "update"}
  /\ Fault
  /\ lost' = lost \cup {hand[r]}
  /\ NextInvoice(r)
  /\ UNCHANGED <<row, pac, files, overlap, notices>>

Die(r) ==
  /\ pc[r] # "idle"
  /\ Fault
  /\ lost' = lost \cup ({hand[r]} \ {0})
  /\ pc' = [pc EXCEPT ![r] = "idle"]
  /\ todo' = [todo EXCEPT ![r] = {}]
  /\ hand' = [hand EXCEPT ![r] = 0]
  /\ UNCHANGED <<row, pac, files, overlap, notices>>

-----------------------------------------------------------------------------
(***************************************************************************)
(* The webhook of the PAC                                                  *)
(***************************************************************************)
\* Mutant: the UPDATE does not look at the status.
PacWebhookAny(i, s, u) ==
  /\ status' = [status EXCEPT ![i] = s]
  /\ uuid' = [uuid EXCEPT ![i] = u]
  /\ UNCHANGED <<paths, worker, pac, files, lost, overlap, notices, faults>>

\* UPDATE ... WHERE status = 'pending_stamp'; a 'failed' invoice is not
\* touched.  The audit row is left out.
PacWebhook(i, s, u) ==
  /\ status[i] = "pending_stamp"
  /\ status' = [status EXCEPT ![i] = s]
  /\ uuid' = [uuid EXCEPT ![i] = u]
  /\ UNCHANGED <<paths, worker, pac, files, lost, overlap, notices, faults>>

\* Mutant: the name of the event is stored as the status.
PacReportsRaw ==
  \/ \E u \in DOMAIN cfdis : PacWebhook(cfdis[u], "stamped", u)
  \/ \E i \in refusals : PacWebhook(i, "stamp_failed", uuid[i])

\* The PAC reports, at any time, a CFDI it issued or an invoice it refused.
PacReports ==
  \/ \E u \in DOMAIN cfdis : PacWebhook(cfdis[u], "stamped", u)
  \/ \E i \in refusals : PacWebhook(i, "failed", uuid[i])

-----------------------------------------------------------------------------
(***************************************************************************)
(* overdue_notifier                                                        *)
(***************************************************************************)
\* Mutant: the audit rows of the last days are not looked at.
CandidatesAll == {i \in Invoices : status[i] = "stamped"}

Candidates == {i \in Invoices : status[i] = "stamped"} \ notified

\* The query has no ORDER BY: which rows the LIMIT leaves is not determined.
StartNotices ==
  /\ desk.pc = "idle" /\ Candidates # {}
  /\ \E S \in SUBSET Candidates :
        /\ Cardinality(S) = Min({MaxMails, Cardinality(Candidates)})
        /\ desk' = [DeskIdle EXCEPT !.pc = "mail", !.left = S]
  /\ UNCHANGED <<row, worker, pac, files, lost, overlap, notified, mails, faults>>

\* The mail is sent, then its audit row is written: the error of either is
\* logged, but an error of the INSERT aborts the transaction.
SendMail(i) ==
  /\ desk.pc = "mail" /\ i \in desk.left
  /\ \/ /\ mails' = [mails EXCEPT ![i] = @ + 1]
        /\ \/ /\ desk' = [desk EXCEPT !.left = @ \ {i},
                             !.audit = IF desk.broken THEN @ ELSE @ \cup {i}]
              /\ UNCHANGED faults
           \/ /\ Fault
              /\ desk' = [desk EXCEPT !.left = @ \ {i}, !.broken = TRUE]
     \/ /\ Fault
        /\ desk' = [desk EXCEPT !.left = @ \ {i}]
        /\ UNCHANGED mails
  /\ UNCHANGED <<row, worker, pac, files, lost, overlap, notified>>

\* One COMMIT at the end, which an aborted transaction turns into a ROLLBACK.
CommitNotices ==
  /\ desk.pc = "mail" /\ desk.left = {}
  /\ notified' = IF desk.broken THEN notified ELSE notified \cup desk.audit
  /\ desk' = DeskIdle
  /\ UNCHANGED <<row, worker, pac, files, lost, overlap, mails, faults>>

DieNotices ==
  /\ desk.pc = "mail"
  /\ Fault
  /\ desk' = DeskIdle
  /\ UNCHANGED <<row, worker, pac, files, lost, overlap, notified, mails>>

\* Seven days go by; a run of the notifier is short against them.
WeekPasses ==
  /\ desk.pc = "idle" /\ notified # {}
  /\ notified' = {} /\ mails' = [i \in Invoices |-> 0]
  /\ UNCHANGED <<row, worker, pac, files, lost, overlap, desk, faults>>

-----------------------------------------------------------------------------
\* What a run does when nothing fails.
Work(r) ==
  \/ Start(r) \/ Read(r) \/ Issue(r) \/ WriteFiles(r) \/ Update(r)
  \/ (pc[r] = "post" /\ ~Acceptable(Current(r)) /\ Refuse(r))

Next ==
  \/ \E r \in Runs :
        \/ Start(r) \/ Read(r) \/ Issue(r) \/ Refuse(r) \/ LoseAnswer(r)
        \/ WriteFiles(r) \/ Update(r) \/ FailStore(r) \/ Die(r)
  \/ PacReports
  \/ StartNotices \/ CommitNotices \/ DieNotices \/ WeekPasses
  \/ \E i \in Invoices : SendMail(i)

\* cron starts the worker again and again, and a run goes on until it ends.
Fairness == \A r \in Runs : WF_vars(Work(r))

Spec == Init /\ [][Next]_vars /\ Fairness

\* What a request for the PDF or the XML of an invoice gets: its file, an
\* HTTP error, or the unhandled error of open().
Download(i) ==
  IF status[i] # "stamped" THEN "409"
  ELSE IF paths[i] = 0 THEN "404"
  ELSE IF paths[i] \in files THEN "file" ELSE "500"

-----------------------------------------------------------------------------
Uuids == DOMAIN cfdis

TypeOK ==
  /\ status \in [Invoices -> {"pending_stamp", "failed", "stamped"}]
  /\ uuid \in [Invoices -> Uuids \cup {0}] /\ paths \in [Invoices -> Uuids \cup {0}]
  /\ cfdis \in Seq(Invoices) /\ refusals \subseteq Invoices
  /\ files \subseteq Uuids /\ lost \subseteq Uuids /\ overlap \in BOOLEAN
  /\ pc \in [Runs -> {"idle", "read", "post", "files", "update"}]
  /\ todo \in [Runs -> SUBSET Invoices]
  /\ hand \in [Runs -> Uuids \cup {0}]
  /\ desk \in [pc : {"idle", "mail"}, left : SUBSET Invoices,
               audit : SUBSET Invoices, broken : BOOLEAN]
  /\ notified \subseteq Invoices
  /\ mails \in [Invoices -> Nat]
  /\ faults \in 0..MaxFaults

\* No invoice has two CFDIs at the PAC, which would be two fiscal documents of
\* one sale, but for those whose answer was lost; two runs that stamp the same
\* invoice at the same time are the exception, and stamp_invoice has nothing
\* against them.
OneCfdiUnlessOverlapping ==
  ~overlap => \A u, v \in Uuids \ lost : cfdis[u] = cfdis[v] => u = v

\* A client can download what is stamped: a stamped invoice names the files of
\* its own CFDI, and they are on disk, except while the webhook was faster than
\* the run that holds the answer, or for good when that answer was lost (the
\* invoice is not tried again).
StampedHasFiles ==
  \A i \in Invoices : status[i] = "stamped" =>
    /\ uuid[i] \in Uuids /\ cfdis[uuid[i]] = i
    /\ \/ Download(i) = "file" /\ paths[i] = uuid[i]
       \/ uuid[i] \in lost
       \/ \E r \in Runs : hand[r] = uuid[i]

\* A stamped invoice stays so, and what a client has downloaded it can download
\* again; the CFDI its row names is replaced only when its answer was lost or
\* two runs have met, though the UPDATE of invoice_retry looks at no status.
StampedForGood ==
  [][\A i \in Invoices : status[i] = "stamped" =>
        /\ status'[i] = "stamped"
        /\ Download(i) = "file" => Download(i)' = "file"
        /\ uuid'[i] # uuid[i] => uuid[i] \in lost \/ overlap]_vars

\* In seven days an invoice is mailed once, plus at most once for every
\* failure, and an audit row stands for a mail that was sent.
NoticesMatchMails ==
  \A i \in Invoices :
    /\ mails[i] <= 1 + faults
    /\ i \in notified => mails[i] > 0

\* Every invoice is stamped in the end, however often runs die and answers are
\* lost, if there are fewer than MAX_PER_RUN older ones the PAC never accepts;
\* with as many of those the newer ones would never be tried.
EveryInvoiceStamped ==
  \A i \in Invoices \ Refused :
    Cardinality({j \in Refused : j < i}) < MaxPerRun => <>(status[i] = "stamped")
=============================================================================
