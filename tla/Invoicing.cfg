\* Stamping and reminders: overlapping runs of the worker, lost answers,
\* deaths of the processes and late reports of the PAC.
SPECIFICATION Spec
CONSTANTS
  Invoices <- MCInvoices
  Refused <- MCRefused
  MaxPerRun = 2
  MaxMails = 1
  Runs = {r1, r2}
  MaxFaults = 1
INVARIANTS
  TypeOK
  OneCfdiUnlessOverlapping
  StampedHasFiles
  NoticesMatchMails
PROPERTIES
  EveryInvoiceStamped
  StampedForGood
