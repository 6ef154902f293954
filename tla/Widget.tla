------------------------------- MODULE Widget -------------------------------
(***************************************************************************)
(* The checkout page of one buyer and one order: the payment widget        *)
(* (frontend/src/TonhubPaymentWidget.tsx), the invoice reference it keeps  *)
(* in the browser (invoice-resume.ts), and the page that embeds it as      *)
(* README.md asks for: it saves the invoice that onInvoiceChange reports   *)
(* and passes it back as initialInvoiceId.                                 *)
(*                                                                         *)
(* Every request is answered by the server from what it has when it gets   *)
(* there, and presented when the answer arrives: the answers to            *)
(* overlapping requests come in any order, and late ones when the page has *)
(* moved on.  The page may be closed and loaded again at any time.         *)
(***************************************************************************)
EXTENDS Integers, FiniteSets

CONSTANTS
  Invoices,    \* the invoices that may be created
  None,        \* no invoice
  MaxCalls,    \* bound on the requests in progress
  MaxLoads,    \* bound on how often the page is loaded again
  MaxFaults    \* bound on requests without an invoice in the answer

VARIABLES
  server,    \* server[i]: the status of the invoice in the payment service
  stored,    \* localStorage: the id under resumeStorageKey
  host,      \* the invoice last reported to the embedding page
  uses,      \* whether the page passes initialInvoiceId and resumeStorageKey
  page,      \* CONFIG, RESTORING, BLOCKED or READY
  invoice,   \* the invoice presented
  notified,  \* lastNotifiedInvoiceRef
  calls,     \* the requests in progress: resume, create, check (a poll) or press
             \* ("Check payment"), the invoice and the answer
  paid,      \* the invoices onPaid was called with on this page
  open,      \* the invoices this buyer was last shown as payable
  stray,     \* an answer was presented that belongs to an invoice no longer presented
  loads, faults

browser == <<stored, host, invoice, notified, open, stray>>
vars    == <<server, uses, page, calls, paid, browser, loads, faults>>

ASSUME WidgetAssumption ==
  /\ IsFiniteSet(Invoices) /\ None \notin Invoices
  /\ {MaxCalls, MaxLoads, MaxFaults} \subseteq Nat

Payable   == {"PENDING", "PARTIAL"}
Statuses  == Payable \cup {"PAID", "EXPIRED"}
NoInvoice == [id |-> None, status |-> "ABSENT"]

\* The browser may have a reference that the service does not know.
Init ==
  /\ uses \in [link: BOOLEAN, storage: BOOLEAN]
  /\ uses.link \/ uses.storage
  /\ stored \in IF uses.storage THEN Invoices \cup {None} ELSE {None}
  /\ server = [i \in Invoices |-> IF i = stored THEN "GONE" ELSE "ABSENT"]
  /\ host = NoInvoice
  /\ page = "CONFIG" /\ invoice = NoInvoice /\ notified = NoInvoice
  /\ calls = {} /\ paid = {}
  /\ open = {}
  /\ stray = FALSE /\ loads = 0 /\ faults = 0
-----------------------------------------------------------------------------
(* Presenting an invoice.                                                   *)

Save(id) == IF uses.storage /\ id # invoice.id THEN id ELSE stored

Present(new) ==
  /\ invoice' = new
  /\ stored' = Save(new.id)
  /\ notified' = new
  /\ host' = IF notified = new THEN host ELSE new   \* onInvoiceChange
  /\ open' = IF new.status \in Payable THEN open \cup {new.id} ELSE open \ {new.id}
  /\ paid' = IF new.status = "PAID" THEN paid \cup {new.id} ELSE paid

Busy == \E c \in calls : c.op \in {"create", "press"}

CheckoutLockedLoosely == Busy \/ page = "CONFIG" \/ invoice # NoInvoice
CheckoutLocked == Busy \/ page # "READY" \/ invoice # NoInvoice

Ask(op, id) ==
  /\ Cardinality(calls) < MaxCalls
  /\ calls' = calls \cup {[op |-> op, id |-> id, answer |-> "ASKED"]}

Fault == faults < MaxFaults /\ faults' = faults + 1
-----------------------------------------------------------------------------
(* Loading and restoring.                                                   *)

\* The invoice that initialInvoiceId names comes before the stored one.
Linked == uses.link /\ host.id # None
Target == IF Linked THEN host.id ELSE stored

ConfigLoaded ==
  /\ page = "CONFIG"
  /\ IF Target = None
       THEN page' = "READY" /\ UNCHANGED calls
       ELSE page' = "RESTORING" /\ Ask("resume", Target)
  /\ UNCHANGED <<server, uses, paid, browser, loads, faults>>

Restored(c) ==
  /\ c.op = "resume"
  /\ \/ /\ c.answer \in Statuses
        /\ Present([id |-> c.id, status |-> c.answer])
        /\ page' = "READY"
     \/ /\ c.answer = "ABSENT" /\ ~Linked
        /\ stored' = None
        /\ page' = "READY"
        /\ UNCHANGED <<host, invoice, notified, open, paid>>
     \/ /\ c.answer = "ERROR" \/ (c.answer = "ABSENT" /\ Linked)
        /\ page' = "BLOCKED"
        /\ UNCHANGED <<stored, host, invoice, notified, open, paid>>
  /\ calls' = calls \ {c}
  /\ UNCHANGED <<server, uses, stray, loads, faults>>

\* "Retry saved payment".
Retry ==
  /\ page = "BLOCKED" /\ page' = "RESTORING"
  /\ Ask("resume", Target)
  /\ UNCHANGED <<server, uses, paid, browser, loads, faults>>

\* The page is loaded again, perhaps in another browser, which has only the
\* link.
Load ==
  /\ loads < MaxLoads /\ loads' = loads + 1
  /\ page' = "CONFIG" /\ calls' = {} /\ paid' = {}
  /\ invoice' = NoInvoice /\ notified' = NoInvoice
  /\ stored' \in IF uses.link THEN {stored, None} ELSE {stored}
  /\ UNCHANGED <<server, uses, host, open, stray, faults>>
-----------------------------------------------------------------------------
(* The buttons and the poll.                                                *)

Create ==
  /\ ~CheckoutLocked
  /\ Ask("create", None)
  /\ UNCHANGED <<server, uses, page, paid, browser, loads, faults>>

Created(c) ==
  /\ c.op = "create"
  /\ \/ /\ c.id # None
        /\ Present([id |-> c.id, status |-> c.answer]) /\ UNCHANGED stray
     \/ c.answer = "ERROR" /\ UNCHANGED <<browser, paid>>
  /\ calls' = calls \ {c}
  /\ UNCHANGED <<server, uses, page, loads, faults>>

PollsPending == invoice.status = "PENDING"
Polls == invoice.status \in Payable

Poll ==
  /\ Polls
  /\ Ask("check", invoice.id)
  /\ UNCHANGED <<server, uses, page, paid, browser, loads, faults>>

CheckPayment ==
  /\ invoice.status \in Payable /\ ~Busy
  /\ Ask("press", invoice.id)
  /\ UNCHANGED <<server, uses, page, paid, browser, loads, faults>>

\* checkInvoice presents whatever invoice the answer has.
Checked(c) ==
  /\ c.op \in {"check", "press"}
  /\ \/ /\ c.answer \in Statuses
        /\ Present([id |-> c.id, status |-> c.answer])
        /\ stray' = (stray \/ c.id # invoice.id)
     \/ c.answer = "ERROR" /\ UNCHANGED <<browser, paid>>
  /\ calls' = calls \ {c}
  /\ UNCHANGED <<server, uses, page, loads, faults>>

ResetKeepsFingerprint ==
  /\ invoice.status \in {"PAID", "EXPIRED"}
  /\ invoice' = NoInvoice /\ stored' = None /\ host' = NoInvoice
  /\ UNCHANGED <<server, uses, page, calls, paid, notified, open, stray, loads, faults>>

\* "Create another invoice".
ResetInvoice ==
  /\ invoice.status \in {"PAID", "EXPIRED"}
  /\ invoice' = NoInvoice /\ notified' = NoInvoice
  /\ stored' = None /\ host' = NoInvoice
  /\ UNCHANGED <<server, uses, page, calls, paid, open, stray, loads, faults>>
-----------------------------------------------------------------------------
(* The payment service, the network and the blockchain.                     *)

\* What becomes of an attempt: transfers arrive, or the payment window ends.  A transfer
\* that was made in time, but found after the end, revives the attempt.
Later(status) ==
  CASE status = "ABSENT"   -> {"PENDING"}
    [] status = "PENDING"  -> Statuses
    [] status \in {"PARTIAL", "EXPIRED"} -> Statuses \ {"PENDING"}
    [] OTHER               -> {status}

Settle(i) ==
  /\ server[i] \in Statuses
  /\ \E s \in Later(server[i]) \ {server[i]} : server' = [server EXCEPT ![i] = s]
  /\ UNCHANGED <<uses, page, calls, paid, browser, loads, faults>>

Answered(c, answer) == (calls \ {c}) \cup {[c EXCEPT !.answer = answer]}

ServeResume(c) ==
  /\ c.op = "resume" /\ c.answer = "ASKED"
  /\ calls' = Answered(c, IF server[c.id] = "GONE" THEN "ABSENT" ELSE server[c.id])
  /\ UNCHANGED <<server, uses, page, paid, browser, loads, faults>>

ServeCheck(c) ==
  /\ c.op \in {"check", "press"} /\ c.answer = "ASKED"
  /\ calls' = Answered(c, server[c.id])
  /\ UNCHANGED <<server, uses, page, paid, browser, loads, faults>>

\* The service reuses an attempt of the order (externalId), which it settles
\* first, or makes a new one.
ServeCreate(c) ==
  /\ c.op = "create" /\ c.answer = "ASKED"
  /\ \E i \in Invoices :
       /\ server[i] \in Payable \cup {"PAID", "ABSENT"}
       /\ \E s \in Later(server[i]) : server' = [server EXCEPT ![i] = s]
       /\ calls' = Answered([c EXCEPT !.id = i], server'[i]) \ {c}
  /\ UNCHANGED <<uses, page, paid, browser, loads, faults>>

Refuse(c) ==
  /\ c.answer = "ASKED" /\ Fault
  /\ calls' = Answered(c, "ERROR")
  /\ UNCHANGED <<server, uses, page, paid, browser, loads>>

\* The answer is lost on its way back.
Lose(c) ==
  /\ c.answer \notin {"ASKED", "ERROR"} /\ Fault
  /\ calls' = (calls \ {c}) \cup {[c EXCEPT !.id = IF c.op = "create" THEN None ELSE @,
                                            !.answer = "ERROR"]}
  /\ UNCHANGED <<server, uses, page, paid, browser, loads>>
-----------------------------------------------------------------------------
Serve  == \E c \in calls : ServeResume(c) \/ ServeCheck(c) \/ ServeCreate(c)
Answer == \E c \in calls : Restored(c) \/ Created(c) \/ Checked(c)

Next ==
  \/ ConfigLoaded \/ Retry \/ Load \/ Create \/ Poll \/ CheckPayment \/ ResetInvoice
  \/ Answer
  \/ Serve
  \/ \E c \in calls : Refuse(c) \/ Lose(c)
  \/ \E i \in Invoices : Settle(i)

Spec == Init /\ [][Next]_vars

\* The poll's timer goes off, and requests are answered: MaxFaults of them by an
\* error.
FairSpec ==
  /\ Spec
  /\ WF_vars(Poll) /\ WF_vars(Serve) /\ WF_vars(Answer)
-----------------------------------------------------------------------------
(* Properties.                                                              *)

\* What the browser remembers, and what the embedding page was told, is the
\* invoice presented: closing the page at any moment loses nothing.
ShownIsKnown ==
  /\ page = "READY" /\ uses.storage => stored = invoice.id
  /\ invoice # NoInvoice => host = invoice

\* A new payment is only asked for when the buyer was last told, of every invoice
\* shown on this page or before, that it is over: a restore that is under way or has
\* failed keeps the form locked.
CreatesWhenDone ==
  [][(\E c \in calls' \ calls : c.op = "create") /\ ~stray => open = {}]_vars

\* Once an invoice the page presents is paid, onPaid is called, in whatever order
\* answers arrive, unless the page has moved on or tells the buyer that it is over.
PaidIsAnnounced ==
  \A i \in Invoices :
    (server[i] = "PAID" /\ invoice.id = i)
      ~> (i \in paid \/ invoice.id # i \/ invoice.status = "EXPIRED")
=============================================================================
