--------------------------- MODULE OrderAttempts ---------------------------
(***************************************************************************)
(* The checkout's operations on the attempts of an order, from             *)
(* backend/src/repository.ts: createPendingInvoice (for an order that      *)
(* already exists), selectInvoicePaymentAsset and markInvoiceExpired.      *)
(*                                                                         *)
(* The first and the last read the order without a lock and write it later *)
(* in the same READ COMMITTED transaction, so each is two actions and the  *)
(* ledger may commit in between.  selectInvoicePaymentAsset re-checks what *)
(* it read in the WHERE clause of its only update, so it is one action.    *)
(***************************************************************************)
EXTENDS PaymentState

ReusableStatuses == {"PENDING", "PARTIAL", "PAID"}

\* A reusable attempt is returned as it is; a settled order cannot be retried.
CheckNewAttempt ==
  /\ checkout = "IDLE"
  /\ \A i \in Invoices : invoices[i].status \notin ReusableStatuses
  /\ order.status \notin {"RECOVERY", "CANCELLED", "FAILED", "PAID"}
  /\ checkout' = "CHECKED"
  /\ UNCHANGED <<world, rows, cursors, overdue, expiry>>

\* The order is reset only if it is still open, and the attempt is inserted
\* in any case.  The index one_active_attempt_per_order aborts the insert when
\* another attempt is active.
CreateAttempt(i, asset) ==
  /\ checkout = "CHECKED"
  /\ invoices[i].status = "ABSENT"
  /\ \A j \in Invoices : ~Active(j)
  /\ order' = IF order.status \in {"PENDING", "EXPIRED"}
              THEN [order EXCEPT !.status = "PENDING", !.credited = 0,
                                 !.overpayment = 0, !.paidAt = NoTime]
              ELSE order
  /\ invoices' = [invoices EXCEPT ![i] = NewInvoice(asset, now)]
  /\ checkout' = "IDLE"
  /\ UNCHANGED <<world, movements, allocations, adjustments, cases, cursors, overdue, expiry>>

\* The caller gets the attempt that won, or the error of the failed insert.
CreateAttemptFails ==
  /\ checkout = "CHECKED"
  /\ \E j \in Invoices : Active(j)
  /\ checkout' = "IDLE"
  /\ UNCHANGED <<world, rows, cursors, overdue, expiry>>

\* selectInvoicePaymentAsset.  The guard of the database also refuses a change
\* once the deposit has a movement, which the first movement's lock implies.
SelectionOpen(i) ==
  /\ invoices[i].status = "PENDING"
  /\ invoices[i].lockedAsset = "NONE"
  /\ invoices[i].firstAt = NoTime
  /\ invoices[i].credited = 0
  /\ now < invoices[i].expiresAt
SelectAsset(i, asset) ==
  /\ SelectionOpen(i)
  /\ invoices' = [invoices EXCEPT ![i].asset = asset]
  /\ UNCHANGED <<world, movements, allocations, adjustments, order, cases, others>>

\* syncOrderFromAttempts, called with nextStatus EXPIRED: the order's credit is
\* recomputed from the attempts, not from the allocations.
FundedAttempts == {i \in Invoices : invoices[i].credited > 0}
AttemptCredit ==
  LET sum == SumFunction([i \in Invoices |-> invoices[i].credited])
  IN  IF sum < Obligation THEN sum ELSE Obligation
ExpiredStatus ==
  IF \/ Cardinality(FundedAttempts) > 1
     \/ AttemptCredit > 0
     \/ order.status \in {"RECOVERY", "CANCELLED", "FAILED"}
  THEN "RECOVERY" ELSE "EXPIRED"

\* The callers expire an attempt once its payment window or price lock passed.
ExpiryDeadline(i) ==
  IF invoices[i].partialExpiresAt # NoTime THEN invoices[i].partialExpiresAt
  ELSE invoices[i].expiresAt

\* A caller has read the attempt, on its own, and calls markInvoiceExpired on the
\* strength of it at any later time.
FindOverdue(i) ==
  /\ Active(i)
  /\ ExpiryDeadline(i) < now
  /\ overdue' = overdue \cup {i}
  /\ UNCHANGED <<world, rows, cursors, checkout, expiry>>

\* The first half re-reads the status, but not the deadline: a credit that has
\* opened a partial window since does not stop it.  It updates the invoice, unseen
\* until the commit, and reads the order and its attempts.
BeginExpiry(i) ==
  /\ expiry = NoExpiry
  /\ Active(i)
  /\ i \in overdue
  /\ expiry' = [invoice |-> i, row |-> invoices[i], credits |-> CreditsOf(allocations, i),
                status |-> ExpiredStatus, credited |-> AttemptCredit, paidAt |-> order.paidAt]
  /\ UNCHANGED <<world, rows, cursors, overdue, checkout>>

\* The second half overwrites the order with what it made of those reads.  Its
\* lock on the invoice row excludes the transactions that write that row.
Undisturbed ==
  /\ invoices[expiry.invoice] = expiry.row
  /\ CreditsOf(allocations, expiry.invoice) = expiry.credits
FinishExpiry ==
  /\ expiry # NoExpiry
  /\ Undisturbed
  /\ invoices' = [invoices EXCEPT ![expiry.invoice].status = "EXPIRED"]
  /\ order' = [order EXCEPT !.status = expiry.status, !.credited = expiry.credited,
                            !.paidAt = expiry.paidAt]
  /\ expiry' = NoExpiry
  /\ UNCHANGED <<world, movements, allocations, adjustments, cases, cursors, overdue, checkout>>

\* It lost to a transaction that wrote the row first, by its version check or
\* as the victim of the deadlock on the order row.
AbortExpiry ==
  /\ expiry # NoExpiry
  /\ ~Undisturbed
  /\ expiry' = NoExpiry
  /\ UNCHANGED <<world, rows, cursors, overdue, checkout>>
=============================================================================
