---------------------------- MODULE LedgerHistory ----------------------------
(***************************************************************************)
(* The past of the billing ledger, as the as-of views and the financial    *)
(* reports tell it.  A writer begins (the clock ticks) and later executes  *)
(* one command of BillingLedger; the rows it posts are stamped with its    *)
(* beginning.                                                              *)
(***************************************************************************)
EXTENDS BillingLedger, Timeline

CONSTANTS
    Commands,  \* the commands the writers run, some of Requests
    DueDate,   \* of each invoice
    Branch     \* of each invoice, through its enrollment's class or the one
               \* all its items share; Unassigned otherwise

ASSUME HistoryAssumption == Commands \subseteq Requests

VARIABLES
    stamp,     \* created_at, issued_at or effective_at of the posted rows
    received   \* payments.received_at, 0 for no payment

history == <<timeline, stamp, received>>
historyVars == <<ledger, history>>

\* The rows that carry an instant: invoice_status_history, payment_allocations,
\* refunds with their allocations, payment_reversals, credit_notes issued and
\* credit_note_voids.
Posted ==
    ({"ISSUED"} \X {i \in Invoices : invoice[i].status # "DRAFT"})
    \cup ({"VOID"} \X {i \in Invoices : invoice[i].status = "VOID"})
    \cup {x \in {"ALLOCATION"} \X Payments \X Invoices : alloc[x[2]][x[3]].amount > 0}
    \cup {x \in {"REFUND"} \X Payments \X Keys : refund[x[2]][x[3]].amount > 0}
    \cup ({"REVERSAL"} \X {p \in Payments : Reversed(p)})
    \cup ({"NOTE"} \X {n \in Notes : note[n].status = "ISSUED"})
    \cup ({"NOTE_VOID"} \X {n \in Notes : noteVoid[n] # NoKey})

HistoryInit ==
    /\ LedgerInit
    /\ TimelineInit
    /\ stamp = <<>>
    /\ received = [p \in Payments |-> 0]

StampRows(c) ==
    stamp' = [x \in Posted' |-> IF x \in DOMAIN stamp THEN stamp[x] ELSE began[c]]

\* received_at is the caller's, now unless it is given; bound: the first instant or now.
ReceiptDates == {1, clock}

Executes(c) ==
    /\ Ends(c)
    /\ \E r \in Commands : Execute(r)
    /\ StampRows(c)
    /\ \E t \in ReceiptDates :
          received' = [p \in Payments |->
              IF payment'[p] = payment[p] THEN received[p] ELSE t]

HistoryNext ==
    \E c \in Writers :
        \/ Begins(c) /\ UNCHANGED <<ledger, stamp, received>>
        \/ Executes(c)
        \/ Ends(c) /\ UNCHANGED <<ledger, stamp, received>>

-----------------------------------------------------------------------------
(* The views as of an instant; a report's are as of the end of its last day. *)

AmountOf(rows, S) == Sum([x \in S |-> rows[x].amount], S)

Seen(x, t) == x \in DOMAIN stamp /\ stamp[x] <= t

\* Fault: whether a payment is reversed is not asked of the instant.
ReversedEver(p, t) == Reversed(p)

ReversedAt(p, t) == Seen(<<"REVERSAL", p>>, t)

\* Fault: the refunds of a reversed payment are still taken off.
RefundsOfAll(i, t) ==
    LET seen == {x \in Payments \X Keys : Seen(<<"REFUND", x[1], x[2]>>, t)}
    IN  Sum([x \in seen |-> refund[x[1]][x[2]].parts[i]], seen)

\* historical_refunds.
RefundsAt(i, t) ==
    LET seen == {x \in Payments \X Keys :
                    Seen(<<"REFUND", x[1], x[2]>>, t) /\ ~ReversedAt(x[1], t)}
    IN  Sum([x \in seen |-> refund[x[1]][x[2]].parts[i]], seen)

\* historical_gross_paid, and historical_paid: refunds alone make no row.
PaidAt(i, t) ==
    LET paying == {p \in Payments :
                    Seen(<<"ALLOCATION", p, i>>, t) /\ ~ReversedAt(p, t)}
    IN  IF paying = {} THEN 0
        ELSE Sum([p \in paying |-> alloc[p][i].amount], paying) - RefundsAt(i, t)

\* Fault: a voided note is gone from every view.
NotesInForce(t) == {n \in Notes : Seen(<<"NOTE", n>>, t) /\ noteVoid[n] = NoKey}

NotesAt(t) == {n \in Notes : Seen(<<"NOTE", n>>, t) /\ ~Seen(<<"NOTE_VOID", n>>, t)}

CreditAt(i, t) == AmountOf(note, {n \in NotesAt(t) : note[n].invoice = i})

\* historical_status: the latest row at or before t.
StatusAt(i, t) ==
    LET seen == {s \in {"ISSUED", "VOID"} : Seen(<<s, i>>, t)}
        latest == {s \in seen : \A u \in seen : stamp[<<u, i>>] <= stamp[<<s, i>>]}
    IN  IF seen = {} THEN "DRAFT" ELSE CHOOSE s \in latest : TRUE

OutstandingAt(i, t) == Total[i] - CreditAt(i, t) - PaidAt(i, t)

-----------------------------------------------------------------------------
(* The financial summary of a period, in total and by month.  Bound: a day  *)
(* is a month.                                                              *)

Within(x, from, to) == x \in DOMAIN stamp /\ Covers(from, to, stamp[x])

\* Issued in the period from .. to and not void at the end of the report.
Billed(from, to, end) ==
    {i \in Invoices : Within(<<"ISSUED", i>>, from, to) /\ StatusAt(i, end) # "VOID"}

Noted(from, to, end) == {n \in NotesAt(end) : Within(<<"NOTE", n>>, from, to)}

Collecting(from, to, end) ==
    {p \in Payments : received[p] > 0 /\ Covers(from, to, received[p]) /\ ~ReversedAt(p, end)}

RefundedIn(from, to, end) ==
    {x \in Payments \X Keys : Within(<<"REFUND", x[1], x[2]>>, from, to) /\ ~ReversedAt(x[1], end)}

GrossBilled(from, to, end) == Sum(Total, Billed(from, to, end))
CreditNotes(from, to, end) == AmountOf(note, Noted(from, to, end))
Collected(from, to, end) == AmountOf(payment, Collecting(from, to, end))
RefundsPaid(from, to, end) ==
    LET given == RefundedIn(from, to, end)
    IN  Sum([x \in given |-> refund[x[1]][x[2]].amount], given)

\* The invoices still to be paid at the end of day t.
Receivables(t) == {i \in Invoices : StatusAt(i, t) = "ISSUED" /\ OutstandingAt(i, t) > 0}

Owed(is, t) == Sum([i \in is |-> OutstandingAt(i, t)], is)

Summary(from, to) ==
    <<GrossBilled(from, to, to), CreditNotes(from, to, to), RefundsPaid(from, to, to), Owed(Receivables(to), to)>>

ByMonth(from, to) ==
    [month \in from .. to |->
        <<GrossBilled(month, month, to), CreditNotes(month, month, to), RefundsPaid(month, month, to)>>]

-----------------------------------------------------------------------------
(* Receivables by age, payments, and the money of the branches *)

\* Bound: one bucket of overdue invoices.
Bucket(i, to) == IF DueDate[i] < to THEN "OVERDUE" ELSE "CURRENT"

Aging(bucket, to) == Owed({i \in Receivables(to) : Bucket(i, to) = bucket}, to)

AllocatedAt(p, t) == AmountOf(alloc[p], {i \in Invoices : Seen(<<"ALLOCATION", p, i>>, t)})

PaidBackAt(p, t) == {k \in Keys : Seen(<<"REFUND", p, k>>, t)}

\* A row of the payments report: allocated and not refunded, refunded, status.
PaymentLine(p, t) ==
    [allocated |-> AllocatedAt(p, t) - Sum([k \in PaidBackAt(p, t) |-> Sum(refund[p][k].parts, Invoices)], PaidBackAt(p, t)),
     refunded  |-> AmountOf(refund[p], PaidBackAt(p, t)),
     reversed  |-> ReversedAt(p, t)]

\* "effectiveVnd", where a reversed payment counts for nothing.
Effective(from, to) ==
    LET listed == {p \in Payments : received[p] > 0 /\ Covers(from, to, received[p])}
    IN  Sum([p \in listed |-> IF PaymentLine(p, to).reversed THEN 0 ELSE payment[p].amount], listed)

BranchBilled(b, from, to) == Sum(Total, {i \in Billed(from, to, to) : Branch[i] = b})

BranchOwed(b, to) == Owed({i \in Receivables(to) : Branch[i] = b}, to)

-----------------------------------------------------------------------------
(* Properties *)

\* The as-of projection taken now and the projection the commands decide by
\* (ledgerPaidSql, ledgerCreditSql) are two texts for the same amounts: no
\* order of payments, refunds, reversals, notes and voids tells them apart.
PresentIsCurrent ==
    \A i \in Invoices : PaidAt(i, clock) = Paid(i) /\ CreditAt(i, clock) = Credit(i)

\* "later reversals, refunds, voids, or status changes never corrupt an earlier
\* as-of view", once that instant is settled.
PastStands ==
    [][\A t \in Instants : Settled(t) =>
         \A i \in Invoices : /\ StatusAt(i, t)' = StatusAt(i, t)
                             /\ PaidAt(i, t)' = PaidAt(i, t)
                             /\ CreditAt(i, t)' = CreditAt(i, t)]_historyVars

\* "A reversal after the cutoff does not rewrite the earlier report", nor does
\* any other command, in the summary, its months, the receivables, or the rows
\* of the payments, except that a payment may be dated back into a period.
ReportsStand ==
    [][\A to \in {t \in Instants : Settled(t)} :
            /\ ByMonth(1, to)' = ByMonth(1, to)
            /\ \A p \in Payments : received[p] > 0 => PaymentLine(p, to)' = PaymentLine(p, to)
            /\ \A from \in 1 .. to :
                  /\ Summary(from, to)' = Summary(from, to)
                  /\ payment' = payment => Effective(from, to)' = Effective(from, to)]_historyVars

\* The reports of one period tell the same amounts: the months add up to the
\* summary, the buckets and the branches to what is outstanding, the branches to
\* what was billed, and the payments to what was collected.
ReportsAgree ==
    \A from \in 1 .. clock :
        LET months == ByMonth(from, clock)
            ofMonths(n) == Sum([m \in DOMAIN months |-> months[m][n]], DOMAIN months)
            branches == {Branch[i] : i \in Invoices}
            owed == Owed(Receivables(clock), clock)
        IN  /\ GrossBilled(from, clock, clock) = ofMonths(1)
            /\ CreditNotes(from, clock, clock) = ofMonths(2)
            /\ RefundsPaid(from, clock, clock) = ofMonths(3)
            /\ Collected(from, clock, clock) = Effective(from, clock)
            /\ GrossBilled(from, clock, clock) =
                   Sum([b \in branches |-> BranchBilled(b, from, clock)], branches)
            /\ owed = Aging("CURRENT", clock) + Aging("OVERDUE", clock)
            /\ owed = Sum([b \in branches |-> BranchOwed(b, clock)], branches)

\* "VOID is terminal for the document": a void invoice reads as void.
VoidIsTerminal ==
    \A i \in Invoices : invoice[i].status = "VOID" => StatusAt(i, clock) = "VOID"

=============================================================================
