---------------------------- MODULE BillingLedger ----------------------------
(***************************************************************************)
(* The billing ledger of one tenant, with every command of BillingService  *)
(* that moves money or a document taken as one indivisible step: what the  *)
(* service promises its callers ("concurrent operations must serialize to  *)
(* one valid result").  BillingTransactions takes the same commands apart  *)
(* into the transactions that really run.                                  *)
(*                                                                         *)
(* The variables are tables.  A row that does not exist has amount 0 (the  *)
(* tables CHECK amount_vnd > 0), or status "NONE" for a credit note.       *)
(* A command that is refused, or that finds its idempotency key already    *)
(* used, changes nothing and is a stuttering step.                         *)
(***************************************************************************)
EXTENDS Integers, FiniteSets, FiniteSetsExt

CONSTANTS
    Invoices, Payments, Notes,   \* row ids
    Keys,                        \* idempotency keys
    Students,
    StudentOf,                   \* invoices.student_id, immutable
    Total,                       \* invoices.total_vnd, immutable
    Requests,                    \* the commands clients may send
    NoKey, NoInvoice, NoStudent  \* NULL

\* The lines of an allocatePayment batch: what each invoice is to receive.
Lines == [Invoices -> Nat]
Amounts == Nat \ {0}

Request ==
    [op : {"recordPayment"}, key : Keys, invoice : Invoices, amount : Amounts,
     student : Students \cup {NoStudent}]
    \cup [op : {"recordUnallocatedPayment"}, key : Keys, amount : Amounts,
          student : Students \cup {NoStudent}]
    \cup [op : {"allocatePayment"}, payment : Payments, key : Keys, lines : Lines]
    \cup [op : {"reversePayment"}, payment : Payments, key : Keys]
    \cup [op : {"refundPayment"}, payment : Payments, key : Keys, amount : Amounts]
    \cup [op : {"createCreditNote"}, key : Keys, invoice : Invoices, amount : Amounts]
    \cup [op : {"issueCreditNote"}, note : Notes]
    \cup [op : {"voidCreditNote"}, note : Notes, key : Keys]
    \cup [op : {"issue", "void"}, invoice : Invoices]

\* Ids and keys are strings of bounded length: there are finitely many.
ASSUME LedgerAssumption ==
    /\ IsFiniteSet(Invoices) /\ IsFiniteSet(Payments)
    /\ IsFiniteSet(Notes) /\ IsFiniteSet(Keys)
    /\ Requests \subseteq Request
    /\ StudentOf \in [Invoices -> Students]
    /\ Total \in [Invoices -> Nat]
    /\ NoKey \notin Keys /\ NoInvoice \notin Invoices /\ NoStudent \notin Students

VARIABLES
    invoice,    \* invoices: [status, number]
    payment,    \* payments: [key, invoice, amount, student]
    alloc,      \* payment_allocations, one per payment and invoice: [key, amount]
    refund,     \* refunds, one per payment and key, with its refund_allocations:
                \* [amount, parts], parts being what it takes back from each invoice
    reversal,   \* payment_reversals, one per payment: its idempotency key
    note,       \* credit_notes: [key, invoice, amount, status, number]
    noteVoid,   \* credit_note_voids, one per note: its idempotency key
    sequence    \* billing_sequences: the next document number

collected == <<payment, alloc, refund, reversal>>
credits == <<note, noteVoid>>
ledger == <<invoice, collected, credits, sequence>>

NoPart == [i \in Invoices |-> 0]

LedgerInit ==
    /\ invoice = [i \in Invoices |-> [status |-> "DRAFT", number |-> 0]]
    /\ payment = [p \in Payments |-> [key |-> NoKey, invoice |-> NoInvoice,
                                      amount |-> 0, student |-> NoStudent]]
    /\ alloc = [p \in Payments |-> [i \in Invoices |-> [key |-> NoKey, amount |-> 0]]]
    /\ refund = [p \in Payments |-> [k \in Keys |-> [amount |-> 0, parts |-> NoPart]]]
    /\ reversal = [p \in Payments |-> NoKey]
    /\ note = [n \in Notes |-> [key |-> NoKey, invoice |-> NoInvoice, amount |-> 0,
                                status |-> "NONE", number |-> 0]]
    /\ noteVoid = [n \in Notes |-> NoKey]
    /\ sequence = [d \in {"INVOICE", "CREDIT_NOTE"} |-> 1]

-----------------------------------------------------------------------------
(* The derived amounts; nothing stores a balance. *)

Sum(f, S) == MapThenSumSet(LAMBDA x : f[x], S)

Recorded(p) == payment[p].amount > 0
Reversed(p) == reversal[p] # NoKey

\* What refunds have taken back of the allocation of p to i.
TakenBack(p, i) == Sum([k \in Keys |-> refund[p][k].parts[i]], Keys)

Paid(i) ==
    LET standing == {p \in Payments : ~Reversed(p)}
    IN  Sum([p \in standing |-> alloc[p][i].amount - TakenBack(p, i)], standing)

InForce(n) == note[n].status = "ISSUED" /\ noteVoid[n] = NoKey

Credit(i) ==
    LET given == {n \in Notes : InForce(n) /\ note[n].invoice = i}
    IN  Sum([n \in given |-> note[n].amount], given)

Outstanding(i) == Total[i] - Credit(i) - Paid(i)

Allocated(p) == Sum([i \in Invoices |-> alloc[p][i].amount], Invoices)
Refunded(p) == Sum([k \in Keys |-> refund[p][k].amount], Keys)

\* The part of the refunds of p that belongs to no allocation.
Loose(p) ==
    Sum([k \in Keys |-> refund[p][k].amount - Sum(refund[p][k].parts, Invoices)], Keys)

\* A refund of the given amount spread over what the allocations have left.
Spread(left, amount) ==
    LET share == Min({amount, Sum(left, Invoices)})
    IN  {parts \in [Invoices -> 0 .. amount] :
            /\ \A i \in Invoices : parts[i] <= left[i]
            /\ Sum(parts, Invoices) = share
            /\ Cardinality({i \in Invoices : 0 < parts[i] /\ parts[i] < left[i]}) <= 1}

\* Fault: what earlier refunds took back is not subtracted.
SplitsOfAllocations(p, amount) == Spread([i \in Invoices |-> alloc[p][i].amount], amount)

\* How a refund may be spread over the allocations of p: each in turn gives all
\* it has left, until the amount is reached.  The turn is by created_at and id,
\* which inside one batch is an arbitrary order.
RefundSplits(p, amount) ==
    Spread([i \in Invoices |-> alloc[p][i].amount - TakenBack(p, i)], amount)

PaymentKeyUsed(k) == \E p \in Payments : payment[p].key = k
AllocationKeyUsed(p, k) == \E i \in Invoices : alloc[p][i].key = k
ReversalKeyUsed(k) == \E p \in Payments : reversal[p] = k
NoteKeyUsed(k) == \E n \in Notes : note[n].key = k
VoidKeyUsed(k) == \E n \in Notes : noteVoid[n] = k

PaysFor(student, i) == student \in {NoStudent, StudentOf[i]}

\* The payment's student: the one named in the request, else the invoice's.
Payer(student, i) == IF student = NoStudent THEN StudentOf[i] ELSE student

Batch(lines) == {i \in Invoices : lines[i] > 0}

-----------------------------------------------------------------------------
(* What the commands write. *)

InsertPayment(p, k, i, amount, student) ==
    payment' = [payment EXCEPT
        ![p] = [key |-> k, invoice |-> i, amount |-> amount, student |-> student]]

InsertAllocation(p, i, k, amount) ==
    alloc' = [alloc EXCEPT ![p][i] = [key |-> k, amount |-> amount]]

InsertAllocations(p, k, lines) ==
    alloc' = [alloc EXCEPT ![p] = [i \in Invoices |->
        IF lines[i] > 0 THEN [key |-> k, amount |-> lines[i]] ELSE @[i]]]

InsertNote(n, k, i, amount) ==
    note' = [note EXCEPT ![n] = [key |-> k, invoice |-> i, amount |-> amount,
                                 status |-> "DRAFT", number |-> 0]]

\* Fault: numbers counted from the documents in force.
CountedNumber(d) ==
    1 + IF d = "INVOICE" THEN Cardinality({i \in Invoices : invoice[i].status = "ISSUED"})
                         ELSE Cardinality({n \in Notes : InForce(n)})

\* Fault: the statement returns the value before the last.
NumberBefore(d) == sequence[d] - 2

\* The next number of a kind of document; a rollback gives it back.
Number(d) == sequence[d]
TakeNumber(d) == sequence' = [sequence EXCEPT ![d] = @ + 1]

NumberNote(n) ==
    /\ TakeNumber("CREDIT_NOTE")
    /\ note' = [note EXCEPT ![n].status = "ISSUED", ![n].number = Number("CREDIT_NOTE")]

-----------------------------------------------------------------------------
(* The commands. *)

RecordPayment(r, p) ==
    /\ r.op = "recordPayment"
    /\ ~PaymentKeyUsed(r.key) /\ ~Recorded(p)
    /\ invoice[r.invoice].status = "ISSUED"
    /\ PaysFor(r.student, r.invoice)
    /\ r.amount <= Outstanding(r.invoice)
    /\ InsertPayment(p, r.key, r.invoice, r.amount, Payer(r.student, r.invoice))
    /\ InsertAllocation(p, r.invoice, NoKey, r.amount)
    /\ UNCHANGED <<invoice, refund, reversal, credits, sequence>>

RecordUnallocatedPayment(r, p) ==
    /\ r.op = "recordUnallocatedPayment"
    /\ ~PaymentKeyUsed(r.key) /\ ~Recorded(p)
    /\ InsertPayment(p, r.key, NoInvoice, r.amount, r.student)
    /\ UNCHANGED <<invoice, alloc, refund, reversal, credits, sequence>>

\* Fault: a second allocation of the payment to the invoice overwrites the first.
Upsert(p, i) == TRUE

\* UNIQUE (tenant_id, payment_id, invoice_id).
NotAllocated(p, i) == alloc[p][i].amount = 0

AllocatePayment(r) ==
    /\ r.op = "allocatePayment"
    /\ Recorded(r.payment) /\ ~Reversed(r.payment)
    /\ Batch(r.lines) # {}
    /\ ~AllocationKeyUsed(r.payment, r.key)
    /\ Allocated(r.payment) + Sum(r.lines, Invoices) <= payment[r.payment].amount
    /\ \A i \in Batch(r.lines) :
          /\ invoice[i].status = "ISSUED"
          /\ PaysFor(payment[r.payment].student, i)
          /\ r.lines[i] <= Outstanding(i)
          /\ NotAllocated(r.payment, i)
    /\ InsertAllocations(r.payment, r.key, r.lines)
    /\ UNCHANGED <<invoice, payment, refund, reversal, credits, sequence>>

ReversePayment(r) ==
    /\ r.op = "reversePayment"
    /\ Recorded(r.payment) /\ ~Reversed(r.payment)
    /\ ~ReversalKeyUsed(r.key)
    /\ reversal' = [reversal EXCEPT ![r.payment] = r.key]
    /\ UNCHANGED <<invoice, payment, alloc, refund, credits, sequence>>

\* refundPayment refuses the part no allocation gives back unless the payment
\* still has it.
LooseRefundCovered(p, rest) == rest > 0 => rest <= payment[p].amount - Allocated(p) - Loose(p)

\* The new refund and everything refunded before stay within the payment.
RefundCovered(p, amount) == Refunded(p) + amount <= payment[p].amount

RefundPayment(r) ==
    /\ r.op = "refundPayment"
    /\ Recorded(r.payment) /\ ~Reversed(r.payment)
    /\ refund[r.payment][r.key].amount = 0
    /\ RefundCovered(r.payment, r.amount)
    /\ \E parts \in RefundSplits(r.payment, r.amount) :
          /\ LooseRefundCovered(r.payment, r.amount - Sum(parts, Invoices))
          /\ refund' = [refund EXCEPT
                ![r.payment][r.key] = [amount |-> r.amount, parts |-> parts]]
    /\ UNCHANGED <<invoice, payment, alloc, reversal, credits, sequence>>

CreateCreditNote(r, n) ==
    /\ r.op = "createCreditNote"
    /\ ~NoteKeyUsed(r.key) /\ note[n].status = "NONE"
    /\ invoice[r.invoice].status = "ISSUED"
    /\ r.amount <= Outstanding(r.invoice)
    /\ InsertNote(n, r.key, r.invoice, r.amount)
    /\ UNCHANGED <<invoice, collected, noteVoid, sequence>>

\* Fault: what was paid since the note was drafted is not counted.
NoteFitsInvoice(n) == note[n].amount <= Total[note[n].invoice] - Credit(note[n].invoice)

\* Whether the invoice of a draft note can still bear it.
NoteFits(n) == note[n].amount <= Outstanding(note[n].invoice)

IssueCreditNote(r) ==
    /\ r.op = "issueCreditNote"
    /\ note[r.note].status = "DRAFT"
    /\ invoice[note[r.note].invoice].status = "ISSUED"
    /\ NoteFits(r.note)
    /\ NumberNote(r.note)
    /\ UNCHANGED <<invoice, collected, noteVoid>>

VoidCreditNote(r) ==
    /\ r.op = "voidCreditNote"
    /\ note[r.note].status = "ISSUED"
    /\ noteVoid[r.note] = NoKey
    /\ ~VoidKeyUsed(r.key)
    /\ noteVoid' = [noteVoid EXCEPT ![r.note] = r.key]
    /\ UNCHANGED <<invoice, collected, note, sequence>>

Issue(r) ==
    /\ r.op = "issue"
    /\ invoice[r.invoice].status = "DRAFT"
    /\ TakeNumber("INVOICE")
    /\ invoice' = [invoice EXCEPT
          ![r.invoice] = [status |-> "ISSUED", number |-> Number("INVOICE")]]
    /\ UNCHANGED <<collected, credits>>

MarkVoid(i) == invoice' = [invoice EXCEPT ![i].status = "VOID"]

\* Fault: any invoice still due may be voided.
StillDue(i) == Outstanding(i) > 0

Unpaid(i) == Paid(i) <= 0

Void(r) ==
    /\ r.op = "void"
    /\ invoice[r.invoice].status = "ISSUED"
    /\ Unpaid(r.invoice)
    /\ MarkVoid(r.invoice)
    /\ UNCHANGED <<collected, credits, sequence>>

Execute(r) ==
    \/ \E p \in Payments : RecordPayment(r, p) \/ RecordUnallocatedPayment(r, p)
    \/ AllocatePayment(r) \/ ReversePayment(r) \/ RefundPayment(r)
    \/ \E n \in Notes : CreateCreditNote(r, n)
    \/ IssueCreditNote(r) \/ VoidCreditNote(r)
    \/ Issue(r) \/ Void(r)

LedgerNext == \E r \in Requests : Execute(r)

LedgerSpec == LedgerInit /\ [][LedgerNext]_ledger

-----------------------------------------------------------------------------
(* Properties *)

InvoiceRow == [status : {"DRAFT", "ISSUED", "VOID"}, number : Nat]
PaymentRow == [key : Keys \cup {NoKey}, invoice : Invoices \cup {NoInvoice},
               amount : Nat, student : Students \cup {NoStudent}]
AllocationRow == [key : Keys \cup {NoKey}, amount : Nat]
RefundRow == [amount : Nat, parts : [Invoices -> Nat]]
NoteRow == [key : Keys \cup {NoKey}, invoice : Invoices \cup {NoInvoice},
            amount : Nat, status : {"NONE", "DRAFT", "ISSUED"}, number : Nat]

\* The tables hold rows of their columns' types: no command writes a negative
\* amount or a row half filled.
LedgerTypeOK ==
    /\ invoice \in [Invoices -> InvoiceRow]
    /\ payment \in [Payments -> PaymentRow]
    /\ alloc \in [Payments -> [Invoices -> AllocationRow]]
    /\ refund \in [Payments -> [Keys -> RefundRow]]
    /\ reversal \in [Payments -> Keys \cup {NoKey}]
    /\ note \in [Notes -> NoteRow]
    /\ noteVoid \in [Notes -> Keys \cup {NoKey}]
    /\ sequence \in [{"INVOICE", "CREDIT_NOTE"} -> Nat \ {0}]

\* No invoice is paid and credited beyond its total, however collections,
\* refunds, reversals, notes and their voids follow one another.
NetDueCoversPaid == \A i \in Invoices : Paid(i) + Credit(i) <= Total[i]

\* A void invoice holds no money ("Only unpaid invoices can be voided").
VoidIsUnpaid == \A i \in Invoices : invoice[i].status = "VOID" => Paid(i) = 0

\* A payment is never allocated, nor refunded, beyond its amount, and no
\* allocation gives back more than it took.
RefundsWithinPayment ==
    \A p \in Payments :
        /\ Allocated(p) <= payment[p].amount
        /\ Refunded(p) <= payment[p].amount
        /\ \A i \in Invoices : TakenBack(p, i) <= alloc[p][i].amount
        /\ \A k \in Keys : Sum(refund[p][k].parts, Invoices) <= refund[p][k].amount

Gapless(row, rows, next) ==
    /\ {row[x].number : x \in rows} \cup {0} = 0 .. next - 1
    /\ \A x, y \in rows : row[x].number = row[y].number /\ row[x].number > 0 => x = y

\* Invoices and credit notes are numbered 1, 2, 3, ... with no number missing
\* and none given twice; voiding a document does not free its number.
NumbersGapless ==
    /\ Gapless(invoice, Invoices, sequence["INVOICE"])
    /\ Gapless(note, Notes, sequence["CREDIT_NOTE"])


\* What the tables hold at any moment, commands executed one at a time or not.
LedgerSafe == LedgerTypeOK /\ RefundsWithinPayment /\ NumbersGapless

\* Posted rows are append-only: an amount, a key, a link or a document number
\* once written stays, reversals and voids are for good, and a document's
\* status only moves forward.
PostedIsFinal ==
    [][ /\ \A p \in Payments :
              /\ Recorded(p) => payment'[p] = payment[p]
              /\ Reversed(p) => reversal'[p] = reversal[p]
              /\ \A i \in Invoices : alloc[p][i].amount > 0 => alloc'[p][i] = alloc[p][i]
              /\ \A k \in Keys : refund[p][k].amount > 0 => refund'[p][k] = refund[p][k]
        /\ \A n \in Notes :
              /\ note[n].status = "ISSUED" => note'[n] = note[n]
              /\ noteVoid[n] # NoKey => noteVoid'[n] = noteVoid[n]
        /\ \A i \in Invoices : invoice[i].status # "DRAFT" =>
              /\ invoice'[i].number = invoice[i].number
              /\ invoice'[i].status # invoice[i].status => invoice'[i].status = "VOID"
      ]_ledger

\* The money a payment still has behind it covers what it has allocated: what
\* was refunded outside its allocations was not there to be allocated.
CreditBacked ==
    \A p \in Payments :
        ~Reversed(p) => Allocated(p) + Loose(p) <= payment[p].amount

=============================================================================
