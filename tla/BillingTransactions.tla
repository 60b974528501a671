------------------------- MODULE BillingTransactions -------------------------
(***************************************************************************)
(* The commands of BillingService as the transactions that run: READ       *)
(* COMMITTED statements on separate connections of the tenant's pool.      *)
(*                                                                         *)
(* `SELECT ... paid, credit ... FOR UPDATE OF i` takes its snapshot when   *)
(* the statement starts and its row lock when the lock is free.  The       *)
(* status it returns is that of the row it locked; the sums over other     *)
(* tables are those of the snapshot.  So a command that locks an invoice   *)
(* reads the sums (action Read...) before the step that gets the lock,     *)
(* checks, writes and commits.  That step is one action: what the command  *)
(* reads and writes after the lock belongs to rows only the lock's holder  *)
(* changes, except that a reversal, a refund or the void of a note, which  *)
(* take no invoice lock, may lower the sums, and they may as well come     *)
(* just after it.                                                          *)
(*                                                                         *)
(* Two commands keep a row locked while they wait for another:             *)
(* allocatePayment its payment and the invoices it has done, and           *)
(* issueCreditNote its note.  Commands that lock one row and only then     *)
(* read (reverse, refund, void a note, issue an invoice) are the atomic    *)
(* steps of BillingLedger, enabled when the row is free.                   *)
(***************************************************************************)
EXTENDS BillingLedger

CONSTANTS
    Connections,  \* connections of the pool that serve multi-statement commands
    Rank,         \* the order of invoices by id
    MaxRank,      \* the invoices are finitely many
    NoRequest

ASSUME TransactionsAssumption ==
    /\ NoRequest \notin Request
    /\ MaxRank \in Nat
    /\ Rank \in [Invoices -> 0 .. MaxRank]
    /\ \A i, j \in Invoices : Rank[i] = Rank[j] => i = j

VARIABLES
    request,  \* the command a connection runs, or NoRequest
    pc,       \* "idle"; "looked": key looked up, or rows locked; "locking": sums read
    sums,     \* [paid, credit] of the invoice, as the statement's snapshot had them
    done      \* the invoices of a batch already locked and allocated, uncommitted

transaction == <<request, pc, sums, done>>
vars == <<ledger, transaction>>

NoSums == [paid |-> 0, credit |-> 0]

Init ==
    /\ LedgerInit
    /\ request = [c \in Connections |-> NoRequest]
    /\ pc = [c \in Connections |-> "idle"]
    /\ sums = [c \in Connections |-> NoSums]
    /\ done = [c \in Connections |-> {}]

Runs(c, op) == pc[c] # "idle" /\ request[c].op = op

\* Commands that first look their idempotency key up, then write.
ByKey == {"recordPayment", "recordUnallocatedPayment", "createCreditNote"}

-----------------------------------------------------------------------------
(* Row locks, held from one statement to the next. *)

\* Fault: the payment of a batch is read without FOR UPDATE.
ReadWithoutLock(p) == FALSE

PaymentLocked(p) == \E c \in Connections : Runs(c, "allocatePayment") /\ request[c].payment = p
NoteLocked(n) == \E c \in Connections : Runs(c, "issueCreditNote") /\ request[c].note = n
InvoiceLocked(i) == \E c \in Connections : i \in done[c]

\* The invoice a connection locks next; in a batch, the lowest id not yet done.
Todo(c) == Batch(request[c].lines) \ done[c]

\* Fault: invoices are locked in the order the request lists them.
AnyOf(c) == Todo(c)

NextInvoices(c) == {i \in Todo(c) : \A j \in Todo(c) : Rank[i] <= Rank[j]}

Targets(c) ==
    CASE request[c].op = "allocatePayment" -> NextInvoices(c)
      [] request[c].op = "issueCreditNote" -> {note[request[c].note].invoice}
      [] request[c].op = "recordUnallocatedPayment" -> {}
      [] OTHER -> {request[c].invoice}

-----------------------------------------------------------------------------
(* Steps common to the commands. *)

Begin(c, r, at) ==
    /\ pc[c] = "idle"
    /\ request' = [request EXCEPT ![c] = r]
    /\ pc' = [pc EXCEPT ![c] = at]
    /\ UNCHANGED <<sums, done>>

\* Fault: a connection goes back to the pool with its transaction open.
LeftOpen(c) ==
    /\ request' = [request EXCEPT ![c] = NoRequest]
    /\ pc' = [pc EXCEPT ![c] = "idle"]
    /\ sums' = [sums EXCEPT ![c] = NoSums]
    /\ UNCHANGED done

End(c) ==
    /\ request' = [request EXCEPT ![c] = NoRequest]
    /\ pc' = [pc EXCEPT ![c] = "idle"]
    /\ sums' = [sums EXCEPT ![c] = NoSums]
    /\ done' = [done EXCEPT ![c] = {}]

\* ROLLBACK: a refusal, a statement that fails, or a connection that is lost.
Rollback(c) ==
    /\ pc[c] # "idle"
    /\ End(c)
    /\ UNCHANGED ledger

\* BEGIN and the look-up of the key: a key in use answers from the row found.
LookUpKey(c, r) ==
    /\ r.op \in ByKey
    /\ IF r.op = "createCreditNote" THEN ~NoteKeyUsed(r.key) ELSE ~PaymentKeyUsed(r.key)
    /\ Begin(c, r, "looked")
    /\ UNCHANGED ledger

\* The statement that locks an invoice starts: its snapshot is taken.
ReadSums(c) ==
    /\ pc[c] = "looked"
    /\ \E i \in Targets(c) :
          sums' = [sums EXCEPT ![c] = [paid |-> Paid(i), credit |-> Credit(i)]]
    /\ pc' = [pc EXCEPT ![c] = "locking"]
    /\ UNCHANGED <<ledger, request, done>>

\* The statement gets its lock on i; the sums are those read when it started.
Lock(c, i) == pc[c] = "locking" /\ i \in Targets(c) /\ ~InvoiceLocked(i)

\* What the service takes the balance to be.
Due(c, i) == Total[i] - sums[c].credit - sums[c].paid

-----------------------------------------------------------------------------
(* recordPayment, recordUnallocatedPayment *)

\* Fault: the trigger is missing; the service's own check has to do.
Unvalidated(p, i, amount) == TRUE

\* The trigger validate_payment_allocation for a new allocation, reading the
\* tables as they are once it has locked the rows.
ValidateAllocation(p, i, amount) ==
    /\ ~Reversed(p)
    /\ invoice[i].status = "ISSUED"
    /\ Paid(i) + amount <= Total[i] - Credit(i)

\* Fault: no unique index on the key; the look-up has to do.
KeyNotChecked(k) == TRUE

\* UNIQUE (tenant_id, idempotency_key) of payments; a violation rolls back and
\* answers from the row found.
PaymentKeyFree(k) == ~PaymentKeyUsed(k)

CommitPayment(c, p) ==
    LET r == request[c] IN
    /\ Runs(c, "recordPayment") /\ Lock(c, r.invoice)
    /\ ~Recorded(p)
    /\ invoice[r.invoice].status = "ISSUED"
    /\ PaysFor(r.student, r.invoice)
    /\ r.amount <= Due(c, r.invoice)
    /\ PaymentKeyFree(r.key)
    /\ ValidateAllocation(p, r.invoice, r.amount)
    /\ InsertPayment(p, r.key, r.invoice, r.amount, Payer(r.student, r.invoice))
    /\ InsertAllocation(p, r.invoice, NoKey, r.amount)
    /\ End(c)
    /\ UNCHANGED <<invoice, refund, reversal, credits, sequence>>

CommitUnallocatedPayment(c, p) ==
    LET r == request[c] IN
    /\ Runs(c, "recordUnallocatedPayment")
    /\ ~Recorded(p)
    /\ PaymentKeyFree(r.key)
    /\ InsertPayment(p, r.key, NoInvoice, r.amount, r.student)
    /\ End(c)
    /\ UNCHANGED <<invoice, alloc, refund, reversal, credits, sequence>>

-----------------------------------------------------------------------------
(* allocatePayment *)

\* The payment is locked; what the batch asks of it is checked.
LockPayment(c, r) ==
    /\ r.op = "allocatePayment"
    /\ ~PaymentLocked(r.payment)
    /\ Recorded(r.payment) /\ ~Reversed(r.payment)
    /\ Batch(r.lines) # {}
    /\ ~AllocationKeyUsed(r.payment, r.key)
    /\ Allocated(r.payment) + Sum(r.lines, Invoices) <= payment[r.payment].amount
    /\ Begin(c, r, "looked")
    /\ UNCHANGED ledger

LineAllowed(c, i) ==
    LET r == request[c] IN
    /\ Runs(c, "allocatePayment") /\ Lock(c, i)
    /\ invoice[i].status = "ISSUED"
    /\ PaysFor(payment[r.payment].student, i)
    /\ r.lines[i] <= Due(c, i)
    /\ NotAllocated(r.payment, i)
    /\ ValidateAllocation(r.payment, i, r.lines[i])

\* A line that is not the last: its invoice stays locked, nothing is visible yet.
AllocateLine(c, i) ==
    /\ LineAllowed(c, i)
    /\ Todo(c) # {i}
    /\ done' = [done EXCEPT ![c] = @ \cup {i}]
    /\ pc' = [pc EXCEPT ![c] = "looked"]
    /\ sums' = [sums EXCEPT ![c] = NoSums]
    /\ UNCHANGED <<ledger, request>>

\* The last line, and the commit of the batch.
CommitAllocations(c, i) ==
    /\ LineAllowed(c, i)
    /\ Todo(c) = {i}
    /\ InsertAllocations(request[c].payment, request[c].key, request[c].lines)
    /\ End(c)
    /\ UNCHANGED <<invoice, payment, refund, reversal, credits, sequence>>

-----------------------------------------------------------------------------
(* createCreditNote, issueCreditNote, void *)

CommitCreditNote(c, n) ==
    LET r == request[c] IN
    /\ Runs(c, "createCreditNote") /\ Lock(c, r.invoice)
    /\ note[n].status = "NONE"
    /\ invoice[r.invoice].status = "ISSUED"
    /\ r.amount <= Due(c, r.invoice)
    /\ ~NoteKeyUsed(r.key)
    /\ InsertNote(n, r.key, r.invoice, r.amount)
    /\ End(c)
    /\ UNCHANGED <<invoice, collected, noteVoid, sequence>>

LockNote(c, r) ==
    /\ r.op = "issueCreditNote"
    /\ ~NoteLocked(r.note)
    /\ note[r.note].status = "DRAFT"
    /\ Begin(c, r, "looked")
    /\ UNCHANGED ledger

\* Fault: a note may be issued against any invoice that was issued once.
NotDraft(i) == invoice[i].status # "DRAFT"

TakesNotes(i) == invoice[i].status = "ISSUED"

CommitIssueCreditNote(c) ==
    LET n == request[c].note
        i == note[n].invoice
    IN  /\ Runs(c, "issueCreditNote") /\ Lock(c, i)
        /\ TakesNotes(i)
        /\ note[n].amount <= Due(c, i)
        /\ NumberNote(n)
        /\ End(c)
        /\ UNCHANGED <<invoice, collected, noteVoid>>

BeginVoid(c, r) ==
    /\ r.op = "void"
    /\ Begin(c, r, "looked")
    /\ UNCHANGED ledger

CommitVoid(c) ==
    LET i == request[c].invoice IN
    /\ Runs(c, "void") /\ Lock(c, i)
    /\ invoice[i].status = "ISSUED"
    /\ sums[c].paid <= 0
    /\ MarkVoid(i)
    /\ End(c)
    /\ UNCHANGED <<collected, credits, sequence>>

-----------------------------------------------------------------------------
(* The commands that take one lock and read under it. *)

SingleLock(r) ==
    /\ \/ ReversePayment(r) /\ ~PaymentLocked(r.payment)
       \/ RefundPayment(r) /\ ~PaymentLocked(r.payment)
       \/ VoidCreditNote(r) /\ ~NoteLocked(r.note)
       \/ Issue(r) /\ ~InvoiceLocked(r.invoice)
    /\ UNCHANGED transaction

Next ==
    \/ \E c \in Connections, r \in Requests :
          LookUpKey(c, r) \/ LockPayment(c, r) \/ LockNote(c, r) \/ BeginVoid(c, r)
    \/ \E c \in Connections :
          \/ ReadSums(c) \/ Rollback(c)
          \/ \E p \in Payments : CommitPayment(c, p) \/ CommitUnallocatedPayment(c, p)
          \/ \E i \in Invoices : AllocateLine(c, i) \/ CommitAllocations(c, i)
          \/ \E n \in Notes : CommitCreditNote(c, n)
          \/ CommitIssueCreditNote(c) \/ CommitVoid(c)
    \/ \E r \in Requests : SingleLock(r)

Spec == Init /\ [][Next]_vars

-----------------------------------------------------------------------------
(* Properties *)

TransactionTypeOK ==
    /\ request \in [Connections -> Requests \cup {NoRequest}]
    /\ pc \in [Connections -> {"idle", "looked", "locking"}]
    /\ done \in [Connections -> SUBSET Invoices]
    /\ \A c \in Connections :
          /\ (pc[c] = "idle") = (request[c] = NoRequest)
          /\ done[c] # {} => Runs(c, "allocatePayment") /\ Todo(c) # {}

\* The ledger's rows are well typed, and a connection keeps invoices locked only
\* for a batch it is still working through.
TypeOK ==
    /\ LedgerTypeOK
    /\ TransactionTypeOK
    /\ sums \in [Connections -> [paid : Int, credit : Int]]

\* One row of a kind per idempotency key: a retry that overlaps or follows its
\* first attempt never posts the money or the note a second time.
KeysAppliedOnce ==
    /\ \A p, q \in Payments : payment[p].key = payment[q].key /\ Recorded(p) => p = q
    /\ \A m, n \in Notes : note[m].key = note[n].key /\ note[m].status # "NONE" => m = n
    /\ \A p, q \in Payments : reversal[p] = reversal[q] /\ Reversed(p) => p = q

\* No row is locked by two transactions at once.
LocksExclusive ==
    \A c, d \in Connections : c # d =>
        /\ done[c] \cap done[d] = {}
        /\ ~(/\ Runs(c, "allocatePayment") /\ Runs(d, "allocatePayment")
             /\ request[c].payment = request[d].payment)
        /\ ~(/\ Runs(c, "issueCreditNote") /\ Runs(d, "issueCreditNote")
             /\ request[c].note = request[d].note)


\* Retries and row locks, in one.
TransactionsSafe == TypeOK /\ KeysAppliedOnce /\ LocksExclusive

WaitsFor(c, d) == pc[c] = "locking" /\ Targets(c) \cap done[d] # {}

\* Transactions never wait for one another in a circle ("Lock invoices in a
\* stable order so different payments cannot deadlock on a shared batch").
NoLockCycle ==
    \A S \in (SUBSET Connections) \ {{}} : \E c \in S : \A d \in S : ~WaitsFor(c, d)

\* Nothing is collected or credited on an invoice once it is void, even by a
\* command that read the invoice before it was voided.
VoidTakesNothing ==
    [][\A i \in Invoices :
          invoice[i].status = "VOID" => Outstanding(i)' >= Outstanding(i)]_ledger

\* Concurrent payments, batches, reversals and refunds have the effect of commands
\* executed one at a time ("must serialize to one valid result"): a step that moves
\* money is one the serial ledger takes, never one let through by stale sums.
\* Credit notes and voids, which check only such sums, do not serialize, but
\* nothing is collected or credited on an invoice once it is void.
PaymentsSerialize ==
    /\ LedgerInit /\ [][UNCHANGED collected \/ \E r \in Requests : Execute(r)]_ledger
    /\ VoidTakesNothing

=============================================================================
