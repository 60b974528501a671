---------------------------- MODULE BillingProofs ----------------------------
(***************************************************************************)
(* Proofs about BillingTransactions, for any invoices, payments, notes,    *)
(* keys, connections and requests; about the serial ledger and its history *)
(* (MCBilling), for any commands; and about Drafting, for any clerks,      *)
(* invoices, discounts and prices.                                         *)
(***************************************************************************)
EXTENDS MCBilling, Sums

\* The sums of the ledger are those of Sums.
LEMMA SumsAgree == ASSUME NEW f, NEW S PROVE Sum(f, S) = SumOver(f, S)
BY DEF Sum, SumOver

LEMMA SumInt ==
    ASSUME NEW f, NEW S, IsFiniteSet(S), \A x \in S : f[x] \in Int
    PROVE  Sum(f, S) \in Int
BY SumsAgree, SumOverInt

LEMMA SumMonotone ==
    ASSUME NEW f, NEW g, NEW S, IsFiniteSet(S),
           \A x \in S : f[x] \in Int /\ g[x] \in Int /\ f[x] <= g[x]
    PROVE  Sum(f, S) <= Sum(g, S)
BY SumsAgree, SumOverMonotone

LEMMA SumPlus ==
    ASSUME NEW f, NEW g, NEW h, NEW S, IsFiniteSet(S),
           \A x \in S : f[x] \in Int /\ g[x] \in Int /\ h[x] = f[x] + g[x]
    PROVE  Sum(h, S) = Sum(f, S) + Sum(g, S)
BY SumsAgree, SumOverPlus

LEMMA SumChange ==
    ASSUME NEW f, NEW g, NEW S, IsFiniteSet(S), NEW d \in S,
           \A x \in S : f[x] \in Int /\ g[x] \in Int,
           \A x \in S : x # d => f[x] = g[x]
    PROVE  Sum(g, S) = Sum(f, S) - f[d] + g[d]
BY SumsAgree, SumOverChange

LEMMA SumNonNegative ==
    ASSUME NEW f, NEW S, IsFiniteSet(S), \A x \in S : f[x] \in Nat
    PROVE  Sum(f, S) \in Nat /\ \A x \in S : f[x] <= Sum(f, S)
BY SumsAgree, SumOverNonNegative

LEMMA SumShrinks ==
    ASSUME NEW f, NEW g, NEW S, NEW T, IsFiniteSet(S), T \subseteq S,
           \A x \in S : f[x] \in Nat,
           \A x \in T : g[x] \in Int /\ g[x] <= f[x]
    PROVE  Sum(g, T) <= Sum(f, S)
BY SumsAgree, SumOverShrinks

LEMMA SumSame ==
    ASSUME NEW f, NEW g, NEW S, IsFiniteSet(S), \A x \in S : f[x] \in Int /\ f[x] = g[x]
    PROVE  Sum(f, S) = Sum(g, S)
BY SumsAgree, SumOverSame

LEMMA SumIgnore ==
    ASSUME NEW f, NEW g, NEW S, NEW T, IsFiniteSet(S), T \subseteq S,
           \A x \in S : f[x] \in Int,
           \A x \in T : g[x] = f[x],
           \A x \in S \ T : f[x] = 0
    PROVE  Sum(f, S) = Sum(g, T)
BY SumsAgree, SumOverIgnore

\* The part of S that belongs to m, place telling where an element belongs.
PartOf(S, place, m) == {x \in S : place[x] = m}

Placed(f, S, place, M) == \A x \in S : f[x] \in Int /\ place[x] \in M

SumsParts(g, f, S, place, M) == \A m \in M : g[m] = Sum(f, PartOf(S, place, m))

\* A sum over S is that of the sums over its parts.
LEMMA SumParts ==
    ASSUME NEW f, NEW S, NEW place, NEW M, NEW g, IsFiniteSet(S), IsFiniteSet(M),
           Placed(f, S, place, M), SumsParts(g, f, S, place, M)
    PROVE  Sum(g, M) = Sum(f, S)
<1>1. SumOver(PartSums(f, S, place, M), M) = SumOver(f, S)
  BY SumOverParts DEF Placed
<1>2. \A m \in M : PartSums(f, S, place, M)[m] = g[m]
  BY SumsAgree DEF PartSums, SumsParts, PartOf
<1>3. \A m \in M : g[m] \in Int
  <2>1. \A m \in M : IsFiniteSet(PartOf(S, place, m)) /\ \A y \in PartOf(S, place, m) : f[y] \in Int
    BY FS_Subset DEF PartOf, Placed
  <2>2. \A m \in M : Sum(f, PartOf(S, place, m)) \in Int
    BY <2>1, SumInt
  <2> QED  BY <2>2 DEF SumsParts
<1>4. SumOver(g, M) = SumOver(PartSums(f, S, place, M), M)
  BY <1>2, <1>3, SumOverSame
<1> QED  BY <1>1, <1>4, SumsAgree

\* Each part may be summed by a function of its own.
SumsPieces(g, f, S, place, M) ==
    \A m \in M : \E h : /\ g[m] = Sum(h, PartOf(S, place, m))
                        /\ \A x \in PartOf(S, place, m) : h[x] = f[x]

LEMMA SumPieces ==
    ASSUME NEW f, NEW S, NEW place, NEW M, NEW g, IsFiniteSet(S), IsFiniteSet(M),
           Placed(f, S, place, M), SumsPieces(g, f, S, place, M)
    PROVE  Sum(g, M) = Sum(f, S)
<1>1. ASSUME NEW m \in M  PROVE g[m] = Sum(f, PartOf(S, place, m))
  <2>1. PICK h : g[m] = Sum(h, PartOf(S, place, m)) /\ \A x \in PartOf(S, place, m) : h[x] = f[x]
    BY DEF SumsPieces
  <2>2. IsFiniteSet(PartOf(S, place, m)) /\ \A x \in PartOf(S, place, m) : f[x] \in Int /\ f[x] = h[x]
    BY <2>1, FS_Subset DEF PartOf, Placed
  <2>3. Sum(f, PartOf(S, place, m)) = Sum(h, PartOf(S, place, m))
    BY <2>2, SumSame
  <2> QED  BY <2>1, <2>3
<1>2. SumsParts(g, f, S, place, M)
  BY <1>1 DEF SumsParts
<1> QED  BY <1>2, SumParts

LEMMA SumNames ==
    ASSUME NEW f, NEW g, NEW S, NEW h, NEW T, IsFiniteSet(S), T = Images(h, S),
           \A x, y \in S : h[x] = h[y] => x = y,
           \A x \in S : g[x] \in Int /\ f[h[x]] = g[x]
    PROVE  Sum(f, T) = Sum(g, S)
BY SumsAgree, SumOverNames

LEMMA SumPair ==
    ASSUME NEW f, NEW a, NEW b, a # b, f[a] \in Int, f[b] \in Int
    PROVE  Sum(f, {a, b}) = f[a] + f[b]
<1>1. IsFiniteSet({b}) /\ IsFiniteSet({a, b})
  <2>1. IsFiniteSet({}) /\ {b} = {} \cup {b} /\ {a, b} = {b} \cup {a}
    BY FS_EmptySet
  <2>2. IsFiniteSet({b})
    BY <2>1, FS_AddElement
  <2>3. IsFiniteSet({b} \cup {a})
    BY <2>2, FS_AddElement
  <2> QED  BY <2>1, <2>2, <2>3
<1>2. SumOver(f, {a, b}) = f[a] + SumOver(f, {a, b} \ {a})
  BY <1>1, SumOverTake
<1>3. {a, b} \ {a} = {b} /\ {b} \ {b} = {}
  OBVIOUS
<1>4. SumOver(f, {b}) = f[b] + SumOver(f, {b} \ {b})
  BY <1>1, SumOverTake
<1>5. SumOver(f, {b}) = f[b] + 0
  BY <1>3, <1>4, SumOverEmpty
<1>6. SumOver(f, {a, b}) = f[a] + SumOver(f, {b})
  BY <1>2, <1>3
<1>7. SumOver(f, {a, b}) = f[a] + f[b]
  BY <1>5, <1>6
<1>8. Sum(f, {a, b}) = SumOver(f, {a, b})
  BY SumsAgree
<1> QED  BY <1>7, <1>8

-----------------------------------------------------------------------------
(* The transactions *)

LEMMA RequestFields ==
    ASSUME NEW r \in Request
    PROVE  /\ r.op \in {"recordPayment", "createCreditNote"} =>
                 r.key \in Keys /\ r.invoice \in Invoices /\ r.amount \in Amounts
           /\ r.op = "recordPayment" => r.student \in Students \cup {NoStudent}
           /\ r.op = "recordUnallocatedPayment" =>
                 r.key \in Keys /\ r.amount \in Amounts /\ r.student \in Students \cup {NoStudent}
           /\ r.op = "allocatePayment" =>
                 r.payment \in Payments /\ r.key \in Keys /\ r.lines \in Lines
           /\ r.op = "reversePayment" => r.payment \in Payments /\ r.key \in Keys
           /\ r.op = "refundPayment" =>
                 r.payment \in Payments /\ r.key \in Keys /\ r.amount \in Amounts
           /\ r.op \in {"issueCreditNote", "voidCreditNote"} => r.note \in Notes
           /\ r.op = "voidCreditNote" => r.key \in Keys
           /\ r.op \in {"issue", "void"} => r.invoice \in Invoices
<1>1. CASE r.op \in {"recordPayment", "recordUnallocatedPayment", "allocatePayment"}
  BY <1>1 DEF Request
<1>2. CASE r.op \in {"reversePayment", "refundPayment", "createCreditNote"}
  BY <1>2 DEF Request
<1>3. CASE r.op \in {"issueCreditNote", "voidCreditNote", "issue", "void"}
  BY <1>3 DEF Request
<1> QED  BY <1>1, <1>2, <1>3

\* A request being served is one of Requests.
LEMMA Served ==
    ASSUME TransactionTypeOK, NEW c \in Connections, pc[c] # "idle"
    PROVE  request[c] \in Requests /\ request[c] \in Request
BY LedgerAssumption DEF TransactionTypeOK

LEMMA RunsRequest ==
    ASSUME TransactionTypeOK, NEW c \in Connections, NEW op, Runs(c, op)
    PROVE  request[c] \in Request /\ request[c].op = op
BY Served DEF Runs

-----------------------------------------------------------------------------
(* The rows are well typed. *)

LEMMA PaymentTyped ==
    ASSUME LedgerTypeOK, NEW p \in Payments, NEW k \in Keys,
           NEW i \in Invoices \cup {NoInvoice}, NEW a \in Amounts,
           NEW s \in Students \cup {NoStudent}, InsertPayment(p, k, i, a, s)
    PROVE  payment' \in [Payments -> PaymentRow]
BY DEF LedgerTypeOK, InsertPayment, PaymentRow, Amounts

LEMMA AllocationTyped ==
    ASSUME LedgerTypeOK, NEW p \in Payments, NEW i \in Invoices,
           NEW k \in Keys \cup {NoKey}, NEW a \in Amounts, InsertAllocation(p, i, k, a)
    PROVE  alloc' \in [Payments -> [Invoices -> AllocationRow]]
BY DEF LedgerTypeOK, InsertAllocation, AllocationRow, Amounts

LEMMA AllocationsTyped ==
    ASSUME LedgerTypeOK, NEW p \in Payments, NEW k \in Keys, NEW lines \in Lines,
           InsertAllocations(p, k, lines)
    PROVE  alloc' \in [Payments -> [Invoices -> AllocationRow]]
BY DEF LedgerTypeOK, InsertAllocations, AllocationRow, Lines

LEMMA NoteTyped ==
    ASSUME LedgerTypeOK, NEW n \in Notes, NEW k \in Keys, NEW i \in Invoices,
           NEW a \in Amounts, InsertNote(n, k, i, a)
    PROVE  note' \in [Notes -> NoteRow]
BY DEF LedgerTypeOK, InsertNote, NoteRow, Amounts

LEMMA NumberTyped ==
    ASSUME LedgerTypeOK, NEW d \in {"INVOICE", "CREDIT_NOTE"}, TakeNumber(d)
    PROVE  sequence' \in [{"INVOICE", "CREDIT_NOTE"} -> Nat \ {0}]
BY DEF LedgerTypeOK, TakeNumber

LEMMA NumberNoteTyped ==
    ASSUME LedgerTypeOK, NEW n \in Notes, NumberNote(n)
    PROVE  note' \in [Notes -> NoteRow]
<1>1. sequence["CREDIT_NOTE"] \in Nat /\ note \in [Notes -> NoteRow]
  BY DEF LedgerTypeOK
<1>2. [note[n] EXCEPT !.status = "ISSUED", !.number = sequence["CREDIT_NOTE"]] \in NoteRow
  BY <1>1 DEF NoteRow
<1>3. note' = [note EXCEPT ![n] =
                 [note[n] EXCEPT !.status = "ISSUED", !.number = sequence["CREDIT_NOTE"]]]
  BY <1>1 DEF NumberNote, Number, NoteRow
<1> QED  BY <1>1, <1>2, <1>3

LEMMA PayerTyped ==
    ASSUME NEW s \in Students \cup {NoStudent}, NEW i \in Invoices
    PROVE  Payer(s, i) \in Students \cup {NoStudent}
BY LedgerAssumption DEF Payer

LEMMA RefundTyped ==
    ASSUME LedgerTypeOK, NEW r \in Request, RefundPayment(r)
    PROVE  refund' \in [Payments -> [Keys -> RefundRow]]
<1>1. r.payment \in Payments /\ r.key \in Keys /\ r.amount \in Nat
  BY RequestFields DEF RefundPayment, Amounts
<1>2. PICK parts \in RefundSplits(r.payment, r.amount) :
         refund' = [refund EXCEPT
                ![r.payment][r.key] = [amount |-> r.amount, parts |-> parts]]
  BY DEF RefundPayment
<1>3. parts \in [Invoices -> Nat]
  BY <1>1 DEF RefundSplits, Spread
<1> QED  BY <1>1, <1>2, <1>3 DEF LedgerTypeOK, RefundRow

LEMMA LedgerTypeInit == LedgerInit => LedgerTypeOK
BY DEF LedgerInit, LedgerTypeOK, InvoiceRow, PaymentRow, AllocationRow, RefundRow,
       NoteRow, NoPart

LEMMA LedgerTypeStep ==
    ASSUME LedgerTypeOK, TransactionTypeOK, [Next]_vars
    PROVE  LedgerTypeOK'
<1>1. CASE UNCHANGED ledger
  BY <1>1 DEF LedgerTypeOK, ledger, collected, credits
<1>2. ASSUME NEW c \in Connections, NEW r \in Requests,
             LookUpKey(c, r) \/ LockPayment(c, r) \/ LockNote(c, r) \/ BeginVoid(c, r)
      PROVE  LedgerTypeOK'
  BY <1>1, <1>2 DEF LookUpKey, LockPayment, LockNote, BeginVoid
<1>3. ASSUME NEW c \in Connections, ReadSums(c) \/ Rollback(c)
      PROVE  LedgerTypeOK'
  BY <1>1, <1>3 DEF ReadSums, Rollback
<1>4. ASSUME NEW c \in Connections, NEW p \in Payments, CommitPayment(c, p)
      PROVE  LedgerTypeOK'
  <2> DEFINE r == request[c]
  <2>1. r \in Request /\ r.op = "recordPayment"
    BY <1>4, RunsRequest DEF CommitPayment
  <2>2. /\ r.key \in Keys /\ r.invoice \in Invoices /\ r.amount \in Amounts
        /\ Payer(r.student, r.invoice) \in Students \cup {NoStudent}
    BY <2>1, RequestFields, PayerTyped
  <2>3. payment' \in [Payments -> PaymentRow]
    <3>1. InsertPayment(p, r.key, r.invoice, r.amount, Payer(r.student, r.invoice))
      BY <1>4 DEF CommitPayment
    <3> QED  BY <2>2, <3>1, PaymentTyped
  <2>4. alloc' \in [Payments -> [Invoices -> AllocationRow]]
    <3>1. InsertAllocation(p, r.invoice, NoKey, r.amount)
      BY <1>4 DEF CommitPayment
    <3> QED  BY <2>2, <3>1, AllocationTyped
  <2> QED  BY <1>4, <2>3, <2>4 DEF CommitPayment, LedgerTypeOK, credits
<1>5. ASSUME NEW c \in Connections, NEW p \in Payments, CommitUnallocatedPayment(c, p)
      PROVE  LedgerTypeOK'
  <2> DEFINE r == request[c]
  <2>1. r \in Request /\ r.op = "recordUnallocatedPayment"
    BY <1>5, RunsRequest DEF CommitUnallocatedPayment
  <2>2. r.key \in Keys /\ r.amount \in Amounts /\ r.student \in Students \cup {NoStudent}
    BY <2>1, RequestFields
  <2>3. InsertPayment(p, r.key, NoInvoice, r.amount, r.student)
    BY <1>5 DEF CommitUnallocatedPayment
  <2>4. payment' \in [Payments -> PaymentRow]
    BY <2>2, <2>3, PaymentTyped
  <2> QED  BY <1>5, <2>4 DEF CommitUnallocatedPayment, LedgerTypeOK, credits
<1>6. ASSUME NEW c \in Connections, NEW i \in Invoices, AllocateLine(c, i)
      PROVE  LedgerTypeOK'
  BY <1>1, <1>6 DEF AllocateLine
<1>7. ASSUME NEW c \in Connections, NEW i \in Invoices, CommitAllocations(c, i)
      PROVE  LedgerTypeOK'
  <2> DEFINE r == request[c]
  <2>1. r \in Request /\ r.op = "allocatePayment"
    BY <1>7, RunsRequest DEF CommitAllocations, LineAllowed
  <2>2. r.payment \in Payments /\ r.key \in Keys /\ r.lines \in Lines
    BY <2>1, RequestFields
  <2>3. InsertAllocations(r.payment, r.key, r.lines)
    BY <1>7 DEF CommitAllocations
  <2>4. alloc' \in [Payments -> [Invoices -> AllocationRow]]
    BY <2>2, <2>3, AllocationsTyped
  <2> QED  BY <1>7, <2>4 DEF CommitAllocations, LedgerTypeOK, credits
<1>8. ASSUME NEW c \in Connections, NEW n \in Notes, CommitCreditNote(c, n)
      PROVE  LedgerTypeOK'
  <2> DEFINE r == request[c]
  <2>1. r \in Request /\ r.op = "createCreditNote"
    BY <1>8, RunsRequest DEF CommitCreditNote
  <2>2. r.key \in Keys /\ r.invoice \in Invoices /\ r.amount \in Amounts
    BY <2>1, RequestFields
  <2>3. InsertNote(n, r.key, r.invoice, r.amount)
    BY <1>8 DEF CommitCreditNote
  <2>4. note' \in [Notes -> NoteRow]
    BY <2>2, <2>3, NoteTyped
  <2> QED  BY <1>8, <2>4 DEF CommitCreditNote, LedgerTypeOK, collected
<1>9. ASSUME NEW c \in Connections, CommitIssueCreditNote(c)
      PROVE  LedgerTypeOK'
  <2> DEFINE n == request[c].note
  <2>1. n \in Notes
    BY <1>9, RunsRequest, RequestFields DEF CommitIssueCreditNote
  <2>2. NumberNote(n)
    BY <1>9 DEF CommitIssueCreditNote
  <2>3. note' \in [Notes -> NoteRow]
    BY <2>1, <2>2, NumberNoteTyped
  <2>4. sequence' \in [{"INVOICE", "CREDIT_NOTE"} -> Nat \ {0}]
    BY <2>2, NumberTyped DEF NumberNote
  <2> QED  BY <1>9, <2>3, <2>4 DEF CommitIssueCreditNote, LedgerTypeOK, collected
<1>10. ASSUME NEW c \in Connections, CommitVoid(c)
       PROVE  LedgerTypeOK'
  <2>1. invoice' \in [Invoices -> InvoiceRow]
    BY <1>10 DEF CommitVoid, MarkVoid, LedgerTypeOK, InvoiceRow
  <2> QED  BY <1>10, <2>1 DEF CommitVoid, LedgerTypeOK, collected, credits
<1>11. ASSUME NEW r \in Requests, SingleLock(r)
       PROVE  LedgerTypeOK'
  <2>0. r \in Request
    BY LedgerAssumption
  <2>1. CASE ReversePayment(r)
    <3>1. r.key \in Keys
      BY <2>0, <2>1, RequestFields DEF ReversePayment
    <3>2. reversal' \in [Payments -> Keys \cup {NoKey}]
      BY <2>1, <3>1 DEF ReversePayment, LedgerTypeOK
    <3> QED  BY <2>1, <3>2 DEF ReversePayment, LedgerTypeOK, credits
  <2>2. CASE RefundPayment(r)
    <3>1. refund' \in [Payments -> [Keys -> RefundRow]]
      BY <2>0, <2>2, RefundTyped
    <3> QED  BY <2>2, <3>1 DEF RefundPayment, LedgerTypeOK, credits
  <2>3. CASE VoidCreditNote(r)
    <3>1. r.key \in Keys
      BY <2>0, <2>3, RequestFields DEF VoidCreditNote
    <3>2. noteVoid' \in [Notes -> Keys \cup {NoKey}]
      BY <2>3, <3>1 DEF VoidCreditNote, LedgerTypeOK
    <3> QED  BY <2>3, <3>2 DEF VoidCreditNote, LedgerTypeOK, collected
  <2>4. CASE Issue(r)
    <3>1. sequence' \in [{"INVOICE", "CREDIT_NOTE"} -> Nat \ {0}]
      BY <2>4, NumberTyped DEF Issue
    <3>2. invoice' \in [Invoices -> InvoiceRow]
      BY <2>4 DEF Issue, Number, LedgerTypeOK, InvoiceRow
    <3> QED  BY <2>4, <3>1, <3>2 DEF Issue, LedgerTypeOK, collected, credits
  <2> QED  BY <1>11, <2>1, <2>2, <2>3, <2>4 DEF SingleLock
<1>12. CASE UNCHANGED vars
  BY <1>1, <1>12 DEF vars
<1> QED
  BY <1>2, <1>3, <1>4, <1>5, <1>6, <1>7, <1>8, <1>9, <1>10, <1>11, <1>12 DEF Next

-----------------------------------------------------------------------------
(* The connections. *)

LEMMA TransactionTypeInit == Init => TransactionTypeOK
BY DEF Init, TransactionTypeOK

LEMMA BeginKeepsTypes ==
    ASSUME TransactionTypeOK, NEW c \in Connections, NEW r \in Requests,
           Begin(c, r, "looked")
    PROVE  TransactionTypeOK'
<1>1. r # NoRequest /\ done' = done /\ done[c] = {}
  BY LedgerAssumption, TransactionsAssumption DEF TransactionTypeOK, Begin, Runs
<1>2. \A d \in Connections \ {c} : request'[d] = request[d] /\ pc'[d] = pc[d]
  BY DEF TransactionTypeOK, Begin
<1>3. pc'[c] = "looked" /\ request'[c] = r
  BY DEF TransactionTypeOK, Begin
<1>4. /\ request' \in [Connections -> Requests \cup {NoRequest}]
      /\ pc' \in [Connections -> {"idle", "looked", "locking"}]
      /\ done' \in [Connections -> SUBSET Invoices]
  BY <1>1 DEF TransactionTypeOK, Begin
<1> QED  BY <1>1, <1>2, <1>3, <1>4 DEF TransactionTypeOK, Runs, Todo

LEMMA EndKeepsTypes ==
    ASSUME TransactionTypeOK, NEW c \in Connections, End(c)
    PROVE  TransactionTypeOK'
<1>1. \A d \in Connections \ {c} :
         request'[d] = request[d] /\ pc'[d] = pc[d] /\ done'[d] = done[d]
  BY DEF TransactionTypeOK, End
<1>2. request'[c] = NoRequest /\ pc'[c] = "idle" /\ done'[c] = {}
  BY DEF TransactionTypeOK, End
<1>3. /\ request' \in [Connections -> Requests \cup {NoRequest}]
      /\ pc' \in [Connections -> {"idle", "looked", "locking"}]
      /\ done' \in [Connections -> SUBSET Invoices]
  BY DEF TransactionTypeOK, End
<1> QED  BY <1>1, <1>2, <1>3 DEF TransactionTypeOK, Runs, Todo

LEMMA TransactionTypeStep ==
    ASSUME TransactionTypeOK, [Next]_vars
    PROVE  TransactionTypeOK'
<1>1. CASE UNCHANGED transaction
  BY <1>1 DEF TransactionTypeOK, transaction, Runs, Todo
<1>2. ASSUME NEW c \in Connections, NEW r \in Requests,
             LookUpKey(c, r) \/ LockPayment(c, r) \/ LockNote(c, r) \/ BeginVoid(c, r)
      PROVE  TransactionTypeOK'
  <2>1. Begin(c, r, "looked")
    BY <1>2 DEF LookUpKey, LockPayment, LockNote, BeginVoid
  <2> QED  BY <2>1, BeginKeepsTypes
<1>3. ASSUME NEW c \in Connections, ReadSums(c)
      PROVE  TransactionTypeOK'
  <2>1. request' = request /\ done' = done /\ pc' = [pc EXCEPT ![c] = "locking"]
        /\ pc[c] = "looked"
    BY <1>3 DEF ReadSums
  <2> QED  BY <2>1 DEF TransactionTypeOK, Runs, Todo
<1>4. ASSUME NEW c \in Connections, End(c)
      PROVE  TransactionTypeOK'
  BY <1>4, EndKeepsTypes
<1>5. ASSUME NEW c \in Connections, NEW i \in Invoices, AllocateLine(c, i)
      PROVE  TransactionTypeOK'
  <2>1. /\ request' = request
        /\ done' = [done EXCEPT ![c] = @ \cup {i}]
        /\ pc' = [pc EXCEPT ![c] = "looked"]
        /\ Runs(c, "allocatePayment") /\ pc[c] = "locking"
        /\ Todo(c) # {i} /\ i \in Todo(c)
    BY <1>5 DEF AllocateLine, LineAllowed, Lock, Targets, NextInvoices, Runs
  <2>2. Todo(c)' # {}
    BY <2>1 DEF Todo, TransactionTypeOK
  <2>3. Runs(c, "allocatePayment")'
    BY <2>1 DEF Runs, TransactionTypeOK
  <2>4. \A d \in Connections \ {c} : done'[d] = done[d] /\ pc'[d] = pc[d]
    BY <2>1 DEF TransactionTypeOK
  <2>5. \A d \in Connections :
           done'[d] # {} => Runs(d, "allocatePayment")' /\ Todo(d)' # {}
    BY <2>1, <2>2, <2>3, <2>4 DEF TransactionTypeOK, Runs, Todo
  <2>6. \A d \in Connections : (pc'[d] = "idle") = (request'[d] = NoRequest)
    BY <2>1, <2>4 DEF TransactionTypeOK
  <2> QED  BY <2>1, <2>5, <2>6 DEF TransactionTypeOK
<1>6. CASE UNCHANGED vars
  BY <1>1, <1>6 DEF vars
<1>7. ASSUME NEW r \in Requests, SingleLock(r)
      PROVE  TransactionTypeOK'
  BY <1>1, <1>7 DEF SingleLock
<1> QED
  BY <1>2, <1>3, <1>4, <1>5, <1>6, <1>7
     DEF Next, Rollback, CommitPayment, CommitUnallocatedPayment, CommitAllocations,
         CommitCreditNote, CommitIssueCreditNote, CommitVoid

-----------------------------------------------------------------------------
(* Row locks. *)

\* The row lock keeps a note a draft until the transaction that issues it ends.
HeldNotesAreDrafts ==
    \A c \in Connections : Runs(c, "issueCreditNote") => note[request[c].note].status = "DRAFT"

\* What a step does to the connections.
LEMMA ConnectionSteps ==
    ASSUME [Next]_vars
    PROVE  \/ UNCHANGED transaction
           \/ \E c \in Connections, r \in Requests : LockPayment(c, r) \/ LockNote(c, r)
           \/ \E c \in Connections, r \in Requests :
                 r.op \in ByKey \cup {"void"} /\ Begin(c, r, "looked")
           \/ \E c \in Connections : ReadSums(c) \/ End(c)
           \/ \E c \in Connections, i \in Invoices : AllocateLine(c, i)
<1>1. ASSUME NEW r \in Requests, SingleLock(r)
      PROVE  UNCHANGED transaction
  BY <1>1 DEF SingleLock
<1>2. ASSUME NEW c \in Connections, NEW r \in Requests, LookUpKey(c, r) \/ BeginVoid(c, r)
      PROVE  r.op \in ByKey \cup {"void"} /\ Begin(c, r, "looked")
  BY <1>2 DEF LookUpKey, BeginVoid
<1>3. ASSUME NEW c \in Connections,
             \/ Rollback(c) \/ CommitIssueCreditNote(c) \/ CommitVoid(c)
             \/ \E p \in Payments : CommitPayment(c, p) \/ CommitUnallocatedPayment(c, p)
             \/ \E i \in Invoices : CommitAllocations(c, i)
             \/ \E n \in Notes : CommitCreditNote(c, n)
      PROVE  End(c)
  BY <1>3 DEF Rollback, CommitIssueCreditNote, CommitVoid, CommitPayment,
              CommitUnallocatedPayment, CommitAllocations, CommitCreditNote
<1> QED  BY <1>1, <1>2, <1>3 DEF Next, vars

LEMMA BeginOthers ==
    ASSUME TransactionTypeOK, NEW c \in Connections, NEW r, Begin(c, r, "looked")
    PROVE  /\ done' = done /\ done[c] = {}
           /\ Runs(c, r.op)' /\ request'[c] = r
           /\ \A op : Runs(c, op)' => op = r.op
           /\ \A d \in Connections \ {c} :
                 request'[d] = request[d] /\ pc'[d] = pc[d] /\ \A op : Runs(d, op)' = Runs(d, op)
<1>1. done' = done /\ done[c] = {}
  BY DEF TransactionTypeOK, Begin, Runs
<1>2. request'[c] = r /\ pc'[c] = "looked"
  BY DEF TransactionTypeOK, Begin
<1>3. \A d \in Connections \ {c} : request'[d] = request[d] /\ pc'[d] = pc[d]
  BY DEF TransactionTypeOK, Begin
<1> QED  BY <1>1, <1>2, <1>3 DEF Runs

LEMMA EndOthers ==
    ASSUME TransactionTypeOK, NEW c \in Connections, End(c)
    PROVE  /\ done'[c] = {} /\ pc'[c] = "idle"
           /\ \A op : ~Runs(c, op)'
           /\ \A d \in Connections \ {c} :
                 /\ request'[d] = request[d] /\ pc'[d] = pc[d] /\ done'[d] = done[d]
                 /\ \A op : Runs(d, op)' = Runs(d, op)
<1>1. done'[c] = {} /\ pc'[c] = "idle"
  BY DEF TransactionTypeOK, End
<1>2. \A d \in Connections \ {c} :
         request'[d] = request[d] /\ pc'[d] = pc[d] /\ done'[d] = done[d]
  BY DEF TransactionTypeOK, End
<1> QED  BY <1>1, <1>2 DEF Runs

LEMMA LocksInit == Init => LocksExclusive /\ HeldNotesAreDrafts
BY DEF Init, LocksExclusive, HeldNotesAreDrafts, Runs

LEMMA LocksStep ==
    ASSUME TransactionTypeOK, LocksExclusive, [Next]_vars
    PROVE  LocksExclusive'
<1>1. CASE UNCHANGED transaction
  BY <1>1 DEF LocksExclusive, transaction, Runs
<1>2. ASSUME NEW c \in Connections, NEW r \in Requests, LockPayment(c, r)
      PROVE  LocksExclusive'
  <2>1. /\ Begin(c, r, "looked") /\ r.op = "allocatePayment"
        /\ \A d \in Connections : Runs(d, "allocatePayment") => request[d].payment # r.payment
    BY <1>2 DEF LockPayment, PaymentLocked
  <2> QED  BY <2>1, BeginOthers DEF LocksExclusive
<1>3. ASSUME NEW c \in Connections, NEW r \in Requests, LockNote(c, r)
      PROVE  LocksExclusive'
  <2>1. /\ Begin(c, r, "looked") /\ r.op = "issueCreditNote"
        /\ \A d \in Connections : Runs(d, "issueCreditNote") => request[d].note # r.note
    BY <1>3 DEF LockNote, NoteLocked
  <2> QED  BY <2>1, BeginOthers DEF LocksExclusive
<1>4. ASSUME NEW c \in Connections, NEW r \in Requests,
             r.op \in ByKey \cup {"void"}, Begin(c, r, "looked")
      PROVE  LocksExclusive'
  <2>1. ~Runs(c, "allocatePayment")' /\ ~Runs(c, "issueCreditNote")'
    BY <1>4, BeginOthers DEF ByKey
  <2> QED  BY <1>4, <2>1, BeginOthers DEF LocksExclusive
<1>5. ASSUME NEW c \in Connections, ReadSums(c)
      PROVE  LocksExclusive'
  BY <1>5 DEF ReadSums, LocksExclusive, Runs, TransactionTypeOK
<1>6. ASSUME NEW c \in Connections, End(c)
      PROVE  LocksExclusive'
  BY <1>6, EndOthers DEF LocksExclusive
<1>7. ASSUME NEW c \in Connections, NEW i \in Invoices, AllocateLine(c, i)
      PROVE  LocksExclusive'
  <2>1. /\ request' = request /\ pc[c] # "idle"
        /\ pc' = [pc EXCEPT ![c] = "looked"]
        /\ done' = [done EXCEPT ![c] = @ \cup {i}]
        /\ \A d \in Connections : i \notin done[d]
    BY <1>7 DEF AllocateLine, LineAllowed, Lock, InvoiceLocked, Runs
  <2>2. \A d \in Connections : \A op : Runs(d, op)' = Runs(d, op)
    BY <2>1 DEF Runs, TransactionTypeOK
  <2>3. \A d, e \in Connections : d # e => done'[d] \cap done'[e] = {}
    BY <2>1 DEF LocksExclusive, TransactionTypeOK
  <2> QED  BY <2>1, <2>2, <2>3 DEF LocksExclusive
<1> QED  BY <1>1, <1>2, <1>3, <1>4, <1>5, <1>6, <1>7, ConnectionSteps

\* The steps that touch a document.
LEMMA DocumentSteps ==
    ASSUME [Next]_vars
    PROVE  \/ UNCHANGED <<invoice, note, sequence>>
           \/ \E c \in Connections : CommitVoid(c) \/ CommitIssueCreditNote(c)
           \/ \E c \in Connections, n \in Notes : CommitCreditNote(c, n)
           \/ \E r \in Requests : Issue(r)
<1>1. ASSUME NEW c \in Connections, NEW r \in Requests,
             LookUpKey(c, r) \/ LockPayment(c, r) \/ LockNote(c, r) \/ BeginVoid(c, r)
      PROVE  UNCHANGED ledger
  BY <1>1 DEF LookUpKey, LockPayment, LockNote, BeginVoid
<1>2. ASSUME NEW c \in Connections, ReadSums(c) \/ Rollback(c)
      PROVE  UNCHANGED ledger
  BY <1>2 DEF ReadSums, Rollback
<1>3. ASSUME NEW c \in Connections, NEW p \in Payments,
             CommitPayment(c, p) \/ CommitUnallocatedPayment(c, p)
      PROVE  UNCHANGED <<invoice, note, sequence>>
  BY <1>3 DEF CommitPayment, CommitUnallocatedPayment, credits
<1>4. ASSUME NEW c \in Connections, NEW i \in Invoices,
             AllocateLine(c, i) \/ CommitAllocations(c, i)
      PROVE  UNCHANGED <<invoice, note, sequence>>
  BY <1>4 DEF AllocateLine, CommitAllocations, ledger, credits
<1>5. ASSUME NEW r \in Requests, SingleLock(r)
      PROVE  UNCHANGED <<invoice, note, sequence>> \/ Issue(r)
  BY <1>5 DEF SingleLock, ReversePayment, RefundPayment, VoidCreditNote, credits
<1> QED
  BY <1>1, <1>2, <1>3, <1>4, <1>5 DEF Next, vars, ledger, credits

LEMMA HeldNotesStep ==
    ASSUME LedgerTypeOK, TransactionTypeOK, LocksExclusive, HeldNotesAreDrafts, [Next]_vars
    PROVE  HeldNotesAreDrafts'
<1>1. CASE UNCHANGED note
  <2>1. CASE UNCHANGED transaction
    BY <1>1, <2>1 DEF HeldNotesAreDrafts, transaction, Runs
  <2>2. ASSUME NEW c \in Connections, NEW r \in Requests, LockPayment(c, r) \/ LockNote(c, r)
        PROVE  HeldNotesAreDrafts'
    <3>1. /\ Begin(c, r, "looked")
          /\ r.op = "issueCreditNote" => note[r.note].status = "DRAFT"
      BY <2>2 DEF LockPayment, LockNote
    <3> QED  BY <1>1, <3>1, BeginOthers DEF HeldNotesAreDrafts
  <2>3. ASSUME NEW c \in Connections, NEW r \in Requests,
               r.op \in ByKey \cup {"void"}, Begin(c, r, "looked")
        PROVE  HeldNotesAreDrafts'
    <3>1. r.op # "issueCreditNote"
      BY <2>3 DEF ByKey
    <3> QED  BY <1>1, <2>3, <3>1, BeginOthers DEF HeldNotesAreDrafts
  <2>4. ASSUME NEW c \in Connections, ReadSums(c)
        PROVE  HeldNotesAreDrafts'
    BY <1>1, <2>4 DEF ReadSums, HeldNotesAreDrafts, Runs, TransactionTypeOK
  <2>5. ASSUME NEW c \in Connections, End(c)
        PROVE  HeldNotesAreDrafts'
    BY <1>1, <2>5, EndOthers DEF HeldNotesAreDrafts
  <2>6. ASSUME NEW c \in Connections, NEW i \in Invoices, AllocateLine(c, i)
        PROVE  HeldNotesAreDrafts'
    <3>1. request' = request /\ pc[c] # "idle" /\ pc' = [pc EXCEPT ![c] = "looked"]
      BY <2>6 DEF AllocateLine, LineAllowed, Runs
    <3> QED  BY <1>1, <3>1 DEF HeldNotesAreDrafts, Runs, TransactionTypeOK
  <2> QED  BY <2>1, <2>2, <2>3, <2>4, <2>5, <2>6, ConnectionSteps
<1>2. ASSUME NEW c \in Connections, NEW n \in Notes, CommitCreditNote(c, n)
      PROVE  HeldNotesAreDrafts'
  <2>1. End(c) /\ note[n].status = "NONE"
    BY <1>2 DEF CommitCreditNote
  <2>2. \A m \in Notes \ {n} : note'[m] = note[m]
    BY <1>2 DEF CommitCreditNote, InsertNote, LedgerTypeOK
  <2>3. \A d \in Connections : Runs(d, "issueCreditNote") => request[d].note \in Notes
    BY RunsRequest, RequestFields
  <2> QED  BY <2>1, <2>2, <2>3, EndOthers DEF HeldNotesAreDrafts
<1>3. ASSUME NEW c \in Connections, CommitIssueCreditNote(c)
      PROVE  HeldNotesAreDrafts'
  <2>1. Runs(c, "issueCreditNote") /\ End(c) /\ NumberNote(request[c].note)
    BY <1>3 DEF CommitIssueCreditNote
  <2>2. \A d \in Connections : Runs(d, "issueCreditNote") => request[d].note \in Notes
    BY RunsRequest, RequestFields
  <2>3. \A m \in Notes \ {request[c].note} : note'[m] = note[m]
    BY <2>1, <2>2 DEF NumberNote, LedgerTypeOK
  <2>4. \A d \in Connections \ {c} :
           Runs(d, "issueCreditNote") => request[d].note # request[c].note
    BY <2>1 DEF LocksExclusive
  <2> QED  BY <2>1, <2>2, <2>3, <2>4, EndOthers DEF HeldNotesAreDrafts
<1> QED  BY <1>1, <1>2, <1>3, DocumentSteps DEF CommitVoid, Issue, credits

-----------------------------------------------------------------------------
(* Document numbers. *)

LEMMA SameNumbers ==
    ASSUME NEW S, NEW f, NEW g, NEW n, Gapless(f, S, n),
           \A x \in S : g[x].number = f[x].number
    PROVE  Gapless(g, S, n)
BY DEF Gapless

LEMMA NextNumber ==
    ASSUME NEW S, NEW f, NEW g, NEW n \in Nat \ {0}, NEW x \in S,
           \A y \in S : f[y].number \in Nat,
           Gapless(f, S, n), f[x].number = 0, g[x].number = n,
           \A y \in S \ {x} : g[y].number = f[y].number
    PROVE  Gapless(g, S, n + 1)
<1>1. {f[y].number : y \in S} \cup {0} = 0 .. n - 1
  BY DEF Gapless
<1>2. {g[y].number : y \in S} \cup {0} = ({f[y].number : y \in S} \cup {0}) \cup {n}
  OBVIOUS
<1>3. (0 .. n - 1) \cup {n} = 0 .. (n + 1) - 1
  OBVIOUS
<1>4. \A y \in S : f[y].number < n
  BY <1>1
<1> QED  BY <1>1, <1>2, <1>3, <1>4 DEF Gapless

\* Only documents that were issued have a number.
DraftsUnnumbered ==
    /\ \A i \in Invoices : invoice[i].status = "DRAFT" => invoice[i].number = 0
    /\ \A n \in Notes : note[n].status # "ISSUED" => note[n].number = 0

Numbering == NumbersGapless /\ DraftsUnnumbered

LEMMA NumberingInit == LedgerInit => Numbering
BY DEF LedgerInit, Numbering, NumbersGapless, Gapless, DraftsUnnumbered

LEMMA NumberingStep ==
    ASSUME LedgerTypeOK, TransactionTypeOK, HeldNotesAreDrafts, Numbering, [Next]_vars
    PROVE  Numbering'
<1> USE DEF Numbering, NumbersGapless
<1>1. CASE UNCHANGED <<invoice, note, sequence>>
  BY <1>1 DEF Gapless, DraftsUnnumbered
<1>2. ASSUME NEW c \in Connections, CommitVoid(c)
      PROVE  Numbering'
  <2>1. /\ invoice' = [invoice EXCEPT ![request[c].invoice].status = "VOID"]
        /\ UNCHANGED <<note, sequence>>
    BY <1>2 DEF CommitVoid, MarkVoid, credits
  <2>2. /\ invoice[request[c].invoice].status = "ISSUED"
        /\ \A i \in Invoices : invoice'[i].number = invoice[i].number
    BY <1>2, <2>1 DEF CommitVoid, LedgerTypeOK, InvoiceRow
  <2>3. DraftsUnnumbered'
    BY <2>1, <2>2 DEF DraftsUnnumbered, LedgerTypeOK, InvoiceRow
  <2>4. Gapless(invoice', Invoices, sequence["INVOICE"])
    BY <2>2, SameNumbers
  <2> QED  BY <2>1, <2>3, <2>4
<1>3. ASSUME NEW c \in Connections, NEW n \in Notes, CommitCreditNote(c, n)
      PROVE  Numbering'
  <2>1. /\ note[n].status = "NONE" /\ note[n].number = 0
        /\ UNCHANGED <<invoice, sequence>>
    BY <1>3 DEF CommitCreditNote, DraftsUnnumbered
  <2>2. /\ note'[n].status = "DRAFT" /\ note'[n].number = 0
        /\ \A m \in Notes \ {n} : note'[m] = note[m]
    BY <1>3 DEF CommitCreditNote, InsertNote, LedgerTypeOK
  <2>3. DraftsUnnumbered'
    BY <2>1, <2>2 DEF DraftsUnnumbered
  <2>4. Gapless(note', Notes, sequence["CREDIT_NOTE"])
    <3>1. \A m \in Notes : note'[m].number = note[m].number
      BY <2>1, <2>2
    <3> QED  BY <3>1, SameNumbers
  <2> QED  BY <2>1, <2>3, <2>4
<1>4. ASSUME NEW c \in Connections, CommitIssueCreditNote(c)
      PROVE  Numbering'
  <2> DEFINE n == request[c].note
  <2>1. n \in Notes
    BY <1>4, RunsRequest, RequestFields DEF CommitIssueCreditNote
  <2>2. /\ NumberNote(n) /\ UNCHANGED invoice
    BY <1>4 DEF CommitIssueCreditNote
  <2>3. /\ note'[n].status = "ISSUED" /\ note'[n].number = sequence["CREDIT_NOTE"]
        /\ \A m \in Notes \ {n} : note'[m] = note[m]
    BY <2>1, <2>2 DEF NumberNote, Number, LedgerTypeOK, NoteRow
  <2>4. /\ sequence["CREDIT_NOTE"] \in Nat \ {0}
        /\ sequence'["CREDIT_NOTE"] = sequence["CREDIT_NOTE"] + 1
        /\ sequence'["INVOICE"] = sequence["INVOICE"]
    BY <2>2 DEF NumberNote, TakeNumber, LedgerTypeOK
  <2>5. DraftsUnnumbered'
    BY <2>2, <2>3 DEF DraftsUnnumbered
  <2>6. note[n].number = 0 /\ \A m \in Notes : note[m].number \in Nat
    BY <1>4, <2>1 DEF CommitIssueCreditNote, HeldNotesAreDrafts, DraftsUnnumbered, LedgerTypeOK, NoteRow
  <2>7. Gapless(note', Notes, sequence["CREDIT_NOTE"] + 1)
    BY <2>1, <2>3, <2>4, <2>6, NextNumber
  <2> QED  BY <2>2, <2>4, <2>5, <2>7
<1>5. ASSUME NEW r \in Requests, Issue(r)
      PROVE  Numbering'
  <2> DEFINE i == r.invoice
  <2>1. i \in Invoices
    BY <1>5, RequestFields, LedgerAssumption DEF Issue
  <2>2. /\ invoice[i].status = "DRAFT" /\ invoice[i].number = 0 /\ UNCHANGED note
        /\ \A j \in Invoices : invoice[j].number \in Nat
    BY <1>5, <2>1 DEF Issue, credits, DraftsUnnumbered, LedgerTypeOK, InvoiceRow
  <2>3. /\ invoice'[i] = [status |-> "ISSUED", number |-> sequence["INVOICE"]]
        /\ \A j \in Invoices \ {i} : invoice'[j] = invoice[j]
    BY <1>5, <2>1 DEF Issue, Number, LedgerTypeOK
  <2>4. /\ sequence["INVOICE"] \in Nat \ {0}
        /\ sequence'["INVOICE"] = sequence["INVOICE"] + 1
        /\ sequence'["CREDIT_NOTE"] = sequence["CREDIT_NOTE"]
    BY <1>5 DEF Issue, TakeNumber, LedgerTypeOK
  <2>5. DraftsUnnumbered'
    BY <2>2, <2>3 DEF DraftsUnnumbered
  <2>6. Gapless(invoice', Invoices, sequence["INVOICE"] + 1)
    BY <2>1, <2>2, <2>3, <2>4, NextNumber
  <2> QED  BY <2>2, <2>4, <2>5, <2>6
<1> QED  BY <1>1, <1>2, <1>3, <1>4, <1>5, DocumentSteps

-----------------------------------------------------------------------------
(* Idempotency keys. *)

PaymentKeysOnce ==
    \A p, q \in Payments : payment[p].key = payment[q].key /\ Recorded(p) => p = q
NoteKeysOnce ==
    \A m, n \in Notes : note[m].key = note[n].key /\ note[m].status # "NONE" => m = n
ReversalKeysOnce ==
    \A p, q \in Payments : reversal[p] = reversal[q] /\ Reversed(p) => p = q

\* The steps that write a payment or a reversal.
LEMMA CollectionSteps ==
    ASSUME [Next]_vars
    PROVE  \/ UNCHANGED <<payment, reversal>>
           \/ \E c \in Connections, p \in Payments :
                 CommitPayment(c, p) \/ CommitUnallocatedPayment(c, p)
           \/ \E r \in Requests : ReversePayment(r)
<1>1. ASSUME NEW c \in Connections, NEW r \in Requests,
             LookUpKey(c, r) \/ LockPayment(c, r) \/ LockNote(c, r) \/ BeginVoid(c, r)
      PROVE  UNCHANGED ledger
  BY <1>1 DEF LookUpKey, LockPayment, LockNote, BeginVoid
<1>2. ASSUME NEW c \in Connections, ReadSums(c) \/ Rollback(c)
      PROVE  UNCHANGED ledger
  BY <1>2 DEF ReadSums, Rollback
<1>3. ASSUME NEW c \in Connections, NEW i \in Invoices,
             AllocateLine(c, i) \/ CommitAllocations(c, i)
      PROVE  UNCHANGED <<payment, reversal>>
  BY <1>3 DEF AllocateLine, CommitAllocations, ledger, collected
<1>4. ASSUME NEW c \in Connections,
             \/ CommitIssueCreditNote(c) \/ CommitVoid(c)
             \/ \E n \in Notes : CommitCreditNote(c, n)
      PROVE  UNCHANGED <<payment, reversal>>
  BY <1>4 DEF CommitIssueCreditNote, CommitVoid, CommitCreditNote, collected
<1>5. ASSUME NEW r \in Requests, SingleLock(r)
      PROVE  UNCHANGED <<payment, reversal>> \/ ReversePayment(r)
  BY <1>5 DEF SingleLock, RefundPayment, VoidCreditNote, Issue, collected
<1> QED
  BY <1>1, <1>2, <1>3, <1>4, <1>5 DEF Next, vars, ledger, collected

LEMMA KeysInit == LedgerInit => KeysAppliedOnce
BY DEF LedgerInit, KeysAppliedOnce, Recorded, Reversed

LEMMA PaymentInserted ==
    ASSUME LedgerTypeOK, PaymentKeysOnce, NEW p \in Payments, NEW k, NEW i, NEW a, NEW s,
           InsertPayment(p, k, i, a, s), ~PaymentKeyUsed(k)
    PROVE  PaymentKeysOnce'
<1>1. /\ payment'[p].key = k
      /\ \A q \in Payments \ {p} : payment'[q] = payment[q] /\ payment[q].key # k
  BY DEF LedgerTypeOK, InsertPayment, PaymentKeyUsed
<1> QED  BY <1>1 DEF PaymentKeysOnce, Recorded

LEMMA KeysStep ==
    ASSUME LedgerTypeOK, TransactionTypeOK, HeldNotesAreDrafts, KeysAppliedOnce, [Next]_vars
    PROVE  KeysAppliedOnce'
<1>0. PaymentKeysOnce /\ NoteKeysOnce /\ ReversalKeysOnce
  BY DEF KeysAppliedOnce, PaymentKeysOnce, NoteKeysOnce, ReversalKeysOnce
<1>1. PaymentKeysOnce'
  <2>1. CASE UNCHANGED payment
    BY <1>0, <2>1 DEF PaymentKeysOnce, Recorded
  <2>2. ASSUME NEW c \in Connections, NEW p \in Payments, CommitPayment(c, p)
        PROVE  PaymentKeysOnce'
    <3>1. /\ ~PaymentKeyUsed(request[c].key)
          /\ InsertPayment(p, request[c].key, request[c].invoice, request[c].amount,
                           Payer(request[c].student, request[c].invoice))
      BY <2>2 DEF CommitPayment, PaymentKeyFree
    <3> QED  BY <1>0, <3>1, PaymentInserted
  <2>3. ASSUME NEW c \in Connections, NEW p \in Payments, CommitUnallocatedPayment(c, p)
        PROVE  PaymentKeysOnce'
    <3>1. /\ ~PaymentKeyUsed(request[c].key)
          /\ InsertPayment(p, request[c].key, NoInvoice, request[c].amount, request[c].student)
      BY <2>3 DEF CommitUnallocatedPayment, PaymentKeyFree
    <3> QED  BY <1>0, <3>1, PaymentInserted
  <2> QED  BY <2>1, <2>2, <2>3, CollectionSteps DEF ReversePayment
<1>2. ReversalKeysOnce'
  <2>1. CASE UNCHANGED reversal
    BY <1>0, <2>1 DEF ReversalKeysOnce, Reversed
  <2>2. ASSUME NEW r \in Requests, ReversePayment(r)
        PROVE  ReversalKeysOnce'
    <3>1. /\ reversal' = [reversal EXCEPT ![r.payment] = r.key]
          /\ \A q \in Payments : reversal[q] # r.key
      BY <2>2 DEF ReversePayment, ReversalKeyUsed
    <3> QED  BY <1>0, <3>1 DEF ReversalKeysOnce, Reversed, LedgerTypeOK
  <2> QED  BY <2>1, <2>2, CollectionSteps DEF CommitPayment, CommitUnallocatedPayment
<1>3. NoteKeysOnce'
  <2>1. CASE UNCHANGED note
    BY <1>0, <2>1 DEF NoteKeysOnce
  <2>2. ASSUME NEW c \in Connections, NEW n \in Notes, CommitCreditNote(c, n)
        PROVE  NoteKeysOnce'
    <3>1. /\ note'[n].key = request[c].key
          /\ \A m \in Notes \ {n} : note'[m] = note[m] /\ note[m].key # request[c].key
      BY <2>2 DEF CommitCreditNote, InsertNote, NoteKeyUsed, LedgerTypeOK
    <3> QED  BY <1>0, <3>1 DEF NoteKeysOnce
  <2>3. ASSUME NEW c \in Connections, CommitIssueCreditNote(c)
        PROVE  NoteKeysOnce'
    <3> DEFINE n == request[c].note
    <3>1. n \in Notes /\ NumberNote(n)
      BY <2>3, RunsRequest, RequestFields DEF CommitIssueCreditNote
    <3>2. /\ note[n].status = "DRAFT" /\ note'[n].key = note[n].key
          /\ \A m \in Notes \ {n} : note'[m] = note[m]
      BY <2>3, <3>1 DEF CommitIssueCreditNote, HeldNotesAreDrafts, NumberNote,
                        LedgerTypeOK, NoteRow
    <3> QED  BY <1>0, <3>2 DEF NoteKeysOnce
  <2> QED  BY <2>1, <2>2, <2>3, DocumentSteps DEF CommitVoid, Issue, credits
<1> QED
  BY <1>1, <1>2, <1>3 DEF KeysAppliedOnce, PaymentKeysOnce, NoteKeysOnce, ReversalKeysOnce

-----------------------------------------------------------------------------
(* Allocations. *)

\* Only a payment has allocations.
AllocationsPosted ==
    \A p \in Payments : ~Recorded(p) => \A i \in Invoices : NotAllocated(p, i)

\* The row lock keeps others from allocating the payment of a batch under way:
\* it has what the batch gives, as it had when it was locked.
HeldPaymentsKept ==
    \A c \in Connections : Runs(c, "allocatePayment") =>
        /\ Recorded(request[c].payment)
        /\ \A i \in done[c] : NotAllocated(request[c].payment, i)
        /\ Allocated(request[c].payment) + Sum(request[c].lines, Invoices)
              <= payment[request[c].payment].amount

LEMMA AllocatedSame ==
    ASSUME NEW p, alloc'[p] = alloc[p]
    PROVE  Allocated(p)' = Allocated(p)
BY DEF Allocated

LEMMA AllocationSteps ==
    ASSUME [Next]_vars
    PROVE  \/ UNCHANGED <<payment, alloc>>
           \/ \E c \in Connections, p \in Payments :
                 CommitPayment(c, p) \/ CommitUnallocatedPayment(c, p)
           \/ \E c \in Connections, i \in Invoices : CommitAllocations(c, i)
<1>1. ASSUME NEW c \in Connections, NEW r \in Requests,
             LookUpKey(c, r) \/ LockPayment(c, r) \/ LockNote(c, r) \/ BeginVoid(c, r)
      PROVE  UNCHANGED ledger
  BY <1>1 DEF LookUpKey, LockPayment, LockNote, BeginVoid
<1>2. ASSUME NEW c \in Connections, ReadSums(c) \/ Rollback(c)
      PROVE  UNCHANGED ledger
  BY <1>2 DEF ReadSums, Rollback
<1>3. ASSUME NEW c \in Connections, NEW i \in Invoices, AllocateLine(c, i)
      PROVE  UNCHANGED ledger
  BY <1>3 DEF AllocateLine
<1>4. ASSUME NEW c \in Connections,
             \/ CommitIssueCreditNote(c) \/ CommitVoid(c)
             \/ \E n \in Notes : CommitCreditNote(c, n)
      PROVE  UNCHANGED <<payment, alloc>>
  BY <1>4 DEF CommitIssueCreditNote, CommitVoid, CommitCreditNote, collected
<1>5. ASSUME NEW r \in Requests, SingleLock(r)
      PROVE  UNCHANGED <<payment, alloc>>
  BY <1>5 DEF SingleLock, ReversePayment, RefundPayment, VoidCreditNote, Issue, collected
<1> QED
  BY <1>1, <1>2, <1>3, <1>4, <1>5 DEF Next, vars, ledger, collected

LEMMA PaymentWrites ==
    ASSUME LedgerTypeOK, TransactionTypeOK, NEW c \in Connections, NEW p \in Payments,
           CommitPayment(c, p) \/ CommitUnallocatedPayment(c, p)
    PROVE  /\ ~Recorded(p) /\ Recorded(p)' /\ End(c)
           /\ \A q \in Payments \ {p} : payment'[q] = payment[q] /\ alloc'[q] = alloc[q]
<1>1. CASE CommitPayment(c, p)
  <2>1. request[c].amount \in Amounts
    BY <1>1, RunsRequest, RequestFields DEF CommitPayment
  <2> QED  BY <1>1, <2>1 DEF CommitPayment, InsertPayment, InsertAllocation, Recorded,
                             LedgerTypeOK, Amounts
<1>2. CASE CommitUnallocatedPayment(c, p)
  <2>1. request[c].amount \in Amounts
    BY <1>2, RunsRequest, RequestFields DEF CommitUnallocatedPayment
  <2> QED  BY <1>2, <2>1 DEF CommitUnallocatedPayment, InsertPayment, Recorded,
                             LedgerTypeOK, Amounts
<1> QED  BY <1>1, <1>2

LEMMA BatchWrites ==
    ASSUME LedgerTypeOK, TransactionTypeOK, HeldPaymentsKept,
           NEW c \in Connections, NEW i \in Invoices, CommitAllocations(c, i)
    PROVE  /\ Runs(c, "allocatePayment") /\ End(c) /\ payment' = payment
           /\ request[c].payment \in Payments /\ Recorded(request[c].payment)
           /\ \A p \in Payments \ {request[c].payment} : alloc'[p] = alloc[p]
           /\ \A j \in Invoices : NotAllocated(request[c].payment, j)
                 \/ alloc'[request[c].payment][j] = alloc[request[c].payment][j]
<1> DEFINE r == request[c]
<1>1. Runs(c, "allocatePayment") /\ End(c) /\ payment' = payment /\ Todo(c) = {i}
      /\ NotAllocated(r.payment, i)
  BY DEF CommitAllocations, LineAllowed
<1>2. r.payment \in Payments /\ r.lines \in Lines
  BY <1>1, RunsRequest, RequestFields
<1>3. alloc' = [alloc EXCEPT ![r.payment] = [j \in Invoices |->
                  IF r.lines[j] > 0 THEN [key |-> r.key, amount |-> r.lines[j]]
                                    ELSE alloc[r.payment][j]]]
  BY <1>2 DEF CommitAllocations, InsertAllocations, LedgerTypeOK
<1>4. \A j \in Invoices : r.lines[j] > 0 => j = i \/ j \in done[c]
  BY <1>1 DEF Todo, Batch
<1>5. Recorded(r.payment) /\ \A j \in done[c] : NotAllocated(r.payment, j)
  BY <1>1 DEF HeldPaymentsKept
<1>6. \A j \in Invoices : r.lines[j] > 0 => NotAllocated(r.payment, j)
  BY <1>1, <1>4, <1>5
<1> QED  BY <1>1, <1>2, <1>3, <1>5, <1>6 DEF LedgerTypeOK

LEMMA HeldPaymentsInit == Init => AllocationsPosted /\ HeldPaymentsKept
BY DEF Init, LedgerInit, AllocationsPosted, HeldPaymentsKept, NotAllocated, Runs

LEMMA AllocationsPostedStep ==
    ASSUME LedgerTypeOK, TransactionTypeOK, HeldPaymentsKept, AllocationsPosted, [Next]_vars
    PROVE  AllocationsPosted'
<1>1. CASE UNCHANGED <<payment, alloc>>
  BY <1>1 DEF AllocationsPosted, Recorded, NotAllocated
<1>2. ASSUME NEW c \in Connections, NEW p \in Payments,
             CommitPayment(c, p) \/ CommitUnallocatedPayment(c, p)
      PROVE  AllocationsPosted'
  BY <1>2, PaymentWrites DEF AllocationsPosted, Recorded, NotAllocated
<1>3. ASSUME NEW c \in Connections, NEW i \in Invoices, CommitAllocations(c, i)
      PROVE  AllocationsPosted'
  BY <1>3, BatchWrites DEF AllocationsPosted, Recorded, NotAllocated
<1> QED  BY <1>1, <1>2, <1>3, AllocationSteps

LEMMA HeldPaymentsStep ==
    ASSUME LedgerTypeOK, TransactionTypeOK, LocksExclusive, HeldPaymentsKept, [Next]_vars
    PROVE  HeldPaymentsKept'
<1>0. \A d \in Connections : Runs(d, "allocatePayment") => request[d].payment \in Payments
  BY RunsRequest, RequestFields
<1>00. \A p : alloc'[p] = alloc[p] => Allocated(p)' = Allocated(p)
  BY AllocatedSame
<1>1. CASE UNCHANGED <<payment, alloc>>
  <2>1. CASE UNCHANGED transaction
    BY <1>00, <1>1, <2>1 DEF HeldPaymentsKept, transaction, Runs, Recorded, NotAllocated
  <2>2. ASSUME NEW c \in Connections, NEW r \in Requests, LockPayment(c, r) \/ LockNote(c, r)
        PROVE  HeldPaymentsKept'
    <3>1. /\ Begin(c, r, "looked")
          /\ r.op = "allocatePayment" =>
                /\ Recorded(r.payment)
                /\ Allocated(r.payment) + Sum(r.lines, Invoices) <= payment[r.payment].amount
      BY <2>2 DEF LockPayment, LockNote
    <3> QED  BY <1>00, <1>1, <3>1, BeginOthers DEF HeldPaymentsKept, Recorded, NotAllocated
  <2>3. ASSUME NEW c \in Connections, NEW r \in Requests,
               r.op \in ByKey \cup {"void"}, Begin(c, r, "looked")
        PROVE  HeldPaymentsKept'
    <3>1. r.op # "allocatePayment"
      BY <2>3 DEF ByKey
    <3> QED  BY <1>00, <1>1, <2>3, <3>1, BeginOthers DEF HeldPaymentsKept, Recorded, NotAllocated
  <2>4. ASSUME NEW c \in Connections, ReadSums(c)
        PROVE  HeldPaymentsKept'
    BY <1>00, <1>1, <2>4 DEF ReadSums, HeldPaymentsKept, Runs, TransactionTypeOK, Recorded, NotAllocated
  <2>5. ASSUME NEW c \in Connections, End(c)
        PROVE  HeldPaymentsKept'
    BY <1>00, <1>1, <2>5, EndOthers DEF HeldPaymentsKept, Recorded, NotAllocated
  <2>6. ASSUME NEW c \in Connections, NEW i \in Invoices, AllocateLine(c, i)
        PROVE  HeldPaymentsKept'
    <3>1. /\ request' = request /\ pc[c] # "idle" /\ pc' = [pc EXCEPT ![c] = "looked"]
          /\ done' = [done EXCEPT ![c] = @ \cup {i}]
          /\ NotAllocated(request[c].payment, i)
      BY <2>6 DEF AllocateLine, LineAllowed, Runs
    <3> QED  BY <1>00, <1>1, <3>1 DEF HeldPaymentsKept, Runs, TransactionTypeOK, Recorded, NotAllocated
  <2> QED  BY <2>1, <2>2, <2>3, <2>4, <2>5, <2>6, ConnectionSteps
<1>2. ASSUME NEW c \in Connections, NEW p \in Payments,
             CommitPayment(c, p) \/ CommitUnallocatedPayment(c, p)
      PROVE  HeldPaymentsKept'
  <2>1. \A d \in Connections : Runs(d, "allocatePayment") => request[d].payment # p
    BY <1>2, PaymentWrites DEF HeldPaymentsKept
  <2>2. /\ End(c)
        /\ \A q \in Payments \ {p} : payment'[q] = payment[q] /\ alloc'[q] = alloc[q]
    BY <1>2, PaymentWrites
  <2> QED  BY <1>0, <1>00, <2>1, <2>2, EndOthers DEF HeldPaymentsKept, Recorded, NotAllocated
<1>3. ASSUME NEW c \in Connections, NEW i \in Invoices, CommitAllocations(c, i)
      PROVE  HeldPaymentsKept'
  <2>1. /\ Runs(c, "allocatePayment") /\ End(c) /\ payment' = payment
        /\ \A p \in Payments \ {request[c].payment} : alloc'[p] = alloc[p]
    BY <1>3, BatchWrites
  <2>2. \A d \in Connections \ {c} :
           Runs(d, "allocatePayment") => request[d].payment # request[c].payment
    BY <2>1 DEF LocksExclusive
  <2> QED  BY <1>0, <1>00, <2>1, <2>2, EndOthers DEF HeldPaymentsKept, Recorded, NotAllocated
<1> QED  BY <1>1, <1>2, <1>3, AllocationSteps

-----------------------------------------------------------------------------
(* What a payment has: allocations and refunds within its amount. *)

LEMMA RefundSteps ==
    ASSUME [Next]_vars
    PROVE  \/ UNCHANGED refund
           \/ UNCHANGED <<payment, alloc>> /\ \E r \in Requests : RefundPayment(r)
<1>1. ASSUME NEW r \in Requests, SingleLock(r)
      PROVE  UNCHANGED refund \/ (UNCHANGED <<payment, alloc>> /\ RefundPayment(r))
  BY <1>1 DEF SingleLock, ReversePayment, RefundPayment, VoidCreditNote, Issue, collected
<1>2. ASSUME NEW c \in Connections, NEW r \in Requests,
             LookUpKey(c, r) \/ LockPayment(c, r) \/ LockNote(c, r) \/ BeginVoid(c, r)
      PROVE  UNCHANGED refund
  BY <1>2 DEF LookUpKey, LockPayment, LockNote, BeginVoid, ledger, collected
<1>3. ASSUME NEW c \in Connections,
             \/ ReadSums(c) \/ Rollback(c) \/ CommitIssueCreditNote(c) \/ CommitVoid(c)
             \/ \E n \in Notes : CommitCreditNote(c, n)
      PROVE  UNCHANGED refund
  BY <1>3 DEF ReadSums, Rollback, CommitIssueCreditNote, CommitVoid, CommitCreditNote, ledger, collected
<1>4. ASSUME NEW c \in Connections, NEW i \in Invoices, AllocateLine(c, i) \/ CommitAllocations(c, i)
      PROVE  UNCHANGED refund
  BY <1>4 DEF AllocateLine, CommitAllocations, ledger, collected
<1>5. ASSUME NEW c \in Connections, NEW p \in Payments,
             CommitPayment(c, p) \/ CommitUnallocatedPayment(c, p)
      PROVE  UNCHANGED refund
  BY <1>5 DEF CommitPayment, CommitUnallocatedPayment
<1> QED
  BY <1>1, <1>2, <1>3, <1>4, <1>5 DEF Next, vars, ledger, collected

\* The sums over a payment's rows are of natural numbers.
LEMMA PaymentSums ==
    ASSUME LedgerTypeOK, NEW p \in Payments
    PROVE  /\ Allocated(p) \in Nat /\ \A i \in Invoices : alloc[p][i].amount <= Allocated(p)
           /\ Refunded(p) \in Nat
           /\ \A i \in Invoices : TakenBack(p, i) \in Nat
           /\ \A k \in Keys : Sum(refund[p][k].parts, Invoices) \in Nat
<1>1. \A i \in Invoices : alloc[p][i].amount \in Nat
  BY DEF LedgerTypeOK, AllocationRow
<1>2. \A k \in Keys : refund[p][k].amount \in Nat /\ refund[p][k].parts \in [Invoices -> Nat]
  BY DEF LedgerTypeOK, RefundRow
<1>3. Allocated(p) \in Nat /\ \A i \in Invoices : alloc[p][i].amount <= Allocated(p)
  <2> DEFINE f == [i \in Invoices |-> alloc[p][i].amount]
  <2>1. \A i \in Invoices : f[i] \in Nat
    BY <1>1
  <2>2. Sum(f, Invoices) \in Nat /\ \A i \in Invoices : f[i] <= Sum(f, Invoices)
    <3> HIDE DEF f
    <3> QED  BY <2>1, LedgerAssumption, SumNonNegative
  <2> QED  BY <2>2 DEF Allocated
<1>4. Refunded(p) \in Nat
  <2> DEFINE f == [k \in Keys |-> refund[p][k].amount]
  <2>1. \A k \in Keys : f[k] \in Nat
    BY <1>2
  <2>2. Sum(f, Keys) \in Nat
    <3> HIDE DEF f
    <3> QED  BY <2>1, LedgerAssumption, SumNonNegative
  <2> QED  BY <2>2 DEF Refunded
<1>5. ASSUME NEW i \in Invoices  PROVE TakenBack(p, i) \in Nat
  <2> DEFINE f == [k \in Keys |-> refund[p][k].parts[i]]
  <2>1. \A k \in Keys : f[k] \in Nat
    BY <1>2
  <2>2. Sum(f, Keys) \in Nat
    <3> HIDE DEF f
    <3> QED  BY <2>1, LedgerAssumption, SumNonNegative
  <2> QED  BY <2>2 DEF TakenBack
<1>6. ASSUME NEW k \in Keys  PROVE Sum(refund[p][k].parts, Invoices) \in Nat
  <2>1. \A i \in Invoices : refund[p][k].parts[i] \in Nat
    BY <1>2
  <2> QED  BY <2>1, LedgerAssumption, SumNonNegative
<1> QED  BY <1>3, <1>4, <1>5, <1>6

\* What one payment's rows must satisfy.
HasEnough(p) ==
    /\ Allocated(p) <= payment[p].amount
    /\ Refunded(p) <= payment[p].amount
    /\ \A i \in Invoices : TakenBack(p, i) <= alloc[p][i].amount
    /\ \A k \in Keys : Sum(refund[p][k].parts, Invoices) <= refund[p][k].amount

LEMMA OnlyZero == ASSUME NEW x \in Int, x = x + x PROVE x = 0
OBVIOUS

LEMMA WithinInit == LedgerInit => RefundsWithinPayment
<1> SUFFICES ASSUME LedgerInit, NEW p \in Payments  PROVE HasEnough(p)
  BY DEF RefundsWithinPayment, HasEnough
<1>1. Sum(NoPart, Invoices) = 0
  <2>1. \A i \in Invoices : NoPart[i] \in Nat /\ NoPart[i] = 0
    BY DEF NoPart
  <2>2. Sum(NoPart, Invoices) \in Nat
    BY <2>1, LedgerAssumption, SumNonNegative
  <2>3. NoPart = [i \in Invoices |-> NoPart[i] + NoPart[i]]
    BY <2>1 DEF NoPart
  <2>4. \A i \in Invoices : NoPart[i] \in Int /\ NoPart[i] = NoPart[i] + NoPart[i]
    BY <2>1
  <2>5. Sum(NoPart, Invoices) = Sum(NoPart, Invoices) + Sum(NoPart, Invoices)
    BY <2>4, LedgerAssumption, SumPlus
  <2>6. Sum(NoPart, Invoices) \in Int
    BY <2>2
  <2> QED  BY <2>5, <2>6, OnlyZero
<1>2. Allocated(p) = Sum(NoPart, Invoices)
  BY DEF LedgerInit, Allocated, NoPart
<1> DEFINE none == [k \in Keys |-> 0]
<1>3. Sum(none, Keys) = 0
  <2>1. \A k \in Keys : none[k] \in Int /\ none[k] = none[k] + none[k]
    OBVIOUS
  <2>2. Sum(none, Keys) = Sum(none, Keys) + Sum(none, Keys) /\ Sum(none, Keys) \in Int
    <3> HIDE DEF none
    <3> QED  BY <2>1, LedgerAssumption, SumPlus, SumInt
  <2> HIDE DEF none
  <2> QED  BY <2>2, OnlyZero
<1>4. Refunded(p) = Sum(none, Keys)
  BY DEF LedgerInit, Refunded
<1>5. ASSUME NEW i \in Invoices  PROVE TakenBack(p, i) = Sum(none, Keys)
  BY DEF LedgerInit, TakenBack, NoPart
<1>6. payment[p].amount = 0 /\ (\A i \in Invoices : alloc[p][i].amount = 0)
      /\ \A k \in Keys : refund[p][k] = [amount |-> 0, parts |-> NoPart]
  BY DEF LedgerInit
<1> QED  BY <1>1, <1>2, <1>3, <1>4, <1>5, <1>6 DEF HasEnough

\* Of an amount and a sum, the smaller is within the amount.
LEMMA MinWithin ==
    ASSUME NEW a \in Int, NEW b \in Int
    PROVE  Min({a, b}) <= a /\ Min({a, b}) <= b /\ Min({a, b}) \in {a, b}
<1>1. \E x \in {a, b} : \A y \in {a, b} : x <= y
  OBVIOUS
<1> QED  BY <1>1 DEF Min

LEMMA RefundWrites ==
    ASSUME LedgerTypeOK, LedgerTypeOK', RefundsWithinPayment,
           NEW r \in Requests, RefundPayment(r), UNCHANGED <<payment, alloc>>
    PROVE  RefundsWithinPayment'
<1> DEFINE p == r.payment
           k == r.key
<1>1. p \in Payments /\ k \in Keys /\ r.amount \in Amounts
  BY LedgerAssumption, RequestFields DEF RefundPayment
<1>2. PICK parts \in RefundSplits(p, r.amount) :
        refund' = [refund EXCEPT ![p][k] = [amount |-> r.amount, parts |-> parts]]
  BY DEF RefundPayment
<1>3. refund[p][k].amount = 0 /\ Refunded(p) + r.amount <= payment[p].amount
  BY DEF RefundPayment, RefundCovered
<1> DEFINE left == [i \in Invoices |-> alloc[p][i].amount - TakenBack(p, i)]
<1>4. \A i \in Invoices : left[i] \in Int
  BY <1>1, PaymentSums DEF LedgerTypeOK, AllocationRow
<1>5. Sum(left, Invoices) \in Int
  <2> HIDE DEF left
  <2> QED  BY <1>4, LedgerAssumption, SumInt
<1>6. /\ parts \in [Invoices -> Nat]
      /\ \A i \in Invoices : parts[i] <= left[i]
      /\ Sum(parts, Invoices) = Min({r.amount, Sum(left, Invoices)})
  <2> HIDE DEF left
  <2>1. parts \in Spread(left, r.amount)
    BY <1>2 DEF RefundSplits, left
  <2>2. 0 .. r.amount \subseteq Nat
    OBVIOUS
  <2> QED  BY <2>1, <2>2 DEF Spread
<1>7. Sum(parts, Invoices) <= r.amount
  <2> HIDE DEF left
  <2>1. r.amount \in Int
    BY <1>1 DEF Amounts
  <2>2. Min({r.amount, Sum(left, Invoices)}) <= r.amount
    BY <1>5, <2>1, MinWithin
  <2> QED  BY <1>6, <2>2
<1>8. \A q \in Payments \ {p} : refund'[q] = refund[q]
  BY <1>1, <1>2 DEF LedgerTypeOK
<1>9. /\ refund'[p][k] = [amount |-> r.amount, parts |-> parts]
      /\ \A j \in Keys \ {k} : refund'[p][j] = refund[p][j]
  BY <1>1, <1>2 DEF LedgerTypeOK
<1>10. \A j \in Keys : /\ refund[p][j].amount \in Nat /\ refund'[p][j].amount \in Nat
                       /\ refund[p][j].parts \in [Invoices -> Nat]
                       /\ refund'[p][j].parts \in [Invoices -> Nat]
  BY <1>1 DEF LedgerTypeOK, RefundRow
<1>11. ASSUME NEW q \in Payments \ {p}  PROVE HasEnough(q)'
  <2>1. Refunded(q)' = Refunded(q) /\ Allocated(q)' = Allocated(q)
    BY <1>8 DEF Refunded, Allocated
  <2>2. \A i \in Invoices : TakenBack(q, i)' = TakenBack(q, i)
    BY <1>8 DEF TakenBack
  <2>3. \A j \in Keys : Sum(refund'[q][j].parts, Invoices) = Sum(refund[q][j].parts, Invoices)
    BY <1>8
  <2> QED  BY <1>8, <2>1, <2>2, <2>3 DEF RefundsWithinPayment, HasEnough
<1>12. HasEnough(p)'
  <2>1. Allocated(p)' = Allocated(p)
    BY DEF Allocated
  <2>2. Refunded(p)' = Refunded(p) + r.amount
    <3> DEFINE f == [j \in Keys |-> refund[p][j].amount]
               g == [j \in Keys |-> refund'[p][j].amount]
    <3>1. \A j \in Keys : f[j] \in Int /\ g[j] \in Int
      BY <1>10
    <3>2. f[k] = 0 /\ g[k] = r.amount /\ \A j \in Keys : j # k => f[j] = g[j]
      BY <1>1, <1>3, <1>9
    <3>3. Sum(g, Keys) = Sum(f, Keys) - f[k] + g[k] /\ Sum(f, Keys) \in Int
      <4> HIDE DEF f, g
      <4> QED  BY <1>1, <3>1, <3>2, LedgerAssumption, SumChange, SumInt
    <3>4. Sum(g, Keys) = Sum(f, Keys) + r.amount
      <4> HIDE DEF f, g
      <4> QED  BY <1>1, <3>2, <3>3 DEF Amounts
    <3> QED  BY <3>4 DEF Refunded
  <2>3. ASSUME NEW i \in Invoices  PROVE (TakenBack(p, i) <= alloc[p][i].amount)'
    <3> DEFINE f == [j \in Keys |-> refund[p][j].parts[i]]
               g == [j \in Keys |-> refund'[p][j].parts[i]]
    <3>1. \A j \in Keys : f[j] \in Nat /\ g[j] \in Nat
      BY <1>10
    <3>2. g[k] = parts[i] /\ \A j \in Keys : j # k => f[j] = g[j]
      BY <1>1, <1>9
    <3>3. Sum(g, Keys) = Sum(f, Keys) - f[k] + g[k] /\ Sum(f, Keys) \in Int
      <4> HIDE DEF f, g
      <4>1. \A j \in Keys : f[j] \in Int /\ g[j] \in Int
        BY <3>1
      <4> QED  BY <1>1, <3>2, <4>1, LedgerAssumption, SumChange, SumInt
    <3>4. f[k] \in Nat /\ parts[i] \in Nat
      BY <1>1, <1>6, <3>1
    <3>5. Sum(g, Keys) <= Sum(f, Keys) + parts[i]
      <4> HIDE DEF f, g
      <4> QED  BY <3>2, <3>3, <3>4
    <3>6. TakenBack(p, i) = Sum(f, Keys) /\ TakenBack(p, i)' = Sum(g, Keys)
      BY DEF TakenBack
    <3>7. parts[i] <= alloc[p][i].amount - TakenBack(p, i)
      BY <1>6
    <3>8. alloc[p][i].amount \in Nat /\ alloc'[p][i].amount = alloc[p][i].amount
      BY <1>1 DEF LedgerTypeOK, AllocationRow
    <3>9. Sum(g, Keys) <= alloc'[p][i].amount
      <4> HIDE DEF f, g
      <4>1. Sum(g, Keys) \in Int
        BY <3>2, <3>3, <3>4
      <4> QED  BY <3>3, <3>4, <3>5, <3>6, <3>7, <3>8, <4>1
    <3> QED  BY <3>6, <3>9
  <2>4. \A j \in Keys : Sum(refund'[p][j].parts, Invoices) <= refund'[p][j].amount
    BY <1>1, <1>7, <1>9 DEF RefundsWithinPayment
  <2>5. Allocated(p)' <= payment'[p].amount
    BY <1>1, <2>1 DEF RefundsWithinPayment
  <2>6. Refunded(p)' <= payment'[p].amount
    BY <1>3, <2>2
  <2> QED  BY <2>3, <2>4, <2>5, <2>6 DEF HasEnough
<1> QED  BY <1>11, <1>12 DEF RefundsWithinPayment, HasEnough

\* Rows that a step leaves alone stay within bounds.
LEMMA WithinKept ==
    ASSUME RefundsWithinPayment, NEW p \in Payments, refund' = refund,
           payment'[p] = payment[p], alloc'[p] = alloc[p]
    PROVE  HasEnough(p)'
<1>1. Allocated(p)' = Allocated(p) /\ Refunded(p)' = Refunded(p)
  BY DEF Allocated, Refunded
<1>2. \A i \in Invoices : TakenBack(p, i)' = TakenBack(p, i)
  BY DEF TakenBack
<1>3. \A k \in Keys : Sum(refund'[p][k].parts, Invoices) = Sum(refund[p][k].parts, Invoices)
  OBVIOUS
<1> QED  BY <1>1, <1>2, <1>3 DEF RefundsWithinPayment, HasEnough

\* Where refunds stay and allocations only grow, what is left to show is that
\* the payment covers its allocations and did not shrink.
LEMMA WithinGrown ==
    ASSUME LedgerTypeOK, LedgerTypeOK', RefundsWithinPayment, NEW p \in Payments, refund' = refund,
           payment[p].amount <= payment'[p].amount,
           \A i \in Invoices : alloc[p][i].amount <= alloc'[p][i].amount,
           Allocated(p)' <= payment'[p].amount
    PROVE  HasEnough(p)'
<1>1. Refunded(p)' = Refunded(p)
  BY DEF Refunded
<1>2. \A i \in Invoices : TakenBack(p, i)' = TakenBack(p, i)
  BY DEF TakenBack
<1>3. \A k \in Keys : Sum(refund'[p][k].parts, Invoices) = Sum(refund[p][k].parts, Invoices)
  OBVIOUS
<1>4. /\ payment[p].amount \in Nat /\ payment'[p].amount \in Nat
      /\ \A i \in Invoices : alloc[p][i].amount \in Nat /\ alloc'[p][i].amount \in Nat
  BY DEF LedgerTypeOK, PaymentRow, AllocationRow
<1>5. Refunded(p) \in Nat /\ \A i \in Invoices : TakenBack(p, i) \in Nat
  BY PaymentSums
<1>6. Refunded(p)' <= payment'[p].amount
  BY <1>1, <1>4, <1>5 DEF RefundsWithinPayment
<1>7. ASSUME NEW i \in Invoices  PROVE TakenBack(p, i)' <= alloc'[p][i].amount
  <2>1. TakenBack(p, i) <= alloc[p][i].amount /\ TakenBack(p, i) \in Nat
    BY <1>5 DEF RefundsWithinPayment
  <2>2. alloc[p][i].amount \in Nat /\ alloc'[p][i].amount \in Nat /\ TakenBack(p, i)' = TakenBack(p, i)
    BY <1>2, <1>4
  <2> QED  BY <2>1, <2>2
<1>8. \A k \in Keys : Sum(refund'[p][k].parts, Invoices) <= refund'[p][k].amount
  BY <1>3 DEF RefundsWithinPayment
<1> QED  BY <1>6, <1>7, <1>8 DEF HasEnough

\* A new payment has no allocations but its own.
LEMMA PaymentFits ==
    ASSUME LedgerTypeOK, LedgerTypeOK', AllocationsPosted, RefundsWithinPayment,
           NEW p \in Payments, refund' = refund, ~Recorded(p),
           NEW i \in Invoices, alloc'[p][i].amount <= payment'[p].amount,
           \A j \in Invoices \ {i} : alloc'[p][j] = alloc[p][j]
    PROVE  HasEnough(p)'
<1>1. /\ payment[p].amount \in Nat /\ payment'[p].amount \in Nat
      /\ \A j \in Invoices : alloc[p][j].amount \in Nat /\ alloc'[p][j].amount \in Nat
  BY DEF LedgerTypeOK, PaymentRow, AllocationRow
<1>2. payment[p].amount = 0
  BY <1>1 DEF Recorded
<1>3. \A j \in Invoices : alloc[p][j].amount = 0
  BY DEF AllocationsPosted, NotAllocated
<1>4. Allocated(p) = 0
  BY <1>2, PaymentSums DEF RefundsWithinPayment
<1> DEFINE f == [j \in Invoices |-> alloc[p][j].amount]
           g == [j \in Invoices |-> alloc'[p][j].amount]
<1>5. Sum(g, Invoices) = Sum(f, Invoices) - f[i] + g[i]
  <2>1. \A j \in Invoices : f[j] \in Int /\ g[j] \in Int
    BY <1>1
  <2>2. \A j \in Invoices : j # i => f[j] = g[j]
    OBVIOUS
  <2> HIDE DEF f, g
  <2> QED  BY <2>1, <2>2, LedgerAssumption, SumChange
<1>6. f[i] = 0 /\ g[i] = alloc'[p][i].amount /\ Sum(f, Invoices) = Allocated(p) /\ Sum(g, Invoices) = Allocated(p)'
  BY <1>3 DEF Allocated
<1>7. Allocated(p)' <= payment'[p].amount
  <2> HIDE DEF f, g
  <2> QED  BY <1>1, <1>4, <1>5, <1>6
<1>8. payment[p].amount <= payment'[p].amount /\ \A j \in Invoices : alloc[p][j].amount <= alloc'[p][j].amount
  BY <1>1, <1>2, <1>3
<1> QED  BY <1>7, <1>8, WithinGrown

\* A payment on account has none.
LEMMA AccountFits ==
    ASSUME LedgerTypeOK, LedgerTypeOK', AllocationsPosted, RefundsWithinPayment,
           NEW p \in Payments, refund' = refund, ~Recorded(p), alloc'[p] = alloc[p]
    PROVE  HasEnough(p)'
<1>1. payment[p].amount \in Nat /\ payment'[p].amount \in Nat /\ \A j \in Invoices : alloc[p][j].amount \in Nat
  BY DEF LedgerTypeOK, PaymentRow, AllocationRow
<1>2. payment[p].amount = 0 /\ payment[p].amount <= payment'[p].amount
  BY <1>1 DEF Recorded
<1>3. Allocated(p) = 0 /\ Allocated(p)' = Allocated(p)
  BY <1>2, PaymentSums, AllocatedSame DEF RefundsWithinPayment
<1> QED  BY <1>1, <1>2, <1>3, WithinGrown

\* A batch gives what its payment has left.
LEMMA LinesFit ==
    ASSUME LedgerTypeOK, LedgerTypeOK', RefundsWithinPayment, NEW p \in Payments,
           refund' = refund, payment' = payment,
           NEW lines \in Lines, Allocated(p) + Sum(lines, Invoices) <= payment[p].amount,
           \A j \in Invoices :
              \/ alloc'[p][j] = alloc[p][j]
              \/ alloc[p][j].amount = 0 /\ alloc'[p][j].amount = lines[j]
    PROVE  HasEnough(p)'
<1> DEFINE f == [j \in Invoices |-> alloc[p][j].amount]
           g == [j \in Invoices |-> alloc'[p][j].amount]
           h == [j \in Invoices |-> f[j] + lines[j]]
<1>1. /\ payment[p].amount \in Nat
      /\ \A j \in Invoices : f[j] \in Nat /\ g[j] \in Nat /\ lines[j] \in Nat
  BY DEF LedgerTypeOK, PaymentRow, AllocationRow, Lines
<1>2. \A j \in Invoices : f[j] <= g[j] /\ g[j] <= h[j]
  BY <1>1
<1>3. \A j \in Invoices : h[j] = f[j] + lines[j] /\ h[j] \in Int
  BY <1>1
<1>4. Sum(h, Invoices) = Sum(f, Invoices) + Sum(lines, Invoices)
  <2>1. \A j \in Invoices : f[j] \in Int /\ lines[j] \in Int /\ h[j] = f[j] + lines[j]
    BY <1>1, <1>3
  <2> HIDE DEF f, h
  <2> QED  BY <2>1, LedgerAssumption, SumPlus
<1>5. Sum(g, Invoices) <= Sum(h, Invoices) /\ Sum(g, Invoices) \in Int /\ Sum(h, Invoices) \in Int
  <2>1. \A j \in Invoices : g[j] \in Int /\ h[j] \in Int /\ g[j] <= h[j]
    BY <1>1, <1>2, <1>3
  <2> HIDE DEF g, h
  <2> QED  BY <2>1, LedgerAssumption, SumMonotone, SumInt
<1>6. Allocated(p) = Sum(f, Invoices) /\ Allocated(p)' = Sum(g, Invoices)
  BY DEF Allocated
<1>7. Allocated(p)' <= payment'[p].amount
  <2> HIDE DEF f, g, h
  <2> QED  BY <1>1, <1>4, <1>5, <1>6
<1>8. payment[p].amount <= payment'[p].amount /\ \A j \in Invoices : alloc[p][j].amount <= alloc'[p][j].amount
  BY <1>1, <1>2
<1> QED  BY <1>7, <1>8, WithinGrown

LEMMA PaymentWithin ==
    ASSUME LedgerTypeOK, LedgerTypeOK', TransactionTypeOK, AllocationsPosted, RefundsWithinPayment,
           NEW c \in Connections, NEW p \in Payments, refund' = refund,
           CommitPayment(c, p) \/ CommitUnallocatedPayment(c, p)
    PROVE  HasEnough(p)'
<1>1. ~Recorded(p)
  BY PaymentWrites
<1>2. CASE CommitPayment(c, p)
  <2> DEFINE r == request[c]
  <2>1. r.invoice \in Invoices /\ r.amount \in Amounts
    BY <1>2, RunsRequest, RequestFields DEF CommitPayment
  <2>2. payment'[p].amount = r.amount
    BY <1>2 DEF CommitPayment, InsertPayment, LedgerTypeOK
  <2>3. alloc'[p][r.invoice].amount = r.amount /\ \A j \in Invoices \ {r.invoice} : alloc'[p][j] = alloc[p][j]
    BY <1>2, <2>1 DEF CommitPayment, InsertAllocation, LedgerTypeOK
  <2>4. alloc'[p][r.invoice].amount <= payment'[p].amount
    BY <2>1, <2>2, <2>3 DEF Amounts
  <2> QED  BY <1>1, <2>1, <2>3, <2>4, PaymentFits
<1>3. CASE CommitUnallocatedPayment(c, p)
  BY <1>1, <1>3, AccountFits DEF CommitUnallocatedPayment
<1> QED  BY <1>2, <1>3

LEMMA BatchWithin ==
    ASSUME LedgerTypeOK, LedgerTypeOK', TransactionTypeOK, HeldPaymentsKept, RefundsWithinPayment,
           NEW c \in Connections, NEW i \in Invoices, refund' = refund, CommitAllocations(c, i),
           NEW p \in Payments, p = request[c].payment
    PROVE  HasEnough(p)'
<1> DEFINE r == request[c]
<1>1. /\ Runs(c, "allocatePayment") /\ payment' = payment
      /\ \A j \in Invoices : NotAllocated(p, j) \/ alloc'[p][j] = alloc[p][j]
  BY BatchWrites
<1>2. r.lines \in Lines /\ Allocated(p) + Sum(r.lines, Invoices) <= payment[p].amount
  BY <1>1, RunsRequest, RequestFields DEF HeldPaymentsKept
<1>3. \A j \in Invoices : alloc'[p][j].amount = r.lines[j] \/ alloc'[p][j] = alloc[p][j]
  BY <1>1, <1>2 DEF CommitAllocations, InsertAllocations, LedgerTypeOK
<1>4. \A j \in Invoices :
         \/ alloc'[p][j] = alloc[p][j]
         \/ alloc[p][j].amount = 0 /\ alloc'[p][j].amount = r.lines[j]
  BY <1>1, <1>3 DEF NotAllocated
<1> HIDE DEF r
<1> QED  BY <1>1, <1>2, <1>4, LinesFit

LEMMA WithinStep ==
    ASSUME LedgerTypeOK, LedgerTypeOK', TransactionTypeOK, HeldPaymentsKept, AllocationsPosted,
           RefundsWithinPayment, [Next]_vars
    PROVE  RefundsWithinPayment'
<1>1. CASE UNCHANGED <<payment, alloc>> /\ \E r \in Requests : RefundPayment(r)
  BY <1>1, LedgerAssumption, RefundWrites
<1>2. CASE UNCHANGED refund
  <2>1. \A p \in Payments : payment'[p] = payment[p] /\ alloc'[p] = alloc[p] => HasEnough(p)'
    BY <1>2, WithinKept
  <2>2. CASE UNCHANGED <<payment, alloc>>
    BY <2>1, <2>2 DEF RefundsWithinPayment, HasEnough
  <2>3. ASSUME NEW c \in Connections, NEW p \in Payments,
               CommitPayment(c, p) \/ CommitUnallocatedPayment(c, p)
        PROVE  RefundsWithinPayment'
    <3>1. HasEnough(p)'
      BY <1>2, <2>3, PaymentWithin
    <3>2. \A q \in Payments \ {p} : HasEnough(q)'
      BY <2>1, <2>3, PaymentWrites
    <3>3. \A q \in Payments : HasEnough(q)'
      BY <3>1, <3>2
    <3> QED  BY <3>3 DEF RefundsWithinPayment, HasEnough
  <2>4. ASSUME NEW c \in Connections, NEW i \in Invoices, CommitAllocations(c, i)
        PROVE  RefundsWithinPayment'
    <3>1. \A q \in Payments : q = request[c].payment => HasEnough(q)'
      BY <1>2, <2>4, BatchWithin
    <3>2. payment' = payment /\ \A q \in Payments \ {request[c].payment} : alloc'[q] = alloc[q]
      BY <2>4, BatchWrites
    <3>3. \A q \in Payments : HasEnough(q)'
      BY <2>1, <3>1, <3>2
    <3> QED  BY <3>3 DEF RefundsWithinPayment, HasEnough
  <2> QED  BY <2>2, <2>3, <2>4, AllocationSteps
<1> QED  BY <1>1, <1>2, RefundSteps

-----------------------------------------------------------------------------
(* Balances: what a step may do to what is paid and credited on an invoice. *)

LEMMA MoneySteps ==
    ASSUME [Next]_vars
    PROVE  \/ UNCHANGED <<collected, credits>>
           \/ \E c \in Connections, p \in Payments :
                 CommitPayment(c, p) \/ CommitUnallocatedPayment(c, p)
           \/ \E c \in Connections, i \in Invoices : CommitAllocations(c, i)
           \/ \E c \in Connections, n \in Notes : CommitCreditNote(c, n)
           \/ \E c \in Connections : CommitIssueCreditNote(c)
           \/ \E r \in Requests : ReversePayment(r) \/ RefundPayment(r) \/ VoidCreditNote(r)
<1>1. ASSUME NEW c \in Connections, NEW r \in Requests,
             LookUpKey(c, r) \/ LockPayment(c, r) \/ LockNote(c, r) \/ BeginVoid(c, r)
      PROVE  UNCHANGED <<collected, credits>>
  BY <1>1 DEF LookUpKey, LockPayment, LockNote, BeginVoid, ledger
<1>2. ASSUME NEW c \in Connections, ReadSums(c) \/ Rollback(c) \/ CommitVoid(c)
      PROVE  UNCHANGED <<collected, credits>>
  BY <1>2 DEF ReadSums, Rollback, CommitVoid, ledger
<1>3. ASSUME NEW c \in Connections, NEW i \in Invoices, AllocateLine(c, i)
      PROVE  UNCHANGED <<collected, credits>>
  BY <1>3 DEF AllocateLine, ledger
<1>4. ASSUME NEW r \in Requests, SingleLock(r)
      PROVE  \/ UNCHANGED <<collected, credits>>
             \/ ReversePayment(r) \/ RefundPayment(r) \/ VoidCreditNote(r)
  BY <1>4 DEF SingleLock, Issue
<1> QED
  BY <1>1, <1>2, <1>3, <1>4 DEF Next, vars, ledger

\* The sums over an invoice's rows are integers.
LEMMA BalanceSums ==
    ASSUME LedgerTypeOK, NEW i \in Invoices
    PROVE  Paid(i) \in Int /\ Credit(i) \in Nat
<1>1. Paid(i) \in Int
  <2> DEFINE S == {p \in Payments : ~Reversed(p)}
             f == [p \in S |-> alloc[p][i].amount - TakenBack(p, i)]
  <2>1. IsFiniteSet(S)
    BY LedgerAssumption, FS_Subset
  <2>2. \A p \in S : alloc[p][i].amount \in Nat /\ TakenBack(p, i) \in Nat
    BY PaymentSums DEF LedgerTypeOK, AllocationRow
  <2>3. \A p \in S : f[p] \in Int
    BY <2>2
  <2>4. Sum(f, S) \in Int
    <3> HIDE DEF S, f
    <3> QED  BY <2>1, <2>3, SumInt
  <2> QED  BY <2>4 DEF Paid
<1>2. Credit(i) \in Nat
  <2> DEFINE S == {n \in Notes : InForce(n) /\ note[n].invoice = i}
             f == [n \in S |-> note[n].amount]
  <2>1. IsFiniteSet(S)
    BY LedgerAssumption, FS_Subset
  <2>2. \A n \in S : f[n] \in Nat
    BY DEF LedgerTypeOK, NoteRow
  <2>3. Sum(f, S) \in Nat
    <3> HIDE DEF S, f
    <3> QED  BY <2>1, <2>2, SumNonNegative
  <2> QED  BY <2>3 DEF Credit
<1> QED  BY <1>1, <1>2

\* Reversals, and refunds, only take back.
LEMMA PaidShrinks ==
    ASSUME LedgerTypeOK, LedgerTypeOK', RefundsWithinPayment, NEW i \in Invoices,
           \A p \in Payments : /\ Reversed(p) => Reversed(p)'
                               /\ alloc'[p][i].amount = alloc[p][i].amount
                               /\ TakenBack(p, i) <= TakenBack(p, i)'
                               /\ TakenBack(p, i)' \in Nat
    PROVE  Paid(i)' <= Paid(i)
<1> DEFINE S == {p \in Payments : ~Reversed(p)}
           T == {p \in Payments : ~Reversed(p)'}
           f == [p \in S |-> alloc[p][i].amount - TakenBack(p, i)]
           g == [p \in T |-> alloc'[p][i].amount - TakenBack(p, i)']
<1>1. IsFiniteSet(S) /\ T \subseteq S
  BY LedgerAssumption, FS_Subset
<1>2. \A p \in Payments :
        /\ alloc[p][i].amount \in Nat /\ TakenBack(p, i) \in Nat
        /\ TakenBack(p, i) <= alloc[p][i].amount
  BY PaymentSums DEF LedgerTypeOK, AllocationRow, RefundsWithinPayment
<1>3. \A p \in S : f[p] \in Nat
  BY <1>2
<1>4. \A p \in T : g[p] \in Int /\ g[p] <= f[p]
  BY <1>1, <1>2
<1>5. Sum(g, T) <= Sum(f, S)
  <2> HIDE DEF S, T, f, g
  <2> QED  BY <1>1, <1>3, <1>4, SumShrinks
<1>6. Paid(i) = Sum(f, S) /\ Paid(i)' = Sum(g, T)
  BY DEF Paid
<1> QED  BY <1>5, <1>6

LEMMA CreditShrinks ==
    ASSUME LedgerTypeOK, LedgerTypeOK', NEW i \in Invoices,
           \A n \in Notes : InForce(n)' /\ note'[n].invoice = i =>
               InForce(n) /\ note[n].invoice = i /\ note'[n].amount = note[n].amount
    PROVE  Credit(i)' <= Credit(i)
<1> DEFINE S == {n \in Notes : InForce(n) /\ note[n].invoice = i}
           T == {n \in Notes : InForce(n)' /\ note'[n].invoice = i}
           f == [n \in S |-> note[n].amount]
           g == [n \in T |-> note'[n].amount]
<1>1. IsFiniteSet(S) /\ T \subseteq S
  BY LedgerAssumption, FS_Subset
<1>2. \A n \in Notes : note[n].amount \in Nat
  BY DEF LedgerTypeOK, NoteRow
<1>3. \A n \in S : f[n] \in Nat
  BY <1>2
<1>4. \A n \in T : g[n] \in Int /\ g[n] <= f[n]
  BY <1>1, <1>2
<1>5. Sum(g, T) <= Sum(f, S)
  <2> HIDE DEF S, T, f, g
  <2> QED  BY <1>1, <1>3, <1>4, SumShrinks
<1>6. Credit(i) = Sum(f, S) /\ Credit(i)' = Sum(g, T)
  BY DEF Credit
<1> QED  BY <1>5, <1>6

\* A refund takes back no less of any allocation than was taken back before.
LEMMA RefundTakesBack ==
    ASSUME LedgerTypeOK, LedgerTypeOK', RefundsWithinPayment, NEW r \in Requests, RefundPayment(r),
           NEW p \in Payments, NEW i \in Invoices
    PROVE  TakenBack(p, i) <= TakenBack(p, i)'
<1> DEFINE f == [k \in Keys |-> refund[p][k].parts[i]]
           g == [k \in Keys |-> refund'[p][k].parts[i]]
<1>1. r.payment \in Payments /\ r.key \in Keys
  BY LedgerAssumption, RequestFields DEF RefundPayment
<1>2. \A k \in Keys : /\ refund[p][k].parts \in [Invoices -> Nat] /\ refund[p][k].amount \in Nat
                      /\ refund'[p][k].parts \in [Invoices -> Nat]
  BY DEF LedgerTypeOK, RefundRow
<1>3. ASSUME NEW k \in Keys  PROVE f[k] <= g[k]
  <2>1. CASE refund'[p][k] = refund[p][k]
    BY <1>2, <2>1
  <2>2. CASE p = r.payment /\ k = r.key
    <3>1. refund[p][k].amount = 0
      BY <2>2 DEF RefundPayment
    <3>2. Sum(refund[p][k].parts, Invoices) <= 0
      BY <3>1 DEF RefundsWithinPayment
    <3>3. \A j \in Invoices : refund[p][k].parts[j] \in Nat
      BY <1>2
    <3>4. Sum(refund[p][k].parts, Invoices) \in Nat
          /\ refund[p][k].parts[i] <= Sum(refund[p][k].parts, Invoices)
      BY <3>3, LedgerAssumption, SumNonNegative
    <3>5. f[k] \in Nat /\ g[k] \in Nat /\ f[k] = refund[p][k].parts[i]
      BY <1>2
    <3> QED  BY <3>2, <3>4, <3>5
  <2>3. refund'[p][k] = refund[p][k] \/ (p = r.payment /\ k = r.key)
    BY <1>1 DEF RefundPayment, LedgerTypeOK
  <2> QED  BY <2>1, <2>2, <2>3
<1>4. \A k \in Keys : f[k] \in Int /\ g[k] \in Int
  BY <1>2
<1>5. Sum(f, Keys) <= Sum(g, Keys)
  <2> HIDE DEF f, g
  <2> QED  BY <1>3, <1>4, LedgerAssumption, SumMonotone
<1>6. TakenBack(p, i) = Sum(f, Keys) /\ TakenBack(p, i)' = Sum(g, Keys)
  BY DEF TakenBack
<1> QED  BY <1>5, <1>6

LEMMA TakenBackTyped ==
    ASSUME LedgerTypeOK'
    PROVE  \A p \in Payments, i \in Invoices : TakenBack(p, i)' \in Nat
<1> SUFFICES ASSUME NEW p \in Payments, NEW i \in Invoices  PROVE TakenBack(p, i)' \in Nat
  OBVIOUS
<1> DEFINE f == [k \in Keys |-> refund'[p][k].parts[i]]
<1>1. \A k \in Keys : f[k] \in Nat
  BY DEF LedgerTypeOK, RefundRow
<1>2. Sum(f, Keys) \in Nat
  <2> HIDE DEF f
  <2> QED  BY <1>1, LedgerAssumption, SumNonNegative
<1> QED  BY <1>2 DEF TakenBack

LEMMA BalancesTyped ==
    ASSUME LedgerTypeOK', NEW i \in Invoices
    PROVE  Paid(i)' \in Int /\ Credit(i)' \in Int
<1>1. Paid(i)' \in Int
  <2> DEFINE S == {p \in Payments : ~Reversed(p)'}
             f == [p \in S |-> alloc'[p][i].amount - TakenBack(p, i)']
  <2>1. IsFiniteSet(S)
    BY LedgerAssumption, FS_Subset
  <2>2. \A p \in S : alloc'[p][i].amount \in Nat /\ TakenBack(p, i)' \in Nat
    BY TakenBackTyped DEF LedgerTypeOK, AllocationRow
  <2>3. \A p \in S : f[p] \in Int
    BY <2>2
  <2>4. Sum(f, S) \in Int
    <3> HIDE DEF S, f
    <3> QED  BY <2>1, <2>3, SumInt
  <2> QED  BY <2>4 DEF Paid
<1>2. Credit(i)' \in Int
  <2> DEFINE S == {n \in Notes : InForce(n)' /\ note'[n].invoice = i}
             f == [n \in S |-> note'[n].amount]
  <2>1. IsFiniteSet(S)
    BY LedgerAssumption, FS_Subset
  <2>2. \A n \in S : f[n] \in Int
    BY DEF LedgerTypeOK, NoteRow
  <2>3. Sum(f, S) \in Int
    <3> HIDE DEF S, f
    <3> QED  BY <2>1, <2>2, SumInt
  <2> QED  BY <2>3 DEF Credit
<1> QED  BY <1>1, <1>2

LEMMA OutstandingTyped ==
    ASSUME LedgerTypeOK, LedgerTypeOK', NEW i \in Invoices
    PROVE  Outstanding(i) \in Int /\ Outstanding(i)' \in Int
<1>1. Paid(i) \in Int /\ Credit(i) \in Int /\ Paid(i)' \in Int /\ Credit(i)' \in Int
  BY BalanceSums, BalancesTyped
<1>2. Total[i] \in Int
  BY LedgerAssumption
<1> QED  BY <1>1, <1>2 DEF Outstanding

\* The steps that collect or credit on i.
Takes(i) ==
    \/ \E c \in Connections, p \in Payments : CommitPayment(c, p) /\ request[c].invoice = i
    \/ \E c \in Connections, j \in Invoices :
          CommitAllocations(c, j) /\ i \in Batch(request[c].lines)
    \/ \E c \in Connections : CommitIssueCreditNote(c) /\ note[request[c].note].invoice = i

\* No other step lowers what is outstanding on i.
LEMMA OutstandingKept ==
    ASSUME LedgerTypeOK, LedgerTypeOK', TransactionTypeOK, HeldPaymentsKept, HeldNotesAreDrafts,
           RefundsWithinPayment, [Next]_vars, NEW i \in Invoices, ~Takes(i)
    PROVE  Paid(i)' <= Paid(i) /\ Credit(i)' <= Credit(i)
<1> DEFINE KeepsPaid ==
             \A p \in Payments : /\ Reversed(p) => Reversed(p)'
                                 /\ alloc'[p][i].amount = alloc[p][i].amount
                                 /\ TakenBack(p, i) <= TakenBack(p, i)'
           KeepsCredit ==
             \A n \in Notes : InForce(n)' /\ note'[n].invoice = i =>
                 InForce(n) /\ note[n].invoice = i /\ note'[n].amount = note[n].amount
<1>1. KeepsPaid => Paid(i)' <= Paid(i)
  BY PaidShrinks, TakenBackTyped
<1>2. KeepsCredit => Credit(i)' <= Credit(i)
  BY CreditShrinks
<1>3. \A p \in Payments : refund' = refund => TakenBack(p, i) <= TakenBack(p, i)'
  <2>1. \A p \in Payments : refund' = refund => TakenBack(p, i)' = TakenBack(p, i)
    BY DEF TakenBack
  <2> QED  BY <2>1, PaymentSums
<1>4. UNCHANGED credits => KeepsCredit
  BY DEF credits, InForce
<1>5. (refund' = refund /\ reversal' = reversal
         /\ \A p \in Payments : alloc'[p][i].amount = alloc[p][i].amount) => KeepsPaid
  BY <1>3 DEF Reversed
<1>6. CASE UNCHANGED <<collected, credits>>
  BY <1>1, <1>2, <1>4, <1>5, <1>6 DEF collected
<1>7. ASSUME NEW c \in Connections, NEW p \in Payments,
             CommitPayment(c, p) \/ CommitUnallocatedPayment(c, p)
      PROVE  Paid(i)' <= Paid(i) /\ Credit(i)' <= Credit(i)
  <2>1. refund' = refund /\ reversal' = reversal /\ UNCHANGED credits
    BY <1>7 DEF CommitPayment, CommitUnallocatedPayment
  <2>2. \A q \in Payments : alloc'[q][i].amount = alloc[q][i].amount
    <3>1. CASE CommitPayment(c, p)
      <4>1. request[c].invoice # i
        BY <3>1 DEF Takes
      <4>2. request[c].invoice \in Invoices
        BY <3>1, RunsRequest, RequestFields DEF CommitPayment
      <4> QED  BY <3>1, <4>1, <4>2 DEF CommitPayment, InsertAllocation, LedgerTypeOK
    <3>2. CASE CommitUnallocatedPayment(c, p)
      BY <3>2 DEF CommitUnallocatedPayment
    <3> QED  BY <1>7, <3>1, <3>2
  <2> QED  BY <1>1, <1>2, <1>4, <1>5, <2>1, <2>2
<1>8. ASSUME NEW c \in Connections, NEW j \in Invoices, CommitAllocations(c, j)
      PROVE  Paid(i)' <= Paid(i) /\ Credit(i)' <= Credit(i)
  <2>1. refund' = refund /\ reversal' = reversal /\ UNCHANGED credits
    BY <1>8 DEF CommitAllocations
  <2>2. request[c].payment \in Payments
    BY <1>8, BatchWrites
  <2>3. ~(request[c].lines[i] > 0)
    BY <1>8 DEF Takes, Batch
  <2>4. \A q \in Payments : alloc'[q][i].amount = alloc[q][i].amount
    BY <1>8, <2>2, <2>3 DEF CommitAllocations, InsertAllocations, LedgerTypeOK
  <2> QED  BY <1>1, <1>2, <1>4, <1>5, <2>1, <2>4
<1>9. ASSUME NEW c \in Connections, NEW n \in Notes, CommitCreditNote(c, n)
      PROVE  Paid(i)' <= Paid(i) /\ Credit(i)' <= Credit(i)
  <2>1. refund' = refund /\ reversal' = reversal /\ alloc' = alloc /\ noteVoid' = noteVoid
    BY <1>9 DEF CommitCreditNote, collected
  <2>2. note'[n].status = "DRAFT" /\ \A m \in Notes \ {n} : note'[m] = note[m]
    BY <1>9 DEF CommitCreditNote, InsertNote, LedgerTypeOK
  <2>3. KeepsCredit
    BY <2>1, <2>2 DEF InForce
  <2> QED  BY <1>1, <1>2, <1>5, <2>1, <2>3
<1>10. ASSUME NEW c \in Connections, CommitIssueCreditNote(c)
      PROVE  Paid(i)' <= Paid(i) /\ Credit(i)' <= Credit(i)
  <2>1. refund' = refund /\ reversal' = reversal /\ alloc' = alloc /\ noteVoid' = noteVoid
    BY <1>10 DEF CommitIssueCreditNote, collected
  <2>2. note[request[c].note].invoice # i /\ request[c].note \in Notes
    BY <1>10, RunsRequest, RequestFields DEF Takes, CommitIssueCreditNote
  <2>3. /\ note'[request[c].note].invoice = note[request[c].note].invoice
        /\ \A m \in Notes \ {request[c].note} : note'[m] = note[m]
    BY <1>10, <2>2 DEF CommitIssueCreditNote, NumberNote, LedgerTypeOK
  <2>4. KeepsCredit
    BY <2>1, <2>2, <2>3 DEF InForce
  <2> QED  BY <1>1, <1>2, <1>5, <2>1, <2>4
<1>11. ASSUME NEW r \in Requests, ReversePayment(r)
      PROVE  Paid(i)' <= Paid(i) /\ Credit(i)' <= Credit(i)
  <2>1. refund' = refund /\ alloc' = alloc /\ UNCHANGED credits
    BY <1>11 DEF ReversePayment
  <2>2. r.payment \in Payments /\ r.key \in Keys
    BY <1>11, LedgerAssumption, RequestFields DEF ReversePayment
  <2>3. \A p \in Payments : Reversed(p) => Reversed(p)'
    BY <1>11, <2>2, LedgerAssumption DEF ReversePayment, Reversed, LedgerTypeOK
  <2> QED  BY <1>1, <1>2, <1>3, <1>4, <2>1, <2>3
<1>12. ASSUME NEW r \in Requests, RefundPayment(r)
      PROVE  Paid(i)' <= Paid(i) /\ Credit(i)' <= Credit(i)
  <2>1. reversal' = reversal /\ alloc' = alloc /\ UNCHANGED credits
    BY <1>12 DEF RefundPayment
  <2>2. \A p \in Payments : TakenBack(p, i) <= TakenBack(p, i)'
    BY <1>12, RefundTakesBack
  <2> QED  BY <1>1, <1>2, <1>4, <2>1, <2>2 DEF Reversed
<1>13. ASSUME NEW r \in Requests, VoidCreditNote(r)
      PROVE  Paid(i)' <= Paid(i) /\ Credit(i)' <= Credit(i)
  <2>1. refund' = refund /\ reversal' = reversal /\ alloc' = alloc /\ note' = note
    BY <1>13 DEF VoidCreditNote, collected
  <2>2. r.note \in Notes /\ r.key \in Keys
    BY <1>13, LedgerAssumption, RequestFields DEF VoidCreditNote
  <2>3. \A n \in Notes : InForce(n)' => InForce(n)
    BY <1>13, <2>1, <2>2 DEF VoidCreditNote, InForce, LedgerTypeOK
  <2>4. KeepsCredit
    BY <2>1, <2>3
  <2> QED  BY <1>1, <1>2, <1>5, <2>1, <2>4
<1> QED
  BY <1>6, <1>7, <1>8, <1>9, <1>10, <1>11, <1>12, <1>13, MoneySteps

-----------------------------------------------------------------------------
(* What a batch found when it locked its payment and invoices still stands. *)

LinesStand ==
    \A c \in Connections : Runs(c, "allocatePayment") =>
        /\ Batch(request[c].lines) # {}
        /\ ~AllocationKeyUsed(request[c].payment, request[c].key)
        /\ \A i \in done[c] :
              /\ invoice[i].status = "ISSUED"
              /\ PaysFor(payment[request[c].payment].student, i)
              /\ request[c].lines[i] <= Outstanding(i)

LEMMA LinesStandInit == Init => LinesStand
BY DEF Init, LinesStand, Runs

\* What the trigger has found room for is outstanding.
LEMMA Fits ==
    ASSUME LedgerTypeOK, NEW i \in Invoices, NEW a \in Nat,
           Paid(i) + a <= Total[i] - Credit(i)
    PROVE  a <= Outstanding(i)
<1>1. Paid(i) \in Int /\ Credit(i) \in Int /\ Total[i] \in Int
  BY BalanceSums, LedgerAssumption
<1> QED  BY <1>1 DEF Outstanding

\* A line is added to a batch when the trigger has found room for it.
LEMMA LineFits ==
    ASSUME LedgerTypeOK, NEW c \in Connections, NEW i \in Invoices, LineAllowed(c, i),
           request[c].lines[i] \in Nat
    PROVE  request[c].lines[i] <= Outstanding(i)
<1>1. Paid(i) + request[c].lines[i] <= Total[i] - Credit(i)
  BY DEF LineAllowed, ValidateAllocation
<1> QED  BY <1>1, Fits

\* A locked invoice stays issued, and nobody else collects or credits on it.
LEMMA LockedStays ==
    ASSUME LedgerTypeOK, LedgerTypeOK', TransactionTypeOK, LocksExclusive, HeldPaymentsKept,
           HeldNotesAreDrafts, RefundsWithinPayment, LinesStand, [Next]_vars,
           NEW c \in Connections, NEW i \in done[c], Runs(c, "allocatePayment"),
           ~\E j \in Invoices : CommitAllocations(c, j)
    PROVE  invoice'[i].status = "ISSUED" /\ Outstanding(i) <= Outstanding(i)'
<1>1. i \in Invoices /\ InvoiceLocked(i) /\ invoice[i].status = "ISSUED"
  BY DEF TransactionTypeOK, InvoiceLocked, LinesStand
<1>2. \A d \in Connections : d # c => i \notin done[d]
  BY DEF LocksExclusive
<1>3. invoice'[i].status = "ISSUED"
  <2>1. CASE UNCHANGED <<invoice, note, sequence>>
    BY <1>1, <2>1
  <2>2. ASSUME NEW d \in Connections, CommitVoid(d)
        PROVE  invoice'[i].status = "ISSUED"
    <3>1. request[d].invoice # i /\ MarkVoid(request[d].invoice)
      BY <1>1, <2>2 DEF CommitVoid, Lock
    <3> QED  BY <1>1, <3>1 DEF MarkVoid, LedgerTypeOK
  <2>3. ASSUME NEW d \in Connections, CommitIssueCreditNote(d)
        PROVE  invoice'[i].status = "ISSUED"
    BY <1>1, <2>3 DEF CommitIssueCreditNote
  <2>4. ASSUME NEW d \in Connections, NEW n \in Notes, CommitCreditNote(d, n)
        PROVE  invoice'[i].status = "ISSUED"
    BY <1>1, <2>4 DEF CommitCreditNote
  <2>5. ASSUME NEW r \in Requests, Issue(r)
        PROVE  invoice'[i].status = "ISSUED"
    BY <1>1, <2>5 DEF Issue, LedgerTypeOK
  <2> QED  BY <2>1, <2>2, <2>3, <2>4, <2>5, DocumentSteps
<1>4. ~Takes(i)
  <2>1. ASSUME NEW d \in Connections, NEW p \in Payments, CommitPayment(d, p), request[d].invoice = i
        PROVE  FALSE
    BY <1>1, <2>1 DEF CommitPayment, Lock
  <2>2. ASSUME NEW d \in Connections, NEW j \in Invoices, CommitAllocations(d, j),
               i \in Batch(request[d].lines)
        PROVE  FALSE
    <3>1. d # c /\ ~InvoiceLocked(j) /\ Todo(d) = {j}
      BY <2>2 DEF CommitAllocations, LineAllowed, Lock
    <3>2. i = j \/ i \in done[d]
      BY <2>2, <3>1 DEF Todo
    <3> QED  BY <1>1, <1>2, <3>1, <3>2
  <2>3. ASSUME NEW d \in Connections, CommitIssueCreditNote(d), note[request[d].note].invoice = i
        PROVE  FALSE
    BY <1>1, <2>3 DEF CommitIssueCreditNote, Lock
  <2> QED  BY <2>1, <2>2, <2>3 DEF Takes
<1>5. Paid(i)' <= Paid(i) /\ Credit(i)' <= Credit(i)
  BY <1>1, <1>4, OutstandingKept
<1>6. Outstanding(i) <= Outstanding(i)'
  <2>1. Paid(i) \in Int /\ Credit(i) \in Int /\ Total[i] \in Int
    BY <1>1, BalanceSums, LedgerAssumption
  <2>2. Paid(i)' \in Int /\ Credit(i)' \in Int
    BY <1>1, BalancesTyped
  <2> QED  BY <1>5, <2>1, <2>2 DEF Outstanding
<1> QED  BY <1>3, <1>6

\* The rows of a locked payment are those its batch found.
LEMMA HeldRowsStay ==
    ASSUME LedgerTypeOK, TransactionTypeOK, LocksExclusive, HeldPaymentsKept, [Next]_vars,
           NEW c \in Connections, Runs(c, "allocatePayment"),
           ~\E j \in Invoices : CommitAllocations(c, j)
    PROVE  /\ payment'[request[c].payment] = payment[request[c].payment]
           /\ alloc'[request[c].payment] = alloc[request[c].payment]
<1> DEFINE p == request[c].payment
<1>1. p \in Payments /\ Recorded(p)
  BY RunsRequest, RequestFields DEF HeldPaymentsKept
<1>2. ASSUME NEW d \in Connections, NEW q \in Payments,
             CommitPayment(d, q) \/ CommitUnallocatedPayment(d, q)
      PROVE  payment'[p] = payment[p] /\ alloc'[p] = alloc[p]
  BY <1>1, <1>2, PaymentWrites
<1>3. ASSUME NEW d \in Connections, NEW i \in Invoices, CommitAllocations(d, i)
      PROVE  payment'[p] = payment[p] /\ alloc'[p] = alloc[p]
  <2>1. d # c /\ Runs(d, "allocatePayment")
    BY <1>3, BatchWrites
  <2>2. request[d].payment # p
    BY <2>1 DEF LocksExclusive
  <2> QED  BY <1>1, <1>3, <2>2, BatchWrites
<1> QED  BY <1>2, <1>3, AllocationSteps

LEMMA LinesStandStep ==
    ASSUME LedgerTypeOK, LedgerTypeOK', TransactionTypeOK, LocksExclusive, HeldPaymentsKept,
           HeldNotesAreDrafts, RefundsWithinPayment, LinesStand, [Next]_vars
    PROVE  LinesStand'
<1> DEFINE Stands(c) ==
             /\ Batch(request[c].lines) # {}
             /\ ~AllocationKeyUsed(request[c].payment, request[c].key)
             /\ \A i \in done[c] :
                   /\ invoice[i].status = "ISSUED"
                   /\ PaysFor(payment[request[c].payment].student, i)
                   /\ request[c].lines[i] <= Outstanding(i)
<1>1. SUFFICES ASSUME NEW c \in Connections, Runs(c, "allocatePayment")'
               PROVE  Stands(c)'
  BY DEF LinesStand
\* A batch that goes on: its request is the same, and it may have one line more.
<1>2. ASSUME Runs(c, "allocatePayment"), request'[c] = request[c],
             ~\E j \in Invoices : CommitAllocations(c, j),
             \A i \in done'[c] : \/ i \in done[c]
                                 \/ i \in Invoices /\ LineAllowed(c, i) /\ UNCHANGED ledger
      PROVE  Stands(c)'
  <2>1. request[c].payment \in Payments /\ request[c].lines \in Lines
    BY <1>2, RunsRequest, RequestFields
  <2>2. /\ payment'[request[c].payment] = payment[request[c].payment]
        /\ alloc'[request[c].payment] = alloc[request[c].payment]
    BY <1>2, HeldRowsStay
  <2>3. ~AllocationKeyUsed(request[c].payment, request[c].key) /\ Batch(request[c].lines) # {}
    BY <1>2 DEF LinesStand
  <2>4. Batch(request'[c].lines) # {} /\ ~AllocationKeyUsed(request[c].payment, request[c].key)'
    BY <1>2, <2>2, <2>3 DEF AllocationKeyUsed, Batch
  <2>5. ASSUME NEW i \in done'[c]
        PROVE  /\ invoice'[i].status = "ISSUED"
               /\ PaysFor(payment[request[c].payment].student, i)
               /\ request[c].lines[i] <= Outstanding(i)'
    <3>1. CASE i \in done[c]
      <4>1. invoice'[i].status = "ISSUED" /\ Outstanding(i) <= Outstanding(i)'
        BY <1>2, <3>1, LockedStays
      <4>2. PaysFor(payment[request[c].payment].student, i) /\ request[c].lines[i] <= Outstanding(i)
        BY <1>2, <3>1 DEF LinesStand
      <4>3. i \in Invoices
        BY <3>1 DEF TransactionTypeOK
      <4>4. Outstanding(i) \in Int /\ Outstanding(i)' \in Int /\ request[c].lines[i] \in Int
        BY <2>1, <4>3, OutstandingTyped DEF Lines
      <4> QED  BY <4>1, <4>2, <4>4
    <3>2. CASE i \in Invoices /\ LineAllowed(c, i) /\ UNCHANGED ledger
      <4>1. request[c].lines[i] <= Outstanding(i)
        BY <2>1, <3>2, LineFits DEF Lines
      <4>2. Outstanding(i)' = Outstanding(i)
        BY <3>2 DEF ledger, collected, credits, Outstanding, Paid, Credit, TakenBack, InForce, Reversed
      <4>3. invoice'[i] = invoice[i]
        BY <3>2 DEF ledger
      <4> QED  BY <3>2, <4>1, <4>2, <4>3 DEF LineAllowed
    <3> QED  BY <1>2, <3>1, <3>2
  <2> QED  BY <1>2, <2>2, <2>4, <2>5 DEF PaysFor, AllocationKeyUsed
<1>3. CASE UNCHANGED transaction
  <2>1. Runs(c, "allocatePayment") /\ request'[c] = request[c] /\ done'[c] = done[c]
    BY <1>1, <1>3 DEF transaction, Runs
  <2>2. ~\E j \in Invoices : CommitAllocations(c, j)
    BY <1>3, <2>1 DEF CommitAllocations, End, transaction, TransactionTypeOK, Runs
  <2> QED  BY <1>2, <2>1, <2>2
<1>4. ASSUME NEW d \in Connections, NEW r \in Requests, LockPayment(d, r) \/ LockNote(d, r)
      PROVE  Stands(c)'
  <2>1. Begin(d, r, "looked") /\ UNCHANGED ledger
    BY <1>4 DEF LockPayment, LockNote
  <2>2. CASE c = d
    <3>1. request'[c] = r /\ done'[c] = {} /\ r.op = "allocatePayment"
      BY <1>1, <2>1, <2>2 DEF Begin, Runs, TransactionTypeOK
    <3>2. Batch(r.lines) # {} /\ ~AllocationKeyUsed(r.payment, r.key)
      BY <1>4, <3>1 DEF LockPayment, LockNote
    <3> QED  BY <2>1, <3>1, <3>2 DEF ledger, collected, AllocationKeyUsed, Batch
  <2>3. CASE c # d
    <3>1. Runs(c, "allocatePayment") /\ request'[c] = request[c] /\ done'[c] = done[c]
          /\ pc'[c] = pc[c]
      BY <1>1, <2>1, <2>3 DEF Begin, Runs, TransactionTypeOK
    <3>2. ~\E j \in Invoices : CommitAllocations(c, j)
      BY <3>1 DEF CommitAllocations, End, TransactionTypeOK, Runs
    <3> QED  BY <1>2, <3>1, <3>2
  <2> QED  BY <2>2, <2>3
<1>5. ASSUME NEW d \in Connections, NEW r \in Requests, r.op \in ByKey \cup {"void"},
             Begin(d, r, "looked")
      PROVE  Stands(c)'
  <2>1. c # d
    BY <1>1, <1>5 DEF Begin, Runs, ByKey, TransactionTypeOK
  <2>2. Runs(c, "allocatePayment") /\ request'[c] = request[c] /\ done'[c] = done[c]
        /\ pc'[c] = pc[c]
    BY <1>1, <1>5, <2>1 DEF Begin, Runs, TransactionTypeOK
  <2>3. ~\E j \in Invoices : CommitAllocations(c, j)
    BY <2>2 DEF CommitAllocations, End, TransactionTypeOK, Runs
  <2> QED  BY <1>2, <2>2, <2>3
<1>6. ASSUME NEW d \in Connections, ReadSums(d)
      PROVE  Stands(c)'
  <2>1. Runs(c, "allocatePayment") /\ request'[c] = request[c] /\ done'[c] = done[c]
    BY <1>1, <1>6 DEF ReadSums, Runs, TransactionTypeOK
  <2>2. ~\E j \in Invoices : CommitAllocations(c, j)
    BY <2>1, <1>6 DEF ReadSums, CommitAllocations, End, TransactionTypeOK, Runs
  <2> QED  BY <1>2, <2>1, <2>2
<1>7. ASSUME NEW d \in Connections, End(d)
      PROVE  Stands(c)'
  <2>1. c # d
    BY <1>1, <1>7 DEF End, Runs, TransactionTypeOK
  <2>2. Runs(c, "allocatePayment") /\ request'[c] = request[c] /\ done'[c] = done[c]
        /\ pc'[c] = pc[c]
    BY <1>1, <1>7, <2>1 DEF End, Runs, TransactionTypeOK
  <2>3. ~\E j \in Invoices : CommitAllocations(c, j)
    BY <2>2 DEF CommitAllocations, End, TransactionTypeOK, Runs
  <2> QED  BY <1>2, <2>2, <2>3
<1>8. ASSUME NEW d \in Connections, NEW i \in Invoices, AllocateLine(d, i)
      PROVE  Stands(c)'
  <2>1. Runs(c, "allocatePayment") /\ request'[c] = request[c] /\ UNCHANGED ledger
    BY <1>1, <1>8 DEF AllocateLine, LineAllowed, Runs, TransactionTypeOK
  <2>2. done'[c] = done[c] \/ (c = d /\ done'[c] = done[c] \cup {i})
    BY <1>8 DEF AllocateLine, TransactionTypeOK
  <2>3. ~\E j \in Invoices : CommitAllocations(c, j)
    BY <1>8, <2>1 DEF AllocateLine, CommitAllocations, End, TransactionTypeOK, Runs
  <2>4. c = d => LineAllowed(c, i)
    BY <1>8 DEF AllocateLine
  <2>5. \A h \in done'[c] : h \in done[c] \/ (h \in Invoices /\ LineAllowed(c, h) /\ UNCHANGED ledger)
    BY <2>1, <2>2, <2>4
  <2> QED  BY <1>2, <2>1, <2>3, <2>5
<1> QED  BY <1>3, <1>4, <1>5, <1>6, <1>7, <1>8, ConnectionSteps

-----------------------------------------------------------------------------
(* Lock order. *)

\* A batch has locked only invoices that come before those it still has to lock.
LockedInOrder ==
    \A c \in Connections : Runs(c, "allocatePayment") =>
        \A i \in done[c], j \in Todo(c) : Rank[i] < Rank[j]

LEMMA LockedInOrderInit == Init => LockedInOrder
BY DEF Init, LockedInOrder, Runs

LEMMA LockedInOrderStep ==
    ASSUME TransactionTypeOK, LockedInOrder, [Next]_vars
    PROVE  LockedInOrder'
<1>1. CASE UNCHANGED transaction
  BY <1>1 DEF LockedInOrder, transaction, Runs, Todo
<1>2. ASSUME NEW c \in Connections, NEW r \in Requests, Begin(c, r, "looked")
      PROVE  LockedInOrder'
  BY <1>2, BeginOthers DEF LockedInOrder, Todo
<1>3. ASSUME NEW c \in Connections, ReadSums(c)
      PROVE  LockedInOrder'
  BY <1>3 DEF ReadSums, LockedInOrder, Runs, Todo, TransactionTypeOK
<1>4. ASSUME NEW c \in Connections, End(c)
      PROVE  LockedInOrder'
  BY <1>4, EndOthers DEF LockedInOrder, Todo
<1>5. ASSUME NEW c \in Connections, NEW i \in Invoices, AllocateLine(c, i)
      PROVE  LockedInOrder'
  <2>1. /\ request' = request /\ pc' = [pc EXCEPT ![c] = "looked"]
        /\ done' = [done EXCEPT ![c] = @ \cup {i}]
        /\ Runs(c, "allocatePayment")
        /\ i \in Todo(c) /\ \A j \in Todo(c) : Rank[i] <= Rank[j]
    BY <1>5 DEF AllocateLine, LineAllowed, Lock, Targets, NextInvoices, Runs
  <2>2. done'[c] = done[c] \cup {i} /\ Todo(c)' = Todo(c) \ {i}
    BY <2>1 DEF Todo, TransactionTypeOK
  <2>3. \A j \in Todo(c) \ {i} : Rank[i] < Rank[j]
    BY <2>1, TransactionsAssumption DEF Todo, Batch
  <2>4. \A h \in done'[c], j \in Todo(c)' : Rank[h] < Rank[j]
    BY <2>1, <2>2, <2>3 DEF LockedInOrder
  <2>5. \A d \in Connections \ {c} : done'[d] = done[d] /\ Todo(d)' = Todo(d)
    BY <2>1 DEF Todo, TransactionTypeOK
  <2>6. \A d \in Connections \ {c} : Runs(d, "allocatePayment")' = Runs(d, "allocatePayment")
    BY <2>1 DEF Runs, TransactionTypeOK
  <2> QED  BY <2>4, <2>5, <2>6 DEF LockedInOrder
<1> QED  BY <1>1, <1>2, <1>3, <1>4, <1>5, ConnectionSteps DEF LockPayment, LockNote

\* Every awaited lock is held by a batch that itself awaits only a later invoice,
\* so a circle of waits would have no last invoice.
LEMMA NoCircle ==
    ASSUME TransactionTypeOK, LockedInOrder
    PROVE  NoLockCycle
<1> SUFFICES ASSUME NEW S \in (SUBSET Connections) \ {{}},
                    \A c \in S : \E d \in S : WaitsFor(c, d)
             PROVE  FALSE
  BY DEF NoLockCycle
<1> DEFINE Awaited == {i \in Invoices : \E c, d \in S : i \in Targets(c) /\ i \in done[d]}
           Distances == {MaxRank - Rank[i] : i \in Awaited}
<1>1. \A c \in S : \E d \in S, i \in Awaited : i \in Targets(c) /\ i \in done[d]
  BY DEF WaitsFor, TransactionTypeOK
<1>2. Distances # {} /\ Distances \subseteq Nat
  <2>1. \A i \in Invoices : MaxRank - Rank[i] \in Nat
    BY TransactionsAssumption
  <2>2. PICK c \in S : TRUE
    OBVIOUS
  <2>3. Awaited # {}
    BY <1>1, <2>2
  <2> QED  BY <2>1, <2>3
<1>3. \E x \in Distances : \A y \in Distances : ~ (<<y, x>> \in OpToRel(<, Nat))
  BY <1>2, NatLessThanWellFounded, WFMin
<1>4. PICK i \in Awaited : \A j \in Awaited : ~ (MaxRank - Rank[j] < MaxRank - Rank[i])
  <2>1. PICK x \in Distances : \A y \in Distances : ~ (<<y, x>> \in OpToRel(<, Nat))
    BY <1>3
  <2>2. \A y \in Distances : ~ (y < x)
    BY <1>2, <2>1 DEF OpToRel
  <2> QED  BY <2>2
<1>5. PICK c \in S, d \in S : i \in Targets(c) /\ i \in done[d]
  OBVIOUS
<1>6. Runs(d, "allocatePayment")
  BY <1>5 DEF TransactionTypeOK
<1>7. PICK e \in S, j \in Awaited : j \in Targets(d) /\ j \in done[e]
  BY <1>1
<1>8. j \in Todo(d)
  BY <1>6, <1>7 DEF Targets, NextInvoices, Runs
<1>9. Rank[i] < Rank[j]
  BY <1>5, <1>6, <1>8 DEF LockedInOrder
<1> QED  BY <1>4, <1>9, TransactionsAssumption

-----------------------------------------------------------------------------
(* The sums a statement reads are those of an invoice. *)

NotesPlaced == \A n \in Notes : note[n].status # "NONE" => note[n].invoice \in Invoices

SumsTyped == sums \in [Connections -> [paid : Int, credit : Int]]

\* The commands that wait for a lock in the middle of their transaction.
Waiting == ByKey \cup {"allocatePayment", "issueCreditNote", "void"}

OnlyWaiting == \A c \in Connections : pc[c] # "idle" => request[c].op \in Waiting

LEMMA OnlyWaitingInit == Init => OnlyWaiting
BY DEF Init, OnlyWaiting

LEMMA OnlyWaitingStep ==
    ASSUME TransactionTypeOK, OnlyWaiting, [Next]_vars
    PROVE  OnlyWaiting'
<1>1. ASSUME NEW c \in Connections, NEW r \in Requests, Begin(c, r, "looked"), r.op \in Waiting
      PROVE  OnlyWaiting'
  BY <1>1, BeginOthers DEF OnlyWaiting
<1>2. ASSUME NEW c \in Connections, End(c)
      PROVE  OnlyWaiting'
  BY <1>2, EndOthers DEF OnlyWaiting
<1>3. ASSUME NEW c \in Connections, pc[c] # "idle", request' = request,
             \A d \in Connections \ {c} : pc'[d] = pc[d]
      PROVE  OnlyWaiting'
  BY <1>3 DEF OnlyWaiting
<1>4. ASSUME NEW c \in Connections, ReadSums(c) \/ \E i \in Invoices : AllocateLine(c, i)
      PROVE  OnlyWaiting'
  <2>1. pc[c] # "idle" /\ request' = request
    BY <1>4 DEF ReadSums, AllocateLine, LineAllowed, Runs
  <2>2. \A d \in Connections \ {c} : pc'[d] = pc[d]
    BY <1>4 DEF ReadSums, AllocateLine, TransactionTypeOK
  <2> QED  BY <1>3, <2>1, <2>2
<1>5. CASE UNCHANGED transaction
  BY <1>5 DEF OnlyWaiting, transaction
<1> QED
  BY <1>1, <1>2, <1>4, <1>5, ConnectionSteps DEF Waiting, LockPayment, LockNote

LEMMA NotesPlacedInit == LedgerInit => NotesPlaced
BY DEF LedgerInit, NotesPlaced

LEMMA NotesPlacedStep ==
    ASSUME LedgerTypeOK, TransactionTypeOK, HeldNotesAreDrafts, NotesPlaced, [Next]_vars
    PROVE  NotesPlaced'
<1>1. CASE UNCHANGED note
  BY <1>1 DEF NotesPlaced
<1>2. ASSUME NEW c \in Connections, NEW n \in Notes, CommitCreditNote(c, n)
      PROVE  NotesPlaced'
  <2>1. request[c].invoice \in Invoices
    BY <1>2, RunsRequest, RequestFields DEF CommitCreditNote
  <2> QED  BY <1>2, <2>1 DEF CommitCreditNote, InsertNote, NotesPlaced, LedgerTypeOK
<1>3. ASSUME NEW c \in Connections, CommitIssueCreditNote(c)
      PROVE  NotesPlaced'
  <2>1. Runs(c, "issueCreditNote") /\ NumberNote(request[c].note)
    BY <1>3 DEF CommitIssueCreditNote
  <2>2. request[c].note \in Notes /\ note[request[c].note].status = "DRAFT"
    BY <2>1, RunsRequest, RequestFields DEF HeldNotesAreDrafts
  <2>3. \A n \in Notes : note'[n].invoice = note[n].invoice
    BY <2>1, <2>2 DEF NumberNote, LedgerTypeOK, NoteRow
  <2>4. \A n \in Notes \ {request[c].note} : note'[n].status = note[n].status
    BY <2>1, <2>2 DEF NumberNote, LedgerTypeOK
  <2> QED  BY <2>2, <2>3, <2>4 DEF NotesPlaced
<1> QED  BY <1>1, <1>2, <1>3, DocumentSteps DEF CommitVoid, Issue, credits

\* What a connection locks next is an invoice.
LEMMA TargetsTyped ==
    ASSUME TransactionTypeOK, OnlyWaiting, HeldNotesAreDrafts, NotesPlaced,
           NEW c \in Connections, pc[c] # "idle"
    PROVE  Targets(c) \subseteq Invoices
<1>1. request[c] \in Request
  BY Served
<1>2. request[c].op = "allocatePayment" => Targets(c) \subseteq Invoices
  BY DEF Targets, NextInvoices, Todo, Batch
<1>3. request[c].op = "issueCreditNote" => Targets(c) \subseteq Invoices
  BY <1>1, RequestFields DEF Targets, HeldNotesAreDrafts, NotesPlaced, Runs
<1>4. request[c].op = "recordUnallocatedPayment" => Targets(c) = {}
  BY DEF Targets
<1>5. request[c].op \in {"recordPayment", "createCreditNote", "void"}
         => Targets(c) \subseteq Invoices
  <2>1. request[c].op \in {"recordPayment", "createCreditNote", "void"}
           => request[c].invoice \in Invoices
    BY <1>1, RequestFields
  <2> QED  BY <2>1 DEF Targets
<1>6. request[c].op \in Waiting
  BY DEF OnlyWaiting
<1> QED  BY <1>2, <1>3, <1>4, <1>5, <1>6 DEF Waiting, ByKey

LEMMA SumsTypedInit == Init => SumsTyped
BY DEF Init, SumsTyped, NoSums

LEMMA SumsTypedStep ==
    ASSUME LedgerTypeOK, TransactionTypeOK, OnlyWaiting, HeldNotesAreDrafts, NotesPlaced,
           SumsTyped, [Next]_vars
    PROVE  SumsTyped'
<1>1. CASE UNCHANGED sums
  BY <1>1 DEF SumsTyped
<1>2. ASSUME NEW c \in Connections, ReadSums(c)
      PROVE  SumsTyped'
  <2>1. PICK i \in Targets(c) :
           sums' = [sums EXCEPT ![c] = [paid |-> Paid(i), credit |-> Credit(i)]]
    BY <1>2 DEF ReadSums
  <2>2. i \in Invoices
    BY <1>2, TargetsTyped DEF ReadSums
  <2>3. Paid(i) \in Int /\ Credit(i) \in Int
    BY <2>2, BalanceSums
  <2> QED  BY <2>1, <2>3 DEF SumsTyped
<1>3. ASSUME NEW c \in Connections, sums' = [sums EXCEPT ![c] = NoSums]
      PROVE  SumsTyped'
  BY <1>3 DEF SumsTyped, NoSums
<1> QED
  BY <1>1, <1>2, <1>3, ConnectionSteps
  DEF transaction, LockPayment, LockNote, Begin, End, AllocateLine

-----------------------------------------------------------------------------
(* The inductive invariant, and what follows from it. *)

Inv ==
    /\ LedgerTypeOK /\ TransactionTypeOK /\ OnlyWaiting /\ SumsTyped
    /\ LocksExclusive /\ LockedInOrder
    /\ HeldNotesAreDrafts /\ NotesPlaced
    /\ HeldPaymentsKept /\ AllocationsPosted /\ RefundsWithinPayment /\ LinesStand
    /\ Numbering /\ KeysAppliedOnce

\* The rows are well typed, every locked row has one holder and stays what the
\* holder saw, batches lock in order and what they found stands, no payment gives
\* more than it has, documents are numbered without a gap and keys are used once:
\* all of it survives every step of every transaction.
THEOREM Invariance == Spec => []Inv
<1>1. Init => Inv
  BY LedgerTypeInit, TransactionTypeInit, OnlyWaitingInit, SumsTypedInit, LocksInit,
     LockedInOrderInit, NotesPlacedInit, HeldPaymentsInit, WithinInit, LinesStandInit, NumberingInit, KeysInit
  DEF Init, Inv
<1>2. Inv /\ [Next]_vars => Inv'
  <2> SUFFICES ASSUME Inv, [Next]_vars
               PROVE  Inv'
    OBVIOUS
  <2>1. LedgerTypeOK' /\ TransactionTypeOK' /\ OnlyWaiting' /\ SumsTyped'
    BY LedgerTypeStep, TransactionTypeStep, OnlyWaitingStep, SumsTypedStep DEF Inv
  <2>2. LocksExclusive' /\ LockedInOrder' /\ HeldNotesAreDrafts' /\ NotesPlaced'
    BY LocksStep, LockedInOrderStep, HeldNotesStep, NotesPlacedStep DEF Inv
  <2>3. HeldPaymentsKept' /\ AllocationsPosted' /\ Numbering' /\ KeysAppliedOnce'
    BY HeldPaymentsStep, AllocationsPostedStep, NumberingStep, KeysStep DEF Inv
  <2>4. RefundsWithinPayment' /\ LinesStand'
    BY <2>1, WithinStep, LinesStandStep DEF Inv
  <2> QED  BY <2>1, <2>2, <2>3, <2>4 DEF Inv
<1> QED  BY <1>1, <1>2, PTL DEF Spec

\* Whatever interleaves, no payment is allocated or refunded beyond its amount, no
\* allocation gives back more than it took, and rollbacks and voids never skip or
\* repeat a document number.
THEOREM LedgerStaysSafe == Spec => []LedgerSafe
<1>1. Inv => LedgerSafe
  BY DEF Inv, Numbering, LedgerSafe
<1> QED  BY <1>1, Invariance, PTL

\* A retry that races its first attempt never posts a second row for its key, and
\* a row lock has one holder.
THEOREM TransactionsStaySafe == Spec => []TransactionsSafe
<1>1. Inv => TransactionsSafe
  BY DEF Inv, SumsTyped, TypeOK, TransactionsSafe
<1> QED  BY <1>1, Invariance, PTL

\* Locking the invoices of a batch in id order rules out every circle of waits,
\* for any number of connections and invoices.
THEOREM DeadlockFreedom == Spec => []NoLockCycle
<1>1. Inv => NoLockCycle
  BY NoCircle DEF Inv
<1> QED  BY <1>1, Invariance, PTL

\* Posted rows stay as they are (the formula of PostedIsFinal).
PostedKept ==
    /\ \A p \in Payments :
          /\ Recorded(p) => payment'[p] = payment[p]
          /\ Reversed(p) => reversal'[p] = reversal[p]
          /\ \A i \in Invoices : alloc[p][i].amount > 0 => alloc'[p][i] = alloc[p][i]
          /\ \A k \in Keys : refund[p][k].amount > 0 => refund'[p][k] = refund[p][k]
    /\ \A n \in Notes :
          /\ note[n].status = "ISSUED" => note'[n] = note[n]
          /\ noteVoid[n] # NoKey => noteVoid'[n] = noteVoid[n]
    /\ \A i \in Invoices : invoice[i].status # "DRAFT" =>
          /\ invoice'[i].number = invoice[i].number
          /\ invoice'[i].status # invoice[i].status => invoice'[i].status = "VOID"

LEMMA PaymentsKept ==
    ASSUME Inv, [Next]_vars, NEW p \in Payments
    PROVE  /\ Recorded(p) => payment'[p] = payment[p]
           /\ \A i \in Invoices : alloc[p][i].amount > 0 => alloc'[p][i] = alloc[p][i]
<1>0. /\ LedgerTypeOK /\ TransactionTypeOK /\ HeldPaymentsKept /\ AllocationsPosted
      /\ \A q \in Payments, i \in Invoices : alloc[q][i].amount \in Nat
  BY DEF Inv, LedgerTypeOK, AllocationRow
<1>1. CASE UNCHANGED <<payment, alloc>>
  BY <1>1
<1>2. ASSUME NEW c \in Connections, NEW q \in Payments,
             CommitPayment(c, q) \/ CommitUnallocatedPayment(c, q)
      PROVE  /\ Recorded(p) => payment'[p] = payment[p]
             /\ \A i \in Invoices : alloc[p][i].amount > 0 => alloc'[p][i] = alloc[p][i]
  BY <1>0, <1>2, PaymentWrites DEF AllocationsPosted, NotAllocated
<1>3. ASSUME NEW c \in Connections, NEW j \in Invoices, CommitAllocations(c, j)
      PROVE  /\ Recorded(p) => payment'[p] = payment[p]
             /\ \A i \in Invoices : alloc[p][i].amount > 0 => alloc'[p][i] = alloc[p][i]
  BY <1>0, <1>3, BatchWrites DEF NotAllocated
<1> QED  BY <1>1, <1>2, <1>3, AllocationSteps

LEMMA DocumentsKept ==
    ASSUME Inv, [Next]_vars
    PROVE  /\ \A n \in Notes : note[n].status = "ISSUED" => note'[n] = note[n]
           /\ \A i \in Invoices : invoice[i].status # "DRAFT" =>
                 /\ invoice'[i].number = invoice[i].number
                 /\ invoice'[i].status # invoice[i].status => invoice'[i].status = "VOID"
<1> DEFINE Kept == /\ \A n \in Notes : note[n].status = "ISSUED" => note'[n] = note[n]
                   /\ \A i \in Invoices : invoice[i].status # "DRAFT" =>
                         /\ invoice'[i].number = invoice[i].number
                         /\ invoice'[i].status # invoice[i].status =>
                               invoice'[i].status = "VOID"
<1>0. LedgerTypeOK /\ TransactionTypeOK /\ HeldNotesAreDrafts
  BY DEF Inv
<1>1. CASE UNCHANGED <<invoice, note, sequence>>
  BY <1>1
<1>2. ASSUME NEW c \in Connections, CommitVoid(c)
      PROVE  Kept
  BY <1>0, <1>2 DEF CommitVoid, MarkVoid, credits, LedgerTypeOK, InvoiceRow
<1>3. ASSUME NEW c \in Connections, CommitIssueCreditNote(c)
      PROVE  Kept
  <2>1. note[request[c].note].status = "DRAFT" /\ request[c].note \in Notes
    BY <1>0, <1>3, RunsRequest, RequestFields DEF CommitIssueCreditNote, HeldNotesAreDrafts
  <2> QED  BY <1>0, <1>3, <2>1 DEF CommitIssueCreditNote, NumberNote, LedgerTypeOK
<1>4. ASSUME NEW c \in Connections, NEW n \in Notes, CommitCreditNote(c, n)
      PROVE  Kept
  BY <1>0, <1>4 DEF CommitCreditNote, InsertNote, LedgerTypeOK
<1>5. ASSUME NEW r \in Requests, Issue(r)
      PROVE  Kept
  BY <1>0, <1>5 DEF Issue, credits, LedgerTypeOK
<1> QED  BY <1>1, <1>2, <1>3, <1>4, <1>5, DocumentSteps

LEMMA CorrectionsKept ==
    ASSUME Inv, [Next]_vars
    PROVE  /\ \A p \in Payments :
                 /\ Reversed(p) => reversal'[p] = reversal[p]
                 /\ \A k \in Keys : refund[p][k].amount > 0 => refund'[p][k] = refund[p][k]
           /\ \A n \in Notes : noteVoid[n] # NoKey => noteVoid'[n] = noteVoid[n]
<1> DEFINE Kept == /\ \A p \in Payments :
                         /\ Reversed(p) => reversal'[p] = reversal[p]
                         /\ \A k \in Keys :
                               refund[p][k].amount > 0 => refund'[p][k] = refund[p][k]
                   /\ \A n \in Notes : noteVoid[n] # NoKey => noteVoid'[n] = noteVoid[n]
<1>0. LedgerTypeOK
  BY DEF Inv
<1>1. CASE UNCHANGED <<refund, reversal, noteVoid>>
  BY <1>1
<1>2. ASSUME NEW r \in Requests, SingleLock(r)
      PROVE  Kept
  <2>1. CASE ReversePayment(r)
    BY <1>0, <2>1 DEF ReversePayment, Reversed, credits, LedgerTypeOK
  <2>2. CASE RefundPayment(r)
    BY <1>0, <2>2 DEF RefundPayment, credits, LedgerTypeOK, RefundRow
  <2>3. CASE VoidCreditNote(r)
    BY <1>0, <2>3 DEF VoidCreditNote, collected, LedgerTypeOK
  <2>4. CASE Issue(r)
    BY <1>1, <2>4 DEF Issue, collected, credits
  <2> QED  BY <1>2, <2>1, <2>2, <2>3, <2>4 DEF SingleLock
<1>3. ASSUME NEW c \in Connections, NEW r \in Requests,
             LookUpKey(c, r) \/ LockPayment(c, r) \/ LockNote(c, r) \/ BeginVoid(c, r)
      PROVE  UNCHANGED ledger
  BY <1>3 DEF LookUpKey, LockPayment, LockNote, BeginVoid
<1>4. ASSUME NEW c \in Connections, ReadSums(c) \/ Rollback(c)
      PROVE  UNCHANGED ledger
  BY <1>4 DEF ReadSums, Rollback
<1>5. ASSUME NEW c \in Connections,
             \/ CommitIssueCreditNote(c) \/ CommitVoid(c)
             \/ \E p \in Payments : CommitPayment(c, p) \/ CommitUnallocatedPayment(c, p)
             \/ \E i \in Invoices : AllocateLine(c, i) \/ CommitAllocations(c, i)
             \/ \E n \in Notes : CommitCreditNote(c, n)
      PROVE  UNCHANGED <<refund, reversal, noteVoid>>
  BY <1>5 DEF CommitIssueCreditNote, CommitVoid, CommitPayment, CommitUnallocatedPayment,
              AllocateLine, CommitAllocations, CommitCreditNote, ledger, collected, credits
<1> QED  BY <1>1, <1>2, <1>3, <1>4, <1>5 DEF Next, vars, ledger, collected, credits

\* Whatever interleaves, no committed row is ever overwritten.
THEOREM AppendOnly == Spec => PostedIsFinal
<1>1. Inv /\ [Next]_vars => [PostedKept]_ledger
  BY PaymentsKept, DocumentsKept, CorrectionsKept DEF PostedKept
<1> QED  BY <1>1, Invariance, PTL DEF Spec, PostedIsFinal, PostedKept

\* The steps that collect or credit on an invoice find it issued.
LEMMA TakesIssued ==
    ASSUME LinesStand, NEW i \in Invoices, Takes(i)
    PROVE  invoice[i].status = "ISSUED"
<1>1. ASSUME NEW c \in Connections, NEW j \in Invoices, CommitAllocations(c, j),
             i \in Batch(request[c].lines)
      PROVE  invoice[i].status = "ISSUED"
  <2>1. Runs(c, "allocatePayment") /\ invoice[j].status = "ISSUED" /\ Todo(c) = {j}
    BY <1>1 DEF CommitAllocations, LineAllowed
  <2>2. i = j \/ i \in done[c]
    BY <1>1, <2>1 DEF Todo
  <2> QED  BY <2>1, <2>2 DEF LinesStand
<1> QED  BY <1>1 DEF Takes, CommitPayment, CommitIssueCreditNote, TakesNotes

\* Nothing is collected or credited on an invoice that is void, whatever a command
\* read of it before (the formula of VoidTakesNothing).
LEMMA VoidKept ==
    ASSUME Inv, Inv', [Next]_vars, NEW i \in Invoices, invoice[i].status = "VOID"
    PROVE  Outstanding(i)' >= Outstanding(i)
<1>1. ~Takes(i)
  BY TakesIssued DEF Inv
<1>2. Paid(i)' <= Paid(i) /\ Credit(i)' <= Credit(i)
  BY <1>1, OutstandingKept DEF Inv
<1>3. /\ Paid(i) \in Int /\ Credit(i) \in Int /\ Total[i] \in Int
      /\ Paid(i)' \in Int /\ Credit(i)' \in Int
  BY BalanceSums, BalancesTyped, LedgerAssumption DEF Inv
<1> QED  BY <1>2, <1>3 DEF Outstanding

\* A payment that commits is one the ledger records.
LEMMA PaymentSerializes ==
    ASSUME Inv, NEW c \in Connections, NEW p \in Payments, CommitPayment(c, p)
    PROVE  RecordPayment(request[c], p)
<1>1. Runs(c, "recordPayment") /\ ValidateAllocation(p, request[c].invoice, request[c].amount)
  BY DEF CommitPayment
<1>2. request[c].invoice \in Invoices /\ request[c].amount \in Nat
  BY <1>1, RunsRequest, RequestFields DEF Inv, Amounts
<1>3. request[c].amount <= Outstanding(request[c].invoice)
  BY <1>1, <1>2, Fits DEF Inv, ValidateAllocation
<1> QED  BY <1>1, <1>3 DEF CommitPayment, RecordPayment, PaymentKeyFree, Runs

\* A batch that commits, checked line by line as the locks came, is one the ledger
\* allocates at once.
LEMMA BatchSerializes ==
    ASSUME Inv, NEW c \in Connections, NEW i \in Invoices, CommitAllocations(c, i)
    PROVE  AllocatePayment(request[c])
<1> DEFINE r == request[c]
<1>1. /\ Runs(c, "allocatePayment") /\ LineAllowed(c, i) /\ Todo(c) = {i}
      /\ LinesStand /\ HeldPaymentsKept
  BY DEF CommitAllocations, LineAllowed, Inv
<1>2. r.op = "allocatePayment" /\ r.payment \in Payments /\ r.lines \in Lines
  BY <1>1, RunsRequest, RequestFields DEF Inv
<1>3. Recorded(r.payment) /\ Allocated(r.payment) + Sum(r.lines, Invoices) <= payment[r.payment].amount
  BY <1>1 DEF HeldPaymentsKept
<1>4. ~Reversed(r.payment)
  BY <1>1 DEF LineAllowed, ValidateAllocation
<1>5. Batch(r.lines) # {} /\ ~AllocationKeyUsed(r.payment, r.key)
  BY <1>1 DEF LinesStand
<1>6. ASSUME NEW j \in Batch(r.lines)
      PROVE  /\ invoice[j].status = "ISSUED"
             /\ PaysFor(payment[r.payment].student, j)
             /\ r.lines[j] <= Outstanding(j)
             /\ NotAllocated(r.payment, j)
  <2>1. CASE j = i
    <3>1. r.lines[i] \in Nat
      BY <1>2 DEF Lines
    <3>2. r.lines[i] <= Outstanding(i)
      BY <1>1, <3>1, LineFits DEF Inv
    <3> QED  BY <1>1, <2>1, <3>2 DEF LineAllowed
  <2>2. CASE j \in done[c]
    BY <1>1, <2>2 DEF LinesStand, HeldPaymentsKept
  <2> QED  BY <1>1, <2>1, <2>2 DEF Todo
<1> QED
  BY <1>2, <1>3, <1>4, <1>5, <1>6 DEF CommitAllocations, AllocatePayment

\* A step that moves money is a command of the serial ledger (the formula of
\* PaymentsSerialize).
LEMMA StepSerializes ==
    ASSUME Inv, [Next]_vars
    PROVE  UNCHANGED collected \/ \E r \in Requests : Execute(r)
<1>1. ASSUME NEW c \in Connections, NEW p \in Payments, CommitPayment(c, p)
      PROVE  \E r \in Requests : Execute(r)
  <2>1. request[c] \in Requests
    BY <1>1, Served DEF Inv, CommitPayment, Runs
  <2> QED  BY <1>1, <2>1, PaymentSerializes DEF Execute
<1>2. ASSUME NEW c \in Connections, NEW p \in Payments, CommitUnallocatedPayment(c, p)
      PROVE  \E r \in Requests : Execute(r)
  <2>1. request[c] \in Requests
    BY <1>2, Served DEF Inv, CommitUnallocatedPayment, Runs
  <2>2. RecordUnallocatedPayment(request[c], p)
    BY <1>2 DEF CommitUnallocatedPayment, RecordUnallocatedPayment, PaymentKeyFree, Runs
  <2> QED  BY <2>1, <2>2 DEF Execute
<1>3. ASSUME NEW c \in Connections, NEW i \in Invoices, CommitAllocations(c, i)
      PROVE  \E r \in Requests : Execute(r)
  <2>1. request[c] \in Requests
    BY <1>3, Served DEF Inv, CommitAllocations, LineAllowed, Runs
  <2> QED  BY <1>3, <2>1, BatchSerializes DEF Execute
<1>4. ASSUME NEW r \in Requests, ReversePayment(r) \/ RefundPayment(r) \/ VoidCreditNote(r)
      PROVE  \E q \in Requests : Execute(q)
  BY <1>4 DEF Execute
<1>5. ASSUME NEW c \in Connections,
             CommitIssueCreditNote(c) \/ \E n \in Notes : CommitCreditNote(c, n)
      PROVE  UNCHANGED collected
  BY <1>5 DEF CommitIssueCreditNote, CommitCreditNote
<1> QED  BY <1>1, <1>2, <1>3, <1>4, <1>5, MoneySteps

\* Payments, batches, reversals and refunds that overlap have the effect of the
\* same commands executed one after the other, for any number of connections; and
\* a void invoice stays as it was.
THEOREM CollectionsSerialize == Spec => PaymentsSerialize
<1>1. Init => LedgerInit
  BY DEF Init
<1>2. Inv /\ [Next]_vars => [UNCHANGED collected \/ \E r \in Requests : Execute(r)]_ledger
  BY StepSerializes
<1>3. Inv /\ Inv' /\ [Next]_vars =>
         [\A i \in Invoices :
             invoice[i].status = "VOID" => Outstanding(i)' >= Outstanding(i)]_ledger
  BY VoidKept
<1> QED
  BY <1>1, <1>2, <1>3, Invariance, PTL DEF Spec, PaymentsSerialize, VoidTakesNothing

-----------------------------------------------------------------------------
(* The terms of an enrollment and the invoices drawn up from them.  The      *)
(* invariant: the enrollment's row is held by one command that changes it or *)
(* shared by those that write invoices; the terms are being changed only     *)
(* while nothing is invoiced.                                                *)

ClerkRow ==
    [step : {"idle", "pricing"}]
        \cup [step : {"granting"}, grant : Grants]
        \cup [step : {"drawn", "inserted", "plain"}, row : BillRow]
        \cup [step : {"opened", "issuing"}, bill : Bills]

\* What a command has in hand.
AtWork(c) ==
    /\ clerk[c].step \in {"drawn", "inserted", "plain"} =>
          /\ clerk[c].row.status = "DRAFT" /\ clerk[c].row.discount <= clerk[c].row.subtotal
          /\ Does(c, "inserted") => clerk[c].row.enrolled
    /\ clerk[c].step \in {"opened", "issuing"} => bill[clerk[c].bill].status = "DRAFT"
    /\ clerk[c].step \in {"pricing", "granting"} => ~Invoiced

RowsApart ==
    /\ \A b \in Bills : \A c, d \in Clerks :
          /\ clerk[c].step \in {"opened", "issuing"} /\ clerk[d].step \in {"opened", "issuing"}
          /\ clerk[c].bill = b /\ clerk[d].bill = b
          => c = d
    /\ \A c, d \in Owners : c = d
    /\ Owners = {} \/ Sharers = {}

DraftingInv ==
    /\ DraftingTypeOK
    /\ IsFiniteSet(granted)
    /\ shown \in [Bills -> SUBSET Grants]
    /\ clerk \in [Clerks -> ClerkRow]
    /\ PricesLocked
    /\ \A c \in Clerks : AtWork(c)
    /\ RowsApart

-----------------------------------------------------------------------------
LEMMA ClerkFields ==
    ASSUME DraftingInv, NEW c \in Clerks
    PROVE  /\ clerk[c] \in ClerkRow
           /\ clerk[c].step \in {"idle", "pricing", "granting", "drawn", "inserted", "plain", "opened", "issuing"}
           /\ clerk[c].step = "granting" => clerk[c].grant \in Grants
           /\ clerk[c].step \in {"drawn", "inserted", "plain"} => clerk[c].row \in BillRow
           /\ clerk[c].step \in {"opened", "issuing"} => clerk[c].bill \in Bills
<1>1. clerk[c] \in ClerkRow
  BY DEF DraftingInv
<1> QED  BY <1>1 DEF ClerkRow

\* Who is where, after c alone has moved.
LEMMA OneMoves ==
    ASSUME DraftingInv, NEW c \in Clerks, NEW work \in ClerkRow, Goes(c, work)
    PROVE  /\ clerk' \in [Clerks -> ClerkRow] /\ clerk'[c] = work
           /\ \A d \in Clerks \ {c} : clerk'[d] = clerk[d]
BY DEF DraftingInv, Goes

\* A command that ends holds nothing.
LEMMA Freed ==
    ASSUME DraftingInv, NEW c \in Clerks, Goes(c, Idle),
           \A b \in Bills : bill[b].status # "none" => bill'[b].enrolled = bill[b].enrolled,
           \A b \in Bills : bill'[b].enrolled = bill[b].enrolled \/ bill[b].status = "none",
           \A d \in Clerks \ {c} : AtWork(d)'
    PROVE  /\ clerk' \in [Clerks -> ClerkRow] /\ (\A d \in Clerks : AtWork(d)') /\ RowsApart'
           /\ Owners' = Owners \ {c} /\ Sharers' = Sharers \ {c}
<1>1. Idle \in ClerkRow /\ Idle.step = "idle"
  BY DEF Idle, ClerkRow
<1>2. /\ clerk' \in [Clerks -> ClerkRow] /\ clerk'[c] = Idle
      /\ \A d \in Clerks \ {c} : clerk'[d] = clerk[d]
  BY <1>1, OneMoves
<1>3. AtWork(c)'
  BY <1>1, <1>2 DEF AtWork, Does
<1>4. Sharers' = Sharers \ {c}
  BY <1>1, <1>2 DEF Sharers, Does
<1>5. Owners' = Owners \ {c}
  <2>1. \A d \in Clerks : clerk[d].step = "issuing" => clerk[d].bill \in Bills /\ bill[clerk[d].bill].status = "DRAFT"
    BY ClerkFields DEF DraftingInv, AtWork
  <2> QED  BY <1>1, <1>2, <2>1 DEF Owners, Does
<1>6. RowsApart'
  <2>1. \A b \in Bills : \A d, e \in Clerks :
          /\ clerk'[d].step \in {"opened", "issuing"} /\ clerk'[e].step \in {"opened", "issuing"}
          /\ clerk'[d].bill = b /\ clerk'[e].bill = b
          => d = e
    BY <1>1, <1>2 DEF DraftingInv, RowsApart
  <2> QED  BY <1>4, <1>5, <2>1 DEF DraftingInv, RowsApart
<1> QED  BY <1>2, <1>3, <1>4, <1>5, <1>6

LEMMA DraftingStarts ==
    ASSUME DraftingInit
    PROVE  DraftingInv
<1>1. clerk \in [Clerks -> ClerkRow] /\ \A c \in Clerks : clerk[c].step = "idle"
  BY DEF DraftingInit, Idle, ClerkRow
<1>2. IsFiniteSet(granted)
  BY FS_EmptySet DEF DraftingInit
<1>3. DraftingTypeOK
  BY DEF DraftingInit, DraftingTypeOK, NoBill, NoPrice, BillRow
<1>4. PricesLocked
  BY DEF DraftingInit, PricesLocked, Invoiced, NoBill
<1>5. RowsApart /\ \A c \in Clerks : AtWork(c)
  BY <1>1 DEF RowsApart, AtWork, Owners, Sharers, Does
<1>6. shown \in [Bills -> SUBSET Grants]
  BY DEF DraftingInit
<1> QED  BY <1>1, <1>2, <1>3, <1>4, <1>5, <1>6 DEF DraftingInv

-----------------------------------------------------------------------------
(* Discounts, prices and grants *)

LEMMA OffersKeep ==
    ASSUME DraftingInv, NEW o \in Offers, CreateDiscount(o) \/ DisableDiscount(o)
    PROVE  DraftingInv'
<1>1. UNCHANGED <<granted, price, bill, shown, clerk>>
  BY DEF CreateDiscount, DisableDiscount, terms
<1>2. offer' \in [Offers -> {"none", "ACTIVE", "DISABLED"}]
  BY DEF CreateDiscount, DisableDiscount, DraftingInv, DraftingTypeOK
<1>3. DraftingTypeOK'
  BY <1>1, <1>2 DEF DraftingInv, DraftingTypeOK
<1> QED  BY <1>1, <1>3 DEF DraftingInv, PricesLocked, Invoiced, AtWork, Does, RowsApart, Owners, Sharers

\* c begins to change the terms: it owns the row, and nobody else does.
LEMMA ChangeBegins ==
    ASSUME DraftingInv, NEW c \in Clerks, NEW work \in ClerkRow, Goes(c, work),
           Does(c, "idle"), MayChangeTerms, work.step \in {"pricing", "granting"},
           UNCHANGED <<offer, terms, bill, shown>>
    PROVE  DraftingInv'
<1>1. /\ clerk' \in [Clerks -> ClerkRow] /\ clerk'[c] = work
      /\ \A d \in Clerks \ {c} : clerk'[d] = clerk[d]
  BY OneMoves
<1>2. Owners = {} /\ Sharers = {} /\ ~Invoiced
  BY DEF MayChangeTerms, EnrollmentFree
<1>3. UNCHANGED <<offer, granted, price, bill, shown>> /\ Invoiced' = Invoiced
  BY DEF terms, Invoiced
<1>4. \A d \in Clerks : AtWork(d)'
  BY <1>1, <1>2, <1>3 DEF DraftingInv, AtWork, Does
<1>5. Owners' \subseteq {c} /\ Sharers' = {}
  BY <1>1, <1>2, <1>3 DEF Owners, Sharers, Does
<1>6. RowsApart'
  BY <1>1, <1>3, <1>5 DEF DraftingInv, RowsApart
<1> QED  BY <1>1, <1>3, <1>4, <1>6 DEF DraftingInv, DraftingTypeOK, PricesLocked

LEMMA BeginningsKeep ==
    ASSUME DraftingInv, NEW c \in Clerks, BeginPricing(c) \/ \E g \in Grants : BeginGrant(c, g)
    PROVE  DraftingInv'
<1>1. CASE BeginPricing(c)
  <2>1. [step |-> "pricing"] \in ClerkRow
    BY DEF ClerkRow
  <2> QED  BY <1>1, <2>1, ChangeBegins DEF BeginPricing
<1>2. CASE \E g \in Grants : BeginGrant(c, g)
  <2>1. PICK g \in Grants : BeginGrant(c, g)
    BY <1>2
  <2>2. [step |-> "granting", grant |-> g] \in ClerkRow
    BY DEF ClerkRow
  <2> QED  BY <2>1, <2>2, ChangeBegins DEF BeginGrant
<1> QED  BY <1>1, <1>2

LEMMA CommitPricingKeeps ==
    ASSUME DraftingInv, NEW c \in Clerks, NEW amount \in Prices, CommitPricing(c, amount)
    PROVE  DraftingInv'
<1>1. /\ UNCHANGED <<offer, granted, bill, shown>> /\ Goes(c, Idle) /\ Invoiced' = Invoiced
      /\ price' = [amount |-> amount, open |-> TRUE] /\ Does(c, "pricing")
  BY DEF CommitPricing, Invoiced
<1>2. ~Invoiced
  BY <1>1 DEF DraftingInv, AtWork, Does
<1>3. \A d \in Clerks \ {c} : AtWork(d)'
  <2>1. \A d \in Clerks \ {c} : clerk'[d] = clerk[d]
    BY <1>1 DEF Goes, DraftingInv
  <2> QED  BY <1>1, <2>1 DEF DraftingInv, AtWork, Does
<1>4. /\ clerk' \in [Clerks -> ClerkRow] /\ (\A d \in Clerks : AtWork(d)') /\ RowsApart'
  BY <1>1, <1>3, Freed
<1>5. price' \in [amount : Nat, open : BOOLEAN]
  BY <1>1, DraftingAssumption
<1> QED  BY <1>1, <1>2, <1>4, <1>5 DEF DraftingInv, DraftingTypeOK, PricesLocked

LEMMA CommitGrantKeeps ==
    ASSUME DraftingInv, NEW c \in Clerks, CommitGrant(c)
    PROVE  DraftingInv'
<1>1. /\ UNCHANGED <<offer, price, bill, shown>> /\ Goes(c, Idle) /\ Invoiced' = Invoiced
      /\ granted' = granted \cup {clerk[c].grant} /\ clerk[c].grant \in Grants
  BY ClerkFields DEF CommitGrant, Invoiced, Does
<1>2. IsFiniteSet(granted')
  BY <1>1, FS_AddElement DEF DraftingInv
<1>3. \A d \in Clerks \ {c} : AtWork(d)'
  <2>1. \A d \in Clerks \ {c} : clerk'[d] = clerk[d]
    BY <1>1 DEF Goes, DraftingInv
  <2> QED  BY <1>1, <2>1 DEF DraftingInv, AtWork, Does
<1>4. /\ clerk' \in [Clerks -> ClerkRow] /\ (\A d \in Clerks : AtWork(d)') /\ RowsApart'
  BY <1>1, <1>3, Freed
<1>5. DraftingTypeOK'
  BY <1>1 DEF DraftingInv, DraftingTypeOK
<1> QED  BY <1>1, <1>2, <1>4, <1>5 DEF DraftingInv, PricesLocked

-----------------------------------------------------------------------------
(* createInvoice *)

LEMMA WorthCounts ==
    ASSUME DraftingInv
    PROVE  Worth(Applying) \in Nat
<1> DEFINE amounts == [g \in Applying |-> g.amount]
<1>1. Worth(Applying) = SumOver(amounts, Applying)
  BY DEF Worth, SumOver, MapThenSumSet, MapThenFoldSet
<1>2. IsFiniteSet(Applying)
  BY FS_Subset DEF DraftingInv, Applying
<1>3. \A g \in Applying : amounts[g] \in Nat
  BY DraftingAssumption DEF DraftingInv, DraftingTypeOK, Applying
<1> HIDE DEF amounts
<1> QED  BY <1>1, <1>2, <1>3, SumOverNonNegative

\* A command that neither holds nor shares the enrollment's row moves on to
\* another such step.
LEMMA ElsewhereMoves ==
    ASSUME DraftingInv, NEW c \in Clerks, NEW work \in ClerkRow, Goes(c, work),
           clerk[c].step \in {"idle", "drawn"}, work.step \in {"drawn", "plain"},
           work.row.status = "DRAFT", work.row.discount <= work.row.subtotal,
           UNCHANGED <<offer, terms, bill, shown>>
    PROVE  DraftingInv'
<1>1. /\ clerk' \in [Clerks -> ClerkRow] /\ clerk'[c] = work
      /\ \A d \in Clerks \ {c} : clerk'[d] = clerk[d]
  BY OneMoves
<1>2. UNCHANGED <<offer, granted, price, bill, shown>> /\ Invoiced' = Invoiced
  BY DEF terms, Invoiced
<1>3. \A d \in Clerks : AtWork(d)'
  BY <1>1, <1>2 DEF DraftingInv, AtWork, Does
<1>4. Owners' = Owners /\ Sharers' = Sharers
  BY <1>1, <1>2 DEF Owners, Sharers, Does
<1>5. RowsApart'
  BY <1>1, <1>2, <1>4 DEF DraftingInv, RowsApart
<1> QED  BY <1>1, <1>2, <1>3, <1>5 DEF DraftingInv, DraftingTypeOK, PricesLocked

LEMMA DrawUpKeeps ==
    ASSUME DraftingInv, NEW c \in Clerks, NEW r \in Orders, DrawUp(c, r)
    PROVE  DraftingInv'
<1> DEFINE discount == r.manual + IF r.enrolled THEN Worth(Applying) ELSE 0
           row == [status |-> "DRAFT", enrolled |-> r.enrolled, subtotal |-> Subtotal(r), discount |-> discount]
           work == [step |-> "drawn", row |-> row]
<1>1. /\ r.enrolled \in BOOLEAN /\ r.items \in Nat /\ r.manual \in Nat
  BY DraftingAssumption
<1>2. Subtotal(r) \in Nat
  BY <1>1 DEF DraftingInv, DraftingTypeOK, Subtotal
<1>3. discount \in Nat
  BY <1>1, WorthCounts
<1>4. row \in BillRow
  BY <1>1, <1>2, <1>3 DEF BillRow
<1>5. work \in ClerkRow
  BY <1>4 DEF ClerkRow
<1>6. row.status = "DRAFT" /\ row.discount <= row.subtotal
  BY DEF DrawUp, Affordable
<1>7. Goes(c, work) /\ Does(c, "idle") /\ UNCHANGED <<offer, terms, bill, shown>>
  BY DEF DrawUp
<1>8. work.step = "drawn" /\ work.row = row
  OBVIOUS
<1> HIDE DEF work, row
<1> QED  BY <1>5, <1>6, <1>7, <1>8, ElsewhereMoves DEF Does

LEMMA InsertsKeep ==
    ASSUME DraftingInv, NEW c \in Clerks, Inserts(c)
    PROVE  DraftingInv'
<1>1. /\ Does(c, "drawn") /\ clerk[c].row \in BillRow
      /\ clerk[c].row.status = "DRAFT" /\ clerk[c].row.discount <= clerk[c].row.subtotal
      /\ UNCHANGED <<offer, terms, bill, shown>>
  BY ClerkFields DEF Inserts, DraftingInv, AtWork, Does
<1>2. clerk[c] \in [step : {"drawn", "inserted", "plain"}, row : BillRow]
  BY <1>1, ClerkFields DEF ClerkRow, Does
<1>3. PICK w \in [step : {"drawn", "inserted", "plain"}, row : BillRow] : w = clerk[c]
  BY <1>2
<1>4. CASE ~clerk[c].row.enrolled
  <2>1. Goes(c, [w EXCEPT !.step = "plain"])
    BY <1>3, <1>4 DEF Inserts
  <2>2. [w EXCEPT !.step = "plain"] \in [step : {"drawn", "inserted", "plain"}, row : BillRow]
        /\ [w EXCEPT !.step = "plain"].step = "plain" /\ [w EXCEPT !.step = "plain"].row = w.row
    OBVIOUS
  <2>3. PICK work \in ClerkRow : work = [w EXCEPT !.step = "plain"]
    BY <2>2 DEF ClerkRow
  <2> QED  BY <1>1, <1>3, <2>1, <2>2, <2>3, ElsewhereMoves DEF Does
<1>5. CASE clerk[c].row.enrolled
  <2>1. Goes(c, [w EXCEPT !.step = "inserted"]) /\ Owners = {}
    BY <1>3, <1>5 DEF Inserts
  <2>2. [w EXCEPT !.step = "inserted"] \in [step : {"drawn", "inserted", "plain"}, row : BillRow]
        /\ [w EXCEPT !.step = "inserted"].step = "inserted" /\ [w EXCEPT !.step = "inserted"].row = w.row
    OBVIOUS
  <2>3. PICK work \in ClerkRow : work = [w EXCEPT !.step = "inserted"]
    BY <2>2 DEF ClerkRow
  <2>4. /\ clerk' \in [Clerks -> ClerkRow] /\ clerk'[c] = work
        /\ \A d \in Clerks \ {c} : clerk'[d] = clerk[d]
    BY <2>1, <2>3, OneMoves
  <2>5. UNCHANGED <<offer, granted, price, bill, shown>> /\ Invoiced' = Invoiced
    BY <1>1 DEF terms, Invoiced
  <2>6. \A d \in Clerks : AtWork(d)'
    BY <1>1, <1>3, <1>5, <2>2, <2>3, <2>4, <2>5 DEF DraftingInv, AtWork, Does
  <2>7. Owners' = {}
    BY <2>1, <2>2, <2>3, <2>4, <2>5 DEF Owners, Does
  <2>8. RowsApart'
    BY <2>2, <2>3, <2>4, <2>5, <2>7 DEF DraftingInv, RowsApart
  <2> QED  BY <2>4, <2>5, <2>6, <2>8 DEF DraftingInv, DraftingTypeOK, PricesLocked
<1> QED  BY <1>4, <1>5

LEMMA CommitBillKeeps ==
    ASSUME DraftingInv, NEW c \in Clerks, NEW b \in Bills, CommitBill(c, b)
    PROVE  DraftingInv'
<1>1. /\ bill[b].status = "none" /\ clerk[c].step \in {"inserted", "plain"}
      /\ bill' = [bill EXCEPT ![b] = clerk[c].row] /\ Goes(c, Idle)
      /\ UNCHANGED <<offer, granted, price>>
  BY DEF CommitBill, Does, terms
<1>2. /\ clerk[c].row \in BillRow /\ clerk[c].row.status = "DRAFT"
      /\ clerk[c].row.discount <= clerk[c].row.subtotal
  BY <1>1, ClerkFields DEF DraftingInv, AtWork, Does
<1>3. /\ bill' \in [Bills -> BillRow] /\ bill'[b] = clerk[c].row
      /\ \A x \in Bills \ {b} : bill'[x] = bill[x]
  BY <1>1, <1>2 DEF DraftingInv, DraftingTypeOK
<1>4. Invoiced' = Invoiced
  BY <1>1, <1>2, <1>3 DEF Invoiced
<1>5. \A d \in Clerks \ {c} : AtWork(d)'
  <2>1. \A d \in Clerks \ {c} : clerk'[d] = clerk[d]
    BY <1>1 DEF Goes, DraftingInv
  <2>2. \A d \in Clerks : clerk[d].step \in {"opened", "issuing"} => clerk[d].bill \in Bills \ {b}
    BY <1>1, ClerkFields DEF DraftingInv, AtWork
  <2> QED  BY <1>3, <1>4, <2>1, <2>2 DEF DraftingInv, AtWork, Does
<1>6. /\ clerk' \in [Clerks -> ClerkRow] /\ (\A d \in Clerks : AtWork(d)') /\ RowsApart'
  BY <1>1, <1>3, <1>5, Freed
<1>7. /\ shown' \in [Bills -> SUBSET Grants]
      /\ \A x \in Bills : shown'[x] \subseteq {g \in granted : g.amount <= Most[g.offer]}
  <2>1. CASE UNCHANGED shown
    BY <2>1 DEF DraftingInv, DraftingTypeOK
  <2>2. CASE WithinMaximum /\ shown' = [shown EXCEPT ![b] = Applying]
    <3>1. Applying \subseteq {g \in granted : g.amount <= Most[g.offer]} /\ Applying \subseteq Grants
      BY <2>2 DEF WithinMaximum, Applying, DraftingInv, DraftingTypeOK
    <3>2. shown'[b] = Applying /\ \A x \in Bills \ {b} : shown'[x] = shown[x]
      BY <2>2 DEF DraftingInv
    <3>3. shown' \in [Bills -> SUBSET Grants]
      BY <2>2, <3>1 DEF DraftingInv
    <3> QED  BY <3>1, <3>2, <3>3 DEF DraftingInv, DraftingTypeOK
  <2> QED  BY <2>1, <2>2 DEF CommitBill
<1>8. DraftingTypeOK'
  BY <1>1, <1>2, <1>3, <1>7 DEF DraftingInv, DraftingTypeOK
<1> QED  BY <1>1, <1>4, <1>6, <1>7, <1>8 DEF DraftingInv, PricesLocked

-----------------------------------------------------------------------------
(* The issue of an invoice *)

LEMMA OpenBillKeeps ==
    ASSUME DraftingInv, NEW c \in Clerks, NEW b \in Bills, OpenBill(c, b)
    PROVE  DraftingInv'
<1>1. PICK work \in ClerkRow : work = [step |-> "opened", bill |-> b]
  BY DEF ClerkRow
<1>2. Goes(c, work) /\ work.step = "opened" /\ work.bill = b
  BY <1>1 DEF OpenBill
<1>3. /\ clerk' \in [Clerks -> ClerkRow] /\ clerk'[c] = work
      /\ \A d \in Clerks \ {c} : clerk'[d] = clerk[d]
  BY <1>2, OneMoves
<1>4. /\ UNCHANGED <<offer, granted, price, bill, shown>> /\ Invoiced' = Invoiced
      /\ bill[b].status = "DRAFT" /\ Does(c, "idle") /\ ~RowLocked(b)
  BY DEF OpenBill, terms, Invoiced
<1>5. \A d \in Clerks : AtWork(d)'
  BY <1>2, <1>3, <1>4 DEF DraftingInv, AtWork, Does
<1>6. Owners' = Owners /\ Sharers' = Sharers
  BY <1>2, <1>3, <1>4 DEF Owners, Sharers, Does
<1>7. RowsApart'
  BY <1>2, <1>3, <1>4, <1>6 DEF DraftingInv, RowsApart, RowLocked
<1> QED  BY <1>3, <1>4, <1>5, <1>7 DEF DraftingInv, DraftingTypeOK, PricesLocked

LEMMA LockTermsKeeps ==
    ASSUME DraftingInv, NEW c \in Clerks, LockTerms(c)
    PROVE  DraftingInv'
<1>1. PICK w \in [step : {"opened", "issuing"}, bill : Bills] : w = clerk[c]
  BY ClerkFields DEF LockTerms, Does, ClerkRow
<1>2. /\ [w EXCEPT !.step = "issuing"] \in [step : {"opened", "issuing"}, bill : Bills]
      /\ [w EXCEPT !.step = "issuing"].step = "issuing" /\ [w EXCEPT !.step = "issuing"].bill = w.bill
  OBVIOUS
<1>3. PICK work \in ClerkRow : work = [w EXCEPT !.step = "issuing"]
  BY <1>2 DEF ClerkRow
<1>4. Goes(c, work) /\ work.step = "issuing" /\ work.bill = clerk[c].bill
  BY <1>1, <1>2, <1>3 DEF LockTerms
<1>5. /\ clerk' \in [Clerks -> ClerkRow] /\ clerk'[c] = work
      /\ \A d \in Clerks \ {c} : clerk'[d] = clerk[d]
  BY <1>4, OneMoves
<1>6. /\ UNCHANGED <<offer, granted, price, bill, shown>> /\ Invoiced' = Invoiced
      /\ Does(c, "opened") /\ (bill[work.bill].enrolled => EnrollmentFree)
  BY <1>4 DEF LockTerms, terms, Invoiced
<1>7. \A d \in Clerks : AtWork(d)'
  BY <1>4, <1>5, <1>6 DEF DraftingInv, AtWork, Does
<1>8. Sharers' = Sharers
  BY <1>4, <1>5, <1>6 DEF Sharers, Does
<1>9. (\A d, e \in Owners' : d = e) /\ (Owners' = {} \/ Sharers' = {})
  <2>1. CASE bill[work.bill].enrolled
    <3>1. Owners = {} /\ Sharers = {}
      BY <1>6, <2>1 DEF EnrollmentFree
    <3>2. Owners' \subseteq {c}
      BY <1>5, <1>6, <3>1 DEF Owners, Does
    <3> QED  BY <1>8, <3>1, <3>2
  <2>2. CASE ~bill[work.bill].enrolled
    <3>1. Owners' = Owners
      BY <1>4, <1>5, <1>6, <2>2 DEF Owners, Does
    <3> QED  BY <1>8, <3>1 DEF DraftingInv, RowsApart
  <2> QED  BY <2>1, <2>2
<1>10. RowsApart'
  <2>1. \A b \in Bills : \A d, e \in Clerks :
          /\ clerk'[d].step \in {"opened", "issuing"} /\ clerk'[e].step \in {"opened", "issuing"}
          /\ clerk'[d].bill = b /\ clerk'[e].bill = b
          => d = e
    BY <1>4, <1>5, <1>6 DEF DraftingInv, RowsApart, Does
  <2> QED  BY <1>9, <2>1 DEF RowsApart
<1> QED  BY <1>5, <1>6, <1>7, <1>10 DEF DraftingInv, DraftingTypeOK, PricesLocked

LEMMA CommitIssueKeeps ==
    ASSUME DraftingInv, NEW c \in Clerks, CommitIssue(c)
    PROVE  DraftingInv'
<1>1. PICK b \in Bills : b = clerk[c].bill
  BY ClerkFields DEF CommitIssue, Does
<1>2. /\ Does(c, "issuing") /\ bill[b].status = "DRAFT" /\ bill[b] \in BillRow /\ Goes(c, Idle)
      /\ bill' = [bill EXCEPT ![b].status = "ISSUED"]
      /\ price' = (IF bill[b].enrolled THEN [price EXCEPT !.open = FALSE] ELSE price)
      /\ UNCHANGED <<offer, granted, shown>>
  BY <1>1 DEF CommitIssue, DraftingInv, DraftingTypeOK, AtWork, Does
<1>3. PICK row \in BillRow : row = [bill[b] EXCEPT !.status = "ISSUED"]
  BY <1>2 DEF BillRow
<1>4. /\ row.status = "ISSUED" /\ row.enrolled = bill[b].enrolled
      /\ row.discount = bill[b].discount /\ row.subtotal = bill[b].subtotal
  BY <1>2, <1>3 DEF BillRow
<1>5. bill' \in [Bills -> BillRow] /\ bill'[b] = row /\ \A x \in Bills \ {b} : bill'[x] = bill[x]
  BY <1>2, <1>3 DEF DraftingInv, DraftingTypeOK
<1>6. \A d \in Clerks \ {c} : clerk'[d] = clerk[d]
  BY <1>2 DEF Goes, DraftingInv
<1>7. \A d \in Clerks \ {c} : clerk[d].step \in {"opened", "issuing"} => clerk[d].bill \in Bills \ {b}
  BY <1>1, <1>2, ClerkFields DEF DraftingInv, RowsApart, Does
<1>8. CASE bill[b].enrolled
  <2>1. c \in Owners
    BY <1>1, <1>2, <1>8 DEF Owners
  <2>2. \A d \in Clerks \ {c} : clerk[d].step \notin {"pricing", "granting"}
    BY <2>1 DEF DraftingInv, RowsApart, Owners
  <2>3. \A d \in Clerks \ {c} : AtWork(d)'
    BY <1>5, <1>6, <1>7, <2>2 DEF DraftingInv, AtWork, Does
  <2>4. price' \in [amount : Nat, open : BOOLEAN] /\ ~price'.open
    BY <1>2, <1>8 DEF DraftingInv, DraftingTypeOK
  <2> QED  BY <2>3, <2>4, <1>2, <1>4, <1>5, Freed DEF DraftingInv, DraftingTypeOK, PricesLocked
<1>9. CASE ~bill[b].enrolled
  <2>1. Invoiced' = Invoiced /\ price' = price
    BY <1>2, <1>4, <1>5, <1>9 DEF Invoiced
  <2>2. \A d \in Clerks \ {c} : AtWork(d)'
    BY <1>5, <1>6, <1>7, <2>1 DEF DraftingInv, AtWork, Does
  <2> QED  BY <2>1, <2>2, <1>2, <1>4, <1>5, Freed DEF DraftingInv, DraftingTypeOK, PricesLocked
<1> QED  BY <1>8, <1>9

LEMMA VoidBillKeeps ==
    ASSUME DraftingInv, NEW b \in Bills, VoidBill(b)
    PROVE  DraftingInv'
<1>1. /\ bill[b].status = "ISSUED" /\ bill[b] \in BillRow
      /\ bill' = [bill EXCEPT ![b].status = "VOID"]
      /\ UNCHANGED <<offer, granted, price, shown, clerk>>
  BY DEF VoidBill, DraftingInv, DraftingTypeOK, terms
<1>2. PICK row \in BillRow : row = [bill[b] EXCEPT !.status = "VOID"]
  BY <1>1 DEF BillRow
<1>3. /\ row.status = "VOID" /\ row.enrolled = bill[b].enrolled
      /\ row.discount = bill[b].discount /\ row.subtotal = bill[b].subtotal
  BY <1>1, <1>2 DEF BillRow
<1>4. bill' \in [Bills -> BillRow] /\ bill'[b] = row /\ \A x \in Bills \ {b} : bill'[x] = bill[x]
  BY <1>1, <1>2 DEF DraftingInv, DraftingTypeOK
<1>5. Invoiced' = Invoiced
  BY <1>1, <1>3, <1>4 DEF Invoiced
<1>6. \A d \in Clerks : clerk[d].step \in {"opened", "issuing"} => clerk[d].bill \in Bills \ {b}
  BY <1>1, ClerkFields DEF DraftingInv, AtWork
<1>7. \A d \in Clerks : AtWork(d)'
  BY <1>1, <1>4, <1>5, <1>6 DEF DraftingInv, AtWork, Does
<1>8. Owners' = Owners /\ Sharers' = Sharers
  BY <1>1, <1>4, <1>6 DEF Owners, Sharers, Does
<1> QED  BY <1>1, <1>3, <1>4, <1>5, <1>7, <1>8 DEF DraftingInv, DraftingTypeOK, PricesLocked, RowsApart

LEMMA DropWorkKeeps ==
    ASSUME DraftingInv, NEW c \in Clerks, DropWork(c)
    PROVE  DraftingInv'
<1>1. /\ UNCHANGED <<offer, granted, price, bill, shown>> /\ Goes(c, Idle) /\ Invoiced' = Invoiced
  BY DEF DropWork, terms, Invoiced
<1>2. \A d \in Clerks \ {c} : AtWork(d)'
  <2>1. \A d \in Clerks \ {c} : clerk'[d] = clerk[d]
    BY <1>1 DEF Goes, DraftingInv
  <2> QED  BY <1>1, <2>1 DEF DraftingInv, AtWork, Does
<1>3. /\ clerk' \in [Clerks -> ClerkRow] /\ (\A d \in Clerks : AtWork(d)') /\ RowsApart'
  BY <1>1, <1>2, Freed
<1> QED  BY <1>1, <1>3 DEF DraftingInv, DraftingTypeOK, PricesLocked

-----------------------------------------------------------------------------
LEMMA DraftingKeeps ==
    ASSUME DraftingInv, [DraftingNext]_drafting
    PROVE  DraftingInv'
<1>1. CASE UNCHANGED drafting
  <2>1. UNCHANGED <<offer, granted, price, bill, shown, clerk>>
    BY <1>1 DEF drafting
  <2>2. UNCHANGED <<Owners, Sharers, Invoiced>> /\ \A d \in Clerks : AtWork(d)'
    BY <2>1 DEF Owners, Sharers, Invoiced, Does, DraftingInv, AtWork
  <2> QED  BY <2>1, <2>2 DEF DraftingInv, DraftingTypeOK, PricesLocked, RowsApart
<1>2. ASSUME NEW o \in Offers, CreateDiscount(o) \/ DisableDiscount(o)  PROVE DraftingInv'
  BY <1>2, OffersKeep
<1>3. ASSUME NEW b \in Bills, VoidBill(b)  PROVE DraftingInv'
  BY <1>3, VoidBillKeeps
<1>4. ASSUME NEW c \in Clerks, BeginPricing(c) \/ \E g \in Grants : BeginGrant(c, g)  PROVE DraftingInv'
  BY <1>4, BeginningsKeep
<1>5. ASSUME NEW c \in Clerks, CommitGrant(c)  PROVE DraftingInv'
  BY <1>5, CommitGrantKeeps
<1>6. ASSUME NEW c \in Clerks, Inserts(c)  PROVE DraftingInv'
  BY <1>6, InsertsKeep
<1>7. ASSUME NEW c \in Clerks, NEW amount \in Prices, CommitPricing(c, amount)  PROVE DraftingInv'
  BY <1>7, CommitPricingKeeps
<1>8. ASSUME NEW c \in Clerks, NEW r \in Orders, DrawUp(c, r)  PROVE DraftingInv'
  BY <1>8, DrawUpKeeps
<1>9. ASSUME NEW c \in Clerks, NEW b \in Bills, CommitBill(c, b)  PROVE DraftingInv'
  BY <1>9, CommitBillKeeps
<1>10. ASSUME NEW c \in Clerks, NEW b \in Bills, OpenBill(c, b)  PROVE DraftingInv'
  BY <1>10, OpenBillKeeps
<1>11. ASSUME NEW c \in Clerks, LockTerms(c)  PROVE DraftingInv'
  BY <1>11, LockTermsKeeps
<1>12. ASSUME NEW c \in Clerks, CommitIssue(c)  PROVE DraftingInv'
  BY <1>12, CommitIssueKeeps
<1>13. ASSUME NEW c \in Clerks, DropWork(c)  PROVE DraftingInv'
  BY <1>13, DropWorkKeeps
<1> QED  BY <1>1, <1>2, <1>3, <1>4, <1>5, <1>6, <1>7, <1>8, <1>9, <1>10, <1>11, <1>12, <1>13
         DEF DraftingNext

\* A step changes the terms only when nothing is invoiced and nobody writes an
\* invoice of the enrollment.
LEMMA StepsFreeze ==
    ASSUME DraftingInv, DraftingNext, Invoiced \/ Sharers # {}
    PROVE  UNCHANGED terms
<1>1. \A c \in Clerks : ~Does(c, "pricing") /\ ~Does(c, "granting")
  BY DEF DraftingInv, AtWork, RowsApart, Owners, Does
<1>2. ASSUME NEW c \in Clerks, CommitIssue(c)  PROVE UNCHANGED terms
  <2>1. CASE ~bill[clerk[c].bill].enrolled
    BY <1>2, <2>1 DEF CommitIssue, terms
  <2>2. CASE bill[clerk[c].bill].enrolled
    <3>1. c \in Owners
      BY <1>2, <2>2 DEF CommitIssue, Owners
    <3>2. ~price.open /\ price \in [amount : Nat, open : BOOLEAN]
      BY <3>1 DEF DraftingInv, DraftingTypeOK, PricesLocked, RowsApart
    <3>3. [price EXCEPT !.open = FALSE] = price
      BY <3>2
    <3> QED  BY <1>2, <2>2, <3>3 DEF CommitIssue, terms
  <2> QED  BY <2>1, <2>2
<1>3. ASSUME NEW c \in Clerks,
             BeginPricing(c) \/ CommitGrant(c) \/ Inserts(c) \/ LockTerms(c) \/ DropWork(c)
      PROVE  UNCHANGED terms
  BY <1>1, <1>3 DEF BeginPricing, CommitGrant, Inserts, LockTerms, DropWork, terms
<1>4. ASSUME NEW c \in Clerks, NEW amount \in Prices, CommitPricing(c, amount)  PROVE UNCHANGED terms
  BY <1>1, <1>4 DEF CommitPricing
<1>5. ASSUME NEW c \in Clerks, NEW g \in Grants, BeginGrant(c, g)  PROVE UNCHANGED terms
  BY <1>5 DEF BeginGrant, terms
<1>6. ASSUME NEW c \in Clerks, NEW r \in Orders, DrawUp(c, r)  PROVE UNCHANGED terms
  BY <1>6 DEF DrawUp, terms
<1>7. ASSUME NEW c \in Clerks, NEW b \in Bills, CommitBill(c, b) \/ OpenBill(c, b)  PROVE UNCHANGED terms
  BY <1>7 DEF CommitBill, OpenBill, terms
<1>8. ASSUME NEW o \in Offers, CreateDiscount(o) \/ DisableDiscount(o)  PROVE UNCHANGED terms
  BY <1>8 DEF CreateDiscount, DisableDiscount, terms
<1>9. ASSUME NEW b \in Bills, VoidBill(b)  PROVE UNCHANGED terms
  BY <1>9 DEF VoidBill, terms
<1> QED  BY <1>2, <1>3, <1>4, <1>5, <1>6, <1>7, <1>8, <1>9 DEF DraftingNext

\* The invariant of the drafting of invoices: whoever changes the terms of the
\* enrollment is alone with its row, and only before anything is invoiced.
THEOREM DraftingInvariance == DraftingSpec => []DraftingInv
<1>1. DraftingInit => DraftingInv
  BY DraftingStarts
<1>2. DraftingInv /\ [DraftingNext]_drafting => DraftingInv'
  BY DraftingKeeps
<1> QED  BY <1>1, <1>2, PTL DEF DraftingSpec

\* Invoices are drawn up within their subtotal and their discounts' maxima, and
\* an issue freezes and locks the terms it was drawn up from.
THEOREM DraftingStaysSafe == DraftingSpec => DraftingSafe
<1>1. DraftingInv => DraftingTypeOK /\ PricesLocked
  BY DEF DraftingInv
<1>2. DraftingInv /\ [DraftingNext]_drafting => [Invoiced \/ Sharers # {} => UNCHANGED terms]_drafting
  BY StepsFreeze
<1> QED  BY <1>1, <1>2, DraftingInvariance, PTL DEF DraftingSpec, DraftingSafe, TermsFrozen

-----------------------------------------------------------------------------
(* The serial ledger: every command one indivisible step.                   *)

LEMMA SerialTypes ==
    ASSUME LedgerTypeOK, NEW r \in Request, Execute(r)
    PROVE  LedgerTypeOK'
<1>1. ASSUME NEW p \in Payments, RecordPayment(r, p)
      PROVE  LedgerTypeOK'
  <2>1. /\ r.key \in Keys /\ r.invoice \in Invoices /\ r.amount \in Amounts
        /\ Payer(r.student, r.invoice) \in Students \cup {NoStudent}
    BY <1>1, RequestFields, PayerTyped DEF RecordPayment
  <2>2. payment' \in [Payments -> PaymentRow]
    <3>1. InsertPayment(p, r.key, r.invoice, r.amount, Payer(r.student, r.invoice))
      BY <1>1 DEF RecordPayment
    <3> QED  BY <2>1, <3>1, PaymentTyped
  <2>3. alloc' \in [Payments -> [Invoices -> AllocationRow]]
    <3>1. InsertAllocation(p, r.invoice, NoKey, r.amount)
      BY <1>1 DEF RecordPayment
    <3> QED  BY <2>1, <3>1, AllocationTyped
  <2> QED  BY <1>1, <2>2, <2>3 DEF RecordPayment, LedgerTypeOK, credits
<1>2. ASSUME NEW p \in Payments, RecordUnallocatedPayment(r, p)
      PROVE  LedgerTypeOK'
  <2>1. r.key \in Keys /\ r.amount \in Amounts /\ r.student \in Students \cup {NoStudent}
    BY <1>2, RequestFields DEF RecordUnallocatedPayment
  <2>2. InsertPayment(p, r.key, NoInvoice, r.amount, r.student)
    BY <1>2 DEF RecordUnallocatedPayment
  <2>3. payment' \in [Payments -> PaymentRow]
    BY <2>1, <2>2, PaymentTyped
  <2> QED  BY <1>2, <2>3 DEF RecordUnallocatedPayment, LedgerTypeOK, credits
<1>3. CASE AllocatePayment(r)
  <2>1. r.payment \in Payments /\ r.key \in Keys /\ r.lines \in Lines
    BY <1>3, RequestFields DEF AllocatePayment
  <2>2. InsertAllocations(r.payment, r.key, r.lines)
    BY <1>3 DEF AllocatePayment
  <2>3. alloc' \in [Payments -> [Invoices -> AllocationRow]]
    BY <2>1, <2>2, AllocationsTyped
  <2> QED  BY <1>3, <2>3 DEF AllocatePayment, LedgerTypeOK, credits
<1>4. CASE ReversePayment(r)
  <2>1. r.key \in Keys
    BY <1>4, RequestFields DEF ReversePayment
  <2>2. reversal' \in [Payments -> Keys \cup {NoKey}]
    BY <1>4, <2>1 DEF ReversePayment, LedgerTypeOK
  <2> QED  BY <1>4, <2>2 DEF ReversePayment, LedgerTypeOK, credits
<1>5. CASE RefundPayment(r)
  <2>1. refund' \in [Payments -> [Keys -> RefundRow]]
    BY <1>5, RefundTyped
  <2> QED  BY <1>5, <2>1 DEF RefundPayment, LedgerTypeOK, credits
<1>6. ASSUME NEW n \in Notes, CreateCreditNote(r, n)
      PROVE  LedgerTypeOK'
  <2>1. r.key \in Keys /\ r.invoice \in Invoices /\ r.amount \in Amounts
    BY <1>6, RequestFields DEF CreateCreditNote
  <2>2. InsertNote(n, r.key, r.invoice, r.amount)
    BY <1>6 DEF CreateCreditNote
  <2>3. note' \in [Notes -> NoteRow]
    BY <2>1, <2>2, NoteTyped
  <2> QED  BY <1>6, <2>3 DEF CreateCreditNote, LedgerTypeOK, collected
<1>7. CASE IssueCreditNote(r)
  <2>1. r.note \in Notes /\ NumberNote(r.note)
    BY <1>7, RequestFields DEF IssueCreditNote
  <2>2. note' \in [Notes -> NoteRow]
    BY <2>1, NumberNoteTyped
  <2>3. sequence' \in [{"INVOICE", "CREDIT_NOTE"} -> Nat \ {0}]
    BY <2>1, NumberTyped DEF NumberNote
  <2> QED  BY <1>7, <2>2, <2>3 DEF IssueCreditNote, LedgerTypeOK, collected
<1>8. CASE VoidCreditNote(r)
  <2>1. r.key \in Keys
    BY <1>8, RequestFields DEF VoidCreditNote
  <2>2. noteVoid' \in [Notes -> Keys \cup {NoKey}]
    BY <1>8, <2>1 DEF VoidCreditNote, LedgerTypeOK
  <2> QED  BY <1>8, <2>2 DEF VoidCreditNote, LedgerTypeOK, collected
<1>9. CASE Issue(r)
  <2>1. sequence' \in [{"INVOICE", "CREDIT_NOTE"} -> Nat \ {0}]
    BY <1>9, NumberTyped DEF Issue
  <2>2. invoice' \in [Invoices -> InvoiceRow]
    BY <1>9 DEF Issue, Number, LedgerTypeOK, InvoiceRow
  <2> QED  BY <1>9, <2>1, <2>2 DEF Issue, LedgerTypeOK, collected, credits
<1>10. CASE Void(r)
  <2>1. invoice' \in [Invoices -> InvoiceRow]
    BY <1>10 DEF Void, MarkVoid, LedgerTypeOK, InvoiceRow
  <2> QED  BY <1>10, <2>1 DEF Void, LedgerTypeOK, collected, credits
<1> QED
  BY <1>1, <1>2, <1>3, <1>4, <1>5, <1>6, <1>7, <1>8, <1>9, <1>10 DEF Execute

\* A payment entered now was not there, has the amount of the request, and the
\* other payments stay; its allocation, if any, is of that amount.
LEMMA SerialPayment ==
    ASSUME LedgerTypeOK, NEW r \in Request, NEW p \in Payments,
           RecordPayment(r, p) \/ RecordUnallocatedPayment(r, p)
    PROVE  /\ ~Recorded(p) /\ Recorded(p)' /\ refund' = refund
           /\ \A q \in Payments \ {p} : payment'[q] = payment[q] /\ alloc'[q] = alloc[q]
           /\ RecordUnallocatedPayment(r, p) => alloc' = alloc
           /\ RecordPayment(r, p) =>
                 /\ r.invoice \in Invoices /\ r.amount \in Nat
                 /\ alloc'[p][r.invoice].amount = r.amount /\ payment'[p].amount = r.amount
                 /\ \A i \in Invoices \ {r.invoice} : alloc'[p][i] = alloc[p][i]
<1>1. CASE RecordPayment(r, p)
  <2>1. r.amount \in Amounts /\ r.invoice \in Invoices
    BY <1>1, RequestFields DEF RecordPayment
  <2>2. ~RecordUnallocatedPayment(r, p)
    BY <1>1 DEF RecordPayment, RecordUnallocatedPayment
  <2> QED  BY <1>1, <2>1, <2>2 DEF RecordPayment, InsertPayment, InsertAllocation, Recorded, LedgerTypeOK, Amounts
<1>2. CASE RecordUnallocatedPayment(r, p)
  <2>1. r.amount \in Amounts
    BY <1>2, RequestFields DEF RecordUnallocatedPayment
  <2>2. ~RecordPayment(r, p)
    BY <1>2 DEF RecordPayment, RecordUnallocatedPayment
  <2> QED  BY <1>2, <2>1, <2>2 DEF RecordUnallocatedPayment, InsertPayment, Recorded, LedgerTypeOK, Amounts
<1> QED  BY <1>1, <1>2

\* The lines of a batch go where its payment had allocated nothing.
LEMMA SerialBatch ==
    ASSUME LedgerTypeOK, NEW r \in Request, AllocatePayment(r)
    PROVE  /\ r.payment \in Payments /\ r.lines \in Lines /\ Recorded(r.payment)
           /\ \A q \in Payments \ {r.payment} : alloc'[q] = alloc[q]
           /\ \A i \in Invoices :
                 \/ alloc'[r.payment][i] = alloc[r.payment][i] /\ i \notin Batch(r.lines)
                 \/ /\ i \in Batch(r.lines)
                    /\ alloc[r.payment][i].amount = 0 /\ alloc'[r.payment][i].amount = r.lines[i]
<1>1. r.payment \in Payments /\ r.lines \in Lines
  BY RequestFields DEF AllocatePayment
<1>2. alloc' = [alloc EXCEPT ![r.payment] = [j \in Invoices |->
                  IF r.lines[j] > 0 THEN [key |-> r.key, amount |-> r.lines[j]]
                                    ELSE alloc[r.payment][j]]]
  BY <1>1 DEF AllocatePayment, InsertAllocations, LedgerTypeOK
<1>3. \A i \in Batch(r.lines) : alloc[r.payment][i].amount = 0
  BY DEF AllocatePayment, NotAllocated
<1> QED  BY <1>1, <1>2, <1>3 DEF LedgerTypeOK, Batch, AllocatePayment

\* The commands that post no allocation.
LEMMA SerialOthers ==
    ASSUME NEW r \in Request, Execute(r)
    PROVE  \/ \E p \in Payments : RecordPayment(r, p) \/ RecordUnallocatedPayment(r, p)
           \/ AllocatePayment(r)
           \/ RefundPayment(r) /\ UNCHANGED <<payment, alloc>>
           \/ UNCHANGED <<payment, alloc, refund>>
BY DEF Execute, ReversePayment, RefundPayment, CreateCreditNote, IssueCreditNote, VoidCreditNote,
       Issue, Void, collected

LEMMA SerialWithin ==
    ASSUME LedgerTypeOK, LedgerTypeOK', AllocationsPosted, RefundsWithinPayment, NEW r \in Requests, Execute(r)
    PROVE  RefundsWithinPayment' /\ AllocationsPosted'
<1>0. r \in Request
  BY LedgerAssumption
<1>1. \A p \in Payments :
        refund' = refund /\ payment'[p] = payment[p] /\ alloc'[p] = alloc[p] => HasEnough(p)'
  BY WithinKept
<1>2. ASSUME NEW p \in Payments, RecordPayment(r, p) \/ RecordUnallocatedPayment(r, p)
      PROVE  RefundsWithinPayment' /\ AllocationsPosted'
  <2>1. /\ ~Recorded(p) /\ Recorded(p)' /\ refund' = refund
        /\ \A q \in Payments \ {p} : payment'[q] = payment[q] /\ alloc'[q] = alloc[q]
    BY <1>0, <1>2, SerialPayment
  <2>2. HasEnough(p)'
    <3>1. CASE RecordPayment(r, p)
      <4>1. /\ r.invoice \in Invoices /\ r.amount \in Nat
            /\ alloc'[p][r.invoice].amount = r.amount /\ payment'[p].amount = r.amount
            /\ \A i \in Invoices \ {r.invoice} : alloc'[p][i] = alloc[p][i]
        BY <1>0, <3>1, SerialPayment
      <4>2. alloc'[p][r.invoice].amount <= payment'[p].amount
        BY <4>1
      <4> QED  BY <2>1, <4>1, <4>2, PaymentFits
    <3>2. CASE RecordUnallocatedPayment(r, p)
      <4>1. alloc'[p] = alloc[p]
        BY <3>2 DEF RecordUnallocatedPayment
      <4> QED  BY <2>1, <4>1, AccountFits
    <3> QED  BY <1>2, <3>1, <3>2
  <2>3. \A q \in Payments : HasEnough(q)'
    BY <1>1, <2>1, <2>2
  <2>4. AllocationsPosted'
    BY <2>1 DEF AllocationsPosted, Recorded, NotAllocated
  <2> QED  BY <2>3, <2>4 DEF RefundsWithinPayment, HasEnough
<1>3. CASE AllocatePayment(r)
  <2>1. /\ r.payment \in Payments /\ r.lines \in Lines /\ Recorded(r.payment)
        /\ \A q \in Payments \ {r.payment} : alloc'[q] = alloc[q]
        /\ \A i \in Invoices :
              \/ alloc'[r.payment][i] = alloc[r.payment][i]
              \/ alloc[r.payment][i].amount = 0 /\ alloc'[r.payment][i].amount = r.lines[i]
    BY <1>0, <1>3, SerialBatch
  <2>2. /\ refund' = refund /\ payment' = payment
        /\ Allocated(r.payment) + Sum(r.lines, Invoices) <= payment[r.payment].amount
    BY <1>3 DEF AllocatePayment
  <2>3. PICK p \in Payments : p = r.payment
    BY <2>1
  <2>4. HasEnough(p)'
    BY <2>1, <2>2, <2>3, LinesFit
  <2>5. \A q \in Payments : HasEnough(q)'
    BY <1>1, <2>1, <2>2, <2>3, <2>4
  <2>6. AllocationsPosted'
    BY <2>1, <2>2 DEF AllocationsPosted, Recorded, NotAllocated
  <2> QED  BY <2>5, <2>6 DEF RefundsWithinPayment, HasEnough
<1>4. CASE RefundPayment(r) /\ UNCHANGED <<payment, alloc>>
  BY <1>4, RefundWrites DEF AllocationsPosted, Recorded, NotAllocated
<1>5. CASE UNCHANGED <<payment, alloc, refund>>
  <2>1. \A q \in Payments : HasEnough(q)'
    BY <1>1, <1>5
  <2> QED  BY <1>5, <2>1 DEF RefundsWithinPayment, HasEnough, AllocationsPosted, Recorded, NotAllocated
<1> QED  BY <1>0, <1>2, <1>3, <1>4, <1>5, SerialOthers

\* What a payment adds to what is paid on an invoice.
LEMMA PaidGrows ==
    ASSUME LedgerTypeOK, LedgerTypeOK', NEW i \in Invoices, NEW p \in Payments, NEW a \in Nat,
           refund' = refund, reversal' = reversal,
           \A q \in Payments \ {p} : alloc'[q][i].amount = alloc[q][i].amount,
           alloc'[p][i].amount <= alloc[p][i].amount + a
    PROVE  Paid(i)' <= Paid(i) + a
<1> DEFINE S == {q \in Payments : ~Reversed(q)}
           f == [q \in S |-> alloc[q][i].amount - TakenBack(q, i)]
           g == [q \in S |-> alloc'[q][i].amount - TakenBack(q, i)]
<1>1. \A q \in Payments : /\ Reversed(q)' <=> Reversed(q)
                          /\ TakenBack(q, i)' = TakenBack(q, i)
  BY DEF Reversed, TakenBack
<1>2. \A q \in Payments : alloc[q][i].amount \in Nat /\ alloc'[q][i].amount \in Nat /\ TakenBack(q, i) \in Nat
  BY PaymentSums DEF LedgerTypeOK, AllocationRow
<1>3. Paid(i) = Sum(f, S)
  BY DEF Paid
<1>4. Paid(i)' = Sum(g, S)
  <2> DEFINE T == {q \in Payments : ~Reversed(q)'}
             h == [q \in T |-> alloc'[q][i].amount - TakenBack(q, i)']
  <2>1. T = S /\ h = g
    BY <1>1
  <2>2. Paid(i)' = Sum(h, T)
    BY DEF Paid
  <2> HIDE DEF S, T, g, h
  <2> QED  BY <2>1, <2>2
<1>5. IsFiniteSet(S)
  BY LedgerAssumption, FS_Subset
<1>6. \A q \in S : f[q] \in Int /\ g[q] \in Int
  BY <1>2
<1>7. \A q \in S : q # p => f[q] = g[q]
  OBVIOUS
<1>8. Sum(f, S) \in Int /\ Sum(g, S) \in Int
  <2> HIDE DEF S, f, g
  <2> QED  BY <1>5, <1>6, SumInt
<1>9. CASE p \in S
  <2>1. Sum(g, S) = Sum(f, S) - f[p] + g[p]
    <3> HIDE DEF S, f, g
    <3> QED  BY <1>5, <1>6, <1>7, <1>9, SumChange
  <2>2. g[p] <= f[p] + a /\ f[p] \in Int /\ g[p] \in Int
    BY <1>2, <1>9
  <2> HIDE DEF S, f, g
  <2> QED  BY <1>3, <1>4, <1>8, <2>1, <2>2
<1>10. CASE p \notin S
  <2>1. \A q \in S : f[q] \in Int /\ g[q] \in Int /\ g[q] <= f[q]
    BY <1>2, <1>10
  <2>2. Sum(g, S) <= Sum(f, S)
    <3> HIDE DEF S, f, g
    <3> QED  BY <1>5, <2>1, SumMonotone
  <2> HIDE DEF S, f, g
  <2> QED  BY <1>3, <1>4, <1>8, <2>2
<1> QED  BY <1>9, <1>10

\* What a note adds to what is credited on its invoice.
LEMMA CreditGrows ==
    ASSUME LedgerTypeOK, LedgerTypeOK', NEW i \in Invoices, NEW n \in Notes, noteVoid' = noteVoid,
           \A m \in Notes \ {n} : note'[m] = note[m],
           note'[n].amount = note[n].amount, ~InForce(n)
    PROVE  Credit(i)' <= Credit(i) + note[n].amount
<1> DEFINE S == {m \in Notes : InForce(m) /\ note[m].invoice = i}
           T == {m \in Notes : InForce(m)' /\ note'[m].invoice = i}
           f == [m \in S |-> note[m].amount]
           g == [m \in T |-> note'[m].amount]
           U == T \ {n}
<1>1. \A m \in Notes : note[m].amount \in Nat /\ note'[m].amount \in Nat
  BY DEF LedgerTypeOK, NoteRow
<1>2. U \subseteq S
  BY DEF InForce
<1>3. IsFiniteSet(S) /\ IsFiniteSet(T)
  BY LedgerAssumption, FS_Subset
<1>4. \A m \in S : f[m] \in Nat
  BY <1>1
<1>5. \A m \in T : g[m] \in Int
  BY <1>1
<1>6. \A m \in U : g[m] \in Int /\ g[m] <= f[m]
  BY <1>1, <1>2
<1>7. Sum(g, U) <= Sum(f, S)
  <2> HIDE DEF S, U, f, g
  <2> QED  BY <1>2, <1>3, <1>4, <1>6, SumShrinks
<1>8. Credit(i) = Sum(f, S) /\ Credit(i)' = Sum(g, T)
  BY DEF Credit
<1>9. IsFiniteSet(U)
  BY <1>3, FS_RemoveElement
<1>10. Sum(f, S) \in Int /\ Sum(g, U) \in Int
  <2>1. \A m \in S : f[m] \in Int
    BY <1>4
  <2> HIDE DEF S, U, f, g
  <2> QED  BY <1>3, <1>6, <1>9, <2>1, SumInt
<1>11. CASE n \in T
  <2>1. Sum(g, T) = g[n] + Sum(g, U)
    <3> HIDE DEF T, g
    <3> QED  BY <1>3, <1>5, <1>11, SumsAgree, SumOverTake
  <2>2. g[n] = note[n].amount /\ note[n].amount \in Nat
    BY <1>1, <1>11
  <2> HIDE DEF S, T, U, f, g
  <2> QED  BY <1>7, <1>8, <1>10, <2>1, <2>2
<1>12. CASE n \notin T
  <2>1. U = T /\ note[n].amount \in Nat
    BY <1>1, <1>12
  <2> HIDE DEF S, T, U, f, g
  <2> QED  BY <1>7, <1>8, <1>10, <2>1
<1> QED  BY <1>11, <1>12

\* The commands that collect or credit on i.
Uses(r, i) ==
    \/ r.op = "recordPayment" /\ r.invoice = i
    \/ r.op = "allocatePayment" /\ i \in Batch(r.lines)
    \/ r.op = "issueCreditNote" /\ note[r.note].invoice = i

\* No other command raises what is paid or credited on i.
LEMMA SerialShrinks ==
    ASSUME LedgerTypeOK, LedgerTypeOK', RefundsWithinPayment,
           NEW r \in Requests, Execute(r), NEW i \in Invoices, ~Uses(r, i)
    PROVE  Paid(i)' <= Paid(i) /\ Credit(i)' <= Credit(i)
<1>0. r \in Request
  BY LedgerAssumption
<1> DEFINE KeepsPaid ==
             \A p \in Payments : /\ Reversed(p) => Reversed(p)'
                                 /\ alloc'[p][i].amount = alloc[p][i].amount
                                 /\ TakenBack(p, i) <= TakenBack(p, i)'
           KeepsCredit ==
             \A n \in Notes : InForce(n)' /\ note'[n].invoice = i =>
                 InForce(n) /\ note[n].invoice = i /\ note'[n].amount = note[n].amount
<1>1. KeepsPaid => Paid(i)' <= Paid(i)
  BY PaidShrinks, TakenBackTyped
<1>2. KeepsCredit => Credit(i)' <= Credit(i)
  BY CreditShrinks
<1>3. \A p \in Payments : refund' = refund => TakenBack(p, i) <= TakenBack(p, i)'
  <2>1. \A p \in Payments : refund' = refund => TakenBack(p, i)' = TakenBack(p, i)
    BY DEF TakenBack
  <2> QED  BY <2>1, PaymentSums
<1>4. UNCHANGED credits => KeepsCredit
  BY DEF credits, InForce
<1>5. (refund' = refund /\ reversal' = reversal
         /\ \A p \in Payments : alloc'[p][i].amount = alloc[p][i].amount) => KeepsPaid
  BY <1>3 DEF Reversed
<1>6. ASSUME NEW p \in Payments, RecordPayment(r, p) \/ RecordUnallocatedPayment(r, p)
      PROVE  KeepsPaid /\ KeepsCredit
  <2>1. \A q \in Payments : alloc'[q][i].amount = alloc[q][i].amount
    <3>1. CASE RecordPayment(r, p)
      <4>1. r.invoice # i
        BY <3>1 DEF Uses, RecordPayment
      <4> QED  BY <1>0, <3>1, <4>1, SerialPayment
    <3>2. CASE RecordUnallocatedPayment(r, p)
      BY <3>2 DEF RecordUnallocatedPayment
    <3> QED  BY <1>6, <3>1, <3>2
  <2>2. refund' = refund /\ reversal' = reversal /\ UNCHANGED credits
    BY <1>6 DEF RecordPayment, RecordUnallocatedPayment
  <2> QED  BY <1>4, <1>5, <2>1, <2>2
<1>7. CASE AllocatePayment(r)
  <2>1. i \notin Batch(r.lines)
    BY <1>7 DEF Uses, AllocatePayment
  <2>2. \A q \in Payments : alloc'[q][i].amount = alloc[q][i].amount
    BY <1>0, <1>7, <2>1, SerialBatch
  <2>3. refund' = refund /\ reversal' = reversal /\ UNCHANGED credits
    BY <1>7 DEF AllocatePayment
  <2> QED  BY <1>1, <1>2, <1>4, <1>5, <2>2, <2>3
<1>8. CASE ReversePayment(r)
  <2>1. refund' = refund /\ alloc' = alloc /\ UNCHANGED credits
    BY <1>8 DEF ReversePayment
  <2>2. r.payment \in Payments /\ r.key \in Keys
    BY <1>0, <1>8, RequestFields DEF ReversePayment
  <2>3. \A p \in Payments : Reversed(p) => Reversed(p)'
    BY <1>8, <2>2, LedgerAssumption DEF ReversePayment, Reversed, LedgerTypeOK
  <2> QED  BY <1>1, <1>2, <1>3, <1>4, <2>1, <2>3
<1>9. CASE RefundPayment(r)
  <2>1. reversal' = reversal /\ alloc' = alloc /\ UNCHANGED credits
    BY <1>9 DEF RefundPayment
  <2>2. \A p \in Payments : TakenBack(p, i) <= TakenBack(p, i)'
    BY <1>9, RefundTakesBack
  <2> QED  BY <1>1, <1>2, <1>4, <2>1, <2>2 DEF Reversed
<1>10. ASSUME NEW n \in Notes, CreateCreditNote(r, n)
       PROVE  KeepsPaid /\ KeepsCredit
  <2>1. refund' = refund /\ reversal' = reversal /\ alloc' = alloc /\ noteVoid' = noteVoid
    BY <1>10 DEF CreateCreditNote, collected
  <2>2. note'[n].status = "DRAFT" /\ \A m \in Notes \ {n} : note'[m] = note[m]
    BY <1>10 DEF CreateCreditNote, InsertNote, LedgerTypeOK
  <2>3. KeepsCredit
    BY <2>1, <2>2 DEF InForce
  <2> QED  BY <1>5, <2>1, <2>3
<1>11. CASE IssueCreditNote(r)
  <2>1. refund' = refund /\ reversal' = reversal /\ alloc' = alloc /\ noteVoid' = noteVoid
    BY <1>11 DEF IssueCreditNote, collected
  <2>2. note[r.note].invoice # i /\ r.note \in Notes
    BY <1>0, <1>11, RequestFields DEF Uses, IssueCreditNote
  <2>3. note'[r.note].invoice = note[r.note].invoice /\ \A m \in Notes \ {r.note} : note'[m] = note[m]
    BY <1>11, <2>2 DEF IssueCreditNote, NumberNote, LedgerTypeOK
  <2>4. KeepsCredit
    BY <2>1, <2>2, <2>3 DEF InForce
  <2> QED  BY <1>1, <1>2, <1>5, <2>1, <2>4
<1>12. CASE VoidCreditNote(r)
  <2>1. refund' = refund /\ reversal' = reversal /\ alloc' = alloc /\ note' = note
    BY <1>12 DEF VoidCreditNote, collected
  <2>2. r.note \in Notes /\ r.key \in Keys
    BY <1>0, <1>12, RequestFields DEF VoidCreditNote
  <2>3. \A n \in Notes : InForce(n)' => InForce(n)
    BY <1>12, <2>1, <2>2 DEF VoidCreditNote, InForce, LedgerTypeOK
  <2>4. KeepsCredit
    BY <2>1, <2>3
  <2> QED  BY <1>1, <1>2, <1>5, <2>1, <2>4
<1>13. CASE Issue(r) \/ Void(r)
  <2>1. UNCHANGED <<refund, reversal, alloc>> /\ UNCHANGED credits
    BY <1>13 DEF Issue, Void, collected
  <2> QED  BY <1>1, <1>2, <1>4, <1>5, <2>1
<1> QED
  BY <1>1, <1>2, <1>6, <1>7, <1>8, <1>9, <1>10, <1>11, <1>12, <1>13 DEF Execute

\* A command that collects or credits on i finds it issued, and what it adds is
\* within what is outstanding.
LEMMA SerialUses ==
    ASSUME LedgerTypeOK, LedgerTypeOK', RefundsWithinPayment,
           NEW r \in Requests, Execute(r), NEW i \in Invoices, Uses(r, i)
    PROVE  /\ invoice[i].status = "ISSUED" /\ invoice' = invoice
           /\ Paid(i)' + Credit(i)' <= Total[i]
<1>0. r \in Request
  BY LedgerAssumption
<1>1. Paid(i) \in Int /\ Credit(i) \in Int /\ Paid(i)' \in Int /\ Credit(i)' \in Int /\ Total[i] \in Int
  BY BalanceSums, BalancesTyped, LedgerAssumption
<1>2. UNCHANGED credits => Credit(i)' = Credit(i)
  BY DEF credits, Credit, InForce
<1>3. UNCHANGED collected => Paid(i)' = Paid(i)
  BY DEF collected, Paid, Reversed, TakenBack
<1>4. CASE r.op = "recordPayment"
  <2>1. PICK p \in Payments : RecordPayment(r, p)
    BY <1>4 DEF Execute, RecordPayment, RecordUnallocatedPayment, AllocatePayment, ReversePayment,
                RefundPayment, CreateCreditNote, IssueCreditNote, VoidCreditNote, Issue, Void
  <2>2. r.invoice = i
    BY <1>4 DEF Uses
  <2>3. /\ r.amount \in Nat /\ alloc'[p][i].amount = r.amount
        /\ \A q \in Payments \ {p} : alloc'[q] = alloc[q]
    BY <1>0, <2>1, <2>2, SerialPayment
  <2>4. /\ refund' = refund /\ reversal' = reversal /\ UNCHANGED credits /\ invoice' = invoice
        /\ invoice[i].status = "ISSUED" /\ r.amount <= Outstanding(i)
    BY <2>1, <2>2 DEF RecordPayment
  <2>5. alloc[p][i].amount \in Nat
    BY DEF LedgerTypeOK, AllocationRow
  <2>6. Paid(i)' <= Paid(i) + r.amount
    <3>1. alloc'[p][i].amount <= alloc[p][i].amount + r.amount
      BY <2>3, <2>5
    <3>2. \A q \in Payments \ {p} : alloc'[q][i].amount = alloc[q][i].amount
      BY <2>3
    <3> QED  BY <2>3, <2>4, <3>1, <3>2, PaidGrows
  <2> QED  BY <1>1, <1>2, <2>3, <2>4, <2>6 DEF Outstanding
<1>5. CASE r.op = "allocatePayment"
  <2>1. AllocatePayment(r)
    BY <1>5 DEF Execute, RecordPayment, RecordUnallocatedPayment, AllocatePayment, ReversePayment,
                RefundPayment, CreateCreditNote, IssueCreditNote, VoidCreditNote, Issue, Void
  <2>2. i \in Batch(r.lines)
    BY <1>5 DEF Uses
  <2>3. PICK p \in Payments : p = r.payment
    BY <1>0, <2>1, SerialBatch
  <2>4. r.lines[i] \in Nat
    BY <1>0, <2>1, SerialBatch DEF Lines
  <2>5. /\ refund' = refund /\ reversal' = reversal /\ UNCHANGED credits /\ invoice' = invoice
        /\ invoice[i].status = "ISSUED" /\ r.lines[i] <= Outstanding(i)
    BY <2>1, <2>2 DEF AllocatePayment
  <2>6. alloc[p][i].amount \in Nat
    BY DEF LedgerTypeOK, AllocationRow
  <2>7. Paid(i)' <= Paid(i) + r.lines[i]
    <3>1. alloc'[p][i].amount <= alloc[p][i].amount + r.lines[i]
      BY <1>0, <2>1, <2>2, <2>3, <2>4, <2>6, SerialBatch
    <3>2. \A q \in Payments \ {p} : alloc'[q][i].amount = alloc[q][i].amount
      BY <1>0, <2>1, <2>3, SerialBatch
    <3> QED  BY <2>4, <2>5, <3>1, <3>2, PaidGrows
  <2> QED  BY <1>1, <1>2, <2>4, <2>5, <2>7 DEF Outstanding
<1>6. CASE r.op = "issueCreditNote"
  <2>1. IssueCreditNote(r)
    BY <1>6 DEF Execute, RecordPayment, RecordUnallocatedPayment, AllocatePayment, ReversePayment,
                RefundPayment, CreateCreditNote, IssueCreditNote, VoidCreditNote, Issue, Void
  <2>2. note[r.note].invoice = i
    BY <1>6 DEF Uses
  <2>3. PICK n \in Notes : n = r.note
    BY <1>0, <2>1, RequestFields DEF IssueCreditNote
  <2>4. /\ UNCHANGED collected /\ noteVoid' = noteVoid /\ invoice' = invoice
        /\ invoice[i].status = "ISSUED" /\ note[n].amount <= Outstanding(i) /\ ~InForce(n)
    BY <2>1, <2>2, <2>3 DEF IssueCreditNote, NoteFits, InForce
  <2>5. note'[n].amount = note[n].amount /\ \A m \in Notes \ {n} : note'[m] = note[m]
    <3>1. note[n] \in NoteRow
      BY DEF LedgerTypeOK
    <3> QED  BY <2>1, <2>3, <3>1 DEF IssueCreditNote, NumberNote, LedgerTypeOK, NoteRow
  <2>6. Credit(i)' <= Credit(i) + note[n].amount
    BY <2>4, <2>5, CreditGrows
  <2>7. note[n].amount \in Nat
    BY DEF LedgerTypeOK, NoteRow
  <2> QED  BY <1>1, <1>3, <2>4, <2>6, <2>7 DEF Outstanding
<1> QED  BY <1>4, <1>5, <1>6 DEF Uses

LEMMA SumZero ==
    ASSUME NEW f, NEW S, IsFiniteSet(S), \A x \in S : f[x] = 0
    PROVE  Sum(f, S) = 0
<1>1. \A x \in S : f[x] \in Int /\ f[x] = f[x] + f[x]
  OBVIOUS
<1>2. Sum(f, S) = Sum(f, S) + Sum(f, S) /\ Sum(f, S) \in Int
  BY <1>1, SumPlus, SumInt
<1> QED  BY <1>2, OnlyZero

\* Nothing was given back that was not taken: no invoice is paid below zero.
LEMMA PaidNonNegative ==
    ASSUME LedgerTypeOK, RefundsWithinPayment, NEW i \in Invoices
    PROVE  Paid(i) >= 0
<1> DEFINE S == {p \in Payments : ~Reversed(p)}
           f == [p \in S |-> alloc[p][i].amount - TakenBack(p, i)]
<1>1. IsFiniteSet(S)
  BY LedgerAssumption, FS_Subset
<1>2. \A p \in S : f[p] \in Nat
  BY PaymentSums DEF LedgerTypeOK, AllocationRow, RefundsWithinPayment
<1>3. Sum(f, S) \in Nat
  <2> HIDE DEF S, f
  <2> QED  BY <1>1, <1>2, SumNonNegative
<1> QED  BY <1>3 DEF Paid

\* The invariant of the serial ledger.
VoidHoldsNothing == \A i \in Invoices : invoice[i].status = "VOID" => Paid(i) <= 0

SerialInv ==
    /\ LedgerTypeOK /\ AllocationsPosted /\ RefundsWithinPayment
    /\ NetDueCoversPaid /\ VoidHoldsNothing

LEMMA SerialInit == LedgerInit => SerialInv
<1> SUFFICES ASSUME LedgerInit  PROVE SerialInv
  OBVIOUS
<1>1. LedgerTypeOK /\ RefundsWithinPayment
  BY LedgerTypeInit, WithinInit
<1>2. AllocationsPosted /\ \A i \in Invoices : invoice[i].status = "DRAFT"
  BY DEF LedgerInit, AllocationsPosted, NotAllocated
<1>3. ASSUME NEW i \in Invoices  PROVE Paid(i) + Credit(i) <= Total[i]
  <2>1. Paid(i) <= 0
    <3> DEFINE S == {p \in Payments : ~Reversed(p)}
               f == [p \in S |-> alloc[p][i].amount - TakenBack(p, i)]
    <3>1. IsFiniteSet(S)
      BY LedgerAssumption, FS_Subset
    <3>2. \A p \in Payments : alloc[p][i].amount = 0 /\ TakenBack(p, i) \in Nat /\ TakenBack(p, i) <= 0
      BY <1>1, PaymentSums DEF LedgerInit, RefundsWithinPayment
    <3>3. \A p \in S : f[p] = 0
      BY <3>2
    <3>4. Sum(f, S) = 0
      <4> HIDE DEF S, f
      <4> QED  BY <3>1, <3>3, SumZero
    <3> QED  BY <3>4 DEF Paid
  <2>2. Credit(i) <= 0
    <3> DEFINE S == {n \in Notes : InForce(n) /\ note[n].invoice = i}
               f == [n \in S |-> note[n].amount]
    <3>1. IsFiniteSet(S)
      BY LedgerAssumption, FS_Subset
    <3>2. \A n \in S : f[n] = 0
      BY DEF LedgerInit
    <3>3. Sum(f, S) = 0
      <4> HIDE DEF S, f
      <4> QED  BY <3>1, <3>2, SumZero
    <3> QED  BY <3>3 DEF Credit
  <2>3. Paid(i) \in Int /\ Credit(i) \in Int /\ Total[i] \in Nat
    BY <1>1, BalanceSums, LedgerAssumption
  <2> QED  BY <2>1, <2>2, <2>3
<1> QED  BY <1>1, <1>2, <1>3 DEF SerialInv, NetDueCoversPaid, VoidHoldsNothing

\* A status changes by issuing a draft or by the void of an invoice nothing is paid on.
LEMMA StatusMoves ==
    ASSUME LedgerTypeOK, NEW r \in Request, Execute(r), NEW i \in Invoices,
           invoice'[i].status = "VOID"
    PROVE  invoice[i].status = "VOID" \/ (Unpaid(i) /\ UNCHANGED collected)
<1>1. CASE invoice' = invoice
  BY <1>1
<1>2. CASE Issue(r)
  <2>1. r.invoice \in Invoices
    BY <1>2, RequestFields DEF Issue
  <2> QED  BY <1>2, <2>1 DEF Issue, LedgerTypeOK
<1>3. CASE Void(r)
  <2>1. r.invoice \in Invoices
    BY <1>3, RequestFields DEF Void
  <2>2. i # r.invoice => invoice'[i] = invoice[i]
    BY <1>3, <2>1 DEF Void, MarkVoid, LedgerTypeOK
  <2> QED  BY <1>3, <2>1, <2>2 DEF Void
<1> QED
  BY <1>1, <1>2, <1>3 DEF Execute, RecordPayment, RecordUnallocatedPayment, AllocatePayment, ReversePayment,
     RefundPayment, CreateCreditNote, IssueCreditNote, VoidCreditNote

LEMMA SerialStep ==
    ASSUME SerialInv, NEW r \in Requests, Execute(r)
    PROVE  SerialInv'
<1>0. r \in Request
  BY LedgerAssumption
<1>1. LedgerTypeOK'
  BY <1>0, SerialTypes DEF SerialInv
<1>2. RefundsWithinPayment' /\ AllocationsPosted'
  BY <1>1, SerialWithin DEF SerialInv
<1>3. ASSUME NEW i \in Invoices
      PROVE  /\ Paid(i)' + Credit(i)' <= Total[i]
             /\ invoice'[i].status = "VOID" => Paid(i)' <= 0
  <2>1. Paid(i) \in Int /\ Credit(i) \in Int /\ Paid(i)' \in Int /\ Credit(i)' \in Int /\ Total[i] \in Int
    BY <1>1, BalanceSums, BalancesTyped, LedgerAssumption DEF SerialInv
  <2>2. Paid(i) + Credit(i) <= Total[i] /\ (invoice[i].status = "VOID" => Paid(i) <= 0)
    BY DEF SerialInv, NetDueCoversPaid, VoidHoldsNothing
  <2>3. CASE Uses(r, i)
    <3>1. invoice[i].status = "ISSUED" /\ invoice' = invoice /\ Paid(i)' + Credit(i)' <= Total[i]
      BY <1>1, <2>3, SerialUses DEF SerialInv
    <3> QED  BY <3>1
  <2>4. CASE ~Uses(r, i)
    <3>1. Paid(i)' <= Paid(i) /\ Credit(i)' <= Credit(i)
      BY <1>1, <2>4, SerialShrinks DEF SerialInv
    <3>2. invoice'[i].status = "VOID" => Paid(i) <= 0
      BY <1>0, <2>2, StatusMoves DEF SerialInv, Unpaid
    <3> QED  BY <2>1, <2>2, <3>1, <3>2
  <2> QED  BY <2>3, <2>4
<1> QED  BY <1>1, <1>2, <1>3 DEF SerialInv, NetDueCoversPaid, VoidHoldsNothing

LEMMA SerialBalanced == SerialInv => NetDueCoversPaid /\ VoidIsUnpaid
<1> SUFFICES ASSUME SerialInv, NEW i \in Invoices, invoice[i].status = "VOID"  PROVE Paid(i) = 0
  BY DEF SerialInv, VoidIsUnpaid
<1>1. Paid(i) >= 0 /\ Paid(i) <= 0 /\ Paid(i) \in Int
  BY PaidNonNegative, BalanceSums DEF SerialInv, VoidHoldsNothing
<1> QED  BY <1>1

LEMMA SerialStutters == SerialInv /\ UNCHANGED ledger => SerialInv'
BY DEF SerialInv, ledger, collected, credits, LedgerTypeOK, AllocationsPosted, RefundsWithinPayment,
       NetDueCoversPaid, VoidHoldsNothing, Recorded, NotAllocated, Allocated, Refunded, TakenBack,
       Paid, Credit, Reversed, InForce

\* What the commands promise when they run one after the other, for any invoices,
\* payments, notes and commands: no invoice is paid and credited beyond its total,
\* and a void invoice holds no money.
THEOREM SerialBalances == LedgerSpec => [](NetDueCoversPaid /\ VoidIsUnpaid)
<1>1. SerialInv /\ [LedgerNext]_ledger => SerialInv'
  BY SerialStep, SerialStutters DEF LedgerNext
<1> QED  BY <1>1, SerialInit, SerialBalanced, PTL DEF LedgerSpec

\* The property the run checks, in the parts that run the commands so.
THEOREM BalancesStay == MCSpec => []BalancesHold
<1> DEFINE Balanced == InSequence => SerialInv
<1>1. MCInit => Balanced
  BY SerialInit DEF MCInit, Init, HistoryInit, InSequence
<1>2. Balanced /\ [MCNext]_<<vars, history, drafting, part>> => Balanced'
  <2>1. SUFFICES ASSUME Balanced, [MCNext]_<<vars, history, drafting, part>>, InSequence'
                 PROVE  SerialInv'
    OBVIOUS
  <2>2. CASE UNCHANGED <<vars, history, drafting, part>>
    BY <2>1, <2>2, SerialStutters DEF vars, InSequence
  <2>3. ASSUME NEW r \in LedgerRequests, Execute(r), InSequence  PROVE SerialInv'
    BY <2>1, <2>3, SerialStep, MCAssumption
  <2>4. ASSUME HistoryNext, InSequence  PROVE SerialInv'
    <3>1. UNCHANGED ledger \/ \E r \in Commands : Execute(r)
      BY <2>4 DEF HistoryNext, Executes
    <3> QED  BY <2>1, <2>4, <3>1, SerialStep, SerialStutters, HistoryAssumption
  <2> QED  BY <2>1, <2>2, <2>3, <2>4 DEF MCNext, InSequence
<1>3. Balanced => BalancesHold
  BY SerialBalanced DEF BalancesHold
<1> QED  BY <1>1, <1>2, <1>3, PTL DEF MCSpec

-----------------------------------------------------------------------------
(* The past of the ledger: what is posted stays, stamped with the beginning  *)
(* of its writer.                                                            *)

\* A command executed now posts rows and changes none.
LEMMA SerialKept ==
    ASSUME LedgerTypeOK, AllocationsPosted, NEW r \in Request, Execute(r)
    PROVE  PostedKept
<1>0. \A p \in Payments, i \in Invoices : alloc[p][i].amount \in Nat
  BY DEF LedgerTypeOK, AllocationRow
<1>1. ASSUME NEW p \in Payments
      PROVE  /\ Recorded(p) => payment'[p] = payment[p]
             /\ \A i \in Invoices : alloc[p][i].amount > 0 => alloc'[p][i] = alloc[p][i]
  <2>1. CASE \E q \in Payments : RecordPayment(r, q) \/ RecordUnallocatedPayment(r, q)
    <3>1. PICK q \in Payments : RecordPayment(r, q) \/ RecordUnallocatedPayment(r, q)
      BY <2>1
    <3>2. ~Recorded(q) /\ \A x \in Payments \ {q} : payment'[x] = payment[x] /\ alloc'[x] = alloc[x]
      BY <3>1, SerialPayment
    <3> QED  BY <1>0, <3>2 DEF AllocationsPosted, NotAllocated
  <2>2. CASE AllocatePayment(r)
    BY <2>2, SerialBatch DEF AllocatePayment
  <2>3. CASE UNCHANGED <<payment, alloc>>
    BY <2>3
  <2> QED  BY <2>1, <2>2, <2>3, SerialOthers
<1>2. ASSUME NEW p \in Payments
      PROVE  /\ Reversed(p) => reversal'[p] = reversal[p]
             /\ \A k \in Keys : refund[p][k].amount > 0 => refund'[p][k] = refund[p][k]
  <2>1. CASE ReversePayment(r)
    <3>1. \A q \in Payments : q # r.payment => reversal'[q] = reversal[q]
      BY <2>1 DEF ReversePayment, LedgerTypeOK
    <3> QED  BY <2>1, <3>1 DEF ReversePayment
  <2>2. CASE RefundPayment(r)
    <3>1. r.payment \in Payments /\ r.key \in Keys /\ refund[r.payment][r.key].amount = 0 /\ reversal' = reversal
      BY <2>2, RequestFields DEF RefundPayment
    <3>2. \A k \in Keys : (p # r.payment \/ k # r.key) => refund'[p][k] = refund[p][k]
      BY <2>2, <3>1 DEF RefundPayment, LedgerTypeOK
    <3> QED  BY <3>1, <3>2
  <2>3. CASE UNCHANGED <<reversal, refund>>
    BY <2>3
  <2> QED
    BY <2>1, <2>2, <2>3 DEF Execute, RecordPayment, RecordUnallocatedPayment, AllocatePayment,
       CreateCreditNote, IssueCreditNote, VoidCreditNote, Issue, Void, collected
<1>3. ASSUME NEW n \in Notes
      PROVE  /\ note[n].status = "ISSUED" => note'[n] = note[n]
             /\ noteVoid[n] # NoKey => noteVoid'[n] = noteVoid[n]
  <2>1. ASSUME NEW m \in Notes, CreateCreditNote(r, m)
        PROVE  note[n].status = "ISSUED" => note'[n] = note[n]
    BY <2>1 DEF CreateCreditNote, InsertNote, LedgerTypeOK
  <2>2. CASE IssueCreditNote(r)
    <3>1. n # r.note => note'[n] = note[n]
      BY <2>2 DEF IssueCreditNote, NumberNote, LedgerTypeOK
    <3> QED  BY <2>2, <3>1 DEF IssueCreditNote
  <2>3. CASE VoidCreditNote(r)
    <3>1. n # r.note => noteVoid'[n] = noteVoid[n]
      BY <2>3 DEF VoidCreditNote, LedgerTypeOK
    <3> QED  BY <2>3, <3>1 DEF VoidCreditNote
  <2>4. CASE UNCHANGED credits
    BY <2>4 DEF credits
  <2> QED
    BY <2>1, <2>2, <2>3, <2>4 DEF Execute, RecordPayment, RecordUnallocatedPayment, AllocatePayment,
       ReversePayment, RefundPayment, CreateCreditNote, Issue, Void
<1>4. ASSUME NEW i \in Invoices, invoice[i].status # "DRAFT"
      PROVE  /\ invoice'[i].number = invoice[i].number
             /\ invoice'[i].status # invoice[i].status => invoice'[i].status = "VOID"
  <2>0. invoice[i] \in InvoiceRow
    BY DEF LedgerTypeOK
  <2>1. CASE Issue(r)
    <3>1. i # r.invoice
      BY <1>4, <2>1 DEF Issue
    <3> QED  BY <2>1, <3>1 DEF Issue, LedgerTypeOK
  <2>2. CASE Void(r)
    <3>1. invoice' = [invoice EXCEPT ![r.invoice].status = "VOID"]
      BY <2>2 DEF Void, MarkVoid
    <3>2. i # r.invoice => invoice'[i] = invoice[i]
      BY <3>1 DEF LedgerTypeOK
    <3>3. i = r.invoice => invoice'[i].number = invoice[i].number /\ invoice'[i].status = "VOID"
      BY <2>0, <3>1 DEF LedgerTypeOK, InvoiceRow
    <3> QED  BY <3>2, <3>3
  <2>3. CASE invoice' = invoice
    BY <2>3
  <2> QED
    BY <2>1, <2>2, <2>3 DEF Execute, RecordPayment, RecordUnallocatedPayment, AllocatePayment,
       ReversePayment, RefundPayment, CreateCreditNote, IssueCreditNote, VoidCreditNote
<1> QED  BY <1>1, <1>2, <1>3, <1>4 DEF PostedKept

\* The serial ledger never changes a posted row either.
THEOREM SerialAppendOnly == LedgerSpec => PostedIsFinal
<1>1. SerialInv /\ [LedgerNext]_ledger => SerialInv'
  BY SerialStep, SerialStutters DEF LedgerNext
<1>2. SerialInv /\ [LedgerNext]_ledger => [PostedKept]_ledger
  BY SerialKept, LedgerAssumption DEF LedgerNext, SerialInv
<1> QED  BY <1>1, <1>2, SerialInit, PTL DEF LedgerSpec, PostedIsFinal, PostedKept

\* What the names of the posted rows stand for.
LEMMA PostedRows ==
    /\ \A i : <<"ISSUED", i>> \in Posted <=> i \in Invoices /\ invoice[i].status # "DRAFT"
    /\ \A i : <<"VOID", i>> \in Posted <=> i \in Invoices /\ invoice[i].status = "VOID"
    /\ \A p, i : <<"ALLOCATION", p, i>> \in Posted <=> p \in Payments /\ i \in Invoices /\ alloc[p][i].amount > 0
    /\ \A p, k : <<"REFUND", p, k>> \in Posted <=> p \in Payments /\ k \in Keys /\ refund[p][k].amount > 0
    /\ \A p : <<"REVERSAL", p>> \in Posted <=> p \in Payments /\ Reversed(p)
    /\ \A n : <<"NOTE", n>> \in Posted <=> n \in Notes /\ note[n].status = "ISSUED"
    /\ \A n : <<"NOTE_VOID", n>> \in Posted <=> n \in Notes /\ noteVoid[n] # NoKey
BY DEF Posted

\* Every row of the tables that carries an instant is stamped, with an instant
\* that has come; nobody has begun after the clock.
HistoryInv ==
    /\ SerialInv
    /\ clock \in Nat /\ began \in [Writers -> Nat]
    /\ \A c \in Writers : began[c] <= clock
    /\ DOMAIN stamp = Posted
    /\ \A x \in Posted : stamp[x] \in Nat /\ stamp[x] <= clock
    /\ received \in [Payments -> Nat]

LEMMA HistoryBegins == HistoryInit => HistoryInv
<1> SUFFICES ASSUME HistoryInit  PROVE HistoryInv
  OBVIOUS
<1>1. SerialInv
  BY SerialInit DEF HistoryInit
<1>2. Posted = {}
  <2>1. /\ \A i \in Invoices : invoice[i].status = "DRAFT"
        /\ \A p \in Payments, i \in Invoices : alloc[p][i].amount = 0
        /\ \A p \in Payments, k \in Keys : refund[p][k].amount = 0
        /\ \A p \in Payments : ~Reversed(p)
        /\ \A n \in Notes : note[n].status = "NONE" /\ noteVoid[n] = NoKey
    BY DEF HistoryInit, LedgerInit, Reversed
  <2> QED  BY <2>1 DEF Posted
<1>3. DOMAIN stamp = {}
  BY DEF HistoryInit
<1>4. clock = 0 /\ began = [c \in Writers |-> 0] /\ received = [p \in Payments |-> 0]
  BY DEF HistoryInit, TimelineInit
<1> QED  BY <1>1, <1>2, <1>3, <1>4 DEF HistoryInv

\* What is posted stays posted.
LEMMA PostedGrows ==
    ASSUME LedgerTypeOK, LedgerTypeOK', PostedKept
    PROVE  Posted \subseteq Posted'
<1>1. \A i \in Invoices : /\ invoice[i].status # "DRAFT" => invoice'[i].status # "DRAFT"
                          /\ invoice[i].status = "VOID" => invoice'[i].status = "VOID"
  BY DEF PostedKept
<1>2. /\ \A p \in Payments, i \in Invoices : alloc[p][i].amount > 0 => alloc'[p][i].amount > 0
      /\ \A p \in Payments, k \in Keys : refund[p][k].amount > 0 => refund'[p][k].amount > 0
      /\ \A p \in Payments : reversal[p] # NoKey => reversal'[p] # NoKey
  BY DEF PostedKept, Reversed
<1>3. \A n \in Notes : /\ note[n].status = "ISSUED" => note'[n].status = "ISSUED"
                       /\ noteVoid[n] # NoKey => noteVoid'[n] # NoKey
  BY DEF PostedKept
<1> QED  BY <1>1, <1>2, <1>3 DEF Posted, Reversed

\* A writer that executes a command keeps every stamp, and gives its beginning
\* to the rows it posts.
LEMMA StampsKept ==
    ASSUME HistoryInv, NEW c \in Writers, Executes(c)
    PROVE  /\ SerialInv' /\ PostedKept /\ Posted \subseteq Posted'
           /\ DOMAIN stamp' = Posted'
           /\ \A x \in Posted : stamp'[x] = stamp[x]
           /\ \A x \in Posted' : x \notin Posted => stamp'[x] = began[c]
<1>1. PICK r \in Commands : Execute(r)
  BY DEF Executes
<1>2. r \in Requests /\ r \in Request
  BY <1>1, HistoryAssumption, LedgerAssumption
<1>3. SerialInv' /\ LedgerTypeOK'
  BY <1>1, <1>2, SerialStep DEF HistoryInv, SerialInv
<1>4. PostedKept
  BY <1>1, <1>2, SerialKept DEF HistoryInv, SerialInv
<1>5. Posted \subseteq Posted'
  BY <1>3, <1>4, PostedGrows DEF HistoryInv, SerialInv
<1>6. stamp' = [x \in Posted' |-> IF x \in DOMAIN stamp THEN stamp[x] ELSE began[c]]
  BY DEF Executes, StampRows
<1>7. DOMAIN stamp = Posted
  BY DEF HistoryInv
<1> QED  BY <1>3, <1>4, <1>5, <1>6, <1>7

LEMMA HistoryKeeps ==
    ASSUME HistoryInv, HistoryNext
    PROVE  HistoryInv'
<1>1. ASSUME NEW c \in Writers, Begins(c), UNCHANGED <<ledger, stamp, received>>
      PROVE  HistoryInv'
  <2>1. SerialInv' /\ Posted' = Posted
    <3>1. UNCHANGED ledger
      BY <1>1
    <3>2. SerialInv'
      BY <3>1, SerialStutters DEF HistoryInv
    <3>3. Posted' = Posted
      BY <3>1 DEF Posted, Reversed, ledger, collected, credits
    <3> QED  BY <3>2, <3>3
  <2>2. clock' = clock + 1 /\ began' = [began EXCEPT ![c] = clock + 1]
    BY <1>1 DEF Begins
  <2>3. clock' \in Nat /\ began' \in [Writers -> Nat] /\ \A d \in Writers : began'[d] <= clock'
    BY <2>2 DEF HistoryInv
  <2>4. stamp' = stamp /\ received' = received
    BY <1>1
  <2>5. \A x \in Posted : stamp[x] \in Nat /\ stamp[x] <= clock'
    BY <2>2 DEF HistoryInv
  <2>6. DOMAIN stamp' = Posted' /\ \A x \in Posted' : stamp'[x] \in Nat /\ stamp'[x] <= clock'
    BY <2>1, <2>4, <2>5 DEF HistoryInv
  <2> QED  BY <2>1, <2>3, <2>4, <2>6 DEF HistoryInv
<1>2. ASSUME NEW c \in Writers, Executes(c)
      PROVE  HistoryInv'
  <2>1. clock' = clock /\ began' = [began EXCEPT ![c] = 0]
    BY <1>2 DEF Executes, Ends
  <2>2. clock' \in Nat /\ began' \in [Writers -> Nat] /\ \A d \in Writers : began'[d] <= clock'
    BY <2>1 DEF HistoryInv
  <2>3. received' \in [Payments -> Nat]
    <3>1. PICK t \in ReceiptDates : received' = [p \in Payments |->
              IF payment'[p] = payment[p] THEN received[p] ELSE t]
      BY <1>2 DEF Executes
    <3>2. t \in Nat
      BY DEF ReceiptDates, HistoryInv
    <3> QED  BY <3>1, <3>2 DEF HistoryInv
  <2>4. /\ SerialInv' /\ DOMAIN stamp' = Posted'
        /\ \A x \in Posted : stamp'[x] = stamp[x]
        /\ \A x \in Posted' : x \notin Posted => stamp'[x] = began[c]
    BY <1>2, StampsKept
  <2>5. \A x \in Posted' : stamp'[x] \in Nat /\ stamp'[x] <= clock'
    <3>1. TAKE x \in Posted'
    <3>2. CASE x \in Posted
      BY <2>1, <2>4, <3>2 DEF HistoryInv
    <3>3. CASE x \notin Posted
      BY <2>1, <2>4, <3>3 DEF HistoryInv
    <3> QED  BY <3>2, <3>3
  <2> QED  BY <2>2, <2>3, <2>4, <2>5 DEF HistoryInv
<1>3. ASSUME NEW c \in Writers, Ends(c), UNCHANGED <<ledger, stamp, received>>
      PROVE  HistoryInv'
  <2>1. SerialInv' /\ Posted' = Posted
    <3>1. UNCHANGED ledger
      BY <1>3
    <3>2. SerialInv'
      BY <3>1, SerialStutters DEF HistoryInv
    <3>3. Posted' = Posted
      BY <3>1 DEF Posted, Reversed, ledger, collected, credits
    <3> QED  BY <3>2, <3>3
  <2>2. clock' = clock /\ began' = [began EXCEPT ![c] = 0]
    BY <1>3 DEF Ends
  <2>3. began' \in [Writers -> Nat] /\ \A d \in Writers : began'[d] <= clock
    BY <2>2 DEF HistoryInv
  <2> QED  BY <1>3, <2>1, <2>2, <2>3 DEF HistoryInv
<1> QED  BY <1>1, <1>2, <1>3 DEF HistoryNext

\* At this moment every posted row is seen.
LEMMA SeenNow == HistoryInv => \A x : Seen(x, clock) <=> x \in Posted
BY DEF HistoryInv, Seen

\* Once an instant is settled, nothing that is posted later is seen as of it.
LEMMA SeenStays ==
    ASSUME HistoryInv, HistoryNext, NEW t \in Nat, Settled(t), NEW x
    PROVE  /\ Seen(x, t)' <=> Seen(x, t)
           /\ Seen(x, t) => stamp'[x] = stamp[x]
<1>1. CASE UNCHANGED stamp
  BY <1>1 DEF Seen
<1>2. ASSUME NEW c \in Writers, Executes(c)
      PROVE  /\ Seen(x, t)' <=> Seen(x, t)
             /\ Seen(x, t) => stamp'[x] = stamp[x]
  <2>1. /\ Posted \subseteq Posted' /\ DOMAIN stamp' = Posted' /\ DOMAIN stamp = Posted
        /\ \A y \in Posted : stamp'[y] = stamp[y]
        /\ \A y \in Posted' : y \notin Posted => stamp'[y] = began[c]
    BY <1>2, StampsKept DEF HistoryInv
  <2>2. began[c] \in Nat /\ ~(began[c] <= t)
    BY <1>2 DEF Executes, Ends, Settled, HistoryInv
  <2> QED  BY <2>1, <2>2 DEF Seen
<1> QED  BY <1>1, <1>2 DEF HistoryNext

\* Nor is any row that is seen as of it changed.
LEMMA RowsStay ==
    ASSUME HistoryInv, HistoryNext, NEW t \in Nat
    PROVE  /\ \A p, i : Seen(<<"ALLOCATION", p, i>>, t) => alloc'[p][i] = alloc[p][i]
           /\ \A p, k : Seen(<<"REFUND", p, k>>, t) => refund'[p][k] = refund[p][k]
           /\ \A n : Seen(<<"NOTE", n>>, t) => note'[n] = note[n]
<1>1. CASE UNCHANGED ledger
  BY <1>1 DEF ledger, collected, credits
<1>2. ASSUME NEW c \in Writers, Executes(c)
      PROVE  PostedKept
  BY <1>2, StampsKept
<1>3. CASE PostedKept
  <2>1. \A x : Seen(x, t) => x \in Posted
    BY DEF Seen, HistoryInv
  <2>2. \A p, i : Seen(<<"ALLOCATION", p, i>>, t) => p \in Payments /\ i \in Invoices /\ alloc[p][i].amount > 0
    BY <2>1, PostedRows
  <2>3. \A p, k : Seen(<<"REFUND", p, k>>, t) => p \in Payments /\ k \in Keys /\ refund[p][k].amount > 0
    BY <2>1, PostedRows
  <2>4. \A n : Seen(<<"NOTE", n>>, t) => n \in Notes /\ note[n].status = "ISSUED"
    BY <2>1, PostedRows
  <2> QED  BY <1>3, <2>2, <2>3, <2>4 DEF PostedKept
<1> QED  BY <1>1, <1>2, <1>3 DEF HistoryNext

LEMMA StatusStays ==
    ASSUME HistoryInv, HistoryNext, NEW t \in Nat, Settled(t), NEW i
    PROVE  StatusAt(i, t)' = StatusAt(i, t)
<1>1. \A x : /\ Seen(x, t)' <=> Seen(x, t)
             /\ Seen(x, t) => stamp'[x] = stamp[x]
  BY SeenStays
<1> DEFINE seen == {s \in {"ISSUED", "VOID"} : Seen(<<s, i>>, t)}
           latest == {s \in seen : \A u \in seen : stamp[<<u, i>>] <= stamp[<<s, i>>]}
<1>2. {s \in {"ISSUED", "VOID"} : Seen(<<s, i>>, t)'} = seen
  BY <1>1
<1>3. {s \in seen : \A u \in seen : stamp'[<<u, i>>] <= stamp'[<<s, i>>]} = latest
  BY <1>1
<1>4. StatusAt(i, t) = IF seen = {} THEN "DRAFT" ELSE CHOOSE s \in latest : TRUE
  BY Zenon DEF StatusAt
<1> DEFINE after == {s \in {"ISSUED", "VOID"} : Seen(<<s, i>>, t)'}
           last == {s \in after : \A u \in after : stamp'[<<u, i>>] <= stamp'[<<s, i>>]}
<1>5. StatusAt(i, t)' = IF after = {} THEN "DRAFT" ELSE CHOOSE s \in last : TRUE
  BY Zenon DEF StatusAt
<1>6. after = seen /\ last = latest
  BY <1>2, <1>3
<1> HIDE DEF seen, latest, after, last
<1> QED  BY <1>4, <1>5, <1>6

LEMMA CreditStays ==
    ASSUME HistoryInv, HistoryNext, NEW t \in Nat, Settled(t), NEW i
    PROVE  /\ NotesAt(t)' = NotesAt(t)
           /\ CreditAt(i, t)' = CreditAt(i, t)
<1>1. \A x : Seen(x, t)' <=> Seen(x, t)
  BY SeenStays
<1>2. NotesAt(t)' = NotesAt(t)
  BY <1>1 DEF NotesAt
<1>3. \A n \in NotesAt(t) : note'[n] = note[n]
  BY RowsStay DEF NotesAt
<1> DEFINE S == {n \in NotesAt(t) : note[n].invoice = i}
<1>4. {n \in NotesAt(t) : note'[n].invoice = i} = S
  BY <1>3
<1>5. [n \in S |-> note'[n].amount] = [n \in S |-> note[n].amount]
  BY <1>3
<1>6. CreditAt(i, t) = Sum([n \in S |-> note[n].amount], S)
  BY DEF CreditAt, AmountOf
<1>7. CreditAt(i, t)' = Sum([n \in S |-> note'[n].amount], S)
  BY <1>2, <1>4 DEF CreditAt, AmountOf
<1> QED  BY <1>2, <1>5, <1>6, <1>7

LEMMA RefundsStay ==
    ASSUME HistoryInv, HistoryNext, NEW t \in Nat, Settled(t), NEW i
    PROVE  RefundsAt(i, t)' = RefundsAt(i, t)
<1>1. \A x : Seen(x, t)' <=> Seen(x, t)
  BY SeenStays
<1> DEFINE S == {x \in Payments \X Keys : Seen(<<"REFUND", x[1], x[2]>>, t) /\ ~ReversedAt(x[1], t)}
<1>2. {x \in Payments \X Keys : Seen(<<"REFUND", x[1], x[2]>>, t)' /\ ~ReversedAt(x[1], t)'} = S
  BY <1>1 DEF ReversedAt
<1>3. [x \in S |-> refund'[x[1]][x[2]].parts[i]] = [x \in S |-> refund[x[1]][x[2]].parts[i]]
  BY RowsStay
<1> QED  BY <1>2, <1>3 DEF RefundsAt

LEMMA PaidStays ==
    ASSUME HistoryInv, HistoryNext, NEW t \in Nat, Settled(t), NEW i
    PROVE  PaidAt(i, t)' = PaidAt(i, t)
<1>1. \A x : Seen(x, t)' <=> Seen(x, t)
  BY SeenStays
<1> DEFINE S == {p \in Payments : Seen(<<"ALLOCATION", p, i>>, t) /\ ~ReversedAt(p, t)}
<1>2. {p \in Payments : Seen(<<"ALLOCATION", p, i>>, t)' /\ ~ReversedAt(p, t)'} = S
  BY <1>1 DEF ReversedAt
<1>3. [p \in S |-> alloc'[p][i].amount] = [p \in S |-> alloc[p][i].amount]
  BY RowsStay
<1>4. RefundsAt(i, t)' = RefundsAt(i, t)
  BY RefundsStay
<1> QED  BY <1>2, <1>3, <1>4 DEF PaidAt

\* What was to be paid, and by whom, stands with it.
LEMMA OwedStays ==
    ASSUME HistoryInv, HistoryNext, NEW t \in Nat, Settled(t)
    PROVE  Owed(Receivables(t), t)' = Owed(Receivables(t), t)
<1>1. \A i : OutstandingAt(i, t)' = OutstandingAt(i, t)
  BY PaidStays, CreditStays DEF OutstandingAt
<1>2. \A i : StatusAt(i, t)' = StatusAt(i, t)
  BY StatusStays
<1> DEFINE S == {i \in Invoices : StatusAt(i, t) = "ISSUED" /\ OutstandingAt(i, t) > 0}
           R == {i \in Invoices : StatusAt(i, t)' = "ISSUED" /\ OutstandingAt(i, t)' > 0}
<1>3. R = S
  BY <1>1, <1>2
<1>4. [i \in S |-> OutstandingAt(i, t)'] = [i \in S |-> OutstandingAt(i, t)]
  BY <1>1
<1>5. Owed(Receivables(t), t) = Sum([i \in S |-> OutstandingAt(i, t)], S)
  BY DEF Owed, Receivables
<1>6. Owed(Receivables(t), t)' = Sum([i \in R |-> OutstandingAt(i, t)'], R)
  BY DEF Owed, Receivables
<1> QED  BY <1>3, <1>4, <1>5, <1>6

\* An instant before a settled one is settled.
LEMMA SettledBefore ==
    ASSUME HistoryInv, NEW t \in Nat, Settled(t), NEW s \in Nat, s <= t
    PROVE  Settled(s)
BY DEF HistoryInv, Settled

\* A row falls into a period that is settled or never will.
LEMMA WithinStays ==
    ASSUME HistoryInv, HistoryNext, NEW from \in Nat, NEW to \in Nat, Settled(to), NEW x
    PROVE  Within(x, from, to)' <=> Within(x, from, to)
<1>1. Seen(x, to)' <=> Seen(x, to)
  BY SeenStays
<1>2. Seen(x, to) => stamp'[x] = stamp[x]
  BY SeenStays
<1>3. Within(x, from, to) <=> Seen(x, to) /\ from <= stamp[x]
  <2>1. x \in DOMAIN stamp => stamp[x] \in Nat
    BY DEF HistoryInv
  <2>2. x \in DOMAIN stamp => (stamp[x] < to + 1 <=> stamp[x] <= to)
    BY <2>1
  <2> QED  BY <2>2 DEF Within, Seen, Covers, AddDay
<1>4. Within(x, from, to)' <=> Seen(x, to)' /\ from <= stamp'[x]
  <2>1. x \in DOMAIN stamp' => stamp'[x] \in Nat
    BY HistoryKeeps DEF HistoryInv
  <2>2. x \in DOMAIN stamp' => (stamp'[x] < to + 1 <=> stamp'[x] <= to)
    BY <2>1
  <2> QED  BY <2>2 DEF Within, Seen, Covers, AddDay
<1> QED  BY <1>1, <1>2, <1>3, <1>4

LEMMA BilledStays ==
    ASSUME HistoryInv, HistoryNext, NEW from \in Nat, NEW to \in Nat, NEW end \in Nat,
           Settled(to), Settled(end)
    PROVE  /\ GrossBilled(from, to, end)' = GrossBilled(from, to, end)
           /\ CreditNotes(from, to, end)' = CreditNotes(from, to, end)
           /\ RefundsPaid(from, to, end)' = RefundsPaid(from, to, end)
<1>1. \A x : Within(x, from, to)' <=> Within(x, from, to)
  BY WithinStays
<1>2. \A x : Seen(x, end)' <=> Seen(x, end)
  BY SeenStays
<1>3. \A i : StatusAt(i, end)' = StatusAt(i, end)
  BY StatusStays
<1>4. GrossBilled(from, to, end)' = GrossBilled(from, to, end)
  <2>1. Billed(from, to, end)' = Billed(from, to, end)
    BY <1>1, <1>3 DEF Billed
  <2> QED  BY <2>1 DEF GrossBilled
<1>5. CreditNotes(from, to, end)' = CreditNotes(from, to, end)
  <2>1. NotesAt(end)' = NotesAt(end)
    BY <1>2 DEF NotesAt
  <2>2. Noted(from, to, end)' = Noted(from, to, end)
    BY <1>1, <2>1 DEF Noted
  <2> DEFINE S == Noted(from, to, end)
  <2>3. \A n \in S : note'[n] = note[n]
    BY RowsStay DEF Noted, NotesAt
  <2>4. [n \in S |-> note'[n].amount] = [n \in S |-> note[n].amount]
    BY <2>3
  <2>5. CreditNotes(from, to, end) = Sum([n \in S |-> note[n].amount], S)
    BY DEF CreditNotes, AmountOf
  <2>6. CreditNotes(from, to, end)' = Sum([n \in S |-> note'[n].amount], S)
    BY <2>2 DEF CreditNotes, AmountOf
  <2> QED  BY <2>4, <2>5, <2>6
<1>6. RefundsPaid(from, to, end)' = RefundsPaid(from, to, end)
  <2> DEFINE S == RefundedIn(from, to, end)
  <2>1. RefundedIn(from, to, end)' = S
    BY <1>1, <1>2 DEF RefundedIn, ReversedAt
  <2>2. \A x \in S : refund'[x[1]][x[2]] = refund[x[1]][x[2]]
    <3>1. TAKE x \in S
    <3>2. Seen(<<"REFUND", x[1], x[2]>>, clock)
      BY SeenNow DEF RefundedIn, Within, HistoryInv
    <3> QED  BY <3>2, RowsStay DEF HistoryInv
  <2>3. [x \in S |-> refund'[x[1]][x[2]].amount] = [x \in S |-> refund[x[1]][x[2]].amount]
    BY <2>2
  <2>4. RefundsPaid(from, to, end) = Sum([x \in S |-> refund[x[1]][x[2]].amount], S)
    BY DEF RefundsPaid
  <2>5. RefundsPaid(from, to, end)' = Sum([x \in S |-> refund'[x[1]][x[2]].amount], S)
    BY <2>1 DEF RefundsPaid
  <2> QED  BY <2>3, <2>4, <2>5
<1> QED  BY <1>4, <1>5, <1>6

\* A line of the payments report.
LEMMA LineStays ==
    ASSUME HistoryInv, HistoryNext, NEW t \in Nat, Settled(t), NEW p
    PROVE  PaymentLine(p, t)' = PaymentLine(p, t)
<1>1. \A x : Seen(x, t)' <=> Seen(x, t)
  BY SeenStays
<1>2. AllocatedAt(p, t)' = AllocatedAt(p, t)
  <2> DEFINE S == {i \in Invoices : Seen(<<"ALLOCATION", p, i>>, t)}
  <2>1. {i \in Invoices : Seen(<<"ALLOCATION", p, i>>, t)'} = S
    BY <1>1
  <2>2. [i \in S |-> alloc'[p][i].amount] = [i \in S |-> alloc[p][i].amount]
    BY RowsStay
  <2>3. AllocatedAt(p, t) = Sum([i \in S |-> alloc[p][i].amount], S)
    BY DEF AllocatedAt, AmountOf
  <2>4. AllocatedAt(p, t)' = Sum([i \in S |-> alloc'[p][i].amount], S)
    BY <2>1 DEF AllocatedAt, AmountOf
  <2> QED  BY <2>2, <2>3, <2>4
<1> DEFINE K == PaidBackAt(p, t)
<1>3. PaidBackAt(p, t)' = K
  BY <1>1 DEF PaidBackAt
<1>4. \A k \in K : refund'[p][k] = refund[p][k]
  BY RowsStay DEF PaidBackAt
<1>5. /\ [k \in K |-> Sum(refund'[p][k].parts, Invoices)] = [k \in K |-> Sum(refund[p][k].parts, Invoices)]
      /\ [k \in K |-> refund'[p][k].amount] = [k \in K |-> refund[p][k].amount]
  BY <1>4
<1>6. ReversedAt(p, t)' = ReversedAt(p, t)
  <2>1. ReversedAt(p, t)' = Seen(<<"REVERSAL", p>>, t)' /\ ReversedAt(p, t) = Seen(<<"REVERSAL", p>>, t)
    BY DEF ReversedAt
  <2>2. Seen(<<"REVERSAL", p>>, t)' = Seen(<<"REVERSAL", p>>, t)
    BY <1>1 DEF Seen
  <2> QED  BY <2>1, <2>2
<1>7. PaymentLine(p, t) =
        [allocated |-> AllocatedAt(p, t) - Sum([k \in K |-> Sum(refund[p][k].parts, Invoices)], K),
         refunded  |-> Sum([k \in K |-> refund[p][k].amount], K),
         reversed  |-> ReversedAt(p, t)]
  BY Zenon DEF PaymentLine, AmountOf
<1>8. PaymentLine(p, t)' =
        [allocated |-> AllocatedAt(p, t)' - Sum([k \in K |-> Sum(refund'[p][k].parts, Invoices)], K),
         refunded  |-> Sum([k \in K |-> refund'[p][k].amount], K),
         reversed  |-> ReversedAt(p, t)']
  <2> HIDE DEF K
  <2> QED  BY <1>3, Zenon DEF PaymentLine, AmountOf
<1> QED
  <2> HIDE DEF K
  <2> QED  BY <1>2, <1>5, <1>6, <1>7, <1>8, Zenon

LEMMA EffectiveStays ==
    ASSUME HistoryInv, HistoryNext, NEW from \in Nat, NEW to \in Nat, Settled(to), payment' = payment
    PROVE  Effective(from, to)' = Effective(from, to)
<1>1. received' = received
  <2>1. ASSUME NEW c \in Writers, Executes(c)  PROVE received' = received
    BY <2>1 DEF Executes, HistoryInv
  <2> QED  BY <2>1 DEF HistoryNext
<1>2. \A p : PaymentLine(p, to)' = PaymentLine(p, to)
  BY LineStays
<1> DEFINE S == {p \in Payments : received[p] > 0 /\ Covers(from, to, received[p])}
<1>3. {p \in Payments : received'[p] > 0 /\ Covers(from, to, received'[p])} = S
  BY <1>1
<1>4. [p \in S |-> IF PaymentLine(p, to)'.reversed THEN 0 ELSE payment'[p].amount]
        = [p \in S |-> IF PaymentLine(p, to).reversed THEN 0 ELSE payment[p].amount]
  BY <1>2
<1>5. Effective(from, to) = Sum([p \in S |-> IF PaymentLine(p, to).reversed THEN 0 ELSE payment[p].amount], S)
  BY DEF Effective
<1>6. Effective(from, to)' = Sum([p \in S |-> IF PaymentLine(p, to)'.reversed THEN 0 ELSE payment'[p].amount], S)
  BY <1>3 DEF Effective
<1> QED  BY <1>4, <1>5, <1>6

LEMMA ReportStays ==
    ASSUME HistoryInv, HistoryNext, NEW to \in Nat, Settled(to)
    PROVE  /\ ByMonth(1, to)' = ByMonth(1, to)
           /\ \A from \in 1 .. to : Summary(from, to)' = Summary(from, to)
<1>1. ByMonth(1, to)' = ByMonth(1, to)
  <2>1. \A m \in 1 .. to : /\ GrossBilled(m, m, to)' = GrossBilled(m, m, to)
                           /\ CreditNotes(m, m, to)' = CreditNotes(m, m, to)
                           /\ RefundsPaid(m, m, to)' = RefundsPaid(m, m, to)
    <3>1. TAKE m \in 1 .. to
    <3>2. m \in Nat /\ Settled(m)
      BY SettledBefore
    <3> QED  BY <3>2, BilledStays
  <2>2. ByMonth(1, to)' = [m \in 1 .. to |->
            <<GrossBilled(m, m, to)', CreditNotes(m, m, to)', RefundsPaid(m, m, to)'>>]
    BY DEF ByMonth
  <2>3. ByMonth(1, to) = [m \in 1 .. to |->
            <<GrossBilled(m, m, to), CreditNotes(m, m, to), RefundsPaid(m, m, to)>>]
    BY DEF ByMonth
  <2> QED  BY <2>1, <2>2, <2>3
<1>2. ASSUME NEW from \in 1 .. to  PROVE Summary(from, to)' = Summary(from, to)
  <2>1. from \in Nat
    OBVIOUS
  <2>2. /\ GrossBilled(from, to, to)' = GrossBilled(from, to, to)
        /\ CreditNotes(from, to, to)' = CreditNotes(from, to, to)
        /\ RefundsPaid(from, to, to)' = RefundsPaid(from, to, to)
    BY <2>1, BilledStays
  <2>3. Owed(Receivables(to), to)' = Owed(Receivables(to), to)
    BY OwedStays
  <2>4. Summary(from, to)' = <<GrossBilled(from, to, to)', CreditNotes(from, to, to)',
                               RefundsPaid(from, to, to)', Owed(Receivables(to), to)'>>
    BY DEF Summary
  <2> QED  BY <2>2, <2>3, <2>4 DEF Summary
<1> QED  BY <1>1, <1>2

LEMMA HistoryStutters == HistoryInv /\ UNCHANGED historyVars => HistoryInv'
<1> SUFFICES ASSUME HistoryInv, UNCHANGED historyVars  PROVE HistoryInv'
  OBVIOUS
<1>1. UNCHANGED ledger /\ clock' = clock /\ began' = began /\ stamp' = stamp /\ received' = received
  BY DEF historyVars, history, timeline
<1>2. SerialInv'
  BY <1>1, SerialStutters DEF HistoryInv
<1>3. Posted' = Posted
  BY <1>1 DEF Posted, Reversed, ledger, collected, credits
<1> QED  BY <1>1, <1>2, <1>3 DEF HistoryInv

\* The part "history" runs from the empty ledger; in the others no time passes.
HistoryPart ==
    /\ part = "history" => HistoryInv
    /\ part # "history" => clock = 0

LEMMA HistoryPartHolds ==
    /\ MCInit => HistoryPart
    /\ HistoryPart /\ [MCNext]_<<vars, history, drafting, part>> => HistoryPart'
<1>1. MCInit => HistoryPart
  BY HistoryBegins DEF MCInit, HistoryInit, TimelineInit, HistoryPart
<1>2. SUFFICES ASSUME HistoryPart, [MCNext]_<<vars, history, drafting, part>>
               PROVE  HistoryPart'
  BY <1>1
<1>3. CASE UNCHANGED <<vars, history, drafting, part>>
  <2>1. UNCHANGED historyVars /\ part' = part /\ clock' = clock
    BY <1>3 DEF vars, historyVars, history, timeline
  <2> QED  BY <1>2, <2>1, HistoryStutters DEF HistoryPart
<1>4. CASE part # "history" /\ UNCHANGED <<history, part>>
  BY <1>2, <1>4 DEF HistoryPart, history, timeline
<1>5. CASE part = "history" /\ HistoryNext /\ UNCHANGED part
  BY <1>2, <1>5, HistoryKeeps DEF HistoryPart
<1> QED  BY <1>2, <1>3, <1>4, <1>5 DEF MCNext

LEMMA StepsStand ==
    ASSUME HistoryPart, [MCNext]_<<vars, history, drafting, part>>
    PROVE  /\ [\A t \in Instants : Settled(t) =>
                 \A i \in Invoices : /\ StatusAt(i, t)' = StatusAt(i, t)
                                     /\ PaidAt(i, t)' = PaidAt(i, t)
                                     /\ CreditAt(i, t)' = CreditAt(i, t)]_historyVars
           /\ [\A to \in {t \in Instants : Settled(t)} :
                 /\ ByMonth(1, to)' = ByMonth(1, to)
                 /\ \A p \in Payments : received[p] > 0 => PaymentLine(p, to)' = PaymentLine(p, to)
                 /\ \A from \in 1 .. to :
                      /\ Summary(from, to)' = Summary(from, to)
                      /\ payment' = payment => Effective(from, to)' = Effective(from, to)]_historyVars
<1>1. CASE UNCHANGED historyVars
  BY <1>1
<1>2. CASE part # "history"
  <2>1. \A t \in Instants : ~Settled(t)
    BY <1>2, TimelineAssumption DEF HistoryPart, Instants, Settled
  <2> QED  BY <2>1
<1>3. CASE part = "history" /\ HistoryNext
  <2>1. HistoryInv /\ \A t \in Instants : t \in Nat
    BY <1>3, TimelineAssumption DEF HistoryPart, Instants
  <2>2. ASSUME NEW t \in Instants, Settled(t), NEW i \in Invoices
        PROVE  StatusAt(i, t)' = StatusAt(i, t) /\ PaidAt(i, t)' = PaidAt(i, t) /\ CreditAt(i, t)' = CreditAt(i, t)
    BY <1>3, <2>1, <2>2, StatusStays, PaidStays, CreditStays
  <2>3. ASSUME NEW to \in Instants, Settled(to)
        PROVE  /\ ByMonth(1, to)' = ByMonth(1, to)
               /\ \A p \in Payments : received[p] > 0 => PaymentLine(p, to)' = PaymentLine(p, to)
               /\ \A from \in 1 .. to :
                    /\ Summary(from, to)' = Summary(from, to)
                    /\ payment' = payment => Effective(from, to)' = Effective(from, to)
    <3>1. ByMonth(1, to)' = ByMonth(1, to) /\ \A from \in 1 .. to : Summary(from, to)' = Summary(from, to)
      BY <1>3, <2>1, <2>3, ReportStays
    <3>2. \A p \in Payments : PaymentLine(p, to)' = PaymentLine(p, to)
      BY <1>3, <2>1, <2>3, LineStays
    <3>3. ASSUME NEW from \in 1 .. to, payment' = payment  PROVE Effective(from, to)' = Effective(from, to)
      <4>1. from \in Nat /\ to \in Nat
        BY <2>1
      <4> QED  BY <1>3, <2>1, <2>3, <3>3, <4>1, EffectiveStays
    <3> QED  BY <3>1, <3>2, <3>3
  <2> QED  BY <2>2, <2>3
<1> QED  BY <1>1, <1>2, <1>3 DEF MCNext, vars, historyVars

\* What was told of a past instant or of a period that is over stands: no later
\* command rewrites a status, an amount, a month, a summary or a payment's line
\* of the reports as of a settled instant.
THEOREM PastIsSettled == MCSpec => HistoryStands
<1>1. MCInit => HistoryPart
  BY HistoryPartHolds
<1>2. HistoryPart /\ [MCNext]_<<vars, history, drafting, part>> => HistoryPart'
  BY HistoryPartHolds
<1> QED  BY <1>1, <1>2, StepsStand, PTL DEF MCSpec, HistoryStands, PastStands, ReportsStand

-----------------------------------------------------------------------------
(* The present, told twice, and the reports of one period.                   *)

LEMMA CreditIsCurrent ==
    ASSUME HistoryInv, NEW i \in Invoices
    PROVE  CreditAt(i, clock) = Credit(i)
<1>1. \A n : /\ Seen(<<"NOTE", n>>, clock) <=> n \in Notes /\ note[n].status = "ISSUED"
             /\ Seen(<<"NOTE_VOID", n>>, clock) <=> n \in Notes /\ noteVoid[n] # NoKey
  BY SeenNow, PostedRows
<1> DEFINE S == {n \in Notes : InForce(n) /\ note[n].invoice = i}
<1>2. {n \in NotesAt(clock) : note[n].invoice = i} = S
  BY <1>1 DEF NotesAt, InForce
<1>3. CreditAt(i, clock) = Sum([n \in S |-> note[n].amount], S)
  BY <1>2 DEF CreditAt, AmountOf
<1> QED  BY <1>3 DEF Credit

\* What was given back of one payment's allocation, refund by refund.
LEMMA TakenBackByKey ==
    ASSUME LedgerTypeOK, NEW p \in Payments, NEW i \in Invoices,
           NEW S, \A x : x \in S <=> x \in Payments \X Keys /\ x[1] = p,
           NEW f, \A x \in S : f[x] = refund[x[1]][x[2]].parts[i]
    PROVE  Sum(f, S) = TakenBack(p, i)
<1> DEFINE h == [k \in Keys |-> <<p, k>>]
           g == [k \in Keys |-> refund[p][k].parts[i]]
<1>1. S = Images(h, Keys)
  BY DEF Images
<1>2. \A k \in Keys : g[k] \in Int /\ f[h[k]] = g[k]
  <2>1. TAKE k \in Keys
  <2>2. refund[p][k].parts \in [Invoices -> Nat]
    BY DEF LedgerTypeOK, RefundRow
  <2>3. <<p, k>> \in S
    OBVIOUS
  <2>4. f[<<p, k>>] = refund[p][k].parts[i]
    BY <2>3
  <2> QED  BY <2>2, <2>4
<1>3. \A x, y \in Keys : h[x] = h[y] => x = y
  OBVIOUS
<1>4. Sum(f, S) = Sum(g, Keys)
  <2> HIDE DEF h, g
  <2> QED  BY <1>1, <1>2, <1>3, LedgerAssumption, SumNames
<1> QED  BY <1>4 DEF TakenBack

LEMMA RefundsAreCurrent ==
    ASSUME HistoryInv, NEW i \in Invoices,
           NEW S, S = {p \in Payments : ~Reversed(p)},
           NEW g, \A p \in S : g[p] = TakenBack(p, i)
    PROVE  RefundsAt(i, clock) = Sum(g, S)
<1>0. LedgerTypeOK /\ RefundsWithinPayment
  BY DEF HistoryInv, SerialInv
<1> DEFINE All == {x \in Payments \X Keys : ~Reversed(x[1])}
           seen == {x \in Payments \X Keys : Seen(<<"REFUND", x[1], x[2]>>, clock) /\ ~ReversedAt(x[1], clock)}
           f == [x \in All |-> refund[x[1]][x[2]].parts[i]]
           fs == [x \in seen |-> refund[x[1]][x[2]].parts[i]]
           place == [x \in All |-> x[1]]
<1>1. seen = {x \in All : refund[x[1]][x[2]].amount > 0}
  <2>1. \A p : Seen(<<"REVERSAL", p>>, clock) <=> p \in Payments /\ Reversed(p)
    BY SeenNow, PostedRows
  <2>2. \A p, k : Seen(<<"REFUND", p, k>>, clock) <=> p \in Payments /\ k \in Keys /\ refund[p][k].amount > 0
    BY SeenNow, PostedRows
  <2> QED  BY <2>1, <2>2 DEF ReversedAt
<1>2. \A p \in Payments, k \in Keys : /\ refund[p][k].parts[i] \in Nat /\ refund[p][k].amount \in Nat
                                      /\ refund[p][k].amount = 0 => refund[p][k].parts[i] = 0
  <2>1. TAKE p \in Payments, k \in Keys
  <2>2. refund[p][k].amount \in Nat /\ refund[p][k].parts \in [Invoices -> Nat]
    BY <1>0 DEF LedgerTypeOK, RefundRow
  <2>3. \A j \in Invoices : refund[p][k].parts[j] \in Nat
    BY <2>2
  <2>4. Sum(refund[p][k].parts, Invoices) \in Nat /\ refund[p][k].parts[i] <= Sum(refund[p][k].parts, Invoices)
    BY <2>3, LedgerAssumption, SumNonNegative
  <2>5. Sum(refund[p][k].parts, Invoices) <= refund[p][k].amount
    BY <1>0 DEF RefundsWithinPayment
  <2> QED  BY <2>2, <2>3, <2>4, <2>5
<1>3. IsFiniteSet(All) /\ IsFiniteSet(S)
  <2>1. IsFiniteSet(Payments \X Keys)
    BY LedgerAssumption, FS_Product
  <2> QED  BY <2>1, LedgerAssumption, FS_Subset
<1>4. Sum(f, All) = Sum(fs, seen)
  <2>1. /\ seen \subseteq All
        /\ \A x \in All : f[x] \in Int
        /\ \A x \in seen : fs[x] = f[x]
        /\ \A x \in All \ seen : f[x] = 0
    BY <1>1, <1>2
  <2> HIDE DEF All, seen, f, fs
  <2> QED  BY <1>3, <2>1, SumIgnore
<1>5. Sum(g, S) = Sum(f, All)
  <2>1. Placed(f, All, place, S)
    BY <1>2 DEF Placed
  <2>2. ASSUME NEW p \in S  PROVE g[p] = Sum(f, PartOf(All, place, p))
    <3>1. \A x : x \in PartOf(All, place, p) <=> x \in Payments \X Keys /\ x[1] = p
      BY DEF PartOf
    <3>2. \A x \in PartOf(All, place, p) : f[x] = refund[x[1]][x[2]].parts[i]
      BY DEF PartOf
    <3>3. Sum(f, PartOf(All, place, p)) = TakenBack(p, i)
      <4> HIDE DEF All, place, f
      <4> QED  BY <1>0, <3>1, <3>2, TakenBackByKey
    <3> QED  BY <3>3
  <2>3. SumsParts(g, f, All, place, S)
    <3> HIDE DEF All, place, f
    <3> QED  BY <2>2 DEF SumsParts
  <2> HIDE DEF All, f, place
  <2> QED  BY <1>3, <2>1, <2>3, SumParts
<1>6. RefundsAt(i, clock) = Sum(fs, seen)
  BY DEF RefundsAt
<1> QED  BY <1>4, <1>5, <1>6

LEMMA PaidIsCurrent ==
    ASSUME HistoryInv, NEW i \in Invoices
    PROVE  PaidAt(i, clock) = Paid(i)
<1>0. LedgerTypeOK /\ RefundsWithinPayment
  BY DEF HistoryInv, SerialInv
<1> DEFINE S == {p \in Payments : ~Reversed(p)}
           paying == {p \in Payments : Seen(<<"ALLOCATION", p, i>>, clock) /\ ~ReversedAt(p, clock)}
           a == [p \in S |-> alloc[p][i].amount]
           ap == [p \in paying |-> alloc[p][i].amount]
           g == [p \in S |-> TakenBack(p, i)]
           f == [p \in S |-> alloc[p][i].amount - TakenBack(p, i)]
<1>1. paying = {p \in S : alloc[p][i].amount > 0}
  <2>1. \A p : Seen(<<"REVERSAL", p>>, clock) <=> p \in Payments /\ Reversed(p)
    BY SeenNow, PostedRows
  <2>2. \A p : Seen(<<"ALLOCATION", p, i>>, clock) <=> p \in Payments /\ alloc[p][i].amount > 0
    BY SeenNow, PostedRows
  <2> QED  BY <2>1, <2>2 DEF ReversedAt
<1>2. \A p \in Payments : /\ alloc[p][i].amount \in Nat /\ TakenBack(p, i) \in Nat
                          /\ TakenBack(p, i) <= alloc[p][i].amount
  BY <1>0, PaymentSums DEF LedgerTypeOK, AllocationRow, RefundsWithinPayment
<1>3. IsFiniteSet(S)
  BY LedgerAssumption, FS_Subset
<1>4. Sum(a, S) = Sum(ap, paying)
  <2>1. /\ paying \subseteq S
        /\ \A p \in S : a[p] \in Int
        /\ \A p \in paying : ap[p] = a[p]
        /\ \A p \in S \ paying : a[p] = 0
    BY <1>1, <1>2
  <2> HIDE DEF S, paying, a, ap
  <2> QED  BY <1>3, <2>1, SumIgnore
<1>5. Sum(a, S) = Sum(f, S) + Sum(g, S) /\ Sum(f, S) \in Int /\ Sum(g, S) \in Int
  <2>1. \A p \in S : f[p] \in Int /\ g[p] \in Int /\ a[p] = f[p] + g[p]
    BY <1>2
  <2> HIDE DEF S, a, f, g
  <2> QED  BY <1>3, <2>1, SumPlus, SumInt
<1>6. RefundsAt(i, clock) = Sum(g, S)
  <2>1. \A p \in S : g[p] = TakenBack(p, i)
    OBVIOUS
  <2> HIDE DEF g
  <2> QED  BY <2>1, RefundsAreCurrent
<1>7. Paid(i) = Sum(f, S)
  BY DEF Paid
<1>8. PaidAt(i, clock) = IF paying = {} THEN 0 ELSE Sum(ap, paying) - RefundsAt(i, clock)
  BY DEF PaidAt
<1>9. paying = {} => Sum(f, S) = 0
  <2>1. SUFFICES ASSUME paying = {}  PROVE Sum(f, S) = 0
    OBVIOUS
  <2>2. \A p \in S : ~(alloc[p][i].amount > 0)
    BY <1>1, <2>1
  <2>3. \A p \in S : alloc[p][i].amount = 0 /\ TakenBack(p, i) = 0
    BY <1>2, <2>2
  <2>4. \A p \in S : f[p] = 0
    BY <2>3
  <2> HIDE DEF S, f
  <2> QED  BY <1>3, <2>4, SumZero
<1> HIDE DEF S, paying, a, ap, g, f
<1>10. CASE paying = {}
  BY <1>7, <1>8, <1>9, <1>10
<1>11. CASE paying # {}
  <2>1. PaidAt(i, clock) = Sum(a, S) - Sum(g, S)
    BY <1>4, <1>6, <1>8, <1>11
  <2> QED  BY <1>5, <1>7, <2>1
<1> QED  BY <1>10, <1>11

\* A row of the period belongs to the month of its stamp.
LEMMA ByStamp ==
    ASSUME HistoryInv, NEW from \in Nat, NEW x, Within(x, from, clock)
    PROVE  /\ stamp[x] \in from .. clock
           /\ \A m \in from .. clock : Within(x, m, m) <=> stamp[x] = m
<1>1. x \in DOMAIN stamp /\ stamp[x] \in Nat /\ from <= stamp[x] /\ stamp[x] <= clock /\ clock \in Nat
  BY DEF HistoryInv, Within, Covers, AddDay
<1>2. ASSUME NEW m \in from .. clock  PROVE Within(x, m, m) <=> stamp[x] = m
  <2>1. m \in Nat
    BY <1>1
  <2> QED  BY <1>1, <2>1 DEF Within, Covers, AddDay
<1> QED  BY <1>1, <1>2

LEMMA InMonth ==
    ASSUME HistoryInv, NEW from \in Nat, NEW m \in from .. clock, NEW x, Within(x, m, m)
    PROVE  Within(x, from, clock)
<1>1. x \in DOMAIN stamp /\ stamp[x] \in Nat /\ stamp[x] <= clock /\ clock \in Nat
  BY DEF HistoryInv, Within
<1>2. m <= stamp[x] /\ m \in Nat /\ from <= m
  BY <1>1 DEF Within, Covers
<1> QED  BY <1>1, <1>2 DEF Within, Covers, AddDay

LEMMA MonthsOfBilled ==
    ASSUME HistoryInv, NEW from \in Nat,
           NEW g, \A m \in from .. clock : g[m] = GrossBilled(m, m, clock)
    PROVE  Sum(g, from .. clock) = GrossBilled(from, clock, clock)
<1> DEFINE S == Billed(from, clock, clock)
           M == from .. clock
           place == [i \in S |-> stamp[<<"ISSUED", i>>]]
<1>1. IsFiniteSet(S) /\ IsFiniteSet(M)
  <2>1. S \subseteq Invoices /\ from \in Int /\ clock \in Int
    BY DEF Billed, HistoryInv
  <2> QED  BY <2>1, LedgerAssumption, FS_Subset, FS_Interval
<1>2. Placed(Total, S, place, M)
  BY ByStamp, LedgerAssumption DEF Billed, Placed
<1>3. ASSUME NEW m \in M  PROVE g[m] = Sum(Total, PartOf(S, place, m))
  <2>2. \A i : Within(<<"ISSUED", i>>, m, m) <=>
            Within(<<"ISSUED", i>>, from, clock) /\ stamp[<<"ISSUED", i>>] = m
    BY ByStamp, InMonth
  <2>3. Billed(m, m, clock) = PartOf(S, place, m)
    BY <2>2 DEF Billed, PartOf
  <2> QED  BY <2>3 DEF GrossBilled
<1>4. Sum(g, M) = Sum(Total, S)
  <2> HIDE DEF S, M, place
  <2>1. SumsParts(g, Total, S, place, M)
    BY <1>3 DEF SumsParts
  <2> QED  BY <1>1, <1>2, <2>1, SumParts
<1> QED  BY <1>4 DEF GrossBilled

LEMMA MonthsOfNotes ==
    ASSUME HistoryInv, NEW from \in Nat,
           NEW g, \A m \in from .. clock : g[m] = CreditNotes(m, m, clock)
    PROVE  Sum(g, from .. clock) = CreditNotes(from, clock, clock)
<1> DEFINE S == Noted(from, clock, clock)
           M == from .. clock
           place == [n \in S |-> stamp[<<"NOTE", n>>]]
           f == [n \in S |-> note[n].amount]
<1>1. IsFiniteSet(S) /\ IsFiniteSet(M)
  <2>1. S \subseteq Notes /\ from \in Int /\ clock \in Int
    BY DEF Noted, NotesAt, HistoryInv
  <2> QED  BY <2>1, LedgerAssumption, FS_Subset, FS_Interval
<1>2. Placed(f, S, place, M)
  BY ByStamp DEF Noted, NotesAt, HistoryInv, SerialInv, LedgerTypeOK, NoteRow, Placed
<1>3. ASSUME NEW m \in M
      PROVE  \E h : /\ g[m] = Sum(h, PartOf(S, place, m))
                    /\ \A x \in PartOf(S, place, m) : h[x] = f[x]
  <2> DEFINE P == PartOf(S, place, m)
             h == [n \in P |-> note[n].amount]
  <2>2. \A n : Within(<<"NOTE", n>>, m, m) <=>
            Within(<<"NOTE", n>>, from, clock) /\ stamp[<<"NOTE", n>>] = m
    BY ByStamp, InMonth
  <2>3. Noted(m, m, clock) = P
    BY <2>2 DEF Noted, PartOf
  <2>4. g[m] = Sum(h, P)
    BY <2>3 DEF CreditNotes, AmountOf
  <2>5. \A x \in P : h[x] = f[x]
    BY DEF PartOf
  <2> HIDE DEF h
  <2> QED  BY <2>4, <2>5
<1>4. Sum(g, M) = Sum(f, S)
  <2> HIDE DEF S, M, place, f
  <2>1. SumsPieces(g, f, S, place, M)
    BY <1>3 DEF SumsPieces
  <2> QED  BY <1>1, <1>2, <2>1, SumPieces
<1> QED  BY <1>4 DEF CreditNotes, AmountOf

LEMMA MonthsOfRefunds ==
    ASSUME HistoryInv, NEW from \in Nat,
           NEW g, \A m \in from .. clock : g[m] = RefundsPaid(m, m, clock)
    PROVE  Sum(g, from .. clock) = RefundsPaid(from, clock, clock)
<1> DEFINE S == RefundedIn(from, clock, clock)
           M == from .. clock
           place == [x \in S |-> stamp[<<"REFUND", x[1], x[2]>>]]
           f == [x \in S |-> refund[x[1]][x[2]].amount]
<1>1. IsFiniteSet(S) /\ IsFiniteSet(M)
  <2>1. S \subseteq Payments \X Keys /\ from \in Int /\ clock \in Int
    BY DEF RefundedIn, HistoryInv
  <2> QED  BY <2>1, LedgerAssumption, FS_Product, FS_Subset, FS_Interval
<1>2. Placed(f, S, place, M)
  <2>1. \A x \in S : x[1] \in Payments /\ x[2] \in Keys
    BY DEF RefundedIn
  <2>2. \A x \in S : place[x] \in M
    BY ByStamp DEF RefundedIn
  <2>3. \A p \in Payments, k \in Keys : refund[p][k].amount \in Nat
    BY DEF HistoryInv, SerialInv, LedgerTypeOK, RefundRow
  <2>4. \A x \in S : f[x] \in Int
    BY <2>1, <2>3
  <2> HIDE DEF S, f, place, M
  <2> QED  BY <2>2, <2>4 DEF Placed
<1>3. ASSUME NEW m \in M
      PROVE  \E h : /\ g[m] = Sum(h, PartOf(S, place, m))
                    /\ \A x \in PartOf(S, place, m) : h[x] = f[x]
  <2> DEFINE P == PartOf(S, place, m)
             h == [x \in P |-> refund[x[1]][x[2]].amount]
  <2>2. \A p, k : Within(<<"REFUND", p, k>>, m, m) <=>
            Within(<<"REFUND", p, k>>, from, clock) /\ stamp[<<"REFUND", p, k>>] = m
    BY ByStamp, InMonth
  <2>3. RefundedIn(m, m, clock) = P
    BY <2>2 DEF RefundedIn, PartOf
  <2>4. g[m] = Sum(h, P)
    BY <2>3 DEF RefundsPaid
  <2>5. \A x \in P : h[x] = f[x]
    BY DEF PartOf
  <2> HIDE DEF h
  <2> QED  BY <2>4, <2>5
<1>4. Sum(g, M) = Sum(f, S)
  <2> HIDE DEF S, M, place, f
  <2>1. SumsPieces(g, f, S, place, M)
    BY <1>3 DEF SumsPieces
  <2> QED  BY <1>1, <1>2, <2>1, SumPieces
<1> QED  BY <1>4 DEF RefundsPaid

\* What was collected is what the lines of the payments report count.
LEMMA CollectedIsEffective ==
    ASSUME HistoryInv, NEW from \in Nat
    PROVE  Collected(from, clock, clock) = Effective(from, clock)
<1> DEFINE S == {p \in Payments : received[p] > 0 /\ Covers(from, clock, received[p])}
           T == Collecting(from, clock, clock)
           f == [p \in S |-> IF PaymentLine(p, clock).reversed THEN 0 ELSE payment[p].amount]
           g == [p \in T |-> payment[p].amount]
<1>1. \A p : PaymentLine(p, clock).reversed = ReversedAt(p, clock)
  BY DEF PaymentLine
<1>2. T = {p \in S : ~ReversedAt(p, clock)}
  BY DEF Collecting
<1>3. \A p \in Payments : payment[p].amount \in Int
  BY DEF HistoryInv, SerialInv, LedgerTypeOK, PaymentRow
<1>4. \A p \in S : /\ ReversedAt(p, clock) => f[p] = 0
                   /\ ~ReversedAt(p, clock) => f[p] = payment[p].amount
  BY <1>1
<1>5. IsFiniteSet(S)
  BY LedgerAssumption, FS_Subset
<1>6. /\ T \subseteq S
      /\ \A p \in S : f[p] \in Int
      /\ \A p \in T : g[p] = f[p]
      /\ \A p \in S \ T : f[p] = 0
  <2>1. \A p \in S : f[p] \in Int
    <3> HIDE DEF f
    <3> QED  BY <1>3, <1>4
  <2>2. \A p \in T : p \in S /\ g[p] = f[p]
    <3>1. \A p \in T : p \in S /\ ~ReversedAt(p, clock) /\ g[p] = payment[p].amount
      BY <1>2
    <3> HIDE DEF S, T, f, g
    <3> QED  BY <1>4, <3>1
  <2>3. \A p \in S \ T : f[p] = 0
    <3> HIDE DEF S, T, f
    <3> QED  BY <1>2, <1>4
  <2> HIDE DEF S, T, f, g
  <2> QED  BY <2>1, <2>2, <2>3
<1>7. Sum(f, S) = Sum(g, T)
  <2> HIDE DEF S, T, f, g
  <2> QED  BY <1>5, <1>6, SumIgnore
<1>8. Effective(from, clock) = Sum(f, S)
  BY DEF Effective
<1> QED  BY <1>7, <1>8 DEF Collected, AmountOf

Branches == {Branch[i] : i \in Invoices}

LEMMA BranchesFinite == IsFiniteSet(Branches)
<1> DEFINE f == [i \in Invoices |-> Branch[i]]
<1>1. f \in Surjection(Invoices, Branches)
  BY DEF Surjection, Branches
<1> QED  BY <1>1, LedgerAssumption, FS_Surjection

LEMMA BranchesOfBilled ==
    ASSUME NEW from, NEW to, NEW g, \A b \in Branches : g[b] = BranchBilled(b, from, to)
    PROVE  Sum(g, Branches) = GrossBilled(from, to, to)
<1> DEFINE S == Billed(from, to, to)
<1>1. IsFiniteSet(S) /\ IsFiniteSet(Branches)
  <2>1. S \subseteq Invoices
    BY DEF Billed
  <2> QED  BY <2>1, BranchesFinite, LedgerAssumption, FS_Subset
<1>2. Placed(Total, S, Branch, Branches)
  BY LedgerAssumption DEF Placed, Branches, Billed
<1>3. SumsParts(g, Total, S, Branch, Branches)
  BY DEF SumsParts, PartOf, BranchBilled
<1>4. Sum(g, Branches) = Sum(Total, S)
  <2> HIDE DEF S
  <2> QED  BY <1>1, <1>2, <1>3, SumParts
<1> QED  BY <1>4 DEF GrossBilled

\* What is outstanding is what is outstanding of its parts.
LEMMA OwedInParts ==
    ASSUME HistoryInv, NEW R, R \subseteq Invoices, NEW place, NEW M, IsFiniteSet(M),
           \A i \in R : place[i] \in M,
           NEW g, \A m \in M : g[m] = Owed(PartOf(R, place, m), clock)
    PROVE  Sum(g, M) = Owed(R, clock)
<1> DEFINE f == [i \in R |-> OutstandingAt(i, clock)]
<1>1. \A i \in R : OutstandingAt(i, clock) \in Int
  <2>1. TAKE i \in R
  <2>2. PaidAt(i, clock) = Paid(i) /\ CreditAt(i, clock) = Credit(i)
    BY PaidIsCurrent, CreditIsCurrent
  <2>3. Paid(i) \in Int /\ Credit(i) \in Int /\ Total[i] \in Int
    BY BalanceSums, LedgerAssumption DEF HistoryInv, SerialInv
  <2> QED  BY <2>2, <2>3 DEF OutstandingAt
<1>2. IsFiniteSet(R)
  BY LedgerAssumption, FS_Subset
<1>3. Placed(f, R, place, M)
  BY <1>1 DEF Placed
<1>4. ASSUME NEW m \in M
      PROVE  \E h : /\ g[m] = Sum(h, PartOf(R, place, m))
                    /\ \A x \in PartOf(R, place, m) : h[x] = f[x]
  <2> DEFINE P == PartOf(R, place, m)
             h == [i \in P |-> OutstandingAt(i, clock)]
  <2>1. g[m] = Sum(h, P)
    BY DEF Owed
  <2>2. \A x \in P : h[x] = f[x]
    BY DEF PartOf
  <2> HIDE DEF h
  <2> QED  BY <2>1, <2>2
<1>5. Sum(g, M) = Sum(f, R)
  <2> HIDE DEF f
  <2>1. SumsPieces(g, f, R, place, M)
    BY <1>4 DEF SumsPieces
  <2> QED  BY <1>2, <1>3, <2>1, SumPieces
<1> QED  BY <1>5 DEF Owed

LEMMA AgesOfOwed ==
    ASSUME HistoryInv
    PROVE  Owed(Receivables(clock), clock) = Aging("CURRENT", clock) + Aging("OVERDUE", clock)
<1> DEFINE R == Receivables(clock)
           M == {"CURRENT", "OVERDUE"}
           place == [i \in R |-> Bucket(i, clock)]
           g == [b \in M |-> Aging(b, clock)]
<1>1. R \subseteq Invoices /\ \A i \in R : place[i] \in M
  BY DEF Receivables, Bucket
<1>2. IsFiniteSet(M)
  <2>1. IsFiniteSet({}) /\ M = ({} \cup {"CURRENT"}) \cup {"OVERDUE"}
    BY FS_EmptySet
  <2>2. IsFiniteSet({} \cup {"CURRENT"})
    BY <2>1, FS_AddElement
  <2>3. IsFiniteSet(({} \cup {"CURRENT"}) \cup {"OVERDUE"})
    BY <2>2, FS_AddElement
  <2> QED  BY <2>1, <2>3
<1>3. \A b \in M : g[b] = Owed(PartOf(R, place, b), clock)
  <2>1. TAKE b \in M
  <2>2. {i \in R : Bucket(i, clock) = b} = PartOf(R, place, b)
    BY DEF PartOf
  <2> QED  BY <2>2 DEF Aging
<1>4. Sum(g, M) = Owed(R, clock)
  <2> HIDE DEF R, M, place, g
  <2> QED  BY <1>1, <1>2, <1>3, OwedInParts
<1>5. \A b \in M : Aging(b, clock) \in Int
  <2>1. TAKE b \in M
  <2> DEFINE P == PartOf(R, place, b)
             f == [i \in P |-> OutstandingAt(i, clock)]
  <2>2. P \subseteq Invoices
    BY <1>1 DEF PartOf
  <2>3. \A i \in P : OutstandingAt(i, clock) \in Int
    <3>1. TAKE i \in P
    <3>2. PaidAt(i, clock) = Paid(i) /\ CreditAt(i, clock) = Credit(i)
      BY <2>2, PaidIsCurrent, CreditIsCurrent
    <3>3. Paid(i) \in Int /\ Credit(i) \in Int /\ Total[i] \in Int
      BY <2>2, BalanceSums, LedgerAssumption DEF HistoryInv, SerialInv
    <3> QED  BY <3>2, <3>3 DEF OutstandingAt
  <2>4. IsFiniteSet(P)
    BY <2>2, LedgerAssumption, FS_Subset
  <2>5. Sum(f, P) \in Int
    <3> HIDE DEF P
    <3> QED  BY <2>3, <2>4, SumInt
  <2> QED  BY <1>3, <2>5 DEF Owed
<1>6. Sum(g, M) = g["CURRENT"] + g["OVERDUE"]
  <2>1. g["CURRENT"] \in Int /\ g["OVERDUE"] \in Int
    BY <1>5
  <2> HIDE DEF g
  <2> QED  BY <2>1, SumPair
<1> QED  BY <1>4, <1>6

LEMMA BranchesOfOwed ==
    ASSUME HistoryInv, NEW g, \A b \in Branches : g[b] = BranchOwed(b, clock)
    PROVE  Sum(g, Branches) = Owed(Receivables(clock), clock)
<1>1. Receivables(clock) \subseteq Invoices /\ \A i \in Receivables(clock) : Branch[i] \in Branches
  BY DEF Receivables, Branches
<1>2. \A b \in Branches : g[b] = Owed(PartOf(Receivables(clock), Branch, b), clock)
  BY DEF BranchOwed, PartOf
<1> QED  BY <1>1, <1>2, BranchesFinite, OwedInParts

LEMMA ReportsAddUp == HistoryInv => PresentIsCurrent /\ ReportsAgree
<1> SUFFICES ASSUME HistoryInv  PROVE PresentIsCurrent /\ ReportsAgree
  OBVIOUS
<1>1. PresentIsCurrent
  BY PaidIsCurrent, CreditIsCurrent DEF PresentIsCurrent
<1>2. ASSUME NEW from \in 1 .. clock
      PROVE  LET months == ByMonth(from, clock)
                 ofMonths(n) == Sum([m \in DOMAIN months |-> months[m][n]], DOMAIN months)
                 branches == {Branch[i] : i \in Invoices}
                 owed == Owed(Receivables(clock), clock)
             IN  /\ GrossBilled(from, clock, clock) = ofMonths(1)
                 /\ CreditNotes(from, clock, clock) = ofMonths(2)
                 /\ RefundsPaid(from, clock, clock) = ofMonths(3)
                 /\ Collected(from, clock, clock) = Effective(from, clock)
                 /\ GrossBilled(from, clock, clock) =
                        Sum([b \in branches |-> BranchBilled(b, from, clock)], branches)
                 /\ owed = Aging("CURRENT", clock) + Aging("OVERDUE", clock)
                 /\ owed = Sum([b \in branches |-> BranchOwed(b, clock)], branches)
  <2>0. from \in Nat
    BY DEF HistoryInv
  <2> DEFINE months == ByMonth(from, clock)
             M == from .. clock
             g1 == [m \in M |-> months[m][1]]
             g2 == [m \in M |-> months[m][2]]
             g3 == [m \in M |-> months[m][3]]
             gb == [b \in Branches |-> BranchBilled(b, from, clock)]
             go == [b \in Branches |-> BranchOwed(b, clock)]
  <2>1. DOMAIN months = M
    BY DEF ByMonth
  <2>2. \A m \in M : /\ g1[m] = GrossBilled(m, m, clock)
                     /\ g2[m] = CreditNotes(m, m, clock)
                     /\ g3[m] = RefundsPaid(m, m, clock)
    BY DEF ByMonth
  <2>3. Sum(g1, M) = GrossBilled(from, clock, clock)
    <3> HIDE DEF g1, g2, g3
    <3> QED  BY <2>0, <2>2, MonthsOfBilled
  <2>4. Sum(g2, M) = CreditNotes(from, clock, clock)
    <3> HIDE DEF g1, g2, g3
    <3> QED  BY <2>0, <2>2, MonthsOfNotes
  <2>5. Sum(g3, M) = RefundsPaid(from, clock, clock)
    <3> HIDE DEF g1, g2, g3
    <3> QED  BY <2>0, <2>2, MonthsOfRefunds
  <2>6. Collected(from, clock, clock) = Effective(from, clock)
    BY <2>0, CollectedIsEffective
  <2>7. Sum(gb, Branches) = GrossBilled(from, clock, clock)
    <3>1. \A b \in Branches : gb[b] = BranchBilled(b, from, clock)
      OBVIOUS
    <3> HIDE DEF gb
    <3> QED  BY <3>1, BranchesOfBilled
  <2>8. Sum(go, Branches) = Owed(Receivables(clock), clock)
    <3>1. \A b \in Branches : go[b] = BranchOwed(b, clock)
      OBVIOUS
    <3> HIDE DEF go
    <3> QED  BY <3>1, BranchesOfOwed
  <2> HIDE DEF months, M
  <2> QED  BY <2>1, <2>3, <2>4, <2>5, <2>6, <2>7, <2>8, AgesOfOwed DEF Branches, months
<1> QED  BY <1>1, <1>2 DEF ReportsAgree

\* The as-of projection of now is the one the commands decide by, and the
\* reports of one period add up to the same amounts, whatever was recorded,
\* given back, credited and voided before.
THEOREM ReportsStayAgreed == MCSpec => []HistoryAgrees
<1>1. MCInit => HistoryPart
  BY HistoryPartHolds
<1>2. HistoryPart /\ [MCNext]_<<vars, history, drafting, part>> => HistoryPart'
  BY HistoryPartHolds
<1>3. HistoryPart => HistoryAgrees
  BY ReportsAddUp DEF HistoryPart, HistoryAgrees
<1> QED  BY <1>1, <1>2, <1>3, PTL DEF MCSpec

=============================================================================
