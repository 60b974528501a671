------------------------------- MODULE MCBilling -------------------------------
(* The billing modules, each as a part with variables of its own: the serial  *)
(* ledger and the ledger's transactions with two invoices of one student, of  *)
(* totals 2 and 1; its history as of past instants; and the drafting of       *)
(* invoices from the terms of an enrollment.                                  *)
EXTENDS BillingTransactions, LedgerHistory, Drafting, TLC

CONSTANTS Parts, i1, i2, p1, p2, n1, n2, k1, k2, anna, c1, c2, o1

VARIABLE part

MCStudentOf == [i \in Invoices |-> anna]
MCTotal == (i1 :> 2) @@ (i2 :> 1)
MCDueDate == (i1 :> 1) @@ (i2 :> 5)
MCBranch == (i1 :> k1) @@ (i2 :> k2)
MCRank == (i1 :> 1) @@ (i2 :> 2)

Line(a, b) == (i1 :> a) @@ (i2 :> b)

Issues == [op : {"issue"}, invoice : Invoices]
Voids(invoices) == [op : {"void"}, invoice : invoices]
Pays(keys, amounts) ==
    [op : {"recordPayment"}, key : keys, invoice : {i1}, amount : amounts,
     student : {NoStudent}]
Credits(keys, invoices) ==
    [op : {"createCreditNote"}, key : keys, invoice : invoices, amount : {1}]
    \cup [op : {"issueCreditNote"}, note : Notes]
Deposits(keys, student) ==
    [op : {"recordUnallocatedPayment"}, key : keys, amount : {2}, student : {student}]
Batches(keys, lines) ==
    [op : {"allocatePayment"}, payment : Payments, key : keys, lines : lines]
Returns(keys) ==
    [op : {"reversePayment"}, payment : Payments, key : {k1}]
    \cup [op : {"refundPayment"}, payment : Payments, key : keys, amount : {1}]
NoteVoids == [op : {"voidCreditNote"}, note : Notes, key : {k1}]

\* Every command, one after the other.
LedgerRequests ==
    Issues \cup Voids(Invoices) \cup Pays({k1}, {1, 2}) \cup Deposits({k2}, anna)
    \cup Batches({k1}, {Line(1, 1), Line(1, 0)}) \cup Batches({k2}, {Line(1, 0)}) \cup Returns({k1, k2})
    \cup Credits({k1}, {i1}) \cup Credits({k2}, Invoices) \cup NoteVoids

\* Collection: the retry of a payment, competing payments for one invoice,
\* batches over both invoices, and the corrections.
PaymentRequests ==
    Issues \cup Pays({k1}, {1, 2}) \cup Pays({k2}, {2}) \cup Deposits({k1, k2}, NoStudent)
    \cup Batches({k1}, {Line(1, 1), Line(2, 0)}) \cup Returns({k1})

\* Two notes on one invoice, a payment, and the void of the invoice.
NoteRequests ==
    Issues \cup Voids({i1}) \cup Pays({k1}, {1}) \cup Credits({k1, k2}, {i1}) \cup NoteVoids

\* One invoice, two payments and a note, with all that undoes them.
HistoryRequests ==
    Issues \cup Voids({i1}) \cup Pays({k1, k2}, {1})
    \cup Returns({k1}) \cup Credits({k1}, {i1}) \cup NoteVoids

ASSUME MCAssumption == LedgerRequests \subseteq Requests

MCRequests == LedgerRequests \cup PaymentRequests \cup NoteRequests \cup HistoryRequests

Transacting(requests) ==
    /\ Next
    /\ \A c \in Connections : request'[c] \in requests \cup {NoRequest}

\* Only PaymentRequests: no note, no void, and one key for the refunds.
Paying ==
    /\ Transacting(PaymentRequests) /\ UNCHANGED credits
    /\ \A i \in Invoices : invoice'[i].status # "VOID"
    /\ \A p \in Payments : refund'[p][k2] = refund[p][k2]

\* Only NoteRequests: nothing is given back.
Correcting == Transacting(NoteRequests) /\ UNCHANGED <<refund, reversal>>

MCGrants == [offer : {o1}, amount : {1, 2}]
MCMost == [o \in Offers |-> 1]
MCOrders ==
    {[enrolled |-> TRUE, items |-> 0, manual |-> 0],
     [enrolled |-> TRUE, items |-> 1, manual |-> 1],
     [enrolled |-> FALSE, items |-> 1, manual |-> 0]}

Ids == Permutations(Payments) \cup Permutations(Notes) \cup Permutations(Connections)

MCInit == part \in Parts /\ Init /\ HistoryInit /\ DraftingInit

MCNext ==
    \/ /\ part = "ledger" /\ \E r \in LedgerRequests : Execute(r)
       /\ UNCHANGED <<transaction, history, drafting, part>>
    \/ part = "payments" /\ Paying /\ UNCHANGED <<history, drafting, part>>
    \/ part = "documents" /\ Correcting /\ UNCHANGED <<history, drafting, part>>
    \/ part = "history" /\ HistoryNext /\ UNCHANGED <<transaction, drafting, part>>
    \/ part = "drafting" /\ DraftingNext /\ UNCHANGED <<vars, history, part>>

\* NetDueCoversPaid and VoidIsUnpaid, in the parts that run the commands one
\* after the other; the races that break them are in the part "documents", and
\* MCBillingCorrectionRace shows one.
InSequence == part \in {"ledger", "history"}

\* However collections, refunds, reversals, notes and their voids follow one
\* another, no invoice is paid and credited beyond its total, and a void invoice
\* holds no money.
BalancesHold == InSequence => NetDueCoversPaid /\ VoidIsUnpaid

\* In the part that stamps its rows: the as-of projection of now is the current
\* one (PresentIsCurrent), and the reports of a period agree (ReportsAgree).
HistoryAgrees == part = "history" => PresentIsCurrent /\ ReportsAgree

\* What was told of a past instant, or of a period that is over, stands.
HistoryStands == PastStands /\ ReportsStand

MCSpec == MCInit /\ [][MCNext]_<<vars, history, drafting, part>>
=============================================================================
