------------------------------ MODULE CashDesk ------------------------------
(***************************************************************************)
(* PaymentDialog and RefundDialog of the billing page: what a cashier      *)
(* enters, saves and saves again, against the idempotency keys of the      *)
(* server (recordPayment, refundPayment).  The dialog is mounted with its  *)
(* page and draws its key once; closing it keeps the key and the fields.   *)
(* A payment's key is unique in the tenant, a refund's for the payment it  *)
(* refunds.  The answer can be lost after the row was committed.           *)
(***************************************************************************)
EXTENDS Naturals, Sequences, FiniteSets

CONSTANTS
    Cashiers,
    Targets,        \* the invoices that are paid, the payments that are refunded
    Terms,          \* the rest of what is entered: amount and method, or amount and reason
    NoDetails,      \* empty fields
    MaxEntries,     \* bound on the payments a cashier means to record
    MaxOpenings     \* bound on the times the page is opened

ASSUME CashDeskAssumption == MaxEntries \in Nat /\ MaxOpenings \in Nat

Details == [target : Targets, terms : Terms]
Pages == {"payments", "refunds"}

VARIABLES
    posts,    \* rows of payments and refunds: [page, key, details, entry], as the desk's
    desk      \* cashier: [page, opening, open, fields, entry, told]

cashDeskVars == <<posts, desk>>

\* Mutation: a key for every click.
KeyPerClick(k) == <<k, desk[k].opening, Len(posts)>>

\* useState(() => crypto.randomUUID()): one key for as long as the page is open.
IdempotencyKey(k) == <<k, desk[k].opening>>

EntryOf(k) == <<k, desk[k].entry>>

CashDeskInit ==
    /\ posts = << >>
    /\ desk \in [Cashiers -> [page : Pages, opening : {1}, open : {FALSE}, fields : {NoDetails}, entry : {0}, told : {{}}]]

\* The cashier has a payment or a refund to record: opens the dialog and fills it in.
Enter(k, d) ==
    /\ ~desk[k].open
    /\ desk[k].entry < MaxEntries
    /\ desk' = [desk EXCEPT ![k].open = TRUE, ![k].fields = d, ![k].entry = @ + 1]
    /\ UNCHANGED posts

\* A refusal, or what looks like one, is answered by other details for the same entry.
Amend(k, d) ==
    /\ desk[k].open
    /\ desk' = [desk EXCEPT ![k].fields = d]
    /\ UNCHANGED posts

GiveUpEntry(k) ==
    /\ desk[k].open
    /\ desk' = [desk EXCEPT ![k].open = FALSE]
    /\ UNCHANGED posts

\* The page is left, and this or the other one opened: its dialog is mounted anew.
Reopen(k, page) ==
    /\ desk[k].opening < MaxOpenings
    /\ desk' = [desk EXCEPT ![k].page = page, ![k].opening = @ + 1, ![k].open = FALSE, ![k].fields = NoDetails]
    /\ UNCHANGED posts

\* idempotentPayment looks the key up in the tenant, refundPayment among the
\* refunds of the payment it was given.
Earlier(k, d) ==
    {i \in DOMAIN posts : /\ posts[i].page = desk[k].page /\ posts[i].key = IdempotencyKey(k)
                          /\ desk[k].page = "refunds" => posts[i].details.target = d.target}

\* Mutation: the row of the key is returned whatever was sent.
AnyMatch(i, d) == TRUE

\* assertPaymentIdempotency, and the comparison of refundPayment
SameDetails(i, d) == posts[i].details = d

\* A new row, or the one of the key if it is what is sent; else a conflict.
RecordPost(k, d) ==
    \/ /\ Earlier(k, d) = {}
       /\ posts' = Append(posts, [page |-> desk[k].page, key |-> IdempotencyKey(k), details |-> d, entry |-> EntryOf(k)])
    \/ (\E i \in Earlier(k, d) : SameDetails(i, d)) /\ UNCHANGED posts

\* onSuccess closes the dialog and says that the payment is recorded; when
\* the answer is lost, onError leaves everything to be saved again.
Save(k) ==
    /\ desk[k].open
    /\ RecordPost(k, desk[k].fields)
    /\ \/ desk' = [desk EXCEPT ![k].open = FALSE, ![k].told = @ \cup {desk[k].entry}]
       \/ UNCHANGED desk

CashDeskNext ==
    \E k \in Cashiers :
        \/ \E d \in Details : Enter(k, d) \/ Amend(k, d)
        \/ \E page \in Pages : Reopen(k, page)
        \/ GiveUpEntry(k) \/ Save(k)

CashDeskSpec == CashDeskInit /\ [][CashDeskNext]_cashDeskVars

-----------------------------------------------------------------------------
(* Properties *)

\* The rows carry keys and entries that cashiers have drawn.
CashDeskTypeOK ==
    /\ desk \in [Cashiers -> [page : Pages, opening : Nat, open : BOOLEAN, fields : Details \cup {NoDetails},
                              entry : 0 .. MaxEntries, told : SUBSET (1 .. MaxEntries)]]
    /\ \A i \in DOMAIN posts :
        \E k \in Cashiers :
            /\ \E o \in 1 .. desk[k].opening : posts[i].key = <<k, o>>
            /\ \E n \in 1 .. desk[k].entry : posts[i].entry = <<k, n>>

\* However often an entry is saved while its dialog is open, and whatever is
\* amended after an answer was lost, a payment is recorded once.  So is a refund,
\* but for one that is amended to refund another payment: that one's keys are
\* its own (billing.service.ts:787), so both are refunded.
SavedOnce ==
    \A i, j \in DOMAIN posts : posts[i].entry = posts[j].entry =>
        \/ i = j
        \/ posts[i].page = "refunds" /\ posts[j].page = "refunds" /\ posts[i].details.target # posts[j].details.target

\* What the page says is recorded is in the ledger with those details: of this
\* entry, or of an earlier one of the same opening that was the same.
ToldIsInLedger ==
    [][\A k \in Cashiers : desk'[k].told # desk[k].told =>
        \E i \in DOMAIN posts' : /\ posts'[i].details = desk[k].fields /\ posts'[i].page = desk[k].page
                                 /\ posts'[i].key[1] = k]_cashDeskVars


\* What the dialogs send and say, in one.
CashDeskSafe == [](CashDeskTypeOK /\ SavedOnce) /\ ToldIsInLedger

\* The page says of every payment it was given that it is recorded
\* (BillingPage.tsx:139).  Refuted: the key outlives the dialog, so a second
\* payment of the same amount on the same invoice is taken for the first.
ToldIsRecorded ==
    \A k \in Cashiers, n \in 1..MaxEntries :
        n \in desk[k].told => \E i \in DOMAIN posts : posts[i].entry = <<k, n>>

=============================================================================
