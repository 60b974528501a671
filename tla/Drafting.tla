------------------------------ MODULE Drafting ------------------------------
(***************************************************************************)
(* The terms of one enrollment (its price, the discounts granted to it)    *)
(* and the invoices drawn up from them: createDiscount, disableDiscount,   *)
(* createEnrollmentPricing, createEnrollmentDiscount, createInvoice and    *)
(* the issue of an invoice, as READ COMMITTED transactions of several      *)
(* clerks.                                                                 *)
(*                                                                         *)
(* Pricing, grants and issues lock the enrollment's row FOR UPDATE.        *)
(* createInvoice does not, but its INSERT holds the row FOR KEY SHARE, as  *)
(* every foreign key check does, until it commits: it waits for them, and  *)
(* they for it.  Dates are left out: every price and discount applies.     *)
(***************************************************************************)
EXTENDS Integers, FiniteSets, FiniteSetsExt

CONSTANTS
    Clerks,    \* connections with one of these transactions
    Bills,     \* invoice ids
    Offers,    \* discount ids
    Grants,    \* rows createEnrollmentDiscount may add: [offer, amount]
    Prices,    \* amounts of createEnrollmentPricing
    Most,      \* max_amount_vnd of the offers
    Orders     \* createInvoice: [enrolled, items, manual], items 0 for none

ASSUME DraftingAssumption ==
    /\ Grants \subseteq [offer : Offers, amount : Nat]
    /\ Prices \subseteq Nat
    /\ Most \in [Offers -> Nat]
    /\ Orders \subseteq [enrolled : BOOLEAN, items : Nat, manual : Nat]

VARIABLES
    offer,     \* discounts: "none", "ACTIVE" or "DISABLED"
    granted,   \* enrollment_discounts of the enrollment
    price,     \* the latest enrollment_pricing: [amount, open], open unless locked_at
    bill,      \* invoices with their items: [status, enrolled, subtotal, discount]
    shown,     \* invoice_discount_snapshots of the invoices
    clerk      \* what the transaction of a clerk has done so far

drafting == <<offer, granted, price, bill, shown, clerk>>
terms == <<granted, price>>

Idle == [step |-> "idle"]
NoBill == [status |-> "none", enrolled |-> FALSE, subtotal |-> 0, discount |-> 0]
NoPrice == [amount |-> 0, open |-> FALSE]

DraftingInit ==
    /\ offer = [o \in Offers |-> "none"]
    /\ granted = {}
    /\ price = NoPrice
    /\ bill = [b \in Bills |-> NoBill]
    /\ shown = [b \in Bills |-> {}]
    /\ clerk = [c \in Clerks |-> Idle]

Does(c, step) == clerk[c].step = step
Goes(c, work) == clerk' = [clerk EXCEPT ![c] = work]

\* Who holds the enrollment's row FOR UPDATE, or FOR KEY SHARE.
Owners == {c \in Clerks :
    \/ clerk[c].step \in {"pricing", "granting"}
    \/ Does(c, "issuing") /\ bill[clerk[c].bill].enrolled}
Sharers == {c \in Clerks : Does(c, "inserted")}

RowLocked(b) == \E c \in Clerks :
    clerk[c].step \in {"opened", "issuing"} /\ clerk[c].bill = b

\* Fault: the invoices being written are not waited for.
Unowned == Owners = {}

\* FOR UPDATE waits for both.
EnrollmentFree == Owners = {} /\ Sharers = {}

Invoiced == \E b \in Bills : bill[b].enrolled /\ bill[b].status \in {"ISSUED", "VOID"}

\* Fault: the enrollment is read without FOR UPDATE.
ReadOnly == ~Invoiced

\* The enrollment's row is locked before its invoices are looked at.
MayChangeTerms == EnrollmentFree /\ ~Invoiced

-----------------------------------------------------------------------------
(* Discounts, prices and grants. *)

CreateDiscount(o) ==
    /\ offer[o] = "none"
    /\ offer' = [offer EXCEPT ![o] = "ACTIVE"]
    /\ UNCHANGED <<terms, bill, shown, clerk>>

DisableDiscount(o) ==
    /\ offer[o] = "ACTIVE"
    /\ offer' = [offer EXCEPT ![o] = "DISABLED"]
    /\ UNCHANGED <<terms, bill, shown, clerk>>

BeginPricing(c) ==
    /\ Does(c, "idle") /\ MayChangeTerms
    /\ Goes(c, [step |-> "pricing"])
    /\ UNCHANGED <<offer, terms, bill, shown>>

CommitPricing(c, amount) ==
    /\ Does(c, "pricing")
    /\ price' = [amount |-> amount, open |-> TRUE]
    /\ Goes(c, Idle)
    /\ UNCHANGED <<offer, granted, bill, shown>>

BeginGrant(c, g) ==
    /\ Does(c, "idle") /\ MayChangeTerms
    /\ offer[g.offer] = "ACTIVE" /\ g \notin granted
    /\ Goes(c, [step |-> "granting", grant |-> g])
    /\ UNCHANGED <<offer, terms, bill, shown>>

CommitGrant(c) ==
    /\ Does(c, "granting")
    /\ granted' = granted \cup {clerk[c].grant}
    /\ Goes(c, Idle)
    /\ UNCHANGED <<offer, price, bill, shown>>

-----------------------------------------------------------------------------
(* createInvoice. *)

Applying == {g \in granted : offer[g.offer] = "ACTIVE"}
WithinMaximum == \A g \in Applying : g.amount <= Most[g.offer]
Worth(grants) == MapThenSumSet(LAMBDA g : g.amount, grants)

Subtotal(r) == IF r.items > 0 THEN r.items ELSE IF r.enrolled THEN price.amount ELSE 0

\* Fault: the check that the discounts stay within the subtotal is left out.
AnyDiscount(subtotal, discount) == TRUE

Affordable(subtotal, discount) == discount <= subtotal

\* The prices and discounts are read; what follows works on what was read.
DrawUp(c, r) ==
    LET discount == r.manual + IF r.enrolled THEN Worth(Applying) ELSE 0
    IN  /\ Does(c, "idle")
        /\ Subtotal(r) > 0
        /\ r.enrolled => WithinMaximum
        /\ Affordable(Subtotal(r), discount)
        /\ Goes(c, [step |-> "drawn", row |-> [status |-> "DRAFT",
                    enrolled |-> r.enrolled, subtotal |-> Subtotal(r), discount |-> discount]])
        /\ UNCHANGED <<offer, terms, bill, shown>>

Inserts(c) ==
    /\ Does(c, "drawn")
    /\ clerk[c].row.enrolled => Owners = {}
    /\ Goes(c, [clerk[c] EXCEPT !.step = IF clerk[c].row.enrolled THEN "inserted" ELSE "plain"])
    /\ UNCHANGED <<offer, terms, bill, shown>>

\* The discounts are read once more for the snapshots.
CommitBill(c, b) ==
    /\ bill[b].status = "none"
    /\ \/ Does(c, "inserted") /\ WithinMaximum /\ shown' = [shown EXCEPT ![b] = Applying]
       \/ Does(c, "plain") /\ UNCHANGED shown
    /\ bill' = [bill EXCEPT ![b] = clerk[c].row]
    /\ Goes(c, Idle)
    /\ UNCHANGED <<offer, terms>>

-----------------------------------------------------------------------------
(* issue: the invoice's row, then the enrollment's, then its prices. *)

OpenBill(c, b) ==
    /\ Does(c, "idle") /\ ~RowLocked(b)
    /\ bill[b].status = "DRAFT"
    /\ Goes(c, [step |-> "opened", bill |-> b])
    /\ UNCHANGED <<offer, terms, bill, shown>>

LockTerms(c) ==
    /\ Does(c, "opened")
    /\ bill[clerk[c].bill].enrolled => EnrollmentFree
    /\ Goes(c, [clerk[c] EXCEPT !.step = "issuing"])
    /\ UNCHANGED <<offer, terms, bill, shown>>

CommitIssue(c) ==
    /\ Does(c, "issuing")
    /\ bill' = [bill EXCEPT ![clerk[c].bill].status = "ISSUED"]
    /\ price' = IF bill[clerk[c].bill].enrolled THEN [price EXCEPT !.open = FALSE] ELSE price
    /\ Goes(c, Idle)
    /\ UNCHANGED <<offer, granted, shown>>

VoidBill(b) ==
    /\ bill[b].status = "ISSUED" /\ ~RowLocked(b)
    /\ bill' = [bill EXCEPT ![b].status = "VOID"]
    /\ UNCHANGED <<offer, terms, shown, clerk>>

DropWork(c) ==
    /\ ~Does(c, "idle")
    /\ Goes(c, Idle)
    /\ UNCHANGED <<offer, terms, bill, shown>>

DraftingNext ==
    \/ \E o \in Offers : CreateDiscount(o) \/ DisableDiscount(o)
    \/ \E b \in Bills : VoidBill(b)
    \/ \E c \in Clerks :
          \/ BeginPricing(c) \/ CommitGrant(c) \/ Inserts(c)
          \/ \E amount \in Prices : CommitPricing(c, amount)
          \/ \E g \in Grants : BeginGrant(c, g)
          \/ \E r \in Orders : DrawUp(c, r)
          \/ \E b \in Bills : CommitBill(c, b) \/ OpenBill(c, b)
          \/ LockTerms(c) \/ CommitIssue(c) \/ DropWork(c)

DraftingSpec == DraftingInit /\ [][DraftingNext]_drafting

-----------------------------------------------------------------------------
(* Properties *)

BillRow == [status : {"none", "DRAFT", "ISSUED", "VOID"}, enrolled : BOOLEAN,
            subtotal : Nat, discount : Nat]

\* Rows of their columns' types, every invoice worth its CHECK (no total below
\* zero), and snapshots only of discounts that were granted, within their
\* maximum.
DraftingTypeOK ==
    /\ offer \in [Offers -> {"none", "ACTIVE", "DISABLED"}]
    /\ granted \subseteq Grants
    /\ price \in [amount : Nat, open : BOOLEAN]
    /\ bill \in [Bills -> BillRow]
    /\ \A b \in Bills : bill[b].discount <= bill[b].subtotal
    /\ \A b \in Bills : shown[b] \subseteq {g \in granted : g.amount <= Most[g.offer]}

\* "Enrollment pricing is locked after invoicing": once an invoice of the
\* enrollment is issued its price and discounts never change again, nor do
\* they between the writing of an invoice and its snapshots.
TermsFrozen == [][Invoiced \/ Sharers # {} => UNCHANGED terms]_drafting

\* An issued invoice leaves no price of its enrollment unlocked, whichever of
\* the price and the issue waited for the other.
PricesLocked == Invoiced => ~price.open

\* Terms, drafts and their snapshots, in one.
DraftingSafe == [](DraftingTypeOK /\ PricesLocked) /\ TermsFrozen

=============================================================================
