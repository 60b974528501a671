------------------------------ MODULE Reading ------------------------------
(***************************************************************************)
(* What a list read page by page promises its reader, whatever is written  *)
(* meanwhile: no row appears twice, the rows there when reading began come *)
(* in the order of the list, and when there is no further page none of     *)
(* them is missing.  Listings shows that the paged lists of the API keep   *)
(* it.                                                                     *)
(***************************************************************************)
EXTENDS Sequences, SequencesExt

CONSTANT Precedes(_, _)     \* the order of the list

VARIABLES
    shown,      \* the rows shown so far, in the order shown
    owed,       \* the rows the reader can still count on
    over        \* there is no further page

\* The rows of the next page, given all those shown after it.
PageOf(all) == SubSeq(all, Len(shown) + 1, Len(all))

\* A page of the rows owed before it: in order, and before all that stay owed.
InTurn(page, before) ==
    /\ owed' = before \ ToSet(page)
    /\ \A e \in before \cap ToSet(page), x \in owed' : Precedes(e, x)
    /\ \A i, j \in DOMAIN page :
         i < j /\ page[i] \in before /\ page[j] \in before => Precedes(page[i], page[j])
    /\ over' => owed' = {}

ReadingInit == shown = << >> /\ owed = {} /\ over = TRUE

\* A new reading: everything in the list is owed.
Begin ==
    /\ IsInjective(shown')
    /\ InTurn(shown', owed' \cup ToSet(shown'))

\* The next page, which can be empty: what was to come has moved.
Continue ==
    /\ ~over
    /\ shown' = shown \o PageOf(shown')
    /\ IsInjective(shown')
    /\ InTurn(PageOf(shown'), owed)

\* Writers show nothing; a row they move is no longer owed.
Write ==
    /\ owed' \subseteq owed
    /\ UNCHANGED <<shown, over>>

ReadingNext == Begin \/ Continue \/ Write

ReadingSpec == ReadingInit /\ [][ReadingNext]_<<shown, owed, over>>
=============================================================================
