------------------------------ MODULE Listings ------------------------------
(***************************************************************************)
(* The lists of the API that are read by cursor while others write: the    *)
(* audit log (AuditService.list, two databases merged), the messages and   *)
(* the leads (CommunicationService.list, CrmService.list, newest first)    *)
(* and the students (StudentsService.list, by name).                       *)
(*                                                                         *)
(* Time is counted in microseconds of which PerMillisecond make one that   *)
(* a JavaScript Date can tell apart.  A row is dated when its transaction  *)
(* stamps it and is there for readers only when that commits.              *)
(***************************************************************************)
EXTENDS Naturals, FiniteSets, SequencesExt

CONSTANTS
    Lists,          \* which of "audit", "history", "roster"
    Topics,         \* what a row is about; what a filter can ask for
    AllTopics,      \* no filter
    NoPosition,
    PageSizes,
    MaxRows,        \* bound on the rows
    LastTick,       \* bound on the clock, and on the names
    PerMillisecond

ASSUME ListingsAssumption ==
    /\ PageSizes \subseteq Nat \ {0} /\ MaxRows \in Nat /\ LastTick \in Nat
    /\ PerMillisecond \in Nat \ {0}
    /\ Lists \subseteq {"audit", "history", "roster"}
    /\ AllTopics \notin Topics
    /\ NoPosition \notin [table : {"control", "tenant", "history", "roster"}, id : Nat, at : Nat]

VARIABLES
    list,       \* the list that is read
    tick,       \* the clock
    uncommitted,
    rows,       \* committed: [table, at, id, topic]
    reading     \* [filter, shown, position, more, known]: known are the rows there
                \* from the start that have not moved since

listingsVars == <<list, tick, uncommitted, rows, reading>>

Tables == IF list = "audit" THEN {"control", "tenant"} ELSE {list}

Millisecond(t) == t - (t % PerMillisecond)

\* ORDER BY occurred_at DESC, id DESC; full_name ASC, id ASC.
Precedes(a, b) ==
    IF a.table = "roster" THEN a.at < b.at \/ (a.at = b.at /\ a.id < b.id)
                          ELSE a.at > b.at \/ (a.at = b.at /\ a.id > b.id)

Ahead(S, e) == {x \in S : Precedes(x, e)}

FirstOf(S, n) == {e \in S : Cardinality(Ahead(S, e)) < n}

InOrder(S) == [i \in 1..Cardinality(S) |-> CHOOSE e \in S : Cardinality(Ahead(S, e)) = i - 1]

Matches(e, filter) == filter = AllTopics \/ e.topic = filter

\* Mutation: the last row of a page is read again.
AtOrBeyond(e, position) ==
    position = NoPosition \/ Precedes(position, e) \/ (e.at = position.at /\ e.id = position.id)

\* (occurred_at, id) < (position), or nothing to begin after.
Beyond(e, position) == position = NoPosition \/ Precedes(position, e)

\* Mutation: exactly a page is asked of each database.
ReadExactly(table, position, filter, limit) ==
    FirstOf({e \in rows : e.table = table /\ Matches(e, filter) /\ Beyond(e, position)}, limit)

\* LIMIT limit + 1 after the position, of one table.
ReadTable(table, position, filter, limit) ==
    FirstOf({e \in rows : e.table = table /\ Matches(e, filter) /\ Beyond(e, position)}, limit + 1)

\* Mutation: a table with no row on the page starts over.
CursorOfPage(page, position) ==
    [t \in Tables |->
       LET own == {e \in page : e.table = t} IN
         IF own = {} THEN NoPosition ELSE CHOOSE e \in own : \A x \in own : x = e \/ Precedes(x, e)]

\* nextCursor: the last row shown of each table, else the former position;
\* createdAt.toISOString() forgets the microseconds.
NextCursor(page, position) ==
    [t \in Tables |->
       LET own == {e \in page : e.table = t}
           last == CHOOSE e \in own : \A x \in own : x = e \/ Precedes(x, e)
       IN IF own = {} THEN position[t]
          ELSE [table |-> t, id |-> last.id,
                at |-> IF list = "history" THEN Millisecond(last.at) ELSE last.at]]

ListingsInit ==
    /\ list \in Lists
    /\ tick = 0
    /\ uncommitted = {} /\ rows = {}
    /\ reading = [filter |-> AllTopics, shown |-> << >>, position |-> [t \in Tables |-> NoPosition],
                  more |-> FALSE, known |-> {}]

\* new Date() for an audit event, CURRENT_TIMESTAMP for a message or a lead;
\* a student's place is the name.
StampOf(t) ==
    IF list = "audit" THEN t = Millisecond(tick) ELSE IF list = "history" THEN t = tick ELSE TRUE

\* recordControl, recordTenant, INSERT INTO communication_messages, leads, students.
Insert(table, at, id, topic) ==
    /\ Cardinality(rows \cup uncommitted) < MaxRows
    /\ StampOf(at)
    /\ \A e \in rows \cup uncommitted : e.id # id
    /\ uncommitted' = uncommitted \cup {[table |-> table, at |-> at, id |-> id, topic |-> topic]}
    /\ UNCHANGED <<list, tick, rows, reading>>

CommitRow(e) ==
    /\ uncommitted' = uncommitted \ {e}
    /\ rows' = rows \cup {e}
    /\ UNCHANGED <<list, tick, reading>>

\* A student is renamed and moves in the list.
Rename(e, name) ==
    /\ list = "roster"
    /\ rows' = (rows \ {e}) \cup {[e EXCEPT !.at = name]}
    /\ reading' = [reading EXCEPT !.known = @ \ {e}]
    /\ UNCHANGED <<list, tick, uncommitted>>

ClockTicks ==
    /\ tick < LastTick
    /\ tick' = tick + 1
    /\ UNCHANGED <<list, uncommitted, rows, reading>>

\* list: the rows of a page, whether there is a next one and where it starts.
Page(filter, limit, position) ==
    LET found == UNION {ReadTable(t, position[t], filter, limit) : t \in Tables}
        page == FirstOf(found, limit)
    IN [rows |-> InOrder(page), more |-> Cardinality(found) > limit,
        next |-> NextCursor(page, position)]

FirstPage(filter, limit) ==
    LET page == Page(filter, limit, [t \in Tables |-> NoPosition]) IN
      /\ reading' = [filter |-> filter, shown |-> page.rows, position |-> page.next, more |-> page.more,
                     known |-> {e \in rows : Matches(e, filter)}]
      /\ UNCHANGED <<list, tick, uncommitted, rows>>

\* Mutation: the cursor is not bound to its filters.
AnyFilter(filter) == TRUE

\* The audit log refuses a cursor of other filters; the pages that show the
\* other lists drop the cursor when the filters change.
SameFilter(filter) == filter = reading.filter

NextPage(filter, limit) ==
    LET page == Page(filter, limit, reading.position) IN
      /\ reading.more
      /\ SameFilter(filter)
      /\ reading' = [reading EXCEPT !.filter = filter, !.shown = @ \o page.rows, !.position = page.next,
                                    !.more = page.more]
      /\ UNCHANGED <<list, tick, uncommitted, rows>>

ListingsNext ==
    \/ \E table \in Tables, at \in 0..LastTick, id \in 1..MaxRows, topic \in Topics : Insert(table, at, id, topic)
    \/ \E e \in uncommitted : CommitRow(e)
    \/ \E e \in rows, name \in 0..LastTick : Rename(e, name)
    \/ ClockTicks
    \/ \E filter \in Topics \cup {AllTopics}, limit \in PageSizes : FirstPage(filter, limit) \/ NextPage(filter, limit)

ListingsSpec == ListingsInit /\ [][ListingsNext]_listingsVars

----------------------------------------------------------------------------
\* Messages or leads that share their millisecond with another.
Crowded == {e \in rows : \E x \in rows : x # e /\ Millisecond(x.at) = Millisecond(e.at)}

\* What a reader can count on: the rows known from the start, and of messages and leads those alone in their millisecond.
Owed ==
    {e \in reading.known :
       /\ e \notin ToSet(reading.shown)
       /\ Matches(e, reading.filter)
       /\ list = "history" => e \notin Crowded}

Promise == INSTANCE Reading WITH
    shown <- reading.shown, owed <- Owed, over <- ~reading.more

\* The merged audit log, the newest-first lists and the list by name are the
\* ordered reading of one list (AuditService.list and the three others): no row
\* twice, none of those there from the start out of turn, none missing at the end.
ReadingKept == Promise!ReadingSpec

\* The history can be paged through (docs/product/local-11-communication.md:130):
\* whoever reads to the last page has seen every row there was at the first.
HistoryComplete ==
    list = "history" /\ ~reading.more => reading.known \subseteq ToSet(reading.shown)

\* An audit reading never mixes filters: every event shown answers the filter in use.
OneFilter == \A e \in ToSet(reading.shown) : Matches(e, reading.filter)

ListingsTypeOK ==
    /\ list \in Lists
    /\ tick \in 0..LastTick
    /\ rows \cup uncommitted \subseteq [table : Tables, at : 0..LastTick, id : 1..MaxRows, topic : Topics]
    /\ reading.known \cup ToSet(reading.shown) \subseteq
         [table : Tables, at : 0..LastTick, id : 1..MaxRows, topic : Topics]
    /\ reading.more \in BOOLEAN /\ reading.filter \in Topics \cup {AllTopics}
    /\ DOMAIN reading.position = Tables

\* What a reader is shown, of the rows of the list and of no others.
ListingsSafe == [](ListingsTypeOK /\ OneFilter) /\ ReadingKept

=============================================================================
