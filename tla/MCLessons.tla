------------------------------ MODULE MCLessons ------------------------------
(***************************************************************************)
(* Instances of Makeups, Calendar and Listings.  They share no variable    *)
(* here: a behaviour is one of the component that `part` names, so that    *)
(* one run checks them all.                                                *)
(***************************************************************************)
EXTENDS Makeups, Calendar, Listings, TLC

CONSTANTS Parts, s1, s2, s3, p1, p2, c1, c2, t1, r1, fourth

VARIABLE part

lessonVars == <<makeupVars, calendarVars, listingsVars, part>>

\* A part that does not run has one initial state.
LessonsInit ==
    /\ part \in Parts /\ MakeupsInit /\ CalendarInit /\ ListingsInit
    /\ part # "lists" => list = "audit"

\* Bounds of Listings: five rows shown, one uncommitted, and no clock for the
\* list by name, whose rows are about one topic.
ShortReading ==
    /\ Len(reading.shown) <= 5 /\ Cardinality(uncommitted) <= 1
    /\ list = "roster" => tick = 0 /\ \A a, b \in rows \cup uncommitted : a.topic = b.topic

\* Bounds of Calendar: the session `fourth` comes last, and only where one was
\* moved and no other is cancelled, while both classes run, the pattern is active and
\* no date is excluded.
ShortCalendar ==
    fourth \in Kept =>
        /\ Kept = Entries
        /\ \E e \in Kept : entry[e].moved # None
        /\ running = {c1, c2} /\ excluded = {}
        /\ \A e \in Kept : entry[e].status = "CANCELLED" => entry[e].moved # None
        /\ \A p \in Patterns : pattern[p] # None /\ pattern[p].active

LessonsNext ==
    \/ part = "makeups" /\ MakeupsNext /\ UNCHANGED <<calendarVars, listingsVars, part>>
    \/ part = "calendar" /\ CalendarNext /\ ShortCalendar' /\ UNCHANGED <<makeupVars, listingsVars, part>>
    \/ part = "lists" /\ ListingsNext /\ ShortReading' /\ UNCHANGED <<makeupVars, calendarVars, part>>

LessonsSpec == LessonsInit /\ [][LessonsNext]_lessonVars

\* Makeups: a full class, a session nobody is enrolled in, and one not yet planned
\* that may replace it.
MCRoster == (s1 :> {p1, p2}) @@ (s2 :> {}) @@ (s3 :> {p1})
MCCapacity == (s1 :> 2) @@ (s2 :> 2) @@ (s3 :> 1)

\* Calendar: two dates of one weekday, two classes that share teacher and room.
MCWeekdayOf == <<"MON", "MON">>
MCBranchOf == (c1 :> "north") @@ (c2 :> "south")
MCLifecycle == (c1 :> 1..2) @@ (c2 :> 1..2)
MCOverlapping == {<<"am", "am">>, <<"pm", "pm">>}
MCPattern == [class |-> c1, teacher |-> t1, room |-> r1, day |-> "MON", slot |-> "am", dates |-> 1..2, active |-> TRUE]
MCPatternForms == {MCPattern, [MCPattern EXCEPT !.room = Nobody, !.slot = "pm", !.active = FALSE]}
MCSessionForms ==
    {[class |-> c2, teacher |-> Nobody, room |-> r1, date |-> 1, slot |-> "pm", pattern |-> None, manual |-> TRUE,
      moved |-> None, origin |-> None, status |-> "SCHEDULED"]}
MCChanges ==
    {[teacher |-> t1, room |-> r1, date |-> 2, slot |-> "am"], [teacher |-> Nobody, room |-> r1, date |-> 1, slot |-> "pm"]}
MCScopes == {[date |-> 2, branch |-> AllBranches]}

\* The topics of Listings are bookings of Makeups, so that few permutations serve all parts.
Symmetry == Permutations(Bookings) \cup Permutations(Entries \ {fourth})
=============================================================================
