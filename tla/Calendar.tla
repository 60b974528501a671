------------------------------ MODULE Calendar ------------------------------
(***************************************************************************)
(* SchedulesService: the weekly patterns of classes, the dates excluded    *)
(* from them, and the dated sessions generated from them or entered by     *)
(* hand, which may then be edited, moved, cancelled or completed.          *)
(*                                                                         *)
(* Every command, AttendanceService.create included, first takes the       *)
(* tenant's advisory lock and keeps it to its commit, so each is one step. *)
(* A time is a slot; two slots overlap as their half-open intervals do.    *)
(* Rosters, bookings and messages of a session are in Makeups and          *)
(* Delivery; which teachers, rooms and branches exist, are enabled and     *)
(* belong together is data: what they rule out is a refusal.               *)
(***************************************************************************)
EXTENDS Naturals, FiniteSets

CONSTANTS
    Patterns, Entries,   \* identities of patterns and of sessions; Entries bounds their number
    Dates,               \* an interval of naturals
    WeekdayOf, BranchOf, \* of a date; of a class
    Lifecycle,           \* the dates between a class's start and expected end
    Overlapping,         \* pairs of slots
    PatternForms,        \* what staff enter as patterns
    SessionForms,        \* ... and as sessions of their own
    Changes,             \* the times and resources they give a session
    Scopes,              \* what they exclude: a date, in one branch or all
    AllBranches, Nobody, None

Slots == {pair[1] : pair \in Overlapping}

Rows == PatternForms \cup SessionForms \cup Changes
Teachers == {x.teacher : x \in Rows}
Rooms == {x.room : x \in Rows}

\* dates: effective_from to effective_until; an inactive pattern is DISABLED.
Pattern ==
    [class : DOMAIN BranchOf, teacher : Teachers, room : Rooms, day : {WeekdayOf[d] : d \in Dates},
     slot : Slots, dates : SUBSET Dates, active : BOOLEAN]

Operational == {"SCHEDULED", "COMPLETED"}

\* moved is rescheduled_from_id, origin source_session_date.
Session ==
    [class : DOMAIN BranchOf, teacher : Teachers, room : Rooms, date : Dates, slot : Slots,
     pattern : Patterns \cup {None}, manual : BOOLEAN, moved : Entries \cup {None}, origin : Dates \cup {None},
     status : Operational \cup {"CANCELLED", "RESCHEDULED"}]

\* A session staff enter is their own, scheduled, and moved from nowhere.
ASSUME CalendarAssumption ==
    /\ Overlapping \subseteq Slots \X Slots
    /\ \A x, y \in Slots : <<x, x>> \in Overlapping /\ (<<x, y>> \in Overlapping => <<y, x>> \in Overlapping)
    /\ PatternForms \subseteq Pattern
    /\ SessionForms \subseteq {s \in Session : s.manual /\ s.moved = None /\ s.status = "SCHEDULED"}
    /\ Changes \subseteq [teacher : Teachers, room : Rooms, date : Dates, slot : Slots]
    /\ None \notin Patterns \cup Entries \cup Dates \cup Pattern \cup Session

VARIABLES
    pattern,    \* schedules
    excluded,   \* schedule_exclusions
    entry,      \* attendance_sessions
    running     \* the classes that are ACTIVE

calendarVars == <<pattern, excluded, entry, running>>

-----------------------------------------------------------------------------
(* Conflicts *)

Kept == {e \in Entries : entry[e] # None}

\* The two need one class, teacher or room.
Compete(x, y) ==
    \/ x.class = y.class
    \/ x.teacher # Nobody /\ x.teacher = y.teacher
    \/ x.room # Nobody /\ x.room = y.room

Clash(x, y) == x.date = y.date /\ <<x.slot, y.slot>> \in Overlapping /\ Compete(x, y)

\* Mutation: a room is free to be shared.
RoomsIgnored(x, others) ==
    \E e \in others : entry[e].status \in Operational /\ x.date = entry[e].date
        /\ <<x.slot, entry[e].slot>> \in Overlapping /\ Compete([x EXCEPT !.room = Nobody], entry[e])

\* sessionConflict and assertNoSessionConflict; moving a session ignores itself.
Conflicts(x, others) == \E e \in others : entry[e].status \in Operational /\ Clash(x, entry[e])

\* ensureNoConflict: patterns of one class or teacher, whatever their dates.
PatternConflict(f, others) ==
    f.active /\ \E p \in others : pattern[p] # None /\ pattern[p].active
        /\ pattern[p].day = f.day /\ <<pattern[p].slot, f.slot>> \in Overlapping
        /\ (pattern[p].class = f.class \/ pattern[p].teacher = f.teacher)

Excluded(d, c) == \E x \in excluded : x.date = d /\ x.branch \in {AllBranches, BranchOf[c]}

-----------------------------------------------------------------------------
(* Patterns, exclusions, classes *)

CalendarInit ==
    /\ pattern = [p \in Patterns |-> None]
    /\ excluded = {}
    /\ entry = [e \in Entries |-> None]
    /\ running = DOMAIN BranchOf

CreatePattern(p, f) ==
    /\ pattern[p] = None
    /\ ~PatternConflict(f, Patterns)
    /\ f.dates \cap Lifecycle[f.class] # {}
    /\ pattern' = [pattern EXCEPT ![p] = f]
    /\ UNCHANGED <<excluded, entry, running>>

\* A pattern keeps its class; anything else may change, also its status.
UpdatePattern(p, f) ==
    /\ pattern[p] # None
    /\ f.class = pattern[p].class
    /\ ~PatternConflict(f, Patterns \ {p})
    /\ f.dates \cap Lifecycle[f.class] # {}
    /\ pattern' = [pattern EXCEPT ![p] = f]
    /\ UNCHANGED <<excluded, entry, running>>

CreateExclusion(x) ==
    /\ x \notin excluded
    /\ excluded' = excluded \cup {x}
    /\ UNCHANGED <<pattern, entry, running>>

UpdateExclusion(x, y) ==
    /\ x \in excluded
    /\ y \notin excluded \ {x}
    /\ excluded' = (excluded \ {x}) \cup {y}
    /\ UNCHANGED <<pattern, entry, running>>

DeleteExclusion(x) ==
    /\ x \in excluded
    /\ excluded' = excluded \ {x}
    /\ UNCHANGED <<pattern, entry, running>>

\* ClassesService: the class is completed or disabled, or active again.
EndClass(c) == running' = running \ {c} /\ UNCHANGED <<pattern, excluded, entry>>

-----------------------------------------------------------------------------
(* Sessions *)

Occurrence(p, d) ==
    [class |-> pattern[p].class, teacher |-> pattern[p].teacher, room |-> pattern[p].room, date |-> d,
     slot |-> pattern[p].slot, pattern |-> p, manual |-> FALSE, moved |-> None, origin |-> None,
     status |-> "SCHEDULED"]

\* The dates in range on which pattern p is due.
DueDates(p, range) ==
    {d \in range \cap pattern[p].dates \cap Lifecycle[pattern[p].class] : WeekdayOf[d] = pattern[p].day}

\* Mutation: a cancelled or completed session does not stand for its date.
StillScheduled(p, d) ==
    \E e \in Kept : entry[e].pattern = p /\ entry[e].status = "SCHEDULED"
        /\ ~entry[e].manual /\ entry[e].date = d /\ entry[e].slot = pattern[p].slot

\* A session that stands for p at d, as generated or where staff have put it.
Generated(p, d) ==
    \E e \in Kept : entry[e].pattern = p /\ entry[e].moved = None
        /\ ~entry[e].manual /\ entry[e].date = d /\ entry[e].slot = pattern[p].slot

\* Mutation: an edited session stands for the date it was moved to only.
OverriddenHere(p, d) ==
    \E e \in Kept : entry[e].pattern = p /\ entry[e].moved = None /\ entry[e].manual /\ entry[e].date = d

Overridden(p, d) ==
    \E e \in Kept : entry[e].pattern = p /\ entry[e].moved = None
        /\ entry[e].manual /\ d \in {entry[e].date, entry[e].origin}

\* The occurrences generation still has to insert, each a pattern and a date.
Missing(c, range) ==
    {o \in Patterns \X range :
        /\ pattern[o[1]] # None /\ pattern[o[1]].active /\ pattern[o[1]].class = c
        /\ o[2] \in DueDates(o[1], range)
        /\ ~Generated(o[1], o[2]) /\ ~Overridden(o[1], o[2]) /\ ~Excluded(o[2], c)}

\* A session of the same pattern, date and time: its conflict is not an error.
SamePattern(p, d) ==
    \E e \in Kept : entry[e].pattern = p /\ entry[e].date = d /\ entry[e].slot = pattern[p].slot

\* All missing occurrences of the range, or none if one of them conflicts.
Generate(c, range) ==
    /\ c \in running
    /\ \A o \in Missing(c, range) : Conflicts(Occurrence(o[1], o[2]), Kept) => SamePattern(o[1], o[2])
    /\ \E row \in [Missing(c, range) -> Entries \ Kept] :
        /\ \A o, u \in Missing(c, range) : row[o] = row[u] => o = u
        /\ entry' = [e \in Entries |->
                        IF \E o \in Missing(c, range) : row[o] = e
                        THEN LET o == CHOOSE o \in Missing(c, range) : row[o] = e IN Occurrence(o[1], o[2])
                        ELSE entry[e]]
    /\ UNCHANGED <<pattern, excluded, running>>

\* AttendanceService.create: one session, of a pattern or with a time of its own.
CreateEntry(e, f) ==
    /\ entry[e] = None
    /\ f.class \in running
    /\ f.date \in Lifecycle[f.class]
    /\ ~Conflicts(f, Kept)
    /\ entry' = [entry EXCEPT ![e] = f]
    /\ UNCHANGED <<pattern, excluded, running>>

CreateFromPattern(e, p, d) ==
    /\ pattern[p] # None
    /\ pattern[p].active
    /\ d \in DueDates(p, Dates)
    /\ ~Excluded(d, pattern[p].class)
    /\ CreateEntry(e, [Occurrence(p, d) EXCEPT !.manual = TRUE])

UpdateSession(e, f) ==
    /\ e \in Kept
    /\ entry[e].status = "SCHEDULED"
    /\ LET new == [entry[e] EXCEPT !.teacher = f.teacher, !.room = f.room, !.date = f.date, !.slot = f.slot,
                                   !.manual = TRUE, !.origin = IF @ = None THEN entry[e].date ELSE @]
       IN /\ ~Conflicts(new, Kept \ {e})
          /\ entry' = [entry EXCEPT ![e] = new]
    /\ UNCHANGED <<pattern, excluded, running>>

\* Mutation: the replacement does not say when it was due.
DueWherePut(e, f) == [entry[e] EXCEPT !.date = f.date, !.slot = f.slot, !.manual = TRUE, !.moved = e]

Replacement(e, f) ==
    [entry[e] EXCEPT !.date = f.date, !.slot = f.slot, !.manual = TRUE, !.moved = e, !.origin = entry[e].date]

\* Mutation: the replaced session keeps its place in the calendar.
LeftInPlace(s) == s

Replaced(s) == [s EXCEPT !.status = "RESCHEDULED"]

Reschedule(e, r, f) ==
    /\ e \in Kept
    /\ entry[e].status = "SCHEDULED"
    /\ entry[r] = None
    /\ ~Conflicts(Replacement(e, f), Kept \ {e})
    /\ entry' = [entry EXCEPT ![r] = Replacement(e, f), ![e] = Replaced(@)]
    /\ UNCHANGED <<pattern, excluded, running>>

\* Cancelled, or completed when its attendance is finalised.
ChangeSessionStatus(e, status) ==
    /\ e \in Kept
    /\ entry[e].status = "SCHEDULED"
    /\ entry' = [entry EXCEPT ![e].status = status]
    /\ UNCHANGED <<pattern, excluded, running>>

CalendarNext ==
    \/ \E p \in Patterns, f \in PatternForms : CreatePattern(p, f) \/ UpdatePattern(p, f)
    \/ \E x \in Scopes : CreateExclusion(x) \/ DeleteExclusion(x) \/ \E y \in Scopes : UpdateExclusion(x, y)
    \/ \E c \in running : EndClass(c)
    \/ \E c \in running, first, last \in Dates : Generate(c, first..last)
    \/ \E e \in Entries :
        \/ \E f \in SessionForms : CreateEntry(e, f)
        \/ \E p \in Patterns, d \in Dates : CreateFromPattern(e, p, d)
        \/ \E f \in Changes : UpdateSession(e, f) \/ \E r \in Entries : Reschedule(e, r, f)
        \/ \E status \in {"CANCELLED", "COMPLETED"} : ChangeSessionStatus(e, status)

CalendarSpec == CalendarInit /\ [][CalendarNext]_calendarVars

-----------------------------------------------------------------------------
(* Reports *)

\* classUtilizationReport: the sessions of class c in range, by status.
SessionsOf(c, range, status) ==
    {e \in Kept : entry[e].class = c /\ entry[e].date \in range /\ entry[e].status = status}

\* teacherWorkloadReport: the sessions that count as taught by t.
Taught(t, range) ==
    {e \in Kept : entry[e].teacher = t /\ entry[e].date \in range /\ entry[e].status = "COMPLETED"}

-----------------------------------------------------------------------------
(* Properties *)

\* Every row is one the schema allows.
CalendarTypeOK ==
    /\ pattern \in [Patterns -> Pattern \cup {None}]
    /\ excluded \subseteq Scopes
    /\ running \subseteq DOMAIN BranchOf
    /\ entry \in [Entries -> Session \cup {None}]
    /\ \A e \in Kept : entry[e].moved # None => entry[e].origin # None /\ entry[e].moved \in Kept \ {e}

\* No class, teacher or room is booked twice at one time.
NoDoubleBooking ==
    \A e, u \in Kept : e # u /\ Clash(entry[e], entry[u])
        => ~(entry[e].status \in Operational /\ entry[u].status \in Operational)

\* The same but for the one way generation books twice.  It overlooks every
\* conflict at a date and time where it finds a session of its pattern, and finds
\* one there that was moved in, cancelled or moved on since (schedules.service.ts:697).
NoDoubleBookingUnlessMoved ==
    \A e, u \in Kept :
        /\ e # u
        /\ Clash(entry[e], entry[u])
        /\ entry[e].status \in Operational
        /\ entry[u].status \in Operational
        => \E x \in {e, u} : ~entry[x].manual
            /\ \E r \in Kept : entry[r].moved # None /\ entry[r].pattern = entry[x].pattern

\* The half of the index attendance_sessions_generated_occurrence_key the code
\* relies on: a pattern has one generated session at a date and time.
GeneratedOnce ==
    \A e, u \in Kept :
        (/\ ~entry[e].manual /\ ~entry[u].manual /\ entry[e].pattern = entry[u].pattern
         /\ entry[e].date = entry[u].date /\ entry[e].slot = entry[u].slot) => e = u

\* A moved session is replaced by exactly one other, any other by none.
ReplacedOnce ==
    \A e \in Kept :
        Cardinality({r \in Kept : entry[r].moved = e}) = IF entry[e].status = "RESCHEDULED" THEN 1 ELSE 0

\* Generation inserts only what is due, and never overrules staff: an occurrence
\* they have edited or moved is not generated again, at its old date or its new
\* one, and no session there is changed while others are generated.
Respectful ==
    \A e \in Kept' \ Kept : ~entry'[e].manual =>
        /\ \A u \in Kept : entry'[u] = entry[u]
        /\ \A u \in Kept :
            (entry[u].pattern = entry'[e].pattern /\ entry[u].manual /\ entry[u].moved = None)
                => entry'[e].date \notin {entry[u].date, entry[u].origin}

GenerationRespectsEdits == [][Respectful]_calendarVars

\* What the reports of a date have said stands: a session completed, cancelled or
\* moved stays its class's, and a lesson taught its teacher's, whatever becomes of
\* the pattern, the class or the sessions that replace it.
Standing ==
    \A d \in {entry[e].date : e \in Kept} :
        /\ \A t \in Teachers : Taught(t, {d}) \subseteq Taught(t, {d})'
        /\ \A c \in DOMAIN BranchOf, status \in {"COMPLETED", "CANCELLED", "RESCHEDULED"} :
              SessionsOf(c, {d}, status) \subseteq SessionsOf(c, {d}, status)'

ReportedStands == [][Standing]_entry

\* What generation, editing, moving and reporting keep, in one.
CalendarSafe ==
    /\ [](CalendarTypeOK /\ NoDoubleBookingUnlessMoved /\ GeneratedOnce /\ ReplacedOnce)
    /\ GenerationRespectsEdits
    /\ ReportedStands

=============================================================================
