-------------------------- MODULE EnrollmentHistory --------------------------
(***************************************************************************)
(* What the enrollment reports tell of the past: enrollment_events are     *)
(* stamped with the beginning of the transaction that records them, the    *)
(* enrollment's own dates are given by the caller.                         *)
(*                                                                         *)
(* A command of EnrollmentsService is one step here, at its commit (module *)
(* Enrollments has its locks and the places of the classes); it has begun  *)
(* earlier, and others may begin and commit meanwhile.                     *)
(***************************************************************************)
EXTENDS Timeline, FiniteSets, FiniteSetsExt

CONSTANTS
    Learners,    \* students
    Groups,      \* classes
    Stays      \* identities of enrollments; bounds how many are written

VARIABLES
    stay,       \* enrollments: [learner, group, status, enrolled, source]
    events       \* enrollment_events: [stay, type, to, at]

registerVars == <<timeline, stay, events>>

Serving == {"PENDING", "TRIAL", "ACTIVE", "PAUSED"}

Over == {"COMPLETED", "WITHDRAWN", "CANCELLED"}

OnRecord == DOMAIN stay

RegisterInit ==
    /\ TimelineInit
    /\ stay = << >>
    /\ events = {}

Event(e, type, to, c) == [stay |-> e, type |-> type, to |-> to, at |-> began[c]]

\* The date given by the caller, now unless it is given; bound: the first instant or now.
GivenDates == {1, clock}

\* The command of c commits: enrollments rs are written, and these events recorded.
Commit(c, rs, recorded) ==
    /\ Ends(c)
    /\ stay' = Overlaid(rs, stay)
    /\ events' = events \cup recorded

Insert(e, learner, group, status, date, source) ==
    RowOf(e, [learner |-> learner, group |-> group, status |-> status, enrolled |-> date, source |-> source])

Turned(e, status) == RowOf(e, [stay[e] EXCEPT !.status = status])

Unused == Stays \ OnRecord

\* Mutation: the index covers active enrollments only.
NotActive(learner, group) ==
    \A e \in OnRecord : ~(stay[e].learner = learner /\ stay[e].group = group /\ stay[e].status = "ACTIVE")

\* The unique index on operational enrollments of a student in a class.
Free(learner, group) ==
    \A e \in OnRecord : ~(stay[e].learner = learner /\ stay[e].group = group /\ stay[e].status \in Serving)

CreateStay(c) ==
    \E e \in Unused, l \in Learners, g \in Groups, status \in {"PENDING", "TRIAL", "ACTIVE"}, date \in GivenDates :
        /\ Free(l, g)
        /\ Commit(c, Insert(e, l, g, status, date, {}),
               {Event(e, "ENROLLED", status, c)}
               \cup (IF status = "ACTIVE" THEN {Event(e, "ACTIVATED", status, c)} ELSE {})
               \cup (IF status = "TRIAL" THEN {Event(e, "TRIAL_STARTED", status, c)} ELSE {}))

Moves ==
    {<<"PENDING", "ACTIVE", "ACTIVATED">>, <<"PENDING", "TRIAL", "TRIAL_STARTED">>, <<"PENDING", "CANCELLED", "CANCELLED">>,
     <<"TRIAL", "ACTIVE", "ACTIVATED">>, <<"TRIAL", "CANCELLED", "CANCELLED">>, <<"TRIAL", "WITHDRAWN", "WITHDRAWN">>,
     <<"ACTIVE", "PAUSED", "PAUSED">>, <<"ACTIVE", "COMPLETED", "COMPLETED">>, <<"ACTIVE", "WITHDRAWN", "WITHDRAWN">>,
     <<"PAUSED", "ACTIVE", "RESUMED">>, <<"PAUSED", "WITHDRAWN", "WITHDRAWN">>}

TransitionStay(c) ==
    \E e \in OnRecord, m \in Moves :
        /\ stay[e].status = m[1]
        /\ Commit(c, Turned(e, m[2]), {Event(e, m[3], m[2], c)})

\* Both rows record a TRANSFERRED event.
TransferStay(c) ==
    \E e \in OnRecord, f \in Unused, g \in Groups, date \in GivenDates :
        /\ stay[e].status \in Serving /\ stay[e].group # g
        /\ Free(stay[e].learner, g)
        /\ Commit(c, Overlaid(Turned(e, "WITHDRAWN"), Insert(f, stay[e].learner, g, stay[e].status, date, {e})),
               {Event(e, "TRANSFERRED", "WITHDRAWN", c), Event(f, "TRANSFERRED", stay[e].status, c)})

ReenrollStay(c) ==
    \E e \in OnRecord, f \in Unused, g \in Groups, status \in {"PENDING", "TRIAL", "ACTIVE"}, date \in GivenDates :
        /\ stay[e].status \in Over
        /\ Free(stay[e].learner, g)
        /\ Commit(c, Insert(f, stay[e].learner, g, status, date, {e}), {Event(f, "REENROLLED", status, c)})

RegisterNext ==
    \E c \in Writers :
        \/ Begins(c) /\ UNCHANGED <<stay, events>>
        \/ CreateStay(c) \/ TransitionStay(c) \/ TransferStay(c) \/ ReenrollStay(c)
        \/ Ends(c) /\ UNCHANGED <<stay, events>>

RegisterSpec == RegisterInit /\ [][RegisterNext]_registerVars

-----------------------------------------------------------------------------
(* Students and enrollments *)

EventsIn(from, to) == {v \in events : Covers(from, to, v.at)}

\* The lifecycle events of a period, counted by type.
LifecycleCounts(from, to) ==
    [type \in {v.type : v \in EventsIn(from, to)} |-> Cardinality({v \in EventsIn(from, to) : v.type = type})]

EventsOf(e, to) == {v \in events : v.stay = e /\ Until(to, v.at)}

\* statusAtSql: the latest event before the end, and without one today's status.
StatusAsOf(e, to) ==
    IF EventsOf(e, to) = {} THEN stay[e].status
    ELSE (CHOOSE v \in EventsOf(e, to) : \A w \in EventsOf(e, to) : w.at <= v.at).to

EnrolledIn(from, to) == {e \in OnRecord : Covers(from, to, stay[e].enrolled)}

\* The rows of the report; its counts by status are taken over them.
StatusRows(from, to) == [e \in EnrolledIn(from, to) |-> StatusAsOf(e, to)]

-----------------------------------------------------------------------------
(* Re-enrolment *)

\* The enrollments completed in the period, by their earliest completion.
Completions(e) == {v \in events : v.stay = e /\ v.type = "COMPLETED"}

CompletedAt(e) == Min({v.at : v \in Completions(e)})

Cohort(from, to) == {e \in OnRecord : Completions(e) # {} /\ Covers(from, to, CompletedAt(e))}

\* Mutation: a re-enrolment counts whenever it comes.
ReenrolledEver(e, to) == \E v \in events : v.type = "REENROLLED" /\ e \in stay[v.stay].source

ReenrolledBy(e, to) ==
    \E v \in events :
        /\ v.type = "REENROLLED" /\ e \in stay[v.stay].source
        /\ CompletedAt(e) <= v.at /\ Until(to, v.at)

Reenrolled(from, to) == {e \in Cohort(from, to) : ReenrolledBy(e, to)}

-----------------------------------------------------------------------------
(* Properties *)

\* Types; a student has one operational enrollment in a class, and every
\* enrollment was put on record by an event of its own.
RegisterTypeOK ==
    /\ \A e \in OnRecord :
        /\ stay[e].status \in Serving \cup Over
        /\ stay[e].source \subseteq OnRecord
        /\ \E v \in events : v.stay = e /\ v.type \in {"ENROLLED", "TRANSFERRED", "REENROLLED"}
    /\ \A e, f \in OnRecord :
        (/\ stay[e].learner = stay[f].learner /\ stay[e].group = stay[f].group
         /\ {stay[e].status, stay[f].status} \subseteq Serving) => e = f

\* The report of a period that is over is not rewritten by what is done later:
\* its lifecycle events, its re-enrolment, and the status at its end of every
\* enrollment that was on record by then, also when the command that changed it
\* waited for another that began later.
EnrollmentReportsStand ==
    [][\A from, to \in Instants : <<from, to>> \in Periods /\ Settled(to) =>
        /\ LifecycleCounts(from, to)' = LifecycleCounts(from, to)
        /\ Cohort(from, to)' = Cohort(from, to)
        /\ Reenrolled(from, to)' = Reenrolled(from, to)
        /\ \A e \in OnRecord : EventsOf(e, to) # {} => StatusAsOf(e, to)' = StatusAsOf(e, to)]_registerVars

\* Consecutive periods count what their union counts, each event and each
\* completion once; the re-enrolled of the first period stay re-enrolled in the
\* longer one.
PeriodsAddUp ==
    \A to \in Instants : \A from \in 1 .. to : \A mid \in from .. to - 1 :
        /\ EventsIn(from, to) = EventsIn(from, mid) \cup EventsIn(mid + 1, to)
        /\ EventsIn(from, mid) \cap EventsIn(mid + 1, to) = {}
        /\ Cohort(from, to) = Cohort(from, mid) \cup Cohort(mid + 1, to)
        /\ Reenrolled(from, mid) \cup Reenrolled(mid + 1, to) \subseteq Reenrolled(from, to)


\* The register and its reports, in one.
RegisterSafe == [](RegisterTypeOK /\ PeriodsAddUp) /\ EnrollmentReportsStand

\* "reconstructs historical enrollment status without using today's status as
\* historical truth": the statuses at the end of a past period stay as reported,
\* for the enrollments that were in the report.
HistoricalStatus ==
    [][\A from, to \in Instants : <<from, to>> \in Periods /\ Settled(to) =>
        \A e \in EnrolledIn(from, to) : StatusRows(from, to)'[e] = StatusRows(from, to)[e]]_registerVars

=============================================================================
