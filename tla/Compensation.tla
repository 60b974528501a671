---------------------------- MODULE Compensation ----------------------------
(***************************************************************************)
(* CompensationService and the triggers of its tables: what teachers are   *)
(* owed.  Agreements set a rate for a teacher, for one class or for all;   *)
(* a period is generated from the work completed in it, corrected by       *)
(* adjustments, and finalised, after which it may not change.              *)
(*                                                                         *)
(* Every command but createPeriod takes the tenant's compensation lock for *)
(* its whole transaction; createPeriod is one statement.  Sessions and     *)
(* classes are completed by other components without that lock, at any     *)
(* time, and do not change afterwards.  finalize, which reads them in one  *)
(* statement and acts in a later one, is in steps; every other command is  *)
(* one.  Audit rows, names and texts are left out.                         *)
(***************************************************************************)
EXTENDS Integers, FiniteSets, FiniteSetsExt

CONSTANTS
    Lessons, LessonOf,    \* the sessions, each [teacher, class, date, minutes]
    PaidClasses, Closing, \* the classes, and the day each may be completed on
    Agreements,           \* identities of agreements; bounds their number
    AgreementForms,       \* [teacher, class, basis, rate, from, until]
    Periods,              \* [first, last]: a period is unique by its dates
    Adjustments, Amounts, \* identities and amounts of adjustments
    EveryClass, NoTeacher, Open, Unset

Staff ==
    ({f.teacher : f \in AgreementForms} \cup {LessonOf[l].teacher : l \in Lessons}) \ {NoTeacher}

\* The rows of compensation_agreements and compensation_adjustments.
AgreementRow ==
    [teacher : Staff, class : PaidClasses \cup {EveryClass},
     basis : {"PER_SESSION", "PER_HOUR", "FIXED_CLASS"}, rate : Nat \ {0},
     from : Int, until : Int \cup {Open}]
AdjustmentRow == [period : Periods, teacher : Staff, amount : Amounts]

ASSUME CompensationAssumption ==
    /\ IsFiniteSet(Lessons) /\ IsFiniteSet(Adjustments)
    /\ EveryClass \notin PaidClasses /\ Open \notin Int
    /\ \A l \in Lessons :
        LessonOf[l].class \in PaidClasses /\ LessonOf[l].date \in Int /\ LessonOf[l].minutes \in Nat \ {0}
    /\ \A p \in Periods : p.first \in Int /\ p.last \in Int
    /\ Amounts \subseteq Int \ {0}
    /\ AgreementForms \subseteq AgreementRow
    /\ \A f \in AgreementForms :
        /\ f.basis = "FIXED_CLASS" => f.class # EveryClass
        /\ f.until # Open => f.from <= f.until
    /\ Unset \notin Agreements /\ Unset \notin AgreementRow /\ Unset \notin AdjustmentRow

VARIABLES
    held,        \* the sessions that are COMPLETED
    closed,      \* the classes that are COMPLETED (completed_on)
    agreement,   \* compensation_agreements; ENDED when until is not Open
    period,      \* compensation_periods: NONE, DRAFT, GENERATED (a draft) or FINALIZED
    item,        \* compensation_items, by period
    unresolved,  \* unresolved_compensation, by period
    adjustment,  \* compensation_adjustments
    statement,   \* teacher_compensation_statements: by period, the stored totals of its teachers
    finalizing   \* the finalize that has the compensation lock, if any: its period, the
                 \* sessions its check of items has seen, and whether all checks have passed

compensationVars == <<held, closed, agreement, period, item, unresolved, adjustment, statement, finalizing>>

CompensationInit ==
    /\ held = {}
    /\ closed = {}
    /\ agreement = [a \in Agreements |-> Unset]
    /\ period = [p \in Periods |-> "NONE"]
    /\ item = [p \in Periods |-> {}]
    /\ unresolved = [p \in Periods |-> {}]
    /\ adjustment = [i \in Adjustments |-> Unset]
    /\ statement = [p \in Periods |-> [t \in {} |-> Unset]]
    /\ finalizing = {}

\* pg_advisory_xact_lock: no finalize is between its steps.
LockFree == finalizing = {}

-----------------------------------------------------------------------------
(* Work and agreements *)

CompleteLesson(l) ==
    /\ l \notin held
    /\ held' = held \cup {l}
    /\ UNCHANGED <<closed, agreement, period, item, unresolved, adjustment, statement, finalizing>>

CompletePaidClass(c) ==
    /\ c \notin closed
    /\ closed' = closed \cup {c}
    /\ UNCHANGED <<held, agreement, period, item, unresolved, adjustment, statement, finalizing>>

Made == {a \in Agreements : agreement[a] # Unset}

Until(f, d) == f.until # Open => d <= f.until

Covers(f, d) == f.from <= d /\ Until(f, d)

\* Trigger prevent_compensation_agreement_overlap.
Overlaps(f, others) ==
    \E a \in others :
        /\ agreement[a].teacher = f.teacher
        /\ agreement[a].class = f.class
        /\ Until(agreement[a], f.from)
        /\ Until(f, agreement[a].from)

CreateAgreement(a, f) ==
    /\ LockFree
    /\ agreement[a] = Unset
    /\ ~Overlaps(f, Made)
    /\ agreement' = [agreement EXCEPT ![a] = f]
    /\ UNCHANGED <<held, closed, period, item, unresolved, adjustment, statement, finalizing>>

\* Mutation: an agreement may be ended again, later.
EvenEnded(a) == TRUE

StillOpen(a) == agreement[a].until = Open

EndAgreement(a, d) ==
    /\ LockFree
    /\ a \in Made
    /\ StillOpen(a)
    /\ d >= agreement[a].from
    /\ agreement' = [agreement EXCEPT ![a].until = d]
    /\ UNCHANGED <<held, closed, period, item, unresolved, adjustment, statement, finalizing>>

\* The old agreement ends the day before the new one starts, also if it had
\* ended earlier.
ReplaceAgreement(a, b, f) ==
    /\ LockFree
    /\ a \in Made
    /\ agreement[b] = Unset
    /\ f.teacher = agreement[a].teacher /\ f.class = agreement[a].class /\ f.basis = agreement[a].basis
    /\ f.from > agreement[a].from
    /\ LET ended == [agreement[a] EXCEPT !.until = f.from - 1] IN
        /\ ~Overlaps(ended, Made \ {a})
        /\ ~Overlaps(f, Made \ {a})
        /\ agreement' = [agreement EXCEPT ![a] = ended, ![b] = f]
    /\ UNCHANGED <<held, closed, period, item, unresolved, adjustment, statement, finalizing>>

-----------------------------------------------------------------------------
(* The payable work of a period, as generate finds it *)

CreatePeriod(p) ==
    /\ period[p] = "NONE"
    /\ period' = [period EXCEPT ![p] = "DRAFT"]
    /\ UNCHANGED <<held, closed, agreement, item, unresolved, adjustment, statement, finalizing>>

Within(p, d) == p.first <= d /\ d <= p.last

Done(p) == {l \in held : Within(p, LessonOf[l].date)}

\* The agreements read for the period.
Loaded(p) == {a \in Made : agreement[a].from <= p.last /\ Until(agreement[a], p.first)}

\* Mutation: the default agreement is found before the one of the class.
DefaultFirst(a, b) ==
    agreement[a].class # agreement[b].class /\ agreement[b].class = EveryClass

\* ORDER BY class_id NULLS LAST, effective_from DESC: a comes after b.
After(a, b) ==
    \/ agreement[a].class = EveryClass /\ agreement[b].class # EveryClass
    \/ agreement[a].class = agreement[b].class /\ agreement[a].from < agreement[b].from

\* Mutation: an agreement of the period is taken for any day of it.
AppliesAnyDay(a, w) == agreement[a].teacher = w.teacher /\ agreement[a].class \in {w.class, EveryClass}

Applies(a, w) ==
    agreement[a].teacher = w.teacher /\ agreement[a].class \in {w.class, EveryClass} /\ Covers(agreement[a], w.date)

\* The first agreement in that order that applies to the session, if any.
Found(l, p) ==
    LET usable == {a \in Loaded(p) : Applies(a, LessonOf[l])}
    IN {a \in usable : \A b \in usable : ~After(a, b)}

\* calculateAmount: VND, hours rounded half up.
Amount(f, minutes) == IF f.basis = "PER_HOUR" THEN (f.rate * minutes + 30) \div 60 ELSE f.rate

SessionItem(l, a) ==
    [kind |-> "SESSION", source |-> l, teacher |-> LessonOf[l].teacher, agreement |-> a,
     amount |-> Amount(agreement[a], LessonOf[l].minutes)]

\* The item of a session, unless its agreement is for the whole class.
SessionItems(l, found) ==
    {SessionItem(l, a) : a \in {a \in found : agreement[a].basis # "FIXED_CLASS"}}

DueItems(p) == UNION {SessionItems(l, Found(l, p)) : l \in Done(p)}

DueUnresolved(p) == {l \in Done(p) : Found(l, p) = {}}

\* The fixed agreements whose class was completed in the period.
FixedDue(p) ==
    {a \in Loaded(p) : agreement[a].basis = "FIXED_CLASS" /\ agreement[a].class \in closed
        /\ Within(p, Closing[agreement[a].class])}

\* The item of a fixed agreement: its row has an id but no agreementId, and
\* names none.
FixedItem(a) ==
    [kind |-> "FIXED_CLASS", source |-> agreement[a].class, teacher |-> agreement[a].teacher,
     agreement |-> Unset, amount |-> agreement[a].rate]

\* Trigger validate_compensation_item_source: the agreement exists, is the
\* teacher's, and covers the day of work.
SourceValid(i) ==
    /\ i.agreement # Unset
    /\ agreement[i.agreement].teacher = i.teacher
    /\ Covers(agreement[i.agreement], IF i.kind = "SESSION" THEN LessonOf[i.source].date ELSE Closing[i.source])

-----------------------------------------------------------------------------
(* Periods *)

\* Mutation: finalised periods are open to change.
AnyStatus(p) == period[p] # "NONE"

\* The guard of each command, and of the triggers prevent_finalized_*.
Draft(p) == period[p] \in {"DRAFT", "GENERATED"}

Items(p, t, items) == {i \in items : i.teacher = t}

Sum(f, S) == MapThenSumSet(LAMBDA x : f[x], S)

Earned(items) == Sum([i \in items |-> i.amount], items)

Adjusting(p, t, adjustments) == {i \in Adjustments : adjustments[i] # Unset
                                    /\ adjustments[i].period = p /\ adjustments[i].teacher = t}

Adjusted(p, t, adjustments) ==
    Sum([i \in Adjusting(p, t, adjustments) |-> adjustments[i].amount], Adjusting(p, t, adjustments))

Stated(p) == DOMAIN statement[p]

\* Mutation: the totals are those of the time the statement was created.
Remembered(p, items, adjustments, kept) ==
    [t \in kept |-> IF t \in Stated(p) THEN statement[p][t]
                    ELSE [earnings |-> Earned(Items(p, t, items)), adjustments |-> Adjusted(p, t, adjustments)]]

\* recompute, for the statements kept.
Totals(p, items, adjustments, kept) ==
    [t \in kept |->
        [earnings |-> Earned(Items(p, t, items)), adjustments |-> Adjusted(p, t, adjustments)]]

\* Mutation: a session claimed by another period is claimed again.
NeverClaimed(l, p) == FALSE

\* compensation_items_one_session_source_key, unresolved_compensation_session_key
\* and the source claim triggers.
ClaimedElsewhere(l, p) ==
    \E q \in Periods \ {p} : l \in unresolved[q] \/ \E i \in item[q] : i.source = l

\* Mutation: a statement without items is deleted, adjusted or not.
Earning(p, due) == {t \in Staff : Items(p, t, due) # {}}

\* The statements that generation keeps or creates.
Needed(p, due) == {t \in Staff : Items(p, t, due) # {} \/ Adjusting(p, t, adjustment) # {}}

Due(p) == DueItems(p) \cup {FixedItem(a) : a \in FixedDue(p)}

\* What the indexes, triggers and CHECK (amount_vnd > 0) ask of the new items and
\* unresolved work.
GenerationAccepted(p) ==
    /\ \A l \in DueUnresolved(p) \cup {i.source : i \in DueItems(p)} : ~ClaimedElsewhere(l, p)
    /\ \A i \in Due(p) : SourceValid(i) /\ i.amount > 0

GeneratePeriod(p) ==
    /\ LockFree
    /\ Draft(p)
    /\ GenerationAccepted(p)
    /\ LET due == Due(p) IN
        /\ item' = [item EXCEPT ![p] = due]
        /\ statement' = [statement EXCEPT ![p] = Totals(p, due, adjustment, Needed(p, due))]
    /\ unresolved' = [unresolved EXCEPT ![p] = DueUnresolved(p)]
    /\ period' = [period EXCEPT ![p] = "GENERATED"]
    /\ UNCHANGED <<held, closed, agreement, adjustment, finalizing>>

AddAdjustment(p, i, t, amount) ==
    /\ LockFree
    /\ Draft(p)
    /\ adjustment[i] = Unset
    /\ adjustment' = [adjustment EXCEPT ![i] = [period |-> p, teacher |-> t, amount |-> amount]]
    /\ statement' = [statement EXCEPT ![p] = Totals(p, item[p], adjustment', Stated(p) \cup {t})]
    /\ UNCHANGED <<held, closed, agreement, period, item, unresolved, finalizing>>

RemoveAdjustment(i) ==
    /\ LockFree
    /\ adjustment[i] # Unset
    /\ LET p == adjustment[i].period IN
        /\ Draft(p)
        /\ adjustment' = [adjustment EXCEPT ![i] = Unset]
        /\ statement' = [statement EXCEPT ![p] = Totals(p, item[p], adjustment', Stated(p))]
    /\ UNCHANGED <<held, closed, agreement, period, item, unresolved, finalizing>>

-----------------------------------------------------------------------------
(* Finalisation checks the draft against a second reading, in SQL *)

\* Of the agreements of all times, the class's own or else the default one.
Canonical(l) ==
    LET w == LessonOf[l]
        for(c) == {a \in Made : agreement[a].teacher = w.teacher /\ agreement[a].class = c
                                  /\ Covers(agreement[a], w.date)}
    IN IF for(w.class) # {} THEN for(w.class) ELSE for(EveryClass)

ExpectedItems(p) == UNION {SessionItems(l, Canonical(l)) : l \in Done(p)}

ExpectedUnresolved(p) == {l \in Done(p) : LessonOf[l].teacher = NoTeacher \/ Canonical(l) = {}}

ExpectedFixed(p) ==
    {a \in Made : agreement[a].basis = "FIXED_CLASS" /\ agreement[a].class \in closed
        /\ Within(p, Closing[agreement[a].class]) /\ Covers(agreement[a], Closing[agreement[a].class])}

-----------------------------------------------------------------------------
(* finalize and assertDraftCanonical, statement by statement *)

\* Mutation: the items of the draft are taken as they are.
Unchecked(p) == TRUE

ItemsCanonical(p) == {i \in item[p] : i.kind = "SESSION"} = ExpectedItems(p)

\* The period is locked, nothing of it is unresolved, and its items are those of the
\* sessions that are completed by now.
BeginFinalize(p) ==
    /\ LockFree
    /\ period[p] = "GENERATED"
    /\ unresolved[p] = {}
    /\ ItemsCanonical(p)
    /\ finalizing' = {[period |-> p, seen |-> held, checked |-> FALSE]}
    /\ UNCHANGED <<held, closed, agreement, period, item, unresolved, adjustment, statement>>

\* The later statements: the unresolved work is read again, and the classes; no
\* total is negative.
CheckRest(f) ==
    /\ ~f.checked
    /\ unresolved[f.period] = ExpectedUnresolved(f.period)
    /\ {i.agreement : i \in {j \in item[f.period] : j.kind = "FIXED_CLASS"}} = ExpectedFixed(f.period)
    /\ \A t \in Stated(f.period) :
        statement[f.period][t].earnings + statement[f.period][t].adjustments >= 0
    /\ finalizing' = {[f EXCEPT !.checked = TRUE]}
    /\ UNCHANGED <<held, closed, agreement, period, item, unresolved, adjustment, statement>>

\* The UPDATE, and COMMIT.
FinalizePeriod(f) ==
    /\ f.checked
    /\ period' = [period EXCEPT ![f.period] = "FINALIZED"]
    /\ finalizing' = {}
    /\ UNCHANGED <<held, closed, agreement, item, unresolved, adjustment, statement>>

\* A check or a statement fails: ROLLBACK.
AbandonFinalize ==
    /\ finalizing # {}
    /\ finalizing' = {}
    /\ UNCHANGED <<held, closed, agreement, period, item, unresolved, adjustment, statement>>

\* Staff end agreements on the first days of periods.
AgreementStep(a) ==
    \/ \E f \in AgreementForms : CreateAgreement(a, f) \/ \E b \in Agreements : ReplaceAgreement(a, b, f)
    \/ \E p \in Periods : EndAgreement(a, p.first)

PeriodStep(p) ==
    \/ CreatePeriod(p) \/ GeneratePeriod(p) \/ BeginFinalize(p)
    \/ \E i \in Adjustments, t \in Staff, amount \in Amounts : AddAdjustment(p, i, t, amount)

CompensationNext ==
    \/ \E l \in Lessons : CompleteLesson(l)
    \/ \E c \in PaidClasses : CompletePaidClass(c)
    \/ \E a \in Agreements : AgreementStep(a)
    \/ \E p \in Periods : PeriodStep(p)
    \/ \E i \in Adjustments : RemoveAdjustment(i)
    \/ (\E f \in finalizing : CheckRest(f) \/ FinalizePeriod(f)) \/ AbandonFinalize

CompensationSpec == CompensationInit /\ [][CompensationNext]_compensationVars

-----------------------------------------------------------------------------
(* Properties *)

\* Every row is one the schema allows: agreements of one teacher and scope do
\* not overlap, and items and adjustments have their statement.
CompensationTypeOK ==
    /\ held \subseteq Lessons
    /\ closed \subseteq PaidClasses
    /\ agreement \in [Agreements -> AgreementRow \cup {Unset}]
    /\ \A a \in Made : agreement[a].until # Open => agreement[a].from <= agreement[a].until
    /\ \A a \in Made : ~Overlaps(agreement[a], Made \ {a})
    /\ period \in [Periods -> {"NONE", "DRAFT", "GENERATED", "FINALIZED"}]
    /\ \A p \in Periods : unresolved[p] \subseteq held
    /\ \A p \in Periods : \A i \in item[p] : i.agreement \in Made /\ i.teacher \in Stated(p)
    /\ \A i \in Adjustments : adjustment[i] # Unset => adjustment[i].teacher \in Stated(adjustment[i].period)

\* A completed session is claimed once, over all periods, overlapping ones
\* included: as payable work or as unresolved work.
ClaimedOnce ==
    \A l \in Lessons :
        /\ Cardinality({p \in Periods : l \in unresolved[p]}
                       \cup {p \in Periods : \E i \in item[p] : i.source = l}) <= 1
        /\ \A p \in Periods : Cardinality({i \in item[p] : i.source = l}) <= 1
        /\ \A p \in Periods : l \in unresolved[p] => \A i \in item[p] : i.source # l

\* The stored totals of a statement are those of its items and adjustments,
\* and a finalised one is not negative.
StatementsAddUp ==
    \A p \in Periods : \A t \in Stated(p) :
        /\ statement[p][t].earnings = Earned(Items(p, t, item[p]))
        /\ statement[p][t].adjustments = Adjusted(p, t, adjustment)
        /\ period[p] = "FINALIZED" => statement[p][t].earnings + statement[p][t].adjustments >= 0

\* What generate finds in TypeScript is what the check of finalize finds in
\* SQL: a draft just generated is never refused as stale.
GenerationMeetsCheck ==
    \A p \in Periods :
        /\ DueItems(p) = ExpectedItems(p)
        /\ DueUnresolved(p) = ExpectedUnresolved(p)

\* calculateAmount rounds it to nothing.
RoundsToNothing(f, minutes) == f.basis = "PER_HOUR" /\ f.rate * minutes < 30

\* No other period has claimed the work of p, and each session is worth something.
Payable(p) ==
    \A l \in Done(p) :
        /\ ~ClaimedElsewhere(l, p)
        /\ \A a \in Found(l, p) : ~RoundsToNothing(agreement[a], LessonOf[l].minutes)

\* A draft can be generated unless another period has claimed its work; or a session's
\* hourly amount is under half a dong: it rounds to 0, which the CHECK of the items
\* refuses; or a class with a fixed agreement was completed in it: that item names no
\* agreement (compensation.service.ts:126) and the trigger refuses it.
GeneratesUnlessFixed ==
    \A p \in Periods : (Draft(p) /\ FixedDue(p) = {} /\ Payable(p)) => GenerationAccepted(p)

\* "A completed Class is eligible for FIXED_CLASS compensation": the draft of a
\* period in which one was completed can be generated.
FixedClassesGenerate ==
    \A p \in Periods : (Draft(p) /\ ExpectedFixed(p) # {} /\ Payable(p)) => GenerationAccepted(p)

\* What the tables of pay hold at any moment, in one.
CompensationSafe ==
    CompensationTypeOK /\ ClaimedOnce /\ StatementsAddUp /\ GenerationMeetsCheck /\ GeneratesUnlessFixed

\* The session is paid in the period, by a covering agreement, or its agreement is
\* for the whole class.
PaidFor(l, p) ==
    \/ \E i \in item[p] : i.source = l /\ Covers(agreement[i.agreement], LessonOf[l].date)
    \/ \E a \in Made : agreement[a].basis = "FIXED_CLASS" /\ agreement[a].class = LessonOf[l].class
                         /\ Covers(agreement[a], LessonOf[l].date)

\* Finalising leaves out no work that was done when it compared the items with the
\* sessions (compensation.service.ts:148), whatever is completed while it goes on.
\* One completed between that statement and the UPDATE is left out: no lock of
\* finalize keeps attendance from completing it.
FinalizingCoversWork ==
    [][\A p \in Periods : (period[p] # "FINALIZED" /\ period'[p] = "FINALIZED") =>
        \E f \in finalizing :
            f.period = p /\ \A l \in f.seen : Within(p, LessonOf[l].date) => PaidFor(l, p)]_compensationVars

\* A finalised period, its items, adjustments and totals never change.
FinalizedIsFrozen ==
    [][\A p \in Periods : period[p] = "FINALIZED" =>
        /\ period'[p] = "FINALIZED"
        /\ item'[p] = item[p] /\ unresolved'[p] = unresolved[p] /\ statement'[p] = statement[p]
        /\ \A i \in Adjustments :
            (adjustment[i] # Unset /\ adjustment[i].period = p) => adjustment'[i] = adjustment[i]]_compensationVars

\* An agreement never covers a day it did not cover, but for one that had
\* ended and is replaced: the gap up to its replacement is filled.
CoverageOnlyShrinks ==
    [][\A a \in Made : \A l \in Lessons :
        LET d == LessonOf[l].date IN
        (Covers(agreement'[a], d) /\ ~Covers(agreement[a], d)) =>
            /\ agreement[a].until # Open
            /\ \E b \in Made' \ Made : agreement'[a].until = agreement'[b].from - 1]_compensationVars


\* What pays for work, once it does, stays.
PayStands == FinalizingCoversWork /\ FinalizedIsFrozen /\ CoverageOnlyShrinks

=============================================================================
