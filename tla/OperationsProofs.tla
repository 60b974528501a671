--------------------------- MODULE OperationsProofs ---------------------------
(***************************************************************************)
(* Proofs about Compensation, for any sessions, classes, agreements,       *)
(* periods and adjustments; about Academy, for any classes, branches,      *)
(* rooms, teachers and commands in progress; about TenantDatabases, for    *)
(* any codes, operators and releases; and about Imports, for any files,    *)
(* batches, keys and confirmations in progress.                            *)
(***************************************************************************)
EXTENDS Compensation, Academy, TenantDatabases, Imports, Sums, FiniteSetTheorems, TLAPS

ItemRow ==
    [kind : {"SESSION"}, source : Lessons, teacher : Staff, agreement : Agreements, amount : Int]

\* The tables hold rows of their columns' types.
Typed ==
    /\ held \subseteq Lessons
    /\ closed \subseteq PaidClasses
    /\ agreement \in [Agreements -> AgreementRow \cup {Unset}]
    /\ period \in [Periods -> {"NONE", "DRAFT", "GENERATED", "FINALIZED"}]
    /\ item \in [Periods -> SUBSET ItemRow]
    /\ unresolved \in [Periods -> SUBSET Lessons]
    /\ adjustment \in [Adjustments -> AdjustmentRow \cup {Unset}]
    /\ DOMAIN statement = Periods
    /\ finalizing \subseteq [period : Periods, seen : SUBSET Lessons, checked : BOOLEAN]

\* An agreement for a whole class names it, and none ends before it starts.
AgreementsSound ==
    \A a \in Made :
        /\ agreement[a].basis = "FIXED_CLASS" => agreement[a].class # EveryClass
        /\ agreement[a].until # Open => agreement[a].from <= agreement[a].until

NoOverlap == \A a \in Made : ~Overlaps(agreement[a], Made \ {a})

\* Items name an agreement and have their statement, and so have adjustments;
\* what is unresolved was held.
RowsStated ==
    /\ \A p \in Periods : unresolved[p] \subseteq held
    /\ \A p \in Periods : \A i \in item[p] : i.agreement \in Made /\ i.teacher \in Stated(p)
    /\ \A i \in Adjustments : adjustment[i] # Unset => adjustment[i].teacher \in Stated(adjustment[i].period)

\* A session has one row, in one period.
Claims(l, p) == l \in unresolved[p] \/ \E i \in item[p] : i.source = l

OneClaim ==
    /\ \A l \in Lessons : \A p, q \in Periods : Claims(l, p) /\ Claims(l, q) => p = q
    /\ \A p \in Periods : \A i, j \in item[p] : i.source = j.source => i = j
    /\ \A p \in Periods : \A i \in item[p] : i.source \notin unresolved[p]

\* What a finalize has found, while it keeps the lock: what it has seen is paid, unless
\* no agreement covers it, which its later checks exclude.
FinalizingSound ==
    \A f \in finalizing :
        /\ unresolved[f.period] = {}
        /\ \A l \in f.seen :
            Within(f.period, LessonOf[l].date) =>
                /\ l \in held
                /\ Canonical(l) # {} => PaidFor(l, f.period)
                /\ f.checked => Canonical(l) # {}
        /\ f.checked =>
            \A t \in Stated(f.period) :
                statement[f.period][t].earnings + statement[f.period][t].adjustments >= 0

CInv == Typed /\ AgreementsSound /\ NoOverlap /\ RowsStated /\ OneClaim /\ StatementsAddUp /\ FinalizingSound

-----------------------------------------------------------------------------
(* Which agreement pays for a session. *)

LEMMA MadeTyped ==
    ASSUME Typed, NEW a \in Made
    PROVE  a \in Agreements /\ agreement[a] \in AgreementRow
BY DEF Typed, Made

\* Two agreements of one teacher and scope never cover the same day.
LEMMA OneCovers ==
    ASSUME Typed, NoOverlap, NEW a \in Made, NEW b \in Made, NEW d \in Int,
           agreement[a].teacher = agreement[b].teacher, agreement[a].class = agreement[b].class,
           Covers(agreement[a], d), Covers(agreement[b], d)
    PROVE  a = b
<1> SUFFICES ASSUME a # b
             PROVE  FALSE
  OBVIOUS
<1>1. agreement[a] \in AgreementRow /\ agreement[b] \in AgreementRow
  BY MadeTyped
<1>2. Until(agreement[b], agreement[a].from) /\ Until(agreement[a], agreement[b].from)
  BY <1>1, CompensationAssumption DEF Covers, Until, AgreementRow
<1>3. Overlaps(agreement[a], Made \ {a})
  BY <1>2 DEF Overlaps
<1> QED  BY <1>3 DEF NoOverlap

\* Every agreement that covers a day of the period is among those loaded for it.
LEMMA AllLoaded ==
    ASSUME Typed, NEW p \in Periods, NEW l \in Done(p), NEW a \in Made, Applies(a, LessonOf[l])
    PROVE  a \in Loaded(p)
<1>1. agreement[a] \in AgreementRow
  BY MadeTyped
<1>2. LessonOf[l].date \in Int /\ p.first <= LessonOf[l].date /\ LessonOf[l].date <= p.last
  BY CompensationAssumption DEF Done, Within, Typed
<1> QED
  BY <1>1, <1>2, CompensationAssumption DEF Loaded, Applies, Covers, Until, AgreementRow

\* The first agreement found in generate's order is the one finalize reads.
LEMMA FoundIsCanonical ==
    ASSUME Typed, NoOverlap, NEW p \in Periods, NEW l \in Done(p)
    PROVE  Found(l, p) = Canonical(l)
<1> DEFINE w == LessonOf[l]
           for(c) == {a \in Made : agreement[a].teacher = w.teacher /\ agreement[a].class = c
                                     /\ Covers(agreement[a], w.date)}
           eligible == {a \in Loaded(p) : Applies(a, w)}
<1>1. w.class \in PaidClasses /\ w.class # EveryClass /\ w.date \in Int
  BY CompensationAssumption DEF Done, Typed
<1>2. eligible = for(w.class) \cup for(EveryClass)
  <2>1. \A a \in Made : Applies(a, w) => a \in eligible
    BY AllLoaded
  <2> QED  BY <2>1 DEF Applies, Loaded
<1>3. \A a, b \in for(w.class) : a = b
  BY <1>1, OneCovers
<1>4. \A a, b \in for(EveryClass) : a = b
  BY <1>1, OneCovers
<1>5. \A a \in for(w.class) : agreement[a].class = w.class
  OBVIOUS
<1>6. \A a \in for(EveryClass) : agreement[a].class = EveryClass
  OBVIOUS
<1>7. \A a \in eligible : agreement[a].from \in Int
  BY MadeTyped DEF Loaded, AgreementRow
<1>8. Found(l, p) = {a \in eligible : \A b \in eligible : ~After(a, b)}
  BY DEF Found
<1>9. Canonical(l) = IF for(w.class) # {} THEN for(w.class) ELSE for(EveryClass)
  BY DEF Canonical
<1> HIDE DEF w, for, eligible
<1>10. CASE for(w.class) # {}
  <2>1. \A a \in for(EveryClass), b \in for(w.class) : After(a, b)
    BY <1>1, <1>5, <1>6 DEF After
  <2>2. \A a \in for(w.class), b \in eligible : ~After(a, b)
    BY <1>1, <1>2, <1>3, <1>5, <1>6, <1>7 DEF After
  <2> QED  BY <1>2, <1>8, <1>9, <1>10, <2>1, <2>2
<1>11. CASE for(w.class) = {}
  <2>1. \A a \in eligible, b \in eligible : ~After(a, b)
    BY <1>2, <1>4, <1>7, <1>11 DEF After
  <2> QED  BY <1>2, <1>8, <1>9, <1>11, <2>1
<1> QED  BY <1>10, <1>11

\* At most one agreement pays for a session, and it covers the session's day.
LEMMA FoundOnce ==
    ASSUME Typed, NoOverlap, NEW p \in Periods, NEW l \in Done(p)
    PROVE  /\ \A a, b \in Found(l, p) : a = b
           /\ \A a \in Found(l, p) :
                 /\ a \in Made /\ Covers(agreement[a], LessonOf[l].date)
                 /\ agreement[a].teacher = LessonOf[l].teacher
                 /\ agreement[a].class \in {LessonOf[l].class, EveryClass}
<1>1. LessonOf[l].date \in Int
  BY CompensationAssumption DEF Done, Typed
<1>2. \A a, b \in Canonical(l) : a = b
  BY <1>1, OneCovers DEF Canonical
<1>3. \A a \in Found(l, p) : a \in Made /\ Applies(a, LessonOf[l])
  BY DEF Found, Loaded
<1> QED  BY <1>2, <1>3, FoundIsCanonical DEF Applies

\* The property GenerationMeetsCheck: it follows from the agreements not overlapping.
LEMMA DraftsMeetCheck ==
    ASSUME Typed, NoOverlap
    PROVE  GenerationMeetsCheck
<1> SUFFICES ASSUME NEW p \in Periods
             PROVE  DueItems(p) = ExpectedItems(p) /\ DueUnresolved(p) = ExpectedUnresolved(p)
  BY DEF GenerationMeetsCheck
<1>1. \A l \in Done(p) : Found(l, p) = Canonical(l)
  BY FoundIsCanonical
<1>2. {SessionItems(l, Found(l, p)) : l \in Done(p)} = {SessionItems(l, Canonical(l)) : l \in Done(p)}
  BY <1>1
<1>3. DueItems(p) = ExpectedItems(p)
  BY <1>2 DEF DueItems, ExpectedItems
<1>4. \A l \in Done(p) : LessonOf[l].teacher = NoTeacher => Canonical(l) = {}
  <2>1. \A a \in Made : agreement[a].teacher # NoTeacher
    BY MadeTyped DEF AgreementRow, Staff
  <2> QED  BY <2>1 DEF Canonical
<1>5. DueUnresolved(p) = ExpectedUnresolved(p)
  BY <1>1, <1>4 DEF DueUnresolved, ExpectedUnresolved
<1> QED  BY <1>3, <1>5

-----------------------------------------------------------------------------
(* What a generation that is accepted writes. *)

LEMMA AmountTyped ==
    ASSUME NEW f \in AgreementRow, NEW minutes \in Nat
    PROVE  Amount(f, minutes) \in Int
<1>1. f.rate \in Nat
  BY DEF AgreementRow
<1>2. f.rate * minutes \in Nat
  BY <1>1
<1>3. \A x \in Nat : (x + 30) \div 60 \in Int
  OBVIOUS
<1> QED  BY <1>1, <1>2, <1>3 DEF Amount

LEMMA AmountPositive ==
    ASSUME NEW f \in AgreementRow, NEW minutes \in Nat, ~RoundsToNothing(f, minutes)
    PROVE  Amount(f, minutes) > 0
<1>1. f.rate \in Nat \ {0}
  BY DEF AgreementRow
<1>2. CASE f.basis = "PER_HOUR"
  <2>1. f.rate * minutes \in Nat
    BY <1>1
  <2>2. f.rate * minutes >= 30
    BY <1>2, <2>1 DEF RoundsToNothing
  <2>3. \A x \in Nat : x >= 30 => (x + 30) \div 60 > 0
    OBVIOUS
  <2> QED  BY <1>2, <2>1, <2>2, <2>3 DEF Amount
<1>3. CASE f.basis # "PER_HOUR"
  BY <1>1, <1>3 DEF Amount
<1> QED  BY <1>2, <1>3

LEMMA DueItem ==
    ASSUME Typed, NoOverlap, NEW p \in Periods, NEW i \in DueItems(p)
    PROVE  /\ i \in ItemRow /\ i.kind = "SESSION"
           /\ i.source \in Done(p) /\ i.agreement \in Found(i.source, p)
           /\ i = SessionItem(i.source, i.agreement)
           /\ agreement[i.agreement].basis # "FIXED_CLASS"
<1>1. PICK l \in Done(p) : i \in SessionItems(l, Found(l, p))
  BY DEF DueItems
<1>2. PICK a \in Found(l, p) : i = SessionItem(l, a) /\ agreement[a].basis # "FIXED_CLASS"
  BY <1>1 DEF SessionItems
<1>3. a \in Made /\ agreement[a].teacher = LessonOf[l].teacher
  BY <1>2, FoundOnce
<1>4. l \in Lessons /\ LessonOf[l].minutes \in Nat
  BY CompensationAssumption DEF Done, Typed
<1>5. a \in Agreements /\ agreement[a] \in AgreementRow /\ agreement[a].teacher \in Staff
  BY <1>3, MadeTyped DEF AgreementRow
<1>6. Amount(agreement[a], LessonOf[l].minutes) \in Int
  BY <1>4, <1>5, AmountTyped
<1> HIDE DEF Amount
<1>7. i \in ItemRow
  BY <1>2, <1>3, <1>4, <1>5, <1>6 DEF SessionItem, ItemRow
<1>8. i.source = l /\ i.agreement = a /\ i.kind = "SESSION"
  BY <1>2 DEF SessionItem
<1> QED  BY <1>2, <1>7, <1>8

\* No fixed item is accepted: what is due is work by the session.
LEMMA DueAccepted ==
    ASSUME NEW p \in Periods, GenerationAccepted(p)
    PROVE  Due(p) = DueItems(p)
<1>1. \A a \in FixedDue(p) : FixedItem(a) \in Due(p) /\ ~SourceValid(FixedItem(a))
  BY DEF Due, SourceValid, FixedItem
<1>2. FixedDue(p) = {}
  BY <1>1 DEF GenerationAccepted
<1> QED  BY <1>2 DEF Due

\* The sessions of a period that are due are paid once or left unresolved.
LEMMA DueOnce ==
    ASSUME Typed, NoOverlap, NEW p \in Periods
    PROVE  /\ \A i, j \in DueItems(p) : i.source = j.source => i = j
           /\ \A i \in DueItems(p) : i.source \notin DueUnresolved(p)
<1>1. ASSUME NEW i \in DueItems(p), NEW j \in DueItems(p), i.source = j.source
      PROVE  i = j
  <2>1. /\ i.source \in Done(p) /\ i.agreement \in Found(i.source, p)
        /\ i = SessionItem(i.source, i.agreement)
    BY DueItem
  <2>2. /\ j.source \in Done(p) /\ j.agreement \in Found(j.source, p)
        /\ j = SessionItem(j.source, j.agreement)
    BY DueItem
  <2>3. i.agreement = j.agreement
    BY <1>1, <2>1, <2>2, FoundOnce
  <2> QED  BY <1>1, <2>1, <2>2, <2>3
<1>2. ASSUME NEW i \in DueItems(p)
      PROVE  i.source \notin DueUnresolved(p)
  BY DueItem DEF DueUnresolved
<1> QED  BY <1>1, <1>2

\* The property GeneratesUnlessFixed.
LEMMA GenerationsAccepted ==
    ASSUME Typed, NoOverlap
    PROVE  GeneratesUnlessFixed
<1> SUFFICES ASSUME NEW p \in Periods, FixedDue(p) = {}, Payable(p)
             PROVE  GenerationAccepted(p)
  BY DEF GeneratesUnlessFixed
<1>1. \A l \in DueUnresolved(p) \cup {i.source : i \in DueItems(p)} : l \in Done(p)
  BY DueItem DEF DueUnresolved
<1>2. ASSUME NEW i \in Due(p)
      PROVE  SourceValid(i) /\ i.amount > 0
  <2>1. i \in DueItems(p)
    BY DEF Due
  <2>2. i.kind = "SESSION" /\ i.source \in Done(p) /\ i.agreement \in Found(i.source, p)
        /\ i = SessionItem(i.source, i.agreement)
    BY <2>1, DueItem
  <2>3. /\ i.agreement \in Made /\ Covers(agreement[i.agreement], LessonOf[i.source].date)
        /\ agreement[i.agreement].teacher = LessonOf[i.source].teacher
    BY <2>2, FoundOnce
  <2>4. i.teacher = LessonOf[i.source].teacher
    BY <2>2 DEF SessionItem
  <2>5. i.agreement # Unset
    BY <2>3, CompensationAssumption DEF Made
  <2>6. SourceValid(i)
    BY <2>2, <2>3, <2>4, <2>5 DEF SourceValid
  <2>7. i.amount = Amount(agreement[i.agreement], LessonOf[i.source].minutes)
    BY <2>2 DEF SessionItem
  <2>8. ~RoundsToNothing(agreement[i.agreement], LessonOf[i.source].minutes)
    BY <2>2 DEF Payable
  <2>9. agreement[i.agreement] \in AgreementRow /\ LessonOf[i.source].minutes \in Nat
    BY <2>2, <2>3, MadeTyped, CompensationAssumption DEF Done, Typed
  <2>10. Amount(agreement[i.agreement], LessonOf[i.source].minutes) > 0
    BY <2>8, <2>9, AmountPositive
  <2> QED  BY <2>6, <2>7, <2>10
<1> QED  BY <1>1, <1>2 DEF GenerationAccepted, Payable

-----------------------------------------------------------------------------
(* The steps, by the tables they write. *)

AgreementTables == <<agreement>>
PeriodTables == <<period, item, unresolved, adjustment, statement>>

\* While a finalize has the lock, only its own steps, sessions, classes and new
\* periods go on.
LEMMA PaySteps ==
    ASSUME [CompensationNext]_compensationVars
    PROVE  \/ /\ UNCHANGED PeriodTables
              /\ held \subseteq held' /\ (held' \subseteq held \cup Lessons)
              /\ closed \subseteq closed' /\ (closed' \subseteq closed \cup PaidClasses)
              /\ UNCHANGED finalizing
              /\ \/ UNCHANGED agreement
                 \/ UNCHANGED held /\ LockFree /\ \E a \in Agreements, f \in AgreementForms : CreateAgreement(a, f)
                 \/ UNCHANGED held /\ LockFree /\ \E a, b \in Agreements, f \in AgreementForms : ReplaceAgreement(a, b, f)
                 \/ UNCHANGED held /\ LockFree /\ \E a \in Agreements, p \in Periods : EndAgreement(a, p.first)
           \/ /\ UNCHANGED <<held, closed, agreement, finalizing>>
              /\ \/ \E p \in Periods : CreatePeriod(p) \/ (LockFree /\ GeneratePeriod(p))
                 \/ LockFree /\ \E p \in Periods, i \in Adjustments, t \in Staff, amount \in Amounts :
                       AddAdjustment(p, i, t, amount)
                 \/ LockFree /\ \E i \in Adjustments : RemoveAdjustment(i)
           \/ /\ UNCHANGED <<held, closed, agreement, item, unresolved, adjustment, statement>>
              /\ \/ UNCHANGED period /\ \E p \in Periods : BeginFinalize(p)
                 \/ UNCHANGED period /\ \E f \in finalizing : CheckRest(f)
                 \/ \E f \in finalizing : FinalizePeriod(f)
                 \/ UNCHANGED period /\ finalizing' = {}
<1>1. ASSUME NEW l \in Lessons, CompleteLesson(l)
      PROVE  UNCHANGED <<closed, agreement, PeriodTables, finalizing>> /\ held' = held \cup {l}
  BY <1>1 DEF CompleteLesson, PeriodTables
<1>2. ASSUME NEW c \in PaidClasses, CompletePaidClass(c)
      PROVE  UNCHANGED <<held, agreement, PeriodTables, finalizing>> /\ closed' = closed \cup {c}
  BY <1>2 DEF CompletePaidClass, PeriodTables
<1>3. ASSUME NEW a \in Agreements, AgreementStep(a)
      PROVE  /\ UNCHANGED <<held, closed, PeriodTables, finalizing>> /\ LockFree
             /\ \/ \E f \in AgreementForms : CreateAgreement(a, f)
                \/ \E b \in Agreements, f \in AgreementForms : ReplaceAgreement(a, b, f)
                \/ \E p \in Periods : EndAgreement(a, p.first)
  BY <1>3 DEF AgreementStep, CreateAgreement, ReplaceAgreement, EndAgreement, PeriodTables
<1>4. ASSUME NEW p \in Periods, CreatePeriod(p) \/ GeneratePeriod(p)
      PROVE  UNCHANGED <<held, closed, agreement, finalizing>> /\ (CreatePeriod(p) \/ (LockFree /\ GeneratePeriod(p)))
  BY <1>4 DEF CreatePeriod, GeneratePeriod
<1>5. ASSUME NEW p \in Periods, NEW i \in Adjustments, NEW t \in Staff, NEW amount \in Amounts,
             AddAdjustment(p, i, t, amount)
      PROVE  UNCHANGED <<held, closed, agreement, finalizing>> /\ LockFree
  BY <1>5 DEF AddAdjustment
<1>6. ASSUME NEW i \in Adjustments, RemoveAdjustment(i)
      PROVE  UNCHANGED <<held, closed, agreement, finalizing>> /\ LockFree
  BY <1>6 DEF RemoveAdjustment
<1>7. ASSUME NEW p \in Periods, BeginFinalize(p)
      PROVE  UNCHANGED <<held, closed, agreement, period, item, unresolved, adjustment, statement>>
  BY <1>7 DEF BeginFinalize
<1>8. ASSUME NEW f \in finalizing, CheckRest(f)
      PROVE  UNCHANGED <<held, closed, agreement, period, item, unresolved, adjustment, statement>>
  BY <1>8 DEF CheckRest
<1>9. ASSUME NEW f \in finalizing, FinalizePeriod(f)
      PROVE  UNCHANGED <<held, closed, agreement, item, unresolved, adjustment, statement>>
  BY <1>9 DEF FinalizePeriod
<1>10. ASSUME AbandonFinalize
       PROVE  UNCHANGED <<held, closed, agreement, period, item, unresolved, adjustment, statement>> /\ finalizing' = {}
  BY <1>10 DEF AbandonFinalize
<1>11. CASE UNCHANGED compensationVars
  BY <1>11 DEF compensationVars, PeriodTables
<1>12. CASE \/ \E l \in Lessons : CompleteLesson(l)
            \/ \E c \in PaidClasses : CompletePaidClass(c)
            \/ \E a \in Agreements : AgreementStep(a)
  BY <1>1, <1>2, <1>3, <1>12
<1>13. CASE \E p \in Periods : PeriodStep(p)
  <2>1. PICK p \in Periods : PeriodStep(p)
    BY <1>13
  <2>2. CASE BeginFinalize(p)
    BY <1>7, <2>2
  <2>3. CASE CreatePeriod(p) \/ GeneratePeriod(p)
    BY <1>4, <2>3
  <2>4. CASE \E i \in Adjustments, t \in Staff, amount \in Amounts : AddAdjustment(p, i, t, amount)
    BY <1>5, <2>4
  <2> QED  BY <2>1, <2>2, <2>3, <2>4 DEF PeriodStep
<1>14. CASE \E i \in Adjustments : RemoveAdjustment(i)
  BY <1>6, <1>14
<1>15. CASE (\E f \in finalizing : CheckRest(f) \/ FinalizePeriod(f)) \/ AbandonFinalize
  BY <1>8, <1>9, <1>10, <1>15
<1> QED  BY <1>11, <1>12, <1>13, <1>14, <1>15 DEF CompensationNext

\* The steps that write the rows of periods.
LEMMA TableSteps ==
    ASSUME [CompensationNext]_compensationVars
    PROVE  \/ UNCHANGED PeriodTables
           \/ \E p \in Periods : CreatePeriod(p) \/ GeneratePeriod(p)
           \/ \E p \in Periods, i \in Adjustments, t \in Staff, amount \in Amounts :
                  AddAdjustment(p, i, t, amount)
           \/ \E i \in Adjustments : RemoveAdjustment(i)
           \/ \E f \in finalizing : FinalizePeriod(f)
BY PaySteps DEF PeriodTables

\* What a step writes to the agreements: one more, or one that ends, or both.
LEMMA AgreementWrites ==
    ASSUME Typed, [CompensationNext]_compensationVars
    PROVE  \/ UNCHANGED agreement
           \/ \E a \in Agreements, f \in AgreementForms :
                 a \notin Made /\ agreement' = [agreement EXCEPT ![a] = f] /\ ~Overlaps(f, Made)
           \/ \E a \in Made, b \in Agreements \ Made, f \in AgreementForms :
                 /\ f.from > agreement[a].from
                 /\ f.teacher = agreement[a].teacher /\ f.class = agreement[a].class
                 /\ ~Overlaps([agreement[a] EXCEPT !.until = f.from - 1], Made \ {a})
                 /\ ~Overlaps(f, Made \ {a})
                 /\ agreement' = [agreement EXCEPT ![a].until = f.from - 1, ![b] = f]
           \/ \E a \in Made : \E d \in Int :
                 /\ agreement[a].until = Open /\ d >= agreement[a].from
                 /\ agreement' = [agreement EXCEPT ![a].until = d]
<1>1. ASSUME NEW a \in Agreements, NEW f \in AgreementForms, CreateAgreement(a, f)
      PROVE  a \notin Made /\ agreement' = [agreement EXCEPT ![a] = f] /\ ~Overlaps(f, Made)
  BY <1>1 DEF CreateAgreement, Made
<1>2. ASSUME NEW a \in Agreements, NEW b \in Agreements, NEW f \in AgreementForms,
             ReplaceAgreement(a, b, f)
      PROVE  /\ a \in Made /\ b \in Agreements \ Made
             /\ f.from > agreement[a].from
             /\ f.teacher = agreement[a].teacher /\ f.class = agreement[a].class
             /\ ~Overlaps([agreement[a] EXCEPT !.until = f.from - 1], Made \ {a})
             /\ ~Overlaps(f, Made \ {a})
             /\ agreement' = [agreement EXCEPT ![a].until = f.from - 1, ![b] = f]
  <2>1. a \in Made /\ b \in Agreements \ Made
    BY <1>2 DEF ReplaceAgreement, Made
  <2>2. agreement' = [agreement EXCEPT ![a] = [agreement[a] EXCEPT !.until = f.from - 1], ![b] = f]
    BY <1>2 DEF ReplaceAgreement
  <2>3. agreement' = [agreement EXCEPT ![a].until = f.from - 1, ![b] = f]
    BY <2>2
  <2> QED  BY <1>2, <2>1, <2>3 DEF ReplaceAgreement
<1>3. ASSUME NEW a \in Agreements, NEW p \in Periods, EndAgreement(a, p.first)
      PROVE  /\ a \in Made /\ p.first \in Int
             /\ agreement[a].until = Open /\ p.first >= agreement[a].from
             /\ agreement' = [agreement EXCEPT ![a].until = p.first]
  BY <1>3, CompensationAssumption DEF EndAgreement, StillOpen
<1>4. \/ UNCHANGED agreement
      \/ \E a \in Agreements, f \in AgreementForms : CreateAgreement(a, f)
      \/ \E a, b \in Agreements, f \in AgreementForms : ReplaceAgreement(a, b, f)
      \/ \E a \in Agreements, p \in Periods : EndAgreement(a, p.first)
  BY PaySteps
<1>5. CASE \E a \in Agreements, f \in AgreementForms : CreateAgreement(a, f)
  BY <1>1, <1>5
<1>6. CASE \E a, b \in Agreements, f \in AgreementForms : ReplaceAgreement(a, b, f)
  <2>1. PICK a \in Agreements, b \in Agreements, f \in AgreementForms : ReplaceAgreement(a, b, f)
    BY <1>6
  <2>2. /\ a \in Made /\ b \in Agreements \ Made
        /\ f.from > agreement[a].from
        /\ f.teacher = agreement[a].teacher /\ f.class = agreement[a].class
        /\ ~Overlaps([agreement[a] EXCEPT !.until = f.from - 1], Made \ {a})
        /\ ~Overlaps(f, Made \ {a})
        /\ agreement' = [agreement EXCEPT ![a].until = f.from - 1, ![b] = f]
    BY <1>2, <2>1
  <2> HIDE DEF Overlaps, Made
  <2> QED  BY <2>2
<1>7. CASE \E a \in Agreements, p \in Periods : EndAgreement(a, p.first)
  BY <1>3, <1>7
<1> QED  BY <1>4, <1>5, <1>6, <1>7

\* Agreements stay, and keep their teacher, scope, basis and first day.
LEMMA AgreementsStay ==
    ASSUME Typed, [CompensationNext]_compensationVars
    PROVE  /\ agreement' \in [Agreements -> AgreementRow \cup {Unset}]
           /\ Made \subseteq Made'
           /\ \A a \in Made : /\ agreement'[a].teacher = agreement[a].teacher
                              /\ agreement'[a].class = agreement[a].class
                              /\ agreement'[a].basis = agreement[a].basis
                              /\ agreement'[a].from = agreement[a].from
<1> DEFINE Stay == /\ agreement' \in [Agreements -> AgreementRow \cup {Unset}]
                   /\ Made \subseteq Made'
                   /\ \A a \in Made : /\ agreement'[a].teacher = agreement[a].teacher
                                      /\ agreement'[a].class = agreement[a].class
                                      /\ agreement'[a].basis = agreement[a].basis
                                      /\ agreement'[a].from = agreement[a].from
<1>1. ASSUME NEW a \in Made, NEW d \in Int
      PROVE  /\ [agreement[a] EXCEPT !.until = d] \in AgreementRow
             /\ [agreement[a] EXCEPT !.until = d] # Unset
             /\ [agreement[a] EXCEPT !.until = d].teacher = agreement[a].teacher
             /\ [agreement[a] EXCEPT !.until = d].class = agreement[a].class
             /\ [agreement[a] EXCEPT !.until = d].basis = agreement[a].basis
             /\ [agreement[a] EXCEPT !.until = d].from = agreement[a].from
  BY MadeTyped, CompensationAssumption DEF AgreementRow
<1>2. \A f \in AgreementForms : f \in AgreementRow /\ f # Unset /\ f.from - 1 \in Int
  BY CompensationAssumption DEF AgreementRow
<1>3. CASE UNCHANGED agreement
  BY <1>3 DEF Typed, Made
<1>4. ASSUME NEW a \in Agreements, NEW f \in AgreementForms,
             a \notin Made, agreement' = [agreement EXCEPT ![a] = f]
      PROVE  Stay
  BY <1>2, <1>4 DEF Typed, Made
<1>5. ASSUME NEW a \in Made, NEW b \in Agreements \ Made, NEW f \in AgreementForms,
             agreement' = [agreement EXCEPT ![a].until = f.from - 1, ![b] = f]
      PROVE  Stay
  <2>1. a \in Agreements /\ a # b
    BY DEF Made
  <2>2. agreement'[a] = [agreement[a] EXCEPT !.until = f.from - 1] /\ agreement'[b] = f
    BY <1>5, <2>1 DEF Typed
  <2>3. \A c \in Agreements \ {a, b} : agreement'[c] = agreement[c]
    BY <1>5 DEF Typed
  <2>4. agreement' \in [Agreements -> AgreementRow \cup {Unset}]
    <3>1. \A c \in Agreements : agreement'[c] \in AgreementRow \cup {Unset}
      BY <1>1, <1>2, <2>2, <2>3 DEF Typed
    <3> QED  BY <1>5, <3>1 DEF Typed
  <2>5. Made \subseteq Made'
    BY <1>1, <1>2, <2>2, <2>3 DEF Made
  <2>6. \A c \in Made : c \in Agreements \ {b}
    BY DEF Made
  <2>7. ASSUME NEW c \in Made
        PROVE  /\ agreement'[c].teacher = agreement[c].teacher /\ agreement'[c].class = agreement[c].class
               /\ agreement'[c].basis = agreement[c].basis /\ agreement'[c].from = agreement[c].from
    <3>1. CASE c = a
      BY <2>2, <3>1, MadeTyped DEF AgreementRow
    <3>2. CASE c # a
      BY <2>3, <2>6, <3>2
    <3> QED  BY <3>1, <3>2
  <2> QED  BY <2>4, <2>5, <2>7
<1>6. ASSUME NEW a \in Made, NEW d \in Int, agreement' = [agreement EXCEPT ![a].until = d]
      PROVE  Stay
  <2>1. a \in Agreements
    BY DEF Made
  <2>2. agreement'[a] = [agreement[a] EXCEPT !.until = d]
    BY <1>6, <2>1 DEF Typed
  <2>3. \A c \in Agreements \ {a} : agreement'[c] = agreement[c]
    BY <1>6 DEF Typed
  <2>4. \A c \in Agreements : agreement'[c] \in AgreementRow \cup {Unset}
    BY <1>1, <2>2, <2>3 DEF Typed
  <2>5. agreement' \in [Agreements -> AgreementRow \cup {Unset}]
    BY <1>6, <2>4 DEF Typed
  <2>6. \A c \in Made : c \in Agreements
    BY DEF Made
  <2>7. ASSUME NEW c \in Made
        PROVE  /\ agreement'[c].teacher = agreement[c].teacher /\ agreement'[c].class = agreement[c].class
               /\ agreement'[c].basis = agreement[c].basis /\ agreement'[c].from = agreement[c].from
    <3>1. CASE c = a
      BY <2>2, <3>1, MadeTyped DEF AgreementRow
    <3>2. CASE c # a
      BY <2>3, <2>6, <3>2
    <3> QED  BY <3>1, <3>2
  <2>8. Made \subseteq Made'
    BY <1>1, <2>2, <2>3 DEF Made
  <2> QED  BY <2>5, <2>7, <2>8
<1> QED  BY <1>3, <1>4, <1>5, <1>6, AgreementWrites

LEMMA SoundStep ==
    ASSUME Typed, AgreementsSound, [CompensationNext]_compensationVars
    PROVE  AgreementsSound'
<1> DEFINE Sound(f) == /\ f.basis = "FIXED_CLASS" => f.class # EveryClass
                       /\ f.until # Open => f.from <= f.until
<1>1. \A f \in AgreementForms : Sound(f) /\ f.from \in Int
  BY CompensationAssumption DEF AgreementRow
<1>2. \A a \in Made : Sound(agreement[a])
  BY DEF AgreementsSound
<1>3. SUFFICES \A a \in Made' : Sound(agreement'[a])
  BY DEF AgreementsSound
<1>4. CASE UNCHANGED agreement
  BY <1>2, <1>4 DEF Made
<1>5. ASSUME NEW a \in Agreements, NEW f \in AgreementForms,
             a \notin Made, agreement' = [agreement EXCEPT ![a] = f]
      PROVE  \A c \in Made' : Sound(agreement'[c])
  BY <1>1, <1>2, <1>5 DEF Made, Typed
<1>6. ASSUME NEW a \in Made, NEW b \in Agreements \ Made, NEW f \in AgreementForms,
             f.from > agreement[a].from,
             agreement' = [agreement EXCEPT ![a].until = f.from - 1, ![b] = f]
      PROVE  \A c \in Made' : Sound(agreement'[c])
  <2>1. a \in Agreements /\ a # b /\ agreement[a] \in AgreementRow /\ Sound(agreement[a])
    BY <1>2, MadeTyped DEF Made
  <2>2. agreement'[a] = [agreement[a] EXCEPT !.until = f.from - 1] /\ agreement'[b] = f
    BY <1>6, <2>1 DEF Typed
  <2>3. Sound(agreement'[a])
    BY <1>1, <1>6, <2>1, <2>2 DEF AgreementRow
  <2>4. Sound(agreement'[b])
    BY <1>1, <2>2
  <2>5. \A c \in Made' : c \notin {a, b} => c \in Made /\ agreement'[c] = agreement[c]
    BY <1>6 DEF Made, Typed
  <2> QED  BY <1>2, <2>3, <2>4, <2>5
<1>7. ASSUME NEW a \in Made, NEW d \in Int, d >= agreement[a].from,
             agreement' = [agreement EXCEPT ![a].until = d]
      PROVE  \A c \in Made' : Sound(agreement'[c])
  <2>1. a \in Agreements /\ agreement[a] \in AgreementRow /\ Sound(agreement[a])
    BY <1>2, MadeTyped DEF Made
  <2>2. agreement'[a] = [agreement[a] EXCEPT !.until = d]
    BY <1>7, <2>1 DEF Typed
  <2>3. Sound(agreement'[a])
    BY <1>7, <2>1, <2>2 DEF AgreementRow
  <2>4. \A c \in Made' : c # a => c \in Made /\ agreement'[c] = agreement[c]
    BY <1>7 DEF Made, Typed
  <2> QED  BY <1>2, <2>3, <2>4
<1> HIDE DEF Sound
<1> QED  BY <1>4, <1>5, <1>6, <1>7, AgreementWrites

\* Two agreements that are not both in force on any day.
DaysApart(f, g) ==
    ~(/\ f.teacher = g.teacher /\ f.class = g.class
      /\ Until(f, g.from) /\ Until(g, f.from))

LEMMA PairsApart ==
    NoOverlap <=> \A a, b \in Made : a # b => DaysApart(agreement[a], agreement[b])
<1>1. \A f, others : Overlaps(f, others) <=> \E a \in others : ~DaysApart(f, agreement[a])
  BY DEF Overlaps, DaysApart
<1> QED  BY <1>1 DEF NoOverlap

LEMMA NoOverlapStep ==
    ASSUME Typed, NoOverlap, [CompensationNext]_compensationVars
    PROVE  NoOverlap'
<1>1. \A a, b \in Made : a # b => DaysApart(agreement[a], agreement[b])
  BY PairsApart
<1>2. SUFFICES \A a, b \in Made' : a # b => DaysApart(agreement'[a], agreement'[b])
  <2>1. NoOverlap' <=> \A a, b \in Made' : a # b => DaysApart(agreement[a], agreement[b])'
    <3>1. \A f, others : Overlaps(f, others)' <=> \E a \in others : ~DaysApart(f, agreement'[a])
      BY DEF Overlaps, DaysApart
    <3> QED  BY <3>1 DEF NoOverlap, Overlaps, DaysApart, Until
  <2> QED  BY <1>2, <2>1 DEF DaysApart, Until
<1>3. \A f, g : DaysApart(f, g) <=> DaysApart(g, f)
  BY DEF DaysApart
<1>4. \A f, S : ~Overlaps(f, S) => \A a \in S : DaysApart(f, agreement[a])
  BY DEF Overlaps, DaysApart
<1>5. CASE UNCHANGED agreement
  BY <1>1, <1>5 DEF Made
<1>6. ASSUME NEW a \in Agreements, NEW f \in AgreementForms,
             a \notin Made, agreement' = [agreement EXCEPT ![a] = f], ~Overlaps(f, Made)
      PROVE  \A c, d \in Made' : c # d => DaysApart(agreement'[c], agreement'[d])
  <2>1. \A c \in Made' : c # a => c \in Made /\ agreement'[c] = agreement[c]
    BY <1>6 DEF Made, Typed
  <2>2. agreement'[a] = f
    BY <1>6 DEF Typed
  <2>3. \A c \in Made : DaysApart(f, agreement[c]) /\ DaysApart(agreement[c], f)
    BY <1>3, <1>4, <1>6
  <2> QED  BY <1>1, <2>1, <2>2, <2>3
<1>7. ASSUME NEW a \in Made, NEW b \in Agreements \ Made, NEW f \in AgreementForms,
             f.from > agreement[a].from,
             ~Overlaps([agreement[a] EXCEPT !.until = f.from - 1], Made \ {a}),
             ~Overlaps(f, Made \ {a}),
             agreement' = [agreement EXCEPT ![a].until = f.from - 1, ![b] = f]
      PROVE  \A c, d \in Made' : c # d => DaysApart(agreement'[c], agreement'[d])
  <2> DEFINE e == [agreement[a] EXCEPT !.until = f.from - 1]
  <2>1. a \in Agreements /\ a # b /\ agreement[a] \in AgreementRow /\ f.from \in Int
    BY MadeTyped, CompensationAssumption DEF Made, AgreementRow
  <2>2. agreement'[a] = e /\ agreement'[b] = f
    BY <1>7, <2>1 DEF Typed
  <2>3. \A c \in Made' : c \notin {a, b} => c \in Made \ {a} /\ agreement'[c] = agreement[c]
    BY <1>7 DEF Made, Typed
  <2>4. e.until = f.from - 1
    BY <2>1 DEF AgreementRow
  <2>5. DaysApart(e, f) /\ DaysApart(f, e)
    BY <2>1, <2>4, CompensationAssumption DEF DaysApart, Until
  <2> HIDE DEF e
  <2>6. \A c \in Made \ {a} : /\ DaysApart(e, agreement[c]) /\ DaysApart(agreement[c], e)
                              /\ DaysApart(f, agreement[c]) /\ DaysApart(agreement[c], f)
    BY <1>3, <1>4, <1>7 DEF e
  <2> QED  BY <1>1, <2>2, <2>3, <2>5, <2>6
<1>8. ASSUME NEW a \in Made, NEW d \in Int, agreement[a].until = Open,
             agreement' = [agreement EXCEPT ![a].until = d]
      PROVE  \A c, b \in Made' : c # b => DaysApart(agreement'[c], agreement'[b])
  <2> DEFINE e == [agreement[a] EXCEPT !.until = d]
  <2>1. a \in Agreements /\ agreement[a] \in AgreementRow
    BY MadeTyped DEF Made
  <2>2. agreement'[a] = e
    BY <1>8, <2>1 DEF Typed
  <2>3. \A c \in Made' : c # a => c \in Made /\ agreement'[c] = agreement[c]
    BY <1>8 DEF Made, Typed
  <2>4. e.teacher = agreement[a].teacher /\ e.class = agreement[a].class /\ e.from = agreement[a].from
    BY <2>1 DEF AgreementRow
  <2>5. \A c \in Made : c # a => DaysApart(e, agreement[c]) /\ DaysApart(agreement[c], e)
    <3> HIDE DEF e
    <3> QED  BY <1>1, <1>8, <2>4 DEF DaysApart, Until
  <2> HIDE DEF e
  <2> QED  BY <1>1, <2>2, <2>3, <2>5
<1> HIDE DEF DaysApart
<1> QED
  BY <1>5, <1>6, <1>7, <1>8, AgreementWrites

-----------------------------------------------------------------------------
(* Periods, their rows and their totals. *)

\* What a generation writes.
LEMMA GenerateWrites ==
    ASSUME Typed, NoOverlap, NEW p \in Periods, GeneratePeriod(p)
    PROVE  /\ item' = [item EXCEPT ![p] = DueItems(p)]
           /\ unresolved' = [unresolved EXCEPT ![p] = DueUnresolved(p)]
           /\ period' = [period EXCEPT ![p] = "GENERATED"]
           /\ statement' = [statement EXCEPT
                 ![p] = Totals(p, DueItems(p), adjustment, Needed(p, DueItems(p)))]
           /\ DueItems(p) \subseteq ItemRow /\ DueUnresolved(p) \subseteq held
           /\ UNCHANGED <<held, closed, agreement, adjustment>>
<1>1. Due(p) = DueItems(p)
  BY DueAccepted DEF GeneratePeriod
<1>2. DueItems(p) \subseteq ItemRow
  BY DueItem
<1> QED  BY <1>1, <1>2 DEF GeneratePeriod, DueUnresolved, Done

LEMMA AddWrites ==
    ASSUME Typed, NEW p \in Periods, NEW i \in Adjustments, NEW t \in Staff, NEW amount \in Amounts,
           AddAdjustment(p, i, t, amount)
    PROVE  /\ adjustment' \in [Adjustments -> AdjustmentRow \cup {Unset}]
           /\ adjustment[i] = Unset /\ adjustment'[i] # Unset
           /\ adjustment'[i].period = p /\ adjustment'[i].teacher = t
           /\ \A j \in Adjustments \ {i} : adjustment'[j] = adjustment[j]
<1> DEFINE row == [period |-> p, teacher |-> t, amount |-> amount]
<1>1. row \in AdjustmentRow /\ row # Unset
  BY CompensationAssumption DEF AdjustmentRow
<1>2. adjustment' = [adjustment EXCEPT ![i] = row] /\ adjustment[i] = Unset
  BY DEF AddAdjustment
<1>3. adjustment'[i] = row
  BY <1>2 DEF Typed
<1>4. row.period = p /\ row.teacher = t
  OBVIOUS
<1> HIDE DEF row
<1> QED  BY <1>1, <1>2, <1>3, <1>4 DEF Typed

LEMMA RemoveWrites ==
    ASSUME Typed, NEW i \in Adjustments, RemoveAdjustment(i)
    PROVE  /\ adjustment' \in [Adjustments -> AdjustmentRow \cup {Unset}]
           /\ adjustment[i].period \in Periods /\ Draft(adjustment[i].period)
           /\ adjustment'[i] = Unset
           /\ \A j \in Adjustments \ {i} : adjustment'[j] = adjustment[j]
BY DEF RemoveAdjustment, Typed, AdjustmentRow

\* What a step leaves of the finalize that has the lock.
LEMMA FinalizingWrites ==
    ASSUME [CompensationNext]_compensationVars
    PROVE  \/ finalizing' = {}
           \/ finalizing' = finalizing /\ UNCHANGED <<agreement, item, unresolved, statement>>
           \/ \E p \in Periods : BeginFinalize(p)
           \/ \E f \in finalizing : CheckRest(f)
<1>1. LockFree => finalizing = {}
  BY DEF LockFree
<1>2. ASSUME NEW p \in Periods, CreatePeriod(p)
      PROVE  UNCHANGED <<item, unresolved, statement>>
  BY <1>2 DEF CreatePeriod
<1>3. ASSUME NEW f \in finalizing, FinalizePeriod(f)
      PROVE  finalizing' = {}
  BY <1>3 DEF FinalizePeriod
<1> QED  BY <1>1, <1>2, <1>3, PaySteps DEF PeriodTables

LEMMA FinalizingTyped ==
    ASSUME Typed, [CompensationNext]_compensationVars
    PROVE  finalizing' \subseteq [period : Periods, seen : SUBSET Lessons, checked : BOOLEAN]
<1>1. ASSUME NEW p \in Periods, BeginFinalize(p)
      PROVE  finalizing' \subseteq [period : Periods, seen : SUBSET Lessons, checked : BOOLEAN]
  BY <1>1 DEF BeginFinalize, Typed
<1>2. ASSUME NEW f \in finalizing, CheckRest(f)
      PROVE  finalizing' \subseteq [period : Periods, seen : SUBSET Lessons, checked : BOOLEAN]
  <2>1. f \in [period : Periods, seen : SUBSET Lessons, checked : BOOLEAN]
    BY DEF Typed
  <2>2. [f EXCEPT !.checked = TRUE] \in [period : Periods, seen : SUBSET Lessons, checked : BOOLEAN]
    BY <2>1
  <2> QED  BY <1>2, <2>2 DEF CheckRest
<1> QED  BY <1>1, <1>2, FinalizingWrites DEF Typed

LEMMA TypedStep ==
    ASSUME Typed, NoOverlap, [CompensationNext]_compensationVars
    PROVE  Typed'
<1>1. held' \subseteq Lessons /\ closed' \subseteq PaidClasses
  BY PaySteps DEF Typed
<1>2. agreement' \in [Agreements -> AgreementRow \cup {Unset}]
  BY AgreementsStay
<1> DEFINE PeriodsTyped ==
             /\ period' \in [Periods -> {"NONE", "DRAFT", "GENERATED", "FINALIZED"}]
             /\ item' \in [Periods -> SUBSET ItemRow]
             /\ unresolved' \in [Periods -> SUBSET Lessons]
             /\ adjustment' \in [Adjustments -> AdjustmentRow \cup {Unset}]
             /\ DOMAIN statement' = Periods
<1>3. ASSUME UNCHANGED PeriodTables
      PROVE  PeriodsTyped
  BY <1>3 DEF PeriodTables, Typed
<1>4. ASSUME NEW p \in Periods, CreatePeriod(p)
      PROVE  PeriodsTyped
  BY <1>4 DEF CreatePeriod, Typed
<1>9. ASSUME NEW f \in finalizing, FinalizePeriod(f)
      PROVE  PeriodsTyped
  BY <1>9 DEF FinalizePeriod, Typed
<1>5. ASSUME NEW p \in Periods, GeneratePeriod(p)
      PROVE  PeriodsTyped
  <2>1. DueUnresolved(p) \in SUBSET Lessons /\ DueItems(p) \in SUBSET ItemRow
    BY <1>5, GenerateWrites DEF Typed
  <2> QED  BY <1>5, <2>1, GenerateWrites DEF Typed
<1>6. ASSUME NEW p \in Periods, NEW i \in Adjustments, NEW t \in Staff, NEW amount \in Amounts,
             AddAdjustment(p, i, t, amount)
      PROVE  PeriodsTyped
  <2>1. adjustment' \in [Adjustments -> AdjustmentRow \cup {Unset}]
    BY <1>6, AddWrites
  <2> QED  BY <1>6, <2>1 DEF AddAdjustment, Typed
<1>7. ASSUME NEW i \in Adjustments, RemoveAdjustment(i)
      PROVE  PeriodsTyped
  <2>1. adjustment' \in [Adjustments -> AdjustmentRow \cup {Unset}]
    BY <1>7, RemoveWrites
  <2> QED  BY <1>7, <2>1 DEF RemoveAdjustment, Typed
<1>8. PeriodsTyped
  <2> HIDE DEF PeriodsTyped
  <2> QED  BY <1>3, <1>4, <1>5, <1>6, <1>7, <1>9, TableSteps
<1>10. finalizing' \subseteq [period : Periods, seen : SUBSET Lessons, checked : BOOLEAN]
  BY FinalizingTyped
<1> QED  BY <1>1, <1>2, <1>8, <1>10 DEF Typed

LEMMA RowsStatedStep ==
    ASSUME Typed, NoOverlap, RowsStated, [CompensationNext]_compensationVars
    PROVE  RowsStated'
<1>1. held \subseteq held' /\ Made \subseteq Made'
  BY PaySteps, AgreementsStay
<1>2. CASE UNCHANGED PeriodTables
  BY <1>1, <1>2 DEF RowsStated, PeriodTables, Stated
<1>3. ASSUME NEW p \in Periods, CreatePeriod(p)
      PROVE  RowsStated'
  BY <1>1, <1>3 DEF RowsStated, CreatePeriod, Stated
<1>7. ASSUME NEW f \in finalizing, FinalizePeriod(f)
      PROVE  RowsStated'
  BY <1>1, <1>7 DEF RowsStated, FinalizePeriod, Stated
<1>4. ASSUME NEW p \in Periods, GeneratePeriod(p)
      PROVE  RowsStated'
  <2> DEFINE due == DueItems(p)
  <2>1. /\ item'[p] = due /\ unresolved'[p] \subseteq held'
        /\ \A q \in Periods \ {p} : item'[q] = item[q] /\ unresolved'[q] = unresolved[q]
    BY <1>1, <1>4, GenerateWrites DEF Typed
  <2>2. Stated(p)' = Needed(p, due)
    BY <1>4, GenerateWrites DEF Typed, Stated, Totals
  <2>3. \A q \in Periods \ {p} : Stated(q)' = Stated(q)
    BY <1>4, GenerateWrites DEF Typed, Stated
  <2>4. \A i \in due : i.agreement \in Made'
    BY <1>1, DueItem, FoundOnce
  <2>5. \A i \in due : i.teacher \in Needed(p, due)
    <3>1. \A i \in due : i.teacher \in Staff /\ i \in Items(p, i.teacher, due)
      BY DueItem DEF ItemRow, Items
    <3> QED  BY <3>1 DEF Needed
  <2>6. \A i \in Adjustments : adjustment[i] # Unset /\ adjustment[i].period = p
           => adjustment[i].teacher \in Needed(p, due)
    <3>1. \A i \in Adjustments : adjustment[i] # Unset => adjustment[i].teacher \in Staff
      BY DEF Typed, AdjustmentRow
    <3> QED  BY <3>1 DEF Needed, Adjusting
  <2>7. \A i \in Adjustments : adjustment[i] # Unset => adjustment[i].period \in Periods
    BY DEF Typed, AdjustmentRow
  <2>8. adjustment' = adjustment
    BY <1>4 DEF GeneratePeriod
  <2> HIDE DEF due
  <2>9. \A q \in Periods : unresolved'[q] \subseteq held'
    BY <1>1, <2>1 DEF RowsStated
  <2>10. \A q \in Periods : \A i \in item'[q] : i.agreement \in Made' /\ i.teacher \in Stated(q)'
    BY <1>1, <2>1, <2>2, <2>3, <2>4, <2>5 DEF RowsStated
  <2>11. \A i \in Adjustments : adjustment'[i] # Unset =>
            adjustment'[i].teacher \in Stated(adjustment[i].period)'
    BY <2>2, <2>3, <2>6, <2>7, <2>8 DEF RowsStated
  <2> QED  BY <2>8, <2>9, <2>10, <2>11 DEF RowsStated, Stated
<1>5. ASSUME NEW p \in Periods, NEW i \in Adjustments, NEW t \in Staff, NEW amount \in Amounts,
             AddAdjustment(p, i, t, amount)
      PROVE  RowsStated'
  <2>1. Stated(p)' = Stated(p) \cup {t}
    BY <1>5 DEF AddAdjustment, Stated, Totals, Typed
  <2>2. \A q \in Periods \ {p} : Stated(q)' = Stated(q)
    BY <1>5 DEF AddAdjustment, Stated, Typed
  <2>3. /\ adjustment'[i].period = p /\ adjustment'[i].teacher = t
        /\ \A j \in Adjustments \ {i} : adjustment'[j] = adjustment[j]
    BY <1>5, AddWrites
  <2>4. \A j \in Adjustments : adjustment[j] # Unset => adjustment[j].period \in Periods
    BY DEF Typed, AdjustmentRow
  <2>5. \A j \in Adjustments : adjustment'[j] # Unset =>
           adjustment'[j].teacher \in DOMAIN statement'[adjustment'[j].period]
    BY <2>1, <2>2, <2>3, <2>4 DEF RowsStated, Stated
  <2>6. UNCHANGED <<held, agreement, item, unresolved>>
    BY <1>5 DEF AddAdjustment
  <2>7. \A q \in Periods : \A j \in item[q] : j.agreement \in Made' /\ j.teacher \in DOMAIN statement'[q]
    BY <1>1, <2>1, <2>2 DEF RowsStated, Stated
  <2> QED  BY <2>5, <2>6, <2>7 DEF RowsStated, Stated
<1>6. ASSUME NEW i \in Adjustments, RemoveAdjustment(i)
      PROVE  RowsStated'
  <2> DEFINE p == adjustment[i].period
  <2>1. \A q \in Periods : Stated(q)' = Stated(q)
    BY <1>6, RemoveWrites DEF RemoveAdjustment, Stated, Totals, Typed
  <2>2. adjustment'[i] = Unset /\ \A j \in Adjustments \ {i} : adjustment'[j] = adjustment[j]
    BY <1>6, RemoveWrites
  <2>3. \A j \in Adjustments : adjustment[j] # Unset => adjustment[j].period \in Periods
    BY DEF Typed, AdjustmentRow
  <2>4. \A j \in Adjustments : adjustment'[j] # Unset =>
           adjustment'[j].teacher \in DOMAIN statement'[adjustment'[j].period]
    BY <2>1, <2>2, <2>3 DEF RowsStated, Stated
  <2>5. UNCHANGED <<held, agreement, item, unresolved>>
    BY <1>6 DEF RemoveAdjustment
  <2>6. \A q \in Periods : \A j \in item[q] : j.agreement \in Made' /\ j.teacher \in DOMAIN statement'[q]
    BY <1>1, <2>1 DEF RowsStated, Stated
  <2> QED  BY <2>4, <2>5, <2>6 DEF RowsStated, Stated
<1> QED  BY <1>2, <1>3, <1>4, <1>5, <1>6, <1>7, TableSteps

LEMMA OneClaimStep ==
    ASSUME Typed, NoOverlap, OneClaim, [CompensationNext]_compensationVars
    PROVE  OneClaim'
<1>1. CASE UNCHANGED <<item, unresolved>>
  BY <1>1 DEF OneClaim, Claims
<1>2. ASSUME NEW p \in Periods, GeneratePeriod(p)
      PROVE  OneClaim'
  <2>1. /\ item'[p] = DueItems(p) /\ unresolved'[p] = DueUnresolved(p)
        /\ \A q \in Periods \ {p} : item'[q] = item[q] /\ unresolved'[q] = unresolved[q]
    BY <1>2, GenerateWrites DEF Typed
  <2>2. \A l \in Lessons : Claims(l, p)' => ~ClaimedElsewhere(l, p)
    BY <1>2, <2>1 DEF GeneratePeriod, GenerationAccepted, Claims
  <2>3. \A l \in Lessons, q \in Periods \ {p} : Claims(l, q)' => Claims(l, q) /\ ClaimedElsewhere(l, p)
    BY <2>1 DEF Claims, ClaimedElsewhere
  <2>4. \A l \in Lessons : \A q, r \in Periods : Claims(l, q)' /\ Claims(l, r)' => q = r
    BY <2>2, <2>3 DEF OneClaim
  <2>5. \A q \in Periods : \A i, j \in item'[q] : i.source = j.source => i = j
    BY <2>1, DueOnce DEF OneClaim
  <2>6. \A q \in Periods : \A i \in item'[q] : i.source \notin unresolved'[q]
    BY <2>1, DueOnce DEF OneClaim
  <2> QED  BY <2>4, <2>5, <2>6 DEF OneClaim
<1> QED
  BY <1>1, <1>2, TableSteps
  DEF PeriodTables, CreatePeriod, FinalizePeriod, AddAdjustment, RemoveAdjustment

\* Adjustments of another period do not move a total.
LEMMA AdjustedSame ==
    ASSUME NEW q, NEW t,
           \A j \in Adjustments : adjustment[j] # Unset /\ adjustment[j].period = q
              <=> adjustment'[j] # Unset /\ adjustment'[j].period = q,
           \A j \in Adjustments : adjustment[j] # Unset /\ adjustment[j].period = q
              => adjustment'[j] = adjustment[j]
    PROVE  Adjusted(q, t, adjustment') = Adjusted(q, t, adjustment)
<1>1. Adjusting(q, t, adjustment') = Adjusting(q, t, adjustment)
  BY DEF Adjusting
<1>2. [j \in Adjusting(q, t, adjustment) |-> adjustment'[j].amount]
        = [j \in Adjusting(q, t, adjustment) |-> adjustment[j].amount]
  BY DEF Adjusting
<1> QED  BY <1>1, <1>2 DEF Adjusted

AddsUp(q) ==
    \A t \in Stated(q) :
        /\ statement[q][t].earnings = Earned(Items(q, t, item[q]))
        /\ statement[q][t].adjustments = Adjusted(q, t, adjustment)
        /\ period[q] = "FINALIZED" => statement[q][t].earnings + statement[q][t].adjustments >= 0

\* A period whose rows a step leaves alone adds up as before.
LEMMA AddsUpKept ==
    ASSUME NEW q, AddsUp(q),
           item'[q] = item[q], statement'[q] = statement[q], period'[q] = period[q],
           \A j \in Adjustments : adjustment[j] # Unset /\ adjustment[j].period = q
              <=> adjustment'[j] # Unset /\ adjustment'[j].period = q,
           \A j \in Adjustments : adjustment[j] # Unset /\ adjustment[j].period = q
              => adjustment'[j] = adjustment[j]
    PROVE  AddsUp(q)'
<1>1. \A t : Adjusted(q, t, adjustment') = Adjusted(q, t, adjustment)
  BY AdjustedSame
<1> QED  BY <1>1 DEF AddsUp, Stated

\* A period whose totals a step computes, and that is not finalised, adds up.
LEMMA Recomputed ==
    ASSUME NEW p, NEW kept,
           statement'[p] = Totals(p, item'[p], adjustment', kept), period'[p] # "FINALIZED"
    PROVE  AddsUp(p)'
<1>1. Stated(p)' = kept
  BY DEF Stated, Totals
<1>2. \A t \in kept : /\ statement'[p][t].earnings = Earned(Items(p, t, item'[p]))
                      /\ statement'[p][t].adjustments = Adjusted(p, t, adjustment')
  BY DEF Totals
<1> QED  BY <1>1, <1>2 DEF AddsUp

LEMMA AddUpStep ==
    ASSUME Typed, NoOverlap, StatementsAddUp, FinalizingSound, [CompensationNext]_compensationVars
    PROVE  StatementsAddUp'
<1>1. \A q \in Periods : AddsUp(q)
  BY DEF StatementsAddUp, AddsUp
<1>2. SUFFICES \A q \in Periods : AddsUp(q)'
  BY DEF StatementsAddUp, AddsUp
<1>3. CASE UNCHANGED PeriodTables
  BY <1>1, <1>3, AddsUpKept DEF PeriodTables
<1>4. ASSUME NEW p \in Periods, CreatePeriod(p)
      PROVE  \A q \in Periods : AddsUp(q)'
  <2>1. UNCHANGED <<item, adjustment, statement>> /\ period'[p] = "DRAFT"
        /\ \A q \in Periods \ {p} : period'[q] = period[q]
    BY <1>4 DEF CreatePeriod, Typed
  <2>2. \A q \in Periods \ {p} : AddsUp(q)'
    BY <1>1, <2>1, AddsUpKept
  <2>3. AddsUp(p)'
    BY <1>1, <2>1 DEF AddsUp, Stated
  <2> QED  BY <2>2, <2>3
<1>5. ASSUME NEW f \in finalizing, FinalizePeriod(f)
      PROVE  \A q \in Periods : AddsUp(q)'
  <2> DEFINE p == f.period
  <2>0. p \in Periods
    BY DEF Typed
  <2>1. UNCHANGED <<item, adjustment, statement>>
        /\ \A q \in Periods \ {p} : period'[q] = period[q]
    BY <1>5 DEF FinalizePeriod, Typed
  <2>2. \A q \in Periods \ {p} : AddsUp(q)'
    BY <1>1, <2>1, AddsUpKept
  <2>3. \A t \in Stated(p) : statement[p][t].earnings + statement[p][t].adjustments >= 0
    BY <1>5 DEF FinalizePeriod, FinalizingSound
  <2> HIDE DEF p
  <2>4. AddsUp(p)'
    BY <1>1, <2>0, <2>1, <2>3 DEF AddsUp, Stated
  <2> QED  BY <2>2, <2>4
<1>6. ASSUME NEW p \in Periods, GeneratePeriod(p)
      PROVE  \A q \in Periods : AddsUp(q)'
  <2>1. /\ item'[p] = DueItems(p) /\ period'[p] = "GENERATED" /\ adjustment' = adjustment
        /\ statement'[p] = Totals(p, DueItems(p), adjustment, Needed(p, DueItems(p)))
        /\ \A q \in Periods \ {p} :
              item'[q] = item[q] /\ statement'[q] = statement[q] /\ period'[q] = period[q]
    BY <1>6, GenerateWrites DEF Typed
  <2>2. AddsUp(p)'
    BY <2>1, Recomputed
  <2>3. \A q \in Periods \ {p} : AddsUp(q)'
    BY <1>1, <2>1, AddsUpKept
  <2> QED  BY <2>2, <2>3
<1>7. ASSUME NEW p \in Periods, NEW i \in Adjustments, NEW t \in Staff, NEW amount \in Amounts,
             AddAdjustment(p, i, t, amount)
      PROVE  \A q \in Periods : AddsUp(q)'
  <2>1. /\ item' = item /\ period' = period /\ period[p] # "FINALIZED"
        /\ statement'[p] = Totals(p, item[p], adjustment', Stated(p) \cup {t})
        /\ \A q \in Periods \ {p} : statement'[q] = statement[q]
    BY <1>7 DEF AddAdjustment, Draft, Typed
  <2>2. AddsUp(p)'
    BY <2>1, Recomputed
  <2>3. /\ adjustment[i] = Unset /\ adjustment'[i].period = p
        /\ \A j \in Adjustments \ {i} : adjustment'[j] = adjustment[j]
    BY <1>7, AddWrites
  <2>4. \A q \in Periods \ {p} : AddsUp(q)'
    BY <1>1, <2>1, <2>3, AddsUpKept
  <2> QED  BY <2>2, <2>4
<1>8. ASSUME NEW i \in Adjustments, RemoveAdjustment(i)
      PROVE  \A q \in Periods : AddsUp(q)'
  <2>1. PICK p \in Periods : p = adjustment[i].period
    BY <1>8, RemoveWrites
  <2>2. /\ item' = item /\ period' = period /\ period[p] # "FINALIZED"
        /\ statement'[p] = Totals(p, item[p], adjustment', Stated(p))
        /\ \A q \in Periods \ {p} : statement'[q] = statement[q]
    BY <1>8, <2>1 DEF RemoveAdjustment, Draft, Typed
  <2>3. AddsUp(p)'
    BY <2>2, Recomputed
  <2>4. adjustment'[i] = Unset /\ \A j \in Adjustments \ {i} : adjustment'[j] = adjustment[j]
    BY <1>8, RemoveWrites
  <2>5. \A q \in Periods \ {p} : AddsUp(q)'
    BY <1>1, <2>1, <2>2, <2>4, AddsUpKept
  <2> QED  BY <2>3, <2>5
<1> QED  BY <1>3, <1>4, <1>5, <1>6, <1>7, <1>8, TableSteps

-----------------------------------------------------------------------------
(* A finalize, from its check of items to its UPDATE. *)

\* A draft that has the items of the completed sessions pays for each that an
\* agreement covers, by the session or for the whole class.
LEMMA DraftPays ==
    ASSUME Typed, NoOverlap, AgreementsSound, NEW p \in Periods, ItemsCanonical(p),
           NEW l \in held, Within(p, LessonOf[l].date), Canonical(l) # {}
    PROVE  PaidFor(l, p)
<1>1. l \in Done(p)
  BY DEF Done
<1>3. PICK a \in Found(l, p) : TRUE
  BY <1>1, FoundIsCanonical
<1>4. /\ a \in Made /\ Covers(agreement[a], LessonOf[l].date)
      /\ agreement[a].class \in {LessonOf[l].class, EveryClass}
  BY <1>1, <1>3, FoundOnce
<1>5. CASE agreement[a].basis = "FIXED_CLASS"
  <2>1. agreement[a].class # EveryClass
    BY <1>4, <1>5 DEF AgreementsSound
  <2> QED  BY <1>4, <1>5, <2>1 DEF PaidFor
<1>6. CASE agreement[a].basis # "FIXED_CLASS"
  <2>1. SessionItem(l, a) \in ExpectedItems(p)
    <3>1. a \in Canonical(l)
      BY <1>1, <1>3, FoundIsCanonical
    <3>2. SessionItem(l, a) \in SessionItems(l, Canonical(l))
      BY <1>6, <3>1 DEF SessionItems
    <3> QED  BY <1>1, <3>2 DEF ExpectedItems
  <2>2. SessionItem(l, a) \in item[p]
    BY <2>1 DEF ItemsCanonical
  <2>3. SessionItem(l, a).source = l /\ SessionItem(l, a).agreement = a
    BY DEF SessionItem
  <2> QED  BY <1>4, <2>2, <2>3 DEF PaidFor
<1> QED  BY <1>5, <1>6

\* Sessions completed meanwhile take nothing from what a finalize has found.
LEMMA FinalizingKept ==
    ASSUME FinalizingSound, finalizing' = finalizing, held \subseteq held',
           UNCHANGED <<agreement, item, unresolved, statement>>
    PROVE  FinalizingSound'
<1>1. \A l : Canonical(l)' = Canonical(l)
  BY DEF Canonical, Made
<1>2. \A l, p : PaidFor(l, p)' = PaidFor(l, p)
  BY DEF PaidFor, Made
<1>3. \A p : Stated(p)' = Stated(p)
  BY DEF Stated
<1> QED  BY <1>1, <1>2, <1>3 DEF FinalizingSound

LEMMA FinalizingStep ==
    ASSUME Typed, NoOverlap, AgreementsSound, FinalizingSound, [CompensationNext]_compensationVars
    PROVE  FinalizingSound'
<1>1. CASE finalizing' = {}
  BY <1>1 DEF FinalizingSound
<1>2. CASE finalizing' = finalizing /\ UNCHANGED <<agreement, item, unresolved, statement>>
  BY <1>2, PaySteps, FinalizingKept
<1>3. ASSUME NEW p \in Periods, BeginFinalize(p)
      PROVE  FinalizingSound'
  <2>1. \A l \in held : Within(p, LessonOf[l].date) /\ Canonical(l) # {} => PaidFor(l, p)
    BY <1>3, DraftPays DEF BeginFinalize
  <2>2. /\ finalizing' = {[period |-> p, seen |-> held, checked |-> FALSE]}
        /\ unresolved' = unresolved /\ unresolved[p] = {} /\ held' = held
    BY <1>3 DEF BeginFinalize
  <2>3. \A l : Canonical(l)' = Canonical(l) /\ PaidFor(l, p)' = PaidFor(l, p)
    BY <1>3 DEF BeginFinalize, Canonical, PaidFor, Made
  <2>4. ASSUME NEW f \in finalizing'
        PROVE  /\ unresolved'[f.period] = {} /\ ~f.checked
               /\ \A l \in f.seen : Within(f.period, LessonOf[l].date) =>
                     l \in held' /\ (Canonical(l)' # {} => PaidFor(l, f.period)')
    <3>1. f.period = p /\ f.seen = held /\ f.checked = FALSE
      BY <2>2
    <3> QED  BY <2>1, <2>2, <2>3, <3>1
  <2> QED  BY <2>4 DEF FinalizingSound
<1>4. ASSUME NEW f \in finalizing, CheckRest(f)
      PROVE  FinalizingSound'
  <2> DEFINE g == [f EXCEPT !.checked = TRUE]
  <2>1. f.period \in Periods /\ g.period = f.period /\ g.seen = f.seen
    BY DEF Typed
  <2>2. /\ finalizing' = {g} /\ held' = held
        /\ UNCHANGED <<unresolved, statement>>
    BY <1>4 DEF CheckRest
  <2>3. \A l : Canonical(l)' = Canonical(l) /\ PaidFor(l, f.period)' = PaidFor(l, f.period)
    BY <1>4 DEF CheckRest, Canonical, PaidFor, Made
  <2>4. /\ unresolved[f.period] = {}
        /\ \A l \in f.seen : Within(f.period, LessonOf[l].date) =>
              l \in held /\ (Canonical(l) # {} => PaidFor(l, f.period))
    BY DEF FinalizingSound
  <2>5. ASSUME NEW l \in f.seen, Within(f.period, LessonOf[l].date)
        PROVE  Canonical(l) # {}
    <3>1. l \in Done(f.period)
      BY <2>4, <2>5 DEF Done
    <3>2. ExpectedUnresolved(f.period) = {}
      BY <1>4, <2>4 DEF CheckRest
    <3> QED  BY <3>1, <3>2 DEF ExpectedUnresolved
  <2>6. \A t \in Stated(f.period) :
           statement[f.period][t].earnings + statement[f.period][t].adjustments >= 0
    BY <1>4 DEF CheckRest
  <2>7. \A t \in Stated(f.period)' :
           statement'[f.period][t].earnings + statement'[f.period][t].adjustments >= 0
    BY <2>2, <2>6 DEF Stated
  <2> HIDE DEF g
  <2> QED  BY <2>1, <2>2, <2>3, <2>4, <2>5, <2>7 DEF FinalizingSound
<1> QED  BY <1>1, <1>2, <1>3, <1>4, FinalizingWrites

-----------------------------------------------------------------------------
(* The inductive invariant, and what follows from it. *)

LEMMA InvInit == CompensationInit => CInv
<1> SUFFICES ASSUME CompensationInit
             PROVE  CInv
  OBVIOUS
<1>1. Made = {} /\ \A p \in Periods : Stated(p) = {}
  BY DEF CompensationInit, Made, Stated
<1>2. Typed
  BY DEF CompensationInit, Typed
<1>3. AgreementsSound /\ NoOverlap
  BY <1>1 DEF AgreementsSound, NoOverlap
<1>4. RowsStated /\ OneClaim
  BY DEF CompensationInit, RowsStated, OneClaim, Claims
<1>5. StatementsAddUp /\ FinalizingSound
  BY <1>1 DEF CompensationInit, StatementsAddUp, FinalizingSound
<1> QED  BY <1>2, <1>3, <1>4, <1>5 DEF CInv

\* Rows stay typed, agreements of one teacher and scope apart, items and adjustments
\* with their statement, sessions claimed once and totals true, whatever staff do.
THEOREM Invariance == CompensationSpec => []CInv
<1>1. CInv /\ [CompensationNext]_compensationVars => CInv'
  BY TypedStep, SoundStep, NoOverlapStep, RowsStatedStep, OneClaimStep, AddUpStep, FinalizingStep DEF CInv
<1> QED  BY <1>1, InvInit, PTL DEF CompensationSpec

LEMMA AtMostOne ==
    ASSUME NEW S, \A x, y \in S : x = y
    PROVE  Cardinality(S) <= 1
<1>1. CASE S = {}
  BY <1>1, FS_EmptySet
<1>2. ASSUME NEW x \in S
      PROVE  Cardinality(S) <= 1
  <2>1. S = {x}
    OBVIOUS
  <2> QED  BY <2>1, FS_Singleton
<1> QED  BY <1>1, <1>2

LEMMA InvClaims == ASSUME CInv PROVE ClaimedOnce
<1> SUFFICES ASSUME NEW l \in Lessons
             PROVE  /\ Cardinality({p \in Periods : l \in unresolved[p]}
                                   \cup {p \in Periods : \E i \in item[p] : i.source = l}) <= 1
                    /\ \A p \in Periods : Cardinality({i \in item[p] : i.source = l}) <= 1
                    /\ \A p \in Periods : l \in unresolved[p] => \A i \in item[p] : i.source # l
  BY DEF ClaimedOnce
<1> DEFINE S == {p \in Periods : l \in unresolved[p]} \cup {p \in Periods : \E i \in item[p] : i.source = l}
           T(p) == {i \in item[p] : i.source = l}
<1>1. Cardinality(S) <= 1
  <2>1. \A p, q \in S : p = q
    BY DEF CInv, OneClaim, Claims
  <2> HIDE DEF S
  <2> QED  BY <2>1, AtMostOne
<1>2. ASSUME NEW p \in Periods
      PROVE  Cardinality(T(p)) <= 1
  <2>1. \A i, j \in T(p) : i = j
    BY DEF CInv, OneClaim
  <2> HIDE DEF T
  <2> QED  BY <2>1, AtMostOne
<1>3. \A p \in Periods : l \in unresolved[p] => \A i \in item[p] : i.source # l
  BY DEF CInv, OneClaim
<1> QED  BY <1>1, <1>2, <1>3

\* Over all periods, overlapping ones included, a session is paid once or unresolved
\* once; the stored totals are those of the rows; and what generate finds is what
\* finalize checks, for any agreements, periods and adjustments.
THEOREM CompensationStaysSafe == CompensationSpec => []CompensationSafe
<1>1. CInv => CompensationTypeOK
  BY DEF CInv, Typed, AgreementsSound, NoOverlap, RowsStated, CompensationTypeOK
<1>2. CInv => ClaimedOnce
  BY InvClaims
<1>3. CInv => StatementsAddUp /\ GenerationMeetsCheck /\ GeneratesUnlessFixed
  BY DraftsMeetCheck, GenerationsAccepted DEF CInv
<1>4. CInv => CompensationSafe
  BY <1>1, <1>2, <1>3 DEF CompensationSafe
<1> QED  BY <1>4, Invariance, PTL

-----------------------------------------------------------------------------
(* What pays for work stays. *)

\* A period is finalised with every session that its check of items saw paid.
LEMMA OnlyFinalizing ==
    ASSUME Typed, FinalizingSound, [CompensationNext]_compensationVars, NEW p \in Periods,
           period[p] # "FINALIZED", period'[p] = "FINALIZED"
    PROVE  \E f \in finalizing :
              f.period = p /\ \A l \in f.seen : Within(p, LessonOf[l].date) => PaidFor(l, p)
<1>1. CASE UNCHANGED period
  BY <1>1
<1>2. ASSUME NEW q \in Periods, CreatePeriod(q) \/ GeneratePeriod(q)
      PROVE  FALSE
  BY <1>2 DEF CreatePeriod, GeneratePeriod, Typed
<1>3. ASSUME NEW f \in finalizing, FinalizePeriod(f)
      PROVE  f.period = p /\ f.checked
  BY <1>3 DEF FinalizePeriod, Typed
<1>4. ASSUME NEW f \in finalizing, f.checked
      PROVE  \A l \in f.seen : Within(f.period, LessonOf[l].date) => PaidFor(l, f.period)
  BY <1>4 DEF FinalizingSound
<1> QED
  BY <1>1, <1>2, <1>3, <1>4, TableSteps DEF PeriodTables, AddAdjustment, RemoveAdjustment

\* A finalised period has no step of its own.
LEMMA Frozen ==
    ASSUME Typed, NoOverlap, [CompensationNext]_compensationVars, NEW p \in Periods,
           period[p] = "FINALIZED"
    PROVE  /\ period'[p] = "FINALIZED"
           /\ item'[p] = item[p] /\ unresolved'[p] = unresolved[p] /\ statement'[p] = statement[p]
           /\ \A i \in Adjustments :
                 adjustment[i] # Unset /\ adjustment[i].period = p => adjustment'[i] = adjustment[i]
<1> DEFINE Same == /\ period'[p] = "FINALIZED"
                   /\ item'[p] = item[p] /\ unresolved'[p] = unresolved[p] /\ statement'[p] = statement[p]
                   /\ \A i \in Adjustments :
                         adjustment[i] # Unset /\ adjustment[i].period = p
                            => adjustment'[i] = adjustment[i]
<1>1. ASSUME UNCHANGED PeriodTables
      PROVE  Same
  BY <1>1 DEF PeriodTables
<1>2. ASSUME NEW q \in Periods, CreatePeriod(q)
      PROVE  Same
  BY <1>2 DEF CreatePeriod, Typed
<1>7. ASSUME NEW f \in finalizing, FinalizePeriod(f)
      PROVE  Same
  BY <1>7 DEF FinalizePeriod, Typed
<1>3. ASSUME NEW q \in Periods, GeneratePeriod(q)
      PROVE  Same
  <2>1. q # p
    BY <1>3 DEF GeneratePeriod, Draft
  <2> QED  BY <1>3, <2>1, GenerateWrites DEF Typed
<1>4. ASSUME NEW q \in Periods, NEW i \in Adjustments, NEW t \in Staff, NEW amount \in Amounts,
             AddAdjustment(q, i, t, amount)
      PROVE  Same
  <2>1. q # p
    BY <1>4 DEF AddAdjustment, Draft
  <2>2. \A j \in Adjustments : adjustment[j] # Unset => adjustment'[j] = adjustment[j]
    BY <1>4, AddWrites
  <2> QED  BY <1>4, <2>1, <2>2 DEF AddAdjustment, Typed
<1>5. ASSUME NEW i \in Adjustments, RemoveAdjustment(i)
      PROVE  Same
  <2>1. adjustment[i].period # p
    BY <1>5 DEF RemoveAdjustment, Draft
  <2>2. \A j \in Adjustments \ {i} : adjustment'[j] = adjustment[j]
    BY <1>5, RemoveWrites
  <2> QED  BY <1>5, <2>1, <2>2 DEF RemoveAdjustment, Typed
<1>6. Same
  <2> HIDE DEF Same
  <2> QED  BY <1>1, <1>2, <1>3, <1>4, <1>5, <1>7, TableSteps
<1> QED  BY <1>6

LEMMA CoverageKept ==
    ASSUME Typed, [CompensationNext]_compensationVars, NEW a \in Made, NEW d \in Int,
           Covers(agreement'[a], d), ~Covers(agreement[a], d)
    PROVE  /\ agreement[a].until # Open
           /\ \E b \in Made' \ Made : agreement'[a].until = agreement'[b].from - 1
<1>0. agreement[a] \in AgreementRow /\ a \in Agreements
  BY MadeTyped
<1>1. CASE agreement'[a] = agreement[a]
  BY <1>1
<1>2. ASSUME NEW c \in Agreements, NEW f \in AgreementForms,
             c \notin Made, agreement' = [agreement EXCEPT ![c] = f]
      PROVE  agreement'[a] = agreement[a]
  BY <1>2 DEF Typed
<1>3. ASSUME NEW c \in Made, NEW b \in Agreements \ Made, NEW f \in AgreementForms,
             f.from > agreement[c].from,
             agreement' = [agreement EXCEPT ![c].until = f.from - 1, ![b] = f], c = a
      PROVE  /\ agreement[a].until # Open
             /\ \E e \in Made' \ Made : agreement'[a].until = agreement'[e].from - 1
  <2>1. a # b /\ f # Unset /\ f.from \in Int
    BY CompensationAssumption DEF AgreementRow
  <2>2. agreement'[a] = [agreement[a] EXCEPT !.until = f.from - 1] /\ agreement'[b] = f
    BY <1>0, <1>3, <2>1 DEF Typed
  <2>3. agreement'[a].until = f.from - 1 /\ agreement'[a].from = agreement[a].from
    BY <1>0, <2>2 DEF AgreementRow
  <2>4. b \in Made' \ Made
    BY <2>1, <2>2 DEF Made
  <2>5. agreement[a].until # Open
    BY <2>3 DEF Covers, Until
  <2> QED  BY <2>2, <2>3, <2>4, <2>5
<1>4. ASSUME NEW c \in Made, NEW e \in Int, agreement[c].until = Open,
             agreement' = [agreement EXCEPT ![c].until = e], c = a
      PROVE  FALSE
  <2>1. agreement'[a] = [agreement[a] EXCEPT !.until = e]
    BY <1>0, <1>4 DEF Typed
  <2>2. agreement'[a].from = agreement[a].from
    BY <1>0, <2>1 DEF AgreementRow
  <2> QED  BY <1>4, <2>2 DEF Covers, Until
<1>5. ASSUME NEW c \in Made, NEW b \in Agreements \ Made, NEW f \in AgreementForms,
             agreement' = [agreement EXCEPT ![c].until = f.from - 1, ![b] = f], c # a
      PROVE  agreement'[a] = agreement[a]
  BY <1>0, <1>5 DEF Typed
<1>6. ASSUME NEW c \in Made, NEW e \in Int, agreement' = [agreement EXCEPT ![c].until = e], c # a
      PROVE  agreement'[a] = agreement[a]
  BY <1>0, <1>6 DEF Typed
<1>7. CASE UNCHANGED agreement
  BY <1>7
<1>8. CASE \E c \in Agreements, f \in AgreementForms :
              c \notin Made /\ agreement' = [agreement EXCEPT ![c] = f]
  BY <1>1, <1>2, <1>8
<1>9. CASE \E c \in Made, b \in Agreements \ Made, f \in AgreementForms :
              f.from > agreement[c].from /\ agreement' = [agreement EXCEPT ![c].until = f.from - 1, ![b] = f]
  <2>1. PICK c \in Made, b \in Agreements \ Made, f \in AgreementForms :
           f.from > agreement[c].from /\ agreement' = [agreement EXCEPT ![c].until = f.from - 1, ![b] = f]
    BY <1>9
  <2>2. CASE c = a
    <3> HIDE DEF Covers, Made
    <3> QED  BY <1>3, <2>1, <2>2
  <2>3. CASE c # a
    BY <1>1, <1>5, <2>1, <2>3
  <2> QED  BY <2>2, <2>3
<1>10. CASE \E c \in Made : \E e \in Int :
               agreement[c].until = Open /\ agreement' = [agreement EXCEPT ![c].until = e]
  <2>1. PICK c \in Made, e \in Int :
           agreement[c].until = Open /\ agreement' = [agreement EXCEPT ![c].until = e]
    BY <1>10
  <2>2. CASE c = a
    BY <1>4, <2>1, <2>2
  <2>3. CASE c # a
    BY <1>1, <1>6, <2>1, <2>3
  <2> QED  BY <2>2, <2>3
<1> QED  BY <1>7, <1>8, <1>9, <1>10, AgreementWrites

\* What pays for work, once it does, stays: periods are finalised with all the work
\* paid that their check of items saw, finalised ones are frozen, and agreements only
\* ever lose days, but for the gap a replacement fills.
THEOREM PayStays == CompensationSpec => PayStands
<1>1. CInv /\ [CompensationNext]_compensationVars =>
        [\A p \in Periods : (period[p] # "FINALIZED" /\ period'[p] = "FINALIZED") =>
            \E f \in finalizing :
                f.period = p /\ \A l \in f.seen : Within(p, LessonOf[l].date) => PaidFor(l, p)]_compensationVars
  BY OnlyFinalizing DEF CInv
<1>2. CInv /\ [CompensationNext]_compensationVars =>
        [\A p \in Periods : period[p] = "FINALIZED" =>
            /\ period'[p] = "FINALIZED"
            /\ item'[p] = item[p] /\ unresolved'[p] = unresolved[p] /\ statement'[p] = statement[p]
            /\ \A i \in Adjustments :
                (adjustment[i] # Unset /\ adjustment[i].period = p) => adjustment'[i] = adjustment[i]]_compensationVars
  BY Frozen DEF CInv
<1>3. CInv /\ [CompensationNext]_compensationVars =>
        [\A a \in Made : \A l \in Lessons :
            LET d == LessonOf[l].date IN
            (Covers(agreement'[a], d) /\ ~Covers(agreement[a], d)) =>
                /\ agreement[a].until # Open
                /\ \E b \in Made' \ Made : agreement'[a].until = agreement'[b].from - 1]_compensationVars
  BY CoverageKept, CompensationAssumption DEF CInv
<1> QED
  BY <1>1, <1>2, <1>3, Invariance, PTL
  DEF CompensationSpec, PayStands, FinalizingCoversWork, FinalizedIsFrozen, CoverageOnlyShrinks

-----------------------------------------------------------------------------
(* The invariant of the academic records: what a command checked under its   *)
(* locks holds until it commits.                                             *)

ClassRow ==
    [course : Courses, level : Levels \cup {Nothing}, branch : Branches \cup {Nothing},
     room : Rooms \cup {Nothing}, teacher : Teachers \cup {Nothing}, until : SchoolDays \cup {Nothing}]

LessonRow == [class : Classes, day : SchoolDays]

AcademyTyped ==
    /\ enabled \in [Rows -> BOOLEAN]
    /\ site \in [Rooms -> Branches \cup {Nothing}]
    /\ staff \in [Teachers -> SUBSET Branches]
    /\ class \in [Classes -> ClassRow \cup {Nothing}]
    /\ lesson \in [SessionIds -> LessonRow \cup {Nothing}]
    /\ DOMAIN clerk = Clerks

LocksHold ==
    \A p, q \in Clerks : p # q =>
        \A x \in Locks(p), y \in Locks(q) : x[1] = y[1] => x[2] = "S" /\ y[2] = "S"

RoomsInBranch ==
    \A c \in Classes : class[c] # Nothing /\ class[c].room # Nothing =>
        site[class[c].room] # Nothing /\ site[class[c].room] = class[c].branch

\* What class c refers to already.
Kept(c) == IF class[c] = Nothing THEN {} ELSE Uses(class[c])

\* The commands, by what they have checked.
Moving(q) ==
    LET r == clerk[q].of
    IN /\ r \in Rooms /\ clerk[q].plan \in Branches
       /\ <<r, "X">> \in clerk[q].locks
       /\ site[r] # Nothing
       /\ clerk[q].plan # site[r] => ~Referenced(r)

Composing(q) ==
    LET c == clerk[q].of
        m == clerk[q].plan
    IN /\ c \in Classes /\ m \in Composition
       /\ ClassLocks(c, m) \subseteq clerk[q].locks
       /\ Fits(m, Uses(m) \ Kept(c))

Completing(q) ==
    LET c == clerk[q].of
    IN /\ c \in Classes /\ clerk[q].plan.day \in SchoolDays
       /\ <<c, "X">> \in clerk[q].locks
       /\ class[c] # Nothing
       /\ LessonsOf(c) \subseteq clerk[q].plan.before

Generating(q) == clerk[q].of \in Classes /\ clerk[q].plan \in SchoolDays

Checked(q) ==
    /\ Doing(q, "move") => Moving(q)
    /\ Doing(q, "class") => Composing(q)
    /\ Doing(q, "complete") => Completing(q)
    /\ Doing(q, "generate") => Generating(q)

AllChecked == \A q \in Clerks : Checked(q)

AcademyInv ==
    /\ AcademyTyped
    /\ LocksHold
    /\ RoomsInBranch
    /\ AllChecked

-----------------------------------------------------------------------------
(* Locks *)

\* A row that q would take, or has, for itself is in no other command's locks.
LEMMA Alone ==
    ASSUME NEW q \in Clerks, NEW wanted, Grantable(q, wanted), NEW p \in Clerks \ {q}, clerk[p] # Nothing,
           NEW r
    PROVE  /\ <<r, "X">> \in wanted => <<r, "X">> \notin clerk[p].locks /\ <<r, "S">> \notin clerk[p].locks
           /\ <<r, "S">> \in wanted => <<r, "X">> \notin clerk[p].locks
BY DEF Grantable, Locks

LEMMA Apart ==
    ASSUME AcademyInv, NEW p \in Clerks, NEW q \in Clerks, p # q, clerk[p] # Nothing, clerk[q] # Nothing, NEW r
    PROVE  <<r, "X">> \in clerk[q].locks => <<r, "X">> \notin clerk[p].locks /\ <<r, "S">> \notin clerk[p].locks
BY DEF AcademyInv, LocksHold, Locks

LEMMA Asked ==
    ASSUME NEW rows, NEW r, r # Nothing, r \in rows
    PROVE  <<r, "X">> \in Exclusive(rows) /\ <<r, "S">> \in Shared(rows)
BY DEF Exclusive, Shared

\* Rows and classes are something.
LEMMA Something ==
    /\ \A r \in Rows : r # Nothing
    /\ \A c \in Classes : c # Nothing
    /\ Branches \subseteq Rows /\ Rooms \subseteq Rows /\ Courses \subseteq Rows
    /\ Levels \subseteq Rows /\ Teachers \subseteq Rows
BY AcademyAssumption DEF Rows

\* What a composition uses, it locks.
LEMMA UsesLocked ==
    ASSUME NEW q, NEW c, NEW m \in Composition, ClassLocks(c, m) \subseteq clerk[q].locks
    PROVE  /\ \A r \in Uses(m) : <<r, "S">> \in clerk[q].locks
           /\ c # Nothing => <<c, "X">> \in clerk[q].locks
           /\ m.level # Nothing => m.level \in Uses(m)
           /\ m.room # Nothing => m.room \in Uses(m) /\ m.room \in Rooms
           /\ m.teacher # Nothing => m.teacher \in Uses(m) /\ m.teacher \in Teachers
<1>1. \A r \in Uses(m) : r # Nothing
  BY DEF Uses
<1>2. \A r \in Uses(m) : <<r, "S">> \in ClassLocks(c, m)
  BY <1>1, Asked DEF ClassLocks
<1>3. c # Nothing => <<c, "X">> \in ClassLocks(c, m)
  BY Asked DEF ClassLocks
<1> QED  BY <1>2, <1>3 DEF Uses, Composition

LEMMA AcademyStarts == AcademyInit => AcademyInv
<1> SUFFICES ASSUME AcademyInit  PROVE AcademyInv
  OBVIOUS
<1>1. \A q \in Clerks : clerk[q] = Nothing
  BY DEF AcademyInit
<1>2. AcademyTyped /\ RoomsInBranch
  BY DEF AcademyInit, AcademyTyped, RoomsInBranch
<1> QED  BY <1>1, <1>2 DEF AcademyInv, LocksHold, Locks, AllChecked, Checked, Doing

\* A command that begins or ends leaves the others as they were.
LEMMA StartKeeps ==
    ASSUME AcademyInv, NEW q \in Clerks, NEW op, NEW of, NEW plan, NEW locks, Start(q, op, of, plan, locks),
           UNCHANGED <<enabled, site, staff, class, lesson>>,
           Checked(q)'
    PROVE  AcademyInv'
<1>1. /\ clerk' = [clerk EXCEPT ![q] = [op |-> op, of |-> of, plan |-> plan, locks |-> locks]]
      /\ DOMAIN clerk = Clerks /\ Grantable(q, locks)
  BY DEF Start, AcademyInv, AcademyTyped
<1>2. DOMAIN clerk' = Clerks /\ \A p \in Clerks \ {q} : clerk'[p] = clerk[p]
  BY <1>1
<1>3. Locks(q)' \subseteq locks
  BY <1>1 DEF Locks
<1>4. \A p \in Clerks \ {q} : Locks(p)' = Locks(p)
  BY <1>2 DEF Locks
<1>5. LocksHold'
  BY <1>1, <1>3, <1>4 DEF AcademyInv, LocksHold, Grantable
<1>6. \A p \in Clerks \ {q} : Checked(p)'
  BY <1>2 DEF AcademyInv, AllChecked, Checked, Doing, Moving, Composing, Completing, Generating, Referenced, Fits, Kept,
     LessonsOf
<1> QED  BY <1>2, <1>5, <1>6 DEF AcademyInv, AcademyTyped, RoomsInBranch, AllChecked

\* A commit ends a command; what the others have checked has to be shown.
LEMMA CommitKeeps ==
    ASSUME AcademyInv, NEW q \in Clerks, clerk' = clerk \/ Commit(q),
           RoomsInBranch',
           enabled' \in [Rows -> BOOLEAN],
           site' \in [Rooms -> Branches \cup {Nothing}],
           staff' \in [Teachers -> SUBSET Branches],
           class' \in [Classes -> ClassRow \cup {Nothing}],
           lesson' \in [SessionIds -> LessonRow \cup {Nothing}],
           \A p \in Clerks : (clerk[p] # Nothing /\ clerk'[p] = clerk[p]) => Checked(p)'
    PROVE  AcademyInv'
<1>1. DOMAIN clerk' = Clerks /\ \A p \in Clerks : clerk'[p] = clerk[p] \/ clerk'[p] = Nothing
  BY DEF Commit, AcademyInv, AcademyTyped
<1>2. \A p \in Clerks : Locks(p)' = Locks(p) \/ Locks(p)' = {}
  BY <1>1 DEF Locks
<1>3. LocksHold'
  BY <1>2 DEF AcademyInv, LocksHold
<1>4. AllChecked'
  <2>1. ASSUME NEW p \in Clerks, clerk'[p] = Nothing  PROVE Checked(p)'
    BY <2>1 DEF Checked, Doing
  <2> QED  BY <1>1, <2>1 DEF AllChecked
<1> QED  BY <1>1, <1>3, <1>4 DEF AcademyInv, AcademyTyped

LEMMA RollbackKeeps ==
    ASSUME AcademyInv, NEW q \in Clerks, Rollback(q)
    PROVE  AcademyInv'
<1>1. Commit(q) /\ UNCHANGED <<enabled, site, staff, class, lesson>>
  BY DEF Rollback
<1>2. RoomsInBranch'
  BY <1>1 DEF AcademyInv, RoomsInBranch
<1>3. ASSUME NEW p \in Clerks, clerk'[p] = clerk[p]  PROVE Checked(p)'
  BY <1>1, <1>3 DEF AcademyInv, AllChecked, Checked, Doing, Moving, Composing, Completing, Generating, Referenced, Fits, Kept,
     LessonsOf
<1> QED  BY <1>1, <1>2, <1>3, CommitKeeps DEF AcademyInv, AcademyTyped

\* What a step must leave alone, for a check to remain true.
LEMMA StillComposing ==
    ASSUME AcademyInv, NEW p \in Clerks, clerk'[p] = clerk[p], Composing(p),
           \A r \in Rows : <<r, "S">> \in clerk[p].locks =>
              /\ enabled'[r] = enabled[r]
              /\ r \in Rooms => site'[r] = site[r]
              /\ r \in Teachers => staff'[r] = staff[r],
           \A c \in Classes : <<c, "X">> \in clerk[p].locks => class'[c] = class[c]
    PROVE  Composing(p)'
<1> DEFINE c == clerk[p].of
           m == clerk[p].plan
<1>1. c \in Classes /\ m \in Composition /\ ClassLocks(c, m) \subseteq clerk[p].locks /\ Fits(m, Uses(m) \ Kept(c))
  BY DEF Composing
<1>2. \A r \in Uses(m) : r \in Rows
  BY <1>1 DEF Uses, Composition, Rows
<1>3. \A r \in Uses(m) :
         /\ enabled'[r] = enabled[r]
         /\ r \in Rooms => site'[r] = site[r]
         /\ r \in Teachers => staff'[r] = staff[r]
  BY <1>1, <1>2, UsesLocked
<1>4. class'[c] = class[c]
  BY <1>1, Something, UsesLocked
<1>5. /\ m.room # Nothing => site'[m.room] = site[m.room]
      /\ m.teacher # Nothing => staff'[m.teacher] = staff[m.teacher]
  BY <1>1, <1>3, UsesLocked
<1> HIDE DEF c, m
<1>6. /\ \A r \in Uses(m) \cap (Uses(m) \ Kept(c)) : enabled'[r]
      /\ m.level # Nothing => CourseOf[m.level] = m.course
      /\ m.room # Nothing => site'[m.room] # Nothing /\ site'[m.room] = m.branch
      /\ m.teacher # Nothing /\ m.branch # Nothing => m.branch \in staff'[m.teacher]
  BY <1>1, <1>3, <1>5 DEF Fits
<1> QED  BY <1>1, <1>4, <1>6 DEF c, m, Composing, Fits, Kept

LEMMA StillMoving ==
    ASSUME AcademyInv, NEW p \in Clerks, clerk'[p] = clerk[p], Moving(p),
           \A r \in Rooms : <<r, "X">> \in clerk[p].locks =>
              /\ site'[r] = site[r]
              /\ \A c \in Classes : class'[c] # Nothing /\ class'[c].room = r => class[c] # Nothing /\ class[c].room = r
    PROVE  Moving(p)'
BY DEF Moving, Referenced

LEMMA StillCompleting ==
    ASSUME AcademyInv, NEW p \in Clerks, clerk'[p] = clerk[p], Completing(p),
           \A c \in Classes : <<c, "X">> \in clerk[p].locks =>
              /\ class'[c] = class[c]
              /\ LessonsOf(c)' \subseteq LessonsOf(c)
    PROVE  Completing(p)'
BY DEF Completing

\* The three together: what nobody may change under the locks of p.
LockedKept(p) ==
    /\ \A r \in Rows : <<r, "S">> \in clerk[p].locks =>
          /\ enabled'[r] = enabled[r]
          /\ r \in Rooms => site'[r] = site[r]
          /\ r \in Teachers => staff'[r] = staff[r]
    /\ \A r \in Rooms : <<r, "X">> \in clerk[p].locks =>
          /\ site'[r] = site[r]
          /\ \A c \in Classes : class'[c] # Nothing /\ class'[c].room = r => class[c] # Nothing /\ class[c].room = r
    /\ \A c \in Classes : <<c, "X">> \in clerk[p].locks =>
          /\ class'[c] = class[c]
          /\ LessonsOf(c)' \subseteq LessonsOf(c)

LEMMA StillChecked ==
    ASSUME AcademyInv, NEW p \in Clerks, clerk'[p] = clerk[p], LockedKept(p)
    PROVE  Checked(p)'
<1>1. Checked(p)
  BY DEF AcademyInv, AllChecked
<1>2. \A op : Doing(p, op)' => Doing(p, op)
  BY DEF Doing
<1>3. CASE Doing(p, "move")
  BY <1>1, <1>3, StillMoving DEF LockedKept, Checked, Doing
<1>4. CASE Doing(p, "class")
  BY <1>1, <1>4, StillComposing DEF LockedKept, Checked, Doing
<1>5. CASE Doing(p, "complete")
  BY <1>1, <1>5, StillCompleting DEF LockedKept, Checked, Doing
<1>6. CASE Doing(p, "generate")
  BY <1>1, <1>6 DEF Checked, Doing, Generating
<1>7. CASE ~Doing(p, "move") /\ ~Doing(p, "class") /\ ~Doing(p, "complete") /\ ~Doing(p, "generate")
  BY <1>7 DEF Checked, Doing
<1> QED  BY <1>3, <1>4, <1>5, <1>6, <1>7

-----------------------------------------------------------------------------
(* Commands of one statement *)

LEMMA FlipKeeps ==
    ASSUME AcademyInv, NEW q \in Clerks, NEW row \in Rows, NEW locks, row \in locks, Flip(q, row, locks)
    PROVE  AcademyInv'
<1>1. /\ clerk[q] = Nothing /\ Grantable(q, Exclusive(locks)) /\ clerk' = clerk
      /\ enabled' = [enabled EXCEPT ![row] = ~@]
      /\ UNCHANGED <<site, staff, class, lesson>>
  BY DEF Flip
<1>2. <<row, "X">> \in Exclusive(locks)
  BY Asked, Something
<1>3. enabled' \in [Rows -> BOOLEAN] /\ \A r \in Rows \ {row} : enabled'[r] = enabled[r]
  BY <1>1 DEF AcademyInv, AcademyTyped
<1>4. RoomsInBranch'
  BY <1>1 DEF AcademyInv, RoomsInBranch
<1>5. ASSUME NEW p \in Clerks, clerk[p] # Nothing  PROVE Checked(p)'
  <2>1. <<row, "S">> \notin clerk[p].locks
    BY <1>1, <1>2, <1>5, Alone
  <2>2. LockedKept(p)
    BY <1>1, <1>3, <2>1 DEF LockedKept, LessonsOf
  <2> QED  BY <1>1, <2>2, StillChecked
<1> QED  BY <1>1, <1>3, <1>4, <1>5, CommitKeeps DEF AcademyInv, AcademyTyped

LEMMA CreateRoomKeeps ==
    ASSUME AcademyInv, NEW q \in Clerks, NEW r \in Rooms, NEW b \in Branches, CreateRoom(q, r, b)
    PROVE  AcademyInv'
<1>1. /\ site[r] = Nothing /\ clerk' = clerk
      /\ site' = [site EXCEPT ![r] = b]
      /\ UNCHANGED <<enabled, staff, class, lesson>>
  BY DEF CreateRoom
<1>2. site' \in [Rooms -> Branches \cup {Nothing}] /\ site'[r] = b /\ \A x \in Rooms \ {r} : site'[x] = site[x]
  BY <1>1 DEF AcademyInv, AcademyTyped
<1>3. RoomsInBranch'
  <2> SUFFICES ASSUME NEW c \in Classes, class[c] # Nothing, class[c].room # Nothing
               PROVE  site'[class[c].room] # Nothing /\ site'[class[c].room] = class[c].branch
    BY <1>1 DEF RoomsInBranch
  <2>1. site[class[c].room] # Nothing /\ site[class[c].room] = class[c].branch /\ class[c].room \in Rooms
    BY DEF AcademyInv, RoomsInBranch, AcademyTyped, ClassRow
  <2> QED  BY <1>1, <1>2, <2>1
<1>4. ASSUME NEW p \in Clerks, clerk[p] # Nothing  PROVE Checked(p)'
  <2>1. Checked(p)
    BY DEF AcademyInv, AllChecked
  <2>2. CASE Doing(p, "class")
    <3>1. Composing(p)
      BY <2>1, <2>2 DEF Checked
    <3>2. clerk[p].plan.room # r
      BY <1>1, <3>1, Something DEF Composing, Fits, Composition
    <3>3. Composing(p)'
      <4>1. clerk[p].plan.room # Nothing => site'[clerk[p].plan.room] = site[clerk[p].plan.room]
        BY <1>2, <3>1, <3>2, UsesLocked DEF Composing
      <4> QED  BY <1>1, <3>1, <4>1 DEF Composing, Fits, Kept
    <3> QED  BY <1>1, <2>2, <3>3 DEF Checked, Doing
  <2>3. CASE Doing(p, "move")
    <3>1. Moving(p) /\ clerk[p].of # r
      BY <1>1, <2>1, <2>3 DEF Checked, Moving
    <3>2. Moving(p)'
      BY <1>1, <1>2, <3>1 DEF Moving, Referenced
    <3> QED  BY <1>1, <2>3, <3>2 DEF Checked, Doing
  <2>4. CASE ~Doing(p, "class") /\ ~Doing(p, "move")
    BY <1>1, <2>1, <2>4 DEF Checked, Doing, Completing, Generating, LessonsOf
  <2> QED  BY <2>2, <2>3, <2>4
<1> QED  BY <1>1, <1>2, <1>3, <1>4, CommitKeeps DEF AcademyInv, AcademyTyped

LEMMA ReplaceBranchesKeeps ==
    ASSUME AcademyInv, NEW q \in Clerks, NEW t \in Teachers, NEW bs \in SUBSET Branches, ReplaceBranches(q, t, bs)
    PROVE  AcademyInv'
<1>1. /\ clerk[q] = Nothing /\ Grantable(q, Exclusive({t})) /\ clerk' = clerk
      /\ staff' = [staff EXCEPT ![t] = bs]
      /\ UNCHANGED <<enabled, site, class, lesson>>
  BY DEF ReplaceBranches
<1>2. <<t, "X">> \in Exclusive({t})
  BY Asked, Something
<1>3. staff' \in [Teachers -> SUBSET Branches] /\ \A x \in Teachers \ {t} : staff'[x] = staff[x]
  BY <1>1 DEF AcademyInv, AcademyTyped
<1>4. RoomsInBranch'
  BY <1>1 DEF AcademyInv, RoomsInBranch
<1>5. ASSUME NEW p \in Clerks, clerk[p] # Nothing  PROVE Checked(p)'
  <2>1. <<t, "S">> \notin clerk[p].locks
    BY <1>1, <1>2, <1>5, Alone
  <2>2. LockedKept(p)
    BY <1>1, <1>3, <2>1 DEF LockedKept, LessonsOf
  <2> QED  BY <1>1, <2>2, StillChecked
<1> QED  BY <1>1, <1>3, <1>4, <1>5, CommitKeeps DEF AcademyInv, AcademyTyped

-----------------------------------------------------------------------------
(* Commands of two steps *)

\* The command that Start makes, if it is one.
LEMMA Started ==
    ASSUME AcademyInv, NEW q \in Clerks, NEW op, NEW of, NEW plan, NEW locks, Start(q, op, of, plan, locks)
    PROVE  \/ clerk'[q] = Nothing
           \/ clerk'[q].op = op /\ clerk'[q].of = of /\ clerk'[q].plan = plan /\ clerk'[q].locks = locks
BY DEF Start, AcademyInv, AcademyTyped

LEMMA BeginMoveKeeps ==
    ASSUME AcademyInv, NEW q \in Clerks, NEW r \in Rooms, NEW b \in Branches, BeginMove(q, r, b)
    PROVE  AcademyInv'
<1>1. /\ site[r] # Nothing /\ (b # site[r] => ~Referenced(r))
      /\ Start(q, "move", r, b, Exclusive({r, site[r]}))
      /\ UNCHANGED <<enabled, site, staff, class, lesson>>
  BY DEF BeginMove
<1>2. <<r, "X">> \in Exclusive({r, site[r]})
  BY Asked, Something
<1>3. clerk'[q] = Nothing \/ (clerk'[q].op = "move" /\ clerk'[q].of = r /\ clerk'[q].plan = b /\ <<r, "X">> \in clerk'[q].locks)
  BY <1>1, <1>2, Started
<1>4. Doing(q, "move")' => Moving(q)'
  BY <1>1, <1>3 DEF Moving, Referenced, Doing
<1>5. Checked(q)'
  BY <1>3, <1>4 DEF Checked, Doing
<1> QED  BY <1>1, <1>5, StartKeeps

LEMMA MoveKeeps ==
    ASSUME AcademyInv, NEW q \in Clerks, Move(q)
    PROVE  AcademyInv'
<1>1. PICK r \in Rooms, b \in Branches :
         /\ clerk[q] # Nothing /\ r = clerk[q].of /\ b = clerk[q].plan /\ <<r, "X">> \in clerk[q].locks
         /\ b # site[r] => ~Referenced(r)
         /\ site[r] # Nothing
  BY DEF Move, AcademyInv, AllChecked, Checked, Moving, Doing
<1>2. site' = [site EXCEPT ![r] = b] /\ Commit(q) /\ UNCHANGED <<enabled, staff, class, lesson>>
  BY <1>1 DEF Move
<1>3. site' \in [Rooms -> Branches \cup {Nothing}] /\ site'[r] = b /\ \A x \in Rooms \ {r} : site'[x] = site[x]
  BY <1>1, <1>2 DEF AcademyInv, AcademyTyped
<1>4. RoomsInBranch'
  <2> SUFFICES ASSUME NEW c \in Classes, class[c] # Nothing, class[c].room # Nothing
               PROVE  site'[class[c].room] # Nothing /\ site'[class[c].room] = class[c].branch
    BY <1>2 DEF RoomsInBranch
  <2>1. site[class[c].room] # Nothing /\ site[class[c].room] = class[c].branch /\ class[c].room \in Rooms
    BY DEF AcademyInv, RoomsInBranch, AcademyTyped, ClassRow
  <2>2. class[c].room = r => b = site[r]
    BY <1>1 DEF Referenced
  <2> QED  BY <1>1, <1>3, <2>1, <2>2
<1>5. ASSUME NEW p \in Clerks, clerk[p] # Nothing, clerk'[p] = clerk[p]  PROVE Checked(p)'
  <2>1. p # q
    BY <1>2, <1>5 DEF Commit, AcademyInv, AcademyTyped
  <2>2. <<r, "S">> \notin clerk[p].locks /\ <<r, "X">> \notin clerk[p].locks
    BY <1>1, <1>5, <2>1, Apart
  <2>3. LockedKept(p)
    BY <1>2, <1>3, <2>2 DEF LockedKept, LessonsOf
  <2> QED  BY <1>5, <2>3, StillChecked
<1> QED  BY <1>2, <1>3, <1>4, <1>5, CommitKeeps DEF AcademyInv, AcademyTyped

LEMMA BeginClassKeeps ==
    ASSUME AcademyInv, NEW q \in Clerks, NEW c \in Classes, NEW m \in Composition, BeginClass(q, c, m)
    PROVE  AcademyInv'
<1>1. /\ Fits(m, Uses(m) \ Kept(c))
      /\ Start(q, "class", c, m, ClassLocks(c, m))
      /\ UNCHANGED <<enabled, site, staff, class, lesson>>
  BY DEF BeginClass, Kept, Fits
<1>2. clerk'[q] = Nothing \/ (clerk'[q].op = "class" /\ clerk'[q].of = c /\ clerk'[q].plan = m /\ clerk'[q].locks = ClassLocks(c, m))
  BY <1>1, Started
<1>3. Doing(q, "class")' => Composing(q)'
  <2>1. Fits(m, Uses(m) \ Kept(c))'
    BY <1>1 DEF Fits, Kept
  <2> QED  BY <1>2, <2>1 DEF Composing, Doing
<1>4. Checked(q)'
  BY <1>2, <1>3 DEF Checked, Doing
<1> QED  BY <1>1, <1>4, StartKeeps

\* The class a command saves, and what it is after.
LEMMA Saved ==
    ASSUME AcademyInv, NEW q \in Clerks, SaveClass(q)
    PROVE  \E c \in Classes, m \in Composition :
              /\ clerk[q] # Nothing /\ c = clerk[q].of
              /\ ClassLocks(c, m) \subseteq clerk[q].locks
              /\ Fits(m, Uses(m) \ Kept(c))
              /\ class' = [class EXCEPT ![c] = [course |-> m.course, level |-> m.level, branch |-> m.branch, room |-> m.room,
                                               teacher |-> m.teacher, until |-> Nothing]]
              /\ Commit(q) /\ UNCHANGED <<enabled, site, staff, lesson>>
<1>1. clerk[q] # Nothing /\ Composing(q)
  BY DEF SaveClass, AcademyInv, AllChecked, Checked, Doing
<1> QED  BY <1>1 DEF SaveClass, Composing

LEMMA SaveClassKeeps ==
    ASSUME AcademyInv, NEW q \in Clerks, SaveClass(q)
    PROVE  AcademyInv'
<1>1. PICK c \in Classes, m \in Composition :
         /\ clerk[q] # Nothing /\ c = clerk[q].of
         /\ ClassLocks(c, m) \subseteq clerk[q].locks
         /\ Fits(m, Uses(m) \ Kept(c))
         /\ class' = [class EXCEPT ![c] = [course |-> m.course, level |-> m.level, branch |-> m.branch, room |-> m.room,
                                          teacher |-> m.teacher, until |-> Nothing]]
         /\ Commit(q) /\ UNCHANGED <<enabled, site, staff, lesson>>
  BY Saved
<1>2. PICK row \in ClassRow :
         /\ row = [course |-> m.course, level |-> m.level, branch |-> m.branch, room |-> m.room,
                   teacher |-> m.teacher, until |-> Nothing]
         /\ row.room = m.room /\ row.branch = m.branch
  BY <1>1 DEF Composition, ClassRow
<1>3. /\ class' \in [Classes -> ClassRow \cup {Nothing}] /\ class'[c] = row
      /\ \A d \in Classes \ {c} : class'[d] = class[d]
  <2>1. class' = [class EXCEPT ![c] = row]
    BY <1>1, <1>2
  <2> QED  BY <2>1 DEF AcademyInv, AcademyTyped
<1>4. RoomsInBranch'
  BY <1>1, <1>2, <1>3 DEF AcademyInv, RoomsInBranch, Fits
<1>5. /\ <<c, "X">> \in clerk[q].locks
      /\ m.room # Nothing => <<m.room, "S">> \in clerk[q].locks
  BY <1>1, UsesLocked, Something
<1>6. ASSUME NEW p \in Clerks, clerk[p] # Nothing, clerk'[p] = clerk[p]  PROVE Checked(p)'
  <2>1. p # q
    BY <1>1, <1>6 DEF Commit, AcademyInv, AcademyTyped
  <2>2. <<c, "X">> \notin clerk[p].locks
    BY <1>1, <1>5, <1>6, <2>1, Apart
  <2>3. \A r \in Rooms : <<r, "X">> \in clerk[p].locks => m.room # r
    <3>1. m.room # Nothing => <<m.room, "X">> \notin clerk[p].locks
      BY <1>1, <1>5, <1>6, <2>1, Apart
    <3> QED  BY <3>1, Something
  <2>4. LockedKept(p)
    BY <1>1, <1>2, <1>3, <2>2, <2>3 DEF LockedKept, LessonsOf
  <2> QED  BY <1>6, <2>4, StillChecked
<1> QED  BY <1>1, <1>3, <1>4, <1>6, CommitKeeps DEF AcademyInv, AcademyTyped

LEMMA BeginCompleteKeeps ==
    ASSUME AcademyInv, NEW q \in Clerks, NEW c \in Classes, NEW d \in SchoolDays, BeginComplete(q, c, d)
    PROVE  AcademyInv'
<1>1. /\ class[c] # Nothing /\ LaterLessons(c, d) = {}
      /\ Start(q, "complete", c, [day |-> d, before |-> LessonsOf(c) \ LaterLessons(c, d)], Exclusive({c}))
      /\ UNCHANGED <<enabled, site, staff, class, lesson>>
  BY DEF BeginComplete
<1>0. PICK plan : plan = [day |-> d, before |-> LessonsOf(c)] /\ plan.day = d /\ plan.before = LessonsOf(c)
  <2>1. [day |-> d, before |-> LessonsOf(c)].day = d /\ [day |-> d, before |-> LessonsOf(c)].before = LessonsOf(c)
    OBVIOUS
  <2> QED  BY <2>1
<1>6. Start(q, "complete", c, plan, Exclusive({c}))
  BY <1>0, <1>1
<1>2. <<c, "X">> \in Exclusive({c})
  BY Asked, Something
<1>3. clerk'[q] = Nothing \/ (clerk'[q].op = "complete" /\ clerk'[q].of = c /\ clerk'[q].plan = plan /\ <<c, "X">> \in clerk'[q].locks)
  BY <1>6, <1>2, Started
<1>4. Doing(q, "complete")' => Completing(q)'
  BY <1>0, <1>1, <1>3 DEF Completing, LessonsOf, Doing
<1>5. Checked(q)'
  BY <1>3, <1>4 DEF Checked, Doing
<1> QED  BY <1>1, <1>5, <1>6, StartKeeps

LEMMA Completed ==
    ASSUME AcademyInv, NEW q \in Clerks, Complete(q)
    PROVE  \E c \in Classes, d \in SchoolDays :
              /\ clerk[q] # Nothing /\ class[c] # Nothing /\ <<c, "X">> \in clerk[q].locks
              /\ clerk[q].op = "complete" /\ clerk[q].of = c /\ LessonsOf(c) \subseteq clerk[q].plan.before
              /\ class' \in [Classes -> ClassRow \cup {Nothing}]
              /\ class'[c] = [class[c] EXCEPT !.until = d] /\ class'[c].until = d
              /\ class'[c].room = class[c].room /\ class'[c].branch = class[c].branch
              /\ \A x \in Classes \ {c} : class'[x] = class[x]
              /\ Commit(q) /\ UNCHANGED <<enabled, site, staff, lesson>>
<1>1. PICK c \in Classes, d \in SchoolDays :
         /\ clerk[q] # Nothing /\ c = clerk[q].of /\ d = clerk[q].plan.day /\ clerk[q].op = "complete"
         /\ class[c] # Nothing /\ <<c, "X">> \in clerk[q].locks
         /\ LessonsOf(c) \subseteq clerk[q].plan.before
  BY DEF Complete, AcademyInv, AllChecked, Checked, Completing, Doing
<1>2. class[c] \in ClassRow
  BY <1>1 DEF AcademyInv, AcademyTyped
<1>3. PICK row \in ClassRow : row = [class[c] EXCEPT !.until = d]
  BY <1>1, <1>2 DEF ClassRow
<1>4. row.until = d /\ row.room = class[c].room /\ row.branch = class[c].branch
  BY <1>2, <1>3 DEF ClassRow
<1>5. class' = [class EXCEPT ![c] = row] /\ Commit(q) /\ UNCHANGED <<enabled, site, staff, lesson>>
  BY <1>1, <1>3 DEF Complete
<1>6. /\ class' \in [Classes -> ClassRow \cup {Nothing}] /\ class'[c] = row
      /\ \A x \in Classes \ {c} : class'[x] = class[x]
  BY <1>5 DEF AcademyInv, AcademyTyped
<1> QED  BY <1>1, <1>3, <1>4, <1>5, <1>6

LEMMA CompleteKeeps ==
    ASSUME AcademyInv, NEW q \in Clerks, Complete(q)
    PROVE  AcademyInv'
<1>1. PICK c \in Classes, d \in SchoolDays :
              /\ clerk[q] # Nothing /\ class[c] # Nothing /\ <<c, "X">> \in clerk[q].locks
              /\ clerk[q].op = "complete" /\ clerk[q].of = c /\ LessonsOf(c) \subseteq clerk[q].plan.before
              /\ class' \in [Classes -> ClassRow \cup {Nothing}]
              /\ class'[c] = [class[c] EXCEPT !.until = d] /\ class'[c].until = d
              /\ class'[c].room = class[c].room /\ class'[c].branch = class[c].branch
              /\ \A x \in Classes \ {c} : class'[x] = class[x]
              /\ Commit(q) /\ UNCHANGED <<enabled, site, staff, lesson>>
  BY Completed
<1>2. RoomsInBranch'
  <2>1. \A x \in Classes : class'[x] # Nothing => class[x] # Nothing /\ class'[x].room = class[x].room /\ class'[x].branch = class[x].branch
    BY <1>1
  <2>2. site' = site
    BY <1>1
  <2> QED  BY <2>1, <2>2 DEF AcademyInv, RoomsInBranch
<1>3. ASSUME NEW p \in Clerks, clerk[p] # Nothing, clerk'[p] = clerk[p]  PROVE Checked(p)'
  <2>1. p # q
    BY <1>1, <1>3 DEF Commit, AcademyInv, AcademyTyped
  <2>2. <<c, "X">> \notin clerk[p].locks
    BY <1>1, <1>3, <2>1, Apart
  <2>3. LockedKept(p)
    BY <1>1, <2>2 DEF LockedKept, LessonsOf
  <2> QED  BY <1>3, <2>3, StillChecked
<1> QED  BY <1>1, <1>2, <1>3, CommitKeeps DEF AcademyInv, AcademyTyped

LEMMA BeginGenerateKeeps ==
    ASSUME AcademyInv, NEW q \in Clerks, NEW c \in Classes, NEW d \in SchoolDays, BeginGenerate(q, c, d)
    PROVE  AcademyInv'
<1>1. /\ Start(q, "generate", c, d, {})
      /\ UNCHANGED <<enabled, site, staff, class, lesson>>
  BY DEF BeginGenerate
<1>2. clerk'[q] = Nothing \/ (clerk'[q].op = "generate" /\ clerk'[q].of = c /\ clerk'[q].plan = d)
  BY <1>1, Started
<1>3. Checked(q)'
  BY <1>2 DEF Checked, Generating, Doing
<1> QED  BY <1>1, <1>3, StartKeeps

LEMMA InsertLessonKeeps ==
    ASSUME AcademyInv, NEW q \in Clerks, InsertLesson(q)
    PROVE  AcademyInv'
<1>1. PICK c \in Classes, d \in SchoolDays : clerk[q] # Nothing /\ c = clerk[q].of /\ d = clerk[q].plan
  BY DEF InsertLesson, AcademyInv, AllChecked, Checked, Generating, Doing
<1>2. PICK l \in SessionIds :
         /\ lesson' = [lesson EXCEPT ![l] = [class |-> c, day |-> d]]
         /\ Grantable(q, Shared({c}))
         /\ Commit(q) /\ UNCHANGED <<enabled, site, staff, class>>
  BY <1>1 DEF InsertLesson, KeyShare
<1>3. PICK row \in LessonRow : row = [class |-> c, day |-> d] /\ row.class = c
  <2>1. [class |-> c, day |-> d] \in LessonRow
    BY <1>1 DEF LessonRow
  <2> QED  BY <2>1
<1>4. /\ lesson' \in [SessionIds -> LessonRow \cup {Nothing}] /\ lesson'[l] = row
      /\ \A x \in SessionIds \ {l} : lesson'[x] = lesson[x]
  <2>1. lesson' = [lesson EXCEPT ![l] = row]
    BY <1>2, <1>3
  <2> QED  BY <2>1 DEF AcademyInv, AcademyTyped
<1>5. RoomsInBranch'
  BY <1>2 DEF AcademyInv, RoomsInBranch
<1>6. ASSUME NEW p \in Clerks, clerk[p] # Nothing, clerk'[p] = clerk[p]  PROVE Checked(p)'
  <2>1. p # q
    BY <1>1, <1>2, <1>6 DEF Commit, AcademyInv, AcademyTyped
  <2>2. <<c, "X">> \notin clerk[p].locks
    <3>1. <<c, "S">> \in Shared({c})
      BY Asked, Something
    <3> QED  BY <1>2, <1>6, <2>1, <3>1, Alone
  <2>3. LockedKept(p)
    BY <1>2, <1>3, <1>4, <2>2 DEF LockedKept, LessonsOf
  <2> QED  BY <1>6, <2>3, StillChecked
<1> QED  BY <1>2, <1>4, <1>5, <1>6, CommitKeeps DEF AcademyInv, AcademyTyped

LEMMA CancelLessonKeeps ==
    ASSUME AcademyInv, NEW l \in SessionIds, CancelLesson(l)
    PROVE  AcademyInv'
<1>1. lesson' = [lesson EXCEPT ![l] = Nothing] /\ UNCHANGED <<enabled, site, staff, class, clerk>>
  BY DEF CancelLesson
<1>2. /\ lesson' \in [SessionIds -> LessonRow \cup {Nothing}] /\ lesson'[l] = Nothing
      /\ \A x \in SessionIds \ {l} : lesson'[x] = lesson[x]
  BY <1>1 DEF AcademyInv, AcademyTyped
<1>3. RoomsInBranch'
  BY <1>1 DEF AcademyInv, RoomsInBranch
<1>4. ASSUME NEW p \in Clerks  PROVE Checked(p)'
  <2>1. LockedKept(p)
    BY <1>1, <1>2 DEF LockedKept, LessonsOf
  <2> QED  BY <1>1, <2>1, StillChecked
<1>5. LocksHold'
  BY <1>1 DEF AcademyInv, LocksHold, Locks
<1> QED  BY <1>1, <1>2, <1>3, <1>4, <1>5 DEF AcademyInv, AcademyTyped, AllChecked

LEMMA MoveLessonKeeps ==
    ASSUME AcademyInv, NEW l \in SessionIds, NEW d \in SchoolDays, MoveLesson(l, d)
    PROVE  AcademyInv'
<1>1. lesson[l] # Nothing /\ lesson' = [lesson EXCEPT ![l].day = d] /\ UNCHANGED <<enabled, site, staff, class, clerk>>
  BY DEF MoveLesson
<1>2. /\ lesson' \in [SessionIds -> LessonRow \cup {Nothing}] /\ lesson'[l].class = lesson[l].class
      /\ \A x \in SessionIds \ {l} : lesson'[x] = lesson[x]
  <2>1. lesson[l] \in LessonRow /\ lesson' = [lesson EXCEPT ![l] = [lesson[l] EXCEPT !.day = d]]
    BY <1>1 DEF AcademyInv, AcademyTyped
  <2>2. PICK row \in LessonRow : row = [lesson[l] EXCEPT !.day = d] /\ row.class = lesson[l].class
    <3>1. [lesson[l] EXCEPT !.day = d] \in LessonRow /\ [lesson[l] EXCEPT !.day = d].class = lesson[l].class
      BY <2>1 DEF LessonRow
    <3> QED  BY <3>1
  <2> QED  BY <2>1, <2>2 DEF AcademyInv, AcademyTyped
<1>3. RoomsInBranch'
  BY <1>1 DEF AcademyInv, RoomsInBranch
<1>4. ASSUME NEW p \in Clerks  PROVE Checked(p)'
  <2>1. LockedKept(p)
    BY <1>1, <1>2 DEF LockedKept, LessonsOf
  <2> QED  BY <1>1, <2>1, StillChecked
<1>5. LocksHold'
  BY <1>1 DEF AcademyInv, LocksHold, Locks
<1> QED  BY <1>1, <1>2, <1>3, <1>4, <1>5 DEF AcademyInv, AcademyTyped, AllChecked

LEMMA RescheduleLessonKeeps ==
    ASSUME AcademyInv, NEW q \in Clerks, NEW l \in SessionIds, NEW m \in SessionIds, NEW d \in SchoolDays,
           RescheduleLesson(q, l, m, d)
    PROVE  AcademyInv'
<1>1. /\ clerk[q] = Nothing /\ lesson[l] # Nothing /\ lesson[m] = Nothing
      /\ Grantable(q, Shared({lesson[l].class}))
      /\ lesson' = [lesson EXCEPT ![l] = Nothing, ![m] = [class |-> lesson[l].class, day |-> d]]
      /\ UNCHANGED <<enabled, site, staff, class, clerk>>
  BY DEF RescheduleLesson, KeyShare
<1>2. PICK c \in Classes, row \in LessonRow : c = lesson[l].class /\ row = [class |-> c, day |-> d] /\ row.class = c
  <2>1. lesson[l].class \in Classes
    BY <1>1 DEF AcademyInv, AcademyTyped, LessonRow
  <2>2. [class |-> lesson[l].class, day |-> d] \in LessonRow
    BY <2>1 DEF LessonRow
  <2> QED  BY <2>1, <2>2
<1>3. /\ lesson' \in [SessionIds -> LessonRow \cup {Nothing}] /\ lesson'[m] = row /\ lesson'[l] = Nothing
      /\ \A x \in SessionIds \ {l, m} : lesson'[x] = lesson[x]
  <2>1. lesson' = [lesson EXCEPT ![l] = Nothing, ![m] = row] /\ l # m
    BY <1>1, <1>2
  <2>2. row \in LessonRow \cup {Nothing}
    OBVIOUS
  <2> HIDE DEF LessonRow
  <2>3. lesson \in [SessionIds -> LessonRow \cup {Nothing}]
    BY DEF AcademyInv, AcademyTyped
  <2> QED  BY <2>1, <2>2, <2>3
<1>4. RoomsInBranch'
  BY <1>1 DEF AcademyInv, RoomsInBranch
<1>5. ASSUME NEW p \in Clerks  PROVE Checked(p)'
  <2>1. CASE clerk[p] = Nothing
    BY <1>1, <2>1 DEF Checked, Doing
  <2>2. CASE clerk[p] # Nothing
    <3>1. <<c, "X">> \notin clerk[p].locks
      <4>1. <<c, "S">> \in Shared({c})
        BY Asked, Something
      <4> QED  BY <1>1, <1>2, <2>2, <4>1, Alone
    <3>2. LockedKept(p)
      BY <1>1, <1>2, <1>3, <3>1 DEF LockedKept, LessonsOf
    <3> QED  BY <1>1, <3>2, StillChecked
  <2> QED  BY <2>1, <2>2
<1>6. LocksHold'
  BY <1>1 DEF AcademyInv, LocksHold, Locks
<1> QED  BY <1>1, <1>3, <1>4, <1>5, <1>6 DEF AcademyInv, AcademyTyped, AllChecked

LEMMA QuietAcademy == AcademyInv /\ UNCHANGED academyVars => AcademyInv'
<1> SUFFICES ASSUME AcademyInv, UNCHANGED academyVars  PROVE AcademyInv'
  OBVIOUS
<1>1. UNCHANGED <<enabled, site, staff, class, lesson, clerk>>
  BY DEF academyVars
<1>2. \A p \in Clerks : Checked(p)'
  BY <1>1, StillChecked DEF LockedKept, LessonsOf
<1>3. AcademyTyped' /\ LocksHold' /\ RoomsInBranch'
  BY <1>1 DEF AcademyInv, AcademyTyped, LocksHold, Locks, RoomsInBranch
<1> QED  BY <1>2, <1>3 DEF AcademyInv, AllChecked

LEMMA AcademyStep == AcademyInv /\ [AcademyNext]_academyVars => AcademyInv'
<1> SUFFICES ASSUME AcademyInv, [AcademyNext]_academyVars  PROVE AcademyInv'
  OBVIOUS
<1>1. ASSUME NEW q \in Clerks, RecordStep(q)  PROVE AcademyInv'
  <2>1. CASE \E row \in Rows, locks \in SUBSET (Rows \cup {Nothing}) : row \in locks /\ Flip(q, row, locks)
    BY <2>1, FlipKeeps
  <2>2. ASSUME NEW row \in Rows, Flip(q, row, {row})
        PROVE  \E r \in Rows, locks \in SUBSET (Rows \cup {Nothing}) : r \in locks /\ Flip(q, r, locks)
    <3>1. {row} \in SUBSET (Rows \cup {Nothing}) /\ row \in {row}
      OBVIOUS
    <3> QED  BY <2>2, <3>1
  <2>3. CASE \E b \in Branches : UpdateBranch(q, b)
    BY <2>1, <2>2, <2>3, Something DEF UpdateBranch
  <2>4. CASE \E c \in Courses : UpdateCourse(q, c)
    BY <2>1, <2>2, <2>4, Something DEF UpdateCourse
  <2>5. CASE \E l \in Levels : UpdateLevel(q, l)
    BY <2>1, <2>2, <2>5, Something DEF UpdateLevel
  <2>6. CASE \E t \in Teachers : UpdateTeacher(q, t) \/ \E bs \in SUBSET Branches : ReplaceBranches(q, t, bs)
    BY <2>1, <2>2, <2>6, Something, ReplaceBranchesKeeps DEF UpdateTeacher
  <2>7. CASE \E r \in Rooms : UpdateRoom(q, r)
    <3>1. PICK r \in Rooms : Flip(q, r, {r, site[r]})
      BY <2>7 DEF UpdateRoom
    <3>2. r \in Rows /\ r \in {r, site[r]}
      BY Something
    <3> QED  BY <3>1, <3>2, FlipKeeps
  <2>8. CASE \E r \in Rooms, b \in Branches : CreateRoom(q, r, b) \/ BeginMove(q, r, b)
    BY <2>8, CreateRoomKeeps, BeginMoveKeeps
  <2>9. CASE Move(q)
    BY <2>9, MoveKeeps
  <2> QED  BY <1>1, <2>3, <2>4, <2>5, <2>6, <2>7, <2>8, <2>9 DEF RecordStep
<1>2. ASSUME NEW q \in Clerks, ClassStep(q)  PROVE AcademyInv'
  <2>1. CASE \E c \in Classes, m \in Composition : BeginClass(q, c, m)
    BY <2>1, BeginClassKeeps
  <2>2. CASE \E c \in Classes, d \in SchoolDays : BeginComplete(q, c, d) \/ BeginGenerate(q, c, d)
    BY <2>2, BeginCompleteKeeps, BeginGenerateKeeps
  <2> QED  BY <1>2, <2>1, <2>2, SaveClassKeeps, CompleteKeeps, InsertLessonKeeps, RollbackKeeps DEF ClassStep
<1>3. CASE \E l \in SessionIds : CancelLesson(l)
  BY <1>3, CancelLessonKeeps
<1>4. CASE \E l \in SessionIds, d \in SchoolDays : MoveLesson(l, d)
  BY <1>4, MoveLessonKeeps
<1>5. CASE \E q \in Clerks, l, m \in SessionIds, d \in SchoolDays : RescheduleLesson(q, l, m, d)
  BY <1>5, RescheduleLessonKeeps
<1>6. CASE UNCHANGED academyVars
  BY <1>6, QuietAcademy
<1> QED  BY <1>1, <1>2, <1>3, <1>4, <1>5, <1>6 DEF AcademyNext

\* The invariant of the academic records.
THEOREM AcademyInvariance == AcademySpec => []AcademyInv
BY AcademyStarts, AcademyStep, PTL DEF AcademySpec

-----------------------------------------------------------------------------
(* Steps *)

\* What a step does to the classes.
LEMMA ClassesChange ==
    ASSUME AcademyInv, [AcademyNext]_academyVars
    PROVE  class' = class \/ \E q \in Clerks : SaveClass(q) \/ Complete(q)
BY DEF AcademyNext, RecordStep, ClassStep, UpdateBranch, UpdateCourse, UpdateLevel, UpdateTeacher, UpdateRoom, Flip, CreateRoom,
   ReplaceBranches, BeginMove, Move, BeginClass, BeginComplete, BeginGenerate, InsertLesson, Rollback, CancelLesson,
   MoveLesson, RescheduleLesson, academyVars

LEMMA TakesOnEnabled ==
    ASSUME AcademyInv, [AcademyNext]_academyVars, NEW c \in Classes,
           class'[c] # Nothing, class'[c] # class[c], class'[c].until = Nothing
    PROVE  /\ \A r \in Uses(class'[c]) \ Kept(c) : enabled[r]
           /\ class'[c].teacher # Nothing /\ class'[c].branch # Nothing => class'[c].branch \in staff[class'[c].teacher]
<1>1. CASE \E q \in Clerks : SaveClass(q)
  <2>1. PICK q \in Clerks : SaveClass(q)
    BY <1>1
  <2>2. PICK x \in Classes, m \in Composition :
              /\ clerk[q] # Nothing /\ x = clerk[q].of
              /\ ClassLocks(x, m) \subseteq clerk[q].locks
              /\ Fits(m, Uses(m) \ Kept(x))
              /\ class' = [class EXCEPT ![x] = [course |-> m.course, level |-> m.level, branch |-> m.branch, room |-> m.room,
                                               teacher |-> m.teacher, until |-> Nothing]]
              /\ Commit(q) /\ UNCHANGED <<enabled, site, staff, lesson>>
    BY <2>1, Saved
  <2>3. x = c
    BY <2>2 DEF AcademyInv, AcademyTyped
  <2>4. class'[c] = [course |-> m.course, level |-> m.level, branch |-> m.branch, room |-> m.room,
                     teacher |-> m.teacher, until |-> Nothing]
    BY <2>2, <2>3 DEF AcademyInv, AcademyTyped
  <2>5. class'[c].teacher = m.teacher /\ class'[c].branch = m.branch /\ Uses(class'[c]) = Uses(m)
    BY <2>4 DEF Uses
  <2> QED  BY <2>2, <2>3, <2>5 DEF Fits
<1>2. CASE \E q \in Clerks : Complete(q)
  <2>1. PICK q \in Clerks : Complete(q)
    BY <1>2
  <2>2. PICK x \in Classes, d \in SchoolDays :
            class'[x].until = d /\ \A y \in Classes \ {x} : class'[y] = class[y]
    BY <2>1, Completed
  <2> QED  BY <2>2, AcademyAssumption
<1> QED  BY <1>1, <1>2, ClassesChange

LEMMA CompletesAfterAll ==
    ASSUME AcademyInv, [AcademyNext]_academyVars, NEW c \in Classes,
           class[c] # Nothing, class[c].until = Nothing, class'[c].until # Nothing
    PROVE  \E q \in Clerks :
              /\ Doing(q, "complete") /\ clerk[q].of = c
              /\ LaterLessons(c, class'[c].until) \subseteq clerk[q].plan.before
<1>1. CASE \E q \in Clerks : SaveClass(q)
  <2>0. PICK q \in Clerks : SaveClass(q)
    BY <1>1
  <2>1. PICK x \in Classes, m \in Composition :
              /\ clerk[q] # Nothing /\ x = clerk[q].of
              /\ ClassLocks(x, m) \subseteq clerk[q].locks
              /\ Fits(m, Uses(m) \ Kept(x))
              /\ class' = [class EXCEPT ![x] = [course |-> m.course, level |-> m.level, branch |-> m.branch, room |-> m.room,
                                               teacher |-> m.teacher, until |-> Nothing]]
              /\ Commit(q) /\ UNCHANGED <<enabled, site, staff, lesson>>
    BY <2>0, Saved
  <2>2. x = c
    BY <2>1 DEF AcademyInv, AcademyTyped
  <2>3. class'[c] = [course |-> m.course, level |-> m.level, branch |-> m.branch, room |-> m.room,
                     teacher |-> m.teacher, until |-> Nothing]
    BY <2>1, <2>2 DEF AcademyInv, AcademyTyped
  <2> QED  BY <2>3
<1>2. CASE \E q \in Clerks : Complete(q)
  <2>1. PICK q \in Clerks : Complete(q)
    BY <1>2
  <2>2. PICK x \in Classes, d \in SchoolDays :
            /\ clerk[q] # Nothing /\ class[x] # Nothing /\ <<x, "X">> \in clerk[q].locks
            /\ clerk[q].op = "complete" /\ clerk[q].of = x /\ LessonsOf(x) \subseteq clerk[q].plan.before
            /\ class' \in [Classes -> ClassRow \cup {Nothing}]
            /\ class'[x] = [class[x] EXCEPT !.until = d] /\ class'[x].until = d
            /\ class'[x].room = class[x].room /\ class'[x].branch = class[x].branch
            /\ \A y \in Classes \ {x} : class'[y] = class[y]
            /\ Commit(q) /\ UNCHANGED <<enabled, site, staff, lesson>>
    BY <2>1, Completed
  <2>3. x = c
    BY <2>2
  <2>4. LaterLessons(c, class'[c].until) \subseteq LessonsOf(c)
    BY DEF LaterLessons
  <2> QED  BY <2>2, <2>3, <2>4 DEF Doing
<1> QED  BY <1>1, <1>2, ClassesChange

\* A class without its end is a composition.
LEMMA Composed ==
    ASSUME NEW row \in ClassRow
    PROVE  [f \in DOMAIN row \ {"until"} |-> row[f]] \in Composition
<1>1. PICK m \in Composition :
         m = [course |-> row.course, level |-> row.level, branch |-> row.branch, room |-> row.room, teacher |-> row.teacher]
  BY DEF ClassRow, Composition
<1>2. DOMAIN row \ {"until"} = {"course", "level", "branch", "room", "teacher"}
  BY DEF ClassRow
<1>3. [f \in DOMAIN row \ {"until"} |-> row[f]] = m
  BY <1>1, <1>2
<1> QED  BY <1>3

\* For any clerks, records, classes and lessons: a class's room is in its branch, a class
\* takes on nothing that is disabled when it is saved, and is completed after all its lessons
\* but those moved to a later day since the completion looked.
THEOREM AcademyStaysSafe == AcademySpec => AcademySafe
<1>1. AcademyInv => AcademyTypeOK /\ ClassRoomInBranch
  <2> SUFFICES ASSUME AcademyInv  PROVE AcademyTypeOK /\ ClassRoomInBranch
    OBVIOUS
  <2>1. \A c \in Classes : class[c] # Nothing => [f \in DOMAIN class[c] \ {"until"} |-> class[c][f]] \in Composition
    <3> SUFFICES ASSUME NEW c \in Classes, class[c] # Nothing
                 PROVE  [f \in DOMAIN class[c] \ {"until"} |-> class[c][f]] \in Composition
      OBVIOUS
    <3>1. PICK row \in ClassRow : row = class[c]
      BY DEF AcademyInv, AcademyTyped
    <3> QED  BY <3>1, Composed
  <2>2. AcademyTypeOK
    <3>1. \A p, q \in Clerks : \A x \in Locks(p), y \in Locks(q) : p # q /\ x[1] = y[1] => x[2] = "S" /\ y[2] = "S"
      BY DEF AcademyInv, LocksHold
    <3>2. /\ enabled \in [Rows -> BOOLEAN]
          /\ site \in [Rooms -> Branches \cup {Nothing}]
          /\ staff \in [Teachers -> SUBSET Branches]
          /\ lesson \in [SessionIds -> [class : Classes, day : SchoolDays] \cup {Nothing}]
      BY DEF AcademyInv, AcademyTyped, LessonRow
    <3> QED  BY <2>1, <3>1, <3>2 DEF AcademyTypeOK
  <2> QED  BY <2>2 DEF AcademyInv, RoomsInBranch, ClassRoomInBranch
<1>2. AcademySpec => ClassTakesOnEnabled
  <2>1. AcademyInv /\ [AcademyNext]_academyVars => [\A c \in Classes : class'[c] # Nothing /\ class'[c] # class[c] /\ class'[c].until = Nothing =>
          LET kept == IF class[c] = Nothing THEN {} ELSE Uses(class[c])
          IN /\ \A r \in Uses(class'[c]) \ kept : enabled[r]
             /\ class'[c].teacher # Nothing /\ class'[c].branch # Nothing =>
                    class'[c].branch \in staff[class'[c].teacher]]_academyVars
    BY TakesOnEnabled DEF Kept
  <2> QED  BY <2>1, AcademyInvariance, PTL DEF AcademySpec, ClassTakesOnEnabled
<1>3. AcademySpec => CompletedWithoutLater
  <2>1. AcademyInv /\ [AcademyNext]_academyVars => [\A c \in Classes : class[c] # Nothing /\ class[c].until = Nothing /\ class'[c].until # Nothing =>
          \E q \in Clerks :
              /\ Doing(q, "complete") /\ clerk[q].of = c
              /\ LaterLessons(c, class'[c].until) \subseteq clerk[q].plan.before]_academyVars
    BY CompletesAfterAll
  <2> QED  BY <2>1, AcademyInvariance, PTL DEF AcademySpec, CompletedWithoutLater
<1> QED  BY <1>1, <1>2, <1>3, AcademyInvariance, PTL DEF AcademySafe

-----------------------------------------------------------------------------
(* The invariant of the commands on tenant databases.  A database under       *)
(* construction is known by its maker; a tenant's database only grows.        *)

DatabaseRow ==
    [schema : {"EMPTY", "LEGACY", "FOREIGN", "LEDGER"}, version : 0 .. Latest, broken : BOOLEAN,
     by : Operators \cup {Nobody}]

RunnerRow ==
    [at : Steps, code : Codes \cup {""}, email : Emails \cup {""}, known : SUBSET Emails, mine : BOOLEAN,
     image : 0 .. Latest, list : Seq(Codes), n : Nat]

DatabasesTyped ==
    /\ databases \in [DOMAIN databases -> DatabaseRow]
    /\ registry \in Seq(Codes) /\ registry # << >> /\ IsInjective(registry)
    /\ runner \in [Operators -> RunnerRow]

\* The shape of a command, and what it can count on.
Shape(p, r) ==
    /\ r.at \in {"IDLE", "CREATE", "CONTROL", "LIST"} => ~r.mine /\ r.list = << >>
    /\ r.at \in {"INSPECT", "BASELINE", "DEPLOY"} => r.mine \/ r.list # << >>
    /\ r.at \in {"REGISTER", "CLEANUP", "DROP"} => r.mine
    /\ r.list = << >> => r.n = 0
    /\ r.list # << >> =>
          /\ ~r.mine /\ r.n \in 1 .. Len(r.list)
          /\ \A i \in 1 .. Len(r.list) : r.list[i] \in Registered
          /\ \A i \in 1 .. r.n - 1 :
                databases[r.list[i]].schema = "LEDGER" /\ databases[r.list[i]].version >= r.image
    /\ r.mine => r.code \in DOMAIN databases /\ databases[r.code].by = p

\* What holds at its present step.
Here(p, r) ==
    /\ r.at = "CREATE" => r.code \in Codes
    /\ r.at = "REGISTER" => databases[r.code].schema # "EMPTY" /\ r.code \in Codes
    /\ r.at = "DROP" => r.code \notin Registered
    /\ r.at = "CONTROL" => advisory = p
    /\ r.mine => r.code \in Codes

RunsWell == \A p \in Operators : Shape(p, runner[p]) /\ Here(p, runner[p])

OwnersKnown == Registered \subseteq DOMAIN owners

DatabaseInv ==
    /\ DatabasesTyped
    /\ OwnersKnown
    /\ PublishedIsReady
    /\ RunsWell

-----------------------------------------------------------------------------
(* Rows *)

LEMMA RunnerFields ==
    ASSUME DatabaseInv, NEW p \in Operators
    PROVE  /\ runner[p] \in RunnerRow /\ Shape(p, runner[p]) /\ Here(p, runner[p])
           /\ runner[p].list \in Seq(Codes) /\ runner[p].n \in Nat /\ runner[p].image \in 0 .. Latest
           /\ runner[p].mine \in BOOLEAN /\ runner[p].at \in Steps
BY DEF DatabaseInv, DatabasesTyped, RunsWell, RunnerRow

LEMMA RowMoves ==
    ASSUME NEW r \in RunnerRow, NEW step \in Steps
    PROVE  LET s == [r EXCEPT !.at = step]
           IN /\ s \in RunnerRow /\ s.at = step /\ s.code = r.code /\ s.email = r.email /\ s.known = r.known
              /\ s.mine = r.mine /\ s.image = r.image /\ s.list = r.list /\ s.n = r.n
BY DEF RunnerRow

LEMMA IdleRow ==
    /\ Idle \in RunnerRow /\ Idle.at = "IDLE" /\ Idle.mine = FALSE /\ Idle.list = << >> /\ Idle.n = 0 /\ Idle.code = ""
BY DatabasesAssumption DEF Idle, RunnerRow, Steps

LEMMA Kinds ==
    Steps = {"IDLE", "CREATE", "INSPECT", "BASELINE", "DEPLOY", "REGISTER", "CLEANUP", "DROP", "CONTROL", "LIST"}
BY DEF Steps

LEMMA RegisteredIs ==
    ASSUME registry \in Seq(Codes)
    PROVE  Registered = {registry[i] : i \in DOMAIN registry} /\ Registered \subseteq Codes
BY DEF Registered, ToSet

LEMMA DatabaseFields ==
    ASSUME DatabaseInv, NEW d \in DOMAIN databases
    PROVE  /\ databases[d] \in DatabaseRow /\ databases[d].version \in 0 .. Latest
           /\ databases[d].schema \in {"EMPTY", "LEGACY", "FOREIGN", "LEDGER"}
BY DEF DatabaseInv, DatabasesTyped, DatabaseRow

\* What becomes of a database that stays.
Grown(d) ==
    /\ d \in DOMAIN databases' /\ databases'[d].by = databases[d].by
    /\ databases[d].schema # "EMPTY" => databases'[d].schema # "EMPTY"
    /\ databases[d].schema = "LEDGER" => databases'[d].schema = "LEDGER"
    /\ databases'[d].version \in Nat /\ databases[d].version \in Nat
    /\ databases'[d].version >= databases[d].version

LEMMA SameIsGrown ==
    ASSUME DatabaseInv, NEW d \in DOMAIN databases, d \in DOMAIN databases', databases'[d] = databases[d]
    PROVE  Grown(d)
BY DatabaseFields, DatabasesAssumption DEF Grown

\* Whatever has the shape keeps it while the databases it knows grow.
LEMMA ShapeStays ==
    ASSUME DatabaseInv, NEW q \in Operators, NEW r \in RunnerRow, Shape(q, r),
           Registered \subseteq Registered',
           \A d \in Registered : Grown(d),
           r.mine => Grown(r.code)
    PROVE  Shape(q, r)'
<1>1. r.image \in Nat /\ r.n \in Nat /\ Len(r.list) \in Nat /\ r.mine \in BOOLEAN
  <2>1. r.image \in 0 .. Latest /\ r.n \in Nat /\ r.list \in Seq(Codes) /\ r.mine \in BOOLEAN
    BY DEF RunnerRow
  <2> QED  BY <2>1, DatabasesAssumption
<1>2. ASSUME r.list # << >>
      PROVE  /\ ~r.mine /\ r.n \in 1 .. Len(r.list)
             /\ \A i \in 1 .. Len(r.list) : r.list[i] \in Registered'
             /\ \A i \in 1 .. r.n - 1 :
                   databases'[r.list[i]].schema = "LEDGER" /\ databases'[r.list[i]].version >= r.image
  <2>1. /\ ~r.mine /\ r.n \in 1 .. Len(r.list)
        /\ \A i \in 1 .. Len(r.list) : r.list[i] \in Registered
        /\ \A i \in 1 .. r.n - 1 :
              databases[r.list[i]].schema = "LEDGER" /\ databases[r.list[i]].version >= r.image
    BY <1>2 DEF Shape
  <2>2. ASSUME NEW i \in 1 .. r.n - 1
        PROVE  databases'[r.list[i]].schema = "LEDGER" /\ databases'[r.list[i]].version >= r.image
    <3>1. i \in 1 .. Len(r.list)
      BY <1>1, <2>1
    <3>2. Grown(r.list[i])
      BY <2>1, <3>1
    <3> QED  BY <1>1, <2>1, <3>2 DEF Grown
  <2> QED  BY <2>1, <2>2
<1>3. r.mine => r.code \in DOMAIN databases' /\ databases'[r.code].by = q
  BY DEF Shape, Grown
<1> QED  BY <1>2, <1>3 DEF Shape

\* A step of p: the commands of the others go on as they were.
LEMMA OthersRun ==
    ASSUME DatabaseInv, NEW p \in Operators,
           runner' \in [Operators -> RunnerRow],
           \A q \in Operators \ {p} : runner'[q] = runner[q],
           Registered \subseteq Registered',
           \A d \in Registered' \ Registered : d \in DOMAIN databases /\ databases[d].by = p,
           \A d \in DOMAIN databases : Grown(d) \/ (d \notin Registered /\ databases[d].by = p),
           advisory' = advisory \/ advisory \in {p, Nobody},
           (Shape(p, runner[p]) /\ Here(p, runner[p]))'
    PROVE  RunsWell'
<1> SUFFICES ASSUME NEW q \in Operators \ {p}  PROVE (Shape(q, runner[q]) /\ Here(q, runner[q]))'
  BY DEF RunsWell
<1>1. PICK r \in RunnerRow : r = runner[q]
  BY RunnerFields
<1>2. Shape(q, r) /\ Here(q, r) /\ runner'[q] = r
  BY <1>1, RunnerFields
<1>3. r.mine => Grown(r.code) /\ r.code \notin Registered' \ Registered
  BY <1>2 DEF Shape
<1>4. \A d \in Registered : Grown(d)
  BY DEF DatabaseInv, PublishedIsReady
<1>5. Shape(q, r)'
  BY <1>2, <1>3, <1>4, ShapeStays
<1>6. Here(q, r)'
  BY <1>2, <1>3, DatabasesAssumption DEF Here, Shape, Grown
<1> QED  BY <1>2, <1>5, <1>6

-----------------------------------------------------------------------------
(* How a command proceeds *)

Proceeds(p) ==
    /\ runner' \in [Operators -> RunnerRow]
    /\ \A q \in Operators \ {p} : runner'[q] = runner[q]
    /\ advisory' = advisory \/ advisory \in {p, Nobody}
    /\ (Shape(p, runner[p]) /\ Here(p, runner[p]))'

\* Steps that leave the registry alone.
LEMMA RegistryStands ==
    ASSUME DatabaseInv, NEW p \in Operators, Proceeds(p), UNCHANGED <<registry, owners, accounts>>,
           databases' \in [DOMAIN databases' -> DatabaseRow],
           \A d \in DOMAIN databases : Grown(d) \/ (d \notin Registered /\ databases[d].by = p)
    PROVE  DatabaseInv'
<1>1. Registered' = Registered
  BY DEF Registered
<1>2. DatabasesTyped' /\ OwnersKnown'
  BY <1>1 DEF Proceeds, DatabaseInv, DatabasesTyped, OwnersKnown
<1>3. PublishedIsReady'
  BY <1>1 DEF DatabaseInv, PublishedIsReady, Grown
<1>4. RunsWell'
  BY <1>1, OthersRun DEF Proceeds
<1> QED  BY <1>2, <1>3, <1>4 DEF DatabaseInv

LEMMA SameDatabases ==
    ASSUME DatabaseInv, databases' = databases
    PROVE  databases' \in [DOMAIN databases' -> DatabaseRow] /\ \A d \in DOMAIN databases : Grown(d)
BY SameIsGrown DEF DatabaseInv, DatabasesTyped

\* One database changes.
LEMMA OneChanges ==
    ASSUME DatabaseInv, NEW d \in DOMAIN databases, NEW row \in DatabaseRow,
           databases' = [databases EXCEPT ![d] = row],
           row.by = databases[d].by, row.schema # "EMPTY",
           databases[d].schema = "LEDGER" => row.schema = "LEDGER",
           row.version >= databases[d].version
    PROVE  /\ databases' \in [DOMAIN databases' -> DatabaseRow] /\ databases'[d] = row
           /\ \A x \in DOMAIN databases : Grown(x)
           /\ \A x \in DOMAIN databases \ {d} : databases'[x] = databases[x]
<1>1. /\ databases' \in [DOMAIN databases' -> DatabaseRow] /\ databases'[d] = row
      /\ DOMAIN databases' = DOMAIN databases
      /\ \A x \in DOMAIN databases \ {d} : databases'[x] = databases[x]
  BY DEF DatabaseInv, DatabasesTyped
<1>2. row.version \in Nat /\ databases[d].version \in Nat
  BY DatabaseFields, DatabasesAssumption DEF DatabaseRow
<1>3. Grown(d)
  BY <1>1, <1>2 DEF Grown
<1>4. \A x \in DOMAIN databases \ {d} : Grown(x)
  BY <1>1, SameIsGrown
<1> QED  BY <1>1, <1>3, <1>4

\* Migrations make it a ledger of a version that is no lower.
LEMMA LedgerGrows ==
    ASSUME DatabaseInv, NEW d \in DOMAIN databases, NEW v \in 0 .. Latest, v >= databases[d].version,
           \/ databases' = [databases EXCEPT ![d].schema = "LEDGER"] /\ v = databases[d].version
           \/ databases' = [databases EXCEPT ![d].schema = "LEDGER", ![d].version = v]
           \/ databases' = [databases EXCEPT ![d].schema = "LEDGER", ![d].version = v, ![d].broken = TRUE]
    PROVE  /\ databases' \in [DOMAIN databases' -> DatabaseRow]
           /\ databases'[d].schema = "LEDGER" /\ databases'[d].version = v
           /\ \A x \in DOMAIN databases : Grown(x)
           /\ \A x \in DOMAIN databases \ {d} : databases'[x] = databases[x]
<1>1. PICK o \in DatabaseRow : o = databases[d]
  BY DatabaseFields
<1>2. \E row \in DatabaseRow :
         /\ databases' = [databases EXCEPT ![d] = row]
         /\ row.schema = "LEDGER" /\ row.version = v /\ row.by = o.by
  <2>1. CASE databases' = [databases EXCEPT ![d].schema = "LEDGER"] /\ v = databases[d].version
    <3>0. /\ [o EXCEPT !.schema = "LEDGER"] \in DatabaseRow
          /\ [o EXCEPT !.schema = "LEDGER"].schema = "LEDGER"
          /\ [o EXCEPT !.schema = "LEDGER"].version = o.version
          /\ [o EXCEPT !.schema = "LEDGER"].by = o.by
      BY DEF DatabaseRow
    <3>1. PICK row \in DatabaseRow :
             row = [o EXCEPT !.schema = "LEDGER"] /\ row.schema = "LEDGER" /\ row.version = o.version /\ row.by = o.by
      BY <3>0
    <3>2. databases' = [databases EXCEPT ![d] = row]
      BY <1>1, <2>1, <3>1
    <3> QED  BY <1>1, <2>1, <3>1, <3>2
  <2>2. CASE databases' = [databases EXCEPT ![d].schema = "LEDGER", ![d].version = v]
    <3>0. /\ [o EXCEPT !.schema = "LEDGER", !.version = v] \in DatabaseRow
          /\ [o EXCEPT !.schema = "LEDGER", !.version = v].schema = "LEDGER"
          /\ [o EXCEPT !.schema = "LEDGER", !.version = v].version = v
          /\ [o EXCEPT !.schema = "LEDGER", !.version = v].by = o.by
      BY DEF DatabaseRow
    <3>1. PICK row \in DatabaseRow :
             /\ row = [o EXCEPT !.schema = "LEDGER", !.version = v]
             /\ row.schema = "LEDGER" /\ row.version = v /\ row.by = o.by
      BY <3>0
    <3>2. databases' = [databases EXCEPT ![d] = row]
      BY <1>1, <2>2, <3>1
    <3> QED  BY <3>1, <3>2
  <2>3. CASE databases' = [databases EXCEPT ![d].schema = "LEDGER", ![d].version = v, ![d].broken = TRUE]
    <3>0. /\ [o EXCEPT !.schema = "LEDGER", !.version = v, !.broken = TRUE] \in DatabaseRow
          /\ [o EXCEPT !.schema = "LEDGER", !.version = v, !.broken = TRUE].schema = "LEDGER"
          /\ [o EXCEPT !.schema = "LEDGER", !.version = v, !.broken = TRUE].version = v
          /\ [o EXCEPT !.schema = "LEDGER", !.version = v, !.broken = TRUE].by = o.by
      BY DEF DatabaseRow
    <3>1. PICK row \in DatabaseRow :
             /\ row = [o EXCEPT !.schema = "LEDGER", !.version = v, !.broken = TRUE]
             /\ row.schema = "LEDGER" /\ row.version = v /\ row.by = o.by
      BY <3>0
    <3>2. databases' = [databases EXCEPT ![d] = row]
      BY <1>1, <2>3, <3>1
    <3> QED  BY <3>1, <3>2
  <2> QED  BY <2>1, <2>2, <2>3
<1>3. PICK row \in DatabaseRow :
         /\ databases' = [databases EXCEPT ![d] = row]
         /\ row.schema = "LEDGER" /\ row.version = v /\ row.by = o.by
  BY <1>2
<1>4. /\ databases' \in [DOMAIN databases' -> DatabaseRow] /\ databases'[d] = row
      /\ \A x \in DOMAIN databases : Grown(x)
      /\ \A x \in DOMAIN databases \ {d} : databases'[x] = databases[x]
  <2>1. row.by = databases[d].by /\ row.schema # "EMPTY" /\ row.version >= databases[d].version
    BY <1>1, <1>3
  <2> QED  BY <1>3, <2>1, OneChanges
<1> QED  BY <1>3, <1>4

LEMMA OverProceeds ==
    ASSUME DatabaseInv, NEW p \in Operators, Over(p)
    PROVE  Proceeds(p) /\ runner'[p] = Idle
<1>1. /\ runner' \in [Operators -> RunnerRow] /\ runner'[p] = Idle
      /\ \A q \in Operators \ {p} : runner'[q] = runner[q]
  BY IdleRow DEF Over, DatabaseInv, DatabasesTyped
<1>2. advisory' = advisory \/ advisory \in {p, Nobody}
  BY DEF Over
<1>3. (Shape(p, runner[p]) /\ Here(p, runner[p]))'
  BY <1>1, IdleRow DEF Shape, Here
<1> QED  BY <1>1, <1>2, <1>3 DEF Proceeds

\* p goes on to the step, its databases as good as they were.
LEMMA GoesProceeds ==
    ASSUME DatabaseInv, NEW p \in Operators, NEW step \in Steps, Goes(p, step), advisory' = advisory,
           Registered \subseteq Registered',
           \A d \in Registered : Grown(d),
           runner[p].mine => Grown(runner[p].code),
           \/ step = "LIST" /\ ~runner[p].mine /\ runner[p].list = << >>
           \/ step \in {"BASELINE", "DEPLOY"} /\ (runner[p].mine \/ runner[p].list # << >>)
           \/ step \in {"REGISTER", "CLEANUP", "DROP"} /\ runner[p].mine,
           step = "REGISTER" => databases'[runner[p].code].schema # "EMPTY",
           step = "DROP" => runner[p].code \notin Registered'
    PROVE  Proceeds(p)
<1>1. PICK r \in RunnerRow : r = runner[p]
  BY RunnerFields
<1>2. PICK t \in RunnerRow :
         /\ t = [r EXCEPT !.at = step] /\ t.at = step /\ t.code = r.code /\ t.mine = r.mine
         /\ t.image = r.image /\ t.list = r.list /\ t.n = r.n
  BY RowMoves
<1>3. /\ runner' \in [Operators -> RunnerRow] /\ runner'[p] = t
      /\ \A q \in Operators \ {p} : runner'[q] = runner[q]
  BY <1>1, <1>2 DEF Goes, DatabaseInv, DatabasesTyped
<1>4. Shape(p, r) /\ Here(p, r)
  BY <1>1, RunnerFields
<1>5. Shape(p, t)
  BY <1>1, <1>2, <1>4 DEF Shape
<1>6. Shape(p, t)'
  BY <1>1, <1>2, <1>5, ShapeStays
<1>7. Here(p, t)'
  BY <1>1, <1>2, <1>4 DEF Here
<1> QED  BY <1>3, <1>6, <1>7 DEF Proceeds

\* After an error.
LEMMA FailsProceeds ==
    ASSUME DatabaseInv, NEW p \in Operators, Fails(p),
           Registered \subseteq Registered',
           \A d \in Registered : Grown(d),
           runner[p].mine => Grown(runner[p].code)
    PROVE  Proceeds(p)
<1>1. CASE runner[p].mine
  <2>1. Goes(p, "CLEANUP") /\ advisory' = advisory /\ "CLEANUP" \in Steps
    BY <1>1, Kinds DEF Fails
  <2> QED  BY <1>1, <2>1, GoesProceeds
<1>2. CASE ~runner[p].mine
  BY <1>2, OverProceeds DEF Fails
<1> QED  BY <1>1, <1>2

LEMMA TargetThere ==
    ASSUME DatabaseInv, NEW p \in Operators, runner[p].at \in {"INSPECT", "BASELINE", "DEPLOY"}
    PROVE  /\ Target(p) \in DOMAIN databases
           /\ runner[p].list # << >> => Target(p) \in Registered
           /\ runner[p].list = << >> => runner[p].mine /\ Target(p) = runner[p].code /\ databases[Target(p)].by = p
           /\ runner[p].mine \/ runner[p].list # << >>
<1>1. Shape(p, runner[p])
  BY RunnerFields
<1>2. CASE runner[p].list = << >>
  BY <1>1, <1>2 DEF Shape, Target
<1>3. CASE runner[p].list # << >>
  <2>1. Target(p) \in Registered
    BY <1>1, <1>3 DEF Shape, Target
  <2> QED  BY <1>1, <1>3, <2>1 DEF Shape, DatabaseInv, PublishedIsReady
<1> QED  BY <1>2, <1>3

\* The databases that p needs grow when all do.
LEMMA NeededGrow ==
    ASSUME DatabaseInv, NEW p \in Operators, \A d \in DOMAIN databases : Grown(d)
    PROVE  (\A d \in Registered : Grown(d)) /\ (runner[p].mine => Grown(runner[p].code))
BY RunnerFields DEF Shape, DatabaseInv, PublishedIsReady

-----------------------------------------------------------------------------
(* migrate deploy *)

LEMMA InspectKeeps ==
    ASSUME DatabaseInv, NEW p \in Operators, Inspect(p)
    PROVE  DatabaseInv'
<1>1. UNCHANGED <<databases, registry, owners, accounts>> /\ runner[p].at = "INSPECT" /\ Registered' = Registered
  BY DEF Inspect, At, Registered
<1>2. databases' \in [DOMAIN databases' -> DatabaseRow] /\ \A d \in DOMAIN databases : Grown(d)
  BY <1>1, SameDatabases
<1>3. (\A d \in Registered : Grown(d)) /\ (runner[p].mine => Grown(runner[p].code))
  BY <1>2, NeededGrow
<1>4. Proceeds(p)
  <2>1. CASE DeployFails(p)
    BY <1>1, <1>3, <2>1, FailsProceeds DEF DeployFails
  <2>2. CASE \E step \in {"BASELINE", "DEPLOY"} : Goes(p, step) /\ advisory' = advisory
    <3>1. PICK step \in {"BASELINE", "DEPLOY"} : Goes(p, step) /\ advisory' = advisory
      BY <2>2
    <3>2. step \in Steps
      BY Kinds
    <3> QED  BY <1>1, <1>3, <3>1, <3>2, TargetThere, GoesProceeds
  <2> QED  BY <2>1, <2>2 DEF Inspect
<1> QED  BY <1>1, <1>2, <1>4, RegistryStands

LEMMA BaselineKeeps ==
    ASSUME DatabaseInv, NEW p \in Operators, Baseline(p)
    PROVE  DatabaseInv'
<1>1. UNCHANGED <<registry, owners, accounts>> /\ runner[p].at = "BASELINE" /\ Registered' = Registered
  BY DEF Baseline, At, Registered
<1>2. CASE DeployFails(p) /\ UNCHANGED databases
  <2>1. databases' \in [DOMAIN databases' -> DatabaseRow] /\ \A d \in DOMAIN databases : Grown(d)
    BY <1>2, SameDatabases
  <2>2. (\A d \in Registered : Grown(d)) /\ (runner[p].mine => Grown(runner[p].code))
    BY <2>1, NeededGrow
  <2>3. Proceeds(p)
    BY <1>1, <1>2, <2>2, FailsProceeds DEF DeployFails
  <2> QED  BY <1>1, <2>1, <2>3, RegistryStands
<1>3. CASE /\ databases[Target(p)].schema = "LEGACY"
           /\ databases' = [databases EXCEPT ![Target(p)].schema = "LEDGER"]
           /\ Goes(p, "DEPLOY") /\ UNCHANGED advisory
  <2>1. PICK d \in DOMAIN databases : d = Target(p)
    BY <1>1, TargetThere
  <2>2. databases' = [databases EXCEPT ![d].schema = "LEDGER"]
    BY <1>3, <2>1
  <2>3. PICK v \in 0 .. Latest : v = databases[d].version /\ v >= databases[d].version
    BY DatabaseFields, DatabasesAssumption
  <2>5. databases' \in [DOMAIN databases' -> DatabaseRow] /\ \A x \in DOMAIN databases : Grown(x)
    BY <2>2, <2>3, LedgerGrows
  <2>6. (\A x \in Registered : Grown(x)) /\ (runner[p].mine => Grown(runner[p].code))
    BY <2>5, NeededGrow
  <2>7. Proceeds(p)
    <3>1. "DEPLOY" \in Steps /\ (runner[p].mine \/ runner[p].list # << >>)
      BY <1>1, Kinds, TargetThere
    <3> QED  BY <1>1, <1>3, <2>6, <3>1, GoesProceeds
  <2> QED  BY <1>1, <2>5, <2>7, RegistryStands
<1> QED  BY <1>2, <1>3 DEF Baseline

\* The next database of the list, once the last one is ready.
LEMMA DeployedProceeds ==
    ASSUME DatabaseInv, NEW p \in Operators, runner[p].at = "DEPLOY", Deployed(p),
           Registered' = Registered,
           \A d \in Registered : Grown(d),
           runner[p].mine => Grown(runner[p].code),
           databases'[Target(p)].schema = "LEDGER", databases'[Target(p)].version >= runner[p].image
    PROVE  Proceeds(p)
<1>1. CASE runner[p].list = << >>
  <2>1. Goes(p, "REGISTER") /\ advisory' = advisory /\ Target(p) = runner[p].code /\ runner[p].mine
    BY <1>1, TargetThere DEF Deployed
  <2>2. "REGISTER" \in Steps /\ databases'[runner[p].code].schema # "EMPTY"
    BY <2>1, Kinds
  <2> QED  BY <2>1, <2>2, GoesProceeds
<1>2. CASE runner[p].list # << >> /\ runner[p].n = Len(runner[p].list)
  BY <1>2, OverProceeds DEF Deployed
<1>3. CASE runner[p].list # << >> /\ runner[p].n # Len(runner[p].list)
  <2>1. PICK r \in RunnerRow : r = runner[p]
    BY RunnerFields
  <2>2. [r EXCEPT !.at = "INSPECT", !.n = r.n + 1] \in RunnerRow
    <3>1. "INSPECT" \in Steps /\ r.n + 1 \in Nat
      BY Kinds, <2>1, RunnerFields
    <3> QED  BY <3>1 DEF RunnerRow
  <2>3. PICK t \in RunnerRow :
           /\ t = [r EXCEPT !.at = "INSPECT", !.n = r.n + 1]
           /\ t.at = "INSPECT" /\ t.n = r.n + 1 /\ t.code = r.code /\ t.mine = r.mine
           /\ t.image = r.image /\ t.list = r.list
    BY <2>2 DEF RunnerRow
  <2>4. runner' = [runner EXCEPT ![p] = t] /\ advisory' = advisory
    BY <1>3, <2>1, <2>3 DEF Deployed
  <2>5. /\ runner' \in [Operators -> RunnerRow] /\ runner'[p] = t
        /\ \A q \in Operators \ {p} : runner'[q] = runner[q]
    BY <2>4 DEF DatabaseInv, DatabasesTyped
  <2>6. Shape(p, r) /\ Here(p, r)
    BY <2>1, RunnerFields
  <2>7. Shape(p, r)'
    BY <2>1, <2>6, ShapeStays
  <2>8. r.n \in Nat /\ r.list \in Seq(Codes) /\ r.n \in 1 .. Len(r.list) /\ r.n # Len(r.list)
    BY <1>3, <2>1, <2>6, RunnerFields DEF Shape
  <2>9. Target(p) = r.list[r.n]
    BY <1>3, <2>1 DEF Target
  <2>10. ASSUME NEW i \in 1 .. t.n - 1
         PROVE  databases'[t.list[i]].schema = "LEDGER" /\ databases'[t.list[i]].version >= t.image
    <3>1. CASE i = r.n
      BY <2>1, <2>3, <2>9, <3>1
    <3>2. CASE i # r.n
      <4>1. i \in 1 .. r.n - 1
        BY <2>3, <2>8, <3>2
      <4> QED  BY <1>3, <2>1, <2>3, <2>7, <4>1 DEF Shape
    <3> QED  BY <3>1, <3>2
  <2>11. t.n \in 1 .. Len(t.list)
    BY <2>3, <2>8
  <2>12. Shape(p, t)'
    BY <1>3, <2>1, <2>3, <2>7, <2>10, <2>11 DEF Shape
  <2>13. Here(p, t)'
    BY <2>3, <2>6 DEF Here
  <2> QED  BY <2>4, <2>5, <2>12, <2>13 DEF Proceeds
<1> QED  BY <1>1, <1>2, <1>3

LEMMA BehindIs ==
    ASSUME DatabaseInv, NEW d \in DOMAIN databases, NEW image \in 0 .. Latest, NEW v \in Behind(d, image)
    PROVE  v \in 0 .. Latest /\ v >= databases[d].version
BY DatabaseFields, DatabasesAssumption DEF Behind

LEMMA DeployKeeps ==
    ASSUME DatabaseInv, NEW p \in Operators, Deploy(p)
    PROVE  DatabaseInv'
<1>1. UNCHANGED <<registry, owners, accounts>> /\ runner[p].at = "DEPLOY" /\ Registered' = Registered
  BY DEF Deploy, At, Registered
<1>2. PICK d \in DOMAIN databases : d = Target(p)
  BY <1>1, TargetThere
<1>3. PICK image \in 0 .. Latest : image = runner[p].image
  BY RunnerFields
<1>4. CASE DeployFails(p) /\ UNCHANGED databases
  <2>1. databases' \in [DOMAIN databases' -> DatabaseRow] /\ \A x \in DOMAIN databases : Grown(x)
    BY <1>4, SameDatabases
  <2>2. (\A x \in Registered : Grown(x)) /\ (runner[p].mine => Grown(runner[p].code))
    BY <2>1, NeededGrow
  <2>3. Proceeds(p)
    BY <1>1, <1>4, <2>2, FailsProceeds DEF DeployFails
  <2> QED  BY <1>1, <2>1, <2>3, RegistryStands
<1>5. CASE (\E v \in Behind(d, image) : databases' = Partly(d, v)) /\ DeployFails(p)
  <2>1. PICK v \in Behind(d, image) : databases' = Partly(d, v)
    BY <1>5
  <2>2. databases' = [databases EXCEPT ![d].schema = "LEDGER", ![d].version = v, ![d].broken = TRUE]
    BY <2>1 DEF Partly
  <2>3. v \in 0 .. Latest /\ v >= databases[d].version
    BY BehindIs
  <2>4. databases' \in [DOMAIN databases' -> DatabaseRow] /\ \A x \in DOMAIN databases : Grown(x)
    BY <2>2, <2>3, LedgerGrows
  <2>5. (\A x \in Registered : Grown(x)) /\ (runner[p].mine => Grown(runner[p].code))
    BY <2>4, NeededGrow
  <2>6. Proceeds(p)
    BY <1>1, <1>5, <2>5, FailsProceeds DEF DeployFails
  <2> QED  BY <1>1, <2>4, <2>6, RegistryStands
<1>6. CASE /\ databases' = [databases EXCEPT ![d].schema = "LEDGER", ![d].version = IF image > @ THEN image ELSE @]
           /\ Deployed(p)
  <2>1. PICK v \in 0 .. Latest : /\ v = IF image > databases[d].version THEN image ELSE databases[d].version
                                 /\ v >= databases[d].version /\ v >= image
    BY DatabaseFields, DatabasesAssumption
  <2>2. databases' = [databases EXCEPT ![d].schema = "LEDGER", ![d].version = v]
    BY <1>6, <2>1, DatabaseFields DEF DatabaseRow
  <2>3. /\ databases' \in [DOMAIN databases' -> DatabaseRow] /\ (\A x \in DOMAIN databases : Grown(x))
        /\ databases'[d].schema = "LEDGER" /\ databases'[d].version = v
    <3>1. v \in 0 .. Latest /\ v >= databases[d].version
      BY <2>1
    <3> QED  BY <2>2, <3>1, LedgerGrows
  <2>4. (\A x \in Registered : Grown(x)) /\ (runner[p].mine => Grown(runner[p].code))
    BY <2>3, NeededGrow
  <2>5. Proceeds(p)
    BY <1>1, <1>2, <1>3, <1>6, <2>1, <2>3, <2>4, DeployedProceeds
  <2> QED  BY <1>1, <2>3, <2>5, RegistryStands
<1> QED  BY <1>2, <1>3, <1>4, <1>5, <1>6 DEF Deploy

\* Someone resolves a failed migration by hand.
LEMMA RepairKeeps ==
    ASSUME DatabaseInv, Repair
    PROVE  DatabaseInv'
<1>1. PICK d \in DOMAIN databases : databases' = [databases EXCEPT ![d].broken = FALSE]
  BY DEF Repair
<1>2. UNCHANGED <<registry, owners, accounts, advisory, runner>> /\ Registered' = Registered
  BY DEF Repair, Registered
<1>3. PICK o \in DatabaseRow : o = databases[d]
  BY DatabaseFields
<1>4. /\ [o EXCEPT !.broken = FALSE] \in DatabaseRow
      /\ [o EXCEPT !.broken = FALSE].schema = o.schema
      /\ [o EXCEPT !.broken = FALSE].version = o.version
      /\ [o EXCEPT !.broken = FALSE].by = o.by
  BY DEF DatabaseRow
<1>5. /\ databases' \in [DOMAIN databases' -> DatabaseRow] /\ DOMAIN databases' = DOMAIN databases
      /\ \A x \in DOMAIN databases \ {d} : databases'[x] = databases[x]
      /\ databases'[d] = [o EXCEPT !.broken = FALSE]
  BY <1>1, <1>3, <1>4 DEF DatabaseInv, DatabasesTyped
<1>6. Grown(d)
  <2>1. o.version \in Nat /\ o.version >= o.version
    BY DatabasesAssumption DEF DatabaseRow
  <2> QED  BY <1>3, <1>4, <1>5, <2>1 DEF Grown
<1>7. \A x \in DOMAIN databases : Grown(x)
  BY <1>5, <1>6, SameIsGrown
<1>8. DatabasesTyped' /\ OwnersKnown' /\ PublishedIsReady'
  BY <1>2, <1>5, <1>7 DEF DatabaseInv, DatabasesTyped, OwnersKnown, PublishedIsReady, Grown
<1>9. RunsWell'
  <2> SUFFICES ASSUME NEW p \in Operators  PROVE (Shape(p, runner[p]) /\ Here(p, runner[p]))'
    BY DEF RunsWell
  <2>1. PICK r \in RunnerRow : r = runner[p] /\ r = runner'[p]
    BY <1>2, RunnerFields
  <2>2. Shape(p, r) /\ Here(p, r)
    BY <2>1, RunnerFields
  <2>3. (\A x \in Registered : Grown(x)) /\ (r.mine => Grown(r.code))
    BY <1>7, <2>1, NeededGrow
  <2>4. Shape(p, r)'
    BY <1>2, <2>2, <2>3, ShapeStays
  <2>5. Here(p, r)'
    BY <1>2, <2>2, <2>3 DEF Here, Shape, Grown
  <2> QED  BY <2>1, <2>4, <2>5
<1> QED  BY <1>8, <1>9 DEF DatabaseInv

\* A killed migration is on record as failed.
LEMMA CrashKeeps ==
    ASSUME DatabaseInv, NEW p \in Operators, Crash(p)
    PROVE  DatabaseInv'
<1>1. UNCHANGED <<registry, owners, accounts>> /\ Over(p)
  BY DEF Crash
<1>2. Proceeds(p)
  BY <1>1, OverProceeds
<1>3. databases' \in [DOMAIN databases' -> DatabaseRow] /\ \A x \in DOMAIN databases : Grown(x)
  <2>1. CASE UNCHANGED databases
    BY <2>1, SameDatabases
  <2>2. CASE At(p, "DEPLOY") /\ \E v \in Behind(Target(p), runner[p].image) : databases' = Partly(Target(p), v)
    <3>1. PICK d \in DOMAIN databases : d = Target(p)
      BY <2>2, TargetThere DEF At
    <3>2. PICK image \in 0 .. Latest : image = runner[p].image
      BY RunnerFields
    <3>3. PICK v \in Behind(d, image) : databases' = Partly(d, v)
      BY <2>2, <3>1, <3>2
    <3>4. databases' = [databases EXCEPT ![d].schema = "LEDGER", ![d].version = v, ![d].broken = TRUE]
      BY <3>3 DEF Partly
    <3>5. v \in 0 .. Latest /\ v >= databases[d].version
      BY BehindIs
    <3> QED  BY <3>4, <3>5, LedgerGrows
  <2> QED  BY <2>1, <2>2 DEF Crash
<1> QED  BY <1>1, <1>2, <1>3, RegistryStands

-----------------------------------------------------------------------------
(* provisionTenant *)

\* A step of p that leaves its command in the row.
LEMMA Launches ==
    ASSUME DatabaseInv, NEW p \in Operators, NEW t \in RunnerRow,
           runner' = [runner EXCEPT ![p] = t],
           UNCHANGED <<databases, registry, owners, accounts>>,
           advisory' = advisory \/ advisory \in {p, Nobody},
           (Shape(p, t) /\ Here(p, t))'
    PROVE  DatabaseInv'
<1>1. /\ runner' \in [Operators -> RunnerRow] /\ runner'[p] = t
      /\ \A q \in Operators \ {p} : runner'[q] = runner[q]
  BY DEF DatabaseInv, DatabasesTyped
<1>2. Proceeds(p)
  BY <1>1 DEF Proceeds
<1>3. databases' \in [DOMAIN databases' -> DatabaseRow] /\ \A x \in DOMAIN databases : Grown(x)
  BY SameDatabases
<1> QED  BY <1>2, <1>3, RegistryStands

LEMMA ProvisionKeeps ==
    ASSUME DatabaseInv, NEW p \in Operators, Provision(p)
    PROVE  DatabaseInv'
<1>1. PICK code \in Codes \ Registered, email \in Emails, image \in Releases :
         runner' = [runner EXCEPT ![p] = [Idle EXCEPT !.at = "CREATE", !.code = code, !.email = email,
                                                      !.known = {email} \cap accounts, !.image = image]]
  BY DEF Provision
<1>3. UNCHANGED <<databases, registry, owners, accounts, advisory>>
  BY DEF Provision
<1>4. \E t \in RunnerRow :
         /\ runner' = [runner EXCEPT ![p] = t]
         /\ t.at = "CREATE" /\ t.code = code /\ ~t.mine /\ t.list = << >> /\ t.n = 0
  <2> DEFINE t == [Idle EXCEPT !.at = "CREATE", !.code = code, !.email = email, !.known = {email} \cap accounts, !.image = image]
  <2>1. image \in 0 .. Latest
    BY DatabasesAssumption DEF Releases
  <2>2. /\ t \in RunnerRow
        /\ t.at = "CREATE" /\ t.code = code /\ ~t.mine /\ t.list = << >> /\ t.n = 0
    <3>1. PICK r \in RunnerRow : r = Idle
      BY IdleRow
    <3>2. t = [r EXCEPT !.at = "CREATE", !.code = code, !.email = email, !.known = {email} \cap accounts, !.image = image]
      BY <3>1
    <3> QED  BY <2>1, <3>1, <3>2, IdleRow, Kinds DEF RunnerRow
  <2> QED  BY <1>1, <2>2
<1>5. PICK t \in RunnerRow :
         /\ runner' = [runner EXCEPT ![p] = t]
         /\ t.at = "CREATE" /\ t.code = code /\ ~t.mine /\ t.list = << >> /\ t.n = 0
  BY <1>4
<1>6. (Shape(p, t) /\ Here(p, t))'
  BY <1>5 DEF Shape, Here
<1> QED  BY <1>3, <1>5, <1>6, Launches

LEMMA DatabaseAdded ==
    ASSUME DatabaseInv, NEW code \in Codes, code \notin DOMAIN databases, NEW row \in DatabaseRow,
           databases' = With(databases, code, row)
    PROVE  /\ databases' \in [DOMAIN databases' -> DatabaseRow]
           /\ code \in DOMAIN databases' /\ databases'[code] = row
           /\ \A x \in DOMAIN databases : Grown(x)
<1>1. /\ DOMAIN databases' = DOMAIN databases \cup {code} /\ databases'[code] = row
      /\ \A x \in DOMAIN databases : databases'[x] = databases[x]
      /\ databases' \in [DOMAIN databases' -> DatabaseRow]
  BY DEF With, DatabaseInv, DatabasesTyped
<1> QED  BY <1>1, SameIsGrown

LEMMA EmptyDatabase ==
    ASSUME NEW by \in Operators \cup {Nobody}
    PROVE  Database("EMPTY", 0, by) \in DatabaseRow /\ Database("EMPTY", 0, by).by = by
BY DatabasesAssumption DEF Database, DatabaseRow

LEMMA CreateDatabaseKeeps ==
    ASSUME DatabaseInv, NEW p \in Operators, CreateDatabase(p)
    PROVE  DatabaseInv'
<1>1. UNCHANGED <<registry, owners, accounts>> /\ runner[p].at = "CREATE"
  BY DEF CreateDatabase, At
<1>2. PICK code \in Codes : code = runner[p].code
  BY <1>1, RunnerFields DEF Here
<1>3. CASE MakeDatabase(p)
  <2>1. PICK row \in DatabaseRow : row = Database("EMPTY", 0, p) /\ row.by = p
    BY EmptyDatabase
  <2>2. databases' = With(databases, code, row) /\ code \notin DOMAIN databases
    BY <1>2, <1>3, <2>1 DEF MakeDatabase
  <2>3. /\ databases' \in [DOMAIN databases' -> DatabaseRow]
        /\ code \in DOMAIN databases' /\ databases'[code] = row
        /\ \A x \in DOMAIN databases : Grown(x)
    BY <2>2, DatabaseAdded
  <2>4. PICK r \in RunnerRow : r = runner[p]
    BY RunnerFields
  <2>5. /\ [r EXCEPT !.at = "INSPECT", !.mine = TRUE] \in RunnerRow
        /\ [r EXCEPT !.at = "INSPECT", !.mine = TRUE].at = "INSPECT"
        /\ [r EXCEPT !.at = "INSPECT", !.mine = TRUE].mine = TRUE
        /\ [r EXCEPT !.at = "INSPECT", !.mine = TRUE].code = r.code
        /\ [r EXCEPT !.at = "INSPECT", !.mine = TRUE].list = r.list
        /\ [r EXCEPT !.at = "INSPECT", !.mine = TRUE].n = r.n
    BY Kinds DEF RunnerRow
  <2>6. PICK t \in RunnerRow :
           /\ t = [r EXCEPT !.at = "INSPECT", !.mine = TRUE]
           /\ t.at = "INSPECT" /\ t.mine = TRUE /\ t.code = r.code /\ t.list = r.list /\ t.n = r.n
    BY <2>5
  <2>7. /\ runner' \in [Operators -> RunnerRow] /\ runner'[p] = t
        /\ \A q \in Operators \ {p} : runner'[q] = runner[q]
        /\ advisory' = advisory
    BY <1>3, <2>4, <2>6 DEF MakeDatabase, DatabaseInv, DatabasesTyped
  <2>8. r.list = << >> /\ r.n = 0
    BY <1>1, <2>4, RunnerFields DEF Shape
  <2>9. (Shape(p, t) /\ Here(p, t))'
    BY <1>2, <2>1, <2>3, <2>4, <2>6, <2>8 DEF Shape, Here
  <2>10. Proceeds(p)
    BY <2>7, <2>9 DEF Proceeds
  <2> QED  BY <1>1, <2>3, <2>10, RegistryStands
<1>4. CASE Over(p) /\ UNCHANGED databases
  BY <1>1, <1>4, OverProceeds, SameDatabases, RegistryStands
<1>5. CASE /\ runner[p].code \notin DOMAIN databases
           /\ databases' = With(databases, runner[p].code, Database("EMPTY", 0, Nobody))
           /\ Over(p)
  <2>1. PICK row \in DatabaseRow : row = Database("EMPTY", 0, Nobody)
    BY EmptyDatabase
  <2>2. databases' = With(databases, code, row) /\ code \notin DOMAIN databases
    BY <1>2, <1>5, <2>1
  <2>3. databases' \in [DOMAIN databases' -> DatabaseRow] /\ \A x \in DOMAIN databases : Grown(x)
    BY <2>2, DatabaseAdded
  <2> QED  BY <1>1, <1>5, <2>3, OverProceeds, RegistryStands
<1> QED  BY <1>3, <1>4, <1>5 DEF CreateDatabase

LEMMA CleanupKeeps ==
    ASSUME DatabaseInv, NEW p \in Operators, Cleanup(p)
    PROVE  DatabaseInv'
<1>1. UNCHANGED <<databases, registry, owners, accounts>> /\ runner[p].at = "CLEANUP" /\ Registered' = Registered
  BY DEF Cleanup, At, Registered
<1>2. databases' \in [DOMAIN databases' -> DatabaseRow] /\ \A d \in DOMAIN databases : Grown(d)
  BY <1>1, SameDatabases
<1>3. CASE Over(p)
  BY <1>1, <1>2, <1>3, OverProceeds, RegistryStands
<1>4. CASE runner[p].code \notin Registered /\ Goes(p, "DROP") /\ UNCHANGED advisory
  <2>1. (\A d \in Registered : Grown(d)) /\ (runner[p].mine => Grown(runner[p].code))
    BY <1>2, NeededGrow
  <2>2. "DROP" \in Steps /\ runner[p].mine
    BY <1>1, Kinds, RunnerFields DEF Shape
  <2>3. Proceeds(p)
    BY <1>1, <1>4, <2>1, <2>2, GoesProceeds
  <2> QED  BY <1>1, <1>2, <2>3, RegistryStands
<1> QED  BY <1>3, <1>4 DEF Cleanup, CleanupReads

\* What the cleanup drops is its own and no tenant's.
LEMMA DropKeeps ==
    ASSUME DatabaseInv, NEW p \in Operators, Drop(p)
    PROVE  DatabaseInv'
<1>1. UNCHANGED <<registry, owners, accounts>> /\ runner[p].at = "DROP" /\ Over(p)
  BY DEF Drop, At
<1>2. Proceeds(p)
  BY <1>1, OverProceeds
<1>3. CASE UNCHANGED databases
  BY <1>1, <1>2, <1>3, SameDatabases, RegistryStands
<1>4. CASE databases' = [d \in DOMAIN databases \ {runner[p].code} |-> databases[d]]
  <2>1. /\ databases' \in [DOMAIN databases' -> DatabaseRow]
        /\ DOMAIN databases' = DOMAIN databases \ {runner[p].code}
        /\ \A d \in DOMAIN databases \ {runner[p].code} : databases'[d] = databases[d]
    BY <1>4 DEF DatabaseInv, DatabasesTyped
  <2>2. runner[p].code \notin Registered /\ databases[runner[p].code].by = p
    BY <1>1, RunnerFields DEF Shape, Here
  <2>3. \A d \in DOMAIN databases : Grown(d) \/ (d \notin Registered /\ databases[d].by = p)
    BY <2>1, <2>2, SameIsGrown
  <2> QED  BY <1>1, <1>2, <2>1, <2>3, RegistryStands
<1> QED  BY <1>3, <1>4 DEF Drop

\* The transaction that publishes a tenant.
LEMMA RegistryGrows ==
    ASSUME registry \in Seq(Codes), IsInjective(registry), NEW code \in Codes \ Registered,
           registry' = Append(registry, code)
    PROVE  /\ registry' \in Seq(Codes) /\ registry' # << >> /\ IsInjective(registry')
           /\ Registered' = Registered \cup {code}
<1>1. /\ registry' \in Seq(Codes) /\ DOMAIN registry = 1 .. Len(registry) /\ Len(registry) \in Nat
      /\ DOMAIN registry' = 1 .. Len(registry) + 1
      /\ registry'[Len(registry) + 1] = code
      /\ \A i \in 1 .. Len(registry) : registry'[i] = registry[i]
  OBVIOUS
<1>2. \A i \in 1 .. Len(registry) : registry[i] \in Registered
  BY <1>1, RegisteredIs
<1>3. Registered' = {registry'[i] : i \in DOMAIN registry'}
  BY DEF Registered, ToSet
<1>4. Registered' = Registered \cup {code}
  BY <1>1, <1>3, RegisteredIs
<1>5. IsInjective(registry')
  BY <1>1, <1>2 DEF IsInjective
<1> QED  BY <1>1, <1>4, <1>5

LEMMA RegisterKeeps ==
    ASSUME DatabaseInv, NEW p \in Operators, Register(p)
    PROVE  DatabaseInv'
<1>1. UNCHANGED databases /\ runner[p].at = "REGISTER"
  BY DEF Register, At
<1>2. PICK code \in Codes : code = runner[p].code
  BY <1>1, RunnerFields DEF Here
<1>3. /\ code \in DOMAIN databases /\ databases[code].by = p /\ databases[code].schema # "EMPTY"
      /\ runner[p].mine
  BY <1>1, <1>2, RunnerFields DEF Shape, Here
<1>4. databases' \in [DOMAIN databases' -> DatabaseRow] /\ \A d \in DOMAIN databases : Grown(d)
  BY <1>1, SameDatabases
<1>5. (\A d \in Registered : Grown(d)) /\ (runner[p].mine => Grown(runner[p].code))
  BY <1>4, NeededGrow
<1>6. CASE Fails(p) /\ UNCHANGED <<registry, owners, accounts>>
  <2>1. Registered' = Registered
    BY <1>6 DEF Registered
  <2>2. Proceeds(p)
    BY <1>5, <1>6, <2>1, FailsProceeds
  <2> QED  BY <1>4, <1>6, <2>2, RegistryStands
<1>7. CASE \E email \in {runner[p].email} :
              /\ code \notin Registered
              /\ registry' = Append(registry, code)
              /\ owners' = With(owners, code, {email})
              /\ accounts' = accounts \cup {email}
              /\ Over(p) \/ Fails(p)
  <2>1. PICK email : /\ code \notin Registered
                     /\ registry' = Append(registry, code)
                     /\ owners' = With(owners, code, {email})
                     /\ accounts' = accounts \cup {email}
                     /\ Over(p) \/ Fails(p)
    BY <1>7
  <2>2. /\ registry' \in Seq(Codes) /\ registry' # << >> /\ IsInjective(registry')
        /\ Registered' = Registered \cup {code}
    BY <2>1, RegistryGrows DEF DatabaseInv, DatabasesTyped
  <2>3. Proceeds(p)
    BY <1>5, <2>1, <2>2, OverProceeds, FailsProceeds
  <2>4. RunsWell'
    BY <1>3, <1>4, <2>2, <2>3, OthersRun DEF Proceeds
  <2>5. DatabasesTyped'
    BY <1>4, <2>2, <2>3 DEF DatabasesTyped, Proceeds
  <2>6. /\ DOMAIN owners' = DOMAIN owners \cup {code} /\ owners'[code] = {email}
        /\ \A d \in DOMAIN owners \ {code} : owners'[d] = owners[d]
    BY <2>1 DEF With
  <2>7. OwnersKnown'
    BY <2>2, <2>6 DEF DatabaseInv, OwnersKnown
  <2>8. PublishedIsReady'
    <3> SUFFICES ASSUME NEW d \in Registered'
                 PROVE  /\ d \in DOMAIN databases' /\ databases'[d].schema # "EMPTY"
                        /\ owners'[d] # {} /\ owners'[d] \subseteq accounts'
      BY DEF PublishedIsReady
    <3>1. CASE d = code
      BY <1>1, <1>3, <2>1, <2>6, <3>1
    <3>2. CASE d # code
      BY <1>1, <2>1, <2>2, <2>6, <3>2 DEF DatabaseInv, OwnersKnown, PublishedIsReady
    <3> QED  BY <3>1, <3>2
  <2> QED  BY <2>4, <2>5, <2>7, <2>8 DEF DatabaseInv
<1> QED  BY <1>1, <1>2, <1>6, <1>7 DEF Register

-----------------------------------------------------------------------------
(* migrate-all, the tenant migrations alone, create-owner *)

LEMMA MigrateAllKeeps ==
    ASSUME DatabaseInv, NEW p \in Operators, MigrateAll(p)
    PROVE  DatabaseInv'
<1>1. PICK image \in Releases :
         runner' = [runner EXCEPT ![p] = [Idle EXCEPT !.at = "CONTROL", !.image = image]]
  BY DEF MigrateAll
<1>2. UNCHANGED <<databases, registry, owners, accounts>> /\ advisory = Nobody /\ advisory' = p
  BY DEF MigrateAll, TryLock
<1>3. image \in 0 .. Latest
  BY DatabasesAssumption DEF Releases
<1>4. PICK r \in RunnerRow : r = Idle
  BY IdleRow
<1>5. /\ [r EXCEPT !.at = "CONTROL", !.image = image] \in RunnerRow
      /\ [r EXCEPT !.at = "CONTROL", !.image = image].at = "CONTROL"
      /\ [r EXCEPT !.at = "CONTROL", !.image = image].mine = r.mine
      /\ [r EXCEPT !.at = "CONTROL", !.image = image].list = r.list
      /\ [r EXCEPT !.at = "CONTROL", !.image = image].n = r.n
  BY <1>3, Kinds DEF RunnerRow
<1>6. PICK t \in RunnerRow :
         /\ t = [r EXCEPT !.at = "CONTROL", !.image = image]
         /\ t.at = "CONTROL" /\ t.mine = r.mine /\ t.list = r.list /\ t.n = r.n
  BY <1>5
<1>7. runner' = [runner EXCEPT ![p] = t]
  BY <1>1, <1>4, <1>6
<1>8. (Shape(p, t) /\ Here(p, t))'
  BY <1>2, <1>4, <1>6, IdleRow DEF Shape, Here
<1> QED  BY <1>2, <1>7, <1>8, Launches

LEMMA MigrateControlKeeps ==
    ASSUME DatabaseInv, NEW p \in Operators, MigrateControl(p)
    PROVE  DatabaseInv'
<1>1. UNCHANGED <<databases, registry, owners, accounts>> /\ runner[p].at = "CONTROL" /\ Registered' = Registered
  BY DEF MigrateControl, At, Registered
<1>2. databases' \in [DOMAIN databases' -> DatabaseRow] /\ \A d \in DOMAIN databases : Grown(d)
  BY <1>1, SameDatabases
<1>3. CASE Over(p)
  BY <1>1, <1>2, <1>3, OverProceeds, RegistryStands
<1>4. CASE Goes(p, "LIST") /\ UNCHANGED advisory
  <2>1. (\A d \in Registered : Grown(d)) /\ (runner[p].mine => Grown(runner[p].code))
    BY <1>2, NeededGrow
  <2>2. "LIST" \in Steps /\ ~runner[p].mine /\ runner[p].list = << >>
    BY <1>1, Kinds, RunnerFields DEF Shape
  <2>3. Proceeds(p)
    BY <1>1, <1>4, <2>1, <2>2, GoesProceeds
  <2> QED  BY <1>1, <1>2, <2>3, RegistryStands
<1> QED  BY <1>3, <1>4 DEF MigrateControl

LEMMA MigrateTenantsKeeps ==
    ASSUME DatabaseInv, NEW p \in Operators, MigrateTenants(p)
    PROVE  DatabaseInv'
<1>1. PICK image \in Releases :
         runner' = [runner EXCEPT ![p] = [Idle EXCEPT !.at = "LIST", !.image = image]]
  BY DEF MigrateTenants
<1>2. UNCHANGED <<databases, registry, owners, accounts, advisory>>
  BY DEF MigrateTenants
<1>3. image \in 0 .. Latest
  BY DatabasesAssumption DEF Releases
<1>4. PICK r \in RunnerRow : r = Idle
  BY IdleRow
<1>5. /\ [r EXCEPT !.at = "LIST", !.image = image] \in RunnerRow
      /\ [r EXCEPT !.at = "LIST", !.image = image].at = "LIST"
      /\ [r EXCEPT !.at = "LIST", !.image = image].mine = r.mine
      /\ [r EXCEPT !.at = "LIST", !.image = image].list = r.list
      /\ [r EXCEPT !.at = "LIST", !.image = image].n = r.n
  BY <1>3, Kinds DEF RunnerRow
<1>6. PICK t \in RunnerRow :
         /\ t = [r EXCEPT !.at = "LIST", !.image = image]
         /\ t.at = "LIST" /\ t.mine = r.mine /\ t.list = r.list /\ t.n = r.n
  BY <1>5
<1>7. runner' = [runner EXCEPT ![p] = t]
  BY <1>1, <1>4, <1>6
<1>8. (Shape(p, t) /\ Here(p, t))'
  BY <1>4, <1>6, IdleRow DEF Shape, Here
<1> QED  BY <1>2, <1>7, <1>8, Launches

LEMMA ListTenantsKeeps ==
    ASSUME DatabaseInv, NEW p \in Operators, ListTenants(p)
    PROVE  DatabaseInv'
<1>1. /\ UNCHANGED <<databases, registry, owners, accounts, advisory>> /\ runner[p].at = "LIST"
      /\ Registered' = Registered
      /\ runner' = [runner EXCEPT ![p].at = "INSPECT", ![p].list = registry, ![p].n = 1]
  BY DEF ListTenants, At, Registered
<1>2. PICK r \in RunnerRow : r = runner[p]
  BY RunnerFields
<1>3. registry \in Seq(Codes) /\ registry # << >>
  BY DEF DatabaseInv, DatabasesTyped
<1>4. /\ [r EXCEPT !.at = "INSPECT", !.list = registry, !.n = 1] \in RunnerRow
      /\ [r EXCEPT !.at = "INSPECT", !.list = registry, !.n = 1].at = "INSPECT"
      /\ [r EXCEPT !.at = "INSPECT", !.list = registry, !.n = 1].mine = r.mine
      /\ [r EXCEPT !.at = "INSPECT", !.list = registry, !.n = 1].list = registry
      /\ [r EXCEPT !.at = "INSPECT", !.list = registry, !.n = 1].n = 1
  BY <1>3, Kinds DEF RunnerRow
<1>5. PICK t \in RunnerRow :
         /\ t = [r EXCEPT !.at = "INSPECT", !.list = registry, !.n = 1]
         /\ t.at = "INSPECT" /\ t.mine = r.mine /\ t.list = registry /\ t.n = 1
  BY <1>4
<1>6. runner' = [runner EXCEPT ![p] = t]
  BY <1>1, <1>2, <1>5
<1>7. /\ 1 \in 1 .. Len(registry)
      /\ \A i \in 1 .. Len(registry) : registry[i] \in Registered
  BY <1>3, RegisteredIs
<1>8. ~t.mine
  BY <1>1, <1>2, <1>5, RunnerFields DEF Shape
<1>9. (Shape(p, t) /\ Here(p, t))'
  BY <1>1, <1>3, <1>5, <1>7, <1>8 DEF Shape, Here
<1> QED  BY <1>1, <1>6, <1>9, Launches

LEMMA CreateOwnerKeeps ==
    ASSUME DatabaseInv, CreateOwner
    PROVE  DatabaseInv'
<1>1. PICK code \in Registered, email \in Emails :
         /\ accounts' = accounts \cup {email}
         /\ owners' = [owners EXCEPT ![code] = @ \cup {email}]
  BY DEF CreateOwner
<1>2. UNCHANGED <<databases, registry, advisory, runner>> /\ Registered' = Registered
  BY DEF CreateOwner, Registered
<1>3. /\ DOMAIN owners' = DOMAIN owners /\ owners'[code] = owners[code] \cup {email}
      /\ \A d \in DOMAIN owners \ {code} : owners'[d] = owners[d]
  BY <1>1 DEF DatabaseInv, OwnersKnown
<1>4. DatabasesTyped' /\ OwnersKnown'
  BY <1>2, <1>3 DEF DatabaseInv, DatabasesTyped, OwnersKnown
<1>5. PublishedIsReady'
  BY <1>1, <1>2, <1>3 DEF DatabaseInv, OwnersKnown, PublishedIsReady
<1>6. RunsWell'
  BY <1>2 DEF DatabaseInv, RunsWell, Shape, Here
<1> QED  BY <1>4, <1>5, <1>6 DEF DatabaseInv

-----------------------------------------------------------------------------
(* The theorems *)

LEMMA DatabasesStart ==
    ASSUME DatabasesInit
    PROVE  DatabaseInv
<1>1. PICK old \in Codes, other \in Codes, kind \in {<<"LEGACY", 1>>, <<"LEDGER", 1>>, <<"FOREIGN", 0>>}, email \in Emails :
         /\ \E names \in {{old}, {old, other}} :
               databases = [d \in names |-> IF d = old THEN Database(kind[1], kind[2], Nobody)
                                            ELSE Database("FOREIGN", 0, Nobody)]
         /\ registry = <<old>>
         /\ owners = [d \in {old} |-> {email}]
         /\ accounts = {email}
         /\ runner = [p \in Operators |-> Idle]
  BY DEF DatabasesInit
<1>2. /\ Database(kind[1], kind[2], Nobody) \in DatabaseRow
      /\ Database(kind[1], kind[2], Nobody).schema # "EMPTY"
      /\ Database("FOREIGN", 0, Nobody) \in DatabaseRow
  BY DatabasesAssumption DEF Database, DatabaseRow
<1>3. /\ databases \in [DOMAIN databases -> DatabaseRow]
      /\ old \in DOMAIN databases /\ databases[old].schema # "EMPTY"
  BY <1>1, <1>2
<1>4. registry \in Seq(Codes) /\ registry # << >> /\ IsInjective(registry) /\ Registered = {old}
  <2>1. registry \in Seq(Codes) /\ registry # << >> /\ DOMAIN registry = {1} /\ registry[1] = old
    BY <1>1
  <2> QED  BY <2>1, RegisteredIs DEF IsInjective
<1>5. runner \in [Operators -> RunnerRow] /\ \A p \in Operators : runner[p] = Idle
  BY <1>1, IdleRow
<1>6. RunsWell
  BY <1>5, IdleRow DEF RunsWell, Shape, Here
<1>7. OwnersKnown /\ PublishedIsReady
  BY <1>1, <1>3, <1>4 DEF OwnersKnown, PublishedIsReady
<1> QED  BY <1>3, <1>4, <1>5, <1>6, <1>7 DEF DatabaseInv, DatabasesTyped

LEMMA DatabasesKeep ==
    ASSUME DatabaseInv, [DatabasesNext]_databaseVars
    PROVE  DatabaseInv'
<1>1. CASE Repair
  BY <1>1, RepairKeeps
<1>2. CASE CreateOwner
  BY <1>2, CreateOwnerKeeps
<1>3. ASSUME NEW p \in Operators, Provision(p) \/ CreateDatabase(p) \/ Register(p) \/ Cleanup(p) \/ Drop(p)
      PROVE  DatabaseInv'
  BY <1>3, ProvisionKeeps, CreateDatabaseKeeps, RegisterKeeps, CleanupKeeps, DropKeeps
<1>4. ASSUME NEW p \in Operators, MigrateAll(p) \/ MigrateControl(p) \/ MigrateTenants(p) \/ ListTenants(p)
      PROVE  DatabaseInv'
  BY <1>4, MigrateAllKeeps, MigrateControlKeeps, MigrateTenantsKeeps, ListTenantsKeeps
<1>5. ASSUME NEW p \in Operators, Inspect(p) \/ Baseline(p) \/ Deploy(p) \/ Crash(p)
      PROVE  DatabaseInv'
  BY <1>5, InspectKeeps, BaselineKeeps, DeployKeeps, CrashKeeps
<1>6. CASE UNCHANGED databaseVars
  <2>1. UNCHANGED <<databases, registry, owners, accounts, advisory, runner>> /\ Registered' = Registered
    BY <1>6 DEF databaseVars, Registered
  <2> QED  BY <2>1 DEF DatabaseInv, DatabasesTyped, OwnersKnown, PublishedIsReady, RunsWell, Shape, Here
<1> QED  BY <1>1, <1>2, <1>3, <1>4, <1>5, <1>6 DEF DatabasesNext

\* Whatever operators run at once, fail at or are killed at, a tenant's database
\* is there, and each command knows which database is its own.
THEOREM DatabasesInvariance == DatabasesSpec => []DatabaseInv
<1>1. DatabasesInit => DatabaseInv
  BY DatabasesStart
<1>2. DatabaseInv /\ [DatabasesNext]_databaseVars => DatabaseInv'
  BY DatabasesKeep
<1> QED  BY <1>1, <1>2, PTL DEF DatabasesSpec

LEMMA DatabaseInvImplies ==
    ASSUME DatabaseInv
    PROVE  DatabasesTypeOK /\ PublishedIsReady /\ PassedAreMigrated
<1>1. DatabasesTypeOK
  <2>1. ASSUME NEW p \in Operators
        PROVE  runner[p].at \in Steps /\ (runner[p].at = "CONTROL" => advisory = p)
    BY RunnerFields DEF Here
  <2>2. IsInjective(registry)
    BY DEF DatabaseInv, DatabasesTyped
  <2> QED  BY <2>1, <2>2, DatabaseFields DEF DatabasesTypeOK
<1>2. PassedAreMigrated
  <2> SUFFICES ASSUME NEW p \in Operators, NEW k \in 1 .. runner[p].n - 1
               PROVE  LET d == runner[p].list[k]
                      IN d \in DOMAIN databases /\ databases[d].schema = "LEDGER" /\ databases[d].version >= runner[p].image
    BY DEF PassedAreMigrated
  <2>1. Shape(p, runner[p]) /\ runner[p].n \in Nat
    BY RunnerFields
  <2>2. runner[p].list # << >>
    BY <2>1 DEF Shape
  <2>3. runner[p].n \in 1 .. Len(runner[p].list) /\ Len(runner[p].list) \in Nat
    BY <2>1, <2>2, RunnerFields DEF Shape
  <2>4. k \in 1 .. Len(runner[p].list)
    BY <2>1, <2>3
  <2>5. runner[p].list[k] \in Registered
    BY <2>1, <2>2, <2>4 DEF Shape
  <2> QED  BY <2>1, <2>2, <2>5 DEF Shape, DatabaseInv, PublishedIsReady
<1> QED  BY <1>1, <1>2 DEF DatabaseInv

\* What a command does to a database of no tenant.
LEMMA Untouched ==
    ASSUME DatabaseInv, [DatabasesNext]_databaseVars, NEW d \in DOMAIN databases \ Registered
    PROVE  \/ d \in DOMAIN databases' /\ databases'[d] \in {databases[d], [databases[d] EXCEPT !.broken = FALSE]}
           \/ \E p \in Operators : databases[d].by = p /\ runner[p].code = d /\ runner[p].mine
<1>1. CASE databases' = databases
  BY <1>1
<1>2. CASE \E x \in DOMAIN databases : databases' = [databases EXCEPT ![x].broken = FALSE]
  <2>1. PICK x \in DOMAIN databases : databases' = [databases EXCEPT ![x].broken = FALSE]
    BY <1>2
  <2> QED  BY <2>1
<1>3. ASSUME NEW p \in Operators, runner[p].at \in {"BASELINE", "DEPLOY"},
             \A x \in DOMAIN databases \ {Target(p)} : x \in DOMAIN databases' /\ databases'[x] = databases[x]
      PROVE  \/ d \in DOMAIN databases' /\ databases'[d] = databases[d]
             \/ databases[d].by = p /\ runner[p].code = d /\ runner[p].mine
  BY <1>3, TargetThere
<1>4. CASE \E p \in Operators : Baseline(p) \/ Deploy(p) \/ Crash(p)
  <2>1. PICK p \in Operators : Baseline(p) \/ Deploy(p) \/ Crash(p)
    BY <1>4
  <2>2. \/ databases' = databases
        \/ /\ runner[p].at \in {"BASELINE", "DEPLOY"}
           /\ \A x \in DOMAIN databases \ {Target(p)} : x \in DOMAIN databases' /\ databases'[x] = databases[x]
    <3>1. CASE Baseline(p)
      BY <3>1 DEF Baseline, At
    <3>2. CASE Deploy(p)
      BY <3>2 DEF Deploy, At, Partly
    <3>3. CASE Crash(p)
      BY <3>3 DEF Crash, At, Partly
    <3> QED  BY <2>1, <3>1, <3>2, <3>3
  <2> QED  BY <1>1, <1>3, <2>2
<1>5. CASE \E p \in Operators : CreateDatabase(p)
  <2>1. PICK p \in Operators : CreateDatabase(p)
    BY <1>5
  <2>2. databases' = databases \/ \E row : runner[p].code \notin DOMAIN databases /\ databases' = With(databases, runner[p].code, row)
    BY <2>1 DEF CreateDatabase, MakeDatabase
  <2>3. CASE \E row : runner[p].code \notin DOMAIN databases /\ databases' = With(databases, runner[p].code, row)
    BY <2>3 DEF With
  <2> QED  BY <1>1, <2>2, <2>3
<1>6. CASE \E p \in Operators : Drop(p)
  <2>1. PICK p \in Operators : Drop(p)
    BY <1>6
  <2>2. runner[p].mine /\ databases[runner[p].code].by = p
    BY <2>1, RunnerFields DEF Drop, At, Shape
  <2>3. CASE databases' = [x \in DOMAIN databases \ {runner[p].code} |-> databases[x]]
    BY <2>2, <2>3
  <2> QED  BY <1>1, <2>1, <2>3 DEF Drop
<1>7. CASE \E p \in Operators : \/ Provision(p) \/ Register(p) \/ Cleanup(p) \/ MigrateAll(p) \/ MigrateControl(p)
                                \/ MigrateTenants(p) \/ ListTenants(p) \/ Inspect(p)
  BY <1>1, <1>7 DEF Provision, Register, Cleanup, MigrateAll, MigrateControl, MigrateTenants, ListTenants, Inspect
<1>8. CASE Repair
  BY <1>2, <1>8 DEF Repair
<1>9. CASE CreateOwner \/ UNCHANGED databaseVars
  BY <1>1, <1>9 DEF CreateOwner, databaseVars
<1> QED  BY <1>4, <1>5, <1>6, <1>7, <1>8, <1>9 DEF DatabasesNext

\* A tenant is published with a database that has a schema and with an owner,
\* and its database is never dropped; a run has what it went past at its
\* release; and what no tenant has is touched by its maker alone.
THEOREM DatabasesStaySafe == DatabasesSpec => DatabasesSafe
<1>1. DatabaseInv => DatabasesTypeOK /\ PublishedIsReady /\ PassedAreMigrated
  BY DatabaseInvImplies
<1>2. DatabaseInv /\ [DatabasesNext]_databaseVars =>
         [\A d \in DOMAIN databases \ Registered :
            \/ d \in DOMAIN databases' /\ databases'[d] \in {databases[d], [databases[d] EXCEPT !.broken = FALSE]}
            \/ \E p \in Operators : databases[d].by = p /\ runner[p].code = d /\ runner[p].mine]_databaseVars
  BY Untouched
<1>3. DatabasesSpec => [](DatabasesTypeOK /\ PublishedIsReady /\ PassedAreMigrated)
  BY <1>1, DatabasesInvariance, PTL
<1>4. DatabasesSpec => UnregisteredUntouched
  BY <1>2, DatabasesInvariance, PTL DEF DatabasesSpec, UnregisteredUntouched
<1> QED  BY <1>3, <1>4 DEF DatabasesSafe

-----------------------------------------------------------------------------
(* Imports.  The invariant: a confirmation holds its batch, and once it has  *)
(* locked its classes it is alone with them, so that the seats it counted    *)
(* are still there when it commits.                                          *)

ImportsTyped ==
    /\ batch \in [Batches -> Batch \cup {Missing}]
    /\ record \in [Keys -> Batches \cup {"staff", Missing}]
    /\ usable \in [Referred -> BOOLEAN]
    /\ importer \in [Importers -> Confirmation \cup {Missing}]

RowsMatch ==
    \A b \in Batches : batch[b] # Missing =>
        /\ Len(batch[b].rows) = Len(RowsOf(b))
        /\ batch[b].status = "COMPLETED" => \A i \in DOMAIN batch[b].rows : batch[b].rows[i] = "IMPORTED"

\* The enrollments class c would have if q committed now.
Seated(q, c) == {k \in Keys : ClassOf[k] = c /\ (record[k] # Missing \/ k \in HeldKeys(q))}

Confirms(q, b) ==
    /\ StatusIn(b, {"VALIDATED"})
    /\ importer[q].written <= Len(RowsOf(b))
    /\ ~importer[q].ready => importer[q].written = 0 /\ importer[q].classes = {}
    /\ importer[q].ready => importer[q].classes = ClassesFirst(RowsOf(b))
    /\ \A k \in HeldKeys(q) : record[k] = Missing
    /\ \A c \in LimitedClasses : Cardinality(Seated(q, c)) <= Capacity[c]

ConfirmsAll == \A q \in Importers, b \in Batches : Busy(q) /\ importer[q].batch = b => Confirms(q, b)

ConfirmationsApart ==
    \A p, q \in Importers : p # q /\ Busy(p) /\ Busy(q) =>
        /\ importer[p].batch # importer[q].batch
        /\ HeldKeys(p) \cap HeldKeys(q) = {}
        /\ importer[p].classes \cap importer[q].classes = {}

MadeByCompleted == \A k \in Keys, b \in Batches : record[k] = b => StatusIn(b, {"COMPLETED"})

ImportsInv == ImportsTyped /\ RowsMatch /\ ConfirmsAll /\ ConfirmationsApart /\ MadeByCompleted /\ SeatsKept

-----------------------------------------------------------------------------
(* Rows, keys and classes *)

LEMMA BatchFields ==
    ASSUME ImportsInv, NEW b \in Batches, batch[b] # Missing
    PROVE  /\ batch[b] \in Batch /\ batch[b].file \in Files /\ batch[b].mapping \in Mappings
           /\ batch[b].status \in {"UPLOADED", "VALIDATED", "COMPLETED", "FAILED", "CANCELLED"}
           /\ batch[b].rows \in Seq(RowStatus)
           /\ RowsOf(b) \in Seq(Row) /\ Len(RowsOf(b)) \in Nat /\ DOMAIN RowsOf(b) = 1..Len(RowsOf(b))
           /\ DOMAIN batch[b].rows = DOMAIN RowsOf(b)
           /\ \A i \in DOMAIN RowsOf(b) : RowsOf(b)[i] \in Row /\ RowsOf(b)[i].key \in Keys
<1>1. batch[b] \in Batch
  BY DEF ImportsInv, ImportsTyped
<1>2. /\ batch[b].file \in Files /\ batch[b].mapping \in Mappings
      /\ batch[b].status \in {"UPLOADED", "VALIDATED", "COMPLETED", "FAILED", "CANCELLED"}
      /\ batch[b].rows \in Seq(RowStatus)
  BY <1>1 DEF Batch
<1>3. RowsOf(b) \in Seq(Row)
  BY <1>2, ImportsAssumption DEF RowsOf
<1>4. /\ Len(RowsOf(b)) \in Nat /\ DOMAIN RowsOf(b) = 1..Len(RowsOf(b))
      /\ \A i \in DOMAIN RowsOf(b) : RowsOf(b)[i] \in Row
  BY <1>3
<1>5. DOMAIN batch[b].rows = DOMAIN RowsOf(b)
  BY <1>2, <1>3 DEF ImportsInv, RowsMatch
<1> QED  BY <1>1, <1>2, <1>3, <1>4, <1>5 DEF Row

LEMMA ImporterFields ==
    ASSUME ImportsInv, NEW q \in Importers, Busy(q)
    PROVE  /\ importer[q] \in Confirmation /\ importer[q].batch \in Batches
           /\ importer[q].classes \in SUBSET LimitedClasses
           /\ importer[q].ready \in BOOLEAN /\ importer[q].written \in Nat
           /\ Confirms(q, importer[q].batch) /\ batch[importer[q].batch] # Missing
           /\ batch[importer[q].batch].status = "VALIDATED"
<1>1. importer[q] \in Confirmation
  BY DEF ImportsInv, ImportsTyped, Busy
<1>2. importer[q].batch \in Batches
  BY <1>1 DEF Confirmation
<1>3. Confirms(q, importer[q].batch)
  BY <1>2 DEF ImportsInv, ConfirmsAll
<1> QED  BY <1>1, <1>3 DEF Confirmation, Confirms, StatusIn

\* The keys q has written, by the rows of its batch.
LEMMA KeysHeld ==
    ASSUME ImportsInv, NEW q \in Importers, Busy(q), NEW b \in Batches, b = importer[q].batch
    PROVE  /\ HeldKeys(q) = {RowsOf(b)[i].key : i \in 1..importer[q].written}
           /\ HeldKeys(q) \in SUBSET Keys
           /\ \A i \in 1..importer[q].written : i \in DOMAIN RowsOf(b)
<1>1. HeldKeys(q) = {RowsOf(b)[i].key : i \in 1..importer[q].written}
  BY DEF HeldKeys, WrittenRows
<1>2. \A i \in 1..importer[q].written : i \in DOMAIN RowsOf(b)
  <2>1. importer[q].written <= Len(RowsOf(b)) /\ importer[q].written \in Nat
    BY ImporterFields DEF Confirms
  <2>2. Len(RowsOf(b)) \in Nat /\ DOMAIN RowsOf(b) = 1..Len(RowsOf(b))
    BY BatchFields, ImporterFields
  <2> QED  BY <2>1, <2>2
<1> QED  BY <1>1, <1>2, BatchFields, ImporterFields

\* What is locked before the first row covers the rows written.
LEMMA ClassesHeld ==
    ASSUME ImportsInv, NEW q \in Importers, Busy(q)
    PROVE  /\ HeldClasses(q) = importer[q].classes
           /\ \A k \in HeldKeys(q) : ClassOf[k] # NoClass => ClassOf[k] \in importer[q].classes
<1>1. PICK b \in Batches : b = importer[q].batch
  BY ImporterFields
<1>2. \A i \in 1..importer[q].written : i \in DOMAIN RowsOf(b)
  BY <1>1, KeysHeld
<1>3. CASE importer[q].ready
  <2>1. importer[q].classes = ClassesFirst(RowsOf(b))
    BY <1>1, <1>3, ImporterFields DEF Confirms
  <2>2. WrittenRows(q) \subseteq {RowsOf(b)[i] : i \in DOMAIN RowsOf(b)}
    BY <1>1, <1>2 DEF WrittenRows
  <2>3. ClassesOf(WrittenRows(q)) \subseteq importer[q].classes
    BY <2>1, <2>2 DEF ClassesFirst, ClassesOf
  <2>4. \A k \in HeldKeys(q) : ClassOf[k] # NoClass => ClassOf[k] \in ClassesOf(WrittenRows(q))
    BY DEF HeldKeys, ClassesOf
  <2> QED  BY <2>3, <2>4 DEF HeldClasses
<1>4. CASE ~importer[q].ready
  <2>1. importer[q].written = 0
    BY <1>4, ImporterFields DEF Confirms
  <2>2. WrittenRows(q) = {}
    BY <2>1 DEF WrittenRows
  <2> QED  BY <2>2 DEF HeldClasses, HeldKeys, ClassesOf
<1> QED  BY <1>3, <1>4

LEMMA SetsOfKeys ==
    ASSUME NEW S, S \subseteq Keys
    PROVE  IsFiniteSet(S) /\ Cardinality(S) \in Nat
BY FS_Subset, FS_CardinalityType, ImportsAssumption

LEMMA SmallerSet ==
    ASSUME NEW S, NEW T, T \subseteq Keys, S \subseteq T
    PROVE  Cardinality(S) <= Cardinality(T) /\ Cardinality(S) \in Nat /\ Cardinality(T) \in Nat
<1>1. IsFiniteSet(T) /\ IsFiniteSet(S)
  BY SetsOfKeys
<1> QED  BY <1>1, FS_Subset, FS_CardinalityType

LEMMA ImportsStarts ==
    ASSUME ImportsInit
    PROVE  ImportsInv
<1>1. ImportsTyped
  BY DEF ImportsInit, ImportsTyped
<1>2. \A q \in Importers : ~Busy(q)
  BY DEF ImportsInit, Busy
<1>3. MadeByCompleted
  BY ImportsAssumption DEF ImportsInit, MadeByCompleted
<1>4. SeatsKept
  <2>1. \A c \in LimitedClasses : Seats(c) = Cardinality({})
    <3>1. \A c \in LimitedClasses : {k \in Keys : ClassOf[k] = c /\ record[k] # Missing} = {}
      BY DEF ImportsInit
    <3> QED  BY <3>1 DEF Seats
  <2> QED  BY <2>1, FS_EmptySet, ImportsAssumption DEF SeatsKept
<1>5. RowsMatch
  BY DEF ImportsInit, RowsMatch
<1> QED  BY <1>1, <1>2, <1>3, <1>4, <1>5 DEF ImportsInv, ConfirmsAll, ConfirmationsApart

-----------------------------------------------------------------------------
(* Frames *)

MakesAtOnce ==
    \A b \in Batches :
        {k \in Keys : record'[k] = b /\ record[k] # b} =
            IF StatusIn(b, {"VALIDATED"}) /\ batch'[b].status = "COMPLETED"
            THEN {RowsOf(b)[i].key : i \in DOMAIN RowsOf(b)} ELSE {}

StaysFinal == \A b \in Batches : StatusIn(b, {"COMPLETED", "FAILED", "CANCELLED"}) => batch'[b] = batch[b]

ImportsStep == ImportsInv' /\ MakesAtOnce /\ StaysFinal

\* A confirmation that goes on, its batch as it was.
LEMMA GoesOn ==
    ASSUME ImportsInv, NEW p \in Importers, Busy(p), NEW b \in Batches, b = importer[p].batch,
           importer'[p] = importer[p], batch'[b] = batch[b]
    PROVE  /\ Busy(p)' /\ HeldKeys(p)' = HeldKeys(p) /\ RowsOf(b)' = RowsOf(b)
           /\ UNCHANGED record => Confirms(p, b)'
<1>1. Busy(p)' /\ RowsOf(b)' = RowsOf(b)
  BY DEF Busy, RowsOf
<1>2. HeldKeys(p)' = HeldKeys(p)
  BY <1>1 DEF HeldKeys, WrittenRows, RowsOf
<1>3. ASSUME UNCHANGED record  PROVE Confirms(p, b)'
  <2>1. \A c \in LimitedClasses : Seated(p, c)' = Seated(p, c)
    BY <1>2, <1>3 DEF Seated
  <2>2. Confirms(p, b)
    BY ImporterFields
  <2> QED  BY <1>1, <1>2, <1>3, <2>1, <2>2 DEF Confirms, StatusIn, ClassesFirst
<1> QED  BY <1>1, <1>2, <1>3

\* A batch nobody confirms becomes row.
LEMMA BatchChanged ==
    ASSUME ImportsInv, NEW b \in Batches, NEW row \in Batch, batch' = [batch EXCEPT ![b] = row],
           UNCHANGED <<record, usable, importer>>, BatchFree(b),
           ~StatusIn(b, {"COMPLETED", "FAILED", "CANCELLED"}), row.status # "COMPLETED",
           Len(row.rows) = Len(Staged[row.file][row.mapping])
    PROVE  ImportsStep
<1>1. /\ batch' \in [Batches -> Batch \cup {Missing}] /\ batch'[b] = row /\ row # Missing
      /\ \A x \in Batches \ {b} : batch'[x] = batch[x]
  BY ImportsAssumption DEF ImportsInv, ImportsTyped
<1>2. ImportsTyped'
  BY <1>1 DEF ImportsInv, ImportsTyped
<1>3. RowsMatch'
  BY <1>1 DEF ImportsInv, RowsMatch, RowsOf
<1>4. \A q \in Importers : Busy(q) => importer[q].batch \in Batches \ {b}
  BY ImporterFields DEF BatchFree, Busy
<1>5. \A q \in Importers : (Busy(q)' <=> Busy(q)) /\ importer'[q] = importer[q]
  BY DEF Busy
<1>6. ASSUME NEW q \in Importers, Busy(q)
      PROVE  HeldKeys(q)' = HeldKeys(q) /\ \A x \in Batches : importer'[q].batch = x => Confirms(q, x)'
  <2>1. PICK x \in Batches \ {b} : x = importer[q].batch
    BY <1>4, <1>6
  <2>2. Confirms(q, x)' /\ HeldKeys(q)' = HeldKeys(q)
    BY <1>1, <1>5, <1>6, <2>1, GoesOn
  <2>3. importer'[q].batch = x
    BY <1>5, <2>1
  <2> QED  BY <2>2, <2>3
<1>7. ConfirmationsApart'
  BY <1>5, <1>6 DEF ImportsInv, ConfirmationsApart
<1>8. MadeByCompleted'
  BY <1>1 DEF ImportsInv, MadeByCompleted, StatusIn
<1>9. SeatsKept'
  BY DEF ImportsInv, SeatsKept, Seats
<1>10. MakesAtOnce /\ StaysFinal
  BY <1>1 DEF MakesAtOnce, StaysFinal, StatusIn
<1>11. ConfirmsAll'
  BY <1>5, <1>6 DEF ConfirmsAll
<1> QED  BY <1>2, <1>3, <1>7, <1>8, <1>9, <1>10, <1>11 DEF ImportsStep, ImportsInv

\* One confirmation moves, or ends, and no table changes.
LEMMA ImporterMoves ==
    ASSUME ImportsInv, NEW q \in Importers, NEW work \in Confirmation \cup {Missing}, NEW b \in Batches,
           importer' = [importer EXCEPT ![q] = work], UNCHANGED <<batch, record, usable>>,
           work # Missing => work.batch = b /\ Confirms(q, b)',
           work # Missing => \A p \in Importers \ {q} : Busy(p) =>
                /\ importer[p].batch # b /\ HeldKeys(p) \cap HeldKeys(q)' = {}
                /\ importer[p].classes \cap work.classes = {}
    PROVE  ImportsStep
<1>1. /\ importer' \in [Importers -> Confirmation \cup {Missing}] /\ importer'[q] = work
      /\ \A p \in Importers \ {q} : importer'[p] = importer[p]
  BY DEF ImportsInv, ImportsTyped
<1>2. ImportsTyped'
  BY <1>1 DEF ImportsInv, ImportsTyped
<1>3. RowsMatch' /\ MadeByCompleted' /\ SeatsKept'
  BY DEF ImportsInv, RowsMatch, RowsOf, MadeByCompleted, StatusIn, SeatsKept, Seats
<1>4. ASSUME NEW p \in Importers \ {q}, Busy(p)'
      PROVE  /\ Busy(p) /\ HeldKeys(p)' = HeldKeys(p)
             /\ \A x \in Batches : importer'[p].batch = x => Confirms(p, x)'
  <2>1. Busy(p)
    BY <1>1, <1>4 DEF Busy
  <2>2. PICK x \in Batches : x = importer[p].batch
    BY <2>1, ImporterFields
  <2>3. Confirms(p, x)' /\ HeldKeys(p)' = HeldKeys(p)
    BY <1>1, <2>1, <2>2, GoesOn
  <2>4. importer'[p].batch = x
    BY <1>1, <2>2
  <2> QED  BY <2>1, <2>3, <2>4
<1>5. Busy(q)' => work # Missing
  BY <1>1 DEF Busy
<1>6. Busy(q)' => importer'[q].batch = b /\ Confirms(q, b)'
  BY <1>1, <1>5
<1>7. ConfirmationsApart'
  <2>1. ASSUME NEW p \in Importers \ {q}, Busy(p)', Busy(q)'
        PROVE  /\ importer'[p].batch # importer'[q].batch
               /\ HeldKeys(p)' \cap HeldKeys(q)' = {}
               /\ importer'[p].classes \cap importer'[q].classes = {}
    BY <1>1, <1>4, <1>5, <2>1
  <2>2. ASSUME NEW p \in Importers \ {q}, NEW r \in Importers \ {q}, p # r, Busy(p)', Busy(r)'
        PROVE  /\ importer'[p].batch # importer'[r].batch
               /\ HeldKeys(p)' \cap HeldKeys(r)' = {}
               /\ importer'[p].classes \cap importer'[r].classes = {}
    BY <1>1, <1>4, <2>2 DEF ImportsInv, ConfirmationsApart
  <2> QED  BY <2>1, <2>2 DEF ConfirmationsApart
<1>8. MakesAtOnce /\ StaysFinal
  BY DEF MakesAtOnce, StaysFinal, StatusIn
<1>9. ConfirmsAll'
  BY <1>4, <1>6 DEF ConfirmsAll
<1> QED  BY <1>2, <1>3, <1>7, <1>8, <1>9 DEF ImportsStep, ImportsInv

-----------------------------------------------------------------------------
(* Batches *)

LEMMA UploadKeeps ==
    ASSUME ImportsInv, NEW b \in Batches, NEW f \in Files, NEW m \in Mappings, Upload(b, f, m)
    PROVE  ImportsStep
<1>1. /\ Pending(f, m) \in Seq(RowStatus) /\ Len(Pending(f, m)) = Len(Staged[f][m])
  <2>1. Staged[f][m] \in Seq(Row)
    BY ImportsAssumption
  <2> QED  BY <2>1 DEF Pending, RowStatus
<1>2. PICK row \in Batch : row = [file |-> f, mapping |-> m, status |-> "UPLOADED", rows |-> Pending(f, m)]
  BY <1>1 DEF Batch
<1>3. row.file = f /\ row.mapping = m /\ row.status = "UPLOADED" /\ row.rows = Pending(f, m)
  BY <1>2
<1>4. BatchFree(b)
  BY ImporterFields DEF Upload, BatchFree, Busy
<1>5. batch' = [batch EXCEPT ![b] = row] /\ UNCHANGED <<record, usable, importer>> /\ batch[b] = Missing
  BY <1>2 DEF Upload
<1> QED  BY <1>1, <1>3, <1>4, <1>5, BatchChanged DEF StatusIn

LEMMA UpdateMappingKeeps ==
    ASSUME ImportsInv, NEW b \in Batches, NEW m \in Mappings, UpdateMapping(b, m)
    PROVE  ImportsStep
<1>1. batch[b] # Missing
  BY DEF UpdateMapping, StatusIn
<1>2. PICK f \in Files : f = batch[b].file
  BY <1>1, BatchFields
<1>3. /\ Pending(f, m) \in Seq(RowStatus) /\ Len(Pending(f, m)) = Len(Staged[f][m])
  <2>1. Staged[f][m] \in Seq(Row)
    BY ImportsAssumption
  <2> QED  BY <2>1 DEF Pending, RowStatus
<1>4. PICK row \in Batch : row = [file |-> f, mapping |-> m, status |-> "UPLOADED", rows |-> Pending(f, m)]
  BY <1>3 DEF Batch
<1>5. row.file = f /\ row.mapping = m /\ row.status = "UPLOADED" /\ row.rows = Pending(f, m)
  BY <1>4
<1>6. batch' = [batch EXCEPT ![b] = row] /\ UNCHANGED <<record, usable, importer>> /\ BatchFree(b)
  BY <1>2, <1>4 DEF UpdateMapping, ImportsInv, ImportsTyped
<1>7. ~StatusIn(b, {"COMPLETED", "FAILED", "CANCELLED"})
  BY DEF UpdateMapping, StatusIn
<1> QED  BY <1>3, <1>5, <1>6, <1>7, BatchChanged

LEMMA JudgedTyped ==
    ASSUME NEW rows \in Seq(Row)
    PROVE  Judged(rows) \in Seq(RowStatus) /\ Len(Judged(rows)) = Len(rows)
BY DEF Judged, RowStatus

\* A batch nobody confirms gets a status and row statuses.
LEMMA StatusChanged ==
    ASSUME ImportsInv, NEW b \in Batches, StatusIn(b, {"UPLOADED", "VALIDATED"}), BatchFree(b),
           NEW status \in {"VALIDATED", "FAILED", "CANCELLED"},
           NEW statuses \in Seq(RowStatus), Len(statuses) = Len(RowsOf(b)),
           batch' = [batch EXCEPT ![b].status = status, ![b].rows = statuses],
           UNCHANGED <<record, usable, importer>>
    PROVE  ImportsStep
<1>1. batch[b] # Missing /\ ~StatusIn(b, {"COMPLETED", "FAILED", "CANCELLED"})
  BY DEF StatusIn
<1>2. PICK old \in Batch : old = batch[b]
  BY <1>1, BatchFields
<1>3. PICK row \in Batch : row = [old EXCEPT !.status = status, !.rows = statuses]
  BY DEF Batch
<1>4. row.file = old.file /\ row.mapping = old.mapping /\ row.status = status /\ row.rows = statuses
  BY <1>3 DEF Batch
<1>5. batch' = [batch EXCEPT ![b] = row]
  BY <1>2, <1>3 DEF ImportsInv, ImportsTyped
<1>6. Len(row.rows) = Len(Staged[row.file][row.mapping])
  BY <1>2, <1>4 DEF RowsOf
<1> QED  BY <1>1, <1>4, <1>5, <1>6, BatchChanged

LEMMA ValidateKeeps ==
    ASSUME ImportsInv, NEW b \in Batches, Validate(b)
    PROVE  ImportsStep
<1>1. batch[b] # Missing
  BY DEF Validate, StatusIn
<1>2. Judged(RowsOf(b)) \in Seq(RowStatus) /\ Len(Judged(RowsOf(b))) = Len(RowsOf(b))
  BY <1>1, BatchFields, JudgedTyped
<1> QED  BY <1>2, StatusChanged DEF Validate

LEMMA CancelKeeps ==
    ASSUME ImportsInv, NEW b \in Batches, Cancel(b)
    PROVE  ImportsStep
<1>1. batch[b] # Missing
  BY DEF Cancel, StatusIn
<1>2. PICK old \in Batch : old = batch[b] /\ old.rows \in Seq(RowStatus) /\ Len(old.rows) = Len(RowsOf(b))
  BY <1>1, BatchFields DEF ImportsInv, RowsMatch
<1>3. [old EXCEPT !.status = "CANCELLED"] = [old EXCEPT !.status = "CANCELLED", !.rows = old.rows]
  BY DEF Batch
<1>4. batch' = [batch EXCEPT ![b].status = "CANCELLED", ![b].rows = old.rows]
  BY <1>2, <1>3 DEF Cancel, ImportsInv, ImportsTyped
<1> QED  BY <1>2, <1>4, StatusChanged DEF Cancel

LEMMA RefuseConfirmKeeps ==
    ASSUME ImportsInv, NEW b \in Batches, RefuseConfirm(b)
    PROVE  ImportsStep
<1>1. batch[b] # Missing /\ StatusIn(b, {"UPLOADED", "VALIDATED"})
  BY DEF RefuseConfirm, Confirmable, StatusIn
<1>2. PICK old \in Batch : old = batch[b] /\ old.rows \in Seq(RowStatus) /\ Len(old.rows) = Len(RowsOf(b))
  BY <1>1, BatchFields DEF ImportsInv, RowsMatch
<1>3. PICK i \in DOMAIN RowsOf(b) : FailBatch(b, i)
  BY DEF RefuseConfirm
<1>4. [old.rows EXCEPT ![i] = "FAILED"] \in Seq(RowStatus) /\ Len([old.rows EXCEPT ![i] = "FAILED"]) = Len(old.rows)
  BY <1>2 DEF RowStatus
<1>5. PICK statuses \in Seq(RowStatus) : statuses = [old.rows EXCEPT ![i] = "FAILED"] /\ Len(statuses) = Len(RowsOf(b))
  BY <1>2, <1>4
<1>6. [old EXCEPT !.status = "FAILED", !.rows[i] = "FAILED"] = [old EXCEPT !.status = "FAILED", !.rows = statuses]
  BY <1>5 DEF Batch
<1>7. batch' = [batch EXCEPT ![b].status = "FAILED", ![b].rows = statuses]
  BY <1>2, <1>3, <1>6 DEF FailBatch, ImportsInv, ImportsTyped
<1> QED  BY <1>1, <1>5, <1>7, StatusChanged DEF RefuseConfirm

-----------------------------------------------------------------------------
(* Confirmations *)

LEMMA BeginConfirmKeeps ==
    ASSUME ImportsInv, NEW q \in Importers, NEW b \in Batches, BeginConfirm(q, b)
    PROVE  ImportsStep
<1>1. PICK work \in Confirmation : work = [batch |-> b, classes |-> {}, ready |-> FALSE, written |-> 0]
  BY DEF Confirmation
<1>2. work.batch = b /\ work.classes = {} /\ work.ready = FALSE /\ work.written = 0
  BY <1>1
<1>3. /\ importer' = [importer EXCEPT ![q] = work] /\ UNCHANGED <<batch, record, usable>>
      /\ BatchFree(b) /\ StatusIn(b, {"VALIDATED"})
  BY <1>1 DEF BeginConfirm, Confirmable
<1>4. importer'[q] = work /\ work # Missing
  BY <1>3, ImportsAssumption DEF ImportsInv, ImportsTyped
<1>5. HeldKeys(q)' = {}
  BY <1>2, <1>4 DEF HeldKeys, WrittenRows
<1>6. Confirms(q, b)'
  <2>1. \A c \in LimitedClasses : Cardinality(Seated(q, c)') <= Capacity[c]
    <3>1. \A c \in LimitedClasses : Seated(q, c)' = {k \in Keys : ClassOf[k] = c /\ record[k] # Missing}
      BY <1>3, <1>5 DEF Seated
    <3> QED  BY <3>1 DEF ImportsInv, SeatsKept, Seats
  <2>2. 0 <= Len(RowsOf(b))
    BY <1>3, BatchFields DEF StatusIn
  <2> QED  BY <1>2, <1>3, <1>4, <1>5, <2>1, <2>2 DEF Confirms, StatusIn, RowsOf
<1>7. \A p \in Importers \ {q} : Busy(p) =>
          /\ importer[p].batch # b /\ HeldKeys(p) \cap HeldKeys(q)' = {}
          /\ importer[p].classes \cap work.classes = {}
  BY <1>2, <1>3, <1>5 DEF BatchFree, Busy
<1> QED  BY <1>2, <1>3, <1>6, <1>7, ImporterMoves

LEMMA LockClassesKeeps ==
    ASSUME ImportsInv, NEW q \in Importers, LockClasses(q)
    PROVE  ImportsStep
<1>1. Busy(q) /\ ~importer[q].ready /\ UNCHANGED <<batch, record, usable>>
  BY DEF LockClasses
<1>2. PICK b \in Batches : b = importer[q].batch
  BY <1>1, ImporterFields
<1>3. PICK wanted \in SUBSET LimitedClasses : wanted = ClassesFirst(RowsOf(b))
  <2>1. \A i \in DOMAIN RowsOf(b) : RowsOf(b)[i].key \in Keys
    BY <1>1, <1>2, BatchFields, ImporterFields
  <2>2. ClassesFirst(RowsOf(b)) \subseteq LimitedClasses
    BY <2>1, ImportsAssumption DEF ClassesFirst, ClassesOf
  <2> QED  BY <2>2
<1>4. PICK old \in Confirmation : old = importer[q]
  BY <1>1, ImporterFields
<1>5. PICK work \in Confirmation : work = [old EXCEPT !.ready = TRUE, !.classes = wanted]
  BY DEF Confirmation
<1>6. work.ready = TRUE /\ work.classes = wanted /\ work.batch = b /\ work.written = 0
  BY <1>1, <1>2, <1>4, <1>5, ImporterFields DEF Confirmation, Confirms
<1>7. importer' = [importer EXCEPT ![q] = work]
  BY <1>2, <1>3, <1>4, <1>5 DEF LockClasses, ImportsInv, ImportsTyped
<1>8. importer'[q] = work /\ work # Missing
  BY <1>7, ImportsAssumption DEF ImportsInv, ImportsTyped
<1>9. HeldKeys(q)' = {}
  BY <1>6, <1>8 DEF HeldKeys, WrittenRows
<1>10. Confirms(q, b)'
  <2>1. \A c \in LimitedClasses : Cardinality(Seated(q, c)') <= Capacity[c]
    <3>1. \A c \in LimitedClasses : Seated(q, c)' = {k \in Keys : ClassOf[k] = c /\ record[k] # Missing}
      BY <1>1, <1>9 DEF Seated
    <3> QED  BY <3>1 DEF ImportsInv, SeatsKept, Seats
  <2>2. 0 <= Len(RowsOf(b)) /\ StatusIn(b, {"VALIDATED"})
    BY <1>1, <1>2, BatchFields, ImporterFields DEF Confirms
  <2> QED  BY <1>1, <1>3, <1>6, <1>8, <1>9, <2>1, <2>2 DEF Confirms, StatusIn, RowsOf
<1>11. \A p \in Importers \ {q} : Busy(p) =>
          /\ importer[p].batch # b /\ HeldKeys(p) \cap HeldKeys(q)' = {}
          /\ importer[p].classes \cap work.classes = {}
  <2>1. wanted \cap UNION {HeldClasses(p) : p \in Importers \ {q}} = {}
    BY <1>2, <1>3 DEF LockClasses, ElseHeld
  <2>2. \A p \in Importers \ {q} : Busy(p) => importer[p].classes = HeldClasses(p)
    BY ClassesHeld
  <2> QED  BY <1>1, <1>2, <1>6, <1>9, <2>1, <2>2 DEF ImportsInv, ConfirmationsApart
<1> QED  BY <1>1, <1>6, <1>7, <1>10, <1>11, ImporterMoves

\* The row a confirmation comes to.
LEMMA NextRowFields ==
    ASSUME ImportsInv, NEW q \in Importers, Writing(q), NEW b \in Batches, b = importer[q].batch
    PROVE  /\ NextRow(q) = RowsOf(b)[importer[q].written + 1]
           /\ importer[q].written + 1 \in DOMAIN RowsOf(b)
           /\ NextRow(q).key \in Keys
           /\ ClassOf[NextRow(q).key] # NoClass =>
                 ClassOf[NextRow(q).key] \in LimitedClasses /\ ClassOf[NextRow(q).key] \in importer[q].classes
<1>1. /\ Busy(q) /\ importer[q].ready /\ importer[q].written < Len(RowsOf(b)) /\ importer[q].written \in Nat
      /\ importer[q].classes = ClassesFirst(RowsOf(b)) /\ batch[b] # Missing
  BY ImporterFields DEF Writing, Confirms
<1>2. importer[q].written + 1 \in DOMAIN RowsOf(b)
  BY <1>1, BatchFields
<1>3. NextRow(q) = RowsOf(b)[importer[q].written + 1]
  BY DEF NextRow
<1>4. NextRow(q).key \in Keys
  BY <1>1, <1>2, <1>3, BatchFields
<1> QED  BY <1>1, <1>2, <1>3, <1>4, ImportsAssumption DEF ClassesFirst, ClassesOf

LEMMA WriteRowKeeps ==
    ASSUME ImportsInv, NEW q \in Importers, WriteRow(q)
    PROVE  ImportsStep
<1>1. Writing(q) /\ Busy(q) /\ UNCHANGED <<batch, record, usable>> /\ Writable(q)
  BY DEF WriteRow, Writing
<1>2. PICK b \in Batches : b = importer[q].batch
  BY <1>1, ImporterFields
<1>3. PICK key \in Keys : key = NextRow(q).key
  BY <1>1, <1>2, NextRowFields
<1>4. PICK old \in Confirmation : old = importer[q]
  BY <1>1, ImporterFields
<1>5. PICK work \in Confirmation : work = [old EXCEPT !.written = old.written + 1]
  <2>1. old.written + 1 \in Nat
    BY DEF Confirmation
  <2> QED  BY <2>1 DEF Confirmation
<1>6. work.ready = old.ready /\ work.classes = old.classes /\ work.batch = b /\ work.written = old.written + 1
      /\ old.written \in Nat
  BY <1>2, <1>4, <1>5 DEF Confirmation
<1>7. importer' = [importer EXCEPT ![q] = work]
  BY <1>4, <1>5 DEF WriteRow, ImportsInv, ImportsTyped
<1>8. importer'[q] = work /\ work # Missing
  BY <1>7, ImportsAssumption DEF ImportsInv, ImportsTyped
<1>9. HeldKeys(q)' = HeldKeys(q) \cup {key}
  <2>1. HeldKeys(q)' = {RowsOf(b)[i].key : i \in 1..work.written}
    BY <1>1, <1>6, <1>8 DEF HeldKeys, WrittenRows, Busy, RowsOf
  <2>2. HeldKeys(q) = {RowsOf(b)[i].key : i \in 1..old.written}
    BY <1>1, <1>2, <1>4, KeysHeld
  <2>3. key = RowsOf(b)[old.written + 1].key
    BY <1>1, <1>2, <1>3, <1>4, NextRowFields
  <2>4. 1..work.written = 1..old.written \cup {old.written + 1}
    BY <1>6
  <2> QED  BY <2>1, <2>2, <2>3, <2>4
<1>10. record[key] = Missing /\ ~Full(q)
  BY <1>1, <1>3 DEF Writable
<1>11. ASSUME NEW c \in LimitedClasses  PROVE Cardinality(Seated(q, c)') <= Capacity[c]
  <2>1. CASE ClassOf[key] # c
    <3>1. Seated(q, c)' = Seated(q, c)
      BY <1>1, <1>9, <2>1 DEF Seated
    <3> QED  BY <1>1, <1>2, <3>1, ImporterFields DEF Confirms
  <2>2. CASE ClassOf[key] = c
    <3> DEFINE A == {k \in Keys : ClassOf[k] = c /\ record[k] # Missing}
               B == {k \in HeldKeys(q) : ClassOf[k] = c}
    <3>1. Cardinality(A) + Cardinality(B) < Capacity[c]
      <4>1. c # NoClass
        BY ImportsAssumption
      <4>2. /\ ~(Seats(c) + Cardinality(B) >= Capacity[c])
        BY <1>3, <1>10, <2>2, <4>1 DEF Full
      <4>3. Seats(c) = Cardinality(A)
        BY DEF Seats
      <4>4. Cardinality(A) \in Nat /\ Cardinality(B) \in Nat /\ Capacity[c] \in Nat
        BY <1>1, <1>2, KeysHeld, SetsOfKeys, ImportsAssumption
      <4> QED  BY <4>2, <4>3, <4>4
    <3>2. Seated(q, c)' = (A \cup B) \cup {key}
      <4>1. HeldKeys(q) \subseteq Keys
        BY <1>1, <1>2, KeysHeld
      <4> QED  BY <1>1, <1>9, <2>2, <4>1 DEF Seated
    <3>3. A \subseteq Keys /\ B \subseteq Keys
      BY <1>1, <1>2, KeysHeld
    <3> HIDE DEF A, B
    <3>4. IsFiniteSet(A) /\ IsFiniteSet(B) /\ IsFiniteSet(A \cap B)
          /\ Cardinality(A) \in Nat /\ Cardinality(B) \in Nat /\ Cardinality(A \cap B) \in Nat
      BY <3>3, SetsOfKeys
    <3>5. IsFiniteSet(A \cup B) /\ Cardinality(A \cup B) = Cardinality(A) + Cardinality(B) - Cardinality(A \cap B)
      BY <3>4, FS_Union
    <3>6. Cardinality((A \cup B) \cup {key}) = IF key \in A \cup B THEN Cardinality(A \cup B) ELSE Cardinality(A \cup B) + 1
      BY <3>5, FS_AddElement
    <3>7. Capacity[c] \in Nat
      BY ImportsAssumption
    <3> QED  BY <3>1, <3>2, <3>4, <3>5, <3>6, <3>7
  <2> QED  BY <2>1, <2>2
<1>12. Confirms(q, b)'
  <2>1. Confirms(q, b) /\ old.written < Len(RowsOf(b)) /\ old.ready
    BY <1>1, <1>2, <1>4, ImporterFields DEF Writing
  <2>2. work.written <= Len(RowsOf(b))
    BY <1>1, <1>2, <1>6, <2>1, BatchFields, ImporterFields
  <2>3. \A k \in HeldKeys(q)' : record'[k] = Missing
    BY <1>1, <1>9, <1>10, <2>1 DEF Confirms
  <2>4. work.ready /\ work.classes = ClassesFirst(RowsOf(b))
    BY <1>4, <1>6, <2>1 DEF Confirms
  <2>5. RowsOf(b)' = RowsOf(b) /\ StatusIn(b, {"VALIDATED"})' /\ ClassesFirst(RowsOf(b))' = ClassesFirst(RowsOf(b))
    BY <1>1, <2>1 DEF RowsOf, StatusIn, Confirms, ClassesFirst
  <2> QED  BY <1>8, <1>11, <2>2, <2>3, <2>4, <2>5 DEF Confirms
<1>13. \A p \in Importers \ {q} : Busy(p) =>
          /\ importer[p].batch # b /\ HeldKeys(p) \cap HeldKeys(q)' = {}
          /\ importer[p].classes \cap work.classes = {}
  <2>1. \A p \in Importers \ {q} : key \notin HeldKeys(p)
    BY <1>1, <1>3 DEF WriteRow, WaitsFor
  <2> QED  BY <1>1, <1>2, <1>4, <1>6, <1>9, <2>1 DEF ImportsInv, ConfirmationsApart
<1> QED  BY <1>1, <1>6, <1>7, <1>12, <1>13, ImporterMoves

LEMMA LoseConfirmKeeps ==
    ASSUME ImportsInv, NEW q \in Importers, LoseConfirm(q)
    PROVE  ImportsStep
<1>1. PICK b \in Batches : b = importer[q].batch
  BY ImporterFields DEF LoseConfirm
<1> QED  BY <1>1, ImporterMoves DEF LoseConfirm

BecomesRow(b, row) == batch' = [batch EXCEPT ![b] = row]
Ends(q) == importer' = [importer EXCEPT ![q] = Missing]
Suits(row, old) ==
    /\ row.file = old.file /\ row.mapping = old.mapping /\ Len(row.rows) = Len(old.rows)
    /\ row.status = "COMPLETED" => \A i \in DOMAIN row.rows : row.rows[i] = "IMPORTED"

\* q is done with b, which gets a last status; the others go on.
LEMMA OthersGoOn ==
    ASSUME ImportsInv, NEW q \in Importers, Busy(q), NEW b \in Batches, b = importer[q].batch,
           NEW row \in Batch, BecomesRow(b, row), Ends(q), Suits(row, batch[b]),
           UNCHANGED usable, record' \in [Keys -> Batches \cup {"staff", Missing}]
    PROVE  /\ batch'[b] = row /\ \A x \in Batches \ {b} : batch'[x] = batch[x]
           /\ ImportsTyped' /\ RowsMatch' /\ ConfirmationsApart' /\ ~Busy(q)'
           /\ \A p \in Importers : Busy(p)' =>
                 /\ p # q /\ Busy(p) /\ importer'[p] = importer[p] /\ importer[p].batch \in Batches \ {b}
                 /\ HeldKeys(p)' = HeldKeys(p)
<1>1. /\ batch' \in [Batches -> Batch \cup {Missing}] /\ batch'[b] = row /\ row # Missing
      /\ \A x \in Batches \ {b} : batch'[x] = batch[x]
  BY ImportsAssumption DEF ImportsInv, ImportsTyped, BecomesRow
<1>2. /\ importer' \in [Importers -> Confirmation \cup {Missing}] /\ importer'[q] = Missing
      /\ \A p \in Importers \ {q} : importer'[p] = importer[p]
  BY DEF ImportsInv, ImportsTyped, Ends
<1>3. ASSUME NEW p \in Importers, Busy(p)'
      PROVE  /\ p # q /\ Busy(p) /\ importer'[p] = importer[p] /\ importer[p].batch \in Batches \ {b}
             /\ HeldKeys(p)' = HeldKeys(p)
  <2>1. p # q /\ Busy(p) /\ importer'[p] = importer[p]
    BY <1>2, <1>3 DEF Busy
  <2>2. PICK x \in Batches \ {b} : x = importer[p].batch
    BY <2>1, ImporterFields DEF ImportsInv, ConfirmationsApart
  <2>3. HeldKeys(p)' = HeldKeys(p)
    BY <1>1, <2>1, <2>2, GoesOn
  <2> QED  BY <2>1, <2>2, <2>3
<1>4. RowsMatch'
  <2>1. Len(row.rows) = Len(RowsOf(b))
    BY ImporterFields DEF ImportsInv, RowsMatch, Suits
  <2> QED  BY <1>1, <2>1 DEF ImportsInv, RowsMatch, RowsOf, Suits
<1>5. ConfirmationsApart'
  BY <1>3 DEF ImportsInv, ConfirmationsApart
<1>6. ~Busy(q)'
  BY <1>2 DEF Busy
<1> QED  BY <1>1, <1>2, <1>3, <1>4, <1>5, <1>6 DEF ImportsTyped, ImportsInv

LEMMA WriteFailsKeeps ==
    ASSUME ImportsInv, NEW q \in Importers, WriteFails(q)
    PROVE  ImportsStep
<1>1. /\ Writing(q) /\ Busy(q) /\ UNCHANGED <<record, usable>> /\ importer' = [importer EXCEPT ![q] = Missing]
      /\ FailBatch(importer[q].batch, importer[q].written + 1)
  BY DEF WriteFails, Writing, DropsWritten
<1>2. PICK b \in Batches : b = importer[q].batch
  BY <1>1, ImporterFields
<1>3. PICK old \in Batch : old = batch[b] /\ old.rows \in Seq(RowStatus) /\ Len(old.rows) = Len(RowsOf(b))
                           /\ old.status = "VALIDATED"
  BY <1>1, <1>2, BatchFields, ImporterFields DEF ImportsInv, RowsMatch
<1>4. PICK i \in DOMAIN old.rows : i = importer[q].written + 1
  BY <1>1, <1>2, <1>3, NextRowFields, BatchFields, ImporterFields
<1>5. [old.rows EXCEPT ![i] = "FAILED"] \in Seq(RowStatus) /\ Len([old.rows EXCEPT ![i] = "FAILED"]) = Len(old.rows)
  BY <1>3 DEF RowStatus
<1>6. PICK statuses \in Seq(RowStatus) : statuses = [old.rows EXCEPT ![i] = "FAILED"] /\ Len(statuses) = Len(old.rows)
  BY <1>5
<1>7. PICK row \in Batch : row = [old EXCEPT !.status = "FAILED", !.rows = statuses]
  BY DEF Batch
<1>8. row.file = old.file /\ row.mapping = old.mapping /\ row.status = "FAILED" /\ row.rows = statuses
  BY <1>7 DEF Batch
<1>9. [old EXCEPT !.status = "FAILED", !.rows[i] = "FAILED"] = row
  BY <1>6, <1>7 DEF Batch
<1>10. batch' = [batch EXCEPT ![b] = row]
  BY <1>1, <1>2, <1>3, <1>4, <1>9 DEF FailBatch, ImportsInv, ImportsTyped
<1>11. record' \in [Keys -> Batches \cup {"staff", Missing}]
  BY <1>1 DEF ImportsInv, ImportsTyped
<1>12. /\ batch'[b] = row /\ \A x \in Batches \ {b} : batch'[x] = batch[x]
       /\ ImportsTyped' /\ RowsMatch' /\ ConfirmationsApart' /\ ~Busy(q)'
       /\ \A p \in Importers : Busy(p)' =>
             /\ p # q /\ Busy(p) /\ importer'[p] = importer[p] /\ importer[p].batch \in Batches \ {b}
             /\ HeldKeys(p)' = HeldKeys(p)
  <2>1. row.file = batch[b].file /\ row.mapping = batch[b].mapping
    BY <1>3, <1>8
  <2>2. Len(row.rows) = Len(batch[b].rows)
    BY <1>3, <1>6, <1>8
  <2>3. Suits(row, batch[b])
    BY <1>8, <2>1, <2>2 DEF Suits
  <2>4. UNCHANGED usable /\ Ends(q) /\ Busy(q) /\ BecomesRow(b, row)
    BY <1>1, <1>10 DEF Ends, BecomesRow
  <2> QED  BY <1>2, <1>11, <2>3, <2>4, OthersGoOn
<1>13. ConfirmsAll'
  <2>1. ASSUME NEW p \in Importers, NEW x \in Batches, Busy(p)', importer'[p].batch = x
        PROVE  Confirms(p, x)'
    BY <1>1, <1>12, <2>1, GoesOn
  <2> QED  BY <2>1 DEF ConfirmsAll
<1>14. MadeByCompleted' /\ SeatsKept'
  BY <1>1, <1>3, <1>12 DEF ImportsInv, MadeByCompleted, StatusIn, SeatsKept, Seats
<1>15. MakesAtOnce /\ StaysFinal
  BY <1>1, <1>3, <1>8, <1>12 DEF MakesAtOnce, StaysFinal, StatusIn
<1> QED  BY <1>12, <1>13, <1>14, <1>15 DEF ImportsStep, ImportsInv

LEMMA CompleteImportKeeps ==
    ASSUME ImportsInv, NEW q \in Importers, CompleteImport(q)
    PROVE  ImportsStep
<1>1. /\ Busy(q) /\ importer[q].ready /\ UNCHANGED usable /\ importer' = [importer EXCEPT ![q] = Missing]
  BY DEF CompleteImport
<1>2. PICK b \in Batches : b = importer[q].batch
  BY <1>1, ImporterFields
<1>3. PICK old \in Batch : old = batch[b] /\ old.rows \in Seq(RowStatus) /\ Len(old.rows) = Len(RowsOf(b))
                           /\ old.status = "VALIDATED" /\ batch[b] # Missing
  BY <1>1, <1>2, BatchFields, ImporterFields DEF ImportsInv, RowsMatch
<1>4. [i \in DOMAIN old.rows |-> "IMPORTED"] \in Seq(RowStatus)
      /\ Len([i \in DOMAIN old.rows |-> "IMPORTED"]) = Len(old.rows)
  BY <1>3 DEF RowStatus
<1>5. PICK statuses \in Seq(RowStatus) :
          /\ statuses = [i \in DOMAIN old.rows |-> "IMPORTED"] /\ Len(statuses) = Len(old.rows)
          /\ \A i \in DOMAIN statuses : statuses[i] = "IMPORTED"
  BY <1>4
<1>6. PICK row \in Batch : row = [old EXCEPT !.status = "COMPLETED", !.rows = statuses]
  BY DEF Batch
<1>7. row.file = old.file /\ row.mapping = old.mapping /\ row.status = "COMPLETED" /\ row.rows = statuses
  BY <1>6 DEF Batch
<1>8. [old EXCEPT !.status = "COMPLETED", !.rows = [i \in DOMAIN old.rows |-> "IMPORTED"]] = row
  BY <1>5, <1>6
<1>9. batch' = [batch EXCEPT ![b] = row]
  BY <1>2, <1>3, <1>8 DEF CompleteImport, ImportsInv, ImportsTyped
<1> DEFINE H == HeldKeys(q)
<1>10. H = {RowsOf(b)[i].key : i \in DOMAIN RowsOf(b)} /\ H \in SUBSET Keys
  <2>1. DOMAIN RowsOf(b) = 1..importer[q].written
    BY <1>2, <1>3, BatchFields DEF CompleteImport
  <2> QED  BY <1>1, <1>2, <2>1, KeysHeld
<1>11. /\ record' \in [Keys -> Batches \cup {"staff", Missing}]
       /\ \A k \in H : record'[k] = b /\ record[k] = Missing
       /\ \A k \in Keys \ H : record'[k] = record[k]
  <2>1. \A k \in H : record[k] = Missing
    BY <1>1, ImporterFields DEF Confirms
  <2>2. record' = [k \in Keys |-> IF k \in H THEN b ELSE record[k]]
    BY <1>2 DEF CompleteImport
  <2> QED  BY <1>10, <2>1, <2>2 DEF ImportsInv, ImportsTyped
<1> HIDE DEF H
<1>12. /\ batch'[b] = row /\ \A x \in Batches \ {b} : batch'[x] = batch[x]
       /\ ImportsTyped' /\ RowsMatch' /\ ConfirmationsApart' /\ ~Busy(q)'
       /\ \A p \in Importers : Busy(p)' =>
             /\ p # q /\ Busy(p) /\ importer'[p] = importer[p] /\ importer[p].batch \in Batches \ {b}
             /\ HeldKeys(p)' = HeldKeys(p)
  <2>1. row.file = batch[b].file /\ row.mapping = batch[b].mapping
    BY <1>3, <1>7
  <2>2. Len(row.rows) = Len(batch[b].rows)
    BY <1>3, <1>5, <1>7
  <2>3. Suits(row, batch[b])
    BY <1>5, <1>7, <2>1, <2>2 DEF Suits
  <2>4. UNCHANGED usable /\ Ends(q) /\ Busy(q) /\ BecomesRow(b, row)
        /\ record' \in [Keys -> Batches \cup {"staff", Missing}]
    BY <1>1, <1>9, <1>11 DEF Ends, BecomesRow
  <2> QED  BY <1>2, <2>3, <2>4, OthersGoOn
<1>13. \A c \in LimitedClasses : Cardinality(Seated(q, c)) <= Capacity[c]
  BY <1>1, ImporterFields DEF Confirms
<1>14. \A k \in H : ClassOf[k] # NoClass => ClassOf[k] \in importer[q].classes
  BY <1>1, ClassesHeld DEF H
<1>15. SeatsKept'
  <2>1. \A c \in LimitedClasses : {k \in Keys : ClassOf[k] = c /\ record'[k] # Missing} = Seated(q, c)
    BY <1>10, <1>11, ImportsAssumption DEF Seated, H
  <2> QED  BY <1>13, <2>1 DEF SeatsKept, Seats
<1>16. ConfirmsAll'
  <2>1. SUFFICES ASSUME NEW p \in Importers, NEW x \in Batches, Busy(p)', importer'[p].batch = x
                 PROVE  Confirms(p, x)'
    BY DEF ConfirmsAll
  <2>2. /\ p # q /\ Busy(p) /\ importer'[p] = importer[p] /\ importer[p].batch = x /\ x # b
        /\ batch'[x] = batch[x] /\ HeldKeys(p)' = HeldKeys(p) /\ RowsOf(x)' = RowsOf(x)
    BY <1>12, <2>1, GoesOn
  <2>3. Confirms(p, x)
    BY <2>2, ImporterFields
  <2>4. H \cap HeldKeys(p) = {} /\ importer[p].classes \cap importer[q].classes = {}
    BY <1>1, <2>2 DEF ImportsInv, ConfirmationsApart, H
  <2>5. HeldKeys(p) \subseteq Keys
    BY <2>2, KeysHeld
  <2>6. \A k \in HeldKeys(p)' : record'[k] = Missing
    BY <1>11, <2>2, <2>3, <2>4, <2>5 DEF Confirms
  <2>7. ASSUME NEW c \in LimitedClasses  PROVE Cardinality(Seated(p, c)') <= Capacity[c]
    <3>1. CASE \E k \in H : ClassOf[k] = c
      <4>1. c # NoClass
        BY ImportsAssumption
      <4>2. c \in importer[q].classes
        BY <1>14, <3>1, <4>1
      <4>3. \A k \in HeldKeys(p) : ClassOf[k] # c
        BY <2>2, <2>4, <4>1, <4>2, ClassesHeld
      <4>4. Seated(p, c)' = Seated(q, c)
        BY <1>10, <1>11, <2>2, <4>3, ImportsAssumption DEF Seated, H
      <4> QED  BY <1>13, <4>4
    <3>2. CASE \A k \in H : ClassOf[k] # c
      <4>1. Seated(p, c)' = Seated(p, c)
        BY <1>11, <2>2, <3>2 DEF Seated
      <4> QED  BY <2>3, <4>1 DEF Confirms
    <3> QED  BY <3>1, <3>2
  <2> QED  BY <2>2, <2>3, <2>6, <2>7 DEF Confirms, StatusIn, ClassesFirst
<1>17. MadeByCompleted'
  <2>1. \A k \in Keys, x \in Batches : record'[k] = x => batch'[x] # Missing /\ batch'[x].status = "COMPLETED"
    BY <1>3, <1>7, <1>11, <1>12, ImportsAssumption DEF ImportsInv, MadeByCompleted, StatusIn
  <2> QED  BY <2>1 DEF MadeByCompleted, StatusIn
<1>18. MakesAtOnce
  <2>1. {k \in Keys : record'[k] = b /\ record[k] # b} = H
    BY <1>3, <1>10, <1>11, ImportsAssumption DEF ImportsInv, MadeByCompleted, StatusIn
  <2>2. \A x \in Batches \ {b} : {k \in Keys : record'[k] = x /\ record[k] # x} = {}
    BY <1>11
  <2> QED  BY <1>3, <1>7, <1>10, <1>12, <2>1, <2>2 DEF MakesAtOnce, StatusIn
<1>19. StaysFinal
  BY <1>3, <1>12 DEF StaysFinal, StatusIn
<1> QED  BY <1>12, <1>15, <1>16, <1>17, <1>18, <1>19 DEF ImportsStep, ImportsInv

-----------------------------------------------------------------------------
(* The staff *)

\* Records change by hand: the batches stay, what confirmations wrote stays
\* free for them, and no class is beyond its capacity with either.
LEMMA ByHand ==
    ASSUME ImportsInv, NEW k \in Keys, NEW maker \in {"staff", Missing}, record' = [record EXCEPT ![k] = maker],
           UNCHANGED <<batch, usable, importer>>,
           maker = Missing \/ \A q \in Importers : k \notin HeldKeys(q),
           SeatsKept',
           \A q \in Importers, c \in LimitedClasses : Busy(q) => Cardinality(Seated(q, c)') <= Capacity[c]
    PROVE  ImportsStep
<1>1. /\ record' \in [Keys -> Batches \cup {"staff", Missing}] /\ record'[k] = maker /\ maker \notin Batches
      /\ \A l \in Keys \ {k} : record'[l] = record[l]
  BY ImportsAssumption DEF ImportsInv, ImportsTyped
<1>2. ImportsTyped' /\ RowsMatch'
  BY <1>1 DEF ImportsInv, ImportsTyped, RowsMatch, RowsOf
<1>3. \A q \in Importers : (Busy(q)' <=> Busy(q)) /\ importer'[q] = importer[q] /\ (Busy(q) => HeldKeys(q)' = HeldKeys(q))
  BY DEF Busy, HeldKeys, WrittenRows, RowsOf
<1>4. ConfirmsAll'
  <2>1. SUFFICES ASSUME NEW q \in Importers, NEW b \in Batches, Busy(q), importer[q].batch = b
                 PROVE  Confirms(q, b)'
    BY <1>3 DEF ConfirmsAll
  <2>2. Confirms(q, b) /\ HeldKeys(q) \subseteq Keys
    BY <2>1, ImporterFields, KeysHeld
  <2>3. \A l \in HeldKeys(q)' : record'[l] = Missing
    BY <1>1, <1>3, <2>1, <2>2 DEF Confirms
  <2> QED  BY <1>3, <2>1, <2>2, <2>3 DEF Confirms, StatusIn, ClassesFirst, RowsOf
<1>5. ConfirmationsApart'
  BY <1>3 DEF ImportsInv, ConfirmationsApart
<1>6. MadeByCompleted'
  BY <1>1 DEF ImportsInv, MadeByCompleted, StatusIn
<1>7. MakesAtOnce /\ StaysFinal
  BY <1>1 DEF MakesAtOnce, StaysFinal, StatusIn
<1> QED  BY <1>2, <1>4, <1>5, <1>6, <1>7 DEF ImportsStep, ImportsInv

LEMMA HandCreateKeeps ==
    ASSUME ImportsInv, NEW k \in Keys, HandCreate(k)
    PROVE  ImportsStep
<1>1. /\ record' = [record EXCEPT ![k] = "staff"] /\ UNCHANGED <<batch, usable, importer>> /\ record[k] = Missing
      /\ \A q \in Importers : k \notin HeldKeys(q) /\ ClassOf[k] \notin HeldClasses(q)
  BY DEF HandCreate
<1>2. record'[k] = "staff" /\ "staff" # Missing /\ \A l \in Keys \ {k} : record'[l] = record[l]
  BY <1>1, ImportsAssumption DEF ImportsInv, ImportsTyped
<1>3. ASSUME NEW c \in LimitedClasses
      PROVE  Cardinality({l \in Keys : ClassOf[l] = c /\ record'[l] # Missing}) <= Capacity[c]
  <2> DEFINE A == {l \in Keys : ClassOf[l] = c /\ record[l] # Missing}
             B == {l \in Keys : ClassOf[l] = c /\ record'[l] # Missing}
  <2>1. Cardinality(A) <= Capacity[c]
    BY DEF ImportsInv, SeatsKept, Seats
  <2>2. CASE ClassOf[k] # c
    <3>1. B = A
      BY <1>2, <2>2
    <3> QED  BY <2>1, <3>1
  <2>3. CASE ClassOf[k] = c
    <3>1. B = A \cup {k}
      BY <1>2, <2>3
    <3>2. Cardinality(A) < Capacity[c]
      BY <2>3, ImportsAssumption DEF HandCreate, Seats
    <3>3. IsFiniteSet(A) /\ Cardinality(A) \in Nat
      BY SetsOfKeys
    <3>4. Capacity[c] \in Nat
      BY ImportsAssumption
    <3> HIDE DEF A, B
    <3>5. Cardinality(A \cup {k}) = IF k \in A THEN Cardinality(A) ELSE Cardinality(A) + 1
      BY <3>3, FS_AddElement
    <3>6. Cardinality(B) <= Capacity[c]
      BY <3>1, <3>2, <3>3, <3>4, <3>5
    <3> QED  BY <3>6 DEF B
  <2> QED  BY <2>2, <2>3
<1>4. SeatsKept'
  BY <1>3 DEF SeatsKept, Seats
<1>5. ASSUME NEW q \in Importers, NEW c \in LimitedClasses, Busy(q)
      PROVE  Cardinality(Seated(q, c)') <= Capacity[c]
  <2>1. HeldKeys(q)' = HeldKeys(q)
    BY <1>1 DEF Busy, HeldKeys, WrittenRows, RowsOf
  <2>2. CASE ClassOf[k] # c
    <3>1. Seated(q, c)' = Seated(q, c)
      BY <1>2, <2>1, <2>2 DEF Seated
    <3> QED  BY <1>5, <3>1, ImporterFields DEF Confirms
  <2>3. CASE ClassOf[k] = c
    <3>1. c # NoClass
      BY ImportsAssumption
    <3>2. \A l \in HeldKeys(q) : ClassOf[l] # c
      BY <1>1, <1>5, <2>3, <3>1, ClassesHeld
    <3>3. Seated(q, c)' = {l \in Keys : ClassOf[l] = c /\ record'[l] # Missing}
      BY <2>1, <3>2 DEF Seated
    <3> QED  BY <1>3, <3>3
  <2> QED  BY <2>2, <2>3
<1> QED  BY <1>1, <1>4, <1>5, ByHand

LEMMA HandWithdrawKeeps ==
    ASSUME ImportsInv, NEW k \in Keys, HandWithdraw(k)
    PROVE  ImportsStep
<1>1. record' = [record EXCEPT ![k] = Missing] /\ UNCHANGED <<batch, usable, importer>>
  BY DEF HandWithdraw
<1>2. record'[k] = Missing /\ \A l \in Keys \ {k} : record'[l] = record[l]
  BY <1>1 DEF ImportsInv, ImportsTyped
<1>3. ASSUME NEW c \in LimitedClasses
      PROVE  Cardinality({l \in Keys : ClassOf[l] = c /\ record'[l] # Missing}) <= Capacity[c]
  <2> DEFINE A == {l \in Keys : ClassOf[l] = c /\ record[l] # Missing}
             B == {l \in Keys : ClassOf[l] = c /\ record'[l] # Missing}
  <2>1. Cardinality(A) <= Capacity[c] /\ Capacity[c] \in Nat
    BY ImportsAssumption DEF ImportsInv, SeatsKept, Seats
  <2>2. B \subseteq A /\ A \subseteq Keys
    BY <1>2
  <2> HIDE DEF A, B
  <2>3. Cardinality(B) <= Capacity[c]
    BY <2>1, <2>2, SmallerSet
  <2> QED  BY <2>3 DEF B
<1>4. SeatsKept'
  BY <1>3 DEF SeatsKept, Seats
<1>5. ASSUME NEW q \in Importers, NEW c \in LimitedClasses, Busy(q)
      PROVE  Cardinality(Seated(q, c)') <= Capacity[c]
  <2>1. HeldKeys(q)' = HeldKeys(q)
    BY <1>1 DEF Busy, HeldKeys, WrittenRows, RowsOf
  <2>2. Seated(q, c)' \subseteq Seated(q, c) /\ Seated(q, c) \subseteq Keys
    BY <1>2, <2>1 DEF Seated
  <2>3. Cardinality(Seated(q, c)) <= Capacity[c] /\ Capacity[c] \in Nat
    BY <1>5, ImporterFields, ImportsAssumption DEF Confirms
  <2> QED  BY <2>2, <2>3, SmallerSet
<1> QED  BY <1>1, <1>4, <1>5, ByHand

\* Neither a flip of a record that rows use nor a stutter changes what the
\* invariant is about.
LEMMA RestStays ==
    ASSUME ImportsInv, UNCHANGED <<batch, record, importer>>, usable' \in [Referred -> BOOLEAN]
    PROVE  ImportsStep
<1>1. ImportsTyped' /\ RowsMatch' /\ SeatsKept' /\ MadeByCompleted'
  BY DEF ImportsInv, ImportsTyped, RowsMatch, RowsOf, SeatsKept, Seats, MadeByCompleted, StatusIn
<1>2. \A q \in Importers : (Busy(q)' <=> Busy(q)) /\ HeldKeys(q)' = HeldKeys(q)
  BY DEF Busy, HeldKeys, WrittenRows, RowsOf
<1>3. ConfirmsAll'
  <2>1. \A q \in Importers, c \in LimitedClasses : Seated(q, c)' = Seated(q, c)
    BY <1>2 DEF Seated
  <2>2. SUFFICES ASSUME NEW q \in Importers, NEW b \in Batches, Busy(q), importer[q].batch = b
                 PROVE  Confirms(q, b)'
    BY <1>2 DEF ConfirmsAll
  <2>3. Confirms(q, b)
    BY <2>2, ImporterFields
  <2>4. RowsOf(b)' = RowsOf(b) /\ (StatusIn(b, {"VALIDATED"})' <=> StatusIn(b, {"VALIDATED"}))
    BY DEF RowsOf, StatusIn
  <2> QED  BY <1>2, <2>1, <2>3, <2>4 DEF Confirms, ClassesFirst
<1>4. ConfirmationsApart'
  BY <1>2 DEF ImportsInv, ConfirmationsApart
<1>5. MakesAtOnce /\ StaysFinal
  BY DEF MakesAtOnce, StaysFinal, StatusIn
<1> QED  BY <1>1, <1>3, <1>4, <1>5 DEF ImportsStep, ImportsInv

-----------------------------------------------------------------------------
LEMMA ImportsKeeps ==
    ASSUME ImportsInv, [ImportsNext]_importsVars
    PROVE  ImportsStep
<1>1. CASE UNCHANGED importsVars
  BY <1>1, RestStays DEF importsVars, ImportsInv, ImportsTyped
<1>2. ASSUME NEW u \in Referred, HandFlip(u)  PROVE ImportsStep
  BY <1>2, RestStays DEF HandFlip, ImportsInv, ImportsTyped
<1>3. ASSUME NEW b \in Batches, NEW f \in Files, NEW m \in Mappings, Upload(b, f, m)  PROVE ImportsStep
  BY <1>3, UploadKeeps
<1>4. ASSUME NEW b \in Batches, NEW m \in Mappings, UpdateMapping(b, m)  PROVE ImportsStep
  BY <1>4, UpdateMappingKeeps
<1>5. ASSUME NEW b \in Batches, Validate(b) \/ Cancel(b) \/ RefuseConfirm(b)  PROVE ImportsStep
  BY <1>5, ValidateKeeps, CancelKeeps, RefuseConfirmKeeps
<1>6. ASSUME NEW b \in Batches, NEW q \in Importers, BeginConfirm(q, b)  PROVE ImportsStep
  BY <1>6, BeginConfirmKeeps
<1>7. ASSUME NEW q \in Importers, LockClasses(q) \/ WriteRow(q) \/ WriteFails(q) \/ CompleteImport(q) \/ LoseConfirm(q)
      PROVE  ImportsStep
  BY <1>7, LockClassesKeeps, WriteRowKeeps, WriteFailsKeeps, CompleteImportKeeps, LoseConfirmKeeps
<1>8. ASSUME NEW k \in Keys, HandCreate(k) \/ HandWithdraw(k)  PROVE ImportsStep
  BY <1>8, HandCreateKeeps, HandWithdrawKeeps
<1> QED  BY <1>1, <1>2, <1>3, <1>4, <1>5, <1>6, <1>7, <1>8 DEF ImportsNext

\* What two confirmations may wait for each other over.
LEMMA ApartOverClasses ==
    ASSUME ImportsInv
    PROVE  NoDeadlockOverClasses
<1>1. ASSUME NEW p \in Importers, NEW q \in Importers, WaitsFor(p, q), Writing(q)
      PROVE  ClassOf[NextRow(p).key] = NoClass
  <2>1. Busy(p) /\ Busy(q) /\ p # q /\ Writing(p)
    BY <1>1 DEF WaitsFor, Writing
  <2>2. SUFFICES ASSUME ClassOf[NextRow(p).key] # NoClass  PROVE FALSE
    OBVIOUS
  <2>3. PICK b \in Batches : b = importer[p].batch
    BY <2>1, ImporterFields
  <2>4. ClassOf[NextRow(p).key] \in importer[p].classes
    BY <2>1, <2>2, <2>3, NextRowFields
  <2>5. ClassOf[NextRow(p).key] \in importer[q].classes
    BY <1>1, <2>1, <2>2, ClassesHeld DEF WaitsFor
  <2> QED  BY <2>1, <2>4, <2>5 DEF ImportsInv, ConfirmationsApart
<1> QED  BY <1>1 DEF NoDeadlockOverClasses, WaitsFor

-----------------------------------------------------------------------------
(* Validation and writing *)

\* The members of a set of positions before one of them: all but it and those after it.
LEMMA Before ==
    ASSUME NEW n \in Nat, NEW S \in SUBSET (1..n), NEW i \in S
    PROVE  /\ IsFiniteSet(S) /\ Cardinality(S) \in Nat
           /\ Cardinality({j \in S : j < i}) \in Nat /\ Cardinality({j \in S : j < i}) < Cardinality(S)
           /\ (\A j \in S : i >= j) => Cardinality({j \in S : j < i}) = Cardinality(S) - 1
<1> DEFINE R == S \ {i}
           P == {j \in S : j < i}
<1>1. IsFiniteSet(1..n)
  BY FS_Interval
<1>2. IsFiniteSet(S)
  BY <1>1, FS_Subset
<1>3. IsFiniteSet(R) /\ Cardinality(R) = Cardinality(S) - 1 /\ Cardinality(S) \in Nat /\ Cardinality(R) \in Nat
  BY <1>2, FS_RemoveElement, FS_CardinalityType
<1>4. P \subseteq R
  OBVIOUS
<1>5. IsFiniteSet(P) /\ Cardinality(P) \in Nat /\ Cardinality(P) <= Cardinality(R)
  BY <1>3, <1>4, FS_Subset, FS_CardinalityType
<1>6. ASSUME \A j \in S : i >= j  PROVE P = R
  <2>1. \A j \in S : j \in Int /\ (j < i <=> j # i)
    BY <1>6
  <2> QED  BY <2>1
<1> HIDE DEF P, R
<1>7. Cardinality(P) \in Nat /\ Cardinality(P) < Cardinality(S) /\ ((\A j \in S : i >= j) => Cardinality(P) = Cardinality(S) - 1)
  BY <1>3, <1>5, <1>6
<1> QED  BY <1>2, <1>3, <1>7 DEF P

\* A file whose rows are valid together is one whose rows can be written in turn.
LEMMA WritableTogether ==
    ASSUME ImportsInv
    PROVE  ValidIsWritable
<1> SUFFICES ASSUME NEW b \in Batches, batch[b] # Missing
             PROVE  LET rows == RowsOf(b)
                    IN AllValid(Judged(rows)) <=>
                          \A i \in DOMAIN rows :
                              /\ ~rows[i].malformed /\ record[rows[i].key] = Missing
                              /\ \A u \in rows[i].uses : usable[u]
                              /\ \A j \in 1..(i - 1) : rows[j].key # rows[i].key
                              /\ ClassOf[rows[i].key] # NoClass =>
                                    Seats(ClassOf[rows[i].key])
                                        + Cardinality({j \in 1..(i - 1) : ClassOf[rows[j].key] = ClassOf[rows[i].key]})
                                            < Capacity[ClassOf[rows[i].key]]
  BY DEF ValidIsWritable
<1>1. PICK rows \in Seq(Row) : rows = RowsOf(b)
  BY BatchFields
<1>2. PICK n \in Nat : n = Len(rows) /\ DOMAIN rows = 1..n
  BY <1>1
<1>3. \A i \in DOMAIN rows : rows[i].key \in Keys
  BY <1>1, BatchFields
<1> DEFINE Of(c) == {i \in DOMAIN rows : ClassOf[rows[i].key] = c}
           Free(i) == /\ ~rows[i].malformed /\ record[rows[i].key] = Missing
                      /\ \A u \in rows[i].uses : usable[u]
                      /\ \A j \in 1..(i - 1) : rows[j].key # rows[i].key
           HasSeat(i) == ClassOf[rows[i].key] # NoClass =>
                            Seats(ClassOf[rows[i].key])
                                + Cardinality({j \in 1..(i - 1) : ClassOf[rows[j].key] = ClassOf[rows[i].key]})
                                    < Capacity[ClassOf[rows[i].key]]
<1>4. AllValid(Judged(rows)) <=> \A i \in DOMAIN rows : ~Faulty(rows, i) /\ ~Overfull(rows, i)
  BY DEF AllValid, Judged
<1>5. \A i \in DOMAIN rows : ~Faulty(rows, i) <=> Free(i)
  BY DEF Faulty, Unresolved, Doubled, Taken
<1>6. \A i \in DOMAIN rows : ClassOf[rows[i].key] # NoClass =>
          /\ Capacity[ClassOf[rows[i].key]] \in Nat /\ Seats(ClassOf[rows[i].key]) \in Nat
  BY <1>3, ImportsAssumption, SetsOfKeys DEF Seats
<1>7. ASSUME NEW i \in DOMAIN rows, NEW c, c = ClassOf[rows[i].key]
      PROVE  /\ Of(c) \in SUBSET (1..n) /\ i \in Of(c)
             /\ {j \in 1..(i - 1) : ClassOf[rows[j].key] = c} = {j \in Of(c) : j < i}
  BY <1>2, <1>7
<1>8. ASSUME \A i \in DOMAIN rows : ~Faulty(rows, i), NEW c
      PROVE  Demand(rows, c) = Cardinality(Of(c))
  <2>1. {i \in DOMAIN rows : ~Faulty(rows, i) /\ ClassOf[rows[i].key] = c} = Of(c)
    BY <1>8
  <2> HIDE DEF Of
  <2> QED  BY <2>1 DEF Demand
<1>9. ASSUME \A i \in DOMAIN rows : ~Faulty(rows, i) /\ ~Overfull(rows, i), NEW i \in DOMAIN rows,
             NEW c, c = ClassOf[rows[i].key], c # NoClass
      PROVE  Seats(c) + Cardinality({j \in 1..(i - 1) : ClassOf[rows[j].key] = c}) < Capacity[c]
  <2>1. Demand(rows, c) = Cardinality(Of(c))
    BY <1>8, <1>9
  <2>2. ~(Seats(c) + Demand(rows, c) > Capacity[c])
    BY <1>9 DEF Overfull
  <2>3. Of(c) \in SUBSET (1..n) /\ i \in Of(c)
        /\ {j \in 1..(i - 1) : ClassOf[rows[j].key] = c} = {j \in Of(c) : j < i}
    BY <1>7, <1>9
  <2> HIDE DEF Of
  <2>4. /\ Cardinality(Of(c)) \in Nat /\ Cardinality({j \in Of(c) : j < i}) \in Nat
        /\ Cardinality({j \in Of(c) : j < i}) < Cardinality(Of(c))
    BY <2>3, Before
  <2>5. Capacity[c] \in Nat /\ Seats(c) \in Nat
    BY <1>6, <1>9
  <2>6. Cardinality({j \in 1..(i - 1) : ClassOf[rows[j].key] = c}) = Cardinality({j \in Of(c) : j < i})
    BY <2>3
  <2>7. Seats(c) + Cardinality({j \in Of(c) : j < i}) < Capacity[c]
    BY <2>1, <2>2, <2>4, <2>5
  <2> QED  BY <2>6, <2>7
<1>10. ASSUME \A i \in DOMAIN rows : Free(i) /\ HasSeat(i), NEW i \in DOMAIN rows,
              NEW c, c = ClassOf[rows[i].key], c # NoClass
       PROVE  ~(Seats(c) + Demand(rows, c) > Capacity[c])
  <2>1. Demand(rows, c) = Cardinality(Of(c))
    <3>1. \A j \in DOMAIN rows : ~Faulty(rows, j)
      BY <1>5, <1>10
    <3> QED  BY <1>8, <3>1
  <2>2. Of(c) \in SUBSET (1..n) /\ Of(c) # {}
    BY <1>7, <1>10
  <2>3. PICK e \in Of(c) : \A f \in Of(c) : e >= f
    BY <2>2, Greatest
  <2>4. e \in DOMAIN rows /\ ClassOf[rows[e].key] = c
    OBVIOUS
  <2>5. {j \in 1..(e - 1) : ClassOf[rows[j].key] = c} = {j \in Of(c) : j < e}
    BY <1>7, <2>4
  <2>6. Seats(c) + Cardinality({j \in 1..(e - 1) : ClassOf[rows[j].key] = c}) < Capacity[c]
    BY <1>10, <2>4
  <2> HIDE DEF Of
  <2>7. Cardinality(Of(c)) \in Nat /\ Cardinality({j \in Of(c) : j < e}) = Cardinality(Of(c)) - 1
    BY <2>2, <2>3, Before
  <2>8. Capacity[c] \in Nat /\ Seats(c) \in Nat
    BY <1>6, <1>10
  <2>9. Seats(c) + Cardinality({j \in Of(c) : j < e}) < Capacity[c]
    BY <2>5, <2>6
  <2> QED  BY <2>1, <2>7, <2>8, <2>9
<1>11. (\A i \in DOMAIN rows : ~Faulty(rows, i) /\ ~Overfull(rows, i)) => \A i \in DOMAIN rows : Free(i) /\ HasSeat(i)
  <2> SUFFICES ASSUME \A i \in DOMAIN rows : ~Faulty(rows, i) /\ ~Overfull(rows, i), NEW i \in DOMAIN rows
               PROVE  Free(i) /\ HasSeat(i)
    OBVIOUS
  <2>1. Free(i)
    BY <1>5
  <2>2. HasSeat(i)
    BY <1>9
  <2> QED  BY <2>1, <2>2
<1>12. (\A i \in DOMAIN rows : Free(i) /\ HasSeat(i)) => \A i \in DOMAIN rows : ~Faulty(rows, i) /\ ~Overfull(rows, i)
  <2> SUFFICES ASSUME \A i \in DOMAIN rows : Free(i) /\ HasSeat(i), NEW i \in DOMAIN rows
               PROVE  ~Faulty(rows, i) /\ ~Overfull(rows, i)
    OBVIOUS
  <2>1. ~Faulty(rows, i)
    BY <1>5
  <2>2. ~Overfull(rows, i)
    BY <1>10 DEF Overfull
  <2> QED  BY <2>1, <2>2
<1> QED  BY <1>1, <1>4, <1>11, <1>12

\* The invariant of imports.
THEOREM ImportsInvariance == ImportsSpec => []ImportsInv
<1>1. ImportsInit => ImportsInv
  BY ImportsStarts
<1>2. ImportsInv /\ [ImportsNext]_importsVars => ImportsInv'
  BY ImportsKeeps DEF ImportsStep
<1> QED  BY <1>1, <1>2, PTL DEF ImportsSpec

LEMMA ImportsTypesHold ==
    ASSUME ImportsInv
    PROVE  ImportsTypeOK
<1>1. \A b \in Batches : batch[b] # Missing =>
          /\ batch[b].file \in Files /\ batch[b].mapping \in Mappings
          /\ batch[b].status \in {"UPLOADED", "VALIDATED", "COMPLETED", "FAILED", "CANCELLED"}
          /\ DOMAIN batch[b].rows = DOMAIN RowsOf(b)
  BY BatchFields
<1>2. \A b \in Batches : batch[b] # Missing =>
          (batch[b].status = "COMPLETED" => \A i \in DOMAIN RowsOf(b) : batch[b].rows[i] = "IMPORTED")
  BY <1>1 DEF ImportsInv, RowsMatch
<1> QED  BY <1>1, <1>2 DEF ImportsInv, ImportsTyped, ConfirmationsApart, ImportsTypeOK

\* No class is filled beyond its capacity from files and by hand, what validation
\* promises writing keeps, confirmations never wait for each other over classes,
\* a batch makes its records all at once or none, and its end is final.
THEOREM ImportsStaySafe == ImportsSpec => ImportsSafe
<1>1. ImportsInv => ImportsTypeOK /\ SeatsKept /\ ValidIsWritable /\ NoDeadlockOverClasses
  BY ImportsTypesHold, WritableTogether, ApartOverClasses DEF ImportsInv
<1>2. ImportsInv /\ [ImportsNext]_importsVars =>
        /\ [\A b \in Batches :
              LET made == {k \in Keys : record'[k] = b /\ record[k] # b}
                  completes == StatusIn(b, {"VALIDATED"}) /\ batch'[b].status = "COMPLETED"
              IN made = IF completes THEN {RowsOf(b)[i].key : i \in DOMAIN RowsOf(b)} ELSE {}]_importsVars
        /\ [\A b \in Batches : StatusIn(b, {"COMPLETED", "FAILED", "CANCELLED"}) => batch'[b] = batch[b]]_importsVars
  BY ImportsKeeps DEF ImportsStep, MakesAtOnce, StaysFinal
<1> QED  BY <1>1, <1>2, ImportsInvariance, PTL DEF ImportsSpec, ImportsSafe, AllOrNothing, HistoryIsFinal

=============================================================================
