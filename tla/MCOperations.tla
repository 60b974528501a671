---------------------------- MODULE MCOperations ----------------------------
(***************************************************************************)
(* Instances of Compensation, Academy, Families, Imports, and              *)
(* TenantDatabases.  A behaviour is one of the component that `part`       *)
(* names, so that one run checks them all.                                 *)
(***************************************************************************)
EXTENDS Compensation, Academy, Families, Imports, TenantDatabases, TLC

CONSTANTS Parts, a1, a2, j1, c1, c2, t1, l1, l2, k1, b1, b2, r1, v1, o1, m1, m2, q1, q2, g3, u1, d1, d2, e1, e2, e3, e4

VARIABLE part

staffVars == <<compensationVars, academyVars, familiesVars, importsVars>>
operationVars == <<staffVars, databaseVars, part>>

NoDatabases ==
    /\ databases = << >> /\ registry = << >> /\ owners = << >>
    /\ accounts = {} /\ advisory = Nobody /\ runner = [p \in Operators |-> Idle]

\* A part that does not run has one initial state.
OperationsInit ==
    /\ part \in Parts
    /\ CompensationInit /\ AcademyInit /\ FamiliesInit /\ ImportsInit
    /\ IF part = "databases" THEN DatabasesInit ELSE NoDatabases

\* Bound of Academy: at most one row is disabled, and none while there are two lessons.
OneDisabled ==
    LET disabled == {r \in Rows : ~enabled[r]}  lessons == {l \in SessionIds : lesson[l] # Nothing}
    IN Cardinality(disabled) <= 1 /\ Cardinality(disabled) + Cardinality(lessons) <= 2

\* Bound of Imports: at most one record is made by hand.
OneByHand == Cardinality({k \in Keys : record[k] = "staff"}) <= 1

OperationsNext ==
    \/ /\ part = "compensation" /\ CompensationNext
       /\ UNCHANGED <<academyVars, familiesVars, importsVars, databaseVars, part>>
    \/ /\ part = "academy" /\ AcademyNext /\ OneDisabled'
       /\ UNCHANGED <<compensationVars, familiesVars, importsVars, databaseVars, part>>
    \/ /\ part = "families" /\ FamiliesNext
       /\ UNCHANGED <<compensationVars, academyVars, importsVars, databaseVars, part>>
    \/ /\ part = "imports" /\ ImportsNext /\ OneByHand'
       /\ UNCHANGED <<compensationVars, academyVars, familiesVars, databaseVars, part>>
    \/ part = "databases" /\ DatabasesNext /\ UNCHANGED <<staffVars, part>>

OperationsSpec == OperationsInit /\ [][OperationsNext]_operationVars

\* Compensation: two sessions, an hourly default, which rounds to nothing for the
\* second, a rate of the class that is replaced, a fixed one, and two periods that
\* overlap.
MCLessonOf ==
    (l1 :> [teacher |-> t1, class |-> c1, date |-> 1, minutes |-> 50])
        @@ (l2 :> [teacher |-> t1, class |-> c1, date |-> 3, minutes |-> 9])
MCClosing == c1 :> 3
MCAgreement(c, basis, rate, from) ==
    [teacher |-> t1, class |-> c, basis |-> basis, rate |-> rate, from |-> from, until |-> Open]
MCAgreementForms ==
    {MCAgreement(EveryClass, "PER_HOUR", 3, 1), MCAgreement(c1, "PER_SESSION", 5, 1),
     MCAgreement(c1, "PER_SESSION", 4, 3), MCAgreement(c1, "FIXED_CLASS", 9, 2)}
MCPeriods == {[first |-> 1, last |-> 3], [first |-> 3, last |-> 3]}
MCAmounts == {-6}

\* Academy: two connections, two branches, one of everything else.
MCCourseOf == v1 :> o1

\* Imports: two files of enrollments and two of other records, each with a mapping that
\* is right and one that makes rows malformed, doubled or too many for a class of one seat.
MCImportClassOf == e1 :> c1 @@ e2 :> c1 @@ e3 :> c2 @@ e4 :> c2 @@ d1 :> NoClass @@ d2 :> NoClass
MCImportCapacity == c1 :> 1 @@ c2 :> 2
MCRow(k, uses) == [key |-> k, uses |-> uses, malformed |-> FALSE]
MCBadRow(k) == [key |-> k, uses |-> {}, malformed |-> TRUE]
MCStaged ==
    1 :> (m1 :> <<MCRow(e1, {u1}), MCRow(e3, {})>> @@ m2 :> <<MCBadRow(e1), MCRow(e3, {})>>)
    @@ 2 :> (m1 :> <<MCRow(e4, {}), MCRow(e2, {u1})>> @@ m2 :> <<MCRow(e1, {}), MCRow(e2, {u1})>>)
    @@ 3 :> (m1 :> <<MCRow(d1, {}), MCRow(d2, {})>> @@ m2 :> <<MCRow(d1, {}), MCRow(d1, {})>>)
    @@ 4 :> (m1 :> <<MCRow(d2, {}), MCRow(d1, {})>> @@ m2 :> <<MCBadRow(d1), MCBadRow(d1)>>)


\* The parts share model values (clerks, editors, importers and
\* operators; branches, batches, guardians and tenants), so that few permutations
\* serve them all; the third guardian stays as it is.
Symmetry ==
    {f @@ g @@ h : f \in Permutations(Agreements), g \in Permutations(Clerks), h \in Permutations(Branches)}
=============================================================================
