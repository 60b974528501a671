----------------------------- MODULE Enrollments -----------------------------
(***************************************************************************)
(* EnrollmentsService, with the updates of classes and students it runs    *)
(* against: who takes a place in which class, in the tenant's database.    *)
(*                                                                         *)
(* A command is one READ COMMITTED transaction.  It locks the enrollment   *)
(* it starts from, then the student and the class FOR SHARE to check that  *)
(* both are active, then the class again FOR UPDATE to count its places,   *)
(* and writes.  A transition of an enrollment skips the shared locks, and  *)
(* the class lock too unless it leads to ACTIVE or PAUSED.  Row locks are  *)
(* kept to the end, so they follow from how far a command has come.        *)
(*                                                                         *)
(* Statements are one action where a transaction cannot be observed or     *)
(* stopped between them: BEGIN and its first lock, the two shared locks    *)
(* (a student is only locked otherwise by an update that waits for         *)
(* nothing else), the write and the commit, and the updates of a class or  *)
(* a student, which lock and write one row of this model.                  *)
(***************************************************************************)
EXTENDS Naturals, FiniteSets

CONSTANTS
    Students,
    Classes,
    Capacities,   \* the limits a class may be given
    Unlimited,    \* a class without a limit
    Settings,     \* what staff set a class's status and capacity to
    Rows,         \* identities of enrollment rows; bounds how many are written
    Connections,
    Requests,     \* what clients ask for
    Absent,       \* a row not written yet
    NoSource, NoRequest

Consuming == {"PENDING", "TRIAL", "ACTIVE", "PAUSED"}

Terminal == {"COMPLETED", "WITHDRAWN", "CANCELLED"}

InitialStatus == {"PENDING", "TRIAL", "ACTIVE"}

Command ==
    [op : {"create"}, student : Students, class : Classes, status : InitialStatus]
        \cup [op : {"transition"}, row : Rows, status : (Consuming \cup Terminal) \ {"PENDING"}]
        \cup [op : {"transfer"}, row : Rows, class : Classes]
        \cup [op : {"reenroll"}, row : Rows, student : Students, class : Classes, status : InitialStatus]

Enrollment ==
    [student : Students, class : Classes, status : Consuming \cup Terminal, source : Rows \cup {NoSource}]

Class == [status : {"ACTIVE", "DISABLED", "COMPLETED"}, capacity : Capacities \cup {Unlimited}]

ASSUME EnrollmentsAssumption ==
    /\ Capacities \subseteq Nat
    /\ Settings \subseteq [status : {"ACTIVE", "DISABLED"}, capacity : Capacities \cup {Unlimited}]
    /\ IsFiniteSet(Rows)
    /\ Requests \subseteq Command
    /\ Absent \notin Enrollment
    /\ NoSource \notin Rows
    /\ NoRequest \notin Command

VARIABLES
    enrollments,
    classes,
    students,     \* the students' status
    request,      \* what each connection is working on
    step          \* the statement it runs next

vars == <<enrollments, classes, students, request, step>>

-----------------------------------------------------------------------------
(* The rows *)

Written == {r \in Rows : enrollments[r] # Absent}

\* The enrollments that take up a place of class c.
Seats(c) == {r \in Written : enrollments[r].class = c /\ enrollments[r].status \in Consuming}

Fits(c, n) == classes[c].capacity # Unlimited => n < classes[c].capacity

Allowed(from, to) ==
    \/ from = "PENDING" /\ to \in {"ACTIVE", "TRIAL", "CANCELLED"}
    \/ from = "TRIAL" /\ to \in {"ACTIVE", "CANCELLED", "WITHDRAWN"}
    \/ from = "ACTIVE" /\ to \in {"PAUSED", "COMPLETED", "WITHDRAWN"}
    \/ from = "PAUSED" /\ to \in {"ACTIVE", "WITHDRAWN"}

\* Mutation: the index covers active enrollments only.
ActiveTwice(e) ==
    \E r \in Seats(e.class) : enrollments[r].student = e.student /\ e.status = "ACTIVE"

\* The unique index enrollments_operational_student_class_key.
OperationalTwice(e) ==
    \E r \in Seats(e.class) : enrollments[r].student = e.student /\ e.status \in Consuming

-----------------------------------------------------------------------------
(* What command q works on *)

HasSource(q) == q.op # "create"

Inserts(q) == q.op # "transition"

\* The enrollment q starts from; it is locked when its fields are used.
Source(q) == enrollments[q.row]

StudentOf(q) == IF q.op = "create" THEN q.student ELSE Source(q).student

ClassOf(q) == IF q.op = "transition" THEN Source(q).class ELSE q.class

\* The status of the row q writes.
Target(q) == IF q.op = "transfer" THEN Source(q).status ELSE q.status

\* Whether the student and the class must be active.
MustBeActive(q) == IF q.op = "transfer" THEN Source(q).status = "ACTIVE" ELSE q.status # "PENDING"

NeedsSeat(q) == Inserts(q) \/ q.status \in {"ACTIVE", "PAUSED"}

\* The places taken by others than the enrollment that moves.
Taken(q) == IF Inserts(q) THEN Seats(ClassOf(q)) ELSE Seats(ClassOf(q)) \ {q.row}

-----------------------------------------------------------------------------
(* Row locks *)

\* Mutation: a row read without FOR UPDATE or FOR SHARE.
NotLocked(k, r) == FALSE

LocksRow(k, r) == step[k] # "idle" /\ HasSource(request[k]) /\ request[k].row = r

SharesStudent(k, s) == step[k] \in {"seat", "write"} /\ Inserts(request[k]) /\ StudentOf(request[k]) = s

SharesClass(k, c) == step[k] \in {"seat", "write"} /\ Inserts(request[k]) /\ ClassOf(request[k]) = c

OwnsClass(k, c) == step[k] = "write" /\ NeedsSeat(request[k]) /\ ClassOf(request[k]) = c

\* Mutation: the places are counted without locking the class.
NotAwaited(c, others) == TRUE

\* None of the others holds the class in any mode.
ClassFree(c, others) == \A k \in others : ~SharesClass(k, c) /\ ~OwnsClass(k, c)

-----------------------------------------------------------------------------
(* Commands *)

Init ==
    /\ enrollments = [r \in Rows |-> Absent]
    /\ classes \in [Classes -> Settings]
    /\ students \in [Students -> {"ACTIVE", "DISABLED"}]
    /\ request = [k \in Connections |-> NoRequest]
    /\ step = [k \in Connections |-> "idle"]

Start(k, q, s) ==
    /\ step[k] = "idle"
    /\ request' = [request EXCEPT ![k] = q]
    /\ step' = [step EXCEPT ![k] = s]
    /\ UNCHANGED <<enrollments, classes, students>>

Goto(k, s) ==
    /\ step' = [step EXCEPT ![k] = s]
    /\ UNCHANGED <<enrollments, classes, students, request>>

\* validateStudentAndClass
Admissible(q) ==
    /\ \A j \in Connections : ~OwnsClass(j, ClassOf(q))
    /\ MustBeActive(q) => students[StudentOf(q)] = "ACTIVE" /\ classes[ClassOf(q)].status = "ACTIVE"

StartCreate(k, q) ==
    /\ ~HasSource(q)
    /\ Admissible(q)
    /\ Start(k, q, "seat")

\* What q asks of the enrollment it starts from.
MayStartFrom(q) ==
    \/ q.op = "transition" /\ Allowed(Source(q).status, q.status)
    \/ q.op = "transfer" /\ Source(q).status \in Consuming /\ Source(q).class # q.class
    \/ q.op = "reenroll" /\ Source(q).status \in Terminal /\ Source(q).student = q.student

StartFromSource(k, q) ==
    /\ HasSource(q)
    /\ q.row \in Written
    /\ \A j \in Connections : ~LocksRow(j, q.row)
    /\ MayStartFrom(q)
    /\ Start(k, q, IF Inserts(q) THEN "validate" ELSE IF NeedsSeat(q) THEN "seat" ELSE "write")

Validate(k) ==
    /\ step[k] = "validate"
    /\ Admissible(request[k])
    /\ Goto(k, "seat")

\* The class FOR UPDATE, then the count of its places.
LockCapacity(k) ==
    /\ step[k] = "seat"
    /\ ClassFree(ClassOf(request[k]), Connections \ {k})
    /\ Fits(ClassOf(request[k]), Cardinality(Taken(request[k])))
    /\ Goto(k, "write")

Done(k) ==
    /\ request' = [request EXCEPT ![k] = NoRequest]
    /\ step' = [step EXCEPT ![k] = "idle"]
    /\ UNCHANGED <<classes, students>>

WriteTransition(k) ==
    /\ step[k] = "write"
    /\ ~Inserts(request[k])
    /\ enrollments' = [enrollments EXCEPT ![request[k].row].status = request[k].status]
    /\ Done(k)

NewEnrollment(q) ==
    [student |-> StudentOf(q), class |-> ClassOf(q), status |-> Target(q),
     source |-> IF HasSource(q) THEN q.row ELSE NoSource]

\* Mutation: a transfer leaves its source open.
LeftOpen(q) == enrollments

\* A transfer also closes the enrollment it starts from.
Closed(q) ==
    IF q.op = "transfer" THEN [enrollments EXCEPT ![q.row].status = "WITHDRAWN"] ELSE enrollments

WriteEnrollment(k) ==
    /\ step[k] = "write"
    /\ Inserts(request[k])
    /\ ~OperationalTwice(NewEnrollment(request[k]))
    /\ \E r \in Rows \ Written :
           enrollments' = [Closed(request[k]) EXCEPT ![r] = NewEnrollment(request[k])]
    /\ Done(k)

\* A refusal, an error, a deadlock broken by the database, or a crash.
Rollback(k) ==
    /\ step[k] # "idle"
    /\ UNCHANGED enrollments
    /\ Done(k)

-----------------------------------------------------------------------------
(* Updates the commands run against *)

\* ClassesService.update: a capacity below the places taken is not refused.
UpdateClass(c) ==
    /\ ClassFree(c, Connections)
    /\ classes[c].status # "COMPLETED"
    /\ \E set \in Settings : classes' = [classes EXCEPT ![c] = set]
    /\ UNCHANGED <<enrollments, students, request, step>>

\* ClassesService.complete, when no later session stands in the way.
CompleteClass(c) ==
    /\ ClassFree(c, Connections)
    /\ classes[c].status = "ACTIVE"
    /\ classes' = [classes EXCEPT ![c].status = "COMPLETED"]
    /\ UNCHANGED <<enrollments, students, request, step>>

UpdateStudent(s) ==
    /\ \A k \in Connections : ~SharesStudent(k, s)
    /\ \E status \in {"ACTIVE", "DISABLED"} : students' = [students EXCEPT ![s] = status]
    /\ UNCHANGED <<enrollments, classes, request, step>>

Begin(k) == \E q \in Requests : StartCreate(k, q) \/ StartFromSource(k, q)

Statement(k) == Validate(k) \/ LockCapacity(k) \/ WriteTransition(k) \/ WriteEnrollment(k)

Next ==
    \/ \E k \in Connections : Begin(k) \/ Statement(k) \/ Rollback(k)
    \/ \E c \in Classes : UpdateClass(c) \/ CompleteClass(c)
    \/ \E s \in Students : UpdateStudent(s)

Spec == Init /\ [][Next]_vars

-----------------------------------------------------------------------------
(* Properties *)

\* Types, and what a command in progress relies on: as long as it holds the
\* lock of the enrollment it starts from, that enrollment still allows it.
TypeOK ==
    /\ enrollments \in [Rows -> Enrollment \cup {Absent}]
    /\ classes \in [Classes -> Class]
    /\ students \in [Students -> {"ACTIVE", "DISABLED"}]
    /\ request \in [Connections -> Requests \cup {NoRequest}]
    /\ step \in [Connections -> {"idle", "validate", "seat", "write"}]
    /\ \A k \in Connections : step[k] # "idle" =>
           /\ request[k] # NoRequest
           /\ HasSource(request[k]) => request[k].row \in Written /\ MayStartFrom(request[k])

\* A student has at most one operational enrollment in a class, whatever
\* enrolments, transfers and re-enrolments run at once.
OneOperational ==
    \A r1, r2 \in Written :
        (/\ enrollments[r1].student = enrollments[r2].student
         /\ enrollments[r1].class = enrollments[r2].class
         /\ enrollments[r1].status \in Consuming
         /\ enrollments[r2].status \in Consuming) => r1 = r2

\* The enrollment that another one was transferred or re-enrolled from is
\* closed, stays closed, and is the same student's.
SourcesClosed ==
    \A r \in Written :
        LET source == enrollments[r].source IN
        source # NoSource =>
            /\ source \in Written
            /\ enrollments[source].status \in Terminal
            /\ enrollments[source].student = enrollments[r].student


\* Which enrollments may stand beside one another, whatever overlaps.
EnrollmentsSafe == TypeOK /\ OneOperational /\ SourcesClosed

\* The step gives row r a place of class c, or makes it active or paused there.
Settles(r, c) ==
    /\ enrollments'[r] # enrollments[r]
    /\ enrollments'[r] # Absent
    /\ enrollments'[r].class = c
    /\ \/ enrollments[r] = Absent /\ enrollments'[r].status \in Consuming
       \/ enrollments'[r].status \in {"ACTIVE", "PAUSED"}

\* However commands and changes of a class's limit overlap, a place is taken,
\* or an enrollment activated, paused or resumed, only within the limit the
\* class has at that moment.
SeatsRespectCapacity ==
    [][\A r \in Rows, c \in Classes :
           (Settles(r, c) /\ classes[c].capacity # Unlimited) =>
               Cardinality(Seats(c)') <= classes[c].capacity]_vars

\* An enrollment that starts out ACTIVE does so while its student and its
\* class are still active, not only when they were checked.
AdmittedWhileActive ==
    [][\A r \in Rows :
           (enrollments[r] = Absent /\ enrollments'[r] # Absent /\ enrollments'[r].status = "ACTIVE") =>
               /\ students[enrollments'[r].student] = "ACTIVE"
               /\ classes[enrollments'[r].class].status = "ACTIVE"]_vars


\* How enrollments may come about, in one.
AdmissionsHold == SeatsRespectCapacity /\ AdmittedWhileActive

=============================================================================
