------------------------------ MODULE Academy ------------------------------
(***************************************************************************)
(* The records a class is put together from: branches and their rooms,     *)
(* courses and their levels, teachers and the branches they work in.       *)
(* Classes are created, edited and completed against them while others     *)
(* disable, move and reassign them, and while lessons are generated and    *)
(* moved.                                                                  *)
(*                                                                         *)
(* A command that checks several records and writes later is two steps:    *)
(* it takes its row locks and reads, then it writes and commits.  Between  *)
(* the two others may do what its locks (FOR UPDATE: "X", FOR SHARE: "S")  *)
(* leave open.  A command with one statement to protect is one step.       *)
(* A refused command rolls back and is no step.  Names, codes, capacities  *)
(* and dates other than of completion are left out.                        *)
(***************************************************************************)
EXTENDS Naturals, FiniteSets

CONSTANTS
    Clerks,                     \* connections at work on one tenant
    Branches, Rooms, Courses, Levels, Teachers, Classes,
    CourseOf,                   \* of a level: never changed
    SessionIds,                 \* identities of sessions; bounds their number
    SchoolDays,
    Nothing                     \* no record, no value

Rows == Branches \cup Rooms \cup Courses \cup Levels \cup Teachers

\* What a class refers to; all but its course may be missing.
Composition ==
    [course : Courses, level : Levels \cup {Nothing}, branch : Branches \cup {Nothing},
     room : Rooms \cup {Nothing}, teacher : Teachers \cup {Nothing}]

ASSUME AcademyAssumption ==
    /\ CourseOf \in [Levels -> Courses]
    /\ Nothing \notin Rows \cup Classes \cup SessionIds \cup SchoolDays
    /\ SchoolDays \subseteq Nat

VARIABLES
    enabled,   \* status ACTIVE, of every row
    site,      \* rooms.branch_id; Nothing for a room not yet created
    staff,     \* teacher_branches
    class,     \* classes; Nothing for one not yet created
    lesson,    \* attendance_sessions that are SCHEDULED or COMPLETED
    clerk      \* the command in progress on each connection

academyVars == <<enabled, site, staff, class, lesson, clerk>>

AcademyInit ==
    /\ enabled = [r \in Rows |-> TRUE]
    /\ site = [r \in Rooms |-> Nothing]
    /\ staff = [t \in Teachers |-> {}]
    /\ class = [c \in Classes |-> Nothing]
    /\ lesson = [l \in SessionIds |-> Nothing]
    /\ clerk = [q \in Clerks |-> Nothing]

-----------------------------------------------------------------------------
(* Row locks *)

Locks(q) == IF clerk[q] = Nothing THEN {} ELSE clerk[q].locks

\* Mutation: readers do not wait for a writer, nor a writer for them.
OnlyWritersWait(q, wanted) ==
    \A p \in Clerks \ {q} : \A x \in Locks(p), y \in wanted :
        x[1] = y[1] => x[2] = "S" \/ y[2] = "S"

\* Nobody else's lock keeps q from taking these.
Grantable(q, wanted) ==
    \A p \in Clerks \ {q} : \A x \in Locks(p), y \in wanted :
        x[1] = y[1] => x[2] = "S" /\ y[2] = "S"

Shared(rows) == (rows \ {Nothing}) \X {"S"}
Exclusive(rows) == (rows \ {Nothing}) \X {"X"}

Start(q, op, of, plan, locks) ==
    /\ clerk[q] = Nothing
    /\ Grantable(q, locks)
    /\ clerk' = [clerk EXCEPT ![q] = [op |-> op, of |-> of, plan |-> plan, locks |-> locks]]

Doing(q, op) == clerk[q] # Nothing /\ clerk[q].op = op
Commit(q) == clerk' = [clerk EXCEPT ![q] = Nothing]

\* A statement of a command fails: it is rolled back.
Rollback(q) ==
    /\ clerk[q] # Nothing
    /\ Commit(q)
    /\ UNCHANGED <<enabled, site, staff, class, lesson>>

-----------------------------------------------------------------------------
(* Commands of one statement *)

Flip(q, row, locks) ==
    /\ clerk[q] = Nothing
    /\ Grantable(q, Exclusive(locks))
    /\ enabled' = [enabled EXCEPT ![row] = ~@]
    /\ UNCHANGED <<site, staff, class, lesson, clerk>>

UpdateBranch(q, b) == Flip(q, b, {b})
UpdateCourse(q, c) == Flip(q, c, {c})
UpdateLevel(q, l) == Flip(q, l, {l})
UpdateTeacher(q, t) == Flip(q, t, {t})

\* The room is selected FOR UPDATE together with its branch.
UpdateRoom(q, r) == site[r] # Nothing /\ Flip(q, r, {r, site[r]})

CreateRoom(q, r, b) ==
    /\ clerk[q] = Nothing
    /\ site[r] = Nothing
    /\ Grantable(q, Shared({b}))
    /\ enabled[b]
    /\ site' = [site EXCEPT ![r] = b]
    /\ UNCHANGED <<enabled, staff, class, lesson, clerk>>

\* Classes taught there by the teacher are not looked at.
ReplaceBranches(q, t, bs) ==
    /\ clerk[q] = Nothing
    /\ Grantable(q, Exclusive({t}))
    /\ staff' = [staff EXCEPT ![t] = bs]
    /\ UNCHANGED <<enabled, site, class, lesson, clerk>>

-----------------------------------------------------------------------------
(* Rooms move *)

\* Mutation: lessons of the room are asked for, classes are not.
NeverReferenced(r) == FALSE

\* Patterns and sessions in the room keep it in its branch as well; they name a branch
\* of their own and are left out.
Referenced(r) == \E c \in Classes : class[c] # Nothing /\ class[c].room = r

\* Its new branch is read without a lock.
BeginMove(q, r, b) ==
    /\ site[r] # Nothing
    /\ b # site[r] => ~Referenced(r)
    /\ enabled[b]
    /\ Start(q, "move", r, b, Exclusive({r, site[r]}))
    /\ UNCHANGED <<enabled, site, staff, class, lesson>>

Move(q) ==
    /\ Doing(q, "move")
    /\ site' = [site EXCEPT ![clerk[q].of] = clerk[q].plan]
    /\ Commit(q)
    /\ UNCHANGED <<enabled, staff, class, lesson>>

-----------------------------------------------------------------------------
(* Classes *)

Uses(m) == {m.course, m.level, m.branch, m.room, m.teacher} \ {Nothing}

\* Mutation: the records a class refers to are read without a lock.
Unprotected(c, m) == Exclusive({c})

\* The class itself, and everything it will refer to.
ClassLocks(c, m) == Exclusive({c}) \cup Shared(Uses(m))

\* validateRelationships: what is new must be enabled, what is kept must still belong together.
Fits(m, new) ==
    /\ \A r \in Uses(m) \cap new : enabled[r]
    /\ m.level # Nothing => CourseOf[m.level] = m.course
    /\ m.room # Nothing => site[m.room] # Nothing /\ site[m.room] = m.branch
    /\ m.teacher # Nothing /\ m.branch # Nothing => m.branch \in staff[m.teacher]

\* Giving a field the value it has asks it to be enabled as well: only a refusal more.
BeginClass(q, c, m) ==
    /\ class[c] # Nothing =>
          /\ class[c].until = Nothing
          /\ class[c].branch # Nothing => m.branch # Nothing
    /\ Fits(m, IF class[c] = Nothing THEN Uses(m) ELSE Uses(m) \ Uses(class[c]))
    /\ Start(q, "class", c, m, ClassLocks(c, m))
    /\ UNCHANGED <<enabled, site, staff, class, lesson>>

SaveClass(q) ==
    /\ Doing(q, "class")
    /\ LET c == clerk[q].of  m == clerk[q].plan
       IN class' = [class EXCEPT ![c] =
              [course |-> m.course, level |-> m.level, branch |-> m.branch, room |-> m.room,
               teacher |-> m.teacher, until |-> Nothing]]
    /\ Commit(q)
    /\ UNCHANGED <<enabled, site, staff, lesson>>

LessonsOf(c) == {l \in SessionIds : lesson[l] # Nothing /\ lesson[l].class = c}

LaterLessons(c, d) == {l \in LessonsOf(c) : lesson[l].day > d}

\* `before` keeps, for the properties, the lessons that did not lie later.
BeginComplete(q, c, d) ==
    /\ class[c] # Nothing /\ class[c].until = Nothing
    /\ LaterLessons(c, d) = {}
    /\ Start(q, "complete", c, [day |-> d, before |-> LessonsOf(c) \ LaterLessons(c, d)], Exclusive({c}))
    /\ UNCHANGED <<enabled, site, staff, class, lesson>>

Complete(q) ==
    /\ Doing(q, "complete")
    /\ class' = [class EXCEPT ![clerk[q].of].until = clerk[q].plan.day]
    /\ Commit(q)
    /\ UNCHANGED <<enabled, site, staff, lesson>>

-----------------------------------------------------------------------------
(* Lessons: SchedulesService.generate reads its class without a lock *)

\* lockTenantSchedules: only generate is in steps under it.
SchedulesFree == \A p \in Clerks : ~Doing(p, "generate")

BeginGenerate(q, c, d) ==
    /\ class[c] # Nothing /\ class[c].until = Nothing
    /\ SchedulesFree
    /\ Start(q, "generate", c, d, {})
    /\ UNCHANGED <<enabled, site, staff, class, lesson>>

\* Mutation: sessions do not refer to their class in the database.
NoForeignKey(c) == {}

\* The foreign key locks the class's row FOR KEY SHARE.
KeyShare(c) == Shared({c})

\* The inserted rows are seen by others when the command commits.
InsertLesson(q) ==
    /\ Doing(q, "generate")
    /\ Grantable(q, KeyShare(clerk[q].of))
    /\ \E l \in SessionIds :
          /\ lesson[l] = Nothing
          /\ lesson' = [lesson EXCEPT ![l] = [class |-> clerk[q].of, day |-> clerk[q].plan]]
    /\ Commit(q)
    /\ UNCHANGED <<enabled, site, staff, class>>

\* The three commands on a lesson do not look at its class.  One that is COMPLETED is
\* left alone by them; that is abstracted, as any may still be SCHEDULED.
CancelLesson(l) ==
    /\ SchedulesFree
    /\ lesson[l] # Nothing
    /\ lesson' = [lesson EXCEPT ![l] = Nothing]
    /\ UNCHANGED <<enabled, site, staff, class, clerk>>

\* updateSession: no row of the class is locked, its foreign key does not change.
MoveLesson(l, d) ==
    /\ SchedulesFree
    /\ lesson[l] # Nothing
    /\ lesson' = [lesson EXCEPT ![l].day = d]
    /\ UNCHANGED <<enabled, site, staff, class, clerk>>

\* rescheduleSession: a lesson of its own takes the place of the first, and its foreign
\* key locks the class.
RescheduleLesson(q, l, m, d) ==
    /\ clerk[q] = Nothing /\ SchedulesFree
    /\ lesson[l] # Nothing /\ lesson[m] = Nothing
    /\ Grantable(q, KeyShare(lesson[l].class))
    /\ lesson' = [lesson EXCEPT ![l] = Nothing, ![m] = [class |-> lesson[l].class, day |-> d]]
    /\ UNCHANGED <<enabled, site, staff, class, clerk>>

-----------------------------------------------------------------------------

RecordStep(q) ==
    \/ \E b \in Branches : UpdateBranch(q, b)
    \/ \E c \in Courses : UpdateCourse(q, c)
    \/ \E l \in Levels : UpdateLevel(q, l)
    \/ \E t \in Teachers : UpdateTeacher(q, t) \/ \E bs \in SUBSET Branches : ReplaceBranches(q, t, bs)
    \/ \E r \in Rooms : UpdateRoom(q, r) \/ \E b \in Branches : CreateRoom(q, r, b) \/ BeginMove(q, r, b)
    \/ Move(q)

ClassStep(q) ==
    \/ \E c \in Classes, m \in Composition : BeginClass(q, c, m)
    \/ SaveClass(q)
    \/ \E c \in Classes, d \in SchoolDays : BeginComplete(q, c, d) \/ BeginGenerate(q, c, d)
    \/ Complete(q)
    \/ InsertLesson(q)
    \/ Rollback(q)

AcademyNext ==
    \/ \E q \in Clerks : RecordStep(q) \/ ClassStep(q)
    \/ \E l \in SessionIds : CancelLesson(l) \/ \E d \in SchoolDays : MoveLesson(l, d)
    \/ \E q \in Clerks, l, m \in SessionIds, d \in SchoolDays : RescheduleLesson(q, l, m, d)

AcademySpec == AcademyInit /\ [][AcademyNext]_academyVars

-----------------------------------------------------------------------------
(* Properties *)

\* What the tables and connections may hold, and that a row locked to be written is
\* locked by nobody else.
AcademyTypeOK ==
    /\ enabled \in [Rows -> BOOLEAN]
    /\ site \in [Rooms -> Branches \cup {Nothing}]
    /\ staff \in [Teachers -> SUBSET Branches]
    /\ \A c \in Classes : class[c] # Nothing => [f \in DOMAIN class[c] \ {"until"} |-> class[c][f]] \in Composition
    /\ lesson \in [SessionIds -> [class : Classes, day : SchoolDays] \cup {Nothing}]
    /\ \A p, q \in Clerks : \A x \in Locks(p), y \in Locks(q) :
          p # q /\ x[1] = y[1] => x[2] = "S" /\ y[2] = "S"

\* A class's room is a room of the class's branch, though rooms move while classes are
\* edited: moving a room asks for the classes that refer to it, under a lock their
\* commands wait for.
ClassRoomInBranch ==
    \A c \in Classes : class[c] # Nothing /\ class[c].room # Nothing =>
        site[class[c].room] = class[c].branch

\* A class never takes on what is disabled, nor a teacher who does not work in its
\* branch, at the moment it is saved and not only when it was checked.
ClassTakesOnEnabled ==
    [][\A c \in Classes : class'[c] # Nothing /\ class'[c] # class[c] /\ class'[c].until = Nothing =>
          LET kept == IF class[c] = Nothing THEN {} ELSE Uses(class[c])
          IN /\ \A r \in Uses(class'[c]) \ kept : enabled[r]
             /\ class'[c].teacher # Nothing /\ class'[c].branch # Nothing =>
                    class'[c].branch \in staff[class'[c].teacher]]_academyVars

\* A class is completed only when no lesson of it lies later, even one that was being
\* generated or rescheduled while the completion looked; but one that did not, and was
\* moved to a later day (schedules.service.ts:845) between its look
\* (classes.service.ts:92) and its UPDATE, is missed.
CompletedWithoutLater ==
    [][\A c \in Classes : class[c] # Nothing /\ class[c].until = Nothing /\ class'[c].until # Nothing =>
          \E q \in Clerks :
              /\ Doing(q, "complete") /\ clerk[q].of = c
              /\ LaterLessons(c, class'[c].until) \subseteq clerk[q].plan.before]_academyVars

\* Classes and the records they refer to, in one.
AcademySafe == [](AcademyTypeOK /\ ClassRoomInBranch) /\ ClassTakesOnEnabled /\ CompletedWithoutLater

=============================================================================
