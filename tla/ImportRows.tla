----------------------------- MODULE ImportRows -----------------------------
(***************************************************************************)
(* ImportRowValidator.validateRow against the services a confirmed row is  *)
(* written with.  The two are separate code: the validator looks records   *)
(* up by the codes in the file, in maps it loads for the whole batch; the  *)
(* services (classes, courses, teachers) check records by id, as for a     *)
(* form filled in by hand.  The directory they read is edited meanwhile.   *)
(*                                                                         *)
(* Courses, branches, teachers and classes are named by their code, unique *)
(* in the tenant; levels and rooms have a code unique in their course or   *)
(* branch only.  Scalar fields, capacity and enrollments (Imports) are     *)
(* left out.                                                               *)
(***************************************************************************)
EXTENDS Naturals, FiniteSets

CONSTANTS
    CourseCodes, BranchCodes, TeacherCodes, ClassCodes, LevelCodes, RoomCodes,
    LevelIds, RoomIds,
    Empty           \* an empty cell; a record not there

\* Codes are strings of bounded length; an empty cell is no code, no id and no row.
ASSUME DirectoryAssumption ==
    /\ IsFiniteSet(BranchCodes)
    /\ Empty \notin BranchCodes \cup TeacherCodes \cup LevelCodes \cup RoomCodes
    /\ Empty \notin LevelIds \cup RoomIds \cup {"ACTIVE", "DISABLED"}
    /\ Empty \notin [course : CourseCodes, code : LevelCodes, status : {"ACTIVE", "DISABLED"}]
    /\ Empty \notin [branch : BranchCodes, code : RoomCodes, status : {"ACTIVE", "DISABLED"}]

VARIABLES
    status,         \* of courses, branches, teachers and classes by code; Empty if there is none
    level,          \* level: [course, code, status], or Empty
    room,           \* room: [branch, code, status], or Empty
    assigned        \* teacher_branches

directoryVars == <<status, level, room, assigned>>

Statuses == {"ACTIVE", "DISABLED"}
Named == CourseCodes \cup BranchCodes \cup TeacherCodes \cup ClassCodes

\* The rows of a file, by type: identity, required and optional cells.
CourseRows == [code : CourseCodes]
TeacherRows == [code : TeacherCodes, branches : SUBSET BranchCodes, twice : BOOLEAN]
LevelRows == [course : CourseCodes, code : LevelCodes]
ClassRows ==
    [code : ClassCodes, course : CourseCodes, level : LevelCodes \cup {Empty}, branch : BranchCodes \cup {Empty},
     room : RoomCodes \cup {Empty}, teacher : TeacherCodes \cup {Empty}, inOrder : BOOLEAN]

DirectoryInit ==
    /\ status = [x \in Named |-> Empty]
    /\ level = [l \in LevelIds |-> Empty]
    /\ room = [m \in RoomIds |-> Empty]
    /\ assigned = {}

----------------------------------------------------------------------------
(* The validator: codes looked up in what load read *)

Exists(code) == status[code] # Empty
Enabled(code) == status[code] = "ACTIVE"

\* Mutations: the maps keyed by the code alone.
LevelByCode(course, code) == {l \in LevelIds : level[l] # Empty /\ level[l].code = code}
RoomByCode(branch, code) == {m \in RoomIds : room[m] # Empty /\ room[m].code = code}

\* The level of that code in that course; the room under BRANCH|ROOM.
LevelFound(course, code) == {l \in LevelIds : level[l] # Empty /\ level[l].code = code /\ level[l].course = course}
RoomFound(branch, code) == {m \in RoomIds : room[m] # Empty /\ room[m].code = code /\ room[m].branch = branch}

CourseJudged(r) == ~Exists(r.code)

TeacherJudged(r) ==
    /\ ~Exists(r.code)
    /\ ~r.twice
    /\ \A b \in r.branches : Exists(b)

LevelJudged(r) == Exists(r.course) /\ LevelFound(r.course, r.code) = {}

\* Mutation: the teacher's branches are not looked at.
TeacherFits(r) == r.teacher # Empty => Enabled(r.teacher)

TeacherWorksThere(r) ==
    r.teacher # Empty => Enabled(r.teacher) /\ (r.branch # Empty => <<r.teacher, r.branch>> \in assigned)

ClassJudged(r) ==
    /\ Enabled(r.course)
    /\ r.branch # Empty => Enabled(r.branch)
    /\ r.level # Empty => \E l \in LevelFound(r.course, r.level) : level[l].status = "ACTIVE"
    /\ r.room # Empty => r.branch # Empty /\ \E m \in RoomFound(r.branch, r.room) : room[m].status = "ACTIVE"
    /\ TeacherWorksThere(r)
    /\ ~Exists(r.code)
    /\ r.inOrder

\* The ids a row judged valid is written with.
Resolved(r) ==
    [row |-> r,
     level |-> IF r.level = Empty THEN Empty ELSE CHOOSE l \in LevelFound(r.course, r.level) : TRUE,
     room |-> IF r.room = Empty THEN Empty ELSE CHOOSE m \in RoomFound(r.branch, r.room) : TRUE]

----------------------------------------------------------------------------
(* The services: records by id *)

\* ensureCourse, and the unique key of a level in its course.
LevelWritten(r) ==
    /\ Exists(r.course)
    /\ \A l \in LevelIds : level[l] # Empty => <<level[l].course, level[l].code>> # <<r.course, r.code>>

\* createInTransaction, then replaceBranchesInTransaction: as many rows as ids.
TeacherWritten(r) ==
    /\ ~Exists(r.code)
    /\ ~r.twice /\ Cardinality({b \in r.branches : Exists(b)}) = Cardinality(r.branches)

CourseWritten(r) == ~Exists(r.code)

\* validateRelationships and the insert.
ClassWritten(f) ==
    /\ Exists(f.row.course) /\ status[f.row.course] # "DISABLED"
    /\ f.row.branch # Empty => Exists(f.row.branch) /\ status[f.row.branch] # "DISABLED"
    /\ f.level # Empty =>
         /\ level[f.level] # Empty
         /\ level[f.level].course = f.row.course
         /\ level[f.level].status # "DISABLED"
    /\ f.room # Empty =>
         /\ room[f.room] # Empty
         /\ room[f.room].branch = f.row.branch
         /\ room[f.room].status # "DISABLED"
    /\ f.row.teacher # Empty =>
         /\ Exists(f.row.teacher) /\ status[f.row.teacher] # "DISABLED"
         /\ f.row.branch # Empty => <<f.row.teacher, f.row.branch>> \in assigned
    /\ f.row.inOrder
    /\ ~Exists(f.row.code)

\* The forms that name what the row names.
FormsNaming(r) ==
    [row : {r},
     level : IF r.level = Empty THEN {Empty} ELSE {l \in LevelIds : level[l] # Empty /\ level[l].code = r.level},
     room : IF r.room = Empty THEN {Empty} ELSE {m \in RoomIds : room[m] # Empty /\ room[m].code = r.room}]

----------------------------------------------------------------------------
(* Edits of the directory *)

\* create of courses, branches, teachers and classes; their update of the status.
SaveRecord(x, s) ==
    /\ x \in ClassCodes /\ ~Exists(x) => \E c \in CourseCodes : Enabled(c)
    /\ status' = [status EXCEPT ![x] = s]
    /\ UNCHANGED <<level, room, assigned>>

CreateLevel(l, course, code) ==
    /\ level[l] = Empty
    /\ LevelWritten([course |-> course, code |-> code])
    /\ level' = [level EXCEPT ![l] = [course |-> course, code |-> code, status |-> "ACTIVE"]]
    /\ UNCHANGED <<status, room, assigned>>

EditLevel(l, s) ==
    /\ level[l] # Empty
    /\ level' = [level EXCEPT ![l].status = s]
    /\ UNCHANGED <<status, room, assigned>>

\* Mutation: no unique key of branch and code.
AnyPlace(m, branch, code) == TRUE

PlaceFree(m, branch, code) ==
    \A other \in RoomIds \ {m} : room[other] # Empty => <<room[other].branch, room[other].code>> # <<branch, code>>

\* A room is created in an existing branch, moved, enabled and disabled.
SaveRoom(m, branch, code, s) ==
    /\ room[m] = Empty \/ room[m].branch # branch => Enabled(branch)
    /\ PlaceFree(m, branch, code)
    /\ room' = [room EXCEPT ![m] = [branch |-> branch, code |-> code, status |-> s]]
    /\ UNCHANGED <<status, level, assigned>>

AssignBranches(t, branches) ==
    /\ Exists(t) /\ \A b \in branches : Exists(b)
    /\ assigned' = {p \in assigned : p[1] # t} \cup ({t} \X branches)
    /\ UNCHANGED <<status, level, room>>

DirectoryNext ==
    \/ \E x \in Named, s \in Statuses : SaveRecord(x, s)
    \/ \E l \in LevelIds, course \in CourseCodes, code \in LevelCodes : CreateLevel(l, course, code)
    \/ \E l \in LevelIds, s \in Statuses : EditLevel(l, s)
    \/ \E m \in RoomIds, branch \in BranchCodes, code \in RoomCodes, s \in Statuses : SaveRoom(m, branch, code, s)
    \/ \E t \in TeacherCodes, branches \in SUBSET BranchCodes : AssignBranches(t, branches)

DirectorySpec == DirectoryInit /\ [][DirectoryNext]_directoryVars

----------------------------------------------------------------------------
DirectoryTypeOK ==
    /\ status \in [Named -> Statuses \cup {Empty}]
    /\ level \in [LevelIds -> [course : CourseCodes, code : LevelCodes, status : Statuses] \cup {Empty}]
    /\ room \in [RoomIds -> [branch : BranchCodes, code : RoomCodes, status : Statuses] \cup {Empty}]
    /\ assigned \subseteq TeacherCodes \X BranchCodes
    /\ \A l, n \in LevelIds :
         l # n /\ level[l] # Empty /\ level[n] # Empty => <<level[l].course, level[l].code>> # <<level[n].course, level[n].code>>
    /\ \A m, n \in RoomIds :
         m # n /\ room[m] # Empty /\ room[n] # Empty => <<room[m].branch, room[m].code>> # <<room[n].branch, room[n].code>>

\* The validator mirrors the manual create flows (import-validation.ts:64): whatever
\* the directory holds, a class row is judged valid exactly when some form naming the
\* same records would be accepted, and what it resolves to is then one of those.
ClassesJudgedAsWritten ==
    \A r \in ClassRows :
      /\ ClassJudged(r) <=> \E f \in FormsNaming(r) : ClassWritten(f)
      /\ ClassJudged(r) => ClassWritten(Resolved(r))

\* The same for the rows of courses, their levels, and teachers with their branches.
RowsJudgedAsWritten ==
    /\ \A r \in CourseRows : CourseJudged(r) <=> CourseWritten(r)
    /\ \A r \in LevelRows : LevelJudged(r) <=> LevelWritten(r)
    /\ \A r \in TeacherRows : TeacherJudged(r) <=> TeacherWritten(r)


\* The directory, and what imports and forms say of it, in one.
DirectorySafe == DirectoryTypeOK /\ ClassesJudgedAsWritten /\ RowsJudgedAsWritten

=============================================================================
