--------------------------- MODULE MCEnrollments ---------------------------
(***************************************************************************)
(* Instances of Enrollments, the transactions, and EnrollmentHistory, what *)
(* is reported of them.  A behaviour is one of the component that `part`   *)
(* names, so that one run checks both.                                     *)
(***************************************************************************)
EXTENDS Enrollments, EnrollmentHistory, TLC

CONSTANTS Parts, A  \* A: the class students enrol in; the others are reached by moving

VARIABLE part

enrollmentVars == <<vars, registerVars, part>>

\* A part that does not run has one initial state.
EnrollmentsInit ==
    /\ part \in Parts /\ Init /\ RegisterInit
    /\ part = "register" =>
        /\ students = [s \in Students |-> "ACTIVE"]
        /\ classes = [c \in Classes |-> CHOOSE set \in Settings : TRUE]

\* The register of so many writers and stays comes to its end; transactions are never stuck.
RegisterRests == part = "register" /\ UNCHANGED enrollmentVars

EnrollmentsNext ==
    \/ part = "transactions" /\ Next /\ UNCHANGED <<registerVars, part>>
    \/ part = "register" /\ RegisterNext /\ UNCHANGED <<vars, part>>
    \/ RegisterRests

EnrollmentsSpec == EnrollmentsInit /\ [][EnrollmentsNext]_enrollmentVars

\* The commands that take, keep or free a place.
SeatRequests ==
    {q \in Command :
        CASE q.op = "create" -> q.class = A /\ q.status = "PENDING"
          [] q.op = "transition" -> q.status \in {"ACTIVE", "WITHDRAWN"}
          [] q.op = "transfer" -> TRUE
          [] q.op = "reenroll" -> q.status = "ACTIVE"}

\* A class stops being active by being completed; its limit is lifted and set.
OpenSettings == {set \in Class : set.status = "ACTIVE"}

\* The register names its groups, stays and writers as the transactions their
\* students, rows and connections: the same permutations serve both.
Symmetry == Permutations(Students) \cup Permutations(Rows) \cup Permutations(Connections)
=============================================================================
