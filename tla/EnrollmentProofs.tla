-------------------------- MODULE EnrollmentProofs --------------------------
(***************************************************************************)
(* Proofs about Enrollments, for any students, classes, capacities, rows,  *)
(* connections and requests; about ImportRows, for any directory; and      *)
(* about EnrollmentHistory, for any register and any reported period.      *)
(***************************************************************************)
EXTENDS Enrollments, EnrollmentHistory, ImportRows, Sums, FiniteSetTheorems, TLAPS

(* The inductive invariant, in parts. *)

Types ==
    /\ enrollments \in [Rows -> Enrollment \cup {Absent}]
    /\ classes \in [Classes -> Class]
    /\ students \in [Students -> {"ACTIVE", "DISABLED"}]
    /\ request \in [Connections -> Requests \cup {NoRequest}]
    /\ step \in [Connections -> {"idle", "validate", "seat", "write"}]

\* A locked row has one holder.
OneHolder ==
    \A j, k \in Connections, r \in Rows : LocksRow(j, r) /\ LocksRow(k, r) => j = k

\* A class held FOR UPDATE is held by nobody else, in any mode.
OneOwner ==
    \A j, k \in Connections, c \in Classes :
        OwnsClass(j, c) /\ (OwnsClass(k, c) \/ SharesClass(k, c)) => j = k

\* What a command has checked under its locks still holds.
Relies(k) ==
    /\ request[k] \in Requests
    /\ HasSource(request[k]) => request[k].row \in Written /\ MayStartFrom(request[k])
    /\ step[k] = "validate" => HasSource(request[k]) /\ Inserts(request[k])
    /\ step[k] = "seat" => NeedsSeat(request[k])
    /\ (step[k] # "validate" /\ Inserts(request[k]) /\ MustBeActive(request[k])) =>
           students[StudentOf(request[k])] = "ACTIVE" /\ classes[ClassOf(request[k])].status = "ACTIVE"
    /\ (step[k] = "write" /\ NeedsSeat(request[k])) =>
           Fits(ClassOf(request[k]), Cardinality(Taken(request[k])))

Reliance == \A k \in Connections : step[k] # "idle" => Relies(k)

IInv ==
    /\ Types
    /\ OneHolder
    /\ OneOwner
    /\ Reliance
    /\ OneOperational
    /\ SourcesClosed

-----------------------------------------------------------------------------
(* Data *)

LEMMA CommandFields ==
    ASSUME NEW q \in Requests
    PROVE  /\ q.op \in {"create", "transition", "transfer", "reenroll"}
           /\ q.op # "create" => q.row \in Rows
           /\ q.op \in {"create", "reenroll"} => q.student \in Students /\ q.status \in InitialStatus
           /\ q.op # "transition" => q.class \in Classes
           /\ q.op = "transition" => q.status \in (Consuming \cup Terminal) \ {"PENDING"}
<1>1. q \in Command
  BY EnrollmentsAssumption
<1> QED  BY <1>1 DEF Command

LEMMA WrittenRows ==
    ASSUME Types, NEW r \in Written
    PROVE  /\ r \in Rows /\ enrollments[r] # Absent /\ enrollments[r] \in Enrollment
           /\ enrollments[r].student \in Students
           /\ enrollments[r].class \in Classes
           /\ enrollments[r].status \in Consuming \cup Terminal
           /\ enrollments[r].source \in Rows \cup {NoSource}
BY DEF Types, Written, Enrollment

LEMMA KindsApart == Consuming \cap Terminal = {}
BY DEF Consuming, Terminal

\* A command whose source is written names a student and a class.
LEMMA CommandTyped ==
    ASSUME Types, NEW q \in Requests, HasSource(q) => q.row \in Written
    PROVE  /\ StudentOf(q) \in Students
           /\ ClassOf(q) \in Classes
           /\ Inserts(q) => Target(q) \in Consuming \cup Terminal
<1>1. HasSource(q) => Source(q).student \in Students /\ Source(q).class \in Classes
                        /\ Source(q).status \in Consuming \cup Terminal
  BY WrittenRows DEF Source
<1> QED  BY <1>1, CommandFields DEF StudentOf, ClassOf, Target, Inserts, HasSource, InitialStatus, Consuming

\* An inserting command asks for a status that takes a place.
LEMMA InsertsConsuming ==
    ASSUME Types, NEW q \in Requests, Inserts(q), HasSource(q) => MayStartFrom(q)
    PROVE  Target(q) \in Consuming
BY CommandFields DEF Target, Inserts, HasSource, MayStartFrom, InitialStatus, Consuming

\* A transition starts from an enrollment that takes a place.
LEMMA TransitionFrom ==
    ASSUME NEW q \in Requests, ~Inserts(q), MayStartFrom(q)
    PROVE  Source(q).status \in Consuming
BY DEF MayStartFrom, Inserts, Allowed, Consuming

LEMMA SeatsFinite ==
    ASSUME NEW c
    PROVE  Seats(c) \subseteq Rows /\ IsFiniteSet(Seats(c))
           /\ \A S \in SUBSET Seats(c) : IsFiniteSet(S) /\ Cardinality(S) \in Nat
<1>1. Seats(c) \subseteq Rows
  BY DEF Seats, Written
<1>2. \A S \in SUBSET Seats(c) : IsFiniteSet(S) /\ Cardinality(S) \in Nat
  BY <1>1, FS_Subset, FS_CardinalityType, EnrollmentsAssumption
<1> QED  BY <1>1, <1>2

\* A limit that n places respect, fewer places respect too.
LEMMA FitsFewer ==
    ASSUME Types, NEW c \in Classes, NEW m \in Nat, NEW n \in Nat, m <= n, Fits(c, n)
    PROVE  Fits(c, m)
<1>1. classes[c].capacity # Unlimited => classes[c].capacity \in Nat
  BY EnrollmentsAssumption DEF Types, Class
<1> QED  BY <1>1 DEF Fits

-----------------------------------------------------------------------------
(* What a step leaves to the commands it does not serve *)

\* k goes on with the same command, from the same enrollment.
Continues(k) ==
    /\ step'[k] = step[k] /\ request'[k] = request[k]
    /\ (step[k] # "idle" /\ HasSource(request[k])) =>
           enrollments'[request[k].row] = enrollments[request[k].row]

LEMMA SameCommand ==
    ASSUME Types, NEW k \in Connections, Continues(k), step[k] # "idle", Relies(k)
    PROVE  /\ HasSource(request[k])' = HasSource(request[k])
           /\ Inserts(request[k])' = Inserts(request[k])
           /\ NeedsSeat(request[k])' = NeedsSeat(request[k])
           /\ MustBeActive(request[k])' = MustBeActive(request[k])
           /\ MayStartFrom(request[k])' = MayStartFrom(request[k])
           /\ StudentOf(request[k])' = StudentOf(request[k])
           /\ ClassOf(request[k])' = ClassOf(request[k])
           /\ HasSource(request[k]) => request'[k].row \in Written'
<1>1. request[k].op # "create" => Source(request[k])' = Source(request[k])
  BY DEF Continues, Source, HasSource
<1>2. request[k].op \in {"create", "transition", "transfer", "reenroll"}
  BY CommandFields DEF Relies
<1> USE <1>1, <1>2 DEF Continues, HasSource
<1>3. HasSource(request[k])' = HasSource(request[k]) /\ Inserts(request[k])' = Inserts(request[k])
      /\ NeedsSeat(request[k])' = NeedsSeat(request[k])
  BY DEF Inserts, NeedsSeat
<1>4. MustBeActive(request[k])' = MustBeActive(request[k])
  BY DEF MustBeActive
<1>5. MayStartFrom(request[k])' = MayStartFrom(request[k])
  BY DEF MayStartFrom
<1>6. StudentOf(request[k])' = StudentOf(request[k]) /\ ClassOf(request[k])' = ClassOf(request[k])
  BY DEF StudentOf, ClassOf
<1>7. HasSource(request[k]) => request'[k].row \in Written'
  BY DEF Relies, Written
<1> QED  BY <1>3, <1>4, <1>5, <1>6, <1>7

LEMMA SameLocks ==
    ASSUME Types, NEW k \in Connections, Continues(k), step[k] # "idle" => Relies(k)
    PROVE  /\ \A r \in Rows : LocksRow(k, r)' = LocksRow(k, r)
           /\ \A c \in Classes : OwnsClass(k, c)' = OwnsClass(k, c)
           /\ \A c \in Classes : SharesClass(k, c)' = SharesClass(k, c)
<1>1. CASE step[k] = "idle"
  BY <1>1 DEF Continues, LocksRow, OwnsClass, SharesClass
<1>2. CASE step[k] # "idle"
  BY <1>2, SameCommand DEF Continues, LocksRow, OwnsClass, SharesClass
<1> QED  BY <1>1, <1>2

\* What must stay true of the student and the class for k to rely on it.
Undisturbed(k) ==
    /\ (step[k] \in {"seat", "write"} /\ Inserts(request[k])) =>
           /\ students'[StudentOf(request[k])] = students[StudentOf(request[k])]
           /\ classes'[ClassOf(request[k])] = classes[ClassOf(request[k])]
    /\ (step[k] = "write" /\ NeedsSeat(request[k])) =>
           /\ classes'[ClassOf(request[k])] = classes[ClassOf(request[k])]
           /\ Seats(ClassOf(request[k]))' \subseteq Seats(ClassOf(request[k]))

LEMMA ReliesKept ==
    ASSUME Types, NEW k \in Connections, Continues(k), step[k] # "idle", Relies(k), Undisturbed(k)
    PROVE  Relies(k)'
<1> DEFINE q == request[k]
           c == ClassOf(q)
<1>1. /\ c' = c /\ request'[k] = request[k] /\ step'[k] = step[k]
      /\ HasSource(q)' = HasSource(q) /\ Inserts(q)' = Inserts(q) /\ NeedsSeat(q)' = NeedsSeat(q)
      /\ MustBeActive(q)' = MustBeActive(q) /\ MayStartFrom(q)' = MayStartFrom(q)
      /\ StudentOf(q)' = StudentOf(q)
      /\ HasSource(q) => request'[k].row \in Written'
  BY SameCommand DEF Continues
<1>2. q \in Requests /\ c \in Classes
  BY CommandTyped DEF Relies
<1>3. step[k] \in {"validate", "seat", "write"}
  BY DEF Types
<1>4. (step[k] # "validate" /\ Inserts(q) /\ MustBeActive(q)) =>
          students'[StudentOf(q)] = "ACTIVE" /\ classes'[c].status = "ACTIVE"
  BY <1>3 DEF Relies, Undisturbed
<1>5. ASSUME step[k] = "write", NeedsSeat(q)
      PROVE  Fits(c, Cardinality(Taken(q)))'
  <2>1. Seats(c)' \subseteq Seats(c) /\ classes'[c] = classes[c]
    BY <1>5 DEF Undisturbed
  <2>2. Taken(q) \subseteq Seats(c)
    BY DEF Taken
  <2>3. Taken(q)' \subseteq Taken(q)
    BY <1>1, <2>1 DEF Taken
  <2>4. IsFiniteSet(Taken(q)) /\ Cardinality(Taken(q)) \in Nat
    BY <2>2, SeatsFinite
  <2>5. Cardinality(Taken(q)') \in Nat /\ Cardinality(Taken(q)') <= Cardinality(Taken(q))
    BY <2>3, <2>4, FS_Subset, FS_CardinalityType
  <2>6. Fits(c, Cardinality(Taken(q)))
    BY <1>5 DEF Relies
  <2>7. Fits(c, Cardinality(Taken(q)'))
    BY <2>4, <2>5, <2>6, <1>2, FitsFewer
  <2> QED  BY <2>7, <2>1, <1>1 DEF Fits
<1>6. Relies(k)' = /\ request'[k] \in Requests
                   /\ HasSource(q)' => request'[k].row \in Written' /\ MayStartFrom(q)'
                   /\ step'[k] = "validate" => HasSource(q)' /\ Inserts(q)'
                   /\ step'[k] = "seat" => NeedsSeat(q)'
                   /\ (step'[k] # "validate" /\ Inserts(q)' /\ MustBeActive(q)') =>
                         students'[StudentOf(q)'] = "ACTIVE" /\ classes'[c'].status = "ACTIVE"
                   /\ (step'[k] = "write" /\ NeedsSeat(q)') => Fits(c, Cardinality(Taken(q)))'
  BY DEF Relies
<1> HIDE DEF q, c
<1>7. q \in Requests => request[k] \in Requests
  BY DEF q
<1> QED  BY <1>1, <1>2, <1>4, <1>5, <1>6, <1>7 DEF Relies, q

\* The connections of S are not served and lose nothing they rely on.
Others(S) == \A k \in S : Continues(k) /\ (step[k] # "idle" => Undisturbed(k))

LEMMA OthersFramed ==
    ASSUME Types, Reliance, NEW S \in SUBSET Connections, Others(S)
    PROVE  /\ \A k \in S : step'[k] # "idle" => Relies(k)'
           /\ \A k \in S, r \in Rows : LocksRow(k, r)' = LocksRow(k, r)
           /\ \A k \in S, c \in Classes :
                  OwnsClass(k, c)' = OwnsClass(k, c) /\ SharesClass(k, c)' = SharesClass(k, c)
<1>1. \A k \in S : k \in Connections /\ Continues(k) /\ (step[k] # "idle" => Relies(k) /\ Undisturbed(k))
  BY DEF Others, Reliance
<1>2. \A k \in S : step'[k] # "idle" => Relies(k)'
  BY <1>1, ReliesKept DEF Continues
<1> QED  BY <1>1, <1>2, SameLocks

\* A step that serves j keeps the locks exclusive if the new ones were free.
LEMMA ExclusionKept ==
    ASSUME Types, Reliance, OneHolder, OneOwner,
           NEW j \in Connections, Others(Connections \ {j}),
           \A r \in Rows : LocksRow(j, r)' => \/ LocksRow(j, r)
                                             \/ \A k \in Connections : ~LocksRow(k, r),
           \A c \in Classes : OwnsClass(j, c)' => \/ OwnsClass(j, c)
                                                 \/ ClassFree(c, Connections \ {j}),
           \A c \in Classes : SharesClass(j, c)' => \/ SharesClass(j, c)
                                                   \/ \A k \in Connections : ~OwnsClass(k, c)
    PROVE  OneHolder' /\ OneOwner'
<1> DEFINE T == Connections \ {j}
<1>1. /\ \A k \in T, r \in Rows : LocksRow(k, r)' = LocksRow(k, r)
      /\ \A k \in T, c \in Classes :
             OwnsClass(k, c)' = OwnsClass(k, c) /\ SharesClass(k, c)' = SharesClass(k, c)
  BY OthersFramed
<1>2. ASSUME NEW h \in Connections, NEW k \in Connections, NEW r \in Rows,
             LocksRow(h, r)', LocksRow(k, r)', h # k
      PROVE  FALSE
  <2>1. CASE h = j
    BY <1>1, <1>2, <2>1 DEF OneHolder
  <2>2. CASE k = j
    BY <1>1, <1>2, <2>2 DEF OneHolder
  <2>3. CASE h # j /\ k # j
    BY <1>1, <1>2, <2>3 DEF OneHolder
  <2> QED  BY <2>1, <2>2, <2>3
<1>3. ASSUME NEW h \in Connections, NEW k \in Connections, NEW c \in Classes,
             OwnsClass(h, c)', OwnsClass(k, c)' \/ SharesClass(k, c)', h # k
      PROVE  FALSE
  <2>1. CASE h = j
    BY <1>1, <1>3, <2>1 DEF OneOwner, ClassFree
  <2>2. CASE k = j
    <3>1. OwnsClass(h, c)
      BY <1>1, <1>3, <2>2
    <3>2. OwnsClass(k, c) \/ SharesClass(k, c) \/ ClassFree(c, Connections \ {j}) \/ ~OwnsClass(h, c)
      BY <1>3, <2>2
    <3> QED  BY <3>1, <3>2, <1>3, <2>2 DEF OneOwner, ClassFree
  <2>3. CASE h # j /\ k # j
    BY <1>1, <1>3, <2>3 DEF OneOwner
  <2> QED  BY <2>1, <2>2, <2>3
<1>4. OneHolder'
  BY <1>2 DEF OneHolder
<1>5. OneOwner'
  BY <1>3 DEF OneOwner
<1> QED  BY <1>4, <1>5

\* The rows do not change, so nobody's sources and places do.
LEMMA RowsUnchanged ==
    ASSUME UNCHANGED enrollments
    PROVE  Written' = Written /\ (OneOperational => OneOperational') /\ (SourcesClosed => SourcesClosed')
           /\ \A c : Seats(c)' = Seats(c)
BY DEF Written, OneOperational, SourcesClosed, Seats

-----------------------------------------------------------------------------
(* Commands that read *)

LEMMA QuietOthers ==
    ASSUME UNCHANGED <<enrollments, classes, students>>, NEW j \in Connections,
           \A k \in Connections \ {j} : step'[k] = step[k] /\ request'[k] = request[k]
    PROVE  Others(Connections \ {j})
<1> SUFFICES ASSUME NEW k \in Connections \ {j} PROVE Continues(k) /\ Undisturbed(k)
  BY DEF Others
<1>1. Continues(k)
  BY DEF Continues
<1>2. ClassOf(request[k])' = ClassOf(request[k])
  BY DEF ClassOf, Source
<1>3. Seats(ClassOf(request[k]))' = Seats(ClassOf(request[k]))
  BY <1>2 DEF Seats, Written
<1> QED  BY <1>1, <1>3 DEF Undisturbed

LEMMA StartStep ==
    ASSUME IInv, NEW j \in Connections, NEW q \in Requests, StartCreate(j, q) \/ StartFromSource(j, q)
    PROVE  IInv'
<1> USE DEF IInv
<1>1. /\ step[j] = "idle" /\ request'[j] = q /\ step'[j] \in {"validate", "seat", "write"}
      /\ UNCHANGED <<enrollments, classes, students>>
      /\ request' \in [Connections -> Requests \cup {NoRequest}]
      /\ step' \in [Connections -> {"idle", "validate", "seat", "write"}]
      /\ \A k \in Connections \ {j} : step'[k] = step[k] /\ request'[k] = request[k]
  BY DEF StartCreate, StartFromSource, Start, Types
<1>2. Others(Connections \ {j})
  BY <1>1, QuietOthers
<1>3. Types' /\ OneOperational' /\ SourcesClosed' /\ Written' = Written
  BY <1>1, RowsUnchanged DEF Types
<1>4. /\ HasSource(q) => q.row \in Written /\ MayStartFrom(q) /\ \A k \in Connections : ~LocksRow(k, q.row)
      /\ step'[j] = "validate" => HasSource(q) /\ Inserts(q)
      /\ step'[j] = "seat" => NeedsSeat(q)
      /\ step'[j] = "write" => ~NeedsSeat(q)
      /\ (step'[j] # "validate" /\ Inserts(q)) => Admissible(q)
  BY <1>1 DEF StartCreate, StartFromSource, Start, Types, NeedsSeat, Inserts, HasSource
<1>5. /\ HasSource(q)' = HasSource(q) /\ Inserts(q)' = Inserts(q) /\ NeedsSeat(q)' = NeedsSeat(q)
      /\ MayStartFrom(q)' = MayStartFrom(q) /\ MustBeActive(q)' = MustBeActive(q)
      /\ StudentOf(q)' = StudentOf(q) /\ ClassOf(q)' = ClassOf(q)
  BY <1>1 DEF HasSource, Inserts, NeedsSeat, MayStartFrom, MustBeActive, StudentOf, ClassOf, Source
<1>6. Relies(j)'
  BY <1>1, <1>3, <1>4, <1>5 DEF Relies, Admissible
<1>7. Reliance'
  BY <1>2, <1>6, OthersFramed DEF Reliance
<1>8. \A r \in Rows : LocksRow(j, r)' => \A k \in Connections : ~LocksRow(k, r)
  BY <1>1, <1>4, <1>5 DEF LocksRow
<1>9. \A c \in Classes : ~OwnsClass(j, c)'
  BY <1>1, <1>4, <1>5 DEF OwnsClass
<1>10. \A c \in Classes : SharesClass(j, c)' => \A k \in Connections : ~OwnsClass(k, c)
  BY <1>1, <1>4, <1>5 DEF SharesClass, Admissible
<1>11. OneHolder' /\ OneOwner'
  BY <1>2, <1>8, <1>9, <1>10, ExclusionKept
<1> QED  BY <1>3, <1>7, <1>11

\* What Validate and LockCapacity have in common.
LEMMA GotoStep ==
    ASSUME IInv, NEW j \in Connections, step[j] # "idle", NEW s \in {"seat", "write"}, Goto(j, s)
    PROVE  /\ Types' /\ OneOperational' /\ SourcesClosed'
           /\ Others(Connections \ {j})
           /\ step'[j] = s /\ request'[j] = request[j]
           /\ Written' = Written
           /\ HasSource(request[j])' = HasSource(request[j])
           /\ Inserts(request[j])' = Inserts(request[j])
           /\ NeedsSeat(request[j])' = NeedsSeat(request[j])
           /\ MustBeActive(request[j])' = MustBeActive(request[j])
           /\ MayStartFrom(request[j])' = MayStartFrom(request[j])
           /\ StudentOf(request[j])' = StudentOf(request[j])
           /\ ClassOf(request[j])' = ClassOf(request[j])
           /\ Taken(request[j])' = Taken(request[j])
           /\ \A r \in Rows : LocksRow(j, r)' = LocksRow(j, r)
<1> USE DEF IInv
<1>1. /\ UNCHANGED <<enrollments, classes, students, request>>
      /\ step' \in [Connections -> {"idle", "validate", "seat", "write"}] /\ step'[j] = s
      /\ \A k \in Connections \ {j} : step'[k] = step[k] /\ request'[k] = request[k]
  BY DEF Goto, Types
<1>2. Others(Connections \ {j})
  BY <1>1, QuietOthers
<1>3. Types' /\ OneOperational' /\ SourcesClosed' /\ Written' = Written
  BY <1>1, RowsUnchanged DEF Types
<1>4. /\ HasSource(request[j])' = HasSource(request[j]) /\ Inserts(request[j])' = Inserts(request[j])
      /\ NeedsSeat(request[j])' = NeedsSeat(request[j])
      /\ MayStartFrom(request[j])' = MayStartFrom(request[j])
      /\ MustBeActive(request[j])' = MustBeActive(request[j])
      /\ StudentOf(request[j])' = StudentOf(request[j]) /\ ClassOf(request[j])' = ClassOf(request[j])
  BY <1>1 DEF HasSource, Inserts, NeedsSeat, MayStartFrom, MustBeActive, StudentOf, ClassOf, Source
<1>5. Taken(request[j])' = Taken(request[j])
  BY <1>1, <1>4, RowsUnchanged DEF Taken
<1>6. \A r \in Rows : LocksRow(j, r)' = LocksRow(j, r)
  BY <1>1, <1>4 DEF LocksRow
<1> QED  BY <1>1, <1>2, <1>3, <1>4, <1>5, <1>6

LEMMA ValidateStep ==
    ASSUME IInv, NEW j \in Connections, Validate(j)
    PROVE  IInv'
<1> DEFINE q == request[j]
<1>1. step[j] = "validate" /\ Goto(j, "seat") /\ Admissible(q) /\ UNCHANGED <<classes, students>>
  BY DEF Validate, Goto
<1>2. Relies(j)
  BY <1>1 DEF IInv, Reliance
<1>3. HasSource(q) /\ Inserts(q) /\ NeedsSeat(q)
  BY <1>1, <1>2 DEF Relies, NeedsSeat
<1>4. Relies(j)'
  <2>1. MustBeActive(q) => students[StudentOf(q)] = "ACTIVE" /\ classes[ClassOf(q)].status = "ACTIVE"
    BY <1>1 DEF Admissible
  <2>2. /\ step'[j] = "seat" /\ request'[j] = request[j] /\ Written' = Written
        /\ HasSource(q)' = HasSource(q) /\ Inserts(q)' = Inserts(q) /\ NeedsSeat(q)' = NeedsSeat(q)
        /\ MustBeActive(q)' = MustBeActive(q) /\ MayStartFrom(q)' = MayStartFrom(q)
        /\ StudentOf(q)' = StudentOf(q) /\ ClassOf(q)' = ClassOf(q)
    BY <1>1, GotoStep
  <2> QED  BY <1>1, <1>2, <1>3, <2>1, <2>2 DEF Relies
<1>5. Reliance'
  BY <1>1, <1>4, GotoStep, OthersFramed DEF IInv, Reliance
<1>6. \A c \in Classes : ~OwnsClass(j, c)'
  BY <1>1, GotoStep DEF OwnsClass
<1>7. \A c \in Classes : SharesClass(j, c)' => \A k \in Connections : ~OwnsClass(k, c)
  BY <1>1, GotoStep DEF SharesClass, Admissible
<1>8. \A r \in Rows : LocksRow(j, r)' => LocksRow(j, r)
  BY <1>1, GotoStep
<1>9. Others(Connections \ {j})
  BY <1>1, GotoStep
<1>10. OneHolder' /\ OneOwner'
  BY <1>6, <1>7, <1>8, <1>9, ExclusionKept DEF IInv
<1> QED  BY <1>1, <1>5, <1>10, GotoStep DEF IInv

LEMMA LockCapacityStep ==
    ASSUME IInv, NEW j \in Connections, LockCapacity(j)
    PROVE  IInv'
<1> DEFINE q == request[j]
<1>1. /\ step[j] = "seat" /\ Goto(j, "write") /\ UNCHANGED <<classes, students>>
      /\ ClassFree(ClassOf(q), Connections \ {j}) /\ Fits(ClassOf(q), Cardinality(Taken(q)))
  BY DEF LockCapacity, Goto
<1>2. Relies(j) /\ q \in Requests /\ NeedsSeat(q)
  BY <1>1 DEF IInv, Reliance, Relies
<1>3. Fits(ClassOf(q), Cardinality(Taken(q)))'
  BY <1>1, GotoStep DEF Fits
<1>4. Relies(j)'
  BY <1>1, <1>2, <1>3, GotoStep DEF Relies
<1>5. Reliance'
  BY <1>1, <1>4, GotoStep, OthersFramed DEF IInv, Reliance
<1>6. \A c \in Classes : OwnsClass(j, c)' => ClassFree(c, Connections \ {j})
  BY <1>1, GotoStep DEF OwnsClass
<1>7. \A c \in Classes : SharesClass(j, c)' => SharesClass(j, c)
  BY <1>1, GotoStep DEF SharesClass
<1>8. \A r \in Rows : LocksRow(j, r)' => LocksRow(j, r)
  BY <1>1, GotoStep
<1>9. Others(Connections \ {j})
  BY <1>1, GotoStep
<1>10. OneHolder' /\ OneOwner'
  BY <1>6, <1>7, <1>8, <1>9, ExclusionKept DEF IInv
<1> QED  BY <1>1, <1>5, <1>10, GotoStep DEF IInv

-----------------------------------------------------------------------------
(* Commands that end *)

\* j ends; of the written rows it changed at most its source, and it gave
\* nobody a place in a class it does not own.
LEMMA DoneStep ==
    ASSUME IInv, NEW j \in Connections, step[j] # "idle", Done(j),
           \A x \in Written : ~(HasSource(request[j]) /\ x = request[j].row) => enrollments'[x] = enrollments[x],
           \A c \in Classes : Seats(c)' \subseteq Seats(c) \/ OwnsClass(j, c)
    PROVE  /\ classes' \in [Classes -> Class]
           /\ students' \in [Students -> {"ACTIVE", "DISABLED"}]
           /\ request' \in [Connections -> Requests \cup {NoRequest}]
           /\ step' \in [Connections -> {"idle", "validate", "seat", "write"}]
           /\ OneHolder' /\ OneOwner' /\ Reliance'
<1> USE DEF IInv
<1>1. /\ UNCHANGED <<classes, students>>
      /\ request' \in [Connections -> Requests \cup {NoRequest}]
      /\ step' \in [Connections -> {"idle", "validate", "seat", "write"}] /\ step'[j] = "idle"
      /\ \A k \in Connections \ {j} : step'[k] = step[k] /\ request'[k] = request[k]
  BY DEF Done, Types
<1>2. ASSUME NEW k \in Connections \ {j}, step[k] # "idle"
      PROVE  Continues(k) /\ Undisturbed(k)
    <2>1. Relies(k) /\ request[k] \in Requests
      BY <1>2 DEF Reliance, Relies
    <2>2. HasSource(request[k]) => request[k].row \in Written /\ request[k].row \in Rows
                                     /\ LocksRow(k, request[k].row)
      BY <1>2, <2>1 DEF Relies, Written, LocksRow
    <2>3. HasSource(request[k]) => ~LocksRow(j, request[k].row)
      BY <2>2 DEF OneHolder
    <2>4. Continues(k)
      BY <1>1, <2>2, <2>3 DEF Continues, LocksRow
    <2>5. ClassOf(request[k])' = ClassOf(request[k]) /\ ClassOf(request[k]) \in Classes
      BY <1>2, <2>1, <2>4, SameCommand, CommandTyped DEF Relies
    <2>6. (step[k] = "write" /\ NeedsSeat(request[k])) => OwnsClass(k, ClassOf(request[k]))
      BY DEF OwnsClass
    <2>7. OwnsClass(k, ClassOf(request[k])) => ~OwnsClass(j, ClassOf(request[k]))
      BY <2>5 DEF OneOwner
    <2>8. OwnsClass(k, ClassOf(request[k])) => Seats(ClassOf(request[k]))' \subseteq Seats(ClassOf(request[k]))
      <3> DEFINE c == ClassOf(request[k])
      <3>1. ASSUME NEW d \in Classes, d = c, ~OwnsClass(j, d) PROVE Seats(c)' \subseteq Seats(c)
        <4>1. Seats(d)' \subseteq Seats(d)
          BY <3>1
        <4>2. Seats(c)' = Seats(d)'
          BY <2>5, <3>1 DEF Seats
        <4> QED  BY <4>1, <4>2, <3>1
      <3> HIDE DEF c
      <3>2. OwnsClass(k, c) => c \in Classes /\ ~OwnsClass(j, c)
        BY <2>5, <2>7 DEF c
      <3> QED  BY <3>1, <3>2 DEF c
    <2> QED  BY <1>1, <2>4, <2>6, <2>8 DEF Undisturbed
<1>3. Others(Connections \ {j})
  BY <1>1, <1>2 DEF Others, Continues
<1>4. /\ \A r \in Rows : ~LocksRow(j, r)'
      /\ \A c \in Classes : ~OwnsClass(j, c)' /\ ~SharesClass(j, c)'
  BY <1>1 DEF LocksRow, OwnsClass, SharesClass
<1>5. OneHolder' /\ OneOwner'
  BY <1>3, <1>4, ExclusionKept
<1>6. Reliance'
  BY <1>1, <1>3, OthersFramed DEF Reliance
<1> QED  BY <1>1, <1>5, <1>6 DEF Types

LEMMA RollbackStep ==
    ASSUME IInv, NEW j \in Connections, Rollback(j)
    PROVE  IInv'
<1>1. UNCHANGED enrollments /\ step[j] # "idle" /\ Done(j)
  BY DEF Rollback
<1>2. OneHolder' /\ OneOwner' /\ Reliance' /\ Types'
  BY <1>1, DoneStep, RowsUnchanged DEF IInv, Types
<1> QED  BY <1>1, <1>2, RowsUnchanged DEF IInv

-----------------------------------------------------------------------------
(* Commands that write *)

LEMMA TransitionWritten ==
    ASSUME IInv, NEW j \in Connections, WriteTransition(j)
    PROVE  /\ step[j] = "write" /\ request[j] \in Requests /\ Relies(j)
           /\ request[j].row \in Written
           /\ enrollments[request[j].row].status \in Consuming
           /\ enrollments' = [enrollments EXCEPT ![request[j].row].status = request[j].status]
           /\ enrollments' \in [Rows -> Enrollment \cup {Absent}]
           /\ Written' = Written
           /\ \A x \in Written :
                 /\ enrollments'[x].student = enrollments[x].student
                 /\ enrollments'[x].class = enrollments[x].class
                 /\ enrollments'[x].source = enrollments[x].source
                 /\ enrollments'[x].status = IF x = request[j].row THEN request[j].status ELSE enrollments[x].status
           /\ \A x \in Written \ {request[j].row} : enrollments'[x] = enrollments[x]
           /\ \A c : Seats(c)' \subseteq Seats(c)
<1> DEFINE q == request[j]
           row == q.row
<1> USE DEF IInv
<1>1. /\ step[j] = "write" /\ ~Inserts(q) /\ Done(j)
      /\ enrollments' = [enrollments EXCEPT ![row].status = q.status]
  BY DEF WriteTransition
<1>2. Relies(j) /\ q \in Requests /\ row \in Written /\ MayStartFrom(q)
  BY <1>1 DEF Reliance, Relies, HasSource, Inserts
<1>3. q.status \in Consuming \cup Terminal
  BY <1>1, <1>2, CommandFields DEF Inserts
<1>4. enrollments[row].status \in Consuming
  BY <1>1, <1>2, TransitionFrom DEF Source
<1>5. row \in Rows /\ enrollments[row] \in Enrollment /\ enrollments[row] # Absent
  BY <1>2, WrittenRows
<1>6. enrollments'[row] \in Enrollment /\ enrollments'[row] # Absent
      /\ enrollments'[row].student = enrollments[row].student
      /\ enrollments'[row].class = enrollments[row].class
      /\ enrollments'[row].source = enrollments[row].source
      /\ enrollments'[row].status = q.status
  BY <1>1, <1>3, <1>5, EnrollmentsAssumption DEF Types, Enrollment
<1>7. \A x \in Rows \ {row} : enrollments'[x] = enrollments[x]
  BY <1>1 DEF Types
<1>8. enrollments' \in [Rows -> Enrollment \cup {Absent}]
  BY <1>1, <1>6, <1>7 DEF Types
<1>9. Written' = Written
  BY <1>5, <1>6, <1>7 DEF Written
<1>10. \A x \in Written :
          /\ enrollments'[x].student = enrollments[x].student
          /\ enrollments'[x].class = enrollments[x].class
          /\ enrollments'[x].source = enrollments[x].source
          /\ enrollments'[x].status = IF x = row THEN q.status ELSE enrollments[x].status
  BY <1>6, <1>7 DEF Written
<1>11. \A c : Seats(c)' \subseteq Seats(c)
  BY <1>4, <1>9, <1>10 DEF Seats
<1> QED  BY <1>1, <1>2, <1>4, <1>7, <1>8, <1>9, <1>10, <1>11 DEF Written

LEMMA WriteTransitionStep ==
    ASSUME IInv, NEW j \in Connections, WriteTransition(j)
    PROVE  IInv'
<1> DEFINE q == request[j]
<1>1. step[j] # "idle" /\ Done(j)
  BY DEF WriteTransition
<1>2. OneHolder' /\ OneOwner' /\ Reliance' /\ Types'
  <2>1. \A x \in Written : ~(HasSource(q) /\ x = q.row) => enrollments'[x] = enrollments[x]
    BY TransitionWritten DEF HasSource, WriteTransition, Inserts
  <2> QED  BY <1>1, <2>1, DoneStep, TransitionWritten DEF Types
<1>3. /\ Written' = Written /\ enrollments[q.row].status \in Consuming
      /\ \A x \in Written :
            /\ enrollments'[x].student = enrollments[x].student
            /\ enrollments'[x].class = enrollments[x].class
            /\ enrollments'[x].source = enrollments[x].source
            /\ enrollments'[x].status \in Consuming => enrollments[x].status \in Consuming
            /\ enrollments[x].status \in Terminal => enrollments'[x].status = enrollments[x].status
  BY TransitionWritten, KindsApart
<1>4. OneOperational'
  BY <1>3 DEF IInv, OneOperational
<1>5. SourcesClosed'
  BY <1>3 DEF IInv, SourcesClosed
<1> QED  BY <1>2, <1>4, <1>5 DEF IInv

LEMMA EnrollmentWritten ==
    ASSUME IInv, NEW j \in Connections, step[j] = "write", Inserts(request[j]),
           ~OperationalTwice(NewEnrollment(request[j])),
           NEW r \in Rows \ Written,
           enrollments' = [Closed(request[j]) EXCEPT ![r] = NewEnrollment(request[j])]
    PROVE  /\ request[j] \in Requests /\ Relies(j) /\ OwnsClass(j, ClassOf(request[j]))
           /\ ClassOf(request[j]) \in Classes
           /\ NewEnrollment(request[j]).status \in Consuming
           /\ NewEnrollment(request[j]).class = ClassOf(request[j])
           /\ enrollments'[r] = NewEnrollment(request[j])
           /\ enrollments' \in [Rows -> Enrollment \cup {Absent}]
           /\ Written' = Written \cup {r}
           /\ \A x \in Written :
                 /\ enrollments'[x].student = enrollments[x].student
                 /\ enrollments'[x].class = enrollments[x].class
                 /\ enrollments'[x].source = enrollments[x].source
                 /\ enrollments'[x].status = IF request[j].op = "transfer" /\ x = request[j].row
                                            THEN "WITHDRAWN" ELSE enrollments[x].status
           /\ \A x \in Written : ~(request[j].op = "transfer" /\ x = request[j].row)
                                     => enrollments'[x] = enrollments[x]
           /\ \A c : Seats(c)' \subseteq Seats(c) \cup {r}
           /\ \A c : c # ClassOf(request[j]) => Seats(c)' \subseteq Seats(c)
<1> DEFINE q == request[j]
           new == NewEnrollment(q)
<1> USE DEF IInv
<1>1. Relies(j) /\ q \in Requests /\ (HasSource(q) => q.row \in Written /\ MayStartFrom(q))
  BY DEF Reliance, Relies
<1>2. ClassOf(q) \in Classes /\ StudentOf(q) \in Students
  BY <1>1, CommandTyped
<1>3. OwnsClass(j, ClassOf(q))
  BY DEF OwnsClass, NeedsSeat
<1>4. Target(q) \in Consuming
  BY <1>1, InsertsConsuming
<1>5. (HasSource(q) => q.row \in Rows) /\ (q.op = "transfer" => HasSource(q))
  BY <1>1, CommandFields DEF HasSource
<1>6. /\ new \in Enrollment /\ new.status = Target(q) /\ new.class = ClassOf(q)
      /\ new # Absent
  BY <1>2, <1>4, <1>5, EnrollmentsAssumption DEF NewEnrollment, Enrollment
<1>7. Closed(q) \in [Rows -> Enrollment \cup {Absent}]
      /\ \A x \in Rows : ~(q.op = "transfer" /\ x = q.row) => Closed(q)[x] = enrollments[x]
  <2>1. CASE q.op = "transfer"
    <3>1. q.row \in Rows /\ enrollments[q.row] \in Enrollment
      BY <2>1, <1>1, <1>5, WrittenRows
    <3>2. [enrollments[q.row] EXCEPT !.status = "WITHDRAWN"] \in Enrollment
      BY <3>1 DEF Enrollment, Terminal
    <3> QED  BY <2>1, <3>1, <3>2 DEF Closed, Types
  <2>2. CASE q.op # "transfer"
    BY <2>2 DEF Closed, Types
  <2> QED  BY <2>1, <2>2
<1>8. q.op = "transfer" =>
        /\ q.row \in Written
        /\ Closed(q)[q.row] = [enrollments[q.row] EXCEPT !.status = "WITHDRAWN"]
        /\ enrollments[q.row] \in Enrollment
        /\ [enrollments[q.row] EXCEPT !.status = "WITHDRAWN"] \in Enrollment
  BY <1>1, <1>5, WrittenRows DEF Closed, Types, Enrollment, Terminal
<1> HIDE DEF new
<1>9. enrollments'[r] = new /\ \A x \in Rows \ {r} : enrollments'[x] = Closed(q)[x]
  BY <1>7 DEF new
<1>10. enrollments' \in [Rows -> Enrollment \cup {Absent}]
  BY <1>6, <1>7 DEF new
<1>11. \A x \in Written : x \in Rows \ {r}
  BY DEF Written
<1>12. \A x \in Written :
          /\ enrollments'[x].student = enrollments[x].student
          /\ enrollments'[x].class = enrollments[x].class
          /\ enrollments'[x].source = enrollments[x].source
          /\ enrollments'[x].status = IF q.op = "transfer" /\ x = q.row THEN "WITHDRAWN" ELSE enrollments[x].status
          /\ enrollments'[x] # Absent
  <2> SUFFICES ASSUME NEW x \in Written
               PROVE  /\ enrollments'[x].student = enrollments[x].student
                      /\ enrollments'[x].class = enrollments[x].class
                      /\ enrollments'[x].source = enrollments[x].source
                      /\ enrollments'[x].status = IF q.op = "transfer" /\ x = q.row THEN "WITHDRAWN" ELSE enrollments[x].status
                      /\ enrollments'[x] # Absent
    OBVIOUS
  <2>1. CASE q.op = "transfer" /\ x = q.row
    BY <1>8, <1>9, <1>11, <2>1, EnrollmentsAssumption DEF Enrollment
  <2>2. CASE ~(q.op = "transfer" /\ x = q.row)
    BY <1>7, <1>9, <1>11, <2>2 DEF Written
  <2> QED  BY <2>1, <2>2
<1>13. \A x \in Written : ~(q.op = "transfer" /\ x = q.row) => enrollments'[x] = enrollments[x]
  BY <1>7, <1>9, <1>11
<1>14. \A x \in Rows \ (Written \cup {r}) : enrollments'[x] = Absent
  BY <1>7, <1>8, <1>9 DEF Written
<1>15. Written' = Written \cup {r}
  <2>1. \A x \in Rows : x \in Written' <=> enrollments'[x] # Absent
    BY DEF Written
  <2>2. Written' \subseteq Rows /\ Written \subseteq Rows
    BY DEF Written
  <2> QED  BY <1>6, <1>9, <1>12, <1>14, <2>1, <2>2
<1>16. \A c : Seats(c)' \subseteq Seats(c) \cup {r}
  BY <1>12, <1>15, KindsApart DEF Seats, Terminal
<1>17. \A c : c # ClassOf(q) => Seats(c)' \subseteq Seats(c)
  BY <1>6, <1>9, <1>16 DEF Seats
<1> QED  BY <1>1, <1>2, <1>3, <1>4, <1>6, <1>9, <1>10, <1>12, <1>13, <1>15, <1>16, <1>17 DEF new

LEMMA WriteEnrollmentStep ==
    ASSUME IInv, NEW j \in Connections, WriteEnrollment(j)
    PROVE  IInv'
<1> DEFINE q == request[j]
<1>1. /\ step[j] = "write" /\ Inserts(q) /\ ~OperationalTwice(NewEnrollment(q)) /\ Done(j)
      /\ UNCHANGED <<classes, students>>
  BY DEF WriteEnrollment, Done
<1>2. PICK r \in Rows \ Written : enrollments' = [Closed(q) EXCEPT ![r] = NewEnrollment(q)]
  BY DEF WriteEnrollment
<1>3. OneHolder' /\ OneOwner' /\ Reliance' /\ Types'
  <2>1. \A x \in Written : ~(HasSource(q) /\ x = q.row) => enrollments'[x] = enrollments[x]
    BY <1>1, <1>2, EnrollmentWritten DEF HasSource
  <2>2. \A c \in Classes : Seats(c)' \subseteq Seats(c) \/ OwnsClass(j, c)
    BY <1>1, <1>2, EnrollmentWritten
  <2>3. enrollments' \in [Rows -> Enrollment \cup {Absent}]
    BY <1>1, <1>2, EnrollmentWritten
  <2> QED  BY <1>1, <2>1, <2>2, <2>3, DoneStep DEF Types
<1>4. /\ Written' = Written \cup {r} /\ r \notin Written
      /\ enrollments'[r] = NewEnrollment(q)
      /\ \A x \in Written :
            /\ enrollments'[x].student = enrollments[x].student
            /\ enrollments'[x].class = enrollments[x].class
            /\ enrollments'[x].source = enrollments[x].source
            /\ enrollments'[x].status \in Consuming => enrollments[x].status \in Consuming
            /\ enrollments[x].status \in Terminal => enrollments'[x].status \in Terminal
            /\ (q.op = "transfer" /\ x = q.row) => enrollments'[x].status = "WITHDRAWN"
  BY <1>1, <1>2, EnrollmentWritten, KindsApart DEF Terminal
<1>5. OneOperational'
  <2>1. ASSUME NEW x \in Written, enrollments'[x].status \in Consuming,
               enrollments'[x].student = enrollments'[r].student, enrollments'[x].class = enrollments'[r].class
        PROVE  FALSE
    <3>1. x \in Seats(NewEnrollment(q).class) /\ enrollments[x].student = NewEnrollment(q).student
      BY <1>4, <2>1 DEF Seats
    <3>2. NewEnrollment(q).status \in Consuming
      BY <1>1, <1>2, EnrollmentWritten
    <3> QED  BY <1>1, <3>1, <3>2 DEF OperationalTwice
  <2>2. ASSUME NEW x \in Written, NEW y \in Written,
               enrollments'[x].status \in Consuming, enrollments'[y].status \in Consuming,
               enrollments'[x].student = enrollments'[y].student, enrollments'[x].class = enrollments'[y].class
        PROVE  x = y
    BY <1>4, <2>2 DEF IInv, OneOperational
  <2> QED  BY <1>4, <2>1, <2>2 DEF OneOperational
<1>6. SourcesClosed'
  <2>1. ASSUME NEW x \in Written, enrollments'[x].source # NoSource
        PROVE  LET source == enrollments'[x].source IN
                 /\ source \in Written'
                 /\ enrollments'[source].status \in Terminal
                 /\ enrollments'[source].student = enrollments'[x].student
    BY <1>4, <2>1 DEF IInv, SourcesClosed
  <2>2. ASSUME enrollments'[r].source # NoSource
        PROVE  LET source == enrollments'[r].source IN
                 /\ source \in Written'
                 /\ enrollments'[source].status \in Terminal
                 /\ enrollments'[source].student = enrollments'[r].student
    <3>1. HasSource(q) /\ enrollments'[r].source = q.row /\ enrollments'[r].student = enrollments[q.row].student
      BY <1>4, <2>2 DEF NewEnrollment, HasSource, StudentOf, Source
    <3>2. q.row \in Written /\ MayStartFrom(q)
      BY <1>1, <3>1 DEF IInv, Reliance, Relies
    <3>3. q.op = "transfer" \/ Source(q).status \in Terminal
      BY <1>1, <3>2 DEF MayStartFrom, Inserts
    <3>4. enrollments'[q.row].status \in Terminal
      BY <1>4, <3>2, <3>3 DEF Source, Terminal
    <3> QED  BY <1>4, <3>1, <3>2, <3>4
  <2> QED  BY <1>4, <2>1, <2>2 DEF SourcesClosed
<1> QED  BY <1>3, <1>5, <1>6 DEF IInv

-----------------------------------------------------------------------------
(* Updates of classes and students *)

LEMMA UpdateKeeps ==
    ASSUME IInv, UNCHANGED <<enrollments, request, step>>,
           classes' \in [Classes -> Class], students' \in [Students -> {"ACTIVE", "DISABLED"}],
           \A k \in Connections : step[k] # "idle" => Undisturbed(k)
    PROVE  IInv'
<1> USE DEF IInv
<1>1. Others(Connections)
  BY DEF Others, Continues
<1>2. Types' /\ OneOperational' /\ SourcesClosed'
  BY RowsUnchanged DEF Types
<1>3. Reliance'
  BY <1>1, OthersFramed DEF Reliance
<1>4. OneHolder' /\ OneOwner'
  BY <1>1, OthersFramed DEF OneHolder, OneOwner
<1> QED  BY <1>2, <1>3, <1>4

LEMMA SeatsSame ==
    ASSUME UNCHANGED <<enrollments, request>>, NEW k \in Connections
    PROVE  Seats(ClassOf(request[k]))' = Seats(ClassOf(request[k]))
<1>1. ClassOf(request[k])' = ClassOf(request[k])
  BY DEF ClassOf, Source
<1> QED  BY <1>1 DEF Seats, Written

LEMMA ClassStep ==
    ASSUME IInv, NEW c \in Classes, UpdateClass(c) \/ CompleteClass(c)
    PROVE  IInv'
<1>1. /\ ClassFree(c, Connections)
      /\ UNCHANGED <<enrollments, students, request, step>>
      /\ \A d \in Classes \ {c} : classes'[d] = classes[d]
  BY DEF UpdateClass, CompleteClass, IInv, Types
<1>2. classes' \in [Classes -> Class]
  <2>1. CASE UpdateClass(c)
    <3>1. PICK set \in Settings : classes' = [classes EXCEPT ![c] = set]
      BY <2>1 DEF UpdateClass
    <3>2. set \in Class
      BY EnrollmentsAssumption DEF Class
    <3> QED  BY <3>1, <3>2 DEF IInv, Types
  <2>2. CASE CompleteClass(c)
    BY <2>2 DEF CompleteClass, IInv, Types, Class
  <2> QED  BY <2>1, <2>2
<1>3. ASSUME NEW k \in Connections, step[k] # "idle" PROVE Undisturbed(k)
  <2>1. Relies(k) /\ ClassOf(request[k]) \in Classes
    BY <1>3, CommandTyped DEF IInv, Reliance, Relies
  <2>2. (step[k] \in {"seat", "write"} /\ Inserts(request[k])) => ClassOf(request[k]) # c
    BY <1>1 DEF ClassFree, SharesClass
  <2>3. (step[k] = "write" /\ NeedsSeat(request[k])) => ClassOf(request[k]) # c
    BY <1>1 DEF ClassFree, OwnsClass
  <2> QED  BY <1>1, <2>1, <2>2, <2>3, SeatsSame DEF Undisturbed
<1> QED  BY <1>1, <1>2, <1>3, UpdateKeeps DEF IInv, Types

LEMMA StudentStep ==
    ASSUME IInv, NEW s \in Students, UpdateStudent(s)
    PROVE  IInv'
<1>1. /\ \A k \in Connections : ~SharesStudent(k, s)
      /\ UNCHANGED <<enrollments, classes, request, step>>
      /\ students' \in [Students -> {"ACTIVE", "DISABLED"}]
      /\ \A x \in Students \ {s} : students'[x] = students[x]
  BY DEF UpdateStudent, IInv, Types
<1>2. ASSUME NEW k \in Connections, step[k] # "idle" PROVE Undisturbed(k)
  <2>1. Relies(k) /\ StudentOf(request[k]) \in Students
    BY <1>2, CommandTyped DEF IInv, Reliance, Relies
  <2>2. (step[k] \in {"seat", "write"} /\ Inserts(request[k])) => StudentOf(request[k]) # s
    BY <1>1 DEF SharesStudent
  <2> QED  BY <1>1, <2>1, <2>2, SeatsSame DEF Undisturbed
<1> QED  BY <1>1, <1>2, UpdateKeeps DEF IInv, Types

-----------------------------------------------------------------------------
(* Theorems *)

LEMMA InitInv == Init => IInv
<1> SUFFICES ASSUME Init PROVE IInv
  OBVIOUS
<1>1. Types
  BY EnrollmentsAssumption DEF Init, Types, Class
<1>2. Written = {} /\ \A k \in Connections : step[k] = "idle"
  BY DEF Init, Written
<1>3. OneHolder /\ OneOwner /\ Reliance /\ OneOperational /\ SourcesClosed
  BY <1>2 DEF OneHolder, OneOwner, Reliance, OneOperational, SourcesClosed, LocksRow, OwnsClass
<1> QED  BY <1>1, <1>3 DEF IInv

LEMMA StutterStep ==
    ASSUME IInv, UNCHANGED vars
    PROVE  IInv'
<1>1. \A k \in Connections : Undisturbed(k)
  BY SeatsSame DEF Undisturbed, vars
<1> QED  BY <1>1, UpdateKeeps DEF vars, IInv, Types

\* The parts of the invariant hold of every behaviour: types, exclusive row and
\* class locks, and what each command has checked under its locks.
THEOREM Invariance == Spec => []IInv
<1>1. IInv /\ [Next]_vars => IInv'
  <2> SUFFICES ASSUME IInv, [Next]_vars PROVE IInv'
    OBVIOUS
  <2>1. ASSUME NEW k \in Connections, Begin(k) PROVE IInv'
    BY <2>1, StartStep DEF Begin
  <2>2. ASSUME NEW k \in Connections, Statement(k) PROVE IInv'
    BY <2>2, ValidateStep, LockCapacityStep, WriteTransitionStep, WriteEnrollmentStep DEF Statement
  <2>3. ASSUME NEW k \in Connections, Rollback(k) PROVE IInv'
    BY <2>3, RollbackStep
  <2>4. ASSUME NEW c \in Classes, UpdateClass(c) \/ CompleteClass(c) PROVE IInv'
    BY <2>4, ClassStep
  <2>5. ASSUME NEW s \in Students, UpdateStudent(s) PROVE IInv'
    BY <2>5, StudentStep
  <2>6. CASE UNCHANGED vars
    BY <2>6, StutterStep
  <2> QED  BY <2>1, <2>2, <2>3, <2>4, <2>5, <2>6 DEF Next
<1> QED  BY <1>1, InitInv, PTL DEF Spec

\* Types are correct, and the enrollment a command has locked still allows
\* the command: two commands never start from the same enrollment.
THEOREM TypesHold == Spec => []TypeOK
<1>1. IInv => TypeOK
  BY EnrollmentsAssumption DEF IInv, Types, TypeOK, Reliance, Relies
<1> QED  BY <1>1, Invariance, PTL

\* A student never has two operational enrollments in one class.
THEOREM OperationalOnce == Spec => []OneOperational
<1>1. IInv => OneOperational
  BY DEF IInv
<1> QED  BY <1>1, Invariance, PTL

\* What was transferred or re-enrolled from is closed for good.
THEOREM SourcesStayClosed == Spec => []SourcesClosed
<1>1. IInv => SourcesClosed
  BY DEF IInv
<1> QED  BY <1>1, Invariance, PTL

\* The only steps that change a row are the two writes.
LEMMA RowsChangedBy ==
    ASSUME [Next]_vars, ~UNCHANGED enrollments
    PROVE  \E j \in Connections : WriteTransition(j) \/ WriteEnrollment(j)
BY DEF Next, Begin, Statement, Rollback, UpdateClass, CompleteClass, UpdateStudent, StartCreate,
       StartFromSource, Start, Validate, LockCapacity, Goto, vars

\* One more place than those that fitted is within the limit.
LEMMA OneMoreFits ==
    ASSUME Types, NEW c \in Classes, NEW S, NEW T, NEW r, IsFiniteSet(S), T \subseteq S \cup {r},
           Fits(c, Cardinality(S)), classes[c].capacity # Unlimited
    PROVE  Cardinality(T) <= classes[c].capacity
<1>1. classes[c].capacity \in Nat
  BY EnrollmentsAssumption DEF Types, Class
<1>2. Cardinality(S) \in Nat
  BY FS_CardinalityType
<1> DEFINE U == S \cup {r}
<1>3. IsFiniteSet(U) /\ (Cardinality(U) = Cardinality(S) \/ Cardinality(U) = Cardinality(S) + 1)
  BY FS_AddElement
<1> HIDE DEF U
<1>4. Cardinality(U) <= Cardinality(S) + 1 /\ Cardinality(U) \in Nat
  BY <1>2, <1>3
<1>5. T \subseteq U
  BY DEF U
<1>6. Cardinality(T) <= Cardinality(U) /\ Cardinality(T) \in Nat
  BY <1>3, <1>5, FS_Subset, FS_CardinalityType
<1> QED  BY <1>1, <1>2, <1>4, <1>6 DEF Fits

\* Whatever overlaps, a place is taken and an enrollment activated, paused or
\* resumed only within the limit the class has at that moment.
THEOREM CapacityRespected == Spec => SeatsRespectCapacity
<1>1. ASSUME IInv, [Next]_vars, NEW r \in Rows, NEW c \in Classes,
             Settles(r, c), classes[c].capacity # Unlimited
      PROVE  Cardinality(Seats(c)') <= classes[c].capacity
  <2>1. PICK j \in Connections : WriteTransition(j) \/ WriteEnrollment(j)
    BY <1>1, RowsChangedBy DEF Settles
  <2>2. Types
    BY <1>1 DEF IInv
  <2>3. CASE WriteTransition(j)
    <3> DEFINE q == request[j]
    <3>0. ~Inserts(q)
      BY <2>3 DEF WriteTransition
    <3>1. /\ q.row \in Written /\ Relies(j) /\ step[j] = "write" /\ Written' = Written
          /\ \A x \in Written \ {q.row} : enrollments'[x] = enrollments[x]
          /\ enrollments'[q.row].class = enrollments[q.row].class
          /\ enrollments'[q.row].status = q.status
          /\ Seats(c)' \subseteq Seats(c)
      BY <1>1, <2>3, TransitionWritten
    <3>2. r = q.row
      BY <3>1, <1>1 DEF Settles, Written
    <3>3. ClassOf(q) = c /\ NeedsSeat(q)
      BY <3>0, <3>1, <3>2, <1>1 DEF Settles, ClassOf, Inserts, Source, NeedsSeat, Written
    <3>4. Fits(c, Cardinality(Seats(c) \ {r}))
      BY <3>0, <3>1, <3>2, <3>3 DEF Relies, Taken
    <3>5. IsFiniteSet(Seats(c) \ {r}) /\ Seats(c)' \subseteq (Seats(c) \ {r}) \cup {r}
      BY <3>1, SeatsFinite
    <3> QED  BY <1>1, <2>2, <3>4, <3>5, OneMoreFits
  <2>4. CASE WriteEnrollment(j)
    <3> DEFINE q == request[j]
    <3>1. step[j] = "write" /\ Inserts(q) /\ ~OperationalTwice(NewEnrollment(q))
      BY <2>4 DEF WriteEnrollment
    <3>2. PICK n \in Rows \ Written : enrollments' = [Closed(q) EXCEPT ![n] = NewEnrollment(q)]
      BY <2>4 DEF WriteEnrollment
    <3>3. /\ Relies(j) /\ Written' = Written \cup {n}
          /\ enrollments'[n] = NewEnrollment(q) /\ NewEnrollment(q).class = ClassOf(q)
          /\ \A x \in Written : enrollments'[x] # enrollments[x] => enrollments'[x].status = "WITHDRAWN"
          /\ Seats(c)' \subseteq Seats(c) \cup {n}
      BY <1>1, <3>1, <3>2, EnrollmentWritten
    <3>4. r = n
      BY <3>3, <1>1 DEF Settles, Written
    <3>5. ClassOf(q) = c
      BY <3>3, <3>4, <1>1 DEF Settles
    <3>6. Fits(c, Cardinality(Seats(c)))
      BY <3>1, <3>3, <3>5 DEF Relies, Taken, NeedsSeat
    <3>7. IsFiniteSet(Seats(c))
      BY SeatsFinite
    <3> QED  BY <1>1, <2>2, <3>3, <3>6, <3>7, OneMoreFits
  <2> QED  BY <2>1, <2>3, <2>4
<1>2. IInv /\ [Next]_vars =>
        [\A r \in Rows, c \in Classes :
            (Settles(r, c) /\ classes[c].capacity # Unlimited) => Cardinality(Seats(c)') <= classes[c].capacity]_vars
  BY <1>1
<1> QED  BY <1>2, Invariance, PTL DEF Spec, SeatsRespectCapacity

\* An enrollment that starts out ACTIVE does so while its student and its
\* class are active.
THEOREM AdmittedActive == Spec => AdmittedWhileActive
<1>1. ASSUME IInv, [Next]_vars, NEW r \in Rows,
             enrollments[r] = Absent, enrollments'[r] # Absent, enrollments'[r].status = "ACTIVE"
      PROVE  students[enrollments'[r].student] = "ACTIVE" /\ classes[enrollments'[r].class].status = "ACTIVE"
  <2>1. PICK j \in Connections : WriteTransition(j) \/ WriteEnrollment(j)
    BY <1>1, RowsChangedBy
  <2>2. r \notin Written /\ r \in Written'
    BY <1>1 DEF Written
  <2>3. ~WriteTransition(j)
    BY <1>1, <2>2, TransitionWritten
  <2> DEFINE q == request[j]
  <2>4. step[j] = "write" /\ Inserts(q) /\ ~OperationalTwice(NewEnrollment(q))
    BY <2>1, <2>3 DEF WriteEnrollment
  <2>5. PICK n \in Rows \ Written : enrollments' = [Closed(q) EXCEPT ![n] = NewEnrollment(q)]
    BY <2>1, <2>3 DEF WriteEnrollment
  <2>6. Relies(j) /\ Written' = Written \cup {n} /\ enrollments'[n] = NewEnrollment(q)
    BY <1>1, <2>4, <2>5, EnrollmentWritten
  <2>7. r = n /\ Target(q) = "ACTIVE"
    BY <1>1, <2>2, <2>6 DEF NewEnrollment
  <2>8. MustBeActive(q)
    BY <2>7 DEF MustBeActive, Target
  <2> QED  BY <2>4, <2>6, <2>7, <2>8 DEF Relies, NewEnrollment
<1>2. IInv /\ [Next]_vars =>
        [\A r \in Rows :
            (enrollments[r] = Absent /\ enrollments'[r] # Absent /\ enrollments'[r].status = "ACTIVE") =>
                /\ students[enrollments'[r].student] = "ACTIVE"
                /\ classes[enrollments'[r].class].status = "ACTIVE"]_vars
  BY <1>1
<1> QED  BY <1>2, Invariance, PTL DEF Spec, AdmittedWhileActive

\* The safety property the run checks: which enrollments may stand beside one another.
THEOREM EnrollmentsStaySafe == Spec => []EnrollmentsSafe
BY TypesHold, OperationalOnce, SourcesStayClosed, PTL DEF EnrollmentsSafe

\* The action property the run checks: places and activity hold when an enrollment comes about.
THEOREM AdmissionsStayWithin == Spec => AdmissionsHold
BY CapacityRespected, AdmittedActive DEF AdmissionsHold

-----------------------------------------------------------------------------
(* The directory an import is judged by, whatever it holds. *)

LevelRow == [course : CourseCodes, code : LevelCodes, status : Statuses]
RoomRow == [branch : BranchCodes, code : RoomCodes, status : Statuses]

LEMMA RecordSaved ==
    ASSUME DirectoryTypeOK, NEW x \in Named, NEW s \in Statuses, SaveRecord(x, s)
    PROVE  DirectoryTypeOK'
BY DEF DirectoryTypeOK, SaveRecord

LEMMA LevelCreated ==
    ASSUME DirectoryTypeOK, NEW l \in LevelIds, NEW course \in CourseCodes, NEW code \in LevelCodes,
           CreateLevel(l, course, code)
    PROVE  DirectoryTypeOK'
<1>1. PICK row \in LevelRow : row = [course |-> course, code |-> code, status |-> "ACTIVE"]
  BY DEF LevelRow, Statuses
<1>2. level' = [level EXCEPT ![l] = row] /\ UNCHANGED <<status, room, assigned>>
  BY <1>1 DEF CreateLevel
<1>3. level' \in [LevelIds -> LevelRow \cup {Empty}]
  BY <1>2 DEF DirectoryTypeOK, LevelRow
<1>4. row.course = course /\ row.code = code
  BY <1>1
<1>5. \A n \in LevelIds : level[n] # Empty => <<level[n].course, level[n].code>> # <<row.course, row.code>>
  BY <1>4 DEF CreateLevel, LevelWritten
<1>6. \A m, n \in LevelIds :
        m # n /\ level'[m] # Empty /\ level'[n] # Empty =>
          <<level'[m].course, level'[m].code>> # <<level'[n].course, level'[n].code>>
  BY <1>2, <1>5 DEF DirectoryTypeOK
<1> QED  BY <1>2, <1>3, <1>6 DEF DirectoryTypeOK, LevelRow

LEMMA LevelEdited ==
    ASSUME DirectoryTypeOK, NEW l \in LevelIds, NEW s \in Statuses, EditLevel(l, s)
    PROVE  DirectoryTypeOK'
<1>1. level[l] \in LevelRow
  BY DEF DirectoryTypeOK, EditLevel, LevelRow
<1>2. PICK row \in LevelRow : row = [level[l] EXCEPT !.status = s]
  BY <1>1 DEF LevelRow
<1>3. level' = [level EXCEPT ![l] = row] /\ UNCHANGED <<status, room, assigned>>
  BY <1>2 DEF EditLevel
<1>4. row.course = level[l].course /\ row.code = level[l].code
  BY <1>1, <1>2 DEF LevelRow
<1>5. level' \in [LevelIds -> LevelRow \cup {Empty}]
  BY <1>3 DEF DirectoryTypeOK, LevelRow
<1>6. \A m, n \in LevelIds :
        m # n /\ level'[m] # Empty /\ level'[n] # Empty =>
          <<level'[m].course, level'[m].code>> # <<level'[n].course, level'[n].code>>
  BY <1>3, <1>4 DEF DirectoryTypeOK, EditLevel
<1> QED  BY <1>3, <1>5, <1>6 DEF DirectoryTypeOK, LevelRow

LEMMA RoomSaved ==
    ASSUME DirectoryTypeOK, NEW m \in RoomIds, NEW branch \in BranchCodes, NEW code \in RoomCodes,
           NEW s \in Statuses, SaveRoom(m, branch, code, s)
    PROVE  DirectoryTypeOK'
<1>1. PICK row \in RoomRow : row = [branch |-> branch, code |-> code, status |-> s]
  BY DEF RoomRow
<1>2. room' = [room EXCEPT ![m] = row] /\ UNCHANGED <<status, level, assigned>>
  BY <1>1 DEF SaveRoom
<1>3. room' \in [RoomIds -> RoomRow \cup {Empty}]
  BY <1>2 DEF DirectoryTypeOK, RoomRow
<1>4. row.branch = branch /\ row.code = code
  BY <1>1
<1>5. \A n \in RoomIds \ {m} : room[n] # Empty => <<room[n].branch, room[n].code>> # <<row.branch, row.code>>
  BY <1>4 DEF SaveRoom, PlaceFree
<1>6. \A l, n \in RoomIds :
        l # n /\ room'[l] # Empty /\ room'[n] # Empty =>
          <<room'[l].branch, room'[l].code>> # <<room'[n].branch, room'[n].code>>
  BY <1>2, <1>5 DEF DirectoryTypeOK
<1> QED  BY <1>2, <1>3, <1>6 DEF DirectoryTypeOK, RoomRow

LEMMA BranchesAssigned ==
    ASSUME DirectoryTypeOK, NEW t \in TeacherCodes, NEW branches \in SUBSET BranchCodes, AssignBranches(t, branches)
    PROVE  DirectoryTypeOK'
BY DEF DirectoryTypeOK, AssignBranches

\* The lookup under COURSE|LEVEL, and that under BRANCH|ROOM, find one record at most.
LEMMA FoundOnce ==
    ASSUME DirectoryTypeOK, NEW owner, NEW code
    PROVE  /\ \A l, n \in LevelFound(owner, code) : l = n
           /\ \A m, n \in RoomFound(owner, code) : m = n
BY DEF DirectoryTypeOK, LevelFound, RoomFound

\* A record that is there is enabled or disabled.
LEMMA EnabledIsNotDisabled ==
    ASSUME DirectoryTypeOK, NEW x \in Named
    PROVE  Enabled(x) <=> Exists(x) /\ status[x] # "DISABLED"
BY DirectoryAssumption DEF DirectoryTypeOK, Enabled, Exists, Statuses

LEMMA LevelStatus ==
    ASSUME DirectoryTypeOK, NEW l \in LevelIds, level[l] # Empty
    PROVE  level[l].status = "ACTIVE" <=> level[l].status # "DISABLED"
<1>1. level[l] \in LevelRow
  BY DEF DirectoryTypeOK, LevelRow
<1> QED  BY <1>1 DEF LevelRow, Statuses

LEMMA RoomStatus ==
    ASSUME DirectoryTypeOK, NEW m \in RoomIds, room[m] # Empty
    PROVE  room[m].status = "ACTIVE" <=> room[m].status # "DISABLED"
<1>1. room[m] \in RoomRow
  BY DEF DirectoryTypeOK, RoomRow
<1> QED  BY <1>1 DEF RoomRow, Statuses

LEMMA ClassRowFields ==
    ASSUME NEW r \in ClassRows
    PROVE  /\ r.code \in Named /\ r.course \in Named
           /\ r.branch # Empty => r.branch \in Named
           /\ r.teacher # Empty => r.teacher \in Named
BY DEF ClassRows, Named

\* What a row names and the service requires of it, apart from level and room.
Plain(r) ==
    /\ Enabled(r.course)
    /\ r.branch # Empty => Enabled(r.branch)
    /\ TeacherWorksThere(r)
    /\ ~Exists(r.code)
    /\ r.inOrder

LevelsNamed(r) ==
    IF r.level = Empty THEN {Empty} ELSE {l \in LevelIds : level[l] # Empty /\ level[l].code = r.level}

RoomsNamed(r) ==
    IF r.room = Empty THEN {Empty} ELSE {m \in RoomIds : room[m] # Empty /\ room[m].code = r.room}

LevelUsable(id, r) ==
    id # Empty => level[id] # Empty /\ level[id].course = r.course /\ level[id].status # "DISABLED"

RoomUsable(id, r) ==
    id # Empty => room[id] # Empty /\ room[id].branch = r.branch /\ room[id].status # "DISABLED"

LEMMA ClassWrittenBy ==
    ASSUME DirectoryTypeOK, NEW r \in ClassRows, NEW f, f.row = r
    PROVE  ClassWritten(f) <=> Plain(r) /\ LevelUsable(f.level, r) /\ RoomUsable(f.room, r)
<1>1. /\ Enabled(r.course) <=> Exists(r.course) /\ status[r.course] # "DISABLED"
      /\ r.branch # Empty => (Enabled(r.branch) <=> Exists(r.branch) /\ status[r.branch] # "DISABLED")
      /\ r.teacher # Empty => (Enabled(r.teacher) <=> Exists(r.teacher) /\ status[r.teacher] # "DISABLED")
  BY ClassRowFields, EnabledIsNotDisabled
<1> QED  BY <1>1 DEF ClassWritten, Plain, LevelUsable, RoomUsable, TeacherWorksThere

\* A level in a row is judged as the level its code stands for.
LEMMA LevelResolved ==
    ASSUME DirectoryTypeOK, NEW r \in ClassRows, r.level # Empty,
           NEW l \in LevelFound(r.course, r.level), level[l].status = "ACTIVE"
    PROVE  Resolved(r).level = l /\ LevelUsable(l, r) /\ l \in LevelsNamed(r)
<1>1. (CHOOSE n \in LevelFound(r.course, r.level) : TRUE) = l
  BY FoundOnce
<1>2. l \in LevelIds /\ level[l] # Empty /\ level[l].code = r.level /\ level[l].course = r.course
  BY DEF LevelFound
<1> QED  BY <1>1, <1>2 DEF Resolved, LevelUsable, LevelsNamed

LEMMA RoomResolved ==
    ASSUME DirectoryTypeOK, NEW r \in ClassRows, r.room # Empty,
           NEW m \in RoomFound(r.branch, r.room), room[m].status = "ACTIVE"
    PROVE  Resolved(r).room = m /\ RoomUsable(m, r) /\ m \in RoomsNamed(r)
<1>1. (CHOOSE n \in RoomFound(r.branch, r.room) : TRUE) = m
  BY FoundOnce
<1>2. m \in RoomIds /\ room[m] # Empty /\ room[m].code = r.room /\ room[m].branch = r.branch
  BY DEF RoomFound
<1> QED  BY <1>1, <1>2 DEF Resolved, RoomUsable, RoomsNamed

LEMMA JudgedIsWritten ==
    ASSUME DirectoryTypeOK, NEW r \in ClassRows, ClassJudged(r)
    PROVE  Resolved(r) \in FormsNaming(r) /\ ClassWritten(Resolved(r))
<1>1. Plain(r)
  BY DEF ClassJudged, Plain
<1>2. Resolved(r).level \in LevelsNamed(r) /\ LevelUsable(Resolved(r).level, r)
  <2>1. CASE r.level = Empty
    BY <2>1 DEF Resolved, LevelsNamed, LevelUsable
  <2>2. CASE r.level # Empty
    <3>1. PICK l \in LevelFound(r.course, r.level) : level[l].status = "ACTIVE"
      BY <2>2 DEF ClassJudged
    <3>2. Resolved(r).level = l /\ LevelUsable(l, r) /\ l \in LevelsNamed(r)
      BY <2>2, <3>1, LevelResolved
    <3> QED  BY <3>2
  <2> QED  BY <2>1, <2>2
<1>3. Resolved(r).room \in RoomsNamed(r) /\ RoomUsable(Resolved(r).room, r)
  <2>1. CASE r.room = Empty
    BY <2>1 DEF Resolved, RoomsNamed, RoomUsable
  <2>2. CASE r.room # Empty
    <3>1. PICK m \in RoomFound(r.branch, r.room) : room[m].status = "ACTIVE"
      BY <2>2 DEF ClassJudged
    <3>2. Resolved(r).room = m /\ RoomUsable(m, r) /\ m \in RoomsNamed(r)
      BY <2>2, <3>1, RoomResolved
    <3> QED  BY <3>2
  <2> QED  BY <2>1, <2>2
<1>4. Resolved(r).row = r
  BY DEF Resolved
<1>5. ClassWritten(Resolved(r))
  BY <1>1, <1>2, <1>3, <1>4, ClassWrittenBy
<1>6. Resolved(r) \in FormsNaming(r)
  BY <1>2, <1>3 DEF Resolved, FormsNaming, LevelsNamed, RoomsNamed
<1> QED  BY <1>5, <1>6

LEMMA WrittenIsJudged ==
    ASSUME DirectoryTypeOK, NEW r \in ClassRows, NEW f \in FormsNaming(r), ClassWritten(f)
    PROVE  ClassJudged(r)
<1>1. f.row = r /\ f.level \in LevelsNamed(r) /\ f.room \in RoomsNamed(r)
  BY DEF FormsNaming, LevelsNamed, RoomsNamed
<1>2. Plain(r) /\ LevelUsable(f.level, r) /\ RoomUsable(f.room, r)
  BY <1>1, ClassWrittenBy
<1>3. ASSUME r.level # Empty  PROVE \E l \in LevelFound(r.course, r.level) : level[l].status = "ACTIVE"
  <2>1. f.level \in LevelIds /\ level[f.level] # Empty /\ level[f.level].code = r.level
    BY <1>1, <1>3 DEF LevelsNamed
  <2>2. level[f.level].course = r.course /\ level[f.level].status # "DISABLED"
    BY <1>2, <2>1, DirectoryAssumption DEF LevelUsable
  <2>3. level[f.level].status = "ACTIVE" /\ f.level \in LevelFound(r.course, r.level)
    BY <2>1, <2>2, LevelStatus DEF LevelFound
  <2> QED  BY <2>3
<1>4. ASSUME r.room # Empty
      PROVE  r.branch # Empty /\ \E m \in RoomFound(r.branch, r.room) : room[m].status = "ACTIVE"
  <2>1. f.room \in RoomIds /\ room[f.room] # Empty /\ room[f.room].code = r.room
    BY <1>1, <1>4 DEF RoomsNamed
  <2>2. room[f.room].branch = r.branch /\ room[f.room].status # "DISABLED"
    BY <1>2, <2>1, DirectoryAssumption DEF RoomUsable
  <2>3. room[f.room].status = "ACTIVE" /\ f.room \in RoomFound(r.branch, r.room)
    BY <2>1, <2>2, RoomStatus DEF RoomFound
  <2>4. room[f.room] \in RoomRow
    BY <2>1 DEF DirectoryTypeOK, RoomRow
  <2>5. r.branch \in BranchCodes
    BY <2>2, <2>4 DEF RoomRow
  <2> QED  BY <2>3, <2>5, DirectoryAssumption
<1> QED  BY <1>2, <1>3, <1>4 DEF ClassJudged, Plain

\* As many rows as ids: the branches that exist are all of them.
LEMMA TeacherJudgedAsWritten ==
    ASSUME DirectoryTypeOK, NEW r \in TeacherRows
    PROVE  TeacherJudged(r) <=> TeacherWritten(r)
<1> DEFINE found == {b \in r.branches : Exists(b)}
<1>1. IsFiniteSet(r.branches) /\ found \subseteq r.branches
  BY FS_Subset, DirectoryAssumption DEF TeacherRows
<1>2. Cardinality(found) = Cardinality(r.branches) <=> found = r.branches
  <2> HIDE DEF found
  <2> QED  BY <1>1, FS_Subset
<1> QED  BY <1>2 DEF TeacherJudged, TeacherWritten

LEMMA LevelJudgedAsWritten ==
    ASSUME NEW r \in LevelRows
    PROVE  LevelJudged(r) <=> LevelWritten(r)
BY DEF LevelJudged, LevelWritten, LevelFound

\* The types of the directory, and that a code finds one record, stay.
THEOREM DirectoryInvariance == DirectorySpec => []DirectoryTypeOK
<1>1. DirectoryInit => DirectoryTypeOK
  BY DEF DirectoryInit, DirectoryTypeOK
<1>2. DirectoryTypeOK /\ [DirectoryNext]_directoryVars => DirectoryTypeOK'
  <2>1. SUFFICES ASSUME DirectoryTypeOK, [DirectoryNext]_directoryVars  PROVE DirectoryTypeOK'
    OBVIOUS
  <2>2. CASE UNCHANGED directoryVars
    BY <2>1, <2>2 DEF DirectoryTypeOK, directoryVars
  <2>3. CASE DirectoryNext
    BY <2>1, <2>3, RecordSaved, LevelCreated, LevelEdited, RoomSaved, BranchesAssigned DEF DirectoryNext
  <2> QED  BY <2>1, <2>2, <2>3
<1> QED  BY <1>1, <1>2, PTL DEF DirectorySpec

\* The safety property the run checks: the validator of an import and the services
\* that write its rows accept the same rows, whatever the directory holds.
THEOREM RowsStayJudged == DirectorySpec => []DirectorySafe
<1>1. ASSUME DirectoryTypeOK  PROVE ClassesJudgedAsWritten
  BY <1>1, JudgedIsWritten, WrittenIsJudged DEF ClassesJudgedAsWritten
<1>2. ASSUME DirectoryTypeOK  PROVE RowsJudgedAsWritten
  BY <1>2, LevelJudgedAsWritten, TeacherJudgedAsWritten DEF RowsJudgedAsWritten, CourseJudged, CourseWritten
<1>3. DirectoryTypeOK => DirectorySafe
  BY <1>1, <1>2 DEF DirectorySafe
<1> QED  BY <1>3, DirectoryInvariance, PTL

-----------------------------------------------------------------------------
(* The register and its reports: EnrollmentHistory, for any students, classes *)
(* and writers.                                                               *)

StayRow == [learner : Learners, group : Groups, status : Serving \cup Over, enrolled : Nat, source : SUBSET Stays]

\* Nobody has begun, and nothing is recorded, after the clock; every event is of
\* an enrollment on record.
RegisterInv ==
    /\ clock \in Nat /\ began \in [Writers -> Nat]
    /\ \A c \in Writers : began[c] <= clock
    /\ OnRecord \subseteq Stays /\ \A e \in OnRecord : stay[e] \in StayRow
    /\ \A v \in events : v.stay \in OnRecord /\ v.at \in Nat /\ v.at <= clock
    /\ RegisterTypeOK

LEMMA RegisterBegins == RegisterInit => RegisterInv
<1> SUFFICES ASSUME RegisterInit  PROVE RegisterInv
  OBVIOUS
<1>1. OnRecord = {} /\ events = {} /\ clock = 0 /\ began = [c \in Writers |-> 0]
  BY DEF RegisterInit, TimelineInit, OnRecord
<1> QED  BY <1>1 DEF RegisterInv, RegisterTypeOK

\* What a command may write: rows of their types; of an enrollment on record
\* only the status, and never back to an operational one; of others, one, into a
\* class where the student has none, with an event that puts it on record.
MayWrite(c, rs, recorded) ==
    /\ DOMAIN rs \subseteq Stays
    /\ \A x \in DOMAIN rs : rs[x] \in StayRow /\ rs[x].source \subseteq OnRecord
    /\ \A x \in DOMAIN rs \cap OnRecord :
          /\ rs[x].learner = stay[x].learner /\ rs[x].group = stay[x].group /\ rs[x].source = stay[x].source
          /\ rs[x].status \in Serving => stay[x].status \in Serving
    /\ \A x \in DOMAIN rs \ OnRecord :
          /\ Free(rs[x].learner, rs[x].group)
          /\ \E v \in recorded : v.stay = x /\ v.type \in {"ENROLLED", "TRANSFERRED", "REENROLLED"}
          /\ \A y \in DOMAIN rs \ OnRecord : x = y
    /\ \A v \in recorded : v.stay \in DOMAIN rs /\ v.at = began[c]

\* What every command leaves: what was recorded, and what each row was made from.
Records(c) ==
    /\ OnRecord \subseteq DOMAIN stay'
    /\ \A e \in OnRecord : stay'[e].source = stay[e].source
    /\ events \subseteq events'
    /\ \A v \in events' : v \in events \/ (v.stay \in DOMAIN stay' /\ v.at = began[c])

LEMMA CommitWrites ==
    ASSUME NEW c, NEW rs, NEW recorded, Commit(c, rs, recorded)
    PROVE  /\ DOMAIN stay' = DOMAIN rs \cup OnRecord
           /\ \A x \in DOMAIN rs : stay'[x] = rs[x]
           /\ \A x \in OnRecord : x \notin DOMAIN rs => stay'[x] = stay[x]
           /\ events' = events \cup recorded
           /\ clock' = clock /\ began' = [began EXCEPT ![c] = 0] /\ began[c] > 0
BY DEF Commit, Overlaid, Ends, OnRecord

LEMMA CommitKeeps ==
    ASSUME RegisterInv, NEW c \in Writers, NEW rs, NEW recorded,
           Commit(c, rs, recorded), MayWrite(c, rs, recorded)
    PROVE  RegisterInv' /\ Records(c)
<1>1. /\ DOMAIN stay' = DOMAIN rs \cup OnRecord
      /\ \A x \in DOMAIN rs : stay'[x] = rs[x]
      /\ \A x \in OnRecord : x \notin DOMAIN rs => stay'[x] = stay[x]
      /\ events' = events \cup recorded
      /\ clock' = clock /\ began' = [began EXCEPT ![c] = 0] /\ began[c] > 0
  BY CommitWrites
<1>2. clock' \in Nat /\ began' \in [Writers -> Nat] /\ \A d \in Writers : began'[d] <= clock'
  BY <1>1 DEF RegisterInv
<1>3. DOMAIN stay' \subseteq Stays /\ \A e \in DOMAIN stay' : stay'[e] \in StayRow
  BY <1>1 DEF RegisterInv, MayWrite
<1>4. \A v \in events' : v.stay \in DOMAIN stay' /\ v.at \in Nat /\ v.at <= clock'
  BY <1>1 DEF RegisterInv, MayWrite
<1>5. \A e \in DOMAIN stay' : /\ stay'[e].status \in Serving \cup Over
                              /\ stay'[e].source \subseteq DOMAIN stay'
                              /\ \E v \in events' : v.stay = e /\ v.type \in {"ENROLLED", "TRANSFERRED", "REENROLLED"}
  <2>1. TAKE e \in DOMAIN stay'
  <2>2. CASE e \in DOMAIN rs /\ e \notin OnRecord
    BY <1>1, <2>2 DEF MayWrite, StayRow
  <2>3. CASE e \in DOMAIN rs /\ e \in OnRecord
    BY <1>1, <2>3 DEF MayWrite, StayRow, RegisterInv, RegisterTypeOK
  <2>4. CASE e \notin DOMAIN rs
    BY <1>1, <2>4 DEF RegisterInv, RegisterTypeOK
  <2> QED  BY <2>2, <2>3, <2>4
<1>6. ASSUME NEW e \in DOMAIN stay', NEW f \in DOMAIN stay',
             stay'[e].learner = stay'[f].learner, stay'[e].group = stay'[f].group,
             {stay'[e].status, stay'[f].status} \subseteq Serving
      PROVE  e = f
  <2>1. ASSUME NEW x \in OnRecord, stay'[x].status \in Serving
        PROVE  stay[x].status \in Serving /\ stay'[x].learner = stay[x].learner /\ stay'[x].group = stay[x].group
    BY <1>1, <2>1 DEF MayWrite
  <2>2. ASSUME NEW x \in DOMAIN stay', x \notin OnRecord
        PROVE  x \in DOMAIN rs \ OnRecord /\ Free(stay'[x].learner, stay'[x].group)
    BY <1>1, <2>2 DEF MayWrite
  <2>3. stay'[e].status \in Serving /\ stay'[f].status \in Serving
    BY <1>6
  <2>4. CASE e \in OnRecord /\ f \in OnRecord
    BY <1>6, <2>1, <2>3, <2>4 DEF RegisterInv, RegisterTypeOK
  <2>5. CASE e \in OnRecord /\ f \notin OnRecord
    BY <1>6, <2>1, <2>2, <2>3, <2>5 DEF Free
  <2>6. CASE e \notin OnRecord /\ f \in OnRecord
    BY <1>6, <2>1, <2>2, <2>3, <2>6 DEF Free
  <2>7. CASE e \notin OnRecord /\ f \notin OnRecord
    BY <2>2, <2>7 DEF MayWrite
  <2> QED  BY <2>4, <2>5, <2>6, <2>7
<1>7. RegisterInv'
  BY <1>2, <1>3, <1>4, <1>5, <1>6 DEF RegisterInv, RegisterTypeOK, OnRecord
<1>8. Records(c)
  <2>1. \A e \in OnRecord : stay'[e].source = stay[e].source
    BY <1>1 DEF MayWrite
  <2>2. \A v \in events' : v \in events \/ (v.stay \in DOMAIN stay' /\ v.at = began[c])
    BY <1>1 DEF MayWrite
  <2> QED  BY <1>1, <2>1, <2>2 DEF Records
<1> QED  BY <1>7, <1>8

LEMMA EventFields ==
    ASSUME NEW e, NEW type, NEW to, NEW c
    PROVE  /\ Event(e, type, to, c).stay = e /\ Event(e, type, to, c).type = type
           /\ Event(e, type, to, c).at = began[c]
BY DEF Event

\* A new enrollment may be put on record.
LEMMA MayInsert ==
    ASSUME RegisterInv, NEW c \in Writers, NEW f \in Unused, NEW l \in Learners, NEW g \in Groups,
           NEW st \in Serving, NEW date \in GivenDates, NEW source \in SUBSET OnRecord,
           Free(l, g),
           NEW recorded, \A v \in recorded : v.stay = f /\ v.at = began[c],
           \E v \in recorded : v.type \in {"ENROLLED", "TRANSFERRED", "REENROLLED"}
    PROVE  MayWrite(c, Insert(f, l, g, st, date, source), recorded)
<1> DEFINE rs == Insert(f, l, g, st, date, source)
<1>1. DOMAIN rs = {f} /\ f \notin OnRecord /\ f \in Stays /\ source \subseteq Stays
  BY DEF Insert, RowOf, Unused, RegisterInv
<1>2. rs[f] = [learner |-> l, group |-> g, status |-> st, enrolled |-> date, source |-> source]
  BY DEF Insert, RowOf
<1>3. date \in Nat
  BY DEF GivenDates, RegisterInv
<1> HIDE DEF rs
<1>4. /\ rs[f] \in StayRow /\ rs[f].source = source
      /\ rs[f].learner = l /\ rs[f].group = g
  BY <1>1, <1>2, <1>3 DEF StayRow
<1>5. MayWrite(c, rs, recorded)
  BY <1>1, <1>4 DEF MayWrite
<1> QED  BY <1>5 DEF rs

LEMMA CreateStays ==
    ASSUME RegisterInv, NEW c \in Writers, CreateStay(c)
    PROVE  RegisterInv' /\ Records(c)
<1>1. PICK e \in Unused, l \in Learners, g \in Groups, st \in {"PENDING", "TRIAL", "ACTIVE"}, date \in GivenDates :
        /\ Free(l, g)
        /\ Commit(c, Insert(e, l, g, st, date, {}),
               {Event(e, "ENROLLED", st, c)}
               \cup (IF st = "ACTIVE" THEN {Event(e, "ACTIVATED", st, c)} ELSE {})
               \cup (IF st = "TRIAL" THEN {Event(e, "TRIAL_STARTED", st, c)} ELSE {}))
  BY DEF CreateStay
<1> DEFINE recorded == {Event(e, "ENROLLED", st, c)}
               \cup (IF st = "ACTIVE" THEN {Event(e, "ACTIVATED", st, c)} ELSE {})
               \cup (IF st = "TRIAL" THEN {Event(e, "TRIAL_STARTED", st, c)} ELSE {})
<1>2. /\ \A v \in recorded : v.stay = e /\ v.at = began[c]
      /\ \E v \in recorded : v.type \in {"ENROLLED", "TRANSFERRED", "REENROLLED"}
  BY EventFields
<1>3. st \in Serving /\ {} \in SUBSET OnRecord
  BY DEF Serving
<1>4. MayWrite(c, Insert(e, l, g, st, date, {}), recorded)
  <2> HIDE DEF recorded
  <2> QED  BY <1>1, <1>2, <1>3, MayInsert
<1>5. Commit(c, Insert(e, l, g, st, date, {}), recorded)
  BY <1>1
<1> HIDE DEF recorded
<1> QED  BY <1>4, <1>5, CommitKeeps

LEMMA ReenrollStays ==
    ASSUME RegisterInv, NEW c \in Writers, ReenrollStay(c)
    PROVE  RegisterInv' /\ Records(c)
<1>1. PICK e \in OnRecord, f \in Unused, g \in Groups, st \in {"PENDING", "TRIAL", "ACTIVE"}, date \in GivenDates :
        /\ Free(stay[e].learner, g)
        /\ Commit(c, Insert(f, stay[e].learner, g, st, date, {e}), {Event(f, "REENROLLED", st, c)})
  BY DEF ReenrollStay
<1> DEFINE recorded == {Event(f, "REENROLLED", st, c)}
           l == stay[e].learner
<1>2. /\ \A v \in recorded : v.stay = f /\ v.at = began[c]
      /\ \E v \in recorded : v.type \in {"ENROLLED", "TRANSFERRED", "REENROLLED"}
  BY EventFields
<1>3. st \in Serving /\ {e} \in SUBSET OnRecord /\ l \in Learners
  BY DEF Serving, RegisterInv, StayRow
<1>4. Free(l, g)
  BY <1>1
<1>5. MayWrite(c, Insert(f, l, g, st, date, {e}), recorded)
  <2> HIDE DEF recorded, l
  <2> QED  BY <1>2, <1>3, <1>4, MayInsert
<1>6. Commit(c, Insert(f, l, g, st, date, {e}), recorded)
  BY <1>1
<1> HIDE DEF recorded, l
<1> QED  BY <1>5, <1>6, CommitKeeps

\* An operational enrollment may change its status.
LEMMA MayTurn ==
    ASSUME RegisterInv, NEW c \in Writers, NEW e \in OnRecord, stay[e].status \in Serving,
           NEW st \in Serving \cup Over
    PROVE  /\ DOMAIN Turned(e, st) = {e}
           /\ Turned(e, st)[e] \in StayRow
           /\ Turned(e, st)[e].learner = stay[e].learner
           /\ Turned(e, st)[e].group = stay[e].group
           /\ Turned(e, st)[e].source = stay[e].source
           /\ Turned(e, st)[e].status = st
<1>1. DOMAIN Turned(e, st) = {e} /\ Turned(e, st)[e] = [stay[e] EXCEPT !.status = st]
  BY DEF Turned, RowOf
<1>2. PICK row \in StayRow : row = stay[e]
  BY DEF RegisterInv
<1>3. [row EXCEPT !.status = st] \in StayRow
  BY <1>2 DEF StayRow
<1> QED  BY <1>1, <1>2, <1>3 DEF StayRow

LEMMA TransitionStays ==
    ASSUME RegisterInv, NEW c \in Writers, TransitionStay(c)
    PROVE  RegisterInv' /\ Records(c)
<1>1. PICK e \in OnRecord, m \in Moves :
        /\ stay[e].status = m[1]
        /\ Commit(c, Turned(e, m[2]), {Event(e, m[3], m[2], c)})
  BY DEF TransitionStay
<1>2. m[1] \in Serving /\ m[2] \in Serving \cup Over
  BY DEF Moves, Serving, Over
<1> DEFINE rs == Turned(e, m[2])
           recorded == {Event(e, m[3], m[2], c)}
<1>3. /\ DOMAIN rs = {e} /\ rs[e] \in StayRow
      /\ rs[e].learner = stay[e].learner /\ rs[e].group = stay[e].group /\ rs[e].source = stay[e].source
  BY <1>1, <1>2, MayTurn
<1>4. \A v \in recorded : v.stay = e /\ v.at = began[c]
  BY EventFields
<1>5. e \in Stays /\ stay[e].source \subseteq OnRecord
  BY DEF RegisterInv, RegisterTypeOK
<1>6. Commit(c, rs, recorded)
  BY <1>1
<1> HIDE DEF rs, recorded
<1>7. MayWrite(c, rs, recorded)
  BY <1>1, <1>2, <1>3, <1>4, <1>5 DEF MayWrite
<1> QED  BY <1>6, <1>7, CommitKeeps

LEMMA TransferStays ==
    ASSUME RegisterInv, NEW c \in Writers, TransferStay(c)
    PROVE  RegisterInv' /\ Records(c)
<1>1. PICK e \in OnRecord, f \in Unused, g \in Groups, date \in GivenDates :
        /\ stay[e].status \in Serving /\ stay[e].group # g
        /\ Free(stay[e].learner, g)
        /\ Commit(c, Overlaid(Turned(e, "WITHDRAWN"), Insert(f, stay[e].learner, g, stay[e].status, date, {e})),
               {Event(e, "TRANSFERRED", "WITHDRAWN", c), Event(f, "TRANSFERRED", stay[e].status, c)})
  BY DEF TransferStay
<1> DEFINE l == stay[e].learner
           st == stay[e].status
           left == Turned(e, "WITHDRAWN")
           joined == Insert(f, l, g, st, date, {e})
           rs == Overlaid(left, joined)
           recorded == {Event(e, "TRANSFERRED", "WITHDRAWN", c), Event(f, "TRANSFERRED", st, c)}
<1>2. l \in Learners /\ st \in Serving /\ e \in Stays /\ stay[e].source \subseteq OnRecord /\ Free(l, g)
  BY <1>1 DEF RegisterInv, RegisterTypeOK, StayRow
<1>3. "WITHDRAWN" \in Serving \cup Over /\ "WITHDRAWN" \notin Serving
  BY DEF Serving, Over
<1>4. /\ DOMAIN left = {e} /\ left[e] \in StayRow /\ left[e].status \notin Serving
      /\ left[e].learner = l /\ left[e].group = stay[e].group /\ left[e].source = stay[e].source
  BY <1>1, <1>3, MayTurn
<1>5. /\ DOMAIN joined = {f} /\ f \notin OnRecord /\ f \in Stays
      /\ joined[f] = [learner |-> l, group |-> g, status |-> st, enrolled |-> date, source |-> {e}]
  BY DEF Insert, RowOf, Unused
<1>6. joined[f] \in StayRow /\ joined[f].learner = l /\ joined[f].group = g /\ joined[f].source = {e}
  <2>1. date \in Nat
    BY DEF GivenDates, RegisterInv
  <2> HIDE DEF l, st, joined
  <2> QED  BY <1>2, <1>5, <2>1 DEF StayRow
<1>7. DOMAIN rs = {e, f} /\ rs[e] = left[e] /\ rs[f] = joined[f] /\ e # f
  <2> HIDE DEF left, joined
  <2> QED  BY <1>4, <1>5 DEF Overlaid
<1>8. /\ \A v \in recorded : v.stay \in {e, f} /\ v.at = began[c]
      /\ \E v \in recorded : v.stay = f /\ v.type = "TRANSFERRED"
  BY EventFields
<1>9. Commit(c, rs, recorded)
  BY <1>1
<1> HIDE DEF l, st, left, joined, rs, recorded
<1>10. MayWrite(c, rs, recorded)
  <2>1. \A x \in DOMAIN rs : rs[x] \in StayRow /\ rs[x].source \subseteq OnRecord
    BY <1>2, <1>4, <1>6, <1>7
  <2>2. \A x \in DOMAIN rs \cap OnRecord : x = e
    BY <1>5, <1>7
  <2>3. \A x \in DOMAIN rs \ OnRecord : x = f
    BY <1>7
  <2>4. /\ rs[e].learner = stay[e].learner /\ rs[e].group = stay[e].group /\ rs[e].source = stay[e].source
        /\ rs[e].status \notin Serving
    BY <1>4, <1>7 DEF l
  <2>5. Free(rs[f].learner, rs[f].group)
    BY <1>2, <1>6, <1>7
  <2> QED  BY <1>2, <1>5, <1>7, <1>8, <2>1, <2>2, <2>3, <2>4, <2>5 DEF MayWrite
<1> QED  BY <1>9, <1>10, CommitKeeps

\* Every step leaves the invariant, and records only of now.
LEMMA RegisterKeeps ==
    ASSUME RegisterInv, RegisterNext
    PROVE  /\ RegisterInv'
           /\ UNCHANGED <<stay, events>> \/ \E c \in Writers : began[c] > 0 /\ Records(c)
<1>1. ASSUME NEW c \in Writers, Begins(c), UNCHANGED <<stay, events>>
      PROVE  RegisterInv'
  <2>1. clock' = clock + 1 /\ began' = [began EXCEPT ![c] = clock + 1]
    BY <1>1 DEF Begins
  <2>2. clock' \in Nat /\ began' \in [Writers -> Nat] /\ \A d \in Writers : began'[d] <= clock'
    BY <2>1 DEF RegisterInv
  <2>3. \A v \in events : v.at \in Nat /\ v.at <= clock'
    BY <2>1 DEF RegisterInv
  <2> QED  BY <1>1, <2>2, <2>3 DEF RegisterInv, RegisterTypeOK, OnRecord
<1>2. ASSUME NEW c \in Writers, Ends(c), UNCHANGED <<stay, events>>
      PROVE  RegisterInv'
  <2>1. clock' = clock /\ began' = [began EXCEPT ![c] = 0]
    BY <1>2 DEF Ends
  <2>2. began' \in [Writers -> Nat] /\ \A d \in Writers : began'[d] <= clock'
    BY <2>1 DEF RegisterInv
  <2> QED  BY <1>2, <2>1, <2>2 DEF RegisterInv, RegisterTypeOK, OnRecord
<1>3. ASSUME NEW c \in Writers, CreateStay(c) \/ TransitionStay(c) \/ TransferStay(c) \/ ReenrollStay(c)
      PROVE  RegisterInv' /\ Records(c) /\ began[c] > 0
  <2>1. began[c] > 0
    BY <1>3 DEF CreateStay, TransitionStay, TransferStay, ReenrollStay, Commit, Ends
  <2> QED  BY <1>3, <2>1, CreateStays, TransitionStays, TransferStays, ReenrollStays
<1> QED  BY <1>1, <1>2, <1>3 DEF RegisterNext

\* The completions of an enrollment among the events E, and the earliest.
Finished(E, e) == {v \in E : v.stay = e /\ v.type = "COMPLETED"}

FinishedAt(E, e) == Min({v.at : v \in Finished(E, e)})

LEMMA FinishedTells ==
    ASSUME NEW E, \A v \in E : v.at \in Nat, NEW e, Finished(E, e) # {}
    PROVE  /\ FinishedAt(E, e) \in Nat
           /\ \E v \in Finished(E, e) : v.at = FinishedAt(E, e)
           /\ \A v \in Finished(E, e) : FinishedAt(E, e) <= v.at
<1> DEFINE S == {v.at : v \in Finished(E, e)}
<1>1. S \subseteq Nat /\ S # {}
  BY DEF Finished
<1>2. PICK m \in S : \A y \in S : m <= y
  <2> HIDE DEF S
  <2> QED  BY <1>1, Least
<1>3. Min(S) \in S /\ \A y \in S : Min(S) <= y
  <2> HIDE DEF S
  <2> QED  BY <1>2, Zenon DEF Min
<1> QED  BY <1>1, <1>3 DEF FinishedAt

\* Events after t tell nothing of what was completed by t.
LEMMA FinishedStays ==
    ASSUME NEW E, NEW F, E \subseteq F, \A v \in F : v.at \in Nat, NEW t \in Nat,
           \A v \in F : v \in E \/ t < v.at,
           NEW e
    PROVE  /\ Finished(F, e) # {} /\ FinishedAt(F, e) <= t <=> Finished(E, e) # {} /\ FinishedAt(E, e) <= t
           /\ Finished(E, e) # {} /\ FinishedAt(E, e) <= t => FinishedAt(F, e) = FinishedAt(E, e)
<1>1. Finished(E, e) \subseteq Finished(F, e) /\ \A v \in Finished(F, e) : v \in Finished(E, e) \/ t < v.at
  BY DEF Finished
<1>2. \A v \in E : v.at \in Nat
  OBVIOUS
<1>3. ASSUME Finished(F, e) # {}, FinishedAt(F, e) <= t
      PROVE  Finished(E, e) # {} /\ FinishedAt(E, e) = FinishedAt(F, e)
  <2>1. /\ FinishedAt(F, e) \in Nat
        /\ \E v \in Finished(F, e) : v.at = FinishedAt(F, e)
        /\ \A v \in Finished(F, e) : FinishedAt(F, e) <= v.at
    BY <1>3, FinishedTells
  <2>2. PICK v \in Finished(F, e) : v.at = FinishedAt(F, e)
    BY <2>1
  <2>3. v \in Finished(E, e)
    BY <1>1, <1>3, <2>1, <2>2
  <2>4. /\ FinishedAt(E, e) \in Nat
        /\ \E w \in Finished(E, e) : w.at = FinishedAt(E, e)
        /\ \A w \in Finished(E, e) : FinishedAt(E, e) <= w.at
    BY <1>2, <2>3, FinishedTells
  <2> QED  BY <1>1, <2>1, <2>2, <2>3, <2>4
<1>4. ASSUME Finished(E, e) # {}, FinishedAt(E, e) <= t
      PROVE  Finished(F, e) # {} /\ FinishedAt(F, e) <= t
  <2>1. /\ FinishedAt(E, e) \in Nat
        /\ \E v \in Finished(E, e) : v.at = FinishedAt(E, e)
    BY <1>2, <1>4, FinishedTells
  <2>2. PICK v \in Finished(F, e) : v.at = FinishedAt(E, e)
    BY <1>1, <2>1
  <2>3. /\ FinishedAt(F, e) \in Nat
        /\ \A w \in Finished(F, e) : FinishedAt(F, e) <= w.at
    BY <2>2, FinishedTells
  <2> QED  BY <1>4, <2>1, <2>2, <2>3
<1> QED  BY <1>3, <1>4

LEMMA CompletionsFinished ==
    \A e : /\ Completions(e) = Finished(events, e) /\ CompletedAt(e) = FinishedAt(events, e)
           /\ Completions(e)' = Finished(events', e) /\ CompletedAt(e)' = FinishedAt(events', e)
BY DEF Completions, CompletedAt, Finished, FinishedAt

\* What consecutive periods count, their union counts.
LEMMA PeriodsJoin == RegisterInv => PeriodsAddUp
<1> SUFFICES ASSUME RegisterInv, NEW to \in Instants, NEW from \in 1 .. to, NEW mid \in from .. to - 1
             PROVE  /\ EventsIn(from, to) = EventsIn(from, mid) \cup EventsIn(mid + 1, to)
                    /\ EventsIn(from, mid) \cap EventsIn(mid + 1, to) = {}
                    /\ Cohort(from, to) = Cohort(from, mid) \cup Cohort(mid + 1, to)
                    /\ Reenrolled(from, mid) \cup Reenrolled(mid + 1, to) \subseteq Reenrolled(from, to)
  BY DEF PeriodsAddUp
<1>1. from \in Nat /\ mid \in Nat /\ to \in Nat /\ from <= mid /\ mid < to
  BY TimelineAssumption DEF Instants
<1>2. \A at \in Nat : /\ Covers(from, to, at) <=> Covers(from, mid, at) \/ Covers(mid + 1, to, at)
                      /\ ~(Covers(from, mid, at) /\ Covers(mid + 1, to, at))
                      /\ Until(mid, at) => Until(to, at)
  BY <1>1 DEF Covers, AddDay, Until
<1>3. \A v \in events : v.at \in Nat
  BY DEF RegisterInv
<1>4. \A e : Completions(e) # {} => CompletedAt(e) \in Nat
  BY <1>3, FinishedTells, CompletionsFinished
<1>5. Cohort(from, to) = Cohort(from, mid) \cup Cohort(mid + 1, to)
  BY <1>2, <1>4 DEF Cohort
<1>6. \A e : ReenrolledBy(e, mid) => ReenrolledBy(e, to)
  BY <1>2, <1>3 DEF ReenrolledBy
<1>7. Reenrolled(from, mid) \cup Reenrolled(mid + 1, to) \subseteq Reenrolled(from, to)
  BY <1>5, <1>6 DEF Reenrolled
<1> QED  BY <1>2, <1>3, <1>5, <1>7 DEF EventsIn

\* A step after every command that began by t has ended keeps what the reports
\* up to t read.
LEMMA SettledEvents ==
    ASSUME RegisterInv, [RegisterNext]_registerVars, NEW t \in Instants, Settled(t)
    PROVE  /\ \A v \in events' : v.at \in Nat
           /\ events \subseteq events' /\ \A v \in events' : v \in events \/ t < v.at
           /\ OnRecord \subseteq DOMAIN stay'
           /\ \A e \in OnRecord : stay'[e].source = stay[e].source
<1>1. CASE UNCHANGED registerVars
  BY <1>1 DEF registerVars, RegisterInv, OnRecord
<1>2. CASE RegisterNext /\ UNCHANGED <<stay, events>>
  BY <1>2 DEF RegisterInv, OnRecord
<1>3. ASSUME NEW c \in Writers, began[c] > 0, Records(c), RegisterInv'
      PROVE  /\ \A v \in events' : v.at \in Nat
             /\ events \subseteq events' /\ \A v \in events' : v \in events \/ t < v.at
             /\ OnRecord \subseteq DOMAIN stay'
             /\ \A e \in OnRecord : stay'[e].source = stay[e].source
  <2>1. t < began[c]
    BY <1>3 DEF Settled
  <2> QED  BY <1>3, <2>1 DEF Records, RegisterInv
<1> QED  BY <1>1, <1>2, <1>3, RegisterKeeps

LEMMA ReportsStandStep ==
    ASSUME RegisterInv, [RegisterNext]_registerVars,
           NEW from \in Instants, NEW to \in Instants, Settled(to)
    PROVE  /\ LifecycleCounts(from, to)' = LifecycleCounts(from, to)
           /\ Cohort(from, to)' = Cohort(from, to)
           /\ Reenrolled(from, to)' = Reenrolled(from, to)
           /\ \A e \in OnRecord : EventsOf(e, to) # {} => StatusAsOf(e, to)' = StatusAsOf(e, to)
<1>1. /\ \A v \in events' : v.at \in Nat
      /\ events \subseteq events' /\ \A v \in events' : v \in events \/ to < v.at
      /\ OnRecord \subseteq DOMAIN stay'
      /\ \A e \in OnRecord : stay'[e].source = stay[e].source
  BY SettledEvents
<1>2. from \in Nat /\ to \in Nat
  BY DEF Instants
<1>3. \A at \in Nat : /\ Covers(from, to, at) <=> from <= at /\ at <= to
                      /\ Until(to, at) <=> at <= to
  BY <1>2 DEF Covers, AddDay, Until
<1>4. EventsIn(from, to)' = EventsIn(from, to)
  BY <1>1, <1>2, <1>3 DEF EventsIn
<1>5. LifecycleCounts(from, to)' = LifecycleCounts(from, to)
  BY <1>4 DEF LifecycleCounts
<1>6. \A e : /\ Completions(e)' # {} /\ CompletedAt(e)' <= to <=> Completions(e) # {} /\ CompletedAt(e) <= to
             /\ Completions(e) # {} /\ CompletedAt(e) <= to => CompletedAt(e)' = CompletedAt(e)
  <2>1. ASSUME NEW e
        PROVE  /\ Finished(events', e) # {} /\ FinishedAt(events', e) <= to <=> Finished(events, e) # {} /\ FinishedAt(events, e) <= to
               /\ Finished(events, e) # {} /\ FinishedAt(events, e) <= to => FinishedAt(events', e) = FinishedAt(events, e)
    BY <1>1, <1>2, FinishedStays
  <2> QED  BY <2>1, CompletionsFinished
<1>7. \A e : /\ Completions(e) # {} => CompletedAt(e) \in Nat
             /\ Completions(e)' # {} => CompletedAt(e)' \in Nat
  <2>1. \A v \in events : v.at \in Nat
    BY DEF RegisterInv
  <2> QED  BY <1>1, <2>1, FinishedTells, CompletionsFinished
<1>8. \A e : Completions(e) # {} => e \in OnRecord
  BY DEF Completions, RegisterInv
<1>9. \A e : /\ e \in Cohort(from, to) <=> Completions(e) # {} /\ from <= CompletedAt(e) /\ CompletedAt(e) <= to
             /\ e \in Cohort(from, to)' <=> e \in DOMAIN stay' /\ Completions(e)' # {} /\ from <= CompletedAt(e)' /\ CompletedAt(e)' <= to
  BY <1>3, <1>7, <1>8 DEF Cohort, OnRecord
<1>10. Cohort(from, to)' = Cohort(from, to)
  <2>1. \A e : e \in Cohort(from, to)' <=> e \in Cohort(from, to)
    BY <1>1, <1>6, <1>8, <1>9
  <2> QED  BY <2>1
<1>11. ASSUME NEW e \in Cohort(from, to)
       PROVE  ReenrolledBy(e, to)' <=> ReenrolledBy(e, to)
  <2>1. CompletedAt(e)' = CompletedAt(e)
    BY <1>6, <1>9
  <2>2. \A v \in events : stay'[v.stay].source = stay[v.stay].source
    BY <1>1 DEF RegisterInv
  <2>3. \A v \in events' : Until(to, v.at) => v \in events
    BY <1>1, <1>2, <1>3
  <2> QED  BY <1>1, <2>1, <2>2, <2>3 DEF ReenrolledBy
<1>12. Reenrolled(from, to)' = Reenrolled(from, to)
  <2> DEFINE now == {e \in Cohort(from, to) : ReenrolledBy(e, to)}
             then == {e \in Cohort(from, to)' : ReenrolledBy(e, to)'}
  <2>1. now = then
    BY <1>10, <1>11
  <2> QED  BY <2>1 DEF Reenrolled
<1>13. ASSUME NEW e, EventsOf(e, to) # {}
       PROVE  StatusAsOf(e, to)' = StatusAsOf(e, to)
  <2> DEFINE now == EventsOf(e, to)
             then == EventsOf(e, to)'
  <2>1. now = then
    BY <1>1, <1>2, <1>3 DEF EventsOf
  <2>2. /\ StatusAsOf(e, to) = (CHOOSE v \in now : \A w \in now : w.at <= v.at).to
        /\ StatusAsOf(e, to)' = (CHOOSE v \in then : \A w \in then : w.at <= v.at).to
    BY <1>13, <2>1 DEF StatusAsOf
  <2> HIDE DEF now, then
  <2> QED  BY <2>1, <2>2, Zenon
<1> QED  BY <1>5, <1>10, <1>12, <1>13

\* The inductive invariant of the register.
THEOREM RegisterInvariance == RegisterSpec => []RegisterInv
<1>1. RegisterInv /\ [RegisterNext]_registerVars => RegisterInv'
  <2> SUFFICES ASSUME RegisterInv, [RegisterNext]_registerVars  PROVE RegisterInv'
    OBVIOUS
  <2>1. CASE UNCHANGED registerVars
    BY <2>1 DEF registerVars, timeline, RegisterInv, RegisterTypeOK, OnRecord
  <2> QED  BY <2>1, RegisterKeeps
<1> QED  BY <1>1, RegisterBegins, PTL DEF RegisterSpec

\* A student has one operational enrollment in a class, every enrollment was put
\* on record by an event; and the reports of a period that is over stand, also
\* when the command that adds to the register waited for one that began later.
THEOREM RegisterStaysSafe == RegisterSpec => RegisterSafe
<1>1. RegisterInv => RegisterTypeOK /\ PeriodsAddUp
  BY PeriodsJoin DEF RegisterInv
<1>2. RegisterInv /\ [RegisterNext]_registerVars =>
        [\A from, to \in Instants : <<from, to>> \in Periods /\ Settled(to) =>
            /\ LifecycleCounts(from, to)' = LifecycleCounts(from, to)
            /\ Cohort(from, to)' = Cohort(from, to)
            /\ Reenrolled(from, to)' = Reenrolled(from, to)
            /\ \A e \in OnRecord : EventsOf(e, to) # {} => StatusAsOf(e, to)' = StatusAsOf(e, to)]_registerVars
  BY ReportsStandStep
<1> QED  BY <1>1, <1>2, RegisterInvariance, PTL DEF RegisterSpec, RegisterSafe, EnrollmentReportsStand

=============================================================================
