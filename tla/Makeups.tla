------------------------------- MODULE Makeups -------------------------------
(***************************************************************************)
(* AttendanceService, with the two commands of SchedulesService that reach *)
(* into it (cancel and reschedule a session): attendance sheets, their     *)
(* records, the entitlement an excused absence gives, and the bookings     *)
(* that use it.                                                            *)
(*                                                                         *)
(* A command locks the session, entitlement or booking rows it decides on  *)
(* before it reads them, and is one step here, with one exception.         *)
(* initializeInTransaction, which initialize, finalize, bookMakeup and     *)
(* rebookMakeup call with the row of the session locked, reads the         *)
(* bookings of the session without a lock and writes a record for each in  *)
(* later statements.  cancelMakeup locks a booking but neither session nor *)
(* sheet, so that it commits in between.  BeginInitialize is the read.     *)
(* What else the command reads stands on rows it has locked by then, and   *)
(* is judged in its second step.  From its inserts on the command holds    *)
(* the records of those bookings too, and cancelMakeup waits for it.       *)
(*                                                                         *)
(* An entitlement is unique to the record it is for, and is named by that  *)
(* record's session and student.  Dates, rooms and the compatibility of    *)
(* courses are left out: a destination they rule out is a refusal.         *)
(***************************************************************************)
EXTENDS Naturals, FiniteSets

CONSTANTS
    Sessions, Pupils, Bookings,
    Roster,      \* the students enrolled (TRIAL or ACTIVE) in a session's class
    Trial,       \* the students on trial
    Capacity,    \* the places of a session's class
    Unplanned,   \* sessions that do not exist yet
    NoRecord, NoBooking

Absences == Sessions \X Pupils

\* PRESENT stands for LATE and ONLINE too, and for an absence without excuse:
\* no command tells them apart.
RegularMark == {"UNMARKED", "PRESENT", "ABSENT_EXCUSED"}

MakeupMark == {"MAKEUP", "ABSENT_UNEXCUSED"}

\* CHECK attendance_records_makeup_fields_check: MAKEUP needs a booking.
Record ==
    [status : RegularMark, booking : {NoBooking}, enrolled : {TRUE}]
        \cup [status : {"UNMARKED"} \cup MakeupMark, booking : Bookings, enrolled : BOOLEAN]

Booking ==
    [absence : Absences, to : Sessions, status : {"BOOKED", "USED", "CANCELLED"}]

ASSUME MakeupsAssumption ==
    /\ IsFiniteSet(Pupils)
    /\ Roster \in [Sessions -> SUBSET Pupils]
    /\ Capacity \in [Sessions -> Nat]
    /\ Unplanned \subseteq Sessions
    /\ NoRecord \notin Record
    /\ NoBooking \notin Bookings
    /\ NoBooking \notin Booking

VARIABLES
    session,      \* attendance_sessions.status
    sheet,        \* attendance_sheets.status
    record,       \* attendance_records, by session and student
    entitlement,  \* makeup_entitlements.status, by absence
    booking,      \* makeup_bookings
    lapsed,       \* source sessions whose entitlements are past expires_at
    found         \* the bookings a command at this session has read, until it ends

makeupVars == <<session, sheet, record, entitlement, booking, lapsed, found>>

-----------------------------------------------------------------------------
(* Rows *)

Booked(b) == booking[b] # NoBooking /\ booking[b].status = "BOOKED"

Recorded(s) == {p \in Pupils : record[s][p] # NoRecord}

Freed(a) == IF a[1] \in lapsed THEN "EXPIRED" ELSE "AVAILABLE"

Unmarked(s) == {p \in Recorded(s) : record[s][p].status = "UNMARKED"}

\* The roster snapshot of a new session.
Snapshot(s) ==
    [p \in Pupils |->
        IF p \in Roster[s] THEN [status |-> "UNMARKED", booking |-> NoBooking, enrolled |-> TRUE]
        ELSE NoRecord]

\* Mutation: the record stays behind where the student no longer comes.
KeptBehind(r) == r

\* A record without its makeup: the enrolled student's own, or none.
Unbooked(r) ==
    IF r.enrolled THEN [r EXCEPT !.status = "UNMARKED", !.booking = NoBooking] ELSE NoRecord

\* The record b leaves at a session: INSERT ... ON CONFLICT DO UPDATE, which
\* only changes a record of the regular roster that is not marked yet.
Seated(r, b, mark) ==
    IF r = NoRecord THEN [status |-> mark, booking |-> b, enrolled |-> FALSE]
    ELSE IF r.booking = NoBooking /\ r.status = "UNMARKED"
         THEN [r EXCEPT !.status = "MAKEUP", !.booking = b]
    ELSE r

\* Fault: only the records of makeups are checked.
MakeupsMarked(s) == \A p \in Unmarked(s)' : record'[s][p].booking = NoBooking

AllMarked(s) == Unmarked(s)' = {}

-----------------------------------------------------------------------------
(* Sheets and records *)

MakeupsInit ==
    /\ session = [s \in Sessions |-> IF s \in Unplanned THEN "NONE" ELSE "SCHEDULED"]
    /\ sheet = [s \in Sessions |-> "OPEN"]
    /\ record = [s \in Sessions |->
                    IF s \in Unplanned THEN [p \in Pupils |-> NoRecord] ELSE Snapshot(s)]
    /\ entitlement = [a \in Absences |-> "NONE"]
    /\ booking = [b \in Bookings |-> NoBooking]
    /\ lapsed = {}
    /\ found = [s \in Sessions |-> {}]

\* The session is scheduled, its sheet open, and nobody holds its row.
Editable(s) == session[s] = "SCHEDULED" /\ sheet[s] = "OPEN" /\ found[s] = {}

CreateSession(s) ==
    /\ session[s] = "NONE"
    /\ session' = [session EXCEPT ![s] = "SCHEDULED"]
    /\ record' = [record EXCEPT ![s] = Snapshot(s)]
    /\ UNCHANGED <<sheet, entitlement, booking, lapsed, found>>

\* Whether a record may be given a status; CHECK refuses MAKEUP without a booking.
MayMark(r, mark) == mark \in IF r.booking = NoBooking THEN RegularMark ELSE MakeupMark

UpdateRecord(s, p, mark) ==
    /\ Editable(s)
    /\ record[s][p] # NoRecord
    /\ MayMark(record[s][p], mark)
    /\ record' = [record EXCEPT ![s][p].status = mark]
    /\ UNCHANGED <<session, sheet, entitlement, booking, lapsed, found>>

BookedAt(s) == {b \in Bookings : Booked(b) /\ booking[b].to = s}

\* A command locks session and sheet and reads the bookings.
BeginInitialize(s) ==
    /\ Editable(s)
    /\ BookedAt(s) # {}
    /\ found' = [found EXCEPT ![s] = BookedAt(s)]
    /\ UNCHANGED <<session, sheet, record, entitlement, booking, lapsed>>

FoundFor(s, p) == {b \in found[s] : booking[b].absence[2] = p}

AnyOf(B) == CHOOSE b \in B : TRUE

\* The records of s after the inserts, also for bookings cancelled since the read.
Initialized(s) ==
    [p \in Pupils |-> IF FoundFor(s, p) = {} THEN record[s][p]
                      ELSE Seated(record[s][p], AnyOf(FoundFor(s, p)), "UNMARKED")]

\* A command at s has read its bookings, or there are none to read.
Initializable(s) ==
    session[s] = "SCHEDULED" /\ sheet[s] = "OPEN" /\ (found[s] # {} \/ BookedAt(s) = {})

Initialize(s) ==
    /\ found[s] # {}
    /\ record' = [record EXCEPT ![s] = Initialized(s)]
    /\ found' = [found EXCEPT ![s] = {}]
    /\ UNCHANGED <<session, sheet, entitlement, booking, lapsed>>

\* A later check or statement refuses the command, and it is rolled back.
Abandon(s) ==
    /\ found[s] # {}
    /\ found' = [found EXCEPT ![s] = {}]
    /\ UNCHANGED <<session, sheet, record, entitlement, booking, lapsed>>

\* The absences of s that createEntitlements finds.
Eligible(s) ==
    {a \in {s} \X (Recorded(s)' \ Trial) :
        record'[s][a[2]].status = "ABSENT_EXCUSED" /\ record'[s][a[2]].booking = NoBooking}

\* Mutation: whoever had booked is taken to have attended.
AllBooked(s) == BookedAt(s)

\* The bookings at s whose student attended, by the record that names them.
Attended(s) ==
    {b \in BookedAt(s) :
        \E p \in Recorded(s)' : record'[s][p].booking = b /\ record'[s][p].status = "MAKEUP"}

\* Mutation: who did not come keeps the booking.
NoneMissed(s) == {}

Missed(s) == BookedAt(s) \ Attended(s)

Finalize(s) ==
    /\ Initializable(s)
    /\ record' = [record EXCEPT ![s] = Initialized(s)]
    /\ AllMarked(s)
    /\ session' = [session EXCEPT ![s] = "COMPLETED"]
    /\ sheet' = [sheet EXCEPT ![s] = "LOCKED"]
    /\ booking' = [b \in Bookings |->
                    IF b \in Attended(s) THEN [booking[b] EXCEPT !.status = "USED"]
                    ELSE IF b \in Missed(s) THEN [booking[b] EXCEPT !.status = "CANCELLED"]
                    ELSE booking[b]]
    /\ entitlement' = [a \in Absences |->
                        IF \E b \in Attended(s) : booking[b].absence = a THEN "USED"
                        ELSE IF entitlement[a] = "BOOKED" /\ \E b \in Missed(s) : booking[b].absence = a
                             THEN Freed(a)
                        ELSE IF a \in Eligible(s) /\ entitlement[a] = "NONE" THEN "AVAILABLE"
                        ELSE entitlement[a]]
    /\ found' = [found EXCEPT ![s] = {}]
    /\ UNCHANGED lapsed

\* Fault: the absence is corrected whatever became of its makeup.
AlwaysCorrectable(s, p, mark) == TRUE

\* An absence whose makeup is booked or used stays an absence.
Correctable(s, p, mark) ==
    entitlement[<<s, p>>] \in {"BOOKED", "USED"} => record[s][p].status # "ABSENT_EXCUSED"

\* What a correction makes of the entitlement: reconcileCorrectedEntitlement.
\* (createEntitlements runs for the whole session there; the others have theirs.)
Reconciled(s, p, mark) ==
    LET a == <<s, p>> IN
    CASE mark = "ABSENT_EXCUSED" /\ entitlement[a] = "REVOKED" -> Freed(a)
      [] mark = "ABSENT_EXCUSED" /\ entitlement[a] = "NONE" /\ p \notin Trial -> "AVAILABLE"
      [] record[s][p].status = "ABSENT_EXCUSED" /\ entitlement[a] = "AVAILABLE" -> "REVOKED"
      [] OTHER -> entitlement[a]

Correct(s, p, mark) ==
    /\ sheet[s] = "LOCKED"
    /\ record[s][p] # NoRecord
    /\ mark \notin {"UNMARKED", record[s][p].status}
    /\ MayMark(record[s][p], mark)
    /\ Correctable(s, p, mark)
    /\ record' = [record EXCEPT ![s][p].status = mark]
    /\ entitlement' = [entitlement EXCEPT ![<<s, p>>] = Reconciled(s, p, mark)]
    /\ UNCHANGED <<session, sheet, booking, lapsed, found>>

-----------------------------------------------------------------------------
(* Bookings *)

\* Mutation: a destination is never full.
AnyRoom(s, p) == TRUE

\* The places taken by others, makeups without a record included.
HasRoom(s, p) ==
    Cardinality({q \in Pupils : Initialized(s)[q] # NoRecord
                                 \/ \E b \in BookedAt(s) : booking[b].absence[2] = q} \ {p}) < Capacity[s]

\* A session p may make a lesson up in.
Destination(s, p) ==
    /\ Initializable(s)
    /\ LET r == Initialized(s)[p] IN r # NoRecord => r.booking = NoBooking /\ r.status = "UNMARKED"
    /\ HasRoom(s, p)

\* Mutation: the partial unique index on active bookings is missing.
NeverActive(a) == FALSE

\* The partial unique index makeup_bookings_active_entitlement_key.
ActivelyBooked(a) == \E b \in Bookings : Booked(b) /\ booking[b].absence = a

\* Mutation: any entitlement that has not ended may be booked.
NotEnded(a) == entitlement[a] \notin {"NONE", "EXPIRED", "REVOKED"}

Bookable(a) == entitlement[a] = "AVAILABLE"

BookMakeup(b, a, s) ==
    /\ booking[b] = NoBooking
    /\ Bookable(a)
    /\ session[a[1]] = "COMPLETED"
    /\ a[1] \notin lapsed
    /\ ~ActivelyBooked(a)
    /\ Destination(s, a[2])
    /\ booking' = [booking EXCEPT ![b] = [absence |-> a, to |-> s, status |-> "BOOKED"]]
    /\ entitlement' = [entitlement EXCEPT ![a] = "BOOKED"]
    /\ record' = [record EXCEPT ![s] = [Initialized(s) EXCEPT ![a[2]] = Seated(@, b, "UNMARKED")]]
    /\ found' = [found EXCEPT ![s] = {}]
    /\ UNCHANGED <<session, sheet, lapsed>>

RebookMakeup(b, s) ==
    /\ Booked(b)
    /\ LET a == booking[b].absence  p == a[2]  from == booking[b].to IN
        /\ s # from
        /\ a[1] \notin lapsed
        /\ Destination(s, p)
        /\ found[from] = {}   \* the row lock of its sheet
        /\ sheet[from] = "OPEN"
        /\ booking' = [booking EXCEPT ![b].to = s]
        /\ record' = [record EXCEPT ![from][p] = Unbooked(@),
                                    ![s] = [Initialized(s) EXCEPT ![p] = Seated(@, b, "MAKEUP")]]
    /\ found' = [found EXCEPT ![s] = {}]
    /\ UNCHANGED <<session, sheet, entitlement, lapsed>>

\* The sheet is the committed one, also while a command holds the session.
CancelMakeup(b) ==
    /\ Booked(b)
    /\ LET a == booking[b].absence  s == booking[b].to IN
        /\ booking' = [booking EXCEPT ![b].status = "CANCELLED"]
        /\ entitlement' = [entitlement EXCEPT ![a] = Freed(a)]
        /\ record' = IF sheet[s] = "OPEN" THEN [record EXCEPT ![s][a[2]] = Unbooked(@)] ELSE record
    /\ UNCHANGED <<session, sheet, lapsed, found>>

\* Time passes: expires_at of the entitlements given at s.
Lapse(s) ==
    /\ s \notin lapsed
    /\ \E p \in Pupils : entitlement[<<s, p>>] # "NONE"
    /\ lapsed' = lapsed \cup {s}
    /\ UNCHANGED <<session, sheet, record, entitlement, booking, found>>

-----------------------------------------------------------------------------
(* Sessions that are cancelled or moved *)

\* Mutation: a finalised session can still be cancelled or moved.
NotYetCancelled(s) == session[s] \in {"SCHEDULED", "COMPLETED"} /\ found[s] = {}

\* Only a scheduled session is cancelled or moved, by a command that locks its row.
Changeable(s) == session[s] = "SCHEDULED" /\ found[s] = {}

\* The entitlements with a cancelled booking at s, whatever it was cancelled for.
CancelledAt(s) ==
    {a \in Absences : \E b \in Bookings :
        booking'[b] # NoBooking /\ booking'[b].absence = a /\ booking'[b].to = s /\ booking'[b].status = "CANCELLED"}

CancelSession(s) ==
    /\ Changeable(s)
    /\ session' = [session EXCEPT ![s] = "CANCELLED"]
    /\ booking' = [b \in Bookings |->
                    IF Booked(b) /\ booking[b].to = s THEN [booking[b] EXCEPT !.status = "CANCELLED"]
                    ELSE booking[b]]
    /\ entitlement' = [a \in Absences |->
                        IF entitlement[a] = "BOOKED" /\ a \in CancelledAt(s) THEN Freed(a)
                        ELSE entitlement[a]]
    /\ record' = [record EXCEPT ![s] = [p \in Pupils |->
                    IF @[p] # NoRecord /\ @[p].booking # NoBooking THEN Unbooked(@[p]) ELSE @[p]]]
    /\ UNCHANGED <<sheet, lapsed, found>>

\* The bookings at s move with it, their records only exist at the replacement,
\* a session of the same class.  A record of a booking that does not move cannot
\* be copied: attendance_records_makeup_booking_match_fkey refuses it.
RescheduleSession(s, r) ==
    /\ Changeable(s)
    /\ session[r] = "NONE"
    /\ Capacity[r] = Capacity[s]
    /\ \A p \in Recorded(s) : record[s][p].booking # NoBooking => Booked(record[s][p].booking)
    /\ session' = [session EXCEPT ![s] = "RESCHEDULED", ![r] = "SCHEDULED"]
    /\ booking' = [b \in Bookings |->
                    IF Booked(b) /\ booking[b].to = s THEN [booking[b] EXCEPT !.to = r] ELSE booking[b]]
    /\ record' = [record EXCEPT ![r] = record[s], ![s] = [p \in Pupils |->
                    IF @[p] # NoRecord /\ @[p].booking # NoBooking THEN NoRecord ELSE @[p]]]
    /\ UNCHANGED <<sheet, entitlement, lapsed, found>>

-----------------------------------------------------------------------------
(* Reports *)

\* attendanceReport: the rows with this mark of a finalised session.
AttendanceRows(s, mark) ==
    {p \in Recorded(s) : sheet[s] = "LOCKED" /\ record[s][p].status = mark} \ Unmarked(s)

-----------------------------------------------------------------------------

SheetStep(s) ==
    \/ CreateSession(s) \/ BeginInitialize(s) \/ Initialize(s) \/ Abandon(s) \/ Finalize(s)
    \/ \E p \in Pupils, mark \in RegularMark \cup MakeupMark : UpdateRecord(s, p, mark) \/ Correct(s, p, mark)

BookingStep(b) ==
    \/ \E a \in Absences, s \in Sessions : BookMakeup(b, a, s)
    \/ \E s \in Sessions : RebookMakeup(b, s)
    \/ CancelMakeup(b)

MakeupsNext ==
    \/ \E s \in Sessions :
        SheetStep(s) \/ Lapse(s) \/ CancelSession(s) \/ \E r \in Sessions : RescheduleSession(s, r)
    \/ \E b \in Bookings : BookingStep(b)

MakeupsSpec == MakeupsInit /\ [][MakeupsNext]_makeupVars

-----------------------------------------------------------------------------
(* Properties *)

\* A record names the booking it is for, at that booking's session and of its
\* student (attendance_records_makeup_booking_match_fkey).
RecordsMatch ==
    \A s \in Sessions : \A p \in Recorded(s) :
        record[s][p].booking # NoBooking =>
            LET b == booking[record[s][p].booking] IN
            b # NoBooking /\ b.to = s /\ b.absence[2] = p

\* Every row is one the schema allows.
MakeupsTypeOK ==
    /\ session \in [Sessions -> {"NONE", "SCHEDULED", "COMPLETED", "CANCELLED", "RESCHEDULED"}]
    /\ sheet \in [Sessions -> {"OPEN", "LOCKED"}]
    /\ record \in [Sessions -> [Pupils -> Record \cup {NoRecord}]]
    /\ entitlement \in [Absences -> {"NONE", "AVAILABLE", "BOOKED", "USED", "EXPIRED", "REVOKED"}]
    /\ booking \in [Bookings -> Booking \cup {NoBooking}]
    /\ lapsed \subseteq Sessions
    /\ found \in [Sessions -> SUBSET Bookings]
    /\ \A s \in Sessions : \A b \in found[s] : booking[b] # NoBooking /\ booking[b].to = s
    /\ RecordsMatch

\* A booking that counts has its student on the sheet of a session still to
\* come: booking, moving, cancelling and finalising keep both tables in step.
BookedAttends ==
    \A b \in Bookings : Booked(b) =>
        LET s == booking[b].to  p == booking[b].absence[2] IN
        session[s] = "SCHEDULED" /\ record[s][p] # NoRecord /\ record[s][p].booking = b

\* The bookings of absence a that a session's cancellation released.
ReleasedByCancellation(a) ==
    \E b \in Bookings : booking[b] # NoBooking /\ booking[b].absence = a
        /\ booking[b].status = "CANCELLED" /\ session[booking[b].to] = "CANCELLED"

\* An entitlement is BOOKED exactly while a booking holds it.  The exception is
\* schedules.service.ts:1001: cancelling a session frees the entitlements of
\* all bookings ever cancelled there, also one booked elsewhere since.
BookedUnlessFreed ==
    \A a \in Absences :
        /\ entitlement[a] = "BOOKED" => ActivelyBooked(a)
        /\ ActivelyBooked(a) => entitlement[a] = "BOOKED" \/ ReleasedByCancellation(a)

\* A finalised sheet has no unmarked record, whatever is cancelled while it is
\* finalised and however it is corrected.
LockedIsMarked == \A s \in Sessions : sheet[s] = "LOCKED" => Unmarked(s) = {}

\* A makeup never fills a session beyond its class's places, nor does the record
\* of a cancelled booking that an initialisation brings back.
MakeupsFit ==
    \A s \in Sessions :
        (\E p \in Recorded(s) : ~record[s][p].enrolled) => Cardinality(Recorded(s)) <= Capacity[s]

\* A finalised sheet keeps its records, and none of them is unmarked again:
\* neither bookings nor sessions that change elsewhere reach into it.
LockedKeepsRecords ==
    [][\A s \in Sessions : sheet[s] = "LOCKED" =>
        \A p \in Pupils :
            /\ (record[s][p] = NoRecord) = (record'[s][p] = NoRecord)
            /\ p \in Unmarked(s)' => p \in Unmarked(s)]_makeupVars

\* The bookings of absence a that were attended, by the locked sheets.
AttendedFor(a) ==
    {b \in Bookings : booking[b] # NoBooking /\ booking[b].absence = a
        /\ LET s == booking[b].to IN
           sheet[s] = "LOCKED" /\ record[s][a[2]] # NoRecord
           /\ record[s][a[2]].booking = b /\ record[s][a[2]].status = "MAKEUP"}

\* Of the lessons attended for an absence, one has a booking that stands.  The
\* exceptions are of cancelled bookings, whose rights were given back: a missed
\* makeup is corrected to MAKEUP, which takes nothing back (attendance.service.ts:1104),
\* and an initialisation that read a booking before cancelMakeup committed writes
\* its record all the same (attendance.service.ts:980), to be marked as attended.
MadeUpTwiceOnlyOnceCancelled ==
    \A a \in Absences : \A b, c \in AttendedFor(a) :
        b # c => booking[b].status = "CANCELLED" \/ booking[c].status = "CANCELLED"

\* An absence that is reported as excused gave the right to make it up, and the
\* right was not revoked, by whatever corrections the mark has come about; it may
\* have been used or have expired.
ExcusedEntitles ==
    \A s \in Sessions : \A p \in AttendanceRows(s, "ABSENT_EXCUSED") \ Trial :
        entitlement[<<s, p>>] \notin {"NONE", "REVOKED"}

\* Sheets, bookings, rights and reports agree, and finalised sheets stand.
MakeupsSafe ==
    /\ [](/\ MakeupsTypeOK /\ BookedAttends /\ BookedUnlessFreed /\ LockedIsMarked
          /\ MakeupsFit /\ MadeUpTwiceOnlyOnceCancelled /\ ExcusedEntitles)
    /\ LockedKeepsRecords

\* What an absence still entitles to, by its bookings.
Right(a) ==
    LET live == {b \in Bookings : booking[b] # NoBooking /\ booking[b].absence = a
                                    /\ booking[b].status \in {"BOOKED", "USED"}}
    IN IF live = {} THEN "open"
       ELSE IF Cardinality(live) > 1 THEN "taken twice"
       ELSE IF \E b \in live : booking[b].status = "USED" THEN "spent" ELSE "taken"

Rights == INSTANCE MakeupRights WITH right <- [a \in Absences |-> Right(a)]

\* One absence is made up once: the tables of attendance implement MakeupRights.
MadeUpOnce == Rights!RightsSpec

=============================================================================
