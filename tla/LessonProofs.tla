---------------------------- MODULE LessonProofs ----------------------------
(***************************************************************************)
(* Proofs about Makeups, for any sessions, students and bookings, about    *)
(* Calendar, for any patterns, sessions, dates and times, and about        *)
(* Listings, for any rows, page sizes and clocks: what a cursor shows.     *)
(***************************************************************************)
EXTENDS Makeups, Calendar, Listings, SequenceTheorems, FiniteSetTheorems, TLAPS

(* The inductive invariant of Makeups, in parts. *)

LockedIsCompleted == \A s \in Sessions : sheet[s] = "LOCKED" => session[s] = "COMPLETED"

\* Only a session still to come is held by a command that has read its bookings.
FoundIsScheduled == \A s \in Sessions : found[s] # {} => session[s] = "SCHEDULED"

Live(b) == booking[b] # NoBooking /\ booking[b].status \in {"BOOKED", "USED"}

LiveOnce == \A b, c \in Bookings : (Live(b) /\ Live(c) /\ booking[b].absence = booking[c].absence) => b = c

UsedIsSpent ==
    \A b \in Bookings :
        (booking[b] # NoBooking /\ booking[b].status = "USED") => entitlement[booking[b].absence] = "USED"

Seats(rec) == {p \in Pupils : rec[p] # NoRecord}

\* A makeup student among these records has a place at s.
FitsIn(s, rec) == (\E p \in Seats(rec) : ~rec[p].enrolled) => Cardinality(Seats(rec)) <= Capacity[s]

\* Also with the records that a command under way is about to write.
InitializedFit == \A s \in Sessions : FitsIn(s, Initialized(s))

MInv ==
    /\ MakeupsTypeOK
    /\ LockedIsCompleted
    /\ BookedAttends
    /\ FoundIsScheduled
    /\ LiveOnce
    /\ UsedIsSpent
    /\ BookedUnlessFreed
    /\ LockedIsMarked
    /\ MakeupsFit
    /\ InitializedFit

-----------------------------------------------------------------------------
(* Seats *)

LEMMA OneRecord ==
    ASSUME NEW r \in Record
    PROVE  /\ r.status \in RegularMark \cup MakeupMark
           /\ r.booking \in Bookings \cup {NoBooking}
           /\ r.enrolled \in BOOLEAN
           /\ r.booking = NoBooking => r.enrolled /\ r.status \in RegularMark
           /\ r.booking # NoBooking => r.status \in {"UNMARKED"} \cup MakeupMark
BY MakeupsAssumption DEF Record, RegularMark, MakeupMark

LEMMA Seating ==
    ASSUME NEW r \in Record \cup {NoRecord}, NEW b \in Bookings, NEW mark \in {"UNMARKED", "MAKEUP"}
    PROVE  LET free == r = NoRecord \/ (r.booking = NoBooking /\ r.status = "UNMARKED") IN
           /\ Seated(r, b, mark) \in Record
           /\ Seated(r, b, mark).enrolled = (r # NoRecord /\ r.enrolled)
           /\ free => Seated(r, b, mark).booking = b
           /\ ~free => Seated(r, b, mark) = r
BY MakeupsAssumption DEF Record, RegularMark, MakeupMark, Seated

LEMMA Unbooking ==
    ASSUME NEW r \in Record
    PROVE  /\ Unbooked(r) \in Record \cup {NoRecord}
           /\ Unbooked(r) # NoRecord <=> r.enrolled
           /\ Unbooked(r) # NoRecord => /\ Unbooked(r).booking = NoBooking
                                        /\ Unbooked(r).status = "UNMARKED"
                                        /\ Unbooked(r).enrolled
BY MakeupsAssumption DEF Record, RegularMark, MakeupMark, Unbooked

LEMMA Marking ==
    ASSUME NEW r \in Record, NEW mark, MayMark(r, mark)
    PROVE  /\ [r EXCEPT !.status = mark] \in Record
           /\ [r EXCEPT !.status = mark].booking = r.booking
           /\ [r EXCEPT !.status = mark].enrolled = r.enrolled
           /\ [r EXCEPT !.status = mark].status = mark
BY MakeupsAssumption DEF Record, RegularMark, MakeupMark, MayMark

LEMMA OneBooking ==
    ASSUME MakeupsTypeOK, NEW b \in Bookings, booking[b] # NoBooking
    PROVE  /\ booking[b] \in Booking
           /\ booking[b].absence \in Absences
           /\ booking[b].absence[1] \in Sessions
           /\ booking[b].absence[2] \in Pupils
           /\ booking[b].to \in Sessions
           /\ booking[b].status \in {"BOOKED", "USED", "CANCELLED"}
           /\ booking[b] = [absence |-> booking[b].absence, to |-> booking[b].to, status |-> booking[b].status]
BY DEF MakeupsTypeOK, Booking, Absences

LEMMA OneRow ==
    ASSUME MakeupsTypeOK, NEW s \in Sessions, NEW p \in Pupils
    PROVE  /\ record[s][p] \in Record \cup {NoRecord}
           /\ p \in Recorded(s) <=> record[s][p] # NoRecord
           /\ p \in Recorded(s) <=> record[s][p] \in Record
BY MakeupsAssumption DEF MakeupsTypeOK, Recorded

LEMMA StillFits ==
    ASSUME NEW s \in Sessions, NEW old, NEW new, FitsIn(s, old),
           \A p \in Seats(new) : p \in Seats(old) /\ new[p].enrolled = old[p].enrolled
    PROVE  FitsIn(s, new)
<1>1. IsFiniteSet(Seats(old)) /\ IsFiniteSet(Seats(new))
  BY MakeupsAssumption, FS_Subset DEF Seats
<1>2. Seats(new) \subseteq Seats(old)
  OBVIOUS
<1>3. Cardinality(Seats(new)) <= Cardinality(Seats(old)) /\ Cardinality(Seats(old)) \in Nat
      /\ Cardinality(Seats(new)) \in Nat
  BY <1>1, <1>2, FS_Subset, FS_CardinalityType
<1>4. Capacity[s] \in Nat
  BY MakeupsAssumption
<1>5. (\E p \in Seats(new) : ~new[p].enrolled) => (\E p \in Seats(old) : ~old[p].enrolled)
  OBVIOUS
<1> QED  BY <1>3, <1>4, <1>5 DEF FitsIn

LEMMA RoomFits ==
    ASSUME NEW s \in Sessions, NEW p \in Pupils, HasRoom(s, p), NEW new,
           Seats(new) \subseteq Seats(Initialized(s)) \cup {p}
    PROVE  FitsIn(s, new)
<1> DEFINE taken == {q \in Pupils : Initialized(s)[q] # NoRecord
                                        \/ \E b \in BookedAt(s) : booking[b].absence[2] = q} \ {p}
<1>1. IsFiniteSet(taken) /\ p \notin taken
  BY MakeupsAssumption, FS_Subset
<1>2. Cardinality(taken) < Capacity[s]
  BY DEF HasRoom
<1>3. Seats(new) \subseteq taken \cup {p}
  BY DEF Seats
<1> HIDE DEF taken
<1>4. IsFiniteSet(taken \cup {p}) /\ Cardinality(taken \cup {p}) = Cardinality(taken) + 1
  BY <1>1, FS_AddElement
<1>5. Cardinality(Seats(new)) <= Cardinality(taken \cup {p}) /\ Cardinality(Seats(new)) \in Nat
  BY <1>3, <1>4, FS_Subset, FS_CardinalityType
<1>6. Capacity[s] \in Nat /\ Cardinality(taken) \in Nat
  BY <1>1, MakeupsAssumption, FS_CardinalityType
<1>7. Cardinality(Seats(new)) <= Capacity[s]
  BY <1>2, <1>4, <1>5, <1>6
<1> QED  BY <1>7 DEF FitsIn

\* What initialisation makes of the records of s: those of students who have
\* none that counts name a booking that was read, the others stay.
LEMMA Initializing ==
    ASSUME MInv, NEW s \in Sessions
    PROVE  /\ Initialized(s) \in [Pupils -> Record \cup {NoRecord}]
           /\ \A p \in Pupils : record[s][p] # NoRecord =>
                /\ Initialized(s)[p] # NoRecord
                /\ Initialized(s)[p].enrolled = record[s][p].enrolled
                /\ record[s][p].booking # NoBooking => Initialized(s)[p] = record[s][p]
           /\ \A p \in Pupils : (Initialized(s)[p] # NoRecord /\ Initialized(s)[p].booking # NoBooking) =>
                LET b == Initialized(s)[p].booking IN
                b \in Bookings /\ booking[b] # NoBooking /\ booking[b].to = s /\ booking[b].absence[2] = p
           /\ found[s] = {} => Initialized(s) = record[s]
<1> DEFINE chosen(p) == AnyOf(FoundFor(s, p))
<1>1. ASSUME NEW p \in Pupils
      PROVE  /\ record[s][p] \in Record \cup {NoRecord}
             /\ FoundFor(s, p) = {} => Initialized(s)[p] = record[s][p]
             /\ FoundFor(s, p) # {} => /\ Initialized(s)[p] = Seated(record[s][p], chosen(p), "UNMARKED")
                                       /\ chosen(p) \in FoundFor(s, p)
  BY OneRow DEF Initialized, AnyOf, MInv
<1>2. \A p \in Pupils : \A b \in FoundFor(s, p) :
        b \in Bookings /\ booking[b] # NoBooking /\ booking[b].to = s /\ booking[b].absence[2] = p
  BY DEF MInv, MakeupsTypeOK, FoundFor
<1>3. Initialized(s) = [p \in Pupils |-> Initialized(s)[p]]
  BY DEF Initialized
<1>4. found[s] = {} => \A p \in Pupils : Initialized(s)[p] = record[s][p]
  BY <1>1 DEF FoundFor
<1> HIDE DEF chosen
<1>5. ASSUME NEW p \in Pupils
      PROVE  /\ Initialized(s)[p] \in Record \cup {NoRecord}
             /\ record[s][p] # NoRecord =>
                  /\ Initialized(s)[p] # NoRecord
                  /\ Initialized(s)[p].enrolled = record[s][p].enrolled
                  /\ record[s][p].booking # NoBooking => Initialized(s)[p] = record[s][p]
             /\ (Initialized(s)[p] # NoRecord /\ Initialized(s)[p].booking # NoBooking) =>
                  LET b == Initialized(s)[p].booking IN
                  b \in Bookings /\ booking[b] # NoBooking /\ booking[b].to = s /\ booking[b].absence[2] = p
  <2>1. (record[s][p] # NoRecord /\ record[s][p].booking # NoBooking) =>
            LET b == record[s][p].booking IN
            b \in Bookings /\ booking[b] # NoBooking /\ booking[b].to = s /\ booking[b].absence[2] = p
    BY OneRow, OneRecord DEF MInv, MakeupsTypeOK, RecordsMatch
  <2>2. CASE FoundFor(s, p) = {}
    BY <1>1, <2>1, <2>2
  <2>3. CASE FoundFor(s, p) # {}
    <3>1. chosen(p) \in Bookings /\ booking[chosen(p)] # NoBooking /\ booking[chosen(p)].to = s
          /\ booking[chosen(p)].absence[2] = p
      BY <1>1, <1>2, <2>3
    <3>2. Initialized(s)[p] = Seated(record[s][p], chosen(p), "UNMARKED") /\ record[s][p] \in Record \cup {NoRecord}
      BY <1>1, <2>3
    <3>3. CASE record[s][p] = NoRecord \/ (record[s][p].booking = NoBooking /\ record[s][p].status = "UNMARKED")
      <4>1. /\ Initialized(s)[p] \in Record
            /\ Initialized(s)[p].enrolled = (record[s][p] # NoRecord /\ record[s][p].enrolled)
            /\ Initialized(s)[p].booking = chosen(p)
        BY <3>1, <3>2, <3>3, Seating
      <4>2. Initialized(s)[p] # NoRecord
        BY <4>1, MakeupsAssumption
      <4>3. record[s][p] # NoRecord => record[s][p].enrolled \in BOOLEAN
        BY <3>2, OneRecord
      <4> QED  BY <3>1, <3>3, <4>1, <4>2, <4>3
    <3>4. CASE ~(record[s][p] = NoRecord \/ (record[s][p].booking = NoBooking /\ record[s][p].status = "UNMARKED"))
      <4>1. Initialized(s)[p] = record[s][p]
        BY <3>1, <3>2, <3>4, Seating
      <4> QED  BY <2>1, <3>2, <4>1
    <3> QED  BY <3>3, <3>4
  <2> QED  BY <2>2, <2>3
<1>6. Initialized(s) \in [Pupils -> Record \cup {NoRecord}]
  BY <1>3, <1>5
<1>7. found[s] = {} => Initialized(s) = record[s]
  BY <1>3, <1>4 DEF MInv, MakeupsTypeOK
<1> QED  BY <1>5, <1>6, <1>7

\* A command's view of a session stands while neither it nor its bookings move on.
LEMMA SameView ==
    ASSUME NEW s \in Sessions, found'[s] = found[s], record'[s] = record[s],
           \A b \in found[s] : booking'[b].absence = booking[b].absence
    PROVE  Initialized(s)' = Initialized(s)
<1>1. ASSUME NEW p \in Pupils
      PROVE  FoundFor(s, p)' = FoundFor(s, p)
  BY DEF FoundFor
<1> QED  BY <1>1 DEF Initialized

\* Nobody sits at a session by surprise, if its view ends or stands.
LEMMA ViewsFit ==
    ASSUME MInv, MakeupsTypeOK', MakeupsFit',
           \A s \in Sessions :
                \/ found'[s] = {}
                \/ found'[s] = found[s] /\ record'[s] = record[s]
                    /\ \A b \in found[s] : booking'[b].absence = booking[b].absence
    PROVE  InitializedFit'
<1> SUFFICES ASSUME NEW s \in Sessions  PROVE FitsIn(s, Initialized(s)')
  BY DEF InitializedFit, FitsIn, Seats
<1>1. CASE found'[s] = {}
  <2>1. \A p \in Pupils : Initialized(s)'[p] = record'[s][p]
    BY <1>1 DEF Initialized, FoundFor
  <2>2. Seats(Initialized(s)') = Recorded(s)'
    BY <2>1 DEF Seats, Recorded
  <2> QED  BY <2>1, <2>2 DEF FitsIn, MakeupsFit, Recorded
<1>2. CASE found'[s] # {}
  <2>1. Initialized(s)' = Initialized(s)
    BY <1>2, SameView
  <2> QED  BY <2>1 DEF MInv, InitializedFit
<1> QED  BY <1>1, <1>2

\* Whatever leaves the records' bookings alone leaves this alone.
SameSeats ==
    \A s \in Sessions, p \in Pupils :
        /\ record'[s][p] # NoRecord <=> record[s][p] # NoRecord
        /\ record[s][p] # NoRecord => /\ record'[s][p].booking = record[s][p].booking
                                      /\ record'[s][p].enrolled = record[s][p].enrolled

LEMMA SeatsKept ==
    ASSUME MInv, SameSeats, UNCHANGED <<session, booking>>
    PROVE  RecordsMatch' /\ BookedAttends' /\ MakeupsFit'
<1>1. \A s \in Sessions : Recorded(s)' = Recorded(s)
  BY DEF SameSeats, Recorded
<1>2. \A b \in Bookings : Booked(b)' <=> Booked(b)
  BY DEF Booked
<1>3. RecordsMatch'
  <2> SUFFICES ASSUME NEW s \in Sessions, NEW p \in Recorded(s), record'[s][p].booking # NoBooking
               PROVE  LET b == booking[record'[s][p].booking] IN b # NoBooking /\ b.to = s /\ b.absence[2] = p
    BY <1>1 DEF RecordsMatch
  <2>1. record'[s][p].booking = record[s][p].booking
    BY DEF SameSeats, Recorded
  <2>2. RecordsMatch
    BY DEF MInv, MakeupsTypeOK
  <2> QED  BY <2>1, <2>2 DEF RecordsMatch
<1>4. BookedAttends'
  <2> SUFFICES ASSUME NEW b \in Bookings, Booked(b)
               PROVE  (LET s == booking[b].to  p == booking[b].absence[2] IN
                       session[s] = "SCHEDULED" /\ record[s][p] # NoRecord /\ record[s][p].booking = b)'
    BY <1>2 DEF BookedAttends
  <2>1. booking[b].to \in Sessions /\ booking[b].absence[2] \in Pupils
    BY OneBooking DEF MInv, Booked
  <2> QED  BY <2>1 DEF MInv, BookedAttends, SameSeats
<1>5. MakeupsFit'
  <2> SUFFICES ASSUME NEW s \in Sessions  PROVE FitsIn(s, record'[s])
    BY DEF MakeupsFit, FitsIn, Seats, Recorded
  <2>1. FitsIn(s, record[s])
    BY DEF MInv, MakeupsFit, FitsIn, Seats, Recorded
  <2>2. \A p \in Seats(record'[s]) : p \in Seats(record[s]) /\ record'[s][p].enrolled = record[s][p].enrolled
    BY DEF SameSeats, Seats
  <2> QED  BY <2>1, <2>2, StillFits
<1> QED  BY <1>3, <1>4, <1>5

-----------------------------------------------------------------------------
(* Sheets and records: each step keeps the invariant *)

LEMMA MakeupsInitially == MakeupsInit => MInv
<1> SUFFICES ASSUME MakeupsInit  PROVE MInv
  OBVIOUS
<1>1. \A s \in Sessions : s \in Unplanned => Recorded(s) = {}
  BY MakeupsAssumption DEF MakeupsInit, Recorded
<1>2. \A s \in Sessions, p \in Pupils : Snapshot(s)[p] \in Record \cup {NoRecord} /\
        (Snapshot(s)[p] # NoRecord => Snapshot(s)[p].booking = NoBooking /\ Snapshot(s)[p].enrolled)
  BY MakeupsAssumption DEF Snapshot, Record, RegularMark
<1>3. record \in [Sessions -> [Pupils -> Record \cup {NoRecord}]]
  BY <1>2, MakeupsAssumption DEF MakeupsInit, Snapshot
<1>4. \A s \in Sessions : \A p \in Recorded(s) : record[s][p].booking = NoBooking /\ record[s][p].enrolled
  BY <1>2 DEF MakeupsInit, Recorded
<1>5. MakeupsTypeOK
  BY <1>3, <1>4 DEF MakeupsInit, MakeupsTypeOK, RecordsMatch
<1>6. MakeupsFit
  BY <1>4 DEF MakeupsFit
<1>7. InitializedFit
  <2> SUFFICES ASSUME NEW s \in Sessions  PROVE FitsIn(s, Initialized(s))
    BY DEF InitializedFit
  <2>1. \A p \in Pupils : Initialized(s)[p] = record[s][p]
    BY DEF MakeupsInit, Initialized, FoundFor
  <2> QED  BY <2>1, <1>4 DEF FitsIn, Seats, Recorded
<1> QED
  BY <1>5, <1>6, <1>7 DEF MakeupsInit, MInv, LockedIsCompleted, BookedAttends, FoundIsScheduled, LiveOnce, UsedIsSpent,
     BookedUnlessFreed, LockedIsMarked, Booked, Live, ActivelyBooked

\* What is said of bookings and rights alone.
LEMMA RightsKept ==
    ASSUME MInv, UNCHANGED <<booking, entitlement>>,
           \A s \in Sessions : session[s] = "CANCELLED" => session'[s] = "CANCELLED"
    PROVE  LiveOnce' /\ UsedIsSpent' /\ BookedUnlessFreed'
<1>1. LiveOnce' /\ UsedIsSpent'
  BY DEF MInv, LiveOnce, UsedIsSpent, Live
<1>2. BookedUnlessFreed'
  <2> SUFFICES ASSUME NEW a \in Absences
               PROVE  /\ entitlement[a] = "BOOKED" => ActivelyBooked(a)
                      /\ ActivelyBooked(a) => entitlement[a] = "BOOKED" \/ ReleasedByCancellation(a)'
    BY DEF BookedUnlessFreed, ActivelyBooked, Booked
  <2>1. ReleasedByCancellation(a) => ReleasedByCancellation(a)'
    <3> SUFFICES ASSUME NEW b \in Bookings, booking[b] # NoBooking, booking[b].absence = a,
                        booking[b].status = "CANCELLED", session[booking[b].to] = "CANCELLED"
                 PROVE  ReleasedByCancellation(a)'
      BY DEF ReleasedByCancellation
    <3>1. booking[b].to \in Sessions
      BY OneBooking DEF MInv
    <3> QED  BY <3>1 DEF ReleasedByCancellation
  <2> QED  BY <2>1 DEF MInv, BookedUnlessFreed
<1> QED  BY <1>1, <1>2

LEMMA CreateSessionKeeps ==
    ASSUME MInv, NEW s \in Sessions, CreateSession(s)
    PROVE  MInv'
<1> USE DEF CreateSession
<1>1. \A q \in Sessions : /\ session'[q] = IF q = s THEN "SCHEDULED" ELSE session[q]
                          /\ record'[q] = IF q = s THEN Snapshot(s) ELSE record[q]
  BY DEF MInv, MakeupsTypeOK
<1>2. \A p \in Pupils : Snapshot(s)[p] \in Record \cup {NoRecord} /\
        (Snapshot(s)[p] # NoRecord => Snapshot(s)[p].booking = NoBooking /\ Snapshot(s)[p].enrolled)
  BY MakeupsAssumption DEF Snapshot, Record, RegularMark
<1>3. \A q \in Sessions : q # s => Recorded(q)' = Recorded(q)
  BY <1>1 DEF Recorded
<1>4. \A p \in Recorded(s)' : record'[s][p].booking = NoBooking /\ record'[s][p].enrolled
  BY <1>1, <1>2 DEF Recorded
<1>5. record' \in [Sessions -> [Pupils -> Record \cup {NoRecord}]]
  <2>1. Snapshot(s) \in [Pupils -> Record \cup {NoRecord}]
    BY <1>2 DEF Snapshot
  <2> QED  BY <2>1 DEF MInv, MakeupsTypeOK
<1>6. RecordsMatch'
  BY <1>1, <1>3, <1>4 DEF MInv, MakeupsTypeOK, RecordsMatch
<1>7. MakeupsTypeOK'
  BY <1>1, <1>5, <1>6 DEF MInv, MakeupsTypeOK
<1>8. LockedIsCompleted'
  BY <1>1 DEF MInv, LockedIsCompleted
<1>9. BookedAttends'
  <2> SUFFICES ASSUME NEW b \in Bookings, Booked(b)
               PROVE  (LET q == booking[b].to  p == booking[b].absence[2] IN
                       session[q] = "SCHEDULED" /\ record[q][p] # NoRecord /\ record[q][p].booking = b)'
    BY DEF BookedAttends, Booked
  <2>1. booking[b].to \in Sessions /\ session[booking[b].to] = "SCHEDULED"
    BY OneBooking DEF MInv, Booked, BookedAttends
  <2> QED  BY <1>1, <2>1 DEF MInv, BookedAttends
<1>10. FoundIsScheduled' /\ found[s] = {}
  BY <1>1 DEF MInv, FoundIsScheduled
<1>11. LiveOnce' /\ UsedIsSpent' /\ BookedUnlessFreed'
  BY <1>1, RightsKept
<1>12. LockedIsMarked'
  <2>1. sheet[s] = "OPEN"
    BY DEF MInv, MakeupsTypeOK, LockedIsCompleted
  <2>2. \A q \in Sessions : q # s => Unmarked(q)' = Unmarked(q)
    BY <1>1, <1>3 DEF Unmarked
  <2> QED  BY <2>1, <2>2 DEF MInv, LockedIsMarked
<1>13. MakeupsFit'
  <2> SUFFICES ASSUME NEW q \in Sessions
               PROVE  (\E p \in Recorded(q)' : ~record'[q][p].enrolled) => Cardinality(Recorded(q)') <= Capacity[q]
    BY DEF MakeupsFit
  <2>1. CASE q = s
    BY <2>1, <1>4
  <2>2. CASE q # s
    BY <2>2, <1>1, <1>3 DEF MInv, MakeupsFit
  <2> QED  BY <2>1, <2>2
<1>14. InitializedFit'
  <2>1. \A q \in Sessions : q # s => record'[q] = record[q]
    BY <1>1
  <2> QED  BY <2>1, <1>7, <1>10, <1>13, ViewsFit
<1> QED  BY <1>7, <1>8, <1>9, <1>10, <1>11, <1>12, <1>13, <1>14 DEF MInv

LEMMA UpdateRecordKeeps ==
    ASSUME MInv, NEW s \in Sessions, NEW p \in Pupils, NEW mark \in RegularMark \cup MakeupMark,
           UpdateRecord(s, p, mark)
    PROVE  MInv'
<1> USE DEF UpdateRecord
<1>1. record[s][p] \in Record
  BY OneRow DEF MInv
<1>2. \A q \in Sessions, o \in Pupils :
        record'[q][o] = IF q = s /\ o = p THEN [record[s][p] EXCEPT !.status = mark] ELSE record[q][o]
  BY DEF MInv, MakeupsTypeOK
<1>3. SameSeats
  BY <1>1, <1>2, Marking, MakeupsAssumption DEF SameSeats
<1>4. record' \in [Sessions -> [Pupils -> Record \cup {NoRecord}]]
  BY <1>1, Marking DEF MInv, MakeupsTypeOK
<1>5. RecordsMatch' /\ BookedAttends' /\ MakeupsFit'
  BY <1>3, SeatsKept
<1>6. MakeupsTypeOK' /\ LockedIsCompleted' /\ FoundIsScheduled'
  BY <1>4, <1>5 DEF MInv, MakeupsTypeOK, LockedIsCompleted, FoundIsScheduled
<1>7. LiveOnce' /\ UsedIsSpent' /\ BookedUnlessFreed'
  BY RightsKept
<1>8. LockedIsMarked'
  <2>1. \A q \in Sessions : q # s => Unmarked(q)' = Unmarked(q)
    BY <1>2 DEF Unmarked, Recorded
  <2> QED  BY <2>1 DEF MInv, LockedIsMarked, Editable
<1>9. InitializedFit'
  <2>1. found'[s] = {} /\ \A q \in Sessions : q # s => record'[q] = record[q]
    BY DEF Editable, MInv, MakeupsTypeOK
  <2> QED  BY <2>1, <1>5, <1>6, ViewsFit
<1> QED  BY <1>5, <1>6, <1>7, <1>8, <1>9 DEF MInv

LEMMA BeginInitializeKeeps ==
    ASSUME MInv, NEW s \in Sessions, BeginInitialize(s)
    PROVE  MInv'
<1>1. UNCHANGED <<session, sheet, record, entitlement, booking, lapsed>>
      /\ \A q \in Sessions : found'[q] = IF q = s THEN BookedAt(s) ELSE found[q]
  BY DEF BeginInitialize, MInv, MakeupsTypeOK
<1>2. SameSeats /\ \A q \in Sessions : Unmarked(q)' = Unmarked(q) /\ Recorded(q)' = Recorded(q)
  BY <1>1 DEF SameSeats, Unmarked, Recorded
<1>3. RecordsMatch' /\ BookedAttends' /\ MakeupsFit' /\ LiveOnce' /\ UsedIsSpent' /\ BookedUnlessFreed'
  BY <1>1, <1>2, SeatsKept, RightsKept
<1>4. MakeupsTypeOK' /\ FoundIsScheduled'
  <2>1. found' \in [Sessions -> SUBSET Bookings]
    BY DEF BeginInitialize, BookedAt, MInv, MakeupsTypeOK
  <2>2. ASSUME NEW q \in Sessions, NEW b \in found'[q]
        PROVE  booking'[b] # NoBooking /\ booking'[b].to = q
    <3>1. CASE q = s
      BY <1>1, <3>1 DEF BookedAt, Booked
    <3>2. CASE q # s
      BY <1>1, <3>2 DEF MInv, MakeupsTypeOK
    <3> QED  BY <3>1, <3>2
  <2>3. session[s] = "SCHEDULED"
    BY DEF BeginInitialize, Editable
  <2> QED  BY <1>1, <1>3, <2>1, <2>2, <2>3 DEF MInv, MakeupsTypeOK, FoundIsScheduled
<1>5. InitializedFit'
  <2> SUFFICES ASSUME NEW q \in Sessions  PROVE FitsIn(q, Initialized(q)')
    BY DEF InitializedFit, FitsIn, Seats
  <2>1. CASE q = s
    <3>1. ASSUME NEW p \in Pupils
          PROVE  Initialized(s)'[p] = record[s][p]
      <4>1. CASE FoundFor(s, p)' = {}
        BY <1>1, <4>1 DEF Initialized
      <4>2. CASE FoundFor(s, p)' # {}
        <5>1. \A b \in FoundFor(s, p)' : b \in Bookings /\ Booked(b) /\ record[s][p] # NoRecord /\ record[s][p].booking = b
          <6> SUFFICES ASSUME NEW b \in FoundFor(s, p)'
                       PROVE  b \in Bookings /\ Booked(b) /\ record[s][p] # NoRecord /\ record[s][p].booking = b
            OBVIOUS
          <6>1. b \in Bookings /\ Booked(b) /\ booking[b].to = s /\ booking[b].absence[2] = p
            BY <1>1 DEF FoundFor, BookedAt
          <6> QED  BY <6>1 DEF MInv, BookedAttends
        <5>2. PICK b \in FoundFor(s, p)' : Initialized(s)'[p] = Seated(record[s][p], b, "UNMARKED")
          BY <1>1, <4>2 DEF Initialized, AnyOf
        <5>3. b \in Bookings
          BY <5>1, <5>2
        <5> QED  BY <5>1, <5>2, <5>3, MakeupsAssumption DEF Seated
      <4> QED  BY <4>1, <4>2
    <3>2. Seats(Initialized(s)') = Recorded(s)
      BY <3>1 DEF Seats, Recorded
    <3> QED  BY <2>1, <3>1, <3>2 DEF MInv, MakeupsFit, FitsIn, Recorded
  <2>2. CASE q # s
    <3>1. Initialized(q)' = Initialized(q)
      BY <1>1, <2>2, SameView
    <3> QED  BY <3>1 DEF MInv, InitializedFit
  <2> QED  BY <2>1, <2>2
<1> QED  BY <1>1, <1>2, <1>3, <1>4, <1>5 DEF MInv, LockedIsCompleted, LockedIsMarked

LEMMA AbandonKeeps ==
    ASSUME MInv, NEW s \in Sessions, Abandon(s)
    PROVE  MInv'
<1>1. UNCHANGED <<session, sheet, record, entitlement, booking, lapsed>>
      /\ \A q \in Sessions : found'[q] = IF q = s THEN {} ELSE found[q]
  BY DEF Abandon, MInv, MakeupsTypeOK
<1>2. SameSeats /\ \A q \in Sessions : Unmarked(q)' = Unmarked(q) /\ Recorded(q)' = Recorded(q)
  BY <1>1 DEF SameSeats, Unmarked, Recorded
<1>3. RecordsMatch' /\ BookedAttends' /\ MakeupsFit' /\ LiveOnce' /\ UsedIsSpent' /\ BookedUnlessFreed'
  BY <1>1, <1>2, SeatsKept, RightsKept
<1>4. MakeupsTypeOK' /\ FoundIsScheduled'
  BY <1>1, <1>3 DEF Abandon, MInv, MakeupsTypeOK, FoundIsScheduled
<1>5. InitializedFit'
  BY <1>1, <1>3, <1>4, ViewsFit
<1> QED  BY <1>1, <1>2, <1>3, <1>4, <1>5 DEF MInv, LockedIsCompleted, LockedIsMarked

\* The records of s are initialised, and no other.
LEMMA WhenInitialized ==
    ASSUME MInv, NEW s \in Sessions, record' = [record EXCEPT ![s] = Initialized(s)]
    PROVE  /\ record' \in [Sessions -> [Pupils -> Record \cup {NoRecord}]]
           /\ \A q \in Sessions : record'[q] = IF q = s THEN Initialized(s) ELSE record[q]
           /\ MakeupsFit'
           /\ \A q \in Sessions : \A p \in Recorded(q)' : record'[q][p].booking # NoBooking =>
                LET b == record'[q][p].booking IN
                b \in Bookings /\ booking[b] # NoBooking /\ booking[b].to = q /\ booking[b].absence[2] = p
           /\ \A b \in Bookings : Booked(b) =>
                LET q == booking[b].to  p == booking[b].absence[2] IN
                record'[q][p] # NoRecord /\ record'[q][p].booking = b
<1>1. \A q \in Sessions : record'[q] = IF q = s THEN Initialized(s) ELSE record[q]
  BY DEF MInv, MakeupsTypeOK
<1>2. record' \in [Sessions -> [Pupils -> Record \cup {NoRecord}]]
  BY Initializing DEF MInv, MakeupsTypeOK
<1>3. MakeupsFit'
  <2> SUFFICES ASSUME NEW q \in Sessions  PROVE FitsIn(q, record'[q])
    BY DEF MakeupsFit, FitsIn, Seats, Recorded
  <2> QED  BY <1>1 DEF MInv, MakeupsFit, InitializedFit, FitsIn, Seats, Recorded
<1>4. ASSUME NEW q \in Sessions, NEW p \in Recorded(q)', record'[q][p].booking # NoBooking
      PROVE  LET b == record'[q][p].booking IN
             b \in Bookings /\ booking[b] # NoBooking /\ booking[b].to = q /\ booking[b].absence[2] = p
  <2>1. p \in Pupils /\ record'[q][p] # NoRecord
    BY DEF Recorded
  <2>2. CASE q = s
    BY <1>1, <1>4, <2>1, <2>2, Initializing
  <2>3. CASE q # s
    BY <1>1, <1>4, <2>1, <2>3, OneRow, OneRecord DEF MInv, MakeupsTypeOK, RecordsMatch
  <2> QED  BY <2>2, <2>3
<1>5. ASSUME NEW b \in Bookings, Booked(b)
      PROVE  LET q == booking[b].to  p == booking[b].absence[2] IN
             record'[q][p] # NoRecord /\ record'[q][p].booking = b
  <2>1. booking[b].to \in Sessions /\ booking[b].absence[2] \in Pupils
        /\ record[booking[b].to][booking[b].absence[2]] # NoRecord
        /\ record[booking[b].to][booking[b].absence[2]].booking = b
    BY <1>5, OneBooking DEF MInv, Booked, BookedAttends
  <2>2. record'[booking[b].to][booking[b].absence[2]] = record[booking[b].to][booking[b].absence[2]]
    BY <1>1, <2>1, Initializing, MakeupsAssumption
  <2> QED  BY <2>1, <2>2
<1> QED  BY <1>1, <1>2, <1>3, <1>4, <1>5

LEMMA InitializeKeeps ==
    ASSUME MInv, NEW s \in Sessions, Initialize(s)
    PROVE  MInv'
<1> USE DEF Initialize
<1>1. /\ record' \in [Sessions -> [Pupils -> Record \cup {NoRecord}]]
      /\ \A q \in Sessions : q # s => record'[q] = record[q]
      /\ MakeupsFit'
  BY WhenInitialized
<1>2. RecordsMatch'
  BY WhenInitialized DEF RecordsMatch
<1>3. session[s] = "SCHEDULED" /\ sheet[s] = "OPEN"
  BY DEF MInv, MakeupsTypeOK, FoundIsScheduled, LockedIsCompleted
<1>4. \A q \in Sessions : found'[q] = IF q = s THEN {} ELSE found[q]
  BY DEF MInv, MakeupsTypeOK
<1>5. MakeupsTypeOK' /\ LockedIsCompleted' /\ FoundIsScheduled'
  BY <1>1, <1>2, <1>4 DEF MInv, MakeupsTypeOK, LockedIsCompleted, FoundIsScheduled
<1>6. BookedAttends'
  BY WhenInitialized DEF MInv, BookedAttends, Booked
<1>7. LiveOnce' /\ UsedIsSpent' /\ BookedUnlessFreed'
  BY RightsKept
<1>8. LockedIsMarked'
  BY <1>1, <1>3 DEF MInv, LockedIsMarked, Unmarked, Recorded
<1>9. InitializedFit'
  BY <1>1, <1>4, <1>5, ViewsFit
<1> QED  BY <1>1, <1>5, <1>6, <1>7, <1>8, <1>9 DEF MInv

LEMMA LapseKeeps ==
    ASSUME MInv, NEW s \in Sessions, Lapse(s)
    PROVE  MInv'
<1>1. UNCHANGED <<session, sheet, record, entitlement, booking, found>> /\ lapsed' \subseteq Sessions
  BY DEF Lapse, MInv, MakeupsTypeOK
<1>2. SameSeats /\ \A q \in Sessions : Unmarked(q)' = Unmarked(q) /\ Recorded(q)' = Recorded(q)
  BY <1>1 DEF SameSeats, Unmarked, Recorded
<1>3. RecordsMatch' /\ BookedAttends' /\ MakeupsFit' /\ LiveOnce' /\ UsedIsSpent' /\ BookedUnlessFreed'
  BY <1>1, <1>2, SeatsKept, RightsKept
<1>4. MakeupsTypeOK'
  BY <1>1, <1>3 DEF MInv, MakeupsTypeOK
<1>5. InitializedFit'
  BY <1>1, <1>3, <1>4, ViewsFit
<1> QED  BY <1>1, <1>2, <1>3, <1>4, <1>5 DEF MInv, LockedIsCompleted, FoundIsScheduled, LockedIsMarked

LEMMA CorrectKeeps ==
    ASSUME MInv, NEW s \in Sessions, NEW p \in Pupils, NEW mark \in RegularMark \cup MakeupMark,
           Correct(s, p, mark)
    PROVE  MInv'
<1> USE DEF Correct
<1>1. record[s][p] \in Record
  BY OneRow DEF MInv
<1>2. \A q \in Sessions, o \in Pupils :
        record'[q][o] = IF q = s /\ o = p THEN [record[s][p] EXCEPT !.status = mark] ELSE record[q][o]
  BY DEF MInv, MakeupsTypeOK
<1>3. SameSeats
  BY <1>1, <1>2, Marking, MakeupsAssumption DEF SameSeats
<1>4. record' \in [Sessions -> [Pupils -> Record \cup {NoRecord}]]
  BY <1>1, Marking DEF MInv, MakeupsTypeOK
<1>5. RecordsMatch' /\ BookedAttends' /\ MakeupsFit'
  BY <1>3, SeatsKept
<1>6. /\ entitlement' \in [Absences -> {"NONE", "AVAILABLE", "BOOKED", "USED", "EXPIRED", "REVOKED"}]
      /\ \A a \in Absences : entitlement[a] \in {"BOOKED", "USED"} => entitlement'[a] = entitlement[a]
      /\ \A a \in Absences : entitlement'[a] = "BOOKED" => entitlement[a] = "BOOKED"
  BY DEF MInv, MakeupsTypeOK, Absences, Reconciled, Freed
<1>7. MakeupsTypeOK' /\ LockedIsCompleted' /\ FoundIsScheduled'
  BY <1>4, <1>5, <1>6 DEF MInv, MakeupsTypeOK, LockedIsCompleted, FoundIsScheduled
<1>8. LiveOnce'
  BY DEF MInv, LiveOnce, Live
<1>9. UsedIsSpent'
  BY <1>6, OneBooking DEF MInv, UsedIsSpent
<1>10. BookedUnlessFreed'
  BY <1>6 DEF MInv, BookedUnlessFreed, ActivelyBooked, Booked, ReleasedByCancellation
<1>11. LockedIsMarked'
  <2>1. \A q \in Sessions : Unmarked(q)' \subseteq Unmarked(q)
    BY <1>1, <1>2, Marking, <1>3 DEF Unmarked, Recorded, SameSeats
  <2> QED  BY <2>1 DEF MInv, LockedIsMarked
<1>12. InitializedFit'
  <2>1. found'[s] = {} /\ \A q \in Sessions : q # s => record'[q] = record[q]
    BY DEF MInv, MakeupsTypeOK, LockedIsCompleted, FoundIsScheduled
  <2> QED  BY <2>1, <1>5, <1>7, ViewsFit
<1> QED  BY <1>5, <1>7, <1>8, <1>9, <1>10, <1>11, <1>12 DEF MInv

\* What finalising s makes of each booking and each right.
LEMMA Finalized ==
    ASSUME MInv, NEW s \in Sessions, Finalize(s)
    PROVE  /\ \A b \in Bookings :
                /\ Booked(b) /\ booking[b].to = s =>
                     /\ booking'[b] \in Booking
                     /\ booking'[b].absence = booking[b].absence
                     /\ booking'[b].to = s
                     /\ booking'[b].status = IF b \in Attended(s) THEN "USED" ELSE "CANCELLED"
                /\ ~(Booked(b) /\ booking[b].to = s) => booking'[b] = booking[b]
           /\ booking' \in [Bookings -> Booking \cup {NoBooking}]
           /\ \A b \in Bookings : Booked(b)' <=> Booked(b) /\ booking[b].to # s
           /\ \A q \in Sessions : session'[q] = IF q = s THEN "COMPLETED" ELSE session[q]
           /\ session[s] = "SCHEDULED" /\ sheet[s] = "OPEN"
<1> USE DEF Finalize
<1>1. ASSUME NEW b \in Bookings, Booked(b), booking[b].to = s
      PROVE  /\ booking'[b] \in Booking
             /\ booking'[b].absence = booking[b].absence
             /\ booking'[b].to = s
             /\ booking'[b].status = IF b \in Attended(s) THEN "USED" ELSE "CANCELLED"
  <2>1. /\ booking[b] \in Booking
        /\ booking[b] = [absence |-> booking[b].absence, to |-> booking[b].to, status |-> booking[b].status]
        /\ booking[b].absence \in Absences /\ booking[b].to \in Sessions
    BY <1>1, OneBooking DEF MInv, Booked
  <2>2. booking'[b] = [booking[b] EXCEPT !.status = IF b \in Attended(s) THEN "USED" ELSE "CANCELLED"]
    BY <1>1 DEF Missed, BookedAt
  <2> QED  BY <1>1, <2>1, <2>2 DEF Booking
<1>2. ASSUME NEW b \in Bookings, ~(Booked(b) /\ booking[b].to = s)
      PROVE  booking'[b] = booking[b]
  BY <1>2 DEF Attended, Missed, BookedAt
<1>3. booking' \in [Bookings -> Booking \cup {NoBooking}]
  <2>1. \A b \in Bookings : booking'[b] \in Booking \cup {NoBooking}
    BY <1>1, <1>2 DEF MInv, MakeupsTypeOK
  <2> QED  BY <2>1
<1>4. ASSUME NEW b \in Bookings
      PROVE  Booked(b)' <=> Booked(b) /\ booking[b].to # s
  <2>1. CASE Booked(b) /\ booking[b].to = s
    <3>1. booking'[b].status \in {"USED", "CANCELLED"}
      BY <1>1, <2>1
    <3> QED  BY <2>1, <3>1 DEF Booked
  <2>2. CASE ~(Booked(b) /\ booking[b].to = s)
    BY <1>2, <2>2 DEF Booked
  <2> QED  BY <2>1, <2>2
<1>5. \A q \in Sessions : session'[q] = IF q = s THEN "COMPLETED" ELSE session[q]
  BY DEF MInv, MakeupsTypeOK
<1>6. session[s] = "SCHEDULED" /\ sheet[s] = "OPEN"
  BY DEF Initializable
<1> QED  BY <1>1, <1>2, <1>3, <1>4, <1>5, <1>6

LEMMA FinalizeKeeps ==
    ASSUME MInv, NEW s \in Sessions, Finalize(s)
    PROVE  MInv'
<1>1. /\ \A b \in Bookings :
                /\ Booked(b) /\ booking[b].to = s =>
                     /\ booking'[b] # NoBooking
                     /\ booking'[b].absence = booking[b].absence
                     /\ booking'[b].to = s
                     /\ booking'[b].status = IF b \in Attended(s) THEN "USED" ELSE "CANCELLED"
                /\ ~(Booked(b) /\ booking[b].to = s) => booking'[b] = booking[b]
      /\ booking' \in [Bookings -> Booking \cup {NoBooking}]
      /\ \A b \in Bookings : Booked(b)' <=> Booked(b) /\ booking[b].to # s
      /\ \A q \in Sessions : session'[q] = IF q = s THEN "COMPLETED" ELSE session[q]
      /\ session[s] = "SCHEDULED" /\ sheet[s] = "OPEN"
  BY Finalized, MakeupsAssumption
<1>2. \A b \in Bookings : /\ booking'[b] # NoBooking <=> booking[b] # NoBooking
                          /\ booking[b] # NoBooking => /\ booking'[b].absence = booking[b].absence
                                                       /\ booking'[b].to = booking[b].to
                          /\ booking[b] # NoBooking /\ booking[b].status \in {"USED", "CANCELLED"} =>
                                booking'[b].status = booking[b].status
  BY <1>1 DEF Booked
<1>3. /\ record' \in [Sessions -> [Pupils -> Record \cup {NoRecord}]]
      /\ \A q \in Sessions : q # s => record'[q] = record[q]
      /\ MakeupsFit'
      /\ \A q \in Sessions : \A p \in Recorded(q)' : record'[q][p].booking # NoBooking =>
            LET b == record'[q][p].booking IN
            b \in Bookings /\ booking[b] # NoBooking /\ booking[b].to = q /\ booking[b].absence[2] = p
      /\ \A b \in Bookings : Booked(b) =>
            LET q == booking[b].to  p == booking[b].absence[2] IN
            record'[q][p] # NoRecord /\ record'[q][p].booking = b
      /\ \A q \in Sessions : found'[q] = IF q = s THEN {} ELSE found[q]
  <2>1. record' = [record EXCEPT ![s] = Initialized(s)]
    BY DEF Finalize
  <2>2. \A q \in Sessions : found'[q] = IF q = s THEN {} ELSE found[q]
    BY DEF Finalize, MInv, MakeupsTypeOK
  <2> QED  BY <2>1, <2>2, WhenInitialized
<1>4. \A a \in Absences : entitlement'[a] =
        IF \E b \in Attended(s) : booking[b].absence = a THEN "USED"
        ELSE IF entitlement[a] = "BOOKED" /\ \E b \in Missed(s) : booking[b].absence = a THEN Freed(a)
        ELSE IF a \in Eligible(s) /\ entitlement[a] = "NONE" THEN "AVAILABLE"
        ELSE entitlement[a]
  BY DEF Finalize
<1>5. MakeupsTypeOK'
  <2>1. session' \in [Sessions -> {"NONE", "SCHEDULED", "COMPLETED", "CANCELLED", "RESCHEDULED"}]
        /\ sheet' \in [Sessions -> {"OPEN", "LOCKED"}]
        /\ lapsed' \subseteq Sessions
        /\ found' \in [Sessions -> SUBSET Bookings]
    BY <1>1 DEF Finalize, MInv, MakeupsTypeOK
  <2>2. entitlement' \in [Absences -> {"NONE", "AVAILABLE", "BOOKED", "USED", "EXPIRED", "REVOKED"}]
    <3>1. \A a \in Absences : entitlement'[a] \in {"NONE", "AVAILABLE", "BOOKED", "USED", "EXPIRED", "REVOKED"}
      BY <1>4 DEF MInv, MakeupsTypeOK, Freed
    <3> QED  BY <3>1 DEF Finalize
  <2>3. RecordsMatch'
    BY <1>2, <1>3 DEF RecordsMatch
  <2>4. ASSUME NEW q \in Sessions, NEW b \in found'[q]
        PROVE  booking'[b] # NoBooking /\ booking'[b].to = q
    <3>1. b \in Bookings /\ b \in found[q]
      BY <1>3 DEF MInv, MakeupsTypeOK
    <3>2. booking[b] # NoBooking /\ booking[b].to = q
      BY <3>1 DEF MInv, MakeupsTypeOK
    <3> QED  BY <3>1, <3>2, <1>2
  <2> QED  BY <2>1, <2>2, <2>3, <2>4, <1>1, <1>3 DEF MInv, MakeupsTypeOK
<1>6. LockedIsCompleted'
  BY <1>1 DEF MInv, MakeupsTypeOK, LockedIsCompleted, Finalize
<1>7. BookedAttends'
  <2> SUFFICES ASSUME NEW b \in Bookings, Booked(b), booking[b].to # s
               PROVE  (LET q == booking[b].to  p == booking[b].absence[2] IN
                       session[q] = "SCHEDULED" /\ record[q][p] # NoRecord /\ record[q][p].booking = b)'
    BY <1>1 DEF BookedAttends
  <2>1. booking[b].to \in Sessions /\ booking'[b] = booking[b]
    BY <1>1, OneBooking DEF MInv, Booked
  <2> QED  BY <2>1, <1>1, <1>3 DEF MInv, BookedAttends
<1>8. FoundIsScheduled'
  BY <1>1, <1>3 DEF MInv, FoundIsScheduled
<1>9. LiveOnce'
  <2>1. \A b \in Bookings : Live(b)' => Live(b)
    BY <1>1, <1>2 DEF Live, Booked
  <2> QED  BY <1>2, <2>1 DEF MInv, LiveOnce, Live
<1>10. UsedIsSpent'
  <2> SUFFICES ASSUME NEW b \in Bookings, booking'[b] # NoBooking, booking'[b].status = "USED"
               PROVE  entitlement'[booking'[b].absence] = "USED"
    BY DEF UsedIsSpent
  <2>1. booking[b] # NoBooking /\ booking'[b].absence = booking[b].absence /\ booking[b].absence \in Absences
    BY <1>2, OneBooking DEF MInv
  <2>2. CASE Booked(b) /\ booking[b].to = s
    <3>1. b \in Attended(s)
      BY <1>1, <2>2
    <3> QED  BY <3>1, <2>1, <1>4
  <2>3. CASE ~(Booked(b) /\ booking[b].to = s)
    <3>1. entitlement[booking[b].absence] = "USED"
      BY <1>1, <2>3 DEF MInv, UsedIsSpent
    <3> QED  BY <3>1, <2>1, <1>4
  <2> QED  BY <2>2, <2>3
<1>11. BookedUnlessFreed'
  <2> SUFFICES ASSUME NEW a \in Absences
               PROVE  /\ entitlement'[a] = "BOOKED" => ActivelyBooked(a)'
                      /\ ActivelyBooked(a)' => entitlement'[a] = "BOOKED" \/ ReleasedByCancellation(a)'
    BY DEF BookedUnlessFreed
  <2>1. ReleasedByCancellation(a) => ReleasedByCancellation(a)'
    <3> SUFFICES ASSUME NEW b \in Bookings, booking[b] # NoBooking, booking[b].absence = a,
                        booking[b].status = "CANCELLED", session[booking[b].to] = "CANCELLED"
                 PROVE  ReleasedByCancellation(a)'
      BY DEF ReleasedByCancellation
    <3>1. booking[b].to \in Sessions
      BY OneBooking DEF MInv
    <3>2. session'[booking'[b].to] = "CANCELLED"
      BY <3>1, <1>1, <1>2
    <3> QED  BY <3>2, <1>2 DEF ReleasedByCancellation
  <2>2. ASSUME entitlement'[a] = "BOOKED"  PROVE ActivelyBooked(a)'
    <3>1. entitlement[a] = "BOOKED" /\ ~\E b \in Attended(s) \cup Missed(s) : booking[b].absence = a
      BY <2>2, <1>4 DEF Freed
    <3>2. PICK b \in Bookings : Booked(b) /\ booking[b].absence = a
      BY <3>1 DEF MInv, BookedUnlessFreed, ActivelyBooked
    <3>3. booking[b].to # s
      BY <3>1, <3>2 DEF Missed, BookedAt
    <3> QED  BY <3>2, <3>3, <1>1 DEF ActivelyBooked
  <2>3. ASSUME ActivelyBooked(a)'  PROVE entitlement'[a] = "BOOKED" \/ ReleasedByCancellation(a)'
    <3>1. PICK b \in Bookings : Booked(b)' /\ booking'[b].absence = a
      BY <2>3 DEF ActivelyBooked
    <3>2. Booked(b) /\ booking[b].to # s /\ booking[b].absence = a
      BY <3>1, <1>1
    <3>3. entitlement[a] = "BOOKED" \/ ReleasedByCancellation(a)
      BY <3>2 DEF MInv, BookedUnlessFreed, ActivelyBooked
    <3>4. ~\E c \in Attended(s) \cup Missed(s) : booking[c].absence = a
      BY <3>2 DEF MInv, LiveOnce, Live, Booked, Attended, Missed, BookedAt
    <3> QED  BY <3>3, <3>4, <2>1, <1>4
  <2> QED  BY <2>2, <2>3
<1>12. LockedIsMarked'
  <2>1. Unmarked(s)' = {}
    BY DEF Finalize, AllMarked
  <2>2. ASSUME NEW q \in Sessions, q # s, sheet'[q] = "LOCKED"  PROVE Unmarked(q)' = {}
    <3>1. sheet[q] = "LOCKED" /\ record'[q] = record[q]
      BY <2>2, <1>3 DEF Finalize, MInv, MakeupsTypeOK
    <3> QED  BY <3>1 DEF MInv, LockedIsMarked, Unmarked, Recorded
  <2> QED  BY <2>1, <2>2 DEF LockedIsMarked
<1>13. InitializedFit'
  BY <1>2, <1>3, <1>5, ViewsFit DEF MInv, MakeupsTypeOK
<1> QED  BY <1>3, <1>5, <1>6, <1>7, <1>8, <1>9, <1>10, <1>11, <1>12, <1>13 DEF MInv

-----------------------------------------------------------------------------
(* Bookings *)

\* Who may be seated at s is not seated there by another booking.
LEMMA FreeSeat ==
    ASSUME MInv, NEW s \in Sessions, NEW p \in Pupils, Destination(s, p)
    PROVE  /\ session[s] = "SCHEDULED" /\ sheet[s] = "OPEN"
           /\ \A b \in Bookings : Booked(b) => ~(booking[b].to = s /\ booking[b].absence[2] = p)
           /\ Initialized(s)[p] \in Record \cup {NoRecord}
           /\ Initialized(s)[p] # NoRecord => Initialized(s)[p].booking = NoBooking /\ Initialized(s)[p].status = "UNMARKED"
<1>1. /\ session[s] = "SCHEDULED" /\ sheet[s] = "OPEN"
      /\ Initialized(s)[p] # NoRecord => Initialized(s)[p].booking = NoBooking /\ Initialized(s)[p].status = "UNMARKED"
  BY DEF Destination, Initializable
<1>2. ASSUME NEW b \in Bookings, Booked(b), booking[b].to = s, booking[b].absence[2] = p  PROVE FALSE
  <2>1. record[s][p] # NoRecord /\ record[s][p].booking = b
    BY <1>2 DEF MInv, BookedAttends
  <2>2. Initialized(s)[p] = record[s][p]
    BY <2>1, Initializing, MakeupsAssumption
  <2> QED  BY <1>1, <2>1, <2>2, MakeupsAssumption
<1>3. Initialized(s)[p] \in Record \cup {NoRecord}
  BY Initializing
<1> QED  BY <1>1, <1>2, <1>3

\* The records of s once b has seated p there.
Written(s, p, b, mark) == [Initialized(s) EXCEPT ![p] = Seated(@, b, mark)]

LEMMA Sitting ==
    ASSUME MInv, NEW s \in Sessions, NEW p \in Pupils, NEW b \in Bookings, NEW mark \in {"UNMARKED", "MAKEUP"},
           Destination(s, p)
    PROVE  /\ Written(s, p, b, mark) \in [Pupils -> Record \cup {NoRecord}]
           /\ Written(s, p, b, mark)[p] \in Record /\ Written(s, p, b, mark)[p].booking = b
           /\ \A o \in Pupils : (o # p /\ Written(s, p, b, mark)[o] # NoRecord /\ Written(s, p, b, mark)[o].booking # NoBooking) =>
                LET c == Written(s, p, b, mark)[o].booking IN
                c \in Bookings /\ booking[c] # NoBooking /\ booking[c].to = s /\ booking[c].absence[2] = o
           /\ \A c \in Bookings : (Booked(c) /\ booking[c].to = s) =>
                LET o == booking[c].absence[2] IN o # p /\ Written(s, p, b, mark)[o] # NoRecord /\ Written(s, p, b, mark)[o].booking = c
           /\ FitsIn(s, Written(s, p, b, mark))
<1>1. Initialized(s) \in [Pupils -> Record \cup {NoRecord}]
  BY Initializing
<1>2. \A o \in Pupils : Written(s, p, b, mark)[o] = IF o = p THEN Seated(Initialized(s)[p], b, mark) ELSE Initialized(s)[o]
  BY <1>1 DEF Written
<1>3. Written(s, p, b, mark)[p] \in Record /\ Written(s, p, b, mark)[p].booking = b
  BY <1>2, FreeSeat, Seating
<1>4. Written(s, p, b, mark) \in [Pupils -> Record \cup {NoRecord}]
  BY <1>1, <1>2, <1>3 DEF Written
<1>5. ASSUME NEW o \in Pupils, o # p, Written(s, p, b, mark)[o] # NoRecord, Written(s, p, b, mark)[o].booking # NoBooking
      PROVE  LET c == Written(s, p, b, mark)[o].booking IN
             c \in Bookings /\ booking[c] # NoBooking /\ booking[c].to = s /\ booking[c].absence[2] = o
  <2>1. Written(s, p, b, mark)[o] = Initialized(s)[o]
    BY <1>2, <1>5
  <2> QED  BY <1>5, <2>1, Initializing
<1>6. ASSUME NEW c \in Bookings, Booked(c), booking[c].to = s
      PROVE  LET o == booking[c].absence[2] IN o # p /\ Written(s, p, b, mark)[o] # NoRecord /\ Written(s, p, b, mark)[o].booking = c
  <2> DEFINE o == booking[c].absence[2]
  <2>1. o \in Pupils /\ o # p
    <3>1. booking[c] # NoBooking /\ MakeupsTypeOK
      BY <1>6 DEF Booked, MInv
    <3>2. o \in Pupils
      BY <3>1, OneBooking
    <3>3. \A x \in Bookings : Booked(x) => ~(booking[x].to = s /\ booking[x].absence[2] = p)
      BY FreeSeat
    <3> QED  BY <1>6, <3>2, <3>3
  <2>2. record[s][o] # NoRecord /\ record[s][o].booking = c
    BY <1>6 DEF MInv, BookedAttends
  <2> HIDE DEF o
  <2>3. Written(s, p, b, mark)[o] = record[s][o]
    BY <1>2, <2>1, <2>2, Initializing, MakeupsAssumption
  <2> QED  BY <2>1, <2>2, <2>3 DEF o
<1>7. FitsIn(s, Written(s, p, b, mark))
  <2>1. Seats(Written(s, p, b, mark)) \subseteq Seats(Initialized(s)) \cup {p}
    BY <1>2 DEF Seats
  <2>2. HasRoom(s, p)
    BY DEF Destination
  <2> QED  BY <2>1, <2>2, RoomFits
<1> QED  BY <1>3, <1>4, <1>5, <1>6, <1>7

LEMMA BookMakeupKeeps ==
    ASSUME MInv, NEW b \in Bookings, NEW a \in Absences, NEW s \in Sessions, BookMakeup(b, a, s)
    PROVE  MInv'
<1> DEFINE p == a[2]
<1> USE DEF BookMakeup
<1>1. p \in Pupils /\ a[1] \in Sessions
  BY DEF Absences
<1>2. /\ session[s] = "SCHEDULED" /\ sheet[s] = "OPEN"
      /\ \A c \in Bookings : Booked(c) => ~(booking[c].to = s /\ booking[c].absence[2] = p)
  BY <1>1, FreeSeat
<1>3. \A q \in Sessions :
        record'[q] = IF q = s THEN Written(s, p, b, "UNMARKED") ELSE record[q]
  BY DEF MInv, MakeupsTypeOK, Written
<1>4. /\ record'[s] \in [Pupils -> Record \cup {NoRecord}]
      /\ record'[s][p] \in Record /\ record'[s][p].booking = b
      /\ \A o \in Pupils : (o # p /\ record'[s][o] # NoRecord /\ record'[s][o].booking # NoBooking) =>
            LET c == record'[s][o].booking IN
            c \in Bookings /\ booking[c] # NoBooking /\ booking[c].to = s /\ booking[c].absence[2] = o
      /\ \A c \in Bookings : (Booked(c) /\ booking[c].to = s) =>
            LET o == booking[c].absence[2] IN o # p /\ record'[s][o] # NoRecord /\ record'[s][o].booking = c
      /\ FitsIn(s, record'[s])
  <2>1. Destination(s, p)
    OBVIOUS
  <2> HIDE DEF BookMakeup, p
  <2>2. record'[s] = Written(s, p, b, "UNMARKED")
    BY <1>3
  <2> QED  BY <1>1, <2>1, <2>2, Sitting
<1>5. \A c \in Bookings :
        booking'[c] = IF c = b THEN [absence |-> a, to |-> s, status |-> "BOOKED"] ELSE booking[c]
  BY DEF MInv, MakeupsTypeOK
<1>6. [absence |-> a, to |-> s, status |-> "BOOKED"] \in Booking
  BY DEF Booking
<1>7. \A c \in Bookings : /\ Booked(c)' <=> c = b \/ Booked(c)
                          /\ Live(c)' <=> c = b \/ Live(c)
  BY <1>5, <1>6, MakeupsAssumption DEF Booked, Live
<1>8. ~Booked(b) /\ ~Live(b)
  BY DEF Booked, Live
<1>9. \A q \in Sessions : found'[q] = IF q = s THEN {} ELSE found[q]
  BY DEF MInv, MakeupsTypeOK
<1>10. record' \in [Sessions -> [Pupils -> Record \cup {NoRecord}]]
  BY <1>3, <1>4 DEF MInv, MakeupsTypeOK
<1>11. booking' \in [Bookings -> Booking \cup {NoBooking}]
  BY <1>6 DEF MInv, MakeupsTypeOK
<1> HIDE DEF p
<1>12. RecordsMatch'
  <2> SUFFICES ASSUME NEW q \in Sessions, NEW o \in Recorded(q)', record'[q][o].booking # NoBooking
               PROVE  LET c == booking'[record'[q][o].booking] IN c # NoBooking /\ c.to = q /\ c.absence[2] = o
    BY DEF RecordsMatch
  <2>1. o \in Pupils /\ record'[q][o] # NoRecord
    BY DEF Recorded
  <2>2. CASE q = s /\ o = p
    BY <2>2, <1>1, <1>4, <1>5, <1>6, MakeupsAssumption DEF p
  <2>3. CASE ~(q = s /\ o = p)
    <3> DEFINE c == record'[q][o].booking
    <3>1. c \in Bookings /\ booking[c] # NoBooking /\ booking[c].to = q /\ booking[c].absence[2] = o
      <4>1. CASE q = s
        BY <4>1, <2>1, <2>3, <1>4
      <4>2. CASE q # s
        BY <4>2, <2>1, <1>3, OneRow, OneRecord DEF MInv, MakeupsTypeOK, RecordsMatch
      <4> QED  BY <4>1, <4>2
    <3> HIDE DEF c
    <3>2. booking'[c] = booking[c]
      BY <3>1, <1>5
    <3> QED  BY <3>1, <3>2 DEF c
  <2> QED  BY <2>2, <2>3
<1>13. MakeupsTypeOK'
  <2>1. ASSUME NEW q \in Sessions, NEW c \in found'[q]
        PROVE  booking'[c] # NoBooking /\ booking'[c].to = q
    <3>1. c \in Bookings /\ booking[c] # NoBooking /\ booking[c].to = q
      BY <1>9 DEF MInv, MakeupsTypeOK
    <3>2. booking'[c] = booking[c]
      BY <3>1, <1>5
    <3> QED  BY <3>1, <3>2
  <2>2. found' \in [Sessions -> SUBSET Bookings]
    BY DEF MInv, MakeupsTypeOK
  <2> QED  BY <1>10, <1>11, <1>12, <2>1, <2>2 DEF MInv, MakeupsTypeOK
<1>14. LockedIsCompleted'
  BY DEF MInv, LockedIsCompleted
<1>15. BookedAttends'
  <2> SUFFICES ASSUME NEW c \in Bookings, Booked(c)'
               PROVE  (LET q == booking[c].to  o == booking[c].absence[2] IN
                       session[q] = "SCHEDULED" /\ record[q][o] # NoRecord /\ record[q][o].booking = c)'
    BY DEF BookedAttends
  <2>1. CASE c = b
    BY <2>1, <1>1, <1>2, <1>4, <1>5, MakeupsAssumption DEF p
  <2>2. CASE c # b
    <3>1. Booked(c) /\ booking'[c] = booking[c]
      BY <2>2, <1>5, <1>7
    <3>2. booking[c].to \in Sessions /\ booking[c].absence[2] \in Pupils
      BY <3>1, OneBooking DEF MInv, Booked
    <3>3. record'[booking[c].to][booking[c].absence[2]] # NoRecord
          /\ record'[booking[c].to][booking[c].absence[2]].booking = c
      <4>1. CASE booking[c].to = s
        BY <4>1, <3>1, <1>4
      <4>2. CASE booking[c].to # s
        BY <4>2, <3>1, <3>2, <1>3 DEF MInv, BookedAttends
      <4> QED  BY <4>1, <4>2
    <3>4. session[booking[c].to] = "SCHEDULED"
      BY <3>1 DEF MInv, BookedAttends
    <3>5. session' = session
      OBVIOUS
    <3> HIDE DEF BookMakeup
    <3> QED  BY <3>1, <3>3, <3>4, <3>5
  <2> QED  BY <2>1, <2>2
<1>16. FoundIsScheduled'
  BY <1>9 DEF MInv, FoundIsScheduled
<1>17. \A c \in Bookings : Live(c) => booking[c].absence # a
  <2> SUFFICES ASSUME NEW c \in Bookings, Live(c), booking[c].absence = a  PROVE FALSE
    OBVIOUS
  <2>1. booking[c].status = "USED"
    BY DEF Live, ActivelyBooked, Booked
  <2> QED  BY <2>1 DEF MInv, UsedIsSpent, Live, Bookable
<1>18. LiveOnce'
  BY <1>5, <1>7, <1>8, <1>17 DEF MInv, LiveOnce
<1>19. \A x \in Absences : entitlement'[x] = IF x = a THEN "BOOKED" ELSE entitlement[x]
  BY DEF MInv, MakeupsTypeOK
<1>20. UsedIsSpent'
  <2> SUFFICES ASSUME NEW c \in Bookings, booking'[c] # NoBooking, booking'[c].status = "USED"
               PROVE  entitlement'[booking'[c].absence] = "USED"
    BY DEF UsedIsSpent
  <2>1. c # b /\ booking'[c] = booking[c]
    BY <1>5
  <2>2. booking[c].absence \in Absences /\ booking[c].absence # a
    BY <2>1, <1>17, OneBooking DEF MInv, Live
  <2> QED  BY <2>1, <2>2, <1>19 DEF MInv, UsedIsSpent
<1>21. BookedUnlessFreed'
  <2> SUFFICES ASSUME NEW x \in Absences
               PROVE  /\ entitlement'[x] = "BOOKED" => ActivelyBooked(x)'
                      /\ ActivelyBooked(x)' => entitlement'[x] = "BOOKED" \/ ReleasedByCancellation(x)'
    BY DEF BookedUnlessFreed
  <2>1. ReleasedByCancellation(x) => ReleasedByCancellation(x)'
    BY <1>5 DEF ReleasedByCancellation
  <2>2. ActivelyBooked(x)' <=> ActivelyBooked(x) \/ x = a
    BY <1>5, <1>7, <1>8 DEF ActivelyBooked
  <2> QED  BY <2>1, <2>2, <1>19 DEF MInv, BookedUnlessFreed
<1>22. LockedIsMarked'
  BY <1>2, <1>3 DEF MInv, LockedIsMarked, Unmarked, Recorded
<1>23. MakeupsFit'
  <2> SUFFICES ASSUME NEW q \in Sessions  PROVE FitsIn(q, record'[q])
    BY DEF MakeupsFit, FitsIn, Seats, Recorded
  <2> HIDE DEF BookMakeup
  <2>1. CASE q = s
    BY <2>1, <1>4
  <2>2. CASE q # s
    <3>1. record'[q] = record[q]
      BY <2>2, <1>3
    <3> QED  BY <3>1 DEF MInv, MakeupsFit, FitsIn, Seats, Recorded
  <2> QED  BY <2>1, <2>2
<1>24. InitializedFit'
  <2>1. ASSUME NEW q \in Sessions, q # s, NEW c \in found[q]
        PROVE  booking'[c].absence = booking[c].absence
    BY <1>5, <2>1 DEF MInv, MakeupsTypeOK
  <2> QED  BY <1>3, <1>9, <1>13, <1>23, <2>1, ViewsFit
<1> QED  BY <1>13, <1>14, <1>15, <1>16, <1>18, <1>20, <1>21, <1>22, <1>23, <1>24 DEF MInv

LEMMA RebookMakeupKeeps ==
    ASSUME MInv, NEW b \in Bookings, NEW s \in Sessions, RebookMakeup(b, s)
    PROVE  MInv'
<1> DEFINE a == booking[b].absence  p == a[2]  from == booking[b].to
<1> USE DEF RebookMakeup
<1>1. /\ p \in Pupils /\ from \in Sessions /\ a \in Absences /\ s # from
      /\ Booked(b) /\ booking[b] \in Booking
      /\ booking[b] = [absence |-> a, to |-> from, status |-> "BOOKED"]
  BY OneBooking DEF MInv, Booked
<1>2. /\ session[s] = "SCHEDULED" /\ sheet[s] = "OPEN"
      /\ \A c \in Bookings : Booked(c) => ~(booking[c].to = s /\ booking[c].absence[2] = p)
  BY <1>1, FreeSeat
<1>3. /\ session[from] = "SCHEDULED" /\ sheet[from] = "OPEN"
      /\ record[from][p] \in Record /\ record[from][p].booking = b
  BY <1>1, OneRow DEF MInv, BookedAttends
<1>4. \A q \in Sessions :
        record'[q] = IF q = s THEN Written(s, p, b, "MAKEUP")
                     ELSE IF q = from THEN [record[from] EXCEPT ![p] = Unbooked(record[from][p])]
                     ELSE record[q]
  <2>1. record' = [record EXCEPT ![from][p] = Unbooked(@), ![s] = Written(s, p, b, "MAKEUP")]
    BY DEF Written
  <2>2. record \in [Sessions -> [Pupils -> Record \cup {NoRecord}]]
    BY DEF MInv, MakeupsTypeOK
  <2> HIDE DEF a, p, from, RebookMakeup
  <2> QED  BY <1>1, <2>1, <2>2
<1>5. /\ record'[s] \in [Pupils -> Record \cup {NoRecord}]
      /\ record'[s][p] \in Record /\ record'[s][p].booking = b
      /\ \A o \in Pupils : (o # p /\ record'[s][o] # NoRecord /\ record'[s][o].booking # NoBooking) =>
            LET c == record'[s][o].booking IN
            c \in Bookings /\ booking[c] # NoBooking /\ booking[c].to = s /\ booking[c].absence[2] = o
      /\ \A c \in Bookings : (Booked(c) /\ booking[c].to = s) =>
            LET o == booking[c].absence[2] IN o # p /\ record'[s][o] # NoRecord /\ record'[s][o].booking = c
      /\ FitsIn(s, record'[s])
  <2>1. Destination(s, p)
    OBVIOUS
  <2> HIDE DEF RebookMakeup, a, p, from
  <2>2. record'[s] = Written(s, p, b, "MAKEUP")
    BY <1>4
  <2> QED  BY <1>1, <2>1, <2>2, Sitting
<1>6. /\ Unbooked(record[from][p]) \in Record \cup {NoRecord}
      /\ Unbooked(record[from][p]) # NoRecord =>
            /\ Unbooked(record[from][p]).booking = NoBooking
            /\ Unbooked(record[from][p]).enrolled /\ record[from][p].enrolled
  BY <1>3, Unbooking
<1>7. booking'[b] = [absence |-> a, to |-> s, status |-> "BOOKED"] /\ booking'[b] \in Booking
  BY <1>1 DEF MInv, MakeupsTypeOK, Booking
<1>8. \A c \in Bookings : c # b => booking'[c] = booking[c]
  BY DEF MInv, MakeupsTypeOK
<1>9. \A c \in Bookings : /\ booking'[c] # NoBooking <=> booking[c] # NoBooking
                          /\ booking[c] # NoBooking => /\ booking'[c].absence = booking[c].absence
                                                       /\ booking'[c].status = booking[c].status
  BY <1>1, <1>7, <1>8, MakeupsAssumption
<1>10. \A c \in Bookings : /\ Booked(c)' <=> Booked(c)
                           /\ Live(c)' <=> Live(c)
  BY <1>9 DEF Booked, Live
<1>11. \A q \in Sessions, o \in Pupils : q # s =>
        record'[q][o] = IF q = from /\ o = p THEN Unbooked(record[from][p]) ELSE record[q][o]
  BY <1>1, <1>4 DEF MInv, MakeupsTypeOK
<1>12. booking' \in [Bookings -> Booking \cup {NoBooking}]
  BY <1>1, <1>7, <1>8 DEF MInv, MakeupsTypeOK
<1>13. record' \in [Sessions -> [Pupils -> Record \cup {NoRecord}]]
  <2> HIDE DEF a, p, from
  <2>1. ASSUME NEW q \in Sessions  PROVE record'[q] \in [Pupils -> Record \cup {NoRecord}]
    <3>1. record[q] \in [Pupils -> Record \cup {NoRecord}] /\ record[from] \in [Pupils -> Record \cup {NoRecord}]
      BY <1>1 DEF MInv, MakeupsTypeOK
    <3>2. CASE q = s
      BY <3>2, <1>5
    <3>3. CASE q = from
      <4>1. record'[q] = [record[from] EXCEPT ![p] = Unbooked(record[from][p])]
        BY <3>3, <1>1, <1>4
      <4>2. [record[from] EXCEPT ![p] = Unbooked(record[from][p])] \in [Pupils -> Record \cup {NoRecord}]
        BY <3>1, <1>6
      <4> QED  BY <4>1, <4>2
    <3>4. CASE q # s /\ q # from
      BY <3>1, <3>4, <1>4
    <3> QED  BY <3>2, <3>3, <3>4
  <2>2. record' = [q \in Sessions |-> record'[q]]
    BY DEF MInv, MakeupsTypeOK
  <2> QED  BY <2>1, <2>2
<1>14. /\ UNCHANGED <<session, sheet, entitlement, lapsed>> /\ found[from] = {}
       /\ \A q \in Sessions : found'[q] = IF q = s THEN {} ELSE found[q]
       /\ found' \in [Sessions -> SUBSET Bookings]
  BY DEF MInv, MakeupsTypeOK
<1> HIDE DEF a, p, from, RebookMakeup
<1>16. ASSUME NEW q \in Sessions, NEW o \in Recorded(q)', ~(q = s /\ o = p), record'[q][o].booking # NoBooking
       PROVE  LET c == record'[q][o].booking IN
              c \in Bookings /\ c # b /\ booking[c] # NoBooking /\ booking[c].to = q /\ booking[c].absence[2] = o
  <2>1. o \in Pupils /\ record'[q][o] # NoRecord
    BY DEF Recorded
  <2>2. CASE q = s
    BY <1>1, <1>5, <1>16, <2>1, <2>2 DEF from
  <2>3. CASE q # s
    <3>1. ~(q = from /\ o = p)
      BY <1>11, <1>1, <1>6, <1>16, <2>1, <2>3
    <3>2. record'[q][o] = record[q][o] /\ record[q][o] # NoRecord
      BY <1>11, <2>1, <2>3, <3>1
    <3>3. LET c == record[q][o].booking IN
          c \in Bookings /\ booking[c] # NoBooking /\ booking[c].to = q /\ booking[c].absence[2] = o
      BY <1>16, <2>1, <3>2, OneRow, OneRecord DEF MInv, MakeupsTypeOK, RecordsMatch, Recorded
    <3> QED  BY <3>1, <3>2, <3>3 DEF from, p, a
  <2> QED  BY <2>2, <2>3
<1>17. RecordsMatch'
  <2> SUFFICES ASSUME NEW q \in Sessions, NEW o \in Recorded(q)', record'[q][o].booking # NoBooking
               PROVE  LET c == booking'[record'[q][o].booking] IN c # NoBooking /\ c.to = q /\ c.absence[2] = o
    BY DEF RecordsMatch
  <2>1. CASE q = s /\ o = p
    BY <2>1, <1>1, <1>5, <1>7, MakeupsAssumption DEF p
  <2>2. CASE ~(q = s /\ o = p)
    <3> DEFINE c == record'[q][o].booking
    <3>1. c \in Bookings /\ c # b /\ booking[c] # NoBooking /\ booking[c].to = q /\ booking[c].absence[2] = o
      BY <2>2, <1>16
    <3> HIDE DEF c
    <3>2. booking'[c] = booking[c]
      BY <3>1, <1>8
    <3> QED  BY <3>1, <3>2 DEF c
  <2> QED  BY <2>1, <2>2
<1>18. MakeupsTypeOK'
  <2>1. ASSUME NEW q \in Sessions, NEW c \in found'[q]
        PROVE  booking'[c] # NoBooking /\ booking'[c].to = q
    <3>1. c \in Bookings /\ c \in found[q] /\ booking[c] # NoBooking /\ booking[c].to = q
      BY <1>14 DEF MInv, MakeupsTypeOK
    <3>2. c # b
      BY <3>1, <1>14 DEF from
    <3> QED  BY <3>1, <3>2, <1>8
  <2> QED  BY <1>12, <1>13, <1>14, <1>17, <2>1 DEF MInv, MakeupsTypeOK
<1>19. LockedIsCompleted'
  BY <1>14 DEF MInv, LockedIsCompleted
<1>20. BookedAttends'
  <2> SUFFICES ASSUME NEW c \in Bookings, Booked(c)
               PROVE  (LET q == booking[c].to  o == booking[c].absence[2] IN
                       session[q] = "SCHEDULED" /\ record[q][o] # NoRecord /\ record[q][o].booking = c)'
    BY <1>10 DEF BookedAttends
  <2>1. CASE c = b
    BY <2>1, <1>1, <1>2, <1>5, <1>7, <1>14, MakeupsAssumption DEF p
  <2>2. CASE c # b
    <3>1. booking'[c] = booking[c] /\ booking[c].to \in Sessions /\ booking[c].absence[2] \in Pupils
      BY <2>2, <1>8, OneBooking DEF MInv, Booked
    <3>2. session[booking[c].to] = "SCHEDULED" /\ record[booking[c].to][booking[c].absence[2]] # NoRecord
          /\ record[booking[c].to][booking[c].absence[2]].booking = c
      BY DEF MInv, BookedAttends
    <3>3. record'[booking[c].to][booking[c].absence[2]] # NoRecord
          /\ record'[booking[c].to][booking[c].absence[2]].booking = c
      <4>1. CASE booking[c].to = s
        BY <4>1, <1>5
      <4>2. CASE booking[c].to # s
        BY <4>2, <2>2, <3>1, <3>2, <1>3, <1>11
      <4> QED  BY <4>1, <4>2
    <3> QED  BY <3>1, <3>2, <3>3, <1>14
  <2> QED  BY <2>1, <2>2
<1>21. FoundIsScheduled'
  BY <1>14 DEF MInv, FoundIsScheduled
<1>22. LiveOnce'
  BY <1>9, <1>10 DEF MInv, LiveOnce, Live
<1>23. UsedIsSpent'
  BY <1>9, <1>14 DEF MInv, UsedIsSpent
<1>24. BookedUnlessFreed'
  <2> SUFFICES ASSUME NEW x \in Absences
               PROVE  /\ entitlement[x] = "BOOKED" => ActivelyBooked(x)'
                      /\ ActivelyBooked(x)' => entitlement[x] = "BOOKED" \/ ReleasedByCancellation(x)'
    BY <1>14 DEF BookedUnlessFreed
  <2>1. ReleasedByCancellation(x) => ReleasedByCancellation(x)'
    BY <1>1, <1>8, <1>14 DEF ReleasedByCancellation
  <2>2. ActivelyBooked(x)' <=> ActivelyBooked(x)
    BY <1>9, <1>10 DEF ActivelyBooked, Booked
  <2> QED  BY <2>1, <2>2 DEF MInv, BookedUnlessFreed
<1>25. LockedIsMarked'
  <2> SUFFICES ASSUME NEW q \in Sessions, sheet[q] = "LOCKED"  PROVE Unmarked(q)' = {}
    BY <1>14 DEF LockedIsMarked
  <2>1. record'[q] = record[q]
    BY <1>2, <1>3, <1>4
  <2> QED  BY <2>1 DEF MInv, LockedIsMarked, Unmarked, Recorded
<1>26. MakeupsFit'
  <2> SUFFICES ASSUME NEW q \in Sessions  PROVE FitsIn(q, record'[q])
    BY DEF MakeupsFit, FitsIn, Seats, Recorded
  <2>1. CASE q = s
    BY <2>1, <1>5
  <2>2. CASE q # s
    <3>1. FitsIn(q, record[q])
      BY DEF MInv, MakeupsFit, FitsIn, Seats, Recorded
    <3>2. ASSUME NEW o \in Seats(record'[q])
          PROVE  o \in Seats(record[q]) /\ record'[q][o].enrolled = record[q][o].enrolled
      <4>1. o \in Pupils /\ record'[q][o] # NoRecord
        BY DEF Seats
      <4>2. CASE q = from /\ o = p
        BY <4>1, <4>2, <2>2, <1>1, <1>3, <1>6, <1>11, MakeupsAssumption DEF Seats
      <4>3. CASE ~(q = from /\ o = p)
        BY <4>1, <4>3, <2>2, <1>11 DEF Seats
      <4> QED  BY <4>2, <4>3
    <3> QED  BY <3>1, <3>2, StillFits
  <2> QED  BY <2>1, <2>2
<1>27. InitializedFit'
  <2>1. ASSUME NEW q \in Sessions, q # s, q # from, NEW c \in found[q]
        PROVE  booking'[c].absence = booking[c].absence
    BY <1>9, <2>1 DEF MInv, MakeupsTypeOK
  <2> QED  BY <1>4, <1>14, <1>18, <1>26, <2>1, ViewsFit
<1> QED  BY <1>18, <1>19, <1>20, <1>21, <1>22, <1>23, <1>24, <1>25, <1>26, <1>27 DEF MInv

LEMMA CancelMakeupKeeps ==
    ASSUME MInv, NEW b \in Bookings, CancelMakeup(b)
    PROVE  MInv'
<1> DEFINE a == booking[b].absence  p == a[2]  s == booking[b].to
<1> USE DEF CancelMakeup
<1>1. /\ p \in Pupils /\ s \in Sessions /\ a \in Absences
      /\ Booked(b) /\ booking[b] \in Booking
      /\ booking[b] = [absence |-> a, to |-> s, status |-> "BOOKED"]
  BY OneBooking DEF MInv, Booked
<1>2. /\ session[s] = "SCHEDULED" /\ sheet[s] = "OPEN"
      /\ record[s][p] \in Record /\ record[s][p].booking = b
  BY <1>1, OneRow DEF MInv, BookedAttends, LockedIsCompleted, MakeupsTypeOK
<1>3. \A q \in Sessions, o \in Pupils :
        record'[q][o] = IF q = s /\ o = p THEN Unbooked(record[s][p]) ELSE record[q][o]
  BY <1>1, <1>2 DEF MInv, MakeupsTypeOK
<1>4. /\ Unbooked(record[s][p]) \in Record \cup {NoRecord}
      /\ Unbooked(record[s][p]) # NoRecord =>
            /\ Unbooked(record[s][p]).booking = NoBooking
            /\ Unbooked(record[s][p]).enrolled /\ record[s][p].enrolled
  BY <1>2, Unbooking
<1>5. booking'[b] = [absence |-> a, to |-> s, status |-> "CANCELLED"] /\ booking'[b] \in Booking
  BY <1>1 DEF MInv, MakeupsTypeOK, Booking
<1>6. \A c \in Bookings : c # b => booking'[c] = booking[c]
  BY DEF MInv, MakeupsTypeOK
<1>7. \A c \in Bookings : /\ booking'[c] # NoBooking <=> booking[c] # NoBooking
                          /\ booking[c] # NoBooking => /\ booking'[c].absence = booking[c].absence
                                                       /\ booking'[c].to = booking[c].to
                          /\ booking[c] # NoBooking /\ booking[c].status = "CANCELLED" => booking'[c] = booking[c]
  BY <1>1, <1>5, <1>6, MakeupsAssumption
<1>8. \A c \in Bookings : /\ Booked(c)' <=> Booked(c) /\ c # b
                          /\ Live(c)' <=> Live(c) /\ c # b
  BY <1>5, <1>6 DEF Booked, Live
<1>9. \A q \in Sessions : /\ Recorded(q)' \subseteq Recorded(q)
                          /\ q # s => Recorded(q)' = Recorded(q)
  BY <1>2, <1>3, MakeupsAssumption DEF Recorded
<1>10. booking' \in [Bookings -> Booking \cup {NoBooking}]
  BY <1>1, <1>5, <1>6 DEF MInv, MakeupsTypeOK
<1>11. record' \in [Sessions -> [Pupils -> Record \cup {NoRecord}]]
  BY <1>1, <1>2, <1>4 DEF MInv, MakeupsTypeOK
<1>12. UNCHANGED <<session, sheet, lapsed, found>>
  OBVIOUS
<1>13. \A x \in Absences : entitlement'[x] = IF x = a THEN Freed(a) ELSE entitlement[x]
  BY <1>1 DEF MInv, MakeupsTypeOK
<1>14. entitlement' \in [Absences -> {"NONE", "AVAILABLE", "BOOKED", "USED", "EXPIRED", "REVOKED"}]
  BY <1>1 DEF MInv, MakeupsTypeOK, Freed
<1> HIDE DEF a, p, s, CancelMakeup
<1>15. ASSUME NEW q \in Sessions, NEW o \in Recorded(q)', record'[q][o].booking # NoBooking
       PROVE  o \in Recorded(q) /\ record'[q][o] = record[q][o] /\ record[q][o].booking \in Bookings
              /\ record[q][o].booking # b
  <2>1. o \in Pupils /\ record'[q][o] # NoRecord
    BY DEF Recorded
  <2>2. ~(q = s /\ o = p)
    BY <1>3, <1>1, <1>4, <1>15, <2>1
  <2>3. record'[q][o] = record[q][o] /\ o \in Recorded(q)
    BY <1>3, <1>9, <2>1, <2>2
  <2>4. record[q][o].booking \in Bookings
    BY <1>15, <2>3, OneRow, OneRecord DEF MInv, Recorded
  <2>5. record[q][o].booking # b
    BY <1>15, <2>2, <2>3 DEF MInv, MakeupsTypeOK, RecordsMatch, s, p, a
  <2> QED  BY <2>3, <2>4, <2>5
<1>16. RecordsMatch'
  BY <1>6, <1>15 DEF MInv, MakeupsTypeOK, RecordsMatch
<1>17. MakeupsTypeOK'
  <2>1. ASSUME NEW q \in Sessions, NEW c \in found[q]
        PROVE  booking'[c] # NoBooking /\ booking'[c].to = q
    BY <1>7 DEF MInv, MakeupsTypeOK
  <2> QED  BY <1>10, <1>11, <1>12, <1>14, <1>16, <2>1 DEF MInv, MakeupsTypeOK
<1>18. LockedIsCompleted'
  BY <1>12 DEF MInv, LockedIsCompleted
<1>19. BookedAttends'
  <2> SUFFICES ASSUME NEW c \in Bookings, Booked(c), c # b
               PROVE  (LET q == booking[c].to  o == booking[c].absence[2] IN
                       session[q] = "SCHEDULED" /\ record[q][o] # NoRecord /\ record[q][o].booking = c)'
    BY <1>8 DEF BookedAttends
  <2>1. booking'[c] = booking[c] /\ booking[c].to \in Sessions /\ booking[c].absence[2] \in Pupils
    BY <1>6, OneBooking DEF MInv, Booked
  <2>2. session[booking[c].to] = "SCHEDULED" /\ record[booking[c].to][booking[c].absence[2]] # NoRecord
        /\ record[booking[c].to][booking[c].absence[2]].booking = c
    BY DEF MInv, BookedAttends
  <2>3. record'[booking[c].to][booking[c].absence[2]] = record[booking[c].to][booking[c].absence[2]]
    BY <2>1, <2>2, <1>2, <1>3
  <2> QED  BY <2>1, <2>2, <2>3, <1>12
<1>20. FoundIsScheduled'
  BY <1>12 DEF MInv, FoundIsScheduled
<1>21. LiveOnce'
  BY <1>7, <1>8 DEF MInv, LiveOnce, Live
<1>22. UsedIsSpent'
  <2> SUFFICES ASSUME NEW c \in Bookings, booking'[c] # NoBooking, booking'[c].status = "USED"
               PROVE  entitlement'[booking'[c].absence] = "USED"
    BY DEF UsedIsSpent
  <2>1. c # b /\ booking'[c] = booking[c]
    BY <1>5, <1>6
  <2>2. booking[c].absence \in Absences /\ booking[c].absence # a
    BY <2>1, <1>1, OneBooking DEF MInv, Live, LiveOnce, Booked, a
  <2> QED  BY <2>1, <2>2, <1>13 DEF MInv, UsedIsSpent
<1>23. BookedUnlessFreed'
  <2> SUFFICES ASSUME NEW x \in Absences
               PROVE  /\ entitlement'[x] = "BOOKED" => ActivelyBooked(x)'
                      /\ ActivelyBooked(x)' => entitlement'[x] = "BOOKED" \/ ReleasedByCancellation(x)'
    BY DEF BookedUnlessFreed
  <2>1. ReleasedByCancellation(x) => ReleasedByCancellation(x)'
    BY <1>7, <1>12 DEF ReleasedByCancellation
  <2>2. CASE x = a
    <3>1. ~ActivelyBooked(x)'
      BY <2>2, <1>1, <1>7, <1>8 DEF ActivelyBooked, MInv, LiveOnce, Live, Booked, a
    <3>2. entitlement'[x] # "BOOKED"
      BY <2>2, <1>13 DEF Freed
    <3> QED  BY <3>1, <3>2
  <2>3. CASE x # a
    <3>1. ActivelyBooked(x)' <=> ActivelyBooked(x)
      BY <2>3, <1>7, <1>8 DEF ActivelyBooked, Booked, a
    <3> QED  BY <2>1, <2>3, <3>1, <1>13 DEF MInv, BookedUnlessFreed
  <2> QED  BY <2>2, <2>3
<1>24. LockedIsMarked'
  <2> SUFFICES ASSUME NEW q \in Sessions, sheet[q] = "LOCKED"  PROVE Unmarked(q)' = {}
    BY <1>12 DEF LockedIsMarked
  <2>1. \A o \in Pupils : record'[q][o] = record[q][o]
    BY <1>2, <1>3
  <2> QED  BY <2>1 DEF MInv, LockedIsMarked, Unmarked, Recorded
<1>25. \A q \in Sessions, o \in Pupils : record'[q][o] # NoRecord =>
            record[q][o] # NoRecord /\ record'[q][o].enrolled = record[q][o].enrolled
  <2> SUFFICES ASSUME NEW q \in Sessions, NEW o \in Pupils, record'[q][o] # NoRecord
               PROVE  record[q][o] # NoRecord /\ record'[q][o].enrolled = record[q][o].enrolled
    OBVIOUS
  <2>1. CASE q = s /\ o = p
    <3>1. record'[q][o] = Unbooked(record[s][p]) /\ record[q][o] = record[s][p]
      BY <2>1, <1>3
    <3>2. Unbooked(record[s][p]).enrolled = record[s][p].enrolled
      BY <3>1, <1>4, <1>2, OneRecord
    <3> QED  BY <3>1, <3>2, <1>2, MakeupsAssumption
  <2>2. CASE ~(q = s /\ o = p)
    BY <2>2, <1>3
  <2> QED  BY <2>1, <2>2
<1>26. MakeupsFit'
  <2> SUFFICES ASSUME NEW q \in Sessions  PROVE FitsIn(q, record'[q])
    BY DEF MakeupsFit, FitsIn, Seats, Recorded
  <2>1. FitsIn(q, record[q])
    BY DEF MInv, MakeupsFit, FitsIn, Seats, Recorded
  <2>2. \A o \in Seats(record'[q]) : o \in Seats(record[q]) /\ record'[q][o].enrolled = record[q][o].enrolled
    BY <1>25 DEF Seats
  <2> QED  BY <2>1, <2>2, StillFits
<1>27. \A q \in Sessions, o \in Pupils : FoundFor(q, o)' = FoundFor(q, o) /\ FoundFor(q, o) \subseteq Bookings
  <2> SUFFICES ASSUME NEW q \in Sessions, NEW o \in Pupils
               PROVE  FoundFor(q, o)' = FoundFor(q, o) /\ FoundFor(q, o) \subseteq Bookings
    OBVIOUS
  <2>1. \A c \in found[q] : c \in Bookings /\ booking'[c].absence = booking[c].absence
    BY <1>7 DEF MInv, MakeupsTypeOK
  <2> QED  BY <2>1, <1>12 DEF FoundFor
<1>28. InitializedFit'
  <2> SUFFICES ASSUME NEW q \in Sessions  PROVE FitsIn(q, Initialized(q)')
    BY DEF InitializedFit, FitsIn, Seats
  <2>1. ASSUME NEW o \in Pupils, ~(q = s /\ o = p)  PROVE Initialized(q)'[o] = Initialized(q)[o]
    BY <1>3, <1>27, <2>1 DEF Initialized
  <2>2. ASSUME q = s, Initialized(q)'[p] # NoRecord
        PROVE  Initialized(q)[p] # NoRecord /\ Initialized(q)'[p].enrolled = Initialized(q)[p].enrolled
    <3>1. Initialized(q)[p] = record[s][p]
      BY <1>1, <1>2, <2>2, Initializing, MakeupsAssumption
    <3>2. record'[s][p] = Unbooked(record[s][p]) /\ Unbooked(record[s][p]) \in Record \cup {NoRecord}
      BY <1>1, <1>3, <1>4
    <3>3. record[s][p].enrolled \in BOOLEAN /\ record[s][p] # NoRecord
      BY <1>2, OneRecord, MakeupsAssumption
    <3>4. Unbooked(record[s][p]) = NoRecord => ~record[s][p].enrolled
      BY <1>2, Unbooking
    <3>5. CASE FoundFor(q, p) = {}
      <4>1. Initialized(q)'[p] = record'[s][p]
        BY <1>1, <1>27, <2>2, <3>5 DEF Initialized
      <4> QED  BY <1>1, <1>25, <2>2, <3>1, <4>1
    <3>6. CASE FoundFor(q, p) # {}
      <4>1. PICK c \in Bookings : Initialized(q)'[p] = Seated(record'[s][p], c, "UNMARKED")
        BY <1>1, <1>27, <2>2, <3>6 DEF Initialized, AnyOf
      <4>2. Initialized(q)'[p].enrolled = (record'[s][p] # NoRecord /\ record'[s][p].enrolled)
        <5>1. record'[s][p] \in Record \cup {NoRecord}
          BY <3>2
        <5>2. Seated(record'[s][p], c, "UNMARKED").enrolled = (record'[s][p] # NoRecord /\ record'[s][p].enrolled)
          BY <5>1, Seating
        <5> QED  BY <4>1, <5>2
      <4> QED  BY <1>4, <3>1, <3>2, <3>3, <3>4, <4>2
    <3> QED  BY <3>5, <3>6
  <2>3. \A o \in Seats(Initialized(q)') :
            o \in Seats(Initialized(q)) /\ Initialized(q)'[o].enrolled = Initialized(q)[o].enrolled
    BY <2>1, <2>2 DEF Seats
  <2>4. FitsIn(q, Initialized(q))
    BY DEF MInv, InitializedFit
  <2> QED  BY <2>3, <2>4, StillFits
<1> QED  BY <1>17, <1>18, <1>19, <1>20, <1>21, <1>22, <1>23, <1>24, <1>26, <1>28 DEF MInv

-----------------------------------------------------------------------------
(* Sessions that are cancelled or moved *)

LEMMA CancelSessionKeeps ==
    ASSUME MInv, NEW s \in Sessions, CancelSession(s)
    PROVE  MInv'
<1> USE DEF CancelSession
<1>1. session[s] = "SCHEDULED" /\ found[s] = {} /\ sheet[s] = "OPEN"
  BY DEF Changeable, MInv, MakeupsTypeOK, LockedIsCompleted
<1>2. \A q \in Sessions : session'[q] = IF q = s THEN "CANCELLED" ELSE session[q]
  BY DEF MInv, MakeupsTypeOK
<1>3. ASSUME NEW c \in Bookings, Booked(c), booking[c].to = s
      PROVE  booking'[c] = [absence |-> booking[c].absence, to |-> s, status |-> "CANCELLED"]
             /\ booking'[c] \in Booking
  BY <1>3, OneBooking DEF MInv, Booked, Booking
<1>4. \A c \in Bookings : ~(Booked(c) /\ booking[c].to = s) => booking'[c] = booking[c]
  OBVIOUS
<1>5. \A c \in Bookings : /\ booking'[c] # NoBooking <=> booking[c] # NoBooking
                          /\ booking[c] # NoBooking => /\ booking'[c].absence = booking[c].absence
                                                       /\ booking'[c].to = booking[c].to
                          /\ booking[c] # NoBooking /\ booking[c].status = "CANCELLED" => booking'[c] = booking[c]
                          /\ Booked(c) /\ booking[c].to = s => booking'[c].status = "CANCELLED"
  <2> SUFFICES ASSUME NEW c \in Bookings
               PROVE  /\ booking'[c] # NoBooking <=> booking[c] # NoBooking
                      /\ booking[c] # NoBooking => /\ booking'[c].absence = booking[c].absence
                                                   /\ booking'[c].to = booking[c].to
                      /\ booking[c] # NoBooking /\ booking[c].status = "CANCELLED" => booking'[c] = booking[c]
                      /\ Booked(c) /\ booking[c].to = s => booking'[c].status = "CANCELLED"
    OBVIOUS
  <2>1. CASE Booked(c) /\ booking[c].to = s
    BY <1>3, <2>1, MakeupsAssumption DEF Booked
  <2>2. CASE ~(Booked(c) /\ booking[c].to = s)
    BY <1>4, <2>2
  <2> QED  BY <2>1, <2>2
<1>6. \A c \in Bookings : /\ Booked(c)' <=> Booked(c) /\ booking[c].to # s
                          /\ Live(c)' <=> Live(c) /\ ~(Booked(c) /\ booking[c].to = s)
  <2> SUFFICES ASSUME NEW c \in Bookings
               PROVE  /\ Booked(c)' <=> Booked(c) /\ booking[c].to # s
                      /\ Live(c)' <=> Live(c) /\ ~(Booked(c) /\ booking[c].to = s)
    OBVIOUS
  <2>1. CASE Booked(c) /\ booking[c].to = s
    <3>1. booking'[c].status = "CANCELLED"
      BY <1>5, <2>1
    <3> QED  BY <2>1, <3>1 DEF Booked, Live
  <2>2. CASE ~(Booked(c) /\ booking[c].to = s)
    BY <1>4, <2>2 DEF Booked, Live
  <2> QED  BY <2>1, <2>2
<1>7. booking' \in [Bookings -> Booking \cup {NoBooking}]
  <2>1. \A c \in Bookings : booking'[c] \in Booking \cup {NoBooking}
    BY <1>3, <1>4 DEF MInv, MakeupsTypeOK
  <2> QED  BY <2>1
<1>8. \A q \in Sessions, o \in Pupils :
        record'[q][o] = IF q = s /\ record[s][o] # NoRecord /\ record[s][o].booking # NoBooking
                        THEN Unbooked(record[s][o]) ELSE record[q][o]
  BY DEF MInv, MakeupsTypeOK
<1>9. ASSUME NEW o \in Pupils, record[s][o] # NoRecord
      PROVE  /\ Unbooked(record[s][o]) \in Record \cup {NoRecord}
             /\ Unbooked(record[s][o]) # NoRecord =>
                  /\ Unbooked(record[s][o]).booking = NoBooking
                  /\ Unbooked(record[s][o]).enrolled /\ record[s][o].enrolled
  <2>1. record[s][o] \in Record
    BY <1>9, OneRow DEF MInv
  <2> QED  BY <2>1, Unbooking
<1>10. record' \in [Sessions -> [Pupils -> Record \cup {NoRecord}]]
  <2>1. \A q \in Sessions : record'[q] \in [Pupils -> Record \cup {NoRecord}]
    BY <1>9 DEF MInv, MakeupsTypeOK
  <2> QED  BY <2>1 DEF MInv, MakeupsTypeOK
<1>11. UNCHANGED <<sheet, lapsed, found>>
  OBVIOUS
<1>12. \A a \in Absences :
        entitlement'[a] = IF entitlement[a] = "BOOKED" /\ a \in CancelledAt(s) THEN Freed(a) ELSE entitlement[a]
  OBVIOUS
<1>13. entitlement' \in [Absences -> {"NONE", "AVAILABLE", "BOOKED", "USED", "EXPIRED", "REVOKED"}]
  <2>1. \A a \in Absences : entitlement'[a] \in {"NONE", "AVAILABLE", "BOOKED", "USED", "EXPIRED", "REVOKED"}
    BY <1>12 DEF MInv, MakeupsTypeOK, Freed
  <2> QED  BY <2>1
<1> HIDE DEF CancelSession
<1>14. \A q \in Sessions : /\ Recorded(q)' \subseteq Recorded(q)
                           /\ q # s => Recorded(q)' = Recorded(q)
  BY <1>8 DEF Recorded
<1>15. ASSUME NEW q \in Sessions, NEW o \in Recorded(q)'
       PROVE  /\ o \in Recorded(q) /\ o \in Pupils
              /\ record'[q][o].enrolled = record[q][o].enrolled
              /\ record'[q][o].booking # NoBooking => q # s /\ record'[q][o] = record[q][o]
  <2>1. o \in Pupils /\ record'[q][o] # NoRecord /\ o \in Recorded(q) /\ record[q][o] # NoRecord
    BY <1>14 DEF Recorded
  <2>2. CASE q = s /\ record[s][o].booking # NoBooking
    <3>1. record'[q][o] = Unbooked(record[s][o])
      BY <2>1, <2>2, <1>8
    <3>2. record'[q][o].booking = NoBooking /\ record'[q][o].enrolled /\ record[s][o].enrolled
      BY <2>1, <2>2, <3>1, <1>9
    <3> QED  BY <2>1, <2>2, <3>2, OneRow, <1>10, OneRecord
  <2>3. CASE ~(q = s /\ record[s][o].booking # NoBooking)
    <3>1. record'[q][o] = record[q][o]
      BY <2>1, <2>3, <1>8
    <3> QED  BY <2>1, <2>3, <3>1
  <2> QED  BY <2>2, <2>3
<1>16. ASSUME NEW q \in Sessions, NEW o \in Recorded(q)', record'[q][o].booking # NoBooking
       PROVE  /\ o \in Recorded(q) /\ q # s /\ record'[q][o] = record[q][o]
              /\ record[q][o].booking \in Bookings
              /\ booking[record[q][o].booking].to = q
              /\ booking'[record[q][o].booking] = booking[record[q][o].booking]
  <2>1. o \in Recorded(q) /\ q # s /\ record'[q][o] = record[q][o] /\ o \in Pupils
    BY <1>15, <1>16
  <2>2. record[q][o].booking \in Bookings
    BY <1>16, <2>1, OneRow, OneRecord DEF MInv
  <2>3. booking[record[q][o].booking].to = q
    BY <1>16, <2>1 DEF MInv, MakeupsTypeOK, RecordsMatch
  <2> QED  BY <2>1, <2>2, <2>3, <1>4
<1>17. RecordsMatch'
  BY <1>16 DEF MInv, MakeupsTypeOK, RecordsMatch
<1>18. MakeupsTypeOK'
  <2>1. session' \in [Sessions -> {"NONE", "SCHEDULED", "COMPLETED", "CANCELLED", "RESCHEDULED"}]
    BY DEF CancelSession, MInv, MakeupsTypeOK
  <2>2. ASSUME NEW q \in Sessions, NEW c \in found[q]
        PROVE  booking'[c] # NoBooking /\ booking'[c].to = q
    BY <1>5 DEF MInv, MakeupsTypeOK
  <2> QED  BY <2>1, <2>2, <1>7, <1>10, <1>11, <1>13, <1>17 DEF MInv, MakeupsTypeOK
<1>19. LockedIsCompleted'
  BY <1>1, <1>2, <1>11 DEF MInv, LockedIsCompleted
<1>20. BookedAttends'
  <2> SUFFICES ASSUME NEW c \in Bookings, Booked(c), booking[c].to # s
               PROVE  (LET q == booking[c].to  o == booking[c].absence[2] IN
                       session[q] = "SCHEDULED" /\ record[q][o] # NoRecord /\ record[q][o].booking = c)'
    BY <1>6 DEF BookedAttends
  <2>1. booking'[c] = booking[c] /\ booking[c].to \in Sessions /\ booking[c].absence[2] \in Pupils
    BY <1>4, OneBooking DEF MInv, Booked
  <2>2. session[booking[c].to] = "SCHEDULED" /\ record[booking[c].to][booking[c].absence[2]] # NoRecord
        /\ record[booking[c].to][booking[c].absence[2]].booking = c
    BY DEF MInv, BookedAttends
  <2> QED  BY <2>1, <2>2, <1>2, <1>8
<1>21. FoundIsScheduled'
  BY <1>1, <1>2, <1>11 DEF MInv, FoundIsScheduled
<1>22. LiveOnce'
  BY <1>5, <1>6 DEF MInv, LiveOnce, Live
<1>23. UsedIsSpent'
  <2> SUFFICES ASSUME NEW c \in Bookings, booking'[c] # NoBooking, booking'[c].status = "USED"
               PROVE  entitlement'[booking'[c].absence] = "USED"
    BY DEF UsedIsSpent
  <2>1. booking'[c] = booking[c]
    BY <1>4, <1>5
  <2>2. booking[c].absence \in Absences
    BY <2>1, OneBooking DEF MInv
  <2> QED  BY <2>1, <2>2, <1>12 DEF MInv, UsedIsSpent
<1>24. BookedUnlessFreed'
  <2> SUFFICES ASSUME NEW x \in Absences
               PROVE  /\ entitlement'[x] = "BOOKED" => ActivelyBooked(x)'
                      /\ ActivelyBooked(x)' => entitlement'[x] = "BOOKED" \/ ReleasedByCancellation(x)'
    BY DEF BookedUnlessFreed
  <2>1. ReleasedByCancellation(x) => ReleasedByCancellation(x)'
    <3> SUFFICES ASSUME NEW c \in Bookings, booking[c] # NoBooking, booking[c].absence = x,
                        booking[c].status = "CANCELLED", session[booking[c].to] = "CANCELLED"
                 PROVE  ReleasedByCancellation(x)'
      BY DEF ReleasedByCancellation
    <3>1. booking[c].to \in Sessions
      BY OneBooking DEF MInv
    <3> QED  BY <3>1, <1>2, <1>5 DEF ReleasedByCancellation
  <2>2. x \in CancelledAt(s) => ReleasedByCancellation(x)'
    <3>1. \A q \in Sessions : q = s => session'[q] = "CANCELLED"
      BY <1>2
    <3> QED  BY <3>1 DEF CancelledAt, ReleasedByCancellation
  <2>3. ASSUME entitlement'[x] = "BOOKED"  PROVE ActivelyBooked(x)'
    <3>1. entitlement[x] = "BOOKED" /\ x \notin CancelledAt(s)
      BY <2>3, <1>12 DEF Freed
    <3>2. PICK c \in Bookings : Booked(c) /\ booking[c].absence = x
      BY <3>1 DEF MInv, BookedUnlessFreed, ActivelyBooked
    <3>3. booking[c].to # s
      <4>1. SUFFICES ASSUME booking[c].to = s  PROVE FALSE
        OBVIOUS
      <4>2. booking'[c] # NoBooking /\ booking'[c].absence = x /\ booking'[c].to = s /\ booking'[c].status = "CANCELLED"
        BY <3>2, <4>1, <1>5 DEF Booked
      <4> QED  BY <3>1, <4>2 DEF CancelledAt
    <3>4. Booked(c)' /\ booking'[c].absence = x
      BY <3>2, <3>3, <1>4, <1>6
    <3> QED  BY <3>4 DEF ActivelyBooked
  <2>4. ASSUME ActivelyBooked(x)'  PROVE entitlement'[x] = "BOOKED" \/ ReleasedByCancellation(x)'
    <3>1. ActivelyBooked(x)
      BY <2>4, <1>5, <1>6 DEF ActivelyBooked, Booked
    <3> QED  BY <3>1, <2>1, <2>2, <1>12 DEF MInv, BookedUnlessFreed
  <2> QED  BY <2>3, <2>4
<1>25. \A q \in Sessions : q # s => record'[q] = record[q]
  BY DEF CancelSession, MInv, MakeupsTypeOK
<1>26. LockedIsMarked'
  BY <1>1, <1>11, <1>25 DEF MInv, LockedIsMarked, Unmarked, Recorded
<1>27. MakeupsFit'
  <2> SUFFICES ASSUME NEW q \in Sessions  PROVE FitsIn(q, record'[q])
    BY DEF MakeupsFit, FitsIn, Seats, Recorded
  <2>1. FitsIn(q, record[q])
    BY DEF MInv, MakeupsFit, FitsIn, Seats, Recorded
  <2>2. \A o \in Seats(record'[q]) : o \in Seats(record[q]) /\ record'[q][o].enrolled = record[q][o].enrolled
    BY <1>15 DEF Seats, Recorded
  <2> QED  BY <2>1, <2>2, StillFits
<1>28. InitializedFit'
  <2>1. ASSUME NEW q \in Sessions, NEW c \in found[q]
        PROVE  booking'[c].absence = booking[c].absence
    BY <1>5 DEF MInv, MakeupsTypeOK
  <2> QED  BY <1>1, <1>11, <1>18, <1>25, <1>27, <2>1, ViewsFit
<1> QED  BY <1>18, <1>19, <1>20, <1>21, <1>22, <1>23, <1>24, <1>26, <1>27, <1>28 DEF MInv

LEMMA RescheduleSessionKeeps ==
    ASSUME MInv, NEW s \in Sessions, NEW r \in Sessions, RescheduleSession(s, r)
    PROVE  MInv'
<1> USE DEF RescheduleSession
<1>1. /\ session[s] = "SCHEDULED" /\ found[s] = {} /\ sheet[s] = "OPEN"
      /\ session[r] = "NONE" /\ found[r] = {} /\ sheet[r] = "OPEN" /\ s # r
  BY DEF Changeable, MInv, MakeupsTypeOK, LockedIsCompleted, FoundIsScheduled
<1>2. \A q \in Sessions :
        session'[q] = IF q = s THEN "RESCHEDULED" ELSE IF q = r THEN "SCHEDULED" ELSE session[q]
  BY <1>1 DEF MInv, MakeupsTypeOK
<1>3. \A c \in Bookings :
        /\ Booked(c) /\ booking[c].to = s =>
              /\ booking'[c] \in Booking
              /\ booking'[c].absence = booking[c].absence
              /\ booking'[c].to = r
              /\ booking'[c].status = "BOOKED"
        /\ ~(Booked(c) /\ booking[c].to = s) => booking'[c] = booking[c]
  <2> SUFFICES ASSUME NEW c \in Bookings, Booked(c), booking[c].to = s
               PROVE  /\ booking'[c] \in Booking
                      /\ booking'[c].absence = booking[c].absence
                      /\ booking'[c].to = r
                      /\ booking'[c].status = "BOOKED"
    OBVIOUS
  <2>1. /\ booking[c] = [absence |-> booking[c].absence, to |-> s, status |-> "BOOKED"]
        /\ booking[c].absence \in Absences
    BY OneBooking DEF MInv, Booked
  <2>2. booking'[c] = [booking[c] EXCEPT !.to = r]
    OBVIOUS
  <2>3. booking'[c] = [absence |-> booking[c].absence, to |-> r, status |-> "BOOKED"]
    BY <2>1, <2>2
  <2> QED  BY <2>1, <2>3 DEF Booking
<1>4. \A c \in Bookings : /\ booking'[c] # NoBooking <=> booking[c] # NoBooking
                          /\ booking[c] # NoBooking => /\ booking'[c].absence = booking[c].absence
                                                       /\ booking'[c].status = booking[c].status
                          /\ booking[c] # NoBooking /\ booking[c].status = "CANCELLED" => booking'[c] = booking[c]
  <2> SUFFICES ASSUME NEW c \in Bookings
               PROVE  /\ booking'[c] # NoBooking <=> booking[c] # NoBooking
                      /\ booking[c] # NoBooking => /\ booking'[c].absence = booking[c].absence
                                                   /\ booking'[c].status = booking[c].status
                      /\ booking[c] # NoBooking /\ booking[c].status = "CANCELLED" => booking'[c] = booking[c]
    OBVIOUS
  <2>1. CASE Booked(c) /\ booking[c].to = s
    BY <1>3, <2>1, MakeupsAssumption DEF Booked
  <2>2. CASE ~(Booked(c) /\ booking[c].to = s)
    BY <1>3, <2>2
  <2> QED  BY <2>1, <2>2
<1>5. \A c \in Bookings : /\ Booked(c)' <=> Booked(c)
                          /\ Live(c)' <=> Live(c)
  BY <1>4 DEF Booked, Live
<1>6. booking' \in [Bookings -> Booking \cup {NoBooking}]
  <2>1. \A c \in Bookings : booking'[c] \in Booking \cup {NoBooking}
    BY <1>3 DEF MInv, MakeupsTypeOK
  <2> QED  BY <2>1
<1>7. \A q \in Sessions, o \in Pupils :
        record'[q][o] = IF q = r THEN record[s][o]
                        ELSE IF q = s /\ record[s][o] # NoRecord /\ record[s][o].booking # NoBooking THEN NoRecord
                        ELSE record[q][o]
  <2>1. \A q \in Sessions : record'[q] = IF q = s
                    THEN [p \in Pupils |-> IF record[s][p] # NoRecord /\ record[s][p].booking # NoBooking
                                           THEN NoRecord ELSE record[s][p]]
                    ELSE IF q = r THEN record[s] ELSE record[q]
    BY <1>1 DEF MInv, MakeupsTypeOK
  <2> HIDE DEF RescheduleSession
  <2> TAKE q \in Sessions, o \in Pupils
  <2>2. CASE q = s
    BY <2>1, <2>2, <1>1
  <2>3. CASE q = r
    BY <2>1, <2>3, <1>1
  <2>4. CASE q # s /\ q # r
    BY <2>1, <2>4
  <2> QED  BY <2>2, <2>3, <2>4
<1>8. record' \in [Sessions -> [Pupils -> Record \cup {NoRecord}]]
  <2>1. \A q \in Sessions : record'[q] \in [Pupils -> Record \cup {NoRecord}]
    BY <1>1 DEF MInv, MakeupsTypeOK
  <2> QED  BY <2>1 DEF MInv, MakeupsTypeOK
<1>9. /\ UNCHANGED <<sheet, entitlement, lapsed, found>> /\ Capacity[r] = Capacity[s]
      /\ \A p \in Recorded(s) : record[s][p].booking # NoBooking => Booked(record[s][p].booking)
  OBVIOUS
<1>10. session' \in [Sessions -> {"NONE", "SCHEDULED", "COMPLETED", "CANCELLED", "RESCHEDULED"}]
  BY DEF MInv, MakeupsTypeOK
<1> HIDE DEF RescheduleSession
<1>11. Recorded(r)' = Recorded(s)
  BY <1>7 DEF Recorded
<1>12. \A q \in Sessions : q # r => /\ Recorded(q)' \subseteq Recorded(q)
                                    /\ q # s => Recorded(q)' = Recorded(q)
  BY <1>7 DEF Recorded
<1>13. ASSUME NEW q \in Sessions, NEW o \in Recorded(q)', q # r
       PROVE  o \in Recorded(q) /\ o \in Pupils /\ record'[q][o] = record[q][o]
              /\ (record[q][o].booking # NoBooking => q # s)
  <2>1. o \in Pupils /\ record'[q][o] # NoRecord
    BY DEF Recorded
  <2> QED  BY <2>1, <1>7, <1>12, <1>13 DEF Recorded
\* A record at s that names a booking names one that moves to r.
<1>14. ASSUME NEW o \in Recorded(s), record[s][o].booking # NoBooking
       PROVE  LET c == record[s][o].booking IN
              /\ c \in Bookings /\ Booked(c)
              /\ booking'[c] # NoBooking /\ booking'[c].to = r /\ booking'[c].absence[2] = o
  <2>1. record[s][o].booking \in Bookings
    BY <1>14, OneRow, OneRecord DEF MInv, Recorded
  <2>2. Booked(record[s][o].booking) /\ booking[record[s][o].booking].to = s
        /\ booking[record[s][o].booking].absence[2] = o
    BY <1>14, <1>9 DEF MInv, MakeupsTypeOK, RecordsMatch
  <2> QED  BY <2>1, <2>2, <1>3, <1>4 DEF Booked
<1>15. ASSUME NEW q \in Sessions, NEW o \in Recorded(q), record[q][o].booking # NoBooking, q # s
       PROVE  LET c == record[q][o].booking IN
              /\ c \in Bookings /\ booking'[c] = booking[c]
              /\ booking[c] # NoBooking /\ booking[c].to = q /\ booking[c].absence[2] = o
  <2>1. record[q][o].booking \in Bookings
    BY <1>15, OneRow, OneRecord DEF MInv, Recorded
  <2> QED  BY <1>15, <2>1, <1>3 DEF MInv, MakeupsTypeOK, RecordsMatch
<1>16. RecordsMatch'
  <2> SUFFICES ASSUME NEW q \in Sessions, NEW o \in Recorded(q)', record'[q][o].booking # NoBooking
               PROVE  LET c == booking'[record'[q][o].booking] IN c # NoBooking /\ c.to = q /\ c.absence[2] = o
    BY DEF RecordsMatch
  <2>1. CASE q = r
    <3>1. o \in Recorded(s) /\ record'[q][o] = record[s][o]
      BY <2>1, <1>7, <1>11 DEF Recorded
    <3> QED  BY <2>1, <3>1, <1>14
  <2>2. CASE q # r
    BY <2>2, <1>13, <1>15
  <2> QED  BY <2>1, <2>2
<1>17. MakeupsTypeOK'
  <2>1. ASSUME NEW q \in Sessions, NEW c \in found[q]
        PROVE  booking'[c] # NoBooking /\ booking'[c].to = q
    <3>1. c \in Bookings /\ booking[c] # NoBooking /\ booking[c].to = q /\ q # s
      BY <1>1 DEF MInv, MakeupsTypeOK
    <3> QED  BY <3>1, <1>3
  <2> QED  BY <1>6, <1>8, <1>9, <1>10, <1>16, <2>1 DEF MInv, MakeupsTypeOK
<1>18. LockedIsCompleted'
  BY <1>1, <1>2, <1>9 DEF MInv, LockedIsCompleted
<1>19. BookedAttends'
  <2> SUFFICES ASSUME NEW c \in Bookings, Booked(c)
               PROVE  (LET q == booking[c].to  o == booking[c].absence[2] IN
                       session[q] = "SCHEDULED" /\ record[q][o] # NoRecord /\ record[q][o].booking = c)'
    BY <1>5 DEF BookedAttends
  <2>1. booking[c].to \in Sessions /\ booking[c].absence[2] \in Pupils
    BY OneBooking DEF MInv, Booked
  <2>2. session[booking[c].to] = "SCHEDULED" /\ record[booking[c].to][booking[c].absence[2]] # NoRecord
        /\ record[booking[c].to][booking[c].absence[2]].booking = c
    BY DEF MInv, BookedAttends
  <2>3. CASE booking[c].to = s
    <3>1. booking'[c].to = r /\ booking'[c].absence = booking[c].absence
      BY <2>3, <1>3
    <3>2. record'[r][booking[c].absence[2]] = record[s][booking[c].absence[2]] /\ session'[r] = "SCHEDULED"
      BY <2>1, <1>1, <1>2, <1>7
    <3> QED  BY <2>2, <2>3, <3>1, <3>2
  <2>4. CASE booking[c].to # s
    <3>1. booking'[c] = booking[c] /\ booking[c].to # r
      BY <2>2, <2>4, <1>1, <1>3
    <3> QED  BY <2>1, <2>2, <2>4, <3>1, <1>2, <1>7
  <2> QED  BY <2>3, <2>4
<1>20. FoundIsScheduled'
  BY <1>1, <1>2, <1>9 DEF MInv, FoundIsScheduled
<1>21. LiveOnce'
  BY <1>4, <1>5 DEF MInv, LiveOnce, Live
<1>22. UsedIsSpent'
  BY <1>4, <1>9 DEF MInv, UsedIsSpent
<1>23. BookedUnlessFreed'
  <2> SUFFICES ASSUME NEW x \in Absences
               PROVE  /\ entitlement[x] = "BOOKED" => ActivelyBooked(x)'
                      /\ ActivelyBooked(x)' => entitlement[x] = "BOOKED" \/ ReleasedByCancellation(x)'
    BY <1>9 DEF BookedUnlessFreed
  <2>1. ReleasedByCancellation(x) => ReleasedByCancellation(x)'
    <3> SUFFICES ASSUME NEW c \in Bookings, booking[c] # NoBooking, booking[c].absence = x,
                        booking[c].status = "CANCELLED", session[booking[c].to] = "CANCELLED"
                 PROVE  ReleasedByCancellation(x)'
      BY DEF ReleasedByCancellation
    <3>1. booking[c].to \in Sessions
      BY OneBooking DEF MInv
    <3>2. booking'[c] = booking[c] /\ session'[booking[c].to] = "CANCELLED"
      BY <3>1, <1>1, <1>2, <1>4
    <3> QED  BY <3>2 DEF ReleasedByCancellation
  <2>2. ActivelyBooked(x)' <=> ActivelyBooked(x)
    BY <1>4, <1>5 DEF ActivelyBooked, Booked
  <2> QED  BY <2>1, <2>2 DEF MInv, BookedUnlessFreed
<1>24. LockedIsMarked'
  <2> SUFFICES ASSUME NEW q \in Sessions, sheet[q] = "LOCKED"  PROVE Unmarked(q)' = {}
    BY <1>9 DEF LockedIsMarked
  <2>1. \A o \in Pupils : record'[q][o] = record[q][o]
    BY <1>1, <1>7
  <2> QED  BY <2>1 DEF MInv, LockedIsMarked, Unmarked, Recorded
<1>25. MakeupsFit'
  <2> SUFFICES ASSUME NEW q \in Sessions  PROVE FitsIn(q, record'[q])
    BY DEF MakeupsFit, FitsIn, Seats, Recorded
  <2>1. FitsIn(q, record[q]) /\ FitsIn(s, record[s])
    BY DEF MInv, MakeupsFit, FitsIn, Seats, Recorded
  <2>2. CASE q = r
    <3>1. FitsIn(s, record'[q])
      <4>1. \A o \in Seats(record'[q]) : o \in Seats(record[s]) /\ record'[q][o].enrolled = record[s][o].enrolled
        BY <2>2, <1>7 DEF Seats
      <4> QED  BY <2>1, <4>1, StillFits
    <3> QED  BY <2>2, <3>1, <1>9 DEF FitsIn
  <2>3. CASE q # r
    <3>1. \A o \in Seats(record'[q]) : o \in Seats(record[q]) /\ record'[q][o].enrolled = record[q][o].enrolled
      BY <2>3, <1>13 DEF Seats, Recorded
    <3> QED  BY <2>1, <3>1, StillFits
  <2> QED  BY <2>2, <2>3
<1>26. InitializedFit'
  <2>1. ASSUME NEW q \in Sessions, NEW c \in found[q]
        PROVE  booking'[c].absence = booking[c].absence
    BY <1>4 DEF MInv, MakeupsTypeOK
  <2>2. \A q \in Sessions : q # s /\ q # r => record'[q] = record[q]
    BY DEF RescheduleSession, MInv, MakeupsTypeOK
  <2> QED  BY <1>1, <1>9, <1>17, <1>25, <2>1, <2>2, ViewsFit
<1> QED  BY <1>17, <1>18, <1>19, <1>20, <1>21, <1>22, <1>23, <1>24, <1>25, <1>26 DEF MInv

-----------------------------------------------------------------------------
(* The theorems about Makeups *)

LEMMA MakeupsStepKeeps == MInv /\ [MakeupsNext]_makeupVars => MInv'
<1> SUFFICES ASSUME MInv, [MakeupsNext]_makeupVars  PROVE MInv'
  OBVIOUS
<1>1. CASE UNCHANGED makeupVars
  <2>1. \A s \in Sessions : Recorded(s)' = Recorded(s) /\ Unmarked(s)' = Unmarked(s)
    BY <1>1 DEF makeupVars, Recorded, Unmarked
  <2>2. SameSeats /\ UNCHANGED <<session, sheet, record, entitlement, booking, lapsed, found>>
    BY <1>1 DEF makeupVars, SameSeats
  <2>3. RecordsMatch' /\ BookedAttends' /\ MakeupsFit'
    BY <2>2, SeatsKept
  <2>4. LiveOnce' /\ UsedIsSpent' /\ BookedUnlessFreed'
    BY <2>2, RightsKept
  <2>5. MakeupsTypeOK' /\ LockedIsCompleted' /\ FoundIsScheduled' /\ LockedIsMarked'
    BY <2>1, <2>2, <2>3 DEF MInv, MakeupsTypeOK, LockedIsCompleted, FoundIsScheduled, LockedIsMarked
  <2>6. InitializedFit'
    BY <2>2, <2>3, <2>5, ViewsFit
  <2> QED
    BY <2>3, <2>4, <2>5, <2>6 DEF MInv
<1>2. ASSUME NEW s \in Sessions, SheetStep(s)  PROVE MInv'
  BY <1>2, CreateSessionKeeps, BeginInitializeKeeps, InitializeKeeps, AbandonKeeps, FinalizeKeeps,
     UpdateRecordKeeps, CorrectKeeps DEF SheetStep
<1>3. ASSUME NEW s \in Sessions, Lapse(s) \/ CancelSession(s) \/ \E r \in Sessions : RescheduleSession(s, r)
      PROVE  MInv'
  BY <1>3, LapseKeeps, CancelSessionKeeps, RescheduleSessionKeeps
<1>4. ASSUME NEW b \in Bookings, BookingStep(b)  PROVE MInv'
  BY <1>4, BookMakeupKeeps, RebookMakeupKeeps, CancelMakeupKeeps DEF BookingStep
<1> QED  BY <1>1, <1>2, <1>3, <1>4 DEF MakeupsNext

\* The inductive invariant: each conjunct that MakeupsSafe states, that a session
\* in the hands of a command is still to come and has the places for the records
\* it is about to write, and that of the bookings of one absence one is booked or used.
THEOREM MakeupsInvariance == MakeupsSpec => []MInv
<1>1. MakeupsInit => MInv
  BY MakeupsInitially
<1>2. MInv /\ [MakeupsNext]_makeupVars => MInv'
  BY MakeupsStepKeeps
<1> QED  BY <1>1, <1>2, PTL DEF MakeupsSpec

\* Of two attended bookings of one absence, one is cancelled.
LEMMA AttendedOnce == MInv => MadeUpTwiceOnlyOnceCancelled
<1> SUFFICES ASSUME MInv, NEW a \in Absences, NEW b \in AttendedFor(a), NEW c \in AttendedFor(a),
                    booking[b].status # "CANCELLED", booking[c].status # "CANCELLED"
             PROVE  b = c
  BY DEF MadeUpTwiceOnlyOnceCancelled
<1>1. b \in Bookings /\ Live(b) /\ booking[b].absence = a
  BY OneBooking DEF AttendedFor, Live, MInv
<1>2. c \in Bookings /\ Live(c) /\ booking[c].absence = a
  BY OneBooking DEF AttendedFor, Live, MInv
<1> QED  BY <1>1, <1>2 DEF MInv, LiveOnce

\* A finalised sheet is reached by corrections only.
LEMMA LockedOrCorrected ==
    ASSUME MInv, [MakeupsNext]_makeupVars, NEW s \in Sessions, sheet[s] = "LOCKED",
           ~\E q \in Sessions, o \in Pupils, mark \in RegularMark \cup MakeupMark : Correct(q, o, mark)
    PROVE  record'[s] = record[s]
<1>1. session[s] = "COMPLETED"
  BY DEF MInv, LockedIsCompleted
<1>2. CASE UNCHANGED record
  BY <1>2
<1>3. ASSUME NEW q \in Sessions, SheetStep(q)
      PROVE  record'[s] = record[s]
  <2>1. CASE BeginInitialize(q) \/ Abandon(q)
    BY <1>2, <2>1 DEF BeginInitialize, Abandon
  <2>2. CASE CreateSession(q)
    BY <1>1, <2>2 DEF CreateSession, MInv, MakeupsTypeOK
  <2>3. ASSUME NEW o \in Pupils, NEW mark \in RegularMark \cup MakeupMark, UpdateRecord(q, o, mark)
        PROVE  record'[s] = record[s]
    BY <2>3 DEF UpdateRecord, Editable, MInv, MakeupsTypeOK
  <2>4. CASE Initialize(q) \/ Finalize(q)
    <3>1. session[q] = "SCHEDULED" /\ record' = [record EXCEPT ![q] = Initialized(q)]
      BY <2>4 DEF Initialize, Finalize, Initializable, MInv, FoundIsScheduled
    <3> QED  BY <1>1, <3>1 DEF MInv, MakeupsTypeOK
  <2> QED  BY <1>3, <2>1, <2>2, <2>3, <2>4 DEF SheetStep
<1>5. ASSUME NEW b \in Bookings, BookingStep(b)
      PROVE  record'[s] = record[s]
  <2>1. ASSUME NEW a \in Absences, NEW q \in Sessions, BookMakeup(b, a, q)
        PROVE  record'[s] = record[s]
    BY <2>1 DEF BookMakeup, Destination, Initializable, MInv, MakeupsTypeOK
  <2>2. ASSUME NEW q \in Sessions, RebookMakeup(b, q)
        PROVE  record'[s] = record[s]
    BY <2>2 DEF RebookMakeup, Destination, Initializable, MInv, MakeupsTypeOK
  <2>3. ASSUME CancelMakeup(b)
        PROVE  record'[s] = record[s]
    BY <2>3 DEF CancelMakeup, MInv, MakeupsTypeOK
  <2> QED  BY <1>5, <2>1, <2>2, <2>3 DEF BookingStep
<1>6. ASSUME NEW q \in Sessions, CancelSession(q) \/ \E r \in Sessions : RescheduleSession(q, r)
      PROVE  record'[s] = record[s]
  BY <1>1, <1>6 DEF CancelSession, RescheduleSession, Changeable, MInv, MakeupsTypeOK
<1> QED  BY <1>2, <1>3, <1>5, <1>6 DEF MakeupsNext, makeupVars, Lapse

\* Corrections mark.
LEMMA LockedStepKeeps ==
    ASSUME MInv, [MakeupsNext]_makeupVars, NEW s \in Sessions, sheet[s] = "LOCKED", NEW p \in Pupils
    PROVE  /\ (record[s][p] = NoRecord) = (record'[s][p] = NoRecord)
           /\ p \in Unmarked(s)' => p \in Unmarked(s)
<1> USE DEF Unmarked, Recorded
<1>2. CASE UNCHANGED record
  BY <1>2
<1>3. ASSUME NEW q \in Sessions, NEW o \in Pupils, NEW mark \in RegularMark \cup MakeupMark, Correct(q, o, mark)
      PROVE  /\ (record[s][p] = NoRecord) = (record'[s][p] = NoRecord)
             /\ p \in Unmarked(s)' => p \in Unmarked(s)
  <2>1. record[q][o] \in Record
    BY <1>3, OneRow DEF MInv, Correct
  <2>2. record'[s][p] = IF s = q /\ p = o THEN [record[q][o] EXCEPT !.status = mark] ELSE record[s][p]
    BY <1>3 DEF Correct, MInv, MakeupsTypeOK
  <2>3. MayMark(record[q][o], mark) /\ mark # "UNMARKED" /\ record[q][o] # NoRecord
    BY <1>3 DEF Correct
  <2>4. CASE s = q /\ p = o
    <3>1. record'[s][p] \in Record /\ record'[s][p].status = mark
      BY <2>1, <2>2, <2>3, <2>4, Marking
    <3> QED  BY <2>3, <2>4, <3>1, MakeupsAssumption
  <2>5. CASE ~(s = q /\ p = o)
    BY <2>2, <2>5
  <2> QED  BY <2>4, <2>5
<1> QED  BY <1>2, <1>3, LockedOrCorrected

\* Rights are given when a sheet is finalised, and booked after that.
GivenLater ==
    /\ \A s \in Sessions, p \in Pupils : sheet[s] = "OPEN" => entitlement[<<s, p>>] = "NONE"
    /\ \A b \in Bookings : booking[b] # NoBooking => sheet[booking[b].absence[1]] = "LOCKED"
    /\ \A s \in Sessions : session[s] = "COMPLETED" => sheet[s] = "LOCKED"

\* What a step other than a correction does to sheets, rights and bookings.
RightsGo ==
    /\ \A s \in Sessions : sheet[s] = "LOCKED" => sheet'[s] = "LOCKED"
    /\ \A s \in Sessions : sheet[s] = "OPEN" /\ sheet'[s] = "LOCKED" => Finalize(s)
    /\ \A a \in Absences : sheet'[a[1]] = "OPEN" => entitlement'[a] = "NONE"
    /\ \A a \in Absences : entitlement[a] \notin {"NONE", "REVOKED"} => entitlement'[a] \notin {"NONE", "REVOKED"}
    /\ \A b \in Bookings : booking'[b] # NoBooking => sheet'[booking'[b].absence[1]] = "LOCKED"
    /\ \A s \in Sessions : session'[s] = "COMPLETED" => sheet'[s] = "LOCKED"

LEMMA RightsGoOn ==
    ASSUME MInv, GivenLater, MakeupsNext,
           ~\E s \in Sessions, p \in Pupils, mark \in RegularMark \cup MakeupMark : Correct(s, p, mark)
    PROVE  RightsGo
<1>1. /\ \A a \in Absences : a[1] \in Sessions
      /\ \A a \in Absences : sheet[a[1]] = "OPEN" => entitlement[a] = "NONE"
      /\ \A a \in Absences : Freed(a) \in {"EXPIRED", "AVAILABLE"}
      /\ \A b \in Bookings : booking[b] # NoBooking => booking[b].absence \in Absences
  <2>1. \A a \in Absences : a = <<a[1], a[2]>> /\ a[1] \in Sessions /\ a[2] \in Pupils
    BY DEF Absences
  <2>2. \A a \in Absences : sheet[a[1]] = "OPEN" => entitlement[<<a[1], a[2]>>] = "NONE"
    BY <2>1 DEF GivenLater
  <2>3. \A b \in Bookings : booking[b] # NoBooking => booking[b].absence \in Absences
    BY OneBooking DEF MInv
  <2> QED  BY <2>1, <2>2, <2>3 DEF Freed
<1>2. /\ \A b \in Bookings : booking[b] # NoBooking => sheet[booking[b].absence[1]] = "LOCKED"
      /\ \A s \in Sessions : session[s] = "COMPLETED" => sheet[s] = "LOCKED"
  BY DEF GivenLater
<1>3. ASSUME UNCHANGED <<sheet, entitlement>>,
             \A s \in Sessions : session'[s] = "COMPLETED" => session[s] = "COMPLETED",
             \A b \in Bookings : booking'[b] # NoBooking => booking[b] # NoBooking /\ booking'[b].absence = booking[b].absence
      PROVE  RightsGo
  BY <1>1, <1>2, <1>3 DEF MInv, MakeupsTypeOK, RightsGo
<1>4. ASSUME NEW s \in Sessions, Finalize(s)  PROVE RightsGo
  <2>1. /\ sheet' = [sheet EXCEPT ![s] = "LOCKED"] /\ sheet \in [Sessions -> {"OPEN", "LOCKED"}] /\ sheet[s] = "OPEN"
        /\ \A b \in Bookings : booking'[b] # NoBooking => booking[b] # NoBooking /\ booking'[b].absence = booking[b].absence
    <3>1. \A b \in Bookings : Booked(b) \/ booking'[b] = booking[b]
      BY <1>4, Finalized
    <3>2. \A b \in Bookings : Booked(b) => booking'[b].absence = booking[b].absence
      BY <1>4, Finalized
    <3> QED  BY <1>4, <3>1, <3>2, Finalized DEF Finalize, MInv, MakeupsTypeOK, Booked
  <2>2. \A a \in Absences : entitlement'[a] =
          IF \E b \in Attended(s) : booking[b].absence = a THEN "USED"
          ELSE IF entitlement[a] = "BOOKED" /\ \E b \in Missed(s) : booking[b].absence = a THEN Freed(a)
          ELSE IF a \in Eligible(s) /\ entitlement[a] = "NONE" THEN "AVAILABLE"
          ELSE entitlement[a]
    BY <1>4 DEF Finalize
  <2>3. ASSUME NEW a \in Absences, entitlement'[a] # entitlement[a]
        PROVE  /\ sheet[a[1]] = "LOCKED" \/ a[1] = s
               /\ entitlement'[a] \notin {"NONE", "REVOKED"}
    <3>1. CASE \E b \in Attended(s) : booking[b].absence = a
      BY <2>2, <3>1, <1>2 DEF Attended, BookedAt, Booked
    <3>2. CASE (~\E b \in Attended(s) : booking[b].absence = a) /\ entitlement[a] = "BOOKED" /\ \E b \in Missed(s) : booking[b].absence = a
      BY <2>2, <3>2, <1>1, <1>2 DEF Missed, BookedAt, Booked
    <3>3. CASE a \in Eligible(s) /\ entitlement'[a] = "AVAILABLE"
      BY <3>3 DEF Eligible
    <3> QED  BY <2>2, <2>3, <3>1, <3>2, <3>3
  <2>4. \A q \in Sessions : sheet'[q] = IF q = s THEN "LOCKED" ELSE sheet[q]
    BY <2>1
  <2>5. \A a \in Absences : sheet[a[1]] \in {"OPEN", "LOCKED"}
    BY <1>1, <2>1
  <2>6. \A a \in Absences : sheet'[a[1]] = "OPEN" => entitlement'[a] = "NONE"
    BY <1>1, <2>3, <2>4, <2>5
  <2>7. \A q \in Sessions : /\ sheet[q] = "LOCKED" => sheet'[q] = "LOCKED"
                            /\ sheet[q] = "OPEN" /\ sheet'[q] = "LOCKED" => Finalize(q)
    BY <1>4, <2>4
  <2>8. \A b \in Bookings : booking'[b] # NoBooking => sheet'[booking'[b].absence[1]] = "LOCKED"
    BY <1>1, <1>2, <2>1, <2>4
  <2>9. \A q \in Sessions : session'[q] = "COMPLETED" => sheet'[q] = "LOCKED"
    BY <1>2, <1>4, <2>4 DEF Finalize, MInv, MakeupsTypeOK
  <2> QED  BY <2>3, <2>6, <2>7, <2>8, <2>9 DEF RightsGo
<1>5. ASSUME NEW b \in Bookings, NEW a \in Absences, NEW s \in Sessions, BookMakeup(b, a, s)  PROVE RightsGo
  <2>1. sheet[a[1]] = "LOCKED" /\ UNCHANGED <<sheet, session>>
    BY <1>5, <1>1, <1>2 DEF BookMakeup
  <2>2. \A c \in Bookings : c # b => booking'[c] = booking[c]
    BY <1>5 DEF BookMakeup, MInv, MakeupsTypeOK
  <2>3. booking'[b].absence = a
    BY <1>5 DEF BookMakeup, MInv, MakeupsTypeOK
  <2>4. \A x \in Absences : x # a => entitlement'[x] = entitlement[x]
    BY <1>5 DEF BookMakeup, MInv, MakeupsTypeOK
  <2>5. entitlement'[a] = "BOOKED"
    BY <1>5 DEF BookMakeup, MInv, MakeupsTypeOK
  <2> QED  BY <1>1, <1>2, <2>1, <2>2, <2>3, <2>4, <2>5 DEF RightsGo
<1>6. ASSUME NEW b \in Bookings, NEW s \in Sessions, RebookMakeup(b, s)  PROVE RightsGo
  <2>1. \A c \in Bookings : booking'[c] # NoBooking => booking[c] # NoBooking /\ booking'[c].absence = booking[c].absence
    BY <1>6, OneBooking DEF RebookMakeup, MInv, MakeupsTypeOK, Booked, Booking
  <2> QED  BY <1>3, <1>6, <2>1 DEF RebookMakeup
<1>7. ASSUME NEW b \in Bookings, CancelMakeup(b)  PROVE RightsGo
  <2>1. \A c \in Bookings : booking'[c] # NoBooking => booking[c] # NoBooking /\ booking'[c].absence = booking[c].absence
    BY <1>7, OneBooking DEF CancelMakeup, MInv, MakeupsTypeOK, Booked, Booking
  <2>2. UNCHANGED <<sheet, session>> /\ booking[b] # NoBooking
    BY <1>7 DEF CancelMakeup, Booked
  <2>3. \A x \in Absences : x # booking[b].absence => entitlement'[x] = entitlement[x]
    BY <1>7 DEF CancelMakeup, MInv, MakeupsTypeOK
  <2>4. entitlement'[booking[b].absence] \in {"EXPIRED", "AVAILABLE"}
    BY <1>1, <1>7, <2>2 DEF CancelMakeup, MInv, MakeupsTypeOK
  <2>5. \A x \in Absences : sheet[x[1]] = "OPEN" => x # booking[b].absence
    BY <1>2, <2>2
  <2> QED  BY <1>1, <1>2, <2>1, <2>2, <2>3, <2>4, <2>5 DEF RightsGo
<1>8. ASSUME NEW s \in Sessions, CancelSession(s)  PROVE RightsGo
  <2>1. \A c \in Bookings : booking'[c] # NoBooking => booking[c] # NoBooking /\ booking'[c].absence = booking[c].absence
    BY <1>8, OneBooking DEF CancelSession, MInv, MakeupsTypeOK, Booked, Booking
  <2>2. UNCHANGED sheet /\ \A q \in Sessions : session'[q] = "COMPLETED" => session[q] = "COMPLETED"
    BY <1>8 DEF CancelSession, MInv, MakeupsTypeOK
  <2>3. \A a \in Absences : entitlement'[a] = entitlement[a] \/ (entitlement[a] = "BOOKED" /\ entitlement'[a] = Freed(a))
    BY <1>8 DEF CancelSession
  <2> QED  BY <1>1, <1>2, <2>1, <2>2, <2>3 DEF RightsGo
<1>9. ASSUME NEW s \in Sessions, NEW r \in Sessions, RescheduleSession(s, r)  PROVE RightsGo
  <2>1. \A c \in Bookings : booking'[c] # NoBooking => booking[c] # NoBooking /\ booking'[c].absence = booking[c].absence
    BY <1>9, OneBooking DEF RescheduleSession, MInv, MakeupsTypeOK, Booked, Booking
  <2> QED  BY <1>3, <1>9, <2>1 DEF RescheduleSession, MInv, MakeupsTypeOK
<1>10. ASSUME NEW s \in Sessions,
              \/ CreateSession(s) \/ BeginInitialize(s) \/ Initialize(s) \/ Abandon(s) \/ Lapse(s)
              \/ \E p \in Pupils, mark \in RegularMark \cup MakeupMark : UpdateRecord(s, p, mark)
       PROVE  RightsGo
  BY <1>3, <1>10 DEF CreateSession, BeginInitialize, Initialize, Abandon, Lapse, UpdateRecord, MInv, MakeupsTypeOK
<1> QED  BY <1>4, <1>5, <1>6, <1>7, <1>8, <1>9, <1>10 DEF MakeupsNext, SheetStep, BookingStep

LEMMA ExcusedStays ==
    ASSUME MInv, GivenLater, ExcusedEntitles, MakeupsNext
    PROVE  GivenLater' /\ ExcusedEntitles'
<1> DEFINE corrected == \E s \in Sessions, p \in Pupils, mark \in RegularMark \cup MakeupMark : Correct(s, p, mark)
<1>1. CASE corrected
  <2>1. PICK s \in Sessions, p \in Pupils, mark \in RegularMark \cup MakeupMark : Correct(s, p, mark)
    BY <1>1
  <2>2. /\ sheet[s] = "LOCKED" /\ UNCHANGED <<sheet, booking>> /\ MayMark(record[s][p], mark)
        /\ mark # record[s][p].status /\ record[s][p] # NoRecord /\ record[s][p] \in Record
        /\ <<s, p>> \in Absences /\ UNCHANGED session
    BY <2>1, OneRow DEF Correct, MInv, Absences
  <2>3. \A q \in Sessions, o \in Pupils :
          record'[q][o] = IF q = s /\ o = p THEN [record[s][p] EXCEPT !.status = mark] ELSE record[q][o]
    BY <2>1 DEF Correct, MInv, MakeupsTypeOK
  <2>4. \A q \in Sessions, o \in Pupils : <<q, o>> # <<s, p>> => entitlement'[<<q, o>>] = entitlement[<<q, o>>]
    BY <2>1 DEF Correct, MInv, MakeupsTypeOK, Absences
  <2>5. entitlement'[<<s, p>>] = Reconciled(s, p, mark)
    BY <2>1, <2>2 DEF Correct, MInv, MakeupsTypeOK
  <2>6. GivenLater'
    BY <2>2, <2>4 DEF GivenLater
  <2>7. mark = "ABSENT_EXCUSED" /\ p \notin Trial => entitlement'[<<s, p>>] \notin {"NONE", "REVOKED"}
    BY <2>2, <2>5 DEF Reconciled, Freed
  <2>8. ASSUME NEW q \in Sessions, NEW o \in AttendanceRows(q, "ABSENT_EXCUSED")' \ Trial
        PROVE  entitlement'[<<q, o>>] \notin {"NONE", "REVOKED"}
    <3>1. o \in Pupils /\ record'[q][o] # NoRecord /\ record'[q][o].status = "ABSENT_EXCUSED" /\ sheet[q] = "LOCKED"
      BY <2>2, <2>8 DEF AttendanceRows, Recorded
    <3>2. CASE q = s /\ o = p
      <4>1. mark = "ABSENT_EXCUSED"
        <5>1. record'[q][o] = [record[s][p] EXCEPT !.status = mark]
          BY <2>3, <3>1, <3>2
        <5>2. [record[s][p] EXCEPT !.status = mark].status = mark
          BY <2>2, Marking
        <5> QED  BY <3>1, <5>1, <5>2
      <4> QED  BY <2>7, <2>8, <3>2, <4>1
    <3>3. CASE ~(q = s /\ o = p)
      <4>1. record[q][o] = record'[q][o] /\ entitlement'[<<q, o>>] = entitlement[<<q, o>>]
        BY <2>3, <2>4, <3>1, <3>3
      <4>2. o \in AttendanceRows(q, "ABSENT_EXCUSED")
        BY <3>1, <4>1 DEF AttendanceRows, Recorded, Unmarked
      <4> QED  BY <2>8, <4>1, <4>2 DEF ExcusedEntitles
    <3> QED  BY <3>2, <3>3
  <2> QED  BY <2>6, <2>8 DEF ExcusedEntitles
<1>2. CASE ~corrected
  <2>1. RightsGo
    BY <1>2, RightsGoOn
  <2>2. GivenLater'
    BY <2>1 DEF RightsGo, GivenLater, Absences
  <2>3. ASSUME NEW q \in Sessions, NEW o \in AttendanceRows(q, "ABSENT_EXCUSED")' \ Trial
        PROVE  entitlement'[<<q, o>>] \notin {"NONE", "REVOKED"}
    <3>1. o \in Pupils /\ record'[q][o] # NoRecord /\ record'[q][o].status = "ABSENT_EXCUSED" /\ sheet'[q] = "LOCKED"
      BY <2>3 DEF AttendanceRows, Recorded
    <3>2. <<q, o>> \in Absences /\ sheet[q] \in {"OPEN", "LOCKED"}
      BY <3>1 DEF Absences, MInv, MakeupsTypeOK
    <3>3. CASE sheet[q] = "OPEN"
      <4>1. Finalize(q) /\ entitlement[<<q, o>>] = "NONE"
        BY <2>1, <3>1, <3>3 DEF GivenLater, RightsGo
      <4>2. record'[q][o] \in Record
        <5>1. record' = [record EXCEPT ![q] = Initialized(q)]
          BY <4>1 DEF Finalize
        <5>2. record' \in [Sessions -> [Pupils -> Record \cup {NoRecord}]]
          BY <5>1, WhenInitialized
        <5> QED  BY <3>1, <5>2
      <4>3. record'[q][o].booking = NoBooking
        BY <3>1, <4>2, OneRecord DEF MakeupMark
      <4>4. <<q, o>> \in Eligible(q)
        BY <2>3, <3>1, <4>3 DEF Eligible, Recorded
      <4> QED  BY <3>2, <4>1, <4>4 DEF Finalize
    <3>4. CASE sheet[q] = "LOCKED"
      <4>1. record'[q][o] = record[q][o]
        BY <1>2, <3>1, <3>4, LockedOrCorrected
      <4>2. o \in AttendanceRows(q, "ABSENT_EXCUSED")
        BY <3>1, <3>4, <4>1 DEF AttendanceRows, Recorded, Unmarked
      <4> QED  BY <2>1, <2>3, <3>2, <4>2 DEF ExcusedEntitles, RightsGo
    <3> QED  BY <3>2, <3>3, <3>4
  <2> QED  BY <2>2, <2>3 DEF ExcusedEntitles
<1> QED  BY <1>1, <1>2

\* What the report of excused absences rests on: an entitlement comes with the
\* sheet's lock, never before, and each absence counted as excused has one.
THEOREM ExcusedInvariance == MakeupsSpec => [](MInv /\ GivenLater /\ ExcusedEntitles)
<1>1. MakeupsInit => MInv /\ GivenLater /\ ExcusedEntitles
  <2>1. MakeupsInit => GivenLater
    BY DEF MakeupsInit, GivenLater, Absences
  <2>2. MakeupsInit => ExcusedEntitles
    BY DEF MakeupsInit, ExcusedEntitles, AttendanceRows
  <2> QED  BY <2>1, <2>2, MakeupsInitially
<1>2. MInv /\ GivenLater /\ ExcusedEntitles /\ [MakeupsNext]_makeupVars => (MInv /\ GivenLater /\ ExcusedEntitles)'
  <2>1. ASSUME MInv, GivenLater, ExcusedEntitles, UNCHANGED makeupVars  PROVE GivenLater' /\ ExcusedEntitles'
    BY <2>1 DEF makeupVars, GivenLater, ExcusedEntitles, AttendanceRows, Recorded, Unmarked
  <2> QED  BY <2>1, ExcusedStays, MakeupsStepKeeps
<1> QED  BY <1>1, <1>2, PTL DEF MakeupsSpec

\* Sheets, bookings and entitlements agree, makeups fit, what is reported as
\* excused entitles, and a finalised sheet stands, for any number of sessions, students and bookings.
THEOREM MakeupsStaySafe == MakeupsSpec => MakeupsSafe
<1>1. MInv => /\ MakeupsTypeOK /\ BookedAttends /\ BookedUnlessFreed /\ LockedIsMarked
              /\ MakeupsFit /\ MadeUpTwiceOnlyOnceCancelled
  BY AttendedOnce DEF MInv
<1>2. MInv /\ [MakeupsNext]_makeupVars =>
        [\A s \in Sessions : sheet[s] = "LOCKED" =>
            \A p \in Pupils :
                /\ (record[s][p] = NoRecord) = (record'[s][p] = NoRecord)
                /\ p \in Unmarked(s)' => p \in Unmarked(s)]_makeupVars
  BY LockedStepKeeps
<1> QED  BY <1>1, <1>2, ExcusedInvariance, PTL DEF MakeupsSpec, MakeupsSafe, LockedKeepsRecords

-----------------------------------------------------------------------------
(* Makeups implements MakeupRights *)

RightReads(a) ==
    /\ Right(a) = "spent" <=> \E b \in Bookings : Live(b) /\ booking[b].absence = a /\ booking[b].status = "USED"
    /\ Right(a) = "open" <=> ~\E b \in Bookings : Live(b) /\ booking[b].absence = a
    /\ Right(a) \in {"open", "taken", "spent"}

LEMMA RightIs == MInv => \A a \in Absences : RightReads(a)
<1> SUFFICES ASSUME MInv, NEW a \in Absences  PROVE RightReads(a)
  OBVIOUS
<1> DEFINE live == {b \in Bookings : booking[b] # NoBooking /\ booking[b].absence = a
                                       /\ booking[b].status \in {"BOOKED", "USED"}}
<1>1. \A b \in Bookings : b \in live <=> Live(b) /\ booking[b].absence = a
  BY DEF Live
<1>2. \A b, c \in live : b = c
  BY DEF MInv, LiveOnce, Live
<1>3. Right(a) = IF live = {} THEN "open"
                 ELSE IF Cardinality(live) > 1 THEN "taken twice"
                 ELSE IF \E b \in live : booking[b].status = "USED" THEN "spent" ELSE "taken"
  BY DEF Right
<1>4. \A b \in live : b \in Bookings
  OBVIOUS
<1> HIDE DEF live
<1>5. live = {} \/ \E b \in live : live = {b}
  BY <1>2
<1>6. Cardinality(live) = 0 \/ Cardinality(live) = 1
  BY <1>5, FS_EmptySet, FS_Singleton
<1>7. ~(Cardinality(live) > 1)
  BY <1>6
<1> QED  BY <1>1, <1>3, <1>4, <1>7 DEF RightReads

LEMMA RightWillBe == MInv' => (\A a \in Absences : RightReads(a))'
BY RightIs, PTL

\* No step but a booking brings a booking to life; one that is used stays used.
LEMMA OthersAge ==
    ASSUME MInv, NEW b \in Bookings,
           \/ UNCHANGED booking
           \/ \E s \in Sessions : Finalize(s) \/ CancelSession(s) \/ \E r \in Sessions : RescheduleSession(s, r)
           \/ \E c \in Bookings : CancelMakeup(c) \/ \E s \in Sessions : RebookMakeup(c, s)
    PROVE  /\ Live(b)' => Live(b) /\ booking'[b].absence = booking[b].absence
           /\ (booking[b] # NoBooking /\ booking[b].status = "USED") => booking'[b] = booking[b]
<1>1. CASE UNCHANGED booking
  BY <1>1 DEF Live
<1>2. ASSUME NEW s \in Sessions, Finalize(s)
      PROVE  /\ Live(b)' => Live(b) /\ booking'[b].absence = booking[b].absence
             /\ (booking[b] # NoBooking /\ booking[b].status = "USED") => booking'[b] = booking[b]
  <2>1. CASE Booked(b) /\ booking[b].to = s
    <3>1. booking'[b].absence = booking[b].absence
      BY <1>2, <2>1, Finalized
    <3> QED  BY <2>1, <3>1 DEF Booked, Live
  <2>2. CASE ~(Booked(b) /\ booking[b].to = s)
    <3>1. booking'[b] = booking[b]
      BY <1>2, <2>2, Finalized
    <3> QED  BY <3>1 DEF Live
  <2> QED  BY <2>1, <2>2
<1>3. ASSUME NEW s \in Sessions, NEW r \in Sessions, CancelSession(s) \/ RescheduleSession(s, r)
      PROVE  /\ Live(b)' => Live(b) /\ booking'[b].absence = booking[b].absence
             /\ (booking[b] # NoBooking /\ booking[b].status = "USED") => booking'[b] = booking[b]
  <2>1. CASE Booked(b) /\ booking[b].to = s
    <3>1. booking[b] = [absence |-> booking[b].absence, to |-> booking[b].to, status |-> booking[b].status]
      BY <2>1, OneBooking DEF MInv, Booked
    <3>2. \/ booking'[b] = [booking[b] EXCEPT !.status = "CANCELLED"]
          \/ booking'[b] = [booking[b] EXCEPT !.to = r]
      BY <1>3, <2>1 DEF CancelSession, RescheduleSession
    <3>3. booking'[b].absence = booking[b].absence
      BY <3>1, <3>2
    <3> QED  BY <2>1, <3>3 DEF Booked, Live
  <2>2. CASE ~(Booked(b) /\ booking[b].to = s)
    BY <1>3, <2>2 DEF CancelSession, RescheduleSession, Live
  <2> QED  BY <2>1, <2>2
<1>4. ASSUME NEW c \in Bookings, NEW t,
             \/ booking' = [booking EXCEPT ![c].status = "CANCELLED"]
             \/ booking' = [booking EXCEPT ![c].to = t],
             Booked(c)
      PROVE  /\ Live(b)' => Live(b) /\ booking'[b].absence = booking[b].absence
             /\ (booking[b] # NoBooking /\ booking[b].status = "USED") => booking'[b] = booking[b]
  <2>1. CASE b = c
    <3>1. Booked(b) /\ booking[b] = [absence |-> booking[b].absence, to |-> booking[b].to, status |-> "BOOKED"]
      BY <1>4, <2>1, OneBooking DEF MInv, Booked
    <3>2. \/ booking'[b] = [booking[b] EXCEPT !.status = "CANCELLED"]
          \/ booking'[b] = [booking[b] EXCEPT !.to = t]
      BY <1>4, <2>1 DEF MInv, MakeupsTypeOK
    <3>3. booking'[b].absence = booking[b].absence
      BY <3>1, <3>2
    <3> QED  BY <3>1, <3>3 DEF Booked, Live
  <2>2. CASE b # c
    <3>1. booking'[b] = booking[b]
      BY <1>4, <2>2 DEF MInv, MakeupsTypeOK
    <3> QED  BY <3>1 DEF Live
  <2> QED  BY <2>1, <2>2
<1>5. ASSUME NEW c \in Bookings, CancelMakeup(c) \/ \E s \in Sessions : RebookMakeup(c, s)
      PROVE  /\ Live(b)' => Live(b) /\ booking'[b].absence = booking[b].absence
             /\ (booking[b] # NoBooking /\ booking[b].status = "USED") => booking'[b] = booking[b]
  <2>1. CASE CancelMakeup(c)
    BY <1>4, <2>1 DEF CancelMakeup
  <2>2. ASSUME NEW s \in Sessions, RebookMakeup(c, s)
        PROVE  /\ Live(b)' => Live(b) /\ booking'[b].absence = booking[b].absence
               /\ (booking[b] # NoBooking /\ booking[b].status = "USED") => booking'[b] = booking[b]
    BY <1>4, <2>2 DEF RebookMakeup
  <2> QED  BY <1>5, <2>1, <2>2
<1>6. ASSUME NEW s \in Sessions, CancelSession(s) \/ \E r \in Sessions : RescheduleSession(s, r)
      PROVE  /\ Live(b)' => Live(b) /\ booking'[b].absence = booking[b].absence
             /\ (booking[b] # NoBooking /\ booking[b].status = "USED") => booking'[b] = booking[b]
  BY <1>3, <1>6
<1> QED  BY <1>1, <1>2, <1>5, <1>6

LEMMA OthersSettle ==
    ASSUME MInv, MInv',
           \/ UNCHANGED booking
           \/ \E s \in Sessions : Finalize(s) \/ CancelSession(s) \/ \E r \in Sessions : RescheduleSession(s, r)
           \/ \E c \in Bookings : CancelMakeup(c) \/ \E s \in Sessions : RebookMakeup(c, s)
    PROVE  Rights!Settle
<1>1. \A b \in Bookings :
        /\ Live(b)' => Live(b) /\ booking'[b].absence = booking[b].absence
        /\ (booking[b] # NoBooking /\ booking[b].status = "USED") => booking'[b] = booking[b]
  BY OthersAge
<1>2. ASSUME NEW a \in Absences, Right(a) # "taken"
      PROVE  Right(a)' = Right(a)
  <2>1. CASE Right(a) = "open"
    <3>1. ~\E b \in Bookings : Live(b)' /\ booking'[b].absence = a
      BY <1>1, <2>1, RightIs DEF RightReads
    <3>2. Right(a)' = "open"
      BY <3>1, RightWillBe DEF RightReads
    <3> QED  BY <2>1, <3>2
  <2>2. CASE Right(a) = "spent"
    <3>1. PICK b \in Bookings : Live(b) /\ booking[b].absence = a /\ booking[b].status = "USED"
      BY <2>2, RightIs DEF RightReads
    <3>2. booking'[b] = booking[b] /\ Live(b)'
      BY <1>1, <3>1 DEF Live
    <3>3. Right(a)' = "spent"
      BY <3>1, <3>2, RightWillBe DEF RightReads
    <3> QED  BY <2>2, <3>3
  <2> QED  BY <1>2, <2>1, <2>2, RightIs DEF RightReads
<1>3. \A a \in Absences : Right(a)' \in {"open", "taken", "spent"}
  BY RightWillBe DEF RightReads
<1> QED  BY <1>2, <1>3 DEF Rights!Settle

LEMMA BookingTakes ==
    ASSUME MInv, MInv', NEW b \in Bookings, NEW a \in Absences, NEW s \in Sessions, BookMakeup(b, a, s)
    PROVE  Rights!Take(a)
<1>1. /\ booking'[b] = [absence |-> a, to |-> s, status |-> "BOOKED"] /\ booking[b] = NoBooking
      /\ \A c \in Bookings : c # b => booking'[c] = booking[c]
  BY DEF BookMakeup, MInv, MakeupsTypeOK
<1>2. booking'[b] # NoBooking
  BY <1>1, MakeupsAssumption DEF Booking
<1>3. \A c \in Bookings : Live(c) => booking[c].absence # a
  <2> SUFFICES ASSUME NEW c \in Bookings, Live(c), booking[c].absence = a  PROVE FALSE
    OBVIOUS
  <2>1. booking[c].status = "USED"
    BY DEF Live, ActivelyBooked, Booked, BookMakeup
  <2> QED  BY <2>1 DEF MInv, UsedIsSpent, Live, Bookable, BookMakeup
<1>4. Right(a) = "open"
  BY <1>3, RightIs DEF RightReads
<1>5. Right(a)' = "taken"
  <2>1. Live(b)' /\ booking'[b].absence = a
    BY <1>1, <1>2 DEF Live
  <2>2. ~\E c \in Bookings : Live(c)' /\ booking'[c].absence = a /\ booking'[c].status = "USED"
    BY <1>1, <1>3 DEF Live
  <2>3. Right(a)' # "open" /\ Right(a)' # "spent"
    BY <2>1, <2>2, RightWillBe DEF RightReads
  <2> QED  BY <2>3, RightWillBe DEF RightReads
<1>6. ASSUME NEW x \in Absences, x # a
      PROVE  Right(x)' = Right(x)
  <2>1. \A c \in Bookings : Live(c)' /\ booking'[c].absence = x <=> Live(c) /\ booking[c].absence = x
    BY <1>1, <1>6 DEF Live
  <2>2. \A c \in Bookings : Live(c) /\ booking[c].absence = x => booking'[c] = booking[c]
    BY <1>1 DEF Live
  <2>3. Right(x)' = "spent" <=> Right(x) = "spent"
    BY <2>1, <2>2, RightIs, RightWillBe DEF RightReads
  <2>4. Right(x)' = "open" <=> Right(x) = "open"
    BY <2>1, RightIs, RightWillBe DEF RightReads
  <2>5. Right(x) \in {"open", "taken", "spent"} /\ Right(x)' \in {"open", "taken", "spent"}
    BY RightIs, RightWillBe DEF RightReads
  <2> QED  BY <2>3, <2>4, <2>5
<1> QED  BY <1>4, <1>5, <1>6 DEF Rights!Take

\* One absence is made up once: whatever happens to sessions, sheets and bookings
\* is a step of MakeupRights on what each absence still entitles to.
THEOREM AbsencesMadeUpOnce == MakeupsSpec => MadeUpOnce
<1>1. MakeupsInit => Rights!RightsInit
  <2> SUFFICES ASSUME MakeupsInit, NEW a \in Absences  PROVE Right(a) = "open"
    BY DEF Rights!RightsInit
  <2>1. ~\E b \in Bookings : Live(b) /\ booking[b].absence = a
    BY DEF MakeupsInit, Live
  <2> QED  BY <2>1, MakeupsInitially, RightIs DEF RightReads
<1>2. MInv /\ MInv' /\ [MakeupsNext]_makeupVars => [Rights!RightsNext]_([a \in Absences |-> Right(a)])
  <2> SUFFICES ASSUME MInv, MInv', [MakeupsNext]_makeupVars  PROVE Rights!RightsNext
    OBVIOUS
  <2>1. ASSUME NEW b \in Bookings, NEW a \in Absences, NEW s \in Sessions, BookMakeup(b, a, s)
        PROVE  Rights!RightsNext
    BY <2>1, BookingTakes DEF Rights!RightsNext
  <2>2. ASSUME \/ UNCHANGED booking
               \/ \E s \in Sessions : Finalize(s) \/ CancelSession(s) \/ \E r \in Sessions : RescheduleSession(s, r)
               \/ \E c \in Bookings : CancelMakeup(c) \/ \E s \in Sessions : RebookMakeup(c, s)
        PROVE  Rights!RightsNext
    BY <2>2, OthersSettle DEF Rights!RightsNext
  <2>3. CASE UNCHANGED makeupVars
    BY <2>2, <2>3 DEF makeupVars
  <2>4. ASSUME NEW s \in Sessions, SheetStep(s) \/ Lapse(s)  PROVE Rights!RightsNext
    <3>1. UNCHANGED booking \/ Finalize(s)
      BY <2>4 DEF SheetStep, Lapse, CreateSession, BeginInitialize, Initialize, Abandon, UpdateRecord, Correct
    <3> QED  BY <2>2, <3>1
  <2>5. ASSUME NEW b \in Bookings, BookingStep(b)  PROVE Rights!RightsNext
    BY <2>1, <2>2, <2>5 DEF BookingStep
  <2> QED  BY <2>2, <2>3, <2>4, <2>5 DEF MakeupsNext
<1> QED  BY <1>1, <1>2, MakeupsInvariance, PTL DEF MakeupsSpec, MadeUpOnce, Rights!RightsSpec

-----------------------------------------------------------------------------
(* The inductive invariant of Calendar, in parts. *)

\* A session as generated was not moved in.
GeneratedUnmoved == \A e \in Kept : ~entry[e].manual => entry[e].moved = None

\* Two active patterns of a class do not overlap.
PatternsApart ==
    \A p, q \in Patterns :
        /\ p # q
        /\ pattern[p] # None /\ pattern[p].active
        /\ pattern[q] # None /\ pattern[q].active
        /\ pattern[p].class = pattern[q].class /\ pattern[p].day = pattern[q].day
        => <<pattern[p].slot, pattern[q].slot>> \notin Overlapping

ReplacementsOf(e) == {r \in Kept : entry[r].moved = e}

OneReplacement ==
    \A e \in Entries :
        IF e \in Kept /\ entry[e].status = "RESCHEDULED"
        THEN \E r \in Kept : ReplacementsOf(e) = {r}
        ELSE ReplacementsOf(e) = {}

CalInv ==
    /\ CalendarTypeOK
    /\ GeneratedUnmoved
    /\ PatternsApart
    /\ NoDoubleBookingUnlessMoved
    /\ GeneratedOnce
    /\ OneReplacement

-----------------------------------------------------------------------------
(* Rows *)

LEMMA OneSession ==
    ASSUME NEW s \in Session
    PROVE  /\ s # None
           /\ s.date \in Dates /\ s.slot \in Slots /\ s.manual \in BOOLEAN
           /\ s.pattern \in Patterns \cup {None} /\ s.moved \in Entries \cup {None}
BY CalendarAssumption DEF Session

LEMMA KeptSessions ==
    ASSUME CalendarTypeOK
    PROVE  /\ Kept \subseteq Entries
           /\ \A e \in Kept : entry[e] \in Session
           /\ \A e \in Entries \ Kept : entry[e] = None
BY DEF CalendarTypeOK, Kept

LEMMA ClashMutual ==
    ASSUME NEW x \in Session, NEW y \in Session, Clash(x, y)
    PROVE  Clash(y, x)
<1>1. x.slot \in Slots /\ y.slot \in Slots
  BY OneSession
<1> QED  BY <1>1, CalendarAssumption DEF Clash, Compete

\* A conflict leaves nobody else in the way.
LEMMA Unopposed ==
    ASSUME CalendarTypeOK, NEW x \in Session, NEW others \in SUBSET Kept, ~Conflicts(x, others),
           NEW u \in others, entry[u].status \in Operational
    PROVE  ~Clash(x, entry[u]) /\ ~Clash(entry[u], x)
<1>1. ~Clash(x, entry[u])
  BY DEF Conflicts
<1>2. entry[u] \in Session
  BY KeptSessions
<1> QED  BY <1>1, <1>2, ClashMutual

-----------------------------------------------------------------------------
(* One session is put: entered, edited, cancelled or completed. *)

\* What such a command may write over row e.
Fits(e, new) ==
    /\ new.status # "RESCHEDULED"
    /\ e \in Kept => /\ entry[e].status = "SCHEDULED"
                     /\ new.moved = entry[e].moved /\ new.pattern = entry[e].pattern
                     /\ new.origin = entry[e].origin \/ new.origin # None
    /\ e \notin Kept => new.moved = None
    /\ \/ new.manual /\ ~Conflicts(new, Kept \ {e})
       \/ e \in Kept /\ \E status \in {"CANCELLED", "COMPLETED"} : new = [entry[e] EXCEPT !.status = status]

LEMMA Putting ==
    ASSUME CalInv, NEW e \in Entries, NEW new \in Session, Fits(e, new),
           entry' = [entry EXCEPT ![e] = new], UNCHANGED <<pattern, excluded, running>>
    PROVE  CalInv'
<1>1. CalendarTypeOK
  BY DEF CalInv
<1>2. /\ entry'[e] = new /\ \A u \in Entries : u # e => entry'[u] = entry[u]
      /\ Kept' = Kept \cup {e}
  <2>1. entry'[e] = new /\ \A u \in Entries : u # e => entry'[u] = entry[u]
    BY <1>1 DEF CalendarTypeOK
  <2> QED  BY <2>1, OneSession DEF Kept
<1>3. \A u \in Kept : entry'[u] \in Session /\ entry'[u].moved = entry[u].moved /\ entry'[u].pattern = entry[u].pattern
  BY <1>1, <1>2, KeptSessions DEF Fits
<1>4. \A u \in Kept' : entry'[u].moved # None => u \in Kept
  BY <1>2 DEF Fits
<1>5. \A u \in Kept' : ~entry'[u].manual =>
        /\ u \in Kept /\ ~entry[u].manual
        /\ entry'[u].date = entry[u].date /\ entry'[u].slot = entry[u].slot
  <2> SUFFICES ASSUME e \in Kept, ~new.manual
               PROVE  ~entry[e].manual /\ new.date = entry[e].date /\ new.slot = entry[e].slot
    BY <1>2 DEF Fits
  <2>1. PICK status \in {"CANCELLED", "COMPLETED"} : new = [entry[e] EXCEPT !.status = status]
    BY DEF Fits
  <2>2. entry[e] \in Session
    BY <1>1, KeptSessions
  <2> QED  BY <2>1, <2>2 DEF Session
<1>6. CalendarTypeOK'
  <2>1. entry' \in [Entries -> Session \cup {None}]
    BY <1>1 DEF CalendarTypeOK
  <2>2. ASSUME NEW u \in Kept', entry'[u].moved # None
        PROVE  entry'[u].origin # None /\ entry'[u].moved \in Kept' \ {u}
    <3>1. u \in Kept /\ entry[u].moved # None /\ entry[u].origin # None /\ entry[u].moved \in Kept \ {u}
      BY <1>1, <1>3, <1>4, <2>2 DEF CalendarTypeOK
    <3>2. entry'[u].origin # None
      <4>1. CASE u # e
        BY <1>1, <1>2, <3>1, <4>1, KeptSessions
      <4>2. CASE u = e
        BY <1>2, <3>1, <4>2 DEF Fits
      <4> QED  BY <4>1, <4>2
    <3> QED  BY <1>2, <1>3, <3>1, <3>2
  <2> QED  BY <1>1, <2>1, <2>2 DEF CalendarTypeOK, Kept
<1>7. GeneratedUnmoved' /\ GeneratedOnce'
  <2>1. GeneratedUnmoved'
    BY <1>3, <1>5 DEF CalInv, GeneratedUnmoved
  <2>2. GeneratedOnce'
    BY <1>3, <1>5 DEF CalInv, GeneratedOnce
  <2> QED  BY <2>1, <2>2
<1>8. PatternsApart'
  BY DEF CalInv, PatternsApart
<1>9. NoDoubleBookingUnlessMoved'
  <2> SUFFICES ASSUME NEW u \in Kept', NEW v \in Kept', u # v, Clash(entry'[u], entry'[v]),
                      entry'[u].status \in Operational, entry'[v].status \in Operational
               PROVE  \E x \in {u, v} : ~entry'[x].manual
                          /\ \E r \in Kept' : entry'[r].moved # None /\ entry'[r].pattern = entry'[x].pattern
    BY DEF NoDoubleBookingUnlessMoved, Clash, Compete
  <2> DEFINE Before == /\ u \in Kept /\ v \in Kept /\ Clash(entry[u], entry[v])
                       /\ entry[u].status \in Operational /\ entry[v].status \in Operational
                       /\ entry'[u].manual = entry[u].manual /\ entry'[v].manual = entry[v].manual
  <2>1. Before
    <3>1. CASE u # e /\ v # e
      BY <1>1, <1>2, <3>1, KeptSessions
    <3>2. CASE new.manual /\ ~Conflicts(new, Kept \ {e})
      <4>1. \A w \in Kept : w # e /\ entry[w].status \in Operational => ~Clash(new, entry[w]) /\ ~Clash(entry[w], new)
        BY <1>1, <3>2, Unopposed
      <4> QED  BY <1>1, <1>2, <3>1, <4>1, KeptSessions
    <3>3. ASSUME e \in Kept, NEW status \in {"CANCELLED", "COMPLETED"}, new = [entry[e] EXCEPT !.status = status]
          PROVE  Before
      <4>1. entry[e] \in Session /\ entry[e].status = "SCHEDULED"
        BY <1>1, <3>3, KeptSessions DEF Fits
      <4>2. /\ new.class = entry[e].class /\ new.teacher = entry[e].teacher /\ new.room = entry[e].room
            /\ new.date = entry[e].date /\ new.slot = entry[e].slot /\ new.manual = entry[e].manual
        BY <3>3, <4>1 DEF Session
      <4>3. \A w \in Entries : /\ Clash(new, entry[w]) <=> Clash(entry[e], entry[w])
                               /\ Clash(entry[w], new) <=> Clash(entry[w], entry[e])
        BY <4>2 DEF Clash, Compete
      <4>4. entry[e].status \in Operational
        BY <4>1 DEF Operational
      <4> QED  BY <1>1, <1>2, <3>3, <4>2, <4>3, <4>4, KeptSessions
    <3> QED  BY <3>1, <3>2, <3>3 DEF Fits
  <2>2. PICK x \in {u, v} : ~entry[x].manual
            /\ \E r \in Kept : entry[r].moved # None /\ entry[r].pattern = entry[x].pattern
    BY <2>1 DEF CalInv, NoDoubleBookingUnlessMoved
  <2>3. PICK r \in Kept : entry[r].moved # None /\ entry[r].pattern = entry[x].pattern
    BY <2>2
  <2> QED  BY <1>2, <1>3, <2>1, <2>2, <2>3
<1>10. OneReplacement'
  <2>1. \A x \in Entries : ReplacementsOf(x)' = ReplacementsOf(x)
    BY <1>2, <1>3, <1>4, CalendarAssumption DEF ReplacementsOf
  <2>2. \A x \in Entries : x \in Kept' /\ entry'[x].status = "RESCHEDULED" <=> x \in Kept /\ entry[x].status = "RESCHEDULED"
    BY <1>2 DEF Fits
  <2>3. Kept \subseteq Kept'
    BY <1>2
  <2> QED  BY <2>1, <2>2, <2>3 DEF CalInv, OneReplacement
<1> QED  BY <1>6, <1>7, <1>8, <1>9, <1>10 DEF CalInv

LEMMA EnteringKeeps ==
    ASSUME CalInv, NEW e \in Entries, NEW new \in Session, CreateEntry(e, new),
           new.manual, new.moved = None, new.status = "SCHEDULED"
    PROVE  CalInv'
<1>1. e \notin Kept /\ Kept \ {e} = Kept
  BY DEF CreateEntry, Kept
<1>2. Fits(e, new)
  BY <1>1 DEF CreateEntry, Fits
<1> QED  BY <1>2, Putting DEF CreateEntry

\* What a pattern would put on one of its dates.
LEMMA AnOccurrence ==
    ASSUME CalendarTypeOK, NEW p \in Patterns, pattern[p] # None, NEW d \in Dates
    PROVE  /\ pattern[p] \in Pattern
           /\ [Occurrence(p, d) EXCEPT !.manual = TRUE] \in Session /\ Occurrence(p, d) \in Session
           /\ [Occurrence(p, d) EXCEPT !.manual = TRUE].manual
           /\ [Occurrence(p, d) EXCEPT !.manual = TRUE].moved = None
           /\ [Occurrence(p, d) EXCEPT !.manual = TRUE].status = "SCHEDULED"
<1>1. pattern[p] \in Pattern
  BY DEF CalendarTypeOK
<1>2. /\ pattern[p].class \in DOMAIN BranchOf /\ pattern[p].teacher \in Teachers
      /\ pattern[p].room \in Rooms /\ pattern[p].slot \in Slots
  BY <1>1 DEF Pattern
<1> QED  BY <1>1, <1>2 DEF Occurrence, Session, Operational

LEMMA FromPatternKeeps ==
    ASSUME CalInv, NEW e \in Entries, NEW p \in Patterns, NEW d \in Dates, CreateFromPattern(e, p, d)
    PROVE  CalInv'
<1>1. CalendarTypeOK /\ pattern[p] # None
  BY DEF CalInv, CreateFromPattern
<1> QED  BY <1>1, AnOccurrence, EnteringKeeps DEF CreateFromPattern

LEMMA EditingKeeps ==
    ASSUME CalInv, NEW e \in Entries, NEW f \in Changes, UpdateSession(e, f)
    PROVE  CalInv'
<1> DEFINE new == [entry[e] EXCEPT !.teacher = f.teacher, !.room = f.room, !.date = f.date, !.slot = f.slot,
                                   !.manual = TRUE, !.origin = IF @ = None THEN entry[e].date ELSE @]
<1>1. e \in Kept /\ entry[e] \in Session /\ entry[e].status = "SCHEDULED"
  BY KeptSessions DEF CalInv, UpdateSession
<1>2. f.teacher \in Teachers /\ f.room \in Rooms /\ f.date \in Dates /\ f.slot \in Slots
  BY CalendarAssumption
<1>3. new \in Session
  BY <1>1, <1>2 DEF Session
<1>4. /\ new.manual /\ new.status = "SCHEDULED" /\ new.moved = entry[e].moved
      /\ new.pattern = entry[e].pattern /\ new.origin # None
  BY <1>1, CalendarAssumption DEF Session
<1>5. ~Conflicts(new, Kept \ {e}) /\ entry' = [entry EXCEPT ![e] = new] /\ UNCHANGED <<pattern, excluded, running>>
  BY DEF UpdateSession
<1> HIDE DEF new
<1>6. Fits(e, new)
  BY <1>1, <1>4, <1>5 DEF Fits
<1> QED  BY <1>3, <1>5, <1>6, Putting

LEMMA StatusKeeps ==
    ASSUME CalInv, NEW e \in Entries, NEW status \in {"CANCELLED", "COMPLETED"}, ChangeSessionStatus(e, status)
    PROVE  CalInv'
<1> DEFINE new == [entry[e] EXCEPT !.status = status]
<1>1. e \in Kept /\ entry[e] \in Session /\ entry[e].status = "SCHEDULED"
  BY KeptSessions DEF CalInv, ChangeSessionStatus
<1>2. new \in Session /\ new.status = status /\ new.moved = entry[e].moved /\ new.pattern = entry[e].pattern
      /\ new.origin = entry[e].origin
  BY <1>1 DEF Session, Operational
<1>3. entry' = [entry EXCEPT ![e] = new] /\ UNCHANGED <<pattern, excluded, running>>
  BY DEF ChangeSessionStatus
<1>4. Fits(e, new)
  BY <1>1, <1>2 DEF Fits
<1> HIDE DEF new
<1> QED  BY <1>2, <1>3, <1>4, Putting

-----------------------------------------------------------------------------
(* A session is moved. *)

LEMMA MovingKeeps ==
    ASSUME CalInv, NEW e \in Entries, NEW r \in Entries, NEW f \in Changes, Reschedule(e, r, f)
    PROVE  CalInv'
<1> DEFINE new == Replacement(e, f)
<1>1. /\ CalendarTypeOK /\ e \in Kept /\ entry[e] \in Session /\ entry[e].status = "SCHEDULED"
      /\ r \notin Kept /\ r # e
  BY KeptSessions DEF CalInv, Reschedule, Kept
<1>2. f.date \in Dates /\ f.slot \in Slots
  BY CalendarAssumption
<1>3. /\ new \in Session /\ new.manual /\ new.moved = e /\ new.origin # None /\ new.status = "SCHEDULED"
      /\ new.pattern = entry[e].pattern
  BY <1>1, <1>2, CalendarAssumption DEF Session, Replacement
<1>4. /\ Replaced(entry[e]) \in Session /\ Replaced(entry[e]).status = "RESCHEDULED"
      /\ Replaced(entry[e]).moved = entry[e].moved /\ Replaced(entry[e]).pattern = entry[e].pattern
      /\ Replaced(entry[e]).manual = entry[e].manual /\ Replaced(entry[e]).date = entry[e].date
      /\ Replaced(entry[e]).slot = entry[e].slot /\ Replaced(entry[e]).origin = entry[e].origin
  BY <1>1 DEF Session, Replaced
<1>5. /\ ~Conflicts(new, Kept \ {e})
      /\ entry' = [entry EXCEPT ![r] = new, ![e] = Replaced(@)] /\ UNCHANGED <<pattern, excluded, running>>
  BY DEF Reschedule
<1> HIDE DEF new
<1>6. /\ entry'[r] = new /\ entry'[e] = Replaced(entry[e])
      /\ \A u \in Entries : u \notin {e, r} => entry'[u] = entry[u]
  BY <1>1, <1>5 DEF CalendarTypeOK
<1>7. Kept' = Kept \cup {r}
  BY <1>1, <1>3, <1>4, <1>6, OneSession DEF Kept
<1>8. \A u \in Kept : /\ entry'[u].moved = entry[u].moved /\ entry'[u].pattern = entry[u].pattern
                      /\ entry'[u].manual = entry[u].manual /\ entry'[u].date = entry[u].date
                      /\ entry'[u].slot = entry[u].slot /\ entry'[u].origin = entry[u].origin
  BY <1>1, <1>4, <1>6, KeptSessions
<1>9. CalendarTypeOK'
  <2>1. entry' \in [Entries -> Session \cup {None}]
    BY <1>1, <1>3, <1>4, <1>5 DEF CalendarTypeOK
  <2>2. ASSUME NEW u \in Kept', entry'[u].moved # None
        PROVE  entry'[u].origin # None /\ entry'[u].moved \in Kept' \ {u}
    BY <1>1, <1>3, <1>6, <1>7, <1>8, <2>2 DEF CalendarTypeOK
  <2> QED  BY <1>1, <1>5, <2>1, <2>2 DEF CalendarTypeOK, Kept
<1>10. GeneratedUnmoved' /\ GeneratedOnce'
  BY <1>3, <1>6, <1>7, <1>8 DEF CalInv, GeneratedUnmoved, GeneratedOnce
<1>11. PatternsApart'
  BY <1>5 DEF CalInv, PatternsApart
<1>12. NoDoubleBookingUnlessMoved'
  <2> SUFFICES ASSUME NEW u \in Kept', NEW v \in Kept', u # v, Clash(entry'[u], entry'[v]),
                      entry'[u].status \in Operational, entry'[v].status \in Operational
               PROVE  \E x \in {u, v} : ~entry'[x].manual
                          /\ \E w \in Kept' : entry'[w].moved # None /\ entry'[w].pattern = entry'[x].pattern
    BY DEF NoDoubleBookingUnlessMoved, Clash, Compete
  <2>1. u # e /\ v # e
    BY <1>4, <1>6 DEF Operational
  <2>2. \A w \in Kept : w # e /\ entry[w].status \in Operational => ~Clash(new, entry[w]) /\ ~Clash(entry[w], new)
    BY <1>1, <1>3, <1>5, Unopposed
  <2>3. u \in Kept /\ v \in Kept /\ entry'[u] = entry[u] /\ entry'[v] = entry[v]
    BY <1>1, <1>6, <1>7, <2>1, <2>2, KeptSessions
  <2>4. PICK x \in {u, v} : ~entry[x].manual
            /\ \E w \in Kept : entry[w].moved # None /\ entry[w].pattern = entry[x].pattern
    BY <2>3 DEF CalInv, NoDoubleBookingUnlessMoved
  <2>5. PICK w \in Kept : entry[w].moved # None /\ entry[w].pattern = entry[x].pattern
    BY <2>4
  <2> QED  BY <1>7, <1>8, <2>3, <2>4, <2>5
<1>13. OneReplacement'
  <2>1. ReplacementsOf(e) = {}
    BY <1>1 DEF CalInv, OneReplacement
  <2>2. ReplacementsOf(e)' = {r}
    BY <1>3, <1>6, <1>7, <1>8, <2>1 DEF ReplacementsOf
  <2>3. \A x \in Entries \ {e} : ReplacementsOf(x)' = ReplacementsOf(x)
    BY <1>3, <1>6, <1>7, <1>8 DEF ReplacementsOf
  <2>4. \A x \in Entries \ {e} :
            x \in Kept' /\ entry'[x].status = "RESCHEDULED" <=> x \in Kept /\ entry[x].status = "RESCHEDULED"
    BY <1>1, <1>3, <1>6, <1>7
  <2>5. e \in Kept' /\ entry'[e].status = "RESCHEDULED" /\ Kept \subseteq Kept' /\ r \in Kept'
    BY <1>1, <1>4, <1>6, <1>7
  <2> QED  BY <2>2, <2>3, <2>4, <2>5 DEF CalInv, OneReplacement
<1> QED  BY <1>9, <1>10, <1>11, <1>12, <1>13 DEF CalInv

-----------------------------------------------------------------------------
(* A class's sessions are generated. *)

LEMMA FallsDue ==
    ASSUME CalendarTypeOK, NEW c, NEW range, NEW o \in Missing(c, range)
    PROVE  /\ o[1] \in Patterns /\ pattern[o[1]] # None /\ pattern[o[1]] \in Pattern
           /\ pattern[o[1]].active /\ pattern[o[1]].class = c
           /\ o[2] \in Dates /\ WeekdayOf[o[2]] = pattern[o[1]].day
           /\ ~Generated(o[1], o[2]) /\ ~Overridden(o[1], o[2])
           /\ o = <<o[1], o[2]>>
<1>1. o[1] \in Patterns /\ pattern[o[1]] # None /\ pattern[o[1]].active /\ pattern[o[1]].class = c
      /\ o[2] \in DueDates(o[1], range) /\ ~Generated(o[1], o[2]) /\ ~Overridden(o[1], o[2]) /\ o = <<o[1], o[2]>>
  BY DEF Missing
<1>2. pattern[o[1]] \in Pattern
  BY <1>1 DEF CalendarTypeOK
<1>3. o[2] \in Dates /\ WeekdayOf[o[2]] = pattern[o[1]].day
  BY <1>1, <1>2 DEF DueDates, Pattern
<1> QED  BY <1>1, <1>2, <1>3

\* The session owed for o.
Due(o) == Occurrence(o[1], o[2])

LEMMA DueRow ==
    ASSUME CalendarTypeOK, NEW c, NEW range, NEW o \in Missing(c, range)
    PROVE  /\ Due(o) \in Session /\ ~Due(o).manual /\ Due(o).moved = None /\ Due(o).status = "SCHEDULED"
           /\ Due(o).pattern = o[1] /\ Due(o).date = o[2] /\ Due(o).slot = pattern[o[1]].slot /\ Due(o).class = c
BY FallsDue, AnOccurrence DEF Due, Occurrence

\* Two owed sessions do not clash: active patterns of one class stay apart.
LEMMA OwedApart ==
    ASSUME CalInv, NEW c, NEW range, NEW o \in Missing(c, range), NEW u \in Missing(c, range), o # u
    PROVE  ~Clash(Due(o), Due(u)) /\ (Due(o).pattern # Due(u).pattern \/ Due(o).date # Due(u).date)
<1>1. CalendarTypeOK
  BY DEF CalInv
<1>2. o[1] # u[1] \/ o[2] # u[2]
  BY <1>1, FallsDue
<1>3. CASE o[2] # u[2]
  BY <1>1, <1>3, DueRow DEF Clash
<1>4. CASE o[2] = u[2] /\ o[1] # u[1]
  <2>1. pattern[o[1]].day = pattern[u[1]].day /\ pattern[o[1]].class = pattern[u[1]].class
    BY <1>1, <1>4, FallsDue
  <2>2. <<pattern[o[1]].slot, pattern[u[1]].slot>> \notin Overlapping
    BY <1>1, <1>4, <2>1, FallsDue DEF CalInv, PatternsApart
  <2> QED  BY <1>1, <1>4, <2>2, DueRow DEF Clash
<1> QED  BY <1>2, <1>3, <1>4

\* Only a session that was moved in lets generation overlook a conflict.
LEMMA OverlookedIsMoved ==
    ASSUME CalendarTypeOK, NEW c, NEW range, NEW o \in Missing(c, range), SamePattern(o[1], o[2])
    PROVE  \E r \in Kept : entry[r].moved # None /\ entry[r].pattern = o[1]
<1>1. PICK r \in Kept : entry[r].pattern = o[1] /\ entry[r].date = o[2] /\ entry[r].slot = pattern[o[1]].slot
  BY DEF SamePattern
<1>2. ~Generated(o[1], o[2]) /\ ~Overridden(o[1], o[2])
  BY FallsDue
<1>3. entry[r].moved # None
  BY <1>1, <1>2 DEF Generated, Overridden
<1> QED  BY <1>1, <1>3

\* Generation adds a row for each session owed and touches no other.
Adds(c, range, row) ==
    /\ row \in [Missing(c, range) -> Entries \ Kept]
    /\ \A o, u \in Missing(c, range) : row[o] = row[u] => o = u
    /\ \A o \in Missing(c, range) : entry'[row[o]] = Due(o)
    /\ \A e \in Entries : (\A o \in Missing(c, range) : row[o] # e) => entry'[e] = entry[e]

LEMMA Generating ==
    ASSUME NEW c, NEW range, Generate(c, range)
    PROVE  \E row : Adds(c, range, row) /\ entry' = [e \in Entries |-> entry'[e]]
<1> DEFINE M == Missing(c, range)
<1>1. PICK row \in [M -> Entries \ Kept] :
          /\ \A o, u \in M : row[o] = row[u] => o = u
          /\ entry' = [e \in Entries |->
                          IF \E o \in M : row[o] = e
                          THEN LET o == CHOOSE o \in M : row[o] = e IN Occurrence(o[1], o[2])
                          ELSE entry[e]]
  BY DEF Generate
<1> HIDE DEF M
<1>2. ASSUME NEW o \in M  PROVE entry'[row[o]] = Due(o)
  <2>1. (CHOOSE u \in M : row[u] = row[o]) = o
    BY <1>1
  <2>2. row[o] \in Entries
    BY <1>1
  <2> QED  BY <1>1, <2>1, <2>2 DEF Due
<1>3. \A e \in Entries : (\A o \in M : row[o] # e) => entry'[e] = entry[e]
  BY <1>1
<1>4. entry' = [e \in Entries |-> entry'[e]]
  BY <1>1
<1> QED  BY <1>1, <1>2, <1>3, <1>4 DEF M, Adds

LEMMA GeneratedRows ==
    ASSUME CalendarTypeOK, NEW c, NEW range, NEW row, Adds(c, range, row), entry' = [e \in Entries |-> entry'[e]]
    PROVE  /\ \A e \in Kept : entry'[e] = entry[e]
           /\ Kept \subseteq Kept'
           /\ \A e \in Kept' \ Kept : \E o \in Missing(c, range) : row[o] = e /\ entry'[e] = Due(o)
<1>1. \A o \in Missing(c, range) : row[o] \in Entries \ Kept /\ entry'[row[o]] = Due(o)
  BY DEF Adds
<1>2. \A e \in Entries : (\A o \in Missing(c, range) : row[o] # e) => entry'[e] = entry[e]
  BY DEF Adds
<1>3. \A e \in Kept : entry'[e] = entry[e]
  BY <1>1, <1>2, KeptSessions
<1>4. Kept \subseteq Kept'
  BY <1>3 DEF Kept
<1>5. ASSUME NEW e \in Kept' \ Kept
      PROVE  \E o \in Missing(c, range) : row[o] = e /\ entry'[e] = Due(o)
  <2>1. e \in Entries /\ entry'[e] # None /\ entry[e] = None
    BY <1>5 DEF Kept
  <2> QED  BY <1>1, <1>2, <2>1
<1> QED  BY <1>3, <1>4, <1>5

LEMMA GeneratingKeeps ==
    ASSUME CalInv, NEW c, NEW range, Generate(c, range)
    PROVE  CalInv'
<1> DEFINE M == Missing(c, range)
<1>1. CalendarTypeOK /\ UNCHANGED <<pattern, excluded, running>>
  BY DEF CalInv, Generate
<1>2. PICK row : Adds(c, range, row) /\ entry' = [e \in Entries |-> entry'[e]]
  BY Generating
<1>3. /\ \A e \in Kept : entry'[e] = entry[e]
      /\ Kept \subseteq Kept'
      /\ \A e \in Kept' \ Kept : \E o \in M : row[o] = e /\ entry'[e] = Due(o)
  BY <1>1, <1>2, GeneratedRows
<1>4. \A o \in M : /\ Due(o) \in Session /\ ~Due(o).manual /\ Due(o).moved = None /\ Due(o).status = "SCHEDULED"
                   /\ Due(o).pattern = o[1] /\ Due(o).date = o[2] /\ Due(o).slot = pattern[o[1]].slot
  BY <1>1, DueRow
<1>5. \A o, u \in M : row[o] = row[u] => o = u
  BY <1>2 DEF Adds
<1>6. \A o, u \in M : o # u => ~Clash(Due(o), Due(u)) /\ (Due(o).pattern # Due(u).pattern \/ Due(o).date # Due(u).date)
  BY OwedApart
<1>7. \A o \in M : o[1] \in Patterns /\ ~Generated(o[1], o[2])
  BY <1>1, FallsDue
<1>8. \A o \in M : Conflicts(Due(o), Kept) => \E r \in Kept : entry[r].moved # None /\ entry[r].pattern = o[1]
  <2> SUFFICES ASSUME NEW o \in M, Conflicts(Due(o), Kept)  PROVE \E r \in Kept : entry[r].moved # None /\ entry[r].pattern = o[1]
    OBVIOUS
  <2>1. SamePattern(o[1], o[2])
    BY DEF Generate, Due
  <2> QED  BY <1>1, <2>1, OverlookedIsMoved
<1> HIDE DEF M
<1>9. \A e \in Kept' \ Kept : /\ entry'[e] \in Session /\ ~entry'[e].manual
                              /\ entry'[e].moved = None /\ entry'[e].status = "SCHEDULED"
  BY <1>3, <1>4
<1>10. CalendarTypeOK'
  <2>1. entry' \in [Entries -> Session \cup {None}]
    <3>1. ASSUME NEW e \in Entries  PROVE entry'[e] \in Session \cup {None}
      <4>1. CASE e \in Kept
        BY <1>1, <1>3, <4>1, KeptSessions
      <4>2. CASE e \in Kept' \ Kept
        BY <1>9, <4>2
      <4>3. CASE e \notin Kept'
        BY <4>3 DEF Kept
      <4> QED  BY <4>1, <4>2, <4>3
    <3> QED  BY <1>2, <3>1
  <2>2. ASSUME NEW u \in Kept', entry'[u].moved # None
        PROVE  entry'[u].origin # None /\ entry'[u].moved \in Kept' \ {u}
    BY <1>1, <1>3, <1>9, <2>2 DEF CalendarTypeOK
  <2> QED  BY <1>1, <2>1, <2>2 DEF CalendarTypeOK, Kept
<1>11. GeneratedUnmoved'
  BY <1>3, <1>9 DEF CalInv, GeneratedUnmoved
<1>12. PatternsApart'
  BY <1>1 DEF CalInv, PatternsApart
<1>13. GeneratedOnce'
  <2> SUFFICES ASSUME NEW e \in Kept', NEW u \in Kept', ~entry'[e].manual, ~entry'[u].manual,
                      entry'[e].pattern = entry'[u].pattern, entry'[e].date = entry'[u].date,
                      entry'[e].slot = entry'[u].slot
               PROVE  e = u
    BY DEF GeneratedOnce
  <2>1. \A w \in Kept, o \in M :
            ~(~entry[w].manual /\ entry[w].pattern = o[1] /\ entry[w].date = o[2] /\ entry[w].slot = pattern[o[1]].slot)
    BY <1>7 DEF CalInv, GeneratedUnmoved, Generated
  <2>2. CASE e \in Kept /\ u \in Kept
    BY <1>3, <2>2 DEF CalInv, GeneratedOnce
  <2>3. CASE e \in Kept /\ u \notin Kept
    <3>1. PICK o \in M : entry'[u] = Due(o)
      BY <1>3, <2>3
    <3> QED  BY <1>3, <1>4, <2>1, <2>3, <3>1
  <2>4. CASE e \notin Kept /\ u \in Kept
    <3>1. PICK o \in M : entry'[e] = Due(o)
      BY <1>3, <2>4
    <3> QED  BY <1>3, <1>4, <2>1, <2>4, <3>1
  <2>5. CASE e \notin Kept /\ u \notin Kept
    <3>1. PICK o \in M : row[o] = e /\ entry'[e] = Due(o)
      BY <1>3, <2>5
    <3>2. PICK w \in M : row[w] = u /\ entry'[u] = Due(w)
      BY <1>3, <2>5
    <3> QED  BY <1>6, <3>1, <3>2
  <2> QED  BY <2>2, <2>3, <2>4, <2>5
<1>14. NoDoubleBookingUnlessMoved'
  <2> DEFINE Overlooked(x) == ~entry'[x].manual
                /\ \E r \in Kept' : entry'[r].moved # None /\ entry'[r].pattern = entry'[x].pattern
  <2> SUFFICES ASSUME NEW u \in Kept', NEW v \in Kept', u # v, Clash(entry'[u], entry'[v]),
                      entry'[u].status \in Operational, entry'[v].status \in Operational
               PROVE  \E x \in {u, v} : Overlooked(x)
    BY DEF NoDoubleBookingUnlessMoved, Clash, Compete
  <2>1. ASSUME NEW x \in Kept' \ Kept, NEW w \in Kept, Clash(entry'[x], entry[w]), entry[w].status \in Operational
        PROVE  Overlooked(x)
    <3>1. PICK o \in M : entry'[x] = Due(o)
      BY <1>3
    <3>2. Conflicts(Due(o), Kept)
      BY <2>1, <3>1 DEF Conflicts
    <3>3. PICK r \in Kept : entry[r].moved # None /\ entry[r].pattern = o[1]
      BY <1>8, <3>2
    <3> QED  BY <1>3, <1>4, <3>1, <3>3
  <2>2. CASE u \in Kept /\ v \in Kept
    <3>1. entry'[u] = entry[u] /\ entry'[v] = entry[v]
      BY <1>3, <2>2
    <3>2. PICK x \in {u, v} : ~entry[x].manual
              /\ \E r \in Kept : entry[r].moved # None /\ entry[r].pattern = entry[x].pattern
      BY <2>2, <3>1 DEF CalInv, NoDoubleBookingUnlessMoved
    <3>3. PICK r \in Kept : entry[r].moved # None /\ entry[r].pattern = entry[x].pattern
      BY <3>2
    <3> QED  BY <1>3, <3>1, <3>2, <3>3
  <2>3. CASE u \notin Kept /\ v \in Kept
    BY <1>3, <2>1, <2>3
  <2>4. CASE u \in Kept /\ v \notin Kept
    <3>1. entry'[u] \in Session /\ entry'[v] \in Session
      BY <1>1, <1>3, <1>9, <2>4, KeptSessions
    <3>2. Clash(entry'[v], entry[u])
      BY <1>3, <2>4, <3>1, ClashMutual
    <3> QED  BY <1>3, <2>1, <2>4, <3>2
  <2>5. CASE u \notin Kept /\ v \notin Kept
    <3>1. PICK o \in M : row[o] = u /\ entry'[u] = Due(o)
      BY <1>3, <2>5
    <3>2. PICK w \in M : row[w] = v /\ entry'[v] = Due(w)
      BY <1>3, <2>5
    <3> QED  BY <1>6, <3>1, <3>2
  <2> QED  BY <2>2, <2>3, <2>4, <2>5
<1>15. OneReplacement'
  <2>1. \A x \in Entries : ReplacementsOf(x)' = ReplacementsOf(x)
    BY <1>3, <1>9, CalendarAssumption DEF ReplacementsOf
  <2>2. \A x \in Entries : x \in Kept' /\ entry'[x].status = "RESCHEDULED" <=> x \in Kept /\ entry[x].status = "RESCHEDULED"
    BY <1>3, <1>9
  <2> QED  BY <1>3, <2>1, <2>2 DEF CalInv, OneReplacement
<1> QED  BY <1>10, <1>11, <1>12, <1>13, <1>14, <1>15 DEF CalInv

-----------------------------------------------------------------------------
(* Patterns *)

LEMMA PatternKeeps ==
    ASSUME CalInv, NEW p \in Patterns, NEW f \in PatternForms, CreatePattern(p, f) \/ UpdatePattern(p, f)
    PROVE  CalInv'
<1>1. CalendarTypeOK /\ pattern' = [pattern EXCEPT ![p] = f] /\ UNCHANGED <<excluded, entry, running>>
  BY DEF CalInv, CreatePattern, UpdatePattern
<1>2. f \in Pattern /\ f # None
  BY CalendarAssumption
<1>3. ~PatternConflict(f, Patterns \ {p})
  BY DEF CreatePattern, UpdatePattern, PatternConflict
<1>4. pattern'[p] = f /\ \A q \in Patterns : q # p => pattern'[q] = pattern[q]
  BY <1>1 DEF CalendarTypeOK
<1>5. CalendarTypeOK'
  <2>1. pattern' \in [Patterns -> Pattern \cup {None}]
    BY <1>1, <1>2 DEF CalendarTypeOK
  <2> QED  BY <1>1, <2>1 DEF CalendarTypeOK, Kept
<1>6. PatternsApart'
  <2> SUFFICES ASSUME NEW q \in Patterns, NEW r \in Patterns, q # r,
                      pattern'[q] # None, pattern'[q].active, pattern'[r] # None, pattern'[r].active,
                      pattern'[q].class = pattern'[r].class, pattern'[q].day = pattern'[r].day
               PROVE  <<pattern'[q].slot, pattern'[r].slot>> \notin Overlapping
    BY DEF PatternsApart
  <2>1. CASE q # p /\ r # p
    BY <1>4, <2>1 DEF CalInv, PatternsApart
  <2>2. ASSUME NEW u \in Patterns, u # p, f.active, pattern[u] # None, pattern[u].active,
               pattern[u].class = f.class, pattern[u].day = f.day
        PROVE  <<pattern[u].slot, f.slot>> \notin Overlapping /\ <<f.slot, pattern[u].slot>> \notin Overlapping
    <3>1. <<pattern[u].slot, f.slot>> \notin Overlapping
      BY <1>3, <2>2 DEF PatternConflict
    <3>2. pattern[u] \in Pattern
      BY <1>1, <2>2 DEF CalendarTypeOK
    <3>3. pattern[u].slot \in Slots /\ f.slot \in Slots
      BY <1>2, <3>2 DEF Pattern
    <3> QED  BY <3>1, <3>3, CalendarAssumption
  <2> QED  BY <1>4, <2>1, <2>2
<1>7. Kept' = Kept
  BY <1>1 DEF Kept
<1>8. GeneratedUnmoved' /\ NoDoubleBookingUnlessMoved' /\ GeneratedOnce'
  BY <1>1, <1>7 DEF CalInv, GeneratedUnmoved, NoDoubleBookingUnlessMoved, GeneratedOnce, Clash, Compete
<1>9. OneReplacement'
  BY <1>1, <1>7 DEF CalInv, OneReplacement, ReplacementsOf
<1> QED  BY <1>5, <1>6, <1>8, <1>9 DEF CalInv

\* Exclusions and the state of classes: neither pattern nor session changes.
LEMMA OthersKeep ==
    ASSUME CalInv, UNCHANGED <<pattern, entry>>, excluded' \subseteq Scopes, running' \subseteq DOMAIN BranchOf
    PROVE  CalInv'
<1>1. Kept' = Kept
  BY DEF Kept
<1>2. CalendarTypeOK' /\ PatternsApart'
  BY <1>1 DEF CalInv, CalendarTypeOK, PatternsApart
<1>3. GeneratedUnmoved' /\ NoDoubleBookingUnlessMoved' /\ GeneratedOnce'
  BY <1>1 DEF CalInv, GeneratedUnmoved, NoDoubleBookingUnlessMoved, GeneratedOnce, Clash, Compete
<1>4. OneReplacement'
  BY <1>1 DEF CalInv, OneReplacement, ReplacementsOf
<1> QED  BY <1>2, <1>3, <1>4 DEF CalInv

-----------------------------------------------------------------------------
(* The calendar of every tenant, whatever its patterns and sessions. *)

LEMMA CalendarStarts == CalendarInit => CalInv
<1> SUFFICES ASSUME CalendarInit  PROVE CalInv
  OBVIOUS
<1>1. Kept = {}
  BY DEF CalendarInit, Kept
<1>2. CalendarTypeOK
  BY <1>1 DEF CalendarInit, CalendarTypeOK
<1>3. PatternsApart
  BY DEF CalendarInit, PatternsApart
<1>4. OneReplacement
  BY <1>1 DEF OneReplacement, ReplacementsOf
<1> QED  BY <1>1, <1>2, <1>3, <1>4 DEF CalInv, GeneratedUnmoved, NoDoubleBookingUnlessMoved, GeneratedOnce

LEMMA CalendarKeeps == CalInv /\ [CalendarNext]_calendarVars => CalInv'
<1> SUFFICES ASSUME CalInv, [CalendarNext]_calendarVars  PROVE CalInv'
  OBVIOUS
<1>1. excluded \subseteq Scopes /\ running \subseteq DOMAIN BranchOf
  BY DEF CalInv, CalendarTypeOK
<1>2. ASSUME NEW p \in Patterns, NEW f \in PatternForms, CreatePattern(p, f) \/ UpdatePattern(p, f)  PROVE CalInv'
  BY <1>2, PatternKeeps
<1>3. ASSUME NEW x \in Scopes, CreateExclusion(x) \/ DeleteExclusion(x) \/ \E y \in Scopes : UpdateExclusion(x, y)
      PROVE  CalInv'
  BY <1>1, <1>3, OthersKeep DEF CreateExclusion, DeleteExclusion, UpdateExclusion
<1>4. ASSUME NEW c \in running, EndClass(c)  PROVE CalInv'
  BY <1>1, <1>4, OthersKeep DEF EndClass
<1>5. ASSUME NEW c, NEW range, Generate(c, range)  PROVE CalInv'
  BY <1>5, GeneratingKeeps
<1>6. ASSUME NEW e \in Entries, NEW f \in SessionForms, CreateEntry(e, f)  PROVE CalInv'
  BY <1>6, EnteringKeeps, CalendarAssumption
<1>7. ASSUME NEW e \in Entries, NEW p \in Patterns, NEW d \in Dates, CreateFromPattern(e, p, d)  PROVE CalInv'
  BY <1>7, FromPatternKeeps
<1>8. ASSUME NEW e \in Entries, NEW f \in Changes, UpdateSession(e, f) \/ \E r \in Entries : Reschedule(e, r, f)
      PROVE  CalInv'
  BY <1>8, EditingKeeps, MovingKeeps
<1>9. ASSUME NEW e \in Entries, NEW status \in {"CANCELLED", "COMPLETED"}, ChangeSessionStatus(e, status)
      PROVE  CalInv'
  BY <1>9, StatusKeeps
<1>10. CASE UNCHANGED calendarVars
  BY <1>1, <1>10, OthersKeep DEF calendarVars
<1> QED  BY <1>2, <1>3, <1>4, <1>5, <1>6, <1>7, <1>8, <1>9, <1>10 DEF CalendarNext

\* The inductive invariant: besides the properties, active patterns of one class
\* stay apart and a session as generated was not moved in.
THEOREM CalendarInvariance == CalendarSpec => []CalInv
BY CalendarStarts, CalendarKeeps, PTL DEF CalendarSpec

\* A session that was moved has one replacement, any other none, as a number.
LEMMA Counted == CalInv => ReplacedOnce
<1> SUFFICES ASSUME CalInv, NEW e \in Kept
             PROVE  Cardinality(ReplacementsOf(e)) = IF entry[e].status = "RESCHEDULED" THEN 1 ELSE 0
  BY DEF ReplacedOnce, ReplacementsOf
<1>1. e \in Entries
  BY DEF Kept
<1>2. CASE entry[e].status = "RESCHEDULED"
  <2>1. PICK r \in Kept : ReplacementsOf(e) = {r}
    BY <1>1, <1>2 DEF CalInv, OneReplacement
  <2> QED  BY <1>2, <2>1, FS_Singleton
<1>3. CASE entry[e].status # "RESCHEDULED"
  <2>1. ReplacementsOf(e) = {}
    BY <1>1, <1>3 DEF CalInv, OneReplacement
  <2> QED  BY <1>3, <2>1, FS_EmptySet
<1> QED  BY <1>2, <1>3

LEMMA GenerationIsRespectful ==
    ASSUME CalendarTypeOK, NEW c, NEW range, Generate(c, range)
    PROVE  Respectful
<1> SUFFICES ASSUME NEW e \in Kept' \ Kept
             PROVE  /\ \A u \in Kept : entry'[u] = entry[u]
                    /\ \A u \in Kept :
                         (entry[u].pattern = entry'[e].pattern /\ entry[u].manual /\ entry[u].moved = None)
                             => entry'[e].date \notin {entry[u].date, entry[u].origin}
  BY DEF Respectful
<1>1. PICK row : Adds(c, range, row) /\ entry' = [x \in Entries |-> entry'[x]]
  BY Generating
<1>2. \A u \in Kept : entry'[u] = entry[u]
  BY <1>1, GeneratedRows
<1>3. PICK o \in Missing(c, range) : entry'[e] = Due(o)
  BY <1>1, GeneratedRows
<1>4. Due(o).pattern = o[1] /\ Due(o).date = o[2] /\ ~Overridden(o[1], o[2])
  BY DueRow, FallsDue
<1> QED  BY <1>2, <1>3, <1>4 DEF Overridden

\* Every other step adds sessions staff enter or move, never as generated.
LEMMA OthersAreRespectful ==
    ASSUME CalendarTypeOK, NEW e \in Entries,
           \/ \E f \in SessionForms : CreateEntry(e, f)
           \/ \E p \in Patterns, d \in Dates : CreateFromPattern(e, p, d)
           \/ \E f \in Changes : UpdateSession(e, f) \/ \E r \in Entries : Reschedule(e, r, f)
           \/ \E status \in {"CANCELLED", "COMPLETED"} : ChangeSessionStatus(e, status)
    PROVE  Respectful
<1> SUFFICES ASSUME NEW x \in Kept' \ Kept  PROVE entry'[x].manual
  BY DEF Respectful
<1>1. x \in Entries /\ entry[x] = None /\ entry'[x] # None
  BY DEF Kept
<1>2. ASSUME NEW f \in SessionForms, CreateEntry(e, f)  PROVE entry'[x].manual
  BY <1>1, <1>2, CalendarAssumption DEF CreateEntry, CalendarTypeOK
<1>3. ASSUME NEW p \in Patterns, NEW d \in Dates, CreateFromPattern(e, p, d)  PROVE entry'[x].manual
  <2>1. [Occurrence(p, d) EXCEPT !.manual = TRUE].manual
    BY <1>3, AnOccurrence DEF CreateFromPattern
  <2> QED  BY <1>1, <1>3, <2>1 DEF CreateFromPattern, CreateEntry, CalendarTypeOK
<1>4. ASSUME NEW f \in Changes, UpdateSession(e, f)  PROVE entry'[x].manual
  BY <1>1, <1>4 DEF UpdateSession, Kept, CalendarTypeOK
<1>5. ASSUME NEW f \in Changes, NEW r \in Entries, Reschedule(e, r, f)  PROVE entry'[x].manual
  <2>1. x = r /\ e \in Kept /\ r # e
    BY <1>1, <1>5 DEF Reschedule, Kept, CalendarTypeOK
  <2>2. entry'[r] = Replacement(e, f)
    BY <1>5, <2>1 DEF Reschedule, CalendarTypeOK
  <2>3. entry[e] \in Session
    BY <2>1, KeptSessions
  <2> QED  BY <2>1, <2>2, <2>3 DEF Replacement, Session
<1>6. ASSUME NEW status \in {"CANCELLED", "COMPLETED"}, ChangeSessionStatus(e, status)  PROVE entry'[x].manual
  BY <1>1, <1>6 DEF ChangeSessionStatus, Kept, CalendarTypeOK
<1> QED  BY <1>2, <1>3, <1>4, <1>5, <1>6

\* A session that is no longer scheduled is not touched again.
LEMMA SettledStays ==
    ASSUME CalendarTypeOK, CalendarNext, NEW e \in Kept, entry[e].status # "SCHEDULED"
    PROVE  entry'[e] = entry[e]
<1>1. e \in Entries /\ entry[e] # None
  BY DEF Kept
<1>2. CASE UNCHANGED entry
  BY <1>2
<1>3. ASSUME NEW c, NEW range, Generate(c, range)  PROVE entry'[e] = entry[e]
  <2>1. PICK row : Adds(c, range, row) /\ entry' = [x \in Entries |-> entry'[x]]
    BY <1>3, Generating
  <2> QED  BY <2>1, GeneratedRows
<1>4. ASSUME NEW u \in Entries, NEW f, CreateEntry(u, f)  PROVE entry'[e] = entry[e]
  BY <1>1, <1>4 DEF CreateEntry, CalendarTypeOK
<1>5. ASSUME NEW u \in Entries, NEW f \in Changes, UpdateSession(u, f)  PROVE entry'[e] = entry[e]
  BY <1>1, <1>5 DEF UpdateSession, CalendarTypeOK
<1>6. ASSUME NEW u \in Entries, NEW f \in Changes, NEW r \in Entries, Reschedule(u, r, f)  PROVE entry'[e] = entry[e]
  BY <1>1, <1>6 DEF Reschedule, CalendarTypeOK
<1>7. ASSUME NEW u \in Entries, NEW status \in {"CANCELLED", "COMPLETED"}, ChangeSessionStatus(u, status)
      PROVE  entry'[e] = entry[e]
  BY <1>1, <1>7 DEF ChangeSessionStatus, CalendarTypeOK
<1>8. \A p \in Patterns, f \in PatternForms : CreatePattern(p, f) \/ UpdatePattern(p, f) => UNCHANGED entry
  BY DEF CreatePattern, UpdatePattern
<1>9. \A x \in Scopes : CreateExclusion(x) \/ DeleteExclusion(x) \/ (\E y \in Scopes : UpdateExclusion(x, y)) => UNCHANGED entry
  BY DEF CreateExclusion, DeleteExclusion, UpdateExclusion
<1>10. \A c \in running : EndClass(c) => UNCHANGED entry
  BY DEF EndClass
<1>11. ASSUME NEW u \in Entries, NEW p \in Patterns, NEW d \in Dates, CreateFromPattern(u, p, d)
       PROVE  entry'[e] = entry[e]
  BY <1>4, <1>11 DEF CreateFromPattern
<1> QED  BY <1>2, <1>3, <1>4, <1>5, <1>6, <1>7, <1>8, <1>9, <1>10, <1>11 DEF CalendarNext

LEMMA ReportsStand ==
    ASSUME CalendarTypeOK, CalendarNext
    PROVE  Standing
<1>1. ASSUME NEW e \in Kept, entry[e].status # "SCHEDULED"
      PROVE  entry'[e] = entry[e] /\ e \in Kept'
  <2>1. entry'[e] = entry[e]
    BY <1>1, SettledStays
  <2> QED  BY <2>1 DEF Kept
<1>2. ASSUME NEW d, NEW t  PROVE Taught(t, {d}) \subseteq Taught(t, {d})'
  BY <1>1 DEF Taught
<1>3. ASSUME NEW d, NEW c, NEW status \in {"COMPLETED", "CANCELLED", "RESCHEDULED"}
      PROVE  SessionsOf(c, {d}, status) \subseteq SessionsOf(c, {d}, status)'
  BY <1>1, <1>3 DEF SessionsOf
<1> QED  BY <1>2, <1>3 DEF Standing

\* Nothing is booked twice but behind a session that was moved in, an occurrence
\* is generated once, a moved session is replaced once, generation respects what
\* staff have edited, and what was reported of a date stands.
THEOREM CalendarStaysSafe == CalendarSpec => CalendarSafe
<1>1. CalInv => CalendarTypeOK /\ NoDoubleBookingUnlessMoved /\ GeneratedOnce /\ ReplacedOnce
  BY Counted DEF CalInv
<1>2. CalInv /\ [CalendarNext]_calendarVars => [Respectful]_calendarVars
  <2> SUFFICES ASSUME CalInv, CalendarNext  PROVE Respectful
    OBVIOUS
  <2>1. CalendarTypeOK
    BY DEF CalInv
  <2>2. ASSUME UNCHANGED entry  PROVE Respectful
    BY <2>2 DEF Kept, Respectful
  <2>3. ASSUME NEW c, NEW range, Generate(c, range)  PROVE Respectful
    BY <2>1, <2>3, GenerationIsRespectful
  <2> QED  BY <2>1, <2>2, <2>3, OthersAreRespectful
           DEF CalendarNext, CreatePattern, UpdatePattern, CreateExclusion, DeleteExclusion, UpdateExclusion, EndClass
<1>3. CalInv /\ [CalendarNext]_calendarVars => [Standing]_entry
  BY ReportsStand DEF CalInv, calendarVars
<1> QED  BY <1>1, <1>2, <1>3, CalendarInvariance, PTL
         DEF CalendarSpec, CalendarSafe, GenerationRespectsEdits, ReportedStands

-----------------------------------------------------------------------------
(* The lists read page by page: first, what an order of finitely many rows *)
(* gives.                                                                  *)

\* The rows of S are in one order.
Ordered(S) ==
    /\ IsFiniteSet(S)
    /\ \A a \in S : ~Precedes(a, a)
    /\ \A a, b \in S : a # b => Precedes(a, b) \/ Precedes(b, a)
    /\ \A a, b, c \in S : Precedes(a, b) /\ Precedes(b, c) => Precedes(a, c)

Rank(S, e) == Cardinality(Ahead(S, e))

LEMMA OrderedPart ==
    ASSUME NEW S, Ordered(S), NEW T \in SUBSET S
    PROVE  Ordered(T)
<1>1. IsFiniteSet(T)
  BY FS_Subset DEF Ordered
<1> QED  BY <1>1 DEF Ordered

\* Who comes later has more ahead.
LEMMA RankGrows ==
    ASSUME NEW S, Ordered(S), NEW a \in S, NEW b \in S, Precedes(a, b)
    PROVE  Rank(S, a) < Rank(S, b)
<1>1. IsFiniteSet(Ahead(S, a)) /\ IsFiniteSet(Ahead(S, b))
  BY FS_Subset DEF Ordered, Ahead
<1>2. a \notin Ahead(S, a) /\ Ahead(S, a) \cup {a} \subseteq Ahead(S, b)
  BY DEF Ordered, Ahead
<1>3. Cardinality(Ahead(S, a) \cup {a}) = Cardinality(Ahead(S, a)) + 1
  BY <1>1, <1>2, FS_AddElement
<1>4. Cardinality(Ahead(S, a) \cup {a}) <= Cardinality(Ahead(S, b))
  BY <1>1, <1>2, FS_Subset
<1>5. Cardinality(Ahead(S, a)) \in Nat /\ Cardinality(Ahead(S, b)) \in Nat
  BY <1>1, FS_CardinalityType
<1> QED  BY <1>3, <1>4, <1>5 DEF Rank

LEMMA RankBound ==
    ASSUME NEW S, Ordered(S), NEW e \in S
    PROVE  Cardinality(S) \in Nat /\ Rank(S, e) \in 0 .. Cardinality(S) - 1
<1>1. IsFiniteSet(S) /\ IsFiniteSet(S \ {e})
  BY FS_Subset DEF Ordered
<1>2. Ahead(S, e) \subseteq S \ {e}
  BY DEF Ordered, Ahead
<1>3. Cardinality(S \ {e}) = Cardinality(S) - 1
  BY <1>1, FS_RemoveElement
<1>4. Cardinality(Ahead(S, e)) <= Cardinality(S \ {e}) /\ IsFiniteSet(Ahead(S, e))
  BY <1>1, <1>2, FS_Subset
<1>5. Cardinality(Ahead(S, e)) \in Nat /\ Cardinality(S) \in Nat
  BY <1>1, <1>4, FS_CardinalityType
<1> QED  BY <1>3, <1>4, <1>5 DEF Rank

LEMMA SameRank ==
    ASSUME NEW S, Ordered(S), NEW a \in S, NEW b \in S, Rank(S, a) = Rank(S, b)
    PROVE  a = b
<1>1. Rank(S, a) \in Nat /\ Rank(S, b) \in Nat
  BY RankBound
<1>2. ~Precedes(a, b) /\ ~Precedes(b, a)
  BY <1>1, RankGrows
<1> QED  BY <1>2 DEF Ordered

\* Every place has its row.
LEMMA RankOnto ==
    ASSUME NEW S, Ordered(S), NEW i \in 0 .. Cardinality(S) - 1
    PROVE  \E e \in S : Rank(S, e) = i
<1> DEFINE n == Cardinality(S)
           places == 0 .. n - 1
           f == [e \in S |-> Rank(S, e)]
<1>1. IsFiniteSet(S) /\ n \in Nat
  BY FS_CardinalityType DEF Ordered
<1>2. IsFiniteSet(places) /\ Cardinality(places) = n
  BY <1>1, FS_Interval
<1>3. f \in [S -> places] /\ \A a, b \in S : f[a] = f[b] => a = b
  BY RankBound, SameRank
<1>4. f \in Injection(S, places)
  BY <1>3 DEF Injection, IsInjective
<1> HIDE DEF f
<1>5. f \in Surjection(S, places)
  BY <1>2, <1>4, FS_Injection
<1>6. \E e \in S : f[e] = i
  BY <1>5 DEF Surjection
<1> QED  BY <1>6 DEF f

LEMMA FirstOfEnds ==
    ASSUME NEW S, Ordered(S), NEW n \in Nat
    PROVE  /\ FirstOf(S, n) \subseteq S
           /\ \A e \in FirstOf(S, n), x \in S \ FirstOf(S, n) : Precedes(e, x)
           /\ Cardinality(S) <= n => FirstOf(S, n) = S
<1>1. \A e \in S : Rank(S, e) \in Nat /\ Rank(S, e) < Cardinality(S) /\ Cardinality(S) \in Nat
  BY RankBound
<1>2. FirstOf(S, n) = {e \in S : Rank(S, e) < n}
  BY DEF FirstOf, Rank
<1>3. ASSUME NEW e \in FirstOf(S, n), NEW x \in S \ FirstOf(S, n)
      PROVE  Precedes(e, x)
  <2>1. Rank(S, e) < Rank(S, x) /\ e # x
    BY <1>1, <1>2
  <2>2. ~Precedes(x, e)
    BY <1>1, <1>2, <2>1, RankGrows
  <2> QED  BY <1>2, <2>1, <2>2 DEF Ordered
<1> QED  BY <1>1, <1>2, <1>3

\* There are as many of the first n as can be.
LEMMA FirstOfCount ==
    ASSUME NEW S, Ordered(S), NEW n \in Nat, n <= Cardinality(S)
    PROVE  n <= Cardinality(FirstOf(S, n))
<1> DEFINE T == FirstOf(S, n)
           places == 0 .. n - 1
           f == [e \in T |-> Rank(S, e)]
<1>1. T = {e \in S : Rank(S, e) < n} /\ IsFiniteSet(T) /\ Cardinality(S) \in Nat
  BY FS_Subset, FS_CardinalityType DEF FirstOf, Rank, Ordered
<1>2. Cardinality(places) = n
  BY FS_Interval
<1>3. f \in [T -> places]
  BY <1>1, RankBound
<1>4. \A i \in places : \E e \in T : f[e] = i
  BY <1>1, RankOnto
<1> HIDE DEF T, f
<1>5. f \in Surjection(T, places)
  BY <1>3, <1>4 DEF Surjection
<1>6. Cardinality(places) <= Cardinality(T)
  BY <1>1, <1>5, FS_Surjection
<1> QED  BY <1>2, <1>6 DEF T

\* The last row.
LEMMA LastRow ==
    ASSUME NEW S, Ordered(S), S # {}
    PROVE  \E e \in S : \A x \in S : x = e \/ Precedes(x, e)
<1>1. IsFiniteSet(S) /\ Cardinality(S) \in Nat /\ Cardinality(S) # 0
  BY FS_CardinalityType, FS_EmptySet DEF Ordered
<1>2. PICK e \in S : Rank(S, e) = Cardinality(S) - 1
  BY <1>1, RankOnto
<1>3. ASSUME NEW x \in S, x # e  PROVE Precedes(x, e)
  <2>1. Rank(S, x) \in Nat /\ Rank(S, x) <= Cardinality(S) - 1
    BY RankBound
  <2>2. ~Precedes(e, x)
    BY <1>1, <1>2, <2>1, RankGrows
  <2> QED  BY <1>3, <2>2 DEF Ordered
<1> QED  BY <1>2, <1>3

\* A page in the order of the list.
LEMMA OrderedSeq ==
    ASSUME NEW S, Ordered(S)
    PROVE  /\ InOrder(S) \in Seq(S) /\ ToSet(InOrder(S)) = S
           /\ IsInjective(InOrder(S))
           /\ \A i, j \in DOMAIN InOrder(S) : i < j => Precedes(InOrder(S)[i], InOrder(S)[j])
<1> DEFINE n == Cardinality(S)
           row(i) == CHOOSE e \in S : Rank(S, e) = i - 1
           s == [i \in 1 .. n |-> row(i)]
<1>1. s = InOrder(S)
  BY DEF InOrder, Rank
<1>2. n \in Nat
  BY FS_CardinalityType DEF Ordered
<1>3. ASSUME NEW i \in 1 .. n  PROVE row(i) \in S /\ Rank(S, row(i)) = i - 1
  <2>1. \E e \in S : Rank(S, e) = i - 1
    BY <1>2, RankOnto
  <2> QED  BY <2>1
<1> HIDE DEF row
<1>4. s \in [1 .. n -> S] /\ \A i \in 1 .. n : Rank(S, s[i]) = i - 1
  BY <1>3
<1>5. DOMAIN s = 1 .. n
  OBVIOUS
<1> HIDE DEF s, n
<1>6. s \in Seq(S)
  BY <1>2, <1>4, SeqDef
<1>7. ToSet(s) = S
  <2>1. ASSUME NEW e \in S  PROVE \E i \in 1 .. n : s[i] = e
    <3>1. PICK r \in 0 .. n - 1 : r = Rank(S, e)
      BY RankBound DEF n
    <3>2. r + 1 \in 1 .. n /\ r = (r + 1) - 1
      BY <1>2
    <3>3. s[r + 1] \in S /\ Rank(S, s[r + 1]) = Rank(S, e)
      BY <1>4, <3>1, <3>2
    <3> QED  BY <3>2, <3>3, SameRank
  <2> QED  BY <1>4, <1>5, <2>1 DEF ToSet
<1>8. IsInjective(s)
  BY <1>2, <1>4, <1>5 DEF IsInjective
<1>9. ASSUME NEW i \in 1 .. n, NEW j \in 1 .. n, i < j  PROVE Precedes(s[i], s[j])
  <2>1. Rank(S, s[i]) = i - 1 /\ Rank(S, s[j]) = j - 1 /\ s[i] \in S /\ s[j] \in S
    BY <1>4
  <2>2. s[i] # s[j]
    BY <1>2, <1>9, <2>1
  <2>3. ~Precedes(s[j], s[i])
    BY <1>2, <1>9, <2>1, RankGrows
  <2> QED  BY <2>1, <2>2, <2>3 DEF Ordered
<1> QED  BY <1>1, <1>5, <1>6, <1>7, <1>8, <1>9

-----------------------------------------------------------------------------
(* A page merged of tables is a page of all *)

\* The rows of M by table, as many of each as fill a page and one more.
Merged(M, n) == UNION {FirstOf({e \in M : e.table = t}, n + 1) : t \in Tables}

LEMMA MergedPage ==
    ASSUME NEW M, Ordered(M), \A e \in M : e.table \in Tables, NEW n \in Nat,
           NEW gathered, gathered = Merged(M, n)
    PROVE  /\ gathered \subseteq M /\ Ordered(gathered)
           /\ FirstOf(gathered, n) \subseteq M
           /\ \A e \in FirstOf(gathered, n), x \in M \ FirstOf(gathered, n) : Precedes(e, x)
           /\ ~(Cardinality(gathered) > n) => FirstOf(gathered, n) = M
<1> DEFINE Of(t) == {e \in M : e.table = t}
<1>1. gathered = UNION {FirstOf(Of(t), n + 1) : t \in Tables}
  BY DEF Merged
<1>2. \A t \in Tables : Of(t) \subseteq M /\ Ordered(Of(t)) /\ FirstOf(Of(t), n + 1) \subseteq Of(t)
  BY OrderedPart DEF FirstOf
<1>3. gathered \subseteq M /\ Ordered(gathered)
  <2>1. gathered \subseteq M
    BY <1>1, <1>2
  <2> QED  BY <2>1, OrderedPart
<1>4. IsFiniteSet(gathered) /\ Cardinality(gathered) \in Nat /\ FirstOf(gathered, n) \subseteq gathered
  BY <1>3, FS_CardinalityType DEF Ordered, FirstOf
\* A row that is not gathered has more than a page of gathered rows ahead of it.
<1>5. ASSUME NEW x \in M \ gathered
      PROVE  \E T \in SUBSET gathered : n + 1 <= Cardinality(T) /\ \A e \in T : Precedes(e, x)
  <2> DEFINE t == x.table
             T == FirstOf(Of(t), n + 1)
  <2>1. t \in Tables /\ x \in Of(t)
    OBVIOUS
  <2>2. T \subseteq gathered /\ x \in Of(t) \ T
    BY <1>1, <1>5, <2>1
  <2>3. Ordered(Of(t)) /\ n + 1 \in Nat
    BY <1>2, <2>1
  <2>4. (\A e \in T : Precedes(e, x)) /\ ~(Cardinality(Of(t)) <= n + 1)
    BY <2>2, <2>3, FirstOfEnds
  <2>5. Cardinality(Of(t)) \in Nat
    BY <2>3, FS_CardinalityType DEF Ordered
  <2>6. n + 1 <= Cardinality(T)
    BY <2>3, <2>4, <2>5, FirstOfCount
  <2> QED  BY <2>2, <2>4, <2>6
<1>6. ASSUME NEW x \in M \ gathered, NEW T \in SUBSET gathered, n + 1 <= Cardinality(T)
      PROVE  n + 1 <= Cardinality(gathered)
  <2>1. Cardinality(T) <= Cardinality(gathered) /\ Cardinality(T) \in Nat
    BY <1>4, FS_Subset, FS_CardinalityType
  <2> QED  BY <1>4, <1>6, <2>1
<1>7. ASSUME NEW e \in FirstOf(gathered, n), NEW x \in M \ FirstOf(gathered, n)
      PROVE  Precedes(e, x)
  <2>1. CASE x \in gathered
    BY <1>3, <2>1, FirstOfEnds
  <2>2. CASE x \notin gathered
    <3>1. PICK T \in SUBSET gathered : n + 1 <= Cardinality(T) /\ \A y \in T : Precedes(y, x)
      BY <1>5, <2>2
    <3>2. SUFFICES ASSUME ~Precedes(e, x)  PROVE FALSE
      OBVIOUS
    <3>3. e \in M /\ e \in gathered /\ e # x
      BY <1>3, <1>4, <2>2
    <3>4. Precedes(x, e)
      BY <3>2, <3>3 DEF Ordered
    <3>5. T \subseteq Ahead(gathered, e)
      <4>1. ASSUME NEW y \in T  PROVE Precedes(y, e)
        BY <1>3, <3>1, <3>3, <3>4 DEF Ordered
      <4> QED  BY <4>1 DEF Ahead
    <3>6. Cardinality(T) <= Cardinality(Ahead(gathered, e)) /\ Cardinality(T) \in Nat /\ Cardinality(Ahead(gathered, e)) \in Nat
      <4>1. IsFiniteSet(Ahead(gathered, e))
        BY <1>4, FS_Subset DEF Ahead
      <4> QED  BY <3>5, <4>1, FS_Subset, FS_CardinalityType
    <3>7. Cardinality(Ahead(gathered, e)) < n
      BY <1>7 DEF FirstOf
    <3> QED  BY <3>1, <3>6, <3>7
  <2> QED  BY <2>1, <2>2
<1>8. ASSUME ~(Cardinality(gathered) > n)  PROVE FirstOf(gathered, n) = M
  <2>1. FirstOf(gathered, n) = gathered
    BY <1>3, <1>4, <1>8, FirstOfEnds
  <2>2. M \subseteq gathered
    BY <1>4, <1>5, <1>6, <1>8
  <2> QED  BY <1>3, <2>1, <2>2
<1> QED  BY <1>3, <1>4, <1>7, <1>8

\* What a JavaScript Date keeps of a stamp.
LEMMA Milliseconds ==
    ASSUME NEW a \in Nat, NEW b \in Nat
    PROVE  /\ Millisecond(a) \in Nat /\ Millisecond(a) <= a
           /\ Millisecond(a) <= b /\ b <= a => Millisecond(b) = Millisecond(a)
<1> DEFINE P == PerMillisecond
           qa == a \div P
           qb == b \div P
<1>1. P \in Nat /\ P > 0
  BY ListingsAssumption
<1>2. a = P * qa + (a % P) /\ 0 <= (a % P) /\ (a % P) < P /\ qa \in Int /\ (a % P) \in Int
  BY <1>1
<1>3. b = P * qb + (b % P) /\ 0 <= (b % P) /\ (b % P) < P /\ qb \in Int /\ (b % P) \in Int
  BY <1>1
<1>4. Millisecond(a) = a - (a % P) /\ Millisecond(b) = b - (b % P) /\ P * qa \in Int /\ P * qb \in Int
  BY <1>1, <1>2, <1>3 DEF Millisecond
<1> HIDE DEF P, qa, qb
<1>5. Millisecond(a) = P * qa /\ Millisecond(b) = P * qb
  BY <1>1, <1>2, <1>3, <1>4
<1>6. ASSUME NEW x \in Int, NEW y \in Int, x < y  PROVE P * x + P <= P * y
  <2>1. y - x - 1 >= 0 /\ P >= 0
    BY <1>1, <1>6
  <2> QED  BY <1>1, <2>1, <1>6
<1>7. P * qa >= 0
  <2>1. qa < 0 => P * qa + P <= P * 0
    BY <1>2, <1>6
  <2> QED  BY <1>1, <1>2, <1>4, <2>1
<1>8. P * qa <= b /\ b <= a => qa = qb
  <2>1. (qa < qb => P * qa + P <= P * qb) /\ (qb < qa => P * qb + P <= P * qa)
    BY <1>2, <1>3, <1>6
  <2> QED  BY <1>1, <1>2, <1>3, <1>4, <2>1
<1> QED  BY <1>2, <1>4, <1>5, <1>7, <1>8

-----------------------------------------------------------------------------
(* The rows, and the places in their order *)

ListRow == [table : Tables, at : 0 .. LastTick, id : 1 .. MaxRows, topic : Topics]

PositionRow == [table : Tables, id : 1 .. MaxRows, at : 0 .. LastTick]

RowsKept ==
    /\ list \in Lists /\ tick \in 0 .. LastTick
    /\ rows \subseteq ListRow /\ uncommitted \subseteq ListRow
    /\ IsFiniteSet(rows) /\ rows \cap uncommitted = {}
    /\ \A a, b \in rows \cup uncommitted : a.id = b.id => a = b

\* What can be compared: rows and positions of the list.
Placed(a) == a.table \in Tables /\ a.at \in Nat /\ a.id \in Nat

\* a does not come after b.
NotAfter(a, b) == ~Precedes(b, a)

LEMMA RowsArePlaced ==
    ASSUME RowsKept
    PROVE  /\ \A e \in ListRow : Placed(e) /\ e.at \in 0 .. LastTick /\ e.id \in 1 .. MaxRows /\ e.topic \in Topics
           /\ \A p \in PositionRow : Placed(p) /\ p # NoPosition
<1>1. MaxRows \in Nat /\ LastTick \in Nat
  BY ListingsAssumption
<1>2. \A e \in ListRow : Placed(e) /\ e.at \in 0 .. LastTick /\ e.id \in 1 .. MaxRows /\ e.topic \in Topics
  BY <1>1 DEF ListRow, Placed
<1>3. \A p \in PositionRow : Placed(p)
  BY <1>1 DEF PositionRow, Placed
<1>4. \A p \in PositionRow : p # NoPosition
  <2>1. Tables \subseteq {"control", "tenant", "history", "roster"}
    BY ListingsAssumption DEF RowsKept, Tables
  <2>2. 1 .. MaxRows \subseteq Nat /\ 0 .. LastTick \subseteq Nat
    BY <1>1
  <2>3. ASSUME NEW p \in PositionRow
        PROVE  p \in [table : {"control", "tenant", "history", "roster"}, id : Nat, at : Nat]
    <3>1. p.table \in {"control", "tenant", "history", "roster"} /\ p.id \in Nat /\ p.at \in Nat
      BY <2>1, <2>2 DEF PositionRow
    <3>2. p = [table |-> p.table, id |-> p.id, at |-> p.at]
      BY DEF PositionRow
    <3> QED  BY <3>1, <3>2
  <2> QED  BY <2>3, ListingsAssumption
<1> QED  BY <1>2, <1>3, <1>4

LEMMA OneDirection ==
    ASSUME RowsKept, NEW a, Placed(a)
    PROVE  a.table = "roster" <=> list = "roster"
BY ListingsAssumption DEF RowsKept, Placed, Tables

LEMMA PlaceFacts ==
    ASSUME RowsKept, NEW a, NEW b, NEW c, Placed(a), Placed(b), Placed(c)
    PROVE  /\ ~Precedes(a, a)
           /\ a.id # b.id => Precedes(a, b) \/ Precedes(b, a)
           /\ Precedes(a, b) /\ Precedes(b, c) => Precedes(a, c)
           /\ NotAfter(a, b) /\ Precedes(b, c) => Precedes(a, c)
           /\ Precedes(a, b) => NotAfter(a, b)
           /\ NotAfter(a, b) /\ NotAfter(b, c) => NotAfter(a, c)
BY OneDirection DEF Placed, Precedes, NotAfter

LEMMA RowsOrdered == RowsKept => Ordered(rows)
<1> SUFFICES ASSUME RowsKept  PROVE Ordered(rows)
  OBVIOUS
<1>1. \A e \in rows : Placed(e)
  BY RowsArePlaced DEF RowsKept
<1>2. \A a, b \in rows : a # b => a.id # b.id
  BY DEF RowsKept
<1>3. \A a \in rows : ~Precedes(a, a)
  BY <1>1, PlaceFacts
<1>4. \A a, b \in rows : a # b => Precedes(a, b) \/ Precedes(b, a)
  BY <1>1, <1>2, PlaceFacts
<1>5. \A a, b, c \in rows : Precedes(a, b) /\ Precedes(b, c) => Precedes(a, c)
  BY <1>1, PlaceFacts
<1> QED  BY <1>3, <1>4, <1>5 DEF RowsKept, Ordered

-----------------------------------------------------------------------------
(* The cursor of a page *)

CursorAt(t, last) ==
    [table |-> t, id |-> last.id, at |-> IF list = "history" THEN Millisecond(last.at) ELSE last.at]

\* No other row shares the millisecond of x.
Alone(x) == list = "history" => \A y \in rows : y # x => Millisecond(y.at) # Millisecond(x.at)

LEMMA CursorPlaced ==
    ASSUME RowsKept, NEW last \in ListRow
    PROVE  /\ CursorAt(last.table, last) \in PositionRow
           /\ CursorAt(last.table, last).table = last.table
           /\ NotAfter(last, CursorAt(last.table, last))
<1> DEFINE p == CursorAt(last.table, last)
<1>1. last.table \in Tables /\ last.at \in 0 .. LastTick /\ last.id \in 1 .. MaxRows /\ LastTick \in Nat /\ MaxRows \in Nat
  BY ListingsAssumption DEF ListRow
<1>2. p.table = last.table /\ p.id = last.id /\ p.at = IF list = "history" THEN Millisecond(last.at) ELSE last.at
  BY DEF CursorAt
<1>3. Millisecond(last.at) \in Nat /\ Millisecond(last.at) <= last.at
  BY <1>1, Milliseconds
<1>4. p.at \in 0 .. LastTick /\ p.at <= last.at /\ (list # "history" => p.at = last.at)
  BY <1>1, <1>2, <1>3
<1>5. p \in PositionRow
  BY <1>1, <1>2, <1>4 DEF CursorAt, PositionRow
<1>6. Placed(last)
  BY <1>1 DEF Placed
<1> HIDE DEF p
<1>7. ~Precedes(p, last)
  <2>1. last.table = "roster" <=> list = "roster"
    BY <1>6, OneDirection
  <2> QED  BY <1>1, <1>2, <1>4, <2>1 DEF Precedes
<1> QED  BY <1>2, <1>5, <1>7 DEF p, NotAfter

\* A row after the last one of its table is beyond the cursor, if it is alone.
LEMMA CursorPrecedes ==
    ASSUME RowsKept, NEW last \in rows, NEW x \in rows, Precedes(last, x), Alone(x)
    PROVE  Precedes(CursorAt(last.table, last), x)
<1> DEFINE p == CursorAt(last.table, last)
<1> SUFFICES Precedes(p, x)
  OBVIOUS
<1>1. /\ last.at \in Nat /\ last.id \in Nat /\ x.at \in Nat /\ x.id \in Nat
      /\ Placed(last) /\ Placed(x)
  BY RowsArePlaced DEF RowsKept, Placed
<1>2. p.table = last.table /\ p.id = last.id /\ p.at = IF list = "history" THEN Millisecond(last.at) ELSE last.at
  BY DEF CursorAt
<1> HIDE DEF p
<1>3. CASE list # "history"
  BY <1>1, <1>2, <1>3 DEF Precedes
<1>4. CASE list = "history"
  <2>1. last.table # "roster" /\ last # x
    BY <1>1, <1>4, OneDirection, PlaceFacts
  <2>2. x.at <= last.at /\ Millisecond(last.at) # Millisecond(x.at)
    BY <1>1, <1>4, <2>1 DEF Precedes, Alone
  <2>3. Millisecond(last.at) \in Nat /\ ~(Millisecond(last.at) <= x.at)
    BY <1>1, <2>2, Milliseconds
  <2> QED  BY <1>1, <1>2, <1>4, <2>1, <2>3 DEF Precedes
<1> QED  BY <1>3, <1>4

-----------------------------------------------------------------------------
(* A page *)

PositionTable == [Tables -> PositionRow \cup {NoPosition}]

\* The row is still to come.
ToCome(e, filter, position) == Matches(e, filter) /\ Beyond(e, position[e.table])

\* The row was passed.
Passed(e, position) == position[e.table] # NoPosition /\ NotAfter(e, position[e.table])

OwnTables(position) == \A t \in Tables : position[t] # NoPosition => position[t] \in PositionRow /\ position[t].table = t

\* What is put on a page: the first of the rows to come, in order.
GoodPage(filter, position, seq, more) ==
    /\ seq \in Seq(rows) /\ IsInjective(seq)
    /\ \A i, j \in DOMAIN seq : i < j => Precedes(seq[i], seq[j])
    /\ \A e \in ToSet(seq) : ToCome(e, filter, position)
    /\ \A e \in ToSet(seq), x \in rows \ ToSet(seq) : ToCome(x, filter, position) => Precedes(e, x)
    /\ ~more => \A x \in rows : ToCome(x, filter, position) => x \in ToSet(seq)

\* Where the next page starts: after this one, before the rows that are still to
\* come and alone.
GoodCursor(filter, position, seq, next) ==
    /\ next \in PositionTable /\ OwnTables(next)
    /\ \A e \in ToSet(seq) : Passed(e, next)
    /\ \A e \in ListRow : Passed(e, position) => Passed(e, next)
    /\ \A x \in rows \ ToSet(seq) : ToCome(x, filter, position) /\ Alone(x) => Beyond(x, next[x.table])

LEMMA PageIsGood ==
    ASSUME RowsKept, NEW filter, NEW limit \in Nat, NEW position
    PROVE  GoodPage(filter, position, Page(filter, limit, position).rows, Page(filter, limit, position).more)
<1> DEFINE M == {e \in rows : ToCome(e, filter, position)}
           gathered == UNION {ReadTable(t, position[t], filter, limit) : t \in Tables}
           page == FirstOf(gathered, limit)
<1>1. Ordered(M) /\ \A e \in M : e.table \in Tables
  <2>1. Ordered(M)
    BY RowsOrdered, OrderedPart
  <2> QED  BY <2>1, RowsArePlaced DEF RowsKept, Placed
<1>2. gathered = Merged(M, limit)
  <2>1. ASSUME NEW t \in Tables
        PROVE  {e \in rows : e.table = t /\ Matches(e, filter) /\ Beyond(e, position[t])} = {e \in M : e.table = t}
    BY DEF ToCome
  <2>2. \A t \in Tables : ReadTable(t, position[t], filter, limit) = FirstOf({e \in M : e.table = t}, limit + 1)
    BY <2>1 DEF ReadTable
  <2> HIDE DEF M
  <2> QED  BY <2>2 DEF Merged
<1> HIDE DEF M, gathered
<1>3. /\ page \subseteq M /\ Ordered(gathered) /\ gathered \subseteq M
      /\ \A e \in page, x \in M \ page : Precedes(e, x)
      /\ ~(Cardinality(gathered) > limit) => page = M
  BY <1>1, <1>2, MergedPage
<1>4. Page(filter, limit, position).rows = InOrder(page) /\ Page(filter, limit, position).more = (Cardinality(gathered) > limit)
  BY DEF Page, gathered
<1>5. Ordered(page)
  BY <1>3, OrderedPart DEF FirstOf
<1> HIDE DEF page
<1>6. /\ InOrder(page) \in Seq(page) /\ ToSet(InOrder(page)) = page /\ IsInjective(InOrder(page))
      /\ \A i, j \in DOMAIN InOrder(page) : i < j => Precedes(InOrder(page)[i], InOrder(page)[j])
  BY <1>5, OrderedSeq
<1>7. InOrder(page) \in Seq(rows)
  BY <1>3, <1>6 DEF M
<1>8. GoodPage(filter, position, InOrder(page), Cardinality(gathered) > limit)
  BY <1>3, <1>6, <1>7 DEF GoodPage, M
<1> QED  BY <1>4, <1>8

LEMMA CursorIsGood ==
    ASSUME RowsKept, NEW filter, NEW limit \in Nat, NEW position \in PositionTable, OwnTables(position)
    PROVE  GoodCursor(filter, position, Page(filter, limit, position).rows, Page(filter, limit, position).next)
<1> DEFINE gathered == UNION {ReadTable(t, position[t], filter, limit) : t \in Tables}
           page == FirstOf(gathered, limit)
           next == NextCursor(page, position)
           seq == Page(filter, limit, position).rows
           own(t) == {e \in page : e.table = t}
           last(t) == CHOOSE e \in own(t) : \A x \in own(t) : x = e \/ Precedes(x, e)
<1>1. Page(filter, limit, position).next = next /\ seq = InOrder(page)
  BY DEF Page
<1>2. GoodPage(filter, position, seq, Page(filter, limit, position).more)
  BY PageIsGood
<1>3. page \subseteq rows
  BY DEF FirstOf, ReadTable
<1>4. Ordered(page)
  BY <1>3, RowsOrdered, OrderedPart
<1> HIDE DEF page, seq, gathered
<1>5. ToSet(seq) = page
  BY <1>1, <1>4, OrderedSeq
<1>6. ASSUME NEW t \in Tables, own(t) # {}
      PROVE  /\ last(t) \in own(t) /\ \A x \in own(t) : x = last(t) \/ Precedes(x, last(t))
             /\ next[t] = CursorAt(t, last(t))
  <2>1. Ordered(own(t))
    BY <1>4, OrderedPart
  <2>2. \E e \in own(t) : \A x \in own(t) : x = e \/ Precedes(x, e)
    BY <1>6, <2>1, LastRow
  <2>3. last(t) \in own(t) /\ \A x \in own(t) : x = last(t) \/ Precedes(x, last(t))
    BY <2>2
  <2>4. next[t] = CursorAt(t, last(t))
    BY <1>6 DEF NextCursor, CursorAt
  <2> QED  BY <2>3, <2>4
<1>7. ASSUME NEW t \in Tables, own(t) = {}  PROVE next[t] = position[t]
  BY <1>7 DEF NextCursor
<1>8. next = [t \in Tables |-> next[t]]
  BY DEF NextCursor
<1> HIDE DEF last, next
<1>9. ASSUME NEW t \in Tables
      PROVE  /\ next[t] \in PositionRow \cup {NoPosition}
             /\ next[t] # NoPosition => next[t] \in PositionRow /\ next[t].table = t
  <2>1. CASE own(t) = {}
    BY <1>7, <2>1 DEF PositionTable, OwnTables
  <2>2. CASE own(t) # {}
    <3>1. last(t) \in ListRow /\ last(t).table = t
      BY <1>3, <1>6, <2>2 DEF RowsKept
    <3> QED  BY <1>6, <2>2, <3>1, CursorPlaced
  <2> QED  BY <2>1, <2>2
<1>10. next \in PositionTable /\ OwnTables(next)
  BY <1>8, <1>9 DEF PositionTable, OwnTables
<1>11. \A e \in ListRow : e.table \in Tables /\ Placed(e)
  BY RowsArePlaced DEF Placed
\* The last row of a table on the page has been passed, and so have those before.
<1>12. ASSUME NEW e \in page  PROVE Passed(e, next)
  <2> DEFINE t == e.table
  <2>1. e \in ListRow /\ t \in Tables /\ e \in own(t)
    BY <1>3, <1>11 DEF RowsKept
  <2>2. /\ last(t) \in ListRow /\ last(t).table = t /\ next[t] = CursorAt(t, last(t))
        /\ e = last(t) \/ Precedes(e, last(t))
    BY <1>3, <1>6, <2>1 DEF RowsKept
  <2>3. next[t] \in PositionRow /\ NotAfter(last(t), next[t])
    BY <2>2, CursorPlaced
  <2>4. Placed(e) /\ Placed(last(t)) /\ Placed(next[t]) /\ next[t] # NoPosition
    BY <1>11, <2>1, <2>2, <2>3, RowsArePlaced
  <2>5. NotAfter(e, next[t])
    BY <2>2, <2>3, <2>4, PlaceFacts
  <2> QED  BY <2>4, <2>5 DEF Passed
<1>13. ASSUME NEW e \in ListRow, Passed(e, position)  PROVE Passed(e, next)
  <2> DEFINE t == e.table
  <2>1. t \in Tables /\ Placed(e)
    BY <1>11
  <2>2. CASE own(t) = {}
    BY <1>7, <1>13, <2>1, <2>2 DEF Passed
  <2>3. CASE own(t) # {}
    <3>1. /\ last(t) \in page /\ last(t) \in ListRow /\ last(t).table = t /\ next[t] = CursorAt(t, last(t))
      BY <1>3, <1>6, <2>1, <2>3 DEF RowsKept
    <3>2. ToCome(last(t), filter, position)
      BY <1>2, <1>5, <3>1 DEF GoodPage
    <3>3. position[t] # NoPosition /\ NotAfter(e, position[t]) /\ Precedes(position[t], last(t))
      BY <1>13, <3>1, <3>2 DEF Passed, ToCome, Beyond
    <3>4. position[t] \in PositionRow
      BY <2>1, <3>3 DEF OwnTables
    <3>5. next[t] \in PositionRow /\ NotAfter(last(t), next[t])
      BY <3>1, CursorPlaced
    <3>6. Placed(last(t)) /\ Placed(position[t]) /\ Placed(next[t]) /\ next[t] # NoPosition
      BY <1>11, <3>1, <3>4, <3>5, RowsArePlaced
    <3>7. NotAfter(e, last(t))
      BY <2>1, <3>3, <3>6, PlaceFacts
    <3>8. NotAfter(e, next[t])
      BY <2>1, <3>5, <3>6, <3>7, PlaceFacts
    <3> QED  BY <3>6, <3>8 DEF Passed
  <2> QED  BY <2>2, <2>3
<1>14. ASSUME NEW x \in rows \ page, ToCome(x, filter, position), Alone(x)  PROVE Beyond(x, next[x.table])
  <2> DEFINE t == x.table
  <2>1. t \in Tables
    BY <1>11 DEF RowsKept
  <2>2. CASE own(t) = {}
    BY <1>7, <1>14, <2>1, <2>2 DEF ToCome
  <2>3. CASE own(t) # {}
    <3>1. last(t) \in page /\ last(t) \in rows /\ last(t).table = t /\ next[t] = CursorAt(t, last(t))
      BY <1>3, <1>6, <2>1, <2>3
    <3>2. Precedes(last(t), x)
      BY <1>2, <1>5, <1>14, <3>1 DEF GoodPage
    <3> QED  BY <1>14, <3>1, <3>2, CursorPrecedes DEF Beyond
  <2> QED  BY <2>2, <2>3
<1>15. GoodCursor(filter, position, seq, next)
  BY <1>5, <1>10, <1>12, <1>13, <1>14 DEF GoodCursor
<1> QED  BY <1>1, <1>15 DEF seq

-----------------------------------------------------------------------------
(* The reader *)

ReadingRow ==
    [filter : Topics \cup {AllTopics}, shown : Seq(ListRow), position : PositionTable, more : BOOLEAN, known : SUBSET ListRow]

\* What was shown was passed, and what is owed is still to come.
ReaderKept ==
    /\ reading \in ReadingRow /\ OwnTables(reading.position)
    /\ reading.known \subseteq rows
    /\ IsInjective(reading.shown)
    /\ \A e \in ToSet(reading.shown) : Passed(e, reading.position) /\ Matches(e, reading.filter)
    /\ \A x \in Owed : Beyond(x, reading.position[x.table])

ListingsInv == RowsKept /\ ReaderKept

LEMMA OwedFields ==
    ASSUME reading.known \subseteq rows, NEW x
    PROVE  x \in Owed <=> /\ x \in reading.known /\ x \notin ToSet(reading.shown)
                          /\ Matches(x, reading.filter) /\ Alone(x)
BY DEF Owed, Alone, Crowded

LEMMA ListingsBegin == ListingsInit => ListingsInv /\ Promise!ReadingInit
<1> SUFFICES ASSUME ListingsInit  PROVE ListingsInv /\ Promise!ReadingInit
  OBVIOUS
<1>1. RowsKept
  BY FS_EmptySet, ListingsAssumption DEF ListingsInit, RowsKept
<1>2. /\ reading.filter = AllTopics /\ reading.shown = << >> /\ reading.known = {} /\ ~reading.more
      /\ reading.position = [t \in Tables |-> NoPosition]
  BY DEF ListingsInit
<1>3. reading \in ReadingRow
  <2>1. [t \in Tables |-> NoPosition] \in PositionTable
    BY DEF PositionTable
  <2>2. << >> \in Seq(ListRow)
    OBVIOUS
  <2> QED  BY <2>1, <2>2, Zenon DEF ListingsInit, ReadingRow
<1>4. ToSet(reading.shown) = {} /\ IsInjective(reading.shown) /\ Owed = {}
  <2>1. DOMAIN reading.shown = {}
    BY <1>2
  <2> QED  BY <1>2, <2>1 DEF ToSet, IsInjective, Owed
<1>5. OwnTables(reading.position)
  BY <1>2 DEF OwnTables
<1>6. ReaderKept
  BY <1>2, <1>3, <1>4, <1>5 DEF ReaderKept
<1> QED  BY <1>1, <1>2, <1>4, <1>6 DEF ListingsInv, Promise!ReadingInit

\* The same of the next state.
LEMMA OwedAfter ==
    ASSUME reading'.known \subseteq rows', list' = list, NEW x \in Owed'
    PROVE  /\ x \in reading'.known /\ x \notin ToSet(reading'.shown) /\ Matches(x, reading'.filter)
           /\ list = "history" => \A y \in rows' : y # x => Millisecond(y.at) # Millisecond(x.at)
BY DEF Owed, Crowded

LEMMA OwedLater ==
    ASSUME list' = list, NEW x \in reading'.known, x \notin ToSet(reading'.shown), Matches(x, reading'.filter),
           list = "history" => \A y \in rows' : y # x => Millisecond(y.at) # Millisecond(x.at)
    PROVE  x \in Owed'
BY DEF Owed, Crowded

\* Who writes shows nothing, and takes from what is owed.
LEMMA WriterKeeps ==
    ASSUME ListingsInv, RowsKept', list' = list, NEW known \in SUBSET reading.known, known \subseteq rows',
           reading' = [reading EXCEPT !.known = known],
           list = "history" => rows \subseteq rows'
    PROVE  ListingsInv' /\ Promise!Write
<1>1. reading \in ReadingRow /\ known \in SUBSET ListRow
  BY DEF ListingsInv, ReaderKept, ReadingRow
<1>2. /\ reading'.filter = reading.filter /\ reading'.shown = reading.shown /\ reading'.position = reading.position
      /\ reading'.known = known
  BY <1>1 DEF ReadingRow
<1>3. reading'.more = reading.more
  BY <1>1, Zenon DEF ReadingRow
<1>4. reading' \in ReadingRow
  BY <1>1, Zenon DEF ReadingRow
<1>5. ListRow' = ListRow /\ PositionRow' = PositionRow /\ PositionTable' = PositionTable /\ Tables' = Tables /\ ReadingRow' = ReadingRow
  BY DEF ListRow, PositionRow, PositionTable, Tables, ReadingRow
<1>6. Owed' \subseteq Owed
  <2>1. ASSUME NEW x \in Owed'  PROVE x \in Owed
    <3>1. /\ x \in known /\ x \notin ToSet(reading.shown) /\ Matches(x, reading.filter)
          /\ list = "history" => \A y \in rows' : y # x => Millisecond(y.at) # Millisecond(x.at)
      BY <1>2, OwedAfter
    <3>2. Alone(x)
      BY <3>1 DEF Alone
    <3> QED  BY <3>1, <3>2, OwedFields DEF ListingsInv, ReaderKept
  <2> QED  BY <2>1
<1>7. ReaderKept'
  <2>2. \A x \in Owed' : Beyond(x, reading'.position[x.table])
    BY <1>2, <1>6 DEF ListingsInv, ReaderKept
  <2>3. \A e \in ToSet(reading'.shown) : Passed(e, reading'.position) /\ Matches(e, reading'.filter)
    BY <1>2 DEF ListingsInv, ReaderKept
  <2>4. IsInjective(reading'.shown)
    BY <1>2 DEF ListingsInv, ReaderKept
  <2>5. \A t \in Tables : reading'.position[t] # NoPosition =>
          reading'.position[t] \in PositionRow /\ reading'.position[t].table = t
    BY <1>2 DEF ListingsInv, ReaderKept, OwnTables
  <2> QED  BY <1>2, <1>4, <1>5, <2>2, <2>3, <2>4, <2>5 DEF ReaderKept, OwnTables, Passed
<1> QED  BY <1>2, <1>3, <1>6, <1>7 DEF ListingsInv, Promise!Write

LEMMA WritesKeep ==
    ASSUME ListingsInv,
           \/ \E table \in Tables, at \in 0 .. LastTick, id \in 1 .. MaxRows, topic \in Topics : Insert(table, at, id, topic)
           \/ \E e \in uncommitted : CommitRow(e)
           \/ \E e \in rows, name \in 0 .. LastTick : Rename(e, name)
           \/ ClockTicks
    PROVE  ListingsInv' /\ Promise!Write
<1>1. RowsKept /\ ReaderKept /\ reading \in ReadingRow /\ reading.known \subseteq rows
  BY DEF ListingsInv, ReaderKept
<1>2. reading = [reading EXCEPT !.known = reading.known]
  BY <1>1, Zenon DEF ReadingRow
<1>3. list' = list
  BY DEF Insert, CommitRow, Rename, ClockTicks
<1>4. ListRow' = ListRow
  BY <1>3 DEF ListRow, Tables
<1>5. CASE \E table \in Tables, at \in 0 .. LastTick, id \in 1 .. MaxRows, topic \in Topics : Insert(table, at, id, topic)
  <2>1. PICK table \in Tables, at \in 0 .. LastTick, id \in 1 .. MaxRows, topic \in Topics : Insert(table, at, id, topic)
    BY <1>5
  <2> DEFINE row == [table |-> table, at |-> at, id |-> id, topic |-> topic]
  <2>2. row \in ListRow /\ row.id = id
    BY DEF ListRow
  <2>3. uncommitted' = uncommitted \cup {row} /\ UNCHANGED <<tick, rows, reading>> /\ \A e \in rows \cup uncommitted : e.id # id
    BY <2>1 DEF Insert
  <2> HIDE DEF row
  <2>4. RowsKept'
    BY <1>1, <1>3, <1>4, <2>2, <2>3 DEF RowsKept
  <2> QED  BY <1>1, <1>2, <1>3, <2>3, <2>4, WriterKeeps
<1>6. CASE \E e \in uncommitted : CommitRow(e)
  <2>1. PICK e \in uncommitted : CommitRow(e)
    BY <1>6
  <2>2. uncommitted' = uncommitted \ {e} /\ rows' = rows \cup {e} /\ UNCHANGED <<tick, reading>>
    BY <2>1 DEF CommitRow
  <2>3. IsFiniteSet(rows')
    BY <1>1, <2>2, FS_AddElement DEF RowsKept
  <2>4. RowsKept'
    BY <1>1, <1>3, <1>4, <2>2, <2>3 DEF RowsKept
  <2> QED  BY <1>1, <1>2, <1>3, <2>2, <2>4, WriterKeeps
<1>7. CASE \E e \in rows, name \in 0 .. LastTick : Rename(e, name)
  <2>1. PICK e \in rows, name \in 0 .. LastTick : Rename(e, name)
    BY <1>7
  <2>2. PICK row \in ListRow : row = [e EXCEPT !.at = name]
    BY <1>1, <2>1 DEF RowsKept, ListRow
  <2>3. row.id = e.id
    BY <1>1, <2>1, <2>2 DEF RowsKept, ListRow
  <2>4. /\ rows' = (rows \ {e}) \cup {row} /\ reading' = [reading EXCEPT !.known = reading.known \ {e}]
        /\ UNCHANGED <<tick, uncommitted>> /\ list = "roster"
    <3>1. reading' = [reading EXCEPT !.known = @ \ {e}]
      BY <2>1 DEF Rename
    <3> QED  BY <2>1, <2>2, <3>1 DEF Rename
  <2>5. IsFiniteSet(rows')
    BY <1>1, <2>4, FS_AddElement, FS_RemoveElement DEF RowsKept
  <2>6. RowsKept'
    <3>1. rows' \subseteq ListRow
      BY <1>1, <2>4 DEF RowsKept
    <3>2. ASSUME NEW a \in rows' \cup uncommitted, NEW b \in rows' \cup uncommitted, a.id = b.id
          PROVE  a = b
      <4>1. \A x \in rows \cup uncommitted : x # e => x.id # e.id
        BY <1>1, <2>1 DEF RowsKept
      <4>2. CASE a = row \/ b = row
        BY <1>1, <2>1, <2>3, <2>4, <3>2, <4>1, <4>2 DEF RowsKept
      <4>3. CASE a # row /\ b # row
        BY <1>1, <2>4, <3>2, <4>3 DEF RowsKept
      <4> QED  BY <4>2, <4>3
    <3>3. rows' \cap uncommitted = {}
      <4>1. \A x \in uncommitted : x.id # e.id
        BY <1>1, <2>1 DEF RowsKept
      <4> QED  BY <1>1, <2>3, <2>4, <4>1 DEF RowsKept
    <3> QED  BY <1>1, <1>3, <1>4, <2>4, <2>5, <3>1, <3>2, <3>3 DEF RowsKept
  <2>7. reading.known \ {e} \subseteq reading.known /\ reading.known \ {e} \subseteq rows'
    BY <1>1, <2>4
  <2> QED  BY <1>3, <2>4, <2>6, <2>7, WriterKeeps
<1>8. CASE ClockTicks
  <2>1. UNCHANGED <<rows, uncommitted, reading>> /\ tick' \in 0 .. LastTick
    BY <1>1, <1>8, ListingsAssumption DEF ClockTicks, RowsKept
  <2>2. RowsKept'
    BY <1>1, <1>3, <1>4, <2>1 DEF RowsKept
  <2> QED  BY <1>1, <1>2, <1>3, <2>1, <2>2, WriterKeeps
<1> QED  BY <1>5, <1>6, <1>7, <1>8

\* A page is asked for from the start.
LEMMA FirstPageKeeps ==
    ASSUME ListingsInv, NEW filter \in Topics \cup {AllTopics}, NEW limit \in Nat, FirstPage(filter, limit)
    PROVE  ListingsInv' /\ Promise!Begin
<1> DEFINE none == [t \in Tables |-> NoPosition]
           page == Page(filter, limit, none)
           seq == page.rows
           next == page.next
           all == {e \in rows : Matches(e, filter)}
<1>1. /\ reading' = [filter |-> filter, shown |-> seq, position |-> next, more |-> page.more, known |-> all]
      /\ UNCHANGED <<list, tick, uncommitted, rows>>
  BY DEF FirstPage
<1>2. RowsKept /\ none \in PositionTable /\ OwnTables(none)
  BY DEF ListingsInv, PositionTable, OwnTables
<1>3. GoodPage(filter, none, seq, page.more)
  BY <1>2, PageIsGood
<1>4. GoodCursor(filter, none, seq, next)
  BY <1>2, CursorIsGood
<1>5. page.more \in BOOLEAN
  BY DEF Page
<1>6. \A e \in rows : ToCome(e, filter, none) <=> Matches(e, filter)
  <2>1. \A e \in rows : e.table \in Tables
    BY <1>2, RowsArePlaced DEF RowsKept, Placed
  <2> QED  BY <2>1 DEF ToCome, Beyond
<1> HIDE DEF none, page, next, seq
<1>7. reading'.filter = filter /\ reading'.shown = seq /\ reading'.position = next /\ reading'.known = all
  BY <1>1
<1>8. reading'.more = page.more
  BY <1>1, Zenon
<1>9. RowsKept' /\ ListRow' = ListRow /\ PositionRow' = PositionRow /\ PositionTable' = PositionTable
      /\ Tables' = Tables /\ ReadingRow' = ReadingRow
  BY <1>1, <1>2 DEF RowsKept, ListRow, PositionRow, PositionTable, Tables, ReadingRow
<1>10. reading' \in ReadingRow
  <2>1. seq \in Seq(ListRow) /\ all \in SUBSET ListRow /\ next \in PositionTable
    BY <1>2, <1>3, <1>4 DEF GoodPage, GoodCursor, RowsKept
  <2> HIDE DEF all
  <2> QED  BY <1>1, <1>5, <2>1, Zenon DEF ReadingRow
<1>11. ASSUME NEW x \in Owed'
       PROVE  x \in rows \ ToSet(seq) /\ ToCome(x, filter, none) /\ Alone(x)
  <2>1. /\ x \in all /\ x \notin ToSet(seq)
        /\ list = "history" => \A y \in rows : y # x => Millisecond(y.at) # Millisecond(x.at)
    BY <1>1, <1>7, OwedAfter
  <2> QED  BY <1>6, <2>1 DEF Alone
<1>12. ReaderKept'
  <2>1. \A e \in ToSet(seq) : Passed(e, next) /\ Matches(e, filter)
    BY <1>3, <1>4 DEF GoodPage, GoodCursor, ToCome
  <2>2. \A x \in Owed' : Beyond(x, next[x.table])
    BY <1>4, <1>11 DEF GoodCursor
  <2>3. \A t \in Tables : next[t] # NoPosition => next[t] \in PositionRow /\ next[t].table = t
    BY <1>4 DEF GoodCursor, OwnTables
  <2>4. IsInjective(seq)
    BY <1>3 DEF GoodPage
  <2> QED  BY <1>1, <1>7, <1>9, <1>10, <2>1, <2>2, <2>3, <2>4 DEF ReaderKept, OwnTables
<1>13. Promise!Begin
  <2>1. ToSet(seq) \subseteq rows
    BY <1>3 DEF GoodPage, ToSet
  <2>2. \A x \in Owed' : x \notin ToSet(seq)
    BY <1>11
  <2>3. \A e \in ToSet(seq), x \in Owed' : Precedes(e, x)
    BY <1>3, <1>11 DEF GoodPage
  <2>4. ~page.more => Owed' = {}
    BY <1>3, <1>11 DEF GoodPage
  <2>5. IsInjective(seq) /\ \A i, j \in DOMAIN seq : i < j => Precedes(seq[i], seq[j])
    BY <1>3 DEF GoodPage
  <2>6. \A i \in DOMAIN seq : seq[i] \in ToSet(seq)
    BY DEF ToSet
  <2> DEFINE before == Owed' \cup ToSet(seq)
  <2>7. Owed' = before \ ToSet(seq)
    BY <2>2
  <2>8. \A e \in before \cap ToSet(seq), x \in Owed' : Precedes(e, x)
    BY <2>3
  <2>9. \A i, j \in DOMAIN seq : i < j /\ seq[i] \in before /\ seq[j] \in before => Precedes(seq[i], seq[j])
    BY <2>5
  <2>10. (~reading.more)' => Owed' = {}
    BY <1>8, <2>4
  <2>11. Promise!InTurn(seq, before)
    BY <2>7, <2>8, <2>9, <2>10 DEF Promise!InTurn, Promise!ToSet, ToSet
  <2>12. Promise!InTurn(reading'.shown, Owed' \cup ToSet(reading'.shown))
    BY <1>7, <2>11
  <2> QED  BY <1>7, <2>5, <2>12 DEF Promise!Begin, Promise!IsInjective, IsInjective, Promise!ToSet, ToSet
<1> QED  BY <1>9, <1>12, <1>13 DEF ListingsInv

\* A sequence and what is added to it.
LEMMA Lengthened ==
    ASSUME NEW S, NEW s \in Seq(S), NEW t \in Seq(S)
    PROVE  s \o t \in Seq(S) /\ SubSeq(s \o t, Len(s) + 1, Len(s \o t)) = t
<1> DEFINE all == s \o t
           u == SubSeq(all, Len(s) + 1, Len(all))
<1>1. /\ all \in Seq(S) /\ Len(all) = Len(s) + Len(t) /\ Len(s) \in Nat /\ Len(t) \in Nat
      /\ \A i \in Len(s) + 1 .. Len(s) + Len(t) : all[i] = t[i - Len(s)]
  OBVIOUS
<1> HIDE DEF all
<1>2. u \in Seq(S) /\ Len(u) = Len(t)
  BY <1>1
<1>3. ASSUME NEW i \in 1 .. Len(t)  PROVE u[i] = t[i]
  <2>1. Len(s) + i \in Len(s) + 1 .. Len(s) + Len(t) /\ (Len(s) + i) - Len(s) = i
    BY <1>1
  <2>2. all[Len(s) + i] = t[i]
    BY <1>1, <2>1
  <2>3. u[i] = all[Len(s) + i]
    BY <1>1
  <2> QED  BY <2>2, <2>3
<1> HIDE DEF u
<1>4. u = t
  BY <1>2, <1>3, SeqEqual
<1> QED  BY <1>1, <1>4 DEF u, all

LEMMA LengthenedSet ==
    ASSUME NEW S, NEW s \in Seq(S), NEW t \in Seq(S), NEW e
    PROVE  e \in ToSet(s \o t) <=> e \in ToSet(s) \/ e \in ToSet(t)
<1> DEFINE all == s \o t
<1>1. /\ Len(s) \in Nat /\ Len(t) \in Nat
      /\ DOMAIN all = 1 .. Len(s) + Len(t) /\ DOMAIN s = 1 .. Len(s) /\ DOMAIN t = 1 .. Len(t)
      /\ \A i \in 1 .. Len(s) : all[i] = s[i]
      /\ \A i \in Len(s) + 1 .. Len(s) + Len(t) : all[i] = t[i - Len(s)]
  OBVIOUS
<1> HIDE DEF all
<1>2. ASSUME NEW i \in DOMAIN s  PROVE i \in DOMAIN all /\ all[i] = s[i]
  BY <1>1
<1>3. ASSUME NEW i \in DOMAIN t  PROVE Len(s) + i \in DOMAIN all /\ all[Len(s) + i] = t[i]
  BY <1>1
<1>4. ASSUME NEW i \in DOMAIN all
      PROVE  (i \in DOMAIN s /\ all[i] = s[i]) \/ (i - Len(s) \in DOMAIN t /\ all[i] = t[i - Len(s)])
  BY <1>1
<1>5. e \in ToSet(all) <=> e \in ToSet(s) \/ e \in ToSet(t)
  BY <1>2, <1>3, <1>4 DEF ToSet
<1> QED  BY <1>5 DEF all

LEMMA LengthenedApart ==
    ASSUME NEW S, NEW s \in Seq(S), NEW t \in Seq(S), IsInjective(s), IsInjective(t),
           \A e \in ToSet(s) : e \notin ToSet(t)
    PROVE  IsInjective(s \o t)
<1> DEFINE all == s \o t
<1>1. /\ Len(s) \in Nat /\ Len(t) \in Nat
      /\ DOMAIN all = 1 .. Len(s) + Len(t) /\ DOMAIN s = 1 .. Len(s) /\ DOMAIN t = 1 .. Len(t)
      /\ \A i \in 1 .. Len(s) : all[i] = s[i]
      /\ \A i \in Len(s) + 1 .. Len(s) + Len(t) : all[i] = t[i - Len(s)]
  OBVIOUS
<1> HIDE DEF all
<1>2. ASSUME NEW i \in DOMAIN all, NEW j \in DOMAIN all, all[i] = all[j]
      PROVE  i = j
  <2>1. ASSUME NEW k \in DOMAIN all
        PROVE  IF k <= Len(s) THEN k \in DOMAIN s /\ all[k] = s[k] ELSE k - Len(s) \in DOMAIN t /\ all[k] = t[k - Len(s)]
    BY <1>1
  <2>2. CASE i <= Len(s) /\ j <= Len(s)
    BY <1>2, <2>1, <2>2 DEF IsInjective
  <2>3. CASE ~(i <= Len(s)) /\ ~(j <= Len(s))
    <3>1. i - Len(s) = j - Len(s)
      BY <1>1, <1>2, <2>1, <2>3 DEF IsInjective
    <3> QED  BY <1>1, <3>1
  <2>4. ASSUME NEW k \in DOMAIN all
        PROVE  IF k <= Len(s) THEN all[k] \in ToSet(s) ELSE all[k] \in ToSet(t)
    BY <2>1 DEF ToSet
  <2>5. CASE (i <= Len(s)) # (j <= Len(s))
    BY <1>2, <2>4, <2>5
  <2> QED  BY <2>2, <2>3, <2>4, <2>5
<1>3. IsInjective(all)
  BY <1>2 DEF IsInjective
<1> QED  BY <1>3 DEF all

\* The next page is asked for.
LEMMA NextPageKeeps ==
    ASSUME ListingsInv, NEW filter \in Topics \cup {AllTopics}, NEW limit \in Nat, NextPage(filter, limit)
    PROVE  ListingsInv' /\ Promise!Continue
<1> DEFINE position == reading.position
           page == Page(filter, limit, position)
           seq == page.rows
           next == page.next
           old == reading.shown
           all == old \o seq
<1>1. /\ reading.more /\ filter = reading.filter
      /\ reading' = [reading EXCEPT !.filter = filter, !.shown = all, !.position = next, !.more = page.more]
      /\ UNCHANGED <<list, tick, uncommitted, rows>>
  <2>1. reading' = [reading EXCEPT !.filter = filter, !.shown = @ \o seq, !.position = next, !.more = page.more]
    BY DEF NextPage
  <2> QED  BY <2>1 DEF NextPage, SameFilter
<1>2. /\ RowsKept /\ ReaderKept /\ reading \in ReadingRow /\ position \in PositionTable /\ OwnTables(position)
      /\ reading.known \subseteq rows /\ old \in Seq(ListRow) /\ IsInjective(old)
  BY DEF ListingsInv, ReaderKept, ReadingRow
<1>3. GoodPage(filter, position, seq, page.more)
  BY <1>2, PageIsGood
<1>4. GoodCursor(filter, position, seq, next)
  BY <1>2, CursorIsGood
<1>5. page.more \in BOOLEAN
  BY DEF Page
<1>6. rows \subseteq ListRow
  BY <1>2 DEF RowsKept
<1>7. seq \in Seq(ListRow) /\ IsInjective(seq) /\ ToSet(seq) \subseteq rows
  BY <1>3, <1>6 DEF GoodPage, ToSet
<1>8. ToSet(old) \cap ToSet(seq) = {}
  <2>1. ASSUME NEW e \in ToSet(old), e \in ToSet(seq)  PROVE FALSE
    <3>1. Passed(e, position) /\ ToCome(e, filter, position)
      BY <1>2, <1>3, <2>1 DEF ReaderKept, GoodPage
    <3>2. e \in rows /\ e.table \in Tables
      BY <1>2, <1>7, <2>1, RowsArePlaced DEF RowsKept, Placed
    <3>3. position[e.table] # NoPosition /\ NotAfter(e, position[e.table]) /\ Precedes(position[e.table], e)
      BY <3>1 DEF Passed, ToCome, Beyond
    <3>4. Placed(e) /\ Placed(position[e.table])
      BY <1>2, <3>2, <3>3, RowsArePlaced DEF OwnTables, RowsKept
    <3> QED  BY <1>2, <3>3, <3>4, PlaceFacts
  <2> QED  BY <2>1
<1> HIDE DEF position, page, seq, next, old, all
<1>9. /\ all \in Seq(ListRow) /\ SubSeq(all, Len(old) + 1, Len(all)) = seq
      /\ ToSet(all) = ToSet(old) \cup ToSet(seq) /\ IsInjective(all)
  <2>1. old \in Seq(ListRow) /\ seq \in Seq(ListRow) /\ IsInjective(old) /\ IsInjective(seq)
    BY <1>2, <1>7 DEF old
  <2>2. \A e \in ToSet(old) : e \notin ToSet(seq)
    BY <1>8 DEF old
  <2>3. \A e : e \in ToSet(old \o seq) <=> e \in ToSet(old) \/ e \in ToSet(seq)
    BY <2>1, LengthenedSet
  <2>4. ToSet(old \o seq) = ToSet(old) \cup ToSet(seq)
    BY <2>3
  <2>5. old \o seq \in Seq(ListRow) /\ SubSeq(old \o seq, Len(old) + 1, Len(old \o seq)) = seq
    BY <2>1, Lengthened
  <2>6. IsInjective(old \o seq)
    BY <2>1, <2>2, LengthenedApart
  <2> QED  BY <2>4, <2>5, <2>6 DEF all
<1>10. /\ reading'.filter = filter /\ reading'.shown = all /\ reading'.position = next /\ reading'.known = reading.known
  BY <1>1, <1>2 DEF ReadingRow
<1>11. reading'.more = page.more
  BY <1>1, <1>2, Zenon DEF ReadingRow
<1>12. RowsKept' /\ ListRow' = ListRow /\ PositionRow' = PositionRow /\ PositionTable' = PositionTable
      /\ Tables' = Tables /\ ReadingRow' = ReadingRow
  BY <1>1, <1>2 DEF RowsKept, ListRow, PositionRow, PositionTable, Tables, ReadingRow
<1>13. reading' \in ReadingRow
  <2>1. next \in PositionTable
    BY <1>4 DEF GoodCursor
  <2> QED  BY <1>1, <1>2, <1>5, <1>9, <2>1, Zenon DEF ReadingRow
<1>14. ASSUME NEW x \in Owed'
       PROVE  x \in Owed /\ x \in rows \ ToSet(seq) /\ ToCome(x, filter, position) /\ Alone(x)
  <2>1. /\ x \in reading.known /\ x \notin ToSet(all) /\ Matches(x, filter)
        /\ list = "history" => \A y \in rows : y # x => Millisecond(y.at) # Millisecond(x.at)
    BY <1>1, <1>2, <1>10, OwedAfter
  <2>2. Alone(x)
    BY <2>1 DEF Alone
  <2>3. x \in Owed
    BY <1>1, <1>2, <1>9, <2>1, <2>2, OwedFields DEF old
  <2>4. Beyond(x, position[x.table])
    BY <1>2, <2>3 DEF ReaderKept, position
  <2> QED  BY <1>2, <1>9, <2>1, <2>2, <2>3, <2>4 DEF ToCome
<1>15. ASSUME NEW x \in Owed, x \notin ToSet(seq)  PROVE x \in Owed'
  <2>1. x \in reading.known /\ x \notin ToSet(old) /\ Matches(x, filter) /\ Alone(x)
    BY <1>1, <1>2, <1>15, OwedFields DEF old
  <2>2. x \notin ToSet(all)
    BY <1>9, <1>15, <2>1
  <2> QED  BY <1>1, <1>2, <1>10, <2>1, <2>2, OwedLater DEF Alone
<1>16. ReaderKept'
  <2>1. \A e \in ToSet(all) : Passed(e, next) /\ Matches(e, filter)
    <3>1. \A e \in ToSet(seq) : Passed(e, next) /\ Matches(e, filter)
      BY <1>3, <1>4 DEF GoodPage, GoodCursor, ToCome
    <3>2. \A e \in ToSet(old) : e \in ListRow /\ Passed(e, position) /\ Matches(e, filter)
      BY <1>1, <1>2 DEF ReaderKept, old, position, ToSet
    <3>3. \A e \in ToSet(old) : Passed(e, next)
      BY <1>4, <3>2 DEF GoodCursor
    <3> QED  BY <1>9, <3>1, <3>2, <3>3
  <2>2. \A x \in Owed' : Beyond(x, next[x.table])
    BY <1>4, <1>14 DEF GoodCursor
  <2>3. \A t \in Tables : next[t] # NoPosition => next[t] \in PositionRow /\ next[t].table = t
    BY <1>4 DEF GoodCursor, OwnTables
  <2> QED  BY <1>1, <1>2, <1>9, <1>10, <1>12, <1>13, <2>1, <2>2, <2>3 DEF ReaderKept, OwnTables
<1>17. Promise!Continue
  <2>1. Owed' = Owed \ ToSet(seq)
    BY <1>14, <1>15
  <2>2. ASSUME NEW e \in Owed  PROVE ToCome(e, filter, position)
    <3>1. Beyond(e, position[e.table])
      BY <1>2 DEF ReaderKept, position
    <3> QED  BY <1>1, <1>2, <3>1, OwedFields DEF ToCome
  <2>3. \A e \in ToSet(seq), x \in Owed' : Precedes(e, x)
    BY <1>3, <1>14 DEF GoodPage
  <2>4. ~page.more => Owed' = {}
    BY <1>3, <1>14 DEF GoodPage
  <2>5. \A i, j \in DOMAIN seq : i < j => Precedes(seq[i], seq[j])
    BY <1>3 DEF GoodPage
  <2>6. (~reading.more)' => Owed' = {}
    BY <1>11, <2>4
  <2>7. \A e \in Owed \cap ToSet(seq), x \in Owed' : Precedes(e, x)
    BY <2>3
  <2>8. \A i, j \in DOMAIN seq : i < j /\ seq[i] \in Owed /\ seq[j] \in Owed => Precedes(seq[i], seq[j])
    BY <2>5
  <2>9. Promise!InTurn(seq, Owed)
    BY <2>1, <2>6, <2>7, <2>8 DEF Promise!InTurn, Promise!ToSet, ToSet
  <2>10. Promise!PageOf(reading'.shown) = seq
    BY <1>9, <1>10 DEF Promise!PageOf, old
  <2>11. Promise!InTurn(Promise!PageOf(reading'.shown), Owed)
    BY <2>9, <2>10
  <2>12. reading'.shown = reading.shown \o Promise!PageOf(reading'.shown)
    BY <1>10, <2>10 DEF all, old
  <2> QED  BY <1>1, <1>9, <1>10, <2>11, <2>12 DEF Promise!Continue, Promise!IsInjective, IsInjective
<1> QED  BY <1>12, <1>16, <1>17 DEF ListingsInv

-----------------------------------------------------------------------------
(* The lists *)

LEMMA ListingsKeep ==
    ListingsInv /\ [ListingsNext]_listingsVars =>
      ListingsInv' /\ [Promise!ReadingNext]_<<reading.shown, Owed, ~reading.more>>
<1> SUFFICES ASSUME ListingsInv, [ListingsNext]_listingsVars
             PROVE  ListingsInv' /\ [Promise!ReadingNext]_<<reading.shown, Owed, ~reading.more>>
  OBVIOUS
<1>1. CASE \E filter \in Topics \cup {AllTopics}, limit \in PageSizes : FirstPage(filter, limit)
  BY <1>1, FirstPageKeeps, ListingsAssumption DEF Promise!ReadingNext
<1>2. CASE \E filter \in Topics \cup {AllTopics}, limit \in PageSizes : NextPage(filter, limit)
  BY <1>2, NextPageKeeps, ListingsAssumption DEF Promise!ReadingNext
<1>3. CASE \/ \E table \in Tables, at \in 0 .. LastTick, id \in 1 .. MaxRows, topic \in Topics : Insert(table, at, id, topic)
           \/ \E e \in uncommitted : CommitRow(e)
           \/ \E e \in rows, name \in 0 .. LastTick : Rename(e, name)
           \/ ClockTicks
  BY <1>3, WritesKeep DEF Promise!ReadingNext
<1>4. CASE UNCHANGED listingsVars
  <2>1. list' = list /\ tick' = tick /\ uncommitted' = uncommitted /\ rows' = rows /\ reading' = reading
    BY <1>4 DEF listingsVars
  <2>2. Owed' = Owed /\ Tables' = Tables
    BY <2>1 DEF Owed, Crowded, Tables
  <2>3. RowsKept' /\ ListRow' = ListRow /\ PositionRow' = PositionRow /\ PositionTable' = PositionTable /\ ReadingRow' = ReadingRow
    BY <2>1, <2>2 DEF ListingsInv, RowsKept, ListRow, PositionRow, PositionTable, ReadingRow
  <2>4. ReaderKept'
    BY <2>1, <2>2, <2>3 DEF ListingsInv, ReaderKept, OwnTables
  <2> QED  BY <2>1, <2>2, <2>3, <2>4 DEF ListingsInv
<1> QED  BY <1>1, <1>2, <1>3, <1>4 DEF ListingsNext

LEMMA ListingsTyped == ListingsInv => ListingsTypeOK /\ OneFilter
<1> SUFFICES ASSUME ListingsInv  PROVE ListingsTypeOK /\ OneFilter
  OBVIOUS
<1>1. /\ reading.filter \in Topics \cup {AllTopics} /\ reading.shown \in Seq(ListRow) /\ reading.position \in PositionTable
      /\ reading.known \subseteq ListRow
  BY DEF ListingsInv, ReaderKept, ReadingRow
<1>2. reading.more \in BOOLEAN
  BY Zenon DEF ListingsInv, ReaderKept, ReadingRow
<1>3. ToSet(reading.shown) \subseteq ListRow
  BY <1>1 DEF ToSet
<1>4. DOMAIN reading.position = Tables
  BY <1>1 DEF PositionTable
<1>5. OneFilter
  BY DEF ListingsInv, ReaderKept, OneFilter
<1> QED  BY <1>1, <1>2, <1>3, <1>4, <1>5 DEF ListingsInv, RowsKept, ListingsTypeOK, ListRow

\* The invariant holds in every reachable state (RowsKept: the rows are typed and
\* each has an id of its own; ReaderKept: what was shown was passed).
THEOREM ListingsInvariance == ListingsSpec => []ListingsInv
<1>1. ListingsInit => ListingsInv
  BY ListingsBegin
<1>2. ListingsInv /\ [ListingsNext]_listingsVars => ListingsInv'
  BY ListingsKeep
<1> QED  BY <1>1, <1>2, PTL DEF ListingsSpec

\* Every reading of a list, page by page and while others write, shows no row
\* twice, none of those it is owed out of turn, and leaves none out at the end
\* (AuditService.list, CommunicationService.list, CrmService.list, StudentsService.list).
THEOREM ListingsStaySafe == ListingsSpec => ListingsSafe
<1>1. ListingsInit => ListingsInv /\ Promise!ReadingInit
  BY ListingsBegin
<1>2. ListingsInv /\ [ListingsNext]_listingsVars =>
        ListingsInv' /\ [Promise!ReadingNext]_<<reading.shown, Owed, ~reading.more>>
  BY ListingsKeep
<1>3. ListingsInv => ListingsTypeOK /\ OneFilter
  BY ListingsTyped
<1> QED  BY <1>1, <1>2, <1>3, PTL DEF ListingsSpec, ListingsSafe, ReadingKept, Promise!ReadingSpec

=============================================================================
