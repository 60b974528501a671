------------------------------ MODULE LeadPage ------------------------------
(***************************************************************************)
(* LeadDetailPage of the web client, in the browsers of several            *)
(* salespeople, over the commands of one lead on the server.  A page shows *)
(* the lead as it was last fetched; what it offers, and how its dialogs    *)
(* start, follow from that copy and from the duplicates it has fetched.    *)
(* Only an accepted command makes the page fetch again, and its answer can *)
(* be lost after it was carried out.                                       *)
(*                                                                         *)
(* Each command is one transaction under the lead's lock here (module Crm  *)
(* has their interleavings).  There is one class, with room; follow-ups    *)
(* and notes change nothing that is modelled but that the lead is open.    *)
(***************************************************************************)
EXTENDS LeadStatuses, Naturals, Sequences, FiniteSets

CONSTANTS
    Salespeople,
    NoView,        \* a page that has not fetched, a closed dialog
    MaxPeople,     \* bound on students
    MaxVisits      \* bound on trial bookings

ASSUME LeadPageAssumption == MaxPeople \in Nat \ {0} /\ MaxVisits \in Nat

VARIABLES
    file,      \* the lead on the server: [status, contact]
    visits,    \* its trial bookings: [status, session, student]
    people,    \* students with the lead's telephone or mail address: 1..people
    seats,     \* enrollments in the class: student -> NONE, TRIAL, ACTIVE, WITHDRAWN
    shown,     \* page: what it last fetched of the lead
    alike,     \* page: the STUDENT duplicates it last fetched
    form       \* page: the open dialog, [op, visit, choice, student]

leadPageVars == <<file, visits, people, seats, shown, alike, form>>

server == <<file, visits, people, seats>>

Pupils == 1..MaxPeople

-----------------------------------------------------------------------------
(* Fetching *)

\* get: the lead with its bookings.
Fetched == [status |-> file.status, visits |-> visits]

\* duplicates: those with the same contact, if the lead has any.
Candidates == IF file.contact THEN 1..people ELSE {}

Current(s) == shown[s] = Fetched

-----------------------------------------------------------------------------
(* What a page offers *)

LeadOpen(status) == status \notin {"WON", "LOST"}

BookedVisits(v) == {i \in DOMAIN v.visits : v.visits[i].status = "BOOKED"}

Command(op, i) == [op |-> op, visit |-> i]

\* Mutation: conversion is offered as long as the lead is open.
EagerButtons(v) ==
    LET on(op, statuses) == IF v.status \in statuses THEN {Command(op, 0)} ELSE {}
    IN on("convert", {"NEW", "CONTACTED", "QUALIFIED", "TRIAL_BOOKED", "TRIAL_COMPLETED"}) \cup on("contact", {"NEW"})

\* The header: each button for the statuses it is shown in.
LeadButtons(v) ==
    LET on(op, statuses) == IF v.status \in statuses THEN {Command(op, 0)} ELSE {}
    IN on("contact", {"NEW"}) \cup on("qualify", {"NEW", "CONTACTED"})
       \cup on("book", {"QUALIFIED"}) \cup on("convert", {"QUALIFIED", "TRIAL_COMPLETED"})
       \cup on("lost", {s \in LeadStatus : LeadOpen(s)}) \cup on("follow", {s \in LeadStatus : LeadOpen(s)})

\* Beside a booking: its outcome unless the session fell through.
VisitButtons(v) ==
    {Command("cancel", i) : i \in BookedVisits(v)}
    \cup {Command("outcome", i) : i \in {j \in BookedVisits(v) : v.visits[j].session # "CANCELLED"}}

NoteButton(v) == IF LeadOpen(v.status) THEN {Command("note", 0)} ELSE {}

Offered(v) == IF v = NoView THEN {} ELSE LeadButtons(v) \cup VisitButtons(v) \cup NoteButton(v)

-----------------------------------------------------------------------------
(* Dialogs.  contact, qualify, cancel and note are sent as they are clicked. *)

Immediate == {"contact", "qualify", "cancel", "note"}

Filled(command, choice, p) == [op |-> command.op, visit |-> command.visit, choice |-> choice, student |-> p]

FollowUpDialog(command) == Filled(command, "default", 0)
LostDialog(command) == Filled(command, "default", 0)
OutcomeDialog(command) == Filled(command, "default", 0)

\* A new student, unless one is picked.
TrialDialog(command) == Filled(command, "create", 0)

\* Likewise if the page knows of duplicates; else the server's default.
ConvertDialog(command, duplicates) == Filled(command, IF duplicates = {} THEN "default" ELSE "create", 0)

Opened(command, duplicates) ==
    CASE command.op = "book" -> TrialDialog(command)
      [] command.op = "convert" -> ConvertDialog(command, duplicates)
      [] command.op = "lost" -> LostDialog(command)
      [] command.op = "outcome" -> OutcomeDialog(command)
      [] command.op = "follow" -> FollowUpDialog(command)

\* The button is enabled.
Ready(f) == f.choice = "reuse" => f.student # 0

-----------------------------------------------------------------------------
(* The server *)

Allowed(status, to) == to \in LeadTransitions[status]

\* Mutation: the student of the first booking, or of none.
AnyDefault == 1..people

\* trialDefaults: the student of the last booking.
DefaultStudent == IF visits = << >> THEN {} ELSE {visits[Len(visits)].student}

\* ensureStudentAndGuardian: the named one, a new one, or the default; none
\* is a refusal.  Guardians are left out.
ChosenStudents(f) ==
    CASE f.choice = "reuse" -> {f.student}
      [] f.choice = "create" -> {people + 1} \cap Pupils
      [] f.choice = "default" -> DefaultStudent

\* Mutation: the row is not inserted.
NeverMade(p) == people

\* Mutation: the new student is made for a choice of an existing one too.
AlwaysMade(p) == IF people < MaxPeople THEN people + 1 ELSE people

\* materializeStudent, in the same transaction.
Materialized(p) == IF p > people THEN p ELSE people

\* Mutation: a conversion does not look at the status.
EveryStatus == LeadStatus

Convertible == {"QUALIFIED", "TRIAL_COMPLETED"}

Turned(status) == file' = [file EXCEPT !.status = status]

TrialStudents(vs) == {visits[i].student : i \in vs} \cap {p \in Pupils : seats[p] = "TRIAL"}

LeftSeats(ps) == [p \in Pupils |-> IF p \in ps THEN "WITHDRAWN" ELSE seats[p]]

BookTrial(f) ==
    /\ file.status = "QUALIFIED"
    /\ BookedVisits(Fetched) = {}
    /\ Len(visits) < MaxVisits
    /\ \E p \in ChosenStudents(f) :
        /\ seats[p] \notin {"TRIAL", "ACTIVE"}
        /\ people' = Materialized(p)
        /\ seats' = [seats EXCEPT ![p] = "TRIAL"]
        /\ visits' = Append(visits, [status |-> "BOOKED", session |-> "SCHEDULED", student |-> p])
    /\ Turned("TRIAL_BOOKED")

CancelVisit(f) ==
    /\ visits[f.visit].status = "BOOKED"
    /\ visits' = [visits EXCEPT ![f.visit].status = "CANCELLED"]
    /\ seats' = LeftSeats(TrialStudents({f.visit}))
    /\ IF file.status = "TRIAL_BOOKED" THEN Turned("QUALIFIED") ELSE UNCHANGED file
    /\ UNCHANGED people

\* Over attendance that is final.
RecordOutcome(f) ==
    /\ visits[f.visit].status = "BOOKED" /\ visits[f.visit].session = "LOCKED"
    /\ \E to \in {"TRIAL_COMPLETED", "QUALIFIED", "LOST"} : Allowed(file.status, to) /\ Turned(to)
    /\ visits' = [visits EXCEPT ![f.visit].status = "COMPLETED"]
    /\ UNCHANGED <<people, seats>>

LoseLead ==
    /\ Allowed(file.status, "LOST")
    /\ Turned("LOST")
    /\ visits' = [i \in DOMAIN visits |->
                     IF visits[i].status = "BOOKED" THEN [visits[i] EXCEPT !.status = "CANCELLED"] ELSE visits[i]]
    /\ seats' = LeftSeats(TrialStudents(BookedVisits(Fetched)))
    /\ UNCHANGED people

\* The student's trial is promoted, or the student enrolled.
ConvertLead(f) ==
    /\ file.status \in Convertible
    /\ \E p \in ChosenStudents(f) :
        /\ seats[p] = "TRIAL" => p \in TrialStudents(DOMAIN visits)
        /\ seats[p] # "ACTIVE"
        /\ people' = Materialized(p)
        /\ seats' = [seats EXCEPT ![p] = "ACTIVE"]
    /\ Turned("WON")
    /\ UNCHANGED visits

TurnLead(to) == Allowed(file.status, to) /\ Turned(to) /\ UNCHANGED <<visits, people, seats>>

\* update, with the date alone.
FollowUp == LeadOpen(file.status) /\ UNCHANGED server

AddNote == UNCHANGED server

Executed(f) ==
    CASE f.op = "contact" -> TurnLead("CONTACTED")
      [] f.op = "qualify" -> TurnLead("QUALIFIED")
      [] f.op = "follow" -> FollowUp
      [] f.op = "note" -> AddNote
      [] f.op = "lost" -> LoseLead
      [] f.op = "book" -> BookTrial(f)
      [] f.op = "cancel" -> CancelVisit(f)
      [] f.op = "outcome" -> RecordOutcome(f)
      [] f.op = "convert" -> ConvertLead(f)

-----------------------------------------------------------------------------
(* The pages *)

Closed == NoView

\* MaxVisits students at most are made for trials, one for a conversion.
LeadPageInit ==
    /\ \E c \in BOOLEAN : file = [status |-> "NEW", contact |-> c]
    /\ visits = << >>
    /\ people \in {0, 1}
    /\ seats = [p \in Pupils |-> "NONE"]
    /\ shown = [s \in Salespeople |-> NoView]
    /\ alike = [s \in Salespeople |-> {}]
    /\ form = [s \in Salespeople |-> Closed]

\* On mounting, on focus, on reconnecting.
Fetch(s) ==
    /\ shown' = [shown EXCEPT ![s] = Fetched]
    /\ UNCHANGED <<server, alike, form>>

\* Enabled on a lead that can be converted, and in the trial dialog.
FetchDuplicates(s) ==
    /\ shown[s] # NoView
    /\ shown[s].status \in {"QUALIFIED", "TRIAL_COMPLETED"} \/ (form[s] # Closed /\ form[s].op = "book")
    /\ alike' = [alike EXCEPT ![s] = Candidates]
    /\ UNCHANGED <<server, shown, form>>

OpenDialog(s) ==
    /\ form[s] = Closed
    /\ \E command \in Offered(shown[s]) :
        /\ command.op \notin Immediate
        /\ form' = [form EXCEPT ![s] = Opened(command, alike[s])]
    /\ UNCHANGED <<server, shown, alike>>

\* The choice is shown if there are duplicates.
Choose(s) ==
    /\ form[s] # Closed /\ form[s].op \in {"book", "convert"}
    /\ alike[s] # {}
    /\ \/ form' = [form EXCEPT ![s].choice = "create", ![s].student = 0]
       \/ \E p \in alike[s] : form' = [form EXCEPT ![s].choice = "reuse", ![s].student = p]
    /\ UNCHANGED <<server, shown, alike>>

CloseDialog(s) ==
    /\ form[s] # Closed
    /\ form' = [form EXCEPT ![s] = Closed]
    /\ UNCHANGED <<server, shown, alike>>

\* onSuccess: the lead is fetched again, and the dialog closed.
Succeed(s) ==
    /\ shown' = [shown EXCEPT ![s] = Fetched']
    /\ form' = [form EXCEPT ![s] = Closed]

\* onError is a toast: here the command was carried out and its answer lost.
\* (A refusal writes nothing, and leaves the page as it was.)
Fail(s) == UNCHANGED <<shown, form>>

\* A request and its answer; while it waits, the page is as if it were lost.
SendForm(s, f) ==
    /\ Executed(f)
    /\ Succeed(s) \/ Fail(s)
    /\ UNCHANGED alike

\* A dialog covers the buttons of the page.
Submit(s) ==
    \/ form[s] # Closed /\ Ready(form[s]) /\ SendForm(s, form[s])
    \/ /\ form[s] = Closed
       /\ \E command \in Offered(shown[s]) : command.op \in Immediate /\ SendForm(s, Filled(command, "default", 0))

\* The session of a booking is locked, cancelled or rescheduled.
SessionTurns(i, to) ==
    /\ visits[i].session = "SCHEDULED"
    /\ visits' = [visits EXCEPT ![i].session = to]
    /\ UNCHANGED <<file, people, seats, shown, alike, form>>

LeadPageNext ==
    \/ \E s \in Salespeople :
        \/ Fetch(s) \/ FetchDuplicates(s)
        \/ OpenDialog(s) \/ Choose(s) \/ CloseDialog(s) \/ Submit(s)
    \/ \E i \in DOMAIN visits, to \in {"LOCKED", "CANCELLED"} : SessionTurns(i, to)

LeadPageSpec == LeadPageInit /\ [][LeadPageNext]_leadPageVars

-----------------------------------------------------------------------------
(* Properties *)

Forms == [op : {"book", "convert", "lost", "outcome", "follow", "contact", "qualify", "cancel", "note"},
          visit : 0..MaxVisits, choice : {"default", "create", "reuse"}, student : 0..MaxPeople]

\* Types; and a dialog names a booking the lead has.
LeadPageTypeOK ==
    /\ file.status \in LeadStatus
    /\ people \in 0..MaxPeople
    /\ \A p \in Pupils : p > people => seats[p] = "NONE"
    /\ \A s \in Salespeople :
        /\ alike[s] \subseteq 1..people
        /\ form[s] # Closed => form[s] \in Forms /\ form[s].visit \in 0..Len(visits)

\* A page that is up to date offers nothing the server would refuse for the
\* state of the lead.  The exception is what a page that was not has done: the
\* qualify button of one that still shows NEW takes a lead whose trial is
\* booked back to QUALIFIED, where another trial is offered and refused.
OfferedIsAccepted ==
    \A s \in Salespeople : Current(s) => \A command \in Offered(shown[s]) :
        CASE command.op \in {"contact", "lost"} -> Allowed(file.status, IF command.op = "lost" THEN "LOST" ELSE "CONTACTED")
          [] command.op = "qualify" -> Allowed(file.status, "QUALIFIED")
          [] command.op = "convert" -> Allowed(file.status, "WON")
          [] command.op = "book" -> Allowed(file.status, "TRIAL_BOOKED")
          [] command.op \in {"cancel", "outcome"} -> visits[command.visit].status = "BOOKED"
          [] OTHER -> LeadOpen(file.status)

\* Whatever is clicked twice, on two pages, or again after an answer was lost:
\* the lead gives one active enrollment, and only when it is won.
ConvertedOnce ==
    /\ Cardinality({p \in Pupils : seats[p] = "ACTIVE"}) <= 1
    /\ (\E p \in Pupils : seats[p] = "ACTIVE") <=> file.status = "WON"

\* A student that a dialog made has a place: one of a trial, or the one the
\* lead was won with.
StudentsHaveVisits ==
    \A p \in 2..people : seats[p] = "ACTIVE" \/ \E i \in DOMAIN visits : visits[i].student = p

\* Left to the server, a conversion after a trial enrolls the trial's student.
DefaultKeepsStudent ==
    [][(/\ file.status # "WON" /\ file'.status = "WON"
        /\ \A s \in Salespeople : (form[s] # Closed /\ form[s].op = "convert") => form[s].choice = "default")
       => visits # << >> /\ seats'[visits[Len(visits)].student] = "ACTIVE"]_leadPageVars


\* What the page of a lead offers and does, in one.
LeadPageSafe ==
    /\ [](LeadPageTypeOK /\ OfferedIsAccepted /\ ConvertedOnce /\ StudentsHaveVisits)
    /\ DefaultKeepsStudent

\* docs/product/local-10-crm.md:91: on rebooking and conversion, the student
\* of the lead's trial is the default.  Refuted: the trial dialog starts with a
\* new student, and so does a conversion that finds the trial's student among
\* the duplicates; the trial's enrollment is then left beside the new one.
DialogKeepsStudent ==
    [][\A s \in Salespeople :
        (form[s] = Closed /\ form'[s] # Closed /\ form'[s].op \in {"book", "convert"} /\ shown[s].visits # << >>)
            => form'[s].choice = "default"]_leadPageVars

=============================================================================
