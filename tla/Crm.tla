--------------------------------- MODULE Crm ---------------------------------
(***************************************************************************)
(* CrmService, CrmTrialsService and CrmConversionService: the life of a    *)
(* lead, its trial bookings, and the enrollments a booking and a           *)
(* conversion write through EnrollmentsService.                            *)
(*                                                                         *)
(* Booking, converting and losing lock the lead first; cancelling and the  *)
(* outcome lock the booking, and then its lead.  A command is two steps:   *)
(* its first lock with the checks under it, and the rest with its commit.  *)
(* Row locks are kept to the end.  Contacts, notes, follow-ups and         *)
(* guardians are left out; a class that is full or disabled and an         *)
(* inactive student are refusals (module Enrollments counts the places).   *)
(***************************************************************************)
EXTENDS LeadStatuses, Naturals, Sequences, FiniteSets

CONSTANTS
    Leads,
    Prospects,       \* the students a lead is, or becomes
    TrialSessions,
    TrialClassOf,    \* the class of each session
    Clerks,          \* connections
    Idle,            \* a connection without a command
    MaxTrials,       \* bound on trial bookings
    MaxPlaces        \* bound on enrollments

TrialClasses == {TrialClassOf[s] : s \in TrialSessions}

ASSUME CrmAssumption ==
    /\ MaxTrials \in Nat
    /\ MaxPlaces \in Nat
    /\ Idle \notin Clerks

VARIABLES
    leads,     \* [status, student, place]: the converted student and enrollment
    trials,    \* trial_bookings, oldest first
    places,    \* enrollments, oldest first
    lesson,    \* sessions: SCHEDULED or LOCKED (attendance final)
    clerk      \* the command of each connection

crmVars == <<leads, trials, places, lesson, clerk>>

TransitionAllowed(l, to) == leads[l].status \in LeadStatus /\ to \in LeadTransitions[leads[l].status]

-----------------------------------------------------------------------------
(* Rows *)

TrialsOf(l) == {t \in DOMAIN trials : trials[t].lead = l}

\* Mutation: a booking does not look for the active one.
NeverBooked(l) == {}

BookedOf(l) == {t \in TrialsOf(l) : trials[t].status = "BOOKED"}

Operational(p, c) ==
    {e \in DOMAIN places : places[e].student = p /\ places[e].class = c /\ places[e].status \in {"TRIAL", "ACTIVE"}}

\* Mutation: trials of the lead for whichever student.
AnyTrialPlaces(l, p) == {e \in {trials[t].place : t \in TrialsOf(l)} : places[e].status = "TRIAL"}

\* The TRIAL enrollments of a lead's bookings for student p.
TrialPlaces(l, p) ==
    {e \in {trials[t].place : t \in TrialsOf(l)} : places[e].status = "TRIAL" /\ places[e].student = p}

-----------------------------------------------------------------------------
(* Row locks *)

\* The commands that lock the lead first.
LeadFirst == {"book", "convert", "lost"}

\* Mutation: the lead is read without FOR UPDATE.
NotHeld(l, k) == TRUE

LeadFree(l, k) == \A j \in Clerks \ {k} : clerk[j] # Idle => ~(clerk[j].op \in LeadFirst /\ clerk[j].lead = l)

TrialFree(t, k) == \A j \in Clerks \ {k} : clerk[j] # Idle => ~(clerk[j].op \notin LeadFirst /\ clerk[j].trial = t)

Take(k, command) ==
    /\ clerk[k] = Idle
    /\ clerk' = [clerk EXCEPT ![k] = command]
    /\ UNCHANGED <<leads, trials, places, lesson>>

Settle(k) == clerk' = [clerk EXCEPT ![k] = Idle] /\ UNCHANGED lesson

Turn(l, status) == leads' = [leads EXCEPT ![l].status = status]

\* The enrollments es closed, each of which must be TRIAL or ACTIVE.
Withdrawn(es) == [e \in DOMAIN places |-> IF e \in es THEN [places[e] EXCEPT !.status = "WITHDRAWN"] ELSE places[e]]

CrmInit ==
    /\ leads = [l \in Leads |-> [status |-> "none", student |-> Idle, place |-> 0]]
    /\ trials = << >>
    /\ places = << >>
    /\ lesson = [s \in TrialSessions |-> "SCHEDULED"]
    /\ clerk = [k \in Clerks |-> Idle]

-----------------------------------------------------------------------------
(* Leads *)

CreateLead(l) ==
    /\ leads[l].status = "none"
    /\ Turn(l, "NEW")
    /\ UNCHANGED <<trials, places, lesson, clerk>>

\* contact and qualify: a booked lead may be qualified again.
SimpleTransition(l, to) ==
    /\ LeadFree(l, Idle)
    /\ TransitionAllowed(l, to)
    /\ Turn(l, to)
    /\ UNCHANGED <<trials, places, lesson, clerk>>

BeginLost(k, l) ==
    /\ LeadFree(l, k)
    /\ TransitionAllowed(l, "LOST")
    /\ Take(k, [op |-> "lost", lead |-> l, trial |-> 0,
                booked |-> BookedOf(l),
                trialling |-> {e \in {trials[t].place : t \in BookedOf(l)} : places[e].status = "TRIAL"}])

\* Mutation: the enrollments of the cancelled bookings are left.
KeptPlaces(command) == {}

\* What losing withdraws: as it was read, not locked.
LostPlaces(command) == command.trialling

\* Bookings that are being worked on are waited for.
Lost(k) ==
    /\ clerk[k] # Idle /\ clerk[k].op = "lost"
    /\ \A t \in clerk[k].booked : TrialFree(t, k)
    /\ \A e \in clerk[k].trialling : places[e].status \in {"TRIAL", "ACTIVE"}
    /\ Turn(clerk[k].lead, "LOST")
    /\ trials' = [t \in DOMAIN trials |->
                     IF t \in clerk[k].booked THEN [trials[t] EXCEPT !.status = "CANCELLED"] ELSE trials[t]]
    /\ places' = Withdrawn(LostPlaces(clerk[k]))
    /\ Settle(k)

-----------------------------------------------------------------------------
(* Trials *)

BeginBook(k, l) ==
    /\ LeadFree(l, k)
    /\ leads[l].status = "QUALIFIED"
    /\ BookedOf(l) = {}
    /\ Take(k, [op |-> "book", lead |-> l, trial |-> 0, booked |-> {}, trialling |-> {}])

\* The student is named, created, or the one of the lead's last booking.
Book(k, s, p) ==
    /\ clerk[k] # Idle /\ clerk[k].op = "book"
    /\ lesson[s] = "SCHEDULED"
    /\ Operational(p, TrialClassOf[s]) = {}
    /\ Len(trials) < MaxTrials /\ Len(places) < MaxPlaces
    /\ places' = Append(places, [student |-> p, class |-> TrialClassOf[s], status |-> "TRIAL", source |-> 0])
    /\ trials' = Append(trials, [lead |-> clerk[k].lead, session |-> s, student |-> p,
                                 place |-> Len(places) + 1, status |-> "BOOKED"])
    /\ Turn(clerk[k].lead, "TRIAL_BOOKED")
    /\ Settle(k)

BeginTrial(k, t, op) ==
    /\ trials[t].status = "BOOKED"
    /\ TrialFree(t, k)
    /\ Take(k, [op |-> op, lead |-> trials[t].lead, trial |-> t, booked |-> {}, trialling |-> {}])

CancelTrial(k) ==
    /\ clerk[k] # Idle /\ clerk[k].op = "cancel"
    /\ LeadFree(clerk[k].lead, k)
    /\ LET t == clerk[k].trial
           e == trials[t].place
       IN /\ trials' = [trials EXCEPT ![t].status = "CANCELLED"]
          /\ places' = Withdrawn({f \in {e} : places[f].status = "TRIAL"})
    /\ IF leads[clerk[k].lead].status = "TRIAL_BOOKED" THEN Turn(clerk[k].lead, "QUALIFIED") ELSE UNCHANGED leads
    /\ Settle(k)

\* Mutation: an outcome is recorded whatever became of the lead.
AnyLead(l, to) == TRUE

Concludes(l, to) == TransitionAllowed(l, to)

\* ENROLL, FOLLOW_UP or LOST, over attendance that is final; the trial's
\* enrollment stays as it is.
Outcome(k, to, attended) ==
    /\ clerk[k] # Idle /\ clerk[k].op = "outcome"
    /\ LeadFree(clerk[k].lead, k)
    /\ lesson[trials[clerk[k].trial].session] = "LOCKED"
    /\ to \in {"TRIAL_COMPLETED", "QUALIFIED", "LOST"}
    /\ Concludes(clerk[k].lead, to)
    /\ trials' = [trials EXCEPT ![clerk[k].trial].status = IF attended THEN "COMPLETED" ELSE "NO_SHOW"]
    /\ Turn(clerk[k].lead, to)
    /\ UNCHANGED places
    /\ Settle(k)

-----------------------------------------------------------------------------
(* Conversion *)

BeginConvert(k, l) ==
    /\ LeadFree(l, k)
    /\ leads[l].status \in {"QUALIFIED", "TRIAL_COMPLETED"}
    /\ Take(k, [op |-> "convert", lead |-> l, trial |-> 0, booked |-> {}, trialling |-> {}])

Won(k, p, e) ==
    /\ leads' = [leads EXCEPT ![clerk[k].lead] = [status |-> "WON", student |-> p, place |-> e]]
    /\ UNCHANGED trials
    /\ Settle(k)

\* The last TRIAL enrollment is promoted in its own class.
Promote(k, p, c, trial) ==
    /\ places[trial].class = c
    /\ places' = [places EXCEPT ![trial].status = "ACTIVE"]
    /\ Won(k, p, trial)

\* It is withdrawn, and the student enrolled from it elsewhere.
Reenroll(k, p, c, trial) ==
    /\ places[trial].class # c
    /\ Operational(p, c) = {}
    /\ Len(places) < MaxPlaces
    /\ places' = Append(Withdrawn({trial}), [student |-> p, class |-> c, status |-> "ACTIVE", source |-> trial])
    /\ Won(k, p, Len(places) + 1)

EnrollDirectly(k, p, c) ==
    /\ Operational(p, c) = {}
    /\ Len(places) < MaxPlaces
    /\ places' = Append(places, [student |-> p, class |-> c, status |-> "ACTIVE", source |-> 0])
    /\ Won(k, p, Len(places) + 1)

\* Mutation: the oldest trial enrollment is taken.
Oldest(es) == CHOOSE e \in es : \A f \in es : e <= f

Latest(es) == CHOOSE e \in es : \A f \in es : e >= f

Convert(k, p, c) ==
    /\ clerk[k] # Idle /\ clerk[k].op = "convert"
    /\ LET es == TrialPlaces(clerk[k].lead, p)
       IN \/ es # {} /\ (Promote(k, p, c, Latest(es)) \/ Reenroll(k, p, c, Latest(es)))
          \/ es = {} /\ EnrollDirectly(k, p, c)

-----------------------------------------------------------------------------

\* A refusal, a victim of deadlock detection, or a crash.
Abandon(k) ==
    /\ clerk[k] # Idle
    /\ UNCHANGED <<leads, trials, places>>
    /\ Settle(k)

\* Staff change enrollments as they do any other.
StaffTransition(e, to) ==
    /\ <<places[e].status, to>> \in {<<"TRIAL", "ACTIVE">>, <<"TRIAL", "WITHDRAWN">>, <<"ACTIVE", "WITHDRAWN">>}
    /\ places' = [places EXCEPT ![e].status = to]
    /\ UNCHANGED <<leads, trials, lesson, clerk>>

\* The session's attendance is finalised.  A session that is cancelled is one
\* that is not booked any more, nor ever final: bookings are not told.
FinalizeLesson(s) ==
    /\ lesson[s] = "SCHEDULED"
    /\ lesson' = [lesson EXCEPT ![s] = "LOCKED"]
    /\ UNCHANGED <<leads, trials, places, clerk>>

LeadStep ==
    \E l \in Leads :
        \/ CreateLead(l)
        \/ SimpleTransition(l, "CONTACTED")
        \/ SimpleTransition(l, "QUALIFIED")
        \/ \E k \in Clerks : BeginLost(k, l) \/ BeginBook(k, l) \/ BeginConvert(k, l)

ClerkStep ==
    \E k \in Clerks :
        \/ \E t \in DOMAIN trials : BeginTrial(k, t, "cancel") \/ BeginTrial(k, t, "outcome")
        \/ Lost(k)
        \/ CancelTrial(k)
        \/ \E to \in {"TRIAL_COMPLETED", "QUALIFIED", "LOST"}, attended \in BOOLEAN : Outcome(k, to, attended)
        \/ \E s \in TrialSessions, p \in Prospects : Book(k, s, p)
        \/ \E p \in Prospects, c \in TrialClasses : Convert(k, p, c)
        \/ Abandon(k)

CrmNext ==
    \/ LeadStep
    \/ ClerkStep
    \/ \E e \in DOMAIN places : StaffTransition(e, "ACTIVE") \/ StaffTransition(e, "WITHDRAWN")
    \/ \E s \in TrialSessions : FinalizeLesson(s)

CrmSpec == CrmInit /\ [][CrmNext]_crmVars

-----------------------------------------------------------------------------
(* Properties *)

\* Types; and a command works under a lock no other command has.
CrmTypeOK ==
    /\ \A l \in Leads : leads[l].status \in LeadStatus \cup {"none"}
    /\ \A l \in Leads : (leads[l].status = "WON") = (leads[l].place # 0)
    /\ \A e \in DOMAIN places :
        /\ places[e].student \in Prospects
        /\ places[e].status \in {"TRIAL", "ACTIVE", "WITHDRAWN"}
        /\ places[e].source < e
    /\ \A j, k \in Clerks : (j # k /\ clerk[j] # Idle /\ clerk[k] # Idle) =>
        /\ clerk[j].trial # 0 => clerk[j].trial # clerk[k].trial
        /\ (clerk[j].lead = clerk[k].lead) => (clerk[j].trial # 0 \/ clerk[k].trial # 0)

\* However bookings, cancellations, outcomes and losses overlap: a lead that
\* waits for a trial has exactly one booked; a lead that is lost, or was never
\* qualified, has none.  A booked lead that is qualified by hand keeps its
\* booking, and may be won with it.
BookedLeadHasTrial ==
    \A l \in Leads :
        LET booked == {t \in DOMAIN trials : trials[t].lead = l /\ trials[t].status = "BOOKED"}
        IN /\ Cardinality(booked) <= 1
           /\ leads[l].status = "TRIAL_BOOKED" => booked # {}
           /\ leads[l].status \in {"none", "NEW", "CONTACTED", "TRIAL_COMPLETED", "LOST"} => booked = {}

\* A cancelled trial gives its place in the class back.  (A trial concluded by
\* an outcome keeps it, also when the lead is lost.)
CancelledFreesPlace ==
    \A t \in DOMAIN trials : trials[t].status = "CANCELLED" => places[trials[t].place].status # "TRIAL"

\* A won lead has an enrollment of the student it became, and no other lead's.
WonIsEnrolled ==
    \A l \in Leads : leads[l].status = "WON" =>
        /\ places[leads[l].place].student = leads[l].student
        /\ \A m \in Leads \ {l} : leads[m].place # leads[l].place

\* A conversion ends the trial it follows: of the lead's bookings for that
\* student, the last one that was still on trial is promoted or withdrawn.
ConversionEndsTrial ==
    [][\A l \in Leads : (leads[l].status # "WON" /\ leads'[l].status = "WON") =>
        /\ places'[leads'[l].place].status = "ACTIVE"
        /\ \A t \in DOMAIN trials :
            (/\ trials[t].lead = l /\ trials[t].student = leads'[l].student /\ places[trials[t].place].status = "TRIAL"
             /\ \A u \in DOMAIN trials : (u > t /\ trials[u].lead = l /\ trials[u].student = trials[t].student)
                                            => places[trials[u].place].status # "TRIAL")
            => places'[trials[t].place].status # "TRIAL"]_crmVars

\* WON and LOST are final, and an outcome finds the lead where a trial leaves
\* it, or where staff qualified it by hand.
DoneIsFinal ==
    [][\A l \in Leads :
        /\ leads[l].status \in {"WON", "LOST"} => leads'[l] = leads[l]
        /\ leads'[l].status = "TRIAL_COMPLETED" => leads[l].status \in {"TRIAL_BOOKED", "TRIAL_COMPLETED"}]_crmVars


\* Leads, their trials and their places agree, and end once.
CrmSafe ==
    /\ [](CrmTypeOK /\ BookedLeadHasTrial /\ CancelledFreesPlace /\ WonIsEnrolled)
    /\ ConversionEndsTrial /\ DoneIsFinal

=============================================================================
