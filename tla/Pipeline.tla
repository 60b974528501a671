------------------------------ MODULE Pipeline ------------------------------
(***************************************************************************)
(* What the CRM report and the branch summary tell of the past: leads,     *)
(* their events and their trial bookings carry the beginning of the        *)
(* transaction that wrote them.  A command is one step, at its commit      *)
(* (module Crm has its locks and its enrollments).  It began earlier, but  *)
(* after the lead or the booking it names was committed, since the caller  *)
(* has its id from there.                                                  *)
(***************************************************************************)
EXTENDS LeadStatuses, Timeline, FiniteSets

CONSTANTS
    Inquiries,    \* identities of leads; bounds how many are created
    Tryouts,      \* identities of trial bookings
    Branches      \* preferred branches

VARIABLES
    inquiry,      \* leads: [status, branch, created, won, since]
    leadEvents,   \* lead_events: [lead, to, at]
    tryout        \* trial_bookings: [lead, status, booked, done, since]

pipelineVars == <<timeline, inquiry, leadEvents, tryout>>

PipelineInit ==
    /\ TimelineInit
    /\ inquiry = << >>
    /\ leadEvents = {}
    /\ tryout = << >>

\* Rows committed before c began.
Visible(c, rows) == {x \in DOMAIN rows : rows[x].since < began[c]}

\* The command of c commits: its rows, and an event that leaves the lead in status to.
CommitLead(c, l, row, to, bookings) ==
    /\ Ends(c)
    /\ inquiry' = Overlaid(RowOf(l, row), inquiry)
    /\ tryout' = Overlaid(bookings, tryout)
    /\ leadEvents' = leadEvents \cup {[lead |-> l, to |-> to, at |-> began[c]]}

\* The lead moves on, or stays as it is.
MoveLead(c, l, to, bookings) == CommitLead(c, l, [inquiry[l] EXCEPT !.status = to], to, bookings)

\* Mutation: a booking that is still to come is not looked for.
NoneBooked(l) == {}

BookedFor(l) == {t \in DOMAIN tryout : tryout[t].lead = l /\ tryout[t].status = "BOOKED"}

\* The bookings ts come to an end.
EndedTrials(c, ts, status) == [t \in ts |-> [tryout[t] EXCEPT !.status = status, !.done = began[c]]]

AllowedFrom(l, to) == to \in LeadTransitions[inquiry[l].status]

CreateInquiry(c) ==
    \E l \in Inquiries \ DOMAIN inquiry, b \in Branches :
        CommitLead(c, l, [status |-> "NEW", branch |-> b, created |-> began[c], won |-> 0, since |-> clock],
                   "NEW", << >>)

\* Contact fields, owner, follow-up and branch; the event repeats the status.
UpdateInquiry(c) ==
    \E l \in Visible(c, inquiry), b \in Branches :
        /\ inquiry[l].status \notin {"WON", "LOST"}
        /\ CommitLead(c, l, [inquiry[l] EXCEPT !.branch = b], inquiry[l].status, << >>)

\* A note may be added to any lead; the event repeats the status.
NoteInquiry(c) == \E l \in Visible(c, inquiry) : MoveLead(c, l, inquiry[l].status, << >>)

SimpleMove(c) ==
    \E l \in Visible(c, inquiry), to \in {"CONTACTED", "QUALIFIED"} :
        AllowedFrom(l, to) /\ MoveLead(c, l, to, << >>)

\* The trials still booked are cancelled.
LoseInquiry(c) ==
    \E l \in Visible(c, inquiry) :
        AllowedFrom(l, "LOST") /\ MoveLead(c, l, "LOST", EndedTrials(c, BookedFor(l), "CANCELLED"))

BookTryout(c) ==
    \E l \in Visible(c, inquiry), t \in Tryouts \ DOMAIN tryout :
        /\ inquiry[l].status = "QUALIFIED" /\ BookedFor(l) = {}
        /\ MoveLead(c, l, "TRIAL_BOOKED",
               RowOf(t, [lead |-> l, status |-> "BOOKED", booked |-> began[c], done |-> 0, since |-> clock]))

CancelTryout(c) ==
    \E t \in Visible(c, tryout) :
        /\ tryout[t].status = "BOOKED"
        /\ LET l == tryout[t].lead
               to == IF inquiry[l].status = "TRIAL_BOOKED" THEN "QUALIFIED" ELSE inquiry[l].status
           IN MoveLead(c, l, to, EndedTrials(c, {t}, "CANCELLED"))

TryoutOutcome(c) ==
    \E t \in Visible(c, tryout), to \in {"TRIAL_COMPLETED", "QUALIFIED", "LOST"}, status \in {"COMPLETED", "NO_SHOW"} :
        /\ tryout[t].status = "BOOKED"
        /\ AllowedFrom(tryout[t].lead, to)
        /\ MoveLead(c, tryout[t].lead, to, EndedTrials(c, {t}, status))

WinInquiry(c) ==
    \E l \in Visible(c, inquiry) :
        /\ AllowedFrom(l, "WON")
        /\ CommitLead(c, l, [inquiry[l] EXCEPT !.status = "WON", !.won = began[c]], "WON", << >>)

PipelineNext ==
    \E c \in Writers :
        \/ Begins(c) /\ UNCHANGED <<inquiry, leadEvents, tryout>>
        \/ CreateInquiry(c) \/ UpdateInquiry(c) \/ NoteInquiry(c) \/ SimpleMove(c) \/ LoseInquiry(c)
        \/ BookTryout(c) \/ CancelTryout(c) \/ TryoutOutcome(c) \/ WinInquiry(c)
        \/ Ends(c) /\ UNCHANGED <<inquiry, leadEvents, tryout>>

PipelineSpec == PipelineInit /\ [][PipelineNext]_pipelineVars

-----------------------------------------------------------------------------
(* The CRM report *)

CreatedIn(from, to) == {l \in DOMAIN inquiry : Covers(from, to, inquiry[l].created)}

LeadEventsOf(l, to) == {v \in leadEvents : v.lead = l /\ Until(to, v.at)}

\* Mutation: today's status for every report.
StatusToday(l, to) == inquiry[l].status

\* statusAtSql: the latest event before the end, NEW without one.
LeadStatusAt(l, to) ==
    IF LeadEventsOf(l, to) = {} THEN "NEW"
    ELSE (CHOOSE v \in LeadEventsOf(l, to) : \A w \in LeadEventsOf(l, to) : w.at <= v.at).to

Stage(status, from, to) == {l \in CreatedIn(from, to) : LeadStatusAt(l, to) = status}

\* Trials booked by the end for the cohort.
CohortTrials(from, to) ==
    {t \in DOMAIN tryout : Until(to, tryout[t].booked) /\ tryout[t].lead \in CreatedIn(from, to)}

EndedBy(t, to) == tryout[t].status # "BOOKED" /\ Until(to, tryout[t].done)

\* Mutation: a no-show counts as a completed trial.
Concluded(from, to) == {t \in CohortTrials(from, to) : EndedBy(t, to) /\ tryout[t].status # "CANCELLED"}

TrialsCompleted(from, to) == {t \in CohortTrials(from, to) : EndedBy(t, to) /\ tryout[t].status = "COMPLETED"}
TrialsNoShow(from, to) == {t \in CohortTrials(from, to) : EndedBy(t, to) /\ tryout[t].status = "NO_SHOW"}
TrialsCancelled(from, to) == {t \in CohortTrials(from, to) : EndedBy(t, to) /\ tryout[t].status = "CANCELLED"}
TrialsBooked(from, to) == {t \in CohortTrials(from, to) : ~EndedBy(t, to)}

Trials(from, to) ==
    <<TrialsBooked(from, to), TrialsCompleted(from, to), TrialsNoShow(from, to), TrialsCancelled(from, to)>>

-----------------------------------------------------------------------------
(* The branch summary *)

OfBranch(b, from, to) == {l \in CreatedIn(from, to) : inquiry[l].branch = b}

BranchWon(b, from, to) == {l \in OfBranch(b, from, to) : inquiry[l].won # 0 /\ Until(to, inquiry[l].won)}

BranchTrials(b, from, to) ==
    {t \in DOMAIN tryout : tryout[t].lead \in OfBranch(b, from, to) /\ tryout[t].status = "COMPLETED" /\ Until(to, tryout[t].done)}

-----------------------------------------------------------------------------
(* Properties *)

\* Types; at most one trial of a lead is booked, and a lead is won exactly
\* when it says when.
PipelineTypeOK ==
    /\ \A l \in DOMAIN inquiry :
        /\ inquiry[l].status \in LeadStatus
        /\ (inquiry[l].status = "WON") = (inquiry[l].won # 0)
        /\ \A t, u \in DOMAIN tryout :
            (/\ tryout[t].lead = l /\ tryout[u].lead = l
             /\ {tryout[t].status, tryout[u].status} = {"BOOKED"}) => t = u
    /\ \A v \in leadEvents : v.lead \in DOMAIN inquiry /\ v.to \in LeadStatus
    /\ \A t \in DOMAIN tryout : (tryout[t].status = "BOOKED") = (tryout[t].done = 0)

\* The report of a period that is over is not rewritten: the stage of every
\* lead of the cohort at its end, the trials, and for each branch the won leads
\* and completed trials, unless a lead is given to another branch.
PipelineStands ==
    [][\A from, to \in Instants : <<from, to>> \in Periods /\ Settled(to) =>
        /\ \A status \in LeadStatus : Stage(status, from, to)' = Stage(status, from, to)
        /\ Trials(from, to)' = Trials(from, to)
        /\ (\A l \in DOMAIN inquiry : inquiry'[l].branch = inquiry[l].branch) =>
             \A b \in Branches :
                 /\ BranchWon(b, from, to)' = BranchWon(b, from, to)
                 /\ BranchTrials(b, from, to)' = BranchTrials(b, from, to)]_pipelineVars

\* The CRM report and the branch summary tell of the same leads and the same
\* completed trials, though one asks when a trial was booked and the other does
\* not; and each trial of the cohort is counted once.
BranchesTellPipeline ==
    \A to \in Instants : \A from \in 1 .. to :
        /\ CreatedIn(from, to) = UNION {OfBranch(b, from, to) : b \in Branches}
        /\ TrialsCompleted(from, to) = UNION {BranchTrials(b, from, to) : b \in Branches}
        /\ Cardinality(TrialsBooked(from, to)) + Cardinality(TrialsCompleted(from, to))
             + Cardinality(TrialsNoShow(from, to)) + Cardinality(TrialsCancelled(from, to))
           = Cardinality(CohortTrials(from, to))


\* The history of leads and its two reports, in one.
PipelineSafe == [](PipelineTypeOK /\ BranchesTellPipeline) /\ PipelineStands

=============================================================================
