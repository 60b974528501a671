------------------------------- MODULE Notices -------------------------------
(***************************************************************************)
(* CommunicationService up to the inserted messages, and the plans of      *)
(* communication.events: who is told of an event, by which channel, and    *)
(* which students the message names.  Delivery is another module.          *)
(*                                                                         *)
(* A dispatch reads families and templates and inserts its messages in one *)
(* transaction, and is one step.  Texts are left out: a message keeps the  *)
(* students its {{studentName}} lists.  An event that is not due (a paid   *)
(* invoice, a cancelled session) is a refusal; it inserts nothing.         *)
(***************************************************************************)
EXTENDS Naturals, FiniteSets

CONSTANTS
    Students, Guardians, Leads, Mailboxes,
    Families,   \* [links, mail, roster, absent, trial]: who belongs to whom
    Events,     \* the dispatches: [event, source, scope]
    NoMail, NoPerson

People == Students \cup Guardians \cup Leads

Channels == {"IN_APP", "EMAIL"}

\* links: student_guardians [guardian, primary, billing] of each student.
Link == [guardian : Guardians, primary : BOOLEAN, billing : BOOLEAN]

ASSUME NoticesAssumption ==
    /\ NoMail \notin Mailboxes
    /\ NoPerson \notin People
    /\ Students \cap Guardians = {} /\ Mailboxes \cap People = {}
    /\ \A f \in Families :
        /\ f.links \in [Students -> SUBSET Link]
        /\ f.mail \in [People -> Mailboxes \cup {NoMail}]
        /\ \A p \in Students : Cardinality({l \in f.links[p] : l.primary}) <= 1
        /\ f.absent \subseteq f.roster /\ f.roster \subseteq Students
        /\ f.trial.guardian \in Guardians \cup {NoPerson}
        /\ f.trial.student \in Students \cup {NoPerson} /\ f.trial.lead \in Leads
    /\ \A e \in Events :
        \/ e.event \in {"PAYMENT_RECEIVED", "TUITION_DUE", "TUITION_OVERDUE", "ENROLLMENT_EXPIRING"} /\ e.source \in Students
        \/ e.event \in {"ATTENDANCE_ABSENCE", "TRIAL_REMINDER", "SCHEDULE_CHANGED", "SESSION_REMINDER"}

VARIABLES
    family,     \* the people an event concerns; fixed
    template,   \* communication_templates: DEFAULT is no override
    notice      \* communication_messages: the students named, by dedupe_key

noticeVars == <<family, template, notice>>

Sent == DOMAIN notice

-----------------------------------------------------------------------------
(* Recipients *)

Primary(p) == {l.guardian : l \in {k \in family.links[p] : k.primary}}

Billing(p) == {l.guardian : l \in {k \in family.links[p] : k.billing}}

\* Mutation: every guardian is told about money.
AllGuardians(p) == IF family.links[p] = {} THEN {p} ELSE {l.guardian : l \in family.links[p]}

BillingRecipients(p) ==
    IF Billing(p) # {} THEN Billing(p) ELSE IF Primary(p) # {} THEN Primary(p) ELSE {p}

AcademicRecipients(p) == IF Primary(p) # {} THEN Primary(p) ELSE {p}

\* A trial's own guardian or student; the lead only if there is neither.
TrialRecipients ==
    IF family.trial.guardian # NoPerson THEN {family.trial.guardian}
    ELSE IF family.trial.student # NoPerson THEN {family.trial.student}
    ELSE {l \in {family.trial.lead} : family.mail[l] # NoMail}

\* Mutation: each guardian's message names that guardian's own students.
OwnStudents(g) == {p \in family.roster : g \in Primary(p)}

\* The roster students of all guardians who share g's mailbox.
MailboxStudents(g) ==
    {p \in family.roster : g \in Primary(p) \/ \E h \in Primary(p) :
        family.mail[h] # NoMail /\ family.mail[h] = family.mail[g]}

Plan(to, about, scope, rank) == [to |-> to, about |-> about, scope |-> scope, rank |-> rank]

\* Mutation: a student without guardian is told nothing.
GuardianPlans(scope) == {Plan(g, MailboxStudents(g), scope, 2) : g \in UNION {Primary(p) : p \in family.roster}}

\* Students without a guardian are planned before the guardians.
RosterPlans(scope) ==
    {Plan(p, {p}, scope, 1) : p \in {q \in family.roster : Primary(q) = {}}}
        \cup {Plan(g, MailboxStudents(g), scope, 2) : g \in UNION {Primary(p) : p \in family.roster}}

\* singleStudentPlans.
StudentPlans(recipients, p, scope) == {Plan(r, {p}, scope, 1) : r \in recipients}

\* buildPlans of each event; the source of money or of an enrolment is the
\* student it belongs to.
PaymentPlans(e) == StudentPlans(BillingRecipients(e.source), e.source, e.scope)

TuitionPlans(e) == StudentPlans(BillingRecipients(e.source), e.source, e.scope)

TuitionDuePlans(e) == TuitionPlans(e)

TuitionOverduePlans(e) == TuitionPlans(e)

EnrollmentPlans(e) == StudentPlans(AcademicRecipients(e.source), e.source, e.scope)

\* Every absence is a scope of its own.
AbsencePlans == UNION {StudentPlans(AcademicRecipients(p), p, p) : p \in family.absent}

TrialPlans(e) == {Plan(r, {}, e.scope, 1) : r \in TrialRecipients}

ScheduleChangedPlans(e) == RosterPlans(e.scope)

SessionReminderPlans(e) == RosterPlans(e.scope)

Plans(e) ==
    CASE e.event = "PAYMENT_RECEIVED" -> PaymentPlans(e)
      [] e.event = "TUITION_DUE" -> TuitionDuePlans(e)
      [] e.event = "TUITION_OVERDUE" -> TuitionOverduePlans(e)
      [] e.event = "ENROLLMENT_EXPIRING" -> EnrollmentPlans(e)
      [] e.event = "ATTENDANCE_ABSENCE" -> AbsencePlans
      [] e.event = "TRIAL_REMINDER" -> TrialPlans(e)
      [] e.event = "SCHEDULE_CHANGED" -> ScheduleChangedPlans(e)
      [] e.event = "SESSION_REMINDER" -> SessionReminderPlans(e)

-----------------------------------------------------------------------------
(* Messages *)

\* Mutation: messages are deduplicated by recipient on every channel.
KeyByRecipient(e, plan, channel) ==
    [event |-> e.event, source |-> e.source, scope |-> plan.scope, to |-> plan.to, channel |-> channel]

\* communicationDedupeKey: mail is deduplicated by its destination.
Key(e, plan, channel) ==
    [event |-> e.event, source |-> e.source, scope |-> plan.scope, channel |-> channel,
     to |-> IF channel = "EMAIL" THEN family.mail[plan.to] ELSE plan.to]

\* Mutation: a disabled override falls back to the default.
Always(channel) == TRUE

\* effectiveTemplate.
Enabled(channel) == template[channel] # "OFF"

\* Mutation: mail is inserted without a destination.
Undirected(e) == {row \in Plans(e) \X Channels : Enabled(row[2])}

\* What a dispatch inserts: mail needs a destination.
Rows(e) ==
    {row \in Plans(e) \X Channels :
        Enabled(row[2]) /\ (row[2] = "EMAIL" => family.mail[row[1].to] # NoMail)}

\* Of the rows of one key, one inserted first: ON CONFLICT DO NOTHING.
Surviving(rows, row, e) ==
    \A other \in rows : Key(e, other[1], other[2]) = Key(e, row[1], row[2]) => row[1].rank <= other[1].rank

Dispatch(e) ==
    LET rows == Rows(e)
        new == {Key(e, row[1], row[2]) : row \in rows} \ Sent
    IN \E first \in [new -> rows] :
        /\ \A k \in new : Key(e, first[k][1], first[k][2]) = k /\ Surviving(rows, first[k], e)
        /\ notice' = [k \in Sent \cup new |-> IF k \in Sent THEN notice[k] ELSE first[k][1].about]
        /\ UNCHANGED <<family, template>>

\* An override without `enabled` is enabled, or as it was.
UpsertTemplate(channel) ==
    /\ template' = [template EXCEPT ![channel] = IF @ = "DEFAULT" THEN "ON" ELSE @]
    /\ UNCHANGED <<family, notice>>

ResetTemplate(channel) ==
    /\ template[channel] # "DEFAULT"
    /\ template' = [template EXCEPT ![channel] = "DEFAULT"]
    /\ UNCHANGED <<family, notice>>

SetTemplateEnabled(channel, enabled) ==
    /\ template' = [template EXCEPT ![channel] = IF enabled THEN "ON" ELSE "OFF"]
    /\ UNCHANGED <<family, notice>>

NoticesInit ==
    /\ family \in Families
    /\ template = [c \in Channels |-> "DEFAULT"]
    /\ notice = [k \in {} |-> {}]

NoticesNext ==
    \/ \E e \in Events : Dispatch(e)
    \/ \E c \in Channels : UpsertTemplate(c) \/ ResetTemplate(c) \/ \E b \in BOOLEAN : SetTemplateEnabled(c, b)

NoticesSpec == NoticesInit /\ [][NoticesNext]_noticeVars

-----------------------------------------------------------------------------
(* Properties *)

Money == {"PAYMENT_RECEIVED", "TUITION_DUE", "TUITION_OVERDUE"}

\* The students an event concerns.
Concerned(e) ==
    CASE e.event \in Money \cup {"ENROLLMENT_EXPIRING"} -> {e.source}
      [] e.event = "ATTENDANCE_ABSENCE" -> family.absent
      [] e.event = "TRIAL_REMINDER" -> {}
      [] OTHER -> family.roster

\* The messages of e on a channel.
MessagesOf(e, channel) == {k \in Sent : k.event = e.event /\ k.source = e.source /\ k.channel = channel}

\* A message is addressed to a person, or by mail to a mailbox.
NoticesTypeOK ==
    /\ family \in Families
    /\ template \in [Channels -> {"DEFAULT", "ON", "OFF"}]
    /\ \A k \in Sent :
        /\ k.to \in IF k.channel = "EMAIL" THEN Mailboxes ELSE People
        /\ notice[k] \subseteq Students

\* A message that goes out names everyone it is about: a dispatch under
\* enabled templates reaches each student concerned, by name.
EveryoneNamed ==
    [][\A e \in Events : (MessagesOf(e, "IN_APP") = {} /\ MessagesOf(e, "IN_APP")' # {}) =>
        \A p \in Concerned(e) : \E k \in MessagesOf(e, "IN_APP")' : p \in notice'[k]]_noticeVars

\* Money is told to billing contacts; to the primary contact only if there is
\* none, and to the student only if there is neither.
MoneyIsPrivate ==
    \A k \in Sent : (k.event \in Money /\ k.channel = "IN_APP") =>
        LET links == family.links[k.source]
            billing == {l.guardian : l \in {j \in links : j.billing}}
        IN IF k.to \in Guardians
           THEN k.to \in billing \/ (billing = {} /\ \E l \in links : l.guardian = k.to /\ l.primary)
           ELSE billing = {} /\ \A l \in links : ~l.primary

\* A mailbox gets one mail of a session's change, and it names the students of
\* all guardians who share the mailbox - unless a student without guardian has
\* that mailbox too: that student's mail is inserted first and names only one
\* student (communication.events.ts:174).
OneMailNamesGuardiansStudents ==
    \A k \in Sent : (k.event = "SCHEDULE_CHANGED" /\ k.channel = "EMAIL") =>
        \/ notice[k] = {p \in family.roster : \E l \in family.links[p] : l.primary /\ family.mail[l.guardian] = k.to}
        \/ \E p \in notice[k] : family.mail[p] = k.to /\ \A l \in family.links[p] : ~l.primary

\* Nobody is mailed twice of one thing: the addressees of one event who share
\* a mailbox share its one message; of absences, each is a thing of its own.
MailboxOnce ==
    \A e \in Events : \A k \in MessagesOf(e, "EMAIL") : \A j \in MessagesOf(e, "EMAIL") \ {k} :
        LET box(x) == IF x.to \in People THEN family.mail[x.to] ELSE x.to
        IN j.scope = k.scope => box(j) # box(k)

\* A channel staff switched off stays silent, and off when its text is edited.
SilentWhenOff ==
    [][\A c \in Channels : template[c] = "OFF" =>
        /\ {k \in Sent : k.channel = c}' = {k \in Sent : k.channel = c}
        /\ template'[c] = "ON" => SetTemplateEnabled(c, TRUE)]_noticeVars


\* Who is written to and of what, in one.
NoticesSafe ==
    /\ [](NoticesTypeOK /\ MoneyIsPrivate /\ OneMailNamesGuardiansStudents /\ MailboxOnce)
    /\ SilentWhenOff

=============================================================================
