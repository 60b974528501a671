------------------------------- MODULE Portal -------------------------------
(***************************************************************************)
(* PortalAccessService, PortalAccessGuard and PortalService: invitations   *)
(* of guardians and students to the portal, the accesses they become, and  *)
(* the requests answered under an access.                                  *)
(*                                                                         *)
(* A handler reads the invitation and the profile's email first; then one  *)
(* transaction of the control database, under the subject's advisory lock, *)
(* decides.  Changing and removing an access take no lock.  A portal       *)
(* request reads accesses, then relationships, then answers; anything may  *)
(* happen between these.  Tenants and tokens are left out: a token names   *)
(* its invitation.                                                         *)
(***************************************************************************)
EXTENDS Naturals, Sequences, FiniteSets

CONSTANTS
    Guardians,
    Pupils,          \* students
    Emails,          \* addresses; an account is known by its address
    Handlers,        \* HTTP requests in progress
    NoOne,
    MaxInvitations   \* bound on invitations

Subjects == Guardians \cup Pupils

ASSUME PortalAssumption ==
    /\ Guardians \cap Pupils = {}
    /\ MaxInvitations \in Nat

VARIABLES
    profile,      \* the email of each subject in the tenant's database, or NoOne
    family,       \* student_guardians: [guardian, pupil, billing]
    users,        \* the accounts
    invitations,  \* portal_invitations, oldest first
    access,       \* portal_accesses: [user, status], by subject
    handler       \* the request of each handler, and its answer

portalVars == <<profile, family, users, invitations, access, handler>>

NoAccount == [user |-> NoOne, status |-> "none"]

PortalInit ==
    /\ profile = [s \in Subjects |-> NoOne]
    /\ family = {[guardian |-> g, pupil |-> p, billing |-> TRUE] : g \in Guardians, p \in Pupils}
    /\ users = {}
    /\ invitations = << >>
    /\ access = [s \in Subjects |-> NoAccount]
    /\ handler = [h \in Handlers |-> NoOne]

Pending(i) == ~invitations[i].accepted /\ ~invitations[i].revoked

PendingOf(s) == {i \in DOMAIN invitations : invitations[i].subject = s /\ Pending(i)}

Start(h, request) ==
    /\ handler[h] = NoOne
    /\ handler' = [handler EXCEPT ![h] = request]

Close(h) == handler' = [handler EXCEPT ![h] = NoOne]

Serving(h, op) == handler[h] # NoOne /\ handler[h].op = op

Unchanged == UNCHANGED <<profile, family, users, access>>

-----------------------------------------------------------------------------
(* Invitations *)

\* Revokes what is pending for s and invites e.
Replace(s, e) ==
    /\ Len(invitations) < MaxInvitations
    /\ invitations' = Append([i \in DOMAIN invitations |->
                                 IF i \in PendingOf(s) THEN [invitations[i] EXCEPT !.revoked = TRUE] ELSE invitations[i]],
                             [subject |-> s, email |-> e, accepted |-> FALSE, revoked |-> FALSE, expired |-> FALSE])

\* Mutation: a subject is invited whatever access it has.
InviteAlways(s) == TRUE

Invitable(s) == access[s] = NoAccount

BeginInvite(h, s) ==
    /\ profile[s] # NoOne
    /\ Start(h, [op |-> "invite", subject |-> s, email |-> profile[s]])
    /\ Unchanged /\ UNCHANGED invitations

Invite(h) ==
    /\ Serving(h, "invite")
    /\ Invitable(handler[h].subject)
    /\ Replace(handler[h].subject, handler[h].email)
    /\ Close(h)
    /\ Unchanged

BeginResend(h, i) ==
    /\ Pending(i)
    /\ profile[invitations[i].subject] # NoOne
    /\ Start(h, [op |-> "resend", invitation |-> i, email |-> profile[invitations[i].subject]])
    /\ Unchanged /\ UNCHANGED invitations

Resend(h) ==
    /\ Serving(h, "resend")
    /\ Pending(handler[h].invitation)
    /\ access[invitations[handler[h].invitation].subject] = NoAccount
    /\ Replace(invitations[handler[h].invitation].subject, handler[h].email)
    /\ Close(h)
    /\ Unchanged

Revoke(i) ==
    /\ Pending(i)
    /\ invitations' = [invitations EXCEPT ![i].revoked = TRUE]
    /\ Unchanged /\ UNCHANGED handler

Expire(i) ==
    /\ ~invitations[i].expired
    /\ invitations' = [invitations EXCEPT ![i].expired = TRUE]
    /\ Unchanged /\ UNCHANGED handler

\* Mutation: a signed-in user accepts an invitation to another address.
AnyUser(i, u) == TRUE

Addressed(i, u) == u = invitations[i].email

\* validInvitation, then the check of the account: acceptNew makes it.
BeginAccept(h, i, u) ==
    /\ Pending(i) /\ ~invitations[i].expired
    /\ profile[invitations[i].subject] = invitations[i].email
    /\ Addressed(i, u)
    /\ Start(h, [op |-> IF u \in users THEN "acceptExisting" ELSE "acceptNew", invitation |-> i, user |-> u])
    /\ Unchanged /\ UNCHANGED invitations

\* Mutation: the first look at the invitation is relied on.
AsRead(i) == TRUE

Consumable(i) == Pending(i) /\ ~invitations[i].expired

\* Mutation: the new account is not written.
Forgotten(u) == users

Registered(u) == users \cup {u}

Accept(h) ==
    /\ Serving(h, "acceptNew") \/ Serving(h, "acceptExisting")
    /\ LET u == handler[h].user
           i == handler[h].invitation
           s == invitations[i].subject
       IN /\ Consumable(i)
          /\ handler[h].op = "acceptNew" => u \notin users   \* users_email_key
          /\ access[s].user \in {NoOne, u}
          /\ invitations' = [invitations EXCEPT ![i].accepted = TRUE]
          /\ users' = Registered(u)
          /\ access' = [access EXCEPT ![s] = [user |-> u, status |-> "ACTIVE"]]
    /\ Close(h)
    /\ UNCHANGED <<profile, family>>

\* Refused, lost before its transaction, or answered.
GiveUp(h) == handler[h] # NoOne /\ Close(h) /\ Unchanged /\ UNCHANGED invitations

-----------------------------------------------------------------------------
(* Accesses and profiles *)

SetStatus(s, status) ==
    /\ access[s] # NoAccount
    /\ access' = [access EXCEPT ![s].status = status]
    /\ UNCHANGED <<profile, family, users, invitations, handler>>

RemoveAccess(s) ==
    /\ access[s] # NoAccount
    /\ access' = [access EXCEPT ![s] = NoAccount]
    /\ UNCHANGED <<profile, family, users, invitations, handler>>

ChangeEmail(s, e) ==
    /\ profile[s] # e
    /\ profile' = [profile EXCEPT ![s] = e]
    /\ UNCHANGED <<family, users, invitations, access, handler>>

\* A relationship is edited, its billing contact among it, or removed.
EditFamily(g, p, links) ==
    /\ family' = {l \in family : l.guardian # g \/ l.pupil # p} \cup links
    /\ UNCHANGED <<profile, users, invitations, access, handler>>

-----------------------------------------------------------------------------
(* Portal requests *)

\* The guard: the accesses of the user, then the pupils they reach.
Enter(h, u) ==
    /\ u \in users
    /\ LET mine == {s \in Subjects : access[s] = [user |-> u, status |-> "ACTIVE"]}
       IN mine # {} /\ Start(h, [op |-> "guard", user |-> u, subjects |-> mine])
    /\ Unchanged /\ UNCHANGED invitations

Resolve(h) ==
    /\ Serving(h, "guard")
    /\ LET reached == {l \in family : l.guardian \in handler[h].subjects}
       IN handler' = [handler EXCEPT ![h] =
             [op |-> "portal", user |-> @.user, subjects |-> @.subjects,
              pupils |-> (@.subjects \cap Pupils) \cup {l.pupil : l \in reached},
              payers |-> {<<l.guardian, l.pupil>> : l \in {r \in reached : r.billing}}]]
    /\ Unchanged /\ UNCHANGED invitations

Answer(h, p, what) ==
    /\ handler' = [handler EXCEPT ![h] = [op |-> what, subjects |-> @.subjects, pupil |-> p]]
    /\ Unchanged /\ UNCHANGED invitations

\* student, schedule, attendance and makeup
Show(h, p) == Serving(h, "portal") /\ p \in handler[h].pupils /\ Answer(h, p, "lessons")

\* Mutation: the guard's relationships are relied on.
AsResolved(g, p) == TRUE

StillPays(g, p) == [guardian |-> g, pupil |-> p, billing |-> TRUE] \in family

ShowBilling(h, p) ==
    /\ Serving(h, "portal") /\ p \in handler[h].pupils
    /\ \E g \in Guardians : <<g, p>> \in handler[h].payers /\ StillPays(g, p)
    /\ Answer(h, p, "billing")

-----------------------------------------------------------------------------

InvitationStep ==
    \/ \E h \in Handlers, s \in Subjects : BeginInvite(h, s)
    \/ \E h \in Handlers, i \in DOMAIN invitations :
        BeginResend(h, i) \/ \E u \in users \cup {invitations[i].email} : BeginAccept(h, i, u)
    \/ \E h \in Handlers : Invite(h) \/ Resend(h) \/ Accept(h) \/ GiveUp(h)
    \/ \E i \in DOMAIN invitations : Revoke(i) \/ Expire(i)

AccessStep ==
    \/ \E s \in Subjects : SetStatus(s, "DISABLED") \/ SetStatus(s, "ACTIVE") \/ RemoveAccess(s)
    \/ \E s \in Subjects, e \in Emails \cup {NoOne} : ChangeEmail(s, e)

RequestStep ==
    \/ \E g \in Guardians, p \in Pupils, b \in BOOLEAN :
        EditFamily(g, p, {}) \/ EditFamily(g, p, {[guardian |-> g, pupil |-> p, billing |-> b]})
    \/ \E h \in Handlers :
        \/ \E u \in Emails : Enter(h, u)
        \/ Resolve(h)
        \/ \E p \in Pupils : Show(h, p) \/ ShowBilling(h, p)

PortalNext == InvitationStep \/ AccessStep \/ RequestStep

PortalSpec == PortalInit /\ [][PortalNext]_portalVars

-----------------------------------------------------------------------------
(* Properties *)

\* Types; and an account exists for whoever has an access.
PortalTypeOK ==
    /\ profile \in [Subjects -> Emails \cup {NoOne}]
    /\ family \subseteq [guardian : Guardians, pupil : Pupils, billing : BOOLEAN]
    /\ \A s \in Subjects : access[s] = NoAccount \/ (access[s].user \in users /\ access[s].status \in {"ACTIVE", "DISABLED"})
    /\ \A i \in DOMAIN invitations : invitations[i].subject \in Subjects /\ invitations[i].email \in Emails

\* However invitations, acceptances and removals overlap, a subject waits for
\* one invitation or has an access, never both: no invitation is left over
\* that could bring a removed access back or grant it to somebody else.
OneWayIn ==
    \A s \in Subjects :
        LET pending == {i \in DOMAIN invitations :
                            invitations[i].subject = s /\ ~invitations[i].accepted /\ ~invitations[i].revoked}
        IN Cardinality(pending) <= 1 /\ (access[s] # NoAccount => pending = {})

\* Who has an access was invited to it at the address of the account.
AccessByInvitation ==
    \A s \in Subjects : access[s] # NoAccount =>
        \E i \in DOMAIN invitations :
            invitations[i].accepted /\ invitations[i].subject = s /\ invitations[i].email = access[s].user

\* An access begins by consuming a live invitation: one that is used, revoked
\* or expired by then grants nothing, even if it was live when it was read.
ConsumedOnce ==
    [][\A s \in Subjects : (access[s] = NoAccount /\ access'[s] # NoAccount) =>
        \E i \in DOMAIN invitations :
            /\ invitations[i].subject = s
            /\ ~invitations[i].accepted /\ ~invitations[i].revoked /\ ~invitations[i].expired
            /\ invitations'[i].accepted]_portalVars

\* Bills are shown to a guardian who is the billing contact now, whatever the
\* guard saw.  (Lessons are shown by what the guard saw.)
BillsOnlyToContacts ==
    [][\A h \in Handlers : (Serving(h, "portal") /\ handler'[h] # NoOne /\ handler'[h].op = "billing") =>
            \E l \in family : l.pupil = handler'[h].pupil /\ l.billing /\ l.guardian \in handler[h].subjects]_portalVars


\* Ways in and what they show, in one: the safety of the component.
PortalSafe ==
    /\ [](PortalTypeOK /\ OneWayIn /\ AccessByInvitation)
    /\ ConsumedOnce /\ BillsOnlyToContacts

=============================================================================
