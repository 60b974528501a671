----------------------------- MODULE PeopleProofs -----------------------------
(***************************************************************************)
(* Proofs about Portal, for any guardians, pupils, addresses, requests in  *)
(* progress and bound on invitations; about Families, for any links and    *)
(* editors; about Crm, for any leads, trial lessons and clerks; and about  *)
(* Progress, for any assessments, students and reports.                    *)
(***************************************************************************)
EXTENDS Portal, Families, Crm, Progress, Sums, FiniteSetTheorems, WellFoundedInduction, TLAPS

Invitation == [subject : Subjects, email : Emails, accepted : BOOLEAN, revoked : BOOLEAN, expired : BOOLEAN]

Account == [user : Emails, status : {"ACTIVE", "DISABLED"}]

(* The inductive invariant, in parts. *)

Types ==
    /\ profile \in [Subjects -> Emails \cup {NoOne}]
    /\ family \subseteq [guardian : Guardians, pupil : Pupils, billing : BOOLEAN]
    /\ invitations \in Seq(Invitation)
    /\ access \in [Subjects -> Account \cup {NoAccount}]
    /\ DOMAIN handler = Handlers

AccountExists == \A s \in Subjects : access[s] # NoAccount => access[s].user \in users

\* A subject waits for one invitation, and for none once it has an access.
OnePending ==
    \A i, j \in DOMAIN invitations :
        (Pending(i) /\ Pending(j) /\ invitations[i].subject = invitations[j].subject) => i = j

NoneLeftOver ==
    \A i \in DOMAIN invitations : Pending(i) => access[invitations[i].subject] = NoAccount

\* What a request carries from its first look: an invitation that exists, and
\* for an acceptance the user it is addressed to.
Carries(h) ==
    /\ Serving(h, "invite") => handler[h].subject \in Subjects /\ handler[h].email \in Emails
    /\ Serving(h, "resend") => handler[h].invitation \in DOMAIN invitations /\ handler[h].email \in Emails
    /\ (Serving(h, "acceptNew") \/ Serving(h, "acceptExisting")) =>
           /\ handler[h].invitation \in DOMAIN invitations
           /\ handler[h].user = invitations[handler[h].invitation].email
    /\ Serving(h, "portal") => \A g \in Guardians, p \in Pupils :
           <<g, p>> \in handler[h].payers => g \in handler[h].subjects

Carried == \A h \in Handlers : Carries(h)

IInv ==
    /\ Types
    /\ AccountExists
    /\ OnePending
    /\ NoneLeftOver
    /\ AccessByInvitation
    /\ Carried

-----------------------------------------------------------------------------
(* What the steps do to invitations and requests *)

\* An invitation stays, to the same subject and address, and what is consumed
\* or withdrawn stays so.
Stays(i) ==
    /\ i \in DOMAIN invitations'
    /\ invitations'[i].subject = invitations[i].subject
    /\ invitations'[i].email = invitations[i].email
    /\ invitations[i].accepted => invitations'[i].accepted
    /\ invitations[i].revoked => invitations'[i].revoked

LEMMA OneInvitation ==
    ASSUME Types, NEW i \in DOMAIN invitations
    PROVE  /\ i \in Nat
           /\ invitations[i] \in Invitation
           /\ invitations[i].subject \in Subjects
           /\ invitations[i].email \in Emails
           /\ invitations[i].accepted \in BOOLEAN
           /\ invitations[i].revoked \in BOOLEAN
<1>1. i \in Nat /\ invitations[i] \in Invitation
  BY DEF Types
<1> QED  BY <1>1 DEF Invitation

\* Replace revokes what is pending for s, keeps the rest and appends one.
LEMMA RequestReplaced ==
    ASSUME Types, NEW s \in Subjects, NEW e \in Emails, Replace(s, e)
    PROVE  /\ invitations' \in Seq(Invitation)
           /\ \A i \in DOMAIN invitations : Stays(i)
           /\ DOMAIN invitations' = DOMAIN invitations \cup {Len(invitations) + 1}
           /\ \A i \in DOMAIN invitations : Pending(i)' => Pending(i) /\ invitations[i].subject # s
           /\ invitations'[Len(invitations) + 1].subject = s
<1> DEFINE kept == [i \in DOMAIN invitations |->
                       IF i \in PendingOf(s) THEN [invitations[i] EXCEPT !.revoked = TRUE] ELSE invitations[i]]
           one == [subject |-> s, email |-> e, accepted |-> FALSE, revoked |-> FALSE, expired |-> FALSE]
<1>1. one \in Invitation
  BY DEF Invitation
<1>2. \A i \in DOMAIN invitations : kept[i] \in Invitation
  BY OneInvitation DEF Invitation
<1>3. DOMAIN invitations = 1..Len(invitations) /\ Len(invitations) \in Nat
  BY DEF Types
<1>4. kept \in Seq(Invitation) /\ Len(kept) = Len(invitations)
  BY <1>2, <1>3
<1>5. invitations' = Append(kept, one)
  BY DEF Replace
<1>6. /\ invitations' \in Seq(Invitation)
      /\ DOMAIN invitations' = DOMAIN invitations \cup {Len(invitations) + 1}
      /\ \A i \in DOMAIN invitations : invitations'[i] = kept[i]
      /\ invitations'[Len(invitations) + 1] = one
  <2> HIDE DEF kept, one
  <2> QED  BY <1>1, <1>3, <1>4, <1>5
<1>7. ASSUME NEW i \in DOMAIN invitations
      PROVE  Stays(i) /\ (Pending(i)' => Pending(i) /\ invitations[i].subject # s)
  <2>1. CASE i \in PendingOf(s)
    <3>1. invitations'[i] = [invitations[i] EXCEPT !.revoked = TRUE]
      BY <1>6, <2>1
    <3> QED  BY <1>6, <3>1, <2>1, OneInvitation DEF Stays, Invitation, Pending
  <2>2. CASE i \notin PendingOf(s)
    <3>1. invitations'[i] = invitations[i]
      BY <1>6, <2>2
    <3> QED  BY <1>6, <3>1, <2>2, OneInvitation DEF Stays, Pending, PendingOf
  <2> QED  BY <2>1, <2>2
<1> QED  BY <1>6, <1>7

\* A field of one invitation is set; the others are as they were.
LEMMA Marked ==
    ASSUME Types, NEW i \in DOMAIN invitations,
           \/ invitations' = [invitations EXCEPT ![i].accepted = TRUE]
           \/ invitations' = [invitations EXCEPT ![i].revoked = TRUE]
           \/ invitations' = [invitations EXCEPT ![i].expired = TRUE]
    PROVE  /\ invitations' \in Seq(Invitation)
           /\ DOMAIN invitations' = DOMAIN invitations
           /\ \A j \in DOMAIN invitations : Stays(j) /\ (Pending(j)' => Pending(j))
<1>1. invitations' \in Seq(Invitation) /\ DOMAIN invitations' = DOMAIN invitations
  <2>1. /\ [invitations[i] EXCEPT !.accepted = TRUE] \in Invitation
        /\ [invitations[i] EXCEPT !.revoked = TRUE] \in Invitation
        /\ [invitations[i] EXCEPT !.expired = TRUE] \in Invitation
    BY OneInvitation DEF Invitation
  <2>2. \E v \in Invitation : invitations' = [invitations EXCEPT ![i] = v]
    BY <2>1
  <2> QED  BY <2>2 DEF Types
<1>2. ASSUME NEW j \in DOMAIN invitations
      PROVE  Stays(j) /\ (Pending(j)' => Pending(j))
  <2>1. \/ invitations'[j] = invitations[j]
        \/ invitations'[j] = [invitations[j] EXCEPT !.accepted = TRUE]
        \/ invitations'[j] = [invitations[j] EXCEPT !.revoked = TRUE]
        \/ invitations'[j] = [invitations[j] EXCEPT !.expired = TRUE]
    BY DEF Types
  <2> QED  BY <1>1, <2>1, OneInvitation DEF Stays, Pending, Invitation
<1> QED  BY <1>1, <1>2

\* Requests that a step leaves alone carry what they carried.
LEMMA StillCarries ==
    ASSUME Types, Types', Carried, NEW h \in Handlers, handler'[h] = handler[h],
           \A i \in DOMAIN invitations : Stays(i)
    PROVE  Carries(h)'
BY DEF Carried, Carries, Serving, Stays

\* A request begins, goes on or ends: the others are left alone.
LEMMA OneHandler ==
    ASSUME Types, NEW h \in Handlers, NEW r, handler' = [handler EXCEPT ![h] = r]
    PROVE  /\ DOMAIN handler' = Handlers
           /\ handler'[h] = r
           /\ \A k \in Handlers \ {h} : handler'[k] = handler[k]
BY DEF Types

-----------------------------------------------------------------------------
(* The invariant is inductive *)

LEMMA Initially == PortalInit => IInv
<1> SUFFICES ASSUME PortalInit PROVE IInv
  OBVIOUS
<1>1. /\ DOMAIN invitations = {} /\ invitations \in Seq(Invitation)
      /\ \A s \in Subjects : access[s] = NoAccount
      /\ \A h \in Handlers : handler[h] = NoOne
  BY DEF PortalInit
<1>2. Types
  <2>1. family \subseteq [guardian : Guardians, pupil : Pupils, billing : BOOLEAN]
    <3>1. \A l \in family : \E g \in Guardians, p \in Pupils :
              l = [guardian |-> g, pupil |-> p, billing |-> TRUE]
      BY DEF PortalInit
    <3>2. ASSUME NEW l \in family  PROVE l \in [guardian : Guardians, pupil : Pupils, billing : BOOLEAN]
      <4>1. PICK g \in Guardians, p \in Pupils : l = [guardian |-> g, pupil |-> p, billing |-> TRUE]
        BY <3>1
      <4> QED  BY <4>1, TRUE \in BOOLEAN
    <3> QED  BY <3>2
  <2> QED  BY <1>1, <2>1 DEF PortalInit, Types
<1>3. AccountExists /\ OnePending /\ NoneLeftOver /\ AccessByInvitation
  BY <1>1 DEF AccountExists, OnePending, NoneLeftOver, AccessByInvitation
<1>4. Carried
  BY <1>1 DEF Carried, Carries, Serving
<1> QED  BY <1>2, <1>3, <1>4 DEF IInv

\* A step of one request that writes nothing keeps the invariant if what the
\* request carries afterwards is right.
LEMMA RequestOnly ==
    ASSUME IInv, NEW h \in Handlers, NEW r, handler' = [handler EXCEPT ![h] = r],
           Unchanged, UNCHANGED invitations, Carries(h)'
    PROVE  IInv'
<1>1. Types'
  BY OneHandler DEF IInv, Types, Unchanged
<1>2. \A i \in DOMAIN invitations : Stays(i)
  BY DEF Stays
<1>3. ASSUME NEW k \in Handlers  PROVE Carries(k)'
  BY <1>1, <1>2, OneHandler, StillCarries DEF IInv
<1> QED
  BY <1>1, <1>3 DEF IInv, AccountExists, OnePending, NoneLeftOver, AccessByInvitation, Carried, Pending, Unchanged

LEMMA ClosedCarriesNothing ==
    ASSUME Types, NEW h \in Handlers, Close(h)
    PROVE  Carries(h)'
BY OneHandler DEF Close, Carries, Serving

LEMMA BeginInviteKeeps ==
    ASSUME IInv, NEW h \in Handlers, NEW s \in Subjects, BeginInvite(h, s)
    PROVE  IInv'
<1> DEFINE r == [op |-> "invite", subject |-> s, email |-> profile[s]]
<1>1. profile[s] \in Emails /\ handler' = [handler EXCEPT ![h] = r]
  BY DEF BeginInvite, Start, IInv, Types
<1>2. Carries(h)'
  BY <1>1, OneHandler DEF Carries, Serving, IInv
<1> QED  BY <1>1, <1>2, RequestOnly DEF BeginInvite

LEMMA BeginResendKeeps ==
    ASSUME IInv, NEW h \in Handlers, NEW i \in DOMAIN invitations, BeginResend(h, i)
    PROVE  IInv'
<1> DEFINE r == [op |-> "resend", invitation |-> i, email |-> profile[invitations[i].subject]]
<1>1. profile[invitations[i].subject] \in Emails /\ handler' = [handler EXCEPT ![h] = r] /\ UNCHANGED invitations
  BY OneInvitation DEF BeginResend, Start, IInv, Types
<1>2. Carries(h)'
  BY <1>1, OneHandler DEF Carries, Serving, IInv
<1> QED  BY <1>1, <1>2, RequestOnly DEF BeginResend

LEMMA BeginAcceptKeeps ==
    ASSUME IInv, NEW h \in Handlers, NEW i \in DOMAIN invitations, NEW u, BeginAccept(h, i, u)
    PROVE  IInv'
<1> DEFINE r == [op |-> IF u \in users THEN "acceptExisting" ELSE "acceptNew", invitation |-> i, user |-> u]
<1>1. u = invitations[i].email /\ handler' = [handler EXCEPT ![h] = r] /\ UNCHANGED invitations
  BY DEF BeginAccept, Addressed, Start
<1>2. handler'[h] = r
  BY <1>1, OneHandler DEF IInv
<1>3. r.op \in {"acceptExisting", "acceptNew"} /\ r.invitation = i /\ r.user = u
  OBVIOUS
<1>4. Carries(h)'
  <2> HIDE DEF r
  <2> QED  BY <1>1, <1>2, <1>3 DEF Carries, Serving
<1> QED  BY <1>1, <1>4, RequestOnly DEF BeginAccept

\* A portal request: what it may show to the payers was reached from them.
LEMMA PortalRequestKeeps ==
    ASSUME IInv, NEW h \in Handlers,
           \/ \E u \in Emails : Enter(h, u)
           \/ Resolve(h)
           \/ \E p \in Pupils : Show(h, p) \/ ShowBilling(h, p)
           \/ GiveUp(h)
    PROVE  IInv'
<1>1. CASE \E u \in Emails : Enter(h, u)
  <2>1. PICK u \in Emails : Enter(h, u)
    BY <1>1
  <2>2. PICK mine : handler' = [handler EXCEPT ![h] = [op |-> "guard", user |-> u, subjects |-> mine]]
    BY <2>1 DEF Enter, Start
  <2>3. Carries(h)'
    BY <2>2, OneHandler DEF Carries, Serving, IInv
  <2> QED  BY <2>1, <2>2, <2>3, RequestOnly DEF Enter
<1>2. CASE Resolve(h)
  <2> DEFINE reached == {l \in family : l.guardian \in handler[h].subjects}
             payers == {<<l.guardian, l.pupil>> : l \in {m \in reached : m.billing}}
             pupils == (handler[h].subjects \cap Pupils) \cup {l.pupil : l \in reached}
             r == [op |-> "portal", user |-> handler[h].user, subjects |-> handler[h].subjects,
                   pupils |-> pupils, payers |-> payers]
  <2>1. handler' = [handler EXCEPT ![h] = r]
    BY <1>2 DEF Resolve, IInv, Types
  <2>2. \A g \in Guardians, p \in Pupils : <<g, p>> \in payers => g \in handler[h].subjects
    OBVIOUS
  <2>3. r.op = "portal" /\ r.payers = payers /\ r.subjects = handler[h].subjects
    OBVIOUS
  <2>4. Carries(h)'
    <3>1. handler'[h] = r
      BY <2>1, OneHandler DEF IInv
    <3> HIDE DEF r, payers
    <3> QED  BY <3>1, <2>2, <2>3 DEF Carries, Serving
  <2> QED  BY <1>2, <2>1, <2>4, RequestOnly DEF Resolve
<1>3. CASE \E p \in Pupils : Show(h, p) \/ ShowBilling(h, p)
  <2>1. PICK p \in Pupils, what \in {"lessons", "billing"} : Answer(h, p, what)
    BY <1>3 DEF Show, ShowBilling
  <2>2. handler' = [handler EXCEPT ![h] = [op |-> what, subjects |-> handler[h].subjects, pupil |-> p]]
    BY <2>1 DEF Answer, IInv, Types
  <2>3. Carries(h)'
    BY <2>2, OneHandler DEF Carries, Serving, IInv
  <2> QED  BY <2>1, <2>2, <2>3, RequestOnly DEF Answer
<1>4. CASE GiveUp(h)
  BY <1>4, ClosedCarriesNothing, RequestOnly DEF GiveUp, Close, IInv
<1> QED  BY <1>1, <1>2, <1>3, <1>4

\* The steps that invite: the new invitation is the only one its subject waits
\* for, and the subject has no access.
LEMMA InvitingKeeps ==
    ASSUME IInv, NEW h \in Handlers, NEW s \in Subjects, NEW e \in Emails,
           access[s] = NoAccount, Replace(s, e), Close(h), Unchanged
    PROVE  IInv'
<1> DEFINE n == Len(invitations) + 1
<1>1. Types
  BY DEF IInv
<1>2. /\ invitations' \in Seq(Invitation)
      /\ \A i \in DOMAIN invitations : Stays(i)
      /\ DOMAIN invitations' = DOMAIN invitations \cup {n}
      /\ \A i \in DOMAIN invitations : Pending(i)' => Pending(i) /\ invitations[i].subject # s
      /\ invitations'[n].subject = s
  BY <1>1, RequestReplaced
<1>3. Types'
  BY <1>1, <1>2, OneHandler DEF Types, Unchanged, Close
<1>4. AccountExists' /\ AccessByInvitation'
  BY <1>2, OneInvitation DEF IInv, AccountExists, AccessByInvitation, Unchanged, Stays
<1>5. OnePending' /\ NoneLeftOver'
  BY <1>2 DEF IInv, OnePending, NoneLeftOver, Unchanged, Stays
<1>6. ASSUME NEW k \in Handlers  PROVE Carries(k)'
  BY <1>1, <1>2, <1>3, OneHandler, StillCarries, ClosedCarriesNothing DEF IInv, Close
<1> QED  BY <1>3, <1>4, <1>5, <1>6 DEF IInv, Carried

LEMMA MarkingKeeps ==
    ASSUME IInv, NEW i \in DOMAIN invitations, Revoke(i) \/ Expire(i)
    PROVE  IInv'
<1>1. Types /\ Unchanged /\ UNCHANGED handler
  BY DEF IInv, Revoke, Expire
<1>2. /\ invitations' \in Seq(Invitation)
      /\ DOMAIN invitations' = DOMAIN invitations
      /\ \A j \in DOMAIN invitations : Stays(j) /\ (Pending(j)' => Pending(j))
  BY <1>1, Marked DEF Revoke, Expire
<1>3. Types'
  BY <1>1, <1>2 DEF Types, Unchanged
<1>4. AccountExists' /\ AccessByInvitation' /\ OnePending' /\ NoneLeftOver'
  BY <1>1, <1>2 DEF IInv, AccountExists, AccessByInvitation, OnePending, NoneLeftOver, Unchanged, Stays
<1>5. ASSUME NEW k \in Handlers  PROVE Carries(k)'
  BY <1>1, <1>2, <1>3, StillCarries DEF IInv
<1> QED  BY <1>3, <1>4, <1>5 DEF IInv, Carried

\* An acceptance consumes the one invitation its subject waits for.
LEMMA AcceptKeeps ==
    ASSUME IInv, NEW h \in Handlers, Accept(h)
    PROVE  /\ IInv'
           /\ LET i == handler[h].invitation
              IN /\ i \in DOMAIN invitations /\ Consumable(i) /\ invitations'[i].accepted
                 /\ \A t \in Subjects : t # invitations[i].subject => access'[t] = access[t]
<1> DEFINE i == handler[h].invitation
           u == handler[h].user
           s == invitations[i].subject
<1>1. Types /\ Carries(h)
  BY DEF IInv, Carried
<1>2. i \in DOMAIN invitations /\ u = invitations[i].email /\ s \in Subjects /\ u \in Emails
  BY <1>1, OneInvitation DEF Accept, Carries
<1>3. /\ Consumable(i)
      /\ invitations' = [invitations EXCEPT ![i].accepted = TRUE]
      /\ users' = users \cup {u}
      /\ access' = [access EXCEPT ![s] = [user |-> u, status |-> "ACTIVE"]]
      /\ Close(h) /\ UNCHANGED <<profile, family>>
  BY DEF Accept, Registered
<1> HIDE DEF i, u, s
<1>4. /\ invitations' \in Seq(Invitation)
      /\ DOMAIN invitations' = DOMAIN invitations
      /\ \A j \in DOMAIN invitations : Stays(j) /\ (Pending(j)' => Pending(j))
  BY <1>1, <1>2, <1>3, Marked
<1>5. invitations'[i].accepted /\ invitations'[i].subject = s /\ invitations'[i].email = u
  <2>1. invitations[i] \in Invitation
    BY <1>1, <1>2, OneInvitation
  <2>2. invitations'[i] = [invitations[i] EXCEPT !.accepted = TRUE]
    BY <1>1, <1>2, <1>3 DEF Types
  <2> QED  BY <2>1, <2>2, <1>2, <1>4 DEF Invitation, Stays, s
<1>6. /\ access' \in [Subjects -> Account \cup {NoAccount}]
      /\ access'[s] = [user |-> u, status |-> "ACTIVE"]
      /\ \A t \in Subjects : t # s => access'[t] = access[t]
  BY <1>1, <1>2, <1>3 DEF Types, Account
<1>7. Types'
  BY <1>1, <1>3, <1>4, <1>6, OneHandler DEF Types, Close
<1>8. AccountExists'
  BY <1>3, <1>6 DEF IInv, AccountExists
<1>9. AccessByInvitation'
  <2>1. ASSUME NEW t \in Subjects, access'[t] # NoAccount
        PROVE  \E j \in DOMAIN invitations' :
                  invitations'[j].accepted /\ invitations'[j].subject = t /\ invitations'[j].email = access'[t].user
    <3>1. CASE t = s
      BY <3>1, <1>2, <1>4, <1>5, <1>6
    <3>2. CASE t # s
      BY <2>1, <3>2, <1>4, <1>6 DEF IInv, AccessByInvitation, Stays
    <3> QED  BY <3>1, <3>2
  <2> QED  BY <2>1 DEF AccessByInvitation, NoAccount
<1>10. OnePending'
  BY <1>4 DEF IInv, OnePending, Stays
<1>11. NoneLeftOver'
  <2>1. ASSUME NEW j \in DOMAIN invitations', Pending(j)'
        PROVE  access'[invitations'[j].subject] = NoAccount
    <3>1. j # i
      BY <2>1, <1>5 DEF Pending
    <3>2. Pending(j) /\ Pending(i) /\ j \in DOMAIN invitations
      BY <2>1, <1>3, <1>4 DEF Consumable
    <3>3. invitations[j].subject # s
      BY <3>1, <3>2, <1>2 DEF IInv, OnePending, s
    <3>4. access[invitations[j].subject] = NoAccount /\ invitations[j].subject \in Subjects
      BY <3>2, <1>1, OneInvitation DEF IInv, NoneLeftOver
    <3> QED  BY <3>2, <3>3, <3>4, <1>4, <1>6 DEF Stays
  <2> QED  BY <2>1 DEF NoneLeftOver, NoAccount
<1>12. ASSUME NEW k \in Handlers  PROVE Carries(k)'
  BY <1>1, <1>3, <1>4, <1>7, OneHandler, StillCarries, ClosedCarriesNothing DEF IInv, Close
<1> QED  BY <1>2, <1>3, <1>5, <1>6, <1>7, <1>8, <1>9, <1>10, <1>11, <1>12 DEF IInv, Carried, i, s

\* Managing accesses, profiles and relationships never brings an access about.
LEMMA ManagingKeeps ==
    ASSUME IInv,
           \/ AccessStep
           \/ \E g \in Guardians, p \in Pupils, b \in BOOLEAN :
               EditFamily(g, p, {}) \/ EditFamily(g, p, {[guardian |-> g, pupil |-> p, billing |-> b]})
    PROVE  IInv' /\ \A s \in Subjects : access[s] = NoAccount => access'[s] = NoAccount
<1>1. Types /\ UNCHANGED <<users, invitations, handler>>
  BY DEF IInv, AccessStep, SetStatus, RemoveAccess, ChangeEmail, EditFamily
<1>2. /\ access' \in [Subjects -> Account \cup {NoAccount}]
      /\ \A s \in Subjects : access'[s] # NoAccount => access[s] # NoAccount /\ access'[s].user = access[s].user
  <2>1. CASE \E s \in Subjects : SetStatus(s, "DISABLED") \/ SetStatus(s, "ACTIVE")
    <3>1. PICK s \in Subjects, status \in {"DISABLED", "ACTIVE"} : SetStatus(s, status)
      BY <2>1
    <3>2. access[s] \in Account /\ [access[s] EXCEPT !.status = status] \in Account
      BY <3>1, <1>1 DEF SetStatus, Types, Account
    <3>3. /\ access' = [access EXCEPT ![s] = [access[s] EXCEPT !.status = status]]
          /\ [access[s] EXCEPT !.status = status].user = access[s].user
          /\ access[s] # NoAccount
      BY <3>1, <3>2, <1>1 DEF SetStatus, Account, Types
    <3> QED  BY <3>2, <3>3, <1>1 DEF Types
  <2>2. CASE \E s \in Subjects : RemoveAccess(s)
    BY <2>2, <1>1 DEF RemoveAccess, Types
  <2>3. CASE UNCHANGED access
    BY <2>3, <1>1 DEF Types
  <2> QED  BY <2>1, <2>2, <2>3 DEF AccessStep, ChangeEmail, EditFamily
<1>3. Types'
  <2>1. profile' \in [Subjects -> Emails \cup {NoOne}]
    BY <1>1 DEF AccessStep, SetStatus, RemoveAccess, ChangeEmail, EditFamily, Types
  <2>2. family' \subseteq [guardian : Guardians, pupil : Pupils, billing : BOOLEAN]
    BY <1>1 DEF AccessStep, SetStatus, RemoveAccess, ChangeEmail, EditFamily, Types
  <2> QED  BY <1>1, <1>2, <2>1, <2>2 DEF Types
<1>4. NoneLeftOver'
  BY <1>1, <1>2, OneInvitation DEF IInv, NoneLeftOver, Pending
<1>5. Carried'
  BY <1>1 DEF IInv, Carried, Carries, Serving
<1> QED
  BY <1>1, <1>2, <1>3, <1>4, <1>5 DEF IInv, AccountExists, AccessByInvitation, OnePending, Pending, NoAccount

-----------------------------------------------------------------------------
(* Theorems *)

LEMMA StepKeeps == IInv /\ [PortalNext]_portalVars => IInv'
<1> SUFFICES ASSUME IInv, [PortalNext]_portalVars  PROVE IInv'
  OBVIOUS
<1>1. CASE InvitationStep
  <2>1. CASE \E h \in Handlers, s \in Subjects : BeginInvite(h, s)
    BY <2>1, BeginInviteKeeps
  <2>2. CASE \E h \in Handlers, i \in DOMAIN invitations :
                BeginResend(h, i) \/ \E u \in users \cup {invitations[i].email} : BeginAccept(h, i, u)
    BY <2>2, BeginResendKeeps, BeginAcceptKeeps
  <2>3. CASE \E h \in Handlers : Invite(h) \/ Resend(h)
    <3>1. PICK h \in Handlers : Invite(h) \/ Resend(h)
      BY <2>3
    <3>2. Types /\ Carries(h)
      BY DEF IInv, Carried
    <3>3. PICK s \in Subjects, e \in Emails : access[s] = NoAccount /\ Replace(s, e) /\ Close(h) /\ Unchanged
      BY <3>1, <3>2, OneInvitation DEF Invite, Resend, Invitable, Carries
    <3> QED  BY <3>3, InvitingKeeps
  <2>4. CASE \E h \in Handlers : Accept(h) \/ GiveUp(h)
    BY <2>4, AcceptKeeps, PortalRequestKeeps
  <2>5. CASE \E i \in DOMAIN invitations : Revoke(i) \/ Expire(i)
    BY <2>5, MarkingKeeps
  <2> QED  BY <1>1, <2>1, <2>2, <2>3, <2>4, <2>5 DEF InvitationStep
<1>2. CASE AccessStep
  BY <1>2, ManagingKeeps
<1>3. CASE RequestStep
  BY <1>3, ManagingKeeps, PortalRequestKeeps DEF RequestStep
<1>4. CASE UNCHANGED portalVars
  BY <1>4 DEF portalVars, IInv, Types, AccountExists, OnePending, NoneLeftOver, AccessByInvitation,
              Carried, Carries, Serving, Pending
<1> QED  BY <1>1, <1>2, <1>3, <1>4 DEF PortalNext

LEMMA Invariance == PortalSpec => []IInv
BY Initially, StepKeeps, PTL DEF PortalSpec

LEMMA ShowsSafe == IInv => PortalTypeOK /\ OneWayIn /\ AccessByInvitation
<1> SUFFICES ASSUME IInv PROVE PortalTypeOK /\ OneWayIn
  BY DEF IInv
<1>1. PortalTypeOK
  BY OneInvitation DEF IInv, Types, AccountExists, PortalTypeOK, Account
<1>2. ASSUME NEW s \in Subjects
      PROVE  LET pending == {i \in DOMAIN invitations :
                               invitations[i].subject = s /\ ~invitations[i].accepted /\ ~invitations[i].revoked}
             IN Cardinality(pending) <= 1 /\ (access[s] # NoAccount => pending = {})
  <2> DEFINE pending == {i \in DOMAIN invitations :
                            invitations[i].subject = s /\ ~invitations[i].accepted /\ ~invitations[i].revoked}
  <2>1. \A i, j \in pending : i = j
    BY DEF IInv, OnePending, Pending
  <2>2. access[s] # NoAccount => pending = {}
    BY DEF IInv, NoneLeftOver, Pending
  <2>3. pending = {} \/ \E i : pending = {i}
    BY <2>1
  <2>4. Cardinality(pending) <= 1
    <3> HIDE DEF pending
    <3>1. CASE pending = {}
      BY <3>1, FS_EmptySet
    <3>2. CASE \E i : pending = {i}
      <4>1. Cardinality(pending) = 1
        BY <3>2, FS_Singleton
      <4> QED  BY <4>1
    <3> QED  BY <3>1, <3>2, <2>3
  <2> QED  BY <2>2, <2>4
<1> QED  BY <1>1, <1>2 DEF OneWayIn

\* Only an acceptance makes an access, and it consumes the invitation that its
\* transaction finds live.
LEMMA BegunByConsuming ==
    ASSUME IInv, [PortalNext]_portalVars, NEW s \in Subjects,
           access[s] = NoAccount, access'[s] # NoAccount
    PROVE  \E i \in DOMAIN invitations :
               /\ invitations[i].subject = s
               /\ ~invitations[i].accepted /\ ~invitations[i].revoked /\ ~invitations[i].expired
               /\ invitations'[i].accepted
<1>1. CASE \E h \in Handlers : Accept(h)
  <2>1. PICK h \in Handlers : Accept(h)
    BY <1>1
  <2> DEFINE i == handler[h].invitation
  <2>2. /\ i \in DOMAIN invitations /\ Consumable(i) /\ invitations'[i].accepted
        /\ \A t \in Subjects : t # invitations[i].subject => access'[t] = access[t]
    BY <2>1, AcceptKeeps
  <2> QED  BY <2>2 DEF Consumable, Pending
<1>2. CASE access' = access
  BY <1>2
<1>3. CASE AccessStep \/ RequestStep
  BY <1>3, ManagingKeeps DEF RequestStep, Enter, Resolve, Show, ShowBilling, Answer, Unchanged
<1>4. access' = access \/ (\E h \in Handlers : Accept(h)) \/ AccessStep \/ RequestStep
  BY DEF PortalNext, InvitationStep, BeginInvite, BeginResend, BeginAccept, Invite, Resend, GiveUp,
         Revoke, Expire, Unchanged, portalVars
<1> QED  BY <1>1, <1>2, <1>3, <1>4

\* A bill is an answer of ShowBilling, which looks at the relationship again.
LEMMA BillShown ==
    ASSUME IInv, [PortalNext]_portalVars, NEW h \in Handlers,
           Serving(h, "portal"), handler'[h] # NoOne, handler'[h].op = "billing"
    PROVE  \E l \in family : l.pupil = handler'[h].pupil /\ l.billing /\ l.guardian \in handler[h].subjects
<1> USE DEF Serving
<1>1. CASE \E p \in Pupils : ShowBilling(h, p)
  <2>1. PICK p \in Pupils : ShowBilling(h, p)
    BY <1>1
  <2>2. PICK g \in Guardians : <<g, p>> \in handler[h].payers /\ [guardian |-> g, pupil |-> p, billing |-> TRUE] \in family
    BY <2>1 DEF ShowBilling, StillPays
  <2>3. g \in handler[h].subjects
    BY <2>2 DEF IInv, Carried, Carries
  <2>4. handler'[h].pupil = p
    BY <2>1 DEF ShowBilling, Answer, IInv, Types
  <2> QED  BY <2>2, <2>3, <2>4
<1>2. CASE handler' = handler
  BY <1>2
<1>3. ASSUME NEW k \in Handlers, NEW r, handler' = [handler EXCEPT ![k] = r],
             k = h => (r = NoOne \/ r.op # "billing")
      PROVE  FALSE
  BY <1>3, OneHandler DEF IInv
<1>4. CASE \E k \in Handlers, u \in Emails : Enter(k, u)
  BY <1>3, <1>4 DEF Enter, Start
<1>5. CASE \E k \in Handlers : Resolve(k)
  <2>1. PICK k \in Handlers : Resolve(k)
    BY <1>5
  <2>2. PICK u, ss, ps, pay :
           handler' = [handler EXCEPT ![k] = [op |-> "portal", user |-> u, subjects |-> ss, pupils |-> ps, payers |-> pay]]
    BY <2>1 DEF Resolve
  <2> QED  BY <2>2, <1>3
<1>6. CASE \E k \in Handlers, p \in Pupils : Show(k, p)
  <2>1. PICK k \in Handlers, p \in Pupils : Show(k, p)
    BY <1>6
  <2>2. handler' = [handler EXCEPT ![k] = [op |-> "lessons", subjects |-> handler[k].subjects, pupil |-> p]]
    BY <2>1 DEF Show, Answer, IInv, Types
  <2> QED  BY <2>2, <1>3
<1>7. CASE \E k \in Handlers, p \in Pupils : k # h /\ ShowBilling(k, p)
  BY <1>3, <1>7 DEF ShowBilling, Answer
<1>8. CASE \E k \in Handlers : Invite(k) \/ Resend(k) \/ Accept(k) \/ GiveUp(k)
  BY <1>3, <1>8 DEF Invite, Resend, Accept, GiveUp, Close
<1>9. CASE \E k \in Handlers, s \in Subjects : BeginInvite(k, s)
  BY <1>3, <1>9 DEF BeginInvite, Start
<1>10. CASE \E k \in Handlers, i \in DOMAIN invitations :
                BeginResend(k, i) \/ \E u \in users \cup {invitations[i].email} : BeginAccept(k, i, u)
  BY <1>3, <1>10 DEF BeginResend, BeginAccept, Start
<1>11. handler' = handler \/ InvitationStep \/ RequestStep
  BY DEF PortalNext, portalVars, AccessStep, SetStatus, RemoveAccess, ChangeEmail
<1> QED  BY <1>1, <1>2, <1>4, <1>5, <1>6, <1>7, <1>8, <1>9, <1>10, <1>11
         DEF InvitationStep, RequestStep, Revoke, Expire, EditFamily

\* Whatever guardians, pupils, addresses and requests there are, and however
\* invitations, acceptances, withdrawals and portal requests overlap: a subject
\* waits for one invitation or has an access, who has an access was invited to
\* it, an access begins by consuming a live invitation, and a bill is shown to
\* a billing contact of the moment.
THEOREM PortalStaysSafe == PortalSpec => PortalSafe
<1>1. IInv /\ [PortalNext]_portalVars =>
        [\A s \in Subjects : (access[s] = NoAccount /\ access'[s] # NoAccount) =>
            \E i \in DOMAIN invitations :
                /\ invitations[i].subject = s
                /\ ~invitations[i].accepted /\ ~invitations[i].revoked /\ ~invitations[i].expired
                /\ invitations'[i].accepted]_portalVars
  BY BegunByConsuming
<1>2. IInv /\ [PortalNext]_portalVars =>
        [\A h \in Handlers : (Serving(h, "portal") /\ handler'[h] # NoOne /\ handler'[h].op = "billing") =>
            \E l \in family : l.pupil = handler'[h].pupil /\ l.billing /\ l.guardian \in handler[h].subjects]_portalVars
  BY BillShown
<1> QED
  BY <1>1, <1>2, Invariance, ShowsSafe, PTL DEF PortalSpec, PortalSafe, ConsumedOnce, BillsOnlyToContacts

-----------------------------------------------------------------------------
(* The links of a student to guardians.  The invariant: a command that      *)
(* changes a link holds it, and finds in it what it read; what it has       *)
(* cleared it holds, and only to take the mark itself.                      *)

EditorRow ==
    [of : Relatives, ask : Asked, update : BOOLEAN, locks : SUBSET Relatives,
     cleared : (SUBSET Relatives) \cup {Absent}, write : Link]

EditorsTyped ==
    /\ link \in [Relatives -> Link \cup {Absent}]
    /\ editor \in [Editors -> EditorRow \cup {Absent}]

LinksHeldOnce == \A p, q \in Editors : p # q => Held(p) \cap Held(q) = {}

\* What the command of q writes follows from what it was asked, and from a link
\* that stays as it was read.
WritesAsAsked(q) ==
    LET r == editor[q]
    IN /\ r.ask.primary # Keep => r.write.primary = r.ask.primary
       /\ r.cleared # Absent => r.write.primary /\ r.cleared \subseteq r.locks
       /\ r.update =>
            /\ r.of \in r.locks
            /\ link[r.of] # Absent
            /\ \A f \in {"primary", "billing"} : r.ask[f] = Keep => r.write[f] = link[r.of][f]

FamilyInv ==
    /\ EditorsTyped
    /\ LinksHeldOnce
    /\ OnePrimary
    /\ \A q \in Editors : ~Free(q) => WritesAsAsked(q)

LEMMA FamilyStarts == FamiliesInit => FamilyInv
BY DEF FamiliesInit, FamilyInv, EditorsTyped, LinksHeldOnce, OnePrimary, Held, Free

LEMMA LinkFields ==
    ASSUME NEW r \in Link
    PROVE  /\ r # Absent /\ r.primary \in BOOLEAN /\ r.billing \in BOOLEAN
           /\ r.primary => r = [primary |-> TRUE, billing |-> r.billing]
           /\ [r EXCEPT !.primary = FALSE] \in Link
           /\ [r EXCEPT !.primary = FALSE].primary = FALSE
           /\ [r EXCEPT !.primary = FALSE] # Absent
BY FamiliesAssumption DEF Link

LEMMA EditorFields ==
    ASSUME EditorsTyped, NEW q \in Editors, ~Free(q)
    PROVE  /\ editor[q] \in EditorRow
           /\ editor[q].of \in Relatives /\ editor[q].ask \in Asked /\ editor[q].write \in Link
           /\ editor[q].update \in BOOLEAN /\ editor[q].locks \subseteq Relatives
           /\ editor[q].cleared \in (SUBSET Relatives) \cup {Absent}
           /\ Held(q) = editor[q].locks
BY DEF EditorsTyped, EditorRow, Free, Held

\* Giving up, or ending without a word.
LEMMA FinishKeeps ==
    ASSUME FamilyInv, NEW q \in Editors, Finish(q)
    PROVE  /\ editor' \in [Editors -> EditorRow \cup {Absent}]
           /\ Free(q)'
           /\ Held(q)' = {}
           /\ \A p \in Editors \ {q} : editor'[p] = editor[p] /\ (Free(p)' <=> Free(p)) /\ Held(p)' = Held(p)
           /\ LinksHeldOnce'
<1>1. /\ editor' \in [Editors -> EditorRow \cup {Absent}]
      /\ editor'[q] = Absent
      /\ \A p \in Editors \ {q} : editor'[p] = editor[p]
  BY DEF Finish, FamilyInv, EditorsTyped
<1>2. Free(q)' /\ Held(q)' = {}
  BY <1>1 DEF Free, Held
<1>3. \A p \in Editors \ {q} : (Free(p)' <=> Free(p)) /\ Held(p)' = Held(p)
  BY <1>1 DEF Free, Held
<1>4. LinksHeldOnce'
  BY <1>2, <1>3 DEF FamilyInv, LinksHeldOnce
<1> QED  BY <1>1, <1>2, <1>3, <1>4

-----------------------------------------------------------------------------
(* One lemma for each command. *)

LEMMA LinkFromLeadKeeps ==
    ASSUME FamilyInv, NEW q \in Editors, NEW g \in Relatives, LinkFromLead(q, g)
    PROVE  FamilyInv'
<1> DEFINE new == [primary |-> FALSE, billing |-> FALSE]
<1>1. new \in Link /\ new.primary = FALSE
  BY DEF Link
<1>2. /\ editor' = editor
      /\ link' \in [Relatives -> Link \cup {Absent}]
      /\ \A h \in Relatives : link'[h] = IF h = g /\ link[h] = Absent THEN new ELSE link[h]
  BY <1>1 DEF LinkFromLead, FamilyInv, EditorsTyped
<1> HIDE DEF new
<1>3. EditorsTyped' /\ LinksHeldOnce'
  BY <1>2 DEF FamilyInv, EditorsTyped, LinksHeldOnce, Held, Free
<1>4. OnePrimary'
  BY <1>1, <1>2 DEF FamilyInv, OnePrimary
<1>5. ASSUME NEW p \in Editors, ~Free(p)'  PROVE WritesAsAsked(p)'
  <2>1. editor'[p] = editor[p] /\ ~Free(p) /\ editor[p].of \in Relatives
    BY <1>2, <1>5, EditorFields DEF Free, FamilyInv
  <2>2. link[editor[p].of] # Absent => link'[editor[p].of] = link[editor[p].of]
    BY <1>2, <2>1
  <2> QED  BY <2>1, <2>2 DEF FamilyInv, WritesAsAsked
<1> QED  BY <1>3, <1>4, <1>5 DEF FamilyInv

LEMMA UnlinkKeeps ==
    ASSUME FamilyInv, NEW q \in Editors, NEW g \in Relatives, Unlink(q, g)
    PROVE  FamilyInv'
<1>1. /\ editor' = editor /\ Free(q)
      /\ link' \in [Relatives -> Link \cup {Absent}]
      /\ \A h \in Relatives : link'[h] = IF h = g THEN Absent ELSE link[h]
      /\ \A p \in Editors \ {q} : g \notin Held(p)
  BY DEF Unlink, Unlocked, FamilyInv, EditorsTyped
<1>2. EditorsTyped' /\ LinksHeldOnce' /\ OnePrimary'
  BY <1>1 DEF FamilyInv, EditorsTyped, LinksHeldOnce, Held, Free, OnePrimary
<1>3. ASSUME NEW p \in Editors, ~Free(p)'  PROVE WritesAsAsked(p)'
  <2>1. editor'[p] = editor[p] /\ ~Free(p) /\ p # q /\ editor[p].of \in Relatives /\ Held(p) = editor[p].locks
    BY <1>1, <1>3, EditorFields DEF Free, FamilyInv
  <2>2. editor[p].update => editor[p].of # g
    BY <1>1, <2>1 DEF FamilyInv, WritesAsAsked
  <2> QED  BY <1>1, <2>1, <2>2 DEF FamilyInv, WritesAsAsked
<1> QED  BY <1>2, <1>3 DEF FamilyInv

\* A command begins, with locks nobody else has.
LEMMA BeginKeeps ==
    ASSUME FamilyInv, NEW q \in Editors, NEW r \in EditorRow,
           editor' = [editor EXCEPT ![q] = r], link' = link,
           \A p \in Editors \ {q} : Held(p) \cap r.locks = {},
           r.ask.primary # Keep => r.write.primary = r.ask.primary,
           r.cleared # Absent => r.write.primary /\ r.cleared \subseteq r.locks,
           r.update =>
              /\ r.of \in r.locks
              /\ link[r.of] # Absent
              /\ \A f \in {"primary", "billing"} : r.ask[f] = Keep => r.write[f] = link[r.of][f]
    PROVE  FamilyInv'
<1>1. /\ editor' \in [Editors -> EditorRow \cup {Absent}]
      /\ editor'[q] = r /\ \A p \in Editors \ {q} : editor'[p] = editor[p]
  BY DEF FamilyInv, EditorsTyped
<1>2. Held(q)' \subseteq r.locks /\ \A p \in Editors \ {q} : Held(p)' = Held(p)
  BY <1>1 DEF Held, Free
<1>3. EditorsTyped' /\ LinksHeldOnce' /\ OnePrimary'
  BY <1>1, <1>2 DEF FamilyInv, EditorsTyped, LinksHeldOnce, OnePrimary
<1>4. ASSUME NEW p \in Editors \ {q}, ~Free(p)'  PROVE WritesAsAsked(p)'
  BY <1>1, <1>4 DEF FamilyInv, WritesAsAsked, Free
<1>5. WritesAsAsked(q)'
  BY <1>1 DEF WritesAsAsked
<1> QED  BY <1>3, <1>4, <1>5 DEF FamilyInv

LEMMA BeginLinkKeeps ==
    ASSUME FamilyInv, NEW q \in Editors, NEW g \in Relatives, NEW ask \in Asked, BeginLink(q, g, ask)
    PROVE  FamilyInv'
<1> DEFINE now == IF link[g] = Absent THEN [primary |-> FALSE, billing |-> FALSE] ELSE link[g]
           w == [primary |-> Given(ask.primary, now.primary), billing |-> Given(ask.billing, now.billing)]
           r == [of |-> g, ask |-> ask, update |-> link[g] # Absent, locks |-> LocksTaken(Linked), cleared |-> Absent, write |-> w]
<1>1. now \in Link /\ (link[g] # Absent => now = link[g] /\ g \in Linked) /\ Linked \subseteq Relatives
  BY DEF FamilyInv, EditorsTyped, Link, Linked
<1>2. ask.primary \in BOOLEAN \cup {Keep} /\ ask.billing \in BOOLEAN \cup {Keep}
  BY DEF Asked
<1>3. now.primary \in BOOLEAN /\ now.billing \in BOOLEAN
  BY <1>1 DEF Link
<1> HIDE DEF now
<1>4. /\ w \in Link
      /\ w.primary = Given(ask.primary, now.primary) /\ w.billing = Given(ask.billing, now.billing)
  BY <1>2, <1>3 DEF Given, Link
<1>5. /\ editor' = [editor EXCEPT ![q] = r] /\ link' = link /\ Unlocked(q, Linked)
  BY DEF BeginLink, now
<1> HIDE DEF w
<1>12. PICK u \in BOOLEAN : u <=> link[g] # Absent
  OBVIOUS
<1>6. /\ r = [of |-> g, ask |-> ask, update |-> u, locks |-> Linked, cleared |-> Absent, write |-> w]
      /\ Linked \in SUBSET Relatives /\ Absent \in (SUBSET Relatives) \cup {Absent}
  BY <1>1, <1>12 DEF LocksTaken
<1> HIDE DEF r
<1>13. /\ r \in EditorRow /\ r.locks = Linked /\ r.of = g /\ r.ask = ask /\ r.write = w /\ r.cleared = Absent
       /\ r.update <=> link[g] # Absent
  BY <1>12, <1>4, <1>6 DEF EditorRow
<1>7. \A f \in {"primary", "billing"} : ask[f] = Keep => w[f] = now[f]
  BY <1>4 DEF Given
<1>8. ask.primary # Keep => w.primary = ask.primary
  BY <1>4 DEF Given
<1>9. \A p \in Editors \ {q} : Held(p) \cap r.locks = {}
  BY <1>5, <1>13 DEF Unlocked
<1>10. r.update =>
              /\ r.of \in r.locks
              /\ link[r.of] # Absent
              /\ \A f \in {"primary", "billing"} : r.ask[f] = Keep => r.write[f] = link[r.of][f]
  BY <1>1, <1>13, <1>7
<1>11. /\ r.ask.primary # Keep => r.write.primary = r.ask.primary
       /\ r.cleared # Absent => r.write.primary /\ r.cleared \subseteq r.locks
  BY <1>13, <1>8
<1> QED  BY <1>5, <1>13, <1>9, <1>10, <1>11, BeginKeeps

LEMMA BeginCreateKeeps ==
    ASSUME FamilyInv, NEW q \in Editors, NEW g \in Relatives, NEW ask \in Asked, BeginCreate(q, g, ask)
    PROVE  FamilyInv'
<1> DEFINE w == [primary |-> Given(ask.primary, FALSE), billing |-> Given(ask.billing, FALSE)]
           r == [of |-> g, ask |-> ask, update |-> FALSE, locks |-> {}, cleared |-> Absent, write |-> w]
<1>1. ask.primary \in BOOLEAN \cup {Keep} /\ ask.billing \in BOOLEAN \cup {Keep}
  BY DEF Asked
<1>2. w \in Link /\ (ask.primary # Keep => w.primary = ask.primary)
  BY <1>1 DEF Given, Link
<1>3. editor' = [editor EXCEPT ![q] = r] /\ link' = link
  BY DEF BeginCreate
<1> HIDE DEF w
<1>4. /\ r \in EditorRow /\ r.locks = {} /\ r.ask = ask /\ r.write = w /\ r.cleared = Absent
      /\ r.update = FALSE
  <2>1. {} \in SUBSET Relatives /\ Absent \in (SUBSET Relatives) \cup {Absent}
    OBVIOUS
  <2> QED  BY <1>2, <2>1 DEF EditorRow
<1> HIDE DEF r
<1> QED  BY <1>2, <1>3, <1>4, BeginKeeps

LEMMA ClearKeeps ==
    ASSUME FamilyInv, NEW q \in Editors, Clear(q)
    PROVE  FamilyInv'
<1> DEFINE e == editor[q]
           r == [e EXCEPT !.cleared = ToClear(q), !.locks = @ \cup ToClear(q)]
<1>1. /\ e \in EditorRow /\ ~Free(q) /\ e.write.primary /\ Unlocked(q, ToClear(q)) /\ WritesAsAsked(q)
      /\ Held(q) = e.locks /\ ToClear(q) \subseteq Relatives /\ link' = link
  BY EditorFields DEF Clear, FamilyInv, ToClear, Linked
<1>2. editor' = [editor EXCEPT ![q] = r]
  BY <1>1 DEF Clear, FamilyInv, EditorsTyped
<1>3. /\ r \in EditorRow /\ r.cleared = ToClear(q) /\ r.locks = e.locks \cup ToClear(q)
      /\ r.of = e.of /\ r.ask = e.ask /\ r.write = e.write /\ r.update = e.update
  BY <1>1 DEF EditorRow
<1> HIDE DEF r
<1>4. \A p \in Editors \ {q} : Held(p) \cap r.locks = {}
  BY <1>1, <1>3 DEF Unlocked, FamilyInv, LinksHeldOnce
<1>5. /\ r.ask.primary # Keep => r.write.primary = r.ask.primary
      /\ r.cleared # Absent => r.write.primary /\ r.cleared \subseteq r.locks
  BY <1>1, <1>3 DEF WritesAsAsked
<1>6. r.update =>
              /\ r.of \in r.locks
              /\ link[r.of] # Absent
              /\ \A f \in {"primary", "billing"} : r.ask[f] = Keep => r.write[f] = link[r.of][f]
  BY <1>1, <1>3 DEF WritesAsAsked
<1> QED  BY <1>1, <1>2, <1>3, <1>4, <1>5, <1>6, BeginKeeps

\* What a command that commits writes: its link, and the marks it takes away.
Taken(q) == IF editor[q].cleared = Absent THEN {} ELSE editor[q].cleared

LEMMA WrittenRows ==
    ASSUME FamilyInv, NEW q \in Editors, Write(q)
    PROVE  /\ link' \in [Relatives -> Link \cup {Absent}]
           /\ link'[editor[q].of] = editor[q].write
           /\ \A g \in Relatives \ {editor[q].of} :
                link'[g] = IF g \in Taken(q) /\ link[g] # Absent THEN [link[g] EXCEPT !.primary = FALSE] ELSE link[g]
<1> DEFINE r == editor[q]
           d == Demoted(IF r.cleared = Absent THEN {} ELSE r.cleared)
<1>1. /\ r \in EditorRow /\ r.of \in Relatives /\ r.write \in Link
      /\ r.update => link[r.of] # Absent
      /\ link \in [Relatives -> Link \cup {Absent}]
  BY EditorFields DEF Write, FamilyInv, WritesAsAsked, EditorsTyped
<1>2. /\ d \in [Relatives -> Link \cup {Absent}]
      /\ \A g \in Relatives :
            d[g] = IF g \in Taken(q) /\ link[g] # Absent THEN [link[g] EXCEPT !.primary = FALSE] ELSE link[g]
  <2>1. \A g \in Linked : link[g] \in Link /\ [link[g] EXCEPT !.primary = FALSE] \in Link
    BY <1>1, LinkFields DEF Linked
  <2> QED  BY <1>1, <2>1 DEF Demoted, Taken, Linked
<1>3. link' = [d EXCEPT ![r.of] = IF r.update /\ @ = Absent THEN @ ELSE r.write]
  BY DEF Write
<1>4. r.update => d[r.of] # Absent
  <2>1. r.update => link[r.of] \in Link
    BY <1>1
  <2> QED  BY <1>1, <1>2, <2>1, LinkFields
<1> HIDE DEF d
<1> QED  BY <1>1, <1>2, <1>3, <1>4

LEMMA WriteKeeps ==
    ASSUME FamilyInv, NEW q \in Editors, Write(q)
    PROVE  FamilyInv'
<1> DEFINE r == editor[q]
<1>1. /\ r \in EditorRow /\ r.of \in Relatives /\ r.write \in Link /\ ~Free(q) /\ WritesAsAsked(q)
      /\ Held(q) = r.locks /\ Finish(q)
      /\ r.write.primary => r.cleared # Absent /\ ~SecondPrimary(q)
      /\ ~r.update => link[r.of] = Absent
      /\ link \in [Relatives -> Link \cup {Absent}]
  BY EditorFields DEF Write, FamilyInv, EditorsTyped
<1>2. /\ link' \in [Relatives -> Link \cup {Absent}]
      /\ link'[r.of] = r.write
      /\ \A g \in Relatives \ {r.of} :
            link'[g] = IF g \in Taken(q) /\ link[g] # Absent THEN [link[g] EXCEPT !.primary = FALSE] ELSE link[g]
  BY WrittenRows
<1>3. EditorsTyped' /\ LinksHeldOnce'
  BY <1>1, <1>2, FinishKeeps DEF EditorsTyped
<1>4. OnePrimary'
  <2>1. ASSUME NEW g \in Relatives \ {r.of}, link'[g] # Absent, link'[g].primary
        PROVE  link[g] # Absent /\ link[g].primary /\ g \notin Taken(q)
    <3>1. CASE g \in Taken(q) /\ link[g] # Absent
      BY <1>1, <1>2, <2>1, <3>1, LinkFields
    <3>2. CASE ~(g \in Taken(q) /\ link[g] # Absent)
      BY <1>2, <2>1, <3>2
    <3> QED  BY <3>1, <3>2
  <2>2. CASE r.write.primary
    <3>1. \A g \in Relatives \ {r.of} : ~(link'[g] # Absent /\ link'[g].primary)
      BY <1>1, <2>1, <2>2 DEF SecondPrimary, Linked, Taken
    <3> QED  BY <3>1 DEF OnePrimary
  <2>3. CASE ~r.write.primary
    BY <1>2, <2>1, <2>3 DEF OnePrimary, FamilyInv
  <2> QED  BY <2>2, <2>3
<1>5. ASSUME NEW p \in Editors, ~Free(p)'  PROVE WritesAsAsked(p)'
  <2>1. /\ p # q /\ editor'[p] = editor[p] /\ ~Free(p) /\ WritesAsAsked(p)
        /\ Held(p) = editor[p].locks /\ editor[p].of \in Relatives
        /\ Held(p) \cap Held(q) = {}
    BY <1>1, <1>5, FinishKeeps, EditorFields DEF FamilyInv, LinksHeldOnce
  <2>2. ASSUME editor[p].update  PROVE link'[editor[p].of] = link[editor[p].of]
    <3>1. editor[p].of \in Held(p) /\ link[editor[p].of] # Absent
      BY <2>1, <2>2 DEF WritesAsAsked
    <3>2. editor[p].of # r.of
      BY <1>1, <2>1, <3>1 DEF WritesAsAsked, EditorRow
    <3>3. editor[p].of \notin Taken(q)
      BY <1>1, <2>1, <3>1 DEF WritesAsAsked, Taken
    <3> QED  BY <1>2, <2>1, <3>2, <3>3
  <2> QED  BY <2>1, <2>2 DEF WritesAsAsked
<1> QED  BY <1>3, <1>4, <1>5 DEF FamilyInv

LEMMA GiveLinkUpKeeps ==
    ASSUME FamilyInv, NEW q \in Editors, GiveLinkUp(q)
    PROVE  FamilyInv'
<1>1. Finish(q) /\ link' = link
  BY DEF GiveLinkUp
<1>2. EditorsTyped' /\ LinksHeldOnce' /\ OnePrimary'
  BY <1>1, FinishKeeps DEF FamilyInv, EditorsTyped, OnePrimary
<1>3. ASSUME NEW p \in Editors, ~Free(p)'  PROVE WritesAsAsked(p)'
  <2>1. p # q /\ editor'[p] = editor[p] /\ ~Free(p)
    BY <1>1, <1>3, FinishKeeps
  <2> QED  BY <1>1, <2>1 DEF FamilyInv, WritesAsAsked
<1> QED  BY <1>2, <1>3 DEF FamilyInv

\* However the staff edit a family at once, each link a command changes is as it
\* read it, no link is locked twice, and one guardian has the primary mark.
THEOREM FamiliesInvariance == FamiliesSpec => []FamilyInv
<1>1. FamilyInv /\ [FamiliesNext]_familiesVars => FamilyInv'
  <2> SUFFICES ASSUME FamilyInv, [FamiliesNext]_familiesVars  PROVE FamilyInv'
    OBVIOUS
  <2>1. CASE \E q \in Editors, g \in Relatives : LinkFromLead(q, g) \/ Unlink(q, g)
    BY <2>1, LinkFromLeadKeeps, UnlinkKeeps
  <2>2. CASE \E q \in Editors, g \in Relatives, ask \in Asked : BeginLink(q, g, ask) \/ BeginCreate(q, g, ask)
    BY <2>2, BeginLinkKeeps, BeginCreateKeeps
  <2>3. CASE \E q \in Editors : Clear(q) \/ Write(q) \/ GiveLinkUp(q)
    BY <2>3, ClearKeeps, WriteKeeps, GiveLinkUpKeeps
  <2>4. CASE UNCHANGED familiesVars
    BY <2>4 DEF familiesVars, FamilyInv, EditorsTyped, LinksHeldOnce, OnePrimary, WritesAsAsked, Held, Free
  <2> QED  BY <2>1, <2>2, <2>3, <2>4 DEF FamiliesNext
<1> QED  BY FamilyStarts, <1>1, PTL DEF FamiliesSpec

\* Only a commit changes a link that stays.
LEMMA OnlyWritesChange ==
    ASSUME FamilyInv, [FamiliesNext]_familiesVars, NEW g \in Relatives,
           link[g] # Absent, link'[g] # Absent, link'[g] # link[g]
    PROVE  \E q \in Editors : Write(q)
<1>1. link \in [Relatives -> Link \cup {Absent}]
  BY DEF FamilyInv, EditorsTyped
<1>2. CASE \E q \in Editors, h \in Relatives : LinkFromLead(q, h) \/ Unlink(q, h)
  BY <1>1, <1>2 DEF LinkFromLead, Unlink
<1>3. CASE \E q \in Editors, h \in Relatives, ask \in Asked : BeginLink(q, h, ask) \/ BeginCreate(q, h, ask)
  BY <1>3 DEF BeginLink, BeginCreate
<1>4. CASE \E q \in Editors : Clear(q) \/ GiveLinkUp(q)
  BY <1>4 DEF Clear, GiveLinkUp
<1>5. CASE UNCHANGED familiesVars
  BY <1>5 DEF familiesVars
<1> QED  BY <1>2, <1>3, <1>4, <1>5 DEF FamiliesNext

Unasked ==
    \A q \in Editors :
          ~Free(q) /\ editor[q].update /\ Free(q)' /\ link' # link =>
              \A f \in {"primary", "billing"} :
                  editor[q].ask[f] = Keep /\ link[editor[q].of] # Absent => link'[editor[q].of][f] = link[editor[q].of][f]

HandedOver ==
    \A g \in Relatives :
          link[g] # Absent /\ link[g].primary /\ link'[g] # Absent /\ ~link'[g].primary =>
              \/ \E h \in Relatives \ {g} : link'[h] # Absent /\ link'[h].primary
              \/ \E q \in Editors : ~Free(q) /\ Free(q)' /\ editor[q].of = g /\ editor[q].ask.primary = FALSE

LEMMA StepKeepsUnasked == FamilyInv /\ [FamiliesNext]_familiesVars => [Unasked]_familiesVars
<1> SUFFICES ASSUME FamilyInv, [FamiliesNext]_familiesVars  PROVE Unasked
  OBVIOUS
<1> SUFFICES ASSUME NEW q \in Editors, ~Free(q), editor[q].update, Free(q)', link' # link,
                    NEW f \in {"primary", "billing"},
                    editor[q].ask[f] = Keep, link[editor[q].of] # Absent
             PROVE  link'[editor[q].of][f] = link[editor[q].of][f]
  BY DEF Unasked
<1>1. WritesAsAsked(q) /\ editor[q].of \in Relatives
  BY EditorFields DEF FamilyInv
<1>2. CASE link'[editor[q].of] = link[editor[q].of]
  BY <1>2
<1>3. CASE \E p \in Editors : Write(p)
  <2>1. PICK p \in Editors : Write(p)
    BY <1>3
  <2>2. p = q
    <3>1. Finish(p)
      BY <2>1 DEF Write
    <3> QED  BY <3>1, FinishKeeps
  <2>3. link'[editor[q].of] = editor[q].write
    BY <2>1, <2>2, WrittenRows
  <2> QED  BY <1>1, <2>3 DEF WritesAsAsked
<1>4. CASE link'[editor[q].of] = Absent
  <2>1. editor[q] # Absent /\ editor'[q] = Absent
    BY DEF Free
  <2>2. CASE \E p \in Editors, h \in Relatives : LinkFromLead(p, h) \/ Unlink(p, h)
    BY <2>1, <2>2 DEF LinkFromLead, Unlink
  <2>3. CASE \E p \in Editors, h \in Relatives, ask \in Asked : BeginLink(p, h, ask) \/ BeginCreate(p, h, ask)
    BY <2>3 DEF BeginLink, BeginCreate
  <2>4. CASE \E p \in Editors : Clear(p) \/ GiveLinkUp(p)
    BY <2>4 DEF Clear, GiveLinkUp
  <2>5. CASE UNCHANGED familiesVars
    BY <2>5 DEF familiesVars
  <2> QED  BY <1>3, <2>2, <2>3, <2>4, <2>5 DEF FamiliesNext
<1> QED  BY <1>1, <1>2, <1>3, <1>4, OnlyWritesChange

LEMMA StepHandsOver == FamilyInv /\ [FamiliesNext]_familiesVars => [HandedOver]_familiesVars
<1> SUFFICES ASSUME FamilyInv, [FamiliesNext]_familiesVars  PROVE HandedOver
  OBVIOUS
<1> SUFFICES ASSUME NEW g \in Relatives, link[g] # Absent, link[g].primary, link'[g] # Absent, ~link'[g].primary
             PROVE  \/ \E h \in Relatives \ {g} : link'[h] # Absent /\ link'[h].primary
                    \/ \E q \in Editors : ~Free(q) /\ Free(q)' /\ editor[q].of = g /\ editor[q].ask.primary = FALSE
  BY DEF HandedOver
<1>1. PICK q \in Editors : Write(q)
  BY OnlyWritesChange
<1>2. /\ ~Free(q) /\ WritesAsAsked(q) /\ Finish(q) /\ editor[q].of \in Relatives
      /\ editor[q].write \in Link /\ editor[q].ask \in Asked
      /\ ~editor[q].update => link[editor[q].of] = Absent
  BY <1>1, EditorFields DEF FamilyInv, Write
<1>3. /\ link'[editor[q].of] = editor[q].write
      /\ g # editor[q].of =>
            link'[g] = IF g \in Taken(q) /\ link[g] # Absent THEN [link[g] EXCEPT !.primary = FALSE] ELSE link[g]
  BY <1>1, WrittenRows
<1>4. CASE g = editor[q].of
  <2>1. editor[q].update /\ ~editor[q].write.primary
    BY <1>2, <1>3, <1>4 DEF FamilyInv
  <2>2. editor[q].ask["primary"] # Keep
    BY <1>2, <1>4, <2>1 DEF WritesAsAsked
  <2>3. editor[q].ask.primary \in BOOLEAN /\ editor[q].ask.primary = editor[q].write.primary
    BY <1>2, <2>2 DEF WritesAsAsked, Asked
  <2>4. Free(q)'
    BY <1>2, FinishKeeps
  <2> QED  BY <1>2, <1>4, <2>1, <2>3, <2>4
<1>5. CASE g # editor[q].of
  <2>1. g \in Taken(q)
    BY <1>3, <1>5
  <2>2. editor[q].write.primary
    BY <1>2, <2>1 DEF Taken, WritesAsAsked
  <2>3. editor[q].write # Absent
    BY <1>2, LinkFields
  <2> QED  BY <1>2, <1>3, <1>5, <2>2, <2>3
<1> QED  BY <1>4, <1>5

\* A student has one primary contact, who loses the mark only to another or by a
\* command about it, and flags nobody gives are not overwritten, for any number of
\* editors and guardians.
THEOREM FamiliesStaySafe == FamiliesSpec => FamiliesSafe
<1>1. FamilyInv => FamiliesTypeOK /\ OnePrimary
  BY EditorFields DEF FamilyInv, FamiliesTypeOK, EditorsTyped, LinksHeldOnce
<1>2. FamiliesSpec => UnaskedIsKept
  <2>1. [Unasked]_familiesVars => [\A q \in Editors :
          ~Free(q) /\ editor[q].update /\ Free(q)' /\ link' # link =>
              \A f \in {"primary", "billing"} :
                  editor[q].ask[f] = Keep /\ link[editor[q].of] # Absent => link'[editor[q].of][f] = link[editor[q].of][f]]_familiesVars
    BY DEF Unasked
  <2> QED  BY <2>1, FamiliesInvariance, StepKeepsUnasked, PTL DEF FamiliesSpec, UnaskedIsKept
<1>3. FamiliesSpec => PrimaryIsHandedOver
  <2>1. [HandedOver]_familiesVars => [\A g \in Relatives :
          link[g] # Absent /\ link[g].primary /\ link'[g] # Absent /\ ~link'[g].primary =>
              \/ \E h \in Relatives \ {g} : link'[h] # Absent /\ link'[h].primary
              \/ \E q \in Editors : ~Free(q) /\ Free(q)' /\ editor[q].of = g /\ editor[q].ask.primary = FALSE]_familiesVars
    BY DEF HandedOver
  <2> QED  BY <2>1, FamiliesInvariance, StepHandsOver, PTL DEF FamiliesSpec, PrimaryIsHandedOver
<1> QED  BY <1>1, <1>2, <1>3, FamiliesInvariance, PTL DEF FamiliesSafe

-----------------------------------------------------------------------------
(* Leads, trials and places.  The invariant: a booking has a place of its     *)
(* own, in the order of booking; what a command saw under its first lock     *)
(* still holds when it commits.                                              *)

TrialRow ==
    [lead : Leads, session : TrialSessions, student : Prospects, place : Nat,
     status : {"BOOKED", "CANCELLED", "COMPLETED", "NO_SHOW"}]

PlaceRow == [student : Prospects, class : TrialClasses, status : {"TRIAL", "ACTIVE", "WITHDRAWN"}, source : Nat]

LeadRow == [status : LeadStatus \cup {"none"}, student : Prospects \cup {Idle}, place : Nat]

ClerkRow ==
    [op : {"lost", "book", "convert", "cancel", "outcome"}, lead : Leads, trial : Nat,
     booked : SUBSET Nat, trialling : SUBSET Nat]

CrmTyped ==
    /\ leads \in [Leads -> LeadRow]
    /\ trials \in Seq(TrialRow)
    /\ places \in Seq(PlaceRow)
    /\ clerk \in [Clerks -> ClerkRow \cup {Idle}]

TrialsPlaced ==
    /\ \A t \in DOMAIN trials :
        trials[t].place \in DOMAIN places /\ places[trials[t].place].student = trials[t].student
    /\ \A t, u \in DOMAIN trials : t < u => trials[t].place < trials[u].place

SourcesEarlier == \A e \in DOMAIN places : places[e].source < e

WonPlaced ==
    \A l \in Leads :
        /\ leads[l].status = "WON" <=> leads[l].place # 0
        /\ leads[l].status = "WON" =>
            /\ leads[l].place \in DOMAIN places
            /\ places[leads[l].place].student = leads[l].student
            /\ \A m \in Leads \ {l} : leads[m].place # leads[l].place
            /\ \A t \in DOMAIN trials : trials[t].place = leads[l].place => trials[t].lead = l

\* Whether a lead may have a booked trial, and must have one.
BookedOnce ==
    \A l \in Leads :
        /\ \A t, u \in BookedOf(l) : t = u
        /\ leads[l].status = "TRIAL_BOOKED" => BookedOf(l) # {}
        /\ leads[l].status \in {"none", "NEW", "CONTACTED", "TRIAL_COMPLETED", "LOST"} => BookedOf(l) = {}

\* What the command of k saw under its first lock.
SawIt(k) ==
    LET r == clerk[k]
    IN /\ r.op \in LeadFirst => r.trial = 0
       /\ r.op \notin LeadFirst =>
            r.trial \in DOMAIN trials /\ trials[r.trial].lead = r.lead /\ trials[r.trial].status = "BOOKED"
       /\ r.op = "lost" =>
            /\ leads[r.lead].status \in {"NEW", "CONTACTED", "QUALIFIED", "TRIAL_BOOKED", "TRIAL_COMPLETED"}
            /\ r.booked = BookedOf(r.lead)
            /\ r.trialling \subseteq DOMAIN places
            /\ \A t \in r.booked : places[trials[t].place].status = "TRIAL" => trials[t].place \in r.trialling
       /\ r.op = "book" => leads[r.lead].status = "QUALIFIED" /\ BookedOf(r.lead) = {}
       /\ r.op = "convert" => leads[r.lead].status \in {"QUALIFIED", "TRIAL_COMPLETED"}

CommandsApart ==
    \A j, k \in Clerks : (j # k /\ clerk[j] # Idle /\ clerk[k] # Idle) =>
        /\ (clerk[j].op \in LeadFirst /\ clerk[k].op \in LeadFirst) => clerk[j].lead # clerk[k].lead
        /\ (clerk[j].op \notin LeadFirst /\ clerk[k].op \notin LeadFirst) => clerk[j].trial # clerk[k].trial

Remembered == \A k \in Clerks : clerk[k] # Idle => SawIt(k)

CrmInv ==
    /\ CrmTyped
    /\ TrialsPlaced
    /\ SourcesEarlier
    /\ WonPlaced
    /\ BookedOnce
    /\ CancelledFreesPlace
    /\ CommandsApart
    /\ Remembered

-----------------------------------------------------------------------------
(* Data *)

LEMMA Statuses ==
    /\ LeadStatus = {"NEW", "CONTACTED", "QUALIFIED", "TRIAL_BOOKED", "TRIAL_COMPLETED", "WON", "LOST"}
    /\ LeadTransitions["NEW"] = {"CONTACTED", "QUALIFIED", "LOST"}
    /\ LeadTransitions["CONTACTED"] = {"QUALIFIED", "LOST"}
    /\ LeadTransitions["QUALIFIED"] = {"TRIAL_BOOKED", "WON", "LOST"}
    /\ LeadTransitions["TRIAL_BOOKED"] = {"TRIAL_COMPLETED", "QUALIFIED", "LOST"}
    /\ LeadTransitions["TRIAL_COMPLETED"] = {"WON", "QUALIFIED", "LOST"}
    /\ LeadTransitions["WON"] = {} /\ LeadTransitions["LOST"] = {}
BY DEF LeadStatus, LeadTransitions

LEMMA WhatIsAllowed ==
    ASSUME NEW l \in Leads, NEW to, TransitionAllowed(l, to)
    PROVE  /\ leads[l].status \notin {"none", "WON", "LOST"} /\ leads[l].status \in LeadStatus
           /\ to = "CONTACTED" => leads[l].status = "NEW"
           /\ to = "TRIAL_COMPLETED" => leads[l].status = "TRIAL_BOOKED"
BY Statuses DEF TransitionAllowed

LEMMA Appended ==
    ASSUME NEW S, NEW s \in Seq(S), NEW x \in S
    PROVE  /\ Append(s, x) \in Seq(S)
           /\ Len(s) \in Nat /\ DOMAIN s = 1..Len(s)
           /\ DOMAIN Append(s, x) = DOMAIN s \cup {Len(s) + 1}
           /\ \A i \in DOMAIN s : Append(s, x)[i] = s[i]
           /\ Append(s, x)[Len(s) + 1] = x
OBVIOUS

LEMMA Mapped ==
    ASSUME NEW S, NEW s \in Seq(S), NEW f \in [DOMAIN s -> S]
    PROVE  f \in Seq(S) /\ Len(f) = Len(s) /\ DOMAIN f = DOMAIN s
<1>1. Len(s) \in Nat /\ DOMAIN s = 1..Len(s)
  OBVIOUS
<1> QED  BY <1>1

LEMMA TrialFields ==
    ASSUME CrmInv, NEW t \in DOMAIN trials
    PROVE  /\ trials[t] \in TrialRow /\ t \in Nat \ {0}
           /\ trials[t].lead \in Leads /\ trials[t].place \in DOMAIN places
           /\ \A s \in {"CANCELLED", "COMPLETED", "NO_SHOW"} :
                LET r == [trials[t] EXCEPT !.status = s]
                IN r \in TrialRow /\ r.lead = trials[t].lead /\ r.student = trials[t].student
                   /\ r.place = trials[t].place /\ r.status = s
<1>1. trials[t] \in TrialRow /\ t \in Nat \ {0}
  BY DEF CrmInv, CrmTyped
<1>2. trials[t].place \in DOMAIN places
  BY DEF CrmInv, TrialsPlaced
<1> QED  BY <1>1, <1>2 DEF TrialRow

LEMMA PlaceFields ==
    ASSUME CrmInv, NEW e \in DOMAIN places
    PROVE  /\ places[e] \in PlaceRow /\ e \in Nat \ {0} /\ e <= Len(places) /\ Len(places) \in Nat
           /\ \A s \in {"ACTIVE", "WITHDRAWN"} :
                LET r == [places[e] EXCEPT !.status = s]
                IN r \in PlaceRow /\ r.student = places[e].student /\ r.source = places[e].source /\ r.status = s
<1>1. places[e] \in PlaceRow /\ e \in Nat \ {0} /\ e <= Len(places) /\ Len(places) \in Nat
  BY DEF CrmInv, CrmTyped
<1> QED  BY <1>1 DEF PlaceRow

LEMMA ClerkFields ==
    ASSUME CrmInv, NEW k \in Clerks, clerk[k] # Idle
    PROVE  /\ clerk[k] \in ClerkRow /\ clerk[k].lead \in Leads /\ SawIt(k)
           /\ clerk[k].op \in {"lost", "book", "convert", "cancel", "outcome"}
<1>1. clerk[k] \in ClerkRow /\ SawIt(k)
  BY DEF CrmInv, CrmTyped, Remembered
<1> QED  BY <1>1 DEF ClerkRow

LEMMA LeadFields ==
    ASSUME CrmInv, NEW l \in Leads
    PROVE  leads[l] \in LeadRow /\ leads[l].status \in LeadStatus \cup {"none"} /\ leads[l].place \in Nat
BY DEF CrmInv, CrmTyped, LeadRow

LEMMA CrmStarts == CrmInit => CrmInv
<1> SUFFICES ASSUME CrmInit  PROVE CrmInv
  OBVIOUS
<1>1. [status |-> "none", student |-> Idle, place |-> 0] \in LeadRow
  BY DEF LeadRow
<1>2. trials = << >> /\ places = << >> /\ \A k \in Clerks : clerk[k] = Idle
  BY DEF CrmInit
<1>3. CrmTyped
  BY <1>1 DEF CrmTyped, CrmInit
<1>4. \A l \in Leads : BookedOf(l) = {}
  BY <1>2 DEF BookedOf, TrialsOf
<1>5. \A l \in Leads : leads[l].status = "none" /\ leads[l].place = 0
  BY DEF CrmInit
<1> QED
  BY <1>2, <1>3, <1>4, <1>5 DEF CrmInv, TrialsPlaced, SourcesEarlier, WonPlaced, BookedOnce, CancelledFreesPlace,
     CommandsApart, Remembered

-----------------------------------------------------------------------------
(* What every step keeps of the rows. *)

TrialsKept ==
    \A t \in DOMAIN trials :
        /\ t \in DOMAIN trials'
        /\ trials'[t].lead = trials[t].lead /\ trials'[t].student = trials[t].student
        /\ trials'[t].place = trials[t].place

PlacesKept ==
    \A e \in DOMAIN places :
        /\ e \in DOMAIN places'
        /\ places'[e].student = places[e].student /\ places'[e].source = places[e].source
        /\ places'[e].status = "TRIAL" => places[e].status = "TRIAL"

\* What a command saw is still so.
LEMMA StillSaw ==
    ASSUME CrmInv, TrialsKept, PlacesKept, NEW j \in Clerks, clerk'[j] = clerk[j], clerk[j] # Idle,
           clerk[j].op \in LeadFirst =>
              /\ leads'[clerk[j].lead] = leads[clerk[j].lead]
              /\ \A t \in DOMAIN trials' : trials'[t].lead = clerk[j].lead => t \in DOMAIN trials /\ trials'[t] = trials[t],
           clerk[j].op \notin LeadFirst => trials'[clerk[j].trial] = trials[clerk[j].trial]
    PROVE  SawIt(j)'
<1> DEFINE r == clerk[j]
<1>1. SawIt(j) /\ r.lead \in Leads
  BY ClerkFields
<1>2. CASE r.op \notin LeadFirst
  BY <1>1, <1>2 DEF SawIt, LeadFirst, TrialsKept
<1>3. CASE r.op \in LeadFirst
  <2>1. \A t \in DOMAIN trials : trials[t].lead = r.lead => t \in DOMAIN trials' /\ trials'[t] = trials[t]
    BY <1>3 DEF TrialsKept
  <2>2. BookedOf(r.lead)' = BookedOf(r.lead)
    BY <1>3, <2>1 DEF BookedOf, TrialsOf
  <2>3. \A t \in BookedOf(r.lead) :
           /\ trials'[t] = trials[t] /\ trials[t].place \in DOMAIN places
           /\ places'[trials[t].place].status = "TRIAL" => places[trials[t].place].status = "TRIAL"
    BY <2>1, TrialFields DEF BookedOf, TrialsOf, PlacesKept
  <2>4. \A e \in DOMAIN places : e \in DOMAIN places'
    BY DEF PlacesKept
  <2>5. leads'[r.lead] = leads[r.lead]
    BY <1>3
  <2>6. CASE r.op = "lost"
    BY <1>1, <2>2, <2>3, <2>4, <2>5, <2>6 DEF SawIt, LeadFirst
  <2>7. CASE r.op \in {"book", "convert"}
    BY <1>1, <2>2, <2>5, <2>7 DEF SawIt, LeadFirst
  <2> QED  BY <1>3, <2>6, <2>7 DEF LeadFirst
<1> QED  BY <1>2, <1>3

\* A command on lead l ends: the others have nothing to do with it.
LEMMA OthersKeep ==
    ASSUME CrmInv, TrialsKept, PlacesKept, NEW k \in Clerks, NEW l \in Leads,
           clerk' = [clerk EXCEPT ![k] = Idle],
           LeadFree(l, k),
           \A m \in Leads \ {l} : leads'[m] = leads[m],
           \A t \in DOMAIN trials' :
              /\ t \notin DOMAIN trials => trials'[t].lead = l
              /\ t \in DOMAIN trials /\ trials[t].lead # l => trials'[t] = trials[t],
           \A j \in Clerks \ {k} : clerk[j] # Idle /\ clerk[j].op \notin LeadFirst => trials'[clerk[j].trial] = trials[clerk[j].trial]
    PROVE  /\ clerk' \in [Clerks -> ClerkRow \cup {Idle}]
           /\ CommandsApart'
           /\ Remembered'
<1>1. /\ clerk' \in [Clerks -> ClerkRow \cup {Idle}]
      /\ clerk'[k] = Idle
      /\ \A j \in Clerks \ {k} : clerk'[j] = clerk[j]
  BY DEF CrmInv, CrmTyped
<1>2. CommandsApart'
  BY <1>1 DEF CrmInv, CommandsApart
<1>3. ASSUME NEW j \in Clerks, clerk'[j] # Idle  PROVE SawIt(j)'
  <2>1. j # k /\ clerk'[j] = clerk[j] /\ clerk[j] # Idle /\ clerk[j].lead \in Leads
    BY <1>1, <1>3, ClerkFields
  <2>2. ASSUME clerk[j].op \in LeadFirst
        PROVE  /\ leads'[clerk[j].lead] = leads[clerk[j].lead]
               /\ \A t \in DOMAIN trials' : trials'[t].lead = clerk[j].lead => t \in DOMAIN trials /\ trials'[t] = trials[t]
    <3>1. clerk[j].lead # l
      BY <2>1, <2>2 DEF LeadFree
    <3>2. \A t \in DOMAIN trials' : trials'[t].lead = clerk[j].lead => t \in DOMAIN trials /\ trials[t].lead # l
      BY <3>1 DEF TrialsKept
    <3> QED  BY <2>1, <3>1, <3>2
  <2>3. clerk[j].op \notin LeadFirst => trials'[clerk[j].trial] = trials[clerk[j].trial]
    BY <2>1
  <2> QED  BY <2>1, <2>2, <2>3, StillSaw
<1> QED  BY <1>1, <1>2, <1>3 DEF Remembered

\* A command begins with a lead or a trial nobody else has.
LEMMA Begun ==
    ASSUME CrmInv, NEW k \in Clerks, NEW r \in ClerkRow, Take(k, r),
           r.op \in LeadFirst => LeadFree(r.lead, k),
           r.op \notin LeadFirst => TrialFree(r.trial, k),
           SawIt(k)'
    PROVE  CrmInv'
<1>1. /\ clerk' \in [Clerks -> ClerkRow \cup {Idle}]
      /\ clerk'[k] = r
      /\ \A j \in Clerks \ {k} : clerk'[j] = clerk[j]
      /\ leads' = leads /\ trials' = trials /\ places' = places
  BY DEF Take, CrmInv, CrmTyped
<1>2. CrmTyped' /\ TrialsPlaced' /\ SourcesEarlier' /\ WonPlaced' /\ BookedOnce' /\ CancelledFreesPlace'
  BY <1>1 DEF CrmInv, CrmTyped, TrialsPlaced, SourcesEarlier, WonPlaced, BookedOnce, CancelledFreesPlace, BookedOf, TrialsOf
<1>3. CommandsApart'
  BY <1>1 DEF CrmInv, CommandsApart, LeadFree, TrialFree
<1>4. \A j \in Clerks \ {k} : clerk'[j] # Idle => SawIt(j)'
  <2>1. TrialsKept /\ PlacesKept
    BY <1>1 DEF TrialsKept, PlacesKept
  <2> QED  BY <1>1, <2>1, StillSaw
<1> QED  BY <1>2, <1>3, <1>4 DEF CrmInv, Remembered

-----------------------------------------------------------------------------
(* Leads *)

\* A lead without a command that holds it changes its status.
LEMMA Turned ==
    ASSUME CrmInv, NEW l \in Leads, NEW to \in LeadStatus \ {"WON"}, Turn(l, to),
           leads[l].status # "WON",
           to = "TRIAL_BOOKED" => BookedOf(l)' # {},
           to \in {"none", "NEW", "CONTACTED", "TRIAL_COMPLETED", "LOST"} => BookedOf(l)' = {},
           \A t, u \in BookedOf(l)' : t = u,
           \A m \in Leads \ {l} : BookedOf(m)' = BookedOf(m),
           TrialsKept, PlacesKept,
           \A t \in DOMAIN trials' \ DOMAIN trials : trials'[t].place \notin DOMAIN places
    PROVE  /\ leads' \in [Leads -> LeadRow] /\ WonPlaced' /\ BookedOnce'
           /\ \A m \in Leads \ {l} : leads'[m] = leads[m]
<1> DEFINE r == [leads[l] EXCEPT !.status = to]
<1>1. r \in LeadRow /\ r.status = to /\ r.place = leads[l].place /\ r.student = leads[l].student
  BY LeadFields DEF LeadRow
<1>2. leads' = [leads EXCEPT ![l] = r] /\ leads \in [Leads -> LeadRow]
  BY DEF Turn, CrmInv, CrmTyped
<1> HIDE DEF r
<1>3. leads' \in [Leads -> LeadRow] /\ leads'[l] = r /\ \A m \in Leads \ {l} : leads'[m] = leads[m]
  BY <1>1, <1>2
<1>4. BookedOnce'
  BY <1>1, <1>3 DEF CrmInv, BookedOnce
<1>5. WonPlaced'
  <2>1. leads'[l].status # "WON" /\ leads'[l].place = 0
    BY <1>1, <1>3 DEF CrmInv, WonPlaced
  <2>2. ASSUME NEW m \in Leads \ {l}, leads[m].status = "WON"
        PROVE  /\ leads[m].place \in DOMAIN places'
               /\ places'[leads[m].place].student = leads[m].student
               /\ \A n \in Leads \ {m} : leads'[n].place # leads[m].place
               /\ \A t \in DOMAIN trials' : trials'[t].place = leads[m].place => trials'[t].lead = m
    <3>1. /\ leads[m].place \in DOMAIN places /\ leads[m].place # 0
          /\ places[leads[m].place].student = leads[m].student
          /\ \A n \in Leads \ {m} : leads[n].place # leads[m].place
          /\ \A t \in DOMAIN trials : trials[t].place = leads[m].place => trials[t].lead = m
      BY <2>2 DEF CrmInv, WonPlaced
    <3>2. \A n \in Leads \ {m} : leads'[n].place # leads[m].place
      BY <1>3, <2>1, <3>1
    <3>3. \A t \in DOMAIN trials' : trials'[t].place = leads[m].place => trials'[t].lead = m
      BY <3>1 DEF TrialsKept
    <3> QED  BY <3>1, <3>2, <3>3 DEF PlacesKept
  <2>3. \A m \in Leads \ {l} : leads[m].status = "WON" <=> leads[m].place # 0
    BY DEF CrmInv, WonPlaced
  <2> QED  BY <1>3, <2>1, <2>2, <2>3 DEF WonPlaced
<1> QED  BY <1>3, <1>4, <1>5

LEMMA OnlyLeadTurns ==
    ASSUME CrmInv, NEW l \in Leads, NEW to \in {"NEW", "CONTACTED", "QUALIFIED"}, Turn(l, to),
           UNCHANGED <<trials, places, lesson, clerk>>,
           \A j \in Clerks : clerk[j] # Idle => ~(clerk[j].op \in LeadFirst /\ clerk[j].lead = l),
           leads[l].status # "WON", to # "QUALIFIED" => leads[l].status \in {"none", "NEW"}
    PROVE  CrmInv'
<1>1. TrialsKept /\ PlacesKept /\ \A m \in Leads : BookedOf(m)' = BookedOf(m)
  BY DEF TrialsKept, PlacesKept, BookedOf, TrialsOf
<1>2. leads' \in [Leads -> LeadRow] /\ WonPlaced' /\ BookedOnce' /\ \A m \in Leads \ {l} : leads'[m] = leads[m]
  <2>1. to \in LeadStatus \ {"WON"}
    BY Statuses
  <2>2. \A t, u \in BookedOf(l) : t = u
    BY DEF CrmInv, BookedOnce
  <2>3. to # "QUALIFIED" => BookedOf(l) = {}
    BY DEF CrmInv, BookedOnce
  <2> QED  BY <1>1, <2>1, <2>2, <2>3, Turned
<1>3. CrmTyped' /\ TrialsPlaced' /\ SourcesEarlier' /\ CancelledFreesPlace' /\ CommandsApart'
  BY <1>2 DEF CrmInv, CrmTyped, TrialsPlaced, SourcesEarlier, CancelledFreesPlace, CommandsApart
<1>4. ASSUME NEW j \in Clerks, clerk[j] # Idle  PROVE SawIt(j)'
  <2>1. clerk[j].lead \in Leads
    BY <1>4, ClerkFields
  <2>2. clerk[j].op \in LeadFirst => clerk[j].lead # l
    BY <1>4
  <2> QED  BY <1>1, <1>2, <1>4, <2>1, <2>2, StillSaw
<1> QED  BY <1>2, <1>3, <1>4 DEF CrmInv, Remembered

LEMMA CreateLeadKeeps ==
    ASSUME CrmInv, NEW l \in Leads, CreateLead(l)
    PROVE  CrmInv'
<1>1. \A j \in Clerks : clerk[j] # Idle => ~(clerk[j].op \in LeadFirst /\ clerk[j].lead = l)
  BY ClerkFields DEF CreateLead, SawIt, LeadFirst
<1> QED  BY <1>1, OnlyLeadTurns DEF CreateLead

LEMMA SimpleTransitionKeeps ==
    ASSUME CrmInv, NEW l \in Leads, NEW to \in {"CONTACTED", "QUALIFIED"}, SimpleTransition(l, to)
    PROVE  CrmInv'
<1>1. \A j \in Clerks : clerk[j] # Idle => ~(clerk[j].op \in LeadFirst /\ clerk[j].lead = l)
  BY CrmAssumption DEF SimpleTransition, LeadFree
<1>2. leads[l].status # "WON" /\ (to # "QUALIFIED" => leads[l].status = "NEW")
  BY WhatIsAllowed DEF SimpleTransition
<1> QED  BY <1>1, <1>2, OnlyLeadTurns DEF SimpleTransition

LEMMA BeginLostKeeps ==
    ASSUME CrmInv, NEW k \in Clerks, NEW l \in Leads, BeginLost(k, l)
    PROVE  CrmInv'
<1> DEFINE es == {e \in {trials[t].place : t \in BookedOf(l)} : places[e].status = "TRIAL"}
           r == [op |-> "lost", lead |-> l, trial |-> 0, booked |-> BookedOf(l), trialling |-> es]
<1>1. BookedOf(l) \subseteq DOMAIN trials /\ es \subseteq DOMAIN places /\ es \subseteq Nat /\ BookedOf(l) \subseteq Nat
  <2>1. BookedOf(l) \subseteq DOMAIN trials
    BY DEF BookedOf, TrialsOf
  <2>2. \A t \in BookedOf(l) : t \in Nat /\ trials[t].place \in DOMAIN places
    BY <2>1, TrialFields
  <2>3. \A e \in DOMAIN places : e \in Nat
    BY PlaceFields
  <2> QED  BY <2>1, <2>2, <2>3
<1>2. \A t \in BookedOf(l) : places[trials[t].place].status = "TRIAL" => trials[t].place \in es
  OBVIOUS
<1>3. Take(k, r) /\ LeadFree(l, k) /\ TransitionAllowed(l, "LOST")
  BY DEF BeginLost
<1> HIDE DEF es
<1>4. /\ r \in ClerkRow /\ r.op = "lost" /\ r.lead = l /\ r.trial = 0 /\ r.booked = BookedOf(l) /\ r.trialling = es
  BY <1>1 DEF ClerkRow
<1>5. leads[l].status \in {"NEW", "CONTACTED", "QUALIFIED", "TRIAL_BOOKED", "TRIAL_COMPLETED"}
  BY <1>3, WhatIsAllowed, Statuses
<1> HIDE DEF r
<1>6. clerk'[k] = r /\ leads' = leads /\ trials' = trials /\ places' = places
  BY <1>3 DEF Take, CrmInv, CrmTyped
<1>7. BookedOf(l)' = BookedOf(l)
  BY <1>6 DEF BookedOf, TrialsOf
<1>8. SawIt(k)'
  BY <1>1, <1>2, <1>4, <1>5, <1>6, <1>7 DEF SawIt, LeadFirst
<1> QED  BY <1>3, <1>4, <1>8, Begun DEF LeadFirst

LEMMA BeginOnLeadKeeps ==
    ASSUME CrmInv, NEW k \in Clerks, NEW l \in Leads, BeginBook(k, l) \/ BeginConvert(k, l)
    PROVE  CrmInv'
<1>1. PICK op \in {"book", "convert"} :
         /\ Take(k, [op |-> op, lead |-> l, trial |-> 0, booked |-> {}, trialling |-> {}])
         /\ LeadFree(l, k)
         /\ op = "book" => leads[l].status = "QUALIFIED" /\ BookedOf(l) = {}
         /\ op = "convert" => leads[l].status \in {"QUALIFIED", "TRIAL_COMPLETED"}
  BY DEF BeginBook, BeginConvert
<1> DEFINE r == [op |-> op, lead |-> l, trial |-> 0, booked |-> {}, trialling |-> {}]
<1>2. r \in ClerkRow /\ r.op = op /\ r.lead = l /\ r.trial = 0
  BY DEF ClerkRow
<1> HIDE DEF r
<1>3. clerk'[k] = r /\ leads' = leads /\ trials' = trials
  BY <1>1 DEF Take, CrmInv, CrmTyped, r
<1>4. BookedOf(l)' = BookedOf(l)
  BY <1>3 DEF BookedOf, TrialsOf
<1>5. SawIt(k)'
  BY <1>1, <1>2, <1>3, <1>4 DEF SawIt, LeadFirst
<1>6. Take(k, r)
  BY <1>1 DEF r
<1> QED  BY <1>1, <1>2, <1>5, <1>6, Begun DEF LeadFirst

LEMMA BeginTrialKeeps ==
    ASSUME CrmInv, NEW k \in Clerks, NEW t \in DOMAIN trials, NEW op \in {"cancel", "outcome"}, BeginTrial(k, t, op)
    PROVE  CrmInv'
<1> DEFINE r == [op |-> op, lead |-> trials[t].lead, trial |-> t, booked |-> {}, trialling |-> {}]
<1>1. r \in ClerkRow /\ r.op = op /\ r.lead = trials[t].lead /\ r.trial = t
  BY TrialFields DEF ClerkRow
<1>2. Take(k, r) /\ TrialFree(t, k) /\ trials[t].status = "BOOKED"
  BY DEF BeginTrial
<1> HIDE DEF r
<1>3. clerk'[k] = r /\ leads' = leads /\ trials' = trials
  BY <1>2 DEF Take, CrmInv, CrmTyped
<1>4. SawIt(k)'
  BY <1>1, <1>2, <1>3 DEF SawIt, LeadFirst
<1> QED  BY <1>1, <1>2, <1>4, Begun DEF LeadFirst

-----------------------------------------------------------------------------
(* Commits that change no lead's place *)

\* The trials ts with another status.
Become(ts, s) == [t \in DOMAIN trials |-> IF t \in ts THEN [trials[t] EXCEPT !.status = s] ELSE trials[t]]

\* Of the lead l some bookings get another status, and the places es close.
LEMMA Closed ==
    ASSUME CrmInv, NEW l \in Leads, NEW ts \in SUBSET BookedOf(l),
           NEW s \in {"CANCELLED", "COMPLETED", "NO_SHOW"}, NEW es \in SUBSET DOMAIN places,
           trials' = Become(ts, s),
           places' = Withdrawn(es),
           s = "CANCELLED" => \A t \in ts : places[trials[t].place].status = "TRIAL" => trials[t].place \in es
    PROVE  /\ trials' \in Seq(TrialRow) /\ places' \in Seq(PlaceRow)
           /\ TrialsKept /\ PlacesKept /\ TrialsPlaced' /\ SourcesEarlier' /\ CancelledFreesPlace'
           /\ DOMAIN trials' = DOMAIN trials
           /\ \A t \in DOMAIN trials \ ts : trials'[t] = trials[t]
           /\ BookedOf(l)' = BookedOf(l) \ ts
           /\ \A m \in Leads \ {l} : BookedOf(m)' = BookedOf(m)
<1>1. trials \in Seq(TrialRow) /\ places \in Seq(PlaceRow)
  BY DEF CrmInv, CrmTyped
<1>2. ts \subseteq DOMAIN trials /\ \A t \in ts : trials[t].lead = l
  BY DEF BookedOf, TrialsOf
<1>3. trials' \in [DOMAIN trials -> TrialRow]
  BY <1>2, TrialFields DEF Become
<1>4. places' \in [DOMAIN places -> PlaceRow]
  BY PlaceFields DEF Withdrawn
<1>5. /\ trials' \in Seq(TrialRow) /\ DOMAIN trials' = DOMAIN trials
      /\ places' \in Seq(PlaceRow) /\ DOMAIN places' = DOMAIN places
  BY <1>1, <1>3, <1>4, Mapped
<1>6. \A t \in DOMAIN trials :
         /\ t \in ts => trials'[t] = [trials[t] EXCEPT !.status = s]
         /\ t \notin ts => trials'[t] = trials[t]
  BY DEF Become
<1>7. \A t \in DOMAIN trials :
         /\ trials'[t].lead = trials[t].lead /\ trials'[t].student = trials[t].student /\ trials'[t].place = trials[t].place
         /\ trials'[t].status = IF t \in ts THEN s ELSE trials[t].status
  <2> SUFFICES ASSUME NEW t \in DOMAIN trials
               PROVE  /\ trials'[t].lead = trials[t].lead /\ trials'[t].student = trials[t].student
                      /\ trials'[t].place = trials[t].place
                      /\ trials'[t].status = IF t \in ts THEN s ELSE trials[t].status
    OBVIOUS
  <2>1. trials[t] \in TrialRow
    BY TrialFields
  <2>2. CASE t \in ts
    BY <1>6, <2>1, <2>2 DEF TrialRow
  <2>3. CASE t \notin ts
    BY <1>6, <2>3
  <2> QED  BY <2>2, <2>3
<1>8. \A e \in DOMAIN places :
         /\ e \in es => places'[e] = [places[e] EXCEPT !.status = "WITHDRAWN"]
         /\ e \notin es => places'[e] = places[e]
  BY DEF Withdrawn
<1>9. \A e \in DOMAIN places :
         /\ places'[e].student = places[e].student /\ places'[e].source = places[e].source
         /\ places'[e].status = IF e \in es THEN "WITHDRAWN" ELSE places[e].status
  BY <1>8, PlaceFields
<1>10. TrialsKept /\ PlacesKept
  BY <1>5, <1>7, <1>9 DEF TrialsKept, PlacesKept
<1>11. TrialsPlaced' /\ SourcesEarlier'
  BY <1>5, <1>7, <1>9, TrialFields DEF TrialsPlaced, SourcesEarlier, CrmInv
<1>12. CancelledFreesPlace'
  <2> SUFFICES ASSUME NEW t \in DOMAIN trials, trials'[t].status = "CANCELLED"
               PROVE  places'[trials'[t].place].status # "TRIAL"
    BY <1>5 DEF CancelledFreesPlace
  <2>1. trials[t].place \in DOMAIN places /\ trials'[t].place = trials[t].place
    BY <1>7, TrialFields
  <2>2. CASE t \in ts
    <3>1. s = "CANCELLED"
      BY <1>7, <2>2
    <3>2. places[trials[t].place].status = "TRIAL" => trials[t].place \in es
      BY <2>2, <3>1
    <3> QED  BY <1>9, <2>1, <3>2
  <2>3. CASE t \notin ts
    BY <1>7, <1>9, <2>1, <2>3 DEF CancelledFreesPlace, CrmInv
  <2> QED  BY <2>2, <2>3
<1>13. BookedOf(l)' = BookedOf(l) \ ts
  BY <1>5, <1>7 DEF BookedOf, TrialsOf
<1>14. \A m \in Leads \ {l} : BookedOf(m)' = BookedOf(m)
  BY <1>2, <1>5, <1>7 DEF BookedOf, TrialsOf
<1> QED  BY <1>5, <1>6, <1>10, <1>11, <1>12, <1>13, <1>14

\* The lead of a command that took it first is held by no other.
LEMMA LeadHeld ==
    ASSUME CrmInv, NEW k \in Clerks, clerk[k] # Idle, clerk[k].op \in LeadFirst
    PROVE  LeadFree(clerk[k].lead, k)
BY DEF CrmInv, CommandsApart, LeadFree

LEMMA LostKeeps ==
    ASSUME CrmInv, NEW k \in Clerks, Lost(k)
    PROVE  CrmInv'
<1>0. PICK l \in Leads, ts \in SUBSET Nat, es \in SUBSET Nat :
         l = clerk[k].lead /\ ts = clerk[k].booked /\ es = clerk[k].trialling
  BY ClerkFields DEF Lost, ClerkRow
<1>1. /\ clerk[k] # Idle /\ clerk[k].op = "lost" /\ SawIt(k)
      /\ \A t \in ts : TrialFree(t, k)
      /\ Turn(l, "LOST")
      /\ trials' = Become(ts, "CANCELLED")
      /\ places' = Withdrawn(es)
      /\ clerk' = [clerk EXCEPT ![k] = Idle]
  BY <1>0, ClerkFields DEF Lost, LostPlaces, Settle, Become
<1>2. /\ leads[l].status \in {"NEW", "CONTACTED", "QUALIFIED", "TRIAL_BOOKED", "TRIAL_COMPLETED"}
      /\ ts = BookedOf(l) /\ es \subseteq DOMAIN places
      /\ \A t \in ts : places[trials[t].place].status = "TRIAL" => trials[t].place \in es
  BY <1>0, <1>1 DEF SawIt
<1>3. LeadFree(l, k)
  BY <1>0, <1>1, LeadHeld DEF LeadFirst
<1>4. /\ trials' \in Seq(TrialRow) /\ places' \in Seq(PlaceRow)
      /\ TrialsKept /\ PlacesKept /\ TrialsPlaced' /\ SourcesEarlier' /\ CancelledFreesPlace'
      /\ DOMAIN trials' = DOMAIN trials
      /\ \A t \in DOMAIN trials \ ts : trials'[t] = trials[t]
      /\ BookedOf(l)' = BookedOf(l) \ ts
      /\ \A m \in Leads \ {l} : BookedOf(m)' = BookedOf(m)
  <2>1. ts \in SUBSET BookedOf(l) /\ es \in SUBSET DOMAIN places
    BY <1>2
  <2> QED  BY <1>1, <1>2, <2>1, Closed
<1>5. BookedOf(l)' = {}
  BY <1>2, <1>4
<1>6. leads' \in [Leads -> LeadRow] /\ WonPlaced' /\ BookedOnce' /\ \A m \in Leads \ {l} : leads'[m] = leads[m]
  <2>1. "LOST" \in LeadStatus \ {"WON"} /\ "LOST" # "TRIAL_BOOKED" /\ leads[l].status # "WON"
    BY <1>2, Statuses
  <2>2. \A t \in DOMAIN trials' \ DOMAIN trials : trials'[t].place \notin DOMAIN places
    BY <1>4
  <2>3. \A t, u \in BookedOf(l)' : t = u
    BY <1>5
  <2> QED  BY <1>1, <1>4, <1>5, <2>1, <2>2, <2>3, Turned
<1>7. \A t \in ts : trials[t].lead = l /\ t \in DOMAIN trials
  BY <1>2 DEF BookedOf, TrialsOf
<1>8. ASSUME NEW j \in Clerks \ {k}, clerk[j] # Idle, clerk[j].op \notin LeadFirst
      PROVE  trials'[clerk[j].trial] = trials[clerk[j].trial]
  <2>1. clerk[j].trial \in DOMAIN trials
    BY <1>8, ClerkFields DEF SawIt
  <2>2. clerk[j].trial \notin ts
    BY <1>1, <1>8 DEF TrialFree
  <2> QED  BY <1>4, <2>1, <2>2
<1>9. \A t \in DOMAIN trials' :
         /\ t \notin DOMAIN trials => trials'[t].lead = l
         /\ t \in DOMAIN trials /\ trials[t].lead # l => trials'[t] = trials[t]
  BY <1>4, <1>7
<1>10. clerk' \in [Clerks -> ClerkRow \cup {Idle}] /\ CommandsApart' /\ Remembered'
  BY <1>1, <1>3, <1>4, <1>6, <1>8, <1>9, OthersKeep
<1> QED  BY <1>4, <1>6, <1>10 DEF CrmInv, CrmTyped

LEMMA ClosedOne ==
    ASSUME CrmInv, NEW l \in Leads, NEW t0 \in BookedOf(l),
           NEW s \in {"CANCELLED", "COMPLETED", "NO_SHOW"}, NEW es \in SUBSET DOMAIN places,
           trials' = Become({t0}, s),
           places' = Withdrawn(es),
           s = "CANCELLED" /\ places[trials[t0].place].status = "TRIAL" => trials[t0].place \in es
    PROVE  /\ trials' \in Seq(TrialRow) /\ places' \in Seq(PlaceRow)
           /\ TrialsKept /\ PlacesKept /\ TrialsPlaced' /\ SourcesEarlier' /\ CancelledFreesPlace'
           /\ DOMAIN trials' = DOMAIN trials
           /\ \A t \in DOMAIN trials \ {t0} : trials'[t] = trials[t]
           /\ BookedOf(l)' = BookedOf(l) \ {t0}
           /\ \A m \in Leads \ {l} : BookedOf(m)' = BookedOf(m)
<1>1. PICK ts \in SUBSET BookedOf(l) : ts = {t0}
  OBVIOUS
<1>2. s = "CANCELLED" => \A t \in ts : places[trials[t].place].status = "TRIAL" => trials[t].place \in es
  BY <1>1
<1>3. trials' = Become(ts, s)
  BY <1>1
<1>4. /\ trials' \in Seq(TrialRow) /\ places' \in Seq(PlaceRow)
      /\ TrialsKept /\ PlacesKept /\ TrialsPlaced' /\ SourcesEarlier' /\ CancelledFreesPlace'
      /\ DOMAIN trials' = DOMAIN trials
      /\ \A t \in DOMAIN trials \ ts : trials'[t] = trials[t]
      /\ BookedOf(l)' = BookedOf(l) \ ts
      /\ \A m \in Leads \ {l} : BookedOf(m)' = BookedOf(m)
  BY <1>2, <1>3, Closed
<1> QED  BY <1>1, <1>4

\* The booking a command holds is concluded.
LEMMA Concluded ==
    ASSUME CrmInv, NEW k \in Clerks, clerk[k] # Idle, clerk[k].op \notin LeadFirst,
           NEW s \in {"CANCELLED", "COMPLETED", "NO_SHOW"},
           trials' = [trials EXCEPT ![clerk[k].trial].status = s],
           \/ s # "CANCELLED" /\ places' = places
           \/ places' = Withdrawn({f \in {trials[clerk[k].trial].place} : places[f].status = "TRIAL"}),
           clerk' = [clerk EXCEPT ![k] = Idle],
           LeadFree(clerk[k].lead, k),
           \/ leads' = leads /\ leads[clerk[k].lead].status # "TRIAL_BOOKED"
           \/ \E to \in LeadStatus \ {"WON", "TRIAL_BOOKED"} : Turn(clerk[k].lead, to) /\ leads[clerk[k].lead].status # "WON"
    PROVE  CrmInv'
<1>0. PICK l \in Leads, t0 \in DOMAIN trials : l = clerk[k].lead /\ t0 = clerk[k].trial
  BY ClerkFields DEF SawIt
<1> DEFINE fs == {f \in {trials[t0].place} : places[f].status = "TRIAL"}
<1>1. l \in Leads /\ t0 \in DOMAIN trials /\ trials[t0].lead = l /\ trials[t0].status = "BOOKED"
  BY <1>0, ClerkFields DEF SawIt
<1>2. {t0} \subseteq BookedOf(l) /\ trials[t0].place \in DOMAIN places
  BY <1>1, TrialFields DEF BookedOf, TrialsOf
<1>3. BookedOf(l) = {t0}
  BY <1>1, <1>2 DEF CrmInv, BookedOnce
<1>4. trials' = Become({t0}, s)
  BY <1>0, <1>1 DEF CrmInv, CrmTyped, Become
<1>5. \E ps \in SUBSET DOMAIN places :
         /\ places' = Withdrawn(ps)
         /\ s = "CANCELLED" => \A t \in {t0} : places[trials[t].place].status = "TRIAL" => trials[t].place \in ps
  <2>1. CASE s # "CANCELLED" /\ places' = places
    <3>1. places = Withdrawn({})
      BY DEF Withdrawn, CrmInv, CrmTyped
    <3> QED  BY <2>1, <3>1
  <2>2. CASE places' = Withdrawn({f \in {trials[clerk[k].trial].place} : places[f].status = "TRIAL"})
    <3>1. fs \in SUBSET DOMAIN places
      BY <1>2
    <3>2. \A t \in {t0} : places[trials[t].place].status = "TRIAL" => trials[t].place \in fs
      OBVIOUS
    <3>3. places' = Withdrawn(fs)
      BY <1>0, <2>2
    <3> QED  BY <3>1, <3>2, <3>3
  <2> QED  BY <2>1, <2>2
<1>6. PICK ps \in SUBSET DOMAIN places :
         /\ places' = Withdrawn(ps)
         /\ s = "CANCELLED" => \A t \in {t0} : places[trials[t].place].status = "TRIAL" => trials[t].place \in ps
  BY <1>5
<1>12. LeadFree(l, k) /\ clerk' = [clerk EXCEPT ![k] = Idle]
  BY <1>0
<1>13. \/ leads' = leads /\ leads[l].status # "TRIAL_BOOKED"
       \/ \E to \in LeadStatus \ {"WON", "TRIAL_BOOKED"} : Turn(l, to) /\ leads[l].status # "WON"
  BY <1>0
<1>14. \A j \in Clerks \ {k} : clerk[j] # Idle /\ clerk[j].op \notin LeadFirst => clerk[j].trial # t0
  BY <1>0 DEF CrmInv, CommandsApart
<1> HIDE DEF fs
<1>7. /\ trials' \in Seq(TrialRow) /\ places' \in Seq(PlaceRow)
      /\ TrialsKept /\ PlacesKept /\ TrialsPlaced' /\ SourcesEarlier' /\ CancelledFreesPlace'
      /\ DOMAIN trials' = DOMAIN trials
      /\ \A t \in DOMAIN trials \ {t0} : trials'[t] = trials[t]
      /\ BookedOf(l)' = BookedOf(l) \ {t0}
      /\ \A m \in Leads \ {l} : BookedOf(m)' = BookedOf(m)
  <2>1. t0 \in BookedOf(l)
    BY <1>2
  <2>2. places' = Withdrawn(ps)
    BY <1>6
  <2>3. s = "CANCELLED" /\ places[trials[t0].place].status = "TRIAL" => trials[t0].place \in ps
    BY <1>6
  <2>4. l \in Leads /\ trials' = Become({t0}, s) /\ ps \in SUBSET DOMAIN places
    BY <1>1, <1>4, <1>6
  <2> HIDE <1>6
  <2> QED  BY <2>1, <2>2, <2>3, <2>4, ClosedOne
<1>8. BookedOf(l)' = {}
  BY <1>3, <1>7
<1>9. leads' \in [Leads -> LeadRow] /\ WonPlaced' /\ BookedOnce' /\ \A m \in Leads \ {l} : leads'[m] = leads[m]
  <2>1. CASE leads' = leads /\ leads[l].status # "TRIAL_BOOKED"
    <3>1. BookedOnce'
      <4>1. \A m \in Leads : m # l => BookedOf(m)' = BookedOf(m)
        BY <1>7
      <4> QED  BY <1>8, <2>1, <4>1 DEF CrmInv, BookedOnce
    <3>2. WonPlaced'
      BY <1>7, <2>1 DEF CrmInv, WonPlaced, TrialsKept, PlacesKept
    <3> QED  BY <2>1, <3>1, <3>2 DEF CrmInv, CrmTyped
  <2>2. CASE \E to \in LeadStatus \ {"WON", "TRIAL_BOOKED"} : Turn(l, to) /\ leads[l].status # "WON"
    <3>1. PICK to \in LeadStatus \ {"WON", "TRIAL_BOOKED"} : Turn(l, to) /\ leads[l].status # "WON"
      BY <2>2
    <3>2. \A t \in DOMAIN trials' \ DOMAIN trials : trials'[t].place \notin DOMAIN places
      BY <1>7
    <3>3. \A t, u \in BookedOf(l)' : t = u
      BY <1>8
    <3> QED  BY <1>1, <1>7, <1>8, <3>1, <3>2, <3>3, Turned
  <2> QED  BY <1>13, <2>1, <2>2
<1>10. \A t \in DOMAIN trials' :
         /\ t \notin DOMAIN trials => trials'[t].lead = l
         /\ t \in DOMAIN trials /\ trials[t].lead # l => trials'[t] = trials[t]
  BY <1>1, <1>7
<1>11. \A j \in Clerks \ {k} : clerk[j] # Idle /\ clerk[j].op \notin LeadFirst => trials'[clerk[j].trial] = trials[clerk[j].trial]
  <2>1. \A j \in Clerks \ {k} : clerk[j] # Idle /\ clerk[j].op \notin LeadFirst => clerk[j].trial \in DOMAIN trials
    BY ClerkFields DEF SawIt
  <2> QED  BY <1>7, <1>14, <2>1
<1>15. clerk' \in [Clerks -> ClerkRow \cup {Idle}] /\ CommandsApart' /\ Remembered'
  BY <1>1, <1>7, <1>9, <1>10, <1>11, <1>12, OthersKeep
<1> QED  BY <1>7, <1>9, <1>15 DEF CrmInv, CrmTyped

LEMMA CancelTrialKeeps ==
    ASSUME CrmInv, NEW k \in Clerks, CancelTrial(k)
    PROVE  CrmInv'
<1>1. /\ clerk[k] # Idle /\ clerk[k].op \notin LeadFirst /\ LeadFree(clerk[k].lead, k)
      /\ trials' = [trials EXCEPT ![clerk[k].trial].status = "CANCELLED"]
      /\ places' = Withdrawn({f \in {trials[clerk[k].trial].place} : places[f].status = "TRIAL"})
      /\ clerk' = [clerk EXCEPT ![k] = Idle]
  BY DEF CancelTrial, Settle, LeadFirst
<1>2. \/ leads' = leads /\ leads[clerk[k].lead].status # "TRIAL_BOOKED"
      \/ \E to \in LeadStatus \ {"WON", "TRIAL_BOOKED"} : Turn(clerk[k].lead, to) /\ leads[clerk[k].lead].status # "WON"
  BY Statuses DEF CancelTrial
<1> QED  BY <1>1, <1>2, Concluded

LEMMA OutcomeKeeps ==
    ASSUME CrmInv, NEW k \in Clerks, NEW to \in {"TRIAL_COMPLETED", "QUALIFIED", "LOST"},
           NEW attended \in BOOLEAN, Outcome(k, to, attended)
    PROVE  CrmInv'
<1>1. /\ clerk[k] # Idle /\ clerk[k].op \notin LeadFirst /\ LeadFree(clerk[k].lead, k) /\ clerk[k].lead \in Leads
      /\ \E s \in {"COMPLETED", "NO_SHOW"} : trials' = [trials EXCEPT ![clerk[k].trial].status = s]
      /\ places' = places
      /\ clerk' = [clerk EXCEPT ![k] = Idle]
      /\ TransitionAllowed(clerk[k].lead, to) /\ Turn(clerk[k].lead, to)
  BY ClerkFields DEF Outcome, Settle, LeadFirst, Concludes
<1>2. \E x \in LeadStatus \ {"WON", "TRIAL_BOOKED"} : Turn(clerk[k].lead, x) /\ leads[clerk[k].lead].status # "WON"
  BY <1>1, Statuses, WhatIsAllowed
<1>3. PICK s \in {"COMPLETED", "NO_SHOW"} : trials' = [trials EXCEPT ![clerk[k].trial].status = s]
  BY <1>1
<1> QED  BY <1>1, <1>2, <1>3, Concluded

LEMMA BookKeeps ==
    ASSUME CrmInv, NEW k \in Clerks, NEW s \in TrialSessions, NEW p \in Prospects, Book(k, s, p)
    PROVE  CrmInv'
<1>0. PICK l \in Leads, n \in Nat, t0 \in Nat :
         l = clerk[k].lead /\ n = Len(places) + 1 /\ t0 = Len(trials) + 1
  BY ClerkFields DEF Book, CrmInv, CrmTyped
<1> DEFINE e == [student |-> p, class |-> TrialClassOf[s], status |-> "TRIAL", source |-> 0]
           b == [lead |-> l, session |-> s, student |-> p, place |-> n, status |-> "BOOKED"]
<1>1. /\ clerk[k] # Idle /\ clerk[k].op = "book" /\ l \in Leads /\ SawIt(k)
      /\ places' = Append(places, e) /\ trials' = Append(trials, b)
      /\ Turn(l, "TRIAL_BOOKED")
      /\ clerk' = [clerk EXCEPT ![k] = Idle]
  BY <1>0, ClerkFields DEF Book, Settle
<1>2. leads[l].status = "QUALIFIED" /\ BookedOf(l) = {} /\ LeadFree(l, k)
  BY <1>0, <1>1, LeadHeld DEF SawIt, LeadFirst
<1>3. trials \in Seq(TrialRow) /\ places \in Seq(PlaceRow) /\ Len(trials) \in Nat /\ Len(places) \in Nat
  BY DEF CrmInv, CrmTyped
<1>4. e \in PlaceRow /\ e.student = p /\ e.source = 0
  BY DEF PlaceRow, TrialClasses
<1>5. b \in TrialRow /\ b.lead = l /\ b.student = p /\ b.place = n /\ b.status = "BOOKED"
  BY <1>1, <1>3 DEF TrialRow
<1> HIDE DEF e, b
<1>6. /\ places' \in Seq(PlaceRow) /\ DOMAIN places = 1..Len(places)
      /\ DOMAIN places' = DOMAIN places \cup {n}
      /\ \A i \in DOMAIN places : places'[i] = places[i]
      /\ places'[n] = e
  BY <1>0, <1>1, <1>3, <1>4, Appended
<1>7. /\ trials' \in Seq(TrialRow) /\ DOMAIN trials = 1..Len(trials)
      /\ DOMAIN trials' = DOMAIN trials \cup {t0}
      /\ \A i \in DOMAIN trials : trials'[i] = trials[i]
      /\ trials'[t0] = b
  BY <1>0, <1>1, <1>3, <1>5, Appended
<1>8. n \notin DOMAIN places /\ t0 \notin DOMAIN trials /\ n \in Nat \ {0} /\ t0 \in Nat
      /\ \A i \in DOMAIN places : i < n
  BY <1>0, <1>3, <1>6, <1>7
<1>9. \A i \in DOMAIN trials : i < t0 /\ i \in Nat
  BY <1>0, <1>3, <1>7
<1>10. TrialsKept /\ PlacesKept
  BY <1>6, <1>7 DEF TrialsKept, PlacesKept
<1>11. TrialsPlaced'
  <2>1. \A t \in DOMAIN trials' :
           trials'[t].place \in DOMAIN places' /\ places'[trials'[t].place].student = trials'[t].student
    BY <1>4, <1>5, <1>6, <1>7, TrialFields DEF CrmInv, TrialsPlaced
  <2>2. ASSUME NEW t \in DOMAIN trials', NEW u \in DOMAIN trials', t < u
        PROVE  trials'[t].place < trials'[u].place
    <3>1. t \in DOMAIN trials
      BY <1>7, <1>8, <1>9, <2>2
    <3>2. CASE u \in DOMAIN trials
      BY <1>7, <2>2, <3>1, <3>2 DEF CrmInv, TrialsPlaced
    <3>3. CASE u = t0
      BY <1>5, <1>7, <1>8, <3>1, <3>3, TrialFields
    <3> QED  BY <1>7, <3>2, <3>3
  <2> QED  BY <2>1, <2>2 DEF TrialsPlaced
<1>12. SourcesEarlier'
  BY <1>4, <1>6, <1>8 DEF CrmInv, SourcesEarlier
<1>13. CancelledFreesPlace'
  <2> SUFFICES ASSUME NEW t \in DOMAIN trials', trials'[t].status = "CANCELLED"
               PROVE  places'[trials'[t].place].status # "TRIAL"
    BY DEF CancelledFreesPlace
  <2>1. t \in DOMAIN trials /\ trials'[t] = trials[t]
    BY <1>5, <1>7
  <2>2. trials[t].place \in DOMAIN places
    BY <2>1, TrialFields
  <2> QED  BY <1>6, <2>1, <2>2 DEF CrmInv, CancelledFreesPlace
<1>14. BookedOf(l)' = {t0} /\ \A m \in Leads \ {l} : BookedOf(m)' = BookedOf(m)
  <2>1. \A m : \A t \in DOMAIN trials : t \in BookedOf(m)' <=> t \in BookedOf(m)
    BY <1>7 DEF BookedOf, TrialsOf
  <2>2. \A m : t0 \in BookedOf(m)' <=> m = l
    BY <1>5, <1>7 DEF BookedOf, TrialsOf
  <2>3. \A m : BookedOf(m)' \subseteq DOMAIN trials \cup {t0} /\ BookedOf(m) \subseteq DOMAIN trials
    BY <1>7 DEF BookedOf, TrialsOf
  <2>4. BookedOf(l)' \subseteq {t0} /\ t0 \in BookedOf(l)'
    BY <1>2, <1>7, <2>1, <2>2, <2>3
  <2>5. ASSUME NEW m \in Leads \ {l}  PROVE BookedOf(m)' = BookedOf(m)
    <3>1. \A t \in BookedOf(m)' : t \in BookedOf(m)
      BY <2>1, <2>2, <2>3
    <3>2. \A t \in BookedOf(m) : t \in BookedOf(m)'
      BY <2>1, <2>3
    <3> QED  BY <3>1, <3>2
  <2> QED  BY <2>4, <2>5
<1>15. leads' \in [Leads -> LeadRow] /\ WonPlaced' /\ BookedOnce' /\ \A m \in Leads \ {l} : leads'[m] = leads[m]
  <2>1. \A t \in DOMAIN trials' \ DOMAIN trials : trials'[t].place \notin DOMAIN places
    BY <1>5, <1>7, <1>8
  <2>2. "TRIAL_BOOKED" \in LeadStatus \ {"WON"}
    BY Statuses
  <2>3. \A t, u \in BookedOf(l)' : t = u
    BY <1>14
  <2>4. BookedOf(l)' # {} /\ leads[l].status # "WON"
    BY <1>2, <1>14
  <2> QED  BY <1>1, <1>10, <1>14, <2>1, <2>2, <2>3, <2>4, Turned
<1>16. \A t \in DOMAIN trials' :
         /\ t \notin DOMAIN trials => trials'[t].lead = l
         /\ t \in DOMAIN trials /\ trials[t].lead # l => trials'[t] = trials[t]
  BY <1>5, <1>7
<1>17. \A j \in Clerks \ {k} : clerk[j] # Idle /\ clerk[j].op \notin LeadFirst => trials'[clerk[j].trial] = trials[clerk[j].trial]
  BY <1>7, ClerkFields DEF SawIt
<1>18. clerk' \in [Clerks -> ClerkRow \cup {Idle}] /\ CommandsApart' /\ Remembered'
  BY <1>1, <1>2, <1>10, <1>15, <1>16, <1>17, OthersKeep
<1> QED  BY <1>6, <1>7, <1>11, <1>12, <1>13, <1>15, <1>18 DEF CrmInv, CrmTyped

-----------------------------------------------------------------------------
(* Conversion *)

LEMMA LatestOf ==
    ASSUME CrmInv, NEW es \in SUBSET DOMAIN places, es # {}
    PROVE  Latest(es) \in es /\ \A f \in es : Latest(es) >= f
<1>1. Len(places) \in Nat /\ DOMAIN places = 1..Len(places)
  BY DEF CrmInv, CrmTyped
<1>2. \E e \in es : \A f \in es : e >= f
  BY <1>1, Greatest
<1> QED  BY <1>2 DEF Latest

LEMMA TrialPlacesOf ==
    ASSUME CrmInv, NEW l \in Leads, NEW p
    PROVE  /\ TrialPlaces(l, p) \in SUBSET DOMAIN places
           /\ \A e \in TrialPlaces(l, p) :
                 /\ places[e].status = "TRIAL" /\ places[e].student = p
                 /\ \E t \in DOMAIN trials : trials[t].place = e /\ trials[t].lead = l
BY TrialFields DEF TrialPlaces, TrialsOf

\* An enrollment is added, and perhaps others are closed.
LEMMA Enrolled ==
    ASSUME CrmInv, NEW es \in SUBSET DOMAIN places, NEW r \in PlaceRow,
           r.source = 0 \/ r.source \in DOMAIN places,
           places' = Append(Withdrawn(es), r)
    PROVE  /\ places' \in Seq(PlaceRow) /\ PlacesKept /\ SourcesEarlier'
           /\ Len(places) + 1 \in DOMAIN places' /\ Len(places) + 1 \notin DOMAIN places
           /\ Len(places) + 1 \in Nat \ {0}
           /\ places'[Len(places) + 1] = r
           /\ \A e \in es : places'[e].status = "WITHDRAWN"
<1>1. places \in Seq(PlaceRow) /\ Len(places) \in Nat /\ DOMAIN places = 1..Len(places)
  BY DEF CrmInv, CrmTyped
<1>2. PICK w \in [DOMAIN places -> PlaceRow] : w = Withdrawn(es)
  BY PlaceFields DEF Withdrawn
<1>3. w \in Seq(PlaceRow) /\ Len(w) = Len(places) /\ DOMAIN w = DOMAIN places
  BY <1>1, Mapped
<1>4. \A e \in DOMAIN places :
         /\ e \in es => w[e] = [places[e] EXCEPT !.status = "WITHDRAWN"]
         /\ e \notin es => w[e] = places[e]
  BY <1>2 DEF Withdrawn
<1>5. \A e \in DOMAIN places :
         /\ w[e].student = places[e].student /\ w[e].source = places[e].source
         /\ w[e].status = IF e \in es THEN "WITHDRAWN" ELSE places[e].status
  BY <1>4, PlaceFields
<1>6. /\ places' \in Seq(PlaceRow)
      /\ DOMAIN places' = DOMAIN places \cup {Len(places) + 1}
      /\ \A e \in DOMAIN places : places'[e] = w[e]
      /\ places'[Len(places) + 1] = r
  <2>1. places' = Append(w, r)
    BY <1>2
  <2> QED  BY <1>3, <2>1, Appended
<1>7. PlacesKept
  BY <1>5, <1>6 DEF PlacesKept
<1>8. SourcesEarlier'
  <2>1. \A e \in DOMAIN places : places'[e].source < e
    BY <1>5, <1>6 DEF CrmInv, SourcesEarlier
  <2>2. r.source < Len(places) + 1
    BY <1>1
  <2> QED  BY <1>6, <2>1, <2>2 DEF SourcesEarlier
<1> QED  BY <1>1, <1>5, <1>6, <1>7, <1>8

\* The lead of a conversion is won with a place that is no other lead's.
LEMMA WonKeeps ==
    ASSUME CrmInv, NEW k \in Clerks, clerk[k] # Idle, clerk[k].op = "convert",
           NEW p \in Prospects, NEW e \in Nat \ {0}, Won(k, p, e),
           places' \in Seq(PlaceRow), PlacesKept, SourcesEarlier',
           e \in DOMAIN places', places'[e].student = p,
           \A m \in Leads : m # clerk[k].lead => leads[m].place # e,
           \A t \in DOMAIN trials : trials[t].place = e => trials[t].lead = clerk[k].lead
    PROVE  CrmInv'
<1>1. PICK l \in Leads : l = clerk[k].lead
  BY ClerkFields
<1>2. PICK r \in LeadRow : r = [status |-> "WON", student |-> p, place |-> e]
  BY Statuses DEF LeadRow
<1>3. r.status = "WON" /\ r.student = p /\ r.place = e
  BY <1>2
<1>4. leads' = [leads EXCEPT ![l] = r] /\ trials' = trials /\ clerk' = [clerk EXCEPT ![k] = Idle]
  BY <1>1, <1>2 DEF Won, Settle
<1>5. leads' \in [Leads -> LeadRow] /\ leads'[l] = r /\ \A m \in Leads \ {l} : leads'[m] = leads[m]
  BY <1>4 DEF CrmInv, CrmTyped
<1>6. \A m \in Leads : BookedOf(m)' = BookedOf(m)
  BY <1>4 DEF BookedOf, TrialsOf
<1>7. BookedOnce'
  BY <1>3, <1>5, <1>6 DEF CrmInv, BookedOnce
<1>8. TrialsKept /\ TrialsPlaced' /\ CancelledFreesPlace'
  BY <1>4, TrialFields DEF CrmInv, TrialsKept, TrialsPlaced, CancelledFreesPlace, PlacesKept
<1>9. WonPlaced'
  <2>1. ASSUME NEW m \in Leads \ {l}, leads[m].status = "WON"
        PROVE  /\ leads[m].place \in DOMAIN places'
               /\ places'[leads[m].place].student = leads[m].student
               /\ \A n \in Leads \ {m} : leads'[n].place # leads[m].place
               /\ \A t \in DOMAIN trials' : trials'[t].place = leads[m].place => trials'[t].lead = m
    <3>1. /\ leads[m].place \in DOMAIN places /\ leads[m].place # e
          /\ places[leads[m].place].student = leads[m].student
          /\ \A n \in Leads \ {m} : leads[n].place # leads[m].place
          /\ \A t \in DOMAIN trials : trials[t].place = leads[m].place => trials[t].lead = m
      BY <1>1, <2>1 DEF CrmInv, WonPlaced
    <3>2. \A n \in Leads \ {m} : leads'[n].place # leads[m].place
      BY <1>3, <1>5, <3>1
    <3> QED  BY <1>4, <3>1, <3>2 DEF PlacesKept
  <2>2. \A m \in Leads \ {l} : leads[m].status = "WON" <=> leads[m].place # 0
    BY DEF CrmInv, WonPlaced
  <2>3. \A m \in Leads \ {l} : leads'[m].place # e
    BY <1>1, <1>5
  <2>4. \A t \in DOMAIN trials' : trials'[t].place = e => trials'[t].lead = l
    BY <1>1, <1>4
  <2> QED  BY <1>3, <1>5, <2>1, <2>2, <2>3, <2>4 DEF WonPlaced
<1>10. clerk' \in [Clerks -> ClerkRow \cup {Idle}] /\ CommandsApart' /\ Remembered'
  <2>1. LeadFree(l, k)
    BY <1>1, LeadHeld DEF LeadFirst
  <2> QED  BY <1>4, <1>5, <1>8, <2>1, OthersKeep
<1> QED  BY <1>4, <1>5, <1>7, <1>8, <1>9, <1>10 DEF CrmInv, CrmTyped

\* The place of a trial is won by no lead but that of the trial.
LEMMA TrialPlaceIsLeads ==
    ASSUME CrmInv, NEW t \in DOMAIN trials
    PROVE  /\ \A m \in Leads : m # trials[t].lead => leads[m].place # trials[t].place
           /\ \A u \in DOMAIN trials : trials[u].place = trials[t].place => u = t
<1>1. trials[t].place \in Nat \ {0}
  BY TrialFields, PlaceFields
<1>2. ASSUME NEW m \in Leads, m # trials[t].lead  PROVE leads[m].place # trials[t].place
  BY <1>1, <1>2 DEF CrmInv, WonPlaced
<1>3. ASSUME NEW u \in DOMAIN trials, trials[u].place = trials[t].place  PROVE u = t
  <2>1. t \in Nat /\ u \in Nat /\ trials[u].place \in Nat
    BY <1>1, <1>3, TrialFields
  <2>2. ~(t < u) /\ ~(u < t)
    BY <1>1, <1>3, <2>1 DEF CrmInv, TrialsPlaced
  <2> QED  BY <2>1, <2>2
<1> QED  BY <1>2, <1>3

\* What a conversion does: its lead is won with an ACTIVE place, and the last
\* place the lead had on trial for the student is not on trial any more.
LEMMA Converted ==
    ASSUME CrmInv, NEW k \in Clerks, NEW p \in Prospects, NEW c \in TrialClasses, Convert(k, p, c)
    PROVE  /\ CrmInv'
           /\ clerk[k].lead \in Leads /\ leads[clerk[k].lead].status \in {"QUALIFIED", "TRIAL_COMPLETED"}
           /\ \A l \in Leads : l # clerk[k].lead => leads'[l] = leads[l]
           /\ leads'[clerk[k].lead].student = p
           /\ places'[leads'[clerk[k].lead].place].status = "ACTIVE"
           /\ TrialPlaces(clerk[k].lead, p) # {} =>
                 places'[Latest(TrialPlaces(clerk[k].lead, p))].status # "TRIAL"
<1>1. PICK l \in Leads : l = clerk[k].lead
  BY ClerkFields DEF Convert
<1>2. /\ clerk[k] # Idle /\ clerk[k].op = "convert" /\ leads[l].status \in {"QUALIFIED", "TRIAL_COMPLETED"}
  BY <1>1, ClerkFields DEF Convert, SawIt
<1>3. PICK es \in SUBSET DOMAIN places : es = TrialPlaces(l, p)
  BY TrialPlacesOf
<1>4. \/ es # {} /\ (Promote(k, p, c, Latest(es)) \/ Reenroll(k, p, c, Latest(es)))
      \/ es = {} /\ EnrollDirectly(k, p, c)
  BY <1>1, <1>3 DEF Convert
<1> DEFINE n == Len(places) + 1
<1>5. ASSUME NEW e, Won(k, p, e)
      PROVE  /\ \A m \in Leads : m # l => leads'[m] = leads[m]
             /\ leads'[l].student = p /\ leads'[l].place = e
  BY <1>1, <1>5 DEF Won, CrmInv, CrmTyped
<1>6. \A m \in Leads : leads[m].place # n
  BY PlaceFields, LeadFields DEF CrmInv, WonPlaced, CrmTyped
<1>7. \A t \in DOMAIN trials : trials[t].place # n
  <2>1. n \notin DOMAIN places
    BY DEF CrmInv, CrmTyped
  <2> QED  BY <2>1, TrialFields
<1>8. CASE es # {} /\ Promote(k, p, c, Latest(es))
  <2>1. PICK e \in es : e = Latest(es)
    BY <1>8, LatestOf
  <2>2. places' = [places EXCEPT ![e].status = "ACTIVE"] /\ Won(k, p, e)
    BY <1>8, <2>1 DEF Promote
  <2>3. PICK t \in DOMAIN trials : trials[t].place = e /\ trials[t].lead = l
    BY <1>3, TrialPlacesOf
  <2>4. e \in DOMAIN places /\ places[e].student = p /\ e \in Nat \ {0}
    BY <1>3, TrialPlacesOf, PlaceFields
  <2>5. PICK r \in PlaceRow : r = [places[e] EXCEPT !.status = "ACTIVE"]
    BY <2>4, PlaceFields
  <2>6. r.student = places[e].student /\ r.source = places[e].source /\ r.status = "ACTIVE"
    BY <2>4, <2>5, PlaceFields
  <2>7. /\ places' \in Seq(PlaceRow) /\ DOMAIN places' = DOMAIN places /\ places'[e] = r
        /\ \A f \in DOMAIN places \ {e} : places'[f] = places[f]
    <3>1. places' = [places EXCEPT ![e] = r]
      BY <2>2, <2>5
    <3> QED  BY <2>4, <3>1 DEF CrmInv, CrmTyped
  <2>8. PlacesKept /\ SourcesEarlier'
    BY <2>6, <2>7 DEF PlacesKept, SourcesEarlier, CrmInv
  <2>9. \A m \in Leads : m # l => leads[m].place # e
    BY <2>3, TrialPlaceIsLeads
  <2>10. \A u \in DOMAIN trials : trials[u].place = e => trials[u].lead = l
    BY <2>3, TrialPlaceIsLeads
  <2>11. CrmInv'
    BY <1>1, <1>2, <2>2, <2>4, <2>6, <2>7, <2>8, <2>9, <2>10, WonKeeps
  <2>12. /\ \A m \in Leads : m # l => leads'[m] = leads[m]
         /\ leads'[l].student = p /\ leads'[l].place = e
    BY <1>5, <2>2
  <2> QED  BY <1>1, <1>2, <1>3, <2>1, <2>6, <2>7, <2>11, <2>12
<1>9. CASE es # {} /\ Reenroll(k, p, c, Latest(es))
  <2>1. PICK e \in es : e = Latest(es)
    BY <1>9, LatestOf
  <2>2. PICK r \in PlaceRow : r = [student |-> p, class |-> c, status |-> "ACTIVE", source |-> e]
    BY <2>1, <1>3, PlaceFields DEF PlaceRow
  <2>3. r.source = e /\ r.student = p /\ r.status = "ACTIVE"
    BY <2>2
  <2>4. places' = Append(Withdrawn({e}), r) /\ Won(k, p, n)
    BY <1>9, <2>1, <2>2 DEF Reenroll
  <2>5. PICK fs \in SUBSET DOMAIN places : fs = {e}
    BY <1>3
  <2>6. /\ places' \in Seq(PlaceRow) /\ PlacesKept /\ SourcesEarlier'
        /\ n \in DOMAIN places' /\ n \in Nat \ {0}
        /\ places'[n] = r
        /\ \A f \in fs : places'[f].status = "WITHDRAWN"
    <3>1. places' = Append(Withdrawn(fs), r) /\ r.source \in DOMAIN places
      BY <1>3, <2>3, <2>4, <2>5
    <3> QED  BY <3>1, Enrolled
  <2>7. CrmInv'
    <3> HIDE DEF n
    <3> QED  BY <1>1, <1>2, <1>6, <1>7, <2>3, <2>4, <2>6, WonKeeps
  <2>8. /\ \A m \in Leads : m # l => leads'[m] = leads[m]
        /\ leads'[l].student = p /\ leads'[l].place = n
    BY <1>5, <2>4
  <2>9. places'[e].status = "WITHDRAWN"
    BY <2>5, <2>6
  <2> HIDE DEF n
  <2> QED  BY <1>1, <1>2, <1>3, <2>1, <2>3, <2>6, <2>7, <2>8, <2>9
<1>10. CASE es = {} /\ EnrollDirectly(k, p, c)
  <2>1. PICK r \in PlaceRow : r = [student |-> p, class |-> c, status |-> "ACTIVE", source |-> 0]
    BY DEF PlaceRow
  <2>2. r.source = 0 /\ r.student = p /\ r.status = "ACTIVE"
    BY <2>1
  <2>3. places = Withdrawn({})
    BY DEF Withdrawn, CrmInv, CrmTyped
  <2>4. PICK fs \in SUBSET DOMAIN places : fs = {}
    OBVIOUS
  <2>5. places' = Append(Withdrawn(fs), r) /\ Won(k, p, n)
    BY <1>10, <2>1, <2>3, <2>4 DEF EnrollDirectly
  <2>6. /\ places' \in Seq(PlaceRow) /\ PlacesKept /\ SourcesEarlier'
        /\ n \in DOMAIN places' /\ n \in Nat \ {0}
        /\ places'[n] = r
    BY <2>2, <2>5, Enrolled
  <2>7. CrmInv'
    <3> HIDE DEF n
    <3> QED  BY <1>1, <1>2, <1>6, <1>7, <2>2, <2>5, <2>6, WonKeeps
  <2>8. /\ \A m \in Leads : m # l => leads'[m] = leads[m]
        /\ leads'[l].student = p /\ leads'[l].place = n
    BY <1>5, <2>5
  <2> HIDE DEF n
  <2> QED  BY <1>1, <1>2, <1>3, <1>10, <2>2, <2>6, <2>7, <2>8
<1> QED  BY <1>4, <1>8, <1>9, <1>10

-----------------------------------------------------------------------------
(* The rest *)

LEMMA AbandonKeeps ==
    ASSUME CrmInv, NEW k \in Clerks, Abandon(k)
    PROVE  CrmInv'
<1>1. leads' = leads /\ trials' = trials /\ places' = places /\ clerk' = [clerk EXCEPT ![k] = Idle]
  BY DEF Abandon, Settle
<1>2. /\ clerk' \in [Clerks -> ClerkRow \cup {Idle}]
      /\ clerk'[k] = Idle
      /\ \A j \in Clerks \ {k} : clerk'[j] = clerk[j]
  BY <1>1 DEF CrmInv, CrmTyped
<1>3. CrmTyped' /\ TrialsPlaced' /\ SourcesEarlier' /\ WonPlaced' /\ BookedOnce' /\ CancelledFreesPlace'
  BY <1>1, <1>2 DEF CrmInv, CrmTyped, TrialsPlaced, SourcesEarlier, WonPlaced, BookedOnce, CancelledFreesPlace, BookedOf, TrialsOf
<1>4. CommandsApart'
  BY <1>2 DEF CrmInv, CommandsApart
<1>5. \A j \in Clerks : clerk'[j] # Idle => SawIt(j)'
  <2>1. TrialsKept /\ PlacesKept
    BY <1>1 DEF TrialsKept, PlacesKept
  <2> QED  BY <1>1, <1>2, <2>1, StillSaw
<1> QED  BY <1>3, <1>4, <1>5 DEF CrmInv, Remembered

LEMMA StaffTransitionKeeps ==
    ASSUME CrmInv, NEW e \in DOMAIN places, NEW to \in {"ACTIVE", "WITHDRAWN"}, StaffTransition(e, to)
    PROVE  CrmInv'
<1>1. PICK r \in PlaceRow : r = [places[e] EXCEPT !.status = to]
  BY PlaceFields
<1>2. r.student = places[e].student /\ r.source = places[e].source /\ r.status = to
  BY <1>1, PlaceFields
<1>3. /\ places' \in Seq(PlaceRow) /\ DOMAIN places' = DOMAIN places /\ places'[e] = r
      /\ \A f \in DOMAIN places \ {e} : places'[f] = places[f]
  <2>1. places' = [places EXCEPT ![e] = r]
    BY <1>1 DEF StaffTransition
  <2> QED  BY <2>1 DEF CrmInv, CrmTyped
<1>4. leads' = leads /\ trials' = trials /\ clerk' = clerk
  BY DEF StaffTransition
<1>5. TrialsKept /\ PlacesKept
  BY <1>2, <1>3, <1>4 DEF TrialsKept, PlacesKept
<1>6. CrmTyped' /\ TrialsPlaced' /\ SourcesEarlier'
  <2>1. CrmTyped'
    BY <1>3, <1>4 DEF CrmInv, CrmTyped
  <2>2. TrialsPlaced'
    BY <1>4, <1>5, TrialFields DEF CrmInv, TrialsPlaced, PlacesKept
  <2>3. SourcesEarlier'
    BY <1>3, <1>5 DEF CrmInv, SourcesEarlier, PlacesKept
  <2> QED  BY <2>1, <2>2, <2>3
<1>7. WonPlaced' /\ BookedOnce' /\ CancelledFreesPlace'
  <2>1. WonPlaced'
    BY <1>4, <1>5 DEF CrmInv, WonPlaced, PlacesKept
  <2>2. BookedOnce'
    <3>1. \A m \in Leads : BookedOf(m)' = BookedOf(m)
      BY <1>4 DEF BookedOf, TrialsOf
    <3> QED  BY <1>4, <3>1 DEF CrmInv, BookedOnce
  <2>3. CancelledFreesPlace'
    BY <1>4, <1>5, TrialFields DEF CrmInv, CancelledFreesPlace, PlacesKept
  <2> QED  BY <2>1, <2>2, <2>3
<1>8. CommandsApart'
  BY <1>4 DEF CrmInv, CommandsApart
<1>9. \A j \in Clerks : clerk'[j] # Idle => SawIt(j)'
  BY <1>4, <1>5, StillSaw
<1> QED  BY <1>6, <1>7, <1>8, <1>9 DEF CrmInv, Remembered

LEMMA QuietKeeps ==
    ASSUME CrmInv, UNCHANGED <<leads, trials, places, clerk>>
    PROVE  CrmInv'
BY DEF CrmInv, CrmTyped, TrialsPlaced, SourcesEarlier, WonPlaced, BookedOnce, CancelledFreesPlace, CommandsApart,
   Remembered, SawIt, BookedOf, TrialsOf

LEMMA CrmStep == CrmInv /\ [CrmNext]_crmVars => CrmInv'
<1> SUFFICES ASSUME CrmInv, [CrmNext]_crmVars  PROVE CrmInv'
  OBVIOUS
<1>1. CASE LeadStep
  <2>1. PICK l \in Leads :
           \/ CreateLead(l)
           \/ SimpleTransition(l, "CONTACTED")
           \/ SimpleTransition(l, "QUALIFIED")
           \/ \E k \in Clerks : BeginLost(k, l) \/ BeginBook(k, l) \/ BeginConvert(k, l)
    BY <1>1 DEF LeadStep
  <2>2. CASE CreateLead(l)
    BY <2>2, CreateLeadKeeps
  <2>3. CASE SimpleTransition(l, "CONTACTED") \/ SimpleTransition(l, "QUALIFIED")
    BY <2>3, SimpleTransitionKeeps
  <2>4. CASE \E k \in Clerks : BeginLost(k, l) \/ BeginBook(k, l) \/ BeginConvert(k, l)
    BY <2>4, BeginLostKeeps, BeginOnLeadKeeps
  <2> QED  BY <2>1, <2>2, <2>3, <2>4
<1>2. CASE ClerkStep
  <2>1. PICK k \in Clerks :
           \/ \E t \in DOMAIN trials : BeginTrial(k, t, "cancel") \/ BeginTrial(k, t, "outcome")
           \/ Lost(k)
           \/ CancelTrial(k)
           \/ \E to \in {"TRIAL_COMPLETED", "QUALIFIED", "LOST"}, attended \in BOOLEAN : Outcome(k, to, attended)
           \/ \E s \in TrialSessions, p \in Prospects : Book(k, s, p)
           \/ \E p \in Prospects, c \in TrialClasses : Convert(k, p, c)
           \/ Abandon(k)
    BY <1>2 DEF ClerkStep
  <2>2. CASE \E t \in DOMAIN trials : BeginTrial(k, t, "cancel") \/ BeginTrial(k, t, "outcome")
    BY <2>2, BeginTrialKeeps
  <2>3. CASE Lost(k)
    BY <2>3, LostKeeps
  <2>4. CASE CancelTrial(k)
    BY <2>4, CancelTrialKeeps
  <2>5. CASE \E to \in {"TRIAL_COMPLETED", "QUALIFIED", "LOST"}, attended \in BOOLEAN : Outcome(k, to, attended)
    BY <2>5, OutcomeKeeps
  <2>6. CASE \E s \in TrialSessions, p \in Prospects : Book(k, s, p)
    BY <2>6, BookKeeps
  <2>7. CASE \E p \in Prospects, c \in TrialClasses : Convert(k, p, c)
    BY <2>7, Converted
  <2>8. CASE Abandon(k)
    BY <2>8, AbandonKeeps
  <2> QED  BY <2>1, <2>2, <2>3, <2>4, <2>5, <2>6, <2>7, <2>8
<1>3. CASE \E e \in DOMAIN places : StaffTransition(e, "ACTIVE") \/ StaffTransition(e, "WITHDRAWN")
  BY <1>3, StaffTransitionKeeps
<1>4. CASE \E s \in TrialSessions : FinalizeLesson(s)
  BY <1>4, QuietKeeps DEF FinalizeLesson
<1>5. CASE UNCHANGED crmVars
  BY <1>5, QuietKeeps DEF crmVars
<1> QED  BY <1>1, <1>2, <1>3, <1>4, <1>5 DEF CrmNext

\* The invariant of the leads, their trials and their places.
THEOREM CrmInvariance == CrmSpec => []CrmInv
BY CrmStarts, CrmStep, PTL DEF CrmSpec

-----------------------------------------------------------------------------
(* Steps *)

\* Every step but a conversion leaves the leads, or turns one that is not done.
LEMMA LeadsTurn ==
    ASSUME CrmInv, [CrmNext]_crmVars
    PROVE  \/ \E k \in Clerks, p \in Prospects, c \in TrialClasses : Convert(k, p, c)
           \/ leads' = leads
           \/ \E l \in Leads, to \in LeadStatus \ {"WON"} :
                 /\ Turn(l, to) /\ leads[l].status \notin {"WON", "LOST"}
                 /\ to = "TRIAL_COMPLETED" => leads[l].status = "TRIAL_BOOKED"
<1> DEFINE Turns == \E l \in Leads, to \in LeadStatus \ {"WON"} :
                 /\ Turn(l, to) /\ leads[l].status \notin {"WON", "LOST"}
                 /\ to = "TRIAL_COMPLETED" => leads[l].status = "TRIAL_BOOKED"
<1>1. ASSUME NEW l \in Leads, NEW to \in LeadStatus \ {"WON"}, Turn(l, to), TransitionAllowed(l, to)
      PROVE  Turns
  BY <1>1, WhatIsAllowed
<1>2. ASSUME NEW l \in Leads, NEW to \in {"NEW", "QUALIFIED", "TRIAL_BOOKED", "LOST"}, Turn(l, to),
             leads[l].status \notin {"WON", "LOST"}
      PROVE  Turns
  BY <1>2, Statuses
<1> HIDE DEF Turns
<1>3. CASE LeadStep
  <2>1. PICK l \in Leads :
           \/ CreateLead(l)
           \/ SimpleTransition(l, "CONTACTED")
           \/ SimpleTransition(l, "QUALIFIED")
           \/ \E k \in Clerks : BeginLost(k, l) \/ BeginBook(k, l) \/ BeginConvert(k, l)
    BY <1>3 DEF LeadStep
  <2>2. CASE CreateLead(l)
    BY <1>2, <2>2 DEF CreateLead, Turns
  <2>3. CASE SimpleTransition(l, "CONTACTED") \/ SimpleTransition(l, "QUALIFIED")
    BY <1>1, <2>3, Statuses DEF SimpleTransition, Turns
  <2>4. CASE \E k \in Clerks : BeginLost(k, l) \/ BeginBook(k, l) \/ BeginConvert(k, l)
    BY <2>4 DEF BeginLost, BeginBook, BeginConvert, Take
  <2> QED  BY <2>1, <2>2, <2>3, <2>4
<1>4. ASSUME NEW k \in Clerks, Lost(k) \/ CancelTrial(k) \/ \E s \in TrialSessions, p \in Prospects : Book(k, s, p)
      PROVE  leads' = leads \/ Turns
  <2>1. PICK l \in Leads : l = clerk[k].lead
    BY <1>4, ClerkFields DEF Lost, CancelTrial, Book
  <2>2. SawIt(k)
    BY <1>4, ClerkFields DEF Lost, CancelTrial, Book
  <2>3. CASE Lost(k)
    BY <1>2, <2>1, <2>2, <2>3 DEF Lost, SawIt
  <2>4. CASE CancelTrial(k)
    BY <1>2, <2>1, <2>4 DEF CancelTrial
  <2>5. CASE \E s \in TrialSessions, p \in Prospects : Book(k, s, p)
    BY <1>2, <2>1, <2>2, <2>5 DEF Book, SawIt
  <2> QED  BY <1>4, <2>3, <2>4, <2>5
<1>5. ASSUME NEW k \in Clerks, NEW to \in {"TRIAL_COMPLETED", "QUALIFIED", "LOST"}, NEW attended \in BOOLEAN,
             Outcome(k, to, attended)
      PROVE  Turns
  <2>1. clerk[k].lead \in Leads
    BY <1>5, ClerkFields DEF Outcome
  <2>2. to \in LeadStatus \ {"WON"} /\ Turn(clerk[k].lead, to) /\ TransitionAllowed(clerk[k].lead, to)
    BY <1>5, Statuses DEF Outcome, Concludes
  <2> QED  BY <1>1, <2>1, <2>2
<1>6. CASE ClerkStep
  <2>1. PICK k \in Clerks :
           \/ \E t \in DOMAIN trials : BeginTrial(k, t, "cancel") \/ BeginTrial(k, t, "outcome")
           \/ Lost(k)
           \/ CancelTrial(k)
           \/ \E to \in {"TRIAL_COMPLETED", "QUALIFIED", "LOST"}, attended \in BOOLEAN : Outcome(k, to, attended)
           \/ \E s \in TrialSessions, p \in Prospects : Book(k, s, p)
           \/ \E p \in Prospects, c \in TrialClasses : Convert(k, p, c)
           \/ Abandon(k)
    BY <1>6 DEF ClerkStep
  <2>2. CASE \E t \in DOMAIN trials : BeginTrial(k, t, "cancel") \/ BeginTrial(k, t, "outcome")
    BY <2>2 DEF BeginTrial, Take
  <2>3. CASE Lost(k) \/ CancelTrial(k) \/ \E s \in TrialSessions, p \in Prospects : Book(k, s, p)
    BY <1>4, <2>3 DEF Turns
  <2>4. CASE \E to \in {"TRIAL_COMPLETED", "QUALIFIED", "LOST"}, attended \in BOOLEAN : Outcome(k, to, attended)
    BY <1>5, <2>4 DEF Turns
  <2>5. CASE Abandon(k)
    BY <2>5 DEF Abandon
  <2> QED  BY <2>1, <2>2, <2>3, <2>4, <2>5
<1>7. CASE \E e \in DOMAIN places : StaffTransition(e, "ACTIVE") \/ StaffTransition(e, "WITHDRAWN")
  BY <1>7 DEF StaffTransition
<1>8. CASE \E s \in TrialSessions : FinalizeLesson(s)
  BY <1>8 DEF FinalizeLesson
<1>9. CASE UNCHANGED crmVars
  BY <1>9 DEF crmVars
<1> QED  BY <1>3, <1>6, <1>7, <1>8, <1>9 DEF CrmNext

\* What TurnedLead says: the rows of the leads after a Turn.
LEMMA TurnedRows ==
    ASSUME CrmInv, NEW l \in Leads, NEW to, Turn(l, to)
    PROVE  leads'[l].status = to /\ \A m \in Leads : m # l => leads'[m] = leads[m]
<1>1. leads[l] \in LeadRow
  BY LeadFields
<1>2. [leads[l] EXCEPT !.status = to].status = to
  BY <1>1 DEF LeadRow
<1> QED  BY <1>2 DEF Turn, CrmInv, CrmTyped

LEMMA DoneStays ==
    ASSUME CrmInv, [CrmNext]_crmVars, NEW l \in Leads
    PROVE  /\ leads[l].status \in {"WON", "LOST"} => leads'[l] = leads[l]
           /\ leads'[l].status = "TRIAL_COMPLETED" => leads[l].status \in {"TRIAL_BOOKED", "TRIAL_COMPLETED"}
<1>1. CASE \E k \in Clerks, p \in Prospects, c \in TrialClasses : Convert(k, p, c)
  <2>1. PICK k \in Clerks, p \in Prospects, c \in TrialClasses : Convert(k, p, c)
    BY <1>1
  <2>2. /\ clerk[k].lead \in Leads /\ leads[clerk[k].lead].status \in {"QUALIFIED", "TRIAL_COMPLETED"}
        /\ \A m \in Leads : m # clerk[k].lead => leads'[m] = leads[m]
    BY <2>1, Converted
  <2>3. leads'[clerk[k].lead].status = "WON"
    BY <2>1, <2>2 DEF Convert, Promote, Reenroll, EnrollDirectly, Won, CrmInv, CrmTyped
  <2> QED  BY <2>2, <2>3
<1>2. CASE leads' = leads
  BY <1>2
<1>3. CASE \E m \in Leads, to \in LeadStatus \ {"WON"} :
                 /\ Turn(m, to) /\ leads[m].status \notin {"WON", "LOST"}
                 /\ to = "TRIAL_COMPLETED" => leads[m].status = "TRIAL_BOOKED"
  BY <1>3, TurnedRows
<1> QED  BY <1>1, <1>2, <1>3, LeadsTurn

LEMMA WonEndsTrial ==
    ASSUME CrmInv, [CrmNext]_crmVars, NEW l \in Leads, leads[l].status # "WON", leads'[l].status = "WON"
    PROVE  /\ places'[leads'[l].place].status = "ACTIVE"
           /\ \A t \in DOMAIN trials :
                (/\ trials[t].lead = l /\ trials[t].student = leads'[l].student /\ places[trials[t].place].status = "TRIAL"
                 /\ \A u \in DOMAIN trials : (u > t /\ trials[u].lead = l /\ trials[u].student = trials[t].student)
                                                => places[trials[u].place].status # "TRIAL")
                => places'[trials[t].place].status # "TRIAL"
<1>1. PICK k \in Clerks, p \in Prospects, c \in TrialClasses : Convert(k, p, c)
  BY LeadsTurn, TurnedRows
<1>2. PICK m \in Leads : m = clerk[k].lead
  BY <1>1, Converted
<1>3. PICK es \in SUBSET DOMAIN places : es = TrialPlaces(m, p)
  BY TrialPlacesOf
<1>4. /\ \A n \in Leads : n # m => leads'[n] = leads[n]
      /\ leads'[m].student = p
      /\ places'[leads'[m].place].status = "ACTIVE"
      /\ es # {} => places'[Latest(es)].status # "TRIAL"
  BY <1>1, <1>2, <1>3, Converted
<1>5. m = l
  BY <1>4
<1>6. ASSUME NEW t \in DOMAIN trials,
             trials[t].lead = l, trials[t].student = leads'[l].student, places[trials[t].place].status = "TRIAL",
             \A u \in DOMAIN trials : (u > t /\ trials[u].lead = l /\ trials[u].student = trials[t].student)
                                          => places[trials[u].place].status # "TRIAL"
      PROVE  places'[trials[t].place].status # "TRIAL"
  <2>1. trials[t].place \in es
    <3>1. places[trials[t].place].student = p
      BY <1>4, <1>5, <1>6 DEF CrmInv, TrialsPlaced
    <3> QED  BY <1>3, <1>5, <1>6, <3>1 DEF TrialPlaces, TrialsOf
  <2>2. PICK e \in es : e = Latest(es) /\ e >= trials[t].place
    BY <2>1, LatestOf
  <2>3. PICK u \in DOMAIN trials : trials[u].place = e /\ trials[u].lead = l
    BY <1>3, <1>5, TrialPlacesOf
  <2>4. places[e].status = "TRIAL" /\ places[e].student = p
    BY <1>3, TrialPlacesOf
  <2>5. trials[u].student = trials[t].student
    BY <1>4, <1>5, <1>6, <2>3, <2>4 DEF CrmInv, TrialsPlaced
  <2>6. ~(u > t)
    BY <1>6, <2>3, <2>4, <2>5
  <2>7. ~(u < t)
    <3>1. trials[t].place \in Nat /\ e \in Nat
      BY <2>3, TrialFields, PlaceFields
    <3> QED  BY <2>2, <2>3, <3>1 DEF CrmInv, TrialsPlaced
  <2>8. u = t
    <3>1. t \in Nat /\ u \in Nat
      BY <2>3, TrialFields
    <3> QED  BY <2>6, <2>7, <3>1
  <2> QED  BY <1>4, <2>1, <2>2, <2>3, <2>8
<1> QED  BY <1>4, <1>5, <1>6

\* For any leads, students, clerks and sessions: a lead that waits for a trial has one
\* booked, a cancelled trial gives its place back, a won lead has a place of its own,
\* a conversion ends the trial it follows, and a lead that is won or lost stays so.
THEOREM CrmStaysSafe == CrmSpec => CrmSafe
<1>1. CrmInv => CrmTypeOK /\ BookedLeadHasTrial /\ CancelledFreesPlace /\ WonIsEnrolled
  <2> SUFFICES ASSUME CrmInv  PROVE CrmTypeOK /\ BookedLeadHasTrial /\ CancelledFreesPlace /\ WonIsEnrolled
    OBVIOUS
  <2>1. CrmTypeOK
    <3>1. \A l \in Leads : leads[l].status \in LeadStatus \cup {"none"} /\ (leads[l].status = "WON") = (leads[l].place # 0)
      BY LeadFields DEF CrmInv, WonPlaced
    <3>2. \A e \in DOMAIN places :
             places[e].student \in Prospects /\ places[e].status \in {"TRIAL", "ACTIVE", "WITHDRAWN"} /\ places[e].source < e
      BY PlaceFields DEF CrmInv, SourcesEarlier, PlaceRow
    <3>3. ASSUME NEW j \in Clerks, NEW k \in Clerks, j # k, clerk[j] # Idle, clerk[k] # Idle
          PROVE  /\ clerk[j].trial # 0 => clerk[j].trial # clerk[k].trial
                 /\ (clerk[j].lead = clerk[k].lead) => (clerk[j].trial # 0 \/ clerk[k].trial # 0)
      <4>1. /\ clerk[j].op \in LeadFirst <=> clerk[j].trial = 0
            /\ clerk[k].op \in LeadFirst <=> clerk[k].trial = 0
        BY <3>3, ClerkFields, TrialFields DEF SawIt
      <4> QED  BY <3>3, <4>1 DEF CrmInv, CommandsApart
    <3> QED  BY <3>1, <3>2, <3>3 DEF CrmTypeOK
  <2>2. BookedLeadHasTrial
    <3> SUFFICES ASSUME NEW l \in Leads
                 PROVE  /\ Cardinality(BookedOf(l)) <= 1
                        /\ leads[l].status = "TRIAL_BOOKED" => BookedOf(l) # {}
                        /\ leads[l].status \in {"none", "NEW", "CONTACTED", "TRIAL_COMPLETED", "LOST"} => BookedOf(l) = {}
      <4>1. \A l \in Leads : {t \in DOMAIN trials : trials[t].lead = l /\ trials[t].status = "BOOKED"} = BookedOf(l)
        BY DEF BookedOf, TrialsOf
      <4> QED  BY <4>1 DEF BookedLeadHasTrial
    <3>1. \A t, u \in BookedOf(l) : t = u
      BY DEF CrmInv, BookedOnce
    <3>2. BookedOf(l) = {} \/ \E t : BookedOf(l) = {t}
      BY <3>1
    <3>3. Cardinality(BookedOf(l)) <= 1
      <4>1. CASE BookedOf(l) = {}
        BY <4>1, FS_EmptySet
      <4>2. CASE \E t : BookedOf(l) = {t}
        BY <4>2, FS_Singleton
      <4> QED  BY <3>2, <4>1, <4>2
    <3> QED  BY <3>3 DEF CrmInv, BookedOnce
  <2>3. WonIsEnrolled
    BY DEF CrmInv, WonPlaced, WonIsEnrolled
  <2> QED  BY <2>1, <2>2, <2>3 DEF CrmInv
<1>2. CrmSpec => ConversionEndsTrial
  <2>1. CrmInv /\ [CrmNext]_crmVars => [\A l \in Leads : (leads[l].status # "WON" /\ leads'[l].status = "WON") =>
        /\ places'[leads'[l].place].status = "ACTIVE"
        /\ \A t \in DOMAIN trials :
            (/\ trials[t].lead = l /\ trials[t].student = leads'[l].student /\ places[trials[t].place].status = "TRIAL"
             /\ \A u \in DOMAIN trials : (u > t /\ trials[u].lead = l /\ trials[u].student = trials[t].student)
                                            => places[trials[u].place].status # "TRIAL")
            => places'[trials[t].place].status # "TRIAL"]_crmVars
    BY WonEndsTrial
  <2> QED  BY <2>1, CrmInvariance, PTL DEF CrmSpec, ConversionEndsTrial
<1>3. CrmSpec => DoneIsFinal
  <2>1. CrmInv /\ [CrmNext]_crmVars => [\A l \in Leads :
        /\ leads[l].status \in {"WON", "LOST"} => leads'[l] = leads[l]
        /\ leads'[l].status = "TRIAL_COMPLETED" => leads[l].status \in {"TRIAL_BOOKED", "TRIAL_COMPLETED"}]_crmVars
    BY DoneStays
  <2> QED  BY <2>1, CrmInvariance, PTL DEF CrmSpec, DoneIsFinal
<1> QED  BY <1>1, <1>2, <1>3, CrmInvariance, PTL DEF CrmSafe

-----------------------------------------------------------------------------
(* Assessments and reports.  The invariant: scores are of their forms, what  *)
(* is graded fits the criteria there are now, revisions follow one another,  *)
(* and a report has at most one successor.                                   *)

Score == Nat \cup {NoScore}
ResultRow == [status : {"none", "GRADED", "EXEMPT"}, score : Score, parts : Seq(Nat)]
AssessmentRow == [status : {"none", "DRAFT", "PUBLISHED", "ARCHIVED"}, mode : {"SIMPLE", "RUBRIC"},
                  max : Nat, criteria : Seq(Nat)]
RevisionRow == [of : Assessments \X Gradees, before : ResultRow, after : ResultRow]
ReportRow == [student : Gradees, period : ReportPeriods, status : {"DRAFT", "PUBLISHED", "SUPERSEDED"},
              supersedes : Nat, snapshot : SUBSET (Assessments \X ResultRow)]

ProgressTyped ==
    /\ assessments \in [Assessments -> AssessmentRow]
    /\ results \in [Assessments -> [Gradees -> ResultRow]]
    /\ revisions \in Seq(RevisionRow)
    /\ progress \in Seq(ReportRow)

\* An assessment that is used has its structure, one that is not has no
\* results; and a result fits its assessment.
Fits(a, g) ==
    /\ assessments[a].status = "none" => results[a][g] = Unwritten
    /\ results[a][g].status \in {"none", "EXEMPT"} =>
          results[a][g].score = NoScore /\ results[a][g].parts = << >>
    /\ results[a][g].status = "GRADED" /\ assessments[a].mode = "SIMPLE" => results[a][g].parts = << >>
    /\ results[a][g].status = "GRADED" /\ assessments[a].mode = "RUBRIC" =>
          /\ Len(results[a][g].parts) = Len(assessments[a].criteria)
          /\ \A n \in DOMAIN results[a][g].parts : results[a][g].parts[n] <= assessments[a].criteria[n]
          /\ results[a][g].score = Total(results[a][g].parts)
    /\ assessments[a].status \in {"PUBLISHED", "ARCHIVED"} /\ results[a][g].score # NoScore =>
          results[a][g].score <= assessments[a].max

ResultsFit ==
    /\ \A a \in Assessments : assessments[a].status # "none" =>
          Structured(assessments[a].mode, assessments[a].max, assessments[a].criteria)
    /\ \A a \in Assessments, g \in Gradees : Fits(a, g)

\* Revisions of one result, neighbours in the order they were made.
Follows(m, n) ==
    /\ n < m /\ revisions[m].of = revisions[n].of
    /\ \A k \in DOMAIN revisions : n < k /\ k < m => revisions[k].of # revisions[n].of
IsLast(n) == \A m \in DOMAIN revisions : n < m => revisions[m].of # revisions[n].of

RevisionsFollow ==
    /\ \A n \in DOMAIN revisions : assessments[revisions[n].of[1]].status \in {"PUBLISHED", "ARCHIVED"}
    /\ \A n, m \in DOMAIN revisions : Follows(m, n) => revisions[n].after = revisions[m].before
    /\ \A n \in DOMAIN revisions : IsLast(n) =>
          revisions[n].after = results[revisions[n].of[1]][revisions[n].of[2]]

Supersedes(p, r) == progress[p].supersedes = r

ReportsFollow ==
    /\ \A r \in DOMAIN progress : progress[r].supersedes < r
    /\ \A p, q, r \in DOMAIN progress : Supersedes(p, r) /\ Supersedes(q, r) => p = q
    /\ \A p, r \in DOMAIN progress : Supersedes(p, r) =>
          ((progress[r].status = "SUPERSEDED") <=> (progress[p].status # "DRAFT"))
    /\ \A r \in DOMAIN progress : progress[r].status = "SUPERSEDED" => \E p \in DOMAIN progress : Supersedes(p, r)

ProgressInv == ProgressTyped /\ ResultsFit /\ RevisionsFollow /\ ReportsFollow /\ OneReportPerPeriod

-----------------------------------------------------------------------------
(* Scores *)

LEMMA FixedLength ==
    ASSUME NEW S, NEW n \in Nat, NEW s \in [1..n -> S]
    PROVE  s \in Seq(S) /\ Len(s) = n /\ DOMAIN s = 1..n
OBVIOUS

LEMMA Criteria ==
    ASSUME NEW criteria \in Rubrics
    PROVE  criteria \in Seq(Nat) /\ criteria # << >>
<1>1. PICK n \in 1..MaxCriteria : criteria \in [1..n -> MaxScores]
  BY DEF Rubrics
<1>2. n \in Nat /\ n >= 1 /\ criteria \in [1..n -> Nat]
  <2>1. n \in Nat /\ n >= 1
    BY <1>1
  <2>2. MaxScores \subseteq Nat
    BY ProgressAssumption
  <2> QED  BY <1>1, <2>1, <2>2
<1>3. criteria \in Seq(Nat) /\ Len(criteria) = n
  BY <1>2, FixedLength
<1> QED  BY <1>2, <1>3

LEMMA InputTyped ==
    ASSUME NEW i \in Inputs
    PROVE  /\ i \in ResultRow /\ i.status \in {"GRADED", "EXEMPT"} /\ i.score \in Score /\ i.parts \in Seq(Nat)
<1>1. i.status \in {"GRADED", "EXEMPT"} /\ i.score \in Scores /\ i.parts \in PartScores
  BY DEF Inputs
<1>2. i.score \in Score
  BY <1>1, ProgressAssumption DEF Scores, Score
<1>3. i.parts \in Seq(Nat)
  <2>1. PICK n \in 0..MaxCriteria : i.parts \in [1..n -> UNION {0..m : m \in MaxScores}]
    BY <1>1 DEF PartScores
  <2>2. UNION {0..m : m \in MaxScores} \subseteq Nat
    OBVIOUS
  <2>3. n \in Nat /\ i.parts \in [1..n -> Nat]
    BY <2>1, <2>2
  <2> QED  BY <2>3, FixedLength
<1>4. i = [status |-> i.status, score |-> i.score, parts |-> i.parts]
  BY DEF Inputs
<1> QED  BY <1>1, <1>2, <1>3, <1>4 DEF ResultRow

LEMMA TotalIsSum == ASSUME NEW parts PROVE Total(parts) = SumOver(parts, DOMAIN parts)
BY DEF Total, SumOver, MapThenSumSet, FoldSeq, FoldFunction, FoldFunctionOnSet

LEMMA TotalTyped ==
    ASSUME NEW s \in Seq(Nat)
    PROVE  Total(s) \in Nat
<1>1. Len(s) \in Nat /\ DOMAIN s = 1..Len(s) /\ \A n \in DOMAIN s : s[n] \in Nat
  OBVIOUS
<1>2. IsFiniteSet(DOMAIN s)
  BY <1>1, FS_Interval
<1> QED  BY <1>1, <1>2, TotalIsSum, SumOverNonNegative

\* Scores within the maxima of their criteria add up within the sum of these.
LEMMA TotalWithin ==
    ASSUME NEW s \in Seq(Nat), NEW t \in Seq(Nat), Len(s) = Len(t),
           \A n \in DOMAIN s : s[n] <= t[n]
    PROVE  Total(s) <= Total(t)
<1>1. /\ Len(s) \in Nat /\ DOMAIN s = 1..Len(s) /\ DOMAIN t = DOMAIN s
      /\ \A n \in DOMAIN s : s[n] \in Nat /\ t[n] \in Nat
  OBVIOUS
<1>2. IsFiniteSet(DOMAIN s)
  BY <1>1, FS_Interval
<1>3. SumOver(s, DOMAIN s) <= SumOver(t, DOMAIN s)
  <2>1. \A n \in DOMAIN s : s[n] \in Int /\ t[n] \in Int /\ s[n] <= t[n]
    BY <1>1
  <2> QED  BY <1>2, <2>1, SumOverMonotone
<1> QED  BY <1>1, <1>3, TotalIsSum

LEMMA ResultFields ==
    ASSUME ProgressTyped, NEW a \in Assessments, NEW g \in Gradees
    PROVE  /\ results[a][g] \in ResultRow /\ results[a][g].score \in Score /\ results[a][g].parts \in Seq(Nat)
           /\ results[a][g].status \in {"none", "GRADED", "EXEMPT"}
           /\ assessments[a] \in AssessmentRow /\ assessments[a].max \in Nat
           /\ assessments[a].criteria \in Seq(Nat) /\ assessments[a].mode \in {"SIMPLE", "RUBRIC"}
BY DEF ProgressTyped, ResultRow, AssessmentRow

\* What a valid input is stored as.
LEMMA ComputedFits ==
    ASSUME ProgressTyped, ResultsFit, NEW a \in Assessments, assessments[a].status # "none",
           NEW i \in ResultRow, i.status \in {"GRADED", "EXEMPT"}, Valid(a, i)
    PROVE  \E row \in ResultRow :
              /\ row = Computed(a, i) /\ row.status = i.status /\ row.parts = i.parts
              /\ row.status = "EXEMPT" => row.score = NoScore /\ row.parts = << >>
              /\ row.status = "GRADED" /\ assessments[a].mode = "SIMPLE" => row.parts = << >>
              /\ row.status = "GRADED" /\ assessments[a].mode = "RUBRIC" =>
                    /\ Len(row.parts) = Len(assessments[a].criteria)
                    /\ \A n \in DOMAIN row.parts : row.parts[n] <= assessments[a].criteria[n]
                    /\ row.score = Total(row.parts)
              /\ row.score # NoScore => row.score <= assessments[a].max
<1>1. /\ i.score \in Score /\ i.parts \in Seq(Nat)
      /\ assessments[a].criteria \in Seq(Nat) /\ assessments[a].max \in Nat
      /\ assessments[a].mode \in {"SIMPLE", "RUBRIC"}
  BY DEF ResultRow, ProgressTyped, AssessmentRow
<1>2. CASE assessments[a].mode = "RUBRIC" /\ i.status = "GRADED"
  <2>1. Total(i.parts) \in Nat
    BY <1>1, TotalTyped
  <2>2. PICK row \in ResultRow : row = [i EXCEPT !.score = Total(i.parts)]
    BY <2>1 DEF ResultRow, Score
  <2>3. row = Computed(a, i)
    BY <1>2, <2>2 DEF Computed
  <2>4. row.status = i.status /\ row.parts = i.parts /\ row.score = Total(i.parts)
    BY <2>2 DEF ResultRow
  <2>5. /\ Len(i.parts) = Len(assessments[a].criteria)
        /\ \A n \in DOMAIN i.parts : i.parts[n] <= assessments[a].criteria[n]
    BY <1>2 DEF Valid
  <2>6. Total(assessments[a].criteria) = assessments[a].max
    BY <1>2 DEF ResultsFit, Structured
  <2>7. Total(i.parts) <= assessments[a].max
    BY <1>1, <2>5, <2>6, TotalWithin
  <2> QED  BY <1>2, <2>3, <2>4, <2>5, <2>7
<1>3. CASE ~(assessments[a].mode = "RUBRIC" /\ i.status = "GRADED")
  <2>1. Computed(a, i) = i
    BY <1>3 DEF Computed, ResultRow
  <2>2. i.status = "EXEMPT" => i.score = NoScore /\ i.parts = << >>
    BY DEF Valid
  <2>3. i.status = "GRADED" => assessments[a].mode = "SIMPLE" /\ i.parts = << >> /\ i.score <= assessments[a].max
    BY <1>1, <1>3 DEF Valid
  <2> QED  BY <2>1, <2>2, <2>3
<1> QED  BY <1>2, <1>3

-----------------------------------------------------------------------------
(* Assessments *)

LEMMA ProgressStarts ==
    ASSUME ProgressInit
    PROVE  ProgressInv
<1>1. Unwritten \in ResultRow /\ Unwritten.status = "none" /\ Unwritten.score = NoScore /\ Unwritten.parts = << >>
  BY DEF Unwritten, ResultRow, Score
<1>2. [status |-> "none", mode |-> "SIMPLE", max |-> 0, criteria |-> << >>] \in AssessmentRow
  BY DEF AssessmentRow
<1>3. ProgressTyped
  BY <1>1, <1>2 DEF ProgressInit, ProgressTyped
<1>4. ResultsFit
  BY <1>1 DEF ProgressInit, ResultsFit, Fits
<1>5. RevisionsFollow /\ ReportsFollow /\ OneReportPerPeriod
  BY DEF ProgressInit, RevisionsFollow, ReportsFollow, OneReportPerPeriod
<1> QED  BY <1>3, <1>4, <1>5 DEF ProgressInv

LEMMA RevisionFields ==
    ASSUME ProgressTyped, NEW n \in DOMAIN revisions
    PROVE  /\ n \in Nat /\ revisions[n] \in RevisionRow
           /\ revisions[n].of[1] \in Assessments /\ revisions[n].of[2] \in Gradees
           /\ revisions[n].of = <<revisions[n].of[1], revisions[n].of[2]>>
<1>1. n \in Nat /\ revisions[n] \in RevisionRow
  BY DEF ProgressTyped
<1> QED  BY <1>1 DEF RevisionRow

LEMMA ReportsStay ==
    ASSUME ProgressInv, UNCHANGED progress
    PROVE  ReportsFollow' /\ OneReportPerPeriod' /\ progress' \in Seq(ReportRow)
BY DEF ProgressInv, ProgressTyped, ReportsFollow, Supersedes, OneReportPerPeriod

\* One assessment becomes row, under its results.
LEMMA AssessmentChanged ==
    ASSUME ProgressInv, NEW a \in Assessments, NEW row \in AssessmentRow,
           assessments' = [assessments EXCEPT ![a] = row],
           UNCHANGED <<results, revisions, progress>>,
           Structured(row.mode, row.max, row.criteria),
           assessments[a].status \in {"PUBLISHED", "ARCHIVED"} => row.status \in {"PUBLISHED", "ARCHIVED"},
           \A g \in Gradees : Fits(a, g)'
    PROVE  ProgressInv'
<1>1. /\ assessments' \in [Assessments -> AssessmentRow] /\ assessments'[a] = row
      /\ \A b \in Assessments \ {a} : assessments'[b] = assessments[b]
  BY DEF ProgressInv, ProgressTyped
<1>2. ProgressTyped'
  BY <1>1 DEF ProgressInv, ProgressTyped
<1>3. \A b \in Assessments, g \in Gradees : Fits(b, g)'
  BY <1>1 DEF ProgressInv, ResultsFit, Fits
<1>4. ResultsFit'
  BY <1>1, <1>3 DEF ProgressInv, ResultsFit
<1>5. RevisionsFollow'
  <2>1. \A n \in DOMAIN revisions : revisions[n].of[1] \in Assessments
    BY RevisionFields DEF ProgressInv
  <2> QED  BY <1>1, <2>1 DEF ProgressInv, RevisionsFollow, Follows, IsLast
<1> QED  BY <1>2, <1>4, <1>5, ReportsStay DEF ProgressInv

LEMMA CreateAssessmentKeeps ==
    ASSUME ProgressInv, NEW a \in Assessments, NEW mode \in {"SIMPLE", "RUBRIC"}, NEW max \in Nat,
           NEW criteria \in Seq(Nat), CreateAssessment(a, mode, max, criteria)
    PROVE  ProgressInv'
<1>1. PICK row \in AssessmentRow : row = [status |-> "DRAFT", mode |-> mode, max |-> max, criteria |-> criteria]
  BY DEF AssessmentRow
<1>2. row.status = "DRAFT" /\ row.mode = mode /\ row.max = max /\ row.criteria = criteria
  BY <1>1
<1>3. /\ assessments' = [assessments EXCEPT ![a] = row] /\ UNCHANGED <<results, revisions, progress>>
      /\ assessments[a].status = "none" /\ Structured(mode, max, criteria)
  BY <1>1 DEF CreateAssessment
<1>4. assessments'[a] = row
  BY <1>3 DEF ProgressInv, ProgressTyped
<1>5. \A g \in Gradees : results[a][g] = Unwritten
  BY <1>3 DEF ProgressInv, ResultsFit, Fits
<1>6. \A g \in Gradees : Fits(a, g)'
  BY <1>2, <1>3, <1>4, <1>5 DEF Fits, Unwritten
<1> QED  BY <1>2, <1>3, <1>6, AssessmentChanged

\* The maximum of a draft, or the criteria that nobody is graded by.
LEMMA DraftChanges ==
    ASSUME ProgressInv, NEW a \in Assessments, NEW max \in Nat, NEW criteria \in Seq(Nat),
           assessments[a].status = "DRAFT",
           assessments' = [assessments EXCEPT ![a].criteria = criteria, ![a].max = max],
           UNCHANGED <<results, revisions, progress>>,
           Structured(assessments[a].mode, max, criteria),
           assessments[a].mode = "RUBRIC" => \A g \in Gradees : results[a][g].status # "GRADED"
    PROVE  ProgressInv'
<1>1. PICK old \in AssessmentRow : old = assessments[a]
  BY ResultFields DEF ProgressInv, ProgressTyped
<1>2. PICK row \in AssessmentRow : row = [old EXCEPT !.criteria = criteria, !.max = max]
  BY DEF AssessmentRow
<1>3. row.status = old.status /\ row.mode = old.mode /\ row.max = max /\ row.criteria = criteria
  BY <1>2 DEF AssessmentRow
<1>4. assessments' = [assessments EXCEPT ![a] = row] /\ assessments'[a] = row
  BY <1>1, <1>2 DEF ProgressInv, ProgressTyped
<1>5. \A g \in Gradees : Fits(a, g)
  BY DEF ProgressInv, ResultsFit
<1>6. \A g \in Gradees : Fits(a, g)'
  BY <1>1, <1>3, <1>4, <1>5 DEF Fits
<1> QED  BY <1>1, <1>3, <1>4, <1>6, AssessmentChanged

LEMMA UpdateMaxKeeps ==
    ASSUME ProgressInv, NEW a \in Assessments, NEW max \in Nat, UpdateMax(a, max)
    PROVE  ProgressInv'
<1>1. PICK old \in AssessmentRow : old = assessments[a]
  BY ResultFields DEF ProgressInv, ProgressTyped
<1>2. Structured(assessments[a].mode, assessments[a].max, assessments[a].criteria)
  BY DEF UpdateMax, ProgressInv, ResultsFit
<1>3. assessments[a].mode = "SIMPLE" /\ assessments[a].criteria = << >> /\ assessments[a].status = "DRAFT"
  BY <1>2 DEF UpdateMax, Structured
<1>4. [old EXCEPT !.max = max] = [old EXCEPT !.criteria = old.criteria, !.max = max]
  BY DEF AssessmentRow
<1>5. assessments' = [assessments EXCEPT ![a].criteria = << >>, ![a].max = max]
  BY <1>1, <1>3, <1>4 DEF UpdateMax, ProgressInv, ProgressTyped
<1>6. Structured(assessments[a].mode, max, << >>) /\ << >> \in Seq(Nat)
  BY <1>3 DEF Structured
<1> QED  BY <1>3, <1>5, <1>6, DraftChanges DEF UpdateMax

LEMMA ReplaceCriteriaKeeps ==
    ASSUME ProgressInv, NEW a \in Assessments, NEW criteria \in Rubrics, ReplaceCriteria(a, criteria)
    PROVE  ProgressInv'
<1>1. criteria \in Seq(Nat) /\ criteria # << >> /\ Total(criteria) \in Nat
  BY Criteria, TotalTyped
<1>2. /\ assessments[a].status = "DRAFT" /\ assessments[a].mode = "RUBRIC" /\ Deletable(a)
      /\ assessments' = [assessments EXCEPT ![a].criteria = criteria, ![a].max = Total(criteria)]
      /\ UNCHANGED <<results, revisions, progress>>
  BY DEF ReplaceCriteria, RubricMax
<1>3. Structured("RUBRIC", Total(criteria), criteria)
  BY <1>1 DEF Structured
<1>4. ASSUME NEW g \in Gradees, results[a][g].status = "GRADED"  PROVE FALSE
  <2>1. Len(results[a][g].parts) = Len(assessments[a].criteria)
    BY <1>2, <1>4 DEF ProgressInv, ResultsFit, Fits
  <2>2. assessments[a].criteria # << >> /\ assessments[a].criteria \in Seq(Nat)
    BY <1>2, ResultFields DEF ProgressInv, ResultsFit, Structured
  <2>3. results[a][g].parts = << >>
    BY <1>2 DEF Deletable
  <2> QED  BY <2>1, <2>2, <2>3
<1> QED  BY <1>1, <1>2, <1>3, <1>4, DraftChanges

LEMMA StatusKeeps ==
    ASSUME ProgressInv, NEW a \in Assessments, PublishAssessment(a) \/ ArchiveAssessment(a)
    PROVE  ProgressInv'
<1>1. PICK old \in AssessmentRow : old = assessments[a]
  BY ResultFields DEF ProgressInv, ProgressTyped
<1>2. /\ UNCHANGED <<results, revisions, progress>> /\ old.status # "none"
      /\ \E status \in {"PUBLISHED", "ARCHIVED"} : assessments' = [assessments EXCEPT ![a].status = status]
  BY <1>1 DEF PublishAssessment, ArchiveAssessment
<1>3. PICK status \in {"PUBLISHED", "ARCHIVED"} : assessments' = [assessments EXCEPT ![a].status = status]
  BY <1>2
<1>4. PICK row \in AssessmentRow : row = [old EXCEPT !.status = status]
  BY DEF AssessmentRow
<1>5. row.status = status /\ row.mode = old.mode /\ row.max = old.max /\ row.criteria = old.criteria
  BY <1>4 DEF AssessmentRow
<1>6. assessments' = [assessments EXCEPT ![a] = row] /\ assessments'[a] = row
  BY <1>1, <1>3, <1>4 DEF ProgressInv, ProgressTyped
<1>7. ASSUME NEW g \in Gradees, results[a][g].score # NoScore
      PROVE  results[a][g].score <= old.max
  <2>1. CASE PublishAssessment(a)
    <3>1. results[a][g] # Unwritten
      BY <1>7 DEF Unwritten
    <3>2. Valid(a, results[a][g])
      BY <2>1, <3>1 DEF PublishAssessment, Publishable
    <3> QED  BY <1>1, <1>7, <3>2 DEF Valid
  <2>2. CASE ArchiveAssessment(a)
    BY <1>1, <1>7, <2>2 DEF ArchiveAssessment, ProgressInv, ResultsFit, Fits
  <2> QED  BY <2>1, <2>2
<1>8. \A g \in Gradees : Fits(a, g)
  BY DEF ProgressInv, ResultsFit
<1>9. \A g \in Gradees : Fits(a, g)'
  BY <1>1, <1>2, <1>5, <1>6, <1>7, <1>8 DEF Fits
<1>10. Structured(row.mode, row.max, row.criteria)
  BY <1>1, <1>2, <1>5 DEF ProgressInv, ResultsFit
<1> QED  BY <1>2, <1>5, <1>6, <1>9, <1>10, AssessmentChanged

-----------------------------------------------------------------------------
(* Results *)

LEMMA SaveResultsKeeps ==
    ASSUME ProgressInv, NEW a \in Assessments, NEW gs \in SUBSET Gradees,
           NEW inputs \in [gs -> {i \in Inputs : Valid(a, i)}], SaveResults(a, inputs)
    PROVE  ProgressInv'
<1> DEFINE saved == [g \in Gradees |-> IF g \in gs THEN Computed(a, inputs[g]) ELSE results[a][g]]
<1>1. /\ assessments[a].status = "DRAFT" /\ UNCHANGED <<assessments, revisions, progress>>
      /\ results' = [results EXCEPT ![a] = saved]
  BY DEF SaveResults, Editable
<1>2. \A g \in gs : inputs[g] \in ResultRow /\ inputs[g].status \in {"GRADED", "EXEMPT"} /\ Valid(a, inputs[g])
  BY InputTyped
<1>3. \A g \in gs : \E row \in ResultRow :
              /\ row = Computed(a, inputs[g]) /\ row.status = inputs[g].status
              /\ row.status = "EXEMPT" => row.score = NoScore /\ row.parts = << >>
              /\ row.status = "GRADED" /\ assessments[a].mode = "SIMPLE" => row.parts = << >>
              /\ row.status = "GRADED" /\ assessments[a].mode = "RUBRIC" =>
                    /\ Len(row.parts) = Len(assessments[a].criteria)
                    /\ \A n \in DOMAIN row.parts : row.parts[n] <= assessments[a].criteria[n]
                    /\ row.score = Total(row.parts)
  BY <1>1, <1>2, ComputedFits DEF ProgressInv
<1>4. saved \in [Gradees -> ResultRow]
  BY <1>3, ResultFields DEF ProgressInv
<1>5. \A g \in gs : saved[g] = Computed(a, inputs[g])
  OBVIOUS
<1>6. \A g \in Gradees \ gs : saved[g] = results[a][g]
  OBVIOUS
<1> HIDE DEF saved
<1>7. /\ results' \in [Assessments -> [Gradees -> ResultRow]] /\ results'[a] = saved
      /\ \A b \in Assessments \ {a} : results'[b] = results[b]
  BY <1>1, <1>4 DEF ProgressInv, ProgressTyped
<1>8. ProgressTyped'
  BY <1>1, <1>7 DEF ProgressInv, ProgressTyped
<1>9. ASSUME NEW g \in Gradees  PROVE Fits(a, g)'
  <2>1. CASE g \in gs
    <3>1. PICK row \in ResultRow :
              /\ row = Computed(a, inputs[g]) /\ row.status = inputs[g].status
              /\ row.status = "EXEMPT" => row.score = NoScore /\ row.parts = << >>
              /\ row.status = "GRADED" /\ assessments[a].mode = "SIMPLE" => row.parts = << >>
              /\ row.status = "GRADED" /\ assessments[a].mode = "RUBRIC" =>
                    /\ Len(row.parts) = Len(assessments[a].criteria)
                    /\ \A n \in DOMAIN row.parts : row.parts[n] <= assessments[a].criteria[n]
                    /\ row.score = Total(row.parts)
      BY <1>3, <2>1
    <3>2. results'[a][g] = row /\ row.status # "none"
      BY <1>2, <1>5, <1>7, <2>1, <3>1
    <3> QED  BY <1>1, <3>1, <3>2 DEF Fits
  <2>2. CASE g \notin gs
    <3>1. results'[a][g] = results[a][g]
      BY <1>6, <1>7, <2>2
    <3> QED  BY <1>1, <3>1 DEF ProgressInv, ResultsFit, Fits
  <2> QED  BY <2>1, <2>2
<1>10. \A b \in Assessments, g \in Gradees : Fits(b, g)'
  BY <1>1, <1>7, <1>9 DEF ProgressInv, ResultsFit, Fits
<1>11. ResultsFit'
  BY <1>1, <1>10 DEF ProgressInv, ResultsFit
<1>12. RevisionsFollow'
  <2>1. \A n \in DOMAIN revisions : revisions[n].of[1] \in Assessments \ {a}
    BY <1>1, RevisionFields DEF ProgressInv, RevisionsFollow
  <2> QED  BY <1>1, <1>7, <2>1 DEF ProgressInv, RevisionsFollow, Follows, IsLast
<1> QED  BY <1>1, <1>8, <1>11, <1>12, ReportsStay DEF ProgressInv

\* A correction: what is stored fits, and its revision follows what was stored.
LEMMA CorrectResultKeeps ==
    ASSUME ProgressInv, NEW a \in Assessments, NEW g \in Gradees, NEW input \in Inputs, CorrectResult(a, g, input)
    PROVE  ProgressInv'
<1>1. PICK old \in ResultRow : old = results[a][g]
  BY ResultFields DEF ProgressInv
<1>2. PICK merged \in ResultRow : merged = Merged(old, input) /\ merged.status \in {"GRADED", "EXEMPT"}
  <2>1. CASE input.status = "EXEMPT"
    <3>1. [status |-> "EXEMPT", score |-> NoScore, parts |-> << >>] \in ResultRow
      BY DEF ResultRow, Score
    <3> QED  BY <2>1, <3>1 DEF Merged
  <2>2. CASE input.status # "EXEMPT"
    <3>1. PICK i \in ResultRow : i = input /\ i.status = "GRADED"
      BY <2>2, InputTyped
    <3>2. PICK score \in Score : score = IF i.score = NoScore THEN old.score ELSE i.score
      BY DEF ResultRow
    <3>3. PICK merged \in ResultRow : merged = [i EXCEPT !.score = score]
      BY DEF ResultRow
    <3>4. merged.status = "GRADED"
      BY <3>1, <3>3 DEF ResultRow
    <3>5. merged = Merged(old, input)
      BY <2>2, <3>1, <3>2, <3>3 DEF Merged, ResultRow
    <3> QED  BY <3>4, <3>5
  <2> QED  BY <2>1, <2>2
<1>3. Valid(a, merged) /\ assessments[a].status = "PUBLISHED" /\ UNCHANGED <<assessments, progress>>
  BY <1>1, <1>2 DEF CorrectResult
<1>4. PICK row \in ResultRow :
              /\ row = Computed(a, merged) /\ row.status = merged.status
              /\ row.status = "EXEMPT" => row.score = NoScore /\ row.parts = << >>
              /\ row.status = "GRADED" /\ assessments[a].mode = "SIMPLE" => row.parts = << >>
              /\ row.status = "GRADED" /\ assessments[a].mode = "RUBRIC" =>
                    /\ Len(row.parts) = Len(assessments[a].criteria)
                    /\ \A n \in DOMAIN row.parts : row.parts[n] <= assessments[a].criteria[n]
                    /\ row.score = Total(row.parts)
              /\ row.score # NoScore => row.score <= assessments[a].max
  BY <1>2, <1>3, ComputedFits DEF ProgressInv
<1>5. /\ results' = [results EXCEPT ![a][g] = row]
      /\ revisions' = Append(revisions, [of |-> <<a, g>>, before |-> old, after |-> row])
  BY <1>1, <1>2, <1>4 DEF CorrectResult
<1>6. /\ results' \in [Assessments -> [Gradees -> ResultRow]] /\ results'[a][g] = row
      /\ \A h \in Gradees \ {g} : results'[a][h] = results[a][h]
      /\ \A b \in Assessments \ {a} : results'[b] = results[b]
  BY <1>5 DEF ProgressInv, ProgressTyped
<1>7. PICK revision \in RevisionRow : revision = [of |-> <<a, g>>, before |-> old, after |-> row]
  BY DEF RevisionRow
<1>8. PICK last \in Nat : last = Len(revisions) + 1 /\ DOMAIN revisions = 1..Len(revisions) /\ Len(revisions) \in Nat
  BY DEF ProgressInv, ProgressTyped
<1>9. /\ revisions' \in Seq(RevisionRow) /\ revisions'[last] = revision
      /\ DOMAIN revisions' = DOMAIN revisions \cup {last}
      /\ \A n \in DOMAIN revisions : revisions'[n] = revisions[n] /\ n \in Nat /\ n < last
  BY <1>5, <1>7, <1>8 DEF ProgressInv, ProgressTyped
<1>10. ProgressTyped'
  BY <1>3, <1>6, <1>9 DEF ProgressInv, ProgressTyped
<1>11. Fits(a, g)'
  BY <1>2, <1>3, <1>4, <1>6 DEF Fits
<1>12. \A b \in Assessments, h \in Gradees : Fits(b, h)'
  BY <1>3, <1>6, <1>11 DEF ProgressInv, ResultsFit, Fits
<1>13. ResultsFit'
  BY <1>3, <1>12 DEF ProgressInv, ResultsFit
<1>14. revision.of = <<a, g>> /\ revision.before = results[a][g] /\ revision.after = row
  BY <1>1, <1>7
<1>15. RevisionsFollow'
  <2>1. \A n \in DOMAIN revisions' : assessments'[revisions'[n].of[1]].status \in {"PUBLISHED", "ARCHIVED"}
    BY <1>3, <1>9, <1>14 DEF ProgressInv, RevisionsFollow
  <2>2. ASSUME NEW n \in DOMAIN revisions', NEW m \in DOMAIN revisions', Follows(m, n)'
        PROVE  revisions'[n].after = revisions'[m].before
    <3>1. n \in DOMAIN revisions /\ n < m
      BY <1>9, <2>2 DEF Follows
    <3>2. CASE m \in DOMAIN revisions
      <4>1. Follows(m, n)
        BY <1>9, <2>2, <3>1, <3>2 DEF Follows
      <4> QED  BY <1>9, <3>1, <3>2, <4>1 DEF ProgressInv, RevisionsFollow
    <3>3. CASE m = last
      <4>1. revisions[n].of = <<a, g>>
        BY <1>9, <1>14, <2>2, <3>1, <3>3 DEF Follows
      <4>2. IsLast(n)
        BY <1>9, <2>2, <3>1, <3>3 DEF Follows, IsLast
      <4>3. revisions[n].after = results[a][g]
        BY <3>1, <4>1, <4>2 DEF ProgressInv, RevisionsFollow
      <4> QED  BY <1>9, <1>14, <3>1, <3>3, <4>3
    <3> QED  BY <1>9, <3>2, <3>3
  <2>3. ASSUME NEW n \in DOMAIN revisions', IsLast(n)'
        PROVE  revisions'[n].after = results'[revisions'[n].of[1]][revisions'[n].of[2]]
    <3>1. CASE n = last
      BY <1>6, <1>9, <1>14, <3>1
    <3>2. CASE n \in DOMAIN revisions
      <4>1. revisions[n].of # <<a, g>> /\ IsLast(n)
        BY <1>9, <1>14, <2>3, <3>2 DEF IsLast
      <4>2. revisions[n].after = results[revisions[n].of[1]][revisions[n].of[2]]
        BY <3>2, <4>1 DEF ProgressInv, RevisionsFollow
      <4>3. PICK b \in Assessments, h \in Gradees : revisions[n].of = <<b, h>>
        BY <3>2, RevisionFields DEF ProgressInv
      <4>4. results'[b][h] = results[b][h]
        BY <1>6, <4>1, <4>3
      <4> QED  BY <1>9, <3>2, <4>2, <4>3, <4>4
    <3> QED  BY <1>9, <3>1, <3>2
  <2> QED  BY <2>1, <2>2, <2>3 DEF RevisionsFollow
<1> QED  BY <1>3, <1>10, <1>13, <1>15, ReportsStay DEF ProgressInv

-----------------------------------------------------------------------------
(* Reports *)

LEMMA ReportFields ==
    ASSUME ProgressInv, NEW r \in DOMAIN progress
    PROVE  /\ r \in Nat \ {0} /\ progress[r] \in ReportRow /\ progress[r].student \in Gradees
           /\ progress[r].status \in {"DRAFT", "PUBLISHED", "SUPERSEDED"}
           /\ progress[r].supersedes \in Nat /\ progress[r].supersedes < r
<1>1. r \in Nat \ {0} /\ progress[r] \in ReportRow
  BY DEF ProgressInv, ProgressTyped
<1> QED  BY <1>1 DEF ReportRow, ProgressInv, ReportsFollow

\* Reports change only: assessments, results and revisions keep what holds of
\* them.
LEMMA GradesStay ==
    ASSUME ProgressInv, UNCHANGED <<assessments, results, revisions>>, progress' \in Seq(ReportRow)
    PROVE  ProgressTyped' /\ ResultsFit' /\ RevisionsFollow'
<1>1. ProgressTyped'
  BY DEF ProgressInv, ProgressTyped
<1>2. ResultsFit'
  BY DEF ProgressInv, ResultsFit, Fits
<1>3. RevisionsFollow'
  BY DEF ProgressInv, RevisionsFollow, Follows, IsLast
<1> QED  BY <1>1, <1>2, <1>3

\* A draft is added, of a report that nothing has replaced yet, or of none.
LEMMA DraftKeeps ==
    ASSUME ProgressInv, NEW g \in Gradees, NEW period \in ReportPeriods, NEW r \in Nat,
           r = 0 \/ (r \in DOMAIN progress /\ progress[r].status = "PUBLISHED" /\ Replaceable(r)),
           Draft(g, period, r), UNCHANGED <<assessments, results, revisions>>
    PROVE  ProgressInv' /\ \A p \in DOMAIN progress : progress'[p] = progress[p]
<1>1. PICK row \in ReportRow : row = [student |-> g, period |-> period, status |-> "DRAFT", supersedes |-> r, snapshot |-> {}]
  BY DEF ReportRow
<1>2. row.status = "DRAFT" /\ row.supersedes = r
  BY <1>1
<1>3. PICK new \in Nat : new = Len(progress) + 1 /\ DOMAIN progress = 1..Len(progress) /\ Len(progress) \in Nat
  BY DEF ProgressInv, ProgressTyped
<1>4. progress' = Append(progress, row)
  BY <1>1 DEF Draft
<1>5. /\ progress' \in Seq(ReportRow) /\ progress'[new] = row /\ DOMAIN progress' = DOMAIN progress \cup {new}
      /\ \A p \in DOMAIN progress : progress'[p] = progress[p] /\ p \in Nat \ {0} /\ p < new
      /\ r < new
  BY <1>3, <1>4 DEF ProgressInv, ProgressTyped
<1>6. \A p, q, s \in DOMAIN progress' : Supersedes(p, s)' /\ Supersedes(q, s)' => p = q
  BY <1>2, <1>5 DEF ProgressInv, ReportsFollow, Supersedes, Replaceable
<1>7. \A p \in DOMAIN progress : progress[p].supersedes \in Nat /\ progress[p].supersedes < p
  BY ReportFields
<1>8. \A p, s \in DOMAIN progress' : Supersedes(p, s)' =>
          ((progress'[s].status = "SUPERSEDED") <=> (progress'[p].status # "DRAFT"))
  BY <1>2, <1>5, <1>7 DEF ProgressInv, ReportsFollow, Supersedes
<1>9. \A s \in DOMAIN progress' : progress'[s].status = "SUPERSEDED" => \E p \in DOMAIN progress' : Supersedes(p, s)'
  BY <1>2, <1>5 DEF ProgressInv, ReportsFollow, Supersedes
<1>10. ReportsFollow'
  BY <1>2, <1>5, <1>6, <1>7, <1>8, <1>9 DEF ReportsFollow
<1>11. OneReportPerPeriod'
  BY <1>2, <1>5 DEF ProgressInv, OneReportPerPeriod
<1> QED  BY <1>5, <1>10, <1>11, GradesStay DEF ProgressInv

LEMMA UpdateReportKeeps ==
    ASSUME ProgressInv, NEW r \in DOMAIN progress, NEW period \in ReportPeriods, UpdateReport(r, period)
    PROVE  /\ ProgressInv'
           /\ \A p \in DOMAIN progress : progress[p].status # "DRAFT" => progress'[p] = progress[p]
<1>1. PICK old \in ReportRow : old = progress[r]
  BY ReportFields
<1>2. PICK row \in ReportRow : row = [old EXCEPT !.period = period]
  BY DEF ReportRow
<1>3. row.status = old.status /\ row.supersedes = old.supersedes /\ old.status = "DRAFT"
  BY <1>1, <1>2 DEF ReportRow, UpdateReport, DraftReport
<1>4. progress' = [progress EXCEPT ![r] = row] /\ UNCHANGED <<assessments, results, revisions>>
  BY <1>1, <1>2 DEF UpdateReport
<1>5. /\ progress' \in Seq(ReportRow) /\ DOMAIN progress' = DOMAIN progress /\ progress'[r] = row
      /\ \A p \in DOMAIN progress \ {r} : progress'[p] = progress[p]
  BY <1>4 DEF ProgressInv, ProgressTyped
<1>6. \A p \in DOMAIN progress : progress'[p].supersedes = progress[p].supersedes /\ progress'[p].status = progress[p].status
  BY <1>1, <1>3, <1>5
<1>7. ReportsFollow'
  BY <1>5, <1>6 DEF ProgressInv, ReportsFollow, Supersedes
<1>8. OneReportPerPeriod'
  BY <1>1, <1>3, <1>5 DEF ProgressInv, OneReportPerPeriod
<1> QED  BY <1>1, <1>3, <1>4, <1>5, <1>7, <1>8, GradesStay DEF ProgressInv

LEMMA PublishReportKeeps ==
    ASSUME ProgressInv, NEW r \in DOMAIN progress, PublishReport(r)
    PROVE  /\ ProgressInv'
           /\ \A p \in DOMAIN progress : progress[p].status # "DRAFT" =>
                 progress'[p].snapshot = progress[p].snapshot /\ progress'[p].status # "DRAFT"
<1>1. PICK old \in ReportRow : old = progress[r] /\ old.status = "DRAFT" /\ old.student \in Gradees
  BY ReportFields DEF PublishReport, DraftReport
<1>2. Snapshot(old.student) \in SUBSET (Assessments \X ResultRow)
  BY <1>1, ResultFields DEF ProgressInv, Snapshot
<1>3. PICK row \in ReportRow : row = [old EXCEPT !.status = "PUBLISHED", !.snapshot = Snapshot(old.student)]
  BY <1>2 DEF ReportRow
<1>4. /\ row.status = "PUBLISHED" /\ row.supersedes = old.supersedes
      /\ row.student = old.student /\ row.period = old.period
  BY <1>3 DEF ReportRow
<1> DEFINE next(p) == IF p = r THEN row
                      ELSE IF p \in Replaced(r) THEN [progress[p] EXCEPT !.status = "SUPERSEDED"] ELSE progress[p]
<1>5. progress' = [p \in DOMAIN progress |-> next(p)] /\ UNCHANGED <<assessments, results, revisions>>
  BY <1>1, <1>3 DEF PublishReport
<1>6. \A p \in DOMAIN progress : [progress[p] EXCEPT !.status = "SUPERSEDED"] \in ReportRow
  BY ReportFields DEF ReportRow
<1>7. /\ DOMAIN progress' = DOMAIN progress /\ progress'[r] = row
      /\ \A p \in Replaced(r) \ {r} : progress'[p] = [progress[p] EXCEPT !.status = "SUPERSEDED"]
      /\ \A p \in DOMAIN progress \ ({r} \cup Replaced(r)) : progress'[p] = progress[p]
      /\ \A p \in DOMAIN progress : progress'[p] \in ReportRow
  <2>1. \A p \in DOMAIN progress : progress'[p] = next(p)
    BY <1>5
  <2>2. Replaced(r) \subseteq DOMAIN progress
    BY DEF Replaced
  <2> QED  BY <1>5, <1>6, <2>1, <2>2, ReportFields
<1>8. progress' \in Seq(ReportRow)
  <2>1. Len(progress) \in Nat /\ DOMAIN progress = 1..Len(progress)
    BY DEF ProgressInv, ProgressTyped
  <2>2. progress' \in [1..Len(progress) -> ReportRow]
    BY <1>5, <1>7, <2>1 DEF Replaced
  <2> QED  BY <2>1, <2>2, FixedLength
<1>9. r \notin Replaced(r) /\ \A p \in Replaced(r) : progress[p].status = "PUBLISHED"
  <2>1. \A p \in Replaced(r) : p = progress[r].supersedes /\ p \in DOMAIN progress
    BY DEF Replaced
  <2> QED  BY <2>1, ReportFields DEF PublishReport
<1>10. \A p \in Replaced(r) : /\ progress'[p].status = "SUPERSEDED" /\ progress'[p].supersedes = progress[p].supersedes
                              /\ progress'[p].snapshot = progress[p].snapshot
  <2>1. ASSUME NEW p \in Replaced(r)
        PROVE  /\ progress'[p].status = "SUPERSEDED" /\ progress'[p].supersedes = progress[p].supersedes
               /\ progress'[p].snapshot = progress[p].snapshot
    <3>1. PICK q \in ReportRow : q = progress[p]
      BY ReportFields DEF Replaced
    <3>2. progress'[p] = [q EXCEPT !.status = "SUPERSEDED"]
      BY <1>7, <1>9, <3>1
    <3> QED  BY <3>1, <3>2 DEF ReportRow
  <2> QED  BY <2>1
<1>11. \A p \in DOMAIN progress : progress'[p].supersedes = progress[p].supersedes
  BY <1>1, <1>4, <1>7, <1>10
<1>12. ReportsFollow'
  <2>1. \A p \in DOMAIN progress' : progress'[p].supersedes < p
    BY <1>7, <1>11, ReportFields
  <2>2. \A p, q, s \in DOMAIN progress' : Supersedes(p, s)' /\ Supersedes(q, s)' => p = q
    BY <1>7, <1>11 DEF ProgressInv, ReportsFollow, Supersedes
  <2>3. ASSUME NEW p \in DOMAIN progress, NEW s \in DOMAIN progress, progress[p].supersedes = s
        PROVE  (progress'[s].status = "SUPERSEDED") <=> (progress'[p].status # "DRAFT")
    <3>1. (progress[s].status = "SUPERSEDED") <=> (progress[p].status # "DRAFT")
      BY <2>3 DEF ProgressInv, ReportsFollow, Supersedes
    <3>2. CASE p = r
      BY <1>4, <1>7, <1>10, <2>3, <3>2 DEF Replaced
    <3>3. CASE p # r
      <4>1. (progress'[p].status # "DRAFT") <=> (progress[p].status # "DRAFT")
        BY <1>7, <1>9, <1>10, <3>3
      <4>2. s \notin Replaced(r)
        <5>1. SUFFICES ASSUME s \in Replaced(r)  PROVE FALSE
          OBVIOUS
        <5>2. progress[r].supersedes = s
          BY <5>1 DEF Replaced
        <5> QED  BY <2>3, <3>3, <5>2 DEF ProgressInv, ReportsFollow, Supersedes
      <4>3. CASE s = r
        BY <1>1, <1>4, <1>7, <3>1, <4>1, <4>3
      <4>4. CASE s # r
        BY <1>7, <3>1, <4>1, <4>2, <4>4
      <4> QED  BY <4>3, <4>4
    <3> QED  BY <3>2, <3>3
  <2>4. ASSUME NEW s \in DOMAIN progress, progress'[s].status = "SUPERSEDED"
        PROVE  \E p \in DOMAIN progress : progress[p].supersedes = s
    <3>1. CASE s \in Replaced(r)
      BY <3>1 DEF Replaced
    <3>2. CASE s \notin Replaced(r)
      <4>1. s # r
        BY <1>4, <1>7, <2>4
      <4> QED  BY <1>7, <2>4, <3>2, <4>1 DEF ProgressInv, ReportsFollow, Supersedes
    <3> QED  BY <3>1, <3>2
  <2> QED  BY <1>7, <1>11, <2>1, <2>2, <2>3, <2>4 DEF ReportsFollow, Supersedes
<1>13. OneReportPerPeriod'
  <2>1. \A p \in DOMAIN progress \ {r} : progress'[p].status = "PUBLISHED" => progress'[p] = progress[p] /\ p \notin Replaced(r)
    BY <1>7, <1>10
  <2>2. \A p \in DOMAIN progress \ {r} : progress'[p].status = "PUBLISHED" /\ progress'[p].student = row.student =>
          progress'[p].period # row.period
    <3>1. \A p \in DOMAIN progress : p # progress[r].supersedes \/ p \in Replaced(r)
      BY DEF Replaced
    <3> QED  BY <1>1, <1>4, <2>1, <3>1 DEF PublishReport, PeriodFree
  <2>3. ASSUME NEW p \in DOMAIN progress, NEW q \in DOMAIN progress, p # q,
               progress'[p].status = "PUBLISHED", progress'[q].status = "PUBLISHED",
               progress'[p].student = progress'[q].student
        PROVE  progress'[p].period # progress'[q].period
    <3>1. CASE p = r
      BY <1>7, <2>2, <2>3, <3>1
    <3>2. CASE q = r
      BY <1>7, <2>2, <2>3, <3>2
    <3>3. CASE p # r /\ q # r
      BY <2>1, <2>3, <3>3 DEF ProgressInv, OneReportPerPeriod
    <3> QED  BY <3>1, <3>2, <3>3
  <2> QED  BY <1>7, <2>3 DEF OneReportPerPeriod
<1>14. ProgressInv'
  BY <1>5, <1>8, <1>12, <1>13, GradesStay DEF ProgressInv
<1> QED  BY <1>1, <1>4, <1>7, <1>10, <1>14

LEMMA ReplaceReportKeeps ==
    ASSUME ProgressInv, NEW r \in DOMAIN progress, NEW period \in ReportPeriods, ReplaceReport(r, period)
    PROVE  ProgressInv' /\ \A p \in DOMAIN progress : progress'[p] = progress[p]
<1>1. progress[r].student \in Gradees /\ r \in Nat
  BY ReportFields
<1>2. /\ progress[r].status = "PUBLISHED" /\ Replaceable(r) /\ Draft(progress[r].student, period, r)
      /\ UNCHANGED <<assessments, results, revisions>>
  BY DEF ReplaceReport
<1> QED  BY <1>1, <1>2, DraftKeeps

-----------------------------------------------------------------------------
LEMMA ProgressKeeps ==
    ASSUME ProgressInv, ProgressNext
    PROVE  /\ ProgressInv'
           /\ \A r \in DOMAIN progress : progress[r].status # "DRAFT" =>
                 progress'[r].snapshot = progress[r].snapshot /\ progress'[r].status # "DRAFT"
<1>1. CASE AssessmentStep
  <2>1. UNCHANGED progress
    BY <1>1 DEF AssessmentStep, CreateAssessment, UpdateMax, ReplaceCriteria, SaveResults, PublishAssessment,
                ArchiveAssessment, CorrectResult
  <2>2. PICK a \in Assessments :
          \/ \E mode \in Modes, max \in 1..(MaxCriteria * Max(MaxScores)), criteria \in Rubrics \cup {<< >>} :
                CreateAssessment(a, mode, max, criteria)
          \/ \E max \in MaxScores : UpdateMax(a, max)
          \/ \E criteria \in Rubrics : ReplaceCriteria(a, criteria)
          \/ \E gs \in SUBSET Gradees : \E inputs \in [gs -> {i \in Inputs : Valid(a, i)}] : SaveResults(a, inputs)
          \/ PublishAssessment(a) \/ ArchiveAssessment(a)
          \/ \E g \in Gradees, input \in Inputs : CorrectResult(a, g, input)
    BY <1>1 DEF AssessmentStep
  <2>3. ASSUME NEW mode \in Modes, NEW max \in 1..(MaxCriteria * Max(MaxScores)),
               NEW criteria \in Rubrics \cup {<< >>}, CreateAssessment(a, mode, max, criteria)
        PROVE  ProgressInv'
    <3>1. mode \in {"SIMPLE", "RUBRIC"}
      BY ProgressAssumption
    <3>2. max \in Nat
      OBVIOUS
    <3>3. criteria \in Seq(Nat)
      <4>1. CASE criteria \in Rubrics
        BY <4>1, Criteria
      <4>2. CASE criteria = << >>
        BY <4>2
      <4> QED  BY <4>1, <4>2
    <3> QED  BY <2>3, <3>1, <3>2, <3>3, CreateAssessmentKeeps
  <2>4. ASSUME NEW max \in MaxScores, UpdateMax(a, max)  PROVE ProgressInv'
    BY <2>4, ProgressAssumption, UpdateMaxKeeps
  <2>5. ASSUME NEW criteria \in Rubrics, ReplaceCriteria(a, criteria)  PROVE ProgressInv'
    BY <2>5, ReplaceCriteriaKeeps
  <2>6. ASSUME NEW gs \in SUBSET Gradees, NEW inputs \in [gs -> {i \in Inputs : Valid(a, i)}], SaveResults(a, inputs)
        PROVE  ProgressInv'
    BY <2>6, SaveResultsKeeps
  <2>7. ASSUME PublishAssessment(a) \/ ArchiveAssessment(a)  PROVE ProgressInv'
    BY <2>7, StatusKeeps
  <2>8. ASSUME NEW g \in Gradees, NEW input \in Inputs, CorrectResult(a, g, input)  PROVE ProgressInv'
    BY <2>8, CorrectResultKeeps
  <2>9. ProgressInv'
    BY <2>2, <2>3, <2>4, <2>5, <2>6, <2>7, <2>8
  <2> QED  BY <2>1, <2>9
<1>2. ASSUME NEW period \in ReportPeriods, NEW g \in Gradees, CreateReport(g, period)
      PROVE  ProgressInv' /\ \A p \in DOMAIN progress : progress'[p] = progress[p]
  BY <1>2, DraftKeeps DEF CreateReport
<1>3. ASSUME NEW period \in ReportPeriods, NEW r \in DOMAIN progress, UpdateReport(r, period)
      PROVE  ProgressInv' /\ \A p \in DOMAIN progress : progress[p].status # "DRAFT" => progress'[p] = progress[p]
  BY <1>3, UpdateReportKeeps
<1>4. ASSUME NEW r \in DOMAIN progress, PublishReport(r)
      PROVE  /\ ProgressInv'
             /\ \A p \in DOMAIN progress : progress[p].status # "DRAFT" =>
                   progress'[p].snapshot = progress[p].snapshot /\ progress'[p].status # "DRAFT"
  BY <1>4, PublishReportKeeps
<1>5. ASSUME NEW period \in ReportPeriods, NEW r \in DOMAIN progress, ReplaceReport(r, period)
      PROVE  ProgressInv' /\ \A p \in DOMAIN progress : progress'[p] = progress[p]
  BY <1>5, ReplaceReportKeeps
<1>6. CASE ReportStep
  BY <1>2, <1>3, <1>4, <1>5, <1>6 DEF ReportStep
<1> QED  BY <1>1, <1>6 DEF ProgressNext

\* Nothing happens, and the invariant stays.
LEMMA ProgressStutters ==
    ASSUME ProgressInv, UNCHANGED progressVars
    PROVE  ProgressInv'
<1>1. UNCHANGED <<assessments, results, revisions, progress>>
  BY DEF progressVars
<1>2. progress' \in Seq(ReportRow)
  BY <1>1 DEF ProgressInv, ProgressTyped
<1> QED  BY <1>1, <1>2, ReportsStay, GradesStay DEF ProgressInv

\* Neighbours agree, so do a revision and the next of its result.
LEMMA Explained ==
    ASSUME ProgressInv
    PROVE  RevisionsExplain
<1> SUFFICES ASSUME NEW n \in DOMAIN revisions
             PROVE  LET later == {m \in DOMAIN revisions : m > n /\ revisions[m].of = revisions[n].of}
                    IN revisions[n].after =
                        IF later = {} THEN results[revisions[n].of[1]][revisions[n].of[2]] ELSE revisions[Min(later)].before
  BY DEF RevisionsExplain
<1> DEFINE later == {m \in DOMAIN revisions : m > n /\ revisions[m].of = revisions[n].of}
<1>1. \A m \in DOMAIN revisions : m \in Nat
  BY RevisionFields DEF ProgressInv
<1>2. CASE later = {}
  <2>1. IsLast(n)
    BY <1>1, <1>2 DEF IsLast
  <2> QED  BY <1>2, <2>1 DEF ProgressInv, RevisionsFollow
<1>3. CASE later # {}
  <2>1. later \in SUBSET Nat
    BY <1>1
  <2>2. \E m \in later : \A k \in later : m <= k
    BY <1>3, <2>1, Least
  <2>3. PICK m \in later : m = Min(later) /\ \A k \in later : m <= k
    BY <2>2 DEF Min
  <2>4. Follows(m, n)
    BY <1>1, <2>3 DEF Follows
  <2> QED  BY <1>3, <2>3, <2>4 DEF ProgressInv, RevisionsFollow
<1> QED  BY <1>2, <1>3

LEMMA Succeeded ==
    ASSUME ProgressInv
    PROVE  OneSuccessor
<1> SUFFICES ASSUME NEW r \in DOMAIN progress
             PROVE  LET next == {p \in DOMAIN progress : progress[p].supersedes = r}
                    IN /\ Cardinality(next) <= 1
                       /\ (progress[r].status = "SUPERSEDED") = (\E p \in next : progress[p].status # "DRAFT")
  BY DEF OneSuccessor
<1> DEFINE next == {p \in DOMAIN progress : progress[p].supersedes = r}
<1>1. \A p, q \in next : p = q
  BY DEF ProgressInv, ReportsFollow, Supersedes
<1>2. Cardinality(next) <= 1
  <2>1. CASE next = {}
    BY <2>1, FS_EmptySet
  <2>2. CASE next # {}
    <3>1. PICK p \in next : next = {p}
      BY <1>1, <2>2
    <3>2. Cardinality({p}) = 1
      BY FS_Singleton
    <3> HIDE DEF next
    <3> QED  BY <3>1, <3>2
  <2> QED  BY <2>1, <2>2
<1>3. (progress[r].status = "SUPERSEDED") <=> (\E p \in next : progress[p].status # "DRAFT")
  BY DEF ProgressInv, ReportsFollow, Supersedes
<1> QED  BY <1>2, <1>3

\* The invariant of assessments and reports.
THEOREM ProgressInvariance == ProgressSpec => []ProgressInv
<1>1. ProgressInit => ProgressInv
  BY ProgressStarts
<1>2. ProgressInv /\ [ProgressNext]_progressVars => ProgressInv'
  BY ProgressKeeps, ProgressStutters
<1> QED  BY <1>1, <1>2, PTL DEF ProgressSpec

\* A published result changes by a correction only, which it leaves on record.
LEMMA FiguresKept ==
    ASSUME ProgressInv, ProgressNext, NEW a \in Assessments, NEW g \in Gradees
    PROVE  Accounted(a, g)
<1>1. /\ \A b \in Assessments : results[b] = results[b] /\ DOMAIN results = Assessments
      /\ DOMAIN results[a] = Gradees /\ DOMAIN assessments = Assessments
      /\ DOMAIN revisions = 1..Len(revisions) /\ Len(revisions) \in Nat
  BY DEF ProgressInv, ProgressTyped
<1>2. ASSUME assessments'[a].status = assessments[a].status,
             assessments[a].status = "PUBLISHED" => results'[a][g] = results[a][g]
      PROVE  Accounted(a, g)
  BY <1>2 DEF Accounted, Reported
<1>3. CASE assessments'[a].status # assessments[a].status
  BY <1>3 DEF Accounted
<1>4. CASE UNCHANGED <<assessments, results>>
  BY <1>2, <1>4
<1>5. CASE UNCHANGED results
  BY <1>2, <1>3, <1>5
<1>6. ASSUME NEW b \in Assessments, NEW gs \in SUBSET Gradees, NEW inputs \in [gs -> {i \in Inputs : Valid(b, i)}],
             SaveResults(b, inputs)
      PROVE  Accounted(a, g)
  <2>1. UNCHANGED assessments /\ assessments[b].status = "DRAFT"
    BY <1>6 DEF SaveResults, Editable
  <2>2. a # b => results'[a] = results[a]
    BY <1>1, <1>6 DEF SaveResults
  <2> QED  BY <1>2, <2>1, <2>2
<1>7. ASSUME NEW b \in Assessments, NEW h \in Gradees, NEW input \in Inputs, CorrectResult(b, h, input)
      PROVE  Accounted(a, g)
  <2>1. UNCHANGED assessments
    BY <1>7 DEF CorrectResult
  <2>2. CASE a = b /\ g = h
    <3>1. PICK row : revisions' = Append(revisions, row) /\ row.of = <<a, g>>
      BY <1>7, <2>2 DEF CorrectResult
    <3>2. Len(revisions) + 1 \in DOMAIN revisions' \ DOMAIN revisions /\ revisions'[Len(revisions) + 1] = row
      BY <1>1, <3>1 DEF ProgressInv, ProgressTyped
    <3> QED  BY <3>1, <3>2 DEF Accounted
  <2>3. CASE ~(a = b /\ g = h)
    <3>1. results'[a][g] = results[a][g]
      BY <1>1, <1>7, <2>3 DEF CorrectResult
    <3> QED  BY <1>2, <2>1, <3>1
  <2> QED  BY <2>2, <2>3
<1>8. CASE AssessmentStep
  BY <1>5, <1>6, <1>7, <1>8
     DEF AssessmentStep, CreateAssessment, UpdateMax, ReplaceCriteria, PublishAssessment, ArchiveAssessment
<1>9. CASE ReportStep
  BY <1>4, <1>9 DEF ReportStep, CreateReport, UpdateReport, PublishReport, ReplaceReport
<1> QED  BY <1>8, <1>9 DEF ProgressNext

\* Published scores stay within their maxima, a rubric's graded result fits the
\* criteria there are, revisions lead to the result as it is, one published report
\* speaks of a period, unchanged until another supersedes it, and the figures of a
\* student move with publications and recorded corrections only.
THEOREM ProgressStaysSafe == ProgressSpec => ProgressSafe
<1>1. ProgressInv => ProgressTypeOK
  BY ResultFields, ReportFields DEF ProgressInv, ResultsFit, ProgressTypeOK, Score
<1>2. ProgressInv => PublishedWithinMax
  BY DEF ProgressInv, ResultsFit, Fits, PublishedWithinMax
<1>3. ProgressInv => RubricComplete
  <2>1. ASSUME ProgressInv, NEW a \in Assessments, NEW g \in Gradees,
               assessments[a].mode = "RUBRIC", results[a][g].status = "GRADED"
        PROVE  /\ DOMAIN results[a][g].parts = DOMAIN assessments[a].criteria
               /\ \A n \in DOMAIN assessments[a].criteria : results[a][g].parts[n] <= assessments[a].criteria[n]
               /\ results[a][g].score = FoldSeq(+, 0, results[a][g].parts)
    <3>1. /\ Len(results[a][g].parts) = Len(assessments[a].criteria)
          /\ \A n \in DOMAIN results[a][g].parts : results[a][g].parts[n] <= assessments[a].criteria[n]
          /\ results[a][g].score = Total(results[a][g].parts)
      BY <2>1 DEF ProgressInv, ResultsFit, Fits
    <3>2. results[a][g].parts \in Seq(Nat) /\ assessments[a].criteria \in Seq(Nat)
      BY <2>1, ResultFields DEF ProgressInv
    <3>3. DOMAIN results[a][g].parts = DOMAIN assessments[a].criteria
      BY <3>1, <3>2
    <3> QED  BY <3>1, <3>3 DEF Total
  <2> QED  BY <2>1 DEF RubricComplete
<1>4. ProgressInv => RevisionsExplain /\ OneReportPerPeriod /\ OneSuccessor
  BY Explained, Succeeded DEF ProgressInv
<1>5. ProgressInv /\ [ProgressNext]_progressVars =>
        [\A r \in DOMAIN progress : progress[r].status # "DRAFT" =>
            progress'[r].snapshot = progress[r].snapshot /\ progress'[r].status # "DRAFT"]_progressVars
  BY ProgressKeeps
<1>6. ProgressInv /\ [ProgressNext]_progressVars =>
        [\A a \in Assessments, g \in Gradees : Accounted(a, g)]_progressVars
  BY FiguresKept
<1> QED  BY <1>1, <1>2, <1>3, <1>4, <1>5, <1>6, ProgressInvariance, PTL
         DEF ProgressSpec, ProgressSafe, SnapshotIsFixed, FiguresExplained

===============================================================================
