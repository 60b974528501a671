---------------------------- MODULE OfficeProofs ----------------------------
(***************************************************************************)
(* Proofs about what the people of a center do at their screens:           *)
(* TeamMembership, for any users, roles, invitations, connections and      *)
(* requests; CashDesk, Workbench and LeadPage, for any people and bounds;  *)
(* and Pipeline, the history of the leads they work on and its reports.    *)
(***************************************************************************)
EXTENDS TeamMembership, CashDesk, Workbench, LeadPage, Pipeline,
        SequenceTheorems, FiniteSetTheorems, TLAPS

(* The inductive invariant, in parts. *)

\* The advisory lock has one holder.
OneHolder ==
    \A p, q \in Connections : HoldsTeam(p) /\ HoldsTeam(q) => p = q

\* A command that takes no active owner away.
Harmless(r) ==
    \/ r.op = "changeRole" /\ r.role = OWNER
    \/ r.op = "setStatus" /\ r.status = "ACTIVE"

\* A harmful command about to write leaves another owner.
OtherOwnerRemains ==
    \A p \in Connections : pc[p] = "updating" =>
        \/ overwritten
        \/ Harmless(request[p])
        \/ ActiveOwners \ {request[p].user} # {}

IInv ==
    /\ TypeOK
    /\ OneHolder
    /\ OtherOwnerRemains
    /\ OwnerUnlessOverwritten
    /\ AcceptedOrRevoked

-----------------------------------------------------------------------------
LEMMA RequestFields ==
    ASSUME NEW r \in Requests
    PROVE  /\ r.op \in {"changeRole", "setStatus", "remove"} =>
                 r \in TeamCommand /\ r.actor \in Users /\ r.user \in Users
           /\ r.op = "changeRole" => r.role \in Roles
           /\ r.op = "setStatus" => r.status \in {"ACTIVE", "DISABLED"}
           /\ r.op \in {"invite", "resend"} => r \in Issue /\ r.actor \in Users
           /\ r.op = "invite" => r.user \in Users /\ r.role \in Roles
           /\ r.op = "resend" => r.invitation \in Invitations
           /\ r.op \in {"acceptNew", "acceptExisting"} =>
                 r \in Acceptance /\ r.user \in Users /\ r.invitation \in Invitations
<1>1. CASE r \in TeamCommand
  BY <1>1 DEF TeamCommand
<1>2. CASE r \in Issue
  BY <1>2 DEF Issue
<1>3. CASE r \in Acceptance
  BY <1>3 DEF Acceptance
<1> QED  BY <1>1, <1>2, <1>3, TeamAssumption

\* A team command has one of three operations.
LEMMA TeamOps ==
    ASSUME NEW r \in TeamCommand
    PROVE  r.op \in {"changeRole", "setStatus", "remove"} /\ r.user \in Users
BY DEF TeamCommand

LEMMA Served ==
    ASSUME TypeOK, NEW p \in Connections, pc[p] # "idle"
    PROVE  request[p] \in Requests
BY DEF TypeOK, AtStep

\* What a refusal and an end leave behind.
LEMMA EndStep ==
    ASSUME TypeOK, NEW p \in Connections, End(p)
    PROVE  /\ request' \in [Connections -> Requests \cup {NoRequest}]
           /\ pc' \in [Connections -> {"idle", "checked", "vetted", "revoking", "accepting", "joining", "asserting", "updating"}]
           /\ seen' \in [Connections -> SUBSET Issued]
           /\ pc'[p] = "idle" /\ request'[p] = NoRequest
           /\ \A q \in Connections \ {p} : pc'[q] = pc[q] /\ request'[q] = request[q]
BY DEF TypeOK, End

LEMMA InitInv == Init => IInv
<1> SUFFICES ASSUME Init PROVE IInv
  OBVIOUS
<1> USE TeamAssumption DEF Init
<1>1. members \in [Users -> Member \cup {Nobody}]
  BY DEF Member
<1>2. \A p \in Connections : AtStep(p)
  BY DEF AtStep, HoldsTeam
<1>3. TypeOK
  BY <1>1, <1>2 DEF TypeOK
<1>4. Founder \in ActiveOwners
  BY DEF ActiveOwners, IsActive, Member
<1> QED  BY <1>3, <1>4 DEF IInv, OneHolder, HoldsTeam, OtherOwnerRemains, OwnerUnlessOverwritten, AcceptedOrRevoked, Issued

\* An issued invitation stays issued, and to the same user.
InvitationsStay ==
    \A i \in Issued : i \in Issued' /\ invitations'[i].user = invitations[i].user

\* Only a command that holds the lock takes a membership away.
MembersStay ==
    \A u \in Users : members[u] # Nobody =>
        \/ members'[u] # Nobody
        \/ \E p \in Connections : HoldsTeam(p) /\ pc'[p] = "idle"

\* A step of one connection leaves the requests of the others alone.
OthersStay(p) ==
    \A q \in Connections \ {p} : pc'[q] = pc[q] /\ request'[q] = request[q]

\* The connections that a step does not serve are still where they were.
LEMMA OthersAtStep ==
    ASSUME TypeOK, OneHolder, InvitationsStay, MembersStay,
           NEW q \in Connections, pc'[q] = pc[q], request'[q] = request[q]
    PROVE  AtStep(q)'
<1> USE DEF TypeOK
<1>1. AtStep(q)
  OBVIOUS
<1>2. HoldsTeam(q)' => request'[q] \in TeamCommand /\ members'[request'[q].user] # Nobody
  <2> SUFFICES ASSUME HoldsTeam(q) PROVE request[q] \in TeamCommand /\ members'[request[q].user] # Nobody
    BY DEF HoldsTeam
  <2>1. request[q] \in TeamCommand /\ request[q].user \in Users /\ members[request[q].user] # Nobody
    BY <1>1, TeamOps DEF AtStep
  <2>2. ~ \E p \in Connections : HoldsTeam(p) /\ pc'[p] = "idle"
    BY DEF OneHolder, HoldsTeam
  <2> QED  BY <2>1, <2>2 DEF MembersStay
<1>3. pc'[q] \in {"accepting", "joining"} =>
         /\ request'[q] \in Acceptance
         /\ request'[q].invitation \in Issued'
         /\ invitations'[request'[q].invitation].user = request'[q].user
  BY <1>1 DEF AtStep, InvitationsStay
<1>4. pc'[q] \in {"vetted", "revoking"} /\ request'[q].op = "resend" => request'[q].invitation \in Issued'
  BY <1>1 DEF AtStep, InvitationsStay
<1> QED  BY <1>1, <1>2, <1>3, <1>4 DEF AtStep

LEMMA RowsUnchanged ==
    ASSUME UNCHANGED rows
    PROVE  InvitationsStay /\ MembersStay /\ Issued' = Issued
BY DEF rows, InvitationsStay, MembersStay, Issued

\* A connection that has ended its request is idle.
LEMMA IdleAtStep ==
    ASSUME NEW p \in Connections, pc'[p] = "idle", request'[p] = NoRequest
    PROVE  AtStep(p)'
BY DEF AtStep, HoldsTeam

\* The steps that only read.
LEMMA ReadStep ==
    ASSUME TypeOK, OneHolder, NEW p \in Connections,
           UNCHANGED <<rows, overwritten>>,
           OthersStay(p), AtStep(p)',
           request' \in [Connections -> Requests \cup {NoRequest}],
           pc' \in [Connections -> {"idle", "checked", "vetted", "revoking", "accepting", "joining", "asserting", "updating"}],
           seen' \in [Connections -> SUBSET Issued]
    PROVE  TypeOK'
<1>1. InvitationsStay /\ MembersStay /\ Issued' = Issued
  BY RowsUnchanged
<1>2. ASSUME NEW q \in Connections PROVE AtStep(q)'
  BY <1>1, OthersAtStep DEF OthersStay
<1> QED  BY <1>1, <1>2 DEF TypeOK, rows

LEMMA RefuseStep ==
    ASSUME TypeOK, OneHolder, NEW p \in Connections, Refuse(p)
    PROVE  TypeOK'
BY EndStep, IdleAtStep, ReadStep DEF Refuse, OthersStay

LEMMA GotoStep ==
    ASSUME TypeOK, OneHolder, NEW p \in Connections, UNCHANGED <<rows, overwritten>>,
           NEW step \in {"checked", "vetted", "revoking", "accepting", "joining", "asserting", "updating"},
           Goto(p, step), AtStep(p)'
    PROVE  TypeOK'
<1>1. /\ pc' \in [Connections -> {"idle", "checked", "vetted", "revoking", "accepting", "joining", "asserting", "updating"}]
      /\ OthersStay(p)
      /\ request' \in [Connections -> Requests \cup {NoRequest}]
      /\ seen' \in [Connections -> SUBSET Issued]
  BY DEF TypeOK, Goto, OthersStay
<1> QED  BY <1>1, ReadStep

LEMMA ReadingSteps ==
    ASSUME TypeOK, OneHolder, NEW p \in Connections, NEW r \in Requests,
           \/ StartCommand(p, r) \/ StartAcceptance(p, r)
           \/ VetInvitee(p) \/ ReadInvitation(p) \/ FindOpen(p) \/ Upsert(p)
           \/ LockTenantMemberships(p) \/ AssertOwnerRemains(p) \/ Rollback(p)
    PROVE  TypeOK'
<1> USE DEF TypeOK
<1>1. CASE StartCommand(p, r)
  <2>1. AtStep(p)'
    BY <1>1, TeamAssumption DEF StartCommand, AtStep, HoldsTeam
  <2> QED  BY <1>1, <2>1, ReadStep DEF StartCommand, OthersStay
<1>2. CASE StartAcceptance(p, r)
  <2>1. /\ r \in Acceptance /\ r.invitation \in Issued /\ invitations[r.invitation].user = r.user
        /\ UNCHANGED rows
    BY <1>2, RequestFields DEF StartAcceptance, Acceptable, Open
  <2>2. AtStep(p)'
    BY <1>2, <2>1, TeamAssumption, RowsUnchanged DEF StartAcceptance, AtStep, HoldsTeam, rows
  <2> QED  BY <1>2, <2>2, ReadStep DEF StartAcceptance, OthersStay
<1>3. CASE VetInvitee(p)
  <2>1. request[p] \in Issue
    BY <1>3, Served, RequestFields DEF VetInvitee
  <2>2. CASE ~ Refuse(p)
    <3>1. Goto(p, "vetted") /\ UNCHANGED <<rows, overwritten>> /\ request[p].op = "invite"
      BY <1>3, <2>2 DEF VetInvitee
    <3>2. AtStep(p)'
      BY <3>1, <2>1, <1>3 DEF Goto, AtStep, HoldsTeam, VetInvitee
    <3> QED  BY <3>1, <3>2, GotoStep
  <2> QED  BY <2>2, RefuseStep
<1>4. CASE ReadInvitation(p)
  <2>1. request[p] \in Issue
    BY <1>4, Served, RequestFields DEF ReadInvitation
  <2>2. CASE ~ Refuse(p)
    <3>1. Goto(p, "vetted") /\ UNCHANGED <<rows, overwritten>> /\ request[p].invitation \in Issued
      BY <1>4, <2>2 DEF ReadInvitation, Open
    <3>2. AtStep(p)'
      BY <3>1, <2>1, <1>4, RowsUnchanged DEF Goto, AtStep, HoldsTeam, ReadInvitation
    <3> QED  BY <3>1, <3>2, GotoStep
  <2> QED  BY <2>2, RefuseStep
<1>5. CASE FindOpen(p)
  <2>1. UNCHANGED rows /\ Issued' = Issued
    BY <1>5, RowsUnchanged DEF FindOpen
  <2>2. AtStep(p)'
    BY <1>5, <2>1 DEF FindOpen, AtStep, HoldsTeam
  <2> QED  BY <1>5, <2>2, ReadStep DEF FindOpen, OthersStay
<1>6. CASE Upsert(p)
  <2>1. CASE ~ Refuse(p)
    <3>1. Goto(p, "joining") /\ UNCHANGED <<rows, overwritten>> /\ AtStep(p) /\ pc[p] = "accepting"
      BY <1>6, <2>1 DEF Upsert
    <3>2. AtStep(p)'
      BY <3>1, RowsUnchanged DEF Goto, AtStep, HoldsTeam, rows
    <3> QED  BY <3>1, <3>2, GotoStep
  <2> QED  BY <2>1, RefuseStep
<1>7. CASE LockTenantMemberships(p)
  <2>1. request[p] \in TeamCommand
    BY <1>7, Served, RequestFields DEF LockTenantMemberships
  <2>2. CASE ~ Refuse(p)
    <3>1. PICK step \in {"asserting", "updating"} :
             Goto(p, step) /\ UNCHANGED <<rows, overwritten>> /\ members[request[p].user] # Nobody /\ pc[p] = "checked"
      BY <1>7, <2>2 DEF LockTenantMemberships
    <3>2. AtStep(p)'
      BY <3>1, <2>1 DEF Goto, AtStep, HoldsTeam, rows
    <3> QED  BY <3>1, <3>2, GotoStep
  <2> QED  BY <2>2, RefuseStep
<1>8. CASE AssertOwnerRemains(p)
  <2>1. CASE ~ Refuse(p)
    <3>1. Goto(p, "updating") /\ UNCHANGED <<rows, overwritten>> /\ AtStep(p) /\ pc[p] = "asserting"
      BY <1>8, <2>1 DEF AssertOwnerRemains
    <3>2. AtStep(p)'
      BY <3>1 DEF Goto, AtStep, HoldsTeam, rows
    <3> QED  BY <3>1, <3>2, GotoStep
  <2> QED  BY <2>1, RefuseStep
<1>9. CASE Rollback(p)
  BY <1>9, RefuseStep DEF Rollback
<1> QED  BY <1>1, <1>2, <1>3, <1>4, <1>5, <1>6, <1>7, <1>8, <1>9

\* An action that writes rows and ends its request, or serves none.
LEMMA WriteStep ==
    ASSUME TypeOK, OneHolder, InvitationsStay, MembersStay,
           members' \in [Users -> Member \cup {Nobody}],
           accounts' \in SUBSET Users,
           invitations' \in [Invitations -> Invitation \cup {Unissued}],
           overwritten' \in BOOLEAN,
           UNCHANGED service \/ \E p \in Connections : End(p)
    PROVE  TypeOK'
<1> USE DEF TypeOK
<1>1. Issued \subseteq Issued'
  BY DEF InvitationsStay
<1>2. CASE UNCHANGED service
  BY <1>1, <1>2, OthersAtStep DEF service
<1>3. CASE ~ UNCHANGED service
  <2>1. PICK p \in Connections : End(p)
    BY <1>3
  <2>2. AtStep(p)'
    BY <2>1, EndStep, IdleAtStep
  <2>3. ASSUME NEW q \in Connections PROVE AtStep(q)'
    BY <2>1, <2>2, EndStep, OthersAtStep
  <2> QED  BY <1>1, <2>1, <2>3, EndStep
<1> QED  BY <1>2, <1>3

\* What an invitation to be issued offers.
LEMMA OfferTyped ==
    ASSUME TypeOK, NEW p \in Connections, pc[p] = "revoking"
    PROVE  Offer(p).user \in Users /\ Offer(p).role \in Roles
<1>1. request[p] \in Issue /\ (request[p].op = "resend" => request[p].invitation \in Issued)
  BY DEF TypeOK, AtStep
<1>2. CASE request[p].op = "invite"
  BY <1>1, <1>2 DEF Offer, Issue
<1>3. CASE request[p].op = "resend"
  <2>1. invitations[request[p].invitation] \in Invitation
    BY <1>1, <1>3 DEF TypeOK, Issued
  <2> QED  BY <1>3, <2>1 DEF Offer, Invitation
<1> QED  BY <1>1, <1>2, <1>3 DEF Issue

LEMMA CommitInvitationTyped ==
    ASSUME TypeOK, OneHolder, NEW p \in Connections, CommitInvitation(p)
    PROVE  TypeOK'
<1> USE DEF CommitInvitation
<1>1. PICK new \in Invitations \ Issued :
         invitations' =
             [i \in Invitations |->
                 IF i = new
                 THEN [user |-> Offer(p).user, role |-> Offer(p).role,
                       accepted |-> FALSE, revoked |-> FALSE, expired |-> FALSE]
                 ELSE IF Revokes(p, i)
                 THEN [invitations[i] EXCEPT !.revoked = TRUE]
                 ELSE invitations[i]]
  OBVIOUS
<1>2. Offer(p).user \in Users /\ Offer(p).role \in Roles
  BY OfferTyped
<1>3. \A i \in Issued : invitations[i] \in Invitation
  BY DEF TypeOK, Issued
<1>4. \A i \in Invitations : Revokes(p, i) => i \in Issued
  BY DEF Revokes, Open
<1>5. ASSUME NEW i \in Invitations PROVE invitations'[i] \in Invitation \cup {Unissued}
  <2>1. CASE i = new
    BY <1>1, <1>2, <2>1 DEF Invitation
  <2>2. CASE i # new /\ Revokes(p, i)
    <3>1. invitations'[i] = [invitations[i] EXCEPT !.revoked = TRUE] /\ invitations[i] \in Invitation
      BY <1>1, <1>3, <1>4, <2>2
    <3> QED  BY <3>1 DEF Invitation
  <2>3. CASE i # new /\ ~ Revokes(p, i)
    BY <1>1, <2>3 DEF TypeOK
  <2> QED  BY <2>1, <2>2, <2>3
<1>6. ASSUME NEW i \in Issued PROVE i \in Issued' /\ invitations'[i].user = invitations[i].user
  <2>1. i \in Invitations /\ i # new /\ invitations[i] \in Invitation
    BY <1>1, <1>3 DEF Issued
  <2>2. CASE Revokes(p, i)
    <3>1. invitations'[i] = [invitations[i] EXCEPT !.revoked = TRUE]
      BY <1>1, <2>1, <2>2
    <3>2. invitations'[i] \in Invitation /\ invitations'[i].user = invitations[i].user
      BY <3>1, <2>1 DEF Invitation
    <3> QED  BY <3>2, <2>1, TeamAssumption DEF Issued
  <2>3. CASE ~ Revokes(p, i)
    <3>1. invitations'[i] = invitations[i]
      BY <1>1, <2>1, <2>3
    <3> QED  BY <3>1, <2>1, TeamAssumption DEF Issued
  <2> QED  BY <2>2, <2>3
<1>7. InvitationsStay /\ MembersStay
  BY <1>6 DEF InvitationsStay, MembersStay
<1>8. invitations' \in [Invitations -> Invitation \cup {Unissued}]
  BY <1>1, <1>5
<1> QED  BY <1>7, <1>8, WriteStep DEF TypeOK

LEMMA CommitAcceptanceTyped ==
    ASSUME TypeOK, OneHolder, NEW p \in Connections, CommitAcceptance(p)
    PROVE  TypeOK'
<1>1. CASE Refuse(p)
  BY <1>1, RefuseStep
<1>2. CASE ~ Refuse(p)
  <2>1. PICK u, i : /\ u = request[p].user /\ i = request[p].invitation
                    /\ members' = [members EXCEPT ![u] = [role |-> invitations[i].role, status |-> "ACTIVE"]]
                    /\ accounts' = accounts \cup {u}
                    /\ invitations' = [invitations EXCEPT ![i].accepted = TRUE]
                    /\ overwritten' = (overwritten \/ (u \in ActiveOwners /\ invitations[i].role # OWNER))
                    /\ End(p)
    BY <1>2 DEF CommitAcceptance
  <2>2. request[p] \in Acceptance /\ i \in Issued
    BY <2>1 DEF TypeOK, AtStep, CommitAcceptance
  <2>3. u \in Users /\ i \in Invitations /\ invitations[i] \in Invitation
    BY <2>1, <2>2 DEF Acceptance, TypeOK, Issued
  <2>4. [invitations[i] EXCEPT !.accepted = TRUE] \in Invitation
        /\ [invitations[i] EXCEPT !.accepted = TRUE].user = invitations[i].user
    BY <2>3 DEF Invitation
  <2>5. invitations' \in [Invitations -> Invitation \cup {Unissued}]
    BY <2>1, <2>3, <2>4 DEF TypeOK
  <2>6. [role |-> invitations[i].role, status |-> "ACTIVE"] \in Member
    BY <2>3 DEF Invitation, Member
  <2>7. members' \in [Users -> Member \cup {Nobody}]
    BY <2>1, <2>3, <2>6 DEF TypeOK
  <2>8. InvitationsStay
    BY <2>1, <2>3, <2>4, TeamAssumption DEF InvitationsStay, Issued, TypeOK
  <2>9. MembersStay
    BY <2>1, <2>3, <2>6, TeamAssumption DEF MembersStay, TypeOK
  <2>10. overwritten' \in BOOLEAN /\ accounts' \in SUBSET Users
    BY <2>1, <2>3 DEF TypeOK
  <2> QED  BY <2>1, <2>5, <2>7, <2>8, <2>9, <2>10, WriteStep
<1> QED  BY <1>1, <1>2

\* What a team command writes.
LEMMA UpdateTyped ==
    ASSUME TypeOK, NEW r \in Requests, r \in TeamCommand, members[r.user] # Nobody
    PROVE  Updated(r) \in Member \cup {Nobody}
<1>1. r.op \in {"changeRole", "setStatus", "remove"} /\ members[r.user] \in Member
  BY TeamOps DEF TypeOK
<1>2. CASE r.op = "changeRole"
  BY <1>1, <1>2, RequestFields DEF Updated, Member
<1>3. CASE r.op = "setStatus"
  BY <1>1, <1>3, RequestFields DEF Updated, Member
<1>4. CASE r.op = "remove"
  BY <1>4 DEF Updated
<1> QED  BY <1>1, <1>2, <1>3, <1>4

\* A team command about to write names a member and is served.
LEMMA Updating ==
    ASSUME TypeOK, NEW p \in Connections, HoldsTeam(p)
    PROVE  /\ request[p] \in Requests /\ request[p] \in TeamCommand
           /\ request[p].user \in Users /\ members[request[p].user] # Nobody
           /\ members[request[p].user] \in Member
<1>1. request[p] \in TeamCommand /\ members[request[p].user] # Nobody /\ pc[p] # "idle"
  BY DEF TypeOK, AtStep, HoldsTeam
<1> QED  BY <1>1, Served, TeamOps DEF TypeOK

LEMMA CommitTeamCommandTyped ==
    ASSUME TypeOK, OneHolder, NEW p \in Connections, CommitTeamCommand(p)
    PROVE  TypeOK'
<1>1. CASE Refuse(p)
  BY <1>1, RefuseStep
<1>2. CASE ~ Refuse(p)
  <2>1. /\ members' = [members EXCEPT ![request[p].user] = Updated(request[p])]
        /\ End(p) /\ HoldsTeam(p)
        /\ UNCHANGED <<accounts, invitations, overwritten>>
    BY <1>2 DEF CommitTeamCommand, HoldsTeam
  <2>2. members' \in [Users -> Member \cup {Nobody}]
    BY <2>1, Updating, UpdateTyped DEF TypeOK
  <2>3. MembersStay
    BY <2>1, EndStep, Updating DEF MembersStay
  <2>4. InvitationsStay
    BY <2>1 DEF InvitationsStay, Issued
  <2> QED  BY <2>1, <2>2, <2>3, <2>4, WriteStep DEF TypeOK
<1> QED  BY <1>1, <1>2

LEMMA OperatorTyped ==
    ASSUME TypeOK, OneHolder, NEW u \in Users, CreateOwner(u)
    PROVE  TypeOK'
<1>1. [role |-> OWNER, status |-> "ACTIVE"] \in Member
  BY TeamAssumption DEF Member
<1>2. members' \in [Users -> Member \cup {Nobody}] /\ MembersStay
  BY <1>1, TeamAssumption DEF CreateOwner, TypeOK, MembersStay
<1>3. InvitationsStay
  BY DEF CreateOwner, InvitationsStay, Issued
<1> QED  BY <1>2, <1>3, WriteStep DEF CreateOwner, TypeOK

LEMMA ExpireTyped ==
    ASSUME TypeOK, OneHolder, NEW i \in Invitations, Expire(i)
    PROVE  TypeOK'
<1>1. invitations[i] \in Invitation
  BY DEF Expire, Open, Issued, TypeOK
<1>2. /\ [invitations[i] EXCEPT !.expired = TRUE] \in Invitation
      /\ [invitations[i] EXCEPT !.expired = TRUE].user = invitations[i].user
  BY <1>1 DEF Invitation
<1>3. invitations' \in [Invitations -> Invitation \cup {Unissued}]
  BY <1>2 DEF Expire, TypeOK
<1>4. InvitationsStay
  BY <1>2, TeamAssumption DEF Expire, TypeOK, InvitationsStay, Issued
<1>5. MembersStay
  BY DEF Expire, MembersStay
<1> QED  BY <1>3, <1>4, <1>5, WriteStep DEF Expire, TypeOK

LEMMA Typed ==
    ASSUME TypeOK, OneHolder, [Next]_vars
    PROVE  TypeOK'
<1>1. CASE UNCHANGED vars
  <2>1. InvitationsStay /\ MembersStay
    BY <1>1, RowsUnchanged DEF vars
  <2> QED  BY <1>1, <2>1, WriteStep DEF vars, rows, TypeOK
<1>2. ASSUME NEW p \in Connections, NEW r \in Requests, StartCommand(p, r) \/ StartAcceptance(p, r)
      PROVE TypeOK'
  BY <1>2, ReadingSteps
<1>3. ASSUME NEW p \in Connections, Step(p) \/ Rollback(p)
      PROVE TypeOK'
  <2>1. CASE CommitInvitation(p) \/ CommitAcceptance(p) \/ CommitTeamCommand(p)
    BY <2>1, CommitInvitationTyped, CommitAcceptanceTyped, CommitTeamCommandTyped
  <2>2. CASE Rollback(p)
    BY <2>2, RefuseStep DEF Rollback
  <2>3. CASE ~ (CommitInvitation(p) \/ CommitAcceptance(p) \/ CommitTeamCommand(p) \/ Rollback(p))
    <3>1. pc[p] # "idle"
      BY <1>3, <2>3 DEF Step, VetInvitee, ReadInvitation, FindOpen, Upsert, LockTenantMemberships, AssertOwnerRemains
    <3>2. request[p] \in Requests
      BY <3>1, Served
    <3> QED  BY <1>3, <2>3, <3>2, ReadingSteps DEF Step
  <2> QED  BY <2>1, <2>2, <2>3
<1>4. ASSUME NEW u \in NewOwners, CreateOwner(u) PROVE TypeOK'
  BY <1>4, OperatorTyped, TeamAssumption
<1>5. ASSUME NEW i \in Invitations, Expire(i) PROVE TypeOK'
  BY <1>5, ExpireTyped
<1> QED  BY <1>1, <1>2, <1>3, <1>4, <1>5 DEF Next

-----------------------------------------------------------------------------
\* The steps that change a membership or the history variable.
LEMMA MemberSteps ==
    ASSUME [Next]_vars
    PROVE  \/ UNCHANGED <<members, overwritten>>
           \/ \E p \in Connections : CommitTeamCommand(p) \/ CommitAcceptance(p)
           \/ \E u \in NewOwners : CreateOwner(u)
<1>1. CASE UNCHANGED vars
  BY <1>1 DEF vars, rows
<1>2. ASSUME NEW p \in Connections, NEW r \in Requests, StartCommand(p, r) \/ StartAcceptance(p, r)
      PROVE UNCHANGED <<members, overwritten>>
  BY <1>2 DEF StartCommand, StartAcceptance, rows
<1>3. ASSUME NEW p \in Connections, Rollback(p) \/ Step(p), ~ CommitTeamCommand(p), ~ CommitAcceptance(p)
      PROVE UNCHANGED <<members, overwritten>>
  BY <1>3 DEF Rollback, Refuse, Step, VetInvitee, ReadInvitation, FindOpen, CommitInvitation, Upsert,
              LockTenantMemberships, AssertOwnerRemains, rows
<1>4. ASSUME NEW i \in Invitations, Expire(i) PROVE UNCHANGED <<members, overwritten>>
  BY <1>4 DEF Expire
<1> QED  BY <1>1, <1>2, <1>3, <1>4 DEF Next

\* The step of one connection through the lock leaves the others where they were.
LEMMA LockStepAlone ==
    ASSUME TypeOK, NEW p \in Connections, LockTenantMemberships(p) \/ AssertOwnerRemains(p)
    PROVE  OthersStay(p) /\ UNCHANGED <<rows, overwritten>> /\ (HoldsTeam(p)' => request'[p] = request[p])
<1>1. CASE Refuse(p)
  BY <1>1, EndStep DEF Refuse, OthersStay, HoldsTeam
<1>2. CASE ~ Refuse(p)
  BY <1>2 DEF LockTenantMemberships, AssertOwnerRemains, Goto, OthersStay, TypeOK
<1> QED  BY <1>1, <1>2

\* The steps of a connection, as far as the advisory lock goes.
LEMMA LockSteps ==
    ASSUME TypeOK, [Next]_vars, NEW q \in Connections, HoldsTeam(q)'
    PROVE  \/ pc'[q] = pc[q] /\ request'[q] = request[q]
           \/ LockTenantMemberships(q) \/ AssertOwnerRemains(q)
<1> USE DEF HoldsTeam, TypeOK
<1>1. CASE UNCHANGED vars
  BY <1>1 DEF vars, service
<1>2. ASSUME NEW p \in Connections, NEW r \in Requests, StartCommand(p, r) \/ StartAcceptance(p, r)
      PROVE pc'[q] = pc[q] /\ request'[q] = request[q]
  BY <1>2 DEF StartCommand, StartAcceptance
<1>3. ASSUME NEW p \in Connections, End(p) PROVE pc'[q] = pc[q] /\ request'[q] = request[q]
  BY <1>3 DEF End
<1>4. ASSUME NEW p \in Connections, NEW step \in {"vetted", "joining"}, Goto(p, step)
      PROVE pc'[q] = pc[q] /\ request'[q] = request[q]
  BY <1>4 DEF Goto
<1>5. ASSUME NEW p \in Connections, LockTenantMemberships(p) \/ AssertOwnerRemains(p), p # q
      PROVE pc'[q] = pc[q] /\ request'[q] = request[q]
  BY <1>5, LockStepAlone DEF OthersStay
<1>6. ASSUME NEW p \in Connections, FindOpen(p) PROVE pc'[q] = pc[q] /\ request'[q] = request[q]
  BY <1>6 DEF FindOpen
<1>7. ASSUME NEW p \in Connections, Rollback(p) \/ Step(p)
      PROVE \/ pc'[q] = pc[q] /\ request'[q] = request[q]
            \/ LockTenantMemberships(q) \/ AssertOwnerRemains(q)
  <2>1. CASE Rollback(p) \/ CommitInvitation(p) \/ CommitAcceptance(p) \/ CommitTeamCommand(p)
    BY <2>1, <1>3 DEF Rollback, Refuse, CommitInvitation, CommitAcceptance, CommitTeamCommand
  <2>2. CASE VetInvitee(p) \/ ReadInvitation(p) \/ Upsert(p)
    BY <2>2, <1>3, <1>4 DEF VetInvitee, ReadInvitation, Upsert, Refuse
  <2>3. CASE LockTenantMemberships(p) \/ AssertOwnerRemains(p)
    BY <2>3, <1>5
  <2> QED  BY <1>6, <1>7, <2>1, <2>2, <2>3 DEF Step
<1>8. ASSUME NEW u \in NewOwners, CreateOwner(u) PROVE pc'[q] = pc[q] /\ request'[q] = request[q]
  BY <1>8 DEF CreateOwner, service
<1>9. ASSUME NEW i \in Invitations, Expire(i) PROVE pc'[q] = pc[q] /\ request'[q] = request[q]
  BY <1>9 DEF Expire, service
<1> QED  BY <1>1, <1>2, <1>7, <1>8, <1>9 DEF Next

LEMMA LockExclusive ==
    ASSUME TypeOK, OneHolder, [Next]_vars
    PROVE  OneHolder'
<1> SUFFICES ASSUME NEW p \in Connections, NEW q \in Connections, HoldsTeam(p)', HoldsTeam(q)', p # q
             PROVE FALSE
  BY DEF OneHolder
<1>1. ASSUME NEW a \in Connections, NEW b \in Connections, a # b, HoldsTeam(a)', HoldsTeam(b)',
             LockTenantMemberships(a) \/ AssertOwnerRemains(a)
      PROVE FALSE
  <2>1. pc'[b] = pc[b]
    BY <1>1, LockStepAlone DEF OthersStay
  <2>2. HoldsTeam(b)
    BY <1>1, <2>1 DEF HoldsTeam
  <2>3. CASE LockTenantMemberships(a)
    BY <2>2, <2>3 DEF LockTenantMemberships, TeamFree
  <2>4. CASE AssertOwnerRemains(a)
    BY <1>1, <2>2, <2>4 DEF AssertOwnerRemains, HoldsTeam, OneHolder
  <2> QED  BY <1>1, <2>3, <2>4
<1>2. pc'[p] = pc[p] /\ pc'[q] = pc[q]
  BY <1>1, LockSteps
<1> QED  BY <1>2 DEF OneHolder, HoldsTeam

\* What each step does to the active owners.
LEMMA OwnersStay ==
    ASSUME TypeOK, [Next]_vars, \A p \in Connections : ~ CommitTeamCommand(p)
    PROVE  /\ overwritten => overwritten'
           /\ overwritten' \/ ActiveOwners \subseteq ActiveOwners'
<1>1. CASE UNCHANGED <<members, overwritten>>
  BY <1>1 DEF ActiveOwners, IsActive
<1>2. ASSUME NEW p \in Connections, CommitAcceptance(p)
      PROVE  /\ overwritten => overwritten'
             /\ overwritten' \/ ActiveOwners \subseteq ActiveOwners'
  <2>1. CASE Refuse(p)
    BY <2>1 DEF Refuse, rows, ActiveOwners, IsActive
  <2>2. CASE ~ Refuse(p)
    <3>1. PICK u, i : /\ members' = [members EXCEPT ![u] = [role |-> invitations[i].role, status |-> "ACTIVE"]]
                      /\ overwritten' = (overwritten \/ (u \in ActiveOwners /\ invitations[i].role # OWNER))
                      /\ u = request[p].user /\ i = request[p].invitation
      BY <1>2, <2>2 DEF CommitAcceptance
    <3>2. CASE u \in ActiveOwners /\ invitations[i].role # OWNER
      BY <3>1, <3>2
    <3>3. CASE ~ (u \in ActiveOwners /\ invitations[i].role # OWNER)
      <4> SUFFICES ASSUME NEW o \in ActiveOwners PROVE o \in ActiveOwners'
        BY <3>1
      <4>1. CASE o # u
        BY <3>1, <4>1 DEF ActiveOwners, IsActive, TypeOK
      <4>2. CASE o = u
        <5>1. members'[o] = [role |-> OWNER, status |-> "ACTIVE"]
          BY <3>1, <3>3, <4>2 DEF ActiveOwners, TypeOK
        <5> QED  BY <5>1, TeamAssumption DEF ActiveOwners, IsActive, Member
      <4> QED  BY <4>1, <4>2
    <3> QED  BY <3>2, <3>3
  <2> QED  BY <2>1, <2>2
<1>3. ASSUME NEW u \in NewOwners, CreateOwner(u)
      PROVE  /\ overwritten => overwritten'
             /\ overwritten' \/ ActiveOwners \subseteq ActiveOwners'
  <2>1. [role |-> OWNER, status |-> "ACTIVE"] # Nobody
    BY TeamAssumption DEF Member
  <2>2. ASSUME NEW o \in ActiveOwners PROVE o \in ActiveOwners'
    BY <1>3, <2>1 DEF CreateOwner, ActiveOwners, IsActive, TypeOK
  <2> QED  BY <1>3, <2>2 DEF CreateOwner
<1> QED  BY <1>1, <1>2, <1>3, MemberSteps

\* A team command that is not harmless is asked to leave another owner.
LEMMA MustAssertCovers ==
    ASSUME NEW r \in TeamCommand, members[r.user] # Nobody, ~ Harmless(r), ~ MustAssert(r), TypeOK
    PROVE  r.user \notin ActiveOwners
<1>1. CASE r.op = "changeRole"
  BY <1>1 DEF Harmless, MustAssert, ActiveOwners
<1>2. CASE r.op = "setStatus"
  BY <1>2 DEF Harmless, MustAssert
<1>3. CASE r.op = "remove"
  BY <1>3 DEF MustAssert
<1> QED  BY <1>1, <1>2, <1>3, TeamOps

\* A command that writes ends its request and touches its target only.
LEMMA CommitStep ==
    ASSUME TypeOK, NEW p \in Connections, CommitTeamCommand(p)
    PROVE  /\ UNCHANGED overwritten
           /\ pc'[p] = "idle"
           /\ \/ UNCHANGED members
              \/ members' = [members EXCEPT ![request[p].user] = Updated(request[p])]
<1>1. CASE Refuse(p)
  BY <1>1, EndStep DEF Refuse, rows
<1>2. CASE ~ Refuse(p)
  BY <1>2, EndStep DEF CommitTeamCommand
<1> QED  BY <1>1, <1>2

LEMMA OtherOwnerKept ==
    ASSUME IInv, [Next]_vars
    PROVE  OtherOwnerRemains'
<1> USE DEF IInv
<1> SUFFICES ASSUME NEW q \in Connections, pc'[q] = "updating"
             PROVE  overwritten' \/ Harmless(request'[q]) \/ ActiveOwners' \ {request'[q].user} # {}
  BY DEF OtherOwnerRemains
<1>1. HoldsTeam(q)'
  BY DEF HoldsTeam
<1>2. CASE LockTenantMemberships(q)
  <2>1. request[q] \in Requests /\ request[q] \in TeamCommand
    BY <1>2, Served, RequestFields DEF LockTenantMemberships
  <2>2. /\ request'[q] = request[q] /\ UNCHANGED <<members, overwritten>>
        /\ members[request[q].user] # Nobody /\ ~ MustAssert(request[q])
    <3>1. ~ Refuse(q)
      BY EndStep DEF Refuse
    <3> QED  BY <1>1, <1>2, <3>1, LockStepAlone DEF LockTenantMemberships, Goto, rows, TypeOK
  <2>3. CASE ~ Harmless(request[q])
    BY <2>1, <2>2, <2>3, MustAssertCovers DEF OwnerUnlessOverwritten, ActiveOwners, IsActive
  <2> QED  BY <2>2, <2>3
<1>3. CASE AssertOwnerRemains(q)
  <2>1. request'[q] = request[q] /\ UNCHANGED members /\ ActiveOwners \ {request[q].user} # {}
    <3>1. ~ Refuse(q)
      BY EndStep DEF Refuse
    <3> QED  BY <1>1, <1>3, <3>1, LockStepAlone DEF AssertOwnerRemains, rows
  <2> QED  BY <2>1 DEF ActiveOwners, IsActive
<1>4. CASE pc'[q] = pc[q] /\ request'[q] = request[q]
  <2>1. overwritten \/ Harmless(request[q]) \/ ActiveOwners \ {request[q].user} # {}
    BY <1>4 DEF OtherOwnerRemains
  <2>2. ASSUME NEW p \in Connections, CommitTeamCommand(p) PROVE FALSE
    <3>1. HoldsTeam(p) /\ HoldsTeam(q)
      BY <1>4, <2>2 DEF CommitTeamCommand, HoldsTeam
    <3> QED  BY <1>4, <2>2, <3>1, CommitStep DEF OneHolder
  <2>3. (overwritten => overwritten') /\ (overwritten' \/ ActiveOwners \subseteq ActiveOwners')
    BY <2>2, OwnersStay
  <2> QED  BY <1>4, <2>1, <2>3
<1> QED  BY <1>1, <1>2, <1>3, <1>4, LockSteps

LEMMA OwnerKept ==
    ASSUME IInv, [Next]_vars
    PROVE  OwnerUnlessOverwritten'
<1> USE DEF IInv
<1>1. CASE \A p \in Connections : ~ CommitTeamCommand(p)
  BY <1>1, OwnersStay DEF OwnerUnlessOverwritten
<1>2. ASSUME NEW p \in Connections, CommitTeamCommand(p)
      PROVE  OwnerUnlessOverwritten'
  <2>1. HoldsTeam(p) /\ pc[p] = "updating"
    BY <1>2 DEF CommitTeamCommand, HoldsTeam
  <2>2. CASE UNCHANGED members
    BY <1>2, <2>2, CommitStep DEF OwnerUnlessOverwritten, ActiveOwners, IsActive
  <2>3. CASE members' = [members EXCEPT ![request[p].user] = Updated(request[p])]
    <3>1. CASE overwritten
      BY <1>2, <3>1, CommitStep DEF OwnerUnlessOverwritten
    <3>2. ASSUME NEW o \in ActiveOwners \ {request[p].user} PROVE o \in ActiveOwners'
      BY <2>3, <3>2 DEF ActiveOwners, IsActive, TypeOK
    <3>3. CASE Harmless(request[p]) /\ request[p].user \in ActiveOwners
      <4>1. members[request[p].user] = [role |-> OWNER, status |-> "ACTIVE"]
        BY <3>3, <2>1, Updating DEF ActiveOwners, IsActive, Member
      <4>2. Updated(request[p]) = [role |-> OWNER, status |-> "ACTIVE"]
        BY <3>3, <4>1 DEF Harmless, Updated
      <4>3. members'[request[p].user] = [role |-> OWNER, status |-> "ACTIVE"]
        BY <2>1, <2>3, <4>2, Updating DEF TypeOK
      <4>4. request[p].user \in ActiveOwners'
        BY <2>1, <4>3, Updating, TeamAssumption DEF ActiveOwners, IsActive, Member
      <4> QED  BY <4>4 DEF OwnerUnlessOverwritten
    <3>4. overwritten \/ Harmless(request[p]) \/ ActiveOwners \ {request[p].user} # {}
      BY <2>1 DEF OtherOwnerRemains
    <3> QED  BY <3>1, <3>2, <3>3, <3>4 DEF OwnerUnlessOverwritten
  <2> QED  BY <1>2, <2>2, <2>3, CommitStep
<1> QED  BY <1>1, <1>2

\* The steps that change an invitation.
LEMMA InvitationSteps ==
    ASSUME [Next]_vars
    PROVE  \/ UNCHANGED invitations
           \/ \E p \in Connections : CommitInvitation(p) \/ (CommitAcceptance(p) /\ ~ Refuse(p))
           \/ \E i \in Invitations : Expire(i)
<1>1. CASE UNCHANGED vars
  BY <1>1 DEF vars, rows
<1>2. ASSUME NEW p \in Connections, NEW r \in Requests, StartCommand(p, r) \/ StartAcceptance(p, r)
      PROVE UNCHANGED invitations
  BY <1>2 DEF StartCommand, StartAcceptance, rows
<1>3. ASSUME NEW p \in Connections, Refuse(p) PROVE UNCHANGED invitations
  BY <1>3 DEF Refuse, rows
<1>4. ASSUME NEW p \in Connections, Rollback(p) \/ Step(p), ~ CommitInvitation(p), ~ CommitAcceptance(p)
      PROVE UNCHANGED invitations
  BY <1>3, <1>4 DEF Rollback, Step, VetInvitee, ReadInvitation, FindOpen, Upsert,
              LockTenantMemberships, AssertOwnerRemains, CommitTeamCommand, rows
<1>5. ASSUME NEW u \in NewOwners, CreateOwner(u) PROVE UNCHANGED invitations
  BY <1>5 DEF CreateOwner
<1> QED  BY <1>1, <1>2, <1>3, <1>4, <1>5 DEF Next

LEMMA SpentKept ==
    ASSUME TypeOK, AcceptedOrRevoked, [Next]_vars
    PROVE  AcceptedOrRevoked'
<1> USE DEF AcceptedOrRevoked
<1>1. CASE UNCHANGED invitations
  BY <1>1 DEF Issued
<1>2. ASSUME NEW p \in Connections, CommitInvitation(p), NEW i \in Issued'
      PROVE ~(invitations'[i].accepted /\ invitations'[i].revoked)
  <2>1. PICK new \in Invitations \ Issued :
         invitations' =
             [j \in Invitations |->
                 IF j = new
                 THEN [user |-> Offer(p).user, role |-> Offer(p).role,
                       accepted |-> FALSE, revoked |-> FALSE, expired |-> FALSE]
                 ELSE IF Revokes(p, j)
                 THEN [invitations[j] EXCEPT !.revoked = TRUE]
                 ELSE invitations[j]]
    BY <1>2 DEF CommitInvitation
  <2>2. i \in Invitations
    BY <1>2 DEF Issued
  <2>3. CASE i = new
    BY <2>1, <2>2, <2>3
  <2>4. CASE i # new /\ Revokes(p, i)
    <3>1. invitations[i] \in Invitation /\ ~invitations[i].accepted
      BY <2>4 DEF Revokes, Open, Issued, TypeOK
    <3> QED  BY <2>1, <2>2, <2>4, <3>1 DEF Invitation
  <2>5. CASE i # new /\ ~ Revokes(p, i)
    <3>1. invitations'[i] = invitations[i] /\ i \in Issued
      BY <1>2, <2>1, <2>2, <2>5 DEF Issued
    <3> QED  BY <3>1
  <2> QED  BY <2>3, <2>4, <2>5
<1>3. ASSUME NEW p \in Connections, CommitAcceptance(p), ~ Refuse(p), NEW i \in Issued'
      PROVE ~(invitations'[i].accepted /\ invitations'[i].revoked)
  <2>1. PICK j : /\ j = request[p].invitation /\ Acceptable(j)
                 /\ invitations' = [invitations EXCEPT ![j].accepted = TRUE]
    BY <1>3 DEF CommitAcceptance, Consumes
  <2>2. j \in Issued /\ invitations[j] \in Invitation /\ ~invitations[j].revoked
    BY <2>1 DEF Acceptable, Open, Issued, TypeOK
  <2>3. CASE i = j
    BY <2>1, <2>2, <2>3 DEF Invitation, TypeOK, Issued
  <2>4. CASE i # j
    BY <1>3, <2>1, <2>4 DEF TypeOK, Issued
  <2> QED  BY <2>3, <2>4
<1>4. ASSUME NEW j \in Invitations, Expire(j), NEW i \in Issued'
      PROVE ~(invitations'[i].accepted /\ invitations'[i].revoked)
  <2>1. /\ j \in Issued /\ invitations[j] \in Invitation /\ ~invitations[j].revoked
        /\ invitations' = [invitations EXCEPT ![j].expired = TRUE]
    BY <1>4 DEF Expire, Open, Issued, TypeOK
  <2>2. CASE i = j
    BY <2>1, <2>2 DEF Invitation, TypeOK, Issued
  <2>3. CASE i # j
    BY <1>4, <2>1, <2>3 DEF TypeOK, Issued
  <2> QED  BY <2>2, <2>3
<1> QED  BY <1>1, <1>2, <1>3, <1>4, InvitationSteps

-----------------------------------------------------------------------------
\* The inductive invariant holds: types, one holder of the advisory lock, a
\* command past its check leaves another owner, and what follows from them.
THEOREM Invariance == Spec => []IInv
<1>1. Init => IInv
  BY InitInv
<1>2. IInv /\ [Next]_vars => IInv'
  BY Typed, LockExclusive, OtherOwnerKept, OwnerKept, SpentKept DEF IInv
<1> QED  BY <1>1, <1>2, PTL DEF Spec

\* Rows and requests always have their types.
THEOREM TypesHold == Spec => []TypeOK
BY Invariance, PTL DEF IInv

\* Overlapping team commands always leave an active owner; only an acceptance
\* that rewrites an active owner's role can end that.
THEOREM OwnerRemains == Spec => []OwnerUnlessOverwritten
BY Invariance, PTL DEF IInv

\* No interleaving of acceptances, invitations and resends both accepts and
\* revokes an invitation.
THEOREM InvitationSettledOnce == Spec => []AcceptedOrRevoked
BY Invariance, PTL DEF IInv

\* Memberships change only by team commands under the tenant's lock, by
\* spending a valid invitation, or by the operator's command.
THEOREM Granted == Spec => MembershipsAreGranted
<1>1. ASSUME TypeOK, [Next]_vars, NEW u \in Users, members'[u] # members[u]
      PROVE \/ \E p \in Connections : HoldsTeam(p) /\ request[p].user = u
            \/ \E i \in Invitations :
                 /\ Acceptable(i) /\ invitations'[i].accepted
                 /\ invitations[i].user = u /\ members'[u].role = invitations[i].role
            \/ members'[u] = [role |-> OWNER, status |-> "ACTIVE"] /\ UNCHANGED invitations
  <2>1. ASSUME NEW p \in Connections, CommitTeamCommand(p)
        PROVE HoldsTeam(p) /\ request[p].user = u
    <3>1. HoldsTeam(p)
      BY <2>1 DEF CommitTeamCommand, HoldsTeam
    <3> QED  BY <1>1, <2>1, <3>1, CommitStep, Updating DEF TypeOK
  <2>2. ASSUME NEW p \in Connections, CommitAcceptance(p)
        PROVE \E i \in Invitations :
                 /\ Acceptable(i) /\ invitations'[i].accepted
                 /\ invitations[i].user = u /\ members'[u].role = invitations[i].role
    <3>1. ~ Refuse(p)
      BY <1>1 DEF Refuse, rows
    <3>2. PICK v, i : /\ v = request[p].user /\ i = request[p].invitation /\ Acceptable(i)
                      /\ members' = [members EXCEPT ![v] = [role |-> invitations[i].role, status |-> "ACTIVE"]]
                      /\ invitations' = [invitations EXCEPT ![i].accepted = TRUE]
      BY <2>2, <3>1 DEF CommitAcceptance, Consumes
    <3>3. i \in Invitations /\ invitations[i] \in Invitation /\ invitations[i].user = v
      BY <1>1, <2>2, <3>2 DEF CommitAcceptance, TypeOK, AtStep, Acceptable, Open, Issued
    <3>4. u = v
      BY <1>1, <3>2 DEF TypeOK
    <3>5. invitations'[i].accepted
      BY <1>1, <3>2, <3>3 DEF TypeOK, Invitation
    <3>6. members'[u].role = invitations[i].role
      BY <1>1, <3>2, <3>4 DEF TypeOK
    <3> QED  BY <3>2, <3>3, <3>4, <3>5, <3>6
  <2>3. ASSUME NEW v \in NewOwners, CreateOwner(v)
        PROVE members'[u] = [role |-> OWNER, status |-> "ACTIVE"] /\ UNCHANGED invitations
    BY <1>1, <2>3 DEF CreateOwner, TypeOK
  <2> QED  BY <1>1, <2>1, <2>2, <2>3, MemberSteps
<1>2. TypeOK /\ [Next]_vars =>
        [\A u \in Users : members'[u] # members[u] =>
         \/ \E p \in Connections : HoldsTeam(p) /\ request[p].user = u
         \/ \E i \in Invitations :
              /\ Acceptable(i) /\ invitations'[i].accepted
              /\ invitations[i].user = u /\ members'[u].role = invitations[i].role
         \/ members'[u] = [role |-> OWNER, status |-> "ACTIVE"] /\ UNCHANGED invitations]_vars
  BY <1>1
<1> QED  BY <1>2, TypesHold, PTL DEF Spec, MembershipsAreGranted

\* The safety property the run checks: types, owners and invitations together.
THEOREM TeamStaysSafe == Spec => []TeamSafe
BY TypesHold, OwnerRemains, InvitationSettledOnce, PTL DEF TeamSafe

-----------------------------------------------------------------------------
LEMMA AtMostOne ==
    ASSUME NEW S, \A x, y \in S : x = y
    PROVE  Cardinality(S) <= 1
<1>1. CASE S = {}
  BY <1>1, FS_EmptySet
<1>2. CASE S # {}
  <2>1. PICK x \in S : TRUE
    BY <1>2
  <2>2. S = {x}
    BY <2>1
  <2> QED  BY <2>2, FS_Singleton
<1> QED  BY <1>1, <1>2

-----------------------------------------------------------------------------
(* The cash desk, for any cashiers, details and bounds.                     *)

DeskRow == [page : Pages, opening : Nat, open : BOOLEAN, fields : Details \cup {NoDetails},
            entry : 0 .. MaxEntries, told : SUBSET (1 .. MaxEntries)]

PostRow == [page : Pages, key : Cashiers \X Nat, details : Details, entry : Cashiers \X Nat]

\* What the dialog of k holds, and which rows carry k's name.
DeskOf(k) ==
    /\ desk[k].page \in Pages
    /\ desk[k].opening \in Nat /\ desk[k].opening >= 1 /\ desk[k].entry \in 0 .. MaxEntries
    /\ desk[k].fields \in Details \cup {NoDetails}
    /\ desk[k].open => desk[k].fields \in Details /\ desk[k].entry >= 1

\* A row of the entry in the open dialog was sent from its page with the dialog's key.
RowsOfOpen ==
    \A k \in Cashiers : desk[k].open =>
        \A i \in DOMAIN posts : posts[i].entry = EntryOf(k) => posts[i].key = IdempotencyKey(k) /\ posts[i].page = desk[k].page

CashDeskInv ==
    /\ posts \in Seq(PostRow)
    /\ desk \in [Cashiers -> DeskRow]
    /\ \A k \in Cashiers : DeskOf(k)
    /\ \A i \in DOMAIN posts :
        \E k \in Cashiers :
            /\ \E o \in 1 .. desk[k].opening : posts[i].key = <<k, o>>
            /\ \E n \in 1 .. desk[k].entry : posts[i].entry = <<k, n>>
    /\ RowsOfOpen
    /\ SavedOnce

LEMMA CashDeskBegins == CashDeskInit => CashDeskInv
<1> SUFFICES ASSUME CashDeskInit  PROVE CashDeskInv
  OBVIOUS
<1>1. posts = << >> /\ posts \in Seq(PostRow) /\ DOMAIN posts = {}
  BY DEF CashDeskInit
<1>2. desk \in [Cashiers -> [page : Pages, opening : {1}, open : {FALSE}, fields : {NoDetails}, entry : {0}, told : {{}}]]
  BY DEF CashDeskInit
<1>3. ASSUME NEW k \in Cashiers
      PROVE  /\ desk[k] \in DeskRow
             /\ desk[k].page \in Pages /\ desk[k].opening = 1 /\ ~desk[k].open
             /\ desk[k].fields = NoDetails /\ desk[k].entry = 0
  <2>1. PICK page \in Pages :
          desk[k] = [page |-> page, opening |-> 1, open |-> FALSE, fields |-> NoDetails, entry |-> 0, told |-> {}]
    BY <1>2
  <2>2. [page |-> page, opening |-> 1, open |-> FALSE, fields |-> NoDetails, entry |-> 0, told |-> {}] \in DeskRow
    BY CashDeskAssumption DEF DeskRow
  <2> QED  BY <2>1, <2>2
<1>4. desk \in [Cashiers -> DeskRow]
  BY <1>2, <1>3
<1>5. \A k \in Cashiers : DeskOf(k)
  BY <1>3, CashDeskAssumption DEF DeskOf
<1> QED  BY <1>1, <1>3, <1>4, <1>5 DEF CashDeskInv, RowsOfOpen, SavedOnce

\* An open dialog is of a new entry, or of the one it was of.
MayChange(k, row) ==
    /\ row.opening >= desk[k].opening /\ row.entry >= desk[k].entry
    /\ row.open => row.fields \in Details /\ row.entry >= 1
    /\ row.open => \/ row.entry > desk[k].entry
                   \/ /\ desk[k].open /\ row.entry = desk[k].entry
                      /\ row.opening = desk[k].opening /\ row.page = desk[k].page

\* The dialog of one cashier changes, and no row.
LEMMA DeskChanges ==
    ASSUME CashDeskInv, NEW k \in Cashiers, UNCHANGED posts,
           NEW row \in DeskRow, desk' = [desk EXCEPT ![k] = row],
           MayChange(k, row)
    PROVE  CashDeskInv'
<1>1. desk' \in [Cashiers -> DeskRow] /\ desk'[k] = row /\ \A c \in Cashiers \ {k} : desk'[c] = desk[c]
  BY DEF CashDeskInv
<1>2. /\ row.page \in Pages /\ row.opening \in Nat /\ row.entry \in 0 .. MaxEntries /\ row.fields \in Details \cup {NoDetails}
      /\ desk[k].opening \in Nat /\ desk[k].opening >= 1 /\ desk[k].entry \in 0 .. MaxEntries
  BY DEF CashDeskInv, DeskRow, DeskOf, MayChange
<1>3. \A c \in Cashiers : DeskOf(c)'
  <2>1. TAKE c \in Cashiers
  <2>2. CASE c = k
    BY <1>1, <1>2, <2>2 DEF DeskOf, MayChange
  <2>3. CASE c # k
    BY <1>1, <2>3 DEF DeskOf, CashDeskInv
  <2> QED  BY <2>2, <2>3
<1>4. \A c \in Cashiers : /\ desk[c].opening \in Nat /\ desk'[c].opening \in Nat /\ desk[c].opening <= desk'[c].opening
                          /\ desk[c].entry \in Nat /\ desk'[c].entry \in Nat /\ desk[c].entry <= desk'[c].entry
  BY <1>1, <1>2, CashDeskAssumption DEF CashDeskInv, DeskOf, MayChange
<1>5. ASSUME NEW i \in DOMAIN posts
      PROVE  \E c \in Cashiers :
               /\ \E o \in 1 .. desk'[c].opening : posts[i].key = <<c, o>>
               /\ \E n \in 1 .. desk'[c].entry : posts[i].entry = <<c, n>>
  <2>1. PICK c \in Cashiers : /\ \E o \in 1 .. desk[c].opening : posts[i].key = <<c, o>>
                              /\ \E n \in 1 .. desk[c].entry : posts[i].entry = <<c, n>>
    BY DEF CashDeskInv
  <2> QED  BY <1>4, <2>1
<1>6. ASSUME NEW c \in Cashiers, desk'[c].open, NEW i \in DOMAIN posts, posts[i].entry = <<c, desk'[c].entry>>
      PROVE  posts[i].key = <<c, desk'[c].opening>> /\ posts[i].page = desk'[c].page
  <2>1. CASE c # k \/ (desk[k].open /\ row.entry = desk[k].entry /\ row.opening = desk[k].opening /\ row.page = desk[k].page)
    <3>1. /\ desk[c].open /\ desk'[c].entry = desk[c].entry
          /\ desk'[c].opening = desk[c].opening /\ desk'[c].page = desk[c].page
      BY <1>1, <1>6, <2>1
    <3> QED  BY <1>6, <3>1 DEF CashDeskInv, RowsOfOpen, EntryOf, IdempotencyKey
  <2>2. CASE c = k /\ row.entry > desk[k].entry
    <3>1. PICK d \in Cashiers : \E n \in 1 .. desk[d].entry : posts[i].entry = <<d, n>>
      BY DEF CashDeskInv
    <3> QED  BY <1>1, <1>2, <1>6, <2>2, <3>1, CashDeskAssumption
  <2> QED  BY <1>1, <1>6, <2>1, <2>2 DEF MayChange
<1>7. RowsOfOpen'
  BY <1>6 DEF RowsOfOpen, EntryOf, IdempotencyKey
<1> QED  BY <1>1, <1>3, <1>5, <1>7 DEF CashDeskInv, SavedOnce

LEMMA EnterKeeps ==
    ASSUME CashDeskInv, NEW k \in Cashiers, NEW d \in Details,
           Enter(k, d) \/ Amend(k, d)
    PROVE  CashDeskInv'
<1>0. PICK old \in DeskRow : old = desk[k]
  BY DEF CashDeskInv
<1>1. /\ old.opening \in Nat /\ old.entry \in Nat
      /\ old.open => old.fields \in Details /\ old.entry >= 1
  BY <1>0, CashDeskAssumption DEF CashDeskInv, DeskOf
<1>2. CASE Enter(k, d)
  <2>1. /\ ~old.open /\ old.entry < MaxEntries /\ UNCHANGED posts
        /\ desk' = [desk EXCEPT ![k] = [old EXCEPT !.open = TRUE, !.fields = d, !.entry = old.entry + 1]]
    BY <1>0, <1>2 DEF Enter, CashDeskInv
  <2>2. old.entry + 1 \in 0 .. MaxEntries
    BY <1>1, <2>1, CashDeskAssumption
  <2>3. PICK row \in DeskRow : row = [old EXCEPT !.open = TRUE, !.fields = d, !.entry = old.entry + 1]
    BY <2>2, Zenon DEF DeskRow
  <2>4. row.page = old.page /\ row.opening = old.opening /\ row.entry = old.entry + 1 /\ row.fields = d
    BY <2>3 DEF DeskRow
  <2>5. row.opening >= old.opening /\ row.entry >= old.entry /\ row.entry > old.entry /\ row.entry >= 1
    BY <1>1, <2>4
  <2>6. MayChange(k, row)
    BY <1>0, <2>4, <2>5, Zenon DEF MayChange
  <2> QED  BY <1>0, <2>1, <2>3, <2>6, DeskChanges
<1>3. CASE Amend(k, d)
  <2>1. /\ old.open /\ UNCHANGED posts
        /\ desk' = [desk EXCEPT ![k] = [old EXCEPT !.fields = d]]
    BY <1>0, <1>3 DEF Amend, CashDeskInv
  <2>2. PICK row \in DeskRow : row = [old EXCEPT !.fields = d]
    BY Zenon DEF DeskRow
  <2>3. row.page = old.page /\ row.opening = old.opening /\ row.entry = old.entry /\ row.fields = d
    BY <2>2 DEF DeskRow
  <2>4. old.fields \in Details /\ old.entry >= 1 /\ old.opening >= old.opening /\ old.entry >= old.entry
    BY <1>1, <2>1
  <2>5. MayChange(k, row)
    BY <1>0, <2>1, <2>3, <2>4, Zenon DEF MayChange
  <2> QED  BY <1>0, <2>1, <2>2, <2>5, DeskChanges
<1> QED  BY <1>2, <1>3

LEMMA CloseKeeps ==
    ASSUME CashDeskInv, NEW k \in Cashiers, GiveUpEntry(k) \/ \E page \in Pages : Reopen(k, page)
    PROVE  CashDeskInv'
<1>1. PICK old \in DeskRow : old = desk[k]
  BY DEF CashDeskInv
<1>2. old.page \in Pages /\ old.opening \in Nat /\ old.entry \in Nat /\ old.fields \in Details \cup {NoDetails}
  BY <1>1, CashDeskAssumption DEF CashDeskInv, DeskOf
<1>3. UNCHANGED posts /\ \E p \in Pages, n \in Nat, f \in Details \cup {NoDetails} :
        /\ n >= old.opening
        /\ desk' = [desk EXCEPT ![k] = [old EXCEPT !.page = p, !.opening = n, !.open = FALSE, !.fields = f]]
  <2>1. CASE GiveUpEntry(k)
    <3>1. [old EXCEPT !.open = FALSE] = [old EXCEPT !.page = old.page, !.opening = old.opening, !.open = FALSE, !.fields = old.fields]
      BY DEF DeskRow
    <3>2. desk' = [desk EXCEPT ![k] = [old EXCEPT !.open = FALSE]] /\ UNCHANGED posts
      BY <1>1, <2>1 DEF GiveUpEntry, CashDeskInv
    <3>3. old.opening >= old.opening
      BY <1>2
    <3> QED  BY <1>2, <3>1, <3>2, <3>3, Zenon
  <2>2. ASSUME NEW page \in Pages, Reopen(k, page)
        PROVE  \E p \in Pages, n \in Nat, f \in Details \cup {NoDetails} :
                 /\ n >= old.opening
                 /\ desk' = [desk EXCEPT ![k] = [old EXCEPT !.page = p, !.opening = n, !.open = FALSE, !.fields = f]]
    <3>1. desk' = [desk EXCEPT ![k] = [old EXCEPT !.page = page, !.opening = old.opening + 1, !.open = FALSE, !.fields = NoDetails]]
          /\ UNCHANGED posts
      BY <1>1, <2>2 DEF Reopen, CashDeskInv
    <3>2. old.opening + 1 \in Nat /\ old.opening + 1 >= old.opening
      BY <1>2
    <3> QED  BY <3>1, <3>2, Zenon
  <2>3. UNCHANGED posts
    BY DEF GiveUpEntry, Reopen
  <2> QED  BY <2>1, <2>2, <2>3
<1>4. PICK p \in Pages, n \in Nat, f \in Details \cup {NoDetails} :
        /\ n >= old.opening
        /\ desk' = [desk EXCEPT ![k] = [old EXCEPT !.page = p, !.opening = n, !.open = FALSE, !.fields = f]]
  BY <1>3
<1>5. PICK row \in DeskRow : row = [old EXCEPT !.page = p, !.opening = n, !.open = FALSE, !.fields = f]
  BY Zenon DEF DeskRow
<1>6. row.opening = n /\ row.entry = old.entry /\ old.entry >= old.entry
  BY <1>2, <1>5 DEF DeskRow
<1>7. ~row.open
  BY <1>5, Zenon DEF DeskRow
<1>8. MayChange(k, row)
  BY <1>1, <1>4, <1>6, <1>7, Zenon DEF MayChange
<1> QED  BY <1>1, <1>3, <1>4, <1>5, <1>8, DeskChanges

\* What a click on Save records, whatever becomes of its answer.
LEMMA RecordKeeps ==
    ASSUME CashDeskInv, NEW k \in Cashiers, desk[k].open, RecordPost(k, desk[k].fields),
           desk' \in [Cashiers -> DeskRow],
           \A c \in Cashiers :
             /\ desk'[c].page = desk[c].page /\ desk'[c].opening = desk[c].opening /\ desk'[c].entry = desk[c].entry
             /\ desk'[c].fields = desk[c].fields
             /\ desk'[c].open => desk[c].open
    PROVE  CashDeskInv'
<1> DEFINE post == [page |-> desk[k].page, key |-> IdempotencyKey(k), details |-> desk[k].fields, entry |-> EntryOf(k)]
<1>1. CASE UNCHANGED posts
  <2>1. \A c \in Cashiers : DeskOf(c)'
    BY DEF DeskOf, CashDeskInv
  <2>2. ASSUME NEW i \in DOMAIN posts
        PROVE  \E c \in Cashiers :
                 /\ \E o \in 1 .. desk'[c].opening : posts[i].key = <<c, o>>
                 /\ \E n \in 1 .. desk'[c].entry : posts[i].entry = <<c, n>>
    <3>1. PICK c \in Cashiers : /\ \E o \in 1 .. desk[c].opening : posts[i].key = <<c, o>>
                                /\ \E n \in 1 .. desk[c].entry : posts[i].entry = <<c, n>>
      BY DEF CashDeskInv
    <3> QED  BY <3>1
  <2>3. RowsOfOpen'
    <3>1. SUFFICES ASSUME NEW c \in Cashiers, desk'[c].open, NEW i \in DOMAIN posts, posts[i].entry = <<c, desk'[c].entry>>
                   PROVE  posts[i].key = <<c, desk'[c].opening>> /\ posts[i].page = desk'[c].page
      BY <1>1 DEF RowsOfOpen, EntryOf, IdempotencyKey
    <3>2. desk[c].open /\ posts[i].entry = EntryOf(c)
      BY <3>1 DEF EntryOf
    <3>3. posts[i].key = IdempotencyKey(c) /\ posts[i].page = desk[c].page
      BY <3>2 DEF CashDeskInv, RowsOfOpen
    <3> QED  BY <3>3 DEF IdempotencyKey
  <2> QED  BY <1>1, <2>1, <2>2, <2>3 DEF CashDeskInv, SavedOnce
<1>2. CASE Earlier(k, desk[k].fields) = {} /\ posts' = Append(posts, post)
  <2>1. /\ desk[k].page \in Pages /\ desk[k].opening \in Nat /\ desk[k].opening >= 1 /\ desk[k].entry \in Nat /\ desk[k].entry >= 1
        /\ desk[k].fields \in Details
    BY CashDeskAssumption DEF CashDeskInv, DeskOf
  <2>2. /\ post \in PostRow /\ post.entry = EntryOf(k) /\ post.key = IdempotencyKey(k)
        /\ post.page = desk[k].page /\ post.details = desk[k].fields
    BY <2>1 DEF PostRow, EntryOf, IdempotencyKey
  <2> HIDE DEF post
  <2>3. posts \in Seq(PostRow)
    BY DEF CashDeskInv
  <2>4. /\ posts' \in Seq(PostRow) /\ DOMAIN posts' = DOMAIN posts \cup {Len(posts) + 1}
        /\ posts'[Len(posts) + 1] = post /\ \A i \in DOMAIN posts : posts'[i] = posts[i]
        /\ Len(posts) + 1 \notin DOMAIN posts
    BY <1>2, <2>2, <2>3
  <2> DEFINE last == Len(posts) + 1
  <2> HIDE DEF last
  <2>5. /\ DOMAIN posts' = DOMAIN posts \cup {last} /\ posts'[last] = post
    BY <2>4 DEF last
  <2>6. \A i \in DOMAIN posts : posts[i].entry = EntryOf(k) =>
          posts[i].page = "refunds" /\ desk[k].page = "refunds" /\ posts[i].details.target # desk[k].fields.target
    BY <1>2 DEF CashDeskInv, RowsOfOpen, Earlier
  <2>7. \A i \in DOMAIN posts' :
          \E c \in Cashiers :
            /\ \E o \in 1 .. desk'[c].opening : posts'[i].key = <<c, o>>
            /\ \E n \in 1 .. desk'[c].entry : posts'[i].entry = <<c, n>>
    <3>1. /\ \E o \in 1 .. desk[k].opening : post.key = <<k, o>>
          /\ \E n \in 1 .. desk[k].entry : post.entry = <<k, n>>
      BY <2>1, <2>2 DEF EntryOf, IdempotencyKey
    <3>2. TAKE i \in DOMAIN posts'
    <3>3. CASE i = last
      BY <2>5, <3>1, <3>3
    <3>4. CASE i \in DOMAIN posts
      <4>1. PICK c \in Cashiers : /\ \E o \in 1 .. desk[c].opening : posts[i].key = <<c, o>>
                                  /\ \E n \in 1 .. desk[c].entry : posts[i].entry = <<c, n>>
        BY <3>4 DEF CashDeskInv
      <4> QED  BY <2>4, <3>4, <4>1
    <3> QED  BY <2>5, <3>3, <3>4
  <2>8. ASSUME NEW c \in Cashiers, desk'[c].open, NEW i \in DOMAIN posts', posts'[i].entry = EntryOf(c)
        PROVE  posts'[i].key = IdempotencyKey(c) /\ posts'[i].page = desk[c].page
    <3>1. CASE i = last
      <4>1. c = k
        BY <2>2, <2>5, <2>8, <3>1 DEF EntryOf
      <4> QED  BY <2>2, <2>5, <3>1, <4>1
    <3>2. CASE i \in DOMAIN posts
      BY <2>4, <2>8, <3>2 DEF CashDeskInv, RowsOfOpen
    <3> QED  BY <2>5, <3>1, <3>2
  <2>9. SavedOnce'
    <3>1. SUFFICES ASSUME NEW i \in DOMAIN posts', NEW j \in DOMAIN posts', posts'[i].entry = posts'[j].entry
                   PROVE  \/ i = j
                          \/ /\ posts'[i].page = "refunds" /\ posts'[j].page = "refunds"
                             /\ posts'[i].details.target # posts'[j].details.target
      BY DEF SavedOnce
    <3>2. CASE i \in DOMAIN posts /\ j \in DOMAIN posts
      BY <2>4, <3>1, <3>2 DEF CashDeskInv, SavedOnce
    <3>3. CASE i = last \/ j = last
      BY <2>2, <2>4, <2>5, <2>6, <3>1, <3>3
    <3> QED  BY <2>5, <3>2, <3>3
  <2>10. RowsOfOpen'
    BY <2>8 DEF RowsOfOpen, EntryOf, IdempotencyKey
  <2>11. \A c \in Cashiers : DeskOf(c)'
    BY DEF DeskOf, CashDeskInv
  <2> QED  BY <2>4, <2>7, <2>9, <2>10, <2>11 DEF CashDeskInv
<1> QED  BY <1>1, <1>2 DEF RecordPost

LEMMA SaveKeeps ==
    ASSUME CashDeskInv, NEW k \in Cashiers, Save(k)
    PROVE  /\ CashDeskInv'
           /\ \A c \in Cashiers : desk'[c].told # desk[c].told =>
                \E i \in DOMAIN posts' : posts'[i].details = desk[c].fields /\ posts'[i].page = desk[c].page /\ posts'[i].key[1] = c
<1>1. desk[k].open /\ RecordPost(k, desk[k].fields)
  BY DEF Save
<1>2. PICK old \in DeskRow : old = desk[k]
  BY DEF CashDeskInv
<1>3. /\ desk' \in [Cashiers -> DeskRow]
      /\ \A c \in Cashiers :
           /\ desk'[c].page = desk[c].page /\ desk'[c].opening = desk[c].opening /\ desk'[c].entry = desk[c].entry
           /\ desk'[c].fields = desk[c].fields
           /\ desk'[c].open => desk[c].open
           /\ desk'[c].told # desk[c].told => c = k
  <2>1. CASE UNCHANGED desk
    BY <2>1 DEF CashDeskInv
  <2>2. CASE desk' = [desk EXCEPT ![k].open = FALSE, ![k].told = @ \cup {desk[k].entry}]
    <3>1. desk' = [desk EXCEPT ![k] = [old EXCEPT !.open = FALSE, !.told = old.told \cup {old.entry}]]
      BY <1>2, <2>2 DEF CashDeskInv
    <3>2. old.told \cup {old.entry} \in SUBSET (1 .. MaxEntries)
      BY <1>1, <1>2, CashDeskAssumption DEF CashDeskInv, DeskOf, DeskRow
    <3>3. PICK row \in DeskRow : row = [old EXCEPT !.open = FALSE, !.told = old.told \cup {old.entry}]
      BY <3>2, Zenon DEF DeskRow
    <3>4. row.page = old.page /\ row.opening = old.opening /\ row.entry = old.entry /\ row.fields = old.fields
      BY <3>3 DEF DeskRow
    <3>5. ~row.open
      BY <3>3, Zenon DEF DeskRow
    <3>6. desk'[k] = row /\ \A c \in Cashiers \ {k} : desk'[c] = desk[c]
      BY <3>1, <3>3 DEF CashDeskInv
    <3>7. desk' \in [Cashiers -> DeskRow]
      BY <3>1, <3>3 DEF CashDeskInv
    <3> QED  BY <1>2, <3>4, <3>5, <3>6, <3>7, Zenon
  <2> QED  BY <2>1, <2>2 DEF Save
<1>4. CashDeskInv'
  BY <1>1, <1>3, RecordKeeps
<1>5. \E i \in DOMAIN posts' : posts'[i].details = desk[k].fields /\ posts'[i].page = desk[k].page /\ posts'[i].key[1] = k
  <2> DEFINE post == [page |-> desk[k].page, key |-> IdempotencyKey(k), details |-> desk[k].fields, entry |-> EntryOf(k)]
  <2>1. CASE Earlier(k, desk[k].fields) = {} /\ posts' = Append(posts, post)
    <3>1. post.details = desk[k].fields /\ post.page = desk[k].page /\ post.key[1] = k
      BY DEF IdempotencyKey
    <3>2. post \in PostRow /\ posts \in Seq(PostRow)
      BY <1>1, CashDeskAssumption DEF CashDeskInv, DeskOf, PostRow, IdempotencyKey, EntryOf
    <3> HIDE DEF post
    <3>3. posts'[Len(posts) + 1] = post /\ Len(posts) + 1 \in DOMAIN posts'
      BY <2>1, <3>2
    <3> QED  BY <3>1, <3>3
  <2>2. CASE (\E i \in Earlier(k, desk[k].fields) : SameDetails(i, desk[k].fields)) /\ UNCHANGED posts
    BY <2>2 DEF Earlier, SameDetails, IdempotencyKey
  <2> QED  BY <1>1, <2>1, <2>2 DEF RecordPost
<1> QED  BY <1>3, <1>4, <1>5

\* However often a payment is saved while its dialog is open, it is recorded
\* once, a refund once for each payment it was sent for; and what the page says
\* is recorded is in the ledger.
THEOREM CashDeskStaysSafe == CashDeskSpec => CashDeskSafe
<1>1. CashDeskInv => CashDeskTypeOK /\ SavedOnce
  BY DEF CashDeskInv, CashDeskTypeOK, DeskRow
<1>2. CashDeskInv /\ [CashDeskNext]_cashDeskVars =>
        /\ CashDeskInv'
        /\ [\A k \in Cashiers : desk'[k].told # desk[k].told =>
              \E i \in DOMAIN posts' : /\ posts'[i].details = desk[k].fields /\ posts'[i].page = desk[k].page
                                       /\ posts'[i].key[1] = k]_cashDeskVars
  <2> SUFFICES ASSUME CashDeskInv, [CashDeskNext]_cashDeskVars
               PROVE  /\ CashDeskInv'
                      /\ \A k \in Cashiers : desk'[k].told # desk[k].told =>
                           \E i \in DOMAIN posts' : posts'[i].details = desk[k].fields /\ posts'[i].page = desk[k].page /\ posts'[i].key[1] = k
    OBVIOUS
  <2>1. CASE UNCHANGED cashDeskVars
    <3>1. \A k \in Cashiers : DeskOf(k)'
      BY <2>1 DEF cashDeskVars, CashDeskInv, DeskOf
    <3>2. RowsOfOpen' /\ SavedOnce'
      BY <2>1 DEF cashDeskVars, CashDeskInv, RowsOfOpen, SavedOnce, EntryOf, IdempotencyKey
    <3> QED  BY <2>1, <3>1, <3>2 DEF cashDeskVars, CashDeskInv
  <2>2. ASSUME NEW k \in Cashiers, NEW d \in Details, Enter(k, d) \/ Amend(k, d)
        PROVE  CashDeskInv' /\ \A c \in Cashiers : desk'[c].told = desk[c].told
    <3>1. CashDeskInv'
      BY <2>2, EnterKeeps
    <3>2. \A c \in Cashiers : desk'[c].told = desk[c].told
      <4>1. \A c \in Cashiers \ {k} : desk'[c] = desk[c]
        BY <2>2 DEF Enter, Amend, CashDeskInv
      <4>2. PICK old \in DeskRow : old = desk[k]
        BY DEF CashDeskInv
      <4>3. desk'[k].told = old.told
        BY <2>2, <4>2 DEF Enter, Amend, CashDeskInv, DeskRow
      <4> QED  BY <4>1, <4>2, <4>3
    <3> QED  BY <3>1, <3>2
  <2>3. ASSUME NEW k \in Cashiers, GiveUpEntry(k) \/ \E page \in Pages : Reopen(k, page)
        PROVE  CashDeskInv' /\ \A c \in Cashiers : desk'[c].told = desk[c].told
    <3>1. CashDeskInv'
      BY <2>3, CloseKeeps
    <3>2. \A c \in Cashiers : desk'[c].told = desk[c].told
      <4>1. \A c \in Cashiers \ {k} : desk'[c] = desk[c]
        BY <2>3 DEF GiveUpEntry, Reopen, CashDeskInv
      <4>2. PICK old \in DeskRow : old = desk[k]
        BY DEF CashDeskInv
      <4>3. ASSUME GiveUpEntry(k)  PROVE desk'[k].told = old.told
        BY <4>2, <4>3 DEF GiveUpEntry, CashDeskInv, DeskRow
      <4>4. ASSUME NEW page \in Pages, Reopen(k, page)  PROVE desk'[k].told = old.told
        <5>1. desk'[k] = [old EXCEPT !.page = page, !.opening = old.opening + 1, !.open = FALSE, !.fields = NoDetails]
          BY <4>2, <4>4 DEF Reopen, CashDeskInv
        <5> QED  BY <5>1 DEF DeskRow
      <4>5. desk'[k].told = old.told
        BY <2>3, <4>3, <4>4
      <4> QED  BY <4>1, <4>2, <4>5
    <3> QED  BY <3>1, <3>2
  <2> QED  BY <2>1, <2>2, <2>3, SaveKeeps DEF CashDeskNext
<1> QED  BY <1>1, <1>2, CashDeskBegins, PTL DEF CashDeskSpec, CashDeskSafe, ToldIsInLedger

-----------------------------------------------------------------------------
(* Three pages on one record, for any browsers and corrections.             *)

EnrollmentEntry == [page : {"enrollment"}, status : DOMAIN ActionsByStatus, seats : SUBSET ClassChoices]

BatchEntry ==
    [page : {"import"}, status : {"UPLOADED", "VALIDATED", "COMPLETED", "FAILED", "CANCELLED"},
     mapping : MappingChoices, checked : MappingChoices \cup {"no"}, invalid : BOOLEAN]

RegisterEntry ==
    [page : {"register"}, status : {"SCHEDULED", "COMPLETED", "CANCELLED"}, sheet : {"OPEN", "LOCKED"},
     mark : Marks \cup {"UNMARKED"}]

\* A class the student was enrolled in again is taken.
EnrollmentWork ==
    /\ entry \in EnrollmentEntry
    /\ history \in Seq({"reenrolled"} \X ClassChoices)
    /\ \A i, j \in DOMAIN history : history[i] = history[j] => i = j
    /\ \A i \in DOMAIN history : history[i][2] \in entry.seats

\* A preview is of the mapping there is; and what was written completed the batch.
ImportWork ==
    /\ entry \in BatchEntry
    /\ entry.status = "VALIDATED" => entry.checked = entry.mapping
    /\ history \in Seq({"written"} \X MappingChoices)
    /\ \A i, j \in DOMAIN history : i = j
    /\ \A i \in DOMAIN history : entry.status = "COMPLETED" /\ entry.checked = history[i][2] /\ ~entry.invalid

RegisterWork ==
    /\ entry \in RegisterEntry
    /\ entry.sheet = "LOCKED" => entry.mark \in Marks /\ entry.status = "COMPLETED"
    /\ history \in Seq((Marks \cup {"UNMARKED"}) \X Marks)

WorkbenchInv ==
    /\ copy = [b \in Browsers |-> copy[b]]
    /\ \A b \in Browsers : copy[b] # Blank => copy[b].page = entry.page
    /\ EnrollmentWork \/ ImportWork \/ RegisterWork

LEMMA WorkbenchBegins == WorkbenchInit => WorkbenchInv
<1> SUFFICES ASSUME WorkbenchInit  PROVE WorkbenchInv
  OBVIOUS
<1>1. copy = [b \in Browsers |-> Blank] /\ history = << >> /\ DOMAIN history = {}
  BY DEF WorkbenchInit
<1>2. CASE entry = NewEnrollment
  BY <1>1, <1>2 DEF NewEnrollment, EnrollmentWork, EnrollmentEntry, ActionsByStatus, WorkbenchInv
<1>3. CASE entry = NewBatch
  <2>1. entry \in BatchEntry /\ entry.status = "UPLOADED"
    BY <1>3 DEF NewBatch, BatchEntry, MappingChoices
  <2> QED  BY <1>1, <2>1 DEF ImportWork, WorkbenchInv
<1>4. CASE entry = NewRegister
  BY <1>1, <1>4 DEF NewRegister, RegisterWork, RegisterEntry, Marks, WorkbenchInv
<1> QED  BY <1>2, <1>3, <1>4 DEF WorkbenchInit

\* What is logged is added at the end.
LEMMA Logged ==
    ASSUME NEW V, history \in Seq(V), NEW v \in V, Log(v)
    PROVE  /\ history' \in Seq(V) /\ history' # history
           /\ history'[Len(history')] = v
           /\ \E n : n \notin DOMAIN history /\ DOMAIN history' = DOMAIN history \cup {n} /\ history'[n] = v
           /\ \A i \in DOMAIN history : history'[i] = history[i]
<1>1. history' = Append(history, v)
  BY DEF Log
<1>2. /\ history' \in Seq(V) /\ Len(history') = Len(history) + 1
      /\ history'[Len(history) + 1] = v /\ \A i \in DOMAIN history : history'[i] = history[i]
      /\ DOMAIN history' = DOMAIN history \cup {Len(history) + 1} /\ Len(history) + 1 \notin DOMAIN history
  BY <1>1
<1>3. history' # history
  BY <1>2
<1> QED  BY <1>2, <1>3

LEMMA EnrollmentKeeps ==
    ASSUME EnrollmentWork, NEW action, EnrollmentRequest(entry, action)
    PROVE  EnrollmentWork' /\ entry'.page = entry.page
<1>1. entry \in EnrollmentEntry
  BY DEF EnrollmentWork
<1>2. CASE Transition(entry, action)
  <2>1. TargetOf[action] \in DOMAIN ActionsByStatus /\ entry' = [entry EXCEPT !.status = TargetOf[action]] /\ UNCHANGED history
    BY <1>2 DEF Transition, TargetOf, ActionsByStatus
  <2>2. entry' \in EnrollmentEntry /\ entry'.seats = entry.seats /\ entry'.page = entry.page
    BY <1>1, <2>1 DEF EnrollmentEntry
  <2> QED  BY <2>1, <2>2 DEF EnrollmentWork
<1>3. CASE Transfer(entry, action)
  <2>1. entry' = [entry EXCEPT !.status = "WITHDRAWN", !.seats = entry.seats \cup {"other"}] /\ UNCHANGED history
    BY <1>3 DEF Transfer
  <2>2. entry' \in EnrollmentEntry /\ entry'.seats = entry.seats \cup {"other"} /\ entry'.page = entry.page
    BY <1>1, <2>1 DEF EnrollmentEntry, ActionsByStatus, ClassChoices
  <2> QED  BY <2>1, <2>2 DEF EnrollmentWork
<1>4. CASE Reenroll(entry, action)
  <2>1. PICK class \in ClassChoices : /\ class \notin entry.seats
                                      /\ entry' = [entry EXCEPT !.seats = entry.seats \cup {class}]
                                      /\ Log(<<"reenrolled", class>>)
    BY <1>4 DEF Reenroll, ClassFree
  <2>2. entry' \in EnrollmentEntry /\ entry'.seats = entry.seats \cup {class} /\ entry'.page = entry.page
    BY <1>1, <2>1 DEF EnrollmentEntry
  <2> DEFINE v == <<"reenrolled", class>>
             V == {"reenrolled"} \X ClassChoices
  <2>3. v \in V /\ v[2] = class /\ Log(v) /\ history \in Seq(V)
    BY <2>1 DEF EnrollmentWork
  <2> HIDE DEF v, V
  <2>4. /\ history' \in Seq(V)
        /\ \E n : n \notin DOMAIN history /\ DOMAIN history' = DOMAIN history \cup {n} /\ history'[n] = v
        /\ \A i \in DOMAIN history : history'[i] = history[i]
    BY <2>3, Logged
  <2>5. PICK n : n \notin DOMAIN history /\ DOMAIN history' = DOMAIN history \cup {n} /\ history'[n] = v
    BY <2>4
  <2>6. \A i \in DOMAIN history : history[i] # v
    BY <2>1, <2>3 DEF EnrollmentWork
  <2>7. \A i, j \in DOMAIN history' : history'[i] = history'[j] => i = j
    BY <2>4, <2>5, <2>6 DEF EnrollmentWork
  <2>8. \A i \in DOMAIN history' : history'[i][2] \in entry'.seats
    BY <2>2, <2>3, <2>4, <2>5 DEF EnrollmentWork
  <2> QED  BY <2>2, <2>4, <2>7, <2>8 DEF EnrollmentWork, V
<1> QED  BY <1>2, <1>3, <1>4 DEF EnrollmentRequest

LEMMA ImportKeeps ==
    ASSUME ImportWork, NEW action, ImportRequest(entry, action)
    PROVE  ImportWork' /\ entry'.page = entry.page
<1>1. entry \in BatchEntry
  BY DEF ImportWork
<1>2. Editable(entry) => history = << >> /\ DOMAIN history = {}
  <2>1. SUFFICES ASSUME Editable(entry)  PROVE DOMAIN history = {}
    BY DEF ImportWork
  <2> QED  BY <2>1 DEF Editable, ImportWork
<1>3. ASSUME Editable(entry), UNCHANGED history, entry' \in BatchEntry,
             entry'.status = "VALIDATED" => entry'.checked = entry'.mapping
      PROVE  ImportWork'
  BY <1>2, <1>3 DEF ImportWork
<1>4. CASE SaveMapping(entry, action)
  <2>1. PICK m \in MappingChoices : entry' = Remapped(entry, m)
    BY <1>4 DEF SaveMapping
  <2>2. CASE m = entry.mapping
    BY <1>4, <2>1, <2>2 DEF SaveMapping, Remapped, ImportWork
  <2>3. CASE m # entry.mapping
    <3>1. entry' = [entry EXCEPT !.mapping = m, !.status = "UPLOADED", !.checked = "no", !.invalid = FALSE]
      BY <2>1, <2>3 DEF Remapped
    <3>2. PICK e \in BatchEntry : e = [entry EXCEPT !.mapping = m, !.status = "UPLOADED", !.checked = "no", !.invalid = FALSE]
      BY <1>1, Zenon DEF BatchEntry
    <3>3. e.status = "UPLOADED" /\ e.page = entry.page
      BY <1>1, <3>2 DEF BatchEntry
    <3> QED  BY <1>3, <1>4, <3>1, <3>2, <3>3 DEF SaveMapping
  <2> QED  BY <2>2, <2>3
<1>5. CASE ValidateBatch(entry, action)
  <2>1. PICK bad \in BOOLEAN : entry' = [entry EXCEPT !.status = "VALIDATED", !.checked = entry.mapping, !.invalid = bad]
    BY <1>5 DEF ValidateBatch
  <2>2. entry.mapping \in MappingChoices \cup {"no"}
    BY <1>1 DEF BatchEntry
  <2>3. PICK e \in BatchEntry : e = [entry EXCEPT !.status = "VALIDATED", !.checked = entry.mapping, !.invalid = bad]
    BY <1>1, <2>2, Zenon DEF BatchEntry
  <2>4. e.checked = e.mapping /\ e.page = entry.page
    BY <1>1, <2>3 DEF BatchEntry
  <2> QED  BY <1>3, <1>5, <2>1, <2>3, <2>4 DEF ValidateBatch
<1>6. CASE CancelBatch(entry, action)
  <2>1. PICK e \in BatchEntry : e = [entry EXCEPT !.status = "CANCELLED"]
    BY <1>1, Zenon DEF BatchEntry
  <2>2. e.status = "CANCELLED" /\ e.page = entry.page
    BY <1>1, <2>1 DEF BatchEntry
  <2> QED  BY <1>3, <1>6, <2>1, <2>2 DEF CancelBatch
<1>7. CASE ConfirmBatch(entry, action)
  <2>1. CASE UNCHANGED <<entry, history>>
    BY <2>1 DEF ImportWork
  <2>2. CASE entry.status = "VALIDATED" /\ entry' = [entry EXCEPT !.status = "FAILED"] /\ UNCHANGED history
    <3>1. PICK e \in BatchEntry : e = [entry EXCEPT !.status = "FAILED"]
      BY <1>1, Zenon DEF BatchEntry
    <3>2. e.status = "FAILED" /\ e.page = entry.page
      BY <1>1, <3>1 DEF BatchEntry
    <3> QED  BY <1>3, <2>2, <3>1, <3>2 DEF Editable
  <2>3. CASE entry.status = "VALIDATED" /\ ~entry.invalid /\ entry' = [entry EXCEPT !.status = "COMPLETED"] /\ Log(<<"written", entry.mapping>>)
    <3>1. PICK e \in BatchEntry : e = [entry EXCEPT !.status = "COMPLETED"]
      BY <1>1, Zenon DEF BatchEntry
    <3>2. e.status = "COMPLETED" /\ e.page = entry.page /\ e.checked = entry.checked
      BY <1>1, <3>1 DEF BatchEntry
    <3>3. ~e.invalid
      BY <1>1, <2>3, <3>1, Zenon DEF BatchEntry
    <3>4. entry.mapping \in MappingChoices /\ entry.checked = entry.mapping
      BY <1>1, <2>3 DEF BatchEntry, ImportWork
    <3> DEFINE v == <<"written", entry.mapping>>
               V == {"written"} \X MappingChoices
    <3>5. v \in V /\ v[2] = entry.checked /\ Log(v) /\ history \in Seq(V)
      BY <2>3, <3>4 DEF ImportWork
    <3> HIDE DEF v, V
    <3>6. /\ history' \in Seq(V)
          /\ \E n : n \notin DOMAIN history /\ DOMAIN history' = DOMAIN history \cup {n} /\ history'[n] = v
      BY <3>5, Logged
    <3>7. DOMAIN history = {}
      BY <1>2, <2>3 DEF Editable
    <3>8. \A i, j \in DOMAIN history' : i = j /\ history'[i] = v
      BY <3>6, <3>7
    <3>9. entry' = e
      BY <2>3, <3>1
    <3>10. \A i \in DOMAIN history' : e.checked = history'[i][2]
      BY <3>2, <3>5, <3>8
    <3> QED  BY <3>2, <3>3, <3>6, <3>8, <3>9, <3>10, Zenon DEF ImportWork, V
  <2> QED  BY <1>7, <2>1, <2>2, <2>3 DEF ConfirmBatch
<1> QED  BY <1>4, <1>5, <1>6, <1>7 DEF ImportRequest

\* And a locked mark is changed by a correction only.
Chained ==
    entry.sheet = "LOCKED" =>
        /\ (entry'.mark # entry.mark) <=> (history' # history)
        /\ history' # history => history'[Len(history')] = <<entry.mark, entry'.mark>>

LEMMA RegisterPageKeeps ==
    ASSUME RegisterWork, NEW action, NEW shows, RegisterRequest(entry, action, shows)
    PROVE  RegisterWork' /\ entry'.page = entry.page /\ Chained
<1>1. entry \in RegisterEntry
  BY DEF RegisterWork
<1>2. CASE MarkRecord(entry, action)
  <2>1. PICK m \in Marks \cup {"UNMARKED"} : entry' = [entry EXCEPT !.mark = m]
    BY <1>2 DEF MarkRecord
  <2>2. PICK e \in RegisterEntry : e = [entry EXCEPT !.mark = m]
    BY <1>1 DEF RegisterEntry
  <2>3. e.sheet = entry.sheet /\ e.page = entry.page /\ entry.sheet # "LOCKED"
    BY <1>1, <1>2, <2>2 DEF RegisterEntry, MarkRecord, Markable, SessionOpen
  <2> QED  BY <1>2, <2>1, <2>2, <2>3 DEF RegisterWork, MarkRecord, Chained
<1>3. CASE FinalizeSheet(entry, action)
  <2>1. PICK e \in RegisterEntry : e = [entry EXCEPT !.sheet = "LOCKED", !.status = "COMPLETED"]
    BY <1>1 DEF RegisterEntry
  <2>2. e.status = "COMPLETED" /\ e.page = entry.page /\ e.mark = entry.mark /\ entry.mark \in Marks /\ entry.sheet # "LOCKED"
    BY <1>1, <1>3, <2>1 DEF RegisterEntry, FinalizeSheet, SessionOpen
  <2> QED  BY <1>3, <2>1, <2>2 DEF RegisterWork, FinalizeSheet, Chained
<1>4. CASE CorrectRecord(entry, action, shows)
  <2>1. PICK m \in Corrected(entry) \ {shows} : entry' = [entry EXCEPT !.mark = m] /\ Log(<<entry.mark, m>>)
    BY <1>4 DEF CorrectRecord
  <2>2. m \in Marks /\ m # entry.mark
    BY DEF Corrected
  <2>3. PICK e \in RegisterEntry : e = [entry EXCEPT !.mark = m]
    BY <1>1, <2>2 DEF RegisterEntry
  <2>4. e.sheet = entry.sheet /\ e.page = entry.page /\ e.status = entry.status /\ e.mark = m
    BY <1>1, <2>3 DEF RegisterEntry
  <2> DEFINE v == <<entry.mark, m>>
             V == (Marks \cup {"UNMARKED"}) \X Marks
  <2>5. v \in V /\ Log(v) /\ history \in Seq(V)
    BY <1>1, <2>1, <2>2 DEF RegisterWork, RegisterEntry
  <2> HIDE DEF v, V
  <2>6. history' \in Seq(V) /\ history' # history /\ history'[Len(history')] = v
    BY <2>5, Logged
  <2>7. RegisterWork'
    BY <2>1, <2>2, <2>3, <2>4, <2>6 DEF RegisterWork, V
  <2>8. Chained
    BY <2>1, <2>2, <2>3, <2>4, <2>6 DEF Chained, v
  <2> QED  BY <2>1, <2>3, <2>4, <2>7, <2>8
<1> QED  BY <1>2, <1>3, <1>4 DEF RegisterRequest

LEMMA WorkPages ==
    /\ EnrollmentWork => entry.page = "enrollment"
    /\ ImportWork => entry.page = "import"
    /\ RegisterWork => entry.page = "register"
BY DEF EnrollmentWork, EnrollmentEntry, ImportWork, BatchEntry, RegisterWork, RegisterEntry

LEMMA RequestKeeps ==
    ASSUME WorkbenchInv, NEW action, NEW shows, Request(action, shows)
    PROVE  /\ EnrollmentWork' \/ ImportWork' \/ RegisterWork'
           /\ entry'.page = entry.page
           /\ entry.page = "register" => Chained
<1>1. CASE EnrollmentWork
  BY <1>1, WorkPages, EnrollmentKeeps DEF Request
<1>2. CASE ImportWork
  BY <1>2, WorkPages, ImportKeeps DEF Request
<1>3. CASE RegisterWork
  BY <1>3, WorkPages, RegisterPageKeeps DEF Request
<1> QED  BY <1>1, <1>2, <1>3 DEF WorkbenchInv

LEMMA CopiesKept ==
    ASSUME WorkbenchInv, NEW b \in Browsers, entry'.page = entry.page,
           copy' = [copy EXCEPT ![b] = entry'] \/ copy' = copy
    PROVE  /\ copy' = [x \in Browsers |-> copy'[x]]
           /\ \A x \in Browsers : copy'[x] # Blank => copy'[x].page = entry'.page
BY DEF WorkbenchInv

LEMMA WorkbenchKeeps ==
    ASSUME WorkbenchInv, [WorkbenchNext]_workbenchVars
    PROVE  WorkbenchInv' /\ (entry.page = "register" => Chained)
<1>1. CASE UNCHANGED <<entry, history>> /\ (UNCHANGED copy \/ \E b \in Browsers : copy' = [copy EXCEPT ![b] = entry])
  <2>1. EnrollmentWork' \/ ImportWork' \/ RegisterWork'
    BY <1>1 DEF WorkbenchInv, EnrollmentWork, ImportWork, RegisterWork
  <2>2. CASE UNCHANGED copy
    BY <1>1, <2>1, <2>2 DEF WorkbenchInv, Chained
  <2>3. ASSUME NEW b \in Browsers, copy' = [copy EXCEPT ![b] = entry]
        PROVE  WorkbenchInv' /\ Chained
    BY <1>1, <2>1, <2>3, CopiesKept DEF WorkbenchInv, Chained
  <2> QED  BY <1>1, <2>2, <2>3
<1>2. ASSUME NEW b \in Browsers, SendRequest(b)
      PROVE  WorkbenchInv' /\ (entry.page = "register" => Chained)
  <2>1. \E action, shows : Request(action, shows)
    BY <1>2 DEF SendRequest
  <2>2. copy' = [copy EXCEPT ![b] = entry'] \/ copy' = copy
    BY <1>2 DEF SendRequest, Answered
  <2> QED  BY <2>1, <2>2, RequestKeeps, CopiesKept DEF WorkbenchInv
<1>3. CASE CallOffLesson
  <2>1. entry.page = "register" /\ entry.status = "SCHEDULED" /\ entry' = [entry EXCEPT !.status = "CANCELLED"]
        /\ UNCHANGED <<copy, history>>
    BY <1>3 DEF CallOffLesson
  <2>2. RegisterWork
    BY <2>1, WorkPages DEF WorkbenchInv
  <2>3. PICK e \in RegisterEntry : e = [entry EXCEPT !.status = "CANCELLED"]
    BY <2>2 DEF RegisterWork, RegisterEntry
  <2>4. e.sheet = entry.sheet /\ e.page = entry.page /\ entry.sheet # "LOCKED"
    BY <2>1, <2>2, <2>3 DEF RegisterWork, RegisterEntry
  <2>5. RegisterWork' /\ Chained /\ entry'.page = entry.page
    BY <2>1, <2>2, <2>3, <2>4 DEF RegisterWork, Chained
  <2> QED  BY <2>1, <2>5 DEF WorkbenchInv
<1>4. CASE UNCHANGED workbenchVars
  BY <1>1, <1>4 DEF workbenchVars
<1>5. ASSUME NEW b \in Browsers, Refresh(b) \/ PickAction(b) \/ Dismiss(b) \/ RefusedConfirmation(b)
      PROVE  UNCHANGED <<entry, history>> /\ (UNCHANGED copy \/ \E x \in Browsers : copy' = [copy EXCEPT ![x] = entry])
  BY <1>5 DEF Refresh, PickAction, Dismiss, RefusedConfirmation
<1> QED  BY <1>1, <1>2, <1>3, <1>4, <1>5 DEF WorkbenchNext

\* What is offered by a page that is up to date is what the server carries out.
LEMMA OffersMatch == WorkbenchInv => OfferedIsDone
<1> SUFFICES ASSUME WorkbenchInv, NEW b \in Browsers, copy[b] # Blank, copy[b] = entry, NEW action \in ActionsOn(entry)
             PROVE  \/ action \in DOMAIN TargetOf /\ TargetOf[action] \in AllowedMoves[entry.status]
                    \/ action = "transfer" /\ entry.status \notin Ended
                    \/ action = "reenroll" /\ entry.status \in Ended
                    \/ action \in {"save", "saveAndValidate", "cancelBatch"} /\ entry.status \in {"UPLOADED", "VALIDATED"}
                    \/ action = "confirm" /\ entry.status = "VALIDATED" /\ ~entry.invalid
                    \/ action \in {"mark", "finalize"} /\ entry.sheet = "OPEN" /\ entry.status = "SCHEDULED"
                    \/ action = "correct" /\ entry.sheet = "LOCKED"
  BY DEF OfferedIsDone
<1>1. CASE EnrollmentWork
  <2>1. action \in ActionsByStatus[entry.status] /\ entry.status \in DOMAIN ActionsByStatus
    BY <1>1, WorkPages DEF ActionsOn, EnrollmentWork, EnrollmentEntry
  <2> QED  BY <2>1 DEF ActionsByStatus, TargetOf, AllowedMoves, Ended
<1>2. CASE ImportWork
  <2>1. action \in WizardActions(entry)
    BY <1>2, WorkPages DEF ActionsOn
  <2>2. CASE entry.status = "UPLOADED"
    BY <2>1, <2>2 DEF WizardActions
  <2>3. CASE entry.status = "VALIDATED" /\ entry.invalid
    BY <2>1, <2>3 DEF WizardActions
  <2>4. CASE entry.status = "VALIDATED" /\ ~entry.invalid
    BY <2>1, <2>4 DEF WizardActions
  <2>5. CASE entry.status \notin {"UPLOADED", "VALIDATED"}
    BY <2>1, <2>5 DEF WizardActions
  <2> QED  BY <2>2, <2>3, <2>4, <2>5
<1>3. CASE RegisterWork
  <2>1. action \in RegisterActions(entry) /\ entry \in RegisterEntry
    BY <1>3, WorkPages DEF ActionsOn, RegisterWork
  <2> QED  BY <2>1 DEF RegisterActions, SessionOpen, RegisterEntry
<1> QED  BY <1>1, <1>2, <1>3 DEF WorkbenchInv

LEMMA WorkDoneOnce == WorkbenchInv => DoneOnce /\ WrittenWasValidated
<1> SUFFICES ASSUME WorkbenchInv  PROVE DoneOnce /\ WrittenWasValidated
  OBVIOUS
<1> DEFINE again(class) == {i \in DOMAIN history : history[i] = <<"reenrolled", class>>}
           written == {i \in DOMAIN history : history[i][1] = "written"}
<1>1. /\ \A class \in ClassChoices : \A i, j \in again(class) : i = j
      /\ \A i, j \in written : i = j
      /\ \A i \in written : entry.checked = history[i][2] /\ ~entry.invalid
  <2>1. CASE EnrollmentWork
    <3>1. \A i \in DOMAIN history : history[i][1] = "reenrolled"
      BY <2>1 DEF EnrollmentWork
    <3>2. written = {}
      BY <3>1
    <3> HIDE DEF written
    <3> QED  BY <2>1, <3>2 DEF EnrollmentWork
  <2>2. CASE ImportWork
    BY <2>2 DEF ImportWork
  <2>3. CASE RegisterWork
    <3>1. \A i \in DOMAIN history : history[i][1] \in Marks \cup {"UNMARKED"}
      BY <2>3 DEF RegisterWork
    <3>2. "written" \notin Marks \cup {"UNMARKED"} /\ "reenrolled" \notin Marks \cup {"UNMARKED"}
      BY DEF Marks
    <3>3. written = {} /\ \A class \in ClassChoices : again(class) = {}
      BY <3>1, <3>2
    <3> HIDE DEF written, again
    <3> QED  BY <3>3
  <2> QED  BY <2>1, <2>2, <2>3 DEF WorkbenchInv
<1>2. WrittenWasValidated
  BY <1>1 DEF WrittenWasValidated
<1>3. \A class \in ClassChoices : Cardinality(again(class)) <= 1
  <2> TAKE class \in ClassChoices
  <2>1. \A i, j \in again(class) : i = j
    BY <1>1
  <2> HIDE DEF again
  <2> QED  BY <2>1, AtMostOne
<1>4. Cardinality(written) <= 1
  <2>1. \A i, j \in written : i = j
    BY <1>1
  <2> HIDE DEF written
  <2> QED  BY <2>1, AtMostOne
<1> QED  BY <1>2, <1>3, <1>4 DEF DoneOnce

\* What a page that is up to date offers is carried out, whatever other
\* browsers do; imports are written once, as validated; and a locked mark
\* changes only by a recorded correction.
THEOREM WorkbenchStaysSafe == WorkbenchSpec => WorkbenchSafe
<1>1. WorkbenchInv => WorkbenchTypeOK
  <2> SUFFICES ASSUME WorkbenchInv  PROVE WorkbenchTypeOK
    OBVIOUS
  <2>1. CASE EnrollmentWork
    BY <2>1, WorkPages DEF WorkbenchInv, WorkbenchTypeOK, EnrollmentWork, EnrollmentEntry
  <2>2. CASE ImportWork
    <3>1. entry.status \in {"UPLOADED", "VALIDATED", "COMPLETED", "FAILED", "CANCELLED"}
      BY <2>2 DEF ImportWork, BatchEntry
    <3> QED  BY <2>2, <3>1, WorkPages DEF WorkbenchInv, WorkbenchTypeOK
  <2>3. CASE RegisterWork
    BY <2>3, WorkPages DEF WorkbenchInv, WorkbenchTypeOK, RegisterWork
  <2> QED  BY <2>1, <2>2, <2>3 DEF WorkbenchInv
<1>2. WorkbenchInv /\ [WorkbenchNext]_workbenchVars =>
        /\ WorkbenchInv'
        /\ [(entry.page = "register" /\ entry.sheet = "LOCKED") =>
              /\ (entry'.mark # entry.mark) <=> (history' # history)
              /\ history' # history => history'[Len(history')] = <<entry.mark, entry'.mark>>]_workbenchVars
  BY WorkbenchKeeps DEF Chained
<1> QED  BY <1>1, <1>2, WorkbenchBegins, OffersMatch, WorkDoneOnce, PTL
         DEF WorkbenchSpec, WorkbenchSafe, CorrectionsChain

-----------------------------------------------------------------------------
(* The page of a lead, for any salespeople, students and visits.            *)

VisitRow ==
    [status : {"BOOKED", "CANCELLED", "COMPLETED"}, session : {"SCHEDULED", "LOCKED", "CANCELLED"}, student : Pupils]

FileRow == [status : LeadStatus, contact : BOOLEAN]

\* The lead on the server: its visits are of students there are, and one student
\* has an active enrollment exactly when it is won.
ServerInv ==
    /\ file \in FileRow
    /\ people \in 0 .. MaxPeople
    /\ seats \in [Pupils -> {"NONE", "TRIAL", "ACTIVE", "WITHDRAWN"}]
    /\ \A p \in Pupils : p > people => seats[p] = "NONE"
    /\ visits \in Seq(VisitRow) /\ Len(visits) <= MaxVisits
    /\ \A i \in DOMAIN visits : visits[i].student <= people
    /\ \A p, q \in Pupils : seats[p] = "ACTIVE" /\ seats[q] = "ACTIVE" => p = q
    /\ (\E p \in Pupils : seats[p] = "ACTIVE") <=> file.status = "WON"
    /\ StudentsHaveVisits

\* A dialog names a booking there is, and a student there is.
KnownForm(f, known, count) ==
    /\ f \in Forms /\ f.visit <= count
    /\ f.op \in {"cancel", "outcome"} => f.visit \in 1 .. count
    /\ f.choice = "reuse" => f.student \in 1 .. known

GoodForm(f) == KnownForm(f, people, Len(visits))

\* What a page shows was so, and bookings are never removed.
PastView(v, count) ==
    /\ v.status \in LeadStatus
    /\ v.visits \in Seq(VisitRow) /\ Len(v.visits) <= count

PageOf(s) ==
    /\ alike[s] \subseteq 1 .. people
    /\ shown[s] # NoView => PastView(shown[s], Len(visits))
    /\ form[s] # Closed => KnownForm(form[s], people, Len(visits))

PagesInv ==
    /\ shown = [s \in Salespeople |-> shown[s]]
    /\ alike = [s \in Salespeople |-> alike[s]]
    /\ form = [s \in Salespeople |-> form[s]]
    /\ \A s \in Salespeople : PageOf(s)

LEMMA Tables == ASSUME NEW S, NEW n \in Nat  PROVE [1 .. n -> S] \subseteq Seq(S)
BY SeqDef

LEMMA LeadPageBegins == LeadPageInit => ServerInv /\ PagesInv
<1> SUFFICES ASSUME LeadPageInit  PROVE ServerInv /\ PagesInv
  OBVIOUS
<1>1. visits = << >> /\ visits \in Seq(VisitRow) /\ Len(visits) = 0 /\ DOMAIN visits = {}
  BY DEF LeadPageInit
<1>2. people \in 0 .. MaxPeople /\ people <= 1
  BY LeadPageAssumption DEF LeadPageInit
<1>3. seats = [p \in Pupils |-> "NONE"]
  BY DEF LeadPageInit
<1>4. file \in FileRow /\ file.status = "NEW"
  <2>1. PICK c \in BOOLEAN : file = [status |-> "NEW", contact |-> c]
    BY DEF LeadPageInit
  <2>2. "NEW" \in LeadStatus
    BY DEF LeadStatus, LeadTransitions
  <2>3. file \in FileRow
    BY <2>1, <2>2, Zenon DEF FileRow
  <2> QED  BY <2>1, <2>3
<1>5. StudentsHaveVisits
  BY <1>2 DEF StudentsHaveVisits
<1>6. ServerInv
  BY <1>1, <1>2, <1>3, <1>4, <1>5, LeadPageAssumption DEF ServerInv, Pupils
<1>7. PagesInv
  BY DEF LeadPageInit, PagesInv, PageOf, Closed
<1> QED  BY <1>6, <1>7

-----------------------------------------------------------------------------
(* The server *)

LEMMA FileTurned ==
    ASSUME ServerInv, NEW to \in LeadStatus, Turned(to)
    PROVE  file' \in FileRow /\ file'.status = to
<1>1. PICK row \in FileRow : row = [file EXCEPT !.status = to]
  BY Zenon DEF ServerInv, FileRow
<1>2. row.status = to
  BY <1>1 DEF ServerInv, FileRow
<1> QED  BY <1>1, <1>2 DEF Turned

LEMMA AllowedTo ==
    ASSUME ServerInv, NEW to, Allowed(file.status, to)
    PROVE  to \in LeadStatus /\ file.status \in LeadStatus /\ file.status # "WON"
<1>1. file.status \in LeadStatus
  BY DEF ServerInv, FileRow
<1> QED  BY <1>1 DEF Allowed, LeadTransitions, LeadStatus

LEMMA StudentChosen ==
    ASSUME ServerInv, NEW f, GoodForm(f), Ready(f), f.choice \in {"default", "create", "reuse"}, NEW p \in ChosenStudents(f)
    PROVE  /\ p \in Pupils /\ (p <= people \/ p = people + 1)
           /\ Materialized(p) \in 0 .. MaxPeople
           /\ p <= Materialized(p) /\ people <= Materialized(p) /\ (p <= people => Materialized(p) = people)
           /\ p = people + 1 => Materialized(p) = people + 1
           /\ f.choice = "default" => visits # << >> /\ p = visits[Len(visits)].student
<1>1. people \in Nat /\ people <= MaxPeople /\ MaxPeople \in Nat
  BY LeadPageAssumption DEF ServerInv
<1>2. CASE f.choice = "reuse"
  <2>1. p = f.student /\ p \in 1 .. people
    BY <1>2 DEF ChosenStudents, GoodForm, KnownForm
  <2> QED  BY <1>1, <1>2, <2>1 DEF Materialized, Pupils
<1>3. CASE f.choice = "create"
  <2>1. p = people + 1 /\ p \in Pupils
    BY <1>3 DEF ChosenStudents
  <2> QED  BY <1>1, <1>3, <2>1 DEF Materialized, Pupils
<1>4. CASE f.choice = "default"
  <2>1. p \in DefaultStudent
    BY <1>4 DEF ChosenStudents
  <2>2. visits # << >> /\ p = visits[Len(visits)].student
    BY <2>1 DEF DefaultStudent
  <2>3. Len(visits) \in DOMAIN visits
    BY <2>2 DEF ServerInv
  <2>4. p \in Pupils /\ p <= people
    <3>1. visits[Len(visits)] \in VisitRow /\ visits[Len(visits)].student <= people
      BY <2>3 DEF ServerInv
    <3> QED  BY <2>2, <3>1 DEF VisitRow
  <2> QED  BY <1>1, <2>2, <2>4 DEF Materialized, Pupils
<1> QED  BY <1>2, <1>3, <1>4

\* Nobody loses an active enrollment.
LEMMA SeatsLeft ==
    ASSUME ServerInv, NEW vs, seats' = LeftSeats(TrialStudents(vs))
    PROVE  /\ seats' \in [Pupils -> {"NONE", "TRIAL", "ACTIVE", "WITHDRAWN"}]
           /\ \A p \in Pupils : /\ seats'[p] = "ACTIVE" <=> seats[p] = "ACTIVE"
                                /\ seats[p] = "NONE" => seats'[p] = "NONE"
BY DEF ServerInv, LeftSeats, TrialStudents

\* A step that makes no student and enrolls nobody.
LEMMA SameStudents ==
    ASSUME ServerInv, UNCHANGED people,
           file' \in FileRow, file'.status = "WON" <=> file.status = "WON",
           visits' \in Seq(VisitRow), Len(visits') = Len(visits),
           \A i \in DOMAIN visits : visits'[i].student = visits[i].student,
           seats' \in [Pupils -> {"NONE", "TRIAL", "ACTIVE", "WITHDRAWN"}],
           \A p \in Pupils : /\ seats'[p] = "ACTIVE" <=> seats[p] = "ACTIVE"
                             /\ seats[p] = "NONE" => seats'[p] = "NONE"
    PROVE  ServerInv'
<1>1. DOMAIN visits' = DOMAIN visits
  BY DEF ServerInv
<1>2. StudentsHaveVisits'
  <2>1. \A p \in 2 .. people : p \in Pupils
    BY LeadPageAssumption DEF ServerInv, Pupils
  <2> QED  BY <1>1, <2>1 DEF ServerInv, StudentsHaveVisits
<1> QED  BY <1>1, <1>2 DEF ServerInv, Pupils

\* What a command may do to the server, and what the pages rely on.
Serves(f) ==
    /\ ServerInv'
    /\ people <= people' /\ Len(visits) <= Len(visits')
    /\ file.status # "WON" /\ file'.status = "WON" =>
          /\ f.op = "convert"
          /\ f.choice = "default" => visits # << >> /\ seats'[visits[Len(visits)].student] = "ACTIVE"

LEMMA BookServes ==
    ASSUME ServerInv, NEW f \in Forms, GoodForm(f), Ready(f), BookTrial(f)
    PROVE  Serves(f)
<1>1. PICK p \in ChosenStudents(f) :
        /\ seats[p] \notin {"TRIAL", "ACTIVE"}
        /\ people' = Materialized(p)
        /\ seats' = [seats EXCEPT ![p] = "TRIAL"]
        /\ visits' = Append(visits, [status |-> "BOOKED", session |-> "SCHEDULED", student |-> p])
  BY DEF BookTrial
<1>2. /\ p \in Pupils /\ (p <= people \/ p = people + 1)
      /\ Materialized(p) \in 0 .. MaxPeople
      /\ p <= Materialized(p) /\ people <= Materialized(p) /\ (p <= people => Materialized(p) = people)
      /\ p = people + 1 => Materialized(p) = people + 1
  <2>1. f.choice \in {"default", "create", "reuse"}
    BY DEF Forms
  <2> QED  BY <2>1, StudentChosen
<1>3. file.status = "QUALIFIED" /\ Len(visits) < MaxVisits /\ Turned("TRIAL_BOOKED") /\ "TRIAL_BOOKED" \in LeadStatus
  BY DEF BookTrial, LeadStatus, LeadTransitions
<1>4. file' \in FileRow /\ file'.status = "TRIAL_BOOKED"
  BY <1>3, FileTurned
<1> DEFINE row == [status |-> "BOOKED", session |-> "SCHEDULED", student |-> p]
<1>5. row \in VisitRow /\ row.student = p
  BY <1>2 DEF VisitRow
<1>6. visits' = Append(visits, row)
  BY <1>1
<1> HIDE DEF row
<1>7. /\ visits' \in Seq(VisitRow) /\ Len(visits') = Len(visits) + 1 /\ Len(visits) \in Nat
      /\ DOMAIN visits' = DOMAIN visits \cup {Len(visits) + 1}
      /\ visits'[Len(visits) + 1] = row /\ \A i \in DOMAIN visits : visits'[i] = visits[i]
  BY <1>5, <1>6 DEF ServerInv
<1>8. people \in Nat /\ people' \in Nat /\ people <= people' /\ p <= people' /\ people' <= MaxPeople /\ MaxPeople \in Nat
      /\ people' <= people + 1 /\ (people' = people + 1 => p = people + 1)
  BY <1>1, <1>2, LeadPageAssumption DEF ServerInv
<1>9. \A i \in DOMAIN visits' : visits'[i].student <= people'
  <2> TAKE i \in DOMAIN visits'
  <2>1. CASE i \in DOMAIN visits
    <3>1. visits[i].student <= people /\ visits[i].student \in Pupils
      <4>1. visits[i] \in VisitRow /\ visits[i].student <= people
        BY <2>1 DEF ServerInv
      <4> QED  BY <4>1 DEF VisitRow
    <3> QED  BY <1>7, <1>8, <2>1, <3>1 DEF Pupils
  <2>2. CASE i = Len(visits) + 1
    BY <1>5, <1>7, <1>8, <2>2
  <2> QED  BY <1>7, <2>1, <2>2
<1>10. /\ seats' \in [Pupils -> {"NONE", "TRIAL", "ACTIVE", "WITHDRAWN"}]
       /\ \A q \in Pupils : seats'[q] = "ACTIVE" <=> seats[q] = "ACTIVE"
       /\ \A q \in Pupils : q # p => seats'[q] = seats[q]
  BY <1>1, <1>2 DEF ServerInv
<1>11. StudentsHaveVisits'
  <2>1. SUFFICES ASSUME NEW q \in 2 .. people'
                 PROVE  seats'[q] = "ACTIVE" \/ \E i \in DOMAIN visits' : visits'[i].student = q
    BY DEF StudentsHaveVisits
  <2>2. CASE q = p
    BY <1>5, <1>7, <2>2
  <2>3. CASE q # p
    <3>1. q \in 2 .. people /\ q \in Pupils
      BY <1>8, <2>1, <2>3 DEF Pupils
    <3> QED  BY <1>7, <1>10, <2>3, <3>1 DEF ServerInv, StudentsHaveVisits
  <2> QED  BY <2>2, <2>3
<1>12. \A q \in Pupils : q > people' => seats'[q] = "NONE"
  BY <1>8, <1>10 DEF ServerInv, Pupils
<1>13. \A q, r \in Pupils : seats'[q] = "ACTIVE" /\ seats'[r] = "ACTIVE" => q = r
  BY <1>10 DEF ServerInv
<1>14. (\E q \in Pupils : seats'[q] = "ACTIVE") <=> file'.status = "WON"
  BY <1>3, <1>4, <1>10 DEF ServerInv
<1>15. Len(visits') <= MaxVisits
  BY <1>3, <1>7, LeadPageAssumption
<1>16. people' \in 0 .. MaxPeople
  BY <1>8
<1>17. ServerInv'
  BY <1>4, <1>7, <1>9, <1>10, <1>11, <1>12, <1>13, <1>14, <1>15, <1>16 DEF ServerInv
<1> QED  BY <1>4, <1>7, <1>8, <1>17 DEF Serves

LEMMA ConvertServes ==
    ASSUME ServerInv, NEW f \in Forms, f.op = "convert", GoodForm(f), Ready(f), ConvertLead(f)
    PROVE  Serves(f)
<1>1. PICK p \in ChosenStudents(f) :
        /\ people' = Materialized(p)
        /\ seats' = [seats EXCEPT ![p] = "ACTIVE"]
  BY DEF ConvertLead
<1>2. /\ p \in Pupils /\ (p <= people \/ p = people + 1)
      /\ Materialized(p) \in 0 .. MaxPeople
      /\ p <= Materialized(p) /\ people <= Materialized(p) /\ (p <= people => Materialized(p) = people)
      /\ p = people + 1 => Materialized(p) = people + 1
      /\ f.choice = "default" => visits # << >> /\ p = visits[Len(visits)].student
  <2>1. f.choice \in {"default", "create", "reuse"}
    BY DEF Forms
  <2> QED  BY <2>1, StudentChosen
<1>3. file.status # "WON" /\ Turned("WON") /\ "WON" \in LeadStatus /\ UNCHANGED visits
  BY DEF ConvertLead, Convertible, LeadStatus, LeadTransitions
<1>4. file' \in FileRow /\ file'.status = "WON"
  BY <1>3, FileTurned
<1>5. people \in Nat /\ people' \in Nat /\ people <= people' /\ p <= people' /\ people' <= MaxPeople /\ MaxPeople \in Nat
      /\ people' <= people + 1 /\ (people' = people + 1 => p = people + 1)
  BY <1>1, <1>2, LeadPageAssumption DEF ServerInv
<1>6. /\ seats' \in [Pupils -> {"NONE", "TRIAL", "ACTIVE", "WITHDRAWN"}]
      /\ seats'[p] = "ACTIVE"
      /\ \A q \in Pupils : q # p => seats'[q] = seats[q] /\ seats'[q] # "ACTIVE"
  BY <1>1, <1>2, <1>3 DEF ServerInv
<1>7. \A i \in DOMAIN visits : visits[i].student <= people'
  <2> TAKE i \in DOMAIN visits
  <2>1. visits[i].student <= people /\ visits[i].student \in Pupils
    <3>1. visits[i] \in VisitRow /\ visits[i].student <= people
      BY DEF ServerInv
    <3> QED  BY <3>1 DEF VisitRow
  <2> QED  BY <1>5, <2>1 DEF Pupils
<1>8. StudentsHaveVisits'
  <2>1. SUFFICES ASSUME NEW q \in 2 .. people', q # p
                 PROVE  \E i \in DOMAIN visits : visits[i].student = q
    BY <1>3, <1>6 DEF StudentsHaveVisits
  <2>2. q \in 2 .. people /\ q \in Pupils
    BY <1>5, <2>1 DEF Pupils
  <2> QED  BY <1>6, <2>1, <2>2 DEF ServerInv, StudentsHaveVisits
<1>9. \A q \in Pupils : q > people' => seats'[q] = "NONE"
  BY <1>5, <1>6 DEF ServerInv, Pupils
<1>10. ServerInv'
  BY <1>2, <1>3, <1>4, <1>5, <1>6, <1>7, <1>8, <1>9, LeadPageAssumption DEF ServerInv
<1> QED  BY <1>2, <1>3, <1>5, <1>6, <1>10 DEF Serves, ServerInv

LEMMA VisitsServe ==
    ASSUME ServerInv, NEW f \in Forms, GoodForm(f),
           \/ f.op = "cancel" /\ CancelVisit(f)
           \/ f.op = "outcome" /\ RecordOutcome(f)
    PROVE  Serves(f)
<1>1. f.visit \in DOMAIN visits
  BY DEF GoodForm, KnownForm, ServerInv
<1>2. PICK to \in {"CANCELLED", "COMPLETED"} : visits' = [visits EXCEPT ![f.visit].status = to]
  BY DEF CancelVisit, RecordOutcome
<1>3. PICK row \in VisitRow : row = [visits[f.visit] EXCEPT !.status = to]
  <2>1. visits[f.visit] \in VisitRow
    BY <1>1 DEF ServerInv
  <2> QED  BY <2>1 DEF VisitRow
<1>4. row.student = visits[f.visit].student
  <2>1. visits[f.visit] \in VisitRow
    BY <1>1 DEF ServerInv
  <2> QED  BY <1>3, <2>1 DEF VisitRow
<1>5. visits' = [visits EXCEPT ![f.visit] = row]
  BY <1>2, <1>3
<1>6. visits' \in Seq(VisitRow) /\ Len(visits') = Len(visits) /\ Len(visits) \in Nat
      /\ \A i \in DOMAIN visits : visits'[i].student = visits[i].student
  BY <1>1, <1>4, <1>5 DEF ServerInv
<1>7. UNCHANGED people /\ people \in Nat
  BY DEF CancelVisit, RecordOutcome, ServerInv
<1>8. /\ seats' \in [Pupils -> {"NONE", "TRIAL", "ACTIVE", "WITHDRAWN"}]
      /\ \A p \in Pupils : /\ seats'[p] = "ACTIVE" <=> seats[p] = "ACTIVE"
                           /\ seats[p] = "NONE" => seats'[p] = "NONE"
  <2>1. CASE CancelVisit(f)
    BY <2>1, SeatsLeft DEF CancelVisit
  <2>2. CASE RecordOutcome(f)
    BY <2>2 DEF RecordOutcome, ServerInv
  <2> QED  BY <2>1, <2>2
<1>9. file' \in FileRow /\ (file'.status = "WON" <=> file.status = "WON")
  <2>1. CASE CancelVisit(f)
    <3>1. CASE file.status = "TRIAL_BOOKED"
      <4>1. Turned("QUALIFIED") /\ "QUALIFIED" \in LeadStatus
        BY <2>1, <3>1 DEF CancelVisit, LeadStatus, LeadTransitions
      <4> QED  BY <3>1, <4>1, FileTurned
    <3>2. CASE file.status # "TRIAL_BOOKED"
      BY <2>1, <3>2 DEF CancelVisit, ServerInv
    <3> QED  BY <3>1, <3>2
  <2>2. CASE RecordOutcome(f)
    <3>1. PICK st \in {"TRIAL_COMPLETED", "QUALIFIED", "LOST"} : Allowed(file.status, st) /\ Turned(st)
      BY <2>2 DEF RecordOutcome
    <3>2. st \in LeadStatus /\ file.status # "WON" /\ st # "WON"
      BY <3>1, AllowedTo
    <3> QED  BY <3>1, <3>2, FileTurned
  <2> QED  BY <2>1, <2>2
<1>10. ServerInv'
  BY <1>6, <1>7, <1>8, <1>9, SameStudents
<1> QED  BY <1>6, <1>7, <1>9, <1>10 DEF Serves

LEMMA LossServes ==
    ASSUME ServerInv, NEW f \in Forms, LoseLead
    PROVE  Serves(f)
<1> DEFINE ended(i) == IF visits[i].status = "BOOKED" THEN [visits[i] EXCEPT !.status = "CANCELLED"] ELSE visits[i]
<1>1. visits' = [i \in DOMAIN visits |-> ended(i)]
  BY DEF LoseLead
<1>2. ASSUME NEW i \in DOMAIN visits  PROVE ended(i) \in VisitRow /\ ended(i).student = visits[i].student
  <2>1. visits[i] \in VisitRow
    BY DEF ServerInv
  <2> QED  BY <2>1 DEF VisitRow
<1>3. DOMAIN visits = 1 .. Len(visits) /\ Len(visits) \in Nat
  BY DEF ServerInv
<1> HIDE DEF ended
<1>4. visits' \in [1 .. Len(visits) -> VisitRow]
  BY <1>1, <1>2, <1>3
<1>5. visits' \in Seq(VisitRow)
  BY <1>3, <1>4, Tables
<1>6. Len(visits') = Len(visits) /\ \A i \in DOMAIN visits : visits'[i].student = visits[i].student
  BY <1>1, <1>2, <1>3, <1>4, <1>5
<1>7. UNCHANGED people /\ people \in Nat /\ Allowed(file.status, "LOST") /\ Turned("LOST")
  BY DEF LoseLead, ServerInv
<1>8. file' \in FileRow /\ (file'.status = "WON" <=> file.status = "WON")
  BY <1>7, AllowedTo, FileTurned
<1>9. /\ seats' \in [Pupils -> {"NONE", "TRIAL", "ACTIVE", "WITHDRAWN"}]
      /\ \A p \in Pupils : /\ seats'[p] = "ACTIVE" <=> seats[p] = "ACTIVE"
                           /\ seats[p] = "NONE" => seats'[p] = "NONE"
  BY SeatsLeft DEF LoseLead
<1>10. ServerInv'
  BY <1>5, <1>6, <1>7, <1>8, <1>9, SameStudents
<1> QED  BY <1>3, <1>6, <1>7, <1>8, <1>10 DEF Serves

LEMMA SameServer ==
    ASSUME ServerInv, UNCHANGED server  PROVE ServerInv'
BY DEF ServerInv, server, StudentsHaveVisits

LEMMA ExecutedServes ==
    ASSUME ServerInv, NEW f, GoodForm(f), Ready(f), Executed(f)
    PROVE  Serves(f)
<1>1. f \in Forms
  BY DEF GoodForm, KnownForm
<1>2. CASE f.op \in {"contact", "qualify"}
  <2>1. PICK to \in {"CONTACTED", "QUALIFIED"} : TurnLead(to)
    BY <1>2 DEF Executed
  <2>2. to \in LeadStatus /\ file.status # "WON" /\ to # "WON"
    BY <2>1, AllowedTo DEF TurnLead
  <2>3. file' \in FileRow /\ file'.status = to
    BY <2>1, <2>2, FileTurned DEF TurnLead
  <2>4. UNCHANGED <<visits, people, seats>> /\ people \in Nat /\ Len(visits) \in Nat
    BY <2>1 DEF TurnLead, ServerInv
  <2>5. ServerInv'
    BY <2>2, <2>3, <2>4, SameStudents DEF ServerInv
  <2> QED  BY <2>2, <2>3, <2>4, <2>5 DEF Serves
<1>3. CASE f.op \in {"follow", "note"}
  <2>1. UNCHANGED server
    BY <1>3 DEF Executed, FollowUp, AddNote
  <2>2. people \in Nat /\ Len(visits) \in Nat
    BY DEF ServerInv
  <2> QED  BY <2>1, <2>2, SameServer DEF Serves, server
<1>4. CASE f.op = "lost"
  BY <1>1, <1>4, LossServes DEF Executed
<1>5. CASE f.op = "book"
  BY <1>1, <1>5, BookServes DEF Executed
<1>6. CASE f.op \in {"cancel", "outcome"}
  BY <1>1, <1>6, VisitsServe DEF Executed
<1>7. CASE f.op = "convert"
  BY <1>1, <1>7, ConvertServes DEF Executed
<1> QED  BY <1>1, <1>2, <1>3, <1>4, <1>5, <1>6, <1>7 DEF Forms

-----------------------------------------------------------------------------
(* The pages *)

\* What every step leaves the pages of.
Grows == people \in Nat /\ people' \in Nat /\ people <= people' /\ Len(visits) <= Len(visits')

\* A page that does nothing itself.
LEMMA PagesGrow ==
    ASSUME ServerInv, ServerInv', Grows, NEW s \in Salespeople, PageOf(s),
           alike'[s] = alike[s], shown'[s] = shown[s], form'[s] = form[s]
    PROVE  PageOf(s)'
<1>1. Len(visits) \in Nat /\ Len(visits') \in Nat
  BY DEF ServerInv
<1>2. alike'[s] \subseteq 1 .. people'
  BY DEF PageOf, Grows
<1>3. shown[s] # NoView => PastView(shown'[s], Len(visits'))
  <2>1. SUFFICES ASSUME shown[s] # NoView  PROVE PastView(shown'[s], Len(visits'))
    OBVIOUS
  <2>2. PastView(shown[s], Len(visits))
    BY <2>1 DEF PageOf
  <2>3. Len(shown[s].visits) \in Nat
    BY <2>2 DEF PastView
  <2> QED  BY <1>1, <2>2, <2>3 DEF PastView, Grows
<1>4. form[s] # Closed => KnownForm(form'[s], people', Len(visits'))
  <2>1. SUFFICES ASSUME form[s] # Closed  PROVE KnownForm(form'[s], people', Len(visits'))
    OBVIOUS
  <2>2. KnownForm(form[s], people, Len(visits))
    BY <2>1 DEF PageOf
  <2>3. form[s].visit \in Nat /\ form[s].student \in Nat
    BY <2>2, LeadPageAssumption DEF KnownForm, Forms
  <2> QED  BY <1>1, <2>2, <2>3 DEF KnownForm, Grows
<1> QED  BY <1>2, <1>3, <1>4 DEF PageOf, Closed

\* One page changes.
LEMMA PageTurns ==
    ASSUME ServerInv, ServerInv', Grows, PagesInv, NEW s \in Salespeople, PageOf(s)',
           NEW view, NEW filled, NEW same,
           shown' = [shown EXCEPT ![s] = view],
           alike' = [alike EXCEPT ![s] = same],
           form' = [form EXCEPT ![s] = filled]
    PROVE  PagesInv'
<1>1. /\ shown' = [t \in Salespeople |-> shown'[t]]
      /\ alike' = [t \in Salespeople |-> alike'[t]]
      /\ form' = [t \in Salespeople |-> form'[t]]
  BY DEF PagesInv
<1>2. ASSUME NEW t \in Salespeople, t # s  PROVE PageOf(t)'
  <2>1. PageOf(t) /\ alike'[t] = alike[t] /\ shown'[t] = shown[t] /\ form'[t] = form[t]
    BY <1>2 DEF PagesInv
  <2> QED  BY <1>2, <2>1, PagesGrow
<1> QED  BY <1>1, <1>2 DEF PagesInv

\* A table that is left as it is has every row it had.
LEMMA SameTables ==
    ASSUME PagesInv, NEW s \in Salespeople
    PROVE  shown = [shown EXCEPT ![s] = shown[s]] /\ alike = [alike EXCEPT ![s] = alike[s]] /\ form = [form EXCEPT ![s] = form[s]]
BY DEF PagesInv

\* What is offered names a booking the page shows.
LEMMA OfferedNames ==
    ASSUME ServerInv, NEW v, v # NoView => PastView(v, Len(visits)), NEW command \in Offered(v)
    PROVE  /\ v # NoView
           /\ command.op \in {"book", "convert", "lost", "outcome", "follow", "contact", "qualify", "cancel", "note"}
           /\ command.visit \in 0 .. Len(visits)
           /\ command.op \in {"cancel", "outcome"} => command.visit \in 1 .. Len(visits) /\ command.visit \in BookedVisits(v)
<1>1. v # NoView /\ PastView(v, Len(visits))
  BY DEF Offered
<1>2. Len(visits) \in Nat
  BY DEF ServerInv
<1>3. DOMAIN v.visits = 1 .. Len(v.visits) /\ Len(v.visits) \in Nat /\ Len(v.visits) <= Len(visits)
  BY <1>1 DEF PastView
<1>4. BookedVisits(v) \subseteq 1 .. Len(visits)
  BY <1>2, <1>3 DEF BookedVisits
<1>5. CASE command \in LeadButtons(v) \cup NoteButton(v)
  <2>1. PICK op \in {"contact", "qualify", "book", "convert", "lost", "follow", "note"} : command = Command(op, 0)
    BY <1>5 DEF LeadButtons, NoteButton
  <2>2. command.op = op /\ command.visit = 0
    BY <2>1 DEF Command
  <2> QED  BY <1>1, <1>2, <2>2
<1>6. CASE command \in VisitButtons(v)
  <2>1. PICK op \in {"cancel", "outcome"}, i \in BookedVisits(v) : command = Command(op, i)
    BY <1>6 DEF VisitButtons
  <2>2. command.op = op /\ command.visit = i
    BY <2>1 DEF Command
  <2> QED  BY <1>1, <1>2, <1>4, <2>1, <2>2
<1> QED  BY <1>1, <1>5, <1>6 DEF Offered

LEMMA FilledIsKnown ==
    ASSUME ServerInv, NEW v, v # NoView => PastView(v, Len(visits)), NEW command \in Offered(v),
           NEW choice \in {"default", "create"}
    PROVE  KnownForm(Filled(command, choice, 0), people, Len(visits))
<1> DEFINE f == Filled(command, choice, 0)
<1>1. f.op = command.op /\ f.visit = command.visit /\ f.choice = choice /\ f.student = 0
  BY DEF Filled
<1>2. Len(visits) \in Nat /\ Len(visits) <= MaxVisits /\ MaxVisits \in Nat /\ MaxPeople \in Nat
  BY LeadPageAssumption DEF ServerInv
<1>3. f \in Forms
  BY <1>2, OfferedNames DEF Filled, Forms
<1> HIDE DEF f
<1>4. KnownForm(f, people, Len(visits))
  BY <1>1, <1>2, <1>3, OfferedNames DEF KnownForm
<1> QED  BY <1>4 DEF f

\* A step of a page that asks nothing of the server but to be read.
LEMMA PageSteps ==
    ASSUME ServerInv, PagesInv, NEW s \in Salespeople,
           Fetch(s) \/ FetchDuplicates(s) \/ OpenDialog(s) \/ Choose(s) \/ CloseDialog(s)
    PROVE  UNCHANGED server /\ PagesInv'
<1>1. UNCHANGED server
  BY DEF Fetch, FetchDuplicates, OpenDialog, Choose, CloseDialog
<1>2. ServerInv' /\ Grows
  <2>1. people \in Nat /\ Len(visits) \in Nat
    BY DEF ServerInv
  <2> QED  BY <1>1, <2>1, SameServer DEF Grows, server
<1>3. UNCHANGED <<people, visits>>
  BY <1>1 DEF server
<1>4. /\ alike[s] \subseteq 1 .. people
      /\ shown[s] # NoView => PastView(shown[s], Len(visits))
      /\ form[s] # Closed => KnownForm(form[s], people, Len(visits))
      /\ shown \in [Salespeople -> {shown[t] : t \in Salespeople}]
      /\ alike \in [Salespeople -> {alike[t] : t \in Salespeople}]
      /\ form \in [Salespeople -> {form[t] : t \in Salespeople}]
  BY DEF PagesInv, PageOf
<1>5. /\ shown = [shown EXCEPT ![s] = shown[s]]
      /\ alike = [alike EXCEPT ![s] = alike[s]]
      /\ form = [form EXCEPT ![s] = form[s]]
  BY SameTables
<1>6. CASE Fetch(s)
  <2>1. shown' = [shown EXCEPT ![s] = Fetched] /\ UNCHANGED <<alike, form>>
    BY <1>6 DEF Fetch
  <2>2. PastView(Fetched, Len(visits))
    BY DEF Fetched, PastView, ServerInv, FileRow
  <2>3. shown'[s] = Fetched
    BY <1>4, <2>1
  <2>4. PageOf(s)'
    BY <1>3, <1>4, <2>1, <2>2, <2>3 DEF PageOf, Closed
  <2> QED  BY <1>1, <1>2, <1>5, <2>1, <2>4, PageTurns
<1>7. CASE FetchDuplicates(s)
  <2>1. alike' = [alike EXCEPT ![s] = Candidates] /\ UNCHANGED <<shown, form>>
    BY <1>7 DEF FetchDuplicates
  <2>2. alike'[s] = Candidates /\ Candidates \subseteq 1 .. people
    BY <1>4, <2>1 DEF Candidates
  <2>3. PageOf(s)'
    BY <1>3, <1>4, <2>1, <2>2 DEF PageOf, Closed
  <2> QED  BY <1>1, <1>2, <1>5, <2>1, <2>3, PageTurns
<1>8. ASSUME NEW filled, form' = [form EXCEPT ![s] = filled], UNCHANGED <<shown, alike>>,
             filled # Closed => KnownForm(filled, people, Len(visits))
      PROVE  PagesInv'
  <2>1. form'[s] = filled
    BY <1>4, <1>8
  <2>2. PageOf(s)'
    BY <1>3, <1>4, <1>8, <2>1 DEF PageOf, Closed
  <2> QED  BY <1>2, <1>5, <1>8, <2>2, PageTurns
<1>9. CASE OpenDialog(s)
  <2>1. PICK command \in Offered(shown[s]) : command.op \notin Immediate /\ form' = [form EXCEPT ![s] = Opened(command, alike[s])]
    BY <1>9 DEF OpenDialog
  <2>2. command.op \in {"book", "convert", "lost", "outcome", "follow"}
    BY <1>4, <2>1, OfferedNames DEF Immediate
  <2>3. PICK choice \in {"default", "create"} : Opened(command, alike[s]) = Filled(command, choice, 0)
    BY <2>2 DEF Opened, FollowUpDialog, LostDialog, OutcomeDialog, TrialDialog, ConvertDialog
  <2>4. KnownForm(Filled(command, choice, 0), people, Len(visits))
    BY <1>4, FilledIsKnown
  <2>5. UNCHANGED <<shown, alike>>
    BY <1>9 DEF OpenDialog
  <2> QED  BY <1>1, <1>8, <2>1, <2>3, <2>4, <2>5
<1>10. CASE Choose(s)
  <2>1. form[s] # Closed /\ UNCHANGED <<shown, alike>>
    BY <1>10 DEF Choose
  <2>2. KnownForm(form[s], people, Len(visits)) /\ form[s] \in Forms
    BY <1>4, <2>1 DEF KnownForm
  <2>3. people \in Nat /\ MaxPeople \in Nat /\ people <= MaxPeople
    BY LeadPageAssumption DEF ServerInv
  <2>4. PICK choice \in {"create", "reuse"}, p \in 0 .. MaxPeople :
            /\ choice = "reuse" => p \in 1 .. people
            /\ form' = [form EXCEPT ![s].choice = choice, ![s].student = p]
    <3>1. CASE form' = [form EXCEPT ![s].choice = "create", ![s].student = 0]
      <4>1. 0 \in 0 .. MaxPeople
        BY <2>3
      <4> QED  BY <3>1, <4>1, Zenon
    <3>2. CASE \E p \in alike[s] : form' = [form EXCEPT ![s].choice = "reuse", ![s].student = p]
      <4>1. PICK p \in alike[s] : form' = [form EXCEPT ![s].choice = "reuse", ![s].student = p]
        BY <3>2
      <4>2. p \in 1 .. people
        BY <1>4
      <4>3. p \in 0 .. MaxPeople
        BY <2>3, <4>2
      <4> QED  BY <4>1, <4>2, <4>3, Zenon
    <3> QED  BY <1>10, <3>1, <3>2 DEF Choose
  <2>5. PICK filled \in Forms : filled = [form[s] EXCEPT !.choice = choice, !.student = p]
    BY <2>2, <2>4 DEF Forms
  <2>6. form' = [form EXCEPT ![s] = filled]
    BY <1>4, <2>4, <2>5
  <2>7. filled.op = form[s].op /\ filled.visit = form[s].visit /\ filled.choice = choice /\ filled.student = p
    BY <2>2, <2>5 DEF Forms
  <2>8. KnownForm(filled, people, Len(visits))
    BY <2>2, <2>4, <2>7 DEF KnownForm
  <2> QED  BY <1>1, <1>8, <2>1, <2>6, <2>8
<1>11. CASE CloseDialog(s)
  <2>1. form' = [form EXCEPT ![s] = Closed] /\ UNCHANGED <<shown, alike>>
    BY <1>11 DEF CloseDialog
  <2> QED  BY <1>1, <1>8, <2>1
<1> QED  BY <1>1, <1>6, <1>7, <1>9, <1>10, <1>11

\* What is sent is a form the page may send, and the server serves it.
LEMMA SendSteps ==
    ASSUME ServerInv, PagesInv, NEW s \in Salespeople, NEW f,
           KnownForm(f, people, Len(visits)), Ready(f), SendForm(s, f)
    PROVE  Serves(f) /\ PagesInv'
<1>1. Serves(f)
  BY ExecutedServes DEF SendForm, GoodForm
<1>2. ServerInv' /\ Grows
  BY <1>1 DEF Serves, ServerInv, Grows
<1>3. /\ shown = [shown EXCEPT ![s] = shown[s]]
      /\ alike = [alike EXCEPT ![s] = alike[s]]
      /\ form = [form EXCEPT ![s] = form[s]]
      /\ PageOf(s)
  BY SameTables DEF PagesInv
<1>4. CASE Fail(s)
  <2>1. UNCHANGED <<shown, alike, form>>
    BY <1>4 DEF SendForm, Fail
  <2>2. PageOf(s)'
    BY <1>2, <1>3, <2>1, PagesGrow
  <2> QED  BY <1>1, <1>2, <1>3, <2>1, <2>2, PageTurns
<1>5. CASE Succeed(s)
  <2> DEFINE view == [status |-> file'.status, visits |-> visits']
  <2>1. shown' = [shown EXCEPT ![s] = view] /\ form' = [form EXCEPT ![s] = Closed] /\ UNCHANGED alike
    BY <1>5 DEF SendForm, Succeed, Fetched
  <2>2. PastView(view, Len(visits'))
    BY <1>2 DEF PastView, ServerInv, FileRow
  <2> HIDE DEF view
  <2>3. shown'[s] = view /\ form'[s] = Closed
    BY <2>1 DEF PagesInv
  <2>4. alike'[s] \subseteq 1 .. people'
    BY <1>2, <1>3, <2>1 DEF PageOf, Grows
  <2>5. PageOf(s)'
    BY <2>2, <2>3, <2>4 DEF PageOf, Closed
  <2> QED  BY <1>1, <1>2, <1>3, <2>1, <2>5, PageTurns
<1> QED  BY <1>4, <1>5 DEF SendForm

\* Whatever a page submits; left to the server, a conversion enrolls the student
\* of the last booking.
LEMMA SubmitSteps ==
    ASSUME ServerInv, PagesInv, NEW s \in Salespeople, Submit(s)
    PROVE  /\ ServerInv' /\ PagesInv'
           /\ (/\ file.status # "WON" /\ file'.status = "WON"
               /\ (form[s] # Closed /\ form[s].op = "convert") => form[s].choice = "default")
              => visits # << >> /\ seats'[visits[Len(visits)].student] = "ACTIVE"
<1>1. /\ shown[s] # NoView => PastView(shown[s], Len(visits))
      /\ form[s] # Closed => KnownForm(form[s], people, Len(visits))
  BY DEF PagesInv, PageOf
<1>2. CASE form[s] # Closed /\ Ready(form[s]) /\ SendForm(s, form[s])
  <2>1. Serves(form[s]) /\ PagesInv'
    BY <1>1, <1>2, SendSteps
  <2> QED  BY <1>2, <2>1 DEF Serves
<1>3. CASE /\ form[s] = Closed
           /\ \E command \in Offered(shown[s]) : command.op \in Immediate /\ SendForm(s, Filled(command, "default", 0))
  <2>1. PICK command \in Offered(shown[s]) : command.op \in Immediate /\ SendForm(s, Filled(command, "default", 0))
    BY <1>3
  <2>2. KnownForm(Filled(command, "default", 0), people, Len(visits))
    BY <1>1, FilledIsKnown
  <2>3. Ready(Filled(command, "default", 0)) /\ Filled(command, "default", 0).op # "convert"
    BY <2>1 DEF Ready, Filled, Immediate
  <2>4. Serves(Filled(command, "default", 0)) /\ PagesInv'
    BY <2>1, <2>2, <2>3, SendSteps
  <2> QED  BY <2>3, <2>4 DEF Serves
<1> QED  BY <1>2, <1>3 DEF Submit

LEMMA SessionSteps ==
    ASSUME ServerInv, PagesInv, NEW i \in DOMAIN visits, NEW to \in {"LOCKED", "CANCELLED"}, SessionTurns(i, to)
    PROVE  ServerInv' /\ PagesInv'
<1>1. visits[i] \in VisitRow
  BY DEF ServerInv
<1>2. PICK row \in VisitRow : row = [visits[i] EXCEPT !.session = to]
  BY <1>1 DEF VisitRow
<1>3. row.student = visits[i].student
  BY <1>1, <1>2 DEF VisitRow
<1>4. visits' = [visits EXCEPT ![i] = row]
  BY <1>2 DEF SessionTurns
<1>5. visits' \in Seq(VisitRow) /\ Len(visits') = Len(visits) /\ Len(visits) \in Nat
      /\ \A j \in DOMAIN visits : visits'[j].student = visits[j].student
  BY <1>3, <1>4 DEF ServerInv
<1>6. UNCHANGED <<file, people, seats, shown, alike, form>> /\ people \in Nat
  BY DEF SessionTurns, ServerInv
<1>7. ServerInv'
  BY <1>5, <1>6, SameStudents DEF ServerInv
<1>8. Grows
  BY <1>5, <1>6 DEF Grows
<1>9. \A s \in Salespeople : PageOf(s)'
  BY <1>6, <1>7, <1>8, PagesGrow DEF PagesInv
<1> QED  BY <1>6, <1>7, <1>9 DEF PagesInv

-----------------------------------------------------------------------------
(* What the invariants give *)

LEMMA OffersHold == ServerInv /\ PagesInv => OfferedIsAccepted
<1> SUFFICES ASSUME ServerInv, PagesInv  PROVE OfferedIsAccepted
  OBVIOUS
<1>1. SUFFICES ASSUME NEW s \in Salespeople, Current(s), NEW command \in Offered(shown[s])
               PROVE  CASE command.op \in {"contact", "lost"} -> Allowed(file.status, IF command.op = "lost" THEN "LOST" ELSE "CONTACTED")
                        [] command.op = "qualify" -> Allowed(file.status, "QUALIFIED")
                        [] command.op = "convert" -> Allowed(file.status, "WON")
                        [] command.op = "book" -> Allowed(file.status, "TRIAL_BOOKED")
                        [] command.op \in {"cancel", "outcome"} -> visits[command.visit].status = "BOOKED"
                        [] OTHER -> LeadOpen(file.status)
  BY DEF OfferedIsAccepted
<1>2. shown[s].status = file.status /\ shown[s].visits = visits
  BY <1>1 DEF Current, Fetched
<1>3. shown[s] # NoView => PastView(shown[s], Len(visits))
  BY DEF PagesInv, PageOf
<1>4. file.status \in LeadStatus
  BY DEF ServerInv, FileRow
<1>5. CASE command \in LeadButtons(shown[s]) \cup NoteButton(shown[s])
  <2>1. PICK op \in {"contact", "qualify", "book", "convert", "lost", "follow", "note"} :
            /\ command = Command(op, 0)
            /\ op = "contact" => file.status = "NEW"
            /\ op = "qualify" => file.status \in {"NEW", "CONTACTED"}
            /\ op = "book" => file.status = "QUALIFIED"
            /\ op = "convert" => file.status \in {"QUALIFIED", "TRIAL_COMPLETED"}
            /\ op \in {"lost", "follow", "note"} => LeadOpen(file.status)
    BY <1>2, <1>5 DEF LeadButtons, NoteButton
  <2>2. command.op = op
    BY <2>1 DEF Command
  <2> QED  BY <1>4, <2>1, <2>2 DEF Allowed, LeadTransitions, LeadStatus, LeadOpen
<1>6. CASE command \in VisitButtons(shown[s])
  <2>1. PICK op \in {"cancel", "outcome"}, i \in BookedVisits(shown[s]) : command = Command(op, i)
    BY <1>6 DEF VisitButtons
  <2>2. command.op = op /\ command.visit = i /\ visits[i].status = "BOOKED"
    BY <1>2, <2>1 DEF Command, BookedVisits
  <2> QED  BY <2>1, <2>2
<1>7. command \in LeadButtons(shown[s]) \cup NoteButton(shown[s]) \cup VisitButtons(shown[s])
  BY <1>1 DEF Offered
<1> QED  BY <1>5, <1>6, <1>7

LEMMA PagesAreSafe ==
    ServerInv /\ PagesInv => LeadPageTypeOK /\ OfferedIsAccepted /\ ConvertedOnce /\ StudentsHaveVisits
<1> SUFFICES ASSUME ServerInv, PagesInv
             PROVE  LeadPageTypeOK /\ OfferedIsAccepted /\ ConvertedOnce /\ StudentsHaveVisits
  OBVIOUS
<1>1. LeadPageTypeOK
  <2>1. \A s \in Salespeople :
          /\ alike[s] \subseteq 1 .. people
          /\ form[s] # Closed => form[s] \in Forms /\ form[s].visit \in 0 .. Len(visits)
    <3> TAKE s \in Salespeople
    <3>1. alike[s] \subseteq 1 .. people /\ (form[s] # Closed => KnownForm(form[s], people, Len(visits)))
      BY DEF PagesInv, PageOf
    <3>2. form[s] # Closed => form[s] \in Forms /\ form[s].visit <= Len(visits)
      BY <3>1 DEF KnownForm
    <3>3. form[s] # Closed => form[s].visit \in 0 .. MaxVisits
      BY <3>2 DEF Forms
    <3> QED  BY <3>1, <3>2, <3>3, LeadPageAssumption DEF ServerInv
  <2> QED  BY <2>1 DEF LeadPageTypeOK, ServerInv, FileRow
<1>2. ConvertedOnce
  <2>1. Cardinality({p \in Pupils : seats[p] = "ACTIVE"}) <= 1
    BY AtMostOne DEF ServerInv
  <2> QED  BY <2>1 DEF ConvertedOnce, ServerInv
<1> QED  BY <1>1, <1>2, OffersHold DEF ServerInv

LEMMA LeadPageKeeps ==
    ASSUME ServerInv, PagesInv, [LeadPageNext]_leadPageVars
    PROVE  /\ ServerInv' /\ PagesInv'
           /\ (/\ file.status # "WON" /\ file'.status = "WON"
               /\ \A s \in Salespeople : (form[s] # Closed /\ form[s].op = "convert") => form[s].choice = "default")
              => visits # << >> /\ seats'[visits[Len(visits)].student] = "ACTIVE"
<1>1. CASE UNCHANGED leadPageVars
  <2>1. UNCHANGED server /\ UNCHANGED <<file, people, visits, shown, alike, form>>
    BY <1>1 DEF leadPageVars, server
  <2> QED  BY <2>1, SameServer DEF PagesInv, PageOf
<1>2. CASE \E s \in Salespeople : Fetch(s) \/ FetchDuplicates(s) \/ OpenDialog(s) \/ Choose(s) \/ CloseDialog(s)
  <2>1. UNCHANGED server /\ PagesInv'
    BY <1>2, PageSteps
  <2> QED  BY <2>1, SameServer DEF server
<1>3. CASE \E s \in Salespeople : Submit(s)
  BY <1>3, SubmitSteps
<1>4. CASE \E i \in DOMAIN visits, to \in {"LOCKED", "CANCELLED"} : SessionTurns(i, to)
  <2>1. PICK i \in DOMAIN visits, to \in {"LOCKED", "CANCELLED"} : SessionTurns(i, to)
    BY <1>4
  <2>2. UNCHANGED file
    BY <2>1 DEF SessionTurns
  <2> QED  BY <2>1, <2>2, SessionSteps
<1> QED  BY <1>1, <1>2, <1>3, <1>4 DEF LeadPageNext

\* What the page of a lead offers and does: a page that is up to date offers
\* nothing the server refuses for the lead's state, the lead is converted once,
\* no student is made twice for it, and left to the server a conversion takes
\* the student of the last trial.
THEOREM LeadPageStaysSafe == LeadPageSpec => LeadPageSafe
<1>1. LeadPageInit => ServerInv /\ PagesInv
  BY LeadPageBegins
<1>2. ServerInv /\ PagesInv /\ [LeadPageNext]_leadPageVars => (ServerInv /\ PagesInv)'
  BY LeadPageKeeps
<1>3. ServerInv /\ PagesInv => LeadPageTypeOK /\ OfferedIsAccepted /\ ConvertedOnce /\ StudentsHaveVisits
  BY PagesAreSafe
<1>4. ServerInv /\ PagesInv /\ [LeadPageNext]_leadPageVars =>
        [(/\ file.status # "WON" /\ file'.status = "WON"
          /\ \A s \in Salespeople : (form[s] # Closed /\ form[s].op = "convert") => form[s].choice = "default")
         => visits # << >> /\ seats'[visits[Len(visits)].student] = "ACTIVE"]_leadPageVars
  BY LeadPageKeeps
<1> QED  BY <1>1, <1>2, <1>3, <1>4, PTL DEF LeadPageSpec, LeadPageSafe, DefaultKeepsStudent

-----------------------------------------------------------------------------
(* The history of leads and its two reports, for any leads, bookings,       *)
(* branches and writers.                                                    *)

InquiryRow == [status : LeadStatus, branch : Branches, created : Nat, won : Nat, since : Nat]

TryoutRow ==
    [lead : Inquiries, status : {"BOOKED", "COMPLETED", "NO_SHOW", "CANCELLED"},
     booked : Nat, done : Nat, since : Nat]

\* A booking is seen by nobody who began before it was made; so a trial is not
\* completed before it is booked.
TryoutHolds(t) ==
    /\ tryout[t] \in TryoutRow /\ tryout[t].lead \in DOMAIN inquiry
    /\ tryout[t].booked <= tryout[t].since
    /\ tryout[t].status = "BOOKED" <=> tryout[t].done = 0
    /\ tryout[t].status = "COMPLETED" => tryout[t].booked <= tryout[t].done

InquiryHolds(l) ==
    /\ l \in Inquiries /\ inquiry[l] \in InquiryRow
    /\ inquiry[l].status = "WON" <=> inquiry[l].won # 0

OneBooked ==
    \A t, u \in DOMAIN tryout :
        (/\ tryout[t].lead = tryout[u].lead
         /\ tryout[t].status = "BOOKED" /\ tryout[u].status = "BOOKED") => t = u

PipelineInv ==
    /\ clock \in Nat /\ began \in [Writers -> Nat]
    /\ \A c \in Writers : began[c] <= clock
    /\ \A l \in DOMAIN inquiry : InquiryHolds(l)
    /\ \A v \in leadEvents : v.lead \in DOMAIN inquiry /\ v.to \in LeadStatus /\ v.at \in Nat
    /\ \A t \in DOMAIN tryout : TryoutHolds(t)
    /\ OneBooked
    /\ IsFiniteSet(DOMAIN tryout)

LEMMA PipelineBegins == PipelineInit => PipelineInv
<1> SUFFICES ASSUME PipelineInit  PROVE PipelineInv
  OBVIOUS
<1>1. DOMAIN inquiry = {} /\ leadEvents = {} /\ DOMAIN tryout = {} /\ clock = 0 /\ began = [c \in Writers |-> 0]
  BY DEF PipelineInit, TimelineInit
<1> QED  BY <1>1, FS_EmptySet DEF PipelineInv, OneBooked

\* What a command may write of its lead, and of trials.
MayKeep(c, l, row) ==
    /\ l \in Inquiries /\ row \in InquiryRow
    /\ row.status = "WON" <=> row.won # 0
    /\ l \in DOMAIN inquiry =>
          /\ row.created = inquiry[l].created
          /\ row.won = inquiry[l].won \/ (inquiry[l].won = 0 /\ row.won = began[c])
    /\ l \notin DOMAIN inquiry => row.created = began[c] /\ row.won = 0

\* Trials that come to an end, and one that is booked.
MayBook(c, l, bookings) ==
    /\ IsFiniteSet(DOMAIN bookings)
    /\ \A t \in DOMAIN bookings : bookings[t] \in TryoutRow
    /\ \A t \in DOMAIN bookings \cap DOMAIN tryout :
          /\ bookings[t].lead = tryout[t].lead /\ bookings[t].booked = tryout[t].booked
          /\ bookings[t].since = tryout[t].since
          /\ bookings[t].status # "BOOKED" /\ tryout[t].status = "BOOKED"
          /\ bookings[t].done = began[c]
          /\ bookings[t].status = "COMPLETED" => bookings[t].booked <= began[c]
    /\ \A t \in DOMAIN bookings \ DOMAIN tryout :
          /\ bookings[t].lead = l /\ bookings[t].booked = began[c]
          /\ bookings[t].status = "BOOKED" /\ bookings[t].done = 0 /\ bookings[t].since = clock
          /\ BookedFor(l) = {}
          /\ \A u \in DOMAIN bookings \ DOMAIN tryout : t = u

\* What every command leaves of what was told, and what it tells is of now.
Tells(c) ==
    /\ \A l \in DOMAIN inquiry :
          /\ l \in DOMAIN inquiry' /\ inquiry'[l].created = inquiry[l].created
          /\ inquiry'[l].won = inquiry[l].won \/ (inquiry[l].won = 0 /\ inquiry'[l].won = began[c])
    /\ \A l \in DOMAIN inquiry' : l \in DOMAIN inquiry \/ inquiry'[l].created = began[c]
    /\ leadEvents \subseteq leadEvents'
    /\ \A v \in leadEvents' : v \in leadEvents \/ v.at = began[c]
    /\ \A t \in DOMAIN tryout :
          /\ t \in DOMAIN tryout'
          /\ tryout'[t].lead = tryout[t].lead /\ tryout'[t].booked = tryout[t].booked
          /\ \/ tryout'[t].status = tryout[t].status /\ tryout'[t].done = tryout[t].done
             \/ tryout[t].status = "BOOKED" /\ tryout'[t].done = began[c]
    /\ \A t \in DOMAIN tryout' : t \in DOMAIN tryout \/ tryout'[t].booked = began[c]

LEMMA LeadWritten ==
    ASSUME PipelineInv, NEW c \in Writers, NEW l, NEW row, NEW to, NEW bookings,
           CommitLead(c, l, row, to, bookings)
    PROVE  /\ DOMAIN inquiry' = DOMAIN inquiry \cup {l} /\ inquiry'[l] = row
           /\ \A x \in DOMAIN inquiry \ {l} : inquiry'[x] = inquiry[x]
           /\ DOMAIN tryout' = DOMAIN tryout \cup DOMAIN bookings
           /\ \A t \in DOMAIN bookings : tryout'[t] = bookings[t]
           /\ \A t \in DOMAIN tryout : t \notin DOMAIN bookings => tryout'[t] = tryout[t]
           /\ leadEvents' = leadEvents \cup {[lead |-> l, to |-> to, at |-> began[c]]}
           /\ clock' = clock /\ began' = [began EXCEPT ![c] = 0] /\ began[c] > 0 /\ began[c] \in Nat
BY DEF CommitLead, Ends, Overlaid, RowOf, PipelineInv

LEMMA CommitLeadKeeps ==
    ASSUME PipelineInv, NEW c \in Writers, NEW l, NEW row, NEW to \in LeadStatus, NEW bookings,
           CommitLead(c, l, row, to, bookings), MayKeep(c, l, row), MayBook(c, l, bookings)
    PROVE  PipelineInv' /\ Tells(c)
<1>1. /\ DOMAIN inquiry' = DOMAIN inquiry \cup {l} /\ inquiry'[l] = row
      /\ \A x \in DOMAIN inquiry \ {l} : inquiry'[x] = inquiry[x]
      /\ DOMAIN tryout' = DOMAIN tryout \cup DOMAIN bookings
      /\ \A t \in DOMAIN bookings : tryout'[t] = bookings[t]
      /\ \A t \in DOMAIN tryout : t \notin DOMAIN bookings => tryout'[t] = tryout[t]
      /\ leadEvents' = leadEvents \cup {[lead |-> l, to |-> to, at |-> began[c]]}
      /\ clock' = clock /\ began' = [began EXCEPT ![c] = 0] /\ began[c] > 0 /\ began[c] \in Nat
  BY LeadWritten
<1>2. clock' \in Nat /\ began' \in [Writers -> Nat] /\ \A d \in Writers : began'[d] <= clock'
  BY <1>1 DEF PipelineInv
<1>3. ASSUME NEW x \in DOMAIN inquiry'  PROVE InquiryHolds(x)'
  <2>1. CASE x = l
    BY <1>1, <2>1 DEF InquiryHolds, MayKeep
  <2>2. CASE x # l
    BY <1>1, <1>3, <2>2 DEF InquiryHolds, PipelineInv
  <2> QED  BY <2>1, <2>2
<1>4. \A v \in leadEvents' : v.lead \in DOMAIN inquiry' /\ v.to \in LeadStatus /\ v.at \in Nat
  BY <1>1 DEF PipelineInv
<1>5. \A t \in DOMAIN bookings : bookings[t] \in TryoutRow
  BY DEF MayBook
<1>6. ASSUME NEW t \in DOMAIN tryout'  PROVE TryoutHolds(t)'
  <2>1. CASE t \notin DOMAIN bookings
    BY <1>1, <1>6, <2>1 DEF TryoutHolds, PipelineInv
  <2>2. CASE t \in DOMAIN bookings /\ t \in DOMAIN tryout
    BY <1>1, <1>5, <2>2 DEF TryoutHolds, PipelineInv, MayBook
  <2>3. CASE t \in DOMAIN bookings /\ t \notin DOMAIN tryout
    BY <1>1, <1>5, <2>3 DEF TryoutHolds, PipelineInv, MayBook
  <2> QED  BY <2>1, <2>2, <2>3
<1>7. ASSUME NEW t \in DOMAIN tryout', NEW u \in DOMAIN tryout',
             tryout'[t].lead = tryout'[u].lead, tryout'[t].status = "BOOKED", tryout'[u].status = "BOOKED"
      PROVE  t = u
  <2>1. ASSUME NEW x \in DOMAIN tryout, tryout'[x].status = "BOOKED"
        PROVE  tryout[x].status = "BOOKED" /\ tryout'[x].lead = tryout[x].lead
    BY <1>1, <2>1 DEF MayBook
  <2>2. ASSUME NEW x \in DOMAIN tryout', x \notin DOMAIN tryout
        PROVE  tryout'[x].lead = l /\ BookedFor(l) = {} /\ x \in DOMAIN bookings \ DOMAIN tryout
    BY <1>1, <2>2 DEF MayBook
  <2>3. CASE t \in DOMAIN tryout /\ u \in DOMAIN tryout
    BY <1>7, <2>1, <2>3 DEF PipelineInv, OneBooked
  <2>4. CASE t \in DOMAIN tryout /\ u \notin DOMAIN tryout
    BY <1>7, <2>1, <2>2, <2>4 DEF BookedFor
  <2>5. CASE t \notin DOMAIN tryout /\ u \in DOMAIN tryout
    BY <1>7, <2>1, <2>2, <2>5 DEF BookedFor
  <2>6. CASE t \notin DOMAIN tryout /\ u \notin DOMAIN tryout
    BY <2>2, <2>6 DEF MayBook
  <2> QED  BY <2>3, <2>4, <2>5, <2>6
<1>8. IsFiniteSet(DOMAIN tryout')
  <2>1. IsFiniteSet(DOMAIN tryout \cup DOMAIN bookings)
    BY FS_Union DEF PipelineInv, MayBook
  <2> QED  BY <1>1, <2>1
<1>9. PipelineInv'
  BY <1>2, <1>3, <1>4, <1>6, <1>7, <1>8 DEF PipelineInv, OneBooked
<1>10. /\ \A x \in DOMAIN inquiry :
            /\ x \in DOMAIN inquiry' /\ inquiry'[x].created = inquiry[x].created
            /\ inquiry'[x].won = inquiry[x].won \/ (inquiry[x].won = 0 /\ inquiry'[x].won = began[c])
       /\ \A x \in DOMAIN inquiry' : x \in DOMAIN inquiry \/ inquiry'[x].created = began[c]
  BY <1>1 DEF MayKeep
<1>11. /\ leadEvents \subseteq leadEvents'
       /\ \A v \in leadEvents' : v \in leadEvents \/ v.at = began[c]
  BY <1>1
<1>12. /\ \A t \in DOMAIN tryout :
            /\ t \in DOMAIN tryout'
            /\ tryout'[t].lead = tryout[t].lead /\ tryout'[t].booked = tryout[t].booked
            /\ \/ tryout'[t].status = tryout[t].status /\ tryout'[t].done = tryout[t].done
               \/ tryout[t].status = "BOOKED" /\ tryout'[t].done = began[c]
       /\ \A t \in DOMAIN tryout' : t \in DOMAIN tryout \/ tryout'[t].booked = began[c]
  BY <1>1 DEF MayBook
<1> QED  BY <1>9, <1>10, <1>11, <1>12 DEF Tells

LEMMA NoBookings ==
    ASSUME NEW c, NEW l  PROVE MayBook(c, l, << >>)
<1>1. DOMAIN << >> = {}
  OBVIOUS
<1> QED  BY <1>1, FS_EmptySet DEF MayBook

\* A lead on file may move on, WON excepted.
LEMMA MayMove ==
    ASSUME PipelineInv, NEW c, NEW l \in DOMAIN inquiry, NEW to \in LeadStatus,
           (to # "WON" /\ inquiry[l].status # "WON") \/ to = inquiry[l].status
    PROVE  MayKeep(c, l, [inquiry[l] EXCEPT !.status = to])
<1>1. l \in Inquiries /\ inquiry[l] \in InquiryRow /\ (inquiry[l].status = "WON" <=> inquiry[l].won # 0)
  BY DEF PipelineInv, InquiryHolds
<1>2. PICK row \in InquiryRow : row = [inquiry[l] EXCEPT !.status = to]
  BY <1>1 DEF InquiryRow
<1>3. row.created = inquiry[l].created /\ row.won = inquiry[l].won /\ row.status = to
  BY <1>1, <1>2 DEF InquiryRow
<1> QED  BY <1>1, <1>2, <1>3 DEF MayKeep

LEMMA AllowedStatuses ==
    ASSUME PipelineInv, NEW l \in DOMAIN inquiry, NEW to, AllowedFrom(l, to)
    PROVE  to \in LeadStatus /\ inquiry[l].status # "WON" /\ inquiry[l].status \in LeadStatus
<1>1. inquiry[l].status \in LeadStatus
  BY DEF PipelineInv, InquiryHolds, InquiryRow
<1> QED  BY <1>1 DEF AllowedFrom, LeadTransitions, LeadStatus

\* Booked trials may come to an end; to be completed, they must have been seen.
LEMMA MayEnd ==
    ASSUME PipelineInv, NEW c \in Writers, began[c] > 0, NEW l, NEW ts \in SUBSET DOMAIN tryout,
           NEW result \in {"COMPLETED", "NO_SHOW", "CANCELLED"},
           \A t \in ts : tryout[t].status = "BOOKED" /\ (result # "CANCELLED" => tryout[t].since < began[c])
    PROVE  MayBook(c, l, EndedTrials(c, ts, result))
<1> DEFINE ended == EndedTrials(c, ts, result)
<1>1. DOMAIN ended = ts /\ \A t \in ts : ended[t] = [tryout[t] EXCEPT !.status = result, !.done = began[c]]
  BY DEF EndedTrials
<1> HIDE DEF ended
<1>2. began[c] \in Nat /\ began[c] > 0
  BY DEF PipelineInv
<1>3. ASSUME NEW t \in ts
      PROVE  /\ ended[t] \in TryoutRow
             /\ ended[t].lead = tryout[t].lead /\ ended[t].booked = tryout[t].booked
             /\ ended[t].since = tryout[t].since
             /\ ended[t].status # "BOOKED" /\ ended[t].done = began[c]
             /\ ended[t].status = "COMPLETED" => ended[t].booked <= began[c]
  <2>1. tryout[t] \in TryoutRow /\ tryout[t].booked <= tryout[t].since
    BY DEF PipelineInv, TryoutHolds
  <2>2. PICK row \in TryoutRow : row = [tryout[t] EXCEPT !.status = result, !.done = began[c]]
    BY <1>2, <2>1 DEF TryoutRow
  <2>3. row.lead = tryout[t].lead /\ row.booked = tryout[t].booked /\ row.since = tryout[t].since
        /\ row.status = result /\ row.done = began[c]
    BY <2>1, <2>2 DEF TryoutRow
  <2>4. result = "COMPLETED" => tryout[t].booked <= began[c]
    BY <1>2, <2>1 DEF TryoutRow
  <2> QED  BY <1>1, <2>2, <2>3, <2>4
<1>4. IsFiniteSet(DOMAIN ended)
  BY <1>1, FS_Subset DEF PipelineInv
<1>5. MayBook(c, l, ended)
  BY <1>1, <1>3, <1>4 DEF MayBook
<1> QED  BY <1>5 DEF ended

LEMMA LeadsKeep ==
    ASSUME PipelineInv, NEW c \in Writers,
           CreateInquiry(c) \/ UpdateInquiry(c) \/ NoteInquiry(c) \/ SimpleMove(c) \/ WinInquiry(c)
    PROVE  PipelineInv' /\ Tells(c)
<1>1. CASE CreateInquiry(c)
  <2>1. PICK l \in Inquiries \ DOMAIN inquiry, b \in Branches :
          CommitLead(c, l, [status |-> "NEW", branch |-> b, created |-> began[c], won |-> 0, since |-> clock], "NEW", << >>)
    BY <1>1 DEF CreateInquiry
  <2>2. "NEW" \in LeadStatus /\ began[c] \in Nat /\ clock \in Nat
    BY DEF LeadStatus, LeadTransitions, PipelineInv
  <2>3. PICK row \in InquiryRow : row = [status |-> "NEW", branch |-> b, created |-> began[c], won |-> 0, since |-> clock]
    BY <2>2 DEF InquiryRow
  <2>4. MayKeep(c, l, row)
    BY <2>3 DEF MayKeep
  <2> QED  BY <2>1, <2>2, <2>3, <2>4, NoBookings, CommitLeadKeeps
<1>2. CASE UpdateInquiry(c)
  <2>1. PICK l \in DOMAIN inquiry, b \in Branches :
          CommitLead(c, l, [inquiry[l] EXCEPT !.branch = b], inquiry[l].status, << >>)
    BY <1>2 DEF UpdateInquiry, Visible
  <2>2. l \in Inquiries /\ inquiry[l] \in InquiryRow /\ (inquiry[l].status = "WON" <=> inquiry[l].won # 0)
    BY DEF PipelineInv, InquiryHolds
  <2>3. PICK row \in InquiryRow : row = [inquiry[l] EXCEPT !.branch = b]
    BY <2>2 DEF InquiryRow
  <2>4. row.created = inquiry[l].created /\ row.won = inquiry[l].won /\ row.status = inquiry[l].status
        /\ inquiry[l].status \in LeadStatus
    BY <2>2, <2>3 DEF InquiryRow
  <2>5. MayKeep(c, l, row)
    BY <2>2, <2>3, <2>4 DEF MayKeep
  <2> QED  BY <2>1, <2>3, <2>4, <2>5, NoBookings, CommitLeadKeeps
<1>3. CASE NoteInquiry(c)
  <2>1. PICK l \in DOMAIN inquiry : MoveLead(c, l, inquiry[l].status, << >>)
    BY <1>3 DEF NoteInquiry, Visible
  <2>2. inquiry[l].status \in LeadStatus
    BY DEF PipelineInv, InquiryHolds, InquiryRow
  <2>3. MayKeep(c, l, [inquiry[l] EXCEPT !.status = inquiry[l].status])
    BY <2>2, MayMove
  <2> QED  BY <2>1, <2>2, <2>3, NoBookings, CommitLeadKeeps DEF MoveLead
<1>4. CASE SimpleMove(c)
  <2>1. PICK l \in DOMAIN inquiry, to \in {"CONTACTED", "QUALIFIED"} :
          AllowedFrom(l, to) /\ MoveLead(c, l, to, << >>)
    BY <1>4 DEF SimpleMove, Visible
  <2>2. to \in LeadStatus /\ to # "WON" /\ inquiry[l].status # "WON"
    BY <2>1, AllowedStatuses
  <2>3. MayKeep(c, l, [inquiry[l] EXCEPT !.status = to])
    BY <2>2, MayMove
  <2> QED  BY <2>1, <2>2, <2>3, NoBookings, CommitLeadKeeps DEF MoveLead
<1>5. CASE WinInquiry(c)
  <2>1. PICK l \in DOMAIN inquiry :
          /\ AllowedFrom(l, "WON")
          /\ CommitLead(c, l, [inquiry[l] EXCEPT !.status = "WON", !.won = began[c]], "WON", << >>)
    BY <1>5 DEF WinInquiry, Visible
  <2>2. "WON" \in LeadStatus /\ inquiry[l].status # "WON"
    BY <2>1, AllowedStatuses
  <2>3. began[c] \in Nat /\ began[c] # 0
    BY <2>1 DEF PipelineInv, CommitLead, Ends
  <2>4. l \in Inquiries /\ inquiry[l] \in InquiryRow /\ (inquiry[l].status = "WON" <=> inquiry[l].won # 0)
    BY DEF PipelineInv, InquiryHolds
  <2>5. PICK row \in InquiryRow : row = [inquiry[l] EXCEPT !.status = "WON", !.won = began[c]]
    BY <2>2, <2>3, <2>4 DEF InquiryRow
  <2>6. row.created = inquiry[l].created /\ row.won = began[c] /\ row.status = "WON" /\ inquiry[l].won = 0
    BY <2>2, <2>4, <2>5 DEF InquiryRow
  <2>7. MayKeep(c, l, row)
    BY <2>3, <2>4, <2>5, <2>6 DEF MayKeep
  <2> QED  BY <2>1, <2>2, <2>5, <2>7, NoBookings, CommitLeadKeeps
<1> QED  BY <1>1, <1>2, <1>3, <1>4, <1>5

LEMMA TryoutsKeep ==
    ASSUME PipelineInv, NEW c \in Writers,
           LoseInquiry(c) \/ BookTryout(c) \/ CancelTryout(c) \/ TryoutOutcome(c)
    PROVE  PipelineInv' /\ Tells(c)
<1>0. began[c] > 0
  BY DEF LoseInquiry, BookTryout, CancelTryout, TryoutOutcome, MoveLead, CommitLead, Ends
<1>1. CASE LoseInquiry(c)
  <2>1. PICK l \in DOMAIN inquiry :
          AllowedFrom(l, "LOST") /\ MoveLead(c, l, "LOST", EndedTrials(c, BookedFor(l), "CANCELLED"))
    BY <1>1 DEF LoseInquiry, Visible
  <2>2. "LOST" \in LeadStatus /\ inquiry[l].status # "WON"
    BY <2>1, AllowedStatuses
  <2>3. MayKeep(c, l, [inquiry[l] EXCEPT !.status = "LOST"])
    BY <2>2, MayMove
  <2>4. BookedFor(l) \in SUBSET DOMAIN tryout /\ \A t \in BookedFor(l) : tryout[t].status = "BOOKED"
    BY DEF BookedFor
  <2>5. MayBook(c, l, EndedTrials(c, BookedFor(l), "CANCELLED"))
    BY <1>0, <2>4, MayEnd
  <2> QED  BY <2>1, <2>2, <2>3, <2>5, CommitLeadKeeps DEF MoveLead
<1>2. CASE BookTryout(c)
  <2>1. PICK l \in DOMAIN inquiry, t \in Tryouts \ DOMAIN tryout :
          /\ inquiry[l].status = "QUALIFIED" /\ BookedFor(l) = {}
          /\ MoveLead(c, l, "TRIAL_BOOKED",
               RowOf(t, [lead |-> l, status |-> "BOOKED", booked |-> began[c], done |-> 0, since |-> clock]))
    BY <1>2 DEF BookTryout, Visible
  <2>2. "TRIAL_BOOKED" \in LeadStatus
    BY DEF LeadStatus, LeadTransitions
  <2>3. MayKeep(c, l, [inquiry[l] EXCEPT !.status = "TRIAL_BOOKED"])
    BY <2>1, <2>2, MayMove
  <2> DEFINE row == [lead |-> l, status |-> "BOOKED", booked |-> began[c], done |-> 0, since |-> clock]
  <2>4. row \in TryoutRow
    BY DEF TryoutRow, PipelineInv, InquiryHolds
  <2>5. row.lead = l /\ row.status = "BOOKED" /\ row.booked = began[c] /\ row.done = 0 /\ row.since = clock
    OBVIOUS
  <2>6. MoveLead(c, l, "TRIAL_BOOKED", RowOf(t, row))
    BY <2>1
  <2> HIDE DEF row
  <2>7. DOMAIN RowOf(t, row) = {t} /\ RowOf(t, row)[t] = row
    BY DEF RowOf
  <2>8. IsFiniteSet({t})
    BY FS_Singleton
  <2>9. MayBook(c, l, RowOf(t, row))
    BY <2>1, <2>4, <2>5, <2>7, <2>8 DEF MayBook
  <2> QED  BY <2>2, <2>3, <2>6, <2>9, CommitLeadKeeps DEF MoveLead
<1>3. CASE CancelTryout(c)
  <2>1. PICK t \in Visible(c, tryout) :
          /\ tryout[t].status = "BOOKED"
          /\ MoveLead(c, tryout[t].lead,
                 IF inquiry[tryout[t].lead].status = "TRIAL_BOOKED" THEN "QUALIFIED" ELSE inquiry[tryout[t].lead].status,
                 EndedTrials(c, {t}, "CANCELLED"))
    BY <1>3 DEF CancelTryout
  <2> DEFINE l == tryout[t].lead
             to == IF inquiry[l].status = "TRIAL_BOOKED" THEN "QUALIFIED" ELSE inquiry[l].status
  <2>2. t \in DOMAIN tryout
    BY DEF Visible
  <2>3. l \in DOMAIN inquiry /\ inquiry[l].status \in LeadStatus
    BY <2>2 DEF PipelineInv, TryoutHolds, InquiryHolds, InquiryRow
  <2>4. to \in LeadStatus /\ ((to # "WON" /\ inquiry[l].status # "WON") \/ to = inquiry[l].status)
    BY <2>3 DEF LeadStatus, LeadTransitions
  <2>5. MoveLead(c, l, to, EndedTrials(c, {t}, "CANCELLED"))
    BY <2>1
  <2> HIDE DEF l, to
  <2>6. MayKeep(c, l, [inquiry[l] EXCEPT !.status = to])
    BY <2>3, <2>4, MayMove
  <2>7. MayBook(c, l, EndedTrials(c, {t}, "CANCELLED"))
    BY <1>0, <2>1, <2>2, MayEnd
  <2> QED  BY <2>4, <2>5, <2>6, <2>7, CommitLeadKeeps DEF MoveLead
<1>4. CASE TryoutOutcome(c)
  <2>1. PICK t \in Visible(c, tryout), to \in {"TRIAL_COMPLETED", "QUALIFIED", "LOST"}, result \in {"COMPLETED", "NO_SHOW"} :
          /\ tryout[t].status = "BOOKED"
          /\ AllowedFrom(tryout[t].lead, to)
          /\ MoveLead(c, tryout[t].lead, to, EndedTrials(c, {t}, result))
    BY <1>4 DEF TryoutOutcome
  <2> DEFINE l == tryout[t].lead
  <2>2. t \in DOMAIN tryout /\ tryout[t].since < began[c]
    BY DEF Visible
  <2>3. l \in DOMAIN inquiry
    BY <2>2 DEF PipelineInv, TryoutHolds
  <2>4. AllowedFrom(l, to) /\ MoveLead(c, l, to, EndedTrials(c, {t}, result))
    BY <2>1
  <2> HIDE DEF l
  <2>5. to \in LeadStatus /\ to # "WON" /\ inquiry[l].status # "WON"
    BY <2>3, <2>4, AllowedStatuses
  <2>6. MayKeep(c, l, [inquiry[l] EXCEPT !.status = to])
    BY <2>3, <2>5, MayMove
  <2>7. MayBook(c, l, EndedTrials(c, {t}, result))
    BY <1>0, <2>1, <2>2, MayEnd
  <2> QED  BY <2>4, <2>5, <2>6, <2>7, CommitLeadKeeps DEF MoveLead
<1> QED  BY <1>1, <1>2, <1>3, <1>4

LEMMA PipelineKeeps ==
    ASSUME PipelineInv, [PipelineNext]_pipelineVars
    PROVE  /\ PipelineInv'
           /\ UNCHANGED <<inquiry, leadEvents, tryout>> \/ \E c \in Writers : began[c] > 0 /\ Tells(c)
<1>1. ASSUME UNCHANGED <<inquiry, leadEvents, tryout>>,
             clock' \in Nat, began' \in [Writers -> Nat], \A d \in Writers : began'[d] <= clock'
      PROVE  PipelineInv'
  <2>1. \A l \in DOMAIN inquiry : InquiryHolds(l)'
    BY <1>1 DEF PipelineInv, InquiryHolds
  <2>2. \A t \in DOMAIN tryout : TryoutHolds(t)'
    BY <1>1 DEF PipelineInv, TryoutHolds
  <2> QED  BY <1>1, <2>1, <2>2 DEF PipelineInv, OneBooked
<1>2. ASSUME NEW c \in Writers, Begins(c), UNCHANGED <<inquiry, leadEvents, tryout>>
      PROVE  PipelineInv'
  BY <1>1, <1>2 DEF Begins, PipelineInv
<1>3. ASSUME NEW c \in Writers, Ends(c), UNCHANGED <<inquiry, leadEvents, tryout>>
      PROVE  PipelineInv'
  BY <1>1, <1>3 DEF Ends, PipelineInv
<1>4. CASE UNCHANGED pipelineVars
  BY <1>1, <1>4 DEF pipelineVars, timeline, PipelineInv
<1>5. ASSUME NEW c \in Writers,
             \/ CreateInquiry(c) \/ UpdateInquiry(c) \/ NoteInquiry(c) \/ SimpleMove(c) \/ WinInquiry(c)
             \/ LoseInquiry(c) \/ BookTryout(c) \/ CancelTryout(c) \/ TryoutOutcome(c)
      PROVE  PipelineInv' /\ Tells(c) /\ began[c] > 0
  <2>1. began[c] > 0
    BY <1>5 DEF CreateInquiry, UpdateInquiry, NoteInquiry, SimpleMove, WinInquiry, LoseInquiry, BookTryout,
                CancelTryout, TryoutOutcome, MoveLead, CommitLead, Ends
  <2> QED  BY <1>5, <2>1, LeadsKeep, TryoutsKeep
<1>6. CASE UNCHANGED <<inquiry, leadEvents, tryout>>
  <2>1. PipelineNext => \E c \in Writers : Begins(c) \/ Ends(c) \/ (PipelineInv' /\ Tells(c))
    BY <1>5 DEF PipelineNext
  <2> QED  BY <1>2, <1>3, <1>4, <1>6, <2>1
<1>7. CASE ~UNCHANGED <<inquiry, leadEvents, tryout>>
  <2>1. PipelineNext
    BY <1>7 DEF pipelineVars
  <2>2. PICK c \in Writers :
          \/ CreateInquiry(c) \/ UpdateInquiry(c) \/ NoteInquiry(c) \/ SimpleMove(c) \/ WinInquiry(c)
          \/ LoseInquiry(c) \/ BookTryout(c) \/ CancelTryout(c) \/ TryoutOutcome(c)
    BY <1>7, <2>1 DEF PipelineNext
  <2> QED  BY <1>5, <2>2
<1> QED  BY <1>6, <1>7

\* What was told of the time up to an instant stays, and what is added is of later.
ToldAfter(when) ==
    /\ \A l \in DOMAIN inquiry :
          /\ l \in DOMAIN inquiry' /\ inquiry'[l].created = inquiry[l].created
          /\ inquiry'[l].won = inquiry[l].won \/ (inquiry[l].won = 0 /\ when < inquiry'[l].won)
    /\ \A l \in DOMAIN inquiry' : l \in DOMAIN inquiry \/ when < inquiry'[l].created
    /\ leadEvents \subseteq leadEvents'
    /\ \A v \in leadEvents' : v \in leadEvents \/ when < v.at
    /\ \A x \in DOMAIN tryout :
          /\ x \in DOMAIN tryout'
          /\ tryout'[x].lead = tryout[x].lead /\ tryout'[x].booked = tryout[x].booked
          /\ \/ tryout'[x].status = tryout[x].status /\ tryout'[x].done = tryout[x].done
             \/ tryout[x].status = "BOOKED" /\ when < tryout'[x].done
    /\ \A x \in DOMAIN tryout' : x \in DOMAIN tryout \/ when < tryout'[x].booked

\* The report of a period that is over stands.
LEMMA PipelineStandsStep ==
    ASSUME PipelineInv, [PipelineNext]_pipelineVars,
           NEW from \in Instants, NEW to \in Instants, Settled(to)
    PROVE  /\ \A at \in LeadStatus : Stage(at, from, to)' = Stage(at, from, to)
           /\ Trials(from, to)' = Trials(from, to)
           /\ (\A l \in DOMAIN inquiry : inquiry'[l].branch = inquiry[l].branch) =>
                \A b \in Branches :
                    /\ BranchWon(b, from, to)' = BranchWon(b, from, to)
                    /\ BranchTrials(b, from, to)' = BranchTrials(b, from, to)
<1> from \in Nat /\ to \in Nat
  BY DEF Instants
<1>1. \A at \in Nat : /\ Covers(from, to, at) <=> from <= at /\ at <= to
                      /\ Until(to, at) <=> at <= to
  BY DEF Covers, AddDay, Until
<1>2. ToldAfter(to)
  <2>1. CASE UNCHANGED <<inquiry, leadEvents, tryout>>
    BY <2>1 DEF ToldAfter
  <2>2. ASSUME NEW c \in Writers, began[c] > 0, Tells(c)
        PROVE  ToldAfter(to)
    <3>1. to < began[c]
      BY <2>2 DEF Settled
    <3> QED  BY <2>2, <3>1 DEF Tells, ToldAfter
  <2> QED  BY <2>1, <2>2, PipelineKeeps
<1>3. PipelineInv /\ PipelineInv'
  BY PipelineKeeps
<1>4. /\ \A l \in DOMAIN inquiry : inquiry[l].created \in Nat /\ inquiry[l].won \in Nat
      /\ \A l \in DOMAIN inquiry' : inquiry'[l].created \in Nat /\ inquiry'[l].won \in Nat
      /\ \A v \in leadEvents' : v.at \in Nat
  BY <1>3 DEF PipelineInv, InquiryHolds, InquiryRow
<1>5. /\ \A t \in DOMAIN tryout : tryout[t].booked \in Nat /\ tryout[t].done \in Nat /\ tryout[t].lead \in DOMAIN inquiry
      /\ \A t \in DOMAIN tryout' : tryout'[t].booked \in Nat /\ tryout'[t].done \in Nat
  BY <1>3 DEF PipelineInv, TryoutHolds, TryoutRow
<1>6. CreatedIn(from, to)' = CreatedIn(from, to)
  BY <1>1, <1>2, <1>4 DEF ToldAfter, CreatedIn
<1>7. \A l : LeadEventsOf(l, to)' = LeadEventsOf(l, to)
  BY <1>1, <1>2, <1>4 DEF ToldAfter, LeadEventsOf
<1>8. ASSUME NEW l  PROVE LeadStatusAt(l, to)' = LeadStatusAt(l, to)
  <2> DEFINE now == LeadEventsOf(l, to)
             then == LeadEventsOf(l, to)'
  <2>1. now = then
    BY <1>7
  <2>2. /\ LeadStatusAt(l, to) = IF now = {} THEN "NEW" ELSE (CHOOSE v \in now : \A w \in now : w.at <= v.at).to
        /\ LeadStatusAt(l, to)' = IF then = {} THEN "NEW" ELSE (CHOOSE v \in then : \A w \in then : w.at <= v.at).to
    BY DEF LeadStatusAt
  <2> HIDE DEF now, then
  <2>3. CASE now = {}
    BY <2>1, <2>2, <2>3
  <2>4. CASE now # {}
    <3>1. /\ LeadStatusAt(l, to) = (CHOOSE v \in now : \A w \in now : w.at <= v.at).to
          /\ LeadStatusAt(l, to)' = (CHOOSE v \in then : \A w \in then : w.at <= v.at).to
      BY <2>1, <2>2, <2>4
    <3> QED  BY <2>1, <3>1, Zenon
  <2> QED  BY <2>3, <2>4
<1>9. \A at \in LeadStatus : Stage(at, from, to)' = Stage(at, from, to)
  BY <1>6, <1>8 DEF Stage
<1>10. CohortTrials(from, to)' = CohortTrials(from, to)
  BY <1>1, <1>2, <1>5, <1>6 DEF ToldAfter, CohortTrials
<1>11. ASSUME NEW t \in DOMAIN tryout
       PROVE  /\ EndedBy(t, to)' <=> EndedBy(t, to)
              /\ EndedBy(t, to) => tryout'[t].status = tryout[t].status
  BY <1>1, <1>2, <1>3, <1>5 DEF ToldAfter, EndedBy, PipelineInv, TryoutHolds
<1>12. CohortTrials(from, to) \subseteq DOMAIN tryout
  BY DEF CohortTrials
<1>13. /\ TrialsCompleted(from, to)' = TrialsCompleted(from, to)
       /\ TrialsNoShow(from, to)' = TrialsNoShow(from, to)
       /\ TrialsCancelled(from, to)' = TrialsCancelled(from, to)
       /\ TrialsBooked(from, to)' = TrialsBooked(from, to)
  BY <1>10, <1>11, <1>12 DEF TrialsCompleted, TrialsNoShow, TrialsCancelled, TrialsBooked
<1>14. Trials(from, to)' = Trials(from, to)
  BY <1>13 DEF Trials
<1>15. ASSUME \A l \in DOMAIN inquiry : inquiry'[l].branch = inquiry[l].branch, NEW b \in Branches
       PROVE  /\ BranchWon(b, from, to)' = BranchWon(b, from, to)
              /\ BranchTrials(b, from, to)' = BranchTrials(b, from, to)
  <2>1. OfBranch(b, from, to)' = OfBranch(b, from, to)
    <3>1. CreatedIn(from, to) \subseteq DOMAIN inquiry
      BY DEF CreatedIn
    <3> QED  BY <1>6, <1>15, <3>1 DEF OfBranch
  <2>2. OfBranch(b, from, to) \subseteq DOMAIN inquiry
    BY DEF OfBranch, CreatedIn
  <2>3. BranchWon(b, from, to)' = BranchWon(b, from, to)
    BY <1>1, <1>2, <1>4, <2>1, <2>2 DEF ToldAfter, BranchWon
  <2>4. \A t \in DOMAIN tryout : /\ tryout'[t].status = "COMPLETED" /\ Until(to, tryout'[t].done)
                                 <=> tryout[t].status = "COMPLETED" /\ Until(to, tryout[t].done)
    BY <1>1, <1>2, <1>5 DEF ToldAfter
  <2>5. \A t \in DOMAIN tryout' : /\ tryout'[t].status = "COMPLETED" /\ Until(to, tryout'[t].done) => t \in DOMAIN tryout
    <3>1. \A t \in DOMAIN tryout' : tryout'[t].status = "COMPLETED" => tryout'[t].booked <= tryout'[t].done
      BY <1>3 DEF PipelineInv, TryoutHolds
    <3> QED  BY <1>1, <1>2, <1>5, <3>1 DEF ToldAfter
  <2>6. BranchTrials(b, from, to)' = BranchTrials(b, from, to)
    BY <1>2, <2>1, <2>4, <2>5 DEF ToldAfter, BranchTrials
  <2> QED  BY <2>3, <2>6
<1> QED  BY <1>9, <1>14, <1>15

\* The two reports tell of the same leads and trials, and count each once.
LEMMA BranchesAgree == PipelineInv => BranchesTellPipeline
<1> SUFFICES ASSUME PipelineInv, NEW to \in Instants, NEW from \in 1 .. to
             PROVE  /\ CreatedIn(from, to) = UNION {OfBranch(b, from, to) : b \in Branches}
                    /\ TrialsCompleted(from, to) = UNION {BranchTrials(b, from, to) : b \in Branches}
                    /\ Cardinality(TrialsBooked(from, to)) + Cardinality(TrialsCompleted(from, to))
                         + Cardinality(TrialsNoShow(from, to)) + Cardinality(TrialsCancelled(from, to))
                       = Cardinality(CohortTrials(from, to))
  BY DEF BranchesTellPipeline
<1> from \in Nat /\ to \in Nat
  BY DEF Instants
<1>1. \A at \in Nat : Until(to, at) <=> at <= to
  BY DEF AddDay, Until
<1>2. \A l \in CreatedIn(from, to) : inquiry[l].branch \in Branches
  BY DEF CreatedIn, PipelineInv, InquiryHolds, InquiryRow
<1>3. CreatedIn(from, to) = UNION {OfBranch(b, from, to) : b \in Branches}
  BY <1>2 DEF OfBranch
<1>4. \A t \in DOMAIN tryout : /\ tryout[t].booked \in Nat /\ tryout[t].done \in Nat
                               /\ tryout[t].status \in {"BOOKED", "COMPLETED", "NO_SHOW", "CANCELLED"}
                               /\ tryout[t].status = "COMPLETED" => tryout[t].booked <= tryout[t].done
  BY DEF PipelineInv, TryoutHolds, TryoutRow
<1>5. ASSUME NEW t
      PROVE  t \in TrialsCompleted(from, to) <=> t \in UNION {BranchTrials(b, from, to) : b \in Branches}
  <2>1. t \in TrialsCompleted(from, to) <=>
          /\ t \in DOMAIN tryout /\ Until(to, tryout[t].booked) /\ tryout[t].lead \in CreatedIn(from, to)
          /\ Until(to, tryout[t].done) /\ tryout[t].status = "COMPLETED"
    BY DEF TrialsCompleted, CohortTrials, EndedBy
  <2>2. t \in UNION {BranchTrials(b, from, to) : b \in Branches} <=>
          /\ t \in DOMAIN tryout /\ tryout[t].lead \in CreatedIn(from, to)
          /\ Until(to, tryout[t].done) /\ tryout[t].status = "COMPLETED"
    BY <1>2 DEF BranchTrials, OfBranch
  <2> QED  BY <1>1, <1>4, <2>1, <2>2
<1>6. TrialsCompleted(from, to) = UNION {BranchTrials(b, from, to) : b \in Branches}
  BY <1>5
<1> DEFINE A == TrialsBooked(from, to)
           B == TrialsCompleted(from, to)
           C == TrialsNoShow(from, to)
           D == TrialsCancelled(from, to)
           All == CohortTrials(from, to)
<1>7. IsFiniteSet(All)
  BY FS_Subset DEF CohortTrials, PipelineInv
<1>8. /\ All = A \cup B \cup C \cup D
      /\ A \cap B = {} /\ (A \cup B) \cap C = {} /\ (A \cup B \cup C) \cap D = {}
  BY <1>4 DEF CohortTrials, TrialsBooked, TrialsCompleted, TrialsNoShow, TrialsCancelled, EndedBy
<1> HIDE DEF A, B, C, D, All
<1>9. /\ IsFiniteSet(A) /\ IsFiniteSet(B) /\ IsFiniteSet(C) /\ IsFiniteSet(D)
      /\ IsFiniteSet(A \cup B) /\ IsFiniteSet(A \cup B \cup C)
  BY <1>7, <1>8, FS_Subset
<1>10. Cardinality(A \cup B) = Cardinality(A) + Cardinality(B)
  <2>1. Cardinality(A \cup B) = Cardinality(A) + Cardinality(B) - Cardinality(A \cap B)
    BY <1>9, FS_Union
  <2>2. Cardinality(A \cap B) = 0
    BY <1>8, FS_EmptySet
  <2> QED  BY <1>8, <1>9, <2>1, <2>2, FS_CardinalityType
<1>11. Cardinality(A \cup B \cup C) = Cardinality(A \cup B) + Cardinality(C)
  <2>1. Cardinality((A \cup B) \cup C) = Cardinality(A \cup B) + Cardinality(C) - Cardinality((A \cup B) \cap C)
    BY <1>9, FS_Union
  <2>2. Cardinality((A \cup B) \cap C) = 0
    BY <1>8, FS_EmptySet
  <2> QED  BY <1>8, <1>9, <2>1, <2>2, FS_CardinalityType
<1>12. Cardinality(All) = Cardinality(A \cup B \cup C) + Cardinality(D)
  <2>1. Cardinality((A \cup B \cup C) \cup D) = Cardinality(A \cup B \cup C) + Cardinality(D) - Cardinality((A \cup B \cup C) \cap D)
    BY <1>9, FS_Union
  <2>2. Cardinality((A \cup B \cup C) \cap D) = 0
    BY <1>8, FS_EmptySet
  <2> QED  BY <1>8, <1>9, <2>1, <2>2, FS_CardinalityType
<1>13. Cardinality(A) + Cardinality(B) + Cardinality(C) + Cardinality(D) = Cardinality(All)
  BY <1>9, <1>10, <1>11, <1>12, FS_CardinalityType
<1> QED  BY <1>3, <1>6, <1>13 DEF A, B, C, D, All

\* A lead is won exactly when it says when and waits for one trial at most; the
\* CRM report and the branch summary agree, and what they tell of a period that
\* is over stands.
THEOREM PipelineStaysSafe == PipelineSpec => PipelineSafe
<1>1. PipelineInv => PipelineTypeOK
  <2> SUFFICES ASSUME PipelineInv  PROVE PipelineTypeOK
    OBVIOUS
  <2>1. \A l \in DOMAIN inquiry : inquiry[l].status \in LeadStatus /\ ((inquiry[l].status = "WON") = (inquiry[l].won # 0))
    BY DEF PipelineInv, InquiryHolds, InquiryRow
  <2>2. \A t \in DOMAIN tryout : (tryout[t].status = "BOOKED") = (tryout[t].done = 0)
    BY DEF PipelineInv, TryoutHolds
  <2>3. \A t, u \in DOMAIN tryout :
          (tryout[t].lead = tryout[u].lead /\ {tryout[t].status, tryout[u].status} = {"BOOKED"}) => t = u
    BY DEF PipelineInv, OneBooked
  <2> QED  BY <2>1, <2>2, <2>3 DEF PipelineTypeOK, PipelineInv
<1>2. PipelineInv /\ [PipelineNext]_pipelineVars =>
        /\ PipelineInv'
        /\ [\A from, to \in Instants : <<from, to>> \in Periods /\ Settled(to) =>
              /\ \A status \in LeadStatus : Stage(status, from, to)' = Stage(status, from, to)
              /\ Trials(from, to)' = Trials(from, to)
              /\ (\A l \in DOMAIN inquiry : inquiry'[l].branch = inquiry[l].branch) =>
                   \A b \in Branches :
                       /\ BranchWon(b, from, to)' = BranchWon(b, from, to)
                       /\ BranchTrials(b, from, to)' = BranchTrials(b, from, to)]_pipelineVars
  BY PipelineKeeps, PipelineStandsStep
<1> QED  BY <1>1, <1>2, PipelineBegins, BranchesAgree, PTL DEF PipelineSpec, PipelineSafe, PipelineStands

=============================================================================
