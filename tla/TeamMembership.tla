--------------------------- MODULE TeamMembership ---------------------------
(***************************************************************************)
(* TeamService: the members and invitations of one tenant, kept in the     *)
(* control database.  Requests run on separate connections as READ         *)
(* COMMITTED transactions.                                                 *)
(*                                                                         *)
(* A team command (change a role, enable or disable, remove) checks its    *)
(* actor before its transaction, takes the tenant's advisory lock, reads   *)
(* its target, makes sure that another active owner remains if the target  *)
(* is one, writes and commits.  An invitation is issued or resent by       *)
(* revoking the open ones of its address and inserting a new one.  Its     *)
(* acceptance upserts the membership, then consumes the invitation, and    *)
(* takes no advisory lock.                                                 *)
(*                                                                         *)
(* A transaction's last write and its commit are one action: after that    *)
(* write it waits for nothing, so what others see and wait for is the      *)
(* same.  A user and the address invitations are sent to are one identity. *)
(***************************************************************************)
EXTENDS Integers, FiniteSets

CONSTANTS
    Users,        \* people, by e-mail address
    Founder,      \* the owner the tenant was provisioned with
    Accounts,     \* who has a user account before this tenant invites anybody
    Roles,
    Managing,     \* the roles with the permission team.manage
    OWNER,
    NewOwners,    \* whom the operator may make an owner from the command line
    Invitations,  \* identities of invitation rows; bounds how many are issued
    Connections,
    Requests,     \* what clients ask for
    Nobody, Unissued, NoRequest

TeamCommand ==
    [op : {"changeRole"}, actor : Users, user : Users, role : Roles]
        \cup [op : {"setStatus"}, actor : Users, user : Users, status : {"ACTIVE", "DISABLED"}]
        \cup [op : {"remove"}, actor : Users, user : Users]

Issue ==
    [op : {"invite"}, actor : Users, user : Users, role : Roles]
        \cup [op : {"resend"}, actor : Users, invitation : Invitations]

Acceptance ==
    [op : {"acceptNew", "acceptExisting"}, user : Users, invitation : Invitations]

Member == [role : Roles, status : {"ACTIVE", "DISABLED"}]

Invitation == [user : Users, role : Roles, accepted : BOOLEAN, revoked : BOOLEAN, expired : BOOLEAN]

ASSUME TeamAssumption ==
    /\ Founder \in Accounts
    /\ Accounts \subseteq Users
    /\ NewOwners \subseteq Users
    /\ OWNER \in Managing
    /\ Managing \subseteq Roles
    /\ Requests \subseteq TeamCommand \cup Issue \cup Acceptance
    /\ Nobody \notin Member
    /\ Unissued \notin Invitation
    /\ NoRequest \notin Requests

VARIABLES
    members,      \* tenant_memberships by user
    accounts,     \* users
    invitations,  \* tenant_invitations by id
    request,      \* the request a connection serves, or NoRequest
    pc,           \* how far it got: see the actions
    seen,         \* the open invitations its revoking UPDATE found
    overwritten   \* history: an acceptance took an active owner's role away

rows == <<members, accounts, invitations>>
service == <<request, pc, seen>>
vars == <<rows, service, overwritten>>

Init ==
    /\ members = [u \in Users |-> IF u = Founder THEN [role |-> OWNER, status |-> "ACTIVE"] ELSE Nobody]
    /\ accounts = Accounts
    /\ invitations = [i \in Invitations |-> Unissued]
    /\ request = [p \in Connections |-> NoRequest]
    /\ pc = [p \in Connections |-> "idle"]
    /\ seen = [p \in Connections |-> {}]
    /\ overwritten = FALSE

IsActive(u) == members[u] # Nobody /\ members[u].status = "ACTIVE"
ActiveOwners == {u \in Users : IsActive(u) /\ members[u].role = OWNER}
CanManage(u) == IsActive(u) /\ members[u].role \in Managing

Issued == {i \in Invitations : invitations[i] # Unissued}
Open(i) == i \in Issued /\ ~invitations[i].accepted /\ ~invitations[i].revoked
Acceptable(i) == Open(i) /\ ~invitations[i].expired

\* The transaction-scoped advisory lock of the tenant is held from the read
\* of the target to the end; a membership row from its upsert to the end.
HoldsTeam(p) == pc[p] \in {"asserting", "updating"}

\* Fault: the lock is not taken.
NotLocked == TRUE

TeamFree == \A p \in Connections : ~HoldsTeam(p)
RowFree(u) == \A p \in Connections : pc[p] = "joining" => request[p].user # u

-----------------------------------------------------------------------------
Goto(p, step) ==
    /\ pc' = [pc EXCEPT ![p] = step]
    /\ UNCHANGED <<request, seen>>

End(p) ==
    /\ pc' = [pc EXCEPT ![p] = "idle"]
    /\ request' = [request EXCEPT ![p] = NoRequest]
    /\ seen' = [seen EXCEPT ![p] = {}]

\* Fault: a refusal is answered without ending the transaction.
AnswerOnly(p) ==
    UNCHANGED <<rows, service, overwritten>>

Refuse(p) ==
    /\ End(p)
    /\ UNCHANGED <<rows, overwritten>>

\* Bounds the rows that may be issued.
RoomToIssue ==
    Cardinality(Issued) + Cardinality({p \in Connections : pc[p] # "idle" /\ request[p].op \in {"invite", "resend"}})
        < Cardinality(Invitations)

MayStart(r) ==
    /\ CanManage(r.actor)
    /\ r.op = "changeRole" => (r.role = OWNER => members[r.actor].role = OWNER)

\* assertCanManage, before the transaction.
StartCommand(p, r) ==
    /\ r.op \in {"invite", "resend", "changeRole", "setStatus", "remove"}
    /\ pc[p] = "idle"
    /\ r.op \in {"invite", "resend"} => RoomToIssue
    /\ MayStart(r)
    /\ request' = [request EXCEPT ![p] = r]
    /\ pc' = [pc EXCEPT ![p] = "checked"]
    /\ UNCHANGED <<rows, seen, overwritten>>

-----------------------------------------------------------------------------
(* Issuing and resending an invitation. *)

\* Members are not invited; checked outside the transaction.
VetInvitee(p) ==
    /\ pc[p] = "checked"
    /\ request[p].op = "invite"
    /\ IF IsActive(request[p].user)
       THEN Refuse(p)
       ELSE Goto(p, "vetted") /\ UNCHANGED <<rows, overwritten>>

\* The invitation to replace, read outside the transaction.
ReadInvitation(p) ==
    /\ pc[p] = "checked"
    /\ request[p].op = "resend"
    /\ IF Open(request[p].invitation)
       THEN Goto(p, "vetted") /\ UNCHANGED <<rows, overwritten>>
       ELSE Refuse(p)

\* What the new invitation offers, and to whom.
Offer(p) ==
    LET r == request[p]
        i == invitations[r.invitation]
    IN IF r.op = "invite" THEN [user |-> r.user, role |-> r.role] ELSE [user |-> i.user, role |-> i.role]

\* updateMany, in two parts: the snapshot that finds the open invitations...
FindOpen(p) ==
    /\ pc[p] = "vetted"
    /\ seen' = [seen EXCEPT ![p] = {i \in Issued : Open(i) /\ invitations[i].user = Offer(p).user}]
    /\ pc' = [pc EXCEPT ![p] = "revoking"]
    /\ UNCHANGED <<rows, request, overwritten>>

\* Fault: revokes by the ids it read.
RevokesFound(p, i) == i \in seen[p]

\* ...and the update of those that are still open when their rows are locked.
Revokes(p, i) == i \in seen[p] /\ Open(i)

CommitInvitation(p) ==
    /\ pc[p] = "revoking"
    /\ \E new \in Invitations \ Issued :
         invitations' =
             [i \in Invitations |->
                 IF i = new
                 THEN [user |-> Offer(p).user, role |-> Offer(p).role,
                       accepted |-> FALSE, revoked |-> FALSE, expired |-> FALSE]
                 ELSE IF Revokes(p, i)
                 THEN [invitations[i] EXCEPT !.revoked = TRUE]
                 ELSE invitations[i]]
    /\ End(p)
    /\ UNCHANGED <<members, accounts, overwritten>>

-----------------------------------------------------------------------------
(* Accepting an invitation. *)

\* Reads the invitation and the account before the transaction.  acceptNew
\* creates the account; acceptExisting is a signed-in user's.
StartAcceptance(p, r) ==
    /\ r.op \in {"acceptNew", "acceptExisting"}
    /\ pc[p] = "idle"
    /\ Acceptable(r.invitation)
    /\ invitations[r.invitation].user = r.user
    /\ (r.op = "acceptExisting") = (r.user \in accounts)
    /\ request' = [request EXCEPT ![p] = r]
    /\ pc' = [pc EXCEPT ![p] = "accepting"]
    /\ UNCHANGED <<rows, seen, overwritten>>

\* The account is inserted if it is new, and the membership upserted; both
\* wait for another transaction on the same user.
Upsert(p) ==
    /\ pc[p] = "accepting"
    /\ RowFree(request[p].user)
    /\ IF request[p].op = "acceptNew" /\ request[p].user \in accounts
       THEN Refuse(p)
       ELSE Goto(p, "joining") /\ UNCHANGED <<rows, overwritten>>

\* Fault: the count of consumed rows is not looked at.
ConsumesUnchecked(p) == TRUE

\* consumed.count = 1
Consumes(p) == Acceptable(request[p].invitation)

CommitAcceptance(p) ==
    /\ pc[p] = "joining"
    /\ LET u == request[p].user
           i == request[p].invitation
       IN IF Consumes(p)
          THEN /\ members' = [members EXCEPT ![u] = [role |-> invitations[i].role, status |-> "ACTIVE"]]
               /\ accounts' = accounts \cup {u}
               /\ invitations' = [invitations EXCEPT ![i].accepted = TRUE]
               /\ overwritten' = (overwritten \/ (u \in ActiveOwners /\ invitations[i].role # OWNER))
               /\ End(p)
          ELSE Refuse(p)

-----------------------------------------------------------------------------
(* Team commands. *)

\* Fault: an owner may be disabled without a look at the others.
MustAssertUnlessDisabling(r) ==
    CASE r.op = "changeRole" -> members[r.user].role = OWNER /\ r.role # OWNER
      [] r.op = "setStatus"  -> FALSE
      [] r.op = "remove"     -> r.user \in ActiveOwners

\* The commands that must not take the last owner away, by the target as read.
MustAssert(r) ==
    CASE r.op = "changeRole" -> members[r.user].role = OWNER /\ r.role # OWNER
      [] r.op = "setStatus"  -> r.user \in ActiveOwners /\ r.status # "ACTIVE"
      [] r.op = "remove"     -> r.user \in ActiveOwners

\* Waits for the advisory lock, then reads the target.
LockTenantMemberships(p) ==
    /\ pc[p] = "checked"
    /\ request[p].op \in {"changeRole", "setStatus", "remove"}
    /\ TeamFree
    /\ IF members[request[p].user] = Nobody
       THEN Refuse(p)
       ELSE /\ Goto(p, IF MustAssert(request[p]) THEN "asserting" ELSE "updating")
            /\ UNCHANGED <<rows, overwritten>>

AssertOwnerRemains(p) ==
    /\ pc[p] = "asserting"
    /\ IF ActiveOwners \ {request[p].user} = {}
       THEN Refuse(p)
       ELSE Goto(p, "updating") /\ UNCHANGED <<rows, overwritten>>

\* UPDATE or DELETE of the target, once no acceptance holds its row; a row that
\* is gone is an error.
Updated(r) ==
    CASE r.op = "changeRole" -> [members[r.user] EXCEPT !.role = r.role]
      [] r.op = "setStatus"  -> [members[r.user] EXCEPT !.status = r.status]
      [] r.op = "remove"     -> Nobody

CommitTeamCommand(p) ==
    /\ pc[p] = "updating"
    /\ RowFree(request[p].user)
    /\ IF members[request[p].user] = Nobody
       THEN Refuse(p)
       ELSE /\ members' = [members EXCEPT ![request[p].user] = Updated(request[p])]
            /\ End(p)
            /\ UNCHANGED <<accounts, invitations, overwritten>>

-----------------------------------------------------------------------------
\* The operator's command db:create-owner.
CreateOwner(u) ==
    /\ RowFree(u)
    /\ members' = [members EXCEPT ![u] = [role |-> OWNER, status |-> "ACTIVE"]]
    /\ accounts' = accounts \cup {u}
    /\ UNCHANGED <<invitations, service, overwritten>>

\* 48 hours pass.
Expire(i) ==
    /\ Open(i)
    /\ ~invitations[i].expired
    /\ invitations' = [invitations EXCEPT ![i].expired = TRUE]
    /\ UNCHANGED <<members, accounts, service, overwritten>>

\* An error, a transaction timeout, a lost connection or the process's end.
Rollback(p) ==
    /\ pc[p] # "idle"
    /\ Refuse(p)

Step(p) ==
    \/ VetInvitee(p)
    \/ ReadInvitation(p)
    \/ FindOpen(p)
    \/ CommitInvitation(p)
    \/ Upsert(p)
    \/ CommitAcceptance(p)
    \/ LockTenantMemberships(p)
    \/ AssertOwnerRemains(p)
    \/ CommitTeamCommand(p)

Next ==
    \/ \E p \in Connections :
         \/ \E r \in Requests : StartCommand(p, r) \/ StartAcceptance(p, r)
         \/ Step(p)
         \/ Rollback(p)
    \/ \E u \in NewOwners : CreateOwner(u)
    \/ \E i \in Invitations : Expire(i)

Spec == Init /\ [][Next]_vars

\* PostgreSQL serves the waiters for a lock in turn.
FairSpec == Spec /\ \A p \in Connections : SF_vars(Step(p))

-----------------------------------------------------------------------------
(* Properties. *)

\* What the step of a connection says of its request.
AtStep(p) ==
    /\ pc[p] = "idle" <=> request[p] = NoRequest
    /\ HoldsTeam(p) => request[p] \in TeamCommand /\ members[request[p].user] # Nobody
    /\ pc[p] \in {"vetted", "revoking"} => request[p] \in Issue
    /\ pc[p] \in {"vetted", "revoking"} /\ request[p].op = "resend" => request[p].invitation \in Issued
    /\ pc[p] \in {"accepting", "joining"} =>
         /\ request[p] \in Acceptance
         /\ request[p].invitation \in Issued
         /\ invitations[request[p].invitation].user = request[p].user

\* Rows have their types, a request its step: a team command past its lock
\* names a member, and an acceptance an invitation of its user.
TypeOK ==
    /\ members \in [Users -> Member \cup {Nobody}]
    /\ accounts \in SUBSET Users
    /\ invitations \in [Invitations -> Invitation \cup {Unissued}]
    /\ request \in [Connections -> Requests \cup {NoRequest}]
    /\ pc \in [Connections -> {"idle", "checked", "vetted", "revoking", "accepting", "joining", "asserting", "updating"}]
    /\ seen \in [Connections -> SUBSET Issued]
    /\ overwritten \in BOOLEAN
    /\ \A p \in Connections : AtStep(p)

\* Every tenant retains an active owner: demotions, disablements and removals
\* that overlap, of owners by one another, always leave one.  Only if some
\* acceptance rewrote the role of an active owner does that fail.
OwnerUnlessOverwritten == ActiveOwners # {} \/ overwritten

\* "Every tenant must retain at least one active OWNER."
AlwaysAnOwner == ActiveOwners # {}

\* An invitation is accepted or revoked but not both, however an acceptance,
\* a resend and a second invitation overlap.
AcceptedOrRevoked ==
    \A i \in Issued : ~(invitations[i].accepted /\ invitations[i].revoked)


\* An owner remains and invitations are settled once, whatever overlaps.
TeamSafe == TypeOK /\ OwnerUnlessOverwritten /\ AcceptedOrRevoked

\* A membership is written only by a team command under the tenant's lock, by
\* spending an invitation that is open, unexpired and addressed to the user
\* for the role it offers, or by the operator who makes the user an owner.
MembershipsAreGranted ==
    [][\A u \in Users : members'[u] # members[u] =>
         \/ \E p \in Connections : HoldsTeam(p) /\ request[p].user = u
         \/ \E i \in Invitations :
              /\ Acceptable(i) /\ invitations'[i].accepted
              /\ invitations[i].user = u /\ members'[u].role = invitations[i].role
         \/ members'[u] = [role |-> OWNER, status |-> "ACTIVE"] /\ UNCHANGED invitations]_vars

\* A lock is never kept by a request that will not end, and requests never
\* wait for one another in a circle: every request ends.
RequestsEnd == \A p \in Connections : pc[p] # "idle" ~> pc[p] = "idle"

=============================================================================
