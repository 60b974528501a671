------------------------- MODULE MCTeamMembership -------------------------
(* Instances of TeamMembership for TLC; `part` says which requests come. *)
EXTENDS TeamMembership, TLC

CONSTANTS Parts, ADMIN, TEACHER, Guest

VARIABLE part

\* Commands only: two of the roles manage the team, and members act on one another;
\* the guest acts on everybody and is only removed.
TeamRequests ==
    {r \in TeamCommand :
        /\ r.op = "changeRole" => r.user # r.actor /\ r.role # TEACHER
        /\ r.user = Guest => r.op = "remove"}

\* The founder invites another, who accepts; they manage one another.
InvitationRequests ==
    {r \in TeamCommand :
        /\ r.actor # r.user /\ Guest \notin {r.actor, r.user}
        /\ r.op = "changeRole" => r.actor = Founder /\ r.role # ADMIN}
    \cup {r \in Issue : r.actor = Founder /\ (r.op = "invite" => r.user \notin {Founder, Guest} /\ r.role = TEACHER)}
    \cup {r \in Acceptance : r.user # Guest}

\* Every request, of those who are no guests, with a role that manages and one that does not.
AllRequests ==
    {r \in TeamCommand : Guest \notin {r.actor, r.user} /\ (r.op = "changeRole" => r.role # ADMIN)}
    \cup {r \in Issue : r.actor # Guest /\ (r.op = "invite" => r.user # Guest /\ r.role # ADMIN)}
    \cup {r \in Acceptance : r.user # Guest}

RunRequests == TeamRequests \cup InvitationRequests

\* What a part asks for, and whom the operator makes an owner in it.
Asked == [commands |-> TeamRequests, invitations |-> InvitationRequests, everything |-> AllRequests]
OperatorMakes == [commands |-> Users, invitations |-> Users \ {Founder, Guest}, everything |-> {}]

RunInit == part \in Parts /\ Init

RunNext ==
    /\ Next /\ UNCHANGED part
    /\ \A p \in Connections : request'[p] \in Asked[part] \cup {NoRequest}
    /\ \A u \in Users \ OperatorMakes[part] : members'[u] # members[u] => request' # request

RunSpec == RunInit /\ [][RunNext]_<<vars, part>> /\ \A p \in Connections : SF_vars(Step(p))
=============================================================================
