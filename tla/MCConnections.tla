---------------------------- MODULE MCConnections ----------------------------
(***************************************************************************)
(* Instances of TenantPools and Delivery, the two components that share    *)
(* connections out, and of Notices, which decides what is delivered.  A    *)
(* behaviour is one of the component that `part` names, so that one run    *)
(* checks them all.                                                        *)
(***************************************************************************)
EXTENDS TenantPools, Delivery, Notices, TLC

CONSTANTS Parts, r1, t3, k1, k2, x1, x2, p1, p2, g1, g2, lead, m1, m2

VARIABLE part

connectionVars == <<vars, deliveryVars, noticeVars, part>>

\* A part that does not run has one initial state.
ConnectionsInit ==
    /\ part \in Parts /\ Init /\ DeliveryInit /\ NoticesInit
    /\ part # "notices" => family = CHOOSE f \in Families : TRUE

\* The third tenant, whose arrival makes the manager choose among idle pools, is
\* asked for by one of the two request slots only.
ConnectionsNext ==
    \/ part = "pools" /\ Next /\ tenant'[r1] # t3 /\ UNCHANGED <<deliveryVars, noticeVars, part>>
    \/ part = "delivery" /\ DeliveryNext /\ UNCHANGED <<vars, noticeVars, part>>
    \/ part = "notices" /\ NoticesNext /\ UNCHANGED <<vars, deliveryVars, part>>

Delivering(A) == part = "delivery" /\ A /\ UNCHANGED <<vars, noticeVars, part>>

\* What the event loop and the database do for a command that has begun.
AttemptsEnd ==
    /\ \A c \in Commands : WF_connectionVars(Delivering(Begin(c) \/ Progress(c)))
    /\ \A who \in Commands \cup Clicks, m \in Mail :
        WF_connectionVars(Delivering(\E a \in attempt : a.of = who /\ a.message = m /\ AttemptStep(a)))

ConnectionsSpec ==
    ConnectionsInit /\ [][ConnectionsNext]_connectionVars /\ Fairness /\ AttemptsEnd

\* Deliveries: a pool of two clients, and two commands.
MCOutbox == (k1 :> {x1}) @@ (k2 :> {x2})

\* Families: two students, with every way two guardians may be theirs, and
\* mailboxes of one's own, shared or missing.
MCLinks ==
    {{}, {[guardian |-> g1, primary |-> TRUE, billing |-> FALSE]},
     {[guardian |-> g1, primary |-> TRUE, billing |-> FALSE], [guardian |-> g2, primary |-> FALSE, billing |-> TRUE]},
     {[guardian |-> g2, primary |-> TRUE, billing |-> TRUE], [guardian |-> g1, primary |-> FALSE, billing |-> FALSE]}}
MCMail ==
    {[p \in People |-> IF p = g1 THEN m ELSE IF p = p2 THEN NoMail ELSE m1] : m \in {m1, m2}}
MCFamily(l, k, mail) ==
    [links |-> [p \in Students |-> IF p = p1 THEN l ELSE k], mail |-> mail, roster |-> Students, absent |-> {p2},
     trial |-> [guardian |-> IF l = {} THEN NoPerson ELSE g1, student |-> NoPerson, lead |-> lead]]
MCFamilies ==
    {MCFamily(l, {}, mail) : l \in MCLinks, mail \in MCMail}
    \cup {MCFamily(l, k, mail) : l \in {j \in MCLinks : Cardinality(j) = 1}, k \in {j \in MCLinks : Cardinality(j) = 1}, mail \in MCMail}
MCEvents ==
    {[event |-> "TUITION_OVERDUE", source |-> p1, scope |-> "default"],
     [event |-> "ENROLLMENT_EXPIRING", source |-> p1, scope |-> "default"],
     [event |-> "ATTENDANCE_ABSENCE", source |-> "session", scope |-> "default"],
     [event |-> "TRIAL_REMINDER", source |-> "trial", scope |-> "default"],
     [event |-> "SCHEDULE_CHANGED", source |-> "session", scope |-> "default"]}
=============================================================================
