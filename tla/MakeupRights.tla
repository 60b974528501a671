---------------------------- MODULE MakeupRights ----------------------------
(***************************************************************************)
(* What attendance promises for an excused absence: one lesson to make up. *)
(* The right is open, taken by one booking, or spent.  A booking may be    *)
(* given back; a lesson attended is never attended again on the same right.*)
(***************************************************************************)
CONSTANT Absences

VARIABLE right

RightsInit == right = [a \in Absences |-> "open"]

Take(a) == right[a] = "open" /\ right' = [right EXCEPT ![a] = "taken"]

\* One event may settle several rights: a session is finalised or cancelled.
Settle ==
    \E taken \in SUBSET {a \in Absences : right[a] = "taken"} :
        right' \in {next \in [Absences -> {"open", "taken", "spent"}] :
                        \A a \in Absences : a \notin taken => next[a] = right[a]}

RightsNext == Settle \/ \E a \in Absences : Take(a)

RightsSpec == RightsInit /\ [][RightsNext]_right
=============================================================================
