------------------------------ MODULE MCPeople ------------------------------
(***************************************************************************)
(* Instances of Crm, Portal and Progress.  A behaviour is one of the       *)
(* component that `part` names, so that one run checks them all.           *)
(***************************************************************************)
EXTENDS Crm, Portal, Progress, TLC

CONSTANTS Parts, s1, s2, A, B

VARIABLE part

peopleVars == <<crmVars, portalVars, progressVars, part>>

PeopleInit == part \in Parts /\ CrmInit /\ PortalInit /\ ProgressInit

PeopleNext ==
    \/ /\ part = "crm" /\ CrmNext /\ UNCHANGED <<portalVars, progressVars, part>>
       /\ (\A l \in Leads : leads'[l].status # "none") =>
            Len(trials') <= 1 /\ Cardinality({k \in Clerks : clerk'[k] # Idle}) <= 1
    \/ part = "invitations" /\ (InvitationStep \/ AccessStep) /\ UNCHANGED <<crmVars, progressVars, part>>
    \/ /\ part = "portal" /\ PortalNext /\ UNCHANGED <<crmVars, progressVars, part>>
       /\ Cardinality({h \in Handlers : handler'[h] # NoOne}) <= 1
    \/ part = "assessments" /\ AssessmentStep /\ UNCHANGED <<crmVars, portalVars, part>>
    \/ /\ part = "reports" /\ ProgressNext /\ UNCHANGED <<crmVars, portalVars, part>>
       /\ \A a \in Assessments : assessments'[a].max <= 1 /\ \A g \in Gradees : results'[a][g].score = NoScore

PeopleSpec == PeopleInit /\ [][PeopleNext]_peopleVars

MCTrialClassOf == (s1 :> A) @@ (s2 :> B)

\* The parts share model values (a clerk and a handler, a lead and an address,
\* a prospect and a graded student), which keeps the permutations few.
Symmetry == Permutations(Clerks) \cup Permutations(Leads) \cup Permutations(Prospects)
=============================================================================
