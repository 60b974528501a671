---------------------------- MODULE MCFrontOffice ----------------------------
(***************************************************************************)
(* Instances of the web client's pages, LeadPage, CashDesk and Workbench,  *)
(* of the CRM report, Pipeline, and of the rows of an import, ImportRows.  *)
(* A behaviour is one of the component that `part` names, so that one run  *)
(* checks them all.                                                        *)
(***************************************************************************)
EXTENDS LeadPage, CashDesk, Workbench, Pipeline, ImportRows, TLC

CONSTANT Parts

VARIABLE part

pageVars == <<leadPageVars, cashDeskVars, workbenchVars>>
reportVars == <<pipelineVars, directoryVars>>
officeVars == <<pageVars, reportVars, part>>

\* A part that does not run has one initial state.
OfficeInit ==
    /\ part \in Parts /\ LeadPageInit /\ CashDeskInit /\ WorkbenchInit /\ PipelineInit /\ DirectoryInit
    /\ IF part = "lead" THEN file.contact = (people = 1) ELSE file.contact /\ people = 0
    /\ part # "workbench" => entry = NewEnrollment
    /\ part # "cash desk" => \A k \in Cashiers : desk[k].page = "payments"

\* Bound of LeadPage: two dialogs are open at once only to convert.
OneOtherDialog ==
    \A s, t \in Salespeople :
        s # t /\ Closed \notin {form[s], form[t]} => {form[s].op, form[t].op} = {"convert"}

\* Bound of CashDesk: two entries, and one cashier who comes back to a page.
ShortShift ==
    /\ \A k, c \in Cashiers : k # c => desk[k].entry + desk[c].entry <= 2
    /\ \A k, c \in Cashiers : k # c => desk[k].opening + desk[c].opening <= 3

OfficeNext ==
    \/ part = "lead" /\ LeadPageNext /\ OneOtherDialog' /\ UNCHANGED <<cashDeskVars, workbenchVars, reportVars, part>>
    \/ part = "cash desk" /\ CashDeskNext /\ ShortShift' /\ UNCHANGED <<leadPageVars, workbenchVars, reportVars, part>>
    \/ part = "workbench" /\ WorkbenchNext /\ UNCHANGED <<leadPageVars, cashDeskVars, reportVars, part>>
    \/ part = "pipeline" /\ PipelineNext /\ UNCHANGED <<pageVars, directoryVars, part>>
    \/ part = "rows" /\ DirectoryNext /\ UNCHANGED <<pageVars, pipelineVars, part>>

OfficeSpec == OfficeInit /\ [][OfficeNext]_officeVars

\* The parts share model values, so that few permutations serve them all.
Symmetry == Permutations(Salespeople) \cup Permutations(Targets) \cup Permutations(Branches)
=============================================================================
