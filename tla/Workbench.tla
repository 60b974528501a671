----------------------------- MODULE Workbench ------------------------------
(***************************************************************************)
(* Three pages of the web client on which staff change one record: the     *)
(* lifecycle of an enrollment (EnrollmentLifecycleActions), an import      *)
(* (ImportWizard) and the register of a session (AttendanceSessionPage).   *)
(* Several browsers show the record as each last fetched it; a dialog      *)
(* keeps what it was opened with.  An accepted request makes the page      *)
(* fetch again, a refused one does not (the confirmation of an import      *)
(* does), and the answer of an accepted one can be lost.                   *)
(*                                                                         *)
(* On the server each request is one transaction (modules Enrollments,     *)
(* Imports and Makeups have their interleavings).                          *)
(***************************************************************************)
EXTENDS Naturals, Sequences, FiniteSets

CONSTANTS
    Browsers,
    Blank,           \* a page before its first fetch, and no dialog
    MaxCorrections   \* bound on corrections of a record

ASSUME WorkbenchAssumption == MaxCorrections \in Nat

VARIABLES
    entry,     \* the record on the server: an enrollment, a batch or a register
    copy,      \* browser: the record as it was last fetched
    dialog,    \* browser: the action of the open dialog, or of a click whose request is under way
    history    \* the re-enrollments, imports and corrections carried out

workbenchVars == <<entry, copy, dialog, history>>

Log(what) == history' = Append(history, what)

-----------------------------------------------------------------------------
(* Enrollments *)

\* The class of the enrollment and another one; seats: the student's other
\* operational enrollments, by class.
ClassChoices == {"own", "other"}

NewEnrollment == [page |-> "enrollment", status |-> "PENDING", seats |-> {}]

ActionsByStatus ==
    [PENDING |-> {"activate", "trial", "cancel"},
     TRIAL |-> {"activate", "cancel", "withdraw"},
     ACTIVE |-> {"pause", "complete", "withdraw", "transfer"},
     PAUSED |-> {"resume", "withdraw", "transfer"},
     COMPLETED |-> {"reenroll"}, WITHDRAWN |-> {"reenroll"}, CANCELLED |-> {"reenroll"}]

Ended == {"COMPLETED", "WITHDRAWN", "CANCELLED"}

TargetOf ==
    [activate |-> "ACTIVE", trial |-> "TRIAL", pause |-> "PAUSED", resume |-> "ACTIVE",
     withdraw |-> "WITHDRAWN", complete |-> "COMPLETED", cancel |-> "CANCELLED"]

AllowedMoves ==
    [PENDING |-> {"ACTIVE", "TRIAL", "CANCELLED"}, TRIAL |-> {"ACTIVE", "CANCELLED", "WITHDRAWN"},
     ACTIVE |-> {"PAUSED", "COMPLETED", "WITHDRAWN"}, PAUSED |-> {"ACTIVE", "WITHDRAWN"}]

\* Students and classes are active and have room (module Enrollments).
Transition(e, action) ==
    /\ action \in DOMAIN TargetOf
    /\ e.status \notin Ended
    /\ TargetOf[action] \in AllowedMoves[e.status]
    /\ entry' = [e EXCEPT !.status = TargetOf[action]]
    /\ UNCHANGED history

\* Mutation: re-enrolling does not meet the index on operational enrollments.
AlwaysFree(e, class) == TRUE

\* enrollments_operational_student_class_key, in the class that is chosen.
ClassFree(e, class) == class \notin e.seats

\* The copy in the other class lives on; the one of the page is followed.
Transfer(e, action) ==
    /\ action = "transfer"
    /\ e.status \notin Ended
    /\ ClassFree(e, "other")
    /\ entry' = [e EXCEPT !.status = "WITHDRAWN", !.seats = @ \cup {"other"}]
    /\ UNCHANGED history

Reenroll(e, action) ==
    /\ action = "reenroll"
    /\ e.status \in Ended
    /\ \E class \in ClassChoices :
        /\ ClassFree(e, class)
        /\ entry' = [e EXCEPT !.seats = @ \cup {class}]
        /\ Log(<<"reenrolled", class>>)

EnrollmentRequest(e, action) == Transition(e, action) \/ Transfer(e, action) \/ Reenroll(e, action)

-----------------------------------------------------------------------------
(* Imports *)

MappingChoices == {"suggested", "edited"}

NewBatch == [page |-> "import", status |-> "UPLOADED", mapping |-> "suggested", checked |-> "no", invalid |-> FALSE]

\* UPLOADED: map and validate; VALIDATED: the preview; else the result.
WizardActions(b) ==
    CASE b.status = "UPLOADED" -> {"cancelBatch", "save", "saveAndValidate"}
      [] b.status = "VALIDATED" -> IF b.invalid THEN {"cancelBatch"} ELSE {"confirm"}
      [] OTHER -> {}

Editable(b) == b.status \in {"UPLOADED", "VALIDATED"}

\* Mutation: a new mapping leaves the outcome of the last validation.
KeptBatch(b, m) == [b EXCEPT !.mapping = m]

\* updateMapping: a mapping that changes anything resets the batch.
Remapped(b, m) == IF m = b.mapping THEN b ELSE [b EXCEPT !.mapping = m, !.status = "UPLOADED", !.checked = "no", !.invalid = FALSE]

SaveMapping(b, action) ==
    /\ action = "save"
    /\ Editable(b)
    /\ \E m \in MappingChoices : entry' = Remapped(b, m)
    /\ UNCHANGED history

\* The second request of "save and validate" is sent when the first has
\* succeeded, and validates the mapping as it is by then.
ValidateBatch(b, action) ==
    /\ action = "validate"
    /\ Editable(b)
    /\ \E bad \in BOOLEAN : entry' = [b EXCEPT !.status = "VALIDATED", !.checked = b.mapping, !.invalid = bad]
    /\ UNCHANGED history

\* A second confirmation of a completed batch is answered with the first.
ConfirmBatch(b, action) ==
    /\ action = "confirm"
    /\ \/ b.status = "COMPLETED" /\ UNCHANGED <<entry, history>>
       \/ /\ b.status = "VALIDATED" /\ ~b.invalid
          /\ \/ entry' = [b EXCEPT !.status = "COMPLETED"] /\ Log(<<"written", b.mapping>>)
             \/ entry' = [b EXCEPT !.status = "FAILED"] /\ UNCHANGED history

CancelBatch(b, action) ==
    /\ action = "cancelBatch"
    /\ Editable(b)
    /\ entry' = [b EXCEPT !.status = "CANCELLED"]
    /\ UNCHANGED history

ImportRequest(b, action) ==
    SaveMapping(b, action) \/ ValidateBatch(b, action) \/ ConfirmBatch(b, action) \/ CancelBatch(b, action)

-----------------------------------------------------------------------------
(* Registers *)

\* One record of a regular student, without a makeup entitlement (Makeups).
Marks == {"PRESENT", "LATE", "ABSENT_UNEXCUSED"}

NewRegister == [page |-> "register", status |-> "SCHEDULED", sheet |-> "OPEN", mark |-> "UNMARKED"]

SessionOpen(r) == r.sheet # "LOCKED" /\ r.status = "SCHEDULED"

\* Mutation: the page does not look at the session.
SheetActions(r) == IF r.sheet = "LOCKED" THEN {"correct"} ELSE {"mark", "finalize"}

\* The cells and the lock button, or a correction per record.
RegisterActions(r) ==
    (IF SessionOpen(r) THEN {"mark", "finalize"} ELSE {}) \cup (IF r.sheet = "LOCKED" THEN {"correct"} ELSE {})

\* Mutation: the sheet is not looked at.
AnySheet(r) == r.status # "CANCELLED"

Markable(r) == SessionOpen(r)

MarkRecord(r, action) ==
    /\ action = "mark"
    /\ Markable(r)
    /\ \E m \in Marks \cup {"UNMARKED"} : entry' = [r EXCEPT !.mark = m]
    /\ UNCHANGED history

\* Every record is marked.
FinalizeSheet(r, action) ==
    /\ action = "finalize"
    /\ SessionOpen(r)
    /\ r.mark # "UNMARKED"
    /\ entry' = [r EXCEPT !.sheet = "LOCKED", !.status = "COMPLETED"]
    /\ UNCHANGED history

\* Mutation: the same status is a correction too.
AnyMark(r) == Marks

Corrected(r) == Marks \ {r.mark}

\* The dialog compares with the mark it was opened on, the server with the
\* one it has.
CorrectRecord(r, action, shown) ==
    /\ action = "correct"
    /\ r.sheet = "LOCKED"
    /\ Len(history) < MaxCorrections
    /\ \E m \in Corrected(r) \ {shown} : entry' = [r EXCEPT !.mark = m] /\ Log(<<r.mark, m>>)

RegisterRequest(r, action, shown) ==
    MarkRecord(r, action) \/ FinalizeSheet(r, action) \/ CorrectRecord(r, action, shown)

\* The session is cancelled elsewhere.
CallOffLesson ==
    /\ entry.page = "register" /\ entry.status = "SCHEDULED"
    /\ entry' = [entry EXCEPT !.status = "CANCELLED"]
    /\ UNCHANGED <<copy, dialog, history>>

-----------------------------------------------------------------------------
(* The browsers *)

ActionsOn(c) ==
    CASE c = Blank -> {}
      [] c # Blank /\ c.page = "enrollment" -> ActionsByStatus[c.status]
      [] c # Blank /\ c.page = "import" -> WizardActions(c)
      [] c # Blank /\ c.page = "register" -> RegisterActions(c)

Request(action, shown) ==
    CASE entry.page = "enrollment" -> EnrollmentRequest(entry, action)
      [] entry.page = "import" -> ImportRequest(entry, action)
      [] entry.page = "register" -> RegisterRequest(entry, action, shown)

WorkbenchInit ==
    /\ entry \in {NewEnrollment, NewBatch, NewRegister}
    /\ copy = [b \in Browsers |-> Blank]
    /\ dialog = [b \in Browsers |-> Blank]
    /\ history = << >>

\* On mounting, on focus, on reconnecting.
Refresh(b) ==
    /\ copy' = [copy EXCEPT ![b] = entry]
    /\ UNCHANGED <<entry, dialog, history>>

\* What a dialog keeps of the record: the correction the mark it changes.
Shown(c, action) == IF action = "correct" THEN c.mark ELSE Blank

\* The dialog of an enrollment's action, of a confirmation, of a correction;
\* or a click on a button or a cell that asks nothing more.
PickAction(b) ==
    /\ dialog[b] = Blank
    /\ \E action \in ActionsOn(copy[b]) :
        dialog' = [dialog EXCEPT ![b] = [asks |-> action, shows |-> Shown(copy[b], action)]]
    /\ UNCHANGED <<entry, copy, history>>

\* "Cancel"; or the request of a click never arrives.
Dismiss(b) ==
    /\ dialog[b] # Blank
    /\ dialog' = [dialog EXCEPT ![b] = Blank]
    /\ UNCHANGED <<entry, copy, history>>

\* onSuccess, or the answer is lost and the dialog stays as it was.
Answered(b, next) ==
    \/ copy' = [copy EXCEPT ![b] = entry'] /\ dialog' = [dialog EXCEPT ![b] = next]
    \/ UNCHANGED <<copy, dialog>>

\* "Save and validate" saves, and is left with the validation.
SendRequest(b) ==
    /\ dialog[b] # Blank
    /\ IF dialog[b].asks = "saveAndValidate"
       THEN Request("save", Blank) /\ Answered(b, [asks |-> "validate", shows |-> Blank])
       ELSE Request(dialog[b].asks, dialog[b].shows) /\ Answered(b, Blank)

\* onError refreshes after a confirmation only.
RefusedConfirmation(b) ==
    /\ dialog[b] # Blank /\ dialog[b].asks = "confirm"
    /\ entry.status # "COMPLETED" /\ (entry.status # "VALIDATED" \/ entry.invalid)
    /\ copy' = [copy EXCEPT ![b] = entry]
    /\ dialog' = [dialog EXCEPT ![b] = Blank]
    /\ UNCHANGED <<entry, history>>

WorkbenchNext ==
    \/ \E b \in Browsers : Refresh(b) \/ PickAction(b) \/ Dismiss(b) \/ SendRequest(b) \/ RefusedConfirmation(b)
    \/ CallOffLesson

WorkbenchSpec == WorkbenchInit /\ [][WorkbenchNext]_workbenchVars

-----------------------------------------------------------------------------
(* Properties *)

\* Types; and a register is locked only when it is marked.
WorkbenchTypeOK ==
    /\ entry.page = "enrollment" => entry.status \in DOMAIN ActionsByStatus
    /\ entry.page = "import" => entry.status \in {"UPLOADED", "VALIDATED", "COMPLETED", "FAILED", "CANCELLED"}
    /\ (entry.page = "register" /\ entry.sheet = "LOCKED") => entry.mark \in Marks /\ entry.status = "COMPLETED"
    /\ \A b \in Browsers : copy[b] # Blank => copy[b].page = entry.page

\* What a page that is up to date offers is what the server carries out: the
\* table of the page is the table of the server for every status.  (A register
\* is locked only when it is marked, and the student of an ended enrollment is
\* enrolled again only in a class without an operational enrollment.)
OfferedIsDone ==
    \A b \in Browsers : (copy[b] # Blank /\ copy[b] = entry) => \A action \in ActionsOn(entry) :
        \/ action \in DOMAIN TargetOf /\ TargetOf[action] \in AllowedMoves[entry.status]
        \/ action = "transfer" /\ entry.status \notin Ended
        \/ action = "reenroll" /\ entry.status \in Ended
        \/ action \in {"save", "saveAndValidate", "cancelBatch"} /\ entry.status \in {"UPLOADED", "VALIDATED"}
        \/ action = "confirm" /\ entry.status = "VALIDATED" /\ ~entry.invalid
        \/ action \in {"mark", "finalize"} /\ entry.sheet = "OPEN" /\ entry.status = "SCHEDULED"
        \/ action = "correct" /\ entry.sheet = "LOCKED"

\* Two browsers, a dialog that was opened before the other's click, a click
\* repeated after a lost answer: an enrollment is given again at most once per
\* class while the one it gave stands, and an import written at most once.
DoneOnce ==
    /\ \A class \in ClassChoices : Cardinality({i \in DOMAIN history : history[i] = <<"reenrolled", class>>}) <= 1
    /\ Cardinality({i \in DOMAIN history : history[i][1] = "written"}) <= 1

\* What an import writes was validated under the mapping it is written with,
\* whoever mapped it again since a page showed the preview.
WrittenWasValidated ==
    \A i \in DOMAIN history : history[i][1] = "written" => entry.checked = history[i][2] /\ ~entry.invalid

\* A locked mark is only changed by a correction, and each correction starts
\* from what the one before left: none is recorded that changes nothing.
CorrectionsChain ==
    [][(entry.page = "register" /\ entry.sheet = "LOCKED") =>
        /\ (entry'.mark # entry.mark) <=> (history' # history)
        /\ history' # history => history'[Len(history')] = <<entry.mark, entry'.mark>>]_workbenchVars


\* What the three pages offer and do, in one.
WorkbenchSafe ==
    /\ [](WorkbenchTypeOK /\ OfferedIsDone /\ DoneOnce /\ WrittenWasValidated)
    /\ CorrectionsChain

=============================================================================
