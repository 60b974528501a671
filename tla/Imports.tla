------------------------------- MODULE Imports -------------------------------
(***************************************************************************)
(* Import of a file of records into one tenant: a batch is uploaded, its   *)
(* columns are mapped, it is validated without writing, and it is          *)
(* confirmed: validated again and written row by row, all or nothing,      *)
(* while the staff create, withdraw and disable records by hand and other  *)
(* batches are confirmed.                                                  *)
(*                                                                         *)
(* A row names one record by its key (a code; for an enrollment the        *)
(* student and the class) and uses others, which must be enabled.  What    *)
(* the columns hold is constant, per file and mapping.  The queries of one *)
(* validation are taken as one read.  A confirmation holds the row lock of *)
(* its batch from its first statement to its commit; its locks on classes  *)
(* and used records and its keys not yet committed make others wait.       *)
(***************************************************************************)
EXTENDS Naturals, Sequences, FiniteSets

CONSTANTS
    Importers,          \* connections validating or confirming
    Batches,
    Files, Mappings,
    Staged,             \* the rows of a file under a mapping
    Keys, ClassOf,      \* of an enrollment's key; NoClass for any other record
    Capacity,           \* of a class
    Referred,               \* records rows refer to
    NoClass, Missing

Row == [key : Keys, uses : SUBSET Referred, malformed : BOOLEAN]
LimitedClasses == DOMAIN Capacity

RowStatus == {"PENDING", "VALID", "INVALID", "IMPORTED", "FAILED"}
Batch == [file : Files, mapping : Mappings, rows : Seq(RowStatus),
          status : {"UPLOADED", "VALIDATED", "COMPLETED", "FAILED", "CANCELLED"}]
Confirmation == [batch : Batches, classes : SUBSET LimitedClasses, ready : BOOLEAN, written : Nat]

ASSUME ImportsAssumption ==
    /\ \A f \in Files, m \in Mappings : Staged[f][m] \in Seq(Row)
    /\ IsFiniteSet(Keys)
    /\ \A k \in Keys : ClassOf[k] # NoClass => ClassOf[k] \in LimitedClasses
    /\ \A c \in LimitedClasses : Capacity[c] \in Nat
    /\ NoClass \notin LimitedClasses
    /\ Missing \notin Batch \cup Confirmation \cup Batches \cup {"staff"} /\ "staff" \notin Batches

VARIABLES
    batch,      \* import_batches with the statuses of their import_rows
    record,     \* who made the record that has a key: "staff", a batch, or Missing
    usable,     \* status ACTIVE, of the records rows refer to
    importer    \* the confirmation in progress on each connection

importsVars == <<batch, record, usable, importer>>

ImportsInit ==
    /\ batch = [b \in Batches |-> Missing]
    /\ record = [k \in Keys |-> Missing]
    /\ usable = [u \in Referred |-> TRUE]
    /\ importer = [q \in Importers |-> Missing]

-----------------------------------------------------------------------------
(* Validation *)

RowsOf(b) == Staged[batch[b].file][batch[b].mapping]
Seats(c) == Cardinality({k \in Keys : ClassOf[k] = c /\ record[k] # Missing})

\* Scalars are read by the rules of the manual commands; what is used must be enabled.
Unresolved(row) == row.malformed \/ \E u \in row.uses : ~usable[u]

\* An earlier row with the same key counts even when it is invalid itself.
Doubled(rows, i) == \E j \in 1..(i - 1) : rows[j].key = rows[i].key

Taken(row) == record[row.key] # Missing

Faulty(rows, i) == Unresolved(rows[i]) \/ Doubled(rows, i) \/ Taken(rows[i])

Demand(rows, c) == Cardinality({i \in DOMAIN rows : ~Faulty(rows, i) /\ ClassOf[rows[i].key] = c})

\* Mutation: each row is held against the seats taken, not against the batch's demand.
EachAlone(rows, i) == LET c == ClassOf[rows[i].key] IN c # NoClass /\ Seats(c) >= Capacity[c]

\* capacityDemandErrors: all rows of the class are refused, not only those beyond its capacity.
Overfull(rows, i) == LET c == ClassOf[rows[i].key] IN c # NoClass /\ Seats(c) + Demand(rows, c) > Capacity[c]

Judged(rows) == [i \in DOMAIN rows |-> IF Faulty(rows, i) \/ Overfull(rows, i) THEN "INVALID" ELSE "VALID"]

AllValid(results) == \A i \in DOMAIN results : results[i] = "VALID"

-----------------------------------------------------------------------------
(* Batches *)

\* Mutation: the batch is read without FOR UPDATE.
NeverBusy(b) == TRUE

BatchFree(b) == \A q \in Importers : importer[q] # Missing => importer[q].batch # b

StatusIn(b, statuses) == batch[b] # Missing /\ batch[b].status \in statuses

Pending(f, m) == [i \in DOMAIN Staged[f][m] |-> "PENDING"]

Upload(b, f, m) ==
    /\ batch[b] = Missing
    /\ batch' = [batch EXCEPT ![b] = [file |-> f, mapping |-> m, status |-> "UPLOADED", rows |-> Pending(f, m)]]
    /\ UNCHANGED <<record, usable, importer>>

\* The mapping it already has changes nothing.
UpdateMapping(b, m) ==
    /\ StatusIn(b, {"UPLOADED", "VALIDATED"})
    /\ BatchFree(b)
    /\ batch[b].mapping # m
    /\ batch' = [batch EXCEPT ![b] = [file |-> @.file, mapping |-> m, status |-> "UPLOADED", rows |-> Pending(@.file, m)]]
    /\ UNCHANGED <<record, usable, importer>>

Validate(b) ==
    /\ StatusIn(b, {"UPLOADED", "VALIDATED"})
    /\ BatchFree(b)
    /\ batch' = [batch EXCEPT ![b].status = "VALIDATED", ![b].rows = Judged(RowsOf(b))]
    /\ UNCHANGED <<record, usable, importer>>

Cancel(b) ==
    /\ StatusIn(b, {"UPLOADED", "VALIDATED"})
    /\ BatchFree(b)
    /\ batch' = [batch EXCEPT ![b].status = "CANCELLED"]
    /\ UNCHANGED <<record, usable, importer>>

FailBatch(b, i) == batch' = [batch EXCEPT ![b].status = "FAILED", ![b].rows[i] = "FAILED"]

-----------------------------------------------------------------------------
(* Confirmation *)

\* Mutation: a batch that failed may be tried again.
ValidatedOrFailed(b) == StatusIn(b, {"VALIDATED", "FAILED"}) /\ "INVALID" \notin {batch[b].rows[i] : i \in DOMAIN batch[b].rows}

\* A COMPLETED batch is returned as it is.
Confirmable(b) == StatusIn(b, {"VALIDATED"}) /\ AllValid(batch[b].rows)

BeginConfirm(q, b) ==
    /\ importer[q] = Missing
    /\ BatchFree(b)
    /\ Confirmable(b)
    /\ AllValid(Judged(RowsOf(b)))
    /\ importer' = [importer EXCEPT ![q] = [batch |-> b, classes |-> {}, ready |-> FALSE, written |-> 0]]
    /\ UNCHANGED <<batch, record, usable>>

\* What changed since validation fails the batch at its first row that is no longer valid.
RefuseConfirm(b) ==
    /\ BatchFree(b)
    /\ Confirmable(b)
    /\ \E i \in DOMAIN RowsOf(b) :
          /\ Judged(RowsOf(b))[i] = "INVALID"
          /\ \A j \in 1..(i - 1) : Judged(RowsOf(b))[j] = "VALID"
          /\ FailBatch(b, i)
    /\ UNCHANGED <<record, usable, importer>>

Busy(q) == importer[q] # Missing
WrittenRows(q) == {RowsOf(importer[q].batch)[i] : i \in 1..importer[q].written}
ClassesOf(rows) == {ClassOf[r.key] : r \in rows} \ {NoClass}
\* What q holds until its transaction ends.
HeldKeys(q) == IF Busy(q) THEN {r.key : r \in WrittenRows(q)} ELSE {}
HeldUses(q) == IF Busy(q) THEN UNION {r.uses : r \in WrittenRows(q)} ELSE {}
HeldClasses(q) == IF Busy(q) THEN importer[q].classes \cup ClassesOf(WrittenRows(q)) ELSE {}
ElseHeld(q, kind(_)) == UNION {kind(p) : p \in Importers \ {q}}

\* Mutation: classes are locked by the rows that need them, as they come.
NoneFirst(rows) == {}

ClassesFirst(rows) == ClassesOf({rows[i] : i \in DOMAIN rows})

LockClasses(q) ==
    LET wanted == ClassesFirst(RowsOf(importer[q].batch))
    IN /\ Busy(q) /\ ~importer[q].ready
       /\ wanted \cap ElseHeld(q, HeldClasses) = {}
       /\ importer' = [importer EXCEPT ![q].ready = TRUE, ![q].classes = wanted]
       /\ UNCHANGED <<batch, record, usable>>

Writing(q) == Busy(q) /\ importer[q].ready /\ importer[q].written < Len(RowsOf(importer[q].batch))
NextRow(q) == RowsOf(importer[q].batch)[importer[q].written + 1]

\* q's next row needs a class or a key somebody else holds.
WaitsFor(q, p) ==
    /\ Writing(q) /\ p # q
    /\ ClassOf[NextRow(q).key] \in HeldClasses(p) \/ NextRow(q).key \in HeldKeys(p)

\* Mutation: writing leaves the capacity to validation.
NeverFull(q) == FALSE

\* lockCapacity counts what is committed and what this confirmation wrote.
Full(q) ==
    LET c == ClassOf[NextRow(q).key]
    IN c # NoClass /\ Seats(c) + Cardinality({k \in HeldKeys(q) : ClassOf[k] = c}) >= Capacity[c]

Writable(q) ==
    /\ record[NextRow(q).key] = Missing
    /\ \A u \in NextRow(q).uses : usable[u]
    /\ ~Full(q)

WriteRow(q) ==
    /\ Writing(q)
    /\ \A p \in Importers : ~WaitsFor(q, p)
    /\ Writable(q)
    /\ importer' = [importer EXCEPT ![q].written = @ + 1]
    /\ UNCHANGED <<batch, record, usable>>

\* Mutation: what was written before the failing row is kept.
KeepsWritten(q) ==
    record' = [k \in Keys |-> IF k \in HeldKeys(q) THEN importer[q].batch ELSE record[k]]

\* ROLLBACK TO SAVEPOINT
DropsWritten(q) == UNCHANGED record

\* The database refuses the row, or ends a deadlock at its expense.
WriteFails(q) ==
    /\ Writing(q)
    /\ \/ ~Writable(q) /\ \A p \in Importers : ~WaitsFor(q, p)
       \/ \E p \in Importers : WaitsFor(q, p) /\ WaitsFor(p, q)
    /\ FailBatch(importer[q].batch, importer[q].written + 1)
    /\ DropsWritten(q)
    /\ importer' = [importer EXCEPT ![q] = Missing]
    /\ UNCHANGED usable

CompleteImport(q) ==
    /\ Busy(q) /\ importer[q].ready
    /\ importer[q].written = Len(RowsOf(importer[q].batch))
    /\ LET b == importer[q].batch
       IN /\ record' = [k \in Keys |-> IF k \in HeldKeys(q) THEN b ELSE record[k]]
          /\ batch' = [batch EXCEPT ![b].status = "COMPLETED", ![b].rows = [i \in DOMAIN @ |-> "IMPORTED"]]
    /\ importer' = [importer EXCEPT ![q] = Missing]
    /\ UNCHANGED usable

\* The connection or the process is lost: the batch is as it was validated.
LoseConfirm(q) ==
    /\ Busy(q)
    /\ importer' = [importer EXCEPT ![q] = Missing]
    /\ UNCHANGED <<batch, record, usable>>

-----------------------------------------------------------------------------
(* The staff, by hand: commands that commit at once *)

HandCreate(k) ==
    /\ record[k] = Missing
    /\ \A q \in Importers : k \notin HeldKeys(q) /\ ClassOf[k] \notin HeldClasses(q)
    /\ ClassOf[k] # NoClass => Seats(ClassOf[k]) < Capacity[ClassOf[k]]
    /\ record' = [record EXCEPT ![k] = "staff"]
    /\ UNCHANGED <<batch, usable, importer>>

\* An enrollment stops to count, and may be made again; no other record is deleted.
HandWithdraw(k) ==
    /\ record[k] # Missing /\ ClassOf[k] # NoClass
    /\ record' = [record EXCEPT ![k] = Missing]
    /\ UNCHANGED <<batch, usable, importer>>

HandFlip(u) ==
    /\ \A q \in Importers : u \notin HeldUses(q)
    /\ usable' = [usable EXCEPT ![u] = ~@]
    /\ UNCHANGED <<batch, record, importer>>

-----------------------------------------------------------------------------

ImportsNext ==
    \/ \E b \in Batches :
          \/ \E f \in Files, m \in Mappings : Upload(b, f, m)
          \/ \E m \in Mappings : UpdateMapping(b, m)
          \/ Validate(b) \/ Cancel(b) \/ RefuseConfirm(b)
          \/ \E q \in Importers : BeginConfirm(q, b)
    \/ \E q \in Importers : LockClasses(q) \/ WriteRow(q) \/ WriteFails(q) \/ CompleteImport(q) \/ LoseConfirm(q)
    \/ \E k \in Keys : HandCreate(k) \/ HandWithdraw(k)
    \/ \E u \in Referred : HandFlip(u)

ImportsSpec == ImportsInit /\ [][ImportsNext]_importsVars

-----------------------------------------------------------------------------
(* Properties *)

\* What the tables and connections may hold; a batch is confirmed by one connection
\* at a time, and no key is written by two.
ImportsTypeOK ==
    /\ \A b \in Batches : batch[b] # Missing =>
          /\ batch[b].file \in Files /\ batch[b].mapping \in Mappings
          /\ batch[b].status \in {"UPLOADED", "VALIDATED", "COMPLETED", "FAILED", "CANCELLED"}
          /\ DOMAIN batch[b].rows = DOMAIN RowsOf(b)
          /\ batch[b].status = "COMPLETED" => \A i \in DOMAIN RowsOf(b) : batch[b].rows[i] = "IMPORTED"
    /\ record \in [Keys -> Batches \cup {"staff", Missing}]
    /\ usable \in [Referred -> BOOLEAN]
    /\ \A p, q \in Importers : p # q /\ Busy(p) /\ Busy(q) =>
          importer[p].batch # importer[q].batch /\ HeldKeys(p) \cap HeldKeys(q) = {}

\* A class never gets more enrollments than it has seats, from files and by hand.
SeatsKept == \A c \in LimitedClasses : Seats(c) <= Capacity[c]

\* What the validation of a whole file promises is what writing it row by row would
\* do at that moment: the two are written twice in the code, and a file that is valid
\* to one and not to the other can never be imported, or fails for good.
ValidIsWritable ==
    \A b \in Batches : batch[b] # Missing =>
        LET rows == RowsOf(b)
        IN AllValid(Judged(rows)) <=>
              \A i \in DOMAIN rows :
                  /\ ~rows[i].malformed /\ record[rows[i].key] = Missing
                  /\ \A u \in rows[i].uses : usable[u]
                  /\ \A j \in 1..(i - 1) : rows[j].key # rows[i].key
                  /\ ClassOf[rows[i].key] # NoClass =>
                        Seats(ClassOf[rows[i].key])
                            + Cardinality({j \in 1..(i - 1) : ClassOf[rows[j].key] = ClassOf[rows[i].key]})
                                < Capacity[ClassOf[rows[i].key]]

\* Two confirmations never wait for each other over a class: the classes of a file are
\* locked before its first row.  (Over codes of other records they may.)
NoDeadlockOverClasses ==
    \A p, q \in Importers : WaitsFor(p, q) /\ WaitsFor(q, p) =>
        ClassOf[NextRow(p).key] = NoClass /\ ClassOf[NextRow(q).key] = NoClass

\* A batch makes its records all at once, when it is completed, or none of them.
AllOrNothing ==
    [][\A b \in Batches :
          LET made == {k \in Keys : record'[k] = b /\ record[k] # b}
              completes == StatusIn(b, {"VALIDATED"}) /\ batch'[b].status = "COMPLETED"
          IN made = IF completes THEN {RowsOf(b)[i].key : i \in DOMAIN RowsOf(b)} ELSE {}]_importsVars

\* A batch that was completed, failed or was cancelled stays as it is.
HistoryIsFinal ==
    [][\A b \in Batches : StatusIn(b, {"COMPLETED", "FAILED", "CANCELLED"}) => batch'[b] = batch[b]]_importsVars


\* What importing promises, in one.
ImportsSafe ==
    /\ [](ImportsTypeOK /\ SeatsKept /\ ValidIsWritable /\ NoDeadlockOverClasses)
    /\ AllOrNothing /\ HistoryIsFinal

=============================================================================
