------------------------------ MODULE Delivery ------------------------------
(***************************************************************************)
(* The delivery of committed messages, with the connections of a tenant's  *)
(* pool: deliver, retry and attemptDelivery of CommunicationService, and   *)
(* the commands that end with a delivery (recordPayment, finalize,         *)
(* rescheduleSession, cancelSession).  Such a command keeps its own        *)
(* connection until everything is delivered.                               *)
(*                                                                         *)
(* The messages a command inserts are given (module Notices plans them);   *)
(* they are committed with the command.  A fault may come at any await:    *)
(* the process ends, and nothing is resumed; pool.connect or a statement   *)
(* fails, and what the transaction wrote is rolled back; or a COMMIT takes *)
(* effect and its answer is lost.  deliver swallows what an attempt throws *)
(* (communication.service.ts:278): the attempt is over, with no outcome.   *)
(***************************************************************************)
EXTENDS Naturals, FiniteSets

CONSTANTS
    Commands,      \* commands that end with a delivery
    Outbox,        \* the messages each of them inserts
    Clicks,        \* retries by staff
    PoolSize,      \* connections of the tenant's pool: 3 in the code
    MaxFaults      \* bound

Mail == UNION {Outbox[c] : c \in Commands}

ASSUME DeliveryAssumption ==
    /\ PoolSize \in Nat \ {0}
    /\ IsFiniteSet(Commands) /\ IsFiniteSet(Clicks) /\ Commands \cap Clicks = {}
    /\ \A c, d \in Commands : c # d => Outbox[c] \cap Outbox[d] = {}

VARIABLES
    command,   \* idle, working, delivering, done or lost
    click,     \* the message a retry is for, once clicked
    attempt,   \* attemptDelivery calls: [of, message, at]
    message,   \* communication_messages.status
    accepted,  \* how often the adapter took each message
    faults,        \* how many faults there were
    unrecorded,    \* of a message's acceptances, those whose record was lost in a fault
    unsettled      \* messages with an attempt, or a deliver, that a fault put an end to

faultVars == <<faults, unrecorded, unsettled>>

deliveryVars == <<command, click, attempt, message, accepted, faults, unrecorded, unsettled>>

-----------------------------------------------------------------------------
(* Connections *)

\* Mutation: an attempt keeps its client until it has read the message again.
UntilRead == {a \in attempt : a.at # "waiting"}

\* The attempts that have a client of the pool.
Connected == {a \in attempt : a.at \in {"connected", "sent", "refused"}}

Holding == {c \in Commands : command[c] \in {"working", "delivering"}}

\* Mutation: attempts are thought to use their command's client.
CommandsOnly == PoolSize - Cardinality(Holding)

Free == PoolSize - Cardinality(Holding) - Cardinality(Connected)

DeliveryInit ==
    /\ command = [c \in Commands |-> "idle"]
    /\ click = [r \in Clicks |-> "none"]
    /\ attempt = {}
    /\ message = [m \in Mail |-> "NONE"]
    /\ accepted = [m \in Mail |-> 0]
    /\ faults = 0
    /\ unrecorded = [m \in Mail |-> 0]
    /\ unsettled = {}

-----------------------------------------------------------------------------
(* Commands *)

\* pool.connect and BEGIN.
Begin(c) ==
    /\ command[c] = "idle"
    /\ Free > 0
    /\ command' = [command EXCEPT ![c] = "working"]
    /\ UNCHANGED <<click, attempt, message, accepted, faultVars>>

\* COMMIT; a dispatch that failed is rolled back to its savepoint, and the
\* command commits without messages.
Commit(c, sent) ==
    /\ command[c] = "working"
    /\ sent \in {{}, Outbox[c]}
    /\ command' = [command EXCEPT ![c] = "delivering"]
    /\ message' = [m \in Mail |-> IF m \in sent THEN "PENDING" ELSE message[m]]
    /\ attempt' = attempt \cup [of : {c}, message : sent, at : {"waiting"}]
    /\ UNCHANGED <<click, accepted, faultVars>>

\* The command is refused, or a statement of it fails, its pool.connect or COMMIT included.
Refuse(c) ==
    /\ command[c] \in {"idle", "working"}
    /\ command' = [command EXCEPT ![c] = "done"]
    /\ UNCHANGED <<click, attempt, message, accepted, faultVars>>

\* All deliveries have settled: client.release().
Finish(c) ==
    /\ command[c] = "delivering"
    /\ \A a \in attempt : a.of # c
    /\ command' = [command EXCEPT ![c] = "done"]
    /\ UNCHANGED <<click, attempt, message, accepted, faultVars>>

Retry(r, m) ==
    /\ click[r] = "none"
    /\ message[m] # "NONE"
    /\ click' = [click EXCEPT ![r] = m]
    /\ attempt' = attempt \cup {[of |-> r, message |-> m, at |-> "waiting"]}
    /\ UNCHANGED <<command, message, accepted, faultVars>>

-----------------------------------------------------------------------------
(* attemptDelivery *)

Move(a, at) == attempt' = (attempt \ {a}) \cup {[a EXCEPT !.at = at]}

End(a) == attempt' = attempt \ {a}

Connect(a) ==
    /\ a.at = "waiting"
    /\ Free > 0
    /\ Move(a, "connected")
    /\ UNCHANGED <<command, click, message, accepted, faultVars>>

\* Mutation: the row is read without FOR UPDATE.
Unlocked(m) == TRUE

\* SELECT ... FOR UPDATE gets the row when no attempt holds it.
RowFree(m) == \A b \in attempt : b.message = m => b.at \notin {"sent", "refused"}

\* Mutation: a sent message is sent again.
EvenSent(m) == message[m] # "NONE"

Deliverable(m) == message[m] \in {"PENDING", "FAILED"}

\* Under the row's lock, the adapter takes the message or throws.
Send(a) ==
    /\ a.at = "connected"
    /\ RowFree(a.message)
    /\ Deliverable(a.message)
    /\ \/ Move(a, "sent") /\ accepted' = [accepted EXCEPT ![a.message] = @ + 1]
       \/ Move(a, "refused") /\ UNCHANGED accepted
    /\ UNCHANGED <<command, click, message, faultVars>>

\* The message was sent meanwhile: a conflict.
Conflict(a) ==
    /\ a.at = "connected"
    /\ RowFree(a.message)
    /\ ~Deliverable(a.message)
    /\ End(a)
    /\ UNCHANGED <<command, click, message, accepted, faultVars>>

\* Mutation: a refusal is swallowed.
KeptPending(a) == IF a.at = "sent" THEN "SENT" ELSE "PENDING"

Outcome(a) == IF a.at = "sent" THEN "SENT" ELSE "FAILED"

\* The outcome is committed and the client released; the message is read again.
Record(a) ==
    /\ a.at \in {"sent", "refused"}
    /\ message' = [message EXCEPT ![a.message] = Outcome(a)]
    /\ Move(a, "reading")
    /\ UNCHANGED <<command, click, accepted, faultVars>>

\* pool.query takes a client for a moment.
Read(a) ==
    /\ a.at = "reading"
    /\ Free > 0
    /\ End(a)
    /\ UNCHANGED <<command, click, message, accepted, faultVars>>

AttemptStep(a) == Connect(a) \/ Send(a) \/ Conflict(a) \/ Record(a) \/ Read(a)

-----------------------------------------------------------------------------
(* Faults *)

\* The adapter has taken m for one of these attempts: one at most, by the row's lock.
Taken(A, m) == \E a \in A : a.message = m /\ a.at = "sent"

Fault(lost, left) ==
    /\ faults < MaxFaults
    /\ faults' = faults + 1
    /\ unrecorded' = [m \in Mail |-> unrecorded[m] + (IF Taken(lost, m) THEN 1 ELSE 0)]
    /\ unsettled' = unsettled \cup left

\* The messages whose attempts have not committed an outcome.
Open(A) == {a.message : a \in {b \in A : b.at # "reading"}}

\* pool.connect or a statement fails: ROLLBACK, and the row is as it was.  When it
\* is the UPDATE to SENT that fails, the UPDATE to FAILED fails after it, in the same
\* aborted transaction.
Rollback(a) ==
    /\ Fault({a}, Open({a}))
    /\ End(a)
    /\ UNCHANGED <<command, click, message, accepted>>

\* COMMIT takes effect, but answers with an error: the outcome stands, and the
\* message is not read again.
RecordUnheard(a) ==
    /\ a.at \in {"sent", "refused"}
    /\ Fault({}, {})
    /\ message' = [message EXCEPT ![a.message] = Outcome(a)]
    /\ End(a)
    /\ UNCHANGED <<command, click, accepted>>

\* The same for a command: its messages are committed, and deliver is not called.
CommitUnheard(c) ==
    /\ command[c] = "working"
    /\ Fault({}, Outbox[c])
    /\ command' = [command EXCEPT ![c] = "done"]
    /\ message' = [m \in Mail |-> IF m \in Outbox[c] THEN "PENDING" ELSE message[m]]
    /\ UNCHANGED <<click, attempt, accepted>>

\* The process ends: open transactions roll back, nothing is resumed.
Crash ==
    /\ Fault(attempt, Open(attempt))
    /\ command' = [c \in Commands |-> IF c \in Holding THEN "lost" ELSE command[c]]
    /\ attempt' = {}
    /\ UNCHANGED <<click, message, accepted>>

DeliveryNext ==
    \/ \E c \in Commands : Begin(c) \/ Commit(c, {}) \/ Commit(c, Outbox[c]) \/ Refuse(c) \/ Finish(c)
    \/ \E r \in Clicks, m \in Mail : Retry(r, m)
    \/ \E a \in attempt : AttemptStep(a) \/ Rollback(a) \/ RecordUnheard(a)
    \/ \E c \in Commands : CommitUnheard(c)
    \/ Crash

\* Every call the process has begun goes on; commands and retries may not come.
Progress(c) == Commit(c, {}) \/ Commit(c, Outbox[c]) \/ Refuse(c) \/ Finish(c)

DeliveryFairness ==
    /\ \A c \in Commands : WF_deliveryVars(Begin(c) \/ Progress(c))
    /\ \A who \in Commands \cup Clicks, m \in Mail :
        WF_deliveryVars(\E a \in attempt : a.of = who /\ a.message = m /\ AttemptStep(a))

DeliverySpec == DeliveryInit /\ [][DeliveryNext]_deliveryVars /\ DeliveryFairness

-----------------------------------------------------------------------------
(* Properties *)

\* The pool never has more clients than its size, and only attempts of
\* committed commands or of retries run.
DeliveryTypeOK ==
    /\ command \in [Commands -> {"idle", "working", "delivering", "done", "lost"}]
    /\ Cardinality({c \in Commands : command[c] \in {"working", "delivering"}})
        + Cardinality({a \in attempt : a.at \notin {"waiting", "reading"}}) <= PoolSize
    /\ \A a \in attempt : message[a.message] # "NONE" /\ (a.of \in Commands => command[a.of] = "delivering")
    /\ message \in [Mail -> {"NONE", "PENDING", "SENT", "FAILED"}]

\* However deliveries, retries and faults overlap, what the adapter has taken is what
\* is recorded as SENT or is being recorded now, once at most, and what a fault kept
\* from being recorded: only such a fault lets a message be sent twice.
AcceptedOnce ==
    \A m \in Mail :
        accepted[m] = unrecorded[m]
            + (IF message[m] = "SENT" \/ Taken(attempt, m) THEN 1 ELSE 0)

\* SENT says the adapter has taken the message, and stays.
SentIsFinal ==
    [][\A m \in Mail : message[m] = "SENT" => message'[m] = "SENT" /\ accepted[m] > 0]_deliveryVars

\* A message is left PENDING only by a fault: once nothing runs any more, every
\* other one has an outcome.
PendingOnlyAfterFault ==
    attempt = {} => \A m \in Mail : message[m] = "PENDING" => m \in unsettled

\* A message is delivered once, and its row tells the outcome.
DeliverySafe ==
    /\ [](DeliveryTypeOK /\ AcceptedOnce /\ PendingOnlyAfterFault)
    /\ SentIsFinal

\* Every command that has begun ends - or all the connections of the pool are
\* held, for ever, by commands that wait for one more to deliver with
\* (communication.service.ts:289).
EndsUnlessStarved ==
    \A c \in Commands :
        command[c] \in {"working", "delivering"} ~>
            \/ command[c] \in {"done", "lost"}
            \/ [](Cardinality({d \in Commands : command[d] = "delivering"}) = PoolSize)

=============================================================================
