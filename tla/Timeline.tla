------------------------------- MODULE Timeline -------------------------------
(***************************************************************************)
(* Instants and reporting periods.  Events, invoices and payments carry    *)
(* CURRENT_TIMESTAMP, in PostgreSQL the instant at which their transaction *)
(* BEGAN, while row locks order transactions by when they write: a command *)
(* that waited commits later than one that began after it.                 *)
(*                                                                         *)
(* A report covers the days from .. to, local midnight to local midnight.  *)
(* Bound: at most one transaction begins in a day, so days and instants    *)
(* have the same numbers.                                                  *)
(***************************************************************************)
EXTENDS Naturals

CONSTANTS
    Writers,   \* connections that write
    MaxTime    \* bound: so many transactions begin

ASSUME TimelineAssumption == MaxTime \in Nat

VARIABLES
    clock,     \* the last instant at which a transaction began
    began      \* when the transaction of a writer began, 0 if it runs none

timeline == <<clock, began>>

Instants == 1 .. MaxTime

TimelineInit == clock = 0 /\ began = [c \in Writers |-> 0]

Begins(c) ==
    /\ began[c] = 0 /\ clock < MaxTime
    /\ clock' = clock + 1
    /\ began' = [began EXCEPT ![c] = clock + 1]

\* Committed, refused or rolled back.
Ends(c) ==
    /\ began[c] > 0
    /\ began' = [began EXCEPT ![c] = 0]
    /\ UNCHANGED clock

\* Every transaction that began by t has ended.
Settled(t) == t <= clock /\ \A c \in Writers : began[c] > 0 => t < began[c]

\* Mutation: the last day of a report is left out.
SameDay(d) == d

AddDay(d) == d + 1

\* [fromTs, toTs)
Covers(from, to, at) == from <= at /\ at < AddDay(to)

Until(to, at) == at < AddDay(to)

Periods == {p \in Instants \X Instants : p[1] <= p[2]}

\* One row of a table; and a table after the rows rs were written to it.
RowOf(x, row) == [y \in {x} |-> row]

Overlaid(rs, rows) ==
    [x \in DOMAIN rs \cup DOMAIN rows |-> IF x \in DOMAIN rs THEN rs[x] ELSE rows[x]]

=============================================================================
