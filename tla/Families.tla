------------------------------ MODULE Families ------------------------------
(***************************************************************************)
(* The links of one student to guardians, edited by several people of the  *)
(* staff: a student has one primary contact, and any number of contacts    *)
(* who are asked to pay.                                                   *)
(*                                                                         *)
(* A command locks and reads the links there are, takes the primary mark   *)
(* from the others if it gives it away, and writes its own link: three     *)
(* statements, between which others commit.  Names, addresses, the kind of *)
(* relationship, notes and tags are left out.                              *)
(***************************************************************************)
CONSTANTS
    Editors,      \* connections editing this student's family
    Relatives,    \* guardians
    Keep,         \* a flag the caller does not give
    Absent        \* no link, no command

Link == [primary : BOOLEAN, billing : BOOLEAN]
Asked == [primary : BOOLEAN \cup {Keep}, billing : BOOLEAN \cup {Keep}]

ASSUME FamiliesAssumption == Keep \notin BOOLEAN /\ Absent \notin Link

VARIABLES
    link,     \* student_guardians of the student, by guardian
    editor    \* the command in progress on each connection

familiesVars == <<link, editor>>

FamiliesInit ==
    /\ link = [g \in Relatives |-> Absent]
    /\ editor = [q \in Editors |-> Absent]

Linked == {g \in Relatives : link[g] # Absent}
Free(q) == editor[q] = Absent
Held(q) == IF Free(q) THEN {} ELSE editor[q].locks
\* Mutation: a row somebody else has locked is taken all the same.
NeverWaits(q, gs) == TRUE

Unlocked(q, gs) == \A p \in Editors \ {q} : Held(p) \cap gs = {}
Finish(q) == editor' = [editor EXCEPT ![q] = Absent]

-----------------------------------------------------------------------------
(* Linking and changing a link *)

\* Mutation: the links are read without FOR UPDATE.
LockNone(gs) == {}

LocksTaken(gs) == gs

Given(flag, default) == IF flag = Keep THEN default ELSE flag

\* mutateLink: link when there is no such link, updateLink when there is one.
BeginLink(q, g, ask) ==
    LET now == IF link[g] = Absent THEN [primary |-> FALSE, billing |-> FALSE] ELSE link[g]
    IN /\ Free(q)
       /\ Unlocked(q, Linked)
       /\ editor' = [editor EXCEPT ![q] =
             [of |-> g, ask |-> ask, update |-> link[g] # Absent, locks |-> LocksTaken(Linked), cleared |-> Absent,
              write |-> [primary |-> Given(ask.primary, now.primary), billing |-> Given(ask.billing, now.billing)]]]
       /\ UNCHANGED link

\* createAndLinkGuardian: the guardian is new, so no link is read or locked.
BeginCreate(q, g, ask) ==
    /\ Free(q)
    /\ link[g] = Absent
    /\ editor' = [editor EXCEPT ![q] =
          [of |-> g, ask |-> ask, update |-> FALSE, locks |-> {}, cleared |-> Absent,
           write |-> [primary |-> Given(ask.primary, FALSE), billing |-> Given(ask.billing, FALSE)]]]
    /\ UNCHANGED link

\* Every other link there is by now, seen or not when the command began.
ToClear(q) == Linked \ {editor[q].of}

Demoted(gs) == [g \in Relatives |-> IF g \in gs \cap Linked THEN [link[g] EXCEPT !.primary = FALSE] ELSE link[g]]

\* Mutation: the marks are taken in a transaction of their own.
ClearAtOnce(q) ==
    /\ ~Free(q) /\ editor[q].write.primary /\ editor[q].cleared = Absent
    /\ Unlocked(q, ToClear(q))
    /\ editor' = [editor EXCEPT ![q].cleared = ToClear(q)]
    /\ link' = Demoted(ToClear(q))

Clear(q) ==
    /\ ~Free(q) /\ editor[q].write.primary /\ editor[q].cleared = Absent
    /\ Unlocked(q, ToClear(q))
    /\ editor' = [editor EXCEPT ![q].cleared = ToClear(q), ![q].locks = @ \cup ToClear(q)]
    /\ UNCHANGED link

\* Mutation: no unique index over the primary links of a student.
NoIndex(q) == FALSE

\* student_guardians_one_primary_idx: one came in since the others were cleared.
SecondPrimary(q) ==
    \E g \in Linked \ ({editor[q].of} \cup editor[q].cleared) : link[g].primary

Write(q) ==
    LET r == editor[q]
    IN /\ ~Free(q)
       /\ r.write.primary => r.cleared # Absent /\ ~SecondPrimary(q)
       /\ ~r.update => link[r.of] = Absent     \* student_guardians_tenant_student_guardian_key
       /\ link' = [Demoted(IF r.cleared = Absent THEN {} ELSE r.cleared) EXCEPT ![r.of] = IF r.update /\ @ = Absent THEN @ ELSE r.write]
       /\ Finish(q)

\* A conflict, or any other failure, rolls the command back.
GiveLinkUp(q) == ~Free(q) /\ Finish(q) /\ UNCHANGED link

-----------------------------------------------------------------------------
(* Commands of one statement *)

\* linkGuardianInTransaction: conversion of a lead links whoever is not linked yet.
LinkFromLead(q, g) ==
    /\ Free(q)
    /\ link' = [link EXCEPT ![g] = IF @ = Absent THEN [primary |-> FALSE, billing |-> FALSE] ELSE @]
    /\ UNCHANGED editor

Unlink(q, g) ==
    /\ Free(q)
    /\ link[g] # Absent
    /\ Unlocked(q, {g})
    /\ link' = [link EXCEPT ![g] = Absent]
    /\ UNCHANGED editor

-----------------------------------------------------------------------------

FamiliesNext == \E q \in Editors :
    \/ \E g \in Relatives : LinkFromLead(q, g) \/ Unlink(q, g)
    \/ \E g \in Relatives, ask \in Asked : BeginLink(q, g, ask) \/ BeginCreate(q, g, ask)
    \/ Clear(q)
    \/ Write(q)
    \/ GiveLinkUp(q)

FamiliesSpec == FamiliesInit /\ [][FamiliesNext]_familiesVars

-----------------------------------------------------------------------------
(* Properties *)

\* What the table and the connections may hold, and that no link is locked twice.
FamiliesTypeOK ==
    /\ link \in [Relatives -> Link \cup {Absent}]
    /\ \A q \in Editors : ~Free(q) => editor[q].ask \in Asked /\ editor[q].write \in Link
    /\ \A p, q \in Editors : p # q => Held(p) \cap Held(q) = {}

\* However commands that give the primary mark overlap, one guardian holds it.
OnePrimary ==
    \A g, h \in Relatives : link[g] # Absent /\ link[h] # Absent /\ link[g].primary /\ link[h].primary => g = h

\* A flag the caller does not give stays as it is when the command commits, whatever
\* others did to the link since the command was sent.
UnaskedIsKept ==
    [][\A q \in Editors :
          ~Free(q) /\ editor[q].update /\ Free(q)' /\ link' # link =>
              \A f \in {"primary", "billing"} :
                  editor[q].ask[f] = Keep /\ link[editor[q].of] # Absent => link'[editor[q].of][f] = link[editor[q].of][f]]_familiesVars

\* A student loses the primary contact only by a command about that contact: an
\* attempt to hand the mark to somebody else hands it over or leaves it.
PrimaryIsHandedOver ==
    [][\A g \in Relatives :
          link[g] # Absent /\ link[g].primary /\ link'[g] # Absent /\ ~link'[g].primary =>
              \/ \E h \in Relatives \ {g} : link'[h] # Absent /\ link'[h].primary
              \/ \E q \in Editors : ~Free(q) /\ Free(q)' /\ editor[q].of = g /\ editor[q].ask.primary = FALSE]_familiesVars


\* A student's guardians and their marks, in one.
FamiliesSafe == [](FamiliesTypeOK /\ OnePrimary) /\ UnaskedIsKept /\ PrimaryIsHandedOver

=============================================================================
