--------------------------- MODULE ContactsProofs ---------------------------
(***************************************************************************)
(* Proofs about module Contacts: whatever the numbers of contacts, packets *)
(* and disturbances, and however stale what a pass listed, contacts are    *)
(* removed only while no packet awaits its acknowledgement, a route the    *)
(* node learned is never overwritten, no other board loses a contact,      *)
(* what the full table refused fits once the extras are gone, and no       *)
(* contact is forgotten.                                                   *)
(*                                                                         *)
(* The invariant is IInv: the rows have fresh ids and keys of their own    *)
(* (RowsInv), one pass works at a time and holds back the sender while it  *)
(* removes (LockInv), and what the pass still has to do agrees with what   *)
(* the configured node holds by then (PassInv). The last result also needs *)
(* NothingForgotten: every difference between table and rows is one that a *)
(* pass under way or due will find.                                        *)
(***************************************************************************)
EXTENDS Contacts, TLAPS, FiniteSetTheorems, WellFoundedInduction

LEMMA SmallestNumber ==
    ASSUME NEW S, S \subseteq Nat, S # {}
    PROVE  \E x \in S : \A y \in S : x <= y
<1> DEFINE Less == {ss \in Nat \X Nat : ss[1] < ss[2]}
<1>1. IsWellFoundedOn(Less, Nat)
    BY NatLessThanWellFounded, Zenon DEF OpToRel
<1> HIDE DEF Less
<1>2. PICK x \in S : \A y \in S : ~ (<<y, x>> \in Less)
    BY <1>1, WFMin
<1>3. \A y \in S : ~ (y < x)
    BY <1>2 DEF Less
<1> QED BY <1>3

\* What a pass turns to next is one of the contacts it has still to do.
LEMMA FirstIsToDo ==
    ASSUME NEW todo, todo \subseteq Contact, todo # {}, Keys \subseteq Nat, MaxChanges \in Nat
    PROVE  First(todo) \in todo
<1> DEFINE ids == {x.id : x \in todo}
<1>1. ids \subseteq Nat /\ ids # {}
    BY DEF Contact, MaxIds
<1>2. PICK i \in ids : \A j \in ids : i <= j
    BY <1>1, SmallestNumber
<1> DEFINE keys == {x.key : x \in {y \in todo : y.id = i}}
<1>3. keys \subseteq Nat /\ keys # {}
    BY <1>2 DEF Contact
<1>4. PICK k \in keys : \A l \in keys : k <= l
    BY <1>3, SmallestNumber
<1>5. PICK x \in todo : x.id = i /\ x.key = k
    BY <1>4
<1>6. \A y \in todo : x.id < y.id \/ (x.id = y.id /\ x.key <= y.key)
    <2> TAKE y \in todo
    <2>1. y.id \in ids /\ y.id \in Nat /\ i \in Nat
        BY <1>1
    <2>2. CASE i = y.id
        BY <2>2, <1>4, <1>5
    <2>3. CASE i # y.id
        BY <2>1, <2>3, <1>2, <1>5
    <2> QED BY <2>2, <2>3
<1> QED BY <1>5, <1>6 DEF First

----------------------------------------------------------------------------
(* What a pass has still to do *)

\* A pass that knows of more than the node holds is none the worse for it.
LEMMA FewerHeld ==
    ASSUME NEW p, NEW held, NEW fewer, fewer \subseteq held, PassFits(p, held)
    PROVE  PassFits(p, fewer)
BY DEF PassFits, AddsMissing, RemovesExtras

LEMMA IdlePassFits ==
    ASSUME NEW held, NEW gen \in BOOLEAN
    PROVE  /\ IdlePass \in Pass /\ PassFits(IdlePass, held)
           /\ [IdlePass EXCEPT !.pc = "lock"] \in Pass /\ PassFits([IdlePass EXCEPT !.pc = "lock"], held)
           /\ [IdlePass EXCEPT !.pc = "list", !.gen = gen] \in Pass
           /\ PassFits([IdlePass EXCEPT !.pc = "list", !.gen = gen], held)
BY DEF IdlePass, Pass, AwaitsNode, AwaitsOther, PassFits, Adding, Removing

LEMMA MarksFit ==
    ASSUME NEW p \in Pass, NEW held
    PROVE  Marks(p) \in Pass /\ Marks(p).pc = "mark" /\ PassFits(Marks(p), held)
BY DEF Marks, FoundOnNode, IdlePass, Pass, AwaitsOther, PassFits, Adding, Removing

\* Taking the first thing to do off the list.
LEMMA DoneIsAPass ==
    ASSUME NEW p \in Pass
    PROVE  /\ Done(p) \in Pass /\ Done(p).pc = p.pc /\ Done(p).gen = p.gen /\ Done(p).listed = p.listed
           /\ Done(p).db = p.db /\ Done(p).todo = p.todo \ {First(p.todo)}
           /\ Done(p).refused = p.refused /\ Done(p).retrying = p.retrying
BY DEF Done, Pass

\* The second round adds what was refused, on a node that holds only contacts.
LEMMA SecondRoundFits ==
    ASSUME NEW p \in Pass, NEW held, ListsContacts(p.db), p.refused \subseteq p.db,
           \A x \in p.refused : x.key \notin held, held \subseteq KeysOf(p.db)
    PROVE  /\ SecondRound(p) \in Pass /\ SecondRound(p).pc \in {"add", "no", "mark"}
           /\ PassFits(SecondRound(p), held)
<1> DEFINE again == [p EXCEPT !.retrying = TRUE, !.todo = p.refused]
           pc == IF extra_public_keys(again) = {} THEN "no" ELSE "add"
           next == [again EXCEPT !.pc = pc]
<1>1. /\ again \in Pass /\ again.retrying /\ again.todo = p.refused
      /\ again.refused = p.refused /\ again.db = p.db /\ again.listed = p.listed
    BY DEF Pass
<1>2. SecondRound(p) = IF again.todo # {} THEN next ELSE Marks(again)
    BY DEF SecondRound, retry_contacts_refused_for_full_table
<1>3. pc \in {"add", "no"}
    OBVIOUS
<1> HIDE DEF again, pc
<1>4. /\ next \in Pass /\ next.pc = pc /\ next.retrying /\ next.todo = p.refused
      /\ next.refused = p.refused /\ next.db = p.db /\ next.listed = p.listed
    BY <1>1, <1>3 DEF Pass, AwaitsNode, AwaitsOther
<1> HIDE DEF next
<1>5. AddsMissing(next, held)
    BY <1>4 DEF AddsMissing
<1>6. AddsMissing(Done(next), held)
    BY <1>4, <1>5, DoneIsAPass DEF AddsMissing
<1>7. CASE again.todo # {}
    BY <1>1, <1>2, <1>3, <1>4, <1>5, <1>6, <1>7 DEF PassFits, Adding, Removing
<1>8. CASE again.todo = {}
    BY <1>1, <1>2, <1>8, MarksFit
<1> QED BY <1>7, <1>8

\* Whatever stage comes next, what it has to do agrees with the node.
LEMMA NextStageFits ==
    ASSUME NEW p \in Pass, NEW held, ListsContacts(p.db), AddsMissing(p, held)
    PROVE  /\ reconcile_contacts_once(p) \in Pass
           /\ reconcile_contacts_once(p).pc \in {"add", "no", "pause", "mark"}
           /\ PassFits(reconcile_contacts_once(p), held)
<1>1. CASE p.todo # {} /\ (p.retrying => extra_public_keys(p) # {})
    <2> DEFINE next == [p EXCEPT !.pc = "add"]
    <2>1. reconcile_contacts_once(p) = next
        BY <1>1 DEF reconcile_contacts_once, retry_contacts_refused_for_full_table
    <2>2. /\ next \in Pass /\ next.pc = "add" /\ next.todo = p.todo /\ next.refused = p.refused
          /\ next.db = p.db /\ next.listed = p.listed /\ next.retrying = p.retrying
        BY DEF Pass, AwaitsNode
    <2> HIDE DEF next
    <2>3. PassFits(next, held)
        BY <1>1, <2>2 DEF PassFits, AddsMissing, Adding, Removing
    <2> QED BY <2>1, <2>2, <2>3
<1>2. CASE p.todo # {} /\ p.retrying /\ extra_public_keys(p) = {}
    <2> DEFINE next == [p EXCEPT !.pc = "no"]
    <2>1. reconcile_contacts_once(p) = next
        BY <1>2 DEF reconcile_contacts_once, retry_contacts_refused_for_full_table
    <2>2. /\ next \in Pass /\ next.pc = "no" /\ next.todo = p.todo /\ next.refused = p.refused
          /\ next.db = p.db /\ next.listed = p.listed /\ next.retrying = p.retrying
        BY DEF Pass, AwaitsOther
    <2> HIDE DEF next
    <2>3. AddsMissing(Done(next), held)
        BY <2>2, DoneIsAPass DEF AddsMissing
    <2>4. PassFits(next, held)
        BY <1>2, <2>2, <2>3 DEF PassFits, Adding, Removing
    <2> QED BY <2>1, <2>2, <2>4
<1>3. CASE p.todo = {} /\ p.retrying
    <2>1. reconcile_contacts_once(p) = Marks(p)
        BY <1>3 DEF reconcile_contacts_once, retry_contacts_refused_for_full_table
    <2> QED BY <2>1, MarksFit
<1>4. CASE p.todo = {} /\ ~p.retrying /\ extra_public_keys(p) # {}
    <2> DEFINE next == [p EXCEPT !.pc = "pause", !.todo = Extras(p)]
    <2>1. reconcile_contacts_once(p) = next
        BY <1>4 DEF reconcile_contacts_once
    <2>2. Extras(p) \in SUBSET Contact
        <3>1. p.listed \subseteq Keys /\ 0 \in 0 .. MaxIds
            BY ConstantsAssumption DEF Pass, MaxIds
        <3> QED BY <3>1 DEF Extras, extra_public_keys, Contact
    <2>3. \A k \in p.listed : k \in KeysOf(p.db) \/ k \in KeysOf(Extras(p))
        <3> SUFFICES ASSUME NEW k \in p.listed, k \notin KeysOf(p.db)
                     PROVE  k \in KeysOf(Extras(p))
            OBVIOUS
        <3>1. [id |-> 0, key |-> k] \in Extras(p)
            BY DEF Extras, extra_public_keys, KeysOf
        <3> QED BY <3>1 DEF KeysOf
    <2>4. Extras(p) # {}
        BY <1>4 DEF Extras
    <2>5. /\ next \in Pass /\ next.pc = "pause" /\ next.todo = Extras(p) /\ next.refused = p.refused
          /\ next.db = p.db
        BY <2>2 DEF Pass, AwaitsOther
    <2> HIDE DEF next
    <2>6. RemovesExtras(next, held)
        BY <1>4, <2>3, <2>5 DEF AddsMissing, RemovesExtras
    <2>7. PassFits(next, held)
        BY <2>4, <2>5, <2>6 DEF PassFits, Adding, Removing
    <2> QED BY <2>1, <2>5, <2>7
<1>5. CASE p.todo = {} /\ ~p.retrying /\ extra_public_keys(p) = {}
    <2>1. reconcile_contacts_once(p) = SecondRound(p)
        BY <1>5 DEF reconcile_contacts_once
    <2>2. held \subseteq KeysOf(p.db)
        BY <1>5 DEF AddsMissing, extra_public_keys, KeysOf
    <2>3. p.refused \subseteq p.db /\ \A x \in p.refused : x.key \notin held
        BY <1>5 DEF AddsMissing
    <2>4. SecondRound(p).pc \in {"add", "no", "pause", "mark"}
        BY <2>2, <2>3, SecondRoundFits
    <2> QED BY <2>1, <2>2, <2>3, <2>4, SecondRoundFits
<1> QED BY <1>1, <1>2, <1>3, <1>4, <1>5

\* A contact is on the node now, or was refused by its full table.
LEMMA OneAdded ==
    ASSUME NEW p \in Pass, NEW held, ListsContacts(p.db), AddsMissing(p, held), p.todo # {},
           NEW more, more = held \cup {First(p.todo).key} \/ more = held
    PROVE  AddsMissing(Done(p), more)
<1>1. First(p.todo) \in p.todo /\ First(p.todo) \in p.db
    BY FirstIsToDo, ConstantsAssumption DEF Pass, AddsMissing
<1>2. First(p.todo).key \in KeysOf(p.db)
    BY <1>1 DEF KeysOf
<1>3. \A x \in p.db : x # First(p.todo) => x.key # First(p.todo).key
    BY <1>1 DEF ListsContacts
<1> QED BY <1>1, <1>2, <1>3, DoneIsAPass DEF AddsMissing

LEMMA OneRefused ==
    ASSUME NEW p \in Pass, NEW held, ListsContacts(p.db), AddsMissing(p, held), p.todo # {}, ~p.retrying
    PROVE  LET q == [Done(p) EXCEPT !.refused = @ \cup {First(p.todo)}]
           IN  q \in Pass /\ q.db = p.db /\ AddsMissing(q, held)
<1> DEFINE q == [Done(p) EXCEPT !.refused = @ \cup {First(p.todo)}]
<1>1. First(p.todo) \in p.todo /\ First(p.todo) \in Contact /\ First(p.todo) \in p.db
    BY FirstIsToDo, ConstantsAssumption DEF Pass, AddsMissing
<1>2. /\ q \in Pass /\ q.db = p.db /\ q.listed = p.listed /\ ~q.retrying
      /\ q.todo = p.todo \ {First(p.todo)} /\ q.refused = p.refused \cup {First(p.todo)}
    BY <1>1, DoneIsAPass DEF Pass
<1> HIDE DEF q
<1>3. AddsMissing(q, held)
    BY <1>1, <1>2 DEF AddsMissing
<1> QED BY <1>2, <1>3 DEF q

\* One extra less: the removals go on, or the second round begins.
LEMMA OneRemoved ==
    ASSUME NEW p \in Pass, NEW held, ListsContacts(p.db), RemovesExtras(p, held), p.todo # {}
    PROVE  LET less == held \ {First(p.todo).key}
           IN  /\ RemovesExtras(Done(p), less)
               /\ Done(p).todo = {} => less \subseteq KeysOf(p.db)
<1>1. First(p.todo) \in p.todo
    BY FirstIsToDo, ConstantsAssumption DEF Pass
<1>2. \A k \in held \ {First(p.todo).key} : k \in KeysOf(p.todo) => k \in KeysOf(Done(p).todo)
    BY DoneIsAPass DEF KeysOf
<1>3. KeysOf({}) = {}
    BY DEF KeysOf
<1> QED BY <1>1, <1>2, <1>3, DoneIsAPass DEF RemovesExtras

----------------------------------------------------------------------------
(* What a step of a pass has to show *)

\* The tables are functions; a smaller or a rewritten one is still a table.
LEMMA FiniteTables ==
    ASSUME NEW S, S \subseteq Keys
    PROVE  IsFiniteSet(S) /\ Cardinality(S) \in Nat
BY ConstantsAssumption, FS_Subset, FS_CardinalityType

LEMMA FiniteRows ==
    ASSUME NEW S, S \subseteq 1 .. MaxIds
    PROVE  IsFiniteSet(S) /\ Cardinality(S) \in Nat
<1>1. MaxIds \in Int /\ 1 \in Int
    BY ConstantsAssumption DEF MaxIds
<1>2. IsFiniteSet(1 .. MaxIds)
    BY <1>1, FS_Interval
<1> QED BY <1>2, FS_Subset, FS_CardinalityType

(* A step of a pass keeps the invariant when the new stage fits the node and *)
(* nothing is sent, awaited or swapped while it removes.                     *)
LEMMA MoveKeepsInv ==
    ASSUME IInv, NEW c \in Callers, NEW q \in Pass, pass' = [pass EXCEPT ![c] = q],
           pauses' = IF q.pc \in Removing THEN pauses \cup {c} ELSE pauses \ {c},
           pass[c].pc \in {"idle", "lock"} => q.pc \in {"idle", "lock"} \/ reconciliation_lock_is_free,
           TablesOK', PassFits(q, DOMAIN table'[Home]),
           pass[c].pc \in {"idle", "lock"} => table' = table,
           q.pc \in {"quiet", "check", "remove"} => sender.pc = "idle",
           q.pc \in {"check", "remove"} => awaiting = 0,
           q.pc \in {"list", "remove"} => attached = Home,
           RowsOK', DOMAIN contacts' = DOMAIN contacts,
           \A i \in DOMAIN contacts : contacts'[i].key = contacts[i].key,
           UNCHANGED <<nextId, awaiting, attached, conn, setup, sender, deleted, notified, changes, packets>>,
           requested' \in BOOLEAN, failed' \in BOOLEAN, faults' \in 0 .. MaxFaults
    PROVE  IInv'
<1>1. pass' \in [Callers -> Pass] /\ pass'[c] = q /\ \A d \in Callers \ {c} : pass'[d] = pass[d]
    BY DEF IInv, TypeOK
<1>2. TypeOK'
    <2>1. pauses' \subseteq Callers
        BY DEF IInv, TypeOK
    <2> QED BY <1>1, <2>1 DEF IInv, TypeOK
<1>3. RowsInv'
    BY DEF IInv, RowsInv
<1>4. pass[c].pc \notin {"idle", "lock"} \/ (q.pc \notin {"idle", "lock"} /\ reconciliation_lock_is_free)
      => \A d \in Callers \ {c} : pass[d].pc \in {"idle", "lock"}
    BY DEF IInv, LockInv, reconciliation_lock_is_free
<1>5. LockInv'
    <2>1. pauses' = {d \in Callers : pass'[d].pc \in Removing}
        BY <1>1 DEF IInv, LockInv
    <2> QED BY <1>1, <1>4, <2>1 DEF IInv, LockInv
<1>6. PassInv'
    <2> SUFFICES ASSUME NEW d \in Callers \ {c} PROVE PassFits(pass[d], DOMAIN table'[Home])
        BY <1>1 DEF PassInv
    <2>1. CASE table' = table
        BY <2>1 DEF IInv, PassInv
    <2>2. CASE table' # table
        <3>1. pass[d].pc \in {"idle", "lock"}
            BY <1>4, <2>2
        <3> QED BY <3>1 DEF PassFits, Adding, Removing
    <2> QED BY <2>1, <2>2
<1> QED BY <1>2, <1>3, <1>5, <1>6 DEF IInv

(* The same for a step that goes on with the next stage unless the link is   *)
(* down, and for one that gives the pass up.                                 *)
LEMMA ProceedKeepsInv ==
    ASSUME IInv, NEW c \in Callers, NEW p \in Pass, Proceed(c, p), pass[c].pc \notin {"idle", "lock"},
           p.pc \in {"add", "no", "pause", "mark", "remove"}, p.pc = "remove" => pass[c].pc = "remove",
           TablesOK', PassFits(p, DOMAIN table'[Home]),
           RowsOK', DOMAIN contacts' = DOMAIN contacts,
           \A i \in DOMAIN contacts : contacts'[i].key = contacts[i].key,
           UNCHANGED <<nextId, awaiting, attached, conn, setup, sender, deleted, notified, changes, packets>>,
           requested' \in BOOLEAN, failed' \in BOOLEAN, faults' \in 0 .. MaxFaults
    PROVE  IInv'
<1>1. CASE p.pc \in AwaitsNode /\ ~LinkUp
    <2>1. pass' = [pass EXCEPT ![c] = IdlePass] /\ pauses' = pauses \ {c}
        BY <1>1 DEF Proceed, Abort, Go
    <2>2. IdlePass.pc = "idle"
        BY DEF IdlePass
    <2>3. IdlePass \in Pass /\ PassFits(IdlePass, DOMAIN table'[Home])
        BY IdlePassFits
    <2> QED BY <2>1, <2>2, <2>3, MoveKeepsInv DEF Removing
<1>2. CASE ~(p.pc \in AwaitsNode /\ ~LinkUp)
    <2>1. pass' = [pass EXCEPT ![c] = p] /\ pauses' = IF p.pc \in Removing THEN pauses \cup {c} ELSE pauses \ {c}
        BY <1>2 DEF Proceed, Go, Removing
    <2>2. p.pc = "remove" => sender.pc = "idle" /\ awaiting = 0 /\ attached = Home
        BY DEF IInv, LockInv
    <2> QED BY <2>1, <2>2, MoveKeepsInv
<1> QED BY <1>1, <1>2

LEMMA AbortKeepsInv ==
    ASSUME IInv, NEW c \in Callers, Abort(c), pass[c].pc \notin {"idle", "lock"}, TablesOK',
           RowsOK', DOMAIN contacts' = DOMAIN contacts,
           \A i \in DOMAIN contacts : contacts'[i].key = contacts[i].key,
           UNCHANGED <<nextId, awaiting, attached, conn, setup, sender, deleted, notified, changes, packets>>,
           requested' \in BOOLEAN, failed' \in BOOLEAN, faults' \in 0 .. MaxFaults
    PROVE  IInv'
<1>1. pass' = [pass EXCEPT ![c] = IdlePass] /\ pauses' = pauses \ {c}
    BY DEF Abort, Go
<1>2. IdlePass.pc = "idle"
    BY DEF IdlePass
<1>3. IdlePass \in Pass /\ PassFits(IdlePass, DOMAIN table'[Home])
    BY IdlePassFits
<1> QED BY <1>1, <1>2, <1>3, MoveKeepsInv DEF Removing

\* The stage of a pass that is not at the lock, with what the invariant says of it.
LEMMA PassFacts ==
    ASSUME IInv, NEW c \in Callers
    PROVE  /\ pass[c] \in Pass /\ PassFits(pass[c], DOMAIN table[Home])
           /\ TablesOK /\ RowsOK /\ failed \in BOOLEAN /\ requested \in BOOLEAN /\ faults \in 0 .. MaxFaults
           /\ pauses = {d \in Callers : pass[d].pc \in Removing}
           /\ attached \in Boards /\ Home \in Boards
BY DEF IInv, TypeOK, LockInv, PassInv, Boards

\* What is counted as a disturbance or not.
LEMMA FaultsStayCounted ==
    ASSUME IInv, Fail \/ Spend \/ NoFault
    PROVE  failed' \in BOOLEAN /\ faults' \in 0 .. MaxFaults
<1>1. faults \in 0 .. MaxFaults /\ failed \in BOOLEAN /\ MaxFaults \in Nat
    BY ConstantsAssumption DEF IInv, TypeOK
<1>2. faults' \in 0 .. MaxFaults
    BY <1>1 DEF Fail, Spend, NoFault
<1>3. failed' \in BOOLEAN
    BY <1>1, Zenon DEF Fail, Spend, NoFault
<1> QED BY <1>2, <1>3

----------------------------------------------------------------------------
(* The steps of a pass *)

LEMMA BeginPassKeepsInv ==
    ASSUME IInv, NEW c \in Callers, BeginPass(c)
    PROVE  IInv'
<1> USE PassFacts
<1>1. pass[c].pc = "lock" /\ reconciliation_lock_is_free /\ c \notin pauses
    BY DEF BeginPass, Removing
<1>2. CASE is_running
    <2> DEFINE q == [IdlePass EXCEPT !.pc = "list", !.gen = TRUE]
    <2>1. pass' = [pass EXCEPT ![c] = q]
        BY <1>2 DEF BeginPass, Go
    <2>2. q.pc = "list"
        BY DEF IdlePass
    <2>3. q \in Pass /\ PassFits(q, DOMAIN table[Home])
        BY IdlePassFits
    <2> HIDE DEF q
    <2>4. attached = Home
        BY <1>2 DEF is_running
    <2>5. UNCHANGED <<contacts, table, pauses, requested, faults>> /\ failed' \in BOOLEAN
        BY DEF BeginPass, dbVars, nodeVars
    <2>6. UNCHANGED <<nextId, awaiting, attached, conn, setup, sender, deleted, notified, changes, packets>>
        BY DEF BeginPass, dbVars, nodeVars
    <2>7. TablesOK' /\ RowsOK'
        BY <2>5 DEF TablesOK, RowsOK
    <2> QED BY <1>1, <2>1, <2>2, <2>3, <2>4, <2>5, <2>6, <2>7, MoveKeepsInv DEF Removing
<1>3. CASE ~is_running
    <2>1. pass' = [pass EXCEPT ![c] = IdlePass]
        BY <1>3 DEF BeginPass, Go
    <2>2. IdlePass.pc = "idle"
        BY DEF IdlePass
    <2>3. IdlePass \in Pass /\ PassFits(IdlePass, DOMAIN table[Home])
        BY IdlePassFits
    <2>5. UNCHANGED <<contacts, table, pauses, requested, faults>> /\ failed' \in BOOLEAN
        BY DEF BeginPass, dbVars, nodeVars
    <2>6. UNCHANGED <<nextId, awaiting, attached, conn, setup, sender, deleted, notified, changes, packets>>
        BY DEF BeginPass, dbVars, nodeVars
    <2>7. TablesOK' /\ RowsOK'
        BY <2>5 DEF TablesOK, RowsOK
    <2> QED BY <1>1, <2>1, <2>2, <2>3, <2>5, <2>6, <2>7, MoveKeepsInv DEF Removing
<1> QED BY <1>2, <1>3

LEMMA ListingKeepsInv ==
    ASSUME IInv, NEW c \in Callers, list_contacts(c)
    PROVE  IInv'
<1> USE PassFacts
<1> DEFINE q == [pass[c] EXCEPT !.pc = "read", !.listed = DOMAIN table[attached]]
<1>1. pass[c].pc = "list" /\ c \notin pauses /\ pass' = [pass EXCEPT ![c] = q]
    BY DEF list_contacts, Removing, Go
<1>2. attached = Home
    BY <1>1 DEF IInv, LockInv
<1>3. /\ q \in Pass /\ q.pc = "read" /\ q.listed = DOMAIN table[Home]
      /\ q.refused = pass[c].refused /\ q.retrying = pass[c].retrying
    <2>1. DOMAIN table[Home] \subseteq Keys /\ pass[c] \in Pass
        BY DEF TablesOK
    <2> QED BY <1>2, <2>1 DEF Pass, AwaitsOther
<1> HIDE DEF q
<1>4. PassFits(q, DOMAIN table[Home])
    BY <1>1, <1>3 DEF PassFits, Adding, Removing
<1>5. UNCHANGED <<contacts, table, pauses, requested, failed, faults>>
    BY DEF list_contacts, dbVars, nodeVars, boundVars
<1>6. UNCHANGED <<nextId, awaiting, attached, conn, setup, sender, deleted, notified, changes, packets>>
    BY DEF list_contacts, dbVars, nodeVars, boundVars
<1>7. TablesOK' /\ RowsOK'
    BY <1>5 DEF TablesOK, RowsOK
<1> QED BY <1>1, <1>3, <1>4, <1>5, <1>6, <1>7, MoveKeepsInv DEF Removing

\* The contacts read from the database have keys of their own and fit on a node.
LEMMA ReadListsContacts ==
    ASSUME IInv
    PROVE  list_contacts_for_node(contacts) \in SUBSET Contact /\ ListsContacts(list_contacts_for_node(contacts))
<1> DEFINE db == list_contacts_for_node(contacts)
           keys == KeysOf(db)
<1>1. DOMAIN contacts \subseteq 1 .. MaxIds /\ Cardinality(DOMAIN contacts) <= Capacity /\ Capacity \in Nat
    BY ConstantsAssumption DEF IInv, TypeOK, RowsOK
<1>2. \A i \in DOMAIN contacts : contacts[i].key \in Keys
    BY DEF IInv, TypeOK, RowsOK
<1>3. \A i, j \in DOMAIN contacts : contacts[i].key = contacts[j].key => i = j
    BY DEF IInv, RowsInv
<1>4. db \in SUBSET Contact
    <2>1. 1 .. MaxIds \subseteq 0 .. MaxIds
        BY ConstantsAssumption DEF MaxIds
    <2> QED BY <1>1, <1>2, <2>1 DEF list_contacts_for_node, Contact
<1>5. \A x, y \in db : x.key = y.key => x = y
    BY <1>3 DEF list_contacts_for_node
<1>6. Cardinality(keys) <= Capacity
    <2> DEFINE f == [i \in DOMAIN contacts |-> contacts[i].key]
    <2>1. \A i \in DOMAIN contacts : f[i] \in keys
        <3> SUFFICES ASSUME NEW i \in DOMAIN contacts PROVE contacts[i].key \in keys
            OBVIOUS
        <3>1. [id |-> i, key |-> contacts[i].key] \in db
            BY DEF list_contacts_for_node
        <3> QED BY <3>1 DEF KeysOf
    <2>2. \A k \in keys : \E i \in DOMAIN contacts : f[i] = k
        BY DEF KeysOf, list_contacts_for_node
    <2>3. f \in Surjection(DOMAIN contacts, keys)
        BY <2>1, <2>2 DEF Surjection
    <2>4. IsFiniteSet(DOMAIN contacts) /\ Cardinality(DOMAIN contacts) \in Nat
        BY <1>1, FiniteRows
    <2> HIDE DEF f, keys
    <2>5. IsFiniteSet(keys) /\ Cardinality(keys) <= Cardinality(DOMAIN contacts)
        BY <2>3, <2>4, FS_Surjection
    <2>6. Cardinality(keys) \in Nat
        BY <2>5, FS_CardinalityType
    <2> QED BY <1>1, <2>4, <2>5, <2>6
<1> QED BY <1>4, <1>5, <1>6 DEF ListsContacts

LEMMA ReadingKeepsInv ==
    ASSUME IInv, NEW c \in Callers, ReadContacts(c)
    PROVE  IInv'
<1> USE PassFacts
<1> DEFINE db == list_contacts_for_node(contacts)
           missing == {contact \in db : contact.key \notin pass[c].listed}
           p == [pass[c] EXCEPT !.db = db, !.todo = missing]
<1>1. pass[c].pc = "read" /\ pass[c].pc \notin {"idle", "lock"} /\ Proceed(c, reconcile_contacts_once(p))
    BY DEF ReadContacts
<1>2. db \in SUBSET Contact /\ ListsContacts(db)
    BY ReadListsContacts
<1>3. /\ DOMAIN table[Home] \subseteq pass[c].listed
      /\ \A x \in missing : x.key \notin pass[c].listed
    BY <1>1 DEF PassFits
<1>4. missing \in SUBSET db
    OBVIOUS
<1> HIDE DEF missing, db
<1>5. /\ p \in Pass /\ p.db = db /\ p.todo = missing /\ p.listed = pass[c].listed
      /\ p.retrying = pass[c].retrying /\ p.refused = pass[c].refused
    BY <1>2, <1>4 DEF Pass
<1> HIDE DEF p
<1>6. pass[c].refused = {} /\ ~pass[c].retrying
    BY <1>1 DEF PassFits
<1>7. AddsMissing(p, DOMAIN table[Home])
    BY <1>3, <1>4, <1>5, <1>6 DEF AddsMissing
<1>8. ListsContacts(p.db)
    BY <1>2, <1>5
<1> DEFINE q == reconcile_contacts_once(p)
<1>9. q \in Pass /\ q.pc \in {"add", "no", "pause", "mark"} /\ PassFits(q, DOMAIN table[Home])
    BY <1>5, <1>7, <1>8, NextStageFits
<1> HIDE DEF q
<1>10. Proceed(c, q)
    BY <1>1 DEF q, p, missing, db
<1>11. UNCHANGED <<contacts, table, requested, failed, faults>>
    BY DEF ReadContacts, dbVars, nodeVars, boundVars
<1>12. UNCHANGED <<nextId, awaiting, attached, conn, setup, sender, deleted, notified, changes, packets>>
    BY DEF ReadContacts, dbVars, nodeVars, boundVars
<1>13. TablesOK' /\ RowsOK'
    BY <1>11 DEF TablesOK, RowsOK
<1> QED BY <1>1, <1>9, <1>10, <1>11, <1>12, <1>13, ProceedKeepsInv

----------------------------------------------------------------------------
(* Additions *)

\* The board that is attached holds one contact more, while it is not full.
LEMMA TableWithOneMore ==
    ASSUME IInv, NEW key \in Keys, ~IsFull(key), table' = TableWith(key)
    PROVE  /\ TablesOK'
           /\ DOMAIN table'[attached] = DOMAIN table[attached] \cup {key}
           /\ \A b \in Boards \ {attached} : table'[b] = table[b]
           /\ \A k \in DOMAIN table[attached] : k # key => table'[attached][k] = table[attached][k]
<1>1. TablesOK /\ attached \in Boards /\ Capacity \in Nat
    BY ConstantsAssumption DEF IInv, TypeOK
<1>2. DOMAIN table' = Boards /\ \A b \in Boards \ {attached} : table'[b] = table[b]
    BY <1>1 DEF TableWith, TablesOK
<1> DEFINE held == DOMAIN table[attached]
<1>3. table'[attached] = [k \in held \cup {key} |-> IF k = key THEN "flood" ELSE table[attached][k]]
    BY <1>1 DEF TableWith, TablesOK
<1>4. DOMAIN table'[attached] = held \cup {key}
    BY <1>3
<1>5. \A k \in DOMAIN table'[attached] : table'[attached][k] \in {"flood", "learned"}
    BY <1>1, <1>3 DEF TablesOK
<1>6. held \subseteq Keys /\ Cardinality(held) <= Capacity
    BY <1>1 DEF TablesOK
<1>7. Cardinality(held \cup {key}) <= Capacity
    <2>1. IsFiniteSet(held) /\ Cardinality(held) \in Nat
        BY <1>6, FiniteTables
    <2>2. Cardinality(held \cup {key}) = IF key \in held THEN Cardinality(held) ELSE Cardinality(held) + 1
        BY <2>1, FS_AddElement, Zenon
    <2>3. key \in held \/ ~ (Cardinality(held) >= Capacity)
        BY DEF IsFull
    <2> QED BY <1>1, <1>6, <2>1, <2>2, <2>3
<1>8. TablesOK'
    <2>1. \A b \in Boards : DOMAIN table'[b] \subseteq Keys
        BY <1>1, <1>2, <1>4, <1>6 DEF TablesOK
    <2>2. \A b \in Boards : Cardinality(DOMAIN table'[b]) <= Capacity
        BY <1>1, <1>2, <1>4, <1>7 DEF TablesOK
    <2>3. \A b \in Boards : \A k \in DOMAIN table'[b] : table'[b][k] \in {"flood", "learned"}
        BY <1>1, <1>2, <1>5 DEF TablesOK
    <2> QED BY <1>2, <2>1, <2>2, <2>3 DEF TablesOK
<1> QED BY <1>2, <1>3, <1>4, <1>8

\* What a pass adds next is a contact it read, with a key of its own.
LEMMA AddsOneOfItsOwn ==
    ASSUME IInv, NEW c \in Callers, pass[c].pc = "add"
    PROVE  /\ pass[c].todo # {} /\ ListsContacts(pass[c].db) /\ AddsMissing(pass[c], DOMAIN table[Home])
           /\ First(pass[c].todo) \in pass[c].todo /\ First(pass[c].todo) \in pass[c].db
           /\ First(pass[c].todo).key \in Keys
           /\ attached = Home => First(pass[c].todo).key \notin DOMAIN table[attached]
<1>1. pass[c] \in Pass /\ PassFits(pass[c], DOMAIN table[Home])
    BY PassFacts
<1>2. pass[c].todo # {} /\ ListsContacts(pass[c].db) /\ AddsMissing(pass[c], DOMAIN table[Home])
    BY <1>1 DEF PassFits, Adding
<1>3. pass[c].todo \subseteq Contact /\ pass[c].todo \subseteq pass[c].db
    BY <1>1, <1>2 DEF Pass, AddsMissing
<1>4. First(pass[c].todo) \in pass[c].todo
    BY <1>2, <1>3, FirstIsToDo, ConstantsAssumption
<1>5. First(pass[c].todo).key \in Keys
    BY <1>3, <1>4 DEF Contact
<1> QED BY <1>2, <1>3, <1>4, <1>5 DEF AddsMissing

\* How the home table grows with an addition, wherever it was made.
LEMMA HomeGrows ==
    ASSUME IInv, NEW key \in Keys, ~IsFull(key), table' = TableWith(key)
    PROVE  DOMAIN table'[Home] = DOMAIN table[Home] \cup {key} \/ DOMAIN table'[Home] = DOMAIN table[Home]
<1>1. Home \in Boards /\ attached \in Boards
    BY DEF IInv, TypeOK, Boards
<1> QED BY <1>1, TableWithOneMore

LEMMA AdditionKeepsInv ==
    ASSUME IInv, NEW c \in Callers, AddToNode(c)
    PROVE  IInv'
<1> USE PassFacts
<1> DEFINE p == pass[c]
           key == First(p.todo).key
           q == [p EXCEPT !.pc = "ok"]
<1>1. p.pc = "add" /\ ~IsFull(key) /\ table' = TableWith(key) /\ pass' = [pass EXCEPT ![c] = q]
    BY DEF AddToNode, Go
<1>2. /\ p.todo # {} /\ ListsContacts(p.db) /\ AddsMissing(p, DOMAIN table[Home]) /\ key \in Keys
    BY <1>1, AddsOneOfItsOwn
<1>3. p \in Pass /\ c \notin pauses
    BY <1>1 DEF Removing
<1>4. /\ q \in Pass /\ q.pc = "ok" /\ q.todo = p.todo /\ q.db = p.db /\ q.refused = p.refused
      /\ q.retrying = p.retrying /\ q.listed = p.listed
    BY <1>3 DEF Pass, AwaitsOther
<1>5. TablesOK'
    BY <1>1, <1>2, TableWithOneMore
<1>6. PassFits(q, DOMAIN table'[Home])
    <2>1. DOMAIN table'[Home] = DOMAIN table[Home] \cup {key} \/ DOMAIN table'[Home] = DOMAIN table[Home]
        BY <1>1, <1>2, HomeGrows
    <2>2. AddsMissing(Done(p), DOMAIN table'[Home])
        BY <1>2, <1>3, <2>1, OneAdded
    <2>3. AddsMissing(Done(q), DOMAIN table'[Home])
        BY <1>3, <1>4, <2>2, DoneIsAPass DEF AddsMissing
    <2> QED BY <1>2, <1>4, <2>3 DEF PassFits, Adding, Removing
<1> HIDE DEF q
<1>7. UNCHANGED <<contacts, pauses, requested, failed, faults>>
    BY DEF AddToNode, dbVars, boundVars
<1>8. UNCHANGED <<nextId, awaiting, attached, conn, setup, sender, deleted, notified, changes, packets>>
    BY DEF AddToNode, dbVars, boundVars
<1>9. RowsOK'
    BY <1>7 DEF RowsOK
<1> QED BY <1>1, <1>3, <1>4, <1>5, <1>6, <1>7, <1>8, <1>9, MoveKeepsInv DEF Removing

LEMMA FullTableKeepsInv ==
    ASSUME IInv, NEW c \in Callers, RefuseAsFull(c)
    PROVE  IInv'
<1> USE PassFacts
<1> DEFINE p == pass[c]
<1>1. p.pc = "add" /\ p \in Pass /\ c \notin pauses /\ p.pc \notin {"idle", "lock"}
    BY DEF RefuseAsFull, Removing
<1>2. /\ p.todo # {} /\ ListsContacts(p.db) /\ AddsMissing(p, DOMAIN table[Home])
    BY <1>1, AddsOneOfItsOwn
<1>3. UNCHANGED <<contacts, table, requested, failed, faults>>
    BY DEF RefuseAsFull, dbVars, nodeVars, boundVars
<1>4. UNCHANGED <<nextId, awaiting, attached, conn, setup, sender, deleted, notified, changes, packets>>
    BY DEF RefuseAsFull, dbVars, nodeVars, boundVars
<1>5. TablesOK' /\ RowsOK'
    BY <1>3 DEF TablesOK, RowsOK
<1>6. CASE p.retrying
    <2> DEFINE q == [p EXCEPT !.pc = "no"]
    <2>1. pass' = [pass EXCEPT ![c] = q] /\ pauses' = pauses
        BY <1>6 DEF RefuseAsFull, Go
    <2>2. /\ q \in Pass /\ q.pc = "no" /\ q.todo = p.todo /\ q.db = p.db /\ q.refused = p.refused
          /\ q.retrying = p.retrying /\ q.listed = p.listed
        BY <1>1 DEF Pass, AwaitsOther
    <2>3. PassFits(q, DOMAIN table[Home])
        <3>1. AddsMissing(Done(p), DOMAIN table[Home])
            BY <1>1, <1>2, OneAdded
        <3>2. AddsMissing(Done(q), DOMAIN table[Home])
            BY <1>1, <2>2, <3>1, DoneIsAPass DEF AddsMissing
        <3> QED BY <1>2, <2>2, <3>2 DEF PassFits, Adding, Removing
    <2> HIDE DEF q
    <2> QED BY <1>1, <1>3, <1>4, <1>5, <2>1, <2>2, <2>3, MoveKeepsInv DEF Removing
<1>7. CASE ~p.retrying
    <2> DEFINE r == [Done(p) EXCEPT !.refused = @ \cup {First(p.todo)}]
               q == reconcile_contacts_once(r)
    <2>1. r \in Pass /\ r.db = p.db /\ AddsMissing(r, DOMAIN table[Home])
        BY <1>1, <1>2, <1>7, OneRefused
    <2>2. Proceed(c, q)
        BY <1>7 DEF RefuseAsFull
    <2> HIDE DEF r
    <2>3. ListsContacts(r.db)
        BY <1>2, <2>1
    <2>4. q \in Pass /\ q.pc \in {"add", "no", "pause", "mark"} /\ PassFits(q, DOMAIN table[Home])
        BY <2>1, <2>3, NextStageFits
    <2> HIDE DEF q
    <2> QED BY <1>1, <1>3, <1>4, <1>5, <2>2, <2>4, ProceedKeepsInv
<1> QED BY <1>6, <1>7

LEMMA RefusalKeepsInv ==
    ASSUME IInv, NEW c \in Callers, RefuseContact(c)
    PROVE  IInv'
<1> USE PassFacts
<1> DEFINE p == pass[c]
           q == [p EXCEPT !.pc = "no"]
<1>1. p.pc = "add" /\ p \in Pass /\ c \notin pauses /\ pass' = [pass EXCEPT ![c] = q]
    BY DEF RefuseContact, Removing, Go
<1>2. /\ p.todo # {} /\ ListsContacts(p.db) /\ AddsMissing(p, DOMAIN table[Home])
    BY <1>1, AddsOneOfItsOwn
<1>3. UNCHANGED <<contacts, table, requested, pauses>>
    BY DEF RefuseContact, dbVars, nodeVars
<1>4. UNCHANGED <<nextId, awaiting, attached, conn, setup, sender, deleted, notified, changes, packets>>
    BY DEF RefuseContact, dbVars, nodeVars
<1>5. TablesOK' /\ RowsOK'
    BY <1>3 DEF TablesOK, RowsOK
<1>6. /\ q \in Pass /\ q.pc = "no" /\ q.todo = p.todo /\ q.db = p.db /\ q.refused = p.refused
      /\ q.retrying = p.retrying /\ q.listed = p.listed
    BY <1>1 DEF Pass, AwaitsOther
<1>7. PassFits(q, DOMAIN table[Home])
    <2>1. AddsMissing(Done(p), DOMAIN table[Home])
        BY <1>1, <1>2, OneAdded
    <2>2. AddsMissing(Done(q), DOMAIN table[Home])
        BY <1>1, <1>6, <2>1, DoneIsAPass DEF AddsMissing
    <2> QED BY <1>2, <1>6, <2>2 DEF PassFits, Adding, Removing
<1>8. failed' \in BOOLEAN /\ faults' \in 0 .. MaxFaults
    BY FaultsStayCounted DEF RefuseContact
<1> HIDE DEF q
<1> QED BY <1>1, <1>3, <1>4, <1>5, <1>6, <1>7, <1>8, MoveKeepsInv DEF Removing

LEMMA LostAdditionKeepsInv ==
    ASSUME IInv, NEW c \in Callers, LoseAddition(c)
    PROVE  IInv'
<1> USE PassFacts
<1> DEFINE key == First(pass[c].todo).key
<1>1. pass[c].pc = "add" /\ pass[c].pc \notin {"idle", "lock"} /\ Abort(c)
    BY DEF LoseAddition
<1>2. key \in Keys
    BY <1>1, AddsOneOfItsOwn
<1>3. table' = table \/ (~IsFull(key) /\ table' = TableWith(key))
    BY DEF LoseAddition
<1>4. TablesOK'
    BY <1>2, <1>3, TableWithOneMore DEF TablesOK
<1>5. UNCHANGED <<contacts, requested>>
    BY DEF LoseAddition, dbVars
<1>6. UNCHANGED <<nextId, awaiting, attached, conn, setup, sender, deleted, notified, changes, packets>>
    BY DEF LoseAddition, dbVars
<1>7. RowsOK'
    BY <1>5 DEF RowsOK
<1>8. failed' \in BOOLEAN /\ faults' \in 0 .. MaxFaults
    BY FaultsStayCounted DEF LoseAddition
<1> QED BY <1>1, <1>4, <1>5, <1>6, <1>7, <1>8, AbortKeepsInv

\* A row whose state changes keeps its key.
LEMMA SyncKeepsRows ==
    ASSUME RowsOK, NEW i, NEW key, NEW sync \in SyncStates, contacts' = SetSync(contacts, i, key, sync)
    PROVE  /\ RowsOK' /\ DOMAIN contacts' = DOMAIN contacts
           /\ \A j \in DOMAIN contacts : contacts'[j].key = contacts[j].key
<1>1. DOMAIN contacts' = DOMAIN contacts
    BY DEF SetSync
<1>2. ASSUME NEW j \in DOMAIN contacts
      PROVE  contacts'[j] \in [key : Keys, sync : SyncStates] /\ contacts'[j].key = contacts[j].key
    <2>1. contacts[j] \in [key : Keys, sync : SyncStates]
        BY DEF RowsOK
    <2>2. contacts'[j] = contacts[j] \/ contacts'[j] = [contacts[j] EXCEPT !.sync = sync]
        BY DEF SetSync
    <2> QED BY <2>1, <2>2
<1> QED BY <1>1, <1>2 DEF RowsOK

LEMMA RecordedAdditionKeepsInv ==
    ASSUME IInv, NEW c \in Callers, RecordAddition(c)
    PROVE  IInv'
<1> USE PassFacts
<1> DEFINE p == pass[c]
           q == reconcile_contacts_once(Done(p))
<1>1. p.pc \in {"ok", "no"} /\ p \in Pass /\ p.pc \notin {"idle", "lock"} /\ Proceed(c, q)
    BY DEF RecordAddition
<1>2. ListsContacts(p.db) /\ AddsMissing(Done(p), DOMAIN table[Home])
    BY <1>1 DEF PassFits, Adding
<1>3. ListsContacts(Done(p).db) /\ Done(p) \in Pass
    BY <1>1, <1>2, DoneIsAPass
<1>4. q \in Pass /\ q.pc \in {"add", "no", "pause", "mark"} /\ PassFits(q, DOMAIN table[Home])
    BY <1>2, <1>3, NextStageFits
<1> HIDE DEF q
<1>5. UNCHANGED <<table, requested, failed, faults>>
    BY DEF RecordAddition, nodeVars, boundVars
<1>6. UNCHANGED <<nextId, awaiting, attached, conn, setup, sender, deleted, notified, changes, packets>>
    BY DEF RecordAddition, nodeVars, boundVars
<1>7. /\ RowsOK' /\ DOMAIN contacts' = DOMAIN contacts
      /\ \A j \in DOMAIN contacts : contacts'[j].key = contacts[j].key
    <2>1. PICK sync \in SyncStates : contacts' = SetSync(contacts, First(p.todo).id, First(p.todo).key, sync)
        BY DEF RecordAddition, mark_contact_on_node, mark_contact_add_failed, SyncStates
    <2> QED BY <2>1, SyncKeepsRows
<1>8. TablesOK'
    BY <1>5 DEF TablesOK
<1> QED BY <1>1, <1>4, <1>5, <1>6, <1>7, <1>8, ProceedKeepsInv

----------------------------------------------------------------------------
(* Removals *)

\* Between the stages of a removal a pass keeps what it has to remove.
LEMMA NextRemovalStageKeepsInv ==
    ASSUME IInv, NEW c \in Callers, NEW pc \in {"quiet", "check", "remove"},
           pass[c].pc \in Removing, Go(c, [pass[c] EXCEPT !.pc = pc]), pauses' = pauses,
           sender.pc = "idle", pc \in {"check", "remove"} => awaiting = 0,
           pc = "remove" => attached = Home,
           UNCHANGED <<dbVars, nodeVars, requested, deleted, sender, notified, boundVars>>
    PROVE  IInv'
<1> USE PassFacts
<1> DEFINE p == pass[c]
           q == [p EXCEPT !.pc = pc]
<1>1. p \in Pass /\ c \in pauses /\ p.pc \notin {"idle", "lock"} /\ pass' = [pass EXCEPT ![c] = q]
    BY DEF Removing, Go
<1>2. q \in Pass /\ q.pc = pc /\ q.todo = p.todo /\ q.db = p.db /\ q.refused = p.refused
    BY <1>1 DEF Pass, AwaitsNode, AwaitsOther
<1> HIDE DEF q
<1>3. PassFits(q, DOMAIN table[Home])
    <2>1. p.todo # {} /\ ListsContacts(p.db) /\ RemovesExtras(p, DOMAIN table[Home])
        BY DEF PassFits
    <2>2. RemovesExtras(q, DOMAIN table[Home])
        BY <1>2, <2>1 DEF RemovesExtras
    <2> QED BY <1>2, <2>1, <2>2 DEF PassFits, Adding
<1>4. UNCHANGED <<contacts, table, requested, failed, faults>>
    BY DEF dbVars, nodeVars, boundVars
<1>5. UNCHANGED <<nextId, awaiting, attached, conn, setup, sender, deleted, notified, changes, packets>>
    BY DEF dbVars, nodeVars, boundVars
<1>6. TablesOK' /\ RowsOK'
    BY <1>4 DEF TablesOK, RowsOK
<1> QED BY <1>1, <1>2, <1>3, <1>4, <1>5, <1>6, MoveKeepsInv DEF Removing

LEMMA PauseKeepsInv ==
    ASSUME IInv, NEW c \in Callers, pause_sending(c)
    PROVE  IInv'
BY NextRemovalStageKeepsInv DEF pause_sending, send_step_lock_is_free, Removing

LEMMA QuietKeepsInv ==
    ASSUME IInv, NEW c \in Callers, wait_until_no_packet_awaits_acknowledgement(c)
    PROVE  IInv'
<1>1. sender.pc = "idle"
    BY DEF wait_until_no_packet_awaits_acknowledgement, IInv, LockInv
<1> QED BY <1>1, NextRemovalStageKeepsInv DEF wait_until_no_packet_awaits_acknowledgement, Removing

LEMMA PostponementKeepsInv ==
    ASSUME IInv, NEW c \in Callers, PostponeRemovals(c)
    PROVE  IInv'
<1> USE PassFacts
<1> DEFINE q == Marks(pass[c])
<1>1. pass[c].pc = "quiet" /\ pass' = [pass EXCEPT ![c] = q] /\ pauses' = pauses \ {c}
    BY DEF PostponeRemovals, Go
<1>2. q \in Pass /\ q.pc = "mark" /\ PassFits(q, DOMAIN table[Home])
    BY MarksFit
<1> HIDE DEF q
<1>3. UNCHANGED <<contacts, table, requested>>
    BY DEF PostponeRemovals, dbVars, nodeVars
<1>4. UNCHANGED <<nextId, awaiting, attached, conn, setup, sender, deleted, notified, changes, packets>>
    BY DEF PostponeRemovals, dbVars, nodeVars
<1>5. TablesOK' /\ RowsOK'
    BY <1>3 DEF TablesOK, RowsOK
<1>6. failed' \in BOOLEAN /\ faults' \in 0 .. MaxFaults
    BY FaultsStayCounted DEF PostponeRemovals
<1> QED BY <1>1, <1>2, <1>3, <1>4, <1>5, <1>6, MoveKeepsInv DEF Removing

LEMMA CheckKeepsInv ==
    ASSUME IInv, NEW c \in Callers, CheckNode(c)
    PROVE  IInv'
<1> USE PassFacts
<1>1. pass[c].pc = "check" /\ sender.pc = "idle" /\ awaiting = 0
    BY DEF CheckNode, IInv, LockInv
<1>2. UNCHANGED <<dbVars, nodeVars, requested, deleted, sender, notified, boundVars>>
    BY DEF CheckNode
<1>3. CASE require_listed_node_still_running(c)
    <2>1. attached = Home
        BY <1>3 DEF require_listed_node_still_running, is_running
    <2>2. Go(c, [pass[c] EXCEPT !.pc = "remove"]) /\ pauses' = pauses
        BY <1>3 DEF CheckNode
    <2> QED BY <1>1, <1>2, <2>1, <2>2, NextRemovalStageKeepsInv DEF Removing
<1>4. CASE ~require_listed_node_still_running(c)
    <2>1. Abort(c)
        BY <1>4 DEF CheckNode
    <2>2. UNCHANGED <<contacts, table, requested, failed, faults>>
        BY <1>2 DEF dbVars, nodeVars, boundVars
    <2>3. UNCHANGED <<nextId, awaiting, attached, conn, setup, sender, deleted, notified, changes, packets>>
        BY <1>2 DEF dbVars, nodeVars, boundVars
    <2>4. TablesOK' /\ RowsOK'
        BY <2>2 DEF TablesOK, RowsOK
    <2> QED BY <1>1, <2>1, <2>2, <2>3, <2>4, AbortKeepsInv
<1> QED BY <1>3, <1>4

\* The board that is attached holds fewer contacts.
LEMMA TableWithOneLess ==
    ASSUME IInv, NEW b \in Boards, NEW S, S \subseteq DOMAIN table[b],
           table' = [table EXCEPT ![b] = Restrict(@, S)]
    PROVE  /\ TablesOK' /\ DOMAIN table'[b] = S
           /\ \A d \in Boards \ {b} : table'[d] = table[d]
           /\ \A k \in S : table'[b][k] = table[b][k]
<1>1. TablesOK /\ Capacity \in Nat
    BY ConstantsAssumption DEF IInv, TypeOK
<1>2. DOMAIN table' = Boards /\ table'[b] = [k \in S |-> table[b][k]] /\ \A d \in Boards \ {b} : table'[d] = table[d]
    BY <1>1 DEF TablesOK, Restrict
<1>3. DOMAIN table[b] \subseteq Keys /\ Cardinality(DOMAIN table[b]) <= Capacity
    BY <1>1 DEF TablesOK
<1>4. Cardinality(S) <= Capacity
    <2>1. IsFiniteSet(DOMAIN table[b]) /\ Cardinality(DOMAIN table[b]) \in Nat
        BY <1>3, FiniteTables
    <2>2. Cardinality(S) <= Cardinality(DOMAIN table[b]) /\ Cardinality(S) \in Nat
        BY <1>3, <2>1, FS_Subset, FiniteTables
    <2> QED BY <1>1, <1>3, <2>1, <2>2
<1>5. DOMAIN table'[b] = S /\ \A k \in S : table'[b][k] = table[b][k]
    BY <1>2
<1>6. TablesOK'
    <2>1. \A d \in Boards : DOMAIN table'[d] \subseteq Keys
        BY <1>1, <1>2, <1>3, <1>5 DEF TablesOK
    <2>2. \A d \in Boards : Cardinality(DOMAIN table'[d]) <= Capacity
        BY <1>1, <1>2, <1>4, <1>5 DEF TablesOK
    <2>3. \A d \in Boards : \A k \in DOMAIN table'[d] : table'[d][k] \in {"flood", "learned"}
        BY <1>1, <1>2, <1>5 DEF TablesOK
    <2> QED BY <1>2, <2>1, <2>2, <2>3 DEF TablesOK
<1> QED BY <1>2, <1>5, <1>6

LEMMA RemovalKeepsInv ==
    ASSUME IInv, NEW c \in Callers, remove_contact(c)
    PROVE  IInv'
<1> USE PassFacts
<1> DEFINE p == pass[c]
           less == DOMAIN table[Home] \ {First(p.todo).key}
           q == IF Done(p).todo # {} THEN Done(p) ELSE SecondRound(Done(p))
<1>1. p.pc = "remove" /\ p \in Pass /\ p.pc \notin {"idle", "lock"} /\ Proceed(c, q)
    BY DEF remove_contact
<1>2. attached = Home
    BY <1>1 DEF IInv, LockInv
<1>3. table' = [table EXCEPT ![Home] = Restrict(@, less)]
    BY <1>2 DEF remove_contact, IInv, TypeOK, TablesOK
<1>4. TablesOK' /\ DOMAIN table'[Home] = less
    <2>1. less \subseteq DOMAIN table[Home] /\ Home \in Boards
        BY DEF Boards
    <2> HIDE DEF less
    <2> QED BY <1>3, <2>1, TableWithOneLess
<1>5. p.todo # {} /\ ListsContacts(p.db) /\ RemovesExtras(p, DOMAIN table[Home])
    BY <1>1 DEF PassFits, Removing
<1>6. RemovesExtras(Done(p), less) /\ (Done(p).todo = {} => less \subseteq KeysOf(p.db))
    BY <1>1, <1>5, OneRemoved
<1>7. Done(p) \in Pass /\ Done(p).db = p.db /\ Done(p).pc = "remove"
    BY <1>1, DoneIsAPass
<1>8. q \in Pass /\ q.pc \in {"add", "no", "mark", "remove"} /\ PassFits(q, less)
    <2>1. CASE Done(p).todo # {}
        <3>1. PassFits(Done(p), less)
            BY <1>5, <1>6, <1>7, <2>1 DEF PassFits, Adding
        <3> QED BY <1>7, <2>1, <3>1
    <2>2. CASE Done(p).todo = {}
        <3>1. Done(p).refused \subseteq Done(p).db /\ \A x \in Done(p).refused : x.key \notin less
            BY <1>6 DEF RemovesExtras
        <3>2. ListsContacts(Done(p).db) /\ less \subseteq KeysOf(Done(p).db)
            BY <1>5, <1>6, <1>7, <2>2
        <3> QED BY <1>7, <2>2, <3>1, <3>2, SecondRoundFits
    <2> QED BY <2>1, <2>2
<1> HIDE DEF q
<1>9. UNCHANGED <<contacts, requested, failed, faults>>
    BY DEF remove_contact, dbVars, boundVars
<1>10. UNCHANGED <<nextId, awaiting, attached, conn, setup, sender, deleted, notified, changes, packets>>
    BY DEF remove_contact, dbVars, boundVars
<1>11. RowsOK'
    BY <1>9 DEF RowsOK
<1> QED BY <1>1, <1>4, <1>8, <1>9, <1>10, <1>11, ProceedKeepsInv

----------------------------------------------------------------------------
(* The end of a pass *)

LEMMA MarkKeepsInv ==
    ASSUME IInv, NEW c \in Callers, mark_contacts_found_on_node(c)
    PROVE  IInv'
<1> USE PassFacts
<1> DEFINE p == pass[c]
<1>1. p.pc = "mark" /\ p \in Pass /\ p.pc \notin {"idle", "lock"} /\ c \notin pauses
    BY DEF mark_contacts_found_on_node, Removing
<1>2. UNCHANGED <<table, requested, pauses, failed, faults>>
    BY DEF mark_contacts_found_on_node, nodeVars, boundVars
<1>3. UNCHANGED <<nextId, awaiting, attached, conn, setup, sender, deleted, notified, changes, packets>>
    BY DEF mark_contacts_found_on_node, nodeVars, boundVars
<1>4. TablesOK'
    BY <1>2 DEF TablesOK
<1>5. CASE p.todo = {}
    <2>1. Abort(c) /\ contacts' = contacts
        BY <1>1, <1>2, <1>5 DEF mark_contacts_found_on_node, Abort
    <2>2. RowsOK'
        BY <2>1 DEF RowsOK
    <2> QED BY <1>1, <1>2, <1>3, <1>4, <2>1, <2>2, AbortKeepsInv
<1>6. CASE p.todo # {}
    <2> DEFINE q == Done(p)
    <2>1. pass' = [pass EXCEPT ![c] = q] /\ mark_contact_on_node(First(p.todo))
        BY <1>6 DEF mark_contacts_found_on_node, Go
    <2>2. q \in Pass /\ q.pc = "mark"
        BY <1>1, DoneIsAPass
    <2> HIDE DEF q
    <2>3. PassFits(q, DOMAIN table[Home])
        BY <2>2 DEF PassFits, Adding, Removing
    <2>4. /\ RowsOK' /\ DOMAIN contacts' = DOMAIN contacts
          /\ \A j \in DOMAIN contacts : contacts'[j].key = contacts[j].key
        BY <2>1, SyncKeepsRows DEF mark_contact_on_node, SyncStates
    <2> QED BY <1>1, <1>2, <1>3, <1>4, <2>1, <2>2, <2>3, <2>4, MoveKeepsInv DEF Removing
<1> QED BY <1>5, <1>6

LEMMA AbortedPassKeepsInv ==
    ASSUME IInv, NEW c \in Callers, AbortPass(c)
    PROVE  IInv'
<1> USE PassFacts
<1>1. pass[c].pc \notin {"idle", "lock"} /\ Abort(c)
    BY DEF AbortPass
<1>2. UNCHANGED <<contacts, table, requested>>
    BY DEF AbortPass, dbVars, nodeVars
<1>3. UNCHANGED <<nextId, awaiting, attached, conn, setup, sender, deleted, notified, changes, packets>>
    BY DEF AbortPass, dbVars, nodeVars
<1>4. TablesOK' /\ RowsOK'
    BY <1>2 DEF TablesOK, RowsOK
<1>5. failed' \in BOOLEAN /\ faults' \in 0 .. MaxFaults
    BY FaultsStayCounted DEF AbortPass
<1> QED BY <1>1, <1>2, <1>3, <1>4, <1>5, AbortKeepsInv

\* Every step of a pass.
LEMMA PassesKeepInv ==
    ASSUME IInv, NEW c \in Callers, PassStep(c) \/ PassFault(c)
    PROVE  IInv'
BY BeginPassKeepsInv, ListingKeepsInv, ReadingKeepsInv, AdditionKeepsInv, FullTableKeepsInv,
   RecordedAdditionKeepsInv, PauseKeepsInv, QuietKeepsInv, CheckKeepsInv, RemovalKeepsInv, MarkKeepsInv,
   RefusalKeepsInv, LostAdditionKeepsInv, PostponementKeepsInv, AbortedPassKeepsInv
   DEF PassStep, PassFault

----------------------------------------------------------------------------
(* Steps of the panel, the sender, the node and the connection *)

\* A pass that is not moved, or only put at the lock or given up.
Stays(c) ==
    \/ pass'[c].pc \in {"idle", "lock"}
    \/ /\ pass'[c].pc = pass[c].pc /\ pass'[c].listed = pass[c].listed /\ pass'[c].db = pass[c].db
       /\ pass'[c].todo = pass[c].todo /\ pass'[c].refused = pass[c].refused
       /\ pass'[c].retrying = pass[c].retrying

LEMMA StayingKeepsInv ==
    ASSUME IInv, \A c \in Callers : Stays(c), pauses' = {c \in Callers : pass'[c].pc \in Removing},
           DOMAIN table'[Home] \subseteq DOMAIN table[Home],
           \A c \in Callers : pass'[c].pc \in {"list", "remove"} => attached' = attached,
           \A c \in Callers : pass'[c].pc \in {"quiet", "check", "remove"} =>
                /\ sender.pc = "idle" => sender'.pc = "idle"
                /\ sender.pc = "idle" /\ awaiting = 0 => awaiting' = 0
    PROVE  LockInv' /\ PassInv'
<1>1. LockInv'
    <2>1. \A c, d \in Callers : pass'[c].pc \notin {"idle", "lock"} /\ pass'[d].pc \notin {"idle", "lock"} => c = d
        BY DEF Stays, IInv, LockInv
    <2>2. ASSUME NEW c \in Callers
          PROVE  /\ pass'[c].pc \in {"quiet", "check", "remove"} => sender'.pc = "idle"
                 /\ pass'[c].pc \in {"check", "remove"} => awaiting' = 0
                 /\ pass'[c].pc \in {"list", "remove"} => attached' = Home
        BY DEF Stays, IInv, LockInv
    <2> QED BY <2>1, <2>2 DEF LockInv
<1>2. ASSUME NEW c \in Callers
      PROVE  PassFits(pass'[c], DOMAIN table'[Home])
    <2>1. CASE pass'[c].pc \in {"idle", "lock"}
        BY <2>1 DEF PassFits, Adding, Removing
    <2>2. CASE pass'[c].pc \notin {"idle", "lock"}
        <3> DEFINE p == pass[c]
                   q == pass'[c]
        <3>1. /\ q.pc = p.pc /\ q.listed = p.listed /\ q.db = p.db /\ q.todo = p.todo
              /\ q.refused = p.refused /\ q.retrying = p.retrying
            BY <2>2 DEF Stays
        <3>2. PassFits(p, DOMAIN table'[Home])
            BY FewerHeld, PassFacts
        <3>3. /\ Done(p).todo = Done(q).todo /\ Done(p).refused = Done(q).refused /\ Done(p).db = Done(q).db
              /\ Done(p).retrying = Done(q).retrying /\ Done(p).listed = Done(q).listed
            BY <3>1 DEF Done
        <3> HIDE DEF p, q
        <3>4. PassFits(q, DOMAIN table'[Home])
            BY <3>1, <3>2, <3>3 DEF PassFits, AddsMissing, RemovesExtras
        <3> QED BY <3>4 DEF q
    <2> QED BY <2>1, <2>2
<1> QED BY <1>1, <1>2 DEF PassInv

\* The passes, the sender and the connection are left alone.
LEMMA PassesUntouched ==
    ASSUME IInv, UNCHANGED <<pass, pauses, sender, attached>>, DOMAIN table'[Home] \subseteq DOMAIN table[Home],
           awaiting = 0 => awaiting' = 0
    PROVE  LockInv' /\ PassInv'
<1>1. pauses' = {c \in Callers : pass'[c].pc \in Removing}
    BY DEF IInv, LockInv
<1>2. \A c \in Callers : Stays(c)
    BY DEF Stays
<1> QED BY <1>1, <1>2, StayingKeepsInv

LEMMA NewContactKeepsInv ==
    ASSUME IInv, add_contact
    PROVE  IInv'
<1>1. PICK key \in Keys :
        /\ check_contact_addition(key)
        /\ contacts' = [i \in DOMAIN contacts \cup {nextId} |->
                            IF i = nextId THEN [key |-> key, sync |-> "pending_add"] ELSE contacts[i]]
    BY DEF add_contact
<1>2. /\ UNCHANGED <<awaiting, table, attached, conn, setup, requested, deleted, pass, pauses, sender, packets, failed, faults>>
      /\ changes > 0 /\ changes' = changes - 1 /\ nextId' = nextId + 1 /\ notified' = TRUE
    BY DEF add_contact, nodeVars, workVars
<1>3. /\ nextId \in Nat /\ changes \in Nat /\ nextId + changes <= MaxIds + 1 /\ MaxIds \in Nat
      /\ DOMAIN contacts \subseteq 1 .. nextId - 1 /\ 1 <= nextId
    BY ConstantsAssumption DEF IInv, TypeOK, RowsInv, MaxIds
<1>4. DOMAIN contacts' = DOMAIN contacts \cup {nextId} /\ nextId \notin DOMAIN contacts
    BY <1>1, <1>3
<1>5. /\ \A i \in DOMAIN contacts : contacts'[i] = contacts[i]
      /\ contacts'[nextId] = [key |-> key, sync |-> "pending_add"]
    BY <1>1, <1>4
<1>6. RowsOK'
    <2>1. Cardinality(DOMAIN contacts') <= Capacity
        <3>1. IsFiniteSet(DOMAIN contacts) /\ Cardinality(DOMAIN contacts) \in Nat
            BY FiniteRows DEF IInv, TypeOK, RowsOK
        <3>2. Cardinality(DOMAIN contacts \cup {nextId}) = Cardinality(DOMAIN contacts) + 1
            BY <1>4, <3>1, FS_AddElement, Zenon
        <3> QED BY <1>1, <1>4, <3>1, <3>2, ConstantsAssumption DEF check_contact_addition
    <2>2. DOMAIN contacts' \subseteq 1 .. MaxIds
        BY <1>2, <1>3, <1>4
    <2>3. \A i \in DOMAIN contacts' : contacts'[i] \in [key : Keys, sync : SyncStates]
        BY <1>4, <1>5 DEF IInv, TypeOK, RowsOK, SyncStates
    <2> QED BY <2>1, <2>2, <2>3 DEF RowsOK
<1>7. TypeOK'
    <2>1. nextId' \in 1 .. MaxIds + 1 /\ changes' \in 0 .. MaxChanges
        BY <1>2, <1>3, ConstantsAssumption DEF IInv, TypeOK
    <2>2. TablesOK'
        BY <1>2 DEF IInv, TypeOK, TablesOK
    <2> QED BY <1>2, <1>6, <2>1, <2>2 DEF IInv, TypeOK
<1>8. RowsInv'
    <2>1. \A i, j \in DOMAIN contacts' : contacts'[i].key = contacts'[j].key => i = j
        <3>1. \A i \in DOMAIN contacts : contacts[i].key # key
            BY <1>1 DEF check_contact_addition, ContactKeys
        <3> QED BY <1>4, <1>5, <3>1 DEF IInv, RowsInv
    <2>2. DOMAIN contacts' \subseteq 1 .. nextId' - 1
        BY <1>2, <1>3, <1>4
    <2>3. nextId' + changes' <= MaxIds + 1
        BY <1>2, <1>3
    <2>4. (awaiting + packets + (IF sender.pc = "idle" THEN 0 ELSE 1) <= MaxPackets)'
        BY <1>2 DEF IInv, RowsInv
    <2> QED BY <2>1, <2>2, <2>3, <2>4 DEF RowsInv
<1>9. LockInv' /\ PassInv'
    BY <1>2, PassesUntouched
<1> QED BY <1>7, <1>8, <1>9 DEF IInv

LEMMA DeletedContactKeepsInv ==
    ASSUME IInv, delete_contact
    PROVE  IInv'
<1>1. PICK i \in DOMAIN contacts : contacts' = Restrict(contacts, DOMAIN contacts \ {i})
    BY DEF delete_contact
<1>2. /\ UNCHANGED <<nextId, awaiting, table, attached, conn, setup, requested, deleted, pass, pauses, sender, packets, failed, faults>>
      /\ changes > 0 /\ changes' = changes - 1 /\ notified' = TRUE
    BY DEF delete_contact, nodeVars, workVars
<1>3. DOMAIN contacts' \subseteq DOMAIN contacts /\ \A j \in DOMAIN contacts' : contacts'[j] = contacts[j]
    BY <1>1 DEF Restrict
<1>4. RowsOK'
    <2>1. IsFiniteSet(DOMAIN contacts) /\ Cardinality(DOMAIN contacts) \in Nat
        BY FiniteRows DEF IInv, TypeOK, RowsOK
    <2>2. Cardinality(DOMAIN contacts') <= Cardinality(DOMAIN contacts) /\ IsFiniteSet(DOMAIN contacts')
        BY <1>3, <2>1, FS_Subset
    <2>3. Cardinality(DOMAIN contacts') \in Nat
        BY <2>2, FS_CardinalityType
    <2>4. Cardinality(DOMAIN contacts') <= Capacity
        BY <2>1, <2>2, <2>3, ConstantsAssumption DEF IInv, TypeOK, RowsOK
    <2> QED BY <1>3, <2>4 DEF IInv, TypeOK, RowsOK
<1>5. TypeOK'
    <2>1. changes' \in 0 .. MaxChanges
        BY <1>2, ConstantsAssumption DEF IInv, TypeOK
    <2>2. TablesOK'
        BY <1>2 DEF IInv, TypeOK, TablesOK
    <2> QED BY <1>2, <1>4, <2>1, <2>2 DEF IInv, TypeOK
<1>6. RowsInv'
    <2>1. nextId' + changes' <= MaxIds + 1
        BY <1>2, ConstantsAssumption DEF IInv, TypeOK, RowsInv, MaxIds
    <2> QED BY <1>2, <1>3, <2>1 DEF IInv, RowsInv
<1>7. LockInv' /\ PassInv'
    BY <1>2, PassesUntouched
<1> QED BY <1>5, <1>6, <1>7 DEF IInv

LEMMA NotificationsKeepInv ==
    ASSUME IInv, handle_notification \/ LoseNotification
    PROVE  IInv'
<1>1. UNCHANGED <<contacts, nextId, awaiting, table, attached, conn, setup, deleted, pass, pauses, sender, changes, packets>>
    BY DEF handle_notification, LoseNotification, dbVars, nodeVars, workVars, boundVars
<1>2. requested' \in BOOLEAN /\ notified' \in BOOLEAN
    BY Zenon DEF handle_notification, LoseNotification, IInv, TypeOK, workVars
<1>3. failed' \in BOOLEAN /\ faults' \in 0 .. MaxFaults
    BY FaultsStayCounted DEF handle_notification, LoseNotification, boundVars, NoFault
<1>4. RowsOK' /\ TablesOK' /\ RowsInv'
    BY <1>1 DEF IInv, TypeOK, RowsOK, TablesOK, RowsInv
<1>5. TypeOK'
    BY <1>1, <1>2, <1>3, <1>4 DEF IInv, TypeOK
<1>6. LockInv' /\ PassInv'
    BY <1>1, PassesUntouched
<1> QED BY <1>4, <1>5, <1>6 DEF IInv

LEMMA SettledPacketKeepsInv ==
    ASSUME IInv, PacketIsSettled
    PROVE  IInv'
<1>1. /\ UNCHANGED <<contacts, nextId, table, attached, conn, setup, deleted, pass, pauses, sender, changes, packets>>
      /\ UNCHANGED <<requested, notified, failed, faults>> /\ awaiting > 0 /\ awaiting' = awaiting - 1
    BY DEF PacketIsSettled, dbVars, nodeVars, workVars, boundVars
<1>2. awaiting' \in 0 .. MaxPackets
    BY <1>1, ConstantsAssumption DEF IInv, TypeOK
<1>3. RowsOK' /\ TablesOK'
    BY <1>1 DEF IInv, TypeOK, RowsOK, TablesOK
<1>4. TypeOK'
    BY <1>1, <1>2, <1>3 DEF IInv, TypeOK
<1>5. RowsInv'
    BY <1>1, ConstantsAssumption DEF IInv, TypeOK, RowsInv
<1>6. LockInv' /\ PassInv'
    BY <1>1, PassesUntouched
<1> QED BY <1>4, <1>5, <1>6 DEF IInv

LEMMA LearntRouteKeepsInv ==
    ASSUME IInv, LearnRoute
    PROVE  IInv'
<1>1. PICK key \in DOMAIN table[Home] : table' = [table EXCEPT ![Home][key] = "learned"]
    BY DEF LearnRoute
<1>2. /\ UNCHANGED <<contacts, nextId, awaiting, attached, conn, setup, deleted, pass, pauses, sender, changes, packets>>
      /\ UNCHANGED <<requested, notified, failed, faults>>
    BY DEF LearnRoute, dbVars, workVars, boundVars
<1>3. TablesOK /\ Home \in Boards
    BY DEF IInv, TypeOK, Boards
<1>4. /\ DOMAIN table' = Boards /\ \A b \in Boards \ {Home} : table'[b] = table[b]
      /\ table'[Home] = [table[Home] EXCEPT ![key] = "learned"]
    BY <1>1, <1>3 DEF TablesOK
<1>5. DOMAIN table'[Home] = DOMAIN table[Home]
    BY <1>4
<1>6. \A k \in DOMAIN table[Home] : table'[Home][k] = table[Home][k] \/ table'[Home][k] = "learned"
    BY <1>4
<1>7. TablesOK'
    <2>1. \A b \in Boards : DOMAIN table'[b] = DOMAIN table[b]
        BY <1>4, <1>5
    <2>2. \A b \in Boards : \A k \in DOMAIN table'[b] : table'[b][k] \in {"flood", "learned"}
        BY <1>3, <1>4, <1>5, <1>6 DEF TablesOK
    <2> QED BY <1>3, <1>4, <2>1, <2>2 DEF TablesOK
<1>8. RowsOK' /\ RowsInv'
    BY <1>2 DEF IInv, TypeOK, RowsOK, RowsInv
<1>9. TypeOK'
    BY <1>2, <1>7, <1>8 DEF IInv, TypeOK
<1>10. LockInv' /\ PassInv'
    BY <1>2, <1>5, PassesUntouched
<1> QED BY <1>8, <1>9, <1>10 DEF IInv

LEMMA NodeDeletionKeepsInv ==
    ASSUME IInv, NodeDeletesContact
    PROVE  IInv'
<1>1. PICK key \in DOMAIN table[Home] :
        /\ table' = [table EXCEPT ![Home] = Restrict(@, DOMAIN @ \ {key})]
        /\ deleted' = deleted \cup {key}
    BY DEF NodeDeletesContact
<1>2. UNCHANGED <<contacts, nextId, awaiting, attached, conn, setup, pass, pauses, sender, changes, packets, requested, notified>>
    BY DEF NodeDeletesContact, dbVars
<1>3. TablesOK /\ Home \in Boards
    BY DEF IInv, TypeOK, Boards
<1> DEFINE less == DOMAIN table[Home] \ {key}
<1>4. table' = [table EXCEPT ![Home] = Restrict(@, less)] /\ less \subseteq DOMAIN table[Home]
    BY <1>1
<1> HIDE DEF less
<1>5. TablesOK' /\ DOMAIN table'[Home] = less
    BY <1>3, <1>4, TableWithOneLess
<1>6. deleted' \subseteq Keys
    BY <1>1, <1>3 DEF IInv, TypeOK, TablesOK
<1>7. failed' \in BOOLEAN /\ faults' \in 0 .. MaxFaults
    BY FaultsStayCounted DEF NodeDeletesContact
<1>8. RowsOK' /\ RowsInv'
    BY <1>2 DEF IInv, TypeOK, RowsOK, RowsInv
<1>9. TypeOK'
    BY <1>2, <1>5, <1>6, <1>7, <1>8 DEF IInv, TypeOK
<1>10. LockInv' /\ PassInv'
    BY <1>2, <1>4, <1>5, PassesUntouched
<1> QED BY <1>8, <1>9, <1>10 DEF IInv

\* Rows that go back to pending keep their keys.
LEMMA BackToPendingKeepsRows ==
    ASSUME RowsOK, NEW back \in SUBSET DOMAIN contacts,
           contacts' = [i \in DOMAIN contacts |-> IF i \in back THEN [contacts[i] EXCEPT !.sync = "pending_add"]
                                                  ELSE contacts[i]]
    PROVE  /\ RowsOK' /\ DOMAIN contacts' = DOMAIN contacts
           /\ \A j \in DOMAIN contacts : contacts'[j].key = contacts[j].key
<1>1. DOMAIN contacts' = DOMAIN contacts
    OBVIOUS
<1>2. ASSUME NEW j \in DOMAIN contacts
      PROVE  contacts'[j] \in [key : Keys, sync : SyncStates] /\ contacts'[j].key = contacts[j].key
    <2>1. contacts[j] \in [key : Keys, sync : SyncStates]
        BY DEF RowsOK
    <2>2. contacts'[j] = contacts[j] \/ contacts'[j] = [contacts[j] EXCEPT !.sync = "pending_add"]
        OBVIOUS
    <2> QED BY <2>1, <2>2 DEF SyncStates
<1> QED BY <1>1, <1>2 DEF RowsOK

LEMMA HandledDeletionKeepsInv ==
    ASSUME IInv, handle_deleted_contact
    PROVE  IInv'
<1>1. PICK key \in deleted :
        /\ return_contact_to_pending_add(key)
        /\ requested' = (requested \/ key \in ContactKeys)
        /\ deleted' = deleted \ {key}
    BY DEF handle_deleted_contact
<1>2. /\ UNCHANGED <<nextId, awaiting, table, attached, conn, setup, pass, pauses, sender, changes, packets, notified>>
      /\ UNCHANGED <<failed, faults>>
    BY DEF handle_deleted_contact, nodeVars, boundVars
<1> DEFINE back == {i \in DOMAIN contacts : contacts[i].key = key}
<1>3. /\ RowsOK' /\ DOMAIN contacts' = DOMAIN contacts
      /\ \A j \in DOMAIN contacts : contacts'[j].key = contacts[j].key
    <2>1. contacts' = [i \in DOMAIN contacts |-> IF i \in back THEN [contacts[i] EXCEPT !.sync = "pending_add"]
                                                 ELSE contacts[i]]
        BY <1>1 DEF return_contact_to_pending_add
    <2>2. back \in SUBSET DOMAIN contacts /\ RowsOK
        BY DEF IInv, TypeOK
    <2> HIDE DEF back
    <2> QED BY <2>1, <2>2, BackToPendingKeepsRows
<1>4. requested' \in BOOLEAN
    BY <1>1
<1>5. TablesOK' /\ RowsInv' /\ deleted' \subseteq Keys
    BY <1>1, <1>2, <1>3 DEF IInv, TypeOK, TablesOK, RowsInv
<1>6. TypeOK'
    BY <1>2, <1>3, <1>4, <1>5 DEF IInv, TypeOK
<1>7. LockInv' /\ PassInv'
    BY <1>2, PassesUntouched
<1> QED BY <1>5, <1>6, <1>7 DEF IInv

LEMMA RecordedResetKeepsInv ==
    ASSUME IInv, complete_factory_reset
    PROVE  IInv'
<1>1. contacts' = [i \in DOMAIN contacts |-> [contacts[i] EXCEPT !.sync = "pending_add"]]
    BY DEF complete_factory_reset
<1>2. /\ UNCHANGED <<nextId, awaiting, table, attached, conn, pass, pauses, sender, changes, packets, notified>>
      /\ UNCHANGED <<failed, faults, requested, deleted>> /\ setup' = "recorded"
    BY DEF complete_factory_reset, workVars, boundVars
<1>3. /\ RowsOK' /\ DOMAIN contacts' = DOMAIN contacts
      /\ \A j \in DOMAIN contacts : contacts'[j].key = contacts[j].key
    <2>1. contacts' = [i \in DOMAIN contacts |-> IF i \in DOMAIN contacts
                                                 THEN [contacts[i] EXCEPT !.sync = "pending_add"] ELSE contacts[i]]
        BY <1>1
    <2>2. RowsOK
        BY DEF IInv, TypeOK
    <2> QED BY <2>1, <2>2, BackToPendingKeepsRows
<1>4. TablesOK' /\ RowsInv'
    BY <1>2, <1>3 DEF IInv, TypeOK, TablesOK, RowsInv
<1>5. TypeOK'
    BY <1>2, <1>3, <1>4 DEF IInv, TypeOK
<1>6. LockInv' /\ PassInv'
    BY <1>2, PassesUntouched
<1> QED BY <1>4, <1>5, <1>6 DEF IInv

\* A setup run takes the node, a link comes up: no pass, row or packet is touched.
LEMMA ConnectionKeepsInv ==
    ASSUME IInv, SetupBegins \/ Connect
    PROVE  IInv'
<1>1. UNCHANGED <<contacts, nextId, awaiting, table, attached, requested, deleted, pass, pauses, sender, changes, packets, notified>>
    BY DEF SetupBegins, Connect, dbVars, workVars, boundVars
<1>2. conn' \in {"down", "handshaking", "connected"} /\ setup' \in {"none", "owned", "wiped", "recorded"}
    BY DEF SetupBegins, Connect, IInv, TypeOK
<1>3. failed' \in BOOLEAN /\ faults' \in 0 .. MaxFaults
    BY FaultsStayCounted DEF SetupBegins, Connect, boundVars, NoFault
<1>4. RowsOK' /\ TablesOK' /\ RowsInv'
    BY <1>1 DEF IInv, TypeOK, RowsOK, TablesOK, RowsInv
<1>5. TypeOK'
    BY <1>1, <1>2, <1>3, <1>4 DEF IInv, TypeOK
<1>6. LockInv' /\ PassInv'
    BY <1>1, PassesUntouched
<1> QED BY <1>4, <1>5, <1>6 DEF IInv

LEMMA ConnectedKeepsInv ==
    ASSUME IInv, mark_connected
    PROVE  IInv'
<1>1. pass' = [c \in Callers |-> [pass[c] EXCEPT !.gen = FALSE]]
    BY DEF mark_connected
<1>2. UNCHANGED <<contacts, nextId, awaiting, table, attached, setup, deleted, pauses, sender, changes, packets, notified, failed, faults>>
    BY DEF mark_connected, dbVars, boundVars
<1>3. requested' \in BOOLEAN /\ conn' = "connected"
    BY DEF mark_connected
<1>4. ASSUME NEW c \in Callers
      PROVE  pass'[c] \in Pass /\ pass'[c].pc = pass[c].pc /\ Stays(c)
    <2>1. pass[c] \in Pass /\ pass'[c] = [pass[c] EXCEPT !.gen = FALSE]
        BY <1>1, PassFacts
    <2> QED BY <2>1 DEF Stays, Pass
<1>5. pass' \in [Callers -> Pass]
    BY <1>1, <1>4
<1>6. RowsOK' /\ TablesOK' /\ RowsInv'
    BY <1>2 DEF IInv, TypeOK, RowsOK, TablesOK, RowsInv
<1>7. TypeOK'
    BY <1>2, <1>3, <1>5, <1>6 DEF IInv, TypeOK
<1>8. pauses' = {c \in Callers : pass'[c].pc \in Removing}
    BY <1>2, <1>4 DEF IInv, LockInv
<1>9. LockInv' /\ PassInv'
    BY <1>2, <1>4, <1>8, StayingKeepsInv
<1> QED BY <1>6, <1>7, <1>9 DEF IInv

\* A pass that begins waits for the lock.
LEMMA NewPassKeepsInv ==
    ASSUME IInv, run \/ reconcile_contacts_command \/ resume_relaying
    PROVE  IInv'
<1>1. \/ pass' = pass
      \/ \E c \in Callers : pass[c].pc = "idle" /\ pass' = [pass EXCEPT ![c] = [IdlePass EXCEPT !.pc = "lock"]]
    BY DEF run, reconcile_contacts_command, resume_relaying, Go, Callers
<1>2. UNCHANGED <<contacts, nextId, awaiting, table, attached, conn, deleted, pauses, sender, changes, packets, notified>>
    BY DEF run, reconcile_contacts_command, resume_relaying, dbVars, nodeVars, boundVars
<1>3. requested' \in BOOLEAN /\ setup' \in {"none", "owned", "wiped", "recorded"}
    <2>1. requested' \in BOOLEAN
        BY Zenon DEF run, reconcile_contacts_command, resume_relaying, IInv, TypeOK
    <2>2. setup' = setup \/ setup' = "none"
        BY DEF run, reconcile_contacts_command, resume_relaying, nodeVars
    <2> QED BY <2>1, <2>2 DEF IInv, TypeOK
<1>4. failed' \in BOOLEAN /\ faults' \in 0 .. MaxFaults
    BY FaultsStayCounted DEF run, reconcile_contacts_command, resume_relaying, boundVars, NoFault
<1>5. ASSUME NEW c \in Callers
      PROVE  pass'[c] \in Pass /\ Stays(c) /\ (pass'[c].pc \in Removing <=> pass[c].pc \in Removing)
    <2>1. pass[c] \in Pass /\ [IdlePass EXCEPT !.pc = "lock"] \in Pass /\ pass \in [Callers -> Pass]
        BY PassFacts, IdlePassFits DEF IInv, TypeOK
    <2>2. [IdlePass EXCEPT !.pc = "lock"].pc = "lock"
        BY DEF IdlePass
    <2>3. pass'[c] = pass[c] \/ (pass[c].pc = "idle" /\ pass'[c] = [IdlePass EXCEPT !.pc = "lock"])
        BY <1>1, <2>1
    <2> QED BY <2>1, <2>2, <2>3 DEF Stays, Removing
<1>6. pass' \in [Callers -> Pass]
    <2>1. pass \in [Callers -> Pass] /\ [IdlePass EXCEPT !.pc = "lock"] \in Pass
        BY IdlePassFits DEF IInv, TypeOK
    <2> QED BY <1>1, <2>1
<1>7. RowsOK' /\ TablesOK' /\ RowsInv'
    BY <1>2 DEF IInv, TypeOK, RowsOK, TablesOK, RowsInv
<1>8. TypeOK'
    BY <1>2, <1>3, <1>4, <1>6, <1>7 DEF IInv, TypeOK
<1>9. pauses' = {c \in Callers : pass'[c].pc \in Removing}
    BY <1>2, <1>5 DEF IInv, LockInv
<1>10. LockInv' /\ PassInv'
    BY <1>2, <1>5, <1>9, StayingKeepsInv
<1> QED BY <1>7, <1>8, <1>10 DEF IInv

----------------------------------------------------------------------------
(* The sender *)

LEMMA PreparationKeepsInv ==
    ASSUME IInv, prepare_next_packet
    PROVE  IInv'
<1>1. PICK i \in DOMAIN contacts : sender' = [pc |-> "prepared", id |-> i, key |-> contacts[i].key]
    BY DEF prepare_next_packet
<1>2. /\ UNCHANGED <<contacts, nextId, awaiting, table, attached, conn, setup, deleted, pass, pauses, changes, notified>>
      /\ UNCHANGED <<failed, faults, requested>> /\ pauses = {} /\ sender.pc = "idle"
      /\ packets > 0 /\ packets' = packets - 1
    BY DEF prepare_next_packet, dbVars, nodeVars
<1>3. sender' \in Sending /\ sender'.pc = "prepared"
    <2>1. i \in 0 .. MaxIds /\ contacts[i].key \in Keys
        BY ConstantsAssumption DEF IInv, TypeOK, RowsOK, MaxIds
    <2> QED BY <1>1, <2>1 DEF Sending
<1>4. packets' \in 0 .. MaxPackets
    BY <1>2, ConstantsAssumption DEF IInv, TypeOK
<1>5. RowsOK' /\ TablesOK'
    BY <1>2 DEF IInv, TypeOK, RowsOK, TablesOK
<1>6. TypeOK'
    BY <1>2, <1>3, <1>4, <1>5 DEF IInv, TypeOK
<1>7. RowsInv'
    BY <1>2, <1>3, ConstantsAssumption DEF IInv, TypeOK, RowsInv
<1>8. pauses' = {c \in Callers : pass'[c].pc \in Removing}
    BY <1>2 DEF IInv, LockInv
<1>9. \A c \in Callers : Stays(c) /\ pass'[c].pc \notin Removing
    BY <1>2, <1>8 DEF Stays
<1>10. LockInv' /\ PassInv'
    BY <1>2, <1>8, <1>9, StayingKeepsInv DEF Removing
<1> QED BY <1>6, <1>7, <1>10 DEF IInv

LEMMA SendingKeepsInv ==
    ASSUME IInv, send_text_message
    PROVE  IInv'
<1>1. PICK pc \in {"unknown", "queued", "not_found"} : sender' = [sender EXCEPT !.pc = pc]
    BY DEF send_text_message
<1>2. /\ UNCHANGED <<contacts, nextId, awaiting, table, attached, conn, setup, deleted, pass, pauses, changes, notified>>
      /\ UNCHANGED <<failed, faults, requested, packets>> /\ sender.pc = "prepared"
    BY DEF send_text_message, dbVars, nodeVars, boundVars
<1>3. sender' \in Sending /\ sender'.pc # "idle"
    BY <1>1 DEF IInv, TypeOK, Sending
<1>4. RowsOK' /\ TablesOK'
    BY <1>2 DEF IInv, TypeOK, RowsOK, TablesOK
<1>5. TypeOK'
    BY <1>2, <1>3, <1>4 DEF IInv, TypeOK
<1>6. RowsInv'
    BY <1>2, <1>3 DEF IInv, RowsInv
<1>7. pauses' = {c \in Callers : pass'[c].pc \in Removing}
    BY <1>2 DEF IInv, LockInv
<1>8. \A c \in Callers : Stays(c)
    BY <1>2 DEF Stays
<1>9. LockInv' /\ PassInv'
    BY <1>2, <1>7, <1>8, StayingKeepsInv
<1> QED BY <1>5, <1>6, <1>9 DEF IInv

LEMMA RecordedOutcomeKeepsInv ==
    ASSUME IInv, record_send_outcome
    PROVE  IInv'
<1>1. /\ UNCHANGED <<nextId, table, attached, conn, setup, deleted, pass, pauses, changes, notified>>
      /\ UNCHANGED <<failed, faults, packets>> /\ sender.pc # "idle" /\ sender' = IdleSender
      /\ awaiting' = awaiting + (IF sender.pc = "queued" THEN 1 ELSE 0)
    BY DEF record_send_outcome, nodeVars, boundVars
<1>2. requested' \in BOOLEAN
    BY Zenon DEF record_send_outcome, IInv, TypeOK
<1>3. sender' \in Sending /\ sender'.pc = "idle"
    BY <1>1, ConstantsAssumption DEF IdleSender, Sending, MaxIds
<1>4. /\ RowsOK' /\ DOMAIN contacts' = DOMAIN contacts
      /\ \A j \in DOMAIN contacts : contacts'[j].key = contacts[j].key
    <2>1. contacts' = contacts \/ contacts' = SetSync(contacts, sender.id, sender.key, "pending_add")
        BY DEF record_send_outcome
    <2>2. RowsOK /\ "pending_add" \in SyncStates
        BY DEF IInv, TypeOK, SyncStates
    <2>3. CASE contacts' = contacts
        BY <2>2, <2>3 DEF RowsOK
    <2> QED BY <2>1, <2>2, <2>3, SyncKeepsRows
<1>5. awaiting' + packets' <= MaxPackets /\ awaiting' \in Nat
    BY <1>1, ConstantsAssumption DEF IInv, TypeOK, RowsInv
<1>6. awaiting' \in 0 .. MaxPackets
    BY <1>1, <1>5, ConstantsAssumption DEF IInv, TypeOK
<1>7. TablesOK'
    BY <1>1 DEF IInv, TypeOK, TablesOK
<1>8. TypeOK'
    BY <1>1, <1>2, <1>3, <1>4, <1>6, <1>7 DEF IInv, TypeOK
<1>9. RowsInv'
    <2>1. (awaiting + packets + (IF sender.pc = "idle" THEN 0 ELSE 1) <= MaxPackets)'
        <3>1. packets \in Nat /\ MaxPackets \in Nat
            BY ConstantsAssumption DEF IInv, TypeOK
        <3> QED BY <1>1, <1>3, <1>5, <3>1
    <2> QED BY <1>1, <1>4, <2>1 DEF IInv, RowsInv
<1>10. pauses' = {c \in Callers : pass'[c].pc \in Removing}
    BY <1>1 DEF IInv, LockInv
<1>11. \A c \in Callers : Stays(c)
    BY <1>1 DEF Stays
<1>12. LockInv' /\ PassInv'
    BY <1>1, <1>10, <1>11, StayingKeepsInv
<1> QED BY <1>8, <1>9, <1>12 DEF IInv

----------------------------------------------------------------------------
(* Lost connections, resets and crashes *)

\* Passes that await the node end with the connection, the others stay.
LEMMA InterruptionKeepsInv ==
    ASSUME IInv, Interrupted, conn' = "down", attached' \in Boards, setup' \in {"none", "owned", "wiped", "recorded"},
           TablesOK', DOMAIN table'[Home] \subseteq DOMAIN table[Home],
           UNCHANGED <<contacts, nextId, awaiting, requested, deleted, notified, changes, packets>>,
           failed' \in BOOLEAN, faults' \in 0 .. MaxFaults
    PROVE  IInv'
<1>1. ASSUME NEW c \in Callers
      PROVE  /\ pass'[c] \in Pass /\ Stays(c)
             /\ pass'[c].pc \in Removing <=> pass[c].pc \in Removing /\ pass[c].pc \notin AwaitsNode
             /\ pass'[c].pc \notin {"list", "remove"}
    <2>1. pass[c] \in Pass /\ IdlePass \in Pass /\ IdlePass.pc = "idle"
        BY PassFacts, IdlePassFits DEF IdlePass
    <2>2. pass'[c] = IF pass[c].pc \in AwaitsNode THEN IdlePass ELSE pass[c]
        BY DEF Interrupted
    <2> QED BY <2>1, <2>2 DEF Stays, AwaitsNode, Removing
<1>2. pass' \in [Callers -> Pass]
    BY <1>1 DEF Interrupted
<1>3. sender' \in Sending /\ (sender'.pc = "idle" <=> sender.pc = "idle")
    BY DEF Interrupted, IInv, TypeOK, Sending
<1>4. pauses' = {c \in Callers : pass'[c].pc \in Removing}
    <2>1. pauses = {c \in Callers : pass[c].pc \in Removing} /\ pauses' = {c \in pauses : pass[c].pc \notin AwaitsNode}
        BY DEF Interrupted, IInv, LockInv
    <2> QED BY <1>1, <2>1
<1>5. RowsOK' /\ RowsInv'
    BY <1>3 DEF IInv, TypeOK, RowsOK, RowsInv
<1>6. TypeOK'
    BY <1>2, <1>3, <1>4, <1>5 DEF IInv, TypeOK
<1>7. LockInv' /\ PassInv'
    BY <1>1, <1>3, <1>4, StayingKeepsInv
<1> QED BY <1>5, <1>6, <1>7 DEF IInv

LEMMA LostLinkKeepsInv ==
    ASSUME IInv, LinkLost \/ PlugInHome
    PROVE  IInv'
<1>1. /\ UNCHANGED <<contacts, nextId, awaiting, table, setup, requested, deleted, notified, changes, packets>>
      /\ conn' = "down" /\ attached' \in Boards /\ Interrupted
    BY DEF LinkLost, PlugInHome, dbVars, boundVars, Boards
<1>2. failed' \in BOOLEAN /\ faults' \in 0 .. MaxFaults
    BY FaultsStayCounted DEF LinkLost, PlugInHome, boundVars, NoFault
<1>3. TablesOK' /\ setup' \in {"none", "owned", "wiped", "recorded"}
    BY <1>1 DEF IInv, TypeOK, TablesOK
<1> QED BY <1>1, <1>2, <1>3, InterruptionKeepsInv

LEMMA NodeResetKeepsInv ==
    ASSUME IInv, ResetNode
    PROVE  IInv'
<1>1. /\ UNCHANGED <<contacts, nextId, awaiting, attached, requested, deleted, notified, changes, packets, failed, faults>>
      /\ conn' = "down" /\ setup' = "wiped" /\ Interrupted /\ table' = [table EXCEPT ![Home] = Restrict(@, {})]
    BY DEF ResetNode, dbVars, boundVars
<1>2. Home \in Boards /\ attached' \in Boards /\ failed' \in BOOLEAN /\ faults' \in 0 .. MaxFaults
    BY <1>1 DEF IInv, TypeOK, Boards
<1>3. TablesOK' /\ DOMAIN table'[Home] = {}
    <2> DEFINE none == {}
    <2>1. none \subseteq DOMAIN table[Home] /\ table' = [table EXCEPT ![Home] = Restrict(@, none)]
        BY <1>1
    <2> HIDE DEF none
    <2>2. TablesOK' /\ DOMAIN table'[Home] = none
        BY <1>2, <2>1, TableWithOneLess
    <2> QED BY <2>2 DEF none
<1> QED BY <1>1, <1>2, <1>3, InterruptionKeepsInv

LEMMA CrashKeepsInv ==
    ASSUME IInv, Crash
    PROVE  IInv'
<1>1. /\ UNCHANGED <<contacts, nextId, awaiting, table, attached, setup, changes, packets>>
      /\ conn' = "down" /\ requested' = FALSE /\ deleted' = {} /\ notified' = FALSE
      /\ pass' = [c \in Callers |-> IdlePass] /\ pauses' = {} /\ sender' = IdleSender
    BY DEF Crash, dbVars
<1>2. failed' \in BOOLEAN /\ faults' \in 0 .. MaxFaults
    BY FaultsStayCounted DEF Crash
<1>3. IdlePass \in Pass /\ IdlePass.pc = "idle"
    BY IdlePassFits DEF IdlePass
<1>4. \A c \in Callers : pass'[c].pc = "idle"
    BY <1>1, <1>3
<1>5. sender' \in Sending /\ sender'.pc = "idle"
    BY <1>1, ConstantsAssumption DEF IdleSender, Sending, MaxIds
<1>6. RowsOK' /\ TablesOK'
    BY <1>1 DEF IInv, TypeOK, RowsOK, TablesOK
<1>7. TypeOK'
    BY <1>1, <1>2, <1>3, <1>5, <1>6 DEF IInv, TypeOK
<1>8. RowsInv'
    <2>1. awaiting + packets <= MaxPackets
        BY ConstantsAssumption DEF IInv, TypeOK, RowsInv
    <2>2. awaiting' + packets' + 0 <= MaxPackets
        BY <1>1, <2>1, ConstantsAssumption DEF IInv, TypeOK
    <2> QED BY <1>1, <1>5, <2>2 DEF IInv, RowsInv
<1>9. pauses' = {c \in Callers : pass'[c].pc \in Removing}
    BY <1>1, <1>4 DEF Removing
<1>10. LockInv' /\ PassInv'
    BY <1>1, <1>4, <1>5, <1>9, StayingKeepsInv DEF Stays
<1> QED BY <1>7, <1>8, <1>10 DEF IInv

----------------------------------------------------------------------------
(* The invariant *)

LEMMA InitImpliesInv == Init => IInv
<1> SUFFICES ASSUME Init PROVE IInv
    OBVIOUS
<1>1. PICK first, second, last \in Keys :
        /\ first < second /\ second < last
        /\ contacts = [i \in {1, 2} |-> [key |-> IF i = 1 THEN first ELSE second,
                                         sync |-> IF i = 1 THEN "on_node" ELSE "pending_add"]]
        /\ table = [b \in Boards |-> [k \in {last} \cup (IF b = Home THEN {first} ELSE {}) |-> "learned"]]
    BY DEF Init
<1>2. /\ nextId = 3 /\ attached = Home /\ conn = "connected" /\ setup = "none"
      /\ notified = TRUE /\ requested = FALSE /\ deleted = {} /\ pauses = {} /\ sender = IdleSender
      /\ pass = [c \in Callers |-> IdlePass] /\ awaiting = 0 /\ changes = MaxChanges /\ packets = MaxPackets
      /\ failed = FALSE /\ faults = MaxFaults
    BY DEF Init
<1>3. first \in Nat /\ second \in Nat /\ first # second
    BY <1>1, ConstantsAssumption
<1>4. /\ DOMAIN contacts = {1, 2} /\ contacts[1] = [key |-> first, sync |-> "on_node"]
      /\ contacts[2] = [key |-> second, sync |-> "pending_add"]
    BY <1>1
<1>5. RowsOK
    <2>1. Cardinality({1} \cup {2}) = 2
        <3>1. IsFiniteSet({1}) /\ Cardinality({1}) = 1
            BY FS_Singleton
        <3>2. 2 \notin {1}
            OBVIOUS
        <3>3. Cardinality({1} \cup {2}) = Cardinality({1}) + 1
            BY <3>1, <3>2, FS_AddElement, Zenon
        <3> QED BY <3>1, <3>3
    <2>2. {1, 2} = {1} \cup {2}
        OBVIOUS
    <2>3. DOMAIN contacts \subseteq 1 .. MaxIds
        BY <1>4, ConstantsAssumption DEF MaxIds
    <2>4. Cardinality(DOMAIN contacts) <= Capacity
        BY <1>4, <2>1, <2>2, ConstantsAssumption
    <2>5. \A i \in DOMAIN contacts : contacts[i] \in [key : Keys, sync : SyncStates]
        BY <1>4 DEF SyncStates
    <2> QED BY <2>3, <2>4, <2>5 DEF RowsOK
<1>6. TablesOK
    <2>1. \A b \in Boards : DOMAIN table[b] = {last} \cup (IF b = Home THEN {first} ELSE {})
        BY <1>1
    <2>2. IsFiniteSet({last}) /\ Cardinality({last}) = 1
        BY FS_Singleton
    <2>3. Cardinality({last} \cup {first}) = IF first \in {last} THEN Cardinality({last}) ELSE Cardinality({last}) + 1
        BY <2>2, FS_AddElement, Zenon
    <2>4. \A b \in Boards : Cardinality(DOMAIN table[b]) <= Capacity
        <3>1. {last} \cup {} = {last}
            OBVIOUS
        <3>2. Cardinality({last} \cup {first}) <= Capacity /\ Cardinality({last}) <= Capacity
            BY <2>2, <2>3, ConstantsAssumption
        <3> QED BY <2>1, <3>1, <3>2
    <2>5. \A b \in Boards : \A k \in DOMAIN table[b] : table[b][k] = "learned"
        BY <1>1
    <2> QED BY <1>1, <2>1, <2>4, <2>5 DEF TablesOK
<1>7. IdlePass \in Pass /\ IdlePass.pc = "idle" /\ \A held : PassFits(IdlePass, held)
    BY IdlePassFits DEF IdlePass
<1>8. sender \in Sending /\ sender.pc = "idle"
    BY <1>2, ConstantsAssumption DEF IdleSender, Sending, MaxIds
<1>9. TypeOK
    <2>1. /\ nextId \in 1 .. MaxIds + 1 /\ awaiting \in 0 .. MaxPackets /\ packets \in 0 .. MaxPackets
          /\ changes \in 0 .. MaxChanges /\ faults \in 0 .. MaxFaults
        BY <1>2, ConstantsAssumption DEF MaxIds
    <2>2. pass \in [Callers -> Pass]
        BY <1>2, <1>7
    <2>3. attached \in Boards /\ deleted \subseteq Keys /\ pauses \subseteq Callers
        BY <1>2 DEF Boards
    <2> QED BY <1>2, <1>5, <1>6, <1>8, <2>1, <2>2, <2>3 DEF TypeOK
<1>10. RowsInv
    <2>1. DOMAIN contacts \subseteq 1 .. nextId - 1
        BY <1>2, <1>4
    <2>2. \A i, j \in DOMAIN contacts : contacts[i].key = contacts[j].key => i = j
        BY <1>3, <1>4
    <2>3. /\ nextId + changes <= MaxIds + 1
          /\ awaiting + packets + (IF sender.pc = "idle" THEN 0 ELSE 1) <= MaxPackets
        BY <1>2, <1>8, ConstantsAssumption DEF MaxIds
    <2> QED BY <2>1, <2>2, <2>3 DEF RowsInv
<1>11. \A c \in Callers : pass[c] = IdlePass
    BY <1>2
<1>12. LockInv
    BY <1>2, <1>7, <1>11 DEF LockInv, Removing
<1>13. PassInv
    BY <1>7, <1>11 DEF PassInv
<1> QED BY <1>9, <1>10, <1>12, <1>13 DEF IInv

LEMMA StutteringKeepsInv == IInv /\ UNCHANGED vars => IInv'
<1> SUFFICES ASSUME IInv, UNCHANGED vars PROVE IInv'
    OBVIOUS
<1>1. /\ UNCHANGED <<contacts, nextId, awaiting, table, attached, conn, setup, requested, deleted, pass, pauses, sender>>
      /\ UNCHANGED <<notified, changes, packets, failed, faults>>
    BY DEF vars, dbVars, nodeVars, workVars, boundVars
<1>2. RowsOK' /\ TablesOK' /\ RowsInv'
    BY <1>1 DEF IInv, TypeOK, RowsOK, TablesOK, RowsInv
<1>3. TypeOK'
    BY <1>1, <1>2 DEF IInv, TypeOK
<1>4. LockInv' /\ PassInv'
    BY <1>1, PassesUntouched
<1> QED BY <1>2, <1>3, <1>4 DEF IInv

LEMMA NextKeepsInv == IInv /\ [Next]_vars => IInv'
BY PassesKeepInv, NewContactKeepsInv, DeletedContactKeepsInv, NotificationsKeepInv, SettledPacketKeepsInv,
   LearntRouteKeepsInv, NodeDeletionKeepsInv, HandledDeletionKeepsInv, RecordedResetKeepsInv,
   ConnectionKeepsInv, ConnectedKeepsInv, NewPassKeepsInv, PreparationKeepsInv, SendingKeepsInv,
   RecordedOutcomeKeepsInv, LostLinkKeepsInv, NodeResetKeepsInv, CrashKeepsInv, StutteringKeepsInv
   DEF Next, SendStep, Supervise

LEMMA InvHolds == Spec => []IInv
BY InitImpliesInv, NextKeepsInv, PTL DEF Spec

----------------------------------------------------------------------------
(* What follows *)

(* While a pass removes contacts (contact_reconciler.py, behind              *)
(* pause_sending and the quiet period) no packet awaits an acknowledgement   *)
(* and none is on its way to the node, for every number of packets and after *)
(* any interruption of the pass or of the connection.                        *)
THEOREM ContactsAreRemovedInQuiet == Spec => []RemovalsAreQuiet
<1>1. IInv => RemovalsAreQuiet
    BY DEF IInv, LockInv, RemovalsAreQuiet
<1> QED BY <1>1, InvHolds, PTL

(* The table of the configured node, once the extras are gone, holds only    *)
(* contacts the pass has read, so that there is room for each one refused.   *)
LEMMA InvImpliesRoom == IInv => RefusedContactsFit
<1> SUFFICES ASSUME IInv, NEW c \in Callers, pass[c].pc = "add", pass[c].retrying, attached = Home
             PROVE  ~IsFull(First(pass[c].todo).key)
    BY DEF RefusedContactsFit
<1> DEFINE p == pass[c]
           held == DOMAIN table[Home]
           key == First(p.todo).key
           keys == KeysOf(p.db)
<1>1. /\ ListsContacts(p.db) /\ AddsMissing(p, held) /\ First(p.todo) \in p.db
      /\ key \notin held /\ p \in Pass
    BY AddsOneOfItsOwn, PassFacts
<1>2. keys \subseteq Keys /\ Cardinality(keys) <= Capacity
    <2>1. p.db \subseteq Contact
        BY <1>1 DEF Pass
    <2> QED BY <1>1, <2>1 DEF ListsContacts, KeysOf, Contact
<1>3. held \subseteq keys /\ key \in keys
    BY <1>1 DEF AddsMissing, KeysOf
<1>4. held \cup {key} \in SUBSET keys
    BY <1>3
<1>5. IsFiniteSet(keys) /\ Cardinality(keys) \in Nat /\ IsFiniteSet(held) /\ Cardinality(held) \in Nat
    BY <1>2, <1>3, FiniteTables
<1>6. Cardinality(held \cup {key}) = Cardinality(held) + 1
    BY <1>1, <1>5, FS_AddElement, Zenon
<1> HIDE DEF held, key, keys
<1>7. Cardinality(held \cup {key}) <= Cardinality(keys)
    BY <1>4, <1>5, FS_Subset
<1>8. ~ (Cardinality(held) >= Capacity)
    BY <1>2, <1>5, <1>6, <1>7, ConstantsAssumption
<1> QED BY <1>8 DEF IsFull, held, key

(* The capacity limit of check_contact_addition and of the node's table      *)
(* holds, and with it every contact the full table refused is added in the   *)
(* second round, on a node of any capacity.                                  *)
THEOREM RefusedContactsFindRoom == Spec => []ContactsFit
<1>1. IInv => ContactsFit
    BY InvImpliesRoom DEF IInv, ContactsFit
<1> QED BY <1>1, InvHolds, PTL

\* No step overwrites a route the node has learned or empties another board.
RoutesSurvive ==
    /\ \A k \in DOMAIN table[Home] \cap DOMAIN table'[Home] :
            table[Home][k] = "learned" => table'[Home][k] = "learned"
    /\ DOMAIN table[Other] \subseteq DOMAIN table'[Other]

LEMMA AdditionsSpareRoutes ==
    ASSUME IInv, NEW c \in Callers, pass[c].pc = "add", ~IsFull(First(pass[c].todo).key),
           table' = TableWith(First(pass[c].todo).key)
    PROVE  RoutesSurvive
<1> DEFINE key == First(pass[c].todo).key
<1>1. key \in Keys /\ (attached = Home => key \notin DOMAIN table[Home])
    BY AddsOneOfItsOwn
<1> HIDE DEF key
<1>2. /\ DOMAIN table'[attached] = DOMAIN table[attached] \cup {key}
      /\ \A b \in Boards \ {attached} : table'[b] = table[b]
      /\ \A k \in DOMAIN table[attached] : k # key => table'[attached][k] = table[attached][k]
    BY <1>1, TableWithOneMore DEF key
<1>3. CASE attached = Home
    <2>1. table'[Other] = table[Other]
        BY <1>2, <1>3 DEF Boards, Home, Other
    <2> QED BY <1>1, <1>2, <1>3, <2>1 DEF RoutesSurvive
<1>4. CASE attached # Home
    <2>1. attached = Other /\ table'[Home] = table[Home]
        BY <1>2, <1>4 DEF Boards, Home, Other, IInv, TypeOK
    <2> QED BY <1>2, <2>1 DEF RoutesSurvive
<1> QED BY <1>3, <1>4

\* The contacts that go are those of the configured node.
LEMMA HomeLosesOnly ==
    ASSUME IInv, NEW S, S \subseteq DOMAIN table[Home], table' = [table EXCEPT ![Home] = Restrict(@, S)]
    PROVE  RoutesSurvive
<1>1. /\ DOMAIN table'[Home] = S /\ \A d \in Boards \ {Home} : table'[d] = table[d]
      /\ \A k \in S : table'[Home][k] = table[Home][k]
    BY TableWithOneLess DEF Boards
<1>2. table'[Other] = table[Other]
    BY <1>1 DEF Boards, Home, Other
<1> QED BY <1>1, <1>2 DEF RoutesSurvive

LEMMA StepsSpareRoutes == IInv /\ [Next]_vars => RoutesSurvive
<1> SUFFICES ASSUME IInv, [Next]_vars PROVE RoutesSurvive
    OBVIOUS
<1>1. CASE table' = table
    BY <1>1 DEF RoutesSurvive
<1>2. ASSUME NEW c \in Callers, PassStep(c) \/ PassFault(c)
      PROVE  RoutesSurvive
    <2>1. CASE AddToNode(c)
        BY <2>1, AdditionsSpareRoutes DEF AddToNode
    <2>2. CASE LoseAddition(c)
        BY <1>1, <2>2, AdditionsSpareRoutes DEF LoseAddition
    <2>3. CASE remove_contact(c)
        <3>1. attached = Home
            BY <2>3 DEF remove_contact, IInv, LockInv
        <3> DEFINE S == DOMAIN table[Home] \ {First(pass[c].todo).key}
        <3>2. table' = [table EXCEPT ![Home] = Restrict(@, S)] /\ S \subseteq DOMAIN table[Home]
            BY <2>3, <3>1 DEF remove_contact, IInv, TypeOK, TablesOK
        <3> HIDE DEF S
        <3> QED BY <3>2, HomeLosesOnly
    <2>4. CASE table' = table
        BY <1>1, <2>4
    <2> QED BY <1>2, <2>1, <2>2, <2>3, <2>4
            DEF PassStep, PassFault, BeginPass, list_contacts, ReadContacts, RefuseAsFull, RecordAddition,
                pause_sending, wait_until_no_packet_awaits_acknowledgement, CheckNode,
                mark_contacts_found_on_node, RefuseContact, PostponeRemovals, AbortPass, nodeVars
<1>3. CASE NodeDeletesContact
    <2>1. PICK key \in DOMAIN table[Home] : table' = [table EXCEPT ![Home] = Restrict(@, DOMAIN @ \ {key})]
        BY <1>3 DEF NodeDeletesContact
    <2> DEFINE S == DOMAIN table[Home] \ {key}
    <2>2. table' = [table EXCEPT ![Home] = Restrict(@, S)] /\ S \subseteq DOMAIN table[Home]
        BY <2>1
    <2> HIDE DEF S
    <2> QED BY <2>2, HomeLosesOnly
<1>4. CASE ResetNode
    <2> DEFINE none == {}
    <2>1. none \subseteq DOMAIN table[Home] /\ table' = [table EXCEPT ![Home] = Restrict(@, none)]
        BY <1>4 DEF ResetNode
    <2> HIDE DEF none
    <2> QED BY <2>1, HomeLosesOnly
<1>5. CASE LearnRoute
    <2>1. PICK key \in DOMAIN table[Home] : table' = [table EXCEPT ![Home][key] = "learned"]
        BY <1>5 DEF LearnRoute
    <2>2. DOMAIN table = Boards
        BY DEF IInv, TypeOK, TablesOK
    <2>3. table'[Other] = table[Other] /\ table'[Home] = [table[Home] EXCEPT ![key] = "learned"]
        BY <2>1, <2>2 DEF Boards, Home, Other
    <2> QED BY <2>3 DEF RoutesSurvive
<1>6. CASE UNCHANGED vars
    BY <1>1, <1>6 DEF vars, nodeVars
<1> QED BY <1>1, <1>2, <1>3, <1>4, <1>5, <1>6
        DEF Next, add_contact, delete_contact, handle_notification, LoseNotification, run,
            reconcile_contacts_command, prepare_next_packet, SendStep, send_text_message, record_send_outcome,
            PacketIsSettled, handle_deleted_contact, LinkLost, PlugInHome, Supervise, Connect, mark_connected,
            SetupBegins, complete_factory_reset, resume_relaying, Crash, nodeVars

(* A pass that works on a stale list, on a board that took the node's place, *)
(* or beside another pass, neither overwrites a contact whose route the node *)
(* has learned nor removes a contact from another board.                     *)
THEOREM StaleListsAreHarmless == Spec => StaleListsDoNoHarm
<1>1. IInv /\ [Next]_vars => [RoutesSurvive]_vars
    BY StepsSpareRoutes
<1> QED BY <1>1, InvHolds, PTL DEF Spec, StaleListsDoNoHarm, RoutesSurvive

----------------------------------------------------------------------------
(* Nothing is forgotten: what the stages of a pass account for *)

\* A listed contact names its row.
LEMMA ListedRows ==
    ASSUME NEW rows, NEW x \in list_contacts_for_node(rows)
    PROVE  x.id \in DOMAIN rows /\ x.key = rows[x.id].key /\ x.key \in KeysOf(list_contacts_for_node(rows))
BY DEF list_contacts_for_node, KeysOf

\* Keys and ids stay, rows are marked at most, and what leaves the node is known to be gone.
OnlyMarked(rows, later) ==
    /\ DOMAIN later = DOMAIN rows
    /\ \A i \in DOMAIN rows : later[i].key = rows[i].key /\ (rows[i].sync = "on_node" => later[i].sync = "on_node")

LEMMA MarkingKeepsTheList ==
    ASSUME NEW rows, NEW later, OnlyMarked(rows, later)
    PROVE  list_contacts_for_node(later) = list_contacts_for_node(rows)
BY DEF OnlyMarked, list_contacts_for_node

LEMMA StillCatchesUp ==
    ASSUME NEW p, NEW held, NEW gone, NEW rows, NEW less, NEW more, NEW later,
           OnlyMarked(rows, later), less \subseteq held,
           \A x \in list_contacts_for_node(rows) : x.key \in held \cup gone => x.key \in less \cup more
    PROVE  /\ PassCatchesUp(p, held, gone, rows) => PassCatchesUp(p, less, more, later)
           /\ \A marked : InStep(held, gone, rows, marked) => InStep(less, more, later, marked)
<1> DEFINE list == list_contacts_for_node(rows)
<1>1. list_contacts_for_node(later) = list
    BY MarkingKeepsTheList
<1>2. \A x \in list : rows[x.id].sync = "on_node" => later[x.id].sync = "on_node"
    BY ListedRows DEF OnlyMarked
<1>3. \A x \in list : x.key \in held \cup gone => x.key \in less \cup more
    OBVIOUS
<1>4. \A key \in KeysOf(list) : key \in held \cup gone => key \in less \cup more
    BY <1>3 DEF KeysOf
<1> HIDE DEF list
<1>5. ASSUME NEW marked, InStep(held, gone, rows, marked) PROVE InStep(less, more, later, marked)
    BY <1>1, <1>2, <1>4, <1>5 DEF InStep, list
<1>6. ASSUME PassCatchesUp(p, held, gone, rows) PROVE PassCatchesUp(p, less, more, later)
    <2>1. AccountsFor(p, held, gone, rows) => AccountsFor(p, less, more, later)
        BY <1>1, <1>2, <1>3 DEF AccountsFor, list
    <2>2. p.pc = "ok" => First(p.todo) \in list
        BY <1>6 DEF PassCatchesUp, AccountsFor, list
    <2>3. p.pc = "read" => p.listed \cap KeysOf(list) \subseteq less \cup more
        BY <1>4, <1>6 DEF PassCatchesUp, list
    <2>4. p.pc = "mark" => InStep(less, more, later, p.todo)
        BY <1>5, <1>6 DEF PassCatchesUp
    <2> QED BY <1>1, <1>3, <1>6, <2>1, <2>2, <2>3, <2>4 DEF PassCatchesUp
<1> QED BY <1>5, <1>6

\* What is accounted for, with nothing left to add.
LEMMA MarksCatchUp ==
    ASSUME NEW p, NEW held, NEW gone, NEW rows, p.db = list_contacts_for_node(rows), held \subseteq KeysOf(p.db),
           \A x \in p.db : x.key \in held \cup gone /\ (x.key \in p.listed \/ rows[x.id].sync = "on_node")
    PROVE  PassCatchesUp(Marks(p), held, gone, rows)
<1>1. Marks(p).pc = "mark" /\ Marks(p).todo = FoundOnNode(p)
    BY DEF Marks, IdlePass
<1>2. \A x \in p.db : rows[x.id].sync = "on_node" \/ x \in FoundOnNode(p)
    BY DEF FoundOnNode
<1>3. KeysOf(p.db) \subseteq held \cup gone
    BY DEF KeysOf
<1>4. InStep(held, gone, rows, FoundOnNode(p))
    BY <1>2, <1>3 DEF InStep
<1> QED BY <1>1, <1>4 DEF PassCatchesUp, Removing

LEMMA SecondRoundCatchesUp ==
    ASSUME NEW p \in Pass, NEW held, NEW gone, NEW rows, p.gen, held \subseteq KeysOf(p.db),
           p.db = list_contacts_for_node(rows), p.refused # {} => extra_public_keys(p) # {},
           \A x \in p.db \ p.refused : x.key \in held \cup gone /\ (x.key \in p.listed \/ rows[x.id].sync = "on_node")
    PROVE  PassCatchesUp(SecondRound(p), held, gone, rows) /\ SecondRound(p).pc # "idle"
<1> DEFINE again == [p EXCEPT !.retrying = TRUE, !.todo = p.refused]
           next == [again EXCEPT !.pc = "add"]
<1>1. /\ again \in Pass /\ again.retrying /\ again.todo = p.refused /\ again.gen
      /\ again.refused = p.refused /\ again.db = p.db /\ again.listed = p.listed
    BY DEF Pass
<1>2. extra_public_keys(again) = extra_public_keys(p)
    BY <1>1 DEF extra_public_keys
<1>3. SecondRound(p) = IF p.refused # {} THEN next ELSE Marks(again)
    BY <1>1, <1>2 DEF SecondRound, retry_contacts_refused_for_full_table
<1> HIDE DEF again
<1>4. /\ next \in Pass /\ next.pc = "add" /\ next.retrying /\ next.todo = p.refused /\ next.gen
      /\ next.refused = p.refused /\ next.db = p.db /\ next.listed = p.listed
    BY <1>1 DEF Pass, AwaitsNode
<1> HIDE DEF next
<1>5. CASE p.refused # {}
    <2>1. extra_public_keys(next) = extra_public_keys(p)
        BY <1>4 DEF extra_public_keys
    <2>2. LeftToAdd(next) = p.refused
        BY <1>4 DEF LeftToAdd, Removing
    <2>3. AccountsFor(next, held, gone, rows)
        BY <1>4, <2>1, <2>2 DEF AccountsFor
    <2>4. PassCatchesUp(next, held, gone, rows)
        BY <1>4, <2>3 DEF PassCatchesUp, Removing
    <2> QED BY <1>3, <1>4, <1>5, <2>4
<1>6. CASE p.refused = {}
    <2>1. PassCatchesUp(Marks(again), held, gone, rows)
        BY <1>1, <1>6, MarksCatchUp
    <2> QED BY <1>1, <1>3, <1>6, <2>1, MarksFit
<1> QED BY <1>5, <1>6

\* Whatever stage comes next, it accounts for the same rows.
LEMMA NextStageCatchesUp ==
    ASSUME NEW p \in Pass, NEW held, NEW gone, NEW rows, p.gen, p.pc \notin Removing, AddsMissing(p, held),
           AccountsFor(p, held, gone, rows)
    PROVE  /\ PassCatchesUp(reconcile_contacts_once(p), held, gone, rows)
           /\ reconcile_contacts_once(p).pc # "idle"
<1>1. /\ p.db = list_contacts_for_node(rows) /\ (p.refused # {} => extra_public_keys(p) # {})
      /\ (p.retrying => p.todo \subseteq p.refused)
      /\ \A x \in p.db \ LeftToAdd(p) :
           x.key \in held \cup gone /\ (x.key \in p.listed \/ rows[x.id].sync = "on_node")
      /\ LeftToAdd(p) = p.todo \cup (IF p.retrying THEN {} ELSE p.refused)
      /\ held \subseteq KeysOf(p.db) \cup (IF p.retrying THEN {} ELSE p.listed)
    BY DEF AccountsFor, LeftToAdd, AddsMissing
<1>2. CASE p.todo # {}
    <2> DEFINE next == [p EXCEPT !.pc = "add"]
    <2>1. reconcile_contacts_once(p) = next
        BY <1>1, <1>2 DEF reconcile_contacts_once, retry_contacts_refused_for_full_table
    <2>2. /\ next.pc = "add" /\ next.todo = p.todo /\ next.refused = p.refused /\ next.gen
          /\ next.db = p.db /\ next.listed = p.listed /\ next.retrying = p.retrying
        BY DEF Pass
    <2> HIDE DEF next
    <2>3. LeftToAdd(next) = LeftToAdd(p) /\ extra_public_keys(next) = extra_public_keys(p)
        BY <1>1, <2>2 DEF LeftToAdd, extra_public_keys, Removing
    <2>4. AccountsFor(next, held, gone, rows)
        BY <1>1, <2>2, <2>3 DEF AccountsFor
    <2>5. PassCatchesUp(next, held, gone, rows)
        BY <2>2, <2>4 DEF PassCatchesUp, Removing
    <2> QED BY <2>1, <2>2, <2>5
<1>3. CASE p.todo = {} /\ p.retrying
    <2>1. reconcile_contacts_once(p) = Marks(p)
        BY <1>3 DEF reconcile_contacts_once, retry_contacts_refused_for_full_table
    <2>2. PassCatchesUp(Marks(p), held, gone, rows)
        BY <1>1, <1>3, MarksCatchUp
    <2> QED BY <2>1, <2>2, MarksFit
<1>4. CASE p.todo = {} /\ ~p.retrying /\ extra_public_keys(p) # {}
    <2> DEFINE next == [p EXCEPT !.pc = "pause", !.todo = Extras(p)]
    <2>1. reconcile_contacts_once(p) = next
        BY <1>4 DEF reconcile_contacts_once
    <2>2. /\ next.pc = "pause" /\ next.todo = Extras(p) /\ next.refused = p.refused /\ next.gen
          /\ next.db = p.db /\ next.listed = p.listed /\ next.retrying = p.retrying
        BY DEF Pass
    <2> HIDE DEF next
    <2>3. LeftToAdd(next) = p.refused /\ LeftToAdd(p) = p.refused /\ extra_public_keys(next) = extra_public_keys(p)
        BY <1>1, <1>4, <2>2 DEF LeftToAdd, extra_public_keys, Removing
    <2>4. AccountsFor(next, held, gone, rows)
        BY <1>1, <1>4, <2>2, <2>3 DEF AccountsFor
    <2>5. KeysOf(next.todo) \cap KeysOf(next.db) = {}
        BY <2>2 DEF Extras, extra_public_keys, KeysOf
    <2>6. PassCatchesUp(next, held, gone, rows)
        BY <2>2, <2>4, <2>5 DEF PassCatchesUp
    <2> QED BY <2>1, <2>2, <2>6
<1>5. CASE p.todo = {} /\ ~p.retrying /\ extra_public_keys(p) = {}
    <2>1. reconcile_contacts_once(p) = SecondRound(p)
        BY <1>5 DEF reconcile_contacts_once
    <2>2. held \subseteq KeysOf(p.db)
        BY <1>1, <1>5 DEF extra_public_keys, KeysOf
    <2>3. \A x \in p.db \ p.refused : x.key \in held \cup gone /\ (x.key \in p.listed \/ rows[x.id].sync = "on_node")
        BY <1>1, <1>5
    <2> QED BY <1>1, <2>1, <2>2, <2>3, SecondRoundCatchesUp
<1> QED BY <1>2, <1>3, <1>4, <1>5

----------------------------------------------------------------------------
(* Nothing is forgotten: the steps *)

\* What NothingForgotten says while no pass is due.
LEMMA AtWorkOnly ==
    ASSUME IInv, NothingForgotten, ~PassIsDue
    PROVE  /\ ~notified /\ ~requested /\ ~failed /\ is_running /\ attached = Home /\ LinkUp
           /\ \A c \in Callers : pass[c].pc # "lock"
           /\ \A c \in Callers : pass[c].pc # "idle" =>
                /\ PassCatchesUp(pass[c], DOMAIN table[Home], deleted, contacts)
                /\ \A d \in Callers \ {c} : pass[d].pc = "idle"
BY DEF IInv, LockInv, NothingForgotten, PassIsDue, is_running, LinkUp

\* The one pass at work goes on to another stage.
LEMMA WorkGoesOn ==
    ASSUME IInv, NEW c \in Callers, NEW q, pass' = [pass EXCEPT ![c] = q], q.pc # "idle",
           \A d \in Callers \ {c} : pass[d].pc = "idle",
           PassCatchesUp(q, DOMAIN table'[Home], deleted', contacts')
    PROVE  NothingForgotten'
<1>1. pass'[c] = q /\ \A d \in Callers \ {c} : pass'[d].pc = "idle"
    BY DEF IInv, TypeOK
<1> QED BY <1>1 DEF NothingForgotten

\* A pass begins when the requests before it have been taken.
LEMMA BeginningCatchesUp ==
    ASSUME IInv, NothingForgotten, NEW c \in Callers, BeginPass(c), ~PassIsDue'
    PROVE  NothingForgotten'
<1>1. is_running
    BY DEF PassIsDue, BeginPass, nodeVars, is_running
<1> DEFINE q == [IdlePass EXCEPT !.pc = "list", !.gen = TRUE]
<1>2. pass' = [pass EXCEPT ![c] = q] /\ \A d \in Callers : pass[d].pc \in {"idle", "lock"}
    BY <1>1 DEF BeginPass, Go, reconciliation_lock_is_free
<1>3. \A d \in Callers \ {c} : pass[d].pc = "idle"
    <2> TAKE d \in Callers \ {c}
    <2>1. pass'[d] = pass[d]
        BY <1>2 DEF IInv, TypeOK
    <2> QED BY <1>2, <2>1 DEF PassIsDue
<1>4. q.pc = "list" /\ q.gen
    BY DEF IdlePass
<1> HIDE DEF q
<1>5. PassCatchesUp(q, DOMAIN table'[Home], deleted', contacts')
    BY <1>4 DEF PassCatchesUp, Removing
<1> QED BY <1>2, <1>3, <1>4, <1>5, WorkGoesOn

\* A pass at work, with nothing due, before and after one of its steps.
Working(c) ==
    /\ IInv /\ NothingForgotten /\ ~PassIsDue
    /\ pass[c].pc \notin {"idle", "lock"}

LEMMA WorkingFacts ==
    ASSUME NEW c \in Callers, Working(c)
    PROVE  /\ pass[c] \in Pass /\ PassFits(pass[c], DOMAIN table[Home])
           /\ PassCatchesUp(pass[c], DOMAIN table[Home], deleted, contacts)
           /\ \A d \in Callers \ {c} : pass[d].pc = "idle"
           /\ attached = Home /\ LinkUp /\ is_running
BY AtWorkOnly, PassFacts DEF Working

LEMMA ListingCatchesUp ==
    ASSUME NEW c \in Callers, Working(c), list_contacts(c)
    PROVE  NothingForgotten'
<1> DEFINE q == [pass[c] EXCEPT !.pc = "read", !.listed = DOMAIN table[Home]]
<1>0. pass[c] \in Pass /\ pass[c].gen /\ IInv
    BY WorkingFacts DEF list_contacts, PassCatchesUp, Working
<1>1. pass' = [pass EXCEPT ![c] = q] /\ UNCHANGED <<table, deleted, contacts>>
    BY WorkingFacts DEF list_contacts, Go, dbVars, nodeVars
<1>2. q.pc = "read" /\ q.gen /\ q.listed = DOMAIN table[Home]
    BY <1>0 DEF Pass
<1> HIDE DEF q
<1>3. PassCatchesUp(q, DOMAIN table'[Home], deleted', contacts')
    BY <1>1, <1>2 DEF PassCatchesUp, Removing
<1> QED BY <1>0, <1>1, <1>2, <1>3, WorkingFacts, WorkGoesOn

LEMMA ReadingCatchesUp ==
    ASSUME NEW c \in Callers, Working(c), ReadContacts(c)
    PROVE  NothingForgotten'
<1> DEFINE db == list_contacts_for_node(contacts)
           missing == {contact \in db : contact.key \notin pass[c].listed}
           p == [pass[c] EXCEPT !.db = db, !.todo = missing]
           held == DOMAIN table[Home]
<1>0. /\ pass[c] \in Pass /\ pass[c].gen /\ IInv /\ pass[c].pc = "read" /\ LinkUp
      /\ pass[c].refused = {} /\ ~pass[c].retrying /\ held \subseteq pass[c].listed
      /\ pass[c].listed \cap KeysOf(db) \subseteq held \cup deleted
    BY WorkingFacts DEF ReadContacts, PassCatchesUp, PassFits, Working
<1>1. Proceed(c, reconcile_contacts_once(p)) /\ UNCHANGED <<table, deleted, contacts>>
    BY DEF ReadContacts, dbVars, nodeVars
<1>2. pass' = [pass EXCEPT ![c] = reconcile_contacts_once(p)]
    BY <1>0, <1>1 DEF Proceed, Go
<1>3. db \in SUBSET Contact
    BY <1>0, ReadListsContacts
<1>4. /\ missing \subseteq db /\ \A x \in missing : x.key \notin pass[c].listed
      /\ \A x \in db \ missing : x.key \in pass[c].listed /\ x.key \in KeysOf(db)
    BY ListedRows
<1>5. db = list_contacts_for_node(contacts)
    OBVIOUS
<1> HIDE DEF missing, db
<1>6. /\ p \in Pass /\ p.db = db /\ p.todo = missing /\ p.listed = pass[c].listed /\ p.gen /\ p.pc = "read"
      /\ ~p.retrying /\ p.refused = {}
    BY <1>0, <1>3, <1>4 DEF Pass
<1> HIDE DEF p
<1>7. AddsMissing(p, held)
    BY <1>0, <1>4, <1>6 DEF AddsMissing
<1>8. AccountsFor(p, held, deleted, contacts)
    BY <1>0, <1>4, <1>5, <1>6 DEF AccountsFor, LeftToAdd, Removing
<1>9. /\ PassCatchesUp(reconcile_contacts_once(p), held, deleted, contacts)
      /\ reconcile_contacts_once(p).pc # "idle"
    BY <1>6, <1>7, <1>8, NextStageCatchesUp DEF Removing
<1> DEFINE q == reconcile_contacts_once(p)
<1>10. /\ pass' = [pass EXCEPT ![c] = q] /\ q.pc # "idle"
       /\ PassCatchesUp(q, DOMAIN table'[Home], deleted', contacts')
    BY <1>1, <1>2, <1>9
<1> HIDE DEF q
<1> QED BY <1>0, <1>10, WorkingFacts, WorkGoesOn

LEMMA AdditionCatchesUp ==
    ASSUME NEW c \in Callers, Working(c), AddToNode(c)
    PROVE  NothingForgotten'
<1> DEFINE p == pass[c]
           first == First(p.todo)
           q == [p EXCEPT !.pc = "ok"]
           held == DOMAIN table[Home]
           more == DOMAIN table'[Home]
<1>0. /\ p \in Pass /\ p.gen /\ IInv /\ p.pc = "add" /\ attached = Home /\ ~IsFull(first.key)
      /\ table' = TableWith(first.key) /\ AccountsFor(p, held, deleted, contacts)
      /\ first \in p.db /\ first.key \in Keys
    BY WorkingFacts, AddsOneOfItsOwn DEF AddToNode, PassCatchesUp, Working
<1>1. pass' = [pass EXCEPT ![c] = q] /\ UNCHANGED <<deleted, contacts>>
    BY DEF AddToNode, Go, dbVars
<1>2. more = held \cup {first.key}
    BY <1>0, TableWithOneMore
<1>3. /\ q.pc = "ok" /\ q.gen /\ q.listed = p.listed /\ q.todo = p.todo /\ q.db = p.db
      /\ q.refused = p.refused /\ q.retrying = p.retrying
    BY <1>0 DEF Pass
<1> HIDE DEF q
<1>4. LeftToAdd(q) = LeftToAdd(p) /\ extra_public_keys(q) = extra_public_keys(p)
    BY <1>0, <1>3 DEF LeftToAdd, extra_public_keys, Removing
<1>5. AccountsFor(q, more, deleted, contacts)
    BY <1>0, <1>2, <1>3, <1>4 DEF AccountsFor
<1>6. PassCatchesUp(q, more, deleted', contacts')
    BY <1>0, <1>1, <1>2, <1>3, <1>5 DEF PassCatchesUp, Removing
<1> HIDE DEF p
<1> QED BY <1>0, <1>1, <1>3, <1>6, WorkingFacts, WorkGoesOn

\* A contact that a full table refuses leaves more to remove than it has room.
LEMMA FullTablesHaveExtras ==
    ASSUME IInv, NEW c \in Callers, pass[c].pc = "add", ~pass[c].retrying, attached = Home,
           IsFull(First(pass[c].todo).key)
    PROVE  extra_public_keys(pass[c]) # {}
<1> SUFFICES ASSUME extra_public_keys(pass[c]) = {} PROVE FALSE
    OBVIOUS
<1> DEFINE p == pass[c]
           held == DOMAIN table[Home]
           key == First(p.todo).key
           keys == KeysOf(p.db)
<1>1. /\ ListsContacts(p.db) /\ AddsMissing(p, held) /\ First(p.todo) \in p.db
      /\ key \notin held /\ p \in Pass /\ Cardinality(held) >= Capacity
    BY AddsOneOfItsOwn, PassFacts DEF IsFull
<1>2. keys \subseteq Keys /\ Cardinality(keys) <= Capacity
    <2>1. p.db \subseteq Contact
        BY <1>1 DEF Pass
    <2> QED BY <1>1, <2>1 DEF ListsContacts, KeysOf, Contact
<1>3. held \subseteq keys /\ key \in keys
    BY <1>1 DEF AddsMissing, KeysOf, extra_public_keys
<1>4. held \cup {key} \in SUBSET keys
    BY <1>3
<1>5. IsFiniteSet(keys) /\ Cardinality(keys) \in Nat /\ IsFiniteSet(held) /\ Cardinality(held) \in Nat
    BY <1>2, <1>3, FiniteTables
<1>6. Cardinality(held \cup {key}) = Cardinality(held) + 1
    BY <1>1, <1>5, FS_AddElement, Zenon
<1> HIDE DEF held, key, keys
<1>7. Cardinality(held \cup {key}) <= Cardinality(keys)
    BY <1>4, <1>5, FS_Subset
<1> QED BY <1>1, <1>2, <1>5, <1>6, <1>7, ConstantsAssumption

LEMMA RefusalCatchesUp ==
    ASSUME NEW c \in Callers, Working(c), RefuseAsFull(c)
    PROVE  NothingForgotten'
<1> DEFINE p == pass[c]
           first == First(p.todo)
           r == [Done(p) EXCEPT !.refused = @ \cup {first}]
           q == reconcile_contacts_once(r)
           held == DOMAIN table[Home]
<1>0. /\ p \in Pass /\ p.gen /\ IInv /\ p.pc = "add" /\ attached = Home /\ IsFull(first.key) /\ LinkUp
      /\ AccountsFor(p, held, deleted, contacts) /\ p.todo # {} /\ ListsContacts(p.db)
      /\ first \in p.todo /\ first \in p.db /\ AddsMissing(p, held) /\ p.todo \in SUBSET Contact
    BY WorkingFacts, AddsOneOfItsOwn DEF RefuseAsFull, PassCatchesUp, Working, Pass
<1>1. ~p.retrying
    BY <1>0, InvImpliesRoom DEF RefusedContactsFit
<1>2. extra_public_keys(p) # {}
    BY <1>0, <1>1, FullTablesHaveExtras
<1>3. pass' = [pass EXCEPT ![c] = q] /\ UNCHANGED <<table, deleted, contacts>>
    BY <1>0, <1>1 DEF RefuseAsFull, Proceed, Go, dbVars, nodeVars
<1>4. /\ r \in Pass /\ r.db = p.db /\ r.listed = p.listed /\ ~r.retrying /\ r.pc = "add" /\ r.gen
      /\ r.todo = p.todo \ {first} /\ r.refused = p.refused \cup {first}
    BY <1>0, <1>1, DoneIsAPass DEF Pass
<1>5. AddsMissing(r, held)
    BY <1>0, <1>1, OneRefused
<1> HIDE DEF r
<1>6. LeftToAdd(r) = LeftToAdd(p) /\ extra_public_keys(r) = extra_public_keys(p)
    BY <1>0, <1>1, <1>4 DEF LeftToAdd, extra_public_keys, Removing
<1>7. AccountsFor(r, held, deleted, contacts)
    BY <1>0, <1>2, <1>4, <1>6 DEF AccountsFor
<1>8. PassCatchesUp(q, held, deleted, contacts) /\ q.pc # "idle"
    BY <1>4, <1>5, <1>7, NextStageCatchesUp DEF Removing
<1> HIDE DEF q, p
<1> QED BY <1>0, <1>3, <1>8, WorkingFacts, WorkGoesOn

\* One row is marked; the others are as they were.
LEMMA OneMarked ==
    ASSUME IInv, NEW x, mark_contact_on_node(x)
    PROVE  /\ OnlyMarked(contacts, contacts')
           /\ x \in list_contacts_for_node(contacts) => contacts'[x.id].sync = "on_node"
<1>1. contacts' = SetSync(contacts, x.id, x.key, "on_node")
    BY DEF mark_contact_on_node
<1>2. \A i \in DOMAIN contacts : contacts[i] \in [key : Keys, sync : SyncStates]
    BY DEF IInv, TypeOK, RowsOK
<1>3. x \in list_contacts_for_node(contacts) => x.id \in DOMAIN contacts /\ x.key = contacts[x.id].key
    BY ListedRows
<1> QED BY <1>1, <1>2, <1>3 DEF SetSync, OnlyMarked

LEMMA RecordingCatchesUp ==
    ASSUME NEW c \in Callers, Working(c), RecordAddition(c)
    PROVE  NothingForgotten'
<1> DEFINE p == pass[c]
           first == First(p.todo)
           r == Done(p)
           q == reconcile_contacts_once(r)
           held == DOMAIN table[Home]
<1>0. /\ p \in Pass /\ p.gen /\ IInv /\ p.pc = "ok" /\ attached = Home /\ LinkUp
      /\ AccountsFor(p, held, deleted, contacts) /\ AddsMissing(r, held)
      /\ first \in p.db /\ first.key \in held \cup deleted /\ p.db = list_contacts_for_node(contacts)
    BY WorkingFacts DEF RecordAddition, PassCatchesUp, PassFits, Working, AccountsFor
<1>1. mark_contact_on_node(first) /\ UNCHANGED <<table, deleted>> /\ pass' = [pass EXCEPT ![c] = q]
    BY <1>0 DEF RecordAddition, Proceed, Go, nodeVars
<1>2. OnlyMarked(contacts, contacts') /\ contacts'[first.id].sync = "on_node"
    BY <1>0, <1>1, OneMarked
<1>3. /\ list_contacts_for_node(contacts') = p.db
      /\ \A x \in p.db : contacts[x.id].sync = "on_node" => contacts'[x.id].sync = "on_node"
    BY <1>0, <1>2, MarkingKeepsTheList, ListedRows DEF OnlyMarked
<1>4. /\ r \in Pass /\ r.db = p.db /\ r.listed = p.listed /\ r.retrying = p.retrying /\ r.pc = "ok" /\ r.gen
      /\ r.todo = p.todo \ {first} /\ r.refused = p.refused
    BY <1>0, DoneIsAPass DEF Done
<1> HIDE DEF r
<1>5. \A x \in p.db : x \notin LeftToAdd(r) => x = first \/ x \notin LeftToAdd(p)
    BY <1>0, <1>4 DEF LeftToAdd, Removing
<1>6. extra_public_keys(r) = extra_public_keys(p)
    BY <1>4 DEF extra_public_keys
<1> HIDE DEF p, first
<1>7. \A x \in r.db \ LeftToAdd(r) :
         x.key \in held \cup deleted /\ (x.key \in r.listed \/ contacts'[x.id].sync = "on_node")
    BY <1>0, <1>2, <1>3, <1>4, <1>5 DEF AccountsFor
<1>8. AccountsFor(r, held, deleted, contacts')
    BY <1>0, <1>3, <1>4, <1>6, <1>7 DEF AccountsFor
<1>9. PassCatchesUp(q, held, deleted, contacts') /\ q.pc # "idle"
    BY <1>0, <1>4, <1>8, NextStageCatchesUp DEF Removing
<1> HIDE DEF q
<1> QED BY <1>0, <1>1, <1>9, WorkingFacts, WorkGoesOn

\* The stages before the first removal; the node was not replaced meanwhile.
LEMMA WaitingCatchesUp ==
    ASSUME NEW c \in Callers, Working(c),
           pause_sending(c) \/ wait_until_no_packet_awaits_acknowledgement(c) \/ CheckNode(c)
    PROVE  NothingForgotten'
<1> DEFINE p == pass[c]
           held == DOMAIN table[Home]
<1>0. p \in Pass /\ IInv /\ p.pc \in Removing /\ PassCatchesUp(p, held, deleted, contacts) /\ is_running /\ p.gen
    BY WorkingFacts DEF pause_sending, wait_until_no_packet_awaits_acknowledgement, CheckNode, Removing,
                        Working, PassCatchesUp
<1>1. PICK pc \in {"quiet", "check", "remove"} : pass' = [pass EXCEPT ![c] = [p EXCEPT !.pc = pc]]
    BY <1>0 DEF pause_sending, wait_until_no_packet_awaits_acknowledgement, CheckNode, Go,
                require_listed_node_still_running
<1>2. UNCHANGED <<table, deleted, contacts>>
    BY DEF pause_sending, wait_until_no_packet_awaits_acknowledgement, CheckNode, dbVars, nodeVars
<1> DEFINE q == [p EXCEPT !.pc = pc]
<1>3. /\ q.pc = pc /\ q.gen /\ q.listed = p.listed /\ q.todo = p.todo /\ q.db = p.db
      /\ q.refused = p.refused /\ q.retrying = p.retrying
    BY <1>0 DEF Pass
<1> HIDE DEF q
<1>4. LeftToAdd(q) = LeftToAdd(p) /\ extra_public_keys(q) = extra_public_keys(p)
    BY <1>0, <1>3 DEF LeftToAdd, extra_public_keys, Removing
<1>5. AccountsFor(q, held, deleted, contacts)
    BY <1>0, <1>3, <1>4 DEF AccountsFor, PassCatchesUp
<1>6. PassCatchesUp(q, held, deleted, contacts)
    BY <1>0, <1>3, <1>5 DEF PassCatchesUp, Removing
<1>7. pass' = [pass EXCEPT ![c] = q]
    BY <1>1 DEF q
<1> HIDE DEF p
<1> QED BY <1>0, <1>2, <1>3, <1>6, <1>7, WorkingFacts, WorkGoesOn

LEMMA RemovingCatchesUp ==
    ASSUME NEW c \in Callers, Working(c), remove_contact(c)
    PROVE  NothingForgotten'
<1> DEFINE p == pass[c]
           key == First(p.todo).key
           r == Done(p)
           q == IF r.todo # {} THEN r ELSE SecondRound(r)
           held == DOMAIN table[Home]
           less == held \ {key}
<1>0. /\ p \in Pass /\ p.gen /\ IInv /\ p.pc = "remove" /\ attached = Home /\ LinkUp
      /\ AccountsFor(p, held, deleted, contacts) /\ RemovesExtras(p, held) /\ ListsContacts(p.db)
      /\ p.todo # {} /\ KeysOf(p.todo) \cap KeysOf(p.db) = {} /\ p.todo \in SUBSET Contact
    BY WorkingFacts DEF remove_contact, PassCatchesUp, PassFits, Working, Removing, Pass
<1>1. DOMAIN table'[Home] = less
    <2>1. less \subseteq held /\ Home \in Boards
        BY DEF Boards
    <2>2. table' = [table EXCEPT ![Home] = Restrict(@, less)]
        BY <1>0 DEF remove_contact, IInv, TypeOK, TablesOK
    <2> HIDE DEF less
    <2> QED BY <1>0, <2>1, <2>2, TableWithOneLess
<1>2. pass' = [pass EXCEPT ![c] = q] /\ UNCHANGED <<deleted, contacts>>
    BY <1>0 DEF remove_contact, Proceed, Go, dbVars
<1>3. key \notin KeysOf(p.db)
    <2>1. First(p.todo) \in p.todo
        BY <1>0, FirstIsToDo, ConstantsAssumption
    <2>2. key \in KeysOf(p.todo)
        BY <2>1 DEF KeysOf
    <2> QED BY <1>0, <2>2
<1>4. /\ r \in Pass /\ r.db = p.db /\ r.listed = p.listed /\ r.retrying = p.retrying /\ r.pc = "remove" /\ r.gen
      /\ r.todo = p.todo \ {First(p.todo)} /\ r.refused = p.refused
    BY <1>0, DoneIsAPass DEF Done
<1>5. r.todo = {} => less \subseteq KeysOf(p.db)
    BY <1>0, OneRemoved
<1> HIDE DEF r, key
<1>6. LeftToAdd(r) = r.refused /\ LeftToAdd(p) = p.refused /\ extra_public_keys(r) = extra_public_keys(p)
    BY <1>0, <1>4 DEF LeftToAdd, extra_public_keys, Removing
<1>7. \A x \in r.db \ r.refused :
         x.key \in less \cup deleted /\ (x.key \in r.listed \/ contacts[x.id].sync = "on_node")
    <2> TAKE x \in r.db \ r.refused
    <2>1. x.key \in held \cup deleted /\ (x.key \in r.listed \/ contacts[x.id].sync = "on_node")
        BY <1>0, <1>4, <1>6 DEF AccountsFor
    <2>2. x.key # key
        BY <1>3, <1>4 DEF KeysOf
    <2> QED BY <2>1, <2>2
<1>8. /\ r.db = list_contacts_for_node(contacts) /\ (r.refused # {} => extra_public_keys(r) # {})
      /\ (r.retrying => r.todo \subseteq r.refused)
    BY <1>0, <1>4, <1>6 DEF AccountsFor
<1>9. CASE r.todo # {}
    <2>1. AccountsFor(r, less, deleted, contacts)
        BY <1>6, <1>7, <1>8 DEF AccountsFor
    <2>2. KeysOf(r.todo) \cap KeysOf(r.db) = {}
        BY <1>0, <1>4 DEF KeysOf
    <2>3. PassCatchesUp(r, less, deleted, contacts)
        BY <1>4, <2>1, <2>2 DEF PassCatchesUp
    <2>4. pass' = [pass EXCEPT ![c] = r]
        BY <1>2, <1>9
    <2> HIDE DEF less, p
    <2> QED BY <1>0, <1>1, <1>2, <1>4, <2>3, <2>4, WorkingFacts, WorkGoesOn
<1>10. CASE r.todo = {}
    <2> DEFINE s == SecondRound(r)
    <2> HIDE DEF less, p
    <2>0. less \subseteq KeysOf(r.db)
        BY <1>4, <1>5, <1>10
    <2>1. PassCatchesUp(s, less, deleted, contacts) /\ s.pc # "idle"
        BY <1>4, <1>7, <1>8, <2>0, SecondRoundCatchesUp
    <2>2. pass' = [pass EXCEPT ![c] = s]
        BY <1>2, <1>10
    <2> HIDE DEF s, less, p
    <2> QED BY <1>0, <1>1, <1>2, <2>1, <2>2, WorkingFacts, WorkGoesOn
<1> QED BY <1>9, <1>10

LEMMA MarkingCatchesUp ==
    ASSUME NEW c \in Callers, Working(c), mark_contacts_found_on_node(c)
    PROVE  NothingForgotten'
<1> DEFINE p == pass[c]
           held == DOMAIN table[Home]
<1>0. /\ p \in Pass /\ IInv /\ p.pc = "mark" /\ InStep(held, deleted, contacts, p.todo)
      /\ UNCHANGED <<table, deleted>> /\ \A d \in Callers \ {c} : pass[d].pc = "idle"
    BY WorkingFacts DEF mark_contacts_found_on_node, PassCatchesUp, Working, nodeVars
<1>1. CASE p.todo = {}
    <2>1. contacts' = contacts /\ pass' = [pass EXCEPT ![c] = IdlePass]
        BY <1>1 DEF mark_contacts_found_on_node, Go
    <2>2. \A d \in Callers : pass'[d].pc = "idle"
        BY <1>0, <2>1 DEF IInv, TypeOK, IdlePass
    <2> QED BY <1>0, <1>1, <2>1, <2>2 DEF NothingForgotten
<1>2. CASE p.todo # {}
    <2> DEFINE r == Done(p)
               first == First(p.todo)
    <2>1. mark_contact_on_node(first) /\ pass' = [pass EXCEPT ![c] = r]
        BY <1>2 DEF mark_contacts_found_on_node, Go
    <2>2. /\ OnlyMarked(contacts, contacts')
          /\ first \in list_contacts_for_node(contacts) => contacts'[first.id].sync = "on_node"
        BY <1>0, <2>1, OneMarked
    <2>3. r.pc = "mark" /\ r.todo = p.todo \ {first}
        BY <1>0, DoneIsAPass
    <2>4. /\ list_contacts_for_node(contacts') = list_contacts_for_node(contacts)
          /\ \A x \in list_contacts_for_node(contacts) :
                contacts[x.id].sync = "on_node" => contacts'[x.id].sync = "on_node"
        BY <2>2, MarkingKeepsTheList, ListedRows DEF OnlyMarked
    <2> HIDE DEF first, r
    <2>5. InStep(held, deleted, contacts', r.todo)
        BY <1>0, <2>2, <2>3, <2>4 DEF InStep
    <2>6. PassCatchesUp(r, held, deleted, contacts')
        BY <2>3, <2>5 DEF PassCatchesUp, Removing
    <2> HIDE DEF p
    <2> QED BY <1>0, <2>1, <2>3, <2>6, WorkGoesOn
<1> QED BY <1>1, <1>2

\* A step of a pass leaves alone whatever makes another pass due.
LEMMA PassesCatchUp ==
    ASSUME IInv, NothingForgotten, NEW c \in Callers, PassStep(c) \/ PassFault(c), ~PassIsDue'
    PROVE  NothingForgotten'
<1>1. CASE BeginPass(c)
    BY <1>1, BeginningCatchesUp
<1>2. CASE PassFault(c)
    BY <1>2 DEF PassFault, RefuseContact, LoseAddition, PostponeRemovals, AbortPass, Fail, PassIsDue
<1>3. CASE PassStep(c) /\ ~BeginPass(c)
    <2>1. UNCHANGED <<notified, requested, failed, conn, attached, setup>>
        BY <1>3 DEF PassStep, list_contacts, ReadContacts, AddToNode, RefuseAsFull, RecordAddition, pause_sending,
                    wait_until_no_packet_awaits_acknowledgement, CheckNode, remove_contact,
                    mark_contacts_found_on_node, nodeVars, boundVars
    <2>2. pass[c].pc \notin {"idle", "lock"}
        BY <1>3 DEF PassStep, list_contacts, ReadContacts, AddToNode, RefuseAsFull, RecordAddition, pause_sending,
                    wait_until_no_packet_awaits_acknowledgement, CheckNode, remove_contact,
                    mark_contacts_found_on_node
    <2>3. \E q : pass' = [pass EXCEPT ![c] = q]
        BY <1>3 DEF PassStep, list_contacts, ReadContacts, AddToNode, RefuseAsFull, RecordAddition, pause_sending,
                    wait_until_no_packet_awaits_acknowledgement, CheckNode, remove_contact,
                    mark_contacts_found_on_node, Go, Proceed, Abort
    <2>4. \A d \in Callers : pass[d].pc = "lock" => pass'[d].pc = "lock"
        BY <2>2, <2>3 DEF IInv, TypeOK
    <2>5. ~PassIsDue
        BY <2>1, <2>4 DEF PassIsDue, is_running
    <2>6. Working(c)
        BY <2>2, <2>5 DEF Working
    <2> QED BY <1>3, <2>6, ListingCatchesUp, ReadingCatchesUp, AdditionCatchesUp, RefusalCatchesUp, RecordingCatchesUp,
               WaitingCatchesUp, RemovingCatchesUp, MarkingCatchesUp DEF PassStep
<1> QED BY <1>1, <1>2, <1>3

\* What the node deletes, learns or answers leaves the accounts as they are.
LEMMA OtherwiseTheSame ==
    ASSUME NothingForgotten, ~PassIsDue, pass' = pass, DOMAIN table'[Home] \subseteq DOMAIN table[Home],
           OnlyMarked(contacts, contacts'),
           \A x \in list_contacts_for_node(contacts) :
              x.key \in DOMAIN table[Home] \cup deleted => x.key \in DOMAIN table'[Home] \cup deleted'
    PROVE  NothingForgotten'
<1> DEFINE held == DOMAIN table[Home]
           less == DOMAIN table'[Home]
<1>1. /\ \A p : PassCatchesUp(p, held, deleted, contacts) => PassCatchesUp(p, less, deleted', contacts')
      /\ \A marked : InStep(held, deleted, contacts, marked) => InStep(less, deleted', contacts', marked)
    BY StillCatchesUp
<1> HIDE DEF held, less
<1> QED BY <1>1 DEF NothingForgotten, held, less

LEMMA SameRows == OnlyMarked(contacts, contacts)
BY DEF OnlyMarked

LEMMA DeletionsCatchUp ==
    ASSUME IInv, NothingForgotten, ~PassIsDue, NodeDeletesContact \/ handle_deleted_contact, ~PassIsDue'
    PROVE  NothingForgotten'
<1>1. CASE NodeDeletesContact
    <2>1. PICK key \in DOMAIN table[Home] :
            /\ table' = [table EXCEPT ![Home] = Restrict(@, DOMAIN @ \ {key})]
            /\ deleted' = deleted \cup {key}
        BY <1>1 DEF NodeDeletesContact
    <2>2. pass' = pass /\ contacts' = contacts
        BY <1>1 DEF NodeDeletesContact, dbVars
    <2> DEFINE less == DOMAIN table[Home] \ {key}
    <2>3. DOMAIN table'[Home] = less
        <3>1. less \subseteq DOMAIN table[Home] /\ Home \in Boards
            BY DEF Boards
        <3>2. table' = [table EXCEPT ![Home] = Restrict(@, less)]
            BY <2>1 DEF IInv, TypeOK, TablesOK
        <3> HIDE DEF less
        <3> QED BY <3>1, <3>2, TableWithOneLess
    <2> QED BY <2>1, <2>2, <2>3, SameRows, OtherwiseTheSame
<1>2. CASE handle_deleted_contact
    <2>1. PICK key \in deleted :
            /\ return_contact_to_pending_add(key) /\ deleted' = deleted \ {key}
            /\ requested' = (requested \/ key \in ContactKeys)
        BY <1>2 DEF handle_deleted_contact
    <2>2. pass' = pass /\ table' = table
        BY <1>2 DEF handle_deleted_contact, nodeVars
    <2>3. \A i \in DOMAIN contacts : contacts[i].key # key
        BY <2>1 DEF PassIsDue, ContactKeys
    <2>4. OnlyMarked(contacts, contacts')
        BY <2>1, <2>3 DEF return_contact_to_pending_add, OnlyMarked
    <2>5. \A x \in list_contacts_for_node(contacts) : x.key # key
        BY <2>3, ListedRows
    <2> QED BY <2>1, <2>2, <2>4, <2>5, OtherwiseTheSame
<1> QED BY <1>1, <1>2

LEMMA StepsForgetNothing == IInv /\ NothingForgotten /\ [Next]_vars => NothingForgotten'
<1> SUFFICES ASSUME IInv, NothingForgotten, [Next]_vars, ~PassIsDue' PROVE NothingForgotten'
    BY DEF NothingForgotten
<1>0. pass \in [Callers -> Pass] /\ DOMAIN table = Boards
    BY DEF IInv, TypeOK, TablesOK
<1>1. ASSUME NEW c \in Callers, PassStep(c) \/ PassFault(c) PROVE NothingForgotten'
    BY <1>1, PassesCatchUp
<1>2. CASE NodeDeletesContact \/ handle_deleted_contact
    <2>1. ~PassIsDue
        BY <1>2 DEF NodeDeletesContact, handle_deleted_contact, PassIsDue, is_running, nodeVars, boundVars, Spend
    <2> QED BY <1>2, <2>1, DeletionsCatchUp
<1>3. CASE LearnRoute
    <2>1. PICK key \in DOMAIN table[Home] : table' = [table EXCEPT ![Home][key] = "learned"]
        BY <1>3 DEF LearnRoute
    <2>2. table'[Home] = [table[Home] EXCEPT ![key] = "learned"]
        BY <1>0, <2>1 DEF Boards
    <2>3. DOMAIN table'[Home] = DOMAIN table[Home]
        BY <2>2
    <2>4. ~PassIsDue /\ pass' = pass /\ deleted' = deleted /\ contacts' = contacts
        BY <1>3 DEF LearnRoute, PassIsDue, is_running, dbVars, workVars, boundVars
    <2> QED BY <2>3, <2>4, SameRows, OtherwiseTheSame
<1>4. CASE prepare_next_packet \/ SendStep \/ PacketIsSettled \/ UNCHANGED vars
    <2>1. UNCHANGED <<table, deleted, pass, conn, attached, setup, notified, failed>>
        BY <1>4 DEF prepare_next_packet, SendStep, send_text_message, record_send_outcome, PacketIsSettled, vars,
                    dbVars, nodeVars, workVars, boundVars
    <2>2. (requested => requested') /\ (contacts' = contacts \/ requested' = TRUE)
        BY <1>4 DEF prepare_next_packet, SendStep, send_text_message, record_send_outcome, PacketIsSettled, vars,
                    dbVars, workVars, boundVars
    <2>3. ~PassIsDue /\ contacts' = contacts
        BY <2>1, <2>2 DEF PassIsDue, is_running
    <2> QED BY <2>1, <2>3, SameRows, OtherwiseTheSame
<1>5. ASSUME \/ add_contact \/ delete_contact \/ handle_notification \/ LoseNotification
             \/ LinkLost \/ PlugInHome \/ Supervise \/ SetupBegins \/ ResetNode \/ complete_factory_reset
             \/ resume_relaying \/ Crash
      PROVE  FALSE
    BY <1>5 DEF add_contact, delete_contact, handle_notification, LoseNotification, LinkLost, PlugInHome, Supervise,
                Connect, mark_connected, SetupBegins, ResetNode, complete_factory_reset, resume_relaying, Crash,
                Fail, PassIsDue, is_running
<1>6. ASSUME run \/ reconcile_contacts_command PROVE FALSE
    <2>1. "loop" \in Callers /\ "command" \in Callers /\ [IdlePass EXCEPT !.pc = "lock"].pc = "lock"
        BY DEF Callers, IdlePass
    <2>2. is_running' => is_running
        BY <1>6 DEF run, reconcile_contacts_command, is_running, nodeVars
    <2>3. \E c \in Callers : is_running => pass'[c].pc = "lock"
        BY <1>0, <1>6, <2>1 DEF run, reconcile_contacts_command, Go
    <2> QED BY <2>2, <2>3 DEF PassIsDue
<1> QED BY <1>1, <1>2, <1>3, <1>4, <1>5, <1>6 DEF Next

LEMMA InitForgetsNothing == Init => NothingForgotten
BY DEF Init, NothingForgotten, PassIsDue

(* Whatever was added, deleted, refused, swapped or cut off on the way, once *)
(* no notification and no request is under way and no pass is at work, the   *)
(* configured node holds exactly the contacts and each is marked so, unless  *)
(* something failed that only the periodic pass of contact_reconciler.py     *)
(* makes good.                                                               *)
THEOREM NothingIsForgotten == Spec => []QuietMeansSynced
<1>1. IInv /\ NothingForgotten => QuietMeansSynced
    <2> SUFFICES ASSUME NothingForgotten, is_running, ~notified, ~requested, deleted = {}, ~failed,
                        \A c \in Callers : pass[c].pc = "idle"
                 PROVE  Synced
        BY DEF QuietMeansSynced
    <2>1. InStep(DOMAIN table[Home], {}, contacts, {})
        BY DEF NothingForgotten, PassIsDue
    <2>2. KeysOf(list_contacts_for_node(contacts)) = ContactKeys
        <3>1. ASSUME NEW i \in DOMAIN contacts
              PROVE  contacts[i].key \in KeysOf(list_contacts_for_node(contacts))
            <4>1. [id |-> i, key |-> contacts[i].key] \in list_contacts_for_node(contacts)
                BY DEF list_contacts_for_node
            <4>2. [id |-> i, key |-> contacts[i].key].key = contacts[i].key
                OBVIOUS
            <4> QED BY <4>1, <4>2 DEF KeysOf
        <3>2. ASSUME NEW k \in KeysOf(list_contacts_for_node(contacts))
              PROVE  k \in ContactKeys
            <4>1. PICK x \in list_contacts_for_node(contacts) : k = x.key
                BY <3>2 DEF KeysOf
            <4> QED BY <4>1, ListedRows DEF ContactKeys
        <3>3. ContactKeys \subseteq KeysOf(list_contacts_for_node(contacts))
            BY <3>1 DEF ContactKeys
        <3> QED BY <3>2, <3>3
    <2>3. \A i \in DOMAIN contacts : contacts[i].sync = "on_node"
        <3> TAKE i \in DOMAIN contacts
        <3>1. [id |-> i, key |-> contacts[i].key] \in list_contacts_for_node(contacts)
            BY DEF list_contacts_for_node
        <3> QED BY <2>1, <3>1 DEF InStep
    <2> QED BY <2>1, <2>2, <2>3 DEF InStep, Synced
<1> QED BY <1>1, InvHolds, InitForgetsNothing, StepsForgetNothing, PTL DEF Spec
=============================================================================
