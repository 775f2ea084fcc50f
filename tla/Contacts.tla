------------------------------ MODULE Contacts ------------------------------
(***************************************************************************)
(* Keeping the node's contact table equal to the contacts table: the panel *)
(* that adds and deletes contacts (directory/contacts.py), the reconciler  *)
(* (worker/contact_reconciler.py) run by its own loop and by a node        *)
(* command, the sender it holds back (SendingGate), the quiet period       *)
(* before a removal (worker/node_quiet_period.py), and the node, which is  *)
(* reconnected, replaced by another board, reset, or forgets a contact.    *)
(*                                                                         *)
(* A pass awaits the node or the database at every value of pc.  What it   *)
(* listed and read may be stale when it goes on.  A command under way      *)
(* fails with its connection, before a new one can be made; a pass that    *)
(* waits for the database goes on with whatever node is attached then.     *)
(*                                                                         *)
(* Abstractions.  A public key is a number.  Names, adverts and positions  *)
(* of a contact are left out, and so is the relay's own key, which no node *)
(* lists.  Of a packet only its contact is kept and whether it awaits an   *)
(* acknowledgement.  The connection generation is compared only with the   *)
(* one a pass began with: the pass keeps whether it is still the current.  *)
(***************************************************************************)
EXTENDS Integers, FiniteSets, Functions

CONSTANTS
    Keys,        \* public keys of contacts
    Capacity,    \* CONTACT_CAPACITY, also the size of the node's table
    MaxChanges,  \* bound: contacts the panel adds or deletes
    MaxPackets,  \* bound: packets sent
    MaxFaults    \* bound: lost links, swapped boards, resets, crashes, lost or refused
                 \* commands, lost notifications, clock steps, passes of the operator

ASSUME ConstantsAssumption ==
    /\ Keys \subseteq Nat /\ IsFiniteSet(Keys) /\ Keys # {}
    /\ Capacity \in Nat \ {0, 1} /\ MaxChanges \in Nat
    /\ MaxPackets \in Nat /\ MaxFaults \in Nat

VARIABLES
    contacts,   \* contacts: id -> [key, sync]
    nextId,     \* the next contact id
    table,      \* board -> the node's contacts: key -> "flood" or "learned"
    attached,   \* the board that is plugged in
    conn,       \* "down", "handshaking" (commands already reach the node), "connected"
    setup,      \* "none", "owned" by a setup run, "wiped", "recorded"
    notified,   \* a relay_contacts_changed notification is under way
    requested,  \* reconcile_requested
    deleted,    \* keys of the NodeDeletedContact events in the queue
    pass,       \* caller -> its pass: [pc, gen, listed, db, todo, refused, retrying]
    pauses,     \* the callers whose pause_sending is in effect
    sender,     \* the send step: [pc, id, key]
    awaiting,   \* recorded packets that are not acknowledged, deadline not passed
    changes,    \* changes by the panel still to come
    packets,    \* packets still to come
    failed,     \* history: something failed since the last pass began that only
                \* the periodic pass makes good
    faults      \* faults still to come

dbVars == <<contacts, nextId, awaiting>>
nodeVars == <<table, attached, conn, setup>>
workVars == <<requested, deleted, pass, pauses, sender>>
boundVars == <<changes, packets, failed, faults>>
vars == <<dbVars, nodeVars, workVars, notified, boundVars>>

----------------------------------------------------------------------------
(* Local states *)

Home == "home"    \* the configured node
Other == "other"
Boards == {Home, Other}

SyncStates == {"pending_add", "on_node", "add_failed"}
Callers == {"loop", "command"}  \* the reconciler's loop, the command executor

\* What a pass awaits; "ok" and "no" record the node's answer to an addition.
AwaitsNode == {"list", "add", "remove"}
AwaitsOther == {"lock", "read", "ok", "no", "pause", "quiet", "check", "mark"}
IdlePass == [pc |-> "idle", gen |-> FALSE, listed |-> {}, db |-> {}, todo |-> {},
             refused |-> {}, retrying |-> FALSE]
IdleSender == [pc |-> "idle", id |-> 0, key |-> 0]

is_running == conn = "connected" /\ attached = Home /\ setup = "none"
LinkUp == conn # "down"
ContactKeys == {contacts[i].key : i \in DOMAIN contacts}
Fail == faults > 0 /\ faults' = faults - 1 /\ failed' = TRUE
Spend == faults > 0 /\ faults' = faults - 1 /\ UNCHANGED failed
NoFault == UNCHANGED <<faults, failed>>

----------------------------------------------------------------------------
(* The panel *)

\* Mutant: the capacity is compared with the count before the addition.
check_contact_addition_off_by_one(key) ==
    key \notin ContactKeys /\ Cardinality(DOMAIN contacts) <= Capacity

check_contact_addition(key) ==
    key \notin ContactKeys /\ Cardinality(DOMAIN contacts) < Capacity

\* Under the capacity lock; the worker is notified at commit.
add_contact ==
    /\ changes > 0 /\ changes' = changes - 1
    /\ \E key \in Keys :
        /\ check_contact_addition(key)
        /\ contacts' = [i \in DOMAIN contacts \cup {nextId} |->
                            IF i = nextId THEN [key |-> key, sync |-> "pending_add"] ELSE contacts[i]]
    /\ nextId' = nextId + 1 /\ notified' = TRUE
    /\ UNCHANGED <<awaiting, nodeVars, workVars, packets, failed, faults>>

delete_contact ==
    /\ changes > 0 /\ changes' = changes - 1
    /\ \E i \in DOMAIN contacts : contacts' = Restrict(contacts, DOMAIN contacts \ {i})
    /\ notified' = TRUE
    /\ UNCHANGED <<nextId, awaiting, nodeVars, workVars, packets, failed, faults>>

handle_notification ==
    /\ notified
    /\ notified' = FALSE /\ requested' = TRUE
    /\ UNCHANGED <<dbVars, nodeVars, deleted, pass, pauses, sender, boundVars>>

\* The listener reconnects: its sweep does not ask for a reconciliation.
LoseNotification ==
    /\ notified /\ Fail
    /\ notified' = FALSE
    /\ UNCHANGED <<dbVars, nodeVars, workVars, changes, packets>>

----------------------------------------------------------------------------
(* The state of a contact row: compare-and-set on id and key *)

SetSync(rows, i, key, sync) ==
    [j \in DOMAIN rows |-> IF j = i /\ rows[j].key = key THEN [rows[j] EXCEPT !.sync = sync] ELSE rows[j]]

mark_contact_on_node(contact) == contacts' = SetSync(contacts, contact.id, contact.key, "on_node")
mark_contact_add_failed(contact) == contacts' = SetSync(contacts, contact.id, contact.key, "add_failed")
return_contact_to_pending_add(key) ==
    contacts' = [i \in DOMAIN contacts |-> IF contacts[i].key = key
                                           THEN [contacts[i] EXCEPT !.sync = "pending_add"] ELSE contacts[i]]

\* Mutant: a contact the node refused once is not listed again.
list_contacts_not_refused(rows) ==
    {[id |-> i, key |-> rows[i].key] : i \in {j \in DOMAIN rows : rows[j].sync # "add_failed"}}

list_contacts_for_node(rows) == {[id |-> i, key |-> rows[i].key] : i \in DOMAIN rows}

----------------------------------------------------------------------------
(* The reconciler *)

Go(c, record) == pass' = [pass EXCEPT ![c] = record]
Abort(c) == Go(c, IdlePass) /\ pauses' = pauses \ {c}

\* Mutant: the lock does not keep two passes apart.
reconciliation_lock_is_always_free == TRUE

reconciliation_lock_is_free == \A c \in Callers : pass[c].pc \in {"idle", "lock"}

\* A request, or the periodic pass; the request is taken before the pass begins.
run ==
    /\ pass["loop"].pc = "idle"
    /\ requested' = FALSE
    /\ IF is_running THEN Go("loop", [IdlePass EXCEPT !.pc = "lock"]) ELSE UNCHANGED pass
    /\ UNCHANGED <<dbVars, nodeVars, deleted, pauses, sender, notified, boundVars>>

\* The operator's reconcile_contacts command.
reconcile_contacts_command ==
    /\ pass["command"].pc = "idle" /\ Spend
    /\ Go("command", [IdlePass EXCEPT !.pc = "lock"])
    /\ UNCHANGED <<dbVars, nodeVars, requested, deleted, pauses, sender, notified, changes, packets>>

\* Under the lock: the generation is captured, then the node is asked.
BeginPass(c) ==
    /\ pass[c].pc = "lock" /\ reconciliation_lock_is_free
    /\ Go(c, IF is_running THEN [IdlePass EXCEPT !.pc = "list", !.gen = TRUE] ELSE IdlePass)
    /\ failed' = (failed /\ ~is_running)
    /\ UNCHANGED <<dbVars, nodeVars, requested, deleted, pauses, sender, notified, changes, packets, faults>>

list_contacts(c) ==
    /\ pass[c].pc = "list"
    /\ Go(c, [pass[c] EXCEPT !.pc = "read", !.listed = DOMAIN table[attached]])
    /\ UNCHANGED <<dbVars, nodeVars, requested, deleted, pauses, sender, notified, boundVars>>

extra_public_keys(p) == p.listed \ {contact.key : contact \in p.db}
Extras(p) == {[id |-> 0, key |-> key] : key \in extra_public_keys(p)}
FoundOnNode(p) == {contact \in p.db : contact.key \in p.listed}
Marks(p) == [IdlePass EXCEPT !.pc = "mark", !.todo = FoundOnNode(p)]

\* Contacts in the order of their ids, keys to remove in their own order.
First(todo) ==
    CHOOSE x \in todo : \A y \in todo : x.id < y.id \/ (x.id = y.id /\ x.key <= y.key)
Done(p) == [p EXCEPT !.todo = @ \ {First(@)}]

\* What the full table refused is added again only when something was removed.
retry_contacts_refused_for_full_table(p) ==
    IF p.todo # {} THEN [p EXCEPT !.pc = IF extra_public_keys(p) = {} THEN "no" ELSE "add"]
    ELSE Marks(p)

SecondRound(p) ==
    retry_contacts_refused_for_full_table([p EXCEPT !.retrying = TRUE, !.todo = p.refused])

\* Mutant: what the full table refused is tried again before the removals.
retry_before_removals(p) ==
    IF p.todo # {} THEN [p EXCEPT !.pc = "add"]
    ELSE IF ~p.retrying THEN [p EXCEPT !.pc = IF p.refused = {} THEN "mark" ELSE "add",
                                       !.retrying = TRUE, !.todo = p.refused]
    ELSE IF extra_public_keys(p) # {} THEN [p EXCEPT !.pc = "pause", !.todo = Extras(p)]
    ELSE Marks(p)

\* Missing contacts are added, then extra ones removed, then the second round.
reconcile_contacts_once(p) ==
    IF p.retrying THEN retry_contacts_refused_for_full_table(p)
    ELSE IF p.todo # {} THEN [p EXCEPT !.pc = "add"]
    ELSE IF extra_public_keys(p) # {} THEN [p EXCEPT !.pc = "pause", !.todo = Extras(p)]
    ELSE SecondRound(p)

\* A command that is sent while the link is down ends the pass.
Proceed(c, p) ==
    IF p.pc \in AwaitsNode /\ ~LinkUp THEN Abort(c)
    ELSE /\ Go(c, p)
         /\ pauses' = IF p.pc \in {"pause", "remove"} THEN pauses \cup {c} ELSE pauses \ {c}

ReadContacts(c) ==
    /\ pass[c].pc = "read"
    /\ LET db == list_contacts_for_node(contacts)
           missing == {contact \in db : contact.key \notin pass[c].listed}
       IN  Proceed(c, reconcile_contacts_once([pass[c] EXCEPT !.db = db, !.todo = missing]))
    /\ UNCHANGED <<dbVars, nodeVars, requested, deleted, sender, notified, boundVars>>

----------------------------------------------------------------------------
(* Additions *)

\* What the node does: a known contact is overwritten, its route forgotten.
TableWith(key) ==
    [table EXCEPT ![attached] =
        [k \in DOMAIN table[attached] \cup {key} |-> IF k = key THEN "flood" ELSE table[attached][k]]]
IsFull(key) == key \notin DOMAIN table[attached] /\ Cardinality(DOMAIN table[attached]) >= Capacity

AddToNode(c) ==
    /\ pass[c].pc = "add" /\ ~IsFull(First(pass[c].todo).key)
    /\ table' = TableWith(First(pass[c].todo).key)
    /\ Go(c, [pass[c] EXCEPT !.pc = "ok"])
    /\ UNCHANGED <<dbVars, attached, conn, setup, requested, deleted, pauses, sender, notified, boundVars>>

\* ERR_CODE_TABLE_FULL waits for the second round, where it is final.
RefuseAsFull(c) ==
    /\ pass[c].pc = "add" /\ IsFull(First(pass[c].todo).key)
    /\ IF pass[c].retrying THEN Go(c, [pass[c] EXCEPT !.pc = "no"]) /\ UNCHANGED pauses
       ELSE Proceed(c, reconcile_contacts_once(
                [Done(pass[c]) EXCEPT !.refused = @ \cup {First(pass[c].todo)}]))
    /\ UNCHANGED <<dbVars, nodeVars, requested, deleted, sender, notified, boundVars>>

\* Any other error code.
RefuseContact(c) ==
    /\ pass[c].pc = "add" /\ Fail
    /\ Go(c, [pass[c] EXCEPT !.pc = "no"])
    /\ UNCHANGED <<dbVars, nodeVars, requested, deleted, pauses, sender, notified, changes, packets>>

\* The reply is lost, the contact may be on the node; or the node was not reached.
LoseAddition(c) ==
    /\ pass[c].pc = "add" /\ Fail
    /\ table' \in {table} \cup (IF IsFull(First(pass[c].todo).key) THEN {} ELSE {TableWith(First(pass[c].todo).key)})
    /\ Abort(c)
    /\ UNCHANGED <<dbVars, attached, conn, setup, requested, deleted, sender, notified, changes, packets>>

RecordAddition(c) ==
    /\ pass[c].pc \in {"ok", "no"}
    /\ IF pass[c].pc = "ok" THEN mark_contact_on_node(First(pass[c].todo))
       ELSE mark_contact_add_failed(First(pass[c].todo))
    /\ Proceed(c, reconcile_contacts_once(Done(pass[c])))
    /\ UNCHANGED <<nextId, awaiting, nodeVars, requested, deleted, sender, notified, boundVars>>

----------------------------------------------------------------------------
(* Removals *)

\* Mutant: a pause does not wait for the step the sender is in.
send_step_lock_is_always_free == TRUE

send_step_lock_is_free == sender.pc = "idle"

\* The pause is in effect already; it begins once the sender's step is done.
pause_sending(c) ==
    /\ pass[c].pc = "pause" /\ send_step_lock_is_free
    /\ Go(c, [pass[c] EXCEPT !.pc = "quiet"])
    /\ UNCHANGED <<dbVars, nodeVars, requested, deleted, pauses, sender, notified, boundVars>>

wait_until_no_packet_awaits_acknowledgement(c) ==
    /\ pass[c].pc = "quiet" /\ awaiting = 0
    /\ Go(c, [pass[c] EXCEPT !.pc = "check"])
    /\ UNCHANGED <<dbVars, nodeVars, requested, deleted, pauses, sender, notified, boundVars>>

(* The wait lasts past the latest deadline, so it ends quiet unless the wall *)
(* clock steps back.  Contacts the full table refused wait with the removals.*)
PostponeRemovals(c) ==
    /\ pass[c].pc = "quiet" /\ awaiting > 0 /\ Fail
    /\ Go(c, Marks(pass[c]))
    /\ pauses' = pauses \ {c}
    /\ UNCHANGED <<dbVars, nodeVars, requested, deleted, sender, notified, changes, packets>>

\* Mutant: the node may have been replaced while the removals waited.
any_node_will_do(c) == LinkUp

require_listed_node_still_running(c) == is_running /\ pass[c].gen

\* Nothing is awaited between this check and the first removal.
CheckNode(c) ==
    /\ pass[c].pc = "check"
    /\ IF require_listed_node_still_running(c)
       THEN Go(c, [pass[c] EXCEPT !.pc = "remove"]) /\ UNCHANGED pauses
       ELSE Abort(c)
    /\ UNCHANGED <<dbVars, nodeVars, requested, deleted, sender, notified, boundVars>>

\* One command per contact, one after the other; an unknown contact is as good.
remove_contact(c) ==
    /\ pass[c].pc = "remove"
    /\ LET p == Done(pass[c]) IN
       /\ table' = [table EXCEPT ![attached] = Restrict(@, DOMAIN @ \ {First(pass[c].todo).key})]
       /\ Proceed(c, IF p.todo # {} THEN p ELSE SecondRound(p))
       /\ UNCHANGED <<dbVars, attached, conn, setup, requested, deleted, sender, notified, boundVars>>

----------------------------------------------------------------------------
(* The end of a pass *)

\* Mutant: the request is taken when the pass is done, not before it begins.
mark_found_and_take_the_request(c) ==
    /\ pass[c].pc = "mark"
    /\ IF pass[c].todo = {} THEN Go(c, IdlePass) /\ requested' = FALSE /\ UNCHANGED contacts
       ELSE mark_contact_on_node(First(pass[c].todo)) /\ Go(c, Done(pass[c])) /\ UNCHANGED requested
    /\ UNCHANGED <<nextId, awaiting, nodeVars, deleted, pauses, sender, notified, boundVars>>

\* One update after the other, then the pass is over.
mark_contacts_found_on_node(c) ==
    /\ pass[c].pc = "mark"
    /\ IF pass[c].todo = {} THEN Go(c, IdlePass) /\ UNCHANGED contacts
       ELSE mark_contact_on_node(First(pass[c].todo)) /\ Go(c, Done(pass[c]))
    /\ UNCHANGED <<nextId, awaiting, nodeVars, requested, deleted, pauses, sender, notified, boundVars>>

\* A listing that stalls, a removal whose reply is lost, a failed transaction.
AbortPass(c) ==
    /\ pass[c].pc \in {"list", "read", "ok", "no", "quiet", "remove", "mark"} /\ Fail
    /\ Abort(c)
    /\ UNCHANGED <<dbVars, nodeVars, requested, deleted, sender, notified, changes, packets>>

----------------------------------------------------------------------------
(* The sender: one step under send_step_lock, awaiting the node, then the database *)

prepare_next_packet ==
    /\ sender.pc = "idle" /\ packets > 0
    /\ pauses = {} /\ is_running
    /\ \E i \in DOMAIN contacts :
        /\ contacts[i].sync = "on_node"
        /\ sender' = [pc |-> "prepared", id |-> i, key |-> contacts[i].key]
    /\ packets' = packets - 1
    /\ UNCHANGED <<dbVars, nodeVars, requested, deleted, pass, pauses, notified, changes, failed, faults>>

\* MSG_SENT, not found, or no answer; only the answer decides what is recorded.
send_text_message ==
    /\ sender.pc = "prepared"
    /\ sender' = [sender EXCEPT !.pc =
                    IF ~LinkUp THEN "unknown"
                    ELSE IF sender.key \in DOMAIN table[attached] THEN "queued" ELSE "not_found"]
    /\ UNCHANGED <<dbVars, nodeVars, requested, deleted, pass, pauses, notified, boundVars>>

record_send_outcome ==
    /\ sender.pc \in {"queued", "not_found", "unknown"}
    /\ sender' = IdleSender
    /\ awaiting' = awaiting + (IF sender.pc = "queued" THEN 1 ELSE 0)
    /\ IF sender.pc = "not_found"
       THEN contacts' = SetSync(contacts, sender.id, sender.key, "pending_add") /\ requested' = TRUE
       ELSE UNCHANGED <<contacts, requested>>
    /\ UNCHANGED <<nextId, nodeVars, deleted, pass, pauses, notified, boundVars>>

\* Acknowledged, or its deadline passes; a dropped packet keeps its deadline.
PacketIsSettled ==
    /\ awaiting > 0 /\ awaiting' = awaiting - 1
    /\ UNCHANGED <<contacts, nextId, nodeVars, workVars, notified, boundVars>>

----------------------------------------------------------------------------
(* The node and its connection *)

LearnRoute ==
    /\ attached = Home
    /\ \E key \in DOMAIN table[Home] : table' = [table EXCEPT ![Home][key] = "learned"]
    /\ UNCHANGED <<dbVars, attached, conn, setup, workVars, notified, boundVars>>

\* The node deletes a contact by itself.
NodeDeletesContact ==
    /\ is_running /\ Spend
    /\ \E key \in DOMAIN table[Home] :
        /\ table' = [table EXCEPT ![Home] = Restrict(@, DOMAIN @ \ {key})]
        /\ deleted' = deleted \cup {key}
    /\ UNCHANGED <<dbVars, attached, conn, setup, requested, pass, pauses, sender, notified, changes, packets>>

handle_deleted_contact ==
    /\ \E key \in deleted :
        /\ return_contact_to_pending_add(key)
        /\ requested' = (requested \/ key \in ContactKeys)
        /\ deleted' = deleted \ {key}
    /\ UNCHANGED <<nextId, awaiting, nodeVars, pass, pauses, sender, notified, boundVars>>

\* The commands under way fail with the connection.
Interrupted ==
    /\ pass' = [c \in Callers |-> IF pass[c].pc \in AwaitsNode THEN IdlePass ELSE pass[c]]
    /\ pauses' = {c \in pauses : pass[c].pc \notin AwaitsNode}
    /\ sender' = IF sender.pc = "prepared" THEN [sender EXCEPT !.pc = "unknown"] ELSE sender

\* The link breaks; when it comes back another board may be there.
LinkLost ==
    /\ conn # "down" /\ Spend
    /\ conn' = "down" /\ attached' \in Boards
    /\ Interrupted
    /\ UNCHANGED <<dbVars, table, setup, requested, deleted, notified, changes, packets>>

\* The operator swaps the boards back.
PlugInHome ==
    /\ attached = Other
    /\ conn' = "down" /\ attached' = Home
    /\ Interrupted
    /\ UNCHANGED <<dbVars, table, setup, requested, deleted, notified, boundVars>>

Connect ==
    /\ conn = "down" /\ conn' = "handshaking"
    /\ UNCHANGED <<dbVars, table, attached, setup, workVars, notified, boundVars>>

\* _mark_connected: a new generation, and a reconciliation when the node relays.
mark_connected ==
    /\ conn = "handshaking" /\ conn' = "connected"
    /\ pass' = [c \in Callers |-> [pass[c] EXCEPT !.gen = FALSE]]
    /\ requested' = (requested \/ (attached = Home /\ setup = "none"))
    /\ UNCHANGED <<dbVars, table, attached, setup, deleted, pauses, sender, notified, boundVars>>

\* A setup run takes the node: the relay mode changes on the connection as it is.
SetupBegins ==
    /\ is_running /\ Spend
    /\ setup' = "owned"
    /\ UNCHANGED <<dbVars, table, attached, conn, workVars, notified, changes, packets>>

ResetNode ==
    /\ setup = "owned" /\ conn = "connected" /\ attached = Home
    /\ setup' = "wiped" /\ conn' = "down"
    /\ table' = [table EXCEPT ![Home] = Restrict(@, {})]
    /\ Interrupted
    /\ UNCHANGED <<dbVars, attached, requested, deleted, notified, boundVars>>

complete_factory_reset ==
    /\ setup = "wiped" /\ conn = "connected" /\ attached = Home
    /\ setup' = "recorded"
    /\ contacts' = [i \in DOMAIN contacts |-> [contacts[i] EXCEPT !.sync = "pending_add"]]
    /\ UNCHANGED <<nextId, awaiting, table, attached, conn, workVars, notified, boundVars>>

\* The run ends, or is given up before the reset: publishing running asks for a pass.
resume_relaying ==
    /\ setup \in {"owned", "recorded"} /\ conn = "connected" /\ attached = Home
    /\ setup' = "none" /\ requested' = TRUE
    /\ IF setup = "recorded" /\ pass["command"].pc = "idle"
       THEN Go("command", [IdlePass EXCEPT !.pc = "lock"]) ELSE UNCHANGED pass
    /\ UNCHANGED <<dbVars, table, attached, conn, deleted, pauses, sender, notified, boundVars>>

\* The worker dies and starts again: its memory is gone, notifications too.
Crash ==
    /\ Spend
    /\ conn' = "down" /\ requested' = FALSE /\ deleted' = {} /\ notified' = FALSE
    /\ pass' = [c \in Callers |-> IdlePass] /\ pauses' = {} /\ sender' = IdleSender
    /\ UNCHANGED <<dbVars, table, attached, setup, changes, packets>>

----------------------------------------------------------------------------
(* The specification *)

(* A relay at work: one contact is on the node, which has learned its route; *)
(* another was just added in the place of a third, whose entry is still on   *)
(* the node.  The other board holds that entry too.                          *)
Init ==
    /\ \E first, second, last \in Keys :
        /\ first < second /\ second < last
        /\ contacts = [i \in {1, 2} |-> [key |-> IF i = 1 THEN first ELSE second,
                                         sync |-> IF i = 1 THEN "on_node" ELSE "pending_add"]]
        /\ table = [b \in Boards |-> [k \in {last} \cup (IF b = Home THEN {first} ELSE {}) |-> "learned"]]
    /\ nextId = 3
    /\ attached = Home /\ conn = "connected" /\ setup = "none"
    /\ notified = TRUE /\ requested = FALSE /\ deleted = {}
    /\ pass = [c \in Callers |-> IdlePass] /\ pauses = {} /\ sender = IdleSender
    /\ awaiting = 0 /\ changes = MaxChanges /\ packets = MaxPackets /\ failed = FALSE /\ faults = MaxFaults

PassStep(c) ==
    \/ BeginPass(c) \/ list_contacts(c) \/ ReadContacts(c)
    \/ AddToNode(c) \/ RefuseAsFull(c) \/ RecordAddition(c)
    \/ pause_sending(c) \/ wait_until_no_packet_awaits_acknowledgement(c)
    \/ CheckNode(c) \/ remove_contact(c) \/ mark_contacts_found_on_node(c)

PassFault(c) == RefuseContact(c) \/ LoseAddition(c) \/ PostponeRemovals(c) \/ AbortPass(c)

SendStep == send_text_message \/ record_send_outcome
Supervise == Connect \/ mark_connected

Next ==
    \/ add_contact \/ delete_contact \/ handle_notification \/ LoseNotification
    \/ run \/ reconcile_contacts_command
    \/ \E c \in Callers : PassStep(c) \/ PassFault(c)
    \/ prepare_next_packet \/ SendStep \/ PacketIsSettled
    \/ LearnRoute \/ NodeDeletesContact \/ handle_deleted_contact
    \/ LinkLost \/ PlugInHome \/ Supervise
    \/ SetupBegins \/ ResetNode \/ complete_factory_reset \/ resume_relaying
    \/ Crash

Spec == Init /\ [][Next]_vars

(* The worker's tasks run, the periodic pass comes, deadlines pass.  Nothing *)
(* is assumed of the operator, the contacts and the boards.                  *)
FairSpec ==
    /\ Spec
    /\ WF_vars(handle_notification) /\ WF_vars(run) /\ WF_vars(handle_deleted_contact)
    /\ \A c \in Callers : WF_vars(PassStep(c))
    /\ WF_vars(SendStep) /\ WF_vars(PacketIsSettled) /\ WF_vars(Supervise)

----------------------------------------------------------------------------
(* Properties *)

MaxIds == 2 + MaxChanges
Contact == [id : 0 .. MaxIds, key : Keys]
Pass == [pc : {"idle"} \cup AwaitsNode \cup AwaitsOther, gen : BOOLEAN, listed : SUBSET Keys,
         db : SUBSET Contact, todo : SUBSET Contact, refused : SUBSET Contact, retrying : BOOLEAN]
Sending == [pc : {"idle", "prepared", "queued", "not_found", "unknown"}, id : 0 .. MaxIds, key : Keys \cup {0}]

RowsOK ==
    /\ DOMAIN contacts \subseteq 1 .. MaxIds /\ Cardinality(DOMAIN contacts) <= Capacity
    /\ \A i \in DOMAIN contacts : contacts[i] \in [key : Keys, sync : SyncStates]

TablesOK ==
    /\ DOMAIN table = Boards
    /\ \A b \in Boards : /\ DOMAIN table[b] \subseteq Keys /\ Cardinality(DOMAIN table[b]) <= Capacity
                         /\ \A k \in DOMAIN table[b] : table[b][k] \in {"flood", "learned"}

\* Rows, passes and the node's tables stay within their limits, 350 contacts included.
TypeOK ==
    /\ RowsOK /\ nextId \in 1 .. MaxIds + 1 /\ TablesOK
    /\ attached \in Boards /\ conn \in {"down", "handshaking", "connected"}
    /\ setup \in {"none", "owned", "wiped", "recorded"}
    /\ notified \in BOOLEAN /\ requested \in BOOLEAN /\ deleted \subseteq Keys
    /\ pass \in [Callers -> Pass]
    /\ pauses \subseteq Callers
    /\ sender \in Sending
    /\ awaiting \in 0 .. MaxPackets /\ packets \in 0 .. MaxPackets /\ changes \in 0 .. MaxChanges
    /\ failed \in BOOLEAN /\ faults \in 0 .. MaxFaults

(* contact_reconciler.py: "removing a contact shifts the node's contact      *)
(* array under its pending ACK entries".  While a pass removes contacts, no  *)
(* packet the node accepted awaits its acknowledgement, whether it is        *)
(* recorded, still to be recorded, or was sent before a reconnection.        *)
RemovalsAreQuiet ==
    \A c \in Callers : pass[c].pc = "remove" => awaiting = 0 /\ sender.pc \notin {"prepared", "queued"}

(* A pass that works on a stale list does no harm.  "A contact already on    *)
(* the node is never written again, since that would wipe the route the node *)
(* learned": also not by two passes that both listed the node before it was  *)
(* added.  And a pass that listed the configured node removes nothing from a *)
(* board that took its place (_require_listed_node_still_running).           *)
StaleListsDoNoHarm ==
    [][/\ \A k \in DOMAIN table[Home] \cap DOMAIN table'[Home] :
            table[Home][k] = "learned" => table'[Home][k] = "learned"
       /\ DOMAIN table[Other] \subseteq DOMAIN table'[Other]]_vars

(* "An add the node refused as full is tried again once the extras are gone, *)
(* which the capacity limit of the contacts table guarantees will fit."  It  *)
(* fits on the configured node, also after a reconnection; a board that took *)
(* its place while the pass waited for the database may well be full.        *)
RefusedContactsFit ==
    \A c \in Callers :
        pass[c].pc = "add" /\ pass[c].retrying /\ attached = Home => ~IsFull(First(pass[c].todo).key)

(* check_contact_addition: the capacity limit holds, and with it every       *)
(* refused contact finds room.                                               *)
ContactsFit == TypeOK /\ RefusedContactsFit

----------------------------------------------------------------------------
(* Why the passes do no harm *)

Adding == {"add", "ok", "no"}
Removing == {"pause", "quiet", "check", "remove"}
KeysOf(list) == {contact.key : contact \in list}

\* New rows get new ids and free keys; only what was sent is counted.
RowsInv ==
    /\ DOMAIN contacts \subseteq 1 .. nextId - 1 /\ nextId + changes <= MaxIds + 1
    /\ \A i, j \in DOMAIN contacts : contacts[i].key = contacts[j].key => i = j
    /\ awaiting + packets + (IF sender.pc = "idle" THEN 0 ELSE 1) <= MaxPackets

\* One pass at a time; from the pause to the last removal nothing is sent.
LockInv ==
    /\ \A c, d \in Callers : pass[c].pc \notin {"idle", "lock"} /\ pass[d].pc \notin {"idle", "lock"} => c = d
    /\ pauses = {c \in Callers : pass[c].pc \in Removing}
    /\ \A c \in Callers :
        /\ pass[c].pc \in {"quiet", "check", "remove"} => sender.pc = "idle"
        /\ pass[c].pc \in {"check", "remove"} => awaiting = 0
        /\ pass[c].pc \in {"list", "remove"} => attached = Home

\* One entry per key, and all of them fit on a node.
ListsContacts(list) ==
    /\ \A x, y \in list : x.key = y.key => x = y
    /\ Cardinality(KeysOf(list)) <= Capacity

(* With held the keys on the configured node: what a pass has still to add,  *)
(* or to add again, is not there, and it knows of everything that is.        *)
AddsMissing(p, held) ==
    /\ p.todo \subseteq p.db /\ p.refused \subseteq p.db
    /\ \A x \in p.todo : x.key \notin held
    /\ ~p.retrying => /\ p.todo \cap p.refused = {}
                      /\ \A x \in p.refused : x.key \notin held
    /\ held \subseteq KeysOf(p.db) \cup (IF p.retrying THEN {} ELSE p.listed)

RemovesExtras(p, held) ==
    /\ p.refused \subseteq p.db
    /\ \A x \in p.refused : x.key \notin held
    /\ held \subseteq KeysOf(p.db) \cup KeysOf(p.todo)

PassFits(p, held) ==
    /\ p.pc \in {"list", "read"} => p.refused = {} /\ ~p.retrying
    /\ p.pc = "read" => held \subseteq p.listed
    /\ p.pc \in Adding \cup Removing => p.todo # {} /\ ListsContacts(p.db)
    /\ p.pc = "add" => AddsMissing(p, held)
    /\ p.pc \in {"ok", "no"} => AddsMissing(Done(p), held)
    /\ p.pc \in Removing => RemovesExtras(p, held)

PassInv == \A c \in Callers : PassFits(pass[c], DOMAIN table[Home])

\* The inductive invariant of ContactsProofs.
IInv == TypeOK /\ RowsInv /\ LockInv /\ PassInv

----------------------------------------------------------------------------
(* Nothing is forgotten *)

Synced ==
    /\ DOMAIN table[Home] = ContactKeys
    /\ \A i \in DOMAIN contacts : contacts[i].sync = "on_node"

(* Nothing is forgotten: once the worker has nothing left to do, the node    *)
(* holds the contacts and they are marked so, without the periodic pass.     *)
QuietMeansSynced ==
    /\ is_running /\ ~notified /\ ~requested /\ deleted = {} /\ ~failed
    /\ sender.pc = "idle" /\ \A c \in Callers : pass[c].pc = "idle"
    => Synced

(* When the configured node keeps relaying, its table comes to hold the      *)
(* contacts, whatever failed before.                                         *)
ContactsConverge == <>[](is_running => Synced)

----------------------------------------------------------------------------
(* Why nothing is forgotten *)

\* A pass is still to come: one waits for the lock, is asked for, or will be when
\* the node relays again; or only the periodic pass is left.
PassIsDue ==
    notified \/ requested \/ failed \/ ~is_running \/ \E c \in Callers : pass[c].pc = "lock"

\* The node holds the contacts but for those it deleted itself, and their rows
\* say so or are about to.
InStep(held, gone, rows, toMark) ==
    /\ held \subseteq KeysOf(list_contacts_for_node(rows))
    /\ KeysOf(list_contacts_for_node(rows)) \subseteq held \cup gone
    /\ \A x \in list_contacts_for_node(rows) : rows[x.id].sync = "on_node" \/ x \in toMark

\* What a pass has still to add.
LeftToAdd(p) ==
    IF p.pc \in Removing THEN p.refused ELSE p.todo \cup (IF p.retrying THEN {} ELSE p.refused)

\* A pass that read the rows accounts for each of them; what it was refused
\* finds room once it has removed something.
AccountsFor(p, held, gone, rows) ==
    /\ p.db = list_contacts_for_node(rows)
    /\ \A x \in p.db \ LeftToAdd(p) :
         x.key \in held \cup gone /\ (x.key \in p.listed \/ rows[x.id].sync = "on_node")
    /\ p.refused # {} => extra_public_keys(p) # {}
    /\ p.retrying => p.todo \subseteq p.refused

PassCatchesUp(p, held, gone, rows) ==
    /\ p.pc # "no"
    /\ p.pc # "mark" => p.gen
    /\ p.pc = "read" => p.listed \cap KeysOf(list_contacts_for_node(rows)) \subseteq held \cup gone
    /\ p.pc \in {"add", "ok"} \cup Removing => AccountsFor(p, held, gone, rows)
    /\ p.pc = "ok" => First(p.todo) \in p.db /\ First(p.todo).key \in held \cup gone
    /\ p.pc \in Removing => KeysOf(p.todo) \cap KeysOf(p.db) = {}
    /\ p.pc = "mark" => InStep(held, gone, rows, p.todo)

\* Unless a pass is due, the one under way sees to everything, or nothing is left.
NothingForgotten ==
    PassIsDue \/
        /\ \A c \in Callers : pass[c].pc # "idle" => PassCatchesUp(pass[c], DOMAIN table[Home], deleted, contacts)
        /\ (\A c \in Callers : pass[c].pc = "idle") => InStep(DOMAIN table[Home], deleted, contacts, {})
=============================================================================
