------------------------------- MODULE Outbound -------------------------------
(***************************************************************************)
(* Packets on their way to the devices: the queue of replies, the sender   *)
(* loop, firmware acknowledgements with their deadlines, and the route     *)
(* resets and flood resends they lead to.                                  *)
(*                                                                         *)
(* Three tasks of the worker share the packet table and some memory: the   *)
(* sender, the acknowledgement tracker and the router of the node's        *)
(* events.  They meet at await points only.  A database call takes effect  *)
(* when it is made, because one thread serves all calls in turn, and its   *)
(* caller resumes later, in the order in which the calls ended (done).     *)
(* The connection to the node may break at any moment, and so may the      *)
(* worker.                                                                 *)
(*                                                                         *)
(* Times are abstracted: a deadline, the coalescing of a reply, its        *)
(* expiry and the seconds in which an equal text is held back may end at   *)
(* any moment.  Which deliveries and receipts are due is the matter of     *)
(* Deliveries and Receipts; here they are packets without a key.           *)
(***************************************************************************)
EXTENDS Integers, Sequences, FiniteSets

CONSTANTS
  Contacts,        \* contacts that requests come from
  Keys,            \* reply keys: what a request of a contact is about
  None,            \* NULL: no contact, no key, nobody
  MaxInFlight,     \* pacing: packets that may await an acknowledgement
  MaxPackets,      \* bound: packets ever prepared
  MaxReplies,      \* bound: replies the services ever queue
  MaxOthers,       \* bound: delivery and receipt packets
  MaxDisturbances, \* bound: of everything below that disturbs the tasks: routes learned and
                   \* reset, proofs of arrival, failures, broken links, restarts, deletions
  MaxEvents        \* bound: replies, other packets and disturbances together

ASSUME ConstantsAssumption ==
  /\ None \notin Contacts \cup Keys \cup {"sender", "tracker", "router"}
  /\ MaxInFlight \in Nat \ {0} /\ MaxPackets \in Nat /\ MaxReplies \in Nat
  /\ MaxOthers \in Nat /\ MaxDisturbances \in Nat /\ MaxEvents \in Nat

VARIABLES
  rows,       \* outbound_packets, by id
  contacts,   \* contact rows
  onNode,     \* contacts with node_sync_state on_node
  replies,    \* the reply queue: one pending reply per contact and key
  task,       \* where the sender, the tracker and the router are
  hand,       \* the pending reply the sender took
  answer,     \* the node's answer to the packet the sender sent
  passed,     \* packets whose deadline the tracker found passed, not handled yet
  awaited,    \* packets that hold a pacing slot
  unmatched,  \* acknowledgements kept because no packet matched
  lock,       \* the task that holds the route reset settlement lock
  done,       \* tasks whose database call ended, in that order
  link,       \* whether the node is connected, with relay mode running
  route,      \* external: the node's route to each contact
  learned,    \* external: pushes of new routes on their way
  airborne,   \* external: packets whose acknowledgement may still come
  resent,     \* history: how often each packet was queued once more
  budget      \* how often each bounded event has happened

memory == <<replies, task, hand, answer, passed, awaited, unmatched, lock, done>>
node   == <<link, route, learned, airborne>>
vars   == <<rows, contacts, onNode, memory, node, resent, budget>>

-----------------------------------------------------------------------------
(* Rows and memory.                                                        *)

Ids   == 1 .. MaxPackets
Tasks == {"sender", "tracker", "router"}
Identities == Contacts \X Keys

\* version counts the replies the services queued; a resend keeps the version
\* of the reply it repeats.
PendingReply == [version : 0 .. MaxReplies, resend : BOOLEAN]
NoReply == [version |-> 0, resend |-> FALSE]

PacketState == {"prepared", "queued_on_node", "node_acknowledged", "acknowledgement_timed_out",
                "rejected_by_node", "outcome_unknown"}
RouteResetState == {"not_applicable", "pending", "performed", "skipped_path_update",
                    "skipped_application_evidence", "skipped_late_acknowledgement",
                    "dropped_by_restart"}
\* moved and proven: a path update of the contact, or a proof that the packet
\* arrived, is younger than queued_at.  A packet without a key is a delivery or
\* a receipt.
OutboundPacket ==
  [contact : Contacts \cup {None}, key : Keys \cup {None}, version : 0 .. MaxReplies,
   state : PacketState, route : {"direct", "flood", "unknown"}, reset : RouteResetState,
   moved : BOOLEAN, proven : BOOLEAN]
IsReply(row) == row.key # None

\* The node's answers: queued, with the route taken, or not; "refused" is every
\* rejection but the other two.
PacketQueuedOnNode == {"direct", "flood"}
PacketRejectedByNode == {"refused", "not_found", "table_full"}
NodeSendOutcome == PacketQueuedOnNode \cup PacketRejectedByNode \cup {"unknown"}

Task == [phase : {"idle", "preparing", "locking", "settling", "resetting", "performing",
                  "sending", "answered", "recording", "matching", "timing"},
         packet : Ids \cup {0}, contact : Contacts \cup {None},
         need : SUBSET Ids, resend : SUBSET Ids, found : BOOLEAN]
IdleTask == [phase |-> "idle", packet |-> 0, contact |-> None, need |-> {}, resend |-> {},
             found |-> FALSE]
\* The tasks that wait for the database.
DATABASE_PHASES == {"preparing", "settling", "performing", "recording", "matching", "timing"}

\* A task waits for the database exactly while its call is in done, once, and holds
\* the settlement lock exactly while it settles (acknowledgement_tracker.py).
CallsOK ==
  /\ done \in Seq(Tasks) /\ \A i, j \in DOMAIN done : done[i] = done[j] => i = j
  /\ \A t \in Tasks : task[t].phase \in DATABASE_PHASES <=> \E i \in DOMAIN done : done[i] = t

LockOK ==
  /\ lock \in {"sender", "tracker", None}
  /\ \A t \in Tasks : lock = t <=> task[t].phase \in {"settling", "resetting", "performing"}

RowsOK == rows \in Seq(OutboundPacket) /\ Len(rows) <= MaxPackets

\* The packet table and the tasks' memory have the shapes the code gives them.
TypeOK ==
  /\ RowsOK /\ CallsOK /\ LockOK
  /\ contacts \subseteq Contacts /\ onNode \subseteq contacts
  /\ replies \in [Identities -> PendingReply]
  /\ task \in [Tasks -> Task]
  /\ hand \in PendingReply /\ answer \in NodeSendOutcome \cup {None}
  /\ passed \subseteq Ids /\ awaited \subseteq DOMAIN rows /\ unmatched \subseteq DOMAIN rows
  /\ link \in BOOLEAN
  /\ route \in [Contacts -> {"direct", "flood"}] /\ learned \subseteq Contacts
  /\ airborne \subseteq DOMAIN rows

Init ==
  /\ rows = <<>> /\ contacts = Contacts /\ onNode = Contacts
  /\ replies = [id \in Identities |-> NoReply]
  /\ task = [t \in Tasks |-> IdleTask]
  /\ hand = NoReply /\ answer = None
  /\ passed = {} /\ awaited = {} /\ unmatched = {}
  /\ lock = None /\ done = <<>>
  /\ link = TRUE
  /\ route = [c \in Contacts |-> "direct"] /\ learned = {} /\ airborne = {}
  /\ resent = [i \in Ids |-> 0]
  /\ budget = [replies |-> 0, others |-> 0, disturbances |-> 0]

\* A bounded event happens once more.
Spend(what, limit) ==
  /\ budget[what] < limit
  /\ budget.replies + budget.others + budget.disturbances < MaxEvents
  /\ budget' = [budget EXCEPT ![what] = @ + 1]

\* A caller of the database resumes when all calls that ended before are resumed.
resumes_in_any_order(t) == \E i \in DOMAIN done : done[i] = t
resumes_next(t) == done # <<>> /\ Head(done) = t
Place(t) == CHOOSE i \in DOMAIN done : done[i] = t
OthersDone(t) == [i \in 1 .. Len(done) - 1 |-> IF i < Place(t) THEN done[i] ELSE done[i + 1]]
Resumed(t) == done' = OthersDone(t)

-----------------------------------------------------------------------------
(* The reply queue.                                                        *)

Pending == {id \in Identities : replies[id] # NoReply}

\* The inbound processor queues the reply of a request; it replaces an older one.
add_reply(id) ==
  /\ id[1] \in contacts
  /\ Spend("replies", MaxReplies)
  /\ replies' = [replies EXCEPT ![id] = [version |-> budget.replies + 1, resend |-> FALSE]]
  /\ UNCHANGED <<rows, contacts, onNode, task, hand, answer, passed, awaited, unmatched, lock,
                 done, node, resent>>

\* The queue without the replies in dropped: expired, or repeating a text that
\* went out seconds ago.
Without(dropped) == [id \in Identities |-> IF id \in dropped THEN NoReply ELSE replies[id]]

\* Mutant: the older reply takes the place of the one that arrived meanwhile.
put_back_always(id) == replies' = [replies EXCEPT ![id] = hand]

put_back(id) == replies' = IF id \in Pending THEN replies ELSE [replies EXCEPT ![id] = hand]

drop_replies_to_contacts_other_than ==
  /\ \E id \in Pending : id[1] \notin contacts
  /\ replies' = Without({id \in Identities : id[1] \notin contacts})
  /\ UNCHANGED <<rows, contacts, onNode, task, hand, answer, passed, awaited, unmatched, lock,
                 done, node, resent, budget>>

-----------------------------------------------------------------------------
(* The sender prepares a packet.                                           *)

insert_prepared_packet(c, k, version) ==
  /\ Len(rows) < MaxPackets
  /\ rows' = Append(rows, [contact |-> c, key |-> k, version |-> version, state |-> "prepared",
                           route |-> "unknown", reset |-> "not_applicable",
                           moved |-> FALSE, proven |-> FALSE])
  /\ task' = [task EXCEPT !["sender"] = [IdleTask EXCEPT !.phase = "preparing",
                                           !.packet = Len(rows) + 1, !.contact = c]]
  /\ done' = Append(done, "sender")

\* Mutant: the comparison lets one packet too many start.
find_pacing_wait_off_by_one == ~link \/ Cardinality(awaited) > MaxInFlight
find_pacing_wait == ~link \/ Cardinality(awaited) >= MaxInFlight

may_send_other_than_replies == Cardinality(awaited) < MaxInFlight - 1

\* take_next_ready_reply and prepare_reply_packet: replies on the way may be
\* dropped; one to a contact that is not on the node is dropped too.
prepare_reply_packet(id, dropped) ==
  /\ task["sender"].phase = "idle" /\ ~find_pacing_wait
  /\ id \in Pending /\ id \notin dropped /\ dropped \subseteq Pending
  /\ replies' = Without(dropped \cup {id})
  /\ IF id[1] \in onNode
     THEN /\ insert_prepared_packet(id[1], id[2], replies[id].version)
          /\ hand' = replies[id]
     ELSE UNCHANGED <<rows, task, done, hand>>
  /\ UNCHANGED <<contacts, onNode, answer, passed, awaited, unmatched, lock, node, resent, budget>>

\* No reply is ready; a due delivery or receipt is prepared, if there is room.
prepare_next_packet(c, dropped) ==
  /\ task["sender"].phase = "idle" /\ ~find_pacing_wait /\ may_send_other_than_replies
  /\ c \in onNode /\ dropped \subseteq Pending
  /\ Spend("others", MaxOthers)
  /\ replies' = Without(dropped)
  /\ insert_prepared_packet(c, None, 0)
  /\ UNCHANGED <<contacts, onNode, hand, answer, passed, awaited, unmatched, lock, node, resent>>

\* Nothing is ready and nothing is due.
calculate_idle_wait(dropped) ==
  /\ task["sender"].phase = "idle" /\ ~find_pacing_wait
  /\ dropped # {} /\ dropped \subseteq Pending
  /\ replies' = Without(dropped)
  /\ UNCHANGED <<rows, contacts, onNode, task, hand, answer, passed, awaited, unmatched, lock,
                 done, node, resent, budget>>

\* The row exists; before it is sent the contact's route decisions are settled.
ResumePrepared ==
  /\ task["sender"].phase = "preparing" /\ resumes_next("sender")
  /\ task' = [task EXCEPT !["sender"].phase = "locking"] /\ Resumed("sender")
  /\ UNCHANGED <<rows, contacts, onNode, replies, hand, answer, passed, awaited, unmatched, lock,
                 node, resent, budget>>

-----------------------------------------------------------------------------
(* Settling route decisions, by the sender before a packet and by the      *)
(* tracker after a reply timed out.                                        *)

PendingResets(c) == {i \in DOMAIN rows : rows[i].contact = c /\ rows[i].reset = "pending"}

has_newer_reply(i) ==
  \E j \in DOMAIN rows : j > i /\ rows[j].contact = rows[i].contact /\ rows[j].key = rows[i].key

\* Replies still young enough are among these.
find_replies_to_resend(packets) == {i \in packets : IsReply(rows[i]) /\ ~has_newer_reply(i)}

\* Mutant: no settlement waits for another one.
settlement_lock_is_free_always == TRUE
settlement_lock_is_free == lock = None

settle_pending_route_resets(t) ==
  LET c == task[t].contact
      need == {i \in PendingResets(c) : ~rows[i].moved /\ ~rows[i].proven}
  IN  /\ task[t].phase = "locking" /\ settlement_lock_is_free
      /\ lock' = t
      /\ rows' = [i \in DOMAIN rows |->
                    IF i \in PendingResets(c) \ need
                    THEN [rows[i] EXCEPT !.reset = IF rows[i].moved THEN "skipped_path_update"
                                                   ELSE "skipped_application_evidence"]
                    ELSE rows[i]]
      /\ \E resend \in SUBSET find_replies_to_resend(need) :
           task' = [task EXCEPT ![t].phase = "settling", ![t].need = need, ![t].resend = resend]
      /\ done' = Append(done, t)
      /\ UNCHANGED <<contacts, onNode, replies, hand, answer, passed, awaited, unmatched, node,
                     resent, budget>>

\* The settlement of t ends: the sender goes on to send, the tracker to its next packet.
AfterSettlement(t) ==
  IF t = "sender" THEN [task[t] EXCEPT !.phase = "sending", !.need = {}, !.resend = {}]
                  ELSE IdleTask
Unlock(t) == lock' = IF lock = t THEN None ELSE lock

\* The tracker has no public key at hand and finds none when the contact is gone.
ResumeSettled(t) ==
  /\ task[t].phase = "settling" /\ resumes_next(t)
  /\ IF task[t].need = {} \/ ~link \/ (t = "tracker" /\ task[t].contact \notin contacts)
     THEN task' = [task EXCEPT ![t] = AfterSettlement(t)] /\ Unlock(t)
     ELSE task' = [task EXCEPT ![t].phase = "resetting"] /\ UNCHANGED lock
  /\ Resumed(t)
  /\ UNCHANGED <<rows, contacts, onNode, replies, hand, answer, passed, awaited, unmatched, node,
                 resent, budget>>

\* Mutant: the reset is recorded for packets that were acknowledged meanwhile.
record_performed_unconditionally(packets) ==
  [i \in DOMAIN rows |-> IF i \in packets THEN [rows[i] EXCEPT !.reset = "performed"] ELSE rows[i]]
record_route_reset_performed(packets) ==
  [i \in DOMAIN rows |-> IF i \in packets /\ rows[i].reset = "pending"
                         THEN [rows[i] EXCEPT !.reset = "performed"] ELSE rows[i]]

\* The node forgets the route, and the worker records it.
reset_path(t) ==
  /\ task[t].phase = "resetting"
  /\ route' = [route EXCEPT ![task[t].contact] = "flood"]
  /\ rows' = record_route_reset_performed(task[t].need)
  /\ task' = [task EXCEPT ![t].phase = "performing"] /\ done' = Append(done, t)
  /\ UNCHANGED <<contacts, onNode, replies, hand, answer, passed, awaited, unmatched, lock, link,
                 learned, airborne, resent, budget>>

\* Mutant: an error on the way keeps the lock.
FailWithTheLock(t) ==
  /\ task[t].phase = "resetting"
  /\ Spend("disturbances", MaxDisturbances)
  /\ task' = [task EXCEPT ![t] = AfterSettlement(t)]
  /\ UNCHANGED <<rows, contacts, onNode, replies, hand, answer, passed, awaited, unmatched, lock,
                 done, node, resent>>

\* The node's reply is lost (it may have forgotten the route) or it refuses:
\* the decisions stay pending.
FailToResetPath(t) ==
  /\ task[t].phase = "resetting"
  /\ Spend("disturbances", MaxDisturbances)
  /\ \E r \in {route[task[t].contact], "flood"} : route' = [route EXCEPT ![task[t].contact] = r]
  /\ task' = [task EXCEPT ![t] = AfterSettlement(t)] /\ Unlock(t)
  /\ UNCHANGED <<rows, contacts, onNode, replies, hand, answer, passed, awaited, unmatched, done,
                 link, learned, airborne, resent>>

\* Replies whose route was reset are queued once more, unless a newer one waits.
add_flood_resend(t) ==
  LET IdOf(i) == <<task[t].contact, rows[i].key>>
      again == {i \in task[t].resend : IdOf(i) \notin Pending}
  IN  /\ task[t].phase = "performing" /\ resumes_next(t)
      /\ replies' = [id \in Identities |->
                       IF \E i \in again : IdOf(i) = id
                       THEN [version |-> rows[CHOOSE i \in again : IdOf(i) = id].version,
                             resend |-> TRUE]
                       ELSE replies[id]]
      /\ resent' = [i \in Ids |-> IF i \in again THEN resent[i] + 1 ELSE resent[i]]
      /\ task' = [task EXCEPT ![t] = AfterSettlement(t)] /\ Unlock(t)
      /\ Resumed(t)
      /\ UNCHANGED <<rows, contacts, onNode, hand, answer, passed, awaited, unmatched, node, budget>>

-----------------------------------------------------------------------------
(* The packet goes to the node and its outcome is recorded.                *)

\* The node answers; a lost reply, or a lost link, leaves the outcome unknown.
\* Only a packet the node may have queued can be acknowledged.
send_text_message(outcome) ==
  LET i == task["sender"].packet
  IN  /\ task["sender"].phase = "sending"
      /\ IF link THEN outcome \in PacketQueuedOnNode => outcome = route[task["sender"].contact]
                 ELSE outcome = "unknown"
      /\ IF link /\ outcome \notin PacketQueuedOnNode THEN Spend("disturbances", MaxDisturbances)
                                                      ELSE UNCHANGED budget
      /\ answer' = outcome
      /\ airborne' = IF link /\ outcome \notin PacketRejectedByNode THEN airborne \cup {i}
                                                                  ELSE airborne
      /\ task' = [task EXCEPT !["sender"].phase = "answered"]
      /\ UNCHANGED <<rows, contacts, onNode, replies, hand, passed, awaited, unmatched, lock, done,
                     link, route, learned, resent>>

RecordedState(outcome) ==
  CASE outcome \in PacketQueuedOnNode   -> "queued_on_node"
    [] outcome \in PacketRejectedByNode -> "rejected_by_node"
    [] outcome = "unknown"              -> "outcome_unknown"

record_send_outcome ==
  LET i == task["sender"].packet
  IN  /\ task["sender"].phase = "answered"
      /\ rows' = [rows EXCEPT ![i].state = RecordedState(answer),
                              ![i].route = IF answer \in PacketQueuedOnNode THEN answer ELSE @]
      /\ onNode' = IF answer = "not_found" THEN onNode \ {rows[i].contact} ELSE onNode
      /\ task' = [task EXCEPT !["sender"].phase = "recording"] /\ done' = Append(done, "sender")
      /\ UNCHANGED <<contacts, replies, hand, answer, passed, awaited, unmatched, lock, node,
                     resent, budget>>

-----------------------------------------------------------------------------
(* Acknowledgements.                                                       *)

PACKET_STATES_AWAITING_ACKNOWLEDGEMENT == {"queued_on_node", "acknowledgement_timed_out"}
Matches(i) == rows[i].state \in PACKET_STATES_AWAITING_ACKNOWLEDGEMENT

record_node_acknowledgement(i) ==
  IF Matches(i)
  THEN [rows EXCEPT ![i].state = "node_acknowledged",
                    ![i].reset = IF @ = "pending" THEN "skipped_late_acknowledgement" ELSE @]
  ELSE rows

\* handle_node_acknowledgement up to its await, in the router or in the sender.
MatchAcknowledgement(t, i) ==
  /\ rows' = record_node_acknowledgement(i)
  /\ task' = [task EXCEPT ![t] = [IdleTask EXCEPT !.phase = "matching", !.packet = i,
                                                  !.found = Matches(i)]]

HandleAcknowledgement(i) ==
  /\ task["router"].phase = "idle" /\ i \in airborne
  /\ MatchAcknowledgement("router", i)
  /\ done' = Append(done, "router") /\ airborne' = airborne \ {i}
  /\ UNCHANGED <<contacts, onNode, replies, hand, answer, passed, awaited, unmatched, lock, link,
                 route, learned, resent, budget>>

\* Acknowledgements are forgotten after a minute, in which the outcome of the
\* packet in the sender's hand is recorded.
Forgettable == unmatched \ {task["sender"].packet}

ResumeMatched(t) ==
  LET i == task[t].packet
  IN  /\ task[t].phase = "matching" /\ resumes_next(t)
      /\ IF task[t].found
         THEN awaited' = awaited \ {i} /\ UNCHANGED unmatched
         ELSE /\ \E old \in SUBSET Forgettable : unmatched' = (unmatched \ old) \cup {i}
              /\ UNCHANGED awaited
      /\ task' = [task EXCEPT ![t] = IdleTask] /\ Resumed(t)
      /\ UNCHANGED <<rows, contacts, onNode, replies, hand, answer, passed, lock, node, resent,
                     budget>>

\* Mutant: an acknowledgement that came early is not looked for.
register_without_looking(i) ==
  /\ awaited' = awaited \cup {i}
  /\ task' = [task EXCEPT !["sender"] = IdleTask] /\ Resumed("sender")
  /\ UNCHANGED <<rows, unmatched>>

register_sent_packet(i) ==
  /\ awaited' = awaited \cup {i}
  /\ IF i \in unmatched
     THEN /\ MatchAcknowledgement("sender", i)
          /\ done' = Append(OthersDone("sender"), "sender")
     ELSE /\ task' = [task EXCEPT !["sender"] = IdleTask] /\ Resumed("sender")
          /\ UNCHANGED rows
  /\ \E old \in SUBSET Forgettable : unmatched' = unmatched \ (old \cup {i})

\* The sender learns what was recorded: a reply the node had no room for waits
\* again unless it expires first, a packet on the node takes its place.
handle_recorded_outcome ==
  LET i == task["sender"].packet
      id == <<task["sender"].contact, rows[i].key>>
  IN  /\ task["sender"].phase = "recording" /\ resumes_next("sender")
      /\ \/ /\ answer = "table_full" /\ IsReply(rows[i])
            /\ put_back(id)
         \/ UNCHANGED replies
      /\ IF answer \in PacketQueuedOnNode
         THEN register_sent_packet(i)
         ELSE /\ task' = [task EXCEPT !["sender"] = IdleTask] /\ Resumed("sender")
              /\ UNCHANGED <<rows, awaited, unmatched>>
      /\ hand' = NoReply /\ answer' = None
      /\ UNCHANGED <<contacts, onNode, passed, lock, node, resent, budget>>

-----------------------------------------------------------------------------
(* Deadlines.                                                              *)

record_acknowledgement_deadline_passed(i) ==
  IF rows[i].state = "queued_on_node"
  THEN [rows EXCEPT ![i].state = "acknowledgement_timed_out",
                    ![i].reset = IF rows[i].route # "direct" THEN "not_applicable"
                                 ELSE IF rows[i].moved THEN "skipped_path_update" ELSE "pending"]
  ELSE rows

\* The tracker lists the packets whose deadline passed ...
FindPassedDeadlines(packets) ==
  /\ task["tracker"].phase = "idle" /\ passed = {}
  /\ packets # {} /\ packets \subseteq awaited
  /\ passed' = packets
  /\ UNCHANGED <<rows, contacts, onNode, replies, task, hand, answer, awaited, unmatched, lock,
                 done, node, resent, budget>>

\* ... and handles them one by one; the list may be out of date by then.
HandlePassedDeadline(i) ==
  LET after == record_acknowledgement_deadline_passed(i)
  IN  /\ task["tracker"].phase = "idle" /\ i \in passed
      /\ rows' = after
      /\ task' = [task EXCEPT !["tracker"] =
                    [IdleTask EXCEPT !.phase = "timing", !.packet = i, !.contact = rows[i].contact,
                       !.found = rows[i].state = "queued_on_node" /\ after[i].reset = "pending"]]
      /\ passed' = passed \ {i} /\ done' = Append(done, "tracker")
      /\ UNCHANGED <<contacts, onNode, replies, hand, answer, awaited, unmatched, lock, node,
                     resent, budget>>

\* Mutant: the place is freed only if the deadline found the packet waiting.
free_place_if_timed_out(i) == IF task["tracker"].found THEN awaited \ {i} ELSE awaited
free_place(i) == awaited \ {i}

\* A reply is settled at once.
ResumeTimedOut ==
  LET t == task["tracker"]
  IN  /\ t.phase = "timing" /\ resumes_next("tracker")
      /\ awaited' = free_place(t.packet)
      /\ task' = [task EXCEPT !["tracker"] =
                    IF t.found /\ t.contact # None /\ IsReply(rows[t.packet]) /\ link
                    THEN [t EXCEPT !.phase = "locking"] ELSE IdleTask]
      /\ Resumed("tracker")
      /\ UNCHANGED <<rows, contacts, onNode, replies, hand, answer, passed, unmatched, lock, node,
                     resent, budget>>

-----------------------------------------------------------------------------
(* The node, the devices and the panel.                                    *)

\* External: the node learns a route and pushes PATH_UPDATE.
LearnRoute(c) ==
  /\ Spend("disturbances", MaxDisturbances)
  /\ route' = [route EXCEPT ![c] = "direct"] /\ learned' = learned \cup {c}
  /\ UNCHANGED <<rows, contacts, onNode, memory, link, airborne, resent>>

\* Rows that have a queued_at and whose route decision is not taken.
Undecided(i) == rows[i].state = "queued_on_node" \/ rows[i].reset = "pending"
Queued(c) == {i \in DOMAIN rows : rows[i].contact = c /\ Undecided(i)}

record_path_update(c) ==
  /\ task["router"].phase = "idle" /\ c \in learned
  /\ rows' = [i \in DOMAIN rows |->
                IF i \in Queued(c) THEN [rows[i] EXCEPT !.moved = TRUE] ELSE rows[i]]
  /\ learned' = learned \ {c}
  /\ UNCHANGED <<contacts, onNode, memory, link, route, airborne, resent, budget>>

Prove(packets) ==
  /\ packets # {}
  /\ Spend("disturbances", MaxDisturbances)
  /\ rows' = [i \in DOMAIN rows |->
                IF i \in packets THEN [rows[i] EXCEPT !.proven = TRUE] ELSE rows[i]]
  /\ UNCHANGED <<contacts, onNode, memory, node, resent>>

\* A request with another key: the device moved on, so it got the replies.  None
\* stands for a key of which the model has no reply.
has_reply_evidence(c, k) == Prove({i \in Queued(c) : IsReply(rows[i]) /\ rows[i].key # k})
\* A status or a confirmation of what the packet carried.
has_delivery_or_receipt_evidence(i) ==
  /\ rows[i].contact # None /\ Undecided(i) /\ ~IsReply(rows[i]) /\ ~rows[i].proven
  /\ Prove({i})

\* A message that arrived by flood resets the route too, outside the settlements.
reset_route_after_flood_arrival(c) ==
  /\ link /\ c \in contacts
  /\ Spend("disturbances", MaxDisturbances)
  /\ route' = [route EXCEPT ![c] = "flood"]
  /\ UNCHANGED <<rows, contacts, onNode, memory, link, learned, airborne, resent>>

\* The rows keep their packets' history: contact is set to NULL.
delete_contact(c) ==
  /\ c \in contacts
  /\ Spend("disturbances", MaxDisturbances)
  /\ contacts' = contacts \ {c} /\ onNode' = onNode \ {c}
  /\ rows' = [i \in DOMAIN rows |-> IF rows[i].contact = c
                                   THEN [rows[i] EXCEPT !.contact = None, !.moved = FALSE]
                                   ELSE rows[i]]
  /\ UNCHANGED <<memory, node, resent>>

\* Mutant: the contact's row is not looked for.
mark_contact_on_node_unchecked(c) ==
  /\ link /\ c \notin onNode
  /\ onNode' = onNode \cup {c}
  /\ UNCHANGED <<rows, contacts, memory, node, resent, budget>>

\* The contact reconciler adds the contact to the node again.
mark_contact_on_node(c) ==
  /\ link /\ c \in contacts \ onNode
  /\ onNode' = onNode \cup {c}
  /\ UNCHANGED <<rows, contacts, memory, node, resent, budget>>

-----------------------------------------------------------------------------
(* Broken links and crashes.                                               *)

drop_packets_awaiting_acknowledgement ==
  [i \in DOMAIN rows |-> IF rows[i].state = "queued_on_node"
                         THEN [rows[i] EXCEPT !.state = "acknowledgement_timed_out",
                                              !.reset = "dropped_by_restart"]
                         ELSE rows[i]]

\* A command under way fails when the gateway is detached.
Interrupted(t) ==
  CASE task[t].phase = "resetting" -> AfterSettlement(t)
    [] task[t].phase = "sending"   -> [task[t] EXCEPT !.phase = "answered"]
    [] OTHER                       -> task[t]

\* tear_down: the transaction may fail, which is only logged.
tear_down(dropped) ==
  /\ link /\ Spend("disturbances", MaxDisturbances)
  /\ link' = FALSE /\ awaited' = {}
  /\ task' = [t \in Tasks |-> Interrupted(t)]
  /\ lock' = IF lock # None /\ task[lock].phase = "resetting" THEN None ELSE lock
  /\ answer' = IF task["sender"].phase = "sending" THEN "unknown" ELSE answer
  /\ airborne' = IF task["sender"].phase = "sending" THEN airborne \cup {task["sender"].packet}
                                                     ELSE airborne
  /\ rows' = IF dropped THEN drop_packets_awaiting_acknowledgement ELSE rows
  /\ UNCHANGED <<contacts, onNode, replies, hand, passed, unmatched, done, route, learned, resent>>

\* A new connection after the handshake.
mark_connected ==
  /\ ~link /\ link' = TRUE
  /\ UNCHANGED <<rows, contacts, onNode, memory, route, learned, airborne, resent, budget>>

\* The packet table after recover_outbound_packets_at_startup.
recover_outbound_packets_at_startup ==
  [i \in DOMAIN rows |->
     LET row == drop_packets_awaiting_acknowledgement[i]
     IN  CASE row.state = "prepared" -> [row EXCEPT !.state = "outcome_unknown"]
           [] row.reset = "pending"  -> [row EXCEPT !.reset = "dropped_by_restart"]
           [] OTHER                  -> row]

\* The worker dies and starts again.
Restart ==
  /\ Spend("disturbances", MaxDisturbances)
  /\ rows' = recover_outbound_packets_at_startup
  /\ replies' = [id \in Identities |-> NoReply]
  /\ task' = [t \in Tasks |-> IdleTask]
  /\ hand' = NoReply /\ answer' = None
  /\ passed' = {} /\ awaited' = {} /\ unmatched' = {} /\ lock' = None /\ done' = <<>>
  /\ link' = FALSE /\ learned' = {}
  /\ UNCHANGED <<contacts, onNode, route, airborne, resent>>

-----------------------------------------------------------------------------

Settle(t) ==
  \/ settle_pending_route_resets(t) \/ ResumeSettled(t) \/ reset_path(t) \/ FailToResetPath(t)
  \/ add_flood_resend(t)

Send ==
  \/ \E dropped \in SUBSET Identities :
       \/ \E id \in Identities : prepare_reply_packet(id, dropped)
       \/ \E c \in Contacts : prepare_next_packet(c, dropped)
       \/ calculate_idle_wait(dropped)
  \/ ResumePrepared
  \/ \E outcome \in NodeSendOutcome : send_text_message(outcome)
  \/ record_send_outcome \/ handle_recorded_outcome
  \/ ResumeMatched("sender")

Track ==
  \/ \E packets \in SUBSET Ids : FindPassedDeadlines(packets)
  \/ \E i \in DOMAIN rows : HandlePassedDeadline(i)
  \/ ResumeTimedOut

RouteEvents ==
  \/ \E i \in DOMAIN rows : HandleAcknowledgement(i)
  \/ ResumeMatched("router")
  \/ \E c \in Contacts : record_path_update(c)

Environment ==
  \/ \E id \in Identities : add_reply(id)
  \/ drop_replies_to_contacts_other_than
  \/ \E c \in Contacts : \/ LearnRoute(c) \/ reset_route_after_flood_arrival(c)
                        \/ delete_contact(c) \/ mark_contact_on_node(c)
                        \/ \E k \in Keys \cup {None} : has_reply_evidence(c, k)
  \/ \E i \in DOMAIN rows : has_delivery_or_receipt_evidence(i)
  \/ \E dropped \in BOOLEAN : tear_down(dropped)
  \/ mark_connected \/ Restart

Next == Send \/ Track \/ RouteEvents \/ Settle("sender") \/ Settle("tracker") \/ Environment

Spec == Init /\ [][Next]_vars

(***************************************************************************)
(* The tasks are loops that their supervisor starts again, the node        *)
(* answers or its time-out passes, and deadlines pass.  Waiters for the    *)
(* settlement lock are served in turn.                                     *)
(***************************************************************************)
SenderStep ==
  \/ ResumePrepared \/ record_send_outcome \/ handle_recorded_outcome \/ ResumeMatched("sender")
  \/ \E outcome \in NodeSendOutcome : send_text_message(outcome)
TrackerStep ==
  \/ FindPassedDeadlines(awaited) \/ ResumeTimedOut
  \/ \E i \in DOMAIN rows : HandlePassedDeadline(i)
FairSpec ==
  /\ Spec
  /\ WF_vars(SenderStep) /\ WF_vars(TrackerStep) /\ WF_vars(ResumeMatched("router"))
  /\ \A t \in {"sender", "tracker"} :
       WF_vars(Settle(t)) /\ SF_vars(settle_pending_route_resets(t))

-----------------------------------------------------------------------------
(* Properties.                                                             *)

\* maximum_packets_awaiting_node_acknowledgement holds although the sender reads
\* the count before it prepares, sends and records a packet, and the last place
\* is kept for replies (sender_loop.py).
InFlightLimit ==
  /\ Cardinality(awaited) <= MaxInFlight
  /\ Cardinality({i \in awaited : ~IsReply(rows[i])}) <= MaxInFlight - 1

\* The sender counts the slots before it prepares a packet; the place it has in
\* mind stays free until the packet takes it.
Preparing == {"preparing", "locking", "settling", "resetting", "performing", "sending", "answered"}
PlaceInv ==
  task["sender"].phase \in Preparing \cup {"recording"} =>
    /\ task["sender"].packet \in DOMAIN rows /\ task["sender"].contact \in Contacts
    /\ Cardinality(awaited) <= MaxInFlight - 1
    /\ ~IsReply(rows[task["sender"].packet]) =>
         Cardinality({i \in awaited : ~IsReply(rows[i])}) <= MaxInFlight - 2

\* Which steps a task takes, and of what it takes them.
TasksInv ==
  /\ task["sender"].phase # "timing" /\ task["router"].phase \in {"idle", "matching"}
  /\ task["tracker"].phase \in {"idle", "timing", "locking", "settling", "resetting", "performing"}
  /\ \A t \in Tasks :
       /\ task[t].phase \in {"locking", "settling", "resetting", "performing"} => task[t].contact \in Contacts
       /\ task[t].phase \in {"matching", "timing"} => task[t].packet \in DOMAIN rows
  /\ task["sender"].phase \in {"answered", "recording"} => answer \in NodeSendOutcome

\* The worker's memory and the packet table stay within their types and limits
\* (sender_loop.py, messaging/models.py).
LimitsHold == TypeOK /\ InFlightLimit

\* An acknowledgement that came before MSG_SENT was recorded is matched as soon
\* as the sender registers the packet; no kept acknowledgement belongs to a
\* packet that waits for it (acknowledgement_tracker.py).
EarlyAcknowledgementsAreMatched ==
  \A i \in unmatched :
    Matches(i) => task["sender"].packet = i /\ task["sender"].phase = "recording"

\* A packet acknowledged in the database gives its pacing slot back: whoever
\* recorded the acknowledgement is about to free it, or the tracker is.
AcknowledgedPacketsFreeTheirPlace ==
  \A i \in awaited :
    rows[i].state = "node_acknowledged" =>
      \/ i \in passed
      \/ \E t \in Tasks : task[t].packet = i /\ task[t].phase \in {"matching", "timing"}

\* No acknowledgement is lost between node, database and tracker, whichever of
\* them hears of it first (acknowledgement_tracker.py).
AcknowledgementsAreNotLost == EarlyAcknowledgementsAreMatched /\ AcknowledgedPacketsFreeTheirPlace

\* The order in which the calls ended is the order in which their callers resume.
Before(t, u) == \E i, j \in DOMAIN done : i < j /\ done[i] = t /\ done[j] = u

\* Whoever finds a packet acknowledged, or finds no packet to acknowledge, is
\* still to be told so, before or after the sender as the calls ended.
AcknowledgementInv ==
  /\ EarlyAcknowledgementsAreMatched
  /\ \A i \in awaited :
       rows[i].state = "node_acknowledged" =>
         \/ i \in passed
         \/ \E t \in Tasks : task[t].packet = i /\ (task[t].phase = "timing" \/ (task[t].phase = "matching" /\ task[t].found))
  /\ LET s == task["sender"]
         r == task["router"]
     IN  /\ r.phase = "matching" /\ ~r.found /\ Matches(r.packet) =>
              s.phase = "recording" /\ s.packet = r.packet /\ Before("router", "sender")
         /\ s.phase = "matching" /\ ~s.found => ~Matches(s.packet)
         /\ s.phase = "recording" /\ answer \notin PacketQueuedOnNode => ~Matches(s.packet)
         /\ s.phase = "recording" /\ rows[s.packet].state = "node_acknowledged" =>
              r.phase = "matching" /\ r.found /\ r.packet = s.packet /\ Before("sender", "router")

\* A decision is due only once the packet timed out, and an acknowledgement ends it;
\* the one packet that is prepared and has no outcome is the sender's.
DecisionInv ==
  \A i \in DOMAIN rows :
    /\ rows[i].reset # "not_applicable" => rows[i].state \in {"acknowledgement_timed_out", "node_acknowledged"}
    /\ rows[i].state = "node_acknowledged" => rows[i].reset # "pending"
    /\ rows[i].state = "prepared" <=> task["sender"].phase \in Preparing /\ task["sender"].packet = i

\* A reply is queued once more only under a decision that was open when its
\* settlement began, and is taken when it ends.
ResendInv ==
  /\ resent \in [Ids -> {0, 1}]
  /\ \A i \in DOMAIN rows : resent[i] = 1 => rows[i].reset \notin {"not_applicable", "pending"}
  /\ \A i \in Ids \ DOMAIN rows : resent[i] = 0
  /\ \A t \in Tasks :
       task[t].phase \in {"settling", "resetting", "performing"} =>
         /\ task[t].resend \subseteq task[t].need /\ task[t].need \subseteq DOMAIN rows
         /\ \A i \in task[t].need :
              /\ resent[i] = 0 /\ rows[i].reset # "not_applicable"
              /\ task[t].phase = "performing" => rows[i].reset # "pending"

\* What waits or is repeated is never newer than what the services queued.
VersionInv ==
  /\ budget \in [replies : 0 .. MaxReplies, others : Nat, disturbances : Nat]
  /\ \A id \in Identities : replies[id].version <= budget.replies
  /\ \A i \in DOMAIN rows : rows[i].version <= budget.replies
  /\ hand.version <= budget.replies

\* The inductive invariant of OutboundProofs.
IInv ==
  /\ TypeOK /\ InFlightLimit /\ PlaceInv /\ TasksInv
  /\ AcknowledgementInv /\ DecisionInv /\ ResendInv /\ VersionInv

\* A route decision that was taken stays: in particular a late acknowledgement
\* that arrives while the node resets the route is not overwritten by the reset,
\* and an acknowledged packet never gets a decision that is still open.
RouteDecisionsAreFinal ==
  [][\A i \in DOMAIN rows :
       /\ rows[i].reset \notin {"not_applicable", "pending"} => rows'[i].reset = rows[i].reset
       /\ rows[i].state = "node_acknowledged" =>
            /\ rows'[i].state = "node_acknowledged"
            /\ rows'[i].reset = rows[i].reset /\ rows[i].reset # "pending"]_vars

\* No packet's reply is queued once more a second time, although its decision stays
\* pending until the reset is recorded, and a waiting reply gives way to newer ones
\* only: neither a resend nor a reply put back after a full packet pool takes the
\* place of the answer that came meanwhile (acknowledgement_tracker.py,
\* reply_queue.py).
RepeatedRepliesDoNoHarm ==
  [][/\ \A i \in Ids : resent'[i] <= 1
     /\ \A id \in Pending : replies'[id] # NoReply => replies'[id].version >= replies[id].version]_vars

\* Sending never gets stuck: every pacing slot becomes free again, whatever
\* happened to its packet, and the sender ends every step it began, since settling,
\* resetting and sending do not wait for one another for ever.  Packets are
\* bounded, so from some moment on none is awaited and the sender is idle
\* (acknowledgement_tracker.py, sender_loop.py).
SendingGoesOn == <>[](awaited = {} /\ task["sender"].phase = "idle")

\* A reply is queued once more only if it is the newest one for its request
\* (acknowledgement_tracker.py).
ResendsAreTheNewestReply ==
  \A id \in Identities :
    replies[id].resend =>
      ~\E i \in DOMAIN rows :
         rows[i].contact = id[1] /\ rows[i].key = id[2] /\ rows[i].version > replies[id].version
===============================================================================
