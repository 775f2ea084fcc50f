------------------------------ MODULE Deliveries ------------------------------
(***************************************************************************)
(* The delivery engine of the relay: what happens to an accepted message   *)
(* until every device of its recipient has it.  Modelled are the           *)
(* message_deliveries and refresh_sessions tables, the links between       *)
(* devices and users they depend on, and the one packet the sender loop    *)
(* has in hand.                                                            *)
(*                                                                         *)
(* Every action is one database transaction, or one step of the sender     *)
(* loop between two of them.  The worker runs its transactions on a single *)
(* database thread, the panel's deletions take row locks in one global     *)
(* order, so transactions do not overlap; what does interleave is          *)
(* everything that happens between the sender's transactions that prepare  *)
(* a packet and record its outcome.                                        *)
(*                                                                         *)
(* Due times are abstracted to "a next attempt is scheduled": a scheduled  *)
(* row may become due at any moment.  Masks of parts are sets of parts.    *)
(***************************************************************************)
EXTENDS Integers, FiniteSets

CONSTANTS
  Users,          \* accounts
  Devices,        \* contacts that may sign in
  None,           \* NULL: no user, no device
  Writers,        \* bound: the users who write messages
  MaxMessages,    \* bound: messages ever accepted
  PartCount,      \* parts of every message
  MaxAttempts,    \* retry strategy: rounds per arm
  MaxActive,      \* pacing: deliveries in progress per device
  MaxRefreshes,   \* bound: F requests ever served
  MaxSignIns,     \* bound: sign-ins that change a device's user
  MaxDeletions,   \* bound: contacts and users ever deleted
  MaxNodeLosses,  \* bound: times the node turns out not to hold a contact
  MaxCrashes      \* bound: restarts of the worker with a packet in hand

ASSUME ConstantsAssumption ==
  /\ None \notin Users /\ None \notin Devices /\ Writers \subseteq Users
  /\ MaxMessages \in Nat /\ PartCount \in Nat \ {0}
  /\ MaxAttempts \in Nat \ {0} /\ MaxActive \in Nat \ {0}
  /\ MaxRefreshes \in Nat /\ MaxSignIns \in Nat /\ MaxDeletions \in Nat
  /\ MaxNodeLosses \in Nat /\ MaxCrashes \in Nat

\* Messages are numbered in acceptance order.
Msgs  == 1 .. MaxMessages
Parts == 1 .. PartCount

VARIABLES
  contacts,   \* contact rows
  onNode,     \* contacts with node_sync_state on_node
  owner,      \* contact.user
  live,       \* user rows
  conv,       \* sender and recipient of each accepted message
  nextMsg,    \* the next message accepted
  delivered,  \* messages with a delivered_at
  box,        \* message_deliveries: box[device][message]
  sess,       \* the latest refresh session of each (device, peer)
  packet,     \* the packet the sender loop has in hand
  covered,    \* history: parts of the current round the node took or the device reported
  budget      \* how often each bounded request has been made

directory == <<contacts, owner, live>>
vars == <<contacts, onNode, owner, live, conv, nextMsg, delivered, box, sess,
          packet, covered, budget>>

-----------------------------------------------------------------------------
(* Rows.                                                                   *)

NoConv == [from |-> None, to |-> None]
Conversation == [from : Users \cup {None}, to : Users \cup {None}]

RowState == {"none", "pending", "queued_for_refresh", "delivered", "failed", "cancelled"}
\* session is the number of the refresh session with the message's sender that
\* owns (or owned) the row, 0 for none; started is round_started_at, scheduled
\* is next_attempt_at, each reduced to whether it is set.
Row == [state : RowState, session : Nat, attempt : Nat, arm : Nat,
        pending : SUBSET Parts, received : SUBSET Parts,
        started : BOOLEAN, scheduled : BOOLEAN]
NoRow == [state |-> "none", session |-> 0, attempt |-> 0, arm |-> 0,
          pending |-> {}, received |-> {}, started |-> FALSE, scheduled |-> FALSE]

\* The states a relink cancels, and a complete status or a read delivers from.
UNCONFIRMED_DELIVERY_STATES == {"pending", "queued_for_refresh", "failed"}

Session == [gen : Nat, state : {"none", "active", "completed", "stopped", "cancelled"}]
NoSession == [gen |-> 0, state |-> "none"]

\* What the node answered; "taken" stands for queued, unknown and every
\* rejection other than the next two.
NodeAnswer == {"taken", "table_full", "not_found"}
Packet == [phase : {"none", "prepared"} \cup NodeAnswer, dev : Devices \cup {None},
           msg : Msgs \cup {0}, part : Parts \cup {0}, arm : Nat, attempt : Nat]
NoPacket == [phase |-> "none", dev |-> None, msg |-> 0, part |-> 0, arm |-> 0, attempt |-> 0]

Budget == [refreshes : Nat, signIns : Nat, deletions : Nat, nodeLosses : Nat, crashes : Nat]

\* Rows, sessions and the packet in hand have the shapes the tables allow, only
\* contacts with a row are on the node, and a packet in hand names a part
\* (messaging/models.py, directory/node_sync.py).
TypeOK ==
  /\ contacts \subseteq Devices /\ onNode \subseteq contacts
  /\ owner \in [Devices -> Users \cup {None}]
  /\ live \subseteq Users
  /\ conv \in [Msgs -> Conversation]
  /\ nextMsg \in 1 .. MaxMessages + 1
  /\ delivered \subseteq Msgs
  /\ box \in [Devices -> [Msgs -> Row]]
  /\ sess \in [Devices -> [Users -> Session]]
  /\ packet \in Packet /\ (packet.phase # "none" => packet.part \in Parts)
  /\ covered \in [Devices -> [Msgs -> SUBSET Parts]]
  /\ budget \in Budget

Init ==
  /\ contacts = {} /\ onNode = {} /\ live = {}
  /\ owner = [d \in Devices |-> None]
  /\ conv = [m \in Msgs |-> NoConv]
  /\ nextMsg = 1
  /\ delivered = {}
  /\ box = [d \in Devices |-> [m \in Msgs |-> NoRow]]
  /\ sess = [d \in Devices |-> [u \in Users |-> NoSession]]
  /\ packet = NoPacket
  /\ covered = [d \in Devices |-> [m \in Msgs |-> {}]]
  /\ budget = [refreshes |-> 0, signIns |-> 0, deletions |-> 0, nodeLosses |-> 0,
               crashes |-> 0]

First(S) == CHOOSE x \in S : \A y \in S : x <= y

-----------------------------------------------------------------------------
(* The transitions of one row (messaging/deliveries.py).                   *)

create_pending_delivery ==
  [NoRow EXCEPT !.state = "pending", !.arm = 1, !.scheduled = TRUE]

create_refresh_owned_delivery(gen) ==
  [NoRow EXCEPT !.state = "queued_for_refresh", !.session = gen, !.arm = 1]

start_delivery_round(r) ==
  [r EXCEPT !.attempt = @ + 1, !.started = TRUE, !.pending = Parts \ r.received]

complete_delivery_round(r) == [r EXCEPT !.pending = {}, !.scheduled = TRUE]

record_delivery_part_sent(r, part) ==
  LET sent == [r EXCEPT !.pending = @ \ {part}]
  IN  IF r.pending # {} /\ sent.pending = {} THEN complete_delivery_round(sent) ELSE sent

\* bring_next_round_forward only moves a due time, so it leaves the row as is.
record_incomplete_delivery_status(r, reported) ==
  IF r.state # "pending"
  THEN [r EXCEPT !.received = reported]
  ELSE LET told == [r EXCEPT !.received = reported, !.pending = @ \ reported]
       IN  IF r.pending # {} /\ told.pending = {} THEN complete_delivery_round(told) ELSE told

mark_delivery_delivered(r, reported) ==
  [r EXCEPT !.state = "delivered", !.received = reported]

fail_delivery_after_exhausted_attempts(r) == [r EXCEPT !.state = "failed"]

\* Mutant: a stopped refresh forgets what it had queued.
leave_queued_delivery(r) == r

fail_delivery_of_stopped_refresh(r) == [r EXCEPT !.state = "failed"]

take_delivery_into_refresh_session(r, gen) ==
  [r EXCEPT !.state = "queued_for_refresh", !.session = gen, !.attempt = 0, !.arm = @ + 1,
            !.pending = {}, !.started = FALSE, !.scheduled = FALSE,
            !.received = IF r.state = "cancelled" THEN {} ELSE @]

\* Mutant: the head is armed without a next attempt.
arm_without_next_attempt(r) ==
  [r EXCEPT !.state = "pending", !.attempt = 0, !.arm = @ + 1, !.pending = {}]

arm_refresh_session_head(r) ==
  [r EXCEPT !.state = "pending", !.attempt = 0, !.arm = @ + 1, !.pending = {}, !.scheduled = TRUE]

restart_refresh_session_head(r) ==
  IF r.attempt = 0
  THEN [r EXCEPT !.scheduled = TRUE]
  ELSE [r EXCEPT !.attempt = 0, !.arm = @ + 1, !.pending = {}, !.scheduled = TRUE]

\* Mutants: a relink forgets what is being sent; a relink cancels what the
\* device has already confirmed.
cancel_queued_and_failed_only(r) ==
  IF r.state \in {"queued_for_refresh", "failed"} THEN [r EXCEPT !.state = "cancelled"] ELSE r
cancel_whatever_its_state(r) ==
  IF r.state # "none" THEN [r EXCEPT !.state = "cancelled"] ELSE r

cancel_for_relink(r) ==
  IF r.state \in UNCONFIRMED_DELIVERY_STATES THEN [r EXCEPT !.state = "cancelled"] ELSE r

-----------------------------------------------------------------------------
(* Refresh sessions (messaging/refresh_sessions.py).                       *)

IsActive(d, peer) == sess[d][peer].state = "active"

\* The session of the row is the latest one with the message's sender and is active.
InActiveSession(d, m) ==
  LET r == box[d][m]
  IN  r.session # 0 /\ IsActive(d, conv[m].from) /\ sess[d][conv[m].from].gen = r.session

QueuedInSession(d, peer) ==
  {m \in Msgs : /\ conv[m].from = peer
                /\ box[d][m].state = "queued_for_refresh"
                /\ box[d][m].session = sess[d][peer].gen}

\* The queued message accepted first becomes the head.  The mutant takes the last.
arm_last_queued(rows, queue) ==
  [rows EXCEPT ![CHOOSE x \in queue : \A y \in queue : y <= x] = arm_refresh_session_head(@)]
arm_next_refresh_session_head(rows, queue) ==
  [rows EXCEPT ![First(queue)] = arm_refresh_session_head(@)]

select_deliveries_a_refresh_takes_over(d) ==
  {m \in Msgs : /\ conv[m].to = owner[d]
                /\ \/ box[d][m].state \in {"failed", "cancelled"}
                   \/ box[d][m].state = "pending" /\ box[d][m].session = 0}

select_messages_no_device_received(d) ==
  {m \in Msgs : conv[m].to = owner[d] /\ m \notin delivered /\ box[d][m].state = "none"}

\* What a refresh of the conversation with peer locks and takes over.
RefreshScope(d, peer) ==
  {m \in select_deliveries_a_refresh_takes_over(d) \cup select_messages_no_device_received(d) :
     conv[m].from = peer}

find_peer_ids_with_missed_messages(d) ==
  {u \in live \ {owner[d]} : IsActive(d, u) \/ RefreshScope(d, u) # {}}

complete_refresh_session(d, peer) == [sess EXCEPT ![d][peer].state = "completed"]

stop_refresh_session(d, peer) == [sess EXCEPT ![d][peer].state = "stopped"]

cancel_device_refresh_sessions_for_relink(d) ==
  [sess EXCEPT ![d] = [u \in Users |->
     IF IsActive(d, u) THEN [sess[d][u] EXCEPT !.state = "cancelled"] ELSE sess[d][u]]]

\* The row of message m after refresh_peer has served the refresh of its sender.
refreshed_row(d, m) ==
  LET r    == box[d][m]
      peer == conv[m].from
      gen  == sess[d][peer].gen + 1
      row  == IF r.state = "none" THEN create_refresh_owned_delivery(gen)
                                  ELSE take_delivery_into_refresh_session(r, gen)
  IN  IF IsActive(d, peer)
      THEN IF r.state = "pending" /\ InActiveSession(d, m)
           THEN restart_refresh_session_head(r) ELSE r
      ELSE IF m \notin RefreshScope(d, peer) THEN r
      ELSE IF m = First(RefreshScope(d, peer)) THEN arm_refresh_session_head(row) ELSE row

refresh_peers(d, peers) ==
  /\ box' = [box EXCEPT ![d] =
               [m \in Msgs |-> IF conv[m].from \in peers THEN refreshed_row(d, m) ELSE box[d][m]]]
  /\ sess' = [sess EXCEPT ![d] =
               [u \in Users |->
                  IF u \in peers /\ ~IsActive(d, u) /\ RefreshScope(d, u) # {}
                  THEN [gen |-> sess[d][u].gen + 1, state |-> "active"] ELSE sess[d][u]]]

start_refresh(d, peers) ==
  /\ owner[d] # None
  /\ budget.refreshes < MaxRefreshes
  /\ refresh_peers(d, peers)
  /\ budget' = [budget EXCEPT !.refreshes = @ + 1]
  /\ UNCHANGED <<directory, onNode, conv, nextMsg, delivered, packet, covered>>

\* F <peer>
RefreshPeer(d, peer) ==
  /\ peer \in live \ {owner[d]}
  /\ start_refresh(d, {peer})

\* F *
RefreshAll(d) == start_refresh(d, find_peer_ids_with_missed_messages(d))

-----------------------------------------------------------------------------
(* Messages: acceptance with its fan-out, statuses, reads.                 *)

\* The delivery of a new message to device x joins an active refresh of its
\* conversation.  The mutant overlooks the refresh.
fan_out_row_always_pending(x, from) == create_pending_delivery
fan_out_row(x, from) ==
  IF IsActive(x, from) THEN create_refresh_owned_delivery(sess[x][from].gen)
                       ELSE create_pending_delivery

accept_message(d, to) ==
  LET from == owner[d]
  IN  /\ from \in Writers /\ to \in live \ {from}
      /\ nextMsg <= MaxMessages
      /\ conv' = [conv EXCEPT ![nextMsg] = [from |-> from, to |-> to]]
      /\ box' = [x \in Devices |->
                   IF owner[x] = to THEN [box[x] EXCEPT ![nextMsg] = fan_out_row(x, from)] ELSE box[x]]
      /\ nextMsg' = nextMsg + 1
      /\ UNCHANGED <<directory, onNode, delivered, sess, packet, covered, budget>>

\* The device confirmed the message: a confirmed head hands its session on.
deliver(d, m, reported) ==
  LET r      == box[d][m]
      peer   == conv[m].from
      isHead == r.state = "pending" /\ InActiveSession(d, m)
      queue  == QueuedInSession(d, peer) \ {m}
      done   == [box[d] EXCEPT ![m] = mark_delivery_delivered(r, reported)]
  IN  /\ box' = [box EXCEPT ![d] =
                   IF isHead /\ queue # {}
                   THEN arm_next_refresh_session_head(done, queue) ELSE done]
      /\ sess' = IF isHead /\ queue = {} THEN complete_refresh_session(d, peer) ELSE sess

\* K with an incomplete set
RecordIncompleteStatus(d, m, reported) ==
  /\ owner[d] # None /\ conv[m].to = owner[d]
  /\ box[d][m].state \in UNCONFIRMED_DELIVERY_STATES
  /\ reported # Parts
  /\ box' = [box EXCEPT ![d][m] = record_incomplete_delivery_status(@, reported)]
  /\ covered' = [covered EXCEPT ![d][m] = @ \cup reported]
  /\ UNCHANGED <<directory, onNode, conv, nextMsg, delivered, sess, packet, budget>>

\* Mutant: the confirmation does not reach the message.
record_no_message_confirmation(m) == UNCHANGED delivered
record_message_confirmation(m) == delivered' = delivered \cup {m}

\* K with every part
RecordCompleteStatus(d, m) ==
  /\ owner[d] # None /\ conv[m].to = owner[d]
  /\ box[d][m].state \in UNCONFIRMED_DELIVERY_STATES
  /\ deliver(d, m, Parts)
  /\ record_message_confirmation(m)
  /\ UNCHANGED <<directory, onNode, conv, nextMsg, packet, covered, budget>>

\* R
record_read(d, m) ==
  /\ owner[d] # None /\ conv[m].to = owner[d]
  /\ IF box[d][m].state \in UNCONFIRMED_DELIVERY_STATES
     THEN deliver(d, m, box[d][m].received)
     ELSE UNCHANGED <<box, sess>>
  /\ record_message_confirmation(m)
  /\ UNCHANGED <<directory, onNode, conv, nextMsg, packet, covered, budget>>

-----------------------------------------------------------------------------
(* The sender loop: prepare a packet, hand it to the node, record.         *)

DeliveriesInProgress(d) == {m \in Msgs : box[d][m].state = "pending" /\ box[d][m].started}
\* The mutant lets one delivery too many start.
HasFreePlaceOrIsFull(d) == Cardinality(DeliveriesInProgress(d)) <= MaxActive
HasFreePlace(d) == Cardinality(DeliveriesInProgress(d)) < MaxActive

IsDueCandidate(d, m) ==
  /\ box[d][m].state = "pending" /\ box[d][m].scheduled
  /\ d \in onNode
  /\ box[d][m].started \/ HasFreePlace(d)

find_parts_left_in_round(r) == r.pending \ r.received

fail_exhausted_delivery(d, m) ==
  LET peer  == conv[m].from
      stops == InActiveSession(d, m)
      queue == QueuedInSession(d, peer)
  IN  /\ box' = [box EXCEPT ![d] = [n \in Msgs |->
                   IF n = m THEN fail_delivery_after_exhausted_attempts(box[d][n])
                   ELSE IF stops /\ n \in queue THEN fail_delivery_of_stopped_refresh(box[d][n])
                   ELSE box[d][n]]]
      /\ sess' = IF stops THEN stop_refresh_session(d, peer) ELSE sess

\* A candidate whose attempts are spent fails; the walk goes on to the next.
GiveUpDelivery(d, m) ==
  /\ packet.phase = "none" /\ IsDueCandidate(d, m)
  /\ box[d][m].pending = {} /\ box[d][m].attempt >= MaxAttempts
  /\ fail_exhausted_delivery(d, m)
  /\ UNCHANGED <<directory, onNode, conv, nextMsg, delivered, packet, covered, budget>>

\* The round of the packet prepared next: the one in progress, or a new one.
advance_delivery_to_new_round(r) ==
  IF r.pending # {} THEN complete_delivery_round(r) ELSE start_delivery_round(r)

prepare_delivery_packet(d, m) ==
  LET r     == box[d][m]
      isNew == find_parts_left_in_round(r) = {}
      row   == IF isNew THEN advance_delivery_to_new_round(r) ELSE r
      left  == find_parts_left_in_round(row)
  IN  /\ packet.phase = "none" /\ IsDueCandidate(d, m)
      /\ r.pending = {} => r.attempt < MaxAttempts
      /\ box' = [box EXCEPT ![d][m] = row]
      /\ packet' = IF left = {} THEN NoPacket
                   ELSE [phase |-> "prepared", dev |-> d, msg |-> m, part |-> First(left),
                         arm |-> row.arm, attempt |-> row.attempt]
      /\ covered' = IF isNew THEN [covered EXCEPT ![d][m] = r.received] ELSE covered
      /\ UNCHANGED <<directory, onNode, conv, nextMsg, delivered, sess, budget>>

\* The packet still belongs to the round its delivery is in.
IsCurrentPacket ==
  /\ packet.dev # None /\ packet.msg # 0
  /\ box[packet.dev][packet.msg].state = "pending"
  /\ box[packet.dev][packet.msg].arm = packet.arm
  /\ box[packet.dev][packet.msg].attempt = packet.attempt

\* The node is external: it may take any packet, or refuse it.
SendToNode(answer) ==
  /\ packet.phase = "prepared"
  /\ answer = "not_found" => budget.nodeLosses < MaxNodeLosses
  /\ packet' = [packet EXCEPT !.phase = answer]
  /\ budget' = [budget EXCEPT !.nodeLosses = IF answer = "not_found" THEN @ + 1 ELSE @]
  /\ covered' = IF answer = "taken" /\ IsCurrentPacket
                THEN [covered EXCEPT ![packet.dev][packet.msg] = @ \cup {packet.part}]
                ELSE covered
  /\ UNCHANGED <<directory, onNode, conv, nextMsg, delivered, box, sess>>

\* Mutant: a packet the node had no room for counts as sent.
counts_as_sent_if_found(answer) == answer # "not_found"
counts_as_sent(answer) == answer \notin {"not_found", "table_full"}

record_send_outcome ==
  /\ packet.phase \in NodeAnswer
  /\ onNode' = IF packet.phase = "not_found" THEN onNode \ {packet.dev} ELSE onNode
  /\ box' = IF counts_as_sent(packet.phase) /\ IsCurrentPacket
            THEN [box EXCEPT ![packet.dev][packet.msg] = record_delivery_part_sent(@, packet.part)]
            ELSE box
  /\ packet' = NoPacket
  /\ UNCHANGED <<directory, conv, nextMsg, delivered, sess, covered, budget>>

\* The worker dies and starts again: a packet in hand gets an unknown outcome,
\* which counts nothing.
recover_outbound_packets_at_startup ==
  /\ packet.phase # "none"
  /\ budget.crashes < MaxCrashes
  /\ packet' = NoPacket
  /\ budget' = [budget EXCEPT !.crashes = @ + 1]
  /\ UNCHANGED <<directory, onNode, conv, nextMsg, delivered, box, sess, covered>>

-----------------------------------------------------------------------------
(* Accounts, contacts, deletions.                                          *)

relink_device(d) ==
  /\ box' = [box EXCEPT ![d] = [m \in Msgs |-> cancel_for_relink(box[d][m])]]
  /\ sess' = cancel_device_refresh_sessions_for_relink(d)

register_or_sign_in(d, u) ==
  /\ d \in contacts /\ owner[d] # u
  /\ budget.signIns < MaxSignIns
  /\ live' = live \cup {u}
  /\ owner' = [owner EXCEPT ![d] = u]
  /\ IF owner[d] = None THEN UNCHANGED <<box, sess>> ELSE relink_device(d)
  /\ budget' = [budget EXCEPT !.signIns = @ + 1]
  /\ UNCHANGED <<contacts, onNode, conv, nextMsg, delivered, packet, covered>>

add_contact(d) ==
  /\ d \notin contacts
  /\ contacts' = contacts \cup {d}
  /\ UNCHANGED <<onNode, owner, live, conv, nextMsg, delivered, box, sess, packet, covered, budget>>

\* Mutant: the node's late answer about a contact deleted meanwhile is recorded.
mark_contact_on_node_unchecked(d) ==
  /\ d \notin onNode
  /\ onNode' = onNode \cup {d}
  /\ UNCHANGED <<directory, conv, nextMsg, delivered, box, sess, packet, covered, budget>>

mark_contact_on_node(d) ==
  /\ d \in contacts \ onNode
  /\ onNode' = onNode \cup {d}
  /\ UNCHANGED <<directory, conv, nextMsg, delivered, box, sess, packet, covered, budget>>

return_contact_to_pending_add(d) ==
  /\ d \in onNode
  /\ budget.nodeLosses < MaxNodeLosses
  /\ onNode' = onNode \ {d}
  /\ budget' = [budget EXCEPT !.nodeLosses = @ + 1]
  /\ UNCHANGED <<directory, conv, nextMsg, delivered, box, sess, packet, covered>>

\* Rows that reference a deleted contact or message go with it; the packet in
\* hand stays, without the references.
DeleteRows(devs, msgs, peers) ==
  /\ contacts' = contacts \ devs
  /\ onNode' = onNode \ devs
  /\ owner' = [d \in Devices |-> IF d \in devs THEN None ELSE owner[d]]
  /\ conv' = [m \in Msgs |-> IF m \in msgs THEN NoConv ELSE conv[m]]
  /\ delivered' = delivered \ msgs
  /\ box' = [d \in Devices |-> [m \in Msgs |->
               IF d \in devs \/ m \in msgs THEN NoRow ELSE box[d][m]]]
  /\ covered' = [d \in Devices |-> [m \in Msgs |->
               IF d \in devs \/ m \in msgs THEN {} ELSE covered[d][m]]]
  /\ sess' = [d \in Devices |-> [u \in Users |->
               IF d \in devs \/ u \in peers THEN NoSession ELSE sess[d][u]]]
  /\ packet' = [packet EXCEPT !.dev = IF @ \in devs THEN None ELSE @,
                              !.msg = IF packet.dev \in devs \/ @ \in msgs THEN 0 ELSE @]
  /\ budget.deletions < MaxDeletions
  /\ budget' = [budget EXCEPT !.deletions = @ + 1]

delete_contact(d) ==
  /\ d \in contacts
  /\ DeleteRows({d}, {}, {})
  /\ UNCHANGED <<live, nextMsg>>

delete_user(u) ==
  /\ u \in live
  /\ live' = live \ {u}
  /\ DeleteRows({d \in Devices : owner[d] = u},
                {m \in Msgs : u \in {conv[m].from, conv[m].to}}, {u})
  /\ UNCHANGED nextMsg

-----------------------------------------------------------------------------
Next ==
  \/ \E d \in Devices :
       \/ add_contact(d) \/ mark_contact_on_node(d) \/ return_contact_to_pending_add(d)
       \/ delete_contact(d) \/ RefreshAll(d)
       \/ \E u \in Users : register_or_sign_in(d, u) \/ accept_message(d, u) \/ RefreshPeer(d, u)
       \/ \E m \in Msgs :
            \/ \E reported \in SUBSET Parts : RecordIncompleteStatus(d, m, reported)
            \/ RecordCompleteStatus(d, m) \/ record_read(d, m)
            \/ prepare_delivery_packet(d, m) \/ GiveUpDelivery(d, m)
  \/ \E u \in Users : delete_user(u)
  \/ \E answer \in NodeAnswer : SendToNode(answer)
  \/ record_send_outcome
  \/ recover_outbound_packets_at_startup

Spec == Init /\ [][Next]_vars

(***************************************************************************)
(* Fairness.  The reconciler adds every contact to the node.  The sender   *)
(* loop keeps taking due work, hands the packet it prepared to the node    *)
(* and records the answer (a worker that dies is started again, and        *)
(* MaxCrashes says that it does not die for ever).  The node's packet pool *)
(* is not full for ever: of infinitely many packets it takes some.         *)
(***************************************************************************)
SenderStep == \E d \in Devices, m \in Msgs : prepare_delivery_packet(d, m) \/ GiveUpDelivery(d, m)

Fairness ==
  /\ \A d \in Devices : WF_vars(mark_contact_on_node(d))
  /\ WF_vars(SenderStep)
  /\ WF_vars(\E answer \in NodeAnswer : SendToNode(answer))
  /\ SF_vars(SendToNode("taken"))
  /\ WF_vars(record_send_outcome)

FairSpec == Spec /\ Fairness
-----------------------------------------------------------------------------
(* Properties.                                                             *)

\* An active refresh sends one message at a time, in acceptance order: it has
\* exactly one pending head, and every message it has queued was accepted
\* after the head (refresh_sessions.py, protocol guarantee SG-6).
SessionSendsInOrder ==
  \A d \in Devices, u \in Users : IsActive(d, u) =>
    \E h \in Msgs :
      /\ conv[h].from = u /\ box[d][h].state = "pending" /\ InActiveSession(d, h)
      /\ \A m \in Msgs \ {h} :
           conv[m].from = u /\ InActiveSession(d, m) =>
             /\ box[d][m].state # "pending"
             /\ box[d][m].state = "queued_for_refresh" => h < m

\* A finished session owns no unfinished work: whatever is queued for a refresh,
\* or pending as a head, belongs to a session that is still active, so
\* something will move it on.
OutstandingWorkHasASession ==
  \A d \in Devices, m \in Msgs :
    \/ box[d][m].state = "queued_for_refresh"
    \/ box[d][m].state = "pending" /\ box[d][m].session # 0
    => InActiveSession(d, m)

\* While a refresh of a conversation is active the device gets it without a gap:
\* no message of the conversation to the device's user has failed, is
\* cancelled, is sent outside the session, or is missing although no device
\* received it (refresh_sessions.py, refresh_peer; fan_out.py).
RefreshLeavesNoGap ==
  \A d \in Devices, m \in Msgs :
    conv[m].from \in Users /\ IsActive(d, conv[m].from) /\ conv[m].to = owner[d] =>
      /\ box[d][m].state \notin {"failed", "cancelled"}
      /\ box[d][m].state = "pending" => InActiveSession(d, m)
      /\ box[d][m].state = "none" => m \in delivered

\* A refresh loses nothing: no conversation has a gap while its refresh is active,
\* and no work is left behind by a session that has ended
\* (refresh_sessions.py, deliveries.py, fan_out.py).
RefreshesLoseNothing == OutstandingWorkHasASession /\ RefreshLeavesNoGap

\* Only a device that belongs to the recipient has live deliveries of a
\* message: a relink cancels, a deletion removes all others (accounts.py
\* relink_device).
LiveDeliveriesBelongToTheOwner ==
  \A d \in Devices, m \in Msgs :
    box[d][m].state \in UNCONFIRMED_DELIVERY_STATES => owner[d] # None /\ owner[d] = conv[m].to

\* At most MaxActive deliveries of a device are in progress, however refreshes,
\* restarts and new rounds follow each other (outbound_scheduling.py).
InProgressLimit ==
  \A d \in Devices : Cardinality(DeliveriesInProgress(d)) <= MaxActive

\* A round counts as finished, and so an attempt as spent, only when the node
\* took every part of it that the device had not reported: a full packet pool
\* or an unknown contact never uses up an attempt (outbound_packets.py).
FinishedRoundsWereSent ==
  \A d \in Devices, m \in Msgs :
    box[d][m].state = "pending" /\ box[d][m].attempt > 0 /\ box[d][m].pending = {}
      => covered[d][m] = Parts

\* delivered is terminal: no refresh, relink, late status or packet outcome takes
\* it back, only a deletion removes the row.  And a message some device received
\* is known as delivered, so its sender is told (deliveries.py,
\* reads_and_acknowledgements.py).
DeliveredIsFinalAndKnown ==
  [][\A d \in Devices, m \in Msgs :
       /\ box[d][m].state = "delivered" => box'[d][m] \in {box[d][m], NoRow}
       /\ box'[d][m].state = "delivered" => m \in delivered']_vars

\* No delivery stays outstanding for ever: whatever is reported, restarted or
\* queued meanwhile, it is delivered, fails, is cancelled, or goes with its
\* contact or message.  The retry strategy bounds the rounds of a pending row,
\* and the head of a refresh moves every row queued behind it.
\* Messages, sign-ins and refreshes are bounded, so there is a last one.
OutstandingIsSettled ==
  <>[](\A d \in Devices, m \in Msgs : box[d][m].state \notin {"pending", "queued_for_refresh"})

\* A packet the device's new user must not see never goes out: when the node
\* gets a packet its device still belongs to the message's recipient
\* (deliveries.py, cancel_device_deliveries_for_relink).
NothingOfThePreviousUserIsSent ==
  [][packet.phase = "prepared" /\ packet'.phase = "taken" /\ packet.dev # None /\ packet.msg # 0
       => owner[packet.dev] = conv[packet.msg].to]_packet

-----------------------------------------------------------------------------
(* The parts of the inductive invariant that are not properties themselves. *)

\* Users, devices and messages refer only to rows that exist.
DirectoryInv ==
  /\ \A d \in Devices : owner[d] # None => d \in contacts /\ owner[d] \in live
  /\ \A m \in Msgs : \/ conv[m] = NoConv
                     \/ conv[m].from \in live /\ conv[m].to \in live /\ conv[m].from # conv[m].to

\* Only accepted messages that still exist have deliveries.
RowsHaveAMessage ==
  /\ \A m \in Msgs : m >= nextMsg => conv[m] = NoConv
  /\ \A d \in Devices, m \in Msgs : conv[m] = NoConv => box[d][m].state = "none"

\* An active session belongs to a signed-in device and another live user; the
\* sessions rows refer to have been started, and a missing row refers to none.
SessionInv ==
  /\ \A d \in Devices, u \in Users :
       IsActive(d, u) => owner[d] # None /\ owner[d] # u /\ u \in live /\ sess[d][u].gen > 0
  /\ \A d \in Devices, m \in Msgs :
       /\ conv[m] # NoConv => box[d][m].session <= sess[d][conv[m].from].gen
       /\ box[d][m].state = "none" => box[d][m].session = 0

\* A queued row holds no place under the limit, so arming it takes none.
QueuedHoldsNoPlace ==
  \A d \in Devices, m \in Msgs : box[d][m].state = "queued_for_refresh" => ~box[d][m].started

\* Every part is still to be sent in the round, or was taken or reported in it;
\* what the device reported is not to be sent; a part the node took in answer to
\* the current packet is among those taken.
RoundInv ==
  /\ \A d \in Devices, m \in Msgs : box[d][m].state = "pending" =>
       LET r == box[d][m]
       IN  /\ r.attempt > 0 => Parts \subseteq covered[d][m] \cup r.pending
           /\ r.pending # {} => r.attempt > 0
           /\ r.pending \cap r.received = {}
  /\ packet.phase # "none" => packet.attempt > 0
  /\ packet.phase = "taken" /\ IsCurrentPacket => packet.part \in covered[packet.dev][packet.msg]

IInv ==
  /\ TypeOK /\ DirectoryInv /\ RowsHaveAMessage /\ SessionInv /\ QueuedHoldsNoPlace
  /\ SessionSendsInOrder /\ OutstandingWorkHasASession /\ RefreshLeavesNoGap
  /\ LiveDeliveriesBelongToTheOwner /\ InProgressLimit /\ RoundInv
=============================================================================
