--------------------------- MODULE DeliveriesProofs ---------------------------
(* Machine-checked proofs about Deliveries, for every value of its         *)
(* constants.                                                              *)
EXTENDS Deliveries, FiniteSetTheorems, WellFoundedInduction, NaturalsInduction, TLAPS

\* The first message of a non-empty set is one of them, and no other comes before it.
LEMMA FirstIsLeast ==
  ASSUME NEW S \in SUBSET Nat, S # {}
  PROVE  First(S) \in S /\ \A y \in S : First(S) <= y
<1>1. IsWellFoundedOn(OpToRel(<, Nat), Nat)
  BY NatLessThanWellFounded
<1>2. PICK x \in S : \A y \in S : ~(<<y, x>> \in OpToRel(<, Nat))
  BY <1>1, WFMin
<1>3. \A y \in S : ~(y < x)
  BY <1>2 DEF OpToRel
<1>4. \E z \in S : \A y \in S : z <= y
  BY <1>3
<1> QED
  BY <1>4 DEF First

\* Every transition of a row yields a row.
LEMMA NewRows ==
  /\ NoRow \in Row /\ create_pending_delivery \in Row
  /\ \A gen \in Nat : create_refresh_owned_delivery(gen) \in Row
  BY DEF Row, RowState, NoRow, create_pending_delivery, create_refresh_owned_delivery

LEMMA RowTransitions ==
  ASSUME NEW r \in Row
  PROVE  /\ start_delivery_round(r) \in Row
         /\ complete_delivery_round(r) \in Row
         /\ fail_delivery_after_exhausted_attempts(r) \in Row
         /\ fail_delivery_of_stopped_refresh(r) \in Row
         /\ arm_refresh_session_head(r) \in Row
         /\ restart_refresh_session_head(r) \in Row
         /\ cancel_for_relink(r) \in Row
         /\ advance_delivery_to_new_round(r) \in Row
<1> USE DEF Row, RowState
<1>1. r.attempt + 1 \in Nat /\ r.arm + 1 \in Nat
  OBVIOUS
<1>2. complete_delivery_round(r) \in Row
  BY DEF complete_delivery_round
<1>3. start_delivery_round(r) \in Row
  BY <1>1 DEF start_delivery_round
<1>4. fail_delivery_after_exhausted_attempts(r) \in Row /\ fail_delivery_of_stopped_refresh(r) \in Row
  BY DEF fail_delivery_after_exhausted_attempts, fail_delivery_of_stopped_refresh
<1>5. arm_refresh_session_head(r) \in Row
  BY <1>1 DEF arm_refresh_session_head
<1>6. restart_refresh_session_head(r) \in Row
  BY <1>1 DEF restart_refresh_session_head
<1>7. cancel_for_relink(r) \in Row
  BY DEF cancel_for_relink
<1>8. advance_delivery_to_new_round(r) \in Row
  BY <1>2, <1>3 DEF advance_delivery_to_new_round
<1> QED
  BY <1>2, <1>3, <1>4, <1>5, <1>6, <1>7, <1>8

LEMMA RowReports ==
  ASSUME NEW r \in Row, NEW reported \in SUBSET Parts
  PROVE  /\ record_incomplete_delivery_status(r, reported) \in Row
         /\ mark_delivery_delivered(r, reported) \in Row
  BY DEF Row, RowState, record_incomplete_delivery_status, complete_delivery_round,
         mark_delivery_delivered

LEMMA RowPartSent ==
  ASSUME NEW r \in Row, NEW part PROVE record_delivery_part_sent(r, part) \in Row
  BY DEF Row, RowState, record_delivery_part_sent, complete_delivery_round

LEMMA RowTakenOver ==
  ASSUME NEW r \in Row, NEW gen \in Nat PROVE take_delivery_into_refresh_session(r, gen) \in Row
<1>1. r.arm + 1 \in Nat
  BY DEF Row
<1> QED
  BY <1>1 DEF Row, RowState, take_delivery_into_refresh_session

\* Ending a session yields a session.
LEMMA SessionEnds ==
  ASSUME NEW s \in Session
  PROVE  /\ [s EXCEPT !.state = "completed"] \in Session
         /\ [s EXCEPT !.state = "stopped"] \in Session
         /\ [s EXCEPT !.state = "cancelled"] \in Session
  BY DEF Session

-----------------------------------------------------------------------------
(* Type correctness.                                                       *)

LEMMA TypeOKInit == Init => TypeOK
<1> SUFFICES ASSUME Init PROVE TypeOK
  OBVIOUS
<1>1. NoPacket \in Packet /\ NoSession \in Session /\ NoConv \in Conversation
  BY DEF NoPacket, Packet, NoSession, Session, NoConv, Conversation
<1>2. nextMsg \in 1 .. MaxMessages + 1 /\ budget \in Budget /\ packet \in Packet
  BY <1>1, ConstantsAssumption DEF Init, Budget
<1>3. packet.phase = "none"
  BY DEF Init, NoPacket
<1>4. box \in [Devices -> [Msgs -> Row]] /\ sess \in [Devices -> [Users -> Session]]
  BY <1>1, NewRows DEF Init
<1> QED
  BY <1>1, <1>2, <1>3, <1>4 DEF Init, TypeOK

\* What refresh_peers and deliver do to the two tables they change.
LEMMA RefreshTypes ==
  ASSUME box \in [Devices -> [Msgs -> Row]], sess \in [Devices -> [Users -> Session]],
         NEW d \in Devices, NEW peers \in SUBSET Users, refresh_peers(d, peers)
  PROVE  box' \in [Devices -> [Msgs -> Row]] /\ sess' \in [Devices -> [Users -> Session]]
<1>1. \A u \in Users : sess[d][u].gen + 1 \in Nat
  BY DEF Session
<1>2. \A m \in Msgs : conv[m].from \in peers => refreshed_row(d, m) \in Row
  <2> SUFFICES ASSUME NEW m \in Msgs, conv[m].from \in peers
               PROVE  refreshed_row(d, m) \in Row
    OBVIOUS
  <2> DEFINE r   == box[d][m]
             gen == sess[d][conv[m].from].gen + 1
             row == IF r.state = "none" THEN create_refresh_owned_delivery(gen)
                    ELSE take_delivery_into_refresh_session(r, gen)
  <2>1. gen \in Nat /\ r \in Row
    BY <1>1
  <2>2. row \in Row
    BY <2>1, NewRows, RowTakenOver
  <2>3. arm_refresh_session_head(row) \in Row /\ restart_refresh_session_head(r) \in Row
    BY <2>1, <2>2, RowTransitions
  <2> HIDE DEF row, gen
  <2>4. refreshed_row(d, m) \in {r, row, arm_refresh_session_head(row), restart_refresh_session_head(r)}
    BY DEF refreshed_row, row, gen
  <2> QED
    BY <2>1, <2>2, <2>3, <2>4
<1>3. box' \in [Devices -> [Msgs -> Row]]
  BY <1>2 DEF refresh_peers
<1>4. \A u \in Users : [gen |-> sess[d][u].gen + 1, state |-> "active"] \in Session
  BY <1>1 DEF Session
<1>5. sess' \in [Devices -> [Users -> Session]]
  BY <1>4 DEF refresh_peers
<1> QED
  BY <1>3, <1>5

LEMMA DeliverTypes ==
  ASSUME box \in [Devices -> [Msgs -> Row]], sess \in [Devices -> [Users -> Session]],
         MaxMessages \in Nat,
         NEW d \in Devices, NEW m \in Msgs, NEW reported \in SUBSET Parts, deliver(d, m, reported)
  PROVE  box' \in [Devices -> [Msgs -> Row]] /\ sess' \in [Devices -> [Users -> Session]]
<1> DEFINE queue == QueuedInSession(d, conv[m].from) \ {m}
           done  == [box[d] EXCEPT ![m] = mark_delivery_delivered(box[d][m], reported)]
<1>1. done \in [Msgs -> Row]
  BY RowReports
<1>2. queue # {} => First(queue) \in Msgs
  <2>1. queue \subseteq Msgs
    BY DEF QueuedInSession
  <2>2. Msgs \subseteq Nat
    BY DEF Msgs
  <2> HIDE DEF queue
  <2> QED
    BY <2>1, <2>2, FirstIsLeast
<1>3. \A n \in Msgs : arm_refresh_session_head(done[n]) \in Row
  BY <1>1, RowTransitions
<1>4. queue # {} => [done EXCEPT ![First(queue)] = arm_refresh_session_head(@)] \in [Msgs -> Row]
  BY <1>1, <1>2, <1>3
<1>5. box' \in [Devices -> [Msgs -> Row]]
  <2> HIDE DEF done, queue
  <2>1. box'= [box EXCEPT ![d] = done] \/
        (queue # {} /\ box' = [box EXCEPT ![d] = [done EXCEPT ![First(queue)] = arm_refresh_session_head(@)]])
    BY DEF deliver, done, queue, arm_next_refresh_session_head
  <2> QED
    BY <1>1, <1>4, <2>1
<1>6. \A u \in Users : [sess[d][u] EXCEPT !.state = "completed"] \in Session
  BY SessionEnds
<1>7. sess' \in [Devices -> [Users -> Session]]
  BY <1>6 DEF deliver, complete_refresh_session
<1> QED
  BY <1>5, <1>7

LEMMA RelinkTypes ==
  ASSUME box \in [Devices -> [Msgs -> Row]], sess \in [Devices -> [Users -> Session]],
         NEW d \in Devices, relink_device(d)
  PROVE  box' \in [Devices -> [Msgs -> Row]] /\ sess' \in [Devices -> [Users -> Session]]
<1>1. \A m \in Msgs : cancel_for_relink(box[d][m]) \in Row
  BY RowTransitions
<1>2. \A u \in Users : [sess[d][u] EXCEPT !.state = "cancelled"] \in Session
  BY SessionEnds
<1> QED
  BY <1>1, <1>2 DEF relink_device, cancel_device_refresh_sessions_for_relink

LEMMA FailTypes ==
  ASSUME box \in [Devices -> [Msgs -> Row]], sess \in [Devices -> [Users -> Session]],
         NEW d \in Devices, NEW m \in Msgs, fail_exhausted_delivery(d, m)
  PROVE  box' \in [Devices -> [Msgs -> Row]] /\ sess' \in [Devices -> [Users -> Session]]
<1>1. \A n \in Msgs : /\ fail_delivery_after_exhausted_attempts(box[d][n]) \in Row
                      /\ fail_delivery_of_stopped_refresh(box[d][n]) \in Row
  BY RowTransitions
<1>2. \A u \in Users : [sess[d][u] EXCEPT !.state = "stopped"] \in Session
  BY SessionEnds
<1> QED
  BY <1>1, <1>2 DEF fail_exhausted_delivery, stop_refresh_session

LEMMA BudgetTypes ==
  ASSUME TypeOK
  PROVE  /\ [budget EXCEPT !.refreshes = @ + 1] \in Budget
         /\ [budget EXCEPT !.signIns = @ + 1] \in Budget
         /\ [budget EXCEPT !.deletions = @ + 1] \in Budget
         /\ [budget EXCEPT !.nodeLosses = @ + 1] \in Budget
         /\ [budget EXCEPT !.crashes = @ + 1] \in Budget
<1>1. budget \in Budget
  BY DEF TypeOK
<1>2. /\ budget.refreshes + 1 \in Nat /\ budget.signIns + 1 \in Nat /\ budget.deletions + 1 \in Nat
      /\ budget.nodeLosses + 1 \in Nat /\ budget.crashes + 1 \in Nat
  BY <1>1 DEF Budget
<1> QED
  BY <1>1, <1>2 DEF Budget

\* A refresh keeps the types.
LEMMA TypeOKRefresh ==
  ASSUME TypeOK, NEW d \in Devices, NEW peers \in SUBSET Users, start_refresh(d, peers)
  PROVE  TypeOK'
<1>1. box \in [Devices -> [Msgs -> Row]] /\ sess \in [Devices -> [Users -> Session]]
  BY DEF TypeOK
<1>2. box' \in [Devices -> [Msgs -> Row]] /\ sess' \in [Devices -> [Users -> Session]]
  BY <1>1, RefreshTypes DEF start_refresh
<1>3. budget' \in Budget
  BY BudgetTypes DEF start_refresh
<1> QED
  BY <1>2, <1>3 DEF TypeOK, start_refresh, directory

\* A confirmed message keeps the types.
LEMMA TypeOKConfirm ==
  ASSUME TypeOK, NEW d \in Devices, NEW m \in Msgs,
         RecordCompleteStatus(d, m) \/ record_read(d, m)
  PROVE  TypeOK'
<1>1. box \in [Devices -> [Msgs -> Row]] /\ sess \in [Devices -> [Users -> Session]]
  BY DEF TypeOK
<1>2. box[d][m].received \in SUBSET Parts
  BY <1>1 DEF Row
<1>3. \/ UNCHANGED <<box, sess>>
      \/ \E reported \in SUBSET Parts : deliver(d, m, reported)
  BY <1>2 DEF RecordCompleteStatus, record_read
<1>4. box' \in [Devices -> [Msgs -> Row]] /\ sess' \in [Devices -> [Users -> Session]]
  BY <1>1, <1>3, DeliverTypes, ConstantsAssumption
<1>5. delivered' \subseteq Msgs
  BY DEF TypeOK, RecordCompleteStatus, record_read, record_message_confirmation
<1> QED
  BY <1>4, <1>5 DEF TypeOK, RecordCompleteStatus, record_read, record_message_confirmation, directory

\* An incomplete status keeps the types.
LEMMA TypeOKStatus ==
  ASSUME TypeOK, NEW d \in Devices, NEW m \in Msgs, NEW reported \in SUBSET Parts,
         RecordIncompleteStatus(d, m, reported)
  PROVE  TypeOK'
<1>1. record_incomplete_delivery_status(box[d][m], reported) \in Row
  BY RowReports DEF TypeOK
<1>2. box' \in [Devices -> [Msgs -> Row]]
  BY <1>1 DEF TypeOK, RecordIncompleteStatus
<1>3. covered' \in [Devices -> [Msgs -> SUBSET Parts]]
  BY DEF TypeOK, RecordIncompleteStatus
<1> QED
  BY <1>2, <1>3 DEF TypeOK, RecordIncompleteStatus, directory

\* An accepted message keeps the types.
LEMMA TypeOKAccept ==
  ASSUME TypeOK, NEW d \in Devices, NEW to \in Users, accept_message(d, to)
  PROVE  TypeOK'
<1>1. nextMsg \in Msgs /\ nextMsg' \in 1 .. MaxMessages + 1
  BY ConstantsAssumption DEF TypeOK, accept_message, Msgs
<1>2. conv' \in [Msgs -> Conversation]
  <2>1. owner[d] \in Users
    BY ConstantsAssumption DEF accept_message
  <2>2. [from |-> owner[d], to |-> to] \in Conversation
    BY <2>1 DEF Conversation
  <2> QED
    BY <1>1, <2>2 DEF TypeOK, accept_message
<1>3. box' \in [Devices -> [Msgs -> Row]]
  <2>1. owner[d] \in Users
    BY ConstantsAssumption DEF accept_message
  <2>2. \A x \in Devices : sess[x][owner[d]].gen \in Nat
    BY <2>1 DEF TypeOK, Session
  <2>3. \A x \in Devices : create_refresh_owned_delivery(sess[x][owner[d]].gen) \in Row
    BY <2>2, NewRows
  <2>4. box \in [Devices -> [Msgs -> Row]]
    BY DEF TypeOK
  <2> QED
    BY <1>1, <2>3, <2>4, NewRows DEF accept_message, fan_out_row
<1> QED
  BY <1>1, <1>2, <1>3 DEF TypeOK, accept_message, directory

\* A sign-in keeps the types.
LEMMA TypeOKSignIn ==
  ASSUME TypeOK, NEW d \in Devices, NEW u \in Users, register_or_sign_in(d, u)
  PROVE  TypeOK'
<1>1. box \in [Devices -> [Msgs -> Row]] /\ sess \in [Devices -> [Users -> Session]]
  BY DEF TypeOK
<1>2. box' \in [Devices -> [Msgs -> Row]] /\ sess' \in [Devices -> [Users -> Session]]
  BY <1>1, RelinkTypes DEF register_or_sign_in
<1>3. budget' \in Budget
  BY BudgetTypes DEF register_or_sign_in
<1>4. owner' \in [Devices -> Users \cup {None}] /\ live' \subseteq Users
  BY DEF TypeOK, register_or_sign_in
<1> QED
  BY <1>2, <1>3, <1>4 DEF TypeOK, register_or_sign_in

\* The steps of the sender keep the types.
LEMMA TypeOKPrepare ==
  ASSUME TypeOK, NEW d \in Devices, NEW m \in Msgs, prepare_delivery_packet(d, m)
  PROVE  TypeOK'
<1> DEFINE r     == box[d][m]
           isNew == find_parts_left_in_round(r) = {}
           row   == IF isNew THEN advance_delivery_to_new_round(r) ELSE r
           left  == find_parts_left_in_round(row)
           next  == [phase |-> "prepared", dev |-> d, msg |-> m, part |-> First(left),
                     arm |-> row.arm, attempt |-> row.attempt]
<1>1. r \in Row
  BY DEF TypeOK
<1>2. row \in Row
  BY <1>1, RowTransitions
<1> HIDE DEF row
<1>3. left \subseteq Parts /\ row.arm \in Nat /\ row.attempt \in Nat
  BY <1>2 DEF find_parts_left_in_round, Row
<1>4. Parts \subseteq Nat
  BY DEF Parts
<1> HIDE DEF left
<1>5. left # {} => First(left) \in Parts
  BY <1>3, <1>4, FirstIsLeast
<1>6. left # {} => next \in Packet /\ next.part \in Parts
  BY <1>3, <1>5 DEF Packet
<1> HIDE DEF next
<1>7. packet' = NoPacket \/ (left # {} /\ packet' = next)
  BY DEF prepare_delivery_packet, row, left, next
<1>8. packet' \in Packet /\ (packet'.phase # "none" => packet'.part \in Parts)
  BY <1>6, <1>7 DEF NoPacket, Packet
<1>9. box' \in [Devices -> [Msgs -> Row]]
  <2>1. box' = [box EXCEPT ![d][m] = row]
    BY DEF prepare_delivery_packet, row
  <2> QED
    BY <1>2, <2>1 DEF TypeOK
<1>10. covered' \in [Devices -> [Msgs -> SUBSET Parts]]
  <2>1. r.received \in SUBSET Parts
    BY <1>1 DEF Row
  <2> QED
    BY <2>1 DEF TypeOK, prepare_delivery_packet
<1> QED
  BY <1>8, <1>9, <1>10 DEF TypeOK, prepare_delivery_packet, directory

LEMMA TypeOKGiveUp ==
  ASSUME TypeOK, NEW d \in Devices, NEW m \in Msgs, GiveUpDelivery(d, m)
  PROVE  TypeOK'
<1>1. box \in [Devices -> [Msgs -> Row]] /\ sess \in [Devices -> [Users -> Session]]
  BY DEF TypeOK
<1>2. box' \in [Devices -> [Msgs -> Row]] /\ sess' \in [Devices -> [Users -> Session]]
  BY <1>1, FailTypes DEF GiveUpDelivery
<1> QED
  BY <1>2 DEF TypeOK, GiveUpDelivery, directory

LEMMA TypeOKSend ==
  ASSUME TypeOK, NEW answer \in NodeAnswer, SendToNode(answer)
  PROVE  TypeOK'
<1>1. packet' \in Packet
  BY DEF TypeOK, SendToNode, Packet
<1>2. budget' \in Budget
  <2>1. budget' = budget \/ budget' = [budget EXCEPT !.nodeLosses = @ + 1]
    BY DEF SendToNode, TypeOK, Budget
  <2> QED
    BY <2>1, BudgetTypes DEF TypeOK
<1>3. covered' \in [Devices -> [Msgs -> SUBSET Parts]]
  <2>1. CASE answer = "taken" /\ IsCurrentPacket
    <3>1. packet.dev \in Devices /\ packet.msg \in Msgs /\ packet.part \in Parts
      BY <2>1 DEF TypeOK, Packet, IsCurrentPacket, SendToNode
    <3> QED
      BY <2>1, <3>1 DEF TypeOK, SendToNode
  <2>2. CASE ~(answer = "taken" /\ IsCurrentPacket)
    BY <2>2 DEF TypeOK, SendToNode
  <2> QED
    BY <2>1, <2>2
<1> QED
  BY <1>1, <1>2, <1>3 DEF TypeOK, SendToNode, directory

LEMMA TypeOKRecord ==
  ASSUME TypeOK, record_send_outcome \/ recover_outbound_packets_at_startup
  PROVE  TypeOK'
<1>1. packet' \in Packet /\ packet'.phase = "none"
  BY DEF record_send_outcome, recover_outbound_packets_at_startup, NoPacket, Packet
<1>2. CASE record_send_outcome
  <2>1. box' \in [Devices -> [Msgs -> Row]]
    <3>1. CASE counts_as_sent(packet.phase) /\ IsCurrentPacket
      <4>1. packet.dev \in Devices /\ packet.msg \in Msgs
        BY <3>1 DEF TypeOK, Packet, IsCurrentPacket
      <4>2. record_delivery_part_sent(box[packet.dev][packet.msg], packet.part) \in Row
        BY <4>1, RowPartSent DEF TypeOK
      <4> QED
        BY <1>2, <3>1, <4>1, <4>2 DEF TypeOK, record_send_outcome
    <3>2. CASE ~(counts_as_sent(packet.phase) /\ IsCurrentPacket)
      BY <1>2, <3>2 DEF TypeOK, record_send_outcome
    <3> QED
      BY <3>1, <3>2
  <2> QED
    BY <1>1, <1>2, <2>1 DEF TypeOK, record_send_outcome, directory
<1>3. CASE recover_outbound_packets_at_startup
  <2>1. budget' \in Budget
    BY <1>3, BudgetTypes DEF recover_outbound_packets_at_startup
  <2> QED
    BY <1>1, <1>3, <2>1 DEF TypeOK, recover_outbound_packets_at_startup, directory
<1> QED
  BY <1>2, <1>3

\* Contact and user administration keeps the types.
LEMMA TypeOKDeletion ==
  ASSUME TypeOK, NEW devs \in SUBSET Devices, NEW msgs \in SUBSET Msgs, NEW peers \in SUBSET Users,
         DeleteRows(devs, msgs, peers), live' \subseteq live, nextMsg' = nextMsg
  PROVE  TypeOK'
<1>1. conv' \in [Msgs -> Conversation]
  BY DEF TypeOK, DeleteRows, Conversation, NoConv
<1>2. box' \in [Devices -> [Msgs -> Row]]
  BY NewRows DEF TypeOK, DeleteRows
<1>3. sess' \in [Devices -> [Users -> Session]]
  <2>1. NoSession \in Session
    BY DEF NoSession, Session
  <2> QED
    BY <2>1 DEF TypeOK, DeleteRows
<1>4. packet' \in Packet /\ packet'.phase = packet.phase /\ packet'.part = packet.part
  BY DEF TypeOK, DeleteRows, Packet
<1>5. budget' \in Budget
  BY BudgetTypes DEF DeleteRows
<1>6. covered' \in [Devices -> [Msgs -> SUBSET Parts]]
  BY DEF TypeOK, DeleteRows
<1>7. /\ contacts' \subseteq Devices /\ onNode' \subseteq contacts' /\ live' \subseteq Users
      /\ owner' \in [Devices -> Users \cup {None}] /\ delivered' \subseteq Msgs
  BY DEF TypeOK, DeleteRows
<1> QED
  BY <1>1, <1>2, <1>3, <1>4, <1>5, <1>6, <1>7 DEF TypeOK

LEMMA TypeOKDirectory ==
  ASSUME TypeOK, NEW d \in Devices,
         \/ add_contact(d) \/ mark_contact_on_node(d) \/ return_contact_to_pending_add(d)
         \/ delete_contact(d)
  PROVE  TypeOK'
<1>1. CASE add_contact(d)
  BY <1>1 DEF TypeOK, add_contact
<1>2. CASE mark_contact_on_node(d)
  BY <1>2 DEF TypeOK, mark_contact_on_node, directory
<1>3. CASE return_contact_to_pending_add(d)
  <2>1. budget' \in Budget
    BY <1>3, BudgetTypes DEF return_contact_to_pending_add
  <2> QED
    BY <1>3, <2>1 DEF TypeOK, return_contact_to_pending_add, directory
<1>4. CASE delete_contact(d)
  BY <1>4, TypeOKDeletion DEF delete_contact
<1> QED
  BY <1>1, <1>2, <1>3, <1>4

LEMMA TypeOKStep == TypeOK /\ [Next]_vars => TypeOK'
<1> SUFFICES ASSUME TypeOK, [Next]_vars PROVE TypeOK'
  OBVIOUS
<1>1. CASE UNCHANGED vars
  BY <1>1 DEF TypeOK, vars
<1>2. ASSUME NEW d \in Devices, NEW u \in Users, RefreshPeer(d, u) PROVE TypeOK'
  BY <1>2, TypeOKRefresh DEF RefreshPeer
<1>3. ASSUME NEW d \in Devices, RefreshAll(d) PROVE TypeOK'
  <2>1. find_peer_ids_with_missed_messages(d) \in SUBSET Users
    BY DEF TypeOK, find_peer_ids_with_missed_messages
  <2> QED
    BY <1>3, <2>1, TypeOKRefresh DEF RefreshAll
<1>4. ASSUME NEW u \in Users, delete_user(u) PROVE TypeOK'
  BY <1>4, TypeOKDeletion DEF delete_user
<1>5. CASE Next
  BY <1>2, <1>3, <1>4, <1>5, TypeOKConfirm, TypeOKStatus, TypeOKAccept, TypeOKSignIn,
     TypeOKPrepare, TypeOKGiveUp, TypeOKSend, TypeOKRecord, TypeOKDirectory
  DEF Next
<1> QED
  BY <1>1, <1>5

\* Every reachable state of the delivery engine is well typed: whatever requests,
\* sender steps, deletions and crashes happen, rows, sessions and the packet in
\* hand keep their shape.
THEOREM TypeCorrect == Spec => []TypeOK
  BY TypeOKInit, TypeOKStep, PTL DEF Spec

-----------------------------------------------------------------------------
(* Live deliveries belong to the owner of their device.                    *)

\* What the transitions do to the state of a row.
LEMMA RowStates ==
  ASSUME NEW r \in Row
  PROVE  /\ advance_delivery_to_new_round(r).state = r.state
         /\ restart_refresh_session_head(r).state = r.state
         /\ cancel_for_relink(r).state \in {r.state, "cancelled"}
         /\ cancel_for_relink(r).state \notin UNCONFIRMED_DELIVERY_STATES
<1> USE DEF Row
<1>1. start_delivery_round(r).state = r.state /\ complete_delivery_round(r).state = r.state
  BY DEF start_delivery_round, complete_delivery_round
<1>2. advance_delivery_to_new_round(r).state = r.state
  BY <1>1 DEF advance_delivery_to_new_round
<1>3. restart_refresh_session_head(r).state = r.state
  BY DEF restart_refresh_session_head
<1>4. cancel_for_relink(r).state \in {r.state, "cancelled"}
  BY DEF cancel_for_relink
<1>5. cancel_for_relink(r).state \notin UNCONFIRMED_DELIVERY_STATES
  BY DEF cancel_for_relink, UNCONFIRMED_DELIVERY_STATES
<1> QED
  BY <1>2, <1>3, <1>4, <1>5

LEMMA RowReportStates ==
  ASSUME NEW r \in Row, NEW reported \in SUBSET Parts
  PROVE  record_incomplete_delivery_status(r, reported).state = r.state
  BY DEF Row, record_incomplete_delivery_status, complete_delivery_round

LEMMA RowPartStates ==
  ASSUME NEW r \in Row, NEW part
  PROVE  record_delivery_part_sent(r, part).state = r.state
  BY DEF Row, record_delivery_part_sent, complete_delivery_round

OwnerInv == TypeOK /\ RowsHaveAMessage /\ LiveDeliveriesBelongToTheOwner

\* A step that leaves the links and the messages alone, and changes rows only of
\* devices whose user is the recipient, keeps the invariant.
LEMMA RowsOfTheOwnerChange ==
  ASSUME OwnerInv, UNCHANGED <<owner, conv, nextMsg>>,
         \A x \in Devices, n \in Msgs :
           \/ box'[x][n].state = box[x][n].state
           \/ owner[x] # None /\ owner[x] = conv[n].to
  PROVE  RowsHaveAMessage' /\ LiveDeliveriesBelongToTheOwner'
<1>1. \A n \in Msgs : conv[n] = NoConv => conv[n].to = None
  BY DEF NoConv
<1>2. RowsHaveAMessage'
  BY <1>1 DEF OwnerInv, RowsHaveAMessage
<1>3. LiveDeliveriesBelongToTheOwner'
  BY DEF OwnerInv, LiveDeliveriesBelongToTheOwner
<1> QED
  BY <1>2, <1>3

LEMMA OwnerInvRefresh ==
  ASSUME OwnerInv, NEW d \in Devices, NEW peers \in SUBSET Users, start_refresh(d, peers)
  PROVE  RowsHaveAMessage' /\ LiveDeliveriesBelongToTheOwner'
<1>1. box \in [Devices -> [Msgs -> Row]]
  BY DEF OwnerInv, TypeOK
<1>2. ASSUME NEW n \in Msgs
      PROVE  refreshed_row(d, n).state = box[d][n].state \/ conv[n].to = owner[d]
  <2>1. CASE n \in RefreshScope(d, conv[n].from)
    BY <2>1 DEF RefreshScope, select_deliveries_a_refresh_takes_over,
               select_messages_no_device_received
  <2>2. CASE n \notin RefreshScope(d, conv[n].from)
    <3>1. refreshed_row(d, n) \in {box[d][n], restart_refresh_session_head(box[d][n])}
      BY <2>2 DEF refreshed_row
    <3>2. restart_refresh_session_head(box[d][n]).state = box[d][n].state
      BY <1>1, RowStates
    <3> QED
      BY <3>1, <3>2
  <2> QED
    BY <2>1, <2>2
<1>3. \A x \in Devices, n \in Msgs :
        box'[x][n] = box[x][n] \/ (x = d /\ box'[x][n] = refreshed_row(d, n))
  BY <1>1 DEF start_refresh, refresh_peers
<1>4. owner[d] # None /\ UNCHANGED <<owner, conv, nextMsg>>
  BY DEF start_refresh, directory
<1> QED
  BY <1>2, <1>3, <1>4, RowsOfTheOwnerChange

\* Only the row of message m and rows queued for a refresh change when a
\* delivery is confirmed.
LEMMA DeliverChanges ==
  ASSUME TypeOK, NEW d \in Devices, NEW m \in Msgs, NEW reported \in SUBSET Parts,
         deliver(d, m, reported)
  PROVE  \A x \in Devices, n \in Msgs :
           \/ box'[x][n] = box[x][n]
           \/ x = d /\ n = m /\ box'[x][n] = mark_delivery_delivered(box[x][n], reported)
           \/ /\ x = d /\ n # m /\ box[x][n].state = "queued_for_refresh"
              /\ box'[x][n] = arm_refresh_session_head(box[x][n])
<1> DEFINE queue == QueuedInSession(d, conv[m].from) \ {m}
           done  == [box[d] EXCEPT ![m] = mark_delivery_delivered(box[d][m], reported)]
<1>1. box \in [Devices -> [Msgs -> Row]]
  BY DEF TypeOK
<1>2. done \in [Msgs -> Row]
  BY <1>1, RowReports
<1>3. \A n \in Msgs : IF n = m THEN done[n] = mark_delivery_delivered(box[d][n], reported)
                               ELSE done[n] = box[d][n]
  BY <1>1
<1>4. queue # {} => /\ First(queue) \in Msgs \ {m}
                    /\ box[d][First(queue)].state = "queued_for_refresh"
  <2>1. queue \subseteq Msgs \ {m} /\ \A n \in queue : box[d][n].state = "queued_for_refresh"
    BY DEF QueuedInSession
  <2>2. Msgs \subseteq Nat
    BY DEF Msgs
  <2> HIDE DEF queue
  <2> QED
    BY <2>1, <2>2, FirstIsLeast
<1>5. \/ box' = [box EXCEPT ![d] = done]
      \/ /\ queue # {}
         /\ box' = [box EXCEPT ![d] = [done EXCEPT ![First(queue)] = arm_refresh_session_head(@)]]
  BY DEF deliver, arm_next_refresh_session_head
<1> HIDE DEF queue, done
<1>6. CASE box' = [box EXCEPT ![d] = done]
  BY <1>1, <1>3, <1>6
<1>7. CASE queue # {} /\ box' = [box EXCEPT ![d] = [done EXCEPT ![First(queue)] = arm_refresh_session_head(@)]]
  <2>1. \A x \in Devices, n \in Msgs :
          box'[x][n] = IF x # d THEN box[x][n]
                       ELSE IF n = First(queue) THEN arm_refresh_session_head(done[n]) ELSE done[n]
    BY <1>1, <1>2, <1>4, <1>7
  <2> QED
    BY <1>3, <1>4, <1>7, <2>1
<1> QED
  BY <1>5, <1>6, <1>7

\* Whoever queues a delivery for a refresh, or has it pending, is the owner.
LEMMA OwnerInvConfirm ==
  ASSUME OwnerInv, NEW d \in Devices, NEW m \in Msgs, RecordCompleteStatus(d, m) \/ record_read(d, m)
  PROVE  RowsHaveAMessage' /\ LiveDeliveriesBelongToTheOwner'
<1>1. box \in [Devices -> [Msgs -> Row]] /\ TypeOK
  BY DEF OwnerInv, TypeOK
<1>2. box[d][m].received \in SUBSET Parts
  BY <1>1 DEF Row
<1>3. \/ UNCHANGED box
      \/ \E reported \in SUBSET Parts : deliver(d, m, reported)
  BY <1>2 DEF RecordCompleteStatus, record_read
<1>4. \A x \in Devices, n \in Msgs :
        \/ box'[x][n] = box[x][n]
        \/ x = d /\ n = m
        \/ x = d /\ box[x][n].state = "queued_for_refresh"
  BY <1>1, <1>3, DeliverChanges
<1>5. \A n \in Msgs : box[d][n].state = "queued_for_refresh" => owner[d] # None /\ owner[d] = conv[n].to
  BY DEF OwnerInv, LiveDeliveriesBelongToTheOwner, UNCONFIRMED_DELIVERY_STATES
<1>6. owner[d] # None /\ owner[d] = conv[m].to /\ UNCHANGED <<owner, conv, nextMsg>>
  BY DEF RecordCompleteStatus, record_read, directory
<1> QED
  BY <1>4, <1>5, <1>6, RowsOfTheOwnerChange

LEMMA OwnerInvGiveUp ==
  ASSUME OwnerInv, NEW d \in Devices, NEW m \in Msgs, GiveUpDelivery(d, m)
  PROVE  RowsHaveAMessage' /\ LiveDeliveriesBelongToTheOwner'
<1>1. box \in [Devices -> [Msgs -> Row]]
  BY DEF OwnerInv, TypeOK
<1>2. box[d][m].state = "pending" /\ fail_exhausted_delivery(d, m)
  BY DEF GiveUpDelivery, IsDueCandidate
<1>3. \A x \in Devices, n \in Msgs :
        box'[x][n] = box[x][n] \/ (x = d /\ (n = m \/ n \in QueuedInSession(d, conv[m].from)))
  BY <1>1, <1>2 DEF fail_exhausted_delivery, stop_refresh_session
<1>4. \A n \in Msgs : box[d][n].state \in {"pending", "queued_for_refresh"}
                        => owner[d] # None /\ owner[d] = conv[n].to
  BY DEF OwnerInv, LiveDeliveriesBelongToTheOwner, UNCONFIRMED_DELIVERY_STATES
<1>5. \A n \in QueuedInSession(d, conv[m].from) : box[d][n].state = "queued_for_refresh"
  BY DEF QueuedInSession
<1>6. UNCHANGED <<owner, conv, nextMsg>>
  BY DEF GiveUpDelivery, directory
<1> QED
  BY <1>2, <1>3, <1>4, <1>5, <1>6, RowsOfTheOwnerChange

\* Statuses, packets and the node's view of contacts change no row's state.
LEMMA OwnerInvSameStates ==
  ASSUME OwnerInv, NEW d \in Devices, NEW m \in Msgs, NEW reported \in SUBSET Parts,
         RecordIncompleteStatus(d, m, reported) \/ prepare_delivery_packet(d, m)
  PROVE  RowsHaveAMessage' /\ LiveDeliveriesBelongToTheOwner'
<1>1. box \in [Devices -> [Msgs -> Row]]
  BY DEF OwnerInv, TypeOK
<1>2. \E row \in {box[d][m], advance_delivery_to_new_round(box[d][m]),
                  record_incomplete_delivery_status(box[d][m], reported)} :
        box' = [box EXCEPT ![d][m] = row]
  BY DEF RecordIncompleteStatus, prepare_delivery_packet
<1>3. /\ advance_delivery_to_new_round(box[d][m]).state = box[d][m].state
      /\ record_incomplete_delivery_status(box[d][m], reported).state = box[d][m].state
  BY <1>1, RowStates, RowReportStates
<1>4. \A x \in Devices, n \in Msgs : box'[x][n].state = box[x][n].state
  BY <1>1, <1>2, <1>3
<1>5. UNCHANGED <<owner, conv, nextMsg>>
  BY DEF RecordIncompleteStatus, prepare_delivery_packet, directory
<1> QED
  BY <1>4, <1>5, RowsOfTheOwnerChange

LEMMA OwnerInvRecord ==
  ASSUME OwnerInv, record_send_outcome
  PROVE  RowsHaveAMessage' /\ LiveDeliveriesBelongToTheOwner'
<1>1. box \in [Devices -> [Msgs -> Row]]
  BY DEF OwnerInv, TypeOK
<1>2. UNCHANGED <<owner, conv, nextMsg>>
  BY DEF record_send_outcome, directory
<1>3. \A x \in Devices, n \in Msgs : box'[x][n].state = box[x][n].state
  <2>1. CASE UNCHANGED box
    BY <2>1
  <2>2. CASE IsCurrentPacket /\ box' = [box EXCEPT ![packet.dev][packet.msg] =
                                          record_delivery_part_sent(@, packet.part)]
    <3>1. packet.dev \in Devices /\ packet.msg \in Msgs
      BY <2>2 DEF OwnerInv, TypeOK, Packet, IsCurrentPacket
    <3>2. record_delivery_part_sent(box[packet.dev][packet.msg], packet.part).state
            = box[packet.dev][packet.msg].state
      BY <1>1, <3>1, RowPartStates
    <3> QED
      BY <1>1, <2>2, <3>1, <3>2
  <2> QED
    BY <2>1, <2>2 DEF record_send_outcome
<1> QED
  BY <1>2, <1>3, RowsOfTheOwnerChange

LEMMA OwnerInvAccept ==
  ASSUME OwnerInv, NEW d \in Devices, NEW to \in Users, accept_message(d, to)
  PROVE  RowsHaveAMessage' /\ LiveDeliveriesBelongToTheOwner'
<1>1. box \in [Devices -> [Msgs -> Row]] /\ conv \in [Msgs -> Conversation]
  BY DEF OwnerInv, TypeOK
<1>2. nextMsg \in Msgs /\ nextMsg' = nextMsg + 1 /\ owner' = owner
  BY ConstantsAssumption DEF OwnerInv, TypeOK, accept_message, Msgs, directory
<1>3. \A n \in Msgs : conv'[n] = IF n = nextMsg THEN [from |-> owner[d], to |-> to] ELSE conv[n]
  BY <1>1, <1>2 DEF accept_message
<1>4. \A x \in Devices, n \in Msgs :
        box'[x][n] = IF owner[x] = to /\ n = nextMsg THEN fan_out_row(x, owner[d]) ELSE box[x][n]
  BY <1>1, <1>2 DEF accept_message
<1>5. \A x \in Devices : box[x][nextMsg].state = "none"
  BY <1>2 DEF OwnerInv, RowsHaveAMessage, Msgs
<1>6. to # None /\ [from |-> owner[d], to |-> to] # NoConv
  BY ConstantsAssumption DEF NoConv
<1>7. RowsHaveAMessage'
  BY <1>2, <1>3, <1>4, <1>6 DEF OwnerInv, RowsHaveAMessage, Msgs
<1>8. LiveDeliveriesBelongToTheOwner'
  BY <1>2, <1>3, <1>4, <1>5, <1>6
  DEF OwnerInv, LiveDeliveriesBelongToTheOwner, UNCONFIRMED_DELIVERY_STATES
<1> QED
  BY <1>7, <1>8

LEMMA OwnerInvSignIn ==
  ASSUME OwnerInv, NEW d \in Devices, NEW u \in Users, register_or_sign_in(d, u)
  PROVE  RowsHaveAMessage' /\ LiveDeliveriesBelongToTheOwner'
<1>1. box \in [Devices -> [Msgs -> Row]] /\ owner \in [Devices -> Users \cup {None}]
  BY DEF OwnerInv, TypeOK
<1>2. UNCHANGED <<conv, nextMsg>> /\ \A x \in Devices : x # d => owner'[x] = owner[x]
  BY <1>1 DEF register_or_sign_in
<1>3. \A x \in Devices, n \in Msgs : x # d => box'[x][n] = box[x][n]
  BY <1>1 DEF register_or_sign_in, relink_device
<1>4. \A n \in Msgs : /\ box'[d][n].state \in {box[d][n].state, "cancelled"}
                      /\ box[d][n].state = "none" => box'[d][n].state = "none"
                      /\ box'[d][n].state \notin UNCONFIRMED_DELIVERY_STATES
  <2>1. CASE owner[d] = None
    BY <2>1 DEF register_or_sign_in, OwnerInv, LiveDeliveriesBelongToTheOwner
  <2>2. CASE owner[d] # None
    <3>1. \A n \in Msgs : box'[d][n] = cancel_for_relink(box[d][n])
      BY <1>1, <2>2 DEF register_or_sign_in, relink_device
    <3>2. \A n \in Msgs : /\ cancel_for_relink(box[d][n]).state \in {box[d][n].state, "cancelled"}
                          /\ cancel_for_relink(box[d][n]).state \notin UNCONFIRMED_DELIVERY_STATES
      BY <1>1, RowStates
    <3>3. \A n \in Msgs : box[d][n].state = "none" => cancel_for_relink(box[d][n]) = box[d][n]
      BY DEF cancel_for_relink, UNCONFIRMED_DELIVERY_STATES
    <3> QED
      BY <3>1, <3>2, <3>3
  <2> QED
    BY <2>1, <2>2
<1>5. RowsHaveAMessage'
  BY <1>2, <1>3, <1>4 DEF OwnerInv, RowsHaveAMessage
<1>6. LiveDeliveriesBelongToTheOwner'
  BY <1>2, <1>3, <1>4 DEF OwnerInv, LiveDeliveriesBelongToTheOwner
<1> QED
  BY <1>5, <1>6

LEMMA OwnerInvDeletion ==
  ASSUME OwnerInv, NEW devs \in SUBSET Devices, NEW msgs \in SUBSET Msgs, NEW peers \in SUBSET Users,
         DeleteRows(devs, msgs, peers), nextMsg' = nextMsg
  PROVE  RowsHaveAMessage' /\ LiveDeliveriesBelongToTheOwner'
<1>1. \A x \in Devices : owner'[x] = IF x \in devs THEN None ELSE owner[x]
  BY DEF DeleteRows
<1>2. \A n \in Msgs : conv'[n] = IF n \in msgs THEN NoConv ELSE conv[n]
  BY DEF DeleteRows
<1>3. \A x \in Devices, n \in Msgs :
        box'[x][n] = IF x \in devs \/ n \in msgs THEN NoRow ELSE box[x][n]
  BY DEF DeleteRows
<1>4. NoRow.state = "none" /\ "none" \notin UNCONFIRMED_DELIVERY_STATES
  BY DEF NoRow, UNCONFIRMED_DELIVERY_STATES
<1>5. RowsHaveAMessage'
  BY <1>2, <1>3, <1>4 DEF OwnerInv, RowsHaveAMessage
<1>6. LiveDeliveriesBelongToTheOwner'
  BY <1>1, <1>2, <1>3, <1>4 DEF OwnerInv, LiveDeliveriesBelongToTheOwner
<1> QED
  BY <1>5, <1>6

LEMMA OwnerInvInit == Init => OwnerInv
<1> SUFFICES ASSUME Init PROVE RowsHaveAMessage /\ LiveDeliveriesBelongToTheOwner
  BY TypeOKInit DEF OwnerInv
<1>1. \A d \in Devices, m \in Msgs : box[d][m].state = "none"
  BY DEF Init, NoRow
<1>2. \A m \in Msgs : conv[m] = NoConv
  BY DEF Init
<1> QED
  BY <1>1, <1>2 DEF RowsHaveAMessage, LiveDeliveriesBelongToTheOwner, UNCONFIRMED_DELIVERY_STATES

LEMMA OwnerInvStep == OwnerInv /\ [Next]_vars => OwnerInv'
<1> SUFFICES ASSUME OwnerInv, [Next]_vars PROVE RowsHaveAMessage' /\ LiveDeliveriesBelongToTheOwner'
  BY TypeOKStep DEF OwnerInv
<1> DEFINE Goal == RowsHaveAMessage' /\ LiveDeliveriesBelongToTheOwner'
<1>1. ASSUME UNCHANGED <<box, owner, conv, nextMsg>> PROVE Goal
  BY <1>1, RowsOfTheOwnerChange
<1>2. ASSUME NEW d \in Devices, NEW u \in Users, RefreshPeer(d, u) PROVE Goal
  BY <1>2, OwnerInvRefresh DEF RefreshPeer
<1>3. ASSUME NEW d \in Devices, RefreshAll(d) PROVE Goal
  <2>1. find_peer_ids_with_missed_messages(d) \in SUBSET Users
    BY DEF OwnerInv, TypeOK, find_peer_ids_with_missed_messages
  <2> QED
    BY <1>3, <2>1, OwnerInvRefresh DEF RefreshAll
<1>4. ASSUME NEW u \in Users, delete_user(u) PROVE Goal
  BY <1>4, OwnerInvDeletion DEF delete_user
<1>5. ASSUME NEW d \in Devices, delete_contact(d) PROVE Goal
  BY <1>5, OwnerInvDeletion DEF delete_contact
<1>6. ASSUME NEW d \in Devices,
             add_contact(d) \/ mark_contact_on_node(d) \/ return_contact_to_pending_add(d)
      PROVE  Goal
  BY <1>1, <1>6 DEF add_contact, mark_contact_on_node, return_contact_to_pending_add, directory
<1>7. ASSUME NEW answer \in NodeAnswer, SendToNode(answer) PROVE Goal
  BY <1>1, <1>7 DEF SendToNode, directory
<1>8. CASE recover_outbound_packets_at_startup
  BY <1>1, <1>8 DEF recover_outbound_packets_at_startup, directory
<1>9. CASE UNCHANGED vars
  BY <1>1, <1>9 DEF vars
<1>10. ASSUME NEW d \in Devices, NEW m \in Msgs, prepare_delivery_packet(d, m) PROVE Goal
  BY <1>10, OwnerInvSameStates, {} \in SUBSET Parts
<1>11. CASE Next
  BY <1>2, <1>3, <1>4, <1>5, <1>6, <1>7, <1>8, <1>10, <1>11, OwnerInvConfirm, OwnerInvGiveUp,
     OwnerInvSameStates, OwnerInvRecord, OwnerInvAccept, OwnerInvSignIn
  DEF Next
<1> QED
  BY <1>9, <1>11

\* A delivery that may still be sent, or revived by a status, belongs to a device
\* of the message's recipient: no sign-in, relink, refresh or deletion leaves a
\* live row behind on a device of somebody else.
THEOREM LiveDeliveriesStayWithTheOwner == Spec => []LiveDeliveriesBelongToTheOwner
<1>1. OwnerInv => LiveDeliveriesBelongToTheOwner
  BY DEF OwnerInv
<1> QED
  BY <1>1, OwnerInvInit, OwnerInvStep, PTL DEF Spec

-----------------------------------------------------------------------------
(* What each step does to the rows, one by one.                            *)

\* A refresh changes rows of its device and of the conversations it serves.
LEMMA RefreshChanges ==
  ASSUME TypeOK, NEW d \in Devices, NEW peers \in SUBSET Users, start_refresh(d, peers)
  PROVE  /\ UNCHANGED <<contacts, onNode, owner, live, conv, nextMsg, delivered, packet, covered>>
         /\ owner[d] # None
         /\ \A x \in Devices, n \in Msgs :
              box'[x][n] = IF x = d /\ conv[n].from \in peers THEN refreshed_row(d, n) ELSE box[x][n]
         /\ \A x \in Devices, u \in Users :
              sess'[x][u] = IF x = d /\ u \in peers /\ ~IsActive(d, u) /\ RefreshScope(d, u) # {}
                            THEN [gen |-> sess[d][u].gen + 1, state |-> "active"] ELSE sess[x][u]
<1>1. box \in [Devices -> [Msgs -> Row]] /\ sess \in [Devices -> [Users -> Session]]
  BY DEF TypeOK
<1> QED
  BY <1>1 DEF start_refresh, refresh_peers, directory

\* The row a refresh leaves: as it was, a head started again, queued for the new
\* session, or its head.
LEMMA RefreshedRow ==
  ASSUME TypeOK, NEW d \in Devices, NEW n \in Msgs
  PROVE  LET r    == box[d][n]
             peer == conv[n].from
             t    == refreshed_row(d, n)
         IN  \/ t = r /\ (IsActive(d, peer) \/ n \notin RefreshScope(d, peer))
             \/ /\ IsActive(d, peer) /\ r.state = "pending" /\ InActiveSession(d, n)
                /\ t = restart_refresh_session_head(r)
             \/ /\ ~IsActive(d, peer) /\ n \in RefreshScope(d, peer)
                /\ n # First(RefreshScope(d, peer))
                /\ t.state = "queued_for_refresh" /\ t.session = sess[d][peer].gen + 1 /\ ~t.started
             \/ /\ ~IsActive(d, peer) /\ n \in RefreshScope(d, peer)
                /\ n = First(RefreshScope(d, peer))
                /\ t.state = "pending" /\ t.session = sess[d][peer].gen + 1 /\ ~t.started
                /\ t.attempt = 0 /\ t.pending = {}
<1> DEFINE r    == box[d][n]
           peer == conv[n].from
           gen  == sess[d][peer].gen + 1
           row  == IF r.state = "none" THEN create_refresh_owned_delivery(gen)
                   ELSE take_delivery_into_refresh_session(r, gen)
           head == arm_refresh_session_head(row)
<1>1. r \in Row
  BY DEF TypeOK
<1>2. /\ row.state = "queued_for_refresh" /\ row.session = gen /\ row.started = FALSE
      /\ head.state = "pending" /\ head.session = gen /\ head.started = FALSE
      /\ head.attempt = 0 /\ head.pending = {}
  <2> HIDE DEF gen, r
  <2>1. CASE r.state = "none"
    BY <2>1 DEF create_refresh_owned_delivery, NoRow, arm_refresh_session_head
  <2>2. CASE r.state # "none"
    BY <1>1, <2>2 DEF take_delivery_into_refresh_session, Row, arm_refresh_session_head
  <2> QED
    BY <2>1, <2>2
<1> HIDE DEF row, gen, head
<1>3. refreshed_row(d, n) =
        IF IsActive(d, peer)
        THEN IF r.state = "pending" /\ InActiveSession(d, n) THEN restart_refresh_session_head(r) ELSE r
        ELSE IF n \notin RefreshScope(d, peer) THEN r
        ELSE IF n = First(RefreshScope(d, peer)) THEN head ELSE row
  BY DEF refreshed_row, row, gen, head
<1> QED
  BY <1>2, <1>3 DEF gen

Between(from, to) == [from |-> from, to |-> to]

\* An acceptance gives every device of the recipient a row for the new message.
LEMMA AcceptChanges ==
  ASSUME TypeOK, NEW d \in Devices, NEW to \in Users, accept_message(d, to)
  PROVE  /\ UNCHANGED <<contacts, onNode, owner, live, delivered, sess, packet, covered>>
         /\ owner[d] \in Users /\ to \in live /\ to # owner[d]
         /\ nextMsg \in Msgs /\ nextMsg' = nextMsg + 1
         /\ \A n \in Msgs : conv'[n] = IF n = nextMsg THEN Between(owner[d], to) ELSE conv[n]
         /\ \A x \in Devices, n \in Msgs :
              box'[x][n] = IF owner[x] = to /\ n = nextMsg THEN fan_out_row(x, owner[d])
                           ELSE box[x][n]
<1>1. nextMsg \in Msgs
  BY ConstantsAssumption DEF TypeOK, accept_message, Msgs
<1>2. owner[d] \in Users
  BY ConstantsAssumption DEF accept_message
<1>3. box \in [Devices -> [Msgs -> Row]] /\ conv \in [Msgs -> Conversation]
  BY DEF TypeOK
<1> QED
  BY <1>1, <1>2, <1>3 DEF accept_message, directory, Between

\* A sign-in cancels what the device's previous user had not confirmed.
LEMMA SignInChanges ==
  ASSUME TypeOK, NEW d \in Devices, NEW u \in Users, register_or_sign_in(d, u)
  PROVE  /\ UNCHANGED <<contacts, onNode, conv, nextMsg, delivered, packet, covered>>
         /\ d \in contacts /\ owner[d] # u /\ live' = live \cup {u}
         /\ \A x \in Devices : owner'[x] = IF x = d THEN u ELSE owner[x]
         /\ \A x \in Devices, n \in Msgs :
              box'[x][n] = IF x = d /\ owner[d] # None THEN cancel_for_relink(box[d][n])
                           ELSE box[x][n]
         /\ \A x \in Devices, v \in Users :
              sess'[x][v] = IF x = d /\ owner[d] # None /\ IsActive(d, v)
                            THEN [sess[d][v] EXCEPT !.state = "cancelled"] ELSE sess[x][v]
<1>1. /\ box \in [Devices -> [Msgs -> Row]] /\ sess \in [Devices -> [Users -> Session]]
      /\ owner \in [Devices -> Users \cup {None}]
  BY DEF TypeOK
<1>2. CASE owner[d] = None
  BY <1>1, <1>2 DEF register_or_sign_in
<1>3. CASE owner[d] # None
  <2>1. relink_device(d)
    BY <1>3 DEF register_or_sign_in
  <2>2. \A x \in Devices, n \in Msgs :
          box'[x][n] = IF x = d THEN cancel_for_relink(box[d][n]) ELSE box[x][n]
    BY <1>1, <2>1 DEF relink_device
  <2>3. \A x \in Devices, v \in Users :
          sess'[x][v] = IF x = d /\ IsActive(d, v)
                        THEN [sess[d][v] EXCEPT !.state = "cancelled"] ELSE sess[x][v]
    BY <1>1, <2>1 DEF relink_device, cancel_device_refresh_sessions_for_relink
  <2>4. \A x \in Devices : owner'[x] = IF x = d THEN u ELSE owner[x]
    BY <1>1 DEF register_or_sign_in
  <2> QED
    BY <1>3, <2>2, <2>3, <2>4 DEF register_or_sign_in
<1> QED
  BY <1>2, <1>3

Joined(S, T) == S \cup T

\* A status, or a round that begins, changes the row it is about.
LEMMA StatusChanges ==
  ASSUME TypeOK, NEW d \in Devices, NEW m \in Msgs, NEW reported \in SUBSET Parts,
         RecordIncompleteStatus(d, m, reported)
  PROVE  /\ UNCHANGED <<contacts, onNode, owner, live, conv, nextMsg, delivered, sess, packet>>
         /\ box[d][m].state \in UNCONFIRMED_DELIVERY_STATES
         /\ \A x \in Devices, n \in Msgs :
              /\ box'[x][n] = IF x = d /\ n = m THEN record_incomplete_delivery_status(box[d][m], reported)
                              ELSE box[x][n]
              /\ covered'[x][n] = IF x = d /\ n = m THEN Joined(covered[d][m], reported)
                                  ELSE covered[x][n]
<1>1. box \in [Devices -> [Msgs -> Row]] /\ covered \in [Devices -> [Msgs -> SUBSET Parts]]
  BY DEF TypeOK
<1> QED
  BY <1>1 DEF RecordIncompleteStatus, directory, Joined

LEMMA PrepareChanges ==
  ASSUME TypeOK, NEW d \in Devices, NEW m \in Msgs, prepare_delivery_packet(d, m)
  PROVE  LET r     == box[d][m]
             isNew == find_parts_left_in_round(r) = {}
             row   == IF isNew THEN advance_delivery_to_new_round(r) ELSE r
         IN  /\ UNCHANGED <<contacts, onNode, owner, live, conv, nextMsg, delivered, sess>>
             /\ r.state = "pending" /\ (r.started \/ HasFreePlace(d)) /\ packet.phase = "none"
             /\ \A x \in Devices, n \in Msgs :
                  /\ box'[x][n] = IF x = d /\ n = m THEN row ELSE box[x][n]
                  /\ covered'[x][n] = IF isNew /\ x = d /\ n = m THEN r.received ELSE covered[x][n]
             /\ packet' = NoPacket \/ /\ packet'.phase = "prepared" /\ packet'.attempt = row.attempt
                                      /\ find_parts_left_in_round(row) # {}
<1>1. box \in [Devices -> [Msgs -> Row]] /\ covered \in [Devices -> [Msgs -> SUBSET Parts]]
  BY DEF TypeOK
<1> QED
  BY <1>1 DEF prepare_delivery_packet, IsDueCandidate, directory

\* A delivery that gives up fails, and with a head everything queued behind it.
LEMMA GiveUpChanges ==
  ASSUME TypeOK, NEW d \in Devices, NEW m \in Msgs, GiveUpDelivery(d, m)
  PROVE  /\ UNCHANGED <<contacts, onNode, owner, live, conv, nextMsg, delivered, packet, covered>>
         /\ box[d][m].state = "pending" /\ packet.phase = "none"
         /\ \A x \in Devices, n \in Msgs :
              box'[x][n] = IF x = d /\ (n = m \/ (InActiveSession(d, m) /\ n \in QueuedInSession(d, conv[m].from)))
                           THEN fail_delivery_of_stopped_refresh(box[d][n]) ELSE box[x][n]
         /\ sess' = IF InActiveSession(d, m) THEN stop_refresh_session(d, conv[m].from) ELSE sess
<1>1. box \in [Devices -> [Msgs -> Row]]
  BY DEF TypeOK
<1> QED
  BY <1>1 DEF GiveUpDelivery, IsDueCandidate, fail_exhausted_delivery, directory,
              fail_delivery_after_exhausted_attempts, fail_delivery_of_stopped_refresh

\* The outcome of a packet changes only the row the packet is still about.
LEMMA RecordChanges ==
  ASSUME TypeOK, record_send_outcome
  PROVE  /\ UNCHANGED <<contacts, owner, live, conv, nextMsg, delivered, sess, covered>>
         /\ packet' = NoPacket
         /\ \A x \in Devices, n \in Msgs :
              \/ box'[x][n] = box[x][n]
              \/ /\ x = packet.dev /\ n = packet.msg /\ IsCurrentPacket /\ packet.phase = "taken"
                 /\ box'[x][n] = record_delivery_part_sent(box[x][n], packet.part)
<1>1. box \in [Devices -> [Msgs -> Row]] /\ packet \in Packet
  BY DEF TypeOK
<1>2. counts_as_sent(packet.phase) => packet.phase = "taken"
  BY DEF record_send_outcome, counts_as_sent, NodeAnswer
<1>3. IsCurrentPacket => packet.dev \in Devices /\ packet.msg \in Msgs
  BY <1>1 DEF IsCurrentPacket, Packet
<1> QED
  BY <1>1, <1>2, <1>3 DEF record_send_outcome, directory

LEMMA DeletionChanges ==
  ASSUME TypeOK, NEW devs \in SUBSET Devices, NEW msgs \in SUBSET Msgs, NEW peers \in SUBSET Users,
         DeleteRows(devs, msgs, peers)
  PROVE  /\ contacts' = contacts \ devs /\ delivered' = delivered \ msgs
         /\ \A x \in Devices : owner'[x] = IF x \in devs THEN None ELSE owner[x]
         /\ \A n \in Msgs : conv'[n] = IF n \in msgs THEN NoConv ELSE conv[n]
         /\ \A x \in Devices, n \in Msgs :
              IF x \in devs \/ n \in msgs THEN box'[x][n] = NoRow /\ covered'[x][n] = {}
              ELSE box'[x][n] = box[x][n] /\ covered'[x][n] = covered[x][n]
         /\ \A x \in Devices, u \in Users :
              sess'[x][u] = IF x \in devs \/ u \in peers THEN NoSession ELSE sess[x][u]
         /\ \/ packet' = packet /\ packet.dev \notin devs /\ packet.msg \notin msgs
            \/ /\ packet'.dev = None \/ packet'.msg = 0
               /\ UNCHANGED <<packet.phase, packet.attempt>>
<1>1. packet \in Packet
  BY DEF TypeOK
<1> QED
  BY <1>1 DEF DeleteRows, Packet

-----------------------------------------------------------------------------
(* delivered is final, and known.                                          *)

DeliveredIsKnown == \A d \in Devices, m \in Msgs : box[d][m].state = "delivered" => m \in delivered
KnownInv == OwnerInv /\ DeliveredIsKnown

\* The action of DeliveredIsFinalAndKnown.
FinalStep ==
  \A d \in Devices, m \in Msgs :
    /\ box[d][m].state = "delivered" => box'[d][m] \in {box[d][m], NoRow}
    /\ box'[d][m].state = "delivered" => m \in delivered'

\* A step that keeps or removes delivered rows, and makes rows delivered only
\* together with their message.
LEMMA FinalRows ==
  ASSUME DeliveredIsKnown,
         \A x \in Devices, n \in Msgs :
           \/ box'[x][n] = box[x][n] /\ (n \in delivered => n \in delivered')
           \/ box'[x][n] = NoRow
           \/ box[x][n].state # "delivered" /\ (box'[x][n].state = "delivered" => n \in delivered')
  PROVE  FinalStep /\ DeliveredIsKnown'
<1>1. NoRow.state = "none"
  BY DEF NoRow
<1> QED
  BY <1>1 DEF FinalStep, DeliveredIsKnown

LEMMA FinalRefresh ==
  ASSUME KnownInv, NEW d \in Devices, NEW peers \in SUBSET Users, start_refresh(d, peers)
  PROVE  FinalStep /\ DeliveredIsKnown'
<1>1. box \in [Devices -> [Msgs -> Row]] /\ TypeOK
  BY DEF KnownInv, OwnerInv, TypeOK
<1>2. ASSUME NEW n \in Msgs
      PROVE  \/ refreshed_row(d, n) = box[d][n]
             \/ box[d][n].state # "delivered" /\ refreshed_row(d, n).state # "delivered"
  <2>1. restart_refresh_session_head(box[d][n]).state = box[d][n].state
    BY <1>1, RowStates
  <2>2. n \in RefreshScope(d, conv[n].from) => box[d][n].state # "delivered"
    BY DEF RefreshScope, select_deliveries_a_refresh_takes_over, select_messages_no_device_received
  <2> QED
    BY <1>1, <2>1, <2>2, RefreshedRow
<1>3. /\ UNCHANGED delivered
      /\ \A x \in Devices, n \in Msgs :
           box'[x][n] = IF x = d /\ conv[n].from \in peers THEN refreshed_row(d, n) ELSE box[x][n]
  BY <1>1, RefreshChanges
<1> QED
  BY <1>2, <1>3, FinalRows DEF KnownInv

LEMMA FinalConfirm ==
  ASSUME KnownInv, NEW d \in Devices, NEW m \in Msgs, RecordCompleteStatus(d, m) \/ record_read(d, m)
  PROVE  FinalStep /\ DeliveredIsKnown'
<1>1. box \in [Devices -> [Msgs -> Row]] /\ TypeOK
  BY DEF KnownInv, OwnerInv, TypeOK
<1>2. box[d][m].received \in SUBSET Parts
  BY <1>1 DEF Row
<1>3. delivered' = delivered \cup {m}
  BY DEF RecordCompleteStatus, record_read, record_message_confirmation
<1>4. \/ UNCHANGED box
      \/ /\ box[d][m].state \in UNCONFIRMED_DELIVERY_STATES
         /\ \E reported \in SUBSET Parts : deliver(d, m, reported)
  BY <1>2 DEF RecordCompleteStatus, record_read
<1>5. \A r \in Row : arm_refresh_session_head(r).state = "pending"
  BY DEF arm_refresh_session_head, Row
<1>6. \A x \in Devices, n \in Msgs :
        \/ box'[x][n] = box[x][n]
        \/ n = m /\ box[x][n].state # "delivered"
        \/ box[x][n].state = "queued_for_refresh" /\ box'[x][n].state = "pending"
  BY <1>1, <1>4, <1>5, DeliverChanges DEF UNCONFIRMED_DELIVERY_STATES
<1> QED
  BY <1>3, <1>6, FinalRows DEF KnownInv

\* Requests and the sender otherwise leave delivered rows alone.
LEMMA FinalElse ==
  ASSUME KnownInv, NEW d \in Devices, NEW m \in Msgs, NEW reported \in SUBSET Parts,
         \/ RecordIncompleteStatus(d, m, reported) \/ prepare_delivery_packet(d, m)
         \/ GiveUpDelivery(d, m) \/ record_send_outcome
  PROVE  FinalStep /\ DeliveredIsKnown'
<1>1. box \in [Devices -> [Msgs -> Row]] /\ TypeOK
  BY DEF KnownInv, OwnerInv, TypeOK
<1>2. CASE RecordIncompleteStatus(d, m, reported)
  <2>1. record_incomplete_delivery_status(box[d][m], reported).state = box[d][m].state
    BY <1>1, RowReportStates
  <2>2. /\ box[d][m].state # "delivered" /\ UNCHANGED delivered
        /\ \A x \in Devices, n \in Msgs :
             \/ box'[x][n] = box[x][n]
             \/ x = d /\ n = m /\ box'[x][n] = record_incomplete_delivery_status(box[d][m], reported)
    BY <1>1, <1>2, StatusChanges DEF UNCONFIRMED_DELIVERY_STATES
  <2> QED
    BY <2>1, <2>2, FinalRows DEF KnownInv
<1>3. CASE prepare_delivery_packet(d, m)
  <2>1. advance_delivery_to_new_round(box[d][m]).state = box[d][m].state
    BY <1>1, RowStates
  <2>2. /\ box[d][m].state = "pending" /\ UNCHANGED delivered
        /\ \A x \in Devices, n \in Msgs :
             \/ box'[x][n] = box[x][n]
             \/ x = d /\ n = m /\ box'[x][n] = advance_delivery_to_new_round(box[d][m])
    BY <1>1, <1>3, PrepareChanges
  <2> QED
    BY <2>1, <2>2, FinalRows DEF KnownInv
<1>4. CASE GiveUpDelivery(d, m)
  <2>1. \A n \in Msgs : fail_delivery_of_stopped_refresh(box[d][n]).state = "failed"
    BY <1>1 DEF Row, fail_delivery_of_stopped_refresh
  <2>2. \A n \in QueuedInSession(d, conv[m].from) : box[d][n].state = "queued_for_refresh"
    BY DEF QueuedInSession
  <2>3. /\ box[d][m].state = "pending" /\ UNCHANGED delivered
        /\ \A x \in Devices, n \in Msgs :
             \/ box'[x][n] = box[x][n]
             \/ /\ x = d /\ (n = m \/ n \in QueuedInSession(d, conv[m].from))
                /\ box'[x][n] = fail_delivery_of_stopped_refresh(box[d][n])
    BY <1>1, <1>4, GiveUpChanges
  <2> QED
    BY <2>1, <2>2, <2>3, FinalRows DEF KnownInv
<1>5. CASE record_send_outcome
  <2>1. UNCHANGED delivered /\ \A x \in Devices, n \in Msgs :
          \/ box'[x][n] = box[x][n]
          \/ /\ x = packet.dev /\ n = packet.msg /\ IsCurrentPacket
             /\ box'[x][n] = record_delivery_part_sent(box[x][n], packet.part)
    BY <1>1, <1>5, RecordChanges
  <2>2. \A x \in Devices, n \in Msgs :
          record_delivery_part_sent(box[x][n], packet.part).state = box[x][n].state
    BY <1>1, RowPartStates
  <2>3. IsCurrentPacket => box[packet.dev][packet.msg].state = "pending"
    BY DEF IsCurrentPacket
  <2> QED
    BY <2>1, <2>2, <2>3, FinalRows DEF KnownInv
<1> QED
  BY <1>2, <1>3, <1>4, <1>5

LEMMA FinalAccept ==
  ASSUME KnownInv, NEW d \in Devices, NEW to \in Users, accept_message(d, to)
  PROVE  FinalStep /\ DeliveredIsKnown'
<1>1. TypeOK /\ \A x \in Devices : nextMsg \in Msgs => box[x][nextMsg].state = "none"
  BY DEF KnownInv, OwnerInv, RowsHaveAMessage, Msgs
<1>2. \A x \in Devices : fan_out_row(x, owner[d]).state # "delivered"
  BY DEF fan_out_row, create_refresh_owned_delivery, create_pending_delivery, NoRow
<1>3. /\ nextMsg \in Msgs /\ UNCHANGED delivered
      /\ \A x \in Devices, n \in Msgs :
           box'[x][n] = box[x][n] \/ (n = nextMsg /\ box'[x][n] = fan_out_row(x, owner[d]))
  BY <1>1, AcceptChanges
<1> QED
  BY <1>1, <1>2, <1>3, FinalRows DEF KnownInv

LEMMA FinalSignIn ==
  ASSUME KnownInv, NEW d \in Devices, NEW u \in Users, register_or_sign_in(d, u)
  PROVE  FinalStep /\ DeliveredIsKnown'
<1>1. TypeOK /\ box \in [Devices -> [Msgs -> Row]]
  BY DEF KnownInv, OwnerInv, TypeOK
<1>2. \A r \in Row : \/ cancel_for_relink(r) = r
                     \/ r.state # "delivered" /\ cancel_for_relink(r).state = "cancelled"
  BY DEF cancel_for_relink, UNCONFIRMED_DELIVERY_STATES, Row
<1>3. \A x \in Devices, n \in Msgs : \/ box'[x][n] = box[x][n]
                                     \/ box[x][n].state # "delivered" /\ box'[x][n].state = "cancelled"
  BY <1>1, <1>2, SignInChanges
<1>4. UNCHANGED delivered
  BY <1>1, SignInChanges
<1> QED
  BY <1>3, <1>4, FinalRows DEF KnownInv

LEMMA FinalDeletion ==
  ASSUME KnownInv, NEW devs \in SUBSET Devices, NEW msgs \in SUBSET Msgs, NEW peers \in SUBSET Users,
         DeleteRows(devs, msgs, peers)
  PROVE  FinalStep /\ DeliveredIsKnown'
<1>1. TypeOK
  BY DEF KnownInv, OwnerInv
<1>2. \A x \in Devices, n \in Msgs : \/ box'[x][n] = box[x][n] /\ (n \in delivered => n \in delivered')
                                     \/ box'[x][n] = NoRow
  BY <1>1, DeletionChanges
<1> QED
  BY <1>2, FinalRows DEF KnownInv

LEMMA KnownInvInit == Init => KnownInv
<1> SUFFICES ASSUME Init PROVE DeliveredIsKnown
  BY OwnerInvInit DEF KnownInv
<1> QED
  BY DEF Init, NoRow, DeliveredIsKnown

LEMMA KnownInvStep == KnownInv /\ [Next]_vars => KnownInv' /\ FinalStep
<1> SUFFICES ASSUME KnownInv, [Next]_vars PROVE FinalStep /\ DeliveredIsKnown'
  BY OwnerInvStep DEF KnownInv
<1> DEFINE Goal == FinalStep /\ DeliveredIsKnown'
<1>1. ASSUME UNCHANGED <<box, delivered>> PROVE Goal
  BY <1>1, FinalRows DEF KnownInv
<1>2. ASSUME NEW d \in Devices, NEW u \in Users, RefreshPeer(d, u) PROVE Goal
  BY <1>2, FinalRefresh DEF RefreshPeer
<1>3. ASSUME NEW d \in Devices, RefreshAll(d) PROVE Goal
  <2>1. find_peer_ids_with_missed_messages(d) \in SUBSET Users
    BY DEF KnownInv, OwnerInv, TypeOK, find_peer_ids_with_missed_messages
  <2> QED
    BY <1>3, <2>1, FinalRefresh DEF RefreshAll
<1>4. ASSUME NEW u \in Users, delete_user(u) PROVE Goal
  BY <1>4, FinalDeletion DEF delete_user
<1>5. ASSUME NEW d \in Devices, delete_contact(d) PROVE Goal
  BY <1>5, FinalDeletion DEF delete_contact
<1>6. ASSUME NEW d \in Devices,
             add_contact(d) \/ mark_contact_on_node(d) \/ return_contact_to_pending_add(d)
      PROVE  Goal
  BY <1>1, <1>6 DEF add_contact, mark_contact_on_node, return_contact_to_pending_add
<1>7. ASSUME NEW answer \in NodeAnswer, SendToNode(answer) PROVE Goal
  BY <1>1, <1>7 DEF SendToNode
<1>8. CASE recover_outbound_packets_at_startup
  BY <1>1, <1>8 DEF recover_outbound_packets_at_startup
<1>9. CASE UNCHANGED vars
  BY <1>1, <1>9 DEF vars
<1>10. ASSUME NEW d \in Devices, NEW m \in Msgs, prepare_delivery_packet(d, m) \/ GiveUpDelivery(d, m)
       PROVE  Goal
  BY <1>10, FinalElse, {} \in SUBSET Parts
<1>11. CASE record_send_outcome
  <2>1. CASE \E d \in Devices, m \in Msgs : TRUE
    BY <1>11, <2>1, FinalElse, {} \in SUBSET Parts
  <2>2. CASE ~\E d \in Devices, m \in Msgs : TRUE
    BY <2>2 DEF FinalStep, DeliveredIsKnown
  <2> QED
    BY <2>1, <2>2
<1>12. CASE Next
  BY <1>2, <1>3, <1>4, <1>5, <1>6, <1>7, <1>8, <1>10, <1>11, <1>12, FinalConfirm, FinalElse,
     FinalAccept, FinalSignIn
  DEF Next
<1> QED
  BY <1>9, <1>12

\* A delivered row stays as it is until its contact or message is deleted, whatever
\* late statuses, refreshes, relinks and packet outcomes arrive; and whenever some
\* device has a message, the message counts as delivered.
THEOREM DeliveredStaysFinal == Spec => DeliveredIsFinalAndKnown
<1>1. KnownInv /\ [Next]_vars => [FinalStep]_vars
  BY KnownInvStep
<1> QED
  BY <1>1, KnownInvInit, KnownInvStep, PTL DEF Spec, DeliveredIsFinalAndKnown, FinalStep

-----------------------------------------------------------------------------
(* A round counts as finished only when every part of it was sent.         *)

\* What RoundInv says of a row of which the parts c were taken or reported.
RowRound(r, c) ==
  r.state = "pending" =>
    /\ r.attempt > 0 => Parts \subseteq c \cup r.pending
    /\ r.pending # {} => r.attempt > 0
    /\ r.pending \cap r.received = {}

RoundsInv == TypeOK /\ RoundInv

\* How the row a packet is about may change while the packet is in hand: a row
\* of which nothing has been sent yet in its arm is of no packet.
KeepsItsRound(x, n) ==
  \/ box'[x][n].state # "pending"
  \/ box'[x][n].attempt = 0
  \/ /\ box[x][n].state = "pending"
     /\ box'[x][n].arm = box[x][n].arm /\ box'[x][n].attempt = box[x][n].attempt
     /\ covered[x][n] \subseteq covered'[x][n]

\* The parts of RoundInv after a step that leaves the packet in hand as it is,
\* but for references that a deletion removes.
LEMMA RoundsKept ==
  ASSUME RoundsInv, packet' \in Packet,
         packet'.dev \in {packet.dev, None}, packet'.msg \in {packet.msg, 0},
         UNCHANGED <<packet.phase, packet.part, packet.arm, packet.attempt>>,
         \A x \in Devices, n \in Msgs : RowRound(box'[x][n], covered'[x][n]),
         \A x \in Devices, n \in Msgs : x = packet'.dev /\ n = packet'.msg => KeepsItsRound(x, n)
  PROVE  RoundInv'
<1>1. packet.phase # "none" => packet.attempt > 0
  BY DEF RoundsInv, RoundInv
<1>2. packet \in Packet /\ None \notin Devices /\ Msgs \subseteq Nat \ {0}
  BY ConstantsAssumption DEF RoundsInv, TypeOK, Msgs
<1>3. ASSUME packet'.phase = "taken", IsCurrentPacket'
      PROVE  packet'.part \in covered'[packet'.dev][packet'.msg]
  <2>1. packet'.dev = packet.dev /\ packet'.msg = packet.msg
        /\ packet.dev \in Devices /\ packet.msg \in Msgs
    BY <1>2, <1>3 DEF IsCurrentPacket, Packet
  <2> DEFINE x == packet.dev
             n == packet.msg
  <2>2. /\ box'[x][n].state = "pending" /\ box'[x][n].arm = packet.arm
        /\ box'[x][n].attempt = packet.attempt /\ packet.attempt > 0 /\ packet.attempt \in Nat
    BY <1>1, <1>2, <1>3, <2>1 DEF IsCurrentPacket, Packet
  <2>3. KeepsItsRound(x, n)
    BY <2>1
  <2>4. /\ box[x][n].state = "pending" /\ box[x][n].arm = packet.arm
        /\ box[x][n].attempt = packet.attempt /\ covered[x][n] \subseteq covered'[x][n]
    BY <2>2, <2>3 DEF KeepsItsRound
  <2>5. packet.phase = "taken" /\ IsCurrentPacket
    BY <1>2, <1>3, <2>1, <2>4 DEF IsCurrentPacket
  <2>6. packet.part \in covered[x][n]
    BY <2>5 DEF RoundsInv, RoundInv
  <2> QED
    BY <2>1, <2>4, <2>6
<1>4. \A x \in Devices, n \in Msgs : box'[x][n].state = "pending" =>
        /\ box'[x][n].attempt > 0 => Parts \subseteq covered'[x][n] \cup box'[x][n].pending
        /\ box'[x][n].pending # {} => box'[x][n].attempt > 0
        /\ box'[x][n].pending \cap box'[x][n].received = {}
  BY DEF RowRound
<1> QED
  BY <1>1, <1>3, <1>4 DEF RoundInv

\* Before the step the rows are as RoundInv says.
LEMMA RoundRows ==
  ASSUME RoundsInv
  PROVE  \A x \in Devices, n \in Msgs :
           RowRound(box[x][n], covered[x][n]) /\ box[x][n] \in Row /\ covered[x][n] \in SUBSET Parts
  BY DEF RoundsInv, RoundInv, RowRound, TypeOK

\* Arming a row, at the head of a refresh or again, begins before its first round.
LEMMA RoundsArm ==
  ASSUME NEW r \in Row, NEW c
  PROVE  /\ RowRound(arm_refresh_session_head(r), c) /\ arm_refresh_session_head(r).attempt = 0
         /\ RowRound(r, c) => RowRound(restart_refresh_session_head(r), c)
         /\ restart_refresh_session_head(r).attempt = 0
<1>1. /\ arm_refresh_session_head(r).attempt = 0 /\ arm_refresh_session_head(r).pending = {}
      /\ arm_refresh_session_head(r).received = r.received
  BY DEF Row, arm_refresh_session_head
<1>2. CASE r.attempt = 0
  <2>1. LET t == restart_refresh_session_head(r)
        IN  t.attempt = 0 /\ t.state = r.state /\ t.pending = r.pending /\ t.received = r.received
    BY <1>2 DEF Row, restart_refresh_session_head
  <2> QED
    BY <1>1, <1>2, <2>1 DEF RowRound
<1>3. CASE r.attempt # 0
  <2>1. LET t == restart_refresh_session_head(r)
        IN  t.attempt = 0 /\ t.pending = {} /\ t.received = r.received
    BY <1>3 DEF Row, restart_refresh_session_head
  <2> QED
    BY <1>1, <2>1 DEF RowRound
<1> QED
  BY <1>2, <1>3

\* A status takes what it reports out of the round and counts it as covered.
LEMMA RoundsReport ==
  ASSUME NEW r \in Row, NEW c \in SUBSET Parts, NEW reported \in SUBSET Parts, RowRound(r, c)
  PROVE  LET t == record_incomplete_delivery_status(r, reported)
         IN  RowRound(t, Joined(c, reported)) /\ t.attempt = r.attempt /\ t.arm = r.arm
<1> DEFINE t == record_incomplete_delivery_status(r, reported)
<1>1. /\ t.state = r.state /\ t.attempt = r.attempt /\ t.arm = r.arm /\ t.received = reported
      /\ r.state = "pending" => t.pending = r.pending \ reported
  BY DEF Row, record_incomplete_delivery_status, complete_delivery_round
<1> HIDE DEF t
<1> QED
  BY <1>1 DEF RowRound, Joined, t

\* A part that was sent leaves the round.
LEMMA RoundsPartSent ==
  ASSUME NEW r \in Row, NEW c \in SUBSET Parts, NEW part \in c, RowRound(r, c)
  PROVE  RowRound(record_delivery_part_sent(r, part), c)
<1> DEFINE t == record_delivery_part_sent(r, part)
<1>1. /\ t.state = r.state /\ t.attempt = r.attempt /\ t.received = r.received
      /\ t.pending = r.pending \ {part}
  BY DEF Row, record_delivery_part_sent, complete_delivery_round
<1> HIDE DEF t
<1> QED
  BY <1>1 DEF RowRound, t

\* A round begins with every part the device has not reported.
LEMMA RoundsBegin ==
  ASSUME NEW r \in Row, NEW c, RowRound(r, c), r.state = "pending"
  PROVE  /\ find_parts_left_in_round(r) # {} => r.attempt > 0
         /\ find_parts_left_in_round(r) = {} =>
              /\ RowRound(advance_delivery_to_new_round(r), r.received)
              /\ advance_delivery_to_new_round(r).attempt > 0
<1>1. /\ r.attempt \in Nat /\ r.pending \cap r.received = {} /\ (r.pending # {} => r.attempt > 0)
  BY DEF Row, RowRound
<1>2. ASSUME find_parts_left_in_round(r) = {}
      PROVE  /\ RowRound(advance_delivery_to_new_round(r), r.received)
             /\ advance_delivery_to_new_round(r).attempt > 0
  <2> DEFINE t == advance_delivery_to_new_round(r)
  <2>1. r.pending = {}
    BY <1>1, <1>2 DEF find_parts_left_in_round
  <2>2. t.attempt = r.attempt + 1 /\ t.pending = Parts \ r.received /\ t.received = r.received
    BY <2>1 DEF Row, advance_delivery_to_new_round, start_delivery_round
  <2> HIDE DEF t
  <2> QED
    BY <1>1, <2>2 DEF RowRound, t
<1> QED
  BY <1>1, <1>2 DEF find_parts_left_in_round

LEMMA RoundsRefresh ==
  ASSUME RoundsInv, NEW d \in Devices, NEW peers \in SUBSET Users,
         start_refresh(d, peers)
  PROVE  RoundInv'
<1>1. TypeOK /\ box \in [Devices -> [Msgs -> Row]]
  BY DEF RoundsInv, TypeOK
<1>2. ASSUME NEW n \in Msgs
      PROVE  /\ RowRound(refreshed_row(d, n), covered[d][n])
             /\ \/ refreshed_row(d, n) = box[d][n]
                \/ refreshed_row(d, n).state # "pending"
                \/ refreshed_row(d, n).attempt = 0
  <2> DEFINE r == box[d][n]
  <2>1. r \in Row /\ RowRound(r, covered[d][n])
    BY RoundRows
  <2>2. \/ refreshed_row(d, n) = r
        \/ refreshed_row(d, n) = restart_refresh_session_head(r)
        \/ refreshed_row(d, n).state # "pending"
        \/ refreshed_row(d, n).attempt = 0 /\ refreshed_row(d, n).pending = {}
    BY <1>1, RefreshedRow
  <2>3. refreshed_row(d, n).state # "pending" => RowRound(refreshed_row(d, n), covered[d][n])
    BY DEF RowRound
  <2>4. refreshed_row(d, n).attempt = 0 /\ refreshed_row(d, n).pending = {}
          => RowRound(refreshed_row(d, n), covered[d][n])
    BY DEF RowRound
  <2> HIDE DEF r
  <2>5. RowRound(restart_refresh_session_head(r), covered[d][n])
        /\ restart_refresh_session_head(r).attempt = 0
    BY <2>1, RoundsArm
  <2> QED
    BY <2>1, <2>2, <2>3, <2>4, <2>5 DEF r
<1>3. /\ UNCHANGED <<packet, covered>>
      /\ \A x \in Devices, n \in Msgs :
           box'[x][n] = IF x = d /\ conv[n].from \in peers THEN refreshed_row(d, n) ELSE box[x][n]
  BY <1>1, RefreshChanges
<1>4. packet \in Packet
  BY <1>1 DEF TypeOK
<1>5. \A x \in Devices, n \in Msgs : RowRound(box'[x][n], covered'[x][n]) /\ KeepsItsRound(x, n)
  <2> SUFFICES ASSUME NEW x \in Devices, NEW n \in Msgs
               PROVE  RowRound(box'[x][n], covered'[x][n]) /\ KeepsItsRound(x, n)
    OBVIOUS
  <2>1. covered'[x][n] = covered[x][n] /\ RowRound(box[x][n], covered[x][n])
    BY <1>3, RoundRows
  <2>2. CASE x = d /\ conv[n].from \in peers
    <3>1. box'[x][n] = refreshed_row(d, n)
      BY <1>3, <2>2
    <3> QED
      BY <1>2, <2>1, <2>2, <3>1 DEF KeepsItsRound
  <2>3. CASE ~(x = d /\ conv[n].from \in peers)
    <3>1. box'[x][n] = box[x][n]
      BY <1>3, <2>3
    <3> QED
      BY <2>1, <3>1 DEF KeepsItsRound
  <2> QED
    BY <2>2, <2>3
<1> QED
  BY <1>3, <1>4, <1>5, RoundsKept

\* A confirmation ends the round of its row, and arms at most the next head.
LEMMA RoundsConfirm ==
  ASSUME RoundsInv, NEW d \in Devices, NEW m \in Msgs, RecordCompleteStatus(d, m) \/ record_read(d, m)
  PROVE  RoundInv'
<1>1. TypeOK /\ box \in [Devices -> [Msgs -> Row]] /\ packet \in Packet
  BY DEF RoundsInv, TypeOK
<1>2. box[d][m].received \in SUBSET Parts /\ Parts \in SUBSET Parts
  BY <1>1 DEF Row
<1>3. UNCHANGED <<packet, covered>>
  BY DEF RecordCompleteStatus, record_read
<1>4. UNCHANGED box \/ \E reported \in SUBSET Parts : deliver(d, m, reported)
  BY <1>2 DEF RecordCompleteStatus, record_read
<1>5. ASSUME NEW r \in Row, NEW reported PROVE mark_delivery_delivered(r, reported).state = "delivered"
  BY DEF Row, mark_delivery_delivered
<1>6. \A x \in Devices, n \in Msgs :
        \/ box'[x][n] = box[x][n]
        \/ box'[x][n].state = "delivered"
        \/ box'[x][n] = arm_refresh_session_head(box[x][n])
  BY <1>1, <1>4, <1>5, DeliverChanges
<1>7. \A x \in Devices, n \in Msgs : RowRound(box'[x][n], covered'[x][n]) /\ KeepsItsRound(x, n)
  <2> SUFFICES ASSUME NEW x \in Devices, NEW n \in Msgs
               PROVE  RowRound(box'[x][n], covered'[x][n]) /\ KeepsItsRound(x, n)
    OBVIOUS
  <2>1. box[x][n] \in Row /\ covered'[x][n] = covered[x][n] /\ RowRound(box[x][n], covered[x][n])
    BY <1>3, RoundRows
  <2>2. CASE box'[x][n] = box[x][n]
    BY <2>1, <2>2 DEF KeepsItsRound
  <2>3. CASE box'[x][n].state = "delivered"
    BY <2>3 DEF KeepsItsRound, RowRound
  <2>4. CASE box'[x][n] = arm_refresh_session_head(box[x][n])
    BY <2>1, <2>4, RoundsArm DEF KeepsItsRound
  <2> QED
    BY <1>6, <2>2, <2>3, <2>4
<1> QED
  BY <1>1, <1>3, <1>7, RoundsKept

LEMMA RoundsStatus ==
  ASSUME RoundsInv, NEW d \in Devices, NEW m \in Msgs, NEW reported \in SUBSET Parts,
         RecordIncompleteStatus(d, m, reported)
  PROVE  RoundInv'
<1>1. TypeOK /\ packet \in Packet
  BY DEF RoundsInv, TypeOK
<1>2. /\ UNCHANGED packet
      /\ \A x \in Devices, n \in Msgs :
           /\ box'[x][n] = IF x = d /\ n = m THEN record_incomplete_delivery_status(box[d][m], reported)
                           ELSE box[x][n]
           /\ covered'[x][n] = IF x = d /\ n = m THEN Joined(covered[d][m], reported)
                               ELSE covered[x][n]
  BY <1>1, StatusChanges
<1>3. \A x \in Devices, n \in Msgs : RowRound(box'[x][n], covered'[x][n]) /\ KeepsItsRound(x, n)
  <2> SUFFICES ASSUME NEW x \in Devices, NEW n \in Msgs
               PROVE  RowRound(box'[x][n], covered'[x][n]) /\ KeepsItsRound(x, n)
    OBVIOUS
  <2>1. box[x][n] \in Row /\ covered[x][n] \in SUBSET Parts /\ RowRound(box[x][n], covered[x][n])
    BY RoundRows
  <2>2. CASE x = d /\ n = m
    <3>1. box'[x][n] = record_incomplete_delivery_status(box[x][n], reported)
          /\ covered'[x][n] = Joined(covered[x][n], reported)
      BY <1>2, <2>2
    <3>2. LET t == record_incomplete_delivery_status(box[x][n], reported)
          IN  /\ RowRound(t, Joined(covered[x][n], reported))
              /\ t.attempt = box[x][n].attempt /\ t.arm = box[x][n].arm /\ t.state = box[x][n].state
      BY <2>1, RoundsReport, RowReportStates
    <3> QED
      BY <3>1, <3>2 DEF KeepsItsRound, Joined
  <2>3. CASE ~(x = d /\ n = m)
    <3>1. box'[x][n] = box[x][n] /\ covered'[x][n] = covered[x][n]
      BY <1>2, <2>3
    <3> QED
      BY <2>1, <3>1 DEF KeepsItsRound
  <2> QED
    BY <2>2, <2>3
<1> QED
  BY <1>1, <1>2, <1>3, RoundsKept

\* A new round begins with no part covered but those reported; nothing is in hand then.
LEMMA RoundsPrepare ==
  ASSUME RoundsInv, NEW d \in Devices, NEW m \in Msgs, prepare_delivery_packet(d, m)
  PROVE  RoundInv'
<1> DEFINE r     == box[d][m]
           isNew == find_parts_left_in_round(r) = {}
           row   == IF isNew THEN advance_delivery_to_new_round(r) ELSE r
<1>1. TypeOK /\ r \in Row /\ RowRound(r, covered[d][m])
  BY RoundRows DEF RoundsInv
<1>2. /\ r.state = "pending"
      /\ \A x \in Devices, n \in Msgs :
           /\ box'[x][n] = IF x = d /\ n = m THEN row ELSE box[x][n]
           /\ covered'[x][n] = IF isNew /\ x = d /\ n = m THEN r.received ELSE covered[x][n]
      /\ packet' = NoPacket \/ /\ packet'.phase = "prepared" /\ packet'.attempt = row.attempt
                               /\ find_parts_left_in_round(row) # {}
  BY <1>1, PrepareChanges
<1> HIDE DEF r
<1>3. /\ RowRound(row, IF isNew THEN r.received ELSE covered[d][m])
      /\ find_parts_left_in_round(row) # {} => row.attempt > 0
  <2>1. CASE isNew
    BY <1>1, <1>2, <2>1, RoundsBegin
  <2>2. CASE ~isNew
    BY <1>1, <1>2, <2>2, RoundsBegin
  <2> QED
    BY <2>1, <2>2
<1> HIDE DEF row
<1>4. \A x \in Devices, n \in Msgs : RowRound(box'[x][n], covered'[x][n])
  <2> SUFFICES ASSUME NEW x \in Devices, NEW n \in Msgs PROVE RowRound(box'[x][n], covered'[x][n])
    OBVIOUS
  <2>1. CASE x = d /\ n = m
    <3>1. box'[x][n] = row /\ covered'[x][n] = IF isNew THEN r.received ELSE covered[d][m]
      BY <1>2, <2>1
    <3> QED
      BY <1>3, <3>1
  <2>2. CASE ~(x = d /\ n = m)
    BY <1>2, <2>2, RoundRows
  <2> QED
    BY <2>1, <2>2
<1>5. packet'.phase \in {"none", "prepared"} /\ (packet'.phase # "none" => packet'.attempt > 0)
  BY <1>2, <1>3 DEF NoPacket
<1> QED
  BY <1>4, <1>5 DEF RoundInv, RowRound

LEMMA RoundsGiveUp ==
  ASSUME RoundsInv, NEW d \in Devices, NEW m \in Msgs, GiveUpDelivery(d, m)
  PROVE  RoundInv'
<1>1. TypeOK
  BY DEF RoundsInv
<1>2. /\ UNCHANGED <<packet, covered>> /\ packet.phase = "none"
      /\ \A x \in Devices, n \in Msgs :
           \/ box'[x][n] = box[x][n]
           \/ box'[x][n] = fail_delivery_of_stopped_refresh(box[x][n])
  BY <1>1, GiveUpChanges
<1>3. \A x \in Devices, n \in Msgs : RowRound(box'[x][n], covered'[x][n])
  <2> SUFFICES ASSUME NEW x \in Devices, NEW n \in Msgs PROVE RowRound(box'[x][n], covered'[x][n])
    OBVIOUS
  <2>1. RowRound(box[x][n], covered[x][n]) /\ covered'[x][n] = covered[x][n]
    BY <1>2, RoundRows
  <2>2. fail_delivery_of_stopped_refresh(box[x][n]).state # "pending"
    BY RoundRows DEF Row, fail_delivery_of_stopped_refresh
  <2> QED
    BY <1>2, <2>1, <2>2 DEF RowRound
<1> QED
  BY <1>2, <1>3 DEF RoundInv, RowRound

\* What the node took is covered when its outcome is recorded.
LEMMA RoundsRecord ==
  ASSUME RoundsInv, record_send_outcome PROVE RoundInv'
<1>1. TypeOK
  BY DEF RoundsInv
<1>2. /\ UNCHANGED covered /\ packet' = NoPacket
      /\ \A x \in Devices, n \in Msgs :
           \/ box'[x][n] = box[x][n]
           \/ /\ x = packet.dev /\ n = packet.msg /\ IsCurrentPacket /\ packet.phase = "taken"
              /\ box'[x][n] = record_delivery_part_sent(box[x][n], packet.part)
  BY <1>1, RecordChanges
<1>3. \A x \in Devices, n \in Msgs : RowRound(box'[x][n], covered'[x][n])
  <2> SUFFICES ASSUME NEW x \in Devices, NEW n \in Msgs PROVE RowRound(box'[x][n], covered'[x][n])
    OBVIOUS
  <2>1. /\ RowRound(box[x][n], covered[x][n]) /\ covered'[x][n] = covered[x][n]
        /\ box[x][n] \in Row /\ covered[x][n] \in SUBSET Parts
    BY <1>2, RoundRows
  <2>2. CASE packet.phase = "taken" /\ IsCurrentPacket /\ x = packet.dev /\ n = packet.msg
    <3>1. packet.part \in covered[x][n]
      BY <2>2 DEF RoundsInv, RoundInv
    <3> QED
      BY <1>2, <2>1, <3>1, RoundsPartSent
  <2> QED
    BY <1>2, <2>1, <2>2
<1> QED
  BY <1>2, <1>3 DEF RoundInv, RowRound, NoPacket

\* What the node takes is covered.
LEMMA RoundsSend ==
  ASSUME RoundsInv, NEW answer \in NodeAnswer, SendToNode(answer) PROVE RoundInv'
<1>1. /\ covered \in [Devices -> [Msgs -> SUBSET Parts]] /\ packet \in Packet
      /\ packet.phase = "prepared" /\ packet.part \in Parts
  BY DEF RoundsInv, TypeOK, SendToNode
<1>2. UNCHANGED <<box, packet.dev, packet.msg, packet.part, packet.arm, packet.attempt>>
      /\ packet'.phase = answer
  BY <1>1 DEF SendToNode, Packet
<1>3. IsCurrentPacket => packet.dev \in Devices /\ packet.msg \in Msgs
  BY <1>1 DEF IsCurrentPacket, Packet
<1>4. /\ \A x \in Devices, n \in Msgs : covered[x][n] \subseteq covered'[x][n]
      /\ answer = "taken" /\ IsCurrentPacket => packet.part \in covered'[packet.dev][packet.msg]
  BY <1>1, <1>3 DEF SendToNode
<1>5. \A x \in Devices, n \in Msgs : RowRound(box'[x][n], covered'[x][n])
  BY <1>2, <1>4, RoundRows DEF RowRound
<1>6. IsCurrentPacket' <=> IsCurrentPacket
  BY <1>2 DEF IsCurrentPacket
<1>7. packet.attempt > 0
  BY <1>1 DEF RoundsInv, RoundInv
<1> QED
  BY <1>2, <1>4, <1>5, <1>6, <1>7 DEF RoundInv, RowRound

LEMMA RoundsAccept ==
  ASSUME RoundsInv, NEW d \in Devices, NEW to \in Users, accept_message(d, to)
  PROVE  RoundInv'
<1>1. TypeOK /\ packet \in Packet
  BY DEF RoundsInv, TypeOK
<1>2. \A x \in Devices : \A c : /\ fan_out_row(x, owner[d]).attempt = 0
                                 /\ RowRound(fan_out_row(x, owner[d]), c)
  BY DEF fan_out_row, create_refresh_owned_delivery, create_pending_delivery, NoRow, RowRound
<1>3. /\ UNCHANGED <<packet, covered>>
      /\ \A x \in Devices, n \in Msgs :
           box'[x][n] = box[x][n] \/ box'[x][n] = fan_out_row(x, owner[d])
  BY <1>1, AcceptChanges
<1>4. \A x \in Devices, n \in Msgs : RowRound(box'[x][n], covered'[x][n]) /\ KeepsItsRound(x, n)
  BY <1>2, <1>3, RoundRows DEF KeepsItsRound
<1> QED
  BY <1>1, <1>3, <1>4, RoundsKept

LEMMA RoundsSignIn ==
  ASSUME RoundsInv, NEW d \in Devices, NEW u \in Users, register_or_sign_in(d, u)
  PROVE  RoundInv'
<1>1. TypeOK /\ packet \in Packet
  BY DEF RoundsInv, TypeOK
<1>2. /\ UNCHANGED <<packet, covered>>
      /\ \A x \in Devices, n \in Msgs :
           box'[x][n] = box[x][n] \/ box'[x][n] = cancel_for_relink(box[x][n])
  BY <1>1, SignInChanges
<1>3. \A r \in Row : cancel_for_relink(r) = r \/ cancel_for_relink(r).state = "cancelled"
  BY DEF cancel_for_relink, Row
<1>4. \A x \in Devices, n \in Msgs : RowRound(box'[x][n], covered'[x][n]) /\ KeepsItsRound(x, n)
  BY <1>2, <1>3, RoundRows DEF KeepsItsRound, RowRound
<1> QED
  BY <1>1, <1>2, <1>4, RoundsKept

LEMMA RoundsDeletion ==
  ASSUME RoundsInv, NEW devs \in SUBSET Devices, NEW msgs \in SUBSET Msgs, NEW peers \in SUBSET Users,
         DeleteRows(devs, msgs, peers)
  PROVE  RoundInv'
<1>1. TypeOK /\ packet \in Packet
  BY DEF RoundsInv, TypeOK
<1>2. /\ packet' \in Packet /\ packet'.dev \in {packet.dev, None} /\ packet'.msg \in {packet.msg, 0}
      /\ UNCHANGED <<packet.phase, packet.part, packet.arm, packet.attempt>>
  BY <1>1 DEF DeleteRows, Packet
<1>3. \A x \in Devices, n \in Msgs :
        \/ box'[x][n] = NoRow
        \/ box'[x][n] = box[x][n] /\ covered'[x][n] = covered[x][n]
  BY DEF DeleteRows
<1>4. \A x \in Devices, n \in Msgs : RowRound(box'[x][n], covered'[x][n]) /\ KeepsItsRound(x, n)
  BY <1>3, RoundRows DEF KeepsItsRound, RowRound, NoRow
<1> QED
  BY <1>2, <1>4, RoundsKept

LEMMA RoundsInvInit == Init => RoundsInv
<1> SUFFICES ASSUME Init PROVE RoundInv
  BY TypeOKInit DEF RoundsInv
<1> QED
  BY DEF Init, NoRow, NoPacket, RoundInv

LEMMA RoundsInvStep == RoundsInv /\ [Next]_vars => RoundsInv'
<1> SUFFICES ASSUME RoundsInv, [Next]_vars PROVE RoundInv'
  BY TypeOKStep DEF RoundsInv
<1>1. ASSUME UNCHANGED <<box, covered>>, packet' = packet \/ packet' = NoPacket PROVE RoundInv'
  BY <1>1 DEF RoundsInv, RoundInv, IsCurrentPacket, NoPacket
<1>2. ASSUME NEW d \in Devices, NEW u \in Users, RefreshPeer(d, u) PROVE RoundInv'
  BY <1>2, RoundsRefresh DEF RefreshPeer
<1>3. ASSUME NEW d \in Devices, RefreshAll(d) PROVE RoundInv'
  <2>1. find_peer_ids_with_missed_messages(d) \in SUBSET Users
    BY DEF RoundsInv, TypeOK, find_peer_ids_with_missed_messages
  <2> QED
    BY <1>3, <2>1, RoundsRefresh DEF RefreshAll
<1>4. ASSUME NEW u \in Users, delete_user(u) PROVE RoundInv'
  BY <1>4, RoundsDeletion DEF delete_user
<1>5. ASSUME NEW d \in Devices, delete_contact(d) PROVE RoundInv'
  BY <1>5, RoundsDeletion DEF delete_contact
<1>6. ASSUME NEW d \in Devices,
             add_contact(d) \/ mark_contact_on_node(d) \/ return_contact_to_pending_add(d)
      PROVE  RoundInv'
  BY <1>1, <1>6 DEF add_contact, mark_contact_on_node, return_contact_to_pending_add
<1>7. CASE recover_outbound_packets_at_startup
  BY <1>1, <1>7 DEF recover_outbound_packets_at_startup
<1>8. CASE UNCHANGED vars
  BY <1>1, <1>8 DEF vars
<1>9. CASE Next
  BY <1>2, <1>3, <1>4, <1>5, <1>6, <1>7, <1>9, RoundsConfirm, RoundsStatus, RoundsPrepare,
     RoundsGiveUp, RoundsRecord, RoundsSend, RoundsAccept, RoundsSignIn
  DEF Next
<1> QED
  BY <1>8, <1>9

\* An attempt is spent only on a round every part of which the node took or the
\* device reported, however statuses, refreshes, relinks, deletions and
\* restarts come between the sender's transactions.
THEOREM AttemptsAreSpentOnSentRounds == Spec => []FinishedRoundsWereSent
<1>1. RoundsInv => FinishedRoundsWereSent
  <2> SUFFICES ASSUME RoundsInv, NEW d \in Devices, NEW m \in Msgs,
                      box[d][m].state = "pending", box[d][m].attempt > 0, box[d][m].pending = {}
               PROVE  covered[d][m] = Parts
    BY DEF FinishedRoundsWereSent
  <2>1. covered[d][m] \subseteq Parts /\ Parts \subseteq covered[d][m]
    BY RoundRows DEF RowRound
  <2> QED
    BY <2>1
<1> QED
  BY <1>1, RoundsInvInit, RoundsInvStep, PTL DEF Spec
=============================================================================
