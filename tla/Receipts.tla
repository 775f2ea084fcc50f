------------------------------- MODULE Receipts -------------------------------
(***************************************************************************)
(* Delivered and read receipts: how every device of a message's sender is  *)
(* told that the message was delivered, then read, while devices change    *)
(* hands, refreshes restart receipts and packets are lost.  Modelled is    *)
(* the receipt_notifications table with the packets that carry receipts;   *)
(* what the recipient's devices do is reduced to "a status or a read of    *)
(* the message arrives".                                                   *)
(*                                                                         *)
(* Every action is one database transaction or one step of the sender      *)
(* loop, as in Deliveries.  A pending receipt may become due at any time,  *)
(* so next_attempt_at, which is set on every pending row, has no variable. *)
(***************************************************************************)
EXTENDS Integers, FiniteSets

CONSTANTS
  Users, Devices, None,
  Writers,       \* bound: the users who write messages
  MaxMessages,   \* bound: messages ever accepted
  MaxAttempts,   \* retry strategy: attempts per arm
  MaxRefreshes,  \* bound: F <peer> requests ever served
  MaxSignIns,    \* bound: sign-ins that change a device's user
  MaxDeletions,  \* bound: contacts and users ever deleted
  MaxFailures    \* bound: crashes with a packet in hand, and contacts the node lost

ASSUME ReceiptConstants ==
  /\ None \notin Users /\ None \notin Devices /\ Writers \subseteq Users
  /\ MaxMessages \in Nat /\ MaxAttempts \in Nat \ {0}
  /\ MaxRefreshes \in Nat /\ MaxSignIns \in Nat /\ MaxDeletions \in Nat /\ MaxFailures \in Nat

Msgs == 1 .. MaxMessages

\* TargetLevel and ConfirmedLevel; 0 is "nothing".
DELIVERED_LEVEL == 1
READ_LEVEL == 2
Levels == {0, DELIVERED_LEVEL, READ_LEVEL}

VARIABLES
  onNode,    \* contacts with node_sync_state on_node
  owner,     \* contact.user
  messages,  \* accepted messages
  nextMsg,   \* the next message accepted
  receipts,  \* receipt_notifications: receipts[device][message]
  packet,    \* the packet the sender loop has in hand
  told,      \* history: what the node last took for a device: level, arm and attempt
  budget     \* how often each bounded request has been made

vars == <<onNode, owner, messages, nextMsg, receipts, packet, told, budget>>
-----------------------------------------------------------------------------
\* device is sender_device; level is read_message_level.
Message == [from : Users \cup {None}, to : Users \cup {None}, device : Devices \cup {None},
            level : Levels]
NoMessage == [from |-> None, to |-> None, device |-> None, level |-> 0]

Receipt == [state : {"none", "pending", "confirmed", "failed", "cancelled"},
            target : Levels, confirmed : Levels, attempt : Nat, arm : Nat, round : BOOLEAN]
NoReceipt == [state |-> "none", target |-> 0, confirmed |-> 0, attempt |-> 0, arm |-> 0,
              round |-> FALSE]

\* "taken" stands for queued, unknown and every rejection but the other two.
NodeAnswer == {"taken", "table_full", "not_found"}
Packet == [phase : {"none", "prepared"} \cup NodeAnswer, dev : Devices \cup {None},
           msg : Msgs \cup {0}, level : Levels, arm : Nat, attempt : Nat]
NoPacket == [phase |-> "none", dev |-> None, msg |-> 0, level |-> 0, arm |-> 0, attempt |-> 0]

Told == [level : Levels, arm : Nat, attempt : Nat]
NothingTold == [level |-> 0, arm |-> 0, attempt |-> 0]

Budget == [refreshes : Nat, signIns : Nat, deletions : Nat, failures : Nat]

\* Receipts, levels and the packet in hand have the shapes the table and its check
\* constraints allow (messaging/models.py).
TypeOK ==
  /\ onNode \subseteq Devices
  /\ owner \in [Devices -> Users \cup {None}]
  /\ messages \in [Msgs -> Message]
  /\ nextMsg \in 1 .. MaxMessages + 1
  /\ receipts \in [Devices -> [Msgs -> Receipt]]
  /\ packet \in Packet
  /\ told \in [Devices -> [Msgs -> Told]]
  /\ budget \in Budget

Init ==
  /\ onNode = {}
  /\ owner = [d \in Devices |-> None]
  /\ messages = [m \in Msgs |-> NoMessage]
  /\ nextMsg = 1
  /\ receipts = [d \in Devices |-> [m \in Msgs |-> NoReceipt]]
  /\ packet = NoPacket
  /\ told = [d \in Devices |-> [m \in Msgs |-> NothingTold]]
  /\ budget = [refreshes |-> 0, signIns |-> 0, deletions |-> 0, failures |-> 0]
-----------------------------------------------------------------------------
(* The transitions of one receipt (messaging/receipts.py).                 *)

create_receipt(level) ==
  [NoReceipt EXCEPT !.state = "pending", !.target = level, !.arm = 1]

\* Mutant: starting afresh forgets what the device has confirmed.
forget_confirmation(r) ==
  [r EXCEPT !.state = "pending", !.attempt = 0, !.arm = @ + 1, !.round = FALSE, !.confirmed = 0]
build_fresh_attempt_changes(r) ==
  [r EXCEPT !.state = "pending", !.attempt = 0, !.arm = @ + 1, !.round = FALSE]

\* Mutant: the read uses up the attempts that told of the delivery.
raise_receipt_without_new_attempt(r) ==
  IF r.confirmed = READ_LEVEL THEN r
  ELSE [r EXCEPT !.state = "pending", !.target = READ_LEVEL]
raise_receipt_to_read(r) ==
  IF r.confirmed = READ_LEVEL THEN r
  ELSE build_fresh_attempt_changes([r EXCEPT !.target = READ_LEVEL])

\* Mutant: attempts are not counted.
start_uncounted_attempt(r) == [r EXCEPT !.round = TRUE]
start_receipt_attempt(r) == [r EXCEPT !.attempt = @ + 1, !.round = TRUE]

record_receipt_packet_sent(r) == [r EXCEPT !.round = FALSE]

\* Mutant: levels are added up.
LevelSum(x, y) == x + y
LevelMax(x, y) == IF x >= y THEN x ELSE y
LevelMin(x, y) == IF x <= y THEN x ELSE y

\* Mutant: any confirmation confirms.
confirm_whatever_the_level(r, level) ==
  IF r.state \notin {"pending", "failed"} THEN r
  ELSE [r EXCEPT !.confirmed = LevelMax(@, LevelMin(level, r.target)), !.state = "confirmed"]
record_receipt_confirmation(r, level) ==
  LET confirmed == LevelMax(r.confirmed, LevelMin(level, r.target))
  IN  IF confirmed = r.confirmed \/ r.state \notin {"pending", "failed"} THEN r
      ELSE [r EXCEPT !.confirmed = confirmed,
                     !.state = IF confirmed = r.target THEN "confirmed" ELSE @]

fail_receipt_after_exhausted_attempts(r) == [r EXCEPT !.state = "failed"]

\* Mutants.  The receipt comes back with the level it had.
revive_with_old_level(r, level) ==
  IF r.confirmed = r.target THEN [r EXCEPT !.state = "confirmed"]
                            ELSE build_fresh_attempt_changes(r)
\* Mutant: the receipt goes on after the level the device confirmed last.
revive_at_next_level(r, level) ==
  build_fresh_attempt_changes([r EXCEPT !.target = r.confirmed + 1])
revive_cancelled_receipt(r, level) ==
  LET target == LevelMax(r.target, level)
  IN  IF r.confirmed = target
      THEN [r EXCEPT !.state = "confirmed", !.target = target]
      ELSE build_fresh_attempt_changes([r EXCEPT !.target = target])

\* Mutant: the relink overlooks receipts the device has confirmed as delivered.
cancel_unconfirmed_only(r) ==
  IF r.state \in {"pending", "failed"} THEN [r EXCEPT !.state = "cancelled"] ELSE r
cancel_for_relink(r) ==
  IF r.state \in {"none", "cancelled"} \/ (r.state = "confirmed" /\ r.confirmed = READ_LEVEL)
  THEN r ELSE [r EXCEPT !.state = "cancelled"]
-----------------------------------------------------------------------------
(* Requests.                                                               *)

\* Every user has an account; a deleted one may register again.
accept_message(d, to) ==
  /\ owner[d] \in Writers /\ to # owner[d]
  /\ nextMsg <= MaxMessages
  /\ messages' = [messages EXCEPT ![nextMsg] =
                    [from |-> owner[d], to |-> to, device |-> d, level |-> 0]]
  /\ nextMsg' = nextMsg + 1
  /\ UNCHANGED <<onNode, owner, receipts, packet, told, budget>>

raise_receipts_for_message(m, level) ==
  receipts' = [d \in Devices |->
    IF owner[d] = None \/ owner[d] # messages[m].from THEN receipts[d]
    ELSE [receipts[d] EXCEPT ![m] =
            IF @.state = "none" THEN create_receipt(level)
            ELSE IF level = READ_LEVEL THEN raise_receipt_to_read(@) ELSE @]]

\* A complete K (delivered) or an R (read) of a device of the recipient: the
\* message's level rises, or nothing changes.
record_message_confirmation(m, level) ==
  /\ messages[m].from # None /\ \E d \in Devices : owner[d] = messages[m].to
  /\ messages[m].level < level
  /\ messages' = [messages EXCEPT ![m].level = level]
  /\ raise_receipts_for_message(m, level)
  /\ UNCHANGED <<onNode, owner, nextMsg, packet, told, budget>>

\* C
record_receipt_acknowledgement(d, m, level) ==
  /\ owner[d] # None /\ messages[m].from = owner[d]
  /\ receipts[d][m].state # "none"
  /\ receipts' = [receipts EXCEPT ![d][m] = record_receipt_confirmation(@, level)]
  /\ UNCHANGED <<onNode, owner, messages, nextMsg, packet, told, budget>>

\* F <peer>, its part about receipts
rearm_receipts_for_refresh(d, peer) ==
  /\ owner[d] # None /\ peer # owner[d]
  /\ budget.refreshes < MaxRefreshes
  /\ receipts' = [receipts EXCEPT ![d] = [m \in Msgs |->
       LET r == receipts[d][m]
       IN  IF messages[m].from # owner[d] \/ messages[m].to # peer \/ messages[m].device # d THEN r
           ELSE IF r.state = "cancelled" THEN revive_cancelled_receipt(r, messages[m].level)
           ELSE IF r.state \in {"pending", "failed"} THEN build_fresh_attempt_changes(r)
           ELSE r]]
  /\ budget' = [budget EXCEPT !.refreshes = @ + 1]
  /\ UNCHANGED <<onNode, owner, messages, nextMsg, packet, told>>

register_or_sign_in(d, u) ==
  /\ owner[d] # u
  /\ budget.signIns < MaxSignIns
  /\ owner' = [owner EXCEPT ![d] = u]
  /\ receipts' = IF owner[d] = None THEN receipts
                 ELSE [receipts EXCEPT ![d] = [m \in Msgs |-> cancel_for_relink(receipts[d][m])]]
  /\ budget' = [budget EXCEPT !.signIns = @ + 1]
  /\ UNCHANGED <<onNode, messages, nextMsg, packet, told>>

mark_contact_on_node(d) ==
  /\ d \notin onNode
  /\ onNode' = onNode \cup {d}
  /\ UNCHANGED <<owner, messages, nextMsg, receipts, packet, told, budget>>

DeleteRows(devs, msgs) ==
  LET gone(d, m) == d \in devs \/ m \in msgs
  IN  /\ onNode' = onNode \ devs
      /\ owner' = [d \in Devices |-> IF d \in devs THEN None ELSE owner[d]]
      /\ messages' = [m \in Msgs |->
           IF m \in msgs THEN NoMessage
           ELSE IF messages[m].device \in devs THEN [messages[m] EXCEPT !.device = None]
           ELSE messages[m]]
      /\ receipts' = [d \in Devices |-> [m \in Msgs |->
           IF gone(d, m) THEN NoReceipt ELSE receipts[d][m]]]
      /\ told' = [d \in Devices |-> [m \in Msgs |->
           IF gone(d, m) THEN NothingTold ELSE told[d][m]]]
      /\ packet' = IF packet.dev # None /\ gone(packet.dev, packet.msg)
                   THEN [packet EXCEPT !.msg = 0, !.dev = None] ELSE packet
      /\ budget.deletions < MaxDeletions
      /\ budget' = [budget EXCEPT !.deletions = @ + 1]
      /\ UNCHANGED nextMsg

delete_contact(d) == DeleteRows({d}, {})

delete_user(u) ==
  DeleteRows({d \in Devices : owner[d] = u}, {m \in Msgs : u \in {messages[m].from, messages[m].to}})
-----------------------------------------------------------------------------
(* The sender loop.                                                        *)

IsDueCandidate(d, m) ==
  packet.phase = "none" /\ receipts[d][m].state = "pending" /\ d \in onNode

GiveUpReceipt(d, m) ==
  /\ IsDueCandidate(d, m)
  /\ ~receipts[d][m].round /\ receipts[d][m].attempt >= MaxAttempts
  /\ receipts' = [receipts EXCEPT ![d][m] = fail_receipt_after_exhausted_attempts(@)]
  /\ UNCHANGED <<onNode, owner, messages, nextMsg, packet, told, budget>>

prepare_receipt_packet(d, m) ==
  LET r   == receipts[d][m]
      row == IF r.round THEN r ELSE start_receipt_attempt(r)
  IN  /\ IsDueCandidate(d, m)
      /\ r.round \/ r.attempt < MaxAttempts
      /\ receipts' = [receipts EXCEPT ![d][m] = row]
      /\ packet' = [phase |-> "prepared", dev |-> d, msg |-> m, level |-> row.target,
                    arm |-> row.arm, attempt |-> row.attempt]
      /\ UNCHANGED <<onNode, owner, messages, nextMsg, told, budget>>

\* The node is external: it may take any packet, or refuse it.
SendToNode(answer) ==
  /\ packet.phase = "prepared"
  /\ answer = "not_found" => budget.failures < MaxFailures
  /\ packet' = [packet EXCEPT !.phase = answer]
  /\ told' = IF answer = "taken" /\ packet.dev # None
             THEN [told EXCEPT ![packet.dev][packet.msg] =
                     [level |-> packet.level, arm |-> packet.arm, attempt |-> packet.attempt]]
             ELSE told
  /\ budget' = [budget EXCEPT !.failures = IF answer = "not_found" THEN @ + 1 ELSE @]
  /\ UNCHANGED <<onNode, owner, messages, nextMsg, receipts>>

counts_as_sent(answer) == answer \notin {"not_found", "table_full"}

\* The receipt count_packet_as_sent looks for is there.
IsCurrentPacket ==
  /\ packet.dev # None
  /\ LET r == receipts[packet.dev][packet.msg]
     IN  r.state = "pending" /\ r.arm = packet.arm /\ r.attempt = packet.attempt /\ r.round

record_send_outcome ==
  /\ packet.phase \in NodeAnswer
  /\ onNode' = IF packet.phase = "not_found" THEN onNode \ {packet.dev} ELSE onNode
  /\ receipts' = IF counts_as_sent(packet.phase) /\ IsCurrentPacket
                 THEN [receipts EXCEPT ![packet.dev][packet.msg] = record_receipt_packet_sent(@)]
                 ELSE receipts
  /\ packet' = NoPacket
  /\ UNCHANGED <<owner, messages, nextMsg, told, budget>>

recover_outbound_packets_at_startup ==
  /\ packet.phase # "none"
  /\ budget.failures < MaxFailures
  /\ packet' = NoPacket
  /\ budget' = [budget EXCEPT !.failures = @ + 1]
  /\ UNCHANGED <<onNode, owner, messages, nextMsg, receipts, told>>
-----------------------------------------------------------------------------
Next ==
  \/ \E d \in Devices :
       \/ mark_contact_on_node(d) \/ delete_contact(d)
       \/ \E u \in Users : \/ register_or_sign_in(d, u) \/ accept_message(d, u)
                           \/ rearm_receipts_for_refresh(d, u)
       \/ \E m \in Msgs :
            \/ prepare_receipt_packet(d, m) \/ GiveUpReceipt(d, m)
            \/ \E level \in Levels \ {0} : record_receipt_acknowledgement(d, m, level)
  \/ \E m \in Msgs, level \in Levels \ {0} : record_message_confirmation(m, level)
  \/ \E u \in Users : delete_user(u)
  \/ \E answer \in NodeAnswer : SendToNode(answer)
  \/ record_send_outcome
  \/ recover_outbound_packets_at_startup

Spec == Init /\ [][Next]_vars

\* As in Deliveries: the reconciler keeps contacts on the node, the sender loop
\* keeps going, and the node's packet pool is not full for ever.
Fairness ==
  /\ \A d \in Devices : WF_vars(mark_contact_on_node(d))
  /\ WF_vars(\E d \in Devices, m \in Msgs : prepare_receipt_packet(d, m) \/ GiveUpReceipt(d, m))
  /\ WF_vars(\E answer \in NodeAnswer : SendToNode(answer))
  /\ SF_vars(SendToNode("taken"))
  /\ WF_vars(record_send_outcome)

FairSpec == Spec /\ Fairness
-----------------------------------------------------------------------------
(* Properties.                                                             *)

\* A receipt that is not cancelled is confirmed exactly when both levels are
\* equal, whatever order reads, confirmations, relinks and refreshes come in.
\* The database refuses anything else, and with it the whole request
\* (models.py, receipt_confirmed_state_matches_levels).
ConfirmedMatchesLevels ==
  \A d \in Devices, m \in Msgs :
    LET r == receipts[d][m]
    IN  r.state \in {"pending", "confirmed", "failed"}
          => (r.state = "confirmed") = (r.confirmed = r.target)

\* Every row is one the database accepts: its columns and its check constraint
\* (models.py, ReceiptNotification).
RowsAreValid == TypeOK /\ ConfirmedMatchesLevels

\* A receipt that is or may be sent names what is true of the message now: no
\* relink, revival or read leaves a device with an outdated level
\* (receipts.py, raise_receipts_for_message and revive_cancelled_receipt).
ReceiptsNameTheCurrentLevel ==
  \A d \in Devices, m \in Msgs :
    receipts[d][m].state \in {"pending", "confirmed", "failed"}
      => receipts[d][m].target = messages[m].level

\* Only a device of the sender has a receipt that can still be sent or confirmed.
LiveReceiptsBelongToTheSender ==
  \A d \in Devices, m \in Msgs :
    LET r == receipts[d][m]
    IN  r.state \in {"pending", "failed"} \/ (r.state = "confirmed" /\ r.confirmed # READ_LEVEL)
          => owner[d] # None /\ owner[d] = messages[m].from

\* An attempt is over, and may be the last one, only when the node took a packet
\* of this very attempt with the level the receipt is about: a full packet pool,
\* a crash, or a packet prepared before a read raised the level uses up none of
\* the attempts (outbound_packets.py, count_packet_as_sent).
FinishedAttemptsWereSent ==
  \A d \in Devices, m \in Msgs :
    LET r == receipts[d][m]
    IN  r.state \in {"pending", "failed"} /\ r.attempt > 0 /\ ~r.round
          => told[d][m] = [level |-> r.target, arm |-> r.arm, attempt |-> r.attempt]

\* Nothing goes back: target and confirmed level only grow while the row exists,
\* and a device that was told "read" is never told "delivered" afterwards, although
\* a packet with the lower level may be in hand when the message is read
\* (receipts.py).
LevelsNeverFall ==
  [][\A d \in Devices, m \in Msgs :
       /\ receipts'[d][m] # NoReceipt =>
            /\ receipts'[d][m].target >= receipts[d][m].target
            /\ receipts'[d][m].confirmed >= receipts[d][m].confirmed
       /\ told'[d][m] # NothingTold => told'[d][m].level >= told[d][m].level]_vars

\* Every receipt is settled: it is confirmed, or gives up after its attempts,
\* or goes with its contact, its message or its device's link.
ReceiptsAreSettled ==
  <>[](\A d \in Devices, m \in Msgs : receipts[d][m].state # "pending")
-----------------------------------------------------------------------------
(* The parts of the inductive invariant that are not properties themselves. *)

\* Only accepted messages that still exist have receipts, or were told of.
ReceiptsHaveAMessage ==
  /\ \A m \in Msgs : m >= nextMsg => messages[m].from = None
  /\ \A d \in Devices, m \in Msgs :
       messages[m].from = None => receipts[d][m] = NoReceipt /\ told[d][m] = NothingTold

\* A receipt tells of a level the message has reached, nothing is confirmed or was
\* told that is above it, and an attempt that is under way has been counted.
LevelInv ==
  \A d \in Devices, m \in Msgs :
    LET r == receipts[d][m]
    IN  /\ IF r.state = "none" THEN r = NoReceipt ELSE r.target # 0
        /\ r.confirmed <= r.target /\ r.target <= messages[m].level
        /\ told[d][m].level <= r.target
        /\ r.round => r.attempt > 0

\* The receipt a packet in hand tells of is still in the packet's attempt, or has
\* started afresh since; what the node takes of it is not below what it took before.
PacketInv ==
  packet.phase # "none" /\ packet.dev # None =>
    /\ packet.msg \in Msgs /\ packet.attempt > 0 /\ packet.level # 0
    /\ LET r == receipts[packet.dev][packet.msg]
           t == told[packet.dev][packet.msg]
       IN  /\ t.level <= packet.level /\ packet.level <= r.target
           /\ r.attempt > 0 =>
                /\ r.arm = packet.arm /\ r.attempt = packet.attempt /\ r.round
                /\ r.state \in {"pending", "failed"} => r.target = packet.level
                /\ packet.phase = "taken" =>
                     t = [level |-> packet.level, arm |-> packet.arm, attempt |-> packet.attempt]

IInv ==
  /\ TypeOK /\ ReceiptsHaveAMessage /\ LevelInv /\ PacketInv /\ ConfirmedMatchesLevels
  /\ ReceiptsNameTheCurrentLevel /\ LiveReceiptsBelongToTheSender /\ FinishedAttemptsWereSent
=============================================================================
