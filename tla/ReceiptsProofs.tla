---------------------------- MODULE ReceiptsProofs ----------------------------
(* Machine-checked proofs about Receipts, for every value of its constants: *)
(* the inductive invariant IInv of that module, and that levels never fall. *)
EXTENDS Receipts, TLAPS

\* What IInv says of one receipt, of what its device was last told of it, and of
\* the level of its message.
ReceiptInv(r, t, level) ==
  /\ r \in Receipt /\ t \in Told
  /\ IF r.state = "none" THEN r = NoReceipt ELSE r.target # 0
  /\ r.confirmed <= r.target /\ r.target <= level /\ t.level <= r.target
  /\ r.round => r.attempt > 0
  /\ r.state \in {"pending", "confirmed", "failed"} =>
       (r.state = "confirmed") = (r.confirmed = r.target) /\ r.target = level
  /\ r.state \in {"pending", "failed"} /\ r.attempt > 0 /\ ~r.round =>
       t = [level |-> r.target, arm |-> r.arm, attempt |-> r.attempt]

\* A receipt that can still be sent or confirmed.
IsLive(r) == r.state \in {"pending", "failed"} \/ (r.state = "confirmed" /\ r.confirmed # READ_LEVEL)

\* What requests do to a receipt: the levels rise, and it stays in its attempt
\* with the level it had, or starts afresh.
Evolves(r, s) ==
  /\ s.target >= r.target /\ s.confirmed >= r.confirmed
  /\ s.attempt > 0 =>
       /\ s.arm = r.arm /\ s.attempt = r.attempt /\ s.round = r.round
       /\ s.state \in {"pending", "failed"} => r.state \in {"pending", "failed"} /\ s.target = r.target

-----------------------------------------------------------------------------
(* The transitions of one receipt.                                         *)


\* A receipt that starts afresh, with the level it had or a higher one, has not
\* had this level confirmed.
LEMMA StartAfresh ==
  ASSUME NEW r \in Receipt, NEW t \in Told, NEW level \in Levels, level # 0,
         r.confirmed < level, r.target <= level, t.level <= r.target, r.state # "none"
  PROVE  /\ LET s == build_fresh_attempt_changes([r EXCEPT !.target = level])
            IN  ReceiptInv(s, t, level) /\ Evolves(r, s) /\ s.state # "none"
         /\ r.target = level =>
              LET s == build_fresh_attempt_changes(r)
              IN  ReceiptInv(s, t, level) /\ Evolves(r, s) /\ s.state # "none"
<1>1. r.arm + 1 \in Nat
  BY DEF Receipt
<1>2. ASSUME NEW s, s = build_fresh_attempt_changes([r EXCEPT !.target = level])
      PROVE  ReceiptInv(s, t, level) /\ Evolves(r, s) /\ s.state # "none"
  <2>1. /\ s \in Receipt /\ s.state = "pending" /\ s.target = level /\ s.confirmed = r.confirmed
        /\ s.attempt = 0 /\ s.round = FALSE
    BY <1>1, <1>2 DEF build_fresh_attempt_changes, Receipt
  <2> QED
    BY <2>1 DEF ReceiptInv, Evolves, Receipt, Told, Levels, DELIVERED_LEVEL, READ_LEVEL
<1>3. ASSUME NEW s, s = build_fresh_attempt_changes(r), r.target = level
      PROVE  ReceiptInv(s, t, level) /\ Evolves(r, s) /\ s.state # "none"
  <2>1. /\ s \in Receipt /\ s.state = "pending" /\ s.target = level /\ s.confirmed = r.confirmed
        /\ s.attempt = 0 /\ s.round = FALSE
    BY <1>1, <1>3 DEF build_fresh_attempt_changes, Receipt
  <2> QED
    BY <2>1 DEF ReceiptInv, Evolves, Receipt, Told, Levels, DELIVERED_LEVEL, READ_LEVEL
<1> QED
  BY <1>2, <1>3

LEMMA CreateReceipt ==
  ASSUME NEW t \in Told, NEW level \in Levels, level # 0, t.level <= 0
  PROVE  ReceiptInv(create_receipt(level), t, level) /\ Evolves(NoReceipt, create_receipt(level))
<1> DEFINE s == create_receipt(level)
<1>1. /\ NoReceipt.target = 0 /\ NoReceipt.confirmed = 0 /\ NoReceipt.attempt = 0
      /\ NoReceipt.round = FALSE /\ NoReceipt.state = "none"
  BY DEF NoReceipt
<1>2. /\ s \in Receipt /\ s.state = "pending" /\ s.target = level /\ s.confirmed = 0
      /\ s.attempt = 0 /\ s.round = FALSE
  BY DEF create_receipt, NoReceipt, Receipt, Levels
<1> HIDE DEF s
<1>3. ReceiptInv(s, t, level) /\ Evolves(NoReceipt, s)
  BY <1>1, <1>2 DEF ReceiptInv, Evolves, Told, Levels, DELIVERED_LEVEL, READ_LEVEL
<1> QED
  BY <1>3 DEF s

\* A read raises the receipt of a message not read before.
LEMMA RaiseReceipt ==
  ASSUME NEW r, NEW t, NEW level \in Levels, ReceiptInv(r, t, level), r.state # "none",
         level < READ_LEVEL
  PROVE  ReceiptInv(raise_receipt_to_read(r), t, READ_LEVEL) /\ Evolves(r, raise_receipt_to_read(r))
<1>1. /\ r \in Receipt /\ t \in Told /\ r.confirmed < READ_LEVEL /\ r.target <= READ_LEVEL
      /\ t.level <= r.target /\ READ_LEVEL \in Levels \ {0}
  BY DEF ReceiptInv, Receipt, Levels, DELIVERED_LEVEL, READ_LEVEL
<1>2. raise_receipt_to_read(r) = build_fresh_attempt_changes([r EXCEPT !.target = READ_LEVEL])
  BY <1>1 DEF raise_receipt_to_read, Receipt, Levels, DELIVERED_LEVEL, READ_LEVEL
<1> QED
  BY <1>1, <1>2, StartAfresh

\* A confirmation confirms what the receipt tells of, and no more.
LEMMA ConfirmReceipt ==
  ASSUME NEW r, NEW t, NEW level \in Levels, ReceiptInv(r, t, level), r.state # "none",
         NEW named \in Levels \ {0}
  PROVE  LET s == record_receipt_confirmation(r, named)
         IN  /\ ReceiptInv(s, t, level) /\ Evolves(r, s)
             /\ s = r \/ (IsLive(r) /\ s.state # "none")
<1> DEFINE c == LevelMax(r.confirmed, LevelMin(named, r.target))
           s == record_receipt_confirmation(r, named)
<1>1. r \in Receipt
  BY DEF ReceiptInv
<1>2. c \in Levels /\ c >= r.confirmed /\ c <= r.target
  BY <1>1 DEF ReceiptInv, Receipt, LevelMax, LevelMin, Levels, DELIVERED_LEVEL, READ_LEVEL
<1>3. CASE c = r.confirmed \/ r.state \notin {"pending", "failed"}
  <2>1. s = r
    BY <1>3 DEF record_receipt_confirmation
  <2> QED
    BY <1>1, <2>1 DEF Evolves, Receipt, Levels, DELIVERED_LEVEL, READ_LEVEL
<1>4. CASE c # r.confirmed /\ r.state \in {"pending", "failed"}
  <2>1. s = [r EXCEPT !.confirmed = c, !.state = IF c = r.target THEN "confirmed" ELSE @]
    BY <1>4 DEF record_receipt_confirmation
  <2> HIDE DEF c, s
  <2>2. /\ s \in Receipt /\ s.confirmed = c /\ s.target = r.target /\ s.attempt = r.attempt
        /\ s.arm = r.arm /\ s.round = r.round
        /\ s.state = IF c = r.target THEN "confirmed" ELSE r.state
    BY <1>1, <1>2, <1>4, <2>1 DEF Receipt
  <2>3. ReceiptInv(s, t, level)
    BY <1>2, <1>4, <2>2 DEF ReceiptInv, Receipt, Levels, DELIVERED_LEVEL, READ_LEVEL
  <2>4. Evolves(r, s) /\ IsLive(r) /\ s.state # "none"
    BY <1>1, <1>2, <1>4, <2>2 DEF Evolves, IsLive, Receipt, Levels, DELIVERED_LEVEL, READ_LEVEL
  <2> QED
    BY <2>3, <2>4 DEF s
<1> QED
  BY <1>3, <1>4

\* A cancelled receipt comes back with the level of its message.
LEMMA ReviveReceipt ==
  ASSUME NEW r, NEW t, NEW level \in Levels, ReceiptInv(r, t, level), r.state = "cancelled"
  PROVE  LET s == revive_cancelled_receipt(r, level)
         IN  ReceiptInv(s, t, level) /\ Evolves(r, s) /\ s.state # "none"
<1>1. r \in Receipt /\ t \in Told /\ r.target # 0 /\ level # 0 /\ LevelMax(r.target, level) = level
  BY DEF ReceiptInv, Receipt, LevelMax, Levels, DELIVERED_LEVEL, READ_LEVEL
<1>2. CASE r.confirmed = level
  <2>1. revive_cancelled_receipt(r, level) = [r EXCEPT !.state = "confirmed", !.target = level]
    BY <1>1, <1>2 DEF revive_cancelled_receipt
  <2> DEFINE s == revive_cancelled_receipt(r, level)
  <2>2. /\ s \in Receipt /\ s.state = "confirmed" /\ s.target = level /\ s.confirmed = level
        /\ s.attempt = r.attempt /\ s.arm = r.arm /\ s.round = r.round
    BY <1>1, <1>2, <2>1 DEF Receipt
  <2> HIDE DEF s
  <2>3. ReceiptInv(s, t, level) /\ Evolves(r, s) /\ s.state # "none"
    BY <1>1, <1>2, <2>2 DEF ReceiptInv, Evolves, Receipt, Told, Levels, DELIVERED_LEVEL, READ_LEVEL
  <2> QED
    BY <2>3 DEF s
<1>3. CASE r.confirmed # level
  <2>1. r.confirmed < level /\ r.target <= level /\ t.level <= r.target
    BY <1>1, <1>3 DEF ReceiptInv, Receipt, Told, Levels, DELIVERED_LEVEL, READ_LEVEL
  <2>2. revive_cancelled_receipt(r, level) = build_fresh_attempt_changes([r EXCEPT !.target = level])
    BY <1>1, <1>3 DEF revive_cancelled_receipt
  <2> QED
    BY <1>1, <2>1, <2>2, StartAfresh
<1> QED
  BY <1>2, <1>3

\* A refresh starts the receipts that are not confirmed afresh.
LEMMA RearmReceipt ==
  ASSUME NEW r, NEW t, NEW level \in Levels, ReceiptInv(r, t, level), r.state \in {"pending", "failed"}
  PROVE  LET s == build_fresh_attempt_changes(r)
         IN  ReceiptInv(s, t, level) /\ Evolves(r, s) /\ s.state # "none"
<1>1. /\ r \in Receipt /\ t \in Told /\ r.target = level /\ level # 0 /\ r.confirmed < level
      /\ t.level <= r.target
  BY DEF ReceiptInv, Receipt, Levels, DELIVERED_LEVEL, READ_LEVEL
<1>2. r.target <= level
  BY <1>1 DEF Levels, DELIVERED_LEVEL, READ_LEVEL
<1> QED
  BY <1>1, <1>2, StartAfresh

\* A relink leaves no receipt that can still be sent.
LEMMA CancelReceipt ==
  ASSUME NEW r, NEW t, NEW level \in Levels, ReceiptInv(r, t, level)
  PROVE  LET s == cancel_for_relink(r)
         IN  /\ ReceiptInv(s, t, level) /\ Evolves(r, s) /\ ~IsLive(s)
             /\ r.state = "none" => s = r
             /\ s.state = "none" => r.state = "none"
  BY DEF cancel_for_relink, ReceiptInv, Evolves, IsLive, Receipt, Levels, DELIVERED_LEVEL, READ_LEVEL

\* A receipt that stays as it is evolves, too.
LEMMA KeepReceipt ==
  ASSUME NEW r \in Receipt PROVE Evolves(r, r)
  BY DEF Evolves, Receipt, Levels, DELIVERED_LEVEL, READ_LEVEL

-----------------------------------------------------------------------------
(* The invariant, receipt by receipt.                                      *)

OtherTypes ==
  /\ onNode \subseteq Devices /\ owner \in [Devices -> Users \cup {None}]
  /\ messages \in [Msgs -> Message] /\ nextMsg \in 1 .. MaxMessages + 1
  /\ packet \in Packet /\ budget \in Budget

\* What IInv says of the receipt of message m for device d.
RowInv(d, m) ==
  /\ ReceiptInv(receipts[d][m], told[d][m], messages[m].level)
  /\ IsLive(receipts[d][m]) => owner[d] # None /\ owner[d] = messages[m].from

\* The action of LevelsNeverFall.
LevelStep ==
  \A d \in Devices, m \in Msgs :
    /\ receipts'[d][m] # NoReceipt =>
         /\ receipts'[d][m].target >= receipts[d][m].target
         /\ receipts'[d][m].confirmed >= receipts[d][m].confirmed
    /\ told'[d][m] # NothingTold => told'[d][m].level >= told[d][m].level

LEMMA IInvByRows ==
  ASSUME IInv
  PROVE  /\ OtherTypes /\ receipts \in [Devices -> [Msgs -> Receipt]]
         /\ told \in [Devices -> [Msgs -> Told]]
         /\ \A d \in Devices, m \in Msgs : RowInv(d, m) /\ messages[m].level \in Levels
<1>1. /\ OtherTypes /\ receipts \in [Devices -> [Msgs -> Receipt]]
      /\ told \in [Devices -> [Msgs -> Told]]
  BY DEF IInv, TypeOK, OtherTypes
<1>2. \A m \in Msgs : messages[m].level \in Levels
  BY <1>1 DEF OtherTypes, Message
<1>3. ASSUME NEW d \in Devices, NEW m \in Msgs PROVE RowInv(d, m)
  <2> DEFINE r == receipts[d][m]
             t == told[d][m]
             level == messages[m].level
  <2>1. r \in Receipt /\ t \in Told
    BY <1>1
  <2>2. /\ IF r.state = "none" THEN r = NoReceipt ELSE r.target # 0
        /\ r.confirmed <= r.target /\ r.target <= level /\ t.level <= r.target
        /\ r.round => r.attempt > 0
    BY DEF IInv, LevelInv
  <2>3. r.state \in {"pending", "confirmed", "failed"} =>
          (r.state = "confirmed") = (r.confirmed = r.target) /\ r.target = level
    BY DEF IInv, ConfirmedMatchesLevels, ReceiptsNameTheCurrentLevel
  <2>4. r.state \in {"pending", "failed"} /\ r.attempt > 0 /\ ~r.round =>
          t = [level |-> r.target, arm |-> r.arm, attempt |-> r.attempt]
    BY DEF IInv, FinishedAttemptsWereSent
  <2>5. IsLive(r) => owner[d] # None /\ owner[d] = messages[m].from
    BY DEF IInv, LiveReceiptsBelongToTheSender, IsLive
  <2> HIDE DEF r, t, level
  <2>6. ReceiptInv(r, t, level)
    BY <2>1, <2>2, <2>3, <2>4 DEF ReceiptInv
  <2> QED
    BY <2>5, <2>6 DEF RowInv, r, t, level
<1> QED
  BY <1>1, <1>2, <1>3

LEMMA RowsMakeIInv ==
  ASSUME OtherTypes', (receipts \in [Devices -> [Msgs -> Receipt]])',
         (told \in [Devices -> [Msgs -> Told]])',
         \A d \in Devices, m \in Msgs : RowInv(d, m)', ReceiptsHaveAMessage', PacketInv'
  PROVE  IInv'
<1>1. TypeOK'
  BY DEF OtherTypes, TypeOK
<1>2. LevelInv'
  BY DEF RowInv, ReceiptInv, LevelInv
<1>3. ConfirmedMatchesLevels' /\ ReceiptsNameTheCurrentLevel'
  BY DEF RowInv, ReceiptInv, ConfirmedMatchesLevels, ReceiptsNameTheCurrentLevel
<1>4. LiveReceiptsBelongToTheSender'
  BY DEF RowInv, IsLive, LiveReceiptsBelongToTheSender
<1>5. FinishedAttemptsWereSent'
  BY DEF RowInv, ReceiptInv, FinishedAttemptsWereSent
<1> QED
  BY <1>1, <1>2, <1>3, <1>4, <1>5 DEF IInv

\* Requests raise, confirm, revive or cancel receipts while a packet may be in
\* hand: its receipt stays in the packet's attempt or starts afresh.
LEMMA RequestStep ==
  ASSUME IInv, OtherTypes', (receipts \in [Devices -> [Msgs -> Receipt]])',
         UNCHANGED <<packet, told>>, ReceiptsHaveAMessage',
         \A d \in Devices, m \in Msgs : RowInv(d, m)' /\ Evolves(receipts[d][m], receipts'[d][m])
  PROVE  IInv' /\ LevelStep
<1>1. \A d \in Devices, m \in Msgs : told[d][m].level >= told[d][m].level
  <2>1. \A d \in Devices, m \in Msgs : told[d][m].level \in Levels
    BY IInvByRows DEF Told
  <2> QED
    BY <2>1 DEF Levels, DELIVERED_LEVEL, READ_LEVEL
<1>2. LevelStep
  BY <1>1 DEF LevelStep, Evolves
<1>3. PacketInv'
  <2> SUFFICES ASSUME packet.phase # "none", packet.dev # None PROVE PacketInv'
    BY DEF PacketInv
  <2> DEFINE r == receipts[packet.dev][packet.msg]
             s == receipts'[packet.dev][packet.msg]
  <2>1. packet.dev \in Devices /\ packet.msg \in Msgs /\ packet.level \in Levels
    BY IInvByRows DEF IInv, PacketInv, OtherTypes, Packet
  <2>2. Evolves(r, s) /\ r \in Receipt /\ s \in Receipt
    BY <2>1, IInvByRows
  <2>3. packet.level <= s.target
    <3>1. packet.level <= r.target
      BY DEF IInv, PacketInv
    <3>2. s.target >= r.target
      BY <2>2 DEF Evolves
    <3>3. packet.level \in Nat /\ r.target \in Nat /\ s.target \in Nat
      BY <2>1, <2>2 DEF Receipt, Levels, DELIVERED_LEVEL, READ_LEVEL
    <3> HIDE DEF r, s
    <3> QED
      BY <3>1, <3>2, <3>3
  <2> QED
    BY <2>1, <2>2, <2>3 DEF IInv, PacketInv, Evolves
<1> QED
  BY <1>2, <1>3, IInvByRows, RowsMakeIInv

-----------------------------------------------------------------------------
(* Requests.                                                               *)

LEMMA IInvAccept ==
  ASSUME IInv, NEW d \in Devices, NEW to \in Users, accept_message(d, to)
  PROVE  IInv' /\ LevelStep
<1>1. nextMsg \in Msgs /\ nextMsg' = nextMsg + 1 /\ nextMsg' \in 1 .. MaxMessages + 1
  BY ReceiptConstants, IInvByRows DEF OtherTypes, accept_message, Msgs
<1>2. owner[d] \in Users /\ messages[nextMsg].from = None
  <2>1. owner[d] \in Users
    BY ReceiptConstants DEF accept_message
  <2>2. nextMsg >= nextMsg
    BY <1>1 DEF Msgs
  <2> QED
    BY <1>1, <2>1, <2>2 DEF IInv, ReceiptsHaveAMessage
<1>3. \A m \in Msgs : messages'[m] = IF m = nextMsg THEN [from |-> owner[d], to |-> to,
                                                          device |-> d, level |-> 0]
                                     ELSE messages[m]
  BY <1>1, IInvByRows DEF accept_message, OtherTypes
<1>4. messages' \in [Msgs -> Message]
  <2>1. [from |-> owner[d], to |-> to, device |-> d, level |-> 0] \in Message
    BY <1>2 DEF Message, Levels
  <2> QED
    BY <2>1, IInvByRows DEF accept_message, OtherTypes
<1>5. OtherTypes'
  BY <1>1, <1>4, IInvByRows DEF OtherTypes, accept_message
<1>6. ReceiptsHaveAMessage'
  BY <1>1, <1>2, <1>3, ReceiptConstants DEF ReceiptsHaveAMessage, IInv, accept_message, Msgs
<1>7. ASSUME NEW x \in Devices, NEW m \in Msgs
      PROVE  RowInv(x, m)' /\ Evolves(receipts[x][m], receipts'[x][m])
  <2>1. Evolves(receipts[x][m], receipts'[x][m])
    BY KeepReceipt, IInvByRows DEF accept_message
  <2>2. CASE m # nextMsg
    BY <1>3, <2>1, <2>2, IInvByRows DEF RowInv, accept_message
  <2>3. CASE m = nextMsg
    <3>1. receipts[x][m] = NoReceipt /\ told[x][m] = NothingTold
      BY <1>2, <2>3 DEF IInv, ReceiptsHaveAMessage
    <3>2. messages'[m].level = 0 /\ messages[m].level \in Levels
      BY <1>3, <2>3, IInvByRows
    <3>3. ReceiptInv(NoReceipt, NothingTold, 0) /\ ~IsLive(NoReceipt)
      BY DEF ReceiptInv, NoReceipt, NothingTold, IsLive, Receipt, Told, Levels
    <3> QED
      BY <2>1, <3>1, <3>2, <3>3 DEF RowInv, accept_message
  <2> QED
    BY <2>2, <2>3
<1> QED
  BY <1>5, <1>6, <1>7, IInvByRows, RequestStep DEF accept_message

\* A delivery or a read reaches every device of the sender, and the receipts of
\* other devices are cancelled, or confirmed as read.
LEMMA IInvConfirmMessage ==
  ASSUME IInv, NEW m \in Msgs, NEW level \in Levels \ {0}, record_message_confirmation(m, level)
  PROVE  IInv' /\ LevelStep
<1> DEFINE old == messages[m].level
<1>1. /\ messages[m].from # None /\ old < level /\ old \in Levels
      /\ UNCHANGED <<onNode, owner, nextMsg, packet, told, budget>>
  BY IInvByRows DEF record_message_confirmation
<1>2. \A n \in Msgs : /\ messages'[n].level = IF n = m THEN level ELSE messages[n].level
                      /\ messages'[n].from = messages[n].from
  BY IInvByRows DEF record_message_confirmation, OtherTypes, Message
<1>3. messages' \in [Msgs -> Message]
  BY IInvByRows DEF record_message_confirmation, OtherTypes, Message
<1>4. \A x \in Devices, n \in Msgs :
        receipts'[x][n] =
          IF n # m \/ owner[x] # messages[m].from THEN receipts[x][n]
          ELSE IF receipts[x][m].state = "none" THEN create_receipt(level)
          ELSE IF level = READ_LEVEL THEN raise_receipt_to_read(receipts[x][m]) ELSE receipts[x][m]
  BY <1>1, IInvByRows DEF record_message_confirmation, raise_receipts_for_message
<1>5. ASSUME NEW x \in Devices, NEW n \in Msgs
      PROVE  RowInv(x, n)' /\ Evolves(receipts[x][n], receipts'[x][n])
  <2>1. RowInv(x, n) /\ receipts[x][n] \in Receipt /\ Evolves(receipts[x][n], receipts[x][n])
    BY IInvByRows, KeepReceipt
  <2>2. CASE n # m
    BY <1>1, <1>2, <1>4, <2>1, <2>2 DEF RowInv
  <2>3. CASE n = m /\ owner[x] # messages[m].from
    <3>1. ~IsLive(receipts[x][m])
      BY <2>1, <2>3 DEF RowInv
    <3>2. receipts'[x][m] = receipts[x][m] /\ receipts[x][m].target <= level
      BY <1>1, <1>4, <2>1, <2>3
      DEF RowInv, ReceiptInv, Receipt, Levels, DELIVERED_LEVEL, READ_LEVEL
    <3>3. receipts[x][m].state \in {"none", "cancelled"}
      BY <1>1, <2>1, <2>3, <3>1
      DEF RowInv, ReceiptInv, IsLive, Receipt, Levels, DELIVERED_LEVEL, READ_LEVEL
    <3>4. ReceiptInv(receipts[x][m], told[x][m], level)
      BY <2>1, <2>3, <3>2, <3>3 DEF RowInv, ReceiptInv
    <3> QED
      BY <1>1, <1>2, <2>1, <2>3, <3>1, <3>2, <3>4 DEF RowInv
  <2>4. CASE n = m /\ owner[x] = messages[m].from /\ receipts[x][m].state = "none"
    <3>1. receipts[x][m] = NoReceipt /\ told[x][m] \in Told /\ told[x][m].level <= 0
      BY <2>1, <2>4 DEF RowInv, ReceiptInv, NoReceipt
    <3>2. receipts'[x][m] = create_receipt(level)
      BY <1>4, <2>4
    <3> QED
      BY <1>1, <1>2, <2>4, <3>1, <3>2, CreateReceipt DEF RowInv
  <2>5. CASE n = m /\ owner[x] = messages[m].from /\ receipts[x][m].state # "none"
    <3>1. level = READ_LEVEL /\ old < READ_LEVEL
      BY <1>1, <2>1, <2>5 DEF RowInv, ReceiptInv, Receipt, Levels, DELIVERED_LEVEL, READ_LEVEL
    <3>2. receipts'[x][m] = raise_receipt_to_read(receipts[x][m])
      BY <1>4, <2>5, <3>1
    <3>3. ReceiptInv(receipts'[x][m], told[x][m], level) /\ Evolves(receipts[x][m], receipts'[x][m])
      BY <1>1, <2>1, <2>5, <3>1, <3>2, RaiseReceipt DEF RowInv
    <3> QED
      BY <1>1, <1>2, <2>5, <3>3 DEF RowInv
  <2> QED
    BY <2>2, <2>3, <2>4, <2>5
<1>6. receipts' \in [Devices -> [Msgs -> Receipt]]
  <2>1. \A x \in Devices, n \in Msgs : receipts'[x][n] \in Receipt
    BY <1>5 DEF RowInv, ReceiptInv
  <2>2. receipts' = [x \in Devices |-> receipts'[x]] /\ \A x \in Devices : receipts'[x] = [n \in Msgs |-> receipts'[x][n]]
    BY IInvByRows DEF record_message_confirmation, raise_receipts_for_message
  <2> QED
    BY <2>1, <2>2
<1>7. ReceiptsHaveAMessage'
  BY <1>1, <1>2, <1>4 DEF IInv, ReceiptsHaveAMessage
<1>8. OtherTypes'
  BY <1>1, <1>3, IInvByRows DEF OtherTypes
<1> QED
  BY <1>1, <1>5, <1>6, <1>7, <1>8, RequestStep


LEMMA IInvAcknowledge ==
  ASSUME IInv, NEW d \in Devices, NEW m \in Msgs, NEW level \in Levels \ {0},
         record_receipt_acknowledgement(d, m, level)
  PROVE  IInv' /\ LevelStep
<1> DEFINE s == record_receipt_confirmation(receipts[d][m], level)
<1>1. UNCHANGED <<onNode, owner, messages, nextMsg, packet, told, budget>>
  BY DEF record_receipt_acknowledgement
<1>2. \A x \in Devices, n \in Msgs :
        receipts'[x][n] = IF x = d /\ n = m THEN s ELSE receipts[x][n]
  BY IInvByRows DEF record_receipt_acknowledgement
<1>3. /\ ReceiptInv(s, told[d][m], messages[m].level) /\ Evolves(receipts[d][m], s)
      /\ s = receipts[d][m] \/ (IsLive(receipts[d][m]) /\ s.state # "none")
  BY IInvByRows, ConfirmReceipt DEF RowInv, record_receipt_acknowledgement
<1> HIDE DEF s
<1>4. ASSUME NEW x \in Devices, NEW n \in Msgs
      PROVE  RowInv(x, n)' /\ Evolves(receipts[x][n], receipts'[x][n])
  <2>1. RowInv(x, n) /\ Evolves(receipts[x][n], receipts[x][n])
    BY IInvByRows, KeepReceipt
  <2>2. CASE x = d /\ n = m
    BY <1>1, <1>2, <1>3, <2>1, <2>2 DEF RowInv
  <2>3. CASE ~(x = d /\ n = m)
    BY <1>1, <1>2, <2>1, <2>3 DEF RowInv
  <2> QED
    BY <2>2, <2>3
<1>5. receipts' \in [Devices -> [Msgs -> Receipt]]
  BY <1>3, IInvByRows DEF record_receipt_acknowledgement, ReceiptInv, s
<1>6. ReceiptsHaveAMessage'
  BY <1>1, <1>2 DEF IInv, ReceiptsHaveAMessage, record_receipt_acknowledgement
<1>7. OtherTypes'
  BY <1>1, IInvByRows DEF OtherTypes
<1> QED
  BY <1>1, <1>4, <1>5, <1>6, <1>7, RequestStep

\* A refresh starts the receipts of the device's own messages afresh.
LEMMA IInvRearm ==
  ASSUME IInv, NEW d \in Devices, NEW peer \in Users, rearm_receipts_for_refresh(d, peer)
  PROVE  IInv' /\ LevelStep
<1> DEFINE new(n) ==
             LET r == receipts[d][n]
             IN  IF messages[n].from # owner[d] \/ messages[n].to # peer \/ messages[n].device # d THEN r
                 ELSE IF r.state = "cancelled" THEN revive_cancelled_receipt(r, messages[n].level)
                 ELSE IF r.state \in {"pending", "failed"} THEN build_fresh_attempt_changes(r)
                 ELSE r
<1>1. /\ owner[d] # None
      /\ UNCHANGED <<onNode, owner, messages, nextMsg, packet, told>>
  BY DEF rearm_receipts_for_refresh
<1>2. receipts' = [receipts EXCEPT ![d] = [n \in Msgs |-> new(n)]]
  BY DEF rearm_receipts_for_refresh
<1>3. ASSUME NEW n \in Msgs
      PROVE  /\ ReceiptInv(new(n), told[d][n], messages[n].level) /\ Evolves(receipts[d][n], new(n))
             /\ new(n) = receipts[d][n] \/ owner[d] = messages[n].from
  <2>1. /\ RowInv(d, n) /\ messages[n].level \in Levels
        /\ Evolves(receipts[d][n], receipts[d][n])
    BY IInvByRows, KeepReceipt
  <2>2. CASE new(n) = receipts[d][n]
    BY <2>1, <2>2 DEF RowInv
  <2>3. CASE /\ owner[d] = messages[n].from /\ receipts[d][n].state = "cancelled"
             /\ new(n) = revive_cancelled_receipt(receipts[d][n], messages[n].level)
    BY <2>1, <2>3, ReviveReceipt DEF RowInv
  <2>4. CASE /\ owner[d] = messages[n].from /\ receipts[d][n].state \in {"pending", "failed"}
             /\ new(n) = build_fresh_attempt_changes(receipts[d][n])
    BY <2>1, <2>4, RearmReceipt DEF RowInv
  <2> QED
    BY <2>2, <2>3, <2>4
<1> HIDE DEF new
<1>4. \A x \in Devices, n \in Msgs :
        receipts'[x][n] = IF x = d THEN new(n) ELSE receipts[x][n]
  BY <1>2, IInvByRows
<1>5. ASSUME NEW x \in Devices, NEW n \in Msgs
      PROVE  RowInv(x, n)' /\ Evolves(receipts[x][n], receipts'[x][n])
  <2>1. RowInv(x, n) /\ Evolves(receipts[x][n], receipts[x][n])
    BY IInvByRows, KeepReceipt
  <2>2. CASE x = d
    BY <1>1, <1>3, <1>4, <2>1, <2>2 DEF RowInv
  <2>3. CASE x # d
    BY <1>1, <1>4, <2>1, <2>3 DEF RowInv
  <2> QED
    BY <2>2, <2>3
<1>6. receipts' \in [Devices -> [Msgs -> Receipt]]
  BY <1>2, <1>3, IInvByRows DEF ReceiptInv
<1>7. ReceiptsHaveAMessage'
  BY <1>1, <1>3, <1>4 DEF IInv, ReceiptsHaveAMessage
<1>8. OtherTypes'
  <2>1. budget' \in Budget
    <3>1. budget.refreshes + 1 \in Nat
      BY IInvByRows DEF OtherTypes, Budget
    <3> QED
      BY <3>1, IInvByRows DEF OtherTypes, Budget, rearm_receipts_for_refresh
  <2> QED
    BY <1>1, <2>1, IInvByRows DEF OtherTypes
<1> QED
  BY <1>1, <1>5, <1>6, <1>7, <1>8, RequestStep

\* A relink cancels the receipts of the previous user.
LEMMA IInvSignIn ==
  ASSUME IInv, NEW d \in Devices, NEW u \in Users, register_or_sign_in(d, u)
  PROVE  IInv' /\ LevelStep
<1>1. /\ UNCHANGED <<onNode, messages, nextMsg, packet, told>>
      /\ \A x \in Devices : owner'[x] = IF x = d THEN u ELSE owner[x]
  BY IInvByRows DEF register_or_sign_in, OtherTypes
<1>2. \A x \in Devices, n \in Msgs :
        receipts'[x][n] = IF x = d /\ owner[d] # None THEN cancel_for_relink(receipts[d][n])
                          ELSE receipts[x][n]
  BY IInvByRows DEF register_or_sign_in
<1>3. ASSUME NEW x \in Devices, NEW n \in Msgs
      PROVE  /\ RowInv(x, n)' /\ Evolves(receipts[x][n], receipts'[x][n])
             /\ receipts[x][n].state = "none" => receipts'[x][n] = receipts[x][n]
  <2>1. RowInv(x, n) /\ messages[n].level \in Levels /\ Evolves(receipts[x][n], receipts[x][n])
    BY IInvByRows, KeepReceipt
  <2>2. CASE x = d /\ owner[d] # None
    <3>1. receipts'[x][n] = cancel_for_relink(receipts[x][n])
      BY <1>2, <2>2
    <3> QED
      BY <1>1, <2>1, <3>1, CancelReceipt DEF RowInv
  <2>3. CASE x = d /\ owner[d] = None
    BY <1>1, <1>2, <2>1, <2>3 DEF RowInv
  <2>4. CASE x # d
    BY <1>1, <1>2, <2>1, <2>4 DEF RowInv
  <2> QED
    BY <2>2, <2>3, <2>4
<1>4. receipts' \in [Devices -> [Msgs -> Receipt]]
  <2>1. \A n \in Msgs : cancel_for_relink(receipts[d][n]) \in Receipt
    BY IInvByRows, CancelReceipt DEF RowInv, ReceiptInv
  <2> QED
    BY <2>1, IInvByRows DEF register_or_sign_in
<1>5. ReceiptsHaveAMessage'
  <2>1. NoReceipt.state = "none"
    BY DEF NoReceipt
  <2> QED
    BY <1>1, <1>3, <2>1 DEF IInv, ReceiptsHaveAMessage
<1>6. OtherTypes'
  <2>1. budget' \in Budget
    <3>1. budget.signIns + 1 \in Nat
      BY IInvByRows DEF OtherTypes, Budget
    <3> QED
      BY <3>1, IInvByRows DEF OtherTypes, Budget, register_or_sign_in
  <2>2. owner' \in [Devices -> Users \cup {None}]
    BY IInvByRows DEF OtherTypes, register_or_sign_in
  <2> QED
    BY <1>1, <2>1, <2>2, IInvByRows DEF OtherTypes
<1> QED
  BY <1>1, <1>3, <1>4, <1>5, <1>6, RequestStep

\* A deletion takes the receipts and the packet's references with it.
LEMMA IInvDeletion ==
  ASSUME IInv, NEW devs \in SUBSET Devices, NEW msgs \in SUBSET Msgs, DeleteRows(devs, msgs)
  PROVE  IInv' /\ LevelStep
<1>1. /\ nextMsg' = nextMsg
      /\ \A x \in Devices : owner'[x] = IF x \in devs THEN None ELSE owner[x]
  BY DEF DeleteRows
<1>2. \A n \in Msgs : /\ messages'[n] \in Message
                      /\ IF n \in msgs THEN messages'[n].from = None
                         ELSE /\ messages'[n].from = messages[n].from
                              /\ messages'[n].level = messages[n].level
  <2>1. NoMessage \in Message /\ NoMessage.from = None
    BY DEF NoMessage, Message, Levels
  <2>2. \A n \in Msgs : /\ [messages[n] EXCEPT !.device = None] \in Message
                        /\ [messages[n] EXCEPT !.device = None].from = messages[n].from
                        /\ [messages[n] EXCEPT !.device = None].level = messages[n].level
    <3>1. \A row \in Message : /\ [row EXCEPT !.device = None] \in Message
                               /\ [row EXCEPT !.device = None].from = row.from
                               /\ [row EXCEPT !.device = None].level = row.level
      BY DEF Message
    <3> QED
      BY <3>1, IInvByRows DEF OtherTypes
  <2>3. \A n \in Msgs : messages[n] \in Message
    BY IInvByRows DEF OtherTypes
  <2>4. \A n \in Msgs : messages'[n] = IF n \in msgs THEN NoMessage
             ELSE IF messages[n].device \in devs THEN [messages[n] EXCEPT !.device = None]
             ELSE messages[n]
    BY DEF DeleteRows
  <2> QED
    BY <2>1, <2>2, <2>3, <2>4
<1>3. \A x \in Devices, n \in Msgs :
        IF x \in devs \/ n \in msgs THEN receipts'[x][n] = NoReceipt /\ told'[x][n] = NothingTold
        ELSE receipts'[x][n] = receipts[x][n] /\ told'[x][n] = told[x][n]
  BY DEF DeleteRows
<1>4. NoReceipt \in Receipt /\ NothingTold \in Told /\ ~IsLive(NoReceipt)
  BY DEF NoReceipt, NothingTold, IsLive, Receipt, Told, Levels
<1>5. receipts' \in [Devices -> [Msgs -> Receipt]] /\ told' \in [Devices -> [Msgs -> Told]]
  BY <1>4, IInvByRows DEF DeleteRows
<1>6. \A n \in Msgs : messages'[n].level \in Levels
  BY <1>2 DEF Message
<1>7. ASSUME NEW x \in Devices, NEW n \in Msgs PROVE RowInv(x, n)'
  <2>1. CASE x \in devs \/ n \in msgs
    <3>1. \A level \in Levels : ReceiptInv(NoReceipt, NothingTold, level)
      BY <1>4 DEF ReceiptInv, NoReceipt, NothingTold, Levels, DELIVERED_LEVEL, READ_LEVEL
    <3> QED
      BY <1>3, <1>4, <1>6, <2>1, <3>1 DEF RowInv
  <2>2. CASE ~(x \in devs \/ n \in msgs)
    BY <1>1, <1>2, <1>3, <2>2, IInvByRows DEF RowInv
  <2> QED
    BY <2>1, <2>2
<1>8. ReceiptsHaveAMessage'
  <2>1. \A n \in Msgs : messages[n].from = None => messages'[n].from = None
    BY <1>2
  <2>2. \A n \in Msgs : n >= nextMsg' => messages'[n].from = None
    BY <1>1, <2>1 DEF IInv, ReceiptsHaveAMessage
  <2>3. ASSUME NEW x \in Devices, NEW n \in Msgs, messages'[n].from = None
        PROVE  receipts'[x][n] = NoReceipt /\ told'[x][n] = NothingTold
    BY <1>2, <1>3, <2>3 DEF IInv, ReceiptsHaveAMessage
  <2> QED
    BY <2>2, <2>3 DEF ReceiptsHaveAMessage
<1>9. OtherTypes'
  <2>1. budget' \in Budget
    <3>1. budget.deletions + 1 \in Nat
      BY IInvByRows DEF OtherTypes, Budget
    <3> QED
      BY <3>1, IInvByRows DEF OtherTypes, Budget, DeleteRows
  <2>2. packet' \in Packet
    BY IInvByRows DEF OtherTypes, Packet, DeleteRows, Levels
  <2>3. messages' \in [Msgs -> Message]
    BY <1>2 DEF DeleteRows
  <2>4. owner' \in [Devices -> Users \cup {None}] /\ onNode' \subseteq Devices
    BY IInvByRows DEF OtherTypes, DeleteRows
  <2> QED
    BY <1>1, <2>1, <2>2, <2>3, <2>4, IInvByRows DEF OtherTypes
<1>10. PacketInv'
  <2>1. CASE packet.dev # None /\ (packet.dev \in devs \/ packet.msg \in msgs)
    <3>1. packet'.dev = None
      BY <2>1, IInvByRows DEF DeleteRows, OtherTypes, Packet
    <3> QED
      BY <3>1 DEF PacketInv
  <2>2. CASE ~(packet.dev # None /\ (packet.dev \in devs \/ packet.msg \in msgs))
    <3>1. packet' = packet
      BY <2>2 DEF DeleteRows
    <3> SUFFICES ASSUME packet.phase # "none", packet.dev # None PROVE PacketInv'
      BY <3>1 DEF PacketInv
    <3>2. packet.dev \in Devices /\ packet.msg \in Msgs
      BY IInvByRows DEF IInv, PacketInv, OtherTypes, Packet
    <3>3. /\ receipts'[packet.dev][packet.msg] = receipts[packet.dev][packet.msg]
          /\ told'[packet.dev][packet.msg] = told[packet.dev][packet.msg]
      BY <1>3, <2>2, <3>2
    <3> QED
      BY <3>1, <3>3 DEF IInv, PacketInv
  <2> QED
    BY <2>1, <2>2
<1>11. LevelStep
  <2>1. ASSUME NEW x \in Devices, NEW n \in Msgs
        PROVE  /\ receipts[x][n].target >= receipts[x][n].target
               /\ receipts[x][n].confirmed >= receipts[x][n].confirmed
               /\ told[x][n].level >= told[x][n].level
    <3>1. receipts[x][n] \in Receipt /\ told[x][n] \in Told
      BY IInvByRows
    <3> QED
      BY <3>1 DEF Receipt, Told, Levels, DELIVERED_LEVEL, READ_LEVEL
  <2> QED
    BY <1>3, <2>1 DEF LevelStep
<1> QED
  BY <1>5, <1>7, <1>8, <1>9, <1>10, <1>11, RowsMakeIInv

-----------------------------------------------------------------------------
(* The sender loop.                                                        *)

\* The sender changes one receipt that is still to be sent, and no level.
LEMMA OneReceiptChanges ==
  ASSUME IInv, NEW d \in Devices, NEW m \in Msgs, NEW s \in Receipt,
         receipts' = [receipts EXCEPT ![d][m] = s],
         UNCHANGED <<owner, messages, nextMsg, told>>, OtherTypes', PacketInv',
         receipts[d][m].state = "pending", ReceiptInv(s, told[d][m], messages[m].level),
         s.target = receipts[d][m].target, s.confirmed = receipts[d][m].confirmed
  PROVE  IInv' /\ LevelStep
<1>1. \A x \in Devices, n \in Msgs :
        receipts'[x][n] = IF x = d /\ n = m THEN s ELSE receipts[x][n]
  BY IInvByRows
<1>2. owner[d] # None /\ owner[d] = messages[m].from
  BY IInvByRows DEF RowInv, IsLive
<1>3. ASSUME NEW x \in Devices, NEW n \in Msgs PROVE RowInv(x, n)'
  <2>1. CASE x = d /\ n = m
    BY <1>1, <1>2, <2>1 DEF RowInv
  <2>2. CASE ~(x = d /\ n = m)
    BY <1>1, <2>2, IInvByRows DEF RowInv
  <2> QED
    BY <2>1, <2>2
<1>4. receipts' \in [Devices -> [Msgs -> Receipt]]
  BY IInvByRows
<1>5. ReceiptsHaveAMessage'
  BY <1>1, <1>2 DEF IInv, ReceiptsHaveAMessage
<1>6. LevelStep
  <2>1. ASSUME NEW x \in Devices, NEW n \in Msgs
        PROVE  /\ receipts'[x][n].target >= receipts[x][n].target
               /\ receipts'[x][n].confirmed >= receipts[x][n].confirmed
               /\ told[x][n].level >= told[x][n].level
    <3>1. receipts[x][n] \in Receipt /\ told[x][n] \in Told
      BY IInvByRows
    <3>2. /\ receipts'[x][n].target = receipts[x][n].target
          /\ receipts'[x][n].confirmed = receipts[x][n].confirmed
      BY <1>1
    <3> QED
      BY <3>1, <3>2 DEF Receipt, Told, Levels, DELIVERED_LEVEL, READ_LEVEL
  <2> QED
    BY <2>1 DEF LevelStep
<1> QED
  BY <1>3, <1>4, <1>5, <1>6, IInvByRows, RowsMakeIInv

\* A step that touches no receipt.
LEMMA NothingHappens ==
  ASSUME IInv, UNCHANGED <<owner, messages, nextMsg, receipts, told>>, OtherTypes', PacketInv'
  PROVE  IInv' /\ LevelStep
<1>1. \A d \in Devices, m \in Msgs : RowInv(d, m)'
  BY IInvByRows DEF RowInv
<1>2. ReceiptsHaveAMessage'
  BY DEF IInv, ReceiptsHaveAMessage
<1>3. LevelStep
  <2>1. ASSUME NEW x \in Devices, NEW n \in Msgs
        PROVE  /\ receipts[x][n].target >= receipts[x][n].target
               /\ receipts[x][n].confirmed >= receipts[x][n].confirmed
               /\ told[x][n].level >= told[x][n].level
    <3>1. receipts[x][n] \in Receipt /\ told[x][n] \in Told
      BY IInvByRows
    <3> QED
      BY <3>1 DEF Receipt, Told, Levels, DELIVERED_LEVEL, READ_LEVEL
  <2> QED
    BY <2>1 DEF LevelStep
<1> QED
  BY <1>1, <1>2, <1>3, IInvByRows, RowsMakeIInv

\* A receipt whose attempts are spent fails; no packet is in hand.
LEMMA IInvGiveUp ==
  ASSUME IInv, NEW d \in Devices, NEW m \in Msgs, GiveUpReceipt(d, m)
  PROVE  IInv' /\ LevelStep
<1> DEFINE r == receipts[d][m]
           s == fail_receipt_after_exhausted_attempts(r)
<1>1. /\ packet.phase = "none" /\ r.state = "pending" /\ ~r.round
      /\ UNCHANGED <<onNode, owner, messages, nextMsg, packet, told, budget>>
  BY DEF GiveUpReceipt, IsDueCandidate
<1>2. receipts' = [receipts EXCEPT ![d][m] = s]
  BY DEF GiveUpReceipt
<1>3. RowInv(d, m) /\ r \in Receipt
  BY IInvByRows
<1>4. s \in Receipt /\ s.state = "failed" /\ s.target = r.target /\ s.confirmed = r.confirmed
      /\ s.attempt = r.attempt /\ s.arm = r.arm /\ s.round = r.round
  BY <1>3 DEF fail_receipt_after_exhausted_attempts, Receipt
<1> HIDE DEF s
<1>5. ReceiptInv(s, told[d][m], messages[m].level)
  BY <1>1, <1>3, <1>4 DEF RowInv, ReceiptInv
<1>6. OtherTypes' /\ PacketInv'
  BY <1>1, IInvByRows DEF OtherTypes, PacketInv
<1> QED
  BY <1>1, <1>2, <1>4, <1>5, <1>6, OneReceiptChanges

\* A packet prepared tells of the receipt's level, in an attempt that counts.
LEMMA IInvPrepare ==
  ASSUME IInv, NEW d \in Devices, NEW m \in Msgs, prepare_receipt_packet(d, m)
  PROVE  IInv' /\ LevelStep
<1> DEFINE r == receipts[d][m]
           s == IF r.round THEN r ELSE start_receipt_attempt(r)
           p == [phase |-> "prepared", dev |-> d, msg |-> m, level |-> s.target,
                 arm |-> s.arm, attempt |-> s.attempt]
<1>1. /\ r.state = "pending" /\ UNCHANGED <<onNode, owner, messages, nextMsg, told, budget>>
  BY DEF prepare_receipt_packet, IsDueCandidate
<1>2. receipts' = [receipts EXCEPT ![d][m] = s] /\ packet' = p
  BY DEF prepare_receipt_packet
<1>3. RowInv(d, m) /\ r \in Receipt /\ told[d][m] \in Told
  BY IInvByRows
<1>4. s \in Receipt /\ s.state = "pending" /\ s.target = r.target /\ s.confirmed = r.confirmed
      /\ s.attempt > 0 /\ s.round
  <2>1. CASE r.round
    BY <1>1, <1>3, <2>1 DEF RowInv, ReceiptInv
  <2>2. CASE ~r.round
    <3>1. r.attempt + 1 \in Nat /\ r.attempt + 1 > 0
      BY <1>3 DEF Receipt
    <3> QED
      BY <1>1, <1>3, <2>2, <3>1 DEF start_receipt_attempt, Receipt
  <2> QED
    BY <2>1, <2>2
<1> HIDE DEF s
<1>5. ReceiptInv(s, told[d][m], messages[m].level)
  BY <1>1, <1>3, <1>4 DEF RowInv, ReceiptInv
<1>6. packet' \in Packet
  BY <1>2, <1>4 DEF Packet, Receipt
<1>7. OtherTypes'
  BY <1>1, <1>6, IInvByRows DEF OtherTypes
<1>8. PacketInv'
  <2>1. receipts'[d][m] = s /\ told'[d][m] = told[d][m]
    BY <1>1, <1>2, IInvByRows
  <2>2. told[d][m].level <= s.target /\ s.target <= s.target /\ s.target # 0
    BY <1>1, <1>3, <1>4 DEF RowInv, ReceiptInv, Receipt, Levels, DELIVERED_LEVEL, READ_LEVEL
  <2>3. /\ packet'.phase = "prepared" /\ packet'.dev = d /\ packet'.msg = m
        /\ packet'.level = s.target /\ packet'.arm = s.arm /\ packet'.attempt = s.attempt
    BY <1>2
  <2> QED
    BY <1>4, <2>1, <2>2, <2>3 DEF PacketInv
<1> QED
  BY <1>1, <1>2, <1>4, <1>5, <1>7, <1>8, OneReceiptChanges

\* The node takes the packet, or refuses it.
LEMMA IInvSend ==
  ASSUME IInv, NEW answer \in NodeAnswer, SendToNode(answer)
  PROVE  IInv' /\ LevelStep
<1> DEFINE d == packet.dev
           m == packet.msg
           t == [level |-> packet.level, arm |-> packet.arm, attempt |-> packet.attempt]
<1>1. /\ packet.phase = "prepared" /\ UNCHANGED <<onNode, owner, messages, nextMsg, receipts>>
      /\ packet.level \in Levels /\ packet.arm \in Nat /\ packet.attempt \in Nat
  BY IInvByRows DEF SendToNode, OtherTypes, Packet
<1>2. OtherTypes' /\ packet'.phase = answer /\ UNCHANGED <<packet.dev, packet.msg, packet.level, packet.arm, packet.attempt>>
  <2>1. budget' \in Budget
    <3>1. budget \in Budget /\ budget.failures + 1 \in Nat
      BY IInvByRows DEF OtherTypes, Budget
    <3> QED
      BY <3>1 DEF Budget, SendToNode
  <2>2. /\ packet' \in Packet /\ packet'.phase = answer
        /\ UNCHANGED <<packet.dev, packet.msg, packet.level, packet.arm, packet.attempt>>
    BY IInvByRows DEF OtherTypes, Packet, SendToNode
  <2> QED
    BY <1>1, <2>1, <2>2, IInvByRows DEF OtherTypes
<1>3. CASE d = None \/ answer # "taken"
  <2>1. UNCHANGED told
    BY <1>3 DEF SendToNode
  <2>2. PacketInv'
    BY <1>1, <1>2, <1>3, <2>1 DEF IInv, PacketInv
  <2> QED
    BY <1>1, <1>2, <2>1, <2>2, NothingHappens
<1>4. CASE d # None /\ answer = "taken"
  <2>1. /\ d \in Devices /\ m \in Msgs /\ told' = [told EXCEPT ![d][m] = t] /\ t \in Told
        /\ packet.attempt > 0
    BY <1>1, <1>4, IInvByRows DEF IInv, PacketInv, OtherTypes, Packet, SendToNode, Told
  <2>2. \A x \in Devices, n \in Msgs : told'[x][n] = IF x = d /\ n = m THEN t ELSE told[x][n]
    BY <2>1, IInvByRows
  <2> DEFINE r == receipts[d][m]
  <2>3. RowInv(d, m) /\ r \in Receipt /\ told[d][m].level \in Levels
    BY <2>1, IInvByRows DEF Told
  <2>4. /\ told[d][m].level <= packet.level /\ packet.level <= r.target
        /\ r.attempt > 0 =>
             /\ r.arm = packet.arm /\ r.attempt = packet.attempt /\ r.round
             /\ r.state \in {"pending", "failed"} => r.target = packet.level
    BY <1>1, <1>4 DEF IInv, PacketInv
  <2>5. ReceiptInv(r, t, messages[m].level)
    BY <2>1, <2>3, <2>4 DEF RowInv, ReceiptInv
  <2>6. ASSUME NEW x \in Devices, NEW n \in Msgs PROVE RowInv(x, n)'
    <3>1. CASE x = d /\ n = m
      BY <1>1, <2>2, <2>3, <2>5, <3>1 DEF RowInv
    <3>2. CASE ~(x = d /\ n = m)
      BY <1>1, <2>2, <3>2, IInvByRows DEF RowInv
    <3> QED
      BY <3>1, <3>2
  <2>7. PacketInv'
    <3>1. told'[d][m] = t /\ t.level = packet.level /\ packet.level # 0
      BY <1>1, <1>4, <2>1, <2>2 DEF IInv, PacketInv
    <3>2. packet.level <= packet.level
      BY <1>1 DEF Levels, DELIVERED_LEVEL, READ_LEVEL
    <3> QED
      BY <1>1, <1>2, <1>4, <2>1, <2>4, <3>1, <3>2 DEF PacketInv
  <2>8. ReceiptsHaveAMessage'
    <3>1. messages[m].from # None
      <4>1. packet.level # 0
        BY <1>1, <1>4 DEF IInv, PacketInv
      <4>2. r.target # 0
        BY <1>1, <2>3, <2>4, <4>1 DEF Receipt, Levels, DELIVERED_LEVEL, READ_LEVEL
      <4> QED
        BY <2>1, <4>2 DEF IInv, ReceiptsHaveAMessage, NoReceipt
    <3> QED
      BY <1>1, <2>2, <3>1 DEF IInv, ReceiptsHaveAMessage
  <2>9. LevelStep
    <3>1. ASSUME NEW x \in Devices, NEW n \in Msgs
          PROVE  /\ receipts[x][n].target >= receipts[x][n].target
                 /\ receipts[x][n].confirmed >= receipts[x][n].confirmed
                 /\ told'[x][n].level >= told[x][n].level
      <4>1. receipts[x][n] \in Receipt /\ told[x][n] \in Told
        BY IInvByRows
      <4>2. told'[x][n] = IF x = d /\ n = m THEN t ELSE told[x][n]
        BY <2>2
      <4>3. told'[x][n].level >= told[x][n].level
        BY <1>1, <2>4, <4>1, <4>2 DEF Told, Levels, DELIVERED_LEVEL, READ_LEVEL
      <4> QED
        BY <4>1, <4>3 DEF Receipt, Told, Levels, DELIVERED_LEVEL, READ_LEVEL
    <3> QED
      BY <1>1, <3>1 DEF LevelStep
  <2>10. told' \in [Devices -> [Msgs -> Told]]
    BY <2>1, IInvByRows
  <2> QED
    BY <1>1, <1>2, <2>6, <2>7, <2>8, <2>9, <2>10, IInvByRows, RowsMakeIInv
<1> QED
  BY <1>3, <1>4

\* The answer is recorded: an attempt is over when its packet was taken.
LEMMA IInvRecord ==
  ASSUME IInv, record_send_outcome
  PROVE  IInv' /\ LevelStep
<1>1. packet'.phase = "none" /\ UNCHANGED <<owner, messages, nextMsg, told, budget>>
  BY DEF record_send_outcome, NoPacket
<1>2. OtherTypes' /\ PacketInv'
  <2>1. packet' \in Packet
    BY DEF record_send_outcome, NoPacket, Packet, Levels
  <2> QED
    BY <1>1, <2>1, IInvByRows DEF OtherTypes, PacketInv, record_send_outcome
<1>3. CASE counts_as_sent(packet.phase) /\ IsCurrentPacket
  <2> DEFINE d == packet.dev
             m == packet.msg
             r == receipts[d][m]
             s == record_receipt_packet_sent(r)
  <2>1. packet.phase = "taken" /\ d # None
    BY <1>3 DEF record_send_outcome, counts_as_sent, NodeAnswer, IsCurrentPacket
  <2>2. d \in Devices /\ m \in Msgs /\ packet.attempt > 0
    BY <2>1, IInvByRows DEF IInv, PacketInv, OtherTypes, Packet
  <2>3. RowInv(d, m) /\ r \in Receipt
    BY <2>2, IInvByRows
  <2>4. r.state = "pending" /\ r.arm = packet.arm /\ r.attempt = packet.attempt /\ r.round
    BY <1>3 DEF IsCurrentPacket
  <2>5. told[d][m] = [level |-> r.target, arm |-> r.arm, attempt |-> r.attempt]
    <3>1. r.attempt > 0
      BY <2>2, <2>4
    <3> QED
      BY <2>1, <2>4, <3>1 DEF IInv, PacketInv
  <2>6. /\ s \in Receipt /\ s.state = "pending" /\ s.target = r.target /\ s.confirmed = r.confirmed
        /\ s.attempt = r.attempt /\ s.arm = r.arm /\ s.round = FALSE
    BY <2>3, <2>4 DEF record_receipt_packet_sent, Receipt
  <2>7. receipts' = [receipts EXCEPT ![d][m] = s]
    BY <1>3 DEF record_send_outcome
  <2> HIDE DEF s
  <2>8. ReceiptInv(s, told[d][m], messages[m].level)
    BY <2>3, <2>4, <2>5, <2>6 DEF RowInv, ReceiptInv
  <2> QED
    BY <1>1, <1>2, <2>2, <2>4, <2>6, <2>7, <2>8, OneReceiptChanges
<1>4. CASE ~(counts_as_sent(packet.phase) /\ IsCurrentPacket)
  <2>1. UNCHANGED receipts
    BY <1>4 DEF record_send_outcome
  <2> QED
    BY <1>1, <1>2, <2>1, NothingHappens
<1> QED
  BY <1>3, <1>4

-----------------------------------------------------------------------------
(* Initial states, steps, theorems.                                        *)

LEMMA IInvInit == Init => IInv
<1> SUFFICES ASSUME Init PROVE IInv
  OBVIOUS
<1>1. /\ NoReceipt \in Receipt /\ NothingTold \in Told /\ NoMessage \in Message
      /\ NoPacket \in Packet
  BY DEF NoReceipt, Receipt, NothingTold, Told, NoMessage, Message, NoPacket, Packet, Levels
<1>2. TypeOK
  BY <1>1, ReceiptConstants DEF Init, TypeOK, Budget
<1>3. \A d \in Devices, m \in Msgs : receipts[d][m] = NoReceipt /\ told[d][m] = NothingTold
  BY DEF Init
<1>4. \A m \in Msgs : messages[m] = NoMessage
  BY DEF Init
<1>5. ReceiptsHaveAMessage /\ LevelInv
  BY <1>3, <1>4 DEF ReceiptsHaveAMessage, LevelInv, NoMessage, NoReceipt, NothingTold
<1>6. PacketInv
  BY DEF Init, NoPacket, PacketInv
<1>7. /\ ConfirmedMatchesLevels /\ ReceiptsNameTheCurrentLevel /\ LiveReceiptsBelongToTheSender
      /\ FinishedAttemptsWereSent
  BY <1>3 DEF NoReceipt, ConfirmedMatchesLevels, ReceiptsNameTheCurrentLevel,
              LiveReceiptsBelongToTheSender, FinishedAttemptsWereSent
<1> QED
  BY <1>2, <1>5, <1>6, <1>7 DEF IInv

LEMMA IInvStep == IInv /\ [Next]_vars => IInv' /\ LevelStep
<1> SUFFICES ASSUME IInv, [Next]_vars PROVE IInv' /\ LevelStep
  OBVIOUS
<1> DEFINE Goal == IInv' /\ LevelStep
<1>1. CASE UNCHANGED vars
  <2>1. OtherTypes' /\ PacketInv'
    BY <1>1, IInvByRows DEF vars, OtherTypes, IInv, PacketInv
  <2> QED
    BY <1>1, <2>1, NothingHappens DEF vars
<1>2. ASSUME NEW d \in Devices, mark_contact_on_node(d) PROVE Goal
  <2>1. OtherTypes' /\ PacketInv'
    BY <1>2, IInvByRows DEF mark_contact_on_node, OtherTypes, IInv, PacketInv
  <2> QED
    BY <1>2, <2>1, NothingHappens DEF mark_contact_on_node
<1>3. CASE recover_outbound_packets_at_startup
  <2>1. packet' \in Packet /\ packet'.phase = "none"
    BY <1>3 DEF recover_outbound_packets_at_startup, NoPacket, Packet, Levels
  <2>2. budget' \in Budget
    <3>1. budget \in Budget /\ budget.failures + 1 \in Nat
      BY IInvByRows DEF OtherTypes, Budget
    <3> QED
      BY <1>3, <3>1 DEF Budget, recover_outbound_packets_at_startup
  <2>3. OtherTypes' /\ PacketInv'
    BY <1>3, <2>1, <2>2, IInvByRows
    DEF recover_outbound_packets_at_startup, OtherTypes, PacketInv
  <2> QED
    BY <1>3, <2>3, NothingHappens DEF recover_outbound_packets_at_startup
<1>4. ASSUME NEW d \in Devices, delete_contact(d) PROVE Goal
  BY <1>4, IInvDeletion DEF delete_contact
<1>5. ASSUME NEW u \in Users, delete_user(u) PROVE Goal
  BY <1>5, IInvDeletion DEF delete_user
<1>6. CASE Next
  BY <1>2, <1>3, <1>4, <1>5, <1>6, IInvAccept, IInvConfirmMessage, IInvAcknowledge, IInvRearm,
     IInvSignIn, IInvGiveUp, IInvPrepare, IInvSend, IInvRecord
  DEF Next
<1> QED
  BY <1>1, <1>6

LEMMA IInvAlways == Spec => []IInv
  BY IInvInit, IInvStep, PTL DEF Spec

\* Every receipt row is one the database accepts, its type and its check
\* constraint: no order of reads, confirmations, relinks, revivals, deletions and
\* packet outcomes makes the state contradict the levels, which would fail the
\* request that wrote the row.
THEOREM ReceiptRowsStayValid == Spec => []RowsAreValid
<1>1. IInv => RowsAreValid
  BY DEF IInv, RowsAreValid
<1> QED
  BY <1>1, IInvAlways, PTL

\* What a device is or may be told is the message's level now, after any sequence
\* of raises, relinks and revivals.
THEOREM ReceiptsStayCurrent == Spec => []ReceiptsNameTheCurrentLevel
<1>1. IInv => ReceiptsNameTheCurrentLevel
  BY DEF IInv
<1> QED
  BY <1>1, IInvAlways, PTL

\* No device of another user is ever told about a message, whoever signs in where.
THEOREM LiveReceiptsStayWithTheSender == Spec => []LiveReceiptsBelongToTheSender
<1>1. IInv => LiveReceiptsBelongToTheSender
  BY DEF IInv
<1> QED
  BY <1>1, IInvAlways, PTL

\* An attempt counts as made only when the node took a packet of this attempt with
\* the level the receipt is about, although reads, refreshes, relinks, crashes and
\* refusals may come between preparing the packet and recording its outcome.
THEOREM AttemptsCountOnlyWhenSent == Spec => []FinishedAttemptsWereSent
<1>1. IInv => FinishedAttemptsWereSent
  BY DEF IInv
<1> QED
  BY <1>1, IInvAlways, PTL

\* Target, confirmed level and what the device has been told never fall while the
\* receipt exists, even when a packet prepared earlier goes out after a raise.
THEOREM NoLevelFalls == Spec => LevelsNeverFall
<1>1. IInv /\ [Next]_vars => [LevelStep]_vars
  BY IInvStep
<1> QED
  BY <1>1, IInvAlways, PTL DEF Spec, LevelsNeverFall, LevelStep

=============================================================================
