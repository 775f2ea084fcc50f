----------------------------- MODULE UploadsProofs -----------------------------
(* Machine-checked proofs about Uploads, for every value of its constants:   *)
(* uploads are never spliced, and receiving parts implements accepting whole *)
(* messages.                                                                 *)
EXTENDS Uploads, SequenceTheorems, TLAPS

\* What IInv says of the upload user u has under id i.
RowInv(row, i) ==
  /\ row \in Row
  /\ Exists(row) => \E x \in Drafts : ComesFrom(row, i, x)
  /\ IF Exists(row) THEN row.accepted = \A n \in 1 .. Len(row.texts) : Holds(row, n)
                    ELSE row = NoMessage

LEMMA IInvByRows ==
  ASSUME IInv
  PROVE  \A u \in Users, i \in Ids : RowInv(messages[u][i], i)
  BY DEF IInv, UploadsAreOneMessage, TypeOK, NeverSpliced, AcceptedWhenWhole, RowInv

\* Nothing is composed, and nothing held, that is not.
LEMMA NoMessageIsARow ==
  /\ NoMessage \in Row /\ ~Exists(NoMessage) /\ ~NoMessage.accepted
  /\ \A i : RowInv(NoMessage, i)
<1>1. << >> \in Seq(Texts \cup {None})
  BY EmptySeq
<1> QED
  BY <1>1 DEF NoMessage, Row, Exists, RowInv

\* A new row of nothing but missing parts.
LEMMA EmptyTexts ==
  ASSUME NEW k \in Nat
  PROVE  LET texts == [n \in 1 .. k |-> None]
         IN  texts \in Seq(Texts \cup {None}) /\ Len(texts) = k
<1> DEFINE texts == [n \in 1 .. k |-> None]
<1>1. texts \in [1 .. k -> Texts \cup {None}]
  OBVIOUS
<1> HIDE DEF texts
<1>2. texts \in Seq(Texts \cup {None})
  BY <1>1, SeqDef
<1>3. DOMAIN texts = 1 .. k /\ DOMAIN texts = 1 .. Len(texts) /\ Len(texts) \in Nat
  BY <1>1, <1>2, LenProperties
<1>4. Len(texts) = k
  BY <1>3
<1> QED
  BY <1>2, <1>4 DEF texts

\* The row a part goes to is one of the message's: it comes from the message of
\* the device that began it.
LEMMA PartFindsItsRow ==
  ASSUME IInv, NEW x \in Drafts, NEW n \in 1 .. Len(x.texts), NEW u \in Users,
         ~find_part_conflict(lock_or_create_message(u, x), x, n)
  PROVE  LET row == lock_or_create_message(u, x)
         IN  /\ row \in Row /\ row.to = x.to /\ Len(row.texts) = Len(x.texts)
             /\ row.accepted => \A k \in 1 .. Len(row.texts) : Holds(row, k)
             /\ \E y \in Drafts : ComesFrom(row, x.id, y)
<1> DEFINE row == lock_or_create_message(u, x)
<1>1. x.device \in Devices /\ x.to \in Users /\ x.texts \in Seq(Texts) /\ x.id \in Ids
  BY DraftsAssumption DEF Ids
<1>2. CASE Exists(messages[u][x.id])
  <2>1. row = messages[u][x.id]
    BY <1>2 DEF lock_or_create_message
  <2> HIDE DEF row
  <2>2. row.to = x.to /\ Len(row.texts) = Len(x.texts)
    BY DEF find_part_conflict, row
  <2>3. RowInv(row, x.id) /\ Exists(row)
    BY <1>1, <1>2, <2>1, IInvByRows
  <2> QED
    BY <2>2, <2>3 DEF RowInv, row
<1>3. CASE ~Exists(messages[u][x.id])
  <2> DEFINE texts == [k \in 1 .. Len(x.texts) |-> None]
  <2>1. row = [to |-> x.to, device |-> x.device, texts |-> texts, accepted |-> FALSE]
    BY <1>3 DEF lock_or_create_message
  <2>2. Len(x.texts) \in Nat
    BY <1>1, LenProperties
  <2>3. texts \in Seq(Texts \cup {None}) /\ Len(texts) = Len(x.texts)
    BY <2>2, EmptyTexts
  <2>4. \A k \in 1 .. Len(x.texts) : texts[k] = None
    OBVIOUS
  <2> HIDE DEF texts, row
  <2>5. row \in Row /\ row.to = x.to /\ Len(row.texts) = Len(x.texts) /\ ~row.accepted
    BY <1>1, <2>1, <2>3 DEF Row
  <2>6. ComesFrom(row, x.id, x)
    BY <2>1, <2>3, <2>4 DEF ComesFrom, Holds
  <2> QED
    BY <2>5, <2>6 DEF row
<1> QED
  BY <1>2, <1>3

\* Storing a part that does not conflict leaves a row of one message.
LEMMA StoredPart ==
  ASSUME IInv, NEW x \in Drafts, NEW n \in 1 .. Len(x.texts), NEW u \in Users,
         ~find_part_conflict(lock_or_create_message(u, x), x, n)
  PROVE  LET old == lock_or_create_message(u, x)
             new == accept_message(store_part(old, x, n))
         IN  /\ RowInv(new, x.id) /\ new.to = x.to
             /\ old.accepted => new = old
<1> DEFINE old == lock_or_create_message(u, x)
           mid == store_part(old, x, n)
           new == accept_message(mid)
           texts == [old.texts EXCEPT ![n] = x.texts[n]]
<1>1. x.device \in Devices /\ x.to \in Users /\ x.texts \in Seq(Texts)
  BY DraftsAssumption
<1>2. /\ old \in Row /\ old.to = x.to /\ Len(old.texts) = Len(x.texts)
      /\ old.accepted => \A k \in 1 .. Len(old.texts) : Holds(old, k)
  BY PartFindsItsRow
<1>3. PICK y \in Drafts : ComesFrom(old, x.id, y)
  BY PartFindsItsRow
<1>4. /\ Holds(old, n) => old.texts[n] = x.texts[n]
      /\ Holds(old, n) \/ old.accepted \/ old.device = x.device
  BY DEF find_part_conflict
<1> HIDE DEF old
<1>5. old.texts \in Seq(Texts \cup {None}) /\ n \in 1 .. Len(old.texts) /\ x.texts[n] \in Texts
  BY <1>1, <1>2, ElementOfSeq DEF Row
<1>6. /\ texts \in Seq(Texts \cup {None}) /\ Len(texts) = Len(old.texts)
      /\ \A k \in 1 .. Len(old.texts) : texts[k] = IF k = n THEN x.texts[n] ELSE old.texts[k]
  BY <1>5, ExceptSeq
<1> HIDE DEF texts
<1>7. mid.texts = texts /\ mid = [old EXCEPT !.texts = texts]
  BY <1>2 DEF store_part, texts, Row
<1>8. /\ new \in Row /\ new.to = old.to /\ new.device = old.device /\ new.texts = texts
      /\ new.accepted = \A k \in 1 .. Len(new.texts) : Holds(new, k)
  <2>1. mid \in Row /\ mid.to = old.to /\ mid.device = old.device /\ mid.texts = texts
    BY <1>2, <1>6, <1>7 DEF Row
  <2> HIDE DEF mid
  <2>2. (\A k \in 1 .. Len(mid.texts) : Holds(mid, k)) \in BOOLEAN
    OBVIOUS
  <2> QED
    BY <2>1, <2>2 DEF accept_message, Row, Holds
<1> HIDE DEF new, mid
<1>9. \E z \in Drafts : ComesFrom(new, x.id, z)
  <2>1. CASE Holds(old, n)
    <3>1. ComesFrom(new, x.id, y)
      BY <1>2, <1>3, <1>4, <1>5, <1>6, <1>8, <2>1 DEF ComesFrom, Holds
    <3> QED
      BY <3>1
  <2>2. CASE ~Holds(old, n)
    <3>1. old.device = x.device /\ old.device # None
      BY <1>1, <1>2, <1>4, <1>5, <2>2, DraftsAssumption
    <3>2. y.device = x.device /\ y.id = x.id
      BY <1>3, <3>1 DEF ComesFrom
    <3>3. y = x
      BY <3>2, DraftsAssumption
    <3>4. ComesFrom(new, x.id, x)
      BY <1>2, <1>3, <1>5, <1>6, <1>8, <3>3 DEF ComesFrom, Holds
    <3> QED
      BY <3>4
  <2> QED
    BY <2>1, <2>2
<1>10. Exists(new)
  BY <1>1, <1>2, <1>8, DraftsAssumption DEF Exists
<1>11. RowInv(new, x.id) /\ new.to = x.to
  BY <1>2, <1>8, <1>9, <1>10 DEF RowInv
<1>12. ASSUME old.accepted PROVE new = old
  <2>1. \A k \in 1 .. Len(old.texts) : texts[k] = old.texts[k] /\ Holds(old, k)
    BY <1>2, <1>4, <1>5, <1>6, <1>12
  <2>2. texts = old.texts
    BY <1>5, <1>6, <2>1, SeqEqual
  <2>3. new.accepted = old.accepted
    BY <1>8, <1>12, <2>1, <2>2 DEF Holds
  <2> QED
    BY <1>2, <1>8, <2>2, <2>3 DEF Row
<1> QED
  BY <1>11, <1>12 DEF new, mid, old

-----------------------------------------------------------------------------
(* The inductive invariant.                                                *)

OtherTypes ==
  /\ owner \in [Devices -> Users \cup {None}] /\ live \subseteq Users
  /\ budget \in [signIns : Nat, expiries : Nat, deletions : Nat]

\* Sender and recipient of the row exist and differ.
Addressed(row, u, users) == Exists(row) => {u, row.to} \subseteq users /\ row.to # u

LEMMA RowsMakeIInv ==
  ASSUME OtherTypes', SignedInUsersExist', (messages \in [Users -> [Ids -> Row]])',
         \A u \in Users, i \in Ids : RowInv(messages'[u][i], i) /\ Addressed(messages'[u][i], u, live')
  PROVE  IInv'
  BY DEF OtherTypes, RowInv, Addressed, IInv, UploadsAreOneMessage, TypeOK, NeverSpliced, AcceptedWhenWhole

LEMMA IInvTypes ==
  ASSUME IInv
  PROVE  /\ OtherTypes /\ messages \in [Users -> [Ids -> Row]]
         /\ \A u \in Users, i \in Ids : Addressed(messages[u][i], u, live)
  BY DEF OtherTypes, Addressed, IInv, UploadsAreOneMessage, TypeOK

\* What a row looks like from outside.
HeldOf(row) == IF row.accepted THEN [to |-> row.to, texts |-> row.texts] ELSE NoContent

LEMMA HeldByRows ==
  /\ \A u \in Users, i \in Ids : Held[u][i] = HeldOf(messages[u][i])
  /\ \A u \in Users, i \in Ids : Held'[u][i] = HeldOf(messages'[u][i])
  BY DEF Held, HeldOf

\* The book does not change when no row looks different from outside.
LEMMA SameBook ==
  ASSUME \A u \in Users, i \in Ids : HeldOf(messages'[u][i]) = HeldOf(messages[u][i])
  PROVE  UNCHANGED Held
  BY DEF Held, HeldOf

\* A part either completes a message, or changes nothing that counts.
LEMMA PartStep ==
  ASSUME IInv, NEW x \in Drafts, NEW n \in 1 .. Len(x.texts), accept_message_part(x, n)
  PROVE  IInv' /\ (Book!AcceptanceNext \/ UNCHANGED Held)
<1> DEFINE v   == owner[x.device]
           old == lock_or_create_message(v, x)
           new == accept_message(store_part(old, x, n))
<1>1. /\ v \in Users /\ v \in live /\ x.id \in Ids /\ x.to \in live /\ x.to # v
      /\ UNCHANGED <<owner, live, budget>>
  BY DraftsAssumption, IInvTypes DEF accept_message_part, OtherTypes, Ids, IInv, SignedInUsersExist
<1>2. messages' = [messages EXCEPT ![v][x.id] = new]
  BY DEF accept_message_part
<1>3. RowInv(new, x.id) /\ new.to = x.to /\ (old.accepted => new = old)
  BY <1>1, StoredPart DEF accept_message_part
<1> HIDE DEF v, old, new
<1>4. \A u \in Users, i \in Ids :
        messages'[u][i] = IF u = v /\ i = x.id THEN new ELSE messages[u][i]
  BY <1>1, <1>2, IInvTypes
<1>5. messages' \in [Users -> [Ids -> Row]]
  BY <1>1, <1>2, <1>3, IInvTypes DEF RowInv
<1>6. \A u \in Users, i \in Ids : RowInv(messages'[u][i], i) /\ Addressed(messages'[u][i], u, live')
  BY <1>1, <1>3, <1>4, IInvByRows, IInvTypes DEF Addressed
<1>7. IInv'
  BY <1>1, <1>5, <1>6, IInvTypes, RowsMakeIInv DEF OtherTypes, IInv, SignedInUsersExist
<1>8. CASE ~new.accepted \/ messages[v][x.id].accepted
  <2>1. HeldOf(new) = HeldOf(messages[v][x.id])
    <3>1. CASE messages[v][x.id].accepted
      <4>1. Exists(messages[v][x.id])
        BY <1>1, <3>1, IInvByRows, NoMessageIsARow DEF RowInv
      <4>2. old = messages[v][x.id]
        BY <4>1 DEF old, lock_or_create_message
      <4> QED
        BY <1>3, <3>1, <4>2
    <3>2. CASE ~new.accepted /\ ~messages[v][x.id].accepted
      BY <3>2 DEF HeldOf
    <3> QED
      BY <1>8, <3>1, <3>2
  <2> QED
    BY <1>4, <1>7, <2>1, SameBook
<1>9. CASE new.accepted /\ ~messages[v][x.id].accepted
  <2> DEFINE c == [to |-> new.to, texts |-> new.texts]
  <2>1. PICK z \in Drafts : ComesFrom(new, x.id, z)
    BY <1>3, <1>9, NoMessageIsARow DEF RowInv
  <2>2. z.texts \in Seq(Texts \cup {None}) /\ new.texts \in Seq(Texts \cup {None})
    <3>1. z.texts \in Seq(Texts) /\ Texts \subseteq Texts \cup {None}
      BY DraftsAssumption
    <3> QED
      BY <1>3, <3>1, SeqMonotonic DEF RowInv, Row
  <2>3. \A k \in 1 .. Len(new.texts) : new.texts[k] = z.texts[k]
    BY <1>3, <1>9, <2>1, NoMessageIsARow DEF RowInv, ComesFrom
  <2>4. new.texts = z.texts /\ new.to = z.to /\ z.id = x.id
    BY <2>1, <2>2, <2>3, SeqEqual DEF ComesFrom
  <2>5. c = ContentOf(z) /\ Composed(x.id, c)
    BY <2>4 DEF ContentOf, Composed
  <2>6. Held[v][x.id] = NoContent
    BY <1>1, <1>9, HeldByRows DEF HeldOf
  <2>7. Held' = [Held EXCEPT ![v][x.id] = c]
    <3>1. \A u \in Users, i \in Ids :
            Held'[u][i] = IF u = v /\ i = x.id THEN c ELSE Held[u][i]
      <4> TAKE u \in Users, i \in Ids
      <4>1. Held'[u][i] = HeldOf(messages'[u][i]) /\ Held[u][i] = HeldOf(messages[u][i])
        BY HeldByRows
      <4>2. HeldOf(new) = c
        BY <1>9 DEF HeldOf
      <4> QED
        BY <1>4, <4>1, <4>2
    <3>2. Held' = [u \in Users |-> [i \in Ids |-> Held'[u][i]]]
      BY DEF Held
    <3>3. Held = [u \in Users |-> [i \in Ids |-> Held[u][i]]]
      BY DEF Held
    <3> QED
      BY <1>1, <3>1, <3>2, <3>3
  <2>8. Book!Accept(v, x.id, c)
    BY <2>5, <2>6, <2>7 DEF Book!Accept
  <2> QED
    BY <1>1, <1>7, <2>5, <2>8 DEF Book!AcceptanceNext
<1> QED
  BY <1>8, <1>9

\* An upload that expires was not accepted.
LEMMA ExpiryStep ==
  ASSUME IInv, NEW u \in Users, NEW i \in Ids, delete_expired_incomplete_message(u, i)
  PROVE  IInv' /\ UNCHANGED Held
<1>1. /\ ~messages[u][i].accepted /\ UNCHANGED <<owner, live>>
      /\ messages' = [messages EXCEPT ![u][i] = NoMessage]
  BY DEF delete_expired_incomplete_message
<1>2. \A s \in Users, k \in Ids :
        messages'[s][k] = IF s = u /\ k = i THEN NoMessage ELSE messages[s][k]
  BY <1>1, IInvTypes
<1>3. messages' \in [Users -> [Ids -> Row]]
  BY <1>1, IInvTypes, NoMessageIsARow
<1>4. budget' \in [signIns : Nat, expiries : Nat, deletions : Nat]
  <2>1. budget.expiries + 1 \in Nat
    BY IInvTypes DEF OtherTypes
  <2> QED
    BY <2>1, IInvTypes DEF OtherTypes, delete_expired_incomplete_message
<1>5. \A s \in Users, k \in Ids : RowInv(messages'[s][k], k) /\ Addressed(messages'[s][k], s, live')
  BY <1>1, <1>2, IInvByRows, IInvTypes, NoMessageIsARow DEF Addressed
<1>6. IInv'
  BY <1>1, <1>3, <1>4, <1>5, IInvTypes, RowsMakeIInv DEF OtherTypes, IInv, SignedInUsersExist
<1>7. UNCHANGED Held
  BY <1>1, <1>2, NoMessageIsARow, SameBook DEF HeldOf
<1> QED
  BY <1>6, <1>7

LEMMA SignInStep ==
  ASSUME IInv, NEW d \in Devices, NEW u \in Users, register_or_sign_in(d, u)
  PROVE  IInv' /\ UNCHANGED Held
<1>1. UNCHANGED messages /\ live' = live \cup {u} /\ owner' = [owner EXCEPT ![d] = u]
  BY DEF register_or_sign_in
<1>2. OtherTypes' /\ SignedInUsersExist'
  <2>1. budget.signIns + 1 \in Nat
    BY IInvTypes DEF OtherTypes
  <2> QED
    BY <1>1, <2>1, IInvTypes DEF OtherTypes, register_or_sign_in, IInv, SignedInUsersExist
<1>3. IInv'
  BY <1>1, <1>2, IInvByRows, IInvTypes, RowsMakeIInv DEF Addressed
<1> QED
  BY <1>1, <1>3, SameBook

\* Forgetting a device changes nothing a message holds.
LEMMA RowWithoutDevices ==
  ASSUME NEW row, NEW i, RowInv(row, i), NEW devs
  PROVE  LET new == WithoutDevices(row, devs)
         IN  /\ RowInv(new, i) /\ new.to = row.to /\ HeldOf(new) = HeldOf(row)
<1> DEFINE new == WithoutDevices(row, devs)
<1>1. row \in Row
  BY DEF RowInv
<1>2. /\ new \in Row /\ new.to = row.to /\ new.texts = row.texts /\ new.accepted = row.accepted
      /\ new.device \in {row.device, None}
  BY <1>1 DEF WithoutDevices, Row
<1>3. ~Exists(row) => new = NoMessage
  <2>1. [NoMessage EXCEPT !.device = None] = NoMessage
    <3>1. NoMessage \in Row /\ NoMessage.device = None
      BY NoMessageIsARow DEF NoMessage
    <3> QED
      BY <3>1 DEF Row
  <2> QED
    BY <2>1 DEF RowInv, WithoutDevices
<1> HIDE DEF new
<1>4. \A x \in Drafts : ComesFrom(row, i, x) => ComesFrom(new, i, x)
  BY <1>2 DEF ComesFrom, Holds
<1>5. RowInv(new, i)
  BY <1>2, <1>3, <1>4 DEF RowInv, Exists, Holds
<1> QED
  BY <1>2, <1>5 DEF HeldOf, new

LEMMA DeleteContactStep ==
  ASSUME IInv, NEW d \in Devices, delete_contact(d)
  PROVE  IInv' /\ UNCHANGED Held
<1>1. \A s \in Users, k \in Ids : messages'[s][k] = WithoutDevices(messages[s][k], {d})
  BY DEF delete_contact
<1>2. \A s \in Users, k \in Ids :
        /\ RowInv(messages'[s][k], k) /\ Addressed(messages'[s][k], s, live)
        /\ HeldOf(messages'[s][k]) = HeldOf(messages[s][k])
  BY <1>1, IInvByRows, IInvTypes, RowWithoutDevices DEF Addressed, Exists
<1>3. messages' \in [Users -> [Ids -> Row]]
  BY <1>1, <1>2 DEF delete_contact, RowInv
<1>4. UNCHANGED live /\ owner' = [owner EXCEPT ![d] = None]
  BY DEF delete_contact
<1>5. OtherTypes' /\ SignedInUsersExist'
  <2>1. budget.deletions + 1 \in Nat
    BY IInvTypes DEF OtherTypes
  <2> QED
    BY <1>4, <2>1, IInvTypes DEF OtherTypes, delete_contact, IInv, SignedInUsersExist
<1>6. IInv'
  BY <1>2, <1>3, <1>4, <1>5, RowsMakeIInv
<1> QED
  BY <1>2, <1>6, SameBook

\* A user goes with every message it sent or received.
LEMMA DeleteUserStep ==
  ASSUME IInv, NEW u \in Users, delete_user(u)
  PROVE  IInv' /\ Book!AcceptanceNext
<1> DEFINE devs == {d \in Devices : owner[d] = u}
<1>1. /\ live' = live \ {u} /\ owner' = [d \in Devices |-> IF d \in devs THEN None ELSE owner[d]]
  BY DEF delete_user
<1>2. \A s \in Users, k \in Ids :
        messages'[s][k] = IF u \in {s, messages[s][k].to} THEN NoMessage
                          ELSE WithoutDevices(messages[s][k], devs)
  BY DEF delete_user
<1> HIDE DEF devs
<1>3. \A s \in Users, k \in Ids :
        LET new == WithoutDevices(messages[s][k], devs)
        IN  /\ RowInv(new, k) /\ new.to = messages[s][k].to /\ HeldOf(new) = HeldOf(messages[s][k])
            /\ Addressed(messages[s][k], s, live)
  BY IInvByRows, IInvTypes, RowWithoutDevices
<1>4. \A s \in Users, k \in Ids : RowInv(messages'[s][k], k) /\ Addressed(messages'[s][k], s, live')
  BY <1>1, <1>2, <1>3, NoMessageIsARow DEF Addressed, Exists
<1>5. messages' \in [Users -> [Ids -> Row]]
  BY <1>2, <1>4 DEF delete_user, RowInv
<1>6. OtherTypes' /\ SignedInUsersExist'
  <2>1. budget.deletions + 1 \in Nat
    BY IInvTypes DEF OtherTypes
  <2> QED
    BY <1>1, <2>1, IInvTypes DEF OtherTypes, delete_user, IInv, SignedInUsersExist
<1>7. IInv'
  BY <1>4, <1>5, <1>6, RowsMakeIInv
<1>8. ASSUME NEW s \in Users, NEW k \in Ids
      PROVE  Held'[s][k] = IF s = u \/ (Held[s][k] # NoContent /\ Held[s][k].to = u) THEN NoContent
                           ELSE Held[s][k]
  <2> DEFINE row == messages[s][k]
  <2>1. Held[s][k] = HeldOf(row) /\ Held'[s][k] = HeldOf(messages'[s][k]) /\ RowInv(row, k)
    BY HeldByRows, IInvByRows
  <2>2. HeldOf(NoMessage) = NoContent
    BY NoMessageIsARow DEF HeldOf
  <2>3. CASE ~row.accepted
    <3>1. HeldOf(row) = NoContent
      BY <2>3 DEF HeldOf
    <3>2. HeldOf(messages'[s][k]) = NoContent
      BY <1>2, <1>3, <2>2, <3>1
    <3> QED
      BY <2>1, <3>1, <3>2
  <2>4. CASE row.accepted
    <3>1. Exists(row) /\ HeldOf(row) = [to |-> row.to, texts |-> row.texts]
      BY <2>1, <2>4, NoMessageIsARow DEF RowInv, HeldOf
    <3>2. HeldOf(row) # NoContent /\ HeldOf(row).to = row.to
      BY <3>1 DEF NoContent, Exists
    <3>3. HeldOf(messages'[s][k]) = IF u \in {s, row.to} THEN NoContent ELSE HeldOf(row)
      BY <1>2, <1>3, <2>1, <2>2
    <3> QED
      BY <2>1, <3>2, <3>3
  <2> QED
    BY <2>3, <2>4
<1>9. Book!ForgetUser(u)
  <2>1. Held' = [s \in Users |-> [k \in Ids |-> Held'[s][k]]]
    BY DEF Held
  <2> QED
    BY <1>8, <2>1 DEF Book!ForgetUser
<1> QED
  BY <1>7, <1>9 DEF Book!AcceptanceNext

-----------------------------------------------------------------------------
(* Theorems.                                                               *)

LEMMA IInvInit == Init => IInv /\ Book!AcceptanceInit
<1> SUFFICES ASSUME Init PROVE IInv /\ Book!AcceptanceInit
  OBVIOUS
<1>1. /\ messages = [u \in Users |-> [i \in Ids |-> NoMessage]] /\ owner = [d \in Devices |-> None]
      /\ live = {} /\ budget = [signIns |-> 0, expiries |-> 0, deletions |-> 0]
  BY DEF Init
<1>2. TypeOK
  BY <1>1, NoMessageIsARow DEF TypeOK
<1>3. NeverSpliced /\ AcceptedWhenWhole /\ SignedInUsersExist
  BY <1>1, NoMessageIsARow DEF NeverSpliced, AcceptedWhenWhole, SignedInUsersExist
<1>4. Held = [u \in Users |-> [i \in Ids |-> NoContent]]
  BY <1>1, NoMessageIsARow DEF Held
<1> QED
  BY <1>2, <1>3, <1>4 DEF IInv, UploadsAreOneMessage, Book!AcceptanceInit

LEMMA IInvStep == IInv /\ [Next]_vars => IInv' /\ [Book!AcceptanceNext]_Held
<1> SUFFICES ASSUME IInv, [Next]_vars PROVE IInv' /\ (Book!AcceptanceNext \/ UNCHANGED Held)
  OBVIOUS
<1>1. CASE UNCHANGED vars
  <2>1. OtherTypes' /\ SignedInUsersExist'
    BY <1>1, IInvTypes DEF vars, OtherTypes, IInv, SignedInUsersExist
  <2>2. IInv'
    BY <1>1, <2>1, IInvTypes, IInvByRows, RowsMakeIInv DEF vars
  <2> QED
    BY <1>1, <2>2, SameBook DEF vars
<1>2. CASE Next
  BY <1>2, PartStep, ExpiryStep, SignInStep, DeleteContactStep, DeleteUserStep DEF Next
<1> QED
  BY <1>1, <1>2

LEMMA IInvAlways == Spec => []IInv
  BY IInvInit, IInvStep, PTL DEF Spec

\* Whatever parts arrive, repeat, conflict or expire, and whoever signs in or is
\* deleted between them, an upload holds parts of one composed message only, and
\* its sender and recipient exist.
THEOREM UploadsStayOneMessage == Spec => []UploadsAreOneMessage
<1>1. IInv => UploadsAreOneMessage
  BY DEF IInv
<1> QED
  BY <1>1, IInvAlways, PTL

\* Receiving messages part by part implements accepting whole messages: every step
\* accepts one composed message, forgets a user's, or cannot be seen.
THEOREM PartsImplementAcceptance == Spec => ImplementsAcceptance
  BY IInvInit, IInvStep, PTL DEF Spec, ImplementsAcceptance, Book!AcceptanceSpec
=============================================================================
