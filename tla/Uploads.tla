------------------------------- MODULE Uploads -------------------------------
(***************************************************************************)
(* Receiving a message part by part (messaging/incoming_messages.py).      *)
(* Clients send the parts of the messages they composed in any order and   *)
(* as often as they like; parts are lost, repeated and overtake each       *)
(* other; two devices of a user may have chosen the same id by mistake;    *)
(* uploads expire, devices change hands, contacts and users are deleted.   *)
(*                                                                         *)
(* Every action is one transaction.  An incomplete upload may expire at    *)
(* any time: the 24 hours since its last part are not modelled.            *)
(***************************************************************************)
EXTENDS Integers, Sequences

CONSTANTS
  Users, Devices, None,
  Drafts,        \* composed messages: device, id, recipient and the texts of the parts
  Texts,         \* texts of parts
  MaxSignIns,    \* bound: sign-ins that change a device's user
  MaxExpiries,   \* bound: uploads that expire
  MaxDeletions   \* bound: contacts and users deleted

Ids == {x.id : x \in Drafts}
ContentOf(x) == [to |-> x.to, texts |-> x.texts]

\* A device gives every message it composes an id of its own.
ASSUME DraftsAssumption ==
  /\ None \notin Users /\ None \notin Devices /\ None \notin Texts
  /\ \A x \in Drafts : /\ x.device \in Devices /\ x.to \in Users
                       /\ x.texts \in Seq(Texts) /\ Len(x.texts) > 0
  /\ \A x, y \in Drafts : x.device = y.device /\ x.id = y.id => x = y
  /\ MaxSignIns \in Nat /\ MaxExpiries \in Nat /\ MaxDeletions \in Nat

VARIABLES
  owner,     \* contact.user
  live,      \* user rows
  messages,  \* messages[sender][id]
  budget     \* how often each bounded step has been taken

vars == <<owner, live, messages, budget>>
-----------------------------------------------------------------------------
\* part_texts, with None for a part that is not held; the row's accepted_at is
\* set exactly in the transaction that stores the last part, so it is a flag.
NoMessage == [to |-> None, device |-> None, texts |-> <<>>, accepted |-> FALSE]

Row == [to : Users \cup {None}, device : Devices \cup {None}, texts : Seq(Texts \cup {None}),
        accepted : BOOLEAN]

Exists(row) == row.to # None
Holds(row, n) == row.texts[n] # None

\* Uploads have the shapes the messages table allows, and sender and recipient of
\* every row exist and differ, whoever is deleted (messaging/models.py).
TypeOK ==
  /\ owner \in [Devices -> Users \cup {None}]
  /\ live \subseteq Users
  /\ messages \in [Users -> [Ids -> Row]]
  /\ \A u \in Users, i \in Ids :
       Exists(messages[u][i]) => {u, messages[u][i].to} \subseteq live /\ messages[u][i].to # u
  /\ budget \in [signIns : Nat, expiries : Nat, deletions : Nat]

Init ==
  /\ owner = [d \in Devices |-> None]
  /\ live = {}
  /\ messages = [u \in Users |-> [i \in Ids |-> NoMessage]]
  /\ budget = [signIns |-> 0, expiries |-> 0, deletions |-> 0]
-----------------------------------------------------------------------------
(* One part (the M request).                                               *)

lock_or_create_message(u, x) ==
  IF Exists(messages[u][x.id]) THEN messages[u][x.id]
  ELSE [to |-> x.to, device |-> x.device, texts |-> [n \in 1 .. Len(x.texts) |-> None],
        accepted |-> FALSE]

\* Mutant: another device of the user may add parts.
find_conflict_of_texts(row, x, n) ==
  \/ row.to # x.to
  \/ Len(row.texts) # Len(x.texts)
  \/ Holds(row, n) /\ row.texts[n] # x.texts[n]
find_part_conflict(row, x, n) ==
  \/ row.to # x.to
  \/ Len(row.texts) # Len(x.texts)
  \/ Holds(row, n) /\ row.texts[n] # x.texts[n]
  \/ ~row.accepted /\ ~Holds(row, n) /\ row.device # x.device

store_part(row, x, n) == [row EXCEPT !.texts[n] = x.texts[n]]

\* Mutant: all but one part make a message.
accept_message_early(row) ==
  [row EXCEPT !.accepted = \A n \in 1 .. Len(row.texts) - 1 : Holds(row, n)]
accept_message(row) == [row EXCEPT !.accepted = \A n \in 1 .. Len(row.texts) : Holds(row, n)]

\* Part n of draft x arrives from its device.  A request that is answered with
\* an error changes nothing.
accept_message_part(x, n) ==
  LET u   == owner[x.device]
      row == lock_or_create_message(u, x)
  IN  /\ u # None /\ x.to \in live /\ x.to # u
      /\ ~find_part_conflict(row, x, n)
      /\ messages' = [messages EXCEPT ![u][x.id] = accept_message(store_part(row, x, n))]
      /\ UNCHANGED <<owner, live, budget>>

\* A message that was created by a part which then conflicts cannot be: a new row
\* conflicts with nothing, so conflicts leave no empty upload behind.
delete_expired_incomplete_message(u, i) ==
  /\ Exists(messages[u][i]) /\ ~messages[u][i].accepted
  /\ budget.expiries < MaxExpiries
  /\ messages' = [messages EXCEPT ![u][i] = NoMessage]
  /\ budget' = [budget EXCEPT !.expiries = @ + 1]
  /\ UNCHANGED <<owner, live>>

register_or_sign_in(d, u) ==
  /\ owner[d] # u
  /\ budget.signIns < MaxSignIns
  /\ owner' = [owner EXCEPT ![d] = u]
  /\ live' = live \cup {u}
  /\ budget' = [budget EXCEPT !.signIns = @ + 1]
  /\ UNCHANGED messages

\* The messages a device sent lose their sender_device with its contact.
WithoutDevices(row, devs) == IF row.device \in devs THEN [row EXCEPT !.device = None] ELSE row

delete_contact(d) ==
  /\ budget.deletions < MaxDeletions
  /\ owner' = [owner EXCEPT ![d] = None]
  /\ messages' = [u \in Users |-> [i \in Ids |-> WithoutDevices(messages[u][i], {d})]]
  /\ budget' = [budget EXCEPT !.deletions = @ + 1]
  /\ UNCHANGED live

\* Mutant: the messages sent to the user stay.
delete_user_and_what_it_sent(u) ==
  LET devs == {d \in Devices : owner[d] = u}
  IN  /\ u \in live
      /\ budget.deletions < MaxDeletions
      /\ live' = live \ {u}
      /\ owner' = [d \in Devices |-> IF d \in devs THEN None ELSE owner[d]]
      /\ messages' = [s \in Users |-> [i \in Ids |->
           IF u = s THEN NoMessage ELSE WithoutDevices(messages[s][i], devs)]]
      /\ budget' = [budget EXCEPT !.deletions = @ + 1]
delete_user(u) ==
  LET devs == {d \in Devices : owner[d] = u}
  IN  /\ u \in live
      /\ budget.deletions < MaxDeletions
      /\ live' = live \ {u}
      /\ owner' = [d \in Devices |-> IF d \in devs THEN None ELSE owner[d]]
      /\ messages' = [s \in Users |-> [i \in Ids |->
           IF u \in {s, messages[s][i].to} THEN NoMessage
                                           ELSE WithoutDevices(messages[s][i], devs)]]
      /\ budget' = [budget EXCEPT !.deletions = @ + 1]

Next ==
  \/ \E x \in Drafts : \E n \in 1 .. Len(x.texts) : accept_message_part(x, n)
  \/ \E u \in Users, i \in Ids : delete_expired_incomplete_message(u, i)
  \/ \E d \in Devices, u \in Users : register_or_sign_in(d, u)
  \/ \E d \in Devices : delete_contact(d)
  \/ \E u \in Users : delete_user(u)

Spec == Init /\ [][Next]_vars
-----------------------------------------------------------------------------
(* Properties.                                                             *)

\* What the row holds of its parts is what message x has there, and as long as the
\* row knows its device, x is this device's own.
ComesFrom(row, i, x) ==
  /\ x.id = i /\ x.to = row.to /\ Len(x.texts) = Len(row.texts)
  /\ \A n \in 1 .. Len(row.texts) : Holds(row, n) => row.texts[n] = x.texts[n]
  /\ row.device # None => row.device = x.device

\* Two messages that share an id by mistake are never spliced: whatever parts of
\* an upload are held all come from one message some device composed.
NeverSpliced ==
  \A u \in Users, i \in Ids :
    Exists(messages[u][i]) => \E x \in Drafts : ComesFrom(messages[u][i], i, x)

\* An upload is a row the database accepts and comes from one message
\* (incoming_messages.py).
UploadsAreOneMessage == TypeOK /\ NeverSpliced

\* The relay's book of accepted messages.
NoContent == [to |-> None, texts |-> <<>>]
Composed(i, c) == \E x \in Drafts : x.id = i /\ ContentOf(x) = c
Held == [u \in Users |-> [i \in Ids |->
           IF messages[u][i].accepted
           THEN [to |-> messages[u][i].to, texts |-> messages[u][i].texts] ELSE NoContent]]

Book == INSTANCE Acceptance WITH Contents <- {ContentOf(x) : x \in Drafts}, held <- Held

\* Receiving parts one by one implements accepting whole messages.
ImplementsAcceptance == Book!AcceptanceSpec
-----------------------------------------------------------------------------
\* What the inductive invariant needs besides: a message is accepted when, and only
\* when, all its parts are held, and an upload that is gone leaves nothing behind.
AcceptedWhenWhole ==
  \A u \in Users, i \in Ids :
    LET row == messages[u][i]
    IN  IF Exists(row) THEN row.accepted = \A n \in 1 .. Len(row.texts) : Holds(row, n)
                       ELSE row = NoMessage

\* Devices are signed in as users that exist.
SignedInUsersExist == \A d \in Devices : owner[d] # None => owner[d] \in live

IInv == UploadsAreOneMessage /\ AcceptedWhenWhole /\ SignedInUsersExist
=============================================================================
