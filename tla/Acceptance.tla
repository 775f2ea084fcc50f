------------------------------ MODULE Acceptance ------------------------------
(***************************************************************************)
(* What the relay promises about sending a message: whatever happens to    *)
(* its parts on the way, the relay comes to hold a message its author      *)
(* composed, whole, addressed as composed, once; and from then on it keeps *)
(* it until one of the two users is deleted.                               *)
(***************************************************************************)
CONSTANTS
  Users,
  Ids,       \* client message ids
  Contents,  \* what a client may compose for an id: recipient and parts
  Composed(_, _),  \* Composed(id, content): some device composed it under the id
  NoContent  \* not in Contents

VARIABLE held  \* held[user][id]: the message the relay accepted from the user

AcceptanceInit == held = [u \in Users |-> [i \in Ids |-> NoContent]]

Accept(u, i, c) ==
  /\ held[u][i] = NoContent
  /\ Composed(i, c)
  /\ held' = [held EXCEPT ![u][i] = c]

\* The user goes, and every message it sent or received.
ForgetUser(u) ==
  held' = [s \in Users |-> [i \in Ids |->
    IF s = u \/ (held[s][i] # NoContent /\ held[s][i].to = u) THEN NoContent ELSE held[s][i]]]

AcceptanceNext ==
  \/ \E u \in Users, i \in Ids, c \in Contents : Accept(u, i, c)
  \/ \E u \in Users : ForgetUser(u)

AcceptanceSpec == AcceptanceInit /\ [][AcceptanceNext]_held
=============================================================================
