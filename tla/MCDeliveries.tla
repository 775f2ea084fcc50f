---------------------------- MODULE MCDeliveries ----------------------------
(* Model-checking instances of Deliveries.                                 *)
EXTENDS Deliveries

(* The runs start where every device is on the node and signed in, each    *)
(* user on a device of its own: a state Spec reaches, from which the       *)
(* bounds are spent on what the runs are about.                            *)

SignedInInit ==
  /\ contacts = Devices /\ onNode = Devices /\ live = Users
  /\ owner = CHOOSE f \in [Devices -> Users] : \A u \in Users : \E d \in Devices : f[d] = u
  /\ conv = [m \in Msgs |-> NoConv]
  /\ nextMsg = 1
  /\ delivered = {}
  /\ box = [d \in Devices |-> [m \in Msgs |-> NoRow]]
  /\ sess = [d \in Devices |-> [u \in Users |-> NoSession]]
  /\ packet = NoPacket
  /\ covered = [d \in Devices |-> [m \in Msgs |-> {}]]
  /\ budget = [refreshes |-> 0, signIns |-> 0, deletions |-> 0, nodeLosses |-> 0,
               crashes |-> 0]

SignedInSpec == SignedInInit /\ [][Next]_vars
FairSignedInSpec == SignedInSpec /\ Fairness

\* Bounds on the requests and faults of one behaviour, of all kinds together.
Events == budget.refreshes + budget.signIns + budget.deletions + budget.nodeLosses + budget.crashes
ThreeEvents == Events' <= 3
=============================================================================
