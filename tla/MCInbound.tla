------------------------------ MODULE MCInbound ------------------------------
(* A contact that signs in, sends a request and an acknowledgement, and    *)
(* another one that sends a request.                                       *)
EXTENDS Inbound, TLC

CONSTANTS s, t

OneSender == {s}
TwoSenders == {s, t}
SignIn == [from |-> s, kind |-> "signIn"]
Request == [from |-> s, kind |-> "request"]
Acknowledgement == [from |-> s, kind |-> "unanswered"]
RequestOfAnother == [from |-> t, kind |-> "request"]
FramesOfTwo == {SignIn, Request, RequestOfAnother}
SignInAndAcknowledgement == {SignIn, Acknowledgement}

\* Workers are interchangeable.
Symmetry == Permutations(Workers)
=============================================================================
