------------------------------ MODULE HostRpc ------------------------------
(***************************************************************************)
(* What mock-backend/host_bridge.c promises its callers: a host_transmit   *)
(* is a remote call.  Calls are served in the order they were made, each   *)
(* is answered once, and the answers come back in that order.              *)
(***************************************************************************)
EXTENDS Sequences, Functions

CONSTANT Caller

VARIABLES
  asked,     \* callers the host has not served yet, in the order of their calls
  answered   \* callers served whose call has not returned, in that order

vars == <<asked, answered>>

Init ==
  /\ asked = <<>>
  /\ answered = <<>>

(* A caller asks when no call of its own is under way.                     *)
Ask(c) ==
  /\ c \notin Range(asked) \cup Range(answered)
  /\ asked' = Append(asked, c)
  /\ UNCHANGED answered

Serve ==
  /\ asked # <<>>
  /\ asked' = Tail(asked)
  /\ answered' = Append(answered, Head(asked))

Return(c) ==
  /\ answered # <<>> /\ c = Head(answered)
  /\ answered' = Tail(answered)
  /\ UNCHANGED asked

Next == Serve \/ \E c \in Caller : Ask(c) \/ Return(c)

Spec == Init /\ [][Next]_vars

=============================================================================
