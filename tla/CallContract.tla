---------------------------- MODULE CallContract ----------------------------
(***************************************************************************)
(* What the client promises its application: a call that was handed to the *)
(* runtime is finished at most once, with one outcome, and the outcome     *)
(* never changes afterwards.                                               *)
(***************************************************************************)
CONSTANTS Calls, Outcomes
VARIABLE phase      \* call -> "idle", "pending" or its outcome

Init == phase = [c \in Calls |-> "idle"]

Start(c) == phase[c] = "idle" /\ phase' = [phase EXCEPT ![c] = "pending"]

Finish(c) ==
  /\ phase[c] = "pending"
  /\ \E o \in Outcomes : phase' = [phase EXCEPT ![c] = o]

Next == \E c \in Calls : Start(c) \/ Finish(c)

Spec == Init /\ [][Next]_phase
=============================================================================
