---------------------------- MODULE Completions ----------------------------
(***************************************************************************)
(* What the plugins of bootstrap.js rely on when they write                *)
(*     $(element).one(Util.TRANSITION_END, complete).emulateTransitionEnd  *)
(* for one element: callbacks wait, and at the end of a transition all     *)
(* that wait run together, once each.  The models of the plugins take      *)
(* their steps from this contract.                                         *)
(***************************************************************************)
CONSTANT Callbacks

VARIABLES
    waiting,   \* the callbacks that have not run
    ran        \* the callbacks that have run

Init == waiting = {} /\ ran = {}

Register(c) ==
    /\ c \notin waiting \cup ran
    /\ waiting' = waiting \cup {c}
    /\ UNCHANGED ran

\* The end of a transition, whoever reports it.
End ==
    /\ waiting # {}
    /\ ran' = ran \cup waiting
    /\ waiting' = {}

Next == End \/ \E c \in Callbacks : Register(c)

Spec == Init /\ [][Next]_<<waiting, ran>>

\* A callback that waits runs in the end.
FairSpec == Spec /\ WF_<<waiting, ran>>(End)
=============================================================================
