------------------------------ MODULE MCPage1 ------------------------------
(* Two tabs: at most MaxCalls calls, MaxLoads loads of a tab   *)
(* and MaxFaults crashes of the server.                                     *)
EXTENDS Page1, TLC

CONSTANTS MaxCalls, MaxLoads, MaxFaults, alice, hello, empty, absent, t1, t2

VARIABLES calls, faults

mcVars == <<vars, calls, faults>>

MCUsers    == {alice}
MCTabs     == {t1, t2}
MCUserOf   == (t1 :> alice) @@ (t2 :> alice)
MCMessages == {hello, empty}
MCArgs     == MCMessages \cup {absent} \cup 0..MaxUInt

MCMethods  == {GetMessages, CreateMessage, RemoveMessage}
MCRequests == [method : MCMethods, user : MCUsers, arg : MCArgs]

\* One message is on the board.
MCInit ==
    /\ PageInit
    /\ Cardinality(table) = 1
    /\ nextId = 2
    /\ calls = 0
    /\ faults = 0

\* No call is being served.
Quiet == (\A w \in Workers : st[w] = "idle") /\ UNCHANGED mcVars

MCNext ==
    \/ /\ calls < MaxCalls
       /\ \E t \in Tabs, w \in Workers : Clicks(t, w)
       /\ calls' = calls + 1
       /\ UNCHANGED faults
    \/ /\ \E w \in Workers : Execute(w) \/ Answers(w)
       /\ UNCHANGED <<calls, faults>>
    \/ /\ \E t \in Tabs : load[t] < MaxLoads /\ Reopen(t)
       /\ UNCHANGED <<calls, faults>>
    \/ /\ faults < MaxFaults
       /\ ServerCrash
       /\ faults' = faults + 1
       /\ UNCHANGED calls
    \/ Quiet

MCSpec == MCInit /\ [][MCNext]_mcVars

Symmetry == Permutations(Workers) \cup Permutations({t1, t2})
=============================================================================
