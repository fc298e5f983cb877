-------------------------------- MODULE MCDB --------------------------------
(* DB on a small instance: at most MaxCalls calls and MaxFaults crashes and  *)
(* connection losses.                                                        *)
EXTENDS DB, TLC

CONSTANTS MaxCalls, MaxFaults, hello, empty, absent, alice, bob

VARIABLES calls, faults

mcVars == <<vars, calls, faults>>

MCUsers    == {alice, bob}
MCMessages == {hello, empty}
MCArgs     == {hello, absent} \cup (-1)..(MaxUInt + 1)

\* Every method, with a payload that has its field and one that has not.
MCRequests ==
    [method : {CreateMessage}, user : {alice}, arg : {hello, absent}]
    \cup [method : {CreateMessage}, user : {bob}, arg : {hello}]
    \cup [method : {RemoveMessage}, user : {bob}, arg : {absent, 1, 2}]
    \cup [method : {GetMessages}, user : {bob}, arg : {absent}]
    \cup [method : {GetAdd1}, user : {bob}, arg : {MaxUInt, MaxUInt + 1}]
    \cup [method : {Method("control", "getMessages")}, user : {bob}, arg : {absent}]

MCAdd1Requests == [method : {GetAdd1}, user : {bob}, arg : MCArgs]

MCInit == Init /\ calls = 0 /\ faults = 0

\* Nothing is being served: the program waits for requests that no longer come.
\* With this step a deadlock is a state where a thread is stuck in its call.
Quiet == (\A w \in Workers : pc[w] = "idle") /\ UNCHANGED mcVars

MCNext ==
    \/ /\ start \/ RestoreLink \/ \E w \in Workers : Work(w)
       /\ UNCHANGED <<calls, faults>>
    \/ /\ Crash \/ DropLink
       /\ faults < MaxFaults
       /\ faults' = faults + 1
       /\ UNCHANGED calls
    \/ /\ calls < MaxCalls
       /\ \E w \in Workers, r \in Requests : runLocalRPCMethod(w, r)
       /\ calls' = calls + 1
       /\ UNCHANGED faults
    \/ Quiet

MCSpec == MCInit /\ [][MCNext]_mcVars

\* Termination is asked of every behaviour, of one whose threads are all stuck too.
MCFairSpec == MCInit /\ [][MCNext \/ UNCHANGED mcVars]_mcVars /\ Fairness

MCSymmetry == Permutations(Workers)
=============================================================================
