----------------------------- MODULE MCStartup -----------------------------
(* Startup with at most MaxFaults faults.                                    *)
EXTENDS Startup

CONSTANT MaxFaults

VARIABLE faults

mcVars == <<startVars, faults>>

MCElements == {"css", "js"}
MCOffered  == <<"css", "bad", "js">>

MCInit == StartInit /\ faults = 0

\* The program is up.
Up == at = "ready" /\ login = "connected" /\ UNCHANGED mcVars

MCNext ==
    \/ (Progress \/ loginConnects) /\ UNCHANGED faults
    \/ faults < MaxFaults /\ Fault /\ faults' = faults + 1
    \/ Up

MCSpec == MCInit /\ [][MCNext]_mcVars

MCFairSpec == MCSpec /\ StartFairness
=============================================================================
