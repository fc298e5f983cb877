------------------------------- MODULE MCWeb -------------------------------
(* WebServer over DB on a small instance: at most MaxCalls browser requests, *)
(* MaxFaults crashes and connection losses, MaxChanges changes of grants.    *)
EXTENDS WebServer, TLC

CONSTANTS MaxCalls, MaxFaults, MaxChanges, hello, empty, absent, alice, bob,
          agent

VARIABLES calls, faults, changes

mcVars == <<webVars, calls, faults, changes>>

MCUsers    == {alice, bob}
MCMessages == {hello, empty}
MCArgs     == {hello, absent} \cup 0..MaxUInt
MCTargets  == {LocalTarget, agent}

Http(rpc, user, target, method, arg) ==
    [rpc |-> rpc, user |-> user, target |-> target, method |-> method, arg |-> arg]

\* Each local method through the RPC meant for it and through the other one,
\* and a call of an agent.
MCHttpCalls ==
    {Http("control", alice, LocalTarget, CreateMessage, hello),
     Http("stats", bob, LocalTarget, CreateMessage, hello),
     Http("control", bob, LocalTarget, RemoveMessage, 1),
     Http("stats", bob, LocalTarget, GetMessages, absent),
     Http("control", alice, LocalTarget, GetMessages, absent),
     Http("stats", alice, LocalTarget, GetAdd1, MaxUInt),
     Http("stats", alice, LocalTarget, Method("stats", "other"), absent),
     Http("control", alice, agent, Method("control", "other"), absent)}

MCRequests == {LocalRequest(h) : h \in MCHttpCalls}

MCInit == WebInit /\ calls = 0 /\ faults = 0 /\ changes = 0

\* Nothing is being served.
Quiet == (\A w \in Workers : phase[w] = "free") /\ UNCHANGED mcVars

MCNext ==
    \/ /\ (start \/ RestoreLink) /\ UNCHANGED <<httpVars, grants>>
       /\ UNCHANGED <<calls, faults, changes>>
    \/ /\ \E w \in Workers : Serve(w) \/ remoteReturn(w)
       /\ UNCHANGED <<calls, faults, changes>>
    \/ /\ WebCrash \/ (DropLink /\ UNCHANGED <<httpVars, grants>>)
       /\ faults < MaxFaults
       /\ faults' = faults + 1
       /\ UNCHANGED <<calls, changes>>
    \/ /\ ChangeGrants
       /\ changes < MaxChanges
       /\ changes' = changes + 1
       /\ UNCHANGED <<calls, faults>>
    \/ /\ calls < MaxCalls
       /\ \E w \in Workers, h \in HttpCalls : Receive(w, h)
       /\ calls' = calls + 1
       /\ UNCHANGED <<faults, changes>>
    \/ Quiet

\* Alice starts with both attributes, Bob with "stats" alone.
MCGrants == {<<alice, "stats">>, <<alice, "control">>, <<bob, "stats">>}

MCSpec == (MCInit /\ grants = MCGrants) /\ [][MCNext]_mcVars

\* Termination is asked of every behaviour, of one whose threads are all stuck too.
MCFairSpec ==
    /\ MCInit /\ grants = MCGrants
    /\ [][MCNext \/ UNCHANGED mcVars]_mcVars
    /\ WebFairness
=============================================================================
