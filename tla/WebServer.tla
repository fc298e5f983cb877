----------------------------- MODULE WebServer -----------------------------
(***************************************************************************)
(* WebServerImpl: the two RPC methods the web server offers to browsers,   *)
(* remote.stats and remote.control, each behind an attribute the session's *)
(* user must hold, and rmtCaller, which hands a call either to class DB or *)
(* to a remote agent.  Each thread of the pool serves one browser request  *)
(* at a time, so a worker of this module is a worker of DB.                *)
(*                                                                         *)
(* MethodsManager (the attribute check), the authentication server (who    *)
(* holds which attribute, which may change at any time) and FastRPC (a     *)
(* remote call ends with the agent's answer, with an error, or never) are  *)
(* external.                                                               *)
(***************************************************************************)
EXTENDS DB

CONSTANTS
    Targets,    \* names a request may give as its target, "DB" included
    HttpCalls   \* the requests browsers make

VARIABLES
    phase,      \* per worker: where its browser request is
    call,       \* per worker: the browser request it serves
    allowed,    \* per worker: what its user was allowed when it was admitted
    answer,     \* per worker: what the browser will be sent
    grants      \* the authentication server's pairs <<user, attribute>>

httpVars == <<phase, call, allowed, answer>>
webVars  == <<vars, httpVars, grants>>

Attributes == {"stats", "control"}

\* remote.stats and remote.control are told apart by the attribute each needs;
\* rmtCaller's first argument is that attribute's name and a dot.
HttpCall == [rpc : Attributes, user : Users, target : Targets,
             method : MethodNames, arg : Args]
NoCall   == [method |-> Method("none", "none")]

LocalTarget == "DB"

\* The call of DB::runLocalRPCMethod that a browser request asks for.
LocalRequest(h) == [method |-> h.method, user |-> h.user, arg |-> h.arg]

ASSUME WebAssumption ==
    /\ HttpCalls \subseteq HttpCall
    /\ \A h \in HttpCalls : h.target = LocalTarget => LocalRequest(h) \in Requests

\* Where the JSON sent to the browser comes from, and its value if from DB.
Answers == [from : {"none", "refused", "mismatch", "local", "remote", "failed"},
            value : Reply]

NoAnswer == [from |-> "none", value |-> NoReply]

Phases == {"free", "rmtCaller", "local", "remote", "answered"}

WebTypeOK ==
    /\ TypeOK
    /\ phase \in [Workers -> Phases]
    /\ call \in [Workers -> HttpCalls \cup {NoCall}]
    /\ allowed \in [Workers -> SUBSET Attributes]
    /\ answer \in [Workers -> Answers]
    /\ grants \in SUBSET (Users \X Attributes)

WebInit ==
    /\ Init
    /\ phase = [w \in Workers |-> "free"]
    /\ call = [w \in Workers |-> NoCall]
    /\ allowed = [w \in Workers |-> {}]
    /\ answer = [w \in Workers |-> NoAnswer]
    /\ grants \in SUBSET (Users \X Attributes)

-----------------------------------------------------------------------------

\* w's request is answered, with the JSON value v coming from f.
Answered(w, f, v) ==
    /\ phase' = [phase EXCEPT ![w] = "answered"]
    /\ answer' = [answer EXCEPT ![w] = [from |-> f, value |-> v]]
    /\ UNCHANGED <<call, allowed, grants>>

\* MethodsManager looks up the method and the attribute it was added with, and
\* calls statMethods or controlMethods for a user who holds it.
Receive(w, h) ==
    /\ statusOK
    /\ phase[w] = "free"
    /\ call' = [call EXCEPT ![w] = h]
    /\ allowed' = [allowed EXCEPT ![w] = {a \in Attributes : <<h.user, a>> \in grants}]
    /\ IF <<h.user, h.rpc>> \in grants
       THEN phase' = [phase EXCEPT ![w] = "rmtCaller"] /\ UNCHANGED answer
       ELSE /\ phase' = [phase EXCEPT ![w] = "answered"]
            /\ answer' = [answer EXCEPT ![w].from = "refused"]
    /\ UNCHANGED <<vars, grants>>

\* Mutant of Validated: any method goes through either RPC.
ValidatedAny(h) == h.method.ns \in Attributes

\* The validation at the head of rmtCaller: the method asked for must begin
\* with "stats." in a remote.stats, with "control." in a remote.control.
Validated(h) == h.method.ns = h.rpc

\* rmtCaller returns null at once.
rejectPrefix(w) ==
    /\ phase[w] = "rmtCaller"
    /\ ~Validated(call[w])
    /\ Answered(w, "mismatch", Answer("null"))
    /\ UNCHANGED vars

\* rmtCaller calls class DB, in the same thread.
callLocal(w) ==
    /\ phase[w] = "rmtCaller"
    /\ Validated(call[w])
    /\ call[w].target = LocalTarget
    /\ runLocalRPCMethod(w, LocalRequest(call[w]))
    /\ phase' = [phase EXCEPT ![w] = "local"]
    /\ UNCHANGED <<call, allowed, answer, grants>>

\* DB::runLocalRPCMethod returns and rmtCaller passes its value on.
localReturn(w) ==
    /\ phase[w] = "local"
    /\ Return(w)
    /\ Answered(w, "local", reply[w])

\* rmtCaller calls FastRPC::runRemoteRPCMethod, which blocks the thread.
callRemote(w) ==
    /\ phase[w] = "rmtCaller"
    /\ Validated(call[w])
    /\ call[w].target # LocalTarget
    /\ phase' = [phase EXCEPT ![w] = "remote"]
    /\ UNCHANGED <<vars, call, allowed, answer, grants>>

\* The agent has answered, or FastRPC gives up: no such agent, it went away,
\* or it did not answer in time.
remoteReturn(w) ==
    /\ phase[w] = "remote"
    /\ \E f \in {"remote", "failed"} : Answered(w, f, NoReply)
    /\ UNCHANGED vars

\* The answer is sent and the thread is free for another request.
respond(w) ==
    /\ phase[w] = "answered"
    /\ phase' = [phase EXCEPT ![w] = "free"]
    /\ call' = [call EXCEPT ![w] = NoCall]
    /\ allowed' = [allowed EXCEPT ![w] = {}]
    /\ answer' = [answer EXCEPT ![w] = NoAnswer]
    /\ UNCHANGED <<vars, grants>>

\* DB's own steps of a local call, up to its return.
localWork(w) ==
    /\ pc[w] # "done"
    /\ Work(w)
    /\ UNCHANGED <<httpVars, grants>>

\* An administrator of the authentication server changes who holds what.
ChangeGrants ==
    /\ \E u \in Users, a \in Attributes :
          grants' \in {grants \cup {<<u, a>>}, grants \ {<<u, a>>}}
    /\ UNCHANGED <<vars, httpVars>>

\* The program dies: the browsers get no answer.
WebCrash ==
    /\ Crash
    /\ phase' = [w \in Workers |-> "free"]
    /\ call' = [w \in Workers |-> NoCall]
    /\ allowed' = [w \in Workers |-> {}]
    /\ answer' = [w \in Workers |-> NoAnswer]
    /\ UNCHANGED grants

\* What a thread does by itself once it has a request.
Serve(w) ==
    \/ rejectPrefix(w) \/ callLocal(w) \/ localWork(w) \/ localReturn(w)
    \/ callRemote(w)
    \/ respond(w)

WebNext ==
    \/ (start \/ DropLink \/ RestoreLink) /\ UNCHANGED <<httpVars, grants>>
    \/ WebCrash
    \/ ChangeGrants
    \/ \E w \in Workers : Serve(w) \/ remoteReturn(w) \/ \E h \in HttpCalls : Receive(w, h)

WebSpec == WebInit /\ [][WebNext]_webVars

\* The threads of the pool are scheduled preemptively.  Nothing is assumed of
\* remoteReturn: the source gives FastRPC no time limit for an agent's answer.
WebFairness == \A w \in Workers : WF_webVars(Serve(w))

-----------------------------------------------------------------------------
(* What must hold.                                                         *)

\* The table changes only in a request that came in as remote.control from a
\* user who held the attribute "control" when it was admitted, and a new row
\* is signed with that user's name: neither the wait for the lock nor another
\* thread's request in between can blur who does what.
WritesNeedControl ==
    [][posts' # posts =>
         \E w \in Workers :
            /\ phase[w] = "local"
            /\ call[w].rpc = "control"
            /\ "control" \in allowed[w]
            /\ \A p \in posts' \ posts : p.createdBy = call[w].user]_webVars

\* Rows of the table are sent only to a user who held the attribute "stats"
\* when its request was admitted: a holder of "control" alone cannot list.
ListsNeedStats ==
    \A w \in Workers : answer[w].value.rows # {} => "stats" \in allowed[w]

\* Every request is in a stage of its own life, and answers hold no more than
\* their users may see.
AnswersGuarded == WebTypeOK /\ ListsNeedStats

\* Every admitted request is answered unless the program dies first or the
\* request is one for an agent that never answers: a thread that is blocked in
\* a remote call holds up no other, and one whose agent answers goes on.
EveryRequestAnswered ==
    \A w \in Workers : phase[w] # "free" ~> phase[w] \in {"free", "remote"}
=============================================================================
