------------------------------ MODULE Startup ------------------------------
(***************************************************************************)
(* Main::_config and Main::_start, with createRPCListener and              *)
(* createWebServer: the one thread that brings the program up, while the   *)
(* threads it has started already run.  What the program leaves behind     *)
(* when it fails half way (the mode of config.ini, the attributes it has   *)
(* created on the authentication server) is there for the next start.      *)
(*                                                                         *)
(* The operating system, the login RPC client's connection and the         *)
(* authentication server are external.  A call of that server may fail,    *)
(* executed or not; the caller sees "false" or an empty list either way.   *)
(***************************************************************************)
EXTENDS Integers, Sequences, SequencesExt

CONSTANTS
    Elements,   \* static contents with a path and a content
    Offered     \* the authentication server's list; others than Elements in it
                \* lack the path or the content

ASSUME StartupAssumption == Offered \in Seq(Elements \cup {"bad"})

VARIABLES
    at,         \* where the main thread is; "off" when the program is not running
    up,         \* what the program has set up so far
    login,      \* the login RPC client: "off", "connecting" or "connected"
    attr,       \* the attribute createWebServer is at
    todo,       \* static contents _start has still to add
    content,    \* static contents the web server serves
    mode,       \* the permissions of config.ini: "0600" or "other"
    attribs     \* the attributes the authentication server has

contents == <<todo, content>>
outside  == <<mode, attribs>>
startVars == <<at, up, login, attr, contents, outside>>

Attribs == {"control", "stats"}

\* LOG_APP and LOG_RPC, the database, Globals::getFastRPC, the acceptor of the
\* agents and the web server's pool.
Parts == {"logs", "db", "fastRPC", "rpc", "web"}

\* The checks after which the program may give up: the configuration (_config
\* returns false, or an exception ends the program), the listener of the
\* agents (exit -2) and the web server (exit -1).
Checks == {"dir", "mode", "ini", "db", "keys", "listen", "web", "root"}
Points == Checks \cup {"off", "login", "exist", "add", "static", "load", "ready"}

StartTypeOK ==
    /\ at \in Points
    /\ up \in SUBSET Parts
    /\ login \in {"off", "connecting", "connected"}
    /\ attr \in Attribs
    /\ todo \in Seq(Elements \cup {"bad"})
    /\ content \in SUBSET Elements
    /\ mode \in {"0600", "other"}
    /\ attribs \in SUBSET Attribs

StartInit ==
    /\ at = "off" /\ up = {} /\ login = "off"
    /\ attr = "control" /\ todo = <<>> /\ content = {}
    /\ mode \in {"0600", "other"}
    /\ attribs \in SUBSET Attribs

\* The main thread gets from p to q and has set up s.
Step(p, q, s) ==
    /\ at = p
    /\ at' = q
    /\ up' = up \cup s
    /\ UNCHANGED <<attr, attribs>>

\* The program ends, with whatever its threads were doing.
Exit ==
    /\ at' = "off" /\ up' = {} /\ login' = "off"
    /\ attr' = "control" /\ todo' = <<>> /\ content' = {}
    /\ UNCHANGED mode

-----------------------------------------------------------------------------
(* Main::_config.                                                          *)

boot == Step("off", "dir", {}) /\ UNCHANGED <<login, contents, mode>>

\* The configuration directory and config.ini in it can be read.
accessOK == Step("dir", "mode", {}) /\ UNCHANGED <<login, contents, mode>>

\* Mutant of checkMode: the mode is looked at and left as it is.
checkModeOnly == Step("mode", "ini", {}) /\ UNCHANGED <<login, contents, mode>>

\* A mode other than 0600 is changed; a chmod that fails ends the program.
checkMode ==
    /\ Step("mode", "ini", {})
    /\ mode' = "0600"
    /\ UNCHANGED <<login, contents>>

\* read_ini, the two logs, and the setters of the login client.
read_ini == Step("ini", "db", {"logs"}) /\ UNCHANGED <<login, contents, mode>>

\* DB::start succeeds.
startDB == Step("db", "login", {"db"}) /\ UNCHANGED <<login, contents, mode>>

-----------------------------------------------------------------------------
(* Main::_start.                                                           *)

\* LoginRPCClient::start begins a thread that connects in the background.
startLogin ==
    /\ Step("login", "keys", {})
    /\ login' = "connecting"
    /\ UNCHANGED <<contents, mode>>

\* Mutant of loadRPCKeys: FastRPC is left to be created by its first use.
loadRPCKeysOnly == Step("keys", "listen", {}) /\ UNCHANGED <<login, contents, mode>>

\* createRPCListener: CA, certificate and key are loaded, FastRPC is created
\* and given its methods ...
loadRPCKeys == Step("keys", "listen", {"fastRPC"}) /\ UNCHANGED <<login, contents, mode>>

\* ... and the acceptor's threads begin to serve agents.
listenRPC == Step("listen", "web", {"rpc"}) /\ UNCHANGED <<login, contents, mode>>

\* createWebServer: certificate and key are loaded, the port is bound.
listenWeb == Step("web", "exist", {}) /\ UNCHANGED <<login, contents, mode>>

\* The attribute at hand is settled: the next one, or on to the web server.
NextAttr ==
    /\ IF attr = "control" THEN at' = "exist" /\ attr' = "stats"
                           ELSE at' = "root" /\ UNCHANGED attr
    /\ UNCHANGED <<up, login, contents, mode>>

\* Mutant of attribExist: the attribute is added without a look.
attribExistSkipped == Step("exist", "add", {}) /\ UNCHANGED <<login, contents, mode>>

\* attribExist is answered by the authentication server.
attribExist ==
    /\ at = "exist"
    /\ login = "connected"
    /\ IF attr \in attribs THEN NextAttr
       ELSE at' = "add" /\ UNCHANGED <<up, login, attr, contents, mode>>
    /\ UNCHANGED attribs

\* attribExist gets no answer, and is taken for "does not exist".
attribExistFails == Step("exist", "add", {}) /\ UNCHANGED <<login, contents, mode>>

\* attribAdd: the server adds what it does not have, and refuses the rest.
attribAdd ==
    /\ at = "add"
    /\ login = "connected"
    /\ attribs' = attribs \cup {attr}
    /\ IF attr \notin attribs THEN NextAttr ELSE Exit

\* A call of attribAdd gets no answer, executed or not.
Unanswered ==
    \/ UNCHANGED attribs
    \/ login = "connected" /\ attribs' = attribs \cup {attr}

\* Mutant of attribAddFails: the result of attribAdd is not looked at.
attribAddUnchecked == at = "add" /\ Unanswered /\ NextAttr

\* createWebServer returns false: exit -1.
attribAddFails == at = "add" /\ Unanswered /\ Exit

\* The document root is there; acceptPoolThreaded lets browsers in.
acceptWeb == Step("root", "static", {"web"}) /\ UNCHANGED <<login, contents, mode>>

\* getStaticContent returns a list.
getStaticContent(list) ==
    /\ Step("static", "load", {})
    /\ todo' = list
    /\ UNCHANGED <<login, content, mode>>

\* Mutant of addContent: a bad element ends the loop.
addContentUpToBad ==
    /\ at = "load"
    /\ IF todo # <<>> /\ Head(todo) \in Elements
       THEN content' = content \cup {Head(todo)} /\ todo' = Tail(todo) /\ UNCHANGED at
       ELSE at' = "ready" /\ todo' = <<>> /\ UNCHANGED content
    /\ UNCHANGED <<up, login, attr, outside>>

\* Mutant of addContent: the elements' members are not checked.
addContentUnfiltered ==
    /\ at = "load"
    /\ IF todo = <<>>
       THEN at' = "ready" /\ UNCHANGED contents
       ELSE /\ content' = content \cup {Head(todo)}
            /\ todo' = Tail(todo)
            /\ UNCHANGED at
    /\ UNCHANGED <<up, login, attr, outside>>

\* The loop over the list: elements without path or content are skipped.
addContent ==
    /\ at = "load"
    /\ IF todo = <<>>
       THEN at' = "ready" /\ UNCHANGED contents
       ELSE /\ content' = content \cup ({Head(todo)} \cap Elements)
            /\ todo' = Tail(todo)
            /\ UNCHANGED at
    /\ UNCHANGED <<up, login, attr, outside>>

-----------------------------------------------------------------------------
(* The other threads, and what goes wrong.                                 *)

Becomes(p, q) ==
    /\ login = p
    /\ login' = q
    /\ UNCHANGED <<at, up, attr, contents, outside>>

\* The login client connects (notifyAPIProcessingOK), or loses its connection
\* (notifyTLSDisconnected) and tries to get it back.
loginConnects    == Becomes("connecting", "connected")
loginDisconnects == Becomes("connected", "connecting")

\* One of the checks on the way fails.
CheckFails == at \in Checks /\ Exit /\ UNCHANGED attribs

ProgramDies == at # "off" /\ Exit /\ UNCHANGED attribs

\* The main thread gets on.
Progress ==
    \/ boot \/ accessOK \/ checkMode \/ read_ini \/ startDB
    \/ startLogin \/ loadRPCKeys \/ listenRPC
    \/ listenWeb \/ attribExist \/ attribAdd \/ acceptWeb
    \/ (login = "connected" /\ getStaticContent(Offered)) \/ addContent

\* Something fails; a getStaticContent without an answer is an empty list.
Fault ==
    \/ CheckFails \/ ProgramDies
    \/ attribExistFails \/ attribAddFails \/ getStaticContent(<<>>)
    \/ loginDisconnects

StartNext == Progress \/ loginConnects \/ Fault

StartSpec == StartInit /\ [][StartNext]_startVars

\* The main thread is scheduled, whoever started the program starts it again,
\* and the login client goes on trying to connect.
StartFairness == WF_startVars(Progress) /\ WF_startVars(loginConnects)

-----------------------------------------------------------------------------
(* What must hold.                                                         *)

\* No thread meets a global that is still null: the login client's callbacks
\* log, the agents' connections are handed to FastRPC, and a browser's request
\* reaches the database, FastRPC and both logs.
ThreadsHaveGlobals ==
    /\ login # "off" => "logs" \in up
    /\ "rpc" \in up => {"logs", "fastRPC"} \subseteq up
    /\ "web" \in up => {"logs", "fastRPC", "db"} \subseteq up

\* A browser is let in only when the two attributes that guard the RPC methods
\* exist on the authentication server and agents can connect.
ServingIsGuarded == "web" \in up => attribs = Attribs /\ "rpc" \in up

\* The API keys and the database password are read only from a file that
\* nobody else can read.
SecretsPrivate == "logs" \in up => mode = "0600"

\* Each step of the start finds what it needs done before it, and nobody is let
\* in early.
StartsInOrder == StartTypeOK /\ ThreadsHaveGlobals /\ ServingIsGuarded /\ SecretsPrivate

\* Once started up, the web server serves every sound element the
\* authentication server has offered and none it has not; if that server did
\* not answer it serves none and the program runs on.
ContentLoaded ==
    at = "ready" => content \in {{}, ToSet(Offered) \cap Elements}

\* A start that failed half way, even one whose attribAdd was executed and its
\* answer lost, does not keep a later one from coming up, once the faults end.
ComesUp == <>[](at = "ready")
=============================================================================
