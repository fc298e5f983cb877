----------------------------- MODULE RPCServer -----------------------------
(***************************************************************************)
(* RPCServerImpl: the listener the agents connect to.  Every connection    *)
(* gets a thread of the acceptor, up to MaxClients at once; the thread     *)
(* runs the TLS handshake and callbackOnRPCConnect, which reads the        *)
(* agent's greeting, checks the API key in both directions and then serves *)
(* the connection as "AGENT." followed by the common name of the peer's    *)
(* certificate, for as long as it lasts.                                   *)
(*                                                                         *)
(* The acceptor (Acceptors::MultiThreaded), the challenge (CryptoChallenge)*)
(* and the table of connected nodes (FastRPC::processConnection) are       *)
(* external.  A peer may leave in the open, and then every read of its     *)
(* socket fails, or vanish, which FastRPC's pings of the connections it    *)
(* serves find out in the end (the server offers its method for them,      *)
(* _pingNotFound_), and nothing does before: the source sets no time limit *)
(* for the handshake, the greeting and the challenge.  Until then the      *)
(* agent may be back on a second connection.                               *)
(***************************************************************************)
EXTENDS Integers, FiniteSets

CONSTANTS
    Conns,        \* the connections, numbered anew once they are closed
    Agents,       \* common names in the peers' certificates
    NoConn,       \* no connection
    MaxClients    \* RPCServer.MaxClients of config.ini

ASSUME RPCAssumption ==
    /\ NoConn \notin Conns
    /\ MaxClients \in Nat \ {0}

VARIABLES
    stage,    \* per connection: how far its thread is
    cn,       \* per connection: the common name of its peer
    keyOK,    \* per connection: whether the peer has this server's API key
    peer,     \* per connection: "up", "left" or "vanished"
    nodes     \* per agent: the connection FastRPC serves it on

rpcVars == <<stage, cn, keyOK, peer, nodes>>

Stages == {"closed", "queued", "tls", "hello", "challenge", "process"}

\* Connections that occupy a thread of the acceptor.
Threads == {c \in Conns : stage[c] \notin {"closed", "queued"}}

RPCTypeOK ==
    /\ stage \in [Conns -> Stages]
    /\ cn \in [Conns -> Agents]
    /\ keyOK \in [Conns -> BOOLEAN]
    /\ peer \in [Conns -> {"up", "left", "vanished"}]
    /\ nodes \in [Agents -> Conns \cup {NoConn}]

RPCInit ==
    /\ stage = [c \in Conns |-> "closed"]
    /\ cn \in [Conns -> Agents]
    /\ keyOK \in [Conns -> BOOLEAN]
    /\ peer = [c \in Conns |-> "left"]
    /\ nodes = [a \in Agents |-> NoConn]

-----------------------------------------------------------------------------
(* The peers.                                                              *)

\* An agent, or something that has a certificate but not the key, connects.
Connect(c, a, k) ==
    /\ stage[c] = "closed"
    /\ stage' = [stage EXCEPT ![c] = "queued"]
    /\ cn' = [cn EXCEPT ![c] = a]
    /\ keyOK' = [keyOK EXCEPT ![c] = k]
    /\ peer' = [peer EXCEPT ![c] = "up"]
    /\ UNCHANGED nodes

\* The peer closes its socket, or is gone without a word.
PeerGoes(c) ==
    /\ stage[c] # "closed"
    /\ peer[c] = "up"
    /\ \E p \in {"left", "vanished"} : peer' = [peer EXCEPT ![c] = p]
    /\ UNCHANGED <<stage, cn, keyOK, nodes>>

-----------------------------------------------------------------------------
(* The acceptor.                                                           *)

Moves(c, s) == stage' = [stage EXCEPT ![c] = s]

Close(c) == Moves(c, "closed") /\ UNCHANGED <<cn, keyOK, peer, nodes>>

\* A thread is free for the connection.
startThread(c) ==
    /\ stage[c] = "queued"
    /\ Cardinality(Threads) < MaxClients
    /\ Moves(c, "tls")
    /\ UNCHANGED <<cn, keyOK, peer, nodes>>

\* Mutant of callbackOnTimeOut: the connection is only talked about.
callbackOnTimeOutKeeps(c) ==
    /\ stage[c] = "queued"
    /\ Cardinality(Threads) >= MaxClients
    /\ UNCHANGED rpcVars

\* No thread became free in time: _callbackOnTimeOut only logs, and the
\* acceptor drops the connection.
callbackOnTimeOut(c) ==
    /\ stage[c] = "queued"
    /\ Cardinality(Threads) >= MaxClients
    /\ Close(c)

\* The TLS handshake succeeds ...
tlsAccepted(c) ==
    /\ stage[c] = "tls"
    /\ peer[c] = "up"
    /\ Moves(c, "hello")
    /\ UNCHANGED <<cn, keyOK, peer, nodes>>

\* ... or fails: _callbackOnInitFailed logs and returns true, for "close it".
callbackOnInitFailed(c) ==
    /\ stage[c] = "tls"
    /\ Close(c)

-----------------------------------------------------------------------------
(* callbackOnRPCConnect.                                                   *)

\* readStringEx returns the component's name, or "" when nothing can be read
\* any more; the callback goes on in both cases.
readComponent(c) ==
    /\ stage[c] = "hello"
    /\ Moves(c, "challenge")
    /\ UNCHANGED <<cn, keyOK, peer, nodes>>

\* Mutant of Authenticated: the peer's half of the pair is not compared.
AuthenticatedOneWay(c) == peer[c] = "up"

\* mutualChallengeResponseSHA256Auth gives (true, true): both sides have shown
\* that they know the API key.
Authenticated(c) == peer[c] = "up" /\ keyOK[c]

\* Mutant of register: the table keeps the name in the connection's place.
registerName(c) ==
    /\ stage[c] = "challenge"
    /\ Authenticated(c)
    /\ nodes[cn[c]] = NoConn
    /\ nodes' = [nodes EXCEPT ![cn[c]] = cn[c]]
    /\ Moves(c, "process")
    /\ UNCHANGED <<cn, keyOK, peer>>

\* Mutant of register: the newest connection of an agent wins.
registerNewest(c) ==
    /\ stage[c] = "challenge"
    /\ Authenticated(c)
    /\ nodes' = [nodes EXCEPT ![cn[c]] = c]
    /\ Moves(c, "process")
    /\ UNCHANGED <<cn, keyOK, peer>>

\* FastRPC::processConnection takes the connection under the agent's name.
register(c) ==
    /\ stage[c] = "challenge"
    /\ Authenticated(c)
    /\ nodes[cn[c]] = NoConn
    /\ nodes' = [nodes EXCEPT ![cn[c]] = c]
    /\ Moves(c, "process")
    /\ UNCHANGED <<cn, keyOK, peer>>

\* Mutant of alreadyConnected: the refused connection takes the name with it.
alreadyConnectedForgets(c) ==
    /\ stage[c] = "challenge"
    /\ Authenticated(c)
    /\ nodes[cn[c]] # NoConn
    /\ nodes' = [nodes EXCEPT ![cn[c]] = NoConn]
    /\ Moves(c, "closed")
    /\ UNCHANGED <<cn, keyOK, peer>>

\* processConnection is -2: the name is taken by another connection.
alreadyConnected(c) ==
    /\ stage[c] = "challenge"
    /\ Authenticated(c)
    /\ nodes[cn[c]] # NoConn
    /\ Close(c)

\* The challenge fails: a wrong key, or a peer that does not answer.
invalidApiKey(c) ==
    /\ stage[c] = "challenge"
    /\ ~Authenticated(c)
    /\ Close(c)

\* Mutant of terminate: without a ping a vanished peer goes unnoticed.
terminateUnpinged(c) ==
    /\ stage[c] = "process"
    /\ peer[c] = "left"
    /\ nodes' = [nodes EXCEPT ![cn[c]] = NoConn]
    /\ Moves(c, "closed")
    /\ UNCHANGED <<cn, keyOK, peer>>

\* processConnection returns: the peer left, or did not answer a ping.  The
\* name is free again, and the callback's "return true" closes the socket.
terminate(c) ==
    /\ stage[c] = "process"
    /\ peer[c] # "up"
    /\ nodes' = [nodes EXCEPT ![cn[c]] = NoConn]
    /\ Moves(c, "closed")
    /\ UNCHANGED <<cn, keyOK, peer>>

\* The program dies and is started again: every socket is closed.
Restart ==
    /\ stage' = [c \in Conns |-> "closed"]
    /\ nodes' = [a \in Agents |-> NoConn]
    /\ UNCHANGED <<cn, keyOK, peer>>

\* What the server does with a connection.
ServeAgent(c) ==
    \/ startThread(c) \/ callbackOnTimeOut(c)
    \/ tlsAccepted(c) \/ callbackOnInitFailed(c)
    \/ readComponent(c)
    \/ register(c) \/ alreadyConnected(c) \/ invalidApiKey(c)
    \/ terminate(c)

RPCNext ==
    \/ \E c \in Conns :
          \/ \E a \in Agents, k \in BOOLEAN : Connect(c, a, k)
          \/ PeerGoes(c)
          \/ ServeAgent(c)
    \/ Restart

RPCSpec == RPCInit /\ [][RPCNext]_rpcVars

\* The acceptor deals with a waiting connection, by a thread or by its time
\* limit; what reads a closed socket ends in an error; and a served connection
\* whose peer has vanished fails a ping.  Nothing is assumed of a handshake or
\* a read that waits for a peer which vanished, or is there and says nothing.
Ends(c) ==
    /\ ServeAgent(c)
    /\ \/ stage[c] = "queued"
       \/ peer[c] = "left"
       \/ stage[c] = "process" /\ peer[c] = "vanished"

RPCFairness == \A c \in Conns : WF_rpcVars(Ends(c))

RPCFairSpec == RPCSpec /\ RPCFairness

-----------------------------------------------------------------------------
(* What must hold.                                                         *)

\* The table of nodes and the serving threads agree: a name leads to the one
\* connection being served for the peer whose certificate carries the name,
\* and every connection being served can be reached by its name.  So no agent
\* is served twice, however often it reconnects.
RegistryExact ==
    /\ \A a \in Agents : nodes[a] # NoConn =>
          stage[nodes[a]] = "process" /\ cn[nodes[a]] = a
    /\ \A c \in Conns : stage[c] = "process" => nodes[cn[c]] = c

\* Only a peer that has shown that it knows the API key is ever served.
OnlyKeyHolders == \A c \in Conns : stage[c] = "process" => keyOK[c]

\* The table of nodes at every moment: exact, and of key holders only.
NodesSound == RPCTypeOK /\ RegistryExact /\ OnlyKeyHolders

\* An agent's name is bound to its connection until that very connection ends:
\* a second connection of the agent, refused or not, neither takes the name
\* over nor frees it.
NameKeptByOwner ==
    [][\A a \in Agents :
          nodes[a] # NoConn /\ nodes'[a] # nodes[a] =>
              nodes'[a] = NoConn /\ stage'[nodes[a]] = "closed"]_rpcVars

\* A connection whose peer has closed it gives its thread back, however far it
\* has come: no stage of the callback goes on waiting on it.
LeftPeersReleased ==
    \A c \in Conns : stage[c] # "closed" /\ peer[c] = "left" ~> stage[c] = "closed"

HoldsName(c) == \E a \in Agents : nodes[a] = c

\* An agent's name comes free when the peer that holds it is gone, in the open
\* or not: the agent is not refused for ever on account of its own last
\* connection.
NamesComeFree == \A c \in Conns : HoldsName(c) /\ peer[c] # "up" ~> ~HoldsName(c)

\* A waiting connection is given a thread or dropped.
NobodyQueuesForEver == \A c \in Conns : stage[c] = "queued" ~> stage[c] # "queued"

\* Nothing is held for ever by a connection that was closed, no name by a peer
\* that is gone, and nobody asks in vain.
EverythingReleased == LeftPeersReleased /\ NamesComeFree /\ NobodyQueuesForEver
=============================================================================
