--------------------------------- MODULE DB ---------------------------------
(***************************************************************************)
(* Class DB (src/hellomantids/src/db): the table `posts`, the one          *)
(* connection to the MariaDB server, and the four local RPC methods, which *)
(* the threads of the web server's pool run concurrently under one shared  *)
(* mutex.  A method is split where another thread can run: after the       *)
(* dispatch, after taking the lock, after each row fetched, and before the *)
(* lock is released at the end of its scope.                               *)
(*                                                                         *)
(* The MariaDB server and its connector are external: the table outlives   *)
(* the program, the connection may break at any time, and an answer may be *)
(* lost after the statement was executed.  A cursor reads the rows that    *)
(* are in the table when step() is called, so nothing but the program's    *)
(* own lock makes a list consistent.                                       *)
(***************************************************************************)
EXTENDS BoardData

VARIABLES
    posts,      \* rows of `posts` on the server
    autoInc,    \* the AUTO_INCREMENT counter of `posts`
    schema,     \* whether the table `posts` exists
    statusOK,   \* DB::statusOK; true from a successful start() on
    link,       \* whether the connection to the server works
    lockRW,     \* workers holding DB::mutex as Lock_RW
    lockRD,     \* workers holding DB::mutex as Lock_RD
    pc,         \* per worker: where its call is
    req,        \* per worker: the call it runs
    rows,       \* per worker: the rows getMessages has put into ret
    reply,      \* per worker: the value its method returns
    sqlError    \* per worker: "error" once the connector reported one

serverVars == <<posts, autoInc, schema>>
callVars   == <<pc, req, rows, reply, sqlError>>
lockVars   == <<lockRW, lockRD>>
vars       == <<serverVars, statusOK, link, lockVars, callVars>>

PCs == {"idle", "run", "query", "step", "done"}

SqlErrors == {"none", "error"}

Writes == {CreateMessage, RemoveMessage}

TypeOK ==
    /\ posts \in SUBSET Row
    /\ autoInc \in 1..(MaxId + 1)
    /\ schema \in BOOLEAN
    /\ statusOK \in BOOLEAN
    /\ link \in BOOLEAN
    /\ lockRW \in SUBSET Workers
    /\ lockRD \in SUBSET Workers
    /\ pc \in [Workers -> PCs]
    /\ req \in [Workers -> Requests \cup {NoRequest}]
    /\ rows \in [Workers -> SUBSET Row]
    /\ reply \in [Workers -> Reply]
    /\ sqlError \in [Workers -> SqlErrors]

Init ==
    /\ posts = {}
    /\ autoInc = 1
    /\ schema = FALSE
    /\ statusOK = FALSE
    /\ link = FALSE
    /\ lockRW = {}
    /\ lockRD = {}
    /\ pc = [w \in Workers |-> "idle"]
    /\ req = [w \in Workers |-> NoRequest]
    /\ rows = [w \in Workers |-> {}]
    /\ reply = [w \in Workers |-> NoReply]
    /\ sqlError = [w \in Workers |-> "none"]

-----------------------------------------------------------------------------
(* The life of the program and of its connection.                          *)

\* DB::initSchema: CREATE TABLE is sent only where the table is missing; it may
\* be executed although its answer, or that of the look-up, is lost.
initSchema(ok) ==
    /\ schema' \in {schema, TRUE}
    /\ ok => schema'

\* DB::start: connect, then bring the schema up.  When either fails the program
\* ends before it has started a thread, and its statusOK with it.
start ==
    /\ ~statusOK
    /\ \E connected, ok \in BOOLEAN :
          /\ IF connected THEN initSchema(ok) ELSE UNCHANGED schema
          /\ statusOK' = (connected /\ ok)
          /\ link' = (connected /\ ok)
    /\ UNCHANGED <<posts, autoInc, lockVars, callVars>>

\* The program dies (and may be started again): memory is lost, the server's
\* tables are not.
Crash ==
    /\ statusOK
    /\ statusOK' = FALSE
    /\ link' = FALSE
    /\ lockRW' = {}
    /\ lockRD' = {}
    /\ pc' = [w \in Workers |-> "idle"]
    /\ req' = [w \in Workers |-> NoRequest]
    /\ rows' = [w \in Workers |-> {}]
    /\ reply' = [w \in Workers |-> NoReply]
    /\ sqlError' = [w \in Workers |-> "none"]
    /\ UNCHANGED serverVars

\* The connection breaks: a result set being read is lost with it.
DropLink ==
    /\ link
    /\ link' = FALSE
    /\ sqlError' = [w \in Workers |-> IF pc[w] = "step" THEN "error" ELSE sqlError[w]]
    /\ UNCHANGED <<serverVars, statusOK, lockVars, pc, req, rows, reply>>

\* The connector is connected again; statusOK has not been touched meanwhile.
RestoreLink ==
    /\ statusOK
    /\ ~link
    /\ link' = TRUE
    /\ UNCHANGED <<serverVars, statusOK, lockVars, callVars>>

-----------------------------------------------------------------------------
(* The steps of a call.                                                    *)

\* w's method is done with the server and returns a: its lock, if it took one,
\* is still held.
Finish(w, a, e) ==
    /\ pc' = [pc EXCEPT ![w] = "done"]
    /\ reply' = [reply EXCEPT ![w] = a]
    /\ sqlError' = [sqlError EXCEPT ![w] = e]

\* DB::runLocalRPCMethod is entered.
runLocalRPCMethod(w, r) ==
    /\ statusOK
    /\ pc[w] = "idle"
    /\ pc' = [pc EXCEPT ![w] = "run"]
    /\ req' = [req EXCEPT ![w] = r]
    /\ UNCHANGED <<serverVars, statusOK, link, lockVars, rows, reply, sqlError>>

\* DB::getAdd1 takes no lock and asks no server.
getAdd1(w) ==
    /\ pc[w] = "run"
    /\ req[w].method = GetAdd1
    /\ Finish(w, Number(Add1(req[w].arg)), "none")
    /\ UNCHANGED <<serverVars, statusOK, link, lockVars, req, rows>>

\* The last branch of runLocalRPCMethod: it stores errorId 1, "Method Not
\* Found.", which the closing block of the function overwrites.
methodNotFound(w) ==
    /\ pc[w] = "run"
    /\ req[w].method \notin LocalMethods
    /\ Finish(w, Answer("null"), "none")
    /\ UNCHANGED <<serverVars, statusOK, link, lockVars, req, rows>>

\* Mutant of LockRW: a writer that does not wait for the readers.
LockRWAmongReaders(w) ==
    /\ pc[w] = "run"
    /\ req[w].method \in Writes
    /\ lockRW = {}
    /\ lockRW' = {w}
    /\ pc' = [pc EXCEPT ![w] = "query"]
    /\ UNCHANGED <<serverVars, statusOK, link, lockRD, req, rows, reply, sqlError>>

\* Lock_RW: alone.
LockRW(w) ==
    /\ pc[w] = "run"
    /\ req[w].method \in Writes
    /\ lockRW = {} /\ lockRD = {}
    /\ lockRW' = {w}
    /\ pc' = [pc EXCEPT ![w] = "query"]
    /\ UNCHANGED <<serverVars, statusOK, link, lockRD, req, rows, reply, sqlError>>

\* Lock_RD: with other readers.
LockRD(w) ==
    /\ pc[w] = "run"
    /\ req[w].method = GetMessages
    /\ lockRW = {}
    /\ lockRD' = lockRD \cup {w}
    /\ pc' = [pc EXCEPT ![w] = "query"]
    /\ UNCHANGED <<serverVars, statusOK, link, lockRW, req, rows, reply, sqlError>>

\* Mutant of Insert: the column `id` does not count.
InsertSameId(r) ==
    /\ autoInc <= MaxId
    /\ posts' = posts \cup {[id |-> autoInc, message |-> AsString(r.arg),
                             createdBy |-> r.user]}
    /\ UNCHANGED autoInc

\* INSERT INTO posts: the server gives the row the next id.
Insert(r) ==
    /\ autoInc <= MaxId
    /\ posts' = posts \cup {[id |-> autoInc, message |-> AsString(r.arg),
                             createdBy |-> r.user]}
    /\ autoInc' = autoInc + 1

\* DELETE FROM posts WHERE id: no row is no error.
Delete(r) ==
    /\ posts' = {p \in posts : p.id # PostId(r)}
    /\ UNCHANGED autoInc

\* db.query of a writing statement: executed and acknowledged, executed with
\* the acknowledgement lost, or not executed.
Query(w, statement) ==
    \/ /\ link
       /\ statement
       /\ Finish(w, Answer("true"), "none")
       /\ UNCHANGED link
    \/ /\ link
       /\ statement
       /\ Finish(w, Answer("false"), "error")
       /\ link' = FALSE
    \/ /\ Finish(w, Answer("false"), "error")
       /\ UNCHANGED <<posts, autoInc, link>>

\* DB::createMessage, under Lock_RW.
createMessage(w) ==
    /\ pc[w] = "query"
    /\ req[w].method = CreateMessage
    /\ Query(w, Insert(req[w]))
    /\ UNCHANGED <<schema, statusOK, lockVars, req, rows>>

\* Mutant of removeMessage: the result of db.query is not looked at.
removeMessageUnchecked(w) ==
    /\ pc[w] = "query"
    /\ req[w].method = RemoveMessage
    /\ Finish(w, Answer("true"), "none")
    /\ (link /\ Delete(req[w])) \/ UNCHANGED <<posts, autoInc>>
    /\ UNCHANGED <<schema, statusOK, link, lockVars, req, rows>>

\* DB::removeMessage, under Lock_RW.
removeMessage(w) ==
    /\ pc[w] = "query"
    /\ req[w].method = RemoveMessage
    /\ Query(w, Delete(req[w]))
    /\ UNCHANGED <<schema, statusOK, lockVars, req, rows>>

\* DB::getMessages, under Lock_RD: the SELECT is sent.
qSelect(w) ==
    /\ pc[w] = "query"
    /\ req[w].method = GetMessages
    /\ \/ /\ link
          /\ pc' = [pc EXCEPT ![w] = "step"]
          /\ UNCHANGED <<reply, sqlError>>
       \/ Finish(w, RowList(rows[w]), "error")     \* getResultsOK() is false
    /\ UNCHANGED <<serverVars, statusOK, link, lockVars, req, rows>>

\* query->step() fetches a row that ret does not hold yet.
step(w) ==
    /\ pc[w] = "step"
    /\ sqlError[w] = "none"
    /\ \E p \in posts \ rows[w] : rows' = [rows EXCEPT ![w] = @ \cup {p}]
    /\ UNCHANGED <<serverVars, statusOK, link, lockVars, pc, req, reply, sqlError>>

\* query->step() is false: no row is left, or the result set was lost.
stepEnd(w) ==
    /\ pc[w] = "step"
    /\ sqlError[w] = "error" \/ posts \subseteq rows[w]
    /\ Finish(w, RowList(rows[w]), sqlError[w])
    /\ UNCHANGED <<serverVars, statusOK, link, lockVars, req, rows>>

\* Mutant of Return: an early return false that leaves the mutex locked.
ReturnLocked(w) ==
    /\ pc[w] = "done"
    /\ lockRW' = IF reply[w].tag = "false" THEN lockRW ELSE lockRW \ {w}
    /\ lockRD' = lockRD \ {w}
    /\ pc' = [pc EXCEPT ![w] = "idle"]
    /\ req' = [req EXCEPT ![w] = NoRequest]
    /\ rows' = [rows EXCEPT ![w] = {}]
    /\ reply' = [reply EXCEPT ![w] = NoReply]
    /\ sqlError' = [sqlError EXCEPT ![w] = "none"]
    /\ UNCHANGED <<serverVars, statusOK, link>>

\* The method returns: its scope releases the lock.
Return(w) ==
    /\ pc[w] = "done"
    /\ lockRW' = lockRW \ {w}
    /\ lockRD' = lockRD \ {w}
    /\ pc' = [pc EXCEPT ![w] = "idle"]
    /\ req' = [req EXCEPT ![w] = NoRequest]
    /\ rows' = [rows EXCEPT ![w] = {}]
    /\ reply' = [reply EXCEPT ![w] = NoReply]
    /\ sqlError' = [sqlError EXCEPT ![w] = "none"]
    /\ UNCHANGED <<serverVars, statusOK, link>>

\* What w does by itself once it runs a call.
Work(w) ==
    \/ getAdd1(w) \/ methodNotFound(w)
    \/ LockRW(w) \/ LockRD(w)
    \/ createMessage(w) \/ removeMessage(w)
    \/ qSelect(w) \/ step(w) \/ stepEnd(w)
    \/ Return(w)

Next ==
    \/ start \/ Crash \/ DropLink \/ RestoreLink
    \/ \E w \in Workers :
          \/ \E r \in Requests : runLocalRPCMethod(w, r)
          \/ Work(w)

Spec == Init /\ [][Next]_vars

\* A thread that can take a step takes it: the threads of the pool are run by
\* a preemptive scheduler.
Fairness == \A w \in Workers : WF_vars(Work(w))

-----------------------------------------------------------------------------
(* What must hold.                                                         *)

\* w is between taking DB::mutex and releasing it.
Holds(w) ==
    \/ pc[w] \in {"query", "step"}
    \/ pc[w] = "done" /\ req[w].method \in Writes \cup {GetMessages}

\* The two kinds of lock really exclude: while createMessage or removeMessage
\* runs under Lock_RW, no other thread is inside any of the three methods that
\* use the one connection and the table.
WriterExclusion ==
    \A v, w \in Workers :
        Holds(v) /\ Holds(w) /\ req[v].method \in Writes => v = w

\* What a getMessages has collected so far, row by row, is still in the table:
\* no row it has put into its answer is deleted under its hands.
ListedRowsExist ==
    \A w \in Workers : pc[w] \in {"step", "done"} => rows[w] \subseteq posts

\* An id names one message for ever: two rows never share one, and the counter
\* is past every id in the table, across crashes and restarts.
IdsUnique ==
    /\ \A p, q \in posts : p.id = q.id => p = q
    /\ \A p \in posts : p.id < autoInc

\* What holds of the table at every moment: types, one writer at a time, lists
\* that are true while they are read, and ids that are given once.
BoardIntact == TypeOK /\ WriterExclusion /\ ListedRowsExist /\ IdsUnique

\* removeMessage has answered true for id i, which had been given to a row.
RemoveAcked(i) ==
    /\ i < autoInc
    /\ \E w \in Workers : /\ pc[w] = "done"
                          /\ req[w].method = RemoveMessage
                          /\ PostId(req[w]) = i
                          /\ reply[w].tag = "true"

\* A message whose removal was acknowledged never comes back, whatever is
\* created, crashes or restarts afterwards.
RemovedStaysRemoved ==
    \A i \in 1..MaxId : [](RemoveAcked(i) => [](\A p \in posts : p.id # i))

\* Every call of a local RPC method ends: the locks are released on each path
\* and no set of threads waits for each other.
EveryCallReturns == \A w \in Workers : pc[w] # "idle" ~> pc[w] = "idle"

\* The error argument "Error Return" (db.h:26) tells the caller that a method
\* was not found: errorId 1 (db.cpp:97-102).
UnknownMethodReported ==
    \A w \in Workers :
        pc[w] = "done" /\ req[w].method \notin LocalMethods
            => reply[w].errorId = 1

\* Page 2 offers to "Add 1" to the value typed (page2.html:27): for a value
\* the program can hold, the answer is the value plus one.
Add1AddsOne ==
    \A w \in Workers :
        pc[w] = "done" /\ req[w].method = GetAdd1 /\ req[w].arg \in 0..MaxUInt
            => reply[w].num = req[w].arg + 1

\* Page 1 reads null as "There are no messages in the database!"
\* (page1.html:17-19): a getMessages that returns null has found none.
NullMeansEmpty ==
    \A w \in Workers :
        pc[w] = "done" /\ req[w].method = GetMessages /\ reply[w].tag = "null"
            => posts = {}

\* The board a caller sees: a call has taken effect once its last statement
\* has been executed or its list is complete.
Board == INSTANCE MessageBoard WITH
    table    <- posts,
    nextId   <- autoInc,
    st       <- [w \in Workers |-> IF pc[w] = "idle" THEN "idle"
                                   ELSE IF pc[w] = "done" THEN "answered"
                                   ELSE "called"],
    ans      <- reply,
    sqlError <- [w \in Workers |-> IF pc[w] = "done" THEN sqlError[w] ELSE "none"]

\* The DB class implements the atomic message board: creates, removes and
\* lists of concurrent threads behave as if each happened at one instant
\* between its call and its return.
ImplementsBoard == Board!Spec
=============================================================================
