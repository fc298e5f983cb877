---------------------------- MODULE ServerProofs ----------------------------
(***************************************************************************)
(* Proofs about the server program, whose parts run side by side.          *)
(*                                                                         *)
(* DB and the web server that drives it, for any set of threads, users,    *)
(* requests and messages.  Of DB: the types, the exclusion of writers, the *)
(* lists that stay true while they are read, unique ids, the finality of a *)
(* removal, and that it implements the atomic MessageBoard.  Of WebServer: *)
(* it drives DB as DB's specification says, so that all that is proved of  *)
(* DB holds of the program, and the two attributes guard the table.        *)
(*                                                                         *)
(* RPCServer, for any number of connections, agents and threads: the table *)
(* of nodes and the threads that serve agents agree.                       *)
(*                                                                         *)
(* Startup, for any list of static contents: what is running at each point *)
(* of the start, and what that is worth to the threads.                    *)
(***************************************************************************)
EXTENDS WebServer, RPCServer, Startup, TLAPS

-----------------------------------------------------------------------------
(* The inductive invariant of DB.                                          *)

\* A busy worker runs a request; only a lock-taking method gets past the
\* dispatch, only a list is stepped through, only a list collects rows, and
\* nothing is answered before the method is done.
CallShape ==
    \A w \in Workers :
        /\ pc[w] # "idle" => req[w] \in Requests
        /\ pc[w] = "query" => req[w].method \in Writes \cup {GetMessages}
        /\ pc[w] = "step" => req[w].method = GetMessages
        /\ pc[w] \in {"idle", "run", "query"} => rows[w] = {}
        /\ rows[w] # {} => req[w].method = GetMessages
        /\ pc[w] # "done" => reply[w] = NoReply

\* The holders of DB::mutex are the workers inside a method that takes it, and
\* a Lock_RW is held by one worker alone.
LockShape ==
    /\ lockRW = {w \in Workers : Holds(w) /\ req[w].method \in Writes}
    /\ lockRD = {w \in Workers : Holds(w) /\ req[w].method = GetMessages}
    /\ \A v \in lockRW : \A w \in lockRW \cup lockRD : v = w

\* While an acknowledged removal is being returned its row is not there.
AckedIsGone ==
    \A w \in Workers :
        pc[w] = "done" /\ req[w].method = RemoveMessage /\ reply[w].tag = "true"
            => \A p \in posts : p.id # PostId(req[w])

IInv ==
    /\ TypeOK
    /\ CallShape
    /\ LockShape
    /\ ListedRowsExist
    /\ IdsUnique
    /\ AckedIsGone

-----------------------------------------------------------------------------
(* The data.                                                               *)

\* The four local methods are different, and none is the idle worker's.
LEMMA MethodsDiffer ==
    /\ GetMessages \notin Writes
    /\ GetAdd1 \notin Writes \cup {GetMessages}
    /\ CreateMessage # RemoveMessage
    /\ NoRequest.method \notin LocalMethods
    /\ Writes \cup {GetMessages} \subseteq LocalMethods
BY DEF GetMessages, GetAdd1, CreateMessage, RemoveMessage, Writes, Method,
       NoRequest, LocalMethods

\* The JSON conversions land in the program's types whatever the payload is,
\* and uint32_t arithmetic wraps inside its type.
LEMMA Conversions ==
    ASSUME NEW v
    PROVE  AsString(v) \in Messages /\ AsUInt(v) \in 0..MaxUInt /\ Add1(v) \in 0..MaxUInt
<1>1. AsString(v) \in Messages
  BY BoardAssumption DEF AsString
<1>2. AsUInt(v) \in 0..MaxUInt
  BY BoardAssumption DEF AsUInt
<1>3. Add1(v) \in 0..MaxUInt
  BY <1>2, BoardAssumption DEF Add1
<1> QED
  BY <1>1, <1>2, <1>3

\* Every value a method returns is a reply, with the tag it was given.
LEMMA Replies ==
    /\ NoReply \in Reply
    /\ \A t \in {"null", "true", "false"} : Answer(t) \in Reply /\ Answer(t).tag = t
    /\ \A n \in 0..MaxUInt : Number(n) \in Reply
    /\ \A rs \in SUBSET Row : RowList(rs) \in Reply
<1>1. NoReply \in Reply
  BY BoardAssumption DEF NoReply, Reply
<1>2. ASSUME NEW t \in {"null", "true", "false", "rows", "number"},
             NEW rs \in SUBSET Row, NEW n \in 0..MaxUInt
      PROVE  ReplyWith(t, rs, n) \in Reply
  BY DEF ReplyWith, Reply
<1>3. {} \in SUBSET Row /\ 0 \in 0..MaxUInt
  BY BoardAssumption
<1>4. \A t \in {"null", "true", "false"} : Answer(t) \in Reply /\ Answer(t).tag = t
  BY <1>2, <1>3 DEF Answer, ReplyWith
<1>5. \A n \in 0..MaxUInt : Number(n) \in Reply
  BY <1>2, <1>3 DEF Number
<1>6. \A rs \in SUBSET Row : RowList(rs) \in Reply
  BY <1>2, <1>3 DEF RowList
<1> QED
  BY <1>1, <1>4, <1>5, <1>6

\* A request of the environment has a user.
LEMMA RequestUser == \A r \in Requests : r.user \in Users
BY BoardAssumption DEF Request

-----------------------------------------------------------------------------
(* Types, and the shape of a call.                                         *)

LEMMA InitTypes == Init => TypeOK /\ CallShape
<1> SUFFICES ASSUME Init PROVE TypeOK /\ CallShape
  OBVIOUS
<1>1. autoInc \in 1..(MaxId + 1) /\ posts \in SUBSET Row
  BY BoardAssumption DEF Init
<1>2. reply \in [Workers -> Reply] /\ rows \in [Workers -> SUBSET Row]
  BY Replies DEF Init
<1> QED
  BY <1>1, <1>2 DEF Init, TypeOK, CallShape, PCs, SqlErrors

\* The step in which a method is done keeps the per-call variables well typed
\* and touches those of its own worker only.
LEMMA FinishTypes ==
    ASSUME TypeOK, NEW w \in Workers, NEW a \in Reply, NEW f \in SqlErrors,
           Finish(w, a, f)
    PROVE  /\ pc' \in [Workers -> PCs] /\ pc'[w] = "done"
           /\ reply' \in [Workers -> Reply] /\ reply'[w] = a
           /\ sqlError' \in [Workers -> SqlErrors] /\ sqlError'[w] = f
           /\ \A v \in Workers \ {w} : /\ pc'[v] = pc[v]
                                       /\ reply'[v] = reply[v]
                                       /\ sqlError'[v] = sqlError[v]
BY DEF TypeOK, Finish, PCs, SqlErrors

LEMMA NextTypes == TypeOK /\ CallShape /\ [Next]_vars => TypeOK' /\ CallShape'
<1> SUFFICES ASSUME TypeOK, CallShape, [Next]_vars
             PROVE  TypeOK' /\ CallShape'
  OBVIOUS
<1> USE DEF TypeOK, CallShape, PCs, SqlErrors, vars, serverVars, callVars, lockVars
<1>1. CASE start
  BY <1>1 DEF start, initSchema
<1>2. CASE Crash
  BY <1>2, Replies DEF Crash
<1>3. CASE DropLink
  BY <1>3 DEF DropLink
<1>4. CASE RestoreLink
  BY <1>4 DEF RestoreLink
<1>5. ASSUME NEW w \in Workers, NEW r \in Requests, runLocalRPCMethod(w, r)
      PROVE  TypeOK' /\ CallShape'
  BY <1>5 DEF runLocalRPCMethod
<1>6. ASSUME NEW w \in Workers, getAdd1(w)
      PROVE  TypeOK' /\ CallShape'
  BY <1>6, Conversions, Replies DEF getAdd1, Finish
<1>7. ASSUME NEW w \in Workers, methodNotFound(w)
      PROVE  TypeOK' /\ CallShape'
  BY <1>7, Replies DEF methodNotFound, Finish
<1>8. ASSUME NEW w \in Workers, LockRW(w)
      PROVE  TypeOK' /\ CallShape'
  BY <1>8 DEF LockRW
<1>9. ASSUME NEW w \in Workers, LockRD(w)
      PROVE  TypeOK' /\ CallShape'
  BY <1>9 DEF LockRD
<1>10. ASSUME NEW w \in Workers, createMessage(w)
       PROVE  TypeOK' /\ CallShape'
  <2>1. Insert(req[w]) => posts' \in SUBSET Row /\ autoInc' \in 1..(MaxId + 1)
    BY <1>10, Conversions, RequestUser, BoardAssumption DEF createMessage, Insert, Row
  <2>2. posts' \in SUBSET Row /\ autoInc' \in 1..(MaxId + 1)
    BY <1>10, <2>1 DEF createMessage, Query
  <2>3. PICK a \in Reply, f \in SqlErrors : Finish(w, a, f) /\ link' \in BOOLEAN
    BY <1>10, Replies DEF createMessage, Query
  <2> QED
    BY <1>10, <2>2, <2>3, FinishTypes DEF createMessage
<1>11. ASSUME NEW w \in Workers, removeMessage(w)
       PROVE  TypeOK' /\ CallShape'
  <2>1. posts' \in SUBSET Row /\ autoInc' = autoInc
    BY <1>11 DEF removeMessage, Query, Delete
  <2>2. PICK a \in Reply, f \in SqlErrors : Finish(w, a, f) /\ link' \in BOOLEAN
    BY <1>11, Replies DEF removeMessage, Query
  <2> QED
    BY <1>11, <2>1, <2>2, FinishTypes DEF removeMessage
<1>12. ASSUME NEW w \in Workers, qSelect(w)
       PROVE  TypeOK' /\ CallShape'
  <2>1. RowList(rows[w]) \in Reply
    BY Replies
  <2>2. CASE Finish(w, RowList(rows[w]), "error")
    <3>1. PICK a \in Reply, f \in SqlErrors : Finish(w, a, f)
      BY <2>1, <2>2
    <3> QED
      BY <1>12, <3>1, FinishTypes DEF qSelect
  <2>3. CASE pc' = [pc EXCEPT ![w] = "step"] /\ UNCHANGED <<reply, sqlError>>
    BY <1>12, <2>3 DEF qSelect
  <2> QED
    BY <1>12, <2>2, <2>3 DEF qSelect
<1>13. ASSUME NEW w \in Workers, step(w)
       PROVE  TypeOK' /\ CallShape'
  BY <1>13 DEF step
<1>14. ASSUME NEW w \in Workers, stepEnd(w)
       PROVE  TypeOK' /\ CallShape'
  BY <1>14, Replies DEF stepEnd, Finish
<1>15. ASSUME NEW w \in Workers, Return(w)
       PROVE  TypeOK' /\ CallShape'
  BY <1>15, Replies DEF Return
<1>16. CASE UNCHANGED vars
  BY <1>16
<1> QED
  BY <1>1, <1>2, <1>3, <1>4, <1>5, <1>6, <1>7, <1>8, <1>9, <1>10, <1>11, <1>12,
     <1>13, <1>14, <1>15, <1>16 DEF Next, Work

-----------------------------------------------------------------------------
(* The mutex.                                                              *)

\* The holders of the mutex are the workers inside a locking method, and a
\* writer is alone.
LEMMA NextLocks ==
    TypeOK /\ CallShape /\ LockShape /\ [Next]_vars => LockShape'
<1> SUFFICES ASSUME TypeOK, CallShape, LockShape, [Next]_vars
             PROVE  LockShape'
  OBVIOUS
<1> USE MethodsDiffer DEF TypeOK, CallShape, LockShape, Holds, PCs,
        vars, serverVars, callVars, lockVars
<1>1. CASE start
  BY <1>1 DEF start
<1>2. CASE Crash
  BY <1>2 DEF Crash
<1>3. CASE DropLink
  BY <1>3 DEF DropLink
<1>4. CASE RestoreLink
  BY <1>4 DEF RestoreLink
<1>5. ASSUME NEW w \in Workers, NEW r \in Requests, runLocalRPCMethod(w, r)
      PROVE  LockShape'
  BY <1>5 DEF runLocalRPCMethod
<1>6. ASSUME NEW w \in Workers, getAdd1(w)
      PROVE  LockShape'
  BY <1>6 DEF getAdd1, Finish
<1>7. ASSUME NEW w \in Workers, methodNotFound(w)
      PROVE  LockShape'
  BY <1>7 DEF methodNotFound, Finish
<1>8. ASSUME NEW w \in Workers, LockRW(w)
      PROVE  LockShape'
  BY <1>8 DEF LockRW
<1>9. ASSUME NEW w \in Workers, LockRD(w)
      PROVE  LockShape'
  BY <1>9 DEF LockRD
<1>10. ASSUME NEW w \in Workers, createMessage(w) \/ removeMessage(w)
       PROVE  LockShape'
  <2>1. pc[w] = "query" /\ pc' = [pc EXCEPT ![w] = "done"]
    BY <1>10 DEF createMessage, removeMessage, Query, Finish
  <2>2. UNCHANGED <<req, lockRW, lockRD>>
    BY <1>10 DEF createMessage, removeMessage
  <2> QED
    BY <2>1, <2>2
<1>11. ASSUME NEW w \in Workers, qSelect(w)
       PROVE  LockShape'
  BY <1>11 DEF qSelect, Finish
<1>12. ASSUME NEW w \in Workers, step(w)
       PROVE  LockShape'
  BY <1>12 DEF step
<1>13. ASSUME NEW w \in Workers, stepEnd(w)
       PROVE  LockShape'
  BY <1>13 DEF stepEnd, Finish
<1>14. ASSUME NEW w \in Workers, Return(w)
       PROVE  LockShape'
  BY <1>14 DEF Return
<1>15. CASE UNCHANGED vars
  BY <1>15
<1> QED
  BY <1>1, <1>2, <1>3, <1>4, <1>5, <1>6, <1>7, <1>8, <1>9, <1>10, <1>11, <1>12,
     <1>13, <1>14, <1>15 DEF Next, Work

\* A step changes the table only in a worker that holds the mutex alone; it
\* adds a row with the next id, or drops the rows of the id named.
LEMMA TableSteps ==
    ASSUME TypeOK, CallShape, LockShape, [Next]_vars
    PROVE  \/ posts' = posts /\ autoInc' = autoInc
           \/ \E w \in Workers :
                 /\ pc[w] = "query" /\ lockRW = {w} /\ lockRD = {}
                 /\ UNCHANGED <<rows, req>>
                 /\ \/ req[w].method = CreateMessage /\ Insert(req[w])
                    \/ req[w].method = RemoveMessage /\ Delete(req[w])
<1> USE DEF vars, serverVars, callVars, lockVars
<1>1. CASE \E w \in Workers : createMessage(w) \/ removeMessage(w)
  <2>1. PICK w \in Workers : createMessage(w) \/ removeMessage(w)
    BY <1>1
  <2>2. w \in lockRW
    BY <2>1 DEF LockShape, Holds, createMessage, removeMessage, Writes
  <2>3. lockRW = {w} /\ lockRD = {}
    BY <2>2, MethodsDiffer DEF LockShape
  <2> QED
    BY <2>1, <2>3 DEF createMessage, removeMessage, Query
<1>2. CASE ~ \E w \in Workers : createMessage(w) \/ removeMessage(w)
  BY <1>2 DEF Next, Work, start, Crash, DropLink, RestoreLink, runLocalRPCMethod,
     getAdd1, methodNotFound, LockRW, LockRD, qSelect, step, stepEnd, Return
<1> QED
  BY <1>1, <1>2

-----------------------------------------------------------------------------
(* The table.                                                              *)

\* What a reader has collected stays in the table: the only steps that change
\* the table are a lone writer's.
LEMMA NextListed ==
    TypeOK /\ CallShape /\ LockShape /\ ListedRowsExist /\ [Next]_vars
        => ListedRowsExist'
<1> SUFFICES ASSUME TypeOK, CallShape, LockShape, ListedRowsExist, [Next]_vars,
                    NEW v \in Workers, pc'[v] \in {"step", "done"}
             PROVE  rows'[v] \subseteq posts'
  BY DEF ListedRowsExist
<1>1. CASE posts' = posts
  <2>1. rows[v] \subseteq posts
    BY MethodsDiffer DEF ListedRowsExist, CallShape, TypeOK, PCs
  <2>2. rows'[v] \subseteq rows[v] \cup posts
    BY DEF TypeOK, Next, Work, start, Crash, DropLink, RestoreLink,
       runLocalRPCMethod, getAdd1, methodNotFound, LockRW, LockRD, createMessage,
       removeMessage, qSelect, step, stepEnd, Return, Finish, vars, callVars
  <2> QED
    BY <1>1, <2>1, <2>2
<1>2. CASE \E w \in Workers : /\ pc[w] = "query" /\ lockRW = {w} /\ lockRD = {}
                              /\ UNCHANGED <<rows, req>>
  <2>1. PICK w \in Workers : /\ pc[w] = "query" /\ lockRW = {w} /\ lockRD = {}
                             /\ UNCHANGED <<rows, req>>
    BY <1>2
  <2>2. rows[v] # {} => Holds(v) /\ req[v].method = GetMessages
    BY DEF CallShape, Holds, TypeOK, PCs
  <2>3. rows[v] = {}
    BY <2>1, <2>2 DEF LockShape
  <2> QED
    BY <2>1, <2>3
<1> QED
  BY <1>1, <1>2, TableSteps

\* A new row takes an id no row has had.
LEMMA NextIds ==
    TypeOK /\ CallShape /\ LockShape /\ IdsUnique /\ [Next]_vars => IdsUnique'
<1> SUFFICES ASSUME TypeOK, CallShape, LockShape, IdsUnique, [Next]_vars
             PROVE  IdsUnique'
  OBVIOUS
<1>1. CASE posts' = posts /\ autoInc' = autoInc
  BY <1>1 DEF IdsUnique
<1>2. ASSUME NEW w \in Workers, Insert(req[w])
      PROVE  IdsUnique'
  BY <1>2, BoardAssumption DEF IdsUnique, Insert, TypeOK, Row
<1>3. ASSUME NEW w \in Workers, Delete(req[w])
      PROVE  IdsUnique'
  BY <1>3 DEF IdsUnique, Delete
<1> QED
  BY <1>1, <1>2, <1>3, TableSteps

\* The row of an acknowledged removal is gone when the answer is ready, and the
\* lock keeps every insert away until the answer is returned.
LEMMA NextAcked ==
    TypeOK /\ CallShape /\ LockShape /\ AckedIsGone /\ [Next]_vars => AckedIsGone'
<1> SUFFICES ASSUME TypeOK, CallShape, LockShape, AckedIsGone, [Next]_vars,
                    NEW v \in Workers, pc'[v] = "done",
                    req'[v].method = RemoveMessage, reply'[v].tag = "true",
                    NEW p \in posts'
             PROVE  p.id # PostId(req'[v])
  BY DEF AckedIsGone
<1> USE DEF vars, serverVars, callVars, lockVars
<1>1. CASE pc[v] = "done"
  <2>1. req'[v] = req[v] /\ reply'[v] = reply[v]
    BY <1>1 DEF TypeOK, Next, Work, start, Crash, DropLink, RestoreLink,
       runLocalRPCMethod, getAdd1, methodNotFound, LockRW, LockRD, createMessage,
       removeMessage, Query, qSelect, step, stepEnd, Return, Finish
  <2>2. v \in lockRW
    BY <1>1, <2>1 DEF LockShape, Holds, Writes
  <2>3. posts' = posts
    BY <1>1, <2>2, TableSteps
  <2> QED
    BY <1>1, <2>1, <2>3 DEF AckedIsGone
<1>2. CASE pc[v] # "done"
  <2>1. removeMessage(v)
    <3>1. \/ getAdd1(v) \/ methodNotFound(v) \/ createMessage(v)
          \/ removeMessage(v) \/ qSelect(v) \/ stepEnd(v)
      BY <1>2 DEF TypeOK, Next, Work, start, Crash, DropLink, RestoreLink,
         runLocalRPCMethod, getAdd1, methodNotFound, LockRW, LockRD, createMessage,
         removeMessage, Query, qSelect, step, stepEnd, Return, Finish
    <3>2. req' = req
      BY <3>1 DEF getAdd1, methodNotFound, createMessage, removeMessage, qSelect,
         stepEnd
    <3>3. RemoveMessage \notin {GetAdd1, GetMessages, CreateMessage}
          /\ RemoveMessage \in LocalMethods
      BY MethodsDiffer DEF Writes
    <3> QED
      BY <3>1, <3>2, <3>3 DEF getAdd1, methodNotFound, createMessage, qSelect,
         stepEnd, CallShape
  <2>2. reply'[v] # Answer("false")
    BY Replies
  <2>3. Delete(req[v]) /\ req' = req
    BY <2>1, <2>2 DEF removeMessage, Query, Finish, TypeOK
  <2> QED
    BY <2>3 DEF Delete
<1> QED
  BY <1>1, <1>2

-----------------------------------------------------------------------------
(* The theorems.                                                           *)

\* IInv is an inductive invariant of the DB class.
THEOREM Invariance == Spec => []IInv
<1>1. Init => IInv
  <2>1. Init => LockShape /\ ListedRowsExist /\ IdsUnique /\ AckedIsGone
    BY DEF Init, LockShape, Holds, ListedRowsExist, IdsUnique, AckedIsGone
  <2> QED
    BY <2>1, InitTypes DEF IInv
<1>2. IInv /\ [Next]_vars => IInv'
  BY NextTypes, NextLocks, NextListed, NextIds, NextAcked DEF IInv
<1> QED
  BY <1>1, <1>2, PTL DEF Spec

\* Type correctness of the DB class.
THEOREM TypeCorrect == Spec => []TypeOK
BY Invariance, PTL DEF IInv

\* While createMessage or removeMessage runs, no other thread is inside a
\* method that uses the connection.
THEOREM Exclusion == Spec => []WriterExclusion
<1>1. IInv => WriterExclusion
  BY MethodsDiffer DEF IInv, LockShape, WriterExclusion, Holds, CallShape
<1> QED
  BY <1>1, Invariance, PTL

\* No row that a getMessages has collected leaves the table before the list is
\* returned.
THEOREM ListsStayTrue == Spec => []ListedRowsExist
BY Invariance, PTL DEF IInv

\* Ids are unique and below the AUTO_INCREMENT counter.
THEOREM UniqueIds == Spec => []IdsUnique
BY Invariance, PTL DEF IInv

\* A removal that was acknowledged is final.
THEOREM RemovalIsFinal == Spec => RemovedStaysRemoved
<1> SUFFICES ASSUME NEW i \in 1..MaxId
             PROVE  Spec => [](RemoveAcked(i) => [](\A p \in posts : p.id # i))
  BY DEF RemovedStaysRemoved
<1> DEFINE Gone == i < autoInc /\ \A p \in posts : p.id # i
<1>1. IInv /\ RemoveAcked(i) => Gone
  BY DEF IInv, RemoveAcked, AckedIsGone
<1>2. IInv /\ Gone /\ [Next]_vars => Gone'
  <2> SUFFICES ASSUME IInv, Gone, [Next]_vars PROVE Gone'
    OBVIOUS
  <2>1. ASSUME NEW w \in Workers, Insert(req[w]) PROVE Gone'
    BY <2>1 DEF Insert, IInv, TypeOK
  <2>2. ASSUME NEW w \in Workers, Delete(req[w]) PROVE Gone'
    BY <2>2 DEF Delete
  <2>3. CASE posts' = posts /\ autoInc' = autoInc
    BY <2>3
  <2> QED
    BY <2>1, <2>2, <2>3, TableSteps DEF IInv
<1>3. Gone => \A p \in posts : p.id # i
  OBVIOUS
<1> QED
  BY <1>1, <1>2, <1>3, Invariance, PTL DEF Spec

-----------------------------------------------------------------------------
(* DB implements MessageBoard.                                             *)

\* The state and the error flag of the board, as DB's variables give them.
stBar == [w \in Workers |-> IF pc[w] = "idle" THEN "idle"
                            ELSE IF pc[w] = "done" THEN "answered"
                            ELSE "called"]
errBar == [w \in Workers |-> IF pc[w] = "done" THEN sqlError[w] ELSE "none"]

\* The board's copies of the data definitions are DB's.
LEMMA SameData ==
    /\ Board!NoRequest = NoRequest /\ Board!NoReply = NoReply
    /\ Board!CreateMessage = CreateMessage /\ Board!RemoveMessage = RemoveMessage
    /\ Board!GetMessages = GetMessages /\ Board!GetAdd1 = GetAdd1
    /\ \A t : Board!Answer(t) = Answer(t)
    /\ \A n : Board!Number(n) = Number(n)
    /\ \A rs : Board!RowList(rs) = RowList(rs)
    /\ \A v : Board!AsString(v) = AsString(v) /\ Board!Add1(v) = Add1(v)
    /\ \A r : Board!PostId(r) = PostId(r)
BY DEF Board!NoRequest, NoRequest, Board!NoReply, NoReply, Board!Method, Method,
       Board!CreateMessage, CreateMessage, Board!RemoveMessage, RemoveMessage,
       Board!GetMessages, GetMessages, Board!GetAdd1, GetAdd1, Board!Answer, Answer,
       Board!Number, Number, Board!RowList, RowList, Board!ReplyWith, ReplyWith,
       Board!AsString, AsString, Board!AsUInt, AsUInt, Board!Add1, Add1,
       Board!PostId, PostId

\* The step in which a method is done is the step in which the board answers.
LEMMA FinishAnswers ==
    ASSUME IInv, NEW w \in Workers, NEW a \in Reply, NEW f \in SqlErrors,
           pc[w] \in {"run", "query", "step"}, Finish(w, a, f), req' = req
    PROVE  Board!Answered(w, a, f)
<1>0. /\ pc'[w] = "done" /\ sqlError'[w] = f
      /\ \A v \in Workers \ {w} : pc'[v] = pc[v] /\ sqlError'[v] = sqlError[v]
  BY FinishTypes DEF IInv
<1>1. stBar[w] = "called"
  BY DEF stBar
<1>2. stBar' = [stBar EXCEPT ![w] = "answered"]
  <2>1. \A v \in Workers : stBar'[v] = IF v = w THEN "answered" ELSE stBar[v]
    BY <1>0 DEF stBar
  <2> QED
    BY <2>1 DEF stBar
<1>3. reply' = [reply EXCEPT ![w] = a]
  BY DEF Finish
<1>4. errBar' = [errBar EXCEPT ![w] = f]
  <2>1. \A v \in Workers : errBar'[v] = IF v = w THEN f ELSE errBar[v]
    BY <1>0 DEF errBar
  <2> QED
    BY <2>1 DEF errBar
<1> QED
  BY <1>1, <1>2, <1>3, <1>4 DEF Board!Answered, stBar, errBar

\* A step that leaves the table, the requests, the answers, and the workers'
\* idle and done states alone is a step the board does not see.
LEMMA Invisible ==
    ASSUME IInv, posts' = posts, autoInc' = autoInc, req' = req, reply' = reply,
           pc' \in [Workers -> PCs],
           \A w \in Workers : /\ pc'[w] = "idle" <=> pc[w] = "idle"
                              /\ pc'[w] = "done" <=> pc[w] = "done"
                              /\ pc[w] = "done" => sqlError'[w] = sqlError[w]
    PROVE  UNCHANGED Board!boardVars
<1>1. stBar' = stBar
  BY DEF stBar
<1>2. errBar' = errBar
  BY DEF errBar
<1> QED
  BY <1>1, <1>2 DEF Board!boardVars, stBar, errBar

\* Every step of DB is a step of the board, or one it does not see.
LEMMA StepRefines == IInv /\ [Next]_vars => [Board!Next]_(Board!boardVars)
<1> SUFFICES ASSUME IInv, [Next]_vars
             PROVE  Board!Next \/ UNCHANGED Board!boardVars
  OBVIOUS
<1> USE DEF vars, serverVars, callVars, lockVars
<1>0. TypeOK /\ CallShape
  BY DEF IInv
<1>1. CASE start \/ RestoreLink
  BY <1>0, <1>1, Invisible DEF start, RestoreLink, TypeOK
<1>2. CASE Crash
  <2>1. stBar' = [w \in Workers |-> "idle"] /\ errBar' = [w \in Workers |-> "none"]
    BY <1>2 DEF Crash, stBar, errBar
  <2> QED
    BY <1>2, <2>1, SameData DEF Crash, Board!Next, Board!Crash, stBar, errBar
<1>3. CASE DropLink
  <2>1. \A w \in Workers : pc[w] = "done" => sqlError'[w] = sqlError[w]
    BY <1>0, <1>3 DEF DropLink, TypeOK
  <2> QED
    BY <1>0, <1>3, <2>1, Invisible DEF DropLink, TypeOK
<1>4. ASSUME NEW w \in Workers, NEW r \in Requests, runLocalRPCMethod(w, r)
      PROVE  Board!Next
  <2>1. stBar[w] = "idle" /\ stBar' = [stBar EXCEPT ![w] = "called"] /\ errBar' = errBar
    BY <1>0, <1>4 DEF runLocalRPCMethod, stBar, errBar, TypeOK, PCs
  <2>2. Board!Call(w, r)
    BY <1>4, <2>1 DEF runLocalRPCMethod, Board!Call, stBar, errBar
  <2> QED
    BY <2>2 DEF Board!Next
<1>5. ASSUME NEW w \in Workers, getAdd1(w) \/ methodNotFound(w)
      PROVE  Board!Next
  <2>1. CASE getAdd1(w)
    <3>1. Board!Answered(w, Number(Add1(req[w].arg)), "none")
      BY <2>1, FinishAnswers, Replies, Conversions DEF getAdd1, SqlErrors
    <3>2. Board!Compute(w)
      BY <2>1, <3>1, MethodsDiffer, SameData DEF getAdd1, Board!Compute, Board!Untouched, Writes
    <3> QED
      BY <3>2 DEF Board!Next
  <2>2. CASE methodNotFound(w)
    <3>1. Board!Answered(w, Answer("null"), "none")
      BY <2>2, FinishAnswers, Replies DEF methodNotFound, SqlErrors
    <3>2. Board!Compute(w)
      BY <2>2, <3>1, SameData DEF methodNotFound, Board!Compute, Board!Untouched, LocalMethods
    <3> QED
      BY <3>2 DEF Board!Next
  <2> QED
    BY <1>5, <2>1, <2>2
<1>6. ASSUME NEW w \in Workers, LockRW(w) \/ LockRD(w)
      PROVE  UNCHANGED Board!boardVars
  BY <1>0, <1>6, Invisible DEF LockRW, LockRD, TypeOK, PCs
<1>7. ASSUME NEW w \in Workers, createMessage(w)
      PROVE  Board!Next
  <2>1. Insert(req[w]) => Board!Stored(w)
    BY SameData DEF Insert, Board!Stored
  <2>2. ASSUME NEW f \in SqlErrors, NEW t \in {"true", "false"}, Finish(w, Answer(t), f)
        PROVE  Board!Answered(w, Answer(t), f)
    BY <1>7, <2>2, FinishAnswers, Replies DEF createMessage
  <2>3. Board!Create(w)
    BY <1>7, <2>1, <2>2, SameData DEF createMessage, Query, Board!Create, Board!Untouched, SqlErrors
  <2> QED
    BY <2>3 DEF Board!Next
<1>8. ASSUME NEW w \in Workers, removeMessage(w)
      PROVE  Board!Next
  <2>1. Delete(req[w]) => Board!Removed(w)
    BY SameData DEF Delete, Board!Removed
  <2>2. ASSUME NEW f \in SqlErrors, NEW t \in {"true", "false"}, Finish(w, Answer(t), f)
        PROVE  Board!Answered(w, Answer(t), f)
    BY <1>8, <2>2, FinishAnswers, Replies DEF removeMessage
  <2>3. Board!Remove(w)
    BY <1>8, <2>1, <2>2, SameData DEF removeMessage, Query, Board!Remove, Board!Untouched, SqlErrors
  <2> QED
    BY <2>3 DEF Board!Next
<1>9. ASSUME NEW w \in Workers, qSelect(w)
      PROVE  Board!Next \/ UNCHANGED Board!boardVars
  <2>1. CASE pc' = [pc EXCEPT ![w] = "step"] /\ UNCHANGED <<reply, sqlError>>
    BY <1>0, <1>9, <2>1, Invisible DEF qSelect, TypeOK, PCs
  <2>2. CASE Finish(w, RowList(rows[w]), "error")
    <3>1. rows[w] = {} /\ RowList(rows[w]) \in Reply
      BY <1>0, <1>9, Replies DEF qSelect, CallShape, TypeOK
    <3>2. Board!Answered(w, RowList({}), "error")
      BY <1>9, <2>2, <3>1, FinishAnswers DEF qSelect, SqlErrors
    <3>3. Board!List(w)
      BY <1>9, <3>2, SameData DEF qSelect, Board!List, Board!Untouched
    <3> QED
      BY <3>3 DEF Board!Next
  <2> QED
    BY <1>9, <2>1, <2>2 DEF qSelect
<1>10. ASSUME NEW w \in Workers, step(w)
       PROVE  UNCHANGED Board!boardVars
  BY <1>0, <1>10, Invisible DEF step, TypeOK
<1>11. ASSUME NEW w \in Workers, stepEnd(w)
       PROVE  Board!Next
  <2>1. PICK rs \in SUBSET Row, e \in SqlErrors : rs = rows[w] /\ e = sqlError[w]
    BY <1>0 DEF TypeOK
  <2>2. rs \subseteq posts /\ req[w].method = GetMessages
    BY <1>0, <1>11, <2>1 DEF stepEnd, IInv, ListedRowsExist, CallShape
  <2>3. Board!Answered(w, RowList(rs), e)
    BY <1>11, <2>1, FinishAnswers, Replies DEF stepEnd
  <2>4. e = "error" \/ (e = "none" /\ rs = posts)
    BY <1>11, <2>1, <2>2 DEF stepEnd, SqlErrors
  <2>5. Board!Untouched
    BY <1>11 DEF stepEnd, Board!Untouched
  <2>6. Board!List(w)
    BY <2>2, <2>3, <2>4, <2>5, SameData DEF Board!List
  <2> QED
    BY <2>6 DEF Board!Next
<1>12. ASSUME NEW w \in Workers, Return(w)
       PROVE  Board!Next
  <2>1. /\ stBar[w] = "answered" /\ stBar' = [stBar EXCEPT ![w] = "idle"]
        /\ errBar' = [errBar EXCEPT ![w] = "none"]
    BY <1>0, <1>12 DEF Return, stBar, errBar, TypeOK, PCs
  <2>2. Board!Return(w)
    BY <1>12, <2>1, SameData DEF Return, Board!Return, stBar, errBar
  <2> QED
    BY <2>2 DEF Board!Next
<1>13. CASE UNCHANGED vars
  BY <1>0, <1>13, Invisible DEF TypeOK
<1> QED
  BY <1>1, <1>2, <1>3, <1>4, <1>5, <1>6, <1>7, <1>8, <1>9, <1>10, <1>11, <1>12,
     <1>13 DEF Next, Work

\* The concurrent DB class is linearizable: it implements the atomic board.
THEOREM Refinement == Spec => ImplementsBoard
<1>1. Init => Board!Init
  <2>1. Init => stBar = [w \in Workers |-> "idle"] /\ errBar = [w \in Workers |-> "none"]
    BY DEF Init, stBar, errBar
  <2> QED
    BY <2>1, SameData DEF Init, Board!Init, stBar, errBar
<1> QED
  BY <1>1, StepRefines, Invariance, PTL DEF Spec, ImplementsBoard, Board!Spec

\* The table is intact at every moment.
THEOREM Integrity == Spec => []BoardIntact
BY TypeCorrect, Exclusion, ListsStayTrue, UniqueIds, PTL DEF BoardIntact

-----------------------------------------------------------------------------
(* The inductive invariant of the web server.                              *)

\* A thread is inside DB exactly while rmtCaller waits for its local call, and
\* then runs the very call the browser asked for.
LocalShape ==
    \A w \in Workers :
        /\ phase[w] # "local" => pc[w] = "idle"
        /\ phase[w] = "local" => /\ pc[w] # "idle"
                                 /\ req[w] = LocalRequest(call[w])
                                 /\ Validated(call[w])

\* A request in rmtCaller or beyond was admitted with its attribute.
AdmittedShape ==
    \A w \in Workers :
        /\ phase[w] # "free" => call[w] \in HttpCalls
        /\ phase[w] \in {"rmtCaller", "local", "remote"} => call[w].rpc \in allowed[w]

\* Rows are returned by getMessages only, and sent with "stats" only.
RowsShape ==
    \A w \in Workers :
        /\ phase[w] \in {"free", "rmtCaller", "local", "remote"} =>
              answer[w].value.rows = {}
        /\ reply[w].rows # {} => req[w].method = GetMessages

\* The types of what the web server keeps of a request before it is answered.
RequestTypes ==
    /\ phase \in [Workers -> Phases]
    /\ call \in [Workers -> HttpCalls \cup {NoCall}]
    /\ allowed \in [Workers -> SUBSET Attributes]
    /\ grants \in SUBSET (Users \X Attributes)

\* Inductive by itself: requests are typed and admitted whatever DB does.
AdmitInv == RequestTypes /\ AdmittedShape

\* Inductive together with DB's IInv.
WebInv ==
    /\ AdmitInv
    /\ answer \in [Workers -> Answers]
    /\ LocalShape
    /\ RowsShape
    /\ ListsNeedStats

\* The methods that write are control methods, the one that lists is a stats
\* method.
LEMMA NameSpacesOf ==
    /\ \A m \in Writes : m.ns = "control"
    /\ GetMessages.ns = "stats"
BY DEF Writes, CreateMessage, RemoveMessage, GetMessages, Method

-----------------------------------------------------------------------------
(* WebServer drives DB.                                                    *)

\* Every step of the web server is a step of DB, or leaves DB alone.
LEMMA WebStepIsDBStep == AdmittedShape /\ [WebNext]_webVars => [Next]_vars
<1> SUFFICES ASSUME AdmittedShape, [WebNext]_webVars
             PROVE  [Next]_vars
  OBVIOUS
<1>1. CASE (start \/ DropLink \/ RestoreLink) /\ UNCHANGED <<httpVars, grants>>
  BY <1>1 DEF Next
<1>2. CASE WebCrash
  BY <1>2 DEF WebCrash, Next
<1>3. CASE ChangeGrants
  BY <1>3 DEF ChangeGrants
<1>4. ASSUME NEW w \in Workers, NEW h \in HttpCalls, Receive(w, h)
      PROVE  [Next]_vars
  BY <1>4 DEF Receive
<1>5. ASSUME NEW w \in Workers, callLocal(w)
      PROVE  Next
  <2>1. LocalRequest(call[w]) \in Requests
    BY <1>5, WebAssumption DEF callLocal, AdmittedShape
  <2>2. PICK r \in Requests : r = LocalRequest(call[w])
    BY <2>1
  <2> QED
    BY <1>5, <2>2 DEF callLocal, Next
<1>6. ASSUME NEW w \in Workers, localWork(w) \/ localReturn(w)
      PROVE  Next
  BY <1>6 DEF localWork, localReturn, Work, Next
<1>7. ASSUME NEW w \in Workers,
             rejectPrefix(w) \/ callRemote(w) \/ remoteReturn(w) \/ respond(w)
      PROVE  UNCHANGED vars
  BY <1>7 DEF rejectPrefix, callRemote, remoteReturn, respond
<1>8. CASE UNCHANGED webVars
  BY <1>8 DEF webVars
<1> QED
  BY <1>1, <1>2, <1>3, <1>4, <1>5, <1>6, <1>7, <1>8 DEF WebNext, Serve

LEMMA InitAdmitted == WebInit => AdmitInv
<1> SUFFICES ASSUME WebInit PROVE AdmitInv
  OBVIOUS
<1> QED
  BY DEF WebInit, AdmitInv, RequestTypes, AdmittedShape, Phases

\* Admission: rpc and attribute belong together from Receive on.
LEMMA NextAdmitted == AdmitInv /\ [WebNext]_webVars => AdmitInv'
<1> SUFFICES ASSUME AdmitInv, [WebNext]_webVars
             PROVE  AdmitInv'
  OBVIOUS
<1> USE DEF AdmitInv, RequestTypes, AdmittedShape, Phases
<1>1. CASE UNCHANGED <<httpVars, grants>>
  BY <1>1 DEF httpVars
<1>2. CASE WebCrash
  BY <1>2 DEF WebCrash
<1>3. CASE ChangeGrants
  <2>1. grants' \in SUBSET (Users \X Attributes)
    BY <1>3 DEF ChangeGrants
  <2> QED
    BY <1>3, <2>1 DEF ChangeGrants, httpVars
<1>4. ASSUME NEW w \in Workers, NEW h \in HttpCalls, Receive(w, h)
      PROVE  AdmitInv'
  <2>1. h.rpc \in Attributes
    BY WebAssumption DEF HttpCall
  <2>2. /\ phase' \in [Workers -> Phases]
        /\ phase'[w] \in {"rmtCaller", "answered"}
        /\ phase'[w] = "rmtCaller" => <<h.user, h.rpc>> \in grants
        /\ \A v \in Workers \ {w} : phase'[v] = phase[v]
    BY <1>4 DEF Receive
  <2> QED
    BY <1>4, <2>1, <2>2 DEF Receive
<1>5. ASSUME NEW w \in Workers, NEW q \in Phases \ {"free", "rmtCaller"},
             phase[w] # "free",
             q = "answered" \/ phase[w] \in {"rmtCaller", "local", "remote"},
             phase' = [phase EXCEPT ![w] = q], UNCHANGED <<call, allowed, grants>>
      PROVE  AdmitInv'
  BY <1>5
<1>6. ASSUME NEW w \in Workers, respond(w)
      PROVE  AdmitInv'
  BY <1>6 DEF respond
<1>7. ASSUME NEW w \in Workers, Serve(w) \/ remoteReturn(w), ~respond(w), ~localWork(w)
      PROVE  AdmitInv'
  <2>1. PICK q \in Phases \ {"free", "rmtCaller"} :
           /\ q = "answered" \/ phase[w] \in {"rmtCaller", "local", "remote"}
           /\ phase' = [phase EXCEPT ![w] = q]
    BY <1>7 DEF Serve, rejectPrefix, callLocal, localReturn, callRemote,
                remoteReturn, Answered
  <2>2. phase[w] # "free" /\ UNCHANGED <<call, allowed, grants>>
    BY <1>7 DEF Serve, rejectPrefix, callLocal, localReturn, callRemote,
                remoteReturn, Answered
  <2> QED
    BY <1>5, <2>1, <2>2
<1>8. ASSUME NEW w \in Workers, localWork(w)
      PROVE  AdmitInv'
  BY <1>1, <1>8 DEF localWork
<1>9. CASE UNCHANGED webVars
  BY <1>1, <1>9 DEF webVars
<1> QED
  BY <1>1, <1>2, <1>3, <1>4, <1>6, <1>7, <1>8, <1>9 DEF WebNext

\* Requests stay admitted in every behaviour.
THEOREM Admission == WebSpec => []AdmitInv
BY InitAdmitted, NextAdmitted, PTL DEF WebSpec

\* Every behaviour of the web server is one of DB, since its steps are built
\* from DB's: the theorems about Spec carry over.
LEMMA WebDrivesDB == WebSpec => Spec
<1>1. WebInit => Init
  BY DEF WebInit
<1>2. AdmitInv /\ [WebNext]_webVars => [Next]_vars
  BY WebStepIsDBStep DEF AdmitInv
<1> QED
  BY <1>1, <1>2, Admission, PTL DEF WebSpec, Spec

\* The message board behind the web server is atomic.
THEOREM WebImplementsBoard == WebSpec => ImplementsBoard
BY WebDrivesDB, Refinement, PTL

-----------------------------------------------------------------------------
(* What a thread runs, and what it sends.                                  *)

\* A step inside a local method: its worker stays in its method, with the same
\* request, and other workers see nothing of it; only a list has rows.
LEMMA InsideMethod ==
    ASSUME TypeOK, CallShape, NEW w \in Workers, Work(w), pc[w] # "done"
    PROVE  /\ pc[w] # "idle" /\ pc'[w] # "idle" /\ req' = req
           /\ \A v \in Workers \ {w} : pc'[v] = pc[v] /\ reply'[v] = reply[v]
           /\ reply'[w].rows = {} \/ req[w].method = GetMessages
<1> USE DEF TypeOK, CallShape, PCs
<1>1. \A t : Answer(t).rows = {}
  BY DEF Answer, ReplyWith
<1>2. \A n : Number(n).rows = {}
  BY DEF Number, ReplyWith
<1>3. NoReply.rows = {}
  BY DEF NoReply
<1>4. CASE getAdd1(w)
  BY <1>2, <1>4 DEF getAdd1, Finish
<1>5. CASE methodNotFound(w)
  BY <1>1, <1>5 DEF methodNotFound, Finish
<1>6. CASE LockRW(w) \/ LockRD(w)
  BY <1>3, <1>6 DEF LockRW, LockRD
<1>7. CASE createMessage(w) \/ removeMessage(w)
  <2>1. PICK t \in {"true", "false"}, f \in SqlErrors : Finish(w, Answer(t), f)
    BY <1>7 DEF createMessage, removeMessage, Query, SqlErrors
  <2>2. pc[w] = "query" /\ req' = req
    BY <1>7 DEF createMessage, removeMessage
  <2> QED
    BY <1>1, <2>1, <2>2 DEF Finish
<1>8. CASE qSelect(w)
  BY <1>8 DEF qSelect, Finish
<1>9. CASE step(w)
  BY <1>3, <1>9 DEF step
<1>10. CASE stepEnd(w)
  BY <1>10 DEF stepEnd, Finish
<1>11. CASE Return(w)
  BY <1>11 DEF Return
<1> QED
  BY <1>4, <1>5, <1>6, <1>7, <1>8, <1>9, <1>10, <1>11 DEF Work

LEMMA InitWeb == WebInit => WebInv
<1> SUFFICES ASSUME WebInit PROVE WebInv
  OBVIOUS
<1>1. NoReply.rows = {} /\ NoReply \in Reply
  BY Replies DEF NoReply
<1>2. answer \in [Workers -> Answers] /\ \A w \in Workers : answer[w] = NoAnswer
  BY <1>1 DEF WebInit, NoAnswer, Answers
<1> QED
  BY <1>1, <1>2, InitAdmitted
     DEF WebInit, Init, WebInv, LocalShape, RowsShape, ListsNeedStats, NoAnswer

\* The answer of one worker is set, to a value without rows unless its user
\* holds "stats"; its thread is out of DB.
LEMMA AnswerSet ==
    ASSUME WebInv, NEW w \in Workers, NEW f \in {"mismatch", "local", "remote", "failed"},
           NEW v \in Reply, Answered(w, f, v), AdmitInv',
           v.rows # {} => "stats" \in allowed[w],
           pc'[w] = "idle", req'[w] = req[w] \/ reply'[w] = NoReply,
           reply'[w] \in {reply[w], NoReply},
           \A u \in Workers \ {w} : /\ pc'[u] = pc[u] /\ req'[u] = req[u]
                                     /\ reply'[u] = reply[u]
    PROVE  WebInv'
<1>1. [from |-> f, value |-> v] \in Answers
  BY DEF Answers
<1>2. /\ answer' \in [Workers -> Answers] /\ answer'[w].value = v
      /\ \A u \in Workers \ {w} : answer'[u] = answer[u]
  BY <1>1 DEF WebInv, Answered
<1>3. phase'[w] = "answered" /\ \A u \in Workers \ {w} : phase'[u] = phase[u]
  BY DEF WebInv, AdmitInv, RequestTypes, Answered
<1>4. call' = call /\ allowed' = allowed
  BY DEF Answered
<1>5. NoReply.rows = {}
  BY DEF NoReply
<1>6. LocalShape'
  BY <1>3, <1>4 DEF WebInv, LocalShape
<1>7. RowsShape'
  BY <1>2, <1>3, <1>5 DEF WebInv, RowsShape
<1>8. ListsNeedStats'
  BY <1>2, <1>4 DEF WebInv, ListsNeedStats
<1> QED
  BY <1>2, <1>6, <1>7, <1>8 DEF WebInv

LEMMA NextWeb == IInv /\ WebInv /\ [WebNext]_webVars => WebInv'
<1> SUFFICES ASSUME IInv, WebInv, [WebNext]_webVars
             PROVE  WebInv'
  OBVIOUS
<1>a. AdmitInv'
  BY NextAdmitted DEF WebInv
<1>b. TypeOK /\ CallShape /\ AdmitInv /\ RequestTypes
  BY DEF IInv, WebInv, AdmitInv
<1>c. NoReply.rows = {} /\ NoReply \in Reply
  BY Replies DEF NoReply
<1> USE DEF Phases
<1>1. CASE UNCHANGED <<httpVars, pc, req, reply>>
  BY <1>1, <1>a DEF WebInv, httpVars, LocalShape, RowsShape, ListsNeedStats
<1>2. CASE (start \/ DropLink \/ RestoreLink) /\ UNCHANGED <<httpVars, grants>>
  BY <1>1, <1>2 DEF start, DropLink, RestoreLink, callVars
<1>3. CASE WebCrash
  <2>1. NoAnswer \in Answers /\ NoAnswer.value = NoReply
    BY <1>c DEF NoAnswer, Answers
  <2> QED
    BY <1>3, <1>a, <1>c, <2>1
       DEF WebCrash, Crash, WebInv, LocalShape, RowsShape, ListsNeedStats
<1>4. CASE ChangeGrants
  BY <1>1, <1>4 DEF ChangeGrants, vars, callVars
<1>5. ASSUME NEW w \in Workers, NEW h \in HttpCalls, Receive(w, h)
      PROVE  WebInv'
  <2>1. /\ phase[w] = "free" /\ phase'[w] \in {"rmtCaller", "answered"}
        /\ \A v \in Workers \ {w} : phase'[v] = phase[v] /\ call'[v] = call[v]
                                     /\ allowed'[v] = allowed[v]
    BY <1>5, <1>b DEF Receive, RequestTypes
  <2>2. /\ answer' \in [Workers -> Answers] /\ answer'[w].value = answer[w].value
        /\ \A v \in Workers \ {w} : answer'[v] = answer[v]
    <3>1. CASE UNCHANGED answer
      BY <3>1 DEF WebInv
    <3>2. CASE answer' = [answer EXCEPT ![w].from = "refused"]
      <4>1. [answer[w] EXCEPT !.from = "refused"] \in Answers
        BY DEF WebInv, Answers
      <4>2. [answer[w] EXCEPT !.from = "refused"].value = answer[w].value
        BY DEF WebInv, Answers
      <4> QED
        BY <3>2, <4>1, <4>2 DEF WebInv
    <3> QED
      BY <1>5, <3>1, <3>2 DEF Receive
  <2>3. UNCHANGED <<pc, req, reply>>
    BY <1>5 DEF Receive, vars, callVars
  <2>4. LocalShape'
    BY <2>1, <2>3 DEF WebInv, LocalShape
  <2>5. RowsShape' /\ ListsNeedStats'
    BY <2>1, <2>2, <2>3 DEF WebInv, RowsShape, ListsNeedStats
  <2> QED
    BY <1>a, <2>2, <2>4, <2>5 DEF WebInv
<1>6. ASSUME NEW w \in Workers, rejectPrefix(w)
      PROVE  WebInv'
  <2>1. Answer("null") \in Reply /\ Answer("null").rows = {}
    BY Replies DEF Answer, ReplyWith
  <2>2. phase[w] = "rmtCaller" /\ UNCHANGED <<pc, req, reply>>
    BY <1>6 DEF rejectPrefix, vars, callVars
  <2> QED
    BY <1>6, <1>a, <2>1, <2>2, AnswerSet DEF rejectPrefix, WebInv, LocalShape
<1>7. ASSUME NEW w \in Workers, callLocal(w)
      PROVE  WebInv'
  <2>1. /\ pc[w] = "idle" /\ pc'[w] = "run" /\ req'[w] = LocalRequest(call[w])
        /\ \A v \in Workers \ {w} : pc'[v] = pc[v] /\ req'[v] = req[v]
        /\ reply' = reply
    BY <1>7, <1>b DEF callLocal, runLocalRPCMethod, TypeOK
  <2>2. /\ phase[w] = "rmtCaller" /\ phase'[w] = "local" /\ Validated(call[w])
        /\ \A v \in Workers \ {w} : phase'[v] = phase[v]
        /\ UNCHANGED <<call, allowed, answer>>
    BY <1>7, <1>b DEF callLocal, RequestTypes
  <2>3. reply[w] = NoReply
    BY <1>b, <2>1 DEF CallShape
  <2>4. LocalShape'
    BY <2>1, <2>2 DEF WebInv, LocalShape
  <2>5. RowsShape'
    BY <1>c, <2>1, <2>2, <2>3 DEF WebInv, RowsShape
  <2> QED
    BY <1>a, <2>2, <2>4, <2>5 DEF WebInv, ListsNeedStats
<1>8. ASSUME NEW w \in Workers, localWork(w)
      PROVE  WebInv'
  <2>1. /\ pc[w] # "idle" /\ pc'[w] # "idle" /\ req' = req
        /\ \A v \in Workers \ {w} : pc'[v] = pc[v] /\ reply'[v] = reply[v]
        /\ reply'[w].rows = {} \/ req[w].method = GetMessages
    BY <1>8, <1>b, InsideMethod DEF localWork
  <2>2. UNCHANGED <<phase, call, allowed, answer>>
    BY <1>8 DEF localWork, httpVars
  <2>3. LocalShape'
    BY <2>1, <2>2 DEF WebInv, LocalShape
  <2>4. RowsShape'
    BY <2>1, <2>2 DEF WebInv, RowsShape
  <2> QED
    BY <1>a, <2>2, <2>3, <2>4 DEF WebInv, ListsNeedStats
<1>9. ASSUME NEW w \in Workers, localReturn(w)
      PROVE  WebInv'
  <2>1. /\ phase[w] = "local" /\ pc'[w] = "idle" /\ reply'[w] = NoReply
        /\ \A v \in Workers \ {w} : /\ pc'[v] = pc[v] /\ req'[v] = req[v]
                                     /\ reply'[v] = reply[v]
    BY <1>9, <1>b DEF localReturn, Return, TypeOK
  <2>2. PICK v \in Reply : v = reply[w]
    BY <1>b DEF TypeOK
  <2>3. v.rows # {} => "stats" \in allowed[w]
    <3> SUFFICES ASSUME v.rows # {} PROVE "stats" \in allowed[w]
      OBVIOUS
    <3>1. req[w].method = GetMessages
      BY <2>2 DEF WebInv, RowsShape
    <3>2. call[w].method = GetMessages
      <4>1. req[w] = LocalRequest(call[w])
        BY <2>1 DEF WebInv, LocalShape
      <4>2. LocalRequest(call[w]).method = call[w].method
        BY DEF LocalRequest
      <4> QED
        BY <3>1, <4>1, <4>2
    <3>3. call[w].rpc = "stats"
      BY <2>1, <3>2, NameSpacesOf DEF WebInv, LocalShape, Validated
    <3> QED
      BY <1>b, <2>1, <3>3 DEF AdmitInv, AdmittedShape
  <2>4. Answered(w, "local", v)
    BY <1>9, <2>2 DEF localReturn
  <2> QED
    BY <1>a, <2>1, <2>3, <2>4, AnswerSet
<1>10. ASSUME NEW w \in Workers, callRemote(w)
       PROVE  WebInv'
  <2>1. /\ phase[w] = "rmtCaller" /\ phase'[w] = "remote"
        /\ \A v \in Workers \ {w} : phase'[v] = phase[v]
        /\ UNCHANGED <<pc, req, reply, call, allowed, answer>>
    BY <1>10, <1>b DEF callRemote, vars, callVars, RequestTypes
  <2> QED
    BY <1>a, <2>1 DEF WebInv, LocalShape, RowsShape, ListsNeedStats
<1>11. ASSUME NEW w \in Workers, remoteReturn(w)
       PROVE  WebInv'
  <2>1. phase[w] = "remote" /\ UNCHANGED <<pc, req, reply>>
    BY <1>11 DEF remoteReturn, vars, callVars
  <2>2. PICK f \in {"remote", "failed"} : Answered(w, f, NoReply)
    BY <1>11 DEF remoteReturn
  <2> QED
    BY <1>a, <1>c, <2>1, <2>2, AnswerSet DEF WebInv, LocalShape
<1>12. ASSUME NEW w \in Workers, respond(w)
       PROVE  WebInv'
  <2>1. NoAnswer \in Answers /\ NoAnswer.value = NoReply
    BY <1>c DEF NoAnswer, Answers
  <2>2. /\ phase[w] = "answered" /\ phase'[w] = "free"
        /\ \A v \in Workers \ {w} : /\ phase'[v] = phase[v] /\ call'[v] = call[v]
                                     /\ allowed'[v] = allowed[v]
                                     /\ answer'[v] = answer[v]
        /\ answer' \in [Workers -> Answers] /\ answer'[w] = NoAnswer
        /\ UNCHANGED <<pc, req, reply>>
    BY <1>12, <1>b, <2>1 DEF respond, vars, callVars, RequestTypes, WebInv
  <2>3. LocalShape'
    BY <2>2 DEF WebInv, LocalShape
  <2>4. RowsShape' /\ ListsNeedStats'
    BY <1>c, <2>1, <2>2 DEF WebInv, RowsShape, ListsNeedStats
  <2> QED
    BY <1>a, <2>2, <2>3, <2>4 DEF WebInv
<1>13. CASE UNCHANGED webVars
  BY <1>1, <1>13 DEF webVars, vars, callVars
<1> QED
  BY <1>2, <1>3, <1>4, <1>5, <1>6, <1>7, <1>8, <1>9, <1>10, <1>11, <1>12, <1>13
     DEF WebNext, Serve

\* WebInv holds in every state of the program.
THEOREM WebInvariance == WebSpec => []WebInv
<1>1. WebSpec => []IInv
  BY WebDrivesDB, Invariance, PTL
<1> QED
  BY <1>1, InitWeb, NextWeb, PTL DEF WebSpec

\* Every variable of the web server and of DB keeps its type.
THEOREM WebTypeCorrect == WebSpec => []WebTypeOK
<1>1. TypeOK /\ WebInv => WebTypeOK
  BY DEF WebInv, AdmitInv, RequestTypes, WebTypeOK
<1>2. WebSpec => []TypeOK
  BY WebDrivesDB, TypeCorrect, PTL
<1> QED
  BY <1>1, <1>2, WebInvariance, PTL

\* Rows are sent to holders of "stats" only.
THEOREM ListsAreGuarded == WebSpec => []ListsNeedStats
BY WebInvariance, PTL DEF WebInv

\* The table is changed by holders of "control" only, under their own name.
THEOREM WritesAreGuarded == WebSpec => WritesNeedControl
<1> DEFINE Guarded ==
       posts' # posts =>
         \E w \in Workers :
            /\ phase[w] = "local"
            /\ call[w].rpc = "control"
            /\ "control" \in allowed[w]
            /\ \A p \in posts' \ posts : p.createdBy = call[w].user
<1>1. WebInv /\ [WebNext]_webVars => [Guarded]_webVars
  <2> SUFFICES ASSUME WebInv, WebNext, posts' # posts PROVE Guarded
    OBVIOUS
  <2>1. PICK w \in Workers : createMessage(w) \/ removeMessage(w)
    BY ZenonT(40) DEF WebNext, Serve, localWork, localReturn, callLocal, runLocalRPCMethod, Work,
           getAdd1, methodNotFound, LockRW, LockRD, qSelect, step, stepEnd, Return,
           Receive, ChangeGrants, WebCrash, Crash, start, DropLink, RestoreLink,
           rejectPrefix, callRemote, remoteReturn, respond, vars, serverVars
  <2>2. phase[w] = "local"
    BY <2>1 DEF WebInv, LocalShape, createMessage, removeMessage
  <2>3. req[w].method \in Writes /\ req[w] = LocalRequest(call[w])
    BY <2>1, <2>2 DEF WebInv, LocalShape, createMessage, removeMessage, Writes
  <2>4. call[w].rpc = "control" /\ req[w].user = call[w].user
    BY <2>2, <2>3, NameSpacesOf DEF WebInv, LocalShape, Validated, LocalRequest
  <2>5. "control" \in allowed[w]
    BY <2>2, <2>4 DEF WebInv, AdmitInv, AdmittedShape
  <2>6. \A p \in posts' \ posts : p.createdBy = req[w].user
    BY <2>1 DEF createMessage, removeMessage, Query, Insert, Delete
  <2> QED
    BY <2>2, <2>4, <2>5, <2>6
<1> QED
  BY <1>1, WebInvariance, PTL DEF WebSpec, WritesNeedControl

\* Requests and answers are in order at every moment.
THEOREM AnswersAreGuarded == WebSpec => []AnswersGuarded
<1>1. WebTypeOK /\ ListsNeedStats => AnswersGuarded
  BY DEF AnswersGuarded
<1> QED
  BY <1>1, WebTypeCorrect, ListsAreGuarded, PTL

-----------------------------------------------------------------------------
(* The agents' listener.                                                   *)

\* The properties are inductive together.
NodesInv == RPCTypeOK /\ RegistryExact /\ OnlyKeyHolders

LEMMA InitNodes == RPCInit => NodesInv
BY RPCAssumption DEF RPCInit, NodesInv, RPCTypeOK, Stages, RegistryExact, OnlyKeyHolders

\* A connection that is not being served moves on to another such stage, and
\* nothing else changes.
LEMMA Moved ==
    ASSUME NodesInv, NEW c \in Conns, NEW s \in Stages \ {"process"},
           stage[c] # "process", Moves(c, s), UNCHANGED <<cn, keyOK, peer, nodes>>
    PROVE  NodesInv'
<1>1. RPCTypeOK'
  BY DEF Moves, NodesInv, RPCTypeOK
<1>2. \A d \in Conns : stage'[d] = "process" <=> stage[d] = "process"
  BY DEF Moves, NodesInv, RPCTypeOK, Stages
<1>3. RegistryExact'
  BY <1>2 DEF NodesInv, RPCTypeOK, RegistryExact
<1>4. OnlyKeyHolders'
  BY <1>2 DEF NodesInv, OnlyKeyHolders
<1> QED
  BY <1>1, <1>3, <1>4 DEF NodesInv

LEMMA NextNodes == NodesInv /\ [RPCNext]_rpcVars => NodesInv'
<1> SUFFICES ASSUME NodesInv, [RPCNext]_rpcVars PROVE NodesInv'
  OBVIOUS
<1>1. ASSUME NEW c \in Conns, NEW a \in Agents, NEW k \in BOOLEAN, Connect(c, a, k)
      PROVE  NodesInv'
  <2>1. RPCTypeOK'
    BY <1>1 DEF Connect, NodesInv, RPCTypeOK, Stages
  <2>2. \A d \in Conns : stage'[d] = "process" <=> stage[d] = "process"
    BY <1>1 DEF Connect, NodesInv, RPCTypeOK
  <2>3. \A d \in Conns : stage[d] = "process" => cn'[d] = cn[d] /\ keyOK'[d] = keyOK[d]
    BY <1>1 DEF Connect, NodesInv, RPCTypeOK
  <2>4. RegistryExact'
    BY <1>1, <2>2, <2>3 DEF Connect, NodesInv, RPCTypeOK, RegistryExact
  <2>5. OnlyKeyHolders'
    BY <2>2, <2>3 DEF NodesInv, OnlyKeyHolders
  <2> QED
    BY <2>1, <2>4, <2>5 DEF NodesInv
<1>2. ASSUME NEW c \in Conns, PeerGoes(c)
      PROVE  NodesInv'
  BY <1>2 DEF PeerGoes, NodesInv, RPCTypeOK, RegistryExact, OnlyKeyHolders
<1>3. ASSUME NEW c \in Conns, ServeAgent(c), ~register(c), ~terminate(c),
             ~UNCHANGED rpcVars
      PROVE  NodesInv'
  <2>1. PICK s \in Stages \ {"process"} : Moves(c, s)
    BY <1>3 DEF ServeAgent, startThread, callbackOnTimeOut, tlsAccepted, callbackOnInitFailed,
                readComponent, alreadyConnected, invalidApiKey, Close, Stages
  <2>2. stage[c] # "process" /\ UNCHANGED <<cn, keyOK, peer, nodes>>
    BY <1>3 DEF ServeAgent, startThread, callbackOnTimeOut, tlsAccepted, callbackOnInitFailed,
                readComponent, alreadyConnected, invalidApiKey, Close
  <2> QED
    BY <2>1, <2>2, Moved
<1>4. ASSUME NEW c \in Conns, register(c)
      PROVE  NodesInv'
  <2>1. RPCTypeOK'
    BY <1>4 DEF register, Moves, NodesInv, RPCTypeOK, Stages
  <2>2. /\ stage'[c] = "process" /\ nodes'[cn[c]] = c /\ nodes[cn[c]] = NoConn
        /\ \A d \in Conns \ {c} : stage'[d] = stage[d]
        /\ \A a \in Agents \ {cn[c]} : nodes'[a] = nodes[a]
        /\ UNCHANGED <<cn, keyOK>> /\ keyOK[c] /\ stage[c] = "challenge"
    BY <1>4 DEF register, Moves, Authenticated, NodesInv, RPCTypeOK
  <2>3. \A d \in Conns : stage[d] = "process" => cn[d] # cn[c]
    BY <2>2, RPCAssumption DEF NodesInv, RegistryExact
  <2>4. RegistryExact'
    BY <2>2, <2>3 DEF NodesInv, RPCTypeOK, RegistryExact
  <2>5. OnlyKeyHolders'
    BY <2>2 DEF NodesInv, OnlyKeyHolders
  <2> QED
    BY <2>1, <2>4, <2>5 DEF NodesInv
<1>5. ASSUME NEW c \in Conns, terminate(c)
      PROVE  NodesInv'
  <2>1. RPCTypeOK'
    BY <1>5 DEF terminate, Moves, NodesInv, RPCTypeOK, Stages
  <2>2. /\ stage'[c] = "closed" /\ nodes'[cn[c]] = NoConn /\ nodes[cn[c]] = c
        /\ \A d \in Conns \ {c} : stage'[d] = stage[d]
        /\ \A a \in Agents \ {cn[c]} : nodes'[a] = nodes[a]
        /\ UNCHANGED <<cn, keyOK>>
    BY <1>5 DEF terminate, Moves, NodesInv, RPCTypeOK, RegistryExact
  <2>3. \A a \in Agents : nodes[a] = c => a = cn[c]
    BY RPCAssumption DEF NodesInv, RegistryExact
  <2>4. \A d \in Conns \ {c} : stage[d] = "process" => cn[d] # cn[c]
    BY <2>2 DEF NodesInv, RegistryExact
  <2>5. RegistryExact'
    BY <2>2, <2>3, <2>4 DEF NodesInv, RPCTypeOK, RegistryExact
  <2>6. OnlyKeyHolders'
    BY <2>2 DEF NodesInv, OnlyKeyHolders
  <2> QED
    BY <2>1, <2>5, <2>6 DEF NodesInv
<1>6. CASE Restart
  BY <1>6, RPCAssumption DEF Restart, NodesInv, RPCTypeOK, Stages, RegistryExact, OnlyKeyHolders
<1>7. CASE UNCHANGED rpcVars
  BY <1>7 DEF rpcVars, NodesInv, RPCTypeOK, RegistryExact, OnlyKeyHolders
<1> QED
  BY <1>1, <1>2, <1>3, <1>4, <1>5, <1>6, <1>7 DEF RPCNext

\* NodesInv holds in every state.
THEOREM NodesInvariance == RPCSpec => []NodesInv
BY InitNodes, NextNodes, PTL DEF RPCSpec

\* Types of the table of nodes and of the stages of connections.
THEOREM RPCTypeCorrect == RPCSpec => []RPCTypeOK
BY NodesInvariance, PTL DEF NodesInv

\* A name leads to the one connection served for it, and back.
THEOREM Registry == RPCSpec => []RegistryExact
BY NodesInvariance, PTL DEF NodesInv

\* Whoever is served has shown that it knows the API key.
THEOREM KeyHolders == RPCSpec => []OnlyKeyHolders
BY NodesInvariance, PTL DEF NodesInv

\* No second connection takes an agent's name, or frees it.
THEOREM Ownership == RPCSpec => NameKeptByOwner
<1> DEFINE Kept == \A a \in Agents :
                      nodes[a] # NoConn /\ nodes'[a] # nodes[a] =>
                          nodes'[a] = NoConn /\ stage'[nodes[a]] = "closed"
<1>1. NodesInv /\ [RPCNext]_rpcVars => [Kept]_rpcVars
  <2> SUFFICES ASSUME NodesInv, RPCNext, NEW a \in Agents,
                      nodes[a] # NoConn, nodes'[a] # nodes[a]
               PROVE  nodes'[a] = NoConn /\ stage'[nodes[a]] = "closed"
    OBVIOUS
  <2>1. nodes[a] \in Conns /\ stage[nodes[a]] = "process" /\ cn[nodes[a]] = a
    BY DEF NodesInv, RPCTypeOK, RegistryExact
  <2>2. CASE Restart
    BY <2>1, <2>2 DEF Restart
  <2>3. ASSUME NEW c \in Conns, terminate(c)
        PROVE  nodes'[a] = NoConn /\ stage'[nodes[a]] = "closed"
    <3>1. nodes' = [nodes EXCEPT ![cn[c]] = NoConn] /\ nodes[cn[c]] = c /\ Moves(c, "closed")
      BY <2>3 DEF terminate, NodesInv, RegistryExact
    <3>2. cn[c] = a
      BY <3>1
    <3> QED
      BY <3>1, <3>2 DEF Moves, NodesInv, RPCTypeOK
  <2>4. ASSUME NEW c \in Conns, register(c)
        PROVE  FALSE
    <3>1. nodes' = [nodes EXCEPT ![cn[c]] = c] /\ nodes[cn[c]] = NoConn
      BY <2>4 DEF register
    <3> QED
      BY <3>1 DEF NodesInv, RPCTypeOK
  <2>5. ASSUME NEW c \in Conns, ServeAgent(c), ~register(c), ~terminate(c)
        PROVE  nodes' = nodes
    BY <2>5 DEF ServeAgent, startThread, callbackOnTimeOut, tlsAccepted, callbackOnInitFailed,
                readComponent, alreadyConnected, invalidApiKey, Close
  <2> QED
    BY <2>2, <2>3, <2>4, <2>5 DEF RPCNext, Connect, PeerGoes
<1> QED
  BY <1>1, NodesInvariance, PTL DEF RPCSpec, NameKeptByOwner

\* The table of nodes is sound at every moment.
THEOREM Soundness == RPCSpec => []NodesSound
BY RPCTypeCorrect, Registry, KeyHolders, PTL DEF NodesSound

-----------------------------------------------------------------------------
(* The start of the program.                                               *)

\* The points at which the program has begun to run, one after the other.
Configuring == {"off", "dir", "mode", "ini"}
Attributing == {"exist", "add"}
Serving     == {"static", "load", "ready"}

\* What has been set up is told by where the main thread is.
UpShape ==
    /\ at \in Configuring => up = {}
    /\ at = "db" => up = {"logs"}
    /\ at \in {"login", "keys"} => up = {"logs", "db"}
    /\ at = "listen" => up = {"logs", "db", "fastRPC"}
    /\ at \in {"web", "root"} \cup Attributing => up = {"logs", "db", "fastRPC", "rpc"}
    /\ at \in Serving => up = Parts
    /\ at \in Configuring \cup {"db", "login"} => login = "off"
    /\ at \notin {"off", "dir", "mode"} => mode = "0600"

\* The attributes are there once createWebServer has passed them.
AttrShape ==
    /\ at \in Configuring \cup {"db", "login", "keys", "listen", "web"} => attr = "control"
    /\ at \in Attributing /\ attr = "stats" => "control" \in attribs
    /\ at \in {"root"} \cup Serving => attribs = Attribs

\* What is served already and what is still in the list make up what was
\* offered, or nothing.
ContentShape ==
    /\ at \notin {"load", "ready"} => content = {} /\ todo = <<>>
    /\ at \in {"load", "ready"} =>
          content \cup (ToSet(todo) \cap Elements)
             \in {{}, ToSet(Offered) \cap Elements}
    /\ at = "ready" => todo = <<>>

StartInv == StartTypeOK /\ UpShape /\ AttrShape /\ ContentShape

\* The set of a sequence is that of its head and tail.
LEMMA HeadAndTail ==
    ASSUME NEW S, NEW s \in Seq(S), s # <<>>
    PROVE  Head(s) \in S /\ Tail(s) \in Seq(S) /\ ToSet(s) = {Head(s)} \cup ToSet(Tail(s))
<1>1. Head(s) = s[1] /\ Head(s) \in S /\ Tail(s) \in Seq(S) /\ Len(s) \in Nat \ {0}
  OBVIOUS
<1>2. DOMAIN s = 1..Len(s) /\ DOMAIN Tail(s) = 1..(Len(s) - 1)
  OBVIOUS
<1>3. \A i \in 1..(Len(s) - 1) : Tail(s)[i] = s[i + 1]
  OBVIOUS
<1>4. ASSUME NEW i \in 1..Len(s), i # 1
      PROVE  i - 1 \in 1..(Len(s) - 1) /\ s[i] = Tail(s)[i - 1]
  <2>1. i - 1 \in 1..(Len(s) - 1) /\ (i - 1) + 1 = i
    BY <1>1, <1>4
  <2>2. Tail(s)[i - 1] = s[(i - 1) + 1]
    BY <1>3, <2>1
  <2> QED
    BY <2>1, <2>2
<1>5. ASSUME NEW i \in 1..(Len(s) - 1)
      PROVE  i + 1 \in 1..Len(s)
  BY <1>1
<1>6. 1 \in 1..Len(s)
  BY <1>1
<1>7. ASSUME NEW x \in ToSet(s) PROVE x \in {Head(s)} \cup ToSet(Tail(s))
  BY <1>1, <1>2, <1>4, ZenonT(40) DEF ToSet
<1>8. ASSUME NEW x \in {Head(s)} \cup ToSet(Tail(s)) PROVE x \in ToSet(s)
  BY <1>1, <1>2, <1>3, <1>5, <1>6 DEF ToSet
<1> QED
  BY <1>1, <1>7, <1>8

LEMMA EmptySet == ToSet(<<>>) = {}
BY DEF ToSet

LEMMA InitStart == StartInit => StartInv
BY EmptySet DEF StartInit, StartInv, StartTypeOK, Points, Checks, UpShape, AttrShape, ContentShape,
       Configuring, Attributing, Serving, Attribs

\* A program that ends leaves nothing in memory.
LEMMA ExitShape ==
    ASSUME StartInv, Exit, attribs' \in SUBSET Attribs
    PROVE  StartInv'
BY EmptySet DEF Exit, StartInv, StartTypeOK, Points, Checks, UpShape, AttrShape, ContentShape,
       Configuring, Attributing, Serving, Attribs

LEMMA NextStart == StartInv /\ [StartNext]_startVars => StartInv'
<1> SUFFICES ASSUME StartInv, [StartNext]_startVars PROVE StartInv'
  OBVIOUS
<1> USE DEF Points, Checks, Configuring, Attributing, Serving, Attribs, Parts
<1>1. CASE boot \/ accessOK \/ checkMode \/ read_ini \/ startDB \/ startLogin
           \/ loadRPCKeys \/ listenRPC \/ listenWeb \/ acceptWeb \/ attribExistFails
  <2> USE <1>1 DEF boot, accessOK, checkMode, read_ini, startDB, startLogin, loadRPCKeys,
          listenRPC, listenWeb, acceptWeb, attribExistFails, Step, contents
  <2>1. StartTypeOK'
    BY DEF StartInv, StartTypeOK
  <2>2. UpShape'
    BY ZenonT(40) DEF StartInv, StartTypeOK, UpShape
  <2>3. AttrShape'
    BY DEF StartInv, StartTypeOK, AttrShape
  <2>4. ContentShape'
    BY DEF StartInv, StartTypeOK, ContentShape
  <2> QED
    BY <2>1, <2>2, <2>3, <2>4 DEF StartInv
<1>2. ASSUME at \in Attributing, NextAttr, attribs' \in SUBSET Attribs,
             attribs \cup {attr} \subseteq attribs'
      PROVE  StartInv'
  <2> USE <1>2 DEF NextAttr, contents
  <2>1. StartTypeOK'
    BY DEF StartInv, StartTypeOK
  <2>2. UpShape'
    BY DEF StartInv, UpShape
  <2>3. AttrShape'
    BY ZenonT(40) DEF StartInv, StartTypeOK, AttrShape
  <2>4. ContentShape'
    BY DEF StartInv, ContentShape
  <2> QED
    BY <2>1, <2>2, <2>3, <2>4 DEF StartInv
<1>3. CASE attribExist
  <2>1. CASE attr \in attribs
    BY <1>2, <1>3, <2>1 DEF attribExist, StartInv, StartTypeOK
  <2>2. CASE attr \notin attribs
    BY <1>3, <2>2 DEF attribExist, contents, StartInv, StartTypeOK, UpShape, AttrShape, ContentShape
  <2> QED
    BY <2>1, <2>2
<1>4. CASE attribAdd
  <2>1. attribs' \in SUBSET Attribs /\ attribs \cup {attr} \subseteq attribs' /\ at \in Attributing
    BY <1>4 DEF attribAdd, StartInv, StartTypeOK
  <2> QED
    BY <1>2, <1>4, <2>1, ExitShape DEF attribAdd
<1>5. CASE attribAddFails \/ CheckFails \/ ProgramDies
  <2>1. attribs' \in SUBSET Attribs /\ Exit
    BY <1>5 DEF attribAddFails, Unanswered, CheckFails, ProgramDies, StartInv, StartTypeOK
  <2> QED
    BY <2>1, ExitShape
<1>6. ASSUME NEW list, list \in {Offered, <<>>}, getStaticContent(list)
      PROVE  StartInv'
  <2>1. list \in Seq(Elements \cup {"bad"})
    <3>1. <<>> \in Seq(Elements \cup {"bad"})
      OBVIOUS
    <3> QED
      BY <1>6, <3>1, StartupAssumption
  <2>2. ToSet(list) \cap Elements \in {{}, ToSet(Offered) \cap Elements}
    BY <1>6, EmptySet
  <2>3. StartTypeOK'
    BY <1>6, <2>1 DEF getStaticContent, Step, StartInv, StartTypeOK
  <2>4. UpShape' /\ AttrShape'
    BY <1>6 DEF getStaticContent, Step, StartInv, StartTypeOK, UpShape, AttrShape
  <2>5. ContentShape'
    BY <1>6, <2>2 DEF getStaticContent, Step, StartInv, ContentShape
  <2> QED
    BY <2>3, <2>4, <2>5 DEF StartInv
<1>7. CASE addContent
  <2>1. CASE todo = <<>>
    BY <1>7, <2>1 DEF addContent, contents, outside, StartInv, StartTypeOK, UpShape, AttrShape,
                      ContentShape
  <2>2. CASE todo # <<>>
    <3>1. /\ at = "load" /\ UNCHANGED <<at, up, login, attr, mode, attribs>>
          /\ content' = content \cup ({Head(todo)} \cap Elements)
          /\ todo' = Tail(todo)
      BY <1>7, <2>2 DEF addContent, outside
    <3>2. Tail(todo) \in Seq(Elements \cup {"bad"}) /\ ToSet(todo) = {Head(todo)} \cup ToSet(Tail(todo))
      BY <2>2, HeadAndTail DEF StartInv, StartTypeOK
    <3>3. content' \cup (ToSet(todo') \cap Elements) = content \cup (ToSet(todo) \cap Elements)
      BY <3>1, <3>2
    <3>4. ContentShape'
      BY <3>1, <3>3 DEF StartInv, ContentShape
    <3> QED
      BY <3>1, <3>2, <3>4 DEF StartInv, StartTypeOK, UpShape, AttrShape
  <2> QED
    BY <2>1, <2>2
<1>8. CASE loginConnects \/ loginDisconnects
  BY <1>8 DEF loginConnects, loginDisconnects, Becomes, contents, outside,
              StartInv, StartTypeOK, UpShape, AttrShape, ContentShape
<1>9. CASE UNCHANGED startVars
  BY <1>9 DEF startVars, contents, outside, StartInv, StartTypeOK, UpShape, AttrShape, ContentShape
<1> QED
  BY <1>1, <1>3, <1>4, <1>5, <1>6, <1>7, <1>8, <1>9 DEF StartNext, Progress, Fault

\* StartInv holds in every state.
THEOREM StartInvariance == StartSpec => []StartInv
BY InitStart, NextStart, PTL DEF StartSpec

\* Types of the globals and of what has been read of the files.
THEOREM StartTypeCorrect == StartSpec => []StartTypeOK
BY StartInvariance, PTL DEF StartInv

\* Every thread finds the globals it uses.
THEOREM GlobalsAreSet == StartSpec => []ThreadsHaveGlobals
<1>1. StartInv => ThreadsHaveGlobals
  BY DEF StartInv, StartTypeOK, Points, Checks, UpShape, ThreadsHaveGlobals,
         Configuring, Attributing, Serving, Parts
<1> QED
  BY <1>1, StartInvariance, PTL

\* Browsers are let in with both attributes in place, and agents before them.
THEOREM ServesGuarded == StartSpec => []ServingIsGuarded
<1>1. StartInv => ServingIsGuarded
  BY DEF StartInv, StartTypeOK, Points, Checks, UpShape, AttrShape, ServingIsGuarded,
         Configuring, Attributing, Serving, Parts
<1> QED
  BY <1>1, StartInvariance, PTL

\* Secrets are read from a private file only.
THEOREM PrivateSecrets == StartSpec => []SecretsPrivate
<1>1. StartInv => SecretsPrivate
  BY DEF StartInv, UpShape, SecretsPrivate, Configuring
<1> QED
  BY <1>1, StartInvariance, PTL

\* The static contents are all there, or none is.
THEOREM AllContent == StartSpec => []ContentLoaded
<1>1. StartInv => ContentLoaded
  BY EmptySet DEF StartInv, ContentShape, ContentLoaded
<1> QED
  BY <1>1, StartInvariance, PTL

\* Nothing happens before what it needs.
THEOREM Order == StartSpec => []StartsInOrder
BY StartTypeCorrect, GlobalsAreSet, ServesGuarded, PrivateSecrets, PTL DEF StartsInOrder
=============================================================================
