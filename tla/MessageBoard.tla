---------------------------- MODULE MessageBoard ----------------------------
(***************************************************************************)
(* What the message board promises its callers: every call takes effect in *)
(* one atomic step between its invocation and its return.  A call whose    *)
(* SQL statement failed (sqlError) promises less: a write may or may not   *)
(* have happened and answers false, a list may be cut short and still      *)
(* looks like a list.                                                      *)
(***************************************************************************)
EXTENDS BoardData

VARIABLES
    table,     \* the rows of the board
    nextId,    \* the id of the next row
    st,        \* per worker: "idle", "called" or "answered"
    req,       \* per worker: the call it serves
    ans,       \* per worker: the answer computed for it
    sqlError   \* per worker: "error" if its SQL statement failed, else "none"

boardVars == <<table, nextId, st, req, ans, sqlError>>

Init ==
    /\ table = {}
    /\ nextId = 1
    /\ st = [w \in Workers |-> "idle"]
    /\ req = [w \in Workers |-> NoRequest]
    /\ ans = [w \in Workers |-> NoReply]
    /\ sqlError = [w \in Workers |-> "none"]

Call(w, r) ==
    /\ st[w] = "idle"
    /\ st' = [st EXCEPT ![w] = "called"]
    /\ req' = [req EXCEPT ![w] = r]
    /\ UNCHANGED <<table, nextId, ans, sqlError>>

\* w's call takes effect: the table changes as given and w holds its answer.
Answered(w, a, e) ==
    /\ st[w] = "called"
    /\ st' = [st EXCEPT ![w] = "answered"]
    /\ ans' = [ans EXCEPT ![w] = a]
    /\ sqlError' = [sqlError EXCEPT ![w] = e]
    /\ UNCHANGED req

Stored(w) ==
    /\ nextId <= MaxId
    /\ table' = table \cup {[id |-> nextId, message |-> AsString(req[w].arg),
                             createdBy |-> req[w].user]}
    /\ nextId' = nextId + 1

Removed(w) ==
    /\ table' = {r \in table : r.id # PostId(req[w])}
    /\ UNCHANGED nextId

Untouched == UNCHANGED <<table, nextId>>

\* A write answers true only if it took effect, and false only if the
\* statement failed.
Create(w) ==
    /\ req[w].method = CreateMessage
    /\ \/ Stored(w) /\ Answered(w, Answer("true"), "none")
       \/ (Stored(w) \/ Untouched) /\ Answered(w, Answer("false"), "error")

Remove(w) ==
    /\ req[w].method = RemoveMessage
    /\ \/ Removed(w) /\ Answered(w, Answer("true"), "none")
       \/ (Removed(w) \/ Untouched) /\ Answered(w, Answer("false"), "error")

\* A list is the whole table at one instant, or part of it after an error.
List(w) ==
    /\ req[w].method = GetMessages
    /\ Untouched
    /\ \/ Answered(w, RowList(table), "none")
       \/ \E rs \in SUBSET table : Answered(w, RowList(rs), "error")

\* getAdd1 and unknown methods do not touch the table.
Compute(w) ==
    /\ req[w].method \notin {CreateMessage, RemoveMessage, GetMessages}
    /\ Untouched
    /\ Answered(w, IF req[w].method = GetAdd1 THEN Number(Add1(req[w].arg))
                   ELSE Answer("null"), "none")

Return(w) ==
    /\ st[w] = "answered"
    /\ st' = [st EXCEPT ![w] = "idle"]
    /\ req' = [req EXCEPT ![w] = NoRequest]
    /\ ans' = [ans EXCEPT ![w] = NoReply]
    /\ sqlError' = [sqlError EXCEPT ![w] = "none"]
    /\ UNCHANGED <<table, nextId>>

\* The program dies: its calls are gone, the table is not.
Crash ==
    /\ st' = [w \in Workers |-> "idle"]
    /\ req' = [w \in Workers |-> NoRequest]
    /\ ans' = [w \in Workers |-> NoReply]
    /\ sqlError' = [w \in Workers |-> "none"]
    /\ UNCHANGED <<table, nextId>>

Next ==
    \/ \E w \in Workers :
          \/ \E r \in Requests : Call(w, r)
          \/ Create(w) \/ Remove(w) \/ List(w) \/ Compute(w)
          \/ Return(w)
    \/ Crash

Spec == Init /\ [][Next]_boardVars
=============================================================================
