----------------------------- MODULE BoardData -----------------------------
(***************************************************************************)
(* The data of the message board: rows of the table `posts`, the local RPC *)
(* methods, the JSON payload field a method reads, and what a method       *)
(* returns.  Texts and JSON values are abstract; integers keep the bounds  *)
(* of uint32_t (MaxUInt) and of the AUTO_INCREMENT column (MaxId).         *)
(***************************************************************************)
EXTENDS Integers

CONSTANTS
    Workers,        \* threads of the web server's pool, each runs one call
    Users,          \* what sess->getAuthUser() can return
    Messages,       \* the message texts that fit VARCHAR(1024)
    EmptyMessage,   \* the text ""
    Args,           \* JSON values found under the field a method reads
    Requests,       \* the calls the web server makes
    MaxId,          \* largest value of the INTEGER AUTO_INCREMENT column
    MaxUInt         \* largest uint32_t, 2^32 - 1 in the program

\* A method name is the namespace before the dot and the name after it.
Method(ns, name) == [ns |-> ns, name |-> name]

GetAdd1       == Method("stats", "getAdd1")
GetMessages   == Method("stats", "getMessages")
CreateMessage == Method("control", "createMessage")
RemoveMessage == Method("control", "removeMessage")

\* The methods runLocalRPCMethod knows, and the names a request may carry.
LocalMethods == {GetAdd1, GetMessages, CreateMessage, RemoveMessage}
NameSpaces   == {"stats", "control", "other"}
MethodNames  == [ns : NameSpaces,
                 name : {"getAdd1", "getMessages", "createMessage",
                         "removeMessage", "other"}]

\* One call of runLocalRPCMethod; arg is the payload field the method reads.
Request   == [method : MethodNames, user : Users, arg : Args]
NoRequest == [method |-> Method("none", "none")]

ASSUME BoardAssumption ==
    /\ EmptyMessage \in Messages
    /\ MaxId \in Nat \ {0}
    /\ MaxUInt \in Nat
    /\ MaxId <= MaxUInt
    /\ Requests \subseteq Request

\* One row of `posts` (creationDate is not told apart by any property).
Row == [id : 1..MaxId, message : Messages, createdBy : Users]

\* JSON_ASSTRING(payload, field, "") and JSON_ASUINT(payload, field, 0): the
\* default stands in for a missing field and for a value of another type.
AsString(v) == IF v \in Messages THEN v ELSE EmptyMessage
AsUInt(v)   == IF v \in 0..MaxUInt THEN v ELSE 0

\* The id a removeMessage names.
PostId(r) == AsUInt(r.arg)

\* Mutant of Add1: arithmetic wider than uint32_t.
Add1Unwrapped(v) == AsUInt(v) + 1

\* getAdd1 computes on uint32_t, which wraps.
Add1(v) == (AsUInt(v) + 1) % (MaxUInt + 1)

\* What runLocalRPCMethod returns: the JSON value (a list of rows, a number,
\* a Boolean or null) and the errorId it leaves in *error.
Reply == [tag : {"none", "null", "true", "false", "rows", "number"},
          rows : SUBSET Row, num : 0..MaxUInt, errorId : {0, 1}]

NoReply == [tag |-> "none", rows |-> {}, num |-> 0, errorId |-> 0]

\* The closing block of runLocalRPCMethod overwrites whatever errorId a branch
\* has stored, so every reply leaves with errorId 0, "Execution OK.".
ReplyWith(t, rs, n) == [tag |-> t, rows |-> rs, num |-> n, errorId |-> 0]

Answer(t)   == ReplyWith(t, {}, 0)
Number(n)   == ReplyWith("number", {}, n)
\* A list without rows was never assigned: it is sent as JSON null.
RowList(rs) == ReplyWith(IF rs = {} THEN "null" ELSE "rows", rs, 0)
=============================================================================
