----------------------------- MODULE Page1Proofs -----------------------------
(***************************************************************************)
(* Proofs about Page1 for any number of tabs, users and threads of the     *)
(* server: however old the list of a tab is and in whatever order answers  *)
(* come, a click removes the row it is beside or nothing, and a tab shows  *)
(* what it was told.                                                       *)
(***************************************************************************)
EXTENDS Page1, TLAPS

\* The requests that page 1 makes.
Asked == [method : {GetMessages, CreateMessage, RemoveMessage}, user : Users,
          arg : Messages \cup {Absent} \cup 1..MaxId]

Serving == [tab : Tabs, load : Nat \ {0}, row : Row \cup {NoRow}]

\* The types of what tabs and threads keep.
Types ==
    /\ table \subseteq Row /\ nextId \in 1..(MaxId + 1)
    /\ st \in [Workers -> {"idle", "called", "answered"}]
    /\ req \in [Workers -> Asked \cup {NoRequest}]
    /\ ans \in [Workers -> Reply]
    /\ sqlError \in [Workers -> {"none", "error"}]
    /\ load \in [Tabs -> Nat \ {0}]
    /\ page \in [Tabs -> {"blank", "asked", "drawn"}]
    /\ shown \in [Tabs -> SUBSET Row]
    /\ \A t \in Tabs : shown[t] # {} => page[t] = "drawn"
    /\ whole \in [Tabs -> BOOLEAN]
    /\ call \in [Workers -> Serving \cup {NoCall}]
    /\ effect \in [Workers -> SUBSET Row]
    /\ added \in [Tabs -> SUBSET Row]
    /\ removed \in [Tabs -> SUBSET (0..MaxUInt)]

\* A row that is or was on the board: its id is used, for it and no other row.
Known(r) == r.id < nextId /\ \A s \in table : s.id = r.id => s = r

\* An id that is used and not on the board.
Gone(i) == i < nextId /\ \A s \in table : s.id # i

\* Whatever anybody has seen of the board was once on it.
SeenWasThere ==
    /\ \A r \in table : Known(r)
    /\ \A w \in Workers : \A r \in effect[w] \cup ans[w].rows : Known(r)
    /\ \A t \in Tabs : /\ \A r \in shown[t] \cup added[t] : Known(r)
                       /\ \A i \in removed[t] : Gone(i)

\* A thread that serves a page knows which load of it asked, and of a removal
\* the row whose button was pressed.
ServesClick(w) ==
    /\ call[w] \in Serving /\ req[w] \in Asked
    /\ call[w].load <= load[call[w].tab]
    /\ req[w].method = RemoveMessage =>
          /\ call[w].row \in Row /\ Known(call[w].row)
          /\ PostId(req[w]) = call[w].row.id

CallsServeClicks ==
    \A w \in Workers : IF st[w] = "idle" THEN call[w] = NoCall ELSE ServesClick(w)

\* The answers on their way: a removal answered true is done; a list for a page
\* that is still there has what its tab was told by now, as the page would not
\* be there if it had been told of anything since.
AnswerIsGood(w) ==
    /\ req[w].method = RemoveMessage /\ ans[w] = Answer("true") => Gone(PostId(req[w]))
    /\ req[w].method = GetMessages /\ Current(w) =>
          /\ \A r \in ans[w].rows : r.id \notin removed[call[w].tab]
          /\ sqlError[w] = "none" => added[call[w].tab] \cap table \subseteq ans[w].rows

AnswersAreGood == \A w \in Workers : st[w] = "answered" => AnswerIsGood(w)

PageInv ==
    /\ Types /\ SeenWasThere /\ CallsServeClicks /\ AnswersAreGood
    /\ OwnAddsShown /\ OwnRemovalsGone
-----------------------------------------------------------------------------
LEMMA MethodsDiffer ==
    /\ GetMessages # CreateMessage /\ GetMessages # RemoveMessage
    /\ CreateMessage # RemoveMessage
BY DEF GetMessages, CreateMessage, RemoveMessage, Method

LEMMA InitPage == PageInit => PageInv
<1> SUFFICES ASSUME PageInit PROVE PageInv
  OBVIOUS
<1>1. Types
  <2>1. NoReply \in Reply
    BY BoardAssumption DEF NoReply, Reply
  <2> QED
    BY <2>1 DEF PageInit, Types
<1>2. SeenWasThere
  BY DEF PageInit, SeenWasThere, UsedBoard, Known, NoReply
<1>3. CallsServeClicks /\ AnswersAreGood /\ OwnAddsShown /\ OwnRemovalsGone
  BY DEF PageInit, CallsServeClicks, AnswersAreGood, OwnAddsShown, OwnRemovalsGone
<1> QED
  BY <1>1, <1>2, <1>3 DEF PageInv

\* The board forgets no row it has shown and gives no id twice.
Remembers ==
    /\ \A r \in Row : Known(r) => Known(r)'
    /\ \A i \in 0..MaxUInt : Gone(i) => Gone(i)'

LEMMA UntouchedRemembers == table' = table /\ nextId' = nextId => Remembers
BY DEF Remembers, Known, Gone

\* What a click makes of it: a request for w, with the row the button is beside.
Sends(t, w, method, arg, row) ==
    /\ ajax(t, w, method, arg, row)
    /\ method = RemoveMessage => row \in shown[t] /\ arg = row.id

LEMMA ClicksSend ==
    ASSUME PageInv, NEW t \in Tabs, NEW w \in Workers, Clicks(t, w)
    PROVE  \E method \in {GetMessages, CreateMessage, RemoveMessage},
              arg \in Messages \cup {Absent} \cup 1..MaxId, row \in Row \cup {NoRow} :
              Sends(t, w, method, arg, row)
<1>1. CASE requestPage1View(t, w)
  <2>1. Sends(t, w, GetMessages, Absent, NoRow)
    BY <1>1, MethodsDiffer DEF requestPage1View, Sends
  <2> QED
    BY <2>1
<1>2. ASSUME NEW m \in Messages, addMessage(t, w, m)
      PROVE  Sends(t, w, CreateMessage, m, NoRow)
  BY <1>2, MethodsDiffer DEF addMessage, Sends
<1>3. ASSUME NEW r \in shown[t], removeMessage(t, w, r)
      PROVE  r \in Row /\ r.id \in 1..MaxId /\ Sends(t, w, RemoveMessage, r.id, r)
  BY <1>3 DEF removeMessage, Sends, PageInv, Types, Row
<1> QED
  BY <1>1, <1>2, <1>3 DEF Clicks

LEMMA ClickKeeps ==
    ASSUME PageInv, NEW t \in Tabs, NEW w \in Workers, Clicks(t, w)
    PROVE  PageInv'
<1>1. PICK method \in {GetMessages, CreateMessage, RemoveMessage},
           arg \in Messages \cup {Absent} \cup 1..MaxId, row \in Row \cup {NoRow} :
              Sends(t, w, method, arg, row)
  BY ClicksSend
<1>2. /\ st[w] = "idle" /\ st' = [st EXCEPT ![w] = "called"]
      /\ req' = [req EXCEPT ![w] = [method |-> method, user |-> UserOf[t], arg |-> arg]]
      /\ call' = [call EXCEPT ![w] = [tab |-> t, load |-> load[t], row |-> row]]
      /\ effect' = [effect EXCEPT ![w] = {}]
      /\ UNCHANGED <<table, nextId, ans, sqlError, added, removed>>
  BY <1>1 DEF Sends, ajax, Call, toldVars
<1>3. UNCHANGED <<load, shown, whole>>
      /\ page' \in [Tabs -> {"blank", "asked", "drawn"}]
      /\ \A u \in Tabs : page'[u] # page[u] => page[u] = "blank" /\ page'[u] = "asked"
  BY DEF Clicks, requestPage1View, addMessage, removeMessage, pageVars, PageInv, Types
<1>4. /\ [method |-> method, user |-> UserOf[t], arg |-> arg] \in Asked
      /\ [tab |-> t, load |-> load[t], row |-> row] \in Serving
  BY PageAssumption DEF Asked, Serving, PageInv, Types
<1>5. Types'
  BY <1>2, <1>3, <1>4 DEF PageInv, Types
<1>6. Remembers
  BY <1>2, UntouchedRemembers
<1>7. SeenWasThere'
  BY <1>2, <1>3 DEF PageInv, Types, SeenWasThere, Known, Gone
<1>8. CallsServeClicks'
  <2>1. ServesClick(w)'
    <3>1. /\ call'[w] = [tab |-> t, load |-> load[t], row |-> row]
          /\ req'[w] = [method |-> method, user |-> UserOf[t], arg |-> arg]
      BY <1>2 DEF PageInv, Types
    <3>2. call'[w].load <= load'[call'[w].tab]
      BY <1>3, <3>1 DEF PageInv, Types
    <3>3. ASSUME req'[w].method = RemoveMessage
          PROVE  /\ row \in Row /\ Known(row)' /\ AsUInt(arg) = row.id
      <4>1. row \in shown[t] /\ arg = row.id
        BY <1>1, <3>1, <3>3 DEF Sends
      <4>2. row \in Row /\ Known(row) /\ row.id \in 1..MaxId
        BY <4>1 DEF PageInv, Types, SeenWasThere, Row
      <4> QED
        BY <1>2, <4>1, <4>2, BoardAssumption DEF Known, AsUInt
    <3> QED
      BY <1>4, <3>1, <3>2, <3>3 DEF ServesClick, PostId
  <2>2. ASSUME NEW v \in Workers, v # w
        PROVE  /\ st'[v] = st[v] /\ call'[v] = call[v]
               /\ ServesClick(v) => ServesClick(v)'
    BY <1>2, <1>3, <2>2 DEF PageInv, Types, ServesClick, Known, PostId
  <2>3. st'[w] = "called"
    BY <1>2 DEF PageInv, Types
  <2> QED
    BY <2>1, <2>2, <2>3 DEF PageInv, CallsServeClicks
<1>9. AnswersAreGood'
  <2>1. ASSUME NEW v \in Workers, st'[v] = "answered"
        PROVE  AnswerIsGood(v)'
    <3>1. v # w /\ st[v] = "answered" /\ req'[v] = req[v] /\ call'[v] = call[v]
      BY <1>2, <2>1 DEF PageInv, Types
    <3>2. AnswerIsGood(v)
      BY <3>1 DEF PageInv, AnswersAreGood
    <3> QED
      BY <1>2, <1>3, <3>1, <3>2 DEF AnswerIsGood, Gone, Current
  <2> QED
    BY <2>1 DEF AnswersAreGood
<1>10. OwnAddsShown' /\ OwnRemovalsGone'
  BY <1>2, <1>3 DEF PageInv, Types, OwnAddsShown, OwnRemovalsGone
<1> QED
  BY <1>5, <1>7, <1>8, <1>9, <1>10 DEF PageInv

\* What executing a call does to the board: nothing, a new row under the next
\* id, or one id less.
LEMMA ExecuteRemembers ==
    ASSUME PageInv, NEW w \in Workers, Create(w) \/ Remove(w) \/ List(w)
    PROVE  /\ table' \subseteq Row /\ nextId' \in 1..(MaxId + 1)
           /\ Remembers
           /\ \A r \in table' : Known(r)'
           /\ \A r \in table' \ table : r.id = nextId
           /\ req[w].method # CreateMessage => table' \subseteq table
<1>1. /\ table \subseteq Row /\ nextId \in 1..(MaxId + 1) /\ MaxId \in Nat /\ MaxUInt \in Nat
      /\ \A r \in table : r.id < nextId /\ \A s \in table : s.id = r.id => s = r
  BY BoardAssumption DEF PageInv, Types, SeenWasThere, Known
<1>2. st[w] = "called" /\ req[w] \in Asked
  BY DEF Create, Remove, List, Answered, PageInv, CallsServeClicks, ServesClick
<1>3. CASE Untouched
  BY <1>1, <1>3, UntouchedRemembers DEF Untouched, Known
<1>4. CASE Stored(w) /\ req[w].method = CreateMessage
  <2> DEFINE new == [id |-> nextId, message |-> AsString(req[w].arg), createdBy |-> req[w].user]
  <2>1. new \in Row /\ table' = table \cup {new} /\ nextId' = nextId + 1 /\ nextId <= MaxId
    BY <1>1, <1>2, <1>4, BoardAssumption DEF Stored, Row, AsString, Asked
  <2>2. \A r \in Row : r.id \in Int
    BY <1>1 DEF Row
  <2>3. new.id = nextId
    OBVIOUS
  <2>4. \A r \in Row : Known(r) => Known(r)'
    BY <1>1, <2>1, <2>2, <2>3 DEF Known
  <2>5. \A i \in 0..MaxUInt : Gone(i) => Gone(i)'
    BY <1>1, <2>1, <2>3 DEF Gone
  <2>6. \A r \in table' : r.id < nextId' /\ \A s \in table' : s.id = r.id => s = r
    BY <1>1, <2>1, <2>2, <2>3
  <2>7. \A r \in table' : Known(r)'
    BY <2>6 DEF Known
  <2>8. nextId' \in 1..(MaxId + 1)
    BY <1>1, <2>1
  <2> QED
    BY <1>1, <1>4, <2>1, <2>3, <2>4, <2>5, <2>7, <2>8 DEF Remembers
<1>5. CASE Removed(w) /\ req[w].method = RemoveMessage
  <2>1. table' \subseteq table /\ nextId' = nextId
    BY <1>5 DEF Removed
  <2> QED
    BY <1>1, <2>1 DEF Remembers, Known, Gone
<1> QED
  BY <1>3, <1>4, <1>5 DEF Create, Remove, List, Untouched

\* The answer that is computed is typed and good.
LEMMA ExecuteAnswers ==
    ASSUME PageInv, NEW w \in Workers, Create(w) \/ Remove(w) \/ List(w),
           table' \subseteq Row, UNCHANGED <<load, call, added, removed>>
    PROVE  /\ ans'[w] \in Reply /\ sqlError'[w] \in {"none", "error"}
           /\ ans'[w].rows \subseteq table'
           /\ AnswerIsGood(w)'
<1>1. /\ st[w] = "called" /\ ServesClick(w) /\ req' = req
      /\ ans \in [Workers -> Reply] /\ sqlError \in [Workers -> {"none", "error"}]
  BY DEF Create, Remove, List, Answered, PageInv, Types, CallsServeClicks
<1>2. MaxUInt \in Nat
  BY BoardAssumption
<1>3. CASE Create(w)
  <2>1. PICK b \in {"true", "false"}, e \in {"none", "error"} : Answered(w, Answer(b), e)
    BY <1>3 DEF Create
  <2>2. ans'[w] = [tag |-> b, rows |-> {}, num |-> 0, errorId |-> 0] /\ sqlError'[w] = e
    BY <1>1, <2>1 DEF Answered, Answer, ReplyWith
  <2>3. req'[w].method # RemoveMessage /\ req'[w].method # GetMessages
    BY <1>1, <1>3, MethodsDiffer DEF Create
  <2>4. AnswerIsGood(w)'
    BY <2>3 DEF AnswerIsGood
  <2> QED
    BY <1>2, <2>2, <2>4 DEF Reply
<1>4. CASE Remove(w)
  <2>1. PICK b \in {"true", "false"}, e \in {"none", "error"} :
            /\ Answered(w, Answer(b), e)
            /\ b = "true" => Removed(w)
    BY <1>4, Z3 DEF Remove
  <2>2. ans'[w] = [tag |-> b, rows |-> {}, num |-> 0, errorId |-> 0] /\ sqlError'[w] = e
    BY <1>1, <2>1 DEF Answered, Answer, ReplyWith
  <2>3. req'[w].method # GetMessages
    BY <1>1, <1>4, MethodsDiffer DEF Remove
  <2>4. b = "true" => Gone(PostId(req[w]))'
    <3>1. call[w].row.id = PostId(req[w]) /\ call[w].row.id < nextId
      BY <1>1, <1>4 DEF Remove, ServesClick, Known
    <3> QED
      BY <1>1, <2>1, <3>1 DEF Removed, Gone, PostId
  <2>5. ans'[w] = Answer("true") => b = "true"
    BY <2>2 DEF Answer, ReplyWith
  <2>6. AnswerIsGood(w)'
    BY <1>1, <2>3, <2>4, <2>5 DEF AnswerIsGood, PostId
  <2> QED
    BY <1>2, <2>2, <2>6 DEF Reply
<1>5. CASE List(w)
  <2>1. PICK rs \in SUBSET table, e \in {"none", "error"} :
            /\ Answered(w, RowList(rs), e)
            /\ e = "none" => rs = table
    BY <1>5 DEF List
  <2>2. /\ ans'[w] = [tag |-> IF rs = {} THEN "null" ELSE "rows", rows |-> rs,
                      num |-> 0, errorId |-> 0]
        /\ sqlError'[w] = e
    BY <1>1, <2>1 DEF Answered, RowList, ReplyWith
  <2>3. req'[w].method # RemoveMessage /\ table' = table
    BY <1>1, <1>5, MethodsDiffer DEF List, Untouched
  <2>4. \A r \in rs : r.id \notin removed[call[w].tab]
    BY <1>1 DEF ServesClick, Serving, PageInv, SeenWasThere, Gone
  <2>5. AnswerIsGood(w)'
    BY <2>1, <2>2, <2>3, <2>4 DEF AnswerIsGood
  <2> QED
    BY <1>2, <2>2, <2>3, <2>5 DEF Reply
<1> QED
  BY <1>3, <1>4, <1>5

LEMMA ExecuteKeeps ==
    ASSUME PageInv, NEW w \in Workers, Execute(w)
    PROVE  PageInv'
<1>1. /\ Create(w) \/ Remove(w) \/ List(w)
      /\ effect' = [effect EXCEPT ![w] = (table' \ table) \cup (table \ table')]
      /\ UNCHANGED <<load, page, shown, whole, call, added, removed>>
  BY DEF Execute, pageVars, toldVars
<1>2. /\ st[w] = "called" /\ st' = [st EXCEPT ![w] = "answered"] /\ req' = req
      /\ \E a, e : /\ ans' = [ans EXCEPT ![w] = a]
                   /\ sqlError' = [sqlError EXCEPT ![w] = e]
  BY <1>1 DEF Create, Remove, List, Answered
<1>3. /\ table' \subseteq Row /\ nextId' \in 1..(MaxId + 1)
      /\ Remembers
      /\ \A r \in table' : Known(r)'
      /\ \A r \in table' \ table : r.id = nextId
  BY <1>1, ExecuteRemembers
<1>4. /\ ans'[w] \in Reply /\ sqlError'[w] \in {"none", "error"}
      /\ ans'[w].rows \subseteq table'
      /\ AnswerIsGood(w)'
  BY <1>1, <1>3, ExecuteAnswers
<1>5. /\ ans' \in [Workers -> Reply] /\ sqlError' \in [Workers -> {"none", "error"}]
      /\ \A v \in Workers \ {w} : ans'[v] = ans[v] /\ sqlError'[v] = sqlError[v]
  BY <1>2, <1>4 DEF PageInv, Types
<1>6. Types'
  BY <1>1, <1>2, <1>3, <1>5 DEF PageInv, Types
<1>7. SeenWasThere'
  <2>1. \A r \in effect'[w] \cup ans'[w].rows : Known(r)'
    BY <1>1, <1>3, <1>4 DEF PageInv, Types, SeenWasThere, Remembers
  <2>2. \A v \in Workers \ {w} : \A r \in effect'[v] \cup ans'[v].rows : r \in Row /\ Known(r)
    BY <1>1, <1>5 DEF PageInv, Types, SeenWasThere, Reply
  <2>3. \A t \in Tabs : /\ \A r \in shown'[t] \cup added'[t] : r \in Row /\ Known(r)
                        /\ \A i \in removed'[t] : i \in 0..MaxUInt /\ Gone(i)
    BY <1>1 DEF PageInv, Types, SeenWasThere
  <2> QED
    BY <1>3, <2>1, <2>2, <2>3 DEF SeenWasThere, Remembers
<1>8. CallsServeClicks'
  <2>1. \A v \in Workers : ServesClick(v) => ServesClick(v)'
    BY <1>1, <1>2, <1>3 DEF ServesClick, Remembers, PostId
  <2> QED
    BY <1>1, <1>2, <2>1 DEF PageInv, Types, CallsServeClicks
<1>9. ASSUME NEW t \in Tabs
      PROVE  added'[t] \cap table' \subseteq added[t] \cap table
  BY <1>1, <1>3 DEF PageInv, Types, SeenWasThere, Known
<1>10. AnswersAreGood'
  <2>1. ASSUME NEW v \in Workers, v # w, st[v] = "answered"
        PROVE  AnswerIsGood(v)'
    <3>1. AnswerIsGood(v) /\ req[v] \in Asked /\ call[v].tab \in Tabs
      BY <2>1 DEF PageInv, AnswersAreGood, CallsServeClicks, ServesClick, Serving
    <3>2. PostId(req[v]) \in 0..MaxUInt
      BY BoardAssumption DEF PostId, AsUInt
    <3>3. Gone(PostId(req[v])) => Gone(PostId(req[v]))'
      BY <1>2, <1>3, <3>2 DEF Remembers, PostId
    <3> QED
      BY <1>1, <1>2, <1>5, <1>9, <2>1, <3>1, <3>3 DEF AnswerIsGood, Current, PostId
  <2> QED
    BY <1>2, <1>4, <2>1 DEF PageInv, Types, AnswersAreGood
<1>11. OwnAddsShown' /\ OwnRemovalsGone'
  BY <1>1, <1>9 DEF PageInv, OwnAddsShown, OwnRemovalsGone
<1> QED
  BY <1>6, <1>7, <1>8, <1>10, <1>11 DEF PageInv

\* An answer arrives, at a page or nowhere: the thread is free again.
LEMMA DeliverFrees ==
    ASSUME PageInv, NEW w \in Workers, Answers(w)
    PROVE  /\ st[w] = "answered" /\ ServesClick(w) /\ AnswerIsGood(w)
           /\ st' = [st EXCEPT ![w] = "idle"] /\ req' = [req EXCEPT ![w] = NoRequest]
           /\ ans' = [ans EXCEPT ![w] = NoReply] /\ sqlError' = [sqlError EXCEPT ![w] = "none"]
           /\ call' = [call EXCEPT ![w] = NoCall] /\ effect' = [effect EXCEPT ![w] = {}]
           /\ UNCHANGED <<table, nextId>>
<1>1. Deliver(w)
  BY DEF Answers, drawMessages, f, fAlert, Lost
<1>2. st[w] = "answered"
  BY <1>1 DEF Deliver, Return
<1> QED
  BY <1>1, <1>2 DEF Deliver, Return, PageInv, CallsServeClicks, AnswersAreGood

\* A tab may be loaded again, and be told before of what one of its calls did.
\* No other tab changes, and no call of the page before counts any more.
Reloaded(t) ==
    /\ Blank(t)
    /\ \E rows \in SUBSET Row, ids \in SUBSET (0..MaxUInt) :
          /\ \A r \in rows : Known(r)
          /\ \A i \in ids : Gone(i)
          /\ added' = [added EXCEPT ![t] = @ \cup rows]
          /\ removed' = [removed EXCEPT ![t] = @ \cup ids]

\* What the page's answers leave as it is on every tab, or do to one.
TabsStep ==
    \/ UNCHANGED <<pageVars, toldVars>>
    \/ \E t \in Tabs : Reloaded(t)

\* A thread stays as it is or becomes idle.
Frees(v) ==
    \/ st'[v] = "idle" /\ call'[v] = NoCall /\ ans'[v] = NoReply /\ effect'[v] = {}
    \/ /\ st'[v] = st[v] /\ call'[v] = call[v] /\ ans'[v] = ans[v] /\ effect'[v] = effect[v]
       /\ req'[v] = req[v] /\ sqlError'[v] = sqlError[v]

FreesTypes ==
    /\ st' \in [Workers -> {"idle", "called", "answered"}]
    /\ req' \in [Workers -> Asked \cup {NoRequest}]
    /\ ans' \in [Workers -> Reply]
    /\ sqlError' \in [Workers -> {"none", "error"}]
    /\ call' \in [Workers -> Serving \cup {NoCall}]
    /\ effect' \in [Workers -> SUBSET Row]

LEMMA AnswersFree ==
    ASSUME PageInv, NEW w \in Workers, Answers(w)
    PROVE  FreesTypes /\ \A v \in Workers : Frees(v)
<1>1. NoReply \in Reply
  BY BoardAssumption DEF NoReply, Reply
<1>2. FreesTypes
  <2>1. /\ st' = [st EXCEPT ![w] = "idle"] /\ req' = [req EXCEPT ![w] = NoRequest]
        /\ ans' = [ans EXCEPT ![w] = NoReply] /\ sqlError' = [sqlError EXCEPT ![w] = "none"]
        /\ call' = [call EXCEPT ![w] = NoCall] /\ effect' = [effect EXCEPT ![w] = {}]
    BY DeliverFrees
  <2> QED
    BY <1>1, <2>1 DEF PageInv, Types, FreesTypes
<1>3. ASSUME NEW v \in Workers PROVE Frees(v)
  <2>1. CASE v = w
    BY <2>1, DeliverFrees DEF PageInv, Types, Frees
  <2>2. CASE v # w
    BY <2>2, DeliverFrees DEF PageInv, Types, Frees
  <2> QED
    BY <2>1, <2>2
<1> QED
  BY <1>2, <1>3

LEMMA CrashFrees ==
    ASSUME PageInv, ServerCrash
    PROVE  FreesTypes /\ \A v \in Workers : Frees(v)
<1>1. NoReply \in Reply
  BY BoardAssumption DEF NoReply, Reply
<1> QED
  BY <1>1 DEF ServerCrash, Crash, PageInv, Types, FreesTypes, Frees

\* Reloading and freeing keep everything.
LEMMA TabsStepKeeps ==
    ASSUME PageInv, UNCHANGED <<table, nextId>>, TabsStep, FreesTypes,
           \A v \in Workers : Frees(v)
    PROVE  PageInv'
<1>1. Remembers
  BY UntouchedRemembers
<1>2. ASSUME NEW t \in Tabs, Reloaded(t)
      PROVE  /\ load' \in [Tabs -> Nat \ {0}] /\ page' \in [Tabs -> {"blank", "asked", "drawn"}]
             /\ shown' \in [Tabs -> SUBSET Row] /\ whole' = whole
             /\ added' \in [Tabs -> SUBSET Row] /\ removed' \in [Tabs -> SUBSET (0..MaxUInt)]
             /\ load'[t] = load[t] + 1 /\ shown'[t] = {} /\ page'[t] = "blank"
             /\ \A r \in added'[t] : Known(r)
             /\ \A i \in removed'[t] : Gone(i)
             /\ \A u \in Tabs \ {t} :
                   /\ load'[u] = load[u] /\ page'[u] = page[u] /\ shown'[u] = shown[u]
                   /\ added'[u] = added[u] /\ removed'[u] = removed[u]
  <2>1. PICK rows \in SUBSET Row, ids \in SUBSET (0..MaxUInt) :
          /\ \A r \in rows : Known(r)
          /\ \A i \in ids : Gone(i)
          /\ added' = [added EXCEPT ![t] = @ \cup rows]
          /\ removed' = [removed EXCEPT ![t] = @ \cup ids]
    BY <1>2 DEF Reloaded
  <2>2. /\ load' \in [Tabs -> Nat \ {0}] /\ page' \in [Tabs -> {"blank", "asked", "drawn"}]
        /\ shown' \in [Tabs -> SUBSET Row] /\ whole' = whole
        /\ load'[t] = load[t] + 1 /\ shown'[t] = {} /\ page'[t] = "blank"
        /\ \A u \in Tabs \ {t} :
              load'[u] = load[u] /\ page'[u] = page[u] /\ shown'[u] = shown[u]
    BY <1>2 DEF Reloaded, Blank, PageInv, Types
  <2>3. /\ added' \in [Tabs -> SUBSET Row] /\ removed' \in [Tabs -> SUBSET (0..MaxUInt)]
        /\ \A r \in added'[t] : Known(r)
        /\ \A i \in removed'[t] : Gone(i)
        /\ \A u \in Tabs \ {t} : added'[u] = added[u] /\ removed'[u] = removed[u]
    BY <2>1 DEF PageInv, Types, SeenWasThere
  <2> QED
    BY <2>2, <2>3
<1>3. Types'
  <2>1. CASE UNCHANGED <<pageVars, toldVars>>
    BY <2>1 DEF pageVars, toldVars, PageInv, Types, FreesTypes
  <2>2. ASSUME NEW t \in Tabs, Reloaded(t) PROVE Types'
    BY <1>2, <2>2 DEF PageInv, Types, FreesTypes
  <2> QED
    BY <2>1, <2>2 DEF TabsStep
<1>4. /\ \A u \in Tabs :
            /\ load[u] \in Nat /\ load'[u] \in Nat /\ load[u] <= load'[u]
            /\ \/ load'[u] = load[u] /\ added'[u] = added[u] /\ removed'[u] = removed[u]
                  /\ page'[u] = page[u] /\ shown'[u] = shown[u]
               \/ load[u] < load'[u] /\ page'[u] = "blank" /\ shown'[u] = {}
            /\ \A r \in added'[u] \cup shown'[u] : Known(r)
            /\ \A i \in removed'[u] : Gone(i)
      /\ whole' = whole
  <2>1. CASE UNCHANGED <<pageVars, toldVars>>
    BY <2>1 DEF pageVars, toldVars, PageInv, Types, SeenWasThere
  <2>2. ASSUME NEW t \in Tabs, Reloaded(t), NEW u \in Tabs
        PROVE  /\ load[u] \in Nat /\ load'[u] \in Nat /\ load[u] <= load'[u]
               /\ \/ load'[u] = load[u] /\ added'[u] = added[u] /\ removed'[u] = removed[u]
                     /\ page'[u] = page[u] /\ shown'[u] = shown[u]
                  \/ load[u] < load'[u] /\ page'[u] = "blank" /\ shown'[u] = {}
               /\ \A r \in added'[u] \cup shown'[u] : Known(r)
               /\ \A i \in removed'[u] : Gone(i)
               /\ whole' = whole
    BY <1>2, <2>2 DEF PageInv, Types, SeenWasThere
  <2> QED
    BY <2>1, <2>2 DEF TabsStep
<1>5. SeenWasThere'
  <2>1. \A v \in Workers : \A r \in effect'[v] \cup ans'[v].rows : Known(r)
    BY DEF Frees, NoReply, PageInv, SeenWasThere
  <2> QED
    BY <1>4, <2>1 DEF PageInv, SeenWasThere, Known, Gone
<1>6. CallsServeClicks'
  <2>1. ASSUME NEW v \in Workers, ServesClick(v), st'[v] = st[v], call'[v] = call[v], req'[v] = req[v]
        PROVE  ServesClick(v)'
    <3>1. call[v].tab \in Tabs /\ call[v].load \in Nat
      BY <2>1 DEF ServesClick, Serving
    <3>2. call'[v].load <= load'[call'[v].tab]
      BY <1>4, <2>1, <3>1 DEF ServesClick
    <3> QED
      BY <2>1, <3>2 DEF ServesClick, Known, PostId
  <2> QED
    BY <2>1 DEF PageInv, CallsServeClicks, Frees
<1>7. AnswersAreGood'
  <2>1. ASSUME NEW v \in Workers, st'[v] = "answered"
        PROVE  AnswerIsGood(v)'
    <3>1. /\ st[v] = "answered" /\ call'[v] = call[v] /\ ans'[v] = ans[v] /\ req'[v] = req[v]
          /\ sqlError'[v] = sqlError[v]
      BY <2>1 DEF Frees
    <3>2. AnswerIsGood(v) /\ ServesClick(v)
      BY <3>1 DEF PageInv, AnswersAreGood, CallsServeClicks
    <3>3. call[v].tab \in Tabs /\ call[v].load \in Nat /\ call[v].load <= load[call[v].tab]
      BY <3>2 DEF ServesClick, Serving
    <3>4. Current(v)' =>
             /\ Current(v) /\ added'[call[v].tab] = added[call[v].tab]
             /\ removed'[call[v].tab] = removed[call[v].tab]
      BY <1>4, <3>1, <3>3 DEF Current
    <3> QED
      BY <3>1, <3>2, <3>4 DEF AnswerIsGood, Gone, PostId
  <2> QED
    BY <2>1 DEF AnswersAreGood
<1>8. OwnAddsShown' /\ OwnRemovalsGone'
  BY <1>4 DEF PageInv, OwnAddsShown, OwnRemovalsGone
<1> QED
  BY <1>3, <1>5, <1>6, <1>7, <1>8 DEF PageInv

LEMMA AcknowledgedKeeps ==
    ASSUME PageInv, NEW w \in Workers, f(w)
    PROVE  PageInv'
<1>1. Answers(w) /\ Acknowledges(w) /\ Blank(call[w].tab) /\ Told(call[w].tab, w)
  BY DEF f, Answers
<1>2. /\ ServesClick(w) /\ AnswerIsGood(w) /\ UNCHANGED <<table, nextId>>
      /\ FreesTypes /\ \A v \in Workers : Frees(v)
  BY <1>1, DeliverFrees, AnswersFree
<1> DEFINE t == call[w].tab
           rows == IF req[w].method = CreateMessage THEN effect[w] ELSE {}
           ids == IF req[w].method = RemoveMessage THEN {PostId(req[w])} ELSE {}
<1>3. t \in Tabs
  BY <1>2 DEF ServesClick, Serving
<1>4. rows \in SUBSET Row /\ \A r \in rows : Known(r)
  BY DEF PageInv, Types, SeenWasThere
<1>5. PostId(req[w]) \in 0..MaxUInt
  BY BoardAssumption DEF PostId, AsUInt
<1>6. ids \in SUBSET (0..MaxUInt) /\ \A i \in ids : Gone(i)
  BY <1>1, <1>2, <1>5 DEF Acknowledges, AnswerIsGood
<1>7. /\ added' = [added EXCEPT ![t] = @ \cup rows]
      /\ removed' = [removed EXCEPT ![t] = @ \cup ids]
  BY <1>1, <1>3 DEF Told, PageInv, Types
<1>8. Reloaded(t)
  BY <1>1, <1>4, <1>6, <1>7 DEF Reloaded
<1> QED
  BY <1>2, <1>3, <1>8, TabsStepKeeps DEF TabsStep

LEMMA UntoldKeeps ==
    ASSUME PageInv, NEW w \in Workers, fAlert(w) \/ Lost(w)
    PROVE  PageInv'
<1>1. Answers(w) /\ UNCHANGED <<pageVars, toldVars>>
  BY DEF fAlert, Lost, Answers
<1> QED
  BY <1>1, DeliverFrees, AnswersFree, TabsStepKeeps DEF TabsStep

LEMMA ReopenKeeps ==
    ASSUME PageInv, NEW t \in Tabs, Reopen(t)
    PROVE  PageInv'
<1>1. Blank(t) /\ UNCHANGED <<boardVars, call, effect, toldVars>>
  BY DEF Reopen
<1>2. Reloaded(t)
  <2>1. /\ added' = [added EXCEPT ![t] = @ \cup {}]
        /\ removed' = [removed EXCEPT ![t] = @ \cup {}]
    BY <1>1 DEF toldVars, PageInv, Types
  <2>2. /\ {} \in SUBSET Row /\ {} \in SUBSET (0..MaxUInt)
        /\ \A r \in {} : Known(r)
        /\ \A i \in {} : Gone(i)
    OBVIOUS
  <2> QED
    BY <1>1, <2>1, <2>2, Zenon DEF Reloaded
<1>3. FreesTypes /\ \A v \in Workers : Frees(v)
  BY <1>1 DEF boardVars, FreesTypes, Frees, PageInv, Types
<1> QED
  BY <1>1, <1>2, <1>3, TabsStepKeeps DEF TabsStep, boardVars

LEMMA CrashKeeps == PageInv /\ ServerCrash => PageInv'
BY CrashFrees, TabsStepKeeps DEF TabsStep, ServerCrash, Crash

\* The list is drawn: it is for this load of the page, and good.
LEMMA DrawKeeps ==
    ASSUME PageInv, NEW w \in Workers, drawMessages(w)
    PROVE  PageInv'
<1> DEFINE t == call[w].tab
<1>1. /\ st[w] = "answered" /\ ServesClick(w) /\ AnswerIsGood(w)
      /\ FreesTypes /\ \A v \in Workers : Frees(v)
      /\ UNCHANGED <<table, nextId>>
  BY DeliverFrees, AnswersFree DEF Answers
<1>2. /\ Current(w) /\ req[w].method = GetMessages
      /\ page' = [page EXCEPT ![t] = "drawn"]
      /\ shown' = [shown EXCEPT ![t] = ans[w].rows]
      /\ whole' = [whole EXCEPT ![t] = sqlError[w] = "none"]
      /\ UNCHANGED <<load, added, removed>>
  BY DEF drawMessages, toldVars
<1>3. t \in Tabs /\ ans[w].rows \in SUBSET Row /\ \A r \in ans[w].rows : Known(r)
  BY <1>1 DEF ServesClick, Serving, PageInv, Types, Reply, SeenWasThere
<1>4. /\ page' \in [Tabs -> {"blank", "asked", "drawn"}] /\ page'[t] = "drawn"
      /\ shown' \in [Tabs -> SUBSET Row] /\ shown'[t] = ans[w].rows
      /\ whole' \in [Tabs -> BOOLEAN] /\ whole'[t] = (sqlError[w] = "none")
      /\ \A u \in Tabs \ {t} : page'[u] = page[u] /\ shown'[u] = shown[u] /\ whole'[u] = whole[u]
  BY <1>2, <1>3 DEF PageInv, Types
<1>5. Types'
  BY <1>1, <1>2, <1>4 DEF PageInv, Types, FreesTypes
<1>6. SeenWasThere'
  <2>1. \A v \in Workers : \A r \in effect'[v] \cup ans'[v].rows : Known(r)
    BY <1>1 DEF Frees, NoReply, PageInv, SeenWasThere
  <2>2. \A u \in Tabs : \A r \in shown'[u] : Known(r)
    BY <1>3, <1>4 DEF PageInv, SeenWasThere
  <2> QED
    BY <1>1, <1>2, <2>1, <2>2 DEF PageInv, SeenWasThere, Known, Gone
<1>7. CallsServeClicks'
  BY <1>1, <1>2 DEF PageInv, CallsServeClicks, Frees, ServesClick, Known, PostId
<1>8. AnswersAreGood'
  BY <1>1, <1>2 DEF PageInv, AnswersAreGood, Frees, AnswerIsGood, Current, Gone, PostId
<1>9. OwnAddsShown' /\ OwnRemovalsGone'
  <2>1. /\ \A r \in shown'[t] : r.id \notin removed[t]
        /\ whole'[t] => added[t] \cap table \subseteq shown'[t]
    BY <1>1, <1>2, <1>4 DEF AnswerIsGood
  <2> QED
    BY <1>1, <1>2, <1>3, <1>4, <2>1 DEF PageInv, OwnAddsShown, OwnRemovalsGone
<1> QED
  BY <1>5, <1>6, <1>7, <1>8, <1>9 DEF PageInv

LEMMA NextPage == PageInv /\ [PageNext]_vars => PageInv'
<1>1. ASSUME PageInv, UNCHANGED vars PROVE PageInv'
  <2>1. TabsStep /\ FreesTypes /\ UNCHANGED <<table, nextId>> /\ \A v \in Workers : Frees(v)
    BY <1>1 DEF vars, boardVars, PageInv, Types, TabsStep, FreesTypes, Frees
  <2> QED
    BY <1>1, <2>1, TabsStepKeeps
<1> QED
  BY <1>1, ClickKeeps, ExecuteKeeps, DrawKeeps, AcknowledgedKeeps, UntoldKeeps, ReopenKeeps,
     CrashKeeps DEF PageNext, Answers

\* PageInv holds in every state.
THEOREM PageInvariance == PageSpec => []PageInv
BY InitPage, NextPage, PTL DEF PageSpec

\* The only row a click on "remove" can delete is the one shown beside it, in
\* any number of tabs, over reloads, lost answers and crashes of the server.
THEOREM ClicksRemoveWhatTheyShow == PageSpec => []RemovesWhatWasShown
<1>1. PageInv => RemovesWhatWasShown
  BY DEF PageInv, CallsServeClicks, ServesClick, Known, RemovesWhatWasShown
<1> QED
  BY <1>1, PageInvariance, PTL

\* A tab told that its message is stored shows it as long as it is there, and
\* one told that a message is removed never shows its id again.
THEOREM TabsShowWhatTheyWereTold == PageSpec => []ShowsWhatItWasTold
<1>1. PageInv => ShowsWhatItWasTold
  BY DEF PageInv, Types, Serving, ShowsWhatItWasTold, PageTypeOK
<1> QED
  BY <1>1, PageInvariance, PTL
=============================================================================
