------------------------------- MODULE Page1 -------------------------------
(***************************************************************************)
(* The message page (page1.html) open in several tabs, over the atomic     *)
(* MessageBoard.  A tab shows the list it loaded last; its calls are       *)
(* asynchronous, several can be on their way, and a reload forgets the     *)
(* callbacks of the page before it.                                        *)
(***************************************************************************)
EXTENDS MessageBoard, FiniteSets

CONSTANTS
    Tabs,      \* browser tabs that show page 1
    UserOf,    \* the user logged in in a tab
    Absent     \* what a method reads under a field the payload does not have

ASSUME PageAssumption == UserOf \in [Tabs -> Users] /\ Absent \in Args

VARIABLES
    load,      \* per tab: which load of the page this is
    page,      \* per tab: "blank", "asked" for its list, or "drawn"
    shown,     \* per tab: the rows shown, each with its remove button
    call,      \* per worker: the tab, load and row of the click it serves
    effect,    \* history, per worker: rows its call has added or removed
    whole,     \* history, per tab: no SQL error has cut the list it shows
    added,     \* history, per tab: rows whose addition it has been told of
    removed    \* history, per tab: ids whose removal it has been told of

pageVars == <<load, page, shown, whole>>
toldVars == <<added, removed>>
vars     == <<boardVars, pageVars, call, effect, toldVars>>

NoRow  == [id |-> 0]
NoCall == [load |-> 0, row |-> NoRow]

\* Mutant of Blank: the old list stays on the page that is loaded.
BlankKeeps(t) ==
    /\ load' = [load EXCEPT ![t] = @ + 1]
    /\ page' = [page EXCEPT ![t] = "blank"]
    /\ UNCHANGED <<shown, whole>>

\* The page has just been loaded and shows no list yet.
Blank(t) ==
    /\ load' = [load EXCEPT ![t] = @ + 1]
    /\ page' = [page EXCEPT ![t] = "blank"]
    /\ shown' = [shown EXCEPT ![t] = {}]
    /\ UNCHANGED whole

\* ajaxRemoteExecuteMethod: the request reaches a free thread of the server.
ajax(t, w, method, arg, row) ==
    /\ Call(w, [method |-> method, user |-> UserOf[t], arg |-> arg])
    /\ call' = [call EXCEPT ![w] = [tab |-> t, load |-> load[t], row |-> row]]
    /\ effect' = [effect EXCEPT ![w] = {}]
    /\ UNCHANGED toldVars

\* The pages are opened on a board that may have been in use.
UsedBoard(rows, next) ==
    \A r, s \in rows : r.id < next /\ (r.id = s.id => r = s)

PageInit ==
    /\ table \in SUBSET Row
    /\ nextId \in 1..(MaxId + 1)
    /\ UsedBoard(table, nextId)
    /\ st = [w \in Workers |-> "idle"]
    /\ req = [w \in Workers |-> NoRequest]
    /\ ans = [w \in Workers |-> NoReply]
    /\ sqlError = [w \in Workers |-> "none"]
    /\ load = [t \in Tabs |-> 1]
    /\ page = [t \in Tabs |-> "blank"]
    /\ shown = [t \in Tabs |-> {}]
    /\ whole = [t \in Tabs |-> TRUE]
    /\ call = [w \in Workers |-> NoCall]
    /\ effect = [w \in Workers |-> {}]
    /\ added = [t \in Tabs |-> {}]
    /\ removed = [t \in Tabs |-> {}]

\* csrfReady, once per load: the list is asked for with an empty payload.
requestPage1View(t, w) ==
    /\ page[t] = "blank"
    /\ ajax(t, w, GetMessages, Absent, NoRow)
    /\ page' = [page EXCEPT ![t] = "asked"]
    /\ UNCHANGED <<load, shown, whole>>

\* The button "add".
addMessage(t, w, text) ==
    /\ ajax(t, w, CreateMessage, text, NoRow)
    /\ UNCHANGED pageVars

\* Mutant of removeMessage: the button names the row's place in the list.
removeMessageByPlace(t, w, row) ==
    /\ row \in shown[t]
    /\ ajax(t, w, RemoveMessage,
            Cardinality({r \in shown[t] : r.id <= row.id}), row)
    /\ UNCHANGED pageVars

\* The button "remove" beside a row.
removeMessage(t, w, row) ==
    /\ row \in shown[t]
    /\ ajax(t, w, RemoveMessage, row.id, row)
    /\ UNCHANGED pageVars

\* The server executes a call.
Execute(w) ==
    /\ Create(w) \/ Remove(w) \/ List(w)
    /\ effect' = [effect EXCEPT ![w] = (table' \ table) \cup (table \ table')]
    /\ UNCHANGED <<pageVars, call, toldVars>>

\* The answer of w is on its way to the page that asked.
Current(w) == call[w].load # 0 /\ call[w].load = load[call[w].tab]

Deliver(w) ==
    /\ Return(w)
    /\ call' = [call EXCEPT ![w] = NoCall]
    /\ effect' = [effect EXCEPT ![w] = {}]

\* drawMessages: a null result is shown as "There are no messages in the
\* database!", which here is the empty list.
drawMessages(w) ==
    LET t == call[w].tab IN
    /\ Current(w)
    /\ req[w].method = GetMessages
    /\ Deliver(w)
    /\ page' = [page EXCEPT ![t] = "drawn"]
    /\ shown' = [shown EXCEPT ![t] = ans[w].rows]
    /\ whole' = [whole EXCEPT ![t] = sqlError[w] = "none"]
    /\ UNCHANGED <<load, toldVars>>

\* The tab is told that its change has been made.
Told(t, w) ==
    /\ added' = [added EXCEPT ![t] =
                   IF req[w].method = CreateMessage THEN @ \cup effect[w] ELSE @]
    /\ removed' = [removed EXCEPT ![t] =
                   IF req[w].method = RemoveMessage THEN @ \cup {PostId(req[w])} ELSE @]

\* A change has been answered with true.
Acknowledges(w) ==
    /\ Current(w)
    /\ req[w].method \in {CreateMessage, RemoveMessage}
    /\ ans[w] = Answer("true")

\* Mutant of f: the page is not loaded again.
fStays(w) ==
    /\ Acknowledges(w)
    /\ Deliver(w)
    /\ UNCHANGED pageVars
    /\ Told(call[w].tab, w)

\* f(true): location.reload().
f(w) ==
    /\ Acknowledges(w)
    /\ Deliver(w)
    /\ Blank(call[w].tab)
    /\ Told(call[w].tab, w)

\* f(false): alert().
fAlert(w) ==
    /\ Current(w)
    /\ req[w].method \in {CreateMessage, RemoveMessage}
    /\ ans[w] # Answer("true")
    /\ Deliver(w)
    /\ UNCHANGED <<pageVars, toldVars>>

\* The answer is lost, or the page that asked is gone.
Lost(w) ==
    /\ Deliver(w)
    /\ UNCHANGED <<pageVars, toldVars>>

\* The user opens the page again.
Reopen(t) ==
    /\ Blank(t)
    /\ UNCHANGED <<boardVars, call, effect, toldVars>>

\* The program dies; the tabs stay open and their calls get no answer.
ServerCrash ==
    /\ Crash
    /\ call' = [w \in Workers |-> NoCall]
    /\ effect' = [w \in Workers |-> {}]
    /\ UNCHANGED <<pageVars, toldVars>>

Answers(w) == drawMessages(w) \/ f(w) \/ fAlert(w) \/ Lost(w)

Clicks(t, w) ==
    \/ requestPage1View(t, w)
    \/ \E m \in Messages : addMessage(t, w, m)
    \/ \E r \in shown[t] : removeMessage(t, w, r)

PageNext ==
    \/ \E t \in Tabs, w \in Workers : Clicks(t, w)
    \/ \E w \in Workers : Execute(w) \/ Answers(w)
    \/ \E t \in Tabs : Reopen(t)
    \/ ServerCrash

PageSpec == PageInit /\ [][PageNext]_vars
-----------------------------------------------------------------------------
\* Types of the page's part of the state; there are rows, and their buttons,
\* only on a page that has drawn a list since it was loaded (page1.html:15).
PageTypeOK ==
    /\ load \in [Tabs -> Nat \ {0}]
    /\ page \in [Tabs -> {"blank", "asked", "drawn"}]
    /\ shown \in [Tabs -> SUBSET Row]
    /\ \A t \in Tabs : shown[t] # {} => page[t] = "drawn"
    /\ whole \in [Tabs -> BOOLEAN]
    /\ call \in [Workers -> {NoCall} \cup
                  [tab : Tabs, load : Nat \ {0}, row : Row \cup {NoRow}]]
    /\ added \in [Tabs -> SUBSET Row]
    /\ removed \in [Tabs -> SUBSET (0..MaxUInt)]

\* However old the list is that a tab shows (page1.html:33 freezes the id in
\* the button), the only row a click can delete is the one shown beside it.
RemovesWhatWasShown ==
    \A w \in Workers :
        st[w] = "called" /\ req[w].method = RemoveMessage
            => \A r \in table : r.id = PostId(req[w]) => r = call[w].row

\* A tab that was told its message is stored shows it, as long as it is there,
\* in every list it draws; only a list cut short by an SQL error may miss it.
\* This rests on reloading after the answer and not before it (page1.html:52).
OwnAddsShown ==
    \A t \in Tabs : page[t] = "drawn" /\ whole[t] => added[t] \cap table \subseteq shown[t]

\* A tab that was told a message is removed (page1.html:65) never shows a
\* message with that id again.
OwnRemovalsGone ==
    \A t \in Tabs : \A r \in shown[t] : r.id \notin removed[t]

\* What a tab was told is in what it shows.
ShowsWhatItWasTold == PageTypeOK /\ OwnAddsShown /\ OwnRemovalsGone
=============================================================================
