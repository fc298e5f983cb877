--------------------------- MODULE PopperProofs -----------------------------
(***************************************************************************)
(* Proofs about Popper for any number of poppers on one element, whatever  *)
(* scripts call and in whatever order frames and updates come: the types,  *)
(* that a popper whose updates are done is in its place, and that poppers  *)
(* that are all destroyed leave nothing behind.                            *)
(*                                                                         *)
(* Then about two of the algorithms that find the place: expressions of the*)
(* modifier offset, of any length, are read as they are meant; and for any *)
(* tree of elements, any styles and any scrolling, offset parents, scroll  *)
(* parents, boundaries and the offsets of the reference are those that the *)
(* browser lays the page out by.                                           *)
(***************************************************************************)
EXTENDS Positioning, Induction, SequenceTheorems, TLAPS

Askers == {"no", "event", "manual"}

PopperStates == [options : SUBSET Options, isDestroyed : BOOLEAN,
                 isCreated : BOOLEAN, eventsEnabled : BOOLEAN]

\* The element is a record with a style and a placement.
IsElement(e) == e = [style |-> e.style, placement |-> e.placement, out |-> e.out]

\* The types of what poppers keep; only poppers that are made have options,
\* updates, listeners and an end.
Kept ==
    /\ page \in Pages
    /\ made \in Nat /\ 1..made \subseteq Poppers
    /\ state \in [Poppers -> PopperStates]
    /\ scheduled \in [Poppers -> Askers] /\ called \in [Poppers -> Askers]
    /\ \A p \in Poppers :
          \/ called[p] # "no" \/ scheduled[p] # "no"
          \/ state[p].eventsEnabled \/ state[p].isDestroyed
          => p \in 1..made
    /\ \A p \in 1..made : state[p].options # {}
    /\ IsElement(element)

\* Those who listen say so; a new popper has its first update before it.
Listens == listening = {p \in Poppers : state[p].eventsEnabled}

FirstUpdate ==
    \A p \in 1..made : state[p].isCreated \/ called[p] # "no" \/ state[p].isDestroyed

\* What is written on the element is there for a popper that will clear it.
WrittenForLive ==
    element.style # None \/ element.placement # None => \E p \in Live : applies(p)

PopperInv == Kept /\ Listens /\ FirstUpdate /\ WrittenForLive

LEMMA InitPopper == Init => PopperInv
<1> SUFFICES ASSUME Init PROVE PopperInv
  OBVIOUS
<1>1. 1..made = {}
  BY DEF Init
<1>2. Fresh \in PopperStates
  BY DEF Fresh, PopperStates
<1>3. Kept
  BY <1>1, <1>2 DEF Init, Kept, Fresh, Askers, Bare, IsElement
<1>4. Listens
  BY DEF Init, Listens, Fresh
<1>5. FirstUpdate
  BY <1>1 DEF FirstUpdate
<1>6. WrittenForLive
  BY DEF Init, WrittenForLive, Bare
<1> QED
  BY <1>3, <1>4, <1>5, <1>6 DEF PopperInv

\* A call that is asked for is one more of the same kind.
LEMMA AskTypes ==
    ASSUME NEW f \in [Poppers -> Askers], NEW p \in Poppers, NEW by \in Askers \ {"no"}
    PROVE  /\ Ask(f, p, by) \in [Poppers -> Askers]
           /\ Ask(f, p, by)[p] # "no"
           /\ \A q \in Poppers \ {p} : Ask(f, p, by)[q] = f[q]
BY DEF Ask, Askers

LEMMA NewKeeps ==
    ASSUME PopperInv, NEW o \in Options, NEW events \in BOOLEAN, New(o, events)
    PROVE  PopperInv'
<1> DEFINE p == made + 1
<1>1. /\ p \in Poppers /\ made' = p /\ made \in Nat
      /\ 1..made' = 1..made \cup {p} /\ p \notin 1..made
  BY DEF New, PopperInv, Kept
<1>2. /\ state' \in [Poppers -> PopperStates]
      /\ state'[p].options = {o} /\ state'[p].eventsEnabled = events
      /\ state'[p].isDestroyed = state[p].isDestroyed
      /\ \A q \in Poppers \ {p} : state'[q] = state[q]
  BY <1>1 DEF New, PopperInv, Kept, PopperStates
<1>3. /\ called' \in [Poppers -> Askers] /\ called'[p] # "no"
      /\ \A q \in Poppers \ {p} : called'[q] = called[q]
  BY <1>1, AskTypes DEF New, PopperInv, Kept, Askers
<1>4. IsElement(element')
  BY DEF New, PopperInv, Kept, IsElement
<1>5. Kept'
  BY <1>1, <1>2, <1>3, <1>4 DEF New, PopperInv, Kept
<1>6. Listens'
  BY <1>1, <1>2 DEF New, PopperInv, Kept, Listens
<1>7. FirstUpdate'
  BY <1>1, <1>2, <1>3 DEF PopperInv, Kept, FirstUpdate
<1>8. WrittenForLive'
  <2>1. CASE o \in Applies
    <3>1. ~state[p].isDestroyed
      BY <1>1 DEF PopperInv, Kept, PopperStates
    <3>2. p \in Live' /\ state'[p].options \subseteq Applies
      BY <1>1, <1>2, <2>1, <3>1 DEF Live
    <3> QED
      BY <3>2 DEF WrittenForLive, applies
  <2>2. CASE o \notin Applies
    <3>1. element' = element
      BY <2>2 DEF New
    <3>2. \A q \in Live : q \in Live' /\ (applies(q) => applies(q)')
      BY <1>1, <1>2 DEF PopperInv, Kept, Live, applies
    <3> QED
      BY <3>1, <3>2 DEF PopperInv, WrittenForLive
  <2> QED
    BY <2>1, <2>2
<1> QED
  BY <1>5, <1>6, <1>7, <1>8 DEF PopperInv

\* Calls and frames that touch neither the element nor what poppers are.
LEMMA AsksKeep ==
    ASSUME PopperInv, UNCHANGED <<made, state, listening, element>>, page' \in Pages,
           scheduled' \in [Poppers -> Askers], called' \in [Poppers -> Askers],
           \A p \in Poppers : /\ called'[p] # "no" \/ scheduled'[p] # "no" => p \in 1..made
                              /\ called[p] # "no" => called'[p] # "no"
    PROVE  PopperInv'
<1>1. Kept'
  <2>1. /\ made' \in Nat /\ 1..made' \subseteq Poppers /\ state' \in [Poppers -> PopperStates]
        /\ \A p \in 1..made' : state'[p].options # {}
        /\ IsElement(element')
    BY DEF PopperInv, Kept
  <2>2. \A p \in Poppers : state'[p].eventsEnabled \/ state'[p].isDestroyed => p \in 1..made'
    BY DEF PopperInv, Kept
  <2>3. \A p \in Poppers : called'[p] # "no" \/ scheduled'[p] # "no" => p \in 1..made'
    OBVIOUS
  <2>4. \A p \in Poppers :
          \/ called'[p] # "no" \/ scheduled'[p] # "no"
          \/ state'[p].eventsEnabled \/ state'[p].isDestroyed
          => p \in 1..made'
    BY <2>2, <2>3
  <2> QED
    BY <2>1, <2>4 DEF Kept
<1>2. Listens' /\ FirstUpdate'
  BY DEF PopperInv, Kept, Listens, FirstUpdate
<1>3. WrittenForLive'
  BY DEF PopperInv, WrittenForLive, Live, applies
<1> QED
  BY <1>1, <1>2, <1>3 DEF PopperInv

LEMMA CallsKeep ==
    ASSUME PopperInv, NEW p \in Poppers, callUpdate(p) \/ scheduleUpdate(p) \/ Frame(p)
    PROVE  PopperInv'
<1>1. page \in Pages /\ scheduled \in [Poppers -> Askers] /\ called \in [Poppers -> Askers]
  BY DEF PopperInv, Kept
<1>2. \A q \in Poppers : called[q] # "no" \/ scheduled[q] # "no" => q \in 1..made
  BY DEF PopperInv, Kept
<1>3. CASE callUpdate(p)
  BY <1>1, <1>2, <1>3, AskTypes, AsksKeep DEF callUpdate, Askers
<1>4. CASE scheduleUpdate(p)
  BY <1>1, <1>2, <1>4, AskTypes, AsksKeep DEF scheduleUpdate, Askers
<1>5. CASE Frame(p)
  <2>1. scheduled[p] \in Askers \ {"no"}
    BY <1>1, <1>5 DEF Frame
  <2>2. scheduled' \in [Poppers -> Askers] /\ \A q \in Poppers : scheduled'[q] # "no" => scheduled[q] # "no"
    BY <1>1, <1>5 DEF Frame, Askers
  <2>3. /\ called' \in [Poppers -> Askers] /\ called'[p] # "no"
        /\ \A q \in Poppers \ {p} : called'[q] = called[q]
    BY <1>1, <1>5, <2>1, AskTypes DEF Frame
  <2> QED
    BY <1>1, <1>2, <1>5, <2>1, <2>2, <2>3, AsksKeep DEF Frame
<1> QED
  BY <1>3, <1>4, <1>5

LEMMA MoveKeeps == ASSUME PopperInv, Move PROVE PopperInv'
<1>1. listening \subseteq 1..made /\ 1..made \subseteq Poppers
  BY DEF PopperInv, Kept, Listens
<1>2. scheduled' \in [Poppers -> Askers]
  BY DEF Move, PopperInv, Kept, Askers
<1>3. \A p \in Poppers : scheduled'[p] # "no" => p \in 1..made
  BY <1>1 DEF Move, PopperInv, Kept
<1> QED
  BY <1>2, <1>3, AsksKeep DEF Move, PopperInv, Kept

LEMMA ListenersKeep ==
    ASSUME PopperInv, NEW p \in Poppers, enableEventListeners(p) \/ disableEventListeners(p)
    PROVE  PopperInv'
<1>1. /\ p \in 1..made /\ UNCHANGED <<page, made, scheduled, called, element>>
      /\ \E on \in BOOLEAN :
            /\ state' = [state EXCEPT ![p].eventsEnabled = on]
            /\ listening' = IF on THEN listening \cup {p} ELSE listening \ {p}
  BY DEF enableEventListeners, disableEventListeners
<1>2. PICK on \in BOOLEAN :
            /\ state' = [state EXCEPT ![p].eventsEnabled = on]
            /\ listening' = IF on THEN listening \cup {p} ELSE listening \ {p}
  BY <1>1
<1>3. /\ state' \in [Poppers -> PopperStates]
      /\ state'[p].eventsEnabled = on
      /\ state'[p].options = state[p].options /\ state'[p].isDestroyed = state[p].isDestroyed
      /\ state'[p].isCreated = state[p].isCreated
      /\ \A q \in Poppers \ {p} : state'[q] = state[q]
  BY <1>2 DEF PopperInv, Kept, PopperStates
<1>4. Kept'
  BY <1>1, <1>3 DEF PopperInv, Kept
<1>5. Listens'
  BY <1>2, <1>3 DEF PopperInv, Kept, Listens
<1>6. FirstUpdate'
  BY <1>1, <1>3 DEF PopperInv, Kept, FirstUpdate
<1>7. \A q \in Live : q \in Live' /\ (applies(q) => applies(q)')
  BY <1>1, <1>3 DEF PopperInv, Kept, Live, applies
<1>8. WrittenForLive'
  BY <1>1, <1>7 DEF PopperInv, WrittenForLive
<1> QED
  BY <1>4, <1>5, <1>6, <1>8 DEF PopperInv

LEMMA DestroyKeeps ==
    ASSUME PopperInv, NEW p \in Poppers, destroy(p)
    PROVE  PopperInv'
<1>1. /\ p \in 1..made /\ UNCHANGED <<page, made, scheduled, called>>
      /\ listening' = listening \ {p}
  BY DEF destroy
<1>2. /\ state' \in [Poppers -> PopperStates]
      /\ state'[p].eventsEnabled = FALSE /\ state'[p].isDestroyed = TRUE
      /\ state'[p].options = state[p].options /\ state'[p].isCreated = state[p].isCreated
      /\ \A q \in Poppers \ {p} : state'[q] = state[q]
  BY DEF destroy, PopperInv, Kept, PopperStates
<1>3. IsElement(element')
  BY DEF destroy, PopperInv, Kept, IsElement
<1>4. Kept'
  BY <1>1, <1>2, <1>3 DEF PopperInv, Kept
<1>5. Listens'
  BY <1>1, <1>2 DEF PopperInv, Kept, Listens
<1>6. FirstUpdate'
  BY <1>1, <1>2 DEF PopperInv, Kept, FirstUpdate
<1>7. WrittenForLive'
  <2>1. CASE applies(p)
    <3>1. element'.style = None /\ element'.placement = None
      BY <2>1 DEF destroy, PopperInv, Kept, IsElement
    <3> QED
      BY <3>1 DEF WrittenForLive
  <2>2. CASE ~applies(p)
    <3>1. element' = element
      BY <2>2 DEF destroy
    <3>2. \A q \in Live \ {p} : q \in Live' /\ (applies(q) => applies(q)')
      BY <1>1, <1>2 DEF PopperInv, Kept, Live, applies
    <3> QED
      BY <2>2, <3>1, <3>2 DEF PopperInv, WrittenForLive
  <2> QED
    BY <2>1, <2>2
<1> QED
  BY <1>4, <1>5, <1>6, <1>7 DEF PopperInv

LEMMA UpdateKeeps ==
    ASSUME PopperInv, NEW p \in Poppers, Update(p)
    PROVE  PopperInv'
<1>1. /\ p \in 1..made /\ UNCHANGED <<page, made, listening, scheduled>>
      /\ called' \in [Poppers -> Askers] /\ \A q \in Poppers \ {p} : called'[q] = called[q]
      /\ called'[p] = "no"
  BY DEF Update, PopperInv, Kept, Askers
<1>2. CASE state[p].isDestroyed
  <2>1. UNCHANGED <<state, element>>
    BY <1>2 DEF Update
  <2>2. Kept'
    BY <1>1, <2>1 DEF PopperInv, Kept
  <2>3. Listens' /\ FirstUpdate'
    BY <1>1, <1>2, <2>1 DEF PopperInv, Kept, Listens, FirstUpdate
  <2>4. WrittenForLive'
    BY <1>1, <2>1 DEF PopperInv, WrittenForLive, Live, applies
  <2> QED
    BY <2>2, <2>3, <2>4 DEF PopperInv
<1>3. CASE ~state[p].isDestroyed
  <2>1. /\ state' \in [Poppers -> PopperStates]
        /\ state'[p].eventsEnabled = state[p].eventsEnabled
        /\ state'[p].isDestroyed = state[p].isDestroyed
        /\ state'[p].options = state[p].options /\ state'[p].isCreated = TRUE
        /\ \A q \in Poppers \ {p} : state'[q] = state[q]
    <3>1. state' = [state EXCEPT ![p].isCreated = TRUE]
      BY <1>3 DEF Update
    <3>2. state \in [Poppers -> PopperStates]
      BY DEF PopperInv, Kept
    <3> QED
      BY <3>1, <3>2 DEF PopperStates
  <2>2. IsElement(Written(p))
    <3> DEFINE o == CHOOSE o \in state[p].options : TRUE
    <3>1. o \in Options /\ page \in Pages
      BY <1>1 DEF PopperInv, Kept, PopperStates
    <3>2. Place[page][o] = [style |-> Place[page][o].style,
                            placement |-> Place[page][o].placement, out |-> Place[page][o].out]
      BY <3>1, PopperAssumption
    <3> QED
      BY <3>2 DEF Written, IsElement
  <2>3. element' = IF applies(p) THEN Written(p) ELSE element
    BY <1>3 DEF Update
  <2>4. IsElement(element')
    BY <2>2, <2>3 DEF PopperInv, Kept
  <2>5. Kept'
    BY <1>1, <2>1, <2>4 DEF PopperInv, Kept
  <2>6. Listens'
    BY <1>1, <2>1 DEF PopperInv, Kept, Listens
  <2>7. FirstUpdate'
    BY <1>1, <2>1 DEF PopperInv, Kept, FirstUpdate
  <2>8. \A q \in Live : q \in Live' /\ (applies(q) => applies(q)')
    BY <1>1, <2>1 DEF PopperInv, Kept, Live, applies
  <2>9. p \in Live
    BY <1>1, <1>3 DEF Live
  <2>10. WrittenForLive'
    BY <2>3, <2>8, <2>9 DEF PopperInv, WrittenForLive
  <2> QED
    BY <2>5, <2>6, <2>7, <2>10 DEF PopperInv
<1> QED
  BY <1>2, <1>3

LEMMA NextPopper == PopperInv /\ [Next]_vars => PopperInv'
<1>1. ASSUME PopperInv, UNCHANGED vars PROVE PopperInv'
  <2>1. Kept' /\ Listens' /\ FirstUpdate'
    BY <1>1 DEF vars, PopperInv, Kept, Listens, FirstUpdate
  <2>2. WrittenForLive'
    BY <1>1 DEF vars, PopperInv, WrittenForLive, Live, applies
  <2> QED
    BY <2>1, <2>2 DEF PopperInv
<1> QED
  BY <1>1, NewKeeps, CallsKeep, MoveKeeps, ListenersKeep, DestroyKeeps, UpdateKeeps
     DEF Next, Script, Browser

\* PopperInv holds in every state.
THEOREM PopperInvariance == Spec => []PopperInv
BY InitPopper, NextPopper, PTL DEF Spec

\* Poppers listen exactly when they say so, and none is in use before its first
\* update.
THEOREM TypeCorrect == Spec => []TypeOK
<1>1. ASSUME PopperInv PROVE TypeOK
  <2>1. page \in Pages /\ made \in Poppers \cup {0}
    <3>1. made = 0 \/ made \in 1..made
      BY <1>1 DEF PopperInv, Kept
    <3> QED
      BY <1>1, <3>1 DEF PopperInv, Kept
  <2>2. \A p \in Poppers : /\ state[p].options \subseteq Options
                           /\ scheduled[p] \in {"no", "event", "manual"}
                           /\ called[p] \in {"no", "event", "manual"}
    BY <1>1 DEF PopperInv, Kept, PopperStates, Askers
  <2>3. listening = {p \in Poppers : state[p].eventsEnabled} /\ listening \subseteq 1..made
    BY <1>1 DEF PopperInv, Kept, Listens
  <2>4. \A p \in Poppers : ~state[p].isCreated /\ p \in 1..made =>
           called[p] # "no" \/ state[p].isDestroyed
    BY <1>1 DEF PopperInv, FirstUpdate
  <2> QED
    BY <2>1, <2>2, <2>3, <2>4 DEF TypeOK
<1> QED
  BY <1>1, PopperInvariance, PTL

\* However many poppers an element has had, and whatever frames and updates are
\* still to come, when all are destroyed it has no style and no placement left.
THEOREM NothingIsLeft == Spec => []DestroyedLeavesNothing
<1>1. PopperInv => DestroyedLeavesNothing
  BY DEF PopperInv, WrittenForLive, DestroyedLeavesNothing
<1> QED
  BY <1>1, PopperInvariance, PTL
-----------------------------------------------------------------------------
\* What an update of p writes depends on the page and on p's options alone.
SamePlace(p) == page' = page /\ state'[p].options = state[p].options

LEMMA WrittenStays ==
    ASSUME NEW p, SamePlace(p), element' = element, InPlace(p)
    PROVE  InPlace(p)'
BY DEF SamePlace, InPlace, Written

\* A step after which p is done without having been updated: p was done before
\* it, and nobody touched the page, the element or p's options.
Untouched(p) ==
    /\ p \in Live /\ p \notin missed /\ ~Waiting(p) /\ applies(p)
    /\ SamePlace(p) /\ element' = element

\* It is enough that every popper that is done after a step was untouched by it
\* or has just been written.
LEMMA DoneIfUntouched ==
    ASSUME InPlaceWhenDone,
           \A p \in Live' \ missed' : ~Waiting(p)' /\ applies(p)' => Untouched(p) \/ InPlace(p)'
    PROVE  InPlaceWhenDone'
BY WrittenStays DEF InPlaceWhenDone, Untouched

LEMMA NewInPlace ==
    ASSUME PopperInv, InPlaceWhenDone, NEW o \in Options, NEW events \in BOOLEAN, New(o, events)
    PROVE  InPlaceWhenDone'
<1> DEFINE n == made + 1
<1>1. /\ n \in Poppers /\ made' = n /\ made \in Nat
      /\ 1..made' = 1..made \cup {n} /\ n \notin 1..made
  BY DEF New, PopperInv, Kept
<1>2. /\ state' \in [Poppers -> PopperStates]
      /\ \A q \in Poppers \ {n} : state'[q] = state[q]
  BY <1>1 DEF New, PopperInv, Kept, PopperStates
<1>3. /\ called'[n] # "no"
      /\ \A q \in Poppers \ {n} : called'[q] = called[q]
  BY <1>1, AskTypes DEF New, PopperInv, Kept, Askers
<1>4. ASSUME NEW p \in Live' \ missed', ~Waiting(p)', applies(p)'
      PROVE  Untouched(p)
  <2>1. p # n /\ p \in 1..made /\ p \in Poppers
    BY <1>1, <1>3, <1>4 DEF Live, Waiting, PopperInv, Kept
  <2>2. p \in Live /\ applies(p) /\ ~Waiting(p) /\ SamePlace(p)
    BY <1>2, <1>3, <1>4, <2>1 DEF New, Live, applies, Waiting, SamePlace
  <2>3. p \notin missed /\ o \notin Applies
    BY <1>4, <2>2 DEF New
  <2> QED
    BY <2>2, <2>3 DEF New, Untouched
<1> QED
  BY <1>4, DoneIfUntouched

LEMMA UpdateInPlace ==
    ASSUME PopperInv, InPlaceWhenDone, NEW u \in Poppers, Update(u)
    PROVE  InPlaceWhenDone'
<1>1. /\ u \in 1..made /\ UNCHANGED <<page, made, listening, scheduled>>
      /\ \A q \in Poppers \ {u} : called'[q] = called[q]
      /\ 1..made \subseteq Poppers
  BY DEF Update, PopperInv, Kept, Askers
<1>2. \A q \in Poppers : state'[q].options = state[q].options
                         /\ state'[q].isDestroyed = state[q].isDestroyed
  BY DEF Update, PopperInv, Kept, PopperStates
<1>3. ASSUME NEW p \in Live' \ missed', ~Waiting(p)', applies(p)'
      PROVE  Untouched(p) \/ InPlace(p)'
  <2>1. p \in Live /\ applies(p) /\ SamePlace(p) /\ p \in Poppers
    BY <1>1, <1>2, <1>3 DEF Live, applies, SamePlace
  <2>2. CASE p = u
    <3>1. element' = Written(p)
      BY <2>1, <2>2 DEF Update, Live
    <3> QED
      BY <2>1, <3>1 DEF InPlace, Written, SamePlace
  <2>3. CASE p # u /\ state[u].isDestroyed
    BY <1>1, <1>3, <2>1, <2>3 DEF Update, Untouched, Waiting
  <2>4. CASE p # u /\ ~state[u].isDestroyed
    <3>1. p \notin missed /\ ~applies(u)
      BY <1>3, <2>1, <2>4 DEF Update
    <3> QED
      BY <1>1, <1>3, <2>1, <2>4, <3>1 DEF Update, Untouched, Waiting
  <2> QED
    BY <2>2, <2>3, <2>4
<1> QED
  BY <1>3, DoneIfUntouched

LEMMA DestroyInPlace ==
    ASSUME PopperInv, InPlaceWhenDone, NEW d \in Poppers, destroy(d)
    PROVE  InPlaceWhenDone'
<1>1. /\ d \in 1..made /\ UNCHANGED <<page, made, scheduled, called>>
      /\ 1..made \subseteq Poppers
  BY DEF destroy, PopperInv, Kept
<1>2. /\ state'[d].isDestroyed
      /\ \A q \in Poppers \ {d} : state'[q] = state[q]
  BY DEF destroy, PopperInv, Kept, PopperStates
<1>3. ASSUME NEW p \in Live' \ missed', ~Waiting(p)', applies(p)'
      PROVE  Untouched(p)
  <2>1. p # d /\ p \in Live /\ applies(p) /\ SamePlace(p) /\ ~Waiting(p)
    BY <1>1, <1>2, <1>3 DEF Live, applies, SamePlace, Waiting
  <2>2. p \notin missed /\ ~applies(d)
    BY <1>3, <2>1 DEF destroy
  <2> QED
    BY <2>1, <2>2 DEF destroy, Untouched
<1> QED
  BY <1>3, DoneIfUntouched

LEMMA MoveInPlace ==
    ASSUME PopperInv, InPlaceWhenDone, Move
    PROVE  InPlaceWhenDone'
<1>1. ASSUME NEW p \in Live' \ missed'
      PROVE  Waiting(p)'
  <2>1. p \in Live /\ p \in listening /\ p \in Poppers
    BY <1>1 DEF Move, Live, PopperInv, Kept
  <2> QED
    BY <2>1 DEF Move, Waiting
<1> QED
  BY <1>1 DEF InPlaceWhenDone

\* Calls and frames only add to what is waited for; listening does not count.
LEMMA CallsInPlace ==
    ASSUME PopperInv, InPlaceWhenDone, NEW c \in Poppers,
           \/ callUpdate(c) \/ scheduleUpdate(c) \/ Frame(c)
           \/ enableEventListeners(c) \/ disableEventListeners(c)
    PROVE  InPlaceWhenDone'
<1>1. /\ UNCHANGED <<page, made, element, missed>> /\ 1..made \subseteq Poppers
      /\ scheduled \in [Poppers -> Askers] /\ called \in [Poppers -> Askers]
  BY DEF callUpdate, scheduleUpdate, Frame, enableEventListeners, disableEventListeners,
         PopperInv, Kept
<1>2. \A q \in Poppers : state'[q].options = state[q].options
                         /\ state'[q].isDestroyed = state[q].isDestroyed
  BY DEF callUpdate, scheduleUpdate, Frame, enableEventListeners, disableEventListeners,
         PopperInv, Kept, PopperStates
<1>3. \A q \in Poppers : Waiting(q) => Waiting(q)'
  <2>1. CASE callUpdate(c)
    BY <1>1, <2>1, AskTypes DEF callUpdate, Waiting, Askers
  <2>2. CASE scheduleUpdate(c)
    BY <1>1, <2>2, AskTypes DEF scheduleUpdate, Waiting, Askers
  <2>3. CASE Frame(c)
    <3>1. PICK by \in Askers \ {"no"} : called' = Ask(called, c, by)
      BY <1>1, <2>3 DEF Frame
    <3>2. called'[c] # "no" /\ \A q \in Poppers \ {c} : called'[q] = called[q]
      <4>1. called \in [Poppers -> Askers]
        BY <1>1
      <4> QED
        BY <3>1, <4>1, AskTypes
    <3>3. \A q \in Poppers \ {c} : scheduled'[q] = scheduled[q]
      BY <1>1, <2>3 DEF Frame
    <3> QED
      BY <3>2, <3>3 DEF Waiting
  <2>4. CASE enableEventListeners(c) \/ disableEventListeners(c)
    BY <2>4 DEF enableEventListeners, disableEventListeners, Waiting
  <2> QED
    BY <2>1, <2>2, <2>3, <2>4
<1>4. ASSUME NEW p \in Live' \ missed', ~Waiting(p)', applies(p)'
      PROVE  Untouched(p)
  BY <1>1, <1>2, <1>3, <1>4 DEF Untouched, Live, applies, SamePlace
<1> QED
  BY <1>4, DoneIfUntouched

LEMMA NextInPlace == PopperInv /\ InPlaceWhenDone /\ [Next]_vars => InPlaceWhenDone'
<1>1. ASSUME PopperInv, InPlaceWhenDone, UNCHANGED vars PROVE InPlaceWhenDone'
  BY <1>1 DEF vars, InPlaceWhenDone, Live, Waiting, applies, InPlace, Written
<1> QED
  BY <1>1, NewInPlace, UpdateInPlace, DestroyInPlace, MoveInPlace, CallsInPlace
     DEF Next, Script, Browser

\* Whatever scripts call and whenever frames and updates come: a popper that
\* nothing is waiting for is where the page as it is now wants it, unless it was
\* told not to listen or another popper wrote on its element.
THEOREM InPlaceTheorem == Spec => []PoppersInPlace
<1>1. Init => InPlaceWhenDone
  BY DEF Init, InPlaceWhenDone, Live
<1>2. Spec => []InPlaceWhenDone
  BY <1>1, NextInPlace, PopperInvariance, PTL DEF Spec
<1>3. TypeOK /\ InPlaceWhenDone => PoppersInPlace
  BY DEF PoppersInPlace
<1> QED
  BY <1>2, <1>3, TypeCorrect, PTL

-----------------------------------------------------------------------------
(* Offsets: what an author writes, piece by piece.                          *)

\* The number of a piece, or that there is none yet.
AnyTerm == Terms \cup {Offset!Empty}

\* The strings that Split cuts an expression into, and the tokens they are cut from.
Pieces == [sign : {"", "+", "-"}, term : AnyTerm]

Tokens == [kind : {"term"}, term : Terms] \cup [kind : {"sign"}, sign : Offset!Signs]
          \cup [kind : {"divider"}]

\* The empty string.
Nothing == Offset!Piece("", Offset!Empty)

\* Texts split into fragments, and these into pieces, are never empty.
PieceLists == {l \in Seq(Pieces) : Len(l) > 0}

\* The fragments of an expression, one for each axis.
Fragments == {l \in Seq(PieceLists) : Len(l) > 0}

LEMMA Singleton ==
    ASSUME NEW S, NEW x \in S
    PROVE  <<x>> \in Seq(S) /\ Len(<<x>>) = 1
OBVIOUS

LEMMA Appended ==
    ASSUME NEW S, NEW seq \in Seq(S), NEW x \in S
    PROVE  Append(seq, x) \in Seq(S) /\ Len(Append(seq, x)) = Len(seq) + 1 /\ Len(Append(seq, x)) > 0
OBVIOUS

LEMMA LastReplaced ==
    ASSUME NEW S, NEW seq \in Seq(S), Len(seq) > 0, NEW x \in S
    PROVE  /\ Offset!ReplaceAt(seq, Len(seq), x) \in Seq(S)
           /\ Len(Offset!ReplaceAt(seq, Len(seq), x)) = Len(seq)
           /\ Offset!Last(seq) \in S
BY DEF Offset!ReplaceAt, Offset!Last

LEMMA PieceTypes ==
    /\ Nothing \in Pieces
    /\ \A s \in Offset!Signs : Offset!Piece(s, Offset!Empty) \in Pieces
    /\ \A t \in Terms, s \in {"", "+", "-"} : Offset!Piece(s, t) \in Pieces
    /\ <<Nothing>> \in PieceLists /\ <<<<Nothing>>>> \in Fragments
<1>1. Nothing \in Pieces
  BY DEF Nothing, Pieces, AnyTerm, Offset!Piece
<1>2. \A s \in Offset!Signs : Offset!Piece(s, Offset!Empty) \in Pieces
  BY DEF Pieces, AnyTerm, Offset!Piece, Offset!Signs
<1>3. \A t \in Terms, s \in {"", "+", "-"} : Offset!Piece(s, t) \in Pieces
  BY DEF Pieces, AnyTerm, Offset!Piece
<1>4. <<Nothing>> \in PieceLists
  BY <1>1, Singleton DEF PieceLists
<1>5. PICK l \in PieceLists : l = <<Nothing>>
  BY <1>4
<1>6. <<l>> \in Fragments
  BY DEF Fragments
<1> QED
  BY <1>1, <1>2, <1>3, <1>4, <1>5, <1>6

\* Split gives fragments.
LEMMA SplitTypes ==
    ASSUME NEW F \in Fragments, NEW token \in Tokens
    PROVE  Offset!Split(F, token) \in Fragments
<1>1. Len(F) \in Nat /\ Len(F) > 0 /\ F \in Seq(PieceLists)
  BY DEF Fragments
<1>2. Offset!Last(F) \in PieceLists
  BY <1>1, LastReplaced
<1>3. Len(Offset!Last(F)) \in Nat /\ Offset!Last(F) \in Seq(Pieces)
  BY <1>2 DEF PieceLists
<1>4. CASE token.kind = "sign"
  <2>1. token.sign \in Offset!Signs
    BY <1>4 DEF Tokens
  <2>2. <<Offset!Piece(token.sign, Offset!Empty)>> \in PieceLists /\ <<Nothing>> \in PieceLists
    BY <2>1, PieceTypes, Singleton DEF PieceLists
  <2>3. F \o <<<<Offset!Piece(token.sign, Offset!Empty)>>, <<Nothing>>>> \in Fragments
    BY <1>1, <2>2 DEF Fragments
  <2> QED
    BY <1>4, <2>3 DEF Offset!Split, Nothing
<1>5. CASE token.kind = "divider"
  <2>1. Append(Offset!Last(F), Nothing) \in PieceLists
    BY <1>3, PieceTypes, Appended DEF PieceLists
  <2>2. PICK l \in PieceLists : l = Append(Offset!Last(F), Nothing)
    BY <2>1
  <2>3. Offset!ReplaceAt(F, Len(F), l) \in Fragments
    BY <1>1, LastReplaced DEF Fragments
  <2> QED
    BY <1>5, <2>2, <2>3 DEF Offset!Split, Nothing
<1>6. CASE token.kind = "term"
  <2>1. token.term \in Terms
    BY <1>6 DEF Tokens
  <2>2. Offset!Front(Offset!Last(F)) \in Seq(Pieces)
    BY <1>3 DEF Offset!Front
  <2>3. Append(Offset!Front(Offset!Last(F)), Offset!Piece("", token.term)) \in PieceLists
    <3>1. Offset!Piece("", token.term) \in Pieces
      BY <2>1, PieceTypes
    <3> QED
      BY <2>2, <3>1, Appended DEF PieceLists
  <2>4. PICK l \in PieceLists :
           l = Append(Offset!Front(Offset!Last(F)), Offset!Piece("", token.term))
    BY <2>3
  <2>5. Offset!ReplaceAt(F, Len(F), l) \in Fragments
    BY <1>1, LastReplaced DEF Fragments
  <2> QED
    BY <1>6, <2>4, <2>5 DEF Offset!Split
<1> QED
  BY <1>4, <1>5, <1>6 DEF Tokens

\* The steps of the code as functions.
SplitStep == [p \in Fragments \X Tokens |-> Offset!Split(p[1], p[2])]

LEMMA SplitSteps ==
    /\ SplitStep \in Steppers(Fragments, Tokens)
    /\ \A F \in Fragments, token \in Tokens : SplitStep[<<F, token>>] = Offset!Split(F, token)
<1>1. \A F \in Fragments, token \in Tokens : Offset!Split(F, token) \in Fragments
  BY SplitTypes
<1> QED
  BY <1>1 DEF SplitStep, Steppers

\* What an expression is split into, one token after the other.
LEMMA FragmentsAreFolded ==
    ASSUME NEW t \in Seq(Tokens)
    PROVE  Offset!fragments(t) = Folded(Fragments, <<<<Nothing>>>>, t, SplitStep)
<1> DEFINE a == <<<<Nothing>>>>
           Body(g, k) == IF k = 0 THEN a ELSE Offset!Split(g[k - 1], t[k])
           Frags == CHOOSE g : g = [k \in 0..Len(t) |-> Body(g, k)]
<1>0. Len(t) \in Nat /\ \A k \in 1..Len(t) : t[k] \in Tokens
  OBVIOUS
<1>1. a \in Fragments
  BY PieceTypes
<1>2. Offset!fragments(t) = Frags[Len(t)]
  BY Zenon DEF Offset!fragments, Nothing
<1> HIDE DEF a
<1>3. PICK h \in [0..Len(t) -> Fragments] :
         h = [k \in 0..Len(t) |-> IF k = 0 THEN a ELSE SplitStep[<<h[k - 1], t[k]>>]]
  BY <1>1, SplitSteps, FoldIsSolved
<1>4. h = [k \in 0..Len(t) |-> Body(h, k)]
  <2>1. ASSUME NEW k \in 0..Len(t), k # 0 PROVE SplitStep[<<h[k - 1], t[k]>>] = Offset!Split(h[k - 1], t[k])
    <3>1. k \in 1..Len(t) /\ k - 1 \in 0..Len(t)
      BY <1>0, <2>1
    <3>2. h[k - 1] \in Fragments /\ t[k] \in Tokens
      BY <1>0, <3>1
    <3> QED
      BY <3>2, SplitSteps
  <2> QED
    BY <1>3, <2>1
<1>5. Frags = [k \in 0..Len(t) |-> Body(Frags, k)]
  BY <1>4
<1> HIDE DEF Frags
<1>6. Frags[0] = a
  BY <1>0, <1>5
<1>7. ASSUME NEW k \in 1..Len(t), Frags[k - 1] \in Fragments
      PROVE  Frags[k] = SplitStep[<<Frags[k - 1], t[k]>>]
  <2>1. k \in 0..Len(t) /\ k # 0
    BY <1>0
  <2> QED
    BY <1>0, <1>5, <1>7, <2>1, SplitSteps
<1>8. Frags = [k \in 0..Len(t) |-> Frags[k]]
  BY <1>5
<1>9. DoesAs(Frags, Fragments, a, t, SplitStep)
  BY <1>6, <1>7, <1>8, Zenon DEF DoesAs
<1>10. SplitStep \in Steppers(Fragments, Tokens)
  BY SplitSteps
<1>11. Frags[Len(t)] = Folded(Fragments, a, t, SplitStep)
  BY <1>1, <1>9, <1>10, FoldsAsDone
<1> QED
  BY <1>2, <1>11 DEF a

\* One token more.
LEMMA FragmentsAppend ==
    ASSUME NEW t \in Seq(Tokens), NEW token \in Tokens
    PROVE  /\ Offset!fragments(t) \in Fragments
           /\ Offset!fragments(Append(t, token)) = Offset!Split(Offset!fragments(t), token)
<1>1. PICK a \in Fragments : a = <<<<Nothing>>>>
  BY PieceTypes
<1>2. Append(t, token) \in Seq(Tokens) /\ SplitStep \in Steppers(Fragments, Tokens)
  BY SplitSteps
<1>3. \A u \in Seq(Tokens) : Offset!fragments(u) = Folded(Fragments, a, u, SplitStep)
  BY <1>1, FragmentsAreFolded
<1>4. Offset!fragments(t) \in Fragments
  BY <1>2, <1>3, FoldOfAll
<1>5. Folded(Fragments, a, Append(t, token), SplitStep)
          = SplitStep[<<Folded(Fragments, a, t, SplitStep), token>>]
  BY <1>2, FoldOfAppend
<1>6. Offset!fragments(Append(t, token)) = SplitStep[<<Offset!fragments(t), token>>]
  BY <1>2, <1>3, <1>5, Zenon
<1> QED
  BY <1>4, <1>6, SplitSteps

LEMMA FragmentsOfNothing == Offset!fragments(<<>>) = <<<<Nothing>>>>
<1>0. <<>> \in Seq(Tokens) /\ Len(<<>>) = 0
  OBVIOUS
<1>1. PICK e \in Seq(Tokens) : e = <<>> /\ Len(e) = 0
  BY <1>0, Zenon
<1>2. PICK a \in Fragments : a = <<<<Nothing>>>>
  BY PieceTypes
<1>3. Offset!fragments(e) = Folded(Fragments, a, e, SplitStep)
  BY <1>1, <1>2, FragmentsAreFolded
<1>4. SplitStep \in Steppers(Fragments, Tokens)
  BY SplitSteps
<1>5. Len(e) = 0
  BY <1>1
<1>6. Offset!fragments(e) = a
  BY <1>3, <1>4, <1>5, FoldOfNone
<1> QED
  BY <1>1, <1>2, <1>6, Zenon

\* What aggregate has made of the pieces so far.
Accs == {acc \in [a : Seq(Pieces), mergeWithPrevious : BOOLEAN] :
            acc.mergeWithPrevious => Len(acc.a) > 0}

\* aggregate's strings, and whether it merges into the last.
Acc(a, merge) == [a |-> a, mergeWithPrevious |-> merge]

\* What Merge gives.
LEMMA MergeTypes ==
    ASSUME NEW acc \in Accs, NEW piece \in Pieces
    PROVE  Offset!Merge(acc, piece) \in Accs
<1>1. acc.a \in Seq(Pieces) /\ acc.mergeWithPrevious \in BOOLEAN
      /\ (acc.mergeWithPrevious => Len(acc.a) > 0) /\ Len(acc.a) \in Nat
  BY DEF Accs
<1>2. PICK yes \in BOOLEAN, no \in BOOLEAN : yes = TRUE /\ no = FALSE
  OBVIOUS
<1>3. Offset!Front(acc.a) \in Seq(Pieces)
  BY <1>1 DEF Offset!Front
<1>4. \A l \in Seq(Pieces), p \in Pieces, b \in BOOLEAN :
          [a |-> Append(l, p), mergeWithPrevious |-> b] \in Accs
  <2> SUFFICES ASSUME NEW l \in Seq(Pieces), NEW p \in Pieces, NEW b \in BOOLEAN
               PROVE  [a |-> Append(l, p), mergeWithPrevious |-> b] \in Accs
    OBVIOUS
  <2>1. PICK m \in Seq(Pieces) : m = Append(l, p) /\ Len(m) > 0
    BY Appended
  <2>2. [a |-> m, mergeWithPrevious |-> b] \in Accs
    BY <2>1 DEF Accs
  <2> QED
    BY <2>1, <2>2
<1>5. CASE acc.a # <<>> /\ Offset!Last(acc.a) = Offset!Piece("", Offset!Empty) /\ Offset!IsSign(piece)
  <2>1. Offset!Merge(acc, piece) = [a |-> Append(Offset!Front(acc.a), piece), mergeWithPrevious |-> yes]
    BY <1>2, <1>5, Zenon DEF Offset!Merge
  <2> QED
    BY <1>3, <1>4, <2>1
<1>6. CASE /\ ~(acc.a # <<>> /\ Offset!Last(acc.a) = Offset!Piece("", Offset!Empty)
                /\ Offset!IsSign(piece))
           /\ acc.mergeWithPrevious
  <2>1. Offset!Merge(acc, piece) =
            [a |-> Append(Offset!Front(acc.a), Offset!Piece(Offset!Last(acc.a).sign, piece.term)),
             mergeWithPrevious |-> no]
    BY <1>2, <1>6, Zenon DEF Offset!Merge
  <2>2. Offset!Last(acc.a) \in Pieces
    <3>1. PICK l \in Seq(Pieces) : l = acc.a /\ Len(l) > 0
      BY <1>1, <1>6
    <3>2. PICK p \in Pieces : TRUE
      BY PieceTypes
    <3>3. Offset!Last(l) \in Pieces
      BY <3>1, <3>2, LastReplaced
    <3> QED
      BY <3>1, <3>3
  <2>3. Offset!Piece(Offset!Last(acc.a).sign, piece.term) \in Pieces
    BY <2>2 DEF Offset!Piece, Pieces
  <2> QED
    BY <1>3, <1>4, <2>1, <2>3
<1>7. CASE /\ ~(acc.a # <<>> /\ Offset!Last(acc.a) = Offset!Piece("", Offset!Empty)
                /\ Offset!IsSign(piece))
           /\ ~acc.mergeWithPrevious
  <2>1. Offset!Merge(acc, piece) = [acc EXCEPT !.a = Append(@, piece)]
    BY <1>7, Zenon DEF Offset!Merge
  <2>2. [acc EXCEPT !.a = Append(@, piece)] \in Accs
    <3>1. PICK m \in Seq(Pieces) : m = Append(acc.a, piece) /\ Len(m) > 0
      BY <1>1, Appended
    <3>2. [acc EXCEPT !.a = m] \in Accs
      BY <3>1 DEF Accs
    <3> QED
      BY <3>1, <3>2
  <2> QED
    BY <2>1, <2>2
<1> QED
  BY <1>5, <1>6, <1>7

MergeStep == [p \in Accs \X Pieces |-> Offset!Merge(p[1], p[2])]

LEMMA MergeSteps ==
    /\ MergeStep \in Steppers(Accs, Pieces)
    /\ \A acc \in Accs, piece \in Pieces : MergeStep[<<acc, piece>>] = Offset!Merge(acc, piece)
<1>1. \A acc \in Accs, piece \in Pieces : Offset!Merge(acc, piece) \in Accs
  BY MergeTypes
<1> QED
  BY <1>1 DEF MergeStep, Steppers

NoAcc == Acc(<<>>, FALSE)

\* What aggregate makes of the pieces, one after the other.
Merged(op) == Folded(Accs, NoAcc, op, MergeStep)

LEMMA NoAccType == NoAcc \in Accs
<1>0. <<>> \in Seq(Pieces)
  OBVIOUS
<1>1. PICK no \in BOOLEAN, e \in Seq(Pieces) : no = FALSE /\ e = <<>>
  BY <1>0, Zenon
<1>2. [a |-> e, mergeWithPrevious |-> no] \in Accs
  <2>1. ~no
    BY <1>1
  <2> HIDE <1>1
  <2> QED
    BY <2>1 DEF Accs
<1> QED
  BY <1>1, <1>2, Zenon DEF NoAcc, Acc

LEMMA AggregateMerges ==
    ASSUME NEW op \in Seq(Pieces)
    PROVE  Offset!aggregate(op) = Merged(op).a
<1> DEFINE n == Len(op)
           a == NoAcc
           Body(g, k) == IF k = 0 THEN a ELSE Offset!Merge(g[k - 1], op[k])
           G == CHOOSE g : g = [k \in 0..Len(op) |-> Body(g, k)]
<1>0. Len(op) \in Nat /\ \A k \in 1..Len(op) : op[k] \in Pieces
  OBVIOUS
<1>1. a \in Accs
  BY NoAccType
<1>2. Offset!aggregate(op) = G[Len(op)].a
  BY Zenon DEF Offset!aggregate, NoAcc, Acc
<1> HIDE DEF a
<1>3. PICK h \in [0..Len(op) -> Accs] :
         h = [k \in 0..Len(op) |-> IF k = 0 THEN a ELSE MergeStep[<<h[k - 1], op[k]>>]]
  <2>1. MergeStep \in Steppers(Accs, Pieces)
    BY MergeSteps
  <2> QED
    BY <1>1, <2>1, FoldIsSolved
<1>4. h = [k \in 0..Len(op) |-> Body(h, k)]
  <2>1. ASSUME NEW k \in 0..Len(op), k # 0 PROVE MergeStep[<<h[k - 1], op[k]>>] = Offset!Merge(h[k - 1], op[k])
    <3>1. k \in 1..Len(op) /\ k - 1 \in 0..Len(op)
      BY <1>0, <2>1
    <3>2. h[k - 1] \in Accs /\ op[k] \in Pieces
      BY <1>0, <3>1
    <3> QED
      BY <3>2, MergeSteps
  <2> QED
    BY <1>3, <2>1
<1>5. G = [k \in 0..Len(op) |-> Body(G, k)]
  BY <1>4
<1> HIDE DEF G
<1>6. G[0] = a
  BY <1>0, <1>5
<1>7. ASSUME NEW k \in 1..Len(op), G[k - 1] \in Accs
      PROVE  G[k] = MergeStep[<<G[k - 1], op[k]>>]
  <2>1. k \in 0..Len(op) /\ k # 0
    BY <1>0
  <2> QED
    BY <1>0, <1>5, <1>7, <2>1, MergeSteps
<1>8. G = [k \in 0..Len(op) |-> G[k]]
  BY <1>5
<1>9. DoesAs(G, Accs, a, op, MergeStep)
  BY <1>6, <1>7, <1>8, Zenon DEF DoesAs
<1>10. MergeStep \in Steppers(Accs, Pieces)
  BY MergeSteps
<1>11. G[Len(op)] = Folded(Accs, a, op, MergeStep)
  BY <1>1, <1>9, <1>10, FoldsAsDone
<1> QED
  BY <1>2, <1>11 DEF a, Merged

\* One piece more.
LEMMA MergedAppend ==
    ASSUME NEW op \in Seq(Pieces), NEW piece \in Pieces
    PROVE  /\ Merged(op) \in Accs
           /\ Merged(Append(op, piece)) = Offset!Merge(Merged(op), piece)
<1>1. PICK a \in Accs : a = NoAcc
  BY NoAccType
<1>2. Append(op, piece) \in Seq(Pieces) /\ MergeStep \in Steppers(Accs, Pieces)
  BY MergeSteps
<1>3. Folded(Accs, a, op, MergeStep) \in Accs
  BY <1>2, FoldOfAll
<1>4. Folded(Accs, a, Append(op, piece), MergeStep) = MergeStep[<<Folded(Accs, a, op, MergeStep), piece>>]
  BY <1>2, FoldOfAppend
<1>5. MergeStep[<<Folded(Accs, a, op, MergeStep), piece>>] = Offset!Merge(Folded(Accs, a, op, MergeStep), piece)
  BY <1>3, MergeSteps
<1> QED
  BY <1>1, <1>3, <1>4, <1>5, Zenon DEF Merged

LEMMA MergedNothing == Merged(<<>>) = NoAcc
<1>0. <<>> \in Seq(Pieces) /\ Len(<<>>) = 0
  OBVIOUS
<1>1. PICK e \in Seq(Pieces) : e = <<>> /\ Len(e) = 0
  BY <1>0, Zenon
<1>2. PICK a \in Accs : a = NoAcc
  BY NoAccType
<1>3. MergeStep \in Steppers(Accs, Pieces)
  BY MergeSteps
<1>4. Len(e) = 0
  BY <1>1
<1>5. Folded(Accs, a, e, MergeStep) = a
  BY <1>3, <1>4, FoldOfNone
<1> QED
  BY <1>1, <1>2, <1>5, Zenon DEF Merged

\* The directions that a measure may be of.
Sides == {"width", "height"}

\* A minus that is a string of its own: it turns the sign of what follows.
Minus == Offset!Piece("-", Offset!Empty)

Turn(before) == IF before = Minus THEN -1 ELSE 1

\* A sum so far and the piece before the next.
Sums == Int \X Pieces

LEMMA SumPairs ==
    ASSUME NEW z \in Sums
    PROVE  z[1] \in Int /\ z[2] \in Pieces /\ z = <<z[1], z[2]>>
BY DEF Sums

LEMMA ScaleType ==
    ASSUME NEW unit \in Offset!Units \cup {""}, NEW m \in Sides
    PROVE  Offset!Scale(unit, m) \in Nat
<1>1. Measures \in [{"reference", "popper", "window"} -> [width : Nat, height : Nat]]
  BY PositioningAssumption DEF Offset!ConstantsAssumption
<1>2. /\ Measures["popper"][m] \in Nat /\ Measures["reference"][m] \in Nat
      /\ Measures["window"].height \in Nat /\ Measures["window"].width \in Nat
  BY <1>1 DEF Sides
<1> QED
  BY <1>2 DEF Offset!Scale, Offset!Units

LEMMA TermTypes ==
    \A t \in Terms : /\ t.value \in Nat /\ t.unit \in Offset!Units /\ t # Offset!Empty
                     /\ t \in AnyTerm
<1>1. Terms \subseteq [value : Nat, unit : Offset!Units]
  BY PositioningAssumption DEF Offset!ConstantsAssumption
<1> SUFFICES ASSUME NEW t \in Terms
             PROVE  /\ t.value \in Nat /\ t.unit \in Offset!Units /\ t # Offset!Empty
                    /\ t \in AnyTerm
  OBVIOUS
<1>2. t \in [value : Nat, unit : Offset!Units]
  BY <1>1
<1>3. t.value \in Nat /\ t.unit \in Offset!Units
  BY <1>2
<1>4. t.unit # "" /\ Offset!Empty.unit = ""
  BY <1>3 DEF Offset!Units, Offset!Empty
<1> QED
  BY <1>3, <1>4 DEF AnyTerm

LEMMA ValueType ==
    ASSUME NEW x \in Pieces, NEW m \in Sides
    PROVE  /\ Offset!toValue(x, m) \in Int
           /\ x.term = Offset!Empty => Offset!toValue(x, m) = 0
           /\ x.term # Offset!Empty =>
                Offset!toValue(x, m)
                    = (IF x.sign = "-" THEN -x.term.value ELSE x.term.value)
                      * Offset!Scale(x.term.unit, m)
<1>1. x.term \in AnyTerm
  BY DEF Pieces
<1>a. Offset!Empty.value = 0 /\ Offset!Empty.unit = ""
  BY DEF Offset!Empty
<1>2. x.term.value \in Nat /\ x.term.unit \in Offset!Units \cup {""}
      /\ (x.term = Offset!Empty => x.term.value = 0)
  <2>1. CASE x.term = Offset!Empty
    <3>1. x.term.value = 0 /\ x.term.unit = ""
      BY <1>a, <2>1
    <3>2. 0 \in Nat /\ "" \in Offset!Units \cup {""}
      OBVIOUS
    <3> QED
      BY <3>1, <3>2, Zenon
  <2>2. CASE x.term # Offset!Empty
    BY <1>1, <2>2, TermTypes DEF AnyTerm
  <2> QED
    BY <2>1, <2>2
<1>3. PICK n \in Nat : n = Offset!Scale(x.term.unit, m)
  BY <1>2, ScaleType
<1> DEFINE val == IF x.sign = "-" THEN -x.term.value ELSE x.term.value
<1>b. val \in Int /\ (x.term = Offset!Empty => val = 0)
  <2>1. PICK v \in Nat : v = x.term.value
    BY <1>2
  <2>2. x.term = Offset!Empty => v = 0
    BY <1>2, <2>1
  <2>3. val = IF x.sign = "-" THEN -v ELSE v
    BY <2>1
  <2> QED
    BY <2>2, <2>3
<1>4. PICK v \in Int : v = val /\ (x.term = Offset!Empty => v = 0)
  <2> HIDE DEF val
  <2> QED
    BY <1>b
<1>5. Offset!toValue(x, m) = v * n
  BY <1>3, <1>4 DEF Offset!toValue
<1>6. v * n \in Int /\ (v = 0 => v * n = 0)
  OBVIOUS
<1> QED
  BY <1>3, <1>4, <1>5, <1>6

\* The steps of SumOf.
SumStep(m) ==
    [p \in Sums \X Pieces |-> <<p[1][1] + Offset!toValue(p[2], m) * Turn(p[1][2]), p[2]>>]

NoSum == <<0, Nothing>>

LEMMA SumSteps ==
    ASSUME NEW m \in Sides
    PROVE  /\ SumStep(m) \in Steppers(Sums, Pieces)
           /\ \A s \in Int, b \in Pieces, x \in Pieces :
                SumStep(m)[<<<<s, b>>, x>>] = <<s + Offset!toValue(x, m) * Turn(b), x>>
           /\ NoSum \in Sums
<1>1. \A b \in Pieces : Turn(b) \in {1, -1}
  BY DEF Turn
<1>2. \A s \in Int, b \in Pieces, x \in Pieces : s + Offset!toValue(x, m) * Turn(b) \in Int
  BY <1>1, ValueType
<1>3. ASSUME NEW p \in Sums \X Pieces
      PROVE  <<p[1][1] + Offset!toValue(p[2], m) * Turn(p[1][2]), p[2]>> \in Sums
  <2>1. p[1][1] \in Int /\ p[1][2] \in Pieces /\ p[2] \in Pieces
    BY DEF Sums
  <2> QED
    BY <1>2, <2>1 DEF Sums
<1>4. SumStep(m) \in Steppers(Sums, Pieces)
  BY <1>3 DEF SumStep, Steppers
<1>5. ASSUME NEW s \in Int, NEW b \in Pieces, NEW x \in Pieces
      PROVE  SumStep(m)[<<<<s, b>>, x>>] = <<s + Offset!toValue(x, m) * Turn(b), x>>
  BY DEF SumStep, Sums
<1>6. NoSum \in Sums
  <2>1. Nothing \in Pieces
    BY PieceTypes
  <2> QED
    BY <2>1 DEF NoSum, Sums
<1> QED
  BY <1>4, <1>5, <1>6

\* The sum of a list of strings, one after the other.
Summed(op, m) == Folded(Sums, NoSum, op, SumStep(m))

LEMMA SumIsFolded ==
    ASSUME NEW op \in Seq(Pieces), NEW m \in Sides
    PROVE  Offset!SumOf(op, m) = Summed(op, m)[1]
<1> DEFINE Body(g, k) ==
                IF k = 0 THEN 0
                ELSE g[k - 1] + Offset!toValue(op[k], m)
                         * (IF k > 1 /\ op[k - 1] = Offset!Piece("-", Offset!Empty) THEN -1 ELSE 1)
           G == CHOOSE g : g = [k \in 0..Len(op) |-> Body(g, k)]
           Before(k) == IF k = 0 THEN Nothing ELSE op[k]
<1>0. Len(op) \in Nat /\ \A k \in 1..Len(op) : op[k] \in Pieces
  OBVIOUS
<1>1. /\ SumStep(m) \in Steppers(Sums, Pieces) /\ NoSum \in Sums
      /\ \A s \in Int, b \in Pieces, x \in Pieces :
             SumStep(m)[<<<<s, b>>, x>>] = <<s + Offset!toValue(x, m) * Turn(b), x>>
  BY SumSteps
<1>2. Offset!SumOf(op, m) = G[Len(op)]
  BY Zenon DEF Offset!SumOf
<1>3. PICK h \in [0..Len(op) -> Sums] :
         h = [k \in 0..Len(op) |-> IF k = 0 THEN NoSum ELSE SumStep(m)[<<h[k - 1], op[k]>>]]
  BY <1>1, FoldIsSolved
<1>a. \A k \in 0..Len(op) : Before(k) \in Pieces
  <2>1. \A k \in 0..Len(op) : k = 0 \/ k \in 1..Len(op)
    BY <1>0
  <2> QED
    BY <1>0, <2>1, PieceTypes
<1>b. \A k \in 1..Len(op) :
        Turn(Before(k - 1))
            = IF k > 1 /\ op[k - 1] = Offset!Piece("-", Offset!Empty) THEN -1 ELSE 1
  <2>1. Nothing # Minus
    BY DEF Nothing, Minus, Offset!Piece
  <2> QED
    BY <1>0, <2>1 DEF Turn, Minus
<1>4. \A k \in 0..Len(op) : h[k][1] \in Int /\ h[k][2] = Before(k)
  <2> SUFFICES ASSUME NEW k \in 0..Len(op) PROVE h[k][1] \in Int /\ h[k][2] = Before(k)
    OBVIOUS
  <2>1. h[k] \in Sums
    BY <1>3
  <2>2. CASE k = 0
    BY <1>3, <2>1, <2>2 DEF NoSum, Sums
  <2>3. CASE k # 0
    <3>1. k \in 1..Len(op) /\ k - 1 \in 0..Len(op)
      BY <1>0, <2>3
    <3>2. h[k] = SumStep(m)[<<h[k - 1], op[k]>>]
      BY <1>3, <2>3
    <3>a. h[k - 1] \in Sums
      BY <1>3, <3>1
    <3>3. PICK s \in Int, b \in Pieces : h[k - 1] = <<s, b>>
      BY <3>a, SumPairs
    <3>4. h[k] = <<s + Offset!toValue(op[k], m) * Turn(b), op[k]>>
      BY <1>0, <1>1, <3>1, <3>2, <3>3
    <3> QED
      BY <2>1, <2>3, <3>4 DEF Sums
  <2> QED
    BY <2>2, <2>3
<1> DEFINE f == [k \in 0..Len(op) |-> h[k][1]]
<1>5. f = [k \in 0..Len(op) |-> Body(f, k)]
  <2> SUFFICES ASSUME NEW k \in 0..Len(op) PROVE h[k][1] = Body(f, k)
    OBVIOUS
  <2>1. CASE k = 0
    BY <1>3, <2>1 DEF NoSum
  <2>2. CASE k # 0
    <3>1. k \in 1..Len(op) /\ k - 1 \in 0..Len(op)
      BY <1>0, <2>2
    <3>2. h[k] = SumStep(m)[<<h[k - 1], op[k]>>]
      BY <1>3, <2>2
    <3>a. h[k - 1] \in Sums
      BY <1>3, <3>1
    <3>3. h[k - 1] = <<h[k - 1][1], h[k - 1][2]>>
      BY <3>a, SumPairs
    <3>4. h[k - 1][1] \in Int /\ h[k - 1][2] = Before(k - 1) /\ Before(k - 1) \in Pieces
      BY <1>4, <1>a, <3>1
    <3> HIDE DEF Before
    <3>5. h[k] = <<h[k - 1][1] + Offset!toValue(op[k], m) * Turn(Before(k - 1)), op[k]>>
      BY <1>0, <1>1, <3>1, <3>2, <3>3, <3>4
    <3>6. h[k][1] = h[k - 1][1] + Offset!toValue(op[k], m) * Turn(Before(k - 1))
      BY <3>5
    <3>7. f[k - 1] = h[k - 1][1]
      BY <3>1
    <3> HIDE DEF f
    <3> QED
      BY <1>b, <2>2, <3>1, <3>6, <3>7
  <2> QED
    BY <2>1, <2>2
<1>6. G = [k \in 0..Len(op) |-> Body(G, k)]
  <2> HIDE DEF f
  <2> QED
    BY <1>5
<1> HIDE DEF G
<1> DEFINE P == [k \in 0..Len(op) |-> <<G[k], Before(k)>>]
<1>7. P[0] = NoSum
  BY <1>0, <1>6 DEF NoSum
<1>8. ASSUME NEW k \in 1..Len(op), P[k - 1] \in Sums
      PROVE  P[k] = SumStep(m)[<<P[k - 1], op[k]>>]
  <2>1. k \in 0..Len(op) /\ k # 0 /\ k - 1 \in 0..Len(op)
    BY <1>0
  <2>2. P[k - 1] = <<G[k - 1], Before(k - 1)>> /\ P[k] = <<G[k], op[k]>>
    BY <2>1
  <2>3. G[k] = G[k - 1] + Offset!toValue(op[k], m) * Turn(Before(k - 1))
    <3>1. G[k] = Body(G, k)
      BY <1>6, <2>1
    <3> HIDE DEF Before
    <3> QED
      BY <1>b, <2>1, <3>1
  <2> HIDE DEF P, Before
  <2>4. G[k - 1] \in Int
    BY <1>8, <2>2, SumPairs
  <2> QED
    BY <1>0, <1>1, <1>a, <2>1, <2>2, <2>3, <2>4, ZenonT(40)
<1>9. P = [k \in 0..Len(op) |-> P[k]]
  OBVIOUS
<1>10. P[Len(op)][1] = G[Len(op)]
  BY <1>0
<1> HIDE DEF P
<1>11. DoesAs(P, Sums, NoSum, op, SumStep(m))
  BY <1>7, <1>8, <1>9, Zenon DEF DoesAs
<1>12. P[Len(op)] = Folded(Sums, NoSum, op, SumStep(m))
  <2>1. PICK a \in Sums : a = NoSum
    BY <1>1
  <2>2. PICK st \in Steppers(Sums, Pieces) : st = SumStep(m)
    BY <1>1
  <2>3. DoesAs(P, Sums, a, op, st)
    BY <1>11, <2>1, <2>2
  <2>4. P[Len(op)] = Folded(Sums, a, op, st)
    BY <2>3, FoldsAsDone
  <2> QED
    BY <2>1, <2>2, <2>4
<1> QED
  BY <1>2, <1>10, <1>12 DEF Summed

\* One string more.
LEMMA SummedAppend ==
    ASSUME NEW op \in Seq(Pieces), NEW x \in Pieces, NEW m \in Sides
    PROVE  /\ Summed(op, m) \in Sums
           /\ Summed(Append(op, x), m)
                = <<Summed(op, m)[1] + Offset!toValue(x, m) * Turn(Summed(op, m)[2]), x>>
<1>1. PICK a \in Sums : a = NoSum
  BY SumSteps
<1>2. PICK st \in Steppers(Sums, Pieces) : st = SumStep(m)
  BY SumSteps
<1>3. Folded(Sums, a, op, st) \in Sums
  BY FoldOfAll
<1>4. Folded(Sums, a, Append(op, x), st) = st[<<Folded(Sums, a, op, st), x>>]
  BY FoldOfAppend
<1>5. Summed(op, m) \in Sums /\ Summed(Append(op, x), m) = SumStep(m)[<<Summed(op, m), x>>]
  BY <1>1, <1>2, <1>3, <1>4, Zenon DEF Summed
<1>6. PICK s \in Int, b \in Pieces : Summed(op, m) = <<s, b>>
  BY <1>5, SumPairs
<1> QED
  BY <1>5, <1>6, SumSteps, SMTT(30)

LEMMA SummedNothing ==
    ASSUME NEW m \in Sides
    PROVE  Summed(<<>>, m) = NoSum
<1>0. <<>> \in Seq(Pieces) /\ Len(<<>>) = 0
  OBVIOUS
<1>1. PICK e \in Seq(Pieces) : e = <<>> /\ Len(e) = 0
  BY <1>0, Zenon
<1>2. PICK a \in Sums : a = NoSum
  BY SumSteps
<1>3. PICK st \in Steppers(Sums, Pieces) : st = SumStep(m)
  BY SumSteps
<1>4. Len(e) = 0
  BY <1>1
<1>5. Folded(Sums, a, e, st) = a
  BY <1>4, FoldOfNone
<1> QED
  BY <1>1, <1>2, <1>3, <1>5, Zenon DEF Summed

Minused(s) == IF s = "-" THEN -1 ELSE 1

\* The sign that a number may have.
NumberSigns == {"", "+", "-"}

\* A sign as a string of its own.
LEMMA SignTypes ==
    ASSUME NEW s \in Offset!Signs
    PROVE  /\ Offset!Piece(s, Offset!Empty) \in Pieces
           /\ Offset!IsSign(Offset!Piece(s, Offset!Empty))
           /\ Offset!Piece(s, Offset!Empty).sign = s
           /\ Offset!Piece(s, Offset!Empty).term = Offset!Empty
           /\ Turn(Offset!Piece(s, Offset!Empty)) = Minused(s)
           /\ ~Offset!IsSign(Nothing) /\ Turn(Nothing) = 1
BY PieceTypes DEF Offset!Piece, Offset!IsSign, Offset!Signs, Turn, Minused, Minus, Nothing

\* What Merge does, case by case.
LEMMA MergeSign ==
    ASSUME NEW a \in Seq(Pieces), NEW b \in BOOLEAN, NEW x \in Pieces,
           Len(a) > 0, Offset!Last(a) = Nothing, Offset!IsSign(x)
    PROVE  Offset!Merge(Acc(a, b), x) = Acc(Append(Offset!Front(a), x), TRUE)
<1>1. a # <<>>
  OBVIOUS
<1>2. Acc(a, b).a = a
  BY DEF Acc
<1> QED
  BY <1>1, <1>2, Zenon DEF Offset!Merge, Acc, Nothing

LEMMA MergeSigned ==
    ASSUME NEW a \in Seq(Pieces), NEW x \in Pieces, ~Offset!IsSign(x)
    PROVE  Offset!Merge(Acc(a, TRUE), x)
                = Acc(Append(Offset!Front(a), Offset!Piece(Offset!Last(a).sign, x.term)), FALSE)
<1>2. Acc(a, TRUE).a = a /\ Acc(a, TRUE).mergeWithPrevious
  <2>1. PICK yes \in BOOLEAN : yes = TRUE
    OBVIOUS
  <2>2. Acc(a, yes).a = a /\ Acc(a, yes).mergeWithPrevious = yes
    BY DEF Acc
  <2> QED
    BY <2>1, <2>2, Zenon
<1> QED
  BY <1>2, Zenon DEF Offset!Merge, Acc

LEMMA MergeNext ==
    ASSUME NEW a \in Seq(Pieces), NEW x \in Pieces,
           Len(a) = 0 \/ Offset!Last(a) # Nothing \/ ~Offset!IsSign(x)
    PROVE  Offset!Merge(Acc(a, FALSE), x) = Acc(Append(a, x), FALSE)
<1>1. a = <<>> \/ Offset!Last(a) # Nothing \/ ~Offset!IsSign(x)
  OBVIOUS
<1>2. Acc(a, FALSE).a = a /\ ~Acc(a, FALSE).mergeWithPrevious
  <2>1. PICK no \in BOOLEAN : no = FALSE
    OBVIOUS
  <2>2. Acc(a, no).a = a /\ Acc(a, no).mergeWithPrevious = no
    BY DEF Acc
  <2> QED
    BY <2>1, <2>2, Zenon
<1>3. Offset!Merge(Acc(a, FALSE), x) = [Acc(a, FALSE) EXCEPT !.a = Append(@, x)]
  BY <1>1, <1>2, Zenon DEF Offset!Merge, Nothing
<1>4. [Acc(a, FALSE) EXCEPT !.a = Append(@, x)] = Acc(Append(a, x), FALSE)
  <2>1. PICK no \in BOOLEAN : no = FALSE
    OBVIOUS
  <2>2. PICK l \in Seq(Pieces) : l = Append(a, x)
    BY Appended
  <2>3. [Acc(a, no) EXCEPT !.a = l] = Acc(l, no)
    BY DEF Acc
  <2> QED
    BY <1>2, <2>1, <2>2, <2>3
<1> QED
  BY <1>3, <1>4

-----------------------------------------------------------------------------
\* Numbers with an operator between each two.
Alternates(b) ==
    \A k \in 1..Len(b) : IF k % 2 = 0 THEN Offset!IsSign(b[k]) ELSE b[k].term # Offset!Empty

\* An expression that a number is missing of, and a complete one.
Half(b, m, v, e) ==
    /\ b \in Seq(Pieces) /\ Alternates(b) /\ Len(b) % 2 = 0
    /\ Summed(b, m)[1] = v /\ Turn(Summed(b, m)[2]) = e

\* Expressions that end in a number.
Full(c, m, v) ==
    c \in Seq(Pieces) /\ Alternates(c) /\ Len(c) % 2 = 1 /\ Summed(c, m)[1] = v

LEMMA HalfOfNothing ==
    ASSUME NEW m \in Sides
    PROVE  Half(<<>>, m, 0, 1)
<1>1. <<>> \in Seq(Pieces) /\ Len(<<>>) = 0
  OBVIOUS
<1>2. Alternates(<<>>)
  BY <1>1 DEF Alternates
<1>3. NoSum[1] = 0 /\ NoSum[2] = Nothing
  BY DEF NoSum
<1>4. Turn(Nothing) = 1
  <2>1. "-" \in Offset!Signs
    BY DEF Offset!Signs
  <2> QED
    BY <2>1, SignTypes
<1>5. Summed(<<>>, m) = NoSum
  BY SummedNothing
<1>6. Len(<<>>) % 2 = 0
  BY <1>1
<1> QED
  BY <1>1, <1>2, <1>3, <1>4, <1>5, <1>6, Zenon DEF Half

LEMMA AppendAlternates ==
    ASSUME NEW b \in Seq(Pieces), NEW x \in Pieces, Alternates(b),
           IF Len(b) % 2 = 1 THEN Offset!IsSign(x) ELSE x.term # Offset!Empty
    PROVE  Alternates(Append(b, x))
<1>1. /\ Len(b) \in Nat /\ Len(Append(b, x)) = Len(b) + 1
      /\ Append(b, x)[Len(b) + 1] = x /\ \A k \in 1..Len(b) : Append(b, x)[k] = b[k]
  OBVIOUS
<1> SUFFICES ASSUME NEW k \in 1..(Len(b) + 1)
             PROVE  IF k % 2 = 0 THEN Offset!IsSign(Append(b, x)[k])
                    ELSE Append(b, x)[k].term # Offset!Empty
  BY <1>1 DEF Alternates
<1>2. CASE k = Len(b) + 1
  <2>1. k % 2 = 0 <=> Len(b) % 2 = 1
    BY <1>1, <1>2
  <2> QED
    BY <1>1, <1>2, <2>1
<1>3. CASE k \in 1..Len(b)
  BY <1>1, <1>3 DEF Alternates
<1> QED
  BY <1>1, <1>2, <1>3

\* A number completes an expression, a sign opens one.
LEMMA TermCompletes ==
    ASSUME NEW m \in Sides, NEW b \in Seq(Pieces), NEW v \in Int, NEW e \in {1, -1},
           NEW s \in NumberSigns, NEW t \in Terms, Half(b, m, v, e)
    PROVE  Full(Append(b, Offset!Piece(s, t)), m,
                v + (Minused(s) * e) * t.value * Offset!Scale(t.unit, m))
<1>1. b \in Seq(Pieces) /\ Alternates(b) /\ Len(b) % 2 = 0 /\ Len(b) \in Nat
      /\ Summed(b, m)[1] = v /\ Turn(Summed(b, m)[2]) = e
  BY DEF Half
<1>2. PICK x \in Pieces : x = Offset!Piece(s, t) /\ x.term = t /\ x.sign = s /\ t # Offset!Empty
  <2>1. Offset!Piece(s, t) \in Pieces
    BY PieceTypes DEF NumberSigns
  <2>2. Offset!Piece(s, t).term = t /\ Offset!Piece(s, t).sign = s
    BY DEF Offset!Piece
  <2> QED
    BY <2>1, <2>2, TermTypes
<1>3. PICK n \in Nat : n = t.value
  BY TermTypes
<1>4. PICK sc \in Nat : sc = Offset!Scale(t.unit, m)
  BY TermTypes, ScaleType
<1>5. Offset!toValue(x, m) = (IF s = "-" THEN -n ELSE n) * sc
  BY <1>2, <1>3, <1>4, ValueType
<1>6. Append(b, x) \in Seq(Pieces) /\ Len(Append(b, x)) = Len(b) + 1
  BY <1>1, <1>2
<1>7. Len(Append(b, x)) % 2 = 1
  BY <1>1, <1>6
<1>8. Alternates(Append(b, x))
  BY <1>1, <1>2, AppendAlternates
<1>9. Summed(Append(b, x), m) = <<v + Offset!toValue(x, m) * e, x>>
  BY <1>1, <1>2, SummedAppend
<1>10. Summed(Append(b, x), m)[1] = v + Offset!toValue(x, m) * e
  BY <1>9
<1>11. Offset!toValue(x, m) * e = (Minused(s) * e) * n * sc
  <2>1. Minused(s) \in {1, -1} /\ (s = "-" <=> Minused(s) = -1)
    BY DEF Minused
  <2>2. PICK z \in Int : z = n * sc
    OBVIOUS
  <2>3. (-n) * sc = -z /\ n * sc = z
    BY <2>2
  <2>4. CASE s = "-" /\ e = 1
    BY <1>5, <2>1, <2>3, <2>4
  <2>5. CASE s = "-" /\ e = -1
    BY <1>5, <2>1, <2>3, <2>5
  <2>6. CASE s # "-" /\ e = 1
    BY <1>5, <2>1, <2>3, <2>6
  <2>7. CASE s # "-" /\ e = -1
    BY <1>5, <2>1, <2>3, <2>7
  <2> QED
    BY <2>4, <2>5, <2>6, <2>7
<1>12. Full(Append(b, x), m, v + (Minused(s) * e) * n * sc)
  BY <1>6, <1>7, <1>8, <1>10, <1>11, Zenon DEF Full
<1> QED
  BY <1>2, <1>3, <1>4, <1>12

LEMMA SignOpens ==
    ASSUME NEW m \in Sides, NEW c, NEW v \in Int, Full(c, m, v), NEW s \in Offset!Signs
    PROVE  Half(Append(c, Offset!Piece(s, Offset!Empty)), m, v, Minused(s))
<1>0. PICK x \in Pieces : x = Offset!Piece(s, Offset!Empty) /\ Offset!IsSign(x)
                          /\ x.term = Offset!Empty /\ Turn(x) = Minused(s)
  BY SignTypes
<1>1. c \in Seq(Pieces) /\ Alternates(c) /\ Len(c) % 2 = 1 /\ Len(c) \in Nat /\ Summed(c, m)[1] = v
  BY DEF Full
<1>2. Offset!toValue(x, m) = 0
  BY <1>0, ValueType
<1>3. Append(c, x) \in Seq(Pieces) /\ Len(Append(c, x)) = Len(c) + 1
  BY <1>1
<1>4. Len(Append(c, x)) % 2 = 0
  BY <1>1, <1>3
<1>5. Alternates(Append(c, x))
  BY <1>0, <1>1, AppendAlternates
<1>6. Summed(c, m)[2] \in Pieces
  BY <1>1, SummedAppend, SumPairs
<1>7. Turn(Summed(c, m)[2]) \in {1, -1}
  BY DEF Turn
<1>8. Summed(Append(c, x), m) = <<v + 0 * Turn(Summed(c, m)[2]), x>>
  BY <1>1, <1>2, SummedAppend
<1>9. v + 0 * Turn(Summed(c, m)[2]) = v
  BY <1>7
<1>10. Summed(Append(c, x), m)[1] = v /\ Summed(Append(c, x), m)[2] = x
  BY <1>8, <1>9
<1>11. Half(Append(c, x), m, v, Minused(s))
  BY <1>0, <1>3, <1>4, <1>5, <1>10, Zenon DEF Half
<1> QED
  BY <1>0, <1>11

-----------------------------------------------------------------------------
\* What aggregate has made of the pieces that are complete, when it stands before
\* a number, and when it has seen the sign of that number.
Read(p, m, v) == \E c : Full(c, m, v) /\ Merged(p) = Acc(c, FALSE)

Open(g, m, v, f) == \E b : Half(b, m, v, f) /\ Merged(g) = Acc(b, FALSE)

Signed(g, m, v, f) ==
    \E b, s, e : /\ s \in Offset!Signs /\ e \in {1, -1} /\ f = Minused(s) * e
                 /\ Half(b, m, v, e)
                 /\ Merged(g) = Acc(Append(b, Offset!Piece(s, Offset!Empty)), TRUE)

LEMMA OpenAtFirst ==
    ASSUME NEW m \in Sides
    PROVE  Open(<<>>, m, 0, 1)
BY HalfOfNothing, MergedNothing, Zenon DEF Open, NoAcc

LEMMA LastAppended ==
    ASSUME NEW b \in Seq(Pieces), NEW x \in Pieces
    PROVE  /\ Offset!Front(Append(b, x)) = b /\ Offset!Last(Append(b, x)) = x
           /\ Len(Append(b, x)) = Len(b) + 1 /\ Len(Append(b, x)) > 0
           /\ Append(b, x) \in Seq(Pieces)
BY DEF Offset!Front, Offset!Last

\* What is added to a sum when a number is read.
LEMMA ReadTerm ==
    ASSUME NEW m \in Sides, NEW g \in Seq(Pieces), NEW v \in Int, NEW f \in {1, -1},
           NEW t \in Terms, Open(g, m, v, f) \/ Signed(g, m, v, f)
    PROVE  Read(Append(g, Offset!Piece("", t)), m, v + f * t.value * Offset!Scale(t.unit, m))
<1>1. PICK x \in Pieces : x = Offset!Piece("", t) /\ x.term = t /\ ~Offset!IsSign(x)
  BY PieceTypes DEF Offset!Piece, Offset!IsSign, Offset!Signs
<1>2. Merged(Append(g, x)) = Offset!Merge(Merged(g), x)
  BY MergedAppend
<1>3. CASE Open(g, m, v, f)
  <2>1. PICK b : Half(b, m, v, f) /\ Merged(g) = Acc(b, FALSE)
    BY <1>3, Zenon DEF Open
  <2>2. b \in Seq(Pieces)
    BY <2>1 DEF Half
  <2>3. Merged(Append(g, x)) = Acc(Append(b, x), FALSE)
    BY <1>1, <1>2, <2>1, <2>2, MergeNext
  <2>4. Full(Append(b, x), m, v + (Minused("") * f) * t.value * Offset!Scale(t.unit, m))
    <3>1. "" \in NumberSigns
      BY DEF NumberSigns
    <3> QED
      BY <1>1, <2>1, <2>2, <3>1, TermCompletes
  <2>5. Minused("") * f = f
    BY DEF Minused
  <2> QED
    BY <1>1, <2>3, <2>4, <2>5, Zenon DEF Read
<1>4. CASE Signed(g, m, v, f)
  <2>1. PICK b, s, e : /\ s \in Offset!Signs /\ e \in {1, -1} /\ f = Minused(s) * e
                       /\ Half(b, m, v, e)
                       /\ Merged(g) = Acc(Append(b, Offset!Piece(s, Offset!Empty)), TRUE)
    BY <1>4, Zenon DEF Signed
  <2>2. b \in Seq(Pieces)
    BY <2>1 DEF Half
  <2>3. PICK y \in Pieces : y = Offset!Piece(s, Offset!Empty) /\ y.sign = s
    BY <2>1, SignTypes
  <2>4. PICK a \in Seq(Pieces) : a = Append(b, y) /\ Offset!Front(a) = b /\ Offset!Last(a) = y
    BY <2>2, LastAppended
  <2>5. Merged(g) = Acc(a, TRUE)
    BY <2>1, <2>3, <2>4, Zenon
  <2>6. Offset!Merge(Acc(a, TRUE), x)
            = Acc(Append(Offset!Front(a), Offset!Piece(Offset!Last(a).sign, x.term)), FALSE)
    BY <1>1, MergeSigned
  <2>7. Merged(Append(g, x)) = Acc(Append(b, Offset!Piece(s, t)), FALSE)
    BY <1>1, <1>2, <2>3, <2>4, <2>5, <2>6, Zenon
  <2>8. Full(Append(b, Offset!Piece(s, t)), m,
             v + (Minused(s) * e) * t.value * Offset!Scale(t.unit, m))
    <3>1. s \in NumberSigns
      BY <2>1 DEF NumberSigns, Offset!Signs
    <3> QED
      BY <2>1, <2>2, <3>1, TermCompletes
  <2> QED
    BY <1>1, <2>1, <2>7, <2>8, Zenon DEF Read
<1> QED
  BY <1>3, <1>4

LEMMA ReadSign ==
    ASSUME NEW m \in Sides, NEW p \in Seq(Pieces), NEW v \in Int, NEW s \in Offset!Signs,
           Read(p, m, v)
    PROVE  Open(Append(p, Offset!Piece(s, Offset!Empty)), m, v, Minused(s))
<1>1. PICK c : Full(c, m, v) /\ Merged(p) = Acc(c, FALSE)
  BY Zenon DEF Read
<1>2. c \in Seq(Pieces) /\ Alternates(c) /\ Len(c) % 2 = 1 /\ Len(c) \in Nat
  BY <1>1 DEF Full
<1>3. PICK x \in Pieces : x = Offset!Piece(s, Offset!Empty)
  BY SignTypes
<1>4. Offset!Last(c) # Nothing
  <2>1. Len(c) \in 1..Len(c)
    BY <1>2
  <2>2. c[Len(c)].term # Offset!Empty
    BY <1>2, <2>1 DEF Alternates
  <2>3. Nothing.term = Offset!Empty
    BY DEF Nothing, Offset!Piece
  <2> QED
    BY <2>2, <2>3 DEF Offset!Last
<1>5. Merged(Append(p, x)) = Offset!Merge(Acc(c, FALSE), x)
  BY <1>1, MergedAppend
<1>6. Merged(Append(p, x)) = Acc(Append(c, x), FALSE)
  BY <1>2, <1>4, <1>5, MergeNext
<1>7. Half(Append(c, x), m, v, Minused(s))
  BY <1>1, <1>3, SignOpens
<1> QED
  BY <1>3, <1>6, <1>7, Zenon DEF Open

LEMMA OpenSign ==
    ASSUME NEW m \in Sides, NEW g \in Seq(Pieces), NEW v \in Int, NEW f \in {1, -1},
           NEW s \in Offset!Signs, Open(g, m, v, f)
    PROVE  Signed(Append(Append(g, Nothing), Offset!Piece(s, Offset!Empty)), m, v,
                  Minused(s) * f)
<1>1. PICK b : Half(b, m, v, f) /\ Merged(g) = Acc(b, FALSE)
  BY Zenon DEF Open
<1>2. b \in Seq(Pieces) /\ Alternates(b) /\ Len(b) % 2 = 0 /\ Len(b) \in Nat
  BY <1>1 DEF Half
<1>3. PICK x \in Pieces : x = Offset!Piece(s, Offset!Empty) /\ Offset!IsSign(x)
  BY SignTypes
<1>4. PICK n \in Pieces : n = Nothing /\ ~Offset!IsSign(n)
  BY PieceTypes, SignTypes
<1>5. Merged(Append(g, n)) = Offset!Merge(Acc(b, FALSE), n)
  BY <1>1, MergedAppend
<1>6. Merged(Append(g, n)) = Acc(Append(b, n), FALSE)
  BY <1>2, <1>4, <1>5, MergeNext
<1>7. Append(g, n) \in Seq(Pieces)
  OBVIOUS
<1>8. Merged(Append(Append(g, n), x)) = Offset!Merge(Acc(Append(b, n), FALSE), x)
  BY <1>6, <1>7, MergedAppend
<1>9. PICK a \in Seq(Pieces) : a = Append(b, n) /\ Offset!Front(a) = b /\ Offset!Last(a) = n /\ Len(a) > 0
  BY <1>2, LastAppended
<1>10. PICK no \in BOOLEAN : no = FALSE
  OBVIOUS
<1>11. Offset!Merge(Acc(a, no), x) = Acc(Append(Offset!Front(a), x), TRUE)
  BY <1>3, <1>4, <1>9, MergeSign
<1>12. Merged(Append(Append(g, n), x)) = Acc(Append(b, x), TRUE)
  BY <1>8, <1>9, <1>10, <1>11, Zenon
<1>13. f \in {1, -1} /\ Minused(s) * f = Minused(s) * f
  OBVIOUS
<1> QED
  BY <1>1, <1>3, <1>4, <1>12, <1>13, Zenon DEF Signed

\* What the text is split into: the pieces of one axis, or of two with the last of
\* the first and the first of the second in one fragment.
OneList(F, p) ==
    /\ F \in Fragments /\ p \in PieceLists /\ Len(F) = Len(p)
    /\ \A k \in 1..Len(p) : F[k] = <<p[k]>>

TwoLists(F, p, q) ==
    /\ F \in Fragments /\ p \in PieceLists /\ q \in PieceLists
    /\ Len(F) = Len(p) + Len(q) - 1
    /\ \A k \in 1..(Len(p) - 1) : F[k] = <<p[k]>>
    /\ F[Len(p)] = <<p[Len(p)], q[1]>>
    /\ \A k \in 2..Len(q) : F[Len(p) + k - 1] = <<q[k]>>

\* Lists of one and of two strings, and what is known of them.
Single(x) == <<x>>

Double(x, y) == <<x, y>>

LEMMA SingleSeq ==
    ASSUME NEW x \in Pieces
    PROVE  Single(x) \in Seq(Pieces) /\ Len(Single(x)) = 1 /\ Single(x)[1] = x
BY DEF Single

LEMMA DoubleSeq ==
    ASSUME NEW x \in Pieces, NEW y \in Pieces
    PROVE  Double(x, y) \in Seq(Pieces) /\ Len(Double(x, y)) = 2
           /\ Double(x, y)[1] = x /\ Double(x, y)[2] = y
BY DEF Double

LEMMA AppendedSeq ==
    ASSUME NEW g \in Seq(Pieces), NEW x \in Pieces
    PROVE  \E w \in Seq(Pieces) : /\ w = Append(g, x) /\ Len(w) = Len(g) + 1 /\ w[Len(g) + 1] = x
                            /\ \A k \in 1..Len(g) : w[k] = g[k]
<1>1. Append(g, x) \in Seq(Pieces) /\ Len(Append(g, x)) = Len(g) + 1 /\ Append(g, x)[Len(g) + 1] = x
      /\ \A k \in 1..Len(g) : Append(g, x)[k] = g[k]
  OBVIOUS
<1> QED
  BY <1>1

LEMMA ConcatenatedSeq ==
    ASSUME NEW e \in Seq(Pieces), NEW u \in Seq(Pieces)
    PROVE  \E w \in Seq(Pieces) : /\ w = e \o u /\ Len(w) = Len(e) + Len(u)
                            /\ \A i \in 1..Len(e) : w[i] = e[i]
                            /\ \A j \in 1..Len(u) : w[Len(e) + j] = u[j]
<1>1. e \o u \in Seq(Pieces) /\ Len(e \o u) = Len(e) + Len(u)
      /\ (\A i \in 1..Len(e) : (e \o u)[i] = e[i])
      /\ \A i \in 1..Len(u) : (e \o u)[Len(e) + i] = u[i]
  OBVIOUS
<1> QED
  BY <1>1

LEMMA SingleFacts ==
    \A x \in Pieces : Single(x) \in PieceLists /\ Len(Single(x)) = 1 /\ Head(Single(x)) = x
<1> SUFFICES ASSUME NEW x \in Pieces
             PROVE  Single(x) \in PieceLists /\ Len(Single(x)) = 1 /\ Head(Single(x)) = x
  OBVIOUS
<1> QED
  BY DEF Single, PieceLists

LEMMA FirstIsHead ==
    ASSUME NEW d \in Seq(Pieces), Len(d) > 0
    PROVE  Head(d) = d[1]
OBVIOUS

LEMMA DoubleFacts ==
    \A x, y \in Pieces :
        /\ Double(x, y) \in PieceLists /\ Len(Double(x, y)) = 2
        /\ Head(Double(x, y)) = x /\ Double(x, y)[2] = y
        /\ Append(Single(x), y) = Double(x, y)
        /\ Append(Offset!Front(Single(x)), y) = Single(y)
<1> SUFFICES ASSUME NEW x \in Pieces, NEW y \in Pieces
             PROVE  /\ Double(x, y) \in PieceLists /\ Len(Double(x, y)) = 2
                    /\ Head(Double(x, y)) = x /\ Double(x, y)[2] = y
                    /\ Append(Single(x), y) = Double(x, y)
                    /\ Append(Offset!Front(Single(x)), y) = Single(y)
  OBVIOUS
<1>1. PICK d \in Seq(Pieces) : d = Double(x, y) /\ Len(d) = 2 /\ d[1] = x /\ d[2] = y
  BY DoubleSeq
<1>2. PICK s \in Seq(Pieces) : s = Single(x) /\ Len(s) = 1 /\ s[1] = x
  BY SingleSeq
<1>3. PICK r \in Seq(Pieces) : r = Single(y) /\ Len(r) = 1 /\ r[1] = y
  BY SingleSeq
<1>4. Double(x, y) \in PieceLists /\ Head(Double(x, y)) = x
  <2>1. d \in PieceLists /\ Head(d) = x
    <3>1. Len(d) > 0 /\ d[1] = x
      BY <1>1
    <3>2. d \in PieceLists
      BY <3>1 DEF PieceLists
    <3>3. Head(d) = d[1]
      BY <3>1, FirstIsHead
    <3> QED
      BY <3>1, <3>2, <3>3, Zenon
  <2> QED
    BY <1>1, <2>1, Zenon
<1>5. Append(s, y) = d
  <2>1. PICK w \in Seq(Pieces) : w = Append(s, y) /\ Len(w) = 2 /\ w[1] = x /\ w[2] = y
    <3>1. PICK w \in Seq(Pieces) : /\ w = Append(s, y) /\ Len(w) = Len(s) + 1 /\ w[Len(s) + 1] = y
                                   /\ \A k \in 1..Len(s) : w[k] = s[k]
      BY AppendedSeq
    <3>2. Len(w) = 2 /\ w[1] = x /\ w[2] = y
      BY <1>2, <3>1
    <3> QED
      BY <3>1, <3>2
  <2> HIDE <2>1
  <2>2. Len(w) = 2 /\ w[1] = x /\ w[2] = y
    BY <2>1
  <2>3. Len(w) = Len(d) /\ \A i \in 1..Len(w) : w[i] = d[i]
    BY <1>1, <2>2
  <2>4. w = d
    BY <2>3, SeqEqual
  <2> QED
    BY <2>1, <2>4
<1>6. Append(Offset!Front(s), y) = r
  <2>1. PICK f \in Seq(Pieces) : f = Offset!Front(s) /\ Len(f) = 0
    <3>1. Offset!Front(s) \in Seq(Pieces) /\ Len(Offset!Front(s)) = 0
      BY <1>2 DEF Offset!Front
    <3> QED
      BY <3>1
  <2>2. PICK w \in Seq(Pieces) : w = Append(f, y) /\ Len(w) = Len(f) + 1 /\ w[Len(f) + 1] = y
    BY AppendedSeq
  <2>3. Len(w) = Len(r) /\ \A i \in 1..Len(w) : w[i] = r[i]
    <3>1. Len(w) = 1 /\ w[1] = y
      BY <2>1, <2>2
    <3> QED
      BY <1>3, <3>1
  <2>4. w = r
    BY <2>3, SeqEqual
  <2> QED
    BY <2>1, <2>2, <2>4, Zenon
<1> QED
  BY <1>1, <1>2, <1>3, <1>4, <1>5, <1>6

LEMMA DoubleFront ==
    \A x, y, z \in Pieces : Append(Offset!Front(Double(x, y)), z) = Double(x, z)
<1> SUFFICES ASSUME NEW x \in Pieces, NEW y \in Pieces, NEW z \in Pieces
             PROVE  Append(Offset!Front(Double(x, y)), z) = Double(x, z)
  OBVIOUS
<1>1. PICK d \in Seq(Pieces) : d = Double(x, y) /\ Len(d) = 2 /\ d[1] = x /\ d[2] = y
  BY DoubleSeq
<1>2. PICK r \in Seq(Pieces) : r = Double(x, z) /\ Len(r) = 2 /\ r[1] = x /\ r[2] = z
  BY DoubleSeq
<1>3. PICK f \in Seq(Pieces) : f = Offset!Front(d) /\ Len(f) = 1 /\ f[1] = x
  <2>1. Offset!Front(d) \in Seq(Pieces) /\ Len(Offset!Front(d)) = 1 /\ Offset!Front(d)[1] = x
    BY <1>1 DEF Offset!Front
  <2> QED
    BY <2>1
<1>4. PICK w \in Seq(Pieces) : /\ w = Append(f, z) /\ Len(w) = Len(f) + 1 /\ w[Len(f) + 1] = z
                               /\ \A k \in 1..Len(f) : w[k] = f[k]
  BY AppendedSeq
<1>5. Len(w) = Len(r) /\ \A i \in 1..Len(w) : w[i] = r[i]
  <2>1. Len(w) = 2 /\ w[1] = x /\ w[2] = z
    BY <1>3, <1>4
  <2> QED
    BY <1>2, <2>1
<1>6. w = r
  BY <1>5, SeqEqual
<1> QED
  BY <1>1, <1>2, <1>3, <1>4, <1>6, Zenon

LEMMA AppendedList ==
    ASSUME NEW g \in Seq(Pieces), NEW x \in Pieces
    PROVE  \E p \in PieceLists : /\ p = Append(g, x) /\ Len(p) = Len(g) + 1 /\ p[Len(g) + 1] = x
                                 /\ \A k \in 1..Len(g) : p[k] = g[k]
<1>1. Append(g, x) \in PieceLists
  BY Appended DEF PieceLists
<1>2. Len(Append(g, x)) = Len(g) + 1 /\ Append(g, x)[Len(g) + 1] = x
      /\ \A k \in 1..Len(g) : Append(g, x)[k] = g[k]
  OBVIOUS
<1> QED
  BY <1>1, <1>2

LEMMA SubSequence ==
    ASSUME NEW h \in Seq(Pieces), NEW a \in Int, NEW b \in Int, 1 <= a, a <= b + 1, b <= Len(h)
    PROVE  \E u \in Seq(Pieces) : /\ u = SubSeq(h, a, b) /\ Len(u) = b - a + 1
                                  /\ \A i \in 1..(b - a + 1) : u[i] = h[a + i - 1]
<1>1. SubSeq(h, a, b) \in Seq(Pieces)
  OBVIOUS
<1>2. Len(SubSeq(h, a, b)) = b - a + 1
  OBVIOUS
<1>3. \A i \in 1..(b - a + 1) : SubSeq(h, a, b)[i] = h[a + i - 1]
  OBVIOUS
<1> QED
  BY <1>1, <1>2, <1>3

LEMMA SharedLists ==
    ASSUME NEW p \in Seq(Pieces), NEW q \in Seq(Pieces), NEW h \in Seq(Pieces),
           Len(p) > 0, Len(q) > 0, Len(h) = Len(p) + Len(q) - 1,
           \A k \in 1..Len(p) : h[k] = p[k],
           \A k \in 2..Len(q) : h[Len(p) + k - 1] = q[k]
    PROVE  /\ SubSeq(h, 1, Len(p)) = p
           /\ <<q[1]>> \o SubSeq(h, Len(p) + 1, Len(h)) = q
<1>0. Len(p) \in Nat /\ Len(q) \in Nat
  OBVIOUS
<1>1. SubSeq(h, 1, Len(p)) = p
  <2>1. SubSeq(h, 1, Len(p)) \in Seq(Pieces) /\ Len(SubSeq(h, 1, Len(p))) = Len(p)
        /\ \A k \in 1..Len(p) : SubSeq(h, 1, Len(p))[k] = h[k]
    BY <1>0
  <2> QED
    BY <2>1, SeqEqual
<1>2. PICK u \in Seq(Pieces) : u = SubSeq(h, Len(p) + 1, Len(h))
          /\ Len(u) = Len(q) - 1 /\ \A k \in 1..(Len(q) - 1) : u[k] = h[Len(p) + k]
  <2>0. \A i \in (Len(p) + 1)..Len(h) : h[i] \in Pieces
    BY <1>0
  <2>1. PICK a \in Int, b \in Int : a = Len(p) + 1 /\ b = Len(h)
    BY <1>0
  <2>2. \A i \in a..b : h[i] \in Pieces
    BY <2>0, <2>1
  <2>3. PICK u \in Seq(Pieces) : /\ u = SubSeq(h, a, b) /\ Len(u) = b - a + 1
                                 /\ \A i \in 1..(b - a + 1) : u[i] = h[a + i - 1]
    <3>1. 1 <= a /\ a <= b + 1 /\ b <= Len(h)
      BY <1>0, <2>1
    <3> QED
      BY <3>1, SubSequence
  <2>4. Len(u) = Len(q) - 1
    <3>1. Len(u) = b - a + 1
      BY <2>3, Zenon
    <3>2. Len(h) = Len(p) + Len(q) - 1
      OBVIOUS
    <3> QED
      BY <1>0, <2>1, <3>1, <3>2
  <2>5. \A k \in 1..(Len(q) - 1) : u[k] = h[Len(p) + k]
    <3> SUFFICES ASSUME NEW k \in 1..(Len(q) - 1) PROVE u[k] = h[Len(p) + k]
      OBVIOUS
    <3>1. k \in 1..(b - a + 1) /\ a + k - 1 = Len(p) + k
      BY <1>0, <2>1
    <3> QED
      BY <2>3, <3>1
  <2> QED
    BY <2>1, <2>3, <2>4, <2>5
<1>3. \A k \in 1..(Len(q) - 1) : u[k] = q[k + 1]
  <2> SUFFICES ASSUME NEW k \in 1..(Len(q) - 1) PROVE u[k] = q[k + 1]
    OBVIOUS
  <2>1. k + 1 \in 2..Len(q) /\ Len(p) + (k + 1) - 1 = Len(p) + k
    BY <1>0
  <2> QED
    BY <1>2, <2>1
<1>4. PICK z \in Pieces : z = q[1]
  BY <1>0
<1>5. <<z>> \o u = q
  <2>a. PICK e \in Seq(Pieces) : e = <<z>> /\ Len(e) = 1 /\ e[1] = z
    <3>1. <<z>> \in Seq(Pieces) /\ Len(<<z>>) = 1 /\ <<z>>[1] = z
      OBVIOUS
    <3> QED
      BY <3>1, Zenon
  <2>1. PICK w \in Seq(Pieces) : /\ w = e \o u /\ Len(w) = Len(e) + Len(u)
                            /\ \A i \in 1..Len(e) : w[i] = e[i]
                            /\ \A j \in 1..Len(u) : w[Len(e) + j] = u[j]
    BY ConcatenatedSeq
  <2>b. Len(e) = 1 /\ e[1] = z
    BY <2>a
  <2>2. Len(w) = Len(q) /\ w[1] = q[1] /\ \A i \in 1..(Len(q) - 1) : w[1 + i] = u[i]
    <3>1. Len(u) = Len(q) - 1
      BY <1>2
    <3> QED
      BY <1>0, <1>4, <2>1, <2>b, <3>1
  <2>3. \A k \in 2..Len(q) : w[k] = q[k]
    <3> SUFFICES ASSUME NEW k \in 2..Len(q) PROVE w[k] = q[k]
      OBVIOUS
    <3>1. k - 1 \in 1..(Len(q) - 1) /\ (k - 1) + 1 = k /\ 1 + (k - 1) = k
      BY <1>0
    <3>2. u[k - 1] = q[k] /\ w[k] = u[k - 1]
      BY <1>3, <2>2, <3>1
    <3> QED
      BY <3>2
  <2>4. \A k \in 1..Len(q) : w[k] = q[k]
    BY <1>0, <2>2, <2>3
  <2>5. w = q
    BY <2>2, <2>4, SeqEqual
  <2> QED
    BY <2>1, <2>5, <2>a, Zenon
<1> QED
  BY <1>1, <1>2, <1>4, <1>5

\* The tokens.
SignToken(s) == [kind |-> "sign", sign |-> s]
TermToken(t) == [kind |-> "term", term |-> t]
DividerToken == [kind |-> "divider"]

LEMMA TokenTypes ==
    /\ \A s \in Offset!Signs : SignToken(s) \in Tokens
    /\ \A t \in Terms : TermToken(t) \in Tokens
    /\ DividerToken \in Tokens
BY DEF SignToken, TermToken, DividerToken, Tokens

\* What Split makes of each token, of lists written like that.
LEMMA SplitSign ==
    ASSUME NEW F \in Fragments, NEW s \in Offset!Signs
    PROVE  /\ Offset!Split(F, SignToken(s)) \in Fragments
           /\ Len(Offset!Split(F, SignToken(s))) = Len(F) + 2
           /\ \A k \in 1..Len(F) : Offset!Split(F, SignToken(s))[k] = F[k]
           /\ Offset!Split(F, SignToken(s))[Len(F) + 1] = Single(Offset!Piece(s, Offset!Empty))
           /\ Offset!Split(F, SignToken(s))[Len(F) + 2] = Single(Nothing)
<1>1. PICK a \in PieceLists : a = Single(Offset!Piece(s, Offset!Empty))
  BY PieceTypes, SingleFacts
<1>2. PICK b \in PieceLists : b = Single(Nothing)
  BY PieceTypes, SingleFacts
<1>3. SignToken(s).kind = "sign" /\ SignToken(s).sign = s
  BY DEF SignToken
<1>4. Offset!Split(F, SignToken(s)) = F \o <<a, b>>
  BY <1>1, <1>2, <1>3, Zenon DEF Offset!Split, Single, Nothing
<1>5. F \in Seq(PieceLists) /\ Len(F) \in Nat
  BY DEF Fragments
<1>6. Offset!Split(F, SignToken(s)) \in Fragments
  BY SplitTypes, TokenTypes
<1> QED
  BY <1>1, <1>2, <1>4, <1>5, <1>6

LEMMA SplitTerm ==
    ASSUME NEW F \in Fragments, NEW t \in Terms
    PROVE  /\ Offset!Split(F, TermToken(t)) \in Fragments
           /\ Len(Offset!Split(F, TermToken(t))) = Len(F)
           /\ \A k \in 1..(Len(F) - 1) : Offset!Split(F, TermToken(t))[k] = F[k]
           /\ Offset!Split(F, TermToken(t))[Len(F)]
                = Append(Offset!Front(F[Len(F)]), Offset!Piece("", t))
<1>1. TermToken(t).kind = "term" /\ TermToken(t).term = t
  BY DEF TermToken
<1>2. F \in Seq(PieceLists) /\ Len(F) \in Nat /\ Len(F) > 0 /\ F[Len(F)] \in PieceLists
  BY DEF Fragments
<1>3. PICK x \in Pieces : x = Offset!Piece("", t)
  BY PieceTypes
<1>4. Offset!Last(F) = F[Len(F)]
  BY DEF Offset!Last
<1>5. Offset!Split(F, TermToken(t)) = Offset!ReplaceAt(F, Len(F), Append(Offset!Front(F[Len(F)]), x))
  BY <1>1, <1>3, <1>4, Zenon DEF Offset!Split
<1>6. Offset!Split(F, TermToken(t)) \in Fragments
  BY SplitTypes, TokenTypes
<1>7. PICK l : l = Append(Offset!Front(F[Len(F)]), x)
  OBVIOUS
<1>8. Offset!Split(F, TermToken(t)) = Offset!ReplaceAt(F, Len(F), l)
  BY <1>5, <1>7
<1>9. /\ Len(Offset!ReplaceAt(F, Len(F), l)) = Len(F)
      /\ \A k \in 1..(Len(F) - 1) : Offset!ReplaceAt(F, Len(F), l)[k] = F[k]
      /\ Offset!ReplaceAt(F, Len(F), l)[Len(F)] = l
  BY <1>2 DEF Offset!ReplaceAt
<1> QED
  BY <1>3, <1>6, <1>7, <1>8, <1>9

LEMMA SplitDivider ==
    ASSUME NEW F \in Fragments
    PROVE  /\ Offset!Split(F, DividerToken) \in Fragments
           /\ Len(Offset!Split(F, DividerToken)) = Len(F)
           /\ \A k \in 1..(Len(F) - 1) : Offset!Split(F, DividerToken)[k] = F[k]
           /\ Offset!Split(F, DividerToken)[Len(F)] = Append(F[Len(F)], Nothing)
<1>1. DividerToken.kind = "divider"
  BY DEF DividerToken
<1>2. F \in Seq(PieceLists) /\ Len(F) \in Nat /\ Len(F) > 0 /\ F[Len(F)] \in PieceLists
  BY DEF Fragments
<1>4. Offset!Last(F) = F[Len(F)]
  BY DEF Offset!Last
<1>5. Offset!Split(F, DividerToken) = Offset!ReplaceAt(F, Len(F), Append(F[Len(F)], Nothing))
  BY <1>1, <1>4, Zenon DEF Offset!Split, Nothing
<1>6. Offset!Split(F, DividerToken) \in Fragments
  BY SplitTypes, TokenTypes
<1> QED
  BY <1>2, <1>5, <1>6 DEF Offset!ReplaceAt

LEMMA ListTypes ==
    ASSUME NEW p \in PieceLists
    PROVE  /\ p \in Seq(Pieces) /\ Len(p) \in Nat /\ Len(p) > 0
           /\ \A k \in 1..Len(p) : p[k] \in Pieces
BY DEF PieceLists

\* What each token does to an expression of one axis ...
LEMMA OneSign ==
    ASSUME NEW F, NEW p, OneList(F, p), NEW s \in Offset!Signs
    PROVE  OneList(Offset!Split(F, SignToken(s)),
                   Append(Append(p, Offset!Piece(s, Offset!Empty)), Nothing))
<1>1. F \in Fragments /\ p \in PieceLists /\ Len(F) = Len(p) /\ \A k \in 1..Len(p) : F[k] = Single(p[k])
  BY Zenon DEF OneList, Single
<1>2. p \in Seq(Pieces) /\ Len(p) \in Nat /\ Len(p) > 0
  BY <1>1, ListTypes
<1>3. PICK x \in Pieces : x = Offset!Piece(s, Offset!Empty)
  BY SignTypes
<1>4. PICK n \in Pieces : n = Nothing
  BY PieceTypes
<1> DEFINE r == Append(Append(p, x), n)
<1>5. r \in PieceLists /\ Len(r) = Len(p) + 2 /\ r[Len(p) + 1] = x /\ r[Len(p) + 2] = n
      /\ \A k \in 1..Len(p) : r[k] = p[k]
  BY <1>2 DEF PieceLists
<1> HIDE DEF r
<1> DEFINE G == Offset!Split(F, SignToken(s))
<1>6. G \in Fragments /\ Len(G) = Len(F) + 2 /\ G[Len(F) + 1] = Single(x) /\ G[Len(F) + 2] = Single(n)
      /\ \A k \in 1..Len(F) : G[k] = F[k]
  BY <1>1, <1>3, <1>4, SplitSign
<1> HIDE DEF G
<1>7. \A k \in 1..Len(r) : G[k] = Single(r[k])
  BY <1>1, <1>2, <1>5, <1>6
<1>8. OneList(G, r)
  <2>1. Len(G) = Len(r)
    BY <1>1, <1>5, <1>6
  <2> QED
    BY <1>5, <1>6, <1>7, <2>1, Zenon DEF OneList, Single
<1> QED
  BY <1>3, <1>4, <1>8 DEF r, G

LEMMA OneTerm ==
    ASSUME NEW F, NEW g \in Seq(Pieces), NEW x \in Pieces, OneList(F, Append(g, x)), NEW t \in Terms
    PROVE  OneList(Offset!Split(F, TermToken(t)), Append(g, Offset!Piece("", t)))
<1>0. PICK p \in PieceLists : p = Append(g, x) /\ Len(p) = Len(g) + 1 /\ p[Len(g) + 1] = x
                              /\ \A k \in 1..Len(g) : p[k] = g[k]
  BY AppendedList
<1>1. F \in Fragments /\ Len(F) = Len(p) /\ \A k \in 1..Len(p) : F[k] = Single(p[k])
  BY <1>0, Zenon DEF OneList, Single
<1>2. Len(g) \in Nat
  OBVIOUS
<1>3. PICK y \in Pieces : y = Offset!Piece("", t)
  BY PieceTypes
<1>4. PICK r \in PieceLists : r = Append(g, y) /\ Len(r) = Len(g) + 1 /\ r[Len(g) + 1] = y
                              /\ \A k \in 1..Len(g) : r[k] = g[k]
  BY AppendedList
<1> DEFINE G == Offset!Split(F, TermToken(t))
<1>5. G \in Fragments /\ Len(G) = Len(F) /\ (\A k \in 1..(Len(F) - 1) : G[k] = F[k])
      /\ G[Len(F)] = Append(Offset!Front(F[Len(F)]), y)
  BY <1>1, <1>3, SplitTerm
<1> HIDE DEF G
<1>6. F[Len(F)] = Single(x)
  BY <1>0, <1>1, <1>2
<1>7. G[Len(F)] = Single(y)
  BY <1>0, <1>5, <1>6, DoubleFacts
<1>8. \A k \in 1..Len(r) : G[k] = Single(r[k])
  <2> SUFFICES ASSUME NEW k \in 1..Len(r) PROVE G[k] = Single(r[k])
    OBVIOUS
  <2>1. CASE k = Len(r)
    BY <1>0, <1>1, <1>2, <1>4, <1>7, <2>1
  <2>2. CASE k # Len(r)
    <3>1. k \in 1..Len(g) /\ k \in 1..(Len(F) - 1) /\ k \in 1..Len(p)
      BY <1>0, <1>1, <1>2, <1>4, <2>2
    <3> QED
      BY <1>0, <1>1, <1>4, <1>5, <3>1
  <2> QED
    BY <2>1, <2>2
<1>9. OneList(G, r)
  <2>1. Len(G) = Len(r)
    BY <1>0, <1>1, <1>4, <1>5
  <2> QED
    BY <1>4, <1>5, <1>8, <2>1, Zenon DEF OneList, Single
<1> QED
  BY <1>3, <1>4, <1>9 DEF G

LEMMA OneDivider ==
    ASSUME NEW F, NEW p, OneList(F, p)
    PROVE  TwoLists(Offset!Split(F, DividerToken), p, Single(Nothing))
<1>1. F \in Fragments /\ p \in PieceLists /\ Len(F) = Len(p) /\ \A k \in 1..Len(p) : F[k] = Single(p[k])
  BY Zenon DEF OneList, Single
<1>2. Len(p) \in Nat /\ Len(p) > 0 /\ \A k \in 1..Len(p) : p[k] \in Pieces
  BY <1>1, ListTypes
<1>3. PICK n \in Pieces : n = Nothing
  BY PieceTypes
<1>4. PICK q \in PieceLists : q = Single(n) /\ Len(q) = 1 /\ q[1] = n
  BY SingleFacts DEF Single
<1> DEFINE G == Offset!Split(F, DividerToken)
<1>5. G \in Fragments /\ Len(G) = Len(F) /\ (\A k \in 1..(Len(F) - 1) : G[k] = F[k])
      /\ G[Len(F)] = Append(F[Len(F)], n)
  BY <1>1, <1>3, SplitDivider
<1> HIDE DEF G
<1>6. F[Len(F)] = Single(p[Len(p)]) /\ p[Len(p)] \in Pieces
  BY <1>1, <1>2
<1>7. G[Len(p)] = Double(p[Len(p)], q[1])
  BY <1>1, <1>4, <1>5, <1>6, DoubleFacts
<1>8. /\ Len(G) = Len(p) + Len(q) - 1
      /\ \A k \in 1..(Len(p) - 1) : G[k] = Single(p[k])
      /\ \A k \in 2..Len(q) : G[Len(p) + k - 1] = Single(q[k])
  BY <1>1, <1>2, <1>4, <1>5
<1>9. TwoLists(G, p, q)
  BY <1>1, <1>4, <1>5, <1>7, <1>8, Zenon DEF TwoLists, Single, Double
<1> QED
  BY <1>3, <1>4, <1>9 DEF G

\* ... and to one of two.
LEMMA TwoSign ==
    ASSUME NEW F, NEW p, NEW q, TwoLists(F, p, q), NEW s \in Offset!Signs
    PROVE  TwoLists(Offset!Split(F, SignToken(s)), p,
                    Append(Append(q, Offset!Piece(s, Offset!Empty)), Nothing))
<1>1. /\ F \in Fragments /\ p \in PieceLists /\ q \in PieceLists
      /\ Len(F) = Len(p) + Len(q) - 1
      /\ \A k \in 1..(Len(p) - 1) : F[k] = Single(p[k])
      /\ F[Len(p)] = Double(p[Len(p)], q[1])
      /\ \A k \in 2..Len(q) : F[Len(p) + k - 1] = Single(q[k])
  BY Zenon DEF TwoLists, Single, Double
<1>2. q \in Seq(Pieces) /\ Len(q) \in Nat /\ Len(q) > 0 /\ Len(p) \in Nat /\ Len(p) > 0
  BY <1>1, ListTypes
<1>3. PICK x \in Pieces : x = Offset!Piece(s, Offset!Empty)
  BY SignTypes
<1>4. PICK n \in Pieces : n = Nothing
  BY PieceTypes
<1> DEFINE r == Append(Append(q, x), n)
<1>5. r \in PieceLists /\ Len(r) = Len(q) + 2 /\ r[Len(q) + 1] = x /\ r[Len(q) + 2] = n
      /\ \A k \in 1..Len(q) : r[k] = q[k]
  BY <1>2 DEF PieceLists
<1> HIDE DEF r
<1> DEFINE G == Offset!Split(F, SignToken(s))
<1>6. G \in Fragments /\ Len(G) = Len(F) + 2 /\ G[Len(F) + 1] = Single(x) /\ G[Len(F) + 2] = Single(n)
      /\ \A k \in 1..Len(F) : G[k] = F[k]
  BY <1>1, <1>3, <1>4, SplitSign
<1> HIDE DEF G
<1>7. /\ Len(G) = Len(p) + Len(r) - 1
      /\ \A k \in 1..(Len(p) - 1) : G[k] = Single(p[k])
      /\ G[Len(p)] = Double(p[Len(p)], r[1])
  BY <1>1, <1>2, <1>5, <1>6
<1>8. ASSUME NEW k \in 2..Len(r) PROVE G[Len(p) + k - 1] = Single(r[k])
  <2>1. CASE k \in 2..Len(q)
    <3>1. Len(p) + k - 1 \in 1..Len(F) /\ k \in 1..Len(q)
      BY <1>1, <1>2, <2>1
    <3> QED
      BY <1>1, <1>5, <1>6, <2>1, <3>1
  <2>2. CASE k = Len(q) + 1
    BY <1>1, <1>2, <1>5, <1>6, <2>2
  <2>3. CASE k = Len(q) + 2
    BY <1>1, <1>2, <1>5, <1>6, <2>3
  <2> QED
    BY <1>2, <1>5, <2>1, <2>2, <2>3
<1>9. TwoLists(G, p, r)
  BY <1>1, <1>5, <1>6, <1>7, <1>8, Zenon DEF TwoLists, Single, Double
<1> QED
  BY <1>3, <1>4, <1>9 DEF r, G

LEMMA TwoTerm ==
    ASSUME NEW F, NEW p, NEW g \in Seq(Pieces), NEW x \in Pieces, TwoLists(F, p, Append(g, x)),
           NEW t \in Terms
    PROVE  TwoLists(Offset!Split(F, TermToken(t)), p, Append(g, Offset!Piece("", t)))
<1>0. PICK q \in PieceLists : q = Append(g, x) /\ Len(q) = Len(g) + 1 /\ q[Len(g) + 1] = x
                              /\ \A k \in 1..Len(g) : q[k] = g[k]
  BY AppendedList
<1>1. /\ F \in Fragments /\ p \in PieceLists
      /\ Len(F) = Len(p) + Len(q) - 1
      /\ \A k \in 1..(Len(p) - 1) : F[k] = Single(p[k])
      /\ F[Len(p)] = Double(p[Len(p)], q[1])
      /\ \A k \in 2..Len(q) : F[Len(p) + k - 1] = Single(q[k])
  BY <1>0, Zenon DEF TwoLists, Single, Double
<1>2. Len(g) \in Nat /\ Len(p) \in Nat /\ Len(p) > 0 /\ p[Len(p)] \in Pieces
  BY <1>1, ListTypes
<1>3. PICK y \in Pieces : y = Offset!Piece("", t)
  BY PieceTypes
<1>4. PICK r \in PieceLists : r = Append(g, y) /\ Len(r) = Len(g) + 1 /\ r[Len(g) + 1] = y
                              /\ \A k \in 1..Len(g) : r[k] = g[k]
  BY AppendedList
<1> DEFINE G == Offset!Split(F, TermToken(t))
<1>5. G \in Fragments /\ Len(G) = Len(F) /\ (\A k \in 1..(Len(F) - 1) : G[k] = F[k])
      /\ G[Len(F)] = Append(Offset!Front(F[Len(F)]), y)
  BY <1>1, <1>3, SplitTerm
<1> HIDE DEF G
<1>6. Len(F) = Len(p) + Len(g) /\ Len(r) = Len(q)
  BY <1>0, <1>1, <1>2, <1>4
<1>7. CASE Len(g) = 0
  <2>1. F[Len(F)] = Double(p[Len(p)], x) /\ r[1] = y /\ Len(F) = Len(p) /\ Len(r) = 1
    BY <1>0, <1>1, <1>2, <1>4, <1>6, <1>7
  <2>2. G[Len(p)] = Double(p[Len(p)], r[1])
    <3>1. PICK a \in Pieces : a = p[Len(p)]
      BY <1>2
    <3>2. F[Len(F)] = Double(a, x) /\ G[Len(p)] = G[Len(F)]
      BY <2>1, <3>1
    <3>3. G[Len(p)] = Append(Offset!Front(Double(a, x)), y)
      BY <1>5, <3>2, Zenon
    <3>4. Append(Offset!Front(Double(a, x)), y) = Double(a, y)
      BY DoubleFront
    <3> QED
      BY <2>1, <3>1, <3>3, <3>4
  <2>3. /\ Len(G) = Len(p) + Len(r) - 1
        /\ \A k \in 1..(Len(p) - 1) : G[k] = Single(p[k])
        /\ \A k \in 2..Len(r) : G[Len(p) + k - 1] = Single(r[k])
    BY <1>1, <1>2, <1>5, <2>1
  <2>4. TwoLists(G, p, r)
    BY <1>1, <1>4, <1>5, <2>2, <2>3, Zenon DEF TwoLists, Single, Double
  <2> QED
    BY <1>3, <1>4, <2>4 DEF G
<1>8. CASE Len(g) # 0
  <2>1. F[Len(F)] = Single(x)
    <3>1. Len(q) \in 2..Len(q) /\ Len(p) + Len(q) - 1 = Len(F) /\ q[Len(q)] = x
      BY <1>0, <1>1, <1>2, <1>8
    <3> QED
      BY <1>1, <3>1
  <2>2. G[Len(F)] = Single(y)
    BY <1>5, <2>1, DoubleFacts
  <2>3. /\ Len(G) = Len(p) + Len(r) - 1
        /\ \A k \in 1..(Len(p) - 1) : G[k] = Single(p[k])
        /\ G[Len(p)] = Double(p[Len(p)], r[1])
    BY <1>0, <1>1, <1>2, <1>4, <1>5, <1>6, <1>8
  <2>4. ASSUME NEW k \in 2..Len(r) PROVE G[Len(p) + k - 1] = Single(r[k])
    <3>1. CASE k = Len(r)
      <4>1. Len(p) + k - 1 = Len(F) /\ r[k] = y
        BY <1>2, <1>4, <1>6, <3>1, SMTT(30)
      <4> QED
        BY <2>2, <4>1
    <3>2. CASE k # Len(r)
      <4>1. /\ k \in 1..Len(g) /\ Len(p) + k - 1 \in 1..(Len(F) - 1)
            /\ k \in 2..Len(q)
        BY <1>0, <1>1, <1>2, <1>4, <3>2
      <4> QED
        BY <1>0, <1>1, <1>4, <1>5, <4>1, SMTT(30)
    <3> QED
      BY <3>1, <3>2
  <2>5. TwoLists(G, p, r)
    BY <1>1, <1>4, <1>5, <2>3, <2>4, Zenon DEF TwoLists, Single, Double
  <2> QED
    BY <1>3, <1>4, <2>5, Zenon DEF G
<1> QED
  BY <1>2, <1>7, <1>8

-----------------------------------------------------------------------------
\* What is read of a complete expression for one axis, and for two.
LEMMA OneListIsRead ==
    ASSUME NEW tokens, NEW p, OneList(Offset!fragments(tokens), p)
    PROVE  Offset!ops(tokens) = <<p>>
<1> DEFINE F == Offset!fragments(tokens)
           heads == [k \in DOMAIN F |-> Head(F[k])]
           dividers == {k \in DOMAIN F : Len(F[k]) = 2}
<1>1. F \in Fragments /\ p \in PieceLists /\ Len(F) = Len(p) /\ \A k \in 1..Len(p) : F[k] = Single(p[k])
  BY Zenon DEF OneList, Single
<1>2. p \in Seq(Pieces) /\ Len(p) \in Nat /\ \A k \in 1..Len(p) : p[k] \in Pieces
  BY <1>1, ListTypes
<1>a. Offset!ops(tokens) = IF dividers = {} THEN <<heads>>
        ELSE <<SubSeq(heads, 1, CHOOSE k \in dividers : TRUE),
               <<F[CHOOSE k \in dividers : TRUE][2]>>
                 \o SubSeq(heads, (CHOOSE k \in dividers : TRUE) + 1, Len(heads))>>
  BY Zenon DEF Offset!ops
<1>3. DOMAIN F = 1..Len(p)
  BY <1>1, <1>2 DEF Fragments
<1> HIDE DEF F
<1>4. \A k \in 1..Len(p) : Len(F[k]) = 1 /\ Head(F[k]) = p[k]
  BY <1>1, <1>2, SingleFacts
<1>5. dividers = {}
  <2>1. \A k \in DOMAIN F : Len(F[k]) # 2
    <3>1. \A k \in DOMAIN F : Len(F[k]) = 1
      BY <1>3, <1>4
    <3> QED
      BY <3>1
  <2> QED
    BY <2>1
<1>6. heads = p
  BY <1>2, <1>3, <1>4
<1> HIDE DEF dividers, heads
<1> QED
  BY <1>a, <1>5, <1>6, Zenon

LEMMA TwoListsAreRead ==
    ASSUME NEW tokens, NEW p, NEW q, TwoLists(Offset!fragments(tokens), p, q)
    PROVE  Offset!ops(tokens) = <<p, q>>
<1> DEFINE F == Offset!fragments(tokens)
           heads == [k \in DOMAIN F |-> Head(F[k])]
           dividers == {k \in DOMAIN F : Len(F[k]) = 2}
<1>1. /\ F \in Fragments /\ p \in PieceLists /\ q \in PieceLists
      /\ Len(F) = Len(p) + Len(q) - 1
      /\ \A k \in 1..(Len(p) - 1) : F[k] = Single(p[k])
      /\ F[Len(p)] = Double(p[Len(p)], q[1])
      /\ \A k \in 2..Len(q) : F[Len(p) + k - 1] = Single(q[k])
  BY Zenon DEF TwoLists, Single, Double
<1>2. /\ p \in Seq(Pieces) /\ Len(p) \in Nat /\ Len(p) > 0 /\ \A k \in 1..Len(p) : p[k] \in Pieces
      /\ q \in Seq(Pieces) /\ Len(q) \in Nat /\ Len(q) > 0 /\ \A k \in 1..Len(q) : q[k] \in Pieces
  BY <1>1, ListTypes
<1>a. Offset!ops(tokens) = IF dividers = {} THEN <<heads>>
        ELSE <<SubSeq(heads, 1, CHOOSE k \in dividers : TRUE),
               <<F[CHOOSE k \in dividers : TRUE][2]>>
                 \o SubSeq(heads, (CHOOSE k \in dividers : TRUE) + 1, Len(heads))>>
  BY Zenon DEF Offset!ops
<1>3. DOMAIN F = 1..(Len(p) + Len(q) - 1)
  BY <1>1, <1>2 DEF Fragments
<1> HIDE DEF F
<1>4. \A k \in 1..(Len(p) - 1) : Len(F[k]) = 1 /\ Head(F[k]) = p[k]
  <2>1. \A k \in 1..(Len(p) - 1) : k \in 1..Len(p)
    BY <1>2
  <2> QED
    BY <1>1, <1>2, <2>1, SingleFacts
<1>5. Len(F[Len(p)]) = 2 /\ Head(F[Len(p)]) = p[Len(p)] /\ F[Len(p)][2] = q[1]
  <2>1. Len(p) \in 1..Len(p) /\ 1 \in 1..Len(q)
    BY <1>2
  <2>2. p[Len(p)] \in Pieces /\ q[1] \in Pieces
    BY <1>2, <2>1
  <2> QED
    BY <1>1, <2>2, DoubleFacts
<1>6. \A k \in 2..Len(q) : Len(F[Len(p) + k - 1]) = 1 /\ Head(F[Len(p) + k - 1]) = q[k]
  <2>1. \A k \in 2..Len(q) : k \in 1..Len(q)
    BY <1>2
  <2> QED
    BY <1>1, <1>2, <2>1, SingleFacts
<1>a1. \A k \in DOMAIN F : k \in 1..(Len(p) - 1) \/ k = Len(p)
                              \/ \E j \in 2..Len(q) : k = Len(p) + j - 1
  <2> SUFFICES ASSUME NEW k \in DOMAIN F
               PROVE  k \in 1..(Len(p) - 1) \/ k = Len(p)
                      \/ \E j \in 2..Len(q) : k = Len(p) + j - 1
    OBVIOUS
  <2>1. PICK n \in Nat, i \in Nat : n = Len(p) /\ i = Len(q) /\ n > 0 /\ i > 0
    BY <1>2
  <2>2. k \in 1..(n + i - 1)
    BY <1>3, <2>1
  <2>3. k > n => \E j \in 2..i : k = n + j - 1
    <3>1. k > n => k - n + 1 \in 2..i /\ k = n + (k - n + 1) - 1
      BY <2>1, <2>2
    <3> QED
      BY <3>1
  <2>4. k <= n => k \in 1..(n - 1) \/ k = n
    BY <2>1, <2>2
  <2>5. k <= n \/ k > n
    BY <2>1, <2>2
  <2> QED
    BY <2>1, <2>3, <2>4, <2>5
<1>7. dividers = {Len(p)}
  <2>1. Len(p) \in DOMAIN F
    BY <1>2, <1>3
  <2>2. \A k \in DOMAIN F : k # Len(p) => Len(F[k]) = 1
    BY <1>4, <1>6, <1>a1
  <2>3. \A k \in DOMAIN F : Len(F[k]) = 2 <=> k = Len(p)
    BY <1>5, <2>2
  <2> QED
    BY <2>1, <2>2, <2>3
<1>b. \A k \in DOMAIN F : Head(F[k]) \in Pieces
  <2>1. \A k \in 1..(Len(p) - 1) : k \in 1..Len(p)
    BY <1>2
  <2>2. Len(p) \in 1..Len(p) /\ \A k \in 2..Len(q) : k \in 1..Len(q)
    BY <1>2
  <2> SUFFICES ASSUME NEW k \in DOMAIN F PROVE Head(F[k]) \in Pieces
    OBVIOUS
  <2>3. CASE k \in 1..(Len(p) - 1)
    BY <1>2, <1>4, <2>1, <2>3
  <2>4. CASE k = Len(p)
    BY <1>2, <1>5, <2>2, <2>4
  <2>5. CASE \E j \in 2..Len(q) : k = Len(p) + j - 1
    BY <1>2, <1>6, <2>2, <2>5
  <2> QED
    BY <1>a1, <2>3, <2>4, <2>5
<1>8. heads \in Seq(Pieces) /\ Len(heads) = Len(p) + Len(q) - 1
  <2>1. heads \in [1..(Len(p) + Len(q) - 1) -> Pieces] /\ Len(p) + Len(q) - 1 \in Nat
    BY <1>2, <1>3, <1>b
  <2> HIDE DEF heads
  <2> QED
    BY <2>1
<1>9. /\ \A k \in 1..Len(p) : heads[k] = p[k]
      /\ \A k \in 2..Len(q) : heads[Len(p) + k - 1] = q[k]
  <2>1. \A k \in DOMAIN F : heads[k] = Head(F[k])
    OBVIOUS
  <2> HIDE DEF heads
  <2>2. ASSUME NEW k \in 1..Len(p) PROVE heads[k] = p[k]
    <3>1. k \in DOMAIN F /\ (k = Len(p) \/ k \in 1..(Len(p) - 1))
      BY <1>2, <1>3
    <3> QED
      BY <1>4, <1>5, <2>1, <3>1
  <2>3. ASSUME NEW k \in 2..Len(q) PROVE heads[Len(p) + k - 1] = q[k]
    <3>1. Len(p) + k - 1 \in DOMAIN F
      BY <1>2, <1>3
    <3> QED
      BY <1>6, <2>1, <3>1
  <2> QED
    BY <2>2, <2>3
<1> HIDE DEF heads
<1>10. /\ SubSeq(heads, 1, Len(p)) = p
       /\ <<q[1]>> \o SubSeq(heads, Len(p) + 1, Len(heads)) = q
  BY <1>2, <1>8, <1>9, SharedLists
<1>11. F[Len(p)][2] = q[1]
  BY <1>5
<1>12. (CHOOSE k \in dividers : TRUE) = Len(p) /\ dividers # {}
  BY <1>7
<1> HIDE DEF dividers
<1> QED
  BY <1>a, <1>10, <1>11, <1>12, Zenon

\* The list that is being written, of the axis with side m.
Being(p, m, v, f, l) ==
    /\ l = "term" => f = 1 /\ Read(p, m, v)
    /\ l # "term" => \E g \in Seq(Pieces) :
                        /\ p = Append(g, Nothing)
                        /\ IF l = "sign" THEN Signed(g, m, v, f) ELSE Open(g, m, v, f)

\* What it means along its axis.
Along(base, i) == IF (base = "left") = (i = 1) THEN "height" ELSE "width"

\* The inductive invariant: what has been read so far is what has been meant so far.
OffsetState(t, base, mt, ax, f, l) ==
    /\ t \in Seq(Tokens) /\ base \in {"top", "left"} /\ mt \in [1..2 -> Int]
    /\ ax \in 1..2 /\ f \in {1, -1}
    /\ ax = 1 => \E p : /\ OneList(Offset!fragments(t), p) /\ mt[2] = 0
                        /\ Being(p, Along(base, 1), mt[1], f, l)
    /\ ax = 2 => \E p, q : /\ TwoLists(Offset!fragments(t), p, q)
                           /\ Read(p, Along(base, 1), mt[1])
                           /\ Being(q, Along(base, 2), mt[2], f, l)

\* That of the state.
OffsetIsRead == OffsetState(text, basePlacement, meant, axis, factor, last)

LEMMA TokenAppended ==
    ASSUME NEW t \in Seq(Tokens), NEW token \in Tokens
    PROVE  \E u \in Seq(Tokens) : u = Append(t, token)
<1>1. Append(t, token) \in Seq(Tokens)
  OBVIOUS
<1> QED
  BY <1>1

LEMMA AlongType ==
    \A base, i : Along(base, i) \in Sides
BY DEF Along, Sides

\* What is meant with one number more.
Plus(v, f, t, m) == v + f * t.value * Offset!Scale(t.unit, m)

Ending(p, t, m, w) ==
    \E g \in Seq(Pieces) :
        p = Append(g, Nothing) /\ Being(Append(g, Offset!Piece("", t)), m, w, 1, "term")

\* What is being written after each token.
LEMMA BeingTerm ==
    ASSUME NEW m \in Sides, NEW p, NEW v \in Int, NEW f \in {1, -1}, NEW l, Being(p, m, v, f, l),
           l # "term", NEW t \in Terms
    PROVE  Ending(p, t, m, Plus(v, f, t, m))
<1>1. PICK g \in Seq(Pieces) : /\ p = Append(g, Nothing)
                               /\ IF l = "sign" THEN Signed(g, m, v, f) ELSE Open(g, m, v, f)
  BY Zenon DEF Being
<1>2. Open(g, m, v, f) \/ Signed(g, m, v, f)
  BY <1>1
<1>3. Read(Append(g, Offset!Piece("", t)), m, Plus(v, f, t, m))
  BY <1>2, ReadTerm DEF Plus
<1> QED
  BY <1>1, <1>3, Zenon DEF Being, Ending

LEMMA BeingSign ==
    ASSUME NEW m \in Sides, NEW p \in Seq(Pieces), NEW v \in Int, NEW f \in {1, -1}, NEW l,
           Being(p, m, v, f, l), l \in {"term", "operator", "divider"}, NEW s \in Offset!Signs
    PROVE  Being(Append(Append(p, Offset!Piece(s, Offset!Empty)), Nothing), m, v,
                 IF s = "-" THEN -f ELSE f, IF l = "term" THEN "operator" ELSE "sign")
<1>0. PICK x \in Pieces : x = Offset!Piece(s, Offset!Empty)
  BY SignTypes
<1>a. Append(p, x) \in Seq(Pieces)
  OBVIOUS
<1>b. PICK e \in {1, -1} : e = (IF s = "-" THEN -f ELSE f) /\ e = Minused(s) * f
  BY DEF Minused
<1>1. CASE l = "term"
  <2>1. f = 1 /\ Read(p, m, v)
    BY <1>1, Zenon DEF Being
  <2>2. Open(Append(p, x), m, v, Minused(s))
    BY <1>0, <2>1, ReadSign
  <2>3. Minused(s) = e
    BY <1>b, <2>1 DEF Minused
  <2>4. Open(Append(p, x), m, v, e)
    BY <2>2, <2>3
  <2>5. "operator" # "term" /\ "operator" # "sign"
    OBVIOUS
  <2>6. Being(Append(Append(p, x), Nothing), m, v, e, "operator")
    BY <1>a, <2>4, <2>5, Zenon DEF Being
  <2> QED
    BY <1>0, <1>1, <1>b, <2>6
<1>2. CASE l # "term"
  <2>0. l # "sign"
    BY <1>2
  <2>1. PICK g \in Seq(Pieces) : p = Append(g, Nothing) /\ Open(g, m, v, f)
    BY <1>2, <2>0, Zenon DEF Being
  <2>2. Signed(Append(Append(g, Nothing), x), m, v, Minused(s) * f)
    BY <1>0, <2>1, OpenSign
  <2>3. Signed(Append(p, x), m, v, e)
    BY <1>b, <2>1, <2>2
  <2>4. "sign" # "term"
    OBVIOUS
  <2>5. Being(Append(Append(p, x), Nothing), m, v, e, "sign")
    BY <1>a, <2>3, <2>4, Zenon DEF Being
  <2> QED
    BY <1>0, <1>2, <1>b, <2>5
<1> QED
  BY <1>1, <1>2

LEMMA BeingFirst ==
    ASSUME NEW m \in Sides, NEW l \in {"divider", "space"}
    PROVE  Being(Single(Nothing), m, 0, 1, l)
<1>0. <<>> \in Seq(Pieces) /\ Len(<<>>) = 0
  OBVIOUS
<1>1. PICK e \in Seq(Pieces) : e = <<>> /\ Len(e) = 0
  BY <1>0, Zenon
<1>2. Open(e, m, 0, 1)
  BY <1>1, OpenAtFirst
<1>3. PICK n \in Pieces : n = Nothing
  BY PieceTypes
<1>4. Append(e, n) = Single(n)
  <2>1. PICK w \in Seq(Pieces) : w = Append(e, n) /\ Len(w) = Len(e) + 1 /\ w[Len(e) + 1] = n
    BY AppendedSeq
  <2>2. PICK r \in Seq(Pieces) : r = Single(n) /\ Len(r) = 1 /\ r[1] = n
    BY SingleSeq
  <2>3. Len(e) = 0
    BY <1>1
  <2>4. Len(w) = Len(r) /\ \A i \in 1..Len(w) : w[i] = r[i]
    BY <2>1, <2>2, <2>3
  <2>5. w = r
    BY <2>4, SeqEqual
  <2> QED
    BY <2>1, <2>2, <2>5, Zenon
<1>5. l # "term" /\ l # "sign"
  OBVIOUS
<1> QED
  BY <1>2, <1>3, <1>4, <1>5, Zenon DEF Being

\* The invariant after each token.
LEMMA AfterTerm ==
    ASSUME NEW t, NEW base, NEW mt, NEW ax, NEW f, NEW l, OffsetState(t, base, mt, ax, f, l),
           l # "term", NEW term \in Terms
    PROVE  OffsetState(Append(t, TermToken(term)), base,
                       [mt EXCEPT ![ax] = @ + f * term.value * Offset!Scale(term.unit, Along(base, ax))],
                       ax, 1, "term")
<1>1. /\ t \in Seq(Tokens) /\ base \in {"top", "left"} /\ mt \in [1..2 -> Int]
      /\ ax \in 1..2 /\ f \in {1, -1}
  BY Zenon DEF OffsetState
<1>2. PICK n \in Nat, sc \in Nat : n = term.value /\ sc = Offset!Scale(term.unit, Along(base, ax))
  BY AlongType, TermTypes, ScaleType
<1>d. PICK d \in Int : d = f * n * sc
  <2>1. f \in Int /\ f * n \in Int
    BY <1>1
  <2> QED
    BY <2>1
<1>3. PICK mu \in [1..2 -> Int] : mu = [mt EXCEPT ![ax] = @ + f * n * sc]
  <2>1. mt[ax] + f * n * sc \in Int
    BY <1>1, <1>d
  <2> QED
    BY <1>1, <2>1
<1>4. mu[ax] = mt[ax] + f * n * sc /\ \A i \in 1..2 : i # ax => mu[i] = mt[i]
  BY <1>1, <1>3
<1>5. PICK u \in Seq(Tokens) : u = Append(t, TermToken(term))
  BY <1>1, TokenTypes, TokenAppended
<1>6. Offset!fragments(u) = Offset!Split(Offset!fragments(t), TermToken(term))
  BY <1>1, <1>5, TokenTypes, FragmentsAppend
<1>7. PICK x \in Pieces : x = Nothing
  BY PieceTypes
<1>8. CASE ax = 1
  <2>1. PICK p : /\ OneList(Offset!fragments(t), p) /\ mt[2] = 0
                 /\ Being(p, Along(base, 1), mt[1], f, l)
    BY <1>8, Zenon DEF OffsetState
  <2>2. PICK g \in Seq(Pieces) :
              /\ p = Append(g, Nothing)
              /\ Being(Append(g, Offset!Piece("", term)), Along(base, 1), mu[1], 1, "term")
    <3>1. Along(base, 1) \in Sides /\ mt[1] \in Int /\ f \in {1, -1}
      BY <1>1, AlongType
    <3>2. Being(p, Along(base, 1), mt[1], f, l)
      BY <2>1
    <3>3. mu[1] = Plus(mt[1], f, term, Along(base, 1))
      BY <1>2, <1>4, <1>8 DEF Plus
    <3>4. PICK m \in Sides, v \in Int, e \in {1, -1} : m = Along(base, 1) /\ v = mt[1] /\ e = f
      BY <3>1
    <3>5. Being(p, m, v, e, l)
      BY <3>2, <3>4
    <3>6. Ending(p, term, m, Plus(v, e, term, m))
      BY <3>5, BeingTerm
    <3> QED
      BY <3>3, <3>4, <3>6, Zenon DEF Ending
  <2>3. OneList(Offset!fragments(u), Append(g, Offset!Piece("", term)))
    BY <1>6, <1>7, <2>1, <2>2, OneTerm
  <2>4. mu[2] = 0
    BY <1>4, <1>8, <2>1
  <2>5. OffsetState(u, base, mu, ax, 1, "term")
    <3>1. 1 \in {1, -1} /\ ax # 2
      BY <1>8
    <3> QED
      BY <1>1, <2>2, <2>3, <2>4, <3>1, Zenon DEF OffsetState
  <2> QED
    BY <1>2, <1>3, <1>5, <2>5
<1>9. CASE ax = 2
  <2>1. PICK p, q : /\ TwoLists(Offset!fragments(t), p, q)
                    /\ Read(p, Along(base, 1), mt[1])
                    /\ Being(q, Along(base, 2), mt[2], f, l)
    BY <1>9, Zenon DEF OffsetState
  <2>2. PICK g \in Seq(Pieces) :
              /\ q = Append(g, Nothing)
              /\ Being(Append(g, Offset!Piece("", term)), Along(base, 2), mu[2], 1, "term")
    <3>1. Along(base, 2) \in Sides /\ mt[2] \in Int /\ f \in {1, -1}
      BY <1>1, AlongType
    <3>2. Being(q, Along(base, 2), mt[2], f, l)
      BY <2>1
    <3>3. mu[2] = Plus(mt[2], f, term, Along(base, 2))
      BY <1>2, <1>4, <1>9 DEF Plus
    <3>4. PICK m \in Sides, v \in Int, e \in {1, -1} : m = Along(base, 2) /\ v = mt[2] /\ e = f
      BY <3>1
    <3>5. Being(q, m, v, e, l)
      BY <3>2, <3>4
    <3>6. Ending(q, term, m, Plus(v, e, term, m))
      BY <3>5, BeingTerm
    <3> QED
      BY <3>3, <3>4, <3>6, Zenon DEF Ending
  <2>3. TwoLists(Offset!fragments(u), p, Append(g, Offset!Piece("", term)))
    BY <1>6, <1>7, <2>1, <2>2, TwoTerm
  <2>4. mu[1] = mt[1]
    BY <1>4, <1>9
  <2>5. OffsetState(u, base, mu, ax, 1, "term")
    <3>1. 1 \in {1, -1} /\ ax # 1
      BY <1>9
    <3>2. Read(p, Along(base, 1), mu[1])
      BY <2>1, <2>4
    <3> QED
      BY <1>1, <2>2, <2>3, <2>4, <3>1, <3>2, Zenon DEF OffsetState
  <2> QED
    BY <1>2, <1>3, <1>5, <2>5
<1> QED
  BY <1>1, <1>8, <1>9

LEMMA AfterSign ==
    ASSUME NEW t, NEW base, NEW mt, NEW ax, NEW f, NEW l, OffsetState(t, base, mt, ax, f, l),
           l \in {"term", "operator", "divider"}, NEW s \in Offset!Signs
    PROVE  OffsetState(Append(t, SignToken(s)), base, mt, ax,
                       IF s = "-" THEN -f ELSE f, IF l = "term" THEN "operator" ELSE "sign")
<1>1. /\ t \in Seq(Tokens) /\ base \in {"top", "left"} /\ mt \in [1..2 -> Int]
      /\ ax \in 1..2 /\ f \in {1, -1}
  BY Zenon DEF OffsetState
<1>2. PICK e \in {1, -1} : e = (IF s = "-" THEN -f ELSE f)
  BY <1>1
<1>3. PICK k : k = (IF l = "term" THEN "operator" ELSE "sign")
  OBVIOUS
<1>5. PICK u \in Seq(Tokens) : u = Append(t, SignToken(s))
  BY <1>1, TokenTypes, TokenAppended
<1>6. Offset!fragments(u) = Offset!Split(Offset!fragments(t), SignToken(s))
  BY <1>1, <1>5, TokenTypes, FragmentsAppend
<1>8. CASE ax = 1
  <2>1. PICK p : /\ OneList(Offset!fragments(t), p) /\ mt[2] = 0
                 /\ Being(p, Along(base, 1), mt[1], f, l)
    BY <1>8, Zenon DEF OffsetState
  <2> DEFINE r == Append(Append(p, Offset!Piece(s, Offset!Empty)), Nothing)
  <2>2. Being(r, Along(base, 1), mt[1], e, k)
    <3>1. p \in Seq(Pieces)
      BY <2>1, ListTypes DEF OneList
    <3>2. mt[1] \in Int
      BY <1>1
    <3> QED
      BY <1>1, <1>2, <1>3, <2>1, <3>1, <3>2, AlongType, BeingSign
  <2>3. OneList(Offset!fragments(u), r)
    BY <1>6, <2>1, OneSign
  <2> HIDE DEF r
  <2>5. OffsetState(u, base, mt, ax, e, k)
    <3>1. ax # 2
      BY <1>8
    <3> QED
      BY <1>1, <2>1, <2>2, <2>3, <3>1, Zenon DEF OffsetState
  <2> QED
    BY <1>2, <1>3, <1>5, <2>5
<1>9. CASE ax = 2
  <2>1. PICK p, q : /\ TwoLists(Offset!fragments(t), p, q)
                    /\ Read(p, Along(base, 1), mt[1])
                    /\ Being(q, Along(base, 2), mt[2], f, l)
    BY <1>9, Zenon DEF OffsetState
  <2> DEFINE r == Append(Append(q, Offset!Piece(s, Offset!Empty)), Nothing)
  <2>2. Being(r, Along(base, 2), mt[2], e, k)
    <3>1. q \in Seq(Pieces)
      BY <2>1, ListTypes DEF TwoLists
    <3>2. mt[2] \in Int
      BY <1>1
    <3> QED
      BY <1>1, <1>2, <1>3, <2>1, <3>1, <3>2, AlongType, BeingSign
  <2>3. TwoLists(Offset!fragments(u), p, r)
    BY <1>6, <2>1, TwoSign
  <2> HIDE DEF r
  <2>5. OffsetState(u, base, mt, ax, e, k)
    <3>1. ax # 1
      BY <1>9
    <3> QED
      BY <1>1, <2>1, <2>2, <2>3, <3>1, Zenon DEF OffsetState
  <2> QED
    BY <1>2, <1>3, <1>5, <2>5
<1> QED
  BY <1>1, <1>8, <1>9

LEMMA AfterDivider ==
    ASSUME NEW t, NEW base, NEW mt, NEW f, OffsetState(t, base, mt, 1, f, "term"),
           NEW l \in {"divider", "space"}
    PROVE  OffsetState(Append(t, DividerToken), base, mt, 2, f, l)
<1>1. /\ t \in Seq(Tokens) /\ base \in {"top", "left"} /\ mt \in [1..2 -> Int]
      /\ f \in {1, -1}
  BY Zenon DEF OffsetState
<1>2. PICK p : /\ OneList(Offset!fragments(t), p) /\ mt[2] = 0
               /\ Being(p, Along(base, 1), mt[1], f, "term")
  BY Zenon DEF OffsetState
<1>3. f = 1 /\ Read(p, Along(base, 1), mt[1])
  BY <1>2, Zenon DEF Being
<1>4. PICK u \in Seq(Tokens) : u = Append(t, DividerToken)
  BY <1>1, TokenTypes, TokenAppended
<1>5. Offset!fragments(u) = Offset!Split(Offset!fragments(t), DividerToken)
  BY <1>1, <1>4, TokenTypes, FragmentsAppend
<1>6. TwoLists(Offset!fragments(u), p, Single(Nothing))
  BY <1>2, <1>5, OneDivider
<1>7. Being(Single(Nothing), Along(base, 2), mt[2], f, l)
  <2>1. Along(base, 2) \in Sides
    BY AlongType
  <2>2. Being(Single(Nothing), Along(base, 2), 0, 1, l)
    BY <2>1, BeingFirst
  <2> QED
    BY <1>2, <1>3, <2>2
<1>8. 2 \in 1..2 /\ 2 # 1
  OBVIOUS
<1>9. OffsetState(u, base, mt, 2, f, l)
  BY <1>1, <1>3, <1>6, <1>7, <1>8, Zenon DEF OffsetState
<1> QED
  BY <1>4, <1>9

LEMMA AtFirst ==
    ASSUME NEW base \in {"top", "left"}
    PROVE  OffsetState(<<>>, base, <<0, 0>>, 1, 1, "divider")
<1>1. <<>> \in Seq(Tokens)
  OBVIOUS
<1>2. <<0, 0>> \in [1..2 -> Int] /\ <<0, 0>>[1] = 0 /\ <<0, 0>>[2] = 0
  OBVIOUS
<1>3. PICK mt \in [1..2 -> Int] : mt = <<0, 0>> /\ mt[1] = 0 /\ mt[2] = 0
  BY <1>2, Zenon
<1>4. PICK n \in Pieces : n = Nothing
  BY PieceTypes
<1>5. OneList(Offset!fragments(<<>>), Single(n))
  <2>1. PICK F \in Fragments : F = Offset!fragments(<<>>) /\ F = <<Single(n)>>
    BY <1>4, PieceTypes, FragmentsOfNothing, Zenon DEF Single
  <2>2. PICK r \in PieceLists : r = Single(n) /\ Len(r) = 1 /\ r[1] = n
    BY SingleFacts, SingleSeq
  <2>3. Len(F) = 1 /\ F[1] = r
    BY <2>1, <2>2
  <2>4. Len(F) = Len(r) /\ \A k \in 1..Len(r) : F[k] = Single(r[k])
    <3>1. Len(r) = 1 /\ r[1] = n /\ r = Single(n)
      BY <2>2
    <3> QED
      BY <2>3, <3>1
  <2>5. OneList(F, r)
    BY <2>4, Zenon DEF OneList, Single
  <2> QED
    BY <2>1, <2>2, <2>5, Zenon
<1>6. Being(Single(n), Along(base, 1), mt[1], 1, "divider")
  <2>1. Along(base, 1) \in Sides /\ "divider" \in {"divider", "space"}
    BY AlongType
  <2>2. Being(Single(Nothing), Along(base, 1), 0, 1, "divider")
    BY <2>1, BeingFirst
  <2> QED
    BY <1>3, <1>4, <2>2
<1>7. 1 \in 1..2 /\ 1 \in {1, -1} /\ 1 # 2
  OBVIOUS
<1>8. OffsetState(<<>>, base, mt, 1, 1, "divider")
  BY <1>1, <1>3, <1>5, <1>6, <1>7, Zenon DEF OffsetState
<1> QED
  BY <1>3, <1>8, Zenon

-----------------------------------------------------------------------------
\* A complete expression means what was read of it.
LEMMA ReadMeans ==
    ASSUME NEW p \in PieceLists, NEW m \in Sides, NEW v, Read(p, m, v)
    PROVE  /\ Offset!SumOf(Offset!aggregate(p), m) = v
           /\ Len(Offset!aggregate(p)) % 2 = 1
           /\ \A k \in DOMAIN Offset!aggregate(p) :
                IF k % 2 = 0 THEN Offset!IsSign(Offset!aggregate(p)[k])
                ELSE Offset!aggregate(p)[k].term # Offset!Empty
<1>1. PICK c : Full(c, m, v) /\ Merged(p) = Acc(c, FALSE)
  BY Zenon DEF Read
<1>2. c \in Seq(Pieces) /\ Alternates(c) /\ Len(c) % 2 = 1 /\ Summed(c, m)[1] = v
  BY <1>1 DEF Full
<1>3. p \in Seq(Pieces)
  BY ListTypes
<1>4. Acc(c, FALSE).a = c
  <2>1. PICK no \in BOOLEAN : no = FALSE
    OBVIOUS
  <2>2. Acc(c, no).a = c
    BY DEF Acc
  <2> QED
    BY <2>1, <2>2
<1>5. Offset!aggregate(p) = c
  BY <1>1, <1>3, <1>4, AggregateMerges
<1>6. Offset!SumOf(c, m) = v
  BY <1>2, SumIsFolded
<1>7. DOMAIN c = 1..Len(c)
  BY <1>2
<1> QED
  BY <1>2, <1>5, <1>6, <1>7 DEF Alternates

LEMMA CompleteIsMeant ==
    ASSUME NEW t, NEW base, NEW mt, NEW ax, NEW f, OffsetState(t, base, mt, ax, f, "term")
    PROVE  /\ Offset!parseOffset(t, base) = mt
           /\ \A pieces \in Offset!ToSet(Offset!ops(t)) :
                /\ Len(Offset!aggregate(pieces)) % 2 = 1
                /\ \A k \in DOMAIN Offset!aggregate(pieces) :
                     IF k % 2 = 0 THEN Offset!IsSign(Offset!aggregate(pieces)[k])
                     ELSE Offset!aggregate(pieces)[k].term # Offset!Empty
<1>1. base \in {"top", "left"} /\ mt \in [1..2 -> Int] /\ ax \in 1..2
  BY Zenon DEF OffsetState
<1> DEFINE Value(index) == IF index \in DOMAIN Offset!ops(t)
                           THEN Offset!SumOf(Offset!aggregate(Offset!ops(t)[index]), Along(base, index))
                           ELSE 0
<1>2. Offset!parseOffset(t, base) = [index \in 1..2 |-> Value(index)]
  <2>1. (base \in {"left", "right"}) <=> (base = "left")
    BY <1>1
  <2>2. \A index \in 1..2 : Along(base, index)
            = IF (index = 1) = (base \in {"left", "right"}) THEN "height" ELSE "width"
    BY <2>1 DEF Along
  <2> QED
    BY <2>2 DEF Offset!parseOffset
<1>3. CASE ax = 1
  <2>1. PICK p : /\ OneList(Offset!fragments(t), p) /\ mt[2] = 0
                 /\ Being(p, Along(base, 1), mt[1], f, "term")
    BY <1>3, Zenon DEF OffsetState
  <2>2. Read(p, Along(base, 1), mt[1]) /\ p \in PieceLists /\ Along(base, 1) \in Sides
    BY <2>1, AlongType, Zenon DEF Being, OneList
  <2>3. Offset!ops(t) = <<p>>
    BY <2>1, OneListIsRead
  <2>4. DOMAIN Offset!ops(t) = 1..1 /\ Offset!ops(t)[1] = p /\ Offset!ToSet(Offset!ops(t)) = {p}
    BY <2>3 DEF Offset!ToSet
  <2>5. Value(1) = mt[1] /\ Value(2) = 0
    BY <2>2, <2>4, ReadMeans
  <2> HIDE DEF Value
  <2>6. Offset!parseOffset(t, base) = mt
    BY <1>1, <1>2, <2>1, <2>5
  <2> QED
    BY <2>2, <2>4, <2>6, ReadMeans
<1>4. CASE ax = 2
  <2>1. PICK p, q : /\ TwoLists(Offset!fragments(t), p, q)
                    /\ Read(p, Along(base, 1), mt[1])
                    /\ Being(q, Along(base, 2), mt[2], f, "term")
    BY <1>4, Zenon DEF OffsetState
  <2>2. /\ Read(q, Along(base, 2), mt[2]) /\ p \in PieceLists /\ q \in PieceLists
        /\ Along(base, 1) \in Sides /\ Along(base, 2) \in Sides
    BY <2>1, AlongType, Zenon DEF Being, TwoLists
  <2>3. Offset!ops(t) = <<p, q>>
    BY <2>1, TwoListsAreRead
  <2>4. /\ DOMAIN Offset!ops(t) = 1..2 /\ Offset!ops(t)[1] = p /\ Offset!ops(t)[2] = q
        /\ Offset!ToSet(Offset!ops(t)) = {p, q}
    BY <2>3 DEF Offset!ToSet
  <2>5. Value(1) = mt[1] /\ Value(2) = mt[2]
    BY <2>1, <2>2, <2>4, ReadMeans
  <2> HIDE DEF Value
  <2>6. Offset!parseOffset(t, base) = mt
    BY <1>1, <1>2, <2>5
  <2> QED
    BY <2>1, <2>2, <2>4, <2>6, ReadMeans
<1> QED
  BY <1>1, <1>3, <1>4

\* No token disturbs it.
LEMMA OffsetReadStep == OffsetIsRead /\ [Offset!Next]_Offset!vars => OffsetIsRead'
<1> SUFFICES ASSUME OffsetIsRead, [Offset!Next]_Offset!vars PROVE OffsetIsRead'
  OBVIOUS
<1>1. ASSUME NEW term \in Terms, Offset!WriteTerm(term) PROVE OffsetIsRead'
  <2>1. /\ last # "term" /\ text' = Append(text, TermToken(term)) /\ basePlacement' = basePlacement
        /\ factor' = 1 /\ last' = "term" /\ axis' = axis
        /\ meant' = [meant EXCEPT ![axis] =
                        @ + factor * term.value * Offset!Scale(term.unit, Along(basePlacement, axis))]
    BY <1>1, Zenon DEF Offset!WriteTerm, Offset!Write, TermToken, Along
  <2>2. OffsetState(Append(text, TermToken(term)), basePlacement,
                    [meant EXCEPT ![axis] =
                        @ + factor * term.value * Offset!Scale(term.unit, Along(basePlacement, axis))],
                    axis, 1, "term")
    BY <2>1, AfterTerm DEF OffsetIsRead
  <2> QED
    BY <2>1, <2>2, Zenon DEF OffsetIsRead
<1>2. ASSUME NEW s \in Offset!Signs, Offset!WriteSign(s) PROVE OffsetIsRead'
  <2>1. /\ last \in {"term", "operator", "divider"} /\ text' = Append(text, SignToken(s))
        /\ basePlacement' = basePlacement /\ axis' = axis /\ meant' = meant
        /\ factor' = (IF s = "-" THEN -factor ELSE factor)
        /\ last' = (IF last = "term" THEN "operator" ELSE "sign")
    BY <1>2, Zenon DEF Offset!WriteSign, Offset!Write, SignToken
  <2>2. OffsetState(Append(text, SignToken(s)), basePlacement, meant, axis,
                    IF s = "-" THEN -factor ELSE factor, IF last = "term" THEN "operator" ELSE "sign")
    BY <2>1, AfterSign DEF OffsetIsRead
  <2> QED
    BY <2>1, <2>2, Zenon DEF OffsetIsRead
<1>3. ASSUME NEW comma \in BOOLEAN, Offset!WriteDivider(comma) PROVE OffsetIsRead'
  <2>1. /\ last = "term" /\ axis = 1 /\ text' = Append(text, DividerToken)
        /\ basePlacement' = basePlacement /\ axis' = 2 /\ meant' = meant /\ factor' = factor
        /\ last' \in {"divider", "space"}
    <3>1. last' = "divider" \/ last' = "space"
      BY <1>3, Zenon DEF Offset!WriteDivider
    <3> QED
      BY <1>3, <3>1, Zenon DEF Offset!WriteDivider, Offset!Write, DividerToken
  <2>2. OffsetState(text, basePlacement, meant, 1, factor, "term")
    BY <2>1 DEF OffsetIsRead
  <2>3. OffsetState(Append(text, DividerToken), basePlacement, meant, 2, factor, last')
    BY <2>1, <2>2, AfterDivider
  <2> QED
    BY <2>1, <2>3, Zenon DEF OffsetIsRead
<1>4. CASE UNCHANGED Offset!vars
  BY <1>4, Zenon DEF Offset!vars, OffsetIsRead
<1> QED
  BY <1>1, <1>2, <1>3, <1>4 DEF Offset!Next

\* An offset expression is read as its author means it: no sign is lost or taken
\* for that of another number, no axis for the other, and what is summed are
\* numbers with one operator between each two.
THEOREM OffsetReadAsMeant == Offset!Spec => []ReadAsMeant
<1>1. Offset!Init => OffsetIsRead
  <2> SUFFICES ASSUME Offset!Init PROVE OffsetIsRead
    OBVIOUS
  <2>1. /\ text = <<>> /\ basePlacement \in {"top", "left"} /\ meant = <<0, 0>> /\ axis = 1
        /\ factor = 1 /\ last = "divider"
    BY Zenon DEF Offset!Init
  <2>2. OffsetState(<<>>, basePlacement, <<0, 0>>, 1, 1, "divider")
    BY <2>1, AtFirst
  <2> QED
    BY <2>1, <2>2, Zenon DEF OffsetIsRead
<1>2. OffsetIsRead /\ [Offset!Next]_Offset!vars => OffsetIsRead'
  BY OffsetReadStep
<1>3. OffsetIsRead => ReadAsMeant
  <2> SUFFICES ASSUME OffsetIsRead, last = "term"
               PROVE  /\ Offset!parseOffset(text, basePlacement) = meant
                      /\ \A pieces \in Offset!ToSet(Offset!ops(text)) :
                           /\ Len(Offset!aggregate(pieces)) % 2 = 1
                           /\ \A k \in DOMAIN Offset!aggregate(pieces) :
                                IF k % 2 = 0 THEN Offset!IsSign(Offset!aggregate(pieces)[k])
                                ELSE Offset!aggregate(pieces)[k].term # Offset!Empty
    BY Zenon DEF ReadAsMeant, Offset!ReadAsMeant, Offset!OperatorsBetweenNumbers
  <2>1. OffsetState(text, basePlacement, meant, axis, factor, "term")
    BY DEF OffsetIsRead
  <2> QED
    BY <2>1, CompleteIsMeant
<1> QED
  BY <1>1, <1>2, <1>3, PTL DEF Offset!Spec

-----------------------------------------------------------------------------
(* The tree of elements: what is around an element.                        *)

\* The elements of the page, html among them.
Elems == Elements!Nodes

\* Parents have smaller numbers.
LEMMA TreeFacts ==
    ASSUME NEW par, Elements!IsTree(par)
    PROVE  /\ par \in [1..LastElement -> Elems] /\ par[1] = 0 /\ LastElement \in Nat
           /\ \A e \in 1..LastElement : par[e] \in Elems /\ par[e] < e /\ (e # 1 => par[e] >= 1)
           /\ Reference \in 2..LastElement /\ PopperElement \in 2..LastElement
           /\ Reference # PopperElement
           /\ par[PopperElement] \in Elements!AroundIn(par)[par[Reference]]
           /\ PopperElement \notin Elements!AroundIn(par)[Reference]
<1>1. /\ LastElement \in Nat /\ {Reference, PopperElement} \subseteq 2..LastElement
      /\ Reference # PopperElement
  BY PositioningAssumption DEF Elements!ConstantsAssumption
<1>2. /\ par \in [1..LastElement -> Elems] /\ par[1] = 0
      /\ \A e \in 2..LastElement : par[e] \in 1..e - 1
      /\ par[PopperElement] \in Elements!AroundIn(par)[par[Reference]]
      /\ PopperElement \notin Elements!AroundIn(par)[Reference]
  BY DEF Elements!IsTree, Elems, Elements!Body, Elements!Html
<1>3. ASSUME NEW e \in 1..LastElement PROVE par[e] \in Elems /\ par[e] < e /\ (e # 1 => par[e] >= 1)
  <2>1. CASE e = 1
    BY <1>2, <2>1
  <2>2. CASE e # 1
    <3>1. e \in 2..LastElement
      BY <1>1, <2>2
    <3>2. par[e] \in 1..e - 1 /\ par[e] \in Elems
      BY <1>2, <3>1
    <3> QED
      BY <3>1, <3>2
  <2> QED
    BY <2>1, <2>2
<1> QED
  BY <1>1, <1>2, <1>3

\* What the recursion gives: an element, and what is around its parent.
LEMMA AroundIsSolved ==
    ASSUME NEW par, Elements!IsTree(par)
    PROVE  /\ Elements!AroundIn(par) \in [Elems -> SUBSET Elems]
           /\ Elements!AroundIn(par)[0] = {0}
           /\ \A e \in 1..LastElement :
                Elements!AroundIn(par)[e] = {e} \cup Elements!AroundIn(par)[par[e]]
<1> DEFINE S == SUBSET Elems
           n == LastElement
           H == [0..n -> S]
           F == [x \in (0..n) \X H |-> IF x[1] = 0 THEN {0} ELSE {x[1]} \cup x[2][par[x[1]]]]
<1>0. n \in Nat /\ Elems = 0..n /\ \A e \in 1..n : par[e] \in Elems /\ par[e] < e
  BY TreeFacts DEF Elems, Elements!Nodes
<1>1. \A k \in 0..n, h \in H : F[<<k, h>>] = IF k = 0 THEN {0} ELSE {k} \cup h[par[k]]
  OBVIOUS
<1>2. \A k \in 0..n : k # 0 => k \in 1..n
  BY <1>0
<1>3. \A k \in 0..n, h \in H : (IF k = 0 THEN {0} ELSE {k} \cup h[par[k]]) \in S
  BY <1>0, <1>2
<1>4. F \in Looks(S, n)
  BY <1>3 DEF Looks
<1>5. LooksBelow(F, S, n)
  <2> SUFFICES ASSUME NEW k \in 0..n, NEW g \in H, NEW h \in H, \A j \in 0..n : j < k => g[j] = h[j]
               PROVE  F[<<k, g>>] = F[<<k, h>>]
    BY DEF LooksBelow
  <2>1. k # 0 => g[par[k]] = h[par[k]]
    BY <1>0, <1>2
  <2>2. /\ F[<<k, g>>] = IF k = 0 THEN {0} ELSE {k} \cup g[par[k]]
        /\ F[<<k, h>>] = IF k = 0 THEN {0} ELSE {k} \cup h[par[k]]
    <3> HIDE DEF F, H
    <3> QED
      BY <1>1
  <2> HIDE DEF F, H
  <2>3. CASE k = 0
    BY <2>2, <2>3, Zenon
  <2>4. CASE k # 0
    <3>1. g[par[k]] = h[par[k]]
      BY <2>1, <2>4, Zenon
    <3> QED
      BY <2>2, <2>4, <3>1, Zenon
  <2> QED
    BY <2>3, <2>4, Zenon
<1>6. {} \in S
  OBVIOUS
<1>7. PICK f \in H : \A k \in 0..n : f[k] = F[<<k, f>>]
  <2> HIDE DEF F
  <2>1. \E f \in [0..n -> S] : \A k \in 0..n : f[k] = F[<<k, f>>]
    <3> HIDE DEF S, n
    <3> QED
      BY <1>0, <1>4, <1>5, <1>6, RecursionIsSolved
  <2> QED
    BY <2>1
<1>8. \A k \in 0..n : f[k] = IF k = 0 THEN {0} ELSE {k} \cup f[par[k]]
  <2> HIDE DEF F
  <2> QED
    BY <1>1, <1>7
<1>9. \E around : around = [e \in Elements!Nodes |->
                               IF e = Elements!Html THEN {Elements!Html} ELSE {e} \cup around[par[e]]]
  <2>1. f = [e \in Elements!Nodes |-> IF e = Elements!Html THEN {Elements!Html} ELSE {e} \cup f[par[e]]]
    BY <1>0, <1>7, <1>8 DEF Elements!Html, Elems
  <2> QED
    BY <2>1
<1>10. PICK A : A = Elements!AroundIn(par)
  OBVIOUS
<1>11. A = [e \in Elements!Nodes |-> IF e = Elements!Html THEN {Elements!Html} ELSE {e} \cup A[par[e]]]
  BY <1>9, <1>10, Zenon DEF Elements!AroundIn
<1>12. A[0] = {0} /\ \A e \in 1..n : A[e] = {e} \cup A[par[e]]
  BY <1>0, <1>11 DEF Elements!Html, Elems
<1>13. \A e \in Elems : A[e] \in SUBSET Elems
  <2> DEFINE Bad == {e \in Elems : A[e] \notin SUBSET Elems}
  <2>1. ASSUME NEW m \in Bad, \A j \in Bad : m <= j PROVE FALSE
    <3>1. m \in 0..n /\ m # 0
      BY <1>0, <1>12
    <3>2. m \in 1..n
      BY <1>2, <3>1
    <3>3. par[m] \in Elems /\ ~(m <= par[m])
      BY <1>0, <3>2
    <3>4. A[par[m]] \in SUBSET Elems
      BY <2>1, <3>3
    <3> QED
      BY <1>0, <1>12, <3>2, <3>4
  <2>2. Bad \subseteq Nat
    BY <1>0
  <2>3. Bad = {}
    <3> HIDE DEF Bad
    <3> QED
      BY <2>1, <2>2, LeastNumber
  <2> QED
    BY <2>3
<1>14. A \in [Elems -> SUBSET Elems]
  BY <1>11, <1>13 DEF Elems
<1> QED
  BY <1>10, <1>12, <1>14

\* An element and those around it: with them all that is around them, up to body and html.
IsAround(A, e) ==
    /\ e \in A[e] /\ 0 \in A[e] /\ (e # 0 => 1 \in A[e])
    /\ \A a \in A[e] : a \in Elems /\ a <= e /\ A[a] \subseteq A[e]

\* What is around an element, and around what is around it.
LEMMA AroundFacts ==
    ASSUME NEW par, Elements!IsTree(par), NEW A, A = Elements!AroundIn(par)
    PROVE  \A e \in Elems : IsAround(A, e)
<1>0. /\ LastElement \in Nat /\ Elems = 0..LastElement /\ par[1] = 0
      /\ \A e \in 1..LastElement : par[e] \in Elems /\ par[e] < e /\ (e # 1 => par[e] >= 1)
  BY TreeFacts DEF Elems, Elements!Nodes
<1>1. /\ A \in [Elems -> SUBSET Elems] /\ A[0] = {0}
      /\ \A e \in 1..LastElement : A[e] = {e} \cup A[par[e]]
  BY AroundIsSolved
<1> DEFINE Bad == {e \in Elems : ~IsAround(A, e)}
<1>2. ASSUME NEW m \in Bad, \A j \in Bad : m <= j PROVE FALSE
  <2>1. CASE m = 0
    <3>1. IsAround(A, 0)
      BY <1>0, <1>1 DEF IsAround
    <3> QED
      BY <2>1, <3>1
  <2>2. CASE m # 0
    <3>1. m \in 1..LastElement
      BY <1>0, <2>2
    <3>2. PICK p \in Elems : p = par[m] /\ p < m /\ (m # 1 => p >= 1)
      BY <1>0, <3>1
    <3>3. ~(m <= p)
      BY <1>0, <3>1, <3>2
    <3>4. IsAround(A, p)
      BY <1>2, <3>2, <3>3
    <3>5. A[m] = {m} \cup A[p]
      BY <1>1, <3>1, <3>2
    <3>6. /\ p \in A[p] /\ 0 \in A[p] /\ (p # 0 => 1 \in A[p])
          /\ \A a \in A[p] : a \in Elems /\ a <= p /\ A[a] \subseteq A[p]
      BY <3>4 DEF IsAround
    <3>7. ASSUME NEW a \in A[m] PROVE a \in Elems /\ a <= m /\ A[a] \subseteq A[m]
      <4>1. CASE a = m
        BY <1>0, <3>1, <4>1
      <4>2. CASE a # m
        <5>1. a \in A[p] /\ a \in Elems /\ a <= p /\ A[a] \subseteq A[p]
          BY <3>5, <3>6, <4>2
        <5> QED
          BY <1>0, <3>1, <3>2, <3>5, <5>1
      <4> QED
        BY <4>1, <4>2
    <3>8. m \in A[m] /\ 0 \in A[m] /\ 1 \in A[m]
      <4>1. CASE m = 1
        BY <3>5, <3>6, <4>1
      <4>2. CASE m # 1
        <5>1. p # 0
          BY <1>0, <3>2, <4>2
        <5> QED
          BY <3>5, <3>6, <5>1
      <4> QED
        BY <4>1, <4>2
    <3>9. IsAround(A, m)
      BY <3>7, <3>8 DEF IsAround
    <3> QED
      BY <3>9
  <2> QED
    BY <2>1, <2>2
<1>3. Bad \subseteq Nat
  BY <1>0
<1>4. Bad = {}
  <2> HIDE DEF Bad
  <2> QED
    BY <1>2, <1>3, LeastNumber
<1> QED
  BY <1>4

\* Every set of elements that is not empty has an innermost one.
LEMMA GreatestElement ==
    ASSUME NEW T, T \subseteq Elems, T # {}, LastElement \in Nat
    PROVE  \E m \in T : \A j \in T : j <= m
<1> DEFINE U == {LastElement - j : j \in T}
<1>1. U \subseteq Nat /\ U # {}
  <2>1. \A j \in Elems : LastElement - j \in Nat
    BY DEF Elems, Elements!Nodes
  <2>2. \A j \in T : LastElement - j \in Nat
    BY <2>1
  <2>3. PICK j \in T : LastElement - j \in U
    OBVIOUS
  <2> QED
    BY <2>2, <2>3
<1>2. PICK u \in U : \A j \in U : u <= j
  <2> HIDE DEF U
  <2> QED
    BY <1>1, LeastNumber
<1>3. PICK m \in T : u = LastElement - m
  OBVIOUS
<1>4. ASSUME NEW j \in T PROVE j <= m
  <2>1. LastElement - j \in U
    OBVIOUS
  <2>2. u <= LastElement - j
    BY <1>2, <2>1
  <2> QED
    BY <1>3, <2>2 DEF Elems, Elements!Nodes
<1> QED
  BY <1>4

\* The innermost element of a set.
LEMMA InnermostFacts ==
    ASSUME NEW T, T \subseteq Elems, NEW default
    PROVE  /\ T = {} => Elements!Innermost(T, default) = default
           /\ T # {} => /\ Elements!Innermost(T, default) \in T
                        /\ \A b \in T : b <= Elements!Innermost(T, default)
<1>0. LastElement \in Nat
  BY PositioningAssumption DEF Elements!ConstantsAssumption
<1>1. CASE T = {}
  BY <1>1 DEF Elements!Innermost
<1>2. CASE T # {}
  <2>1. \E a \in T : \A b \in T : b <= a
    BY <1>0, <1>2, GreatestElement
  <2>2. Elements!Innermost(T, default) = CHOOSE a \in T : \A b \in T : b <= a
    BY <1>2 DEF Elements!Innermost
  <2> QED
    BY <1>2, <2>1, <2>2
<1> QED
  BY <1>1, <1>2

\* It is the only one that is.
LEMMA InnermostIs ==
    ASSUME NEW T, T \subseteq Elems, NEW default, NEW m \in T, \A b \in T : b <= m
    PROVE  Elements!Innermost(T, default) = m
<1>1. PICK i : i = Elements!Innermost(T, default)
  OBVIOUS
<1>2. i \in T /\ m <= i
  BY <1>1, InnermostFacts
<1>3. i <= m /\ i \in Int /\ m \in Int
  <2>1. LastElement \in Nat
    BY PositioningAssumption DEF Elements!ConstantsAssumption
  <2> QED
    BY <1>2, <2>1 DEF Elems, Elements!Nodes
<1> QED
  BY <1>1, <1>2, <1>3

-----------------------------------------------------------------------------
(* Styles, containing blocks and the tops of elements.                     *)

\* A tree, its styles, and how far its elements are scrolled.
TreeNow ==
    /\ parent \in Parents /\ Elements!IsTree(parent) /\ Elements!IsStyle(treeStyle, parent)
    /\ scroll \in [Elems -> Int] /\ top \in Int

\* What is known of the styles.
LEMMA StyleFacts ==
    ASSUME TreeNow
    PROVE  /\ LastElement \in Nat /\ Elems = 0..LastElement
           /\ \A e \in Elems : /\ treeStyle[e].border \in Int /\ treeStyle[e].at \in Int
                               /\ treeStyle[e].position \in Elements!Positions /\ scroll[e] \in Int
           /\ treeStyle[0].position = "static" /\ treeStyle[1].position = "static"
           /\ ~treeStyle[0].transform /\ ~treeStyle[1].transform /\ ~treeStyle[1].scrolls
           /\ treeStyle[PopperElement].position \in {"absolute", "fixed"}
           /\ \A a \in Elements!AroundIn(parent)[PopperElement] : ~treeStyle[a].hidden
<1>1. LastElement \in Nat /\ Elems = 0..LastElement
  BY PositioningAssumption DEF Elements!ConstantsAssumption, Elems, Elements!Nodes
<1>2. /\ treeStyle \in [Elems -> [position : Elements!Positions, transform : BOOLEAN, scrolls : BOOLEAN,
                                  hidden : BOOLEAN, border : Nat, at : Int]]
      /\ \A e \in {0, 1} : treeStyle[e].position = "static" /\ ~treeStyle[e].transform
      /\ ~treeStyle[1].scrolls
      /\ treeStyle[PopperElement].position \in {"absolute", "fixed"}
      /\ \A a \in Elements!AroundIn(parent)[PopperElement] : ~treeStyle[a].hidden
  BY Zenon DEF TreeNow, Elements!IsStyle, Elems, Elements!Html, Elements!Body
<1>3. ASSUME NEW e \in Elems
      PROVE  /\ treeStyle[e].border \in Int /\ treeStyle[e].at \in Int
             /\ treeStyle[e].position \in Elements!Positions /\ scroll[e] \in Int
  <2>1. treeStyle[e] \in [position : Elements!Positions, transform : BOOLEAN, scrolls : BOOLEAN,
                          hidden : BOOLEAN, border : Nat, at : Int]
    BY <1>2
  <2> QED
    BY <2>1 DEF TreeNow
<1> QED
  BY <1>1, <1>2, <1>3

\* What an element of the page is in: its parent, or its containing block.
Holder(e) == IF treeStyle[e].position \in {"static", "relative"} THEN parent[e] ELSE Elements!ContainingBlock(e)

\* By how much it is below the top of that.
Below(e) ==
    IF e = PopperElement /\ treeStyle[e].position \in {"absolute", "fixed"} THEN top ELSE treeStyle[e].at

\* The top of what is inside of a, if the tops are those of g.
WithinTop(g, a) ==
    IF a = -1 THEN -scroll[0] ELSE IF a = -2 THEN 0 ELSE IF a = 0 THEN g[0]
    ELSE g[a] + treeStyle[a].border - Elements!Scrolled(a)

\* The top of an element, if those of the others are the tops of g.
TopIn(g, e) == IF e = 0 THEN treeStyle[0].at - scroll[0] ELSE WithinTop(g, Holder(e)) + Below(e)

\* What is around an element of the page as it is.
LEMMA AroundNow ==
    ASSUME TreeNow
    PROVE  /\ Elements!Around \in [Elems -> SUBSET Elems] /\ Elements!Around[0] = {0}
           /\ \A e \in 1..LastElement : Elements!Around[e] = {e} \cup Elements!Around[parent[e]]
           /\ \A e \in Elems : IsAround(Elements!Around, e)
           /\ \A e \in 1..LastElement : parent[e] \in Elems /\ parent[e] < e /\ (e # 1 => parent[e] >= 1)
           /\ parent[1] = 0
<1>1. Elements!IsTree(parent)
  BY DEF TreeNow
<1>2. PICK A : A = Elements!AroundIn(parent)
  OBVIOUS
<1>3. \A e \in Elems : IsAround(A, e)
  BY <1>1, <1>2, AroundFacts
<1>4. /\ A \in [Elems -> SUBSET Elems] /\ A[0] = {0}
      /\ \A e \in 1..LastElement : A[e] = {e} \cup A[parent[e]]
  BY <1>1, <1>2, AroundIsSolved
<1>5. /\ \A e \in 1..LastElement : parent[e] \in Elems /\ parent[e] < e /\ (e # 1 => parent[e] >= 1)
      /\ parent[1] = 0
  BY <1>1, TreeFacts
<1>6. Elements!Around = A
  BY <1>2 DEF Elements!Around
<1> QED
  BY <1>3, <1>4, <1>5, <1>6

\* A containing block is around the parent, and none is html or body.
LEMMA BlockFacts ==
    ASSUME TreeNow, NEW e \in 1..LastElement
    PROVE  \/ /\ Elements!ContainingBlock(e) \in Elements!Around[parent[e]]
              /\ Elements!ContainingBlock(e) \notin {0, 1}
              /\ Elements!Contains(Elements!ContainingBlock(e))
           \/ Elements!ContainingBlock(e) = -1 /\ treeStyle[e].position # "fixed"
           \/ Elements!ContainingBlock(e) = -2 /\ treeStyle[e].position = "fixed"
<1>1. Elements!Around[parent[e]] \subseteq Elems
  BY AroundNow
<1>2. \A a \in {0, 1} : ~treeStyle[a].transform /\ ~Elements!Contains(a)
  BY StyleFacts DEF Elements!Contains
<1>3. CASE treeStyle[e].position = "fixed"
  <2>1. PICK T : T = {a \in Elements!Around[parent[e]] : treeStyle[a].transform} /\ T \subseteq Elems
    BY <1>1
  <2>2. Elements!ContainingBlock(e) = Elements!Innermost(T, -2)
    BY <1>3, <2>1 DEF Elements!ContainingBlock
  <2>3. Elements!Innermost(T, -2) = -2 \/ Elements!Innermost(T, -2) \in T
    BY <2>1, InnermostFacts
  <2>4. \A a \in T : a \in Elements!Around[parent[e]] /\ a \notin {0, 1} /\ Elements!Contains(a)
    BY <1>2, <2>1 DEF Elements!Contains
  <2> QED
    BY <1>3, <2>2, <2>3, <2>4
<1>4. CASE treeStyle[e].position # "fixed"
  <2>1. PICK T : T = {a \in Elements!Around[parent[e]] : Elements!Contains(a)} /\ T \subseteq Elems
    BY <1>1
  <2>2. Elements!ContainingBlock(e) = Elements!Innermost(T, -1)
    BY <1>4, <2>1 DEF Elements!ContainingBlock
  <2>3. Elements!Innermost(T, -1) = -1 \/ Elements!Innermost(T, -1) \in T
    BY <2>1, InnermostFacts
  <2>4. \A a \in T : a \in Elements!Around[parent[e]] /\ a \notin {0, 1} /\ Elements!Contains(a)
    BY <1>2, <2>1
  <2> QED
    BY <1>4, <2>2, <2>3, <2>4
<1> QED
  BY <1>3, <1>4

\* That is an element with a smaller number.
LEMMA HolderFacts ==
    ASSUME TreeNow, NEW e \in 1..LastElement
    PROVE  /\ Holder(e) \in {-1, -2} \/ (Holder(e) \in Elements!Around[parent[e]])
           /\ Holder(e) \notin {-1, -2} => Holder(e) \in Elems /\ Holder(e) < e
           /\ Below(e) \in Int
<1>1. e \in Elems /\ parent[e] \in Elems /\ parent[e] < e /\ IsAround(Elements!Around, parent[e])
  BY AroundNow, StyleFacts
<1>2. \A a \in Elements!Around[parent[e]] : a \in Elems /\ a < e
  BY <1>1, StyleFacts DEF IsAround
<1>3. parent[e] \in Elements!Around[parent[e]]
  BY <1>1 DEF IsAround
<1>4. Holder(e) \in {-1, -2} \/ Holder(e) \in Elements!Around[parent[e]]
  BY <1>3, BlockFacts DEF Holder
<1>5. Below(e) \in Int
  BY <1>1, StyleFacts DEF Below, TreeNow
<1> QED
  BY <1>2, <1>4, <1>5

\* It depends on the tops of elements with smaller numbers alone.
LEMMA TopInFacts ==
    ASSUME TreeNow, NEW e \in Elems
    PROVE  /\ \A g \in [Elems -> Int] : TopIn(g, e) \in Int
           /\ \A g, h \in [Elems -> Int] : (\A j \in Elems : j < e => g[j] = h[j]) => TopIn(g, e) = TopIn(h, e)
<1>0. LastElement \in Nat /\ Elems = 0..LastElement /\ 0 \in Elems
  BY StyleFacts
<1>1. CASE e = 0
  <2>1. treeStyle[0].at \in Int /\ scroll[0] \in Int
    BY <1>0, StyleFacts
  <2> QED
    BY <1>1, <2>1 DEF TopIn
<1>2. CASE e # 0
  <2>1. e \in 1..LastElement
    BY <1>0, <1>2
  <2>2. PICK a : a = Holder(e)
    OBVIOUS
  <2>3. /\ a \notin {-1, -2} => a \in Elems /\ a < e
        /\ Below(e) \in Int
    BY <2>1, <2>2, HolderFacts
  <2>4. scroll[0] \in Int
    BY <1>0, StyleFacts
  <2>5. a \notin {-1, -2} => treeStyle[a].border \in Int /\ Elements!Scrolled(a) \in Int
    BY <2>3, StyleFacts DEF Elements!Scrolled
  <2>6. \A g \in [Elems -> Int] : WithinTop(g, a) \in Int
    BY <2>3, <2>4, <2>5 DEF WithinTop
  <2>7. ASSUME NEW g \in [Elems -> Int], NEW h \in [Elems -> Int], \A j \in Elems : j < e => g[j] = h[j]
        PROVE  WithinTop(g, a) = WithinTop(h, a)
    <3>1. a \notin {-1, -2} => g[a] = h[a]
      BY <2>3, <2>7
    <3> QED
      BY <3>1 DEF WithinTop
  <2>8. \A g : TopIn(g, e) = WithinTop(g, a) + Below(e)
    BY <1>2, <2>2 DEF TopIn
  <2> QED
    BY <2>3, <2>6, <2>7, <2>8
<1> QED
  BY <1>1, <1>2

\* What the recursion gives.
LEMMA ClientIsSolved ==
    ASSUME TreeNow
    PROVE  /\ Elements!Client \in [Elems -> Int]
           /\ \A e \in Elems : Elements!Client[e] = TopIn(Elements!Client, e)
<1> DEFINE n == LastElement
           H == [0..n -> Int]
           F == [x \in (0..n) \X H |-> TopIn(x[2], x[1])]
           Body(c, e) ==
             LET within(a) == CASE a = -1 -> -scroll[Elements!Html]
                                [] a = -2 -> 0
                                [] a = Elements!Html -> c[Elements!Html]
                                [] OTHER -> c[a] + treeStyle[a].border - Elements!Scrolled(a)
             IN  CASE e = Elements!Html -> treeStyle[Elements!Html].at - scroll[Elements!Html]
                   [] e # Elements!Html /\ treeStyle[e].position \in {"static", "relative"} ->
                        within(parent[e]) + treeStyle[e].at
                   [] e = PopperElement /\ treeStyle[e].position \in {"absolute", "fixed"} ->
                        within(Elements!ContainingBlock(e)) + top
                   [] e # PopperElement /\ treeStyle[e].position \in {"absolute", "fixed"} ->
                        within(Elements!ContainingBlock(e)) + treeStyle[e].at
<1>0. n \in Nat /\ Elems = 0..n /\ 0 \in Elems
  BY StyleFacts
<1>1. F \in Looks(Int, n)
  <2>1. \A k \in 0..n, h \in H : TopIn(h, k) \in Int
    BY <1>0, TopInFacts
  <2> QED
    BY <2>1 DEF Looks
<1>2. LooksBelow(F, Int, n)
  <2> SUFFICES ASSUME NEW k \in 0..n, NEW g \in H, NEW h \in H, \A j \in 0..n : j < k => g[j] = h[j]
               PROVE  F[<<k, g>>] = F[<<k, h>>]
    BY DEF LooksBelow
  <2>1. TopIn(g, k) = TopIn(h, k)
    BY <1>0, TopInFacts
  <2> QED
    BY <2>1
<1>3. PICK f \in H : \A k \in 0..n : f[k] = F[<<k, f>>]
  <2> HIDE DEF F
  <2>1. 0 \in Int
    OBVIOUS
  <2>2. \E f \in [0..n -> Int] : \A k \in 0..n : f[k] = F[<<k, f>>]
    <3> HIDE DEF n
    <3> QED
      BY <1>0, <1>1, <1>2, <2>1, RecursionIsSolved, SMTT(30)
  <2> QED
    BY <2>2
<1>4. \A k \in Elems : f[k] = TopIn(f, k)
  BY <1>0, <1>3
<1>5. ASSUME NEW c, NEW e \in Elems PROVE Body(c, e) = TopIn(c, e)
  <2>1. CASE e = 0
    <3>1. treeStyle[0].position = "static"
      BY StyleFacts
    <3>2. treeStyle[0].position \notin {"absolute", "fixed"}
      BY <3>1
    <3> QED
      BY <2>1, <3>2 DEF TopIn, Elements!Html
  <2>2. CASE e # 0
    <3>1. PICK a : a = Holder(e)
      OBVIOUS
    <3>2. TopIn(c, e) = WithinTop(c, a) + Below(e)
      BY <2>2, <3>1 DEF TopIn
    <3>3. WithinTop(c, a) = CASE a = -1 -> -scroll[Elements!Html]
                           [] a = -2 -> 0
                           [] a = Elements!Html -> c[Elements!Html]
                           [] OTHER -> c[a] + treeStyle[a].border - Elements!Scrolled(a)
      BY DEF WithinTop, Elements!Html
    <3>4. treeStyle[e].position \in Elements!Positions
      BY StyleFacts
    <3>5. CASE treeStyle[e].position \in {"static", "relative"}
      <4>1. a = parent[e] /\ Below(e) = treeStyle[e].at
        BY <3>1, <3>5 DEF Holder, Below
      <4>2. treeStyle[e].position \notin {"absolute", "fixed"}
        BY <3>5
      <4> QED
        BY <2>2, <3>2, <3>3, <3>5, <4>1, <4>2 DEF Elements!Html
    <3>6. CASE treeStyle[e].position \notin {"static", "relative"}
      <4>1. treeStyle[e].position \in {"absolute", "fixed"}
        BY <3>4, <3>6 DEF Elements!Positions
      <4>2. a = Elements!ContainingBlock(e) /\ Below(e) = IF e = PopperElement THEN top ELSE treeStyle[e].at
        BY <3>1, <3>6, <4>1 DEF Holder, Below
      <4> QED
        BY <2>2, <3>2, <3>3, <3>6, <4>1, <4>2 DEF Elements!Html
    <3> QED
      BY <3>5, <3>6
  <2> QED
    BY <2>1, <2>2
<1>6. PICK C : C = Elements!Client
  OBVIOUS
<1>7. C = [e \in Elements!Nodes |-> Body(C, e)]
  <2>1. f = [e \in Elements!Nodes |-> Body(f, e)]
    <3>1. \A e \in Elements!Nodes : f[e] = Body(f, e)
      <4> HIDE DEF Body
      <4> QED
        BY <1>4, <1>5 DEF Elems
    <3> HIDE DEF Body
    <3> QED
      BY <1>0, <3>1 DEF Elems
  <2>2. \E c : c = [e \in Elements!Nodes |-> Body(c, e)]
    <3> HIDE DEF Body
    <3> QED
      BY <2>1
  <2>3. C = CHOOSE c : c = [e \in Elements!Nodes |-> Body(c, e)]
    BY <1>6, Zenon DEF Elements!Client
  <2> HIDE DEF Body
  <2> QED
    BY <2>2, <2>3, Zenon
<1> HIDE DEF Body
<1>8. \A e \in Elems : C[e] = TopIn(C, e)
  BY <1>5, <1>7 DEF Elems
<1>9. \A e \in Elems : C[e] \in Int
  <2> DEFINE Bad == {e \in Elems : C[e] \notin Int}
  <2>1. ASSUME NEW m \in Bad, \A j \in Bad : m <= j PROVE FALSE
    <3>1. m \in Elems /\ \A j \in Elems : j < m => C[j] \in Int
      BY <1>0, <2>1
    <3> DEFINE g == [j \in Elems |-> IF j < m THEN C[j] ELSE 0]
    <3>2. g \in [Elems -> Int] /\ \A j \in Elems : j < m => g[j] = C[j]
      BY <3>1
    <3>3. TopIn(g, m) = TopIn(C, m)
      <4> HIDE DEF g
      <4>1. CASE m = 0
        BY <4>1 DEF TopIn
      <4>2. CASE m # 0
        <5>1. m \in 1..LastElement
          BY <1>0, <3>1, <4>2
        <5>2. PICK a : a = Holder(m)
          OBVIOUS
        <5>3. a \notin {-1, -2} => a \in Elems /\ a < m
          BY <5>1, <5>2, HolderFacts
        <5>4. WithinTop(g, a) = WithinTop(C, a)
          BY <3>2, <5>3 DEF WithinTop
        <5> QED
          BY <4>2, <5>2, <5>4 DEF TopIn
      <4> QED
        BY <4>1, <4>2
    <3>4. TopIn(g, m) \in Int
      <4> HIDE DEF g
      <4> QED
        BY <3>1, <3>2, TopInFacts
    <3> QED
      BY <1>8, <3>1, <3>3, <3>4
  <2>2. Bad \subseteq Nat
    BY <1>0
  <2>3. Bad = {}
    <3> HIDE DEF Bad
    <3> QED
      BY <2>1, <2>2, LeastNumber
  <2> QED
    BY <2>3
<1>10. C \in [Elems -> Int]
  BY <1>7, <1>9 DEF Elems
<1> QED
  BY <1>6, <1>8, <1>10

-----------------------------------------------------------------------------
(* Scroll parents.                                                         *)

\* The scroll parent is body, or the innermost element that scrolls.
LEMMA ScrollParentFacts ==
    ASSUME TreeNow, NEW e \in Elems
    PROVE  /\ \/ Elements!getScrollParent(e) = 1
              \/ /\ Elements!getScrollParent(e) \in Elements!Around[e]
                 /\ Elements!getScrollParent(e) \notin {0, 1}
                 /\ treeStyle[Elements!getScrollParent(e)].scrolls
           /\ \A a \in Elements!Around[e] : a # 0 /\ treeStyle[a].scrolls =>
                 a <= Elements!getScrollParent(e) /\ Elements!getScrollParent(e) # 1
<1>1. PICK T : T = {a \in Elements!Around[e] : a = 1 \/ (a # 0 /\ treeStyle[a].scrolls)}
  OBVIOUS
<1>2. Elements!getScrollParent(e) = Elements!Innermost(T, 1)
  BY <1>1 DEF Elements!getScrollParent, Elements!Html, Elements!Body
<1>3. T \subseteq Elems /\ ~treeStyle[1].scrolls /\ Elems = 0..LastElement /\ LastElement \in Nat
  BY <1>1, AroundNow, StyleFacts
<1>4. Elements!Innermost(T, 1) = 1 \/ Elements!Innermost(T, 1) \in T
  BY <1>3, InnermostFacts
<1>5. \A a \in T : a <= Elements!Innermost(T, 1)
  BY <1>3, InnermostFacts
<1>6. ASSUME NEW a \in Elements!Around[e], a # 0, treeStyle[a].scrolls
      PROVE  a <= Elements!Innermost(T, 1) /\ Elements!Innermost(T, 1) # 1
  <2>1. a \in T /\ a \in 0..LastElement /\ a # 1
    BY <1>1, <1>3, <1>6
  <2>2. a <= Elements!Innermost(T, 1)
    BY <1>5, <2>1
  <2> QED
    BY <1>3, <1>6, <2>1, <2>2
<1> QED
  BY <1>1, <1>2, <1>4, <1>6

\* It is the element itself if that scrolls, and else the one of its parent.
LEMMA ScrollParentOf ==
    ASSUME TreeNow, NEW e \in 2..LastElement
    PROVE  /\ treeStyle[e].scrolls => Elements!getScrollParent(e) = e
           /\ ~treeStyle[e].scrolls => Elements!getScrollParent(e) = Elements!getScrollParent(parent[e])
<1>0. LastElement \in Nat /\ Elems = 0..LastElement /\ e \in Elems /\ e \in 1..LastElement
  BY StyleFacts
<1>1. Elements!Around[e] = {e} \cup Elements!Around[parent[e]] /\ IsAround(Elements!Around, e)
  BY <1>0, AroundNow
<1>2. CASE treeStyle[e].scrolls
  <2>1. e \in Elements!Around[e] /\ \A a \in Elements!Around[e] : a \in Elems /\ a <= e
    BY <1>1 DEF IsAround
  <2>2. e <= Elements!getScrollParent(e) /\ Elements!getScrollParent(e) \in Elements!Around[e]
    BY <1>0, <1>2, <2>1, ScrollParentFacts
  <2> QED
    BY <1>0, <1>2, <2>1, <2>2
<1>3. CASE ~treeStyle[e].scrolls
  <2>1. {a \in Elements!Around[e] : a = 1 \/ (a # 0 /\ treeStyle[a].scrolls)}
          = {a \in Elements!Around[parent[e]] : a = 1 \/ (a # 0 /\ treeStyle[a].scrolls)}
    BY <1>0, <1>1, <1>3
  <2> QED
    BY <1>3, <2>1, Zenon DEF Elements!getScrollParent, Elements!Html, Elements!Body
<1> QED
  BY <1>2, <1>3

\* Popper listens to html, and to what scrolls around the reference.
LEMMA AttachFacts ==
    ASSUME TreeNow
    PROVE  /\ 0 \in Elements!attachToScrollParents
           /\ \A a \in Elements!attachToScrollParents :
                 a = 0 \/ (a \in Elems \ {0, 1} /\ treeStyle[a].scrolls)
           /\ \A a \in Elements!Around[Reference] :
                 a # 0 /\ treeStyle[a].scrolls => a \in Elements!attachToScrollParents
<1>0. /\ LastElement \in Nat /\ Elems = 0..LastElement /\ Reference \in 2..LastElement /\ Reference \in Elems
      /\ ~treeStyle[1].scrolls
  <2>1. Reference \in 2..LastElement
    BY TreeFacts DEF TreeNow
  <2> QED
    BY <2>1, StyleFacts
<1>1. Elements!attachToScrollParents =
         {IF a = 1 THEN 0 ELSE a : a \in {Elements!getScrollParent(b) : b \in Elements!Around[Reference]}}
  BY Zenon DEF Elements!attachToScrollParents, Elements!Html, Elements!Body
<1>2. IsAround(Elements!Around, Reference) /\ Elements!Around[0] = {0}
  BY <1>0, AroundNow
<1>3. 0 \in Elements!attachToScrollParents
  <2>1. 0 \in Elements!Around[Reference] /\ 0 \in Elems
    BY <1>0, <1>2 DEF IsAround
  <2>2. Elements!getScrollParent(0) = 1
    BY <1>2, <2>1, ScrollParentFacts
  <2> QED
    BY <1>1, <2>1, <2>2
<1>4. ASSUME NEW a \in Elements!attachToScrollParents
      PROVE  a = 0 \/ (a \in Elems \ {0, 1} /\ treeStyle[a].scrolls)
  <2>1. PICK b \in Elements!Around[Reference] :
            a = IF Elements!getScrollParent(b) = 1 THEN 0 ELSE Elements!getScrollParent(b)
    BY <1>1
  <2>2. b \in Elems /\ Elements!Around[b] \subseteq Elems
    BY <1>2, AroundNow DEF IsAround
  <2> QED
    BY <2>1, <2>2, ScrollParentFacts
<1>5. ASSUME NEW a \in Elements!Around[Reference], a # 0, treeStyle[a].scrolls
      PROVE  a \in Elements!attachToScrollParents
  <2>1. a \in 2..LastElement
    BY <1>0, <1>2, <1>5 DEF IsAround
  <2>2. Elements!getScrollParent(a) = a
    BY <1>5, <2>1, ScrollParentOf
  <2> QED
    BY <1>1, <2>1, <2>2
<1> QED
  BY <1>3, <1>4, <1>5

-----------------------------------------------------------------------------
(* Offset parents, and the one that the popper and its reference share.    *)

\* What is around the popper.
LEMMA PopperFacts ==
    ASSUME TreeNow, NEW c, c = parent[PopperElement]
    PROVE  /\ c \in 1..LastElement /\ c \in Elems /\ PopperElement \in 2..LastElement /\ PopperElement \in Elems
           /\ Reference \in 2..LastElement /\ parent[Reference] \in 1..LastElement
           /\ c \in Elements!Around[parent[Reference]]
           /\ Elements!Around[c] \subseteq Elements!Around[parent[Reference]]
           /\ Elements!Around[parent[Reference]] \subseteq Elements!Around[Reference]
           /\ PopperElement \notin Elements!Around[Reference]
           /\ Elements!Around[PopperElement] \cap Elements!Around[Reference] = Elements!Around[c]
           /\ \A a \in Elements!Around[c] : ~treeStyle[a].hidden /\ a <= c /\ a \in Elems
           /\ Reference \notin Elements!Around[parent[Reference]]
<1>1. /\ Reference \in 2..LastElement /\ PopperElement \in 2..LastElement
      /\ c \in Elements!Around[parent[Reference]] /\ PopperElement \notin Elements!Around[Reference]
  BY TreeFacts DEF TreeNow, Elements!Around
<1>2. LastElement \in Nat /\ Elems = 0..LastElement
  BY StyleFacts
<1>3. PICK r \in Elems : r = parent[Reference] /\ r < Reference /\ r >= 1
  <2>1. Reference \in 1..LastElement /\ Reference # 1
    BY <1>1, <1>2
  <2> QED
    BY <2>1, AroundNow
<1>4. c \in Elems /\ c >= 1
  <2>1. PopperElement \in 1..LastElement /\ PopperElement # 1
    BY <1>1, <1>2
  <2> QED
    BY <2>1, AroundNow
<1>5. /\ Elements!Around[PopperElement] = {PopperElement} \cup Elements!Around[c]
      /\ Elements!Around[Reference] = {Reference} \cup Elements!Around[r]
  <2>1. PopperElement \in 1..LastElement /\ Reference \in 1..LastElement
    BY <1>1, <1>2
  <2> QED
    BY <1>3, <2>1, AroundNow
<1>6. IsAround(Elements!Around, r) /\ IsAround(Elements!Around, c)
  BY <1>4, AroundNow
<1>7. Elements!Around[c] \subseteq Elements!Around[r] /\ \A a \in Elements!Around[r] : a \in Elems /\ a <= r
  BY <1>1, <1>3, <1>6 DEF IsAround
<1>8. \A a \in Elements!Around[c] : a \in Elems /\ a <= c
  BY <1>6 DEF IsAround
<1>9. \A a \in Elements!Around[c] : ~treeStyle[a].hidden
  BY <1>5, StyleFacts DEF Elements!Around
<1> QED
  BY <1>1, <1>2, <1>3, <1>4, <1>5, <1>7, <1>8, <1>9

\* The elements around e that may be offset parents, and the innermost of them.
Candidates(e) == {a \in Elements!Around[e] : a = 1 \/ Elements!Contains(a)}

\* The innermost of them.
Nearest(e) == Elements!Innermost(Candidates(e), 0)

\* It is one of them, and inside of all the others.
LEMMA NearestFacts ==
    ASSUME TreeNow, NEW e \in 1..LastElement
    PROVE  /\ Nearest(e) \in Candidates(e) /\ Nearest(e) # 0 /\ Nearest(e) \in Elems
           /\ \A a \in Candidates(e) : a <= Nearest(e)
<1>0. e \in Elems /\ e # 0 /\ LastElement \in Nat /\ Elems = 0..LastElement
  BY StyleFacts
<1>1. IsAround(Elements!Around, e) /\ Elements!Around[e] \subseteq Elems
  BY <1>0, AroundNow
<1>2. 1 \in Candidates(e)
  BY <1>0, <1>1 DEF IsAround, Candidates
<1>3. Candidates(e) \subseteq Elems
  BY <1>1 DEF Candidates
<1>4. Nearest(e) \in Candidates(e) /\ \A a \in Candidates(e) : a <= Nearest(e)
  BY <1>2, <1>3, InnermostFacts DEF Nearest
<1>5. 1 <= Nearest(e)
  BY <1>2, <1>4
<1> QED
  BY <1>3, <1>4, <1>5

\* The offset parent of an element.
LEMMA OffsetParentFacts ==
    ASSUME TreeNow, NEW e \in 1..LastElement
    PROVE  /\ e # 1 /\ ~treeStyle[e].hidden /\ treeStyle[e].position # "fixed" =>
                Elements!offsetParent(e) = Nearest(parent[e])
           /\ Elements!offsetParent(e) # 0 => e # 1 /\ Elements!offsetParent(e) = Nearest(parent[e])
BY Zenon DEF Elements!offsetParent, Nearest, Candidates, Elements!Html, Elements!Body

\* The document for body.
OrHtml(a) == IF a = 1 THEN 0 ELSE a

\* The offset parent of an element beside which, from it on, there is one that has it.
LEMMA SiblingsHaveIt ==
    ASSUME TreeNow, NEW c \in 1..LastElement, NEW e \in 1..LastElement, parent[e] = c,
           NEW u \in 1..LastElement, parent[u] = c, e <= u, u # 1, ~treeStyle[u].hidden,
           treeStyle[u].position # "fixed"
    PROVE  Elements!getOffsetParent(e) = OrHtml(Nearest(c))
<1>0. LastElement \in Nat /\ Elems = 0..LastElement
  BY StyleFacts
<1>1. PICK W : W = {s \in {i \in Elements!Nodes \ {0} : i >= e /\ parent[i] = parent[e]} :
                       Elements!offsetParent(s) # 0}
  OBVIOUS
<1>2. \A s \in W : s \in 1..LastElement /\ s \in Nat /\ parent[s] = c /\ Elements!offsetParent(s) # 0
  BY <1>0, <1>1 DEF Elems
<1>3. \A s \in W : Elements!offsetParent(s) = Nearest(c)
  BY <1>2, OffsetParentFacts
<1>4. u \in W
  <2>1. Elements!offsetParent(u) = Nearest(c) /\ Nearest(c) # 0
    BY OffsetParentFacts, NearestFacts
  <2>2. u \in Elements!Nodes /\ u # 0 /\ u >= e
    BY <1>0 DEF Elems
  <2> QED
    BY <1>1, <2>1, <2>2
<1>5. \E s \in W : \A i \in W : s <= i
  <2>1. W \subseteq Nat /\ W # {}
    BY <1>2, <1>4
  <2> QED
    BY <2>1, LeastNumber
<1>6. PICK m \in W : m = CHOOSE s \in W : \A i \in W : s <= i
  BY <1>5
<1>7. Elements!getOffsetParent(e) = IF Elements!offsetParent(m) = 1 THEN 0 ELSE Elements!offsetParent(m)
  <2>1. W # {}
    BY <1>4
  <2> DEFINE V == {s \in {i \in Elements!Nodes \ {0} : i >= e /\ parent[i] = parent[e]} :
                      Elements!offsetParent(s) # 0}
             found == IF V = {} THEN 0 ELSE Elements!offsetParent(CHOOSE s \in V : \A i \in V : s <= i)
  <2>2. Elements!getOffsetParent(e) = IF found = 1 THEN 0 ELSE found
    BY Zenon DEF Elements!getOffsetParent, Elements!Html, Elements!Body
  <2>3. V = W
    BY <1>1
  <2> HIDE DEF V
  <2>4. found = Elements!offsetParent(m)
    BY <1>6, <2>1, <2>3, Zenon
  <2> QED
    BY <2>2, <2>4
<1> QED
  BY <1>3, <1>6, <1>7 DEF OrHtml

\* The common offset parent of the popper and its reference.
LEMMA CommonFacts ==
    ASSUME TreeNow, NEW c, c = parent[PopperElement], treeStyle[PopperElement].position # "fixed"
    PROVE  Elements!findCommonOffsetParent = OrHtml(Nearest(c))
<1>0. LastElement \in Nat /\ Elems = 0..LastElement
  BY StyleFacts
<1>1. /\ c \in 1..LastElement /\ c \in Elems /\ PopperElement \in 2..LastElement
      /\ PopperElement \in 1..LastElement /\ PopperElement # 1
      /\ \A a \in Elements!Around[c] : ~treeStyle[a].hidden /\ a <= c /\ a \in Elems
  BY <1>0, PopperFacts
<1>2. c \in Elements!Around[c] /\ Elements!Around[c] \subseteq Elems
  <2>1. IsAround(Elements!Around, c)
    BY <1>1, AroundNow
  <2> QED
    BY <1>1, <2>1 DEF IsAround
<1>3. Elements!Innermost(Elements!Around[PopperElement] \cap Elements!Around[Reference], 0) = c
  <2>1. Elements!Around[PopperElement] \cap Elements!Around[Reference] = Elements!Around[c]
    BY PopperFacts
  <2>2. Elements!Innermost(Elements!Around[c], 0) = c
    BY <1>1, <1>2, InnermostIs
  <2> QED
    BY <2>1, <2>2
<1>4. Elements!findCommonOffsetParent = IF Elements!isOffsetContainer(c) THEN c ELSE Elements!getOffsetParent(c)
  BY <1>3, Zenon DEF Elements!findCommonOffsetParent, Elements!Html
<1>5. ~treeStyle[PopperElement].hidden
  <2>1. PopperElement \in Elements!Around[PopperElement]
    <3>1. PopperElement \in Elems
      BY <1>0, <1>1
    <3> QED
      BY <3>1, AroundNow DEF IsAround
  <2> QED
    BY <2>1, StyleFacts DEF Elements!Around
<1>6. CASE c = 1
  <2>1. ~Elements!isOffsetContainer(c)
    BY <1>6 DEF Elements!isOffsetContainer, Elements!Html, Elements!Body
  <2>2. Elements!getOffsetParent(c) = 0
    <3>1. PICK W : W = {s \in {i \in Elements!Nodes \ {0} : i >= c /\ parent[i] = parent[c]} :
                           Elements!offsetParent(s) # 0}
      OBVIOUS
    <3>2. W = {}
      <4> SUFFICES ASSUME NEW s \in W PROVE FALSE
        OBVIOUS
      <4>1. s \in 1..LastElement /\ parent[s] = parent[1] /\ Elements!offsetParent(s) # 0
        BY <1>0, <1>6, <3>1 DEF Elems
      <4>2. s # 1
        BY <4>1, OffsetParentFacts
      <4>3. parent[s] >= 1 /\ parent[1] = 0
        BY <4>1, <4>2, AroundNow
      <4> QED
        BY <4>1, <4>3
    <3> QED
      BY <3>1, <3>2, Zenon DEF Elements!getOffsetParent, Elements!Html, Elements!Body
  <2>3. Nearest(c) = 1
    <3>1. Nearest(c) \in Candidates(c) /\ Nearest(c) # 0
      BY <1>1, NearestFacts
    <3>2. Nearest(c) \in Elems /\ Nearest(c) <= 1
      BY <1>1, <1>6, <3>1 DEF Candidates
    <3> QED
      BY <1>0, <3>1, <3>2
  <2> QED
    BY <1>4, <2>1, <2>2, <2>3 DEF OrHtml
<1>7. CASE c # 1
  <2>1. PICK K : K = {i \in Elements!Nodes \ {0} : parent[i] = c}
    OBVIOUS
  <2>2. PopperElement \in K /\ K \subseteq Nat /\ \A i \in K : i \in 1..LastElement
    BY <1>0, <1>1, <2>1 DEF Elems
  <2>3. PICK f \in K : (f = CHOOSE i \in K : \A j \in K : i <= j) /\ \A j \in K : f <= j
    <3>1. \E i \in K : \A j \in K : i <= j
      BY <2>2, LeastNumber
    <3> QED
      BY <3>1
  <2>4. Elements!getOffsetParent(f) = OrHtml(Nearest(c))
    <3>1. f \in 1..LastElement /\ parent[f] = c /\ f <= PopperElement
      BY <2>1, <2>2, <2>3
    <3> QED
      BY <1>1, <1>5, <3>1, SiblingsHaveIt
  <2>5. c # 0
    BY <1>0, <1>1
  <2>6. Elements!isOffsetContainer(c) <=> Elements!getOffsetParent(f) = c
    BY <1>7, <2>1, <2>2, <2>3, <2>5, Zenon DEF Elements!isOffsetContainer, Elements!Html, Elements!Body
  <2>7. CASE OrHtml(Nearest(c)) = c
    BY <1>4, <2>4, <2>6, <2>7
  <2>8. CASE OrHtml(Nearest(c)) # c
    <3>1. ~Elements!Contains(c)
      <4> SUFFICES ASSUME Elements!Contains(c) PROVE FALSE
        OBVIOUS
      <4>1. c \in Candidates(c)
        BY <1>2 DEF Candidates
      <4>2. c <= Nearest(c) /\ Nearest(c) \in Candidates(c)
        BY <1>1, <4>1, NearestFacts
      <4>3. Nearest(c) <= c /\ Nearest(c) \in Elems
        BY <1>1, <4>2 DEF Candidates
      <4>4. Nearest(c) = c
        BY <1>0, <1>1, <4>2, <4>3
      <4> QED
        BY <1>7, <2>8, <4>4 DEF OrHtml
    <3>2. treeStyle[c].position # "fixed" /\ ~treeStyle[c].hidden
      <4>1. treeStyle[c].position = "static"
        BY <3>1 DEF Elements!Contains
      <4> QED
        BY <1>1, <1>2, <4>1
    <3>3. PICK p \in 1..LastElement : p = parent[c] /\ Elements!Around[c] = {c} \cup Elements!Around[p]
      <4>1. parent[c] \in Elems /\ parent[c] >= 1
        BY <1>1, <1>7, AroundNow
      <4> QED
        BY <1>0, <1>1, <4>1, AroundNow
    <3>4. Elements!getOffsetParent(c) = OrHtml(Nearest(p))
      <4>1. c <= c
        BY <1>0, <1>1
      <4> QED
        BY <1>1, <1>7, <3>2, <3>3, <4>1, SiblingsHaveIt
    <3>5. Candidates(c) = Candidates(p)
      BY <1>7, <3>1, <3>3 DEF Candidates
    <3> QED
      BY <1>4, <2>4, <2>6, <2>8, <3>4, <3>5 DEF Nearest
  <2> QED
    BY <2>7, <2>8
<1> QED
  BY <1>6, <1>7

\* It is the element that the browser places the popper in.
LEMMA CommonContains ==
    ASSUME TreeNow
    PROVE  Elements!OffsetParentContains
<1>0. LastElement \in Nat /\ Elems = 0..LastElement
  BY StyleFacts
<1>1. PICK c : c = parent[PopperElement]
  OBVIOUS
<1>2. c \in 1..LastElement /\ PopperElement \in 1..LastElement
  BY <1>0, <1>1, PopperFacts
<1>3. Elements!Around[c] \subseteq Elems
  BY <1>0, <1>2, AroundNow
<1>4. CASE treeStyle[PopperElement].position = "fixed"
  <2>1. PICK T : T = {a \in Elements!Around[c] : treeStyle[a].transform}
    OBVIOUS
  <2>2. Elements!ContainingBlock(PopperElement) = Elements!Innermost(T, -2)
    BY <1>1, <1>4, <2>1, Zenon DEF Elements!ContainingBlock
  <2>3. Elements!commonOffsetParent = Elements!Innermost(T, 0)
    BY <1>1, <1>4, <2>1, Zenon DEF Elements!commonOffsetParent, Elements!fixedPosition,
          Elements!getFixedPositionOffsetParent, Elements!Html
  <2>4. T \subseteq Elems
    BY <1>3, <2>1
  <2>5. CASE T = {}
    <3>1. Elements!Innermost(T, -2) = -2 /\ Elements!Innermost(T, 0) = 0
      BY <2>4, <2>5, InnermostFacts
    <3> QED
      BY <2>2, <2>3, <3>1 DEF Elements!OffsetParentContains, Elements!Html
  <2>6. CASE T # {}
    <3>1. Elements!Innermost(T, -2) \in T /\ \A b \in T : b <= Elements!Innermost(T, -2)
      BY <2>4, <2>6, InnermostFacts
    <3>2. PICK m \in T : m = Elements!Innermost(T, -2) /\ \A b \in T : b <= m
      BY <3>1
    <3>3. Elements!Innermost(T, 0) = m
      BY <2>4, <3>2, InnermostIs
    <3>4. ~(m < 0)
      BY <1>0, <2>4
    <3> QED
      BY <2>2, <2>3, <3>2, <3>3, <3>4 DEF Elements!OffsetParentContains, Elements!Html
  <2> QED
    BY <2>5, <2>6
<1>5. CASE treeStyle[PopperElement].position # "fixed"
  <2>1. PICK T : T = {a \in Elements!Around[c] : Elements!Contains(a)}
    OBVIOUS
  <2>2. Elements!ContainingBlock(PopperElement) = Elements!Innermost(T, -1)
    BY <1>1, <1>5, <2>1, Zenon DEF Elements!ContainingBlock
  <2>3. Elements!commonOffsetParent = OrHtml(Nearest(c))
    <3>1. Elements!findCommonOffsetParent = OrHtml(Nearest(c))
      BY <1>1, <1>5, CommonFacts
    <3> QED
      BY <1>5, <3>1, Zenon DEF Elements!commonOffsetParent, Elements!fixedPosition
  <2>4. T \subseteq Elems /\ T \subseteq Candidates(c)
    BY <1>3, <2>1 DEF Candidates
  <2>5. Nearest(c) \in Candidates(c) /\ Nearest(c) # 0 /\ Nearest(c) \in Elems
        /\ \A a \in Candidates(c) : a <= Nearest(c)
    BY <1>2, NearestFacts
  <2>6. ~Elements!Contains(0) /\ ~Elements!Contains(1)
    BY StyleFacts DEF Elements!Contains
  <2>7. CASE Nearest(c) = 1
    <3>1. T = {}
      <4> SUFFICES ASSUME NEW a \in T PROVE FALSE
        OBVIOUS
      <4>1. a \in 0..LastElement /\ a <= 1 /\ Elements!Contains(a)
        BY <1>0, <2>1, <2>4, <2>5, <2>7
      <4> QED
        BY <1>0, <2>6, <4>1
    <3>2. Elements!Innermost(T, -1) = -1
      BY <2>4, <3>1, InnermostFacts
    <3> QED
      BY <2>2, <2>3, <2>7, <3>2 DEF Elements!OffsetParentContains, Elements!Html, OrHtml
  <2>8. CASE Nearest(c) # 1
    <3>1. Nearest(c) \in T
      BY <2>1, <2>5, <2>8 DEF Candidates
    <3>2. PICK m \in T : m = Nearest(c) /\ \A b \in T : b <= m
      BY <2>4, <2>5, <3>1
    <3>3. Elements!Innermost(T, -1) = m
      BY <2>4, <3>2, InnermostIs
    <3>4. ~(m < 0)
      BY <1>0, <2>4
    <3> QED
      BY <2>2, <2>3, <2>8, <3>2, <3>3, <3>4 DEF Elements!OffsetParentContains, Elements!Html, OrHtml
  <2> QED
    BY <2>7, <2>8
<1> QED
  BY <1>4, <1>5

\* The offset parent is html, or the containing block, an element around the reference.
LEMMA CommonIs ==
    ASSUME TreeNow, NEW op, op = Elements!commonOffsetParent,
           NEW cb, cb = Elements!ContainingBlock(PopperElement)
    PROVE  \/ cb = -1 /\ ~Elements!fixedPosition /\ op = 0
           \/ cb = -2 /\ Elements!fixedPosition /\ op = 0
           \/ /\ cb = op /\ op \in 2..LastElement /\ op \in Elems
              /\ op \in Elements!Around[parent[Reference]]
<1>0. LastElement \in Nat /\ Elems = 0..LastElement
  BY StyleFacts
<1>1. PICK c : c = parent[PopperElement]
  OBVIOUS
<1>2. /\ PopperElement \in 1..LastElement /\ Elements!Around[c] \subseteq Elements!Around[parent[Reference]]
      /\ Elements!Around[c] \subseteq Elems
  BY <1>0, <1>1, PopperFacts
<1>3. op = IF cb < 0 THEN 0 ELSE cb
  BY CommonContains DEF Elements!OffsetParentContains, Elements!Html
<1>4. \/ cb \in Elements!Around[c] /\ cb \notin {0, 1}
      \/ cb = -1 /\ treeStyle[PopperElement].position # "fixed"
      \/ cb = -2 /\ treeStyle[PopperElement].position = "fixed"
  BY <1>1, <1>2, BlockFacts
<1>5. CASE cb \in Elements!Around[c] /\ cb \notin {0, 1}
  <2>1. cb \in 2..LastElement /\ cb \in Elems /\ ~(cb < 0)
    BY <1>0, <1>2, <1>5
  <2> QED
    BY <1>2, <1>3, <1>5, <2>1
<1>6. CASE cb \notin Elements!Around[c] \/ cb \in {0, 1}
  BY <1>3, <1>4, <1>6 DEF Elements!fixedPosition
<1> QED
  BY <1>5, <1>6

\* Where the popper is: below what its top counts from.
LEMMA PopperTop ==
    ASSUME TreeNow, NEW cb, cb = Elements!ContainingBlock(PopperElement)
    PROVE  Elements!Client[PopperElement] = WithinTop(Elements!Client, cb) + top
<1>1. PopperElement \in Elems /\ PopperElement # 0
  <2>1. PopperElement \in 2..LastElement /\ PopperElement \in Elems
    BY PopperFacts
  <2> QED
    BY <2>1
<1>2. treeStyle[PopperElement].position \in {"absolute", "fixed"}
  BY StyleFacts
<1>3. treeStyle[PopperElement].position \notin {"static", "relative"}
  BY <1>2
<1>4. Holder(PopperElement) = cb /\ Below(PopperElement) = top
  BY <1>2, <1>3 DEF Holder, Below
<1> QED
  BY <1>1, <1>4, ClientIsSolved DEF TopIn

-----------------------------------------------------------------------------
(* The top that the popper gets, and its boundaries.                       *)

\* An offset, in numbers: the top of an element inside of the padding box of another.
LEMMA OffsetOf ==
    ASSUME TreeNow, NEW child \in Elems, NEW op \in Elems
    PROVE  /\ op # 0 /\ op # 1 => \A fixed :
                Elements!getOffsetRectRelativeToArbitraryNode(child, op, fixed)
                  = Elements!Client[child] - Elements!Client[op] - treeStyle[op].border
                      + (IF op = Elements!getScrollParent(child) THEN scroll[op] ELSE 0)
           /\ Elements!getOffsetRectRelativeToArbitraryNode(child, 0, FALSE)
                = Elements!Client[child] - Elements!Client[0] + treeStyle[0].at
           /\ Elements!Client[0] <= 0 => \A fixed : fixed =>
                Elements!getOffsetRectRelativeToArbitraryNode(child, 0, fixed)
                  = Elements!Client[child] + treeStyle[0].at
<1>0. LastElement \in Nat /\ Elems = 0..LastElement /\ 0 \in Elems
  BY StyleFacts
<1>1. /\ Elements!Client[child] \in Int /\ Elements!Client[op] \in Int /\ Elements!Client[0] \in Int
      /\ treeStyle[op].border \in Int /\ treeStyle[0].at \in Int /\ scroll[op] \in Int
  BY <1>0, ClientIsSolved, StyleFacts
<1>2. Elements!getScrollParent(child) # 0
  BY ScrollParentFacts
<1>3. ASSUME op # 0, op # 1, NEW fixed
      PROVE  Elements!getOffsetRectRelativeToArbitraryNode(child, op, fixed)
               = Elements!Client[child] - Elements!Client[op] - treeStyle[op].border
                   + (IF op = Elements!getScrollParent(child) THEN scroll[op] ELSE 0)
  BY <1>1, <1>3 DEF Elements!getOffsetRectRelativeToArbitraryNode, Elements!Html, Elements!Body
<1>4. Elements!getOffsetRectRelativeToArbitraryNode(child, 0, FALSE)
        = Elements!Client[child] - Elements!Client[0] + treeStyle[0].at
  BY <1>1, <1>2 DEF Elements!getOffsetRectRelativeToArbitraryNode, Elements!Html, Elements!Body
<1>5. ASSUME Elements!Client[0] <= 0, NEW fixed, fixed
      PROVE  Elements!getOffsetRectRelativeToArbitraryNode(child, 0, fixed)
               = Elements!Client[child] + treeStyle[0].at
  <2>1. (IF fixed /\ 0 = Elements!Html /\ Elements!Client[Elements!Html] < 0 THEN 0 ELSE Elements!Client[0]) = 0
    BY <1>1, <1>5 DEF Elements!Html
  <2> QED
    BY <1>1, <1>2, <2>1 DEF Elements!getOffsetRectRelativeToArbitraryNode, Elements!Html, Elements!Body
<1> QED
  BY <1>3, <1>4, <1>5

\* A popper whose top is what was computed is on its reference.
LEMMA PutOnReference ==
    ASSUME TreeNow, top = Elements!getReferenceOffsets, ~Elements!Nested, scroll[0] >= 0
    PROVE  Elements!Client[PopperElement] = Elements!Client[Reference]
<1>0. LastElement \in Nat /\ Elems = 0..LastElement /\ 0 \in Elems
  BY StyleFacts
<1>1. PICK op : op = Elements!commonOffsetParent
  OBVIOUS
<1>2. PICK cb : cb = Elements!ContainingBlock(PopperElement)
  OBVIOUS
<1>3. Reference \in Elems
  <2>1. Reference \in 2..LastElement
    BY PopperFacts
  <2> QED
    BY <1>0, <2>1
<1>4. /\ Elements!Client[Reference] \in Int /\ Elements!Client[0] \in Int /\ treeStyle[0].at \in Int
      /\ scroll[0] \in Int /\ top \in Int
      /\ Elements!Client[0] = treeStyle[0].at - scroll[0]
  BY <1>0, <1>3, ClientIsSolved, StyleFacts DEF TopIn, TreeNow
<1>5. top = Elements!getOffsetRectRelativeToArbitraryNode(Reference, op, Elements!fixedPosition)
  BY <1>1 DEF Elements!getReferenceOffsets
<1>6. Elements!Client[PopperElement] = WithinTop(Elements!Client, cb) + top
  BY <1>2, PopperTop
<1>7. CASE cb = -1 /\ ~Elements!fixedPosition /\ op = 0
  <2>1. Elements!getOffsetRectRelativeToArbitraryNode(Reference, 0, FALSE)
          = Elements!Client[Reference] - Elements!Client[0] + treeStyle[0].at
    BY <1>0, <1>3, OffsetOf
  <2>2. Elements!fixedPosition = FALSE
    BY <1>7 DEF Elements!fixedPosition
  <2>3. top = Elements!Client[Reference] - Elements!Client[0] + treeStyle[0].at
    BY <1>5, <1>7, <2>1, <2>2
  <2>4. WithinTop(Elements!Client, cb) = -scroll[0]
    BY <1>7 DEF WithinTop
  <2> QED
    BY <1>4, <1>6, <2>3, <2>4
<1>8. CASE cb = -2 /\ Elements!fixedPosition /\ op = 0
  <2>1. treeStyle[0].at = 0
    BY <1>1, <1>8 DEF Elements!Nested, Elements!Html
  <2>2. Elements!Client[0] <= 0
    BY <1>4, <2>1
  <2>3. top = Elements!Client[Reference] + treeStyle[0].at
    BY <1>0, <1>3, <1>5, <1>8, <2>2, OffsetOf
  <2>4. WithinTop(Elements!Client, cb) = 0
    BY <1>8 DEF WithinTop
  <2> QED
    BY <1>4, <1>6, <2>1, <2>3, <2>4
<1>9. CASE cb = op /\ op \in 2..LastElement /\ op \in Elems
  <2>1. top = Elements!Client[Reference] - Elements!Client[op] - treeStyle[op].border
                + (IF op = Elements!getScrollParent(Reference) THEN scroll[op] ELSE 0)
    <3>1. PICK fixed : top = Elements!getOffsetRectRelativeToArbitraryNode(Reference, op, fixed)
      BY <1>5, Zenon
    <3>2. op # 0 /\ op # 1
      BY <1>9
    <3>3. Elements!getOffsetRectRelativeToArbitraryNode(Reference, op, fixed)
            = Elements!Client[Reference] - Elements!Client[op] - treeStyle[op].border
                + (IF op = Elements!getScrollParent(Reference) THEN scroll[op] ELSE 0)
      BY <1>3, <1>9, <3>2, OffsetOf
    <3> QED
      BY <3>1, <3>3
  <2>2. WithinTop(Elements!Client, cb) = Elements!Client[op] + treeStyle[op].border - Elements!Scrolled(op)
    BY <1>9 DEF WithinTop
  <2>3. Elements!Scrolled(op) = IF op = Elements!getScrollParent(Reference) THEN scroll[op] ELSE 0
    <3>1. CASE op = Elements!getScrollParent(Reference)
      <4>1. treeStyle[op].scrolls
        BY <1>3, <1>9, <3>1, ScrollParentFacts
      <4> QED
        BY <3>1, <4>1 DEF Elements!Scrolled
    <3>2. CASE op # Elements!getScrollParent(Reference)
      <4>1. ~treeStyle[op].scrolls
        BY <1>1, <1>9, <3>2 DEF Elements!Nested, Elements!Html
      <4> QED
        BY <3>2, <4>1 DEF Elements!Scrolled
    <3> QED
      BY <3>1, <3>2
  <2>4. Elements!Client[op] \in Int /\ treeStyle[op].border \in Int /\ scroll[op] \in Int
    BY <1>9, ClientIsSolved, StyleFacts
  <2> QED
    BY <1>4, <1>6, <2>1, <2>2, <2>3, <2>4
<1> QED
  BY <1>1, <1>2, <1>7, <1>8, <1>9, CommonIs

\* Where the padding box of the common offset parent, or the document, begins.
Origin ==
    CASE Elements!ContainingBlock(PopperElement) = -1 -> -scroll[Elements!Html]
      [] Elements!ContainingBlock(PopperElement) = -2 -> 0
      [] OTHER -> Elements!Client[Elements!commonOffsetParent]
                    + treeStyle[Elements!commonOffsetParent].border
                    - Elements!Scrolled(Elements!commonOffsetParent)

\* The top of a child inside of a node, for a popper that is not fixed.
Rel(child, node) == Elements!getOffsetRectRelativeToArbitraryNode(child, node, FALSE)

\* That, by case.
LEMMA RelOf ==
    ASSUME TreeNow, NEW child \in Elems, NEW op \in Elems
    PROVE  /\ op # 0 /\ op # 1 =>
                Rel(child, op) = Elements!Client[child] - Elements!Client[op] - treeStyle[op].border
                                   + (IF op = Elements!getScrollParent(child) THEN scroll[op] ELSE 0)
           /\ Rel(child, 0) = Elements!Client[child] - Elements!Client[0] + treeStyle[0].at
<1>1. PICK no : no = FALSE
  BY Zenon
<1>2. \A node : Rel(child, node) = Elements!getOffsetRectRelativeToArbitraryNode(child, node, no)
  BY <1>1, Zenon DEF Rel
<1>3. op # 0 /\ op # 1 => \A fixed :
         Elements!getOffsetRectRelativeToArbitraryNode(child, op, fixed)
           = Elements!Client[child] - Elements!Client[op] - treeStyle[op].border
               + (IF op = Elements!getScrollParent(child) THEN scroll[op] ELSE 0)
  BY OffsetOf
<1>4. Elements!getOffsetRectRelativeToArbitraryNode(child, 0, no)
        = Elements!Client[child] - Elements!Client[0] + treeStyle[0].at
  BY <1>1, OffsetOf, Zenon
<1> QED
  BY <1>2, <1>3, <1>4

\* The boundaries, by case.
LEMMA BoundariesAre ==
    ASSUME NEW op, op = Elements!commonOffsetParent, Elements!fixedPosition = FALSE,
           NEW found, found = Elements!getScrollParent(parent[Reference])
    PROVE  /\ Elements!getBoundaries("viewport") = Elements!getViewportOffset(op)
           /\ found # 0 /\ found # 1 => Elements!getBoundaries("scrollParent")
                = Rel(found, op)
           /\ found = 1 /\ Elements!isFixed(op) => Elements!getBoundaries("scrollParent")
                = Rel(0, op)
           /\ found = 1 /\ ~Elements!isFixed(op) => Elements!getBoundaries("scrollParent")
                = Rel(0, op)
                    - IF op = 0 THEN treeStyle[0].at ELSE 0
<1>1. "viewport" # "scrollParent"
  OBVIOUS
<1>2. PICK node : node = IF found = 1 THEN 0 ELSE found
  OBVIOUS
<1>3. PICK rect : rect = Rel(node, op)
  OBVIOUS
<1>4. \A b : Elements!getBoundaries(b) =
              CASE b = "viewport" -> Elements!getViewportOffset(op)
                [] b = "scrollParent" /\ node = 0 /\ ~Elements!isFixed(op) ->
                     rect - IF op = 0 THEN treeStyle[0].at ELSE 0
                [] b = "scrollParent" /\ (node # 0 \/ Elements!isFixed(op)) -> rect
  BY <1>2, <1>3, Zenon DEF Rel, Elements!getBoundaries, Elements!Html, Elements!Body
<1> QED
  BY <1>1, <1>2, <1>3, <1>4

\* Boundaries are where the window shows them.
LEMMA InView ==
    ASSUME TreeNow
    PROVE  Elements!BoundariesInView
<1>0. LastElement \in Nat /\ Elems = 0..LastElement /\ 0 \in Elems
  BY StyleFacts
<1>1. PICK op : op = Elements!commonOffsetParent
  OBVIOUS
<1>2. PICK cb : cb = Elements!ContainingBlock(PopperElement)
  OBVIOUS
<1>3. PICK scroller : scroller = Elements!getScrollParent(parent[Reference])
  OBVIOUS
<1> SUFFICES ASSUME ~Elements!Nested, ~Elements!fixedPosition
             PROVE  /\ op = 0 => Origin + Elements!getBoundaries("viewport") = 0
                    /\ scroller # 1 =>
                         Origin + Elements!getBoundaries("scrollParent") = Elements!Client[scroller]
                    /\ scroller = 1 =>
                         Origin + Elements!getBoundaries("scrollParent") \in {Elements!Client[0], -scroll[0]}
  BY <1>1, <1>3, Zenon DEF Elements!BoundariesInView, Origin, Elements!Html, Elements!Body
<1>4. Elements!fixedPosition = FALSE
  BY DEF Elements!fixedPosition
<1>5. /\ \A e \in Elems : Elements!Client[e] \in Int /\ treeStyle[e].border \in Int /\ scroll[e] \in Int
                          /\ Elements!Scrolled(e) \in Int
      /\ treeStyle[0].at \in Int /\ Elements!Client[0] = treeStyle[0].at - scroll[0]
  BY <1>0, ClientIsSolved, StyleFacts DEF TopIn, Elements!Scrolled
<1>6. /\ parent[Reference] \in Elems /\ Reference \in 2..LastElement
      /\ Elements!Around[parent[Reference]] \subseteq Elems /\ Reference \notin Elements!Around[parent[Reference]]
  <2>1. parent[Reference] \in 1..LastElement
    BY PopperFacts
  <2>2. parent[Reference] \in Elems
    BY <1>0, <2>1
  <2> QED
    BY <2>2, PopperFacts, AroundNow
<1>7. \/ scroller = 1
      \/ scroller \in 2..LastElement /\ scroller \in Elems /\ treeStyle[scroller].scrolls
         /\ Elements!getScrollParent(scroller) = scroller
  <2>1. CASE scroller = 1
    BY <2>1
  <2>2. CASE scroller # 1
    <3>1. scroller \in Elems /\ scroller \notin {0, 1} /\ treeStyle[scroller].scrolls
      BY <1>3, <1>6, <2>2, ScrollParentFacts
    <3>2. scroller \in 2..LastElement
      BY <1>0, <3>1
    <3> QED
      BY <3>1, <3>2, ScrollParentOf
  <2> QED
    BY <2>1, <2>2
<1>8. CASE cb = -1 /\ op = 0
  <2>1. Origin = -scroll[0]
    BY <1>2, <1>8 DEF Origin, Elements!Html
  <2>2. ASSUME NEW e \in Elems
        PROVE  Rel(e, 0)
                 = Elements!Client[e] - Elements!Client[0] + treeStyle[0].at
    BY <1>0, RelOf
  <2>3. Elements!getBoundaries("viewport") = scroll[0]
    <3>1. Elements!getViewportOffset(0) = scroll[0] - Rel(0, 0)
                                            + treeStyle[0].at
      BY <1>4, Zenon DEF Rel, Elements!getViewportOffset, Elements!Html
    <3>2. Rel(0, 0)
            = Elements!Client[0] - Elements!Client[0] + treeStyle[0].at
      BY <1>0, <2>2
    <3>3. Elements!getViewportOffset(0) = scroll[0]
      BY <1>0, <1>5, <3>1, <3>2
    <3> QED
      BY <1>1, <1>4, <1>8, <3>3, BoundariesAre
  <2>4. CASE scroller = 1
    <3>1. Rel(0, 0)
            = Elements!Client[0] - Elements!Client[0] + treeStyle[0].at
      BY <1>0, <2>2
    <3>2. ~Elements!isFixed(0)
      <4>1. Elements!Around[0] = {0} /\ treeStyle[0].position = "static"
        BY AroundNow, StyleFacts
      <4> QED
        BY <4>1 DEF Elements!isFixed
    <3>3. Elements!getBoundaries("scrollParent")
            = Rel(0, 0) - treeStyle[0].at
      BY <1>1, <1>3, <1>4, <1>8, <2>4, <3>2, BoundariesAre
    <3>4. Origin + Elements!getBoundaries("scrollParent") = -scroll[0]
      BY <1>0, <1>5, <2>1, <3>1, <3>3
    <3> QED
      BY <1>0, <1>5, <2>1, <2>3, <2>4, <3>4
  <2>5. CASE scroller # 1
    <3>1. Rel(scroller, 0)
            = Elements!Client[scroller] - Elements!Client[0] + treeStyle[0].at
      BY <1>7, <2>2, <2>5
    <3>2. Elements!getBoundaries("scrollParent")
            = Rel(scroller, 0)
      <4>1. scroller # 0
        BY <1>7, <2>5
      <4> QED
        BY <1>1, <1>3, <1>4, <1>8, <2>5, <4>1, BoundariesAre
    <3>3. Elements!Client[scroller] \in Int
      BY <1>5, <1>7, <2>5
    <3>4. Origin + Elements!getBoundaries("scrollParent") = Elements!Client[scroller]
      BY <1>0, <1>5, <2>1, <3>1, <3>2, <3>3
    <3> QED
      BY <1>0, <1>5, <2>1, <2>3, <2>5, <3>4
  <2> QED
    BY <2>4, <2>5
<1>9. CASE cb = op /\ op \in 2..LastElement /\ op \in Elems /\ op \in Elements!Around[parent[Reference]]
  <2>1. Origin = Elements!Client[op] + treeStyle[op].border - Elements!Scrolled(op)
    <3>1. cb # -1 /\ cb # -2
      BY <1>0, <1>9
    <3> QED
      BY <1>1, <1>2, <3>1 DEF Origin
  <2>2. op # 0 /\ op # 1 /\ op # Reference
    BY <1>0, <1>6, <1>9
  <2>3. ASSUME NEW e \in Elems
        PROVE  Rel(e, op)
                 = Elements!Client[e] - Elements!Client[op] - treeStyle[op].border
                     + (IF op = Elements!getScrollParent(e) THEN scroll[op] ELSE 0)
    BY <1>9, <2>2, RelOf
  <2>4. Elements!getScrollParent(Reference) \in {Reference, scroller}
    BY <1>3, <1>6, ScrollParentOf
  <2>5. op # scroller => Elements!Scrolled(op) = 0
    <3> SUFFICES ASSUME op # scroller PROVE Elements!Scrolled(op) = 0
      OBVIOUS
    <3>1. ~treeStyle[op].scrolls
      BY <1>1, <2>2, <2>4 DEF Elements!Nested, Elements!Html
    <3> QED
      BY <3>1 DEF Elements!Scrolled
  <2>6. CASE scroller = 1
    <3>1. Elements!getScrollParent(0) # op
      <4>1. Elements!getScrollParent(0) = 1 \/ Elements!getScrollParent(0) \in Elements!Around[0] \ {0}
        BY <1>0, ScrollParentFacts
      <4>2. Elements!Around[0] = {0}
        BY AroundNow
      <4> QED
        BY <2>2, <4>1, <4>2
    <3>2. Rel(0, op)
            = Elements!Client[0] - Elements!Client[op] - treeStyle[op].border
      BY <1>0, <1>5, <1>9, <2>3, <3>1
    <3>3. Rel(0, op) \in Int
      BY <1>0, <1>5, <1>9, <3>2, SMTT(30)
    <3>4. Elements!getBoundaries("scrollParent") = Rel(0, op)
      <4>1. CASE Elements!isFixed(op)
        BY <1>1, <1>3, <1>4, <2>6, <4>1, BoundariesAre
      <4>2. CASE ~Elements!isFixed(op)
        <5>1. Elements!getBoundaries("scrollParent") = Rel(0, op) - IF op = 0 THEN treeStyle[0].at ELSE 0
          BY <1>1, <1>3, <1>4, <2>6, <4>2, BoundariesAre
        <5> QED
          BY <2>2, <3>3, <5>1
      <4> QED
        BY <4>1, <4>2
    <3>5. Elements!Scrolled(op) = 0
      BY <2>2, <2>5, <2>6
    <3>6. Origin + Elements!getBoundaries("scrollParent") = Elements!Client[0]
      BY <1>0, <1>5, <1>9, <2>1, <3>2, <3>4, <3>5
    <3> QED
      BY <2>2, <2>6, <3>6
  <2>7. CASE scroller # 1
    <3>1. Rel(scroller, op)
            = Elements!Client[scroller] - Elements!Client[op] - treeStyle[op].border
                + (IF op = scroller THEN scroll[op] ELSE 0)
      BY <1>7, <2>3, <2>7
    <3>2. Elements!getBoundaries("scrollParent")
            = Rel(scroller, op)
      <4>1. scroller # 0
        BY <1>7, <2>7
      <4> QED
        BY <1>1, <1>3, <1>4, <2>7, <4>1, BoundariesAre
    <3>3. Elements!Scrolled(op) = IF op = scroller THEN scroll[op] ELSE 0
      <4>1. op = scroller => treeStyle[op].scrolls
        BY <1>7, <2>7
      <4>2. op = scroller => Elements!Scrolled(op) = scroll[op]
        BY <4>1 DEF Elements!Scrolled
      <4> QED
        BY <2>5, <4>2
    <3>4. Elements!Client[scroller] \in Int
      BY <1>5, <1>7, <2>7
    <3>5. Origin + Elements!getBoundaries("scrollParent") = Elements!Client[scroller]
      BY <1>0, <1>5, <1>9, <2>1, <3>1, <3>2, <3>3, <3>4, SMTT(30)
    <3> QED
      BY <2>2, <2>7, <3>5
  <2> QED
    BY <2>6, <2>7
<1> QED
  BY <1>1, <1>2, <1>8, <1>9, CommonIs

-----------------------------------------------------------------------------
(* The invariant of Elements: what does not change while nothing around    *)
(* the reference does.                                                     *)

\* That the tops are the solution of the recursion, now and after a step.
ClientSolved ==
    /\ Elements!Client \in [Elems -> Int]
    /\ \A e \in Elems : Elements!Client[e] = TopIn(Elements!Client, e)

LEMMA ClientNow == TreeNow => ClientSolved
BY ClientIsSolved DEF ClientSolved

LEMMA ClientNext == TreeNow' => ClientSolved'
BY ClientNow, PTL

\* Nothing that the offsets of the reference depend on changes.
SameAround ==
    /\ parent' = parent /\ treeStyle' = treeStyle
    /\ \A e \in Elements!Around[Reference] : scroll'[e] = scroll[e]

\* Tops of what is around the reference.
LEMMA SameTops ==
    ASSUME TreeNow, TreeNow', SameAround
    PROVE  \A e \in Elements!Around[Reference] : Elements!Client'[e] = Elements!Client[e]
<1>0. LastElement \in Nat /\ Elems = 0..LastElement /\ 0 \in Elems /\ Reference \in Elems
  <2>1. Reference \in 2..LastElement
    BY PopperFacts
  <2> QED
    BY <2>1, StyleFacts
<1>1. parent' = parent /\ treeStyle' = treeStyle /\ \A e \in Elements!Around[Reference] : scroll'[e] = scroll[e]
  BY DEF SameAround
<1>2. PICK A : A = Elements!Around
  OBVIOUS
<1>3. IsAround(A, Reference) /\ A[Reference] \subseteq Elems /\ PopperElement \notin A[Reference]
      /\ \A e \in Elems : IsAround(A, e)
  BY <1>0, <1>2, AroundNow, PopperFacts
<1>4. 0 \in A[Reference]
  BY <1>3 DEF IsAround
<1>5. \A e \in Elems : Elements!Client[e] = TopIn(Elements!Client, e)
  BY ClientIsSolved
<1>6. \A e \in Elems : Elements!Client'[e] = TopIn(Elements!Client, e)'
  BY ClientNext DEF ClientSolved
<1> DEFINE Bad == {e \in A[Reference] : Elements!Client'[e] # Elements!Client[e]}
<1>7. ASSUME NEW m \in Bad, \A j \in Bad : m <= j PROVE FALSE
  <2>1. m \in A[Reference] /\ m \in Elems /\ Elements!Client'[m] # Elements!Client[m]
    BY <1>3
  <2>2. CASE m = 0
    <3>1. Elements!Client[0] = treeStyle[0].at - scroll[0]
      BY <1>0, <1>5 DEF TopIn
    <3>2. Elements!Client'[0] = treeStyle'[0].at - scroll'[0]
      BY <1>0, <1>6 DEF TopIn
    <3> QED
      BY <1>1, <1>2, <1>4, <2>1, <2>2, <3>1, <3>2
  <2>3. CASE m # 0
    <3>1. PICK a : a = Holder(m)
      OBVIOUS
    <3>2. m \in 1..LastElement
      BY <1>0, <2>1, <2>3
    <3>3. /\ a \in {-1, -2} \/ a \in A[parent[m]]
          /\ a \notin {-1, -2} => a \in Elems /\ a < m
      BY <1>2, <3>1, <3>2, HolderFacts
    <3>4. A[parent[m]] \subseteq A[m] /\ A[m] \subseteq A[Reference]
      <4>1. A[m] = {m} \cup A[parent[m]]
        BY <1>2, <3>2, AroundNow
      <4>2. A[m] \subseteq A[Reference]
        BY <1>3, <2>1 DEF IsAround
      <4> QED
        BY <4>1, <4>2
    <3>5. a \notin {-1, -2} => a \in A[Reference] /\ Elements!Client'[a] = Elements!Client[a] /\ scroll'[a] = scroll[a]
      <4> SUFFICES ASSUME a \notin {-1, -2}
                   PROVE  a \in A[Reference] /\ Elements!Client'[a] = Elements!Client[a] /\ scroll'[a] = scroll[a]
        OBVIOUS
      <4>1. a \in A[Reference] /\ a \in Elems /\ a < m
        BY <3>3, <3>4
      <4>2. ~(m <= a)
        BY <1>0, <2>1, <4>1
      <4>3. a \notin Bad
        BY <1>7, <4>2
      <4> QED
        BY <1>1, <1>2, <4>1, <4>3
    <3>6. Holder(m)' = a
      BY <1>1, <3>1 DEF Holder, Elements!ContainingBlock, Elements!Contains, Elements!Around
    <3>7. m # PopperElement
      BY <1>3, <2>1
    <3>8. Below(m)' = Below(m)
      BY <1>1, <3>7 DEF Below
    <3>9. Elements!Client[m] = WithinTop(Elements!Client, a) + Below(m)
      BY <1>5, <2>1, <2>3, <3>1 DEF TopIn
    <3>10. Elements!Client'[m] = WithinTop(Elements!Client, Holder(m))' + Below(m)'
      BY <1>6, <2>1, <2>3 DEF TopIn
    <3>11. WithinTop(Elements!Client, Holder(m))'
             = IF a = -1 THEN -scroll'[0] ELSE IF a = -2 THEN 0 ELSE IF a = 0 THEN Elements!Client'[0]
               ELSE Elements!Client'[a] + treeStyle'[a].border - Elements!Scrolled(a)'
      BY <3>6 DEF WithinTop
    <3>12. a \notin {-1, -2} => Elements!Scrolled(a)' = Elements!Scrolled(a)
      BY <1>1, <3>5 DEF Elements!Scrolled
    <3>13. scroll'[0] = scroll[0]
      BY <1>1, <1>2, <1>4
    <3>14. WithinTop(Elements!Client, Holder(m))' = WithinTop(Elements!Client, a)
      BY <1>1, <3>5, <3>11, <3>12, <3>13 DEF WithinTop
    <3> QED
      BY <2>1, <3>8, <3>9, <3>10, <3>14
  <2> QED
    BY <2>2, <2>3
<1>8. Bad \subseteq Nat
  BY <1>0, <1>3
<1>9. Bad = {}
  <2> HIDE DEF Bad
  <2> QED
    BY <1>7, <1>8, LeastNumber
<1> QED
  BY <1>2, <1>9

\* Whether an offset parent contains an element, now and after a step.
LEMMA ContainsNow == TreeNow => Elements!OffsetParentContains
BY CommonContains

LEMMA ContainsNext == TreeNow' => Elements!OffsetParentContains'
BY ContainsNow, PTL

LEMMA SameScrollParents ==
    ASSUME SameAround
    PROVE  /\ \A b : Elements!getScrollParent(b)' = Elements!getScrollParent(b)
           /\ Elements!attachToScrollParents' = Elements!attachToScrollParents
<1>1. parent' = parent /\ treeStyle' = treeStyle
  BY DEF SameAround
<1>2. Elements!Around' = Elements!Around
  BY <1>1 DEF Elements!Around
<1>3. ASSUME NEW b PROVE Elements!getScrollParent(b)' = Elements!getScrollParent(b)
  BY <1>1, <1>2 DEF Elements!getScrollParent
<1>4. Elements!attachToScrollParents' = Elements!attachToScrollParents
  BY <1>2, <1>3 DEF Elements!attachToScrollParents
<1> QED
  BY <1>3, <1>4

\* The offsets of the reference.
LEMMA SameOffsets ==
    ASSUME TreeNow, TreeNow', SameAround
    PROVE  Elements!getReferenceOffsets' = Elements!getReferenceOffsets
<1>0. /\ LastElement \in Nat /\ Elems = 0..LastElement /\ 0 \in Elems /\ Reference \in 2..LastElement
      /\ Reference \in Elems
  <2>1. Reference \in 2..LastElement
    BY PopperFacts
  <2> QED
    BY <2>1, StyleFacts
<1>1. parent' = parent /\ treeStyle' = treeStyle /\ \A e \in Elements!Around[Reference] : scroll'[e] = scroll[e]
  BY DEF SameAround
<1>2. PICK op : op = Elements!commonOffsetParent
  OBVIOUS
<1>3. PICK cb : cb = Elements!ContainingBlock(PopperElement)
  OBVIOUS
<1>4. Elements!ContainingBlock(PopperElement)' = cb
  BY <1>1, <1>3 DEF Elements!ContainingBlock, Elements!Contains, Elements!Around
<1>5. op = IF cb < 0 THEN 0 ELSE cb
  BY <1>2, <1>3, CommonContains DEF Elements!OffsetParentContains, Elements!Html
<1>6. Elements!commonOffsetParent' = op
  <2>1. Elements!OffsetParentContains'
    BY ContainsNext
  <2>2. Elements!commonOffsetParent' = IF cb < 0 THEN 0 ELSE cb
    BY <1>4, <2>1 DEF Elements!OffsetParentContains, Elements!Html
  <2> QED
    BY <1>5, <2>2
<1>7. op \in Elements!Around[Reference]
  <2>1. 0 \in Elements!Around[Reference]
    BY <1>0, AroundNow DEF IsAround
  <2>2. Elements!Around[parent[Reference]] \subseteq Elements!Around[Reference]
    BY PopperFacts
  <2> QED
    BY <1>2, <2>1, <2>2, CommonIs
<1>8. /\ Elements!Client'[op] = Elements!Client[op] /\ scroll'[op] = scroll[op]
      /\ Elements!Client'[0] = Elements!Client[0]
      /\ Elements!Client'[Reference] = Elements!Client[Reference]
  <2>1. 0 \in Elements!Around[Reference] /\ Reference \in Elements!Around[Reference]
    BY <1>0, AroundNow DEF IsAround
  <2> QED
    BY <1>1, <1>7, <2>1, SameTops
<1>9. Elements!fixedPosition' = Elements!fixedPosition
  BY <1>1 DEF Elements!fixedPosition
<1>10. Elements!getScrollParent(Reference)' = Elements!getScrollParent(Reference)
  BY SameScrollParents
<1> QED
  BY <1>1, <1>2, <1>6, <1>8, <1>9, <1>10
     DEF Elements!getReferenceOffsets, Elements!getOffsetRectRelativeToArbitraryNode,
         Elements!Html, Elements!Body

\* The offset is a number.
LEMMA OffsetsNumber ==
    ASSUME TreeNow
    PROVE  Elements!getReferenceOffsets \in Int
<1>0. LastElement \in Nat /\ Elems = 0..LastElement /\ 0 \in Elems /\ Reference \in Elems
  <2>1. Reference \in 2..LastElement
    BY PopperFacts
  <2> QED
    BY <2>1, StyleFacts
<1>1. PICK op \in Elems : op = Elements!commonOffsetParent
  <2>1. PICK op, cb : op = Elements!commonOffsetParent /\ cb = Elements!ContainingBlock(PopperElement)
    OBVIOUS
  <2> QED
    BY <1>0, <2>1, CommonIs
<1>2. /\ Elements!Client[Reference] \in Int /\ Elements!Client[op] \in Int /\ Elements!Client[0] \in Int
      /\ treeStyle[op].border \in Int /\ treeStyle[0].at \in Int /\ scroll[op] \in Int
  BY <1>0, ClientIsSolved, StyleFacts
<1>3. PICK fixed : Elements!getReferenceOffsets
                     = Elements!getOffsetRectRelativeToArbitraryNode(Reference, op, fixed)
  BY <1>1, Zenon DEF Elements!getReferenceOffsets
<1> QED
  BY <1>2, <1>3 DEF Elements!getOffsetRectRelativeToArbitraryNode, Elements!Html, Elements!Body

\* Elements that do not scroll are not scrolled.
Rests == \A e \in 1..LastElement : ~treeStyle[e].scrolls => scroll[e] = 0

\* The inductive invariant.  Until the elements around it change, the popper listens to
\* all that scrolls around its reference; if no update is due, its top is the one that an
\* update would compute now.
ElementsState ==
    /\ TreeNow /\ scroll \in [Elems -> 0..MaxScroll] /\ Rests
    /\ due \in BOOLEAN /\ restyled \in BOOLEAN
    /\ treeListening = scrollParents
    /\ scrollParents \subseteq Elems \ {1} /\ (scrollParents # {} => 0 \in scrollParents)
    /\ scrollParents # {} /\ ~restyled => scrollParents = Elements!attachToScrollParents
    /\ scrollParents # {} /\ ~restyled /\ ~due => top = Elements!getReferenceOffsets

\* What the assumptions say.
LEMMA ElementsBounds ==
    /\ MaxScroll \in Nat /\ 0 \in 0..MaxScroll /\ 0..MaxScroll \subseteq Int
    /\ Restyled \subseteq (2..LastElement) \ {Reference, PopperElement}
    /\ \A par \in Parents : Elements!IsTree(par) /\ \A s \in Styles : Elements!IsStyle(s, par)
BY PositioningAssumption DEF Elements!ConstantsAssumption

\* It holds at the start ...
LEMMA ElementsInit == Elements!Init => ElementsState
<1> SUFFICES ASSUME Elements!Init PROVE ElementsState
  OBVIOUS
<1>1. /\ parent \in Parents /\ treeStyle \in Styles /\ scroll = [e \in Elems |-> 0] /\ top = 0
      /\ treeListening = {} /\ scrollParents = {} /\ due = FALSE /\ restyled = FALSE
  BY DEF Elements!Init, Elems
<1>2. Elements!IsTree(parent) /\ Elements!IsStyle(treeStyle, parent)
  BY <1>1, ElementsBounds
<1>3. scroll \in [Elems -> 0..MaxScroll] /\ scroll \in [Elems -> Int] /\ top \in Int
  BY <1>1, ElementsBounds
<1>4. TreeNow
  BY <1>1, <1>2, <1>3 DEF TreeNow
<1>5. Rests
  BY <1>1, PositioningAssumption DEF Rests, Elems, Elements!Nodes, Elements!ConstantsAssumption
<1> QED
  BY <1>1, <1>3, <1>4, <1>5 DEF ElementsState

\* A style in which one element of the page begins or ceases to scroll.
LEMMA RestyledStyle ==
    ASSUME TreeNow, NEW e \in Restyled, treeStyle' = [treeStyle EXCEPT ![e].scrolls = ~@], parent' = parent
    PROVE  Elements!IsStyle(treeStyle', parent')
<1>1. /\ treeStyle \in [Elems -> [position : Elements!Positions, transform : BOOLEAN, scrolls : BOOLEAN,
                                  hidden : BOOLEAN, border : Nat, at : Int]]
      /\ \A i \in {0, 1} : treeStyle[i].position = "static" /\ ~treeStyle[i].transform
      /\ ~treeStyle[1].scrolls
      /\ treeStyle[PopperElement].position \in {"absolute", "fixed"}
      /\ \A a \in Elements!AroundIn(parent)[PopperElement] : ~treeStyle[a].hidden
  BY Zenon DEF TreeNow, Elements!IsStyle, Elems, Elements!Html, Elements!Body
<1>2. e \in 2..LastElement /\ e # PopperElement /\ e \in Elems
  BY ElementsBounds, StyleFacts
<1>3. PICK s : s = treeStyle[e]
  OBVIOUS
<1>4. s \in [position : Elements!Positions, transform : BOOLEAN, scrolls : BOOLEAN,
             hidden : BOOLEAN, border : Nat, at : Int]
  BY <1>1, <1>2, <1>3
<1>5. PICK b \in BOOLEAN : b = ~s.scrolls
  OBVIOUS
<1>6. PICK t \in [position : Elements!Positions, transform : BOOLEAN, scrolls : BOOLEAN,
                  hidden : BOOLEAN, border : Nat, at : Int] :
          t = [s EXCEPT !.scrolls = b]
  BY <1>4
<1>7. t.position = s.position /\ t.transform = s.transform /\ t.hidden = s.hidden
  BY <1>4, <1>6
<1>8. treeStyle' = [treeStyle EXCEPT ![e] = t]
  BY <1>3, <1>5, <1>6, Zenon
<1>9. /\ treeStyle' \in [Elems -> [position : Elements!Positions, transform : BOOLEAN, scrolls : BOOLEAN,
                                   hidden : BOOLEAN, border : Nat, at : Int]]
      /\ \A i \in Elems : i # e => treeStyle'[i] = treeStyle[i]
      /\ treeStyle'[e] = t
  BY <1>1, <1>2, <1>8
<1>10. \A i \in Elems : treeStyle'[i].hidden = treeStyle[i].hidden
  BY <1>3, <1>7, <1>9
<1>11. 0 \in Elems /\ 1 \in Elems /\ PopperElement \in Elems
       /\ Elements!AroundIn(parent)[PopperElement] \subseteq Elems
  <2>1. PopperElement \in Elems /\ PopperElement \in 2..LastElement
    BY PopperFacts
  <2>2. Elements!AroundIn(parent) \in [Elems -> SUBSET Elems]
    BY AroundNow DEF Elements!Around
  <2> QED
    BY <2>1, <2>2, StyleFacts
<1>12. /\ \A i \in {0, 1} : treeStyle'[i].position = "static" /\ ~treeStyle'[i].transform
       /\ ~treeStyle'[1].scrolls
       /\ treeStyle'[PopperElement].position \in {"absolute", "fixed"}
  BY <1>1, <1>2, <1>9, <1>11
<1>13. \A a \in Elements!AroundIn(parent)[PopperElement] : ~treeStyle'[a].hidden
  BY <1>1, <1>10, <1>11
<1> QED
  BY <1>9, <1>12, <1>13, Zenon DEF Elements!IsStyle, Elems, Elements!Html, Elements!Body

\* As long as nothing around the reference changes, what an update computes does not either.
LEMMA StillRight ==
    ASSUME TreeNow, TreeNow', SameAround
    PROVE  /\ Elements!getReferenceOffsets' = Elements!getReferenceOffsets
           /\ Elements!attachToScrollParents' = Elements!attachToScrollParents
BY SameOffsets, SameScrollParents

\* ... and after every step.
LEMMA ElementsStep == ElementsState /\ [Elements!Next]_(Elements!vars) => ElementsState'
<1> SUFFICES ASSUME ElementsState, [Elements!Next]_(Elements!vars) PROVE ElementsState'
  OBVIOUS
<1>0. /\ TreeNow /\ scroll \in [Elems -> 0..MaxScroll] /\ Rests
      /\ due \in BOOLEAN /\ restyled \in BOOLEAN
      /\ treeListening = scrollParents
      /\ scrollParents \subseteq Elems \ {1} /\ (scrollParents # {} => 0 \in scrollParents)
      /\ (scrollParents # {} /\ ~restyled => scrollParents = Elements!attachToScrollParents)
      /\ (scrollParents # {} /\ ~restyled /\ ~due => top = Elements!getReferenceOffsets)
  BY DEF ElementsState
<1>t. parent \in Parents /\ Elements!IsTree(parent) /\ Elements!IsStyle(treeStyle, parent) /\ top \in Int
  BY <1>0 DEF TreeNow
<1>i. \A s \in [Elems -> 0..MaxScroll] : s \in [Elems -> Int]
  BY ElementsBounds
<1>1. CASE Elements!setupEventListeners
  <2>1. /\ scrollParents' = Elements!attachToScrollParents
        /\ treeListening' = treeListening \cup scrollParents' /\ treeListening = {}
        /\ top' = Elements!getReferenceOffsets /\ due' = FALSE /\ restyled' = FALSE
        /\ parent' = parent /\ treeStyle' = treeStyle /\ scroll' = scroll
    BY <1>1 DEF Elements!setupEventListeners
  <2>2. top' \in Int
    BY <1>0, <2>1, OffsetsNumber
  <2>3. TreeNow'
    BY <1>0, <2>1, <2>2 DEF TreeNow
  <2>4. SameAround
    BY <2>1 DEF SameAround
  <2>5. /\ Elements!getReferenceOffsets' = Elements!getReferenceOffsets
        /\ Elements!attachToScrollParents' = Elements!attachToScrollParents
    BY <1>0, <2>3, <2>4, StillRight
  <2>6. scrollParents' \subseteq Elems \ {1} /\ 0 \in scrollParents'
    <3>1. 0 \in Elems
      BY <1>0, StyleFacts
    <3> QED
      BY <1>0, <2>1, <3>1, AttachFacts
  <2>7. Rests'
    BY <1>0, <2>1 DEF Rests
  <2> QED
    BY <1>0, <2>1, <2>3, <2>5, <2>6, <2>7 DEF ElementsState
<1>2. CASE Elements!removeEventListeners
  <2>1. /\ treeListening' = treeListening \ scrollParents /\ scrollParents' = {}
        /\ top' = top /\ due' = due /\ restyled' = restyled
        /\ parent' = parent /\ treeStyle' = treeStyle /\ scroll' = scroll
    BY <1>2 DEF Elements!removeEventListeners
  <2>2. TreeNow' /\ Rests'
    BY <1>0, <2>1 DEF TreeNow, Rests
  <2>3. treeListening' = scrollParents'
    BY <1>0, <2>1
  <2> QED
    BY <1>0, <2>1, <2>2, <2>3 DEF ElementsState
<1>3. ASSUME NEW e \in Elements!Nodes, NEW y \in 0..MaxScroll, Elements!Scroll(e, y)
      PROVE  ElementsState'
  <2>1. /\ e = 0 \/ treeStyle[e].scrolls
        /\ scroll' = [scroll EXCEPT ![e] = y]
        /\ due' = (due \/ e \in treeListening)
        /\ top' = top /\ treeListening' = treeListening /\ scrollParents' = scrollParents
        /\ restyled' = restyled /\ parent' = parent /\ treeStyle' = treeStyle
    BY <1>3 DEF Elements!Scroll, Elements!Html
  <2>2. scroll' \in [Elems -> 0..MaxScroll] /\ \A i \in Elems : i # e => scroll'[i] = scroll[i]
    BY <1>0, <2>1
  <2>3. TreeNow'
    BY <1>i, <1>t, <2>1, <2>2 DEF TreeNow
  <2>4. Rests'
    <3> SUFFICES ASSUME NEW i \in 1..LastElement, ~treeStyle'[i].scrolls PROVE scroll'[i] = 0
      BY DEF Rests
    <3>1. i \in Elems /\ i # 0
      BY <1>0, StyleFacts
    <3>2. i # e
      BY <2>1, <3>1
    <3> QED
      BY <1>0, <2>1, <2>2, <3>1, <3>2 DEF Rests
  <2>5. due' \in BOOLEAN
    BY <2>1
  <2>6. Elements!attachToScrollParents' = Elements!attachToScrollParents
    <3>1. Elements!Around' = Elements!Around
      BY <2>1 DEF Elements!Around
    <3>2. \A b : Elements!getScrollParent(b)' = Elements!getScrollParent(b)
      BY <2>1, <3>1 DEF Elements!getScrollParent
    <3> QED
      BY <3>1, <3>2 DEF Elements!attachToScrollParents
  <2>7. ASSUME scrollParents # {}, ~restyled, ~due'
        PROVE  top' = Elements!getReferenceOffsets'
    <3>1. ~due /\ e \notin Elements!attachToScrollParents
      BY <1>0, <2>1, <2>7
    <3>2. e \notin Elements!Around[Reference]
      BY <1>0, <2>1, <3>1, AttachFacts
    <3>3. \A i \in Elements!Around[Reference] : i \in Elems
      <4>1. Reference \in Elems
        <5>1. Reference \in 2..LastElement
          BY <1>0, PopperFacts
        <5> QED
          BY <1>0, <5>1, StyleFacts
      <4> QED
        BY <1>0, <4>1, AroundNow
    <3>4. SameAround
      BY <2>1, <2>2, <3>2, <3>3 DEF SameAround
    <3>5. Elements!getReferenceOffsets' = Elements!getReferenceOffsets
      BY <1>0, <2>3, <3>4, StillRight
    <3> QED
      BY <1>0, <2>1, <2>7, <3>1, <3>5
  <2> QED
    BY <1>0, <2>1, <2>2, <2>3, <2>4, <2>5, <2>6, <2>7 DEF ElementsState
<1>4. CASE Elements!update
  <2>1. /\ due' = FALSE /\ top' = Elements!getReferenceOffsets
        /\ treeListening' = treeListening /\ scrollParents' = scrollParents
        /\ restyled' = restyled /\ parent' = parent /\ treeStyle' = treeStyle /\ scroll' = scroll
    BY <1>4 DEF Elements!update
  <2>2. top' \in Int
    BY <1>0, <2>1, OffsetsNumber
  <2>3. TreeNow' /\ Rests'
    BY <1>0, <2>1, <2>2 DEF TreeNow, Rests
  <2>4. SameAround
    BY <2>1 DEF SameAround
  <2>5. /\ Elements!getReferenceOffsets' = Elements!getReferenceOffsets
        /\ Elements!attachToScrollParents' = Elements!attachToScrollParents
    BY <1>0, <2>3, <2>4, StillRight
  <2> QED
    BY <1>0, <2>1, <2>3, <2>5 DEF ElementsState
<1>5. ASSUME NEW e \in Restyled, Elements!Restyle(e) PROVE ElementsState'
  <2>1. /\ treeStyle' = [treeStyle EXCEPT ![e].scrolls = ~@]
        /\ scroll' = [scroll EXCEPT ![e] = 0] /\ restyled' = TRUE
        /\ due' = due /\ top' = top /\ treeListening' = treeListening /\ scrollParents' = scrollParents
        /\ parent' = parent
    BY <1>5 DEF Elements!Restyle
  <2>2. scroll' \in [Elems -> 0..MaxScroll] /\ \A i \in Elems : i # e => scroll'[i] = scroll[i]
    BY <1>0, <2>1, ElementsBounds
  <2>3. Elements!IsStyle(treeStyle', parent')
    BY <1>0, <2>1, RestyledStyle
  <2>4. TreeNow'
    BY <1>i, <1>t, <2>1, <2>2, <2>3 DEF TreeNow
  <2>5. Rests'
    <3> SUFFICES ASSUME NEW i \in 1..LastElement, ~treeStyle'[i].scrolls PROVE scroll'[i] = 0
      BY DEF Rests
    <3>1. i \in Elems
      BY <1>0, StyleFacts
    <3>2. CASE i = e
      BY <1>0, <2>1, <3>1, <3>2
    <3>3. CASE i # e
      <4>1. treeStyle'[i] = treeStyle[i]
        BY <2>1, <3>3
      <4> QED
        BY <1>0, <2>2, <3>1, <3>3, <4>1 DEF Rests
    <3> QED
      BY <3>2, <3>3
  <2> QED
    BY <1>0, <2>1, <2>2, <2>4, <2>5 DEF ElementsState
<1>6. CASE UNCHANGED Elements!vars
  <2>1. /\ due' = due /\ top' = top
        /\ treeListening' = treeListening /\ scrollParents' = scrollParents
        /\ restyled' = restyled /\ parent' = parent /\ treeStyle' = treeStyle /\ scroll' = scroll
    BY <1>6 DEF Elements!vars
  <2>2. TreeNow' /\ Rests'
    BY <1>0, <2>1 DEF TreeNow, Rests
  <2>3. SameAround
    BY <2>1 DEF SameAround
  <2>4. /\ Elements!getReferenceOffsets' = Elements!getReferenceOffsets
        /\ Elements!attachToScrollParents' = Elements!attachToScrollParents
    BY <1>0, <2>2, <2>3, StillRight
  <2> QED
    BY <1>0, <2>1, <2>2, <2>4 DEF ElementsState
<1> QED
  BY <1>1, <1>2, <1>3, <1>4, <1>5, <1>6 DEF Elements!Next

\* ElementsLaidOut follows from it.
LEMMA ElementsAreLaidOut == ElementsState => ElementsLaidOut
<1> SUFFICES ASSUME ElementsState PROVE ElementsLaidOut
  OBVIOUS
<1>1. /\ TreeNow /\ scroll \in [Elems -> 0..MaxScroll] /\ Rests
      /\ due \in BOOLEAN /\ restyled \in BOOLEAN
      /\ treeListening = scrollParents
      /\ scrollParents \subseteq Elems \ {1} /\ (scrollParents # {} => 0 \in scrollParents)
      /\ (scrollParents # {} /\ ~restyled => scrollParents = Elements!attachToScrollParents)
      /\ (scrollParents # {} /\ ~restyled /\ ~due => top = Elements!getReferenceOffsets)
  BY DEF ElementsState
<1>2. LastElement \in Nat /\ Elems = 0..LastElement /\ 0 \in Elems
  BY <1>1, StyleFacts
<1>3. Elements!TypeOK
  <2>1. \A e \in 1..LastElement : Elements!Scrolled(e) = scroll[e]
    BY <1>1 DEF Elements!Scrolled, Rests
  <2>2. ~restyled => \A e \in scrollParents \ {0} : treeStyle[e].scrolls
    BY <1>1, AttachFacts
  <2>3. parent \in Parents /\ top \in Int
    BY <1>1 DEF TreeNow
  <2> QED
    BY <1>1, <2>1, <2>2, <2>3 DEF Elements!TypeOK, Elems, Elements!Html, Elements!Body
<1>4. Elements!OffsetParentContains
  BY <1>1, CommonContains
<1>5. Elements!StaysOnReference
  <2> SUFFICES ASSUME treeListening # {}, ~due, ~restyled, ~Elements!Nested
               PROVE  Elements!Client[PopperElement] = Elements!Client[Reference]
    BY DEF Elements!StaysOnReference
  <2>1. scroll[0] >= 0
    <3>1. scroll[0] \in 0..MaxScroll
      BY <1>1, <1>2
    <3> QED
      BY <3>1
  <2> QED
    BY <1>1, <2>1, PutOnReference
<1>6. Elements!ListensOnlyAsLongAsItShould
  BY <1>1 DEF Elements!ListensOnlyAsLongAsItShould
<1>7. Elements!BoundariesInView
  BY <1>1, InView
<1> QED
  BY <1>3, <1>4, <1>5, <1>6, <1>7 DEF ElementsLaidOut

\* The popper is on its reference as long as it listens, and stops listening to all
\* it has listened to; its offset parent and its boundaries are the browser's.
THEOREM ElementsPlaced == Elements!Spec => []ElementsLaidOut
<1> QED
  BY ElementsInit, ElementsStep, ElementsAreLaidOut, PTL DEF Elements!Spec
=============================================================================
