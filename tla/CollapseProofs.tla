--------------------------- MODULE CollapseProofs ---------------------------
(***************************************************************************)
(* Proofs about Collapse for any number of panels and any triggers, with   *)
(* no bound on calls: no panel is stuck in a transition, a panel alone     *)
(* in its trigger is announced, and an accordion shows one panel at rest.  *)
(***************************************************************************)
EXTENDS Collapse, SequenceTheorems, Induction, TLAPS

-----------------------------------------------------------------------------
(* The inductive invariant.                                                *)

Waiting == [inst : Nat, do : {"show", "hide"}]

Classes == {{"collapse"}, {"collapse", "show"}, {"collapsing"}}

PageType ==
    [class : [Panels -> Classes],
     inst : [Panels -> Nat], busy : SUBSET Nat, dead : SUBSET Nat, made : Nat,
     wait : [Panels -> Seq(Waiting)], expanded : [DOMAIN Triggers -> BOOLEAN]]

Moving(S, p) == S.class[p] = {"collapsing"}

\* Every instance in transition has a callback that waits.
Carried(S) == \A i \in S.busy : \E p \in Panels : \E k \in DOMAIN S.wait[p] : S.wait[p][k].inst = i

\* Instances are numbered, belong to one panel and are disposed of once.
Numbered(S) ==
    /\ S.busy \subseteq 1..S.made /\ S.dead \subseteq 1..S.made /\ S.busy \cap S.dead = {}
    /\ \A p \in Panels : S.inst[p] <= S.made /\ S.inst[p] \notin S.dead
    /\ \A p, q \in Panels : S.inst[p] = S.inst[q] => p = q \/ S.inst[p] = 0
    /\ Carried(S)

Pages == {S \in PageType : Numbered(S)}

\* No callback of a disposed instance waits, and no panel rests half open.
Undisturbed(S) ==
    \A p \in Panels :
        /\ \A k \in DOMAIN S.wait[p] : S.wait[p][k].inst \notin S.dead
        /\ S.wait[p] = <<>> => ~Moving(S, p)

\* i may be the instance of panel p: it is nobody else's.
May(S, p, i) ==
    /\ i \in 1..S.made /\ i \notin S.dead
    /\ \A q \in Panels : q # p => S.inst[q] # i

\* What calls do to a page: transitions start, instances are new or forgotten.
Grows(S, T) ==
    /\ S.busy \subseteq T.busy /\ S.made <= T.made /\ T.dead = S.dead
    /\ \A q \in Panels : T.inst[q] = S.inst[q] \/ T.inst[q] = 0 \/ T.inst[q] > S.made
    /\ Undisturbed(S) => Undisturbed(T)

\* A panel whose transition has started.
IsMoved(S, T, p, i, do) ==
    /\ T.class = [S.class EXCEPT ![p] = {"collapsing"}]
    /\ T.busy = S.busy \cup {i}
    /\ T.wait = [S.wait EXCEPT ![p] = Append(@, [inst |-> i, do |-> do])]
    /\ T.inst = S.inst /\ T.made = S.made /\ T.dead = S.dead

LEMMA GrowsTransitive ==
    ASSUME NEW S \in PageType, NEW T \in PageType, NEW U \in PageType, Grows(S, T), Grows(T, U)
    PROVE  Grows(S, U)
<1>1. S.made \in Nat /\ T.made \in Nat /\ U.made \in Nat /\ U.inst \in [Panels -> Nat]
      /\ T.inst \in [Panels -> Nat]
  BY DEF PageType
<1> QED
  BY <1>1 DEF Grows

LEMMA GrowsReflexive == ASSUME NEW S \in PageType PROVE Grows(S, S)
BY DEF Grows, PageType

LEMMA MovedKeeps ==
    ASSUME NEW S \in Pages, NEW T \in PageType, NEW p \in Panels, NEW i, May(S, p, i),
           NEW do \in {"show", "hide"}, IsMoved(S, T, p, i, do)
    PROVE  T \in Pages /\ Grows(S, T) /\ May(T, p, i)
<1>1. /\ S.wait \in [Panels -> Seq(Waiting)] /\ S.class \in [Panels -> Classes]
      /\ S.inst \in [Panels -> Nat] /\ S.made \in Nat /\ i \in Nat /\ Numbered(S)
  BY DEF Pages, PageType, May
<1>2. PICK c : c = [inst |-> i, do |-> do]
  OBVIOUS
<1>3. c \in Waiting /\ c.inst = i /\ c.do = do
  BY <1>1, <1>2 DEF Waiting
<1>4. T.wait = [S.wait EXCEPT ![p] = Append(@, c)]
  BY <1>2 DEF IsMoved
<1>5. /\ \A q \in Panels : q # p => T.wait[q] = S.wait[q]
      /\ T.wait[p] = Append(S.wait[p], c)
      /\ DOMAIN T.wait[p] = 1..Len(S.wait[p]) + 1 /\ DOMAIN S.wait[p] = 1..Len(S.wait[p])
      /\ \A k \in DOMAIN S.wait[p] : T.wait[p][k] = S.wait[p][k]
      /\ T.wait[p][Len(S.wait[p]) + 1] = c /\ T.wait[p] # <<>>
      /\ Len(S.wait[p]) \in Nat
  <2>1. \A q \in Panels : q # p => T.wait[q] = S.wait[q]
    BY <1>1, <1>4
  <2>2. T.wait[p] = Append(S.wait[p], c) /\ S.wait[p] \in Seq(Waiting)
    BY <1>1, <1>4
  <2>3. /\ DOMAIN Append(S.wait[p], c) = 1..Len(S.wait[p]) + 1 /\ DOMAIN S.wait[p] = 1..Len(S.wait[p])
        /\ \A k \in DOMAIN S.wait[p] : Append(S.wait[p], c)[k] = S.wait[p][k]
        /\ Append(S.wait[p], c)[Len(S.wait[p]) + 1] = c /\ Append(S.wait[p], c) # <<>>
        /\ Len(S.wait[p]) \in Nat
    BY <1>3, <2>2, AppendProperties
  <2> QED
    BY <2>1, <2>2, <2>3
<1>6. /\ T.busy = S.busy \cup {i} /\ T.inst = S.inst /\ T.made = S.made /\ T.dead = S.dead
      /\ \A q \in Panels : q # p => T.class[q] = S.class[q]
  BY <1>1 DEF IsMoved
<1>7. Carried(T)
  <2> SUFFICES ASSUME NEW j \in T.busy
               PROVE  \E q \in Panels : \E k \in DOMAIN T.wait[q] : T.wait[q][k].inst = j
    BY DEF Carried
  <2>1. CASE j = i
    <3>1. Len(S.wait[p]) + 1 \in DOMAIN T.wait[p]
      BY <1>5
    <3> QED
      BY <1>3, <1>5, <2>1, <3>1
  <2>2. CASE j \in S.busy
    <3>1. PICK q \in Panels : \E k \in DOMAIN S.wait[q] : S.wait[q][k].inst = j
      BY <1>1, <2>2 DEF Numbered, Carried
    <3>2. PICK k \in DOMAIN S.wait[q] : S.wait[q][k].inst = j
      BY <3>1
    <3>3. k \in DOMAIN T.wait[q] /\ T.wait[q][k] = S.wait[q][k]
      BY <1>5
    <3> QED
      BY <3>2, <3>3
  <2> QED
    BY <1>6, <2>1, <2>2
<1>8. Numbered(T)
  BY <1>1, <1>6, <1>7 DEF Numbered, May
<1>9. Undisturbed(S) => Undisturbed(T)
  <2> SUFFICES ASSUME Undisturbed(S), NEW q \in Panels
               PROVE  /\ \A k \in DOMAIN T.wait[q] : T.wait[q][k].inst \notin T.dead
                      /\ T.wait[q] = <<>> => ~Moving(T, q)
    BY DEF Undisturbed
  <2>1. CASE q = p
    <3>1. \A k \in DOMAIN T.wait[p] : k \in DOMAIN S.wait[p] \/ k = Len(S.wait[p]) + 1
      BY <1>5
    <3> QED
      BY <1>3, <1>5, <1>6, <2>1, <3>1 DEF Undisturbed, May
  <2>2. CASE q # p
    BY <1>5, <1>6, <2>2 DEF Undisturbed, Moving
  <2> QED
    BY <2>1, <2>2
<1> QED
  BY <1>1, <1>6, <1>8, <1>9 DEF Pages, Grows, May

LEMMA RecordIsPage ==
    ASSUME NEW a1 \in [Panels -> Classes], NEW a2 \in [Panels -> Nat], NEW a3 \in SUBSET Nat,
           NEW a4 \in SUBSET Nat, NEW a5 \in Nat, NEW a6 \in [Panels -> Seq(Waiting)],
           NEW a7 \in [DOMAIN Triggers -> BOOLEAN]
    PROVE  [class |-> a1, inst |-> a2, busy |-> a3, dead |-> a4, made |-> a5, wait |-> a6,
            expanded |-> a7] \in PageType
BY DEF PageType

LEMMA Moves ==
    ASSUME NEW S \in PageType, NEW p \in Panels, NEW i \in Nat, NEW do \in {"show", "hide"},
           NEW e \in [DOMAIN Triggers -> BOOLEAN],
           NEW T, T = [Move(S, p, i, do) EXCEPT !.expanded = e]
    PROVE  /\ T \in PageType /\ IsMoved(S, T, p, i, do) /\ T.expanded = e
<1>1. PICK c : c = [inst |-> i, do |-> do]
  OBVIOUS
<1>2. c \in Waiting
  BY <1>1 DEF Waiting
<1>3. PICK cl : cl = [S.class EXCEPT ![p] = {"collapsing"}]
  OBVIOUS
<1>4. PICK w : w = [S.wait EXCEPT ![p] = Append(@, c)]
  OBVIOUS
<1>0. /\ S.class \in [Panels -> Classes] /\ S.wait \in [Panels -> Seq(Waiting)]
      /\ S.inst \in [Panels -> Nat] /\ S.busy \in SUBSET Nat /\ S.dead \in SUBSET Nat /\ S.made \in Nat
  BY DEF PageType
<1>5. cl \in [Panels -> Classes]
  BY <1>0, <1>3 DEF Classes
<1>6. w \in [Panels -> Seq(Waiting)]
  BY <1>0, <1>2, <1>4
<1>7. T = [class |-> cl, inst |-> S.inst, busy |-> S.busy \cup {i}, dead |-> S.dead,
           made |-> S.made, wait |-> w, expanded |-> e]
  BY <1>1, <1>3, <1>4 DEF Move, PageType
<1>8. T \in PageType
  <2>1. PICK b \in SUBSET Nat : b = S.busy \cup {i}
    BY <1>0
  <2>3. [class |-> cl, inst |-> S.inst, busy |-> b, dead |-> S.dead, made |-> S.made,
         wait |-> w, expanded |-> e] \in PageType
    BY <1>0, <1>5, <1>6, RecordIsPage
  <2> QED
    BY <1>7, <2>1, <2>3, Zenon
<1> QED
  BY <1>1, <1>3, <1>4, <1>7, <1>8 DEF IsMoved

\* Fields of a page, for the cases in which only some of them change.
LEMMA Fields ==
    ASSUME NEW S \in PageType
    PROVE  /\ S.class \in [Panels -> Classes] /\ S.inst \in [Panels -> Nat]
           /\ S.busy \in SUBSET Nat /\ S.dead \in SUBSET Nat /\ S.made \in Nat
           /\ S.wait \in [Panels -> Seq(Waiting)] /\ S.expanded \in [DOMAIN Triggers -> BOOLEAN]
           /\ S = [class |-> S.class, inst |-> S.inst, busy |-> S.busy, dead |-> S.dead,
                   made |-> S.made, wait |-> S.wait, expanded |-> S.expanded]
BY DEF PageType

\* The triggers after a panel has got an instance.
Agreed(S, p) ==
    [t \in DOMAIN Triggers |->
        IF p \in Triggers[t] /\ ~Accordion THEN Open(S, p) ELSE S.expanded[t]]

\* A new instance that is nobody's yet.
LEMMA Constructs ==
    ASSUME NEW S \in Pages, NEW p \in Panels, NEW T, T = Constructed(S, p)
    PROVE  /\ T \in Pages /\ Grows(S, T) /\ May(T, p, T.made) /\ T.made = S.made + 1
           /\ T.class = S.class /\ T.inst = S.inst /\ T.busy = S.busy /\ T.wait = S.wait
           /\ T.dead = S.dead /\ T.made \notin T.busy
           /\ T.expanded = Agreed(S, p)
<1> DEFINE e == [t \in DOMAIN Triggers |->
                  IF p \in Triggers[t] /\ ~Accordion THEN Open(S, p) ELSE S.expanded[t]]
<1>0. /\ S.class \in [Panels -> Classes] /\ S.inst \in [Panels -> Nat]
      /\ S.busy \in SUBSET Nat /\ S.dead \in SUBSET Nat /\ S.made \in Nat
      /\ S.wait \in [Panels -> Seq(Waiting)] /\ S.expanded \in [DOMAIN Triggers -> BOOLEAN]
  BY Fields DEF Pages
<1>1. /\ S \in PageType /\ Numbered(S) /\ S.made \in Nat
      /\ S.expanded \in [DOMAIN Triggers -> BOOLEAN]
  BY Fields DEF Pages
<1>2. e \in [DOMAIN Triggers -> BOOLEAN]
  <2>1. ASSUME NEW t \in DOMAIN Triggers
        PROVE  (IF p \in Triggers[t] /\ ~Accordion THEN Open(S, p) ELSE S.expanded[t]) \in BOOLEAN
    <3>1. Open(S, p) \in BOOLEAN /\ S.expanded[t] \in BOOLEAN
      BY <1>1 DEF Open
    <3> QED
      BY <3>1, Zenon
  <2> QED
    BY <2>1
<1>3. T = [class |-> S.class, inst |-> S.inst, busy |-> S.busy, dead |-> S.dead,
           made |-> S.made + 1, wait |-> S.wait, expanded |-> e]
  BY <1>1 DEF Constructed, PageType
<1> HIDE DEF e
<1>4. T \in PageType
  <2>1. S.made + 1 \in Nat
    BY <1>1
  <2>2. [class |-> S.class, inst |-> S.inst, busy |-> S.busy, dead |-> S.dead,
         made |-> S.made + 1, wait |-> S.wait, expanded |-> e] \in PageType
    BY <1>0, <1>2, <2>1, RecordIsPage
  <2> QED
    BY <1>3, <2>2, Zenon
<1>5. /\ T.made = S.made + 1 /\ T.class = S.class /\ T.inst = S.inst /\ T.busy = S.busy
      /\ T.wait = S.wait /\ T.dead = S.dead /\ T.expanded = e
  BY <1>3
<1>6. Numbered(T)
  BY <1>1, <1>5, Fields DEF Numbered, Carried
<1>7. Grows(S, T)
  BY <1>1, <1>5 DEF Grows, Undisturbed, Moving
<1>8. May(T, p, T.made) /\ T.made \notin T.busy
  BY <1>1, <1>5, Fields DEF May, Numbered
<1> QED
  BY <1>4, <1>5, <1>6, <1>7, <1>8 DEF Pages, e, Agreed

\* The instance becomes the panel's.
With(S, p, i) == [S EXCEPT !.inst[p] = i]

LEMMA Owns ==
    ASSUME NEW S \in Pages, NEW p \in Panels, NEW i, May(S, p, i), NEW T, T = With(S, p, i)
    PROVE  /\ T \in Pages /\ May(T, p, i) /\ (Undisturbed(S) => Undisturbed(T))
           /\ T.inst = [S.inst EXCEPT ![p] = i] /\ T.made = S.made
           /\ T.class = S.class /\ T.busy = S.busy /\ T.wait = S.wait
           /\ T.dead = S.dead /\ T.expanded = S.expanded
<1>0. /\ S.class \in [Panels -> Classes] /\ S.inst \in [Panels -> Nat]
      /\ S.busy \in SUBSET Nat /\ S.dead \in SUBSET Nat /\ S.made \in Nat
      /\ S.wait \in [Panels -> Seq(Waiting)] /\ S.expanded \in [DOMAIN Triggers -> BOOLEAN]
  BY Fields DEF Pages
<1>1. S \in PageType /\ Numbered(S) /\ S.made \in Nat /\ i \in Nat /\ S.inst \in [Panels -> Nat]
  BY Fields DEF Pages, May
<1>2. PICK f : f = [S.inst EXCEPT ![p] = i]
  OBVIOUS
<1>3. f \in [Panels -> Nat]
  BY <1>1, <1>2
<1>4. T = [class |-> S.class, inst |-> f, busy |-> S.busy, dead |-> S.dead,
           made |-> S.made, wait |-> S.wait, expanded |-> S.expanded]
  BY <1>1, <1>2 DEF PageType, With
<1>5. T \in PageType
  <2>1. [class |-> S.class, inst |-> f, busy |-> S.busy, dead |-> S.dead,
         made |-> S.made, wait |-> S.wait, expanded |-> S.expanded] \in PageType
    BY <1>0, <1>3, RecordIsPage
  <2> QED
    BY <1>4, <2>1, Zenon
<1>6. /\ T.inst = f /\ T.made = S.made /\ T.class = S.class /\ T.busy = S.busy
      /\ T.wait = S.wait /\ T.dead = S.dead /\ T.expanded = S.expanded
  BY <1>4
<1>7. f[p] = i /\ \A q \in Panels : q # p => f[q] = S.inst[q]
  BY <1>1, <1>2
<1>8. Numbered(T)
  BY <1>1, <1>6, <1>7 DEF Numbered, Carried, May
<1>9. May(T, p, i)
  BY <1>6, <1>7 DEF May
<1>10. Undisturbed(S) => Undisturbed(T)
  BY <1>6 DEF Undisturbed, Moving
<1> QED
  BY <1>2, <1>5, <1>6, <1>8, <1>9, <1>10 DEF Pages

\* The triggers after the panel has been hidden, on the page T.
Collapsed(S, T, p) ==
    [t \in DOMAIN Triggers |->
        S.expanded[t] /\ ~(p \in Triggers[t] /\ ~\E q \in Triggers[t] : Open(T, q))]

LEMMA HideKeeps ==
    ASSUME NEW S \in Pages, NEW p \in Panels, NEW i, May(S, p, i), NEW no,
           NEW T, T = hide(S, p, i, no)
    PROVE  /\ T \in Pages /\ Grows(S, T) /\ May(T, p, i) /\ T.inst = S.inst /\ T.made = S.made
           /\ IF i \in S.busy \/ ~Open(S, p) \/ p \in no THEN T = S
              ELSE /\ IsMoved(S, T, p, i, "hide")
                   /\ T.expanded = Collapsed(S, T, p)
<1>1. S \in PageType /\ Numbered(S) /\ i \in Nat /\ S.expanded \in [DOMAIN Triggers -> BOOLEAN]
  BY Fields DEF Pages, May
<1>2. CASE i \in S.busy \/ ~Open(S, p) \/ p \in no
  <2>1. T = S
    BY <1>2 DEF hide
  <2> QED
    BY <1>1, <1>2, <2>1, GrowsReflexive
<1>3. CASE ~(i \in S.busy \/ ~Open(S, p) \/ p \in no)
  <2> DEFINE moved == Move(S, p, i, "hide")
             e == [t \in DOMAIN Triggers |->
                     S.expanded[t] /\ ~(p \in Triggers[t] /\ ~\E q \in Triggers[t] : Open(moved, q))]
  <2>1. T = [moved EXCEPT !.expanded = e]
    BY <1>3, Zenon DEF hide
  <2>2. e \in [DOMAIN Triggers -> BOOLEAN]
    <3> HIDE DEF moved
    <3>1. ASSUME NEW t \in DOMAIN Triggers
          PROVE  (S.expanded[t] /\ ~(p \in Triggers[t] /\ ~\E q \in Triggers[t] : Open(moved, q))) \in BOOLEAN
      OBVIOUS
    <3> QED
      BY <3>1
  <2>3. T.class = moved.class
    BY <2>1
  <2> HIDE DEF e
  <2>4. T \in PageType /\ IsMoved(S, T, p, i, "hide") /\ T.expanded = e
    BY <1>1, <2>1, <2>2, Moves
  <2>5. T \in Pages /\ Grows(S, T) /\ May(T, p, i)
    BY <2>4, MovedKeeps
  <2>6. e = [t \in DOMAIN Triggers |->
                S.expanded[t] /\ ~(p \in Triggers[t] /\ ~\E q \in Triggers[t] : Open(T, q))]
    <3> HIDE DEF moved
    <3>1. \A q : Open(moved, q) <=> Open(T, q)
      BY <2>3 DEF Open
    <3> QED
      BY <3>1, Zenon DEF e
  <2>7. e = Collapsed(S, T, p)
    BY <2>6, Zenon DEF Collapsed
  <2> QED
    BY <1>3, <2>4, <2>5, <2>7 DEF IsMoved
<1> QED
  BY <1>2, <1>3

LEMMA GrowsMay ==
    ASSUME NEW S \in Pages, NEW T \in Pages, NEW p, NEW i, May(S, p, i), Grows(S, T)
    PROVE  May(T, p, i)
<1>1. S \in PageType /\ T \in PageType
  BY DEF Pages
<1>2. S.made \in Nat /\ T.made \in Nat /\ T.inst \in [Panels -> Nat]
  BY <1>1, Fields
<1> QED
  BY <1>2 DEF May, Grows

-----------------------------------------------------------------------------
(* The panels of others are told to hide.                                  *)

\* r hides when it is told to.
Hides(S, r, no) == Open(S, r) /\ r \notin no /\ S.inst[r] \notin S.busy

\* The panels of done have been told to hide.
HaveHidden(S, A, done, no) ==
    /\ Grows(S, A) /\ (done = {} => A = S)
    /\ \A r \in Panels \ done :
          A.inst[r] = S.inst[r] /\ A.class[r] = S.class[r] /\ A.wait[r] = S.wait[r]
    /\ \A r \in done :
          /\ IF S.inst[r] # 0 THEN A.inst[r] = S.inst[r] ELSE A.inst[r] > S.made
          /\ IF Hides(S, r, no)
             THEN /\ Moving(A, r) /\ A.inst[r] \in A.busy
                  /\ A.wait[r] = Append(S.wait[r], [inst |-> A.inst[r], do |-> "hide"])
             ELSE A.class[r] = S.class[r] /\ A.wait[r] = S.wait[r]
    /\ \A i \in A.busy : i \in S.busy \/ \E r \in done : Hides(S, r, no) /\ A.inst[r] = i

\* One of them, that may need an instance first.
HiddenOne(A, p, no) ==
    LET known == A.inst[p] # 0
        T == IF known THEN A ELSE Constructed(A, p)
        i == IF known THEN T.inst[p] ELSE T.made
    IN  [hide(T, p, i, no) EXCEPT !.inst[p] = i]

LEMMA HideOne ==
    ASSUME NEW A \in Pages, NEW p \in Panels, NEW no, NEW T, T = HiddenOne(A, p, no)
    PROVE  /\ T \in Pages /\ Grows(A, T)
           /\ \A q \in Panels : q # p => /\ T.inst[q] = A.inst[q] /\ T.class[q] = A.class[q]
                                         /\ T.wait[q] = A.wait[q]
           /\ IF A.inst[p] # 0 THEN T.inst[p] = A.inst[p] ELSE T.inst[p] > A.made
           /\ IF Hides(A, p, no)
              THEN /\ Moving(T, p) /\ T.busy = A.busy \cup {T.inst[p]}
                   /\ T.wait[p] = Append(A.wait[p], [inst |-> T.inst[p], do |-> "hide"])
              ELSE T.class[p] = A.class[p] /\ T.wait[p] = A.wait[p] /\ T.busy = A.busy
<1> DEFINE known == A.inst[p] # 0
           B == IF known THEN A ELSE Constructed(A, p)
           i == IF known THEN B.inst[p] ELSE B.made
           H == hide(B, p, i, no)
<1>0. A \in PageType /\ Numbered(A) /\ A.inst \in [Panels -> Nat] /\ A.made \in Nat
      /\ A.class \in [Panels -> Classes] /\ A.wait \in [Panels -> Seq(Waiting)]
  BY Fields DEF Pages
<1>1. /\ B \in Pages /\ Grows(A, B) /\ May(B, p, i) /\ B.class = A.class /\ B.inst = A.inst
      /\ B.busy = A.busy /\ B.wait = A.wait
      /\ IF known THEN i = A.inst[p] /\ B.made = A.made ELSE i > A.made /\ i \notin B.busy
  <2>1. CASE known
    <3>1. B = A /\ i = A.inst[p]
      BY <2>1
    <3>2. May(A, p, A.inst[p])
      BY <1>0, <2>1 DEF May, Numbered
    <3> QED
      BY <1>0, <2>1, <3>1, <3>2, GrowsReflexive
  <2>2. CASE ~known
    <3>1. B = Constructed(A, p) /\ i = B.made
      BY <2>2
    <3> HIDE DEF B, i
    <3>2. /\ B \in Pages /\ Grows(A, B) /\ May(B, p, B.made) /\ B.made = A.made + 1
          /\ B.class = A.class /\ B.inst = A.inst /\ B.busy = A.busy /\ B.wait = A.wait
          /\ B.made \notin B.busy
      BY <3>1, Constructs
    <3> QED
      BY <1>0, <2>2, <3>1, <3>2
  <2> QED
    BY <2>1, <2>2
<1>2. T = With(H, p, i) /\ H = hide(B, p, i, no)
  BY Zenon DEF HiddenOne, With
<1> HIDE DEF B, i, H
<1>3. /\ H \in Pages /\ Grows(B, H) /\ May(H, p, i) /\ H.inst = B.inst /\ H.made = B.made
      /\ IF i \in B.busy \/ ~Open(B, p) \/ p \in no THEN H = B
         ELSE IsMoved(B, H, p, i, "hide")
  BY <1>1, <1>2, HideKeeps
<1>4. /\ T \in Pages /\ (Undisturbed(H) => Undisturbed(T))
      /\ T.inst = [H.inst EXCEPT ![p] = i] /\ T.made = H.made
      /\ T.class = H.class /\ T.busy = H.busy /\ T.wait = H.wait /\ T.dead = H.dead
  BY <1>2, <1>3, Owns
<1>5. T.inst[p] = i /\ \A q \in Panels : q # p => T.inst[q] = A.inst[q]
  BY <1>0, <1>1, <1>3, <1>4
<1>6. Grows(A, T)
  <2>1. A \in PageType /\ B \in PageType /\ H \in PageType
    BY <1>0, <1>1, <1>3 DEF Pages
  <2>2. Grows(A, H)
    BY <1>1, <1>3, <2>1, GrowsTransitive
  <2>3. \A q \in Panels : T.inst[q] = A.inst[q] \/ T.inst[q] = 0 \/ T.inst[q] > A.made
    BY <1>1, <1>5
  <2> QED
    BY <1>4, <2>2, <2>3 DEF Grows
<1>7. Hides(A, p, no) <=> ~(i \in B.busy \/ ~Open(B, p) \/ p \in no)
  <2>1. A.inst[p] \in A.busy => A.inst[p] # 0
    BY <1>0 DEF Numbered
  <2> QED
    BY <1>1, <2>1 DEF Hides, Open
<1>8. CASE Hides(A, p, no)
  <2>1. IsMoved(B, H, p, i, "hide")
    BY <1>3, <1>7, <1>8
  <2>2. /\ T.class = [A.class EXCEPT ![p] = {"collapsing"}]
        /\ T.wait = [A.wait EXCEPT ![p] = Append(@, [inst |-> i, do |-> "hide"])]
        /\ T.busy = A.busy \cup {i}
    BY <1>1, <1>4, <2>1, Zenon DEF IsMoved
  <2>3. /\ Moving(T, p) /\ T.wait[p] = Append(A.wait[p], [inst |-> i, do |-> "hide"])
        /\ \A q \in Panels : q # p => T.class[q] = A.class[q] /\ T.wait[q] = A.wait[q]
    BY <1>0, <2>2 DEF Moving
  <2> QED
    BY <1>1, <1>4, <1>5, <1>6, <1>8, <2>2, <2>3
<1>9. CASE ~Hides(A, p, no)
  <2>1. H = B
    BY <1>3, <1>7, <1>9
  <2> QED
    BY <1>1, <1>4, <1>5, <1>6, <1>9, <2>1
<1> QED
  BY <1>8, <1>9

LEMMA HideOneMore ==
    ASSUME NEW S \in Pages, NEW A \in Pages, NEW done, done \subseteq Panels,
           NEW p \in Panels \ done, NEW no, HaveHidden(S, A, done, no),
           NEW T, T = HiddenOne(A, p, no)
    PROVE  T \in Pages /\ HaveHidden(S, T, done \cup {p}, no)
<1>0. /\ S \in PageType /\ A \in PageType /\ T \in PageType /\ T \in Pages
      /\ Numbered(S) /\ Numbered(A) /\ Numbered(T)
      /\ S.made \in Nat /\ A.made \in Nat /\ T.inst \in [Panels -> Nat] /\ A.inst \in [Panels -> Nat]
  BY HideOne, Fields DEF Pages
<1>1. /\ Grows(A, T)
      /\ \A q \in Panels : q # p => /\ T.inst[q] = A.inst[q] /\ T.class[q] = A.class[q]
                                    /\ T.wait[q] = A.wait[q]
      /\ IF A.inst[p] # 0 THEN T.inst[p] = A.inst[p] ELSE T.inst[p] > A.made
      /\ IF Hides(A, p, no)
         THEN /\ Moving(T, p) /\ T.busy = A.busy \cup {T.inst[p]}
              /\ T.wait[p] = Append(A.wait[p], [inst |-> T.inst[p], do |-> "hide"])
         ELSE T.class[p] = A.class[p] /\ T.wait[p] = A.wait[p] /\ T.busy = A.busy
  BY HideOne
<1>2. Grows(S, T)
  BY <1>0, <1>1, GrowsTransitive DEF HaveHidden
<1>3. A.inst[p] = S.inst[p] /\ A.class[p] = S.class[p] /\ A.wait[p] = S.wait[p]
  BY DEF HaveHidden
<1>4. S.inst[p] \in A.busy <=> S.inst[p] \in S.busy
  <2>1. S.busy \subseteq A.busy
    BY DEF HaveHidden, Grows
  <2>2. ASSUME S.inst[p] \in A.busy, S.inst[p] \notin S.busy PROVE FALSE
    <3>1. PICK r \in done : A.inst[r] = S.inst[p]
      BY <2>2 DEF HaveHidden
    <3>2. A.inst[r] = A.inst[p] /\ r # p /\ r \in Panels /\ A.inst[p] # 0
      BY <1>0, <1>3, <2>2, <3>1 DEF Numbered
    <3> QED
      BY <1>0, <3>2 DEF Numbered
  <2> QED
    BY <2>1, <2>2
<1>5. Hides(A, p, no) <=> Hides(S, p, no)
  BY <1>3, <1>4 DEF Hides, Open
<1>6. \A r \in Panels \ (done \cup {p}) :
         T.inst[r] = S.inst[r] /\ T.class[r] = S.class[r] /\ T.wait[r] = S.wait[r]
  BY <1>1 DEF HaveHidden
<1>7. A.busy \subseteq T.busy
  BY <1>1 DEF Grows
<1>8. ASSUME NEW r \in done \cup {p}
      PROVE  /\ IF S.inst[r] # 0 THEN T.inst[r] = S.inst[r] ELSE T.inst[r] > S.made
             /\ IF Hides(S, r, no)
                THEN /\ Moving(T, r) /\ T.inst[r] \in T.busy
                     /\ T.wait[r] = Append(S.wait[r], [inst |-> T.inst[r], do |-> "hide"])
                ELSE T.class[r] = S.class[r] /\ T.wait[r] = S.wait[r]
  <2>1. CASE r = p
    <3>1. S.made <= A.made
      BY DEF HaveHidden, Grows
    <3>2. IF S.inst[p] # 0 THEN T.inst[p] = S.inst[p] ELSE T.inst[p] > S.made
      BY <1>0, <1>1, <1>3, <3>1
    <3>3. IF Hides(S, p, no)
          THEN /\ Moving(T, p) /\ T.inst[p] \in T.busy
               /\ T.wait[p] = Append(S.wait[p], [inst |-> T.inst[p], do |-> "hide"])
          ELSE T.class[p] = S.class[p] /\ T.wait[p] = S.wait[p]
      BY <1>1, <1>3, <1>5
    <3> QED
      BY <2>1, <3>2, <3>3
  <2>2. CASE r # p
    <3>1. r \in done /\ r \in Panels
      BY <2>2
    <3>2. T.inst[r] = A.inst[r] /\ T.class[r] = A.class[r] /\ T.wait[r] = A.wait[r]
      BY <1>1, <2>2, <3>1
    <3> QED
      BY <1>7, <3>1, <3>2 DEF HaveHidden, Moving
  <2> QED
    BY <2>1, <2>2
<1>9. ASSUME NEW i \in T.busy
      PROVE  i \in S.busy \/ \E r \in done \cup {p} : Hides(S, r, no) /\ T.inst[r] = i
  <2>1. CASE i \in A.busy
    <3>1. i \in S.busy \/ \E r \in done : Hides(S, r, no) /\ A.inst[r] = i
      BY <2>1 DEF HaveHidden
    <3> QED
      BY <1>1, <3>1
  <2>2. CASE i \notin A.busy
    BY <1>1, <1>5, <2>2
  <2> QED
    BY <2>1, <2>2
<1> QED
  BY <1>0, <1>2, <1>6, <1>8, <1>9 DEF HaveHidden

\* All of them, in the order of the document.
LEMMA HideOthers ==
    ASSUME N \in Nat, NEW S \in Pages, NEW others, others \subseteq Panels, NEW no
    PROVE  /\ hideOthers(S, others, no) \in Pages
           /\ HaveHidden(S, hideOthers(S, others, no), others, no)
<1> DEFINE Run(A, p) == IF p \notin others THEN A ELSE HiddenOne(A, p, no)
<1>1. \A p \in 1..N, A \in Pages : Run(A, p) \in Pages
  BY HideOne DEF Panels
<1> DEFINE step == [p \in 1..N |-> [A \in Pages |-> Run(A, p)]]
<1>2. step \in [1..N -> [Pages -> Pages]]
  <2> HIDE DEF Run
  <2> QED
    BY <1>1
<1>3. PICK g \in [0..N -> Pages] : g[0] = S /\ \A k \in 1..N : g[k] = step[k][g[k - 1]]
  <2> HIDE DEF step, Run
  <2>1. Results(Pages, N, S, step) # {}
    BY <1>2, StepsHaveResults
  <2> QED
    BY <2>1 DEF Results
<1>4. ASSUME NEW k \in 1..N PROVE g[k] = Run(g[k - 1], k) /\ g[k - 1] \in Pages
  <2>1. g[k - 1] \in Pages
    BY <1>3
  <2> HIDE DEF Run
  <2> QED
    BY <1>3, <2>1
<1>5. g = [p \in 0..N |-> IF p = 0 THEN S ELSE Run(g[p - 1], p)]
  <2> HIDE DEF Run
  <2>1. \A p \in 0..N : g[p] = IF p = 0 THEN S ELSE Run(g[p - 1], p)
    <3>1. \A p \in 0..N : p = 0 \/ (p # 0 /\ p \in 1..N)
      OBVIOUS
    <3> QED
      BY <1>3, <1>4, <3>1
  <2>2. g = [p \in 0..N |-> g[p]]
    BY <1>3
  <2> QED
    BY <2>1, <2>2
<1> DEFINE after[p \in 0..N] ==
            IF p = 0 THEN S
            ELSE IF p \notin others THEN after[p - 1]
            ELSE LET known == after[p - 1].inst[p] # 0
                     T == IF known THEN after[p - 1] ELSE Constructed(after[p - 1], p)
                     i == IF known THEN T.inst[p] ELSE T.made
                 IN  [hide(T, p, i, no) EXCEPT !.inst[p] = i]
<1>6. hideOthers(S, others, no) = after[N]
  BY Zenon DEF hideOthers
<1>7. after = [p \in 0..N |-> IF p = 0 THEN S ELSE Run(after[p - 1], p)]
  BY Zenon, <1>5 DEF HiddenOne
<1> HIDE DEF after
<1>8. after[0] = S /\ \A k \in 1..N : after[k] = Run(after[k - 1], k)
  <2> HIDE DEF Run
  <2>1. 0 \in 0..N /\ \A k \in 1..N : k \in 0..N /\ k # 0
    OBVIOUS
  <2> QED
    BY <1>7, <2>1
<1> DEFINE Told(k) == others \cap 1..k
           Right == {x \in (0..N) \X Pages : HaveHidden(S, x[2], Told(x[1]), no)}
           f == [k \in 0..N |-> <<k, after[k]>>]
           keep(k) == HaveHidden(S, after[k], Told(k), no)
<1>R. \A k \in 0..N : f[k] \in Right <=> after[k] \in Pages /\ keep(k)
  <2> SUFFICES ASSUME NEW k \in 0..N PROVE f[k] \in Right <=> after[k] \in Pages /\ keep(k)
    OBVIOUS
  <2>1. f[k] = <<k, after[k]>>
    OBVIOUS
  <2> HIDE DEF f, Told
  <2>2. f[k] \in Right <=> f[k] \in (0..N) \X Pages /\ HaveHidden(S, f[k][2], Told(f[k][1]), no)
    OBVIOUS
  <2> HIDE DEF Right
  <2>3. f[k][1] = k /\ f[k][2] = after[k] /\ (f[k] \in (0..N) \X Pages <=> after[k] \in Pages)
    BY <2>1
  <2> QED
    BY <2>2, <2>3, Zenon
<1> HIDE DEF f, Right
<1>9. f[0] \in Right
  <2>1. HaveHidden(S, S, {}, no)
    BY GrowsReflexive DEF HaveHidden, Pages
  <2>2. Told(0) = {}
    OBVIOUS
  <2>3. after[0] \in Pages /\ HaveHidden(S, after[0], Told(0), no)
    BY <1>8, <2>1, <2>2, Zenon
  <2>4. 0 \in 0..N
    OBVIOUS
  <2> QED
    BY <1>R, <2>3, <2>4
<1>10. ASSUME NEW k \in 1..N, f[k - 1] \in Right PROVE f[k] \in Right
  <2>1. k - 1 \in 0..N /\ k \in 0..N
    OBVIOUS
  <2>2. after[k - 1] \in Pages /\ HaveHidden(S, after[k - 1], Told(k - 1), no)
    BY <1>10, <1>R, <2>1
  <2>3. CASE k \notin others
    <3>1. after[k] = after[k - 1]
      BY <1>8, <2>3
    <3>2. Told(k) = Told(k - 1)
      BY <2>3
    <3>3. after[k] \in Pages /\ keep(k)
      BY <2>2, <3>1, <3>2, Zenon
    <3> QED
      BY <1>R, <2>1, <3>3
  <2>4. CASE k \in others
    <3>1. after[k] = HiddenOne(after[k - 1], k, no)
      BY <1>8, <2>4
    <3>2. Told(k) = Told(k - 1) \cup {k} /\ k \notin Told(k - 1) /\ Told(k - 1) \subseteq Panels
      BY <2>4 DEF Panels
    <3>3. k \in Panels
      BY DEF Panels
    <3> HIDE DEF Told
    <3>4. after[k] \in Pages /\ HaveHidden(S, after[k], Told(k - 1) \cup {k}, no)
      BY <2>2, <3>1, <3>2, <3>3, HideOneMore
    <3>5. keep(k)
      BY <3>2, <3>4, Zenon
    <3> QED
      BY <1>R, <2>1, <3>4, <3>5
  <2> QED
    BY <2>3, <2>4
<1>11. \A k \in 0..N : f[k] \in Right
  <2> HIDE DEF Run
  <2> QED
    BY <1>9, <1>10, StepsKeep
<1>12. after[N] \in Pages /\ HaveHidden(S, after[N], Told(N), no)
  <2>1. N \in 0..N
    OBVIOUS
  <2> QED
    BY <1>R, <1>11, <2>1
<1>13. Told(N) = others
  BY DEF Panels
<1> QED
  BY <1>6, <1>12, <1>13, Zenon

-----------------------------------------------------------------------------
(* A panel is shown.                                                       *)

\* The data of some panels are those of one of them.
LEMMA DataOfOne ==
    ASSUME NEW S, NEW ps, ps \subseteq Panels, ps # {}
    PROVE  \E q \in ps : DataOf(S, ps) = S.inst[q]
<1>1. ps \subseteq Nat
  BY DEF Panels
<1>2. \E q \in ps : \A r \in ps : q <= r
  BY <1>1, LeastNumber
<1>3. (CHOOSE q \in ps : \A r \in ps : q <= r) \in ps
  BY <1>2
<1> QED
  BY <1>3 DEF DataOf

\* Some panels lose their instances.
WithNone(S, ps) == [S EXCEPT !.inst = [q \in Panels |-> IF q \in ps THEN 0 ELSE S.inst[q]]]

LEMMA Loses ==
    ASSUME NEW S \in Pages, NEW ps, NEW T, T = WithNone(S, ps)
    PROVE  /\ T \in Pages /\ (Undisturbed(S) => Undisturbed(T))
           /\ \A q \in Panels : T.inst[q] = IF q \in ps THEN 0 ELSE S.inst[q]
           /\ T.made = S.made /\ T.class = S.class /\ T.busy = S.busy /\ T.wait = S.wait
           /\ T.dead = S.dead /\ T.expanded = S.expanded
<1>0. /\ S.class \in [Panels -> Classes] /\ S.inst \in [Panels -> Nat]
      /\ S.busy \in SUBSET Nat /\ S.dead \in SUBSET Nat /\ S.made \in Nat
      /\ S.wait \in [Panels -> Seq(Waiting)] /\ S.expanded \in [DOMAIN Triggers -> BOOLEAN]
  BY Fields DEF Pages
<1>1. S \in PageType /\ Numbered(S)
  BY DEF Pages
<1>2. PICK f : f = [q \in Panels |-> IF q \in ps THEN 0 ELSE S.inst[q]]
  OBVIOUS
<1>3. f \in [Panels -> Nat] /\ \A q \in Panels : f[q] = IF q \in ps THEN 0 ELSE S.inst[q]
  BY <1>0, <1>2
<1>4. T = [class |-> S.class, inst |-> f, busy |-> S.busy, dead |-> S.dead,
           made |-> S.made, wait |-> S.wait, expanded |-> S.expanded]
  BY <1>1, <1>2 DEF PageType, WithNone
<1>5. T \in PageType
  <2>1. [class |-> S.class, inst |-> f, busy |-> S.busy, dead |-> S.dead,
         made |-> S.made, wait |-> S.wait, expanded |-> S.expanded] \in PageType
    BY <1>0, <1>3, RecordIsPage
  <2> QED
    BY <1>4, <2>1, Zenon
<1>6. /\ T.inst = f /\ T.made = S.made /\ T.class = S.class /\ T.busy = S.busy
      /\ T.wait = S.wait /\ T.dead = S.dead /\ T.expanded = S.expanded
  BY <1>4
<1>7. 0 \notin S.dead
  BY <1>0, <1>1 DEF Numbered
<1>8. Numbered(T)
  <2>1. Carried(T)
    BY <1>1, <1>6 DEF Numbered, Carried
  <2>2. \A q \in Panels : T.inst[q] = 0 \/ T.inst[q] = S.inst[q]
    BY <1>3, <1>6
  <2>3. \A q \in Panels : T.inst[q] <= T.made /\ T.inst[q] \notin T.dead
    BY <1>0, <1>1, <1>6, <1>7, <2>2 DEF Numbered
  <2>4. \A q, r \in Panels : T.inst[q] = T.inst[r] => q = r \/ T.inst[q] = 0
    BY <1>1, <2>2 DEF Numbered
  <2> QED
    BY <1>1, <1>6, <2>1, <2>3, <2>4 DEF Numbered
<1>9. Undisturbed(S) => Undisturbed(T)
  BY <1>6 DEF Undisturbed, Moving
<1> QED
  BY <1>3, <1>5, <1>6, <1>8, <1>9 DEF Pages

\* The triggers of the panel are expanded.
Expanded(S, p) == [t \in DOMAIN Triggers |-> p \in Triggers[t] \/ S.expanded[t]]

Others(S, p) == actives(S) \ _selector(p)

\* What becomes of the page while a panel is shown: the others hide, and if the
\* first of them had no instance all that were active lose theirs.
IsShown(S, T, p, i, no) ==
    \E H, R \in Pages :
        /\ HaveHidden(S, H, Others(S, p), no)
        /\ H = hideOthers(S, Others(S, p), no)
        /\ R = IF DataOf(S, Others(S, p)) # 0 THEN H ELSE WithNone(H, actives(S))
        /\ IsMoved(R, T, p, i, "show") /\ T.expanded = Expanded(R, p)

LEMMA ShowKeeps ==
    ASSUME N \in Nat, NEW S \in Pages, NEW p \in Panels, NEW i, May(S, p, i), NEW no,
           NEW T, T = show(S, p, i, no)
    PROVE  /\ T \in Pages /\ Grows(S, T) /\ May(T, p, i)
           /\ IF i \in S.busy \/ Open(S, p) \/ DataOf(S, Others(S, p)) \in S.busy \/ p \in no
              THEN T = S
              ELSE IsShown(S, T, p, i, no)
<1>0. S \in PageType /\ Others(S, p) \subseteq Panels /\ i \in Nat
  BY DEF Pages, Others, actives, May
<1>1. CASE i \in S.busy \/ Open(S, p) \/ DataOf(S, Others(S, p)) \in S.busy \/ p \in no
  <2>1. T = S
    BY <1>1 DEF show, Others
  <2> QED
    BY <1>0, <1>1, <2>1, GrowsReflexive
<1>2. CASE ~(i \in S.busy \/ Open(S, p) \/ DataOf(S, Others(S, p)) \in S.busy \/ p \in no)
  <2> DEFINE H == hideOthers(S, Others(S, p), no)
             R == IF DataOf(S, Others(S, p)) # 0 THEN H ELSE WithNone(H, actives(S))
             e == [t \in DOMAIN Triggers |-> p \in Triggers[t] \/ Move(R, p, i, "show").expanded[t]]
  <2>1. T = [Move(R, p, i, "show") EXCEPT !.expanded = e]
    BY <1>2, Zenon DEF show, Others, WithNone
  <2>2. H \in Pages /\ HaveHidden(S, H, Others(S, p), no)
    BY <1>0, HideOthers
  <2> HIDE DEF H
  <2>3. Grows(S, H) /\ May(H, p, i)
    BY <2>2, GrowsMay DEF HaveHidden
  <2>4. /\ R \in Pages /\ Grows(S, R) /\ May(R, p, i)
    <3>1. CASE DataOf(S, Others(S, p)) # 0
      BY <2>2, <2>3, <3>1
    <3>2. CASE DataOf(S, Others(S, p)) = 0
      <4>1. R = WithNone(H, actives(S))
        BY <3>2
      <4> HIDE DEF R
      <4>2. /\ R \in Pages /\ (Undisturbed(H) => Undisturbed(R))
            /\ \A q \in Panels : R.inst[q] = IF q \in actives(S) THEN 0 ELSE H.inst[q]
            /\ R.made = H.made /\ R.busy = H.busy /\ R.dead = H.dead
        BY <2>2, <4>1, Loses
      <4>3. Grows(S, R)
        BY <2>3, <4>2 DEF Grows
      <4> QED
        BY <4>2, <4>3, GrowsMay
    <3> QED
      BY <3>1, <3>2
  <2>5. R = IF DataOf(S, Others(S, p)) # 0 THEN H ELSE WithNone(H, actives(S))
    OBVIOUS
  <2> HIDE DEF R
  <2>6. R \in PageType /\ R.expanded \in [DOMAIN Triggers -> BOOLEAN]
    BY <2>4, Fields DEF Pages
  <2>7. Move(R, p, i, "show").expanded = R.expanded
    BY <2>6 DEF Move, PageType
  <2>8. e = Expanded(R, p) /\ e \in [DOMAIN Triggers -> BOOLEAN]
    <3>1. e = Expanded(R, p)
      BY <2>7, Zenon DEF Expanded
    <3>2. \A t \in DOMAIN Triggers : (p \in Triggers[t] \/ R.expanded[t]) \in BOOLEAN
      OBVIOUS
    <3>3. Expanded(R, p) \in [DOMAIN Triggers -> BOOLEAN]
      BY <3>2 DEF Expanded
    <3> QED
      BY <3>1, <3>3
  <2> HIDE DEF e
  <2>9. T \in PageType /\ IsMoved(R, T, p, i, "show") /\ T.expanded = e
    BY <1>0, <2>1, <2>6, <2>8, Moves
  <2>10. T \in Pages /\ Grows(R, T) /\ May(T, p, i)
    BY <2>4, <2>9, MovedKeeps
  <2>11. Grows(S, T)
    BY <1>0, <2>4, <2>6, <2>9, <2>10, GrowsTransitive
  <2>12. IsShown(S, T, p, i, no)
    BY <2>2, <2>4, <2>5, <2>8, <2>9 DEF IsShown, H
  <2> QED
    BY <1>2, <2>10, <2>11, <2>12
<1> QED
  BY <1>1, <1>2

-----------------------------------------------------------------------------
(* An accordion that nothing has disturbed.                                *)

\* A panel is at rest, or its own instance waits for its transition.
CalmAt(S, p) ==
    \/ S.wait[p] = <<>> /\ ~Moving(S, p) /\ S.inst[p] \notin S.busy
    \/ /\ Len(S.wait[p]) = 1 /\ S.wait[p][1].inst = S.inst[p] /\ S.inst[p] \in S.busy
       /\ Moving(S, p)

\* The panel is open, or will be.
Will(S, p) == Open(S, p) \/ (S.wait[p] # <<>> /\ S.wait[p][1].do = "show")

Calm(S) ==
    /\ \A p \in Panels : CalmAt(S, p)
    /\ \A p, q \in Panels : Will(S, p) /\ Will(S, q) => p = q

\* An instance was lost in the middle of a transition.
Lost(S) == \E i \in S.busy : \A p \in Panels : S.inst[p] # i

\* V is T after the panel p has got its instance i.
IsMine(T, V, p, i) ==
    /\ V.class = T.class /\ V.busy = T.busy /\ V.wait = T.wait /\ V.inst[p] = i
    /\ V.dead = T.dead /\ V.expanded = T.expanded
    /\ \A q \in Panels : q # p => V.inst[q] = T.inst[q]

LEMMA LostStays ==
    ASSUME NEW S \in Pages, NEW T \in Pages, Grows(S, T), Lost(S)
    PROVE  Lost(T)
<1>1. /\ S.made \in Nat /\ S.busy \subseteq 1..S.made /\ T.inst \in [Panels -> Nat]
  BY Fields DEF Pages, Numbered
<1>2. PICK i \in S.busy : \A p \in Panels : S.inst[p] # i
  BY DEF Lost
<1>3. i \in T.busy /\ i \in 1..S.made
  BY <1>1 DEF Grows
<1>4. \A p \in Panels : T.inst[p] # i
  BY <1>1, <1>2, <1>3 DEF Grows
<1> QED
  BY <1>3, <1>4 DEF Lost

LEMMA ClassIs ==
    ASSUME NEW S \in Pages, NEW p \in Panels
    PROVE  /\ Moving(S, p) => ~Open(S, p)
           /\ Accordion => (p \in actives(S) <=> Open(S, p) \/ Moving(S, p))
<1>1. S.class[p] \in Classes
  BY Fields DEF Pages
<1>2. S.class[p] = {"collapse"} \/ S.class[p] = {"collapse", "show"} \/ S.class[p] = {"collapsing"}
  BY <1>1 DEF Classes
<1> QED
  BY <1>2 DEF Moving, Open, actives

\* A panel that gets an instance while nothing moves it.
LEMMA MineCalm ==
    ASSUME NEW S \in Pages, Calm(S), NEW p \in Panels, NEW i, May(S, p, i),
           S.inst[p] = i \/ (S.inst[p] = 0 /\ i \notin S.busy),
           NEW V, IsMine(S, V, p, i)
    PROVE  Calm(V)
<1>1. S.busy \subseteq 1..S.made /\ S.made \in Nat
  BY Fields DEF Pages, Numbered
<1>2. CalmAt(V, p)
  <2>1. CalmAt(S, p)
    BY DEF Calm
  <2> QED
    BY <1>1, <2>1 DEF CalmAt, IsMine, Moving
<1>3. ASSUME NEW q \in Panels, q # p PROVE CalmAt(V, q)
  <2>1. CalmAt(S, q)
    BY DEF Calm
  <2> QED
    BY <1>3, <2>1 DEF CalmAt, IsMine, Moving
<1>4. \A q : Will(V, q) <=> Will(S, q)
  BY DEF Will, IsMine, Open
<1> QED
  BY <1>2, <1>3, <1>4 DEF Calm

\* A panel at rest that starts to move.
LEMMA MovedCalm ==
    ASSUME NEW R \in Pages, NEW T, NEW p \in Panels, NEW i, May(R, p, i), i \notin R.busy,
           NEW do \in {"show", "hide"}, IsMoved(R, T, p, i, do), R.wait[p] = <<>>,
           \A q \in Panels : q # p => CalmAt(R, q),
           NEW V, IsMine(T, V, p, i)
    PROVE  /\ \A q \in Panels : CalmAt(V, q)
           /\ Will(V, p) => do = "show"
           /\ \A q \in Panels : q # p => (Will(V, q) <=> Will(R, q))
<1>1. R.wait \in [Panels -> Seq(Waiting)] /\ R.class \in [Panels -> Classes]
  BY Fields DEF Pages
<1>2. PICK c : c = [inst |-> i, do |-> do]
  OBVIOUS
<1>3. /\ T.class[p] = {"collapsing"} /\ T.wait[p] = Append(R.wait[p], c)
      /\ T.busy = R.busy \cup {i}
      /\ \A q \in Panels : q # p => /\ T.class[q] = R.class[q] /\ T.wait[q] = R.wait[q]
                                    /\ T.inst[q] = R.inst[q]
  BY <1>1, <1>2 DEF IsMoved
<1>4. T.wait[p] = <<c>> /\ c.inst = i /\ c.do = do
  BY <1>2, <1>3
<1>5. Len(T.wait[p]) = 1 /\ T.wait[p][1] = c /\ T.wait[p] # <<>>
  BY <1>4
<1>6. CalmAt(V, p)
  BY <1>3, <1>4, <1>5 DEF CalmAt, IsMine, Moving
<1>7. ASSUME NEW q \in Panels, q # p PROVE CalmAt(V, q)
  <2>1. CalmAt(R, q) /\ R.inst[q] # i
    BY <1>7 DEF May
  <2>2. /\ V.class[q] = R.class[q] /\ V.wait[q] = R.wait[q] /\ V.inst[q] = R.inst[q]
        /\ V.busy = R.busy \cup {i}
    BY <1>3, <1>7 DEF IsMine
  <2> QED
    BY <2>1, <2>2 DEF CalmAt, Moving
<1>8. Will(V, p) => do = "show"
  BY <1>3, <1>4, <1>5 DEF Will, IsMine, Open
<1>9. \A q \in Panels : q # p => (Will(V, q) <=> Will(R, q))
  BY <1>3 DEF Will, IsMine, Open
<1> QED
  BY <1>6, <1>7, <1>8, <1>9

LEMMA HideCalm ==
    ASSUME NEW S \in Pages, Calm(S), NEW p \in Panels, NEW i, May(S, p, i), NEW no,
           S.inst[p] = i \/ (S.inst[p] = 0 /\ i \notin S.busy),
           NEW T, T = hide(S, p, i, no), NEW V, IsMine(T, V, p, i)
    PROVE  Calm(V)
<1>1. IF i \in S.busy \/ ~Open(S, p) \/ p \in no THEN T = S ELSE IsMoved(S, T, p, i, "hide")
  BY HideKeeps
<1>2. CASE T = S
  BY <1>2, MineCalm
<1>3. CASE IsMoved(S, T, p, i, "hide") /\ i \notin S.busy /\ Open(S, p)
  <2>1. S.wait[p] = <<>> /\ \A q \in Panels : CalmAt(S, q)
    BY <1>3, ClassIs DEF Calm, CalmAt
  <2>2. /\ \A q \in Panels : CalmAt(V, q)
        /\ Will(V, p) => "hide" = "show"
        /\ \A q \in Panels : q # p => (Will(V, q) <=> Will(S, q))
    BY <1>3, <2>1, MovedCalm
  <2> QED
    BY <2>2 DEF Calm
<1> QED
  BY <1>1, <1>2, <1>3

\* Every panel of the accordion has a trigger for it alone, or none.
OnePanelEach == Accordion /\ \A p \in Panels : _selector(p) \subseteq {p}

LEMMA ShowCalm ==
    ASSUME N \in Nat, OnePanelEach, NEW S \in Pages, Calm(S), NEW p \in Panels, NEW i, May(S, p, i),
           S.inst[p] = i \/ (S.inst[p] = 0 /\ i \notin S.busy),
           NEW T, T = show(S, p, i, {}), NEW V, IsMine(T, V, p, i)
    PROVE  Calm(V) \/ Lost(V)
<1> DEFINE O == Others(S, p)
<1>1. IF i \in S.busy \/ Open(S, p) \/ DataOf(S, O) \in S.busy THEN T = S
      ELSE IsShown(S, T, p, i, {})
  BY ShowKeeps
<1>2. CASE T = S
  BY <1>2, MineCalm
<1>3. CASE IsShown(S, T, p, i, {}) /\ i \notin S.busy /\ ~Open(S, p) /\ DataOf(S, O) \notin S.busy
  <2>0. /\ S.busy \subseteq 1..S.made /\ S.made \in Nat /\ Numbered(S)
        /\ S.inst \in [Panels -> Nat] /\ i \in 1..S.made
    BY Fields DEF Pages, Numbered, May
  <2>1. S.wait[p] = <<>> /\ ~Moving(S, p) /\ \A q \in Panels : CalmAt(S, q)
    BY <1>3, <2>0 DEF Calm, CalmAt
  <2>2. O \subseteq Panels /\ p \notin O /\ \A q \in Panels : q \in O <=> Open(S, q) \/ Moving(S, q)
    <3>1. \A q \in Panels : q \in actives(S) <=> Open(S, q) \/ Moving(S, q)
      BY ClassIs DEF OnePanelEach
    <3>2. p \notin actives(S) /\ actives(S) \subseteq Panels
      BY <1>3, <2>1, <3>1 DEF actives
    <3>3. O = actives(S)
      BY <3>2 DEF Others, OnePanelEach
    <3> QED
      BY <3>1, <3>2, <3>3
  <2>3. PICK H, R \in Pages :
            /\ HaveHidden(S, H, O, {})
            /\ R = IF DataOf(S, O) # 0 THEN H ELSE WithNone(H, actives(S))
            /\ IsMoved(R, T, p, i, "show")
    BY <1>3 DEF IsShown
  <2> HIDE DEF O
  <2>4. /\ Numbered(H) /\ H.inst \in [Panels -> Nat] /\ H.made \in Nat /\ Grows(S, H)
        /\ May(H, p, i) /\ S.busy \subseteq H.busy
    BY <2>3, Fields, GrowsMay DEF Pages, HaveHidden, Grows
  <2>5. /\ H.inst[p] = S.inst[p] /\ H.class[p] = S.class[p] /\ H.wait[p] = S.wait[p]
    BY <2>2, <2>3 DEF HaveHidden
  <2>6. CASE O = {}
    <3>1. /\ \A q \in Panels : H.inst[q] = S.inst[q] /\ H.class[q] = S.class[q] /\ H.wait[q] = S.wait[q]
          /\ H.busy = S.busy
      BY <2>3, <2>4, <2>6 DEF HaveHidden
    <3>2. actives(S) \cap Panels = {}
      BY <2>2, <2>6, ClassIs DEF OnePanelEach
    <3>3. /\ R \in Pages /\ R.class = H.class /\ R.wait = H.wait /\ R.busy = H.busy
          /\ R.made = H.made /\ R.dead = H.dead
          /\ \A q \in Panels : R.inst[q] = H.inst[q]
      <4>1. R = H \/ R = WithNone(H, actives(S))
        BY <2>3
      <4>2. CASE R = WithNone(H, actives(S))
        BY <2>3, <3>2, <4>2, Loses
      <4> QED
        BY <2>3, <4>1, <4>2
    <3>4. May(R, p, i) /\ i \notin R.busy /\ R.wait[p] = <<>>
      BY <1>3, <2>1, <2>4, <3>1, <3>3 DEF May
    <3>5. \A q \in Panels : CalmAt(R, q)
      BY <2>1, <3>1, <3>3 DEF CalmAt, Moving
    <3>6. /\ \A q \in Panels : CalmAt(V, q)
          /\ \A q \in Panels : q # p => (Will(V, q) <=> Will(R, q))
      BY <2>3, <3>4, <3>5, MovedCalm
    <3>7. \A q \in Panels : q # p => ~Will(R, q)
      BY <2>1, <2>2, <2>6, <3>1, <3>3 DEF Will, CalmAt, Open
    <3>8. Calm(V)
      BY <3>6, <3>7 DEF Calm
    <3> QED
      BY <3>8
  <2>7. CASE O # {}
    <3>1. PICK h \in O : DataOf(S, O) = S.inst[h]
      BY <2>2, <2>7, DataOfOne
    <3>2. /\ h \in Panels /\ h # p /\ S.inst[h] \notin S.busy /\ Open(S, h) /\ Hides(S, h, {})
          /\ S.wait[h] = <<>>
      <4>1. h \in Panels /\ h # p /\ S.inst[h] \notin S.busy
        BY <1>3, <2>2, <3>1 DEF O
      <4>2. S.wait[h] = <<>> /\ ~Moving(S, h)
        BY <2>1, <4>1 DEF CalmAt
      <4> QED
        BY <2>2, <3>1, <4>1, <4>2 DEF Hides
    <3>3. /\ Moving(H, h) /\ H.inst[h] \in H.busy
          /\ H.wait[h] = Append(S.wait[h], [inst |-> H.inst[h], do |-> "hide"])
          /\ IF S.inst[h] # 0 THEN H.inst[h] = S.inst[h] ELSE H.inst[h] > S.made
      BY <2>3, <3>2 DEF HaveHidden
    <3>4. \A q \in O : q # h => ~Open(S, q) /\ Moving(S, q) /\ S.inst[q] \in S.busy /\ S.inst[q] # 0
      <4> SUFFICES ASSUME NEW q \in O, q # h
                   PROVE  ~Open(S, q) /\ Moving(S, q) /\ S.inst[q] \in S.busy /\ S.inst[q] # 0
        OBVIOUS
      <4>1. q \in Panels /\ ~Open(S, q)
        BY <2>2, <3>2 DEF Calm, Will
      <4>2. Moving(S, q)
        BY <2>2, <4>1
      <4>3. S.inst[q] \in S.busy
        BY <2>1, <4>1, <4>2 DEF CalmAt
      <4> QED
        BY <2>0, <4>1, <4>2, <4>3
    <3>5. \A q \in Panels : q # h => H.class[q] = S.class[q] /\ H.wait[q] = S.wait[q] /\ H.inst[q] = S.inst[q]
      <4> SUFFICES ASSUME NEW q \in Panels, q # h
                   PROVE  H.class[q] = S.class[q] /\ H.wait[q] = S.wait[q] /\ H.inst[q] = S.inst[q]
        OBVIOUS
      <4>1. CASE q \in O
        <5>1. S.inst[q] # 0 /\ ~Hides(S, q, {})
          BY <3>4, <4>1 DEF Hides
        <5> QED
          BY <2>3, <4>1, <5>1 DEF HaveHidden
      <4>2. CASE q \notin O
        BY <2>3, <4>2 DEF HaveHidden
      <4> QED
        BY <4>1, <4>2
    <3>6. H.busy = S.busy \cup {H.inst[h]}
      <4>1. \A r \in O : Hides(S, r, {}) => r = h
        BY <3>4 DEF Hides
      <4>2. \A j \in H.busy : j \in S.busy \/ j = H.inst[h]
        BY <2>3, <4>1 DEF HaveHidden
      <4> QED
        BY <2>4, <3>3, <4>2
    <3>7. CASE S.inst[h] # 0
      <4>1. R = H /\ H.inst[h] = S.inst[h]
        BY <2>3, <3>1, <3>3, <3>7
      <4>2. H.inst[h] # i /\ i \notin H.busy
        BY <1>3, <2>4, <3>2, <3>6 DEF May
      <4>3. CalmAt(H, h) /\ ~Will(H, h)
        <5>1. PICK c : c = [inst |-> H.inst[h], do |-> "hide"]
          OBVIOUS
        <5>2. H.wait[h] = <<c>> /\ c.inst = H.inst[h] /\ c.do = "hide"
          BY <3>2, <3>3, <5>1
        <5>3. Len(H.wait[h]) = 1 /\ H.wait[h][1] = c
          BY <5>2
        <5>4. CalmAt(H, h)
          BY <3>3, <5>2, <5>3 DEF CalmAt
        <5>5. ~Open(H, h)
          BY <2>3, <3>2, <3>3, ClassIs
        <5> QED
          BY <5>2, <5>3, <5>4, <5>5 DEF Will
      <4>4. \A q \in Panels : q # p => CalmAt(H, q)
        <5> SUFFICES ASSUME NEW q \in Panels, q # p, q # h PROVE CalmAt(H, q)
          BY <4>3
        <5>1. CalmAt(S, q) /\ S.inst[q] # S.inst[h]
          BY <2>0, <2>1, <3>2, <3>7 DEF Numbered
        <5>2. H.class[q] = S.class[q] /\ H.wait[q] = S.wait[q] /\ H.inst[q] = S.inst[q]
          BY <3>5
        <5> QED
          BY <3>6, <4>1, <5>1, <5>2 DEF CalmAt, Moving
      <4>5. H.wait[p] = <<>>
        BY <2>1, <2>5
      <4>6. /\ \A q \in Panels : CalmAt(V, q)
            /\ \A q \in Panels : q # p => (Will(V, q) <=> Will(H, q))
        <5>1. IsMoved(H, T, p, i, "show")
          BY <2>3, <4>1
        <5> QED
          BY <2>4, <4>2, <4>4, <4>5, <5>1, MovedCalm
      <4>7. \A q \in Panels : q # p => ~Will(H, q)
        <5> SUFFICES ASSUME NEW q \in Panels, q # h, Will(H, q) PROVE FALSE
          BY <4>3
        <5>1. Will(S, q)
          BY <3>5 DEF Will, Open
        <5> QED
          BY <3>2, <5>1 DEF Calm, Will
      <4>8. Calm(V)
        BY <4>6, <4>7 DEF Calm
      <4> QED
        BY <4>8
    <3>8. CASE S.inst[h] = 0
      <4>1. R = WithNone(H, actives(S)) /\ h \in actives(S)
        BY <2>3, <3>1, <3>8 DEF O, Others
      <4>2. /\ \A q \in Panels : R.inst[q] = IF q \in actives(S) THEN 0 ELSE H.inst[q]
            /\ R.busy = H.busy
        BY <2>3, <4>1, Loses
      <4>3. V.busy = H.busy \cup {i} /\ \A q \in Panels : q # p => V.inst[q] = R.inst[q]
        BY <2>3, <4>2 DEF IsMoved, IsMine
      <4> DEFINE j == H.inst[h]
      <4>4. j \in V.busy /\ j # 0 /\ j # i
        BY <2>0, <2>4, <3>2, <3>3, <3>8, <4>3
      <4>5. ASSUME NEW q \in Panels PROVE V.inst[q] # j
        <5>1. CASE q = p
          BY <4>4, <5>1 DEF IsMine
        <5>2. CASE q = h
          BY <3>2, <4>1, <4>2, <4>3, <4>4, <5>2
        <5>3. CASE q # p /\ q # h
          <6>1. H.inst[q] # j
            BY <2>4, <3>2, <4>4, <5>3 DEF Numbered
          <6> QED
            BY <4>2, <4>3, <4>4, <5>3, <6>1
        <5> QED
          BY <5>1, <5>2, <5>3
      <4>6. Lost(V)
        BY <4>4, <4>5 DEF Lost
      <4> QED
        BY <4>6
    <3> QED
      BY <3>7, <3>8
  <2> QED
    BY <2>6, <2>7
<1> QED
  BY <1>1, <1>2, <1>3

-----------------------------------------------------------------------------
(* Panels without a parent.                                                *)

Final(S, p) == S.wait[p][Len(S.wait[p])]

\* Only the newest callback of a panel may be that of a living instance, which
\* is the panel's own and in transition.
FitAt(S, p) ==
    /\ \A k \in 1..Len(S.wait[p]) - 1 : S.wait[p][k].inst \in S.dead
    /\ S.wait[p] # <<>> => Moving(S, p)
    /\ S.wait[p] # <<>> /\ Final(S, p).inst \notin S.dead =>
          Final(S, p).inst = S.inst[p] /\ S.inst[p] \in S.busy
    /\ S.inst[p] \in S.busy => S.wait[p] # <<>> /\ Final(S, p).inst = S.inst[p]

\* The panel is open or opens, or it is stuck half open.
Up(S, p) == Open(S, p) \/ (Moving(S, p) /\ (S.wait[p] # <<>> => Final(S, p).do = "show"))

\* A trigger is expanded only if some panel of it is up, and if its only panel
\* is open, or opens for a living instance.
Told(S) ==
    /\ \A t \in DOMAIN Triggers : S.expanded[t] => \E q \in Triggers[t] : Up(S, q)
    /\ \A t \in DOMAIN Triggers, p \in Panels : Triggers[t] = {p} =>
          /\ Open(S, p) => S.expanded[t]
          /\ S.wait[p] # <<>> /\ Final(S, p).do = "show" /\ Final(S, p).inst \notin S.dead
                => S.expanded[t]

Fit(S) == (\A p \in Panels : FitAt(S, p)) /\ Told(S)

LEMMA MineFits ==
    ASSUME NEW S \in Pages, Fit(S), NEW p \in Panels, NEW i, May(S, p, i),
           S.inst[p] = i \/ (S.inst[p] = 0 /\ i \notin S.busy),
           NEW V, IsMine(S, V, p, i)
    PROVE  Fit(V)
<1>1. S.busy \subseteq 1..S.made /\ S.made \in Nat
  BY Fields DEF Pages, Numbered
<1>2. \A q \in Panels : V.class[q] = S.class[q] /\ V.wait[q] = S.wait[q]
  BY DEF IsMine
<1>3. V.busy = S.busy /\ V.dead = S.dead /\ V.expanded = S.expanded /\ V.wait = S.wait /\ V.class = S.class
  BY DEF IsMine
<1>4. FitAt(V, p)
  <2>1. FitAt(S, p)
    BY DEF Fit
  <2> QED
    BY <1>1, <1>3, <2>1 DEF FitAt, IsMine, Moving, Final
<1>5. ASSUME NEW q \in Panels, q # p PROVE FitAt(V, q)
  <2>1. FitAt(S, q) /\ V.inst[q] = S.inst[q]
    BY <1>5 DEF Fit, IsMine
  <2> QED
    BY <1>3, <2>1 DEF FitAt, Moving, Final
<1>6. Told(V)
  <2>1. \A q : Open(V, q) <=> Open(S, q)
    BY <1>3 DEF Open
  <2>2. \A q : (Moving(V, q) <=> Moving(S, q)) /\ Final(V, q) = Final(S, q)
    BY <1>3 DEF Moving, Final
  <2>3. \A q : Up(V, q) <=> Up(S, q)
    BY <1>3, <2>1, <2>2 DEF Up
  <2>4. Told(S)
    BY DEF Fit
  <2> QED
    BY <1>3, <2>1, <2>2, <2>3, <2>4, ZenonT(40) DEF Told
<1> QED
  BY <1>4, <1>5, <1>6 DEF Fit

\* What the start of a transition of panel p leaves: all panels fit.
FitMoved(S, V, p, do) ==
    /\ \A q \in Panels : FitAt(V, q)
    /\ Moving(V, p) /\ ~Open(V, p) /\ V.wait[p] # <<>> /\ Final(V, p).do = do
    /\ V.dead = S.dead
    /\ \A q \in Panels : q # p => V.class[q] = S.class[q] /\ V.wait[q] = S.wait[q]

\* The callbacks of a panel whose instance i starts a transition.
LEMMA MovedFits ==
    ASSUME NEW S \in Pages, NEW T, NEW p \in Panels, NEW i, May(S, p, i), i \notin S.busy,
           NEW do \in {"show", "hide"}, IsMoved(S, T, p, i, do), \A q \in Panels : FitAt(S, q),
           S.inst[p] = i \/ S.inst[p] = 0, NEW V, IsMine(T, V, p, i)
    PROVE  FitMoved(S, V, p, do)
<1>0. /\ S.wait \in [Panels -> Seq(Waiting)] /\ S.class \in [Panels -> Classes]
      /\ S.busy \subseteq 1..S.made /\ S.made \in Nat /\ i \in Nat
  BY Fields DEF Pages, Numbered, May
<1>1. PICK c : c = [inst |-> i, do |-> do]
  OBVIOUS
<1>2. c \in Waiting /\ c.inst = i /\ c.do = do
  BY <1>0, <1>1 DEF Waiting
<1>3. /\ V.class[p] = {"collapsing"} /\ V.wait[p] = Append(S.wait[p], c)
      /\ V.busy = S.busy \cup {i} /\ V.dead = S.dead /\ V.inst[p] = i
      /\ \A q \in Panels : q # p => /\ V.class[q] = S.class[q] /\ V.wait[q] = S.wait[q]
                                    /\ V.inst[q] = S.inst[q]
  BY <1>0, <1>1 DEF IsMoved, IsMine
<1>4. /\ S.wait[p] \in Seq(Waiting) /\ Len(S.wait[p]) \in Nat /\ V.wait[p] # <<>>
      /\ Len(V.wait[p]) = Len(S.wait[p]) + 1 /\ V.wait[p][Len(S.wait[p]) + 1] = c
      /\ \A k \in 1..Len(S.wait[p]) : V.wait[p][k] = S.wait[p][k]
  <2>1. S.wait[p] \in Seq(Waiting)
    BY <1>0
  <2> QED
    BY <1>2, <1>3, <2>1, AppendProperties, LenProperties
<1>5. Final(V, p) = c
  BY <1>4 DEF Final
<1>6. FitAt(V, p)
  <2>1. FitAt(S, p) /\ S.inst[p] \notin S.busy
    BY <1>0
  <2>2. ASSUME NEW k \in 1..Len(V.wait[p]) - 1 PROVE V.wait[p][k].inst \in V.dead
    <3>1. k \in 1..Len(S.wait[p]) /\ V.wait[p][k] = S.wait[p][k]
      BY <1>4
    <3>2. CASE k = Len(S.wait[p])
      <4>1. S.wait[p] # <<>>
        BY <1>4, <3>1, EmptySeq
      <4>2. Final(S, p).inst \in S.dead
        BY <2>1, <4>1 DEF FitAt
      <4> QED
        BY <1>3, <3>1, <3>2, <4>2 DEF Final
    <3>3. CASE k # Len(S.wait[p])
      <4>1. k \in 1..Len(S.wait[p]) - 1
        BY <1>4, <3>1, <3>3
      <4> QED
        BY <1>3, <2>1, <3>1, <4>1 DEF FitAt
    <3> QED
      BY <3>2, <3>3
  <2> QED
    BY <1>2, <1>3, <1>4, <1>5, <2>2 DEF FitAt, Moving
<1>7. ASSUME NEW q \in Panels, q # p PROVE FitAt(V, q)
  <2>1. FitAt(S, q) /\ S.inst[q] # i
    BY <1>7 DEF May
  <2>2. V.class[q] = S.class[q] /\ V.wait[q] = S.wait[q] /\ V.inst[q] = S.inst[q]
    BY <1>3, <1>7
  <2> QED
    BY <1>3, <2>1, <2>2 DEF FitAt, Moving, Final
<1> QED
  BY <1>2, <1>3, <1>4, <1>5, <1>6, <1>7 DEF Moving, Open, FitMoved

LEMMA HideFits ==
    ASSUME Triggers \in Seq(SUBSET Panels), NEW S \in Pages, Fit(S),
           NEW p \in Panels, NEW i, May(S, p, i), NEW no,
           S.inst[p] = i \/ (S.inst[p] = 0 /\ i \notin S.busy),
           NEW T, T = hide(S, p, i, no), NEW V, IsMine(T, V, p, i)
    PROVE  Fit(V)
<1>1. IF i \in S.busy \/ ~Open(S, p) \/ p \in no THEN T = S
      ELSE IsMoved(S, T, p, i, "hide") /\ T.expanded = Collapsed(S, T, p)
  BY HideKeeps
<1>2. CASE T = S
  BY <1>2, MineFits
<1>3. CASE /\ IsMoved(S, T, p, i, "hide") /\ i \notin S.busy /\ Open(S, p)
           /\ T.expanded = Collapsed(S, T, p)
  <2>1. /\ \A q \in Panels : FitAt(V, q)
        /\ Moving(V, p) /\ ~Open(V, p) /\ V.wait[p] # <<>> /\ Final(V, p).do = "hide"
        /\ V.dead = S.dead
        /\ \A q \in Panels : q # p => V.class[q] = S.class[q] /\ V.wait[q] = S.wait[q]
    <3>1. (\A q \in Panels : FitAt(S, q)) /\ (S.inst[p] = i \/ S.inst[p] = 0)
      BY DEF Fit
    <3>2. IsMoved(S, T, p, i, "hide") /\ i \notin S.busy
      BY <1>3
    <3>3. FitMoved(S, V, p, "hide")
      BY <3>1, <3>2, MovedFits
    <3> QED
      BY <3>3 DEF FitMoved
  <2>2. \A t \in DOMAIN Triggers : Triggers[t] \subseteq Panels
    OBVIOUS
  <2>3. \A t \in DOMAIN Triggers :
           V.expanded[t] <=> (S.expanded[t] /\ ~(p \in Triggers[t] /\ ~\E q \in Triggers[t] : Open(V, q)))
    <3>1. V.expanded = Collapsed(S, T, p) /\ V.class = T.class
      BY <1>3 DEF IsMine
    <3>2. \A q : Open(V, q) <=> Open(T, q)
      BY <3>1 DEF Open
    <3>3. V.expanded = [t \in DOMAIN Triggers |->
              S.expanded[t] /\ ~(p \in Triggers[t] /\ ~\E q \in Triggers[t] : Open(T, q))]
      BY <3>1, Zenon DEF Collapsed
    <3> QED
      BY <3>2, <3>3, Zenon
  <2>4. \A q \in Panels : q # p => (Up(V, q) <=> Up(S, q)) /\ (Open(V, q) <=> Open(S, q))
    BY <2>1 DEF Up, Open, Moving, Final
  <2>5. ASSUME NEW t \in DOMAIN Triggers, V.expanded[t] PROVE \E q \in Triggers[t] : Up(V, q)
    <3>1. CASE p \in Triggers[t]
      BY <2>3, <2>5, <3>1 DEF Up
    <3>2. CASE p \notin Triggers[t]
      <4>1. PICK q \in Triggers[t] : Up(S, q)
        BY <2>3, <2>5 DEF Fit, Told
      <4> QED
        BY <2>2, <2>4, <3>2, <4>1
    <3> QED
      BY <3>1, <3>2
  <2>6. ASSUME NEW t \in DOMAIN Triggers, NEW q \in Panels, Triggers[t] = {q},
               \/ Open(V, q)
               \/ V.wait[q] # <<>> /\ Final(V, q).do = "show" /\ Final(V, q).inst \notin V.dead
        PROVE  V.expanded[t]
    <3>1. q # p
      BY <2>1, <2>6
    <3>2. \/ Open(S, q)
          \/ S.wait[q] # <<>> /\ Final(S, q).do = "show" /\ Final(S, q).inst \notin S.dead
      BY <2>1, <2>4, <2>6, <3>1 DEF Final
    <3>3. S.expanded[t]
      BY <2>6, <3>2 DEF Fit, Told
    <3> QED
      BY <2>3, <2>6, <3>1, <3>3
  <2> QED
    BY <2>1, <2>5, <2>6 DEF Fit, Told
<1> QED
  BY <1>1, <1>2, <1>3

\* Panel p alone starts to show.
ShownAlone(S, T, p, i) ==
    /\ IsMoved(S, T, p, i, "show") /\ i \notin S.busy /\ ~Open(S, p)
    /\ T.expanded = Expanded(S, p)

\* Without a parent no other panel is active, so nothing else changes.
LEMMA ShowsAlone ==
    ASSUME N \in Nat, Accordion = FALSE, NEW S \in Pages,
           NEW p \in Panels, NEW i, May(S, p, i), NEW no, NEW T, T = show(S, p, i, no)
    PROVE  T = S \/ ShownAlone(S, T, p, i)
<1>1. IF i \in S.busy \/ Open(S, p) \/ DataOf(S, Others(S, p)) \in S.busy \/ p \in no
      THEN T = S
      ELSE IsShown(S, T, p, i, no)
  BY ShowKeeps
<1>2. CASE IsShown(S, T, p, i, no) /\ i \notin S.busy /\ ~Open(S, p)
  <2>1. actives(S) = {} /\ Others(S, p) = {}
    BY DEF actives, Others
  <2>2. PICK H, R \in Pages :
            /\ HaveHidden(S, H, Others(S, p), no)
            /\ R = IF DataOf(S, Others(S, p)) # 0 THEN H ELSE WithNone(H, actives(S))
            /\ IsMoved(R, T, p, i, "show") /\ T.expanded = Expanded(R, p)
    BY <1>2 DEF IsShown
  <2>3. H = S
    BY <2>1, <2>2 DEF HaveHidden
  <2>4. R = S \/ R = WithNone(S, {})
    BY <2>1, <2>2, <2>3
  <2>5. CASE R = S
    BY <1>2, <2>2, <2>5 DEF ShownAlone
  <2>6. CASE R = WithNone(S, {})
    <3>1. /\ \A q \in Panels : R.inst[q] = S.inst[q]
          /\ R.made = S.made /\ R.class = S.class /\ R.busy = S.busy /\ R.wait = S.wait
          /\ R.dead = S.dead /\ R.expanded = S.expanded
      BY <2>6, Loses
    <3>2. R.inst \in [Panels -> Nat] /\ S.inst \in [Panels -> Nat]
      BY Fields DEF Pages
    <3>3. R.inst = S.inst
      BY <3>1, <3>2
    <3>4. IsMoved(S, T, p, i, "show")
      BY <2>2, <3>1, <3>3, Zenon DEF IsMoved
    <3>5. T.expanded = Expanded(S, p)
      BY <2>2, <3>1, Zenon DEF Expanded
    <3> QED
      BY <1>2, <3>4, <3>5 DEF ShownAlone
  <2> QED
    BY <2>4, <2>5, <2>6
<1> QED
  BY <1>1, <1>2

LEMMA ShowFits ==
    ASSUME N \in Nat, Triggers \in Seq(SUBSET Panels), Accordion = FALSE, NEW S \in Pages, Fit(S),
           NEW p \in Panels, NEW i, May(S, p, i), NEW no,
           S.inst[p] = i \/ (S.inst[p] = 0 /\ i \notin S.busy),
           NEW T, T = show(S, p, i, no), NEW V, IsMine(T, V, p, i)
    PROVE  Fit(V)
<1>1. T = S \/ ShownAlone(S, T, p, i)
  BY ShowsAlone
<1>2. CASE T = S
  BY <1>2, MineFits
<1>3. CASE ShownAlone(S, T, p, i)
  <2>0. /\ IsMoved(S, T, p, i, "show") /\ i \notin S.busy /\ ~Open(S, p)
        /\ T.expanded = Expanded(S, p)
    BY <1>3 DEF ShownAlone
  <2>1. /\ \A q \in Panels : FitAt(V, q)
        /\ Moving(V, p) /\ ~Open(V, p) /\ V.wait[p] # <<>> /\ Final(V, p).do = "show"
        /\ V.dead = S.dead
        /\ \A q \in Panels : q # p => V.class[q] = S.class[q] /\ V.wait[q] = S.wait[q]
    <3>1. (\A q \in Panels : FitAt(S, q)) /\ (S.inst[p] = i \/ S.inst[p] = 0)
      BY DEF Fit
    <3>2. IsMoved(S, T, p, i, "show") /\ i \notin S.busy
      BY <2>0
    <3>3. FitMoved(S, V, p, "show")
      BY <3>1, <3>2, MovedFits
    <3> QED
      BY <3>3 DEF FitMoved
  <2>2. \A t \in DOMAIN Triggers : Triggers[t] \subseteq Panels
    OBVIOUS
  <2>3. \A t \in DOMAIN Triggers : V.expanded[t] <=> (p \in Triggers[t] \/ S.expanded[t])
    <3>1. V.expanded = [t \in DOMAIN Triggers |-> p \in Triggers[t] \/ S.expanded[t]]
      BY <2>0, Zenon DEF IsMine, Expanded
    <3> QED
      BY <3>1, Zenon
  <2>4. \A q \in Panels : q # p => (Up(V, q) <=> Up(S, q)) /\ (Open(V, q) <=> Open(S, q))
    BY <2>1 DEF Up, Open, Moving, Final
  <2>5. ASSUME NEW t \in DOMAIN Triggers, V.expanded[t] PROVE \E q \in Triggers[t] : Up(V, q)
    <3>1. CASE p \in Triggers[t]
      BY <2>1, <3>1 DEF Up
    <3>2. CASE p \notin Triggers[t]
      <4>1. PICK q \in Triggers[t] : Up(S, q)
        BY <2>3, <2>5, <3>2 DEF Fit, Told
      <4> QED
        BY <2>2, <2>4, <3>2, <4>1
    <3> QED
      BY <3>1, <3>2
  <2>6. ASSUME NEW t \in DOMAIN Triggers, NEW q \in Panels, Triggers[t] = {q},
               \/ Open(V, q)
               \/ V.wait[q] # <<>> /\ Final(V, q).do = "show" /\ Final(V, q).inst \notin V.dead
        PROVE  V.expanded[t]
    <3>1. CASE q = p
      BY <2>3, <2>6, <3>1
    <3>2. CASE q # p
      <4>1. \/ Open(S, q)
            \/ S.wait[q] # <<>> /\ Final(S, q).do = "show" /\ Final(S, q).inst \notin S.dead
        BY <2>1, <2>4, <2>6, <3>2 DEF Final
      <4>2. S.expanded[t]
        BY <2>6, <4>1 DEF Fit, Told
      <4> QED
        BY <2>3, <4>2
    <3> QED
      BY <3>1, <3>2
  <2> QED
    BY <2>1, <2>5, <2>6 DEF Fit, Told
<1> QED
  BY <1>1, <1>2, <1>3

\* A panel gets its first instance: its triggers are made to agree with it.
LEMMA AgreedFits ==
    ASSUME Triggers \in Seq(SUBSET Panels), Accordion = FALSE, NEW S \in Pages, Fit(S),
           NEW p \in Panels, S.inst[p] = 0, NEW T, T = Constructed(S, p)
    PROVE  Fit(T)
<1>1. /\ T.class = S.class /\ T.inst = S.inst /\ T.busy = S.busy /\ T.wait = S.wait
      /\ T.dead = S.dead /\ T.expanded = Agreed(S, p)
  BY Constructs
<1>2. S.busy \subseteq 1..S.made /\ S.made \in Nat
  BY Fields DEF Pages, Numbered
<1>3. /\ \A q : Open(T, q) <=> Open(S, q)
      /\ \A q : (Moving(T, q) <=> Moving(S, q)) /\ Final(T, q) = Final(S, q)
  BY <1>1 DEF Open, Moving, Final
<1>4. ASSUME NEW q \in Panels PROVE FitAt(T, q)
  BY <1>1, <1>3 DEF Fit, FitAt
<1>5. \A q : Up(T, q) <=> Up(S, q)
  BY <1>1, <1>3 DEF Up
<1>6. \A t \in DOMAIN Triggers :
         T.expanded[t] <=> IF p \in Triggers[t] THEN Open(S, p) ELSE S.expanded[t]
  <2>1. T.expanded = [t \in DOMAIN Triggers |->
            IF p \in Triggers[t] /\ ~Accordion THEN Open(S, p) ELSE S.expanded[t]]
    BY <1>1, Zenon DEF Agreed
  <2>2. \A t \in DOMAIN Triggers :
            T.expanded[t] = IF p \in Triggers[t] /\ ~Accordion THEN Open(S, p) ELSE S.expanded[t]
    BY <2>1, Zenon
  <2> QED
    BY <2>2, Zenon
<1>7. ASSUME NEW t \in DOMAIN Triggers, T.expanded[t] PROVE \E q \in Triggers[t] : Up(T, q)
  <2>1. CASE p \in Triggers[t]
    BY <1>3, <1>6, <1>7, <2>1 DEF Up
  <2>2. CASE p \notin Triggers[t]
    BY <1>5, <1>6, <1>7, <2>2 DEF Fit, Told
  <2> QED
    BY <2>1, <2>2
<1>8. ASSUME NEW t \in DOMAIN Triggers, NEW q \in Panels, Triggers[t] = {q},
             \/ Open(T, q)
             \/ T.wait[q] # <<>> /\ Final(T, q).do = "show" /\ Final(T, q).inst \notin T.dead
      PROVE  T.expanded[t]
  <2>1. \/ Open(S, q)
        \/ S.wait[q] # <<>> /\ Final(S, q).do = "show" /\ Final(S, q).inst \notin S.dead
    BY <1>1, <1>3, <1>8
  <2>2. CASE q = p
    <3>1. Open(S, p)
      BY <1>2, <2>1, <2>2 DEF Fit, FitAt
    <3> QED
      BY <1>6, <1>8, <2>2, <3>1
  <2>3. CASE q # p
    <3>1. S.expanded[t]
      BY <1>8, <2>1 DEF Fit, Told
    <3> QED
      BY <1>6, <1>8, <2>3, <3>1
  <2> QED
    BY <2>2, <2>3
<1> QED
  BY <1>4, <1>7, <1>8 DEF Fit, Told

-----------------------------------------------------------------------------
(* Calls.                                                                  *)

\* What a call whose handlers prevent the panels in no does to a page.
Kept(S, V, no) ==
    /\ Grows(S, V)
    /\ Accordion = FALSE /\ Fit(S) => Fit(V)
    /\ OnePanelEach /\ no = {} /\ (Calm(S) \/ Lost(S)) => Calm(V) \/ Lost(V)

LEMMA KeptReflexive == ASSUME NEW S \in Pages, NEW no PROVE Kept(S, S, no)
BY GrowsReflexive DEF Kept, Pages

LEMMA KeptTransitive ==
    ASSUME NEW S \in Pages, NEW T \in Pages, NEW U \in Pages, NEW no, Kept(S, T, no), Kept(T, U, no)
    PROVE  Kept(S, U, no)
<1>1. Grows(S, U)
  BY GrowsTransitive DEF Kept, Pages
<1> QED
  BY <1>1 DEF Kept

\* The panels make a group, or an accordion that nothing has disturbed.
Orderly(S) == Accordion = FALSE \/ (OnePanelEach /\ Calm(S))

\* A panel's instance is still its own after show.
LEMMA ShowOwns ==
    ASSUME N \in Nat, NEW S \in Pages, NEW p \in Panels, S.inst[p] # 0,
           Orderly(S), NEW no,
           NEW T, T = show(S, p, S.inst[p], no)
    PROVE  T.inst[p] = S.inst[p]
<1>1. May(S, p, S.inst[p])
  BY Fields DEF Pages, Numbered, May
<1>2. IF S.inst[p] \in S.busy \/ Open(S, p) \/ DataOf(S, Others(S, p)) \in S.busy \/ p \in no
      THEN T = S
      ELSE IsShown(S, T, p, S.inst[p], no)
  BY <1>1, ShowKeeps
<1>3. CASE IsShown(S, T, p, S.inst[p], no) /\ S.inst[p] \notin S.busy /\ ~Open(S, p)
  <2>1. PICK H, R \in Pages :
            /\ HaveHidden(S, H, Others(S, p), no)
            /\ R = IF DataOf(S, Others(S, p)) # 0 THEN H ELSE WithNone(H, actives(S))
            /\ IsMoved(R, T, p, S.inst[p], "show")
    BY <1>3 DEF IsShown
  <2>2. H.inst[p] = S.inst[p]
    <3>1. CASE p \in Others(S, p)
      BY <2>1, <3>1 DEF HaveHidden
    <3>2. CASE p \notin Others(S, p)
      BY <2>1, <3>2 DEF HaveHidden
    <3> QED
      BY <3>1, <3>2
  <2>3. p \notin actives(S)
    <3>1. CASE Accordion = FALSE
      BY <3>1 DEF actives
    <3>2. CASE OnePanelEach /\ Calm(S)
      <4>1. ~Moving(S, p)
        BY <1>3, <3>2 DEF Calm, CalmAt
      <4> QED
        BY <1>3, <3>2, <4>1, ClassIs DEF OnePanelEach
    <3> QED
      BY <3>1, <3>2 DEF Orderly
  <2>4. R.inst[p] = H.inst[p]
    <3>1. R = H \/ R = WithNone(H, actives(S))
      BY <2>1
    <3>2. CASE R = WithNone(H, actives(S))
      <4>1. \A q \in Panels : R.inst[q] = IF q \in actives(S) THEN 0 ELSE H.inst[q]
        BY <3>2, Loses
      <4> QED
        BY <2>3, <4>1
    <3> QED
      BY <3>1, <3>2
  <2> QED
    BY <2>1, <2>2, <2>4 DEF IsMoved
<1> QED
  BY <1>2, <1>3

\* A method, of the instance i of panel p.
Method(call, S, p, i, no) ==
    CASE call = "show" -> show(S, p, i, no)
      [] call = "hide" -> hide(S, p, i, no)
      [] call = "toggle" -> toggle(S, p, i, no)

LEMMA MethodIs ==
    ASSUME NEW call \in {"show", "hide", "toggle"}, NEW S, NEW p, NEW i, NEW no
    PROVE  \/ Method(call, S, p, i, no) = show(S, p, i, no)
           \/ Method(call, S, p, i, no) = hide(S, p, i, no)
BY DEF Method, toggle

\* A method of the instance that the panel has, or is about to have.
LEMMA MethodKeeps ==
    ASSUME N \in Nat, NEW call \in {"show", "hide", "toggle"}, NEW S \in Pages,
           NEW p \in Panels, NEW i, May(S, p, i), NEW no, NEW T, T = Method(call, S, p, i, no)
    PROVE  T \in Pages /\ Grows(S, T) /\ May(T, p, i)
<1>1. CASE T = show(S, p, i, no)
  BY <1>1, ShowKeeps
<1>2. CASE T = hide(S, p, i, no)
  BY <1>2, HideKeeps
<1> QED
  BY <1>1, <1>2, MethodIs

LEMMA MethodFits ==
    ASSUME N \in Nat, Triggers \in Seq(SUBSET Panels), Accordion = FALSE,
           NEW call \in {"show", "hide", "toggle"}, NEW S \in Pages, Fit(S),
           NEW p \in Panels, NEW i, May(S, p, i), NEW no,
           S.inst[p] = i \/ (S.inst[p] = 0 /\ i \notin S.busy),
           NEW T, T = Method(call, S, p, i, no), NEW V, IsMine(T, V, p, i)
    PROVE  Fit(V)
<1>1. CASE T = show(S, p, i, no)
  BY <1>1, ShowFits
<1>2. CASE T = hide(S, p, i, no)
  BY <1>2, HideFits
<1> QED
  BY <1>1, <1>2, MethodIs

LEMMA MethodCalm ==
    ASSUME N \in Nat, OnePanelEach,
           NEW call \in {"show", "hide", "toggle"}, NEW S \in Pages, Calm(S),
           NEW p \in Panels, NEW i, May(S, p, i),
           S.inst[p] = i \/ (S.inst[p] = 0 /\ i \notin S.busy),
           NEW T, T = Method(call, S, p, i, {}), NEW V, IsMine(T, V, p, i)
    PROVE  Calm(V) \/ Lost(V)
<1>1. CASE T = show(S, p, i, {})
  BY <1>1, ShowCalm
<1>2. CASE T = hide(S, p, i, {})
  BY <1>2, HideCalm
<1> QED
  BY <1>1, <1>2, MethodIs

\* A method of the instance the panel has.
LEMMA CallKeeps ==
    ASSUME N \in Nat, Triggers \in Seq(SUBSET Panels), Accordion \in BOOLEAN,
           NEW call \in {"show", "hide", "toggle"}, NEW S \in Pages,
           NEW p \in Panels, S.inst[p] # 0, NEW no,
           NEW T, T = Method(call, S, p, S.inst[p], no)
    PROVE  T \in Pages /\ Kept(S, T, no)
<1>1. May(S, p, S.inst[p])
  BY Fields DEF Pages, Numbered, May
<1>2. T = show(S, p, S.inst[p], no) \/ T = hide(S, p, S.inst[p], no)
  BY MethodIs
<1>3. T \in Pages /\ Grows(S, T)
  BY <1>1, MethodKeeps
<1>4. ASSUME Orderly(S) PROVE IsMine(T, T, p, S.inst[p])
  <2>1. CASE T = show(S, p, S.inst[p], no)
    <3>1. T.inst[p] = S.inst[p]
      BY <1>4, <2>1, ShowOwns
    <3> QED
      BY <3>1 DEF IsMine
  <2>2. CASE T = hide(S, p, S.inst[p], no)
    <3>1. T.inst = S.inst
      BY <1>1, <2>2, HideKeeps
    <3> QED
      BY <3>1 DEF IsMine
  <2> QED
    BY <1>2, <2>1, <2>2
<1>5. ASSUME Accordion = FALSE, Fit(S) PROVE Fit(T)
  <2>1. IsMine(T, T, p, S.inst[p])
    BY <1>4, <1>5 DEF Orderly
  <2> QED
    BY <1>1, <1>5, <2>1, MethodFits
<1>6. ASSUME OnePanelEach, no = {}, Calm(S) \/ Lost(S) PROVE Calm(T) \/ Lost(T)
  <2>1. CASE Calm(S)
    <3>1. IsMine(T, T, p, S.inst[p])
      BY <1>4, <1>6, <2>1 DEF Orderly
    <3>2. T = Method(call, S, p, S.inst[p], {})
      BY <1>6
    <3> QED
      BY <1>1, <1>6, <2>1, <3>1, <3>2, MethodCalm
  <2>2. CASE Lost(S)
    BY <1>3, <2>2, LostStays
  <2> QED
    BY <1>6, <2>1, <2>2
<1> QED
  BY <1>3, <1>5, <1>6 DEF Kept

\* The page when the panel has an instance, which toggled unless it was made
\* for show or hide.
Instance(S, p, call, no) ==
    LET fresh == Constructed(S, p)
        made == With(IF call \in {"show", "hide"} THEN fresh
                     ELSE toggle(fresh, p, fresh.made, no), p, fresh.made)
    IN  IF S.inst[p] = 0 THEN made ELSE S

LEMMA InstanceKeeps ==
    ASSUME N \in Nat, Triggers \in Seq(SUBSET Panels), Accordion \in BOOLEAN,
           NEW call, NEW S \in Pages, NEW p \in Panels, NEW no,
           NEW T, T = Instance(S, p, call, no)
    PROVE  T \in Pages /\ Kept(S, T, no) /\ T.inst[p] # 0
<1>1. CASE S.inst[p] # 0
  <2>1. T = S
    BY <1>1 DEF Instance
  <2> QED
    BY <1>1, <2>1, KeptReflexive
<1>2. CASE S.inst[p] = 0
  <2>0. S \in PageType /\ S.made \in Nat /\ Numbered(S) /\ S.inst \in [Panels -> Nat]
    BY Fields DEF Pages
  <2> DEFINE B == Constructed(S, p)
             i == B.made
             H == IF call \in {"show", "hide"} THEN B ELSE toggle(B, p, i, no)
  <2>1. T = With(H, p, i)
    BY <1>2, Zenon DEF Instance
  <2>2. /\ B \in Pages /\ Grows(S, B) /\ May(B, p, i) /\ i = S.made + 1
        /\ B.class = S.class /\ B.inst = S.inst /\ B.busy = S.busy /\ B.wait = S.wait
        /\ i \notin B.busy
    BY Constructs
  <2>3. H = B \/ H = Method("toggle", B, p, i, no)
    BY DEF Method
  <2>4. Accordion = FALSE /\ Fit(S) => Fit(B)
    BY <1>2, AgreedFits
  <2>5. Calm(S) => Calm(B)
    BY <2>2 DEF Calm, CalmAt, Moving, Will, Open
  <2> HIDE DEF B, i, H
  <2>6. B.inst[p] = 0 /\ B \in PageType
    BY <1>2, <2>2 DEF Pages
  <2>7. H \in Pages /\ Grows(B, H) /\ May(H, p, i)
    <3>1. CASE H = B
      BY <2>2, <2>6, <3>1, GrowsReflexive
    <3>2. CASE H = Method("toggle", B, p, i, no)
      BY <2>2, <3>2, MethodKeeps
    <3> QED
      BY <2>3, <3>1, <3>2
  <2>8. /\ T \in Pages /\ (Undisturbed(H) => Undisturbed(T))
        /\ T.inst = [H.inst EXCEPT ![p] = i] /\ T.made = H.made
        /\ T.class = H.class /\ T.busy = H.busy /\ T.wait = H.wait
        /\ T.dead = H.dead /\ T.expanded = H.expanded
    BY <2>1, <2>7, Owns
  <2>9. H.inst \in [Panels -> Nat] /\ H \in PageType
    BY <2>7, Fields DEF Pages
  <2>10. T.inst[p] = i /\ \A q \in Panels : q # p => T.inst[q] = H.inst[q]
    BY <2>8, <2>9
  <2>11. IsMine(H, T, p, i)
    BY <2>8, <2>10 DEF IsMine
  <2>12. Grows(S, H)
    BY <2>0, <2>2, <2>6, <2>7, <2>9, GrowsTransitive
  <2>13. Grows(S, T)
    <3>1. \A q \in Panels : T.inst[q] = S.inst[q] \/ T.inst[q] = 0 \/ T.inst[q] > S.made
      BY <2>0, <2>2, <2>10, <2>12 DEF Grows
    <3> QED
      BY <2>8, <2>12, <3>1 DEF Grows
  <2>14. ASSUME Accordion = FALSE, Fit(S) PROVE Fit(T)
    <3>1. CASE H = B
      <4>1. IsMine(B, T, p, i)
        BY <2>11, <3>1
      <4> QED
        BY <2>2, <2>4, <2>6, <2>14, <4>1, MineFits
    <3>2. CASE H = Method("toggle", B, p, i, no)
      BY <2>2, <2>4, <2>6, <2>11, <2>14, <3>2, MethodFits
    <3> QED
      BY <2>3, <3>1, <3>2
  <2>15. ASSUME OnePanelEach, no = {}, Calm(S) \/ Lost(S) PROVE Calm(T) \/ Lost(T)
    <3>1. CASE Lost(S)
      BY <2>8, <2>13, <3>1, LostStays
    <3>2. CASE Calm(S) /\ H = B
      <4>1. IsMine(B, T, p, i)
        BY <2>11, <3>2
      <4> QED
        BY <2>2, <2>5, <2>6, <3>2, <4>1, MineCalm
    <3>3. CASE Calm(S) /\ H = Method("toggle", B, p, i, no)
      <4>1. H = Method("toggle", B, p, i, {})
        BY <2>15, <3>3
      <4> QED
        BY <2>2, <2>5, <2>6, <2>11, <2>15, <3>3, <4>1, MethodCalm
    <3> QED
      BY <2>3, <2>15, <3>1, <3>2, <3>3
  <2>16. T.inst[p] # 0
    BY <2>0, <2>2, <2>10
  <2> QED
    BY <2>8, <2>13, <2>14, <2>15, <2>16 DEF Kept
<1> QED
  BY <1>1, <1>2

\* A call is a method of the panel's instance, old or new.
LEMMA InterfaceIs ==
    ASSUME NEW S, NEW p, NEW call \in {"show", "hide", "toggle", "dispose", "options"}, NEW no
    PROVE  LET T == Instance(S, p, call, no)
               i == T.inst[p]
           IN  _jQueryInterface(S, p, call, no) =
                  IF call = "options" THEN T
                  ELSE IF call = "dispose" THEN dispose(T, p, i)
                  ELSE Method(call, T, p, i, no)
<1> DEFINE fresh == Constructed(S, p)
           made == [(IF call \in {"show", "hide"} THEN fresh ELSE toggle(fresh, p, fresh.made, no))
                       EXCEPT !.inst[p] = fresh.made]
           T == IF S.inst[p] = 0 THEN made ELSE S
           i == T.inst[p]
<1>1. _jQueryInterface(S, p, call, no) =
         CASE call = "show"    -> show(T, p, i, no)
           [] call = "hide"    -> hide(T, p, i, no)
           [] call = "toggle"  -> toggle(T, p, i, no)
           [] call = "dispose" -> dispose(T, p, i)
           [] call = "options" -> T
  BY Zenon DEF _jQueryInterface
<1>2. T = Instance(S, p, call, no)
  BY Zenon DEF Instance, With
<1> HIDE DEF T
<1>3. _jQueryInterface(S, p, call, no) =
         IF call = "options" THEN T ELSE IF call = "dispose" THEN dispose(T, p, i)
         ELSE Method(call, T, p, i, no)
  BY <1>1 DEF Method
<1> QED
  BY <1>2, <1>3

\* Any call but dispose.
LEMMA InterfaceKeeps ==
    ASSUME N \in Nat, Triggers \in Seq(SUBSET Panels), Accordion \in BOOLEAN,
           NEW S \in Pages, NEW p \in Panels,
           NEW call \in {"show", "hide", "toggle", "options"}, NEW no,
           NEW T, T = _jQueryInterface(S, p, call, no)
    PROVE  T \in Pages /\ Kept(S, T, no)
<1>1. PICK M : M = Instance(S, p, call, no)
  OBVIOUS
<1>2. M \in Pages /\ Kept(S, M, no) /\ M.inst[p] # 0
  BY <1>1, InstanceKeeps
<1>3. T = IF call = "options" THEN M ELSE Method(call, M, p, M.inst[p], no)
  <2>1. T = IF call = "options" THEN M
            ELSE IF call = "dispose" THEN dispose(M, p, M.inst[p])
            ELSE Method(call, M, p, M.inst[p], no)
    BY <1>1, InterfaceIs
  <2> QED
    BY <2>1
<1>4. CASE call = "options"
  BY <1>2, <1>3, <1>4
<1>5. CASE call # "options"
  <2>1. T \in Pages /\ Kept(M, T, no)
    BY <1>2, <1>3, <1>5, CallKeeps
  <2> QED
    BY <1>2, <2>1, KeptTransitive
<1> QED
  BY <1>4, <1>5

\* The page after a click on the trigger t.
Clicked(S, t, no) ==
    LET after[p \in 0..N] ==
            IF p = 0 THEN S
            ELSE IF p \notin Triggers[t] THEN after[p - 1]
            ELSE _jQueryInterface(after[p - 1], p,
                    IF after[p - 1].inst[p] # 0 THEN "toggle" ELSE "options", no)
    IN  after[N]

LEMMA ClickKeeps ==
    ASSUME N \in Nat, Triggers \in Seq(SUBSET Panels), Accordion \in BOOLEAN,
           NEW S \in Pages, NEW t \in DOMAIN Triggers, NEW no
    PROVE  Clicked(S, t, no) \in Pages /\ Kept(S, Clicked(S, t, no), no)
<1> DEFINE Right == {A \in Pages : Kept(S, A, no)}
           Run(A, p) == IF p \notin Triggers[t] THEN A
                        ELSE _jQueryInterface(A, p, IF A.inst[p] # 0 THEN "toggle" ELSE "options", no)
<1>0. S \in Right
  BY KeptReflexive
<1>1. ASSUME NEW p \in 1..N, NEW A \in Right PROVE Run(A, p) \in Right
  <2>1. CASE p \notin Triggers[t]
    BY <2>1
  <2>2. CASE p \in Triggers[t]
    <3> DEFINE call == IF A.inst[p] # 0 THEN "toggle" ELSE "options"
    <3>1. call \in {"show", "hide", "toggle", "options"} /\ p \in Panels /\ A \in Pages
      BY DEF Panels
    <3>2. Run(A, p) = _jQueryInterface(A, p, call, no)
      BY <2>2
    <3> HIDE DEF call, Run
    <3>3. Run(A, p) \in Pages /\ Kept(A, Run(A, p), no)
      BY <3>1, <3>2, InterfaceKeeps
    <3>4. Kept(S, Run(A, p), no)
      BY <3>1, <3>3, KeptTransitive
    <3> QED
      BY <3>3, <3>4
  <2> QED
    BY <2>1, <2>2
<1> DEFINE step == [p \in 1..N |-> [A \in Right |-> Run(A, p)]]
<1>2. step \in [1..N -> [Right -> Right]]
  <2> HIDE DEF Run, Right
  <2> QED
    BY <1>1
<1>3. PICK g \in [0..N -> Right] : g[0] = S /\ \A k \in 1..N : g[k] = step[k][g[k - 1]]
  <2> HIDE DEF step, Run, Right
  <2>1. Results(Right, N, S, step) # {}
    BY <1>0, <1>2, StepsHaveResults
  <2> QED
    BY <2>1 DEF Results
<1>4. g = [p \in 0..N |-> IF p = 0 THEN S ELSE Run(g[p - 1], p)]
  <2> HIDE DEF Run, Right
  <2>1. ASSUME NEW k \in 1..N PROVE g[k] = Run(g[k - 1], k)
    <3>1. g[k - 1] \in Right
      BY <1>3
    <3> QED
      BY <1>3, <3>1
  <2>2. \A p \in 0..N : g[p] = IF p = 0 THEN S ELSE Run(g[p - 1], p)
    <3>1. \A p \in 0..N : p = 0 \/ (p # 0 /\ p \in 1..N)
      OBVIOUS
    <3> QED
      BY <1>3, <2>1, <3>1
  <2>3. g = [p \in 0..N |-> g[p]]
    BY <1>3
  <2> QED
    BY <2>2, <2>3
<1> DEFINE after[p \in 0..N] ==
            IF p = 0 THEN S
            ELSE IF p \notin Triggers[t] THEN after[p - 1]
            ELSE _jQueryInterface(after[p - 1], p,
                    IF after[p - 1].inst[p] # 0 THEN "toggle" ELSE "options", no)
<1>5. Clicked(S, t, no) = after[N]
  BY Zenon DEF Clicked
<1>6. after = [p \in 0..N |-> IF p = 0 THEN S ELSE Run(after[p - 1], p)]
  BY Zenon, <1>4
<1> HIDE DEF after
<1>7. after[0] = S /\ \A k \in 1..N : after[k] = Run(after[k - 1], k)
  <2> HIDE DEF Run
  <2>1. 0 \in 0..N /\ \A k \in 1..N : k \in 0..N /\ k # 0
    OBVIOUS
  <2> QED
    BY <1>6, <2>1
<1>8. \A k \in 0..N : after[k] \in Right
  <2> HIDE DEF Run, Right
  <2> QED
    BY <1>0, <1>1, <1>7, StepsKeep
<1>9. after[N] \in Right
  <2>1. N \in 0..N
    OBVIOUS
  <2> QED
    BY <1>8, <2>1
<1> QED
  BY <1>5, <1>9

-----------------------------------------------------------------------------
(* dispose.                                                                *)

\* What dispose leaves of a page, if the panel p had an instance.
IsDisposed(S, T, p) ==
    /\ T.class = S.class /\ T.wait = S.wait /\ T.made = S.made /\ T.expanded = S.expanded
    /\ T.inst[p] = 0 /\ \A q \in Panels : q # p => T.inst[q] = S.inst[q]
    /\ T.busy = S.busy \ {S.inst[p]} /\ T.dead = S.dead \cup {S.inst[p]}

LEMMA DisposeIs ==
    ASSUME NEW S \in Pages, NEW p \in Panels, S.inst[p] # 0,
           NEW T, T = dispose(S, p, S.inst[p])
    PROVE  T \in Pages /\ IsDisposed(S, T, p)
<1>0. /\ S.class \in [Panels -> Classes] /\ S.inst \in [Panels -> Nat]
      /\ S.busy \in SUBSET Nat /\ S.dead \in SUBSET Nat /\ S.made \in Nat
      /\ S.wait \in [Panels -> Seq(Waiting)] /\ S.expanded \in [DOMAIN Triggers -> BOOLEAN]
  BY Fields DEF Pages
<1>1. S \in PageType /\ Numbered(S) /\ S.inst[p] \in 1..S.made
  BY <1>0 DEF Pages, Numbered
<1>2. PICK f : f = [S.inst EXCEPT ![p] = 0]
  OBVIOUS
<1>3. f \in [Panels -> Nat] /\ f[p] = 0 /\ \A q \in Panels : q # p => f[q] = S.inst[q]
  BY <1>0, <1>2
<1>4. PICK b, d \in SUBSET Nat : b = S.busy \ {S.inst[p]} /\ d = S.dead \cup {S.inst[p]}
  <2>1. S.busy \ {S.inst[p]} \in SUBSET Nat /\ S.dead \cup {S.inst[p]} \in SUBSET Nat
    BY <1>0, <1>1
  <2> QED
    BY <2>1
<1>5. T = [class |-> S.class, inst |-> f, busy |-> b, dead |-> d,
           made |-> S.made, wait |-> S.wait, expanded |-> S.expanded]
  BY <1>1, <1>2, <1>4 DEF PageType, dispose
<1>6. T \in PageType
  <2>1. [class |-> S.class, inst |-> f, busy |-> b, dead |-> d,
         made |-> S.made, wait |-> S.wait, expanded |-> S.expanded] \in PageType
    BY <1>0, <1>3, <1>4, RecordIsPage
  <2> QED
    BY <1>5, <2>1, Zenon
<1>7. /\ T.inst = f /\ T.made = S.made /\ T.class = S.class /\ T.busy = b
      /\ T.wait = S.wait /\ T.dead = d /\ T.expanded = S.expanded
  BY <1>5
<1>8. Numbered(T)
  <2>1. Carried(T)
    BY <1>1, <1>4, <1>7 DEF Numbered, Carried
  <2>2. \A q \in Panels : T.inst[q] = 0 \/ (q # p /\ T.inst[q] = S.inst[q])
    BY <1>3, <1>7
  <2>3. \A q \in Panels : q # p => S.inst[q] # S.inst[p]
    BY <1>1 DEF Numbered
  <2>4. \A q \in Panels : T.inst[q] <= T.made /\ T.inst[q] \notin T.dead
    BY <1>0, <1>1, <1>4, <1>7, <2>2, <2>3 DEF Numbered
  <2>5. \A q, r \in Panels : T.inst[q] = T.inst[r] => q = r \/ T.inst[q] = 0
    BY <1>1, <2>2 DEF Numbered
  <2>6. T.busy \subseteq 1..T.made /\ T.dead \subseteq 1..T.made /\ T.busy \cap T.dead = {}
    BY <1>1, <1>4, <1>7 DEF Numbered
  <2> QED
    BY <2>1, <2>4, <2>5, <2>6 DEF Numbered
<1> QED
  BY <1>3, <1>4, <1>6, <1>7, <1>8 DEF Pages, IsDisposed

\* No callback of a disposed instance waits.
NoneDead(S) == \A p \in Panels : \A k \in DOMAIN S.wait[p] : S.wait[p][k].inst \notin S.dead

LEMMA DisposeFits ==
    ASSUME NEW S \in Pages, Fit(S), NEW p \in Panels, S.inst[p] # 0,
           NEW T \in Pages, IsDisposed(S, T, p)
    PROVE  Fit(T)
<1>1. /\ S.busy \subseteq 1..S.made /\ S.made \in Nat
      /\ \A q \in Panels : q # p => S.inst[q] # S.inst[p]
      /\ \A q \in Panels : S.inst[q] \in S.busy => S.inst[q] # 0
  BY Fields DEF Pages, Numbered
<1>2. /\ T.class = S.class /\ T.wait = S.wait /\ T.expanded = S.expanded
      /\ T.inst[p] = 0 /\ \A q \in Panels : q # p => T.inst[q] = S.inst[q]
      /\ T.busy = S.busy \ {S.inst[p]} /\ T.dead = S.dead \cup {S.inst[p]}
  BY DEF IsDisposed
<1>3. /\ \A q : Open(T, q) <=> Open(S, q)
      /\ \A q : (Moving(T, q) <=> Moving(S, q)) /\ Final(T, q) = Final(S, q)
  BY <1>2 DEF Open, Moving, Final
<1>4. FitAt(T, p)
  <2>1. FitAt(S, p)
    BY DEF Fit
  <2>2. 0 \notin T.busy
    BY <1>1, <1>2
  <2> QED
    BY <1>2, <1>3, <2>1, <2>2 DEF FitAt
<1>5. ASSUME NEW q \in Panels, q # p PROVE FitAt(T, q)
  <2>1. FitAt(S, q) /\ T.inst[q] = S.inst[q] /\ S.inst[q] # S.inst[p]
    BY <1>1, <1>2, <1>5 DEF Fit
  <2> QED
    BY <1>2, <1>3, <2>1 DEF FitAt
<1>6. \A q : Up(T, q) <=> Up(S, q)
  BY <1>2, <1>3 DEF Up
<1>7. Told(T)
  <2>1. Told(S) /\ S.dead \subseteq T.dead
    BY <1>2 DEF Fit
  <2> QED
    BY <1>2, <1>3, <1>6, <2>1 DEF Told
<1> QED
  BY <1>4, <1>5, <1>7 DEF Fit

\* An accordion that is calm stays so if the instance was not moving.
LEMMA DisposeCalm ==
    ASSUME NEW S \in Pages, NEW p \in Panels, S.inst[p] # 0,
           NEW T \in Pages, IsDisposed(S, T, p), NoneDead(T)
    PROVE  /\ Undisturbed(S) => Undisturbed(T)
           /\ Calm(S) => Calm(T)
           /\ Lost(S) => Lost(T)
<1>1. /\ S.busy \subseteq 1..S.made /\ S.made \in Nat
      /\ \A q \in Panels : q # p => S.inst[q] # S.inst[p]
  BY Fields DEF Pages, Numbered
<1>2. /\ T.class = S.class /\ T.wait = S.wait
      /\ T.inst[p] = 0 /\ \A q \in Panels : q # p => T.inst[q] = S.inst[q]
      /\ T.busy = S.busy \ {S.inst[p]} /\ T.dead = S.dead \cup {S.inst[p]}
  BY DEF IsDisposed
<1>3. Undisturbed(S) => Undisturbed(T)
  BY <1>2 DEF Undisturbed, NoneDead, Moving
<1>4. ASSUME Calm(S) PROVE Calm(T)
  <2>1. CalmAt(T, p)
    <3>1. CalmAt(S, p)
      BY <1>4 DEF Calm
    <3>2. ~(Len(S.wait[p]) = 1 /\ S.wait[p][1].inst = S.inst[p])
      <4> SUFFICES ASSUME Len(S.wait[p]) = 1, S.wait[p][1].inst = S.inst[p] PROVE FALSE
        OBVIOUS
      <4>1. S.wait[p] \in Seq(Waiting)
        BY Fields DEF Pages
      <4>2. 1 \in DOMAIN T.wait[p]
        BY <1>2, <4>1
      <4>3. T.wait[p][1].inst \in T.dead
        BY <1>2
      <4> QED
        BY <4>2, <4>3 DEF NoneDead
    <3> QED
      BY <1>1, <1>2, <3>1, <3>2 DEF CalmAt, Moving
  <2>2. ASSUME NEW q \in Panels, q # p PROVE CalmAt(T, q)
    <3>1. CalmAt(S, q) /\ T.inst[q] = S.inst[q] /\ S.inst[q] # S.inst[p]
      BY <1>1, <1>2, <1>4, <2>2 DEF Calm
    <3> QED
      BY <1>2, <3>1 DEF CalmAt, Moving
  <2>3. \A q : Will(T, q) <=> Will(S, q)
    BY <1>2 DEF Will, Open
  <2> QED
    BY <1>4, <2>1, <2>2, <2>3 DEF Calm
<1>5. ASSUME Lost(S) PROVE Lost(T)
  <2>1. PICK j \in S.busy : \A q \in Panels : S.inst[q] # j
    BY <1>5 DEF Lost
  <2>2. j \in T.busy /\ j # 0
    BY <1>1, <1>2, <2>1
  <2>3. \A q \in Panels : T.inst[q] # j
    BY <1>2, <2>1, <2>2
  <2> QED
    BY <2>2, <2>3 DEF Lost
<1> QED
  BY <1>3, <1>4, <1>5

-----------------------------------------------------------------------------
(* The end of a transition.                                                *)

\* The classes that a callback leaves.
Done(c) == {"collapse"} \cup IF c.do = "show" THEN {"show"} ELSE {}

LEMMA CompletedIs ==
    ASSUME NEW S \in PageType, NEW p \in Panels, NEW c \in Waiting, c.inst \notin S.dead,
           NEW T, T = Completed(S, p, c)
    PROVE  /\ T \in PageType /\ T.class = [S.class EXCEPT ![p] = Done(c)]
           /\ T.busy = S.busy \ {c.inst} /\ T.inst = S.inst /\ T.made = S.made
           /\ T.dead = S.dead /\ T.wait = S.wait /\ T.expanded = S.expanded
<1>0. /\ S.class \in [Panels -> Classes] /\ S.inst \in [Panels -> Nat]
      /\ S.busy \in SUBSET Nat /\ S.dead \in SUBSET Nat /\ S.made \in Nat
      /\ S.wait \in [Panels -> Seq(Waiting)] /\ S.expanded \in [DOMAIN Triggers -> BOOLEAN]
  BY Fields
<1>1. Done(c) \in Classes
  <2>1. Done(c) = {"collapse"} \/ Done(c) = {"collapse", "show"}
    BY DEF Done
  <2> QED
    BY <2>1 DEF Classes
<1>2. PICK cl : cl = [S.class EXCEPT ![p] = Done(c)]
  OBVIOUS
<1>3. cl \in [Panels -> Classes]
  BY <1>0, <1>1, <1>2
<1>4. PICK b \in SUBSET Nat : b = S.busy \ {c.inst}
  BY <1>0
<1>5. T = [S EXCEPT !.class[p] = Done(c), !.busy = @ \ {c.inst}]
  BY Zenon DEF Completed, Done
<1>6. T = [class |-> cl, inst |-> S.inst, busy |-> b, dead |-> S.dead,
           made |-> S.made, wait |-> S.wait, expanded |-> S.expanded]
  BY <1>2, <1>4, <1>5 DEF PageType
<1>7. T \in PageType
  <2>1. [class |-> cl, inst |-> S.inst, busy |-> b, dead |-> S.dead,
         made |-> S.made, wait |-> S.wait, expanded |-> S.expanded] \in PageType
    BY <1>0, <1>3, <1>4, RecordIsPage
  <2> QED
    BY <1>6, <2>1, Zenon
<1> QED
  BY <1>2, <1>4, <1>6, <1>7

\* The first k callbacks of panel p have run: those of living instances have
\* ended their transitions, and the last of them has set the panel's classes.
Ended(S, A, p, k) ==
    /\ A.inst = S.inst /\ A.made = S.made /\ A.dead = S.dead /\ A.wait = S.wait
    /\ A.expanded = S.expanded /\ \A q \in Panels : q # p => A.class[q] = S.class[q]
    /\ A.busy = S.busy \ {S.wait[p][j].inst : j \in 1..k}
    /\ \/ A.class[p] = S.class[p] /\ \A j \in 1..k : S.wait[p][j].inst \in S.dead
       \/ \E j \in 1..k : /\ S.wait[p][j].inst \notin S.dead
                          /\ \A m \in (j + 1)..k : S.wait[p][m].inst \in S.dead
                          /\ A.class[p] = Done(S.wait[p][j])

LEMMA EndedOneMore ==
    ASSUME NEW S \in Pages, NEW p \in Panels, NEW k \in 1..Len(S.wait[p]),
           NEW A \in PageType, Ended(S, A, p, k - 1),
           NEW T, T = Completed(A, p, S.wait[p][k])
    PROVE  T \in PageType /\ Ended(S, T, p, k)
<1> DEFINE w == S.wait[p]
           gone(m) == {w[j].inst : j \in 1..m}
<1>0. /\ w \in Seq(Waiting) /\ Len(w) \in Nat /\ w[k] \in Waiting /\ S.busy \cap S.dead = {}
      /\ A.class \in [Panels -> Classes]
  <2>1. w \in Seq(Waiting) /\ S.busy \cap S.dead = {} /\ A.class \in [Panels -> Classes]
    BY Fields DEF Pages, Numbered
  <2> QED
    BY <2>1
<1> HIDE DEF w
<1>1. /\ A.inst = S.inst /\ A.made = S.made /\ A.dead = S.dead /\ A.wait = S.wait
      /\ A.expanded = S.expanded /\ \A q \in Panels : q # p => A.class[q] = S.class[q]
      /\ A.busy = S.busy \ gone(k - 1)
      /\ \/ A.class[p] = S.class[p] /\ \A j \in 1..k - 1 : w[j].inst \in S.dead
         \/ \E j \in 1..k - 1 : /\ w[j].inst \notin S.dead
                                /\ \A m \in (j + 1)..k - 1 : w[m].inst \in S.dead
                                /\ A.class[p] = Done(w[j])
  BY Zenon DEF Ended, w
<1>2. gone(k) = gone(k - 1) \cup {w[k].inst}
  <2>1. 1..k = (1..k - 1) \cup {k}
    BY <1>0
  <2> QED
    BY <2>1
<1>3. CASE w[k].inst \in S.dead
  <2>1. T = A
    BY <1>1, <1>3 DEF Completed, w
  <2>2. S.busy \ gone(k) = S.busy \ gone(k - 1)
    <3> HIDE DEF gone
    <3> QED
      BY <1>0, <1>2, <1>3
  <2>3. \/ A.class[p] = S.class[p] /\ \A j \in 1..k : w[j].inst \in S.dead
        \/ \E j \in 1..k : /\ w[j].inst \notin S.dead
                           /\ \A m \in (j + 1)..k : w[m].inst \in S.dead
                           /\ A.class[p] = Done(w[j])
    <3>1. CASE A.class[p] = S.class[p] /\ \A j \in 1..k - 1 : w[j].inst \in S.dead
      <4>1. \A j \in 1..k : j = k \/ j \in 1..k - 1
        BY <1>0
      <4> QED
        BY <1>3, <3>1, <4>1
    <3>2. CASE \E j \in 1..k - 1 : /\ w[j].inst \notin S.dead
                                   /\ \A m \in (j + 1)..k - 1 : w[m].inst \in S.dead
                                   /\ A.class[p] = Done(w[j])
      <4>1. PICK j \in 1..k - 1 : /\ w[j].inst \notin S.dead
                                  /\ \A m \in (j + 1)..k - 1 : w[m].inst \in S.dead
                                  /\ A.class[p] = Done(w[j])
        BY <3>2
      <4>2. j \in 1..k /\ \A m \in (j + 1)..k : m = k \/ m \in (j + 1)..k - 1
        BY <1>0
      <4>3. \A m \in (j + 1)..k : w[m].inst \in S.dead
        BY <1>3, <4>1, <4>2
      <4> QED
        BY <4>1, <4>2, <4>3
    <3> QED
      BY <1>1, <3>1, <3>2
  <2>4. A.busy = S.busy \ gone(k)
    BY <1>1, <2>2
  <2>5. Ended(S, A, p, k)
    BY <1>1, <2>3, <2>4, Zenon DEF Ended, w
  <2> QED
    BY <2>1, <2>5
<1>4. CASE w[k].inst \notin S.dead
  <2>1. /\ T \in PageType /\ T.class = [A.class EXCEPT ![p] = Done(w[k])]
        /\ T.busy = A.busy \ {w[k].inst} /\ T.inst = A.inst /\ T.made = A.made
        /\ T.dead = A.dead /\ T.wait = A.wait /\ T.expanded = A.expanded
    <3>1. T = Completed(A, p, w[k]) /\ w[k].inst \notin A.dead
      BY <1>1, <1>4 DEF w
    <3> QED
      BY <1>0, <3>1, CompletedIs
  <2>2. T.class[p] = Done(w[k]) /\ \A q \in Panels : q # p => T.class[q] = S.class[q]
    BY <1>0, <1>1, <2>1
  <2>3. T.busy = S.busy \ gone(k)
    <3> HIDE DEF gone
    <3> QED
      BY <1>1, <1>2, <2>1
  <2>4. \E j \in 1..k : /\ w[j].inst \notin S.dead
                        /\ \A m \in (j + 1)..k : w[m].inst \in S.dead
                        /\ T.class[p] = Done(w[j])
    <3>1. k \in 1..k /\ \A m \in (k + 1)..k : FALSE
      BY <1>0
    <3> QED
      BY <1>4, <2>2, <3>1
  <2>5. /\ T.inst = S.inst /\ T.made = S.made /\ T.dead = S.dead /\ T.wait = S.wait
        /\ T.expanded = S.expanded
    BY <1>1, <2>1
  <2>6. Ended(S, T, p, k)
    BY <2>2, <2>3, <2>4, <2>5, Zenon DEF Ended, w
  <2> QED
    BY <2>1, <2>6
<1> QED
  BY <1>3, <1>4

\* The pages as one callback after the other runs.
Ends(S, p) ==
    LET after[k \in 0..Len(S.wait[p])] ==
            IF k = 0 THEN S ELSE Completed(after[k - 1], p, S.wait[p][k])
    IN  after

LEMMA EndsAre ==
    ASSUME NEW S \in Pages, NEW p \in Panels, NEW k \in 0..Len(S.wait[p])
    PROVE  Ends(S, p)[k] \in PageType /\ Ended(S, Ends(S, p)[k], p, k)
<1> DEFINE w == S.wait[p]
           n == Len(w)
           Run(A, m) == Completed(A, p, w[m])
<1>0. w \in Seq(Waiting) /\ n \in Nat /\ S \in PageType /\ \A m \in 1..n : w[m] \in Waiting
  <2>1. w \in Seq(Waiting) /\ S \in PageType
    BY Fields DEF Pages
  <2> QED
    BY <2>1
<1>1. ASSUME NEW m \in 1..n, NEW A \in PageType PROVE Run(A, m) \in PageType
  <2>1. CASE w[m].inst \in A.dead
    BY <2>1 DEF Completed
  <2>2. CASE w[m].inst \notin A.dead
    <3>1. w[m] \in Waiting
      BY <1>0
    <3> HIDE DEF w
    <3> QED
      BY <2>2, <3>1, CompletedIs
  <2> QED
    BY <2>1, <2>2
<1> DEFINE step == [m \in 1..n |-> [A \in PageType |-> Run(A, m)]]
<1>2. step \in [1..n -> [PageType -> PageType]]
  <2> HIDE DEF Run, n
  <2> QED
    BY <1>1
<1>3. PICK g \in [0..n -> PageType] : g[0] = S /\ \A m \in 1..n : g[m] = step[m][g[m - 1]]
  <2> HIDE DEF step, Run, n
  <2>1. Results(PageType, n, S, step) # {}
    BY <1>0, <1>2, StepsHaveResults
  <2> QED
    BY <2>1 DEF Results
<1> HIDE DEF n
<1>4. g = [m \in 0..n |-> IF m = 0 THEN S ELSE Run(g[m - 1], m)]
  <2> HIDE DEF Run
  <2>1. ASSUME NEW m \in 1..n PROVE g[m] = Run(g[m - 1], m)
    <3>1. g[m - 1] \in PageType
      BY <1>0, <1>3
    <3> QED
      BY <1>3, <3>1
  <2>2. \A m \in 0..n : g[m] = IF m = 0 THEN S ELSE Run(g[m - 1], m)
    <3>1. \A m \in 0..n : m = 0 \/ (m # 0 /\ m \in 1..n)
      BY <1>0
    <3> QED
      BY <1>3, <2>1, <3>1
  <2>3. g = [m \in 0..n |-> g[m]]
    BY <1>3
  <2> QED
    BY <2>2, <2>3
<1> DEFINE after[m \in 0..n] == IF m = 0 THEN S ELSE Completed(after[m - 1], p, w[m])
<1>5. Ends(S, p) = after
  BY Zenon DEF Ends, n
<1>6. after = [m \in 0..n |-> IF m = 0 THEN S ELSE Run(after[m - 1], m)]
  BY Zenon, <1>4
<1> HIDE DEF after
<1>7. after[0] = S /\ \A m \in 1..n : after[m] = Run(after[m - 1], m)
  <2> HIDE DEF Run
  <2>1. 0 \in 0..n /\ \A m \in 1..n : m \in 0..n /\ m # 0
    BY <1>0
  <2> QED
    BY <1>6, <2>1
<1> DEFINE Right == {x \in (0..n) \X PageType : Ended(S, x[2], p, x[1])}
           f == [m \in 0..n |-> <<m, after[m]>>]
<1>R. \A m \in 0..n : f[m] \in Right <=> after[m] \in PageType /\ Ended(S, after[m], p, m)
  <2> SUFFICES ASSUME NEW m \in 0..n
               PROVE  f[m] \in Right <=> after[m] \in PageType /\ Ended(S, after[m], p, m)
    OBVIOUS
  <2>1. f[m] = <<m, after[m]>>
    OBVIOUS
  <2> HIDE DEF f
  <2>2. f[m] \in Right <=> f[m] \in (0..n) \X PageType /\ Ended(S, f[m][2], p, f[m][1])
    OBVIOUS
  <2> HIDE DEF Right
  <2>3. f[m][1] = m /\ f[m][2] = after[m] /\ (f[m] \in (0..n) \X PageType <=> after[m] \in PageType)
    BY <2>1
  <2> QED
    BY <2>2, <2>3, Zenon
<1> HIDE DEF f, Right
<1>9. f[0] \in Right
  <2>1. Ended(S, S, p, 0)
    <3>1. {S.wait[p][j].inst : j \in 1..0} = {} /\ \A j \in 1..0 : S.wait[p][j].inst \in S.dead
      OBVIOUS
    <3>2. S.busy = S.busy \ {S.wait[p][j].inst : j \in 1..0}
      BY <3>1
    <3> QED
      BY <3>1, <3>2, Zenon DEF Ended
  <2>2. 0 \in 0..n
    BY <1>0
  <2> QED
    BY <1>0, <1>7, <1>R, <2>1, <2>2
<1>10. ASSUME NEW m \in 1..n, f[m - 1] \in Right PROVE f[m] \in Right
  <2>1. m - 1 \in 0..n /\ m \in 0..n /\ m \in 1..Len(S.wait[p])
    BY <1>0 DEF n
  <2>2. after[m - 1] \in PageType /\ Ended(S, after[m - 1], p, m - 1)
    BY <1>10, <1>R, <2>1
  <2>3. after[m] = Completed(after[m - 1], p, S.wait[p][m])
    BY <1>7
  <2>4. after[m] \in PageType /\ Ended(S, after[m], p, m)
    BY <2>1, <2>2, <2>3, EndedOneMore
  <2> QED
    BY <1>R, <2>1, <2>4
<1>11. \A m \in 0..n : f[m] \in Right
  <2> HIDE DEF Run
  <2> QED
    BY <1>0, <1>9, <1>10, StepsKeep
<1>12. k \in 0..n
  BY DEF n
<1> QED
  BY <1>5, <1>R, <1>11, <1>12, Zenon

\* The page after a transition of panel p, whose first n callbacks have run.
Rest(A, w, p, n) == [A EXCEPT !.wait[p] = SubSeq(w, n + 1, Len(w))]

\* The callbacks run up to the first that throws, or all of them.
IsEnded(S, V, p, n) ==
    /\ n \in 1..Len(S.wait[p]) /\ (n = Len(S.wait[p]) \/ S.wait[p][n].inst \in S.dead)
    /\ V.inst = S.inst /\ V.made = S.made /\ V.dead = S.dead /\ V.expanded = S.expanded
    /\ \A q \in Panels : q # p => V.class[q] = S.class[q] /\ V.wait[q] = S.wait[q]
    /\ V.wait[p] = SubSeq(S.wait[p], n + 1, Len(S.wait[p]))
    /\ V.busy = S.busy \ {S.wait[p][j].inst : j \in 1..n}
    /\ \/ V.class[p] = S.class[p] /\ \A j \in 1..n : S.wait[p][j].inst \in S.dead
       \/ \E j \in 1..n : /\ S.wait[p][j].inst \notin S.dead
                          /\ \A m \in (j + 1)..n : S.wait[p][m].inst \in S.dead
                          /\ V.class[p] = Done(S.wait[p][j])

\* r is what still waits of w, in the order in which it was registered.
IsRest(w, n, r) ==
    /\ r \in Seq(Waiting) /\ Len(r) = Len(w) - n
    /\ \A k \in 1..Len(r) : r[k] = w[n + k]
    /\ n = Len(w) <=> r = <<>>

LEMMA WaitingRest ==
    ASSUME NEW w \in Seq(Waiting), NEW n \in 1..Len(w), NEW r, r = SubSeq(w, n + 1, Len(w))
    PROVE  IsRest(w, n, r)
<1>1. n \in Nat /\ Len(w) \in Nat /\ n + 1 \in Int /\ Len(w) \in Int /\ n <= Len(w)
  OBVIOUS
<1>2. r = [i \in 1..(Len(w) - n) |-> w[i + n]]
  BY <1>1
<1>3. \A i \in 1..(Len(w) - n) : i + n \in 1..Len(w)
  BY <1>1
<1>4. r \in Seq(Waiting) /\ Len(r) = Len(w) - n
  BY <1>1, <1>2, <1>3
<1>5. \A k \in 1..Len(r) : r[k] = w[n + k]
  BY <1>1, <1>2, <1>4
<1>6. n = Len(w) <=> r = <<>>
  <2>1. r # <<>> => Len(r) # 0
    BY <1>4, EmptySeq
  <2>2. r = <<>> => Len(r) = 0
    BY EmptySeq
  <2> QED
    BY <1>1, <1>4, <2>1, <2>2
<1> QED
  BY <1>4, <1>5, <1>6 DEF IsRest

LEMMA EndIs ==
    ASSUME NEW S \in Pages, NEW p \in Panels, NEW n \in 1..Len(S.wait[p]),
           n = Len(S.wait[p]) \/ S.wait[p][n].inst \in S.dead,
           NEW V, V = Rest(Ends(S, p)[n], S.wait[p], p, n)
    PROVE  V \in PageType /\ IsEnded(S, V, p, n)
<1> DEFINE w == S.wait[p]
           A == Ends(S, p)[n]
<1>1. w \in Seq(Waiting) /\ S.wait \in [Panels -> Seq(Waiting)] /\ n \in 0..Len(w)
  <2>1. S.wait \in [Panels -> Seq(Waiting)]
    BY Fields DEF Pages
  <2> QED
    BY <2>1
<1>2. A \in PageType /\ Ended(S, A, p, n)
  BY <1>1, EndsAre
<1> HIDE DEF A, w
<1>3. PICK r : r = SubSeq(w, n + 1, Len(w))
  OBVIOUS
<1>4. r \in Seq(Waiting)
  BY <1>1, <1>3, WaitingRest DEF w, IsRest
<1>5. /\ A.class \in [Panels -> Classes] /\ A.inst \in [Panels -> Nat]
      /\ A.busy \in SUBSET Nat /\ A.dead \in SUBSET Nat /\ A.made \in Nat
      /\ A.wait \in [Panels -> Seq(Waiting)] /\ A.expanded \in [DOMAIN Triggers -> BOOLEAN]
  BY <1>2, Fields
<1>6. PICK wt : wt = [A.wait EXCEPT ![p] = r]
  OBVIOUS
<1>7. wt \in [Panels -> Seq(Waiting)] /\ wt[p] = r /\ \A q \in Panels : q # p => wt[q] = A.wait[q]
  BY <1>4, <1>5, <1>6
<1>8. V = [A EXCEPT !.wait[p] = r]
  BY <1>3, Zenon DEF Rest, A, w
<1>9. V = [class |-> A.class, inst |-> A.inst, busy |-> A.busy, dead |-> A.dead,
           made |-> A.made, wait |-> wt, expanded |-> A.expanded]
  BY <1>2, <1>6, <1>8 DEF PageType
<1>10. V \in PageType
  <2>1. [class |-> A.class, inst |-> A.inst, busy |-> A.busy, dead |-> A.dead,
         made |-> A.made, wait |-> wt, expanded |-> A.expanded] \in PageType
    BY <1>5, <1>7, RecordIsPage
  <2> QED
    BY <1>9, <2>1, Zenon
<1>11. /\ V.class = A.class /\ V.inst = A.inst /\ V.busy = A.busy /\ V.dead = A.dead
       /\ V.made = A.made /\ V.wait = wt /\ V.expanded = A.expanded
  BY <1>9
<1>12. IsEnded(S, V, p, n)
  <2>1. /\ A.inst = S.inst /\ A.made = S.made /\ A.dead = S.dead /\ A.wait = S.wait
        /\ A.expanded = S.expanded /\ \A q \in Panels : q # p => A.class[q] = S.class[q]
    BY <1>2 DEF Ended
  <2>2. \A q \in Panels : q # p => V.class[q] = S.class[q] /\ V.wait[q] = S.wait[q]
    BY <1>7, <1>11, <2>1
  <2>3. V.wait[p] = SubSeq(S.wait[p], n + 1, Len(S.wait[p]))
    BY <1>3, <1>7, <1>11 DEF w
  <2>4. /\ V.busy = S.busy \ {S.wait[p][j].inst : j \in 1..n}
        /\ \/ V.class[p] = S.class[p] /\ \A j \in 1..n : S.wait[p][j].inst \in S.dead
           \/ \E j \in 1..n : /\ S.wait[p][j].inst \notin S.dead
                              /\ \A m \in (j + 1)..n : S.wait[p][m].inst \in S.dead
                              /\ V.class[p] = Done(S.wait[p][j])
    BY <1>2, <1>11, ZenonT(40) DEF Ended
  <2> QED
    BY <1>11, <2>1, <2>2, <2>3, <2>4, Zenon DEF IsEnded
<1> QED
  BY <1>10, <1>12

LEMMA TransitionEndIs ==
    ASSUME page \in Pages, NEW p \in Panels, TransitionEnd(p)
    PROVE  \E n \in 1..Len(page.wait[p]) : page' \in PageType /\ IsEnded(page, page', p, n)
<1> DEFINE w == page.wait[p]
           throws == {k \in DOMAIN w : w[k].inst \in page.dead /\ w[k].do = "show"}
           last == IF throws = {} THEN Len(w) ELSE CHOOSE k \in throws : \A j \in throws : k <= j
<1>1. w \in Seq(Waiting) /\ w # <<>> /\ Len(w) \in Nat /\ DOMAIN w = 1..Len(w)
  <2>1. w \in Seq(Waiting) /\ w # <<>>
    BY Fields, ZenonT(40) DEF Pages, TransitionEnd
  <2> QED
    BY <2>1
<1>2. last \in 1..Len(w) /\ (last = Len(w) \/ w[last].inst \in page.dead)
  <2>1. CASE throws = {}
    <3>1. Len(w) # 0
      BY <1>1, EmptySeq
    <3> QED
      BY <1>1, <2>1, <3>1
  <2>2. CASE throws # {}
    <3>1. throws \subseteq Nat
      BY <1>1
    <3>2. \E k \in throws : \A j \in throws : k <= j
      <4> HIDE DEF throws
      <4> QED
        BY <2>2, <3>1, LeastNumber
    <3>3. last \in throws
      <4>1. (CHOOSE k \in throws : \A j \in throws : k <= j) \in throws
        <5> HIDE DEF throws
        <5> QED
          BY <3>2
      <4> QED
        BY <2>2, <4>1
    <3> HIDE DEF last
    <3> QED
      BY <1>1, <3>3
  <2> QED
    BY <2>1, <2>2
<1>3. page' = Rest(Ends(page, p)[last], page.wait[p], p, last)
  BY Zenon DEF TransitionEnd, Rest, Ends
<1> HIDE DEF last, throws
<1>4. page' \in PageType /\ IsEnded(page, page', p, last)
  BY <1>2, <1>3, EndIs
<1> QED
  BY <1>2, <1>4

\* The page stays well formed.
LEMMA EndKeeps ==
    ASSUME NEW S \in Pages, NEW V \in PageType, NEW p \in Panels, NEW n, IsEnded(S, V, p, n)
    PROVE  V \in Pages /\ (Undisturbed(S) => Undisturbed(V))
<1> DEFINE w == S.wait[p]
<1>0. /\ w \in Seq(Waiting) /\ Len(w) \in Nat /\ DOMAIN w = 1..Len(w) /\ n \in 1..Len(w)
      /\ Numbered(S) /\ S.wait \in [Panels -> Seq(Waiting)]
  <2>1. S.wait \in [Panels -> Seq(Waiting)] /\ Numbered(S)
    BY Fields DEF Pages
  <2>2. w \in Seq(Waiting)
    BY <2>1
  <2> QED
    BY <2>1, <2>2 DEF IsEnded
<1>1. /\ V.wait[p] = SubSeq(w, n + 1, Len(w))
      /\ \A q \in Panels : q # p => V.class[q] = S.class[q] /\ V.wait[q] = S.wait[q]
      /\ V.inst = S.inst /\ V.made = S.made /\ V.dead = S.dead
      /\ V.busy = S.busy \ {w[j].inst : j \in 1..n}
      /\ n = Len(w) \/ w[n].inst \in S.dead
  BY DEF IsEnded
<1>2. /\ V.wait[p] \in Seq(Waiting) /\ Len(V.wait[p]) = Len(w) - n
      /\ \A k \in 1..Len(V.wait[p]) : V.wait[p][k] = w[n + k]
      /\ n = Len(w) <=> V.wait[p] = <<>>
  <2>1. IsRest(w, n, V.wait[p])
    <3> HIDE DEF w
    <3> QED
      BY <1>0, <1>1, WaitingRest
  <2> QED
    BY <2>1, SMTT(30) DEF IsRest
<1>3. Carried(V)
  <2> SUFFICES ASSUME NEW i \in V.busy
               PROVE  \E q \in Panels : \E k \in DOMAIN V.wait[q] : V.wait[q][k].inst = i
    BY DEF Carried
  <2>1. i \in S.busy /\ \A j \in 1..n : w[j].inst # i
    BY <1>1
  <2>2. PICK q \in Panels : \E k \in DOMAIN S.wait[q] : S.wait[q][k].inst = i
    BY <1>0, <2>1 DEF Numbered, Carried
  <2>3. CASE q # p
    BY <1>1, <2>2, <2>3
  <2>4. CASE q = p
    <3>1. PICK k \in 1..Len(w) : w[k].inst = i
      BY <1>0, <2>2, <2>4
    <3>2. k \notin 1..n
      BY <2>1, <3>1
    <3>3. k - n \in 1..Len(V.wait[p]) /\ n + (k - n) = k
      BY <1>0, <1>2, <3>2
    <3>4. V.wait[p][k - n] = w[k] /\ k - n \in DOMAIN V.wait[p]
      BY <1>2, <3>3
    <3> QED
      BY <3>1, <3>4
  <2> QED
    BY <2>3, <2>4
<1>4. Numbered(V)
  <2>1. V.busy \subseteq S.busy /\ V.inst = S.inst /\ V.made = S.made /\ V.dead = S.dead
    BY <1>1
  <2>2. /\ S.busy \subseteq 1..S.made /\ S.dead \subseteq 1..S.made /\ S.busy \cap S.dead = {}
        /\ \A q \in Panels : S.inst[q] <= S.made /\ S.inst[q] \notin S.dead
        /\ \A q, r \in Panels : S.inst[q] = S.inst[r] => q = r \/ S.inst[q] = 0
    BY <1>0 DEF Numbered
  <2> QED
    BY <1>3, <2>1, <2>2, Zenon DEF Numbered
<1>5. ASSUME Undisturbed(S) PROVE Undisturbed(V)
  <2>1. \A k \in 1..Len(w) : w[k].inst \notin S.dead
    BY <1>0, <1>5 DEF Undisturbed
  <2>2. n = Len(w) /\ V.wait[p] = <<>>
    BY <1>0, <1>1, <1>2, <2>1
  <2>3. ~Moving(V, p)
    <3>1. \E j \in 1..n : V.class[p] = Done(w[j])
      BY <1>0, <2>1 DEF IsEnded
    <3> QED
      BY <3>1 DEF Moving, Done
  <2>4. \A k \in DOMAIN V.wait[p] : FALSE
    BY <2>2
  <2>5. ASSUME NEW q \in Panels
        PROVE  /\ \A k \in DOMAIN V.wait[q] : V.wait[q][k].inst \notin V.dead
               /\ V.wait[q] = <<>> => ~Moving(V, q)
    <3>1. CASE q = p
      BY <2>3, <2>4, <3>1
    <3>2. CASE q # p
      BY <1>1, <1>5, <3>2 DEF Undisturbed, Moving
    <3> QED
      BY <3>1, <3>2
  <2> QED
    BY <2>5 DEF Undisturbed
<1> QED
  BY <1>4, <1>5 DEF Pages

\* An accordion that is calm: the panel comes to rest as its instance wanted.
LEMMA EndCalm ==
    ASSUME NEW S \in Pages, Calm(S), NEW V \in PageType, NEW p \in Panels, NEW n, IsEnded(S, V, p, n)
    PROVE  Calm(V)
<1> DEFINE w == S.wait[p]
<1>0. /\ w \in Seq(Waiting) /\ Len(w) \in Nat /\ n \in 1..Len(w) /\ Numbered(S)
      /\ S.busy \subseteq 1..S.made /\ S.made \in Nat
  <2>1. S.wait \in [Panels -> Seq(Waiting)] /\ Numbered(S) /\ S.made \in Nat
    BY Fields DEF Pages
  <2> QED
    BY <2>1 DEF IsEnded, Numbered
<1>1. /\ V.wait[p] = SubSeq(w, n + 1, Len(w))
      /\ \A q \in Panels : q # p => V.class[q] = S.class[q] /\ V.wait[q] = S.wait[q]
      /\ V.inst = S.inst /\ V.busy = S.busy \ {w[j].inst : j \in 1..n}
      /\ \/ V.class[p] = S.class[p] /\ \A j \in 1..n : w[j].inst \in S.dead
         \/ \E j \in 1..n : w[j].inst \notin S.dead /\ V.class[p] = Done(w[j])
  <2>1. \/ V.class[p] = S.class[p] /\ \A j \in 1..n : w[j].inst \in S.dead
        \/ \E j \in 1..n : w[j].inst \notin S.dead /\ V.class[p] = Done(w[j])
    BY DEF IsEnded
  <2> QED
    BY <2>1 DEF IsEnded
<1>2. /\ Len(w) = 1 /\ w[1].inst = S.inst[p] /\ S.inst[p] \in S.busy /\ Moving(S, p) /\ w # <<>>
  <2>1. CalmAt(S, p)
    BY DEF Calm
  <2>2. w # <<>>
    BY <1>0, EmptySeq
  <2> QED
    BY <2>1, <2>2 DEF CalmAt
<1>3. n = 1 /\ 1..n = {1} /\ S.inst[p] \notin S.dead
  BY <1>0, <1>2 DEF Numbered
<1>4. V.wait[p] = <<>>
  <2>1. IsRest(w, n, V.wait[p])
    <3> HIDE DEF w
    <3> QED
      BY <1>0, <1>1, WaitingRest
  <2> QED
    BY <1>2, <1>3, <2>1 DEF IsRest
<1>5. V.busy = S.busy \ {S.inst[p]}
  BY <1>1, <1>2, <1>3
<1>6. V.class[p] = Done(w[1])
  BY <1>1, <1>2, <1>3
<1> HIDE DEF w
<1>7. CalmAt(V, p) /\ (Open(V, p) => w[1].do = "show")
  <2>1. Done(w[1]) # {"collapsing"} /\ ("show" \in Done(w[1]) => w[1].do = "show")
    BY DEF Done
  <2> QED
    BY <1>1, <1>4, <1>5, <1>6, <2>1 DEF CalmAt, Moving, Open
<1>8. Will(V, p) => Will(S, p)
  BY <1>2, <1>4, <1>7 DEF Will, w
<1>9. ASSUME NEW q \in Panels, q # p PROVE CalmAt(V, q) /\ (Will(V, q) <=> Will(S, q))
  <2>1. CalmAt(S, q) /\ S.inst[q] # S.inst[p]
    BY <1>0, <1>2, <1>9 DEF Calm, Numbered
  <2>2. V.class[q] = S.class[q] /\ V.wait[q] = S.wait[q] /\ V.inst[q] = S.inst[q]
    BY <1>1, <1>9
  <2> QED
    BY <1>5, <2>1, <2>2 DEF CalmAt, Moving, Will, Open
<1> QED
  BY <1>7, <1>8, <1>9 DEF Calm

\* A panel of a group: only its newest callback may have something to end.
LEMMA EndFits ==
    ASSUME Triggers \in Seq(SUBSET Panels), NEW S \in Pages, Fit(S), NEW V \in PageType,
           NEW p \in Panels, NEW n, IsEnded(S, V, p, n)
    PROVE  Fit(V)
<1> DEFINE w == S.wait[p]
<1>0. /\ w \in Seq(Waiting) /\ Len(w) \in Nat /\ n \in 1..Len(w) /\ Numbered(S) /\ w # <<>>
      /\ S.busy \subseteq 1..S.made /\ S.made \in Nat /\ S.busy \cap S.dead = {}
  <2>1. S.wait \in [Panels -> Seq(Waiting)] /\ Numbered(S) /\ S.made \in Nat
    BY Fields DEF Pages
  <2>2. w \in Seq(Waiting) /\ n \in 1..Len(w)
    BY <2>1 DEF IsEnded
  <2>3. w # <<>>
    BY <2>2, EmptySeq
  <2> QED
    BY <2>1, <2>2, <2>3 DEF Numbered
<1>1. /\ V.wait[p] = SubSeq(w, n + 1, Len(w))
      /\ \A q \in Panels : q # p => V.class[q] = S.class[q] /\ V.wait[q] = S.wait[q]
      /\ V.inst = S.inst /\ V.dead = S.dead /\ V.expanded = S.expanded
      /\ V.busy = S.busy \ {w[j].inst : j \in 1..n}
      /\ \/ V.class[p] = S.class[p] /\ \A j \in 1..n : w[j].inst \in S.dead
         \/ \E j \in 1..n : w[j].inst \notin S.dead /\ V.class[p] = Done(w[j])
  <2>1. \/ V.class[p] = S.class[p] /\ \A j \in 1..n : w[j].inst \in S.dead
        \/ \E j \in 1..n : w[j].inst \notin S.dead /\ V.class[p] = Done(w[j])
    BY DEF IsEnded
  <2> QED
    BY <2>1 DEF IsEnded
<1>2. /\ V.wait[p] \in Seq(Waiting) /\ Len(V.wait[p]) = Len(w) - n
      /\ \A k \in 1..Len(V.wait[p]) : V.wait[p][k] = w[n + k]
      /\ n = Len(w) <=> V.wait[p] = <<>>
  <2>1. IsRest(w, n, V.wait[p])
    <3> HIDE DEF w
    <3> QED
      BY <1>0, <1>1, WaitingRest
  <2> QED
    BY <2>1 DEF IsRest
<1>3. /\ \A k \in 1..Len(w) - 1 : w[k].inst \in S.dead
      /\ Moving(S, p) /\ ~Open(S, p) /\ Final(S, p) = w[Len(w)]
      /\ w[Len(w)].inst \notin S.dead => w[Len(w)].inst = S.inst[p] /\ S.inst[p] \in S.busy
      /\ S.inst[p] \in S.busy => w[Len(w)].inst = S.inst[p]
  BY <1>0, ClassIs DEF Fit, FitAt, Final
<1>4. ASSUME NEW q \in Panels, q # p PROVE FitAt(V, q) /\ (Up(V, q) <=> Up(S, q))
  <2>1. FitAt(S, q) /\ V.class[q] = S.class[q] /\ V.wait[q] = S.wait[q] /\ V.inst[q] = S.inst[q]
    BY <1>1, <1>4 DEF Fit
  <2>2. S.inst[q] \in S.busy => S.inst[q] \in V.busy
    <3> SUFFICES ASSUME S.inst[q] \in S.busy, NEW j \in 1..n, w[j].inst = S.inst[q] PROVE FALSE
      BY <1>1
    <3>1. w[j].inst \notin S.dead
      BY <1>0
    <3>2. j = Len(w)
      BY <1>0, <1>3, <3>1
    <3>3. S.inst[p] = S.inst[q]
      BY <1>3, <3>1, <3>2
    <3> QED
      BY <1>0, <1>4, <3>3 DEF Numbered
  <2>3. V.busy \subseteq S.busy
    BY <1>1
  <2> QED
    BY <1>1, <2>1, <2>2, <2>3 DEF FitAt, Up, Moving, Open, Final
<1>5. CASE n # Len(w)
  <2>1. \A j \in 1..n : w[j].inst \in S.dead
    BY <1>0, <1>3, <1>5
  <2>2. V.class[p] = S.class[p] /\ V.busy = S.busy
    BY <1>0, <1>1, <2>1, SMTT(30)
  <2>3. /\ V.wait[p] # <<>> /\ Len(V.wait[p]) \in 1..Len(w) /\ Final(V, p) = w[Len(w)]
    <3>1. /\ V.wait[p] # <<>> /\ Len(V.wait[p]) = Len(w) - n
          /\ \A k \in 1..Len(V.wait[p]) : V.wait[p][k] = w[n + k]
      BY <1>2, <1>5
    <3> HIDE DEF w
    <3>2. Len(V.wait[p]) \in 1..Len(V.wait[p]) /\ n + Len(V.wait[p]) = Len(w) /\ Len(V.wait[p]) \in 1..Len(w)
      BY <1>0, <1>5, <3>1
    <3>3. V.wait[p][Len(V.wait[p])] = w[Len(w)]
      BY <3>1, <3>2
    <3> QED
      BY <3>1, <3>2, <3>3 DEF Final
  <2>4. \A k \in 1..Len(V.wait[p]) - 1 : V.wait[p][k].inst \in S.dead
    <3> DEFINE l == Len(V.wait[p])
    <3>0. l = Len(w) - n /\ \A k \in 1..l : V.wait[p][k] = w[n + k]
      BY <1>2
    <3> HIDE DEF w, l
    <3>1. \A k \in 1..l - 1 : n + k \in 1..Len(w) - 1 /\ V.wait[p][k] = w[n + k]
      <4> SUFFICES ASSUME NEW k \in 1..l - 1
                   PROVE  n + k \in 1..Len(w) - 1 /\ V.wait[p][k] = w[n + k]
        OBVIOUS
      <4>1. l \in Int /\ k \in 1..l /\ n + k \in 1..Len(w) - 1
        BY <1>0, <3>0
      <4> QED
        BY <3>0, <4>1
    <3> QED
      BY <1>3, <3>1 DEF l, w
  <2>5. FitAt(V, p)
    BY <1>1, <1>3, <2>2, <2>3, <2>4 DEF FitAt, Moving
  <2>6. \A q \in Panels : /\ Up(V, q) <=> Up(S, q)
                          /\ Open(V, q) <=> Open(S, q)
                          /\ V.wait[q] # <<>> <=> S.wait[q] # <<>>
                          /\ Final(V, q) = Final(S, q)
    BY <1>0, <1>1, <1>3, <1>4, <2>2, <2>3 DEF Up, Moving, Open, Final
  <2>7. Told(V)
    <3>1. Told(S) /\ \A t \in DOMAIN Triggers : Triggers[t] \cap Panels = Triggers[t]
      BY DEF Fit
    <3> QED
      BY <1>1, <2>6, <3>1 DEF Told
  <2> QED
    BY <1>4, <2>5, <2>7 DEF Fit
<1>6. CASE n = Len(w)
  <2>1. V.wait[p] = <<>> /\ S.inst[p] \notin V.busy
    BY <1>0, <1>1, <1>2, <1>3, <1>6
  <2>2. FitAt(V, p)
    <3>1. \A k \in 1..Len(V.wait[p]) - 1 : FALSE
      BY <2>1
    <3> QED
      BY <1>1, <2>1, <3>1 DEF FitAt
  <2>3. \/ V.class[p] = S.class[p]
        \/ w[n].inst \notin S.dead /\ V.class[p] = Done(w[n])
    <3>1. \A j \in 1..n : w[j].inst \notin S.dead => j = n
      BY <1>0, <1>3, <1>6
    <3> QED
      BY <1>1, <3>1
  <2>4. /\ Open(V, p) => w[n].do = "show" /\ w[n].inst \notin S.dead
        /\ Up(S, p) => Up(V, p)
    <3>1. "show" \in Done(w[n]) <=> w[n].do = "show"
      BY DEF Done
    <3> QED
      BY <1>0, <1>3, <1>6, <2>1, <2>3, <3>1 DEF Open, Up, Moving
  <2>5. \A q \in Panels : Up(S, q) => Up(V, q)
    BY <1>4, <2>4
  <2>6. Told(S) /\ \A t \in DOMAIN Triggers : Triggers[t] \subseteq Panels
    BY DEF Fit
  <2>7. ASSUME NEW t \in DOMAIN Triggers, V.expanded[t] PROVE \E q \in Triggers[t] : Up(V, q)
    <3>1. \E q \in Triggers[t] : Up(S, q)
      BY <1>1, <2>6, <2>7 DEF Told
    <3> QED
      BY <2>5, <2>6, <3>1
  <2>8. ASSUME NEW t \in DOMAIN Triggers, NEW q \in Panels, Triggers[t] = {q},
               \/ Open(V, q)
               \/ V.wait[q] # <<>> /\ Final(V, q).do = "show" /\ Final(V, q).inst \notin V.dead
        PROVE  V.expanded[t]
    <3>1. \/ Open(S, q)
          \/ S.wait[q] # <<>> /\ Final(S, q).do = "show" /\ Final(S, q).inst \notin S.dead
      <4>1. CASE q = p
        BY <1>0, <1>3, <1>6, <2>1, <2>4, <2>8, <4>1
      <4>2. CASE q # p
        BY <1>1, <2>8, <4>2 DEF Open, Final
      <4> QED
        BY <4>1, <4>2
    <3> QED
      BY <1>1, <2>6, <2>8, <3>1 DEF Told
  <2> QED
    BY <1>4, <2>2, <2>7, <2>8 DEF Fit, Told
<1> QED
  BY <1>5, <1>6

-----------------------------------------------------------------------------
(* The inductive invariant, and what follows from it.                      *)

Consistent(S, m) ==
    /\ S \in Pages
    /\ "disposed" \notin m => Undisturbed(S)
    /\ OnePanelEach /\ m = {} => Calm(S)
    /\ Accordion = FALSE => Fit(S)

PanelInv == Consistent(page, misuse)

\* What a history without misuse tells of the page.
LEMMA NotedSays ==
    ASSUME NEW V, NEW no, NEW m, m = Noted(V, no)
    PROVE  /\ "disposed" \notin m => "disposed" \notin misuse /\ NoneDead(V)
           /\ m = {} => misuse = {} /\ no = {} /\ ~Lost(V) /\ "disposed" \notin m
<1>1. "disposed" \notin m => "disposed" \notin misuse /\ NoneDead(V)
  BY DEF Noted, NoneDead
<1>2. m = {} => misuse = {} /\ no = {} /\ V.busy \subseteq {V.inst[p] : p \in Panels}
  BY DEF Noted
<1>3. V.busy \subseteq {V.inst[p] : p \in Panels} => ~Lost(V)
  BY DEF Lost
<1> QED
  BY <1>1, <1>2, <1>3

LEMMA CallAgrees ==
    ASSUME Accordion \in BOOLEAN, PanelInv, NEW V \in Pages, NEW no, Kept(page, V, no),
           NEW m, m = Noted(V, no)
    PROVE  Consistent(V, m)
<1>1. /\ "disposed" \notin m => "disposed" \notin misuse
      /\ m = {} => misuse = {} /\ no = {} /\ ~Lost(V)
  BY NotedSays
<1>2. "disposed" \notin m => Undisturbed(V)
  BY <1>1 DEF PanelInv, Consistent, Kept, Grows
<1>3. OnePanelEach /\ m = {} => Calm(V)
  BY <1>1 DEF PanelInv, Consistent, Kept
<1>4. Accordion = FALSE => Fit(V)
  BY DEF PanelInv, Consistent, Kept
<1> QED
  BY <1>2, <1>3, <1>4 DEF Consistent

LEMMA DisposeAgrees ==
    ASSUME Accordion \in BOOLEAN, PanelInv, NEW M \in Pages, NEW no, Kept(page, M, no),
           NEW p \in Panels, M.inst[p] # 0, NEW V, V = dispose(M, p, M.inst[p]),
           NEW m, m = Noted(V, no)
    PROVE  Consistent(V, m)
<1>1. V \in Pages /\ IsDisposed(M, V, p)
  BY DisposeIs
<1>2. /\ "disposed" \notin m => "disposed" \notin misuse /\ NoneDead(V)
      /\ m = {} => misuse = {} /\ no = {} /\ ~Lost(V) /\ "disposed" \notin m
  BY NotedSays
<1>3. NoneDead(V) => /\ Undisturbed(M) => Undisturbed(V)
                     /\ Calm(M) => Calm(V)
                     /\ Lost(M) => Lost(V)
  BY <1>1, DisposeCalm
<1>4. "disposed" \notin m => Undisturbed(V)
  BY <1>2, <1>3 DEF PanelInv, Consistent, Kept, Grows
<1>5. OnePanelEach /\ m = {} => Calm(V)
  BY <1>2, <1>3 DEF PanelInv, Consistent, Kept
<1>6. Accordion = FALSE => Fit(V)
  <2>1. Accordion = FALSE => Fit(M)
    BY DEF PanelInv, Consistent, Kept
  <2> QED
    BY <1>1, <2>1, DisposeFits
<1> QED
  BY <1>1, <1>4, <1>5, <1>6 DEF Consistent

LEMMA EndAgrees ==
    ASSUME Triggers \in Seq(SUBSET Panels), PanelInv, NEW p \in Panels, TransitionEnd(p)
    PROVE  Consistent(page', misuse)
<1>0. page \in Pages
  BY DEF PanelInv, Consistent
<1>1. PICK n \in 1..Len(page.wait[p]) : page' \in PageType /\ IsEnded(page, page', p, n)
  BY <1>0, TransitionEndIs
<1>2. page' \in Pages /\ (Undisturbed(page) => Undisturbed(page'))
  BY <1>0, <1>1, EndKeeps
<1>3. Calm(page) => Calm(page')
  BY <1>0, <1>1, EndCalm
<1>4. Fit(page) => Fit(page')
  BY <1>0, <1>1, EndFits
<1> QED
  BY <1>2, <1>3, <1>4 DEF PanelInv, Consistent

LEMMA PanelInit == ConstantsAssumption /\ Init => PanelInv
<1> SUFFICES ASSUME ConstantsAssumption, Init PROVE PanelInv
  OBVIOUS
<1>1. PICK open \in SUBSET Panels :
          /\ Accordion => Cardinality(open) <= 1
          /\ page = [class |-> [p \in Panels |-> IF p \in open THEN {"collapse", "show"}
                                                               ELSE {"collapse"}],
                     inst |-> [p \in Panels |-> 0],
                     busy |-> {}, dead |-> {}, made |-> 0,
                     wait |-> [p \in Panels |-> <<>>],
                     expanded |-> [t \in DOMAIN Triggers |-> Triggers[t] \cap open # {}]]
  BY DEF Init
<1>2. PICK cl : cl = [p \in Panels |-> IF p \in open THEN {"collapse", "show"} ELSE {"collapse"}]
  OBVIOUS
<1>3. PICK e : e = [t \in DOMAIN Triggers |-> Triggers[t] \cap open # {}]
  OBVIOUS
<1>4. PICK wt : wt = [p \in Panels |-> <<>>]
  OBVIOUS
<1>5. PICK ins : ins = [p \in Panels |-> 0]
  OBVIOUS
<1>6. /\ cl \in [Panels -> Classes] /\ ins \in [Panels -> Nat] /\ wt \in [Panels -> Seq(Waiting)]
      /\ e \in [DOMAIN Triggers -> BOOLEAN]
  <2>1. cl \in [Panels -> Classes]
    BY <1>2 DEF Classes
  <2>2. e \in [DOMAIN Triggers -> BOOLEAN]
    BY <1>3
  <2>3. wt \in [Panels -> Seq(Waiting)]
    BY <1>4
  <2> QED
    BY <1>5, <2>1, <2>2, <2>3
<1>7. page = [class |-> cl, inst |-> ins, busy |-> {}, dead |-> {}, made |-> 0, wait |-> wt,
              expanded |-> e]
  BY <1>1, <1>2, <1>3, <1>4, <1>5, Zenon
<1>8. page \in PageType
  <2>1. {} \in SUBSET Nat /\ 0 \in Nat
    OBVIOUS
  <2>2. [class |-> cl, inst |-> ins, busy |-> {}, dead |-> {}, made |-> 0, wait |-> wt,
         expanded |-> e] \in PageType
    BY <1>6, <2>1, RecordIsPage
  <2> QED
    BY <1>7, <2>2, Zenon
<1>9. /\ page.class = cl /\ page.inst = ins /\ page.busy = {} /\ page.dead = {} /\ page.made = 0
      /\ page.wait = wt /\ page.expanded = e
  BY <1>7
<1>10. /\ \A p \in Panels : page.inst[p] = 0 /\ page.wait[p] = <<>> /\ ~Moving(page, p)
       /\ \A p \in Panels : Open(page, p) <=> p \in open
  <2>1. \A p \in Panels : page.inst[p] = 0 /\ page.wait[p] = <<>>
    BY <1>4, <1>5, <1>9
  <2>2. \A p \in Panels : page.class[p] = IF p \in open THEN {"collapse", "show"} ELSE {"collapse"}
    BY <1>2, <1>9
  <2>3. \A p \in Panels : ~Moving(page, p)
    BY <2>2 DEF Moving
  <2>4. \A p \in Panels : Open(page, p) <=> p \in open
    BY <2>2 DEF Open
  <2> QED
    BY <2>1, <2>3, <2>4
<1>11. page \in Pages
  BY <1>8, <1>9, <1>10 DEF Pages, Numbered, Carried
<1>12. Undisturbed(page)
  <2>1. DOMAIN <<>> = {}
    OBVIOUS
  <2> QED
    BY <1>9, <1>10, <2>1 DEF Undisturbed
<1>13. OnePanelEach => Calm(page)
  <2> SUFFICES ASSUME Accordion PROVE Calm(page)
    BY DEF OnePanelEach
  <2>1. \A p \in Panels : CalmAt(page, p)
    BY <1>9, <1>10 DEF CalmAt
  <2>2. Cardinality(open) <= 1
    BY <1>1
  <2>3. IsFiniteSet(open)
    <3>1. IsFiniteSet(Panels)
      <4>1. N \in Int
        BY DEF ConstantsAssumption
      <4> QED
        BY <4>1, FS_Interval DEF Panels
    <3> QED
      BY <3>1, FS_Subset
  <2>4. \A p, q \in open : p = q
    <3>1. Cardinality(open) = 0 \/ Cardinality(open) = 1
      BY <2>2, <2>3, FS_CardinalityType
    <3>2. CASE Cardinality(open) = 0
      BY <2>3, <3>2, FS_EmptySet
    <3>3. CASE Cardinality(open) = 1
      <4>1. \E x : open = {x}
        BY <2>3, <3>3, FS_Singleton
      <4> QED
        BY <4>1
    <3> QED
      BY <3>1, <3>2, <3>3
  <2>5. \A p \in Panels : Will(page, p) => p \in open
    BY <1>10 DEF Will
  <2> QED
    BY <2>1, <2>4, <2>5 DEF Calm
<1>14. Fit(page)
  <2>0. \A t \in DOMAIN Triggers : Triggers[t] \subseteq Panels
    BY DEF ConstantsAssumption
  <2>1. ASSUME NEW p \in Panels PROVE FitAt(page, p)
    <3>1. Len(page.wait[p]) = 0
      BY <1>10
    <3>2. \A k \in 1..Len(page.wait[p]) - 1 : FALSE
      BY <3>1
    <3> QED
      BY <1>9, <1>10, <3>2 DEF FitAt
  <2>2. \A t \in DOMAIN Triggers : page.expanded[t] <=> Triggers[t] \cap open # {}
    BY <1>3, <1>9
  <2>3. Told(page)
    BY <1>10, <2>0, <2>2 DEF Told, Up
  <2> QED
    BY <2>1, <2>3 DEF Fit
<1> QED
  BY <1>11, <1>12, <1>13, <1>14 DEF PanelInv, Consistent

LEMMA PanelNext == ConstantsAssumption /\ PanelInv /\ [Next]_vars => PanelInv'
<1> SUFFICES ASSUME ConstantsAssumption, PanelInv, [Next]_vars PROVE Consistent(page', misuse')
  BY DEF PanelInv
<1> USE DEF ConstantsAssumption
<1>0. page \in Pages
  BY DEF PanelInv, Consistent
<1>1. ASSUME NEW no \in SUBSET Panels, NEW p \in Panels, NEW c \in {"show", "hide", "toggle", "dispose"},
             Call(p, c, no)
      PROVE  Consistent(page', misuse')
  <2>1. page' = _jQueryInterface(page, p, c, no) /\ misuse' = Noted(page', no)
    BY <1>1 DEF Call
  <2>2. CASE c # "dispose"
    <3>1. page' \in Pages /\ Kept(page, page', no)
      BY <1>0, <2>1, <2>2, InterfaceKeeps
    <3> QED
      BY <2>1, <3>1, CallAgrees
  <2>3. CASE c = "dispose"
    <3>1. PICK M : M = Instance(page, p, c, no)
      OBVIOUS
    <3>2. M \in Pages /\ Kept(page, M, no) /\ M.inst[p] # 0
      BY <1>0, <3>1, InstanceKeeps
    <3>3. page' = dispose(M, p, M.inst[p])
      BY <2>1, <2>3, <3>1, InterfaceIs
    <3> QED
      BY <2>1, <3>2, <3>3, DisposeAgrees
  <2> QED
    BY <2>2, <2>3
<1>2. ASSUME NEW no \in SUBSET Panels, NEW t \in DOMAIN Triggers, click(t, no)
      PROVE  Consistent(page', misuse')
  <2>1. page' = Clicked(page, t, no) /\ misuse' = Noted(page', no)
    BY <1>2, Zenon DEF click, Clicked
  <2>2. page' \in Pages /\ Kept(page, page', no)
    BY <1>0, <2>1, ClickKeeps
  <2> QED
    BY <2>1, <2>2, CallAgrees
<1>3. ASSUME NEW p \in Panels, TransitionEnd(p) PROVE Consistent(page', misuse')
  <2>1. misuse' = misuse
    BY <1>3 DEF TransitionEnd
  <2>2. Consistent(page', misuse)
    BY <1>3, EndAgrees
  <2> QED
    BY <2>1, <2>2, SMTT(30)
<1>4. CASE UNCHANGED vars
  BY <1>4 DEF vars, PanelInv
<1> QED
  BY <1>1, <1>2, <1>3, <1>4 DEF Next, User

\* A panel that no callback moves rests, and a callback waits for every
\* instance in transition; the page is well formed (bootstrap.js:1257 to 1400).
LEMMA InvIsSound ==
    ASSUME ConstantsAssumption, PanelInv
    PROVE  TypeOK /\ NeverStuck
<1>1. page \in PageType /\ Numbered(page)
  BY DEF PanelInv, Consistent, Pages
<1>2. /\ page.class \in [Panels -> Classes] /\ page.inst \in [Panels -> Nat]
      /\ page.expanded \in [DOMAIN Triggers -> BOOLEAN] /\ page.made \in Nat
  BY <1>1, Fields
<1>3. TypeOK
  BY <1>1, <1>2 DEF TypeOK, Numbered, Classes
<1>4. \A i \in page.busy : \E p \in Panels : \E k \in DOMAIN page.wait[p] : page.wait[p][k].inst = i
  BY <1>1 DEF Numbered, Carried
<1>5. "disposed" \notin misuse => \A p \in Panels : AtRest(p) => page.class[p] # {"collapsing"}
  BY DEF PanelInv, Consistent, Undisturbed, Moving, AtRest
<1> QED
  BY <1>3, <1>4, <1>5 DEF NeverStuck

\* A calm accordion has one panel that is open or will be.
LEMMA InvIsOneOpen ==
    ASSUME ConstantsAssumption, PanelInv
    PROVE  OneOpen
<1> SUFFICES ASSUME Accordion, misuse = {}, \A p \in Panels : _selector(p) \subseteq {p} /\ AtRest(p)
             PROVE  Cardinality({p \in Panels : Open(page, p)}) <= 1
  BY Zenon DEF OneOpen
<1>1. Calm(page)
  BY DEF PanelInv, Consistent, OnePanelEach
<1> DEFINE open == {p \in Panels : Open(page, p)}
<1>2. \A p, q \in open : p = q
  BY <1>1 DEF Calm, Will
<1>3. open = {} \/ \E x : open = {x}
  BY <1>2
<1>4. Cardinality({}) = 0 /\ \A x : Cardinality({x}) = 1
  BY FS_EmptySet, FS_Singleton
<1>5. Cardinality(open) = 0 \/ Cardinality(open) = 1
  <2> HIDE DEF open
  <2> QED
    BY <1>3, <1>4
<1> QED
  BY <1>5

\* Triggers of a group tell what is true of its panels at rest.
LEMMA InvIsTold ==
    ASSUME ConstantsAssumption, PanelInv, Accordion = FALSE
    PROVE  TriggersTellTheTruth
<1>0. Told(page) /\ \A t \in DOMAIN Triggers : Triggers[t] \subseteq Panels
  BY DEF PanelInv, Consistent, Fit, ConstantsAssumption
<1> SUFFICES ASSUME NEW t \in DOMAIN Triggers,
                    \A p \in Triggers[t] : AtRest(p) /\ page.class[p] # {"collapsing"}
             PROVE  /\ page.expanded[t] => \E p \in Triggers[t] : Open(page, p)
                    /\ (\E p \in Triggers[t] : Open(page, p)) /\ Cardinality(Triggers[t]) = 1
                          => page.expanded[t]
  BY Zenon DEF TriggersTellTheTruth
<1>1. \A p \in Triggers[t] : Up(page, p) => Open(page, p)
  BY DEF Up, Moving
<1>2. page.expanded[t] => \E p \in Triggers[t] : Open(page, p)
  BY <1>0, <1>1 DEF Told
<1>3. ASSUME NEW p \in Triggers[t], Open(page, p), Cardinality(Triggers[t]) = 1 PROVE page.expanded[t]
  <2>1. IsFiniteSet(Triggers[t])
    <3>1. IsFiniteSet(Panels)
      <4>1. N \in Int
        BY DEF ConstantsAssumption
      <4> QED
        BY <4>1, FS_Interval DEF Panels
    <3> QED
      BY <1>0, <3>1, FS_Subset
  <2>2. \E x : Triggers[t] = {x}
    BY <1>3, <2>1, FS_Singleton
  <2>3. Triggers[t] = {p} /\ p \in Panels
    BY <1>0, <2>2
  <2> QED
    BY <1>0, <1>3, <2>3 DEF Told
<1> QED
  BY <1>2, <1>3

\* The page is well formed, and no panel is stuck half way: each instance in
\* transition has a callback, whatever is called and disposed of (hide and
\* dispose, bootstrap.js:1330 to 1385).
THEOREM PanelsNeverStick == ConstantsAssumption => (Spec => [](TypeOK /\ NeverStuck))
<1> SUFFICES ASSUME ConstantsAssumption PROVE Spec => [](TypeOK /\ NeverStuck)
  OBVIOUS
<1>1. Init => PanelInv
  BY PanelInit
<1>2. PanelInv /\ [Next]_vars => PanelInv'
  BY PanelNext
<1>3. PanelInv => TypeOK /\ NeverStuck
  BY InvIsSound
<1> QED
  BY <1>1, <1>2, <1>3, PTL DEF Spec

\* An accordion at rest shows one panel at most (show, bootstrap.js:1257 to 1327).
THEOREM OnePanelIsOpen == ConstantsAssumption => (Spec => []OneOpen)
<1> SUFFICES ASSUME ConstantsAssumption PROVE Spec => []OneOpen
  OBVIOUS
<1>1. Init => PanelInv
  BY PanelInit
<1>2. PanelInv /\ [Next]_vars => PanelInv'
  BY PanelNext
<1>3. PanelInv => OneOpen
  BY InvIsOneOpen
<1> QED
  BY <1>1, <1>2, <1>3, PTL DEF Spec

\* A trigger of panels without a parent tells the truth of those at rest
\* (_addAriaAndCollapsedClass, bootstrap.js:1413 to 1420).
THEOREM TriggersAreTrue ==
    ConstantsAssumption /\ Accordion = FALSE => (Spec => []TriggersTellTheTruth)
<1> SUFFICES ASSUME ConstantsAssumption, Accordion = FALSE PROVE Spec => []TriggersTellTheTruth
  OBVIOUS
<1>1. Init => PanelInv
  BY PanelInit
<1>2. PanelInv /\ [Next]_vars => PanelInv'
  BY PanelNext
<1>3. PanelInv => TriggersTellTheTruth
  BY InvIsTold
<1> QED
  BY <1>1, <1>2, <1>3, PTL DEF Spec
=============================================================================
