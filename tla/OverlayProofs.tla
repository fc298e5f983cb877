---------------------------- MODULE OverlayProofs ----------------------------
(***************************************************************************)
(* Proofs about what comes into view and goes again, for any page: any     *)
(* number of callbacks, styles and alerts, any options, with no bound on   *)
(* time and calls.                                                         *)
(***************************************************************************)
EXTENDS Overlays, Induction, TLAPS
-----------------------------------------------------------------------------
(***************************************************************************)
(* The emulated end of transitions: a callback waits until its only run, a *)
(* timer that comes late runs nothing, and every step of the emulator is   *)
(* one of the contract of Completions that the plugins rely on.            *)
(***************************************************************************)

\* The properties are inductive together.
EmulatorInv == TransTypeOK /\ WaitsThenRunsOnce

\* The first of a style's times is a time.
LEMMA FirstTimes ==
    ASSUME NEW s \in Styles
    PROVE  Head(s.duration) \in Nat /\ Head(s.delay) \in Nat
BY StyleAssumption

LEMMA InitEmulator == TransInit => EmulatorInv
<1> SUFFICES ASSUME TransInit PROVE EmulatorInv
  OBVIOUS
<1>1. TransTypeOK
  <2>1. Off \in Nat \cup {Off}
    OBVIOUS
  <2>2. \A c \in Callbacks : timer[c] = Off
    BY DEF TransInit
  <2> QED
    BY <2>1, <2>2 DEF TransInit, TransTypeOK
<1>2. WaitsThenRunsOnce
  BY DEF TransInit, WaitsThenRunsOnce
<1> QED
  BY <1>1, <1>2 DEF EmulatorInv

\* What the event does to the callbacks, whoever triggers it.
LEMMA DispatchRunsOnce ==
    ASSUME EmulatorInv, Dispatch
    PROVE  /\ handlers' = {} /\ called' \subseteq Callbacks
           /\ runs' \in [Callbacks -> Nat]
           /\ \A c \in Callbacks : runs'[c] = IF c \in called' THEN 1 ELSE 0
BY DEF Dispatch, EmulatorInv, TransTypeOK, WaitsThenRunsOnce

\* A timer that has fired leaves the others armed as they were.
LEMMA TimersStayArmed ==
    ASSUME EmulatorInv, NEW d \in Callbacks,
           timer' = [timer EXCEPT ![d] = Off], now' = now
    PROVE  /\ timer' \in [Callbacks -> Nat \cup {Off}]
           /\ \A c \in Callbacks : timer'[c] # Off =>
                 \E s \in Styles : timer'[c] <= now' + Head(s.duration) + Head(s.delay)
BY DEF EmulatorInv, TransTypeOK

LEMMA NextEmulator == EmulatorInv /\ [TransNext]_transVars => EmulatorInv'
<1> SUFFICES ASSUME EmulatorInv, [TransNext]_transVars PROVE EmulatorInv'
  OBVIOUS
<1>1. ASSUME NEW c \in Callbacks, NEW s \in Styles,
             transitionEndEmulator(c, getTransitionDurationFromElement(s))
      PROVE  EmulatorInv'
  <2> DEFINE end == now + Head(s.duration) + Head(s.delay)
  <2>1. end \in Nat /\ timer' = [timer EXCEPT ![c] = end]
    <3>1. now \in Nat /\ Head(s.duration) \in Nat /\ Head(s.delay) \in Nat
      BY FirstTimes DEF EmulatorInv, TransTypeOK
    <3>2. now + getTransitionDurationFromElement(s) = end
      BY <3>1 DEF getTransitionDurationFromElement
    <3>3. timer' = [timer EXCEPT ![c] = now + getTransitionDurationFromElement(s)]
      BY <1>1 DEF transitionEndEmulator
    <3>4. end \in Nat
      BY <3>1
    <3> QED
      BY <3>2, <3>3, <3>4
  <2>2. end # Off
    BY <2>1 DEF Off
  <2>3. \A d \in Callbacks : timer'[d] # Off =>
           \E q \in Styles : timer'[d] <= now' + Head(q.duration) + Head(q.delay)
    <3> SUFFICES ASSUME NEW d \in Callbacks, timer'[d] # Off
                 PROVE  \E q \in Styles : timer'[d] <= now' + Head(q.duration) + Head(q.delay)
      OBVIOUS
    <3>1. CASE d = c
      <4>1. timer'[d] = end /\ now' = now
        BY <1>1, <2>1, <3>1 DEF transitionEndEmulator, EmulatorInv, TransTypeOK
      <4> QED
        BY <4>1, <2>1
    <3>2. CASE d # c
      BY <1>1, <2>1, <3>2 DEF transitionEndEmulator, EmulatorInv, TransTypeOK
    <3> QED
      BY <3>1, <3>2
  <2>4. TransTypeOK'
    BY <1>1, <2>1, <2>3 DEF transitionEndEmulator, EmulatorInv, TransTypeOK
  <2>5. WaitsThenRunsOnce'
    BY <1>1, <2>1, <2>2 DEF transitionEndEmulator, EmulatorInv, TransTypeOK, WaitsThenRunsOnce
  <2> QED
    BY <2>4, <2>5 DEF EmulatorInv
<1>2. ASSUME NEW c \in Callbacks, timeout(c)
      PROVE  EmulatorInv'
  <2>1. /\ timer' \in [Callbacks -> Nat \cup {Off}]
        /\ \A d \in Callbacks : timer'[d] # Off =>
              \E s \in Styles : timer'[d] <= now' + Head(s.duration) + Head(s.delay)
    BY <1>2, TimersStayArmed DEF timeout
  <2>2. CASE c \in called
    BY <1>2, <2>1, <2>2 DEF timeout, EmulatorInv, TransTypeOK, WaitsThenRunsOnce
  <2>3. CASE c \notin called
    BY <1>2, <2>1, <2>3, DispatchRunsOnce DEF timeout, EmulatorInv, TransTypeOK, WaitsThenRunsOnce
  <2> QED
    BY <2>2, <2>3
<1>3. CASE NaturalEnd
  BY <1>3, DispatchRunsOnce DEF NaturalEnd, EmulatorInv, TransTypeOK, WaitsThenRunsOnce
<1>4. CASE Cancel
  BY <1>4 DEF Cancel, EmulatorInv, TransTypeOK, WaitsThenRunsOnce
<1>5. CASE Tick
  <2>1. \A c \in Callbacks : timer'[c] # Off =>
           \E s \in Styles : timer'[c] <= now' + Head(s.duration) + Head(s.delay)
    <3> SUFFICES ASSUME NEW c \in Callbacks, timer[c] # Off
                 PROVE  \E s \in Styles : timer[c] <= now + 1 + Head(s.duration) + Head(s.delay)
      BY <1>5 DEF Tick
    <3>1. PICK s \in Styles : timer[c] <= now + Head(s.duration) + Head(s.delay)
      BY DEF EmulatorInv, TransTypeOK
    <3>2. timer[c] \in Int /\ now \in Nat
      BY DEF EmulatorInv, TransTypeOK, Off
    <3> QED
      BY <3>1, <3>2, FirstTimes
  <2> QED
    BY <1>5, <2>1 DEF Tick, EmulatorInv, TransTypeOK, WaitsThenRunsOnce
<1>6. CASE UNCHANGED transVars
  BY <1>6 DEF transVars, EmulatorInv, TransTypeOK, WaitsThenRunsOnce
<1> QED
  BY <1>1, <1>2, <1>3, <1>4, <1>5, <1>6 DEF TransNext

\* EmulatorInv holds in every state.
THEOREM EmulatorInvariance == TransSpec => []EmulatorInv
BY InitEmulator, NextEmulator, PTL DEF TransSpec

\* Types, and no timer is armed for longer than a style says.
THEOREM EmulatorTypes == TransSpec => []TransTypeOK
BY EmulatorInvariance, PTL DEF EmulatorInv

\* Whatever the browser reports, and whenever timers fire, a callback waits with
\* an armed timer from its registration to its only run.
THEOREM RunsOnce == TransSpec => []WaitsThenRunsOnce
BY EmulatorInvariance, PTL DEF EmulatorInv

\* A timer whose callback has run ends no other transition of the element.
THEOREM LateTimers == TransSpec => LateTimerIsHarmless
<1> DEFINE Harmless == \A c \in Callbacks :
                          timer[c] # Off /\ timer'[c] = Off /\ runs[c] # 0 => runs' = runs
<1>1. EmulatorInv /\ [TransNext]_transVars => [Harmless]_transVars
  <2> SUFFICES ASSUME EmulatorInv, TransNext, NEW c \in Callbacks,
                      timer[c] # Off, timer'[c] = Off, runs[c] # 0
               PROVE  runs' = runs
    OBVIOUS
  <2>1. ASSUME NEW d \in Callbacks, timeout(d)
        PROVE  runs' = runs
    <3>1. d = c
      BY <2>1 DEF timeout, EmulatorInv, TransTypeOK
    <3>2. c \in called
      BY DEF EmulatorInv, WaitsThenRunsOnce
    <3> QED
      BY <2>1, <3>1, <3>2 DEF timeout
  <2>2. ASSUME NaturalEnd \/ Cancel \/ Tick PROVE FALSE
    BY <2>2 DEF NaturalEnd, Cancel, Tick
  <2>3. ASSUME NEW d \in Callbacks, NEW s \in Styles,
               transitionEndEmulator(d, getTransitionDurationFromElement(s))
        PROVE  runs' = runs
    BY <2>3 DEF transitionEndEmulator
  <2> QED
    BY <2>1, <2>2, <2>3 DEF TransNext
<1> QED
  BY <1>1, EmulatorInvariance, PTL DEF TransSpec, LateTimerIsHarmless

\* Every step of the emulator is a registration or an end of the contract, or
\* none of its steps: the contract of KeepsContract without its fairness.
THEOREM RefinesCompletions == TransSpec => Contract!Spec
<1>1. TransInit => Contract!Init
  BY DEF TransInit, Contract!Init
<1>2. EmulatorInv /\ [TransNext]_transVars => [Contract!Next]_<<handlers, called>>
  <2> SUFFICES ASSUME EmulatorInv, [TransNext]_transVars
               PROVE  Contract!Next \/ UNCHANGED <<handlers, called>>
    OBVIOUS
  <2>1. ASSUME Dispatch PROVE Contract!End \/ UNCHANGED <<handlers, called>>
    <3>1. CASE handlers = {}
      BY <2>1, <3>1 DEF Dispatch
    <3>2. CASE handlers # {}
      BY <2>1, <3>2 DEF Dispatch, Contract!End
    <3> QED
      BY <3>1, <3>2
  <2>2. ASSUME NEW c \in Callbacks, NEW s \in Styles,
               transitionEndEmulator(c, getTransitionDurationFromElement(s))
        PROVE  Contract!Register(c)
    BY <2>2 DEF transitionEndEmulator, Contract!Register
  <2>3. ASSUME NEW c \in Callbacks, timeout(c)
        PROVE  Dispatch \/ UNCHANGED <<handlers, called>>
    BY <2>3 DEF timeout
  <2>4. ASSUME NaturalEnd PROVE Dispatch
    BY <2>4 DEF NaturalEnd
  <2>5. ASSUME Cancel \/ Tick \/ UNCHANGED transVars PROVE UNCHANGED <<handlers, called>>
    BY <2>5 DEF Cancel, Tick, transVars
  <2> QED
    BY <2>1, <2>2, <2>3, <2>4, <2>5 DEF TransNext, Contract!Next
<1> QED
  BY <1>1, <1>2, EmulatorInvariance, PTL DEF TransSpec, Contract!Spec

\* Who waits has a timer, and nobody runs twice.
THEOREM EmulatorIsSound == TransSpec => []EmulatorSound
BY EmulatorTypes, RunsOnce, PTL DEF EmulatorSound
-----------------------------------------------------------------------------
(***************************************************************************)
(* Alerts, however deep they are in one another, and any number of clicks. *)
(***************************************************************************)

\* Only alerts that are closing have callbacks that wait.
OnlyClosingWait == \A a \in Alerts : wait[a] > 0 => a \in closing

AlertInv == TypeOK /\ OnlyClosingWait /\ LeavesOnlyIfClosed

LEMMA InitAlert == Init => AlertInv
BY DEF Init, AlertInv, TypeOK, OnlyClosingWait, LeavesOnlyIfClosed

\* What an alert takes with it leaves nothing inside of an alert that is gone.
LEMMA DestroyTakesInside ==
    ASSUME AlertInv, NEW a \in Alerts, _destroyElement(a)
    PROVE  /\ present' \subseteq present /\ a \notin present'
           /\ \A b \in Alerts : present' \cap Inside[b] # {} => b \in present'
           /\ \A b \in Alerts : b \in present \ present' => b \in Inside[a]
<1>1. present' = present \ Inside[a] /\ a \in Inside[a]
  BY AlertAssumption DEF _destroyElement
<1>2. ASSUME NEW b \in Alerts, present' \cap Inside[b] # {}
      PROVE  b \in present'
  <2>1. b \in present
    BY <1>1, <1>2 DEF AlertInv, TypeOK
  <2>2. b \notin Inside[a]
    BY <1>1, <1>2, AlertAssumption
  <2> QED
    BY <1>1, <2>1, <2>2
<1> QED
  BY <1>1, <1>2

\* A close that is not prevented, of an alert in the document.
LEMMA CloseKeeps ==
    ASSUME AlertInv, NEW a \in Alerts, close(a), UNCHANGED fade
    PROVE  AlertInv'
<1>1. CASE a \in fade
  BY <1>1 DEF close, AlertInv, TypeOK, OnlyClosingWait, LeavesOnlyIfClosed
<1>2. CASE a \notin fade
  <2>1. _destroyElement(a) /\ closed' = [closed EXCEPT ![a] = @ + 1]
        /\ wait' = wait /\ closing' = closing \cup {a} /\ show' = show \ {a}
    BY <1>2 DEF close
  <2>2. TypeOK'
    BY <2>1, DestroyTakesInside DEF AlertInv, TypeOK
  <2>3. OnlyClosingWait'
    BY <2>1 DEF AlertInv, OnlyClosingWait
  <2>4. LeavesOnlyIfClosed'
    BY <2>1, DestroyTakesInside DEF AlertInv, TypeOK, LeavesOnlyIfClosed
  <2> QED
    BY <2>2, <2>3, <2>4 DEF AlertInv
<1> QED
  BY <1>1, <1>2

LEMMA NextAlert == AlertInv /\ [Next]_vars => AlertInv'
<1> SUFFICES ASSUME AlertInv, [Next]_vars PROVE AlertInv'
  OBVIOUS
<1>1. ASSUME NEW b \in Buttons, _handleDismiss(b)
      PROVE  AlertInv'
  <2>1. _getRootElement(b) \in Alerts
    BY <1>1, AlertAssumption DEF _handleDismiss, _getRootElement
  <2> QED
    BY <1>1, <2>1, CloseKeeps DEF _handleDismiss
<1>2. ASSUME NEW a \in Alerts, Close(a)
      PROVE  AlertInv'
  BY <1>2, CloseKeeps DEF Close
<1>3. ASSUME NEW a \in Alerts, TransitionEnd(a)
      PROVE  AlertInv'
  <2>1. wait' = [wait EXCEPT ![a] = 0] /\ UNCHANGED <<fade, show, closing>> /\ a \in closing
    BY <1>3 DEF TransitionEnd, AlertInv, OnlyClosingWait
  <2>2. OnlyClosingWait'
    BY <2>1 DEF AlertInv, TypeOK, OnlyClosingWait
  <2>3. CASE a \in present
    <3>1. _destroyElement(a) /\ closed' = [closed EXCEPT ![a] = @ + wait[a]]
      BY <1>3, <2>3 DEF TransitionEnd
    <3>2. TypeOK'
      BY <2>1, <3>1, DestroyTakesInside DEF AlertInv, TypeOK
    <3>3. LeavesOnlyIfClosed'
      BY <2>1, <3>1, DestroyTakesInside DEF AlertInv, TypeOK, LeavesOnlyIfClosed
    <3> QED
      BY <2>2, <3>2, <3>3 DEF AlertInv
  <2>4. CASE a \notin present
    BY <1>3, <2>1, <2>2, <2>4 DEF TransitionEnd, AlertInv, TypeOK, LeavesOnlyIfClosed
  <2> QED
    BY <2>3, <2>4
<1>4. CASE UNCHANGED vars
  BY <1>4 DEF vars, AlertInv, TypeOK, OnlyClosingWait, LeavesOnlyIfClosed
<1> QED
  BY <1>1, <1>2, <1>3, <1>4 DEF Next

\* AlertInv holds in every state.
THEOREM AlertInvariance == Spec => []AlertInv
BY InitAlert, NextAlert, PTL DEF Spec

\* Types, and nothing is left in the document that was in an alert that is gone.
THEOREM AlertTypes == Spec => []TypeOK
BY AlertInvariance, PTL DEF AlertInv

\* An alert leaves only when it, or one around it, was closed, and tells so only
\* when it has left.
THEOREM OnlyClosedLeave == Spec => []LeavesOnlyIfClosed
BY AlertInvariance, PTL DEF AlertInv

\* Only what was closed is gone.
THEOREM Presence == Spec => []OnlyClosedAreGone
BY AlertTypes, OnlyClosedLeave, PTL DEF OnlyClosedAreGone
-----------------------------------------------------------------------------
(***************************************************************************)
(* The modal.  Its properties are not inductive: what holds of it at rest  *)
(* follows from what each callback that waits says about the flags, the    *)
(* backdrop and the body while it moves.                                   *)
(***************************************************************************)

\* A callback of the kind do waits.
Pending(do) == \E h \in modalWait : h.do = do

\* What waits agrees with the flags, and one thing at a time is awaited.
MovesOneWay ==
    \A h \in modalWait : h.live =>
        /\ h.do \in {"showElement", "complete"} => isShown /\ isTransitioning
        /\ h.do = "hideModal" => ~isShown /\ isTransitioning
        /\ \A g \in modalWait :
              g.live /\ g.do # "remove" /\ h.do # "remove" => g = h

\* Nothing waits without transitions, only an instance is shown, and a backdrop
\* without a modal is on its way out.
WaitsForReason ==
    /\ modalWait # {} => modalFade
    /\ isShown => modalExists
    /\ backdrop # 0 => \/ isShown
                       \/ \E h \in modalWait : h.live /\ h.do \in {"hideModal", "remove"}

\* Without the misuse that the code does not guard against, what waits says in
\* which of its parts the modal is still seen.
PictureInMotion ==
    modalMisuse \cap {"reopened", "disposed"} = {} =>
        /\ \A h \in modalWait :
              /\ h.live
              /\ h.do = "remove" => /\ h.on = backdrop /\ backdrop # 0
                                    /\ ~isShown /\ ~Pending("hideModal")
        /\ display = ((isShown /\ ~Pending("showElement")) \/ Pending("hideModal"))
        /\ showClass = (isShown /\ ~Pending("showElement"))
        /\ body.open = (isShown \/ Pending("hideModal") \/ Pending("remove"))
        /\ adjusted => body.open
        /\ isShown => (backdrop # 0 <=> modalConfig.backdrop # "false")

ModalInv ==
    /\ Modal!TypeOK /\ Modal!BlockedIsTemporary /\ Modal!CapturesOnlyWhileShown
    /\ Modal!BackdropsAccounted
    /\ MovesOneWay /\ WaitsForReason /\ PictureInMotion

LEMMA InitModal == Modal!Init => ModalInv
<1> SUFFICES ASSUME Modal!Init PROVE ModalInv
  OBVIOUS
<1>1. Modal!TypeOK
  <2>1. body \in [open : BOOLEAN, padding : Nat, saved : Nat \cup {-1}, own : Nat,
                  overflows : BOOLEAN, overflowing : BOOLEAN]
    <3>1. PICK p \in {0, 5}, q \in {0, 5}, o \in BOOLEAN :
             body = [open |-> FALSE, padding |-> p, saved |-> -1, own |-> q,
                     overflows |-> o, overflowing |-> FALSE]
      BY DEF Modal!Init
    <3> QED
      BY <3>1
  <2>2. {modalExists, isShown, isTransitioning, display, showClass, ignoreClick, adjusted}
           \subseteq BOOLEAN
    BY DEF Modal!Init
  <2>3. dom \subseteq 1..made /\ listeners \subseteq Modal!Bound
    BY DEF Modal!Init
  <2> QED
    BY <2>1, <2>2, <2>3 DEF Modal!Init, Modal!TypeOK
<1>2. Modal!BlockedIsTemporary /\ Modal!CapturesOnlyWhileShown /\ Modal!BackdropsAccounted
  BY DEF Modal!Init, Modal!BlockedIsTemporary, Modal!CapturesOnlyWhileShown, Modal!BackdropsAccounted
<1>3. MovesOneWay /\ WaitsForReason /\ PictureInMotion
  BY DEF Modal!Init, MovesOneWay, WaitsForReason, PictureInMotion, Pending
<1> QED
  BY <1>1, <1>2, <1>3 DEF ModalInv

\* A call that finds nothing to do makes an instance at most.
LEMMA IdleModal ==
    ASSUME ModalInv, NEW c \in ModalConfigs, NEW link \in {0, 1}, Modal!idle(c, link)
    PROVE  ModalInv'
<1>1. /\ UNCHANGED <<modalFade, isShown, isTransitioning, backdrop, ignoreClick, dom, made,
                     modalWait, display, showClass, listeners, adjusted, body, onHidden, modalMisuse>>
      /\ modalExists' = TRUE
      /\ modalConfig' = IF modalExists THEN modalConfig ELSE c
      /\ onShow' = onShow + link
  BY DEF Modal!idle, Modal!instance, Modal!elemVars
<1>2. Modal!TypeOK'
  BY <1>1 DEF ModalInv, Modal!TypeOK
<1>3. Modal!BlockedIsTemporary' /\ Modal!CapturesOnlyWhileShown' /\ Modal!BackdropsAccounted'
  BY <1>1 DEF ModalInv, Modal!BlockedIsTemporary, Modal!CapturesOnlyWhileShown, Modal!BackdropsAccounted
<1>4. MovesOneWay' /\ WaitsForReason'
  BY <1>1 DEF ModalInv, MovesOneWay, WaitsForReason
<1>5. PictureInMotion'
  BY <1>1 DEF ModalInv, WaitsForReason, PictureInMotion, Pending
<1> QED
  BY <1>2, <1>3, <1>4, <1>5 DEF ModalInv

\* The handlers of keys, clicks and the window change no more than themselves.
LEMMA HandlersModal ==
    ASSUME ModalInv,
           Modal!ignoredClick \/ Modal!mousedown \/ (\E e \in BOOLEAN : Modal!mouseup(e))
              \/ Modal!resize
    PROVE  ModalInv'
<1> DEFINE Same == UNCHANGED <<modalFade, modalConfig, modalExists, isShown, isTransitioning,
                               backdrop, dom, made, modalWait, display, showClass, body,
                               onShow, onHidden, modalMisuse>>
<1>a. ignoreClick \in BOOLEAN /\ adjusted \in BOOLEAN
  BY DEF ModalInv, Modal!TypeOK
<1>1. /\ Same
      /\ ignoreClick' \in BOOLEAN
      /\ listeners' \in {listeners, listeners \ {"mouseup"}, listeners \cup {"mouseup"}}
      /\ adjusted' \in BOOLEAN /\ (adjusted' => adjusted \/ isShown)
  <2>1. CASE Modal!ignoredClick
    BY <1>a, <2>1 DEF Modal!ignoredClick, Modal!elemVars
  <2>2. CASE Modal!mousedown
    BY <1>a, <2>2 DEF Modal!mousedown, Modal!instVars
  <2>3. ASSUME NEW e \in BOOLEAN, Modal!mouseup(e)
        PROVE  /\ Same /\ ignoreClick' \in BOOLEAN /\ listeners' = listeners \ {"mouseup"}
               /\ adjusted' = adjusted
    BY <1>a, <2>3 DEF Modal!mouseup
  <2>4. ASSUME Modal!resize
        PROVE  /\ Same /\ ignoreClick' = ignoreClick /\ listeners' = listeners
               /\ adjusted' \in BOOLEAN /\ (adjusted' => adjusted \/ isShown)
    <3>1. isShown
      BY <2>4 DEF Modal!resize, ModalInv, Modal!CapturesOnlyWhileShown
    <3>2. adjusted' \in BOOLEAN
      BY <1>a, <2>4 DEF Modal!resize, Modal!_adjustDialog
    <3> QED
      BY <2>4, <3>1, <3>2 DEF Modal!resize, Modal!instVars
  <2> QED
    BY <1>a, <2>1, <2>2, <2>3, <2>4
<1>2. Modal!TypeOK'
  BY <1>1 DEF ModalInv, Modal!TypeOK, Modal!Bound
<1>3. Modal!BlockedIsTemporary' /\ Modal!CapturesOnlyWhileShown' /\ Modal!BackdropsAccounted'
  BY <1>1 DEF ModalInv, Modal!BlockedIsTemporary, Modal!CapturesOnlyWhileShown, Modal!BackdropsAccounted
<1>4. MovesOneWay' /\ WaitsForReason'
  BY <1>1 DEF ModalInv, MovesOneWay, WaitsForReason
<1>5. PictureInMotion'
  BY <1>1 DEF ModalInv, PictureInMotion, Pending
<1> QED
  BY <1>2, <1>3, <1>4, <1>5 DEF ModalInv

LEMMA DisposeModal == ModalInv /\ Modal!dispose => ModalInv'
<1> SUFFICES ASSUME ModalInv, Modal!dispose PROVE ModalInv'
  OBVIOUS
<1>0. \A g \in modalWait' : \E h \in modalWait : g = [h EXCEPT !.live = FALSE]
  BY DEF Modal!dispose
<1>1. Modal!TypeOK'
  <2>1. {modalExists, isShown, isTransitioning, display, showClass, ignoreClick, adjusted}'
           \subseteq BOOLEAN
    BY DEF Modal!dispose, ModalInv, Modal!TypeOK
  <2>2. modalWait' \subseteq [on : {Modal!Element, Modal!Dialog} \cup 1..made', live : BOOLEAN,
                             do : {"showElement", "complete", "hideModal", "remove"}]
    <3> SUFFICES ASSUME NEW g \in modalWait'
                 PROVE  g \in [on : {Modal!Element, Modal!Dialog} \cup 1..made', live : BOOLEAN,
                              do : {"showElement", "complete", "hideModal", "remove"}]
      OBVIOUS
    <3>1. PICK h \in modalWait : g = [h EXCEPT !.live = FALSE]
      BY <1>0
    <3>2. h \in [on : {Modal!Element, Modal!Dialog} \cup 1..made, live : BOOLEAN,
                do : {"showElement", "complete", "hideModal", "remove"}]
      BY DEF ModalInv, Modal!TypeOK
    <3> QED
      BY <3>1, <3>2 DEF Modal!dispose
  <2>3. modalMisuse' \subseteq {"prevented", "reopened", "disposed"}
    BY DEF Modal!dispose, ModalInv, Modal!TypeOK
  <2> QED
    BY <2>1, <2>2, <2>3 DEF Modal!dispose, ModalInv, Modal!TypeOK
<1>2. Modal!BlockedIsTemporary' /\ Modal!CapturesOnlyWhileShown'
  BY DEF Modal!dispose, Modal!BlockedIsTemporary, Modal!CapturesOnlyWhileShown
<1>3. Modal!BackdropsAccounted'
  BY DEF Modal!dispose, ModalInv, WaitsForReason, Modal!TypeOK, Modal!BackdropsAccounted
<1>4. MovesOneWay' /\ WaitsForReason'
  <2>1. \A h \in modalWait' : ~h.live
    BY <1>0 DEF ModalInv, Modal!TypeOK
  <2>2. modalWait = {} => modalWait' = {}
    BY <1>0
  <2> QED
    BY <2>1, <2>2 DEF Modal!dispose, ModalInv, MovesOneWay, WaitsForReason
<1>5. PictureInMotion'
  BY DEF Modal!dispose, ModalInv, Modal!TypeOK, PictureInMotion, Pending
<1> QED
  BY <1>1, <1>2, <1>3, <1>4, <1>5 DEF ModalInv

\* What a body is.
BodyType == [open : BOOLEAN, padding : Nat, saved : Nat \cup {-1}, own : Nat,
             overflows : BOOLEAN, overflowing : BOOLEAN]

\* What a callback that waits is, with n backdrops made.
CallbackType(n) == [on : {Modal!Element, Modal!Dialog} \cup 1..n, live : BOOLEAN,
                    do : {"showElement", "complete", "hideModal", "remove"}]

\* A body with some of its fields changed.
LEMMA BodyToggled ==
    ASSUME NEW b \in BodyType, NEW x \in BOOLEAN
    PROVE  /\ [b EXCEPT !.open = x] \in BodyType /\ [b EXCEPT !.open = x].open = x
           /\ [b EXCEPT !.overflowing = x] \in BodyType
BY DEF BodyType

LEMMA BodyOpens ==
    ASSUME NEW b \in BodyType
    PROVE  /\ Modal!_setScrollbar(Modal!_checkScrollbar(b)) \in BodyType
           /\ Modal!_setScrollbar(Modal!_checkScrollbar(b)).open = TRUE
<1> DEFINE c == Modal!_checkScrollbar(b)
<1>1. PICK v \in BOOLEAN : v = (b.overflows /\ ~b.open)
  OBVIOUS
<1>2. PICK x \in BOOLEAN : x = TRUE
  OBVIOUS
<1>3. c = [b EXCEPT !.overflowing = v]
  BY <1>1 DEF Modal!_checkScrollbar
<1>4. c \in BodyType
  BY <1>3, BodyToggled
<1> HIDE DEF c
<1>5. c.padding \in Nat /\ c.padding + 1 \in Nat
  BY <1>4 DEF BodyType
<1>6. Modal!_setScrollbar(c) = IF c.overflowing
         THEN [c EXCEPT !.saved = c.padding, !.padding = c.padding + 1, !.open = x]
         ELSE [c EXCEPT !.open = x]
  BY <1>2 DEF Modal!_setScrollbar
<1>7. /\ [c EXCEPT !.saved = c.padding, !.padding = c.padding + 1, !.open = x] \in BodyType
      /\ [c EXCEPT !.saved = c.padding, !.padding = c.padding + 1, !.open = x].open = x
      /\ [c EXCEPT !.open = x] \in BodyType /\ [c EXCEPT !.open = x].open = x
  BY <1>4, <1>5 DEF BodyType
<1>8. Modal!_setScrollbar(c) \in BodyType /\ Modal!_setScrollbar(c).open = x
  BY <1>6, <1>7
<1> QED
  BY <1>2, <1>8 DEF c

LEMMA BodyCloses ==
    ASSUME NEW b \in BodyType
    PROVE  /\ Modal!_resetScrollbar([b EXCEPT !.open = FALSE]) \in BodyType
           /\ Modal!_resetScrollbar([b EXCEPT !.open = FALSE]).open = FALSE
<1>1. PICK x \in BOOLEAN : x = FALSE
  OBVIOUS
<1> DEFINE c == [b EXCEPT !.open = x]
<1>2. c \in BodyType /\ c.open = x
  BY BodyToggled
<1> HIDE DEF c
<1>3. PICK n \in Nat : n = IF c.saved > 0 THEN c.saved ELSE 0
  <2>1. c.saved \in Nat \cup {-1}
    BY <1>2 DEF BodyType
  <2> QED
    BY <2>1
<1>4. Modal!_resetScrollbar(c) = [c EXCEPT !.padding = n, !.saved = -1]
  BY <1>3 DEF Modal!_resetScrollbar
<1>5. -1 \in Nat \cup {-1}
  OBVIOUS
<1>6. Modal!_resetScrollbar(c) \in BodyType /\ Modal!_resetScrollbar(c).open = x
  BY <1>2, <1>4, <1>5 DEF BodyType
<1> QED
  BY <1>1, <1>6 DEF c

\* The type invariant, part by part.
LEMMA ModalTypes ==
    ASSUME Modal!TypeOK
    PROVE  /\ modalFade \in BOOLEAN /\ modalConfig \in ModalConfigs
           /\ modalExists \in BOOLEAN /\ isShown \in BOOLEAN /\ isTransitioning \in BOOLEAN
           /\ display \in BOOLEAN /\ showClass \in BOOLEAN /\ adjusted \in BOOLEAN
           /\ ignoreClick \in BOOLEAN
           /\ backdrop \in Nat /\ made \in Nat /\ onShow \in Nat /\ onHidden \in Nat
           /\ dom \subseteq 1..made /\ body \in BodyType
           /\ \A h \in modalWait : h \in CallbackType(made)
BY DEF Modal!TypeOK, BodyType, CallbackType

\* More callbacks, and more backdrops made.
LEMMA CallbacksGrow ==
    ASSUME Modal!TypeOK, NEW n \in Nat, n >= made, NEW h, h \in CallbackType(n)
    PROVE  modalWait \cup {h} \subseteq CallbackType(n)
<1> SUFFICES ASSUME NEW g \in modalWait PROVE g \in CallbackType(n)
  OBVIOUS
<1>1. g \in CallbackType(made) /\ made \in Nat
  BY ModalTypes
<1>2. 1..made \subseteq 1..n
  BY <1>1
<1> QED
  BY <1>1, <1>2 DEF CallbackType

\* show of a modal with a backdrop that fades in: the element waits for it.
LEMMA ShowBehindBackdrop ==
    ASSUME ModalInv, NEW c \in ModalConfigs, NEW link \in {0, 1},
           Modal!show(c, "no", link), Modal!HasBackdrop, modalFade
    PROVE  ModalInv'
<1> DEFINE h == Modal!Callback(made', "showElement")
<1>0. Modal!TypeOK
  BY DEF ModalInv
<1>1. /\ modalExists' = TRUE /\ ~isShown /\ ~isTransitioning
      /\ modalConfig' = IF modalExists THEN modalConfig ELSE c
      /\ modalConfig'.backdrop # "false"
      /\ isShown' = TRUE /\ isTransitioning' = TRUE
      /\ made' = made + 1 /\ backdrop' = made' /\ dom' = dom \cup {made'}
      /\ modalWait' = modalWait \cup {h}
      /\ listeners' = listeners \cup Modal!Opened
      /\ onShow' = 0 /\ onHidden' = onHidden + (onShow + link)
      /\ modalMisuse' = modalMisuse \cup IF backdrop # 0 THEN {"reopened"} ELSE {}
      /\ UNCHANGED <<modalFade, ignoreClick, display, showClass>>
  BY DEF Modal!show, Modal!instance, Modal!Restorers, Modal!Open, Modal!_showBackdrop, Modal!HasBackdrop
<1>2. body' = Modal!_setScrollbar(Modal!_checkScrollbar(body))
  BY DEF Modal!show, Modal!Open
<1>3. adjusted' \in BOOLEAN
  BY <1>0, ModalTypes DEF Modal!show, Modal!Open, Modal!_adjustDialog
<1>4. body' \in BodyType /\ body'.open = TRUE
  BY <1>0, <1>2, ModalTypes, BodyOpens
<1>5. h = [on |-> made', do |-> "showElement", live |-> TRUE]
  BY DEF Modal!Callback
<1> HIDE DEF h
<1>6. modalWait' \subseteq CallbackType(made')
  <2>1. made' \in Nat /\ made' >= made /\ h \in CallbackType(made')
    BY <1>0, <1>1, <1>5, ModalTypes DEF CallbackType
  <2> QED
    BY <1>0, <1>1, <2>1, CallbacksGrow
<1>7. Modal!Opened \subseteq Modal!Bound /\ {"dismiss", "resize"} \subseteq Modal!Opened
  BY DEF Modal!Opened, Modal!Bound
<1>8. Modal!TypeOK'
  BY <1>0, <1>1, <1>3, <1>4, <1>6, <1>7, ModalTypes DEF Modal!TypeOK, BodyType, CallbackType
<1>9. Modal!BlockedIsTemporary' /\ Modal!CapturesOnlyWhileShown'
  BY <1>1, <1>5, <1>7 DEF Modal!BlockedIsTemporary, Modal!CapturesOnlyWhileShown
<1>10. Modal!BackdropsAccounted'
  <2>1. backdrop' \in dom'
    BY <1>1
  <2>2. ASSUME modalMisuse' \cap {"reopened", "disposed"} = {}
        PROVE  dom' \subseteq {backdrop'}
    <3>1. backdrop = 0 /\ modalMisuse \cap {"reopened", "disposed"} = {}
      BY <1>1, <2>2
    <3>2. dom \subseteq {0} /\ dom \subseteq 1..made
      BY <1>0, <3>1, ModalTypes DEF ModalInv, Modal!BackdropsAccounted
    <3>3. 0 \notin 1..made
      BY <1>0, ModalTypes
    <3> QED
      BY <1>1, <3>2, <3>3
  <2> QED
    BY <2>1, <2>2 DEF Modal!BackdropsAccounted
<1>11. \A g \in modalWait : g.live => g.do = "remove"
  <2> SUFFICES ASSUME NEW g \in modalWait, g.live PROVE g.do = "remove"
    OBVIOUS
  <2>1. g.do \in {"showElement", "complete", "hideModal", "remove"}
    BY <1>0, ModalTypes DEF CallbackType
  <2> QED
    BY <1>1, <2>1 DEF ModalInv, MovesOneWay
<1>12. MovesOneWay'
  <2>1. \A g \in modalWait' : g.live /\ g.do # "remove" => g = h
    BY <1>1, <1>11
  <2>2. h.do = "showElement"
    BY <1>5
  <2> QED
    BY <1>1, <2>1, <2>2 DEF MovesOneWay
<1>13. WaitsForReason'
  BY <1>1 DEF WaitsForReason
<1>14. PictureInMotion'
  <2> SUFFICES ASSUME modalMisuse' \cap {"reopened", "disposed"} = {}
               PROVE  /\ \A g \in modalWait' : g.live /\ g.do # "remove"
                      /\ Pending("showElement")' /\ ~Pending("hideModal")'
                      /\ display' = FALSE /\ showClass' = FALSE
    <3>1. backdrop' # 0
      BY <1>0, <1>1, ModalTypes
    <3> QED
      BY <3>1, <1>1, <1>4 DEF PictureInMotion
  <2>1. backdrop = 0 /\ modalMisuse \cap {"reopened", "disposed"} = {}
    BY <1>1
  <2>2. \A g \in modalWait : g.live /\ g.do # "remove"
    BY <2>1 DEF ModalInv, PictureInMotion
  <2>3. modalWait = {}
    BY <1>11, <2>2
  <2>4. display = FALSE /\ showClass = FALSE
    BY <1>1, <2>1, <2>3 DEF ModalInv, PictureInMotion, Pending
  <2> QED
    BY <1>1, <1>5, <2>3, <2>4 DEF Pending
<1> QED
  BY <1>8, <1>9, <1>10, <1>12, <1>13, <1>14 DEF ModalInv

\* show of a modal whose element need not wait for a backdrop.
LEMMA ShowAtOnce ==
    ASSUME ModalInv, NEW c \in ModalConfigs, NEW link \in {0, 1},
           Modal!show(c, "no", link), ~(Modal!HasBackdrop /\ modalFade)
    PROVE  ModalInv'
<1> DEFINE h == Modal!Callback(Modal!Dialog, "complete")
<1>0. Modal!TypeOK
  BY DEF ModalInv
<1>1. /\ modalExists' = TRUE /\ ~isShown /\ ~isTransitioning
      /\ modalConfig' = IF modalExists THEN modalConfig ELSE c
      /\ isShown' = TRUE /\ isTransitioning' = modalFade
      /\ modalWait' = modalWait \cup IF modalFade THEN {h} ELSE {}
      /\ display' = TRUE /\ showClass' = TRUE
      /\ onShow' = 0 /\ onHidden' = onHidden + (onShow + link)
      /\ modalMisuse' = modalMisuse \cup IF backdrop # 0 THEN {"reopened"} ELSE {}
      /\ UNCHANGED <<modalFade, ignoreClick>>
  <2>1. isTransitioning' = (modalFade /\ modalFade)
    BY DEF Modal!show, Modal!Open, Modal!_showBackdrop, Modal!_showElement
  <2>2. isTransitioning' = modalFade
    BY <2>1, <1>0, ModalTypes
  <2> QED
    BY <2>2 DEF Modal!show, Modal!instance, Modal!Restorers, Modal!Open, Modal!_showBackdrop,
                Modal!_showElement
<1>2. body' = Modal!_setScrollbar(Modal!_checkScrollbar(body))
  BY DEF Modal!show, Modal!Open
<1>3. adjusted' \in BOOLEAN
  BY <1>0, ModalTypes DEF Modal!show, Modal!Open, Modal!_adjustDialog
<1>4. body' \in BodyType /\ body'.open = TRUE
  BY <1>0, <1>2, ModalTypes, BodyOpens
<1>5. h = [on |-> Modal!Dialog, do |-> "complete", live |-> TRUE]
  BY DEF Modal!Callback
<1> HIDE DEF h
<1>6. \/ /\ modalConfig'.backdrop # "false"
         /\ made' = made + 1 /\ backdrop' = made' /\ dom' = dom \cup {made'}
      \/ /\ modalConfig'.backdrop = "false"
         /\ UNCHANGED <<made, backdrop, dom>>
  BY DEF Modal!show, Modal!Open, Modal!_showBackdrop, Modal!HasBackdrop
<1>7. made' \in Nat /\ made' >= made /\ backdrop' \in Nat /\ dom' \subseteq 1..made'
  BY <1>0, <1>6, ModalTypes
<1>8. \A g \in modalWait' : g \in CallbackType(made')
  <2>1. h \in CallbackType(made')
    BY <1>5 DEF CallbackType
  <2>2. modalWait \cup {h} \subseteq CallbackType(made')
    BY <1>0, <1>7, <2>1, CallbacksGrow
  <2> QED
    BY <1>1, <2>2
<1>9. listeners' \subseteq Modal!Bound /\ {"dismiss", "resize"} \subseteq listeners'
  <2>1. listeners' = (listeners \cup Modal!Opened)
                        \cup IF modalConfig'.focus THEN {"focusin"} ELSE {}
    BY DEF Modal!show, Modal!Open, Modal!_showBackdrop, Modal!_showElement
  <2>2. Modal!Opened \subseteq Modal!Bound /\ {"dismiss", "resize"} \subseteq Modal!Opened
    BY DEF Modal!Opened, Modal!Bound
  <2>3. listeners \subseteq Modal!Bound /\ "focusin" \in Modal!Bound
    BY <1>0 DEF Modal!TypeOK, Modal!Bound
  <2> QED
    BY <2>1, <2>2, <2>3
<1>10. Modal!TypeOK'
  <2>1. {modalExists, isShown, isTransitioning, display, showClass, ignoreClick, adjusted}'
           \subseteq BOOLEAN
    BY <1>0, <1>1, <1>3, ModalTypes
  <2>2. modalConfig' \in ModalConfigs /\ onHidden' \in Nat /\ modalFade' \in BOOLEAN
    BY <1>0, <1>1, ModalTypes
  <2>3. modalMisuse' \subseteq {"prevented", "reopened", "disposed"}
    BY <1>0, <1>1 DEF Modal!TypeOK
  <2> QED
    BY <1>1, <1>4, <1>7, <1>8, <1>9, <2>1, <2>2, <2>3 DEF Modal!TypeOK, BodyType, CallbackType
<1>11. Modal!BlockedIsTemporary' /\ Modal!CapturesOnlyWhileShown'
  BY <1>1, <1>5, <1>9 DEF Modal!BlockedIsTemporary, Modal!CapturesOnlyWhileShown
<1>12. modalMisuse' \cap {"reopened", "disposed"} = {} =>
          backdrop = 0 /\ dom = {} /\ modalMisuse \cap {"reopened", "disposed"} = {}
  <2>1. 0 \notin dom
    BY <1>0, ModalTypes
  <2> QED
    BY <1>1, <2>1 DEF ModalInv, Modal!BackdropsAccounted
<1>13. Modal!BackdropsAccounted'
  BY <1>6, <1>12 DEF ModalInv, Modal!BackdropsAccounted
<1>14. \A g \in modalWait : g.live => g.do = "remove"
  <2> SUFFICES ASSUME NEW g \in modalWait, g.live PROVE g.do = "remove"
    OBVIOUS
  <2>1. g.do \in {"showElement", "complete", "hideModal", "remove"}
    BY <1>0, ModalTypes DEF CallbackType
  <2> QED
    BY <1>1, <2>1 DEF ModalInv, MovesOneWay
<1>15. MovesOneWay'
  <2>1. \A g \in modalWait' : g.live /\ g.do # "remove" => g = h /\ isTransitioning'
    BY <1>1, <1>14
  <2>2. h.do = "complete"
    BY <1>5
  <2> QED
    BY <1>1, <2>1, <2>2 DEF MovesOneWay
<1>16. WaitsForReason'
  BY <1>1 DEF ModalInv, WaitsForReason
<1>17. PictureInMotion'
  <2> SUFFICES ASSUME modalMisuse' \cap {"reopened", "disposed"} = {}
               PROVE  PictureInMotion'
    BY DEF PictureInMotion
  <2>1. \A g \in modalWait : g.live /\ g.do # "remove"
    BY <1>12 DEF ModalInv, PictureInMotion
  <2>2. modalWait = {}
    BY <1>14, <2>1
  <2>3. \A g \in modalWait' : g.live /\ g.do = "complete"
    BY <1>1, <1>5, <2>2
  <2>4. ~Pending("showElement")' /\ ~Pending("hideModal")' /\ ~Pending("remove")'
    BY <2>3 DEF Pending
  <2>5. backdrop' # 0 <=> modalConfig'.backdrop # "false"
    BY <1>0, <1>6, <1>12, ModalTypes
  <2> QED
    BY <1>1, <1>4, <2>3, <2>4, <2>5 DEF PictureInMotion
<1> QED
  BY <1>10, <1>11, <1>13, <1>15, <1>16, <1>17 DEF ModalInv

\* A show that is prevented leaves nothing but the flag.
LEMMA ShowPrevented ==
    ASSUME ModalInv, NEW c \in ModalConfigs, NEW p \in {"early", "late"}, NEW link \in {0, 1},
           Modal!show(c, p, link)
    PROVE  ModalInv'
<1>0. Modal!TypeOK
  BY DEF ModalInv
<1>1. /\ modalExists' = TRUE /\ ~isShown /\ ~isTransitioning
      /\ modalConfig' = IF modalExists THEN modalConfig ELSE c
      /\ onShow' = 0 /\ onHidden' \in Nat
      /\ isTransitioning' = modalFade
      /\ modalMisuse' = modalMisuse \cup IF modalFade THEN {"prevented"} ELSE {}
      /\ UNCHANGED <<modalFade, ignoreClick, isShown, body, adjusted, backdrop, dom, made,
                     modalWait, display, showClass, listeners>>
  <2>1. onHidden' = onHidden + (IF p = "early" THEN 0 ELSE onShow + link)
    BY DEF Modal!show, Modal!Restorers
  <2>2. onHidden' \in Nat
    BY <1>0, <2>1, ModalTypes
  <2>3. p # "no"
    OBVIOUS
  <2> QED
    BY <2>2, <2>3 DEF Modal!show, Modal!instance, Modal!Restorers
<1>2. Modal!TypeOK'
  <2>1. {modalExists, isShown, isTransitioning, display, showClass, ignoreClick, adjusted}'
           \subseteq BOOLEAN
    BY <1>0, <1>1, ModalTypes
  <2>2. modalConfig' \in ModalConfigs /\ onHidden' \in Nat
    BY <1>0, <1>1, ModalTypes
  <2>3. modalMisuse' \subseteq {"prevented", "reopened", "disposed"}
    BY <1>0, <1>1 DEF Modal!TypeOK
  <2> QED
    BY <1>0, <1>1, <2>1, <2>2, <2>3 DEF Modal!TypeOK
<1>3. Modal!BlockedIsTemporary' /\ Modal!CapturesOnlyWhileShown' /\ Modal!BackdropsAccounted'
  BY <1>1 DEF ModalInv, Modal!BlockedIsTemporary, Modal!CapturesOnlyWhileShown,
              Modal!BackdropsAccounted
<1>4. MovesOneWay' /\ WaitsForReason'
  BY <1>1 DEF ModalInv, MovesOneWay, WaitsForReason
<1>5. PictureInMotion'
  BY <1>1 DEF ModalInv, PictureInMotion, Pending
<1> QED
  BY <1>2, <1>3, <1>4, <1>5 DEF ModalInv

\* _hideModal of what waits in w: the backdrop goes at once, or when it has faded.
LEMMA HideModalEffect ==
    ASSUME Modal!TypeOK, NEW w, Modal!_hideModal(w)
    PROVE  /\ display' = FALSE /\ isTransitioning' = FALSE
           /\ \/ /\ backdrop # 0 /\ modalFade
                 /\ modalWait' = w \cup {[on |-> backdrop, do |-> "remove", live |-> TRUE]}
                 /\ UNCHANGED <<backdrop, dom, body, adjusted, onHidden>>
              \/ /\ ~(backdrop # 0 /\ modalFade)
                 /\ modalWait' = w /\ dom' = dom \ {backdrop} /\ backdrop' = 0
                 /\ body' \in BodyType /\ body'.open = FALSE /\ adjusted' = FALSE
                 /\ onHidden' = 0
<1>1. CASE backdrop # 0 /\ modalFade
  BY <1>1 DEF Modal!_hideModal, Modal!Callback
<1>2. CASE ~(backdrop # 0 /\ modalFade)
  <2>1. body' = Modal!_resetScrollbar([body EXCEPT !.open = FALSE])
    BY <1>2 DEF Modal!_hideModal, Modal!Hidden
  <2>2. body' \in BodyType /\ body'.open = FALSE
    BY <2>1, ModalTypes, BodyCloses
  <2> QED
    BY <1>2, <2>2 DEF Modal!_hideModal, Modal!Hidden
<1> QED
  BY <1>1, <1>2

\* hide of a fading modal: it waits for the element to fade out.
LEMMA HideFading ==
    ASSUME ModalInv, NEW link \in {0, 1}, Modal!hide(link), modalFade
    PROVE  ModalInv'
<1> DEFINE h == Modal!Callback(Modal!Element, "hideModal")
<1>0. Modal!TypeOK
  BY DEF ModalInv
<1>1. /\ modalExists /\ isShown /\ ~isTransitioning
      /\ isShown' = FALSE /\ showClass' = FALSE /\ isTransitioning' = TRUE
      /\ onShow' = onShow + link
      /\ listeners' = listeners \ (Modal!Bound \ {"mouseup"})
      /\ modalWait' = modalWait \cup {h}
      /\ UNCHANGED <<display, backdrop, dom, body, adjusted, onHidden, modalFade,
                     modalConfig, modalExists, made, ignoreClick, modalMisuse>>
  BY DEF Modal!hide
<1>2. h = [on |-> Modal!Element, do |-> "hideModal", live |-> TRUE]
  BY DEF Modal!Callback
<1> HIDE DEF h
<1>3. \A g \in modalWait' : g \in CallbackType(made')
  <2>1. h \in CallbackType(made')
    BY <1>2 DEF CallbackType
  <2>2. modalWait \cup {h} \subseteq CallbackType(made')
    BY <1>0, <1>1, <2>1, ModalTypes, CallbacksGrow
  <2> QED
    BY <1>1, <2>2
<1>4. Modal!TypeOK'
  <2>1. {modalExists, isShown, isTransitioning, display, showClass, ignoreClick, adjusted}'
           \subseteq BOOLEAN
    BY <1>0, <1>1, ModalTypes
  <2>2. onShow' \in Nat
    BY <1>0, <1>1, ModalTypes
  <2> QED
    BY <1>0, <1>1, <1>3, <2>1, <2>2 DEF Modal!TypeOK, CallbackType
<1>5. Modal!BlockedIsTemporary' /\ Modal!CapturesOnlyWhileShown' /\ Modal!BackdropsAccounted'
  <2>1. listeners' \subseteq {"mouseup"}
    BY <1>0, <1>1 DEF Modal!TypeOK
  <2> QED
    BY <1>1, <1>2, <2>1 DEF ModalInv, Modal!BlockedIsTemporary, Modal!CapturesOnlyWhileShown,
                            Modal!BackdropsAccounted
<1>6. \A g \in modalWait : g.live => g.do = "remove"
  <2> SUFFICES ASSUME NEW g \in modalWait, g.live PROVE g.do = "remove"
    OBVIOUS
  <2>1. g.do \in {"showElement", "complete", "hideModal", "remove"}
    BY <1>0, ModalTypes DEF CallbackType
  <2> QED
    BY <1>1, <2>1 DEF ModalInv, MovesOneWay
<1>7. MovesOneWay'
  <2>1. \A g \in modalWait' : g.live /\ g.do # "remove" => g = h
    BY <1>1, <1>6
  <2>2. h.do = "hideModal"
    BY <1>2
  <2> QED
    BY <1>1, <2>1, <2>2 DEF MovesOneWay
<1>8. WaitsForReason'
  <2>1. h \in modalWait' /\ h.live /\ h.do = "hideModal"
    BY <1>1, <1>2
  <2> QED
    BY <1>1, <2>1 DEF ModalInv, WaitsForReason
<1>9. PictureInMotion'
  <2> SUFFICES ASSUME modalMisuse' \cap {"reopened", "disposed"} = {}
               PROVE  PictureInMotion'
    BY DEF PictureInMotion
  <2>1. \A g \in modalWait : g.live /\ g.do # "remove"
    BY <1>1 DEF ModalInv, PictureInMotion
  <2>2. modalWait = {}
    BY <1>6, <2>1
  <2>3. \A g \in modalWait' : g.live /\ g.do = "hideModal"
    BY <1>1, <1>2, <2>2
  <2>4. Pending("hideModal")' /\ ~Pending("showElement")' /\ ~Pending("remove")'
    BY <1>1, <2>3 DEF Pending
  <2>5. display = TRUE /\ body.open = TRUE
    BY <1>0, <1>1, <2>2, ModalTypes DEF ModalInv, PictureInMotion, Pending
  <2> QED
    BY <1>1, <2>3, <2>4, <2>5 DEF PictureInMotion
<1> QED
  BY <1>4, <1>5, <1>7, <1>8, <1>9 DEF ModalInv

\* hide without transitions: nothing waits, and everything goes at once.
LEMMA HideAtOnce ==
    ASSUME ModalInv, NEW link \in {0, 1}, Modal!hide(link), ~modalFade
    PROVE  ModalInv'
<1>0. Modal!TypeOK
  BY DEF ModalInv
<1>1. /\ isShown' = FALSE /\ showClass' = FALSE
      /\ onShow' = onShow + link
      /\ listeners' = listeners \ (Modal!Bound \ {"mouseup"})
      /\ Modal!_hideModal(modalWait)
      /\ UNCHANGED <<modalFade, modalConfig, modalExists, made, ignoreClick, modalMisuse>>
  BY DEF Modal!hide
<1>2. modalWait = {}
  BY DEF ModalInv, WaitsForReason
<1>3. /\ display' = FALSE /\ isTransitioning' = FALSE
      /\ modalWait' = {} /\ dom' = dom \ {backdrop} /\ backdrop' = 0
      /\ body' \in BodyType /\ body'.open = FALSE /\ adjusted' = FALSE /\ onHidden' = 0
  BY <1>0, <1>1, <1>2, HideModalEffect
<1>4. Modal!TypeOK'
  <2>1. {modalExists, isShown, isTransitioning, display, showClass, ignoreClick, adjusted}'
           \subseteq BOOLEAN
    BY <1>0, <1>1, <1>3, ModalTypes
  <2>2. onShow' \in Nat
    BY <1>0, <1>1, ModalTypes
  <2> QED
    BY <1>0, <1>1, <1>3, <2>1, <2>2 DEF Modal!TypeOK, BodyType
<1>5. Modal!BlockedIsTemporary' /\ Modal!CapturesOnlyWhileShown' /\ Modal!BackdropsAccounted'
  <2>1. listeners' \subseteq {"mouseup"}
    BY <1>0, <1>1 DEF Modal!TypeOK
  <2> QED
    BY <1>1, <1>3, <2>1 DEF ModalInv, Modal!BlockedIsTemporary, Modal!CapturesOnlyWhileShown,
                            Modal!BackdropsAccounted
<1>6. MovesOneWay' /\ WaitsForReason'
  BY <1>1, <1>3 DEF MovesOneWay, WaitsForReason
<1>7. PictureInMotion'
  <2>1. ~Pending("showElement")' /\ ~Pending("hideModal")' /\ ~Pending("remove")'
    BY <1>3 DEF Pending
  <2> QED
    BY <1>1, <1>3, <2>1 DEF PictureInMotion
<1> QED
  BY <1>4, <1>5, <1>6, <1>7 DEF ModalInv

\* The backdrop has faded in.
LEMMA BackdropShown ==
    ASSUME ModalInv, NEW k \in modalWait, Modal!showElement(k)
    PROVE  ModalInv'
<1> DEFINE h == Modal!Callback(Modal!Dialog, "complete")
<1>0. Modal!TypeOK
  BY DEF ModalInv
<1>1. /\ k.live /\ k.do = "showElement"
      /\ display' = TRUE /\ showClass' = TRUE
      /\ modalWait' = (modalWait \ {k}) \cup {h}
      /\ listeners' = listeners \cup IF modalConfig.focus THEN {"focusin"} ELSE {}
      /\ isTransitioning' = isTransitioning
      /\ UNCHANGED <<modalFade, modalExists, isShown, backdrop, ignoreClick, dom, made,
                     adjusted, body, onShow, onHidden, modalConfig, modalMisuse>>
  <2>1. modalFade
    BY DEF ModalInv, WaitsForReason
  <2>2. isTransitioning' = (isTransitioning /\ modalFade)
    BY DEF Modal!showElement, Modal!_showElement
  <2>3. isTransitioning' = isTransitioning
    BY <1>0, <2>1, <2>2, ModalTypes
  <2> QED
    BY <2>1, <2>3 DEF Modal!showElement, Modal!_showElement
<1>2. h = [on |-> Modal!Dialog, do |-> "complete", live |-> TRUE]
  BY DEF Modal!Callback
<1> HIDE DEF h
<1>3. isShown /\ isTransitioning
  BY <1>1 DEF ModalInv, MovesOneWay
<1>4. Modal!TypeOK'
  <2>1. h \in CallbackType(made)
    BY <1>2 DEF CallbackType
  <2>2. \A g \in modalWait' : g \in CallbackType(made')
    BY <1>0, <1>1, <2>1, ModalTypes
  <2>3. {modalExists, isShown, isTransitioning, display, showClass, ignoreClick, adjusted}'
           \subseteq BOOLEAN
    BY <1>0, <1>1, ModalTypes
  <2>4. listeners' \subseteq Modal!Bound
    BY <1>0, <1>1 DEF Modal!TypeOK, Modal!Bound
  <2> QED
    BY <1>0, <1>1, <2>2, <2>3, <2>4 DEF Modal!TypeOK, CallbackType
<1>5. Modal!BlockedIsTemporary' /\ Modal!CapturesOnlyWhileShown' /\ Modal!BackdropsAccounted'
  <2>1. h \in modalWait' /\ h.live /\ h.do = "complete"
    BY <1>1, <1>2
  <2> QED
    BY <1>1, <1>3, <2>1 DEF ModalInv, Modal!BlockedIsTemporary, Modal!CapturesOnlyWhileShown,
                            Modal!BackdropsAccounted
<1>6. \A g \in modalWait \ {k} : g.live => g.do = "remove"
  <2> SUFFICES ASSUME NEW g \in modalWait, g # k, g.live PROVE g.do = "remove"
    OBVIOUS
  <2>1. g.do \in {"showElement", "complete", "hideModal", "remove"}
    BY <1>0, ModalTypes DEF CallbackType
  <2> QED
    BY <1>1, <1>3, <2>1 DEF ModalInv, MovesOneWay
<1>7. MovesOneWay'
  <2>1. \A g \in modalWait' : g.live /\ g.do # "remove" => g = h
    BY <1>1, <1>6
  <2>2. h.do = "complete"
    BY <1>2
  <2> QED
    BY <1>1, <1>3, <2>1, <2>2 DEF MovesOneWay
<1>8. WaitsForReason'
  BY <1>1, <1>3 DEF ModalInv, WaitsForReason
<1>9. PictureInMotion'
  <2> SUFFICES ASSUME modalMisuse \cap {"reopened", "disposed"} = {}
               PROVE  PictureInMotion'
    BY <1>1 DEF PictureInMotion
  <2>1. \A g \in modalWait : g.live /\ g.do # "remove"
    BY <1>3 DEF ModalInv, PictureInMotion
  <2>2. modalWait' = {h}
    BY <1>1, <1>6, <2>1
  <2>3. \A g \in modalWait' : g.live /\ g.do = "complete"
    BY <1>2, <2>2
  <2>4. ~Pending("hideModal")' /\ ~Pending("showElement")' /\ ~Pending("remove")'
    BY <2>3 DEF Pending
  <2>5. body.open = TRUE /\ (backdrop # 0 <=> modalConfig.backdrop # "false")
    BY <1>0, <1>3, ModalTypes DEF ModalInv, PictureInMotion
  <2>6. isShown = TRUE
    BY <1>0, <1>3, ModalTypes
  <2> QED
    BY <1>1, <2>3, <2>4, <2>5, <2>6 DEF PictureInMotion
<1> QED
  BY <1>4, <1>5, <1>7, <1>8, <1>9 DEF ModalInv

\* The dialog has moved in.
LEMMA DialogShown ==
    ASSUME ModalInv, NEW k \in modalWait, Modal!transitionComplete(k)
    PROVE  ModalInv'
<1>0. Modal!TypeOK
  BY DEF ModalInv
<1>1. /\ k.live /\ k.do = "complete"
      /\ modalWait' = modalWait \ {k}
      /\ isTransitioning' = FALSE
      /\ UNCHANGED <<modalFade, modalConfig, modalExists, isShown, backdrop, ignoreClick, dom,
                     made, display, showClass, listeners, adjusted, body, onShow, onHidden,
                     modalMisuse>>
  BY DEF Modal!transitionComplete, Modal!elemVars
<1>2. isShown /\ isTransitioning
  BY <1>1 DEF ModalInv, MovesOneWay
<1>3. \A g \in modalWait' : g.live => g.do = "remove"
  <2> SUFFICES ASSUME NEW g \in modalWait, g # k, g.live PROVE g.do = "remove"
    BY <1>1
  <2>1. g.do \in {"showElement", "complete", "hideModal", "remove"}
    BY <1>0, ModalTypes DEF CallbackType
  <2> QED
    BY <1>1, <1>2, <2>1 DEF ModalInv, MovesOneWay
<1>4. Modal!TypeOK'
  <2>1. {modalExists, isShown, isTransitioning, display, showClass, ignoreClick, adjusted}'
           \subseteq BOOLEAN
    BY <1>0, <1>1, ModalTypes
  <2>2. \A g \in modalWait' : g \in CallbackType(made')
    BY <1>0, <1>1, ModalTypes
  <2> QED
    BY <1>0, <1>1, <2>1, <2>2 DEF Modal!TypeOK, CallbackType
<1>5. Modal!BlockedIsTemporary' /\ Modal!CapturesOnlyWhileShown' /\ Modal!BackdropsAccounted'
  BY <1>1 DEF ModalInv, Modal!BlockedIsTemporary, Modal!CapturesOnlyWhileShown,
              Modal!BackdropsAccounted
<1>6. MovesOneWay' /\ WaitsForReason'
  BY <1>1, <1>2, <1>3 DEF ModalInv, MovesOneWay, WaitsForReason
<1>7. PictureInMotion'
  <2> SUFFICES ASSUME modalMisuse \cap {"reopened", "disposed"} = {}
               PROVE  PictureInMotion'
    BY <1>1 DEF PictureInMotion
  <2>1. \A g \in modalWait : g.live /\ g.do # "remove"
    BY <1>2 DEF ModalInv, PictureInMotion
  <2>2. modalWait' = {} /\ modalWait = {k}
    BY <1>1, <1>3, <2>1
  <2>3. ~Pending("hideModal") /\ ~Pending("showElement") /\ ~Pending("remove")
    BY <1>1, <2>2 DEF Pending
  <2>4. ~Pending("hideModal")' /\ ~Pending("showElement")' /\ ~Pending("remove")'
    BY <2>2 DEF Pending
  <2>5. isShown = TRUE
    BY <1>0, <1>2, ModalTypes
  <2>6. display = TRUE /\ showClass = TRUE /\ body.open = TRUE
    BY <2>3, <2>5 DEF ModalInv, PictureInMotion
  <2> QED
    BY <1>1, <2>2, <2>4, <2>5, <2>6 DEF ModalInv, PictureInMotion
<1> QED
  BY <1>4, <1>5, <1>6, <1>7 DEF ModalInv

\* A callback of an instance that is gone: only the body hears of it.
LEMMA ThrowModal ==
    ASSUME ModalInv, NEW k \in modalWait, Modal!throw(k)
    PROVE  ModalInv'
<1>0. Modal!TypeOK
  BY DEF ModalInv
<1>1. /\ ~k.live /\ modalWait' = modalWait \ {k}
      /\ UNCHANGED <<modalFade, modalConfig, modalExists, isShown, isTransitioning, backdrop,
                     ignoreClick, dom, made, display, showClass, listeners, adjusted,
                     onShow, onHidden, modalMisuse>>
  BY DEF Modal!throw, Modal!instVars, Modal!elemVars
<1>2. body' \in BodyType
  <2>1. PICK x \in BOOLEAN : x = FALSE
    OBVIOUS
  <2>2. body' = IF k.do = "remove" THEN [body EXCEPT !.open = x] ELSE body
    BY <2>1 DEF Modal!throw
  <2> QED
    BY <1>0, <2>2, ModalTypes, BodyToggled
<1>3. Modal!TypeOK'
  <2>1. {modalExists, isShown, isTransitioning, display, showClass, ignoreClick, adjusted}'
           \subseteq BOOLEAN
    BY <1>0, <1>1, ModalTypes
  <2>2. \A g \in modalWait' : g \in CallbackType(made')
    BY <1>0, <1>1, ModalTypes
  <2> QED
    BY <1>0, <1>1, <1>2, <2>1, <2>2 DEF Modal!TypeOK, CallbackType, BodyType
<1>4. Modal!BlockedIsTemporary' /\ Modal!CapturesOnlyWhileShown' /\ Modal!BackdropsAccounted'
  BY <1>1 DEF ModalInv, Modal!BlockedIsTemporary, Modal!CapturesOnlyWhileShown,
              Modal!BackdropsAccounted
<1>5. MovesOneWay' /\ WaitsForReason'
  BY <1>1 DEF ModalInv, MovesOneWay, WaitsForReason
<1>6. PictureInMotion'
  BY <1>1 DEF ModalInv, PictureInMotion
<1> QED
  BY <1>3, <1>4, <1>5, <1>6 DEF ModalInv

\* The element has faded out.
LEMMA ElementHidden ==
    ASSUME ModalInv, NEW k \in modalWait, Modal!hideModal(k)
    PROVE  ModalInv'
<1> DEFINE h == [on |-> backdrop, do |-> "remove", live |-> TRUE]
<1>0. Modal!TypeOK
  BY DEF ModalInv
<1>1. /\ k.live /\ k.do = "hideModal"
      /\ Modal!_hideModal(modalWait \ {k})
      /\ UNCHANGED <<modalFade, modalConfig, modalExists, isShown, ignoreClick, made, showClass,
                     listeners, onShow, modalMisuse>>
  BY DEF Modal!hideModal
<1>2. ~isShown /\ isTransitioning /\ modalFade
  BY <1>1 DEF ModalInv, MovesOneWay, WaitsForReason
<1>3. /\ display' = FALSE /\ isTransitioning' = FALSE
      /\ \/ /\ backdrop # 0
            /\ modalWait' = (modalWait \ {k}) \cup {h}
            /\ UNCHANGED <<backdrop, dom, body, adjusted, onHidden>>
         \/ /\ backdrop = 0
            /\ modalWait' = modalWait \ {k} /\ dom' = dom \ {backdrop} /\ backdrop' = 0
            /\ body' \in BodyType /\ body'.open = FALSE /\ adjusted' = FALSE
            /\ onHidden' = 0
  BY <1>0, <1>1, <1>2, HideModalEffect
<1>4. h.on = backdrop /\ h.do = "remove" /\ h.live
  OBVIOUS
<1>5. backdrop # 0 => h \in CallbackType(made)
  BY <1>0, ModalTypes DEF ModalInv, Modal!BackdropsAccounted, CallbackType
<1> HIDE DEF h
<1>6. Modal!TypeOK'
  <2>1. {modalExists, isShown, isTransitioning, display, showClass, ignoreClick, adjusted}'
           \subseteq BOOLEAN
    BY <1>0, <1>1, <1>3, ModalTypes
  <2>2. \A g \in modalWait' : g \in CallbackType(made')
    BY <1>0, <1>1, <1>3, <1>5, ModalTypes
  <2>3. backdrop' \in Nat /\ dom' \subseteq 1..made' /\ body' \in BodyType /\ onHidden' \in Nat
    BY <1>0, <1>1, <1>3, ModalTypes
  <2> QED
    BY <1>0, <1>1, <2>1, <2>2, <2>3 DEF Modal!TypeOK, CallbackType, BodyType
<1>7. \A g \in modalWait \ {k} : g.live => g.do = "remove"
  <2> SUFFICES ASSUME NEW g \in modalWait, g # k, g.live PROVE g.do = "remove"
    OBVIOUS
  <2>1. g.do \in {"showElement", "complete", "hideModal", "remove"}
    BY <1>0, ModalTypes DEF CallbackType
  <2>2. g.do # "showElement" /\ g.do # "complete"
    BY <1>2 DEF ModalInv, MovesOneWay
  <2>3. g.do # "hideModal"
    BY <1>1, <1>2 DEF ModalInv, MovesOneWay
  <2> QED
    BY <2>1, <2>2, <2>3
<1>8. Modal!BlockedIsTemporary' /\ Modal!CapturesOnlyWhileShown' /\ Modal!BackdropsAccounted'
  BY <1>1, <1>3 DEF ModalInv, Modal!BlockedIsTemporary, Modal!CapturesOnlyWhileShown,
                    Modal!BackdropsAccounted
<1>9. MovesOneWay' /\ WaitsForReason'
  <2>1. \A g \in modalWait' : g.live => g.do = "remove"
    BY <1>3, <1>4, <1>7
  <2>2. backdrop' # 0 => h \in modalWait'
    BY <1>3
  <2> QED
    BY <1>1, <1>2, <1>4, <2>1, <2>2 DEF ModalInv, MovesOneWay, WaitsForReason
<1>10. PictureInMotion'
  <2> SUFFICES ASSUME modalMisuse \cap {"reopened", "disposed"} = {}
               PROVE  PictureInMotion'
    BY <1>1 DEF PictureInMotion
  <2>1. \A g \in modalWait : g.live /\ g.do # "remove"
    BY <1>1 DEF ModalInv, PictureInMotion, Pending
  <2>2. modalWait = {k}
    BY <1>7, <2>1
  <2>3. modalWait' = IF backdrop # 0 THEN {h} ELSE {}
    BY <1>3, <2>2
  <2>4. \A g \in modalWait' : g.live /\ g.do = "remove" /\ g.on = backdrop' /\ backdrop' # 0
    BY <1>3, <1>4, <2>3
  <2>5. ~Pending("hideModal")' /\ ~Pending("showElement")'
    BY <2>4 DEF Pending
  <2>6. Pending("remove")' <=> backdrop # 0
    BY <1>4, <2>3 DEF Pending
  <2>7. Pending("hideModal")
    BY <1>1 DEF Pending
  <2>8. body.open = TRUE /\ showClass = FALSE
    BY <1>2, <2>7 DEF ModalInv, PictureInMotion
  <2>9. body'.open = Pending("remove")'
    BY <1>3, <2>6, <2>8 DEF Pending
  <2>10. isShown' = FALSE
    BY <1>0, <1>1, <1>2, ModalTypes
  <2>11. adjusted' => body'.open
    BY <1>3, <2>8
  <2> QED
    BY <1>1, <1>3, <2>4, <2>5, <2>8, <2>9, <2>10, <2>11 DEF PictureInMotion
<1> QED
  BY <1>6, <1>8, <1>9, <1>10 DEF ModalInv

\* A backdrop has faded out.
LEMMA BackdropHidden ==
    ASSUME ModalInv, NEW k \in modalWait, Modal!callbackRemove(k)
    PROVE  ModalInv'
<1>0. Modal!TypeOK
  BY DEF ModalInv
<1>1. /\ k.live /\ k.do = "remove"
      /\ modalWait' = modalWait \ {k}
      /\ dom' = dom \ {backdrop} /\ backdrop' = 0
      /\ adjusted' = FALSE /\ onHidden' = 0
      /\ UNCHANGED <<modalFade, modalConfig, modalExists, isShown, isTransitioning, ignoreClick,
                     made, display, showClass, listeners, onShow, modalMisuse>>
  BY DEF Modal!callbackRemove, Modal!Hidden
<1>2. body' \in BodyType /\ body'.open = FALSE
  <2>1. body' = Modal!_resetScrollbar([body EXCEPT !.open = FALSE])
    BY DEF Modal!callbackRemove, Modal!Hidden
  <2> QED
    BY <1>0, <2>1, ModalTypes, BodyCloses
<1>3. Modal!TypeOK'
  <2>1. {modalExists, isShown, isTransitioning, display, showClass, ignoreClick, adjusted}'
           \subseteq BOOLEAN
    BY <1>0, <1>1, ModalTypes
  <2>2. \A g \in modalWait' : g \in CallbackType(made')
    BY <1>0, <1>1, ModalTypes
  <2> QED
    BY <1>0, <1>1, <1>2, <2>1, <2>2 DEF Modal!TypeOK, CallbackType, BodyType
<1>4. Modal!BlockedIsTemporary' /\ Modal!CapturesOnlyWhileShown' /\ Modal!BackdropsAccounted'
  BY <1>1 DEF ModalInv, Modal!BlockedIsTemporary, Modal!CapturesOnlyWhileShown,
              Modal!BackdropsAccounted
<1>5. MovesOneWay' /\ WaitsForReason'
  BY <1>1 DEF ModalInv, MovesOneWay, WaitsForReason
<1>6. PictureInMotion'
  <2> SUFFICES ASSUME modalMisuse \cap {"reopened", "disposed"} = {}
               PROVE  PictureInMotion'
    BY <1>1 DEF PictureInMotion
  <2>1. ~isShown /\ ~Pending("hideModal") /\ \A g \in modalWait : g.live
    BY <1>1 DEF ModalInv, PictureInMotion
  <2>2. \A g \in modalWait : g = k
    <3> SUFFICES ASSUME NEW g \in modalWait PROVE g = k
      OBVIOUS
    <3>1. g \in CallbackType(made) /\ k \in CallbackType(made)
      BY <1>0, ModalTypes
    <3>2. g.do = "remove"
      BY <2>1, <3>1 DEF ModalInv, MovesOneWay, Pending, CallbackType
    <3>3. g.on = k.on /\ g.live /\ k.live
      BY <1>1, <2>1, <3>2 DEF ModalInv, PictureInMotion
    <3> QED
      BY <1>1, <3>1, <3>2, <3>3 DEF CallbackType
  <2>3. modalWait' = {}
    BY <1>1, <2>2
  <2>4. ~Pending("hideModal")' /\ ~Pending("showElement")' /\ ~Pending("remove")'
    BY <2>3 DEF Pending
  <2>5. display = FALSE /\ showClass = FALSE
    BY <2>1 DEF ModalInv, PictureInMotion
  <2>6. isShown' = FALSE
    BY <1>0, <1>1, <2>1, ModalTypes
  <2> QED
    BY <1>1, <1>2, <2>3, <2>4, <2>5, <2>6 DEF PictureInMotion
<1> QED
  BY <1>3, <1>4, <1>5, <1>6 DEF ModalInv

LEMMA NextModal == ModalInv /\ [Modal!Next]_(Modal!vars) => ModalInv'
<1> SUFFICES ASSUME ModalInv, [Modal!Next]_(Modal!vars) PROVE ModalInv'
  OBVIOUS
<1>1. ASSUME NEW c \in ModalConfigs, NEW link \in {0, 1}, NEW p \in {"no", "early", "late"},
             Modal!show(c, p, link)
      PROVE  ModalInv'
  BY <1>1, ShowBehindBackdrop, ShowAtOnce, ShowPrevented
<1>2. ASSUME NEW c \in ModalConfigs, NEW link \in {0, 1}, Modal!idle(c, link)
      PROVE  ModalInv'
  BY <1>2, IdleModal
<1>3. ASSUME NEW link \in {0, 1}, Modal!hide(link)
      PROVE  ModalInv'
  BY <1>3, HideFading, HideAtOnce
<1>4. CASE Modal!keydown \/ Modal!dismiss \/ Modal!backdropClick
  BY <1>3, <1>4 DEF Modal!keydown, Modal!dismiss, Modal!backdropClick
<1>5. CASE Modal!ignoredClick \/ Modal!mousedown \/ (\E e \in BOOLEAN : Modal!mouseup(e))
              \/ Modal!resize
  BY <1>5, HandlersModal
<1>6. CASE Modal!dispose
  BY <1>6, DisposeModal
<1>7. ASSUME NEW h \in modalWait, Modal!TransitionEnd(h)
      PROVE  ModalInv'
  BY <1>7, BackdropShown, DialogShown, ElementHidden, BackdropHidden, ThrowModal
     DEF Modal!TransitionEnd
<1>8. CASE UNCHANGED Modal!vars
  <2>1. UNCHANGED <<modalFade, modalConfig, modalExists, isShown, isTransitioning, backdrop,
                    ignoreClick, dom, made, modalWait, display, showClass, listeners, adjusted,
                    body, onShow, onHidden, modalMisuse>>
    BY <1>8 DEF Modal!vars, Modal!instVars, Modal!elemVars
  <2>2. Modal!TypeOK'
    BY <2>1 DEF ModalInv, Modal!TypeOK
  <2>3. Modal!BlockedIsTemporary' /\ Modal!CapturesOnlyWhileShown' /\ Modal!BackdropsAccounted'
    BY <2>1 DEF ModalInv, Modal!BlockedIsTemporary, Modal!CapturesOnlyWhileShown,
                Modal!BackdropsAccounted
  <2>4. MovesOneWay' /\ WaitsForReason' /\ PictureInMotion'
    BY <2>1 DEF ModalInv, MovesOneWay, WaitsForReason, PictureInMotion, Pending
  <2> QED
    BY <2>2, <2>3, <2>4 DEF ModalInv
<1> QED
  BY <1>1, <1>2, <1>3, <1>4, <1>5, <1>6, <1>7, <1>8 DEF Modal!Next, Modal!User

\* At rest nothing of the picture is left to come.
LEMMA ModalAtRest == ModalInv => Modal!RestIsConsistent
<1> SUFFICES ASSUME ModalInv, modalWait = {}, modalMisuse \cap {"reopened", "disposed"} = {}
             PROVE  /\ display = isShown /\ showClass = isShown /\ body.open = isShown
                    /\ dom = IF isShown /\ modalConfig.backdrop # "false" THEN {backdrop} ELSE {}
                    /\ isTransitioning => modalMisuse # {}
                    /\ adjusted => isShown
  BY DEF Modal!RestIsConsistent
<1>0. Modal!TypeOK
  BY DEF ModalInv
<1>1. ~Pending("showElement") /\ ~Pending("hideModal") /\ ~Pending("remove")
  BY DEF Pending
<1>2. /\ display = isShown /\ showClass = isShown /\ body.open = isShown
      /\ adjusted => isShown
      /\ isShown => (backdrop # 0 <=> modalConfig.backdrop # "false")
  <2>1. isShown \in BOOLEAN
    BY <1>0, ModalTypes
  <2> QED
    BY <1>1, <2>1 DEF ModalInv, PictureInMotion
<1>3. dom = IF backdrop # 0 THEN {backdrop} ELSE {}
  <2>1. 0 \notin dom
    BY <1>0, ModalTypes
  <2> QED
    BY <2>1 DEF ModalInv, Modal!BackdropsAccounted
<1>4. backdrop # 0 => isShown
  BY DEF ModalInv, WaitsForReason
<1>5. isTransitioning => modalMisuse # {}
  BY DEF ModalInv, Modal!BlockedIsTemporary
<1> QED
  BY <1>2, <1>3, <1>4, <1>5

\* ModalInv holds in every state.
THEOREM ModalInvariance == Modal!Spec => []ModalInv
BY InitModal, NextModal, PTL DEF Modal!Spec

\* However calls, keys, clicks, windows and ends of transitions come, a modal at
\* rest is all shown or all hidden, blocks calls only while something will end
\* that, captures keys and clicks only while shown, and loses no backdrop.
THEOREM ModalAgrees == Modal!Spec => []ModalIsConsistent
<1>1. ModalInv => ModalIsConsistent
  BY ModalAtRest DEF ModalInv, ModalIsConsistent
<1> QED
  BY <1>1, ModalInvariance, PTL
-----------------------------------------------------------------------------
(***************************************************************************)
(* A toast, whatever its options and however often it is shown: calls,     *)
(* delays that end late, and transitions in which several callbacks wait.  *)
(***************************************************************************)

\* What a toast's state is.
ToastType ==
    [class : SUBSET {"fade", "show", "showing", "hide"}, wait : Seq({"shown", "closed"}),
     timers : SUBSET Nat, timeout : Nat, made : Nat]

\* Only an instance with the option for it waits for a transition or a delay.
WaitsByOption ==
    /\ toast.wait # <<>> => toastExists /\ toastConfig.animation
    /\ toast.timers # {} => toastExists /\ toastConfig.autohide

\* A toast that was never shown over itself is on its way in, without a delay, or
\* on its way out.
OneAtATime ==
    /\ toast.timers \subseteq {toast.timeout}
    /\ toast.wait = <<"shown">> => toast.timers = {} /\ "hide" \notin toast.class
    /\ toast.wait # <<"shown">> => \A k \in 1..Len(toast.wait) : toast.wait[k] = "closed"
    /\ toast.wait # <<>> => "show" \notin toast.class
    /\ ~({"show", "hide"} \subseteq toast.class)

ToastInv ==
    /\ toast \in ToastType
    /\ WaitsByOption
    /\ "overlapped" \notin toastMisuse => OneAtATime
    /\ toastMisuse = {} /\ "showing" \in toast.class => toast.wait = <<"shown">>

LEMMA InitToast == Toast!Init => ToastInv
<1> SUFFICES ASSUME Toast!Init PROVE ToastInv
  OBVIOUS
<1>1. PICK class \in {{}, {"hide"}, {"show"}} :
         toast = [class |-> class, wait |-> <<>>, timers |-> {}, timeout |-> 0, made |-> 0]
  BY DEF Toast!Init
<1>2. toast \in ToastType
  BY <1>1 DEF ToastType
<1>3. OneAtATime /\ WaitsByOption
  BY <1>1 DEF OneAtATime, WaitsByOption
<1> QED
  BY <1>1, <1>2, <1>3 DEF ToastInv

\* complete of show and complete of _close, and the delay.
LEMMA ToastShown ==
    ASSUME NEW T \in ToastType
    PROVE  /\ Toast!Shown(T) \in ToastType
           /\ Toast!Shown(T).wait = T.wait
           /\ Toast!Shown(T).class = (T.class \ {"showing"}) \cup {"show"}
           /\ Toast!Shown(T).timers =
                 T.timers \cup IF toastConfig.autohide THEN {T.made + 1} ELSE {}
           /\ toastConfig.autohide => Toast!Shown(T).timeout = T.made + 1
<1> DEFINE U == [T EXCEPT !.class = (@ \ {"showing"}) \cup {"show"}]
<1>1. U \in ToastType /\ U.class = (T.class \ {"showing"}) \cup {"show"} /\ U.wait = T.wait
      /\ U.timers = T.timers /\ U.made = T.made
  BY DEF ToastType
<1>2. Toast!Shown(T) = Toast!autohide(U)
  BY DEF Toast!Shown
<1> HIDE DEF U
<1>3. U.made + 1 \in Nat /\ U.timers \cup {U.made + 1} \in SUBSET Nat
  BY <1>1 DEF ToastType
<1>4. CASE toastConfig.autohide
  <2> DEFINE V == [U EXCEPT !.made = @ + 1, !.timeout = U.made + 1,
                            !.timers = @ \cup {U.made + 1}]
  <2>1. V \in ToastType /\ V.class = U.class /\ V.wait = U.wait
        /\ V.timers = U.timers \cup {U.made + 1} /\ V.timeout = U.made + 1
    BY <1>1, <1>3 DEF ToastType
  <2>2. Toast!Shown(T) = V
    BY <1>2, <1>4 DEF Toast!autohide
  <2> QED
    BY <1>1, <1>4, <2>1, <2>2
<1>5. CASE ~toastConfig.autohide
  BY <1>1, <1>2, <1>5 DEF Toast!autohide
<1> QED
  BY <1>4, <1>5

LEMMA ToastClosed ==
    ASSUME NEW T \in ToastType
    PROVE  /\ Toast!Closed(T) \in ToastType
           /\ Toast!Closed(T).class = T.class \cup {"hide"}
           /\ Toast!Closed(T).wait = T.wait /\ Toast!Closed(T).timers = T.timers
           /\ Toast!Closed(T).timeout = T.timeout
BY DEF Toast!Closed, ToastType

\* _close, at once or with a transition.
LEMMA ToastCloses ==
    ASSUME NEW T \in ToastType
    PROVE  /\ Toast!_close(T) \in ToastType
           /\ Toast!_close(T).timers = T.timers /\ Toast!_close(T).timeout = T.timeout
           /\ \/ /\ toastConfig.animation
                 /\ Toast!_close(T).wait = Append(T.wait, "closed")
                 /\ Toast!_close(T).class = T.class \ {"show"}
              \/ /\ ~toastConfig.animation
                 /\ Toast!_close(T).wait = T.wait
                 /\ Toast!_close(T).class = (T.class \ {"show"}) \cup {"hide"}
<1> DEFINE left == [T EXCEPT !.class = @ \ {"show"}]
<1>1. left \in ToastType /\ left.class = T.class \ {"show"} /\ left.wait = T.wait
      /\ left.timers = T.timers /\ left.timeout = T.timeout
  BY DEF ToastType
<1>2. Toast!_close(T) = IF toastConfig.animation
                        THEN [left EXCEPT !.wait = Append(@, "closed")] ELSE Toast!Closed(left)
  BY DEF Toast!_close
<1> HIDE DEF left
<1>3. CASE toastConfig.animation
  <2>1. Append(left.wait, "closed") \in Seq({"shown", "closed"})
    BY <1>1 DEF ToastType
  <2>2. Toast!_close(T) = [left EXCEPT !.wait = Append(left.wait, "closed")]
    BY <1>2, <1>3
  <2> QED
    BY <1>1, <1>3, <2>1, <2>2 DEF ToastType
<1>4. CASE ~toastConfig.animation
  BY <1>1, <1>2, <1>4, ToastClosed
<1> QED
  BY <1>3, <1>4

\* A close of a toast that is not on its way in, of which some delay may be over.
LEMMA CloseKeepsToast ==
    ASSUME ToastInv, NEW T \in ToastType,
           T.class = toast.class, T.wait = toast.wait, T.timeout = toast.timeout,
           T.timers \subseteq toast.timers,
           "overlapped" \notin toastMisuse => toast.wait # <<"shown">>,
           toast.timers # {} \/ "show" \in toast.class,
           toast' = Toast!_close(T), toastExists' = TRUE,
           UNCHANGED <<toastConfig, toastMisuse>>
    PROVE  ToastInv'
<1>1. toast' \in ToastType /\ toast'.timers = T.timers /\ toast'.timeout = T.timeout
  BY ToastCloses
<1>2. \/ /\ toastConfig.animation
         /\ toast'.wait = Append(toast.wait, "closed")
         /\ toast'.class = toast.class \ {"show"}
      \/ /\ ~toastConfig.animation
         /\ toast'.wait = toast.wait
         /\ toast'.class = (toast.class \ {"show"}) \cup {"hide"}
  BY ToastCloses
<1>3. toast.wait \in Seq({"shown", "closed"})
  BY DEF ToastInv, ToastType
<1>4. WaitsByOption'
  BY <1>1, <1>2 DEF ToastInv, WaitsByOption
<1>5. ASSUME "overlapped" \notin toastMisuse PROVE OneAtATime'
  <2>1. OneAtATime /\ toast.wait # <<"shown">>
    BY <1>5 DEF ToastInv
  <2>2. \A k \in 1..Len(toast'.wait) : toast'.wait[k] = "closed"
    <3>1. \A k \in 1..Len(toast.wait) : toast.wait[k] = "closed"
      BY <2>1 DEF OneAtATime
    <3>2. CASE toast'.wait = Append(toast.wait, "closed")
      BY <1>3, <3>1, <3>2
    <3> QED
      BY <1>2, <3>1, <3>2
  <2>3. toast'.wait # <<"shown">>
    <3> SUFFICES ASSUME toast'.wait = <<"shown">> PROVE FALSE
      OBVIOUS
    <3>1. 1 \in 1..Len(toast'.wait) /\ toast'.wait[1] = "shown"
      OBVIOUS
    <3> QED
      BY <2>2, <3>1
  <2> QED
    BY <1>1, <1>2, <2>1, <2>2, <2>3 DEF OneAtATime
<1>6. ~(toastMisuse = {} /\ "showing" \in toast'.class)
  <2> SUFFICES ASSUME toastMisuse = {}, "showing" \in toast.class PROVE FALSE
    BY <1>2
  <2> QED
    BY DEF ToastInv
<1> QED
  BY <1>1, <1>4, <1>5, <1>6 DEF ToastInv

LEMMA HideToast == ToastInv /\ Toast!hide => ToastInv'
<1> SUFFICES ASSUME ToastInv, Toast!hide PROVE ToastInv'
  OBVIOUS
<1>1. toastExists' = TRUE /\ UNCHANGED <<toastConfig, toastMisuse>>
  BY DEF Toast!hide
<1>2. CASE "show" \in toast.class
  <2>1. toast' = Toast!_close(toast)
    BY <1>2 DEF Toast!hide
  <2>2. "overlapped" \notin toastMisuse => toast.wait # <<"shown">>
    BY <1>2 DEF ToastInv, OneAtATime
  <2>3. toast \in ToastType
    BY DEF ToastInv
  <2> QED
    BY <1>1, <1>2, <2>1, <2>2, <2>3, CloseKeepsToast
<1>3. CASE "show" \notin toast.class
  <2>1. toast' = toast
    BY <1>3 DEF Toast!hide
  <2> QED
    BY <1>1, <2>1 DEF ToastInv, WaitsByOption, OneAtATime
<1> QED
  BY <1>2, <1>3

LEMMA TimeoutToast ==
    ASSUME ToastInv, NEW n \in toast.timers, Toast!Timeout(n)
    PROVE  ToastInv'
<1> DEFINE T == [toast EXCEPT !.timers = @ \ {n}]
<1>1. T \in ToastType /\ T.class = toast.class /\ T.wait = toast.wait
      /\ T.timeout = toast.timeout /\ T.timers \subseteq toast.timers
  BY DEF ToastInv, ToastType
<1>2. toast' = Toast!_close(T) /\ UNCHANGED <<toastConfig, toastExists, toastMisuse>>
  BY DEF Toast!Timeout
<1> HIDE DEF T
<1>3. "overlapped" \notin toastMisuse => toast.wait # <<"shown">>
  BY DEF ToastInv, OneAtATime
<1>4. toastExists = TRUE
  BY DEF ToastInv, WaitsByOption
<1> QED
  BY <1>1, <1>2, <1>3, <1>4, CloseKeepsToast

LEMMA DisposeToast == ToastInv /\ Toast!dispose => ToastInv'
<1> SUFFICES ASSUME ToastInv, Toast!dispose PROVE ToastInv'
  OBVIOUS
<1>1. /\ toast' \in ToastType
      /\ toast'.class = toast.class \ {"show"} /\ toast'.wait = <<>> /\ toast'.timers = {}
  <2>1. toast' = [toast EXCEPT !.class = toast.class \ {"show"}, !.timers = {}, !.timeout = 0,
                               !.wait = <<>>]
    BY DEF Toast!dispose
  <2>2. toast \in ToastType /\ <<>> \in Seq({"shown", "closed"})
    BY DEF ToastInv
  <2> QED
    BY <2>1, <2>2 DEF ToastType
<1>2. toastMisuse' = toastMisuse \cup IF toast.wait # <<>> THEN {"disposed"} ELSE {}
  BY DEF Toast!dispose
<1>3. WaitsByOption'
  BY <1>1 DEF WaitsByOption
<1>4. OneAtATime'
  BY <1>1 DEF OneAtATime
<1>5. ~(toastMisuse' = {} /\ "showing" \in toast'.class)
  <2>1. <<"shown">> # <<>>
    OBVIOUS
  <2>2. ASSUME toastMisuse' = {} PROVE toastMisuse = {} /\ toast.wait = <<>>
    BY <1>2, <2>2
  <2> QED
    BY <1>1, <2>1, <2>2 DEF ToastInv
<1> QED
  BY <1>1, <1>3, <1>4, <1>5 DEF ToastInv

LEMMA ShowToast == ToastInv /\ Toast!show => ToastInv'
<1> SUFFICES ASSUME ToastInv, Toast!show PROVE ToastInv'
  OBVIOUS
<1> DEFINE faded == IF toastConfig.animation THEN {"fade"} ELSE {}
           T == [toast EXCEPT !.class = ((@ \cup faded) \ {"hide"}) \cup {"showing"}]
<1>1. toast \in ToastType
  BY DEF ToastInv
<1>2. /\ T \in ToastType /\ T.wait = toast.wait /\ T.timers = toast.timers
      /\ T.timeout = toast.timeout
      /\ T.class = ((toast.class \cup faded) \ {"hide"}) \cup {"showing"}
  BY <1>1 DEF ToastType
<1>3. /\ toast' = IF toastConfig.animation THEN [T EXCEPT !.wait = Append(T.wait, "shown")]
                  ELSE Toast!Shown(T)
      /\ toastExists' = TRUE /\ toastConfig' = toastConfig
      /\ toastMisuse' = toastMisuse \cup
            IF toast.wait # <<>> \/ toast.timers # {} \/ "show" \in toast.class
            THEN {"overlapped"} ELSE {}
  BY DEF Toast!show
<1>4. "fade" \notin {"show", "hide", "showing"} /\ faded \subseteq {"fade"}
  OBVIOUS
<1> HIDE DEF faded, T
<1>5. "overlapped" \notin toastMisuse' =>
         /\ toast.wait = <<>> /\ toast.timers = {} /\ "show" \notin toast.class
  BY <1>3
<1>6. CASE toastConfig.animation
  <2>1. Append(T.wait, "shown") \in Seq({"shown", "closed"})
    BY <1>2 DEF ToastType
  <2>2. /\ toast' \in ToastType /\ toast'.wait = Append(toast.wait, "shown")
        /\ toast'.class = T.class /\ toast'.timers = toast.timers
        /\ toast'.timeout = toast.timeout
    BY <1>2, <1>3, <1>6, <2>1 DEF ToastType
  <2>3. WaitsByOption'
    BY <1>3, <1>6, <2>2 DEF ToastInv, WaitsByOption
  <2>4. ASSUME "overlapped" \notin toastMisuse' PROVE toast'.wait = <<"shown">> /\ OneAtATime'
    <3>1. toast'.wait = <<"shown">>
      <4>1. Append(<<>>, "shown") = <<"shown">>
        OBVIOUS
      <4> QED
        BY <1>5, <2>2, <2>4, <4>1
    <3>2. "show" \notin T.class /\ "hide" \notin T.class
      BY <1>2, <1>4, <1>5, <2>4
    <3> QED
      BY <1>5, <2>2, <2>4, <3>1, <3>2 DEF OneAtATime
  <2> QED
    BY <2>2, <2>3, <2>4 DEF ToastInv
<1>7. CASE ~toastConfig.animation
  <2>1. toast' = Toast!Shown(T)
    BY <1>3, <1>7
  <2>2. /\ toast' \in ToastType /\ toast'.wait = toast.wait
        /\ toast'.class = (T.class \ {"showing"}) \cup {"show"}
        /\ toast'.timers = toast.timers \cup IF toastConfig.autohide THEN {T.made + 1} ELSE {}
        /\ toastConfig.autohide => toast'.timeout = T.made + 1
    BY <1>2, <2>1, ToastShown
  <2>3. toast.wait = <<>>
    BY <1>7 DEF ToastInv, WaitsByOption
  <2>4. WaitsByOption'
    BY <1>3, <2>2, <2>3 DEF ToastInv, WaitsByOption
  <2>5. ASSUME "overlapped" \notin toastMisuse' PROVE OneAtATime'
    <3>1. "hide" \notin toast'.class
      BY <1>2, <1>4, <2>2
    <3>2. toast'.timers \subseteq {toast'.timeout}
      BY <1>5, <2>2, <2>5
    <3> QED
      BY <2>2, <2>3, <3>1, <3>2 DEF OneAtATime
  <2> QED
    BY <2>2, <2>4, <2>5 DEF ToastInv
<1> QED
  BY <1>6, <1>7

\* What the toast can be while the callbacks of an ended transition run.
ToastEnding ==
    {T \in ToastType : T.wait = <<>> /\ (T.timers # {} => toastConfig.autohide)}

\* The callbacks that wait have results, one after the other.
LEMMA ToastResults ==
    ASSUME ToastInv, toast.wait # <<>>
    PROVE  \E g \in [0..Len(toast.wait) -> ToastEnding] :
              /\ g[0] = [toast EXCEPT !.wait = <<>>]
              /\ \A k \in 1..Len(toast.wait) :
                    g[k] = IF toast.wait[k] = "shown" THEN Toast!Shown(g[k - 1])
                           ELSE Toast!Closed(g[k - 1])
<1> DEFINE n == Len(toast.wait)
           a == [toast EXCEPT !.wait = <<>>]
           Run(k, T) == IF toast.wait[k] = "shown" THEN Toast!Shown(T) ELSE Toast!Closed(T)
<1>1. n \in Nat /\ a \in ToastEnding
  <2>1. toast \in ToastType /\ <<>> \in Seq({"shown", "closed"})
    BY DEF ToastInv
  <2>2. a \in ToastType /\ a.wait = <<>> /\ a.timers = toast.timers
    BY <2>1 DEF ToastType
  <2>3. n \in Nat
    BY <2>1 DEF ToastType
  <2> QED
    BY <2>2, <2>3 DEF ToastInv, WaitsByOption, ToastEnding
<1>2. \A k \in 1..n, T \in ToastEnding : Run(k, T) \in ToastEnding
  BY ToastShown, ToastClosed DEF ToastEnding
<1> DEFINE step == [k \in 1..n |-> [T \in ToastEnding |-> Run(k, T)]]
<1>3. step \in [1..n -> [ToastEnding -> ToastEnding]]
  BY <1>2
<1>4. PICK g \in [0..n -> ToastEnding] :
         g[0] = a /\ \A k \in 1..n : g[k] = step[k][g[k - 1]]
  <2>1. n \in Nat
    BY <1>1
  <2>2. a \in ToastEnding
    BY <1>1
  <2> HIDE DEF step, n, a, Run
  <2> QED
    <3>1. Results(ToastEnding, n, a, step) # {}
      BY <1>3, <2>1, <2>2, StepsHaveResults
    <3> QED
      BY <3>1 DEF Results
<1>5. \A k \in 1..n : g[k] = Run(k, g[k - 1])
  <2> SUFFICES ASSUME NEW k \in 1..n PROVE g[k] = Run(k, g[k - 1])
    OBVIOUS
  <2>1. g[k - 1] \in ToastEnding
    BY <1>1
  <2> QED
    BY <1>4, <2>1
<1> QED
  BY <1>4, <1>5

\* They run one after the other.
LEMMA ToastCallbacks ==
    ASSUME ToastInv, Toast!TransitionEnd
    PROVE  \E g \in [0..Len(toast.wait) -> ToastEnding] :
              /\ g[0] = [toast EXCEPT !.wait = <<>>]
              /\ \A k \in 1..Len(toast.wait) :
                    g[k] = IF toast.wait[k] = "shown" THEN Toast!Shown(g[k - 1])
                           ELSE Toast!Closed(g[k - 1])
              /\ toast' = g[Len(toast.wait)]
<1>1. PICK g \in [0..Len(toast.wait) -> ToastEnding] :
              /\ g[0] = [toast EXCEPT !.wait = <<>>]
              /\ \A k \in 1..Len(toast.wait) :
                    g[k] = IF toast.wait[k] = "shown" THEN Toast!Shown(g[k - 1])
                           ELSE Toast!Closed(g[k - 1])
  BY ToastResults DEF Toast!TransitionEnd
<1>2. Len(toast.wait) \in Nat
  BY DEF ToastInv, ToastType
<1>3. g = [k \in 0..Len(toast.wait) |->
              IF k = 0 THEN [toast EXCEPT !.wait = <<>>]
              ELSE IF toast.wait[k] = "shown" THEN Toast!Shown(g[k - 1])
              ELSE Toast!Closed(g[k - 1])]
  <2>1. \A k \in 0..Len(toast.wait) :
           g[k] = IF k = 0 THEN [toast EXCEPT !.wait = <<>>]
                  ELSE IF toast.wait[k] = "shown" THEN Toast!Shown(g[k - 1])
                  ELSE Toast!Closed(g[k - 1])
    <3>1. \A k \in 0..Len(toast.wait) : k = 0 \/ (k # 0 /\ k \in 1..Len(toast.wait))
      BY <1>2
    <3> QED
      BY <1>1, <3>1
  <2>2. g = [k \in 0..Len(toast.wait) |-> g[k]]
    OBVIOUS
  <2> QED
    BY <2>1, <2>2
<1> DEFINE after[k \in 0..Len(toast.wait)] ==
              IF k = 0 THEN [toast EXCEPT !.wait = <<>>]
              ELSE IF toast.wait[k] = "shown" THEN Toast!Shown(after[k - 1])
              ELSE Toast!Closed(after[k - 1])
<1>4. toast' = after[Len(toast.wait)]
  BY Zenon DEF Toast!TransitionEnd
<1>5. after = [k \in 0..Len(toast.wait) |->
              IF k = 0 THEN [toast EXCEPT !.wait = <<>>]
              ELSE IF toast.wait[k] = "shown" THEN Toast!Shown(after[k - 1])
              ELSE Toast!Closed(after[k - 1])]
  BY Zenon, <1>3
<1> HIDE DEF after
<1>6. /\ after[0] = [toast EXCEPT !.wait = <<>>]
      /\ \A k \in 1..Len(toast.wait) :
            after[k] = IF toast.wait[k] = "shown" THEN Toast!Shown(after[k - 1])
                       ELSE Toast!Closed(after[k - 1])
  <2>1. 0 \in 0..Len(toast.wait) /\ \A k \in 1..Len(toast.wait) : k \in 0..Len(toast.wait) /\ k # 0
    BY <1>2
  <2> QED
    BY <1>5, <2>1
<1>7. \A k \in 0..Len(toast.wait) : after[k] = g[k]
  <2> DEFINE S == {k \in 0..Len(toast.wait) : after[k] = g[k]}
             id == [k \in 0..Len(toast.wait) |-> k]
  <2>1. id[0] \in S
    BY <1>1, <1>2, <1>6
  <2>2. \A k \in 1..Len(toast.wait) : id[k - 1] \in S => id[k] \in S
    BY <1>1, <1>2, <1>6
  <2>3. \A k \in 0..Len(toast.wait) : id[k] \in S
    <3> HIDE DEF S, id
    <3> QED
      BY <1>2, <2>1, <2>2, StepsKeep
  <2> QED
    BY <2>3
<1> QED
  BY <1>1, <1>2, <1>4, <1>7

\* The end of a transition keeps the invariant.
LEMMA EndToast == ToastInv /\ Toast!TransitionEnd => ToastInv'
<1> SUFFICES ASSUME ToastInv, Toast!TransitionEnd PROVE ToastInv'
  OBVIOUS
<1> DEFINE n == Len(toast.wait)
           a == [toast EXCEPT !.wait = <<>>]
<1>1. PICK g \in [0..n -> ToastEnding] :
         /\ g[0] = a
         /\ \A k \in 1..n : g[k] = IF toast.wait[k] = "shown" THEN Toast!Shown(g[k - 1])
                                   ELSE Toast!Closed(g[k - 1])
         /\ toast' = g[n]
  BY ToastCallbacks
<1>2. /\ toast \in ToastType /\ n \in Nat /\ toast.wait # <<>>
      /\ UNCHANGED <<toastConfig, toastExists, toastMisuse>>
  BY DEF ToastInv, ToastType, Toast!TransitionEnd
<1>3. a \in ToastType /\ a.wait = <<>> /\ a.class = toast.class /\ a.timers = toast.timers
      /\ a.timeout = toast.timeout
  <2>1. toast \in ToastType /\ <<>> \in Seq({"shown", "closed"})
    BY <1>2
  <2>2. a \in ToastType
    BY <2>1 DEF ToastType
  <2>3. a.wait = <<>> /\ a.class = toast.class /\ a.timers = toast.timers
        /\ a.timeout = toast.timeout
    BY <2>1 DEF ToastType
  <2> QED
    BY <2>2, <2>3
<1>4. toast' \in ToastType /\ toast'.wait = <<>>
      /\ (toast'.timers # {} => toastConfig.autohide)
  <2>1. toast' \in ToastEnding
    BY <1>1, <1>2
  <2> QED
    BY <2>1 DEF ToastEnding
<1>5. toastExists /\ WaitsByOption'
  BY <1>2, <1>4 DEF ToastInv, WaitsByOption
<1>6. n # 0 /\ 1 \in 1..n
  <2>1. toast.wait \in Seq({"shown", "closed"})
    BY <1>2 DEF ToastType
  <2> QED
    BY <1>2, <2>1
<1>7. ASSUME toast.wait = <<"shown">> PROVE toast' = Toast!Shown(a)
  <2>1. n = 1 /\ toast.wait[1] = "shown"
    <3>1. Len(<<"shown">>) = 1 /\ <<"shown">>[1] = "shown"
      OBVIOUS
    <3> QED
      BY <1>7, <3>1
  <2> HIDE DEF n, a
  <2> QED
    BY <1>1, <2>1
<1>8. toastMisuse' = {} /\ "showing" \in toast'.class => FALSE
  <2> SUFFICES ASSUME toastMisuse = {}, "showing" \in toast'.class PROVE FALSE
    BY <1>2
  <2>1. CASE "showing" \in toast.class
    <3>1. toast' = Toast!Shown(a)
      BY <1>7, <2>1 DEF ToastInv
    <3> HIDE DEF a
    <3> QED
      BY <1>3, <3>1, ToastShown
  <2>2. CASE "showing" \notin toast.class
    <3> DEFINE S == {T \in ToastType : "showing" \notin T.class}
    <3>1. g[0] \in S
      BY <1>1, <1>3, <2>2
    <3>2. \A k \in 1..n : g[k - 1] \in S => g[k] \in S
      <4> HIDE DEF n, a
      <4> QED
        BY <1>1, ToastShown, ToastClosed
    <3>3. \A k \in 0..n : g[k] \in S
      <4> HIDE DEF S, n, a
      <4> QED
        BY <1>2, <3>1, <3>2, StepsKeep
    <3>4. toast' \in S
      BY <1>1, <1>2, <3>3
    <3> QED
      BY <3>4
  <2> QED
    BY <2>1, <2>2
<1>9. ASSUME "overlapped" \notin toastMisuse PROVE OneAtATime'
  <2>1. OneAtATime
    BY <1>9 DEF ToastInv
  <2>2. CASE toast.wait = <<"shown">>
    <3>1. toast' = Toast!Shown(a) /\ a.timers = {} /\ "hide" \notin a.class
      BY <1>3, <1>7, <2>1, <2>2 DEF OneAtATime
    <3> HIDE DEF a
    <3>2. /\ "hide" \notin toast'.class
          /\ toast'.timers \subseteq {toast'.timeout}
      BY <1>3, <3>1, ToastShown
    <3> QED
      BY <1>4, <3>2 DEF OneAtATime
  <2>3. CASE toast.wait # <<"shown">>
    <3>1. /\ toast.timers \subseteq {toast.timeout} /\ "show" \notin toast.class
          /\ \A k \in 1..n : toast.wait[k] = "closed"
      BY <1>2, <2>1, <2>3 DEF OneAtATime
    <3> DEFINE S == {T \in ToastType : /\ T.timers = toast.timers /\ T.timeout = toast.timeout
                                       /\ "show" \notin T.class}
    <3>2. g[0] \in S
      BY <1>1, <1>3, <3>1
    <3>3. \A k \in 1..n : g[k - 1] \in S => g[k] \in S
      <4>1. \A k \in 1..n : g[k] = Toast!Closed(g[k - 1])
        BY <1>1, <3>1
      <4> HIDE DEF n, a
      <4> QED
        BY <4>1, ToastClosed
    <3>4. \A k \in 0..n : g[k] \in S
      <4> HIDE DEF S, n, a
      <4> QED
        BY <1>2, <3>2, <3>3, StepsKeep
    <3>5. toast' \in S
      BY <1>1, <1>2, <3>4
    <3> QED
      BY <1>4, <3>1, <3>5 DEF OneAtATime
  <2> QED
    BY <2>2, <2>3
<1> QED
  BY <1>2, <1>4, <1>5, <1>8, <1>9 DEF ToastInv

\* ToastInv holds in every state.
THEOREM ToastInvariance == Toast!Spec => []ToastInv
<1>1. Toast!Init => ToastInv
  BY InitToast
<1>2. ToastInv /\ [Toast!Next]_(Toast!vars) => ToastInv'
  <2>1. ToastInv /\ UNCHANGED Toast!vars => ToastInv'
    BY DEF Toast!vars, ToastInv, WaitsByOption, OneAtATime
  <2> QED
    BY <2>1, ShowToast, HideToast, DisposeToast, EndToast, TimeoutToast
       DEF Toast!Next, Toast!User, Toast!Browser
<1> QED
  BY <1>1, <1>2, PTL DEF Toast!Spec

\* However often it is called, a toast at rest is shown or hidden, and on its way in
\* it has no delay that could close it too early; a delay runs only for an instance
\* that will clear it (ToastInv has what is true in between).
THEOREM ToastKeepsItsTime == Toast!Spec => []ToastIsConsistent
<1>1. ToastInv => ToastIsConsistent
  <2> SUFFICES ASSUME ToastInv PROVE ToastIsConsistent
    OBVIOUS
  <2>1. Toast!TypeOK
    BY DEF ToastInv, ToastType, WaitsByOption, OneAtATime, Toast!TypeOK
  <2>2. <<"shown">> # <<>>
    OBVIOUS
  <2>3. Toast!RestIsConsistent
    BY <2>2 DEF ToastInv, OneAtATime, Toast!RestIsConsistent, Toast!AtRest
  <2>4. Toast!NoEarlyClose
    BY DEF ToastInv, OneAtATime, Toast!NoEarlyClose
  <2> QED
    BY <2>1, <2>3, <2>4 DEF ToastIsConsistent
<1> QED
  BY <1>1, ToastInvariance, PTL
-----------------------------------------------------------------------------
(***************************************************************************)
(* A tooltip or popover, whatever its options, triggers and delays.        *)
(***************************************************************************)

\* What a task may note.
TipNotes == {"prevented", "wanted", "reshown", "fixed", "scripted", "disposed"}

\* What a tip's state is.
TipType ==
    [hover : {"", "show", "out", "null"}, active : SUBSET {"hover", "focus", "click"},
     timer : {"none", "show", "hide"}, enabled : BOOLEAN, show : BOOLEAN, fade : BOOLEAN,
     inDom : BOOLEAN, described : BOOLEAN, popper : Nat, alive : SUBSET Nat, made : Nat,
     wait : Seq({"shown", "hidden"}), note : SUBSET TipNotes]

Tips == {T \in TipType : T.popper <= T.made /\ T.alive \subseteq 1..T.made}

\* The tip waits for a callback of this kind.
Pends(T, what) == \E k \in 1..Len(T.wait) : T.wait[k] = what

\* What is in the document is described and placed by one Popper.
Parts(T) ==
    /\ T.described = T.inDom
    /\ T.alive = IF T.inDom THEN {T.popper} ELSE {}
    /\ T.show => T.inDom
    /\ T.wait # <<>> => T.fade
    /\ Pends(T, "hidden") => ~T.show

\* One that comes into view is the only one, and one that leaves will be gone.
Unparted == {"reshown", "wanted", "fixed", "disposed"}
PartsHold(T) ==
    T.note \cap Unparted = {} =>
        Parts(T) /\ \A k \in 1..Len(T.wait) : T.wait[k] = "shown" => k = 1 /\ T.inDom
LeavesHold(T) ==
    T.note \cap Unparted = {} /\ T.inDom /\ ~T.show => Pends(T, "hidden")

\* A tip in the document has a trigger that keeps it or something that removes it.
Reasons(T) ==
    /\ T.hover = "show" => T.active # {}
    /\ T.hover = "out" => T.timer = "hide"

Unkept == {"scripted", "prevented", "wanted", "fixed"}
ReasonsHold(T) ==
    T.note \cap Unkept = {} =>
        Reasons(T) /\ (T.inDom => T.active # {} \/ T.hover = "out" \/ Pends(T, "hidden"))

TipInv ==
    /\ t \in Tips /\ t.note = {}
    /\ tipConfig \in TooltipConfigs /\ on \subseteq {"hover", "focus"}
    /\ t.active \subseteq on \cup {"click"}
    /\ ~tipExists => ~t.show /\ t.timer = "none" /\ t.wait = <<>>
    /\ tipMisuse \cap Unparted = {} => PartsHold(t) /\ LeavesHold(t)
    /\ tipMisuse \cap Unkept = {} => ReasonsHold(t)

LEMMA InitTip == Tooltip!Init => TipInv
<1> SUFFICES ASSUME Tooltip!Init PROVE TipInv
  OBVIOUS
<1>1. PICK no \in BOOLEAN, yes \in BOOLEAN : no = FALSE /\ yes = TRUE
  OBVIOUS
<1>2. t = [hover |-> "", active |-> {}, timer |-> "none", enabled |-> yes,
           show |-> no, fade |-> no, inDom |-> no, described |-> no,
           popper |-> 0, alive |-> {}, made |-> 0, wait |-> <<>>, note |-> {}]
  BY <1>1, Zenon DEF Tooltip!Init, Tooltip!Fresh
<1>3. <<>> \in Seq({"shown", "hidden"}) /\ Len(<<>>) = 0
  OBVIOUS
<1>4. t \in TipType
  BY <1>2, <1>3 DEF TipType
<1>5. /\ t.hover = "" /\ t.active = {} /\ t.timer = "none" /\ t.wait = <<>> /\ t.note = {}
      /\ t.popper = 0 /\ t.alive = {} /\ t.made = 0
  BY <1>2
<1>6. ~t.show /\ ~t.inDom /\ ~t.described
  BY <1>1, <1>2
<1>7. Len(t.wait) = 0 /\ \A k \in 1..Len(t.wait) : FALSE
  <2>1. Len(t.wait) = 0
    BY <1>3, <1>5, Zenon
  <2>2. 1..0 = {}
    OBVIOUS
  <2> QED
    BY <2>1, <2>2
<1>8. t.described = t.inDom /\ t.alive = IF t.inDom THEN {t.popper} ELSE {}
  BY <1>1, <1>2, <1>6
<1>9. PartsHold(t) /\ LeavesHold(t)
  BY <1>5, <1>6, <1>7, <1>8 DEF PartsHold, LeavesHold, Parts, Pends
<1>10. ReasonsHold(t)
  <2>1. "" # "show" /\ "" # "out"
    OBVIOUS
  <2> QED
    BY <1>5, <1>6, <2>1 DEF ReasonsHold, Reasons
<1>11. t \in Tips
  <2>1. t.popper <= t.made /\ t.alive \subseteq 1..t.made
    <3>1. 0 <= 0
      OBVIOUS
    <3> QED
      BY <1>5, <3>1
  <2> HIDE DEF TipType
  <2> QED
    BY <1>4, <2>1 DEF Tips
<1>12. tipConfig \in TooltipConfigs /\ on = {} /\ tipExists
  BY DEF Tooltip!Init
<1> HIDE DEF Tooltip!Init
<1> QED
  BY <1>5, <1>6, <1>9, <1>10, <1>11, <1>12 DEF TipInv

LEMMA TipWaits ==
    ASSUME NEW T \in TipType
    PROVE  T.wait \in Seq({"shown", "hidden"}) /\ Len(T.wait) \in Nat
<1>1. T.wait \in Seq({"shown", "hidden"})
  BY DEF TipType
<1> QED
  BY <1>1

\* One more callback.
LEMMA PendsMore ==
    ASSUME NEW w \in Seq({"shown", "hidden"}), NEW d \in {"shown", "hidden"}
    PROVE  /\ Append(w, d) \in Seq({"shown", "hidden"}) /\ Append(w, d) # <<>>
           /\ Len(Append(w, d)) = Len(w) + 1 /\ Append(w, d)[Len(w) + 1] = d
           /\ \A k \in 1..Len(w) : Append(w, d)[k] = w[k]
OBVIOUS

\* complete of hide.
LEMMA TipHidden ==
    ASSUME NEW T \in Tips, NEW U, U = Tooltip!Hidden(T)
    PROVE  /\ U \in Tips /\ T.note \subseteq U.note
           /\ U.hover = T.hover /\ U.active = T.active /\ U.timer = T.timer
           /\ U.show = T.show /\ U.fade = T.fade /\ U.wait = T.wait
           /\ ~U.described /\ U.alive = T.alive \ {T.popper}
           /\ U.inDom => T.inDom /\ "wanted" \in U.note
<1>1. PICK b \in BOOLEAN, no \in BOOLEAN :
         (b <=> T.inDom /\ T.hover = "show") /\ ~no
  OBVIOUS
<1> DEFINE bad == T.note \cup IF T.inDom /\ T.hover = "show" THEN {"wanted"} ELSE {}
           V == [T EXCEPT !.inDom = b, !.described = no, !.alive = T.alive \ {T.popper},
                          !.note = bad]
<1>2. U = V
  <2>1. /\ (T.inDom /\ T.hover = "show") = b /\ no = FALSE
    BY <1>1 DEF Tips, TipType
  <2> QED
    BY <2>1, Zenon DEF Tooltip!Hidden
<1>3. /\ T \in TipType /\ bad \in SUBSET TipNotes /\ T.note \subseteq bad
      /\ T.inDom /\ T.hover = "show" => "wanted" \in bad
  BY DEF Tips, TipType, TipNotes
<1> HIDE DEF bad
<1>4. V \in TipType
  BY <1>3 DEF TipType
<1>5. /\ V.hover = T.hover /\ V.active = T.active /\ V.timer = T.timer
      /\ V.show = T.show /\ V.fade = T.fade /\ V.wait = T.wait /\ V.inDom = b
      /\ V.described = no /\ V.alive = T.alive \ {T.popper} /\ V.note = bad
      /\ V.popper = T.popper /\ V.made = T.made
  BY <1>3 DEF TipType
<1> QED
  BY <1>1, <1>2, <1>3, <1>4, <1>5 DEF Tips

\* hide: what it leaves in the document waits to leave it.
LEMMA TipHide ==
    ASSUME NEW T \in Tips, NEW no \in BOOLEAN, NEW U, U = Tooltip!hide(T, no)
    PROVE  /\ U \in Tips /\ T.note \subseteq U.note /\ U.active \subseteq T.active
           /\ ReasonsHold(U)
           /\ ~T.show => ~U.show
           /\ ~Pends(T, "shown") => ~Pends(U, "shown")
           /\ ~Pends(T, "shown") /\ Parts(T) => Parts(U) \/ U.note \cap Unparted # {}
           /\ PartsHold(T) => PartsHold(U)
           /\ PartsHold(T) /\ LeavesHold(T) => LeavesHold(U)
<1>0. T \in TipType /\ T.popper <= T.made /\ T.alive \subseteq 1..T.made
  BY DEF Tips
<1>1. CASE no
  <2> DEFINE V == [T EXCEPT !.note = @ \cup {"prevented"}]
  <2>1. U = V
    BY <1>1 DEF Tooltip!hide
  <2>2. V \in TipType /\ V.note = T.note \cup {"prevented"} /\ V.active = T.active
        /\ V.wait = T.wait /\ V.show = T.show /\ V.inDom = T.inDom /\ V.fade = T.fade
        /\ V.described = T.described /\ V.alive = T.alive /\ V.popper = T.popper
        /\ V.made = T.made
    BY <1>0 DEF TipType, TipNotes
  <2> HIDE DEF V
  <2>3. Pends(V, "shown") = Pends(T, "shown") /\ Pends(V, "hidden") = Pends(T, "hidden")
    BY <2>2 DEF Pends
  <2>4. ReasonsHold(V)
    BY <2>2 DEF ReasonsHold, Unkept
  <2>5. Parts(T) => Parts(V)
    BY <2>2, <2>3 DEF Parts
  <2>6. /\ PartsHold(T) => PartsHold(V)
        /\ PartsHold(T) /\ LeavesHold(T) => LeavesHold(V)
    BY <2>2, <2>3, <2>5 DEF PartsHold, LeavesHold, Unparted
  <2> QED
    BY <1>0, <2>1, <2>2, <2>3, <2>4, <2>5, <2>6 DEF Tips
<1>2. CASE ~no
  <2>0. PICK f \in BOOLEAN : ~f
    OBVIOUS
  <2> DEFINE L == [T EXCEPT !.show = f, !.active = {}]
             B == IF T.fade THEN [L EXCEPT !.wait = Append(@, "hidden")] ELSE Tooltip!Hidden(L)
  <2>1. U = [B EXCEPT !.hover = ""]
    <3>1. f = FALSE
      BY <2>0
    <3> QED
      BY <1>2, <3>1, Zenon DEF Tooltip!hide
  <2>2. L \in TipType /\ L.note = T.note /\ L.active = {} /\ L.wait = T.wait /\ ~L.show
        /\ L.inDom = T.inDom /\ L.described = T.described /\ L.alive = T.alive
        /\ L.popper = T.popper /\ L.made = T.made /\ L.fade = T.fade
    BY <1>0, <2>0 DEF TipType
  <2>3. L \in Tips
    BY <1>0, <2>2 DEF Tips
  <2> HIDE DEF L
  <2>4. /\ B \in Tips /\ T.note \subseteq B.note /\ B.active = {} /\ ~B.show
        /\ B.fade = T.fade
        /\ T.fade => /\ B.wait = Append(T.wait, "hidden") /\ B.inDom = T.inDom
                     /\ B.described = T.described /\ B.alive = T.alive
                     /\ B.popper = T.popper
        /\ ~T.fade => /\ B.wait = T.wait /\ ~B.described /\ B.alive = T.alive \ {T.popper}
                      /\ B.inDom => "wanted" \in B.note
    <3>1. CASE T.fade
      <4>1. Append(L.wait, "hidden") \in Seq({"shown", "hidden"})
        BY <2>2, TipWaits, PendsMore
      <4>2. B = [L EXCEPT !.wait = Append(L.wait, "hidden")]
        BY <3>1
      <4> HIDE DEF B
      <4>3. B \in TipType
        BY <2>2, <4>1, <4>2 DEF TipType
      <4>4. B.wait = Append(L.wait, "hidden") /\ B.note = L.note /\ B.active = L.active
            /\ B.show = L.show /\ B.fade = L.fade /\ B.inDom = L.inDom
            /\ B.described = L.described /\ B.alive = L.alive /\ B.popper = L.popper
            /\ B.made = L.made
        BY <2>2, <4>2 DEF TipType
      <4> QED
        BY <2>2, <2>3, <3>1, <4>3, <4>4 DEF Tips
    <3>2. CASE ~T.fade
      <4>1. B = Tooltip!Hidden(L)
        BY <3>2
      <4> HIDE DEF B
      <4> QED
        BY <2>2, <2>3, <3>2, <4>1, TipHidden
    <3> QED
      BY <3>1, <3>2
  <2> HIDE DEF B
  <2>5. U \in TipType /\ U.hover = "" /\ U.note = B.note /\ U.active = B.active
        /\ U.wait = B.wait /\ U.show = B.show /\ U.fade = B.fade /\ U.inDom = B.inDom
        /\ U.described = B.described /\ U.alive = B.alive /\ U.popper = B.popper
        /\ U.made = B.made
    BY <2>1, <2>4 DEF Tips, TipType
  <2>6. U \in Tips
    BY <2>4, <2>5 DEF Tips
  <2>7. CASE T.fade
    <3>1. T.wait \in Seq({"shown", "hidden"}) /\ Len(T.wait) \in Nat
      BY <1>0, TipWaits
    <3>2. U.wait = Append(T.wait, "hidden")
      BY <2>4, <2>5, <2>7
    <3>3. /\ Len(U.wait) = Len(T.wait) + 1 /\ U.wait[Len(T.wait) + 1] = "hidden"
          /\ \A k \in 1..Len(T.wait) : U.wait[k] = T.wait[k]
      BY <3>1, <3>2, PendsMore
    <3>4. \A k \in 1..Len(U.wait) : k \in 1..Len(T.wait) \/ k = Len(T.wait) + 1
      BY <3>1, <3>3
    <3>5. Len(T.wait) + 1 \in 1..Len(U.wait)
      BY <3>1, <3>3
    <3>6. Pends(U, "hidden") /\ (Pends(U, "shown") <=> Pends(T, "shown"))
      <4>1. \A k \in 1..Len(T.wait) : k \in 1..Len(U.wait)
        BY <3>1, <3>3
      <4> QED
        BY <3>3, <3>4, <3>5, <4>1 DEF Pends
    <3>7. ReasonsHold(U)
      BY <2>5, <3>6 DEF ReasonsHold, Reasons
    <3>8. Parts(T) => Parts(U)
      <4>1. U.described = T.described /\ U.inDom = T.inDom /\ U.alive = T.alive
            /\ U.popper = T.popper /\ U.fade = T.fade /\ U.fade /\ ~U.show
        BY <2>4, <2>5, <2>7
      <4> QED
        BY <4>1 DEF Parts
    <3>9. PartsHold(T) => PartsHold(U)
      <4> SUFFICES ASSUME PartsHold(T), U.note \cap Unparted = {} PROVE PartsHold(U)
        BY DEF PartsHold
      <4>1. Parts(T) /\ \A k \in 1..Len(T.wait) : T.wait[k] = "shown" => k = 1 /\ T.inDom
        BY <2>4, <2>5 DEF PartsHold
      <4>2. ASSUME NEW k \in 1..Len(U.wait), U.wait[k] = "shown" PROVE k = 1 /\ U.inDom
        <5>1. k \in 1..Len(T.wait) /\ T.wait[k] = "shown"
          BY <3>3, <3>4, <4>2
        <5> QED
          BY <2>4, <2>5, <2>7, <4>1, <5>1
      <4> QED
        BY <3>8, <4>1, <4>2 DEF PartsHold
    <3>10. LeavesHold(U)
      BY <3>6 DEF LeavesHold
    <3> QED
      BY <2>4, <2>5, <2>6, <3>6, <3>7, <3>8, <3>9, <3>10
  <2>8. CASE ~T.fade
    <3>1. /\ U.wait = T.wait /\ ~U.described /\ U.alive = T.alive \ {T.popper}
          /\ U.inDom => "wanted" \in U.note
      BY <2>4, <2>5, <2>8
    <3>2. Pends(U, "shown") = Pends(T, "shown")
      BY <3>1 DEF Pends
    <3>3. ReasonsHold(U)
      BY <2>5, <3>1 DEF ReasonsHold, Reasons, Unkept
    <3>4. U.note \cap Unparted = {} => ~U.inDom
      BY <3>1 DEF Unparted
    <3>5. Parts(T) => Parts(U) \/ U.note \cap Unparted # {}
      <4> SUFFICES ASSUME Parts(T), U.note \cap Unparted = {} PROVE Parts(U)
        OBVIOUS
      <4>1. ~U.inDom /\ ~U.show /\ U.alive = {} /\ U.wait = <<>>
        BY <2>4, <2>5, <2>8, <3>1, <3>4 DEF Parts
      <4>2. U.described = U.inDom
        BY <2>5, <3>1, <4>1 DEF TipType
      <4> QED
        BY <4>1, <4>2 DEF Parts
    <3>6. PartsHold(T) => PartsHold(U)
      <4> SUFFICES ASSUME PartsHold(T), U.note \cap Unparted = {} PROVE PartsHold(U)
        BY DEF PartsHold
      <4>1. Parts(T)
        BY <2>4, <2>5 DEF PartsHold
      <4>2. Parts(U) /\ U.wait = <<>>
        BY <2>8, <3>1, <3>5, <4>1 DEF Parts
      <4>3. \A k \in 1..Len(U.wait) : FALSE
        <5>1. Len(<<>>) = 0 /\ 1..0 = {}
          OBVIOUS
        <5> QED
          BY <4>2, <5>1
      <4> QED
        BY <4>2, <4>3 DEF PartsHold
    <3>7. LeavesHold(U)
      BY <3>4 DEF LeavesHold
    <3> QED
      BY <2>4, <2>5, <2>6, <3>2, <3>3, <3>5, <3>6, <3>7
  <2> QED
    BY <2>7, <2>8
<1> QED
  BY <1>1, <1>2

\* Fields that Parts and the rest do not look at.
LEMMA TipSame ==
    ASSUME NEW T \in Tips, NEW U \in Tips, U.note = T.note, U.show = T.show,
           U.fade = T.fade, U.inDom = T.inDom, U.described = T.described,
           U.popper = T.popper, U.alive = T.alive, U.wait = T.wait
    PROVE  /\ Pends(U, "shown") <=> Pends(T, "shown")
           /\ Pends(U, "hidden") <=> Pends(T, "hidden")
           /\ Parts(T) <=> Parts(U)
           /\ PartsHold(T) <=> PartsHold(U)
           /\ LeavesHold(T) <=> LeavesHold(U)
<1>1. /\ Pends(U, "shown") <=> Pends(T, "shown")
      /\ Pends(U, "hidden") <=> Pends(T, "hidden")
  BY DEF Pends
<1>2. Parts(T) <=> Parts(U)
  BY <1>1 DEF Parts
<1> QED
  BY <1>1, <1>2 DEF PartsHold, LeavesHold

\* _leave: a tip that leaves has a delay, or waits to be gone.
LEMMA TipLeave ==
    ASSUME NEW T \in Tips, NEW trigger \in SUBSET {"hover", "focus", "click"},
           NEW no \in BOOLEAN, NEW U, U = Tooltip!_leave(T, trigger, no)
    PROVE  /\ U \in Tips /\ T.note \subseteq U.note /\ U.active \subseteq T.active \ trigger
           /\ (T.hover = "out" => T.timer = "hide") => ReasonsHold(U)
           /\ ~T.show => ~U.show
           /\ ~Pends(T, "shown") => ~Pends(U, "shown")
           /\ ~Pends(T, "shown") /\ Parts(T) => Parts(U) \/ U.note \cap Unparted # {}
           /\ PartsHold(T) => PartsHold(U)
           /\ PartsHold(T) /\ LeavesHold(T) => LeavesHold(U)
<1> DEFINE L == [T EXCEPT !.active = @ \ trigger]
           O == [L EXCEPT !.timer = "none", !.hover = "out"]
           D == [O EXCEPT !.timer = "hide"]
<1>1. U = IF L.active # {} THEN L
          ELSE IF tipConfig.delayHide THEN D ELSE Tooltip!hide(O, no)
  BY DEF Tooltip!_leave
<1>2. T \in TipType /\ T.popper <= T.made /\ T.alive \subseteq 1..T.made
  BY DEF Tips
<1>3. L \in TipType /\ L.active = T.active \ trigger /\ L.note = T.note /\ L.show = T.show
      /\ L.fade = T.fade /\ L.inDom = T.inDom /\ L.described = T.described
      /\ L.popper = T.popper /\ L.alive = T.alive /\ L.wait = T.wait /\ L.made = T.made
      /\ L.hover = T.hover /\ L.timer = T.timer
  BY <1>2 DEF TipType
<1> HIDE DEF L
<1>4. O \in TipType /\ O.active = L.active /\ O.note = T.note /\ O.show = T.show
      /\ O.fade = T.fade /\ O.inDom = T.inDom /\ O.described = T.described
      /\ O.popper = T.popper /\ O.alive = T.alive /\ O.wait = T.wait /\ O.made = T.made
  BY <1>3 DEF TipType
<1> HIDE DEF O
<1>5. D \in TipType /\ D.active = L.active /\ D.note = T.note /\ D.show = T.show
      /\ D.fade = T.fade /\ D.inDom = T.inDom /\ D.described = T.described
      /\ D.popper = T.popper /\ D.alive = T.alive /\ D.wait = T.wait /\ D.made = T.made
      /\ D.hover = "out" /\ D.timer = "hide"
  <2>1. O.hover = "out"
    BY <1>3 DEF O, TipType
  <2> QED
    BY <1>4, <2>1 DEF TipType
<1> HIDE DEF D
<1>6. L \in Tips /\ O \in Tips /\ D \in Tips
  BY <1>2, <1>3, <1>4, <1>5 DEF Tips
<1>7. CASE L.active # {}
  <2>1. U = L
    BY <1>1, <1>7
  <2>2. (T.hover = "out" => T.timer = "hide") => ReasonsHold(U)
    BY <1>3, <1>7, <2>1 DEF ReasonsHold, Reasons
  <2> QED
    BY <1>3, <1>6, <2>1, <2>2, TipSame
<1>8. CASE L.active = {} /\ tipConfig.delayHide
  <2>1. U = D
    BY <1>1, <1>8
  <2>2. ReasonsHold(U)
    BY <1>5, <2>1 DEF ReasonsHold, Reasons
  <2> QED
    BY <1>3, <1>5, <1>6, <2>1, <2>2, TipSame
<1>9. CASE L.active = {} /\ ~tipConfig.delayHide
  <2>1. U = Tooltip!hide(O, no)
    BY <1>1, <1>9
  <2>2. /\ Pends(O, "shown") <=> Pends(T, "shown")
        /\ Parts(T) <=> Parts(O)
        /\ PartsHold(T) <=> PartsHold(O)
        /\ LeavesHold(T) <=> LeavesHold(O)
    BY <1>4, <1>6, TipSame
  <2> QED
    BY <1>3, <1>4, <1>6, <2>1, <2>2, TipHide
<1> QED
  BY <1>7, <1>8, <1>9

\* _leave for none of the triggers.
LEMMA TipLeaveNone ==
    ASSUME NEW T \in Tips, NEW no \in BOOLEAN, NEW U, U = Tooltip!_leave(T, {}, no)
    PROVE  /\ U \in Tips /\ T.note \subseteq U.note /\ U.active \subseteq T.active
           /\ (T.hover = "out" => T.timer = "hide") => ReasonsHold(U)
           /\ PartsHold(T) => PartsHold(U)
           /\ PartsHold(T) /\ LeavesHold(T) => LeavesHold(U)
<1> DEFINE none == {}
<1>1. none \in SUBSET {"hover", "focus", "click"} /\ U = Tooltip!_leave(T, none, no)
  OBVIOUS
<1> HIDE DEF none
<1> QED
  BY <1>1, TipLeave

\* The end of complete of show.
LEMMA TipSettled ==
    ASSUME NEW T \in Tips, NEW no \in BOOLEAN, NEW U, U = Tooltip!Settled(T, no)
    PROVE  /\ U \in Tips /\ T.note \subseteq U.note /\ U.active \subseteq T.active
           /\ \/ ReasonsHold(U)
              \/ /\ T.hover # "out" /\ U.hover = "null" /\ U.active = T.active
                 /\ U.inDom = T.inDom /\ U.wait = T.wait /\ U.note = T.note
           /\ ~T.show => ~U.show
           /\ ~Pends(T, "shown") => ~Pends(U, "shown")
           /\ ~Pends(T, "shown") /\ Parts(T) => Parts(U) \/ U.note \cap Unparted # {}
           /\ PartsHold(T) => PartsHold(U)
           /\ PartsHold(T) /\ LeavesHold(T) => LeavesHold(U)
<1> DEFINE N == [T EXCEPT !.hover = "null"]
<1>1. U = IF T.hover = "out" THEN Tooltip!_leave(N, {}, no) ELSE N
  BY DEF Tooltip!Settled
<1>2. T \in TipType /\ T.popper <= T.made /\ T.alive \subseteq 1..T.made
  BY DEF Tips
<1>3. N \in TipType /\ N.active = T.active /\ N.note = T.note /\ N.show = T.show
      /\ N.fade = T.fade /\ N.inDom = T.inDom /\ N.described = T.described
      /\ N.popper = T.popper /\ N.alive = T.alive /\ N.wait = T.wait /\ N.made = T.made
      /\ N.hover = "null"
  BY <1>2 DEF TipType
<1> HIDE DEF N
<1>4. N \in Tips
  BY <1>2, <1>3 DEF Tips
<1>5. /\ Pends(N, "shown") <=> Pends(T, "shown")
      /\ Parts(T) <=> Parts(N)
      /\ PartsHold(T) <=> PartsHold(N)
      /\ LeavesHold(T) <=> LeavesHold(N)
  BY <1>3, <1>4, TipSame
<1>6. CASE T.hover = "out"
  <2>1. U = Tooltip!_leave(N, {}, no)
    BY <1>1, <1>6
  <2>2. {} \in SUBSET {"hover", "focus", "click"} /\ N.hover # "out"
    BY <1>3
  <2> QED
    BY <1>3, <1>4, <1>5, <2>1, <2>2, TipLeave
<1>7. CASE T.hover # "out"
  BY <1>1, <1>3, <1>4, <1>5, <1>7
<1> QED
  BY <1>6, <1>7

\* A tip in the document, with one more Popper.
LEMMA TipUp ==
    ASSUME NEW T \in Tips, NEW animation \in BOOLEAN, NEW U, U = Tooltip!Up(T, animation)
    PROVE  U \in Tips /\ T.note \subseteq U.note /\ U.active = T.active
<1>0. PICK yes \in BOOLEAN : yes
  OBVIOUS
<1> DEFINE more == T.note \cup IF T.inDom \/ T.wait # <<>> THEN {"reshown"} ELSE {}
           V == [T EXCEPT !.described = yes, !.inDom = yes, !.show = yes,
                          !.fade = animation,
                          !.made = T.made + 1, !.popper = T.made + 1,
                          !.alive = T.alive \cup {T.made + 1}, !.note = more]
<1>1. U = V
  <2>1. yes = TRUE
    BY <1>0
  <2> QED
    BY <2>1, Zenon DEF Tooltip!Up
<1>2. T \in TipType /\ T.popper <= T.made /\ T.alive \subseteq 1..T.made /\ T.made \in Nat
  BY DEF Tips, TipType
<1>3. more \in SUBSET TipNotes /\ T.note \subseteq more
  BY <1>2 DEF TipType, TipNotes
<1> HIDE DEF more
<1>4. T.made + 1 \in Nat /\ T.alive \cup {T.made + 1} \subseteq 1..(T.made + 1)
  BY <1>2
<1>5. V \in TipType
  BY <1>2, <1>3, <1>4 DEF TipType
<1>6. V.active = T.active /\ V.note = more /\ V.popper = T.made + 1 /\ V.made = T.made + 1
      /\ V.alive = T.alive \cup {T.made + 1}
  BY <1>2 DEF TipType
<1> HIDE DEF V
<1> QED
  BY <1>1, <1>3, <1>4, <1>5, <1>6 DEF Tips

\* A tip that is hidden and shown again says so.
LEMMA TipFixed ==
    ASSUME NEW T \in Tips, NEW no \in BOOLEAN, NEW U, U = Tooltip!_fixTransition(T, no)
    PROVE  /\ U \in Tips /\ T.note \subseteq U.note /\ U.active \subseteq T.active
           /\ U = T \/ "fixed" \in U.note
<1>0. PICK off \in BOOLEAN : off = FALSE
  OBVIOUS
<1> DEFINE B == [T EXCEPT !.fade = off]
           H == Tooltip!hide(B, no)
           D == [H EXCEPT !.note = @ \cup {"fixed"}]
           V == Tooltip!Up(D, off)
<1>1. U = IF T.popper \in T.alive THEN T
          ELSE IF ~Tooltip!isWithContent \/ ~T.enabled \/ no THEN D
          ELSE Tooltip!Settled(V, no)
  BY <1>0, Zenon DEF Tooltip!_fixTransition
<1>2. T \in TipType /\ T.popper <= T.made /\ T.alive \subseteq 1..T.made
  BY DEF Tips
<1>3. B \in TipType /\ B.note = T.note /\ B.active = T.active /\ B.popper = T.popper
      /\ B.made = T.made /\ B.alive = T.alive
  BY <1>2 DEF TipType
<1> HIDE DEF B
<1>4. B \in Tips
  BY <1>2, <1>3 DEF Tips
<1>5. H \in Tips /\ T.note \subseteq H.note /\ H.active \subseteq T.active
  BY <1>3, <1>4, TipHide
<1>6. H \in TipType /\ H.popper <= H.made /\ H.alive \subseteq 1..H.made
  BY <1>5 DEF Tips
<1> HIDE DEF H
<1>7. D \in TipType /\ D.note = H.note \cup {"fixed"} /\ D.active = H.active
      /\ D.popper = H.popper /\ D.made = H.made /\ D.alive = H.alive
  BY <1>6 DEF TipType, TipNotes
<1> HIDE DEF D
<1>8. D \in Tips /\ T.note \subseteq D.note /\ D.active \subseteq T.active /\ "fixed" \in D.note
  BY <1>5, <1>6, <1>7 DEF Tips
<1>9. V \in Tips /\ D.note \subseteq V.note /\ V.active = D.active
  BY <1>8, TipUp
<1> HIDE DEF V
<1>10. ASSUME NEW W, W = Tooltip!Settled(V, no)
       PROVE  W \in Tips /\ V.note \subseteq W.note /\ W.active \subseteq V.active
  BY <1>9, <1>10, TipSettled
<1> QED
  BY <1>1, <1>8, <1>9, <1>10

\* complete of show.
LEMMA TipShown ==
    ASSUME NEW T \in Tips, NEW no \in BOOLEAN, NEW U, U = Tooltip!Shown(T, no)
    PROVE  /\ U \in Tips /\ T.note \subseteq U.note /\ U.active \subseteq T.active
           /\ \/ ReasonsHold(U)
              \/ /\ T.hover # "out" /\ U.hover = "null" /\ U.active = T.active
                 /\ U.inDom = T.inDom /\ U.wait = T.wait /\ U.note = T.note
           /\ \/ U.note \cap Unparted # {}
              \/ /\ ~T.show => ~U.show
                 /\ ~Pends(T, "shown") => ~Pends(U, "shown")
                 /\ ~Pends(T, "shown") /\ Parts(T) => Parts(U)
           /\ PartsHold(T) => PartsHold(U)
           /\ PartsHold(T) /\ LeavesHold(T) => LeavesHold(U)
<1> DEFINE F == IF tipConfig.animation THEN Tooltip!_fixTransition(T, no) ELSE T
<1>1. U = Tooltip!Settled(F, no)
  BY DEF Tooltip!Shown
<1>2. CASE F = T
  BY <1>1, <1>2, TipSettled
<1>3. CASE F # T
  <2>1. F = Tooltip!_fixTransition(T, no)
    BY <1>3
  <2>2. F \in Tips /\ T.note \subseteq F.note /\ F.active \subseteq T.active /\ "fixed" \in F.note
    BY <1>3, <2>1, TipFixed
  <2> HIDE DEF F
  <2>3. U \in Tips /\ F.note \subseteq U.note /\ U.active \subseteq F.active
    BY <1>1, <2>2, TipSettled
  <2>4. "fixed" \in U.note /\ "fixed" \in Unparted /\ "fixed" \in Unkept
    BY <2>2, <2>3 DEF Unparted, Unkept
  <2>5. ReasonsHold(U) /\ PartsHold(U) /\ LeavesHold(U)
    BY <2>4 DEF ReasonsHold, PartsHold, LeavesHold
  <2> QED
    BY <2>2, <2>3, <2>4, <2>5
<1> QED
  BY <1>2, <1>3

\* show: a new tip, unless something of the old one is left.
LEMMA TipShow ==
    ASSUME tipConfig \in TooltipConfigs,
           NEW T \in Tips, NEW no \in BOOLEAN, NEW U, U = Tooltip!show(T, no)
    PROVE  /\ U \in Tips /\ T.note \subseteq U.note /\ U.active \subseteq T.active
           /\ ReasonsHold(T) /\ T.active # {} => ReasonsHold(U)
           /\ PartsHold(T) /\ LeavesHold(T) => PartsHold(U) /\ LeavesHold(U)
<1>0. PICK yes \in BOOLEAN : yes
  OBVIOUS
<1> DEFINE more == T.note \cup IF T.inDom \/ T.wait # <<>> THEN {"reshown"} ELSE {}
           V == [T EXCEPT !.described = yes, !.inDom = yes, !.show = yes,
                          !.fade = tipConfig.animation,
                          !.made = T.made + 1, !.popper = T.made + 1,
                          !.alive = T.alive \cup {T.made + 1}, !.note = more]
           W == [V EXCEPT !.wait = Append(V.wait, "shown")]
           P == [T EXCEPT !.note = @ \cup {"prevented"}]
<1>1. U = IF ~Tooltip!isWithContent \/ ~T.enabled THEN T
          ELSE IF no THEN P
          ELSE IF tipConfig.animation THEN W ELSE Tooltip!Settled(V, no)
  <2>1. yes = TRUE
    BY <1>0
  <2> QED
    BY <2>1, Zenon DEF Tooltip!show, Tooltip!Up
<1>2. T \in TipType /\ T.popper <= T.made /\ T.alive \subseteq 1..T.made /\ T.made \in Nat
  BY DEF Tips, TipType
<1>3. tipConfig.animation \in BOOLEAN
  BY OptionsAssumption DEF Tooltip!ConfigAssumption
<1>4. more \in SUBSET TipNotes /\ T.note \subseteq more
      /\ (T.inDom \/ T.wait # <<>> => "reshown" \in more)
      /\ (~T.inDom /\ T.wait = <<>> => more = T.note)
  <2>1. T.note \in SUBSET TipNotes /\ "reshown" \in TipNotes
    BY <1>2 DEF TipType, TipNotes
  <2> QED
    BY <2>1
<1> HIDE DEF more
<1>5. T.made + 1 \in Nat /\ T.alive \cup {T.made + 1} \subseteq 1..(T.made + 1)
  BY <1>2
<1>6. V \in TipType
  BY <1>2, <1>3, <1>4, <1>5 DEF TipType
<1>7. V.active = T.active /\ V.note = more /\ V.show = yes /\ V.fade = tipConfig.animation
      /\ V.inDom = yes /\ V.described = yes /\ V.popper = T.made + 1
      /\ V.alive = T.alive \cup {T.made + 1} /\ V.wait = T.wait /\ V.made = T.made + 1
      /\ V.hover = T.hover /\ V.timer = T.timer
  BY <1>2 DEF TipType
<1> HIDE DEF V
<1>8. V \in Tips
  BY <1>5, <1>6, <1>7 DEF Tips
<1>9. ASSUME PartsHold(T), LeavesHold(T), more \cap Unparted = {}
      PROVE  /\ V.wait = <<>> /\ V.inDom /\ V.show /\ V.described = V.inDom
             /\ V.alive = {V.popper} /\ V.note = T.note
  <2>1. ~T.inDom /\ T.wait = <<>> /\ more = T.note
    BY <1>4, <1>9 DEF Unparted
  <2>2. T.alive = {}
    BY <1>9, <2>1 DEF PartsHold, Parts
  <2> QED
    BY <1>0, <1>7, <2>1, <2>2
<1>10. CASE ~Tooltip!isWithContent \/ ~T.enabled
  <2>1. U = T
    BY <1>1, <1>10
  <2> QED
    BY <2>1
<1>11. CASE no
  <2>1. P \in TipType /\ P.note = T.note \cup {"prevented"} /\ P.active = T.active
        /\ P.wait = T.wait /\ P.show = T.show /\ P.inDom = T.inDom /\ P.fade = T.fade
        /\ P.described = T.described /\ P.alive = T.alive /\ P.popper = T.popper
        /\ P.made = T.made
    BY <1>2 DEF TipType, TipNotes
  <2>2. P \in Tips
    BY <1>2, <2>1 DEF Tips
  <2> HIDE DEF P
  <2>3. Pends(P, "hidden") = Pends(T, "hidden")
    BY <2>1 DEF Pends
  <2>4. ReasonsHold(P)
    BY <2>1 DEF ReasonsHold, Unkept
  <2>5. Parts(T) => Parts(P)
    BY <2>1, <2>3 DEF Parts
  <2>6. PartsHold(T) => PartsHold(P)
    BY <2>1, <2>5 DEF PartsHold, Unparted
  <2>7. LeavesHold(T) => LeavesHold(P)
    BY <2>1, <2>3 DEF LeavesHold, Unparted
  <2> QED
    BY <1>1, <1>10, <1>11, <2>1, <2>2, <2>4, <2>6, <2>7
<1>12. CASE ~(~Tooltip!isWithContent \/ ~T.enabled) /\ ~no /\ tipConfig.animation
  <2>0. U = W
    BY <1>1, <1>12
  <2>1. V.wait \in Seq({"shown", "hidden"}) /\ Len(V.wait) \in Nat
    BY <1>6, TipWaits
  <2>2. /\ Append(V.wait, "shown") \in Seq({"shown", "hidden"})
        /\ Len(Append(V.wait, "shown")) = Len(V.wait) + 1
        /\ Append(V.wait, "shown")[Len(V.wait) + 1] = "shown"
        /\ \A k \in 1..Len(V.wait) : Append(V.wait, "shown")[k] = V.wait[k]
    BY <2>1, PendsMore
  <2>3. W \in TipType
    BY <1>6, <2>2 DEF TipType
  <2>4. W.active = V.active /\ W.note = V.note /\ W.show = V.show /\ W.fade = V.fade
        /\ W.inDom = V.inDom /\ W.described = V.described /\ W.popper = V.popper
        /\ W.alive = V.alive /\ W.wait = Append(V.wait, "shown") /\ W.made = V.made
        /\ W.hover = V.hover /\ W.timer = V.timer
    BY <1>6 DEF TipType
  <2> HIDE DEF W
  <2>5. W \in Tips
    BY <1>8, <2>3, <2>4 DEF Tips
  <2>6. ReasonsHold(T) /\ T.active # {} => ReasonsHold(W)
    <3> SUFFICES ASSUME ReasonsHold(T), T.active # {}, W.note \cap Unkept = {}
                 PROVE  ReasonsHold(W)
      BY DEF ReasonsHold
    <3>1. Reasons(T)
      BY <1>4, <1>7, <2>4 DEF ReasonsHold
    <3> QED
      BY <1>7, <2>4, <3>1 DEF ReasonsHold, Reasons
  <2>7. ASSUME PartsHold(T), LeavesHold(T), W.note \cap Unparted = {}
        PROVE  PartsHold(W) /\ LeavesHold(W)
    <3>1. /\ V.wait = <<>> /\ V.inDom /\ V.show /\ V.described = V.inDom
          /\ V.alive = {V.popper}
      BY <1>7, <1>9, <2>4, <2>7
    <3>2. Len(V.wait) = 0
      <4>1. Len(<<>>) = 0
        OBVIOUS
      <4> QED
        BY <3>1, <4>1
    <3>3. Len(W.wait) = 1 /\ W.wait[1] = "shown"
      BY <2>2, <2>4, <3>2
    <3>4. \A k \in 1..Len(W.wait) : k = 1
      BY <3>3
    <3>5. ~Pends(W, "hidden")
      BY <3>3, <3>4 DEF Pends
    <3>6. W.fade
      BY <1>7, <1>12, <2>4
    <3>7. Parts(W)
      BY <2>4, <3>1, <3>5, <3>6 DEF Parts
    <3> QED
      BY <2>4, <3>1, <3>4, <3>7 DEF PartsHold, LeavesHold
  <2>8. W.note \cap Unparted # {} => PartsHold(W) /\ LeavesHold(W)
    BY DEF PartsHold, LeavesHold
  <2> QED
    BY <1>4, <1>7, <2>0, <2>4, <2>5, <2>6, <2>7, <2>8
<1>13. CASE ~(~Tooltip!isWithContent \/ ~T.enabled) /\ ~no /\ ~tipConfig.animation
  <2>0. U = Tooltip!Settled(V, no)
    BY <1>1, <1>13
  <2>1. ASSUME ReasonsHold(T), T.active # {} PROVE ReasonsHold(U)
    <3>1. \/ ReasonsHold(U)
          \/ /\ U.hover = "null" /\ U.active = V.active /\ U.note = V.note
      BY <1>8, <2>0, TipSettled
    <3>2. U.hover = "null" /\ U.active # {} => ReasonsHold(U)
      BY DEF ReasonsHold, Reasons
    <3> QED
      BY <1>7, <2>1, <3>1, <3>2
  <2>2. ASSUME PartsHold(T), LeavesHold(T) PROVE PartsHold(V) /\ LeavesHold(V)
    <3> SUFFICES ASSUME more \cap Unparted = {} PROVE PartsHold(V) /\ LeavesHold(V)
      BY <1>7 DEF PartsHold, LeavesHold
    <3>1. /\ V.wait = <<>> /\ V.inDom /\ V.show /\ V.described = V.inDom
          /\ V.alive = {V.popper}
      BY <1>9, <2>2
    <3>2. \A k \in 1..Len(V.wait) : FALSE
      <4>1. Len(<<>>) = 0 /\ 1..0 = {}
        OBVIOUS
      <4> QED
        BY <3>1, <4>1
    <3>3. Parts(V)
      BY <3>1, <3>2 DEF Parts, Pends
    <3> QED
      BY <3>1, <3>2, <3>3 DEF PartsHold, LeavesHold
  <2>3. /\ U \in Tips /\ V.note \subseteq U.note /\ U.active \subseteq V.active
        /\ PartsHold(V) => PartsHold(U)
        /\ PartsHold(V) /\ LeavesHold(V) => LeavesHold(U)
    BY <1>8, <2>0, TipSettled
  <2> QED
    BY <1>4, <1>7, <2>1, <2>2, <2>3
<1> QED
  BY <1>10, <1>11, <1>12, <1>13

\* _enter, for a trigger or for one that is active.
LEMMA TipEnter ==
    ASSUME tipConfig \in TooltipConfigs,
           NEW T \in Tips, NEW trigger \in SUBSET {"hover", "focus", "click"},
           NEW no \in BOOLEAN, NEW U, U = Tooltip!_enter(T, trigger, no)
    PROVE  /\ U \in Tips /\ T.note \subseteq U.note
           /\ U.active \subseteq T.active \cup trigger
           /\ ReasonsHold(T) /\ T.active \cup trigger # {} => ReasonsHold(U)
           /\ PartsHold(T) /\ LeavesHold(T) => PartsHold(U) /\ LeavesHold(U)
<1> DEFINE I == [T EXCEPT !.active = @ \cup trigger, !.hover = "show"]
           C == [I EXCEPT !.timer = "none"]
           D == [C EXCEPT !.timer = "show"]
<1>1. U = IF T.show \/ T.hover = "show" THEN I
          ELSE IF tipConfig.delayShow THEN D ELSE Tooltip!show(C, no)
  BY DEF Tooltip!_enter
<1>2. T \in TipType /\ T.popper <= T.made /\ T.alive \subseteq 1..T.made
  BY DEF Tips
<1>3. I \in TipType /\ I.active = T.active \cup trigger /\ I.note = T.note /\ I.show = T.show
      /\ I.fade = T.fade /\ I.inDom = T.inDom /\ I.described = T.described
      /\ I.popper = T.popper /\ I.alive = T.alive /\ I.wait = T.wait /\ I.made = T.made
      /\ I.hover = "show"
  BY <1>2 DEF TipType
<1> HIDE DEF I
<1>4. C \in TipType /\ C.active = I.active /\ C.note = T.note /\ C.show = T.show
      /\ C.fade = T.fade /\ C.inDom = T.inDom /\ C.described = T.described
      /\ C.popper = T.popper /\ C.alive = T.alive /\ C.wait = T.wait /\ C.made = T.made
      /\ C.hover = "show"
  BY <1>3 DEF TipType
<1> HIDE DEF C
<1>5. D \in TipType /\ D.active = I.active /\ D.note = T.note /\ D.show = T.show
      /\ D.fade = T.fade /\ D.inDom = T.inDom /\ D.described = T.described
      /\ D.popper = T.popper /\ D.alive = T.alive /\ D.wait = T.wait /\ D.made = T.made
      /\ D.hover = "show"
  BY <1>4 DEF TipType
<1> HIDE DEF D
<1>6. I \in Tips /\ C \in Tips /\ D \in Tips
  BY <1>2, <1>3, <1>4, <1>5 DEF Tips
<1>7. T.active \cup trigger # {} => ReasonsHold(I) /\ ReasonsHold(C) /\ ReasonsHold(D)
  BY <1>3, <1>4, <1>5 DEF ReasonsHold, Reasons
<1>8. CASE T.show \/ T.hover = "show"
  <2>1. U = I
    BY <1>1, <1>8
  <2> QED
    BY <1>3, <1>6, <1>7, <2>1, TipSame
<1>9. CASE ~(T.show \/ T.hover = "show") /\ tipConfig.delayShow
  <2>1. U = D
    BY <1>1, <1>9
  <2> QED
    BY <1>3, <1>5, <1>6, <1>7, <2>1, TipSame
<1>10. CASE ~(T.show \/ T.hover = "show") /\ ~tipConfig.delayShow
  <2>1. U = Tooltip!show(C, no)
    BY <1>1, <1>10
  <2>2. (PartsHold(T) <=> PartsHold(C)) /\ (LeavesHold(T) <=> LeavesHold(C))
    BY <1>4, <1>6, TipSame
  <2>3. /\ U \in Tips /\ C.note \subseteq U.note /\ U.active \subseteq C.active
        /\ ReasonsHold(C) /\ C.active # {} => ReasonsHold(U)
        /\ PartsHold(C) /\ LeavesHold(C) => PartsHold(U) /\ LeavesHold(U)
    BY <1>6, <2>1, TipShow
  <2> QED
    BY <1>3, <1>4, <1>7, <2>2, <2>3
<1> QED
  BY <1>8, <1>9, <1>10

\* TipInv of the next state, written out.
LEMMA TipInvPrimed ==
    TipInv' = (/\ t' \in Tips /\ t'.note = {}
               /\ tipConfig' \in TooltipConfigs /\ on' \subseteq {"hover", "focus"}
               /\ t'.active \subseteq on' \cup {"click"}
               /\ ~tipExists' => ~t'.show /\ t'.timer = "none" /\ t'.wait = <<>>
               /\ tipMisuse' \cap Unparted = {} => PartsHold(t') /\ LeavesHold(t')
               /\ tipMisuse' \cap Unkept = {} => ReasonsHold(t'))
BY DEF TipInv, Tips, PartsHold, LeavesHold, ReasonsHold, Parts, Pends, Reasons, Unparted,
       Unkept, TipType, TipNotes

\* A task that leads to the tip U.
LEMMA TipDone ==
    ASSUME TipInv, NEW U \in Tips, Tooltip!Done(U),
           tipMisuse \cap Unparted = {} => PartsHold(U) /\ LeavesHold(U),
           tipMisuse \cap Unkept = {} => ReasonsHold(U),
           U.active \subseteq on' \cup {"click"}, on' \subseteq {"hover", "focus"},
           ~tipExists' => ~U.show /\ U.timer = "none" /\ U.wait = <<>>
    PROVE  TipInv'
<1> DEFINE V == [U EXCEPT !.note = {}]
<1>1. t' = V /\ tipMisuse' = tipMisuse \cup U.note /\ tipConfig' = tipConfig
  BY DEF Tooltip!Done
<1>2. U \in TipType /\ U.popper <= U.made /\ U.alive \subseteq 1..U.made
  BY DEF Tips
<1>3. V \in TipType /\ V.active = U.active /\ V.note = {} /\ V.show = U.show
      /\ V.fade = U.fade /\ V.inDom = U.inDom /\ V.described = U.described
      /\ V.popper = U.popper /\ V.alive = U.alive /\ V.wait = U.wait /\ V.made = U.made
      /\ V.hover = U.hover /\ V.timer = U.timer
  BY <1>2 DEF TipType
<1> HIDE DEF V
<1>4. V \in Tips
  BY <1>2, <1>3 DEF Tips
<1>5. Pends(V, "hidden") = Pends(U, "hidden")
  BY <1>3 DEF Pends
<1>6. ASSUME tipMisuse' \cap Unparted = {} PROVE PartsHold(V) /\ LeavesHold(V)
  <2>1. PartsHold(U) /\ LeavesHold(U) /\ U.note \cap Unparted = {}
    BY <1>1, <1>6
  <2>2. Parts(U)
    BY <2>1 DEF PartsHold
  <2>3. Parts(V)
    BY <1>3, <1>5, <2>2 DEF Parts
  <2> QED
    BY <1>3, <1>5, <2>1, <2>3 DEF PartsHold, LeavesHold
<1>7. ASSUME tipMisuse' \cap Unkept = {} PROVE ReasonsHold(V)
  <2>1. ReasonsHold(U) /\ U.note \cap Unkept = {}
    BY <1>1, <1>7
  <2> QED
    BY <1>3, <1>5, <2>1 DEF ReasonsHold, Reasons
<1>8. tipConfig \in TooltipConfigs
  BY DEF TipInv
<1> QED
  BY <1>1, <1>3, <1>4, <1>6, <1>7, <1>8, TipInvPrimed

LEMMA EnterTip ==
    ASSUME TipInv, NEW no \in BOOLEAN, NEW trigger \in {"hover", "focus"},
           Tooltip!mouseenter(trigger, no)
    PROVE  TipInv'
<1> DEFINE U == Tooltip!_enter(t, {trigger}, no)
<1>1. /\ tipExists /\ on' = on \cup {trigger} /\ Tooltip!Done(U)
      /\ tipExists' = tipExists
  BY DEF Tooltip!mouseenter
<1>2. t \in Tips /\ {trigger} \in SUBSET {"hover", "focus", "click"} /\ t.active \cup {trigger} # {}
      /\ tipConfig \in TooltipConfigs
  BY DEF TipInv
<1> HIDE DEF U
<1>3. /\ U \in Tips /\ t.note \subseteq U.note
      /\ U.active \subseteq t.active \cup {trigger}
      /\ ReasonsHold(t) /\ t.active \cup {trigger} # {} => ReasonsHold(U)
      /\ PartsHold(t) /\ LeavesHold(t) => PartsHold(U) /\ LeavesHold(U)
  BY <1>2, TipEnter DEF U
<1>4. U.active \subseteq on' \cup {"click"} /\ on' \subseteq {"hover", "focus"}
  BY <1>1, <1>3 DEF TipInv
<1> QED
  BY <1>1, <1>2, <1>3, <1>4, TipDone DEF TipInv

LEMMA LeaveTip ==
    ASSUME TipInv, NEW no \in BOOLEAN, NEW trigger \in {"hover", "focus"},
           Tooltip!mouseleave(trigger, no)
    PROVE  TipInv'
<1> DEFINE U == Tooltip!_leave(t, {trigger}, no)
<1>1. /\ tipExists /\ on' = on \ {trigger} /\ Tooltip!Done(U)
      /\ tipExists' = tipExists
  BY DEF Tooltip!mouseleave
<1>2. t \in Tips /\ {trigger} \in SUBSET {"hover", "focus", "click"} /\ t.note = {}
  BY DEF TipInv
<1> HIDE DEF U
<1>3. /\ U \in Tips /\ U.active \subseteq t.active \ {trigger}
      /\ (t.hover = "out" => t.timer = "hide") => ReasonsHold(U)
      /\ PartsHold(t) => PartsHold(U)
      /\ PartsHold(t) /\ LeavesHold(t) => LeavesHold(U)
  BY <1>2, TipLeave DEF U
<1>4. U.active \subseteq on' \cup {"click"} /\ on' \subseteq {"hover", "focus"}
  BY <1>1, <1>3 DEF TipInv
<1>5. tipMisuse \cap Unkept = {} => ReasonsHold(U)
  BY <1>2, <1>3 DEF TipInv, ReasonsHold, Reasons
<1> QED
  BY <1>1, <1>3, <1>4, <1>5, TipDone DEF TipInv

LEMMA ClickTip ==
    ASSUME TipInv, NEW no \in BOOLEAN, Tooltip!click(no)
    PROVE  TipInv'
<1> DEFINE T == [t EXCEPT !.active = IF "click" \in @ THEN @ \ {"click"} ELSE @ \cup {"click"}]
           U == IF ~t.enabled THEN t
                ELSE IF T.active # {} THEN Tooltip!_enter(T, {}, no)
                ELSE Tooltip!_leave(T, {}, no)
<1>1. /\ tipExists /\ on' = on /\ Tooltip!Done(U) /\ tipExists' = tipExists
  BY DEF Tooltip!click
<1>2. t \in Tips /\ t \in TipType /\ t.note = {} /\ tipConfig \in TooltipConfigs
      /\ t.popper <= t.made /\ t.alive \subseteq 1..t.made
  BY DEF TipInv, Tips
<1>3. T \in TipType /\ T.note = t.note /\ T.show = t.show
      /\ T.fade = t.fade /\ T.inDom = t.inDom /\ T.described = t.described
      /\ T.popper = t.popper /\ T.alive = t.alive /\ T.wait = t.wait /\ T.made = t.made
      /\ T.hover = t.hover /\ T.timer = t.timer
      /\ T.active \subseteq t.active \cup {"click"}
  BY <1>2 DEF TipType
<1> HIDE DEF T
<1>4. T \in Tips
  BY <1>2, <1>3 DEF Tips
<1>5. /\ PartsHold(t) <=> PartsHold(T)
      /\ LeavesHold(t) <=> LeavesHold(T)
      /\ Pends(t, "hidden") <=> Pends(T, "hidden")
  BY <1>2, <1>3, <1>4, TipSame
<1>6. {} \in SUBSET {"hover", "focus", "click"}
  OBVIOUS
<1>7. CASE ~t.enabled
  <2>1. U = t
    BY <1>7
  <2> HIDE DEF U
  <2> QED
    BY <1>1, <1>2, <2>1, TipDone DEF TipInv
<1>8. CASE t.enabled /\ T.active # {}
  <2>1. U = Tooltip!_enter(T, {}, no)
    BY <1>8
  <2> HIDE DEF U
  <2>2. /\ U \in Tips /\ U.active \subseteq T.active \cup {}
        /\ ReasonsHold(T) /\ T.active \cup {} # {} => ReasonsHold(U)
        /\ PartsHold(T) /\ LeavesHold(T) => PartsHold(U) /\ LeavesHold(U)
    BY <1>2, <1>4, <1>6, <2>1, TipEnter
  <2>3. ReasonsHold(t) => ReasonsHold(T)
    BY <1>2, <1>3, <1>8 DEF ReasonsHold, Reasons
  <2>4. T.active \cup {} # {} /\ U.active \subseteq on' \cup {"click"}
    BY <1>1, <1>3, <1>8, <2>2 DEF TipInv
  <2> QED
    BY <1>1, <1>5, <2>2, <2>3, <2>4, TipDone DEF TipInv
<1>9. CASE t.enabled /\ T.active = {}
  <2>1. U = Tooltip!_leave(T, {}, no)
    BY <1>9
  <2> HIDE DEF U
  <2>2. /\ U \in Tips /\ T.note \subseteq U.note /\ U.active \subseteq T.active
        /\ (T.hover = "out" => T.timer = "hide") => ReasonsHold(U)
        /\ PartsHold(T) => PartsHold(U)
        /\ PartsHold(T) /\ LeavesHold(T) => LeavesHold(U)
    BY <1>4, <2>1, TipLeaveNone
  <2>3. tipMisuse \cap Unkept = {} => ReasonsHold(U)
    BY <1>2, <1>3, <2>2 DEF TipInv, ReasonsHold, Reasons
  <2>4. U.active \subseteq on' \cup {"click"}
    BY <1>9, <2>2
  <2> QED
    BY <1>1, <1>5, <2>2, <2>3, <2>4, TipDone DEF TipInv
<1> QED
  BY <1>7, <1>8, <1>9

\* hide, by a script or by a modal.
LEMMA HideTip ==
    ASSUME TipInv, NEW no \in BOOLEAN, Tooltip!Done(Tooltip!hide(t, no)),
           tipExists, UNCHANGED <<tipExists, on>>
    PROVE  TipInv'
<1> DEFINE U == Tooltip!hide(t, no)
<1>1. t \in Tips
  BY DEF TipInv
<1>2. Tooltip!Done(U)
  OBVIOUS
<1> HIDE DEF U
<1>3. /\ U \in Tips /\ U.active \subseteq t.active /\ ReasonsHold(U)
      /\ PartsHold(t) => PartsHold(U)
      /\ PartsHold(t) /\ LeavesHold(t) => LeavesHold(U)
  BY <1>1, TipHide DEF U
<1> QED
  BY <1>2, <1>3, TipDone DEF TipInv

\* A script shows a tip.
LEMMA ScriptTip ==
    ASSUME TipInv, NEW T \in Tips, T.active \subseteq t.active,
           PartsHold(t) /\ LeavesHold(t) => PartsHold(T) /\ LeavesHold(T),
           Tooltip!Done([T EXCEPT !.note = @ \cup {"scripted"}]),
           tipExists, UNCHANGED <<tipExists, on>>
    PROVE  TipInv'
<1> DEFINE U == [T EXCEPT !.note = @ \cup {"scripted"}]
<1>1. T \in TipType /\ T.popper <= T.made /\ T.alive \subseteq 1..T.made
  BY DEF Tips
<1>2. U \in TipType /\ U.active = T.active /\ U.note = T.note \cup {"scripted"}
      /\ U.show = T.show /\ U.fade = T.fade /\ U.inDom = T.inDom /\ U.described = T.described
      /\ U.popper = T.popper /\ U.alive = T.alive /\ U.wait = T.wait /\ U.made = T.made
  BY <1>1 DEF TipType, TipNotes
<1>3. Tooltip!Done(U)
  OBVIOUS
<1> HIDE DEF U
<1>4. U \in Tips /\ Pends(U, "hidden") = Pends(T, "hidden")
  BY <1>1, <1>2 DEF Tips, Pends
<1>5. ReasonsHold(U)
  BY <1>2 DEF ReasonsHold, Unkept
<1>6. Parts(T) => Parts(U)
  BY <1>2, <1>4 DEF Parts
<1>7. (PartsHold(T) => PartsHold(U)) /\ (LeavesHold(T) => LeavesHold(U))
  BY <1>2, <1>4, <1>6 DEF PartsHold, LeavesHold, Unparted
<1> QED
  BY <1>2, <1>3, <1>4, <1>5, <1>7, TipDone DEF TipInv

LEMMA CallTip ==
    ASSUME TipInv, NEW no \in BOOLEAN, NEW call \in Tooltip!Calls, Tooltip!Call(call, no)
    PROVE  TipInv'
<1>1. /\ tipExists /\ UNCHANGED <<tipExists, on>> /\ t \in Tips /\ t \in TipType
      /\ t.note = {} /\ tipConfig \in TooltipConfigs
      /\ t.popper <= t.made /\ t.alive \subseteq 1..t.made
  BY DEF Tooltip!Call, TipInv, Tips
<1>2. {} \in SUBSET {"hover", "focus", "click"}
  OBVIOUS
<1>3. CASE call = "show"
  <2> DEFINE U == Tooltip!show(t, no)
  <2>1. Tooltip!Done([U EXCEPT !.note = @ \cup {"scripted"}])
    BY <1>3 DEF Tooltip!Call
  <2> HIDE DEF U
  <2>2. /\ U \in Tips /\ U.active \subseteq t.active
        /\ PartsHold(t) /\ LeavesHold(t) => PartsHold(U) /\ LeavesHold(U)
    BY <1>1, TipShow DEF U
  <2> QED
    BY <1>1, <2>1, <2>2, ScriptTip
<1>4. CASE call = "hide"
  <2>1. Tooltip!Done(Tooltip!hide(t, no))
    BY <1>4 DEF Tooltip!Call
  <2> QED
    BY <1>1, <2>1, HideTip
<1>5. CASE call = "toggle"
  <2>1. CASE ~t.enabled
    <3>1. Tooltip!Done(t)
      BY <1>5, <2>1 DEF Tooltip!Call
    <3> QED
      BY <1>1, <3>1, TipDone DEF TipInv
  <2>2. CASE t.enabled /\ t.show
    <3> DEFINE U == Tooltip!_leave(t, {}, no)
    <3>1. Tooltip!Done(U)
      BY <1>5, <2>2 DEF Tooltip!Call
    <3> HIDE DEF U
    <3>2. /\ U \in Tips /\ U.active \subseteq t.active
          /\ (t.hover = "out" => t.timer = "hide") => ReasonsHold(U)
          /\ PartsHold(t) => PartsHold(U)
          /\ PartsHold(t) /\ LeavesHold(t) => LeavesHold(U)
      BY <1>1, TipLeaveNone DEF U
    <3>3. tipMisuse \cap Unkept = {} => ReasonsHold(U)
      BY <1>1, <3>2 DEF TipInv, ReasonsHold, Reasons
    <3> QED
      BY <1>1, <3>1, <3>2, <3>3, TipDone DEF TipInv
  <2>3. CASE t.enabled /\ ~t.show
    <3> DEFINE U == Tooltip!_enter(t, {}, no)
    <3>1. Tooltip!Done([U EXCEPT !.note = @ \cup {"scripted"}])
      BY <1>5, <2>3 DEF Tooltip!Call
    <3> HIDE DEF U
    <3>2. /\ U \in Tips /\ U.active \subseteq t.active \cup {}
          /\ PartsHold(t) /\ LeavesHold(t) => PartsHold(U) /\ LeavesHold(U)
      BY <1>1, <1>2, TipEnter DEF U
    <3>3. U.active \subseteq t.active
      BY <3>2
    <3> QED
      BY <1>1, <3>1, <3>2, <3>3, ScriptTip
  <2> QED
    BY <2>1, <2>2, <2>3
<1>6. CASE call \in {"enable", "disable", "toggleEnabled"}
  <2>1. PICK b \in BOOLEAN : Tooltip!Done([t EXCEPT !.enabled = b])
    <3>1. TRUE \in BOOLEAN /\ FALSE \in BOOLEAN /\ (~t.enabled) \in BOOLEAN
      OBVIOUS
    <3>2. CASE call = "enable"
      <4>1. Tooltip!Done([t EXCEPT !.enabled = TRUE])
        BY <3>2, Zenon DEF Tooltip!Call
      <4> QED
        BY <3>1, <4>1, Zenon
    <3>3. CASE call = "disable"
      <4>1. Tooltip!Done([t EXCEPT !.enabled = FALSE])
        BY <3>3, Zenon DEF Tooltip!Call
      <4> QED
        BY <3>1, <4>1, Zenon
    <3>4. CASE call = "toggleEnabled"
      <4>1. Tooltip!Done([t EXCEPT !.enabled = ~t.enabled])
        BY <3>4, Zenon DEF Tooltip!Call
      <4> QED
        BY <3>1, <4>1, Zenon
    <3> QED
      BY <1>6, <3>2, <3>3, <3>4
  <2> DEFINE U == [t EXCEPT !.enabled = b]
  <2>2. U \in TipType /\ U.active = t.active /\ U.note = t.note /\ U.show = t.show
        /\ U.fade = t.fade /\ U.inDom = t.inDom /\ U.described = t.described
        /\ U.popper = t.popper /\ U.alive = t.alive /\ U.wait = t.wait /\ U.made = t.made
        /\ U.hover = t.hover /\ U.timer = t.timer
    BY <1>1 DEF TipType
  <2>3. Tooltip!Done(U)
    BY <2>1
  <2> HIDE DEF U
  <2>4. U \in Tips
    BY <1>1, <2>2 DEF Tips
  <2>5. /\ PartsHold(t) <=> PartsHold(U)
        /\ LeavesHold(t) <=> LeavesHold(U)
        /\ Pends(t, "hidden") <=> Pends(U, "hidden")
    BY <1>1, <2>2, <2>4, TipSame
  <2>6. ReasonsHold(t) => ReasonsHold(U)
    BY <2>2, <2>5 DEF ReasonsHold, Reasons
  <2> QED
    BY <1>1, <2>2, <2>3, <2>4, <2>5, <2>6, TipDone DEF TipInv
<1> QED
  BY <1>3, <1>4, <1>5, <1>6 DEF Tooltip!Calls

LEMMA DisposeTip == TipInv /\ Tooltip!dispose => TipInv'
<1> SUFFICES ASSUME TipInv, Tooltip!dispose PROVE TipInv'
  OBVIOUS
<1>1. PICK yes \in BOOLEAN, no \in BOOLEAN : yes = TRUE /\ no = FALSE
  OBVIOUS
<1> DEFINE F == [hover |-> "", active |-> {}, timer |-> "none", enabled |-> yes,
                 show |-> no, fade |-> no, inDom |-> no, described |-> no,
                 popper |-> 0, alive |-> {}, made |-> 0, wait |-> <<>>, note |-> {}]
           U == [F EXCEPT !.described = t.described, !.made = t.made,
                          !.alive = t.alive \ {t.popper}, !.note = {"disposed"}]
<1>2. Tooltip!Done(U) /\ ~tipExists' /\ on' = on
  <2>1. Tooltip!Fresh = F
    BY <1>1, Zenon DEF Tooltip!Fresh
  <2> HIDE DEF F
  <2> QED
    BY <2>1, Zenon DEF Tooltip!dispose
<1>3. t \in TipType /\ t.popper <= t.made /\ t.alive \subseteq 1..t.made /\ t.made \in Nat
      /\ t.alive \in SUBSET Nat /\ t.described \in BOOLEAN
  BY DEF TipInv, Tips, TipType
<1>4. <<>> \in Seq({"shown", "hidden"}) /\ {"disposed"} \in SUBSET TipNotes
      /\ {} \in SUBSET {"hover", "focus", "click"} /\ 0 \in Nat /\ {} \in SUBSET Nat
      /\ {} \in SUBSET TipNotes
  BY DEF TipNotes
<1>5. F \in TipType /\ F.popper = 0 /\ F.active = {} /\ F.hover = "" /\ F.timer = "none"
      /\ F.wait = <<>> /\ F.show = no /\ F.inDom = no
  BY <1>4 DEF TipType
<1> HIDE DEF F
<1>6. U \in TipType
  BY <1>3, <1>4, <1>5 DEF TipType
<1>7. U.popper = 0 /\ U.made = t.made /\ U.alive = t.alive \ {t.popper} /\ U.active = {}
      /\ U.note = {"disposed"} /\ U.hover = "" /\ U.timer = "none" /\ U.wait = <<>>
      /\ U.show = no /\ U.inDom = no
  BY <1>5 DEF TipType
<1> HIDE DEF U
<1>8. U \in Tips
  <2>1. 0 <= t.made
    <3>1. t.made \in Nat
      BY <1>3
    <3> QED
      BY <3>1
  <2>2. U.alive \subseteq 1..U.made
    BY <1>3, <1>7, Zenon
  <2> QED
    BY <1>6, <1>7, <2>1, <2>2 DEF Tips
<1>9. PartsHold(U) /\ LeavesHold(U)
  BY <1>7 DEF PartsHold, LeavesHold, Unparted
<1>10. ReasonsHold(U)
  BY <1>1, <1>7 DEF ReasonsHold, Reasons
<1> QED
  BY <1>1, <1>2, <1>7, <1>8, <1>9, <1>10, TipDone DEF TipInv

LEMMA TimeoutTip ==
    ASSUME TipInv, NEW no \in BOOLEAN, Tooltip!Timeout(no)
    PROVE  TipInv'
<1> DEFINE T == [t EXCEPT !.timer = "none"]
           U == CASE t.timer = "show" -> IF t.hover = "show" THEN Tooltip!show(T, no) ELSE T
                  [] t.timer = "hide" -> IF t.hover = "out" THEN Tooltip!hide(T, no) ELSE T
<1>1. t.timer # "none" /\ Tooltip!Done(U) /\ UNCHANGED <<tipExists, on>>
  BY DEF Tooltip!Timeout
<1>2. t \in Tips /\ t \in TipType /\ t.popper <= t.made /\ t.alive \subseteq 1..t.made
      /\ t.timer \in {"show", "hide"} /\ tipExists /\ tipConfig \in TooltipConfigs /\ t.note = {}
  BY <1>1 DEF TipInv, Tips, TipType
<1>3. T \in TipType /\ T.note = t.note /\ T.show = t.show /\ T.active = t.active
      /\ T.fade = t.fade /\ T.inDom = t.inDom /\ T.described = t.described
      /\ T.popper = t.popper /\ T.alive = t.alive /\ T.wait = t.wait /\ T.made = t.made
      /\ T.hover = t.hover /\ T.timer = "none"
  BY <1>2 DEF TipType
<1> HIDE DEF T
<1>4. T \in Tips
  BY <1>2, <1>3 DEF Tips
<1>5. /\ PartsHold(t) <=> PartsHold(T)
      /\ LeavesHold(t) <=> LeavesHold(T)
      /\ Pends(t, "hidden") <=> Pends(T, "hidden")
  BY <1>2, <1>3, <1>4, TipSame
<1>6. CASE t.timer = "show" /\ t.hover = "show"
  <2>1. U = Tooltip!show(T, no)
    BY <1>6
  <2> HIDE DEF U
  <2>2. /\ U \in Tips /\ U.active \subseteq T.active
        /\ ReasonsHold(T) /\ T.active # {} => ReasonsHold(U)
        /\ PartsHold(T) /\ LeavesHold(T) => PartsHold(U) /\ LeavesHold(U)
    BY <1>2, <1>4, <2>1, TipShow
  <2>3. tipMisuse \cap Unkept = {} => ReasonsHold(T) /\ T.active # {}
    <3> SUFFICES ASSUME tipMisuse \cap Unkept = {} PROVE ReasonsHold(T) /\ T.active # {}
      OBVIOUS
    <3>1. ReasonsHold(t)
      BY DEF TipInv
    <3>2. t.active # {}
      BY <1>2, <1>6, <3>1 DEF ReasonsHold, Reasons
    <3> QED
      BY <1>3, <1>6, <3>2 DEF ReasonsHold, Reasons
  <2> QED
    BY <1>1, <1>2, <1>3, <1>5, <2>2, <2>3, TipDone DEF TipInv
<1>7. CASE t.timer = "hide" /\ t.hover = "out"
  <2>1. U = Tooltip!hide(T, no)
    BY <1>7
  <2> HIDE DEF U
  <2>2. /\ U \in Tips /\ U.active \subseteq T.active /\ ReasonsHold(U)
        /\ PartsHold(T) => PartsHold(U)
        /\ PartsHold(T) /\ LeavesHold(T) => LeavesHold(U)
    BY <1>4, <2>1, TipHide
  <2> QED
    BY <1>1, <1>2, <1>3, <1>5, <2>2, TipDone DEF TipInv
<1>8. CASE ~(t.timer = "show" /\ t.hover = "show") /\ ~(t.timer = "hide" /\ t.hover = "out")
  <2>1. U = T
    BY <1>2, <1>8
  <2> HIDE DEF U
  <2>2. tipMisuse \cap Unkept = {} => ReasonsHold(U)
    <3> SUFFICES ASSUME tipMisuse \cap Unkept = {} PROVE ReasonsHold(T)
      BY <2>1
    <3>1. ReasonsHold(t)
      BY DEF TipInv
    <3>2. Reasons(t) /\ (t.inDom => t.active # {} \/ t.hover = "out" \/ Pends(t, "hidden"))
      BY <1>2, <3>1 DEF ReasonsHold
    <3>3. t.hover # "out"
      BY <1>2, <1>8, <3>2 DEF Reasons
    <3> QED
      BY <1>3, <1>5, <3>2, <3>3 DEF ReasonsHold, Reasons
  <2> QED
    BY <1>1, <1>2, <1>3, <1>4, <1>5, <2>1, <2>2, TipDone DEF TipInv
<1> QED
  BY <1>2, <1>6, <1>7, <1>8

\* The callbacks that wait have results, one after the other.
LEMMA TipResults ==
    ASSUME TipInv, NEW no \in BOOLEAN
    PROVE  \E g \in [0..Len(t.wait) -> Tips] :
              /\ g[0] = [t EXCEPT !.wait = <<>>]
              /\ \A k \in 1..Len(t.wait) :
                    g[k] = IF t.wait[k] = "shown" THEN Tooltip!Shown(g[k - 1], no)
                           ELSE Tooltip!Hidden(g[k - 1])
<1> DEFINE n == Len(t.wait)
           a == [t EXCEPT !.wait = <<>>]
           Run(k, T) == IF t.wait[k] = "shown" THEN Tooltip!Shown(T, no) ELSE Tooltip!Hidden(T)
<1>1. n \in Nat /\ a \in Tips
  <2>1. t \in TipType /\ <<>> \in Seq({"shown", "hidden"})
        /\ t.popper <= t.made /\ t.alive \subseteq 1..t.made
    BY DEF TipInv, Tips
  <2>2. a \in TipType /\ a.popper = t.popper /\ a.made = t.made /\ a.alive = t.alive
    BY <2>1 DEF TipType
  <2>3. n \in Nat
    BY <2>1, TipWaits
  <2> HIDE DEF a
  <2> QED
    BY <2>1, <2>2, <2>3 DEF Tips
<1>2. \A k \in 1..n, T \in Tips : Run(k, T) \in Tips
  BY TipShown, TipHidden
<1> DEFINE step == [k \in 1..n |-> [T \in Tips |-> Run(k, T)]]
<1>3. step \in [1..n -> [Tips -> Tips]]
  BY <1>2
<1>4. PICK g \in [0..n -> Tips] :
         g[0] = a /\ \A k \in 1..n : g[k] = step[k][g[k - 1]]
  <2>1. n \in Nat
    BY <1>1
  <2>2. a \in Tips
    BY <1>1
  <2> HIDE DEF step, n, a, Run
  <2>3. Results(Tips, n, a, step) # {}
    BY <1>3, <2>1, <2>2, StepsHaveResults
  <2> QED
    BY <2>3 DEF Results
<1>5. \A k \in 1..n : g[k] = Run(k, g[k - 1])
  <2> SUFFICES ASSUME NEW k \in 1..n PROVE g[k] = Run(k, g[k - 1])
    OBVIOUS
  <2>1. g[k - 1] \in Tips
    BY <1>1
  <2> QED
    BY <1>4, <2>1
<1> QED
  BY <1>4, <1>5

\* They run one after the other.
LEMMA TipCallbacks ==
    ASSUME TipInv, NEW no \in BOOLEAN, Tooltip!TransitionEnd(no)
    PROVE  \E g \in [0..Len(t.wait) -> Tips] :
              /\ g[0] = [t EXCEPT !.wait = <<>>]
              /\ \A k \in 1..Len(t.wait) :
                    g[k] = IF t.wait[k] = "shown" THEN Tooltip!Shown(g[k - 1], no)
                           ELSE Tooltip!Hidden(g[k - 1])
              /\ Tooltip!Done(g[Len(t.wait)])
<1>1. PICK g \in [0..Len(t.wait) -> Tips] :
              /\ g[0] = [t EXCEPT !.wait = <<>>]
              /\ \A k \in 1..Len(t.wait) :
                    g[k] = IF t.wait[k] = "shown" THEN Tooltip!Shown(g[k - 1], no)
                           ELSE Tooltip!Hidden(g[k - 1])
  BY TipResults
<1>2. Len(t.wait) \in Nat
  BY TipWaits DEF TipInv, Tips
<1>3. g = [k \in 0..Len(t.wait) |->
              IF k = 0 THEN [t EXCEPT !.wait = <<>>]
              ELSE IF t.wait[k] = "shown" THEN Tooltip!Shown(g[k - 1], no)
              ELSE Tooltip!Hidden(g[k - 1])]
  <2>1. \A k \in 0..Len(t.wait) :
           g[k] = IF k = 0 THEN [t EXCEPT !.wait = <<>>]
                  ELSE IF t.wait[k] = "shown" THEN Tooltip!Shown(g[k - 1], no)
                  ELSE Tooltip!Hidden(g[k - 1])
    <3>1. \A k \in 0..Len(t.wait) : k = 0 \/ (k # 0 /\ k \in 1..Len(t.wait))
      BY <1>2
    <3> QED
      BY <1>1, <3>1
  <2>2. g = [k \in 0..Len(t.wait) |-> g[k]]
    OBVIOUS
  <2> QED
    BY <2>1, <2>2
<1> DEFINE after[k \in 0..Len(t.wait)] ==
              IF k = 0 THEN [t EXCEPT !.wait = <<>>]
              ELSE IF t.wait[k] = "shown" THEN Tooltip!Shown(after[k - 1], no)
              ELSE Tooltip!Hidden(after[k - 1])
<1>4. Tooltip!Done(after[Len(t.wait)])
  BY Zenon DEF Tooltip!TransitionEnd
<1>5. after = [k \in 0..Len(t.wait) |->
              IF k = 0 THEN [t EXCEPT !.wait = <<>>]
              ELSE IF t.wait[k] = "shown" THEN Tooltip!Shown(after[k - 1], no)
              ELSE Tooltip!Hidden(after[k - 1])]
  BY Zenon, <1>3
<1> HIDE DEF after
<1>6. /\ after[0] = [t EXCEPT !.wait = <<>>]
      /\ \A k \in 1..Len(t.wait) :
            after[k] = IF t.wait[k] = "shown" THEN Tooltip!Shown(after[k - 1], no)
                       ELSE Tooltip!Hidden(after[k - 1])
  <2>1. 0 \in 0..Len(t.wait) /\ \A k \in 1..Len(t.wait) : k \in 0..Len(t.wait) /\ k # 0
    BY <1>2
  <2> QED
    BY <1>5, <2>1
<1>7. \A k \in 0..Len(t.wait) : after[k] = g[k]
  <2> DEFINE S == {k \in 0..Len(t.wait) : after[k] = g[k]}
             id == [k \in 0..Len(t.wait) |-> k]
  <2>1. id[0] \in S
    BY <1>1, <1>2, <1>6
  <2>2. \A k \in 1..Len(t.wait) : id[k - 1] \in S => id[k] \in S
    BY <1>1, <1>2, <1>6
  <2>3. \A k \in 0..Len(t.wait) : id[k] \in S
    <3> HIDE DEF S, id
    <3> QED
      BY <1>2, <2>1, <2>2, StepsKeep
  <2> QED
    BY <2>3
<1>8. after[Len(t.wait)] = g[Len(t.wait)]
  <2>1. Len(t.wait) \in 0..Len(t.wait)
    BY <1>2
  <2> QED
    BY <1>7, <2>1
<1>9. Tooltip!Done(g[Len(t.wait)])
  BY <1>4, <1>8, Zenon
<1> QED
  BY <1>1, <1>9

\* The end of a transition: whatever the callbacks meet, one that hides the tip
\* has the last word, and a tip nothing keeps is removed or has a delay.
LEMMA EndTip ==
    ASSUME TipInv, NEW no \in BOOLEAN, Tooltip!TransitionEnd(no)
    PROVE  TipInv'
<1> DEFINE n == Len(t.wait)
           a == [t EXCEPT !.wait = <<>>]
<1>1. PICK g \in [0..n -> Tips] :
         /\ g[0] = a
         /\ \A k \in 1..n : g[k] = IF t.wait[k] = "shown" THEN Tooltip!Shown(g[k - 1], no)
                                   ELSE Tooltip!Hidden(g[k - 1])
         /\ Tooltip!Done(g[n])
  BY TipCallbacks
<1>2. /\ t \in Tips /\ t \in TipType /\ t.note = {} /\ t.wait # <<>> /\ UNCHANGED <<tipExists, on>>
      /\ t.popper <= t.made /\ t.alive \subseteq 1..t.made
  BY DEF TipInv, Tips, Tooltip!TransitionEnd
<1>3. t.wait \in Seq({"shown", "hidden"}) /\ n \in Nat
  BY <1>2, TipWaits
<1>4. n # 0 /\ n \in 1..n
  BY <1>2, <1>3
<1>5. a \in TipType /\ a.wait = <<>> /\ a.note = {} /\ a.show = t.show /\ a.active = t.active
      /\ a.fade = t.fade /\ a.inDom = t.inDom /\ a.described = t.described
      /\ a.popper = t.popper /\ a.alive = t.alive /\ a.made = t.made
      /\ a.hover = t.hover /\ a.timer = t.timer
  <2>1. <<>> \in Seq({"shown", "hidden"})
    OBVIOUS
  <2> QED
    BY <1>2, <2>1 DEF TipType
<1>6. \A what : ~Pends(a, what)
  <2>1. Len(a.wait) = 0
    <3>1. Len(<<>>) = 0
      OBVIOUS
    <3> QED
      BY <1>5, <3>1
  <2>2. 1..0 = {}
    OBVIOUS
  <2> QED
    BY <2>1, <2>2 DEF Pends
<1> HIDE DEF a, n
<1>7. \A k \in 1..n : k - 1 \in 0..n /\ g[k - 1] \in Tips /\ g[k] \in Tips
  BY <1>3
<1>8. g[n] \in Tips /\ g[0] \in Tips
  BY <1>3, <1>4, <1>7
<1>9. g[n].active \subseteq t.active
  <2> DEFINE S == {T \in Tips : T.active \subseteq t.active}
  <2>1. g[0] \in S
    BY <1>1, <1>5, <1>8
  <2>2. \A k \in 1..n : g[k - 1] \in S => g[k] \in S
    BY <1>1, <1>7, TipShown, TipHidden, SMTT(30)
  <2>3. \A k \in 0..n : g[k] \in S
    <3> HIDE DEF S
    <3> QED
      BY <1>3, <2>1, <2>2, StepsKeep
  <2> QED
    BY <1>3, <1>4, <2>3
<1>10. ASSUME PartsHold(t), LeavesHold(t) PROVE PartsHold(g[n]) /\ LeavesHold(g[n])
  <2>1. Parts(t) /\ \A k \in 1..n : t.wait[k] = "shown" => k = 1 /\ t.inDom
    BY <1>2, <1>10 DEF PartsHold, n
  <2>2. Parts(a)
    BY <1>5, <1>6, <2>1 DEF Parts
  <2>3. CASE Pends(t, "hidden")
    <3>1. ~t.show
      BY <2>1, <2>3 DEF Parts
    <3>2. t.wait[n] = "hidden"
      <4>1. PICK k \in 1..n : t.wait[k] = "hidden"
        BY <2>3 DEF Pends, n
      <4>2. t.wait[n] \in {"shown", "hidden"}
        BY <1>3, <1>4 DEF n
      <4>3. CASE n = 1
        BY <1>3, <4>1, <4>3
      <4>4. CASE n # 1
        BY <1>4, <2>1, <4>2, <4>4
      <4> QED
        BY <4>3, <4>4
    <3> DEFINE S == {T \in Tips : \/ T.note \cap Unparted # {}
                                  \/ ~T.show /\ ~Pends(T, "shown") /\ Parts(T)}
    <3>3. g[0] \in S
      BY <1>1, <1>5, <1>6, <1>8, <2>2, <3>1
    <3>4. ASSUME NEW k \in 1..n, g[k - 1] \in S PROVE g[k] \in S
      <4>1. g[k - 1] \in Tips /\ g[k] \in Tips
            /\ \/ g[k - 1].note \cap Unparted # {}
               \/ ~g[k - 1].show /\ ~Pends(g[k - 1], "shown") /\ Parts(g[k - 1])
        BY <1>7, <3>4
      <4> HIDE DEF S
      <4>2. CASE t.wait[k] = "shown"
        <5>1. g[k] = Tooltip!Shown(g[k - 1], no)
          BY <1>1, <4>2
        <5>2. /\ g[k - 1].note \subseteq g[k].note
              /\ \/ g[k].note \cap Unparted # {}
                 \/ /\ ~g[k - 1].show => ~g[k].show
                    /\ ~Pends(g[k - 1], "shown") => ~Pends(g[k], "shown")
                    /\ ~Pends(g[k - 1], "shown") /\ Parts(g[k - 1]) => Parts(g[k])
          BY <4>1, <5>1, TipShown
        <5> QED
          BY <4>1, <5>2 DEF S
      <4>3. CASE t.wait[k] # "shown"
        <5>1. g[k] = Tooltip!Hidden(g[k - 1])
          BY <1>1, <4>3
        <5>2. /\ g[k - 1].note \subseteq g[k].note /\ g[k].show = g[k - 1].show
              /\ g[k].wait = g[k - 1].wait /\ g[k].fade = g[k - 1].fade
              /\ ~g[k].described /\ g[k].alive = g[k - 1].alive \ {g[k - 1].popper}
              /\ (g[k].inDom => "wanted" \in g[k].note)
          BY <4>1, <5>1, TipHidden
        <5>3. SUFFICES ASSUME g[k].note \cap Unparted = {}
                       PROVE  ~g[k].show /\ ~Pends(g[k], "shown") /\ Parts(g[k])
          BY <4>1 DEF S
        <5>4. ~g[k - 1].show /\ ~Pends(g[k - 1], "shown") /\ Parts(g[k - 1])
          BY <4>1, <5>2, <5>3
        <5>5. ~g[k].show /\ ~Pends(g[k], "shown")
          BY <5>2, <5>4 DEF Pends
        <5>6. ~g[k].inDom
          BY <5>2, <5>3 DEF Unparted
        <5>7. g[k].alive = {}
          BY <5>2, <5>4 DEF Parts
        <5>8. g[k].described = g[k].inDom
          <6>1. g[k].described \in BOOLEAN /\ g[k].inDom \in BOOLEAN
            BY <4>1 DEF Tips, TipType
          <6> QED
            BY <5>2, <5>6, <6>1
        <5>9. g[k].wait # <<>> => g[k].fade
          BY <5>2, <5>4 DEF Parts
        <5> QED
          BY <5>5, <5>6, <5>7, <5>8, <5>9 DEF Parts
      <4> QED
        BY <4>2, <4>3
    <3>5. \A k \in 0..n : g[k] \in S
      <4> HIDE DEF S
      <4> QED
        BY <1>3, <3>3, <3>4, StepsKeep
    <3>6. n \in 0..n /\ n - 1 \in 0..n
      BY <1>3, <1>4
    <3>7. g[n].inDom => "wanted" \in g[n].note
      <4>1. g[n] = Tooltip!Hidden(g[n - 1])
        BY <1>1, <1>4, <3>2
      <4> QED
        BY <1>4, <1>7, <4>1, TipHidden
    <3>8. \/ g[n].note \cap Unparted # {}
          \/ ~Pends(g[n], "shown") /\ Parts(g[n])
      BY <3>5, <3>6
    <3>9. PartsHold(g[n])
      BY <3>8 DEF PartsHold, Pends
    <3>10. LeavesHold(g[n])
      BY <3>7 DEF LeavesHold, Unparted
    <3> QED
      BY <3>9, <3>10
  <2>4. CASE ~Pends(t, "hidden")
    <3>1. n = 1 /\ t.wait[1] = "shown"
      <4>1. \A k \in 1..n : t.wait[k] \in {"shown", "hidden"} /\ t.wait[k] # "hidden"
        BY <1>3, <2>4 DEF Pends, n
      <4>2. t.wait[n] = "shown"
        BY <1>4, <4>1
      <4> QED
        BY <1>4, <2>1, <4>2
    <3>2. g[n] = Tooltip!Shown(a, no)
      BY <1>1, <1>4, <3>1
    <3>3. t.inDom => t.show
      BY <1>2, <1>10, <2>4 DEF LeavesHold
    <3>4. PartsHold(a) /\ LeavesHold(a)
      <4>1. \A k \in 1..Len(a.wait) : a.wait[k] # "shown"
        BY <1>6 DEF Pends
      <4> QED
        BY <1>5, <2>2, <3>3, <4>1 DEF PartsHold, LeavesHold
    <3>5. a \in Tips
      BY <1>1, <1>8
    <3> QED
      BY <3>2, <3>4, <3>5, TipShown
  <2> QED
    BY <2>3, <2>4
<1>11. ASSUME ReasonsHold(t) PROVE ReasonsHold(g[n])
  <2> DEFINE Later(k) == \E j \in 1..n : j > k /\ t.wait[j] = "hidden"
             Fine(k) == g[k].note \cap Unkept = {} =>
                /\ Reasons(g[k])
                /\ g[k].inDom => \/ g[k].active # {} \/ g[k].hover = "out"
                                 \/ Pends(g[k], "hidden") \/ Later(k)
             S == {k \in 0..n : Fine(k)}
             id == [k \in 0..n |-> k]
  <2>1. id[0] \in S
    <3>1. Reasons(t) /\ (t.inDom => t.active # {} \/ t.hover = "out" \/ Pends(t, "hidden"))
      BY <1>2, <1>11 DEF ReasonsHold
    <3>2. Pends(t, "hidden") => Later(0)
      BY <1>3 DEF Pends, n
    <3>3. g[0] = a
      BY <1>1
    <3>4. Reasons(a) /\ (a.inDom => a.active # {} \/ a.hover = "out" \/ Later(0))
      BY <1>5, <3>1, <3>2 DEF Reasons
    <3>5. Fine(0)
      BY <3>3, <3>4
    <3>6. 0 \in 0..n
      BY <1>3
    <3> QED
      BY <3>5, <3>6
  <2>2. ASSUME NEW k \in 1..n, id[k - 1] \in S PROVE id[k] \in S
    <3>1. k \in 0..n /\ k - 1 \in 0..n
      BY <1>3
    <3>2. Fine(k - 1)
      BY <2>2, <3>1
    <3>3. g[k - 1] \in Tips
      BY <1>7
    <3>4. CASE t.wait[k] = "shown"
      <4>1. g[k] = Tooltip!Shown(g[k - 1], no)
        BY <1>1, <3>4
      <4>2. \/ ReasonsHold(g[k])
            \/ /\ g[k - 1].hover # "out" /\ g[k].hover = "null"
               /\ g[k].active = g[k - 1].active /\ g[k].inDom = g[k - 1].inDom
               /\ g[k].wait = g[k - 1].wait /\ g[k].note = g[k - 1].note
        BY <3>3, <4>1, TipShown
      <4>3. ReasonsHold(g[k]) => Fine(k)
        BY DEF ReasonsHold
      <4>4. ASSUME g[k - 1].hover # "out", g[k].hover = "null",
                   g[k].active = g[k - 1].active, g[k].inDom = g[k - 1].inDom,
                   g[k].wait = g[k - 1].wait, g[k].note = g[k - 1].note
            PROVE  Fine(k)
        <5>1. Later(k - 1) => Later(k)
          <6> SUFFICES ASSUME NEW j \in 1..n, j > k - 1, t.wait[j] = "hidden"
                       PROVE  Later(k)
            OBVIOUS
          <6>1. j # k
            BY <3>4
          <6>2. j > k
            BY <1>3, <6>1
          <6> QED
            BY <6>2
        <5>2. Pends(g[k], "hidden") = Pends(g[k - 1], "hidden")
          BY <4>4 DEF Pends
        <5>3. Reasons(g[k])
          BY <4>4 DEF Reasons
        <5> HIDE DEF Later
        <5> QED
          BY <3>2, <4>4, <5>1, <5>2, <5>3
      <4> HIDE DEF Fine
      <4>5. Fine(k)
        BY <4>2, <4>3, <4>4
      <4> QED
        BY <3>1, <4>5
    <3>5. CASE t.wait[k] # "shown"
      <4>1. g[k] = Tooltip!Hidden(g[k - 1])
        BY <1>1, <3>5
      <4>2. /\ g[k - 1].note \subseteq g[k].note
            /\ g[k].hover = g[k - 1].hover /\ g[k].active = g[k - 1].active
            /\ g[k].timer = g[k - 1].timer
            /\ (g[k].inDom => "wanted" \in g[k].note)
        BY <3>3, <4>1, TipHidden
      <4>3. ASSUME g[k].note \cap Unkept = {} PROVE Reasons(g[k]) /\ ~g[k].inDom
        <5>1. Reasons(g[k - 1])
          BY <3>2, <4>2, <4>3
        <5> QED
          BY <4>2, <4>3, <5>1 DEF Reasons, Unkept
      <4>4. Fine(k)
        BY <4>3
      <4> HIDE DEF Fine
      <4> QED
        BY <3>1, <4>4
    <3> QED
      BY <3>4, <3>5
  <2>3. \A k \in 0..n : id[k] \in S
    <3> HIDE DEF S, id
    <3> QED
      BY <1>3, <2>1, <2>2, StepsKeep
  <2>4. Fine(n)
    <3>1. n \in 0..n
      BY <1>3
    <3> HIDE DEF Fine
    <3> QED
      BY <2>3, <3>1
  <2>5. ~Later(n)
    BY <1>3
  <2> QED
    BY <2>4, <2>5 DEF ReasonsHold
<1>12. tipExists /\ on \subseteq {"hover", "focus"} /\ t.active \subseteq on \cup {"click"}
  BY <1>2 DEF TipInv
<1> QED
  BY <1>1, <1>2, <1>8, <1>9, <1>10, <1>11, <1>12, TipDone DEF TipInv

LEMMA NextTip == TipInv /\ [Tooltip!Next]_(Tooltip!vars) => TipInv'
<1> SUFFICES ASSUME TipInv, [Tooltip!Next]_(Tooltip!vars) PROVE TipInv'
  OBVIOUS
<1>1. CASE UNCHANGED Tooltip!vars
  <2>1. UNCHANGED <<tipConfig, tipExists, on, t, tipMisuse>>
    BY <1>1 DEF Tooltip!vars
  <2> QED
    BY <2>1, TipInvPrimed DEF TipInv
<1>2. ASSUME NEW no \in BOOLEAN, NEW trigger \in {"hover", "focus"},
             Tooltip!mouseenter(trigger, no) \/ Tooltip!mouseleave(trigger, no)
      PROVE  TipInv'
  BY <1>2, EnterTip, LeaveTip
<1>3. ASSUME NEW no \in BOOLEAN, Tooltip!ModalHides(no) PROVE TipInv'
  BY <1>3, HideTip DEF Tooltip!ModalHides
<1>4. ASSUME NEW no \in BOOLEAN, Tooltip!click(no) PROVE TipInv'
  BY <1>4, ClickTip
<1>5. ASSUME NEW no \in BOOLEAN, NEW call \in Tooltip!Calls, Tooltip!Call(call, no) PROVE TipInv'
  BY <1>5, CallTip
<1>6. ASSUME NEW no \in BOOLEAN, Tooltip!Timeout(no) \/ Tooltip!TransitionEnd(no) PROVE TipInv'
  BY <1>6, TimeoutTip, EndTip
<1> QED
  BY <1>1, <1>2, <1>3, <1>4, <1>5, <1>6, DisposeTip
     DEF Tooltip!Next, Tooltip!User, Tooltip!Browser

\* TipInv holds in every state.
THEOREM TipInvariance == Tooltip!Spec => []TipInv
BY InitTip, NextTip, PTL DEF Tooltip!Spec

\* However mouse, focus, clicks, scripts, delays and ends of transitions come, the
\* parts of a tip at rest agree, and without mouse, focus and click it is gone.
THEOREM TipsAgree == Tooltip!Spec => []TipIsConsistent
<1>1. TipInv => TipIsConsistent
  <2> SUFFICES ASSUME TipInv PROVE TipIsConsistent
    OBVIOUS
  <2>1. t \in TipType /\ t.popper <= t.made /\ t.alive \subseteq 1..t.made /\ t.note = {}
    BY DEF TipInv, Tips
  <2>2. t.popper \in 0..t.made
    <3>1. t.popper \in Nat /\ t.made \in Nat
      BY <2>1 DEF TipType
    <3> QED
      BY <2>1, <3>1
  <2>3. Tooltip!Range(t.wait) \subseteq {"shown", "hidden"}
    <3>1. t.wait \in Seq({"shown", "hidden"})
      BY <2>1, TipWaits
    <3> QED
      BY <3>1 DEF Tooltip!Range
  <2>4. Tooltip!TypeOK
    <3>1. t.hover \in {"", "show", "out", "null"} /\ t.active \subseteq {"hover", "focus", "click"}
          /\ t.timer \in {"none", "show", "hide"}
      BY <2>1 DEF TipType
    <3> QED
      BY <2>1, <2>2, <2>3, <3>1 DEF TipInv, Tooltip!TypeOK, Tooltip!Triggers
  <2>5. Tooltip!AtRest => t.wait = <<>> /\ t.timer = "none" /\ ~Pends(t, "hidden")
    <3>1. Len(<<>>) = 0 /\ 1..0 = {}
      OBVIOUS
    <3>2. t.wait = <<>> => ~Pends(t, "hidden")
      BY <3>1 DEF Pends
    <3> QED
      BY <3>2 DEF Tooltip!AtRest
  <2>6. Tooltip!PartsAgree
    <3> SUFFICES ASSUME Tooltip!AtRest, tipMisuse \cap {"reshown", "wanted", "fixed", "disposed"} = {}
                 PROVE  /\ t.show = t.inDom /\ t.inDom = t.described
                        /\ t.alive = IF t.show THEN {t.popper} ELSE {}
      BY DEF Tooltip!PartsAgree
    <3>1. PartsHold(t) /\ LeavesHold(t)
      BY DEF TipInv, Unparted
    <3>2. Parts(t) /\ (t.inDom => t.show)
      BY <2>1, <2>5, <3>1 DEF PartsHold, LeavesHold
    <3>3. t.show \in BOOLEAN /\ t.inDom \in BOOLEAN
      BY <2>1 DEF TipType
    <3> QED
      BY <3>2, <3>3 DEF Parts
  <2>7. Tooltip!NoTipStays
    <3> SUFFICES ASSUME Tooltip!AtRest, on = {}, "click" \notin t.active,
                        tipMisuse \cap {"scripted", "prevented", "wanted", "fixed"} = {}
                 PROVE  ~t.inDom
      BY DEF Tooltip!NoTipStays
    <3>1. ReasonsHold(t)
      BY DEF TipInv, Unkept
    <3>2. t.active = {}
      BY DEF TipInv
    <3> QED
      BY <2>1, <2>5, <3>1, <3>2 DEF ReasonsHold, Reasons
  <2> QED
    BY <2>4, <2>6, <2>7 DEF TipIsConsistent
<1> QED
  BY <1>1, TipInvariance, PTL
-----------------------------------------------------------------------------
(***************************************************************************)
(* Panels: CollapseProofs proves it for one page of panels, and what is    *)
(* assumed of the constants says it of the accordion and of the group.     *)
(***************************************************************************)

\* No panel is stuck in a transition, an accordion at rest shows one panel, and
\* the triggers of a group tell what is true (bootstrap.js:1257 to 1420).
THEOREM PanelsAgree == InAccordion!Spec /\ InGroup!Spec => []PanelsAreConsistent
<1>1. InAccordion!ConstantsAssumption /\ InGroup!ConstantsAssumption
  BY OptionsAssumption DEF OptionsAssumption
<1>2. /\ InAccordion!Spec => [](InAccordion!TypeOK /\ InAccordion!NeverStuck)
      /\ InAccordion!Spec => []InAccordion!OneOpen
  BY <1>1, InAccordion!PanelsNeverStick, InAccordion!OnePanelIsOpen
<1>3. /\ InGroup!Spec => [](InGroup!TypeOK /\ InGroup!NeverStuck)
      /\ InGroup!Spec => []InGroup!TriggersTellTheTruth
  BY <1>1, InGroup!PanelsNeverStick, InGroup!TriggersAreTrue
<1>4. /\ InAccordion!TypeOK /\ InAccordion!NeverStuck /\ InAccordion!OneOpen
      /\ InGroup!TypeOK /\ InGroup!NeverStuck /\ InGroup!TriggersTellTheTruth
      => PanelsAreConsistent
  BY DEF PanelsAreConsistent
<1> QED
  BY <1>2, <1>3, <1>4, PTL
=============================================================================
