--------------------------- MODULE TransitionEnd ---------------------------
(***************************************************************************)
(* Util of bootstrap.js for one element: complete is bound with one() to   *)
(* bsTransitionEnd, and transitionEndEmulator makes sure that the event    *)
(* comes: a timer of the length read from the element's style triggers it, *)
(* unless the registration's own flag says that it has come.  The browser  *)
(* may report an end earlier, later, several times (one per property), or  *)
(* never (the transition is cancelled).                                    *)
(***************************************************************************)
EXTENDS Integers, Sequences

CONSTANTS
    Callbacks,   \* the calls of one(...).emulateTransitionEnd(...)
    Styles       \* computed transition-duration and -delay, lists of times

ASSUME StyleAssumption ==
    Styles \subseteq [duration : Seq(Nat) \ {<<>>}, delay : Seq(Nat) \ {<<>>}]

VARIABLES
    now,         \* the time
    handlers,    \* the callbacks bound to the event and not yet run
    timer,       \* per callback: when its timer fires, or Off
    called,      \* the callbacks whose flag says that the event has come
    running,     \* a CSS transition of the element is running
    runs         \* history, per callback: how often it has run

transVars == <<now, handlers, timer, called, running, runs>>

Off == -1

TransInit ==
    /\ now = 0
    /\ handlers = {}
    /\ timer = [c \in Callbacks |-> Off]
    /\ called = {}
    /\ running = FALSE
    /\ runs = [c \in Callbacks |-> 0]

\* Mutant of getTransitionDurationFromElement: the last duration is taken.
getTransitionDurationFromElementLast(style) ==
    style.duration[Len(style.duration)] + Head(style.delay)

\* If multiple durations are defined, take the first; none and 0 are alike.
getTransitionDurationFromElement(style) == Head(style.duration) + Head(style.delay)

\* one(TRANSITION_END, c).emulateTransitionEnd(duration)
transitionEndEmulator(c, duration) ==
    /\ c \notin handlers \cup called
    /\ handlers' = handlers \cup {c}
    /\ timer' = [timer EXCEPT ![c] = now + duration]
    /\ running' = TRUE
    /\ UNCHANGED <<now, called, runs>>

\* Mutant of Dispatch: bound with on() and not with one().
DispatchOn ==
    /\ runs' = [c \in Callbacks |-> runs[c] + IF c \in handlers THEN 1 ELSE 0]
    /\ called' = called \cup handlers
    /\ UNCHANGED handlers

\* The event: what is bound runs, and each emulator's flag is set.
Dispatch ==
    /\ runs' = [c \in Callbacks |-> runs[c] + IF c \in handlers THEN 1 ELSE 0]
    /\ called' = called \cup handlers
    /\ handlers' = {}

\* The browser reports the end of one property, perhaps not of the last.
NaturalEnd ==
    /\ running
    /\ running' \in BOOLEAN
    /\ Dispatch
    /\ UNCHANGED <<now, timer>>

\* The transition is cancelled: no report.
Cancel ==
    /\ running
    /\ running' = FALSE
    /\ UNCHANGED <<now, handlers, timer, called, runs>>

Due(c) == timer[c] # Off /\ timer[c] <= now

\* Mutants of timeout: the flag is not looked at; it is looked at wrongly.
timeoutAlways(c) ==
    /\ Due(c)
    /\ timer' = [timer EXCEPT ![c] = Off]
    /\ Dispatch
    /\ UNCHANGED <<now, running>>

timeoutIfCalled(c) ==
    /\ Due(c)
    /\ timer' = [timer EXCEPT ![c] = Off]
    /\ IF c \in called THEN Dispatch ELSE UNCHANGED <<handlers, called, runs>>
    /\ UNCHANGED <<now, running>>

\* The emulator's timer: triggerTransitionEnd, unless c has been called.
timeout(c) ==
    /\ Due(c)
    /\ timer' = [timer EXCEPT ![c] = Off]
    /\ IF c \in called THEN UNCHANGED <<handlers, called, runs>> ELSE Dispatch
    /\ UNCHANGED <<now, running>>

Tick ==
    /\ now' = now + 1
    /\ UNCHANGED <<handlers, timer, called, running, runs>>

TransNext ==
    \/ \E c \in Callbacks :
          \/ \E s \in Styles : transitionEndEmulator(c, getTransitionDurationFromElement(s))
          \/ timeout(c)
    \/ NaturalEnd
    \/ Cancel
    \/ Tick

TransSpec == TransInit /\ [][TransNext]_transVars

\* Time goes on and the browser runs the timers that are due.
TransFairness ==
    /\ WF_transVars(Tick)
    /\ \A c \in Callbacks : WF_transVars(timeout(c))
-----------------------------------------------------------------------------
\* Types; a timer is never armed for longer than the first duration and the
\* first delay of a style say (bootstrap.js:171).
TransTypeOK ==
    /\ now \in Nat
    /\ handlers \subseteq Callbacks
    /\ timer \in [Callbacks -> Nat \cup {Off}]
    /\ \A c \in Callbacks : timer[c] # Off =>
          \E s \in Styles : timer[c] <= now + Head(s.duration) + Head(s.delay)
    /\ called \subseteq Callbacks
    /\ running \in BOOLEAN
    /\ runs \in [Callbacks -> Nat]

\* Whatever mixture of reports and timers an element gets, a callback waits
\* from its registration to its only run (one() and the emulator's flag,
\* bootstrap.js:107), and until then its timer is armed.
WaitsThenRunsOnce ==
    \A c \in Callbacks :
        /\ runs[c] = IF c \in called THEN 1 ELSE 0
        /\ c \in handlers => c \notin called /\ timer[c] # Off

\* Every callback that waits has its timer, and no callback runs twice.
EmulatorSound == TransTypeOK /\ WaitsThenRunsOnce

\* A timer that outlives its own transition does not end the next one: it runs
\* nothing if its own callback has run (bootstrap.js:111).
LateTimerIsHarmless ==
    [][\A c \in Callbacks :
          timer[c] # Off /\ timer'[c] = Off /\ runs[c] # 0 => runs' = runs]_transVars

\* What the plugins are written to: see Completions.
Contract == INSTANCE Completions WITH
    waiting <- handlers,
    ran <- called

\* The emulated event keeps the contract the plugins are written to, and what the
\* contract does not speak of, no timer of an earlier transition cuts a later one
\* short.
KeepsContract == Contract!FairSpec /\ LateTimerIsHarmless
=============================================================================
