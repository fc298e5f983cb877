# Verification of hellomantids

TLA+ models, TLC runs and TLAPS proofs for `hellomantids`, a C++ server built on
libMantids: a message board kept in MariaDB, a TLS web server whose pages call
it by RPC, a second TLS listener for remote agents, and a remote authentication
server that says who may do what.  libMantids itself (acceptors, FastRPC,
MethodsManager, Mutex_Shared, SQLConnector, LoginRPCClient, the JSON macros) is
not part of the repository: it is modelled from how `src/` uses it and marked
external.  The pages run JavaScript that the repository ships with them:
`progress.js`, and unminified copies of Bootstrap 4.3.1 (`bootstrap.js`) and of
Bootstrap with Popper.js 1.14 (`bootstrap.bundle.js`).  These are vendored, but
they are what moves in the browser, and most of the repository's lines; they are
modelled plugin by plugin.

Paths below are relative to `src/hellomantids/`; `bootstrap.js`,
`bootstrap.bundle.js` and `progress.js` are in `var/www/hellomantids/assets/js/`.

## 1. Inventory

### Parts, their state and their operations

| Part | Source | State | Operations |
|---|---|---|---|
| Startup | `src/main.cpp` | the globals set so far, the mode of `config.ini` | `_config` (read the configuration, start the DB), `_start` (login client, RPC listener, web server, static contents) |
| DB | `src/db/` | table `posts` and its counter (on the server), `statusOK`, the shared mutex, one connection | `start`, `initSchema`, `runLocalRPCMethod` dispatching `stats.getAdd1`, `stats.getMessages`, `control.createMessage`, `control.removeMessage` |
| Web server RPC | `src/webserverimpl.cpp` | the requests being served by the pool | `createWebServer`, `statMethods`, `controlMethods`, `rmtCaller` |
| RPC server | `src/rpcserverimpl.cpp` | the acceptor's threads, FastRPC's table of connected nodes | `createRPCListener`, `callbackOnRPCConnect`, `_callbackOnInitFailed`, `_callbackOnTimeOut`, `getHelloWorldMessage`, `_pingNotFound_` |
| Login RPC client | `src/loginrpcclientimpl.cpp` | its connection to the authentication server | six callbacks, which log |
| Configuration, globals | `src/config_localini.*`, `src/globals.*` | the property tree, pointers to the singletons | getters and setters |
| Page 1 | `var/www/hellomantids/page1.html` | the list each tab shows, calls on their way | load the list, add, remove, redraw on the answers |
| Other pages | `page2.html`, `login.html`, `resources.conf` | none of their own | add 1, log in, access rules |
| Transition end | `bootstrap.js:91-180` | callbacks waiting on an element, timers, the `called` flags | `transitionEndEmulator`, `getTransitionDurationFromElement`, `triggerTransitionEnd` |
| Modal | `bootstrap.js:2013-2620` | `_isShown`, `_isTransitioning`, backdrop, handlers, padding of the body | `show`, `hide`, `toggle`, `dispose`, keys, clicks |
| Collapse | `bootstrap.js:1130-1500` | classes of panels and triggers, `_isTransitioning` | `show`, `hide`, `toggle`, `dispose`, clicks |
| Carousel | `bootstrap.js:550-1110` | active item, interval, `_isPaused`, `_isSliding`, queued choices | `next`, `prev`, `to`, `pause`, `cycle`, mouse, touch, keys |
| Dropdown | `bootstrap.js:1500-2012` | open menus, `aria-expanded`, focus, Poppers | `toggle`, `show`, `hide`, `_clearMenus`, keys |
| Tab | `bootstrap.js:3920-4150` | active links and panes, fades | `show` |
| ScrollSpy | `bootstrap.js:3600-3910` | offsets, height, active target | `refresh`, `_process` |
| Toast | `bootstrap.js:4160-4400` | classes, `_timeout` | `show`, `hide`, `dispose` |
| Button, Alert | `bootstrap.js:380-545`, `215-375` | `active`/`checked`/`aria-pressed`; alerts in the document | `toggle`; `close` |
| Tooltip, Popover | `bootstrap.js:2690-3590` | the tip, `_hoverState`, `_activeTrigger`, `_timeout`, Popper | `show`, `hide`, `_enter`, `_leave`, `dispose` |
| Popper.js | `bootstrap.bundle.js:1515-4100` | the data object of an update, scheduled updates, scroll parents, the element's style | `update` and its modifiers, `scheduleUpdate`, `enable`/`disableEventListeners`, `destroy` |
| Progress bars | `progress.js` | value, colours, angles of two halves | `fillPercentage`, `redrawProgressBars` |

### How they interact

* A browser's `remote.stats` or `remote.control` runs in a thread of the web
  server's pool.  MethodsManager checks the attribute; `rmtCaller` compares the
  prefix of the method and calls class DB **in the same thread**, or blocks in
  FastRPC until a remote agent answers.
* All pool threads share `DB::mutex` (a readers-writer lock) and the one MariaDB
  connection behind it.
* An agent's connection has a thread of the acceptor, in `callbackOnRPCConnect`,
  for as long as it lasts; FastRPC files it under `AGENT.<common name>`.
* `_start` runs in the main thread while the threads it has started (login
  client, agents, browsers) are already running; they share `Globals`.
* A page's calls are asynchronous; their answers draw the list, ask for it again
  or warn.  A reload forgets the callbacks of the page before.
* The plugins share an element's classes and its transitions: each registers a
  callback with `one(TRANSITION_END)` and asks the emulator to trigger the event
  if the browser does not.  Tooltips and dropdowns are placed by a Popper;
  Carousel, Collapse, Tab and the rest are driven by clicks on `data-` attributes.
* The authentication server keeps the attributes `control` and `stats`; the
  program looks them up and adds them at each start.

### What is hard

* **Concurrency**: calls of several threads on one table and one connection; a
  list read row by row; a reconnecting agent against its own half-open
  connection; threads that start before `_start` has finished.
* **Failure**: a statement executed whose acknowledgement is lost; a result set
  lost half way; a crash between two steps and a restart on the same table; an
  `attribAdd` executed and unanswered, after which the program exits.
* **Ordering and staleness**: an attribute checked at admission and used after a
  wait for the lock; globals dereferenced by threads.
* **Timeouts**: remote calls, half-open peers, connections waiting for a thread.
* **Callbacks**: clicks, timers and ends of transitions of one element in any
  order; a timer that outlives its transition; a method called while the
  callback of the one before is still to come; an update debounced over frames
  and microtasks of a popper that is destroyed meanwhile.
* **Geometry**: modifiers that undo each other, half pixels, offsets relative to
  elements that scroll.
* **Numbers**: `uint32_t` wrap-around in `getAdd1`, payload fields of the wrong
  type, an exhausted id column.

### What makes each part correct

* DB: calls are atomic (linearizable); writers exclude everybody; ids are never
  reused; an acknowledged removal is final; every call returns.
* Web server: only `control` writes and only `stats` reads, whatever else runs;
  a row carries its author's name; every request is answered, and one that waits
  for an agent holds up no other.
* RPC server: the table of nodes is exact; a name stays with its connection;
  only holders of the key are served; a closed connection gives its thread back
  and the name of a peer that is gone comes free.
* Startup: nobody runs ahead of what it needs; browsers are let in only when the
  attributes exist; secrets are read from a private file; a failed start does
  not spoil the next one.
* Page 1: a click removes the row shown beside it or nothing; what a tab was told
  is in the lists it draws.
* Transition end: every callback runs once, after its registration, whatever the
  browser reports.
* Plugins: at rest classes, flags, attributes and handlers agree; nothing is
  blocked or stuck; the last choice of the visitor is what is shown in the end.
* Popper: at rest the popper is where the page as it is now wants it, and that is
  beside its reference, inside the boundaries where there is room; a destroyed
  one leaves nothing.
* Progress bars: colour, number and arc say the same.

## 2. Modules

```
BoardData ──┬── MessageBoard          (abstract: atomic calls)
            └── DB ──┬── MCDB
                     └── WebServer ──┬── ServerProofs
                                     └── MCWeb
RPCServer ──┬── MCRPC
            └── ServerProofs            (of DB, WebServer, RPCServer and Startup)
Startup ────┬── ServerProofs
            └── MCStartup
MessageBoard ── Page1 ──┬── Page1Proofs
                        └── MCPage1

Completions ══ TransitionEnd            (══ refinement)
Alert, TransitionEnd ── Overlays ──┬── OverlayProofs
   (Modal, Toast, Tooltip,         └── MCOverlays
    Collapse twice)
Collapse ── CollapseProofs

Progress ── Navigation ──┬── NavigationProofs
   (Carousel, Dropdown,  └── MCNavigation
    Tab, ScrollSpy, Button)

Popper ── Positioning ──┬── PopperProofs     (updates, elements, offsets)
   (PopperElements,     ├── PlacementProofs  (modifiers, style)
    Placement,          └── MCPopper
    PopperOffset)
PopperModifiers ── Placement

Induction ── CollapseProofs, OverlayProofs, NavigationProofs, PopperProofs,
             PlacementProofs
```

The lines are EXTENDS, the modules in parentheses are INSTANCEs.

**BoardData** holds the data: rows, method names, the JSON payload field a method
reads, replies.  A payload field is an abstract value; `AsString` and `AsUInt`
do what `JSON_ASSTRING` and `JSON_ASUINT` do (a default for what is missing or
of another type).  A reply keeps the JSON value and the `errorId` left in
`*error`: the closing block of `runLocalRPCMethod` makes it 0 in every branch.

**MessageBoard** is the contract: a call takes effect in one step between its
invocation and its return.  After an SQL error it promises less: a write that
answers false may have happened, a list may be a part of the table.

**DB** is class DB.  A call is cut where another thread can run:

| Action | Code |
|---|---|
| `runLocalRPCMethod` | the dispatch, db.cpp:84-93 |
| `methodNotFound` | db.cpp:95-113 |
| `getAdd1` | db_webdisplay.cpp:46-50 |
| `LockRW`, `LockRD` | the constructors of `Lock_RW`, `Lock_RD` |
| `createMessage`, `removeMessage` | `db.query` under the lock |
| `qSelect`, `step`, `stepEnd` | the SELECT and the loop over its rows |
| `Return` | the end of the scope, which releases the lock |
| `start`, `initSchema` | db.cpp:33-82 |
| `Crash`, `DropLink`, `RestoreLink`, `Query` | external: the process, the connection, the outcome of a statement (executed; executed and unacknowledged; not executed) |

The SELECT is modelled as a cursor that reads the live table, the weakest
reading of the connector: the list is consistent by the program's lock or not at
all.  A result set is lost when the connection is.  Assumed of the server:
strict SQL mode (a text longer than the column is an error, not cut), an
`AUTO_INCREMENT` counter that survives restarts (MariaDB 10.2.4 and later), and
no other program writing the table.

**WebServer** extends DB with the browser's requests: `Receive` (the attribute
check), `rejectPrefix`, `callLocal`, `localReturn`, `callRemote`, `remoteReturn`
(the branches of `rmtCaller`), `respond`.  `allowed` records what the user held
when the request was admitted, so that properties can speak of it after the
grants have changed.  The prefix comparison is exact in the model because a
method name is a pair of the part before the dot and the part after it.  A step
of a local call is a step of DB by construction; what the web server adds is who
may ask for it, and what becomes of the answer.  `remoteReturn` may never happen:
the source gives a remote call no time limit.

**RPCServer** is the life of an agent's connection: waiting for a thread, TLS,
greeting, challenge, served, closed.  A peer may leave openly or vanish; a
vanished peer's connection is served until a ping fails, and meanwhile the
agent may be back (`alreadyConnected`, the `-2` of `processConnection`).  One
that vanishes before it is served keeps its thread: `callbackOnRPCConnect` sets
no time limit for its reads.

**Startup** is the main thread as a program counter `at` over the checks of
`_config`, `_start`, `createRPCListener` and `createWebServer`, with the set
`up` of what has been set up.  Every check may fail and end the program; `boot`
starts it again.  The login client connects in the background.  A call of the
authentication server may go unanswered, executed or not: `attribExist` is then
false, `attribAdd` false, and `getStaticContent` an empty list, as in the code.

**Page1** is page 1 in several tabs over MessageBoard (which DB and the web
server implement, `WebImplementsBoard`).  `load` numbers the loads of a tab's
page, so that `Deliver` can drop the answers to a page that is gone; answers may
overtake each other or be lost.

**Overlays** and **Navigation** put the plugins of a page together: what comes
into view and goes again, and what moves the visitor about.  They name each
plugin's state, take the plugins as instances, state what is checked of each
(`ModalIsConsistent`, `MenusAreConsistent`, ...) and the assumptions on options
(`OptionsAssumption`, `PageAssumption`).  The MC modules add bounds to them, the
proof modules do not.  Overlays takes the panels from CollapseProofs, which is
Collapse with its theorems, so that OverlayProofs can cite them of the accordion
and of the group.

**Completions** is what the plugins rely on: a callback that is registered runs
once, at an end of a transition.  **TransitionEnd** is how bootstrap.js gets
there: the browser's event, which may come, be cancelled or come early for
another property; and a timer of the transition's computed duration.  It
implements Completions (`KeepsContract`, `RefinesCompletions`).

**The plugins** (Modal, Collapse, Carousel, Dropdown, Tab, ScrollSpy, Toast,
Button, Alert, Tooltip) share these conventions:

* One task of the browser (a handler, a timer, an end of a transition) is one
  action: JavaScript runs it without interruption, with all the calls it makes.
  Plugins whose methods call each other (Collapse, Carousel, Tooltip) have the
  methods as operators from state to state, and actions that apply them.
* `trigger(event)` lets the application's handlers prevent the event: a choice
  (`no`, `prevented`).
* A callback that waits for the end of a transition is a member of `wait` (or of
  a queue of the element); `TransitionEnd` runs all that wait on the element, in
  order.  This is the contract of Completions.
* `dispose` leaves callbacks and timers behind where the code does; they find no
  element and throw, which changes nothing.
* `misuse` is a history variable.  It records calls the plugin does not guard
  against, named in the comments of the properties that except them.

**Progress** is progress.js: `fillPercentage` and `redrawProgressBars` on any
number of bars, angles in tenths of a degree.

**PopperModifiers** is Popper's geometry as pure operators: rects, offsets, the
eight modifiers in their order, `flip` with its reruns, `computeAutoPlacement`,
rounding and `computeStyle`.  The code measures the same things differently in
different places, and so does the page of the model: `popper` is what is placed
(with margins), `client` what `computeAutoPlacement` compares with the room;
`autoViewport` is the viewport as it sees it, without `positionFixed`;
`offsetParent` is the padding box, and `borders` what `computeStyle`'s size of it
has more.  Lengths are in half pixels, so that halves and their roundings are exact.  **Placement** moves a reference over a page and
updates the popper at every move; its properties say what each modifier is for
without using it.

**Popper** is when updates run: at construction, by the debounced `update`, by a
frame of `scheduleUpdate` after a scroll event; and `enableEventListeners`,
`disableEventListeners`, `destroy`, of several poppers made for one element.
Where a popper goes is a constant function `Place` there.

**Positioning** puts the four together, as Overlays and Navigation do for the
plugins: it extends Popper, takes the other three as instances, names what is
checked of each and their assumptions (`PositioningAssumption`): which trees,
styles, rects and options there are.

**PopperElements** is the tree: reference, popper and four elements around them
with any parents, positions, scrolling and margins of a set.  Elements are
numbered from the outside in; `IsTree` asks that the popper is beside its
reference or in something around it (where the plugins put it), `IsStyle` that
`html` and `body` are in place and that what is around the popper is shown.  It computes
`findCommonOffsetParent`, `getScrollParent`, offsets and boundaries as the code
does, and compares the result with an external definition of where a browser
lays out an absolute or fixed element.  `update` is a step of its own after the
scroll event (`due`).

**PopperOffset** is the parser of the offset modifier's expressions: tokens are
written one by one, together with their meaning, and the parser's answer is
compared with the meaning.

**Mutants.** Definitions commented "Mutant of X" are X with a plausible bug.
They are not used by any specification; putting one in X's place must break the
property that guards X, which shows that the property depends on the code.

## 3. Runs

| Run | Properties | What it shows |
|---|---|---|
| `MCDB_board` | `BoardIntact ImplementsBoard RemovedStaysRemoved EveryCallReturns` | the lock, the lists and the ids, over two crashes or connection losses; DB implements MessageBoard; no path keeps the lock |
| `MCDB_unknown` | `UnknownMethodReported` | **violated**: see findings |
| `MCDB_add1` | `Add1AddsOne` | **violated**: see findings |
| `MCDB_null` | `NullMeansEmpty` | **violated**: see findings |
| `MCWeb_requests` | `AnswersGuarded WritesNeedControl EveryRequestAnswered` | access control under changing grants; every request is answered, but those for an agent that never answers |
| `MCRPC_peers` | `NodesSound NameKeptByOwner EverythingReleased` | the table of nodes under reconnects and restarts; the threads of closed connections and the names of peers that are gone come back |
| `MCStartup_faults` | `StartsInOrder ContentLoaded ComesUp` | order of the start, failures at each step; a later start comes up |
| `MCPage1_tabs` | `RemovesWhatWasShown ShowsWhatItWasTold` | stale lists, answers out of order, reloads, a crash |
| `MCOverlays_page` | see below | what comes into view and goes again |
| `MCNavigation_page` | see below | what moves the visitor about |
| `MCPopper_aspects` | see below | Popper: updates, elements, modifiers, offsets |
| `MCPopper_disabled` | `NoUpdateUnlessManual` | **violated**: see findings |

The components of the pages share no state.  A run for each would say no more
than a run in which a behaviour is about one of them: `widget` in MCOverlays and
MCNavigation and `aspect` in MCPopper choose it at the start, only its actions
happen, and the variables of the others keep their first values.  (The product of
their state spaces would show no interaction, as there is none.)

The invariant of a component is a conjunction of parts, each a definition with a
comment of its own in the component's module:

| Property | Parts |
|---|---|
| `BoardIntact` | `TypeOK WriterExclusion ListedRowsExist IdsUnique` |
| `AnswersGuarded` | `WebTypeOK ListsNeedStats` |
| `NodesSound` | `RPCTypeOK RegistryExact OnlyKeyHolders` |
| `EverythingReleased` | `LeftPeersReleased NamesComeFree NobodyQueuesForEver` |
| `KeepsContract` | Completions' `FairSpec`, `LateTimerIsHarmless` |
| `StartsInOrder` | `StartTypeOK ThreadsHaveGlobals ServingIsGuarded SecretsPrivate` |
| `ShowsWhatItWasTold` | `PageTypeOK OwnAddsShown OwnRemovalsGone` |

| Of `MCOverlays_page` | Properties | What they show |
|---|---|---|
| Alert | `OnlyClosedAreGone` (`TypeOK LeavesOnlyIfClosed`) | alerts in alerts, closed by several buttons |
| TransitionEnd | `EmulatorSound` (`TransTypeOK WaitsThenRunsOnce`), `KeepsContract` | the emulated event keeps the contract of Completions, and no timer of an earlier transition cuts a later one short |
| Modal | `ModalIsConsistent` (`RestIsConsistent BlockedIsTemporary CapturesOnlyWhileShown BackdropsAccounted`) | two transitions against calls, keys and clicks |
| Toast | `ToastIsConsistent` (`RestIsConsistent NoEarlyClose`) | timer against calls and fades |
| Tooltip | `TipIsConsistent` (`PartsAgree NoTipStays`) | triggers, delays and fades |
| Collapse | `PanelsAreConsistent` (`NeverStuck OneOpen` of the accordion, `TriggersTellTheTruth` of the group) | quick clicks in an accordion whose triggers lead to one panel each, triggers of several panels in a group |
| all | `EverythingSettles` (`ClosedLeaves`, `Modal!Unblocks`, `Toast!HidesItself`, `Tooltip!TipLeaves`, `InGroup!Settles`) | nothing moves, blocks or stays for ever |

| Of `MCNavigation_page` | Properties | What they show |
|---|---|---|
| Progress | `BarsShowTheirValue` (`TypeOK OneColour ArcIsTheLastValue NeverTooLittle`) | what a bar shows after any sequence of calls |
| Carousel | `CarouselIsConsistent` (`OneItemAtRest OneInterval LastChoiceIsShown`), `PauseHolds` | slides, queue and interval; a pause outlives mouse, timers, swipes, slides and choices of other items |
| Dropdown | `MenusAreConsistent` (`OneMenuOpen`), `MenusObey` (`ClickCloses EscapeReturns ArrowsStayInMenu`) | clicks and keys on several menus |
| Tab | `TabsAreConsistent` (`SelectedPaneIsShown OnePaneFades`) | quick clicks during fades |
| ScrollSpy | `SpyMarksTheTarget` (`MarksTheTargetInView StaleStep`) | the marked link against its definition, stale offsets |
| Button | `ButtonsAgree` (`OneOfTheGroup`, `LabelsMakeAgree`) | one radio button of a group is active, and a click on the label makes label and input agree again, whatever resets and clicks on the inputs have left |
| Carousel, Tab | `ChoicesComeTrue` (`ChoicesAreServed ChoiceComesIntoView`) | a visitor's choice is served in the end |

| Of `MCPopper_aspects` | Properties | What they show |
|---|---|---|
| updates | `PoppersInPlace` (`TypeOK InPlaceWhenDone`), `DestroyedLeavesNothing`, `Follows` | debounced updates of two poppers on one element |
| elements | `ElementsLaidOut` (`OffsetParentContains StaysOnReference ListensOnlyAsLongAsItShould BoundariesInView`) | every nesting, scrolled and restyled |
| modifiers | `ModifiersAgree` (`NoGap ArrowBetween FlipsForRoom AutoFindsRoom StaysInside HiddenWhenOut`), `PaintedInPlace` | what each modifier is for |
| offsets | `ReadAsMeant` (with `OperatorsBetweenNumbers`) | every expression of up to six tokens |

The properties of the instances include the types of their modules.

### Bounds

* Two threads: every property of the lock relates two threads, and a third adds
  no new pair.  The proofs remove the bound.
* Three or four calls (`MaxCalls`): enough for create, remove, create and a list
  in the middle of them; requests name ids 1 and 2 and a missing one, texts
  present and missing, values at and beyond `MaxUInt`, which stands for 2^32-1.
* `MaxId` 2: a third insert meets an exhausted column.
* `MaxFaults` 1 or 2 crashes or connection losses; in Startup 3 faults, so that
  two failed starts can precede the one that succeeds.
* Three connections, two agents, two threads: two connections of one agent and
  one of another, with a thread too few.  MCRPC keeps the third connection for the
  second agent, which halves the states; the other two are of either.
* `calls`, `faults` and `changes` are counters of the MC modules and bound the
  environment only.  A step `Quiet` (in MCStartup `Up`), allowed when nothing is
  being served, lets TLC's deadlock check find a thread stuck in a call.
* Only `MCPage1_tabs` uses symmetry (of its tabs and of its threads); it checks
  invariants only.  The other passing runs check temporal properties too.
* Page 1: two tabs, two threads, four calls, two loads of each page, one crash or
  lost answer: enough for a call of each tab before and after a reload.
* Plugins: `ModalCalls`, `ToastCalls` and the other bounds of this kind limit
  calls and clicks, not the callbacks.  Every conflict found while modelling needs
  at most three calls (show, hide and show again in a fade); four to six also
  meet what they leave behind.  Three items or panels, because with two "the
  other" and "all others" are the same; of the three panels the second may be
  open at first.  Four tabs, two of them in a dropdown and one disabled; two
  targets for the scroll spy.  All options that change control are in `Configs`.
* Transition end: three callbacks, because a stale timer needs one transition
  ended, one running and one to come; durations up to 3 (one with a delay).
* Progress: 0 and the values on both sides of each limit, 50, 51, 75, 76.
* Placement: a viewport of 30 by 24 pixels, a reference in steps of three and
  a half from far outside to far outside, thirteen sets of options, five
  layouts (popper smaller and larger than the reference, equal parities and not;
  one with a popper that has margins and an offset parent that has borders).
* Popper: two poppers on one element, a reference inside of the window or below
  it (where poppers flip and are marked), two moves, three calls.
  `Apart`: only the first of the two opens to the bottom, only the second to the
  top.  With
  `MicroTasks` FALSE (browsers without promises) an update is a task of its own
  and may come later than with TRUE, where it comes before the next task; so
  the run with FALSE includes the behaviours of TRUE.
* PopperElements: html, body, a box with two children of which one is a box
  around the reference, and the popper in one of three places; scrolled by 0 or
  1; one element restyled.  Two scrollers inside each other occur.  Three `Cases`:
  an absolute popper in an `html` with a margin, or beside a hidden first child,
  and a fixed popper, for which the code does not look at the first child.
* PopperOffset: six tokens are two numbers on one axis, the second with a sign of
  its own, and one on the other; or a signed number on each.

### Fairness

* DB and WebServer: weak fairness of each thread's own step.  Pool threads are
  operating-system threads, preemptively scheduled.  Weak fairness is enough
  because requests are finite in a run; under endless load a waiting writer
  would depend on the fairness of `Mutex_Shared`, which is external, and nothing
  is claimed of it.
* Nothing is assumed of a remote call: `remoteReturn` has no fairness, because the
  source gives FastRPC no time limit.  `EveryRequestAnswered` says that a request is
  answered or waits for an agent; one that waits holds no lock, so the others go on.
* RPCServer: a waiting connection gets a thread or is dropped by the acceptor's
  time limit; what reads a socket that its peer has closed ends in an error; a
  connection that is served and whose peer has vanished fails a ping.  Nothing is
  assumed of the handshake, the greeting and the challenge of a peer that vanished,
  or that stays connected and silent: the source sets them no limit, and nothing
  is claimed of the threads they keep.
* Startup: the main thread runs, the login client keeps connecting, and
  whoever runs the program starts it again.  `ComesUp` holds once faults end.
* Page 1 needs none: its properties are invariants, and answers may be lost.
* Transition end: timers go off.  That browsers report the end of a transition is
  not assumed; that is what the emulator is for.
* Plugins: weak fairness of the ends of transitions (which is `KeepsContract`'s
  conclusion), of timers and of intervals.  Clicks and calls are not fair.  The
  MC modules state one condition for all of the browser's steps of a component,
  which is weaker than one for each.
* Popper: weak fairness of each popper's frames and debounced updates; in MCPopper
  again one condition for all of them.

## 4. Proofs

TLAPS proves the following for all values of the constants that the named
assumptions allow: any number of threads, users, requests, connections, agents,
static contents, tabs, callbacks, alerts, items, menus, panels, poppers, elements
and tokens, rects of any size and place, and any options.  Nothing bounds calls,
time or faults there.

Each part of an invariant (`Exclusion`, `Registry`, ...) has a theorem of its own
where it is of use alone; one theorem per component states what the runs check:

| Theorems about | Module | Of the property checked |
|---|---|---|
| DB | ServerProofs | `Integrity`, `RemovalIsFinal`, `Refinement` |
| Web server | ServerProofs | `AnswersAreGuarded`, `WritesAreGuarded`, `WebImplementsBoard` |
| RPC server, Startup | ServerProofs | `Soundness`, `Ownership`; `Order`, `AllContent` |
| Page 1 | Page1Proofs | `ClicksRemoveWhatTheyShow`, `TabsShowWhatTheyWereTold` |
| Transition end, Alert | OverlayProofs | `EmulatorIsSound`, `RefinesCompletions`; `Presence` |
| Modal, Toast, Tooltip | OverlayProofs | `ModalAgrees`, `ToastKeepsItsTime`, `TipsAgree` |
| Collapse | CollapseProofs, OverlayProofs | `PanelsNeverStick`, `OnePanelIsOpen`, `TriggersAreTrue`; `PanelsAgree` |
| Carousel, Dropdown | NavigationProofs | `CarouselAgrees`, `PausesHold`; `MenusAgree`, `MenusDoAsTold` |
| Tab, ScrollSpy, Button, Progress | NavigationProofs | `TabsAgree`; `SpyIsRight`; `ButtonsAndInputsAgree`; `BarsAreTrue` |
| Popper's updates | PopperProofs | `InPlaceTheorem`, `NothingIsLeft` |
| Popper's modifiers, style | PlacementProofs | `PlacementAgrees`; `PlacementPainted` |
| Popper's elements, offsets | PopperProofs | `ElementsPlaced`; `OffsetReadAsMeant` |

None of the invariants is inductive as it is checked.  What each needs:

* **DB.**  `IInv`: types, `CallShape` (what a thread can be doing in each stage
  of a call), `LockShape` (the holders of the mutex are exactly the threads
  inside a locking method, and a writer is alone), `ListedRowsExist`,
  `IdsUnique`, `AckedIsGone`.  `WriterExclusion` speaks of `pc`, and only
  `LockShape` ties `pc` to the lock variables the guards test; `ListedRowsExist`
  needs the exclusion to know that no deletion happens during a list.
  `Refinement` maps step by step: the step that finishes a method is the board's
  atomic step (`FinishAnswers`), the others are invisible (`Invisible`).
* **Web server.**  `AdmitInv` is inductive whatever DB does.  By the lemma
  `WebDrivesDB` (`WebSpec => Spec`, which holds by construction) every theorem
  about DB holds of the program.  `WebInv`, inductive together with `IInv`, ties
  each local call to the browser request it serves.
* **RPC server.**  Type, `RegistryExact` and `OnlyKeyHolders` are inductive
  together; `Ownership` follows for each step.
* **Startup.**  `StartInv` says what is set up at each point of the start and
  that served plus pending contents are what was offered.
* **Page 1.**  `SeenWasThere`: whatever a tab, a thread or an answer knows was on
  the board, under an id that is used for no other row; so a stale button cannot
  name another row.  `CallsServeClicks` ties a thread's call to the load of the
  page and the row it was made for.  `AnswersAreGood`: a list on its way to a
  page that is still there has what the tab was told by now, because being told
  reloads the page, after which older answers are for a page that is gone.
* **Transition end.**  Who waits has an armed timer that knows it; who has run is
  called.  In `RefinesCompletions` a dispatched event is the completion of all
  that wait, and a timer whose callback has run is a stutter.
* **Alert.**  The ghost set of what was closed needs to be closed under "inside
  of", which is why the invariant speaks of the tree.
* **Modal.**  `MovesOneWay`: of the callbacks of a living instance one is
  awaited, and it agrees with `_isShown` and `_isTransitioning`; only the
  removal of a backdrop may wait beside it.  `WaitsForReason`: nothing waits
  without transitions, and a backdrop without a modal is leaving.
  `PictureInMotion`: what waits says which parts are seen in mid-transition, so
  that they agree at rest.
* **Toast.**  `WaitsByOption`, and `OneAtATime`: a toast that was not shown over
  itself is on its way in, in its delay or on its way out.  All callbacks that
  wait run at one event; their results are followed by induction.
* **Tooltip.**  `PartsHold` and `LeavesHold`: what is in the document is described
  and placed, and what is not shown has the callback that removes it.
  `ReasonsHold`: a tip in the document has a trigger that keeps it, or a delay or
  a callback that removes it.  Each excepts other misuse, and a tip that
  `_fixTransition` has hidden and shown again (`fixed`).
* **Collapse.**  `PanelInv` has a part for every page: instances are numbered,
  belong to one panel, and each in transition has a callback (`Numbered`,
  `Carried`).  `Undisturbed` holds as long as nothing was disposed of in
  mid-transition.  `Calm`, for an accordion: each panel is at rest or its own
  instance waits, and one at most is open or will be; without `Lost`, which is
  misuse.  `Fit`, for panels without a parent: only the newest callback of a
  panel may be that of a living instance, and triggers claim what is open or
  opens.  A call is shown to keep these (`Kept`) once for `hide` and `show`,
  then for the loops of `hideOthers` and of a click, by induction over panels.
* **Carousel.**  `Sound`: one timer at most, that of the interval, and none in a
  pause (`Timed`); a carousel that slides has a transition to end (`Attached`);
  and it is `Still`, or `Moving` with its classes on the two items of the slide.
  `Queued`: calls of `to` wait only while it slides or "slid" is due; `Wanted`:
  the last of them is what the visitor wants.  The handler of "slid" serves the
  queue in a row, which may start a slide; `Loop` is what holds between two.
* **Dropdown.**  Menus open without misuse are one, `aria-expanded` agrees, and an
  open menu has an instance to close it.  **Tab.**  `FadeIsOrdered`: what waits
  does so for the first active pane, which fades, and the link selected is the
  last that was asked for.  **Button.**  Two radio buttons of a group are never
  active nor checked.
* **ScrollSpy.**  `SpyInv`: the offsets are those of some page, sorted, with
  every target that could be seen; the link marked is that of the active target.
  `SortedSequence` gives that a sorted list of them exists and has them all.
* **Progress.**  Between `fillPercentage` and the next redraw the number and the
  angles differ, so the invariant is about the last value drawn and the largest.
* **Popper.**  Updates of destroyed poppers do nothing, and a popper that is done
  after a step was untouched by it or has just been written
  (`DoneIfUntouched`).
* **Popper's modifiers.**  `PlaceState`: the popper is where one update of the
  page as it is puts it, so the work is to follow one update.  `Placed` says what
  holds of the data from the modifiers before `flip` on: along its edge the
  popper `Touches` the reference, the arrow `Points` at it, what fits is `Inside`.
  `preventOverflow` is a fold over any list of edges: `Reach` is where a popper
  may be pushed to, whichever edges were pushed before, with its far edges stale
  (`Trails`).  `flip` is a fold over its list of placements, each of which may
  turn the popper and rerun the modifiers: every try stays `Placed`
  (`NextTryStays`), and a side that has room is not left (`StaysBeside`).  For
  `auto`, `BestExists` and `FindsRoom`: the side with most room has room if any
  has.  An axis is a record of edges, so that each fact is proved once for both.
* **Popper's style.**  Rounding goes to a number near by (`RoundsNear`), whichever
  edge the style is written for.
* **Popper's elements.**  `ElementsState`: a popper that listens does so to what
  its reference scrolls in; unless an update is due it has the top that an
  update would compute now (`SameOffsets`: nothing but a scroll around the
  reference changes that).  `CommonIs` finds the common offset parent by the
  innermost element around the popper that contains it; `PutOnReference` is the
  sum of tops and scrolls in between.
* **Offsets.**  `OffsetIsRead`: of what is written so far the strings before and
  after the divider are those of one sum each (`OneList`, `TwoLists`), complete,
  after an operator or after a sign (`Read`, `Open`, `Signed`), and the sum is
  what is meant so far.

**Induction** has the inductions the proofs share, from the least number of a set
(`WFMin`): `StepsKeep` and `StepsHaveResults` for callbacks that run in a row,
`SortedSequence`, `FoldIsSolved` for what a loop over a list leaves, and
`RecursionIsSolved` for functions that look at smaller numbers (what is around an
element, where it is).  A recursive LET of the models is a function over an
interval, of which these give every value; no theorem is by structural recursion
on data.

Proof attempts that failed changed the models.  `OneOpen` was claimed for
any triggers; but `show` spares what the last trigger of the panel selects
(`.not(this._selector)`, bootstrap.js:1265 and 1280), so that two panels with a common
trigger stay open together: it now asks for triggers of one panel.  And
`Offsets` of ScrollSpy, a sort of the community modules, is now said by what it
results in.  The properties of the modifiers hold for the rects of the run, but
for any rects they need conditions they now state: boundaries at whole pixels
for `flip` and `auto`, which compare rounded edges; both edges of an axis in the
priority of `preventOverflow`, an arrow that fits and a reference that is not
empty for `StaysInside`; no `inner` for `auto`, and a popper that `auto` measures as
it is placed (`AutoSeesAll`).  Those of the tree needed what
`IsTree` and `IsStyle` say.

Assumptions: `BoardAssumption`, `WebAssumption` (browsers' local calls are among
the requests of DB), `RPCAssumption`, `StartupAssumption`, `OptionsAssumption`,
`PageAssumption`, `PositioningAssumption`, and those of the other modules on their constants (nesting of
alerts transitive, `Place` a function of page and options, styles with their
delays, finitely many targets; of the modifiers that the popper, its reference and
its arrow are whole pixels long, while every place may be at a half); TLC
evaluates each.

Only model-checked:

* the liveness properties (`EveryCallReturns`, `EveryRequestAnswered`,
  `EverythingReleased`, `ComesUp`, `EverythingSettles`, `ChoicesComeTrue`,
  `Follows`, and the fairness part of `KeepsContract`), which need fairness and
  ENABLED.  Every other property of a passing run has a theorem.

## 5. Findings

1. **Unknown methods look executed** (`MCDB_unknown`).  db.cpp:97-102 stores
   "Method Not Found.", db.cpp:105-110 overwrites it; `rmtCaller` then logs the
   call as executed.
2. **"Add 1" wraps** (`MCDB_add1`).  page2.html:27 against the `uint32_t` sum of
   db_webdisplay.cpp:49.
3. **A failed SELECT is shown as an empty board** (`MCDB_null`).  `getMessages`
   returns the same null for both, and page1.html:17 says "There are no messages
   in the database!".

4. **A disabled popper is updated** (`MCPopper_disabled`): `cancelAnimationFrame`
   gets a function (bootstrap.bundle.js:2601), against the doc at 2594.

Seen in the code while modelling it, and kept in the models without a run of
their own:

* `_resetScrollbar` (bootstrap.js:2508) writes the empty string when nothing was
  kept, so a modal on a page that does not overflow loses the body's own padding;
  the comment at 2506 says "Restore body padding".
* The focus restorer is registered (bootstrap.js:2584-2586) also for a show that a
  handler bound later prevents.
* The list of sides that `clockwise` (bootstrap.bundle.js:3032) returns does not
  contain the side the popper is on, so every step of the loop at 3086 returns at
  once and a popper with this behaviour never flips.
* `computeAutoPlacement` compares the room with `clientWidth` and `clientHeight`
  (bootstrap.bundle.js:2223), but the popper is placed by its outer size
  (2257-2267); and it asks for boundaries without `positionFixed` (2189), where
  `flip` passes it (3064).  So `auto` may choose a side without room for a popper
  with margins or borders while another side has it.
* `computeStyle` takes the height and width of an offset parent other than `html`
  from `getBoundingClientRect` (2819, 2828; 1963-1980), borders included, while
  offsets, `bottom` and `right` count from its padding box: with `x: 'top'` or
  `y: 'left'` the style is off by both borders.
* A click on the input of a button: the handler's `preventDefault` (bootstrap.js:519)
  makes the browser take back the check that `toggle` has set, so that the label has
  changed and the input has not.
* `_fixTransition` (bootstrap.js:3356): when the callback of `hide` runs just before
  that of `show`, at one end of a transition, the Popper's `destroy` has taken
  `x-placement` off the new tip, which is then hidden and shown again; what the
  mouse did meanwhile is forgotten, and the tip may stay with no trigger or timer
  left to remove it.
* The second checks of `preventOverflow` use edges that the first have made stale
  (bootstrap.bundle.js:3393), and overflow on a side that the doc at 3624 does
  not name.

What the properties of the browser modules except, because the code does not
guard against it (all of it is in the models, as `misuse` or as a condition):

* Modal: a prevented show of a fading modal leaves `_isTransitioning` set for
  good; it can be shown again while its old backdrop fades out, and then there
  are two; `dispose` leaves the state of the document as it is.
* Collapse: in an accordion whose open panel has no instance yet two quick clicks
  leave two panels open; making the instance of a closed panel collapses the
  triggers it shares with an open one.
* Carousel: a choice made between the end of a slide and its "slid" may be
  overtaken by the queued one; the timeout after a touch ends an explicit pause;
  `dispose` leaves the interval running.
* Dropdown: each opening outside of a navbar makes a Popper and destroys none;
  Escape on a closed toggle opens it; `show` and `hide` of scripts leave
  `aria-expanded`.
* Tab: a click during a fade can leave the pane of the former choice active too.
* Toast: the timer survives a dismissal, and closes a toast shown again too early; `show` while closing leaves both classes.
* Button: a click on a disabled radio button takes the class from the other one; a
  click on the input leaves label and input in disagreement until the label is
  clicked again.
* Alert: a second click during the fade tells "closed" twice.
* Tooltip: leaving and entering during a fade shows the tip with the callback of
  `hide` still to come, after which `_fixTransition` may show it for good;
  `dispose` leaves `aria-describedby`.
* Popper: what `auto` and `computeStyle` measure otherwise than the rest, see above
  (`AutoFindsRoom` and `PaintedInPlace` speak of the other pages).  `destroy` leaves `x-out-of-boundaries`; `enableEventListeners` does not
  update; `escapeWithReference` also lets a popper out whose reference is inside.
  An offset parent that scrolls together with the reference inside of a nested
  scroller, and a fixed popper with a margin of `html`, are misplaced.
* Offsets: white space before a signed number is read as the operator (`10 -5` is
  one offset); zero with a unit stays text and adds nothing.
* Progress bars: a value that falls to 50 or below leaves the left half, and 0 is
  not redrawn.  No page of the repository calls the two functions.

Met on the way and not modelled: `includes/header.html` uses the id `dropdown01`
twice, and the pages load `jquery-3.6.0.min.js` where the repository ships 3.5.1; `main.cpp:145` reads `Logs.ToSyslog` where
`config_localini.h:21` reads `Logs.Syslog`; the message for a CA that cannot be
loaded (rpcserverimpl.cpp:69) names the public key; the header page links to a
`/dashboard` that does not exist.

## 6. Not modelled

* The access rules of `resources.conf`, which the external web server evaluates;
  page 2, one call without state; the login page, whose script comes from the
  authentication server.
* `getHelloWorldMessage`, `_pingNotFound_` and the logging callbacks: they change
  no state.
* Single configuration values, log layout, TLS contents, style sheets, jQuery, the
  minified copies, build files.
* The plugins' half of `bootstrap.bundle.js`, which repeats `bootstrap.js`.
* The sanitizer of tooltips (a function of text); content and templates of tips;
  `_getPlacement`, `_getOffset`, `_getPopperConfig` of Dropdown; Popper's shadow
  roots, modifiers of the user's own and the workarounds for Internet Explorer.
* Pixels: where a browser lays out is an external definition in PopperElements,
  with tops only (lefts are the same code).
* A change of `config.ini`'s mode by somebody else during the start, and
  attributes removed from the authentication server while the program runs.

## 7. Plan

Done: the server (BoardData, MessageBoard, DB, WebServer, RPCServer, Startup) and
its page, then the scripts of the pages, each with its runs.  Next:

1. `RemoteCalls`: WebServer's remote branch composed with RPCServer's table of
   nodes (agents that leave in the middle of a call).
2. Tooltip over Popper in one model (now they meet at "placed"), and Modal with
   a tooltip inside.
3. Abstract specifications for RPCServer (one agent, one connection) and Startup
   (off, starting, serving) and refinements to them.
4. `Resources`: the rules of `resources.conf` as an operator over requests and
   sessions.
