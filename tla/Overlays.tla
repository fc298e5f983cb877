------------------------------ MODULE Overlays ------------------------------
(***************************************************************************)
(* What comes into view and goes again on a page: alerts, a modal, a toast *)
(* and a tooltip or popover with any of their options, collapsing panels   *)
(* in an accordion and in a group; and the emulated end of transitions     *)
(* that all of them wait for.  They share no state.                        *)
(***************************************************************************)
EXTENDS Alert, TransitionEnd

CONSTANTS
    ModalConfigs, ToastConfigs, TooltipConfigs,   \* the options of each
    AccordionPanels, AccordionTriggers,           \* how many panels, and what
    GroupPanels, GroupTriggers                    \* each trigger toggles

VARIABLES
    modalFade, modalConfig, modalExists, isShown, isTransitioning, backdrop,
    dom, made, modalWait, display, showClass, listeners, ignoreClick, body,
    adjusted, onShow, onHidden, modalMisuse,
    toastConfig, toastExists, toast, toastMisuse,
    tipConfig, tipExists, on, t, tipMisuse,
    accordionPage, accordionMisuse, groupPage, groupMisuse
-----------------------------------------------------------------------------
Modal == INSTANCE Modal WITH
    Configs <- ModalConfigs, fade <- modalFade, config <- modalConfig,
    exists <- modalExists, wait <- modalWait, misuse <- modalMisuse

Toast == INSTANCE Toast WITH
    Configs <- ToastConfigs, config <- toastConfig, exists <- toastExists,
    misuse <- toastMisuse

Tooltip == INSTANCE Tooltip WITH
    Configs <- TooltipConfigs, config <- tipConfig, exists <- tipExists,
    misuse <- tipMisuse

\* CollapseProofs is Collapse with the theorems about it, for OverlayProofs to cite.
InAccordion == INSTANCE CollapseProofs WITH
    N <- AccordionPanels, Triggers <- AccordionTriggers, Accordion <- TRUE,
    page <- accordionPage, misuse <- accordionMisuse

InGroup == INSTANCE CollapseProofs WITH
    N <- GroupPanels, Triggers <- GroupTriggers, Accordion <- FALSE,
    page <- groupPage, misuse <- groupMisuse

ASSUME OptionsAssumption ==
    /\ Modal!ConfigAssumption /\ Toast!ConfigAssumption /\ Tooltip!ConfigAssumption
    /\ InAccordion!ConstantsAssumption /\ InGroup!ConstantsAssumption
-----------------------------------------------------------------------------
\* Flags, classes, backdrop, handlers, padding and body of a modal agree whenever
\* nothing of it moves; one that refuses calls has a callback on its way; it has
\* keys, clicks and focus only while shown; no backdrop is left behind
\* (bootstrap.js:2109 to 2452).
ModalIsConsistent ==
    /\ Modal!TypeOK /\ Modal!RestIsConsistent /\ Modal!BlockedIsTemporary
    /\ Modal!CapturesOnlyWhileShown /\ Modal!BackdropsAccounted

\* At rest a toast is shown or hidden, and none is closed before its delay
\* (bootstrap.js:4284 to 4354).
ToastIsConsistent == Toast!TypeOK /\ Toast!RestIsConsistent /\ Toast!NoEarlyClose

\* At rest the parts of a tip agree, and no tip stays when nothing keeps it
\* (bootstrap.js:3162 to 3590).
TipIsConsistent == Tooltip!TypeOK /\ Tooltip!PartsAgree /\ Tooltip!NoTipStays

\* No panel is stuck in a transition, an accordion at rest has one open panel at
\* most, and triggers of one and of two panels announce what is true of them
\* (bootstrap.js:1257 to 1400).
PanelsAreConsistent ==
    /\ InAccordion!TypeOK /\ InGroup!TypeOK
    /\ InAccordion!NeverStuck /\ InAccordion!OneOpen
    /\ InGroup!TriggersTellTheTruth

\* What was closed leaves, a modal that moves obeys again, a toast hides itself,
\* a tip leaves after the pointer, and a panel comes to rest.
EverythingSettles ==
    /\ ClosedLeaves /\ Modal!Unblocks /\ Toast!HidesItself
    /\ Tooltip!TipLeaves /\ InGroup!Settles
=============================================================================
