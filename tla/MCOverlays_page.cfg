SPECIFICATION MCSpec
CONSTANTS
    Alerts = {1, 2, 3}
    Buttons = {1, 2, 3, 4}
    Inside <- MCInside
    Within <- MCWithin
    Target <- MCTarget
    AlertCalls = 4
    c1 = c1
    c2 = c2
    c3 = c3
    Callbacks = {c1, c2, c3}
    Styles <- MCStyles
    MaxTime = 3
    ModalConfigs <- MCModalConfigs
    ToastConfigs <- MCToastConfigs
    TooltipConfigs <- MCTooltipConfigs
    AccordionPanels = 3
    AccordionTriggers <- MCAccordionTriggers
    GroupPanels = 2
    GroupTriggers <- MCGroupTriggers
    ModalCalls = 5
    AccordionCalls = 3
    GroupCalls = 3
    ToastCalls = 6
    TooltipCalls = 5
INVARIANTS OnlyClosedAreGone EmulatorSound
    ModalIsConsistent ToastIsConsistent TipIsConsistent PanelsAreConsistent
PROPERTIES KeepsContract EverythingSettles
