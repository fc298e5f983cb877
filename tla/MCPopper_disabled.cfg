SPECIFICATION MCSpec
CONSTANTS
    Poppers = {1, 2}
    Pages <- MCPages
    Options <- MCOptions
    Applies <- MCApplies
    Place <- MCPlace
    AutoPlacement <- MCAutoPlacement
    MicroTasks = TRUE
    LastElement = 6
    Parents <- MCParents
    Styles <- MCStyles
    Reference = 5
    PopperElement = 6
    Restyled = {4}
    MaxScroll = 1
    Lefts <- MCLefts
    Tops <- MCTops
    Layouts <- MCLayouts
    PlacementOptions <- MCPlacementOptions
    Step = 7
    Terms <- MCTerms
    Measures <- MCMeasures
    MaxTokens = 6
    Aspects = {"updates"}
    MaxCalls = 3
    MaxMoves = 2
PROPERTY NoUpdateUnlessManual
