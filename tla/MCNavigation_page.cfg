SPECIFICATION MCSpec
CONSTANTS
    Bars = {b1, b2}
    b1 = b1
    b2 = b2
    Percentages <- MCPercentages
    CarouselItems = 3
    CarouselOptions <- MCCarouselOptions
    Dropdowns = {"a", "b", "c"}
    MenuItems <- MCMenuItems
    NoToggle = {"b"}
    InNavbar = {"a", "b"}
    HasPopper = TRUE
    TabLinks = 4
    TabDrop = {3, 4}
    NoTab = {2}
    Targets = {1, 2}
    Tops = {0, 2, 3}
    Heights = {5, 6}
    View = 3
    Offset = 1
    Radios = {1, 2, 3}
    Checkboxes = {4, 5}
    Plain = {6}
    NoInput = {3, 5}
    CarouselCalls = 4
    TabCalls = 4
INVARIANTS BarsShowTheirValue
    CarouselIsConsistent MenusAreConsistent TabsAreConsistent
PROPERTIES PauseHolds MenusObey
    SpyMarksTheTarget ButtonsAgree ChoicesComeTrue
