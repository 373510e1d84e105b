SPECIFICATION FairSpec
CONSTANTS
    BorderWidth = 1
    SnapMargin = 1
    TitleHeight = 2
    MinSize = 2
    Toplevels = {t1}
    NoView = NoView
    Points <- EdgePoint
    Sizes <- OneSize
    Requests = {"fullscreen"}
    KeyActions = {"fullscreen", "quit"}
    EdgeSets = {}
    OutputSizes <- OutputSquare
    DefaultOutputSize <- DefaultSquare
    Reach = 2
    MaxToggles = 2
PROPERTIES LastToggleWins InitialCommitAnswered RequestsAnswered
CHECK_DEADLOCK FALSE
