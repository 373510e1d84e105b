SPECIFICATION FairSpec
CONSTANTS
    BorderWidth = 1
    SnapMargin = 1
    TitleHeight = 2
    MinSize = 2
    Toplevels = {t1}
    NoView = NoView
    Points <- OnePoint
    Sizes <- OneSize
    Requests = {"maximize"}
    KeyActions = {}
    EdgeSets = {}
    OutputSizes = {}
    DefaultOutputSize <- DefaultSquare
    Reach = 2
    MaxToggles = 1
PROPERTIES RequestsAnswered
CHECK_DEADLOCK FALSE
