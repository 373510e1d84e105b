SPECIFICATION FairSessionSpec
CONSTANTS
    BorderWidth = 1
    SnapMargin = 1
    TitleHeight = 2
    MinSize = 2
    Toplevels = {t1}
    NoView = NoView
    Client = t1
    ClientKeys = {"Escape"}
    MaxConfigures = 1
    Points <- OnePoint
    Sizes <- OneSize
    Requests = {}
    KeyActions = {"quit", "close"}
    EdgeSets = {}
    OutputSizes = {}
    DefaultOutputSize <- DefaultSquare
    Reach = 2
    MaxToggles = 0
PROPERTIES WindowAppears CloseKeyCloses
CHECK_DEADLOCK FALSE
