SPECIFICATION SessionSpec
CONSTANTS
    BorderWidth = 1
    SnapMargin = 1
    TitleHeight = 2
    MinSize = 2
    Toplevels = {t1, t2}
    NoView = NoView
    Client = t1
    ClientKeys = {}
    MaxConfigures = 1
    Points <- OnePoint
    Sizes <- OneSize
    Requests = {}
    KeyActions = {}
    EdgeSets = {}
    OutputSizes = {}
    DefaultOutputSize <- DefaultSquare
    Reach = 0
    MaxToggles = 0
INVARIANTS NeverRejected KeyboardIsThere
