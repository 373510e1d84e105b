SPECIFICATION FairSpec
CONSTANTS
    BorderWidth = 1
    SnapMargin = 1
    TitleHeight = 2
    MinSize = 2
    Toplevels = {t1}
    NoView = NoView
    Points <- OnePoint
    Sizes <- OneSize
    Requests = {}
    KeyActions = {"fullscreen"}
    EdgeSets = {}
    OutputSizes = {}
    DefaultOutputSize <- DefaultSquare
    Reach = 2
    MaxToggles = 1
PROPERTIES FullscreenKeyWorks
CHECK_DEADLOCK FALSE
