SPECIFICATION Spec
CONSTANTS
    BorderWidth = 1
    SnapMargin = 0
    TitleHeight = 2
    MinSize = 2
    Toplevels = {t1}
    NoView = NoView
    Points <- DiagonalPoints
    Sizes <- TwoSizes
    Requests = {"move", "resize", "fullscreen", "maximize"}
    KeyActions = {}
    EdgeSets = {{"left", "top"}}
    OutputSizes = {}
    DefaultOutputSize <- DefaultSquare
    Reach = 2
    MaxToggles = 0
INVARIANTS TypeOK FrameFollowsView ResizeKeepsOppositeEdge
PROPERTIES PressTakesEdge
