SPECIFICATION FairSpec
CONSTANTS
    BorderWidth = 1
    SnapMargin = 1
    TitleHeight = 2
    MinSize = 1
    Toplevels = {t1, t2}
    NoView = NoView
    Points <- EdgePoint
    Sizes <- OneSize
    Requests = {}
    KeyActions = {"floating"}
    EdgeSets = {}
    OutputSizes = {}
    DefaultOutputSize <- DefaultSquare
    Reach = 1
    MaxToggles = 0
INVARIANTS FocusConsistent
PROPERTIES FocusRefined KeyboardReachesFocus
