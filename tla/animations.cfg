SPECIFICATION AnimSpec
CONSTANTS
    Windows = {w1, w2}
    Points <- AcrossZero
    BorderWidth = 3
    FocusMs = 3
    ClockWidth = 16
    MaxGap = 3
    MaxAdds = 4
PROPERTIES FrameBeside CallbacksInOrder NeverBack
