\* Two fingers, two items and two footer buttons, five touches and clicks
\* with any interleaving of the fingers, the timers, touchend and
\* touchcancel on items; the timeouts run and every touch ends (weak
\* fairness).
CONSTANTS
    i1 = i1
    i2 = i2
    Items <- MCItems
    None = None
    NumButtons = 2
    MaxFingers = 2
    MaxTouches = 5
    ButtonCancels = FALSE
SPECIFICATION Spec
INVARIANTS
    ActiveItemShown
PROPERTY
    BubbleEventuallyRemoved
    FooterBubbleRefined
