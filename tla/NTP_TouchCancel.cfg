\* As NTP_Touch, with a touch on a footer button cancelled by the browser:
\* the button stays focused for the next touchend anywhere on the page.
CONSTANTS
    i1 = i1
    i2 = i2
    Items <- MCItems
    None = None
    NumButtons = 2
    MaxFingers = 1
    MaxTouches = 3
    ButtonCancels = TRUE
SPECIFICATION Spec
INVARIANT SelectOnlyByOwnPress
