\* Four icon URLs and six trackImageLoad calls: icons tracked before,
\* between and after the events, a URL tracked twice, and a call after the
\* notification.
CONSTANTS
    u1 = u1
    u2 = u2
    u3 = u3
    u4 = u4
    Urls <- MCUrls
    MaxTracks = 6
SPECIFICATION Spec
INVARIANTS TypeOK ArrayMatchesLiveImages ReadyMeansNothingLoading
PROPERTY TrackedLoadEventuallyNotified
