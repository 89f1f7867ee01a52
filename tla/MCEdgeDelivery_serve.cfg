\* Two requests and two writers of the key index; the key created and then
\* narrowed or revoked, the manifest written once more or removed.
CONSTANTS
    r1 = r1
    r2 = r2
    w1 = w1
    w2 = w2
    None = None
    Error = Error
    Unread = Unread
    Writer = {w1, w2}
    Request = {r1, r2}
    MaxScope = 1
    MaxMoves = 1
    KeyTTL = 1
    ManifestTTL = 1
    StaleLimit = 2
    MaxLoad = 1
    MaxTime = 3
SPECIFICATION Spec
SYMMETRY Symmetric
CONSTRAINT OneAtOnce
CHECK_DEADLOCK FALSE
INVARIANTS IndexFollowsKey AnswersAreRecent
PROPERTIES ManifestsNeverGoBack
