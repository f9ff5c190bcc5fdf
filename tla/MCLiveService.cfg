SPECIFICATION Spec
CONSTANTS
    Lives = {l1}
    Sessions = {s1, s2}
    Generations = {1, 2}
    Handlers = {h1, h2}
    NoSession = NoSession
SYMMETRY Symmetry
INVARIANTS
    TypeOK
    EventsMatchRow
    OnePublisher
    SessionsMatchRow
    AcceptedStopIsFinal
PROPERTIES
    PlaybackNeverGoesBack
    LifecycleSpec
