SPECIFICATION Spec
INVARIANTS
    StreamsReadWhole
    ClaimsAreEarned
PROPERTIES
    RealtimeFirst
CHECK_DEADLOCK FALSE
