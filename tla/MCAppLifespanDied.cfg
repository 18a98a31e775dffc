SPECIFICATION Spec
CONSTANTS
    MaxAttempts = 3
INVARIANTS
    GracefulShutdown
