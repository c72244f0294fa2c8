SPECIFICATION MCSpec
CONSTANTS
    Nil = Nil
    M = M
    G = G
    A = A
    B = B
    C = C
    Main = M
    Globals = G
    Scenes <- MCScenes
    Handles = {h1, h2, stdin, stdout}
    FILEs = {f1, stdin, stdout}
    Std = {stdin, stdout}
    STDIN = stdin
    STDOUT = stdout
    NULL = NULL
INVARIANTS
    ReachableKept
    ColoursRight
    GarbageFreed
    FinalizedOnce
    HandlesRight
CHECK_DEADLOCK FALSE
