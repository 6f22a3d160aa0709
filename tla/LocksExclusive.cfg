SPECIFICATION Spec
CONSTANTS
    Callers = {a, b, c}
    Tokens = {1}
INVARIANTS
    Exclusive
