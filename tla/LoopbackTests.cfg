\* Two tests, and strings that are empty, short or longer.
SPECIFICATION Spec
CONSTANTS
    Tests = {"uart", "i2c"}
    Lengths = {0, 1, 2}
INVARIANTS
    TypeOK
    VerdictIsEarned
    RunsAreIndependent
