\* One test suffices: a run over broken wires, and another once they are mended.
SPECIFICATION Spec
CONSTANTS
    Tests = {"i2c"}
    Lengths = {1}
INVARIANTS
    SoundWiresPass
