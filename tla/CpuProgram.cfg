SPECIFICATION Spec
CONSTANTS
    RamSize = 512
    Rom <- RomByte
    Inputs <- SomeInputs
    MaxSteps = 135
    MaxNmis = 2
INVARIANT ProgramUndisturbed
PROPERTY ReturnsMatch
