SPECIFICATION StepSpec
CONSTANTS
    RamSize = 512
    Rom <- RomByte
    Inputs <- OneInput
    MaxSteps = 1
    MaxNmis = 0
INVARIANT TypeOK
PROPERTIES StepFitsLoop ArithmeticExact
