\* words of four bits
SPECIFICATION MipsSpec
CONSTANTS
    ByteBits = 1
    Registers = {0, 1, 2, 3}
    R2 = 2
    R31 = 3
    TopBits = 1
    Results = {0, 5}
    Starts <- AllStarts
INVARIANT
    RegistersSound
PROPERTY
    ImplementsProcessor
\* programs end
CHECK_DEADLOCK FALSE
