CONSTANTS
    Compilations <- MCCompilations
    SplitNum = 3
    ObfProbRate = 30
    ObfTimes = 1
    Draws = {30, 31}
    Width = 5
    Bits = 2
    Scramble <- MCScramble
SPECIFICATION Spec
INVARIANTS
    AlteredNeverRuns
    PhisMatchPreds
PROPERTIES
    ImplementsProgram
