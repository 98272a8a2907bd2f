SPECIFICATION NSpec
CONSTANTS
    DATA_BUFF_LEN = 5
    NAME_CNT = 2
    NAME_LEN = 3
    Byte <- MCByte
    NUL <- MCNUL
    Blank <- MCBlank
    SetName <- MCSetName
    ERASED <- MCERASED
INVARIANT NTypeOK
INVARIANT NamesEnd
INVARIANT NamesKept
INVARIANT CleanTail
PROPERTY CommandLine
