SPECIFICATION Spec
CONSTANTS
    nl = nl
    d = d
    x = x
    cont = cont
    Bytes = {nl, d, x, cont}
    Newline = nl
    Continuations = {cont}
    Warn <- MCWarn
    MaxBytes = 4
    TailBytes = 2
    MaxStream = 7
    MaxChunk = 5
INVARIANTS
    TypeOK
    LimitedIffLineWarns
    BufferIsEndOfStream
    TailStartsAtRune
