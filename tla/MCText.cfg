SPECIFICATION TextSpec
CONSTANTS
    Key <- MCKey
    Hash <- MCHash
    Glyph = {g1, g2}
    g1 = g1
    g2 = g2
    Blank = Blank
    MaxCount = 7
    Alphabet <- MCAlphabet
    MaxText = 3
    Byte <- MCByte
    MaxBytes = 4
    InitialCap = 1
    Dot = Dot
    Slash = Slash
    Letter = Letter
    End = End
    MaxPath = 5
    Longest = 125000
    Step = 1110
INVARIANTS
    ProbesEnd
    WithinBounds
    DecodesTexts
    ScansWithinPath
    OneDotFound
    CountdownReadable
PROPERTY
    GlyphMapSpec
CHECK_DEADLOCK FALSE
