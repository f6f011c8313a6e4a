SPECIFICATION Spec
CONSTANTS
    knife = knife
    phrase = phrase
    Stem = {knife, phrase}
    Phrases = {phrase}
    BuiltIn <- MCBuiltIn
    Entries <- MCEntries
    TTL = 2
    MaxFill = 1
INVARIANTS
    MarkedTextIsFlagged
    UnmarkedTextIsNot
