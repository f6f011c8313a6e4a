SPECIFICATION Spec
CONSTANTS
    Users = {u1, u2}
    Demo = {u1}
    Workers = {w1, w2}
    Tokens = {s1, s2}
    Secrets = {x1, x2}
    Passwords = {demo, own}
    SeedPwd = demo
    TotpEnabled = TRUE
    MaxEpoch = 2
    None = None
SYMMETRY Symmetry
CONSTRAINT OneInTrouble
INVARIANTS
    WorkedAfterChange
    SessionsAreCurrent
PROPERTIES
    FactorChangesByProof
