\* Two Products that compete for two codes and for two runs; two client ids, each of
\* which any command may carry, first or again, at any revision read so far.
SPECIFICATION Spec
CONSTANTS
    ProductIDs = {p1, p2}
    RunIDs = {r1, r2}
    ClientIDs = {c1, c2}
    Codes = {code, code2}
    ProductCommands = {edit}
    StartCommands = {start}
    RunCommands = {work}
    DemoProduct = p1
    DemoCode = code
    NoClient = NoClient
    NoRun = NoRun
    MaxRevision = 3
SYMMETRY Symmetry
INVARIANTS
    StoreInvariant
    RunsAreBooked
    AppliedOnce
    NoLostUpdate
    AnswerIsOriginal
PROPERTIES
    ImplementsCommandLedger
\* Without a client id left and with every document at the bound, only refusals remain.
CHECK_DEADLOCK FALSE
