\* One Product and two runs that two starts create.
SPECIFICATION Spec
CONSTANTS
    ProductIDs = {p1}
    RunIDs = {r1, r2}
    ClientIDs = {c1, c2}
    Codes = {code}
    ProductCommands = {edit}
    StartCommands = {start}
    RunCommands = {work}
    DemoProduct = p1
    DemoCode = code
    NoClient = NoClient
    NoRun = NoRun
    MaxRevision = 3
INVARIANTS
    StartAnswerNamesItsRun
\* Without a client id left and with every document at the bound, only refusals remain.
CHECK_DEADLOCK FALSE
