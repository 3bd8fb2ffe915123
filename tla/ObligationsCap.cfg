SPECIFICATION Spec
CONSTANTS
    r1 = r1
    r2 = r2
    e1 = e1
    e2 = e2
    e3 = e3
    c1 = c1
    c2 = c2
    Nobody = Nobody
    Rows = {r1, r2}
    Calls = {c1, c2}
    Id <- TwoIds
    Engines = {e1}
    Lasting = {}
    MaxAttempts = 1
    MaxRows = 1
    WritesFail = FALSE
PROPERTIES OwedOutlivesSettled
\* Obligations and incarnations are finite: a run ends when all is settled.
CHECK_DEADLOCK FALSE
