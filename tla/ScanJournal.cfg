SPECIFICATION FairSpec
CONSTANTS
    p = p
    q = q
    s1 = s1
    s2 = s2
    Projects = {p, q}
    Sessions = {s1, s2}
    Texts = {1}
    Start <- Logs
    Nobody = Nobody
    Nothing = Nothing
    MaxLines = 2
    MaxChanges = 0
    MaxStops = 1
PROPERTY JournalConverges
