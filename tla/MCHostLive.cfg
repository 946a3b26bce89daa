SPECIFICATION MCSpec
CONSTANT Clients = {t1, t2}
CONSTANT Nobody = Nobody
CONSTANT MaxGeneration = 1
CONSTANT MaxTimeouts = 1
CONSTANT Processes = {p1, p2}
CONSTANT Links = {l1, l2}
CONSTANT NoLink = NoLink
CONSTANT MaxLinks = 2
CONSTANT MaxScopeChanges = 1
PROPERTY HostProgress
CHECK_DEADLOCK FALSE
