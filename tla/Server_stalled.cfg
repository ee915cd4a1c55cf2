SPECIFICATION StalledSpec
CONSTANTS
    c1 = c1  c2 = c2  c3 = c3
    q1 = q1  q2 = q2
    web = web  api = api
    None = None
    Calls = {c1, c2}
    Queues = {q1}
    Services = {web, api}
    Target <- MCTarget
    Serves <- MCServes
    Errors = {"ProtocolError"}
    HttpCap = 1
    ServiceCap = 1
    BusCap = 1
    MaxEpoch = 1
PROPERTY PendingDrains
CHECK_DEADLOCK FALSE
