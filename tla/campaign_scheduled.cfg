SPECIFICATION Spec
CONSTANTS
    p1 = p1  p2 = p2  u1 = u1  u2 = u2  c1 = c1
    Passes = {p1}
    Users = {}
    Customers = 2
    Crons = {c1}
    Sources = {"SEGMENT"}
    BatchSize = 2
    Heartbeat = 1
    Stale = 2
    MaxDelivery = 2
    MaxDeaths = 1
    NoPass = NoPass
PROPERTY ScheduledIsFired
