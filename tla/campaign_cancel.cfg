SPECIFICATION Spec
CONSTANTS
    p1 = p1  p2 = p2  u1 = u1  u2 = u2  c1 = c1
    Passes = {p1}
    Users = {u1, u2}
    Customers = 2
    Crons = {}
    Sources = {"UPLOAD", "SEGMENT"}
    BatchSize = 2
    Heartbeat = 1
    Stale = 2
    MaxDelivery = 2
    MaxDeaths = 1
    NoPass = NoPass
PROPERTY CancelledStaysCancelled
