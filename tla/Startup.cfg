SPECIFICATION StartSpec
CONSTANTS
    Compositor = Compositor
    WmBase = WmBase
    Manager = Manager
    Global = {Compositor, WmBase, Manager, shm, s1, s2, o1, o2}
    Seats = {s1, s2}
    Outputs = {o1, o2}
    Versioned = {Compositor, shm, s1, s2, o1, o2}
    MaxOutputs = 1
    None = None
    MaxRequests = 2
    MaxEvents = 1
SYMMETRY Alike
INVARIANTS
    LockedByLivingLocker
CHECK_DEADLOCK FALSE
