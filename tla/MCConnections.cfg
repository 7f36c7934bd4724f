CONSTANTS
    e1 = e1   e2 = e2
    Endpoints = {e1, e2}
    Nowhere = Nowhere
    Seeds = {e1}
    Slots = {1, 2}
    MaxOutbound = 2
    MaxInbound = 1
    Lists <- ListOrPool
SPECIFICATION Spec
CHECK_DEADLOCK FALSE
INVARIANTS PeersAreManaged OutboundAreDistinct PlacesAreFilled
PROPERTY PeersEnd
