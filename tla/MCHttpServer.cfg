CONSTANTS
    Kinds = {"call", "deferred", "stop", "missing"}
    MaxRequests = 2
    Clients = {"any", "coin"}
SPECIFICATION Spec
CHECK_DEADLOCK FALSE
 
PROPERTIES CallsEnd ConnectionsEnd
