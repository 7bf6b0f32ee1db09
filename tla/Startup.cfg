SPECIFICATION Spec
CONSTANTS
    Process = {p1, p2}
    Port = {8080, 9090}
    CertFiles <- Certificates
    KeyFiles <- PrivateKeys
    MaxLaunches = 3
    MaxFaults = 1
    MaxRows = 2
INVARIANTS StartTypeOK ServingIsComplete
PROPERTIES MarksSurviveStarts SomeoneComesUp
