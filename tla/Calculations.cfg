\* Every curve, comparison and card of small households, and small transforms.
SPECIFICATION Spec
CONSTANTS
    CurveRequests <- MCCurveRequests
    CompareRequests <- MCCompareRequests
    ca = ca
    on = on
    Geos = {ca, on}
    Months = 4
    Year = 2
    Transforms <- MCTransforms
    Normal <- MCNormal
    NoName <- MCNoName
    MaxDimensions = 2
    Cubes <- MCCubes
    Mappings <- MCMappings
    Requests <- MCRequests
INVARIANTS
    MetrInv
    PinsHold
PROPERTIES
    TransformSteps
CHECK_DEADLOCK FALSE
