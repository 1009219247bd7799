SPECIFICATION Spec
CONSTANTS
    a = a
    b = b
    none = none
    Instances = {a, b}
    NoInstance = none
    MaxEpoch = 3
    MaxToken = 2
    MaxVersion = 2
PROPERTIES OldOwnerRefused
