SPECIFICATION Spec
CONSTANTS
    v = v
    w = w
    Torn = Torn
    Values <- TwoValues
    Capacity = 4
    Modulus = 8
PROPERTIES IsFifo
