SPECIFICATION Spec
CONSTANTS
    d1 = d1  d2 = d2  f1 = f1  f2 = f2
    Dev <- TwoDevices
    File <- OneFile
    MaxDevices = 1
    NoDev = NoDev
    Dangling = Dangling

PROPERTY DmaStoppedFirst
