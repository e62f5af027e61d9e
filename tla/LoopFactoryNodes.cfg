\* The real width of the sequence byte, and one create more than it counts.
SPECIFICATION Spec
CONSTANTS
    Handle = {h1, h2}
    ForeignHandle = {}
    f1 = f1
    f2 = f2
    f3 = f3
    imgA = imgA
    imgB = imgB
    File = {f1, f2}
    Image = {imgA, imgB}
    ImageOf <- TwoImages
    Disk = {d1, d2}
    NodeSpan = 256
    MaxSeq = 257
    None = None
    ForeignIo = ForeignIo
SYMMETRY Interchangeable
INVARIANTS VendorNodesUnique
