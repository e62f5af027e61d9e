\* Two opens of one image and one of another, two pool slots, a sequence
\* byte of two values: duplicates, refusals, every error path in five creates.
SPECIFICATION Spec
CONSTANTS
    Handle = {h1, h2, hx}
    ForeignHandle = {hx}
    f1 = f1
    f2 = f2
    f3 = f3
    imgA = imgA
    imgB = imgB
    File = {f1, f2, f3}
    Image = {imgA, imgB}
    ImageOf <- TwoOpensOfOneImage
    Disk = {d1, d2}
    NodeSpan = 2
    MaxSeq = 5
    None = None
    ForeignIo = ForeignIo
INVARIANTS IInv PublishedIntact NoLeak OneOwner RefusedOnlyAfterWrap
PROPERTIES CreateAllOrNothing StableWhilePublished RegistrySpec
