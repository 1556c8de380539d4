\* An image that was drawn in the document before.
SPECIFICATION Spec
CONSTANTS
    p1 = p1
    p2 = p2
    i1 = i1
    a1 = a1
    MaxGeneration = 9
    MaxWritePosition = 99
    PageObjects = {p1, p2}
    Images = {i1}
    Opacities = {a1}
    Clients <- ClientWithAnImageAgain
INVARIANT ReferencesResolve
