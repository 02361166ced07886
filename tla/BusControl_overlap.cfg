SPECIFICATION Spec
CONSTANTS
    Net = net
    Files = {f1, f2, f3}
    Plug = plug
    Early = {}
    HasSilent = TRUE
SYMMETRY FileSymmetry
INVARIANT StartedMeansOn
