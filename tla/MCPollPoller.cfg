SPECIFICATION Spec
CONSTANTS
    Channels = {c1, c2, c3, c4}
    Fds = {3, 4, 5}
    None = none
SYMMETRY Symmetry
INVARIANTS TypeOK IndexOK WatchesEnabled
