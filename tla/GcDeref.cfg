SPECIFICATION Spec
CONSTANTS
    c1 = c1
    c2 = c2
    c3 = c3
    Cells = {c1, c2, c3}
    r1 = r1
    r2 = r2
    Regs = {r1, r2}
    Nil = Nil
    Kinds = {"object", "ref"}
    MaxSpecial = 1
    Helpers = FALSE
    DerefsUnmarked = TRUE
SYMMETRY Symmetry
INVARIANTS
    NoDangling
