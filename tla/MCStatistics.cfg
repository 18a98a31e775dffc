SPECIFICATION Spec
CONSTANTS
    Documents  = {d1, d2}
    Operators  = {o1, o2}
    EventIds   = {e1, e2}
    Reports    = {r1, r2}
    CreatedAt  = {1, 3}
    Times      = {1, 2}
    TopLimit   = 1
    NoOperator = NoOperator
SYMMETRY Symmetry
INVARIANTS
    TypeOK
    StatementsAgree
    ReportsGrow
