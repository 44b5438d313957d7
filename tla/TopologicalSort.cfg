CONSTANT Tickets = {t1, t2, t3, t4}
SYMMETRY Symmetry
SPECIFICATION SortSpec
INVARIANT SortInv
INVARIANT ReportIsExact
CHECK_DEADLOCK FALSE
