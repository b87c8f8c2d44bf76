SPECIFICATION Spec
CONSTANT MaxEdits = 0
INVARIANT NoLutStays
