SPECIFICATION Spec
CONSTANTS
    Attempts = 4
    MaxCopies = 2
INVARIANTS TypeOK LossIsExact ReorderIsExact
PROPERTIES SlotIsItsOwn
\* The probe ends.
CHECK_DEADLOCK FALSE
