SPECIFICATION FairSpec
CONSTANT Bits = 3
CHECK_DEADLOCK FALSE
INVARIANTS AtResponsible
PROPERTIES Halves DeliveredButForGap
