\* The three look-ups of resolve.
CONSTANT
    Lookups = {l1, l2, l3}
SPECIFICATION DnsFairSpec
INVARIANT FailsWhenCancelled
PROPERTY LookupsEnd
CHECK_DEADLOCK FALSE
