SPECIFICATION Spec
CONSTANTS
    Token = {"c1", "s1"}
    TemplateOf <- MCTemplateOf
    LockAddress = {"l1"}
    Listings <- MCListings
    Opening <- MCOpening
    MaxChanges = 2
INVARIANTS
    CouponAnswerHasUsed
CHECK_DEADLOCK FALSE
