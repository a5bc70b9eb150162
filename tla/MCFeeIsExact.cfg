\* Three suppliers with the same parts: a third of each side's deduction each,
\* rounded to 0.33.
SPECIFICATION AmtSpec
CONSTANTS
  AmtSuppliers = {s1, s2, s3}
  Cents = {15000}
  MaxItems = 3
  LegacyCents = {}
  LegacyRetailers = {}
  LegacyFees = {}
  MaxLegacyItems = 0
INVARIANT FeeIsExact
CHECK_DEADLOCK FALSE
