SPECIFICATION LandingSpec
CONSTANTS
  Dims <- MCDims
  Facts <- MCFacts
  Agg = "agg_monthly_balance"
  Vendors = "dim_vendor"
  Refs <- MCRefs
  Keyed <- MCKeyed
  AtOnce = 2
  MaxLoads = 2
  MaxLosses = 1
INVARIANTS
  LandingTypeOK
  OneGeneration
  PublishedOrOwed
