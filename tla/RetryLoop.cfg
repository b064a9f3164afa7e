SPECIFICATION FairSpec
CONSTANTS
  Mode = {"fast", "standard", "deep"}
  Strategy = {"Strict", "Lenient", "Continuation", "PromptPrefill"}
  Ceiling <- Ceilings
  Undecodable = Undecodable
  None = None
PROPERTY Returns
INVARIANTS TypeOK WireBounded NotPoisoned RepairIsLastResort
