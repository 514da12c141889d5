CONSTANTS
    base = base
    masked = masked
    grid = grid
    r1 = r1
    r2 = r2
    Names <- TwoCubes
    RuleSets <- OneDeep
    Requests <- ThreeRequests
    Readers = {r1, r2}
    Sizes = {1, 3}
    MaxCells = 2
    Entries = 2
    AdhocEntries = 2
    ByteBudget = 3
    AdhocBudget = 1
    MaxCommits = 2
SPECIFICATION CacheSpec
SYMMETRY Alike
INVARIANTS
  AnswersAreCurrent
PROPERTIES
  PoolsAreSound
