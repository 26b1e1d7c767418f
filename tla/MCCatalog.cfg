SPECIFICATION FairSpec
CONSTANTS
    visit = visit
    dance = dance
    Nobody = Nobody
    Seed = Seed
    Requests = {r1, r2}
    Slugs = {s1, s2}
    Emails = {e1}
    Demo = {s1, s2}
    MaxSize = 2
    Types <- MCTypes
    TypesAsked <- MCTypesAsked
    Sizes <- MCSizes
INVARIANTS
    CatalogInv
    SeedAllOrNothing
    PagesComplete
PROPERTIES
    DeniedOnlyWhileLoading
    RequestsAnswered
