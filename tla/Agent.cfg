SPECIFICATION Spec
CONSTANTS
    MaxModelTurns = 3
    MaxToolCalls = 2
    Permissions <- CatalogRead
    TaskPermissions <- DocumentRead
    Tools <- OneTool
    Batches <- SomeBatches
    Definitions <- SomeDefinitions
    Compiles <- SomeCompile
    Catalogs <- TwoReleases
    Tab = {t1, t2}
    None = None
INVARIANTS BudgetInv AuditInv ConfirmedReviewed
SYMMETRY TabSymmetry
