SPECIFICATION Spec
SYMMETRY Symmetry
CONSTANTS
    Slugs = {s1}
    FieldSlugs = {f1}
    DataTypes <- MCOneType
    NoColumnTypes = {}
    Autonumber = {}
    Convertible = {}
    AutoCast = {}
    StatusSlug <- MCStatusSlug
    StatusType <- MCStatusType
    Keep = Keep
    Absent = Absent
    Clients = {k1, k2}
    CollectionIds = {c1, c2}
    FieldIds = {x1, x2}
    Labels = {l1}
    Ops <- RollbackOps
    RefreshMayFail = FALSE
    MaxMigrations = 4
    MaxInitialFields = 0
PROPERTIES
    ImplementsCatalog
