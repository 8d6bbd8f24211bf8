SPECIFICATION Spec
SYMMETRY Symmetry
CONSTANTS
    Slugs = {s1}
    FieldSlugs = {f1}
    DataTypes <- MCOneType
    NoColumnTypes <- MCNoColumnTypes
    Autonumber = {}
    Convertible = {}
    AutoCast = {}
    StatusSlug <- MCStatusSlug
    StatusType <- MCStatusType
    Keep = Keep
    Absent = Absent
    Clients = {k1, k2}
    CollectionIds = {c1, c2}
    FieldIds = {x1, x2}
    Labels = {l1}
    Ops <- NoRollback
    RefreshMayFail = TRUE
    MaxMigrations = 4
    MaxInitialFields = 0
INVARIANTS
    MetaMatchesTables
    SlugIndexSound
PROPERTIES
    ImplementsCatalog
    SchemaChangesRecorded
