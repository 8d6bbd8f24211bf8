SPECIFICATION Spec
SYMMETRY Symmetry
CONSTANTS
    Slugs = {s1}
    FieldSlugs = {f1}
    DataTypes <- MCTypesAndAutonumber
    NoColumnTypes <- MCNoColumnTypes
    Autonumber <- MCAutonumber
    Convertible <- MCConvertible
    AutoCast <- MCAutoCast
    StatusSlug <- MCStatusSlug
    StatusType <- MCStatusType
    Keep = Keep
    Absent = Absent
    Clients = {k1}
    CollectionIds = {c1, c2}
    FieldIds = {x1, x2}
    Labels = {l1}
    Ops <- AllOps
    RefreshMayFail = FALSE
    MaxMigrations = 3
    MaxInitialFields = 1
INVARIANTS
    TypeOK
    CacheFresh
    ColumnTypesMatch
    StatusColumnMatches
PROPERTIES
    SchemaChangesRecorded
