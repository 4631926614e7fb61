SPECIFICATION StoreSpec
CONSTANTS
    Rows = {r1, r2, r3}
    Certs = {k1, k2}
    Packages = {z1}
    None = None
SYMMETRY Symmetry
INVARIANT StoreTypeOK SchemaReady AnsweredIsWhole ShowsItsCert
PROPERTY ImplementsTable
