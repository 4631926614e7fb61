SPECIFICATION StoreSpec
CONSTANTS
    Rows = {r1}
    Certs = {k1}
    Packages = {z1}
    None = None
PROPERTY OnlyV1Wiped
