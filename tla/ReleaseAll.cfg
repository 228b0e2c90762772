CONSTANTS
    v1 = v1
    v2 = v2
    pkgs = pkgs
    phone = phone
    node = node
    Vers = {v1}
    Builds <- TwoBuilds
    Others = {pkgs}
    Pushers = {phone, node}
SPECIFICATION Spec
SYMMETRY Machines
INVARIANTS
    TypeOK
    ListedIsPublished
    NothingUnlisted
