CONSTANTS
    v1 = v1
    v2 = v2
    pkgs = pkgs
    phone = phone
    node = node
    Vers = {v1, v2}
    Builds <- TwoBuilds
    Others = {pkgs}
    Pushers = {phone}
SPECIFICATION Spec
INVARIANT DoneIsOnRelease
