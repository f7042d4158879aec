\* Two objects, two bodies, one client that reads, modifies and writes.
CONSTANTS
    Names = {1, 2}
    Keys = {1, 2}
    Bodies <- MCBodies
    Patches <- MCPatches
    Clients = {c1}
    MaxRv = 3
    Objects <- MCObjects
    KeyOf <- MCKeyOf
    IndexKeys <- MCIndexKeys
    IndexEntries = {TRUE, FALSE}
    NoObject = NoObject
    Limits = {0, 1}
SPECIFICATION Spec
INVARIANTS NoLostUpdate LifeCycle CacheExact CacheConverges
CHECK_DEADLOCK FALSE
