CONSTANTS
    Ifaces <- MCIfaces
    SpecAddr <- MCSpecAddr
    ListenArrays <- MCListenArrays
    ListenHashes <- MCListenHashes
    LateBindOpts <- MCLateBindOpts
    ZoneKeys <- MCZoneKeys
    LabelBytes <- MCLabelBytes
    ZoneTtls <- MCZoneTtls
    MaxZones = 3
    Absent = Absent
    Over31 = Over31
SPECIFICATION Spec
INVARIANT TypeOK
INVARIANT DefaultListenersExact
INVARIANT ThreadNumsDense
INVARIANT SubzonesAreNearest
INVARIANT ZonesLoadIffValid
\* conf_load() returns or exits once; its final states have no successor.
CHECK_DEADLOCK FALSE
