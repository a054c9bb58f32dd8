--------------------------- MODULE MCZoneWatcher ---------------------------
EXTENDS ZoneWatcher

\* Two files, so that one file's timer can fire while the other's waits.
MCFiles == {"a.example", "b.example"}

=============================================================================
