--------------------------- MODULE MCConfigReload ---------------------------
EXTENDS ConfigReload, TLC

CONSTANTS a1, a2, s1, s2

MCAdmin == {a1, a2}
MCSetting == {s1}
MCSettings == {s1, s2}
=============================================================================
