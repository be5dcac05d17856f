--------------------------- MODULE MCCronScheduler ---------------------------
EXTENDS CronScheduler, TLC

CONSTANTS j1, j2, a1, a2

MCJob == {j1, j2}
MCInitial == {j1}
MCAdmin == {a1, a2}
MCAnyRoute == {a1}
MCPeriod == {1, 3}
=============================================================================
