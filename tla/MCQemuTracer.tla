---------------------------- MODULE MCQemuTracer ----------------------------
\* Small instances of QemuTracer for TLC.
EXTENDS QemuTracer

MCPcs == {10, 11, 12}
MCLibraries == {11}
MCMemAddrs == {4}
MCData == {0, 1}
MCSizes == {1}
MCSysNrs == {3, 100}
MCKillPoints == {"resize"}
=============================================================================
