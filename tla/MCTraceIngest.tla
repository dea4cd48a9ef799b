---------------------------- MODULE MCTraceIngest ----------------------------
\* Small instances of TraceIngest for TLC.
EXTENDS TraceIngest

MCPcs == {10}
MCData == {0}
MCSizes == {1}
\* Killed where the ingest thread may wait for the rest of the call for ever.
MCKilledInResize == {"resize"}
\* Killed anywhere else.
MCKilledElsewhere == {"body", "address", "clnum", "flags"}
MCLimits == {0, 1}
==============================================================================
