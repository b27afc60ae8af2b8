------------------------- MODULE MCRealtimeDatabase -------------------------
\* One client alone.
EXTENDS RealtimeDatabase

============================================================================
