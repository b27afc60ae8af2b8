----------------------- MODULE MCPersistentConnection -----------------------
EXTENDS PersistentConnection

============================================================================
