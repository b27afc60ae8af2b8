---------------------------- MODULE MCWriteTree ----------------------------
\* One client with enough writes of one location to hold one back, overtake it
\* and lose the connection.
EXTENDS WriteTree

============================================================================
