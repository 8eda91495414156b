---------------------------- MODULE MCDatabasePool ----------------------------
\* Every constant of DatabasePool is a number: the .cfg files give them.
EXTENDS DatabasePool
=============================================================================
