-------------------------- MODULE MCProjectStorage --------------------------
EXTENDS ProjectStorage

\* The steps before the buckets are alike; one stands for them.
MCChecks == <<"db_migration">>
=============================================================================
