-------------------------- MODULE MCMigrateImports --------------------------
\* Two old paths that have become one, and a third.
EXTENDS MigrateImports

MCUpdates == <<<<"old1", "new1">>, <<"old2", "new1">>, <<"old3", "new3">>>>
=============================================================================
