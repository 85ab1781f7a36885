---------------------------- MODULE MCShutdown ----------------------------
(* Three inodes: cache.json, its temporary file and the one to come.       *)
EXTENDS Shutdown
CONSTANTS i1, i2, i3, j1, j2, h1
=============================================================================
