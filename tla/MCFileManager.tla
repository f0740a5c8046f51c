--------------------------- MODULE MCFileManager ---------------------------
(* Loaders, clients, threads and saves of a few files, for TLC.            *)
EXTENDS FileManager
=============================================================================
