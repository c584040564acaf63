--------------------------- MODULE MCFileTransfer ---------------------------
(* FileTransfer for model checking: the instances are in the .cfg files.     *)
EXTENDS FileTransfer
=============================================================================
