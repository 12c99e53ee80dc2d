----------------------------- MODULE MCFileTransfer ------------------------------
(* A file of three chunks, the last one shorter, as a file is cut by FileChunkSize.  *)
EXTENDS FileTransfer

MCSent == [i \in 0 .. 3 |-> IF i = 3 THEN 5 ELSE 2 * i]
==================================================================================
