---------------------------- MODULE MCFileTransfer ----------------------------
(***************************************************************************)
(* The instance of FileTransfer for TLC: every file of up to three chunks. *)
(* The download of a file of several chunks sends the same bytes over and  *)
(* over and need not end: such a file is only uploaded.                    *)
(***************************************************************************)
EXTENDS FileTransfer

DownloadsOneChunk == downloads > 0 => OneChunk

MCFiles == BoundedSeq(Bytes, 3 * CHUNK_SIZE)
===============================================================================
