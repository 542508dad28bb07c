---------------------------- MODULE MCEncryptUsb ----------------------------
(* One drive, formatted with any of the file systems a user may bring. *)
EXTENDS EncryptUsb

Formats == {"FAT32", "FAT16", "NTFS", "ExFAT", "HFS+"}
=============================================================================
