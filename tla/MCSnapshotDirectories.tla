-------------------------- MODULE MCSnapshotDirectories --------------------------
(* Two builders, two snapshot ids, two tables. *)
EXTENDS SnapshotDirectories, TLC
================================================================================
