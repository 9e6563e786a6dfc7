------------------------------- MODULE MCWatcher --------------------------------
(***************************************************************************)
(* Two directories, one below the other, and a file in the inner one.      *)
(***************************************************************************)
EXTENDS StorageWatcher

MCDir == {"outer", "inner"}
MCFile == {"file"}
MCParent == [p \in MCDir \cup MCFile |->
  IF p = "outer" THEN Root ELSE IF p = "inner" THEN "outer" ELSE "inner"]
MCRawOps == {{"write"}, {"create", "write"}}

=============================================================================
