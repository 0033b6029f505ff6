----------------------------- MODULE MCTransfer -----------------------------
(***************************************************************************)
(* An entry with a folder in it, which holds one file, and a file beside.  *)
(***************************************************************************)
EXTENDS Transfer

CONSTANTS entry, folder, inner, outer

Tree ==
  [p \in {entry, folder, inner, outer} |->
     CASE p = entry  -> {folder, outer}
       [] p = folder -> {inner}
       [] OTHER      -> {}]

EntryOfAnyKind ==
  {[p \in {entry, folder, inner, outer} |->
      CASE p = entry  -> kind
        [] p = folder -> "folder"
        [] OTHER      -> "file"] : kind \in {"file", "folder", "package"}}
=============================================================================
