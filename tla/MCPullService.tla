--------------------------- MODULE MCPullService ---------------------------
(* A tag, and the same tag pinned to a digest: two keys, one manifest file. *)
EXTENDS PullService, TLC

CONSTANTS tag, pinned, file

TagFile == (tag :> file) @@ (pinned :> file)
=============================================================================
