------------------------- MODULE MCPlatformSortRails -------------------------
(* Model-checking instance of PlatformSortRails.                          *)
EXTENDS PlatformSortRails

(* -EIO/-EINVAL, the two VFs, and an out-of-range VF such as 3.           *)
MCVfIdxValues == {-1, 0, 1, 3}
=============================================================================
