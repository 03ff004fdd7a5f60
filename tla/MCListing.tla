------------------------------ MODULE MCListing ------------------------------
(* Listing on one account: a folder with a nested folder and a picture, and  *)
(* a single file of the same release, stored under a suffixed name.          *)
EXTENDS Listing

MCTransfers == {"show", "copy"}
MCNodes     == {"dir", "ep1", "extras", "ep2", "cover", "single"}
MCNames     == {"Show", "Show_2", "a", "b", "c"}
MCRoot      == [t \in MCTransfers |-> IF t = "show" THEN "dir" ELSE "single"]
MCHome      == [n \in MCNodes |-> IF n = "single" THEN "copy" ELSE "show"]

MCChildren ==
  [n \in MCNodes |->
    CASE n = "dir"    -> {"ep1", "extras", "cover"}
      [] n = "extras" -> {"ep2"}
      [] OTHER        -> {}]

MCKind ==
  [n \in MCNodes |->
    CASE n \in {"dir", "extras"} -> "folder"
      [] n = "cover"             -> "other"
      [] OTHER                   -> "file"]

MCNodeName ==
  [n \in MCNodes |->
    CASE n = "dir"            -> "Show"
      [] n = "single"         -> "Show_2"
      [] n \in {"ep1", "ep2"} -> "a"
      [] n = "extras"         -> "b"
      [] n = "cover"          -> "c"]

MCTransferName == [t \in MCTransfers |-> "Show"]
=============================================================================
