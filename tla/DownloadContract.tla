--------------------------- MODULE DownloadContract ---------------------------
(***************************************************************************)
(* What one call of DownloadTransfer promises WatchDownloads about the     *)
(* local content of its transfer, whatever its files and goroutines do:    *)
(* content is whole behind a nil error, an error leaves something only     *)
(* where something was or a file was opened, and nothing changes after the *)
(* return.  The module TransferDownload implements it; the module Pipeline *)
(* takes a download for nothing else.                                      *)
(***************************************************************************)
VARIABLES phase,   \* the call has opened no file yet, has opened one, or its result
          content  \* what the local root holds, as its callers may rely on it

contractVars == <<phase, content>>

Contents == {"none", "partial", "full"}

ContractInit == phase = "grabbing" /\ content \in Contents

\* The first file is opened: from here on the content is the call's.
Open ==
  /\ phase = "grabbing"
  /\ phase' = "copying"
  /\ content' = "partial"

\* A nil error.  (An *arr app may have taken the content away meanwhile.)
Finish ==
  /\ phase = "copying"
  /\ phase' = "finished"
  /\ content' = IF content = "partial" THEN "full" ELSE content

\* Any error: what is left is anything, but nothing comes from nothing.
Fail(e) ==
  /\ phase \in {"grabbing", "copying"}
  /\ phase' = e
  /\ content' \in {d \in Contents : content = "none" => d = "none"}

ContractNext == Open \/ Finish \/ Fail("error") \/ Fail("missing")

ContractSpec == ContractInit /\ [][ContractNext]_contractVars
=============================================================================
