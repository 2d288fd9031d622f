------------------------------ MODULE ReportFile -------------------------------
(***************************************************************************)
(* The report a lab writes.  The write_report functions look at the stream *)
(* when it is opened and when everything has been handed to it; what its   *)
(* buffer still holds goes to the disk when the stream is destroyed, and   *)
(* nobody looks at that.                                                   *)
(***************************************************************************)

VARIABLE report  \* "none", "cut" or "whole": what this process has left on the disk

\* The outcomes of write_report for a path.
WriteReport(path, written) ==
  \/ written = FALSE /\ UNCHANGED report                        \* the file cannot be opened
  \/ path # "" /\ written = FALSE /\ report' = "cut"            \* the buffer could not be written
  \/ path # "" /\ written = TRUE /\ report' \in {"cut", "whole"} \* the last of it is not looked at
===============================================================================
