---------------------------- MODULE MCReporting ----------------------------
(***************************************************************************)
(* Small instances of Reporting, with the rows and maps of MCPipeline.     *)
(***************************************************************************)
EXTENDS MCPipeline, Reporting

=============================================================================
