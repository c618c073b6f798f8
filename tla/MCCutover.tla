----------------------------- MODULE MCCutover -----------------------------
(***************************************************************************)
(* Small instances of Cutover: r1 synchronizes before the go-live, r2 is   *)
(* the first run after it, r3 belongs to the release before.               *)
(***************************************************************************)
EXTENDS MCPipeline, Cutover

SyncThenRun == (r1 :> "sync") @@ (r2 :> "run") @@ (r3 :> "post")
OneGroup == [e \in Candidates |-> "serbia"]
SerbiaOnly == {"serbia"}
ReadyOnly == {"READY_TO_POST"}

\* The two applications, each with its own address, are interchangeable; used
\* for safety only.
Swap == {(c1 :> c2) @@ (c2 :> c1) @@ (m1 :> m2) @@ (m2 :> m1)}

=============================================================================
