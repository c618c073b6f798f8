----------------------------- MODULE MCPipeline -----------------------------
(***************************************************************************)
(* Small instances of Pipeline for TLC: the Jobvite rows that tell the     *)
(* rules apart, two applications, up to four invocations.                  *)
(***************************************************************************)
EXTENDS Pipeline, TLC

CONSTANTS c1, c2, m1, m2, r1, r2, r3, r4

Eligible ==
  [workflow |-> "Mobility", relocation |-> "Yes", support |-> TRUE,
   office |-> TRUE, complete |-> TRUE]

MovedOn   == [Eligible EXCEPT !.workflow = "Other"]
Blanked   == [Eligible EXCEPT !.relocation = "Blank"]
Staying   == [Eligible EXCEPT !.relocation = "No"]
Unmapped  == [Eligible EXCEPT !.office = FALSE]
Nameless  == [Eligible EXCEPT !.complete = FALSE]
NoSupport == [Eligible EXCEPT !.support = FALSE]

EligibleOnly == {Eligible}
EligibleOrMoved == {Eligible, MovedOn}
EligibleOrBlanked == {Eligible, Blanked}
EligibleOrNameless == {Eligible, Nameless}
EveryVerdict == {Eligible, MovedOn, Staying, Unmapped, NoSupport, AbsentRow}

OwnAddress == (c1 :> m1) @@ (c2 :> m2)
SharedAddress == (c1 :> m1) @@ (c2 :> m1)
OneAddress == c1 :> m1

TwoRuns == (r1 :> "run") @@ (r2 :> "run")
OneRun == r1 :> "run"
EveryRun == [r \in Runs |-> "run"]

NormalSelection == (r1 :> "normal") @@ (r2 :> "normal")
OneNormal == r1 :> "normal"
ThreeNormal == [r \in Runs |-> "normal"]
EveryRoute == (r1 :> "normal") @@ (r2 :> "batch") @@ (r3 :> "batch") @@ (r4 :> "uat")

NoFile == (r1 :> <<>>) @@ (r2 :> <<>>)
OneNoFile == r1 :> <<>>
ThreeNoFile == [r \in Runs |-> <<>>]
FilesAndUat == (r1 :> <<>>) @@ (r2 :> <<c2, c1>>) @@ (r3 :> <<c1, c2, c1>>) @@ (r4 :> <<c1>>)

=============================================================================
