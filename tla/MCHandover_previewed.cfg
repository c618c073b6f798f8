\* The gender that is posted is not in the workbook.
SPECIFICATION Spec
CONSTANTS
  c1 = c1
  c2 = c2
  Candidates = {c1, c2}
  Rows <- SomeRows
  RefData <- Lists
  StartMonth <- November
  MaxChanges = 1
SYMMETRY Alike
INVARIANTS
  PreviewIsWhatIsSent
