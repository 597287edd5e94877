SPECIFICATION Spec
CHECK_DEADLOCK FALSE
INVARIANTS
  SyntaxKept
  EvaluationLaws
  FlowSound
  CompiledTree
  RequestsBuilt
  TelemetryRight
