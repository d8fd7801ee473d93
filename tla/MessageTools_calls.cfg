SPECIFICATION Spec
CONSTANTS
  Call = {c1, c2}
  Tools <- AllTools
  Field = {f1}
  TraceField = traceparent
  Context = {x1}
  NoContext = NoContext
  Temperatures = {0, 10}
  NoTemperature = NoTemperature
  Verbs = {"POST", "GET"}
  NoVerb = NoVerb
SYMMETRY Callers
INVARIANTS MetadataKept SuccessIsTrue SessionsAreSeparate
