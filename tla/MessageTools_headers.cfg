SPECIFICATION Spec
CONSTANTS
  Call = {c1}
  Tools = {"invoke_service"}
  Field = {f1}
  TraceField = traceparent
  Context = {x1}
  NoContext = NoContext
  Temperatures = {0, 10}
  NoTemperature = NoTemperature
  Verbs = {"POST", "GET"}
  NoVerb = NoVerb
INVARIANTS HeadersSent
