\* Three files of one surface besides the fallback's: a proposal that is refused
\* after two of them still leaves room for the fallback's.
CONSTANTS
  j1 = j1
  Jobs = {j1}
  NoJob = NoJob
  Rule = Rule
  Edit = Edit
  terms = terms
  glossary = glossary
  units = units
  learned = learned
  manifest = manifest
  detour = detour
  Files <- MCFiles
  Paths <- MCPaths
  FileOf <- MCFileOf
  Quotable = {"serialization", "timeout", "model"}
  Shared = {terms, learned, manifest}
  Surfaces = {"semantics", "router"}
  SurfaceOf <- MCSurfaceOf
  FallbackFile <- MCFallbackFile
  Appending = {"router"}
  REACT_MAX_ATTEMPTS = 2
  MAX_MUTATION_FILES = 3
SPECIFICATION Spec
INVARIANT
  InfrastructureDoesNotMutate
CHECK_DEADLOCK FALSE
