CONSTANTS
  Documents = {d1, d2, d3}
  Apart = {d3}
  IssueTypes = {dup, tax}
  Duplicate = dup
  Audits = {a1, a2}
  Sweeps = {s1}
  Readers = {r1}
  MaxAudits = 3
  MaxAsks = 1
  Findings = {{}, {dup, tax}}
  MaxFaults = 1
  NoNote = NoNote
SPECIFICATION NotesSpec
CONSTRAINT MCFew
SYMMETRY AuditSymmetry
INVARIANTS
  NotesAreOfTheirDocument
  NotesAreUpToDate
CHECK_DEADLOCK FALSE
