SPECIFICATION Spec
CONSTANTS
  d1 = d1
  d2 = d2
  d3 = d3
  file1 = file1
  file2 = file2
  m1 = m1
  m2 = m2
  proc1 = proc1
  proc2 = proc2
  sess1 = sess1
  sess2 = sess2
  v1 = v1
  v2 = v2
  v3 = v3
  ann = ann
  bob = bob
  j1 = j1
  j2 = j2
  j3 = j3
  k1 = k1
  k2 = k2
  c1 = c1
  c2 = c2
  c3 = c3
  s1 = s1
  s2 = s2
  s3 = s3
  f1 = f1
  f2 = f2
  f3 = f3
  w1 = w1
  w2 = w2
  Decision = {d1, d2, d3}
  FileOf <- MCFileOf
  Merge = {m1, m2}
  ScribePlan <- MCScribePlan
  Upkeep <- MCUpkeep
  Service = {"upkeep", "store", "recovery", "ingestion", "chunker", "routing", "update", "editor", "clarify",
             "definitions", "overrides", "skills", "resume"}
  Blank = Blank
  None = None
  Refresh = {j1, j2}
  Percent = {50, 70, 89, 90, 100}
  RalphPlan <- MCRalphPlan
  MaxTime = 1
  Process = {proc1, proc2}
  Session = {sess1, sess2}
  SessionOf <- MCSessionOf
  Save = {v1, v2, v3}
  ProcessOf <- MCProcessOf
  IdOf <- MCIdOf
  Measure <- MCMeasure
  StorePlan <- MCStorePlan
  Nothing = Nothing
  Total = 100
  RecoveryInput <- MCRecoveryInput
  Doc = {file1, file2}
  Job = {j1, j2, j3}
  ChunksOf <- MCChunksOf
  IngestionPlan <- MCIngestionPlan
  Nobody = Nobody
  Document <- MCDocument
  Target = 8
  Overlap = 2
  MinTokens = 4
  Pending = Pending
  Table <- MCTable
  Signal <- MCSignal
  Routes = 3
  NoAnswer = NoAnswer
  Old = 1
  New = 2
  UpdatePlan <- MCUpdatePlan
  Letter = {"w", "-", "W"}
  WordChar = {"w"}
  Wide = {"W"}
  Paste <- MCPaste
  Width = 3
  Height = 2
  MaxLength = 5
  ClarifyPlan <- MCClarifyPlan
  MaxKeys = 9
  Models <- MCModels
  Preferred = "q"
  AllLevels <- MCLevels
  File = {"x", "y", "z"}
  Reading <- MCReading
  Skills <- MCSkills
  Query <- MCQuery
  Unset = Unset
  Off = Off
  Nowhere = Nowhere
  Call = {c1, c2, c3}
  DefinitionPlan <- MCDefinitionPlan
  NoName = NoName
  Saver = {s1, s2, s3}
  OverridePlan <- MCOverridePlan
  Undefined = Undefined
  Cleared = Cleared
  SkillFile = {f1, f2, f3}
  SearchOf <- MCSearchOf
  SkillRequest <- MCSkillRequest
  Reserved = "orchestration"
  MaxCached = 2
  MaxSkillTime = 3
  MaxChanges = 2
  NoFile = NoFile
  ResumePlan <- MCResumePlan
  NoIndex = NoIndex
INVARIANTS DropBox FindingsAgree SessionsHold RecoveryEnds BothOrNeither Ingested RoutedBest ChunksHold DialogHolds DefinitionsHold OverridesHold SkillsHold ResumesRight
CHECK_DEADLOCK FALSE
