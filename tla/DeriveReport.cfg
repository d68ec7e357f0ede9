SPECIFICATION SessionsSpec
CONSTANTS
  t = t
  idA = idA
  plan = plan
  OrphanName = OrphanName
  None = None
  Interactive = Interactive
  ToolName = {t}
  HookName = {h}
  SkillName = {k}
  CallId = {idA}
  Mode = {Interactive, plan}
  Model = {m}
  Tokens = {1}
  Usage = {spent}
  McpTool = {x}
  Stamp = {1, 3}
  Outcomes = {"success"}
  Window = 2
  Kinds <- AllKinds
  MaxEvents = 5
  MaxReported = 4
  Before <- InOrder
  UserBlocking = {t}
  AskUserThreshold = 1
  DefaultThreshold = 3
  ViewboxWidth = 10
INVARIANTS
    TimesAreSound
  ReportIsSound   
PROPERTY CommittedIsFinal
