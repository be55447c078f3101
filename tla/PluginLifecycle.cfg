SPECIFICATION PluginSpec
CONSTANTS
  Requests = {r1, r2}
  Bodies <- MCBodies
  NoBody = NoBody
  MaxTargets = 2
  Files <- MCFiles
  MaxStarts = 2
INVARIANT DownMeansDown
INVARIANT DrainsFirst
INVARIANT StatusTellsTheText
INVARIANT TasksAreAsked
INVARIANT SavedTokenWorks
INVARIANT SettingsWork
PROPERTY NoImageAfterClose
PROPERTY TerminateReturns
PROPERTY StopsInOrder
