CONSTANTS
  NoEditor = NoEditor
  left = left
  right = right
  sql = sql
  log = log
  Editor = {left, right}
  Document = {sql, log}
  DocumentOf <- MCDocumentOf
  Offset = {1, 2}
  MaxVersion = 3
  MaxGeneration = 2
SPECIFICATION FairSpec
INVARIANT
  TypeOK
PROPERTIES
  OpensWhereTyped
  LifecycleSpec
  TriggerWorkSettles
