CONSTANTS
  i1 = i1
  e1 = e1
  t1 = t1
  t2 = t2
  doing = doing
  done = done
  Intents <- TheIntents
  BatchId = {b1}
  IterationId = {r1, r2}
  Task = {t1}
  Event = {e1}
  Receipts <- TheReceipts
  MaxCount = 2
  MaxUntold = 1
  None = None
  x1 = x1
  x2 = x2
  Proc = {x1, x2}
  Issue = {issue}
  DoingTask = doing
  DoneTask = done
  DoingNumber = 2
  DoneNumber = 1
  RefHighest = 1
  Vacant = {"todo"}
  Asked = {3}
  MaxNumber = 4
  MaxActs = 1
  Receipt = Receipt
  Absent = Absent
  Made = Made
SPECIFICATION Behaviour
INVARIANTS ToldHolds ReferencesStand CountersTrue ActiveKept
PROPERTIES NothingLostUnseen NumbersOnce
SYMMETRY Symmetric
CHECK_DEADLOCK FALSE
