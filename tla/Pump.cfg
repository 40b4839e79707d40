SPECIFICATION FairSpec
CONSTANTS
  a = a
  b = b
  t1 = t1
  t2 = t2
  Thread = {a, b}
  Main = a
  Prio <- Urgent
  Alarm = {t1, t2}
  Delay <- Delays
  Periodic = {t1}
  Callback = {c1, c2}
  Null = Null
  MaxToProcess = 2
  MaxCallbacks = 1
  MaxTime = 2
PROPERTIES
  InterruptsRunToEnd
  ImplementsServer
  AlarmsInOrder
  CallbacksDelivered
  AlarmsFire
