SPECIFICATION Spec
CONSTANTS
  tsk1 = tsk1
  tsk2 = tsk2
  Tasks = {tsk1, tsk2}
  Keys = {"halo", "mineral", "museum", "not-exists"}
  Vals = {"code ocean", "in-depth knowledge", "electricity", "gallery"}
  Absent = Absent
  Failed = Failed
  QueueCap = 2
  Script <- ClientScripts
INVARIANTS SharedKeysAsRead
CHECK_DEADLOCK FALSE
