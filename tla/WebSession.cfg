SPECIFICATION SessionSpec
CONSTANTS
  Users = {u, v}
  Tabs = {t1, t2}
  Changing = {u}
  Nobody = nobody
  MaxCaps = 1
  MaxLogins = 1
INVARIANTS SessionSound
PROPERTIES TabsAgree
CHECK_DEADLOCK FALSE
