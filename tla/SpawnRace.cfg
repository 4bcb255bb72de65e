SPECIFICATION Processes
CONSTANTS
  s1 = s1
  Starter = {s1, s2}
  Looker = {}
  Pid = {p1, p2}
  None = None
  Torn = Torn
  Faults = TRUE
  w1 = w1
  k = k
  alice = alice
  User = {alice, bob}
  Role = {admin, service}
  AdminRole = admin
  Builtin = {admin}
  KeyRoles = {service}
  Founders = {alice, bob}
  FirstRoles = {admin, service}
  Worker = {w1, w2}
  Cli = {}
  Ops = {"deactivate", "activate", "set_password", "login", "logout", "delete_role", "create_permission"}
  MaxPw = 1
INVARIANT OneRunning
