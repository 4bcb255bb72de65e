SPECIFICATION Spec
CONSTANTS
  User = {alice, bob}
  Role = {admin, editor}
  AdminRole = admin
  Builtin = {admin}
  KeyRoles = {}
  Founders = {alice}
  FirstRoles = {admin, editor}
  Worker = {w1, w2}
  Cli = {}
  None = None
  Ops = {"create_user", "delete_role"}
  MaxPw = 0
PROPERTY NoOrphan
