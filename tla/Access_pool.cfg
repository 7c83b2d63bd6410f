CONSTANTS
  Worker = {w1, w2}
  Conn = {c1}
  User = {root, bob, bot}
  Service = {bot}
  Root = root
  Tenant = {t1, t2}
  TenantOf <- Tenants
  NameOf <- Names
  Session = {s1, s2}
  Timeout = 1
  Granted = {"platform_admin", "analyst"}
  None = None
  root = root
  bob = bob
  bot = bot
  t1 = t1
  t2 = t2
SYMMETRY Symmetry
SPECIFICATION Spec
INVARIANTS TypeOK TenantIsolation RevocationHolds LoggedOutStaysOut
