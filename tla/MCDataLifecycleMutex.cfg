SPECIFICATION MutexSpec
CONSTANTS
  retention = retention
  erasure = erasure
  backup = backup
  restore = restore
  gateway = gateway
  cli = cli
  cli2 = cli2
  NoOp = NoOp
  Ops = {retention, erasure, backup, restore}
  Pids = {gateway, cli, cli2}
  Pid <- MCPid
  Handed <- MCHanded
INVARIANT OneOwner
PROPERTY KeepsLockPromise
CHECK_DEADLOCK FALSE
