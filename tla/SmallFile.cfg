SPECIFICATION Spec
CONSTANTS
  Local = local
  Remote = remote
  ID = {local, remote}
  Fetcher = fetcher
  Server = server
  Thread = {fetcher, server, t1, t2}
  Faults = {"open"}
INVARIANT DownloadedWhole
CHECK_DEADLOCK FALSE
