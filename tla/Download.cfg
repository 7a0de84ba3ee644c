SPECIFICATION FairSpec
CONSTANTS
  Local = local
  Remote = remote
  ID = {local, remote}
  Fetcher = fetcher
  Server = server
  Thread = {fetcher, server, t1, t2}
  Faults = {"cut", "read", "disk", "restart"}
INVARIANTS CacheTypeOK LocksExclude NeverHalfWritten FreshDir DownloadedWhole JustDownloadedFound
PROPERTIES ReadersUndisturbed ServerUnlocks FetchEnds
