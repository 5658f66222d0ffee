SPECIFICATION MCSpec
CONSTANTS
  r1 = r1
  r2 = r2
  NoRuntime = NoRuntime
  Runtimes <- MCRuntimes
  Dispatches <- MCDispatches
  Recording <- MCRecording
  Concurrency = 1
  SignalConcurrency = 1
  DnsLimit = 2
INVARIANT OutboundExact
PROPERTY OutboundSettles
CHECK_DEADLOCK FALSE
