\* A request that can wait, retry, fall back and run out of its budget in any
\* of these; two keys for a cache of one entry.
CONSTANTS
  Process = {"api", "bot"}
  Request = {1, 2, 3}
  ProcessOf <- MCProcessOf
  Key = {"k", "l"}
  Asks <- MCAsks
  Limit = 1
  MaxRetries = 1
  Models = 2
  Budget = 3
  HttpTimeout = 2
  RetryDelay <- MCDelays
  Ttl = 2
  MaxEntries = 1
SPECIFICATION Spec
INVARIANT OneChainAtATime
INVARIANT GivenBack
INVARIANT WithinBudget
PROPERTY NoPaidRepeat
