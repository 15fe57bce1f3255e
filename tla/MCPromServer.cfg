\* Lifecycle of the metrics server against cancellation and failures.
SPECIFICATION Spec
INVARIANT TypeOK
INVARIANT NoOrphanListener
PROPERTY ServerQuiesces
\* Once the context is cancelled and both goroutines have returned, or
\* metrics are off, nothing is left to run.
CHECK_DEADLOCK FALSE
