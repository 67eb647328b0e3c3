---------------------------- MODULE MCLifecycle -----------------------------
EXTENDS Lifecycle

MCFile(params) == [params |-> params, odd |-> FALSE, long |-> FALSE]

Complete == [k \in Keys |-> "usable"]

\* The file of the repository, and files with something missing or wrong.
MCFiles ==
    { MCFile(Complete),
      MCFile([Complete EXCEPT !["network.port"] = "unusable"]),
      MCFile([Complete EXCEPT !["network.thread_pool_size"] = "unusable"]),
      MCFile([k \in Keys \ {"dht.friendlist", "network.ip", "dht.alpha"} |-> "usable"]),
      [MCFile(Complete) EXCEPT !.odd = TRUE],
      [MCFile(Complete) EXCEPT !.long = TRUE] }

\* Every first word, and second words that differ in all, some and no bits.
MCNodeIds == { h \in Bytes : h[1] \in {0, 6, 15} }
=============================================================================
