------------------------- MODULE MCNetworkBenchmark -------------------------
EXTENDS NetworkBenchmark

\* A line of three nodes.  The last two have equal hashes; the middle one tests
\* both its connections and has its peers in reverse order.
EqualHash == <<1, 2, 2>>
LinePeers == << <<2>>, <<3, 1>>, <<2>> >>

\* Three nodes that all have each other as peers, with consecutive hashes as of
\* the pods of one core set.
NextHash    == <<2, 3, 4>>
SortedPeers == << <<2, 3>>, <<1, 3>>, <<1, 2>> >>

\* Different figures for every test; the client of node1 saw no reverse traffic.
MCGoodEnd ==
  [t \in Nodes \X Nodes |->
     [sum_sent                   |-> {10 * t[1] + t[2]},
      sum_sent_bidir_reverse     |-> {t[1] + 10 * t[2]},
      sum_received_bidir_reverse |-> {IF t[1] = 1 THEN 0 ELSE t[1] + 10 * t[2] - 1},
      streams |-> << {}, {[min |-> 3 * t[2], mean |-> 3 * t[2] + 1,
                           max |-> 3 * t[2] + t[1] + 1]} >>]]

MCBadIntervals ==
  << [streams |-> <<[rtt |-> 9, sender |-> TRUE], [rtt |-> 50, sender |-> FALSE]>>,
      sum |-> {7}, reverse |-> {5}],
     [streams |-> <<[rtt |-> 2, sender |-> TRUE], [rtt |-> 0, sender |-> TRUE]>>,
      sum |-> {}, reverse |-> {}] >>
=============================================================================
