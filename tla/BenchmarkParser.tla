--------------------------- MODULE BenchmarkParser ---------------------------
(***************************************************************************)
(* parse_benchmark_results.py: from the iperf3 output of the benchmark     *)
(* pods to the report.                                                     *)
(*                                                                         *)
(* A node is the rank of its name in lexicographic order.  Throughput and  *)
(* round-trip times are whole numbers in the units of iperf3, and a mean   *)
(* is rounded down.  A value that may be missing is a set with at most one *)
(* element.  Retransmits, error texts and recv_mbps, which the script      *)
(* parses and never uses, are left out.                                    *)
(***************************************************************************)
EXTENDS Integers, FiniteSets, SequencesExt

CONSTANTS
  Nodes,  \* stellar-core nodes, each with one benchmark pod
  Hash,   \* sum of the characters of a node's name
  Peers   \* topology: the peers of each node, in its order

ASSUME NodesAssumption == Nodes \subseteq Nat /\ IsFiniteSet(Nodes)
ASSUME HashAssumption  == Hash \in [Nodes -> Nat]
ASSUME PeersAssumption ==
  Peers \in [Nodes -> Seq(Nodes)] /\ \A n \in Nodes : IsInjective(Peers[n])

-----------------------------------------------------------------------------
(* Lists and means. *)

\* The numbers of S in ascending order.
Ascending(S) ==
  CHOOSE s \in SetToSeqs(S) : \A i, j \in DOMAIN s : i < j => s[i] < s[j]

\* The entries of seq at the positions of S, in their order.
Entries(seq, S) == [k \in DOMAIN Ascending(S) |-> seq[Ascending(S)[k]]]

\* The value of a field that may be missing.
Get(field, default) == IF field = {} THEN default ELSE CHOOSE v \in field : TRUE

\* The fields of a family that are there, with their values.
Present(fields) == [i \in {i \in DOMAIN fields : fields[i] # {}} |-> Get(fields[i], {})]

SumOver(f, S) == FoldFunctionOnSet(+, 0, f, S)

\* statistics.mean of a family of values that is not empty.
MeanOf(f) == SumOver(f, DOMAIN f) \div Cardinality(DOMAIN f)

-----------------------------------------------------------------------------
(* What iperf3 writes about a test. *)

\* Round-trip times of a stream or a node.
Rtts == {t \in [min : Nat, mean : Nat, max : Nat] : t.min <= t.mean /\ t.mean <= t.max}

TestEnd ==
  [sum_sent : SUBSET Nat, sum_sent_bidir_reverse : SUBSET Nat,
   sum_received_bidir_reverse : SUBSET Nat, streams : Seq(SUBSET Rtts)]

TestIntervals ==
  Seq([streams : Seq([rtt : Nat, sender : BOOLEAN]), sum : SUBSET Nat, reverse : SUBSET Nat])

-----------------------------------------------------------------------------
(* Which of two nodes tests the connection between them. *)

\* Mutant of should_node_initiate_test: no fallback for equal hashes.
InitiateNoFallback(node1, node2) ==
  IF (Hash[node1] + Hash[node2]) % 2 = 0
  THEN Hash[node1] < Hash[node2]
  ELSE Hash[node1] > Hash[node2]

\* The parity of the XOR of the hashes is that of their sum.
should_node_initiate_test(node1, node2) ==
  IF Hash[node1] = Hash[node2] THEN node1 < node2
  ELSE IF (Hash[node1] + Hash[node2]) % 2 = 0
       THEN Hash[node1] < Hash[node2]
       ELSE Hash[node1] > Hash[node2]

tested_peers(n) ==
  Entries(Peers[n], {i \in DOMAIN Peers[n] : should_node_initiate_test(n, Peers[n][i])})

-----------------------------------------------------------------------------
(* One iperf3 result. *)

\* min, mean and max of the samples, if there are any.
RttOfSamples(samples) ==
  IF DOMAIN samples = {} THEN {}
  ELSE {[min  |-> Min(Range(samples)),
         mean |-> MeanOf(samples),
         max  |-> Max(Range(samples))]}

\* Mutant of RttOfStats: the minimum is the largest of the minima.
RttOfStatsWorstMin(stats) ==
  IF DOMAIN stats = {} THEN {}
  ELSE {[min  |-> Max({stats[i].min : i \in DOMAIN stats}),
         mean |-> MeanOf([i \in DOMAIN stats |-> stats[i].mean]),
         max  |-> Max({stats[i].max : i \in DOMAIN stats})]}

\* min of mins, mean of means, max of maxs.
RttOfStats(stats) ==
  IF DOMAIN stats = {} THEN {}
  ELSE {[min  |-> Min({stats[i].min : i \in DOMAIN stats}),
         mean |-> MeanOf([i \in DOMAIN stats |-> stats[i].mean]),
         max  |-> Max({stats[i].max : i \in DOMAIN stats})]}

(* The sender side of a stream has all three of min_rtt, mean_rtt and max_rtt, *)
(* as iperf3 writes them, or none.                                             *)
extract_rtt_from_streams(streams) == RttOfStats(Present(streams))

NoResult == [send |-> 0, reverse_send |-> 0, reverse_recv |-> 0, rtt |-> {}]

\* Round-trip times of the sending streams of every interval; 0 is no sample.
IntervalSamples(intervals) ==
  LET Stream(p) == intervals[p[1]].streams[p[2]]
      streams   == UNION {{i} \X DOMAIN intervals[i].streams : i \in DOMAIN intervals}
  IN  [p \in {p \in streams : Stream(p).sender /\ Stream(p).rtt # 0} |-> Stream(p).rtt]

\* What can be had of a test that ended with an error: the throughput of the
\* last interval that has one.
PartialResult(intervals) ==
  LET summed == {i \in DOMAIN intervals : intervals[i].sum # {}}
      last   == IF summed = {} THEN [sum |-> {}, reverse |-> {}]
                ELSE intervals[Max(summed)]
  IN  [send         |-> Get(last.sum, 0),
       reverse_send |-> 0,
       reverse_recv |-> Get(last.reverse, 0),
       rtt          |-> RttOfSamples(IntervalSamples(intervals))]

(* The end section, if there is one, overrides what the intervals gave, except *)
(* for the round-trip times.  Text that is not JSON gives NoResult.            *)
parse_iperf3_json(json) ==
  LET start == IF json.error THEN PartialResult(json.intervals) ELSE NoResult
  IN  IF ~json.valid THEN NoResult
      ELSE IF json.error /\ start.send = 0 /\ start.reverse_recv = 0 THEN start
      ELSE [send         |-> Get(json.end.sum_sent, start.send),
            reverse_send |-> Get(json.end.sum_sent_bidir_reverse, 0),
            reverse_recv |-> Get(json.end.sum_received_bidir_reverse, start.reverse_recv),
            rtt          |-> IF start.rtt # {} THEN start.rtt
                             ELSE extract_rtt_from_streams(json.end.streams)]

-----------------------------------------------------------------------------
(* aggregate_bidirectional_results.  pods maps the nodes whose pod is in the   *)
(* input to [named, output]: named if its log told the node's name (otherwise  *)
(* the script uses the name of the pod, which is in no topology), and its      *)
(* results, each with the peer it really tested.                               *)

Named(pods) == {n \in DOMAIN pods : pods[n].named}

(* The output is cut where a document that ends in a brace is followed by one  *)
(* that begins with one: text after a document joins it to the next, and the   *)
(* two together are not JSON.                                                  *)
JsonResult(output, i) ==
  IF i > 1 /\ ~output[i - 1].json.valid THEN NoResult
  ELSE parse_iperf3_json(output[i].json)

\* Results without any measurement are left out.
test_results(output) ==
  LET results  == [i \in DOMAIN output |->
                     [tested |-> output[i].peer, result |-> JsonResult(output, i)]]
      measured == {i \in DOMAIN output : LET r == results[i].result
                                        IN  r.send > 0 \/ r.reverse_recv > 0 \/ r.rtt # {}}
  IN  Entries(results, measured)

\* A result is credited to the tested peer with the same index.
Credits(pods) ==
  UNION {LET peers   == tested_peers(n)
             results == test_results(pods[n].output)
         IN  {[from |-> n, to |-> peers[i], tested |-> results[i].tested,
               result |-> results[i].result] : i \in DOMAIN peers \cap DOMAIN results}
         : n \in Named(pods)}

reverse_throughput(r) == IF r.reverse_recv # 0 THEN r.reverse_recv ELSE r.reverse_send

Forward(S) == SumOver([c \in S |-> c.result.send], S)
Backward(S) == SumOver([c \in S |-> reverse_throughput(c.result)], S)

\* cs are the credits, known the nodes that have metrics.
total_send(cs, n) ==
  Forward({c \in cs : c.from = n}) + Backward({c \in cs : c.to = n})

\* Mutant of total_recv: the reverse direction is taken as the peer reports it.
TotalRecvAsSent(cs, known, n) ==
  Forward({c \in cs : c.to = n})
    + LET back == {c \in cs : c.from = n /\ c.to \in known}
      IN  SumOver([c \in back |-> c.result.reverse_send], back)

\* The reverse direction counts only if the peer has metrics.
total_recv(cs, known, n) ==
  Forward({c \in cs : c.to = n}) + Backward({c \in cs : c.from = n /\ c.to \in known})

\* update_rtt_metrics for both ends, and the mean of finalize_node_metrics.
node_rtt(cs, n) ==
  RttOfStats(Present([c \in {c \in cs : n \in {c.from, c.to}} |-> c.result.rtt]))

finalize_node_metrics(cs, known, n) ==
  LET send == total_send(cs, n)
      recv == total_recv(cs, known, n)
  IN  [send |-> send, recv |-> recv, rtt |-> node_rtt(cs, n),
       peer_count |-> IF send > 0 \/ recv > 0 THEN Len(Peers[n]) ELSE 0]

NoMetrics == [send |-> 0, recv |-> 0, rtt |-> {}, peer_count |-> 0]

aggregate_bidirectional_results(pods, cs) ==
  [n \in DOMAIN pods |-> IF pods[n].named THEN finalize_node_metrics(cs, Named(pods), n)
                         ELSE NoMetrics]

TotalSend(metrics) == SumOver([n \in DOMAIN metrics |-> metrics[n].send], DOMAIN metrics)
TotalRecv(metrics) == SumOver([n \in DOMAIN metrics |-> metrics[n].recv], DOMAIN metrics)

\* The warning: more than 5% of what was sent.
validate_network_balance(metrics) ==
  LET s == TotalSend(metrics)
      r == TotalRecv(metrics)
  IN  s > 0 /\ 20 * (IF s > r THEN s - r ELSE r - s) > s

\* main: -1 stands for no traffic.
Results(metrics) ==
  [n \in DOMAIN metrics |->
     [metrics[n] EXCEPT !.send = IF @ > 0 THEN @ ELSE -1,
                        !.recv = IF @ > 0 THEN @ ELSE -1]]

(* format_benchmark_results: the averages, over the nodes that have traffic.   *)
(* The -1 of a node with traffic one way only is among the numbers averaged.   *)
format_benchmark_results(results) ==
  LET valid   == {n \in DOMAIN results : results[n].send > 0 \/ results[n].recv > 0}
      peered  == {n \in valid : results[n].peer_count > 0}
      Mean(f) == IF DOMAIN f = {} THEN 0 ELSE MeanOf(f)
      peers   == [n \in DOMAIN results |-> results[n].peer_count]
  IN  [nodes             |-> Cardinality(DOMAIN results),
       avg_peers         |-> Mean(peers),
       total_connections |-> SumOver(peers, DOMAIN results),
       avg_send_total    |-> Mean([n \in valid |-> results[n].send]),
       avg_recv_total    |-> Mean([n \in valid |-> results[n].recv]),
       avg_send_per_peer |-> Mean([n \in peered |-> results[n].send \div results[n].peer_count]),
       avg_recv_per_peer |-> Mean([n \in peered |-> results[n].recv \div results[n].peer_count]),
       rtt               |-> RttOfStats(Present([n \in valid |-> results[n].rtt])),
       not_available     |-> {n \in DOMAIN results :
                                results[n].send < 0 /\ results[n].recv < 0}]

\* What main prints, with what it is made of.
main(credits, metrics, results) ==
  [credits |-> credits,
   metrics |-> metrics,
   results |-> results,
   warning |-> validate_network_balance(metrics),
   summary |-> format_benchmark_results(results)]
=============================================================================
