--------------------------- MODULE MonitorReport ----------------------------
(***************************************************************************)
(* MonitorTask.create_report_file: for the nodes, then for their virtual   *)
(* machines, a table of means, the course of each metric on the hosts with *)
(* the highest means, and the disks of every host.                         *)
(***************************************************************************)
EXTENDS ReportTask

CONSTANTS
  MonitorAnswers,  \* what the database may hold: host -> metric -> mean
  TopN

ASSUME MonitorAssumption ==
  /\ TopN \in Nat \ {0}
  /\ \A a \in MonitorAnswers :
       /\ DOMAIN a \subseteq Nat /\ DOMAIN a # {} /\ IsFiniteSet(DOMAIN a)
       /\ \A h \in DOMAIN a : \A m \in DOMAIN a[h] : a[h][m] \in Nat

Metrics(r) == ContentOf(r) \cap {"cpu", "mem", "swap"}
Disks(r) == ContentOf(r) \cap {"partition"}

Server(r) == run[r].work.server

\* The title of a section of a server's part.
Titling(server, section) == server \o " " \o section

\* get_statistics_topn_host, for one metric.
TopHosts(means) ==
  LET Higher(x, y) == means[x] > means[y] \/ (means[x] = means[y] /\ x < y)
      sorted == Arranged(DOMAIN means,
                  [x \in DOMAIN means |-> {y \in DOMAIN means : Higher(y, x)}])
      n == Cardinality(DOMAIN means)
  IN  [i \in 1 .. (IF TopN < n THEN TopN ELSE n) |-> sorted[i]]

\* The means as get_statistics_table_data leaves them: what a host lacks is 0.
Filled(answer, metrics) ==
  [h \in DOMAIN answer |->
     [m \in metrics |-> IF m \in DOMAIN answer[h] THEN answer[h][m] ELSE 0]]

Work(r, answer, left) == [server |-> Server(r), answer |-> answer, left |-> left]

\* draw_server_file returns: on to the virtual machines, or flush.
Returns(r, answered, parts) ==
  IF Server(r) = "physical"
  THEN Goes(r, "fetch", answered, parts, [server |-> "virtual", answer |-> Null, left |-> {}])
  ELSE Goes(r, "filed", answered, parts, run[r].work)

\* The first query: the means of all hosts.
ServerStatistics(r) ==
  /\ IsAt(r, "monitor", "fetch") /\ Metrics(r) # {}
  /\ \/ Returns(r, FALSE, Titled({Server(r)}))
     \/ \E a \in MonitorAnswers :
          Goes(r, "details", TRUE, Entry(Server(r), Filled(a, Metrics(r))), Work(r, a, Metrics(r)))
  /\ UNCHANGED <<objects, translation, begins>>

\* Without metrics the same query finds the hosts for the disks; when it
\* fails, None is returned for the file and the next title raises.
ServerHosts(r) ==
  /\ IsAt(r, "monitor", "fetch") /\ Metrics(r) = {}
  /\ IF Disks(r) = {}
     THEN Returns(r, TRUE, Nothing)
     ELSE \/ Fails(r, FALSE)
          \/ \E a \in MonitorAnswers :
               Goes(r, "details", TRUE, Titled({Server(r)}), Work(r, a, {}))
  /\ UNCHANGED <<objects, translation, begins>>

\* The course of one metric on its top hosts, a query for each.  A query
\* that fails raises, and so does one for a host that has no such data: the
\* database's answer is then one without series, None to the client.
MetricDetails(r) ==
  /\ IsAt(r, "monitor", "details")
  /\ \E m \in run[r].work.left :
       LET w == run[r].work
           means == Filled(w.answer, Metrics(r))
           top == TopHosts([h \in DOMAIN means |-> means[h][m]])
       IN  \/ Fails(r, FALSE)
           \/ IF \E i \in DOMAIN top : m \notin DOMAIN w.answer[top[i]]
              THEN Fails(r, TRUE)
              ELSE Goes(r, "details", TRUE, Entry(Titling(Server(r), m), top),
                        Work(r, w.answer, w.left \ {m}))
  /\ UNCHANGED <<objects, translation, begins>>

\* The disks of every host; one that cannot be queried gets a line of text.
DiskDetails(r) ==
  /\ IsAt(r, "monitor", "details") /\ run[r].work.left = {}
  /\ IF Disks(r) = {}
     THEN Returns(r, TRUE, Nothing)
     ELSE \E answered \in BOOLEAN :
            Returns(r, answered, Entry(Titling(Server(r), "partition"), DOMAIN run[r].work.answer))
  /\ UNCHANGED <<objects, translation, begins>>

MonitorStep(r) ==
  ServerStatistics(r) \/ ServerHosts(r) \/ MetricDetails(r) \/ DiskDetails(r)

=============================================================================
