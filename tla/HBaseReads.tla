------------------------------ MODULE HBaseReads ------------------------------
(* get_samples and get_meters of impl_hbase.Connection: what they yield of    *)
(* the tables HBaseStore writes.  They change nothing, so each is an operator *)
(* on the tables as a scan finds them.                                        *)
(* A query of samples names what a sample must have in the fields of Filters  *)
(* (Unknown where it does not ask) and how many it wants at most; project and *)
(* user go the way of the resource.  A query of meters is one of HBaseStore's *)
(* without a time.                                                            *)
EXTENDS HBaseStore

CONSTANT SampleQueries

Filters == {"resource", "name", "source", "id"}

(* prepare_key: the rows of a meter sort by their time counted down, but a    *)
(* row in the format before the upgrade, which has "_" for ":", comes after   *)
(* all others.                                                                *)
(* Faulty: the time is not reversed                                           *)
RowBeforeForward(m, n) ==
    /\ m.sample.name = n.sample.name
    /\ \/ ~m.old /\ n.old
       \/ /\ m.old = n.old
          /\ \/ m.sample.time < n.sample.time
             \/ m.sample.time = n.sample.time /\ m.sample.id < n.sample.id
RowBefore(m, n) ==
    /\ m.sample.name = n.sample.name
    /\ \/ ~m.old /\ n.old
       \/ /\ m.old = n.old
          /\ \/ m.sample.time > n.sample.time
             \/ m.sample.time = n.sample.time /\ m.sample.id < n.sample.id

(* The columns a scan for samples asks for.  HBase filters what it has read,  *)
(* and a row without the column of a filter does not pass; the in-memory      *)
(* table filters whole rows.                                                  *)
Columns == {"resource", "name", "time"}
InReach(fields) == backend = "memory" \/ fields \subseteq Columns

FilteredBy(q) == {f \in Filters : q[f] # Unknown}
SampleQuery(m, q) ==
    /\ InReach(FilteredBy(q))
    /\ \A f \in FilteredBy(q) : m.sample[f] = q[f]

(* What the call may yield: all rows of the scan, or the first of them; limit *)
(* 0 yields nothing.  Rows of different meters are in either order: no        *)
(* property tells them apart.                                                 *)
First(rows, limit) ==
    {R \in kSubset(Min({limit, Cardinality(rows)}), rows) :
        \A m \in R, n \in rows : RowBefore(n, m) => n \in R}
GetSamples(q) ==
    LET rows == {m \in meter : SampleQuery(m, q)}
    IN  IF q.limit = Unknown THEN {rows} ELSE First(rows, q.limit)

(* A column of the old format does not split into five: the loop raises.      *)
GetMetersRaises(q) ==
    \E r \in Hits(q) : \E c \in MeterCols(Latest(resource[r])) : IsOld(c)

(* the sources are left out of what makes two meters the same                 *)
GetMeters(q) ==
    UNION { { [resource |-> r, name |-> c[4]] : c \in MeterCols(Latest(resource[r])) } : r \in Hits(q) }

-----------------------------------------------------------------------------
Asked(q) == {m \in meter : \A f \in FilteredBy(q) : m.sample[f] = q[f]}

(* get_samples yields samples it was asked for, all of them unless a limit is *)
(* set or HBase was given a filter on a column the scan leaves out; and what  *)
(* a limit cuts off is never newer than what it leaves, when the upgrade has  *)
(* been through the table.                                                    *)
SamplesTell ==
    \A q \in SampleQueries : \A rows \in GetSamples(q) :
      /\ rows \subseteq Asked(q)
      /\ InReach(FilteredBy(q)) /\ q.limit = Unknown => rows = Asked(q)
      /\ (\A m \in meter : ~m.old) =>
           \A m \in rows, n \in Asked(q) \ rows :
             m.sample.name = n.sample.name => n.sample.time <= m.sample.time

(* get_meters has a meter for every sample get_samples can yield of the same  *)
(* source or resource, whatever the recorders and the upgrade are at, unless  *)
(* it meets a column of the old format.                                       *)
MetersTell ==
    \A q \in {q \in Queries : ~Timed(q) /\ q.key = Unknown} :
      GetMetersRaises(q)
        \/ \A m \in meter :
             q.source = Unknown \/ m.sample.source = q.source =>
               [resource |-> m.sample.resource, name |-> m.sample.name] \in GetMeters(q)

(* What the two reads tell of one recording agrees.                           *)
ReadsTell == SamplesTell /\ MetersTell
=============================================================================
