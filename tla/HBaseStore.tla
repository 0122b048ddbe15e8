------------------------------ MODULE HBaseStore ------------------------------
(* The HBase storage: impl_hbase.Connection over tables of rows of versioned  *)
(* columns (hbase.inmemory.MTable, or HBase as the code uses it), the row and *)
(* column names of hbase.utils, and the upgrade of hbase.migration.           *)
(* A row of the resource table maps the second a put was stamped with to the  *)
(* columns of that put.  Columns are tuples: <<"m", ...>> for a meter (its    *)
(* value is the sample's time), <<"old", ...>> for one in the format before   *)
(* the upgrade, <<"s", source>>, <<"r", key>> for one key of the metadata and *)
(* <<"meta">> for all of it (project_id and user_id go the same way).         *)
(* The storage takes helpers from utils which the repository lacks: the class *)
(* asks for update_nested when it is made, serialize_entry for dict_to_keyval *)
(* to flatten the metadata.  The module models the storage with both supplied, *)
(* flat metadata going in as they are.                                        *)
EXTENDS Integers, Sequences, FiniteSets, FiniteSetsExt

CONSTANTS Samples,              \* records of resource, source, name, time, meta, id
          Resources,
          PerSecond,            \* instants in a second
          ServerTimes,          \* what HBase stamps a put with that brings no stamp
          OldSamples,           \* samples a release before the upgrade stored
          Queries,              \* what readers ask
          Unknown, Idle,
          MaxPuts, MaxReads     \* bounds

ASSUME PerSecondAssumption == PerSecond \in Nat \ {0}
ASSUME ServerTimesAssumption == ServerTimes \subseteq Int
ASSUME SamplesAssumption == \A s \in Samples : s.resource \in Resources /\ s.time \in Int
(* at most one of a resource, which bounds the rows the upgrade finds         *)
ASSUME OldSamplesAssumption ==
    OldSamples \subseteq Samples /\ \A s, t \in OldSamples : s.resource = t.resource => s = t
ASSUME QueriesAssumption ==
    \A q \in Queries : {q.start, q.end} \ {Unknown} \subseteq Int
ASSUME IdleAssumption == Idle \notin Samples \cup Resources /\ Samples \cap Resources = {}

VARIABLES backend,              \* which tables: "memory" or "hbase"
          resource,             \* RESOURCE_TABLE: rows by resource
          meter,                \* METER_TABLE: samples by row key, each [old, sample]
          recording,            \* samples put in the one table and not yet in the other
          puts, reads,
          moving,               \* upgrade: what is put in the new format, not yet deleted
          reader, yielded       \* a run of get_resources; the last Resource it yielded

vars == <<backend, resource, meter, recording, puts, reads, moving, reader, yielded>>

(* int(time.mktime(timetuple)): the microseconds are lost                     *)
Second(t) == t \div PerSecond

NoRow == [v \in {} |-> Unknown]
Over(new, old) == [c \in DOMAIN new \cup DOMAIN old |-> IF c \in DOMAIN new THEN new[c] ELSE old[c]]

(* MTable.put: merged into what the row has under that stamp                  *)
Put(row, ts, cols) ==
    Over([v \in {ts} |-> IF ts \in DOMAIN row THEN Over(cols, row[ts]) ELSE cols], row)

(* MTable._get_latest_dict: of each column the version with the latest stamp  *)
Latest(row) ==
    [c \in UNION {DOMAIN row[v] : v \in DOMAIN row} |->
        row[Max({v \in DOMAIN row : c \in DOMAIN row[v]})][c]]

(* serialize_entry, for the resource table                                    *)
MeterCol(s, fmt) == <<fmt, s.time, s.source, s.name>>
(* utils.dict_to_keyval of the metadata: the keys it yields                   *)
Keyval(meta) == DOMAIN meta

Serialized(s, fmt) ==
    [c \in { MeterCol(s, fmt), <<"s", s.source>>, <<"meta">> }
           \cup { <<"r", k>> : k \in Keyval(s.meta) } |->
        CASE c[1] = fmt    -> s.time
          [] c[1] = "s"    -> 1
          [] c[1] = "meta" -> s.meta
          [] c[1] = "r"    -> s.meta[c[2]]]

Init ==
    /\ backend \in {"memory", "hbase"}
    /\ \E old \in IF backend = "hbase" THEN { {}, OldSamples } ELSE { {} } :
          /\ resource = [r \in Resources |->
               LET mine == { s \in old : s.resource = r }
               IN  [v \in { Second(s.time) : s \in mine } |->
                      Serialized(CHOOSE s \in mine : Second(s.time) = v, "old")]]
          /\ meter = { [old |-> TRUE, sample |-> s] : s \in old }
    /\ recording = {} /\ moving = Idle
    /\ puts = 0 /\ reads = 0
    /\ reader = Idle /\ yielded = Unknown

-----------------------------------------------------------------------------
(* record_metering_data: two puts, each of them atomic.  A sample may come    *)
(* late and more than once; a recorder that ends between its two puts is one   *)
(* that never takes the second.                                               *)

(* Faulty: the put is not stamped, so that what arrives last is on top        *)
PutResourceUnstamped(s) ==
    /\ puts < MaxPuts /\ puts' = puts + 1
    /\ resource' = [resource EXCEPT ![s.resource] = Put(@, 0, Serialized(s, "m"))]
    /\ recording' = recording \cup {s}
    /\ UNCHANGED <<backend, meter, reads, moving, reader, yielded>>
PutResource(s) ==
    /\ puts < MaxPuts /\ puts' = puts + 1
    /\ resource' = [resource EXCEPT ![s.resource] = Put(@, Second(s.time), Serialized(s, "m"))]
    /\ recording' = recording \cup {s}
    /\ UNCHANGED <<backend, meter, reads, moving, reader, yielded>>

(* Faulty: the sample goes into the meter table first                         *)
PutMeterFirst(s) ==
    /\ meter' = meter \cup {[old |-> FALSE, sample |-> s]}
    /\ recording' = recording \ {s}
    /\ UNCHANGED <<backend, resource, puts, reads, moving, reader, yielded>>
PutMeter(s) ==
    /\ s \in recording
    /\ meter' = meter \cup {[old |-> FALSE, sample |-> s]}
    /\ recording' = recording \ {s}
    /\ UNCHANGED <<backend, resource, puts, reads, moving, reader, yielded>>

-----------------------------------------------------------------------------
(* upgrade: each row in the old format is put in the new one, then deleted.   *)
(* It may be cut short after any put, and run again; recorders and readers go *)
(* on meanwhile.  Its puts bring no stamp, so that a column of the resource    *)
(* table moves from the second of its sample to the time of the server.        *)

IsOld(c) == c[1] = "old"
Renamed(c) == [c EXCEPT ![1] = "m"]

NewFormat(cols) == [c \in { Renamed(d) : d \in {d \in DOMAIN cols : IsOld(d)} } |-> c[2]]
Without(cols, gone) == [c \in DOMAIN cols \ gone |-> cols[c]]

MigrateResourcePut(r) ==
    /\ moving = Idle /\ backend = "hbase"
    /\ \E c \in DOMAIN Latest(resource[r]) : IsOld(c)
    /\ \E now \in ServerTimes :
          resource' = [resource EXCEPT ![r] = Put(@, now, NewFormat(Latest(@)))]
    /\ moving' = r
    /\ UNCHANGED <<backend, meter, recording, puts, reads, reader, yielded>>

MigrateResourceDelete(r) ==
    /\ moving = r
    /\ resource' = [resource EXCEPT ![r] =
                      [v \in DOMAIN @ |-> Without(@[v], {c \in DOMAIN @[v] : IsOld(c)})]]
    /\ moving' = Idle
    /\ UNCHANGED <<backend, meter, recording, puts, reads, reader, yielded>>

(* Faulty: the old row is deleted and then put under its new key              *)
MigrateMeterMoves(s) ==
    /\ moving = Idle /\ [old |-> TRUE, sample |-> s] \in meter
    /\ meter' = meter \ {[old |-> TRUE, sample |-> s]}
    /\ moving' = s
    /\ UNCHANGED <<backend, resource, recording, puts, reads, reader, yielded>>
MigrateMeterPut(s) ==
    /\ moving = Idle /\ [old |-> TRUE, sample |-> s] \in meter
    /\ meter' = meter \cup {[old |-> FALSE, sample |-> s]}
    /\ moving' = s
    /\ UNCHANGED <<backend, resource, recording, puts, reads, reader, yielded>>

MigrateMeterDelete(s) ==
    /\ moving = s
    /\ meter' = meter \ {[old |-> TRUE, sample |-> s]}
    /\ moving' = Idle
    /\ UNCHANGED <<backend, resource, recording, puts, reads, reader, yielded>>

UpgradeCut ==
    /\ moving # Idle /\ moving' = Idle
    /\ UNCHANGED <<backend, resource, meter, recording, puts, reads, reader, yielded>>

-----------------------------------------------------------------------------
(* get_resources(source, metaquery, start, end): start and end with their     *)
(* default operators ge and lt, on reversed timestamps.                       *)

(* make_query: SingleColumnValueFilter on the latest versions                 *)
Passes(cols, q) ==
    /\ q.source # Unknown => <<"s", q.source>> \in DOMAIN cols
    /\ q.key # Unknown => <<"r", q.key>> \in DOMAIN cols /\ cols[<<"r", q.key>>] = q.val

Timed(q) == q.start # Unknown \/ q.end # Unknown

(* make_meter_query_for_resource: QualifierFilter on m_<rts> or, with a       *)
(* source, on m_<rts>:<source>, which on equal times compares the sources; a  *)
(* column in the old format has "+" for the ":" and sorts before both         *)
(* Faulty: the operators are not turned round for the reversed timestamps     *)
InRangeForward(c, q) ==
    /\ c[1] \in {"m", "old"}
    /\ q.start # Unknown => c[2] <= q.start
    /\ q.end # Unknown => c[2] > q.end
InRange(c, q) ==
    /\ c[1] \in {"m", "old"}
    /\ q.start # Unknown =>
          \/ c[2] > q.start
          \/ c[2] = q.start /\ (q.source = Unknown \/ IsOld(c) \/ c[3] <= q.source)
    /\ q.end # Unknown =>
          \/ c[2] < q.end
          \/ c[2] = q.end /\ q.source # Unknown /\ ~IsOld(c) /\ c[3] > q.source

Kept(cols, q) ==
    IF Timed(q) THEN [c \in {c \in DOMAIN cols : InRange(c, q)} |-> cols[c]] ELSE cols

Hits(q) == { r \in Resources : /\ DOMAIN resource[r] # {}
                               /\ Passes(Latest(resource[r]), q)
                               /\ DOMAIN Kept(Latest(resource[r]), q) # {} }

(* The in-memory table has no QualifierFilter that lets a column through and  *)
(* raises on the first row it meets.                                          *)
Scan(q) ==
    /\ reader = Idle /\ reads < MaxReads /\ reads' = reads + 1
    /\ ~ (backend = "memory" /\ Timed(q))
    /\ reader' = [q |-> q, rows |-> [r \in Hits(q) |-> Kept(Latest(resource[r]), q)]]
    /\ UNCHANGED <<backend, resource, meter, recording, puts, moving, yielded>>

MeterCols(cols) == {c \in DOMAIN cols : c[1] \in {"m", "old"}}
Times(cols) == { cols[c] : c \in MeterCols(cols) }

(* one turn of the loop: with a time range the scan has only the meters, and  *)
(* the rest is read now, with resource_table.row                              *)
Yield(r) ==
    /\ reader # Idle /\ r \in DOMAIN reader.rows
    /\ LET cols == reader.rows[r]
           rest == IF Timed(reader.q) THEN Latest(resource[r]) ELSE cols
       IN  \E c \in MeterCols(cols) :
             IF IsOld(c) THEN yielded' = Unknown /\ reader' = Idle      \* IndexError
             ELSE /\ yielded' = [q |-> reader.q, resource |-> r, source |-> c[3],
                                 first |-> Min(Times(cols)), last |-> Max(Times(cols)),
                                 meta |-> rest[<<"meta">>]]
                  /\ reader' = [reader EXCEPT !.rows = [x \in DOMAIN @ \ {r} |-> @[x]]]
    /\ UNCHANGED <<backend, resource, meter, recording, puts, reads, moving>>

Done ==
    /\ reader # Idle /\ DOMAIN reader.rows = {}
    /\ reader' = Idle /\ yielded' = Unknown
    /\ UNCHANGED <<backend, resource, meter, recording, puts, reads, moving>>

Next ==
    \/ \E s \in Samples : \/ PutResource(s) \/ PutMeter(s)
                          \/ MigrateMeterPut(s) \/ MigrateMeterDelete(s)
    \/ \E r \in Resources : MigrateResourcePut(r) \/ MigrateResourceDelete(r) \/ Yield(r)
    \/ UpgradeCut
    \/ \E q \in Queries : Scan(q)
    \/ Done

Spec == Init /\ [][Next]_vars

-----------------------------------------------------------------------------
(* the stamps of recorders, whose puts have the metadata                      *)
Stamps(row) == {v \in DOMAIN row : <<"meta">> \in DOMAIN row[v]}

ViewOf(row) ==
    IF DOMAIN row = {} THEN Unknown
    ELSE LET cols == Latest(row)
         IN  [meters  |-> { <<c[2], c[3], c[4]>> : c \in MeterCols(cols) },
              first   |-> Min(Times(cols)), last |-> Max(Times(cols)),
              sources |-> { c[2] : c \in {c \in DOMAIN cols : c[1] = "s"} },
              newest  |-> Max(Stamps(row)),
              meta    |-> cols[<<"meta">>]]

View == INSTANCE ResourceView WITH view <- [r \in Resources |-> ViewOf(resource[r])]

ASSUME UnknownAssumption == Unknown \notin View!Views

(* The versioned columns of the resource table keep exactly what the table is *)
(* for, in whatever order and however often samples arrive; the upgrade, cut  *)
(* short or run twice, changes nothing a reader of the whole row could see.   *)
ImplementsResourceView == View!Spec

(* Every sample of the meter table is among the meters of its resource, also  *)
(* when a recorder ends between its puts or an upgrade between its.           *)
SampleHasMeter ==
    \A m \in meter : \E v \in DOMAIN resource[m.sample.resource] :
       { MeterCol(m.sample, "m"), MeterCol(m.sample, "old") }
          \cap DOMAIN resource[m.sample.resource][v] # {}

(* No step loses a sample of the meter table: the upgrade deletes a row only  *)
(* when its copy in the new format is there.                                  *)
SamplesStay ==
    [][{ m.sample : m \in meter } \subseteq { m.sample : m \in meter' }]_meter

(* A Resource that get_resources yields has its times from the asked range,   *)
(* and its metadata, though read later than they are, are not older: some     *)
(* sample with these metadata is at least as new as the last one reported.    *)
YieldedCoherent ==
    yielded # Unknown =>
      /\ yielded.first <= yielded.last
      /\ yielded.q.start # Unknown => yielded.first >= yielded.q.start
      /\ yielded.q.end # Unknown => yielded.last <= yielded.q.end
      /\ \E s \in Samples : /\ s.resource = yielded.resource /\ s.meta = yielded.meta
                            /\ Second(s.time) >= Second(yielded.last)
=============================================================================
