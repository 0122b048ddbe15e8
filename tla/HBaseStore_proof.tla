--------------------------- MODULE HBaseStore_proof ---------------------------
(***************************************************************************)
(* The tables of the HBase storage, for any samples, resources and queries,*)
(* any number of recorders, and an upgrade cut short or run again whenever *)
(* it likes: no sample is lost, each has its meter, the resource table     *)
(* implements ResourceView, and what get_resources yields is coherent.     *)
(***************************************************************************)
EXTENDS HBaseReads, TLAPS

(***************************************************************************)
(* Stamps and times: sets of integers every part of which has a greatest   *)
(* and a least element. Finite sets are; what the invariant needs of them  *)
(* is this.                                                                *)
(***************************************************************************)
Ordered(S) ==
  /\ S \subseteq Int
  /\ \A U \in SUBSET S : U # {} =>
       /\ \E x \in U : \A y \in U : x >= y
       /\ \E x \in U : \A y \in U : x =< y

LEMMA OrderedPart ==
  ASSUME NEW S, Ordered(S), NEW U \in SUBSET S
  PROVE  Ordered(U)
  BY DEF Ordered

LEMMA OrderedAdd ==
  ASSUME NEW S, Ordered(S), NEW x \in Int
  PROVE  Ordered(S \cup {x})
<1> SUFFICES ASSUME NEW U \in SUBSET (S \cup {x}), U # {}
             PROVE  /\ \E m \in U : \A y \in U : m >= y
                    /\ \E m \in U : \A y \in U : m =< y
  BY DEF Ordered
<1>1. CASE U \ {x} = {}
  <2>1. U = {x}
    BY <1>1
  <2>2. QED
    BY <2>1
<1>2. CASE U \ {x} # {}
  <2>1. U \ {x} \in SUBSET S
    OBVIOUS
  <2>2. PICK m \in U \ {x} : \A y \in U \ {x} : m >= y
    BY <1>2, <2>1 DEF Ordered
  <2>3. PICK n \in U \ {x} : \A y \in U \ {x} : n =< y
    BY <1>2, <2>1 DEF Ordered
  <2>4. U \subseteq Int
    BY DEF Ordered
  <2>5. \E k \in U : \A y \in U : k >= y
    BY <2>2, <2>4
  <2>6. \E k \in U : \A y \in U : k =< y
    BY <2>3, <2>4
  <2>7. QED
    BY <2>5, <2>6
<1>3. QED
  BY <1>1, <1>2

LEMMA OrderedOne == ASSUME NEW x \in Int PROVE Ordered({x})
<1>1. Ordered({})
  BY DEF Ordered
<1>2. {} \cup {x} = {x}
  OBVIOUS
<1>3. QED
  BY <1>1, <1>2, OrderedAdd

LEMMA MaxIs ==
  ASSUME NEW S \in SUBSET Int, NEW x \in S, \A y \in S : x >= y
  PROVE  Max(S) = x
<1>1. /\ Max(S) \in S
      /\ \A y \in S : Max(S) >= y
  BY DEF Max
<1>2. Max(S) >= x /\ x >= Max(S)
  BY <1>1
<1>3. Max(S) \in Int /\ x \in Int
  BY <1>1
<1>4. QED
  BY <1>2, <1>3

LEMMA MinIs ==
  ASSUME NEW S \in SUBSET Int, NEW x \in S, \A y \in S : x =< y
  PROVE  Min(S) = x
<1>1. /\ Min(S) \in S
      /\ \A y \in S : Min(S) =< y
  BY DEF Min
<1>2. Min(S) =< x /\ x =< Min(S)
  BY <1>1
<1>3. Min(S) \in Int /\ x \in Int
  BY <1>1
<1>4. QED
  BY <1>2, <1>3

LEMMA Extremes ==
  ASSUME NEW S, Ordered(S), S # {}
  PROVE  /\ Max(S) \in S /\ \A y \in S : Max(S) >= y
         /\ Min(S) \in S /\ \A y \in S : Min(S) =< y
<1>1. /\ \E x \in S : \A y \in S : x >= y
      /\ \E x \in S : \A y \in S : x =< y
  BY DEF Ordered
<1>2. QED
  BY <1>1 DEF Max, Min

\* What one element more does to the greatest and the least.
LEMMA ExtremesAdd ==
  ASSUME NEW S, Ordered(S), S # {}, NEW x \in Int
  PROVE  /\ Max(S \cup {x}) = IF x > Max(S) THEN x ELSE Max(S)
         /\ Min(S \cup {x}) = IF x < Min(S) THEN x ELSE Min(S)
<1>1. S \subseteq Int
  BY DEF Ordered
<1>2. /\ Max(S) \in S /\ \A y \in S : Max(S) >= y
      /\ Min(S) \in S /\ \A y \in S : Min(S) =< y
  BY Extremes
<1> HIDE DEF Max, Min
<1>3. Max(S \cup {x}) = IF x > Max(S) THEN x ELSE Max(S)
  <2> DEFINE m == IF x > Max(S) THEN x ELSE Max(S)
  <2>1. m \in S \cup {x} /\ \A y \in S \cup {x} : m >= y
    <3>1. CASE x > Max(S)
      <4>1. m = x
        BY <3>1
      <4>2. ASSUME NEW y \in S PROVE x >= y
        <5>1. x > Max(S) /\ Max(S) >= y
          BY <1>2, <3>1
        <5>2. Max(S) \in Int /\ y \in Int
          BY <1>1, <1>2
        <5>3. QED
          BY <5>1, <5>2
      <4>3. QED
        BY <4>1, <4>2
    <3>2. CASE ~(x > Max(S))
      <4>1. m = Max(S)
        BY <3>2
      <4>2. Max(S) \in Int
        BY <1>1, <1>2
      <4>3. Max(S) >= x
        BY <3>2, <4>2
      <4>4. QED
        BY <1>2, <4>1, <4>3
    <3>3. QED
      BY <3>1, <3>2
  <2> HIDE DEF m
  <2>2. QED
    BY <1>1, <2>1, MaxIs DEF m
<1>4. Min(S \cup {x}) = IF x < Min(S) THEN x ELSE Min(S)
  <2> DEFINE m == IF x < Min(S) THEN x ELSE Min(S)
  <2>1. m \in S \cup {x} /\ \A y \in S \cup {x} : m =< y
    <3>1. CASE x < Min(S)
      <4>1. m = x
        BY <3>1
      <4>2. ASSUME NEW y \in S PROVE x =< y
        <5>1. x < Min(S) /\ Min(S) =< y
          BY <1>2, <3>1
        <5>2. Min(S) \in Int /\ y \in Int
          BY <1>1, <1>2
        <5>3. QED
          BY <5>1, <5>2
      <4>3. QED
        BY <4>1, <4>2
    <3>2. CASE ~(x < Min(S))
      <4>1. m = Min(S)
        BY <3>2
      <4>2. Min(S) \in Int
        BY <1>1, <1>2
      <4>3. Min(S) =< x
        BY <3>2, <4>2
      <4>4. QED
        BY <1>2, <4>1, <4>3
    <3>3. QED
      BY <3>1, <3>2
  <2> HIDE DEF m
  <2>2. QED
    BY <1>1, <2>1, MinIs DEF m
<1>5. QED
  BY <1>3, <1>4

LEMMA ExtremeOfOne == ASSUME NEW x \in Int PROVE Max({x}) = x /\ Min({x}) = x
<1>1. /\ {x} \in SUBSET Int /\ x \in {x}
      /\ \A y \in {x} : x >= y /\ x =< y
  OBVIOUS
<1>2. Max({x}) = x
  BY <1>1, MaxIs
<1>3. Min({x}) = x
  BY <1>1, MinIs
<1>4. QED
  BY <1>2, <1>3

-----------------------------------------------------------------------------
(* Rows.                                                                    *)

SourceCols(cols) == {c \in DOMAIN cols : c[1] = "s"}

\* What the version of a stamp holds: meters of samples, and the metadata of
\* one taken in that second, unless all of it was put by the upgrade.
VersionOK(r, v, cols) ==
  /\ <<"meta">> \in DOMAIN cols =>
       \E s \in Samples : /\ s.resource = r /\ Second(s.time) = v
                          /\ cols[<<"meta">>] = s.meta
  /\ \A c \in MeterCols(cols) : \E s \in Samples :
       /\ s.resource = r /\ cols[c] = s.time
       /\ c = MeterCol(s, "m") \/ c = MeterCol(s, "old")
  /\ \A c \in SourceCols(cols) : \E s \in Samples : c = <<"s", s.source>>

RowMeters(row) == UNION {MeterCols(row[v]) : v \in DOMAIN row}
RowTimes(row) == {c[2] : c \in RowMeters(row)}
RowSourceCols(row) == UNION {SourceCols(row[v]) : v \in DOMAIN row}
RowSources(row) == {c[2] : c \in RowSourceCols(row)}

\* Every meter of a row, wherever the upgrade has put it, has its second among
\* the stamps of the recorders.
RowOK(r, row) ==
  /\ Ordered(DOMAIN row) /\ Ordered(RowTimes(row))
  /\ \A v \in DOMAIN row : VersionOK(r, v, row[v])
  /\ DOMAIN row # {} => RowMeters(row) # {}
  /\ \A c \in RowMeters(row) : Second(c[2]) \in Stamps(row)

LEMMA SecondIsInt == ASSUME NEW t \in Int PROVE Second(t) \in Int
  BY PerSecondAssumption DEF Second

\* The parts of the name of a column.
LEMMA ColumnParts ==
  ASSUME NEW s, NEW fmt
  PROVE  /\ MeterCol(s, fmt)[1] = fmt /\ MeterCol(s, fmt)[2] = s.time
         /\ MeterCol(s, fmt)[3] = s.source /\ MeterCol(s, fmt)[4] = s.name
         /\ <<"s", s.source>>[1] = "s" /\ <<"s", s.source>>[2] = s.source
         /\ <<"meta">>[1] = "meta"
  BY DEF MeterCol

LEMMA RenamedOld ==
  ASSUME NEW s
  PROVE  Renamed(MeterCol(s, "old")) = MeterCol(s, "m")
  BY DEF Renamed, MeterCol

\* The columns one put has, and their values.
LEMMA PutColumns ==
  ASSUME NEW s \in Samples, NEW fmt \in {"m", "old"}
  PROVE  LET cols == Serialized(s, fmt) IN
         /\ MeterCols(cols) = {MeterCol(s, fmt)}
         /\ SourceCols(cols) = {<<"s", s.source>>}
         /\ <<"meta">> \in DOMAIN cols
         /\ cols[MeterCol(s, fmt)] = s.time /\ cols[<<"meta">>] = s.meta
         /\ VersionOK(s.resource, Second(s.time), cols)
<1> DEFINE cols == Serialized(s, fmt)
<1>1. DOMAIN cols = { MeterCol(s, fmt), <<"s", s.source>>, <<"meta">> }
                    \cup { <<"r", k>> : k \in Keyval(s.meta) }
  BY DEF Serialized
<1>2. \A k : <<"r", k>>[1] = "r"
  OBVIOUS
<1>3. MeterCols(cols) = {MeterCol(s, fmt)}
  BY <1>1, <1>2, ColumnParts DEF MeterCols
<1>4. SourceCols(cols) = {<<"s", s.source>>}
  BY <1>1, <1>2, ColumnParts DEF SourceCols
<1>5. cols[MeterCol(s, fmt)] = s.time
  BY ColumnParts DEF Serialized
<1>6. cols[<<"meta">>] = s.meta
  BY ColumnParts DEF Serialized
<1>7. VersionOK(s.resource, Second(s.time), cols)
  BY <1>1, <1>3, <1>4, <1>5, <1>6 DEF VersionOK
<1>8. QED
  BY <1>1, <1>3, <1>4, <1>5, <1>6, <1>7

LEMMA MeterOfRow ==
  ASSUME NEW r, NEW row, RowOK(r, row), NEW c \in RowMeters(row)
  PROVE  \E s \in Samples :
           /\ s.resource = r
           /\ c = MeterCol(s, "m") \/ c = MeterCol(s, "old")
           /\ c[2] = s.time /\ c[3] = s.source /\ c[4] = s.name
<1>1. PICK v \in DOMAIN row : c \in MeterCols(row[v])
  BY DEF RowMeters
<1>2. PICK s \in Samples : /\ s.resource = r
                           /\ c = MeterCol(s, "m") \/ c = MeterCol(s, "old")
  BY <1>1 DEF RowOK, VersionOK
<1>3. c[2] = s.time /\ c[3] = s.source /\ c[4] = s.name
  BY <1>2, ColumnParts
<1>4. QED
  BY <1>2, <1>3

\* The latest stamp of a recorder is that of a sample, and no meter is later.
LEMMA NewestStamp ==
  ASSUME NEW r, NEW row, RowOK(r, row), DOMAIN row # {}
  PROVE  /\ RowTimes(row) # {} /\ Stamps(row) # {} /\ Ordered(Stamps(row))
         /\ Max(Stamps(row)) \in Stamps(row) /\ Max(Stamps(row)) \in Int
         /\ \A v \in Stamps(row) : Max(Stamps(row)) >= v
         /\ \E s \in Samples :
              /\ s.resource = r /\ Second(s.time) = Max(Stamps(row))
              /\ row[Max(Stamps(row))][<<"meta">>] = s.meta
<1>1. PICK c : c \in RowMeters(row)
  BY DEF RowOK
<1>2. RowTimes(row) # {} /\ Stamps(row) # {}
  BY <1>1 DEF RowOK, RowTimes
<1>3. Stamps(row) \in SUBSET DOMAIN row
  BY DEF Stamps
<1>4. Ordered(Stamps(row))
  BY <1>3, OrderedPart DEF RowOK
<1>5. /\ Max(Stamps(row)) \in Stamps(row)
      /\ \A v \in Stamps(row) : Max(Stamps(row)) >= v
  BY <1>2, <1>4, Extremes
<1>6. Max(Stamps(row)) \in Int
  BY <1>4, <1>5 DEF Ordered
<1>7. /\ Max(Stamps(row)) \in DOMAIN row
      /\ <<"meta">> \in DOMAIN row[Max(Stamps(row))]
  BY <1>5 DEF Stamps
<1>8. VersionOK(r, Max(Stamps(row)), row[Max(Stamps(row))])
  BY <1>7 DEF RowOK
<1>9. \E s \in Samples :
        /\ s.resource = r /\ Second(s.time) = Max(Stamps(row))
        /\ row[Max(Stamps(row))][<<"meta">>] = s.meta
  BY <1>7, <1>8 DEF VersionOK
<1>10. QED
  BY <1>2, <1>4, <1>5, <1>6, <1>9

\* What MTable._get_latest_dict makes of the versions: every meter with its
\* time, every source, and the metadata of the recorders' latest stamp.
LEMMA LatestOf ==
  ASSUME NEW r, NEW row, RowOK(r, row), DOMAIN row # {}
  PROVE  LET cols == Latest(row) IN
         /\ MeterCols(cols) = RowMeters(row)
         /\ \A c \in MeterCols(cols) : cols[c] = c[2]
         /\ {c[2] : c \in SourceCols(cols)} = RowSources(row)
         /\ cols[<<"meta">>] = row[Max(Stamps(row))][<<"meta">>]
<1> DEFINE cols == Latest(row)
<1>1. DOMAIN cols = UNION {DOMAIN row[v] : v \in DOMAIN row}
  BY DEF Latest
<1>2. \A c \in DOMAIN cols : cols[c] = row[Max({v \in DOMAIN row : c \in DOMAIN row[v]})][c]
  BY DEF Latest
<1>3. MeterCols(cols) = RowMeters(row)
  BY <1>1 DEF MeterCols, RowMeters
<1>4. {c[2] : c \in SourceCols(cols)} = RowSources(row)
  <2>1. SourceCols(cols) = RowSourceCols(row)
    BY <1>1 DEF SourceCols, RowSourceCols
  <2>2. QED
    BY <2>1 DEF RowSources
<1>5. ASSUME NEW c \in MeterCols(cols) PROVE cols[c] = c[2]
  <2> DEFINE vs == {v \in DOMAIN row : c \in DOMAIN row[v]}
  <2>1. c \in DOMAIN cols /\ vs # {} /\ vs \in SUBSET DOMAIN row
    BY <1>1 DEF MeterCols
  <2>2. Max(vs) \in vs
    BY <2>1, OrderedPart, Extremes DEF RowOK
  <2>3. c \in MeterCols(row[Max(vs)])
    BY <2>2 DEF MeterCols
  <2>4. PICK s \in Samples : /\ row[Max(vs)][c] = s.time
                             /\ c = MeterCol(s, "m") \/ c = MeterCol(s, "old")
    BY <2>2, <2>3 DEF RowOK, VersionOK
  <2>5. c[2] = s.time
    BY <2>4, ColumnParts
  <2>6. QED
    BY <1>2, <2>1, <2>4, <2>5
<1>6. cols[<<"meta">>] = row[Max(Stamps(row))][<<"meta">>]
  <2>1. {v \in DOMAIN row : <<"meta">> \in DOMAIN row[v]} = Stamps(row)
    BY DEF Stamps
  <2>2. <<"meta">> \in DOMAIN cols
    <3>1. PICK v \in Stamps(row) : TRUE
      BY NewestStamp
    <3>2. v \in DOMAIN row /\ <<"meta">> \in DOMAIN row[v]
      BY DEF Stamps
    <3>3. QED
      BY <1>1, <3>2
  <2>3. cols[<<"meta">>] =
          row[Max({v \in DOMAIN row : <<"meta">> \in DOMAIN row[v]})][<<"meta">>]
    BY <1>2, <2>2
  <2>4. QED
    BY <2>1, <2>3
<1>7. QED
  BY <1>3, <1>4, <1>5, <1>6

\* MTable.put of a sample: its columns are merged into the version of its
\* second, over what that had.
LEMMA PutRow ==
  ASSUME NEW s \in Samples, NEW row, RowOK(s.resource, row)
  PROVE  LET after == Put(row, Second(s.time), Serialized(s, "m")) IN
         /\ RowOK(s.resource, after)
         /\ DOMAIN after = DOMAIN row \cup {Second(s.time)}
         /\ RowMeters(after) = RowMeters(row) \cup {MeterCol(s, "m")}
         /\ RowSources(after) = RowSources(row) \cup {s.source}
         /\ Stamps(after) = Stamps(row) \cup {Second(s.time)}
         /\ \A v \in Stamps(after) :
              after[v][<<"meta">>] = IF v = Second(s.time) THEN s.meta
                                                           ELSE row[v][<<"meta">>]
<1> DEFINE ts == Second(s.time)
           cols == Serialized(s, "m")
           after == Put(row, ts, cols)
           had == IF ts \in DOMAIN row THEN DOMAIN row[ts] ELSE {}
<1>1. /\ ts \in Int /\ s.time \in Int
      /\ MeterCols(cols) = {MeterCol(s, "m")}
      /\ SourceCols(cols) = {<<"s", s.source>>}
      /\ <<"meta">> \in DOMAIN cols /\ cols[<<"meta">>] = s.meta
      /\ VersionOK(s.resource, ts, cols)
  BY SecondIsInt, SamplesAssumption, PutColumns
<1>2. /\ DOMAIN after = DOMAIN row \cup {ts}
      /\ \A v \in DOMAIN row \ {ts} : after[v] = row[v]
  BY DEF Put, Over
<1>3. after[ts] = IF ts \in DOMAIN row THEN Over(cols, row[ts]) ELSE cols
  BY DEF Put, Over
<1>4. /\ DOMAIN after[ts] = DOMAIN cols \cup had
      /\ \A c \in DOMAIN cols : after[ts][c] = cols[c]
      /\ \A c \in had \ DOMAIN cols : after[ts][c] = row[ts][c]
  <2>1. CASE ts \in DOMAIN row
    BY <1>3, <2>1 DEF Over
  <2>2. CASE ts \notin DOMAIN row
    BY <1>3, <2>2
  <2>3. QED
    BY <2>1, <2>2
<1> HIDE DEF cols, after
<1>5. /\ MeterCols(after[ts]) =
           MeterCols(cols) \cup (IF ts \in DOMAIN row THEN MeterCols(row[ts]) ELSE {})
      /\ SourceCols(after[ts]) =
           SourceCols(cols) \cup (IF ts \in DOMAIN row THEN SourceCols(row[ts]) ELSE {})
  BY <1>4 DEF MeterCols, SourceCols
<1>6. RowMeters(after) = RowMeters(row) \cup {MeterCol(s, "m")}
  BY <1>1, <1>2, <1>5 DEF RowMeters
<1>7. RowSources(after) = RowSources(row) \cup {s.source}
  <2>1. RowSourceCols(after) = RowSourceCols(row) \cup {<<"s", s.source>>}
    BY <1>1, <1>2, <1>5 DEF RowSourceCols
  <2>2. <<"s", s.source>>[2] = s.source
    OBVIOUS
  <2> DEFINE one == <<"s", s.source>>
  <2>3. one[2] = s.source /\ RowSourceCols(after) = RowSourceCols(row) \cup {one}
    BY <2>1, <2>2
  <2> HIDE DEF one
  <2>4. QED
    BY <2>3 DEF RowSources
<1>8. /\ Stamps(after) = Stamps(row) \cup {ts}
      /\ \A v \in Stamps(after) :
           after[v][<<"meta">>] = IF v = ts THEN s.meta ELSE row[v][<<"meta">>]
  BY <1>1, <1>2, <1>4 DEF Stamps
<1>9. VersionOK(s.resource, ts, after[ts])
  <2>1. <<"meta">> \in DOMAIN after[ts] /\ after[ts][<<"meta">>] = s.meta
    BY <1>1, <1>4
  <2>2. ASSUME NEW c \in MeterCols(after[ts])
        PROVE  \E t \in Samples :
                 /\ t.resource = s.resource /\ after[ts][c] = t.time
                 /\ c = MeterCol(t, "m") \/ c = MeterCol(t, "old")
    <3>1. CASE c \in DOMAIN cols
      <4>1. c \in MeterCols(cols) /\ after[ts][c] = cols[c]
        BY <1>4, <2>2, <3>1 DEF MeterCols
      <4>2. QED
        BY <1>1, <4>1 DEF VersionOK
    <3>2. CASE c \notin DOMAIN cols
      <4>1. ts \in DOMAIN row /\ c \in MeterCols(row[ts]) /\ after[ts][c] = row[ts][c]
        BY <1>4, <2>2, <3>2 DEF MeterCols
      <4>2. VersionOK(s.resource, ts, row[ts])
        BY <4>1 DEF RowOK
      <4>3. QED
        BY <4>1, <4>2 DEF VersionOK
    <3>3. QED
      BY <3>1, <3>2
  <2>3. \A c \in SourceCols(after[ts]) : \E t \in Samples : c = <<"s", t.source>>
    BY <1>1, <1>5 DEF RowOK, VersionOK
  <2>4. QED
    BY <2>1, <2>2, <2>3 DEF VersionOK
<1>10. RowOK(s.resource, after)
  <2>1. Ordered(DOMAIN after)
    BY <1>1, <1>2, OrderedAdd DEF RowOK
  <2>2. RowTimes(after) = RowTimes(row) \cup {s.time}
    BY <1>6, ColumnParts DEF RowTimes
  <2>3. Ordered(RowTimes(after))
    BY <1>1, <2>2, OrderedAdd DEF RowOK
  <2>4. \A c \in RowMeters(after) : Second(c[2]) \in Stamps(after)
    <3>1. MeterCol(s, "m")[2] = s.time
      BY ColumnParts
    <3> PICK one : one = MeterCol(s, "m")
      OBVIOUS
    <3>2. QED
      BY <1>6, <1>8, <3>1 DEF RowOK
  <2>5. \A v \in DOMAIN after : VersionOK(s.resource, v, after[v])
    BY <1>2, <1>9 DEF RowOK
  <2>6. RowMeters(after) # {}
    BY <1>6
  <2>7. QED
    BY <2>1, <2>3, <2>4, <2>5, <2>6 DEF RowOK
<1>11. QED
  BY <1>2, <1>6, <1>7, <1>8, <1>10 DEF cols, after

\* What the rows say of a resource, without the versions.
LEMMA ViewOfRow ==
  ASSUME NEW r, NEW row, RowOK(r, row), DOMAIN row # {}
  PROVE  /\ ViewOf(row) =
              [meters  |-> {<<c[2], c[3], c[4]>> : c \in RowMeters(row)},
               first   |-> Min(RowTimes(row)), last |-> Max(RowTimes(row)),
               sources |-> RowSources(row),
               newest  |-> Max(Stamps(row)),
               meta    |-> row[Max(Stamps(row))][<<"meta">>]]
         /\ ViewOf(row) \in View!Views
         /\ ViewOf(row) # Unknown
<1> DEFINE cols == Latest(row)
<1>1. /\ MeterCols(cols) = RowMeters(row)
      /\ \A c \in MeterCols(cols) : cols[c] = c[2]
      /\ {c[2] : c \in SourceCols(cols)} = RowSources(row)
      /\ cols[<<"meta">>] = row[Max(Stamps(row))][<<"meta">>]
  BY LatestOf
<1>2. Times(cols) = RowTimes(row)
  BY <1>1 DEF Times, RowTimes
<1>3. {c[2] : c \in {c \in DOMAIN cols : c[1] = "s"}} = RowSources(row)
  BY <1>1 DEF SourceCols
<1>4. ViewOf(row) =
              [meters  |-> {<<c[2], c[3], c[4]>> : c \in RowMeters(row)},
               first   |-> Min(RowTimes(row)), last |-> Max(RowTimes(row)),
               sources |-> RowSources(row),
               newest  |-> Max(Stamps(row)),
               meta    |-> row[Max(Stamps(row))][<<"meta">>]]
  BY <1>1, <1>2, <1>3 DEF ViewOf
<1>5. ViewOf(row) \in View!Views
  <2>1. Min(RowTimes(row)) \in RowTimes(row) /\ Max(RowTimes(row)) \in RowTimes(row)
    BY NewestStamp, Extremes DEF RowOK
  <2>2. ASSUME NEW c \in RowMeters(row)
        PROVE  \E s \in Samples : c[2] = s.time /\ c[3] = s.source /\ c[4] = s.name
    BY MeterOfRow
  <2>3. RowTimes(row) \subseteq {s.time : s \in Samples}
    BY <2>2 DEF RowTimes
  <2>4. {<<c[2], c[3], c[4]>> : c \in RowMeters(row)}
          \in SUBSET {<<s.time, s.source, s.name>> : s \in Samples}
    BY <2>2
  <2>5. RowSources(row) \in SUBSET {s.source : s \in Samples}
    <3>1. ASSUME NEW v \in DOMAIN row, NEW c \in SourceCols(row[v])
          PROVE  \E s \in Samples : c[2] = s.source
      BY DEF RowOK, VersionOK
    <3>2. QED
      BY <3>1 DEF RowSources, RowSourceCols
  <2>6. \E s \in Samples : /\ Max(Stamps(row)) = Second(s.time)
                           /\ row[Max(Stamps(row))][<<"meta">>] = s.meta
    BY NewestStamp
  <2>7. QED
    BY <1>4, <2>1, <2>3, <2>4, <2>5, <2>6 DEF View!Views
<1>6. QED
  BY <1>4, <1>5, UnknownAssumption

\* A put changes the view of its resource as ResourceView says.
LEMMA LearnRow ==
  ASSUME NEW s \in Samples, NEW row, RowOK(s.resource, row)
  PROVE  LET old == ViewOf(row) IN
         ViewOf(Put(row, Second(s.time), Serialized(s, "m"))) =
           IF old = Unknown
           THEN View!Alone(s)
           ELSE [meters  |-> old.meters \cup {<<s.time, s.source, s.name>>},
                 first   |-> IF s.time < old.first THEN s.time ELSE old.first,
                 last    |-> IF s.time > old.last THEN s.time ELSE old.last,
                 sources |-> old.sources \cup {s.source},
                 newest  |-> IF Second(s.time) > old.newest THEN Second(s.time)
                                                            ELSE old.newest,
                 meta    |-> IF Second(s.time) >= old.newest THEN s.meta ELSE old.meta]
<1> DEFINE ts == Second(s.time)
           after == Put(row, ts, Serialized(s, "m"))
<1>1. /\ RowOK(s.resource, after)
      /\ DOMAIN after = DOMAIN row \cup {ts}
      /\ RowMeters(after) = RowMeters(row) \cup {MeterCol(s, "m")}
      /\ RowSources(after) = RowSources(row) \cup {s.source}
      /\ Stamps(after) = Stamps(row) \cup {ts}
      /\ \A v \in Stamps(after) :
           after[v][<<"meta">>] = IF v = ts THEN s.meta ELSE row[v][<<"meta">>]
  BY PutRow
<1>2. s.time \in Int /\ ts \in Int
  BY SecondIsInt, SamplesAssumption
<1> HIDE DEF after, ts
<1>3. /\ ViewOf(after) =
              [meters  |-> {<<c[2], c[3], c[4]>> : c \in RowMeters(after)},
               first   |-> Min(RowTimes(after)), last |-> Max(RowTimes(after)),
               sources |-> RowSources(after),
               newest  |-> Max(Stamps(after)),
               meta    |-> after[Max(Stamps(after))][<<"meta">>]]
  BY <1>1, ViewOfRow
<1>4. RowTimes(after) = RowTimes(row) \cup {s.time}
  BY <1>1, ColumnParts DEF RowTimes
<1>5. {<<c[2], c[3], c[4]>> : c \in RowMeters(after)} =
        {<<c[2], c[3], c[4]>> : c \in RowMeters(row)} \cup {<<s.time, s.source, s.name>>}
  <2> DEFINE one == MeterCol(s, "m")
  <2>1. one[2] = s.time /\ one[3] = s.source /\ one[4] = s.name
    BY ColumnParts
  <2>2. RowMeters(after) = RowMeters(row) \cup {one}
    BY <1>1
  <2> HIDE DEF one
  <2>3. QED
    BY <2>1, <2>2
<1>6. CASE DOMAIN row = {}
  <2>1. ViewOf(row) = Unknown
    BY <1>6 DEF ViewOf
  <2>2. RowMeters(row) = {} /\ RowSources(row) = {} /\ RowTimes(row) = {}
    BY <1>6 DEF RowMeters, RowSources, RowSourceCols, RowTimes
  <2>3. Min(RowTimes(after)) = s.time /\ Max(RowTimes(after)) = s.time
    BY <1>2, <1>4, <2>2, ExtremeOfOne
  <2>4. Max(Stamps(after)) = ts
    <3>1. Stamps(row) = {}
      BY <1>6 DEF Stamps
    <3>2. QED
      BY <1>1, <1>2, <3>1, ExtremeOfOne
  <2>5. after[Max(Stamps(after))][<<"meta">>] = s.meta
    BY <1>1, <2>4
  <2>6. {<<c[2], c[3], c[4]>> : c \in RowMeters(after)} = {<<s.time, s.source, s.name>>}
    BY <1>5, <2>2
  <2>7. RowSources(after) = {s.source}
    BY <1>1, <2>2
  <2>8. ViewOf(after) = View!Alone(s)
    BY <1>3, <2>3, <2>4, <2>5, <2>6, <2>7 DEF View!Alone, ts
  <2>9. QED
    BY <2>1, <2>8 DEF after, ts
<1>7. CASE DOMAIN row # {}
  <2> DEFINE old == ViewOf(row)
  <2>1. /\ old = [meters  |-> {<<c[2], c[3], c[4]>> : c \in RowMeters(row)},
                  first   |-> Min(RowTimes(row)), last |-> Max(RowTimes(row)),
                  sources |-> RowSources(row),
                  newest  |-> Max(Stamps(row)),
                  meta    |-> row[Max(Stamps(row))][<<"meta">>]]
        /\ old # Unknown
    BY <1>7, ViewOfRow
  <2> HIDE DEF old
  <2>2. RowTimes(row) # {}
    BY <1>7, NewestStamp
  <2>3. /\ Max(RowTimes(after)) = IF s.time > old.last THEN s.time ELSE old.last
        /\ Min(RowTimes(after)) = IF s.time < old.first THEN s.time ELSE old.first
    BY <1>2, <1>4, <2>1, <2>2, ExtremesAdd DEF RowOK
  <2>4. Max(Stamps(after)) = IF ts > old.newest THEN ts ELSE old.newest
    BY <1>1, <1>2, <1>7, <2>1, NewestStamp, ExtremesAdd
  <2>5. old.newest \in Stamps(row) /\ old.newest \in Int
    BY <1>7, <2>1, NewestStamp
  <2>6. after[Max(Stamps(after))][<<"meta">>] =
          IF ts >= old.newest THEN s.meta ELSE old.meta
    <3>1. CASE ts >= old.newest
      <4>1. Max(Stamps(after)) = ts
        BY <1>2, <2>4, <2>5, <3>1
      <4>2. QED
        BY <1>1, <3>1, <4>1
    <3>2. CASE ~(ts >= old.newest)
      <4>1. Max(Stamps(after)) = old.newest /\ old.newest # ts
        BY <1>2, <2>4, <2>5, <3>2
      <4>2. old.meta = row[old.newest][<<"meta">>]
        BY <2>1
      <4>3. QED
        BY <1>1, <2>5, <3>2, <4>1, <4>2
    <3>3. QED
      BY <3>1, <3>2
  <2>7. /\ {<<c[2], c[3], c[4]>> : c \in RowMeters(after)} =
             old.meters \cup {<<s.time, s.source, s.name>>}
        /\ RowSources(after) = old.sources \cup {s.source}
    BY <1>1, <1>5, <2>1
  <2>8. ViewOf(after) =
          [meters  |-> old.meters \cup {<<s.time, s.source, s.name>>},
           first   |-> IF s.time < old.first THEN s.time ELSE old.first,
           last    |-> IF s.time > old.last THEN s.time ELSE old.last,
           sources |-> old.sources \cup {s.source},
           newest  |-> IF ts > old.newest THEN ts ELSE old.newest,
           meta    |-> IF ts >= old.newest THEN s.meta ELSE old.meta]
    BY <1>3, <2>3, <2>4, <2>6, <2>7
  <2>9. QED
    BY <2>1, <2>8 DEF old, after, ts
<1>8. QED
  BY <1>6, <1>7

-----------------------------------------------------------------------------
(* The upgrade of a row.                                                    *)

Names(row) == {<<c[2], c[3], c[4]>> : c \in RowMeters(row)}

\* Rows no reader of the whole row tells apart.
Same(a, b) ==
  /\ Names(a) = Names(b) /\ RowSourceCols(a) = RowSourceCols(b)
  /\ Stamps(a) = Stamps(b)
  /\ \A v \in Stamps(a) : a[v][<<"meta">>] = b[v][<<"meta">>]

LEMMA SameView ==
  ASSUME NEW r, NEW row, NEW after, RowOK(r, row), Same(row, after),
         Ordered(DOMAIN after), (DOMAIN row = {}) <=> (DOMAIN after = {}),
         \A v \in DOMAIN after : VersionOK(r, v, after[v])
  PROVE  RowOK(r, after) /\ ViewOf(after) = ViewOf(row)
<1>1. ASSUME NEW c \in RowMeters(after)
      PROVE  \E d \in RowMeters(row) : c[2] = d[2] /\ c[3] = d[3] /\ c[4] = d[4]
  <2>1. <<c[2], c[3], c[4]>> \in Names(row)
    BY DEF Same, Names
  <2>2. PICK d \in RowMeters(row) : <<c[2], c[3], c[4]>> = <<d[2], d[3], d[4]>>
    BY <2>1 DEF Names
  <2>3. QED
    BY <2>2
<1>2. ASSUME NEW d \in RowMeters(row)
      PROVE  \E c \in RowMeters(after) : c[2] = d[2] /\ c[3] = d[3] /\ c[4] = d[4]
  <2>1. <<d[2], d[3], d[4]>> \in Names(after)
    BY DEF Same, Names
  <2>2. PICK c \in RowMeters(after) : <<c[2], c[3], c[4]>> = <<d[2], d[3], d[4]>>
    BY <2>1 DEF Names
  <2>3. QED
    BY <2>2
<1>3. RowTimes(after) = RowTimes(row)
  BY <1>1, <1>2 DEF RowTimes
<1>4. RowSources(after) = RowSources(row)
  BY DEF RowSources, Same
<1>5. RowOK(r, after)
  <2>1. DOMAIN after # {} => RowMeters(after) # {}
    BY <1>2 DEF RowOK
  <2>2. \A c \in RowMeters(after) : Second(c[2]) \in Stamps(after)
    BY <1>1 DEF RowOK, Same
  <2>3. QED
    BY <1>3, <2>1, <2>2 DEF RowOK
<1>6. CASE DOMAIN row = {}
  BY <1>5, <1>6 DEF ViewOf
<1>7. CASE DOMAIN row # {}
  <2>1. Max(Stamps(row)) \in Stamps(row)
    BY <1>7, NewestStamp
  <2>2. /\ Max(Stamps(after)) = Max(Stamps(row))
        /\ after[Max(Stamps(row))][<<"meta">>] = row[Max(Stamps(row))][<<"meta">>]
    BY <2>1 DEF Same
  <2>3. {<<c[2], c[3], c[4]>> : c \in RowMeters(after)} =
          {<<c[2], c[3], c[4]>> : c \in RowMeters(row)}
    BY DEF Same, Names
  <2>4. QED
    BY <1>3, <1>4, <1>5, <1>7, <2>2, <2>3, ViewOfRow
<1>8. QED
  BY <1>6, <1>7

\* A row in which every column of the old format has its new one.
Upgraded(row) == \A c \in RowMeters(row) : IsOld(c) => Renamed(c) \in RowMeters(row)

LEMMA NewFormatSame ==
  ASSUME NEW r, NEW row, RowOK(r, row), DOMAIN row # {}, NEW now \in Int
  PROVE  LET after == Put(row, now, NewFormat(Latest(row))) IN
         /\ RowOK(r, after) /\ ViewOf(after) = ViewOf(row) /\ Same(row, after)
         /\ Upgraded(after) /\ RowMeters(row) \subseteq RowMeters(after)
<1> DEFINE all == Latest(row)
           olds == {d \in DOMAIN all : IsOld(d)}
           news == {Renamed(d) : d \in olds}
           cols == NewFormat(all)
           after == Put(row, now, cols)
           had == IF now \in DOMAIN row THEN DOMAIN row[now] ELSE {}
<1>1. olds = {d \in RowMeters(row) : IsOld(d)}
  <2>1. MeterCols(all) = RowMeters(row)
    BY LatestOf
  <2>2. olds = {d \in MeterCols(all) : IsOld(d)}
    BY DEF MeterCols, IsOld
  <2>3. QED
    BY <2>1, <2>2
<1>2. DOMAIN cols = news /\ \A c \in news : cols[c] = c[2]
  BY DEF NewFormat
<1>3. ASSUME NEW c \in news
      PROVE  \E s \in Samples : /\ s.resource = r /\ c = MeterCol(s, "m")
                                /\ c[1] = "m" /\ c[2] = s.time
                                /\ MeterCol(s, "old") \in RowMeters(row)
  <2>1. PICK d \in olds : c = Renamed(d)
    OBVIOUS
  <2>2. d \in RowMeters(row) /\ d[1] = "old"
    BY <1>1 DEF IsOld
  <2>3. PICK s \in Samples : /\ s.resource = r
                             /\ d = MeterCol(s, "m") \/ d = MeterCol(s, "old")
    BY <2>2, MeterOfRow
  <2>4. d = MeterCol(s, "old")
    BY <2>2, <2>3, ColumnParts
  <2>5. c = MeterCol(s, "m")
    BY <2>1, <2>4, RenamedOld
  <2>6. QED
    BY <2>2, <2>3, <2>4, <2>5, ColumnParts
<1>4. ASSUME NEW d \in olds PROVE Renamed(d) \in news
  OBVIOUS
<1>5. /\ DOMAIN after = DOMAIN row \cup {now}
      /\ \A v \in DOMAIN row \ {now} : after[v] = row[v]
      /\ after[now] = IF now \in DOMAIN row THEN Over(cols, row[now]) ELSE cols
  BY DEF Put, Over
<1>6. /\ DOMAIN after[now] = news \cup had
      /\ \A c \in news : after[now][c] = c[2]
      /\ \A c \in had \ news : after[now][c] = row[now][c]
  BY <1>2, <1>5 DEF Over
<1> HIDE DEF after, cols, news
<1>7. \A c \in news : c[1] = "m" /\ c[1] # "s" /\ c # <<"meta">> /\ ~IsOld(c)
  BY <1>3, ColumnParts DEF IsOld
<1>8. /\ MeterCols(after[now]) =
           news \cup (IF now \in DOMAIN row THEN MeterCols(row[now]) ELSE {})
      /\ SourceCols(after[now]) = IF now \in DOMAIN row THEN SourceCols(row[now]) ELSE {}
  BY <1>6, <1>7 DEF MeterCols, SourceCols
<1>9. /\ RowMeters(after) = RowMeters(row) \cup news
      /\ RowSourceCols(after) = RowSourceCols(row)
  BY <1>5, <1>8 DEF RowMeters, RowSourceCols
<1>10. /\ Stamps(after) = Stamps(row)
       /\ \A v \in Stamps(row) : after[v][<<"meta">>] = row[v][<<"meta">>]
  BY <1>5, <1>6, <1>7 DEF Stamps
<1>11. Names(after) = Names(row)
  <2>1. ASSUME NEW c \in news
        PROVE  \E d \in RowMeters(row) : d[2] = c[2] /\ d[3] = c[3] /\ d[4] = c[4]
    BY <1>3, ColumnParts
  <2>2. QED
    BY <1>9, <2>1 DEF Names
<1>12. Same(row, after)
  BY <1>9, <1>10, <1>11 DEF Same
<1>13. ASSUME NEW v \in DOMAIN after PROVE VersionOK(r, v, after[v])
  <2>1. CASE v # now
    BY <1>5, <2>1 DEF RowOK
  <2>2. CASE v = now
    <3>1. ASSUME NEW c \in MeterCols(after[now])
          PROVE  \E s \in Samples : /\ s.resource = r /\ after[now][c] = s.time
                                    /\ c = MeterCol(s, "m") \/ c = MeterCol(s, "old")
      <4>1. CASE c \in news
        BY <1>3, <1>6, <4>1
      <4>2. CASE c \notin news
        <5>1. /\ now \in DOMAIN row /\ c \in MeterCols(row[now])
              /\ after[now][c] = row[now][c]
          BY <1>6, <1>8, <4>2 DEF MeterCols
        <5>2. VersionOK(r, now, row[now])
          BY <5>1 DEF RowOK
        <5>3. QED
          BY <5>1, <5>2 DEF VersionOK
      <4>3. QED
        BY <4>1, <4>2
    <3>2. <<"meta">> \in DOMAIN after[now] =>
            \E s \in Samples : /\ s.resource = r /\ Second(s.time) = now
                               /\ after[now][<<"meta">>] = s.meta
      BY <1>6, <1>7 DEF RowOK, VersionOK
    <3>3. \A c \in SourceCols(after[now]) : \E s \in Samples : c = <<"s", s.source>>
      BY <1>8 DEF RowOK, VersionOK
    <3>4. QED
      BY <2>2, <3>1, <3>2, <3>3 DEF VersionOK
  <2>3. QED
    BY <2>1, <2>2
<1>14. Ordered(DOMAIN after) /\ DOMAIN after # {}
  BY <1>5, OrderedAdd DEF RowOK
<1>15. RowOK(r, after) /\ ViewOf(after) = ViewOf(row)
  BY <1>12, <1>13, <1>14, SameView
<1>16. Upgraded(after)
  BY <1>1, <1>4, <1>7, <1>9 DEF Upgraded
<1>17. QED
  BY <1>9, <1>12, <1>15, <1>16 DEF after, cols

LEMMA WithoutSame ==
  ASSUME NEW r, NEW row, RowOK(r, row), Upgraded(row)
  PROVE  LET after == [v \in DOMAIN row |->
                         Without(row[v], {c \in DOMAIN row[v] : IsOld(c)})] IN
         /\ RowOK(r, after) /\ ViewOf(after) = ViewOf(row) /\ Same(row, after)
         /\ \A s \in Samples : MeterCol(s, "m") \in RowMeters(row)
                                 \/ MeterCol(s, "old") \in RowMeters(row)
              => MeterCol(s, "m") \in RowMeters(after)
<1> DEFINE after == [v \in DOMAIN row |->
                       Without(row[v], {c \in DOMAIN row[v] : IsOld(c)})]
<1>1. /\ DOMAIN after = DOMAIN row
      /\ \A v \in DOMAIN row :
           /\ DOMAIN after[v] = {c \in DOMAIN row[v] : ~IsOld(c)}
           /\ \A c \in DOMAIN after[v] : after[v][c] = row[v][c]
  BY DEF Without
<1> HIDE DEF after
<1>2. \A v \in DOMAIN row : /\ MeterCols(after[v]) = {c \in MeterCols(row[v]) : ~IsOld(c)}
                            /\ SourceCols(after[v]) = SourceCols(row[v])
  BY <1>1 DEF MeterCols, SourceCols, IsOld
<1>3. /\ RowMeters(after) = {c \in RowMeters(row) : ~IsOld(c)}
      /\ RowSourceCols(after) = RowSourceCols(row)
  BY <1>1, <1>2 DEF RowMeters, RowSourceCols
<1>4. /\ Stamps(after) = Stamps(row)
      /\ \A v \in Stamps(row) : after[v][<<"meta">>] = row[v][<<"meta">>]
  <2>1. ~IsOld(<<"meta">>)
    BY ColumnParts DEF IsOld
  <2>2. QED
    BY <1>1, <2>1 DEF Stamps
<1>5. ASSUME NEW s \in Samples,
             MeterCol(s, "m") \in RowMeters(row) \/ MeterCol(s, "old") \in RowMeters(row)
      PROVE  MeterCol(s, "m") \in RowMeters(after)
  <2>1. MeterCol(s, "m") \in RowMeters(row)
    BY <1>5, RenamedOld, ColumnParts DEF Upgraded, IsOld
  <2>2. QED
    BY <1>3, <2>1, ColumnParts DEF IsOld
<1>6. ASSUME NEW c \in RowMeters(row)
      PROVE  \E d \in RowMeters(after) : d[2] = c[2] /\ d[3] = c[3] /\ d[4] = c[4]
  <2>1. PICK s \in Samples : c = MeterCol(s, "m") \/ c = MeterCol(s, "old")
    BY MeterOfRow
  <2>2. QED
    BY <1>5, <2>1, ColumnParts
<1>7. Names(after) = Names(row)
  BY <1>3, <1>6 DEF Names
<1>8. Same(row, after)
  BY <1>3, <1>4, <1>7 DEF Same
<1>9. ASSUME NEW v \in DOMAIN after PROVE VersionOK(r, v, after[v])
  <2>1. VersionOK(r, v, row[v])
    BY <1>1 DEF RowOK
  <2>2. /\ <<"meta">> \in DOMAIN after[v] =>
             <<"meta">> \in DOMAIN row[v] /\ after[v][<<"meta">>] = row[v][<<"meta">>]
        /\ \A c \in MeterCols(after[v]) : c \in MeterCols(row[v]) /\ after[v][c] = row[v][c]
        /\ SourceCols(after[v]) = SourceCols(row[v])
    BY <1>1, <1>2 DEF MeterCols
  <2>3. QED
    BY <2>1, <2>2 DEF VersionOK
<1>10. RowOK(r, after) /\ ViewOf(after) = ViewOf(row)
  BY <1>1, <1>8, <1>9, SameView DEF RowOK
<1>11. QED
  BY <1>5, <1>8, <1>10 DEF after

-----------------------------------------------------------------------------
(* The inductive invariant.                                                 *)

TablesOK ==
  /\ resource = [r \in Resources |-> resource[r]]
  /\ \A r \in Resources : RowOK(r, resource[r])
  /\ meter \subseteq [old : BOOLEAN, sample : Samples]
  /\ recording \subseteq Samples

HasMeter(s) ==
  \/ MeterCol(s, "m") \in RowMeters(resource[s.resource])
  \/ MeterCol(s, "old") \in RowMeters(resource[s.resource])

\* Also of a sample whose second put is still to come.
MetersThere ==
  /\ \A m \in meter : HasMeter(m.sample)
  /\ \A s \in recording : HasMeter(s)

\* The upgrade deletes what it has put in the new format.
MovingPut ==
  /\ moving \in Samples => [old |-> FALSE, sample |-> moving] \in meter
  /\ moving \in Resources => Upgraded(resource[moving])

\* What a scan has kept of a row: times of the asked range, of seconds the
\* row still has; and the metadata, if they are of the scan, of a sample no
\* older than any of them.
ReadOK(r, q, cols) ==
  /\ Ordered(Times(cols))
  /\ \A c \in MeterCols(cols) :
       /\ Second(cols[c]) \in Stamps(resource[r])
       /\ q.start # Unknown => cols[c] >= q.start
       /\ q.end # Unknown => cols[c] <= q.end
  /\ ~Timed(q) => \E s \in Samples :
       /\ s.resource = r /\ cols[<<"meta">>] = s.meta
       /\ \A c \in MeterCols(cols) : Second(cols[c]) <= Second(s.time)

ReaderOK ==
  reader # Idle =>
    /\ reader = [q |-> reader.q, rows |-> reader.rows]
    /\ reader.q \in Queries
    /\ \A r \in DOMAIN reader.rows : r \in Resources /\ ReadOK(r, reader.q, reader.rows[r])

Inv == TablesOK /\ MetersThere /\ MovingPut /\ ReaderOK /\ YieldedCoherent

\* The part about readers is kept by whatever takes no stamp from a row.
LEMMA ReaderKept ==
  ASSUME Inv, UNCHANGED <<reader, yielded>>,
         \A r \in Resources : Stamps(resource[r]) \subseteq Stamps(resource'[r])
  PROVE  ReaderOK' /\ YieldedCoherent'
<1>1. YieldedCoherent'
  BY DEF Inv, YieldedCoherent
<1>2. ASSUME NEW r \in Resources, NEW q, NEW cols, ReadOK(r, q, cols)
      PROVE  ReadOK(r, q, cols)'
  BY <1>2 DEF ReadOK
<1>3. ReaderOK'
  BY <1>2 DEF Inv, ReaderOK
<1>4. QED
  BY <1>1, <1>3

\* ... and the parts about meters by whatever changes no row.
LEMMA RowsKept ==
  ASSUME Inv, UNCHANGED resource
  PROVE  /\ \A s : HasMeter(s) => HasMeter(s)'
         /\ \A r \in Resources : Stamps(resource[r]) \subseteq Stamps(resource'[r])
  BY DEF HasMeter

LEMMA InitInv == Init => Inv
<1> SUFFICES ASSUME Init PROVE Inv
  OBVIOUS
<1>1. PICK old \in {{}, OldSamples} :
        /\ resource = [r \in Resources |->
             [v \in { Second(s.time) : s \in {s \in old : s.resource = r} } |->
                Serialized(CHOOSE s \in {s \in old : s.resource = r} : Second(s.time) = v,
                           "old")]]
        /\ meter = { [old |-> TRUE, sample |-> s] : s \in old }
  BY DEF Init
<1>2. old \subseteq Samples /\ \A s, t \in old : s.resource = t.resource => s = t
  BY OldSamplesAssumption
<1>3. ASSUME NEW s \in old
      PROVE  /\ DOMAIN resource[s.resource] = {Second(s.time)}
             /\ resource[s.resource][Second(s.time)] = Serialized(s, "old")
  <2>1. {t \in old : t.resource = s.resource} = {s}
    BY <1>2
  <2>2. s.resource \in Resources
    BY <1>2, SamplesAssumption
  <2>3. (CHOOSE t \in {s} : Second(t.time) = Second(s.time)) = s
    OBVIOUS
  <2>4. resource[s.resource] =
          [v \in { Second(t.time) : t \in {s} } |->
             Serialized(CHOOSE t \in {s} : Second(t.time) = v, "old")]
    BY <1>1, <2>1, <2>2
  <2>5. QED
    BY <2>3, <2>4
<1>4. ASSUME NEW r \in Resources PROVE RowOK(r, resource[r])
  <2>1. CASE \E s \in old : s.resource = r
    <3>1. PICK s \in old : s.resource = r
      BY <2>1
    <3>2. /\ DOMAIN resource[r] = {Second(s.time)}
          /\ resource[r][Second(s.time)] = Serialized(s, "old")
          /\ s \in Samples /\ s.time \in Int /\ Second(s.time) \in Int
      BY <1>2, <1>3, <3>1, SecondIsInt, SamplesAssumption
    <3>3. /\ VersionOK(r, Second(s.time), Serialized(s, "old"))
          /\ MeterCols(Serialized(s, "old")) = {MeterCol(s, "old")}
          /\ <<"meta">> \in DOMAIN Serialized(s, "old")
      BY <3>1, <3>2, PutColumns
    <3> DEFINE one == MeterCol(s, "old")
    <3>4. one[2] = s.time /\ RowMeters(resource[r]) = {one}
      BY <3>2, <3>3, ColumnParts DEF RowMeters
    <3>5. Stamps(resource[r]) = {Second(s.time)}
      BY <3>2, <3>3 DEF Stamps
    <3> HIDE DEF one
    <3>6. RowTimes(resource[r]) = {s.time}
      BY <3>4 DEF RowTimes
    <3>7. \A c \in RowMeters(resource[r]) : Second(c[2]) \in Stamps(resource[r])
      BY <3>4, <3>5
    <3>8. QED
      BY <3>2, <3>3, <3>4, <3>6, <3>7, OrderedOne DEF RowOK
  <2>2. CASE ~ \E s \in old : s.resource = r
    <3>1. {s \in old : s.resource = r} = {}
      BY <2>2
    <3>2. DOMAIN resource[r] = {}
      BY <1>1, <3>1
    <3>3. RowMeters(resource[r]) = {} /\ RowTimes(resource[r]) = {}
      BY <3>2 DEF RowTimes, RowMeters
    <3>4. QED
      BY <3>2, <3>3 DEF RowOK, Ordered
  <2>3. QED
    BY <2>1, <2>2
<1>5. TablesOK
  <2>1. resource = [r \in Resources |-> resource[r]]
    BY <1>1
  <2>2. \A s \in old : [old |-> TRUE, sample |-> s] \in [old : BOOLEAN, sample : Samples]
    BY <1>2
  <2>3. meter \subseteq [old : BOOLEAN, sample : Samples]
    BY <1>1, <2>2
  <2>4. QED
    BY <1>4, <2>1, <2>3 DEF TablesOK, Init
<1>6. MetersThere
  <2>1. ASSUME NEW s \in old PROVE HasMeter(s)
    BY <1>2, <1>3, PutColumns DEF HasMeter, RowMeters
  <2>2. QED
    BY <1>1, <2>1 DEF MetersThere, Init
<1>7. MovingPut
  BY IdleAssumption DEF MovingPut, Init
<1>8. QED
  BY <1>5, <1>6, <1>7 DEF Inv, ReaderOK, YieldedCoherent, Init

\* The first put of a recorder.
LEMMA PutResourceInv ==
  ASSUME Inv, NEW s \in Samples, PutResource(s)
  PROVE  Inv'
<1> DEFINE row == resource[s.resource]
           after == Put(row, Second(s.time), Serialized(s, "m"))
<1>1. /\ resource' = [resource EXCEPT ![s.resource] = after]
      /\ recording' = recording \cup {s}
      /\ UNCHANGED <<backend, meter, reads, moving, reader, yielded>>
      /\ s.resource \in Resources /\ RowOK(s.resource, row)
  BY SamplesAssumption DEF PutResource, Inv, TablesOK
<1>2. /\ RowOK(s.resource, after)
      /\ Stamps(after) = Stamps(row) \cup {Second(s.time)}
      /\ RowMeters(after) = RowMeters(row) \cup {MeterCol(s, "m")}
  BY <1>1, PutRow
<1>3. /\ resource' = [r \in Resources |-> resource'[r]]
      /\ resource'[s.resource] = after
      /\ \A r \in Resources \ {s.resource} : resource'[r] = resource[r]
  BY <1>1 DEF Inv, TablesOK
<1>4. Upgraded(row) => Upgraded(after)
  <2>1. ~IsOld(MeterCol(s, "m"))
    BY ColumnParts DEF IsOld
  <2>2. QED
    BY <1>2, <2>1 DEF Upgraded
<1> HIDE DEF after
<1>5. TablesOK'
  BY <1>1, <1>2, <1>3 DEF Inv, TablesOK
<1>6. ASSUME NEW t, t.resource \in Resources, HasMeter(t) PROVE HasMeter(t)'
  <2>1. CASE t.resource # s.resource
    BY <1>3, <1>6, <2>1 DEF HasMeter
  <2>2. CASE t.resource = s.resource
    BY <1>2, <1>3, <1>6, <2>2 DEF HasMeter
  <2>3. QED
    BY <2>1, <2>2
<1>7. HasMeter(s)'
  BY <1>2, <1>3 DEF HasMeter
<1>8. MetersThere'
  <2>1. \A m \in meter : m.sample.resource \in Resources
    BY SamplesAssumption DEF Inv, TablesOK
  <2>2. \A t \in recording : t.resource \in Resources
    BY SamplesAssumption DEF Inv, TablesOK
  <2>3. QED
    BY <1>1, <1>6, <1>7, <2>1, <2>2 DEF Inv, MetersThere
<1>9. MovingPut'
  <2>1. ASSUME moving \in Resources PROVE Upgraded(resource'[moving])
    BY <1>3, <1>4, <2>1 DEF Inv, MovingPut
  <2>2. QED
    BY <1>1, <2>1 DEF Inv, MovingPut
<1>10. \A r \in Resources : Stamps(resource[r]) \subseteq Stamps(resource'[r])
  BY <1>2, <1>3
<1>11. ReaderOK' /\ YieldedCoherent'
  BY <1>1, <1>10, ReaderKept
<1>12. QED
  BY <1>5, <1>8, <1>9, <1>11 DEF Inv

\* A step that changes the meter table and no row: what it adds is there
\* already, and what it deletes is there in the new format.
LEMMA MeterTableInv ==
  ASSUME Inv, UNCHANGED <<resource, reader, yielded>>,
         meter' \subseteq [old : BOOLEAN, sample : Samples],
         \A m \in meter' : m.sample \in recording \/ \E n \in meter : n.sample = m.sample,
         recording' \subseteq recording,
         moving' = Idle \/ (moving' \in Samples
                            /\ [old |-> FALSE, sample |-> moving'] \in meter')
         \/ (UNCHANGED moving /\ meter \subseteq meter')
  PROVE  Inv'
<1>1. TablesOK'
  BY DEF Inv, TablesOK
<1>2. MetersThere'
  BY RowsKept DEF Inv, MetersThere
<1>3. MovingPut'
  BY IdleAssumption DEF Inv, MovingPut
<1>4. ReaderOK' /\ YieldedCoherent'
  BY RowsKept, ReaderKept
<1>5. QED
  BY <1>1, <1>2, <1>3, <1>4 DEF Inv

LEMMA PutMeterInv ==
  ASSUME Inv, NEW s \in Samples, PutMeter(s)
  PROVE  Inv'
<1>1. /\ s \in recording /\ recording' = recording \ {s}
      /\ meter' = meter \cup {[old |-> FALSE, sample |-> s]}
      /\ UNCHANGED <<resource, reader, yielded, moving>>
  BY DEF PutMeter
<1>2. [old |-> FALSE, sample |-> s] \in [old : BOOLEAN, sample : Samples]
  OBVIOUS
<1>3. meter' \subseteq [old : BOOLEAN, sample : Samples]
  BY <1>1, <1>2 DEF Inv, TablesOK
<1>4. [old |-> FALSE, sample |-> s].sample = s
  OBVIOUS
<1>5. \A m \in meter' : m.sample \in recording \/ \E n \in meter : n.sample = m.sample
  BY <1>1, <1>4
<1>6. meter \subseteq meter' /\ recording' \subseteq recording
  BY <1>1
<1>7. QED
  BY <1>1, <1>3, <1>5, <1>6, MeterTableInv

LEMMA MigrateMeterInv ==
  ASSUME Inv, NEW s \in Samples, MigrateMeterPut(s) \/ MigrateMeterDelete(s)
  PROVE  Inv'
<1>1. CASE MigrateMeterPut(s)
  <2>1. /\ [old |-> TRUE, sample |-> s] \in meter /\ moving' = s
        /\ meter' = meter \cup {[old |-> FALSE, sample |-> s]}
        /\ UNCHANGED <<resource, recording, reader, yielded>>
    BY <1>1 DEF MigrateMeterPut
  <2>2. /\ [old |-> FALSE, sample |-> s] \in [old : BOOLEAN, sample : Samples]
        /\ [old |-> TRUE, sample |-> s].sample = [old |-> FALSE, sample |-> s].sample
    OBVIOUS
  <2>3. /\ meter' \subseteq [old : BOOLEAN, sample : Samples]
        /\ \A m \in meter' : \E n \in meter : n.sample = m.sample
    BY <2>1, <2>2 DEF Inv, TablesOK
  <2>4. QED
    BY <2>1, <2>3, MeterTableInv
<1>2. CASE MigrateMeterDelete(s)
  <2>1. /\ moving' = Idle /\ meter' \subseteq meter
        /\ UNCHANGED <<resource, recording, reader, yielded>>
    BY <1>2 DEF MigrateMeterDelete
  <2>2. QED
    BY <2>1, MeterTableInv DEF Inv, TablesOK
<1>3. QED
  BY <1>1, <1>2

\* Both halves of the upgrade of a row leave it what it was to a reader of the
\* whole row.
LEMMA UpgradeRow ==
  ASSUME Inv, NEW r \in Resources, MigrateResourcePut(r) \/ MigrateResourceDelete(r)
  PROVE  /\ resource' = [q \in Resources |-> resource'[q]]
         /\ \A q \in Resources \ {r} : resource'[q] = resource[q]
         /\ RowOK(r, resource'[r]) /\ ViewOf(resource'[r]) = ViewOf(resource[r])
         /\ Same(resource[r], resource'[r])
         /\ moving' = r => Upgraded(resource'[r])
         /\ \A s \in Samples :
              \/ MeterCol(s, "m") \in RowMeters(resource[r])
              \/ MeterCol(s, "old") \in RowMeters(resource[r])
              => \/ MeterCol(s, "m") \in RowMeters(resource'[r])
                 \/ MeterCol(s, "old") \in RowMeters(resource'[r])
         /\ moving' \in {r, Idle}
<1>1. resource = [q \in Resources |-> resource[q]] /\ RowOK(r, resource[r])
  BY DEF Inv, TablesOK
<1>2. CASE MigrateResourcePut(r)
  <2>1. PICK now \in ServerTimes :
          resource' = [resource EXCEPT ![r] =
                         Put(resource[r], now, NewFormat(Latest(resource[r])))]
    BY <1>2 DEF MigrateResourcePut
  <2>2. moving' = r
    BY <1>2 DEF MigrateResourcePut
  <2>3. /\ resource' = [q \in Resources |-> resource'[q]]
        /\ \A q \in Resources \ {r} : resource'[q] = resource[q]
        /\ resource'[r] = Put(resource[r], now, NewFormat(Latest(resource[r])))
    BY <1>1, <2>1
  <2>4. DOMAIN resource[r] # {} /\ now \in Int
    BY <1>2, ServerTimesAssumption DEF MigrateResourcePut, Latest
  <2>5. /\ RowOK(r, resource'[r]) /\ ViewOf(resource'[r]) = ViewOf(resource[r])
        /\ Same(resource[r], resource'[r]) /\ Upgraded(resource'[r])
        /\ RowMeters(resource[r]) \subseteq RowMeters(resource'[r])
    BY <1>1, <2>3, <2>4, NewFormatSame
  <2>6. QED
    BY <2>2, <2>3, <2>5
<1>3. CASE MigrateResourceDelete(r)
  <2> DEFINE row == resource[r]
             after == [v \in DOMAIN row |->
                         Without(row[v], {c \in DOMAIN row[v] : IsOld(c)})]
  <2>1. /\ moving = r /\ moving' = Idle /\ Idle # r
        /\ resource' = [resource EXCEPT ![r] = after]
    BY <1>3, IdleAssumption DEF MigrateResourceDelete
  <2>2. RowOK(r, row) /\ Upgraded(row)
    BY <1>1, <2>1 DEF Inv, MovingPut
  <2>3. /\ RowOK(r, after) /\ ViewOf(after) = ViewOf(row) /\ Same(row, after)
        /\ \A s \in Samples :
             \/ MeterCol(s, "m") \in RowMeters(row)
             \/ MeterCol(s, "old") \in RowMeters(row)
             => MeterCol(s, "m") \in RowMeters(after)
    BY <2>2, WithoutSame
  <2> HIDE DEF after
  <2>4. /\ resource' = [q \in Resources |-> resource'[q]]
        /\ \A q \in Resources \ {r} : resource'[q] = resource[q]
        /\ resource'[r] = after
    BY <1>1, <2>1
  <2>5. QED
    BY <2>1, <2>3, <2>4
<1>4. QED
  BY <1>2, <1>3

LEMMA MigrateResourceInv ==
  ASSUME Inv, NEW r \in Resources, MigrateResourcePut(r) \/ MigrateResourceDelete(r)
  PROVE  Inv'
<1>1. UNCHANGED <<meter, recording, reader, yielded>>
  BY DEF MigrateResourcePut, MigrateResourceDelete
<1>2. RowOK(r, resource'[r])
  BY UpgradeRow
<1>3. TablesOK'
  BY <1>1, <1>2, UpgradeRow DEF Inv, TablesOK
<1>4. ASSUME NEW s \in Samples, HasMeter(s) PROVE HasMeter(s)'
  <2>1. s.resource \in Resources
    BY SamplesAssumption
  <2>2. CASE s.resource # r
    BY <1>4, <2>1, <2>2, UpgradeRow DEF HasMeter
  <2>3. CASE s.resource = r
    BY <1>4, <2>3, UpgradeRow DEF HasMeter
  <2>4. QED
    BY <2>2, <2>3
<1>5. MetersThere'
  <2>1. \A m \in meter : m.sample \in Samples
    BY DEF Inv, TablesOK
  <2>2. QED
    BY <1>1, <1>4, <2>1 DEF Inv, TablesOK, MetersThere
<1>6. MovingPut'
  <2>1. moving' \notin Samples
    BY UpgradeRow, IdleAssumption
  <2>2. moving' \in Resources => moving' = r
    BY UpgradeRow, IdleAssumption
  <2>3. QED
    BY <2>1, <2>2, UpgradeRow DEF MovingPut
<1>7. ReaderOK' /\ YieldedCoherent'
  <2>1. \A q \in Resources : Stamps(resource[q]) \subseteq Stamps(resource'[q])
    BY UpgradeRow DEF Same
  <2>2. QED
    BY <1>1, <2>1, ReaderKept
<1>8. QED
  BY <1>3, <1>5, <1>6, <1>7 DEF Inv

-----------------------------------------------------------------------------
(* Readers.                                                                 *)

\* A step of a reader, which changes no table.
LEMMA TablesKept ==
  ASSUME Inv, UNCHANGED <<resource, meter, recording, moving>>
  PROVE  TablesOK' /\ MetersThere' /\ MovingPut'
  BY RowsKept DEF Inv, TablesOK, MetersThere, MovingPut

LEMMA ScanInv ==
  ASSUME Inv, NEW q \in Queries, Scan(q)
  PROVE  Inv'
<1>1. /\ reader' = [q |-> q, rows |-> [r \in Hits(q) |-> Kept(Latest(resource[r]), q)]]
      /\ UNCHANGED <<resource, meter, recording, moving, yielded>>
  BY DEF Scan
<1>2. ASSUME NEW r \in Hits(q)
      PROVE  r \in Resources /\ ReadOK(r, q, Kept(Latest(resource[r]), q))
  <2> DEFINE row == resource[r]
             all == Latest(row)
             cols == Kept(all, q)
  <2>1. r \in Resources /\ RowOK(r, row) /\ DOMAIN row # {}
    BY DEF Hits, Inv, TablesOK
  <2>2. /\ MeterCols(all) = RowMeters(row)
        /\ \A c \in MeterCols(all) : all[c] = c[2]
        /\ all[<<"meta">>] = row[Max(Stamps(row))][<<"meta">>]
    BY <2>1, LatestOf
  <2> HIDE DEF all
  <2>3. /\ MeterCols(cols) \subseteq MeterCols(all)
        /\ \A c \in MeterCols(cols) : cols[c] = all[c] /\ (Timed(q) => InRange(c, q))
    BY DEF Kept, MeterCols
  <2>4. ~Timed(q) => cols = all
    BY DEF Kept
  <2> HIDE DEF cols
  <2>5. ASSUME NEW c \in MeterCols(cols)
        PROVE  cols[c] = c[2] /\ c[2] \in Int /\ Second(c[2]) \in Stamps(row)
    <3>1. c \in RowMeters(row) /\ cols[c] = c[2]
      BY <2>2, <2>3
    <3>2. \E s \in Samples : c[2] = s.time
      BY <2>1, <3>1, MeterOfRow
    <3>3. Second(c[2]) \in Stamps(row)
      BY <2>1, <3>1 DEF RowOK
    <3>4. QED
      BY <3>1, <3>2, <3>3, SamplesAssumption
  <2>6. Ordered(Times(cols))
    <3>1. Times(cols) \subseteq RowTimes(row)
      BY <2>2, <2>3 DEF Times, RowTimes
    <3>2. QED
      BY <2>1, <3>1, OrderedPart DEF RowOK
  <2>7. ASSUME NEW c \in MeterCols(cols)
        PROVE  /\ q.start # Unknown => cols[c] >= q.start
               /\ q.end # Unknown => cols[c] <= q.end
    <3>1. cols[c] = c[2] /\ c[2] \in Int
      BY <2>5
    <3>2. ASSUME q.start # Unknown PROVE c[2] >= q.start
      <4>1. q.start \in Int
        BY <3>2, QueriesAssumption
      <4>2. c[2] > q.start \/ c[2] = q.start
        BY <2>3, <3>2 DEF Timed, InRange
      <4>3. QED
        BY <3>1, <4>1, <4>2
    <3>3. ASSUME q.end # Unknown PROVE c[2] <= q.end
      <4>1. q.end \in Int
        BY <3>3, QueriesAssumption
      <4>2. c[2] < q.end \/ c[2] = q.end
        BY <2>3, <3>3 DEF Timed, InRange
      <4>3. QED
        BY <3>1, <4>1, <4>2
    <3>4. QED
      BY <3>1, <3>2, <3>3
  <2>8. ASSUME ~Timed(q)
        PROVE  \E s \in Samples :
                 /\ s.resource = r /\ cols[<<"meta">>] = s.meta
                 /\ \A c \in MeterCols(cols) : Second(cols[c]) <= Second(s.time)
    <3>1. /\ \A v \in Stamps(row) : Max(Stamps(row)) >= v
          /\ Ordered(Stamps(row))
      BY <2>1, NewestStamp
    <3>2. PICK s \in Samples : /\ s.resource = r /\ Second(s.time) = Max(Stamps(row))
                               /\ row[Max(Stamps(row))][<<"meta">>] = s.meta
      BY <2>1, NewestStamp
    <3>3. cols[<<"meta">>] = s.meta
      BY <2>2, <2>4, <2>8, <3>2
    <3>4. Stamps(row) \subseteq Int
      BY <3>1 DEF Ordered
    <3>5. \A c \in MeterCols(cols) : Second(cols[c]) <= Second(s.time)
      <4>1. Second(s.time) \in Int
        BY SecondIsInt, SamplesAssumption
      <4>2. QED
        BY <2>5, <3>1, <3>2, <3>4, <4>1
    <3>6. QED
      BY <3>2, <3>3, <3>5
  <2>9. ReadOK(r, q, cols)
    BY <2>5, <2>6, <2>7, <2>8 DEF ReadOK
  <2>10. QED
    BY <2>1, <2>9 DEF cols, all
<1>3. ReaderOK'
  <2>1. /\ reader'.q = q /\ DOMAIN reader'.rows = Hits(q)
        /\ \A r \in Hits(q) : reader'.rows[r] = Kept(Latest(resource[r]), q)
        /\ reader' = [q |-> reader'.q, rows |-> reader'.rows]
    BY <1>1
  <2>2. ASSUME NEW r, NEW cols, ReadOK(r, q, cols) PROVE ReadOK(r, q, cols)'
    BY <1>1, <2>2 DEF ReadOK
  <2>3. QED
    BY <1>2, <2>1, <2>2 DEF ReaderOK
<1>4. YieldedCoherent'
  BY <1>1 DEF Inv, YieldedCoherent
<1>5. QED
  BY <1>1, <1>3, <1>4, TablesKept DEF Inv

LEMMA YieldInv ==
  ASSUME Inv, NEW r \in Resources, Yield(r)
  PROVE  Inv'
<1> DEFINE cols == reader.rows[r]
           rest == IF Timed(reader.q) THEN Latest(resource[r]) ELSE cols
<1>1. /\ reader # Idle /\ r \in DOMAIN reader.rows
      /\ UNCHANGED <<resource, meter, recording, moving>>
      /\ reader = [q |-> reader.q, rows |-> reader.rows]
      /\ reader.q \in Queries
      /\ \A x \in DOMAIN reader.rows : x \in Resources /\ ReadOK(x, reader.q, reader.rows[x])
  BY DEF Yield, Inv, ReaderOK
<1>2. PICK c \in MeterCols(cols) :
        IF IsOld(c) THEN yielded' = Unknown /\ reader' = Idle
        ELSE /\ yielded' = [q |-> reader.q, resource |-> r, source |-> c[3],
                            first |-> Min(Times(cols)), last |-> Max(Times(cols)),
                            meta |-> rest[<<"meta">>]]
             /\ reader' = [reader EXCEPT !.rows = [x \in DOMAIN reader.rows \ {r} |->
                                                     reader.rows[x]]]
  BY DEF Yield
<1>3. CASE IsOld(c)
  BY <1>1, <1>2, <1>3, TablesKept DEF Inv, ReaderOK, YieldedCoherent
<1>4. CASE ~IsOld(c)
  <2>1. ReaderOK'
    <3>1. /\ reader'.q = reader.q
          /\ reader'.rows = [x \in DOMAIN reader.rows \ {r} |-> reader.rows[x]]
          /\ reader' = [q |-> reader'.q, rows |-> reader'.rows]
      BY <1>1, <1>2, <1>4
    <3>2. \A x \in DOMAIN reader'.rows :
            x \in DOMAIN reader.rows /\ reader'.rows[x] = reader.rows[x]
      BY <3>1
    <3>3. ASSUME NEW x, NEW q, NEW k, ReadOK(x, q, k) PROVE ReadOK(x, q, k)'
      BY <1>1, <3>3 DEF ReadOK
    <3>4. QED
      BY <1>1, <3>1, <3>2, <3>3 DEF ReaderOK
  <2>2. ReadOK(r, reader.q, cols)
    BY <1>1
  <2>3. Times(cols) # {}
    BY DEF Times
  <2>4. /\ Max(Times(cols)) \in Times(cols) /\ \A y \in Times(cols) : Max(Times(cols)) >= y
        /\ Min(Times(cols)) \in Times(cols)
    BY <2>2, <2>3, Extremes DEF ReadOK
  <2>5. PICK a \in MeterCols(cols) : Min(Times(cols)) = cols[a]
    BY <2>4 DEF Times
  <2>6. PICK z \in MeterCols(cols) : Max(Times(cols)) = cols[z]
    BY <2>4 DEF Times
  <2>7. /\ Min(Times(cols)) <= Max(Times(cols))
        /\ reader.q.start # Unknown => Min(Times(cols)) >= reader.q.start
        /\ reader.q.end # Unknown => Max(Times(cols)) <= reader.q.end
    <3>1. Max(Times(cols)) >= Min(Times(cols))
      BY <2>4
    <3>2. Max(Times(cols)) \in Int /\ Min(Times(cols)) \in Int
      BY <2>2, <2>4 DEF ReadOK, Ordered
    <3>3. QED
      BY <2>2, <2>5, <2>6, <3>1, <3>2 DEF ReadOK
  <2>8. \E s \in Samples : /\ s.resource = r /\ s.meta = rest[<<"meta">>]
                           /\ Second(s.time) >= Second(Max(Times(cols)))
    <3>1. /\ Second(Max(Times(cols))) \in Stamps(resource[r]) /\ RowOK(r, resource[r])
          /\ DOMAIN resource[r] # {}
      BY <2>2, <2>6 DEF ReadOK, Inv, TablesOK, Stamps
    <3>2. Stamps(resource[r]) \subseteq Int
      BY <3>1, NewestStamp DEF Ordered
    <3>3. CASE Timed(reader.q)
      <4>1. rest[<<"meta">>] = resource[r][Max(Stamps(resource[r]))][<<"meta">>]
        BY <3>1, <3>3, LatestOf
      <4>2. Max(Stamps(resource[r])) >= Second(Max(Times(cols)))
        BY <3>1, NewestStamp
      <4>3. PICK s \in Samples :
              /\ s.resource = r /\ Second(s.time) = Max(Stamps(resource[r]))
              /\ resource[r][Max(Stamps(resource[r]))][<<"meta">>] = s.meta
        BY <3>1, NewestStamp
      <4>4. QED
        BY <4>1, <4>2, <4>3
    <3>4. CASE ~Timed(reader.q)
      <4>1. PICK s \in Samples :
              /\ s.resource = r /\ cols[<<"meta">>] = s.meta
              /\ \A k \in MeterCols(cols) : Second(cols[k]) <= Second(s.time)
        BY <2>2, <3>4 DEF ReadOK
      <4>2. Second(Max(Times(cols))) <= Second(s.time)
        BY <2>6, <4>1
      <4>3. Second(s.time) \in Int /\ Second(Max(Times(cols))) \in Int
        BY <3>1, <3>2, SecondIsInt, SamplesAssumption
      <4>4. QED
        BY <3>4, <4>1, <4>2, <4>3
    <3>5. QED
      BY <3>3, <3>4
  <2>9. YieldedCoherent'
    <3>1. /\ yielded'.q = reader.q /\ yielded'.resource = r
          /\ yielded'.first = Min(Times(cols)) /\ yielded'.last = Max(Times(cols))
          /\ yielded'.meta = rest[<<"meta">>]
      BY <1>2, <1>4
    <3> HIDE DEF rest, cols
    <3>2. QED
      BY <2>7, <2>8, <3>1 DEF YieldedCoherent
  <2>10. QED
    BY <1>1, <2>1, <2>9, TablesKept DEF Inv
<1>5. QED
  BY <1>3, <1>4

LEMMA DoneInv ==
  ASSUME Inv, Done
  PROVE  Inv'
<1>1. /\ reader' = Idle /\ yielded' = Unknown
      /\ UNCHANGED <<resource, meter, recording, moving>>
  BY DEF Done
<1>2. QED
  BY <1>1, TablesKept DEF Inv, ReaderOK, YieldedCoherent

LEMMA InvNext == Inv /\ [Next]_vars => Inv'
<1> SUFFICES ASSUME Inv, [Next]_vars PROVE Inv'
  OBVIOUS
<1>1. ASSUME NEW s \in Samples, \/ PutResource(s) \/ PutMeter(s)
                                \/ MigrateMeterPut(s) \/ MigrateMeterDelete(s)
      PROVE  Inv'
  BY <1>1, PutResourceInv, PutMeterInv, MigrateMeterInv
<1>2. ASSUME NEW r \in Resources,
             MigrateResourcePut(r) \/ MigrateResourceDelete(r) \/ Yield(r)
      PROVE  Inv'
  BY <1>2, MigrateResourceInv, YieldInv
<1>3. CASE UpgradeCut
  <2>1. moving' = Idle /\ UNCHANGED <<resource, meter, recording, reader, yielded>>
    BY <1>3 DEF UpgradeCut
  <2>2. QED
    BY <2>1, MeterTableInv DEF Inv, TablesOK
<1>4. CASE \E q \in Queries : Scan(q)
  BY <1>4, ScanInv
<1>5. CASE Done
  BY <1>5, DoneInv
<1>6. CASE UNCHANGED vars
  BY <1>6, TablesKept, RowsKept, ReaderKept DEF Inv, vars
<1>7. QED
  BY <1>1, <1>2, <1>3, <1>4, <1>5, <1>6 DEF Next

LEMMA InvAlways == Spec => []Inv
  BY InitInv, InvNext, PTL DEF Spec

\* record_metering_data and the upgrade: of every sample the meter table has,
\* its resource has the meter, in one of the formats, also when the recorder
\* or the upgrade was cut short between two of its puts.
THEOREM SamplesHaveMeters == Spec => []SampleHasMeter
<1>1. Inv => SampleHasMeter
  <2> SUFFICES ASSUME Inv, NEW m \in meter
               PROVE  \E v \in DOMAIN resource[m.sample.resource] :
                        { MeterCol(m.sample, "m"), MeterCol(m.sample, "old") }
                          \cap DOMAIN resource[m.sample.resource][v] # {}
    BY DEF SampleHasMeter
  <2>1. HasMeter(m.sample)
    BY DEF Inv, MetersThere
  <2>2. QED
    BY <2>1 DEF HasMeter, RowMeters, MeterCols
<1>2. QED
  BY <1>1, InvAlways, PTL

\* The upgrade deletes a row of the meter table only when its copy is there:
\* no step of any recorder, reader or upgrade loses a sample.
THEOREM NoSampleIsLost == Spec => SamplesStay
<1>1. ASSUME Inv, [Next]_vars
      PROVE  [{ m.sample : m \in meter } \subseteq { m.sample : m \in meter' }]_meter
  <2>1. CASE \E s \in Samples : PutResource(s) \/ PutMeter(s) \/ MigrateMeterPut(s)
    BY <2>1 DEF PutResource, PutMeter, MigrateMeterPut
  <2>2. ASSUME NEW s \in Samples, MigrateMeterDelete(s)
        PROVE  { m.sample : m \in meter } \subseteq { m.sample : m \in meter' }
    <3>1. /\ [old |-> FALSE, sample |-> s] \in meter
          /\ meter' = meter \ {[old |-> TRUE, sample |-> s]}
      <4>1. moving = s /\ meter' = meter \ {[old |-> TRUE, sample |-> s]}
        BY <2>2 DEF MigrateMeterDelete
      <4>2. moving \in Samples => [old |-> FALSE, sample |-> moving] \in meter
        BY <1>1 DEF Inv, MovingPut
      <4>3. QED
        BY <4>1, <4>2
    <3>2. [old |-> FALSE, sample |-> s] # [old |-> TRUE, sample |-> s]
      OBVIOUS
    <3>3. [old |-> FALSE, sample |-> s] \in meter' /\ [old |-> FALSE, sample |-> s].sample = s
      BY <3>1, <3>2
    <3>4. ASSUME NEW m \in meter PROVE \E n \in meter' : n.sample = m.sample
      <4>1. CASE m = [old |-> TRUE, sample |-> s]
        BY <3>3, <4>1
      <4>2. CASE m # [old |-> TRUE, sample |-> s]
        BY <3>1, <4>2
      <4>3. QED
        BY <4>1, <4>2
    <3>5. QED
      BY <3>4
  <2>3. CASE \/ \E r \in Resources : \/ MigrateResourcePut(r) \/ MigrateResourceDelete(r)
                                     \/ Yield(r)
             \/ UpgradeCut \/ (\E q \in Queries : Scan(q)) \/ Done \/ UNCHANGED vars
    BY <2>3 DEF MigrateResourcePut, MigrateResourceDelete, Yield, UpgradeCut, Scan, Done,
                vars
  <2>4. QED
    BY <1>1, <2>1, <2>2, <2>3 DEF Next
<1>2. QED
  BY <1>1, InvAlways, PTL DEF Spec, SamplesStay

\* get_resources: what it yields has its times from the range asked for, and
\* metadata of a sample no older than the last of them, whatever recorders and
\* the upgrade do between the scan and the second read of the row.
THEOREM YieldsCohere == Spec => []YieldedCoherent
<1>1. Inv => YieldedCoherent
  BY DEF Inv
<1>2. QED
  BY <1>1, InvAlways, PTL

-----------------------------------------------------------------------------
(* What get_samples and get_meters tell of the tables.                      *)

\* A row has the source of each of its meters.
Sourced(row) == \A c \in RowMeters(row) : c[3] \in RowSources(row)
SourcesThere == \A r \in Resources : Sourced(resource[r])

LEMMA InitSources == Init => SourcesThere
<1> SUFFICES ASSUME Init, NEW r \in Resources, NEW c \in RowMeters(resource[r])
             PROVE  c[3] \in RowSources(resource[r])
  BY DEF SourcesThere, Sourced
<1>1. PICK old \in {{}, OldSamples} :
        resource = [q \in Resources |->
             [w \in { Second(s.time) : s \in {s \in old : s.resource = q} } |->
                Serialized(CHOOSE s \in {s \in old : s.resource = q} : Second(s.time) = w,
                           "old")]]
  BY DEF Init
<1> DEFINE mine == {s \in old : s.resource = r}
<1>2. old \in SUBSET Samples
  BY OldSamplesAssumption
<1>3. resource[r] = [w \in {Second(s.time) : s \in mine} |->
                       Serialized(CHOOSE s \in mine : Second(s.time) = w, "old")]
  BY <1>1
<1>4. PICK v \in DOMAIN resource[r] : c \in MeterCols(resource[r][v])
  BY DEF RowMeters
<1>5. v \in {Second(s.time) : s \in mine}
  BY <1>3, <1>4
<1>6. PICK s \in mine : s = CHOOSE t \in mine : Second(t.time) = v
  BY <1>5
<1>7. s \in Samples /\ resource[r][v] = Serialized(s, "old")
  BY <1>2, <1>3, <1>5, <1>6
<1>8. c = MeterCol(s, "old") /\ <<"s", s.source>> \in SourceCols(resource[r][v])
  BY <1>4, <1>7, PutColumns
<1>9. c[3] = s.source
  BY <1>8, ColumnParts
<1> PICK col : col = <<"s", s.source>>
  OBVIOUS
<1>10. col \in RowSourceCols(resource[r]) /\ col[2] = s.source
  BY <1>4, <1>8 DEF RowSourceCols
<1>11. QED
  BY <1>9, <1>10 DEF RowSources

LEMMA PutSources ==
  ASSUME Inv, SourcesThere, NEW s \in Samples, PutResource(s)
  PROVE  SourcesThere'
<1> PICK row : row = resource[s.resource]
  OBVIOUS
<1> PICK after : after = Put(row, Second(s.time), Serialized(s, "m"))
  OBVIOUS
<1>1. /\ resource' = [resource EXCEPT ![s.resource] = after]
      /\ s.resource \in Resources /\ resource = [r \in Resources |-> resource[r]]
      /\ RowOK(s.resource, row)
  BY SamplesAssumption DEF PutResource, Inv, TablesOK
<1>2. /\ resource'[s.resource] = after
      /\ \A r \in Resources \ {s.resource} : resource'[r] = resource[r]
  BY <1>1
<1>3. /\ RowMeters(after) = RowMeters(row) \cup {MeterCol(s, "m")}
      /\ RowSources(after) = RowSources(row) \cup {s.source}
  BY <1>1, PutRow
<1>4. MeterCol(s, "m")[3] = s.source /\ Sourced(row)
  BY <1>1, ColumnParts DEF SourcesThere
<1>5. Sourced(after)
  BY <1>3, <1>4 DEF Sourced
<1>6. QED
  BY <1>2, <1>5 DEF SourcesThere

LEMMA UpgradeSources ==
  ASSUME Inv, SourcesThere, NEW r \in Resources,
         MigrateResourcePut(r) \/ MigrateResourceDelete(r)
  PROVE  SourcesThere'
<1>1. /\ \A q \in Resources \ {r} : resource'[q] = resource[q]
      /\ Same(resource[r], resource'[r])
  BY UpgradeRow
<1>2. ASSUME NEW c \in RowMeters(resource'[r])
      PROVE  c[3] \in RowSources(resource'[r])
  <2>1. <<c[2], c[3], c[4]>> \in Names(resource[r])
    BY <1>1 DEF Same, Names
  <2>2. PICK d \in RowMeters(resource[r]) : <<c[2], c[3], c[4]>> = <<d[2], d[3], d[4]>>
    BY <2>1 DEF Names
  <2>3. c[3] = d[3] /\ d[3] \in RowSources(resource[r])
    BY <2>2 DEF SourcesThere, Sourced
  <2>4. RowSources(resource'[r]) = RowSources(resource[r])
    BY <1>1 DEF Same, RowSources
  <2>5. QED
    BY <2>3, <2>4
<1>3. QED
  BY <1>1, <1>2 DEF SourcesThere, Sourced

LEMMA SourcesAlways == Spec => []SourcesThere
<1>1. ASSUME Inv, SourcesThere, [Next]_vars PROVE SourcesThere'
  <2>1. CASE UNCHANGED resource
    BY <1>1, <2>1 DEF SourcesThere
  <2>2. CASE \E s \in Samples : PutResource(s)
    BY <1>1, <2>2, PutSources
  <2>3. CASE \E r \in Resources : MigrateResourcePut(r) \/ MigrateResourceDelete(r)
    BY <1>1, <2>3, UpgradeSources
  <2>4. CASE \/ \E s \in Samples : PutMeter(s) \/ MigrateMeterPut(s) \/ MigrateMeterDelete(s)
             \/ (\E r \in Resources : Yield(r)) \/ UpgradeCut
             \/ (\E q \in Queries : Scan(q)) \/ Done \/ UNCHANGED vars
    BY <2>1, <2>4 DEF PutMeter, MigrateMeterPut, MigrateMeterDelete, Yield, UpgradeCut, Scan,
                      Done, vars
  <2>5. QED
    BY <1>1, <2>2, <2>3, <2>4 DEF Next
<1>2. QED
  BY <1>1, InitSources, InvAlways, PTL DEF Spec

LEMMA SamplesTold ==
  ASSUME Inv
  PROVE  SamplesTell
<1> SUFFICES ASSUME NEW q \in SampleQueries, NEW rows \in GetSamples(q)
             PROVE  /\ rows \subseteq Asked(q)
                    /\ InReach(FilteredBy(q)) /\ q.limit = Unknown => rows = Asked(q)
                    /\ (\A m \in meter : ~m.old) =>
                         \A m \in rows, n \in Asked(q) \ rows :
                           m.sample.name = n.sample.name => n.sample.time <= m.sample.time
  BY DEF SamplesTell
<1> PICK found : found = {m \in meter : SampleQuery(m, q)}
  OBVIOUS
<1>1. /\ found \subseteq Asked(q)
      /\ InReach(FilteredBy(q)) => found = Asked(q)
      /\ ~InReach(FilteredBy(q)) => found = {}
  BY DEF SampleQuery, Asked
<1>2. /\ rows \subseteq found
      /\ q.limit = Unknown => rows = found
      /\ \A m \in rows, n \in found : RowBefore(n, m) => n \in rows
  <2>1. CASE q.limit = Unknown
    BY <2>1 DEF GetSamples
  <2>2. CASE q.limit # Unknown
    <3>1. rows \in First(found, q.limit)
      BY <2>2 DEF GetSamples
    <3>2. QED
      BY <2>2, <3>1 DEF First, kSubset
  <2>3. QED
    BY <2>1, <2>2
<1>3. ASSUME \A m \in meter : ~m.old, NEW m \in rows, NEW n \in Asked(q) \ rows,
             m.sample.name = n.sample.name
      PROVE  n.sample.time <= m.sample.time
  <2>1. m \in found /\ n \in found /\ found = Asked(q)
    BY <1>1, <1>2, <1>3
  <2>2. m \in meter /\ n \in meter /\ ~m.old /\ ~n.old /\ m.old \in BOOLEAN /\ n.old \in BOOLEAN
        /\ m.sample \in Samples /\ n.sample \in Samples
    BY <1>3, <2>1 DEF Asked, Inv, TablesOK
  <2>3. m.sample.time \in Int /\ n.sample.time \in Int
    BY <2>2, SamplesAssumption
  <2>4. ~RowBefore(n, m)
    BY <1>2, <1>3, <2>1
  <2>5. ~(n.sample.time > m.sample.time)
    BY <1>3, <2>2, <2>4 DEF RowBefore
  <2>6. QED
    BY <2>3, <2>5
<1>4. QED
  BY <1>1, <1>2, <1>3

LEMMA MetersTold ==
  ASSUME Inv, SourcesThere
  PROVE  MetersTell
<1> SUFFICES ASSUME NEW q \in Queries, ~Timed(q), q.key = Unknown, NEW m \in meter,
                    q.source = Unknown \/ m.sample.source = q.source
             PROVE  [resource |-> m.sample.resource, name |-> m.sample.name] \in GetMeters(q)
  BY DEF MetersTell
<1> PICK s : s = m.sample
  OBVIOUS
<1> PICK r : r = s.resource
  OBVIOUS
<1> PICK cols : cols = Latest(resource[r])
  OBVIOUS
<1>1. s \in Samples /\ r \in Resources
  BY SamplesAssumption DEF Inv, TablesOK
<1>2. HasMeter(s)
  BY DEF Inv, MetersThere
<1>3. PICK fmt \in {"m", "old"} : MeterCol(s, fmt) \in RowMeters(resource[r])
  BY <1>2 DEF HasMeter
<1> PICK c : c = MeterCol(s, fmt)
  OBVIOUS
<1>4. DOMAIN resource[r] # {}
  BY <1>3 DEF RowMeters
<1>5. DOMAIN cols = UNION {DOMAIN resource[r][w] : w \in DOMAIN resource[r]}
  BY DEF Latest
<1>6. c \in MeterCols(cols) /\ c[4] = s.name /\ c[3] = s.source
  <2>1. c[4] = s.name /\ c[3] = s.source
    BY ColumnParts
  <2>2. MeterCols(cols) = RowMeters(resource[r])
    BY <1>5 DEF MeterCols, RowMeters
  <2>3. QED
    BY <1>3, <2>1, <2>2
<1>7. <<"s", s.source>> \in DOMAIN cols
  <2>1. s.source \in RowSources(resource[r])
    BY <1>1, <1>3, <1>6 DEF SourcesThere, Sourced
  <2>2. PICK col \in RowSourceCols(resource[r]) : col[2] = s.source
    BY <2>1 DEF RowSources
  <2>3. PICK v \in DOMAIN resource[r] : col \in SourceCols(resource[r][v])
    BY DEF RowSourceCols
  <2>4. PICK t \in Samples : col = <<"s", t.source>>
    BY <1>1, <2>3 DEF Inv, TablesOK, RowOK, VersionOK
  <2>5. col = <<"s", s.source>> /\ col \in DOMAIN cols
    BY <1>5, <2>2, <2>3, <2>4 DEF SourceCols
  <2>6. QED
    BY <2>5
<1>8. Passes(cols, q)
  BY <1>7 DEF Passes
<1>9. Kept(cols, q) = cols
  BY DEF Kept
<1>10. DOMAIN resource[r] # {} /\ DOMAIN cols # {}
  BY <1>4, <1>7
<1>11. r \in Hits(q)
  BY <1>1, <1>8, <1>9, <1>10 DEF Hits
<1>12. QED
  BY <1>6, <1>11 DEF GetMeters

\* get_samples and get_meters: the samples are the ones asked for, a limit
\* cuts off none that is newer than what it leaves, and get_meters knows the
\* meter of each of them, between any two puts of recorders and upgrade.
THEOREM ReadsAgree == Spec => []ReadsTell
<1>1. Inv /\ SourcesThere => ReadsTell
  BY SamplesTold, MetersTold DEF ReadsTell
<1>2. QED
  BY <1>1, InvAlways, SourcesAlways, PTL

-----------------------------------------------------------------------------
(* The refinement of ResourceView.                                          *)

LEMMA InitImplements == Init => View!Init
<1> SUFFICES ASSUME Init PROVE View!Init
  OBVIOUS
<1>1. PICK old \in {{}, OldSamples} :
        resource = [r \in Resources |->
             [v \in { Second(s.time) : s \in {s \in old : s.resource = r} } |->
                Serialized(CHOOSE s \in {s \in old : s.resource = r} : Second(s.time) = v,
                           "old")]]
  BY DEF Init
<1>2. old \in SUBSET Samples /\ \A s, t \in old : s.resource = t.resource => s = t
  BY OldSamplesAssumption
<1>3. ASSUME NEW r \in Resources
      PROVE  ViewOf(resource[r]) = IF \E s \in old : s.resource = r
               THEN View!Alone(CHOOSE s \in old : s.resource = r) ELSE Unknown
  <2>1. CASE \E s \in old : s.resource = r
    <3>1. PICK s \in old : s.resource = r
      BY <2>1
    <3>2. {t \in old : t.resource = r} = {s}
      BY <1>2, <3>1
    <3>3. /\ (CHOOSE t \in {s} : Second(t.time) = Second(s.time)) = s
          /\ (CHOOSE t \in old : t.resource = r) = s
      BY <1>2, <3>1
    <3>4. resource[r] = [v \in { Second(t.time) : t \in {s} } |->
             Serialized(CHOOSE t \in {s} : Second(t.time) = v, "old")]
      BY <1>1, <3>2
    <3>5. /\ DOMAIN resource[r] = {Second(s.time)}
          /\ resource[r][Second(s.time)] = Serialized(s, "old")
          /\ s \in Samples /\ s.time \in Int /\ Second(s.time) \in Int
      BY <1>2, <3>3, <3>4, SecondIsInt, SamplesAssumption
    <3>6. /\ RowOK(r, resource[r])
          /\ MeterCols(Serialized(s, "old")) = {MeterCol(s, "old")}
          /\ SourceCols(Serialized(s, "old")) = {<<"s", s.source>>}
          /\ Serialized(s, "old")[<<"meta">>] = s.meta
          /\ <<"meta">> \in DOMAIN Serialized(s, "old")
      BY <3>5, PutColumns, InitInv DEF Inv, TablesOK
    <3> DEFINE one == MeterCol(s, "old")
               src == <<"s", s.source>>
    <3>7. /\ one[2] = s.time /\ one[3] = s.source /\ one[4] = s.name /\ src[2] = s.source
          /\ RowMeters(resource[r]) = {one} /\ RowSourceCols(resource[r]) = {src}
      BY <3>5, <3>6, ColumnParts DEF RowMeters, RowSourceCols
    <3> HIDE DEF one, src
    <3>8. /\ {<<c[2], c[3], c[4]>> : c \in RowMeters(resource[r])}
               = {<<s.time, s.source, s.name>>}
          /\ RowTimes(resource[r]) = {s.time} /\ RowSources(resource[r]) = {s.source}
      BY <3>7 DEF RowTimes, RowSources
    <3>9. /\ Min(RowTimes(resource[r])) = s.time /\ Max(RowTimes(resource[r])) = s.time
          /\ Max(Stamps(resource[r])) = Second(s.time)
      <4>1. Stamps(resource[r]) = {Second(s.time)}
        BY <3>5, <3>6 DEF Stamps
      <4>2. QED
        BY <3>5, <3>8, <4>1, ExtremeOfOne
    <3>10. resource[r][Max(Stamps(resource[r]))][<<"meta">>] = s.meta
      BY <3>5, <3>6, <3>9
    <3>11. ViewOf(resource[r]) = View!Alone(s)
      BY <3>5, <3>6, <3>8, <3>9, <3>10, ViewOfRow DEF View!Alone
    <3>12. QED
      BY <2>1, <3>3, <3>11
  <2>2. CASE ~ \E s \in old : s.resource = r
    <3>1. {s \in old : s.resource = r} = {}
      BY <2>2
    <3>2. DOMAIN resource[r] = {}
      BY <1>1, <3>1
    <3>3. QED
      BY <2>2, <3>2 DEF ViewOf
  <2>3. QED
    BY <2>1, <2>2
<1>4. QED
  BY <1>2, <1>3 DEF View!Init

LEMMA StepImplements ==
  ASSUME Inv, [Next]_vars
  PROVE  [View!Next]_([r \in Resources |-> ViewOf(resource[r])])
<1> DEFINE V == [r \in Resources |-> ViewOf(resource[r])]
<1>1. ASSUME NEW s \in Samples, PutResource(s) PROVE View!Next
  <2> DEFINE row == resource[s.resource]
             after == Put(row, Second(s.time), Serialized(s, "m"))
             old == ViewOf(row)
             learned == IF old = Unknown
               THEN View!Alone(s)
               ELSE [meters  |-> old.meters \cup {<<s.time, s.source, s.name>>},
                     first   |-> IF s.time < old.first THEN s.time ELSE old.first,
                     last    |-> IF s.time > old.last THEN s.time ELSE old.last,
                     sources |-> old.sources \cup {s.source},
                     newest  |-> IF Second(s.time) > old.newest THEN Second(s.time)
                                                                ELSE old.newest,
                     meta    |-> IF Second(s.time) >= old.newest THEN s.meta
                                                                 ELSE old.meta]
  <2>1. /\ s.resource \in Resources /\ RowOK(s.resource, row)
        /\ resource = [r \in Resources |-> resource[r]]
        /\ resource' = [resource EXCEPT ![s.resource] = after]
    BY <1>1, SamplesAssumption DEF PutResource, Inv, TablesOK
  <2>2. ViewOf(after) = learned
    BY <2>1, LearnRow
  <2>3. V' = [r \in Resources |-> ViewOf(resource'[r])]
    BY DEF ViewOf
  <2>4. /\ resource'[s.resource] = after
        /\ \A r \in Resources \ {s.resource} : resource'[r] = resource[r]
    BY <2>1
  <2>5. V' = [V EXCEPT ![s.resource] = learned]
    <3> HIDE DEF learned, after
    <3>1. QED
      BY <2>1, <2>2, <2>3, <2>4
  <2>6. V[s.resource] = old
    BY <2>1
  <2>7. View!Learn(s)
    BY <2>5, <2>6 DEF View!Learn
  <2>8. QED
    BY <2>7 DEF View!Next
<1>2. ASSUME NEW r \in Resources, MigrateResourcePut(r) \/ MigrateResourceDelete(r)
      PROVE  UNCHANGED V
  <2>1. ViewOf(resource'[r]) = ViewOf(resource[r])
    BY <1>2, UpgradeRow
  <2>2. \A q \in Resources : ViewOf(resource'[q]) = ViewOf(resource[q])
    BY <1>2, <2>1, UpgradeRow
  <2>3. QED
    BY <2>2
<1>3. CASE UNCHANGED resource
  BY <1>3
<1>4. CASE \/ \E s \in Samples : \/ PutMeter(s) \/ MigrateMeterPut(s) \/ MigrateMeterDelete(s)
           \/ (\E r \in Resources : Yield(r)) \/ UpgradeCut
           \/ (\E q \in Queries : Scan(q)) \/ Done \/ UNCHANGED vars
  BY <1>3, <1>4 DEF PutMeter, MigrateMeterPut, MigrateMeterDelete, Yield, UpgradeCut, Scan,
                    Done, vars
<1>5. QED
  BY <1>1, <1>2, <1>4 DEF Next

\* The rows of versioned columns, read back by _get_latest_dict, are the view
\* of each resource that ResourceView specifies: in whatever order and however
\* often samples arrive, and through an upgrade cut short or run twice.
THEOREM StoreImplementsView == Spec => ImplementsResourceView
<1>1. Init => View!Init
  BY InitImplements
<1>2. Inv /\ [Next]_vars => [View!Next]_([r \in Resources |-> ViewOf(resource[r])])
  BY StepImplements
<1>3. QED
  BY <1>1, <1>2, InvAlways, PTL DEF Spec, ImplementsResourceView, View!Spec

=============================================================================
