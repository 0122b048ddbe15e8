----------------------------- MODULE MCReports ------------------------------
(* Values of the constants of Reports for TLC. *)
EXTENDS Reports

CONSTANTS a1, a2, m1, m2, h1, h2

Row3(type, language, period) ==
  [type |-> type, language |-> language, period |-> period, filetype |-> "pdf",
   hosts |-> {}, content |-> <<>>]

TaskInfo ==
  a1 :> [Row3("alarm", "English", "day") EXCEPT
           !.content = <<"time", "type", "host", "user", "time", "type", "status", "colour">>]
  @@ a2 :> [Row3("alarm", "English", "month") EXCEPT !.hosts = {1, 3}]
  @@ m1 :> Row3("meter", "Chinese", "month")
  @@ m2 :> [Row3("meter", "English", "once") EXCEPT !.content = <<"vm_statistics">>]
  @@ h1 :> Row3("monitor", "Chinese", "day")
  @@ h2 :> [Row3("monitor", "Chinese", "week") EXCEPT !.content = <<"partition">>]

\* Resources 1 and 3 are on one machine; that of 2 has the same name.
Machines ==
  1 :> [uuid |-> 2, name |-> "web", user |-> 1]
  @@ 2 :> [uuid |-> 1, name |-> "web", user |-> 2]
  @@ 3 :> [uuid |-> 2, name |-> "web", user |-> 1]
  @@ 4 :> [uuid |-> 3, name |-> "", user |-> 1]

Alarm(resource, type, status, time) ==
  [resource |-> resource, type |-> type, severity |-> "low", status |-> status,
   time |-> time, stamp |-> "text"]

AlarmLists ==
  {<<>>,
   <<Alarm(1, "vm", "processed", "end"), Alarm(2, "node", "processed", "middle"),
     Alarm(1, "vm", "ignored", "first")>>,
   <<Alarm(4, "node", "processed", "first"), Alarm(3, "vpartition", "processed", "middle"),
     Alarm(2, "vm", "ignored", "first"), Alarm(1, "vm", "ignored", "middle")>>,
   <<Alarm(1, "vm", "closed", "first")>>}

Event(kind, user, flavor, day) ==
  [kind |-> kind, user |-> user, flavor |-> flavor, day |-> day]

EventLists ==
  {<<>>,
   <<Event("create", "u1", 1, 8), Event("create", "u1", 2, 1), Event("create", "u1", 3, 1)>>,
   <<Event("create", "u1", 1, 3), Event("delete", "u1", 1, 4), Event("fail", "u2", 1, 4)>>,
   <<Event("create", "u1", 1, 9), Event("create", "u2", 2, 1), Event("delete", "u1", 1, 17),
     Event("create", "u2", 1, 2), Event("other", "u1", 1, 2), Event("delete", "u1", 2, 31),
     Event("create", "u2", 1, 5), Event("fail", "u1", 1, 6)>>}

FlavorNames == 1 :> "1C1G1G" @@ 2 :> "1C1G1G" @@ 3 :> "0C0G0G"

Means(c, m, s) == ("cpu" :> c) @@ ("mem" :> m) @@ ("swap" :> s)

MonitorData ==
  {1 :> Means(10, 20, 0),
   1 :> Means(10, 20, 0) @@ 2 :> Means(30, 5, 0) @@ 3 :> Means(20, 20, 1),
   1 :> Means(10, 20, 0) @@ 2 :> ("cpu" :> 30),
   1 :> ("cpu" :> 40) @@ 2 :> Means(10, 20, 1) @@ 3 :> Means(30, 5, 1)}

=============================================================================
