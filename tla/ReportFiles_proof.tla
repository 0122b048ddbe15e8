-------------------------- MODULE ReportFiles_proof --------------------------
(***************************************************************************)
(* Files, rows and mails of any number of runs, deletes, crashes and days. *)
(***************************************************************************)
EXTENDS ReportFiles, TLAPS

(***************************************************************************)
(* The inductive invariant.  A file was written by a run that got past     *)
(* create_report_file, under the run's own name; a row was added by a run  *)
(* past _save_report and has that name too; so has a delete, which took it *)
(* from a row.  Once a delete has removed its file, no file of that run    *)
(* is left and none can come, since a run writes once.  And between file   *)
(* and row, what a run without namesakes has written is still there: only  *)
(* a delete of its row could remove it.                                    *)
(***************************************************************************)
WrittenByRun ==
  \A p \in Path :
    disk[p] # Null =>
      /\ runs[disk[p]] # Null
      /\ runs[disk[p]].path = p /\ runs[disk[p]].pc # "create"

\* f is a run past _save_report whose file has the name p.
SavedAs(f, p) ==
  /\ runs[f] # Null
  /\ runs[f].path = p /\ runs[f].pc \notin {"create", "save"}

RecordOfRun == \A f \in Files : records[f] # Null => SavedAs(f, records[f])

DeleteOfRun ==
  \A a \in Api : deletes[a] # Null => SavedAs(deletes[a].file, deletes[a].path)

Removed ==
  \A a \in Api : Serving(a, "delrow") =>
    \A p \in Path : disk[p] # deletes[a].file

UnsavedHasFile ==
  \A f \in Files : Running(f, "save") /\ ~Shared(f) => disk[runs[f].path] = f

MailOfRun == \A f \in Files : mailed[f] # Null => runs[f] # Null

Links ==
  /\ WrittenByRun /\ RecordOfRun /\ DeleteOfRun /\ MailOfRun
  /\ Removed /\ UnsavedHasFile

Inv == TypeOK /\ Links /\ FileHasRecord /\ RecordHasFile /\ MailsOwnReport

-----------------------------------------------------------------------------
(* Types.                                                                  *)

LEMMA RunType ==
  ASSUME TypeOK, NEW f \in Files, runs[f] # Null
  PROVE  /\ runs[f] \in Run
         /\ runs[f].pc \in {"create", "save", "mail", "done", "lost"}
         /\ runs[f].task \in Tasks /\ runs[f].path \in Path
         /\ \A pc \in {"create", "save", "mail", "done", "lost"} :
              [runs[f] EXCEPT !.pc = pc] \in Run
  BY DEF TypeOK, Run

LEMMA TypeInit == Init => TypeOK
  BY FilesAssumption DEF Init, TypeOK

LEMMA TypeNext == TypeOK /\ [Next]_vars => TypeOK'
<1> SUFFICES ASSUME TypeOK, [Next]_vars PROVE TypeOK'
  OBVIOUS
<1> USE FilesAssumption DEF TypeOK
<1>1. ASSUME NEW f \in Files, NEW t \in Tasks, BeginRun(f, t) PROVE TypeOK'
  <2>1. [pc |-> "create", task |-> t, path |-> [name |-> NameOf[t], day |-> day]] \in Run
    BY DEF Run, Path
  <2>2. QED
    BY <1>1, <2>1 DEF BeginRun, runVars
<1>2. ASSUME NEW f \in Files, CreateReportFile(f) PROVE TypeOK'
  <2>1. runs' \in [Files -> Run \cup {Null}]
    BY <1>2, RunType DEF CreateReportFile, Running, GoesTo
  <2>2. disk' \in [Path -> Files \cup {Null}]
    BY <1>2, RunType DEF CreateReportFile, Running
  <2>3. QED
    BY <1>2, <2>1, <2>2 DEF CreateReportFile, runVars
<1>3. ASSUME NEW f \in Files, SaveReport(f) PROVE TypeOK'
  BY <1>3, RunType DEF SaveReport, Running, GoesTo, runVars
<1>4. ASSUME NEW f \in Files, SendMail(f) PROVE TypeOK'
  BY <1>4, RunType DEF SendMail, Running, GoesTo, runVars
<1>5. ASSUME NEW f \in Files, NEW a \in Api, DeleteLookup(a, f) PROVE TypeOK'
  BY <1>5 DEF DeleteLookup, Delete
<1>6. ASSUME NEW a \in Api, DeleteRemove(a) PROVE TypeOK'
  BY <1>6 DEF DeleteRemove, Serving, Delete
<1>7. ASSUME NEW a \in Api, DelRptfiles(a) PROVE TypeOK'
  BY <1>7 DEF DelRptfiles, Serving, Delete
<1>8. ASSUME NEW a \in Api, ApiDies(a) PROVE TypeOK'
  BY <1>8 DEF ApiDies, Serving, Delete
<1>9. CASE AgentCrash
  <2>1. ASSUME NEW f \in Files, runs[f] # Null
        PROVE  [runs[f] EXCEPT !.pc = "lost"] \in Run
    BY <2>1, RunType
  <2>2. runs' \in [Files -> Run \cup {Null}]
    BY <1>9, <2>1 DEF AgentCrash
  <2>3. QED
    BY <1>9, <2>2 DEF AgentCrash
<1>10. CASE NextDay
  BY <1>10 DEF NextDay
<1>11. CASE UNCHANGED vars
  BY <1>11 DEF vars
<1>12. QED
  BY <1>1, <1>2, <1>3, <1>4, <1>5, <1>6, <1>7, <1>8, <1>9, <1>10, <1>11 DEF Next

-----------------------------------------------------------------------------
(* What steps keep of runs.                                                *)

\* No run is forgotten or gets another name.
KeepsRuns ==
  \A f \in Files : runs[f] # Null => runs'[f] # Null /\ runs'[f].path = runs[f].path

LEMMA SharedStays ==
  ASSUME KeepsRuns, NEW f \in Files, runs[f] # Null, Shared(f)
  PROVE  Shared(f)'
  BY DEF KeepsRuns, Shared

\* What the links say of a run that goes on.
LEMMA SavedStays ==
  ASSUME NEW f, NEW p, SavedAs(f, p),
         \/ runs'[f] = runs[f]
         \/ /\ runs'[f] # Null /\ runs'[f].path = runs[f].path
            /\ runs'[f].pc \notin {"create", "save"}
  PROVE  SavedAs(f, p)'
  BY DEF SavedAs

\* The run of f goes from one pc to another and is otherwise the same.
Moves(f, from, to) ==
  /\ runs[f] # Null /\ runs[f].pc = from
  /\ runs'[f] # Null
  /\ runs'[f].pc = to /\ runs'[f].path = runs[f].path
  /\ \A g \in Files \ {f} : runs'[g] = runs[g]

LEMMA GoesToMoves ==
  ASSUME TypeOK, NEW f \in Files,
         NEW from, NEW to \in {"create", "save", "mail", "done", "lost"},
         Running(f, from), GoesTo(f, to)
  PROVE  Moves(f, from, to) /\ KeepsRuns
<1>1. runs[f] \in Run /\ [runs[f] EXCEPT !.pc = to] \in Run
  BY RunType DEF Running
<1>2. runs' = [runs EXCEPT ![f] = [runs[f] EXCEPT !.pc = to]]
  BY DEF GoesTo
<1>3. Moves(f, from, to)
  BY <1>1, <1>2, NullIsNothing DEF Moves, Running, TypeOK, Run
<1>4. QED
  BY <1>3 DEF Moves, KeepsRuns

-----------------------------------------------------------------------------
(* The steps.                                                              *)

LEMMA BeginInv ==
  ASSUME Inv, TypeOK', NEW f \in Files, NEW t \in Tasks, BeginRun(f, t)
  PROVE  Inv'
<1>1. /\ runs[f] = Null /\ runs'[f] # Null /\ runs'[f].pc = "create"
      /\ \A g \in Files \ {f} : runs'[g] = runs[g]
      /\ UNCHANGED <<disk, records, mailed, deletes, cut>>
  <2>1. [pc |-> "create", task |-> t, path |-> [name |-> NameOf[t], day |-> day]] \in Run
    BY FilesAssumption DEF Run, Path, Inv, TypeOK
  <2>2. QED
    BY <2>1, NullIsNothing DEF BeginRun, runVars, Inv, TypeOK
<1>2. KeepsRuns
  BY <1>1 DEF KeepsRuns
<1>3. WrittenByRun'
  BY <1>1 DEF Inv, Links, WrittenByRun, TypeOK
<1>4. RecordOfRun' /\ DeleteOfRun'
  BY <1>1, SavedStays DEF Inv, Links, RecordOfRun, DeleteOfRun, SavedAs, TypeOK, Delete
<1>5. Removed'
  BY <1>1 DEF Inv, Links, Removed, Serving
<1>6. UnsavedHasFile'
  BY <1>1, <1>2, SharedStays DEF Inv, Links, UnsavedHasFile, Running
<1>7. FileHasRecord'
  BY <1>1 DEF Inv, FileHasRecord, Running, TypeOK
<1>8. RecordHasFile'
  BY <1>1, <1>2, SharedStays DEF Inv, Links, RecordHasFile, RecordOfRun, SavedAs, Serving
<1>9. MailsOwnReport'
  BY <1>1, <1>2, SharedStays DEF Inv, Links, MailOfRun, MailsOwnReport
<1>10. MailOfRun'
  BY <1>1 DEF Inv, Links, MailOfRun
<1>11. QED
  BY <1>10, <1>3, <1>4, <1>5, <1>6, <1>7, <1>8, <1>9 DEF Inv, Links

LEMMA CreateInv ==
  ASSUME Inv, TypeOK', NEW f \in Files, CreateReportFile(f)
  PROVE  Inv'
<1> DEFINE p == runs[f].path
<1>1. /\ UNCHANGED <<records, mailed, deletes, cut>>
      /\ p \in Path /\ runs[f] # Null /\ runs[f].pc = "create"
      /\ \/ Moves(f, "create", "save") /\ disk' = [disk EXCEPT ![p] = f]
         \/ Moves(f, "create", "done") /\ UNCHANGED disk
      /\ KeepsRuns
  BY RunType, GoesToMoves DEF CreateReportFile, runVars, Running, Inv
<1>2. /\ disk' \in {disk, [disk EXCEPT ![p] = f]}
      /\ runs'[f] # Null /\ runs'[f].path = p /\ runs'[f].pc \in {"save", "done"}
      /\ \A g \in Files \ {f} : runs'[g] = runs[g]
  BY <1>1 DEF Moves
<1>3. /\ records[f] = Null
      /\ \A a \in Api : deletes[a] # Null => deletes[a].file # f
      /\ \A q \in Path : disk[q] # f
  BY <1>1, FilesAssumption
     DEF Inv, Links, RecordOfRun, DeleteOfRun, WrittenByRun, SavedAs
<1> USE DEF Inv, Links, TypeOK
<1> HIDE DEF p
<1>4. \A q \in Path : disk'[q] = disk[q] \/ (q = p /\ disk'[q] = f)
  BY <1>2, <1>1
<1>5. WrittenByRun'
  BY <1>2, <1>3, <1>4 DEF WrittenByRun
<1>6. RecordOfRun' /\ DeleteOfRun' /\ MailOfRun'
  BY <1>1, <1>2, <1>3, SavedStays DEF RecordOfRun, DeleteOfRun, MailOfRun, SavedAs, Delete
<1>7. Removed'
  BY <1>1, <1>3, <1>4 DEF Removed, Serving
<1>8. UnsavedHasFile'
  <2>1. ASSUME NEW g \in Files, Running(g, "save")', ~Shared(g)'
        PROVE  (disk[runs[g].path] = g)'
    <3>1. CASE g = f
      BY <1>1, <1>2, <2>1, <3>1 DEF Moves, Running, p
    <3>2. CASE g # f
      <4>1. Running(g, "save") /\ runs'[g].path = runs[g].path /\ runs[g] # Null
        BY <1>2, <2>1, <3>2 DEF Running
      <4>2. ~Shared(g) /\ runs[g].path # p /\ runs[g].path \in Path
        BY <1>1, <1>2, <2>1, <3>2, <4>1, SharedStays, RunType DEF Shared
      <4>3. QED
        BY <4>1, <4>2, <1>4 DEF UnsavedHasFile
    <3>3. QED
      BY <3>1, <3>2
  <2>2. QED
    BY <2>1 DEF UnsavedHasFile
<1>9. FileHasRecord'
  BY <1>1, <1>2, <1>3, <1>4 DEF FileHasRecord, Running, Moves
<1>10. RecordHasFile'
  <2>1. ASSUME NEW g \in Files, records[g] # Null, ~Shared(g)'
        PROVE  ~Shared(g) /\ disk'[records[g]] = disk[records[g]]
    <3>1. g # f /\ runs[g] # Null /\ records[g] = runs[g].path /\ records[g] \in Path
      BY <1>3, <2>1 DEF RecordOfRun, SavedAs
    <3>2. ~Shared(g) /\ runs[g].path # p
      BY <1>1, <1>2, <2>1, <3>1, SharedStays DEF Shared
    <3>3. QED
      BY <1>4, <3>1, <3>2
  <2>2. QED
    BY <1>1, <2>1 DEF RecordHasFile, Serving
<1>11. MailsOwnReport'
  BY <1>1, SharedStays DEF MailOfRun, MailsOwnReport
<1>12. QED
  BY <1>5, <1>6, <1>7, <1>8, <1>9, <1>10, <1>11

LEMMA SaveInv ==
  ASSUME Inv, TypeOK', NEW f \in Files, SaveReport(f)
  PROVE  Inv'
<1> DEFINE p == runs[f].path
<1>1. /\ UNCHANGED <<disk, mailed, deletes, cut>>
      /\ records' = [records EXCEPT ![f] = p]
      /\ Running(f, "save") /\ runs[f] # Null /\ p \in Path
      /\ \/ Moves(f, "save", "mail") \/ Moves(f, "save", "done")
      /\ KeepsRuns
  BY RunType, GoesToMoves DEF SaveReport, runVars, Running, Inv
<1>2. /\ runs'[f] # Null /\ runs'[f].path = p /\ runs'[f].pc \in {"mail", "done"}
      /\ \A g \in Files \ {f} : runs'[g] = runs[g]
  BY <1>1 DEF Moves
<1> USE DEF Inv, Links, TypeOK
<1> HIDE DEF p
<1>3. /\ records'[f] = p
      /\ \A g \in Files \ {f} : records'[g] = records[g]
  BY <1>1
<1>4. WrittenByRun'
  BY <1>1, <1>2 DEF WrittenByRun, p
<1>5. RecordOfRun' /\ DeleteOfRun' /\ MailOfRun'
  BY <1>1, <1>2, <1>3, SavedStays
     DEF RecordOfRun, DeleteOfRun, MailOfRun, SavedAs, Delete, Running
<1>6. Removed'
  BY <1>1 DEF Removed, Serving
<1>7. UnsavedHasFile'
  BY <1>1, <1>2, SharedStays DEF UnsavedHasFile, Running
<1>8. FileHasRecord'
  BY <1>1, <1>2, <1>3 DEF FileHasRecord, WrittenByRun, Running, p
<1>9. RecordHasFile'
  <2>1. ASSUME NEW g \in Files, records'[g] # Null, ~Shared(g)'
        PROVE  \/ disk[records'[g]] = g \/ g \in cut
               \/ \E a \in Api : Serving(a, "delrow") /\ deletes[a].file = g
    <3>1. CASE g = f
      BY <1>1, <1>3, <2>1, <3>1, SharedStays DEF UnsavedHasFile, p
    <3>2. CASE g # f
      BY <1>1, <1>3, <2>1, <3>2, SharedStays DEF RecordHasFile, RecordOfRun, SavedAs
    <3>3. QED
      BY <3>1, <3>2
  <2>2. QED
    BY <1>1, <2>1 DEF RecordHasFile, Serving
<1>10. MailsOwnReport'
  BY <1>1, SharedStays DEF MailOfRun, MailsOwnReport
<1>11. QED
  BY <1>4, <1>5, <1>6, <1>7, <1>8, <1>9, <1>10

LEMMA MailInv ==
  ASSUME Inv, TypeOK', NEW f \in Files, SendMail(f)
  PROVE  Inv'
<1> DEFINE p == runs[f].path
<1>1. /\ UNCHANGED <<disk, records, deletes, cut>>
      /\ mailed' = [mailed EXCEPT ![f] = disk[p]]
      /\ Running(f, "mail") /\ runs[f] # Null /\ p \in Path
      /\ Moves(f, "mail", "done")
      /\ KeepsRuns
  BY RunType, GoesToMoves DEF SendMail, runVars, Running, Inv
<1>2. /\ runs'[f] # Null /\ runs'[f].path = p /\ runs'[f].pc = "done"
      /\ \A g \in Files \ {f} : runs'[g] = runs[g]
  BY <1>1 DEF Moves
<1> USE DEF Inv, Links, TypeOK
<1> HIDE DEF p
<1>3. WrittenByRun'
  BY <1>1, <1>2 DEF WrittenByRun, p
<1>4. RecordOfRun' /\ DeleteOfRun' /\ MailOfRun'
  <2>1. ASSUME NEW g \in Files, NEW q, SavedAs(g, q) PROVE SavedAs(g, q)'
    BY <1>2, <2>1 DEF SavedAs, p
  <2>2. \A a \in Api : deletes[a] # Null => deletes[a].file \in Files
    BY DEF Delete
  <2>3. RecordOfRun' /\ DeleteOfRun'
    BY <1>1, <2>1, <2>2 DEF RecordOfRun, DeleteOfRun
  <2>4. MailOfRun'
    BY <1>1, <1>2 DEF MailOfRun
  <2>5. QED
    BY <2>3, <2>4
<1>5. Removed'
  BY <1>1 DEF Removed, Serving
<1>6. UnsavedHasFile'
  BY <1>1, <1>2, SharedStays DEF UnsavedHasFile, Running
<1>7. FileHasRecord'
  BY <1>1, <1>2 DEF FileHasRecord, Running
<1>8. RecordHasFile'
  BY <1>1, SharedStays DEF RecordHasFile, RecordOfRun, SavedAs, Serving
<1>9. MailsOwnReport'
  <2>1. ASSUME NEW g \in Files, mailed'[g] # Null, ~Shared(g)'
        PROVE  mailed'[g] = g
    <3>1. CASE g = f
      <4>1. disk[p] # Null /\ ~Shared(f)
        BY <1>1, <2>1, <3>1, SharedStays
      <4>2. disk[p] \in Files /\ runs[disk[p]] # Null /\ runs[disk[p]].path = runs[f].path
        BY <1>1, <4>1 DEF WrittenByRun, p
      <4>3. disk[p] = f
        BY <4>1, <4>2 DEF Shared
      <4>4. QED
        BY <1>1, <3>1, <4>3
    <3>2. CASE g # f
      BY <1>1, <2>1, <3>2, SharedStays DEF MailsOwnReport, MailOfRun
    <3>3. QED
      BY <3>1, <3>2
  <2>2. QED
    BY <2>1 DEF MailsOwnReport
<1>10. QED
  BY <1>3, <1>4, <1>5, <1>6, <1>7, <1>8, <1>9

LEMMA CrashInv ==
  ASSUME Inv, TypeOK', AgentCrash
  PROVE  Inv'
<1> USE DEF Inv, Links, TypeOK
<1>1. /\ UNCHANGED <<disk, records, mailed, deletes, cut>>
      /\ \A f \in Files : runs[f] = Null => runs'[f] = Null
      /\ \A f \in Files : runs[f] # Null =>
            /\ runs'[f] # Null /\ runs'[f].path = runs[f].path
            /\ \/ runs'[f] = runs[f] /\ runs[f].pc = "done"
               \/ runs'[f].pc = "lost"
  <2>1. ASSUME NEW f \in Files, runs[f] # Null
        PROVE  [runs[f] EXCEPT !.pc = "lost"] \in Run /\ runs[f] \in Run
    BY <2>1, RunType
  <2>2. QED
    BY <2>1, NullIsNothing DEF AgentCrash, Run
<1>2. KeepsRuns
  BY <1>1 DEF KeepsRuns
<1>3. WrittenByRun'
  BY <1>1 DEF WrittenByRun
<1>4. RecordOfRun' /\ DeleteOfRun' /\ MailOfRun'
  <2>1. ASSUME NEW f \in Files, NEW q, SavedAs(f, q) PROVE SavedAs(f, q)'
    BY <1>1, <2>1 DEF SavedAs
  <2>2. \A a \in Api : deletes[a] # Null => deletes[a].file \in Files
    BY DEF Delete
  <2>3. QED
    BY <1>1, <2>1, <2>2 DEF RecordOfRun, DeleteOfRun, MailOfRun
<1>5. Removed'
  BY <1>1 DEF Removed, Serving
<1>6. UnsavedHasFile'
  BY <1>1 DEF UnsavedHasFile, Running
<1>7. FileHasRecord'
  BY <1>1 DEF FileHasRecord, WrittenByRun, Running
<1>8. RecordHasFile'
  BY <1>1, <1>2, SharedStays DEF RecordHasFile, RecordOfRun, SavedAs, Serving
<1>9. MailsOwnReport'
  BY <1>1, <1>2, SharedStays DEF MailOfRun, MailsOwnReport
<1>10. QED
  BY <1>3, <1>4, <1>5, <1>6, <1>7, <1>8, <1>9

\* A step of the API leaves runs and mails alone.
LEMMA MailsKept ==
  ASSUME Inv, UNCHANGED <<runs, mailed>>
  PROVE  MailOfRun' /\ MailsOwnReport'
  BY DEF Inv, Links, MailOfRun, MailsOwnReport, Shared

LEMMA LookupInv ==
  ASSUME Inv, TypeOK', NEW a \in Api, NEW f \in Files, DeleteLookup(a, f)
  PROVE  Inv'
<1> USE DEF Inv, Links, TypeOK
<1>1. /\ UNCHANGED <<disk, records, runs, mailed, cut>>
      /\ deletes[a] = Null /\ deletes'[a].pc = "remove"
      /\ deletes'[a].file = f /\ deletes'[a].path = records[f] /\ records[f] # Null
      /\ \A b \in Api \ {a} : deletes'[b] = deletes[b]
  BY DEF DeleteLookup
<1>2. WrittenByRun' /\ RecordOfRun' /\ FileHasRecord' /\ UnsavedHasFile'
  BY <1>1 DEF WrittenByRun, RecordOfRun, SavedAs, FileHasRecord, Running,
              UnsavedHasFile, Shared
<1>3. DeleteOfRun'
  BY <1>1 DEF RecordOfRun, DeleteOfRun, SavedAs
<1>4. Removed'
  BY <1>1 DEF Removed, Serving
<1>5. RecordHasFile'
  BY <1>1 DEF RecordHasFile, Serving, Shared
<1>6. QED
  BY <1>1, <1>2, <1>3, <1>4, <1>5, MailsKept

LEMMA RemoveInv ==
  ASSUME Inv, TypeOK', NEW a \in Api, DeleteRemove(a)
  PROVE  Inv'
<1> USE DEF Inv, Links, TypeOK
<1> DEFINE f == deletes[a].file
           p == deletes[a].path
<1>1. /\ UNCHANGED <<records, runs, mailed, cut>>
      /\ deletes[a] # Null /\ deletes[a].pc = "remove"
      /\ f \in Files /\ p \in Path /\ SavedAs(f, p)
      /\ \A b \in Api \ {a} : deletes'[b] = deletes[b]
  BY DEF DeleteRemove, Serving, Delete, DeleteOfRun
<1>2. \/ UNCHANGED disk /\ deletes'[a] = Null
      \/ /\ disk' = [disk EXCEPT ![p] = Null]
         /\ deletes'[a] # Null /\ deletes'[a].pc = "delrow"
         /\ deletes'[a].file = f /\ deletes'[a].path = p
  <2>1. [deletes[a] EXCEPT !.pc = "delrow"] \in Delete
    BY <1>1 DEF Delete
  <2>2. QED
    BY <1>1, <2>1, NullIsNothing DEF DeleteRemove, Delete
<1>3. \A q \in Path : disk'[q] = disk[q] \/ disk'[q] = Null
  BY <1>1, <1>2
<1>4. WrittenByRun' /\ FileHasRecord'
  BY <1>1, <1>3 DEF WrittenByRun, FileHasRecord, Running
<1>5. RecordOfRun' /\ DeleteOfRun'
  BY <1>1, <1>2 DEF RecordOfRun, DeleteOfRun, SavedAs
<1>6. Removed'
  <2>1. ASSUME NEW q \in Path, disk[q] = f PROVE q = p
    BY <1>1, <2>1, FilesAssumption DEF WrittenByRun, SavedAs
  <2>2. ASSUME NEW b \in Api, Serving(b, "delrow")', NEW q \in Path
        PROVE  disk'[q] # deletes'[b].file
    <3>1. CASE b = a
      BY <1>1, <1>2, <2>1, <2>2, <3>1, FilesAssumption DEF Serving
    <3>2. CASE b # a
      BY <1>1, <1>3, <2>2, <3>2, FilesAssumption DEF Removed, Serving, Delete
    <3>3. QED
      BY <3>1, <3>2
  <2>3. QED
    BY <2>2 DEF Removed
<1> HIDE DEF f, p
<1>7. ASSUME NEW g \in Files, runs[g] # Null, ~Shared(g), g # f
      PROVE  disk'[runs[g].path] = disk[runs[g].path]
  <2>1. runs[g].path # p /\ runs[g].path \in Path
    BY <1>1, <1>7, RunType DEF Shared, SavedAs
  <2>2. QED
    BY <1>1, <1>2, <2>1
<1>8. UnsavedHasFile'
  BY <1>1, <1>7 DEF UnsavedHasFile, Running, Shared, SavedAs
<1>9. RecordHasFile'
  <2>1. ASSUME NEW g \in Files, records[g] # Null, ~Shared(g)
        PROVE  \/ disk'[records[g]] = g \/ g \in cut
               \/ \E b \in Api : Serving(b, "delrow")' /\ deletes'[b].file = g
    <3>1. runs[g] # Null /\ records[g] = runs[g].path
      BY <2>1 DEF RecordOfRun, SavedAs
    <3>2. CASE g # f
      BY <1>1, <1>7, <2>1, <3>1, <3>2 DEF RecordHasFile, Serving
    <3>3. CASE g = f /\ UNCHANGED disk
      BY <1>1, <2>1, <3>3 DEF RecordHasFile, Serving
    <3>4. CASE g = f /\ ~UNCHANGED disk
      BY <1>2, <3>4, NullIsNothing DEF Serving
    <3>5. QED
      BY <3>2, <3>3, <3>4
  <2>2. QED
    BY <1>1, <2>1 DEF RecordHasFile, Shared
<1>10. QED
  BY <1>1, <1>4, <1>5, <1>6, <1>8, <1>9, MailsKept

LEMMA DelRowInv ==
  ASSUME Inv, TypeOK', NEW a \in Api, DelRptfiles(a)
  PROVE  Inv'
<1> USE DEF Inv, Links, TypeOK
<1> DEFINE f == deletes[a].file
<1>1. /\ UNCHANGED <<disk, runs, mailed, cut>>
      /\ Serving(a, "delrow") /\ f \in Files
      /\ records'[f] = Null /\ deletes'[a] = Null
      /\ \A g \in Files \ {f} : records'[g] = records[g]
      /\ \A b \in Api \ {a} : deletes'[b] = deletes[b]
  BY DEF DelRptfiles, Serving, Delete
<1>2. WrittenByRun' /\ RecordOfRun' /\ UnsavedHasFile'
  BY <1>1 DEF WrittenByRun, RecordOfRun, SavedAs, Running, UnsavedHasFile, Shared
<1>3. DeleteOfRun' /\ Removed'
  BY <1>1 DEF DeleteOfRun, SavedAs, Removed, Serving
<1>4. FileHasRecord'
  BY <1>1 DEF FileHasRecord, Running, Removed
<1>5. RecordHasFile'
  BY <1>1 DEF RecordHasFile, Serving, Shared
<1>6. QED
  BY <1>1, <1>2, <1>3, <1>4, <1>5, MailsKept

LEMMA DiesInv ==
  ASSUME Inv, TypeOK', NEW a \in Api, ApiDies(a)
  PROVE  Inv'
<1> USE DEF Inv, Links, TypeOK
<1>1. /\ UNCHANGED <<disk, records, runs, mailed>>
      /\ cut' = cut \cup {deletes[a].file}
      /\ deletes'[a] = Null
      /\ \A b \in Api \ {a} : deletes'[b] = deletes[b]
  BY DEF ApiDies
<1>2. WrittenByRun' /\ RecordOfRun' /\ FileHasRecord' /\ UnsavedHasFile'
  BY <1>1 DEF WrittenByRun, RecordOfRun, SavedAs, FileHasRecord, Running,
              UnsavedHasFile, Shared
<1>3. DeleteOfRun' /\ Removed'
  BY <1>1 DEF DeleteOfRun, SavedAs, Removed, Serving
<1>4. RecordHasFile'
  BY <1>1 DEF RecordHasFile, Serving, Shared
<1>5. QED
  BY <1>1, <1>2, <1>3, <1>4, MailsKept

\* A step that leaves everything but the counters alone.
LEMMA OtherInv ==
  ASSUME Inv, TypeOK', UNCHANGED <<disk, records, runs, mailed, deletes, cut>>
  PROVE  Inv'
<1>1. WrittenByRun' /\ RecordOfRun' /\ DeleteOfRun' /\ Removed' /\ UnsavedHasFile'
  BY DEF Inv, Links, WrittenByRun, RecordOfRun, DeleteOfRun, SavedAs, Removed,
         UnsavedHasFile, Running, Serving, Shared
<1>2. FileHasRecord' /\ RecordHasFile'
  BY DEF Inv, FileHasRecord, RecordHasFile, Running, Serving, Shared
<1>3. QED
  BY <1>1, <1>2, MailsKept DEF Inv, Links

LEMMA InvInit == Init => Inv
  BY TypeInit
     DEF Init, Inv, Links, WrittenByRun, RecordOfRun, DeleteOfRun, MailOfRun, Removed,
         UnsavedHasFile, FileHasRecord, RecordHasFile, MailsOwnReport, Running, Serving

LEMMA InvNext == Inv /\ [Next]_vars => Inv'
<1> SUFFICES ASSUME Inv, [Next]_vars PROVE Inv'
  OBVIOUS
<1>1. TypeOK'
  BY TypeNext DEF Inv
<1>2. CASE \E f \in Files :
             \/ \E t \in Tasks : BeginRun(f, t)
             \/ CreateReportFile(f) \/ SaveReport(f) \/ SendMail(f)
             \/ \E a \in Api : DeleteLookup(a, f)
  BY <1>1, <1>2, BeginInv, CreateInv, SaveInv, MailInv, LookupInv
<1>3. CASE \E a \in Api : DeleteRemove(a) \/ DelRptfiles(a) \/ ApiDies(a)
  BY <1>1, <1>3, RemoveInv, DelRowInv, DiesInv
<1>4. CASE AgentCrash
  BY <1>1, <1>4, CrashInv
<1>5. CASE NextDay \/ UNCHANGED vars
  BY <1>1, <1>5, OtherInv DEF NextDay, vars
<1>6. QED
  BY <1>2, <1>3, <1>4, <1>5 DEF Next

-----------------------------------------------------------------------------

(***************************************************************************)
(* No file is left on disk without a row that leads to it, but that of a   *)
(* run about to add the row or lost with the agent: whatever the runs,     *)
(* deletes, crashes and days (Task.start, RptfilesController.delete).      *)
(***************************************************************************)
THEOREM FilesHaveRecords == Spec => []FileHasRecord
<1>1. Inv => FileHasRecord
  BY DEF Inv
<1>2. QED
  BY <1>1, InvInit, InvNext, PTL DEF Spec

(***************************************************************************)
(* A row whose file no other run shares leads to its own report, unless    *)
(* its delete is half done or was cut short.                               *)
(***************************************************************************)
THEOREM RecordsHaveFiles == Spec => []RecordHasFile
<1>1. Inv => RecordHasFile
  BY DEF Inv
<1>2. QED
  BY <1>1, InvInit, InvNext, PTL DEF Spec

(***************************************************************************)
(* A mail carries the report of its own run, unless another run uses the   *)
(* file name (_send_mail reads the file by name).                          *)
(***************************************************************************)
THEOREM MailsAreOwn == Spec => []MailsOwnReport
<1>1. Inv => MailsOwnReport
  BY DEF Inv
<1>2. QED
  BY <1>1, InvInit, InvNext, PTL DEF Spec

=============================================================================
