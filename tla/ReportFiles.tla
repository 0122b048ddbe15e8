----------------------------- MODULE ReportFiles -----------------------------
(***************************************************************************)
(* Report files: what a run of a scheduled task (Task.start) writes, and   *)
(* what the rptfiles endpoints delete.                                     *)
(*                                                                         *)
(* A report is a file in rptfile_path and a row of report_files that names *)
(* it.  The file's name is the task's name and the day the run began, so   *)
(* two runs of a task on one day, and runs of two tasks of one name, write *)
(* the same file.  No lock and no transaction spans file and row: a run    *)
(* writes the file, then the row, then may mail the file; delete removes   *)
(* the file, then the row.  Runs are threads of the agent's scheduler,     *)
(* deletes are requests of the API processes; they share only disk and     *)
(* table.                                                                  *)
(*                                                                         *)
(* A run is identified with the file_id it gives its row.                  *)
(***************************************************************************)
EXTENDS Naturals

CONSTANTS
  Files,      \* file ids, one per run
  Tasks,      \* scheduled tasks
  Names,      \* their names
  NameOf,     \* the name of a task: nothing keeps two tasks from sharing one
  Mailing,    \* tasks with needmail = "Y"
  Api,        \* API processes
  Null,       \* no file, no row, no run, no request
  MaxDay,     \* bound: days
  MaxCrashes, \* bound: crashes of the agent
  MaxDeaths   \* bound: API processes killed in a request

ASSUME FilesAssumption ==
  /\ NameOf \in [Tasks -> Names]
  /\ Mailing \subseteq Tasks
  /\ MaxDay \in Nat /\ MaxCrashes \in Nat /\ MaxDeaths \in Nat
  /\ Null \notin Files

Path == [name : Names, day : 0 .. MaxDay]

VARIABLES
  day,       \* the date
  disk,      \* the run that wrote the file of that name last, or Null
  records,   \* report_files: the file_path of a row, or Null
  runs,      \* the runs so far, or Null
  mailed,    \* the run whose report a run's mail carried, or Null
  deletes,   \* the delete request an API process serves, or Null
  cut,       \* rows whose delete was cut short after the file was removed
  crashes, deaths

vars == <<day, disk, records, runs, mailed, deletes, cut, crashes, deaths>>

(***************************************************************************)
(* A run's pc: "create" (create_report_file), "save" (_save_report),       *)
(* "mail" (_send_mail), "done", or "lost" with the agent's process.        *)
(* A delete's pc: "remove" (os.remove) or "delrow" (del_rptfiles).         *)
(***************************************************************************)
Run == [pc : {"create", "save", "mail", "done", "lost"},
        task : Tasks, path : Path]

Delete == [pc : {"remove", "delrow"}, file : Files, path : Path]

ASSUME NullIsNothing == Null \notin Path /\ Null \notin Run /\ Null \notin Delete

TypeOK ==
  /\ day \in 0 .. MaxDay
  /\ disk \in [Path -> Files \cup {Null}]
  /\ records \in [Files -> Path \cup {Null}]
  /\ runs \in [Files -> Run \cup {Null}]
  /\ mailed \in [Files -> Files \cup {Null}]
  /\ deletes \in [Api -> Delete \cup {Null}]
  /\ cut \subseteq Files
  /\ crashes \in 0 .. MaxCrashes /\ deaths \in 0 .. MaxDeaths

Init ==
  /\ day = 0
  /\ disk = [p \in Path |-> Null]
  /\ records = [f \in Files |-> Null]
  /\ runs = [f \in Files |-> Null]
  /\ mailed = [f \in Files |-> Null]
  /\ deletes = [a \in Api |-> Null]
  /\ cut = {}
  /\ crashes = 0 /\ deaths = 0

-----------------------------------------------------------------------------
(* The agent: runs.                                                        *)

runVars == <<deletes, cut, day, crashes, deaths>>

Running(f, pc) == runs[f] # Null /\ runs[f].pc = pc

GoesTo(f, pc) == runs' = [runs EXCEPT ![f].pc = pc]

\* The scheduler's thread starts a due job; create_report_file takes the date
\* first and works long after.
BeginRun(f, t) ==
  /\ runs[f] = Null
  /\ runs' = [runs EXCEPT ![f] =
                [pc |-> "create", task |-> t,
                 path |-> [name |-> NameOf[t], day |-> day]]]
  /\ UNCHANGED <<disk, records, mailed, runVars>>

\* Faulty: an error while the report is made is swallowed.
CreateAnyway(f) ==
  /\ Running(f, "create")
  /\ disk' \in {disk, [disk EXCEPT ![runs[f].path] = f]}
  /\ GoesTo(f, "save")
  /\ UNCHANGED <<records, mailed, runVars>>

\* flush writes the file over what was there. Any error before it ends the
\* run with nothing written: the collectors' clients answer None when a
\* service fails, and what uses the answer raises.
CreateReportFile(f) ==
  /\ Running(f, "create")
  /\ \/ /\ disk' = [disk EXCEPT ![runs[f].path] = f]
        /\ GoesTo(f, "save")
     \/ GoesTo(f, "done") /\ UNCHANGED disk
  /\ UNCHANGED <<records, mailed, runVars>>

SaveReport(f) ==
  /\ Running(f, "save")
  /\ records' = [records EXCEPT ![f] = runs[f].path]
  /\ GoesTo(f, IF runs[f].task \in Mailing THEN "mail" ELSE "done")
  /\ UNCHANGED <<disk, mailed, runVars>>

\* Faulty: the file name is made up again, with the date of the mail.
MailTodaysFile(f) ==
  /\ Running(f, "mail")
  /\ mailed' = [mailed EXCEPT ![f] = disk[[runs[f].path EXCEPT !.day = day]]]
  /\ GoesTo(f, "done")
  /\ UNCHANGED <<disk, records, runVars>>

\* MailUtil reads the file by its name, or raises if there is none; what the
\* mail server answers changes nothing.
SendMail(f) ==
  /\ Running(f, "mail")
  /\ mailed' = [mailed EXCEPT ![f] = disk[runs[f].path]]
  /\ GoesTo(f, "done")
  /\ UNCHANGED <<disk, records, runVars>>

AgentCrash ==
  /\ crashes < MaxCrashes
  /\ crashes' = crashes + 1
  /\ runs' = [f \in Files |->
                IF runs[f] # Null /\ runs[f].pc # "done"
                THEN [runs[f] EXCEPT !.pc = "lost"]
                ELSE runs[f]]
  /\ UNCHANGED <<day, disk, records, mailed, deletes, cut, deaths>>

-----------------------------------------------------------------------------
(* The API: delete. Every failure up to os.remove is answered with 404.    *)

\* Faulty: the row goes before the file.
DeleteRowFirst(a, f) ==
  /\ deletes[a] = Null
  /\ records[f] # Null
  /\ deletes' = [deletes EXCEPT ![a] = [pc |-> "remove", file |-> f,
                                        path |-> records[f]]]
  /\ records' = [records EXCEPT ![f] = Null]
  /\ UNCHANGED <<day, disk, runs, mailed, cut, crashes, deaths>>

DeleteLookup(a, f) ==
  /\ deletes[a] = Null
  /\ records[f] # Null
  /\ deletes' = [deletes EXCEPT ![a] = [pc |-> "remove", file |-> f,
                                        path |-> records[f]]]
  /\ UNCHANGED <<day, disk, records, runs, mailed, cut, crashes, deaths>>

Serving(a, pc) == deletes[a] # Null /\ deletes[a].pc = pc

DeleteRemove(a) ==
  /\ Serving(a, "remove")
  /\ \/ /\ disk[deletes[a].path] = Null
        /\ deletes' = [deletes EXCEPT ![a] = Null]
        /\ UNCHANGED disk
     \/ /\ disk[deletes[a].path] # Null
        /\ disk' = [disk EXCEPT ![deletes[a].path] = Null]
        /\ deletes' = [deletes EXCEPT ![a].pc = "delrow"]
  /\ UNCHANGED <<day, records, runs, mailed, cut, crashes, deaths>>

DelRptfiles(a) ==
  /\ Serving(a, "delrow")
  /\ records' = [records EXCEPT ![deletes[a].file] = Null]
  /\ deletes' = [deletes EXCEPT ![a] = Null]
  /\ UNCHANGED <<day, disk, runs, mailed, cut, crashes, deaths>>

\* The process is killed, or the statement fails, after os.remove.
ApiDies(a) ==
  /\ Serving(a, "delrow")
  /\ deaths < MaxDeaths
  /\ deaths' = deaths + 1
  /\ cut' = cut \cup {deletes[a].file}
  /\ deletes' = [deletes EXCEPT ![a] = Null]
  /\ UNCHANGED <<day, disk, records, runs, mailed, crashes>>

NextDay ==
  /\ day < MaxDay
  /\ day' = day + 1
  /\ UNCHANGED <<disk, records, runs, mailed, deletes, cut, crashes, deaths>>

Next ==
  \/ \E f \in Files :
       \/ \E t \in Tasks : BeginRun(f, t)
       \/ CreateReportFile(f) \/ SaveReport(f) \/ SendMail(f)
       \/ \E a \in Api : DeleteLookup(a, f)
  \/ \E a \in Api : DeleteRemove(a) \/ DelRptfiles(a) \/ ApiDies(a)
  \/ AgentCrash
  \/ NextDay

Spec == Init /\ [][Next]_vars

-----------------------------------------------------------------------------

\* Another run has written, or will write, the same file.
Shared(f) == \E g \in Files \ {f} :
               runs[g] # Null /\ runs[g].path = runs[f].path

(***************************************************************************)
(* A file on disk belongs to a row, so that somebody can find and delete   *)
(* it: the row of the run that wrote it last, which is about to be added   *)
(* or was lost with the agent. Runs that overwrite each other's file and   *)
(* deletes that remove it keep that true, because a run writes the file    *)
(* before the row and a delete removes it before the row.                  *)
(***************************************************************************)
FileHasRecord ==
  \A p \in Path :
    disk[p] # Null =>
      \/ records[disk[p]] = p
      \/ Running(disk[p], "save") \/ Running(disk[p], "lost")

(***************************************************************************)
(* A row whose file no other run shares names that very report, but for    *)
(* the time between the two halves of its delete, or if the second half    *)
(* never came.                                                             *)
(***************************************************************************)
RecordHasFile ==
  \A f \in Files :
    records[f] # Null /\ ~Shared(f) =>
      \/ disk[records[f]] = f
      \/ f \in cut
      \/ \E a \in Api : Serving(a, "delrow") /\ deletes[a].file = f

(***************************************************************************)
(* A mail carries the report of the run that sends it, unless another run  *)
(* uses the same file name.                                                *)
(***************************************************************************)
MailsOwnReport ==
  \A f \in Files : mailed[f] # Null /\ ~Shared(f) => mailed[f] = f

=============================================================================
