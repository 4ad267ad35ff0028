------------------------------ MODULE ConfigFile ------------------------------
(***************************************************************************)
(* saveConfigFile of src/foundation/config-io.ts: saves of one runtime     *)
(* configuration file that overlap, fail and are cut short by the end of   *)
(* the process or of the machine.  Every await of a save is a step.        *)
(*                                                                         *)
(* A file is [body, synced]: the body written to it (Cut, if it is not     *)
(* complete), and whether it has reached the disk.                         *)
(***************************************************************************)
EXTENDS Naturals

CONSTANTS
  Writers,       \* saves of the file, each of its own body
  Initial,       \* the body before the first save
  Cut,           \* what a file has that was not written to its end
  MaxTrouble     \* bound: failures of the file system, and crashes

ASSUME ConfigFileAssumption ==
  Initial \notin Writers /\ Cut \notin Writers \cup {Initial}

VARIABLES
  saves,         \* writer |-> how far it is
  temps,         \* name of a temporary file |-> its content
  file,          \* the configuration file
  trouble

files == <<saves, temps, file, trouble>>

Absent == [body |-> Cut, synced |-> FALSE, there |-> FALSE]
File(b, s) == [body |-> b, synced |-> s, there |-> TRUE]
Files == [body : Writers \cup {Initial, Cut}, synced : BOOLEAN, there : BOOLEAN]

FileInit ==
  /\ saves = [w \in Writers |-> "none"]
  /\ temps = [w \in Writers |-> Absent]
  /\ file = File(Initial, TRUE)
  /\ trouble = 0

(* Defect: all writers use the same temporary file. *)
OneTempPath(w) == CHOOSE x \in Writers : TRUE

(* tempPath, of its own for every save. *)
TempPath(w) == w

At(w, from, to) ==
  saves[w] = from /\ saves' = [saves EXCEPT ![w] = to]

TempBecomes(w, f) == temps' = [temps EXCEPT ![TempPath(w)] = f]

(* fs.open(tempPath, "w") *)
OpenTemp(w) ==
  /\ At(w, "none", "open")
  /\ TempBecomes(w, File(Cut, FALSE))
  /\ UNCHANGED <<file, trouble>>

WriteTemp(w) ==
  /\ At(w, "open", "written")
  /\ TempBecomes(w, File(w, FALSE))
  /\ UNCHANGED <<file, trouble>>

SyncTemp(w) ==
  /\ At(w, "written", "synced")
  /\ TempBecomes(w, [temps[TempPath(w)] EXCEPT !.synced = TRUE])
  /\ UNCHANGED <<file, trouble>>

(* close and fs.rename; without its temporary file a save fails. *)
RenameTemp(w) ==
  /\ saves[w] = "synced"
  /\ IF temps[TempPath(w)].there
     THEN /\ file' = temps[TempPath(w)]
          /\ TempBecomes(w, Absent)
          /\ At(w, "synced", "saved")
     ELSE At(w, "synced", "failed") /\ UNCHANGED <<file, temps>>
  /\ UNCHANGED trouble

(* The catch clause: the temporary file goes, the file stays. *)
SaveFails(w) ==
  /\ saves[w] \in {"none", "open", "written", "synced"}
  /\ saves' = [saves EXCEPT ![w] = "failed"]
  /\ TempBecomes(w, Absent)
  /\ trouble < MaxTrouble /\ trouble' = trouble + 1
  /\ UNCHANGED file

(* What the disk has of a file after the machine has gone down. *)
AfterPowerLoss(f) == IF f.there /\ ~ f.synced THEN File(Cut, TRUE) ELSE f

(* The machine goes down, and with it every save under way. *)
FilesAfterCrash ==
  /\ saves' = [w \in Writers |-> IF saves[w] \in {"none", "saved", "failed"}
                                 THEN saves[w] ELSE "failed"]
  /\ temps' = [w \in Writers |-> AfterPowerLoss(temps[w])]
  /\ file' = AfterPowerLoss(file)
  /\ trouble < MaxTrouble /\ trouble' = trouble + 1

SaveStep(w) ==
  OpenTemp(w) \/ WriteTemp(w) \/ SyncTemp(w) \/ RenameTemp(w) \/ SaveFails(w)

(* The file is never seen half written, by the watcher that reads it at     *)
(* any time or by the next start, whatever saves overlap and wherever they  *)
(* end: it has the body of one save, of one that is said to have succeeded. *)
FileIsWhole ==
  /\ file.body # Cut /\ file.synced
  /\ file.body \in Writers => saves[file.body] = "saved"
  /\ \A w \in Writers : saves[w] = "saved" => file.body # Initial

=============================================================================
