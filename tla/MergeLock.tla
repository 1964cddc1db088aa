------------------------------ MODULE MergeLock ------------------------------
(****************************************************************************)
(* The merge lock of a project (loop/gates.py, loop/merge_lock.py): a file  *)
(* that names its holder, created with O_EXCL and flocked under an arbiter  *)
(* flock, removed by its holder or by a sweep that finds its flock free.    *)
(*                                                                          *)
(* A process creates at most one file at a time, so the process stands for  *)
(* the inode it created: path is the creator of the file the path leads to. *)
(****************************************************************************)
EXTENDS Naturals, FiniteSets

CONSTANTS
    Runs,      \* worker processes, each with the run its stamp names
    Resumed,   \* the workers among them that start at the merge gate
    Settlers,  \* story closes: they take the lock with no run, stamp "-"
    Sweepers   \* sweeps with --act

NoFile == "none"
Procs == Runs \cup Settlers

ASSUME DisjointActors == /\ Resumed \subseteq Runs
                         /\ Runs \cap Settlers = {}
                         /\ Procs \cap Sweepers = {}
                         /\ NoFile \notin Procs \cup Sweepers

VARIABLES
    path,     \* the creator of the lock file, or NoFile
    stamped,  \* the creators whose file says more than nothing
    arbiter,  \* who holds the arbiter's flock, or NoFile
    at,       \* where each process is in merge_lock()
    use,      \* what it takes the lock for
    waited,   \* how long it has waited, against the wait and the ceiling
    over,     \* runs whose row has ended
    sweep     \* where each sweep is in merge_lock_lines()

lockVars == <<path, stamped, arbiter, at, use, waited, over, sweep>>

Places == {"out", "asking", "created", "holding", "leaving",
           "closing", "refused", "dead"}
Uses == {"fetch", "gate", "findings", "settle", "done"}

\* The values the lock file, its stamps and each process's place in
\* merge_lock.py range over.
TypeOK == /\ path \in Procs \cup {NoFile}
          /\ stamped \subseteq Procs
          /\ arbiter \in Procs \cup Sweepers \cup {NoFile}
          /\ at \in [Procs -> Places]
          /\ use \in [Procs -> Uses]
          /\ waited \in [Procs -> {"short", "long", "spent"}]
          /\ over \subseteq Runs
          /\ sweep \in [Sweepers -> {"idle", "judged", "flocked"}]

\* A worker fetches before it cuts a branch, or resumes at the gate.
LockInit == /\ path = NoFile
            /\ stamped = {}
            /\ arbiter = NoFile
            /\ at = [p \in Procs |-> "out"]
            /\ use = [p \in Procs |-> IF p \in Settlers THEN "settle"
                                      ELSE IF p \in Resumed THEN "gate"
                                      ELSE "fetch"]
            /\ waited = [p \in Procs |-> "short"]
            /\ over = {}
            /\ sweep = [s \in Sweepers |-> "idle"]

\* The kernel frees a flock when its holder closes the file or dies.
Flocked(p) == at[p] \in {"created", "holding", "leaving", "closing"}

Goes(p, place) == at' = [at EXCEPT ![p] = place]

(******************************* acquiring ********************************)

Ask(p) == /\ at[p] = "out"
          /\ use[p] # "done"
          /\ Goes(p, "asking")
          /\ UNCHANGED <<path, stamped, arbiter, use, waited, over, sweep>>

\* Mutant: the file is created without O_EXCL.
CreateOver(p) == /\ at[p] = "asking"
                 /\ arbiter = NoFile
                 /\ arbiter' = p
                 /\ path' = p
                 /\ Goes(p, "created")
                 /\ waited' = [waited EXCEPT ![p] = "short"]
                 /\ UNCHANGED <<stamped, use, over, sweep>>

\* The arbiter's flock, O_CREAT | O_EXCL, the file's flock: one step, as no one
\* else opens the file before the arbiter is free again.
CreateFile(p) == /\ at[p] = "asking"
                 /\ arbiter = NoFile
                 /\ path = NoFile
                 /\ arbiter' = p
                 /\ path' = p
                 /\ Goes(p, "created")
                 /\ waited' = [waited EXCEPT ![p] = "short"]
                 /\ UNCHANGED <<stamped, use, over, sweep>>

WriteStamp(p) == /\ at[p] = "created"
                 /\ stamped' = stamped \cup {p}
                 /\ arbiter' = NoFile
                 /\ Goes(p, "holding")
                 /\ UNCHANGED <<path, use, waited, over, sweep>>

FileExists(p) == /\ at[p] = "asking"
                 /\ arbiter = NoFile
                 /\ path # NoFile
                 /\ Goes(p, "refused")
                 /\ UNCHANGED <<path, stamped, arbiter, use, waited, over, sweep>>

\* The clock: past the wait, then past the ceiling of extended waits.
Wait(p) == /\ at[p] = "refused"
           /\ \/ /\ waited[p] = "short"
                 /\ waited' = [waited EXCEPT ![p] = "long"]
              \/ /\ waited[p] = "long"
                 /\ waited' = [waited EXCEPT ![p] = "spent"]
           /\ UNCHANGED <<path, stamped, arbiter, at, use, over, sweep>>

\* The run the file names, read without the arbiter: no file, or one not yet
\* stamped, or a settler's "-", names none.
NamedRuns == {path} \cap stamped \cap Runs

\* Mutant: the extended waits have no ceiling.
ExtendAlways(p) == /\ use[p] \in {"fetch", "gate"}
                   /\ waited[p] # "short"
                   /\ NamedRuns \ over # {}

\* extend(): only the fetch and the gate wait longer than the wait, for a
\* holder whose run is live and beating. A dead holder's run may still look
\* so for a while.
MayExtend(p) == /\ use[p] \in {"fetch", "gate"}
                /\ waited[p] = "long"
                /\ NamedRuns \ over # {}

HolderBeats == \E r \in NamedRuns \ over : at[r] # "dead"

Nap(p) == /\ at[p] = "refused"
          /\ waited[p] = "short" \/ MayExtend(p)
          /\ Goes(p, "asking")
          /\ UNCHANGED <<path, stamped, arbiter, use, waited, over, sweep>>

\* Mutant: a gate that could not take the lock is parked at the gate's lock.
AfterHeldParked(u) == CASE u = "fetch" -> "findings" [] u = "gate" -> "parked" [] OTHER -> "done"

\* A worker whose close-out could not take the lock leaves FINDINGS.md as it
\* is; one whose fetch or gate could not fails its run (its ticket parked
\* merge_lock at the gate) and still has the findings to render.
AfterHeld(u) == IF u \in {"fetch", "gate"} THEN "findings" ELSE "done"

GiveUp(p) == /\ at[p] = "refused"
             /\ waited[p] # "short"
             /\ ~(MayExtend(p) /\ HolderBeats)
             /\ Goes(p, "out")
             /\ waited' = [waited EXCEPT ![p] = "short"]
             /\ use' = [use EXCEPT ![p] = AfterHeld(@)]
             /\ over' = IF p \in Runs THEN over \cup {p} ELSE over
             /\ UNCHANGED <<path, stamped, arbiter, sweep>>

(******************************* releasing ********************************)

\* The text is the holder's own stamp (or the file is gone, or another's).
ReadBack(p) == /\ at[p] = "holding"
               /\ Goes(p, IF path = p THEN "leaving" ELSE "closing")
               /\ UNCHANGED <<path, stamped, arbiter, use, waited, over, sweep>>

\* Without the arbiter: the path is unlinked whatever it leads to by now.
Unlink(p) == /\ at[p] = "leaving"
             /\ path' = NoFile
             /\ stamped' = stamped \ {path}
             /\ Goes(p, "closing")
             /\ UNCHANGED <<arbiter, use, waited, over, sweep>>

AfterUse(u) == CASE u = "fetch" -> {"gate", "findings"}
                 [] u = "gate" -> {"findings", "done"}
                 [] OTHER -> {"done"}

\* What a worker does next; a run that has no gate ahead of it has ended.
Close(p) == /\ at[p] = "closing"
            /\ Goes(p, "out")
            /\ \E u \in AfterUse(use[p]) :
                  /\ use' = [use EXCEPT ![p] = u]
                  /\ over' = IF p \in Runs /\ u # "gate" THEN over \cup {p} ELSE over
            /\ UNCHANGED <<path, stamped, arbiter, waited, sweep>>

(************************ deaths, endings and sweeps ***********************)

\* A process that dies away from the lock is one that never comes back to it.
Crash(p) == /\ at[p] \notin {"out", "dead"}
            /\ Goes(p, "dead")
            /\ arbiter' = IF arbiter = p THEN NoFile ELSE arbiter
            /\ use' = [use EXCEPT ![p] = "done"]
            /\ waited' = [waited EXCEPT ![p] = "short"]
            /\ UNCHANGED <<path, stamped, over, sweep>>

\* The run ends while the file names it: landed or parked under the lock,
\* failed by its worker, or by a sweep, which a process that only fell silent
\* outlives. (Other runs' rows are not looked at.)
EndRow(r) == /\ path = r
             /\ r \notin over
             /\ over' = over \cup {r}
             /\ UNCHANGED <<path, stamped, arbiter, at, use, waited, sweep>>

\* merge_lock_lines(act=True): the stamp and the run, without the arbiter...
JudgeDead(s) == /\ sweep[s] = "idle"
                /\ NamedRuns \cap over # {}
                /\ sweep' = [sweep EXCEPT ![s] = "judged"]
                /\ UNCHANGED <<path, stamped, arbiter, at, use, waited, over>>

\* Mutants: the lock is in use unless the store says its run has ended; ever.
InUseByRow == path # NoFile /\ path \notin over

InUseWhileThere == path # NoFile

InUse == path # NoFile /\ Flocked(path)

\* ...then remove_dead_merge_lock under it, of whatever file is there by now:
\* gone, in use, or a flock the sweep takes and a file it then unlinks.
SweepAgain(s) == /\ sweep[s] = "judged"
                 /\ arbiter = NoFile
                 /\ path = NoFile \/ InUse
                 /\ sweep' = [sweep EXCEPT ![s] = "idle"]
                 /\ UNCHANGED <<path, stamped, arbiter, at, use, waited, over>>

FlockDead(s) == /\ sweep[s] = "judged"
                /\ arbiter = NoFile
                /\ path # NoFile
                /\ ~InUse
                /\ arbiter' = s
                /\ sweep' = [sweep EXCEPT ![s] = "flocked"]
                /\ UNCHANGED <<path, stamped, at, use, waited, over>>

RemoveDead(s) == /\ sweep[s] = "flocked"
                 /\ path' = NoFile
                 /\ stamped' = stamped \ {path}
                 /\ arbiter' = NoFile
                 /\ sweep' = [sweep EXCEPT ![s] = "idle"]
                 /\ UNCHANGED <<at, use, waited, over>>

LockStep(p) == \/ Ask(p) \/ CreateFile(p) \/ WriteStamp(p) \/ FileExists(p)
               \/ Wait(p) \/ Nap(p) \/ GiveUp(p) \/ Crash(p)

SweepStep(s) == JudgeDead(s) \/ SweepAgain(s) \/ FlockDead(s) \/ RemoveDead(s)

LockNext == \/ \E p \in Procs : LockStep(p) \/ ReadBack(p) \/ Unlink(p) \/ Close(p)
            \/ \E r \in Runs : EndRow(r)
            \/ \E s \in Sweepers : SweepStep(s)
==============================================================================
