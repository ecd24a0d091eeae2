---------------------------- MODULE LogRotation -----------------------------
(***************************************************************************)
(* rotatingWriter (logging.go): the log file, its numbered backups and     *)
(* their rotation, one file operation at a time.                           *)
(*                                                                         *)
(* A file is the sequence of the numbers of its lines, empty if it does    *)
(* not exist (only files with lines in them are ever renamed); a line has  *)
(* the size 1.  Every operation may fail, and the process may die between  *)
(* any two of them and be started again.  Writers are serialised by the    *)
(* mutex.  Faulty variants are named Bad..., as in WSPool.                 *)
(***************************************************************************)
EXTENDS Integers, Sequences, SequencesExt

CONSTANTS BackupCounts,  \* the values of cfg.LogBackups that occur
          MaxSize,       \* maxBytes
          CheckEvery,    \* 32: writes between two looks at the size
          MaxLines, MaxRestarts, MaxFailures     \* bounds

ASSUME LogAssumption == /\ BackupCounts \subseteq Nat /\ BackupCounts # {}
                        /\ MaxSize \in Nat \ {0} /\ CheckEvery \in Nat \ {0}
                        /\ MaxLines \in Nat /\ MaxRestarts \in Nat /\ MaxFailures \in Nat

VARIABLES backups,    \* w.backups
          files,      \* the log file, 0, and its backups
          open,       \* w.f is an open file: the log file
          checkTick,  \* w.checkTick, modulo CheckEvery
          pc,         \* "idle", "rename", "remove", "reopen" or "write"
          todo,       \* the files rotate has still to rename, in this order
          written,    \* the lines written so far
          restarts, failures

vars == <<backups, files, open, checkTick, pc, todo, written, restarts, failures>>

Init == /\ backups \in BackupCounts
        /\ files = [i \in 0..backups |-> <<>>]
        /\ open = TRUE
        /\ checkTick = 0
        /\ pc = "idle"
        /\ todo = <<>>
        /\ written = 0
        /\ restarts = 0 /\ failures = 0

\* One operation: it works and has this effect, or it does not.
Attempt(effect) == \/ effect /\ UNCHANGED failures
                   \/ /\ failures < MaxFailures
                      /\ failures' = failures + 1
                      /\ UNCHANGED <<files, open>>

\* The order in which rotate renames, the oldest backup first.
BadSources == [i \in 1..backups |-> i - 1]       \* each file ends up in the last one
Sources == [i \in 1..backups |-> backups - i]

\* A file of this size is rotated.
BadFull(n) == n > MaxSize                        \* one line later
Full(n) == n >= MaxSize

\* The file is looked at every CheckEvery writes; the look fails if it is closed.
Write == LET tick == (checkTick + 1) % CheckEvery IN
           /\ pc = "idle"
           /\ written < MaxLines
           /\ checkTick' = tick
           /\ IF tick = 0 /\ open /\ Full(Len(files[0]))
              THEN /\ pc' = IF backups > 0 THEN "rename" ELSE "remove"
                   /\ todo' = Sources
                   /\ open' = FALSE
              ELSE pc' = "write" /\ UNCHANGED <<todo, open>>
           /\ UNCHANGED <<backups, files, written, restarts, failures>>

\* A rename replaces what has the new name.
Rename == /\ pc = "rename"
          /\ pc' = IF Len(todo) = 1 THEN "reopen" ELSE "rename"
          /\ todo' = Tail(todo)
          /\ LET i == Head(todo)
             IN  Attempt(/\ files' = IF files[i] = <<>> THEN files
                                     ELSE [files EXCEPT ![i + 1] = files[i], ![i] = <<>>]
                         /\ UNCHANGED open)
          /\ UNCHANGED <<backups, checkTick, written, restarts>>

\* Without backups the file is removed.
Discard == /\ pc = "remove"
           /\ pc' = "reopen"
           /\ Attempt(files' = [files EXCEPT ![0] = <<>>] /\ UNCHANGED open)
           /\ UNCHANGED <<backups, checkTick, todo, written, restarts>>

Reopen == /\ pc = "reopen"
          /\ pc' = "write"
          /\ Attempt(open' = TRUE /\ UNCHANGED files)
          /\ UNCHANGED <<backups, checkTick, todo, written, restarts>>

\* The line is appended, or lost if the file is closed.
WriteLine == /\ pc = "write"
             /\ pc' = "idle"
             /\ IF open
                THEN Attempt(/\ files' = [files EXCEPT ![0] = Append(@, written + 1)]
                             /\ UNCHANGED open)
                ELSE UNCHANGED <<files, open, failures>>
             /\ written' = IF files' # files THEN written + 1 ELSE written
             /\ UNCHANGED <<backups, checkTick, todo, restarts>>

\* The process dies anywhere; the next one opens the file to append to it
\* (initLogger), or does without it.
Restart == /\ restarts < MaxRestarts
           /\ restarts' = restarts + 1
           /\ pc' = "idle"
           /\ todo' = <<>>
           /\ checkTick' = 0
           /\ \/ open' = TRUE /\ UNCHANGED failures
              \/ /\ failures < MaxFailures
                 /\ failures' = failures + 1
                 /\ open' = FALSE
           /\ UNCHANGED <<backups, files, written>>

Next == Write \/ Rename \/ Discard \/ Reopen \/ WriteLine \/ Restart

Spec == Init /\ [][Next]_vars

-----------------------------------------------------------------------------
(* Properties *)

\* All lines there are, the oldest first.
Log == FlattenSeq([i \in 1..(backups + 1) |-> files[backups + 1 - i]])

\* The log is always in order, whichever operations failed.  Unless one did, it
\* is the last lines written, all of them, and older lines are gone only when
\* the backups are full.  A process that dies within a rotation leaves a gap
\* in the numbers, and the next rotation may drop the oldest backup although
\* the gap would have made room for it: each restart costs one backup at most,
\* and the last two of them are never lost that way.
Kept ==
    /\ \A i, j \in DOMAIN Log : i < j => Log[i] < Log[j]
    /\ failures = 0 =>
         /\ Log = [i \in DOMAIN Log |-> written - Len(Log) + i]
         /\ written > Len(Log) =>
              Len(Log) >= MaxSize * Max({backups - restarts, Min({backups, 2})})

\* The file exceeds its limit by less than what is written between two looks
\* at its size, and a restart postpones the next look: a process that is
\* restarted before every look never rotates.
Bounded ==
    failures = 0 => Len(files[0]) < MaxSize + CheckEvery + restarts * (CheckEvery - 1)
=============================================================================
