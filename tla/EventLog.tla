------------------------------ MODULE EventLog -------------------------------
(***************************************************************************)
(* Where a monitor records what it finds: the ring buffer of events and    *)
(* the JSONL file beside it.  addEvent pushes to the ring and then writes  *)
(* a line, and no lock covers both: the MultiMonitor ("multi",             *)
(* monitor/multi_monitor.go) reads m.logFile twice while Stop closes and   *)
(* clears it and Start opens another; the Monitor ("single",               *)
(* monitor/monitor.go with logger/jsonl.go) keeps one file, which Stop     *)
(* closes.  A line that finds no open file is dropped without a word, and  *)
(* so is one that cannot be encoded or that the file system refuses.       *)
(***************************************************************************)
EXTENDS RingBuffer

CONSTANTS Writers,  \* goroutines that call addEvent or writeLog
          Handles,  \* the values of type *os.File
          Nil

ASSUME NilIsNoHandle == Nil \notin Handles

VARIABLES
    kind,       \* "multi" or "single"
    running,    \* m.running
    logFile,    \* m.logFile, or the file of m.logger
    open,       \* the handles opened and not closed
    writer,     \* the stack frame of each call
    noFile      \* history: no file was asked for, or the last open failed

fileVars == <<kind, running, logFile, open, noFile>>
logVars == <<vars, fileVars, writer>>

\* throughout: the monitor ran, and had been given a file, during all of the
\* call so far.
Frame(pc, throughout) == [pc |-> pc, file |-> Nil, throughout |-> throughout]

\* The file is opened, or the open fails; it is an error for the constructors.
Opens == \E f \in Handles \ open :
             logFile' = f /\ open' = open \cup {f} /\ noFile' = FALSE

\* A Stop, or a Start without a file, is noticed by the calls under way.
Interrupted == [w \in Writers |-> [writer[w] EXCEPT !.throughout = FALSE]]

------------------------------------------------------------------------------
\* Faulty: a file that is open is opened again.
StartReopens ==
    /\ kind = "multi" /\ ~running
    /\ running' = TRUE
    /\ \/ Opens
       \/ logFile' = Nil /\ noFile' = TRUE /\ UNCHANGED open
    /\ UNCHANGED <<vars, kind, writer>>

\* MultiMonitor.Start(): an open that fails is ignored.
StartMulti ==
    /\ kind = "multi" /\ ~running
    /\ running' = TRUE
    /\ \/ logFile # Nil /\ UNCHANGED <<logFile, open, noFile>>
       \/ logFile = Nil /\ Opens
       \/ logFile = Nil /\ noFile' = TRUE /\ UNCHANGED <<logFile, open>>
    /\ UNCHANGED <<vars, kind, writer>>

\* Monitor.Start(); main calls it once, before Stop.
StartSingle ==
    /\ kind = "single" /\ ~running
    /\ noFile \/ logFile \in open
    /\ running' = TRUE
    /\ UNCHANGED <<vars, kind, logFile, open, noFile, writer>>

\* Faulty: the file is closed and m.logFile is not cleared.
StopKeepsHandle ==
    /\ kind = "multi" /\ running
    /\ running' = FALSE
    /\ open' = open \ {logFile}
    /\ writer' = Interrupted
    /\ UNCHANGED <<vars, kind, logFile, noFile>>

\* MultiMonitor.Stop()
StopMulti ==
    /\ kind = "multi" /\ running
    /\ running' = FALSE
    /\ open' = open \ {logFile}
    /\ logFile' = Nil
    /\ writer' = Interrupted
    /\ UNCHANGED <<vars, kind, noFile>>

\* Monitor.Stop(), with JSONLLogger.Close()
StopSingle ==
    /\ kind = "single" /\ running
    /\ running' = FALSE
    /\ open' = open \ {logFile}
    /\ writer' = Interrupted
    /\ UNCHANGED <<vars, kind, logFile, noFile>>

------------------------------------------------------------------------------
\* How a call ended: the line is in the file; it found no open file; or it was
\* not encoded, or the file system refused the write to the open file.
Ended == {"written", "dropped", "failed"}

Ready(w) == writer[w].pc \in {"idle"} \cup Ended
Goto(w, pc) == writer' = [writer EXCEPT ![w].pc = pc]
Begin(w) == writer' = [writer EXCEPT ![w] = Frame("test", running /\ ~noFile)]

AddEvent(w, item) ==
    /\ Ready(w)
    /\ Push(item)
    /\ Begin(w)
    /\ UNCHANGED fileVars

\* A sample is written to the file as well; its ring is another one.
WriteMetric(w) ==
    /\ Ready(w)
    /\ Begin(w)
    /\ UNCHANGED <<vars, fileVars>>

TestFile(w) ==
    /\ writer[w].pc = "test"
    /\ Goto(w, IF logFile = Nil THEN "dropped" ELSE "load")
    /\ UNCHANGED <<vars, fileVars>>

\* m.logFile is read again once the line is formatted.
LoadFile(w) ==
    /\ writer[w].pc = "load"
    /\ writer' = [writer EXCEPT ![w].pc = "write", ![w].file = logFile]
    /\ UNCHANGED <<vars, fileVars>>

\* Write fails on a file that was closed and on nil; on an open one it may
\* fail as well, as Marshal may.  Nobody looks at the errors.
WriteLine(w) ==
    /\ writer[w].pc = "write"
    /\ IF writer[w].file \in open
       THEN Goto(w, "written") \/ Goto(w, "failed")
       ELSE Goto(w, "dropped")
    /\ UNCHANGED <<vars, fileVars>>

------------------------------------------------------------------------------
\* NewMultiMonitor opens a file; New does when it is given a name.
LogInit ==
    /\ Init
    /\ kind \in {"multi", "single"}
    /\ running = FALSE
    /\ \/ \E f \in Handles : logFile = f /\ open = {f} /\ noFile = FALSE
       \/ kind = "single" /\ logFile = Nil /\ open = {} /\ noFile = TRUE
    /\ writer = [w \in Writers |-> Frame("idle", FALSE)]

WriterStep(w) ==
    \/ \E item \in Items : AddEvent(w, item)
    \/ WriteMetric(w) \/ TestFile(w) \/ LoadFile(w) \/ WriteLine(w)

LogNext ==
    \/ StartMulti \/ StartSingle \/ StopMulti \/ StopSingle
    \/ \E w \in Writers : WriterStep(w)

LogSpec == LogInit /\ [][LogNext]_logVars

------------------------------------------------------------------------------
\* Properties.

\* While the monitor runs with a file, every line gets as far as the write to
\* an open file: what makes one miss the file is a Stop during the call that
\* writes it, or a file that could not be opened; never a Stop and a Start that
\* came before.  (The write itself may fail for reasons of its own.)
DroppedOnlyAroundStop ==
    \A w \in Writers : writer[w].pc = "dropped" => ~writer[w].throughout

\* No handle leaks: of all the files that starts opened, at most the one in
\* m.logFile is still open, and none while a stopped monitor has none.
OneHandle == open \subseteq {logFile}

==============================================================================
