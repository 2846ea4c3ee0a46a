--------------------------------- MODULE GLog ---------------------------------
(***************************************************************************)
(* JMEngine::log::GLog, on its way to the log files.  Any thread appends   *)
(* its line to _waiting_list under _log_mutex.  The log thread is woken by *)
(* a timer: it swaps the two lists under the mutex, chooses a file by date *)
(* and size, writes the lines of its list without the mutex and arms the   *)
(* timer again.  The process may end at any time and start anew with the   *)
(* files it left behind; the file system may fail.                         *)
(*                                                                         *)
(* A line counts as one unit of a file's size.  The configuration is read  *)
(* before anything is logged.  The screen, which has the same mutex and    *)
(* its own level, is output only and is left out.                          *)
(***************************************************************************)
EXTENDS Integers, Sequences, FiniteSets, Functions

CONSTANTS
    Loggers,     \* threads that log
    Levels,      \* the levels they use
    FileLevel,   \* _file_level
    SplitSizes,  \* values of split_size in the configuration; 0: one file per day
    MaxLines,    \* bound of the model: lines of each logger
    MaxDay,      \* bound of the model: days
    MaxCrashes,  \* bound of the model: ends of the process
    MaxErrors    \* bound of the model: errors of the file system

ASSUME GLogAssumption ==
    /\ IsFiniteSet(Loggers)
    /\ Levels \subseteq 1 .. 8 /\ FileLevel \in 1 .. 8
    /\ SplitSizes \subseteq Nat
    /\ MaxLines \in Nat /\ MaxDay \in Nat \ {0} /\ MaxCrashes \in Nat /\ MaxErrors \in Nat

VARIABLES
    splitSize,   \* _split_size
    waiting,     \* *_waiting_list
    writing,     \* *_writing_list
    lastDay,     \* _last_time, which no constructor initialises
    splitIndex,  \* _split_index
    lastFile,    \* _last_log_file
    stream,      \* _log_stream: "closed", "good", or "bad" after a failed write
    runpc,       \* the log thread: waits for its "timer", or in run "file", "write"
    pc,          \* where each logger is: "idle" or "append"
    count,       \* lines each logger has logged or skipped
    today,       \* the local date
    files,       \* what each file holds
    accepted,    \* lines appended to _waiting_list, in that order
    lost,        \* lines that an end of the process or an error has lost
    crashes,     \* ends of the process so far
    errors       \* errors of the file system so far

listVars == <<waiting, writing>>
fileVars == <<lastDay, splitIndex, lastFile, stream>>
loggerVars == <<pc, count>>
boundVars == <<crashes, errors>>
vars == <<splitSize, listVars, fileVars, runpc, loggerVars, today, files, accepted, lost, boundVars>>

Days == 1 .. MaxDay
Lines == [by : Loggers, no : 1 .. MaxLines, day : Days]

\* A file is named by its day and its index, 0 when files are not split.
Indices == 0 .. Cardinality(Loggers) * MaxLines + 1
Names == Days \X Indices
NoFile == <<0, 0>>

\* _last_time is whatever the memory held: a date, even this one, or none.
Init ==
    /\ splitSize \in SplitSizes
    /\ waiting = <<>> /\ writing = <<>>
    /\ lastDay \in Days \cup {0}
    /\ splitIndex = 1 /\ lastFile = NoFile /\ stream = "closed"
    /\ runpc = "timer"
    /\ pc = [l \in Loggers |-> "idle"]
    /\ count = [l \in Loggers |-> 0]
    /\ today = 1
    /\ files = [f \in Names |-> <<>>]
    /\ accepted = <<>> /\ lost = {} /\ crashes = 0 /\ errors = 0

-----------------------------------------------------------------------------
(* Definitions named ..._Variant are plausible mistakes in the definition that *)
(* follows them.  Nothing uses them; each breaks a property that the          *)
(* definition itself keeps.                                                   *)

(* log, on any thread. *)

\* The level decides; the line is formatted outside the mutex.
Log(l) ==
    /\ pc[l] = "idle"
    /\ count[l] < MaxLines
    /\ count' = [count EXCEPT ![l] = @ + 1]
    /\ \E level \in Levels :
          pc' = IF FileLevel <= level THEN [pc EXCEPT ![l] = "append"] ELSE pc
    /\ UNCHANGED <<splitSize, listVars, fileVars, runpc, today, files, accepted, lost, boundVars>>

\* Under the mutex the line joins _waiting_list.
AppendLine(l) ==
    LET line == [by |-> l, no |-> count[l], day |-> today]
    IN  /\ pc[l] = "append"
        /\ pc' = [pc EXCEPT ![l] = "idle"]
        /\ waiting' = Append(waiting, line)
        /\ accepted' = Append(accepted, line)
        /\ UNCHANGED <<splitSize, writing, fileVars, runpc, count, today, files, lost, boundVars>>

-----------------------------------------------------------------------------
(* run, on the log thread. *)

\* The timer expired: under the mutex the lists are swapped.  With nothing to
\* write the timer is just armed again, which changes nothing here.
Run ==
    /\ runpc = "timer"
    /\ waiting # <<>>
    /\ runpc' = "file"
    /\ writing' = waiting
    /\ waiting' = writing
    /\ UNCHANGED <<splitSize, fileVars, loggerVars, today, files, accepted, lost, boundVars>>

\* checkAndUpdateLastCreateFileDate: a new day starts at index 1.
IndexToday == IF today # lastDay THEN 1 ELSE splitIndex

\* The first file from index i on that is not full, by its size on the disk.
FirstWithRoom(i) ==
    CHOOSE j \in Indices :
        /\ j >= i
        /\ Len(files[<<today, j>>]) < splitSize
        /\ \A k \in i .. j - 1 : Len(files[<<today, k>>]) >= splitSize

\* openOrCreateFile: another name closes the stream, and a closed stream is
\* opened, which may fail.  An open one is kept, good or bad.
OpenOrCreateFile(name) ==
    /\ lastFile' = name
    /\ \/ /\ name = lastFile /\ stream # "closed"
          /\ UNCHANGED <<stream, errors>>
       \/ /\ name # lastFile \/ stream = "closed"
          /\ \/ stream' = "good" /\ UNCHANGED errors
             \/ errors < MaxErrors /\ errors' = errors + 1 /\ stream' = "closed"

\* The date is compared and not stored.
CheckLogFile_Variant ==
    LET index == IF splitSize = 0 THEN IndexToday ELSE FirstWithRoom(IndexToday)
        day == IF lastDay = 0 THEN today ELSE lastDay
    IN  /\ runpc = "file"
        /\ runpc' = "write"
        /\ lastDay' = day
        /\ splitIndex' = index
        /\ OpenOrCreateFile(<<day, IF splitSize = 0 THEN 0 ELSE index>>)
        /\ UNCHANGED <<splitSize, listVars, loggerVars, today, files, accepted, lost, crashes>>

\* checkLogFile
CheckLogFile ==
    LET index == IF splitSize = 0 THEN IndexToday ELSE FirstWithRoom(IndexToday)
    IN  /\ runpc = "file"
        /\ runpc' = "write"
        /\ lastDay' = today
        /\ splitIndex' = index
        /\ OpenOrCreateFile(<<today, IF splitSize = 0 THEN 0 ELSE index>>)
        /\ UNCHANGED <<splitSize, listVars, loggerVars, today, files, accepted, lost, crashes>>

\* The first n lines of the list reach the file, the others are lost.
Store(n) ==
    /\ files' = IF n = 0 THEN files
                ELSE [files EXCEPT ![lastFile] = @ \o SubSeq(writing, 1, n)]
    /\ lost' = lost \cup {writing[i] : i \in n + 1 .. Len(writing)}

\* The list is not cleared.
EndRun_Variant == runpc' = "timer" /\ UNCHANGED listVars

\* The timer is not armed again.
EndRun_Timer_Variant == runpc' = "off" /\ writing' = <<>> /\ UNCHANGED waiting

\* The end of run: the list is cleared and the timer armed.
EndRun == runpc' = "timer" /\ writing' = <<>> /\ UNCHANGED waiting

\* The lines are written and flushed.  An error stays with the stream, which
\* then takes nothing more; a line of which only a part was written counts as
\* lost, and the part is not kept.
WriteLines ==
    /\ runpc = "write"
    /\ \/ stream = "good" /\ Store(Len(writing)) /\ UNCHANGED <<stream, errors>>
       \/ /\ stream = "good" /\ errors < MaxErrors
          /\ \E n \in 0 .. Len(writing) - 1 : Store(n)
          /\ stream' = "bad"
          /\ errors' = errors + 1
       \/ stream # "good" /\ Store(0) /\ UNCHANGED <<stream, errors>>
    /\ EndRun
    /\ UNCHANGED <<splitSize, lastDay, splitIndex, lastFile, loggerVars, today, accepted, crashes>>

LogThread == Run \/ CheckLogFile \/ WriteLines

-----------------------------------------------------------------------------
(* The world. *)

Midnight ==
    /\ today < MaxDay
    /\ today' = today + 1
    /\ UNCHANGED <<splitSize, listVars, fileVars, runpc, loggerVars, files, accepted, lost, boundVars>>

\* The process ends, nobody flushes the lists, and a new one is constructed.  In
\* the middle of writing, some of the lines have reached the file.
Restart ==
    /\ crashes < MaxCrashes
    /\ crashes' = crashes + 1
    /\ \E n \in 0 .. IF runpc = "write" /\ stream = "good" THEN Len(writing) ELSE 0 :
          /\ files' = IF n = 0 THEN files
                      ELSE [files EXCEPT ![lastFile] = @ \o SubSeq(writing, 1, n)]
          /\ lost' = lost \cup {writing[i] : i \in n + 1 .. Len(writing)} \cup Range(waiting)
    /\ waiting' = <<>> /\ writing' = <<>>
    /\ lastDay' \in Days \cup {0}
    /\ splitIndex' = 1 /\ lastFile' = NoFile /\ stream' = "closed"
    /\ runpc' = "timer"
    /\ pc' = [l \in Loggers |-> "idle"]
    /\ UNCHANGED <<splitSize, count, today, accepted, errors>>

Next ==
    \/ \E l \in Loggers : Log(l) \/ AppendLine(l)
    \/ LogThread \/ Midnight \/ Restart

Spec == Init /\ [][Next]_vars

\* The log thread runs whenever its timer expires; nobody needs to log.
FairSpec == Spec /\ WF_vars(LogThread)

-----------------------------------------------------------------------------
\* The types of the variables.
TypeOK ==
    /\ splitSize \in SplitSizes
    /\ waiting \in Seq(Lines) /\ writing \in Seq(Lines) /\ accepted \in Seq(Lines)
    /\ lastDay \in Days \cup {0} /\ today \in Days
    /\ splitIndex \in Indices
    /\ lastFile \in Names \cup {NoFile}
    /\ stream \in {"closed", "good", "bad"}
    /\ runpc \in {"timer", "file", "write"}
    /\ pc \in [Loggers -> {"idle", "append"}] /\ count \in [Loggers -> 0 .. MaxLines]
    /\ files \in [Names -> Seq(Lines)]
    /\ lost \subseteq Lines
    /\ crashes \in 0 .. MaxCrashes /\ errors \in 0 .. MaxErrors

\* The files, in the order of their names, and behind them the two lists: where
\* a line can be.
Writing == <<MaxDay + 1, 0>>
Waiting == <<MaxDay + 2, 0>>
Pages == Names \cup {Writing, Waiting}
Page(p) == CASE p = Writing -> writing [] p = Waiting -> waiting [] OTHER -> files[p]

Before(p, i, q, j) ==
    \/ p[1] < q[1]
    \/ p[1] = q[1] /\ p[2] < q[2]
    \/ p = q /\ i < j

\* Every line that log accepted is there, unless it was lost.
Complete ==
    \A a \in 1 .. Len(accepted) :
        accepted[a] \in lost \/ \E p \in Pages : \E i \in 1 .. Len(Page(p)) : Page(p)[i] = accepted[a]

\* What is there was accepted, and was not lost.
Sound ==
    \A p \in Pages : \A i \in 1 .. Len(Page(p)) :
        Page(p)[i] \notin lost /\ \E a \in 1 .. Len(accepted) : accepted[a] = Page(p)[i]

\* It is there once, in the order in which it was accepted.
InOrder ==
    \A p, q \in Pages : \A i \in 1 .. Len(Page(p)), j \in 1 .. Len(Page(q)) :
        Before(p, i, q, j) =>
            \E a, b \in 1 .. Len(accepted) :
                a < b /\ accepted[a] = Page(p)[i] /\ accepted[b] = Page(q)[j]

\* Read in the order of their names, the files, then the two lists, hold every
\* line that log accepted, once and in the order in which the threads got the
\* mutex, except those an error or an end of the process has lost: swapping,
\* splitting, midnight and restarts lose, repeat and reorder nothing.
LogIntegrity == Complete /\ Sound /\ InOrder

\* Each line is in the right file: a file of a split log is begun only when the
\* one before it is full, on every day and after every restart, which starts
\* from index 1 again; and the file of a day holds no line of a later day.
FileLayout ==
    /\ splitSize > 0 =>
          \A d \in Days : \A i, j \in Indices :
              1 <= i /\ i < j /\ files[<<d, j>>] # <<>> => Len(files[<<d, i>>]) >= splitSize
    /\ \A f \in Names : \A i \in 1 .. Len(files[f]) : files[f][i].day <= f[1]

\* Every line in _waiting_list is in a file some day, unless it is lost.
EveryLineSettles ==
    \A l \in Loggers, n \in 1 .. MaxLines :
        LET isLine(x) == x.by = l /\ x.no = n
        IN  (\E i \in 1 .. Len(waiting) : isLine(waiting[i]))
                ~> ((\E x \in lost : isLine(x))
                      \/ \E f \in Names : \E i \in 1 .. Len(files[f]) : isLine(files[f][i]))
=============================================================================
