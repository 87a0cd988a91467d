-------------------------------- MODULE EventLog --------------------------------
(***************************************************************************)
(* The event logs of a project's runs as files (src/host/fs-store.ts): one *)
(* JSON line per event, appended by processes that may die in the middle   *)
(* of a line, and read again as a whole by every command.                  *)
(*                                                                         *)
(* Of a line only matters whether it parses, and to which event.  A line   *)
(* that was cut short does not parse unless just its newline is missing,   *)
(* and neither do two lines in one.  An append that fails writes nothing   *)
(* (see ActiveRun for what follows from its failure).                      *)
(***************************************************************************)
EXTENDS Integers, Sequences, SequencesExt

CONSTANTS
    Runs,           \* the runs whose logs are in the directory
    Procs,          \* processes, one of which is started when another dies
    MaxEvents,      \* bound: events accepted
    MaxDeaths       \* bound: processes that die

VARIABLES
    file,           \* the log of each run: its lines, and what follows the last newline
    queue,          \* the events each process has accepted and not yet appended (fileTails)
    at,             \* the run the command of each process works on
    events,         \* bound: events accepted; they are numbered
    deaths,         \* bound
    written,        \* history: the events whose lines were begun, by run
    acknowledged    \* history: the events whose appends were reported done

history == <<written, acknowledged>>
vars == <<file, queue, at, events, deaths, history>>

Bad == 0        \* a line that does not parse
Nothing == -1   \* a log that ends with a newline, or is not there
NoRun == "none"

Event == Nat \ {0}

NoLog == [lines |-> <<>>, tail |-> Nothing]

\* Text is added at the end, after whatever an unfinished line left there.
Joined(log, text) == IF log.tail = Nothing THEN text ELSE Bad
WholeLine(log, e) == [lines |-> Append(log.lines, Joined(log, e)), tail |-> Nothing]
CutLines(log, e) == {[log EXCEPT !.tail = Joined(log, text)] : text \in {Bad, e}}

Lines(log) == IF log.tail = Nothing THEN log.lines ELSE Append(log.lines, log.tail)

\* A line that does not parse is dropped at the end and an error anywhere else.
EndsBadly(lines) == lines # <<>> /\ lines[Len(lines)] = Bad
readable(log) == \A i \in DOMAIN Lines(log) : Lines(log)[i] = Bad => i = Len(Lines(log))
readEvents(log) == IF EndsBadly(Lines(log)) THEN Front(Lines(log)) ELSE Lines(log)

\* list() reads every log in the directory: it fails when one of them cannot be read.
Listable == \A r \in Runs : readable(file[r])

Init ==
    /\ file = [r \in Runs |-> NoLog]
    /\ queue = [p \in Procs |-> <<>>] /\ at = [p \in Procs |-> NoRun]
    /\ events = 0 /\ deaths = 0
    /\ written = [r \in Runs |-> <<>>] /\ acknowledged = [r \in Runs |-> {}]

\* A command names a run: a new one, or one that resolveRunRef finds in the list.
Command(p, r) ==
    /\ at[p] = NoRun
    /\ file[r] = NoLog \/ Listable
    /\ at' = [at EXCEPT ![p] = r]
    /\ UNCHANGED <<file, queue, events, deaths, history>>

appendEvent(p) ==
    /\ at[p] # NoRun /\ events < MaxEvents
    /\ events' = events + 1
    /\ queue' = [queue EXCEPT ![p] = Append(@, events + 1)]
    /\ UNCHANGED <<file, at, deaths, history>>

\* The append at the head of the process's queue for the file.
Appended(p) ==
    /\ queue[p] # <<>>
    /\ LET r == at[p]
           e == Head(queue[p]) IN
       /\ file' = [file EXCEPT ![r] = WholeLine(@, e)]
       /\ written' = [written EXCEPT ![r] = Append(@, e)]
       /\ acknowledged' = [acknowledged EXCEPT ![r] = @ \cup {e}]
    /\ queue' = [queue EXCEPT ![p] = Tail(@)]
    /\ UNCHANGED <<at, events, deaths>>

\* The command is done when its appends are.
Returns(p) ==
    /\ at[p] # NoRun /\ queue[p] = <<>>
    /\ at' = [at EXCEPT ![p] = NoRun]
    /\ UNCHANGED <<file, queue, events, deaths, history>>

\* A process dies, before, during or after the write of the append at the head; nobody is told.
Dies(p) ==
    /\ at[p] # NoRun /\ deaths < MaxDeaths
    /\ \/ UNCHANGED <<file, written>>
       \/ /\ queue[p] # <<>>
          /\ LET r == at[p]
                 e == Head(queue[p]) IN
             /\ \E log \in CutLines(file[r], e) \cup {WholeLine(file[r], e)} :
                    file' = [file EXCEPT ![r] = log]
             /\ written' = [written EXCEPT ![r] = Append(@, e)]
    /\ at' = [at EXCEPT ![p] = NoRun]
    /\ queue' = [queue EXCEPT ![p] = <<>>]
    /\ deaths' = deaths + 1
    /\ UNCHANGED <<events, acknowledged>>

Next == \E p \in Procs :
    \/ \E r \in Runs : Command(p, r)
    \/ appendEvent(p) \/ Appended(p) \/ Returns(p) \/ Dies(p)

Spec == Init /\ [][Next]_vars

(***************************************************************************)
(* Properties.                                                             *)
(***************************************************************************)
\* Type correctness; an append is queued for the run of its process's command.
TypeOK ==
    /\ file \in [Runs -> [lines : Seq(Event \cup {Bad}), tail : Event \cup {Bad, Nothing}]]
    /\ queue \in [Procs -> Seq(Event)]
    /\ at \in [Procs -> Runs \cup {NoRun}] /\ \A p \in Procs : queue[p] # <<>> => at[p] \in Runs
    /\ events \in Nat /\ deaths \in Nat
    /\ written \in [Runs -> Seq(Event)]
    /\ acknowledged \in [Runs -> SUBSET Event]

\* History is never rewritten (readEvents, fs-store.ts:84-90): whatever dies in whatever append,
\* a log that can be read at all reads as the beginning of what was written to it, with no event
\* missing before one that is there.
HistoryIsNotRewritten == \A r \in Runs : readable(file[r]) =>
    LET read == readEvents(file[r]) IN
    Len(read) <= Len(written[r]) /\ \A i \in 1..Len(read) : read[i] = written[r][i]

\* What was reported as appended is read by every later command (README.md:16).  The code breaks
\* it: the next append continues a line that was cut short, and is dropped with it, or makes the
\* log unreadable once another follows.
AcknowledgedIsRead == \A r \in Runs : \A e \in acknowledged[r] :
    readable(file[r]) /\ \E i \in DOMAIN readEvents(file[r]) : readEvents(file[r])[i] = e
=============================================================================
