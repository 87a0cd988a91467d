----------------------------- MODULE EventLogProofs -----------------------------
(***************************************************************************)
(* That a run's history is never rewritten, for any runs, processes and    *)
(* number of deaths.  HistoryIsNotRewritten is not inductive: of a log     *)
(* that cannot be read it says nothing, and a log that ends badly may have *)
(* lost more than its last event.  Faithful says it line by line: up to    *)
(* the first line that does not parse, a line is the event written in its  *)
(* place, and without such a line nothing is lost.                         *)
(***************************************************************************)
EXTENDS EventLog, SequenceTheorems, TLAPS

Log == [lines : Seq(Event \cup {Bad}), tail : Event \cup {Bad, Nothing}]

Parse(lines, i) == \A j \in 1..i : lines[j] # Bad

Faithful(log, w) ==
    LET lines == Lines(log) IN
    /\ Len(lines) <= Len(w)
    /\ \A i \in 1..Len(lines) : Parse(lines, i) => lines[i] = w[i]
    /\ Parse(lines, Len(lines)) => Len(lines) = Len(w)

IInv == TypeOK /\ \A r \in Runs : Faithful(file[r], written[r])

\* A write leaves a log of whole lines and a tail (appendEvent).
LEMMA WriteType ==
    ASSUME NEW log \in Log, NEW e \in Event, NEW new \in CutLines(log, e) \cup {WholeLine(log, e)}
    PROVE  new \in Log
<1>1. log.lines \in Seq(Event \cup {Bad}) /\ log.tail \in Event \cup {Bad, Nothing}
    BY DEF Log
<1>2. \A text \in {Bad, e} : Joined(log, text) \in Event \cup {Bad}
    BY DEF Joined
<1>3. CASE new = WholeLine(log, e)
    <2>1. Append(log.lines, Joined(log, e)) \in Seq(Event \cup {Bad})
        BY <1>1, <1>2
    <2> QED BY <1>3, <2>1 DEF WholeLine, Log
<1>4. CASE new \in CutLines(log, e)
    <2>1. PICK text \in {Bad, e} : new = [log EXCEPT !.tail = Joined(log, text)]
        BY <1>4 DEF CutLines
    <2> QED BY <1>2, <2>1 DEF Log
<1> QED BY <1>3, <1>4

\* Whole or cut short, a write turns the unfinished line, or a new one, into its event or into
\* one that does not parse.
LEMMA WriteLines ==
    ASSUME NEW log \in Log, NEW e \in Event, NEW new \in CutLines(log, e) \cup {WholeLine(log, e)}
    PROVE  \E text \in {Bad, e} : Lines(new) = Append(log.lines, Joined(log, text))
<1>1. CASE new = WholeLine(log, e)
    BY <1>1 DEF WholeLine, Lines
<1>2. CASE new \in CutLines(log, e)
    <2>1. PICK text \in {Bad, e} : new = [log EXCEPT !.tail = Joined(log, text)]
        BY <1>2 DEF CutLines
    <2>2. new.lines = log.lines /\ new.tail = Joined(log, text)
        BY <2>1 DEF Log
    <2>3. Joined(log, text) # Nothing
        BY DEF Joined, Bad, Nothing, Event
    <2> QED BY <2>2, <2>3 DEF Lines
<1> QED BY <1>1, <1>2

\* What is written keeps a log faithful.
LEMMA WriteIsFaithful ==
    ASSUME NEW log \in Log, NEW e \in Event, NEW w \in Seq(Event), Faithful(log, w),
           NEW new \in CutLines(log, e) \cup {WholeLine(log, e)}
    PROVE  Faithful(new, Append(w, e))
<1> DEFINE old == Lines(log)
           now == Lines(new)
<1>1. PICK text \in {Bad, e} : now = Append(log.lines, Joined(log, text))
    BY WriteLines
<1>2. /\ Len(old) <= Len(w)
      /\ \A i \in 1..Len(old) : Parse(old, i) => old[i] = w[i]
      /\ Parse(old, Len(old)) => Len(old) = Len(w)
    BY DEF Faithful
<1>3. log.lines \in Seq(Event \cup {Bad}) /\ log.tail \in Event \cup {Bad, Nothing}
    BY DEF Log
<1>4. CASE log.tail = Nothing
    <2>1. old = log.lines /\ now = Append(old, text)
        BY <1>1, <1>4 DEF Lines, Joined
    <2>2. Len(now) = Len(old) + 1 /\ now[Len(now)] = text /\ \A i \in 1..Len(old) : now[i] = old[i]
        BY <1>3, <2>1
    <2>3. \A i \in 1..Len(old) : Parse(now, i) => Parse(old, i)
        BY <1>3, <2>1, <2>2 DEF Parse
    <2>4. Parse(now, Len(now)) => Parse(old, Len(old)) /\ text = e
        <3> SUFFICES ASSUME Parse(now, Len(now)) PROVE Parse(old, Len(old)) /\ text = e
            OBVIOUS
        <3>1. \A j \in 1..Len(now) : now[j] # Bad
            BY DEF Parse
        <3>2. Len(old) \in Nat
            BY <1>3, <2>1
        <3>3. text # Bad
            BY <2>2, <3>1, <3>2
        <3> QED BY <2>2, <3>1, <3>2, <3>3 DEF Parse
    <2>5. Len(old) \in Nat /\ Len(w) \in Nat /\ Len(Append(w, e)) = Len(w) + 1
          /\ Append(w, e)[Len(w) + 1] = e /\ \A i \in 1..Len(w) : Append(w, e)[i] = w[i]
        BY <1>3, <2>1
    <2>6. Len(now) <= Len(Append(w, e))
        BY <1>2, <2>2, <2>5
    <2>7. ASSUME NEW i \in 1..Len(now), Parse(now, i) PROVE now[i] = Append(w, e)[i]
        <3>1. CASE i \in 1..Len(old)
            BY <1>2, <2>2, <2>3, <2>5, <2>7, <3>1
        <3>2. CASE i = Len(now)
            BY <1>2, <2>2, <2>4, <2>5, <2>7, <3>2
        <3>3. Len(now) = Len(old) + 1 /\ Len(old) \in Nat
            BY <2>2, <2>5
        <3> HIDE DEF old, now
        <3>4. i \in 1..Len(old) \/ i = Len(now)
            BY <3>3
        <3> QED BY <3>1, <3>2, <3>4
    <2>8. Parse(now, Len(now)) => Len(now) = Len(Append(w, e))
        BY <1>2, <2>2, <2>4, <2>5
    <2> QED BY <2>6, <2>7, <2>8 DEF Faithful
<1>5. CASE log.tail # Nothing
    <2>1. old = Append(log.lines, log.tail) /\ now = Append(log.lines, Bad)
        BY <1>1, <1>5 DEF Lines, Joined
    <2>2. /\ Len(log.lines) \in Nat /\ Len(now) = Len(log.lines) + 1 /\ Len(old) = Len(now)
          /\ now[Len(now)] = Bad
          /\ \A i \in 1..Len(log.lines) : now[i] = old[i]
        BY <1>3, <2>1
    <2>3. ~Parse(now, Len(now))
        BY <2>2 DEF Parse
    <2>4. Len(w) \in Nat /\ Len(Append(w, e)) = Len(w) + 1 /\ \A i \in 1..Len(w) : Append(w, e)[i] = w[i]
        OBVIOUS
    <2>5. ASSUME NEW i \in 1..Len(now), Parse(now, i) PROVE now[i] = Append(w, e)[i]
        <3>1. i # Len(now)
            BY <2>3, <2>5
        <3>2. i \in 1..Len(log.lines) /\ i \in 1..Len(old) /\ i \in 1..Len(w)
            BY <1>2, <2>2, <2>4, <3>1
        <3>3. Parse(old, i)
            BY <2>2, <2>5, <3>2 DEF Parse
        <3> QED BY <1>2, <2>2, <2>4, <3>2, <3>3
    <2> QED BY <1>2, <2>2, <2>3, <2>4, <2>5 DEF Faithful
<1> QED BY <1>4, <1>5

\* A faithful log that can be read reads as the beginning of what was written.
LEMMA FaithfulReads ==
    ASSUME NEW log \in Log, NEW w \in Seq(Event), Faithful(log, w), readable(log)
    PROVE  /\ Len(readEvents(log)) <= Len(w)
           /\ \A i \in 1..Len(readEvents(log)) : readEvents(log)[i] = w[i]
<1> DEFINE lines == Lines(log)
<1>1. lines \in Seq(Event \cup {Bad})
    BY DEF Log, Lines, Nothing
<1>2. /\ Len(lines) <= Len(w) /\ Len(lines) \in Nat /\ Len(w) \in Nat
      /\ \A i \in 1..Len(lines) : Parse(lines, i) => lines[i] = w[i]
    BY <1>1 DEF Faithful
<1>3. \A i \in 1..Len(lines) : lines[i] = Bad => i = Len(lines)
    BY <1>1 DEF readable
<1> HIDE DEF lines
<1>4. CASE EndsBadly(lines)
    <2>1. readEvents(log) = SubSeq(lines, 1, Len(lines) - 1)
        BY <1>4 DEF readEvents, Front, lines
    <2>2. Len(lines) >= 1
        BY <1>1, <1>4 DEF EndsBadly
    <2> DEFINE before == SubSeq(lines, 1, Len(lines) - 1)
    <2>3. Len(before) = Len(lines) - 1 /\ \A i \in 1..(Len(lines) - 1) : before[i] = lines[i]
        <3> DEFINE n == Len(lines) - 1
        <3>1. n \in 0..Len(lines) /\ \A i \in 1..n : lines[i] \in Event \cup {Bad}
            BY <1>1, <1>2, <2>2
        <3>2. /\ Len(SubSeq(lines, 1, n)) = IF 1 <= n THEN n - 1 + 1 ELSE 0
              /\ \A i \in 1..n - 1 + 1 : SubSeq(lines, 1, n)[i] = lines[1 + i - 1]
            BY <3>1, SubSeqProperties
        <3>3. Len(before) = IF 1 <= n THEN n - 1 + 1 ELSE 0
            BY <3>2
        <3>4. \A i \in 1..n - 1 + 1 : before[i] = lines[1 + i - 1]
            BY <3>2
        <3> HIDE DEF before
        <3>5. n \in Nat /\ n - 1 + 1 = n /\ \A i \in 1..n : 1 + i - 1 = i
            BY <1>2, <2>2
        <3> HIDE DEF n
        <3>6. Len(before) = n
            BY <3>3, <3>5
        <3>7. \A i \in 1..n : before[i] = lines[i]
            BY <3>4, <3>5
        <3> QED BY <3>6, <3>7 DEF n
    <2>4. \A i \in 1..(Len(lines) - 1) : Parse(lines, i)
        BY <1>2, <1>3 DEF Parse
    <2> HIDE DEF before
    <2>5. readEvents(log) = before
        BY <2>1 DEF before
    <2> QED BY <1>2, <2>3, <2>4, <2>5
<1>5. CASE ~EndsBadly(lines)
    <2>1. readEvents(log) = lines
        BY <1>5 DEF readEvents, lines
    <2>2. \A i \in 1..Len(lines) : lines[i] # Bad
        BY <1>1, <1>3, <1>5 DEF EndsBadly
    <2>3. \A i \in 1..Len(lines) : Parse(lines, i)
        BY <1>2, <2>2 DEF Parse
    <2> QED BY <1>2, <2>1, <2>3
<1> QED BY <1>4, <1>5

\* Nothing is written yet.
LEMMA InitInv == Init => IInv
<1> SUFFICES ASSUME Init PROVE IInv
    OBVIOUS
<1>1. TypeOK
    BY DEF Init, TypeOK, NoLog, Event, Bad, Nothing
<1>2. ASSUME NEW r \in Runs PROVE Faithful(file[r], written[r])
    <2>1. file[r].lines = <<>> /\ file[r].tail = Nothing /\ written[r] = <<>>
        BY DEF Init, NoLog
    <2> QED BY <2>1 DEF Faithful, Lines, Parse
<1> QED BY <1>1, <1>2 DEF IInv

\* An event written to one log, whole or cut short (Appended, Dies).
LEMMA WritesKeep ==
    ASSUME IInv, NEW r \in Runs, NEW e \in Event,
           NEW new \in CutLines(file[r], e) \cup {WholeLine(file[r], e)},
           file' = [file EXCEPT ![r] = new], written' = [written EXCEPT ![r] = Append(@, e)]
    PROVE  /\ file' \in [Runs -> Log] /\ written' \in [Runs -> Seq(Event)]
           /\ \A s \in Runs : Faithful(file'[s], written'[s])
<1>1. file \in [Runs -> Log] /\ written \in [Runs -> Seq(Event)]
      /\ \A s \in Runs : Faithful(file[s], written[s])
    BY DEF IInv, TypeOK, Log
<1>2. new \in Log
    BY <1>1, WriteType
<1>3. Faithful(new, Append(written[r], e))
    BY <1>1, WriteIsFaithful
<1>4. Append(written[r], e) \in Seq(Event)
    BY <1>1
<1> QED BY <1>1, <1>2, <1>3, <1>4

\* Every step keeps the invariant.
LEMMA NextInv == IInv /\ [Next]_vars => IInv'
<1> SUFFICES ASSUME IInv, [Next]_vars PROVE IInv'
    OBVIOUS
<1>t. /\ file \in [Runs -> Log] /\ queue \in [Procs -> Seq(Event)]
      /\ at \in [Procs -> Runs \cup {NoRun}] /\ \A p \in Procs : queue[p] # <<>> => at[p] \in Runs
      /\ events \in Nat /\ deaths \in Nat
      /\ written \in [Runs -> Seq(Event)] /\ acknowledged \in [Runs -> SUBSET Event]
      /\ \A r \in Runs : Faithful(file[r], written[r])
    BY DEF IInv, TypeOK, Log
<1> DEFINE FilesKept == /\ file' \in [Runs -> Log] /\ written' \in [Runs -> Seq(Event)]
                        /\ \A r \in Runs : Faithful(file'[r], written'[r])
           RestKept == /\ queue' \in [Procs -> Seq(Event)]
                       /\ at' \in [Procs -> Runs \cup {NoRun}]
                       /\ \A p \in Procs : queue'[p] # <<>> => at'[p] \in Runs
                       /\ events' \in Nat /\ deaths' \in Nat
                       /\ acknowledged' \in [Runs -> SUBSET Event]
<1> SUFFICES FilesKept /\ RestKept
    BY DEF IInv, TypeOK, Log
<1>0. UNCHANGED <<file, written>> => FilesKept
    BY <1>t
<1>1. CASE UNCHANGED vars
    BY <1>t, <1>0, <1>1 DEF vars, history
<1>2. ASSUME NEW p \in Procs, NEW r \in Runs, Command(p, r) PROVE FilesKept /\ RestKept
    <2>1. FilesKept
        BY <1>0, <1>2 DEF Command, history
    <2>2. RestKept
        BY <1>t, <1>2 DEF Command, history
    <2> QED BY <2>1, <2>2
<1>3. ASSUME NEW p \in Procs, appendEvent(p) PROVE FilesKept /\ RestKept
    <2>1. FilesKept
        BY <1>0, <1>3 DEF appendEvent, history
    <2>2. events + 1 \in Event /\ at[p] \in Runs
        BY <1>t, <1>3 DEF appendEvent, Event
    <2>3. Append(queue[p], events + 1) \in Seq(Event)
        BY <1>t, <2>2
    <2>4. RestKept
        BY <1>t, <1>3, <2>2, <2>3 DEF appendEvent, history
    <2> QED BY <2>1, <2>4
<1>4. ASSUME NEW p \in Procs, Appended(p) PROVE FilesKept /\ RestKept
    <2> DEFINE r == at[p]
               e == Head(queue[p])
    <2>1. r \in Runs /\ e \in Event /\ Tail(queue[p]) \in Seq(Event) /\ queue[p] # <<>>
        BY <1>t, <1>4 DEF Appended
    <2>2. /\ file' = [file EXCEPT ![r] = WholeLine(file[r], e)]
          /\ written' = [written EXCEPT ![r] = Append(@, e)]
          /\ acknowledged' = [acknowledged EXCEPT ![r] = @ \cup {e}]
          /\ queue' = [queue EXCEPT ![p] = Tail(@)] /\ UNCHANGED <<at, events, deaths>>
        BY <1>t, <1>4, <2>1 DEF Appended
    <2> HIDE DEF r, e
    <2>3. FilesKept
        BY <2>1, <2>2, WritesKeep
    <2>4. RestKept
        BY <1>t, <2>1, <2>2
    <2> QED BY <2>3, <2>4
<1>5. ASSUME NEW p \in Procs, Returns(p) PROVE FilesKept /\ RestKept
    <2>1. FilesKept
        BY <1>0, <1>5 DEF Returns, history
    <2>2. RestKept
        BY <1>t, <1>5 DEF Returns, history
    <2> QED BY <2>1, <2>2
<1>6. ASSUME NEW p \in Procs, Dies(p) PROVE FilesKept /\ RestKept
    <2>1. RestKept
        BY <1>t, <1>6 DEF Dies
    <2>2. CASE UNCHANGED <<file, written>>
        BY <1>0, <2>1, <2>2
    <2>3. CASE ~UNCHANGED <<file, written>>
        <3> DEFINE r == at[p]
                   e == Head(queue[p])
        <3>1. /\ queue[p] # <<>>
              /\ \E log \in CutLines(file[r], e) \cup {WholeLine(file[r], e)} :
                    file' = [file EXCEPT ![r] = log]
              /\ written' = [written EXCEPT ![r] = Append(@, e)]
            BY <1>6, <2>3 DEF Dies
        <3>2. r \in Runs /\ e \in Event
            BY <1>t, <3>1
        <3> HIDE DEF r, e
        <3>3. FilesKept
            BY <3>1, <3>2, WritesKeep
        <3> QED BY <2>1, <3>3
    <2> QED BY <2>2, <2>3
<1> QED BY <1>1, <1>2, <1>3, <1>4, <1>5, <1>6 DEF Next

\* Type correctness of every state of the log files.
THEOREM TypeCorrect == Spec => []TypeOK
<1>1. IInv => TypeOK
    BY DEF IInv
<1> QED BY InitInv, NextInv, <1>1, PTL DEF Spec

\* Whatever dies in whatever append, a log that can be read at all reads as the beginning of what
\* was written to it (readEvents, fs-store.ts:84-90).
THEOREM HistoryStands == Spec => []HistoryIsNotRewritten
<1>1. IInv => HistoryIsNotRewritten
    <2> SUFFICES ASSUME IInv, NEW r \in Runs, readable(file[r])
                 PROVE  LET read == readEvents(file[r]) IN
                        Len(read) <= Len(written[r]) /\ \A i \in 1..Len(read) : read[i] = written[r][i]
        BY DEF HistoryIsNotRewritten
    <2>1. file[r] \in Log /\ written[r] \in Seq(Event) /\ Faithful(file[r], written[r])
        BY DEF IInv, TypeOK, Log
    <2> QED BY <2>1, FaithfulReads
<1> QED BY InitInv, NextInv, <1>1, PTL DEF Spec
=============================================================================
