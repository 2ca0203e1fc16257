----------------------------- MODULE CliProofs -----------------------------
(***************************************************************************)
(* For any number of processes, settings, environments and edits: what     *)
(* makes audiofs.yaml unreadable is two stores at once or a full disk, and *)
(* what a start reads is the last store or edit.  A process that is        *)
(* killed, however often and wherever, costs settings their value but for  *)
(* the default, and never the file.  For any directory and any answers of  *)
(* the helper: what `analyze' prints belongs to the file that it prints it *)
(* for, no file is missing, what is written and read back on the way is    *)
(* what it was, for every time base and every compression, and each step   *)
(* of the command brings its end nearer.                                   *)
(***************************************************************************)
EXTENDS Cli, SequenceTheorems, WellFoundedInduction, TLAPS

ProcPoints == {"off", "panicked", "read", "truncated", "running"}

AtType == at \in [Procs -> ProcPoints]

\* What PanicHasCause names.
Excused == events \cap {"overlap", "nospace"} # {}

\* Two processes between their start and the end of their store are on record.
OverlapSeen ==
  \A p, q \in Procs : p # q /\ Storing(p) /\ Storing(q) => "overlap" \in events

\* A file that was truncated is still empty when it is written, or else ...
EmptyUntilWritten ==
  \A p \in Procs : at[p] = "truncated" => file = Document(Nothing) \/ Excused

TornHasCause == file.is = "torn" => Excused

\* The file's part of the invariant.
FileInv == EmptyUntilWritten /\ TornHasCause /\ PanicHasCause

IInv == AtType /\ OverlapSeen /\ FileInv

-----------------------------------------------------------------------------
\* What a file can be told apart by.
LEMMA FileKinds ==
  ASSUME NEW s
  PROVE  Document(s).is = "document" /\ Torn.is = "torn" /\ Missing.is = "missing"
  BY DEF Document, Torn, Missing

\* No step takes anything off the record.
LEMMA EventsGrow ==
  ASSUME NEW p \in Procs, Start(p) \/ Store(p) \/ Exit(p) \/ Crash(p)
  PROVE  events \subseteq events'
  BY DEF Start, Store, Open, Write, WriteFails, Exit, Crash

LEMMA ExcusedStays ==
  ASSUME events \subseteq events', Excused
  PROVE  Excused'
  BY DEF Excused

LEMMA IInvInit == Init => IInv
  <1> SUFFICES ASSUME Init PROVE IInv
    OBVIOUS
  <1>1. at = [p \in Procs |-> "off"]
    BY DEF Init, ConfigInit
  <1>2. file \in {Missing} \cup {Document(e) : e \in Edits}
    BY DEF Init, ConfigInit
  <1>3. file.is # "torn"
    BY <1>2, FileKinds
  <1> QED
    BY <1>1, <1>3 DEF IInv, AtType, ProcPoints, OverlapSeen, FileInv, Storing,
                      EmptyUntilWritten, TornHasCause, PanicHasCause

\* A start puts an overlap on record, and panics over a torn file alone.
LEMMA StartKeeps ==
  ASSUME IInv, NEW p \in Procs, Start(p)
  PROVE  IInv'
  <1>1. /\ at' = [at EXCEPT ![p] = "read"] \/ at' = [at EXCEPT ![p] = "panicked"]
        /\ file' = file
        /\ events' = events \cup Overlaps(p)
    BY DEF Start
  <1>2. \A q \in Procs \ {p} : at'[q] = at[q]
    BY <1>1 DEF IInv, AtType
  <1>3. \A q \in Procs \ {p} : Storing(q) => "overlap" \in events'
    BY <1>1 DEF Overlaps
  <1>4. AtType' /\ at'[p] # "truncated"
    BY <1>1 DEF IInv, AtType, ProcPoints
  <1>5. OverlapSeen'
    <2> SUFFICES ASSUME NEW q \in Procs, NEW r \in Procs, q # r, Storing(q)', Storing(r)'
                 PROVE  "overlap" \in events'
      BY DEF OverlapSeen
    <2>1. CASE q = p
      BY <2>1, <1>2, <1>3 DEF Storing
    <2>2. CASE q # p
      BY <2>2, <1>2, <1>3 DEF Storing
    <2> QED BY <2>1, <2>2
  <1>6. Excused => Excused'
    BY EventsGrow, ExcusedStays
  <1>7. EmptyUntilWritten' /\ TornHasCause'
    BY <1>1, <1>2, <1>4, <1>6 DEF IInv, FileInv, EmptyUntilWritten, TornHasCause
  <1>8. PanicHasCause'
    <2>1. at'[p] = "panicked" => file.is = "torn"
      BY DEF Start, IInv, AtType
    <2>2. (\E q \in Procs : at'[q] = "panicked") => Excused
      BY <2>1, <1>2 DEF IInv, FileInv, TornHasCause, PanicHasCause, Excused
    <2> QED BY <2>2, <1>6 DEF PanicHasCause, Excused
  <1> QED BY <1>4, <1>5, <1>7, <1>8 DEF IInv, FileInv

\* A process that moves within its store, or out of it, overlaps with none that it
\* did not overlap with before.
LEMMA OverlapKept ==
  ASSUME IInv, NEW p \in Procs, NEW to \in ProcPoints \ {"panicked"},
         at' = [at EXCEPT ![p] = to],
         to \in {"read", "truncated"} => Storing(p),
         events \subseteq events'
  PROVE  AtType' /\ OverlapSeen' /\ (\A q \in Procs \ {p} : at'[q] = at[q]) /\ at'[p] = to
  BY DEF IInv, AtType, OverlapSeen, Storing, ProcPoints

\* The others in the middle of a store are an excuse.
LEMMA OthersExcuse ==
  ASSUME IInv, NEW p \in Procs, Storing(p), NEW q \in Procs \ {p}, Storing(q)
  PROVE  Excused
  BY DEF IInv, OverlapSeen, Excused

LEMMA StoreKeeps ==
  ASSUME IInv, NEW p \in Procs, Store(p)
  PROVE  IInv'
  <1>0. events \subseteq events' /\ (Excused => Excused')
    BY EventsGrow, ExcusedStays
  <1>1. ASSUME Open(p) PROVE IInv'
    <2>1. CASE at' = [at EXCEPT ![p] = "truncated"] /\ file' = Document(Nothing)
      <3>1. Storing(p)
        BY <1>1 DEF Open, Storing
      <3>2. AtType' /\ OverlapSeen' /\ (\A q \in Procs \ {p} : at'[q] = at[q]) /\ at'[p] = "truncated"
        BY <2>1, <1>0, <3>1, OverlapKept DEF ProcPoints
      <3>3. file' = Document(Nothing)'
        BY <2>1 DEF Document, Nothing
      <3>4. EmptyUntilWritten' /\ TornHasCause'
        BY <2>1, <3>3, FileKinds DEF EmptyUntilWritten, TornHasCause
      <3>5. PanicHasCause'
        BY <3>2, <1>0 DEF IInv, FileInv, PanicHasCause, Excused
      <3> QED BY <3>2, <3>4, <3>5 DEF IInv, FileInv
    <2>2. CASE at' = [at EXCEPT ![p] = "running"] /\ file' = file
      <3>1. AtType' /\ OverlapSeen' /\ (\A q \in Procs \ {p} : at'[q] = at[q]) /\ at'[p] = "running"
        BY <2>2, <1>0, OverlapKept DEF ProcPoints
      <3> QED
        BY <3>1, <2>2, <1>0 DEF IInv, FileInv, EmptyUntilWritten, TornHasCause,
                                PanicHasCause, Excused, Document, Nothing
    <2> QED BY <1>1, <2>1, <2>2 DEF Open
  <1>2. ASSUME Write(p) \/ WriteFails(p) PROVE IInv'
    <2>1. at[p] = "truncated" /\ at' = [at EXCEPT ![p] = "running"]
      BY <1>2 DEF Write, WriteFails
    <2>2. AtType' /\ OverlapSeen' /\ (\A q \in Procs \ {p} : at'[q] = at[q]) /\ at'[p] = "running"
      BY <2>1, <1>0, OverlapKept DEF ProcPoints
    <2>3. file'.is = "torn" => Excused'
      <3>1. ASSUME Write(p), file'.is = "torn" PROVE Excused
        <4>1. file # Document(Nothing)
          BY <3>1, FileKinds DEF Write
        <4> QED BY <4>1, <2>1 DEF IInv, FileInv, EmptyUntilWritten
      <3>2. ASSUME WriteFails(p) PROVE Excused'
        BY <3>2 DEF WriteFails, Excused
      <3> QED BY <1>2, <3>1, <3>2, <1>0
    <2>4. \A q \in Procs : at'[q] = "truncated" => Excused'
      BY <2>1, <2>2, <1>0, OthersExcuse DEF Storing
    <2>5. PanicHasCause'
      BY <2>2, <1>0 DEF IInv, FileInv, PanicHasCause, Excused
    <2> QED BY <2>2, <2>3, <2>4, <2>5
            DEF IInv, FileInv, EmptyUntilWritten, TornHasCause
  <1> QED BY <1>1, <1>2 DEF Store

\* To end, or to be killed, leaves the file as it is.
LEMMA OffKeeps ==
  ASSUME IInv, NEW p \in Procs, Exit(p) \/ Crash(p)
  PROVE  IInv'
  <1>1. events \subseteq events' /\ (Excused => Excused')
    BY EventsGrow, ExcusedStays
  <1>2. at' = [at EXCEPT ![p] = "off"] /\ file' = file
    BY DEF Exit, Crash, Off
  <1>3. AtType' /\ OverlapSeen' /\ (\A q \in Procs \ {p} : at'[q] = at[q]) /\ at'[p] = "off"
    BY <1>1, <1>2, OverlapKept DEF ProcPoints
  <1> QED
    BY <1>1, <1>2, <1>3 DEF IInv, FileInv, EmptyUntilWritten, TornHasCause,
                            PanicHasCause, Excused, Document, Nothing

LEMMA EditKeeps ==
  ASSUME IInv, NEW e \in Edits, Edit(e)
  PROVE  IInv'
  <1>1. at' = at /\ file' = Document(e) /\ events \subseteq events'
    BY DEF Edit
  <1>2. Excused => Excused'
    BY <1>1, ExcusedStays
  <1>3. \A p \in Procs : Storing(p) => Excused'
    BY DEF Edit, Excused
  <1>4. AtType' /\ OverlapSeen' /\ PanicHasCause'
    BY <1>1, <1>2 DEF IInv, AtType, OverlapSeen, Storing, FileInv, PanicHasCause, Excused
  <1>5. EmptyUntilWritten' /\ TornHasCause'
    BY <1>1, <1>3, FileKinds DEF EmptyUntilWritten, TornHasCause, Storing
  <1> QED BY <1>4, <1>5 DEF IInv, FileInv

\* Every step keeps the invariant: the walk of analyze touches none of this.
LEMMA IInvStep == IInv /\ [Next]_vars => IInv'
  <1> SUFFICES ASSUME IInv, [Next]_vars PROVE IInv'
    OBVIOUS
  <1>1. CASE UNCHANGED configVars
    BY <1>1 DEF configVars, IInv, AtType, OverlapSeen, Storing, FileInv, EmptyUntilWritten,
                TornHasCause, PanicHasCause, Excused, Document, Nothing
  <1>2. ASSUME NEW p \in Procs, Start(p) \/ Store(p) \/ Exit(p) \/ Crash(p) PROVE IInv'
    BY <1>2, StartKeeps, StoreKeeps, OffKeeps
  <1>3. ASSUME NEW e \in Edits, Edit(e) PROVE IInv'
    BY <1>3, EditKeeps
  <1> QED
    BY <1>1, <1>2, <1>3 DEF Next, Running, Ending, Analyzing, vars

\* A start that panics over audiofs.yaml has two stores at once or a full disk behind
\* it: not a crash, and not the number of starts.
THEOREM PanicIsExcused == Spec => []PanicHasCause
  <1>1. IInv => PanicHasCause
    BY DEF IInv, FileInv
  <1> QED BY <1>1, IInvInit, IInvStep, PTL DEF Spec

-----------------------------------------------------------------------------
\* What a setting may have become: what it ought to be, or lost to a crash.
Allowed(settings) == \A k \in Keys : settings[k] \in {ought[k], Unset, Default[k]}

\* Nothing has happened to the file that should not, but a crash.
Clean == events \subseteq {"crash"}

ConfType ==
  /\ file.has \in Partial /\ ought \in Partial
  /\ conf \in [Procs -> Partial] /\ env \in [Procs -> Partial]

\* Between stores the file is what it ought to be, within its limits after a crash,
\* and so is what a process has read that has not stored yet.
Read ==
  /\ Clean => Allowed(file.has)
  /\ Clean => \A p \in Procs : Storing(p) => Allowed(conf[p])
  /\ events = {} /\ (\A p \in Procs : at[p] # "truncated") => file.has = ought
  /\ events = {} => \A p \in Procs : Storing(p) => conf[p] = ought

ReadInv == IInv /\ ConfType /\ Read

LEMMA NothingIsPartial == Nothing \in Partial
  BY DEF Nothing, Partial

LEMMA FirstIsValue ==
  ASSUME NEW k \in Keys, NEW m \in Partial, NEW n \in Partial
  PROVE  First(k, <<m, n>>) \in Values[k]
  BY ConfigAssumption DEF First, Partial

\* Settings laid over one another are settings.
LEMMA OverlaidIsPartial ==
  ASSUME NEW m \in Partial, NEW n \in Partial
  PROVE  [k \in Keys |-> First(k, <<m, n>>)] \in Partial
  BY FirstIsValue DEF Partial

LEMMA HasField ==
  ASSUME NEW s
  PROVE  Document(s).has = s /\ Missing.has = Nothing /\ Torn.has = Nothing
  BY DEF Document, Missing, Torn

LEMMA CleanIsNotExcused == Clean => ~Excused
  BY DEF Clean, Excused

LEMMA ConfTypeInit == Init => ConfType
  <1> SUFFICES ASSUME Init PROVE ConfType
    OBVIOUS
  <1>1. file \in {Missing} \cup {Document(e) : e \in Edits}
    BY DEF Init, ConfigInit
  <1>2. file.has \in Partial
    BY <1>1, HasField, NothingIsPartial, ConfigAssumption
  <1> QED BY <1>2, NothingIsPartial DEF Init, ConfigInit, ConfType

LEMMA ConfTypeStep == ConfType /\ [Next]_vars => ConfType'
  <1> SUFFICES ASSUME ConfType, [Next]_vars PROVE ConfType'
    OBVIOUS
  <1> USE DEF ConfType
  <1>1. CASE UNCHANGED configVars
    BY <1>1 DEF configVars
  <1>2. ASSUME NEW p \in Procs, Start(p) PROVE ConfType'
    BY <1>2, ConfigAssumption DEF Start
  <1>3. ASSUME NEW p \in Procs, Open(p) PROVE ConfType'
    BY <1>3, HasField, NothingIsPartial DEF Open
  <1>4. ASSUME NEW p \in Procs, Write(p) \/ WriteFails(p) PROVE ConfType'
    <2>1. Stored(p) \in Partial /\ OughtAfter(p) \in Partial
      BY OverlaidIsPartial DEF Stored, OughtAfter, Effective
    <2>2. file'.has \in {Stored(p), Nothing}
      BY <1>4, HasField DEF Write, WriteFails
    <2> QED BY <1>4, <2>1, <2>2, NothingIsPartial DEF Write, WriteFails
  <1>5. ASSUME NEW p \in Procs, Exit(p) \/ Crash(p) PROVE ConfType'
    BY <1>5, NothingIsPartial DEF Exit, Crash, Off
  <1>6. ASSUME NEW e \in Edits, Edit(e) PROVE ConfType'
    BY <1>6, HasField, ConfigAssumption DEF Edit
  <1> QED
    BY <1>1, <1>2, <1>3, <1>4, <1>5, <1>6 DEF Next, Running, Ending, Analyzing, Store, vars

LEMMA ReadInit == Init => Read
  <1> SUFFICES ASSUME Init PROVE Read
    OBVIOUS
  <1>1. \A p \in Procs : ~Storing(p)
    BY DEF Init, ConfigInit, Storing
  <1> QED BY <1>1 DEF Init, ConfigInit, Read, Allowed

\* A start reads the file as it is, and is on record if a store was under way.
LEMMA StartReads ==
  ASSUME ReadInv, NEW p \in Procs, Start(p)
  PROVE  Read'
  <1>1. file' = file /\ ought' = ought /\ events' = events \cup Overlaps(p) /\ ~Storing(p)
    BY DEF Start, Storing
  <1>2. \A q \in Procs \ {p} : at'[q] = at[q] /\ conf'[q] = conf[q]
    BY DEF Start, ReadInv, IInv, AtType, ConfType
  <1>3. at'[p] \in {"read", "panicked"}
    BY DEF Start, ReadInv, IInv, AtType
  <1>4. Clean' => Clean /\ conf'[p] \in {file.has, conf[p]} /\ (at'[p] = "read" => conf'[p] = file.has)
    <2>1. Clean' => Clean /\ file.is # "torn"
      BY <1>1, CleanIsNotExcused DEF Clean, ReadInv, IInv, FileInv, TornHasCause
    <2> QED BY <2>1, <1>3 DEF Start, ReadInv, IInv, AtType, ConfType
  <1>5. events' = {} => events = {} /\ Clean' /\ \A q \in Procs : at[q] # "truncated"
    BY <1>1 DEF Overlaps, Storing, Clean
  <1>6. Clean' => Allowed(file.has)' /\ (at'[p] = "read" => Allowed(conf[p])')
    BY <1>1, <1>4 DEF ReadInv, Read, Allowed
  <1>7. ASSUME Clean', NEW q \in Procs, Storing(q)' PROVE Allowed(conf[q])'
    <2>1. CASE q = p
      BY <2>1, <1>3, <1>6, <1>7 DEF Storing
    <2>2. CASE q # p
      BY <2>2, <1>1, <1>2, <1>4, <1>7 DEF Storing, ReadInv, Read, Allowed
    <2> QED BY <2>1, <2>2
  <1>8. ASSUME events' = {} PROVE file'.has = ought' /\ \A q \in Procs : Storing(q)' => conf'[q] = ought'
    BY <1>8, <1>1, <1>2, <1>3, <1>4, <1>5 DEF Storing, ReadInv, Read
  <1> QED BY <1>6, <1>7, <1>8 DEF Read

\* A store that is alone leaves what it ought to.
LEMMA WriteReads ==
  ASSUME ReadInv, NEW p \in Procs, Write(p)
  PROVE  Read'
  <1>1. at[p] = "truncated" /\ events' = events /\ ought' = OughtAfter(p) /\ conf' = conf
    BY DEF Write
  <1>2. \A q \in Procs : Storing(q)' => q # p /\ Storing(q)
    BY DEF Write, Storing, ReadInv, IInv, AtType
  <1>3. Clean => \A q \in Procs : ~Storing(q)'
    BY <1>1, <1>2, OthersExcuse, CleanIsNotExcused DEF ReadInv, Storing
  <1>4. Clean => file' = Document(Stored(p))
    BY <1>1, CleanIsNotExcused DEF Write, ReadInv, IInv, FileInv, EmptyUntilWritten
  <1>5. Clean => Allowed(conf[p])
    BY <1>1 DEF ReadInv, Read, Storing
  <1>6. ASSUME Clean, NEW k \in Keys PROVE Stored(p)[k] \in {OughtAfter(p)[k], Unset, Default[k]}
    <2>1. conf[p][k] \in {ought[k], Unset, Default[k]}
      BY <1>5, <1>6 DEF Allowed
    <2>2. /\ Stored(p)[k] = First(k, <<env[p], conf[p]>>)
          /\ OughtAfter(p)[k] = First(k, <<env[p], ought>>)
      BY DEF Stored, OughtAfter, Effective
    <2> QED BY <2>1, <2>2 DEF First
  <1>7. Clean' => Allowed(file.has)'
    BY <1>1, <1>4, <1>6, HasField DEF Clean, Allowed
  <1>8. events = {} => file'.has = ought'
    <2>1. events = {} => Clean /\ conf[p] = ought
      BY <1>1 DEF Clean, ReadInv, Read, Storing
    <2>2. events = {} => Stored(p) = OughtAfter(p)
      BY <2>1 DEF Stored, OughtAfter, Effective
    <2> QED BY <1>1, <1>4, <2>1, <2>2, HasField
  <1>9. Clean' = Clean
    BY <1>1 DEF Clean
  <1> QED BY <1>1, <1>3, <1>7, <1>8, <1>9 DEF Read, Clean

LEMMA StoreReads ==
  ASSUME ReadInv, NEW p \in Procs, Store(p)
  PROVE  Read'
  <1>1. ASSUME Open(p) PROVE Read'
    <2>1. UNCHANGED <<conf, ought, events>>
      BY <1>1 DEF Open
    <2>2. \A q \in Procs : Storing(q)' => Storing(q)
      BY <1>1 DEF Open, Storing, ReadInv, IInv, AtType
    <2>3. CASE file' = file /\ at' = [at EXCEPT ![p] = "running"]
      <3>1. (\A q \in Procs : at'[q] # "truncated") => \A q \in Procs : at[q] # "truncated"
        BY <1>1, <2>3 DEF Open, ReadInv, IInv, AtType
      <3> QED BY <2>1, <2>2, <2>3, <3>1 DEF ReadInv, Read, Clean, Allowed
    <2>4. CASE file' = Document(Nothing) /\ at' = [at EXCEPT ![p] = "truncated"]
      <3>1. at'[p] = "truncated"
        BY <2>4 DEF ReadInv, IInv, AtType
      <3>2. Allowed(file.has)'
        BY <2>4, HasField DEF Allowed, Nothing
      <3> QED BY <2>1, <2>2, <3>1, <3>2 DEF ReadInv, Read, Clean, Allowed
    <2> QED BY <1>1, <2>3, <2>4 DEF Open
  <1>2. ASSUME WriteFails(p) PROVE Read'
    <2>1. "nospace" \in events'
      BY <1>2 DEF WriteFails
    <2> QED BY <2>1 DEF Read, Clean
  <1> QED BY <1>1, <1>2, WriteReads DEF Store

LEMMA OffReads ==
  ASSUME ReadInv, NEW p \in Procs, Exit(p) \/ Crash(p)
  PROVE  Read'
  <1>1. file' = file /\ ought' = ought /\ events \subseteq events'
    BY DEF Exit, Crash
  <1>2. \A q \in Procs : Storing(q)' => Storing(q) /\ conf'[q] = conf[q]
    BY DEF Exit, Crash, Off, Storing, ReadInv, IInv, AtType, ConfType
  <1>3. events' = {} /\ (\A q \in Procs : at'[q] # "truncated")
          => \A q \in Procs : at[q] # "truncated"
    BY DEF Exit, Crash, Off, ReadInv, IInv, AtType
  <1>4. Clean' => Clean
    BY <1>1 DEF Clean
  <1> QED BY <1>1, <1>2, <1>3, <1>4 DEF ReadInv, Read, Allowed

LEMMA EditReads ==
  ASSUME ReadInv, NEW e \in Edits, Edit(e)
  PROVE  Read'
  <1>1. file' = Document(e) /\ ought' = e /\ at' = at
    BY DEF Edit
  <1>2. Allowed(file.has)' /\ file'.has = ought'
    BY <1>1, HasField DEF Allowed
  <1>3. \A p \in Procs : Storing(p)' => ~Clean' /\ events' # {}
    BY DEF Edit, Storing, Clean
  <1> QED BY <1>2, <1>3 DEF Read

LEMMA ReadInvStep == ReadInv /\ [Next]_vars => ReadInv'
  <1> SUFFICES ASSUME ReadInv, [Next]_vars PROVE Read'
    BY IInvStep, ConfTypeStep DEF ReadInv
  <1>1. CASE UNCHANGED configVars
    BY <1>1 DEF configVars, ReadInv, Read, Allowed, Clean, Storing
  <1>2. ASSUME NEW p \in Procs, Start(p) \/ Store(p) \/ Exit(p) \/ Crash(p) PROVE Read'
    BY <1>2, StartReads, StoreReads, OffReads
  <1>3. ASSUME NEW e \in Edits, Edit(e) PROVE Read'
    BY <1>3, EditReads
  <1> QED
    BY <1>1, <1>2, <1>3 DEF Next, Running, Ending, Analyzing, vars

\* A process reads in its start alone, which leaves what it ought to read alone.
LEMMA OnlyStartReads ==
  ASSUME IInv, [Next]_vars, NEW p \in Procs, at[p] # "read", at'[p] = "read"
  PROVE  ought' = ought
  <1>1. ASSUME NEW q \in Procs, Store(q) \/ Exit(q) \/ Crash(q) PROVE FALSE
    BY <1>1 DEF Store, Open, Write, WriteFails, Exit, Crash, Off, IInv, AtType
  <1>2. \A e \in Edits : ~Edit(e)
    BY DEF Edit
  <1>3. ~UNCHANGED configVars
    BY DEF configVars
  <1>4. \E q \in Procs : Start(q)
    BY <1>1, <1>2, <1>3 DEF Next, Running, Ending, Analyzing, vars
  <1> QED BY <1>4 DEF Start

\* A start reads the last store or edit, every setting of it; after crashes alone a
\* setting is that, or its default.
THEOREM StartReadsLastStore == Spec => ReadsLastStore
  <1>1. Init => ReadInv
    BY IInvInit, ConfTypeInit, ReadInit DEF ReadInv
  <1>2. ASSUME ReadInv, ReadInv', [Next]_vars
        PROVE [\A p \in Procs : at[p] # "read" /\ at'[p] = "read" =>
                 /\ events' = {} => conf'[p] = ought
                 /\ events' \subseteq {"crash"} =>
                      \A k \in Keys : conf'[p][k] \in {ought[k], Unset, Default[k]}]_configVars
    <2> SUFFICES ASSUME NEW p \in Procs, at[p] # "read", at'[p] = "read"
                 PROVE  /\ events' = {} => conf'[p] = ought
                        /\ events' \subseteq {"crash"} =>
                             \A k \in Keys : conf'[p][k] \in {ought[k], Unset, Default[k]}
      OBVIOUS
    <2>1. ought' = ought
      BY <1>2, OnlyStartReads DEF ReadInv
    <2>2. Storing(p)'
      BY DEF Storing
    <2>3. Clean' => Allowed(conf[p])'
      BY <1>2, <2>2 DEF ReadInv, Read
    <2>4. events' = {} => conf'[p] = ought'
      BY <1>2, <2>2 DEF ReadInv, Read
    <2> QED BY <2>1, <2>3, <2>4 DEF Clean, Allowed
  <1> QED BY <1>1, <1>2, ReadInvStep, PTL DEF Spec, ReadsLastStore

-----------------------------------------------------------------------------
(* The round trip *)

\* The natural numbers are well-founded, without a predicate to induct on.
LEMMA SmallestIn ==
  ASSUME NEW S \in SUBSET Nat, S # {}
  PROVE  \E n \in S : \A m \in S : n <= m
  <1>1. PICK n \in S : \A m \in S : ~(<<m, n>> \in OpToRel(<, Nat))
    BY NatLessThanWellFounded, WFMin, Zenon
  <1>2. \A m \in S : ~(m < n)
    BY <1>1, Zenon DEF OpToRel
  <1> QED BY <1>2

LEMMA DivisionExact ==
  ASSUME NEW n \in Int, NEW d \in Nat \ {0}, Divides(d, n)
  PROVE  n = d * (n \div d) /\ n \div d \in Int
  BY DEF Divides

\* NewRat chooses something.
LEMMA GreatestDivisor ==
  ASSUME NEW num \in Int, NEW den \in Nat \ {0}
  PROVE  \E d \in 1 .. den :
           /\ Divides(d, num) /\ Divides(d, den)
           /\ \A e \in d + 1 .. den : ~(Divides(e, num) /\ Divides(e, den))
  <1> DEFINE Common == {d \in 1 .. den : Divides(d, num) /\ Divides(d, den)}
             Short == {k \in 0 .. den - 1 : den - k \in Common}
  <1>1. 1 \in Common
    BY DEF Divides
  <1>2. den - 1 \in Short
    BY <1>1
  <1>3. PICK k \in Short : \A m \in Short : k <= m
    <2>1. Short \subseteq 0 .. den - 1 /\ Short # {}
      BY <1>2
    <2>2. 0 .. den - 1 \subseteq Nat
      OBVIOUS
    <2> HIDE DEF Short
    <2> QED BY <2>1, <2>2, SmallestIn
  <1>4. ASSUME NEW e \in Common PROVE e <= den - k
    <2>1. e \in 1 .. den /\ k \in 0 .. den - 1
      OBVIOUS
    <2>2. den - e \in 0 .. den - 1 /\ den - (den - e) = e
      BY <2>1
    <2>3. den - e \in Short
      BY <2>2
    <2>4. k <= den - e
      BY <1>3, <2>3
    <2> QED BY <2>1, <2>4
  <1>5. den - k \in Common /\ den - k \in 1 .. den
    OBVIOUS
  <1> HIDE DEF Short
  <1> QED BY <1>4, <1>5

\* The fraction in its least terms is the fraction.
LEMMA NewRatProperties ==
  ASSUME NEW num \in Int, NEW den \in Nat \ {0}
  PROVE  /\ NewRat(num, den) \in Rationals
         /\ NewRat(num, den).num * den = num * NewRat(num, den).den
         /\ num = 0 => NewRat(num, den).num = 0
  <1> DEFINE G(d) == /\ Divides(d, num) /\ Divides(d, den)
                     /\ \A e \in d + 1 .. den : ~(Divides(e, num) /\ Divides(e, den))
             g == CHOOSE d \in 1 .. den : G(d)
             x == num \div g
             y == den \div g
  <1>1. NewRat(num, den) = [num |-> x, den |-> y]
    BY DEF NewRat
  <1>2. g \in 1 .. den /\ G(g)
    BY GreatestDivisor
  <1> HIDE DEF g
  <1>3. num = g * x /\ x \in Int /\ den = g * y /\ y \in Int
    BY <1>2, DivisionExact
  <1> HIDE DEF x, y
  <1>4. y > 0 /\ (num = 0 => x = 0)
    BY <1>2, <1>3
  <1>5. x * den = num * y
    BY <1>2, <1>3
  <1> QED BY <1>1, <1>3, <1>4, <1>5 DEF Rationals

\* The three forms of the time base are there, or it has none, and they agree.
Whole(s) ==
  IF s.rat = NIL THEN s.den = 0
  ELSE /\ s.den # 0 /\ (s.num = 0 => s.rat.num = 0)
       /\ s.rat.num * s.den = s.num * s.rat.den

\* v was read of file i: its fingerprints are that file's, or missing.
ReadOf(v, i) == \A j \in DOMAIN v : v[j].chromaprint \in {0, i}

AllWhole(v) == v \in Seq(Streams) /\ \A i \in DOMAIN v : Whole(v[i])

\* What filltimeBase makes of two parts has three that agree ...
LEMMA FilledIsWhole ==
  ASSUME NEW num \in Int, NEW den \in Nat, NEW fp \in Nat
  PROVE  LET f == Filled([num |-> num, den |-> den, rat |-> NIL, chromaprint |-> fp])
         IN  f \in Streams /\ Whole(f) /\ f.chromaprint = fp
  <1> DEFINE s == [num |-> num, den |-> den, rat |-> NIL, chromaprint |-> fp]
             q == NewRat(num, den)
  <1>1. NIL \notin Rationals
    BY WalkAssumption
  <1>2. CASE den = 0
    <2>1. Filled(s) = s
      BY <1>2 DEF Filled
    <2> QED BY <1>2, <2>1 DEF Streams, Whole
  <1>3. CASE den # 0
    <2>1. q \in Rationals /\ q.num * den = num * q.den /\ (num = 0 => q.num = 0)
      BY <1>3, NewRatProperties
    <2> HIDE DEF q
    <2>2. Filled(s) = [num |-> num, den |-> den, rat |-> q, chromaprint |-> fp]
      <3>1. Filled(s) = [s EXCEPT !.rat = q, !.num = IF @ = 0 THEN q.num ELSE @,
                                  !.den = IF @ = 0 THEN q.den ELSE @]
        BY <1>1, <1>3, <2>1 DEF Filled, q
      <3> QED BY <1>3, <2>1, <3>1
    <2> QED BY <1>1, <1>3, <2>1, <2>2 DEF Streams, Whole
  <1> QED BY <1>2, <1>3

\* ... and is left alone by it the next time.
LEMMA FilledOnce ==
  ASSUME NEW s \in Streams, Whole(s)
  PROVE  Filled(s) = s
  <1>1. CASE s.rat = NIL
    BY <1>1 DEF Filled, Whole
  <1>2. CASE s.rat # NIL
    <2>1. Filled(s) = [s EXCEPT !.rat = s.rat, !.num = IF @ = 0 THEN s.rat.num ELSE @,
                                !.den = IF @ = 0 THEN s.rat.den ELSE @]
      BY <1>2 DEF Filled
    <2>2. s.den # 0 /\ (s.num = 0 => s.rat.num = 0)
      BY <1>2 DEF Whole
    <2>3. Filled(s) = [s EXCEPT !.rat = s.rat, !.num = s.num, !.den = s.den]
      BY <2>1, <2>2
    <2> QED BY <2>3 DEF Streams
  <1> QED BY <1>1, <1>2

\* What is read of the helper's answer for file i.
LEMMA AnswerIsWhole ==
  ASSUME NEW i \in Nat, NEW answer \in Answers(i)
  PROVE  /\ AllWhole(Unmarshalled(answer)) /\ ReadOf(Unmarshalled(answer), i)
         /\ Unmarshalled(answer) = <<>> <=> answer = <<>>
  <1> DEFINE Words == {[time_base_num |-> k[1], time_base_den |-> k[2], time_base |-> NIL,
                       chromaprint |-> IF k[3] THEN i ELSE 0] : k \in Kinds}
             St(w) == [num |-> w.time_base_num, den |-> w.time_base_den, rat |-> w.time_base,
                       chromaprint |-> IF "chromaprint" \in DOMAIN w THEN w.chromaprint ELSE 0]
             u == Unmarshalled(answer)
  <1>1. PICK n \in 0 .. MaxStreams : answer \in [1 .. n -> Words]
    BY DEF Answers
  <1>2. \A w \in Words : /\ w \in [time_base_num : Int, time_base_den : Nat,
                                   time_base : {NIL}, chromaprint : Nat]
                         /\ St(w) = [num |-> w.time_base_num, den |-> w.time_base_den,
                                     rat |-> NIL, chromaprint |-> w.chromaprint]
                         /\ w.chromaprint \in {0, i}
    BY WalkAssumption
  <1> HIDE DEF Words
  <1>3. n \in Nat /\ answer \in Seq(Words) /\ Len(answer) = n
    BY <1>1, SeqDef, LenProperties, WalkAssumption
  <1>4. answer \in Documents
    <2>1. Words \subseteq [time_base_num : Int, time_base_den : Nat,
                           time_base : Rationals \cup {NIL}, chromaprint : Nat]
      BY <1>2
    <2> QED BY <1>3, <2>1, SeqMonotonic DEF Documents
  <1>5. u = [j \in 1 .. n |-> Filled(St(answer[j]))]
    BY <1>1, <1>4, WalkAssumption DEF Unmarshalled
  <1>6. \A j \in 1 .. n : /\ Filled(St(answer[j])) \in Streams /\ Whole(Filled(St(answer[j])))
                         /\ Filled(St(answer[j])).chromaprint \in {0, i}
    <2> SUFFICES ASSUME NEW j \in 1 .. n
                 PROVE  /\ Filled(St(answer[j])) \in Streams /\ Whole(Filled(St(answer[j])))
                        /\ Filled(St(answer[j])).chromaprint \in {0, i}
      OBVIOUS
    <2> DEFINE w == answer[j]
    <2>1. w \in Words
      BY <1>1
    <2> HIDE DEF w
    <2>2. /\ St(w) = [num |-> w.time_base_num, den |-> w.time_base_den, rat |-> NIL,
                      chromaprint |-> w.chromaprint]
          /\ w.time_base_num \in Int /\ w.time_base_den \in Nat
          /\ w.chromaprint \in Nat /\ w.chromaprint \in {0, i}
      BY <1>2, <2>1
    <2>3. /\ Filled(St(w)) \in Streams /\ Whole(Filled(St(w)))
          /\ Filled(St(w)).chromaprint = w.chromaprint
      BY <2>2, FilledIsWhole
    <2> QED BY <2>2, <2>3 DEF w
  <1> HIDE DEF St
  <1>7. u \in [1 .. n -> Streams] /\ \A j \in 1 .. n : Whole(u[j]) /\ u[j].chromaprint \in {0, i}
    BY <1>5, <1>6
  <1>8. u \in Seq(Streams) /\ Len(u) = n
    BY <1>3, <1>7, SeqDef, LenProperties
  <1>9. u = <<>> <=> answer = <<>>
    BY <1>3, <1>8, EmptySeq
  <1> QED BY <1>7, <1>8, <1>9 DEF AllWhole, ReadOf

\* What is written is a document, and read as what it was written from.
LEMMA WrittenIsRead ==
  ASSUME NEW v, AllWhole(v)
  PROVE  Unmarshalled(Marshalled(v)) = v /\ Marshalled(v) \in Documents
  <1> DEFINE fp(i) == IF v[i].chromaprint = 0 THEN {} ELSE {"chromaprint"}
             w(i) == [m \in {"time_base_num", "time_base_den", "time_base"} \cup fp(i) |->
                        CASE m = "time_base_num" -> v[i].num
                          [] m = "time_base_den" -> v[i].den
                          [] m = "time_base" -> v[i].rat
                          [] OTHER -> v[i].chromaprint]
             St(x) == [num |-> x.time_base_num, den |-> x.time_base_den, rat |-> x.time_base,
                       chromaprint |-> IF "chromaprint" \in DOMAIN x THEN x.chromaprint ELSE 0]
             d == Marshalled(v)
             Words == Bare \cup [time_base_num : Int, time_base_den : Nat,
                                 time_base : Rationals \cup {NIL}, chromaprint : Nat]
  <1>1. /\ v \in Seq(Streams) /\ v # NIL /\ Len(v) \in Nat /\ DOMAIN v = 1 .. Len(v)
        /\ \A i \in DOMAIN v : v[i] \in Streams /\ Whole(v[i])
    BY WalkAssumption, LenProperties, ElementOfSeq DEF AllWhole
  <1>2. d = [i \in DOMAIN v |-> w(i)]
    BY <1>1 DEF Marshalled
  <1>3. ASSUME NEW i \in DOMAIN v PROVE w(i) \in Words /\ St(w(i)) = v[i]
    <2>1. v[i] \in Streams
      BY <1>1
    <2>2. v[i] = [num |-> v[i].num, den |-> v[i].den, rat |-> v[i].rat,
                  chromaprint |-> v[i].chromaprint]
      BY <2>1 DEF Streams
    <2>3. CASE v[i].chromaprint = 0
      <3>1. w(i) = [time_base_num |-> v[i].num, time_base_den |-> v[i].den,
                    time_base |-> v[i].rat]
        BY <2>3
      <3>2. w(i) \in Bare
        BY <2>1, <3>1 DEF Bare, Streams
      <3>3. St(w(i)) = v[i]
        BY <2>2, <2>3, <3>1
      <3> QED BY <3>2, <3>3
    <2>4. CASE v[i].chromaprint # 0
      <3>1. w(i) = [time_base_num |-> v[i].num, time_base_den |-> v[i].den,
                    time_base |-> v[i].rat, chromaprint |-> v[i].chromaprint]
        BY <2>4
      <3>2. w(i) \in Words
        BY <2>1, <3>1 DEF Streams
      <3>3. St(w(i)) = v[i]
        BY <2>2, <3>1
      <3> QED BY <3>2, <3>3
    <2> QED BY <2>3, <2>4
  <1> HIDE DEF w
  <1>4. d \in Documents
    <2>1. d \in [1 .. Len(v) -> Words]
      BY <1>1, <1>2, <1>3
    <2> HIDE DEF d, Words
    <2>2. d \in Seq(Words)
      BY <1>1, <2>1, SeqDef
    <2> QED BY <2>2 DEF Documents, Words
  <1>5. Unmarshalled(d) = [i \in DOMAIN v |-> Filled(St(w(i)))]
    <2>1. d # NIL
      BY <1>4, WalkAssumption
    <2> QED BY <1>2, <2>1 DEF Unmarshalled
  <1>6. \A i \in DOMAIN v : Filled(St(w(i))) = v[i]
    BY <1>1, <1>3, FilledOnce
  <1>7. Unmarshalled(d) = [i \in DOMAIN v |-> v[i]]
    BY <1>5, <1>6
  <1>8. v = [i \in DOMAIN v |-> v[i]]
    BY <1>1, SeqDef
  <1> QED BY <1>4, <1>7, <1>8

\* Compressed and decompressed, metadata is what it was, whatever the algorithm, as long
\* as there is one.
LEMMA TripIsExact ==
  ASSUME NEW algo, NEW v, v = NIL \/ AllWhole(v)
  PROVE  UnmarshallCompressed(algo, MarshallCompressed(algo, v))
           = IF v = NIL \/ ~Supported(algo) THEN <<>> ELSE v
  <1> DEFINE d == MarshallCompressed(algo, v)
  <1>1. CASE ~Supported(algo)
    BY <1>1 DEF UnmarshallCompressed
  <1>2. CASE Supported(algo)
    <2> DEFINE by == IF algo = "" THEN "none" ELSE algo
    <2>1. d = [by |-> by, json |-> Marshalled(v)] /\ by \in {"zstd", "none"}
      BY <1>2 DEF MarshallCompressed, Supported
    <2>2. Marshalled(v) \in Documents \cup {NIL}
      BY WrittenIsRead DEF Marshalled
    <2> HIDE DEF d, by
    <2>3. d \in Compressed
      BY <2>1, <2>2 DEF Compressed
    <2>4. d # NIL /\ d.json = Marshalled(v)
      BY <2>1, <2>3, WalkAssumption
    <2>5. UnmarshallCompressed(algo, d) = Unmarshalled(Marshalled(v))
      BY <1>2, <2>4 DEF UnmarshallCompressed
    <2> USE DEF d
    <2>6. v = NIL => Unmarshalled(Marshalled(v)) = <<>>
      BY DEF Unmarshalled, Marshalled
    <2> QED BY <1>2, <2>5, <2>6, WrittenIsRead
  <1> QED BY <1>1, <1>2

-----------------------------------------------------------------------------
(* The walk *)

Line == [file : 1 .. Len(tree), chromaprint : Nat]

\* What is printed is behind the walk, and what is about to be is the last file's.
\* What was written and read back last is the metadata of the last line.
WalkInv ==
  /\ WalkTypeOK
  /\ walk = "idle" => next = 1 /\ lines = <<>> /\ found = {}
  /\ LinesAreOwn
  /\ \A i \in DOMAIN lines : lines[i].file < next
  /\ \A f \in found : f < next
  /\ val = NIL \/ AllWhole(val)
  /\ AllWhole(a) /\ (a # <<>> => lines # <<>>)
  /\ walk = "walking" /\ lines # <<>> /\ lines[Len(lines)].file = Number => a = val
  /\ walk = "file" =>
       /\ next > 1 /\ (val = NIL \/ ReadOf(val, Number))
       /\ Number \in found <=> val \notin {NIL, <<>>}
       /\ \A i \in DOMAIN lines : lines[i].file < Number

LEMMA TreeType ==
  ASSUME WalkTypeOK
  PROVE  /\ Len(tree) \in Nat /\ DOMAIN tree = 1 .. Len(tree) /\ tree \in Seq({"flac", "other", "unreadable"})
         /\ lines \in Seq(Line) /\ Len(lines) \in Nat /\ DOMAIN lines = 1 .. Len(lines)
         /\ \A i \in DOMAIN lines : lines[i] \in Line
  <1>1. tree \in Seq({"flac", "other", "unreadable"})
    BY WalkAssumption, EmptySeq DEF WalkTypeOK
  <1>2. lines \in Seq(Line)
    BY DEF WalkTypeOK, Line
  <1> QED BY <1>1, <1>2, LenProperties, ElementOfSeq

LEMMA NoLines ==
  ASSUME NEW S
  PROVE  <<>> \in Seq(S) /\ DOMAIN <<>> = {} /\ Len(<<>>) = 0
  BY EmptySeq, LenProperties

\* A process begins with nothing, and ends with it.
LEMMA ForgottenInv ==
  ASSUME tree = <<>>, next = 1, val = NIL, a = <<>>, lines = <<>>, walk = "idle", found = {}
  PROVE  WalkInv
  <1>1. WalkTypeOK
    BY NoLines DEF WalkTypeOK
  <1> QED BY <1>1, NoLines DEF WalkInv, LinesAreOwn, AllWhole

LEMMA BeginKeeps ==
  ASSUME WalkInv, Begin
  PROVE  WalkInv'
  <1>1. /\ walk = "idle" /\ walk' = "walking" /\ tree' \in Trees
        /\ UNCHANGED <<next, val, a, lines, found>>
        /\ next = 1 /\ lines = <<>> /\ found = {}
    BY DEF Begin, WalkInv
  <1>2. Len(tree') \in Nat
    BY <1>1, WalkAssumption, LenProperties
  <1>3. WalkTypeOK'
    BY <1>1, <1>2, NoLines DEF WalkInv, WalkTypeOK
  <1> QED BY <1>1, <1>3, NoLines DEF WalkInv, LinesAreOwn, AllWhole

LEMMA VisitStep ==
  ASSUME WalkInv, Visit
  PROVE  WalkInv'
  <1>1. /\ walk = "walking" /\ next \in 1 .. Len(tree) /\ next' = next + 1
        /\ UNCHANGED <<tree, a, lines>>
        /\ Len(tree) \in Nat /\ DOMAIN lines = 1 .. Len(lines) /\ Len(lines) \in Nat
        /\ \A i \in DOMAIN lines : lines[i].file \in Nat /\ lines[i].file < next
    BY TreeType DEF Visit, WalkInv, WalkTypeOK, Line
  <1>2. Number' = next
    BY <1>1 DEF Number
  <1>3. CASE walk' = "file"
    <2>1. \/ \E answer \in Answers(next) :
                /\ val' = Unmarshalled(answer)
                /\ found' = IF answer = <<>> THEN found ELSE found \cup {next}
          \/ val' = NIL /\ UNCHANGED found
      BY <1>1, <1>3 DEF Visit
    <2>2. next \notin found
      BY <1>1 DEF WalkInv
    <2>3. /\ val' = NIL \/ (AllWhole(val') /\ ReadOf(val', next))
          /\ next \in found' <=> val' \notin {NIL, <<>>}
          /\ found' \subseteq found \cup {next}
      <3>1. CASE val' = NIL /\ UNCHANGED found
        BY <2>2, <3>1
      <3>2. CASE \E answer \in Answers(next) :
                    /\ val' = Unmarshalled(answer)
                    /\ found' = IF answer = <<>> THEN found ELSE found \cup {next}
        <4>1. PICK answer \in Answers(next) :
                /\ val' = Unmarshalled(answer)
                /\ found' = IF answer = <<>> THEN found ELSE found \cup {next}
          BY <3>2
        <4>2. /\ AllWhole(val') /\ ReadOf(val', next)
              /\ val' = <<>> <=> answer = <<>>
          BY <1>1, <4>1, AnswerIsWhole
        <4>3. val' # NIL
          BY <4>2, WalkAssumption DEF AllWhole
        <4> QED BY <2>2, <4>1, <4>2, <4>3
      <3> QED BY <2>1, <3>1, <3>2
    <2>4. WalkTypeOK'
      BY <1>1, <1>3, <2>3 DEF WalkInv, WalkTypeOK, AllWhole
    <2>5. (val' = NIL \/ AllWhole(val')) /\ AllWhole(a') /\ (a' # <<>> => lines' # <<>>)
      BY <1>1, <2>3 DEF WalkInv, AllWhole
    <2>6. /\ next' > 1 /\ (val' = NIL \/ ReadOf(val', Number'))
          /\ Number' \in found' <=> val' \notin {NIL, <<>>}
          /\ \A i \in DOMAIN lines' : lines'[i].file < Number'
      BY <1>1, <1>2, <2>3
    <2>7. LinesAreOwn'
      BY <1>1 DEF WalkInv, LinesAreOwn
    <2>8. /\ \A i \in DOMAIN lines' : lines'[i].file < next'
          /\ \A f \in found' : f < next'
      BY <1>1, <2>3 DEF WalkInv, WalkTypeOK
    <2> QED BY <1>3, <2>4, <2>5, <2>6, <2>7, <2>8 DEF WalkInv, AllWhole, ReadOf
  <1>4. CASE walk' \in {"walking", "done"} /\ UNCHANGED <<val, found>>
    <2>1. WalkTypeOK'
      BY <1>1, <1>4 DEF WalkInv, WalkTypeOK
    <2>2. lines # <<>> => lines[Len(lines)].file < next
      <3>1. lines # <<>> => Len(lines) \in DOMAIN lines
        BY <1>1, TreeType, EmptySeq DEF WalkInv
      <3> QED BY <1>1, <3>1
    <2>3. LinesAreOwn'
      BY <1>1 DEF WalkInv, LinesAreOwn
    <2>4. /\ \A i \in DOMAIN lines' : lines'[i].file < next'
          /\ \A f \in found' : f < next'
      BY <1>1, <1>4 DEF WalkInv, WalkTypeOK
    <2>5. (val' = NIL \/ AllWhole(val')) /\ AllWhole(a') /\ (a' # <<>> => lines' # <<>>)
      BY <1>1, <1>4 DEF WalkInv, AllWhole
    <2>6. ~(lines' # <<>> /\ lines'[Len(lines')].file = Number')
      BY <1>1, <1>2, <2>2
    <2> QED BY <1>4, <2>1, <2>3, <2>4, <2>5, <2>6 DEF WalkInv, AllWhole
  <1> QED BY <1>1, <1>3, <1>4 DEF Visit

\* The line is of the last file, and shows what was read of it.
LEMMA ExportKeeps ==
  ASSUME WalkInv, NEW algo, Export(algo)
  PROVE  WalkInv'
  <1>1. walk = "file" /\ walk' = "walking" /\ UNCHANGED <<tree, next, val, found>>
    BY DEF Export
  <1>2. /\ next \in 2 .. Len(tree) + 1 /\ Len(tree) \in Nat /\ Number \in 1 .. Len(tree)
        /\ Number' = Number /\ Number < next
        /\ lines \in Seq(Line) /\ Len(lines) \in Nat /\ DOMAIN lines = 1 .. Len(lines)
    BY <1>1, TreeType DEF WalkInv, WalkTypeOK, Number
  <1>3. /\ \A i \in DOMAIN lines : lines[i].file < Number
        /\ val = NIL \/ (AllWhole(val) /\ ReadOf(val, Number))
    BY <1>1 DEF WalkInv
  <1>4. a' = IF val = NIL \/ ~Supported(algo) THEN <<>> ELSE val
    BY <1>3, TripIsExact DEF Export
  <1>5. AllWhole(a')
    BY <1>3, <1>4, NoLines DEF AllWhole
  <1>6. CASE a' = <<>>
    <2>1. lines' = lines
      BY <1>6 DEF Export
    <2>2. WalkTypeOK'
      BY <1>1, <1>5, <2>1 DEF WalkInv, WalkTypeOK, AllWhole
    <2>3. lines # <<>> => lines[Len(lines)].file # Number
      <3>1. lines # <<>> => Len(lines) \in DOMAIN lines
        BY <1>2, EmptySeq
      <3>2. \A i \in DOMAIN lines : lines[i].file \in Int
        BY TreeType DEF WalkInv, Line
      <3> QED BY <1>2, <1>3, <3>1, <3>2
    <2>4. LinesAreOwn' /\ \A i \in DOMAIN lines' : lines'[i].file < next'
      BY <1>1, <2>1 DEF WalkInv, LinesAreOwn
    <2>5. (val' = NIL \/ AllWhole(val')) /\ AllWhole(a')
      BY <1>1, <1>5 DEF WalkInv, AllWhole
    <2>6. ~(lines' # <<>> /\ lines'[Len(lines')].file = Number') /\ \A f \in found' : f < next'
      BY <1>1, <1>2, <2>1, <2>3 DEF WalkInv
    <2> QED BY <1>1, <1>6, <2>2, <2>4, <2>5, <2>6 DEF WalkInv, AllWhole
  <1>7. CASE a' # <<>>
    <2> DEFINE line == [file |-> Number, chromaprint |-> a'[1].chromaprint]
    <2>1. a' = val /\ val # NIL
      BY <1>4, <1>7
    <2>2. a'[1].chromaprint \in {0, Number}
      <3>1. 1 \in DOMAIN a'
        BY <1>5, <1>7, LenProperties, EmptySeq DEF AllWhole
      <3> QED BY <1>3, <2>1, <3>1 DEF ReadOf
    <2>3. line \in Line /\ line.file = Number /\ line.chromaprint \in {0, Number}
      BY <1>2, <2>2 DEF Line
    <2>4. lines' = Append(lines, line)
      BY <1>7 DEF Export
    <2> HIDE DEF line
    <2>5. /\ lines' \in Seq(Line) /\ Len(lines') = Len(lines) + 1
          /\ DOMAIN lines' = 1 .. Len(lines) + 1
          /\ \A i \in 1 .. Len(lines) : lines'[i] = lines[i]
          /\ lines'[Len(lines) + 1] = line
      BY <1>2, <2>3, <2>4, AppendProperties, LenProperties
    <2>6. WalkTypeOK'
      BY <1>1, <1>5, <2>5 DEF WalkInv, WalkTypeOK, AllWhole, Line
    <2>7. LinesAreOwn'
      <3>1. \A i \in DOMAIN lines' : lines'[i].chromaprint \in {0, lines'[i].file}
        BY <1>2, <2>3, <2>5 DEF WalkInv, LinesAreOwn
      <3>2. \A i, j \in DOMAIN lines' : i < j => lines'[i].file < lines'[j].file
        BY <1>2, <1>3, <2>3, <2>5 DEF WalkInv, LinesAreOwn
      <3> QED BY <3>1, <3>2 DEF LinesAreOwn
    <2>8. (\A i \in DOMAIN lines' : lines'[i].file < next') /\ lines' # <<>>
      BY <1>1, <1>2, <2>3, <2>5, NoLines DEF WalkInv
    <2> QED BY <1>1, <1>5, <2>1, <2>6, <2>7, <2>8 DEF WalkInv
  <1> QED BY <1>6, <1>7

LEMMA WalkInvStep == WalkInv /\ [Next]_vars => WalkInv'
  <1> SUFFICES ASSUME WalkInv, [Next]_vars PROVE WalkInv'
    OBVIOUS
  <1>1. CASE UNCHANGED walkVars
    BY <1>1 DEF walkVars, WalkInv, WalkTypeOK, LinesAreOwn, AllWhole, ReadOf, Number
  <1>2. CASE Forget
    <2>1. WalkTypeOK'
      BY <1>2, NoLines DEF Forget, WalkTypeOK
    <2> QED BY <1>2, <2>1, NoLines DEF Forget, WalkInv, LinesAreOwn, AllWhole
  <1>3. CASE Finish
    BY <1>3 DEF Finish, WalkInv, WalkTypeOK, LinesAreOwn, AllWhole, ReadOf, Number
  <1> QED BY <1>1, <1>2, <1>3, BeginKeeps, VisitStep, ExportKeeps
          DEF Next, Running, Ending, Leaving, Analyzing, WalkStep, vars

LEMMA WalkInvInit == Init => WalkInv
  BY ForgottenInv DEF Init, WalkInit

\* No line shows the fingerprint of another file, and no file has two, for any
\* directory and any answers, with any compression and wherever a process is killed.
THEOREM LinesBelong == Spec => []LinesAreOwn
  <1>1. WalkInv => LinesAreOwn
    BY DEF WalkInv
  <1> QED BY <1>1, WalkInvInit, WalkInvStep, PTL DEF Spec

\* Metadata that was compressed and read back is what it was, and the numerator and
\* denominator beside a time base agree with it, for every time base.
THEOREM TripsAreExact == Spec => []RoundTrip
  <1>1. WalkInv => RoundTrip
    <2> SUFFICES ASSUME WalkInv, walk = "walking", a # <<>>, Number = lines[Len(lines)].file
                 PROVE  /\ a = val
                        /\ \A i \in DOMAIN a : a[i].rat # NIL =>
                             a[i].rat.num * a[i].den = a[i].num * a[i].rat.den
      BY DEF RoundTrip
    <2>1. a = val /\ AllWhole(a)
      BY DEF WalkInv
    <2> QED BY <2>1 DEF AllWhole, Whole
  <1> QED BY <1>1, WalkInvInit, WalkInvStep, PTL DEF Spec

-----------------------------------------------------------------------------
(* Types *)

FileType == [is : {"missing", "document", "torn"}, has : Partial]

\* What ConfigTypeOK says beyond the types above.
RestType ==
  /\ file \in FileType
  /\ starts \in 0 .. MaxStarts /\ edits \in 0 .. MaxEdits
  /\ events \subseteq {"crash", "overlap", "nospace"}

LEMMA FilesAreFiles ==
  /\ Missing \in FileType /\ Torn \in FileType
  /\ \A s \in Partial : Document(s) \in FileType
  BY NothingIsPartial DEF FileType, Missing, Torn, Document

LEMMA RestTypeInit == Init => RestType
  <1> SUFFICES ASSUME Init PROVE RestType
    OBVIOUS
  <1>1. file \in FileType
    BY FilesAreFiles, ConfigAssumption DEF Init, ConfigInit
  <1> QED BY <1>1, ConfigAssumption DEF Init, ConfigInit, RestType

LEMMA RestTypeStep == ConfType /\ RestType /\ [Next]_vars => RestType'
  <1> SUFFICES ASSUME ConfType, RestType, [Next]_vars PROVE RestType'
    OBVIOUS
  <1>1. CASE UNCHANGED configVars
    BY <1>1 DEF RestType, configVars, counts, FileType, Partial
  <1>2. ASSUME NEW p \in Procs, Start(p) PROVE RestType'
    <2>1. starts' \in 0 .. MaxStarts
      BY <1>2, ConfigAssumption DEF RestType, Start
    <2> QED BY <1>2, <2>1 DEF RestType, Start, Overlaps, FileType, Partial
  <1>3. ASSUME NEW p \in Procs, Store(p) PROVE RestType'
    <2>1. Stored(p) \in Partial
      BY OverlaidIsPartial DEF Stored, Effective, ConfType
    <2>2. file' \in FileType
      BY <1>3, <2>1, FilesAreFiles, NothingIsPartial
         DEF RestType, Store, Open, Write, WriteFails
    <2>3. /\ UNCHANGED counts
          /\ events' \subseteq events \cup {"nospace"}
      BY <1>3 DEF Store, Open, Write, WriteFails
    <2> QED BY <2>2, <2>3 DEF RestType, counts, FileType, Partial
  <1>4. ASSUME NEW p \in Procs, Exit(p) \/ Crash(p) PROVE RestType'
    BY <1>4 DEF RestType, Exit, Crash, counts, FileType, Partial
  <1>5. ASSUME NEW e \in Edits, Edit(e) PROVE RestType'
    <2>1. file' \in FileType
      BY <1>5, FilesAreFiles, ConfigAssumption DEF Edit
    <2>2. edits' \in 0 .. MaxEdits
      BY <1>5, ConfigAssumption DEF RestType, Edit
    <2> QED BY <1>5, <2>1, <2>2 DEF RestType, Edit, FileType, Partial
  <1> QED
    BY <1>1, <1>2, <1>3, <1>4, <1>5 DEF Next, Running, Ending, Analyzing, vars

\* Every variable keeps its type: files that are torn or edited at any time are read as
\* settings, and a walk stays within its directory.
THEOREM TypeCorrect == Spec => []TypeOK
  <1> DEFINE TypeInv == ReadInv /\ RestType /\ WalkInv
  <1>1. TypeInv => TypeOK
    BY DEF ReadInv, IInv, AtType, ProcPoints, ConfType, RestType, FileType, WalkInv,
           TypeOK, ConfigTypeOK
  <1>2. Init => TypeInv
    BY IInvInit, ConfTypeInit, ReadInit, RestTypeInit, WalkInvInit DEF ReadInv
  <1>3. TypeInv /\ [Next]_vars => TypeInv'
    BY ReadInvStep, RestTypeStep, WalkInvStep DEF ReadInv
  <1> QED BY <1>1, <1>2, <1>3, PTL DEF Spec

-----------------------------------------------------------------------------
(* What is printed *)

Printed == {lines[i].file : i \in DOMAIN lines}

\* A process that walks runs, with the algorithm that it read; what is found is printed
\* except for the file that is under way, or nothing is.
PrintInv ==
  /\ walk # "idle" => at[Walker] = "running"
  /\ walk \in {"walking", "done"} => Printed = IF Supported(Algo) THEN found ELSE {}
  /\ walk = "file" => Printed = IF Supported(Algo) THEN found \ {Number} ELSE {}

\* While the walker runs the steps of the others, and edits, leave its settings alone.
LEMMA AlgoStays ==
  ASSUME AtType, ConfType, PrintInv, UNCHANGED walkVars,
         \/ \E p \in Procs : Start(p) \/ Store(p)
         \/ \E p \in Procs \ {Walker} : Exit(p) \/ Crash(p)
         \/ \E e \in Edits : Edit(e)
         \/ UNCHANGED configVars
  PROVE  PrintInv'
  <1>1. CASE walk = "idle"
    BY <1>1 DEF walkVars, PrintInv
  <1>2. CASE walk # "idle"
    <2>1. at[Walker] = "running"
      BY <1>2 DEF PrintInv
    <2>2. conf'[Walker] = conf[Walker] /\ env'[Walker] = env[Walker] /\ at'[Walker] = at[Walker]
      <3>1. ASSUME NEW p \in Procs \ {Walker}, Start(p) \/ Store(p) \/ Exit(p) \/ Crash(p)
            PROVE  conf'[Walker] = conf[Walker] /\ env'[Walker] = env[Walker] /\ at'[Walker] = at[Walker]
        BY <3>1, WalkerAssumption
           DEF AtType, ConfType, Start, Store, Open, Write, WriteFails, Exit, Crash, Off
      <3>2. ~Start(Walker) /\ ~Store(Walker)
        BY <2>1 DEF Start, Store, Open, Write, WriteFails
      <3>3. ASSUME (\E e \in Edits : Edit(e)) \/ UNCHANGED configVars
            PROVE  conf' = conf /\ env' = env /\ at' = at
        BY <3>3 DEF Edit, configVars
      <3> QED BY <3>1, <3>2, <3>3
    <2>3. Algo' = Algo
      BY <2>2 DEF Algo, Effective, First
    <2> QED BY <2>1, <2>2, <2>3 DEF walkVars, PrintInv, Printed, Number, Supported
  <1> QED BY <1>1, <1>2

LEMMA AnalyzingPrints ==
  ASSUME WalkInv, PrintInv, Analyzing
  PROVE  PrintInv'
  <1>1. at[Walker] = "running" /\ at' = at /\ Algo' = Algo
    BY DEF Analyzing, configVars, Algo, Effective, First
  <1>2. CASE Begin
    <2>1. walk' = "walking" /\ lines' = <<>> /\ found' = {}
      BY <1>2 DEF Begin, WalkInv
    <2> QED BY <1>1, <2>1, NoLines DEF PrintInv, Printed
  <1>3. CASE Visit
    <2>1. walk = "walking" /\ lines' = lines /\ Number' = next /\ next \notin found
      BY <1>3 DEF Visit, Number, WalkInv, WalkTypeOK
    <2>2. \/ walk' = "file" /\ found' \in {found, found \cup {next}}
          \/ walk' \in {"walking", "done"} /\ found' = found
      BY <1>3 DEF Visit
    <2> QED BY <1>1, <2>1, <2>2 DEF PrintInv, Printed, Supported
  <1>4. CASE Export(Algo)
    <2>1. walk = "file" /\ walk' = "walking" /\ found' = found /\ next' = next /\ Number \in Int
      BY <1>4 DEF Export, WalkInv, WalkTypeOK, Number
    <2>2. /\ Printed = IF Supported(Algo) THEN found \ {Number} ELSE {}
          /\ Number \in found <=> val \notin {NIL, <<>>}
      BY <2>1 DEF PrintInv, WalkInv
    <2>3. a' = IF val = NIL \/ ~Supported(Algo) THEN <<>> ELSE val
      BY <1>4, TripIsExact DEF Export, WalkInv
    <2>4. CASE a' = <<>>
      <3>1. lines' = lines
        BY <1>4, <2>4 DEF Export
      <3>2. Supported(Algo) => Number \notin found
        BY <2>2, <2>3, <2>4
      <3> QED BY <1>1, <2>1, <2>2, <3>1, <3>2 DEF PrintInv, Printed, Supported
    <2>5. CASE a' # <<>>
      <3>1. Supported(Algo) /\ Number \in found
        BY <2>2, <2>3, <2>5
      <3> DEFINE line == [file |-> Number, chromaprint |-> a'[1].chromaprint]
      <3>2. lines' = Append(lines, line) /\ lines \in Seq(Line)
        BY <1>4, <2>5, TreeType DEF Export, WalkInv
      <3>3. /\ Len(lines) \in Nat /\ DOMAIN lines = 1 .. Len(lines)
            /\ DOMAIN lines' = 1 .. Len(lines) + 1
            /\ \A i \in 1 .. Len(lines) : lines'[i] = lines[i]
            /\ lines'[Len(lines) + 1].file = Number
        <4>1. line.file = Number
          OBVIOUS
        <4> HIDE DEF line
        <4>2. lines \in Seq(Line \cup {line}) /\ line \in Line \cup {line}
          BY <3>2, SeqMonotonic
        <4>3. /\ Append(lines, line) \in Seq(Line \cup {line})
              /\ Len(Append(lines, line)) = Len(lines) + 1
              /\ \A i \in 1 .. Len(lines) : Append(lines, line)[i] = lines[i]
              /\ Append(lines, line)[Len(lines) + 1] = line
          BY <4>2, AppendProperties
        <4> QED BY <3>2, <4>1, <4>2, <4>3, LenProperties
      <3>4. Printed' = Printed \cup {Number}
        BY <3>3 DEF Printed
      <3> QED BY <1>1, <2>1, <2>2, <3>1, <3>4 DEF PrintInv, Supported
    <2> QED BY <2>4, <2>5
  <1>5. CASE Finish
    BY <1>1, <1>5 DEF Finish, PrintInv, Printed, Supported
  <1> QED BY <1>2, <1>3, <1>4, <1>5 DEF Analyzing, WalkStep

AnswerInv == ReadInv /\ WalkInv /\ PrintInv

LEMMA AnswerInvStep == AnswerInv /\ [Next]_vars => AnswerInv'
  <1> SUFFICES ASSUME ReadInv, WalkInv, PrintInv, [Next]_vars PROVE PrintInv'
    BY ReadInvStep, WalkInvStep DEF AnswerInv
  <1>1. AtType /\ ConfType
    BY DEF ReadInv, IInv
  <1>2. CASE Forget
    BY <1>2 DEF Forget, PrintInv
  <1> QED BY <1>1, <1>2, AlgoStays, AnalyzingPrints DEF Next, Running, Ending, Leaving, vars

LEMMA AnswerInvInit == Init => AnswerInv
  BY IInvInit, ConfTypeInit, ReadInit, WalkInvInit
     DEF AnswerInv, ReadInv, Init, WalkInit, PrintInv

\* Every file the helper found streams in gets its line, and no other does, if the
\* compression that the walker has read is one of those there are; with another no
\* file does.  What other processes store, and the user writes, does not change this.
THEOREM FoundArePrinted == Spec => []AnswersPrinted
  <1>1. AnswerInv => AnswersPrinted
    BY DEF AnswerInv, PrintInv, AnswersPrinted, Printed
  <1> QED BY <1>1, AnswerInvInit, AnswerInvStep, PTL DEF Spec

-----------------------------------------------------------------------------
(* The end of the command *)

Alive == at[Walker] \in {"read", "truncated", "running"}

\* How far the walker has to go: its store, the beginning of its walk, the walk, its exit.
Stage ==
  CASE at[Walker] = "read" -> 5
    [] at[Walker] = "truncated" -> 4
    [] at[Walker] = "running" /\ walk = "idle" -> 3
    [] at[Walker] = "running" /\ walk \in {"walking", "file"} -> 2
    [] at[Walker] = "running" /\ walk = "done" -> 1
    [] OTHER -> 0

\* Entries that are to be visited, each of which may have to be exported.
EntriesLeft == 2 * (Len(tree) + 1 - next) + IF walk = "file" THEN 1 ELSE 0

Nearer ==
  \/ Stage' < Stage
  \/ /\ Stage = 2 /\ Stage' = 2
     /\ EntriesLeft \in Nat /\ EntriesLeft' \in Nat /\ EntriesLeft' < EntriesLeft

LEMMA WalkComesNearer ==
  ASSUME WalkInv, Analyzing
  PROVE  Nearer
  <1>1. at[Walker] = "running" /\ at' = at
    BY DEF Analyzing, configVars
  <1>2. next \in 1 .. Len(tree) + 1 /\ Len(tree) \in Nat
    BY TreeType DEF WalkInv, WalkTypeOK
  <1>3. CASE Begin \/ Finish
    BY <1>1, <1>3 DEF Begin, Finish, Nearer, Stage
  <1>4. CASE Visit
    <2>1. walk = "walking" /\ next <= Len(tree) /\ next' = next + 1 /\ tree' = tree
          /\ walk' \in {"walking", "file", "done"}
      BY <1>4 DEF Visit
    <2>2. CASE walk' = "done"
      BY <1>1, <2>1, <2>2 DEF Nearer, Stage
    <2>3. CASE walk' \in {"walking", "file"}
      <3>1. Stage = 2 /\ Stage' = 2
        BY <1>1, <2>1, <2>3 DEF Stage
      <3>2. EntriesLeft \in Nat /\ EntriesLeft' \in Nat /\ EntriesLeft' < EntriesLeft
        BY <1>2, <2>1, <2>3 DEF EntriesLeft
      <3> QED BY <3>1, <3>2 DEF Nearer
    <2> QED BY <2>1, <2>2, <2>3
  <1>5. CASE Export(Algo)
    <2>1. walk = "file" /\ walk' = "walking" /\ UNCHANGED <<tree, next>>
      BY <1>5 DEF Export
    <2>2. Stage = 2 /\ Stage' = 2
      BY <1>1, <2>1 DEF Stage
    <2>3. EntriesLeft \in Nat /\ EntriesLeft' \in Nat /\ EntriesLeft' < EntriesLeft
      BY <1>2, <2>1 DEF EntriesLeft
    <2> QED BY <2>2, <2>3 DEF Nearer
  <1> QED BY <1>3, <1>4, <1>5 DEF Analyzing, WalkStep

\* The half of CommandEnds that needs no fairness: every step of the process that runs
\* `analyze' takes it nearer to its end, and no step of another process, and no edit,
\* takes it back or makes its walk longer.
THEOREM CommandComesNearer ==
  Spec => [][/\ Running(Walker) => Nearer
             /\ Alive => Nearer \/ (at'[Walker] = at[Walker] /\ UNCHANGED walkVars)]_vars
  <1> DEFINE Goal == /\ Running(Walker) => Nearer
                     /\ Alive => Nearer \/ (at'[Walker] = at[Walker] /\ UNCHANGED walkVars)
  <1>1. ASSUME AnswerInv, [Next]_vars PROVE [Goal]_vars
    <2>1. AtType /\ Walker \in Procs /\ WalkInv /\ PrintInv
      BY <1>1, WalkerAssumption DEF AnswerInv, ReadInv, IInv
    <2>2. ASSUME Running(Walker) PROVE Nearer
      <3>1. CASE Store(Walker) /\ UNCHANGED walkVars
        <4>1. /\ at[Walker] \in {"read", "truncated"}
              /\ at'[Walker] \in {"truncated", "running"}
              /\ at'[Walker] # at[Walker]
          BY <2>1, <3>1 DEF AtType, Store, Open, Write, WriteFails
        <4>2. walk = "idle" /\ walk' = "idle"
          BY <2>1, <3>1, <4>1 DEF PrintInv, walkVars
        <4> QED BY <4>1, <4>2 DEF Nearer, Stage
      <3>2. CASE Ending(Walker)
        <4>1. at[Walker] = "running" /\ at'[Walker] = "off" /\ walk = "done"
          BY <2>1, <3>2 DEF Ending, Exit, Off, AtType
        <4> QED BY <4>1 DEF Nearer, Stage
      <3>3. CASE Analyzing
        BY <2>1, <3>3, WalkComesNearer
      <3> QED BY <2>2, <3>1, <3>2, <3>3 DEF Running
    <2>3. ASSUME Alive, Next PROVE Nearer \/ (at'[Walker] = at[Walker] /\ UNCHANGED walkVars)
      <3>1. CASE Running(Walker)
        BY <2>2, <3>1
      <3>2. CASE Crash(Walker)
        <4>1. at'[Walker] = "off"
          BY <2>1, <3>2 DEF Crash, Off, AtType
        <4>2. Stage' = 0
          BY <4>1 DEF Stage
        <4>3. Stage \in {1, 2, 3, 4, 5}
          BY <2>1, <2>3 DEF Alive, Stage, WalkInv, WalkTypeOK
        <4> QED BY <4>2, <4>3 DEF Nearer
      <3>3. ~Start(Walker)
        BY <2>3 DEF Alive, Start
      <3>4. ASSUME NEW p \in Procs \ {Walker},
                   \/ Start(p) /\ UNCHANGED walkVars
                   \/ Running(p)
                   \/ Crash(p) /\ Leaving(p)
            PROVE  at'[Walker] = at[Walker] /\ UNCHANGED walkVars
        BY <2>1, <3>4 DEF Running, Store, Open, Write, WriteFails, Ending, Exit, Leaving,
                          Start, Crash, Off, AtType
      <3>5. ASSUME NEW e \in Edits, Edit(e), UNCHANGED walkVars
            PROVE  at'[Walker] = at[Walker] /\ UNCHANGED walkVars
        BY <3>5 DEF Edit
      <3> QED BY <2>3, <3>1, <3>2, <3>3, <3>4, <3>5 DEF Next
    <2> QED BY <1>1, <2>2, <2>3
  <1> QED BY <1>1, AnswerInvInit, AnswerInvStep, PTL DEF Spec
=============================================================================
