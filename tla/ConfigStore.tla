---------------------------- MODULE ConfigStore ----------------------------
(***************************************************************************)
(* audiofs.yaml.  Every start of audiofs-cli reads it (config/             *)
(* viper_wrapper.go, init) and, before any command runs, writes it back    *)
(* with the defaults filled in (Store, called by cmd/audiofs-cli.go).      *)
(* Starts may overlap, a process may be killed, the user may edit the file *)
(* at any time, and the RWMutex of the wrapper is never used.              *)
(*                                                                         *)
(* Viper is external: it reads the file as a whole; WriteConfigAs opens    *)
(* with O_TRUNC and then writes all settings at once, the values that come *)
(* from the environment among them.                                        *)
(***************************************************************************)
EXTENDS Naturals, FiniteSets

CONSTANTS
  Procs,     \* processes
  Keys,      \* names of settings
  Values,    \* values of each setting
  Default,   \* the values of SetDefault
  Unset,     \* no value
  Edits,     \* what a user may write into the file
  Envs,      \* environments a process may be started in
  MaxStarts, MaxEdits  \* bounds

Partial ==
  {s \in [Keys -> (UNION {Values[k] : k \in Keys}) \cup {Unset}] :
     \A k \in Keys : s[k] \in Values[k] \cup {Unset}}

ASSUME ConfigAssumption ==
  /\ \A k \in Keys : Unset \notin Values[k] /\ Default[k] \in Values[k]
  /\ Edits \cup Envs \subseteq Partial
  /\ {MaxStarts, MaxEdits} \subseteq Nat

VARIABLES
  file,   \* the file: missing, a YAML document, or torn; and what it sets
  at,     \* where each process is
  conf,   \* what each process has read
  env,    \* the environment it was started in
  starts, edits,  \* how many there were
  ought,  \* history: what a start ought to find in the file
  events  \* history: what has happened to the file that should not

counts == <<starts, edits>>
configVars == <<file, at, conf, env, counts, ought, events>>

Nothing == [k \in Keys |-> Unset]

Missing == [is |-> "missing", has |-> Nothing]
Document(settings) == [is |-> "document", has |-> settings]
Torn == [is |-> "torn", has |-> Nothing]

ConfigTypeOK ==
  /\ file \in [is : {"missing", "document", "torn"}, has : Partial]
  /\ at \in [Procs -> {"off", "panicked", "read", "truncated", "running"}]
  /\ conf \in [Procs -> Partial] /\ env \in [Procs -> Partial]
  /\ starts \in 0 .. MaxStarts /\ edits \in 0 .. MaxEdits
  /\ ought \in Partial
  /\ events \subseteq {"crash", "overlap", "nospace"}

ConfigInit ==
  /\ file \in {Missing} \cup {Document(e) : e \in Edits}
  /\ at = [p \in Procs |-> "off"]
  /\ conf = [p \in Procs |-> Nothing] /\ env = [p \in Procs |-> Nothing]
  /\ starts = 0 /\ edits = 0
  /\ ought = file.has
  /\ events = {}

First(k, maps) ==
  IF maps[1][k] # Unset THEN maps[1][k]
  ELSE IF maps[2][k] # Unset THEN maps[2][k] ELSE Default[k]

\* Mutant: what the file says comes before the environment.
EffectiveFileFirst(p, k) == First(k, <<conf[p], env[p]>>)

\* viper's Get: environment, file, default.
Effective(p, k) == First(k, <<env[p], conf[p]>>)

Storing(p) == at[p] \in {"read", "truncated"}

Overlaps(p) == IF \E q \in Procs \ {p} : Storing(q) THEN {"overlap"} ELSE {}

-----------------------------------------------------------------------------
\* init, ReadInConfig: no file is no error; a torn file may be no YAML, which is a
\* panic, or be read as whatever is left of it.
Start(p) ==
  /\ at[p] \in {"off", "panicked"} /\ starts < MaxStarts
  /\ starts' = starts + 1
  /\ env' \in {[env EXCEPT ![p] = e] : e \in Envs}
  /\ \/ /\ at' = [at EXCEPT ![p] = "read"]
        /\ conf' \in {[conf EXCEPT ![p] = c] :
                        c \in IF file.is = "torn" THEN Partial ELSE {file.has}}
     \/ /\ file.is = "torn"
        /\ at' = [at EXCEPT ![p] = "panicked"]
        /\ UNCHANGED conf
  /\ events' = events \cup Overlaps(p)
  /\ UNCHANGED <<file, edits, ought>>

\* Mutant: without O_TRUNC.
OpenKeeps(p) ==
  /\ at[p] = "read"
  /\ at' = [at EXCEPT ![p] = "truncated"]
  /\ UNCHANGED <<file, conf, env, counts, ought, events>>

\* Store opens the file, or cannot, which nobody hears of.
Open(p) ==
  /\ at[p] = "read"
  /\ \/ /\ at' = [at EXCEPT ![p] = "truncated"]
        /\ file' = Document(Nothing)
     \/ /\ at' = [at EXCEPT ![p] = "running"]
        /\ UNCHANGED file
  /\ UNCHANGED <<conf, env, counts, ought, events>>

Stored(p) == [k \in Keys |-> Effective(p, k)]

\* What a store should leave behind: its environment over what it ought to have
\* read.
OughtAfter(p) == [k \in Keys |-> First(k, <<env[p], ought>>)]

\* The write starts at offset 0 of the file as it is now: over a longer document of
\* another process it leaves the end of that.
Write(p) ==
  /\ at[p] = "truncated"
  /\ at' = [at EXCEPT ![p] = "running"]
  /\ file' \in {Document(Stored(p))}
               \cup (IF file = Document(Nothing) THEN {} ELSE {Torn})
  /\ ought' = OughtAfter(p)
  /\ UNCHANGED <<conf, env, counts, events>>

\* A write for which there is no space ends where it ends.
WriteFails(p) ==
  /\ at[p] = "truncated"
  /\ at' = [at EXCEPT ![p] = "running"]
  /\ file' \in {Document(Nothing), Torn}
  /\ ought' = OughtAfter(p)
  /\ events' = events \cup {"nospace"}
  /\ UNCHANGED <<conf, env, counts>>

Off(p) ==
  /\ at' = [at EXCEPT ![p] = "off"]
  /\ conf' = [conf EXCEPT ![p] = Nothing]
  /\ env' = [env EXCEPT ![p] = Nothing]

\* The command has run.
Exit(p) ==
  /\ at[p] = "running"
  /\ Off(p)
  /\ UNCHANGED <<file, counts, ought, events>>

\* The process is killed; only a process that has truncated the file leaves a mark.
Crash(p) ==
  /\ at[p] \in {"read", "truncated", "running"}
  /\ Off(p)
  /\ events' = IF at[p] = "truncated" THEN events \cup {"crash"} ELSE events
  /\ UNCHANGED <<file, counts, ought>>

\* The user edits the file in place.
Edit(e) ==
  /\ edits < MaxEdits
  /\ edits' = edits + 1
  /\ file' = Document(e)
  /\ ought' = e
  /\ events' = IF \E p \in Procs : Storing(p) THEN events \cup {"overlap"} ELSE events
  /\ UNCHANGED <<at, conf, env, starts>>

Store(p) == Open(p) \/ Write(p) \/ WriteFails(p)

-----------------------------------------------------------------------------
(* Properties *)

\* A configuration file that cannot be read, which ends every start with a panic,
\* comes from two stores at once or a full disk: a process that is killed, at
\* whatever point, does not make one, nor does any number of rewrites.
PanicHasCause ==
  (\E p \in Procs : at[p] = "panicked") => events \cap {"overlap", "nospace"} # {}

\* What was stored is what is read: a start finds the last store or edit with its
\* every setting.  After a process was killed in its store a setting is what it
\* was, or its default; never a third value.
ReadsLastStore ==
  [][\A p \in Procs : at[p] # "read" /\ at'[p] = "read" =>
       /\ events' = {} => conf'[p] = ought
       /\ events' \subseteq {"crash"} =>
            \A k \in Keys : conf'[p][k] \in {ought[k], Unset, Default[k]}]_configVars
=============================================================================
