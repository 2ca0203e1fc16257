-------------------------------- MODULE Cli --------------------------------
(***************************************************************************)
(* audiofs-cli: main reads and stores the configuration (ConfigStore) and  *)
(* then runs its command.  One of the processes runs `analyze' (Analyze),  *)
(* with the compression that it finds configured; the commands of the      *)
(* others only print.                                                      *)
(***************************************************************************)
EXTENDS ConfigStore, Analyze

CONSTANT Walker  \* the process that runs analyze

ASSUME WalkerAssumption == Walker \in Procs /\ "algo" \in Keys

vars == <<configVars, walkVars>>

TypeOK == ConfigTypeOK /\ WalkTypeOK

Init == ConfigInit /\ WalkInit

\* json_export.compression.algo: a process reads its configuration once.
Algo == Effective(Walker, "algo")

Analyzing ==
  /\ at[Walker] = "running"
  /\ WalkStep(Algo)
  /\ UNCHANGED configVars

\* Processes other than the walker leave its walk alone, which ends with it.
Leaving(p) == IF p = Walker THEN Forget ELSE UNCHANGED walkVars

Ending(p) ==
  /\ Exit(p) /\ Leaving(p)
  /\ p = Walker => walk = "done"

Running(p) == (Store(p) /\ UNCHANGED walkVars) \/ Ending(p) \/ (p = Walker /\ Analyzing)

Next ==
  \/ \E p \in Procs : Start(p) /\ UNCHANGED walkVars
  \/ \E p \in Procs : Running(p)
  \/ \E p \in Procs : Crash(p) /\ Leaving(p)
  \/ \E e \in Edits : Edit(e) /\ UNCHANGED walkVars

Spec == Init /\ [][Next]_vars

\* A process runs on.
FairSpec == Spec /\ \A p \in Procs : WF_vars(Running(p))

-----------------------------------------------------------------------------
(* Properties *)

\* Every file the helper found streams in gets its line, until the walk ends or meets
\* what it cannot read, as long as the compression is one of those of
\* CompressedJSON.go; with another none gets one, and nothing is said.
AnswersPrinted ==
  walk \in {"walking", "done"} =>
    {lines[i].file : i \in DOMAIN lines} = IF Supported(Algo) THEN found ELSE {}

\* The process that runs `analyze' comes to its end, whatever is in the file and in
\* the directory, and whatever the other processes do.
CommandEnds ==
  at[Walker] = "read" ~> at[Walker] = "off"
=============================================================================
