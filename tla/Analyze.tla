------------------------------ MODULE Analyze ------------------------------
(***************************************************************************)
(* The command `analyze': filepath.Walk over a directory (cmd/             *)
(* audiofs-cli.go), the helper's answer for each FLAC file (module         *)
(* Metadata), read by lib/types/FileMetadata.go, then written and read     *)
(* back by util/CompressedJSON.go, and printed.                            *)
(*                                                                         *)
(* A fingerprint is the number of the file it was taken from, 0 if the     *)
(* stream has none.                                                        *)
(***************************************************************************)
EXTENDS Integers, Sequences

CONSTANTS
  Trees,      \* what a walk finds, in its order: "flac", "other" or "unreadable"
  Kinds,      \* what the helper says of a stream: the numerator and denominator of
              \* its time base, and whether it has a fingerprint
  MaxStreams, \* bound: streams in a file
  NIL         \* Go's nil

VARIABLES
  tree,   \* what is walked
  next,   \* the entry that is next
  val,    \* what GetMetadataFromFile returned for the last entry
  a,      \* the metadata that was written and read back
  lines,  \* the lines printed: file and fingerprint
  walk,   \* where the command is
  found   \* history: files the helper has found streams in

walkVars == <<tree, next, val, a, lines, walk, found>>

\* Mutant: the entry that will be visited next.
NumberNext == next

\* The entry that was visited last.
Number == next - 1

Rationals == [num : Int, den : Nat \ {0}]

Streams == [num : Int, den : Nat, rat : Rationals \cup {NIL}, chromaprint : Nat]

\* The documents the helper prints and json.Marshal makes, and the latter compressed.
\* FFmpeg's denominators are not negative.
Bare == [time_base_num : Int, time_base_den : Nat, time_base : Rationals \cup {NIL}]
Documents ==
  Seq(Bare \cup [time_base_num : Int, time_base_den : Nat, time_base : Rationals \cup {NIL},
                 chromaprint : Nat])
Compressed == [by : {"zstd", "none"}, json : Documents \cup {NIL}]

ASSUME WalkAssumption ==
  /\ Trees \subseteq Seq({"flac", "other", "unreadable"})
  /\ Kinds \subseteq Int \X Nat \X BOOLEAN
  /\ MaxStreams \in Nat
  /\ NIL \notin Rationals \cup Seq(Streams) \cup Documents \cup Compressed

WalkTypeOK ==
  /\ tree \in Trees \cup {<<>>}
  /\ next \in 1 .. Len(tree) + 1
  /\ val \in Seq(Streams) \cup {NIL} /\ a \in Seq(Streams)
  /\ lines \in Seq([file : 1 .. Len(tree), chromaprint : Nat])
  /\ walk \in {"idle", "walking", "file", "done"}
  /\ found \subseteq 1 .. Len(tree)

WalkInit ==
  /\ tree = <<>>
  /\ next = 1
  /\ val = NIL /\ a = <<>> /\ lines = <<>>
  /\ walk = "idle"
  /\ found = {}

-----------------------------------------------------------------------------
(* FileMetadata.go *)

Divides(d, n) == n % d = 0

\* big.NewRat: the least terms.
NewRat(num, den) ==
  LET g == CHOOSE d \in 1 .. den :
             /\ Divides(d, num) /\ Divides(d, den)
             /\ \A e \in d + 1 .. den : ~(Divides(e, num) /\ Divides(e, den))
  IN [num |-> num \div g, den |-> den \div g]

\* Mutant: the numerator is taken from the reduced fraction, the denominator not.
FilledHalf(s) ==
  LET r == IF s.rat = NIL /\ s.den # 0 THEN NewRat(s.num, s.den) ELSE s.rat
  IN IF r = NIL THEN s
     ELSE [s EXCEPT !.rat = r, !.num = r.num, !.den = IF @ = 0 THEN r.den ELSE @]

\* filltimeBase: the fraction from its parts, unless the denominator is 0, and parts
\* that are 0 from the fraction.
Filled(s) ==
  LET r == IF s.rat = NIL /\ s.den # 0 THEN NewRat(s.num, s.den) ELSE s.rat
  IN IF r = NIL THEN s
     ELSE [s EXCEPT !.rat = r, !.num = IF @ = 0 THEN r.num ELSE @,
                    !.den = IF @ = 0 THEN r.den ELSE @]

\* json.Unmarshal: `null' is the empty value; members left out are zero.
Unmarshalled(json) ==
  IF json = NIL THEN <<>>
  ELSE [i \in DOMAIN json |->
          Filled([num |-> json[i].time_base_num, den |-> json[i].time_base_den,
                  rat |-> json[i].time_base,
                  chromaprint |-> IF "chromaprint" \in DOMAIN json[i]
                                  THEN json[i].chromaprint ELSE 0])]

\* json.Marshal: an empty fingerprint is left out.
Marshalled(v) ==
  IF v = NIL THEN NIL
  ELSE [i \in DOMAIN v |->
          LET fp == IF v[i].chromaprint = 0 THEN {} ELSE {"chromaprint"}
          IN [m \in {"time_base_num", "time_base_den", "time_base"} \cup fp |->
                CASE m = "time_base_num" -> v[i].num
                  [] m = "time_base_den" -> v[i].den
                  [] m = "time_base" -> v[i].rat
                  [] OTHER -> v[i].chromaprint]]

(* CompressedJSON.go *)

Supported(algo) == algo \in {"zstd", "none", ""}

\* The bytes, by the algorithm that made them; nil if there is none such.
MarshallCompressed(algo, v) ==
  IF Supported(algo) THEN [by |-> IF algo = "" THEN "none" ELSE algo, json |-> Marshalled(v)]
  ELSE NIL

\* With an algorithm that is not supported `a' stays as it was declared.
UnmarshallCompressed(algo, d) ==
  IF Supported(algo) /\ d # NIL THEN Unmarshalled(d.json) ELSE <<>>

-----------------------------------------------------------------------------
(* audiofs-cli.go *)

Begin ==
  /\ walk = "idle"
  /\ walk' = "walking"
  /\ tree' \in Trees
  /\ UNCHANGED <<next, val, a, lines, found>>

\* What the helper says of file i, its fingerprint being that of this file.
Answers(i) ==
  UNION {[1 .. n -> {[time_base_num |-> k[1], time_base_den |-> k[2], time_base |-> NIL,
                      chromaprint |-> IF k[3] THEN i ELSE 0] : k \in Kinds}]
         : n \in 0 .. MaxStreams}

\* Mutant: does not go on after a file that is not FLAC.
VisitStays ==
  /\ walk = "walking" /\ next <= Len(tree)
  /\ \/ tree[next] = "other" /\ UNCHANGED <<next, val, walk, found>>
     \/ /\ tree[next] = "flac"
        /\ next' = next + 1
        /\ walk' = "file"
        /\ val' = NIL /\ UNCHANGED found
  /\ UNCHANGED <<tree, a, lines>>

\* Mutant: val is one variable for the whole walk, and set only when the helper succeeds.
VisitKeeps ==
  /\ walk = "walking" /\ next <= Len(tree)
  /\ next' = next + 1
  /\ \/ tree[next] = "unreadable" /\ walk' = "done" /\ UNCHANGED <<val, found>>
     \/ tree[next] = "other" /\ UNCHANGED <<val, walk, found>>
     \/ /\ tree[next] = "flac"
        /\ walk' = "file"
        /\ \/ \E answer \in Answers(next) :
                /\ val' = Unmarshalled(answer)
                /\ found' = IF answer = <<>> THEN found ELSE found \cup {next}
           \/ UNCHANGED <<val, found>>
  /\ UNCHANGED <<tree, a, lines>>

\* An entry that is not read ends the walk, one that is no FLAC file is passed
\* over; the helper's failure is logged, and nil.
Visit ==
  /\ walk = "walking" /\ next <= Len(tree)
  /\ next' = next + 1
  /\ \/ tree[next] = "unreadable" /\ walk' = "done" /\ UNCHANGED <<val, found>>
     \/ tree[next] = "other" /\ UNCHANGED <<val, walk, found>>
     \/ /\ tree[next] = "flac"
        /\ walk' = "file"
        /\ \/ \E answer \in Answers(next) :
                /\ val' = Unmarshalled(answer)
                /\ found' = IF answer = <<>> THEN found ELSE found \cup {next}
           \/ val' = NIL /\ UNCHANGED found
  /\ UNCHANGED <<tree, a, lines>>

\* Mutant: off by one.
ExportMany(algo) ==
  /\ walk = "file"
  /\ a' = UnmarshallCompressed(algo, MarshallCompressed(algo, val))
  /\ lines' = IF Len(a') <= 1 THEN lines
              ELSE Append(lines, [file |-> Number, chromaprint |-> a'[1].chromaprint])
  /\ walk' = "walking"
  /\ UNCHANGED <<tree, next, val, found>>

\* Written, read back, and printed with the fingerprint of the first stream, be it
\* the empty one.  Errors are logged.
Export(algo) ==
  /\ walk = "file"
  /\ a' = UnmarshallCompressed(algo, MarshallCompressed(algo, val))
  /\ lines' = IF a' = <<>> THEN lines
              ELSE Append(lines, [file |-> Number, chromaprint |-> a'[1].chromaprint])
  /\ walk' = "walking"
  /\ UNCHANGED <<tree, next, val, found>>

Finish ==
  /\ walk = "walking" /\ next > Len(tree)
  /\ walk' = "done"
  /\ UNCHANGED <<tree, next, val, a, lines, found>>

\* The process has ended.
Forget ==
  /\ tree' = <<>>
  /\ next' = 1
  /\ val' = NIL /\ a' = <<>> /\ lines' = <<>>
  /\ walk' = "idle"
  /\ found' = {}

WalkStep(algo) == Begin \/ Visit \/ Export(algo) \/ Finish

-----------------------------------------------------------------------------
(* Properties *)

\* A line never shows the fingerprint of another file, and there is one line for a
\* file at most, in the order of the walk, through the helper, the compression and back.
LinesAreOwn ==
  /\ \A i \in DOMAIN lines : lines[i].chromaprint \in {0, lines[i].file}
  /\ \A i, j \in DOMAIN lines : i < j => lines[i].file < lines[j].file

\* What is written and read back is what was there, and the three ways to say the
\* time base agree, before and after.
RoundTrip ==
  walk = "walking" /\ a # <<>> /\ Number = lines[Len(lines)].file =>
    /\ a = val
    /\ \A i \in DOMAIN a : a[i].rat # NIL => a[i].rat.num * a[i].den = a[i].num * a[i].rat.den
=============================================================================
