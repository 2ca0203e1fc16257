------------------------------ MODULE Metadata ------------------------------
(***************************************************************************)
(* One file through the helper process: util.GetMetadataFromFile (Go) runs *)
(* `native <file>', whose main prints what get_metadate_from_file          *)
(* (native/libav.c) makes of it, a JSON document with a Chromaprint        *)
(* fingerprint for every audio stream.                                     *)
(*                                                                         *)
(* What can go wrong in it is ownership: of the demuxer, of the AVIO       *)
(* handle that do_transcode returns, and of the JSON values, which jansson *)
(* counts references to.  Nor does it look at what jansson returns: a      *)
(* value there is no memory for, or a string that is no UTF-8, is left out *)
(* of a document that goes out all the same.  Faults says which external   *)
(* calls may fail.                                                         *)
(***************************************************************************)
EXTENDS Naturals, Sequences, FiniteSets

CONSTANTS
  Files,    \* for each file its streams, "audio" or "other"
  Faults,   \* "open", "info", "transcode", "empty", "bytes", "memory": see where they bite
  MaxShort  \* bound: values that a step finds no memory to make or to hold

\* A file has no more streams than FFmpeg lets it have, so that one has most.
ASSUME FilesAssumption ==
  /\ Files \subseteq Seq({"audio", "other"})
  /\ \E longest \in Files : \A f \in Files : Len(f) <= Len(longest)

VARIABLES
  pc,
  streams,      \* codec types of the streams of the file
  cur,          \* the stream being described
  demuxer,      \* fmt_ctx: "none", "allocated", "open" or "closed"
  refs,         \* references to each JSON value, 0 before creation and when freed
  todo,         \* values whose reference is about to be dropped, in that order
  dangling,     \* a value was used after it had been freed
  null,         \* values there was no memory for: their variable is NULL
  unheld,       \* values that what should hold them does not hold
  handle,       \* an AVIO handle is open
  transcoded,   \* the streams whose fingerprint was taken from a handle
  fingerprint,  \* the streams whose entry has a fingerprint
  unstored,     \* those whose fingerprint was refused by json_string or json_object_set_new
  described,    \* the streams whose other fields were set
  ret,          \* what get_metadate_from_file returns
  output,       \* what the process printed, and whether it ended well
  answer        \* what GetMetadataFromFile returns

vars == <<pc, streams, cur, demuxer, refs, todo, dangling, null, unheld, handle,
          transcoded, fingerprint, unstored, described, ret, output, answer>>

\* The JSON values with members, as <<variable of the source, stream or 0>>.
MaxStreams == LET longest == CHOOSE f \in Files : \A g \in Files : Len(g) <= Len(f)
              IN Len(longest)

FileValues == {"json", "json_file", "json_file_format", "json_file_metadata",
               "json_streams_array"} \X {0}

StreamValues(n) == {"json_streams", "json_streams_metadata", "json_streams_codec"} \X (1 .. n)

Values == FileValues \cup StreamValues(MaxStreams)

NULL == <<"NULL", 0>>

\* What is put into a value.
Fields(v) ==
  CASE v[1] = "json" -> <<<<"json_file", 0>>, <<"json_streams_array", 0>>>>
    [] v[1] = "json_file" -> <<<<"json_file_metadata", 0>>, <<"json_file_format", 0>>>>
    [] v[1] = "json_streams_array" -> [i \in DOMAIN streams |-> <<"json_streams", i>>]
    [] v[1] = "json_streams" -> <<<<"json_streams_metadata", v[2]>>,
                                  <<"json_streams_codec", v[2]>>>>
    [] OTHER -> <<>>

\* What it holds a reference to.
Members(v) ==
  [i \in DOMAIN Fields(v) |->
     IF Fields(v)[i] \in null \cup unheld THEN NULL ELSE Fields(v)[i]]

TypeOK ==
  /\ pc \in {"start", "open", "info", "setup", "stream", "fingerprint", "dump",
             "release", "end", "return", "printed", "answered", "crashed"}
  /\ streams \in Files \cup {<<>>}
  /\ cur \in 1 .. MaxStreams + 1
  /\ demuxer \in {"none", "allocated", "open", "closed"}
  /\ refs \in [Values -> 0 .. 2]
  /\ todo \in Seq(Values \cup {NULL})
  /\ {dangling, handle} \subseteq BOOLEAN
  /\ null \cup unheld \subseteq Values
  /\ transcoded \cup fingerprint \cup unstored \cup described \subseteq DOMAIN streams
  /\ ret \in {"none", "NULL", "empty", "json"}
  /\ output \in {"none", "failed", "empty", "json"}
  /\ answer \in {"none", "error", "metadata"}

Init ==
  /\ pc = "start"
  /\ streams = <<>> /\ cur = 1
  /\ demuxer = "none"
  /\ refs = [v \in Values |-> 0] /\ todo = <<>> /\ dangling = FALSE
  /\ null = {} /\ unheld = {}
  /\ handle = FALSE /\ transcoded = {} /\ fingerprint = {} /\ unstored = {} /\ described = {}
  /\ ret = "none" /\ output = "none" /\ answer = "none"

Goto(from, to) == pc = from /\ pc' = to

\* Everything but pc, and what an action names.
json == <<refs, todo, dangling, null, unheld>>
prints == <<transcoded, fingerprint, unstored>>
document == <<cur, handle, prints, described>>
outcome == <<output, answer>>

\* The values of S that memory is too short for.
Shortages(S) ==
  IF "memory" \in Faults THEN {T \in SUBSET S : Cardinality(T) <= MaxShort} ELSE {{}}

-----------------------------------------------------------------------------
(* get_metadate_from_file *)

\* Everything but the streams' own values exists before the file is opened, unless
\* json_object or json_array returned the NULL that nobody looks for.
Allocate ==
  /\ Goto("start", "open")
  /\ streams' \in Files
  /\ demuxer' = "allocated"
  /\ null' \in Shortages(FileValues)
  /\ refs' = [v \in Values |-> IF v \in FileValues \ null' THEN 1 ELSE 0]
  /\ UNCHANGED <<todo, dangling, unheld, document, ret, outcome>>

\* A context that avformat_open_input cannot fill, it frees.
OpenInput ==
  /\ \/ Goto("open", "info") /\ demuxer' = "open" /\ UNCHANGED ret
     \/ /\ "open" \in Faults
        /\ Goto("open", "return") /\ demuxer' = "closed" /\ ret' = "NULL"
  /\ UNCHANGED <<streams, json, document, outcome>>

FindStreamInfo ==
  /\ \/ Goto("info", "setup") /\ UNCHANGED <<demuxer, ret>>
     \/ /\ "info" \in Faults
        /\ Goto("info", "return") /\ demuxer' = "closed" /\ ret' = "NULL"
  /\ UNCHANGED <<streams, json, document, outcome>>

\* json_object_set_new takes over the reference of its argument, and drops it when it
\* fails; json_object_set and json_array_append, used for the streams, add one.
Given == {"json_file", "json_file_format", "json_file_metadata"} \X {0}
Shared == {<<"json_streams_array", 0>>} \cup StreamValues(Len(streams))

\* Nobody sees them fail, for want of memory or because what is put in, or into what, is
\* NULL.  A value they dropped is written to all the same, the metadata if the file has
\* any (lines 276-291).
SetupJson ==
  /\ \E short \in Shortages(Given \cup Shared) :
       /\ \E none \in SUBSET (short \cap StreamValues(Len(streams))) : null' = null \cup none
       /\ unheld' = short \cup {w \in Given \cup Shared :
            \E v \in null' : \E i \in DOMAIN Fields(v) : Fields(v)[i] = w}
  /\ refs' = [v \in Values |->
                IF v \in null' \/ v \in Given \cap unheld' THEN 0
                ELSE IF v \in Shared THEN (IF v \in unheld' THEN 1 ELSE 2) ELSE refs[v]]
  /\ \E written \in {Given, Given \ {<<"json_file_metadata", 0>>}} :
       dangling' = ((written \cap unheld') \ null' # {})
  /\ \/ Goto("setup", "stream")
     \/ \* The arrays of pointers to a stream's values were sized before the file was
        \* opened, for no stream at all: what is written past their end, or to a
        \* dropped value, may be the end of the process.
        /\ "memory" \in Faults /\ (streams # <<>> \/ dangling')
        /\ Goto("setup", "crashed")
  /\ UNCHANGED <<streams, demuxer, todo, document, ret, outcome>>

\* Mutant: the loop runs to i <= nb_streams.
NextStreamBeyond ==
  /\ pc = "stream"
  /\ \/ cur > Len(streams) + 1 /\ pc' = "dump" /\ UNCHANGED <<cur, described>>
     \/ /\ cur <= Len(streams) /\ streams[cur] = "audio" /\ cur \notin transcoded
        /\ pc' = "fingerprint" /\ UNCHANGED <<cur, described>>
     \/ /\ cur = Len(streams) + 1 \/ cur \in {i \in DOMAIN streams : streams[i] # "audio"} \cup transcoded
        /\ described' = described \cup {cur} /\ cur' = cur + 1 /\ UNCHANGED pc
  /\ UNCHANGED <<streams, demuxer, json, handle, prints, ret, outcome>>

\* Mutant: a stream that is not audio is passed over before the counter moves.
NextStreamStays ==
  /\ pc = "stream"
  /\ \/ cur > Len(streams) /\ pc' = "dump" /\ UNCHANGED <<cur, described>>
     \/ /\ cur <= Len(streams) /\ streams[cur] = "audio" /\ cur \notin transcoded
        /\ pc' = "fingerprint" /\ UNCHANGED <<cur, described>>
     \/ /\ cur <= Len(streams) /\ cur \in transcoded
        /\ described' = described \cup {cur} /\ cur' = cur + 1 /\ UNCHANGED pc
  /\ UNCHANGED <<streams, demuxer, json, handle, prints, ret, outcome>>

\* The loop over the streams: an audio stream gets its fingerprint first.
NextStream ==
  /\ pc = "stream"
  /\ \/ cur > Len(streams) /\ pc' = "dump" /\ UNCHANGED <<cur, described>>
     \/ /\ cur <= Len(streams) /\ streams[cur] = "audio" /\ cur \notin transcoded
        /\ pc' = "fingerprint" /\ UNCHANGED <<cur, described>>
     \/ /\ cur <= Len(streams) /\ (streams[cur] # "audio" \/ cur \in transcoded)
        /\ described' = described \cup {cur} /\ cur' = cur + 1 /\ UNCHANGED pc
  /\ UNCHANGED <<streams, demuxer, json, handle, prints, ret, outcome>>

\* do_transcode.  When it fails audiofs_avio_get_size follows the NULL it returned.
TranscodeStream ==
  /\ \/ ~handle /\ handle' = TRUE /\ pc = "fingerprint" /\ UNCHANGED pc
     \/ "transcode" \in Faults /\ ~handle /\ Goto("fingerprint", "crashed") /\ UNCHANGED handle
  /\ UNCHANGED <<streams, demuxer, json, cur, prints, described, ret, outcome>>

\* The fingerprint becomes a string of the stream's entry, if there is an entry.  Bytes
\* that are no UTF-8, as the undefined ones of a long fingerprint may be, make no string.
StoreFingerprint ==
  /\ transcoded' = transcoded \cup {cur}
  /\ \/ /\ fingerprint' = IF <<"json_streams", cur>> \in null THEN fingerprint
                         ELSE fingerprint \cup {cur}
        /\ UNCHANGED unstored
     \/ /\ Faults \cap {"bytes", "memory"} # {}
        /\ unstored' = unstored \cup {cur} /\ UNCHANGED fingerprint

\* Mutant: the handle of an empty file is not closed.
TakeFingerprintKeeps ==
  /\ handle
  /\ \/ Goto("fingerprint", "stream") /\ StoreFingerprint /\ handle' = FALSE /\ UNCHANGED ret
     \/ /\ "empty" \in Faults /\ Goto("fingerprint", "end")
        /\ ret' = "empty" /\ UNCHANGED <<prints, handle>>
  /\ UNCHANGED <<streams, demuxer, json, cur, described, outcome>>

\* An empty file ends the whole document: json_str is still the literal "".
TakeFingerprint ==
  /\ handle
  /\ handle' = FALSE
  /\ \/ Goto("fingerprint", "stream") /\ StoreFingerprint /\ UNCHANGED ret
     \/ /\ "empty" \in Faults /\ Goto("fingerprint", "end")
        /\ ret' = "empty" /\ UNCHANGED prints
  /\ UNCHANGED <<streams, demuxer, json, cur, described, outcome>>

\* json_dumps, NULL if memory is short or there is nothing to dump, and the references
\* that are dropped after it (lines 407-415).
Dump ==
  /\ Goto("dump", "release")
  /\ \/ <<"json", 0>> \notin null /\ ret' = "json"
     \/ "memory" \in Faults /\ ret' = "NULL"
  /\ todo' = [i \in 1 .. 3 * Len(streams) |->
                LET n == (i - 1) \div 3 + 1 IN
                CASE i % 3 = 1 -> <<"json_streams", n>>
                  [] i % 3 = 2 -> <<"json_streams_metadata", n>>
                  [] OTHER -> <<"json_streams_codec", n>>]
             \o <<<<"json_file_metadata", 0>>, <<"json_file_format", 0>>,
                  <<"json_file", 0>>, <<"json", 0>>>>
  /\ UNCHANGED <<streams, demuxer, refs, dangling, null, unheld, document, outcome>>

\* json_decref: the last reference frees the value and drops those it holds; of NULL
\* there is none.
Decref ==
  /\ pc = "release" /\ todo # <<>>
  /\ LET v == Head(todo)
     IN \/ /\ v \in null \cup {NULL}
           /\ todo' = Tail(todo) /\ UNCHANGED <<pc, refs, dangling>>
        \/ /\ v \notin null \cup {NULL} /\ refs[v] > 0
           /\ refs' = [refs EXCEPT ![v] = @ - 1]
           /\ todo' = (IF refs[v] = 1 THEN Members(v) ELSE <<>>) \o Tail(todo)
           /\ UNCHANGED <<pc, dangling>>
        \/ \* It was freed: its count is whatever the heap keeps there now.
           /\ v \notin null \cup {NULL} /\ refs[v] = 0
           /\ pc' = "release" \/ ("memory" \in Faults /\ pc' = "crashed")
           /\ todo' = Tail(todo) /\ dangling' = TRUE /\ UNCHANGED refs
  /\ UNCHANGED <<streams, demuxer, null, unheld, document, ret, outcome>>

\* The label end:
End ==
  /\ \/ pc = "end" \/ (pc = "release" /\ todo = <<>>)
  /\ pc' = "return"
  /\ demuxer' = "closed"
  /\ UNCHANGED <<streams, json, document, ret, outcome>>

-----------------------------------------------------------------------------
(* main of the helper process, and the Go side that runs it *)

\* A NULL makes the exit status 1, anything else is printed.
Main ==
  /\ Goto("return", "printed")
  /\ output' = IF ret = "NULL" THEN "failed" ELSE ret
  /\ UNCHANGED <<streams, demuxer, json, document, ret, answer>>

\* Mutant: does not look at how the process ended.
CollectTrusting ==
  /\ pc \in {"printed", "crashed"} /\ pc' = "answered"
  /\ answer' = IF pc = "printed" /\ output = "empty" THEN "error" ELSE "metadata"
  /\ UNCHANGED <<streams, demuxer, json, document, ret, output>>

\* A process that failed or died is an error, and so is an empty line, which is
\* no JSON.
Collect ==
  /\ pc \in {"printed", "crashed"} /\ pc' = "answered"
  /\ answer' = IF pc = "printed" /\ output = "json" THEN "metadata" ELSE "error"
  /\ UNCHANGED <<streams, demuxer, json, document, ret, output>>

Native == Allocate \/ OpenInput \/ FindStreamInfo \/ SetupJson \/ NextStream
            \/ TranscodeStream \/ TakeFingerprint \/ Dump \/ Decref \/ End \/ Main

Next == Native \/ Collect

Spec == Init /\ [][Next]_vars

\* The process runs, and exec.Command waits for it to end.
FairSpec == Spec /\ WF_vars(Next)

-----------------------------------------------------------------------------
(* Properties *)

\* The streams that have an entry in the document: the others are those that jansson
\* had no memory for, or for the array of all.
Listed ==
  {i \in DOMAIN streams :
     {<<"json_streams", i>>, <<"json_streams_array", 0>>} \cap (null \cup unheld) = {}}

\* The catalog never gets half a document because a step failed or the process died:
\* metadata is answered only if the loop has been through every stream, and every audio
\* stream was transcoded for it.  What the document then lacks, jansson refused unseen: a
\* stream has no entry only if its value, or the array's, could not be made or put in its
\* place (lines 240, 263, 266-271), and an audio entry has no fingerprint only if that very
\* fingerprint made no string, or the string no field (line 327).
AnswerIsComplete ==
  answer = "metadata" =>
    /\ described = DOMAIN streams
    /\ \A i \in DOMAIN streams :
         streams[i] = "audio" =>
           /\ i \in transcoded
           /\ i \in Listed => i \in fingerprint \cup unstored

\* When get_metadate_from_file returns, by any of its three exits, the input is
\* closed and so is the AVIO handle of every transcode.
InputAndHandlesClosed == pc = "return" => demuxer = "closed" /\ ~handle

\* Every file that is analysed gets an answer.
Answered == <>(answer # "none")

\* "Free the JSON objects" (libav.c:406): a call that returned a document has
\* dropped every reference, each of them once.
JsonReleased ==
  pc = "return" /\ ret = "json" => ~dangling /\ \A v \in Values : refs[v] = 0
=============================================================================
