--------------------------- MODULE MetadataProofs ---------------------------
(***************************************************************************)
(* For files with any number of streams and any set of faults: what is     *)
(* answered is complete, a call that returns has closed what it opened and *)
(* dropped one reference too many, and every step brings the answer nearer.*)
(***************************************************************************)
EXTENDS Metadata, SequenceTheorems, TLAPS

\* The stream that is described next; those before it are.
Position ==
  /\ cur \in 1 .. Len(streams) + 1
  /\ described = 1 .. cur - 1
  /\ \A i \in described : streams[i] = "audio" => i \in transcoded

\* A fingerprint that was taken is in its entry, or json_string or json_object_set_new
\* refused it, or there is no entry.
Stored ==
  \A i \in transcoded : i \in fingerprint \cup unstored \/ <<"json_streams", i>> \in null

Before == {"start", "open", "info", "setup"}

\* Nothing is returned before the dump, and no dump before the last stream.
Progress ==
  /\ pc \in Before => cur = 1 /\ transcoded = {}
  /\ pc \in Before \cup {"stream", "fingerprint", "dump"} => ret = "none"
  /\ pc = "dump" \/ ret = "json" => cur = Len(streams) + 1

\* What is answered was printed, and what was printed was returned.
PassedOn ==
  /\ output = "json" => ret = "json"
  /\ answer = "metadata" => output = "json"

\* A handle is open while its fingerprint is taken, and at no other time.
HandleInUse == handle => pc = "fingerprint"

StreamsType == streams \in Seq({"audio", "other"})

IInv ==
  /\ StreamsType /\ Position /\ Stored /\ Progress /\ PassedOn /\ HandleInUse
  /\ InputAndHandlesClosed

-----------------------------------------------------------------------------
LEMMA InitIInv == Init => IInv
  <1> SUFFICES ASSUME Init PROVE IInv
    OBVIOUS
  <1>1. <<>> \in Seq({"audio", "other"}) /\ Len(<<>>) = 0
    OBVIOUS
  <1>2. StreamsType /\ Position /\ Stored
    BY <1>1 DEF Init, StreamsType, Position, Stored
  <1>3. Progress /\ PassedOn /\ HandleInUse /\ InputAndHandlesClosed
    BY <1>1 DEF Init, Progress, PassedOn, HandleInUse, InputAndHandlesClosed, Before
  <1> QED BY <1>2, <1>3 DEF IInv

LEMMA AllocateStep ==
  ASSUME IInv, Allocate
  PROVE  IInv'
  <1>1. /\ pc = "start" /\ pc' = "open" /\ cur = 1 /\ ret = "none"
        /\ UNCHANGED <<cur, described, handle, ret, output, answer>>
        /\ transcoded' = {}
    BY DEF Allocate, Goto, IInv, Progress, Before, document, prints, outcome
  <1>2. StreamsType' /\ Len(streams') \in Nat
    BY FilesAssumption, LenProperties DEF Allocate, StreamsType
  <1>3. described = {}
    BY <1>1 DEF IInv, Position
  <1>4. Position'
    BY <1>1, <1>2, <1>3 DEF IInv, Position
  <1> QED
    BY <1>1, <1>2, <1>4
    DEF IInv, Stored, Progress, PassedOn, HandleInUse, InputAndHandlesClosed, Before

\* The steps between the opening of the file and the loop over the streams.
LEMMA OpenStep ==
  ASSUME IInv, OpenInput \/ FindStreamInfo \/ SetupJson
  PROVE  IInv'
  <1>1. /\ UNCHANGED <<streams, cur, described, handle, output, answer>>
        /\ pc \in Before /\ ret = "none" /\ transcoded = {} /\ transcoded' = {}
        /\ \/ pc' \in {"info", "setup", "stream", "crashed"} /\ ret' = "none"
           \/ pc' = "return" /\ ret' = "NULL" /\ demuxer' = "closed"
    BY DEF OpenInput, FindStreamInfo, SetupJson, Goto, document, prints, outcome,
           IInv, Progress, Before
  <1>2. pc' # "dump" /\ ret' # "json" /\ output # "json" /\ ~handle /\ cur = 1
    BY <1>1 DEF IInv, Progress, PassedOn, HandleInUse, Before
  <1> QED
    BY <1>1, <1>2 DEF IInv, StreamsType, Position, Stored, Progress, PassedOn, HandleInUse,
                      InputAndHandlesClosed, Before

\* A stream that is passed was transcoded, or is no music.
LEMMA NextStreamStep ==
  ASSUME IInv, NextStream
  PROVE  IInv'
  <1>1. /\ pc = "stream" /\ ret = "none" /\ ~handle /\ output # "json"
        /\ UNCHANGED <<streams, demuxer, handle, prints, null, ret, output, answer>>
        /\ UNCHANGED <<transcoded, fingerprint, unstored>>
        /\ cur \in Nat /\ Len(streams) \in Nat /\ cur <= Len(streams) + 1
    BY LenProperties DEF NextStream, json, prints, outcome, IInv, StreamsType, Position, Progress, PassedOn, HandleInUse
  <1>2. CASE pc' = "dump" /\ cur > Len(streams) /\ UNCHANGED <<cur, described>>
    BY <1>1, <1>2 DEF IInv, StreamsType, Position, Stored, Progress, PassedOn, HandleInUse,
                      InputAndHandlesClosed, Before
  <1>3. CASE pc' = "fingerprint" /\ UNCHANGED <<cur, described>>
    BY <1>1, <1>3 DEF IInv, StreamsType, Position, Stored, Progress, PassedOn, HandleInUse,
                      InputAndHandlesClosed, Before
  <1>4. CASE /\ cur <= Len(streams) /\ (streams[cur] # "audio" \/ cur \in transcoded)
             /\ described' = described \cup {cur} /\ cur' = cur + 1 /\ pc' = pc
    <2>1. Position'
      BY <1>1, <1>4 DEF IInv, Position
    <2> QED
      BY <1>1, <1>4, <2>1 DEF IInv, StreamsType, Stored, Progress, PassedOn, HandleInUse,
                              InputAndHandlesClosed, Before
  <1> QED BY <1>2, <1>3, <1>4 DEF NextStream

LEMMA FingerprintStep ==
  ASSUME IInv, TranscodeStream \/ TakeFingerprint
  PROVE  IInv'
  <1>1. /\ pc = "fingerprint" /\ ret = "none" /\ output # "json"
        /\ UNCHANGED <<streams, demuxer, null, cur, described, output, answer>>
        /\ transcoded \subseteq transcoded'
    BY DEF TranscodeStream, TakeFingerprint, StoreFingerprint, Goto, json, prints, outcome,
           IInv, Progress, PassedOn, HandleInUse
  <1>2. \/ pc' = "fingerprint" /\ ret' = "none"
        \/ pc' \in {"crashed", "stream"} /\ ret' = "none" /\ ~handle'
        \/ pc' = "end" /\ ret' = "empty" /\ ~handle'
    BY <1>1 DEF TranscodeStream, TakeFingerprint, Goto
  <1>3. Stored'
    <2>1. CASE UNCHANGED prints
      BY <1>1, <2>1 DEF prints, IInv, Stored
    <2>2. CASE StoreFingerprint
      BY <1>1, <2>2 DEF StoreFingerprint, IInv, Stored
    <2> QED BY <2>1, <2>2 DEF TranscodeStream, TakeFingerprint
  <1> QED
    BY <1>1, <1>2, <1>3 DEF IInv, StreamsType, Position, Progress, PassedOn, HandleInUse,
                            InputAndHandlesClosed, Before

\* From the dump to the answer.
LEMMA AnswerStep ==
  ASSUME IInv, Dump \/ Decref \/ End \/ Main \/ Collect
  PROVE  IInv'
  <1>1. /\ UNCHANGED <<streams, cur, described, null, handle>> /\ ~handle
        /\ UNCHANGED <<transcoded, fingerprint, unstored>>
        /\ pc' \in {"release", "return", "printed", "answered", "crashed"}
        /\ pc' = "return" => demuxer' = "closed"
    BY DEF Dump, Decref, End, Main, Collect, Goto, json, document, prints, IInv, HandleInUse
  <1>2. /\ ret' = "json" => cur = Len(streams) + 1
        /\ output' = "json" => ret' = "json"
        /\ answer' = "metadata" => output' = "json"
    <2>1. CASE Dump
      BY <2>1 DEF Dump, Goto, outcome, IInv, Progress, PassedOn
    <2>2. CASE Decref \/ End
      BY <2>2 DEF Decref, End, outcome, IInv, Progress, PassedOn
    <2>3. CASE Main \/ Collect
      BY <2>3 DEF Main, Collect, IInv, Progress, PassedOn
    <2> QED BY <2>1, <2>2, <2>3
  <1> QED
    BY <1>1, <1>2 DEF IInv, StreamsType, Position, Stored, Progress, PassedOn, HandleInUse,
                      InputAndHandlesClosed, Before

LEMMA IInvStep == IInv /\ [Next]_vars => IInv'
  <1> SUFFICES ASSUME IInv, [Next]_vars PROVE IInv'
    OBVIOUS
  <1>1. CASE UNCHANGED vars
    BY <1>1 DEF vars, IInv, StreamsType, Position, Stored, Progress, PassedOn, HandleInUse,
                InputAndHandlesClosed
  <1> QED
    BY <1>1, AllocateStep, OpenStep, NextStreamStep, FingerprintStep, AnswerStep
    DEF Next, Native

\* Metadata is answered only when every stream was described and every audio stream
\* transcoded, for any number of streams, and whatever fails or dies; a fingerprint that the
\* document lacks is one that jansson refused, of that stream or with its entry.
THEOREM AnswersAreComplete == Spec => []AnswerIsComplete
  <1>1. IInv => AnswerIsComplete
    <2> SUFFICES ASSUME IInv, answer = "metadata"
                 PROVE  /\ described = DOMAIN streams
                        /\ \A i \in DOMAIN streams :
                             streams[i] = "audio" =>
                               /\ i \in transcoded
                               /\ i \in Listed => i \in fingerprint \cup unstored
      BY DEF AnswerIsComplete
    <2>1. cur = Len(streams) + 1 /\ Len(streams) \in Nat /\ DOMAIN streams = 1 .. Len(streams)
      BY LenProperties DEF IInv, PassedOn, Progress, StreamsType
    <2>2. described = DOMAIN streams
      BY <2>1 DEF IInv, Position
    <2>3. ASSUME NEW i \in DOMAIN streams, i \in transcoded, i \in Listed
          PROVE  i \in fingerprint \cup unstored
      BY <2>3 DEF IInv, Stored, Listed
    <2> QED BY <2>2, <2>3 DEF IInv, Position
  <1> QED BY <1>1, InitIInv, IInvStep, PTL DEF Spec

\* A call that returns leaves neither the input nor a handle open.
THEOREM NothingStaysOpen == Spec => []InputAndHandlesClosed
  <1>1. IInv => InputAndHandlesClosed
    BY DEF IInv
  <1> QED BY <1>1, InitIInv, IInvStep, PTL DEF Spec
-----------------------------------------------------------------------------
(* Types *)

PcType == {"start", "open", "info", "setup", "stream", "fingerprint", "dump",
           "release", "end", "return", "printed", "answered", "crashed"}

\* The variables that are one of a few words.
WordsOK ==
  /\ pc \in PcType
  /\ demuxer \in {"none", "allocated", "open", "closed"}
  /\ {dangling, handle} \subseteq BOOLEAN
  /\ ret \in {"none", "NULL", "empty", "json"}
  /\ output \in {"none", "failed", "empty", "json"}
  /\ answer \in {"none", "error", "metadata"}

\* A fingerprint is taken of a stream of the file, and of none before there is a file.
StreamsOK ==
  /\ streams \in Files \cup {<<>>}
  /\ transcoded \cup fingerprint \cup unstored \subseteq DOMAIN streams
  /\ pc \in Before => transcoded \cup fingerprint \cup unstored = {}
  /\ pc = "fingerprint" => cur <= Len(streams)

Pointers == Values \cup {NULL}

JsonOK ==
  /\ refs \in [Values -> 0 .. 2] /\ todo \in Seq(Pointers)
  /\ null \cup unheld \subseteq Values

TypeInv == IInv /\ WordsOK /\ StreamsOK /\ JsonOK

LEMMA MaxStreamsIsMost ==
  /\ MaxStreams \in Nat
  /\ \A f \in Files \cup {<<>>} : Len(f) \in 0 .. MaxStreams /\ DOMAIN f = 1 .. Len(f)
  <1>1. PICK f \in Files : \A g \in Files : Len(g) <= Len(f)
    BY FilesAssumption
  <1> DEFINE longest == CHOOSE h \in Files : \A g \in Files : Len(g) <= Len(h)
  <1>2. longest \in Files /\ \A g \in Files : Len(g) <= Len(longest)
    BY <1>1
  <1>3. MaxStreams = Len(longest)
    BY DEF MaxStreams
  <1> HIDE DEF longest
  <1>4. \A g \in Files : Len(g) \in Nat /\ DOMAIN g = 1 .. Len(g)
    BY FilesAssumption, LenProperties
  <1>5. Len(<<>>) = 0 /\ DOMAIN <<>> = 1 .. 0
    OBVIOUS
  <1> QED BY <1>2, <1>3, <1>4, <1>5

\* What is put into a value is a value, and what is dropped with it a value or NULL.
LEMMA FieldsAreValues ==
  ASSUME streams \in Files \cup {<<>>}, NEW v \in Values
  PROVE  Fields(v) \in Seq(Values)
  <1>1. DOMAIN streams \subseteq 1 .. MaxStreams /\ Len(streams) \in Nat /\ DOMAIN streams = 1 .. Len(streams)
    BY MaxStreamsIsMost
  <1>2. CASE v[1] = "json"
    <2>1. <<"json_file", 0>> \in Values /\ <<"json_streams_array", 0>> \in Values
      BY DEF Values, FileValues
    <2> QED BY <1>2, <2>1 DEF Fields
  <1>3. CASE v[1] = "json_file"
    <2>1. <<"json_file_metadata", 0>> \in Values /\ <<"json_file_format", 0>> \in Values
      BY DEF Values, FileValues
    <2> QED BY <1>3, <2>1 DEF Fields
  <1>4. CASE v[1] = "json_streams_array"
    <2>1. \A i \in DOMAIN streams : <<"json_streams", i>> \in Values
      BY <1>1 DEF Values, StreamValues
    <2>2. [i \in DOMAIN streams |-> <<"json_streams", i>>] \in Seq(Values)
      BY <1>1, <2>1, SeqDef
    <2> QED BY <1>4, <2>2 DEF Fields
  <1>5. CASE v[1] = "json_streams"
    <2>1. v[2] \in 1 .. MaxStreams
      BY <1>5 DEF Values, FileValues, StreamValues
    <2>2. <<"json_streams_metadata", v[2]>> \in Values /\ <<"json_streams_codec", v[2]>> \in Values
      BY <2>1 DEF Values, StreamValues
    <2> QED BY <1>5, <2>2 DEF Fields
  <1>6. CASE v[1] \notin {"json", "json_file", "json_streams_array", "json_streams"}
    BY <1>6 DEF Fields
  <1> QED BY <1>2, <1>3, <1>4, <1>5, <1>6

LEMMA MembersArePointers ==
  ASSUME streams \in Files \cup {<<>>}, NEW v \in Values
  PROVE  /\ Members(v) \in Seq(Pointers)
         /\ null \cup unheld = {} => Members(v) = Fields(v)
  <1>1. Fields(v) \in Seq(Values)
    BY FieldsAreValues
  <1>2. PICK n \in Nat : Fields(v) \in [1 .. n -> Values]
    BY <1>1, SeqDef
  <1>3. Members(v) \in [1 .. n -> Pointers]
    BY <1>2 DEF Members, Pointers
  <1>4. null \cup unheld = {} => Members(v) = Fields(v)
    BY <1>2 DEF Members
  <1> QED BY <1>3, <1>4, SeqDef

\* What is dropped of each stream, in the order of libav.c:407.
OwnDrops ==
  [i \in 1 .. 3 * Len(streams) |->
     LET n == (i - 1) \div 3 + 1 IN
     CASE i % 3 = 1 -> <<"json_streams", n>>
       [] i % 3 = 2 -> <<"json_streams_metadata", n>>
       [] OTHER -> <<"json_streams_codec", n>>]

LEMMA OwnIsSeq ==
  ASSUME streams \in Files \cup {<<>>}
  PROVE  OwnDrops \in Seq(Values)
  <1> DEFINE n == Len(streams)
             Of(i) == LET k == (i - 1) \div 3 + 1 IN
                      CASE i % 3 = 1 -> <<"json_streams", k>>
                        [] i % 3 = 2 -> <<"json_streams_metadata", k>>
                        [] OTHER -> <<"json_streams_codec", k>>
  <1>1. n \in 0 .. MaxStreams /\ MaxStreams \in Nat
    BY MaxStreamsIsMost
  <1>2. ASSUME NEW i \in 1 .. 3 * n PROVE Of(i) \in Values
    <2>1. (i - 1) \div 3 + 1 \in 1 .. MaxStreams
      BY <1>1
    <2> QED BY <2>1 DEF Values, StreamValues
  <1>3. OwnDrops = [i \in 1 .. 3 * n |-> Of(i)]
    BY DEF OwnDrops
  <1> HIDE DEF Of, n
  <1>4. OwnDrops \in [1 .. 3 * n -> Values] /\ 3 * n \in Nat
    BY <1>1, <1>2, <1>3
  <1> QED BY <1>4, SeqDef

LastDrops ==
  <<<<"json_file_metadata", 0>>, <<"json_file_format", 0>>, <<"json_file", 0>>, <<"json", 0>>>>

LEMMA DumpDrops ==
  ASSUME streams \in Files \cup {<<>>}, Dump
  PROVE  /\ todo' = OwnDrops \o LastDrops /\ todo' \in Seq(Values)
         /\ UNCHANGED <<refs, null, unheld>>
         /\ OwnDrops \in Seq(Values) /\ LastDrops \in Seq(Values)
  <1>1. todo' = OwnDrops \o LastDrops
    BY DEF Dump, OwnDrops, LastDrops
  <1>2. LastDrops \in Seq(Values)
    BY DEF LastDrops, Values, FileValues
  <1> QED BY <1>1, <1>2, OwnIsSeq, ConcatProperties DEF Dump

\* NULL is no value, and every value can be dropped.
LEMMA NullIsNone == NULL \notin Values /\ Seq(Values) \subseteq Seq(Pointers)
  <1>1. NULL \notin Values
    BY DEF NULL, Values, FileValues, StreamValues
  <1>2. ASSUME NEW s \in Seq(Values) PROVE s \in Seq(Pointers)
    <2>1. PICK n \in Nat : s \in [1 .. n -> Values]
      BY SeqDef
    <2>2. s \in [1 .. n -> Pointers]
      BY <2>1 DEF Pointers
    <2> QED BY <2>2, SeqDef
  <1> QED BY <1>1, <1>2

LEMMA DecrefStep ==
  ASSUME JsonOK, streams \in Files \cup {<<>>}, Decref
  PROVE  JsonOK'
  <1> DEFINE v == Head(todo)
  <1>1. v \in Pointers /\ Tail(todo) \in Seq(Pointers)
    BY HeadTailProperties DEF Decref, JsonOK
  <1>2. /\ v \in Values => Members(v) \in Seq(Pointers)
        /\ <<>> \in Seq(Pointers) /\ UNCHANGED <<null, unheld>>
    BY <1>1, MembersArePointers DEF Decref
  <1>3. CASE /\ v \notin null \cup {NULL} /\ refs[v] > 0
             /\ refs' = [refs EXCEPT ![v] = @ - 1]
             /\ todo' = (IF refs[v] = 1 THEN Members(v) ELSE <<>>) \o Tail(todo)
    <2> HIDE DEF v
    <2>0. v \in Values
      BY <1>1, <1>3 DEF Pointers
    <2>1. refs' \in [Values -> 0 .. 2]
      BY <2>0, <1>3 DEF JsonOK
    <2>2. todo' \in Seq(Pointers)
      BY <2>0, <1>1, <1>2, <1>3, ConcatProperties
    <2> QED BY <1>2, <2>1, <2>2 DEF JsonOK
  <1>4. CASE UNCHANGED refs /\ todo' = Tail(todo)
    BY <1>1, <1>2, <1>4 DEF JsonOK
  <1> QED BY <1>3, <1>4 DEF Decref

\* What is put together before the loop.
LEMMA SetupStep ==
  ASSUME JsonOK, streams \in Files \cup {<<>>}, SetupJson
  PROVE  JsonOK'
  <1>1. Given \cup Shared \subseteq Values
    <2>1. Len(streams) \in 0 .. MaxStreams
      BY MaxStreamsIsMost
    <2>2. StreamValues(Len(streams)) \subseteq StreamValues(MaxStreams)
      BY <2>1, MaxStreamsIsMost DEF StreamValues
    <2> QED BY <2>2 DEF Given, Shared, Values, FileValues
  <1>2. null' \cup unheld' \subseteq Values
    <2>1. PICK short \in Shortages(Given \cup Shared) :
            /\ \E none \in SUBSET (short \cap StreamValues(Len(streams))) : null' = null \cup none
            /\ unheld' = short \cup {w \in Given \cup Shared :
                 \E v \in null' : \E i \in DOMAIN Fields(v) : Fields(v)[i] = w}
      BY DEF SetupJson
    <2>2. short \subseteq Values
      BY <1>1 DEF Shortages
    <2> QED BY <1>1, <2>1, <2>2 DEF JsonOK
  <1>3. refs' \in [Values -> 0 .. 2]
    BY DEF SetupJson, JsonOK
  <1> QED BY <1>2, <1>3 DEF SetupJson, JsonOK

LEMMA TypeInvInit == Init => TypeInv
  <1> SUFFICES ASSUME Init PROVE TypeInv
    OBVIOUS
  <1>1. WordsOK
    BY DEF Init, WordsOK, PcType
  <1>2. StreamsOK /\ JsonOK
    BY DEF Init, StreamsOK, JsonOK
  <1> QED BY <1>1, <1>2, InitIInv DEF TypeInv

LEMMA WordsStep == WordsOK /\ [Next]_vars => WordsOK'
  <1> SUFFICES ASSUME WordsOK, [Next]_vars PROVE WordsOK'
    OBVIOUS
  <1> USE DEF WordsOK, PcType, Goto, json, document, prints, outcome
  <1>1. CASE UNCHANGED vars
    BY <1>1 DEF vars
  <1>2. CASE Allocate \/ OpenInput \/ FindStreamInfo \/ SetupJson
    BY <1>2 DEF Allocate, OpenInput, FindStreamInfo, SetupJson
  <1>3. CASE NextStream \/ TranscodeStream \/ TakeFingerprint
    BY <1>3 DEF NextStream, TranscodeStream, TakeFingerprint
  <1>4. CASE Dump \/ Decref \/ End
    BY <1>4 DEF Dump, Decref, End
  <1>5. CASE Main \/ Collect
    BY <1>5 DEF Main, Collect
  <1> QED BY <1>1, <1>2, <1>3, <1>4, <1>5 DEF Next, Native

LEMMA StreamsStep == IInv /\ StreamsOK /\ [Next]_vars => StreamsOK'
  <1> SUFFICES ASSUME IInv, StreamsOK, [Next]_vars PROVE StreamsOK'
    OBVIOUS
  <1> USE DEF StreamsOK, Before, Goto, document, prints
  <1>1. CASE UNCHANGED vars
    BY <1>1 DEF vars
  <1>2. CASE Allocate
    BY <1>2 DEF Allocate
  <1>3. CASE OpenInput \/ FindStreamInfo \/ SetupJson
    BY <1>3 DEF OpenInput, FindStreamInfo, SetupJson
  <1>4. CASE NextStream
    BY <1>4 DEF NextStream
  <1>5. CASE TranscodeStream
    BY <1>5 DEF TranscodeStream, IInv, HandleInUse
  <1>6. CASE TakeFingerprint
    <2>1. cur \in DOMAIN streams
      BY <1>6, MaxStreamsIsMost DEF TakeFingerprint, IInv, Position, HandleInUse
    <2> QED BY <1>6, <2>1 DEF TakeFingerprint, StoreFingerprint
  <1>7. CASE Dump \/ Decref \/ End \/ Main \/ Collect
    BY <1>7 DEF Dump, Decref, End, Main, Collect
  <1> QED BY <1>1, <1>2, <1>3, <1>4, <1>5, <1>6, <1>7 DEF Next, Native

LEMMA JsonStep == StreamsOK /\ JsonOK /\ [Next]_vars => JsonOK'
  <1> SUFFICES ASSUME StreamsOK, JsonOK, [Next]_vars PROVE JsonOK'
    OBVIOUS
  <1>1. CASE UNCHANGED vars
    BY <1>1 DEF vars, JsonOK
  <1>2. CASE UNCHANGED <<refs, todo, null, unheld>>
    BY <1>2 DEF JsonOK
  <1>3. CASE Allocate
    <2>1. null' \subseteq Values
      BY <1>3 DEF Allocate, Shortages, Values
    <2> QED BY <1>3, <2>1 DEF Allocate, JsonOK
  <1>4. CASE SetupJson
    BY <1>4, SetupStep DEF StreamsOK
  <1>5. CASE Dump
    BY <1>5, DumpDrops, NullIsNone DEF StreamsOK, JsonOK
  <1>6. CASE Decref
    BY <1>6, DecrefStep DEF StreamsOK
  <1> QED
    BY <1>1, <1>2, <1>3, <1>4, <1>5, <1>6
    DEF Next, Native, OpenInput, FindStreamInfo, NextStream, TranscodeStream,
        TakeFingerprint, End, Main, Collect, json

LEMMA TypeInvStep == TypeInv /\ [Next]_vars => TypeInv'
  BY IInvStep, WordsStep, StreamsStep, JsonStep DEF TypeInv

\* Every variable keeps its type, for files with any number of streams: no value has
\* more than two references, and what is dropped is one of the document's values.
THEOREM TypeCorrect == Spec => []TypeOK
  <1>1. TypeInv => TypeOK
    <2> SUFFICES ASSUME TypeInv PROVE TypeOK
      OBVIOUS
    <2>1. Len(streams) \in 0 .. MaxStreams /\ DOMAIN streams = 1 .. Len(streams) /\ MaxStreams \in Nat
      BY MaxStreamsIsMost DEF TypeInv, StreamsOK
    <2>2. cur \in 1 .. MaxStreams + 1 /\ described \subseteq DOMAIN streams
      BY <2>1 DEF TypeInv, IInv, Position
    <2> QED BY <2>2 DEF TypeInv, TypeOK, WordsOK, PcType, StreamsOK, JsonOK, Pointers
  <1> QED BY <1>1, TypeInvInit, TypeInvStep, PTL DEF Spec

-----------------------------------------------------------------------------
(* The references that are dropped twice *)

Metadata == <<"json_file_metadata", 0>>
File == <<"json_file", 0>>

In(v, s) == \E i \in 1 .. Len(s) : s[i] = v
Twice(v, s) == \E i, j \in 1 .. Len(s) : i < j /\ s[i] = v /\ s[j] = v

\* More references to json_file_metadata are about to be dropped, by libav.c:412 or by
\* json_file when that is freed, than there are.
Overdrawn ==
  \/ refs[Metadata] = 0 /\ In(Metadata, todo)
  \/ refs[Metadata] = 0 /\ refs[File] = 1 /\ In(File, todo)
  \/ refs[Metadata] = 1 /\ refs[File] = 1 /\ In(Metadata, todo) /\ In(File, todo)
  \/ refs[Metadata] = 1 /\ Twice(Metadata, todo)

Undropped == {"open", "info", "setup", "stream", "fingerprint", "dump"}

DropInv ==
  /\ pc \in Before => unheld = {}
  /\ null \cup unheld = {} =>
       /\ pc \in Undropped => refs[Metadata] = 1 /\ refs[File] = 1
       /\ ret = "json" => dangling \/ (pc = "release" /\ Overdrawn)

LEMMA TheValues ==
  /\ Metadata \in Values /\ File \in Values /\ Metadata # File
  /\ Metadata \in FileValues /\ File \in FileValues
  /\ \A n : Metadata \notin StreamValues(n) /\ File \notin StreamValues(n)
  /\ Metadata # <<"json_streams_array", 0>> /\ File # <<"json_streams_array", 0>>
  /\ Metadata # NULL /\ File # NULL
  BY DEF NULL, Metadata, File, Values, FileValues, StreamValues

LEMMA InTail ==
  ASSUME NEW s \in Seq(Pointers), s # <<>>, NEW v
  PROVE  /\ In(v, s) => v = Head(s) \/ In(v, Tail(s))
         /\ Twice(v, s) => In(v, Tail(s)) /\ (v = Head(s) \/ Twice(v, Tail(s)))
  <1>1. /\ Len(s) \in Nat /\ Len(Tail(s)) = Len(s) - 1 /\ s[1] = Head(s)
        /\ \A i \in 1 .. Len(s) - 1 : Tail(s)[i] = s[i + 1]
    BY HeadTailProperties
  <1>2. ASSUME NEW i \in 1 .. Len(s), s[i] = v, i # 1
        PROVE  i - 1 \in 1 .. Len(Tail(s)) /\ Tail(s)[i - 1] = v
    BY <1>1, <1>2
  <1>3. In(v, s) => v = Head(s) \/ In(v, Tail(s))
    BY <1>1, <1>2 DEF In
  <1>4. Twice(v, s) => In(v, Tail(s)) /\ (v = Head(s) \/ Twice(v, Tail(s)))
    <2> SUFFICES ASSUME NEW i \in 1 .. Len(s), s[i] = v, NEW j \in 1 .. Len(s), s[j] = v, i < j
                 PROVE  In(v, Tail(s)) /\ (v = Head(s) \/ Twice(v, Tail(s)))
      BY DEF Twice
    <2>0. j # 1 /\ i - 1 < j - 1
      BY <1>1
    <2>1. j - 1 \in 1 .. Len(Tail(s)) /\ Tail(s)[j - 1] = v
      BY <1>2, <2>0
    <2>2. In(v, Tail(s))
      BY <2>1 DEF In
    <2>3. ASSUME i # 1 PROVE Twice(v, Tail(s))
      <3>1. i - 1 \in 1 .. Len(Tail(s)) /\ Tail(s)[i - 1] = v
        BY <1>2, <2>3
      <3> QED BY <2>0, <2>1, <3>1 DEF Twice
    <2> QED BY <1>1, <2>2, <2>3
  <1> QED BY <1>3, <1>4

LEMMA InConcat ==
  ASSUME NEW s \in Seq(Pointers), NEW t \in Seq(Pointers), NEW v
  PROVE  /\ In(v, s) \/ In(v, t) => In(v, s \o t)
         /\ In(v, s) /\ In(v, t) => Twice(v, s \o t)
         /\ Twice(v, t) => Twice(v, s \o t)
  <1>1. /\ Len(s) \in Nat /\ Len(t) \in Nat /\ Len(s \o t) = Len(s) + Len(t)
        /\ \A i \in 1 .. Len(s) : (s \o t)[i] = s[i]
        /\ \A i \in 1 .. Len(t) : (s \o t)[Len(s) + i] = t[i]
    BY ConcatProperties, LenProperties
  <1>2. ASSUME NEW i \in 1 .. Len(s), s[i] = v
        PROVE  i \in 1 .. Len(s \o t) /\ (s \o t)[i] = v /\ i <= Len(s)
    BY <1>1, <1>2
  <1>3. ASSUME NEW i \in 1 .. Len(t), t[i] = v
        PROVE  Len(s) + i \in 1 .. Len(s \o t) /\ (s \o t)[Len(s) + i] = v
    BY <1>1, <1>3
  <1>4. In(v, s) \/ In(v, t) => In(v, s \o t)
    BY <1>2, <1>3 DEF In
  <1>5. In(v, s) /\ In(v, t) => Twice(v, s \o t)
    <2> SUFFICES ASSUME NEW i \in 1 .. Len(s), s[i] = v, NEW j \in 1 .. Len(t), t[j] = v
                 PROVE  Twice(v, s \o t)
      BY DEF In
    <2>1. i < Len(s) + j
      BY <1>1
    <2> QED BY <1>2, <1>3, <2>1 DEF Twice
  <1>6. Twice(v, t) => Twice(v, s \o t)
    <2> SUFFICES ASSUME NEW i \in 1 .. Len(t), t[i] = v, NEW j \in 1 .. Len(t), t[j] = v, i < j
                 PROVE  Twice(v, s \o t)
      BY DEF Twice
    <2>1. Len(s) + i < Len(s) + j
      BY <1>1
    <2> QED BY <1>3, <2>1 DEF Twice
  <1> QED BY <1>4, <1>5, <1>6

LEMMA OverdrawnStep ==
  ASSUME TypeInv, Overdrawn, Decref, null \cup unheld = {}
  PROVE  dangling' \/ (pc' = "release" /\ Overdrawn')
  <1> DEFINE v == Head(todo)
             rest == Tail(todo)
             held == IF refs[v] = 1 THEN Members(v) ELSE <<>>
  <1>1. /\ todo # <<>> /\ todo \in Seq(Pointers) /\ v \in Pointers /\ rest \in Seq(Pointers)
        /\ v \in Values => held \in Seq(Pointers)
        /\ refs \in [Values -> 0 .. 2]
    <2>1. todo # <<>> /\ todo \in Seq(Pointers) /\ v \in Pointers /\ rest \in Seq(Pointers)
      BY HeadTailProperties DEF Decref, TypeInv, JsonOK
    <2>2. (v \in Values => Members(v) \in Seq(Pointers)) /\ <<>> \in Seq(Pointers)
      BY MembersArePointers DEF TypeInv, StreamsOK
    <2> QED BY <2>1, <2>2 DEF TypeInv, JsonOK
  <1>2. CASE v # NULL /\ refs[v] = 0
    BY <1>2 DEF Decref
  <1>3. CASE v = NULL
    <2>1. UNCHANGED <<pc, refs>> /\ todo' = rest /\ pc = "release"
      BY <1>3 DEF Decref
    <2>2. \A w : /\ In(w, todo) => w = v \/ In(w, rest)
                 /\ Twice(w, todo) => In(w, rest) /\ (w = v \/ Twice(w, rest))
      BY <1>1, InTail
    <2> QED BY <1>3, <2>1, <2>2, TheValues DEF Overdrawn
  <1>4. CASE v # NULL /\ refs[v] > 0
    <2>0. v \in Values
      BY <1>1, <1>4 DEF Pointers
    <2> HIDE DEF held
    <2>1. refs' = [refs EXCEPT ![v] = @ - 1] /\ todo' = held \o rest /\ pc' = "release"
      <3>1. refs[v] \in 0 .. 2 /\ v \notin null \cup {NULL}
        BY <1>1, <1>4, <2>0
      <3> QED BY <1>4, <3>1 DEF Decref, held
    <2>2. \A w : /\ In(w, todo) => w = v \/ In(w, rest)
                 /\ Twice(w, todo) => In(w, rest) /\ (w = v \/ Twice(w, rest))
      BY <1>1, InTail
    <2>3. \A w : /\ In(w, held) \/ In(w, rest) => In(w, todo')
                 /\ In(w, held) /\ In(w, rest) => Twice(w, todo')
                 /\ Twice(w, rest) => Twice(w, todo')
      BY <1>1, <2>0, <2>1, InConcat
    <2>4. v = File /\ refs[v] = 1 => In(Metadata, held)
      <3>1. In(Metadata, <<Metadata, <<"json_file_format", 0>>>>)
        BY DEF In
      <3>2. Members(File) = <<Metadata, <<"json_file_format", 0>>>>
        BY TheValues, MembersArePointers DEF Fields, File, Metadata, TypeInv, StreamsOK
      <3>3. v = File /\ refs[v] = 1 => held = Members(File)
        BY DEF held
      <3> QED BY <3>1, <3>2, <3>3
    <2> HIDE DEF v, rest
    <2>5. CASE v = Metadata
      <3>1. refs'[Metadata] = refs[Metadata] - 1 /\ refs'[File] = refs[File]
        BY <1>1, <2>0, <2>1, <2>5, TheValues
      <3>2. refs[Metadata] = 1
        BY <1>4, <2>5 DEF Overdrawn
      <3> QED BY <2>1, <2>2, <2>3, <2>5, <3>1, <3>2, TheValues DEF Overdrawn
    <2>6. CASE v = File
      <3>1. refs'[Metadata] = refs[Metadata]
        BY <1>1, <2>0, <2>1, <2>6, TheValues
      <3>2. refs[File] = 1 => In(Metadata, held)
        BY <2>4, <2>6
      <3> QED BY <2>1, <2>2, <2>3, <2>6, <3>1, <3>2, TheValues DEF Overdrawn
    <2>7. CASE v \notin {Metadata, File}
      <3>1. refs'[Metadata] = refs[Metadata] /\ refs'[File] = refs[File]
        BY <1>1, <2>0, <2>1, <2>7, TheValues
      <3> QED BY <2>1, <2>2, <2>3, <2>7, <3>1 DEF Overdrawn
    <2> QED BY <2>5, <2>6, <2>7
  <1>5. v # NULL => refs[v] \in 0 .. 2
    BY <1>1 DEF Pointers
  <1> QED BY <1>2, <1>3, <1>4, <1>5

LEMMA DropStep == TypeInv /\ DropInv /\ [Next]_vars => DropInv'
  <1>0. TypeInv /\ DropInv /\ [Next]_vars => (pc \in Before => unheld = {})'
    BY DEF Next, Native, Allocate, OpenInput, FindStreamInfo, SetupJson, NextStream,
           TranscodeStream, TakeFingerprint, Dump, Decref, End, Main, Collect, Goto, json, vars,
           Before, DropInv, TypeInv, IInv, HandleInUse
  <1> SUFFICES ASSUME TypeInv, DropInv, [Next]_vars, null' \cup unheld' = {}
               PROVE  /\ pc' \in Undropped => refs'[Metadata] = 1 /\ refs'[File] = 1
                      /\ ret' = "json" => dangling' \/ (pc' = "release" /\ Overdrawn')
    BY <1>0 DEF DropInv
  <1> DEFINE Kept == null \cup unheld = {}
  <1>1. Kept => (pc # "release" => ret # "json" \/ dangling)
    BY DEF DropInv
  <1>2. CASE UNCHANGED vars
    BY <1>2 DEF vars, DropInv, Overdrawn, In, Twice
  <1>3. CASE Allocate
    <2>1. ret' = "none" /\ null' = {}
      BY <1>3 DEF Allocate, Goto, TypeInv, IInv, Progress, Before
    <2> QED BY <1>3, <2>1, TheValues DEF Allocate
  <1>4. CASE SetupJson
    <2>0. pc = "setup" /\ ret' = ret /\ null \subseteq null'
      BY <1>4 DEF SetupJson, Goto
    <2>1. ret' = "none" /\ Kept /\ refs[Metadata] = 1 /\ refs[File] = 1
      BY <2>0 DEF TypeInv, IInv, Progress, Before, DropInv, Undropped
    <2>2. Metadata \notin Shared /\ File \notin Shared
      BY TheValues DEF Shared
    <2>3. refs'[Metadata] = refs[Metadata] /\ refs'[File] = refs[File]
      BY <1>4, <2>2, TheValues DEF SetupJson
    <2> QED BY <2>1, <2>3
  <1>5. CASE OpenInput \/ FindStreamInfo
    BY <1>1, <1>5 DEF OpenInput, FindStreamInfo, Goto, json, DropInv, Undropped
  <1>6. CASE NextStream \/ TranscodeStream \/ TakeFingerprint
    <2>1. /\ pc \in {"stream", "fingerprint"} /\ ret = "none"
          /\ UNCHANGED <<refs, null, unheld>> /\ ret' \in {"none", "empty"}
      BY <1>6
      DEF NextStream, TranscodeStream, TakeFingerprint, Goto, json, TypeInv, IInv, Progress
    <2> QED BY <2>1 DEF DropInv, Undropped
  <1>7. CASE Dump
    <2>1. In(Metadata, todo') /\ In(File, todo')
      <3>1. In(Metadata, LastDrops) /\ In(File, LastDrops)
        BY DEF In, Metadata, File, LastDrops
      <3> QED BY <1>7, <3>1, DumpDrops, InConcat, NullIsNone DEF TypeInv, StreamsOK
    <2>2. refs' = refs /\ refs[Metadata] = 1 /\ refs[File] = 1 /\ pc' = "release"
      BY <1>7 DEF Dump, Goto, DropInv, Undropped
    <2> QED BY <2>1, <2>2 DEF Overdrawn, Undropped
  <1>8. CASE Decref
    <2>1. /\ pc = "release" /\ ret' = ret /\ pc' \in {"release", "crashed"}
          /\ dangling => dangling'
          /\ Kept
      BY <1>8 DEF Decref
    <2> QED BY <1>8, <2>1, OverdrawnStep DEF DropInv, Undropped
  <1>9. CASE End
    <2>1. ~(pc = "release" /\ Overdrawn)
      BY <1>9 DEF End, Overdrawn, In, Twice
    <2> QED BY <1>9, <2>1 DEF End, json, DropInv, Undropped
  <1>10. CASE Main \/ Collect
    BY <1>1, <1>10 DEF Main, Collect, Goto, json, DropInv, Undropped
  <1> QED
    BY <1>2, <1>3, <1>4, <1>5, <1>6, <1>7, <1>8, <1>9, <1>10 DEF Next, Native

\* Where "Free the JSON objects" (libav.c:406) fails, for every file there is: a document
\* is never returned but after json_file_metadata, dropped by line 412, was dropped again, unless memory
\* was short for some value.
THEOREM FreedIsUsed ==
  Spec => [](pc = "return" /\ ret = "json" /\ null \cup unheld = {} => dangling)
  <1>1. DropInv => (pc = "return" /\ ret = "json" /\ null \cup unheld = {} => dangling)
    BY DEF DropInv
  <1>2. Init => DropInv
    BY DEF Init, DropInv, Undropped, Before
  <1> QED BY <1>1, <1>2, TypeInvInit, TypeInvStep, DropStep, PTL DEF Spec

-----------------------------------------------------------------------------
(* The answer comes nearer *)

Stage ==
  CASE pc = "start" -> 10 [] pc = "open" -> 9 [] pc = "info" -> 8 [] pc = "setup" -> 7
    [] pc \in {"stream", "fingerprint"} -> 6 [] pc = "dump" -> 5 [] pc = "release" -> 4
    [] pc = "end" -> 3 [] pc = "return" -> 2 [] pc \in {"printed", "crashed"} -> 1
    [] OTHER -> 0

\* What is left to do of the streams: four steps each.
Work ==
  4 * (Len(streams) + 1 - cur)
    + CASE pc = "stream" /\ cur \notin transcoded -> 3
        [] pc = "fingerprint" -> (IF handle THEN 1 ELSE 2)
        [] OTHER -> 0

\* A reference is gone, or there is less to drop.
Dropped ==
  \/ refs' # refs /\ \A v \in Values : refs'[v] <= refs[v]
  \/ refs' = refs /\ Len(todo') < Len(todo)

Nearer ==
  \/ Stage' < Stage
  \/ Stage' = 6 /\ Stage = 6 /\ Work \in Nat /\ Work' \in Nat /\ Work' < Work
  \/ Stage' = 4 /\ Stage = 4 /\ Dropped

LEMMA WorkStep ==
  ASSUME TypeInv, NextStream \/ TranscodeStream \/ TakeFingerprint
  PROVE  Nearer
  <1>1. /\ pc \in {"stream", "fingerprint"} /\ streams' = streams
        /\ Len(streams) \in Nat /\ cur \in 1 .. Len(streams) + 1
        /\ pc = "stream" => ~handle
        /\ pc = "fingerprint" => cur <= Len(streams)
    BY MaxStreamsIsMost
    DEF NextStream, TranscodeStream, TakeFingerprint, Goto, TypeInv, StreamsOK, IInv,
        Position, HandleInUse
  <1>2. Stage = 6
    BY <1>1 DEF Stage
  <1>3. CASE pc' \notin {"stream", "fingerprint"}
    <2>1. pc' \in {"dump", "end", "crashed"}
      BY <1>1, <1>3 DEF NextStream, TranscodeStream, TakeFingerprint, Goto
    <2>2. Stage' < 6
      BY <2>1 DEF Stage
    <2> QED BY <1>2, <2>2 DEF Nearer
  <1>4. CASE pc' \in {"stream", "fingerprint"}
    <2>1. Stage' = 6
      BY <1>4 DEF Stage
    <2>2. CASE NextStream /\ pc' = "fingerprint"
      <3>1. /\ pc = "stream" /\ cur <= Len(streams) /\ cur \notin transcoded
            /\ UNCHANGED <<cur, handle, transcoded>>
        BY <2>2 DEF NextStream, prints
      <3> QED BY <1>1, <1>2, <2>1, <2>2, <3>1 DEF Nearer, Work
    <2>3. CASE NextStream /\ pc' = "stream"
      <3>1. /\ pc = "stream" /\ cur <= Len(streams) /\ cur' = cur + 1
            /\ UNCHANGED <<handle, transcoded>>
        BY <2>3 DEF NextStream, prints
      <3> QED BY <1>1, <1>2, <2>1, <2>3, <3>1 DEF Nearer, Work
    <2>4. CASE TranscodeStream
      <3>1. pc = "fingerprint" /\ pc' = "fingerprint" /\ ~handle /\ handle' /\ cur' = cur
        BY <1>4, <2>4 DEF TranscodeStream, Goto
      <3> QED BY <1>1, <1>2, <2>1, <3>1 DEF Nearer, Work
    <2>5. CASE TakeFingerprint
      <3>1. /\ pc = "fingerprint" /\ pc' = "stream" /\ handle /\ cur' = cur
            /\ transcoded' = transcoded \cup {cur}
        BY <1>4, <2>5 DEF TakeFingerprint, StoreFingerprint, Goto
      <3> QED BY <1>1, <1>2, <2>1, <3>1 DEF Nearer, Work
    <2> QED BY <1>4, <2>2, <2>3, <2>4, <2>5
  <1> QED BY <1>3, <1>4

LEMMA DroppedStep ==
  ASSUME TypeInv, Decref
  PROVE  Nearer
  <1>1. /\ pc = "release" /\ todo \in Seq(Pointers) /\ todo # <<>> /\ Head(todo) \in Pointers
        /\ refs \in [Values -> 0 .. 2] /\ Len(Tail(todo)) = Len(todo) - 1 /\ Len(todo) \in Nat
    BY HeadTailProperties DEF Decref, TypeInv, JsonOK
  <1>2. CASE pc' = "crashed"
    BY <1>1, <1>2 DEF Nearer, Stage
  <1>3. CASE pc' = "release"
    <2>1. Stage = 4 /\ Stage' = 4
      BY <1>1, <1>3 DEF Stage
    <2>2. CASE Head(todo) \notin null \cup {NULL} /\ refs[Head(todo)] > 0
      <3>1. refs' = [refs EXCEPT ![Head(todo)] = @ - 1] /\ Head(todo) \in Values
        BY <1>1, <2>2 DEF Decref, Pointers
      <3>2. refs' # refs /\ \A v \in Values : refs'[v] <= refs[v]
        BY <1>1, <2>2, <3>1
      <3> QED BY <2>1, <3>2 DEF Nearer, Dropped
    <2>3. CASE UNCHANGED refs /\ todo' = Tail(todo)
      BY <1>1, <2>1, <2>3 DEF Nearer, Dropped
    <2> QED BY <2>2, <2>3 DEF Decref
  <1> QED BY <1>1, <1>2, <1>3 DEF Decref

\* The half of Answered that is not fairness: a file of any number of streams is
\* answered for in a bounded number of steps.  Each step comes nearer: to the next stage, to
\* the end of the streams, or, when references are dropped, to none being left, although
\* a freed value can put others on the list.
THEOREM AnswerComesNearer == Spec => [][Nearer]_vars
  <1>1. TypeInv /\ Next => Nearer
    <2> SUFFICES ASSUME TypeInv, Next PROVE Nearer
      OBVIOUS
    <2>1. CASE NextStream \/ TranscodeStream \/ TakeFingerprint
      BY <2>1, WorkStep
    <2>2. CASE Decref
      BY <2>2, DroppedStep
    <2>3. CASE Allocate \/ OpenInput \/ FindStreamInfo \/ SetupJson
      BY <2>3 DEF Allocate, OpenInput, FindStreamInfo, SetupJson, Goto, Nearer, Stage
    <2>4. CASE Dump \/ End \/ Main
      BY <2>4 DEF Dump, End, Main, Goto, Nearer, Stage
    <2>5. CASE Collect
      BY <2>5 DEF Collect, Goto, Nearer, Stage
    <2> QED BY <2>1, <2>2, <2>3, <2>4, <2>5 DEF Next, Native
  <1> QED BY <1>1, TypeInvInit, TypeInvStep, PTL DEF Spec
=============================================================================
