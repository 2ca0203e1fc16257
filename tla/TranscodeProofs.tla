-------------------------- MODULE TranscodeProofs --------------------------
(***************************************************************************)
(* For inputs with any number of streams, packets and frames, any delay of *)
(* the filter and any set of faults: frames are muxed in order and none is *)
(* missing from a file that is handed out, whoever opened the input closes *)
(* it, what was set up is taken down, and every step of a call brings its  *)
(* return nearer.                                                          *)
(***************************************************************************)
EXTENDS Transcode, SequenceTheorems, FiniteSetTheorems, TLAPS

Opening == {"input", "decoders", "output", "file", "filters", "packet"}

Pumping == {"read", "send", "receive", "pull", "encode", "flush"}

-----------------------------------------------------------------------------
(* Sequences of frames *)

\* The frames of s are numbered from a + 1 on.
Follows(s, a) == s \in Seq(Nat) /\ \A i \in 1 .. Len(s) : s[i] = a + i

LEMMA FollowsEmpty ==
  ASSUME NEW a \in Nat
  PROVE  Follows(<<>>, a) /\ Len(<<>>) = 0
  BY EmptySeq DEF Follows

LEMMA FollowsTail ==
  ASSUME NEW a \in Nat, NEW s, Follows(s, a), s # <<>>
  PROVE  /\ Len(s) \in Nat \ {0} /\ Head(s) = a + 1
         /\ Follows(Tail(s), a + 1) /\ Len(Tail(s)) = Len(s) - 1
  <1>1. Len(s) \in Nat \ {0}
    BY EmptySeq, LenProperties DEF Follows
  <1>2. Tail(s) \in Seq(Nat) /\ Len(Tail(s)) = Len(s) - 1
        /\ \A i \in 1 .. Len(Tail(s)) : Tail(s)[i] = s[i + 1]
    BY HeadTailProperties DEF Follows
  <1>3. Head(s) = s[1]
    BY DEF Follows
  <1> QED BY <1>1, <1>2, <1>3 DEF Follows

LEMMA FollowsAppend ==
  ASSUME NEW a \in Nat, NEW s, Follows(s, a), NEW x, x = a + Len(s) + 1
  PROVE  Follows(Append(s, x), a) /\ Len(Append(s, x)) = Len(s) + 1
  <1>1. Len(s) \in Nat /\ x \in Nat
    BY LenProperties DEF Follows
  <1>2. /\ Append(s, x) \in Seq(Nat) /\ Len(Append(s, x)) = Len(s) + 1
        /\ \A i \in 1 .. Len(s) : Append(s, x)[i] = s[i]
        /\ Append(s, x)[Len(s) + 1] = x
    BY <1>1, AppendProperties DEF Follows
  <1> QED BY <1>1, <1>2 DEF Follows

\* What a packet decodes to follows what is there.
LEMMA FollowsMore ==
  ASSUME NEW a \in Nat, NEW s, Follows(s, a), NEW n \in Nat, NEW f, f = a + Len(s)
  PROVE  LET more == s \o [i \in 1 .. n |-> f + i]
         IN  Follows(more, a) /\ Len(more) = Len(s) + n
  <1> DEFINE t == [i \in 1 .. n |-> f + i]
  <1>1. Len(s) \in Nat /\ f \in Nat
    BY LenProperties DEF Follows
  <1>2. t \in [1 .. n -> Nat]
    BY <1>1
  <1>3. t \in Seq(Nat) /\ DOMAIN t = 1 .. n
    BY <1>2, SeqDef
  <1>4. Len(t) = n
    BY <1>3, LenProperties
  <1>5. \A i \in 1 .. n : t[i] = f + i
    OBVIOUS
  <1> HIDE DEF t
  <1>6. /\ s \o t \in Seq(Nat) /\ Len(s \o t) = Len(s) + n
        /\ \A i \in 1 .. Len(s) + n : (s \o t)[i] = IF i <= Len(s) THEN s[i] ELSE t[i - Len(s)]
    BY <1>3, <1>4, ConcatProperties DEF Follows
  <1>7. Follows(s \o t, a)
    BY <1>1, <1>5, <1>6 DEF Follows
  <1> QED BY <1>6, <1>7 DEF t

-----------------------------------------------------------------------------
(* The frames *)

\* Between decoder and muxer no frame is lost or overtaken while the pump runs.
InOrder ==
  /\ Follows(muxed, 0) /\ frames \in Nat
  /\ pc \in Opening \cup Pumping =>
       /\ Follows(filter, Len(muxed))
       /\ Follows(decoder, Len(muxed) + Len(filter))
       /\ frames = Len(muxed) + Len(filter) + Len(decoder)

\* Where the pump stands: the decoder is empty whenever a packet is to be read, and
\* it stays so when the filter graph is flushed.
Pump_State ==
  /\ pc \in Opening => muxed = <<>> /\ filter = <<>> /\ frames = 0 /\ ~held
  /\ pc \in Opening \cup {"read", "send", "flush"} => decoder = <<>>
  /\ pc \in Opening \cup {"read", "send", "receive", "flush"} => ~flushing
  /\ flushing /\ pc \in Pumping => decoder = <<>>
  /\ pc = "encode" => filter # <<>>
  /\ pc \in {"send", "receive"} => held
  /\ pc \in {"pull", "encode"} /\ ~flushing => held

\* What has ended well has muxed all frames, and has written the trailer unless it
\* had no packet; only then is a handle handed out.
Ends ==
  /\ pc \in Opening \cup Pumping => ~failed
  /\ pc \in Opening => ptr["packet"] = "null"
  /\ pc = "end" /\ ~failed => Len(muxed) = frames /\ (trailer \/ unread)
  /\ result = "handle" =>
       pc = "idle" /\ Len(muxed) = frames /\ (trailer \/ unread)

Flow == InOrder /\ Pump_State /\ Ends

LEMMA InitFlow == Init => Flow
  <1> SUFFICES ASSUME Init PROVE Flow
    OBVIOUS
  <1>1. InOrder
    BY FollowsEmpty DEF Init, InOrder, Opening, Pumping
  <1>2. Pump_State /\ Ends
    BY DEF Init, Pump_State, Ends, Opening, Pumping
  <1> QED BY <1>1, <1>2 DEF Flow

LEMMA CallFlow ==
  ASSUME Flow, NEW fp \in PathModes, Call(fp), ptr \in [Pointers -> {"null", "live", "wild"}]
  PROVE  Flow'
  <1>1. /\ pc' = "input" /\ decoder' = <<>> /\ filter' = <<>> /\ muxed' = <<>> /\ frames' = 0
        /\ ~held' /\ ~flushing' /\ ~failed' /\ result' # "handle" /\ ptr'["packet"] = "null"
    BY DEF Call, Goto, Pointers, Statics, InStream, InFilter
  <1>2. InOrder'
    BY <1>1, FollowsEmpty DEF InOrder
  <1>3. Pump_State' /\ Ends'
    BY <1>1 DEF Pump_State, Ends, Opening, Pumping
  <1> QED BY <1>2, <1>3 DEF Flow

\* Nothing flows while the call opens its files.
LEMMA OpenFlow ==
  ASSUME Flow, UNCHANGED <<pipeline, result>>,
         pc \in Opening,
         \/ pc' \in Opening /\ failed' = failed /\ ptr'["packet"] = ptr["packet"]
         \/ pc' = "read" /\ failed' = failed
         \/ pc' = "end" /\ (failed' \/ unread')
  PROVE  Flow'
  <1>1. InOrder'
    BY DEF Flow, InOrder, pipeline, Opening, Pumping
  <1>2. Pump_State'
    BY DEF Flow, Pump_State, pipeline, Opening, Pumping
  <1>3. Len(muxed) = frames
    BY FollowsEmpty DEF Flow, Pump_State
  <1>4. Ends'
    BY <1>3 DEF Flow, Ends, Opening, Pumping, pipeline
  <1> QED BY <1>1, <1>2, <1>4 DEF Flow

\* The numbers in use at a step of the pump.
LEMMA Lengths ==
  ASSUME Flow
  PROVE  /\ Len(muxed) \in Nat /\ frames \in Nat
         /\ pc \in Opening \cup Pumping => Len(filter) \in Nat /\ Len(decoder) \in Nat
  BY LenProperties DEF Flow, InOrder, Follows

LEMMA PumpFlow ==
  ASSUME Flow, Pump, ptr' = ptr
  PROVE  Flow'
  <1>0. UNCHANGED <<ptr, result, unread>> /\ pc \in Pumping
    BY DEF Pump, ReadPacket, SendPacket, ReceiveFrame, PullFrame, EncodeFrame, FlushFilter,
           Step, Goto, Fail, Pumping, resources, history
  <1>1. CASE ReadPacket
    <2>1. /\ pc = "read" /\ failed' = failed
          /\ UNCHANGED <<frames, decoder, filter, muxed, flushing, trailer>>
          /\ \/ pc' = "send" /\ held'
             \/ pc' = "read"
             \/ pc' = "flush"
      BY <1>1 DEF ReadPacket, Step, Goto
    <2> QED BY <1>0, <2>1 DEF Flow, InOrder, Pump_State, Ends, Opening, Pumping
  <1>2. CASE SendPacket
    <2>1. /\ pc = "send" /\ failed' = failed /\ pc' \in {"receive", "flush"}
          /\ UNCHANGED <<held, filter, muxed, flushing, trailer>>
      BY <1>2 DEF SendPacket, Step, Goto
    <2>2. Pump_State' /\ Ends'
      <3>1. pc' = "flush" => decoder' = decoder
        BY <1>2 DEF SendPacket, Step, Goto
      <3> QED BY <1>0, <2>1, <3>1 DEF Flow, Pump_State, Ends, Opening, Pumping
    <2>3. CASE UNCHANGED <<decoder, frames>>
      BY <2>1, <2>2, <2>3 DEF Flow, InOrder, Opening, Pumping
    <2>4. ASSUME NEW n \in FrameCounts,
                 decoder' = decoder \o [i \in 1 .. n |-> frames + i] /\ frames' = frames + n
          PROVE  Flow'
      <3>1. /\ Follows(decoder, Len(muxed) + Len(filter)) /\ Len(muxed) + Len(filter) \in Nat
            /\ frames = Len(muxed) + Len(filter) + Len(decoder)
            /\ n \in Nat /\ Len(decoder) \in Nat
        BY <2>1, InputsAssumption, Lengths DEF Flow, InOrder, Pumping
      <3>2. /\ Follows(decoder', Len(muxed) + Len(filter))
            /\ Len(decoder') = Len(decoder) + n
        BY <2>4, <3>1, FollowsMore
      <3>3. InOrder'
        BY <2>1, <2>4, <3>1, <3>2 DEF Flow, InOrder, Opening, Pumping
      <3> QED BY <2>2, <3>3 DEF Flow
    <2> QED BY <1>2, <2>3, <2>4 DEF SendPacket
  <1>3. CASE ReceiveFrame
    <2>1. pc = "receive" /\ UNCHANGED <<frames, muxed, flushing, trailer>>
      BY <1>3 DEF ReceiveFrame, Step, Goto, Fail
    <2>2. CASE decoder = <<>> /\ Step("receive", "read") /\ UNCHANGED <<decoder, filter>>
      BY <1>0, <2>1, <2>2 DEF Step, Goto, Flow, InOrder, Pump_State, Ends, Opening, Pumping
    <2>3. CASE /\ decoder # <<>> /\ Step("receive", "pull") /\ UNCHANGED held
               /\ filter' = Append(filter, Head(decoder)) /\ decoder' = Tail(decoder)
      <3>1. /\ Follows(filter, Len(muxed)) /\ Follows(decoder, Len(muxed) + Len(filter))
            /\ Len(muxed) \in Nat /\ Len(filter) \in Nat
            /\ frames = Len(muxed) + Len(filter) + Len(decoder)
        BY <2>1, Lengths DEF Flow, InOrder, Pumping
      <3>2. /\ Head(decoder) = Len(muxed) + Len(filter) + 1 /\ Len(decoder) \in Nat
            /\ Follows(decoder', Len(muxed) + Len(filter) + 1) /\ Len(decoder') = Len(decoder) - 1
        BY <2>3, <3>1, FollowsTail
      <3>3. Follows(filter', Len(muxed)) /\ Len(filter') = Len(filter) + 1
        BY <2>3, <3>1, <3>2, FollowsAppend
      <3>4. Len(muxed) + Len(filter) + 1 = Len(muxed) + Len(filter')
        BY <3>1, <3>3
      <3>5. InOrder'
        BY <2>1, <3>1, <3>2, <3>3, <3>4 DEF Flow, InOrder, Opening, Pumping
      <3> QED BY <1>0, <2>1, <2>3, <3>5 DEF Step, Goto, Flow, Pump_State, Ends, Opening, Pumping
    <2>4. CASE Fail("receive", "loop")
      BY <1>0, <2>1, <2>4 DEF Fail, Goto, Flow, InOrder, Pump_State, Ends, Opening, Pumping
    <2> QED BY <1>3, <2>2, <2>3, <2>4 DEF ReceiveFrame
  <1>4. CASE PullFrame
    <2>1. pc = "pull" /\ UNCHANGED <<held, frames, decoder, filter, muxed, flushing>>
      BY <1>4 DEF PullFrame, Step, Goto, Fail
    <2>2. CASE Available /\ Step("pull", "encode") /\ UNCHANGED trailer
      <3>1. filter # <<>>
        BY <2>2, FollowsEmpty, InputsAssumption DEF Available
      <3> QED BY <1>0, <2>1, <2>2, <3>1
              DEF Step, Goto, Flow, InOrder, Pump_State, Ends, Opening, Pumping
    <2>3. CASE ~flushing /\ Step("pull", "receive") /\ UNCHANGED trailer
      BY <1>0, <2>1, <2>3 DEF Step, Goto, Flow, InOrder, Pump_State, Ends, Opening, Pumping
    <2>4. CASE ~Available /\ flushing /\ Step("pull", "end") /\ trailer' = TRUE
      <3>1. Len(filter) = 0 /\ decoder = <<>>
        BY <2>1, <2>4, Lengths DEF Available, Flow, Pump_State, Pumping
      <3>2. Len(muxed) = frames
        BY <2>1, <3>1, Lengths, FollowsEmpty DEF Flow, InOrder, Pumping
      <3> QED BY <1>0, <2>1, <2>4, <3>2
              DEF Step, Goto, Flow, InOrder, Pump_State, Ends, Opening, Pumping
    <2>5. CASE Fail("pull", "loop") /\ UNCHANGED trailer
      BY <1>0, <2>1, <2>5 DEF Fail, Goto, Flow, InOrder, Pump_State, Ends, Opening, Pumping
    <2> QED BY <1>4, <2>2, <2>3, <2>4, <2>5 DEF PullFrame
  <1>5. CASE EncodeFrame
    <2>1. pc = "encode" /\ UNCHANGED <<held, frames, decoder, flushing, trailer>>
      BY <1>5 DEF EncodeFrame
    <2>2. CASE Step("encode", "undefined") /\ UNCHANGED <<filter, muxed>>
      BY <1>0, <2>1, <2>2 DEF Step, Goto, Flow, InOrder, Pump_State, Ends, Opening, Pumping
    <2>3. CASE /\ Step("encode", "pull") /\ muxed' = Append(muxed, Head(filter))
               /\ filter' = Tail(filter)
      <3>1. /\ Follows(filter, Len(muxed)) /\ Follows(decoder, Len(muxed) + Len(filter))
            /\ Follows(muxed, 0) /\ Len(muxed) \in Nat /\ Len(filter) \in Nat /\ filter # <<>>
            /\ Len(decoder) \in Nat /\ frames = Len(muxed) + Len(filter) + Len(decoder)
        BY <2>1, Lengths DEF Flow, InOrder, Pump_State, Pumping
      <3>2. /\ Head(filter) = Len(muxed) + 1
            /\ Follows(filter', Len(muxed) + 1) /\ Len(filter') = Len(filter) - 1
        BY <2>3, <3>1, FollowsTail
      <3>3. Follows(muxed', 0) /\ Len(muxed') = Len(muxed) + 1
        BY <2>3, <3>1, <3>2, FollowsAppend
      <3>4. Len(muxed') + Len(filter') = Len(muxed) + Len(filter)
        BY <3>1, <3>2, <3>3
      <3>5. InOrder'
        BY <2>1, <3>1, <3>2, <3>3, <3>4 DEF Flow, InOrder, Opening, Pumping
      <3> QED BY <1>0, <2>1, <2>3, <3>5 DEF Step, Goto, Flow, Pump_State, Ends, Opening, Pumping
    <2>4. CASE Fail("encode", "loop") /\ UNCHANGED muxed
      BY <1>0, <2>1, <2>4 DEF Fail, Goto, Flow, InOrder, Pump_State, Ends, Opening, Pumping
    <2> QED BY <1>5, <2>2, <2>3, <2>4 DEF EncodeFrame
  <1>6. CASE FlushFilter
    <2>1. /\ pc = "flush" /\ UNCHANGED <<held, frames, decoder, filter, muxed, trailer>>
          /\ \/ pc' = "pull" /\ flushing' /\ failed' = failed
             \/ pc' = "end" /\ failed'
      BY <1>6 DEF FlushFilter, Step, Goto, Fail
    <2> QED BY <1>0, <2>1 DEF Flow, InOrder, Pump_State, Ends, Opening, Pumping
  <1> QED BY <1>1, <1>2, <1>3, <1>4, <1>5, <1>6 DEF Pump

LEMMA EndFlow ==
  ASSUME Flow, End
  PROVE  Flow'
  <1>1. pc = "end" /\ pc' \in {"idle", "undefined"} /\ UNCHANGED pipeline
    BY DEF End
  <1>2. InOrder' /\ Pump_State'
    BY <1>1 DEF Flow, InOrder, Pump_State, Opening, Pumping, pipeline
  <1>3. result # "handle"
    BY <1>1 DEF Flow, Ends
  <1>4. (result' = "handle" => pc' = "idle" /\ ~failed) /\ unread' = unread
    BY <1>3 DEF End, Returned, resources, history
  <1>5. Ends'
    BY <1>1, <1>4 DEF Flow, Ends, Opening, Pumping, pipeline
  <1> QED BY <1>2, <1>5 DEF Flow

-----------------------------------------------------------------------------
(* The types of all but pointers and heap *)

PCs == {"idle", "end", "undefined"} \cup Opening \cup Pumping

DataType ==
  /\ pc \in PCs
  /\ from_path \in BOOLEAN /\ failed \in BOOLEAN /\ caller_open \in BOOLEAN
  /\ unread \in BOOLEAN /\ held \in BOOLEAN /\ flushing \in BOOLEAN
  /\ trailer \in BOOLEAN
  /\ streams \in Inputs \cup {<<>>}
  /\ ifmt \in {"null", "own", "caller"}
  /\ result \in {"NULL", "handle"}
  /\ calls \in Nat /\ packets \in Nat /\ frames \in Nat
  /\ surplus \in Nat /\ aborted \in Nat /\ skipped \in Nat
  /\ decoder \in Seq(Nat) /\ filter \in Seq(Nat) /\ muxed \in Seq(Nat)

LEMMA InitData == Init => DataType
  <1> SUFFICES ASSUME Init PROVE DataType
    OBVIOUS
  <1>1. <<>> \in Seq(Nat)
    BY EmptySeq
  <1>2. caller_open \in BOOLEAN /\ unread \in BOOLEAN /\ from_path \in BOOLEAN
        /\ failed \in BOOLEAN /\ held \in BOOLEAN /\ flushing \in BOOLEAN
        /\ trailer \in BOOLEAN
    BY DEF Init
  <1> QED BY <1>1, <1>2 DEF Init, DataType, PCs

LEMMA OpenData ==
  ASSUME DataType, Open
  PROVE  DataType'
  <1>1. /\ pc' \in PCs /\ failed' \in BOOLEAN /\ ifmt' \in {"null", "own", "caller"}
        /\ UNCHANGED <<from_path, caller_open, result, calls, pipeline>>
    BY DEF Open, OpenInput, OpenDecoders, OpenOutput, OpenFile, InitFilters, AllocPacket,
           Step, Goto, Fail, PCs, Opening, Pumping, DataType
  <1>2. Opened
    BY DEF Open, OpenInput, OpenDecoders, OpenOutput, OpenFile, InitFilters, AllocPacket
  <1>3. surplus' \in Nat /\ aborted' \in Nat /\ skipped' \in Nat /\ unread' \in BOOLEAN
    BY <1>2 DEF Opened, DataType
  <1> QED BY <1>1, <1>3 DEF DataType, pipeline

\* The audio streams of an input can be counted.
LEMMA AudioStreams ==
  ASSUME NEW s \in Seq({"audio", "other"})
  PROVE  Cardinality({i \in DOMAIN s : s[i] = "audio"}) \in Nat
  <1>1. Len(s) \in Nat /\ DOMAIN s = 1 .. Len(s)
    BY LenProperties
  <1>2. IsFiniteSet(1 .. Len(s)) /\ {i \in DOMAIN s : s[i] = "audio"} \subseteq 1 .. Len(s)
    BY <1>1, FS_Interval
  <1> QED BY <1>2, FS_Subset, FS_CardinalityType

LEMMA AudioCount ==
  ASSUME DataType
  PROVE  NAudio \in Nat /\ Extra \in Nat /\ (NAudio > 0 => NAudio = Extra + 1)
  <1>1. streams \in Seq({"audio", "other"})
    BY EmptySeq, InputsAssumption DEF DataType
  <1>2. NAudio \in Nat
    BY <1>1, AudioStreams DEF NAudio, Audio
  <1> QED BY <1>2 DEF Extra

\* The next input's streams can be counted too.
LEMMA NextExtra ==
  ASSUME streams' \in Inputs
  PROVE  Extra' \in Nat
  <1>1. streams' \in Seq({"audio", "other"})
    BY InputsAssumption
  <1>2. Cardinality({i \in DOMAIN streams' : streams'[i] = "audio"}) \in Nat
    BY <1>1, AudioStreams
  <1> QED BY <1>2 DEF Extra, NAudio, Audio

LEMMA CallData ==
  ASSUME DataType, NEW fp \in PathModes, Call(fp)
  PROVE  DataType'
  <1>1. /\ pc' = "input" /\ from_path' = fp /\ failed' = FALSE /\ calls' = calls + 1
        /\ streams' \in Inputs /\ packets' = 0 /\ held' = FALSE /\ frames' = 0
        /\ decoder' = <<>> /\ filter' = <<>> /\ muxed' = <<>>
        /\ flushing' = FALSE /\ trailer' = FALSE
        /\ surplus' = surplus + Extra' /\ unread' = FALSE
        /\ UNCHANGED <<ifmt, caller_open, result, aborted, skipped>>
    BY DEF Call, Goto
  <1>2. <<>> \in Seq(Nat)
    BY EmptySeq
  <1>3. fp \in BOOLEAN
    BY InputsAssumption
  <1>4. /\ from_path' \in BOOLEAN /\ failed' \in BOOLEAN /\ held' \in BOOLEAN
        /\ flushing' \in BOOLEAN /\ trailer' \in BOOLEAN
        /\ caller_open' \in BOOLEAN /\ unread' \in BOOLEAN
    BY <1>1, <1>3 DEF DataType
  <1>5. surplus' \in Nat
    BY <1>1, NextExtra DEF DataType
  <1> QED BY <1>1, <1>2, <1>4, <1>5 DEF DataType, PCs, Opening

LEMMA PumpData ==
  ASSUME DataType, Flow, Pump
  PROVE  DataType'
  <1>1. UNCHANGED <<from_path, ifmt, caller_open, result, calls, surplus, aborted, unread,
                    streams>>
    BY DEF Pump, ReadPacket, SendPacket, ReceiveFrame, PullFrame, EncodeFrame, FlushFilter,
           resources, history
  <1>2. pc' \in PCs /\ failed' \in BOOLEAN
    BY DEF Pump, ReadPacket, SendPacket, ReceiveFrame, PullFrame, EncodeFrame, FlushFilter,
           Step, Goto, Fail, PCs, Opening, Pumping, DataType
  <1>3. held' \in BOOLEAN /\ flushing' \in BOOLEAN /\ trailer' \in BOOLEAN
    BY DEF Pump, ReadPacket, SendPacket, ReceiveFrame, PullFrame, EncodeFrame, FlushFilter,
           DataType
  <1>4. packets' \in Nat /\ skipped' \in Nat
    BY DEF Pump, ReadPacket, SendPacket, ReceiveFrame, PullFrame, EncodeFrame, FlushFilter,
           DataType, resources, history
  <1>5. frames' \in Nat /\ decoder' \in Seq(Nat) /\ filter' \in Seq(Nat) /\ muxed' \in Seq(Nat)
    <2>1. CASE SendPacket
      <3>1. ASSUME NEW n \in FrameCounts,
                   decoder' = decoder \o [i \in 1 .. n |-> frames + i], frames' = frames + n
            PROVE  frames' \in Nat /\ decoder' \in Seq(Nat)
        <4>1. n \in Nat
          BY InputsAssumption
        <4>2. [i \in 1 .. n |-> frames + i] \in [1 .. n -> Nat]
          BY <4>1 DEF DataType
        <4>3. [i \in 1 .. n |-> frames + i] \in Seq(Nat)
          BY <4>1, <4>2, SeqDef
        <4> QED BY <3>1, <4>1, <4>3, ConcatProperties DEF DataType
      <3> QED BY <2>1, <3>1 DEF SendPacket, DataType
    <2>2. CASE ReceiveFrame
      <3>1. ASSUME decoder # <<>>
            PROVE  Tail(decoder) \in Seq(Nat) /\ Append(filter, Head(decoder)) \in Seq(Nat)
        BY <3>1, HeadTailProperties, AppendProperties DEF DataType
      <3> QED BY <2>2, <3>1 DEF ReceiveFrame, DataType
    <2>3. CASE EncodeFrame
      <3>1. filter # <<>>
        BY <2>3 DEF EncodeFrame, Flow, Pump_State
      <3>2. Tail(filter) \in Seq(Nat) /\ Append(muxed, Head(filter)) \in Seq(Nat)
        BY <3>1, HeadTailProperties, AppendProperties DEF DataType
      <3> QED BY <2>3, <3>2 DEF EncodeFrame, DataType
    <2>4. CASE ReadPacket \/ PullFrame \/ FlushFilter
      BY <2>4 DEF ReadPacket, PullFrame, FlushFilter, DataType
    <2> QED BY <2>1, <2>2, <2>3, <2>4 DEF Pump
  <1> QED BY <1>1, <1>2, <1>3, <1>4, <1>5 DEF DataType

LEMMA EndData ==
  ASSUME DataType, End \/ CallerCloses
  PROVE  DataType'
  <1>1. UNCHANGED <<from_path, failed, pipeline, calls, surplus, aborted, skipped, unread>>
    BY DEF End, CallerCloses, resources, history
  <1>2. pc' \in PCs /\ ifmt' \in {"null", "own", "caller"} /\ result' \in {"NULL", "handle"}
    BY DEF End, CallerCloses, DataType, PCs, Returned, resources
  <1>3. caller_open' \in BOOLEAN
    BY DEF End, CallerCloses, DataType, resources
  <1> QED BY <1>1, <1>2, <1>3 DEF DataType, pipeline

-----------------------------------------------------------------------------
(* Pointers and heap *)

MemType ==
  /\ ptr \in [Pointers -> {"null", "live", "wild"}]
  /\ heap \in [Objects -> Nat]

\* What is live exists, and so does what a call has yet to give back.
Backed ==
  /\ \A p \in Pointers : ptr[p] = "live" => heap[p] >= 1
  /\ held /\ pc \in Pumping \cup {"end"} => heap["payload"] >= 1
  /\ \/ pc \in {"filters", "packet"} \cup Pumping
     \/ pc = "end" /\ ~failed
     \/ result = "handle"
     => heap["handle"] >= 1

\* The demuxer: who opened it, and that it is there to be closed.
Owner ==
  /\ caller_open
  /\ pc \in {"idle", "input"} => heap["ifmt_ctx"] = 0
  /\ pc \in (Opening \ {"input"}) \cup Pumping \cup {"end"} =>
       /\ from_path => ifmt # "caller"
       /\ ~from_path => ifmt # "own"
       /\ heap["ifmt_ctx"] = IF ifmt = "own" THEN 1 ELSE 0

\* What the functions that have succeeded leave behind.
DecSet == {"stream_ctx", "dec_ctx", "dec_frame"}
OutSet == {"ofmt_ctx", "enc_ctx"}
FilterSet == InFilter \cup {"filter_ctx"}
Own == Pointers \ {"pb"}

Acquired ==
  IF pc \in {"idle", "input", "decoders"} THEN {}
  ELSE IF pc = "output" THEN DecSet
  ELSE IF pc \in {"file", "filters"} THEN DecSet \cup OutSet
  ELSE IF pc = "packet" THEN DecSet \cup OutSet \cup FilterSet
  ELSE Own

\* The call is on its way, or has come as far as its packet.
SetUp == pc \notin {"end", "undefined"} \/ (pc = "end" /\ ptr["packet"] = "live")

AcquiredIsLive ==
  /\ SetUp /\ NAudio > 0 => \A p \in Acquired : ptr[p] = "live"
  /\ pc \in {"packet"} \cup Pumping \/ (pc = "end" /\ ptr["packet"] = "live") => NAudio > 0

\* Nothing is live that the call has not come to, and nothing that the cleanup would
\* pass over.
LiveIsAcquired ==
  /\ pc \in Opening \cup {"idle"} => \A p \in Own : ptr[p] = "live" => p \in Acquired
  /\ \A p \in InFilter : ptr[p] = "live" =>
       ptr["filter_ctx"] # "null" /\ ptr["filter_graph"] # "null"

Live(p) == IF ptr[p] = "live" THEN 1 ELSE 0

\* The streams of this input beyond its first that o has yet to be overwritten for.
Ahead(o) ==
  IF pc \in {"input", "decoders"} \/ (pc = "output" /\ o = "enc_ctx") THEN Extra ELSE 0

\* How many objects of a sort may exist that no pointer leads to.
Excused(o) ==
  IF o \in InStream THEN surplus - Ahead(o) + aborted
  ELSE IF o = "filter_graph" THEN aborted
  ELSE 0

Counted ==
  /\ \A o \in Own : heap[o] <= Live(o) + Excused(o)
  /\ heap["payload"] = skipped + (IF held /\ pc \notin {"read", "idle"} THEN 1 ELSE 0)

Memory == MemType /\ Backed /\ Owner /\ AcquiredIsLive /\ LiveIsAcquired /\ Counted

\* The names, as the provers need them.
LEMMA Names ==
  /\ Pointers = {"stream_ctx", "filter_ctx", "ofmt_ctx", "dec_ctx", "enc_ctx", "dec_frame",
                 "filter_graph", "enc_pkt", "filtered_frame", "pb", "packet"}
  /\ Objects = Pointers \cup {"handle", "ifmt_ctx", "payload"}
  /\ Own = Pointers \ {"pb"}
  /\ FilterSet = {"filter_graph", "enc_pkt", "filtered_frame", "filter_ctx"}
  BY DEF Pointers, Objects, Own, FilterSet, Statics, InStream, InFilter

\* A step after which no more is unaccounted for than before keeps the count.
LEMMA StillCounted ==
  ASSUME MemType, MemType', Counted, DataType, DataType', Extra' \in Nat,
         \A o \in Own : heap'[o] + Live(o) + Excused(o) <= heap[o] + Live(o)' + Excused(o)'
  PROVE  \A o \in Own : heap'[o] <= Live(o)' + Excused(o)'
  <1> SUFFICES ASSUME NEW o \in Own PROVE heap'[o] <= Live(o)' + Excused(o)'
    OBVIOUS
  <1>1. heap[o] \in Nat /\ heap'[o] \in Nat
    BY Names DEF MemType
  <1>2. Live(o) \in Int /\ Live(o)' \in Int
    BY DEF Live
  <1>3. Extra \in Nat
    BY AudioCount
  <1>4. Excused(o) \in Int /\ Excused(o)' \in Int
    BY <1>3 DEF Excused, Ahead, DataType
  <1>5. heap[o] <= Live(o) + Excused(o)
    BY DEF Counted
  <1>6. heap'[o] + Live(o) + Excused(o) <= heap[o] + Live(o)' + Excused(o)'
    OBVIOUS
  <1> HIDE DEF Live, Excused
  <1> QED BY <1>1, <1>2, <1>4, <1>5, <1>6

\* What Allocate adds.
LEMMA Allocated ==
  ASSUME MemType, NEW f, DOMAIN f \subseteq Objects, \A o \in DOMAIN f : f[o] \in Nat
  PROVE  /\ Allocate(f) \in [Objects -> Nat]
         /\ \A o \in Objects : Allocate(f)[o] = heap[o] + (IF o \in DOMAIN f THEN f[o] ELSE 0)
         /\ \A o \in Objects : Allocate(f)[o] >= heap[o]
  BY DEF MemType, Allocate

LEMMA SetTo ==
  ASSUME MemType, NEW f, \A p \in DOMAIN f : f[p] \in {"null", "live", "wild"}
  PROVE  /\ Set(f) \in [Pointers -> {"null", "live", "wild"}]
         /\ \A p \in Pointers : Set(f)[p] = IF p \in DOMAIN f THEN f[p] ELSE ptr[p]
  BY DEF MemType, Set

LEMMA InitMemory == Init => Memory
  <1> SUFFICES ASSUME Init PROVE Memory
    OBVIOUS
  <1>1. MemType
    BY DEF Init, MemType
  <1>2. \A o \in Objects : heap[o] = 0
    BY DEF Init
  <1>3. Owner /\ Backed
    BY <1>2, Names DEF Init, Owner, Backed, Opening, Pumping
  <1>4. AcquiredIsLive /\ LiveIsAcquired
    BY Names DEF Init, AcquiredIsLive, LiveIsAcquired, Acquired, Pumping, Own, InFilter
  <1>5. Counted
    BY <1>2, Names DEF Init, Counted, Live, Excused, Ahead
  <1> QED BY <1>1, <1>3, <1>4, <1>5 DEF Memory

LEMMA CallMemory ==
  ASSUME Memory, Ends, DataType, DataType', NEW fp \in PathModes, Call(fp)
  PROVE  Memory'
  <1>1. /\ pc = "idle" /\ pc' = "input" /\ ptr' = [ptr EXCEPT !["packet"] = "null"] /\ ~held'
        /\ result' # "handle" /\ UNCHANGED <<caller_open, heap, aborted, skipped>>
        /\ surplus' = surplus + Extra' /\ streams' \in Inputs
    BY DEF Call, Goto
  <1>2. MemType'
    BY <1>1 DEF Memory, MemType
  <1>3. Backed'
    BY <1>1 DEF Memory, MemType, Backed, Pumping
  <1>4. Owner'
    BY <1>1 DEF Memory, Owner, Opening, Pumping
  <1>5. AcquiredIsLive'
    BY <1>1 DEF AcquiredIsLive, Acquired, Pumping
  <1>6. (\A p \in Own : ptr[p] # "live") /\ (\A p \in Own : ptr'[p] # "live")
    BY <1>1, Names DEF Memory, MemType, LiveIsAcquired, Acquired
  <1>7. LiveIsAcquired'
    BY <1>6, Names DEF LiveIsAcquired, FilterSet, InFilter
  <1>8. Extra' \in Nat
    BY <1>1, NextExtra
  <1>9. \A o \in Own : Excused(o)' = Excused(o)
    <2>1. \A o \in Own : Ahead(o) = 0 /\ Ahead(o)' = Extra'
      BY <1>1 DEF Ahead
    <2>2. surplus \in Nat /\ aborted \in Nat /\ aborted' = aborted
      BY <1>1 DEF DataType
    <2>3. ASSUME NEW e \in Nat, NEW s, s = surplus + e
          PROVE  s - e + aborted = surplus - 0 + aborted
      BY <2>2, <2>3
    <2>4. surplus' - Extra' + aborted = surplus - 0 + aborted
      BY <1>1, <1>8, <2>3
    <2>5. \A o \in Own : surplus' - Ahead(o)' + aborted' = surplus - Ahead(o) + aborted
      BY <2>1, <2>2, <2>4
    <2> QED BY <2>2, <2>5 DEF Excused
  <1>10. \A o \in Own : Live(o) = 0 /\ Live(o)' = 0
    BY <1>6 DEF Live
  <1>11. Counted'
    BY <1>1, <1>9, <1>10 DEF Memory, Counted
  <1> QED BY <1>2, <1>3, <1>4, <1>5, <1>7, <1>11 DEF Memory

\* What all steps of opening share: objects are added, none goes away unaccounted for,
\* and the call either gets on, with what it needs, or ends without a packet.
LEMMA OpenMemory ==
  ASSUME Memory, Flow, DataType, DataType', pc \in Opening, MemType', Owner',
         UNCHANGED <<pipeline, result>>, Opened, LiveIsAcquired',
         heap'["payload"] = heap["payload"],
         \A o \in Own : heap'[o] + Live(o) + Excused(o) <= heap[o] + Live(o)' + Excused(o)',
         \A o \in Objects : heap'[o] >= heap[o],
         \A p \in Pointers : ptr'[p] = "live" => ptr[p] = "live" \/ heap'[p] >= 1,
         pc' \in {"filters", "packet", "read"} \/ (pc' = "end" /\ ~failed')
           => pc \in {"filters", "packet"} \/ heap'["handle"] >= 1,
         \/ pc' = "end" /\ ptr'["packet"] # "live"
         \/ /\ pc' \in {"decoders", "output", "file", "filters", "packet", "read"}
            /\ NAudio > 0 => \A p \in Acquired' : ptr'[p] = "live"
            /\ pc' \in {"packet", "read"} => NAudio > 0
  PROVE  Memory'
  <1>1. ~held /\ ~held'
    BY DEF Flow, Pump_State, pipeline
  <1>2. NAudio' = NAudio
    BY DEF NAudio, Audio, pipeline
  <1>3. result' # "handle"
    BY DEF Flow, Ends, Opening
  <1>4. Backed'
    <2>1. \A p \in Pointers : ptr'[p] = "live" => heap'[p] >= 1
      BY Names DEF Memory, MemType, Backed
    <2>2. pc \in {"filters", "packet"} => heap["handle"] >= 1
      BY DEF Memory, Backed
    <2>3. heap["handle"] \in Nat /\ heap'["handle"] \in Nat /\ heap'["handle"] >= heap["handle"]
      BY Names DEF Memory, MemType
    <2>4. pc' \in {"filters", "packet"} \cup Pumping => pc' \in {"filters", "packet", "read"}
      BY DEF Pumping
    <2> QED BY <1>1, <1>3, <2>1, <2>2, <2>3, <2>4 DEF Backed
  <1>5. AcquiredIsLive'
    BY <1>2 DEF AcquiredIsLive, SetUp, Pumping
  <1>6. Extra' \in Nat
    BY <1>2, AudioCount DEF Extra
  <1>7. \A o \in Own : heap'[o] <= Live(o)' + Excused(o)'
    BY <1>6, StillCounted DEF Memory
  <1>8. heap["payload"] = skipped + 0 /\ skipped' = skipped
    BY <1>1 DEF Memory, Counted, Opened
  <1>9. Counted'
    BY <1>1, <1>7, <1>8 DEF Counted
  <1> QED BY <1>4, <1>5, <1>9 DEF Memory

\* What a step of opening adds to what is excused.
LEMMA MoreExcused ==
  ASSUME DataType, DataType', Opened, streams' = streams
  PROVE  /\ Extra' = Extra /\ Extra \in Nat
         /\ \A o \in Own : Ahead(o) \in Nat /\ Ahead(o)' \in Nat
         /\ \A o \in Own : Excused(o) \in Int
         /\ \A o \in Own : Excused(o)' = Excused(o)
              + (IF o \in InStream THEN Ahead(o) - Ahead(o)' ELSE 0)
              + (IF failed' /\ o \in InStream \cup {"filter_graph"} THEN 1 ELSE 0)
  <1>1. Extra' = Extra /\ Extra \in Nat
    BY AudioCount DEF Extra, NAudio, Audio
  <1>2. \A o \in Own : Ahead(o) \in Nat /\ Ahead(o)' \in Nat
    BY <1>1 DEF Ahead
  <1>3. surplus \in Nat /\ aborted \in Nat /\ surplus' = surplus
        /\ aborted' = aborted + (IF failed' THEN 1 ELSE 0)
    BY DEF Opened, DataType
  <1>4. "filter_graph" \notin InStream
    BY DEF InStream
  <1> HIDE DEF Ahead
  <1> QED BY <1>1, <1>2, <1>3, <1>4 DEF Excused

\* Only the last of these steps sets packet.
PacketKept == pc' # "read" => ptr'["packet"] = ptr["packet"]

LEMMA OpenInputMemory ==
  ASSUME Memory, Flow, DataType, DataType', OpenInput
  PROVE  Memory' /\ PacketKept
  <1> DEFINE f == [ifmt_ctx |-> 1]
  <1>1. /\ pc = "input" /\ UNCHANGED <<from_path, ptr, caller_open, result, pipeline>>
        /\ (pc' = "decoders" /\ failed' = failed) \/ (pc' = "end" /\ failed')
        /\ Opened
        /\ \/ ~from_path /\ ifmt' = "caller" /\ heap' = heap
           \/ from_path /\ ifmt' = "null" /\ heap' = heap
           \/ from_path /\ ifmt' = "own" /\ heap' = Allocate(f)
    BY DEF OpenInput, Step, Fail, Goto
  <1>2. /\ Allocate(f) \in [Objects -> Nat]
        /\ \A o \in Objects : Allocate(f)[o] = heap[o] + (IF o = "ifmt_ctx" THEN 1 ELSE 0)
    <2>1. DOMAIN f = {"ifmt_ctx"} /\ f["ifmt_ctx"] = 1
      OBVIOUS
    <2> HIDE DEF f
    <2> QED BY <2>1, Allocated, Names DEF Memory
  <1>3. /\ heap' \in [Objects -> Nat] /\ \A o \in Objects : heap'[o] >= heap[o]
        /\ \A o \in Objects \ {"ifmt_ctx"} : heap'[o] = heap[o]
        /\ heap'["ifmt_ctx"] = IF ifmt' = "own" THEN 1 ELSE 0
    BY <1>1, <1>2, Names DEF Memory, MemType, Owner
  <1>4. MemType'
    BY <1>1, <1>3 DEF Memory, MemType
  <1>5. Owner'
    BY <1>1, <1>3 DEF Memory, Owner
  <1>6. pc' = "end" => ptr'["packet"] # "live"
    BY <1>1 DEF Flow, Ends, Opening
  <1>7. LiveIsAcquired'
    BY <1>1 DEF Memory, LiveIsAcquired, Acquired, Opening
  <1>8. Acquired' = IF pc' = "decoders" THEN {} ELSE Acquired'
    BY DEF Acquired
  <1>9. \A o \in Own : heap'[o] = heap[o] /\ heap[o] \in Nat /\ heap'["payload"] = heap["payload"]
    BY <1>3, Names DEF Memory, MemType
  <1>10. \A o \in Own : Live(o)' = Live(o) /\ Live(o) \in Int
    BY <1>1 DEF Live
  <1>11. \A o \in Own : Excused(o) \in Int /\ Excused(o)' \in Int /\ Excused(o)' >= Excused(o)
    <2>1. \A o \in Own : Ahead(o)' <= Ahead(o) \/ Ahead(o)' = Ahead(o)
      BY <1>1, MoreExcused DEF Ahead, pipeline
    <2> QED BY <1>1, <2>1, MoreExcused DEF pipeline
  <1>12. \A o \in Own : heap'[o] + Live(o) + Excused(o) <= heap[o] + Live(o)' + Excused(o)'
    BY <1>9, <1>10, <1>11
  <1>13. "packet" \in Own /\ heap'["payload"] = heap["payload"]
    BY <1>9, Names
  <1> QED BY <1>1, <1>3, <1>4, <1>5, <1>6, <1>7, <1>8, <1>12, <1>13, OpenMemory
          DEF PacketKept, Opening

\* A function allocates f and then sets the pointers in g: what g makes live is new,
\* or was live before.
LEMMA Grown ==
  ASSUME MemType, NEW f, NEW g, heap' = Allocate(f), ptr' = Set(g),
         DOMAIN f \subseteq Objects, \A o \in DOMAIN f : f[o] \in Nat,
         \A p \in DOMAIN g : g[p] \in {"null", "live", "wild"},
         \A p \in DOMAIN g : g[p] = "live" =>
           ptr[p] = "live" \/ (p \in DOMAIN f /\ f[p] >= 1)
  PROVE  /\ MemType'
         /\ \A o \in Objects : heap'[o] >= heap[o]
         /\ \A o \in Objects \ DOMAIN f : heap'[o] = heap[o]
         /\ \A o \in DOMAIN f : heap'[o] = heap[o] + f[o]
         /\ \A p \in Pointers : ptr'[p] = IF p \in DOMAIN g THEN g[p] ELSE ptr[p]
         /\ \A p \in Pointers : ptr'[p] = "live" => ptr[p] = "live" \/ heap'[p] >= 1
  <1>1. /\ heap' \in [Objects -> Nat]
        /\ \A o \in Objects : heap'[o] = heap[o] + (IF o \in DOMAIN f THEN f[o] ELSE 0)
        /\ \A o \in Objects : heap'[o] >= heap[o]
    BY Allocated
  <1>2. /\ ptr' \in [Pointers -> {"null", "live", "wild"}]
        /\ \A p \in Pointers : ptr'[p] = IF p \in DOMAIN g THEN g[p] ELSE ptr[p]
    BY SetTo
  <1>3. \A o \in Objects : heap[o] \in Nat
    BY DEF MemType
  <1>4. \A o \in Objects \ DOMAIN f : heap'[o] = heap[o]
    BY <1>1, <1>3
  <1>5. \A o \in DOMAIN f : heap'[o] = heap[o] + f[o]
    BY <1>1
  <1>6. \A p \in Pointers : ptr'[p] = "live" => ptr[p] = "live" \/ heap'[p] >= 1
    BY <1>2, <1>3, <1>5, Names
  <1>7. MemType'
    BY <1>1, <1>2 DEF MemType
  <1> QED BY <1>1, <1>2, <1>4, <1>5, <1>6, <1>7

LEMMA OpenDecodersMemory ==
  ASSUME Memory, Flow, DataType, DataType', OpenDecoders
  PROVE  Memory' /\ PacketKept
  <1>1. /\ pc = "decoders" /\ pc' \in {"output", "end"}
        /\ UNCHANGED <<from_path, ifmt, caller_open, result, pipeline>> /\ Opened
        /\ pc' = "end" => failed'
        /\ pc' = "output" => failed' = failed
    BY DEF OpenDecoders, Step, Fail, Goto
  <1>2. NAudio \in Nat /\ Extra \in Nat /\ (NAudio > 0 => NAudio = Extra + 1)
    BY AudioCount
  <1>3. MemType
    BY DEF Memory
  <1> DEFINE Good ==
        /\ MemType' /\ ptr'["packet"] = ptr["packet"]
        /\ \A o \in Objects : heap'[o] >= heap[o]
        /\ \A o \in Objects \ DecSet : heap'[o] = heap[o]
        /\ \A p \in Pointers : ptr'[p] = "live" => ptr[p] = "live" \/ heap'[p] >= 1
        /\ \A p \in Own \ DecSet : ptr'[p] # "live"
        /\ heap'["stream_ctx"] <= heap["stream_ctx"] + Live("stream_ctx")'
        /\ \A o \in {"dec_ctx", "dec_frame"} :
             heap'[o] <= heap[o] + Live(o)' + Extra + (IF pc' = "end" THEN 1 ELSE 0)
        /\ pc' = "output" /\ NAudio > 0 => \A p \in DecSet : ptr'[p] = "live"
  <1>0. \A p \in Own : ptr[p] # "live"
    BY <1>1 DEF Memory, LiveIsAcquired, Acquired, Opening
  <1>4. Good
    <2>1. CASE /\ Fail("decoders", "decoders")
               /\ ptr' = [ptr EXCEPT !["stream_ctx"] = "null"] /\ heap' = heap
      <3>1. pc' = "end" /\ MemType' /\ ptr'["packet"] = ptr["packet"]
        BY <1>3, <2>1, Names DEF MemType, Fail, Goto
      <3>2. \A o \in Objects : heap'[o] = heap[o] /\ heap[o] \in Nat
        BY <1>3, <2>1 DEF MemType
      <3>3. \A p \in Pointers : ptr'[p] = "live" => ptr[p] = "live"
        BY <1>3, <2>1 DEF MemType
      <3>4. \A p \in Own : Live(p)' = 0 /\ ptr'[p] # "live"
        BY <1>0, <3>3, Names DEF Live
      <3> HIDE DEF Live
      <3> QED BY <1>2, <3>1, <3>2, <3>3, <3>4, Names DEF DecSet
    <2>2. ASSUME NEW junk \in [InStream -> Uninitialised], NEW k \in 0 .. NAudio,
                 k = NAudio, pc' = "output",
                 ptr' = Set([stream_ctx |-> "live", enc_ctx |-> junk["enc_ctx"],
                            dec_ctx |-> IF k > 0 THEN "live" ELSE junk["dec_ctx"],
                            dec_frame |-> IF k > 0 THEN "live" ELSE junk["dec_frame"]]),
                 heap' = Allocate([stream_ctx |-> 1, dec_ctx |-> k, dec_frame |-> k])
          PROVE  Good
      <3> DEFINE f == [stream_ctx |-> 1, dec_ctx |-> k, dec_frame |-> k]
                 g == [stream_ctx |-> "live", enc_ctx |-> junk["enc_ctx"],
                       dec_ctx |-> IF k > 0 THEN "live" ELSE junk["dec_ctx"],
                       dec_frame |-> IF k > 0 THEN "live" ELSE junk["dec_frame"]]
      <3>1. /\ DOMAIN f = DecSet /\ f["stream_ctx"] = 1 /\ f["dec_ctx"] = k
            /\ f["dec_frame"] = k
        BY DEF DecSet
      <3>2. \A p \in InStream : junk[p] \in {"null", "wild"}
        BY DEF Uninitialised
      <3>3. /\ DOMAIN g = DecSet \cup {"enc_ctx"} /\ g["stream_ctx"] = "live"
            /\ g["enc_ctx"] \in {"null", "wild"}
            /\ IF k > 0 THEN g["dec_ctx"] = "live" /\ g["dec_frame"] = "live"
               ELSE g["dec_ctx"] \in {"null", "wild"} /\ g["dec_frame"] \in {"null", "wild"}
        BY <3>2 DEF DecSet, InStream
      <3>4. heap' = Allocate(f) /\ ptr' = Set(g) /\ k \in Nat
        BY <1>2, <2>2
      <3> HIDE DEF f, g
      <3>5. /\ DOMAIN f \subseteq Objects /\ \A o \in DOMAIN f : f[o] \in Nat
            /\ \A p \in DOMAIN g : g[p] \in {"null", "live", "wild"}
            /\ \A p \in DOMAIN g : g[p] = "live" => p \in DOMAIN f /\ f[p] >= 1
        BY <3>1, <3>3, <3>4, Names DEF DecSet
      <3>6. /\ MemType'
            /\ \A o \in Objects : heap'[o] >= heap[o]
            /\ \A o \in Objects \ DOMAIN f : heap'[o] = heap[o]
            /\ \A o \in DOMAIN f : heap'[o] = heap[o] + f[o]
            /\ \A p \in Pointers : ptr'[p] = IF p \in DOMAIN g THEN g[p] ELSE ptr[p]
            /\ \A p \in Pointers : ptr'[p] = "live" => ptr[p] = "live" \/ heap'[p] >= 1
        BY <1>3, <3>4, <3>5, Grown
      <3>7. ptr'["packet"] = ptr["packet"]
        BY <3>3, <3>6, Names DEF DecSet
      <3>8. NAudio > 0 => \A p \in DecSet : ptr'[p] = "live"
        BY <2>2, <3>3, <3>6, Names DEF DecSet
      <3>9. \A p \in Own \ DecSet : ptr'[p] # "live"
        BY <1>0, <3>3, <3>6, Names DEF DecSet
      <3>10. Live("stream_ctx")' = 1 /\ \A o \in {"dec_ctx", "dec_frame"} :
               Live(o)' = IF k > 0 THEN 1 ELSE 0
        BY <3>3, <3>6, Names DEF DecSet, Live
      <3>11. \A o \in Objects : heap[o] \in Nat
        BY <1>3 DEF MemType
      <3>12. /\ heap'["stream_ctx"] <= heap["stream_ctx"] + Live("stream_ctx")'
             /\ \A o \in {"dec_ctx", "dec_frame"} : heap'[o] <= heap[o] + Live(o)' + Extra + 0
        BY <1>2, <2>2, <3>1, <3>4, <3>6, <3>10, <3>11, Names DEF DecSet
      <3> QED BY <2>2, <3>1, <3>6, <3>7, <3>8, <3>9, <3>12
    <2>3. ASSUME NEW junk \in [InStream -> Uninitialised], NEW k \in 0 .. NAudio,
                 NEW got \in {"nothing", "context", "decoder"}, pc' = "end", k < NAudio,
                 ptr' = Set([stream_ctx |-> "live", enc_ctx |-> junk["enc_ctx"],
                             dec_ctx |-> IF k > 0 \/ got = "decoder" THEN "live"
                                         ELSE junk["dec_ctx"],
                             dec_frame |-> IF got = "decoder" THEN "null"
                                           ELSE IF k > 0 THEN "live"
                                           ELSE junk["dec_frame"]]),
                 heap' = Allocate([stream_ctx |-> 1, dec_frame |-> k,
                                   dec_ctx |-> IF got = "nothing" THEN k ELSE k + 1])
          PROVE  Good
      <3> DEFINE f == [stream_ctx |-> 1, dec_frame |-> k,
                       dec_ctx |-> IF got = "nothing" THEN k ELSE k + 1]
                 g == [stream_ctx |-> "live", enc_ctx |-> junk["enc_ctx"],
                       dec_ctx |-> IF k > 0 \/ got = "decoder" THEN "live"
                                   ELSE junk["dec_ctx"],
                       dec_frame |-> IF got = "decoder" THEN "null"
                                     ELSE IF k > 0 THEN "live"
                                     ELSE junk["dec_frame"]]
      <3>1. /\ DOMAIN f = DecSet /\ f["stream_ctx"] = 1 /\ f["dec_frame"] = k
            /\ f["dec_ctx"] = IF got = "nothing" THEN k ELSE k + 1
        BY DEF DecSet
      <3>2. \A p \in InStream : junk[p] \in {"null", "wild"}
        BY DEF Uninitialised
      <3>3. /\ DOMAIN g = DecSet \cup {"enc_ctx"} /\ g["stream_ctx"] = "live"
            /\ g["enc_ctx"] \in {"null", "wild"}
            /\ g["dec_ctx"] \in {"null", "live", "wild"}
            /\ g["dec_ctx"] = "live" <=> k > 0 \/ got = "decoder"
            /\ g["dec_frame"] \in {"null", "live", "wild"}
            /\ g["dec_frame"] = "live" => k > 0
        BY <3>2 DEF DecSet, InStream
      <3>4. heap' = Allocate(f) /\ ptr' = Set(g) /\ k \in Nat
        BY <1>2, <2>3
      <3> HIDE DEF f, g
      <3>5. /\ DOMAIN f \subseteq Objects /\ \A o \in DOMAIN f : f[o] \in Nat
            /\ \A p \in DOMAIN g : g[p] \in {"null", "live", "wild"}
            /\ \A p \in DOMAIN g : g[p] = "live" => p \in DOMAIN f /\ f[p] >= 1
        BY <3>1, <3>3, <3>4, Names DEF DecSet
      <3>6. /\ MemType'
            /\ \A o \in Objects : heap'[o] >= heap[o]
            /\ \A o \in Objects \ DOMAIN f : heap'[o] = heap[o]
            /\ \A o \in DOMAIN f : heap'[o] = heap[o] + f[o]
            /\ \A p \in Pointers : ptr'[p] = IF p \in DOMAIN g THEN g[p] ELSE ptr[p]
            /\ \A p \in Pointers : ptr'[p] = "live" => ptr[p] = "live" \/ heap'[p] >= 1
        BY <1>3, <3>4, <3>5, Grown
      <3>7. ptr'["packet"] = ptr["packet"]
        BY <3>3, <3>6, Names DEF DecSet
      <3>8. \A p \in Own \ DecSet : ptr'[p] # "live"
        BY <1>0, <3>3, <3>6, Names DEF DecSet
      <3>9. Live("stream_ctx")' = 1 /\ Live("dec_ctx")' \in Nat /\ Live("dec_frame")' \in Nat
        BY <3>3, <3>6, Names DEF DecSet, Live
      <3>10. \A o \in Objects : heap[o] \in Nat
        BY <1>3 DEF MemType
      <3>11. f["dec_ctx"] <= Extra + 1 /\ f["dec_frame"] <= Extra + 1
        BY <1>2, <2>3, <3>1, <3>4
      <3>12. /\ heap'["stream_ctx"] <= heap["stream_ctx"] + Live("stream_ctx")'
             /\ \A o \in {"dec_ctx", "dec_frame"} : heap'[o] <= heap[o] + Live(o)' + Extra + 1
        BY <1>2, <3>1, <3>5, <3>6, <3>9, <3>10, <3>11, Names DEF DecSet
      <3> QED BY <2>3, <3>1, <3>6, <3>7, <3>8, <3>12
    <2> QED BY <2>1, <2>2, <2>3, Zenon DEF OpenDecoders, Step, Fail, Goto
  <1>5. DecSet \subseteq Pointers /\ DecSet \subseteq Own /\ Own \subseteq Objects
        /\ "payload" \in Objects \ DecSet /\ "ifmt_ctx" \in Objects \ DecSet
        /\ "handle" \in Objects \ DecSet
    BY Names DEF DecSet
  <1> HIDE DEF Good
  <1>6. Owner'
    BY <1>1, <1>4, <1>5 DEF Good, Memory, Owner, Opening, Pumping
  <1>7. Acquired' = (IF pc' = "output" THEN DecSet ELSE Acquired') /\ Acquired = {}
    BY <1>1 DEF Acquired
  <1>8. LiveIsAcquired'
    BY <1>1, <1>4, <1>7, Names DEF Good, LiveIsAcquired, DecSet, InFilter, Opening
  <1>9. ptr'["packet"] # "live"
    BY <1>1, <1>4 DEF Good, Flow, Ends, Opening
  <1>10. \A o \in Own : heap'[o] + Live(o) + Excused(o) <= heap[o] + Live(o)' + Excused(o)'
    <2> SUFFICES ASSUME NEW o \in Own
                 PROVE  heap'[o] + Live(o) + Excused(o) <= heap[o] + Live(o)' + Excused(o)'
      OBVIOUS
    <2>1. heap[o] \in Nat /\ heap'[o] \in Nat /\ Live(o)' \in Nat /\ Live(o) = 0
      BY <1>0, <1>3, <1>4, <1>5 DEF Good, MemType, Live
    <2>2. /\ Excused(o) \in Int
          /\ Excused(o)' = Excused(o)
              + (IF o \in InStream THEN Ahead(o) - Ahead(o)' ELSE 0)
              + (IF failed' /\ o \in InStream \cup {"filter_graph"} THEN 1 ELSE 0)
      BY <1>1, MoreExcused DEF pipeline
    <2>3. /\ Ahead(o) = Extra /\ Ahead(o)' \in 0 .. Extra
          /\ o \in {"dec_ctx", "dec_frame"} => Ahead(o)' = 0
      BY <1>1, <1>2, MoreExcused DEF Ahead, pipeline
    <2>4. CASE o \in {"dec_ctx", "dec_frame"}
      <3>1. heap'[o] <= heap[o] + Live(o)' + Extra + (IF pc' = "end" THEN 1 ELSE 0)
        BY <1>4, <2>4 DEF Good
      <3>2. /\ Excused(o)' \in Int
            /\ Excused(o)' >= Excused(o) + Extra + (IF pc' = "end" THEN 1 ELSE 0)
        BY <1>1, <1>2, <2>2, <2>3, <2>4 DEF InStream
      <3> HIDE DEF Excused, Live
      <3> QED BY <1>2, <2>1, <2>2, <3>1, <3>2
    <2>5. CASE o \notin {"dec_ctx", "dec_frame"}
      <3>1. heap'[o] <= heap[o] + Live(o)'
        BY <1>4, <1>5, <2>1, <2>5 DEF Good, DecSet
      <3>2. Excused(o)' \in Int /\ Excused(o)' >= Excused(o)
        BY <1>2, <2>2, <2>3
      <3> HIDE DEF Excused, Live
      <3> QED BY <2>1, <2>2, <3>1, <3>2
    <2> QED BY <2>4, <2>5
  <1>11. heap'["payload"] = heap["payload"]
    BY <1>4, <1>5 DEF Good
  <1> QED BY <1>1, <1>4, <1>6, <1>7, <1>8, <1>9, <1>10, <1>11, OpenMemory
          DEF PacketKept, Good, Opening

LEMMA OpenOutputMemory ==
  ASSUME Memory, Flow, DataType, DataType', OpenOutput
  PROVE  Memory' /\ PacketKept
  <1>1. /\ pc = "output" /\ pc' \in {"file", "end"}
        /\ UNCHANGED <<from_path, ifmt, caller_open, result, pipeline>> /\ Opened
        /\ pc' = "end" => failed'
        /\ pc' = "file" => failed' = failed
    BY DEF OpenOutput, Step, Fail, Goto
  <1>2. NAudio \in Nat /\ Extra \in Nat /\ (NAudio > 0 => NAudio = Extra + 1)
    BY AudioCount
  <1>3. MemType
    BY DEF Memory
  <1> DEFINE Good ==
        /\ MemType' /\ ptr'["packet"] = ptr["packet"]
        /\ \A o \in Objects : heap'[o] >= heap[o]
        /\ \A o \in Objects \ OutSet : heap'[o] = heap[o]
        /\ \A p \in Pointers : ptr'[p] = "live" => ptr[p] = "live" \/ heap'[p] >= 1
        /\ \A p \in Own \ OutSet : ptr'[p] = ptr[p]
        /\ heap'["ofmt_ctx"] <= heap["ofmt_ctx"] + Live("ofmt_ctx")'
        /\ heap'["enc_ctx"] <= heap["enc_ctx"] + Live("enc_ctx")' + Extra
                               + (IF pc' = "end" THEN 1 ELSE 0)
        /\ pc' = "file" /\ NAudio > 0 => \A p \in OutSet : ptr'[p] = "live"
  <1>0. \A p \in Own \ DecSet : ptr[p] # "live"
    BY <1>1 DEF Memory, LiveIsAcquired, Acquired, Opening
  <1>4. Good
    <2>1. CASE /\ Fail("output", "output")
               /\ ptr' = [ptr EXCEPT !["ofmt_ctx"] = "null"] /\ heap' = heap
      <3>1. pc' = "end" /\ MemType' /\ ptr'["packet"] = ptr["packet"]
        BY <1>3, <2>1, Names DEF MemType, Fail, Goto
      <3>2. \A o \in Objects : heap'[o] = heap[o] /\ heap[o] \in Nat
        BY <1>3, <2>1 DEF MemType
      <3>3. /\ \A p \in Pointers : ptr'[p] = "live" => ptr[p] = "live"
            /\ \A p \in Own \ OutSet : ptr'[p] = ptr[p]
        BY <1>3, <2>1, Names DEF MemType, OutSet
      <3>4. Live("ofmt_ctx")' \in Nat /\ Live("enc_ctx")' \in Nat
        BY DEF Live
      <3> HIDE DEF Live
      <3> QED BY <1>2, <3>1, <3>2, <3>3, <3>4, Names DEF OutSet
    <2>2. ASSUME NEW k \in 0 .. NAudio, NEW lost \in 0 .. 1,
                 (pc' = "file" /\ k = NAudio /\ lost = 0) \/ (pc' = "end" /\ k < NAudio),
                 ptr' = Set([ofmt_ctx |-> "live", pb |-> "null",
                             enc_ctx |-> IF k > 0 THEN "live" ELSE ptr["enc_ctx"]]),
                 heap' = Allocate([ofmt_ctx |-> 1, enc_ctx |-> k + lost])
          PROVE  Good
      <3> DEFINE f == [ofmt_ctx |-> 1, enc_ctx |-> k + lost]
                 g == [ofmt_ctx |-> "live", pb |-> "null",
                       enc_ctx |-> IF k > 0 THEN "live" ELSE ptr["enc_ctx"]]
      <3>1. DOMAIN f = OutSet /\ f["ofmt_ctx"] = 1 /\ f["enc_ctx"] = k + lost
        BY DEF OutSet
      <3>2. /\ DOMAIN g = OutSet \cup {"pb"} /\ g["ofmt_ctx"] = "live" /\ g["pb"] = "null"
            /\ g["enc_ctx"] = IF k > 0 THEN "live" ELSE ptr["enc_ctx"]
        BY DEF OutSet
      <3>3. heap' = Allocate(f) /\ ptr' = Set(g) /\ k \in Nat /\ lost \in Nat
        BY <1>2, <2>2
      <3>4. ptr["enc_ctx"] \in {"null", "live", "wild"}
        BY <1>3, Names DEF MemType
      <3> HIDE DEF f, g
      <3>5. /\ DOMAIN f \subseteq Objects /\ \A o \in DOMAIN f : f[o] \in Nat
            /\ \A p \in DOMAIN g : g[p] \in {"null", "live", "wild"}
            /\ \A p \in DOMAIN g : g[p] = "live" =>
                 ptr[p] = "live" \/ (p \in DOMAIN f /\ f[p] >= 1)
        BY <3>1, <3>2, <3>3, <3>4, Names DEF OutSet
      <3>6. /\ MemType'
            /\ \A o \in Objects : heap'[o] >= heap[o]
            /\ \A o \in Objects \ DOMAIN f : heap'[o] = heap[o]
            /\ \A o \in DOMAIN f : heap'[o] = heap[o] + f[o]
            /\ \A p \in Pointers : ptr'[p] = IF p \in DOMAIN g THEN g[p] ELSE ptr[p]
            /\ \A p \in Pointers : ptr'[p] = "live" => ptr[p] = "live" \/ heap'[p] >= 1
        BY <1>3, <3>3, <3>5, Grown
      <3>7. /\ ptr'["packet"] = ptr["packet"]
            /\ \A p \in Own \ OutSet : ptr'[p] = ptr[p]
        BY <3>2, <3>6, Names DEF OutSet
      <3>8. pc' = "file" /\ NAudio > 0 => \A p \in OutSet : ptr'[p] = "live"
        BY <2>2, <3>2, <3>6, Names DEF OutSet
      <3>9. /\ Live("ofmt_ctx")' = 1 /\ Live("enc_ctx")' \in Nat
            /\ k > 0 => Live("enc_ctx")' = 1
        BY <3>2, <3>6, Names DEF OutSet, Live
      <3>10. \A o \in Objects : heap[o] \in Nat
        BY <1>3 DEF MemType
      <3>11. k + lost <= Live("enc_ctx")' + Extra + (IF pc' = "end" THEN 1 ELSE 0)
        BY <1>2, <2>2, <3>3, <3>9
      <3>12. /\ heap'["ofmt_ctx"] <= heap["ofmt_ctx"] + Live("ofmt_ctx")'
             /\ heap'["enc_ctx"] <= heap["enc_ctx"] + Live("enc_ctx")' + Extra
                                    + (IF pc' = "end" THEN 1 ELSE 0)
        BY <1>2, <3>1, <3>3, <3>6, <3>9, <3>10, <3>11, Names DEF OutSet
      <3> QED BY <3>1, <3>6, <3>7, <3>8, <3>12
    <2> QED BY <2>1, <2>2, Zenon DEF OpenOutput, Step, Fail, Goto
  <1>5. /\ DecSet \subseteq Own \ OutSet /\ OutSet \subseteq Own
        /\ Own \subseteq Pointers /\ Own \subseteq Objects
        /\ "payload" \in Objects \ OutSet /\ "ifmt_ctx" \in Objects \ OutSet
    BY Names DEF DecSet, OutSet
  <1> HIDE DEF Good
  <1>6. Owner'
    BY <1>1, <1>4, <1>5 DEF Good, Memory, Owner, Opening, Pumping
  <1>7. Acquired = DecSet /\ (pc' = "file" => Acquired' = DecSet \cup OutSet)
    BY <1>1 DEF Acquired
  <1>8. NAudio > 0 => \A p \in DecSet : ptr[p] = "live"
    BY <1>1, <1>7 DEF Memory, AcquiredIsLive, SetUp
  <1>9. LiveIsAcquired'
    <2>1. \A p \in Own \ (DecSet \cup OutSet) : ptr'[p] # "live"
      BY <1>0, <1>4 DEF Good
    <2> QED BY <1>1, <1>7, <2>1, Names DEF LiveIsAcquired, DecSet, OutSet, InFilter, Opening
  <1>10. ptr'["packet"] # "live"
    BY <1>1, <1>4 DEF Good, Flow, Ends, Opening
  <1>11. pc' = "file" /\ NAudio > 0 => \A p \in Acquired' : ptr'[p] = "live"
    BY <1>4, <1>5, <1>7, <1>8 DEF Good
  <1>12. \A o \in Own : heap'[o] + Live(o) + Excused(o) <= heap[o] + Live(o)' + Excused(o)'
    <2> SUFFICES ASSUME NEW o \in Own
                 PROVE  heap'[o] + Live(o) + Excused(o) <= heap[o] + Live(o)' + Excused(o)'
      OBVIOUS
    <2>1. /\ heap[o] \in Nat /\ heap'[o] \in Nat /\ Live(o)' \in Nat
          /\ o \in OutSet => Live(o) = 0
          /\ o \notin OutSet => Live(o)' = Live(o)
      BY <1>0, <1>3, <1>4, <1>5 DEF Good, MemType, Live
    <2>2. /\ Excused(o) \in Int
          /\ Excused(o)' = Excused(o)
              + (IF o \in InStream THEN Ahead(o) - Ahead(o)' ELSE 0)
              + (IF failed' /\ o \in InStream \cup {"filter_graph"} THEN 1 ELSE 0)
      BY <1>1, MoreExcused DEF pipeline
    <2>3. Ahead(o) \in Nat /\ (o = "enc_ctx" => Ahead(o) = Extra) /\ Ahead(o)' = 0
      BY <1>1, <1>2, MoreExcused DEF Ahead, pipeline
    <2>4. Excused(o)' \in Int /\ Excused(o)' >= Excused(o)
      BY <2>2, <2>3
    <2> HIDE DEF Excused, Live
    <2>5. CASE o = "enc_ctx"
      <3>1. heap'[o] <= heap[o] + Live(o)' + Extra + (IF pc' = "end" THEN 1 ELSE 0)
        BY <1>4, <2>5 DEF Good
      <3>2. Excused(o)' = Excused(o) + Extra + (IF failed' THEN 1 ELSE 0)
        BY <1>1, <1>2, <2>2, <2>3, <2>5 DEF InStream
      <3>3. Live(o) = 0
        BY <2>1, <2>5 DEF OutSet
      <3> QED BY <1>1, <1>2, <2>1, <2>2, <3>1, <3>2, <3>3
    <2>6. CASE o = "ofmt_ctx"
      <3>1. heap'[o] <= heap[o] + Live(o)' /\ Live(o) = 0
        BY <1>4, <2>1, <2>6 DEF Good, OutSet
      <3> QED BY <2>1, <2>2, <2>4, <3>1
    <2>7. CASE o \notin OutSet
      <3>1. heap'[o] = heap[o] /\ Live(o)' = Live(o)
        BY <1>4, <1>5, <2>1, <2>7 DEF Good
      <3> QED BY <2>1, <2>2, <2>4, <3>1
    <2> QED BY <2>5, <2>6, <2>7 DEF OutSet
  <1>13. heap'["payload"] = heap["payload"]
    BY <1>4, <1>5 DEF Good
  <1> QED BY <1>1, <1>4, <1>6, <1>9, <1>10, <1>11, <1>12, <1>13, OpenMemory
          DEF PacketKept, Good, Opening

LEMMA OpenFileMemory ==
  ASSUME Memory, Flow, DataType, DataType', OpenFile
  PROVE  Memory' /\ PacketKept
  <1>1. /\ pc = "file" /\ pc' \in {"filters", "end"} /\ (pc' = "end" => failed')
        /\ pc' = "filters" => failed' = failed
        /\ UNCHANGED <<from_path, ifmt, caller_open, result, pipeline>> /\ Opened
        /\ \/ pc' = "end" /\ ptr' = ptr /\ heap' = heap
           \/ ptr' = [ptr EXCEPT !["pb"] = "live"] /\ heap' = Allocate([handle |-> 1, pb |-> 1])
           \/ ptr' = ptr /\ heap' = Allocate([handle |-> 1])
    BY DEF OpenFile, Step, Fail, Goto
  <1>2. MemType /\ (\A o \in Objects : heap[o] \in Nat) /\ (\A o \in Objects : heap[o] >= 0)
    BY DEF Memory, MemType
  <1>3. /\ Allocate([handle |-> 1, pb |-> 1]) \in [Objects -> Nat]
        /\ \A o \in Objects : Allocate([handle |-> 1, pb |-> 1])[o] =
             heap[o] + (IF o \in {"handle", "pb"} THEN 1 ELSE 0)
    <2> DEFINE f == [handle |-> 1, pb |-> 1]
    <2>1. DOMAIN f = {"handle", "pb"} /\ f["handle"] = 1 /\ f["pb"] = 1
      OBVIOUS
    <2> HIDE DEF f
    <2>2. /\ Allocate(f) \in [Objects -> Nat]
          /\ \A o \in Objects : Allocate(f)[o] = heap[o] + (IF o \in {"handle", "pb"} THEN 1 ELSE 0)
      BY <1>2, <2>1, Allocated, Names
    <2> QED BY <2>2 DEF f
  <1>4. /\ Allocate([handle |-> 1]) \in [Objects -> Nat]
        /\ \A o \in Objects : Allocate([handle |-> 1])[o] =
             heap[o] + (IF o = "handle" THEN 1 ELSE 0)
    <2> DEFINE f == [handle |-> 1]
    <2>1. DOMAIN f = {"handle"} /\ f["handle"] = 1
      OBVIOUS
    <2> HIDE DEF f
    <2>2. /\ Allocate(f) \in [Objects -> Nat]
          /\ \A o \in Objects : Allocate(f)[o] = heap[o] + (IF o = "handle" THEN 1 ELSE 0)
      BY <1>2, <2>1, Allocated, Names
    <2> QED BY <2>2 DEF f
  <1>5. MemType'
    BY <1>1, <1>2, <1>3, <1>4, Names DEF MemType
  <1>6. /\ \A o \in Objects : heap'[o] >= heap[o]
        /\ \A o \in Objects \ {"handle", "pb"} : heap'[o] = heap[o]
        /\ pc' = "filters" => heap'["handle"] >= 1
    BY <1>1, <1>2, <1>3, <1>4, Names
  <1>7. /\ \A p \in Pointers \ {"pb"} : ptr'[p] = ptr[p]
        /\ \A p \in Pointers : ptr'[p] = "live" => ptr[p] = "live" \/ heap'[p] >= 1
    BY <1>1, <1>2, <1>3, Names DEF MemType
  <1>8. Acquired = DecSet \cup OutSet /\ (pc' = "filters" => Acquired' = Acquired)
    BY <1>1 DEF Acquired
  <1>9. /\ Acquired \subseteq Own /\ Own \subseteq Pointers \ {"pb"}
        /\ Own \subseteq Objects \ {"handle", "pb"}
        /\ {"payload", "ifmt_ctx"} \subseteq Objects \ {"handle", "pb"}
    BY <1>8, Names DEF DecSet, OutSet
  <1>10. Owner'
    BY <1>1, <1>6, <1>9 DEF Memory, Owner, Opening, Pumping
  <1>11. pc' = "filters" /\ NAudio > 0 => \A p \in Acquired' : ptr'[p] = "live"
    BY <1>1, <1>7, <1>8, <1>9 DEF Memory, AcquiredIsLive, SetUp
  <1>12. LiveIsAcquired'
    <2>1. \A p \in Own : ptr'[p] = ptr[p]
      BY <1>7, <1>9
    <2>2. InFilter \cup {"filter_ctx", "filter_graph"} \subseteq Own
      BY Names DEF InFilter
    <2> QED BY <1>1, <1>8, <2>1, <2>2 DEF Memory, LiveIsAcquired, Opening
  <1>13. ptr'["packet"] # "live"
    BY <1>1, <1>7, Names DEF Flow, Ends, Opening
  <1>14. \A o \in Own : heap'[o] + Live(o) + Excused(o) <= heap[o] + Live(o)' + Excused(o)'
    <2> SUFFICES ASSUME NEW o \in Own
                 PROVE  heap'[o] + Live(o) + Excused(o) <= heap[o] + Live(o)' + Excused(o)'
      OBVIOUS
    <2>1. heap[o] \in Nat /\ heap'[o] = heap[o] /\ Live(o) \in Nat /\ Live(o)' = Live(o)
      BY <1>2, <1>6, <1>7, <1>9 DEF Live
    <2>2. Ahead(o) = 0 /\ Ahead(o)' = 0
      BY <1>1 DEF Ahead
    <2>3. Excused(o) \in Int /\ Excused(o)' \in Int /\ Excused(o)' >= Excused(o)
      BY <1>1, <2>2, MoreExcused DEF pipeline
    <2> HIDE DEF Live, Excused
    <2> QED BY <2>1, <2>3
  <1>15. heap'["payload"] = heap["payload"]
    BY <1>6, <1>9
  <1> QED BY <1>1, <1>5, <1>6, <1>7, <1>10, <1>11, <1>12, <1>13, <1>14, <1>15, Names, OpenMemory
          DEF PacketKept, Opening

LEMMA InitFiltersMemory ==
  ASSUME Memory, Flow, DataType, DataType', InitFilters
  PROVE  Memory' /\ PacketKept
  <1>1. /\ pc = "filters" /\ pc' \in {"packet", "end"}
        /\ UNCHANGED <<from_path, ifmt, caller_open, result, pipeline>> /\ Opened
        /\ pc' = "end" => failed'
        /\ pc' = "packet" => NAudio > 0 /\ failed' = failed
    BY DEF InitFilters, Step, Fail, Goto
  <1>2. "filter_graph" \in FilterSet /\ FilterSet \cap InStream = {} /\ FilterSet \subseteq Own
    BY Names DEF FilterSet, InFilter, InStream
  <1>3. MemType
    BY DEF Memory
  <1> DEFINE Good ==
        /\ MemType'
        /\ \A o \in Objects : heap'[o] >= heap[o]
        /\ \A o \in Objects \ FilterSet : heap'[o] = heap[o]
        /\ \A p \in Pointers \ FilterSet : ptr'[p] = ptr[p]
        /\ \A p \in Pointers : ptr'[p] = "live" => ptr[p] = "live" \/ heap'[p] >= 1
        /\ \A p \in FilterSet \ {"filter_graph"} : heap'[p] <= heap[p] + Live(p)'
        /\ heap'["filter_graph"] <= heap["filter_graph"] + Live("filter_graph")'
                                    + (IF pc' = "end" THEN 1 ELSE 0)
        /\ \A p \in InFilter : ptr'[p] = "live" =>
             ptr'["filter_ctx"] # "null" /\ ptr'["filter_graph"] # "null"
        /\ pc' = "packet" => \A p \in FilterSet : ptr'[p] = "live"
  <1>0. \A p \in FilterSet \cup {"packet"} : ptr[p] # "live"
    <2>1. Acquired = DecSet \cup OutSet
      BY <1>1 DEF Acquired
    <2> QED BY <1>1, <2>1, Names DEF Memory, LiveIsAcquired, Opening, DecSet, OutSet
  <1>4. ASSUME NEW f, NEW g, heap' = Allocate(f), ptr' = Set(g),
               DOMAIN f \subseteq FilterSet, DOMAIN g = FilterSet,
               \A o \in DOMAIN f : f[o] \in Nat,
               \A p \in DOMAIN g : g[p] \in {"null", "live", "wild"},
               \A p \in DOMAIN g : g[p] = "live" => p \in DOMAIN f /\ f[p] >= 1,
               \A o \in DOMAIN f \ {"filter_graph"} : f[o] = 1 /\ g[o] = "live",
               "filter_graph" \in DOMAIN f =>
                 f["filter_graph"] = IF g["filter_graph"] = "live" \/ pc' = "end"
                                     THEN f["filter_graph"] ELSE 0,
               "filter_graph" \in DOMAIN f => f["filter_graph"] \in 0 .. 1,
               g["filter_ctx"] = "live",
               \A p \in InFilter : g[p] = "live" => g["filter_graph"] # "null",
               pc' = "packet" => \A p \in FilterSet : g[p] = "live"
        PROVE  Good
    <2>1. DOMAIN f \subseteq Objects
      BY <1>4, Names
    <2>2. /\ MemType'
          /\ \A o \in Objects : heap'[o] >= heap[o]
          /\ \A o \in Objects \ DOMAIN f : heap'[o] = heap[o]
          /\ \A o \in DOMAIN f : heap'[o] = heap[o] + f[o]
          /\ \A p \in Pointers : ptr'[p] = IF p \in DOMAIN g THEN g[p] ELSE ptr[p]
          /\ \A p \in Pointers : ptr'[p] = "live" => ptr[p] = "live" \/ heap'[p] >= 1
      BY <1>3, <1>4, <2>1, Grown
    <2>3. FilterSet \subseteq Pointers /\ FilterSet \subseteq Objects /\ InFilter \subseteq FilterSet
          /\ {"filter_ctx", "filter_graph"} \subseteq FilterSet
      BY Names DEF FilterSet, InFilter
    <2>4. \A p \in FilterSet : ptr'[p] = g[p]
      BY <1>4, <2>2, <2>3
    <2>5. \A o \in Objects : heap[o] \in Nat
      BY <1>3 DEF MemType
    <2>6. \A p \in FilterSet : Live(p)' = IF g[p] = "live" THEN 1 ELSE 0
      BY <2>4 DEF Live
    <2>7. \A p \in FilterSet \ {"filter_graph"} : heap'[p] <= heap[p] + Live(p)'
      <3> SUFFICES ASSUME NEW p \in FilterSet \ {"filter_graph"}
                   PROVE  heap'[p] <= heap[p] + Live(p)'
        OBVIOUS
      <3>1. CASE p \in DOMAIN f
        <4>1. heap'[p] = heap[p] + 1 /\ Live(p)' = 1
          BY <1>4, <2>2, <2>6, <3>1
        <4> QED BY <2>3, <2>5, <4>1
      <3>2. CASE p \notin DOMAIN f
        <4>1. heap'[p] = heap[p] /\ Live(p)' \in Nat
          BY <2>2, <2>3, <2>6, <3>2
        <4> QED BY <2>3, <2>5, <4>1
      <3> QED BY <3>1, <3>2
    <2>8. heap'["filter_graph"] <= heap["filter_graph"] + Live("filter_graph")'
                                    + (IF pc' = "end" THEN 1 ELSE 0)
      <3>1. Live("filter_graph")' = IF g["filter_graph"] = "live" THEN 1 ELSE 0
        BY <2>3, <2>6
      <3>2. CASE "filter_graph" \in DOMAIN f
        <4>1. heap'["filter_graph"] = heap["filter_graph"] + f["filter_graph"]
          BY <2>2, <3>2
        <4> QED BY <1>4, <2>3, <2>5, <3>1, <3>2, <4>1
      <3>3. CASE "filter_graph" \notin DOMAIN f
        <4>1. heap'["filter_graph"] = heap["filter_graph"]
          BY <2>2, <2>3, <3>3
        <4> QED BY <2>3, <2>5, <3>1, <4>1
      <3> QED BY <3>2, <3>3
    <2>9. \A p \in InFilter : ptr'[p] = "live" =>
            ptr'["filter_ctx"] # "null" /\ ptr'["filter_graph"] # "null"
      BY <1>4, <2>3, <2>4
    <2>10. pc' = "packet" => \A p \in FilterSet : ptr'[p] = "live"
      BY <1>4, <2>4
    <2>11. /\ \A o \in Objects \ FilterSet : heap'[o] = heap[o]
           /\ \A p \in Pointers \ FilterSet : ptr'[p] = ptr[p]
      BY <1>4, <2>2
    <2> QED BY <2>2, <2>7, <2>8, <2>9, <2>10, <2>11
  <1>5. Good
    <2> DEFINE f1 == [filter_ctx |-> 1]
               f2(lost) == [filter_ctx |-> 1, filter_graph |-> lost]
               f3 == [filter_ctx |-> 1, filter_graph |-> 1, enc_pkt |-> 1]
               f4 == [p \in InFilter \cup {"filter_ctx"} |-> 1]
               g4 == [p \in InFilter \cup {"filter_ctx"} |-> "live"]
               g3 == [filter_ctx |-> "live", filter_graph |-> "live",
                      enc_pkt |-> "live", filtered_frame |-> "null"]
               g2(junk) == [filter_ctx |-> "live", filter_graph |-> "live",
                            enc_pkt |-> "null",
                            filtered_frame |-> junk["filtered_frame"]]
               g1(junk) == [filter_ctx |-> "live", filter_graph |-> "null",
                            enc_pkt |-> junk["enc_pkt"],
                            filtered_frame |-> junk["filtered_frame"]]
               g0(junk) == [filter_ctx |-> "live", filter_graph |-> junk["filter_graph"],
                            enc_pkt |-> junk["enc_pkt"],
                            filtered_frame |-> junk["filtered_frame"]]
    <2>1. CASE /\ pc' = "end" /\ ptr' = [ptr EXCEPT !["filter_ctx"] = "null"]
               /\ heap' = heap
      <3>1. MemType' /\ \A p \in Pointers \ FilterSet : ptr'[p] = ptr[p]
        BY <1>3, <2>1, Names DEF MemType
      <3>2. \A o \in Objects : heap'[o] = heap[o] /\ heap[o] \in Nat
        BY <1>3, <2>1 DEF MemType
      <3>3. \A p \in Pointers : ptr'[p] = "live" => ptr[p] = "live"
        BY <1>3, <2>1 DEF MemType
      <3>4. \A p \in FilterSet : ptr'[p] # "live" /\ Live(p)' = 0
        BY <1>0, <3>3, Names DEF Live
      <3>5. FilterSet \subseteq Objects /\ InFilter \subseteq FilterSet
        BY Names DEF FilterSet
      <3> HIDE DEF Live
      <3> QED BY <1>2, <2>1, <3>1, <3>2, <3>3, <3>4, <3>5
    <2>2. ASSUME NEW junk \in [InFilter -> Uninitialised], pc' = "end",
                 ptr' = Set(g0(junk)), heap' = Allocate(f1)
          PROVE  Good
      <3>1. /\ DOMAIN g0(junk) = FilterSet /\ g0(junk)["filter_ctx"] = "live"
            /\ \A p \in InFilter : g0(junk)[p] \in {"null", "wild"}
        BY DEF FilterSet, InFilter, Uninitialised
      <3>2. DOMAIN f1 = {"filter_ctx"} /\ f1["filter_ctx"] = 1
        OBVIOUS
      <3> HIDE DEF f1, g0
      <3> QED BY <1>4, <2>2, <3>1, <3>2 DEF FilterSet, InFilter
    <2>3. ASSUME NEW junk \in [InFilter -> Uninitialised], NEW lost \in 0 .. 1, pc' = "end",
                 ptr' = Set(g1(junk)), heap' = Allocate(f2(lost))
          PROVE  Good
      <3>1. /\ DOMAIN g1(junk) = FilterSet /\ g1(junk)["filter_ctx"] = "live"
            /\ \A p \in InFilter : g1(junk)[p] \in {"null", "wild"}
        BY DEF FilterSet, InFilter, Uninitialised
      <3>2. /\ DOMAIN f2(lost) = {"filter_ctx", "filter_graph"}
            /\ f2(lost)["filter_ctx"] = 1 /\ f2(lost)["filter_graph"] = lost
        OBVIOUS
      <3> HIDE DEF f2, g1
      <3> QED BY <1>4, <2>3, <3>1, <3>2 DEF FilterSet, InFilter
    <2>4. ASSUME NEW junk \in [InFilter -> Uninitialised], pc' = "end",
                 ptr' = Set(g2(junk)), heap' = Allocate(f2(1))
          PROVE  Good
      <3>1. /\ DOMAIN g2(junk) = FilterSet /\ g2(junk)["filter_ctx"] = "live"
            /\ g2(junk)["filter_graph"] = "live"
            /\ \A p \in {"enc_pkt", "filtered_frame"} : g2(junk)[p] \in {"null", "wild"}
        BY DEF FilterSet, InFilter, Uninitialised
      <3>2. /\ DOMAIN f2(1) = {"filter_ctx", "filter_graph"}
            /\ f2(1)["filter_ctx"] = 1 /\ f2(1)["filter_graph"] = 1
        OBVIOUS
      <3> HIDE DEF f2, g2
      <3> QED BY <1>4, <2>4, <3>1, <3>2 DEF FilterSet, InFilter
    <2>5. CASE pc' = "end" /\ ptr' = Set(g3) /\ heap' = Allocate(f3)
      <3>1. /\ DOMAIN g3 = FilterSet /\ g3["filter_ctx"] = "live"
            /\ g3["filter_graph"] = "live" /\ g3["enc_pkt"] = "live"
            /\ g3["filtered_frame"] = "null"
        BY DEF FilterSet, InFilter
      <3>2. /\ DOMAIN f3 = {"filter_ctx", "filter_graph", "enc_pkt"}
            /\ f3["filter_ctx"] = 1 /\ f3["filter_graph"] = 1 /\ f3["enc_pkt"] = 1
        OBVIOUS
      <3> HIDE DEF f3, g3
      <3> QED BY <1>4, <2>5, <3>1, <3>2 DEF FilterSet, InFilter
    <2>6. CASE ptr' = Set(g4) /\ heap' = Allocate(f4)
      <3>1. DOMAIN g4 = FilterSet /\ \A p \in FilterSet : g4[p] = "live"
        BY DEF FilterSet
      <3>2. DOMAIN f4 = FilterSet /\ \A p \in FilterSet : f4[p] = 1
        BY DEF FilterSet
      <3> HIDE DEF f4, g4
      <3> QED BY <1>4, <2>6, <3>1, <3>2 DEF FilterSet, InFilter
    <2> QED BY <2>1, <2>2, <2>3, <2>4, <2>5, <2>6, Zenon DEF InitFilters, Step, Fail, Goto
  <1>6. /\ FilterSet \subseteq Own /\ DecSet \cup OutSet \subseteq Own \ FilterSet
        /\ Own \subseteq Pointers /\ Own \subseteq Objects /\ "packet" \in Pointers \ FilterSet
        /\ {"payload", "ifmt_ctx"} \subseteq Objects \ FilterSet
    BY Names DEF DecSet, OutSet
  <1> HIDE DEF Good
  <1>7. Owner'
    BY <1>1, <1>5, <1>6 DEF Good, Memory, Owner, Opening, Pumping
  <1>8. Acquired = DecSet \cup OutSet /\ (pc' = "packet" => Acquired' = Acquired \cup FilterSet)
    BY <1>1 DEF Acquired
  <1>9. pc' = "packet" => \A p \in Acquired' : ptr'[p] = "live"
    BY <1>1, <1>5, <1>6, <1>8 DEF Good, Memory, AcquiredIsLive, SetUp
  <1>10. LiveIsAcquired'
    <2>1. \A p \in Own \ FilterSet : ptr'[p] = "live" => p \in Acquired
      BY <1>1, <1>5, <1>6 DEF Good, Memory, LiveIsAcquired, Opening
    <2>2. \A p \in InFilter : ptr'[p] = "live" =>
            ptr'["filter_ctx"] # "null" /\ ptr'["filter_graph"] # "null"
      BY <1>5 DEF Good
    <2> QED BY <1>1, <1>8, <2>1, <2>2 DEF LiveIsAcquired, Opening
  <1>13. \A o \in Own : heap'[o] + Live(o) + Excused(o) <= heap[o] + Live(o)' + Excused(o)'
    <2> SUFFICES ASSUME NEW o \in Own
                 PROVE  heap'[o] + Live(o) + Excused(o) <= heap[o] + Live(o)' + Excused(o)'
      OBVIOUS
    <2>1. /\ heap[o] \in Nat /\ heap'[o] \in Nat /\ Live(o)' \in Nat /\ Live(o) \in Nat
          /\ o \in FilterSet => Live(o) = 0
          /\ o \notin FilterSet => Live(o)' = Live(o)
      BY <1>0, <1>3, <1>5, <1>6 DEF Good, MemType, Live
    <2>2. Ahead(o) = 0 /\ Ahead(o)' = 0
      BY <1>1 DEF Ahead
    <2>3. /\ Excused(o) \in Int
          /\ Excused(o)' = Excused(o)
              + (IF failed' /\ o \in InStream \cup {"filter_graph"} THEN 1 ELSE 0)
      BY <1>1, <2>2, MoreExcused DEF pipeline
    <2>4. Excused(o)' \in Int /\ Excused(o)' >= Excused(o)
      BY <2>3
    <2> HIDE DEF Excused, Live
    <2>5. CASE o = "filter_graph"
      <3>1. heap'[o] <= heap[o] + Live(o)' + (IF pc' = "end" THEN 1 ELSE 0)
        BY <1>5, <2>5 DEF Good
      <3>2. Excused(o)' = Excused(o) + (IF failed' THEN 1 ELSE 0) /\ Live(o) = 0
        BY <1>2, <2>1, <2>3, <2>5
      <3> QED BY <1>1, <2>1, <2>3, <3>1, <3>2
    <2>6. CASE o \in FilterSet \ {"filter_graph"}
      <3>1. heap'[o] <= heap[o] + Live(o)' /\ Live(o) = 0
        BY <1>5, <2>1, <2>6 DEF Good
      <3> QED BY <2>1, <2>3, <2>4, <3>1
    <2>7. CASE o \notin FilterSet
      <3>1. heap'[o] = heap[o] /\ Live(o)' = Live(o)
        BY <1>5, <1>6, <2>1, <2>7 DEF Good
      <3> QED BY <2>1, <2>3, <2>4, <3>1
    <2> QED BY <2>5, <2>6, <2>7
  <1>14. heap'["payload"] = heap["payload"]
    BY <1>5, <1>6 DEF Good
  <1>11. ptr'["packet"] # "live"
    BY <1>1, <1>5, <1>6 DEF Good, Flow, Ends, Opening
  <1>12. PacketKept
    BY <1>5, <1>6 DEF Good, PacketKept
  <1> QED BY <1>1, <1>5, <1>7, <1>9, <1>10, <1>11, <1>12, <1>13, <1>14, OpenMemory
          DEF Good, Opening

LEMMA AllocPacketMemory ==
  ASSUME Memory, Flow, DataType, DataType', AllocPacket
  PROVE  Memory' /\ PacketKept
  <1>1. /\ pc = "packet"
        /\ UNCHANGED <<from_path, ifmt, caller_open, result, pipeline>> /\ Opened
        /\ \/ /\ pc' = "read" /\ ptr' = [ptr EXCEPT !["packet"] = "live"]
              /\ heap' = Allocate([packet |-> 1])
           \/ pc' = "end" /\ ptr' = ptr /\ heap' = heap
        /\ failed' = failed
    BY DEF AllocPacket, Step, Goto
  <1>2. MemType /\ (\A o \in Objects : heap[o] \in Nat)
    BY DEF Memory, MemType
  <1>3. /\ Allocate([packet |-> 1]) \in [Objects -> Nat]
        /\ \A o \in Objects : Allocate([packet |-> 1])[o] =
             heap[o] + (IF o = "packet" THEN 1 ELSE 0)
    <2> DEFINE f == [packet |-> 1]
    <2>1. DOMAIN f = {"packet"} /\ f["packet"] = 1
      OBVIOUS
    <2> HIDE DEF f
    <2>2. /\ Allocate(f) \in [Objects -> Nat]
          /\ \A o \in Objects : Allocate(f)[o] = heap[o] + (IF o = "packet" THEN 1 ELSE 0)
      BY <1>2, <2>1, Allocated, Names
    <2> QED BY <2>2 DEF f
  <1>4. MemType'
    BY <1>1, <1>2, <1>3, Names DEF MemType
  <1>5. /\ \A o \in Objects : heap'[o] >= heap[o]
        /\ \A o \in Objects \ {"packet"} : heap'[o] = heap[o]
        /\ pc' = "read" => heap'["packet"] = heap["packet"] + 1
    BY <1>1, <1>2, <1>3, Names
  <1>6. /\ \A p \in Pointers \ {"packet"} : ptr'[p] = ptr[p]
        /\ \A p \in Pointers : ptr'[p] = "live" => ptr[p] = "live" \/ heap'[p] >= 1
        /\ pc' = "read" => ptr'["packet"] = "live"
        /\ pc' = "end" => ptr'["packet"] # "live"
    BY <1>1, <1>2, <1>3, Names DEF MemType, Flow, Ends, Opening
  <1>7. /\ Acquired = Own \ {"packet"} /\ "packet" \in Own
        /\ pc' = "read" => Acquired' = Own
    BY <1>1, Names DEF Acquired, DecSet, OutSet
  <1>8. /\ Own \subseteq Pointers /\ Own \subseteq Objects
        /\ {"payload", "ifmt_ctx"} \subseteq Objects \ {"packet"}
    BY Names
  <1>9. Owner'
    BY <1>1, <1>5, <1>8 DEF Memory, Owner, Opening, Pumping
  <1>10. NAudio > 0 /\ (pc' = "read" => \A p \in Acquired' : ptr'[p] = "live")
    BY <1>1, <1>6, <1>7, <1>8 DEF Memory, AcquiredIsLive, SetUp
  <1>11. LiveIsAcquired'
    BY <1>1, <1>6, Names DEF Memory, LiveIsAcquired, InFilter, Opening
  <1>12. \A o \in Own : heap'[o] + Live(o) + Excused(o) <= heap[o] + Live(o)' + Excused(o)'
    <2> SUFFICES ASSUME NEW o \in Own
                 PROVE  heap'[o] + Live(o) + Excused(o) <= heap[o] + Live(o)' + Excused(o)'
      OBVIOUS
    <2>1. ~failed'
      BY <1>1 DEF Flow, Ends, Opening
    <2>2. Ahead(o) = 0 /\ Ahead(o)' = 0
      BY <1>1 DEF Ahead
    <2>3. Excused(o) \in Int /\ Excused(o)' = Excused(o)
      BY <1>1, <2>1, <2>2, MoreExcused DEF pipeline
    <2>4. heap[o] \in Nat /\ heap'[o] \in Nat /\ Live(o) \in Nat /\ Live(o)' \in Nat
      BY <1>2, <1>4, <1>8 DEF MemType, Live
    <2>5. CASE o = "packet" /\ pc' = "read"
      <3>1. Live(o) = 0 /\ Live(o)' = 1
        BY <1>1, <1>6, <2>5 DEF Live, Flow, Ends, Opening
      <3> HIDE DEF Live, Excused
      <3> QED BY <1>5, <2>3, <2>4, <2>5, <3>1
    <2>6. CASE ~(o = "packet" /\ pc' = "read")
      <3>1. heap'[o] = heap[o] /\ Live(o)' = Live(o)
        BY <1>1, <1>5, <1>6, <1>8, <2>6 DEF Live
      <3> HIDE DEF Live, Excused
      <3> QED BY <2>3, <2>4, <3>1
    <2> QED BY <2>5, <2>6
  <1>13. heap'["payload"] = heap["payload"]
    BY <1>5, <1>8
  <1> QED BY <1>1, <1>4, <1>5, <1>6, <1>9, <1>10, <1>11, <1>12, <1>13, OpenMemory
          DEF PacketKept, Opening

\* Pumping moves nothing but the payload of the packet.
LEMMA PumpMemory ==
  ASSUME Memory, Flow, DataType, Pump
  PROVE  Memory'
  <1>1. /\ pc \in Pumping /\ pc' \in Pumping \cup {"end", "undefined"}
        /\ UNCHANGED <<from_path, ptr, ifmt, caller_open, result, surplus, aborted, streams>>
    BY DEF Pump, ReadPacket, SendPacket, ReceiveFrame, PullFrame, EncodeFrame, FlushFilter,
           Step, Goto, Fail, Pumping, resources, history
  <1>2. MemType /\ (\A o \in Objects : heap[o] \in Nat)
    BY DEF Memory, MemType
  <1>3. NAudio > 0 /\ \A p \in Own : ptr[p] = "live"
    BY <1>1 DEF Memory, AcquiredIsLive, SetUp, Acquired, Opening, Pumping
  <1>4. /\ heap' \in [Objects -> Nat]
        /\ \A o \in Objects \ {"payload"} : heap'[o] = heap[o]
        /\ held' /\ pc' \in Pumping \cup {"end"} => heap'["payload"] >= 1
        /\ heap'["payload"] = skipped' + (IF held' /\ pc' # "read" THEN 1 ELSE 0)
    <2>1. held => heap["payload"] >= 1
      BY <1>1 DEF Memory, Backed
    <2>0. /\ heap["payload"] = skipped + (IF held /\ pc # "read" THEN 1 ELSE 0)
          /\ heap["payload"] \in Nat /\ skipped \in Nat
      BY <1>1, <1>2, Names DEF Memory, Counted, DataType, Pumping
    <2>2. CASE ReadPacket
      <3>1. /\ Allocate([payload |-> 1]) \in [Objects -> Nat]
            /\ \A o \in Objects : Allocate([payload |-> 1])[o] =
                 heap[o] + (IF o = "payload" THEN 1 ELSE 0)
        <4> DEFINE f == [payload |-> 1]
        <4>1. DOMAIN f = {"payload"} /\ f["payload"] = 1
          OBVIOUS
        <4> HIDE DEF f
        <4>2. /\ Allocate(f) \in [Objects -> Nat]
              /\ \A o \in Objects : Allocate(f)[o] = heap[o] + (IF o = "payload" THEN 1 ELSE 0)
          BY <1>2, <4>1, Allocated, Names
        <4> QED BY <4>2 DEF f
      <3>2. /\ pc = "read" /\ skipped' = IF pc' = "read" THEN skipped + 1 ELSE skipped
            /\ \/ heap' = Allocate([payload |-> 1]) /\ held' = TRUE /\ pc' \in {"send", "read"}
               \/ pc' = "flush" /\ held' = FALSE /\ heap' = heap
        BY <2>2 DEF ReadPacket, Step, Goto
      <3> QED BY <1>2, <2>0, <3>1, <3>2, Names DEF MemType
    <2>3. CASE ReceiveFrame
      <3>1. held
        BY <2>3 DEF ReceiveFrame, Step, Fail, Goto, Flow, Pump_State
      <3>2. /\ skipped' = skipped /\ pc = "receive"
            /\ \/ heap' = [heap EXCEPT !["payload"] = @ - 1] /\ held' = FALSE
               \/ heap' = heap /\ held' = held /\ pc' # "read"
        BY <2>3 DEF ReceiveFrame, Step, Fail, Goto, history
      <3>3. CASE heap' = [heap EXCEPT !["payload"] = @ - 1] /\ held' = FALSE
        <4>1. /\ heap["payload"] \in Nat /\ heap["payload"] >= 1
              /\ heap'["payload"] = heap["payload"] - 1
          BY <1>2, <2>1, <3>1, <3>3, Names DEF MemType
        <4>2. heap' \in [Objects -> Nat] /\ \A o \in Objects \ {"payload"} : heap'[o] = heap[o]
          BY <1>2, <3>3, <4>1 DEF MemType
        <4> QED BY <2>0, <3>1, <3>2, <3>3, <4>1, <4>2
      <3>4. CASE heap' = heap /\ held' = held /\ pc' # "read"
        BY <1>2, <2>0, <2>1, <3>1, <3>2, <3>4 DEF MemType
      <3> QED BY <3>2, <3>3, <3>4
    <2>4. CASE SendPacket \/ PullFrame \/ EncodeFrame \/ FlushFilter
      <3>1. heap' = heap /\ held' = held /\ pc # "read" /\ pc' # "read" /\ skipped' = skipped
        BY <2>4 DEF SendPacket, PullFrame, EncodeFrame, FlushFilter, Step, Fail, Goto,
                    resources, history
      <3> QED BY <1>2, <2>0, <2>1, <3>1 DEF MemType
    <2> QED BY <2>2, <2>3, <2>4 DEF Pump
  <1>5. /\ Own \subseteq Pointers /\ Pointers \subseteq Objects \ {"payload"}
        /\ Own \subseteq Objects \ {"payload"}
        /\ "handle" \in Objects \ {"payload"} /\ "ifmt_ctx" \in Objects \ {"payload"}
        /\ "packet" \in Own
    BY Names
  <1>6. MemType'
    BY <1>1, <1>2, <1>4 DEF MemType
  <1>7. Backed'
    <2>1. \A p \in Pointers : ptr'[p] = "live" => heap'[p] >= 1
      BY <1>1, <1>4, <1>5 DEF Memory, Backed
    <2>2. heap'["handle"] >= 1
      BY <1>1, <1>4, <1>5 DEF Memory, Backed
    <2> QED BY <1>4, <2>1, <2>2 DEF Backed
  <1>8. Owner'
    BY <1>1, <1>4, <1>5 DEF Memory, Owner, Opening, Pumping
  <1>9. AcquiredIsLive'
    <2>1. NAudio' = NAudio
      BY <1>1 DEF NAudio, Audio
    <2>2. Acquired' = Own
      BY <1>1 DEF Acquired, Pumping
    <2> QED BY <1>1, <1>3, <2>1, <2>2 DEF AcquiredIsLive
  <1>10. LiveIsAcquired'
    <2>1. pc' \notin Opening \cup {"idle"}
      BY <1>1 DEF Opening, Pumping
    <2> QED BY <1>1, <2>1 DEF Memory, LiveIsAcquired
  <1>11. Counted'
    <2>1. pc' # "idle"
      BY <1>1 DEF Pumping
    <2>2. \A o \in Own : Live(o)' = Live(o) /\ Excused(o)' = Excused(o) /\ heap'[o] = heap[o]
      <3>1. \A o \in Own : Live(o)' = Live(o) /\ heap'[o] = heap[o]
        BY <1>1, <1>4, <1>5 DEF Live
      <3>2. \A o \in Own : Ahead(o)' = 0 /\ Ahead(o) = 0
        BY <1>1 DEF Ahead, Pumping
      <3>3. \A o \in Own : Excused(o)' = Excused(o)
        BY <1>1, <3>2 DEF Excused
      <3> QED BY <3>1, <3>3
    <2> QED BY <1>4, <2>1, <2>2 DEF Memory, Counted
  <1> QED BY <1>6, <1>7, <1>8, <1>9, <1>10, <1>11 DEF Memory

\* With a packet, nothing that the cleanup looks at is wild.
LEMMA NothingWild ==
  ASSUME Memory, pc = "end", ptr["packet"] = "live"
  PROVE  /\ NAudio > 0 /\ \A p \in Own : ptr[p] = "live"
         /\ Freed = Own
         /\ ptr["pb"] = "live" => ~FollowsWild
  <1>1. NAudio > 0 /\ \A p \in Own : ptr[p] = "live"
    BY DEF Memory, AcquiredIsLive, SetUp, Acquired, Opening, Pumping
  <1>2. {"filter_ctx", "filter_graph", "stream_ctx"} \subseteq Own
    BY Names
  <1>3. Freed = Own
    BY <1>1, <1>2 DEF Freed, FreedInFilter, Own, Pointers, Statics, InStream, InFilter
  <1> QED BY <1>1, <1>2, <1>3 DEF FollowsWild

LEMMA EndMemory ==
  ASSUME Memory, Flow, DataType, End
  PROVE  Memory'
  <1>1. pc = "end" /\ UNCHANGED <<from_path, failed, pipeline>> /\ result # "handle"
    BY DEF End, Flow, Ends
  <1>2. CASE FollowsWild /\ pc' = "undefined" /\ UNCHANGED resources
    <2>1. MemType'
      BY <1>2 DEF Memory, MemType, resources
    <2>2. Backed'
      BY <1>1, <1>2 DEF Memory, Backed, resources, Pumping
    <2>3. Owner'
      BY <1>2 DEF Memory, Owner, resources, Opening, Pumping
    <2>4. AcquiredIsLive'
      BY <1>2 DEF AcquiredIsLive, SetUp, Pumping
    <2>5. LiveIsAcquired'
      BY <1>2 DEF Memory, LiveIsAcquired, resources, Opening
    <2>6. Counted'
      BY <1>1, <1>2 DEF Memory, Counted, Live, Excused, Ahead, resources, history, pipeline
    <2> QED BY <2>1, <2>2, <2>3, <2>4, <2>5, <2>6 DEF Memory
  <1>3. CASE ~FollowsWild /\ pc' = "idle"
    <2>1. /\ heap' = [o \in Objects |-> IF Frees(o) THEN heap[o] - 1 ELSE heap[o]]
          /\ caller_open' = (caller_open /\ ~(from_path /\ ifmt = "caller"))
          /\ result' = "handle" => ~failed
          /\ ptr' = [p \in Pointers |-> Left(p)]
          /\ UNCHANGED <<surplus, aborted, skipped>>
      BY <1>3 DEF End, ClosesInput, Returned, history
    <2>2. \A o \in Objects : heap[o] \in Nat
      BY DEF Memory, MemType
    <2>3. Freed \subseteq Pointers /\ {"payload", "ifmt_ctx", "handle"} \cap Freed = {}
      BY DEF Freed, FreedInFilter, Pointers, Statics, InStream, InFilter
    <2>4. \A o \in Objects : Frees(o) => heap[o] >= 1
      <3>1. from_path /\ ifmt = "own" => heap["ifmt_ctx"] >= 1
        BY <1>1 DEF Memory, Owner
      <3>2. held => heap["payload"] >= 1
        BY <1>1 DEF Memory, Backed
      <3>3. \A p \in Pointers : ptr[p] = "live" => heap[p] >= 1
        BY DEF Memory, Backed
      <3> QED BY <2>3, <3>1, <3>2, <3>3 DEF Frees, ClosesInput
    <2>5. \A p \in Pointers : ptr'[p] \in {"null", "wild"}
      BY <2>1 DEF Left
    <2>6. MemType'
      BY <2>1, <2>2, <2>4, <2>5 DEF MemType
    <2>7. Backed'
      <3>1. result' = "handle" => heap["handle"] >= 1
        BY <1>1, <2>1 DEF Memory, Backed
      <3>2. heap'["handle"] = heap["handle"]
        BY <2>1, <2>3, Names DEF Frees
      <3> QED BY <1>3, <2>5, <3>1, <3>2 DEF Backed, Pumping
    <2>8. Owner'
      <3>1. /\ caller_open /\ (from_path => ifmt # "caller") /\ (~from_path => ifmt # "own")
            /\ heap["ifmt_ctx"] = IF ifmt = "own" THEN 1 ELSE 0
        BY <1>1 DEF Memory, Owner
      <3>2. heap'["ifmt_ctx"] = 0
        BY <2>1, <2>3, <3>1, Names DEF Frees, ClosesInput
      <3> QED BY <1>3, <2>1, <3>1, <3>2 DEF Owner, Opening, Pumping
    <2>9. AcquiredIsLive'
      BY <1>3 DEF AcquiredIsLive, Acquired, Pumping
    <2>10. LiveIsAcquired'
      BY <2>5, Names DEF LiveIsAcquired, InFilter
    <2>11. \A p \in Own : ptr[p] = "live" => p \in Freed
      <3>1. \A p \in InFilter : ptr[p] = "live" => p \in FreedInFilter
        BY DEF Memory, LiveIsAcquired, FreedInFilter
      <3> QED BY <3>1 DEF Freed, Own, Pointers
    <2>12. \A o \in Own : Frees(o) <=> ptr[o] = "live"
      BY <2>11, Names DEF Frees
    <2>13. \A o \in Own : heap'[o] = heap[o] - Live(o) /\ Live(o)' = 0
      BY <2>1, <2>2, <2>5, <2>12, Names DEF Live
    <2>14. \A o \in Own : Excused(o)' = Excused(o) /\ Excused(o) \in Int
      <3>1. \A o \in Own : Ahead(o)' = 0 /\ Ahead(o) = 0
        BY <1>1, <1>3 DEF Ahead
      <3> QED BY <2>1, <3>1 DEF Excused, DataType
    <2>15. \A o \in Own : heap'[o] <= Live(o)' + Excused(o)'
      <3> SUFFICES ASSUME NEW o \in Own PROVE heap'[o] <= Live(o)' + Excused(o)'
        OBVIOUS
      <3>1. Live(o) \in Int /\ heap[o] \in Nat
        BY <2>2, Names DEF Live
      <3>2. heap[o] <= Live(o) + Excused(o)
        BY DEF Memory, Counted
      <3> HIDE DEF Live, Excused
      <3> QED BY <2>13, <2>14, <3>1, <3>2
    <2>16. heap'["payload"] = skipped'
      <3>1. Frees("payload") <=> held
        BY <2>3 DEF Frees
      <3>2. heap["payload"] = skipped + (IF held THEN 1 ELSE 0) /\ skipped \in Nat
        BY <1>1 DEF Memory, Counted, DataType
      <3> QED BY <2>1, <3>1, <3>2, Names
    <2>17. Counted'
      <3>1. skipped' = skipped' + 0
        BY <2>1 DEF DataType
      <3> QED BY <1>3, <2>15, <2>16, <3>1 DEF Counted
    <2> QED BY <2>6, <2>7, <2>8, <2>9, <2>10, <2>17 DEF Memory
  <1> QED BY <1>2, <1>3 DEF End

LEMMA CallerClosesStep ==
  ASSUME Memory, Flow, CallerCloses
  PROVE  Flow' /\ Memory'
  <1>1. /\ pc = "idle" /\ pc' = pc /\ result = "handle" /\ result' = "NULL"
        /\ heap' = [heap EXCEPT !["handle"] = @ - 1]
        /\ UNCHANGED <<from_path, failed, ptr, ifmt, caller_open, history, pipeline>>
    BY DEF CallerCloses
  <1>2. Flow'
    BY <1>1 DEF Flow, InOrder, Pump_State, Ends, Opening, Pumping, pipeline
  <1>3. heap["handle"] >= 1 /\ heap["handle"] \in Nat
    BY <1>1, Names DEF Memory, MemType, Backed
  <1>4. MemType' /\ \A o \in Objects \ {"handle"} : heap'[o] = heap[o]
    BY <1>1, <1>3, Names DEF Memory, MemType
  <1>5. Pointers \subseteq Objects \ {"handle"} /\ Own \subseteq Objects \ {"handle"}
        /\ {"payload", "ifmt_ctx"} \subseteq Objects \ {"handle"}
    BY Names
  <1>6. Backed'
    BY <1>1, <1>4, <1>5 DEF Memory, Backed, Pumping
  <1>7. Owner'
    BY <1>1, <1>4, <1>5 DEF Memory, Owner, Opening, Pumping
  <1>8. AcquiredIsLive'
    BY <1>1 DEF AcquiredIsLive, Acquired, Pumping
  <1>9. Counted'
    BY <1>1, <1>4, <1>5 DEF Memory, Counted, Live, Excused, Ahead, history, pipeline
  <1>10. LiveIsAcquired'
    BY <1>1 DEF Memory, LiveIsAcquired, Acquired
  <1> QED BY <1>2, <1>4, <1>6, <1>7, <1>8, <1>9, <1>10 DEF Memory

-----------------------------------------------------------------------------
(* The invariant *)

IInv == Flow /\ DataType /\ Memory /\ CleanupDefinedOnceSetUp

LEMMA IInvInit == Init => IInv
  BY InitFlow, InitData, InitMemory DEF IInv, Init, CleanupDefinedOnceSetUp

LEMMA OpenStep ==
  ASSUME IInv, Open
  PROVE  IInv'
  <1>1. DataType'
    BY OpenData DEF IInv
  <1>2. Memory' /\ PacketKept
    BY <1>1, OpenInputMemory, OpenDecodersMemory, OpenOutputMemory, OpenFileMemory,
       InitFiltersMemory, AllocPacketMemory DEF IInv, Open
  <1>3. /\ UNCHANGED <<pipeline, result>> /\ pc \in Opening
        /\ \/ pc' \in Opening /\ failed' = failed
           \/ pc' = "read" /\ failed' = failed
           \/ pc' = "end" /\ (failed' \/ unread')
    BY DEF Open, OpenInput, OpenDecoders, OpenOutput, OpenFile, InitFilters, AllocPacket,
           Opened, Step, Goto, Fail, Opening
  <1>4. Flow'
    <2>1. ptr["packet"] = "null"
      BY <1>3 DEF IInv, Flow, Ends
    <2> QED BY <1>2, <1>3, <2>1, OpenFlow DEF IInv, PacketKept, Opening
  <1>5. CleanupDefinedOnceSetUp'
    BY <1>3 DEF CleanupDefinedOnceSetUp, Opening
  <1> QED BY <1>1, <1>2, <1>4, <1>5 DEF IInv

LEMMA PumpStep ==
  ASSUME IInv, Pump
  PROVE  IInv'
  <1>1. ptr' = ptr /\ streams' = streams
    BY DEF Pump, ReadPacket, SendPacket, ReceiveFrame, PullFrame, EncodeFrame, FlushFilter,
           resources
  <1>2. Flow' /\ DataType' /\ Memory'
    BY <1>1, PumpFlow, PumpData, PumpMemory DEF IInv
  <1>3. pc' = "undefined" => Selected > NAudio
    BY DEF Pump, ReadPacket, SendPacket, ReceiveFrame, PullFrame, EncodeFrame, FlushFilter,
           Step, Goto, Fail
  <1>4. Selected' = Selected /\ NAudio' = NAudio
    BY <1>1 DEF Selected, NAudio, Audio
  <1> QED BY <1>2, <1>3, <1>4 DEF IInv, CleanupDefinedOnceSetUp

LEMMA EndStep ==
  ASSUME IInv, End
  PROVE  IInv'
  <1>1. Flow' /\ DataType' /\ Memory'
    BY EndFlow, EndData, EndMemory DEF IInv
  <1>2. ASSUME pc' = "undefined" PROVE ptr'["packet"] # "live" \/ ptr'["pb"] # "live"
    <2>1. pc = "end" /\ FollowsWild /\ ptr' = ptr
      BY <1>2 DEF End, resources
    <2> QED BY <2>1, NothingWild DEF IInv
  <1> QED BY <1>1, <1>2 DEF IInv, CleanupDefinedOnceSetUp

LEMMA IInvStep == IInv /\ [Next]_vars => IInv'
  <1> SUFFICES ASSUME IInv, [Next]_vars PROVE IInv'
    OBVIOUS
  <1>1. ASSUME NEW fp \in PathModes, Call(fp) PROVE IInv'
    <2>0. DataType'
      BY <1>1, CallData DEF IInv
    <2>1. Flow' /\ DataType' /\ Memory'
      BY <1>1, <2>0, CallFlow, CallMemory DEF IInv, Memory, MemType, Flow
    <2> QED BY <1>1, <2>1 DEF IInv, CleanupDefinedOnceSetUp, Call, Goto
  <1>2. CASE CallerCloses
    <2>1. Flow' /\ DataType' /\ Memory'
      BY <1>2, EndData, CallerClosesStep DEF IInv
    <2> QED BY <1>2, <2>1 DEF IInv, CleanupDefinedOnceSetUp, CallerCloses
  <1>3. CASE UNCHANGED vars
    BY <1>3 DEF vars, resources, pipeline, history, IInv, Flow, InOrder, Pump_State, Ends, DataType,
                Memory, MemType, Backed, Owner, AcquiredIsLive, Acquired, SetUp, LiveIsAcquired,
                Counted, Live, Excused, Ahead, Extra,
                CleanupDefinedOnceSetUp, Selected, NAudio, Audio
  <1> QED BY <1>1, <1>2, <1>3, OpenStep, PumpStep, EndStep DEF Next

LEMMA Invariance == Spec => []IInv
  BY IInvInit, IInvStep, PTL DEF Spec

-----------------------------------------------------------------------------
(* The theorems *)

\* Every variable keeps its type, for any input and any faults.
THEOREM TypeCorrect == Spec => []TypeOK
  <1>1. IInv => TypeOK
    <2> SUFFICES ASSUME IInv PROVE TypeOK
      OBVIOUS
    <2>1. DataType /\ MemType
      BY DEF IInv, Memory
    <2>2. {from_path, failed, caller_open, unread} \subseteq BOOLEAN
      BY <2>1, Zenon DEF DataType
    <2>3. {held, flushing, trailer} \subseteq BOOLEAN
      BY <2>1, Zenon DEF DataType
    <2>4. {calls, surplus, aborted, skipped, packets, frames} \subseteq Nat /\ {decoder, filter, muxed} \subseteq Seq(Nat)
      BY <2>1 DEF DataType
    <2> QED BY <2>1, <2>2, <2>3, <2>4 DEF TypeOK, DataType, MemType, PCs, Opening, Pumping
  <1> QED BY <1>1, Invariance, PTL

\* What the muxer has received is what the decoder put out, in that order and without
\* a gap, however long the filter graph holds frames back.
THEOREM FramesInOrder == Spec => []MuxedInOrder
  <1>1. IInv => MuxedInOrder
    <2> SUFFICES ASSUME IInv PROVE MuxedInOrder
      OBVIOUS
    <2>1. muxed \in Seq(Nat) /\ \A i \in 1 .. Len(muxed) : muxed[i] = i
      BY DEF IInv, Flow, InOrder, Follows
    <2>2. Len(muxed) \in Nat /\ muxed \in [1 .. Len(muxed) -> Nat]
      BY <2>1, LenProperties
    <2> QED BY <2>1, <2>2 DEF MuxedInOrder
  <1> QED BY <1>1, Invariance, PTL

\* A handle that do_transcode returns stands for all frames decoded by that call,
\* whatever the inputs and however earlier calls ended, and for a trailer unless that
\* same call had no packet to read into.
THEOREM ReturnedIsComplete == Spec => []HandleIsComplete
  <1>1. IInv => HandleIsComplete
    BY DEF IInv, Flow, Ends, HandleIsComplete
  <1> QED BY <1>1, Invariance, PTL

\* The caller's AVFormatContext stays open, and one opened here is closed here, at
\* whatever point the call failed.
THEOREM InputIsItsOwners == Spec => []InputOwnership
  <1>1. IInv => InputOwnership
    BY DEF IInv, Memory, Owner, InputOwnership
  <1> QED BY <1>1, Invariance, PTL

\* The block after end: follows good pointers only, once there is a packet and an
\* AVIOContext, whatever the calls before have left in the static pointers.
THEOREM CleanupDefined == Spec => []CleanupDefinedOnceSetUp
  BY Invariance, PTL DEF IInv

\* Between calls, whatever the inputs and wherever the calls before came to their end:
\* the payloads left are exactly those of the skipped packets, contexts and frames are
\* no more than the streams beyond the first and the calls that failed in their set-up
\* account for, filter graphs no more than those calls, and of the rest, the AVIOContext
\* and dropped handles apart, nothing is left.
THEOREM NothingLeft == Spec => []NothingLeftBehind
  <1>1. IInv => NothingLeftBehind
    <2> SUFFICES ASSUME IInv, pc = "idle" PROVE NothingLeftBehind
      BY DEF NothingLeftBehind
    <2>1. \A o \in Own : Live(o) = 0 /\ Ahead(o) = 0
      BY DEF IInv, Memory, LiveIsAcquired, Acquired, Live, Ahead
    <2>2. \A o \in Own : heap[o] \in Nat /\ heap[o] <= Live(o) + Excused(o)
      BY Names DEF IInv, Memory, MemType, Counted
    <2>3. surplus \in Nat /\ aborted \in Nat /\ skipped \in Nat
      BY DEF IInv, DataType
    <2>4. heap["payload"] = skipped /\ heap["ifmt_ctx"] = 0
      BY <2>3 DEF IInv, Memory, Counted, Owner
    <2>5. InStream \cup {"filter_graph"} \subseteq Own /\ "filter_graph" \notin InStream
      BY Names DEF InStream
    <2>6. \A o \in InStream : heap[o] <= surplus + aborted
      BY <2>1, <2>2, <2>3, <2>5 DEF Excused
    <2>7. heap["filter_graph"] <= aborted
      BY <2>1, <2>2, <2>3, <2>5 DEF Excused
    <2>8. \A o \in Own \ (InStream \cup {"filter_graph"}) : heap[o] = 0
      BY <2>1, <2>2 DEF Excused
    <2> QED BY <2>4, <2>6, <2>7, <2>8, Names DEF NothingLeftBehind
  <1> QED BY <1>1, Invariance, PTL

-----------------------------------------------------------------------------
(* The return of a call *)

\* How far a call has to go: the phases of its opening, the loop over the packets (4),
\* flushing, and what follows.
Stage ==
  CASE pc = "input" -> 10
    [] pc = "decoders" -> 9
    [] pc = "output" -> 8
    [] pc = "file" -> 7
    [] pc = "filters" -> 6
    [] pc = "packet" -> 5
    [] pc \in {"read", "send", "receive"} -> 4
    [] pc \in {"pull", "encode"} -> IF flushing THEN 2 ELSE 4
    [] pc = "flush" -> 3
    [] pc = "end" -> 1
    [] OTHER -> 0

\* Steps that the frames in hand can take at most before the next packet: those in the
\* decoder have the graph before them, those in the graph the encoder.
Steps ==
  5 * Len(decoder) + 2 * Len(filter) + CASE pc = "receive" -> 1
                                         [] pc = "encode" -> 2
                                         [] pc = "pull" -> 3
                                         [] OTHER -> 0

\* A later stage; or in the two loops another packet, the frames of the packet, or the
\* next of their steps.
Nearer ==
  \/ Stage' < Stage
  \/ /\ Stage \in {2, 4} /\ Stage' = Stage
     /\ \/ packets < packets' /\ packets' <= MaxPackets
        \/ packets' = packets /\ pc = "send" /\ pc' # "send"
        \/ /\ packets' = packets /\ pc # "send" /\ pc' # "send"
           /\ Steps \in Nat /\ Steps' \in Nat /\ Steps' < Steps

LEMMA PumpComesNearer ==
  ASSUME IInv, Pump
  PROVE  Nearer
  <1>1. Len(decoder) \in Nat /\ Len(filter) \in Nat /\ packets \in Nat /\ MaxPackets \in Nat
    BY InputsAssumption, LenProperties DEF IInv, DataType
  <1>2. pc = "send" => ~flushing
    BY DEF IInv, Flow, Pump_State
  <1>3. CASE ReadPacket
    <2>1. CASE pc' = "flush"
      <3>1. pc = "read"
        BY <1>3 DEF ReadPacket, Step, Goto
      <3> QED BY <2>1, <3>1 DEF Nearer, Stage
    <2>2. CASE pc' # "flush"
      <3>1. pc = "read" /\ pc' \in {"read", "send"} /\ packets' = packets + 1
            /\ packets < MaxPackets
        BY <1>3, <2>2 DEF ReadPacket, Step, Goto
      <3>2. Stage = 4 /\ Stage' = 4
        BY <3>1 DEF Stage
      <3>3. packets < packets' /\ packets' <= MaxPackets
        BY <1>1, <3>1
      <3> QED BY <3>2, <3>3 DEF Nearer
    <2> QED BY <2>1, <2>2
  <1>4. CASE SendPacket
    <2>1. pc = "send" /\ pc' \in {"receive", "flush"} /\ packets' = packets
      BY <1>4 DEF SendPacket, Step, Goto
    <2>2. Stage = 4 /\ Stage' \in {3, 4}
      BY <2>1 DEF Stage
    <2> QED BY <2>1, <2>2 DEF Nearer
  <1>5. CASE ReceiveFrame
    <2>1. pc = "receive" /\ packets' = packets /\ flushing' = flushing /\ ~flushing /\ Stage = 4
      BY <1>5 DEF ReceiveFrame, Step, Goto, Fail, Stage, IInv, Flow, Pump_State
    <2>2. CASE decoder = <<>> /\ Step("receive", "read") /\ UNCHANGED <<decoder, filter>>
      <3>1. pc' = "read"
        BY <2>2 DEF Step, Goto
      <3>2. Stage' = 4
        BY <3>1 DEF Stage
      <3>3. Steps = 5 * Len(decoder) + 2 * Len(filter) + 1
            /\ Steps' = 5 * Len(decoder) + 2 * Len(filter) + 0
        BY <2>1, <2>2, <3>1 DEF Steps
      <3>4. Steps \in Nat /\ Steps' \in Nat /\ Steps' < Steps
        BY <1>1, <3>3
      <3> QED BY <2>1, <3>1, <3>2, <3>4 DEF Nearer
    <2>3. CASE /\ decoder # <<>> /\ Step("receive", "pull")
               /\ filter' = Append(filter, Head(decoder)) /\ decoder' = Tail(decoder)
      <3>1. pc' = "pull"
        BY <2>3 DEF Step, Goto
      <3>2. Stage' = 4
        BY <2>1, <3>1 DEF Stage
      <3>3. Len(decoder) # 0 /\ Len(decoder') = Len(decoder) - 1 /\ Head(decoder) \in Nat
        BY <2>3, EmptySeq, HeadTailProperties DEF IInv, DataType
      <3>4. Len(filter') = Len(filter) + 1
        BY <2>3, <3>3, AppendProperties DEF IInv, DataType
      <3>5. Steps = 5 * Len(decoder) + 2 * Len(filter) + 1
            /\ Steps' = 5 * Len(decoder') + 2 * Len(filter') + 3
        BY <2>1, <3>1 DEF Steps
      <3>6. Steps \in Nat /\ Steps' \in Nat /\ Steps' < Steps
        BY <1>1, <3>3, <3>4, <3>5
      <3> QED BY <2>1, <3>1, <3>2, <3>6 DEF Nearer
    <2>4. CASE Fail("receive", "loop")
      BY <2>1, <2>4 DEF Fail, Goto, Nearer, Stage
    <2> QED BY <1>5, <2>2, <2>3, <2>4 DEF ReceiveFrame
  <1>6. CASE PullFrame
    <2>1. pc = "pull" /\ packets' = packets /\ UNCHANGED <<decoder, filter, flushing>>
          /\ Stage \in {2, 4} /\ flushing \in BOOLEAN
      BY <1>6 DEF PullFrame, Step, Goto, Fail, Stage, IInv, DataType
    <2>2. CASE pc' = "end"
      BY <2>1, <2>2 DEF Nearer, Stage
    <2>3. CASE pc' # "end"
      <3>1. pc' = "encode" \/ (pc' = "receive" /\ ~flushing)
        BY <1>6, <2>3 DEF PullFrame, Step, Goto, Fail
      <3>2. Stage' = Stage
        BY <2>1, <3>1 DEF Stage
      <3>3. Steps = 5 * Len(decoder) + 2 * Len(filter) + 3
            /\ \/ Steps' = 5 * Len(decoder) + 2 * Len(filter) + 1
               \/ Steps' = 5 * Len(decoder) + 2 * Len(filter) + 2
        BY <2>1, <3>1 DEF Steps
      <3>4. Steps \in Nat /\ Steps' \in Nat /\ Steps' < Steps
        BY <1>1, <3>3
      <3> QED BY <2>1, <3>1, <3>2, <3>4 DEF Nearer
    <2> QED BY <2>2, <2>3
  <1>7. CASE EncodeFrame
    <2>1. pc = "encode" /\ packets' = packets /\ UNCHANGED <<decoder, flushing>>
          /\ Stage \in {2, 4} /\ flushing \in BOOLEAN /\ filter # <<>>
      BY <1>7 DEF EncodeFrame, Stage, IInv, DataType, Flow, Pump_State
    <2>2. CASE pc' \in {"end", "undefined"}
      BY <2>1, <2>2 DEF Nearer, Stage
    <2>3. CASE pc' \notin {"end", "undefined"}
      <3>1. pc' = "pull" /\ filter' = Tail(filter)
        BY <1>7, <2>3 DEF EncodeFrame, Step, Goto, Fail
      <3>2. Stage' = Stage
        BY <2>1, <3>1 DEF Stage
      <3>3. Len(filter) # 0 /\ Len(filter') = Len(filter) - 1
        BY <2>1, <3>1, EmptySeq, HeadTailProperties DEF IInv, DataType
      <3>4. Steps = 5 * Len(decoder) + 2 * Len(filter) + 2
            /\ Steps' = 5 * Len(decoder) + 2 * Len(filter') + 3
        BY <2>1, <3>1 DEF Steps
      <3>5. Steps \in Nat /\ Steps' \in Nat /\ Steps' < Steps
        BY <1>1, <3>3, <3>4
      <3> QED BY <2>1, <3>1, <3>2, <3>5 DEF Nearer
    <2> QED BY <2>2, <2>3
  <1>8. CASE FlushFilter
    <2>1. pc = "flush" /\ (pc' = "pull" => flushing') /\ pc' \in {"pull", "end"}
      BY <1>8 DEF FlushFilter, Step, Goto, Fail
    <2> QED BY <2>1 DEF Nearer, Stage
  <1> QED BY <1>3, <1>4, <1>5, <1>6, <1>7, <1>8 DEF Pump

\* The half of CallReturns that needs no fairness: whatever fails and however many
\* frames a packet gives, every step that a process makes while do_transcode runs takes
\* the call a step nearer to its return; nothing in its two loops is repeated for ever.
THEOREM ReturnComesNearer == Spec => [][pc \notin {"idle", "undefined"} => Nearer]_vars
  <1>1. ASSUME IInv, [Next]_vars
        PROVE  [pc \notin {"idle", "undefined"} => Nearer]_vars
    <2> SUFFICES ASSUME Next, pc \notin {"idle", "undefined"} PROVE Nearer
      BY <1>1
    <2>1. \A fp \in PathModes : ~Call(fp)
      BY DEF Call, Goto
    <2>2. ~CallerCloses
      BY DEF CallerCloses
    <2>3. ASSUME Open PROVE Nearer
      <3>1. \/ pc = "input" /\ pc' \in {"decoders", "end"}
            \/ pc = "decoders" /\ pc' \in {"output", "end"}
            \/ pc = "output" /\ pc' \in {"file", "end"}
            \/ pc = "file" /\ pc' \in {"filters", "end"}
            \/ pc = "filters" /\ pc' \in {"packet", "end"}
            \/ pc = "packet" /\ pc' \in {"read", "end"}
        BY <2>3 DEF Open, OpenInput, OpenDecoders, OpenOutput, OpenFile, InitFilters,
                    AllocPacket, Step, Goto, Fail
      <3> QED BY <3>1 DEF Nearer, Stage
    <2>4. ASSUME End PROVE Nearer
      <3>1. pc = "end" /\ pc' \in {"idle", "undefined"}
        BY <2>4 DEF End
      <3> QED BY <3>1 DEF Nearer, Stage
    <2> QED BY <1>1, <2>1, <2>2, <2>3, <2>4, PumpComesNearer DEF Next
  <1> QED BY <1>1, IInvInit, IInvStep, PTL DEF Spec
=============================================================================
