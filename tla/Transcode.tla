----------------------------- MODULE Transcode -----------------------------
(***************************************************************************)
(* do_transcode (native/transcode.c): opens the decoders, an output file   *)
(* and a filter graph, pumps the frames of the first audio stream from     *)
(* decoder to filter to encoder to muxer, and takes everything down again, *)
(* from whatever point it was reached, in the one block after `end:'.      *)
(*                                                                         *)
(* The objects it works with hang off four static pointers that outlive    *)
(* the call, so a process that transcodes twice finds what the first call  *)
(* left in them.  FFmpeg is external: its calls succeed, or fail where     *)
(* Faults allows it; its queues keep order.                                *)
(***************************************************************************)
EXTENDS Naturals, Sequences, FiniteSets

CONSTANTS
  Inputs,       \* for each input file the codec type of its streams
  PathModes,    \* whether from_path is given: a subset of BOOLEAN
  Faults,       \* the phases in which a call of FFmpeg's may fail
  MaxCalls,     \* bound: calls of do_transcode by one process
  MaxPackets,   \* bound: packets in the input
  FrameCounts,  \* frames one packet can decode to
  FilterDelay   \* frames the filter graph holds back until it is flushed

ASSUME InputsAssumption ==
  /\ Inputs \subseteq Seq({"audio", "other"})
  /\ PathModes \subseteq BOOLEAN
  /\ {MaxCalls, MaxPackets, FilterDelay} \subseteq Nat
  /\ FrameCounts \subseteq Nat

Phases == {"input", "decoders", "output", "file", "filters", "packet", "loop"}

ASSUME FaultsAssumption == Faults \subseteq Phases

\* Pointers that the cleanup follows or frees; ifmt_ctx has a variable of its own.
Statics == {"stream_ctx", "filter_ctx", "ofmt_ctx"}
InStream == {"dec_ctx", "enc_ctx", "dec_frame"}
InFilter == {"filter_graph", "enc_pkt", "filtered_frame"}
Pointers == Statics \cup InStream \cup InFilter \cup {"pb", "packet"}

\* What is allocated: the target of each pointer, the AVIO handle behind pb, a
\* demuxer opened from from_path, and what the demuxer puts into packet.
Objects == Pointers \cup {"handle", "ifmt_ctx", "payload"}

VARIABLES
  pc,           \* where the call is; "undefined" once it has followed a wild pointer
  from_path,    \* from_path != NULL
  failed,       \* ret < 0
  ptr,          \* "null", "live", or "wild": freed memory, or never initialised
  ifmt,         \* ifmt_ctx: NULL, opened here, or the caller's
  caller_open,  \* the caller's AVFormatContext has not been closed
  heap,         \* how many objects of each sort exist
  result,       \* what the last call returned and the caller has not closed
  calls,        \* calls so far
  surplus,      \* audio streams of all inputs so far, beyond the first of each
  aborted,      \* calls so far that failed before they had a packet
  skipped,      \* packets of other streams skipped so far (line 561)
  unread,       \* this call got no packet to read into, and did not fail (line 555)
  streams,      \* the streams of the input of this call
  packets,      \* packets read by this call
  held,         \* packet refers to a payload
  frames,       \* frames decoded by this call; they are numbered in that order
  decoder, filter, muxed,  \* frames in the decoder, in the filter graph, muxed
  flushing,     \* the filter graph has been told that no frame will follow
  trailer       \* av_write_trailer was reached

\* What the properties make their exceptions for; the code keeps none of it.
history == <<surplus, aborted, skipped, unread>>
resources == <<ptr, ifmt, caller_open, heap, result, calls, history>>
pipeline == <<streams, packets, held, frames, decoder, filter, muxed, flushing, trailer>>
vars == <<pc, from_path, failed, resources, pipeline>>

Audio == {i \in DOMAIN streams : streams[i] = "audio"}

NAudio == Cardinality(Audio)

\* Audio streams of this input beyond its first.
Extra == IF NAudio > 0 THEN NAudio - 1 ELSE 0

\* The stream init_filters selects, counted from 1.
Selected == CHOOSE i \in Audio : \A j \in Audio : i <= j

TypeOK ==
  /\ pc \in {"idle", "input", "decoders", "output", "file", "filters", "packet",
             "read", "send", "receive", "pull", "encode", "flush", "end", "undefined"}
  /\ {from_path, failed, caller_open, unread} \subseteq BOOLEAN
  /\ {held, flushing, trailer} \subseteq BOOLEAN
  /\ streams \in Inputs \cup {<<>>}
  /\ ptr \in [Pointers -> {"null", "live", "wild"}]
  /\ ifmt \in {"null", "own", "caller"}
  /\ heap \in [Objects -> Nat]
  /\ result \in {"NULL", "handle"}
  /\ {calls, surplus, aborted, skipped, packets, frames} \subseteq Nat
  /\ {decoder, filter, muxed} \subseteq Seq(Nat)

Init ==
  /\ pc = "idle"
  /\ from_path = FALSE /\ failed = FALSE
  /\ ptr = [p \in Pointers |-> "null"]
  /\ ifmt = "null" /\ caller_open = TRUE
  /\ heap = [o \in Objects |-> 0]
  /\ result = "NULL"
  /\ streams = <<>>
  /\ calls = 0 /\ surplus = 0 /\ aborted = 0 /\ skipped = 0 /\ unread = FALSE
  /\ packets = 0 /\ held = FALSE /\ frames = 0
  /\ decoder = <<>> /\ filter = <<>> /\ muxed = <<>>
  /\ flushing = FALSE /\ trailer = FALSE

Goto(from, to) == pc = from /\ pc' = to

\* goto end, with ret < 0, because something went wrong in a phase.
Fail(from, phase) ==
  /\ phase \in Faults
  /\ Goto(from, "end")
  /\ failed' = TRUE

Step(from, to) == Goto(from, to) /\ UNCHANGED failed

\* Pointers after those of a function on a part of them are set to its values.
Set(f) == [p \in Pointers |-> IF p \in DOMAIN f THEN f[p] ELSE ptr[p]]

Allocate(f) == [o \in Objects |-> IF o \in DOMAIN f THEN heap[o] + f[o] ELSE heap[o]]

\* What av_malloc leaves in a pointer: zero if the block happens to be clean.
Uninitialised == {"null", "wild"}

-----------------------------------------------------------------------------
Call(fp) ==
  /\ calls < MaxCalls /\ result = "NULL"
  /\ Goto("idle", "input")
  /\ from_path' = fp
  /\ failed' = FALSE
  /\ ptr' = [ptr EXCEPT !["packet"] = "null"]
  /\ calls' = calls + 1
  /\ streams' \in Inputs
  /\ packets' = 0 /\ held' = FALSE /\ frames' = 0
  /\ decoder' = <<>> /\ filter' = <<>> /\ muxed' = <<>>
  /\ flushing' = FALSE /\ trailer' = FALSE
  /\ surplus' = surplus + Extra' /\ unread' = FALSE
  /\ UNCHANGED <<ifmt, caller_open, heap, result, aborted, skipped>>

\* The history of a step on the way to the packets: what ends it is a failure, or
\* that there is no packet.
Opened ==
  /\ aborted' = IF failed' THEN aborted + 1 ELSE aborted
  /\ unread' = (pc' = "end" /\ ~failed')
  /\ UNCHANGED <<surplus, skipped>>

\* open_input_file up to its call of open_input_file_with_format_context, or
\* that function's first lines.
OpenInput ==
  /\ \/ ~from_path /\ Step("input", "decoders") /\ ifmt' = "caller" /\ UNCHANGED heap
     \/ /\ from_path
        /\ \/ Fail("input", "input") /\ ifmt' = "null" /\ UNCHANGED heap
           \/ /\ Step("input", "decoders") \/ Fail("input", "input")
              /\ ifmt' = "own"
              /\ heap' = Allocate([ifmt_ctx |-> 1])
  /\ Opened
  /\ UNCHANGED <<from_path, ptr, caller_open, result, calls, pipeline>>

\* stream_ctx comes from av_malloc; each audio stream then overwrites its
\* decoder and frame.  k streams succeed; a failure at the next one leaves
\* nothing, a context that no pointer holds, or a context without a frame.
OpenDecoders ==
  /\ \/ /\ Fail("decoders", "decoders")
        /\ ptr' = [ptr EXCEPT !["stream_ctx"] = "null"]
        /\ UNCHANGED heap
     \/ \E junk \in [InStream -> Uninitialised], k \in 0 .. NAudio :
          \/ /\ k = NAudio /\ Step("decoders", "output")
             /\ ptr' = Set([stream_ctx |-> "live", enc_ctx |-> junk["enc_ctx"],
                            dec_ctx |-> IF k > 0 THEN "live" ELSE junk["dec_ctx"],
                            dec_frame |-> IF k > 0 THEN "live" ELSE junk["dec_frame"]])
             /\ heap' = Allocate([stream_ctx |-> 1, dec_ctx |-> k, dec_frame |-> k])
          \/ /\ k < NAudio /\ Fail("decoders", "decoders")
             /\ \E got \in {"nothing", "context", "decoder"} :
                  /\ ptr' = Set([stream_ctx |-> "live", enc_ctx |-> junk["enc_ctx"],
                                 dec_ctx |-> IF k > 0 \/ got = "decoder" THEN "live"
                                             ELSE junk["dec_ctx"],
                                 dec_frame |-> IF got = "decoder" THEN "null"
                                               ELSE IF k > 0 THEN "live"
                                               ELSE junk["dec_frame"]])
                  /\ heap' = Allocate([stream_ctx |-> 1, dec_frame |-> k,
                                       dec_ctx |-> IF got = "nothing" THEN k ELSE k + 1])
  /\ Opened
  /\ UNCHANGED <<from_path, ifmt, caller_open, result, calls, pipeline>>

\* open_output_file up to line 252: one encoder per audio stream, the last of
\* them in stream_ctx.  An encoder that cannot be opened is lost.
OpenOutput ==
  /\ \/ /\ Fail("output", "output")
        /\ ptr' = [ptr EXCEPT !["ofmt_ctx"] = "null"]
        /\ UNCHANGED heap
     \/ \E k \in 0 .. NAudio, lost \in 0 .. 1 :
          /\ \/ k = NAudio /\ lost = 0 /\ Step("output", "file")
             \/ k < NAudio /\ Fail("output", "output")
          /\ ptr' = Set([ofmt_ctx |-> "live", pb |-> "null",
                         enc_ctx |-> IF k > 0 THEN "live" ELSE ptr["enc_ctx"]])
          /\ heap' = Allocate([ofmt_ctx |-> 1, enc_ctx |-> k + lost])
  /\ Opened
  /\ UNCHANGED <<from_path, ifmt, caller_open, result, calls, pipeline>>

\* The rest of it: the AVIO handle, its AVIOContext, which is not checked, and
\* the header.
OpenFile ==
  /\ \/ Fail("file", "file") /\ UNCHANGED <<ptr, heap>>
     \/ /\ Step("file", "filters") \/ Fail("file", "file")
        /\ \/ /\ ptr' = [ptr EXCEPT !["pb"] = "live"]
              /\ heap' = Allocate([handle |-> 1, pb |-> 1])
           \/ /\ "file" \in Faults
              /\ heap' = Allocate([handle |-> 1])
              /\ UNCHANGED ptr
  /\ Opened
  /\ UNCHANGED <<from_path, ifmt, caller_open, result, calls, pipeline>>

\* Mutant: the static filter_ctx is set up by the first call only.
InitFiltersOnce ==
  /\ NAudio > 0 /\ Step("filters", "packet")
  /\ \/ ptr["filter_ctx"] # "null" /\ UNCHANGED <<ptr, heap>>
     \/ /\ ptr["filter_ctx"] = "null"
        /\ ptr' = Set([p \in InFilter \cup {"filter_ctx"} |-> "live"])
        /\ heap' = Allocate([p \in InFilter \cup {"filter_ctx"} |-> 1])
  /\ Opened
  /\ UNCHANGED <<from_path, ifmt, caller_open, result, calls, pipeline>>

\* init_filters and init_filter, whose graph nobody owns if it fails.
InitFilters ==
  /\ \/ /\ Fail("filters", "filters")
        /\ ptr' = [ptr EXCEPT !["filter_ctx"] = "null"]
        /\ UNCHANGED heap
     \/ \E junk \in [InFilter -> Uninitialised] :
          \/ /\ NAudio = 0
             /\ Goto("filters", "end") /\ failed' = TRUE
             /\ ptr' = Set([filter_ctx |-> "live", filter_graph |-> junk["filter_graph"],
                            enc_pkt |-> junk["enc_pkt"],
                            filtered_frame |-> junk["filtered_frame"]])
             /\ heap' = Allocate([filter_ctx |-> 1])
          \/ /\ NAudio > 0 /\ Fail("filters", "filters")
             /\ \/ /\ ptr' = Set([filter_ctx |-> "live", filter_graph |-> "null",
                                  enc_pkt |-> junk["enc_pkt"],
                                  filtered_frame |-> junk["filtered_frame"]])
                   /\ \E lost \in 0 .. 1 :
                        heap' = Allocate([filter_ctx |-> 1, filter_graph |-> lost])
                \/ /\ ptr' = Set([filter_ctx |-> "live", filter_graph |-> "live",
                                  enc_pkt |-> "null",
                                  filtered_frame |-> junk["filtered_frame"]])
                   /\ heap' = Allocate([filter_ctx |-> 1, filter_graph |-> 1])
                \/ /\ ptr' = Set([filter_ctx |-> "live", filter_graph |-> "live",
                                  enc_pkt |-> "live", filtered_frame |-> "null"])
                   /\ heap' = Allocate([filter_ctx |-> 1, filter_graph |-> 1,
                                        enc_pkt |-> 1])
     \/ /\ NAudio > 0 /\ Step("filters", "packet")
        /\ ptr' = Set([p \in InFilter \cup {"filter_ctx"} |-> "live"])
        /\ heap' = Allocate([p \in InFilter \cup {"filter_ctx"} |-> 1])
  /\ Opened
  /\ UNCHANGED <<from_path, ifmt, caller_open, result, calls, pipeline>>

\* ret is the selected stream here, so a packet that cannot be allocated ends
\* the call without an error.
AllocPacket ==
  /\ \/ /\ Step("packet", "read")
        /\ ptr' = [ptr EXCEPT !["packet"] = "live"]
        /\ heap' = Allocate([packet |-> 1])
     \/ "packet" \in Faults /\ Step("packet", "end") /\ UNCHANGED <<ptr, heap>>
  /\ Opened
  /\ UNCHANGED <<from_path, ifmt, caller_open, result, calls, pipeline>>

-----------------------------------------------------------------------------
(* The pipeline.  filter_graph is set from here on: a packet is never remuxed. *)

\* av_read_frame: an error is not told from the end of the file.  It overwrites
\* packet, so the payload of a packet skipped at line 561 is lost.
ReadPacket ==
  /\ \/ \E i \in DOMAIN streams :
          /\ packets < MaxPackets
          /\ Step("read", IF i = Selected THEN "send" ELSE "read")
          /\ packets' = packets + 1
          /\ held' = TRUE
          /\ heap' = Allocate([payload |-> 1])
     \/ Step("read", "flush") /\ held' = FALSE /\ UNCHANGED <<packets, heap>>
  /\ skipped' = IF pc' = "read" THEN skipped + 1 ELSE skipped
  /\ UNCHANGED <<from_path, ptr, ifmt, caller_open, result, calls, surplus, aborted,
                 unread, streams, frames, decoder, filter, muxed, flushing, trailer>>

\* avcodec_send_packet.  A packet the decoder refuses ends the reading, not the call.
SendPacket ==
  /\ \/ /\ Step("send", "receive")
        /\ \E n \in FrameCounts :
             /\ decoder' = decoder \o [i \in 1 .. n |-> frames + i]
             /\ frames' = frames + n
     \/ /\ "loop" \in Faults
        /\ Step("send", "flush")
        /\ UNCHANGED <<decoder, frames>>
  /\ UNCHANGED <<from_path, resources, streams, packets, held, filter, muxed,
                 flushing, trailer>>

\* Mutant: one frame per packet.
ReceiveFrameOnce ==
  /\ \/ /\ decoder = <<>> /\ Step("receive", "read")
        /\ held' = FALSE
        /\ heap' = [heap EXCEPT !["payload"] = @ - 1]
        /\ UNCHANGED <<decoder, filter>>
     \/ /\ decoder # <<>>
        /\ \/ /\ Step("receive", "pull")
              /\ filter' = Append(filter, Head(decoder))
              /\ decoder' = <<>>
           \/ Fail("receive", "loop") /\ UNCHANGED <<decoder, filter>>
        /\ UNCHANGED <<held, heap>>
  /\ UNCHANGED <<from_path, ptr, ifmt, caller_open, result, calls, history, streams,
                 packets, frames, muxed, flushing, trailer>>

\* avcodec_receive_frame, then av_buffersrc_add_frame_flags; a packet that has
\* given all its frames is unreferenced.
ReceiveFrame ==
  /\ \/ /\ decoder = <<>> /\ Step("receive", "read")
        /\ held' = FALSE
        /\ heap' = [heap EXCEPT !["payload"] = @ - 1]
        /\ UNCHANGED <<decoder, filter>>
     \/ /\ decoder # <<>>
        /\ \/ /\ Step("receive", "pull")
              /\ filter' = Append(filter, Head(decoder))
              /\ decoder' = Tail(decoder)
           \/ Fail("receive", "loop") /\ UNCHANGED <<decoder, filter>>
        /\ UNCHANGED <<held, heap>>
  /\ UNCHANGED <<from_path, ptr, ifmt, caller_open, result, calls, history, streams,
                 packets, frames, muxed, flushing, trailer>>

Available == Len(filter) > (IF flushing THEN 0 ELSE FilterDelay)

\* Mutant: what the graph holds back at the end is not asked for.
PullFrameOnce ==
  /\ \/ Available /\ ~flushing /\ Step("pull", "encode") /\ UNCHANGED trailer
     \/ ~Available /\ ~flushing /\ Step("pull", "receive") /\ UNCHANGED trailer
     \/ flushing /\ Step("pull", "end") /\ trailer' = TRUE
     \/ Fail("pull", "loop") /\ UNCHANGED trailer
  /\ UNCHANGED <<from_path, resources, streams, packets, held, frames, decoder,
                 filter, muxed, flushing>>

\* Mutant: a graph that is at its end is flushed again.
PullFrameAgain ==
  /\ \/ Available /\ Step("pull", "encode") /\ UNCHANGED trailer
     \/ ~Available /\ ~flushing /\ Step("pull", "receive") /\ UNCHANGED trailer
     \/ ~Available /\ flushing /\ Step("pull", "flush") /\ UNCHANGED trailer
     \/ Fail("pull", "loop") /\ UNCHANGED trailer
  /\ UNCHANGED <<from_path, resources, streams, packets, held, frames, decoder,
                 filter, muxed, flushing>>

\* av_buffersink_get_frame: EAGAIN goes back to the decoder.  After the flush EOF
\* goes on to flush_encoder, which has nothing to do (pcm_s16be holds nothing
\* back), and to the trailer, whose outcome is not looked at.
PullFrame ==
  /\ \/ Available /\ Step("pull", "encode") /\ UNCHANGED trailer
     \/ ~Available /\ ~flushing /\ Step("pull", "receive") /\ UNCHANGED trailer
     \/ ~Available /\ flushing /\ Step("pull", "end") /\ trailer' = TRUE
     \/ Fail("pull", "loop") /\ UNCHANGED trailer
  /\ UNCHANGED <<from_path, resources, streams, packets, held, frames, decoder,
                 filter, muxed, flushing>>

\* encode_write_frame.  It looks the output stream up by the number of the INPUT
\* stream, though only audio streams have an output.
EncodeFrame ==
  /\ pc = "encode"
  /\ \/ Selected > NAudio /\ Step("encode", "undefined") /\ UNCHANGED <<filter, muxed>>
     \/ /\ Selected <= NAudio
        /\ \/ Step("encode", "pull") /\ muxed' = Append(muxed, Head(filter))
           \/ Fail("encode", "loop") /\ UNCHANGED muxed
        /\ filter' = Tail(filter)
  /\ UNCHANGED <<from_path, resources, streams, packets, held, frames, decoder,
                 flushing, trailer>>

FlushFilter ==
  /\ \/ Step("flush", "pull") /\ flushing' = TRUE
     \/ Fail("flush", "loop") /\ UNCHANGED flushing
  /\ UNCHANGED <<from_path, resources, streams, packets, held, frames, decoder,
                 filter, muxed, trailer>>

-----------------------------------------------------------------------------
(* end: *)

\* The pointers that the cleanup frees, in the order of its conditions.
FreedInFilter ==
  IF ptr["filter_ctx"] # "null" /\ ptr["filter_graph"] # "null" THEN InFilter ELSE {}

Freed == {"packet"} \cup InStream \cup FreedInFilter \cup Statics

\* A pointer is followed, or freed, that is neither live nor NULL where NULL is
\* allowed: stream_ctx and pb are followed unseen, filter_ctx before it is freed.
FollowsWild ==
  \/ ptr["stream_ctx"] # "live"
  \/ \E p \in Freed : ptr[p] = "wild"
  \/ ptr["ofmt_ctx"] = "live" /\ ptr["pb"] # "live"

\* Mutant: closes the input no matter who opened it.
ClosesInputAlways == TRUE

\* avformat_close_input, line 636.
ClosesInput == from_path

\* Mutant: the packet is only freed when all went well.
FreesUnlessFailed(o) ==
  \/ o \in Freed /\ ptr[o] = "live" /\ ~(failed /\ o = "packet")
  \/ o = "payload" /\ held
  \/ o = "ifmt_ctx" /\ ClosesInput /\ ifmt = "own"

Frees(o) ==
  \/ o \in Freed /\ ptr[o] = "live"
  \/ o = "payload" /\ held
  \/ o = "ifmt_ctx" /\ ClosesInput /\ ifmt = "own"

\* The AVIO handle is taken out of ofmt_ctx->pb; with ret < 0 it is dropped.
Returned == IF ~failed /\ ptr["ofmt_ctx"] = "live" THEN "handle" ELSE "NULL"

\* Mutant: the pointers are taken to be good for the next call.
LeftLive(p) == IF p \in Statics /\ ptr[p] # "null" THEN "live" ELSE "null"

\* av_free takes the static pointers by value, and leaves them pointing there.
Left(p) == IF p \in Statics /\ ptr[p] # "null" THEN "wild" ELSE "null"

\* Frees what hangs off the static pointers, and what they point to.
End ==
  /\ pc = "end"
  /\ \/ FollowsWild /\ pc' = "undefined" /\ UNCHANGED resources
     \/ /\ ~FollowsWild
        /\ pc' = "idle"
        /\ heap' = [o \in Objects |-> IF Frees(o) THEN heap[o] - 1 ELSE heap[o]]
        /\ caller_open' = (caller_open /\ ~(ClosesInput /\ ifmt = "caller"))
        /\ ifmt' = IF ClosesInput THEN "null" ELSE ifmt
        /\ result' = Returned
        /\ ptr' = [p \in Pointers |-> Left(p)]
        /\ UNCHANGED <<calls, history>>
  /\ UNCHANGED <<from_path, failed, pipeline>>

\* The caller is done with the handle (libav.c:331).
CallerCloses ==
  /\ pc = "idle" /\ result = "handle"
  /\ result' = "NULL"
  /\ heap' = [heap EXCEPT !["handle"] = @ - 1]
  /\ UNCHANGED <<pc, from_path, failed, ptr, ifmt, caller_open, calls, history, pipeline>>

-----------------------------------------------------------------------------
Open == OpenInput \/ OpenDecoders \/ OpenOutput \/ OpenFile \/ InitFilters \/ AllocPacket

Pump == ReadPacket \/ SendPacket \/ ReceiveFrame \/ PullFrame \/ EncodeFrame \/ FlushFilter

Next == (\E fp \in PathModes : Call(fp)) \/ Open \/ Pump \/ End \/ CallerCloses

Spec == Init /\ [][Next]_vars

\* The call is one thread running on; the input is finite.
FairSpec == Spec /\ WF_vars(Open \/ Pump \/ End)

-----------------------------------------------------------------------------
(* Properties *)

\* What reaches the muxer is what came out of the decoder, in order, with nothing
\* missing before the last frame muxed, whatever was held back on the way.
MuxedInOrder == muxed = [i \in 1 .. Len(muxed) |-> i]

\* "Extract out file handle, so the caller can read the transcoded data"
\* (transcode.c:640): whatever earlier calls did and however many streams the input
\* has, a handle that is returned stands for every frame that was decoded, those the
\* filter graph held back included, and for a trailer.  The one exception, for this
\* call alone: it had no packet to read into (line 555), and its handle, which is
\* returned, stands for a header.  Of a damaged file the frames are those decoded
\* before the packet that was refused (line 574) or not read (line 559): the handle
\* does not tell it from a file that ends there.
HandleIsComplete ==
  pc = "idle" /\ result = "handle" =>
    /\ trailer \/ unread
    /\ Len(muxed) = frames

\* "Only free them if they were allocated here!" (transcode.c:634): the caller's
\* AVFormatContext survives every call, and one opened from from_path does not.
InputOwnership == caller_open /\ (pc = "idle" => heap["ifmt_ctx"] = 0)

\* Once a call has its packet and its AVIOContext, the block after end: follows no
\* pointer that is uninitialised, NULL or left from an earlier call, however that
\* one ended.  What line 482 does, which looks up a missing stream, is not cleanup.
CleanupDefinedOnceSetUp ==
  pc = "undefined" =>
    ptr["packet"] # "live" \/ ptr["pb"] # "live" \/ Selected > NAudio

\* Between calls nothing that a call allocated is left, wherever it came to its end,
\* but for what these causes account for:
\*   - the payload of each packet of another stream, skipped at line 561, and no more;
\*   - of decoder contexts, encoder contexts and frames at most one for each audio
\*     stream beyond an input's first, overwritten by the next (lines 109-111, 238),
\*     and one for each call that failed before it had a packet (lines 88-106, 195-234);
\*   - at most one filter graph for each such call (line 424).
\* The AVIOContext (pb) is left by every call, and the handle by each that fails
\* after it was opened (line 651): nothing is claimed of these two.
NothingLeftBehind ==
  pc = "idle" =>
    /\ heap["payload"] = skipped
    /\ \A o \in InStream : heap[o] <= surplus + aborted
    /\ heap["filter_graph"] <= aborted
    /\ \A o \in Objects \ (InStream \cup {"payload", "filter_graph", "handle", "pb"}) :
         heap[o] = 0

\* Every call comes back, through whichever exit.
CallReturns == pc = "input" ~> pc \in {"idle", "undefined"}
=============================================================================
