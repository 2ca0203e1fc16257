---------------------------- MODULE TargetFormat ----------------------------
(***************************************************************************)
(* The target format of a decoder_context: detect_dsd, fix_depth and       *)
(* change_target_format (native/libav.c), and set_dither_settings,         *)
(* setup_swr and get_supported_resampler (native/resampler.c), called by a *)
(* program in any order.  One thread works on the context; any thread may  *)
(* ask whether a resampler is supported, for which the log level that all  *)
(* threads share is turned down for a moment.                              *)
(*                                                                         *)
(* A call on a context that is not one (context_ok) returns at once or is  *)
(* an assertion that fails, and one of the resampler's on a context        *)
(* without a SwrContext returns at once; they are not steps.               *)
(***************************************************************************)
EXTENDS Integers, FiniteSets

CONSTANTS
  Natives,   \* what the decoder delivers: [fmt, rate, channels, depth, codec, dsd]
  Requests,  \* arguments of change_target_format: [fmt, depth, rate, stereo]
  Dithers,   \* names of dithering methods
  Threads,   \* threads that ask for a resampler
  NONE,      \* no format, codec, request or dither
  NULL,      \* the null pointer
  MaxCalls   \* bound: calls on the context, and of get_supported_resampler

Bases == {"u8", "s16", "s32", "s64", "flt", "dbl"}
Formats == [base : Bases, planar : BOOLEAN]
Engines == {"swr", "soxr"}

ASSUME NativeAssumption ==
  Natives \subseteq [fmt : Formats, rate : Nat \ {0}, channels : Nat \ {0}, depth : Nat,
                     codec : {NONE, "pcm_s24", "other"},
                     dsd : {NONE, "packed", "planar"}]

ASSUME ThreadAssumption == IsFiniteSet(Threads)

ASSUME RequestAssumption ==
  /\ NONE \notin Bases
  /\ Requests \subseteq [fmt : Formats \cup {NONE}, depth : 0 .. 255, rate : Nat,
                         stereo : BOOLEAN]
  /\ MaxCalls \in Nat

VARIABLES
  native,    \* the fields of the context the decoder sets, but for
  depth,     \* the depth, which fix_depth corrects, and
  dsd,       \* the DSD rate
  override,  \* the override_ fields
  swr,       \* the SwrContext, or NULL
  request,   \* what the last change_target_format was asked for
  since,     \* which calls have changed the context since
  pc, saved, \* where each asking thread is, and the log level it found
  level,     \* FFmpeg's log level
  overlap,   \* two threads have asked at the same time
  contexts,  \* SwrContexts that exist
  calls      \* calls so far

stream == <<native, depth, dsd>>
target == <<override, swr, request, since>>
asking == <<pc, saved, level, overlap>>
vars == <<stream, target, asking, contexts, calls>>

Unset == [layout |-> "unset", channels |-> 0, rate |-> 0, depth |-> 0,
          fmt |-> [base |-> "u8", planar |-> FALSE]]

Targets == [layout : {"unset", "native", "downmix"}, channels : Nat, rate : Nat,
            depth : Nat, fmt : Formats]

\* What a SwrContext converts to; 0 bits are those of the format.
Config == [layout : {"unset", "native", "downmix"}, rate : Nat, fmt : Formats,
           engine : Engines, bits : Nat]

SwrContexts == [opt : Config, dither : Dithers \cup {NONE}, active : Config \cup {NULL}]

ASSUME NullAssumption == NULL \notin SwrContexts

\* The options a SwrContext starts with.
Fresh == [layout |-> "unset", rate |-> 0, fmt |-> Unset.fmt, engine |-> "swr", bits |-> 0]

TypeOK ==
  /\ native \in Natives /\ depth \in Nat
  /\ dsd \in {64 * k : k \in 0 .. 1023}
  /\ override \in Targets
  /\ swr \in SwrContexts \cup {NULL}
  /\ request \in Requests \cup {NONE}
  /\ since \subseteq {"fix", "dither", "setup"}
  /\ pc \in [Threads -> {"idle", "asked", "silent", "free"}]
  /\ level \in {"info", "quiet"} /\ saved \in [Threads -> {"info", "quiet"}]
  /\ overlap \in BOOLEAN
  /\ contexts \in Nat /\ calls \in 0 .. MaxCalls

Init ==
  /\ native \in Natives
  /\ depth = native.depth
  /\ dsd = 0
  /\ override = Unset
  /\ swr = NULL
  /\ request = NONE
  /\ since = {}
  /\ pc = [t \in Threads |-> "idle"]
  /\ level = "info" /\ saved = [t \in Threads |-> "info"]
  /\ overlap = FALSE
  /\ contexts = 0 /\ calls = 0

Call == calls < MaxCalls /\ calls' = calls + 1

-----------------------------------------------------------------------------
(* libav.c *)

\* Mutant: any rate is a DSD rate.
MultipleOf64Any(r) == r

MultipleOf64(r) == IF r % 64 = 0 THEN r ELSE 0

\* What uint16_t keeps.
uint16(n) == n % 65536

\* One bit per sample and channel, as a multiple of 44100 or 48000.  The rate of all
\* channels fits 32 bits.
DsdRate ==
  LET bits == (native.rate * depth) \div native.channels
      rate == IF native.dsd = "planar" THEN bits \div 2 ELSE bits
  IN MultipleOf64(uint16(rate \div (IF rate % 48000 = 0 THEN 48000 ELSE 44100)))

detect_dsd ==
  /\ Call
  /\ dsd' = IF native.dsd = NONE THEN 0 ELSE DsdRate
  /\ UNCHANGED <<native, depth, target, asking, contexts>>

\* sample_bits_by_format (util.h): 32 bits may be 24.  It does not know s64.
SampleBits(base, known) ==
  CASE base = "u8" -> 8
    [] base = "s16" -> 16
    [] base = "s32" -> IF known = 24 THEN 24 ELSE 32
    [] base = "flt" -> 32
    [] base = "dbl" -> 64
    [] OTHER -> 0

\* Without a codec it returns at once.  For 24-bit PCM it sets the TARGET format.
fix_depth ==
  /\ Call
  /\ native.codec # NONE
  /\ \/ /\ native.codec = "pcm_s24"
        /\ depth' = 24
        /\ override' = [override EXCEPT !.fmt = [base |-> "s32", planar |-> FALSE]]
     \/ /\ native.codec # "pcm_s24"
        /\ depth' = IF depth = 0 THEN SampleBits(native.fmt.base, 0) ELSE depth
        /\ UNCHANGED override
  /\ since' = since \cup {"fix"}
  /\ UNCHANGED <<native, dsd, swr, request, asking, contexts>>

\* av_get_alt_sample_fmt(fmt, false).
Packed(fmt) == [fmt EXCEPT !.planar = FALSE]

\* Mutant: the switch falls through from 24 to 16.
ForcedBase24(d, asked, own) ==
  CASE d = 64 -> "dbl"
    [] d = 32 -> IF {asked, own} \cap {"flt", "dbl"} # {} THEN "flt" ELSE "s32"
    [] d = 8 -> "u8"
    [] OTHER -> "s16"

\* A forced depth decides the format: floating point stays floating point at 32
\* bits, and a depth that there is no format for becomes 16 bits.
ForcedBase(d, asked, own) ==
  CASE d = 64 -> "dbl"
    [] d = 32 -> IF {asked, own} \cap {"flt", "dbl"} # {} THEN "flt" ELSE "s32"
    [] d = 24 -> "s32"
    [] d = 8 -> "u8"
    [] OTHER -> "s16"

TargetFmt(r) ==
  IF r.depth > 0
  THEN [base |-> ForcedBase(r.depth, IF r.fmt = NONE THEN NONE ELSE r.fmt.base,
                            native.fmt.base),
        planar |-> FALSE]
  ELSE Packed(IF r.fmt = NONE THEN native.fmt ELSE r.fmt)

Downmixed(r) == r.stereo /\ native.channels # 2

\* The override_ fields, set anew from the stream and the request.
Target(r) ==
  [layout |-> IF Downmixed(r) THEN "downmix" ELSE "native",
   channels |-> IF Downmixed(r) THEN 2 ELSE native.channels,
   rate |-> IF r.rate > 0 THEN r.rate ELSE native.rate,
   fmt |-> TargetFmt(r),
   depth |-> SampleBits(TargetFmt(r).base, IF r.depth > 0 THEN r.depth ELSE depth)]

\* Line 204: av_channel_layout_compare is 0 where the layouts are EQUAL.
Differs(o) ==
  \/ o.layout = "native"
  \/ o.channels # native.channels
  \/ o.depth # depth
  \/ o.fmt # native.fmt
  \/ o.rate # native.rate

Allocated == [opt |-> Fresh, dither |-> NONE, active |-> NULL]

\* Mutant: a context that is there already is replaced.
ChangeSwrAnew(o) ==
  /\ swr' = Allocated
  /\ contexts' = contexts + 1

\* The SwrContext for a target: there was one, one is allocated, or there is no
\* memory for it and the call fails, with the target changed.
ChangeSwr(o) ==
  IF Differs(o)
  THEN \/ swr # NULL /\ UNCHANGED <<swr, contexts>>
       \/ swr = NULL /\ swr' = Allocated /\ contexts' = contexts + 1
       \/ swr = NULL /\ UNCHANGED <<swr, contexts>>
  ELSE /\ swr' = NULL
       /\ contexts' = IF swr = NULL THEN contexts ELSE contexts - 1

change_target_format(r) ==
  /\ Call
  /\ override' = Target(r)
  /\ ChangeSwr(Target(r))
  /\ request' = r
  /\ since' = {}
  /\ UNCHANGED <<stream, asking>>

-----------------------------------------------------------------------------
(* resampler.c *)

DITHER_DEFAULT == "high_shibata"

ASSUME DitherAssumption == DITHER_DEFAULT \in Dithers

dither_by_name(name) == IF name \in Dithers THEN name ELSE DITHER_DEFAULT

\* The options are set one after the other, until one is refused.  The bits are
\* for swr alone: SoX keeps those that were set before.
set_dither_settings(name, engine) ==
  /\ Call
  /\ swr # NULL
  /\ \E done \in 0 .. 3 :
       /\ swr' = [swr EXCEPT
            !.opt.engine = IF done >= 1 THEN engine ELSE @,
            !.dither = IF done >= 2 THEN dither_by_name(name) ELSE @,
            !.opt.bits = IF done = 3 /\ engine = "swr" THEN override.depth ELSE @]
       /\ since' = (since \ {"dither", "setup"}) \cup (IF done = 3 THEN {"dither"} ELSE {})
  /\ UNCHANGED <<stream, override, request, asking, contexts>>

\* Mutant: the rate is left as it was when the context was set up first.
SetupOptsOnce(done) ==
  [swr.opt EXCEPT
     !.layout = IF done >= 1 THEN override.layout ELSE @,
     !.rate = IF done >= 2 /\ swr.active = NULL THEN override.rate ELSE @,
     !.fmt = IF done = 3 THEN override.fmt ELSE @]

SetupOpts(done) ==
  [swr.opt EXCEPT
     !.layout = IF done >= 1 THEN override.layout ELSE @,
     !.rate = IF done >= 2 THEN override.rate ELSE @,
     !.fmt = IF done = 3 THEN override.fmt ELSE @]

\* Again option by option; with all of them swr_init takes them over, or closes the
\* context.  The arguments for dither and resampler are not used.  A build with
\* traces stops at a breakpoint where this one returns -1.
setup_swr ==
  /\ Call
  /\ swr # NULL
  /\ \/ /\ \E done \in 0 .. 2 : swr' = [swr EXCEPT !.opt = SetupOpts(done)]
        /\ since' = since \ {"setup"}
     \/ /\ swr' = [swr EXCEPT !.opt = SetupOpts(3), !.active = NULL]
        /\ since' = since \ {"setup"}
     \/ /\ swr' = [swr EXCEPT !.opt = SetupOpts(3), !.active = SetupOpts(3)]
        /\ since' = since \cup {"setup"}
  /\ UNCHANGED <<stream, override, request, asking, contexts>>

-----------------------------------------------------------------------------
(* get_supported_resampler *)

Asking(t) == pc[t] \in {"asked", "silent"}

\* A context to try the engine with, and the log level.  An engine that is not
\* known goes to the end with it; one that is NULL, and a context that cannot be
\* allocated, answer at once.
Ask(t) ==
  /\ Call
  /\ pc[t] = "idle"
  /\ contexts' = contexts + 1
  /\ \/ pc' = [pc EXCEPT ![t] = "free"] /\ UNCHANGED <<saved, overlap>>
     \/ /\ pc' = [pc EXCEPT ![t] = "asked"]
        /\ saved' = [saved EXCEPT ![t] = level]
        /\ overlap' = (overlap \/ \E u \in Threads : Asking(u))
  /\ UNCHANGED <<stream, target, level>>

Silence(t) ==
  /\ pc[t] = "asked"
  /\ pc' = [pc EXCEPT ![t] = "silent"]
  /\ level' = "quiet"
  /\ UNCHANGED <<stream, target, saved, overlap, contexts, calls>>

\* Mutant: leaves by `goto end' before the level is set back.
RestoreIfSupported(t) ==
  /\ pc[t] = "silent"
  /\ pc' = [pc EXCEPT ![t] = "free"]
  /\ level' \in {level, saved[t]}
  /\ UNCHANGED <<stream, target, saved, overlap, contexts, calls>>

\* Whether swr_init succeeded or not.
Restore(t) ==
  /\ pc[t] = "silent"
  /\ pc' = [pc EXCEPT ![t] = "free"]
  /\ level' = saved[t]
  /\ UNCHANGED <<stream, target, saved, overlap, contexts, calls>>

Free(t) ==
  /\ pc[t] = "free"
  /\ pc' = [pc EXCEPT ![t] = "idle"]
  /\ contexts' = contexts - 1
  /\ UNCHANGED <<stream, target, saved, level, overlap, calls>>

get_supported_resampler(t) == Ask(t) \/ Silence(t) \/ Restore(t) \/ Free(t)

-----------------------------------------------------------------------------
Next ==
  \/ detect_dsd
  \/ fix_depth
  \/ \E r \in Requests : change_target_format(r)
  \/ \E name \in Dithers \cup {"unknown"}, engine \in Engines :
       set_dither_settings(name, engine)
  \/ setup_swr
  \/ \E t \in Threads : get_supported_resampler(t)

Spec == Init /\ [][Next]_vars

-----------------------------------------------------------------------------
(* Properties *)

Float(base) == base \in {"flt", "dbl"}

\* "force a sample depth (0 to keep existing)", and the like (libav.c:108-113): each
\* request is honoured by itself, whatever was requested of the context before, and
\* 32 bits are floating point exactly if the stream or the request was (line 150).
\* A fix_depth that follows is not in the bargain, except that no target is planar:
\* "planar audio will always be changed no packed" (line 109).
RequestHonoured ==
  /\ ~override.fmt.planar
  /\ request # NONE /\ "fix" \notin since =>
       /\ request.depth \in {8, 16, 24, 32, 64} => override.depth = request.depth
       /\ request.depth = 32 =>
            (Float(override.fmt.base) <=>
               Float(native.fmt.base) \/ (request.fmt # NONE /\ Float(request.fmt.base)))
       /\ request.depth = 0 =>
            override.fmt.base = (IF request.fmt = NONE THEN native.fmt ELSE request.fmt).base
       /\ override.rate = IF request.rate = 0 THEN native.rate ELSE request.rate
       /\ override.channels = IF request.stereo THEN 2 ELSE native.channels

\* After setup_swr has succeeded the SwrContext converts to the target, though it
\* has been used for others before, and to as many bits as the target has, if the
\* dither was set for that target before.
SetupMeetsTarget ==
  "setup" \in since /\ "fix" \notin since =>
    /\ swr.active.layout = override.layout
    /\ swr.active.rate = override.rate
    /\ swr.active.fmt = override.fmt
    /\ "dither" \in since /\ swr.active.engine = "swr" => swr.active.bits = override.depth

\* There is the context's SwrContext, and one for each thread that is asking for a
\* resampler: none is lost when a target changes again or an engine is refused.
OneContext ==
  contexts = (IF swr = NULL THEN 0 ELSE 1)
             + Cardinality({t \in Threads : pc[t] # "idle"})

\* A thread that asks on its own leaves FFmpeg as talkative as it found it.  Two
\* that overlap may not: the second saves the quiet of the first.
LevelRestored ==
  ~overlap /\ (\A t \in Threads : pc[t] # "silent") => level = "info"
=============================================================================
