------------------------- MODULE TargetFormatProofs -------------------------
(***************************************************************************)
(* For any streams, requests and threads: every request is honoured by     *)
(* itself, a SwrContext that was set up converts to the target, and who    *)
(* asks alone leaves FFmpeg's log level as it was.                         *)
(***************************************************************************)
EXTENDS TargetFormat, FiniteSetTheorems, TLAPS

\* What RequestHonoured says of the last request, said of a target.
Honours(o, r) ==
  /\ r.depth \in {8, 16, 24, 32, 64} => o.depth = r.depth
  /\ r.depth = 32 =>
       (Float(o.fmt.base) <=>
          Float(native.fmt.base) \/ (r.fmt # NONE /\ Float(r.fmt.base)))
  /\ r.depth = 0 => o.fmt.base = (IF r.fmt = NONE THEN native.fmt ELSE r.fmt).base
  /\ o.rate = IF r.rate = 0 THEN native.rate ELSE r.rate
  /\ o.channels = IF r.stereo THEN 2 ELSE native.channels

-----------------------------------------------------------------------------
(* What the operators return *)

LEMMA NativeType ==
  ASSUME native \in Natives
  PROVE  /\ native.fmt \in Formats /\ native.rate \in Nat \ {0}
         /\ native.channels \in Nat \ {0} /\ native.depth \in Nat
  BY NativeAssumption

LEMMA RequestType ==
  ASSUME NEW r \in Requests
  PROVE  /\ r.fmt \in Formats \cup {NONE} /\ r.depth \in 0 .. 255
         /\ r.rate \in Nat /\ r.stereo \in BOOLEAN
  BY RequestAssumption

LEMMA ForcedBaseType ==
  ASSUME NEW d, NEW asked, NEW own
  PROVE  ForcedBase(d, asked, own) \in Bases
  BY DEF ForcedBase, Bases

LEMMA TargetFmtType ==
  ASSUME native \in Natives, NEW r \in Requests
  PROVE  TargetFmt(r) \in Formats /\ ~TargetFmt(r).planar
  <1>1. CASE r.depth > 0
    BY <1>1, ForcedBaseType DEF TargetFmt, Formats
  <1>2. CASE ~(r.depth > 0) /\ r.fmt = NONE
    <2>1. TargetFmt(r) = [native.fmt EXCEPT !.planar = FALSE]
      BY <1>2 DEF TargetFmt, Packed
    <2> QED BY <2>1, NativeType DEF Formats
  <1>3. CASE ~(r.depth > 0) /\ r.fmt # NONE
    <2>1. TargetFmt(r) = [r.fmt EXCEPT !.planar = FALSE] /\ r.fmt \in Formats
      BY <1>3, RequestType DEF TargetFmt, Packed
    <2> QED BY <2>1 DEF Formats
  <1> QED BY <1>1, <1>2, <1>3

LEMMA SampleBitsType ==
  ASSUME NEW base, NEW known
  PROVE  SampleBits(base, known) \in {0, 8, 16, 24, 32, 64}
  BY DEF SampleBits

LEMMA TargetTypes ==
  ASSUME native \in Natives, NEW r \in Requests
  PROVE  Target(r) \in Targets
  <1>1. Target(r).depth \in Nat
    BY SampleBitsType DEF Target
  <1>2. Target(r).rate \in Nat /\ Target(r).channels \in Nat
    BY NativeType, RequestType DEF Target
  <1>3. Target(r).fmt \in Formats /\ Target(r).layout \in {"unset", "native", "downmix"}
    BY TargetFmtType DEF Target
  <1> QED BY <1>1, <1>2, <1>3 DEF Target, Targets

\* A target honours the request it was made from.
LEMMA TargetHonours ==
  ASSUME native \in Natives, NEW r \in Requests
  PROVE  Honours(Target(r), r)
  <1> DEFINE asked == IF r.fmt = NONE THEN NONE ELSE r.fmt.base
             own == native.fmt.base
  <1>1. r.depth \in Nat /\ r.rate \in Nat
    BY RequestType
  <1>2. ASSUME r.depth > 0
        PROVE  /\ Target(r).fmt.base = ForcedBase(r.depth, asked, own)
               /\ Target(r).depth = SampleBits(ForcedBase(r.depth, asked, own), r.depth)
    BY <1>2 DEF Target, TargetFmt
  <1>3. r.depth \in {8, 16, 24, 32, 64} => Target(r).depth = r.depth
    <2> HIDE DEF asked, own
    <2> QED BY <1>1, <1>2 DEF ForcedBase, SampleBits
  <1>4. ASSUME r.depth = 32
        PROVE  Float(Target(r).fmt.base) <=> Float(own) \/ (r.fmt # NONE /\ Float(r.fmt.base))
    <2>1. Float(Target(r).fmt.base) <=> {asked, own} \cap {"flt", "dbl"} # {}
      BY <1>2, <1>4 DEF ForcedBase, Float
    <2>2. {asked, own} \cap {"flt", "dbl"} # {} <=> Float(asked) \/ Float(own)
      BY DEF Float
    <2>3. Float(asked) <=> r.fmt # NONE /\ Float(r.fmt.base)
      BY RequestAssumption DEF Float, Bases
    <2> QED BY <2>1, <2>2, <2>3
  <1>5. ASSUME r.depth = 0
        PROVE  Target(r).fmt.base = (IF r.fmt = NONE THEN native.fmt ELSE r.fmt).base
    <2>1. Target(r).fmt = Packed(IF r.fmt = NONE THEN native.fmt ELSE r.fmt)
      BY <1>5 DEF Target, TargetFmt
    <2>2. (IF r.fmt = NONE THEN native.fmt ELSE r.fmt) \in Formats
      BY NativeType, RequestType
    <2> QED BY <2>1, <2>2 DEF Packed, Formats
  <1>6. Target(r).rate = IF r.rate = 0 THEN native.rate ELSE r.rate
    BY <1>1 DEF Target
  <1>7. Target(r).channels = IF r.stereo THEN 2 ELSE native.channels
    BY NativeType DEF Target, Downmixed
  <1> QED BY <1>3, <1>4, <1>5, <1>6, <1>7 DEF Honours

LEMMA DsdRateType ==
  ASSUME native \in Natives, depth \in Nat
  PROVE  DsdRate \in {64 * k : k \in 0 .. 1023}
  <1> DEFINE bits == (native.rate * depth) \div native.channels
             rate == IF native.dsd = "planar" THEN bits \div 2 ELSE bits
             base == IF rate % 48000 = 0 THEN 48000 ELSE 44100
             quotient == rate \div base
             times == uint16(quotient)
  <1>0. DsdRate = MultipleOf64(times)
    BY DEF DsdRate
  <1>1. native.rate * depth \in Nat /\ native.channels \in Nat \ {0}
    BY NativeType
  <1>2. bits \in Nat
    <2> DEFINE x == native.rate * depth
               y == native.channels
    <2> HIDE DEF x, y
    <2>1. x \in Nat /\ y \in Nat \ {0}
      BY <1>1 DEF x, y
    <2>2. x \div y \in Nat
      BY <2>1
    <2> QED BY <2>2 DEF x, y
  <1> HIDE DEF bits
  <1>3. rate \in Nat
    BY <1>2
  <1> HIDE DEF rate
  <1>4. base \in Nat \ {0}
    OBVIOUS
  <1> HIDE DEF base
  <1>5. quotient \in Nat
    BY <1>3, <1>4
  <1> HIDE DEF quotient
  <1>6. times \in 0 .. 65535
    BY <1>5 DEF uint16
  <1> HIDE DEF times
  <1>7. MultipleOf64(times) \in {64 * k : k \in 0 .. 1023}
    <2>1. CASE times % 64 = 0
      <3>1. times \div 64 \in 0 .. 1023 /\ times = 64 * (times \div 64)
        BY <1>6, <2>1
      <3> QED BY <2>1, <3>1 DEF MultipleOf64
    <2>2. CASE times % 64 # 0
      BY <2>2 DEF MultipleOf64
    <2> QED BY <2>1, <2>2
  <1> QED BY <1>0, <1>7

-----------------------------------------------------------------------------
(* The types *)

LEMMA TypeInit == Init => TypeOK
  <1> SUFFICES ASSUME Init PROVE TypeOK
    OBVIOUS
  <1>1. depth \in Nat
    BY NativeType DEF Init
  <1>2. Unset \in Targets
    BY DEF Unset, Targets, Formats, Bases
  <1>3. 0 \in {64 * k : k \in 0 .. 1023}
    OBVIOUS
  <1>4. overlap \in BOOLEAN
    BY DEF Init
  <1> QED BY <1>1, <1>2, <1>3, <1>4, RequestAssumption DEF Init, TypeOK

\* A SwrContext stays one when its options are set.
LEMMA OptsType ==
  ASSUME TypeOK, swr # NULL, NEW done \in 0 .. 3
  PROVE  SetupOpts(done) \in Config
  BY DEF TypeOK, SwrContexts, SetupOpts, Config, Targets

LEMMA SwrStepType ==
  ASSUME TypeOK,
         \/ \E name \in Dithers \cup {"unknown"}, engine \in Engines :
              set_dither_settings(name, engine)
         \/ setup_swr
  PROVE  swr' \in SwrContexts
  <1>1. swr \in SwrContexts
    BY DEF TypeOK, set_dither_settings, setup_swr
  <1>2. ASSUME NEW name \in Dithers \cup {"unknown"}, NEW engine \in Engines,
               set_dither_settings(name, engine)
        PROVE  swr' \in SwrContexts
    <2>1. PICK done \in 0 .. 3 :
            swr' = [swr EXCEPT
              !.opt.engine = IF done >= 1 THEN engine ELSE @,
              !.dither = IF done >= 2 THEN dither_by_name(name) ELSE @,
              !.opt.bits = IF done = 3 /\ engine = "swr" THEN override.depth ELSE @]
      BY <1>2 DEF set_dither_settings
    <2>2. dither_by_name(name) \in Dithers /\ override.depth \in Nat
      BY DitherAssumption DEF dither_by_name, TypeOK, Targets
    <2> QED BY <1>1, <2>1, <2>2 DEF SwrContexts, Config
  <1>3. ASSUME setup_swr PROVE swr' \in SwrContexts
    <2>1. \E done \in 0 .. 3 :
            swr' \in {[swr EXCEPT !.opt = SetupOpts(done)],
                     [swr EXCEPT !.opt = SetupOpts(done), !.active = NULL],
                     [swr EXCEPT !.opt = SetupOpts(done), !.active = SetupOpts(done)]}
      BY <1>3 DEF setup_swr
    <2>2. PICK done \in 0 .. 3 :
            swr' \in {[swr EXCEPT !.opt = SetupOpts(done)],
                     [swr EXCEPT !.opt = SetupOpts(done), !.active = NULL],
                     [swr EXCEPT !.opt = SetupOpts(done), !.active = SetupOpts(done)]}
      BY <2>1
    <2>3. swr # NULL
      BY <1>3 DEF setup_swr
    <2>4. SetupOpts(done) \in Config
      BY <2>3, OptsType
    <2> DEFINE new == SetupOpts(done)
    <2> HIDE DEF new
    <2>5. /\ [swr EXCEPT !.opt = new] \in SwrContexts
          /\ [swr EXCEPT !.opt = new, !.active = NULL] \in SwrContexts
          /\ [swr EXCEPT !.opt = new, !.active = new] \in SwrContexts
      BY <1>1, <2>4 DEF SwrContexts, new
    <2> QED BY <2>2, <2>5 DEF new
  <1> QED BY <1>2, <1>3

LEMMA AllocatedType == Allocated \in SwrContexts
  BY DEF Allocated, Fresh, Unset, SwrContexts, Config, Formats, Bases, Engines

LEMMA ContextCallType ==
  ASSUME TypeOK,
         \/ \E r \in Requests : change_target_format(r)
         \/ \E name \in Dithers \cup {"unknown"}, engine \in Engines :
              set_dither_settings(name, engine)
         \/ setup_swr
  PROVE  /\ override' \in Targets /\ swr' \in SwrContexts \cup {NULL}
         /\ request' \in Requests \cup {NONE} /\ since' \subseteq {"fix", "dither", "setup"}
  <1>1. ASSUME NEW r \in Requests, change_target_format(r)
        PROVE  /\ override' \in Targets /\ swr' \in SwrContexts \cup {NULL}
               /\ request' \in Requests /\ since' = {}
    BY <1>1, TargetTypes, AllocatedType DEF change_target_format, ChangeSwr, TypeOK
  <1>2. ASSUME \/ \E name \in Dithers \cup {"unknown"}, engine \in Engines :
                   set_dither_settings(name, engine)
               \/ setup_swr
        PROVE  /\ override' = override /\ request' = request /\ swr' \in SwrContexts
               /\ since' \subseteq since \cup {"dither", "setup"}
    BY <1>2, SwrStepType DEF set_dither_settings, setup_swr
  <1>3. override \in Targets /\ request \in Requests \cup {NONE}
        /\ since \subseteq {"fix", "dither", "setup"}
    BY DEF TypeOK
  <1>4. CASE \E r \in Requests : change_target_format(r)
    <2>1. /\ override' \in Targets /\ swr' \in SwrContexts \cup {NULL}
          /\ request' \in Requests /\ since' = {}
      BY <1>1, <1>4
    <2> QED BY <2>1
  <1>5. CASE \/ \E name \in Dithers \cup {"unknown"}, engine \in Engines :
                 set_dither_settings(name, engine)
             \/ setup_swr
    <2>1. /\ override' = override /\ request' = request /\ swr' \in SwrContexts
          /\ since' \subseteq since \cup {"dither", "setup"}
      BY <1>2, <1>5
    <2> QED BY <1>3, <2>1
  <1> QED BY <1>4, <1>5

\* A thread that asks changes the log level and the count of contexts alone.
LEMMA AskType ==
  ASSUME TypeOK, NEW t \in Threads, get_supported_resampler(t), contexts' \in Nat
  PROVE  TypeOK'
  <1>1. UNCHANGED <<stream, target>>
    BY DEF get_supported_resampler, Ask, Silence, Restore, Free
  <1>2. pc' \in [Threads -> {"idle", "asked", "silent", "free"}]
    BY DEF get_supported_resampler, Ask, Silence, Restore, Free, TypeOK
  <1>3. saved' \in [Threads -> {"info", "quiet"}] /\ level' \in {"info", "quiet"}
    BY DEF get_supported_resampler, Ask, Silence, Restore, Free, TypeOK
  <1>4. overlap' \in BOOLEAN
    BY DEF get_supported_resampler, Ask, Silence, Restore, Free, TypeOK
  <1>5. calls' \in 0 .. MaxCalls
    BY RequestAssumption DEF get_supported_resampler, Ask, Silence, Restore, Free, Call, TypeOK
  <1> QED BY <1>1, <1>2, <1>3, <1>4, <1>5 DEF TypeOK, stream, target

-----------------------------------------------------------------------------
(* The SwrContexts *)

Busy == {t \in Threads : pc[t] # "idle"}

LEMMA BusyFinite == IsFiniteSet(Busy) /\ IsFiniteSet(Busy')
  BY ThreadAssumption, FS_Subset DEF Busy

\* A step of an asking thread counts it in, or out, together with its context.
LEMMA AskCounts ==
  ASSUME TypeOK, OneContext, NEW t \in Threads, get_supported_resampler(t)
  PROVE  OneContext' /\ contexts' \in Nat
  <1> DEFINE own == IF swr = NULL THEN 0 ELSE 1
  <1>0. own \in 0 .. 1 /\ own' = own /\ contexts = own + Cardinality(Busy)
    BY DEF OneContext, Busy, get_supported_resampler, Ask, Silence, Restore, Free, target
  <1>1. Cardinality(Busy) \in Nat /\ Cardinality(Busy') \in Nat
    BY BusyFinite, FS_CardinalityType
  <1> HIDE DEF own
  <1>2. CASE Ask(t)
    <2>1. t \notin Busy /\ Busy' = Busy \cup {t}
      BY <1>2 DEF Ask, Busy, TypeOK
    <2>2. Cardinality(Busy') = Cardinality(Busy) + 1
      BY <2>1, BusyFinite, FS_AddElement
    <2>3. contexts' = own' + Cardinality(Busy')
      BY <1>0, <1>1, <1>2, <2>2 DEF Ask
    <2> QED BY <1>0, <1>1, <2>3 DEF own, OneContext, Busy
  <1>3. CASE Silence(t) \/ Restore(t)
    <2>1. Busy' = Busy /\ contexts' = contexts
      BY <1>3 DEF Silence, Restore, Busy, TypeOK
    <2>2. contexts' = own' + Cardinality(Busy')
      BY <1>0, <2>1
    <2> QED BY <1>0, <1>1, <2>2 DEF own, OneContext, Busy
  <1>4. CASE Free(t)
    <2>1. t \in Busy /\ Busy' = Busy \ {t}
      BY <1>4 DEF Free, Busy, TypeOK
    <2>2. Cardinality(Busy') = Cardinality(Busy) - 1
      BY <2>1, BusyFinite, FS_RemoveElement
    <2>3. contexts' = own' + Cardinality(Busy')
      BY <1>0, <1>1, <1>4, <2>2 DEF Free
    <2> QED BY <1>0, <1>1, <2>3 DEF own, OneContext, Busy
  <1> QED BY <1>2, <1>3, <1>4 DEF get_supported_resampler

LEMMA ContextCallCounts ==
  ASSUME TypeOK, OneContext, pc' = pc,
         \/ \E r \in Requests : change_target_format(r)
         \/ \E name \in Dithers \cup {"unknown"}, engine \in Engines :
              set_dither_settings(name, engine)
         \/ setup_swr
         \/ UNCHANGED <<swr, contexts>>
  PROVE  OneContext' /\ contexts' \in Nat
  <1>1. Busy' = Busy /\ Cardinality(Busy) \in Nat
    BY BusyFinite, FS_CardinalityType DEF Busy
  <1>2. contexts = (IF swr = NULL THEN 0 ELSE 1) + Cardinality(Busy)
    BY DEF OneContext, Busy
  <1>3. contexts' = (IF swr' = NULL THEN 0 ELSE 1) + Cardinality(Busy)
    <2>1. ASSUME NEW r \in Requests, change_target_format(r)
          PROVE  contexts' = (IF swr' = NULL THEN 0 ELSE 1) + Cardinality(Busy)
      <3>1. Allocated # NULL
        BY AllocatedType, NullAssumption
      <3> QED BY <1>1, <1>2, <2>1, <3>1 DEF change_target_format, ChangeSwr
    <2>2. ASSUME \/ \E name \in Dithers \cup {"unknown"}, engine \in Engines :
                     set_dither_settings(name, engine)
                 \/ setup_swr
          PROVE  contexts' = (IF swr' = NULL THEN 0 ELSE 1) + Cardinality(Busy)
      <3>1. swr # NULL /\ swr' # NULL /\ contexts' = contexts
        BY <2>2, SwrStepType, NullAssumption DEF set_dither_settings, setup_swr
      <3> QED BY <1>2, <3>1
    <2> QED BY <1>2, <2>1, <2>2
  <1> QED BY <1>1, <1>3 DEF OneContext, Busy

-----------------------------------------------------------------------------
(* The invariant of the context *)

\* The bits of the SwrContext are those of the target, from the call that sets the
\* dither on, and until the target changes.
DitherSet ==
  "dither" \in since /\ "fix" \notin since /\ swr.opt.engine = "swr" =>
    swr.opt.bits = override.depth

RequestMet ==
  /\ ~override.fmt.planar
  /\ request # NONE /\ "fix" \notin since => Honours(override, request)

ContextInv == RequestMet /\ DitherSet /\ SetupMeetsTarget

LEMMA ContextInvInit == Init => ContextInv
  BY DEF Init, ContextInv, RequestMet, DitherSet, SetupMeetsTarget, Unset

LEMMA ChangeKeeps ==
  ASSUME TypeOK, NEW r \in Requests, change_target_format(r)
  PROVE  ContextInv'
  <1>1. override' = Target(r) /\ request' = r /\ since' = {} /\ native' = native
    BY DEF change_target_format, stream
  <1>2. native \in Natives
    BY DEF TypeOK
  <1>3. ~override'.fmt.planar
    BY <1>1, <1>2, TargetFmtType DEF Target
  <1>4. Honours(override, request)'
    BY <1>1, <1>2, TargetHonours DEF Honours
  <1> QED BY <1>1, <1>3, <1>4 DEF ContextInv, RequestMet, DitherSet, SetupMeetsTarget

LEMMA FixKeeps ==
  ASSUME TypeOK, ContextInv, fix_depth
  PROVE  ContextInv'
  <1>1. "fix" \in since'
    BY DEF fix_depth
  <1>2. ~override'.fmt.planar
    BY DEF fix_depth, ContextInv, RequestMet, TypeOK, Targets
  <1> QED BY <1>1, <1>2 DEF ContextInv, RequestMet, DitherSet, SetupMeetsTarget

LEMMA DitherKeeps ==
  ASSUME TypeOK, ContextInv, NEW name, NEW engine \in Engines, set_dither_settings(name, engine)
  PROVE  ContextInv'
  <1>1. UNCHANGED <<native, override, request>> /\ swr \in SwrContexts
    BY DEF set_dither_settings, stream, TypeOK
  <1>2. PICK done \in 0 .. 3 :
          /\ swr' = [swr EXCEPT
               !.opt.engine = IF done >= 1 THEN engine ELSE @,
               !.dither = IF done >= 2 THEN dither_by_name(name) ELSE @,
               !.opt.bits = IF done = 3 /\ engine = "swr" THEN override.depth ELSE @]
          /\ since' = (since \ {"dither", "setup"}) \cup (IF done = 3 THEN {"dither"} ELSE {})
    BY DEF set_dither_settings
  <1>3. RequestMet' /\ SetupMeetsTarget'
    BY <1>1, <1>2 DEF ContextInv, RequestMet, Honours, SetupMeetsTarget
  <1>4. DitherSet'
    <2>1. "dither" \in since' => done = 3
      BY <1>2
    <2>2. done = 3 => swr'.opt.engine = engine
                      /\ (engine = "swr" => swr'.opt.bits = override.depth)
      <3> SUFFICES ASSUME done = 3
                   PROVE  /\ swr'.opt.engine = engine
                          /\ engine = "swr" => swr'.opt.bits = override.depth
        OBVIOUS
      <3>1. swr'.opt = [swr.opt EXCEPT !.engine = engine,
                          !.bits = IF engine = "swr" THEN override.depth ELSE @]
        BY <1>1, <1>2 DEF SwrContexts
      <3> QED BY <1>1, <3>1 DEF SwrContexts, Config
    <2> QED BY <1>1, <2>1, <2>2 DEF DitherSet
  <1> QED BY <1>3, <1>4 DEF ContextInv

LEMMA SetupKeeps ==
  ASSUME TypeOK, ContextInv, setup_swr
  PROVE  ContextInv'
  <1>1. UNCHANGED <<native, override, request>> /\ swr \in SwrContexts
    BY DEF setup_swr, stream, TypeOK
  <1>2. PICK done \in 0 .. 3 :
          /\ swr'.opt = SetupOpts(done)
          /\ \/ since' = since \ {"setup"}
             \/ since' = since \cup {"setup"} /\ done = 3 /\ swr'.active = SetupOpts(3)
    <2>1. CASE /\ \E done \in 0 .. 2 : swr' = [swr EXCEPT !.opt = SetupOpts(done)]
               /\ since' = since \ {"setup"}
      BY <1>1, <2>1 DEF SwrContexts
    <2>2. CASE /\ swr' = [swr EXCEPT !.opt = SetupOpts(3), !.active = NULL]
               /\ since' = since \ {"setup"}
      BY <1>1, <2>2 DEF SwrContexts
    <2>3. CASE /\ swr' = [swr EXCEPT !.opt = SetupOpts(3), !.active = SetupOpts(3)]
               /\ since' = since \cup {"setup"}
      BY <1>1, <2>3 DEF SwrContexts
    <2> QED BY <2>1, <2>2, <2>3 DEF setup_swr
  <1>3. \A d \in 0 .. 3 : /\ SetupOpts(d).engine = swr.opt.engine
                          /\ SetupOpts(d).bits = swr.opt.bits
    BY <1>1 DEF SetupOpts, SwrContexts, Config
  <1>4. /\ SetupOpts(3).layout = override.layout /\ SetupOpts(3).rate = override.rate
        /\ SetupOpts(3).fmt = override.fmt
    BY <1>1 DEF SetupOpts, SwrContexts, Config
  <1>5. RequestMet'
    BY <1>1, <1>2 DEF ContextInv, RequestMet, Honours
  <1>6. DitherSet'
    BY <1>1, <1>2, <1>3 DEF ContextInv, DitherSet
  <1>7. SetupMeetsTarget'
    BY <1>1, <1>2, <1>3, <1>4 DEF ContextInv, DitherSet, SetupMeetsTarget
  <1> QED BY <1>5, <1>6, <1>7 DEF ContextInv

-----------------------------------------------------------------------------
(* The log level *)

\* Who asks alone is the only one to have turned the level down.
LevelInv ==
  ~overlap =>
    /\ \A t, u \in Threads : Asking(t) /\ Asking(u) => t = u
    /\ \A t \in Threads : Asking(t) => saved[t] = "info"
    /\ (\A t \in Threads : pc[t] # "silent") => level = "info"

LEMMA LevelStep ==
  ASSUME TypeOK, LevelInv, NEW t \in Threads, get_supported_resampler(t)
  PROVE  LevelInv'
  <1>1. \A u \in Threads \ {t} : pc'[u] = pc[u] /\ saved'[u] = saved[u]
    BY DEF get_supported_resampler, Ask, Silence, Restore, Free, TypeOK
  <1>2. CASE Ask(t)
    <2>1. pc[t] = "idle" /\ level' = level
          /\ \/ pc'[t] = "free" /\ overlap' = overlap
             \/ /\ pc'[t] = "asked" /\ saved'[t] = level
                /\ overlap' = (overlap \/ \E u \in Threads : Asking(u))
      BY <1>2 DEF Ask, TypeOK
    <2> QED BY <1>1, <2>1 DEF LevelInv, Asking
  <1>3. CASE Silence(t)
    <2>1. pc[t] = "asked" /\ pc'[t] = "silent" /\ saved' = saved /\ overlap' = overlap
      BY <1>3 DEF Silence, TypeOK
    <2> QED BY <1>1, <2>1 DEF LevelInv, Asking
  <1>4. CASE Restore(t)
    <2>1. /\ pc[t] = "silent" /\ pc'[t] = "free" /\ saved' = saved /\ overlap' = overlap
          /\ level' = saved[t]
      BY <1>4 DEF Restore, TypeOK
    <2> QED BY <1>1, <2>1 DEF LevelInv, Asking
  <1>5. CASE Free(t)
    <2>1. /\ pc[t] = "free" /\ pc'[t] = "idle"
          /\ saved' = saved /\ overlap' = overlap /\ level' = level
      BY <1>5 DEF Free, TypeOK
    <2> QED BY <1>1, <2>1 DEF LevelInv, Asking
  <1> QED BY <1>2, <1>3, <1>4, <1>5 DEF get_supported_resampler

-----------------------------------------------------------------------------
(* All of it *)

IInv == TypeOK /\ OneContext /\ ContextInv /\ LevelInv

LEMMA InitIInv == Init => IInv
  <1> SUFFICES ASSUME Init PROVE IInv
    OBVIOUS
  <1>1. OneContext
    <2>1. Busy = {}
      BY DEF Init, Busy
    <2> QED BY <2>1, FS_EmptySet DEF Init, OneContext, Busy
  <1>2. LevelInv
    BY DEF Init, LevelInv, Asking
  <1> QED BY <1>1, <1>2, TypeInit, ContextInvInit DEF IInv

LEMMA IInvStep == IInv /\ [Next]_vars => IInv'
  <1> SUFFICES ASSUME IInv, [Next]_vars PROVE IInv'
    OBVIOUS
  <1> USE DEF IInv
  <1>1. ASSUME NEW t \in Threads, get_supported_resampler(t) PROVE IInv'
    <2>1. OneContext' /\ contexts' \in Nat
      BY <1>1, AskCounts
    <2>2. TypeOK' /\ LevelInv'
      BY <1>1, <2>1, AskType, LevelStep
    <2>3. UNCHANGED <<stream, target>>
      BY <1>1 DEF get_supported_resampler, Ask, Silence, Restore, Free
    <2>4. ContextInv'
      BY <2>3 DEF stream, target, ContextInv, RequestMet, Honours, DitherSet, SetupMeetsTarget
    <2> QED BY <2>1, <2>2, <2>4
  <1>2. ASSUME UNCHANGED asking,
               \/ \E r \in Requests : change_target_format(r)
               \/ \E name \in Dithers \cup {"unknown"}, engine \in Engines :
                    set_dither_settings(name, engine)
               \/ setup_swr
        PROVE  IInv'
    <2>1. UNCHANGED stream /\ calls' \in 0 .. MaxCalls
      <3>1. UNCHANGED stream /\ Call
        BY <1>2, Zenon DEF change_target_format, set_dither_settings, setup_swr
      <3> QED BY <3>1, RequestAssumption DEF Call, TypeOK
    <2>2. OneContext' /\ contexts' \in Nat
      BY <1>2, ContextCallCounts DEF asking
    <2>3. TypeOK'
      BY <1>2, <2>1, <2>2, ContextCallType DEF TypeOK, stream, asking
    <2>4. ContextInv'
      BY <1>2, ChangeKeeps, DitherKeeps, SetupKeeps
    <2>5. LevelInv'
      BY <1>2 DEF asking, LevelInv, Asking
    <2> QED BY <2>2, <2>3, <2>4, <2>5
  <1>3. ASSUME detect_dsd \/ fix_depth PROVE IInv'
    <2>1. UNCHANGED <<native, swr, request, asking, contexts>> /\ calls' \in 0 .. MaxCalls
      BY <1>3, RequestAssumption DEF detect_dsd, fix_depth, Call, TypeOK, target
    <2>2. dsd' \in {64 * k : k \in 0 .. 1023}
      <3>1. 0 \in {64 * k : k \in 0 .. 1023}
        OBVIOUS
      <3> QED BY <1>3, <3>1, DsdRateType DEF detect_dsd, fix_depth, TypeOK
    <2>3. depth' \in Nat /\ override' \in Targets /\ since' \subseteq {"fix", "dither", "setup"}
      <3>1. CASE detect_dsd
        BY <3>1 DEF detect_dsd, target, TypeOK
      <3>2. CASE fix_depth
        <4>1. SampleBits(native.fmt.base, 0) \in Nat
          BY SampleBitsType
        <4>2. depth' \in Nat /\ since' \subseteq {"fix", "dither", "setup"}
          BY <3>2, <4>1 DEF fix_depth, TypeOK
        <4>3. override' \in {override, [override EXCEPT !.fmt = [base |-> "s32", planar |-> FALSE]]}
          BY <3>2 DEF fix_depth
        <4>4. [base |-> "s32", planar |-> FALSE] \in Formats
          BY DEF Formats, Bases
        <4>5. override \in Targets
          BY DEF TypeOK
        <4>6. [override EXCEPT !.fmt = [base |-> "s32", planar |-> FALSE]] \in Targets
          BY <4>4, <4>5 DEF Targets
        <4> QED BY <4>2, <4>3, <4>5, <4>6
      <3> QED BY <1>3, <3>1, <3>2
    <2>4. OneContext' /\ contexts' \in Nat
      BY <2>1, ContextCallCounts DEF asking
    <2>5. TypeOK'
      BY <2>1, <2>2, <2>3, <2>4 DEF TypeOK, asking
    <2>6. ContextInv'
      <3>1. CASE detect_dsd
        BY <3>1 DEF detect_dsd, target, ContextInv, RequestMet, Honours, DitherSet, SetupMeetsTarget
      <3> QED BY <1>3, <3>1, FixKeeps
    <2>7. LevelInv'
      BY <2>1 DEF asking, LevelInv, Asking
    <2> QED BY <2>4, <2>5, <2>6, <2>7
  <1>4. CASE UNCHANGED vars
    <2>1. TypeOK'
      BY <1>4 DEF vars, stream, target, asking, TypeOK
    <2>2. OneContext' /\ ContextInv' /\ LevelInv'
      BY <1>4 DEF vars, stream, target, asking, OneContext, ContextInv, RequestMet, Honours,
                  DitherSet, SetupMeetsTarget, LevelInv, Asking
    <2> QED BY <2>1, <2>2
  <1> QED
    BY <1>1, <1>2, <1>3, <1>4
    DEF Next, change_target_format, set_dither_settings, setup_swr

\* Every reachable state has its type: a target is one of a stream and a request, and
\* a DSD rate a multiple of 64.
THEOREM TypeCorrect == Spec => []TypeOK
  BY InitIInv, IInvStep, PTL DEF Spec, IInv

\* Each request is honoured by itself, whatever was requested before.
THEOREM RequestsAreHonoured == Spec => []RequestHonoured
  <1>1. IInv => RequestHonoured
    BY DEF IInv, ContextInv, RequestMet, Honours, RequestHonoured
  <1> QED BY <1>1, InitIInv, IInvStep, PTL DEF Spec

\* A SwrContext that has been set up converts to the target of now.
THEOREM SetupIsCurrent == Spec => []SetupMeetsTarget
  BY InitIInv, IInvStep, PTL DEF Spec, IInv, ContextInv

\* No SwrContext is lost, and none is freed twice.
THEOREM ContextsAccounted == Spec => []OneContext
  BY InitIInv, IInvStep, PTL DEF Spec, IInv

\* A thread that asks alone leaves the log level as it found it.
THEOREM LoneAskerRestores == Spec => []LevelRestored
  <1>1. IInv => LevelRestored
    BY DEF IInv, LevelInv, LevelRestored
  <1> QED BY <1>1, InitIInv, IInvStep, PTL DEF Spec
=============================================================================
