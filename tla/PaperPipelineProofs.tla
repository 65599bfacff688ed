------------------------ MODULE PaperPipelineProofs ------------------------
(***************************************************************************)
(* Proofs about the paper pipeline and the configuration watcher beside    *)
(* it, for every input, number of lines and edits, configuration, limits   *)
(* and command line.                                                       *)
(***************************************************************************)
EXTENDS PaperPipeline, Sums, SequenceTheorems

-----------------------------------------------------------------------------
(* The watcher.                                                            *)

CrNext == Loading \/ Watch \/ \E c \in Contents : Edit(c)

\* A valid file that was read is an older version than the file's, or the file.
Read(file) ==
  /\ file.version <= disk.version
  /\ file.version = disk.version => file = disk

\* What is in force was on disk once, or nothing is in force yet.
ReadInv ==
  /\ Read(conf)
  /\ watcher.pc \in {"start", "loaded"} => conf = NoConf
  /\ watcher.pc = "loaded" => /\ Read(watcher.file) /\ watcher.file.version > 0
                              /\ watcher.file.content \in Limits

ForwardStep ==
  conf' # conf => /\ conf'.version > conf.version
                  /\ conf'.version <= disk.version
                  /\ conf'.content \in Limits

LEMMA ContentsType == DefaultLimit \in Limits /\ Limits \subseteq Nat \ {0} /\ Invalid = 0
  BY LimitsAssumption DEF Invalid

LEMMA CrInitTypes == CrInit => CrTypeOK /\ ReadInv
  <1> SUFFICES ASSUME CrInit PROVE CrTypeOK /\ ReadInv
    OBVIOUS
  <1>1. /\ disk \in [version : {1}, content : Contents] /\ conf = NoConf /\ lastMtime = 0
        /\ watcher = At("start", NoConf) /\ missed = FALSE
    BY DEF CrInit
  <1>2. NoConf \in [version : Nat, content : Contents] /\ NoConf.version = 0
    BY DEF NoConf, Contents
  <1>3. disk \in [version : Nat \ {0}, content : Contents] /\ disk.version = 1
    BY <1>1
  <1>4. /\ watcher \in [pc : {"start", "loaded", "watching", "settling", "failed"},
                        file : [version : Nat, content : Contents]]
        /\ watcher.pc = "start"
    BY <1>1, <1>2 DEF At
  <1>5. lastMtime \in Nat /\ missed \in BOOLEAN /\ conf \in [version : Nat, content : Contents]
    BY <1>1, <1>2
  <1>6. CrTypeOK
    BY <1>3, <1>4, <1>5 DEF CrTypeOK
  <1>7. Read(conf)
    BY <1>1, <1>2, <1>3 DEF Read
  <1> QED BY <1>1, <1>4, <1>6, <1>7 DEF ReadInv

LEMMA CrStep ==
  ASSUME CrTypeOK, ReadInv, CrNext
  PROVE  CrTypeOK' /\ ReadInv' /\ ForwardStep
  <1> DEFINE Files == [version : Nat, content : Contents]
  <1>0. /\ disk \in Files /\ disk.version \in Nat \ {0} /\ disk.content \in Contents
        /\ conf \in Files /\ conf.version \in Nat /\ lastMtime \in Nat /\ missed \in BOOLEAN
        /\ watcher.file \in Files /\ watcher.file.version \in Nat
        /\ watcher.pc \in {"start", "loaded", "watching", "settling", "failed"}
        /\ disk \in [version : Nat \ {0}, content : Contents]
        /\ watcher \in [pc : {"start", "loaded", "watching", "settling", "failed"},
                        file : Files]
    BY DEF CrTypeOK
  <1>n. NoConf \in Files /\ NoConf.version = 0
    BY DEF NoConf, Contents
  <1>a. ASSUME NEW p \in {"start", "loaded", "watching", "settling", "failed"},
               NEW file \in Files
        PROVE  /\ At(p, file) \in [pc : {"start", "loaded", "watching", "settling", "failed"},
                                   file : Files]
               /\ At(p, file).pc = p /\ At(p, file).file = file
    BY DEF At
  <1> HIDE DEF Files
  <1>1. ASSUME NEW c \in Contents, Edit(c) PROVE CrTypeOK' /\ ReadInv' /\ ForwardStep
    <2>1. /\ disk' = [version |-> disk.version + 1, content |-> c] /\ missed' = FALSE
          /\ UNCHANGED <<conf, lastMtime, watcher>>
      BY <1>1 DEF Edit
    <2>2. disk'.version = disk.version + 1 /\ disk' \in [version : Nat \ {0}, content : Contents]
      BY <1>0, <2>1
    <2>3. CrTypeOK'
      BY <1>0, <2>1, <2>2 DEF CrTypeOK, Files
    <2>4. ASSUME NEW file, file.version \in Nat, Read(file)
          PROVE  file.version <= disk'.version /\ file.version # disk'.version
      BY <1>0, <2>2, <2>4 DEF Read
    <2>5. Read(conf)'
      BY <1>0, <2>1, <2>4 DEF ReadInv, Read
    <2>6. watcher.pc = "loaded" => Read(watcher.file)'
      BY <1>0, <2>1, <2>4 DEF ReadInv, Read
    <2> QED BY <2>1, <2>3, <2>5, <2>6 DEF ReadInv, ForwardStep
  <1>2. CASE ReadInitial
    <2>1. /\ watcher.pc = "start"
          /\ watcher' = At(IF disk.content = Invalid THEN "watching" ELSE "loaded", disk)
          /\ UNCHANGED <<disk, conf, lastMtime, missed>>
      BY <1>2 DEF ReadInitial
    <2>2. /\ watcher'.file = disk
          /\ watcher'.pc = IF disk.content = Invalid THEN "watching" ELSE "loaded"
          /\ watcher' \in [pc : {"start", "loaded", "watching", "settling", "failed"},
                           file : Files]
      BY <1>0, <1>a, <2>1
    <2>3. CrTypeOK'
      BY <1>0, <2>1, <2>2 DEF CrTypeOK, Files
    <2>4. Read(disk)
      BY <1>0 DEF Read
    <2>5. watcher'.pc = "loaded" => disk.content \in Limits
      BY <1>0, <2>2 DEF Contents
    <2>6. Read(conf)' /\ (watcher'.pc = "loaded" => Read(watcher.file)')
      BY <2>1, <2>2, <2>4 DEF ReadInv, Read
    <2>7. conf' = conf /\ conf = NoConf
      BY <2>1 DEF ReadInv
    <2> QED BY <1>0, <2>2, <2>3, <2>5, <2>6, <2>7 DEF ReadInv, ForwardStep
  <1>3. CASE StatInitial
    <2>1. /\ watcher.pc = "loaded" /\ conf' = watcher.file /\ lastMtime' = disk.version
          /\ missed' = (disk.version # watcher.file.version)
          /\ watcher' = At("watching", NoConf) /\ disk' = disk
      BY <1>3 DEF StatInitial
    <2>2. /\ watcher'.pc = "watching"
          /\ watcher' \in [pc : {"start", "loaded", "watching", "settling", "failed"},
                           file : Files]
      BY <1>n, <1>a, <2>1
    <2>3. missed' \in BOOLEAN
      BY <2>1
    <2>4. CrTypeOK'
      BY <1>0, <2>1, <2>2, <2>3 DEF CrTypeOK, Files
    <2>5. Read(conf)'
      BY <2>1 DEF ReadInv, Read
    <2>6. ForwardStep
      BY <1>0, <1>n, <2>1 DEF ForwardStep, ReadInv, Read
    <2> QED BY <2>2, <2>4, <2>5, <2>6 DEF ReadInv
  <1>4. CASE StatFile
    <2>1. /\ watcher' = At("settling", disk) /\ UNCHANGED <<disk, conf, lastMtime, missed>>
      BY <1>4 DEF StatFile
    <2>2. /\ watcher'.pc = "settling"
          /\ watcher' \in [pc : {"start", "loaded", "watching", "settling", "failed"},
                           file : Files]
      BY <1>0, <1>a, <2>1
    <2>3. CrTypeOK'
      BY <1>0, <2>1, <2>2 DEF CrTypeOK, Files
    <2> QED BY <2>1, <2>2, <2>3 DEF ReadInv, Read, ForwardStep
  <1>5. CASE ReadFile
    <2>1. watcher.pc = "settling" /\ UNCHANGED <<disk, missed>>
      BY <1>5 DEF ReadFile
    <2>2. CASE disk.content = Invalid
      <3>1. watcher' = At("failed", disk) /\ conf' = conf /\ lastMtime' = lastMtime
        BY <1>5, <2>2 DEF ReadFile
      <3>2. /\ watcher'.pc = "failed"
            /\ watcher' \in [pc : {"start", "loaded", "watching", "settling", "failed"},
                             file : Files]
        BY <1>0, <1>a, <3>1
      <3>3. CrTypeOK'
        BY <1>0, <2>1, <3>1, <3>2 DEF CrTypeOK, Files
      <3> QED BY <2>1, <3>1, <3>2, <3>3 DEF ReadInv, Read, ForwardStep
    <2>3. CASE disk.content # Invalid
      <3>1. conf' = disk /\ lastMtime' = watcher.file.version /\ watcher' = At("watching", NoConf)
        BY <1>5, <2>3 DEF ReadFile, SeenMtime
      <3>2. /\ watcher'.pc = "watching"
            /\ watcher' \in [pc : {"start", "loaded", "watching", "settling", "failed"},
                             file : Files]
        BY <1>n, <1>a, <3>1
      <3>3. CrTypeOK'
        BY <1>0, <2>1, <3>1, <3>2 DEF CrTypeOK, Files
      <3>4. Read(conf)'
        BY <1>0, <2>1, <3>1 DEF Read
      <3>5. conf' # conf => conf.version < disk.version
        BY <1>0, <3>1 DEF ReadInv, Read
      <3>6. disk.content \in Limits
        BY <1>0, <2>3 DEF Contents
      <3> QED BY <1>0, <3>1, <3>2, <3>3, <3>4, <3>5, <3>6 DEF ReadInv, ForwardStep
    <2> QED BY <2>2, <2>3
  <1>6. CASE StatFailed
    <2>1. /\ lastMtime' = disk.version /\ watcher' = At("watching", NoConf)
          /\ missed' = (missed \/ disk.version # watcher.file.version)
          /\ UNCHANGED <<disk, conf>>
      BY <1>6 DEF StatFailed
    <2>2. /\ watcher'.pc = "watching"
          /\ watcher' \in [pc : {"start", "loaded", "watching", "settling", "failed"},
                           file : Files]
      BY <1>n, <1>a, <2>1
    <2>3. missed' \in BOOLEAN
      BY <2>1
    <2>4. CrTypeOK'
      BY <1>0, <2>1, <2>2, <2>3 DEF CrTypeOK, Files
    <2> QED BY <2>1, <2>2, <2>4 DEF ReadInv, Read, ForwardStep
  <1> QED
    BY <1>1, <1>2, <1>3, <1>4, <1>5, <1>6 DEF CrNext, Loading, Watch

LEMMA CrStutter ==
  ASSUME CrTypeOK, ReadInv, UNCHANGED reloader
  PROVE  CrTypeOK' /\ ReadInv' /\ ForwardStep
  BY DEF reloader, CrTypeOK, ReadInv, Read, ForwardStep

\* The limit the loop reads is one the schema accepts.
LEMMA RuntimeLimitType == ASSUME CrTypeOK PROVE RuntimeLimit \in Limits
  <1>1. conf.content \in Contents
    BY DEF CrTypeOK
  <1> QED BY <1>1, ContentsType DEF RuntimeLimit, Contents

\* Every step of the pipeline's specification is the watcher's, or leaves it alone.
LEMMA WhoSteps ==
  ASSUME [Next]_vars
  PROVE  CrNext \/ UNCHANGED reloader
  BY DEF Next, vars, CrNext, NextLine, EndOfInput, Process, NormalizerRejects, FilteredOut,
         GatesReject, RiskRejects, Stop, Enter, reloader

LEMMA ReloaderHolds == Spec => [](CrTypeOK /\ ReadInv)
  <1>1. Init => CrTypeOK /\ ReadInv
    BY CrInitTypes DEF Init
  <1>2. CrTypeOK /\ ReadInv /\ [Next]_vars => (CrTypeOK /\ ReadInv)'
    BY WhoSteps, CrStep, CrStutter
  <1> QED BY <1>1, <1>2, PTL DEF Spec

\* The configuration in force is only ever replaced by a newer version of the file that
\* was valid, whatever is written while it is read, and however often.
THEOREM ConfigForward == Spec => ConfigMovesForward
  <1>1. CrTypeOK /\ ReadInv /\ [Next]_vars
          => [conf' # conf => /\ conf'.version > conf.version
                              /\ conf'.version <= disk.version
                              /\ conf'.content \in Limits]_reloader
    BY WhoSteps, CrStep, CrStutter DEF ForwardStep
  <1> QED BY <1>1, ReloaderHolds, PTL DEF Spec, ConfigMovesForward

-----------------------------------------------------------------------------
(* Types.                                                                  *)

LEMMA LineFields ==
  ASSUME NEW l \in Lines \cup {Nobody}
  PROVE  /\ l.mode \in Modes \cup {""} /\ l.tier \in Tiers \cup {""} /\ l.size \in Nat
         /\ l \in Lines \/ ~l.trade
  <1>1. CASE l \in Lines
    <2>1. l \in [trade : BOOLEAN, mode : Modes \cup {""}, tier : Tiers \cup {""},
                 buy : BOOLEAN, size : Nat, gates : BOOLEAN]
      BY <1>1, LinesAssumption
    <2> QED BY <1>1, <2>1
  <1>2. CASE l = Nobody
    BY <1>2 DEF Nobody
  <1> QED BY <1>1, <1>2

\* The names trades are counted and booked under have their places in the tables.
LEMMA NamesOfLine ==
  ASSUME NEW l \in Lines \cup {Nobody}
  PROVE  /\ ModeBucket(l) \in ModeBuckets /\ TierBucket(l) \in TierBuckets
         /\ RiskMode(l) \in Names /\ TradeMode(l) \in Names
  <1>1. l.mode \in Modes \cup {""} /\ l.tier \in Tiers \cup {""}
    BY LineFields
  <1>2. ResolvedModes # <<>> => ResolvedModes[1] \in Range(ResolvedModes)
    <2>1. ResolvedModes \in Seq(Range(ResolvedModes))
      BY NamesAssumption
    <2>2. ResolvedModes # <<>> => 1 \in DOMAIN ResolvedModes
      BY <2>1, EmptySeq
    <2> QED BY <2>2 DEF Range
  <1>3. ModeBucket(l) \in ModeBuckets
    BY <1>2 DEF ModeBucket, ModeBuckets
  <1>4. TierBucket(l) \in TierBuckets
    BY <1>1 DEF TierBucket, TierBuckets
  <1>5. RiskMode(l) \in Names
    BY <1>1 DEF RiskMode, Names, ModeBuckets
  <1>6. TradeMode(l) \in Names
    BY <1>1, <1>3 DEF TradeMode, Names
  <1> QED BY <1>3, <1>4, <1>5, <1>6

LEMMA BucketsFinite == IsFiniteSet(ModeBuckets) /\ IsFiniteSet(TierBuckets)
  <1>1. IsFiniteSet(DOMAIN ResolvedModes)
    <2> DEFINE R == Range(ResolvedModes)
    <2>0. ResolvedModes \in Seq(R)
      BY NamesAssumption
    <2> HIDE DEF R
    <2>1. DOMAIN ResolvedModes = 1..Len(ResolvedModes) /\ Len(ResolvedModes) \in Nat
      BY <2>0
    <2> QED BY <2>1, FS_Interval
  <1>2. IsFiniteSet(Range(ResolvedModes))
    BY <1>1, FiniteValues DEF Range
  <1>3. ModeBuckets = ((Range(ResolvedModes) \cup {"U"}) \cup {"__unknown_mode__"})
                        \cup {"__no_mode__"}
    BY DEF ModeBuckets
  <1>4. IsFiniteSet(ModeBuckets)
    BY <1>2, <1>3, FS_AddElement
  <1>5. IsFiniteSet(TierBuckets)
    BY NamesAssumption, FS_AddElement DEF TierBuckets
  <1> QED BY <1>4, <1>5

LEMMA IncrementIs ==
  ASSUME NEW t \in [Counters -> Nat], NEW cs
  PROVE  /\ Increment(t, cs) \in [Counters -> Nat]
         /\ \A c \in Counters : /\ c \in cs => Increment(t, cs)[c] = t[c] + 1
                                /\ c \notin cs => Increment(t, cs)[c] = t[c]
  BY DEF Increment

LEMMA CountedIs ==
  ASSUME tally \in Tables, NEW l \in Lines \cup {Nobody}, NEW cs
  PROVE  /\ Counted(l, cs) \in Tables
         /\ Counted(l, cs).run = Increment(tally.run, cs)
         /\ Counted(l, cs).mode
              = [tally.mode EXCEPT ![ModeBucket(l)] = Increment(tally.mode[ModeBucket(l)], cs)]
         /\ Counted(l, cs).tier
              = [tally.tier EXCEPT ![TierBucket(l)] = Increment(tally.tier[TierBucket(l)], cs)]
  <1> DEFINE M == ModeBucket(l)
             T == TierBucket(l)
             N == [Counters -> Nat]
             run == Increment(tally.run, cs)
             mode == [tally.mode EXCEPT ![M] = Increment(tally.mode[M], cs)]
             tier == [tally.tier EXCEPT ![T] = Increment(tally.tier[T], cs)]
  <1>1. tally.run \in N /\ tally.mode \in [ModeBuckets -> N] /\ tally.tier \in [TierBuckets -> N]
    BY DEF Tables
  <1>2. M \in ModeBuckets /\ T \in TierBuckets
    BY NamesOfLine
  <1>3. /\ run \in N
        /\ Increment(tally.mode[M], cs) \in N /\ Increment(tally.tier[T], cs) \in N
    BY <1>1, <1>2, IncrementIs
  <1>4. mode \in [ModeBuckets -> N]
    <2> HIDE DEF N, M
    <2> QED BY <1>1, <1>3
  <1>5. tier \in [TierBuckets -> N]
    <2> HIDE DEF N, T
    <2> QED BY <1>1, <1>3
  <1>6. Counted(l, cs) = [run |-> run, mode |-> mode, tier |-> tier]
    BY DEF Counted
  <1> HIDE DEF run, mode, tier, M, T, N
  <1>7. Counted(l, cs) \in [run : N, mode : [ModeBuckets -> N], tier : [TierBuckets -> N]]
    BY <1>3, <1>4, <1>5, <1>6
  <1> QED BY <1>6, <1>7 DEF run, mode, tier, M, T, N, Tables

Portfolios == [open : Nat, tiers : [Tiers -> Nat], modes : [Names -> Nat],
               exposure : [Names -> Nat]]

LEMMA AddToTier ==
  ASSUME NEW f \in [Tiers -> Nat], NEW k \in Tiers, NEW n \in Nat
  PROVE  /\ Add(f, k, n) \in [Tiers -> Nat]
         /\ Add(f, k, n)[k] = f[k] + n
         /\ \A j \in Tiers : f[j] <= Add(f, k, n)[j]
         /\ \A j \in Tiers \ {k} : Add(f, k, n)[j] = f[j]
  BY DEF Add

LEMMA AddToMode ==
  ASSUME NEW f \in [Names -> Nat], NEW k \in Names, NEW n \in Nat
  PROVE  /\ Add(f, k, n) \in [Names -> Nat]
         /\ Add(f, k, n)[k] = f[k] + n
         /\ \A j \in Names : f[j] <= Add(f, k, n)[j]
         /\ \A j \in Names \ {k} : Add(f, k, n)[j] = f[j]
  BY DEF Add

LEMMA AddRow ==
  ASSUME NEW f \in [Stages -> Nat], NEW s \in Stages
  PROVE  /\ Add(f, s, 1) \in [Stages -> Nat]
         /\ Add(f, s, 1)[s] = f[s] + 1
         /\ \A r \in Stages \ {s} : Add(f, s, 1)[r] = f[r]
  BY DEF Add

\* What the risk stage and then the pipeline book: one position, one of the tier, at least
\* one of the mode the risk stage takes the trade for and at least its size under it, and
\* nothing is taken from any table.
LEMMA Bookings ==
  ASSUME NEW p \in Portfolios, NEW l \in Lines
  PROVE  LET r == AfterRiskStage(p, l)
             q == AfterPipeline(r, l)
         IN /\ q \in Portfolios /\ AfterPipeline(p, l) \in Portfolios
            /\ q.open = p.open + 1
            /\ l.tier # "" => q.tiers[l.tier] = p.tiers[l.tier] + 1
            /\ \A t \in Tiers : t # l.tier => q.tiers[t] = p.tiers[t]
            /\ \A m \in Names : p.modes[m] <= q.modes[m] /\ p.exposure[m] <= q.exposure[m]
            /\ HasExtra(l) => /\ p.modes[RiskMode(l)] + 1 <= q.modes[RiskMode(l)]
                              /\ p.exposure[RiskMode(l)] + l.size <= q.exposure[RiskMode(l)]
  <1> DEFINE R == RiskMode(l)
             T == TradeMode(l)
  <1>o. p.open \in Nat
    BY DEF Portfolios
  <1>1. /\ p.tiers \in [Tiers -> Nat] /\ p.modes \in [Names -> Nat]
        /\ p.exposure \in [Names -> Nat]
    BY DEF Portfolios
  <1>l. l.tier \in Tiers \cup {""} /\ l.size \in Nat
    BY LineFields
  <1>2. R \in Names /\ T \in Names
    BY NamesOfLine
  <1> HIDE DEF R, T
  <1>3. PICK tiers : tiers = IF l.tier # "" THEN Add(p.tiers, l.tier, 1) ELSE p.tiers
    OBVIOUS
  <1>3a. /\ tiers \in [Tiers -> Nat]
         /\ l.tier # "" => tiers[l.tier] = p.tiers[l.tier] + 1
         /\ \A t \in Tiers : t # l.tier => tiers[t] = p.tiers[t]
    <2>1. CASE l.tier # ""
      <3>1. tiers = Add(p.tiers, l.tier, 1) /\ l.tier \in Tiers
        BY <1>l, <1>3, <2>1
      <3>2. tiers \in [Tiers -> Nat]
        BY <1>1, <3>1 DEF Add
      <3>3. tiers[l.tier] = p.tiers[l.tier] + 1
        BY <1>1, <3>1 DEF Add
      <3>4. \A t \in Tiers : t # l.tier => tiers[t] = p.tiers[t]
        BY <1>1, <3>1 DEF Add
      <3> QED BY <3>2, <3>3, <3>4
    <2>2. CASE l.tier = ""
      <3>1. tiers = p.tiers
        BY <1>3, <2>2
      <3> QED BY <1>1, <2>2, <3>1
    <2> QED BY <2>1, <2>2
  <1>4. PICK modes : modes = IF HasExtra(l) THEN Add(p.modes, R, 1) ELSE p.modes
    OBVIOUS
  <1>4a. /\ modes \in [Names -> Nat] /\ \A m \in Names : p.modes[m] <= modes[m]
         /\ HasExtra(l) => modes[R] = p.modes[R] + 1
    <2>1. CASE HasExtra(l)
      <3>1. modes = Add(p.modes, R, 1)
        BY <1>4, <2>1
      <3>2. modes \in [Names -> Nat]
        BY <1>1, <1>2, <3>1 DEF Add
      <3>3. modes[R] = p.modes[R] + 1
        BY <1>1, <1>2, <3>1 DEF Add
      <3>4. \A m \in Names : p.modes[m] <= modes[m]
        BY <1>1, <1>2, <3>1 DEF Add
      <3> QED BY <3>2, <3>3, <3>4
    <2>2. CASE ~HasExtra(l)
      <3>1. modes = p.modes
        BY <1>4, <2>2
      <3> QED BY <1>1, <2>2, <3>1
    <2> QED BY <2>1, <2>2
  <1>5. PICK exposure : exposure = IF HasExtra(l) THEN Add(p.exposure, R, l.size) ELSE p.exposure
    OBVIOUS
  <1>5a. /\ exposure \in [Names -> Nat] /\ \A m \in Names : p.exposure[m] <= exposure[m]
         /\ HasExtra(l) => exposure[R] = p.exposure[R] + l.size
    <2>1. CASE HasExtra(l)
      <3>1. exposure = Add(p.exposure, R, l.size)
        BY <1>5, <2>1
      <3> QED BY <1>1, <1>l, <1>2, <3>1, AddToMode
    <2>2. CASE ~HasExtra(l)
      <3>1. exposure = p.exposure
        BY <1>5, <2>2
      <3> QED BY <1>1, <2>2, <3>1
    <2> QED BY <2>1, <2>2
  <1>6. PICK r : r = [open |-> p.open + 1, tiers |-> tiers, modes |-> modes,
                      exposure |-> exposure]
    OBVIOUS
  <1>6a. r = AfterRiskStage(p, l)
    BY <1>3, <1>4, <1>5, <1>6 DEF AfterRiskStage, R
  <1>7. r.open = p.open + 1 /\ r.tiers = tiers /\ r.modes = modes /\ r.exposure = exposure
    BY <1>6
  <1>8. PICK more : more = Add(modes, T, 1)
    OBVIOUS
  <1>8a. more \in [Names -> Nat]
    <2>1. modes \in [Names -> Nat]
      BY <1>4a
    <2> QED BY <1>2, <2>1, <1>8 DEF Add
  <1>8b. \A m \in Names : modes[m] <= more[m]
    <2>1. modes \in [Names -> Nat]
      BY <1>4a
    <2> QED BY <1>2, <2>1, <1>8 DEF Add
  <1>9. PICK spent : /\ spent = Add(exposure, T, l.size) /\ spent \in [Names -> Nat]
                     /\ \A m \in Names : exposure[m] <= spent[m]
    BY <1>l, <1>2, <1>5a, AddToMode
  <1>10. PICK q : q = [open |-> p.open + 1, tiers |-> tiers, modes |-> more,
                       exposure |-> spent]
    OBVIOUS
  <1>10a. q = AfterPipeline(r, l)
    BY <1>7, <1>8, <1>9, <1>10 DEF AfterPipeline, T
  <1>11. /\ q \in Portfolios /\ q.open = p.open + 1 /\ q.tiers = tiers /\ q.modes = more
         /\ q.exposure = spent
    <2>1. p.open + 1 \in Nat
      BY <1>o
    <2>2. q \in Portfolios
      BY <1>3a, <1>4a, <1>5a, <1>8a, <1>9, <1>10, <2>1 DEF Portfolios
    <2> QED BY <1>10, <2>2
  <1>12. AfterPipeline(p, l) \in Portfolios
    <2>1. PICK m, x : /\ m = Add(p.modes, T, 1) /\ x = Add(p.exposure, T, l.size)
      OBVIOUS
    <2>2. m \in [Names -> Nat] /\ x \in [Names -> Nat]
      BY <1>1, <1>2, <1>l, <2>1, AddToMode
    <2>3. AfterPipeline(p, l) = [open |-> p.open, tiers |-> p.tiers, modes |-> m,
                                 exposure |-> x]
      BY <2>1 DEF AfterPipeline, T
    <2> QED BY <1>o, <1>1, <2>2, <2>3 DEF Portfolios
  <1>13. ASSUME NEW m \in Names
         PROVE  p.modes[m] <= q.modes[m] /\ p.exposure[m] <= q.exposure[m]
    <2>1. /\ p.modes[m] <= modes[m] /\ modes[m] <= more[m]
          /\ p.exposure[m] <= exposure[m] /\ exposure[m] <= spent[m]
      BY <1>4a, <1>5a, <1>8a, <1>8b, <1>9
    <2>2. /\ p.modes[m] \in Nat /\ modes[m] \in Nat /\ more[m] \in Nat
          /\ p.exposure[m] \in Nat /\ exposure[m] \in Nat /\ spent[m] \in Nat
      BY <1>1, <1>4a, <1>5a, <1>8a, <1>8b, <1>9
    <2> QED BY <1>11, <2>1, <2>2
  <1>14. ASSUME HasExtra(l)
         PROVE  p.modes[R] + 1 <= q.modes[R] /\ p.exposure[R] + l.size <= q.exposure[R]
    <2>1. /\ p.modes[R] + 1 = modes[R] /\ modes[R] <= more[R]
          /\ p.exposure[R] + l.size = exposure[R] /\ exposure[R] <= spent[R]
      BY <1>2, <1>4a, <1>5a, <1>8a, <1>8b, <1>9, <1>14
    <2> QED BY <1>11, <2>1
  <1>15. /\ l.tier # "" => q.tiers[l.tier] = p.tiers[l.tier] + 1
         /\ \A t \in Tiers : t # l.tier => q.tiers[t] = p.tiers[t]
    BY <1>3a, <1>11
  <1> QED BY <1>6a, <1>10a, <1>11, <1>12, <1>13, <1>14, <1>15 DEF R

\* The variables of the loop, whose types its own steps must keep.
LoopTypes ==
  /\ options \in Options /\ pc \in {"next", "line", "done", "died"}
  /\ line \in Lines \cup {Nobody} /\ limit \in Limits /\ highest \in Limits \cup {0}
  /\ tally \in Tables /\ rows \in [Stages -> Nat] /\ signals \in Nat
  /\ portfolio \in Portfolios /\ entered \in Seq(Lines)

LEMMA TypesAre == TypeOK <=> CrTypeOK /\ LoopTypes
  BY DEF TypeOK, LoopTypes, Portfolios

LEMMA InitTypes == Init => LoopTypes
  <1> SUFFICES ASSUME Init PROVE LoopTypes
    OBVIOUS
  <1>1. /\ options \in Options /\ pc = "next" /\ line = Nobody /\ limit = DefaultLimit
        /\ tally = [run |-> None, mode |-> [b \in ModeBuckets |-> None],
                    tier |-> [b \in TierBuckets |-> None]]
        /\ rows = [s \in Stages |-> 0] /\ signals = 0 /\ entered = <<>> /\ highest = 0
    BY DEF Init
  <1>2. portfolio = [open |-> 0, tiers |-> [t \in Tiers |-> 0],
                     modes |-> [m \in Names |-> 0], exposure |-> [m \in Names |-> 0]]
    BY DEF Init, Names
  <1>3. None \in [Counters -> Nat]
    BY DEF None
  <1>4. tally \in Tables
    BY <1>1, <1>3 DEF Tables
  <1>5. portfolio \in Portfolios
    BY <1>2 DEF Portfolios
  <1>6. rows \in [Stages -> Nat] /\ signals \in Nat /\ entered \in Seq(Lines)
    BY <1>1
  <1> QED BY <1>1, <1>4, <1>5, <1>6, ContentsType DEF LoopTypes

\* A line that ends keeps the types, whatever it is counted and written as.
LEMMA StopTypes ==
  ASSUME LoopTypes, NEW outcome, NEW cs, NEW stage \in Stages \cup {"none"},
         Stop(outcome, cs, stage)
  PROVE  LoopTypes'
  <1>1. /\ pc' = "next" /\ tally' = Counted(line, cs \cup {outcome})
        /\ rows' = IF stage = "none" THEN rows ELSE Add(rows, stage, 1)
        /\ UNCHANGED <<options, line, limit, signals, portfolio, entered, highest>>
    BY DEF Stop
  <1>2. tally' \in Tables
    BY <1>1, CountedIs DEF LoopTypes
  <1>3. rows' \in [Stages -> Nat]
    <2>1. rows \in [Stages -> Nat]
      BY DEF LoopTypes
    <2>2. CASE stage = "none"
      BY <1>1, <2>1, <2>2
    <2>3. CASE stage # "none"
      <3>1. stage \in Stages /\ rows' = Add(rows, stage, 1)
        BY <1>1, <2>3
      <3> QED BY <2>1, <3>1, AddRow
    <2> QED BY <2>2, <2>3
  <1> QED BY <1>1, <1>2, <1>3 DEF LoopTypes

LEMMA EnterTypes == ASSUME LoopTypes, Enter PROVE LoopTypes'
  <1>1. /\ Passes /\ pc' = "next" /\ tally' = Counted(line, {"normalized", "passed"})
        /\ portfolio' = AfterPipeline(IF options.skipRisk THEN portfolio
                                      ELSE AfterRiskStage(portfolio, line), line)
        /\ rows' = RowOf(line) /\ signals' = signals + 1 /\ entered' = Append(entered, line)
        /\ UNCHANGED <<options, line, limit, highest>>
    BY DEF Enter
  <1>2. line \in Lines
    BY <1>1, LineFields DEF LoopTypes, Passes
  <1>3. tally' \in Tables
    BY <1>1, CountedIs DEF LoopTypes
  <1>4. portfolio' \in Portfolios
    <2>1. portfolio \in Portfolios
      BY DEF LoopTypes
    <2>2. CASE options.skipRisk
      BY <1>1, <1>2, <2>1, <2>2, Bookings
    <2>3. CASE ~options.skipRisk
      BY <1>1, <1>2, <2>1, <2>3, Bookings
    <2> QED BY <2>2, <2>3
  <1>5. rows' \in [Stages -> Nat]
    <2>1. rows \in [Stages -> Nat] /\ "enter" \in Stages
      BY DEF LoopTypes, Stages
    <2> QED BY <1>1, <2>1, AddRow DEF RowOf
  <1>6. signals' \in Nat /\ entered' \in Seq(Lines)
    <2>1. signals \in Nat /\ entered \in Seq(Lines)
      BY DEF LoopTypes
    <2> QED BY <1>1, <1>2, <2>1
  <1> QED BY <1>1, <1>3, <1>4, <1>5, <1>6 DEF LoopTypes

LEMMA NextLineTypes ==
  ASSUME CrTypeOK, LoopTypes, NEW l \in Lines, NextLine(l)
  PROVE  LoopTypes'
  <1>1. /\ line' = l /\ limit' = RuntimeLimit
        /\ highest' = IF RuntimeLimit > highest THEN RuntimeLimit ELSE highest
        /\ UNCHANGED <<options, rows, signals, portfolio, entered>>
    BY DEF NextLine
  <1>2. limit' \in Limits /\ highest' \in Limits \cup {0}
    BY <1>1, RuntimeLimitType DEF LoopTypes
  <1>3. pc' \in {"next", "line", "done", "died"}
    BY DEF NextLine
  <1>4. tally' \in Tables
    <2>1. CASE options.dryRun
      <3>1. tally' = Counted(l, {"total"})
        BY <2>1 DEF NextLine
      <3> QED BY <3>1, CountedIs DEF LoopTypes
    <2>2. CASE ~options.dryRun
      <3>1. tally' = [run |-> Increment(tally.run, {"total"}),
                      mode |-> tally.mode, tier |-> tally.tier]
        BY <2>2 DEF NextLine
      <3>2. tally \in Tables
        BY DEF LoopTypes
      <3>3. /\ tally.run \in [Counters -> Nat]
            /\ tally.mode \in [ModeBuckets -> [Counters -> Nat]]
            /\ tally.tier \in [TierBuckets -> [Counters -> Nat]]
        BY <3>2 DEF Tables
      <3>4. Increment(tally.run, {"total"}) \in [Counters -> Nat]
        BY <3>3, IncrementIs
      <3> QED BY <3>1, <3>3, <3>4 DEF Tables
    <2> QED BY <2>1, <2>2
  <1> QED BY <1>1, <1>2, <1>3, <1>4 DEF LoopTypes

\* What the loop does with a line in hand, by what it is counted and written as.
LEMMA Endings ==
  ASSUME Process
  PROVE  \/ Stop("normalizer", {}, "normalizer") \/ Stop("filtered", {"normalized"}, "none")
         \/ Stop("gates", {"normalized"}, "gates")
         \/ \E r \in Rejections : Stop(r, {"normalized", "passed"}, "risk")
         \/ Enter
  <1>1. Reason(line) # "none" => Reason(line) \in Rejections
    BY DEF Reason, Rejections
  <1> QED BY <1>1 DEF Process, NormalizerRejects, FilteredOut, GatesReject, RiskRejects

\* Every variable keeps its type, through every line and every edit.
THEOREM TypeCorrect == Spec => []TypeOK
  <1>1. Init => TypeOK
    BY InitTypes, CrInitTypes, TypesAre DEF Init
  <1>2. ASSUME TypeOK, ReadInv, [Next]_vars PROVE TypeOK'
    <2>0. CrTypeOK /\ LoopTypes
      BY <1>2, TypesAre
    <2>1. CrTypeOK'
      BY <1>2, <2>0, WhoSteps, CrStep, CrStutter
    <2> SUFFICES LoopTypes'
      BY <2>1 DEF TypeOK, LoopTypes, Portfolios
    <2>2. CASE UNCHANGED pipeline
      <3>1. UNCHANGED <<options, pc, line, limit, tally, rows, signals, portfolio, entered,
                        highest>>
        BY <2>2 DEF pipeline
      <3> QED BY <2>0, <3>1 DEF LoopTypes
    <2>3. CASE \E l \in Lines : NextLine(l)
      BY <2>0, <2>3, NextLineTypes
    <2>4. CASE EndOfInput
      BY <2>0, <2>4 DEF EndOfInput, LoopTypes
    <2>5. CASE Process
      <3>1. /\ {"normalizer", "gates", "risk"} \subseteq Stages
        BY DEF Stages
      <3> QED BY <2>0, <2>5, <3>1, Endings, StopTypes, EnterTypes
    <2> QED BY <1>2, <2>2, <2>3, <2>4, <2>5 DEF Next, vars, pipeline
  <1> QED BY <1>1, <1>2, ReloaderHolds, PTL DEF Spec

-----------------------------------------------------------------------------
(* The counts.                                                             *)

\* Where a line is counted once, one column of the table grows by one.
LEMMA ColumnCounted ==
  ASSUME NEW K, IsFiniteSet(K), NEW table \in [K -> [Counters -> Nat]], NEW k \in K,
         NEW cs, NEW c \in Counters,
         NEW after, after = [table EXCEPT ![k] = Increment(table[k], cs)]
  PROVE  /\ c \in cs => Column(after, c) = Column(table, c) + 1
         /\ c \notin cs => Column(after, c) = Column(table, c)
  <1> DEFINE f == [b \in K |-> table[b][c]]
             g == [b \in K |-> after[b][c]]
  <1>1. after \in [K -> [Counters -> Nat]]
    <2>1. Increment(table[k], cs) \in [Counters -> Nat]
      BY IncrementIs
    <2> HIDE DEF f, g
    <2> QED BY <2>1
  <1>2. Column(table, c) = SumFunctionOnSet(f, K) /\ Column(after, c) = SumFunctionOnSet(g, K)
    <2>1. DOMAIN table = K /\ DOMAIN after = K
      BY <1>1
    <2>2. DOMAIN f = K /\ DOMAIN g = K
      OBVIOUS
    <2> QED BY <2>1, <2>2, Zenon DEF Column, SumFunction
  <1>3. \A b \in K : f[b] \in Int /\ g[b] \in Int
    BY <1>1
  <1>4. \A b \in K \ {k} : f[b] = g[b]
    OBVIOUS
  <1>5. SumFunctionOnSet(g, K) = SumFunctionOnSet(f, K) + (g[k] - f[k])
    <2> HIDE DEF f, g
    <2> QED BY <1>3, <1>4, SumChanged
  <1>6. SumFunctionOnSet(f, K) \in Int
    <2> HIDE DEF f, g
    <2> QED BY <1>3, SumByAny
  <1>7. f[k] = table[k][c] /\ g[k] = Increment(table[k], cs)[c] /\ f[k] \in Nat
    BY <1>1
  <1>8. /\ c \in cs => g[k] = f[k] + 1
        /\ c \notin cs => g[k] = f[k]
    BY <1>7, IncrementIs
  <1> HIDE DEF f, g
  <1> QED BY <1>2, <1>5, <1>6, <1>7, <1>8

\* The ways a line is counted when it ends.
Ends == {{"normalizer"}, {"normalized", "filtered"}, {"normalized", "gates"},
         {"normalized", "passed"}}
          \cup {{"normalized", "passed", r} : r \in Rejections}

\* A line that ends is in balance, and so is one that is taken in hand.
LEMMA BalanceKept ==
  ASSUME NEW t \in [Counters -> Nat], NEW cs
  PROVE  /\ Balanced(t, 0) /\ cs = {"total"} => Balanced(Increment(t, cs), 1)
         /\ Balanced(t, 1) /\ cs \in Ends => Balanced(Increment(t, cs), 0)
  <1> DEFINE u == Increment(t, cs)
  <1>1. {"total", "normalizer", "normalized", "filtered", "gates", "passed"} \subseteq Counters
    BY DEF Counters, Outcomes
  <1>2. \A c \in {"total", "normalizer", "normalized", "filtered", "gates", "passed"} :
          /\ t[c] \in Nat
          /\ c \in cs => u[c] = t[c] + 1
          /\ c \notin cs => u[c] = t[c]
    BY <1>1, IncrementIs
  <1> HIDE DEF u
  <1>3. ASSUME Balanced(t, 0), cs = {"total"} PROVE Balanced(u, 1)
    BY <1>2, <1>3 DEF Balanced
  <1>4. ASSUME Balanced(t, 1), cs \in Ends PROVE Balanced(u, 0)
    <2>1. CASE cs = {"normalizer"}
      BY <1>2, <1>4, <2>1 DEF Balanced
    <2>2. CASE cs = {"normalized", "filtered"}
      BY <1>2, <1>4, <2>2 DEF Balanced
    <2>3. CASE cs = {"normalized", "gates"}
      BY <1>2, <1>4, <2>3 DEF Balanced
    <2>4. CASE \/ cs = {"normalized", "passed"}
               \/ \E r \in Rejections : cs = {"normalized", "passed", r}
      <3>1. "normalized" \in cs /\ "passed" \in cs
        BY <2>4
      <3>2. /\ "total" \notin cs /\ "normalizer" \notin cs /\ "filtered" \notin cs
            /\ "gates" \notin cs
        BY <2>4 DEF Rejections
      <3> QED BY <1>2, <1>4, <3>1, <3>2 DEF Balanced
    <2> QED BY <1>4, <2>1, <2>2, <2>3, <2>4 DEF Ends
  <1> QED BY <1>3, <1>4 DEF u

\* The three tables are one story.
TablesAgree ==
  /\ Balanced(tally.run, InHand(TRUE))
  /\ \A b \in ModeBuckets : Balanced(tally.mode[b], InHand(b = ModeBucket(line)))
  /\ \A b \in TierBuckets : Balanced(tally.tier[b], InHand(b = TierBucket(line)))
  /\ \A c \in Counters : /\ tally.run[c] = Column(tally.mode, c)
                         /\ tally.run[c] = Column(tally.tier, c)

LEMMA ColumnsKept ==
  ASSUME tally \in Tables, TablesAgree, NEW l \in Lines \cup {Nobody}, NEW cs,
         NEW t, t = Counted(l, cs)
  PROVE  \A c \in Counters : t.run[c] = Column(t.mode, c) /\ t.run[c] = Column(t.tier, c)
  <1> SUFFICES ASSUME NEW c \in Counters
               PROVE  t.run[c] = Column(t.mode, c) /\ t.run[c] = Column(t.tier, c)
    OBVIOUS
  <1>1. /\ tally.run \in [Counters -> Nat]
        /\ tally.mode \in [ModeBuckets -> [Counters -> Nat]]
        /\ tally.tier \in [TierBuckets -> [Counters -> Nat]]
    BY DEF Tables
  <1>2. /\ t.run = Increment(tally.run, cs)
        /\ t.mode = [tally.mode EXCEPT ![ModeBucket(l)] = Increment(tally.mode[ModeBucket(l)], cs)]
        /\ t.tier = [tally.tier EXCEPT ![TierBucket(l)] = Increment(tally.tier[TierBucket(l)], cs)]
    BY CountedIs
  <1>3. /\ c \in cs => Column(t.mode, c) = Column(tally.mode, c) + 1
        /\ c \notin cs => Column(t.mode, c) = Column(tally.mode, c)
    BY <1>1, <1>2, NamesOfLine, BucketsFinite, ColumnCounted
  <1>4. /\ c \in cs => Column(t.tier, c) = Column(tally.tier, c) + 1
        /\ c \notin cs => Column(t.tier, c) = Column(tally.tier, c)
    BY <1>1, <1>2, NamesOfLine, BucketsFinite, ColumnCounted
  <1>5. /\ c \in cs => t.run[c] = tally.run[c] + 1
        /\ c \notin cs => t.run[c] = tally.run[c]
    BY <1>1, <1>2, IncrementIs
  <1>6. tally.run[c] = Column(tally.mode, c) /\ tally.run[c] = Column(tally.tier, c)
    BY DEF TablesAgree
  <1> QED BY <1>3, <1>4, <1>5, <1>6

\* When the next line is taken in hand, and when it ends.
LEMMA TablesTaken ==
  ASSUME tally \in Tables, TablesAgree, pc = "next", NEW l \in Lines, line' = l,
         pc' = "line", tally' = Counted(l, {"total"})
  PROVE  TablesAgree'
  <1> DEFINE cs == {"total"}
  <1>1. /\ tally.run \in [Counters -> Nat]
        /\ tally.mode \in [ModeBuckets -> [Counters -> Nat]]
        /\ tally.tier \in [TierBuckets -> [Counters -> Nat]]
    BY DEF Tables
  <1>2. /\ tally'.run = Increment(tally.run, cs)
        /\ tally'.mode
             = [tally.mode EXCEPT ![ModeBucket(l)] = Increment(tally.mode[ModeBucket(l)], cs)]
        /\ tally'.tier
             = [tally.tier EXCEPT ![TierBucket(l)] = Increment(tally.tier[TierBucket(l)], cs)]
    BY CountedIs
  <1>3. /\ Balanced(tally.run, 0)
        /\ \A b \in ModeBuckets : Balanced(tally.mode[b], 0)
        /\ \A b \in TierBuckets : Balanced(tally.tier[b], 0)
    BY DEF TablesAgree, InHand
  <1>4. Balanced(tally'.run, 1)
    BY <1>1, <1>2, <1>3, BalanceKept
  <1>5. ASSUME NEW b \in ModeBuckets
        PROVE  Balanced(tally'.mode[b], IF b = ModeBucket(l) THEN 1 ELSE 0)
    <2>1. CASE b = ModeBucket(l)
      <3>1. tally'.mode[b] = Increment(tally.mode[b], cs)
        BY <1>1, <1>2, <2>1
      <3> QED BY <1>1, <1>3, <2>1, <3>1, BalanceKept
    <2>2. CASE b # ModeBucket(l)
      <3>1. tally'.mode[b] = tally.mode[b]
        BY <1>1, <1>2, <2>2
      <3> QED BY <1>3, <2>2, <3>1
    <2> QED BY <2>1, <2>2
  <1>6. ASSUME NEW b \in TierBuckets
        PROVE  Balanced(tally'.tier[b], IF b = TierBucket(l) THEN 1 ELSE 0)
    <2>1. CASE b = TierBucket(l)
      <3>1. tally'.tier[b] = Increment(tally.tier[b], cs)
        BY <1>1, <1>2, <2>1
      <3> QED BY <1>1, <1>3, <2>1, <3>1, BalanceKept
    <2>2. CASE b # TierBucket(l)
      <3>1. tally'.tier[b] = tally.tier[b]
        BY <1>1, <1>2, <2>2
      <3> QED BY <1>3, <2>2, <3>1
    <2> QED BY <2>1, <2>2
  <1>7. \A c \in Counters : /\ tally'.run[c] = Column(tally'.mode, c)
                            /\ tally'.run[c] = Column(tally'.tier, c)
    BY ColumnsKept
  <1> QED BY <1>4, <1>5, <1>6, <1>7 DEF TablesAgree, InHand

LEMMA TablesEnded ==
  ASSUME tally \in Tables, line \in Lines \cup {Nobody}, TablesAgree, pc = "line",
         NEW cs \in Ends, pc' = "next", tally' = Counted(line, cs)
  PROVE  TablesAgree'
  <1> DEFINE M == ModeBucket(line)
             T == TierBucket(line)
  <1>1. /\ tally.run \in [Counters -> Nat]
        /\ tally.mode \in [ModeBuckets -> [Counters -> Nat]]
        /\ tally.tier \in [TierBuckets -> [Counters -> Nat]]
    BY DEF Tables
  <1>2. /\ tally'.run = Increment(tally.run, cs)
        /\ tally'.mode = [tally.mode EXCEPT ![M] = Increment(tally.mode[M], cs)]
        /\ tally'.tier = [tally.tier EXCEPT ![T] = Increment(tally.tier[T], cs)]
    BY CountedIs
  <1>3. /\ Balanced(tally.run, 1)
        /\ \A b \in ModeBuckets : Balanced(tally.mode[b], IF b = M THEN 1 ELSE 0)
        /\ \A b \in TierBuckets : Balanced(tally.tier[b], IF b = T THEN 1 ELSE 0)
    BY DEF TablesAgree, InHand
  <1>4. Balanced(tally'.run, 0)
    BY <1>1, <1>2, <1>3, BalanceKept
  <1>5. ASSUME NEW b \in ModeBuckets PROVE Balanced(tally'.mode[b], 0)
    <2> HIDE DEF M
    <2>1. CASE b = M
      <3>1. tally'.mode[b] = Increment(tally.mode[b], cs) /\ Balanced(tally.mode[b], 1)
        BY <1>1, <1>2, <1>3, <2>1
      <3> QED BY <1>1, <3>1, BalanceKept
    <2>2. CASE b # M
      <3>1. tally'.mode[b] = tally.mode[b] /\ Balanced(tally.mode[b], 0)
        BY <1>1, <1>2, <1>3, <2>2
      <3> QED BY <3>1
    <2> QED BY <2>1, <2>2
  <1>6. ASSUME NEW b \in TierBuckets PROVE Balanced(tally'.tier[b], 0)
    <2> HIDE DEF T
    <2>1. CASE b = T
      <3>1. tally'.tier[b] = Increment(tally.tier[b], cs) /\ Balanced(tally.tier[b], 1)
        BY <1>1, <1>2, <1>3, <2>1
      <3> QED BY <1>1, <3>1, BalanceKept
    <2>2. CASE b # T
      <3>1. tally'.tier[b] = tally.tier[b] /\ Balanced(tally.tier[b], 0)
        BY <1>1, <1>2, <1>3, <2>2
      <3> QED BY <3>1
    <2> QED BY <2>1, <2>2
  <1>7. \A c \in Counters : /\ tally'.run[c] = Column(tally'.mode, c)
                            /\ tally'.run[c] = Column(tally'.tier, c)
    BY ColumnsKept
  <1> QED BY <1>4, <1>5, <1>6, <1>7 DEF TablesAgree, InHand

LEMMA Appended ==
  ASSUME NEW s \in Seq(Lines), NEW l \in Lines
  PROVE  LET a == Append(s, l)
         IN /\ IsFiniteSet(DOMAIN s) /\ Len(s) \in Nat /\ Len(a) = Len(s) + 1
            /\ DOMAIN a = DOMAIN s \cup {Len(a)} /\ Len(a) \notin DOMAIN s
            /\ \A i \in DOMAIN s : a[i] = s[i]
            /\ a[Len(a)] = l
  <1> DEFINE a == Append(s, l)
  <1>1. /\ DOMAIN s = 1..Len(s) /\ Len(s) \in Nat /\ Len(a) = Len(s) + 1
        /\ DOMAIN a = 1..Len(a)
    BY AppendProperties
  <1>2. IsFiniteSet(1..Len(s))
    BY <1>1, FS_Interval
  <1>3. \A i \in 1..Len(s) : a[i] = s[i]
    BY AppendProperties
  <1>4. a[Len(a)] = l
    BY <1>1, AppendProperties
  <1> HIDE DEF a
  <1> QED BY <1>1, <1>2, <1>3, <1>4 DEF a

\* The rows of the dump, and the signals, are the run's counts.
RowsAgree ==
  /\ tally.run["passed"] = AtRisk + signals
  /\ rows["normalizer"] = tally.run["normalizer"]
  /\ rows["gates"] = tally.run["gates"]
  /\ rows["risk"] = AtRisk
  /\ rows["enter"] = Cardinality(Bought)
  /\ signals = Len(entered)

LEMMA CountsAre == CountsAddUp <=> pc = "died" \/ (TablesAgree /\ RowsAgree)
  BY DEF CountsAddUp, TablesAgree, RowsAgree

\* What each end adds to the counts the rows are compared with.
LEMMA RunCounted ==
  ASSUME tally \in Tables, line \in Lines \cup {Nobody}, NEW cs, tally' = Counted(line, cs)
  PROVE  \A c \in {"passed", "normalizer", "gates"} \cup Rejections :
           /\ tally.run[c] \in Nat
           /\ c \in cs => tally'.run[c] = tally.run[c] + 1
           /\ c \notin cs => tally'.run[c] = tally.run[c]
  <1>1. {"passed", "normalizer", "gates"} \cup Rejections \subseteq Counters
    BY DEF Counters, Outcomes
  <1>2. tally.run \in [Counters -> Nat]
    BY DEF Tables
  <1>3. tally'.run = Increment(tally.run, cs)
    BY CountedIs
  <1> QED BY <1>1, <1>2, <1>3, IncrementIs

LEMMA RowsStopped ==
  ASSUME LoopTypes, RowsAgree, NEW outcome, NEW cs, NEW stage, Stop(outcome, cs, stage),
         \/ outcome = "normalizer" /\ cs = {} /\ stage = "normalizer"
         \/ outcome = "filtered" /\ cs = {"normalized"} /\ stage = "none"
         \/ outcome = "gates" /\ cs = {"normalized"} /\ stage = "gates"
         \/ outcome \in Rejections /\ cs = {"normalized", "passed"} /\ stage = "risk"
  PROVE  RowsAgree'
  <1> DEFINE all == cs \cup {outcome}
             run == tally.run
  <1>1. /\ tally' = Counted(line, all) /\ rows' = IF stage = "none" THEN rows ELSE Add(rows, stage, 1)
        /\ signals' = signals /\ entered' = entered
    BY DEF Stop
  <1>2. \A c \in {"passed", "normalizer", "gates", "tier", "mode", "risk"} :
          /\ tally.run[c] \in Nat
          /\ c \in all => tally'.run[c] = tally.run[c] + 1
          /\ c \notin all => tally'.run[c] = tally.run[c]
    BY <1>1, RunCounted DEF LoopTypes, Rejections
  <1>3. rows \in [Stages -> Nat] /\ signals \in Nat
    BY DEF LoopTypes
  <1>4. /\ stage \in {"normalizer", "gates", "risk"} => rows'[stage] = rows[stage] + 1
        /\ \A s \in Stages : s # stage => rows'[s] = rows[s]
    <2>1. CASE stage = "none"
      BY <1>1, <2>1
    <2>2. CASE stage \in {"normalizer", "gates", "risk"}
      <3>1. stage \in Stages /\ rows' = Add(rows, stage, 1)
        BY <1>1, <2>2 DEF Stages
      <3> QED BY <1>3, <3>1, AddRow
    <2> QED BY <2>1, <2>2
  <1>5. {"normalizer", "gates", "risk", "enter"} \subseteq Stages
    BY DEF Stages
  <1>6. Cardinality(Bought)' = Cardinality(Bought) /\ Len(entered') = Len(entered)
    BY <1>1 DEF Bought
  <1>7. AtRisk' = IF stage = "risk" THEN AtRisk + 1 ELSE AtRisk
    <2>1. CASE stage = "risk"
      <3>1. outcome \in {"tier", "mode", "risk"} /\ all = {"normalized", "passed", outcome}
        BY <2>1 DEF Rejections
      <3>2. CASE outcome = "tier"
        BY <1>2, <2>1, <3>1, <3>2 DEF AtRisk
      <3>3. CASE outcome = "mode"
        BY <1>2, <2>1, <3>1, <3>3 DEF AtRisk
      <3>4. CASE outcome = "risk"
        BY <1>2, <2>1, <3>1, <3>4 DEF AtRisk
      <3> QED BY <3>1, <3>2, <3>3, <3>4
    <2>2. CASE stage # "risk"
      <3>1. "tier" \notin all /\ "mode" \notin all /\ "risk" \notin all
        BY <2>2
      <3> QED BY <1>2, <2>2, <3>1 DEF AtRisk
    <2> QED BY <2>1, <2>2
  <1>8. /\ tally'.run["passed"] = IF stage = "risk" THEN run["passed"] + 1 ELSE run["passed"]
        /\ tally'.run["normalizer"]
             = IF stage = "normalizer" THEN run["normalizer"] + 1 ELSE run["normalizer"]
        /\ tally'.run["gates"] = IF stage = "gates" THEN run["gates"] + 1 ELSE run["gates"]
    BY <1>2 DEF Rejections
  <1>9. AtRisk \in Nat
    BY <1>2 DEF AtRisk
  <1> HIDE DEF all
  <1> QED BY <1>1, <1>3, <1>4, <1>5, <1>6, <1>7, <1>8, <1>9 DEF RowsAgree

LEMMA RowsEntered == ASSUME LoopTypes, RowsAgree, Enter PROVE RowsAgree'
  <1>1. /\ Passes /\ tally' = Counted(line, {"normalized", "passed"})
        /\ rows' = RowOf(line) /\ signals' = signals + 1 /\ entered' = Append(entered, line)
    BY DEF Enter
  <1>2. /\ tally'.run["passed"] = tally.run["passed"] + 1 /\ AtRisk' = AtRisk
        /\ tally'.run["normalizer"] = tally.run["normalizer"]
        /\ tally'.run["gates"] = tally.run["gates"] /\ AtRisk \in Nat
    <2>1. \A c \in {"passed", "normalizer", "gates", "tier", "mode", "risk"} :
            /\ tally.run[c] \in Nat
            /\ c \in {"normalized", "passed"} => tally'.run[c] = tally.run[c] + 1
            /\ c \notin {"normalized", "passed"} => tally'.run[c] = tally.run[c]
      BY <1>1, RunCounted DEF LoopTypes, Rejections
    <2> QED BY <2>1 DEF AtRisk
  <1>3. rows \in [Stages -> Nat] /\ signals \in Nat /\ entered \in Seq(Lines) /\ line \in Lines
    BY <1>1, LineFields DEF LoopTypes, Passes
  <1>4. {"normalizer", "gates", "risk", "enter"} \subseteq Stages
    BY DEF Stages
  <1>5. /\ IsFiniteSet(DOMAIN entered) /\ Len(entered') = Len(entered) + 1
        /\ DOMAIN entered' = DOMAIN entered \cup {Len(entered')}
        /\ Len(entered') \notin DOMAIN entered
        /\ \A i \in DOMAIN entered : entered'[i] = entered[i]
        /\ entered'[Len(entered')] = line
    <2>1. entered \in Seq(Lines) /\ line \in Lines /\ entered' = Append(entered, line)
      BY <1>1, <1>3
    <2> QED BY <2>1, Appended
  <1>6. IsFiniteSet(Bought) /\ Len(entered') \notin Bought /\ Cardinality(Bought) \in Nat
    <2>1. Bought \subseteq DOMAIN entered
      BY DEF Bought
    <2> QED BY <1>5, <2>1, FS_Subset, FS_CardinalityType
  <1>7. CASE line.buy
    <2>1. rows' = Add(rows, "enter", 1)
      BY <1>1, <1>7 DEF RowOf
    <2>2. /\ rows'["enter"] = rows["enter"] + 1
          /\ \A s \in {"normalizer", "gates", "risk"} : rows'[s] = rows[s]
      <3>1. rows \in [Stages -> Nat]
        BY <1>3
      <3> QED BY <1>4, <2>1, <3>1 DEF Add
    <2>3. Bought' = Bought \cup {Len(entered')}
      BY <1>5, <1>7 DEF Bought
    <2>4. Cardinality(Bought') = Cardinality(Bought) + 1
      BY <1>6, <2>3, FS_AddElement
    <2> QED BY <1>1, <1>2, <1>3, <1>5, <2>2, <2>4 DEF RowsAgree
  <1>8. CASE ~line.buy
    <2>1. rows' = rows
      BY <1>1, <1>8 DEF RowOf
    <2>2. Bought' = Bought
      BY <1>5, <1>8 DEF Bought
    <2> QED BY <1>1, <1>2, <1>3, <1>5, <2>1, <2>2 DEF RowsAgree
  <1> QED BY <1>7, <1>8

LEMMA CountsStart == Init => TablesAgree /\ RowsAgree
  <1> SUFFICES ASSUME Init PROVE TablesAgree /\ RowsAgree
    OBVIOUS
  <1>1. /\ pc = "next" /\ rows = [s \in Stages |-> 0] /\ signals = 0 /\ entered = <<>>
        /\ tally = [run |-> None, mode |-> [b \in ModeBuckets |-> None],
                    tier |-> [b \in TierBuckets |-> None]]
    BY DEF Init
  <1>2. \A c \in Counters : None[c] = 0
    BY DEF None
  <1>3. \A c \in {"total", "normalizer", "normalized", "filtered", "gates", "passed",
                  "tier", "mode", "risk"} : None[c] = 0
    BY <1>2 DEF Counters, Outcomes, Rejections
  <1>4. /\ tally.run = None
        /\ tally.mode = [b \in ModeBuckets |-> None] /\ tally.tier = [b \in TierBuckets |-> None]
    BY <1>1
  <1>5. Balanced(None, 0)
    BY <1>3 DEF Balanced
  <1>6. ASSUME NEW K, IsFiniteSet(K), NEW c \in Counters, NEW t, t = [b \in K |-> None]
        PROVE  Column(t, c) = 0
    <2> DEFINE f == [b \in K |-> t[b][c]]
    <2>1. DOMAIN t = K /\ DOMAIN f = K
      BY <1>6
    <2>2. \A b \in K : f[b] = 0
      BY <1>2, <1>6
    <2>3. Column(t, c) = SumFunctionOnSet(f, K)
      BY <2>1, Zenon DEF Column, SumFunction
    <2> HIDE DEF f
    <2> QED BY <1>6, <2>2, <2>3, SumOfZeros
  <1>7. \A c \in Counters : Column(tally.mode, c) = 0 /\ Column(tally.tier, c) = 0
    BY <1>4, <1>6, BucketsFinite
  <1>8. TablesAgree
    BY <1>1, <1>2, <1>4, <1>5, <1>7 DEF TablesAgree, InHand
  <1>9. Bought = {} /\ Len(entered) = 0
    BY <1>1 DEF Bought
  <1>10. AtRisk = 0
    BY <1>3, <1>4 DEF AtRisk
  <1>11. rows["normalizer"] = 0 /\ rows["gates"] = 0 /\ rows["risk"] = 0 /\ rows["enter"] = 0
    BY <1>1 DEF Stages
  <1>12. RowsAgree
    BY <1>1, <1>3, <1>4, <1>9, <1>10, <1>11, FS_EmptySet DEF RowsAgree
  <1> QED BY <1>8, <1>12

\* The summary of the run, of each mode and of each tier, the rows of the dump and the
\* signals tell one story after any number of lines.
THEOREM CountsHold == Spec => []CountsAddUp
  <1>1. Init => CountsAddUp
    BY CountsStart, CountsAre
  <1>2. ASSUME TypeOK, CountsAddUp, [Next]_vars PROVE CountsAddUp'
    <2>0. LoopTypes /\ (pc = "died" \/ (TablesAgree /\ RowsAgree))
      BY <1>2, TypesAre, CountsAre
    <2> SUFFICES (pc = "died" \/ (TablesAgree /\ RowsAgree))'
      BY DEF CountsAddUp, TablesAgree, RowsAgree
    <2>1. CASE UNCHANGED pipeline
      <3>1. UNCHANGED <<pc, line, tally, rows, signals, entered>>
        BY <2>1 DEF pipeline
      <3> QED BY <2>0, <3>1 DEF TablesAgree, RowsAgree, InHand, AtRisk, Bought
    <2>2. ASSUME NEW l \in Lines, NextLine(l)
          PROVE  (pc = "died" \/ (TablesAgree /\ RowsAgree))'
      <3>1. /\ pc = "next" /\ line' = l /\ UNCHANGED <<rows, signals, entered>>
        BY <2>2 DEF NextLine
      <3>2. TablesAgree /\ RowsAgree /\ tally \in Tables /\ line \in Lines \cup {Nobody}
        BY <2>0, <3>1 DEF LoopTypes
      <3>3. CASE options.dryRun
        <4>1. pc' = "line" /\ tally' = Counted(l, {"total"})
          BY <2>2, <3>3 DEF NextLine
        <4>2. TablesAgree'
          BY <3>1, <3>2, <4>1, TablesTaken
        <4>3. \A c \in {"passed", "normalizer", "gates", "tier", "mode", "risk"} :
                tally'.run[c] = tally.run[c]
          <5>1. {"passed", "normalizer", "gates", "tier", "mode", "risk"} \subseteq Counters
            BY DEF Counters, Outcomes, Rejections
          <5>2. tally'.run = Increment(tally.run, {"total"}) /\ tally.run \in [Counters -> Nat]
            BY <3>2, <4>1, CountedIs DEF Tables
          <5> QED BY <5>1, <5>2, IncrementIs
        <4>4. RowsAgree'
          BY <3>1, <3>2, <4>3 DEF RowsAgree, AtRisk, Bought
        <4> QED BY <4>2, <4>4
      <3>4. CASE ~options.dryRun
        BY <2>2, <3>4 DEF NextLine
      <3> QED BY <3>3, <3>4
    <2>3. CASE EndOfInput
      <3>1. pc = "next" /\ pc' = "done" /\ UNCHANGED <<line, tally, rows, signals, entered>>
        BY <2>3 DEF EndOfInput
      <3>2. TablesAgree'
        BY <2>0, <3>1 DEF TablesAgree, InHand
      <3>3. RowsAgree'
        BY <2>0, <3>1 DEF RowsAgree, AtRisk, Bought
      <3> QED BY <3>2, <3>3
    <2>4. ASSUME NEW outcome, NEW cs, NEW stage, Stop(outcome, cs, stage),
                 \/ outcome = "normalizer" /\ cs = {} /\ stage = "normalizer"
                 \/ outcome = "filtered" /\ cs = {"normalized"} /\ stage = "none"
                 \/ outcome = "gates" /\ cs = {"normalized"} /\ stage = "gates"
                 \/ outcome \in Rejections /\ cs = {"normalized", "passed"} /\ stage = "risk"
          PROVE  (TablesAgree /\ RowsAgree)'
      <3>1. pc = "line" /\ pc' = "next" /\ tally' = Counted(line, cs \cup {outcome})
        BY <2>4 DEF Stop
      <3>2. cs \cup {outcome} \in Ends
        BY <2>4 DEF Ends
      <3>3. TablesAgree /\ RowsAgree /\ tally \in Tables /\ line \in Lines \cup {Nobody}
        BY <2>0, <3>1 DEF LoopTypes
      <3>4. TablesAgree'
        BY <3>1, <3>2, <3>3, TablesEnded
      <3>5. RowsAgree'
        BY <2>0, <2>4, <3>3, RowsStopped
      <3> QED BY <3>4, <3>5
    <2>5. ASSUME Enter PROVE (TablesAgree /\ RowsAgree)'
      <3>1. pc = "line" /\ pc' = "next" /\ tally' = Counted(line, {"normalized", "passed"})
        BY <2>5 DEF Enter
      <3>2. {"normalized", "passed"} \in Ends
        BY DEF Ends
      <3>3. TablesAgree /\ RowsAgree /\ tally \in Tables /\ line \in Lines \cup {Nobody}
        BY <2>0, <3>1 DEF LoopTypes
      <3>4. TablesAgree'
        BY <3>1, <3>2, <3>3, TablesEnded
      <3> QED BY <2>0, <2>5, <3>3, <3>4, RowsEntered
    <2>6. CASE Process
      BY <2>4, <2>5, <2>6, Endings
    <2> QED BY <1>2, <2>1, <2>2, <2>3, <2>6 DEF Next, vars, pipeline
  <1> QED BY <1>1, <1>2, TypeCorrect, PTL DEF Spec

-----------------------------------------------------------------------------
(* The limits.                                                             *)

\* What the portfolio holds is what was let in: exactly, in number and by tier; at least,
\* by mode, where a trade may be booked twice.
Books ==
  /\ portfolio.open = Len(entered)
  /\ \A t \in Tiers : portfolio.tiers[t] = Cardinality(OfTier(t))
  /\ \A m \in DOMAIN ModeMax : /\ Cardinality(OfMode(m)) <= portfolio.modes[m]
                               /\ Value(OfMode(m)) <= portfolio.exposure[m]
  /\ pc = "line" => limit <= highest

Within ==
  /\ Len(entered) <= highest
  /\ OfTier("") # {} => Cardinality(OfTier("")) <= FallbackMax
  /\ \A t \in DOMAIN TierMax : Cardinality(OfTier(t)) <= TierMax[t]
  /\ \A m \in DOMAIN ModeMax : /\ Cardinality(OfMode(m)) <= ModeMax[m]
                               /\ OfMode(m) # {} => Value(OfMode(m)) < ModeExposure[m]

LEMMA AdmissionsAre == AdmissionsLimited <=> options.skipRisk \/ Within
  BY DEF AdmissionsLimited, Within

LEMMA ModeNames == DOMAIN ModeMax \subseteq Names /\ DOMAIN ModeExposure = DOMAIN ModeMax
  BY LimitAssumption DEF Names, ModeBuckets

\* The trades of a tier, or of a mode, are finitely many, and worth a number.
LEMMA TradesFinite ==
  ASSUME entered \in Seq(Lines), NEW n
  PROVE  /\ IsFiniteSet(OfTier(n)) /\ Cardinality(OfTier(n)) \in Nat
         /\ Cardinality(OfTier(n)) <= Len(entered)
         /\ IsFiniteSet(OfMode(n)) /\ Cardinality(OfMode(n)) \in Nat
         /\ Value(OfMode(n)) \in Int
  <1>1. DOMAIN entered = 1..Len(entered) /\ Len(entered) \in Nat
    OBVIOUS
  <1>2. IsFiniteSet(DOMAIN entered) /\ Cardinality(DOMAIN entered) = Len(entered)
    BY <1>1, FS_Interval
  <1>3. OfTier(n) \subseteq DOMAIN entered /\ OfMode(n) \subseteq DOMAIN entered
    BY DEF OfTier, OfMode
  <1>4. /\ IsFiniteSet(OfTier(n)) /\ Cardinality(OfTier(n)) <= Cardinality(DOMAIN entered)
        /\ IsFiniteSet(OfMode(n))
    BY <1>2, <1>3, FS_Subset
  <1>5. Cardinality(OfTier(n)) \in Nat /\ Cardinality(OfMode(n)) \in Nat
    BY <1>4, FS_CardinalityType
  <1>6. Value(OfMode(n)) \in Int
    <2> DEFINE sizes == [i \in DOMAIN entered |-> entered[i].size]
    <2>1. \A i \in OfMode(n) : sizes[i] \in Int
      <3> SUFFICES ASSUME NEW i \in OfMode(n) PROVE sizes[i] \in Int
        OBVIOUS
      <3>1. i \in DOMAIN entered /\ entered[i] \in Lines
        BY <1>1, <1>3
      <3>2. entered[i].size \in Nat
        BY <3>1, LineFields
      <3> QED BY <3>1, <3>2
    <2> HIDE DEF sizes
    <2>2. SumFunctionOnSet(sizes, OfMode(n)) \in Int
      BY <1>4, <2>1, SumByAny
    <2> QED BY <2>2 DEF Value, sizes
  <1> QED BY <1>2, <1>4, <1>5, <1>6

\* One more trade: it is one of its tier and of its mode, and adds its size to the mode's.
LEMMA OneMore ==
  ASSUME entered \in Seq(Lines), NEW l \in Lines, entered' = Append(entered, l)
  PROVE  /\ \A t : /\ t = l.tier => Cardinality(OfTier(t))' = Cardinality(OfTier(t)) + 1
                   /\ t # l.tier => OfTier(t)' = OfTier(t)
         /\ \A m : /\ HasExtra(l) /\ m = RiskMode(l)
                        => /\ Cardinality(OfMode(m))' = Cardinality(OfMode(m)) + 1
                           /\ Value(OfMode(m))' = Value(OfMode(m)) + l.size
                   /\ ~(HasExtra(l) /\ m = RiskMode(l))
                        => /\ OfMode(m)' = OfMode(m)
                           /\ Value(OfMode(m))' = Value(OfMode(m))
  <1> DEFINE n == Len(entered')
  <1>1. /\ IsFiniteSet(DOMAIN entered) /\ DOMAIN entered' = DOMAIN entered \cup {n}
        /\ n \notin DOMAIN entered
        /\ \A i \in DOMAIN entered : entered'[i] = entered[i]
        /\ entered'[n] = l
    BY Appended
  <1> HIDE DEF n
  <1>2. PICK sizes : sizes = [i \in DOMAIN entered |-> entered[i].size]
    OBVIOUS
  <1>3. PICK after : after = [i \in DOMAIN entered' |-> entered'[i].size]
    OBVIOUS
  <1>4. /\ \A i \in DOMAIN entered : after[i] = sizes[i] /\ sizes[i] \in Int
        /\ after[n] = l.size /\ l.size \in Int
    <2>1. l.size \in Nat /\ \A i \in DOMAIN entered : entered[i].size \in Nat
      <3>1. \A i \in DOMAIN entered : entered[i] \in Lines
        OBVIOUS
      <3> QED BY <3>1, LineFields
    <2> QED BY <1>1, <1>2, <1>3, <2>1
  <1>5. ASSUME NEW t
        PROVE  /\ t = l.tier => Cardinality(OfTier(t))' = Cardinality(OfTier(t)) + 1
               /\ t # l.tier => OfTier(t)' = OfTier(t)
    <2>1. OfTier(t) = {i \in DOMAIN entered : entered[i].tier = t}
      BY DEF OfTier
    <2>2. OfTier(t)' = {i \in DOMAIN entered' : entered'[i].tier = t}
      BY DEF OfTier
    <2>3. CASE t = l.tier
      <3>1. OfTier(t)' = OfTier(t) \cup {n} /\ n \notin OfTier(t)
        BY <1>1, <2>1, <2>2, <2>3
      <3>2. Cardinality(OfTier(t) \cup {n}) = Cardinality(OfTier(t)) + 1
        BY <3>1, TradesFinite, FS_AddElement
      <3> QED BY <2>3, <3>1, <3>2
    <2>4. CASE t # l.tier
      BY <1>1, <2>1, <2>2, <2>4
    <2> QED BY <2>3, <2>4
  <1>6. ASSUME NEW m
        PROVE  /\ HasExtra(l) /\ m = RiskMode(l)
                    => /\ Cardinality(OfMode(m))' = Cardinality(OfMode(m)) + 1
                       /\ Value(OfMode(m))' = Value(OfMode(m)) + l.size
               /\ ~(HasExtra(l) /\ m = RiskMode(l))
                    => /\ OfMode(m)' = OfMode(m)
                       /\ Value(OfMode(m))' = Value(OfMode(m))
    <2>1. OfMode(m) = {i \in DOMAIN entered : HasExtra(entered[i]) /\ RiskMode(entered[i]) = m}
      BY DEF OfMode
    <2>2. OfMode(m)'
            = {i \in DOMAIN entered' : HasExtra(entered'[i]) /\ RiskMode(entered'[i]) = m}
      BY DEF OfMode, HasExtra, RiskMode
    <2>3. /\ OfMode(m) \subseteq DOMAIN entered /\ IsFiniteSet(OfMode(m)) /\ n \notin OfMode(m)
      BY <1>1, <2>1, TradesFinite
    <2>4. Value(OfMode(m)) = SumFunctionOnSet(sizes, OfMode(m))
      BY <1>2 DEF Value
    <2>5. Value(OfMode(m))' = SumFunctionOnSet(after, OfMode(m)')
      BY <1>3 DEF Value
    <2>6. SumFunctionOnSet(after, OfMode(m)) = SumFunctionOnSet(sizes, OfMode(m))
      BY <1>4, <2>3, SumOfSame
    <2>7. CASE HasExtra(l) /\ m = RiskMode(l)
      <3>1. OfMode(m)' = OfMode(m) \cup {n}
        BY <1>1, <2>1, <2>2, <2>7
      <3>2. Cardinality(OfMode(m) \cup {n}) = Cardinality(OfMode(m)) + 1
        BY <2>3, FS_AddElement
      <3>3. \A i \in OfMode(m) \cup {n} : after[i] \in Int
        BY <1>4, <2>3
      <3>4. SumFunctionOnSet(after, OfMode(m) \cup {n})
              = SumFunctionOnSet(after, OfMode(m)) + after[n]
        BY <2>3, <3>3, SumWith
      <3> QED BY <1>4, <2>4, <2>5, <2>6, <2>7, <3>1, <3>2, <3>4
    <2>8. CASE ~(HasExtra(l) /\ m = RiskMode(l))
      <3>1. OfMode(m)' = OfMode(m)
        BY <1>1, <2>1, <2>2, <2>8
      <3> QED BY <2>4, <2>5, <2>6, <2>8, <3>1
    <2> QED BY <2>7, <2>8
  <1> QED BY <1>5, <1>6

\* The risk stage lets in a trade that every table has room for.
LEMMA EnterWithin ==
  ASSUME LoopTypes, Books, Within, ~options.skipRisk, Enter
  PROVE  Books' /\ Within'
  <1>1. /\ Passes /\ pc = "line" /\ pc' = "next" /\ Reason(line) = "none"
        /\ portfolio' = AfterPipeline(AfterRiskStage(portfolio, line), line)
        /\ entered' = Append(entered, line) /\ highest' = highest
    BY DEF Enter
  <1>2. TierAllows(line) /\ ModeAllows(line) /\ ~(portfolio.open >= limit)
    <2>1. Reason(line) = "none"
      BY <1>1
    <2>2. CASE ~TierAllows(line)
      BY <2>1, <2>2 DEF Reason
    <2>3. CASE TierAllows(line) /\ ~ModeAllows(line)
      BY <2>1, <2>3 DEF Reason
    <2>4. CASE TierAllows(line) /\ ModeAllows(line) /\ portfolio.open >= limit
      BY <2>1, <2>4 DEF Reason
    <2> QED BY <2>2, <2>3, <2>4
  <1>3. line \in Lines /\ entered \in Seq(Lines) /\ portfolio \in Portfolios
    BY <1>1, LineFields DEF LoopTypes, Passes
  <1>4. line.size \in Nat
    BY <1>3, LineFields
  <1>5. Len(entered) \in Nat /\ Len(entered') = Len(entered) + 1
    BY <1>1, <1>3, Appended
  <1>6. /\ portfolio'.open = portfolio.open + 1
        /\ line.tier # "" => portfolio'.tiers[line.tier] = portfolio.tiers[line.tier] + 1
        /\ \A t \in Tiers : t # line.tier => portfolio'.tiers[t] = portfolio.tiers[t]
        /\ \A m \in Names : /\ portfolio.modes[m] <= portfolio'.modes[m]
                            /\ portfolio.exposure[m] <= portfolio'.exposure[m]
        /\ HasExtra(line)
             => /\ portfolio.modes[RiskMode(line)] + 1 <= portfolio'.modes[RiskMode(line)]
                /\ portfolio.exposure[RiskMode(line)] + line.size
                     <= portfolio'.exposure[RiskMode(line)]
        /\ portfolio' \in Portfolios
    BY <1>1, <1>3, Bookings
  <1>7. /\ \A m \in Names : /\ portfolio.modes[m] \in Nat /\ portfolio.exposure[m] \in Nat
                            /\ portfolio'.modes[m] \in Nat /\ portfolio'.exposure[m] \in Nat
        /\ \A t \in Tiers : portfolio.tiers[t] \in Nat
        /\ portfolio.open \in Nat
    <2>1. /\ portfolio.modes \in [Names -> Nat] /\ portfolio.exposure \in [Names -> Nat]
          /\ portfolio'.modes \in [Names -> Nat] /\ portfolio'.exposure \in [Names -> Nat]
          /\ portfolio.tiers \in [Tiers -> Nat] /\ portfolio.open \in Nat
      BY <1>3, <1>6 DEF Portfolios
    <2> QED BY <2>1
  <1>8. /\ \A t : /\ t = line.tier => Cardinality(OfTier(t))' = Cardinality(OfTier(t)) + 1
                  /\ t # line.tier => OfTier(t)' = OfTier(t)
        /\ \A m : /\ HasExtra(line) /\ m = RiskMode(line)
                       => /\ Cardinality(OfMode(m))' = Cardinality(OfMode(m)) + 1
                          /\ Value(OfMode(m))' = Value(OfMode(m)) + line.size
                  /\ ~(HasExtra(line) /\ m = RiskMode(line))
                       => /\ OfMode(m)' = OfMode(m)
                          /\ Value(OfMode(m))' = Value(OfMode(m))
    BY <1>1, <1>3, OneMore
  <1>9. portfolio'.open = Len(entered')
    BY <1>5, <1>6 DEF Books
  <1>10. Len(entered') <= highest'
    <2>1. limit \in Nat /\ highest \in Nat
      BY ContentsType DEF LoopTypes
    <2>2. portfolio.open < limit /\ limit <= highest /\ portfolio.open = Len(entered)
      BY <1>1, <1>2, <1>7, <2>1 DEF Books
    <2> QED BY <1>1, <1>5, <2>1, <2>2
  <1>11. ASSUME NEW t \in Tiers
         PROVE  /\ portfolio'.tiers[t] = Cardinality(OfTier(t)')
                /\ t \in DOMAIN TierMax => Cardinality(OfTier(t)') <= TierMax[t]
    <2>0. t # ""
      BY NamesAssumption
    <2>1. portfolio.tiers[t] = Cardinality(OfTier(t)) /\ portfolio.tiers[t] \in Nat
      BY <1>7 DEF Books
    <2>2. t \in DOMAIN TierMax => TierMax[t] \in Nat /\ Cardinality(OfTier(t)) <= TierMax[t]
      BY LimitAssumption DEF Within
    <2>3. CASE t = line.tier
      <3>1. Cardinality(OfTier(t)') = Cardinality(OfTier(t)) + 1
        BY <1>8, <2>3
      <3>2. portfolio'.tiers[t] = portfolio.tiers[t] + 1
        BY <1>6, <2>0, <2>3
      <3>3. t \in DOMAIN TierMax => portfolio.tiers[t] < TierMax[t]
        BY <1>2, <2>0, <2>3 DEF TierAllows
      <3>4. portfolio'.tiers[t] = Cardinality(OfTier(t)')
        BY <2>1, <3>1, <3>2
      <3>5. ASSUME t \in DOMAIN TierMax PROVE Cardinality(OfTier(t)') <= TierMax[t]
        <4>1. TierMax[t] \in Nat /\ portfolio.tiers[t] < TierMax[t]
          BY <2>2, <3>3, <3>5
        <4>2. portfolio.tiers[t] + 1 <= TierMax[t]
          BY <2>1, <4>1
        <4>3. Cardinality(OfTier(t)') = portfolio.tiers[t] + 1
          BY <2>1, <3>1
        <4> QED BY <4>2, <4>3
      <3> QED BY <3>4, <3>5
    <2>4. CASE t # line.tier
      <3>1. OfTier(t)' = OfTier(t) /\ portfolio'.tiers[t] = portfolio.tiers[t]
        BY <1>6, <1>8, <2>4
      <3> QED BY <2>1, <2>2, <3>1
    <2> QED BY <2>3, <2>4
  <1>12. OfTier("")' # {} => Cardinality(OfTier("")') <= FallbackMax
    <2>1. CASE line.tier = ""
      <3>1. portfolio.open < FallbackMax /\ portfolio.open = Len(entered)
        BY <1>2, <2>1 DEF TierAllows, Books
      <3>2. Cardinality(OfTier("")') = Cardinality(OfTier("")) + 1
        BY <1>8, <2>1
      <3>3. Cardinality(OfTier("")) <= Len(entered) /\ Cardinality(OfTier("")) \in Nat
        BY <1>3, TradesFinite
      <3>4. FallbackMax \in Nat
        BY LimitAssumption
      <3>5. PICK before : before = Cardinality(OfTier(""))
        OBVIOUS
      <3>6. before <= Len(entered) /\ before \in Nat
        BY <3>3, <3>5
      <3>7. before + 1 <= FallbackMax
        BY <1>5, <3>1, <3>4, <3>6
      <3> QED BY <3>2, <3>5, <3>7
    <2>2. CASE line.tier # ""
      <3>1. OfTier("")' = OfTier("")
        BY <1>8, <2>2
      <3> QED BY <3>1 DEF Within
    <2> QED BY <2>1, <2>2
  <1>13. ASSUME NEW m \in DOMAIN ModeMax
         PROVE  /\ Cardinality(OfMode(m)') <= portfolio'.modes[m]
                /\ Value(OfMode(m))' <= portfolio'.exposure[m]
                /\ Cardinality(OfMode(m)') <= ModeMax[m]
                /\ OfMode(m)' # {} => Value(OfMode(m))' < ModeExposure[m]
    <2>1. /\ m \in Names /\ ModeMax[m] \in Nat /\ ModeExposure[m] \in Nat
      BY ModeNames, LimitAssumption
    <2>2. /\ portfolio.modes[m] \in Nat /\ portfolio.exposure[m] \in Nat
          /\ portfolio'.modes[m] \in Nat /\ portfolio'.exposure[m] \in Nat
      BY <1>7, <2>1
    <2>3. /\ Cardinality(OfMode(m)) \in Nat /\ Value(OfMode(m)) \in Int
      BY <1>3, TradesFinite
    <2>4. /\ Cardinality(OfMode(m)) <= portfolio.modes[m]
          /\ Value(OfMode(m)) <= portfolio.exposure[m]
      BY DEF Books
    <2>5. /\ Cardinality(OfMode(m)) <= ModeMax[m]
          /\ OfMode(m) # {} => Value(OfMode(m)) < ModeExposure[m]
      BY DEF Within
    <2>6. CASE HasExtra(line) /\ m = RiskMode(line)
      <3>1. /\ Cardinality(OfMode(m)') = Cardinality(OfMode(m)) + 1
            /\ Value(OfMode(m))' = Value(OfMode(m)) + line.size
        BY <1>8, <2>6
      <3>2. /\ portfolio.modes[m] + 1 <= portfolio'.modes[m]
            /\ portfolio.exposure[m] + line.size <= portfolio'.exposure[m]
        BY <1>6, <2>6
      <3>3. /\ portfolio.modes[m] < ModeMax[m]
            /\ portfolio.exposure[m] + line.size < ModeExposure[m]
        BY <1>2, <2>6 DEF ModeAllows
      <3>4. Cardinality(OfMode(m)') <= portfolio'.modes[m] /\ Cardinality(OfMode(m)') <= ModeMax[m]
        BY <2>1, <2>2, <2>3, <2>4, <3>1, <3>2, <3>3
      <3>5. /\ Value(OfMode(m))' <= portfolio'.exposure[m]
            /\ Value(OfMode(m))' < ModeExposure[m]
        <4>1. Value(OfMode(m)) + line.size <= portfolio.exposure[m] + line.size
          BY <1>4, <2>2, <2>3, <2>4
        <4>2. portfolio.exposure[m] + line.size \in Nat /\ Value(OfMode(m)) + line.size \in Int
          BY <1>4, <2>2, <2>3
        <4>3. Value(OfMode(m)) + line.size <= portfolio'.exposure[m]
          BY <2>2, <3>2, <4>1, <4>2
        <4>4. Value(OfMode(m)) + line.size < ModeExposure[m]
          BY <2>1, <3>3, <4>1, <4>2
        <4> QED BY <3>1, <4>3, <4>4
      <3> QED BY <3>4, <3>5
    <2>7. CASE ~(HasExtra(line) /\ m = RiskMode(line))
      <3>1. OfMode(m)' = OfMode(m) /\ Value(OfMode(m))' = Value(OfMode(m))
        BY <1>8, <2>7
      <3>2. portfolio.modes[m] <= portfolio'.modes[m] /\ portfolio.exposure[m] <= portfolio'.exposure[m]
        BY <1>6, <2>1
      <3> QED BY <2>1, <2>2, <2>3, <2>4, <2>5, <3>1, <3>2
    <2> QED BY <2>6, <2>7
  <1>14. Books'
    BY <1>1, <1>9, <1>11, <1>13 DEF Books
  <1>15. Within'
    <2>1. DOMAIN TierMax \subseteq Tiers
      BY LimitAssumption
    <2> QED BY <1>10, <1>11, <1>12, <1>13, <2>1 DEF Within
  <1> QED BY <1>14, <1>15

LEMMA NothingEntered ==
  ASSUME Books, Within, UNCHANGED <<portfolio, entered>>, highest' >= highest, highest \in Nat,
         highest' \in Nat, Len(entered) \in Nat, pc' = "line" => limit' <= highest'
  PROVE  Books' /\ Within'
  <1>1. /\ \A t : OfTier(t)' = OfTier(t)
        /\ \A m : OfMode(m)' = OfMode(m) /\ Value(OfMode(m))' = Value(OfMode(m))
    BY DEF OfTier, OfMode, Value
  <1>2. Books'
    BY <1>1 DEF Books
  <1>3. Len(entered') <= highest'
    <2>1. Len(entered) <= highest /\ Len(entered') = Len(entered)
      BY DEF Within
    <2> QED BY <2>1
  <1>4. Within'
    BY <1>1, <1>3 DEF Within
  <1> QED BY <1>2, <1>4

LEMMA BooksStart == Init => Books /\ Within
  <1> SUFFICES ASSUME Init PROVE Books /\ Within
    OBVIOUS
  <1>1. /\ entered = <<>> /\ pc = "next" /\ highest = 0
    BY DEF Init
  <1>2. portfolio = [open |-> 0, tiers |-> [t \in Tiers |-> 0],
                     modes |-> [m \in Names |-> 0], exposure |-> [m \in Names |-> 0]]
    BY DEF Init, Names
  <1>3. \A n : OfTier(n) = {} /\ OfMode(n) = {}
    BY <1>1 DEF OfTier, OfMode
  <1>4. Value({}) = 0 /\ Cardinality({}) = 0 /\ Len(entered) = 0
    BY <1>1, SumOfNothing, FS_EmptySet DEF Value
  <1>5. /\ portfolio.open = 0
        /\ \A t \in Tiers : portfolio.tiers[t] = 0
        /\ \A m \in DOMAIN ModeMax : portfolio.modes[m] = 0 /\ portfolio.exposure[m] = 0
    BY <1>2, ModeNames
  <1>6. Books
    <2>1. \A n : Cardinality(OfTier(n)) = 0 /\ Cardinality(OfMode(n)) = 0 /\ Value(OfMode(n)) = 0
      BY <1>3, <1>4
    <2> QED BY <1>1, <1>4, <1>5, <2>1 DEF Books
  <1>7. Within
    <2>1. /\ \A t \in DOMAIN TierMax : TierMax[t] \in Nat
          /\ \A m \in DOMAIN ModeMax : ModeMax[m] \in Nat
      BY LimitAssumption
    <2>2. \A n : OfTier(n) = {} /\ OfMode(n) = {} /\ Cardinality(OfTier(n)) = 0
                 /\ Cardinality(OfMode(n)) = 0
      BY <1>3, <1>4
    <2>3. OfTier("") = {}
      BY <2>2
    <2>4. \A t \in DOMAIN TierMax : Cardinality(OfTier(t)) <= TierMax[t]
      BY <2>1, <2>2
    <2>5. \A m \in DOMAIN ModeMax : OfMode(m) = {} /\ Cardinality(OfMode(m)) <= ModeMax[m]
      BY <2>1, <2>2
    <2>6. Len(entered) <= highest
      BY <1>1, <1>4
    <2> QED BY <2>3, <2>4, <2>5, <2>6 DEF Within
  <1> QED BY <1>6, <1>7

\* Whatever the lines, the configured limits and the edits made while they are processed,
\* the trades let in stay within the limits of their tier, of their mode, of the wallets
\* without a profile, and of the highest configuration that was in force.
THEOREM AdmissionsHold == Spec => []AdmissionsLimited
  <1> DEFINE Inv == options.skipRisk \/ (Books /\ Within)
  <1>1. Init => Inv
    BY BooksStart
  <1>2. ASSUME TypeOK, Inv, [Next]_vars PROVE Inv'
    <2>1. CrTypeOK /\ LoopTypes
      BY <1>2, TypesAre
    <2>2. options' = options
      BY <1>2 DEF Next, vars, pipeline, NextLine, EndOfInput, Process, NormalizerRejects,
                  FilteredOut, GatesReject, RiskRejects, Stop, Enter
    <2>3. CASE options.skipRisk
      BY <2>2, <2>3
    <2>4. CASE ~options.skipRisk
      <3>1. Books /\ Within
        BY <1>2, <2>4
      <3>2. highest \in Nat /\ limit \in Nat /\ Len(entered) \in Nat
        BY <2>1, ContentsType DEF LoopTypes
      <3>3. CASE \/ UNCHANGED pipeline \/ EndOfInput
                 \/ \E outcome, cs, stage : Stop(outcome, cs, stage)
        <4>1. /\ UNCHANGED <<portfolio, entered, highest, limit>>
              /\ pc' = "line" => pc = "line"
          BY <3>3 DEF pipeline, EndOfInput, Stop
        <4>2. pc = "line" => limit <= highest
          BY <3>1 DEF Books
        <4> QED BY <3>1, <3>2, <4>1, <4>2, NothingEntered
      <3>4. ASSUME NEW l \in Lines, NextLine(l) PROVE Books' /\ Within'
        <4>1. /\ UNCHANGED <<portfolio, entered>> /\ limit' = RuntimeLimit
              /\ highest' = IF RuntimeLimit > highest THEN RuntimeLimit ELSE highest
          BY <3>4 DEF NextLine
        <4>2. RuntimeLimit \in Nat
          BY <2>1, RuntimeLimitType, ContentsType
        <4>3. highest' >= highest /\ limit' <= highest' /\ highest' \in Nat
          BY <3>2, <4>1, <4>2
        <4> QED BY <3>1, <3>2, <4>1, <4>3, NothingEntered
      <3>5. CASE Enter
        BY <2>1, <2>4, <3>1, <3>5, EnterWithin
      <3>6. CASE Process
        BY <3>3, <3>5, <3>6, Endings
      <3> QED BY <1>2, <3>3, <3>4, <3>5, <3>6 DEF Next, vars, pipeline
    <2> QED BY <2>3, <2>4
  <1>3. Inv => AdmissionsLimited
    BY AdmissionsAre
  <1> HIDE DEF Inv
  <1> QED BY <1>1, <1>2, <1>3, TypeCorrect, PTL DEF Spec
=============================================================================
