------------------------ MODULE IdempotencyLockProofs ------------------------
(***************************************************************************)
(* Proofs about the idempotency locks, for any number of processes, keys   *)
(* and inodes: what holds however calls interleave, and what holds as long *)
(* as they do not overlap, crashes included.                               *)
(***************************************************************************)
EXTENDS IdempotencyLock, TLAPS

\* What a lock file may hold: no lock lasts longer than a TTL from now.
Within == [Keys -> 0 .. now + Ttl]

\* Types, with the clock in them.
Shape ==
  /\ TypeOK
  /\ content \in [Inodes -> Within]
  /\ locks \in [Processes -> Within]
  /\ at \in [Processes -> 0..now]
  /\ \A p \in Processes : op[p] # "prune" => key[p] \in Keys
  /\ tempFile # stateFile

-----------------------------------------------------------------------------
(* What one call at a time adds.                                           *)

Alone == \A p, q \in Processes : pc[p] # "idle" /\ pc[q] # "idle" => p = q

\* What a call is about to put in place of the state file.
Prepared(p) == IF pc[p] = "rename" THEN content[tempFile] ELSE locks[p]

\* It has every lock that is still valid, but one that is being released, and in an
\* acquire_lock the one it is to grant, for which the state file has no valid lock; of the
\* keys that a failed read went past nothing is said.
Faithful(p) ==
  pc[p] \in {"open", "write", "rename"} =>
    /\ \A k \in Keys \ missed :
         content[stateFile][k] > now /\ ~(op[p] = "release" /\ key[p] = k)
           => Prepared(p)[k] = content[stateFile][k]
    /\ op[p] = "acquire" => /\ Prepared(p)[key[p]] = at[p] + Ttl
                            /\ key[p] \notin missed => content[stateFile][key[p]] <= now
    /\ pc[p] = "write" => tempFile = handle[p] /\ content[tempFile] = Empty
    /\ pc[p] \in {"write", "rename"} => tempFile # NoInode

OnDisk == \A g \in grants :
            g.expiry > now /\ (g.key \notin missed => content[stateFile][g.key] = g.expiry)

GrantedOnce == \A g, h \in grants : g.key = h.key /\ g.key \notin missed => g = h

InTurn == /\ Alone /\ OnDisk /\ GrantedOnce
          /\ \A p \in Processes : Faithful(p)

TurnInv == Shape /\ (~overlapped => InTurn)

-----------------------------------------------------------------------------
(* Lemmas about the operations.                                            *)

LEMMA WithinIsLocks == ASSUME Shape PROVE Within \subseteq Locks /\ Empty \in Within
  BY TtlAssumption DEF Shape, TypeOK, Within, Locks, Empty, Time

\* Time only stretches the horizon.
LEMMA WithinGrows == ASSUME Shape, now' >= now, now' \in Nat PROVE Within \subseteq Within'
  BY TtlAssumption DEF Shape, TypeOK, Within, Time

\* What an operation makes of the locks it read lasts no longer than a TTL.
LEMMA UpdatedIsWithin ==
  ASSUME Shape, NEW p \in Processes, NEW read \in Within
  PROVE  Updated(p, read) \in Within
  <1>1. now \in Nat /\ Ttl \in Nat /\ at[p] \in 0..now /\ op[p] \in {"acquire", "release", "prune"}
    BY TtlAssumption DEF Shape, TypeOK, Time
  <1>2. at[p] + Ttl \in 0 .. now + Ttl /\ 0 \in 0 .. now + Ttl
    BY <1>1
  <1>3. CASE op[p] = "acquire"
    <2>1. Updated(p, read) = [read EXCEPT ![key[p]] = at[p] + Ttl]
      BY <1>3 DEF Updated
    <2> QED BY <1>2, <2>1 DEF Within
  <1>4. CASE op[p] = "release"
    <2>1. Updated(p, read) = [read EXCEPT ![key[p]] = 0]
      BY <1>4 DEF Updated
    <2> QED BY <1>2, <2>1 DEF Within
  <1>5. CASE op[p] = "prune"
    <2>1. Updated(p, read) = [k \in Keys |-> IF read[k] > now THEN read[k] ELSE 0]
      BY <1>5 DEF Updated
    <2> QED BY <1>2, <2>1 DEF Within
  <1> QED BY <1>1, <1>3, <1>4, <1>5

\* What reaches the file is what was to be written, or also lines that were there.
LEMMA OverlaysAreWithin ==
  ASSUME NEW old \in Within, NEW new \in Within, NEW c \in Overlays(old, new)
  PROVE  c \in Within
  BY DEF Overlays, Within

\* An emptied file keeps nothing of its own.
LEMMA OverlayOfEmpty ==
  ASSUME NEW new \in Within, NEW c \in Overlays(Empty, new)
  PROVE  c = new
  <1>1. Lines(Empty) = {}
    BY DEF Lines, Empty
  <1>2. PICK kept \in SUBSET {} : c = [k \in Keys |-> IF k \in kept THEN Empty[k] ELSE new[k]]
    <2> DEFINE tail == IF Cardinality(Lines(Empty)) > Cardinality(Lines(new))
                       THEN Lines(Empty) \ Lines(new) ELSE {}
    <2>1. tail = {}
      BY <1>1
    <2>2. \E kept \in SUBSET tail : c = [k \in Keys |-> IF k \in kept THEN Empty[k] ELSE new[k]]
      BY DEF Overlays
    <2> HIDE DEF tail
    <2> QED BY <2>1, <2>2
  <1>3. c = [k \in Keys |-> new[k]]
    BY <1>2
  <1> QED BY <1>3 DEF Within

\* Sweeping keeps the files that have a name.
LEMMA SweepKeepsNamed ==
  ASSUME Shape, Sweep, stateFile' \in Inodes, tempFile' \in Inodes \cup {NoInode}
  PROVE  /\ content' \in [Inodes -> Within]
         /\ content'[stateFile'] = content[stateFile']
         /\ tempFile' # NoInode => content'[tempFile'] = content[tempFile']
  <1>1. content' = [i \in Inodes |->
          IF i \in {stateFile', tempFile'} \cup {handle'[p] : p \in Processes}
            THEN content[i] ELSE Empty]
    BY DEF Sweep
  <1>2. content \in [Inodes -> Within] /\ Empty \in Within
    BY WithinIsLocks DEF Shape
  <1> QED BY <1>1, <1>2

\* An operation that returns leaves its process idle and touches no other.
LEMMA ReturnEffect ==
  ASSUME Shape, NEW p \in Processes, Return(p)
  PROVE  /\ pc' \in [Processes -> {"idle", "read", "open", "write", "rename", "cleanup"}]
         /\ op' \in [Processes -> {"acquire", "release", "prune"}]
         /\ key' \in [Processes -> Keys \cup {NoKey}]
         /\ at' \in [Processes -> 0..now]
         /\ locks' \in [Processes -> Within]
         /\ handle' \in [Processes -> Inodes \cup {NoInode}]
         /\ \A q \in Processes : op'[q] # "prune" => key'[q] \in Keys
         /\ pc'[p] = "idle"
         /\ \A q \in Processes \ {p} : pc'[q] = pc[q] /\ op'[q] = op[q] /\ key'[q] = key[q]
  <1>1. Empty \in Within /\ 0 \in 0..now
    BY WithinIsLocks DEF Shape, TypeOK, Time
  <1> QED BY <1>1 DEF Return, Shape, TypeOK

\* What a reading returns, cut short or not, lasts no longer than what is in the file.
LEMMA ReadsAreWithin ==
  ASSUME Shape, NEW read \in Reads
  PROVE  /\ read \in Within
         /\ \A k \in Keys : read[k] \in {0, content[stateFile][k]}
  <1>1. PICK seen \in SUBSET Keys :
          read = [k \in Keys |-> IF k \in seen THEN content[stateFile][k] ELSE 0]
    BY DEF Reads
  <1>2. content[stateFile] \in Within /\ 0 \in 0 .. now + Ttl
    BY TtlAssumption DEF Shape, TypeOK, Time
  <1> QED BY <1>1, <1>2 DEF Within

-----------------------------------------------------------------------------
(* Types.                                                                  *)

\* The horizon lies within the types of the specification.
LEMMA HorizonInTypes ==
  ASSUME NEW n \in Time
  PROVE  [Keys -> 0 .. n + Ttl] \subseteq Locks /\ 0..n \subseteq Time
  BY TtlAssumption, BoundAssumption DEF Locks, Time

LEMMA ShapeStart == Init => Shape
  <1> SUFFICES ASSUME Init PROVE Shape
    OBVIOUS
  <1>1. now = 0 /\ Ttl \in Nat /\ MaxTime \in Nat /\ Crashes \in Nat
    BY TtlAssumption, BoundAssumption DEF Init
  <1>2. Empty \in Within /\ Empty \in Locks /\ 0 \in 0..now /\ 0 \in Time
    BY <1>1 DEF Empty, Within, Locks, Time
  <1>3. stateFile \in Inodes /\ tempFile = NoInode /\ NoInode \notin Inodes
    BY InodeAssumption DEF Init
  <1>4. /\ content \in [Inodes -> Within] /\ content \in [Inodes -> Locks]
        /\ locks \in [Processes -> Within] /\ locks \in [Processes -> Locks]
        /\ at \in [Processes -> 0..now] /\ at \in [Processes -> Time]
    BY <1>2 DEF Init
  <1>5. /\ now \in Time /\ crashes \in 0..Crashes /\ overlapped \in BOOLEAN
        /\ grants \subseteq Grant /\ missed \subseteq Keys
    <2>1. overlapped \in BOOLEAN /\ grants \subseteq Grant /\ missed \subseteq Keys
      BY DEF Init
    <2>2. crashes = 0 /\ now = 0
      BY DEF Init
    <2>3. crashes \in 0..Crashes
      BY <1>1, <2>2
    <2> QED BY <1>2, <2>1, <2>2, <2>3
  <1>6. /\ pc \in [Processes -> {"idle", "read", "open", "write", "rename", "cleanup"}]
        /\ op \in [Processes -> {"acquire", "release", "prune"}]
        /\ key \in [Processes -> Keys \cup {NoKey}]
        /\ handle \in [Processes -> Inodes \cup {NoInode}]
        /\ \A p \in Processes : op[p] # "prune" => key[p] \in Keys
    BY DEF Init
  <1> QED BY <1>3, <1>4, <1>5, <1>6 DEF Shape, TypeOK

\* What changes no clock keeps the horizon where it is.
LEMMA ShapeAtRest ==
  ASSUME Shape, now' = now,
         content' \in [Inodes -> Within],
         stateFile' \in Inodes, tempFile' \in Inodes \cup {NoInode}, tempFile' # stateFile',
         pc' \in [Processes -> {"idle", "read", "open", "write", "rename", "cleanup"}],
         op' \in [Processes -> {"acquire", "release", "prune"}],
         key' \in [Processes -> Keys \cup {NoKey}],
         at' \in [Processes -> 0..now],
         locks' \in [Processes -> Within],
         handle' \in [Processes -> Inodes \cup {NoInode}],
         grants' \subseteq Grant, overlapped' \in BOOLEAN, missed' \subseteq Keys,
         crashes' \in 0..Crashes,
         \A q \in Processes : op'[q] # "prune" => key'[q] \in Keys
  PROVE  Shape'
  <1>1. now \in Time /\ Within' = Within /\ (0..now)' = 0..now
    BY DEF Shape, TypeOK, Within
  <1>2. Within \subseteq Locks /\ 0..now \subseteq Time
    BY <1>1, HorizonInTypes DEF Within
  <1>3. /\ content' \in [Inodes -> Locks] /\ locks' \in [Processes -> Locks]
        /\ at' \in [Processes -> Time]
    BY <1>2
  <1> QED BY <1>1, <1>3 DEF Shape, TypeOK

LEMMA CallKeepsShape ==
  ASSUME Shape, NEW p \in Processes, NEW o \in {"acquire", "release", "prune"},
         NEW k \in Keys \cup {NoKey}, Call(p, o, k)
  PROVE  Shape'
  <1>1. /\ pc' = [pc EXCEPT ![p] = "read"] /\ op' = [op EXCEPT ![p] = o]
        /\ key' = [key EXCEPT ![p] = k]
        /\ at' \in {at, [at EXCEPT ![p] = now]}
        /\ overlapped' = (overlapped \/ \E q \in Processes \ {p} : pc[q] # "idle")
        /\ (k = NoKey) <=> (o = "prune")
        /\ missed' \in {{}, missed}
        /\ UNCHANGED <<content, stateFile, tempFile, locks, handle, now, grants, crashes>>
    BY DEF Call, files
  <1>2. now \in 0..now
    BY DEF Shape, TypeOK, Time
  <1>3. at' \in [Processes -> 0..now]
    BY <1>1, <1>2 DEF Shape
  <1>4. \A q \in Processes : op'[q] # "prune" => key'[q] \in Keys
    BY <1>1 DEF Shape, TypeOK
  <1>5. overlapped' \in BOOLEAN /\ missed' \subseteq Keys
    BY <1>1 DEF Shape, TypeOK
  <1>6. /\ pc' \in [Processes -> {"idle", "read", "open", "write", "rename", "cleanup"}]
        /\ op' \in [Processes -> {"acquire", "release", "prune"}]
        /\ key' \in [Processes -> Keys \cup {NoKey}]
    BY <1>1 DEF Shape, TypeOK
  <1>7. /\ content' \in [Inodes -> Within] /\ locks' \in [Processes -> Within]
        /\ stateFile' \in Inodes /\ tempFile' \in Inodes \cup {NoInode} /\ tempFile' # stateFile'
        /\ handle' \in [Processes -> Inodes \cup {NoInode}]
        /\ grants' \subseteq Grant /\ crashes' \in 0..Crashes /\ now' = now
    BY <1>1 DEF Shape, TypeOK
  <1> QED BY <1>3, <1>4, <1>5, <1>6, <1>7, ShapeAtRest

\* A process stops: it returns, or dies.
LEMMA StopKeepsShape ==
  ASSUME Shape, NEW p \in Processes, Return(p), now' = now, overlapped' = overlapped,
         missed' = missed,
         content' \in [Inodes -> Within],
         stateFile' \in Inodes, tempFile' \in Inodes \cup {NoInode}, tempFile' # stateFile',
         grants' \subseteq Grant, crashes' \in 0..Crashes
  PROVE  Shape'
  <1>1. overlapped' \in BOOLEAN /\ missed' \subseteq Keys
    BY DEF Shape, TypeOK
  <1> QED BY <1>1, ReturnEffect, ShapeAtRest

LEMMA OperationKeepsShape ==
  ASSUME Shape, NEW p \in Processes, Operation(p)
  PROVE  Shape'
  <1>0. /\ content \in [Inodes -> Within] /\ locks \in [Processes -> Within]
        /\ stateFile \in Inodes /\ tempFile \in Inodes \cup {NoInode} /\ tempFile # stateFile
        /\ pc \in [Processes -> {"idle", "read", "open", "write", "rename", "cleanup"}]
        /\ op \in [Processes -> {"acquire", "release", "prune"}]
        /\ key \in [Processes -> Keys \cup {NoKey}] /\ at \in [Processes -> 0..now]
        /\ handle \in [Processes -> Inodes \cup {NoInode}]
        /\ grants \subseteq Grant /\ overlapped \in BOOLEAN /\ missed \subseteq Keys
        /\ crashes \in 0..Crashes
        /\ \A q \in Processes : op[q] # "prune" => key[q] \in Keys
        /\ NoInode \notin Inodes
    BY InodeAssumption DEF Shape, TypeOK
  <1>1. CASE ReadAndReturn(p)
    <2>1. /\ Return(p)
          /\ UNCHANGED <<content, stateFile, tempFile, now, grants, overlapped, missed, crashes>>
      BY <1>1 DEF ReadAndReturn, files
    <2> QED BY <1>0, <2>1, StopKeepsShape
  <1>2. CASE ReadAndUpdate(p)
    <2>1. PICK read \in Reads :
            /\ locks' = [locks EXCEPT ![p] = Updated(p, read)]
            /\ missed' \in {{}, missed \cup {k \in Keys :
                                            content[stateFile][k] > now /\ read[k] = 0}}
            /\ pc' = [pc EXCEPT ![p] = "open"]
            /\ UNCHANGED <<content, stateFile, tempFile, op, key, at, handle, now, grants,
                           overlapped, crashes>>
      BY <1>2 DEF ReadAndUpdate, files
    <2>2. Updated(p, read) \in Within /\ missed' \subseteq Keys
      BY <1>0, <2>1, ReadsAreWithin, UpdatedIsWithin
    <2>3. locks' \in [Processes -> Within]
      BY <1>0, <2>1, <2>2
    <2>4. pc' \in [Processes -> {"idle", "read", "open", "write", "rename", "cleanup"}]
      BY <1>0, <2>1
    <2> QED BY <1>0, <2>1, <2>3, <2>4, ShapeAtRest
  <1>3. CASE Open(p)
    <2>1. PICK i \in IF tempFile = NoInode THEN Inodes \ InUse ELSE {tempFile} :
            /\ tempFile' = i /\ handle' = [handle EXCEPT ![p] = i]
            /\ content' = [content EXCEPT ![i] = Empty]
            /\ pc' = [pc EXCEPT ![p] = "write"]
            /\ UNCHANGED <<stateFile, op, key, at, locks, now, grants, overlapped, missed,
                           crashes>>
      BY <1>3 DEF Open
    <2>2. i \in Inodes /\ i # stateFile
      BY <1>0, <2>1 DEF InUse
    <2>3. content' \in [Inodes -> Within]
      BY <1>0, <2>1, WithinIsLocks
    <2>4. /\ handle' \in [Processes -> Inodes \cup {NoInode}]
          /\ pc' \in [Processes -> {"idle", "read", "open", "write", "rename", "cleanup"}]
      BY <1>0, <2>1, <2>2
    <2> QED BY <1>0, <2>1, <2>2, <2>3, <2>4, ShapeAtRest
  <1>4. CASE WriteLines(p)
    <2>1. PICK c \in Overlays(content[handle[p]], locks[p]) :
            content' = [content EXCEPT ![handle[p]] =
                          IF \/ handle[p] \in {stateFile, tempFile}
                             \/ \E q \in Processes \ {p} : handle[q] = handle[p]
                          THEN c ELSE Empty]
      BY <1>4 DEF WriteLines
    <2>2. /\ pc' = [pc EXCEPT ![p] = "rename"] /\ locks' = [locks EXCEPT ![p] = Empty]
          /\ handle' = [handle EXCEPT ![p] = NoInode]
          /\ UNCHANGED <<stateFile, tempFile, op, key, at, now, grants, overlapped, missed,
                         crashes>>
      BY <1>4 DEF WriteLines
    <2>3. Empty \in Within
      BY WithinIsLocks
    <2>4. content' \in [Inodes -> Within]
      <3>1. CASE handle[p] \in Inodes
        <4>1. c \in Within
          BY <1>0, <2>1, <3>1, OverlaysAreWithin
        <4> QED BY <1>0, <2>1, <2>3, <4>1
      <3>2. CASE handle[p] \notin Inodes
        <4>1. content' = content
          BY <1>0, <2>1, <3>2
        <4> QED BY <1>0, <4>1
      <3> QED BY <3>1, <3>2
    <2>5. /\ pc' \in [Processes -> {"idle", "read", "open", "write", "rename", "cleanup"}]
          /\ locks' \in [Processes -> Within]
          /\ handle' \in [Processes -> Inodes \cup {NoInode}]
      BY <1>0, <2>2, <2>3
    <2> QED BY <1>0, <2>2, <2>4, <2>5, ShapeAtRest
  <1>5. CASE Rename(p)
    <2>1. /\ tempFile # NoInode /\ stateFile' = tempFile /\ tempFile' = NoInode
          /\ Return(p) /\ Sweep /\ UNCHANGED <<now, overlapped, missed, crashes>>
      BY <1>5 DEF Rename
    <2>2. content' \in [Inodes -> Within]
      BY <1>0, <2>1, SweepKeepsNamed
    <2>3. grants' \subseteq Grant
      <3>1. CASE op[p] = "acquire" /\ at[p] + Ttl > now
        <4>1. key[p] \in Keys /\ at[p] + Ttl \in Nat
          BY <1>0, <3>1, TtlAssumption
        <4>2. grants' = grants \cup {[key |-> key[p], by |-> p, expiry |-> at[p] + Ttl]}
          BY <1>5, <3>1 DEF Rename, GrantsAfter
        <4> QED BY <1>0, <4>1, <4>2 DEF Grant
      <3>2. CASE ~(op[p] = "acquire" /\ at[p] + Ttl > now)
        BY <1>0, <1>5, <3>2 DEF Rename, GrantsAfter
      <3> QED BY <3>1, <3>2
    <2> QED BY <1>0, <2>1, <2>2, <2>3, StopKeepsShape
  <1>6. CASE Raises(p)
    <2>1. /\ pc' = [pc EXCEPT ![p] = "cleanup"] /\ at' = [at EXCEPT ![p] = 0]
          /\ locks' = [locks EXCEPT ![p] = Empty] /\ handle' = [handle EXCEPT ![p] = NoInode]
          /\ Sweep
          /\ UNCHANGED <<stateFile, tempFile, op, key, now, grants, overlapped, missed, crashes>>
      BY <1>6 DEF Raises
    <2>2. content' \in [Inodes -> Within]
      BY <1>0, <2>1, SweepKeepsNamed
    <2>3. Empty \in Within /\ 0 \in 0..now
      BY WithinIsLocks DEF Shape, TypeOK, Time
    <2>4. /\ pc' \in [Processes -> {"idle", "read", "open", "write", "rename", "cleanup"}]
          /\ at' \in [Processes -> 0..now] /\ locks' \in [Processes -> Within]
          /\ handle' \in [Processes -> Inodes \cup {NoInode}]
      BY <1>0, <2>1, <2>3
    <2> QED BY <1>0, <2>1, <2>2, <2>4, ShapeAtRest
  <1>7. CASE Cleanup(p)
    <2>1. /\ tempFile' = NoInode /\ stateFile' = stateFile
          /\ Return(p) /\ Sweep /\ UNCHANGED <<now, grants, overlapped, missed, crashes>>
      BY <1>7 DEF Cleanup
    <2>2. content' \in [Inodes -> Within]
      BY <1>0, <2>1, SweepKeepsNamed
    <2> QED BY <1>0, <2>1, <2>2, StopKeepsShape
  <1> QED BY <1>1, <1>2, <1>3, <1>4, <1>5, <1>6, <1>7 DEF Operation

LEMMA CrashKeepsShape ==
  ASSUME Shape, NEW p \in Processes, Crash(p)
  PROVE  Shape'
  <1>1. /\ crashes' = crashes + 1 /\ crashes < Crashes /\ Return(p) /\ Sweep
        /\ UNCHANGED <<stateFile, tempFile, now, grants, overlapped, missed>>
    BY DEF Crash
  <1>2. /\ stateFile \in Inodes /\ tempFile \in Inodes \cup {NoInode} /\ tempFile # stateFile
        /\ grants \subseteq Grant /\ crashes \in 0..Crashes
    BY DEF Shape, TypeOK
  <1>3. content' \in [Inodes -> Within]
    BY <1>1, <1>2, SweepKeepsNamed
  <1>4. crashes' \in 0..Crashes
    BY <1>1, <1>2, BoundAssumption
  <1> QED BY <1>1, <1>2, <1>3, <1>4, StopKeepsShape

LEMMA AdvanceKeepsShape == ASSUME Shape, Advance PROVE Shape'
  <1>1. /\ now' = now + 1 /\ now < MaxTime /\ grants' \subseteq grants
        /\ UNCHANGED <<content, stateFile, tempFile, pc, op, key, at, locks, handle,
                       overlapped, missed, crashes>>
    BY DEF Advance, files
  <1>2. now \in Nat /\ now' \in Time
    BY <1>1, BoundAssumption DEF Shape, TypeOK, Time
  <1>3. Within \subseteq Within' /\ 0..now \subseteq (0..now)'
    BY <1>1, <1>2, WithinGrows
  <1>4. /\ content' \in [Inodes -> Within'] /\ locks' \in [Processes -> Within']
        /\ at' \in [Processes -> (0..now)']
    BY <1>1, <1>3 DEF Shape
  <1> QED BY <1>1, <1>2, <1>4 DEF Shape, TypeOK

LEMMA ShapeStep == Shape /\ [Next]_vars => Shape'
  <1> SUFFICES ASSUME Shape, [Next]_vars PROVE Shape'
    OBVIOUS
  <1>1. CASE UNCHANGED vars
    BY <1>1 DEF vars, Shape, TypeOK, Within
  <1> QED BY <1>1, CallKeepsShape, OperationKeepsShape, CrashKeepsShape, AdvanceKeepsShape
      DEF Next

\* However the calls interleave and wherever processes crash: the files hold locks, the
\* state file always exists, and its name never shares an inode with the temporary one.
THEOREM TypeCorrect == Spec => [](TypeOK /\ tempFile # stateFile)
  <1>1. Spec => []Shape
    BY ShapeStart, ShapeStep, PTL DEF Spec
  <1>2. Shape => TypeOK /\ tempFile # stateFile
    BY DEF Shape
  <1> QED BY <1>1, <1>2, PTL

\* No interleaving, lost race for the temporary file, garbled write or crash leaves a lock
\* in either file that blocks its key for longer than one TTL from now.
THEOREM NoLongBlock == Spec => []NoKeyBlockedPastTtl
  <1>1. Spec => []Shape
    BY ShapeStart, ShapeStep, PTL DEF Spec
  <1>2. Shape => NoKeyBlockedPastTtl
    <2> SUFFICES ASSUME Shape, NEW k \in Keys
                 PROVE  /\ content[stateFile][k] <= now + Ttl
                        /\ tempFile # NoInode => content[tempFile][k] <= now + Ttl
      BY DEF NoKeyBlockedPastTtl
    <2>1. now \in Nat /\ Ttl \in Nat /\ content[stateFile] \in [Keys -> 0 .. now + Ttl]
      BY TtlAssumption DEF Shape, TypeOK, Within, Time
    <2>2. tempFile # NoInode => content[tempFile] \in [Keys -> 0 .. now + Ttl]
      BY DEF Shape, TypeOK, Within
    <2> QED BY <2>1, <2>2
  <1> QED BY <1>1, <1>2, PTL
-----------------------------------------------------------------------------
(* As long as calls do not overlap.                                        *)

LEMMA InTurnStart == Init => TurnInv
  <1> SUFFICES ASSUME Init PROVE InTurn
    BY ShapeStart DEF TurnInv
  <1>1. \A p \in Processes : pc[p] = "idle"
    BY DEF Init
  <1> QED BY <1>1 DEF Init, InTurn, Alone, OnDisk, GrantedOnce, Faithful

\* While p's call is under way nobody else's is, so only what p does needs a look.
LEMMA SoloStep ==
  ASSUME InTurn, NEW p \in Processes, pc[p] # "idle",
         \A q \in Processes \ {p} : pc'[q] = pc[q],
         OnDisk', GrantedOnce', Faithful(p)'
  PROVE  InTurn'
  <1>1. \A q \in Processes \ {p} : pc'[q] = "idle"
    BY DEF InTurn, Alone
  <1>2. Alone'
    BY <1>1 DEF Alone
  <1>3. \A q \in Processes : Faithful(q)'
    BY <1>1 DEF Faithful
  <1> QED BY <1>2, <1>3 DEF InTurn

\* A call that ends without touching the state file.
LEMMA SoloStop ==
  ASSUME InTurn, NEW p \in Processes, pc[p] # "idle",
         \A q \in Processes \ {p} : pc'[q] = pc[q],
         pc'[p] \in {"idle", "cleanup"},
         (op'[p] = op[p] /\ key'[p] = key[p]) \/ pc'[p] = "idle",
         content'[stateFile'] = content[stateFile], now' = now, grants' = grants,
         missed' = missed
  PROVE  InTurn'
  <1>1. OnDisk' /\ GrantedOnce'
    BY DEF InTurn, OnDisk, GrantedOnce
  <1>2. Faithful(p)'
    BY DEF Faithful
  <1> QED BY <1>1, <1>2, SoloStep

\* What is written when the operation does not return early: all the valid locks it has read.
LEMMA UpdatedIsFaithful ==
  ASSUME Shape, NEW p \in Processes, NEW read \in Within, ~NothingToWrite(p, read)
  PROVE  /\ \A k \in Keys :
              read[k] > now /\ ~(op[p] = "release" /\ key[p] = k) => Updated(p, read)[k] = read[k]
         /\ op[p] = "acquire" => /\ Updated(p, read)[key[p]] = at[p] + Ttl
                                 /\ read[key[p]] <= now
  <1>1. /\ read \in [Keys -> 0 .. now + Ttl] /\ now \in Nat /\ Ttl \in Nat /\ at[p] \in 0..now
        /\ op[p] \in {"acquire", "release", "prune"}
        /\ op[p] # "prune" => key[p] \in Keys
    BY TtlAssumption DEF Shape, TypeOK, Within, Time
  <1>2. CASE op[p] = "acquire"
    <2>1. Updated(p, read) = [read EXCEPT ![key[p]] = at[p] + Ttl] /\ ~(at[p] < read[key[p]])
      BY <1>2 DEF Updated, NothingToWrite
    <2>2. read[key[p]] \in Nat /\ read[key[p]] <= now
      BY <1>1, <1>2, <2>1
    <2>3. \A k \in Keys : read[k] > now => k # key[p]
      BY <1>1, <2>2
    <2> QED BY <1>1, <1>2, <2>1, <2>2, <2>3
  <1>3. CASE op[p] = "release"
    <2>1. Updated(p, read) = [read EXCEPT ![key[p]] = 0]
      BY <1>3 DEF Updated
    <2> QED BY <1>1, <1>3, <2>1
  <1>4. CASE op[p] = "prune"
    <2>1. Updated(p, read) = [k \in Keys |-> IF read[k] > now THEN read[k] ELSE 0]
      BY <1>4 DEF Updated
    <2> QED BY <1>1, <1>4, <2>1
  <1> QED BY <1>1, <1>2, <1>3, <1>4

LEMMA CallInTurn ==
  ASSUME Shape, InTurn, NEW p \in Processes, NEW o \in {"acquire", "release", "prune"},
         NEW k \in Keys \cup {NoKey}, Call(p, o, k), ~overlapped'
  PROVE  InTurn'
  <1>1. /\ pc' = [pc EXCEPT ![p] = "read"] /\ op' = [op EXCEPT ![p] = o]
        /\ key' = [key EXCEPT ![p] = k]
        /\ \A q \in Processes \ {p} : pc[q] = "idle"
        /\ UNCHANGED <<content, stateFile, tempFile, locks, handle, now, grants, missed>>
    BY DEF Call, files
  <1>2. /\ pc'[p] = "read" /\ op'[p] = o /\ key'[p] = k
        /\ \A q \in Processes \ {p} : pc'[q] = "idle"
    BY <1>1 DEF Shape, TypeOK
  <1>3. Alone'
    BY <1>2 DEF Alone
  <1>4. OnDisk' /\ GrantedOnce'
    BY <1>1 DEF InTurn, OnDisk, GrantedOnce
  <1>5. \A q \in Processes : Faithful(q)'
    BY <1>2 DEF Faithful
  <1> QED BY <1>3, <1>4, <1>5 DEF InTurn

LEMMA ReadInTurn ==
  ASSUME Shape, InTurn, NEW p \in Processes, ReadAndUpdate(p), ~overlapped
  PROVE  InTurn'
  <1>1. PICK read \in Reads :
          /\ ~NothingToWrite(p, read)
          /\ locks' = [locks EXCEPT ![p] = Updated(p, read)]
          /\ missed' = missed \cup {k \in Keys : content[stateFile][k] > now /\ read[k] = 0}
    BY DEF ReadAndUpdate
  <1>2. /\ pc[p] = "read" /\ pc' = [pc EXCEPT ![p] = "open"]
        /\ UNCHANGED <<content, stateFile, tempFile, op, key, at, now, grants>>
    BY DEF ReadAndUpdate, files
  <1>3. /\ pc'[p] = "open" /\ locks'[p] = Updated(p, read)
        /\ \A q \in Processes \ {p} : pc'[q] = pc[q]
    BY <1>1, <1>2 DEF Shape, TypeOK
  <1>4. /\ read \in Within /\ \A k \in Keys : read[k] \in {0, content[stateFile][k]}
        /\ content[stateFile] \in Within /\ now \in Nat /\ Ttl \in Nat
        /\ op[p] # "prune" => key[p] \in Keys
    BY ReadsAreWithin, TtlAssumption DEF Shape, TypeOK, Time
  <1>5. \A k \in Keys \ missed' : content[stateFile][k] > now => read[k] = content[stateFile][k]
    BY <1>1, <1>4
  <1>6. /\ \A k \in Keys :
             read[k] > now /\ ~(op[p] = "release" /\ key[p] = k) => Updated(p, read)[k] = read[k]
        /\ op[p] = "acquire" => /\ Updated(p, read)[key[p]] = at[p] + Ttl
                                /\ read[key[p]] <= now
    BY <1>1, <1>4, UpdatedIsFaithful
  <1>7. op[p] = "acquire" /\ key[p] \notin missed' => content[stateFile][key[p]] <= now
    BY <1>4, <1>5, <1>6 DEF Within
  <1>8. Faithful(p)'
    BY <1>2, <1>3, <1>5, <1>6, <1>7 DEF Faithful, Prepared
  <1>9. OnDisk' /\ GrantedOnce'
    BY <1>1, <1>2 DEF InTurn, OnDisk, GrantedOnce
  <1> QED BY <1>2, <1>3, <1>8, <1>9, SoloStep

LEMMA OpenInTurn ==
  ASSUME Shape, InTurn, NEW p \in Processes, Open(p)
  PROVE  InTurn'
  <1>1. PICK i \in IF tempFile = NoInode THEN Inodes \ InUse ELSE {tempFile} :
          /\ pc[p] = "open" /\ pc' = [pc EXCEPT ![p] = "write"]
          /\ tempFile' = i /\ handle' = [handle EXCEPT ![p] = i]
          /\ content' = [content EXCEPT ![i] = Empty]
          /\ UNCHANGED <<stateFile, op, key, at, locks, now, grants, missed>>
    BY DEF Open
  <1>2. /\ i \in Inodes /\ i # stateFile /\ i # NoInode
        /\ stateFile \in Inodes /\ content \in [Inodes -> Within]
    BY <1>1, InodeAssumption DEF InUse, Shape, TypeOK
  <1>3. /\ content'[stateFile'] = content[stateFile] /\ content'[tempFile'] = Empty
        /\ handle'[p] = i /\ pc'[p] = "write"
        /\ \A q \in Processes \ {p} : pc'[q] = pc[q]
    BY <1>1, <1>2 DEF Shape, TypeOK
  <1>4. Faithful(p)'
    BY <1>1, <1>2, <1>3 DEF InTurn, Faithful, Prepared
  <1>5. OnDisk' /\ GrantedOnce'
    BY <1>1, <1>3 DEF InTurn, OnDisk, GrantedOnce
  <1> QED BY <1>1, <1>3, <1>4, <1>5, SoloStep

LEMMA WriteInTurn ==
  ASSUME Shape, InTurn, NEW p \in Processes, WriteLines(p)
  PROVE  InTurn'
  <1>0. /\ pc[p] = "write" /\ tempFile = handle[p] /\ content[tempFile] = Empty
        /\ tempFile # NoInode /\ tempFile \in Inodes /\ stateFile \in Inodes
        /\ tempFile # stateFile /\ content \in [Inodes -> Within] /\ locks[p] \in Within
    BY DEF WriteLines, InTurn, Faithful, Shape, TypeOK
  <1>1. PICK c \in Overlays(content[handle[p]], locks[p]) :
          content' = [content EXCEPT ![handle[p]] =
                        IF \/ handle[p] \in {stateFile, tempFile}
                           \/ \E q \in Processes \ {p} : handle[q] = handle[p]
                        THEN c ELSE Empty]
    BY DEF WriteLines
  <1>2. c = locks[p]
    BY <1>0, <1>1, OverlayOfEmpty
  <1>3. content'[tempFile] = locks[p] /\ content'[stateFile] = content[stateFile]
    BY <1>0, <1>1, <1>2
  <1>4. /\ pc' = [pc EXCEPT ![p] = "rename"]
        /\ UNCHANGED <<stateFile, tempFile, op, key, at, now, grants, missed>>
    BY DEF WriteLines
  <1>5. pc'[p] = "rename" /\ \A q \in Processes \ {p} : pc'[q] = pc[q]
    BY <1>4 DEF Shape, TypeOK
  <1>6. Faithful(p)'
    BY <1>0, <1>3, <1>4, <1>5 DEF InTurn, Faithful, Prepared
  <1>7. OnDisk' /\ GrantedOnce'
    BY <1>0, <1>3, <1>4, <1>5 DEF InTurn, OnDisk, GrantedOnce
  <1> QED BY <1>0, <1>5, <1>6, <1>7, SoloStep

LEMMA RenameInTurn ==
  ASSUME Shape, InTurn, NEW p \in Processes, Rename(p)
  PROVE  InTurn'
  <1> DEFINE old == content[stateFile]
             new == content[tempFile]
  <1>1. /\ pc[p] = "rename" /\ tempFile # NoInode /\ stateFile' = tempFile
        /\ tempFile' = NoInode /\ Return(p) /\ Sweep /\ now' = now /\ missed' = missed
    BY DEF Rename
  <1>2. content'[stateFile'] = new
    BY <1>1, SweepKeepsNamed DEF Shape, TypeOK
  <1>3. pc'[p] = "idle" /\ \A q \in Processes \ {p} : pc'[q] = pc[q]
    BY <1>1, ReturnEffect
  <1>4. /\ now \in Nat /\ Ttl \in Nat /\ at[p] \in 0..now
        /\ \A g \in grants : g.key \in Keys /\ g.expiry \in Nat
    BY TtlAssumption DEF Shape, TypeOK, Time, Grant
  <1>5. /\ \A k \in Keys \ missed :
             old[k] > now /\ ~(op[p] = "release" /\ key[p] = k) => new[k] = old[k]
        /\ op[p] = "acquire" => /\ new[key[p]] = at[p] + Ttl
                                /\ key[p] \notin missed => old[key[p]] <= now
    BY <1>1 DEF InTurn, Faithful, Prepared
  <1>6. \A g \in grants : g.expiry > now /\ (g.key \notin missed => old[g.key] = g.expiry)
    BY DEF InTurn, OnDisk
  <1> HIDE DEF old, new
  <1>7. \A g \in grants : g.key \notin missed /\ ~(op[p] = "release" /\ key[p] = g.key)
          => new[g.key] = g.expiry
    BY <1>4, <1>5, <1>6
  <1>8. CASE op[p] = "acquire" /\ at[p] + Ttl > now
    <2> DEFINE granted == [key |-> key[p], by |-> p, expiry |-> at[p] + Ttl]
    <2>1. grants' = grants \cup {granted}
      BY <1>8 DEF Rename, GrantsAfter
    <2>2. /\ granted.key = key[p] /\ granted.expiry = at[p] + Ttl
      OBVIOUS
    <2> HIDE DEF granted
    <2>3. \A g \in grants : g.key \notin missed => g.key # key[p]
      <3> SUFFICES ASSUME NEW g \in grants, g.key \notin missed, g.key = key[p] PROVE FALSE
        OBVIOUS
      <3>1. old[key[p]] <= now /\ old[key[p]] = g.expiry /\ g.expiry > now /\ g.expiry \in Nat
        BY <1>4, <1>5, <1>6, <1>8
      <3> QED BY <1>4, <3>1
    <2>4. GrantedOnce'
      BY <1>1, <2>1, <2>2, <2>3 DEF InTurn, GrantedOnce
    <2>5. \A g \in grants' : g.expiry > now /\ (g.key \notin missed => new[g.key] = g.expiry)
      BY <1>5, <1>6, <1>7, <1>8, <2>1, <2>2
    <2>6. OnDisk'
      BY <1>1, <1>2, <2>5 DEF OnDisk
    <2> QED BY <1>1, <1>3, <2>4, <2>6, SoloStep DEF Faithful
  <1>9. CASE ~(op[p] = "acquire" /\ at[p] + Ttl > now)
    <2>1. \A g \in grants' : g \in grants /\ ~(op[p] = "release" /\ key[p] = g.key)
      BY <1>9 DEF Rename, GrantsAfter
    <2>2. GrantedOnce'
      BY <1>1, <2>1 DEF InTurn, GrantedOnce
    <2>3. OnDisk'
      BY <1>1, <1>2, <1>6, <1>7, <2>1 DEF OnDisk
    <2> QED BY <1>1, <1>3, <2>2, <2>3, SoloStep DEF Faithful
  <1> QED BY <1>8, <1>9

LEMMA StopInTurn ==
  ASSUME Shape, InTurn, NEW p \in Processes,
         ReadAndReturn(p) \/ Raises(p) \/ Cleanup(p) \/ Crash(p)
  PROVE  InTurn'
  <1>0. stateFile \in Inodes /\ tempFile \in Inodes \cup {NoInode}
    BY DEF Shape, TypeOK
  <1>1. CASE ReadAndReturn(p)
    <2>1. /\ pc[p] = "read" /\ Return(p)
          /\ UNCHANGED <<content, stateFile, now, grants, missed>>
      BY <1>1 DEF ReadAndReturn, files
    <2> QED BY <2>1, ReturnEffect, SoloStop
  <1>2. CASE Raises(p)
    <2>1. /\ pc[p] # "idle" /\ pc' = [pc EXCEPT ![p] = "cleanup"] /\ Sweep
          /\ UNCHANGED <<stateFile, tempFile, op, key, now, grants, missed>>
      BY <1>2 DEF Raises
    <2>2. content'[stateFile'] = content[stateFile]
      BY <1>0, <2>1, SweepKeepsNamed
    <2>3. pc'[p] = "cleanup" /\ \A q \in Processes \ {p} : pc'[q] = pc[q]
      BY <2>1 DEF Shape, TypeOK
    <2> QED BY <2>1, <2>2, <2>3, SoloStop
  <1>3. CASE Cleanup(p) \/ Crash(p)
    <2>1. /\ pc[p] # "idle" /\ Return(p) /\ Sweep /\ stateFile' = stateFile
          /\ tempFile' \in {tempFile, NoInode}
          /\ UNCHANGED <<now, grants, missed>>
      BY <1>3 DEF Cleanup, Crash
    <2>2. content'[stateFile'] = content[stateFile]
      BY <1>0, <2>1, SweepKeepsNamed
    <2> QED BY <2>1, <2>2, ReturnEffect, SoloStop
  <1> QED BY <1>1, <1>2, <1>3

LEMMA AdvanceInTurn ==
  ASSUME Shape, InTurn, Advance
  PROVE  InTurn'
  <1>1. /\ now' = now + 1 /\ now \in Nat
        /\ grants' = {g \in grants : g.expiry > now + 1}
        /\ UNCHANGED <<content, stateFile, tempFile, pc, op, key, at, locks, handle, missed>>
    BY DEF Advance, files, Shape, TypeOK, Time
  <1>2. stateFile \in Inodes /\ content[stateFile] \in [Keys -> 0 .. now + Ttl]
    BY DEF Shape, TypeOK, Within
  <1>3. \A k \in Keys : content[stateFile][k] > now + 1 => content[stateFile][k] > now
    BY <1>1, <1>2, TtlAssumption
  <1>4. Alone' /\ OnDisk' /\ GrantedOnce'
    BY <1>1 DEF InTurn, Alone, OnDisk, GrantedOnce
  <1>5. ASSUME NEW p \in Processes PROVE Faithful(p)'
    <2>0. op[p] = "acquire" => key[p] \in Keys
      BY DEF Shape
    <2>1. Prepared(p)' = Prepared(p)
      BY <1>1 DEF Prepared
    <2>2. Faithful(p)'
      BY <1>1, <1>2, <1>3, <2>0, <2>1, TtlAssumption DEF InTurn, Faithful
    <2> QED BY <2>2
  <1> QED BY <1>4, <1>5 DEF InTurn

LEMMA InTurnStep == TurnInv /\ [Next]_vars => TurnInv'
  <1> SUFFICES ASSUME TurnInv, [Next]_vars, ~overlapped' PROVE InTurn'
    BY ShapeStep DEF TurnInv
  <1>0. Shape /\ (~overlapped => InTurn)
    BY DEF TurnInv
  <1>1. ASSUME NEW p \in Processes, NEW o \in {"acquire", "release", "prune"},
               NEW k \in Keys \cup {NoKey}, Call(p, o, k)
        PROVE  InTurn'
    <2>1. ~overlapped
      BY <1>1 DEF Call
    <2> QED BY <1>0, <1>1, <2>1, CallInTurn
  <1>2. ASSUME NEW p \in Processes, Operation(p) \/ Crash(p) PROVE InTurn'
    <2>1. ~overlapped
      BY <1>2 DEF Operation, ReadAndReturn, ReadAndUpdate, Open, WriteLines, Rename, Raises,
                  Cleanup, Crash
    <2> QED BY <1>0, <1>2, <2>1, ReadInTurn, OpenInTurn, WriteInTurn, RenameInTurn, StopInTurn
        DEF Operation
  <1>3. CASE Advance
    <2>1. ~overlapped
      BY <1>3 DEF Advance
    <2> QED BY <1>0, <1>3, <2>1, AdvanceInTurn
  <1>4. CASE UNCHANGED vars
    BY <1>0, <1>4 DEF vars, InTurn, Alone, OnDisk, GrantedOnce, Faithful, Prepared
  <1> QED BY <1>1, <1>2, <1>3, <1>4 DEF Next

\* As long as calls do not overlap, no key is granted a second time while a grant of it is
\* valid and not released, wherever processes crash in the middle of a write, whatever they
\* left in the temporary file and however short the reads are cut, unless a read that was cut
\* short went past the valid lock of this key itself.
THEOREM GrantedOnceInTurn == Spec => []NoDoubleGrantInTurn
  <1>1. TurnInv => NoDoubleGrantInTurn
    BY DEF TurnInv, InTurn, GrantedOnce, NoDoubleGrantInTurn
  <1> QED BY <1>1, InTurnStart, InTurnStep, PTL DEF Spec

\* As long as calls do not overlap, the state file has every grant that counts, so that a
\* process that starts again after a crash finds it; but the locks that a failed read went past.
THEOREM GrantsPersist == Spec => []GrantsOnDisk
  <1>1. TurnInv => GrantsOnDisk
    BY DEF TurnInv, InTurn, OnDisk, GrantsOnDisk
  <1> QED BY <1>1, InTurnStart, InTurnStep, PTL DEF Spec

\* Of all file operations only the rename changes what the state file holds.
LEMMA OnlyRenameChanges ==
  ASSUME TurnInv, [Next]_vars, ~overlapped', \A p \in Processes : ~Rename(p)
  PROVE  content'[stateFile'] = content[stateFile]
  <1>0. stateFile \in Inodes /\ tempFile \in Inodes \cup {NoInode} /\ Shape
    BY DEF TurnInv, Shape, TypeOK
  <1>1. ASSUME NEW p \in Processes, Open(p) PROVE content'[stateFile'] = content[stateFile]
    <2>1. PICK i \in IF tempFile = NoInode THEN Inodes \ InUse ELSE {tempFile} :
            content' = [content EXCEPT ![i] = Empty] /\ stateFile' = stateFile
      BY <1>1 DEF Open
    <2>2. i # stateFile
      BY <2>1 DEF InUse, TurnInv, Shape
    <2> QED BY <1>0, <2>1, <2>2 DEF Shape, TypeOK
  <1>2. ASSUME NEW p \in Processes, WriteLines(p) PROVE content'[stateFile'] = content[stateFile]
    <2>1. ~overlapped /\ pc[p] = "write"
      BY <1>2 DEF WriteLines
    <2>2. handle[p] # stateFile
      BY <1>0, <2>1 DEF TurnInv, InTurn, Faithful, Shape
    <2>3. stateFile' = stateFile /\ \E v : content' = [content EXCEPT ![handle[p]] = v]
      BY <1>2 DEF WriteLines
    <2> QED BY <1>0, <2>2, <2>3 DEF Shape, TypeOK
  <1>3. ASSUME NEW p \in Processes, Raises(p) \/ Cleanup(p) \/ Crash(p)
        PROVE  content'[stateFile'] = content[stateFile]
    <2>1. Sweep /\ stateFile' = stateFile /\ tempFile' \in {tempFile, NoInode}
      BY <1>3 DEF Raises, Cleanup, Crash
    <2> QED BY <1>0, <2>1, SweepKeepsNamed
  <1>4. ASSUME NEW p \in Processes,
               ReadAndReturn(p) \/ ReadAndUpdate(p)
               \/ \E o \in {"acquire", "release", "prune"}, k \in Keys \cup {NoKey} : Call(p, o, k)
        PROVE  content'[stateFile'] = content[stateFile]
    BY <1>4 DEF ReadAndReturn, ReadAndUpdate, Call, files
  <1>5. CASE Advance \/ UNCHANGED vars
    BY <1>5 DEF Advance, files, vars
  <1> QED BY <1>1, <1>2, <1>3, <1>4, <1>5 DEF Next, Operation

\* As long as calls do not overlap, a lock that is still valid leaves the state file only by
\* being released: an acquire, a prune, a failed write or a crash of another call keeps it, and
\* so does a call whose read failed after it had got that far.
THEOREM ValidLocksStay == Spec => ValidLocksKept
  <1>1. TurnInv /\ [Next]_vars =>
          (~overlapped' =>
             \A k \in Keys \ missed' :
               content[stateFile][k] > now /\ content'[stateFile'][k] # content[stateFile][k]
                 => \E p \in Processes : op[p] = "release" /\ key[p] = k)
    <2> SUFFICES ASSUME TurnInv, [Next]_vars, ~overlapped', NEW k \in Keys \ missed',
                        content[stateFile][k] > now,
                        content'[stateFile'][k] # content[stateFile][k]
                 PROVE  \E p \in Processes : op[p] = "release" /\ key[p] = k
      OBVIOUS
    <2>1. PICK p \in Processes : Rename(p)
      BY OnlyRenameChanges
    <2>2. /\ pc[p] = "rename" /\ stateFile' = tempFile /\ tempFile' = NoInode
          /\ Sweep /\ ~overlapped /\ tempFile # NoInode /\ missed' = missed
      BY <2>1 DEF Rename
    <2>3. content'[stateFile'] = content[tempFile]
      BY <2>2, SweepKeepsNamed DEF TurnInv, Shape, TypeOK
    <2>4. content[tempFile][k] = content[stateFile][k] \/ (op[p] = "release" /\ key[p] = k)
      BY <2>2 DEF TurnInv, InTurn, Faithful, Prepared
    <2> QED BY <2>3, <2>4
  <1> QED BY <1>1, InTurnStart, InTurnStep, PTL DEF Spec, ValidLocksKept
=============================================================================
