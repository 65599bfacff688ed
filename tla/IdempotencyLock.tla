-------------------------- MODULE IdempotencyLock --------------------------
(***************************************************************************)
(* The file-backed idempotency locks (src/execution/idempotency.py): every *)
(* change reads the whole state file, writes a temporary file whose name   *)
(* all processes share, and renames it over the state file.                *)
(*                                                                         *)
(* The file system is two names and the inodes they point at; a process    *)
(* that has opened the temporary file keeps writing to its inode, whatever *)
(* name that has by then.  A file's content maps each key to the expiry of *)
(* its lock, 0 when it has no line.                                        *)
(***************************************************************************)
EXTENDS Integers, FiniteSets

CONSTANTS Processes, \* processes sharing the state file
          Keys,      \* idempotency keys
          NoKey,     \* no operation under way, or one on no key (prune)
          Ttl,       \* ttl_sec
          Inodes,    \* inodes of the file system
          NoInode,   \* a name that does not exist
          ReadFails, \* may an OSError end the reading of the state file?
          Crashes,   \* bound: crashes of a process
          MaxTime    \* bound: the clock

ASSUME TtlAssumption   == Ttl \in Nat \ {0}
ASSUME InodeAssumption == /\ IsFiniteSet(Inodes) /\ NoInode \notin Inodes
                          /\ IsFiniteSet(Processes)
                          /\ Cardinality(Inodes) > Cardinality(Processes)
ASSUME KeyAssumption   == NoKey \notin Keys
ASSUME FaultAssumption == ReadFails \in BOOLEAN
ASSUME BoundAssumption == Crashes \in Nat /\ MaxTime \in Nat

Time  == 0..MaxTime
Locks == [Keys -> Nat]
Empty == [k \in Keys |-> 0]

VARIABLES content,   \* content[i]: what inode i holds
          stateFile, \* the inode named state_file
          tempFile,  \* the inode named <state_file>.tmp, or NoInode
          pc,        \* pc[p]: the next step of p's operation
          op,        \* op[p]: "acquire", "release" or "prune"
          key,       \* key[p]: the key it is about
          at,        \* at[p]: the time.time() it started with
          locks,     \* locks[p]: its local dict of locks
          handle,    \* handle[p]: the inode it opened for writing
          now,       \* the clock
          grants,    \* acquire_lock calls that returned True and still count
          overlapped, \* a history: was a call made while another was under way?
          missed,    \* a history, as long as none was: keys with a valid lock that a call
                     \* went on without having read
          crashes

vars == <<content, stateFile, tempFile, pc, op, key, at, locks, handle, now, grants,
          overlapped, missed, crashes>>

Grant == [key : Keys, by : Processes, expiry : Nat]

Init == /\ \E i \in Inodes : stateFile = i   \* _ensure_state_file
        /\ content = [i \in Inodes |-> Empty]
        /\ tempFile = NoInode
        /\ pc = [p \in Processes |-> "idle"]
        /\ op = [p \in Processes |-> "prune"]
        /\ key = [p \in Processes |-> NoKey]
        /\ at = [p \in Processes |-> 0]
        /\ locks = [p \in Processes |-> Empty]
        /\ handle = [p \in Processes |-> NoInode]
        /\ now = 0
        /\ grants = {}
        /\ overlapped = FALSE
        /\ missed = {}
        /\ crashes = 0

files == <<content, stateFile, tempFile>>

\* The operation of p is over, however it ended.
Return(p) == /\ pc' = [pc EXCEPT ![p] = "idle"]
             /\ op' = [op EXCEPT ![p] = "prune"]
             /\ key' = [key EXCEPT ![p] = NoKey]
             /\ at' = [at EXCEPT ![p] = 0]
             /\ locks' = [locks EXCEPT ![p] = Empty]
             /\ handle' = [handle EXCEPT ![p] = NoInode]

\* An inode without a name and a handle is gone, and its content with it.
Sweep == content' = [i \in Inodes |->
                       IF i \in {stateFile', tempFile'} \cup {handle'[p] : p \in Processes}
                         THEN content[i] ELSE Empty]

-----------------------------------------------------------------------------
(* acquire_lock, release_lock and prune, one file operation at a time.     *)

\* A call begins; acquire_lock reads first the time it compares expiries with.  Nobody
\* asks who releases a key.
Call(p, o, k) ==
  /\ pc[p] = "idle"
  /\ (k = NoKey) <=> (o = "prune")
  /\ pc' = [pc EXCEPT ![p] = "read"]
  /\ op' = [op EXCEPT ![p] = o]
  /\ key' = [key EXCEPT ![p] = k]
  /\ at' = IF o = "acquire" THEN [at EXCEPT ![p] = now] ELSE at
  /\ overlapped' = (overlapped \/ \E q \in Processes \ {p} : pc[q] # "idle")
  /\ missed' = IF overlapped' THEN {} ELSE missed
  /\ UNCHANGED <<files, locks, handle, now, grants, crashes>>

\* Variants of what is written: prune keeps the wrong side, an acquired key is
\* the only one written, a lock lasts one tick too long.
UpdatedKeepsExpired(p, read) ==
  CASE op[p] = "acquire" -> [read EXCEPT ![key[p]] = at[p] + Ttl]
    [] op[p] = "release" -> [read EXCEPT ![key[p]] = 0]
    [] op[p] = "prune"   -> [k \in Keys |-> IF read[k] <= now THEN read[k] ELSE 0]

UpdatedForgetsOthers(p, read) ==
  CASE op[p] = "acquire" -> [Empty EXCEPT ![key[p]] = at[p] + Ttl]
    [] op[p] = "release" -> [read EXCEPT ![key[p]] = 0]
    [] op[p] = "prune"   -> [k \in Keys |-> IF read[k] > now THEN read[k] ELSE 0]

UpdatedOneLater(p, read) ==
  CASE op[p] = "acquire" -> [read EXCEPT ![key[p]] = at[p] + Ttl + 1]
    [] op[p] = "release" -> [read EXCEPT ![key[p]] = 0]
    [] op[p] = "prune"   -> [k \in Keys |-> IF read[k] > now THEN read[k] ELSE 0]

\* What the operation will write, given the locks it read.
Updated(p, read) ==
  CASE op[p] = "acquire" -> [read EXCEPT ![key[p]] = at[p] + Ttl]
    [] op[p] = "release" -> [read EXCEPT ![key[p]] = 0]
    [] op[p] = "prune"   -> [k \in Keys |-> IF read[k] > now THEN read[k] ELSE 0]

\* Variant: acquire_lock does not look at the expiry of the lock it finds.
NothingToWriteUnchecked(p, read) ==
  CASE op[p] = "acquire" -> FALSE
    [] op[p] = "release" -> read[key[p]] = 0
    [] op[p] = "prune"   -> Updated(p, read) = read

\* The early returns: a lock still valid, no lock to release, nothing to prune.
NothingToWrite(p, read) ==
  CASE op[p] = "acquire" -> at[p] < read[key[p]]
    [] op[p] = "release" -> read[key[p]] = 0
    [] op[p] = "prune"   -> Updated(p, read) = read

\* What _read_locks may return: the locks of the state file, or those it had read when an
\* OSError ended the reading, which it passes over.
Reads == {[k \in Keys |-> IF k \in seen THEN content[stateFile][k] ELSE 0] :
            seen \in IF ReadFails THEN SUBSET Keys ELSE {Keys}}

\* _read_locks finds there is nothing to write.
ReadAndReturn(p) ==
  /\ pc[p] = "read"
  /\ \E read \in Reads : NothingToWrite(p, read)
  /\ Return(p)
  /\ UNCHANGED <<files, now, grants, overlapped, missed, crashes>>

\* _read_locks, and the new dict of locks in memory.
ReadAndUpdate(p) ==
  /\ pc[p] = "read"
  /\ \E read \in Reads :
       /\ ~NothingToWrite(p, read)
       /\ locks' = [locks EXCEPT ![p] = Updated(p, read)]
       /\ missed' = IF overlapped THEN {}
                    ELSE missed \cup {k \in Keys : content[stateFile][k] > now /\ read[k] = 0}
  /\ pc' = [pc EXCEPT ![p] = "open"]
  /\ UNCHANGED <<files, op, key, at, handle, now, grants, overlapped, crashes>>

InUse == {stateFile, tempFile} \cup {handle[p] : p \in Processes}

\* open(temp_file, "w"): a new inode, or the one another call left, emptied.
Open(p) ==
  /\ pc[p] = "open"
  /\ \E i \in IF tempFile = NoInode THEN Inodes \ InUse ELSE {tempFile} :
       /\ tempFile' = i
       /\ handle' = [handle EXCEPT ![p] = i]
       /\ content' = [content EXCEPT ![i] = Empty]
  /\ pc' = [pc EXCEPT ![p] = "write"]
  /\ UNCHANGED <<stateFile, op, key, at, locks, now, grants, overlapped, missed, crashes>>

Lines(c) == {k \in Keys : c[k] # 0}

\* Writing `new` from the start of a file that holds `old`: lines past the end
\* of a shorter text may survive it, whole or garbled (and then skipped).
Overlays(old, new) ==
  LET tail == IF Cardinality(Lines(old)) > Cardinality(Lines(new))
                THEN Lines(old) \ Lines(new) ELSE {}
  IN {[k \in Keys |-> IF k \in kept THEN old[k] ELSE new[k]] : kept \in SUBSET tail}

\* Leaving the with block: the lines reach the inode, and p's handle is closed.
\* An inode with no name and no other handle is gone.
WriteLines(p) ==
  /\ pc[p] = "write"
  /\ \E c \in Overlays(content[handle[p]], locks[p]) :
       content' = [content EXCEPT ![handle[p]] =
                     IF \/ handle[p] \in {stateFile, tempFile}
                        \/ \E q \in Processes \ {p} : handle[q] = handle[p]
                       THEN c ELSE Empty]
  /\ pc' = [pc EXCEPT ![p] = "rename"]
  /\ locks' = [locks EXCEPT ![p] = Empty]
  /\ handle' = [handle EXCEPT ![p] = NoInode]
  /\ UNCHANGED <<stateFile, tempFile, op, key, at, now, grants, overlapped, missed, crashes>>

\* What is granted once the operation has succeeded: a released key is nobody's any more.
GrantsAfter(p) ==
  CASE op[p] = "acquire" /\ at[p] + Ttl > now ->
         grants \cup {[key |-> key[p], by |-> p, expiry |-> at[p] + Ttl]}
    [] op[p] = "release" -> {g \in grants : g.key # key[p]}
    [] OTHER -> grants

\* temp_file.rename(state_file), and the operation returns True.
Rename(p) ==
  /\ pc[p] = "rename"
  /\ tempFile # NoInode
  /\ stateFile' = tempFile
  /\ tempFile' = NoInode
  /\ grants' = GrantsAfter(p)
  /\ Return(p)
  /\ Sweep
  /\ UNCHANGED <<now, overlapped, missed, crashes>>

\* An OSError inside the try: writing fails, or another process has renamed
\* the temporary file away (FileNotFoundError).
Raises(p) ==
  /\ \/ pc[p] \in {"open", "write"}
     \/ pc[p] = "rename" /\ tempFile = NoInode
  /\ pc' = [pc EXCEPT ![p] = "cleanup"]
  /\ at' = [at EXCEPT ![p] = 0]
  /\ locks' = [locks EXCEPT ![p] = Empty]
  /\ handle' = [handle EXCEPT ![p] = NoInode]
  /\ UNCHANGED <<stateFile, tempFile>>
  /\ Sweep
  /\ UNCHANGED <<op, key, now, grants, overlapped, missed, crashes>>

\* The handler unlinks whatever has the temporary name by then, and the
\* operation returns False.
Cleanup(p) ==
  /\ pc[p] = "cleanup"
  /\ tempFile' = NoInode
  /\ Return(p)
  /\ UNCHANGED stateFile
  /\ Sweep
  /\ UNCHANGED <<now, grants, overlapped, missed, crashes>>

Operation(p) == \/ ReadAndReturn(p) \/ ReadAndUpdate(p) \/ Open(p)
                \/ WriteLines(p) \/ Rename(p) \/ Raises(p) \/ Cleanup(p)

-----------------------------------------------------------------------------
(* Around the calls.                                                       *)

\* A process dies in the middle of an operation and starts again; what it had
\* acquired before counts as executed, so its grants stand.
Crash(p) == /\ pc[p] # "idle" /\ crashes < Crashes
            /\ crashes' = crashes + 1
            /\ Return(p)
            /\ UNCHANGED <<stateFile, tempFile>>
            /\ Sweep
            /\ UNCHANGED <<now, grants, overlapped, missed>>

\* Time passes, and grants past their TTL no longer forbid anything.
Advance == /\ now < MaxTime
           /\ now' = now + 1
           /\ grants' = {g \in grants : g.expiry > now + 1}
           /\ UNCHANGED <<files, pc, op, key, at, locks, handle, overlapped, missed, crashes>>

Next ==
  \/ \E p \in Processes :
       \/ \E o \in {"acquire", "release", "prune"}, k \in Keys \cup {NoKey} : Call(p, o, k)
       \/ Operation(p)
       \/ Crash(p)
  \/ Advance

Spec == Init /\ [][Next]_vars

-----------------------------------------------------------------------------
(* Properties.                                                             *)

TypeOK ==
  /\ content \in [Inodes -> Locks]
  /\ stateFile \in Inodes
  /\ tempFile \in Inodes \cup {NoInode}
  /\ pc \in [Processes -> {"idle", "read", "open", "write", "rename", "cleanup"}]
  /\ op \in [Processes -> {"acquire", "release", "prune"}]
  /\ key \in [Processes -> Keys \cup {NoKey}]
  /\ at \in [Processes -> Time]
  /\ locks \in [Processes -> Locks]
  /\ handle \in [Processes -> Inodes \cup {NoInode}]
  /\ now \in Time
  /\ grants \subseteq Grant
  /\ overlapped \in BOOLEAN
  /\ missed \subseteq Keys
  /\ crashes \in 0..Crashes

\* "Idempotency manager that prevents double-execution of trades"
\* (idempotency.py:5): no key is granted while an earlier grant of it is within
\* its TTL and not released, whatever the processes do at the same time.
NoDoubleGrant == \A g, h \in grants : g.key = h.key => g = h

\* As long as calls do not overlap: no double grant of a key, across crashes in the
\* middle of a write, expiries, prunes, releases by whomever, and reads that fail,
\* unless a failed read went past the valid lock of this very key.
NoDoubleGrantInTurn ==
  ~overlapped => \A g, h \in grants : g.key = h.key /\ g.key \notin missed => g = h

\* "State persists across process restarts" (idempotency.py:31): as long as
\* calls do not overlap, a grant that counts is in the state file at every
\* moment, crash or no crash, unless a failed read went past its lock.
GrantsOnDisk ==
  ~overlapped => \A g \in grants : g.key \notin missed => content[stateFile][g.key] = g.expiry

\* The rename replaces the state file in one step, with all that was valid in
\* it: no call loses a lock that is still valid, but the one it releases and
\* those a failed read did not get to.
ValidLocksKept ==
  [][~overlapped' =>
       \A k \in Keys \ missed' :
         content[stateFile][k] > now /\ content'[stateFile'][k] # content[stateFile][k]
           => \E p \in Processes : op[p] = "release" /\ key[p] = k]_vars

\* However the processes interleave and wherever they crash, no key is blocked
\* for longer than a TTL from now, not even once the temporary file is renamed.
NoKeyBlockedPastTtl ==
  \A k \in Keys : /\ content[stateFile][k] <= now + Ttl
                  /\ tempFile # NoInode => content[tempFile][k] <= now + Ttl
=============================================================================
