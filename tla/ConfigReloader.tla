--------------------------- MODULE ConfigReloader ---------------------------
(***************************************************************************)
(* The configuration file, its editors and the watcher thread              *)
(* (src/config/hot_reload.py), down to the single setting that the paper   *)
(* pipeline lives under: max_open_positions.                               *)
(*                                                                         *)
(* Each edit gives the file another mtime, so a version number stands for  *)
(* it.  A half-written or invalid file has the content Invalid.            *)
(***************************************************************************)
EXTENDS Integers

CONSTANTS Limits,    \* max_open_positions the schema accepts (1..10)
          DefaultLimit,  \* RuntimeConfig.max_open_positions
          Hot,       \* --hot-reload-config
          MaxEdits   \* bound: edits of the file

Invalid == 0

ASSUME LimitsAssumption == Limits \subseteq Nat \ {Invalid} /\ DefaultLimit \in Limits
ASSUME HotAssumption    == Hot \in BOOLEAN
ASSUME EditsAssumption  == MaxEdits \in Nat

VARIABLES disk,       \* the file: its version and content
          conf,       \* _current_config, with the version it was read from; 0: None
          lastMtime,  \* _last_mtime
          watcher,    \* where the loading code is, and what it has seen and read
          missed      \* history: was the file's version acknowledged without being read?

reloader == <<disk, conf, lastMtime, watcher, missed>>

Contents == Limits \cup {Invalid}
NoConf   == [version |-> 0, content |-> Invalid]
At(pc, file) == [pc |-> pc, file |-> file]

CrInit == /\ disk \in [version : {1}, content : Contents]
          /\ conf = NoConf
          /\ lastMtime = 0
          /\ watcher = At("start", NoConf)
          /\ missed = FALSE

\* Someone writes the file, or replaces it.
Edit(c) == /\ disk.version <= MaxEdits
           /\ disk' = [version |-> disk.version + 1, content |-> c]
           /\ missed' = FALSE
           /\ UNCHANGED <<conf, lastMtime, watcher>>

-----------------------------------------------------------------------------
(* The constructor, in the thread of the pipeline.                         *)

\* _load_initial: the file is read ...
ReadInitial ==
  /\ watcher.pc = "start"
  /\ watcher' = At(IF disk.content = Invalid THEN "watching" ELSE "loaded", disk)
  /\ UNCHANGED <<disk, conf, lastMtime, missed>>

\* ... and then its mtime, which may by now be another version's.
StatInitial ==
  /\ watcher.pc = "loaded"
  /\ conf' = watcher.file
  /\ lastMtime' = disk.version
  /\ missed' = (disk.version # watcher.file.version)
  /\ watcher' = At("watching", NoConf)
  /\ UNCHANGED disk

Started == watcher.pc \notin {"start", "loaded"}

-----------------------------------------------------------------------------
(* The watcher thread.                                                     *)

\* _check_file: another mtime is noted, and given time to settle.
StatFile ==
  /\ Hot /\ watcher.pc = "watching"
  /\ disk.version # lastMtime
  /\ watcher' = At("settling", disk)
  /\ UNCHANGED <<disk, conf, lastMtime, missed>>

\* Variant: the mtime recorded is that of the moment after the read.
SeenMtimeLater == disk.version + 1

\* The mtime a successful reload records is that of before the read: an edit in
\* between is found at the next look.
SeenMtime == watcher.file.version

\* Variant: a file that cannot be loaded leaves the defaults.
ReadFileForgetting ==
  /\ watcher.pc = "settling"
  /\ conf' = IF disk.content = Invalid THEN NoConf ELSE disk
  /\ lastMtime' = SeenMtime
  /\ watcher' = At("watching", NoConf)
  /\ UNCHANGED <<disk, missed>>

\* _try_reload, the file being valid or not.
ReadFile ==
  /\ watcher.pc = "settling"
  /\ IF disk.content = Invalid
     THEN /\ watcher' = At("failed", disk)
          /\ UNCHANGED <<conf, lastMtime>>
     ELSE /\ conf' = disk
          /\ lastMtime' = SeenMtime
          /\ watcher' = At("watching", NoConf)
  /\ UNCHANGED <<disk, missed>>

\* After a failure whatever mtime the file has now is acknowledged.
StatFailed ==
  /\ watcher.pc = "failed"
  /\ lastMtime' = disk.version
  /\ missed' = (missed \/ disk.version # watcher.file.version)
  /\ watcher' = At("watching", NoConf)
  /\ UNCHANGED <<disk, conf>>

Loading == ReadInitial \/ StatInitial
Watch   == StatFile \/ ReadFile \/ StatFailed

\* get_runtime_config.
RuntimeLimit == IF conf.content = Invalid THEN DefaultLimit ELSE conf.content

-----------------------------------------------------------------------------
(* Properties.                                                             *)

CrTypeOK ==
  /\ disk \in [version : Nat \ {0}, content : Contents]
  /\ conf \in [version : Nat, content : Contents] /\ lastMtime \in Nat
  /\ watcher \in [pc : {"start", "loaded", "watching", "settling", "failed"},
                  file : [version : Nat, content : Contents]]
  /\ missed \in BOOLEAN

\* The configuration in force only moves forward, to a valid version that is newer on
\* disk, whatever is read while the file is being edited; a bad edit changes nothing.
ConfigMovesForward ==
  [][conf' # conf => /\ conf'.version > conf.version
                     /\ conf'.version <= disk.version
                     /\ conf'.content \in Limits]_reloader

\* Once editing has stopped, a valid file is what is in force, unless its mtime was
\* acknowledged by a look that had read an older version.
EditsLoaded == []<>(~Hot \/ missed \/ disk.content = Invalid \/ conf = disk)
=============================================================================
