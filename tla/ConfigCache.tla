---------------------------- MODULE ConfigCache ----------------------------
(* load_config of the LLM Lab (hazop/s5_sw/llm_lab.py): the lab YAML, parsed *)
(* and cached on its modification time, under the hub's request threads and  *)
(* somebody who edits the file meanwhile. Nothing is locked: a thread stats, *)
(* compares, reads and stores in separate steps.                             *)
(*                                                                           *)
(* An edit is any write to the file: an editor that truncates and then       *)
(* writes makes two, and the version in between may fail to parse.           *)
EXTENDS Naturals

CONSTANTS Threads,   \* request threads in load_config
          MaxEdits   \* bound: writes to the file

ASSUME MaxEditsAssumption == MaxEdits \in Nat

Versions == 0..MaxEdits

VARIABLES version,   \* of the file
          stamp,     \* st_mtime of the file
          sound,     \* versions that parse and declare devices and models
          cache,     \* the entry of _config_cache: stamp and version
          stage,     \* where each thread is in load_config
          seen,      \* the mtime it got
          got,       \* the version it has read, or serves
          since      \* the version of the file when its call began

vars == <<version, stamp, sound, cache, stage, seen, got, since>>

\* served and raised: the call is over, with a LabConfig or a LabError.
Stages == {"idle", "begun", "stamped", "missed", "read", "served", "raised"}
Empty  == [stamp |-> 0, version |-> 0]      \* stamps of files start at 1

TypeOK ==
    /\ version \in Versions
    /\ stamp \in 1..(MaxEdits + 1)
    /\ sound \subseteq Versions
    /\ cache \in [stamp : 0..(MaxEdits + 1), version : Versions]
    /\ stage \in [Threads -> Stages]
    /\ seen \in [Threads -> 0..(MaxEdits + 1)]
    /\ got \in [Threads -> Versions]
    /\ since \in [Threads -> Versions]

Init ==
    /\ version = 0
    /\ stamp = 1
    /\ sound \in {{}, {0}}
    /\ cache = Empty
    /\ stage = [t \in Threads |-> "idle"]
    /\ seen = [t \in Threads |-> 0]
    /\ got = [t \in Threads |-> 0]
    /\ since = [t \in Threads |-> 0]

\* The clock of the file system tells two writes apart.
Edit(parses) ==
    /\ version < MaxEdits
    /\ version' = version + 1
    /\ stamp' = stamp + 1
    /\ sound' = IF parses THEN sound \cup {version + 1} ELSE sound
    /\ UNCHANGED <<cache, stage, seen, got, since>>

Begin(t) ==
    /\ stage[t] \in {"idle", "served", "raised"}
    /\ stage' = [stage EXCEPT ![t] = "begun"]
    /\ since' = [since EXCEPT ![t] = version]
    /\ UNCHANGED <<version, stamp, sound, cache, seen, got>>

Stat(t) ==
    /\ stage[t] = "begun"
    /\ seen' = [seen EXCEPT ![t] = stamp]
    /\ stage' = [stage EXCEPT ![t] = "stamped"]
    /\ UNCHANGED <<version, stamp, sound, cache, got, since>>

Hit(t) ==
    /\ stage[t] = "stamped"
    /\ cache.stamp = seen[t]
    /\ got' = [got EXCEPT ![t] = cache.version]
    /\ stage' = [stage EXCEPT ![t] = "served"]
    /\ UNCHANGED <<version, stamp, sound, cache, seen, since>>

Miss(t) ==
    /\ stage[t] = "stamped"
    /\ cache.stamp # seen[t]
    /\ stage' = [stage EXCEPT ![t] = "missed"]
    /\ UNCHANGED <<version, stamp, sound, cache, seen, got, since>>

\* Mutant of ReadFile: what does not parse is kept.
ReadFileUnchecked(t) ==
    /\ stage[t] = "missed"
    /\ got' = [got EXCEPT ![t] = version]
    /\ stage' = [stage EXCEPT ![t] = "read"]
    /\ UNCHANGED <<version, stamp, sound, cache, seen, since>>

\* path.read_text(), and the parse: a file that does not parse, or declares no
\* device or no model, raises and leaves the cache alone.
ReadFile(t) ==
    /\ stage[t] = "missed"
    /\ got' = [got EXCEPT ![t] = version]
    /\ stage' = [stage EXCEPT ![t] = IF version \in sound THEN "read" ELSE "raised"]
    /\ UNCHANGED <<version, stamp, sound, cache, seen, since>>

\* Mutant of Store: the mtime is taken after the read.
StoreLateStamp(t) ==
    /\ stage[t] = "read"
    /\ cache' = [stamp |-> stamp, version |-> got[t]]
    /\ stage' = [stage EXCEPT ![t] = "served"]
    /\ UNCHANGED <<version, stamp, sound, seen, got, since>>

Store(t) ==
    /\ stage[t] = "read"
    /\ cache' = [stamp |-> seen[t], version |-> got[t]]
    /\ stage' = [stage EXCEPT ![t] = "served"]
    /\ UNCHANGED <<version, stamp, sound, seen, got, since>>

Next ==
    \/ \E parses \in BOOLEAN : Edit(parses)
    \/ \E t \in Threads :
          Begin(t) \/ Stat(t) \/ Hit(t) \/ Miss(t) \/ ReadFile(t) \/ Store(t)

Spec == Init /\ [][Next]_vars

----------------------------------------------------------------------------
(* Properties.                                                               *)

\* A call serves no version older than the file was when the call began, in
\* whatever order slow threads store what they read: an edit is picked up by
\* the next call, without a restart (docstring of load_config).
EditsArePickedUp ==
    \A t \in Threads : stage[t] = "served" => since[t] <= got[t]

\* What is served parsed, even if the version that followed it did not.
ServesOnlySound == \A t \in Threads : stage[t] = "served" => got[t] \in sound
=============================================================================
