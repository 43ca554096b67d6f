----------------------------- MODULE FileWatcher -----------------------------
(***************************************************************************)
(* A task that polls the mtime of a file and reads the file when it has    *)
(* changed (run_proxy_watcher; run_routes_watcher has the same loop),      *)
(* beside the script that rewrites the file.  What is done with what it    *)
(* read is up to the module that instantiates this one: it takes the       *)
(* watcher from "apply" back to "sleep".                                   *)
(*                                                                         *)
(* A rewrite need not be atomic: a truncated or half-written file is a     *)
(* content like any other.  Two writes never leave the same mtime.         *)
(***************************************************************************)
EXTENDS Naturals

CONSTANTS
    Content,        \* what the file can hold
    Absent,         \* one of them: there is no file
    Usable,         \* the contents that are applied
    MaxWrites,      \* writes in a behaviour
    MaxFailures     \* reads that fail although there is a file

VARIABLES
    file,           \* the content of the file
    mtime,          \* its mtime: the number of writes so far
    last,           \* the mtime the watcher remembers, 0 for none
    watch,          \* start, sleep, read: what it does next; apply: what it read
    got,            \* what it read last
    missed,         \* history: the content was in the file when the watcher began,
                    \* but loaded before, or its read failed
    failures        \* history: reads that failed although there was a file

watcher == <<file, mtime, last, watch, got, missed, failures>>

-----------------------------------------------------------------------------
\* The file has been loaded and the watcher is spawned.
WatcherInit ==
    /\ file \in Content
    /\ mtime = 1 /\ last = 0
    /\ watch = "start"
    /\ got = file
    /\ missed = FALSE /\ failures = 0

\* The script replaces the file, or deletes it.
Write(c) ==
    /\ mtime <= MaxWrites
    /\ file' = c
    /\ mtime' = mtime + 1
    /\ missed' = (watch = "start")
    /\ UNCHANGED <<last, watch, got, failures>>

\* The first mtime is taken without reading the file.
Begin ==
    /\ watch = "start"
    /\ last' = IF file = Absent THEN 0 ELSE mtime
    /\ watch' = "sleep"
    /\ UNCHANGED <<file, mtime, got, missed, failures>>

\* A poll finds another mtime and remembers it; without a file or with the same
\* mtime the watcher sleeps on.
Poll ==
    /\ watch = "sleep"
    /\ file # Absent /\ mtime # last
    /\ last' = mtime
    /\ watch' = "read"
    /\ UNCHANGED <<file, mtime, got, missed, failures>>

\* The file is read, as it is by now; a content of no use is ignored.
Read ==
    /\ watch = "read"
    /\ file # Absent
    /\ got' = file
    /\ watch' = IF file \in Usable THEN "apply" ELSE "sleep"
    /\ UNCHANGED <<file, mtime, last, missed, failures>>

\* Mutant of ReadFails: the loop ends.
ReadFailsForGood ==
    /\ watch = "read"
    /\ file = Absent \/ failures < MaxFailures
    /\ failures' = IF file = Absent THEN failures ELSE failures + 1
    /\ missed' = (missed \/ (file # Absent /\ mtime = last))
    /\ watch' = "ended"
    /\ UNCHANGED <<file, mtime, last, got>>

\* The read fails: the file is gone, or cannot be read now.  The mtime stays
\* remembered.
ReadFails ==
    /\ watch = "read"
    /\ file = Absent \/ failures < MaxFailures
    /\ failures' = IF file = Absent THEN failures ELSE failures + 1
    /\ missed' = (missed \/ (file # Absent /\ mtime = last))
    /\ watch' = "sleep"
    /\ UNCHANGED <<file, mtime, last, got>>

Script == \E c \in Content : Write(c)

Watch == Begin \/ Poll \/ Read \/ ReadFails

WatcherTypeOK ==
    /\ file \in Content /\ got \in Content
    /\ mtime \in 1..(MaxWrites + 1) /\ last \in 0..mtime
    /\ watch \in {"start", "sleep", "read", "apply"}
    /\ missed \in BOOLEAN
    /\ failures \in 0..MaxFailures
=============================================================================
