----------------------------- MODULE CacheFile -----------------------------
(***************************************************************************)
(* atomic_write_json of src/bhola_cache.py, the file system under it, and  *)
(* the dashboards that read the file (data.read of conky/bhola_data.lua).  *)
(*                                                                         *)
(* A writer is a provider process; two of them share the file when two     *)
(* launchers run.  A writer makes a temporary file of its own, dumps the   *)
(* document into it, flushes, syncs, and renames it over the target; the   *)
(* step that raises an OSError is followed by the "finally" clause, which  *)
(* unlinks the temporary file.  A writer may be killed between any two     *)
(* steps, and the power may fail.                                          *)
(*                                                                         *)
(* The file system is modelled from what the code relies on: an open file  *)
(* outlives its name; a rename is atomic for whoever looks the name up;    *)
(* what was not synced may be lost in part; and the target's name may fall *)
(* back to an earlier file after a loss of power, because the directory is *)
(* not synced.                                                             *)
(***************************************************************************)
CONSTANTS Writer, Reader, File, NoFile, Doc, NoDoc, Partial, Empty

ASSUME FileAssumption == NoFile \notin File

ASSUME DocAssumption ==
    /\ {NoDoc, Partial, Empty} \cap Doc = {}
    /\ Partial # NoDoc /\ Empty # NoDoc

Content == Doc \cup {Partial, Empty}

VARIABLES
    content,    \* what is in a file
    synced,     \* the files whose content a loss of power leaves alone
    target,     \* the file the target's name leads to
    onDisk,     \* the files it may lead to after a loss of power
    temps,      \* the temporary files that have a name in the directory
    at,         \* the step of atomic_write_json a writer is at
    temp,       \* the temporary file of a writer
    doc,        \* the document a writer was given
    opened,     \* the file a reader has open
    seen,       \* what a reader has read last
    crashed     \* observes: a writer was killed or the power failed

files == <<content, synced, target, onDisk, temps>>
writers == <<at, temp, doc>>
readers == <<opened, seen>>
vars == <<files, writers, readers, crashed>>

Step == {"idle", "dump", "flush", "fsync", "replace", "unlink"}

TypeOK ==
    /\ content \in [File -> Content]
    /\ synced \subseteq File
    /\ target \in File \cup {NoFile}
    /\ onDisk \subseteq File \cup {NoFile} /\ target \in onDisk
    /\ temps \subseteq File
    /\ at \in [Writer -> Step]
    /\ temp \in [Writer -> File \cup {NoFile}]
    /\ doc \in [Writer -> Doc \cup {NoDoc}]
    /\ opened \in [Reader -> File \cup {NoFile}]
    /\ seen \in [Reader -> Content \cup {NoDoc}]
    /\ crashed \in BOOLEAN

Init ==
    /\ content = [f \in File |-> Empty]
    /\ synced = {}
    /\ target = NoFile
    /\ onDisk = {NoFile}
    /\ temps = {}
    /\ at = [w \in Writer |-> "idle"]
    /\ temp = [w \in Writer |-> NoFile]
    /\ doc = [w \in Writer |-> NoDoc]
    /\ opened = [r \in Reader |-> NoFile]
    /\ seen = [r \in Reader |-> NoDoc]
    /\ crashed = FALSE

-----------------------------------------------------------------------------
(* The steps of a writer.                                                  *)

Held == onDisk \cup temps \cup {temp[w] : w \in Writer} \cup {opened[r] : r \in Reader}

(* Mutant of FreshFile: a fixed name for the temporary file, which a       *)
(* second writer truncates and shares.                                     *)
FixedName == IF temps = {} THEN File \ Held ELSE temps

(* NamedTemporaryFile makes a file no one else has.                        *)
FreshFile == File \ Held

Create(w, d, f) ==
    /\ at[w] = "idle"
    /\ f \in FreshFile
    /\ at' = [at EXCEPT ![w] = "dump"]
    /\ temp' = [temp EXCEPT ![w] = f]
    /\ doc' = [doc EXCEPT ![w] = d]
    /\ temps' = temps \cup {f}
    /\ content' = [content EXCEPT ![f] = Empty]
    /\ synced' = synced \ {f}
    /\ UNCHANGED <<target, onDisk, readers, crashed>>

(* The document goes to the file in buffers; the rest follows with flush.  *)
Dump(w) ==
    /\ at[w] = "dump"
    /\ at' = [at EXCEPT ![w] = "flush"]
    /\ content' = [content EXCEPT ![temp[w]] = Partial]
    /\ UNCHANGED <<synced, target, onDisk, temps, temp, doc, readers, crashed>>

Flush(w) ==
    /\ at[w] = "flush"
    /\ at' = [at EXCEPT ![w] = "fsync"]
    /\ content' = [content EXCEPT ![temp[w]] = doc[w]]
    /\ UNCHANGED <<synced, target, onDisk, temps, temp, doc, readers, crashed>>

(* Mutant of Fsync: the file is not synced.                                *)
NoSync(w) ==
    /\ at[w] = "fsync"
    /\ at' = [at EXCEPT ![w] = "replace"]
    /\ UNCHANGED <<files, temp, doc, readers, crashed>>

Fsync(w) ==
    /\ at[w] = "fsync"
    /\ at' = [at EXCEPT ![w] = "replace"]
    /\ synced' = synced \cup {temp[w]}
    /\ UNCHANGED <<content, target, onDisk, temps, temp, doc, readers, crashed>>

Replace(w) ==
    /\ at[w] = "replace"
    /\ at' = [at EXCEPT ![w] = "idle"]
    /\ target' = temp[w]
    /\ onDisk' = onDisk \cup {temp[w]}
    /\ temps' = temps \ {temp[w]}
    /\ temp' = [temp EXCEPT ![w] = NoFile]
    /\ doc' = [doc EXCEPT ![w] = NoDoc]
    /\ UNCHANGED <<content, synced, readers, crashed>>

(* A step raises; what the file holds then is of no interest to anyone.    *)
(* Mutant of Raise: the exception leaves without the "finally" clause.     *)
RaiseLeaks(w) ==
    /\ at[w] \in {"dump", "flush", "fsync", "replace"}
    /\ at' = [at EXCEPT ![w] = "idle"]
    /\ temp' = [temp EXCEPT ![w] = NoFile]
    /\ doc' = [doc EXCEPT ![w] = NoDoc]
    /\ UNCHANGED <<files, readers, crashed>>

Raise(w) ==
    /\ at[w] \in {"dump", "flush", "fsync", "replace"}
    /\ at' = [at EXCEPT ![w] = "unlink"]
    /\ UNCHANGED <<files, temp, doc, readers, crashed>>

Unlink(w) ==
    /\ at[w] = "unlink"
    /\ at' = [at EXCEPT ![w] = "idle"]
    /\ temps' = temps \ {temp[w]}
    /\ temp' = [temp EXCEPT ![w] = NoFile]
    /\ doc' = [doc EXCEPT ![w] = NoDoc]
    /\ UNCHANGED <<content, synced, target, onDisk, readers, crashed>>

(* SIGKILL: the process is gone and its temporary file stays.  The next    *)
(* provider starts afresh.                                                 *)
Kill(w) ==
    /\ at[w] # "idle"
    /\ at' = [at EXCEPT ![w] = "idle"]
    /\ temp' = [temp EXCEPT ![w] = NoFile]
    /\ doc' = [doc EXCEPT ![w] = NoDoc]
    /\ crashed' = TRUE
    /\ UNCHANGED <<files, readers>>

-----------------------------------------------------------------------------
(* A dashboard opens the file, reads all of it, and closes it.             *)

Open(r) ==
    /\ opened[r] = NoFile /\ target # NoFile
    /\ opened' = [opened EXCEPT ![r] = target]
    /\ UNCHANGED <<files, writers, seen, crashed>>

Read(r) ==
    /\ opened[r] # NoFile
    /\ seen' = [seen EXCEPT ![r] = content[opened[r]]]
    /\ opened' = [opened EXCEPT ![r] = NoFile]
    /\ UNCHANGED <<files, writers, crashed>>

-----------------------------------------------------------------------------
(* The file system writes the directory back in its own time, and a loss   *)
(* of power stops every process.  A rename that was not written back is    *)
(* undone, which may bring back the temporary name.                        *)

WriteBack ==
    /\ onDisk' = {target}
    /\ UNCHANGED <<content, synced, target, temps, writers, readers, crashed>>

Named == temps \cup (onDisk \ {NoFile})

PowerLoss ==
    /\ target' \in onDisk
    /\ onDisk' = {target'}
    /\ temps' \in SUBSET (Named \ {target'})
    /\ \E lost \in SUBSET (Named \ synced) :
          content' = [f \in File |-> IF f \in lost THEN Partial ELSE content[f]]
    /\ synced' = File
    /\ at' = [w \in Writer |-> "idle"]
    /\ temp' = [w \in Writer |-> NoFile]
    /\ doc' = [w \in Writer |-> NoDoc]
    /\ opened' = [r \in Reader |-> NoFile]
    /\ seen' = [r \in Reader |-> NoDoc]
    /\ crashed' = TRUE

Next ==
    \/ \E w \in Writer :
          \/ \E d \in Doc, f \in File : Create(w, d, f)
          \/ Dump(w) \/ Flush(w) \/ Fsync(w) \/ Replace(w)
          \/ Raise(w) \/ Unlink(w) \/ Kill(w)
    \/ \E r \in Reader : Open(r) \/ Read(r)
    \/ WriteBack \/ PowerLoss

Spec == Init /\ [][Next]_vars

-----------------------------------------------------------------------------
InFile(f) == IF f = NoFile THEN NoDoc ELSE content[f]

StoredBar == InFile(target)
KeptBar == {InFile(f) : f \in onDisk}
ViewBar == [r \in Reader |-> InFile(opened[r])]

Document == INSTANCE AtomicDocument WITH
    stored <- StoredBar, kept <- KeptBar, view <- ViewBar

(* The file is an atomic document: whatever the writers, the failures, the *)
(* kills and the losses of power do, it never holds, and no reader gets,   *)
(* anything but a document that one write stored as a whole.               *)
ImplementsDocument == Document!ASpec

(* Every dashboard draws from complete documents only.                     *)
ReadsComplete == \A r \in Reader : seen[r] \in Doc \cup {NoDoc}

(* What the target may become, now or after a loss of power, is complete,  *)
(* on the disk, and no writer's to change.                                 *)
TargetSettled ==
    \A f \in onDisk \ {NoFile} :
        /\ content[f] \in Doc /\ f \in synced /\ f \notin temps
        /\ \A w \in Writer : temp[w] # f

(* Nothing is left in the directory by a write that fails: as long as no   *)
(* process was killed, every temporary file belongs to a write going on.   *)
NoLitter ==
    ~crashed => \A f \in temps : \E w \in Writer : temp[w] = f

(* The strengthening that makes these inductive.                           *)
FileInv ==
    /\ TypeOK /\ TargetSettled /\ ReadsComplete
    /\ \A w \in Writer : at[w] = "idle" <=> temp[w] = NoFile
    /\ \A w \in Writer : at[w] # "idle" => temp[w] \in temps /\ doc[w] \in Doc
    /\ \A v, w \in Writer : temp[v] = temp[w] /\ temp[v] # NoFile => v = w
    /\ \A w \in Writer : at[w] \in {"fsync", "replace"} => content[temp[w]] = doc[w]
    /\ \A w \in Writer : at[w] = "replace" => temp[w] \in synced
    /\ \A r \in Reader : opened[r] # NoFile =>
          /\ content[opened[r]] \in Doc /\ opened[r] \notin temps
=============================================================================
