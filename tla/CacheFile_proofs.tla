-------------------------- MODULE CacheFile_proofs --------------------------
(***************************************************************************)
(* Theorems about CacheFile, for any number of writers, readers, files and *)
(* documents: the state file is an atomic document.                        *)
(***************************************************************************)
EXTENDS CacheFile, TLAPS

WriterStep(w) ==
    \/ \E d \in Doc, f \in File : Create(w, d, f)
    \/ Dump(w) \/ Flush(w) \/ Fsync(w) \/ Replace(w)
    \/ Raise(w) \/ Unlink(w) \/ Kill(w)

(* The conjuncts of FileInv that are not named, by what they speak of.     *)
WritersInv ==
    /\ \A w \in Writer : at[w] = "idle" <=> temp[w] = NoFile
    /\ \A w \in Writer : at[w] # "idle" => temp[w] \in temps /\ doc[w] \in Doc
    /\ \A v, w \in Writer : temp[v] = temp[w] /\ temp[v] # NoFile => v = w
    /\ \A w \in Writer : at[w] \in {"fsync", "replace"} => content[temp[w]] = doc[w]
    /\ \A w \in Writer : at[w] = "replace" => temp[w] \in synced

ReadersInv ==
    \A r \in Reader : opened[r] # NoFile =>
        /\ content[opened[r]] \in Doc /\ opened[r] \notin temps

LEMMA FileInvParts ==
    FileInv <=> TypeOK /\ TargetSettled /\ ReadsComplete /\ WritersInv /\ ReadersInv
  BY DEF FileInv, WritersInv, ReadersInv

LEMMA InitInv == Init => FileInv
  BY FileAssumption, DocAssumption
     DEF Init, FileInv, TypeOK, TargetSettled, ReadsComplete, Content, Step

(* A new temporary file is nobody's: not the target, not open, not shared. *)
LEMMA CreateKeepsInv ==
    ASSUME NEW w \in Writer, NEW d \in Doc, NEW f \in File, FileInv, Create(w, d, f)
    PROVE  FileInv'
<1>1. /\ f \notin onDisk /\ f \notin temps
      /\ \A v \in Writer : temp[v] # f
      /\ \A r \in Reader : opened[r] # f
  BY DEF Create, FreshFile, Held
<1>2. TypeOK'
  BY FileInvParts DEF TypeOK, Create, Content, Step, readers
<1>3. TargetSettled'
  BY <1>1, FileInvParts, FileAssumption DEF TypeOK, TargetSettled, Create, readers
<1>4. ReadsComplete'
  BY FileInvParts DEF ReadsComplete, Create, readers
<1>5. WritersInv'
  BY <1>1, FileInvParts, FileAssumption DEF TypeOK, WritersInv, Create, readers
<1>6. ReadersInv'
  BY <1>1, FileInvParts, FileAssumption DEF TypeOK, ReadersInv, Create, readers
<1> QED BY <1>2, <1>3, <1>4, <1>5, <1>6, FileInvParts, PTL

LEMMA WriteKeepsInv ==
    ASSUME NEW w \in Writer, FileInv, Dump(w) \/ Flush(w) \/ Fsync(w)
    PROVE  FileInv'
<1>1. /\ temp[w] \in temps /\ temp[w] \in File /\ temp[w] # NoFile
      /\ doc[w] \in Doc /\ temp[w] \notin onDisk
      /\ \A v \in Writer : temp[v] = temp[w] => v = w
      /\ \A r \in Reader : opened[r] # temp[w]
  BY FileInvParts, FileAssumption
     DEF TypeOK, TargetSettled, WritersInv, ReadersInv, Dump, Flush, Fsync
<1>2. TypeOK'
  BY <1>1, FileInvParts DEF TypeOK, Dump, Flush, Fsync, Content, Step, readers
<1>3. TargetSettled'
  BY <1>1, FileInvParts, FileAssumption
     DEF TypeOK, TargetSettled, Dump, Flush, Fsync, readers
<1>4. ReadsComplete'
  BY FileInvParts DEF ReadsComplete, Dump, Flush, Fsync, readers
<1>5. WritersInv'
  BY <1>1, FileInvParts, FileAssumption
     DEF TypeOK, WritersInv, Dump, Flush, Fsync, readers, Step
<1>6. ReadersInv'
  BY <1>1, FileInvParts, FileAssumption
     DEF TypeOK, ReadersInv, Dump, Flush, Fsync, readers
<1> QED BY <1>2, <1>3, <1>4, <1>5, <1>6, FileInvParts, PTL

(* The rename: the file was synced and complete, and the writer lets go.   *)
LEMMA ReplaceKeepsInv ==
    ASSUME NEW w \in Writer, FileInv, Replace(w) PROVE FileInv'
<1>1. /\ temp[w] \in temps /\ temp[w] \in File /\ temp[w] # NoFile
      /\ content[temp[w]] \in Doc /\ temp[w] \in synced
      /\ \A v \in Writer : temp[v] = temp[w] => v = w
  BY FileInvParts, FileAssumption DEF TypeOK, WritersInv, Replace
<1>2. TypeOK'
  BY <1>1, FileInvParts DEF TypeOK, Replace, Step, readers
<1>3. TargetSettled'
  BY <1>1, FileInvParts, FileAssumption DEF TypeOK, TargetSettled, Replace, readers
<1>4. ReadsComplete'
  BY FileInvParts DEF ReadsComplete, Replace, readers
<1>5. WritersInv'
  BY <1>1, FileInvParts, FileAssumption DEF TypeOK, WritersInv, Replace, readers
<1>6. ReadersInv'
  BY FileInvParts DEF TypeOK, ReadersInv, Replace, readers
<1> QED BY <1>2, <1>3, <1>4, <1>5, <1>6, FileInvParts, PTL

LEMMA GiveUpKeepsInv ==
    ASSUME NEW w \in Writer, FileInv, Raise(w) \/ Unlink(w) \/ Kill(w)
    PROVE  FileInv'
<1>1. temp[w] \in File \cup {NoFile} /\ (at[w] = "idle" <=> temp[w] = NoFile)
      /\ \A v \in Writer : temp[v] = temp[w] /\ temp[v] # NoFile => v = w
  BY FileInvParts DEF TypeOK, WritersInv
<1>2. TypeOK'
  BY FileInvParts DEF TypeOK, Raise, Unlink, Kill, files, readers, Step
<1>3. TargetSettled'
  BY FileInvParts, FileAssumption
     DEF TypeOK, TargetSettled, Raise, Unlink, Kill, files, readers
<1>4. ReadsComplete'
  BY FileInvParts DEF ReadsComplete, Raise, Unlink, Kill, files, readers
<1>5. WritersInv'
  BY <1>1, FileInvParts, FileAssumption
     DEF TypeOK, WritersInv, Raise, Unlink, Kill, files, readers
<1>6. ReadersInv'
  BY FileInvParts DEF TypeOK, ReadersInv, Raise, Unlink, Kill, files, readers
<1> QED BY <1>2, <1>3, <1>4, <1>5, <1>6, FileInvParts, PTL

LEMMA ReaderKeepsInv ==
    ASSUME NEW r \in Reader, FileInv, Open(r) \/ Read(r) PROVE FileInv'
  BY FileAssumption
     DEF FileInv, TypeOK, TargetSettled, ReadsComplete, Open, Read, files,
         writers, Content

LEMMA WriteBackKeepsInv == FileInv /\ WriteBack => FileInv'
  BY DEF FileInv, TypeOK, TargetSettled, ReadsComplete, WriteBack, writers, readers

(* A file the target's name may lead to was synced, so it survives whole.  *)
LEMMA PowerLossKeepsInv == FileInv /\ PowerLoss => FileInv'
<1> SUFFICES ASSUME FileInv, PowerLoss PROVE FileInv'
  OBVIOUS
<1>1. PICK lost \in SUBSET (Named \ synced) :
          content' = [f \in File |-> IF f \in lost THEN Partial ELSE content[f]]
  BY DEF PowerLoss
<1>2. TypeOK'
  <2>1. content' \in [File -> Content]
    BY <1>1, FileInvParts DEF TypeOK, Content
  <2> QED BY <2>1, FileInvParts, FileAssumption
             DEF TypeOK, PowerLoss, Named, Step
<1>3. TargetSettled'
  BY <1>1, FileInvParts, FileAssumption DEF TypeOK, TargetSettled, PowerLoss, Named
<1>4. ReadsComplete'
  BY DEF ReadsComplete, PowerLoss
<1>5. WritersInv'
  BY DEF WritersInv, PowerLoss
<1>6. ReadersInv'
  BY DEF ReadersInv, PowerLoss
<1> QED BY <1>2, <1>3, <1>4, <1>5, <1>6, FileInvParts, PTL

LEMMA NextInv == FileInv /\ [Next]_vars => FileInv'
<1> SUFFICES ASSUME FileInv, [Next]_vars PROVE FileInv'
  OBVIOUS
<1>1. ASSUME NEW w \in Writer, WriterStep(w) PROVE FileInv'
  BY <1>1, CreateKeepsInv, WriteKeepsInv, ReplaceKeepsInv, GiveUpKeepsInv DEF WriterStep
<1>2. ASSUME NEW r \in Reader, Open(r) \/ Read(r) PROVE FileInv'
  BY <1>2, ReaderKeepsInv
<1>3. CASE WriteBack
  BY <1>3, WriteBackKeepsInv
<1>4. CASE PowerLoss
  BY <1>4, PowerLossKeepsInv
<1>5. CASE UNCHANGED vars
  BY <1>5 DEF vars, files, writers, readers, FileInv, TypeOK, TargetSettled, ReadsComplete
<1> QED BY <1>1, <1>2, <1>3, <1>4, <1>5 DEF Next, WriterStep

(* The conjunction of the invariants of atomic_write_json and the file     *)
(* system under it.                                                        *)
THEOREM CacheCorrect == Spec => []FileInv
  BY InitInv, NextInv, PTL DEF Spec

(* Every content data.read gets is a complete document.                    *)
THEOREM DashboardsReadComplete == Spec => []ReadsComplete
<1>1. FileInv => ReadsComplete
  BY DEF FileInv
<1> QED BY <1>1, CacheCorrect, PTL

(* Whatever file the name leads to after a loss of power is complete.      *)
THEOREM TargetAlwaysSettled == Spec => []TargetSettled
<1>1. FileInv => TargetSettled
  BY DEF FileInv
<1> QED BY <1>1, CacheCorrect, PTL

-----------------------------------------------------------------------------
(* The refinement.  Only Replace stores a document; the other steps of a   *)
(* writer touch no file that the target's name or a reader leads to.       *)

LEMMA InitImplements == Init => Document!AInit
  BY FileAssumption
     DEF Init, Document!AInit, StoredBar, KeptBar, ViewBar, InFile

LEMMA UnseenFile ==
    ASSUME FileInv, NEW g, UNCHANGED <<target, onDisk, opened>>,
           g \notin onDisk, \A r \in Reader : opened[r] # g,
           \A f \in File : f # g => content'[f] = content[f]
    PROVE  UNCHANGED <<StoredBar, KeptBar, ViewBar>>
<1>1. /\ target \in onDisk /\ onDisk \subseteq File \cup {NoFile}
      /\ opened \in [Reader -> File \cup {NoFile}]
  BY FileInvParts DEF TypeOK
<1>2. \A f \in onDisk : InFile(f)' = InFile(f)
  BY <1>1 DEF InFile
<1>3. \A r \in Reader : (InFile(opened[r]))' = InFile(opened[r])
  BY <1>1 DEF InFile
<1>4. StoredBar' = StoredBar
  BY <1>1 DEF StoredBar, InFile
<1>5. KeptBar' = KeptBar
  BY <1>1 DEF KeptBar, InFile
<1>6. ViewBar' = ViewBar
  BY <1>3 DEF ViewBar
<1> QED BY <1>4, <1>5, <1>6

LEMMA WriterImplements ==
    ASSUME NEW w \in Writer, FileInv, WriterStep(w), ~Replace(w)
    PROVE  UNCHANGED Document!avars
<1>1. CASE \E d \in Doc, f \in File : Create(w, d, f)
  <2>1. PICK d \in Doc, f \in File : Create(w, d, f)
    BY <1>1
  <2>2. f \notin onDisk /\ \A r \in Reader : opened[r] # f
    BY <2>1 DEF Create, FreshFile, Held
  <2>3. UNCHANGED <<target, onDisk, opened>>
        /\ \A g \in File : g # f => content'[g] = content[g]
    BY <2>1, FileInvParts DEF Create, TypeOK, readers
  <2> QED BY <2>2, <2>3, UnseenFile DEF Document!avars
<1>2. CASE Dump(w) \/ Flush(w) \/ Fsync(w)
  <2>1. temp[w] \notin onDisk /\ \A r \in Reader : opened[r] # temp[w]
    BY <1>2, FileInvParts, FileAssumption
       DEF TypeOK, TargetSettled, WritersInv, ReadersInv, Dump, Flush, Fsync
  <2>2. UNCHANGED <<target, onDisk, opened>>
        /\ \A g \in File : g # temp[w] => content'[g] = content[g]
    BY <1>2, FileInvParts DEF Dump, Flush, Fsync, TypeOK, readers
  <2> QED BY <2>1, <2>2, UnseenFile DEF Document!avars
<1>3. CASE Raise(w) \/ Unlink(w) \/ Kill(w)
  BY <1>3 DEF Raise, Unlink, Kill, files, readers, Document!avars, StoredBar,
              KeptBar, ViewBar, InFile
<1> QED BY <1>1, <1>2, <1>3 DEF WriterStep

LEMMA ReplaceImplements ==
    ASSUME NEW w \in Writer, FileInv, Replace(w) PROVE Document!AStore
<1>1. temp[w] \in File /\ temp[w] # NoFile /\ content[temp[w]] \in Doc
  BY FileInvParts, FileAssumption DEF TypeOK, WritersInv, Replace
<1>2. StoredBar' = content[temp[w]]
  BY <1>1 DEF StoredBar, InFile, Replace
<1>3. KeptBar' = KeptBar \cup {StoredBar'}
  BY <1>1, <1>2 DEF KeptBar, InFile, Replace
<1>4. ViewBar' = ViewBar
  BY DEF ViewBar, InFile, Replace, readers
<1> QED BY <1>1, <1>2, <1>3, <1>4 DEF Document!AStore

LEMMA ReaderImplements ==
    ASSUME NEW r \in Reader, FileInv, Open(r) \/ Read(r)
    PROVE  Document!AOpen(r) \/ Document!ADone(r)
<1>1. StoredBar' = StoredBar /\ KeptBar' = KeptBar
  BY DEF Open, Read, files, StoredBar, KeptBar, InFile
<1>2. \A f : InFile(f)' = InFile(f)
  BY DEF Open, Read, files, InFile
<1>3. opened \in [Reader -> File \cup {NoFile}]
  BY FileInvParts DEF TypeOK
<1>4. CASE Open(r)
  <2>1. ViewBar' = [ViewBar EXCEPT ![r] = StoredBar]
    BY <1>3, <1>4 DEF ViewBar, StoredBar, Open, InFile, files
  <2> QED BY <1>1, <2>1 DEF Document!AOpen
<1>5. CASE Read(r)
  <2>1. ViewBar' = [ViewBar EXCEPT ![r] = NoDoc]
    BY <1>3, <1>5 DEF ViewBar, Read, InFile, files
  <2> QED BY <1>1, <2>1 DEF Document!ADone
<1> QED BY <1>4, <1>5

LEMMA WriteBackImplements == WriteBack => Document!ASettle
  BY DEF WriteBack, Document!ASettle, StoredBar, KeptBar, ViewBar, InFile,
         writers, readers

LEMMA PowerLossImplements == FileInv /\ PowerLoss => Document!APowerLoss
<1> SUFFICES ASSUME FileInv, PowerLoss PROVE Document!APowerLoss
  OBVIOUS
<1>1. \A f \in onDisk : InFile(f)' = InFile(f)
  BY FileInvParts DEF TypeOK, TargetSettled, PowerLoss, InFile
<1>2. target' \in onDisk /\ onDisk' = {target'}
  BY DEF PowerLoss
<1>3. StoredBar' = InFile(target')
  BY <1>1, <1>2 DEF StoredBar, InFile
<1>4. StoredBar' \in KeptBar
  BY <1>2, <1>3 DEF KeptBar
<1>5. KeptBar' = {StoredBar'}
  BY <1>2 DEF KeptBar, StoredBar, InFile
<1>6. ViewBar' = [r \in Reader |-> NoDoc]
  BY DEF PowerLoss, ViewBar, InFile
<1> QED BY <1>4, <1>5, <1>6 DEF Document!APowerLoss

LEMMA NextImplements == FileInv /\ [Next]_vars => [Document!ANext]_Document!avars
<1> SUFFICES ASSUME FileInv, [Next]_vars PROVE [Document!ANext]_Document!avars
  OBVIOUS
<1>1. ASSUME NEW w \in Writer, WriterStep(w) PROVE [Document!ANext]_Document!avars
  BY <1>1, WriterImplements, ReplaceImplements DEF Document!ANext
<1>2. ASSUME NEW r \in Reader, Open(r) \/ Read(r) PROVE Document!ANext
  BY <1>2, ReaderImplements DEF Document!ANext
<1>3. CASE WriteBack
  BY <1>3, WriteBackImplements DEF Document!ANext
<1>4. CASE PowerLoss
  BY <1>4, PowerLossImplements DEF Document!ANext
<1>5. CASE UNCHANGED vars
  BY <1>5 DEF vars, files, readers, Document!avars, StoredBar, KeptBar, ViewBar, InFile
<1> QED BY <1>1, <1>2, <1>3, <1>4, <1>5 DEF Next, WriterStep

(* atomic_write_json implements a document that is stored in one step,     *)
(* whatever writers, readers, failures, kills and losses of power do.      *)
THEOREM FileIsAtomicDocument == Spec => ImplementsDocument
  BY InitImplements, NextImplements, CacheCorrect, PTL
     DEF Spec, ImplementsDocument, Document!ASpec

-----------------------------------------------------------------------------
(* A write that fails leaves no temporary file behind, unless its process  *)
(* was killed.                                                             *)
THEOREM FailedWritesLeaveNothing == Spec => []NoLitter
<1>1. Init => NoLitter
  BY DEF Init, NoLitter
<1>2. FileInv /\ NoLitter /\ [Next]_vars => NoLitter'
  <2> SUFFICES ASSUME FileInv, NoLitter, [Next]_vars, ~crashed', NEW f \in temps'
               PROVE  \E v \in Writer : temp'[v] = f
    BY DEF NoLitter
  <2>0. temp \in [Writer -> File \cup {NoFile}] /\ WritersInv
    BY FileInvParts DEF TypeOK
  <2>1. ASSUME NEW w \in Writer, NEW d \in Doc, NEW g \in File, Create(w, d, g)
        PROVE  \E v \in Writer : temp'[v] = f
    <3>1. CASE f = g
      BY <2>0, <2>1, <3>1 DEF Create
    <3>2. CASE f # g
      <4>1. PICK v \in Writer : temp[v] = f
        BY <2>1, <3>2 DEF Create, NoLitter
      <4>2. v # w
        BY <2>0, <2>1, <4>1, FileInvParts, FileAssumption
           DEF Create, WritersInv, TypeOK
      <4> QED BY <2>0, <2>1, <4>1, <4>2 DEF Create
    <3> QED BY <3>1, <3>2
  <2>2. ASSUME NEW w \in Writer, Replace(w) \/ Unlink(w)
        PROVE  \E v \in Writer : temp'[v] = f
    BY <2>0, <2>2 DEF Replace, Unlink, NoLitter
  <2>3. ASSUME NEW w \in Writer, Dump(w) \/ Flush(w) \/ Fsync(w) \/ Raise(w)
        PROVE  \E v \in Writer : temp'[v] = f
    BY <2>3 DEF Dump, Flush, Fsync, Raise, files, NoLitter
  <2>4. ASSUME NEW r \in Reader, Open(r) \/ Read(r)
        PROVE  \E v \in Writer : temp'[v] = f
    BY <2>4 DEF Open, Read, files, writers, NoLitter
  <2>5. CASE WriteBack \/ UNCHANGED vars
    BY <2>5 DEF WriteBack, vars, files, writers, NoLitter
  <2>6. ~PowerLoss /\ \A w \in Writer : ~Kill(w)
    BY DEF PowerLoss, Kill
  <2> QED BY <2>1, <2>2, <2>3, <2>4, <2>5, <2>6 DEF Next
<1> QED BY <1>1, <1>2, CacheCorrect, PTL DEF Spec
=============================================================================
