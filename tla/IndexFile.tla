------------------------------ MODULE IndexFile -----------------------------
(***************************************************************************)
(* A file and the two that meet at its path: a process that saves an index *)
(* there with SerializeToFile, again and again and perhaps dying half-way, *)
(* and one that opens it with MappedFMIndex::Open.  The kernel is modelled *)
(* by inodes (a removed file lives on in its descriptors and mappings),    *)
(* stdio by a buffer that reaches the inode late and in order.             *)
(*                                                                         *)
(* An index is the sequence of the sections SerializeToFile emits, the     *)
(* header first; a section's padding counts as part of it.                 *)
(***************************************************************************)
EXTENDS Naturals, Sequences

CONSTANTS
    Sections,          \* number of sections of a serialized index
    MaxSaves           \* bound on the calls of SerializeToFile

ASSUME FileAssumption == Sections \in Nat \ {0} /\ MaxSaves \in Nat

NoFile == 0

VARIABLES
    path,      \* the inode the path names, or NoFile
    inode,     \* contents of the inodes
    saves,     \* calls of SerializeToFile so far
    f, buf,    \* the FILE*: its inode, and what stdio still holds
    off,       \* sections emitted
    ok, failure_errno, errno,
    leftover,  \* history: a std::remove of this call failed
    status,    \* what the last call reported; "none" before that
    pc,
    fd, addr,  \* Open: the inode behind the descriptor, and the mapped one
    sz,        \* Open: the size fstat reported
    opc

saver == <<saves, f, buf, off, ok, failure_errno, errno, leftover, status, pc>>
opener == <<fd, addr, sz, opc>>
vars == <<path, inode, saver, opener>>

\* The sections of the index that save n writes.
Section(n, s) == <<n, s>>
Complete(n) == [s \in 1..Sections |-> Section(n, s)]

Init ==
    /\ path = NoFile /\ inode = [x \in 1..MaxSaves |-> <<>>]
    /\ saves = 0 /\ f = NoFile /\ buf = <<>> /\ off = 0
    /\ ok = TRUE /\ failure_errno = 0 /\ errno = 0 /\ leftover = FALSE
    /\ status = "none" /\ pc = "idle"
    /\ fd = NoFile /\ addr = NoFile /\ sz = 0 /\ opc = "idle"

-----------------------------------------------------------------------------
(***************************************************************************)
(* FMIndex::SerializeToFile.                                               *)
(***************************************************************************)

\* Mutant: the old contents stay.
Mut_Truncated(x) == inode
Truncated(x) == [inode EXCEPT ![x] = <<>>]

\* fopen(path, "wb"): creates the file, or truncates the one that is there.
\* Callers do not save over a file that is being opened or is viewed.
FOpen ==
    LET target == IF path = NoFile THEN saves + 1 ELSE path IN
    /\ pc = "idle" /\ saves < MaxSaves
    /\ opc = "lost" \/ target # fd
    /\ path' = target
    /\ inode' = Truncated(target)
    /\ f' = target /\ buf' = <<>> /\ off' = 0
    /\ ok' = TRUE /\ failure_errno' = 0 /\ leftover' = FALSE
    /\ saves' = saves + 1 /\ status' = "none"
    /\ pc' = "header"
    /\ UNCHANGED <<errno, opener>>

FOpenFails ==
    /\ pc = "idle" /\ saves < MaxSaves
    /\ saves' = saves + 1 /\ status' = "OpenFailed" /\ errno' = 1
    /\ UNCHANGED <<path, inode, f, buf, off, ok, failure_errno, leftover, pc, opener>>

\* The header is put together in memory first.
WriteHeader ==
    /\ pc = "header"
    /\ pc' = "emit"
    /\ UNCHANGED <<path, inode, saves, f, buf, off, ok, failure_errno, errno, leftover,
                   status, opener>>

\* Mutant: the file stays.
Mut_Remove(done) == path' = path /\ leftover' = FALSE

\* std::remove, whose result the code does not look at.
Remove(done) ==
    /\ path' = IF done THEN NoFile ELSE path
    /\ leftover' = ~done

\* It does not fit: the catch block closes and removes the file and rethrows.
WriteHeaderThrows ==
    /\ pc = "header"
    /\ \E done \in BOOLEAN : Remove(done)
    /\ f' = NoFile /\ status' = "threw" /\ pc' = "idle"
    /\ UNCHANGED <<inode, saves, buf, off, ok, failure_errno, errno, opener>>

\* The first m buffered sections reach the inode.
Reach(pending, m) == inode' = [inode EXCEPT ![f] = @ \o SubSeq(pending, 1, m)]

\* emit: fwrite takes the section, and may pass on what it has.
Emit ==
    LET pending == Append(buf, Section(saves, off + 1)) IN
    /\ pc = "emit" /\ off < Sections
    /\ \E m \in 0..Len(pending) : /\ Reach(pending, m)
                                  /\ buf' = SubSeq(pending, m + 1, Len(pending))
    /\ off' = off + 1
    /\ UNCHANGED <<path, saves, f, ok, failure_errno, errno, leftover, status, pc, opener>>

\* Mutant: the failure is not kept.
Mut_FailWithErrno ==
    /\ UNCHANGED <<ok, failure_errno>>
    /\ errno' \in {errno, 1}

\* A failing call is expected to set errno, but need not.
FailWithErrno ==
    /\ ok' = FALSE
    /\ errno' \in {errno, 1}
    /\ failure_errno' = IF failure_errno = 0 THEN errno' ELSE failure_errno

\* emit: fwrite is short.  The section is lost, with or without what stdio
\* held before it, and the next sections are emitted all the same.
EmitShort ==
    /\ pc = "emit" /\ off < Sections
    /\ \E m \in 0..Len(buf) : /\ Reach(buf, m)
                              /\ buf' \in {SubSeq(buf, m + 1, Len(buf)), <<>>}
    /\ FailWithErrno
    /\ off' = off + 1
    /\ UNCHANGED <<path, saves, f, leftover, status, pc, opener>>

\* fclose flushes what is left; it may fail then, or after that.
FClose ==
    /\ pc = "emit" /\ off = Sections
    /\ Reach(buf, Len(buf))
    /\ pc' = "closed"
    /\ f' = NoFile /\ buf' = <<>>
    /\ UNCHANGED <<path, saves, off, ok, failure_errno, errno, leftover, status, opener>>

FCloseFails ==
    /\ pc = "emit" /\ off = Sections
    /\ \E m \in 0..Len(buf) : Reach(buf, m)
    /\ FailWithErrno
    /\ pc' = "closed"
    /\ f' = NoFile /\ buf' = <<>>
    /\ UNCHANGED <<path, saves, off, leftover, status, opener>>

\* Mutant: the errno that was seen is reported even if it is 0.
Mut_Reported == failure_errno
Reported == IF failure_errno = 0 THEN 1 ELSE failure_errno

\* The end of the call: a failed one removes the file and reports an errno.
Finish ==
    /\ pc = "closed"
    /\ IF ok
         THEN /\ status' = "Success"
              /\ UNCHANGED <<path, leftover, errno>>
         ELSE /\ status' = "WriteFailed"
              /\ \E done \in BOOLEAN : Remove(done)
              /\ errno' = Reported
    /\ pc' = "idle"
    /\ UNCHANGED <<inode, saves, f, buf, off, ok, failure_errno, opener>>

\* The process dies inside the call: what stdio held is gone.  Another one
\* takes over, with an errno of its own.
Crash ==
    /\ pc # "idle"
    /\ f' = NoFile /\ buf' = <<>> /\ errno' = 0
    /\ status' = "crashed" /\ pc' = "idle"
    /\ UNCHANGED <<path, inode, saves, off, ok, failure_errno, leftover, opener>>

\* The caller has looked at the status and goes on; what it does next may
\* change errno.
GoOn ==
    /\ pc = "idle"
    /\ status' = "none" /\ errno' \in {0, 1}
    /\ UNCHANGED <<path, inode, saves, f, buf, off, ok, failure_errno, leftover, pc, opener>>

-----------------------------------------------------------------------------
(***************************************************************************)
(* MappedFMIndex::Open and its destructor.                                 *)
(***************************************************************************)
OpenFd ==
    /\ opc = "idle" /\ path # NoFile
    /\ fd' = path
    /\ opc' = "fstat"
    /\ UNCHANGED <<path, inode, saver, addr, sz>>

\* Mutant: the descriptor is not closed.
Mut_CloseFd == UNCHANGED fd
CloseFd == fd' = NoFile

\* fstat; an error and an empty file close the descriptor.
FStat ==
    /\ opc = "fstat"
    /\ sz' = Len(inode[fd])
    /\ IF sz' = 0
         THEN CloseFd /\ opc' = "idle"
         ELSE opc' = "mmap" /\ UNCHANGED fd
    /\ UNCHANGED <<path, inode, saver, addr>>

\* fstat or mmap fails.
FStatOrMMapFails ==
    /\ opc \in {"fstat", "mmap"}
    /\ CloseFd /\ opc' = "idle"
    /\ UNCHANGED <<path, inode, saver, addr, sz>>

MMap ==
    /\ opc = "mmap"
    /\ addr' = fd
    /\ opc' = "new"
    /\ UNCHANGED <<path, inode, saver, fd, sz>>

\* The object that owns the descriptor and the mapping from here on.
New ==
    /\ opc = "new"
    /\ opc' = "load"
    /\ UNCHANGED <<path, inode, saver, fd, addr, sz>>

\* Its allocation throws out of Open: nobody can let go of the two any more.
NewThrows ==
    /\ opc = "new"
    /\ opc' = "lost"
    /\ UNCHANGED <<path, inode, saver, fd, addr, sz>>

\* parseView: the view must start with a header and hold all the payload the
\* header announces.  (The header of a serialized index announces Sections.)
View == SubSeq(inode[addr], 1, sz)
\* Mutant: the size of the payload is not compared with what is there.
Mut_Accepts(view) == \E n \in 1..MaxSaves : view[1] = Section(n, 1)
Accepts(view) == /\ \E n \in 1..MaxSaves : view[1] = Section(n, 1)
                 /\ Len(view) >= Sections

LoadView ==
    /\ opc = "load" /\ Accepts(View)
    /\ opc' = "open"
    /\ UNCHANGED <<path, inode, saver, fd, addr, sz>>

\* ~MappedFMIndex: a rejected view, a LoadView that runs out of memory, or the
\* owner that lets go of its index.
Destroy ==
    /\ \/ opc = "load"      \* LoadView may always run out of memory
       \/ opc = "open"
    /\ fd' = NoFile /\ addr' = NoFile /\ sz' = 0
    /\ opc' = "idle"
    /\ UNCHANGED <<path, inode, saver>>

SaverNext == \/ FOpen \/ FOpenFails \/ WriteHeader \/ WriteHeaderThrows \/ Emit \/ EmitShort
             \/ FClose \/ FCloseFails \/ Finish \/ Crash \/ GoOn
OpenerNext == \/ OpenFd \/ FStat \/ FStatOrMMapFails \/ MMap \/ New \/ NewThrows
              \/ LoadView \/ Destroy

Next == SaverNext \/ OpenerNext
Spec == Init /\ [][Next]_vars

-----------------------------------------------------------------------------
(***************************************************************************)
(* Properties.                                                             *)
(***************************************************************************)

\* Types of the two processes' locals and of the file system.
TypeOK ==
    /\ path \in 0..MaxSaves /\ f \in 0..MaxSaves
    /\ fd \in 0..MaxSaves /\ addr \in 0..MaxSaves
    /\ sz \in 0..Sections /\ off \in 0..Sections /\ saves \in 0..MaxSaves
    /\ \A x \in 1..MaxSaves : Len(inode[x]) + (IF x = f THEN Len(buf) ELSE 0) <= Sections
    /\ ok \in BOOLEAN /\ leftover \in BOOLEAN
    /\ errno \in {0, 1} /\ failure_errno \in {0, 1}
    /\ status \in {"none", "OpenFailed", "threw", "Success", "WriteFailed", "crashed"}

\* SerializeToFile reports Success only for a file that holds every section,
\* also those that were still in stdio's buffer when the last fwrite returned.
SuccessIsComplete ==
    status = "Success" => path # NoFile /\ inode[path] = Complete(saves)

\* A call that failed after it had opened the file leaves none behind, unless
\* the file could not be removed.
FailureLeavesNoFile ==
    status \in {"WriteFailed", "threw"} => path = NoFile \/ leftover

\* A caller that prints strerror(errno) after WriteFailed never prints
\* "Success", whatever stdio did with errno.
FailureHasErrno == status = "WriteFailed" => errno # 0

\* The index that Open hands out views every section of one saved index, even
\* when the file was opened while it was written, a writer died or lost a
\* section, or the file was removed in the meantime; and it stays so while the
\* index lives.
OpenIsComplete ==
    opc = "open" => \E n \in 1..saves : SubSeq(inode[addr], 1, sz) = Complete(n)

\* Open keeps a descriptor and a mapping only for an index that it hands out:
\* when it returns nullptr or LoadView throws, both are gone.  (They are lost
\* when the allocation of their owner throws.)
NothingLeaks == opc = "idle" => fd = NoFile /\ addr = NoFile
=============================================================================
