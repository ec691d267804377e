--------------------------- MODULE IndexFileProofs --------------------------
(***************************************************************************)
(* What a save and an open promise, for an index of any number of sections *)
(* and any number of saves.  The invariant follows a section from fwrite   *)
(* through stdio's buffer into the inode: as long as no section was lost,  *)
(* the inode and the buffer hold the sections emitted so far, in order;    *)
(* once one was lost, the file can never again be long enough to pass for  *)
(* a whole index.                                                          *)
(***************************************************************************)
EXTENDS IndexFile, SequenceTheorems, TLAPS

Inodes == 1..MaxSaves
Sec == Nat \X Nat
Data == Seq(Sec)

\* Types, and in which phases the saver holds a FILE* and the opener a
\* descriptor and a mapping.
Typed ==
    /\ path \in 0..MaxSaves /\ saves \in 0..MaxSaves /\ off \in 0..Sections
    /\ inode \in [Inodes -> Data] /\ buf \in Data
    /\ ok \in BOOLEAN /\ leftover \in BOOLEAN
    /\ errno \in {0, 1} /\ failure_errno \in {0, 1}
    /\ status \in {"none", "OpenFailed", "threw", "Success", "WriteFailed", "crashed"}
    /\ pc \in {"idle", "header", "emit", "closed"}
    /\ sz \in 0..Sections
    /\ opc \in {"idle", "fstat", "mmap", "new", "load", "open", "lost"}

Writing == pc \in {"header", "emit"}

\* The FILE* is the file at the path; a call that goes on has no status yet.
SaverHolds ==
    /\ f = IF Writing THEN path ELSE NoFile
    /\ pc # "idle" => path # NoFile /\ saves > 0 /\ status = "none"
    /\ pc = "header" => off = 0
    /\ pc = "closed" => off = Sections

OpenerHolds ==
    /\ fd \in 0..MaxSaves
    /\ (opc = "idle") <=> (fd = NoFile)
    /\ addr = IF opc \in {"new", "load", "open", "lost"} THEN fd ELSE NoFile

\* Every section emitted is in the inode, in the buffer, or lost, and none is
\* lost while the call is ok.
InFlight ==
    Writing => /\ Len(inode[f]) + Len(buf) <= off
               /\ ok => Len(inode[f]) + Len(buf) = off

\* As long as none is lost, the inode and then the buffer hold this save's
\* sections in order.
InOrder ==
    Writing /\ Len(inode[f]) + Len(buf) = off =>
        /\ \A i \in 1..Len(inode[f]) : inode[f][i] = Section(saves, i)
        /\ \A i \in 1..Len(buf) : buf[i] = Section(saves, Len(inode[f]) + i)

\* A file of full length is a whole index of one save.
Whole ==
    \A x \in Inodes : /\ Len(inode[x]) <= Sections
                      /\ Len(inode[x]) = Sections => \E n \in 1..saves : inode[x] = Complete(n)

\* What the call knows of the file after fclose, and the caller after it.
Closed == pc = "closed" /\ ok => inode[path] = Complete(saves)

\* What Open measured is still there when it is used.
Measured ==
    /\ opc \in {"mmap", "new", "load", "open"} => sz \in 1..Len(inode[fd])
    /\ opc = "open" => sz = Sections

IInv ==
    /\ Typed /\ SaverHolds /\ OpenerHolds
    /\ InFlight /\ InOrder /\ Whole /\ Closed /\ Measured
    /\ SuccessIsComplete /\ FailureLeavesNoFile /\ FailureHasErrno

-----------------------------------------------------------------------------
(***************************************************************************)
(* Sequences.                                                              *)
(***************************************************************************)

\* Data that has all the sections of save n, in order, is that index.
LEMMA CompleteData ==
    ASSUME NEW n, NEW d \in Data, Len(d) = Sections,
           \A i \in 1..Sections : d[i] = Section(n, i)
    PROVE  d = Complete(n)
<1>1. d \in [1..Sections -> Sec]
  BY LenProperties DEF Data
<1> QED
  BY <1>1 DEF Complete

\* Appending the first m elements of p to a.
LEMMA AppendPrefix ==
    ASSUME NEW S, NEW a \in Seq(S), NEW p \in Seq(S), NEW m \in 0..Len(p)
    PROVE  /\ a \o SubSeq(p, 1, m) \in Seq(S)
           /\ Len(a) \in Nat /\ Len(a \o SubSeq(p, 1, m)) = Len(a) + m
           /\ \A i \in 1..Len(a) : (a \o SubSeq(p, 1, m))[i] = a[i]
           /\ \A i \in 1..m : (a \o SubSeq(p, 1, m))[Len(a) + i] = p[i]
<1> DEFINE q == SubSeq(p, 1, m)
<1>1. Len(a) \in Nat /\ Len(p) \in Nat
  BY LenProperties
<1>2. \A i \in 1..m : p[i] \in S
  BY <1>1, ElementOfSeq
<1>3. /\ q \in Seq(S) /\ Len(q) = m
      /\ \A i \in 1..m : q[i] = p[i]
  BY <1>1, <1>2, SubSeqProperties
<1> HIDE DEF q
<1>4. /\ a \o q \in Seq(S)
      /\ Len(a \o q) = Len(a) + Len(q)
      /\ \A i \in 1..Len(a) + Len(q) :
            (a \o q)[i] = IF i <= Len(a) THEN a[i] ELSE q[i - Len(a)]
  BY <1>3, ConcatProperties
<1>5. \A i \in 1..m : (a \o q)[Len(a) + i] = q[Len(a) + i - Len(a)]
  BY <1>1, <1>3, <1>4
<1>6. \A i \in 1..m : (a \o q)[Len(a) + i] = p[i]
  BY <1>1, <1>3, <1>5
<1>7. \A i \in 1..Len(a) : (a \o q)[i] = a[i]
  BY <1>1, <1>3, <1>4
<1> QED
  BY <1>1, <1>3, <1>4, <1>6, <1>7 DEF q

\* Passing m buffered sections on moves them behind what the inode has.
LEMMA Reaching ==
    ASSUME Typed, f \in Inodes, NEW pending \in Data, NEW m \in 0..Len(pending),
           Reach(pending, m)
    PROVE  /\ inode' \in [Inodes -> Data]
           /\ \A x \in Inodes \ {f} : inode'[x] = inode[x]
           /\ Len(inode'[f]) = Len(inode[f]) + m
           /\ Len(inode[f]) \in Nat
           /\ \A i \in 1..Len(inode[f]) : inode'[f][i] = inode[f][i]
           /\ \A i \in 1..m : inode'[f][Len(inode[f]) + i] = pending[i]
<1> DEFINE new == inode[f] \o SubSeq(pending, 1, m)
<1>1. inode[f] \in Data
  BY DEF Typed
<1>2. /\ new \in Data /\ Len(inode[f]) \in Nat /\ Len(new) = Len(inode[f]) + m
      /\ \A i \in 1..Len(inode[f]) : new[i] = inode[f][i]
      /\ \A i \in 1..m : new[Len(inode[f]) + i] = pending[i]
  <2>1. inode[f] \in Seq(Sec) /\ pending \in Seq(Sec)
    BY <1>1 DEF Data
  <2> DEFINE old == inode[f]
  <2> HIDE DEF old
  <2>2. old \in Seq(Sec) /\ new = old \o SubSeq(pending, 1, m)
    BY <2>1 DEF old
  <2> HIDE DEF new
  <2>3. new \in Seq(Sec) /\ Len(old) \in Nat /\ Len(new) = Len(old) + m
    BY <2>1, <2>2, AppendPrefix
  <2>4. \A i \in 1..Len(old) : new[i] = old[i]
    BY <2>1, <2>2, AppendPrefix
  <2>5. \A i \in 1..m : new[Len(old) + i] = pending[i]
    BY <2>1, <2>2, AppendPrefix
  <2> QED BY <2>3, <2>4, <2>5 DEF Data, old
<1>3. inode' = [inode EXCEPT ![f] = new]
  BY DEF Reach
<1> HIDE DEF new
<1>4. /\ inode' \in [Inodes -> Data] /\ inode'[f] = new
      /\ \A x \in Inodes \ {f} : inode'[x] = inode[x]
  BY <1>2, <1>3 DEF Typed
<1> QED
  BY <1>2, <1>4

\* What stays in the buffer when the first m sections are passed on.
LEMMA Remaining ==
    ASSUME NEW pending \in Data, NEW m \in 0..Len(pending)
    PROVE  LET rest == SubSeq(pending, m + 1, Len(pending)) IN
           /\ rest \in Data /\ Len(rest) = Len(pending) - m
           /\ \A i \in 1..Len(pending) - m : rest[i] = pending[m + i]
<1>1. Len(pending) \in Nat /\ \A i \in m + 1..Len(pending) : pending[i] \in Sec
  BY LenProperties, ElementOfSeq DEF Data
<1>2. /\ SubSeq(pending, m + 1, Len(pending)) \in Data
      /\ Len(SubSeq(pending, m + 1, Len(pending)))
           = IF m + 1 <= Len(pending) THEN Len(pending) - (m + 1) + 1 ELSE 0
      /\ \A i \in 1..Len(pending) - (m + 1) + 1 :
            SubSeq(pending, m + 1, Len(pending))[i] = pending[(m + 1) + i - 1]
  BY <1>1, SubSeqProperties DEF Data
<1>3. \A i \in 1..Len(pending) - m : (m + 1) + i - 1 = m + i
  BY <1>1
<1> QED
  BY <1>1, <1>2, <1>3

-----------------------------------------------------------------------------
(***************************************************************************)
(* The saver.                                                              *)
(***************************************************************************)

\* A step that writes keeps the file a whole index once it has full length:
\* the sections counted by off are at most Sections, so none can be missing.
LEMMA WholeWhileWriting ==
    ASSUME Typed, Whole, f \in Inodes, saves' = saves, saves \in 1..MaxSaves,
           inode' \in [Inodes -> Data],
           \A x \in Inodes \ {f} : inode'[x] = inode[x],
           Len(inode'[f]) <= Sections,
           Len(inode'[f]) = Sections =>
               \A i \in 1..Sections : inode'[f][i] = Section(saves, i)
    PROVE  Whole'
<1> SUFFICES ASSUME NEW x \in Inodes
             PROVE  /\ Len(inode'[x]) <= Sections
                    /\ Len(inode'[x]) = Sections =>
                           \E n \in 1..saves' : inode'[x] = Complete(n)
  BY DEF Whole, Inodes, Complete, Section
<1>1. CASE x # f
  BY <1>1 DEF Whole
<1>2. CASE x = f
  <2>1. Len(inode'[f]) = Sections => inode'[f] = Complete(saves)
    BY CompleteData
  <2> QED BY <1>2, <2>1
<1> QED BY <1>1, <1>2

\* A saver's step that shortens no file leaves what the opener measured.
LEMMA MeasuredKept ==
    ASSUME IInv, UNCHANGED opener, inode' \in [Inodes -> Data],
           \A x \in Inodes : x = fd /\ opc # "lost" => Len(inode'[x]) >= Len(inode[x])
    PROVE  OpenerHolds' /\ Measured' /\ (sz \in 0..Sections)'
           /\ (opc \in {"idle", "fstat", "mmap", "new", "load", "open", "lost"})'
<1>1. \A x \in Inodes : Len(inode[x]) \in Nat /\ Len(inode'[x]) \in Nat
  BY LenProperties DEF IInv, Typed, Data
<1>2. OpenerHolds'
  BY DEF IInv, OpenerHolds, opener
<1>3. opc \in {"mmap", "new", "load", "open"} => fd \in Inodes
  BY DEF IInv, OpenerHolds, NoFile, Inodes
<1>4. Measured'
  BY <1>1, <1>3 DEF IInv, Measured, opener, Typed
<1> QED
  BY <1>2, <1>4 DEF IInv, Typed, opener

\* The invariant holds before the first save.
LEMMA InitIInv == Init => IInv
<1> SUFFICES ASSUME Init PROVE IInv
  OBVIOUS
<1>0. Sections \in Nat \ {0} /\ MaxSaves \in Nat
  BY FileAssumption
<1>1. <<>> \in Data /\ Len(<<>>) = 0
  BY EmptySeq DEF Data
<1>2. Typed
  <2>1. ok \in BOOLEAN /\ leftover \in BOOLEAN
    BY DEF Init
  <2>2. inode \in [Inodes -> Data]
    BY <1>1 DEF Init, Inodes
  <2> QED BY <1>0, <1>1, <2>1, <2>2 DEF Init, Typed, NoFile
<1>3. SaverHolds /\ OpenerHolds
  BY <1>0 DEF Init, SaverHolds, OpenerHolds, Writing, NoFile
<1>4. InFlight /\ InOrder /\ Closed /\ Measured
  BY DEF Init, InFlight, InOrder, Closed, Measured, Writing
<1>5. Whole
  BY <1>0, <1>1 DEF Init, Whole, Inodes
<1> QED
  BY <1>2, <1>3, <1>4, <1>5
     DEF IInv, Init, SuccessIsComplete, FailureLeavesNoFile, FailureHasErrno

\* fopen: the truncated file is empty, and it is not the one Open measured.
LEMMA FOpenStep == IInv /\ FOpen => IInv'
<1> SUFFICES ASSUME IInv, FOpen PROVE IInv'
  OBVIOUS
<1> DEFINE target == IF path = NoFile THEN saves + 1 ELSE path
<1>0. Sections \in Nat \ {0} /\ MaxSaves \in Nat
  BY FileAssumption
<1>1. <<>> \in Data /\ Len(<<>>) = 0
  BY EmptySeq DEF Data
<1>2. target \in Inodes
  BY <1>0 DEF IInv, Typed, FOpen, NoFile, Inodes
<1>3. /\ path' = target /\ f' = target /\ buf' = <<>> /\ off' = 0 /\ pc' = "header"
      /\ inode' = [inode EXCEPT ![target] = <<>>]
      /\ saves' = saves + 1 /\ status' = "none" /\ ok' = TRUE
      /\ failure_errno' = 0 /\ leftover' = FALSE /\ errno' = errno
      /\ UNCHANGED opener /\ (opc = "lost" \/ target # fd) /\ saves < MaxSaves
  BY DEF FOpen, Truncated
<1> HIDE DEF target
<1>4. /\ inode' \in [Inodes -> Data] /\ inode'[target] = <<>>
      /\ \A x \in Inodes \ {target} : inode'[x] = inode[x]
  BY <1>1, <1>2, <1>3 DEF IInv, Typed
<1>5. OpenerHolds' /\ Measured' /\ (sz \in 0..Sections)'
      /\ (opc \in {"idle", "fstat", "mmap", "new", "load", "open", "lost"})'
  <2>1. \A x \in Inodes : Len(inode[x]) \in Nat
    BY LenProperties DEF IInv, Typed, Data
  <2>2. \A x \in Inodes : x = fd /\ opc # "lost" => Len(inode'[x]) >= Len(inode[x])
    BY <1>3, <1>4, <2>1
  <2> QED
    BY <1>3, <1>4, <2>2, MeasuredKept
<1>6. Typed'
  <2>1. ok' \in BOOLEAN /\ leftover' \in BOOLEAN
    BY <1>3
  <2> QED
    BY <1>0, <1>1, <1>2, <1>3, <1>4, <1>5, <2>1 DEF IInv, Typed, Inodes
<1>7. SaverHolds' /\ Closed'
  BY <1>0, <1>2, <1>3 DEF IInv, Typed, SaverHolds, Closed, Writing, Inodes, NoFile
<1>8. InFlight' /\ InOrder'
  BY <1>1, <1>3, <1>4 DEF InFlight, InOrder
<1>9. Whole'
  <2> SUFFICES ASSUME NEW x \in Inodes
               PROVE  /\ Len(inode'[x]) <= Sections
                      /\ Len(inode'[x]) = Sections =>
                             \E n \in 1..saves' : inode'[x] = Complete(n)
    BY DEF Whole, Inodes, Complete, Section
  <2>1. CASE x = target
    BY <2>1, <1>0, <1>1, <1>4
  <2>2. CASE x # target
    BY <2>2, <1>0, <1>3, <1>4 DEF IInv, Typed, Whole
  <2> QED BY <2>1, <2>2
<1> QED
  BY <1>3, <1>5, <1>6, <1>7, <1>8, <1>9
     DEF IInv, SuccessIsComplete, FailureLeavesNoFile, FailureHasErrno

\* The saver's steps that leave the inodes alone: the status, the path and the
\* FILE* of a call that begins to write, ends or dies.
LEMMA SaverWithoutDataStep ==
    IInv /\ (FOpenFails \/ WriteHeader \/ WriteHeaderThrows \/ Finish \/ Crash \/ GoOn) => IInv'
<1> SUFFICES ASSUME IInv, FOpenFails \/ WriteHeader \/ WriteHeaderThrows \/ Finish \/ Crash \/ GoOn
             PROVE  IInv'
  OBVIOUS
<1>0. Sections \in Nat \ {0} /\ MaxSaves \in Nat
  BY FileAssumption
<1>1. <<>> \in Data /\ Len(<<>>) = 0
  BY EmptySeq DEF Data
<1>2. inode' = inode /\ UNCHANGED opener /\ off' = off /\ ok' = ok /\ failure_errno' = failure_errno
  BY DEF FOpenFails, WriteHeader, WriteHeaderThrows, Finish, Crash, GoOn
<1>3. saves' \in 0..MaxSaves /\ saves' >= saves
  BY <1>0 DEF FOpenFails, WriteHeader, WriteHeaderThrows, Finish, Crash, GoOn, IInv, Typed
<1>4. OpenerHolds' /\ Measured' /\ (sz \in 0..Sections)'
      /\ (opc \in {"idle", "fstat", "mmap", "new", "load", "open", "lost"})'
  <2>1. \A x \in Inodes : Len(inode'[x]) >= Len(inode[x])
    BY <1>2, LenProperties DEF IInv, Typed, Data
  <2> QED BY <1>2, <2>1, MeasuredKept DEF IInv, Typed
<1>5. Whole'
  BY <1>0, <1>2, <1>3 DEF IInv, Typed, Whole, Inodes, Complete, Section
<1>6. CASE FOpenFails
  BY <1>6, <1>0, <1>2, <1>3, <1>4, <1>5
     DEF FOpenFails, IInv, Typed, SaverHolds, InFlight, InOrder, Closed, Writing, NoFile,
         SuccessIsComplete, FailureLeavesNoFile, FailureHasErrno
<1>7. CASE WriteHeader
  BY <1>7, <1>0, <1>2, <1>3, <1>4, <1>5
     DEF WriteHeader, IInv, Typed, SaverHolds, InFlight, InOrder, Closed, Writing, NoFile,
         SuccessIsComplete, FailureLeavesNoFile, FailureHasErrno, Section
<1>8. CASE WriteHeaderThrows
  <2>1. PICK done \in BOOLEAN : Remove(done)
    BY <1>8 DEF WriteHeaderThrows
  <2>2. leftover' \in BOOLEAN /\ (path' = NoFile \/ leftover')
    BY <2>1 DEF Remove
  <2>3. path' \in 0..MaxSaves
    BY <2>1, <1>0 DEF Remove, NoFile, IInv, Typed
  <2> QED
    BY <1>8, <1>0, <1>2, <1>3, <1>4, <1>5, <2>2, <2>3
       DEF WriteHeaderThrows, IInv, Typed, SaverHolds, InFlight, InOrder, Closed, Writing,
           NoFile, SuccessIsComplete, FailureLeavesNoFile, FailureHasErrno
<1>9. CASE Finish /\ ok
  BY <1>9, <1>0, <1>2, <1>3, <1>4, <1>5
     DEF Finish, IInv, Typed, SaverHolds, InFlight, InOrder, Closed, Writing, NoFile,
         SuccessIsComplete, FailureLeavesNoFile, FailureHasErrno, Complete, Section
<1>12. CASE Finish /\ ~ok
  <2>1. PICK done \in BOOLEAN : Remove(done)
    BY <1>12 DEF Finish
  <2>2. leftover' \in BOOLEAN /\ (path' = NoFile \/ leftover')
    BY <2>1 DEF Remove
  <2>3. path' \in 0..MaxSaves
    BY <2>1, <1>0 DEF Remove, NoFile, IInv, Typed
  <2>4. errno' \in {0, 1} /\ errno' # 0
    BY <1>12 DEF Finish, Reported, IInv, Typed
  <2> QED
    BY <1>12, <1>0, <1>2, <1>3, <1>4, <1>5, <2>2, <2>3, <2>4
       DEF Finish, IInv, Typed, SaverHolds, InFlight, InOrder, Closed, Writing,
           NoFile, SuccessIsComplete, FailureLeavesNoFile, FailureHasErrno
<1>10. CASE Crash
  BY <1>10, <1>0, <1>1, <1>2, <1>3, <1>4, <1>5
     DEF Crash, IInv, Typed, SaverHolds, InFlight, InOrder, Closed, Writing, NoFile,
         SuccessIsComplete, FailureLeavesNoFile, FailureHasErrno
<1>11. CASE GoOn
  BY <1>11, <1>0, <1>2, <1>3, <1>4, <1>5
     DEF GoOn, IInv, Typed, SaverHolds, InFlight, InOrder, Closed, Writing, NoFile,
         SuccessIsComplete, FailureLeavesNoFile, FailureHasErrno
<1> QED
  BY <1>6, <1>7, <1>8, <1>9, <1>12, <1>10, <1>11

\* A step that writes into the FILE* ends with the invariant, if it accounts
\* for the sections: rest is what stays in the buffer, now what off becomes.
LEMMA WritingStep ==
    ASSUME IInv, pc = "emit",
           inode' \in [Inodes -> Data],
           \A x \in Inodes \ {f} : inode'[x] = inode[x],
           Len(inode'[f]) >= Len(inode[f]),
           UNCHANGED <<path, saves, leftover, status, opener>>,
           ok' \in BOOLEAN, failure_errno' \in {0, 1}, errno' \in {0, 1},
           NEW rest \in Data, NEW now \in 0..Sections,
           Len(inode'[f]) + Len(rest) <= now,
           ok' => Len(inode'[f]) + Len(rest) = now,
           Len(inode'[f]) + Len(rest) = now =>
               /\ \A i \in 1..Len(inode'[f]) : inode'[f][i] = Section(saves, i)
               /\ \A i \in 1..Len(rest) : rest[i] = Section(saves, Len(inode'[f]) + i),
           off' = now,
           \/ pc' = pc /\ f' = f /\ buf' = rest
           \/ pc' = "closed" /\ f' = NoFile /\ rest = <<>> /\ buf' = rest /\ now = Sections
    PROVE  IInv'
<1>0. Sections \in Nat \ {0} /\ MaxSaves \in Nat
  BY FileAssumption
<1>1. f = path /\ f \in Inodes /\ status = "none" /\ path # NoFile
  BY <1>0 DEF IInv, Typed, SaverHolds, Writing, NoFile, Inodes
<1>2. Len(inode'[f]) \in Nat /\ Len(rest) \in Nat /\ Len(inode[f]) \in Nat
  BY <1>1, LenProperties DEF Data, IInv, Typed
<1>3. OpenerHolds' /\ Measured' /\ (sz \in 0..Sections)'
      /\ (opc \in {"idle", "fstat", "mmap", "new", "load", "open", "lost"})'
  <2>1. \A x \in Inodes : Len(inode'[x]) >= Len(inode[x])
    BY <1>1, LenProperties DEF IInv, Typed, Data
  <2> QED BY <2>1, MeasuredKept
<1>4. Typed'
  BY <1>0, <1>3 DEF IInv, Typed
<1>5. SaverHolds'
  BY <1>0, <1>1 DEF IInv, SaverHolds, Writing
<1>6. InFlight'
  BY <1>1 DEF InFlight, Writing
<1>7. InOrder'
  BY <1>1 DEF InOrder, Writing, Section
<1>8. saves \in 1..MaxSaves
  BY <1>1, <1>0 DEF IInv, Typed, SaverHolds
<1>9. Len(inode'[f]) <= Sections
  BY <1>0, <1>2
<1>10. Len(inode'[f]) = Sections =>
          \A i \in 1..Sections : inode'[f][i] = Section(saves, i)
  BY <1>0, <1>2
<1>11. Whole'
  BY <1>1, <1>8, <1>9, <1>10, WholeWhileWriting DEF IInv
<1>12. Closed'
  <2> SUFFICES ASSUME pc' = "closed", ok' PROVE inode'[path] = Complete(saves)
    BY DEF Closed, Complete, Section
  <2>1. Len(rest) = 0
    BY EmptySeq
  <2>2. Len(inode'[f]) = Sections
    BY <1>2, <2>1
  <2> QED
    BY <2>2, <1>1, <1>10, CompleteData
<1> QED
  BY <1>1, <1>3, <1>4, <1>5, <1>6, <1>7, <1>11, <1>12
     DEF IInv, SuccessIsComplete, FailureLeavesNoFile, FailureHasErrno

\* The phases of the FILE*, and the sizes the arithmetic below needs.
LEMMA EmitFacts ==
    ASSUME IInv, pc = "emit"
    PROVE  /\ f \in Inodes /\ Typed
           /\ buf \in Data /\ Len(buf) \in Nat /\ Len(inode[f]) \in Nat
           /\ off \in 0..Sections /\ saves \in Nat
           /\ Sections \in Nat
           /\ Len(inode[f]) + Len(buf) <= off
<1>1. Sections \in Nat \ {0} /\ MaxSaves \in Nat
  BY FileAssumption
<1>2. f \in Inodes /\ Typed
  BY <1>1 DEF IInv, Typed, SaverHolds, Writing, NoFile, Inodes
<1>3. Len(buf) \in Nat /\ Len(inode[f]) \in Nat
  BY <1>2, LenProperties DEF Typed, Data
<1> QED
  BY <1>1, <1>2, <1>3 DEF IInv, InFlight, Writing, Typed

\* fwrite takes the section; the buffer and the inode share the sections that
\* were there and the new one.
LEMMA EmitStep == IInv /\ Emit => IInv'
<1> SUFFICES ASSUME IInv, Emit PROVE IInv'
  OBVIOUS
<1> DEFINE sec == Section(saves, off + 1)
           pending == Append(buf, sec)
<1>0. /\ pc = "emit" /\ off < Sections /\ off' = off + 1
      /\ UNCHANGED <<path, saves, f, ok, failure_errno, errno, leftover, status, pc, opener>>
  BY DEF Emit
<1>1. PICK m \in 0..Len(pending) : /\ Reach(pending, m)
                                   /\ buf' = SubSeq(pending, m + 1, Len(pending))
  BY DEF Emit
<1>2. /\ f \in Inodes /\ Typed
      /\ buf \in Data /\ Len(buf) \in Nat /\ Len(inode[f]) \in Nat
      /\ off \in 0..Sections /\ saves \in Nat
      /\ Sections \in Nat
      /\ Len(inode[f]) + Len(buf) <= off
  BY <1>0, EmitFacts
<1>3. sec \in Sec
  BY <1>2 DEF Section, Sec
<1> HIDE DEF sec
<1>4. /\ pending \in Data /\ Len(pending) = Len(buf) + 1
      /\ \A i \in 1..Len(buf) : pending[i] = buf[i]
      /\ pending[Len(buf) + 1] = sec
  BY <1>2, <1>3, AppendProperties DEF Data
<1> HIDE DEF pending
<1>5. /\ inode' \in [Inodes -> Data]
      /\ \A x \in Inodes \ {f} : inode'[x] = inode[x]
      /\ Len(inode'[f]) = Len(inode[f]) + m
      /\ \A i \in 1..Len(inode[f]) : inode'[f][i] = inode[f][i]
      /\ \A i \in 1..m : inode'[f][Len(inode[f]) + i] = pending[i]
  BY <1>1, <1>2, <1>4, Reaching
<1>6. /\ buf' \in Data /\ Len(buf') = Len(pending) - m
      /\ \A i \in 1..Len(pending) - m : buf'[i] = pending[m + i]
  BY <1>1, <1>4, Remaining
<1>7. /\ off + 1 \in 0..Sections
      /\ Len(inode'[f]) + Len(buf') = Len(inode[f]) + Len(buf) + 1
      /\ Len(inode'[f]) + Len(buf') <= off + 1
      /\ Len(inode'[f]) >= Len(inode[f])
  <2> DEFINE li == Len(inode[f])  lb == Len(buf)  lp == Len(pending)
             ni == Len(inode'[f])  nb == Len(buf')
  <2>1. /\ li \in Nat /\ lb \in Nat /\ off \in Nat /\ Sections \in Nat
        /\ off < Sections /\ li + lb <= off /\ lp = lb + 1
        /\ ni = li + m /\ nb = lp - m /\ m \in 0..lp
    BY <1>0, <1>2, <1>4, <1>5, <1>6
  <2> HIDE DEF li, lb, lp, ni, nb
  <2>2. off + 1 \in 0..Sections /\ ni + nb = li + lb + 1 /\ ni + nb <= off + 1 /\ ni >= li
    BY <2>1
  <2> QED BY <2>2 DEF li, lb, lp, ni, nb
<1>10. ok' => Len(inode'[f]) + Len(buf') = off + 1
  <2>1. ok' => Len(inode[f]) + Len(buf) = off
    BY <1>0 DEF IInv, InFlight, Writing
  <2> QED BY <1>7, <2>1
<1>8. ASSUME Len(inode'[f]) + Len(buf') = off + 1
      PROVE  /\ \A i \in 1..Len(inode'[f]) : inode'[f][i] = Section(saves, i)
             /\ \A i \in 1..Len(buf') : buf'[i] = Section(saves, Len(inode'[f]) + i)
  <2>1. Len(inode[f]) + Len(buf) = off
    BY <1>2, <1>7, <1>8
  <2>2. /\ \A i \in 1..Len(inode[f]) : inode[f][i] = Section(saves, i)
        /\ \A i \in 1..Len(buf) : buf[i] = Section(saves, Len(inode[f]) + i)
    BY <2>1, <1>0 DEF IInv, InOrder, Writing
  <2>3. \A i \in 1..Len(pending) : pending[i] = Section(saves, Len(inode[f]) + i)
    <3> SUFFICES ASSUME NEW i \in 1..Len(pending)
                 PROVE  pending[i] = Section(saves, Len(inode[f]) + i)
      OBVIOUS
    <3>1. CASE i \in 1..Len(buf)
      BY <3>1, <1>4, <2>2
    <3>2. CASE i = Len(buf) + 1
      <4>1. Len(inode[f]) + i = off + 1
        <5> DEFINE li == Len(inode[f])  lb == Len(buf)
        <5>1. li + lb = off /\ li \in Nat /\ lb \in Nat /\ i = lb + 1
          BY <3>2, <2>1, <1>2
        <5> HIDE DEF li, lb
        <5>2. li + i = off + 1
          BY <5>1
        <5> QED BY <5>2 DEF li
      <4> QED BY <3>2, <4>1, <1>4 DEF sec
    <3> QED BY <3>1, <3>2, <1>2, <1>4
  <2>4. ASSUME NEW i \in 1..Len(inode'[f])
        PROVE  inode'[f][i] = Section(saves, i)
    <3>1. CASE i \in 1..Len(inode[f])
      BY <3>1, <1>5, <2>2
    <3>2. CASE i \notin 1..Len(inode[f])
      <4>1. PICK j \in 1..m : i = Len(inode[f]) + j
        <5>1. i - Len(inode[f]) \in 1..m /\ i = Len(inode[f]) + (i - Len(inode[f]))
          BY <3>2, <1>2, <1>5
        <5> QED BY <5>1
      <4>2. j \in 1..Len(pending)
        BY <1>2, <1>4
      <4> QED BY <4>1, <4>2, <1>5, <2>3
    <3> QED BY <3>1, <3>2
  <2>5. ASSUME NEW i \in 1..Len(buf')
        PROVE  buf'[i] = Section(saves, Len(inode'[f]) + i)
    <3>1. m + i \in 1..Len(pending) /\ Len(inode[f]) + (m + i) = Len(inode'[f]) + i
          /\ i \in 1..Len(pending) - m
      <4> DEFINE li == Len(inode[f])  lb == Len(buf)  lp == Len(pending)
                 ni == Len(inode'[f])  nb == Len(buf')
      <4>1. /\ li \in Nat /\ lb \in Nat /\ lp = lb + 1
            /\ ni = li + m /\ nb = lp - m /\ m \in 0..lp /\ i \in 1..nb
        BY <1>2, <1>4, <1>5, <1>6
      <4> HIDE DEF li, lb, lp, ni, nb
      <4>2. m + i \in 1..lp /\ li + (m + i) = ni + i /\ i \in 1..lp - m
        BY <4>1
      <4> QED BY <4>2 DEF li, lp, ni
    <3>2. buf'[i] = pending[m + i]
      BY <3>1, <1>6
    <3>3. pending[m + i] = Section(saves, Len(inode[f]) + (m + i))
      BY <3>1, <2>3
    <3> QED BY <3>1, <3>2, <3>3
  <2> QED BY <2>4, <2>5
<1>9. ok' \in BOOLEAN /\ errno' \in {0, 1} /\ failure_errno' \in {0, 1}
  BY <1>0 DEF IInv, Typed
<1> QED
  BY <1>0, <1>5, <1>6, <1>7, <1>8, <1>9, <1>10, WritingStep

\* Passing on m of the buffered sections: the inode grows by m, and when it
\* then has as many as were emitted, it has them in order.
LEMMA Flushing ==
    ASSUME IInv, pc = "emit", NEW m \in 0..Len(buf), Reach(buf, m)
    PROVE  /\ inode' \in [Inodes -> Data]
           /\ \A x \in Inodes \ {f} : inode'[x] = inode[x]
           /\ Len(inode'[f]) >= Len(inode[f])
           /\ Len(inode'[f]) = Len(inode[f]) + m
           /\ Len(inode'[f]) <= off
           /\ Len(inode'[f]) = off => \A i \in 1..off : inode'[f][i] = Section(saves, i)
<1>1. /\ f \in Inodes /\ Typed
      /\ buf \in Data /\ Len(buf) \in Nat /\ Len(inode[f]) \in Nat
      /\ off \in 0..Sections /\ Sections \in Nat
      /\ Len(inode[f]) + Len(buf) <= off
  BY EmitFacts
<1>2. /\ inode' \in [Inodes -> Data]
      /\ \A x \in Inodes \ {f} : inode'[x] = inode[x]
      /\ Len(inode'[f]) = Len(inode[f]) + m
      /\ \A i \in 1..Len(inode[f]) : inode'[f][i] = inode[f][i]
      /\ \A i \in 1..m : inode'[f][Len(inode[f]) + i] = buf[i]
  BY <1>1, Reaching
<1> DEFINE li == Len(inode[f])  lb == Len(buf)  ni == Len(inode'[f])
<1>3. /\ li \in Nat /\ lb \in Nat /\ off \in Nat /\ li + lb <= off
      /\ ni = li + m /\ m \in 0..lb
  BY <1>1, <1>2
<1>4. ASSUME ni = off, NEW i \in 1..off
      PROVE  inode'[f][i] = Section(saves, i)
  <2> HIDE DEF li, lb, ni
  <2>1. m = lb /\ li + lb = off
    BY <1>3, <1>4
  <2>2. /\ \A k \in 1..li : inode[f][k] = Section(saves, k)
        /\ \A k \in 1..lb : buf[k] = Section(saves, li + k)
    BY <2>1 DEF IInv, InOrder, Writing, li, lb
  <2>3. CASE i \in 1..li
    BY <2>3, <2>2, <1>2 DEF li
  <2>4. CASE i \notin 1..li
    <3>1. i - li \in 1..lb /\ li + (i - li) = i
      BY <2>4, <2>1, <1>3
    <3>2. inode'[f][li + (i - li)] = buf[i - li]
      BY <3>1, <2>1, <1>2 DEF li
    <3> QED BY <3>1, <3>2, <2>2
  <2> QED BY <2>3, <2>4
<1> HIDE DEF li, lb, ni
<1>5. ni >= li /\ ni <= off
  BY <1>3
<1> QED
  BY <1>2, <1>4, <1>5 DEF li, ni

\* A short fwrite: what is written falls behind what was emitted for good.
LEMMA EmitShortStep == IInv /\ EmitShort => IInv'
<1> SUFFICES ASSUME IInv, EmitShort PROVE IInv'
  OBVIOUS
<1>0. /\ pc = "emit" /\ off < Sections /\ off' = off + 1
      /\ UNCHANGED <<path, saves, f, leftover, status, pc, opener>>
      /\ ok' = FALSE
  BY DEF EmitShort, FailWithErrno
<1>1. PICK m \in 0..Len(buf) : /\ Reach(buf, m)
                               /\ buf' \in {SubSeq(buf, m + 1, Len(buf)), <<>>}
  BY DEF EmitShort
<1>2. /\ buf \in Data /\ Len(buf) \in Nat /\ Len(inode[f]) \in Nat
      /\ off \in 0..Sections /\ Sections \in Nat
      /\ Len(inode[f]) + Len(buf) <= off
  BY <1>0, EmitFacts
<1>3. /\ inode' \in [Inodes -> Data]
      /\ \A x \in Inodes \ {f} : inode'[x] = inode[x]
      /\ Len(inode'[f]) >= Len(inode[f])
      /\ Len(inode'[f]) = Len(inode[f]) + m
  BY <1>0, <1>1, Flushing
<1>4. buf' \in Data /\ Len(buf') \in 0..Len(buf) - m
  <2>1. <<>> \in Data /\ Len(<<>>) = 0
    BY EmptySeq DEF Data
  <2>2. /\ SubSeq(buf, m + 1, Len(buf)) \in Data
        /\ Len(SubSeq(buf, m + 1, Len(buf))) = Len(buf) - m
    BY <1>2, Remaining
  <2>3. Len(buf) - m \in Nat
    BY <1>2
  <2>4. CASE buf' = <<>>
    BY <2>1, <2>3, <2>4
  <2>5. CASE buf' = SubSeq(buf, m + 1, Len(buf))
    <3>1. buf' \in Data /\ Len(buf') = Len(buf) - m
      BY <2>2, <2>5
    <3> QED BY <3>1, <2>3
  <2> QED BY <1>1, <2>4, <2>5
<1>5. off + 1 \in 0..Sections /\ Len(inode'[f]) + Len(buf') < off + 1
  <2> DEFINE li == Len(inode[f])  lb == Len(buf)  ni == Len(inode'[f])  nb == Len(buf')
  <2>1. /\ li \in Nat /\ lb \in Nat /\ off \in Nat /\ Sections \in Nat /\ off < Sections
        /\ li + lb <= off /\ ni = li + m /\ m \in 0..lb /\ nb \in 0..lb - m
    BY <1>0, <1>2, <1>3, <1>4
  <2> HIDE DEF li, lb, ni, nb
  <2>2. off + 1 \in 0..Sections /\ ni + nb < off + 1
    BY <2>1
  <2> QED BY <2>2 DEF ni, nb
<1>6. /\ Len(inode'[f]) + Len(buf') <= off + 1
      /\ Len(inode'[f]) + Len(buf') # off + 1
  <2>1. Len(inode'[f]) \in Nat /\ Len(buf') \in Nat /\ off \in Nat
    BY <1>2, <1>3, <1>4
  <2> QED BY <1>5, <2>1
<1>7. ok' \in BOOLEAN /\ errno' \in {0, 1} /\ failure_errno' \in {0, 1}
  <2>1. errno' \in {0, 1} /\ failure_errno' \in {0, 1}
    BY DEF EmitShort, FailWithErrno, IInv, Typed
  <2> QED BY <1>0, <2>1
<1>8. ~ok'
  BY <1>0
<1> QED
  BY <1>0, <1>3, <1>4, <1>5, <1>6, <1>7, <1>8, WritingStep

\* fclose, whether it flushes everything or fails on the way.
LEMMA FCloseStep == IInv /\ (FClose \/ FCloseFails) => IInv'
<1> SUFFICES ASSUME IInv, FClose \/ FCloseFails PROVE IInv'
  OBVIOUS
<1>0. /\ pc = "emit" /\ off = Sections /\ off' = off
      /\ UNCHANGED <<path, saves, leftover, status, opener>>
      /\ pc' = "closed" /\ f' = NoFile /\ buf' = <<>>
  BY DEF FClose, FCloseFails
<1>1. /\ buf \in Data /\ Len(buf) \in Nat /\ Len(inode[f]) \in Nat
      /\ off \in 0..Sections /\ Sections \in Nat
  BY <1>0, EmitFacts
<1>2. PICK m \in 0..Len(buf) : Reach(buf, m) /\ (FClose => m = Len(buf))
  BY <1>1 DEF FClose, FCloseFails
<1>3. /\ inode' \in [Inodes -> Data]
      /\ \A x \in Inodes \ {f} : inode'[x] = inode[x]
      /\ Len(inode'[f]) >= Len(inode[f])
      /\ Len(inode'[f]) = Len(inode[f]) + m
      /\ Len(inode'[f]) <= off
      /\ Len(inode'[f]) = off => \A i \in 1..off : inode'[f][i] = Section(saves, i)
  BY <1>0, <1>2, Flushing
<1>4. <<>> \in Data /\ Len(<<>>) = 0
  BY EmptySeq DEF Data
<1>5. ok' => Len(inode'[f]) = off
  <2>1. CASE FCloseFails
    BY <2>1 DEF FCloseFails, FailWithErrno
  <2>2. CASE FClose
    <3>1. ok' = ok
      BY <2>2 DEF FClose
    <3>2. ok => Len(inode[f]) + Len(buf) = off
      BY <1>0 DEF IInv, InFlight, Writing
    <3> QED BY <3>1, <3>2, <2>2, <1>2, <1>3
  <2> QED BY <2>1, <2>2
<1>6. /\ Len(inode'[f]) + Len(<<>>) = Len(inode'[f])
      /\ \A i \in 1..Len(<<>>) : FALSE
  <2>1. Len(inode'[f]) \in Nat
    BY <1>1, <1>3
  <2> QED BY <1>4, <2>1
<1>7. ok' \in BOOLEAN /\ errno' \in {0, 1} /\ failure_errno' \in {0, 1}
  <2>1. CASE FCloseFails
    <3>1. errno' \in {0, 1} /\ failure_errno' \in {0, 1}
      BY <2>1 DEF FCloseFails, FailWithErrno, IInv, Typed
    <3>2. ok' \in BOOLEAN
      BY <2>1 DEF FCloseFails, FailWithErrno
    <3> QED BY <3>1, <3>2
  <2>2. CASE FClose
    BY <2>2 DEF FClose, IInv, Typed
  <2> QED BY <2>1, <2>2
<1>8. /\ Len(inode'[f]) + Len(<<>>) <= off
      /\ ok' => Len(inode'[f]) + Len(<<>>) = off
  BY <1>3, <1>5, <1>6
<1>9. ASSUME Len(inode'[f]) + Len(<<>>) = off
      PROVE  /\ \A i \in 1..Len(inode'[f]) : inode'[f][i] = Section(saves, i)
             /\ \A i \in 1..Len(<<>>) : <<>>[i] = Section(saves, Len(inode'[f]) + i)
  BY <1>3, <1>6, <1>9
<1> QED
  BY <1>0, <1>1, <1>3, <1>4, <1>7, <1>8, <1>9, WritingStep

-----------------------------------------------------------------------------
(***************************************************************************)
(* The opener, which leaves the file alone.                                *)
(***************************************************************************)
LEMMA OpenerStep == IInv /\ OpenerNext => IInv'
<1> SUFFICES ASSUME IInv, OpenerNext PROVE IInv'
  OBVIOUS
<1>0. Sections \in Nat \ {0} /\ MaxSaves \in Nat
  BY FileAssumption
<1>1. UNCHANGED <<path, inode, saver>>
  BY DEF OpenerNext, OpenFd, FStat, FStatOrMMapFails, MMap, New, NewThrows, LoadView, Destroy
<1>2. \A x \in Inodes : Len(inode[x]) \in 0..Sections
  BY <1>0, LenProperties DEF IInv, Typed, Data, Whole
<1>3. fd # NoFile => fd \in Inodes
  BY <1>0 DEF IInv, OpenerHolds, NoFile, Inodes
<1>4. /\ SaverHolds' /\ InFlight' /\ InOrder' /\ Whole' /\ Closed'
      /\ SuccessIsComplete' /\ FailureLeavesNoFile' /\ FailureHasErrno'
  BY <1>1 DEF saver, IInv, SaverHolds, InFlight, InOrder, Whole, Closed, Writing, Inodes,
              SuccessIsComplete, FailureLeavesNoFile, FailureHasErrno, Complete, Section
<1>5. Typed' /\ OpenerHolds' /\ Measured'
  <2>1. CASE OpenFd
    BY <2>1, <1>0, <1>1 DEF OpenFd, saver, IInv, Typed, OpenerHolds, Measured, NoFile
  <2>2. CASE FStat
    BY <2>2, <1>0, <1>1, <1>2, <1>3
       DEF FStat, CloseFd, saver, IInv, Typed, OpenerHolds, Measured, NoFile
  <2>3. CASE FStatOrMMapFails
    BY <2>3, <1>0, <1>1 DEF FStatOrMMapFails, CloseFd, saver, IInv, Typed, OpenerHolds, Measured, NoFile
  <2>4. CASE MMap
    BY <2>4, <1>0, <1>1 DEF MMap, saver, IInv, Typed, OpenerHolds, Measured, NoFile
  <2>5. CASE New \/ NewThrows
    BY <2>5, <1>0, <1>1 DEF New, NewThrows, saver, IInv, Typed, OpenerHolds, Measured, NoFile
  <2>6. CASE LoadView
    <3>1. addr = fd /\ fd \in Inodes /\ sz \in 1..Len(inode[fd]) /\ opc = "load"
      BY <2>6, <1>3 DEF LoadView, IInv, OpenerHolds, Measured
    <3>2. Len(View) = sz
      <4>1. inode[fd] \in Data /\ Len(inode[fd]) \in Nat
        BY <3>1, LenProperties DEF IInv, Typed, Data
      <4>2. \A i \in 1..sz : inode[fd][i] \in Sec
        BY <4>1, <3>1, ElementOfSeq DEF Data
      <4>3. Len(SubSeq(inode[fd], 1, sz)) = IF 1 <= sz THEN sz - 1 + 1 ELSE 0
        BY <4>2, <4>1, <3>1, SubSeqProperties
      <4> QED BY <4>1, <4>3, <3>1 DEF View
    <3>3. sz = Sections
      BY <3>1, <3>2, <2>6, <1>0 DEF LoadView, Accepts, IInv, Typed
    <3> QED
      BY <2>6, <3>1, <3>3, <1>0, <1>1 DEF LoadView, saver, IInv, Typed, OpenerHolds, Measured, NoFile
  <2>7. CASE Destroy
    BY <2>7, <1>0, <1>1 DEF Destroy, saver, IInv, Typed, OpenerHolds, Measured, NoFile
  <2> QED
    BY <2>1, <2>2, <2>3, <2>4, <2>5, <2>6, <2>7 DEF OpenerNext
<1> QED
  BY <1>4, <1>5 DEF IInv

-----------------------------------------------------------------------------
(***************************************************************************)
(* The invariant and what follows from it.                                 *)
(***************************************************************************)
LEMMA StutterStep == IInv /\ UNCHANGED vars => IInv'
BY DEF vars, saver, opener, IInv, Typed, SaverHolds, OpenerHolds, InFlight, InOrder, Whole,
       Closed, Measured, Writing, Inodes, Complete, Section,
       SuccessIsComplete, FailureLeavesNoFile, FailureHasErrno

\* The invariant holds in every reachable state.
LEMMA Inductive == Spec => []IInv
<1>1. IInv /\ [Next]_vars => IInv'
  BY FOpenStep, SaverWithoutDataStep, EmitStep, EmitShortStep, FCloseStep, OpenerStep,
     StutterStep DEF Next, SaverNext
<1> QED
  BY <1>1, InitIInv, PTL DEF Spec

\* Types of the two processes' locals and of the file system; in particular a
\* file and stdio's buffer never hold more sections than an index has.
THEOREM TypeCorrect == Spec => []TypeOK
<1>1. IInv => TypeOK
  <2> SUFFICES ASSUME IInv PROVE TypeOK
    OBVIOUS
  <2>0. Sections \in Nat \ {0} /\ MaxSaves \in Nat
    BY FileAssumption
  <2>1. ASSUME NEW x \in 1..MaxSaves
        PROVE  Len(inode[x]) + (IF x = f THEN Len(buf) ELSE 0) <= Sections
    <3>1. Len(inode[x]) \in Nat /\ Len(inode[x]) <= Sections
      BY LenProperties DEF IInv, Typed, Data, Inodes, Whole
    <3>2. CASE x # f
      BY <3>1, <3>2, <2>0
    <3>3. CASE x = f
      <4>1. Len(inode[f]) + Len(buf) <= off
        BY <3>3 DEF IInv, SaverHolds, InFlight, NoFile
      <4> DEFINE li == Len(inode[x])  lb == Len(buf)
      <4>2. /\ li \in Nat /\ lb \in Nat /\ off \in Nat /\ off <= Sections
            /\ li + lb <= off
        BY <4>1, <3>1, <3>3, <2>0, LenProperties DEF IInv, Typed, Data
      <4> HIDE DEF li, lb
      <4>3. li + lb <= Sections
        BY <4>2, <2>0
      <4> QED BY <3>3, <4>3 DEF li, lb
    <3> QED BY <3>2, <3>3
  <2>2. f \in 0..MaxSaves /\ fd \in 0..MaxSaves /\ addr \in 0..MaxSaves
    BY <2>0 DEF IInv, Typed, SaverHolds, OpenerHolds, NoFile
  <2> QED BY <2>1, <2>2 DEF IInv, Typed, TypeOK
<1> QED
  BY <1>1, Inductive, PTL

\* SerializeToFile reports Success only for a file that holds every section,
\* whenever stdio passed its buffer on.
THEOREM SuccessCorrect == Spec => []SuccessIsComplete
<1>1. IInv => SuccessIsComplete
  BY DEF IInv
<1> QED
  BY <1>1, Inductive, PTL

\* A call that failed after it had opened the file leaves none behind, unless
\* it could not be removed.
THEOREM FailureCorrect == Spec => []FailureLeavesNoFile
<1>1. IInv => FailureLeavesNoFile
  BY DEF IInv
<1> QED
  BY <1>1, Inductive, PTL

\* A call that reports a failed write reports a nonzero errno with it.
THEOREM ErrnoCorrect == Spec => []FailureHasErrno
<1>1. IInv => FailureHasErrno
  BY DEF IInv
<1> QED
  BY <1>1, Inductive, PTL

\* The index that Open hands out views every section of one saved index, as
\* long as it lives, whatever saves, failures, crashes and removals went
\* before or go on beside it.
THEOREM OpenCorrect == Spec => []OpenIsComplete
<1>1. IInv => OpenIsComplete
  <2> SUFFICES ASSUME IInv, opc = "open"
               PROVE  \E n \in 1..saves : SubSeq(inode[addr], 1, sz) = Complete(n)
    BY DEF OpenIsComplete
  <2>1. addr = fd /\ fd \in Inodes /\ sz \in 1..Len(inode[fd]) /\ sz = Sections
    BY FileAssumption DEF IInv, OpenerHolds, Measured, NoFile, Inodes
  <2>2. inode[fd] \in Data /\ Len(inode[fd]) \in Nat /\ Len(inode[fd]) <= Sections
    BY <2>1, LenProperties DEF IInv, Typed, Data, Whole
  <2>3. Len(inode[fd]) = Sections
    BY <2>1, <2>2, FileAssumption
  <2>4. PICK n \in 1..saves : inode[fd] = Complete(n)
    BY <2>1, <2>3 DEF IInv, Whole
  <2>5. SubSeq(inode[fd], 1, Len(inode[fd])) = inode[fd]
    BY <2>2, SubSeqFull DEF Data
  <2> QED
    BY <2>1, <2>3, <2>4, <2>5
<1> QED
  BY <1>1, Inductive, PTL

\* An Open that returns nothing keeps neither a descriptor nor a mapping.
THEOREM NothingLeaksCorrect == Spec => []NothingLeaks
<1>1. IInv => NothingLeaks
  BY DEF IInv, OpenerHolds, NothingLeaks
<1> QED
  BY <1>1, Inductive, PTL
=============================================================================
