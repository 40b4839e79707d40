--------------------------- MODULE NandFilesProofs ---------------------------
(***************************************************************************)
(* The shadow files keep what SaveFiles promises, for any number of files, *)
(* handles, blocks and values.                                             *)
(*                                                                         *)
(* The invariant says that the names of the host's files are apart and     *)
(* that the shadows are alone.  With it, what happens to one inode is what *)
(* happens to one file or to one draft.                                    *)
(***************************************************************************)
EXTENDS NandFiles, TLAPS

IInv == TypeOK /\ NamesApart /\ ShadowsAreAlone /\ IosInPlace

-----------------------------------------------------------------------------
(* Facts of the state.                                                     *)

\* Absent is no descriptor, and NoInode no inode.
LEMMA Nothing == NoInode \notin Inode /\ Absent \notin OpenFile /\ Blank \in Value
BY NandConstants

\* A descriptor has a path and an inode.
LEMMA HandleType ==
  ASSUME TypeOK, NEW h \in Handle, IsOpen(h)
  PROVE  /\ handle[h] \in OpenFile
         /\ handle[h].use \in {"read", "direct", "shadow"}
         /\ handle[h].path \in Path
         /\ handle[h].inode \in Inode
BY Nothing DEF TypeOK, IsOpen, OpenFile

\* An inode that is free is no file's, no scratch file's and no handle's.
LEMMA FreeIsUnused ==
  ASSUME NEW i \in FreeInode
  PROVE  /\ i \in Inode
         /\ \A p \in Path : dir[p] # i /\ scratch[p] # i
         /\ \A h \in Handle : IsOpen(h) => handle[h].inode # i
BY DEF FreeInode, InUse

\* No two shadows are of the same file.
LEMMA OneShadow ==
  ASSUME TypeOK, ShadowsAreAlone,
         NEW g \in Handle, NEW h \in Handle, HasShadow(g), HasShadow(h),
         handle[g].path = handle[h].path
  PROVE  g = h
BY DEF ShadowsAreAlone, HasShadow

-----------------------------------------------------------------------------
(* Types.                                                                  *)

LEMMA BlankIsContent == BlankFile \in Content
BY Nothing DEF BlankFile, Content

\* A descriptor is allocated with the right type.
LEMMA AllocateType ==
  ASSUME TypeOK, NEW h \in Handle, NEW p \in Path, NEW i \in Inode,
         NEW use \in {"read", "direct", "shadow"}, NEW opened \in {"open", "safe_open", "ios"},
         AllocateFd(h, use, p, i, opened)
  PROVE  /\ handle' \in [Handle -> OpenFile \cup {Absent}]
         /\ flag' \in [Handle -> {"closed", "open", "safe_open", "ios"}]
         /\ answer' \in [Handle -> {"none", "ok", "error"}]
<1>1. [use |-> use, path |-> p, inode |-> i] \in OpenFile
  BY DEF OpenFile
<1> QED
  BY <1>1 DEF TypeOK, AllocateFd

\* A scratch file that is removed, or not.
LEMMA RemovedType ==
  ASSUME TypeOK, NEW p \in Path, ScratchRemoved(p)
  PROVE  /\ scratch' \in [Path -> Inode \cup {NoInode}]
         /\ \A q \in Path : scratch'[q] # scratch[q] => q = p /\ scratch'[q] = NoInode
BY DEF TypeOK, ScratchRemoved

\* A scratch file that is left is a free inode; but for it and what the file itself
\* now contains, nothing changes.
LEMMA LeftFacts ==
  ASSUME TypeOK, NEW p \in Path, dir[p] # NoInode, NEW now \in {cache[dir[p]], BlankFile},
         ScratchLeft(p, now)
  PROVE  \E i \in FreeInode :
           /\ scratch'[p] = i /\ \A q \in Path \ {p} : scratch'[q] = scratch[q]
           /\ scratch' \in [Path -> Inode \cup {NoInode}]
           /\ cache' \in [Inode -> Content] /\ disk' \in [Inode -> Content]
           /\ cache'[dir[p]] = now
           /\ \A j \in Inode \ {i, dir[p]} : cache'[j] = cache[j]
           /\ \A j \in Inode \ {i} : disk'[j] = disk[j]
<1>1. PICK i \in FreeInode :
        /\ scratch' = [scratch EXCEPT ![p] = i]
        /\ cache' = [cache EXCEPT ![i] = cache[dir[p]], ![dir[p]] = now]
        /\ disk' = [disk EXCEPT ![i] = BlankFile]
  BY DEF ScratchLeft
<1>2. i \in Inode /\ dir[p] \in Inode /\ dir[p] # i
  BY FreeIsUnused DEF TypeOK
<1>3. scratch'[p] = i /\ (\A q \in Path \ {p} : scratch'[q] = scratch[q])
      /\ scratch' \in [Path -> Inode \cup {NoInode}]
  BY <1>1, <1>2 DEF TypeOK
<1>4. now \in Content /\ cache[dir[p]] \in Content
  BY <1>2, BlankIsContent DEF TypeOK
<1>5. /\ cache' \in [Inode -> Content] /\ disk' \in [Inode -> Content]
      /\ cache'[dir[p]] = now
      /\ \A j \in Inode \ {i, dir[p]} : cache'[j] = cache[j]
      /\ \A j \in Inode \ {i} : disk'[j] = disk[j]
  BY <1>1, <1>2, <1>4, BlankIsContent DEF TypeOK
<1> QED
  BY <1>3, <1>5

\* The names and contents after an empty file is created.
LEMMA NewFileType ==
  ASSUME TypeOK, NEW p \in Path, NEW i \in FreeInode, NewFile(p, i)
  PROVE  /\ dir' \in [Path -> Inode \cup {NoInode}]
         /\ scratch' \in [Path -> Inode \cup {NoInode}]
         /\ cache' \in [Inode -> Content]
         /\ disk' \in [Inode -> Content]
BY FreeIsUnused, BlankIsContent DEF TypeOK, NewFile

\* An operation on names, contents and handles keeps their types.
LEMMA TypeStep ==
  ASSUME TypeOK, [Next]_vars
  PROVE  TypeOK'
<1>1. ASSUME NEW h \in Handle, NEW p \in Path, NEW opened \in {"open", "safe_open", "ios"},
             OpenForReading(h, p, opened)
      PROVE  TypeOK'
  <2>1. dir[p] \in Inode
    BY <1>1 DEF OpenForReading, TypeOK
  <2> QED
    BY <1>1, <2>1, AllocateType DEF OpenForReading, names, contents, TypeOK
<1>2. ASSUME NEW h \in Handle, NEW p \in Path, NEW opened \in {"open", "safe_open", "ios"},
             OpenInPlace(h, p, opened),
             scratch' \in [Path -> Inode \cup {NoInode}],
             cache' \in {cache, [cache EXCEPT ![dir[p]] = BlankFile]}
      PROVE  TypeOK'
  <2>1. dir[p] \in Inode
    BY <1>2 DEF OpenInPlace, TypeOK
  <2>2. cache' \in [Inode -> Content]
    BY <1>2, <2>1, BlankIsContent DEF TypeOK
  <2> QED
    BY <1>2, <2>1, <2>2, AllocateType DEF OpenInPlace, TypeOK
<1>3. ASSUME NEW h \in Handle, NEW p \in Path, NEW opened \in {"open", "safe_open"},
             OpenShadow(h, p, opened)
      PROVE  TypeOK'
  <2>1. PICK i \in FreeInode :
          /\ AllocateFd(h, "shadow", p, i, opened)
          /\ scratch' = [scratch EXCEPT ![p] = i]
          /\ cache' = [cache EXCEPT ![i] = cache[dir[p]]]
          /\ disk' = [disk EXCEPT ![i] = BlankFile]
    BY <1>3 DEF OpenShadow
  <2>2. i \in Inode /\ dir[p] \in Inode
    BY <1>3, FreeIsUnused DEF OpenShadow, TypeOK
  <2>3. cache' \in [Inode -> Content] /\ disk' \in [Inode -> Content]
    BY <2>1, <2>2, BlankIsContent DEF TypeOK
  <2>4. scratch' \in [Path -> Inode \cup {NoInode}]
    BY <2>1, <2>2 DEF TypeOK
  <2> QED
    BY <1>3, <2>1, <2>2, <2>3, <2>4, AllocateType DEF OpenShadow, TypeOK
<1>4. ASSUME NEW h \in Handle, NEW p \in Path, NANDOpen(h, p)
      PROVE  TypeOK'
  <2>1. CASE OpenForReading(h, p, "open")
    BY <2>1, <1>1
  <2>2. CASE OpenShadow(h, p, "open")
    BY <2>2, <1>3
  <2>3. CASE /\ OpenInPlace(h, p, "open")
             /\ IF IsHostPathOpen(p) THEN UNCHANGED scratch ELSE ScratchRemoved(p)
             /\ cache' \in {cache, [cache EXCEPT ![dir[p]] = BlankFile]}
    <3>1. scratch' \in [Path -> Inode \cup {NoInode}]
      BY <2>3, RemovedType DEF TypeOK
    <3> QED
      BY <2>3, <3>1, <1>2
  <2>4. CASE \E i \in FreeInode : NewFile(p, i) /\ AllocateFd(h, "direct", p, i, "open")
    BY <2>4, NewFileType, FreeIsUnused, AllocateType DEF TypeOK
  <2>5. CASE /\ dir[p] # NoInode /\ AllocateFd(h, "direct", p, dir[p], "open")
             /\ \E now \in {cache[dir[p]], BlankFile} : ScratchLeft(p, now)
             /\ UNCHANGED dir
    <3>1. /\ scratch' \in [Path -> Inode \cup {NoInode}]
          /\ cache' \in [Inode -> Content] /\ disk' \in [Inode -> Content]
      BY <2>5, LeftFacts
    <3>2. dir[p] \in Inode
      BY <2>5 DEF TypeOK
    <3>3. /\ handle' \in [Handle -> OpenFile \cup {Absent}]
          /\ flag' \in [Handle -> {"closed", "open", "safe_open", "ios"}]
          /\ answer' \in [Handle -> {"none", "ok", "error"}]
      BY <2>5, <3>2, AllocateType
    <3> QED
      BY <2>5, <3>1, <3>3 DEF TypeOK
  <2> QED
    BY <1>4, <2>1, <2>2, <2>3, <2>4, <2>5 DEF NANDOpen
<1>5. ASSUME NEW h \in Handle, NEW p \in Path, NANDSafeOpen(h, p)
      PROVE  TypeOK'
  <2>1. CASE OpenForReading(h, p, "safe_open")
    BY <2>1, <1>1
  <2>2. CASE OpenShadow(h, p, "safe_open")
    BY <2>2, <1>3
  <2>3. CASE ScratchRemoved(p) /\ UNCHANGED << dir, contents, handles >>
    BY <2>3, RemovedType DEF TypeOK, contents, handles
  <2>4. CASE dir[p] # NoInode /\ ScratchLeft(p, cache[dir[p]]) /\ UNCHANGED << dir, handles >>
    <3>1. /\ scratch' \in [Path -> Inode \cup {NoInode}]
          /\ cache' \in [Inode -> Content] /\ disk' \in [Inode -> Content]
      BY <2>4, LeftFacts
    <3> QED
      BY <2>4, <3>1 DEF TypeOK, handles
  <2> QED
    BY <1>5, <2>1, <2>2, <2>3, <2>4 DEF NANDSafeOpen
<1>6. ASSUME NEW h \in Handle, NEW p \in Path, IOS_Open(h, p)
      PROVE  TypeOK'
  <2>1. CASE OpenForReading(h, p, "ios")
    BY <2>1, <1>1
  <2>2. CASE OpenInPlace(h, p, "ios") /\ UNCHANGED << scratch, cache >>
    BY <2>2, <1>2 DEF TypeOK
  <2> QED
    BY <1>6, <2>1, <2>2 DEF IOS_Open
<1>7. ASSUME NEW h \in Handle, NANDWrite(h)
      PROVE  TypeOK'
  <2>1. PICK b \in Block, v \in Value : cache' = [cache EXCEPT ![handle[h].inode][b] = v]
    BY <1>7 DEF NANDWrite
  <2>2. handle[h].inode \in Inode
    BY <1>7, HandleType DEF NANDWrite
  <2>3. cache[handle[h].inode] \in [Block -> Value]
    BY <2>2 DEF TypeOK, Content
  <2>4. [cache[handle[h].inode] EXCEPT ![b] = v] \in Content
    BY <2>3 DEF Content
  <2>5. cache' = [cache EXCEPT ![handle[h].inode] = [cache[handle[h].inode] EXCEPT ![b] = v]]
    BY <2>1
  <2>6. cache' \in [Inode -> Content]
    BY <2>2, <2>4, <2>5 DEF TypeOK
  <2> QED
    BY <1>7, <2>6 DEF NANDWrite, TypeOK, names, handles
<1>8. ASSUME NEW h \in Handle, NEW result \in {"ok", "error"}, Answered(h, result)
      PROVE  /\ flag' \in [Handle -> {"closed", "open", "safe_open", "ios"}]
             /\ answer' \in [Handle -> {"none", "ok", "error"}]
  BY <1>8 DEF Answered, TypeOK
<1>9. ASSUME NEW h \in Handle, NEW result \in {"ok", "error"}, IsOpen(h),
             CommitAndCloseFd(h, result), Answered(h, result)
      PROVE  TypeOK'
  <2>1. handle[h].path \in Path /\ handle[h].inode \in Inode
    BY <1>9, HandleType
  <2>2. handle' \in [Handle -> OpenFile \cup {Absent}]
    BY <1>9 DEF CommitAndCloseFd, TypeOK
  <2>3. CASE Publish(h)
    BY <2>1, <2>2, <2>3, <1>8, <1>9 DEF Publish, TypeOK
  <2>4. CASE ScratchRemoved(handle[h].path) /\ UNCHANGED << dir, contents >>
    BY <2>1, <2>2, <2>4, <1>8, <1>9, RemovedType DEF TypeOK, contents
  <2>5. CASE /\ disk' = [disk EXCEPT ![handle[h].inode] = cache[handle[h].inode]]
             /\ UNCHANGED << names, cache >>
    BY <2>1, <2>2, <2>5, <1>8, <1>9 DEF TypeOK, names
  <2>6. CASE UNCHANGED << names, contents >>
    BY <2>2, <2>6, <1>8, <1>9 DEF TypeOK, names, contents
  <2> QED
    BY <1>9, <2>3, <2>4, <2>5, <2>6 DEF CommitAndCloseFd
<1>10. ASSUME NEW h \in Handle, NANDClose(h) \/ NANDSafeClose(h) \/ IOS_Close(h)
       PROVE  TypeOK'
  <2>1. PICK result \in {"ok", "error"} :
          /\ Answered(h, result)
          /\ \/ IsOpen(h) /\ CommitAndCloseFd(h, result)
             \/ /\ UNCHANGED << names, contents >>
                /\ handle' \in {handle, [handle EXCEPT ![h] = Absent]}
    BY <1>10 DEF NANDClose, NANDSafeClose, IOS_Close
  <2>2. CASE IsOpen(h) /\ CommitAndCloseFd(h, result)
    BY <2>1, <2>2, <1>9
  <2>3. CASE /\ UNCHANGED << names, contents >>
             /\ handle' \in {handle, [handle EXCEPT ![h] = Absent]}
    <3>1. handle' \in [Handle -> OpenFile \cup {Absent}]
      BY <2>3 DEF TypeOK
    <3> QED
      BY <2>1, <2>3, <3>1, <1>8 DEF TypeOK, names, contents
  <2> QED
    BY <2>1, <2>2, <2>3
<1>11. ASSUME NEW p \in Path, NANDCreate(p) \/ ISFS_CreateFile(p)
       PROVE  TypeOK'
  <2>1. CASE NANDCreate(p)
    BY <2>1, NewFileType DEF NANDCreate, TypeOK, handles
  <2>2. CASE /\ dir[p] # NoInode
             /\ cache' = [cache EXCEPT ![dir[p]] = BlankFile]
             /\ UNCHANGED << names, disk, handles >>
    BY <2>2, BlankIsContent DEF TypeOK, names, handles
  <2> QED
    BY <1>11, <2>1, <2>2 DEF ISFS_CreateFile
<1>12. ASSUME NEW p \in Path, NANDDelete(p)
       PROVE  TypeOK'
  BY <1>12 DEF NANDDelete, TypeOK, contents, handles
<1>13. ASSUME NEW p \in Path, NEW q \in Path, NANDMove(p, q) \/ ISFS_Rename(p, q)
       PROVE  TypeOK'
  BY <1>13 DEF NANDMove, ISFS_Rename, Rename, TypeOK, contents, handles
<1>14. CASE Writeback
  <2>1. PICK i \in Inode : disk' = [disk EXCEPT ![i] = cache[i]]
    BY <1>14 DEF Writeback
  <2> QED
    BY <1>14, <2>1 DEF Writeback, TypeOK, names, handles
<1>15. CASE Crash
  <2>1. cache' \in [Inode -> Content]
    BY <1>15 DEF Crash, TypeOK, Content
  <2> QED
    BY <1>15, <2>1 DEF Crash, TypeOK, names
<1>16. CASE UNCHANGED vars
  BY <1>16 DEF TypeOK, vars, names, contents, handles
<1> QED
  BY <1>4, <1>5, <1>6, <1>7, <1>10, <1>11, <1>12, <1>13, <1>14, <1>15, <1>16 DEF Next

-----------------------------------------------------------------------------
(* Names and shadows.                                                      *)

\* A descriptor for the file itself is not one of a scratch file.
LEMMA OpenedInPlace ==
  ASSUME TypeOK, ShadowsAreAlone, NEW h \in Handle, NEW p \in Path, NEW i \in Inode,
         NEW use \in {"read", "direct"}, NEW opened \in {"open", "safe_open", "ios"},
         dir' = dir, dir[p] = i,
         \A q \in Path : scratch'[q] = scratch[q]
                         \/ \A g \in Handle : HasShadow(g) => handle[g].path # q,
         ~ IsOpen(h), AllocateFd(h, use, p, i, opened)
  PROVE  ShadowsAreAlone'
<1>1. handle'[h] = [use |-> use, path |-> p, inode |-> i] /\ handle'[h] # Absent
  BY Nothing DEF AllocateFd, TypeOK, OpenFile
<1>2. \A g \in Handle \ {h} : handle'[g] = handle[g]
  BY DEF AllocateFd, TypeOK
<1>3. ~ HasShadow(h)'
  BY <1>1 DEF HasShadow
<1>4. \A g \in Handle : HasShadow(g)' => HasShadow(g) /\ handle'[g] = handle[g] /\ g # h
  BY <1>2, <1>3 DEF HasShadow, IsOpen
<1>5. ASSUME NEW g \in Handle, HasShadow(g)'
      PROVE  /\ scratch'[handle'[g].path] = handle'[g].inode
             /\ \A q \in Path : dir'[q] # handle'[g].inode
             /\ \A k \in Handle : IsOpen(k)' /\ handle'[k].inode = handle'[g].inode => k = g
  <2>1. HasShadow(g) /\ handle'[g] = handle[g] /\ g # h /\ handle[g].path \in Path
    BY <1>4, <1>5, HandleType DEF HasShadow
  <2>2. /\ scratch[handle[g].path] = handle[g].inode
        /\ \A q \in Path : dir[q] # handle[g].inode
        /\ \A k \in Handle : IsOpen(k) /\ handle[k].inode = handle[g].inode => k = g
    BY <2>1 DEF ShadowsAreAlone
  <2>3. handle'[h].inode # handle[g].inode
    BY <1>1, <2>2
  <2> QED
    BY <1>2, <2>1, <2>2, <2>3 DEF IsOpen
<1> QED
  BY <1>5 DEF ShadowsAreAlone

\* A new shadow.
LEMMA OpenedShadow ==
  ASSUME TypeOK, NamesApart, ShadowsAreAlone, NEW h \in Handle, NEW p \in Path,
         NEW opened \in {"open", "safe_open"}, OpenShadow(h, p, opened),
         \A g \in Handle : HasShadow(g) => handle[g].path # p
  PROVE  NamesApart' /\ ShadowsAreAlone'
<1>1. PICK i \in FreeInode :
        /\ AllocateFd(h, "shadow", p, i, opened)
        /\ scratch' = [scratch EXCEPT ![p] = i]
  BY DEF OpenShadow
<1>2. dir' = dir /\ ~ IsOpen(h)
  BY DEF OpenShadow
<1>3. /\ i \in Inode
      /\ \A q \in Path : dir[q] # i /\ scratch[q] # i
      /\ \A g \in Handle : IsOpen(g) => handle[g].inode # i
  BY FreeIsUnused
<1>4. scratch'[p] = i /\ \A q \in Path \ {p} : scratch'[q] = scratch[q]
  BY <1>1 DEF TypeOK
<1>5. NamesApart'
  BY <1>2, <1>3, <1>4 DEF NamesApart
<1>6. handle'[h] = [use |-> "shadow", path |-> p, inode |-> i]
  BY <1>1 DEF AllocateFd, TypeOK
<1>7. \A g \in Handle \ {h} : handle'[g] = handle[g]
  BY <1>1 DEF AllocateFd, TypeOK
<1>8. ASSUME NEW g \in Handle, HasShadow(g)'
      PROVE  /\ scratch'[handle'[g].path] = handle'[g].inode
             /\ \A q \in Path : dir'[q] # handle'[g].inode
             /\ \A k \in Handle : IsOpen(k)' /\ handle'[k].inode = handle'[g].inode => k = g
  <2>1. CASE g = h
    <3>1. \A k \in Handle \ {h} : IsOpen(k)' => handle'[k].inode # i
      BY <1>3, <1>7 DEF IsOpen
    <3> QED
      BY <2>1, <1>2, <1>3, <1>4, <1>6, <3>1
  <2>2. CASE g # h
    <3>1. HasShadow(g) /\ handle'[g] = handle[g]
      BY <2>2, <1>7, <1>8 DEF HasShadow, IsOpen
    <3>2. handle[g].path \in Path /\ handle[g].path # p /\ handle[g].inode # i
      BY <3>1, <1>3, HandleType DEF HasShadow
    <3>3. /\ scratch[handle[g].path] = handle[g].inode
          /\ \A q \in Path : dir[q] # handle[g].inode
          /\ \A k \in Handle : IsOpen(k) /\ handle[k].inode = handle[g].inode => k = g
      BY <3>1 DEF ShadowsAreAlone
    <3>4. \A k \in Handle : IsOpen(k)' /\ handle'[k].inode = handle'[g].inode => k = g
      BY <1>6, <1>7, <3>1, <3>2, <3>3 DEF IsOpen
    <3> QED
      BY <1>2, <1>4, <3>1, <3>2, <3>3, <3>4
  <2> QED
    BY <2>1, <2>2
<1> QED
  BY <1>5, <1>8 DEF ShadowsAreAlone

\* Shadows stay alone when handles are closed, and names change that are not those
\* of a remaining shadow.
LEMMA StillAlone ==
  ASSUME TypeOK, ShadowsAreAlone,
         \A h \in Handle : handle'[h] \in {handle[h], Absent},
         \A h \in Handle : HasShadow(h)' => scratch'[handle[h].path] = scratch[handle[h].path],
         \A h \in Handle, p \in Path : HasShadow(h)' => dir'[p] # handle[h].inode
  PROVE  ShadowsAreAlone'
<1>1. \A h \in Handle : IsOpen(h)' => IsOpen(h) /\ handle'[h] = handle[h]
  BY DEF IsOpen
<1>2. \A h \in Handle : HasShadow(h)' => HasShadow(h) /\ handle'[h] = handle[h]
  BY <1>1 DEF HasShadow
<1>3. ASSUME NEW h \in Handle, HasShadow(h)'
      PROVE  /\ scratch'[handle'[h].path] = handle'[h].inode
             /\ \A q \in Path : dir'[q] # handle'[h].inode
             /\ \A k \in Handle : IsOpen(k)' /\ handle'[k].inode = handle'[h].inode => k = h
  BY <1>1, <1>2, <1>3 DEF ShadowsAreAlone
<1> QED
  BY <1>3 DEF ShadowsAreAlone

\* A shadow that is closed with its file renamed over the original.
LEMMA PublishedApart ==
  ASSUME IInv, NEW h \in Handle, HasShadow(h), Publish(h),
         handle' = [handle EXCEPT ![h] = Absent]
  PROVE  NamesApart' /\ ShadowsAreAlone'
<1> DEFINE p == handle[h].path
<1>1. p \in Path /\ scratch[p] # NoInode /\ scratch[p] = handle[h].inode
  BY HandleType DEF IInv, HasShadow, Publish, ShadowsAreAlone
<1>2. dir'[p] = scratch[p] /\ \A q \in Path \ {p} : dir'[q] = dir[q]
  BY <1>1 DEF Publish, IInv, TypeOK
<1>3. scratch'[p] = NoInode /\ \A q \in Path \ {p} : scratch'[q] = scratch[q]
  BY <1>1 DEF Publish, IInv, TypeOK
<1> HIDE DEF p
<1>4. NamesApart'
  BY <1>1, <1>2, <1>3 DEF NamesApart, IInv
<1>5. \A g \in Handle : handle'[g] \in {handle[g], Absent} /\ (HasShadow(g)' => g # h /\ HasShadow(g))
  BY DEF IInv, TypeOK, HasShadow, IsOpen
<1>6. \A g \in Handle : HasShadow(g)' => handle[g].path # p /\ handle[g].inode # handle[h].inode
  BY <1>5, OneShadow DEF IInv, ShadowsAreAlone, HasShadow, p
<1>7. \A g \in Handle : HasShadow(g)' => scratch'[handle[g].path] = scratch[handle[g].path]
  BY <1>3, <1>5, <1>6, HandleType DEF IInv, HasShadow
<1>8. \A g \in Handle, q \in Path : HasShadow(g)' => dir'[q] # handle[g].inode
  BY <1>1, <1>2, <1>5, <1>6 DEF IInv, ShadowsAreAlone
<1> QED
  BY <1>4, <1>5, <1>7, <1>8, StillAlone DEF IInv

\* A handle that is closed, whatever becomes of its scratch file.
LEMMA ClosedApart ==
  ASSUME IInv, NEW h \in Handle, IsOpen(h),
         handle' = [handle EXCEPT ![h] = Absent], dir' = dir,
         scratch' = scratch \/ (HasShadow(h) /\ ScratchRemoved(handle[h].path))
  PROVE  NamesApart' /\ ShadowsAreAlone'
<1>1. \A q \in Path : scratch'[q] # scratch[q] =>
        HasShadow(h) /\ q = handle[h].path /\ scratch'[q] = NoInode
  BY HandleType, RemovedType DEF IInv
<1>2. NamesApart'
  BY <1>1 DEF NamesApart, IInv
<1>3. \A g \in Handle : handle'[g] \in {handle[g], Absent} /\ (HasShadow(g)' => g # h /\ HasShadow(g))
  BY DEF IInv, TypeOK, HasShadow, IsOpen
<1>4. \A g \in Handle : HasShadow(g)' => scratch'[handle[g].path] = scratch[handle[g].path]
  BY <1>1, <1>3, OneShadow, HandleType DEF IInv, HasShadow
<1>5. \A g \in Handle, q \in Path : HasShadow(g)' => dir'[q] # handle[g].inode
  BY <1>3 DEF IInv, ShadowsAreAlone
<1> QED
  BY <1>2, <1>3, <1>4, <1>5, StillAlone DEF IInv

\* A scratch file that is removed while there is no shadow of its file.
LEMMA RemovedApart ==
  ASSUME TypeOK, NamesApart, NEW p \in Path, ScratchRemoved(p), dir' = dir
  PROVE  NamesApart'
<1>1. \A q \in Path : scratch'[q] # scratch[q] => q = p /\ scratch'[q] = NoInode
  BY RemovedType
<1> QED
  BY <1>1 DEF NamesApart

\* A scratch file that is left has a name of its own.
LEMMA LeftApart ==
  ASSUME TypeOK, NamesApart, NEW p \in Path, dir[p] # NoInode,
         NEW now \in {cache[dir[p]], BlankFile}, ScratchLeft(p, now), dir' = dir
  PROVE  NamesApart' /\ \A q \in Path : scratch'[q] # scratch[q] => q = p
<1>1. PICK i \in FreeInode : scratch'[p] = i /\ \A q \in Path \ {p} : scratch'[q] = scratch[q]
  BY LeftFacts
<1>2. \A q \in Path : dir[q] # i /\ scratch[q] # i
  BY FreeIsUnused
<1> QED
  BY <1>1, <1>2 DEF NamesApart

\* Every step keeps names apart and shadows alone.
LEMMA ApartStep ==
  ASSUME IInv, [Next]_vars
  PROVE  NamesApart' /\ ShadowsAreAlone'
<1> USE DEF IInv
<1>1. ASSUME NEW h \in Handle, NEW p \in Path, NEW opened \in {"open", "safe_open", "ios"},
             NEW use \in {"read", "direct"},
             ~ IsOpen(h), dir[p] # NoInode, AllocateFd(h, use, p, dir[p], opened), dir' = dir,
             \/ scratch' = scratch
             \/ /\ \/ ScratchRemoved(p)
                   \/ \E now \in {cache[dir[p]], BlankFile} : ScratchLeft(p, now)
                /\ \A g \in Handle : HasShadow(g) => handle[g].path # p
      PROVE  NamesApart' /\ ShadowsAreAlone'
  <2>1. NamesApart'
    BY <1>1, RemovedApart, LeftApart DEF NamesApart
  <2>2. \A q \in Path : scratch'[q] = scratch[q] \/ \A g \in Handle : HasShadow(g) => handle[g].path # q
    BY <1>1, RemovedType, LeftApart
  <2>3. dir[p] \in Inode
    BY <1>1 DEF TypeOK
  <2> QED
    BY <1>1, <2>1, <2>2, <2>3, OpenedInPlace
<1>2. ASSUME NEW p \in Path, NEW i \in FreeInode, NewFile(p, i)
      PROVE  NamesApart' /\ dir'[p] = i /\ \A q \in Path \ {p} : dir'[q] = dir[q]
  <2>1. dir'[p] = i /\ \A q \in Path \ {p} : dir'[q] = dir[q]
    BY <1>2 DEF NewFile, TypeOK
  <2> QED
    BY <1>2, <2>1, FreeIsUnused DEF NewFile, NamesApart
<1>3. ASSUME NEW h \in Handle, NEW p \in Path, NANDOpen(h, p)
      PROVE  NamesApart' /\ ShadowsAreAlone'
  <2>1. CASE OpenForReading(h, p, "open")
    BY <2>1, <1>1 DEF OpenForReading, names
  <2>2. CASE ~ IsHostPathOpen(p) /\ OpenShadow(h, p, "open")
    BY <2>2, OpenedShadow DEF IsHostPathOpen, HasShadow
  <2>3. CASE /\ OpenInPlace(h, p, "open")
             /\ IF IsHostPathOpen(p) THEN UNCHANGED scratch ELSE ScratchRemoved(p)
    BY <2>3, <1>1 DEF OpenInPlace, IsHostPathOpen, HasShadow
  <2>4. CASE \E i \in FreeInode : ~ IsOpen(h) /\ NewFile(p, i) /\ AllocateFd(h, "direct", p, i, "open")
    <3>1. PICK i \in FreeInode : ~ IsOpen(h) /\ NewFile(p, i) /\ AllocateFd(h, "direct", p, i, "open")
      BY <2>4
    <3>2. NamesApart' /\ dir'[p] = i /\ scratch' = scratch /\ \A q \in Path \ {p} : dir'[q] = dir[q]
      BY <3>1, <1>2 DEF NewFile
    <3>3. i \in Inode /\ \A g \in Handle : IsOpen(g) => handle[g].inode # i
      BY FreeIsUnused
    <3>4. handle'[h] = [use |-> "direct", path |-> p, inode |-> i] /\ \A g \in Handle \ {h} : handle'[g] = handle[g]
      BY <3>1 DEF AllocateFd, TypeOK
    <3>5. ASSUME NEW g \in Handle, HasShadow(g)'
          PROVE  /\ scratch'[handle'[g].path] = handle'[g].inode
                 /\ \A q \in Path : dir'[q] # handle'[g].inode
                 /\ \A k \in Handle : IsOpen(k)' /\ handle'[k].inode = handle'[g].inode => k = g
      <4>1. g # h /\ HasShadow(g) /\ handle'[g] = handle[g]
        BY <3>4, <3>5 DEF HasShadow, IsOpen
      <4>2. /\ scratch[handle[g].path] = handle[g].inode
            /\ \A q \in Path : dir[q] # handle[g].inode
            /\ \A k \in Handle : IsOpen(k) /\ handle[k].inode = handle[g].inode => k = g
        BY <4>1 DEF ShadowsAreAlone
      <4>3. handle[g].inode # i
        BY <4>1, <3>3 DEF HasShadow
      <4> QED
        BY <3>2, <3>4, <4>1, <4>2, <4>3 DEF IsOpen
    <3> QED
      BY <3>2, <3>5 DEF ShadowsAreAlone
  <2>5. CASE /\ ~ IsHostPathOpen(p) /\ ~ IsOpen(h) /\ dir[p] # NoInode
             /\ AllocateFd(h, "direct", p, dir[p], "open")
             /\ \E now \in {cache[dir[p]], BlankFile} : ScratchLeft(p, now)
             /\ UNCHANGED dir
    BY <2>5, <1>1 DEF IsHostPathOpen, HasShadow
  <2> QED
    BY <1>3, <2>1, <2>2, <2>3, <2>4, <2>5 DEF NANDOpen
<1>4. ASSUME UNCHANGED << dir, handle >>,
             \/ UNCHANGED scratch
             \/ \E p \in Path :
                  /\ \/ ScratchRemoved(p)
                     \/ dir[p] # NoInode /\ ScratchLeft(p, cache[dir[p]])
                  /\ \A g \in Handle : HasShadow(g) => handle[g].path # p
      PROVE  NamesApart' /\ ShadowsAreAlone'
  <2>1. NamesApart'
    BY <1>4, RemovedApart, LeftApart DEF NamesApart
  <2>2. \A g \in Handle : HasShadow(g)' => HasShadow(g) /\ scratch'[handle[g].path] = scratch[handle[g].path]
    BY <1>4, RemovedType, LeftApart, HandleType DEF HasShadow, IsOpen
  <2> QED
    BY <1>4, <2>1, <2>2, StillAlone DEF ShadowsAreAlone
<1>5. ASSUME NEW h \in Handle, NEW p \in Path, NANDSafeOpen(h, p)
      PROVE  NamesApart' /\ ShadowsAreAlone'
  <2>1. CASE OpenForReading(h, p, "safe_open")
    BY <2>1, <1>1 DEF OpenForReading, names
  <2>2. CASE OpenShadow(h, p, "safe_open") /\ \A g \in Handle : HasShadow(g) => handle[g].path # p
    BY <2>2, OpenedShadow
  <2>3. CASE /\ \A g \in Handle : HasShadow(g) => handle[g].path # p
             /\ ScratchRemoved(p) \/ (dir[p] # NoInode /\ ScratchLeft(p, cache[dir[p]]))
             /\ UNCHANGED << dir, handles >>
    BY <2>3, <1>4 DEF handles
  <2> QED
    BY <1>5, <2>1, <2>2, <2>3 DEF NANDSafeOpen
<1>6. ASSUME NEW h \in Handle, NEW p \in Path, IOS_Open(h, p)
      PROVE  NamesApart' /\ ShadowsAreAlone'
  BY <1>6, <1>1 DEF IOS_Open, OpenForReading, OpenInPlace, names
<1>7. ASSUME NEW h \in Handle, NANDClose(h) \/ NANDSafeClose(h) \/ IOS_Close(h)
      PROVE  NamesApart' /\ ShadowsAreAlone'
  <2>1. CASE \E result \in {"ok", "error"} : IsOpen(h) /\ CommitAndCloseFd(h, result)
    <3>1. PICK result \in {"ok", "error"} : IsOpen(h) /\ CommitAndCloseFd(h, result)
      BY <2>1
    <3>2. CASE HasShadow(h) /\ Publish(h)
      BY <3>1, <3>2, PublishedApart DEF CommitAndCloseFd
    <3>3. CASE HasShadow(h) /\ ScratchRemoved(handle[h].path) /\ dir' = dir
      BY <3>1, <3>3, ClosedApart DEF CommitAndCloseFd
    <3>4. CASE UNCHANGED names
      <4>1. /\ handle' = [handle EXCEPT ![h] = Absent] /\ IsOpen(h)
            /\ dir' = dir /\ scratch' = scratch
        BY <3>1, <3>4 DEF CommitAndCloseFd, names
      <4> QED
        BY <4>1, ClosedApart
    <3> QED
      BY <3>1, <3>2, <3>3, <3>4 DEF CommitAndCloseFd, HasShadow, names
  <2>2. CASE UNCHANGED names /\ handle' = handle
    BY <2>2, <1>4 DEF names
  <2>3. CASE UNCHANGED names /\ handle' = [handle EXCEPT ![h] = Absent]
    <3>1. CASE IsOpen(h)
      <4>1. dir' = dir /\ scratch' = scratch
        BY <2>3 DEF names
      <4> QED
        BY <2>3, <3>1, <4>1, ClosedApart
    <3>2. CASE ~ IsOpen(h)
      <4>1. handle' = handle
        BY <2>3, <3>2 DEF IsOpen, TypeOK
      <4> QED
        BY <2>3, <4>1, <1>4 DEF names
    <3> QED
      BY <3>1, <3>2
  <2> QED
    BY <1>7, <2>1, <2>2, <2>3 DEF NANDClose, NANDSafeClose, IOS_Close
<1>8. ASSUME NEW p \in Path, NANDCreate(p)
      PROVE  NamesApart' /\ ShadowsAreAlone'
  <2>1. PICK i \in FreeInode : NewFile(p, i)
    BY <1>8 DEF NANDCreate
  <2>2. NamesApart' /\ dir'[p] = i /\ scratch' = scratch /\ handle' = handle
        /\ \A q \in Path \ {p} : dir'[q] = dir[q]
    BY <1>8, <2>1, <1>2 DEF NewFile, NANDCreate, handles
  <2>3. \A g \in Handle, q \in Path : HasShadow(g)' => dir'[q] # handle[g].inode
    BY <2>2, FreeIsUnused DEF ShadowsAreAlone, HasShadow, IsOpen
  <2> QED
    BY <2>2, <2>3, StillAlone
<1>9. ASSUME NEW p \in Path, ISFS_CreateFile(p)
      PROVE  NamesApart' /\ ShadowsAreAlone'
  BY <1>9, <1>8, <1>4 DEF ISFS_CreateFile, names, handles
<1>10. ASSUME scratch' = scratch, handle' = handle,
              \A q \in Path : dir'[q] = NoInode \/ \E p \in Path : dir'[q] = dir[p],
              \A p, q \in Path : dir'[p] # NoInode /\ dir'[p] = dir'[q] => p = q
       PROVE  NamesApart' /\ ShadowsAreAlone'
  <2>1. NamesApart'
    BY <1>10 DEF NamesApart
  <2>2. \A g \in Handle, q \in Path : HasShadow(g)' => dir'[q] # handle[g].inode
    BY <1>10, HandleType, Nothing DEF ShadowsAreAlone, HasShadow, IsOpen
  <2> QED
    BY <1>10, <2>1, <2>2, StillAlone
<1>11. ASSUME NEW p \in Path, NANDDelete(p)
       PROVE  NamesApart' /\ ShadowsAreAlone'
  BY <1>11, <1>10 DEF NANDDelete, handles, TypeOK, NamesApart
<1>12. ASSUME NEW p \in Path, NEW q \in Path, NANDMove(p, q) \/ ISFS_Rename(p, q)
       PROVE  NamesApart' /\ ShadowsAreAlone'
  BY <1>12, <1>10 DEF NANDMove, ISFS_Rename, Rename, handles, TypeOK, NamesApart
<1>13. CASE Crash
  <2>1. \A h \in Handle : ~ HasShadow(h)'
    BY <1>13 DEF Crash, HasShadow, IsOpen
  <2> QED
    BY <1>13, <2>1 DEF Crash, NamesApart, ShadowsAreAlone, names
<1>14. CASE Writeback \/ (\E h \in Handle : NANDWrite(h)) \/ UNCHANGED vars
  BY <1>14, <1>4 DEF Writeback, NANDWrite, vars, names, handles
<1> QED
  BY <1>3, <1>5, <1>6, <1>7, <1>8, <1>9, <1>11, <1>12, <1>13, <1>14 DEF Next

\* A descriptor gets its flag when it is allocated, and keeps it while it is open.
LEMMA IosStep ==
  ASSUME IInv, [Next]_vars
  PROVE  IosInPlace'
<1> USE DEF IInv
<1>1. ASSUME NEW h \in Handle, NEW p \in Path, NEW i \in Inode,
             NEW use \in {"read", "direct", "shadow"}, NEW opened \in {"open", "safe_open", "ios"},
             use = "shadow" => opened # "ios", AllocateFd(h, use, p, i, opened)
      PROVE  IosInPlace'
  <2>1. /\ handle'[h] = [use |-> use, path |-> p, inode |-> i] /\ flag'[h] = opened
        /\ \A g \in Handle \ {h} : handle'[g] = handle[g] /\ flag'[g] = flag[g]
    BY <1>1 DEF AllocateFd, TypeOK
  <2>2. HasShadow(h)' => flag'[h] # "ios"
    BY <1>1, <2>1 DEF HasShadow
  <2>3. \A g \in Handle \ {h} : HasShadow(g)' => flag'[g] # "ios"
    BY <2>1 DEF HasShadow, IsOpen, IosInPlace
  <2> QED
    BY <2>2, <2>3 DEF IosInPlace
<1>2. ASSUME \A h \in Handle : handle'[h] = Absent \/ (handle'[h] = handle[h] /\ flag'[h] = flag[h])
      PROVE  IosInPlace'
  BY <1>2 DEF IosInPlace, HasShadow, IsOpen
<1>3. ASSUME UNCHANGED handles
      PROVE  IosInPlace'
  BY <1>3, <1>2 DEF handles
<1>4. ASSUME NEW h \in Handle, NEW p \in Path,
             NANDOpen(h, p) \/ NANDSafeOpen(h, p) \/ IOS_Open(h, p)
      PROVE  IosInPlace'
  <2>1. dir[p] # NoInode => dir[p] \in Inode
    BY DEF TypeOK
  <2>2. \/ \E use \in {"read", "direct"}, opened \in {"open", "safe_open", "ios"} :
             dir[p] # NoInode /\ AllocateFd(h, use, p, dir[p], opened)
        \/ \E i \in FreeInode, use \in {"direct", "shadow"}, opened \in {"open", "safe_open"} :
             AllocateFd(h, use, p, i, opened)
        \/ UNCHANGED handles
    BY <1>4 DEF NANDOpen, NANDSafeOpen, IOS_Open, OpenForReading, OpenInPlace, OpenShadow
  <2>3. CASE \E use \in {"read", "direct"}, opened \in {"open", "safe_open", "ios"} :
               dir[p] # NoInode /\ AllocateFd(h, use, p, dir[p], opened)
    BY <2>1, <2>3, <1>1
  <2>4. CASE \E i \in FreeInode, use \in {"direct", "shadow"}, opened \in {"open", "safe_open"} :
               AllocateFd(h, use, p, i, opened)
    BY <2>4, <1>1, FreeIsUnused
  <2> QED
    BY <2>2, <2>3, <2>4, <1>3
<1>5. ASSUME NEW h \in Handle, NANDClose(h) \/ NANDSafeClose(h) \/ IOS_Close(h)
      PROVE  IosInPlace'
  <2>1. \/ handle' = [handle EXCEPT ![h] = Absent]
        \/ handle' = handle /\ ~ IsOpen(h)
    BY <1>5 DEF NANDClose, NANDSafeClose, IOS_Close, CommitAndCloseFd
  <2>2. handle'[h] = Absent /\ \A g \in Handle \ {h} : handle'[g] = handle[g]
    BY <2>1 DEF TypeOK, IsOpen
  <2>3. \A g \in Handle \ {h} : flag'[g] = flag[g]
    BY <1>5 DEF NANDClose, NANDSafeClose, IOS_Close, Answered, TypeOK
  <2> QED
    BY <2>2, <2>3, <1>2
<1>6. CASE Crash
  BY <1>6, <1>2 DEF Crash
<1>7. CASE \/ \E h \in Handle : NANDWrite(h)
           \/ \E p \in Path : NANDCreate(p) \/ ISFS_CreateFile(p) \/ NANDDelete(p)
           \/ \E p, q \in Path : NANDMove(p, q) \/ ISFS_Rename(p, q)
           \/ Writeback \/ UNCHANGED vars
  BY <1>7, <1>3 DEF NANDWrite, NANDCreate, ISFS_CreateFile, NANDDelete, NANDMove, ISFS_Rename,
                    Rename, Writeback, vars
<1> QED
  BY <1>4, <1>5, <1>6, <1>7 DEF Next

-----------------------------------------------------------------------------
(* Every step is a step of SaveFiles.                                      *)

abstract == << File, Exposed, Draft, Direct, answer >>

\* A file that exists has contents, and no contents are Absent.
LEMMA FileExists ==
  ASSUME TypeOK, NEW p \in Path
  PROVE  /\ dir[p] # NoInode => File[p] = cache[dir[p]] /\ File[p] # Absent /\ dir[p] \in Inode
         /\ dir[p] = NoInode => File[p] = Absent
BY NandConstants DEF TypeOK, File

\* A descriptor that is not a shadow has no draft; one that is has one.
LEMMA DraftExists ==
  ASSUME TypeOK, NEW h \in Handle
  PROVE  /\ ~ HasShadow(h) => Draft[h] = Absent
         /\ HasShadow(h) => /\ Draft[h] = [path |-> handle[h].path,
                                           content |-> cache[handle[h].inode]]
                            /\ Draft[h] # Absent
<1>1. CASE HasShadow(h)
  <2>1. handle[h].path \in Path /\ cache[handle[h].inode] \in Content
    BY <1>1, HandleType DEF HasShadow, TypeOK
  <2> QED
    BY <1>1, <2>1, NandConstants DEF Draft
<1> QED
  BY <1>1 DEF Draft

\* Drafts stay when neither the shadows nor what they contain changes.
LEMMA DraftsKept ==
  ASSUME \A h \in Handle : \/ handle'[h] = handle[h]
                           \/ ~ HasShadow(h) /\ ~ HasShadow(h)',
         \A h \in Handle : HasShadow(h) => cache'[handle[h].inode] = cache[handle[h].inode]
  PROVE  Draft' = Draft
<1>1. \A h \in Handle : HasShadow(h)' <=> HasShadow(h)
  BY DEF HasShadow, IsOpen
<1>2. \A h \in Handle : HasShadow(h) => handle'[h] = handle[h]
  OBVIOUS
<1> QED
  BY <1>1, <1>2 DEF Draft

\* The drafts after one handle has changed, and no shadow is written to.
LEMMA DraftChanged ==
  ASSUME NEW h \in Handle, NEW d,
         \A g \in Handle \ {h} : handle'[g] = handle[g],
         \A g \in Handle \ {h} : HasShadow(g) => cache'[handle[g].inode] = cache[handle[g].inode],
         Draft'[h] = d
  PROVE  Draft' = [Draft EXCEPT ![h] = d]
<1>1. \A g \in Handle \ {h} : HasShadow(g)' <=> HasShadow(g)
  BY DEF HasShadow, IsOpen
<1>2. \A g \in Handle \ {h} : Draft'[g] = Draft[g]
  BY <1>1 DEF Draft
<1>3. Draft = [g \in Handle |-> Draft[g]] /\ Draft' = [g \in Handle |-> Draft'[g]]
  BY DEF Draft
<1> QED
  BY <1>2, <1>3

\* The direct handles after one handle has changed.
LEMMA DirectChanged ==
  ASSUME NEW h \in Handle, NEW d,
         \A g \in Handle \ {h} : handle'[g] = handle[g],
         \A g \in Handle \ {h} : Direct'[g] = Direct[g],
         Direct'[h] = d
  PROVE  Direct' = [Direct EXCEPT ![h] = d]
<1>1. Direct = [g \in Handle |-> Direct[g]] /\ Direct' = [g \in Handle |-> Direct'[g]]
  BY DEF Direct
<1> QED
  BY <1>1

\* With the same names, the direct handles are those of the same descriptors.
LEMMA DirectKept ==
  ASSUME dir' = dir
  PROVE  \A g \in Handle : handle'[g] = handle[g] => Direct'[g] = Direct[g]
BY DEF Direct, IsOpen

\* Files and exposure stay with the names and what they refer to.
LEMMA FilesKept ==
  ASSUME dir' = dir,
         \A p \in Path : dir[p] # NoInode => /\ cache'[dir[p]] = cache[dir[p]]
                                             /\ disk'[dir[p]] = disk[dir[p]]
  PROVE  File' = File /\ Exposed' = Exposed
BY DEF File, Exposed

\* A handle that is opened to read.
LEMMA ReadingIsRelease ==
  ASSUME IInv, NEW h \in Handle, NEW p \in Path, NEW opened \in {"open", "safe_open", "ios"},
         OpenForReading(h, p, opened)
  PROVE  Saved!Release(h)
<1>1. dir' = dir /\ cache' = cache /\ disk' = disk /\ ~ IsOpen(h) /\ ~ HasShadow(h)
  BY DEF OpenForReading, names, contents, HasShadow
<1>2. handle'[h] = [use |-> "read", path |-> p, inode |-> dir[p]] /\ \A g \in Handle \ {h} : handle'[g] = handle[g]
  BY DEF OpenForReading, AllocateFd, IInv, TypeOK
<1>3. ~ HasShadow(h)' /\ Direct'[h] = {}
  BY <1>2 DEF HasShadow, Direct
<1>4. File' = File /\ Exposed' = Exposed /\ Draft' = Draft
  BY <1>1, <1>2, <1>3, FilesKept, DraftsKept
<1>5. Direct' = [Direct EXCEPT ![h] = {}]
  BY <1>1, <1>2, <1>3, DirectKept, DirectChanged
<1>6. Draft[h] = Absent
  BY <1>1, DraftExists DEF IInv
<1>7. answer' = [answer EXCEPT ![h] = "none"]
  BY DEF OpenForReading, AllocateFd
<1> QED
  BY <1>4, <1>5, <1>6, <1>7 DEF Saved!Release

\* A file that becomes empty, under its name and in the cache.
LEMMA EmptiedFile ==
  ASSUME IInv, NEW p \in Path, NEW i \in Inode, dir'[p] = i,
         \A q \in Path \ {p} : dir'[q] = dir[q] /\ dir'[q] # i,
         DOMAIN dir' = Path,
         cache'[i] = BlankFile,
         \A q \in Path \ {p} : dir[q] # NoInode => /\ cache'[dir[q]] = cache[dir[q]]
                                                   /\ disk'[dir[q]] = disk[dir[q]],
         dir[p] = NoInode => disk'[i] = BlankFile
  PROVE  Saved!Emptied(p)
<1>1. \A q \in Path \ {p} : dir'[q] = dir[q]
  OBVIOUS
<1>2. File'[p] = BlankFile
  BY <1>1, Nothing DEF File
<1>3. \A q \in Path \ {p} : File'[q] = File[q]
  BY <1>1 DEF File, IInv, TypeOK
<1>4. File = [q \in Path |-> File[q]] /\ File' = [q \in Path |-> File'[q]]
  BY DEF File
<1>5. File' = [File EXCEPT ![p] = BlankFile]
  BY <1>2, <1>3, <1>4
<1>6. \A q \in Path \ {p} : q \in Exposed' <=> q \in Exposed
  BY <1>1 DEF Exposed, IInv, TypeOK
<1>7. Exposed' \subseteq Path /\ Exposed \subseteq Path
  BY DEF Exposed
<1>8. p \in Exposed' => File[p] # Absent
  BY <1>1, FileExists DEF Exposed, IInv
<1>9. \/ Exposed' = Exposed \ {p}
      \/ File[p] # Absent /\ Exposed' = Exposed \cup {p}
  BY <1>6, <1>7, <1>8
<1> QED
  BY <1>5, <1>9 DEF Saved!Emptied, BlankFile

\* The draft and the descriptors of the others are not touched by a new descriptor
\* for the file itself.
LEMMA DirectOpened ==
  ASSUME IInv, NEW h \in Handle, NEW p \in Path, NEW i \in Inode,
         NEW opened \in {"open", "safe_open", "ios"},
         ~ IsOpen(h), AllocateFd(h, "direct", p, i, opened),
         dir'[p] = i, \A q \in Path \ {p} : dir'[q] # i,
         \A q \in Path \ {p} : dir'[q] = dir[q],
         dir[p] # NoInode => dir[p] = i,
         dir[p] = NoInode => i \in FreeInode,
         \A g \in Handle : HasShadow(g) /\ handle[g].inode # i
                          => cache'[handle[g].inode] = cache[handle[g].inode]
  PROVE  /\ Draft[h] = Absent /\ Draft' = Draft
         /\ Direct' = [Direct EXCEPT ![h] = {p}]
         /\ answer' = [answer EXCEPT ![h] = "none"]
<1>1. handle'[h] = [use |-> "direct", path |-> p, inode |-> i] /\ \A g \in Handle \ {h} : handle'[g] = handle[g]
  BY DEF AllocateFd, IInv, TypeOK
<1>2. ~ HasShadow(h) /\ ~ HasShadow(h)' /\ IsOpen(h)'
  BY <1>1, Nothing DEF HasShadow, IsOpen, OpenFile
<1>3. \A g \in Handle : HasShadow(g) => handle[g].inode # i /\ handle[g].inode \in Inode
  BY FreeIsUnused, HandleType DEF IInv, ShadowsAreAlone, HasShadow
<1>4. Draft' = Draft
  BY <1>1, <1>2, <1>3, DraftsKept
<1>5. Direct'[h] = {p}
  BY <1>1, <1>2 DEF Direct
<1>6. \A g \in Handle \ {h} : IsOpen(g) => handle[g].inode # i \/ dir[p] = i
  BY FreeIsUnused
<1>7. \A g \in Handle \ {h} : Direct'[g] = Direct[g]
  <2>1. ASSUME NEW g \in Handle \ {h}, IsOpen(g), NEW q \in Path
        PROVE  dir'[q] = handle[g].inode <=> dir[q] = handle[g].inode
    BY <1>6, <2>1, HandleType, Nothing DEF IInv
  <2>2. \A g \in Handle \ {h} : IsOpen(g)' <=> IsOpen(g)
    BY <1>1 DEF IsOpen
  <2> QED
    BY <1>1, <2>1, <2>2 DEF Direct
<1>8. Direct' = [Direct EXCEPT ![h] = {p}]
  BY <1>1, <1>5, <1>7, DirectChanged
<1>9. Draft[h] = Absent
  BY <1>2, DraftExists DEF IInv
<1> QED
  BY <1>4, <1>8, <1>9 DEF AllocateFd

\* A handle that is opened to write to the file itself.
LEMMA InPlaceIsOpenDirect ==
  ASSUME IInv, NEW h \in Handle, NEW p \in Path, NEW opened \in {"open", "safe_open", "ios"},
         OpenInPlace(h, p, opened),
         cache' \in {cache, [cache EXCEPT ![dir[p]] = BlankFile]}
  PROVE  Saved!OpenDirect(h, p)
<1>1. /\ dir' = dir /\ disk' = disk /\ ~ IsOpen(h) /\ dir[p] \in Inode
      /\ AllocateFd(h, "direct", p, dir[p], opened)
      /\ \A q \in Path \ {p} : dir[q] # dir[p]
  BY DEF OpenInPlace, IInv, TypeOK, NamesApart
<1>2. \A j \in Inode \ {dir[p]} : cache'[j] = cache[j]
  BY DEF IInv, TypeOK
<1>3. \A g \in Handle : HasShadow(g) => handle[g].inode \in Inode
  BY HandleType DEF IInv, HasShadow
<1>4. /\ Draft[h] = Absent /\ Draft' = Draft
      /\ Direct' = [Direct EXCEPT ![h] = {p}]
      /\ answer' = [answer EXCEPT ![h] = "none"]
  BY <1>1, <1>2, <1>3, DirectOpened, Nothing
<1>5. CASE cache' = cache
  <2>1. File' = File /\ Exposed' = Exposed /\ File[p] # Absent
    BY <1>1, <1>5, FilesKept, FileExists, Nothing DEF IInv
  <2> QED
    BY <1>4, <2>1 DEF Saved!OpenDirect
<1>6. CASE cache' = [cache EXCEPT ![dir[p]] = BlankFile]
  <2>1. /\ DOMAIN dir' = Path /\ cache'[dir[p]] = BlankFile
        /\ \A q \in Path \ {p} : dir[q] # NoInode => cache'[dir[q]] = cache[dir[q]]
    BY <1>1, <1>2, <1>6 DEF IInv, TypeOK
  <2>2. Saved!Emptied(p)
    BY <1>1, <2>1, EmptiedFile, Nothing
  <2> QED
    BY <1>4, <2>2 DEF Saved!OpenDirect
<1> QED
  BY <1>5, <1>6

\* An empty file is a new file.
LEMMA NewFileIsEmptied ==
  ASSUME IInv, NEW p \in Path, NEW i \in FreeInode, NewFile(p, i)
  PROVE  /\ Saved!Emptied(p)
         /\ i \in Inode /\ dir'[p] = i /\ \A q \in Path \ {p} : dir'[q] = dir[q] /\ dir'[q] # i
         /\ \A j \in Inode \ {i} : cache'[j] = cache[j]
<1>1. i \in Inode /\ \A q \in Path : dir[q] # i
  BY FreeIsUnused
<1>2. /\ dir'[p] = i /\ \A q \in Path \ {p} : dir'[q] = dir[q] /\ dir'[q] # i
      /\ DOMAIN dir' = Path /\ dir[p] = NoInode
  BY <1>1 DEF NewFile, IInv, TypeOK
<1>3. /\ cache' = [cache EXCEPT ![i] = BlankFile]
      /\ disk'[i] = BlankFile /\ \A j \in Inode \ {i} : disk'[j] = disk[j] /\ cache'[j] = cache[j]
  BY <1>1 DEF NewFile, IInv, TypeOK
<1>4. /\ cache'[i] = BlankFile
      /\ \A q \in Path : dir[q] # NoInode => cache'[dir[q]] = cache[dir[q]] /\ disk'[dir[q]] = disk[dir[q]]
  BY <1>1, <1>3 DEF IInv, TypeOK
<1>5. Saved!Emptied(p)
  BY <1>1, <1>2, <1>3, <1>4, EmptiedFile
<1> QED
  BY <1>1, <1>2, <1>3, <1>5

\* A handle for the file itself, while a scratch file is left.
LEMMA LeftIsOpenDirect ==
  ASSUME IInv, NEW h \in Handle, NEW p \in Path, ~ IsOpen(h), dir[p] # NoInode,
         AllocateFd(h, "direct", p, dir[p], "open"),
         NEW now \in {cache[dir[p]], BlankFile}, ScratchLeft(p, now), dir' = dir
  PROVE  Saved!OpenDirect(h, p)
<1>1. dir[p] \in Inode /\ \A q \in Path \ {p} : dir[q] # dir[p]
  BY DEF IInv, TypeOK, NamesApart
<1>2. PICK i \in FreeInode :
        /\ cache'[dir[p]] = now
        /\ \A j \in Inode \ {i, dir[p]} : cache'[j] = cache[j]
        /\ \A j \in Inode \ {i} : disk'[j] = disk[j]
  BY LeftFacts DEF IInv
<1>3. /\ \A q \in Path : dir[q] # i
      /\ \A g \in Handle : HasShadow(g) => handle[g].inode # i /\ handle[g].inode \in Inode
  BY FreeIsUnused, HandleType DEF HasShadow, IInv
<1>4. /\ Draft[h] = Absent /\ Draft' = Draft
      /\ Direct' = [Direct EXCEPT ![h] = {p}]
      /\ answer' = [answer EXCEPT ![h] = "none"]
  BY <1>1, <1>2, <1>3, DirectOpened, Nothing
<1>5. \A q \in Path \ {p} : dir[q] # NoInode => cache'[dir[q]] = cache[dir[q]] /\ disk'[dir[q]] = disk[dir[q]]
  BY <1>1, <1>2, <1>3 DEF IInv, TypeOK
<1>6. CASE now = cache[dir[p]]
  <2>1. disk'[dir[p]] = disk[dir[p]]
    BY <1>1, <1>2, <1>3
  <2>2. File' = File /\ Exposed' = Exposed /\ File[p] # Absent
    BY <1>2, <1>5, <1>6, <2>1, FilesKept, FileExists DEF IInv
  <2> QED
    BY <1>4, <2>2 DEF Saved!OpenDirect
<1>7. CASE now = BlankFile
  <2>1. DOMAIN dir' = Path
    BY DEF IInv, TypeOK
  <2>2. Saved!Emptied(p)
    BY <1>1, <1>2, <1>5, <1>7, <2>1, EmptiedFile
  <2> QED
    BY <1>4, <2>2 DEF Saved!OpenDirect
<1> QED
  BY <1>6, <1>7

\* An opening that fails and leaves a scratch file changes no file and no draft.
LEMMA LeftIsStutter ==
  ASSUME IInv, NEW p \in Path, dir[p] # NoInode, ScratchLeft(p, cache[dir[p]]),
         UNCHANGED << dir, handles >>
  PROVE  UNCHANGED abstract
<1>1. PICK i \in FreeInode :
        /\ cache'[dir[p]] = cache[dir[p]]
        /\ \A j \in Inode \ {i, dir[p]} : cache'[j] = cache[j]
        /\ \A j \in Inode \ {i} : disk'[j] = disk[j]
  BY LeftFacts DEF IInv
<1>2. dir' = dir /\ handle' = handle /\ answer' = answer
  BY DEF handles
<1>3. /\ \A q \in Path : dir[q] # i /\ dir[q] \in Inode \cup {NoInode}
      /\ \A g \in Handle : HasShadow(g) => handle[g].inode # i /\ handle[g].inode \in Inode
  BY FreeIsUnused, HandleType DEF HasShadow, IInv, TypeOK
<1>4. File' = File /\ Exposed' = Exposed
  BY <1>1, <1>2, <1>3, FilesKept
<1>5. Draft' = Draft
  BY <1>1, <1>2, <1>3, DraftsKept
<1>6. Direct' = Direct
  BY <1>2 DEF Direct, IsOpen
<1> QED
  BY <1>2, <1>4, <1>5, <1>6 DEF abstract

\* A shadow that is opened.
LEMMA ShadowIsBegin ==
  ASSUME IInv, NEW h \in Handle, NEW p \in Path, NEW opened \in {"open", "safe_open"},
         OpenShadow(h, p, opened)
  PROVE  Saved!Begin(h, p)
<1>1. PICK i \in FreeInode :
        /\ AllocateFd(h, "shadow", p, i, opened)
        /\ cache' = [cache EXCEPT ![i] = cache[dir[p]]]
        /\ disk' = [disk EXCEPT ![i] = BlankFile]
  BY DEF OpenShadow
<1>2. dir' = dir /\ ~ IsOpen(h) /\ dir[p] \in Inode /\ dir[p] # NoInode
  BY DEF OpenShadow, IInv, TypeOK
<1>3. /\ i \in Inode
      /\ \A q \in Path : dir[q] # i
      /\ \A g \in Handle : IsOpen(g) => handle[g].inode # i
  BY FreeIsUnused
<1>4. /\ cache'[i] = cache[dir[p]]
      /\ \A j \in Inode \ {i} : cache'[j] = cache[j] /\ disk'[j] = disk[j]
  BY <1>1, <1>3 DEF IInv, TypeOK
<1>5. File' = File /\ Exposed' = Exposed
  BY <1>2, <1>3, <1>4, FilesKept DEF IInv, TypeOK
<1>6. handle'[h] = [use |-> "shadow", path |-> p, inode |-> i] /\ \A g \in Handle \ {h} : handle'[g] = handle[g]
  BY <1>1 DEF AllocateFd, IInv, TypeOK
<1>7. IsOpen(h)' /\ HasShadow(h)' /\ ~ HasShadow(h)
  BY <1>2, <1>3, <1>6, Nothing DEF HasShadow, IsOpen, OpenFile
<1>8. Draft'[h] = [path |-> p, content |-> cache[dir[p]]]
  BY <1>4, <1>6, <1>7 DEF Draft
<1>9. \A g \in Handle \ {h} : HasShadow(g) => cache'[handle[g].inode] = cache[handle[g].inode]
  BY <1>3, <1>4, HandleType DEF HasShadow, IInv
<1>10. Draft' = [Draft EXCEPT ![h] = [path |-> p, content |-> File[p]]]
  BY <1>2, <1>6, <1>8, <1>9, DraftChanged, FileExists DEF IInv
<1>11. Direct'[h] = {} /\ Direct[h] = {}
  BY <1>2, <1>6 DEF Direct
<1>12. \A g \in Handle : Direct'[g] = Direct[g]
  BY <1>2, <1>6, <1>11, DirectKept
<1>13. Direct' = Direct
  BY <1>12 DEF Direct
<1>14. Draft[h] = Absent /\ File[p] # Absent
  BY <1>2, <1>7, DraftExists, FileExists DEF IInv
<1>15. answer' = [answer EXCEPT ![h] = "none"]
  BY <1>1 DEF AllocateFd
<1> QED
  BY <1>5, <1>10, <1>13, <1>14, <1>15 DEF Saved!Begin

\* A block that is written is one of a draft, of a file, or of no file any more.
LEMMA WriteIsEdit ==
  ASSUME IInv, NEW h \in Handle, NANDWrite(h)
  PROVE  Saved!Edit(h) \/ Saved!Patch(h) \/ UNCHANGED abstract
<1> DEFINE i == handle[h].inode
<1>1. PICK b \in Block, v \in Value : cache' = [cache EXCEPT ![i][b] = v]
  BY DEF NANDWrite
<1>2. /\ dir' = dir /\ disk' = disk /\ handle' = handle /\ answer' = answer
      /\ IsOpen(h) /\ handle[h].use \in {"direct", "shadow"} /\ i \in Inode
  BY HandleType DEF NANDWrite, names, handles, IInv
<1>3. cache[i] \in [Block -> Value]
  BY <1>2 DEF IInv, TypeOK, Content
<1>4. cache'[i] = [cache[i] EXCEPT ![b] = v] /\ \A j \in Inode \ {i} : cache'[j] = cache[j]
  BY <1>1, <1>2 DEF IInv, TypeOK
<1> HIDE DEF i
<1>5. cache'[i] \in Saved!Patched(cache[i])
  BY <1>4 DEF Saved!Patched
<1>6. Direct' = Direct
  BY <1>2 DEF Direct, IsOpen
<1>7. CASE HasShadow(h)
  <2>1. \A q \in Path : dir[q] # i
    BY <1>7 DEF IInv, ShadowsAreAlone, i
  <2>2. File' = File /\ Exposed' = Exposed
    BY <1>2, <1>4, <2>1, FilesKept DEF IInv, TypeOK
  <2>3. \A g \in Handle \ {h} : HasShadow(g) => handle[g].inode # i /\ handle[g].inode \in Inode
    BY <1>2, <1>7, HandleType DEF IInv, ShadowsAreAlone, HasShadow, i
  <2>4. HasShadow(h)' /\ handle'[h] = handle[h]
    BY <1>2, <1>7 DEF HasShadow, IsOpen
  <2>5. Draft'[h] = [path |-> handle[h].path, content |-> cache'[i]]
    BY <2>4 DEF Draft, i
  <2>6. Draft' = [Draft EXCEPT ![h] = [path |-> handle[h].path, content |-> cache'[i]]]
    BY <1>2, <1>4, <2>3, <2>5, DraftChanged
  <2>7. Draft[h] = [path |-> handle[h].path, content |-> cache[i]] /\ Draft[h] # Absent
    BY <1>7, DraftExists DEF IInv, i
  <2>8. Draft' = [Draft EXCEPT ![h].content = cache'[i]]
    <3>1. [Draft[h] EXCEPT !.content = cache'[i]] = [path |-> handle[h].path, content |-> cache'[i]]
      BY <2>7
    <3>2. [Draft EXCEPT ![h].content = cache'[i]] = [Draft EXCEPT ![h] = [Draft[h] EXCEPT !.content = cache'[i]]]
      BY Zenon
    <3> QED
      BY <2>6, <3>1, <3>2
  <2>9. cache'[i] \in Saved!Patched(Draft[h].content)
    BY <1>5, <2>7
  <2> QED
    BY <1>2, <1>6, <2>2, <2>7, <2>8, <2>9 DEF Saved!Edit
<1>8. CASE ~ HasShadow(h)
  <2>1. \A g \in Handle : HasShadow(g) => handle[g].inode # i /\ handle[g].inode \in Inode
    BY <1>2, <1>8, HandleType DEF IInv, ShadowsAreAlone, HasShadow, i
  <2>2. Draft' = Draft
    BY <1>2, <1>4, <2>1, DraftsKept
  <2>3. CASE \E p \in Path : dir[p] = i
    <3>1. PICK p \in Path : dir[p] = i
      BY <2>3
    <3>2. p \in Direct[h]
      BY <1>2, <1>8, <3>1 DEF Direct, HasShadow, i
    <3>3. \A q \in Path \ {p} : dir[q] # i
      BY <1>2, <3>1, Nothing DEF IInv, NamesApart
    <3>4. File'[p] = cache'[i] /\ File[p] = cache[i] /\ \A q \in Path \ {p} : File'[q] = File[q]
      BY <1>2, <1>4, <3>1, <3>3, Nothing DEF File, IInv, TypeOK
    <3>5. File = [q \in Path |-> File[q]] /\ File' = [q \in Path |-> File'[q]]
      BY DEF File
    <3>6. File' = [File EXCEPT ![p] = cache'[i]]
      BY <3>4, <3>5
    <3>7. \A q \in Path \ {p} : q \in Exposed' <=> q \in Exposed
      BY <1>2, <1>4, <3>3 DEF Exposed, IInv, TypeOK
    <3>8. Exposed' \subseteq Path /\ Exposed \subseteq Path
      BY DEF Exposed
    <3>9. Exposed' \in {Exposed \cup {p}, Exposed \ {p}}
      BY <3>7, <3>8
    <3>10. cache'[i] \in Saved!Patched(File[p])
      BY <1>5, <3>4
    <3> QED
      BY <1>2, <1>6, <2>2, <3>2, <3>6, <3>9, <3>10 DEF Saved!Patch
  <2>4. CASE \A p \in Path : dir[p] # i
    <3>1. File' = File /\ Exposed' = Exposed
      BY <1>2, <1>4, <2>4, FilesKept DEF IInv, TypeOK
    <3> QED
      BY <1>2, <1>6, <2>2, <3>1 DEF abstract
  <2> QED
    BY <2>3, <2>4
<1> QED
  BY <1>7, <1>8

\* Closing a shadow, with its file renamed.
LEMMA PublishIsPublish ==
  ASSUME IInv, NEW h \in Handle, HasShadow(h), Publish(h),
         handle' = [handle EXCEPT ![h] = Absent],
         answer' = [answer EXCEPT ![h] = "ok"]
  PROVE  Saved!Publish(h)
<1> DEFINE p == handle[h].path
           i == handle[h].inode
<1>1. /\ p \in Path /\ scratch[p] = i /\ i \in Inode
      /\ \A q \in Path : dir[q] # i
      /\ \A g \in Handle \ {h} : IsOpen(g) => handle[g].inode # i
  BY HandleType DEF IInv, HasShadow, ShadowsAreAlone
<1>2. /\ dir' = [dir EXCEPT ![p] = i]
      /\ disk' = [disk EXCEPT ![i] = cache[i]]
      /\ cache' = cache
  BY <1>1 DEF Publish
<1>3. Draft[h] = [path |-> p, content |-> cache[i]] /\ Draft[h] # Absent
  BY DraftExists DEF IInv
<1> HIDE DEF p, i
<1>4. /\ dir'[p] = i /\ \A q \in Path \ {p} : dir'[q] = dir[q] /\ dir'[q] # i
      /\ disk'[i] = cache[i] /\ \A j \in Inode \ {i} : disk'[j] = disk[j]
  BY <1>1, <1>2 DEF IInv, TypeOK
<1>5. handle'[h] = Absent /\ \A g \in Handle \ {h} : handle'[g] = handle[g]
  BY DEF IInv, TypeOK
<1>6. File'[p] = cache[i] /\ \A q \in Path \ {p} : File'[q] = File[q]
  BY <1>1, <1>2, <1>4, Nothing DEF File
<1>7. File = [q \in Path |-> File[q]] /\ File' = [q \in Path |-> File'[q]]
  BY DEF File
<1>8. File' = [File EXCEPT ![p] = cache[i]]
  BY <1>6, <1>7
<1>9. Exposed' = Exposed \ {p}
  BY <1>2, <1>4 DEF Exposed, IInv, TypeOK
<1>10. ~ HasShadow(h)' /\ Direct'[h] = {} /\ Draft'[h] = Absent
  BY <1>5 DEF HasShadow, IsOpen, Direct, Draft
<1>11. Draft' = [Draft EXCEPT ![h] = Absent]
  BY <1>2, <1>5, <1>10, DraftChanged
<1>12. ASSUME NEW g \in Handle
       PROVE  Direct'[g] = Direct[g] \ {p}
  <2>1. CASE g = h
    BY <2>1, <1>10 DEF Direct, HasShadow
  <2>2. CASE g # h
    <3>1. (IsOpen(g)' <=> IsOpen(g)) /\ handle'[g] = handle[g]
      BY <2>2, <1>5 DEF IsOpen
    <3>2. IsOpen(g) => \A q \in Path : dir'[q] = handle[g].inode <=> q # p /\ dir[q] = handle[g].inode
      BY <2>2, <1>1, <1>4
    <3> QED
      BY <3>1, <3>2 DEF Direct
  <2> QED
    BY <2>1, <2>2
<1>13. Direct' = [g \in Handle |-> Direct[g] \ {p}]
  BY <1>12 DEF Direct
<1> QED
  BY <1>3, <1>8, <1>9, <1>11, <1>13 DEF Saved!Publish

\* Closing a handle that is not a shadow, or never was one.
LEMMA CloseIsRelease ==
  ASSUME IInv, NEW h \in Handle, NEW result \in {"ok", "error"}, ~ HasShadow(h),
         handle' \in {handle, [handle EXCEPT ![h] = Absent]},
         handle'[h] = Absent,
         dir' = dir, cache' = cache,
         \A i \in Inode : disk'[i] \in {disk[i], cache[i]},
         answer' = [answer EXCEPT ![h] = result]
  PROVE  Saved!Release(h)
<1>1. \A g \in Handle \ {h} : handle'[g] = handle[g]
  BY DEF IInv, TypeOK
<1>2. ~ HasShadow(h)' /\ Direct'[h] = {}
  BY DEF HasShadow, IsOpen, Direct
<1>3. Draft' = Draft
  BY <1>1, <1>2, DraftsKept
<1>4. Direct' = [Direct EXCEPT ![h] = {}]
  BY <1>1, <1>2, DirectKept, DirectChanged
<1>5. File' = File
  BY DEF File
<1>6. Exposed' \in SUBSET Exposed
  BY DEF Exposed, IInv, TypeOK
<1>7. Draft[h] = Absent
  BY DraftExists DEF IInv
<1> QED
  BY <1>3, <1>4, <1>5, <1>6, <1>7 DEF Saved!Release

\* Closing a shadow that is not published.
LEMMA FailIsDiscard ==
  ASSUME IInv, NEW h \in Handle, HasShadow(h),
         handle' = [handle EXCEPT ![h] = Absent],
         dir' = dir, cache' = cache, disk' = disk,
         answer' = [answer EXCEPT ![h] = "error"]
  PROVE  Saved!Discard(h)
<1>1. handle'[h] = Absent /\ \A g \in Handle \ {h} : handle'[g] = handle[g]
  BY DEF IInv, TypeOK
<1>2. Draft'[h] = Absent /\ Direct'[h] = {} /\ Direct[h] = {}
  BY <1>1 DEF HasShadow, IsOpen, Draft, Direct
<1>3. Draft' = [Draft EXCEPT ![h] = Absent]
  BY <1>1, <1>2, DraftChanged
<1>4. \A g \in Handle : Direct'[g] = Direct[g]
  BY <1>1, <1>2, DirectKept
<1>5. Direct' = Direct
  BY <1>4 DEF Direct
<1>6. File' = File /\ Exposed' = Exposed
  BY DEF File, Exposed
<1>7. Draft[h] # Absent
  BY DraftExists DEF IInv
<1> QED
  BY <1>3, <1>5, <1>6, <1>7 DEF Saved!Discard

\* Every close is one of these.
LEMMA CloseStep ==
  ASSUME IInv, NEW h \in Handle, NANDClose(h) \/ NANDSafeClose(h) \/ IOS_Close(h)
  PROVE  Saved!Publish(h) \/ Saved!Discard(h) \/ Saved!Release(h) \/ UNCHANGED abstract
<1>1. PICK result \in {"ok", "error"} :
        /\ answer' = [answer EXCEPT ![h] = result]
        /\ \/ IsOpen(h) /\ CommitAndCloseFd(h, result)
           \/ ~ IsOpen(h) /\ UNCHANGED << names, contents, handle >>
           \/ IOS_Close(h)
  BY DEF NANDClose, NANDSafeClose, IOS_Close, Answered
<1>2. ASSUME handle' = [handle EXCEPT ![h] = Absent]
      PROVE  handle'[h] = Absent
  BY <1>2 DEF IInv, TypeOK
<1>3. CASE IsOpen(h) /\ CommitAndCloseFd(h, result)
  <2>1. handle' = [handle EXCEPT ![h] = Absent] /\ handle[h].inode \in Inode
    BY <1>3, HandleType DEF CommitAndCloseFd, IInv
  <2>2. CASE HasShadow(h) /\ result = "ok"
    BY <1>1, <1>3, <2>1, <2>2, PublishIsPublish DEF CommitAndCloseFd, HasShadow
  <2>3. CASE HasShadow(h) /\ result = "error"
    <3>1. dir' = dir /\ cache' = cache /\ disk' = disk
      BY <1>3, <2>3 DEF CommitAndCloseFd, HasShadow, contents
    <3> QED
      BY <1>1, <2>1, <2>3, <3>1, FailIsDiscard
  <2>4. CASE ~ HasShadow(h)
    <3>1. /\ dir' = dir /\ cache' = cache
          /\ disk' \in {disk, [disk EXCEPT ![handle[h].inode] = cache[handle[h].inode]]}
      BY <1>3, <2>4 DEF CommitAndCloseFd, HasShadow, contents, names
    <3>2. \A i \in Inode : disk'[i] \in {disk[i], cache[i]}
      BY <3>1 DEF IInv, TypeOK
    <3> QED
      BY <1>1, <1>2, <2>1, <2>4, <3>1, <3>2, CloseIsRelease
  <2> QED
    BY <2>2, <2>3, <2>4
<1>4. CASE ~ IsOpen(h) /\ UNCHANGED << names, contents, handle >>
  <2>1. ~ HasShadow(h) /\ handle'[h] = Absent /\ dir' = dir /\ cache' = cache /\ disk' = disk
    BY <1>4 DEF names, contents, HasShadow, IsOpen
  <2> QED
    BY <1>1, <1>4, <2>1, CloseIsRelease
<1>5. CASE IOS_Close(h)
  <2>1. /\ handle' = [handle EXCEPT ![h] = Absent] /\ dir' = dir /\ cache' = cache /\ disk' = disk
        /\ answer' = [answer EXCEPT ![h] = "ok"] /\ ~ HasShadow(h)
    BY <1>5 DEF IOS_Close, names, contents, Answered, IInv, IosInPlace
  <2> QED
    BY <1>2, <2>1, CloseIsRelease
<1> QED
  BY <1>1, <1>3, <1>4, <1>5

\* Names that change, with nothing else.
LEMMA NamesStep ==
  ASSUME IInv, NEW p \in Path, NEW q \in Path,
         NANDDelete(p) \/ NANDMove(p, q) \/ ISFS_Rename(p, q)
  PROVE  Saved!Delete(p) \/ Saved!Move(p, q)
<1>1. cache' = cache /\ disk' = disk /\ handle' = handle /\ answer' = answer /\ dir[p] # NoInode
  BY DEF NANDDelete, NANDMove, ISFS_Rename, Rename, contents, handles
<1>2. Draft' = Draft
  BY <1>1, DraftsKept
<1>3. File = [x \in Path |-> File[x]] /\ File' = [x \in Path |-> File'[x]]
  BY DEF File
<1>4. \A h \in Handle : IsOpen(h)' <=> IsOpen(h)
  BY <1>1 DEF IsOpen
<1>5. CASE NANDDelete(p)
  <2>1. dir'[p] = NoInode /\ \A x \in Path \ {p} : dir'[x] = dir[x]
    BY <1>5 DEF NANDDelete, IInv, TypeOK
  <2>2. File'[p] = Absent /\ \A x \in Path \ {p} : File'[x] = File[x]
    BY <1>1, <2>1 DEF File
  <2>3. File' = [File EXCEPT ![p] = Absent]
    BY <1>3, <2>2
  <2>4. Exposed' = Exposed \ {p}
    BY <1>1, <2>1 DEF Exposed
  <2>5. \A h \in Handle : Direct'[h] = Direct[h] \ {p}
    <3>1. \A h \in Handle : IsOpen(h) => \A x \in Path : dir'[x] = handle[h].inode <=> x # p /\ dir[x] = handle[h].inode
      BY <2>1, HandleType, Nothing DEF IInv
    <3> QED
      BY <1>1, <1>4, <3>1 DEF Direct
  <2>6. Direct' = [h \in Handle |-> Direct[h] \ {p}]
    BY <2>5 DEF Direct
  <2> QED
    BY <1>1, <1>2, <2>3, <2>4, <2>6 DEF Saved!Delete
<1>6. CASE NANDMove(p, q) \/ ISFS_Rename(p, q)
  <2>1. p # q /\ dir'[p] = NoInode /\ dir'[q] = dir[p] /\ \A x \in Path \ {p, q} : dir'[x] = dir[x]
    BY <1>6 DEF NANDMove, ISFS_Rename, Rename, IInv, TypeOK
  <2>2. File'[p] = Absent /\ File'[q] = File[p] /\ \A x \in Path \ {p, q} : File'[x] = File[x]
    BY <1>1, <2>1 DEF File
  <2>3. File' = [File EXCEPT ![p] = Absent, ![q] = File[p]]
    BY <1>3, <2>2
  <2>4. Exposed' = (Exposed \ {p, q}) \cup IF p \in Exposed THEN {q} ELSE {}
    BY <1>1, <2>1 DEF Exposed
  <2>5. \A h \in Handle : Direct'[h] = (Direct[h] \ {p, q}) \cup IF p \in Direct[h] THEN {q} ELSE {}
    <3>1. \A h \in Handle : IsOpen(h) => \A x \in Path :
            dir'[x] = handle[h].inode <=> \/ x = q /\ dir[p] = handle[h].inode
                                          \/ x \notin {p, q} /\ dir[x] = handle[h].inode
      BY <2>1, HandleType, Nothing DEF IInv
    <3> QED
      BY <1>1, <1>4, <3>1 DEF Direct
  <2>6. Direct' = [h \in Handle |-> (Direct[h] \ {p, q}) \cup IF p \in Direct[h] THEN {q} ELSE {}]
    BY <2>5 DEF Direct
  <2>7. File[p] # Absent
    BY <1>1, FileExists DEF IInv
  <2> QED
    BY <1>1, <1>2, <2>1, <2>3, <2>4, <2>6, <2>7 DEF Saved!Move
<1> QED
  BY <1>5, <1>6

\* A crash leaves the files as they were, but for what had not been flushed.
LEMMA CrashIsCrash ==
  ASSUME IInv, Crash
  PROVE  Saved!Crash
<1>1. PICK lost \in SUBSET {x \in Inode \X Block : cache[x[1]][x[2]] # disk[x[1]][x[2]]} :
        cache' = [i \in Inode |-> [b \in Block |-> IF << i, b >> \in lost THEN disk[i][b]
                                                                        ELSE cache[i][b]]]
  BY DEF Crash
<1>2. dir' = dir /\ disk' = cache' /\ \A h \in Handle : handle'[h] = Absent
  BY DEF Crash, names
<1>3. \A i \in Inode : cache'[i] \in Content
  BY <1>1 DEF IInv, TypeOK, Content
<1>4. ASSUME NEW i \in Inode, cache[i] = disk[i]
      PROVE  cache'[i] = cache[i]
  <2>1. \A b \in Block : << i, b >> \notin lost
    BY <1>4
  <2>2. cache'[i] = [b \in Block |-> cache[i][b]]
    BY <1>1, <2>1
  <2>3. cache[i] \in [Block -> Value]
    BY DEF IInv, TypeOK, Content
  <2> QED
    BY <2>2, <2>3
<1>5. ASSUME NEW p \in Path
      PROVE  /\ File'[p] \in Content \cup {Absent}
             /\ p \notin Exposed => File'[p] = File[p]
             /\ p \in Exposed => File'[p] # Absent
  BY <1>2, <1>3, <1>4, NandConstants DEF File, Exposed, IInv, TypeOK
<1>6. File' \in [Path -> Content \cup {Absent}]
  <2>1. File' = [p \in Path |-> File'[p]]
    BY DEF File
  <2> QED
    BY <1>5, <2>1
<1>7. Exposed' = {}
  BY <1>2 DEF Exposed
<1>8. Draft' = [h \in Handle |-> Absent] /\ Direct' = [h \in Handle |-> {}]
  BY <1>2 DEF Draft, Direct, HasShadow, IsOpen
<1>9. answer' = [h \in Handle |-> "none"]
  BY DEF Crash
<1> QED
  BY <1>5, <1>6, <1>7, <1>8, <1>9 DEF Saved!Crash, Saved!Content, Content

\* The step of SaveFiles that a step of the NAND is.
LEMMA StepIsSaved ==
  ASSUME IInv, [Next]_vars
  PROVE  [Saved!Next]_abstract
<1>1. ASSUME NEW h \in Handle, NEW p \in Path,
             NANDOpen(h, p) \/ NANDSafeOpen(h, p) \/ IOS_Open(h, p)
      PROVE  \/ Saved!Release(h) \/ Saved!OpenDirect(h, p) \/ Saved!Begin(h, p)
             \/ UNCHANGED abstract
  <2>1. CASE \E opened \in {"open", "safe_open", "ios"} : OpenForReading(h, p, opened)
    BY <2>1, ReadingIsRelease
  <2>2. CASE \E opened \in {"open", "safe_open"} : OpenShadow(h, p, opened)
    BY <2>2, ShadowIsBegin
  <2>3. CASE \E opened \in {"open", "ios"} :
               /\ OpenInPlace(h, p, opened)
               /\ cache' \in {cache, [cache EXCEPT ![dir[p]] = BlankFile]}
    BY <2>3, InPlaceIsOpenDirect
  <2>4. CASE \E i \in FreeInode : ~ IsOpen(h) /\ NewFile(p, i) /\ AllocateFd(h, "direct", p, i, "open")
    <3>1. PICK i \in FreeInode : ~ IsOpen(h) /\ NewFile(p, i) /\ AllocateFd(h, "direct", p, i, "open")
      BY <2>4
    <3>2. /\ Saved!Emptied(p)
          /\ i \in Inode /\ dir'[p] = i /\ \A q \in Path \ {p} : dir'[q] = dir[q] /\ dir'[q] # i
          /\ \A j \in Inode \ {i} : cache'[j] = cache[j]
      BY <3>1, NewFileIsEmptied
    <3>3. dir[p] = NoInode
      BY <3>1 DEF NewFile
    <3>4. \A g \in Handle : HasShadow(g) => handle[g].inode \in Inode
      BY HandleType DEF IInv, HasShadow
    <3>5. /\ Draft[h] = Absent /\ Draft' = Draft
          /\ Direct' = [Direct EXCEPT ![h] = {p}]
          /\ answer' = [answer EXCEPT ![h] = "none"]
      BY <3>1, <3>2, <3>3, <3>4, DirectOpened
    <3> QED
      BY <3>2, <3>5 DEF Saved!OpenDirect
  <2>5. CASE UNCHANGED << dir, contents, handles >>
    <3>1. dir' = dir /\ cache' = cache /\ disk' = disk /\ handle' = handle /\ answer' = answer
      BY <2>5 DEF contents, handles
    <3> QED
      BY <3>1 DEF abstract, File, Exposed, Draft, Direct, HasShadow, IsOpen
  <2>6. CASE /\ ~ IsOpen(h) /\ dir[p] # NoInode
             /\ AllocateFd(h, "direct", p, dir[p], "open")
             /\ \E now \in {cache[dir[p]], BlankFile} : ScratchLeft(p, now)
             /\ UNCHANGED dir
    BY <2>6, LeftIsOpenDirect
  <2>7. CASE dir[p] # NoInode /\ ScratchLeft(p, cache[dir[p]]) /\ UNCHANGED << dir, handles >>
    BY <2>7, LeftIsStutter
  <2> QED
    BY <1>1, <2>1, <2>2, <2>3, <2>4, <2>5, <2>6, <2>7 DEF NANDOpen, NANDSafeOpen, IOS_Open
<1>2. ASSUME NEW p \in Path, NANDCreate(p) \/ ISFS_CreateFile(p)
      PROVE  Saved!Create(p)
  <2>1. handle' = handle /\ answer' = answer
    BY <1>2 DEF NANDCreate, ISFS_CreateFile, handles
  <2>2. CASE NANDCreate(p)
    <3>1. PICK i \in FreeInode : NewFile(p, i)
      BY <2>2 DEF NANDCreate
    <3>2. /\ Saved!Emptied(p)
          /\ i \in Inode /\ dir'[p] = i /\ \A q \in Path \ {p} : dir'[q] = dir[q] /\ dir'[q] # i
          /\ \A j \in Inode \ {i} : cache'[j] = cache[j]
      BY <3>1, NewFileIsEmptied
    <3>3. dir[p] = NoInode
      BY <3>1 DEF NewFile
    <3>4. \A h \in Handle : IsOpen(h) => handle[h].inode # i /\ handle[h].inode \in Inode
      BY FreeIsUnused, HandleType DEF IInv
    <3>5. Draft' = Draft
      BY <2>1, <3>2, <3>4, DraftsKept DEF HasShadow
    <3>6. \A h \in Handle : IsOpen(h) => \A x \in Path : dir'[x] = handle[h].inode <=> dir[x] = handle[h].inode
      BY <3>2, <3>3, <3>4, Nothing
    <3>7. Direct' = Direct
      BY <2>1, <3>6 DEF Direct, IsOpen
    <3> QED
      BY <2>1, <3>2, <3>5, <3>7 DEF Saved!Create
  <2>3. CASE /\ dir[p] # NoInode
             /\ cache' = [cache EXCEPT ![dir[p]] = BlankFile]
             /\ UNCHANGED << names, disk, handles >>
    <3>1. dir' = dir /\ disk' = disk /\ dir[p] \in Inode /\ \A q \in Path \ {p} : dir[q] # dir[p]
      BY <2>3 DEF names, IInv, TypeOK, NamesApart
    <3>2. /\ DOMAIN dir' = Path /\ cache'[dir[p]] = BlankFile
          /\ \A q \in Path \ {p} : dir[q] # NoInode => cache'[dir[q]] = cache[dir[q]]
      BY <2>3, <3>1 DEF IInv, TypeOK
    <3>3. Saved!Emptied(p)
      BY <3>1, <3>2, EmptiedFile, Nothing
    <3>4. \A j \in Inode \ {dir[p]} : cache'[j] = cache[j]
      BY <2>3 DEF IInv, TypeOK
    <3>5. Draft' = Draft
      BY <2>1, <3>4, DraftsKept, HandleType DEF IInv, ShadowsAreAlone, HasShadow
    <3>6. Direct' = Direct
      BY <2>1, <3>1 DEF Direct, IsOpen
    <3> QED
      BY <2>1, <3>3, <3>5, <3>6 DEF Saved!Create
  <2> QED
    BY <1>2, <2>2, <2>3 DEF ISFS_CreateFile
<1>3. CASE Writeback
  <2>1. PICK i \in Inode : disk' = [disk EXCEPT ![i] = cache[i]]
    BY <1>3 DEF Writeback
  <2>2. dir' = dir /\ cache' = cache /\ handle' = handle /\ answer' = answer
    BY <1>3 DEF Writeback, names, handles
  <2>3. File' = File /\ Draft' = Draft /\ Direct' = Direct
    BY <2>2 DEF File, Draft, Direct, HasShadow, IsOpen
  <2>4. Exposed' \in SUBSET Exposed
    BY <2>1, <2>2 DEF Exposed, IInv, TypeOK
  <2> QED
    BY <2>2, <2>3, <2>4 DEF Saved!Next, Saved!Settle
<1>4. CASE UNCHANGED vars
  <2>1. dir' = dir /\ cache' = cache /\ disk' = disk /\ handle' = handle /\ answer' = answer
    BY <1>4 DEF vars, names, contents, handles
  <2> QED
    BY <2>1 DEF abstract, File, Exposed, Draft, Direct, HasShadow, IsOpen
<1>5. CASE \E h \in Handle, p \in Path : NANDOpen(h, p) \/ NANDSafeOpen(h, p) \/ IOS_Open(h, p)
  BY <1>5, <1>1 DEF Saved!Next
<1>6. CASE \E h \in Handle : NANDWrite(h)
  BY <1>6, WriteIsEdit DEF Saved!Next
<1>7. CASE \E h \in Handle : NANDClose(h) \/ NANDSafeClose(h) \/ IOS_Close(h)
  BY <1>7, CloseStep DEF Saved!Next
<1>8. CASE \E p \in Path : NANDCreate(p) \/ ISFS_CreateFile(p)
  BY <1>8, <1>2 DEF Saved!Next
<1>9. CASE \/ \E p \in Path : NANDDelete(p)
           \/ \E p, q \in Path : NANDMove(p, q) \/ ISFS_Rename(p, q)
  BY <1>9, NamesStep DEF Saved!Next
<1>10. CASE Crash
  BY <1>10, CrashIsCrash DEF Saved!Next
<1> QED
  BY <1>3, <1>4, <1>5, <1>6, <1>7, <1>8, <1>9, <1>10 DEF Next

-----------------------------------------------------------------------------
(* The theorems.                                                           *)

\* A NAND that has just been set up.
LEMMA InitStep ==
  ASSUME Init
  PROVE  IInv /\ Saved!Init
<1>1. \A h \in Handle : ~ IsOpen(h) /\ ~ HasShadow(h)
  BY DEF Init, HasShadow, IsOpen
<1>2. TypeOK
  BY BlankIsContent DEF Init, TypeOK
<1>3. NamesApart /\ ShadowsAreAlone /\ IosInPlace
  BY <1>1 DEF Init, NamesApart, ShadowsAreAlone, IosInPlace
<1>4. File \in [Path -> Saved!Content \cup {Absent}]
  BY DEF Init, File
<1>5. Exposed = {} /\ Draft = [h \in Handle |-> Absent] /\ Direct = [h \in Handle |-> {}]
  BY <1>1 DEF Init, Exposed, Draft, Direct
<1> QED
  BY <1>2, <1>3, <1>4, <1>5 DEF IInv, Init, Saved!Init

LEMMA Invariant == Spec => []IInv
<1>1. Init => IInv
  BY InitStep
<1>2. IInv /\ [Next]_vars => IInv'
  <2> SUFFICES ASSUME IInv, [Next]_vars
               PROVE  IInv'
    OBVIOUS
  <2>1. TypeOK'
    BY TypeStep DEF IInv
  <2> QED
    BY <2>1, ApartStep, IosStep DEF IInv
<1> QED
  BY <1>1, <1>2, PTL DEF Spec

\* A shadow is the one writer of its scratch file, whatever is opened, closed,
\* deleted and renamed by NANDOpen, NANDSafeOpen and the IOS calls.
THEOREM ShadowsStayAlone == Spec => []ShadowsAreAlone
<1>1. IInv => ShadowsAreAlone
  BY DEF IInv
<1> QED
  BY <1>1, Invariant, PTL

\* Opening by copying to a scratch file and closing by flushing and renaming it
\* implements files that are replaced as a whole, through crashes.
THEOREM SavesAreAtomic == Spec => ImplementsSaveFiles
<1>1. Init => Saved!Init
  BY InitStep
<1>2. IInv /\ [Next]_vars => [Saved!Next]_<< File, Exposed, Draft, Direct, answer >>
  BY StepIsSaved DEF abstract
<1> QED
  BY <1>1, <1>2, Invariant, PTL DEF Spec, ImplementsSaveFiles, Saved!Spec
============================================================
