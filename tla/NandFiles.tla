------------------------------ MODULE NandFiles ------------------------------
(***************************************************************************)
(* The files of the emulated NAND on the host's disk: nand_api.cpp and the *)
(* shadow files of nand_async.cpp, with the IOS calls of nand_isfs.cpp     *)
(* that open, create, delete and rename the same files, and a crash of the *)
(* host at any time.                                                       *)
(*                                                                         *)
(* The host's file system is modelled as POSIX describes it: names refer   *)
(* to inodes, an open handle keeps its inode, and what is written is seen  *)
(* at once but is on the disk only after a flush, or when the system gets  *)
(* to it.  Names change atomically, and durably.  Opening, removing,       *)
(* copying, flushing and renaming may fail, as they do on Windows when     *)
(* another handle is in the way.  A call is one step: a crash in the       *)
(* middle of one leaves what a crash before or after it may leave.         *)
(***************************************************************************)
EXTENDS FiniteSets

CONSTANTS
  Path,      (* files of the game, by their path on the host               *)
  Handle,    (* NANDFileInfo structures, and IOS descriptors               *)
  Inode,     (* files of the host; bound: so many exist at a time          *)
  NoInode,   (* nothing under this name                                    *)
  Block, Value, Blank, Absent

Content == [Block -> Value]
BlankFile == [b \in Block |-> Blank]

VARIABLES
  dir,       (* the inode of each file                                     *)
  scratch,   (* that of its scratch file, `<path>.nandsafe.tmp`            *)
  cache,     (* the contents of each inode, as programs see them           *)
  disk,      (* as a crash leaves them                                     *)
  handle,    (* g_fileHandles, by what holds the descriptor                *)
  flag,      (* the open flag of a NANDFileInfo; "ios" for a descriptor    *)
  answer     (* the result of the last close of each handle                *)

names == << dir, scratch >>
contents == << cache, disk >>
handles == << handle, flag, answer >>
vars == << names, contents, handles >>

\* A descriptor: whether it is one for reading, for writing to the file itself or
\* to its shadow; the path it was opened with; and the inode.
OpenFile == [use : {"read", "direct", "shadow"}, path : Path, inode : Inode]

ASSUME NandConstants ==
  /\ NoInode \notin Inode
  /\ Blank \in Value
  /\ Absent \notin Content \cup OpenFile \cup [path : Path, content : Content]

-----------------------------------------------------------------------------
(* Helpers.                                                                *)

IsOpen(h) == handle[h] # Absent
HasShadow(h) == IsOpen(h) /\ handle[h].use = "shadow"

\* Mutant: a shadow is not looked at by the path it will be published under.
IsPathItselfOpen(p) == \E h \in Handle : IsOpen(h) /\ ~ HasShadow(h) /\ handle[h].path = p

\* A handle refers to the file, directly or as what its shadow will replace.
IsHostPathOpen(p) == \E h \in Handle : IsOpen(h) /\ handle[h].path = p

InUse == {dir[p] : p \in Path} \cup {scratch[p] : p \in Path}
         \cup {handle[h].inode : h \in {g \in Handle : IsOpen(g)}}

FreeInode == Inode \ InUse

\* AllocateFd, and what the caller stores in the NANDFileInfo.
AllocateFd(h, use, p, i, opened) ==
  /\ handle' = [handle EXCEPT ![h] = [use |-> use, path |-> p, inode |-> i]]
  /\ flag' = [flag EXCEPT ![h] = opened]
  /\ answer' = [answer EXCEPT ![h] = "none"]

\* A scratch file is gone, or could not be removed.
ScratchRemoved(p) == scratch' \in {scratch, [scratch EXCEPT ![p] = NoInode]}

-----------------------------------------------------------------------------
(* Opening.                                                                *)

OpenForReading(h, p, opened) ==
  /\ ~ IsOpen(h) /\ dir[p] # NoInode
  /\ AllocateFd(h, "read", p, dir[p], opened)
  /\ UNCHANGED << names, contents >>

OpenInPlace(h, p, opened) ==
  /\ ~ IsOpen(h) /\ dir[p] # NoInode
  /\ AllocateFd(h, "direct", p, dir[p], opened)
  /\ UNCHANGED << dir, disk >>

\* Discard a stale scratch file, copy the original and open the copy.
OpenShadow(h, p, opened) ==
  /\ ~ IsOpen(h) /\ dir[p] # NoInode
  /\ \E i \in FreeInode :
       /\ AllocateFd(h, "shadow", p, i, opened)
       /\ scratch' = [scratch EXCEPT ![p] = i]
       /\ cache' = [cache EXCEPT ![i] = cache[dir[p]]]
       /\ disk' = [disk EXCEPT ![i] = BlankFile]
  /\ UNCHANGED dir

\* The copy was made, but it could neither be opened nor removed.  now is what
\* the file itself then contains.
ScratchLeft(p, now) ==
  \E i \in FreeInode :
    /\ scratch' = [scratch EXCEPT ![p] = i]
    /\ cache' = [cache EXCEPT ![i] = cache[dir[p]], ![dir[p]] = now]
    /\ disk' = [disk EXCEPT ![i] = BlankFile]

\* An empty file under a name that has none.
NewFile(p, i) ==
  /\ dir[p] = NoInode /\ i \in FreeInode
  /\ dir' = [dir EXCEPT ![p] = i]
  /\ cache' = [cache EXCEPT ![i] = BlankFile]
  /\ disk' = [disk EXCEPT ![i] = BlankFile]
  /\ UNCHANGED scratch

\* NANDOpen.  For writing, an existing file gets a shadow, unless it is open or
\* the shadow cannot be made; then, and for a new file, it is written in place.  A
\* file that cannot be opened for update is opened by a mode that empties it.
NANDOpen(h, p) ==
  \/ OpenForReading(h, p, "open")
  \/ ~ IsHostPathOpen(p) /\ OpenShadow(h, p, "open")
  \/ /\ OpenInPlace(h, p, "open")
     /\ IF IsHostPathOpen(p) THEN UNCHANGED scratch ELSE ScratchRemoved(p)
     /\ cache' \in {cache, [cache EXCEPT ![dir[p]] = BlankFile]}
  \/ /\ ~ IsHostPathOpen(p) /\ ~ IsOpen(h) /\ dir[p] # NoInode
     /\ AllocateFd(h, "direct", p, dir[p], "open")
     /\ \E now \in {cache[dir[p]], BlankFile} : ScratchLeft(p, now)
     /\ UNCHANGED dir
  \/ \E i \in FreeInode : ~ IsOpen(h) /\ NewFile(p, i) /\ AllocateFd(h, "direct", p, i, "open")

\* NANDSafeOpen.  For writing, always with a shadow, or it fails.  The scratch
\* file has one name: guest code does not ask for a second shadow of a file.
NANDSafeOpen(h, p) ==
  \/ OpenForReading(h, p, "safe_open")
  \/ /\ \A g \in Handle : HasShadow(g) => handle[g].path # p
     /\ \/ OpenShadow(h, p, "safe_open")
        \/ /\ ~ IsOpen(h) /\ dir[p] # NoInode
           /\ \/ ScratchRemoved(p) /\ UNCHANGED contents
              \/ ScratchLeft(p, cache[dir[p]])
           /\ UNCHANGED << dir, handles >>

\* IOS_Open never creates a file and makes no shadow.
IOS_Open(h, p) ==
  \/ OpenForReading(h, p, "ios")
  \/ OpenInPlace(h, p, "ios") /\ UNCHANGED << scratch, cache >>

-----------------------------------------------------------------------------
(* Writing and closing.                                                    *)

\* NANDWrite and IOS_Write: to the host's cache, not to the disk.
NANDWrite(h) ==
  /\ IsOpen(h) /\ handle[h].use # "read"
  /\ \E b \in Block, v \in Value : cache' = [cache EXCEPT ![handle[h].inode][b] = v]
  /\ UNCHANGED << names, disk, handles >>

\* Mutant: published without having been flushed.
PublishUnflushed(h) ==
  LET p == handle[h].path
  IN  /\ scratch[p] # NoInode
      /\ dir' = [dir EXCEPT ![p] = scratch[p]]
      /\ scratch' = [scratch EXCEPT ![p] = NoInode]
      /\ UNCHANGED contents

\* Flush the shadow, and rename its file over the original.
Publish(h) ==
  LET p == handle[h].path
  IN  /\ scratch[p] # NoInode
      /\ disk' = [disk EXCEPT ![handle[h].inode] = cache[handle[h].inode]]
      /\ dir' = [dir EXCEPT ![p] = scratch[p]]
      /\ scratch' = [scratch EXCEPT ![p] = NoInode]
      /\ UNCHANGED cache

\* CommitAndCloseFd.  The handle is gone whatever the result.
CommitAndCloseFd(h, result) ==
  /\ handle' = [handle EXCEPT ![h] = Absent]
  /\ \/ handle[h].use = "shadow" /\ result = "ok" /\ Publish(h)
     \/ handle[h].use = "shadow" /\ result = "error" /\ ScratchRemoved(handle[h].path)
        /\ UNCHANGED << dir, contents >>
     \/ handle[h].use = "direct" /\ result = "ok"
        /\ disk' = [disk EXCEPT ![handle[h].inode] = cache[handle[h].inode]]
        /\ UNCHANGED << names, cache >>
     \/ handle[h].use = "direct" /\ result = "error" /\ UNCHANGED << names, contents >>
     \/ handle[h].use = "read" /\ result = "ok" /\ UNCHANGED << names, contents >>

\* Mutant: a failed close is answered like a successful one.
ClosedAnyhow(h, result) ==
  /\ answer' = [answer EXCEPT ![h] = "ok"]
  /\ flag' = [flag EXCEPT ![h] = "closed"]

\* The flag is taken back by a close that succeeds.
Answered(h, result) ==
  /\ answer' = [answer EXCEPT ![h] = result]
  /\ flag' = IF result = "ok" THEN [flag EXCEPT ![h] = "closed"] ELSE flag

\* NANDClose, and NANDSafeClose of a handle that was opened with NANDOpen.  A
\* descriptor that is gone already is no error, even if its close failed.
NANDClose(h) ==
  /\ flag[h] = "open"
  /\ \E result \in {"ok", "error"} :
       /\ IF IsOpen(h) THEN CommitAndCloseFd(h, result)
                       ELSE result = "ok" /\ UNCHANGED << names, contents, handle >>
       /\ Answered(h, result)

\* NANDSafeClose: here a descriptor that is gone is an error.
NANDSafeClose(h) ==
  /\ flag[h] = "safe_open"
  /\ \E result \in {"ok", "error"} :
       /\ IF IsOpen(h) THEN CommitAndCloseFd(h, result)
                       ELSE result = "error" /\ UNCHANGED << names, contents, handle >>
       /\ Answered(h, result)

\* IOS_Close: no flush.
IOS_Close(h) ==
  /\ flag[h] = "ios"
  /\ handle' = [handle EXCEPT ![h] = Absent]
  /\ Answered(h, "ok")
  /\ UNCHANGED << names, contents >>

-----------------------------------------------------------------------------
(* Names.                                                                  *)

NANDCreate(p) == (\E i \in FreeInode : NewFile(p, i)) /\ UNCHANGED handles

\* The CREATEFILE ioctl creates a file, or empties the one there is.
ISFS_CreateFile(p) ==
  \/ NANDCreate(p)
  \/ /\ dir[p] # NoInode
     /\ cache' = [cache EXCEPT ![dir[p]] = BlankFile]
     /\ UNCHANGED << names, disk, handles >>

\* NANDDelete and the DELETE ioctl, whatever handles there are.
NANDDelete(p) ==
  /\ dir[p] # NoInode
  /\ dir' = [dir EXCEPT ![p] = NoInode]
  /\ UNCHANGED << scratch, contents, handles >>

Rename(p, q) ==
  /\ p # q /\ dir[p] # NoInode
  /\ dir' = [dir EXCEPT ![p] = NoInode, ![q] = dir[p]]
  /\ UNCHANGED << scratch, contents, handles >>

\* NANDMove refuses to overwrite; the RENAME ioctl does not.
NANDMove(p, q) == dir[q] = NoInode /\ Rename(p, q)
ISFS_Rename(p, q) == Rename(p, q)

-----------------------------------------------------------------------------
(* The host.                                                               *)

\* The system writes something to the disk.
Writeback ==
  /\ \E i \in Inode : disk' = [disk EXCEPT ![i] = cache[i]]
  /\ UNCHANGED << names, cache, handles >>

\* The host stops and the program is started again.  Of what had not been
\* flushed, any part is lost.  Scratch files stay.
Crash ==
  /\ \E lost \in SUBSET {x \in Inode \X Block : cache[x[1]][x[2]] # disk[x[1]][x[2]]} :
       cache' = [i \in Inode |-> [b \in Block |-> IF << i, b >> \in lost THEN disk[i][b]
                                                                       ELSE cache[i][b]]]
  /\ disk' = cache'
  /\ handle' = [h \in Handle |-> Absent]
  /\ flag' = [h \in Handle |-> "closed"]
  /\ answer' = [h \in Handle |-> "none"]
  /\ UNCHANGED names

-----------------------------------------------------------------------------
(* The specification.                                                      *)

\* A NAND that has just been set up.
Init ==
  /\ dir = [p \in Path |-> NoInode]
  /\ scratch = [p \in Path |-> NoInode]
  /\ cache = [i \in Inode |-> BlankFile]
  /\ disk = cache
  /\ handle = [h \in Handle |-> Absent]
  /\ flag = [h \in Handle |-> "closed"]
  /\ answer = [h \in Handle |-> "none"]

Next ==
  \/ \E h \in Handle, p \in Path : NANDOpen(h, p) \/ NANDSafeOpen(h, p) \/ IOS_Open(h, p)
  \/ \E h \in Handle : NANDWrite(h) \/ NANDClose(h) \/ NANDSafeClose(h) \/ IOS_Close(h)
  \/ \E p \in Path : NANDCreate(p) \/ ISFS_CreateFile(p) \/ NANDDelete(p)
  \/ \E p, q \in Path : NANDMove(p, q) \/ ISFS_Rename(p, q)
  \/ Writeback \/ Crash

Spec == Init /\ [][Next]_vars

-----------------------------------------------------------------------------
(* What must be true.                                                      *)

TypeOK ==
  /\ dir \in [Path -> Inode \cup {NoInode}]
  /\ scratch \in [Path -> Inode \cup {NoInode}]
  /\ cache \in [Inode -> Content]
  /\ disk \in [Inode -> Content]
  /\ handle \in [Handle -> OpenFile \cup {Absent}]
  /\ flag \in [Handle -> {"closed", "open", "safe_open", "ios"}]
  /\ answer \in [Handle -> {"none", "ok", "error"}]

\* No file of the host has two names.
NamesApart ==
  /\ \A p, q \in Path : dir[p] # NoInode /\ dir[p] = dir[q] => p = q
  /\ \A p, q \in Path : scratch[p] # NoInode => scratch[p] # dir[q]
  /\ \A p, q \in Path : scratch[p] # NoInode /\ scratch[p] = scratch[q] => p = q

\* IOS_Open makes no shadow.
IosInPlace == \A h \in Handle : HasShadow(h) => flag[h] # "ios"

\* A shadow is the one writer of its scratch file, which is still under its name
\* when it is closed: what the close renames is what the handle has written.
ShadowsAreAlone ==
  \A h \in Handle : HasShadow(h) =>
    /\ scratch[handle[h].path] = handle[h].inode
    /\ \A p \in Path : dir[p] # handle[h].inode
    /\ \A g \in Handle : IsOpen(g) /\ handle[g].inode = handle[h].inode => g = h

\* The abstract state.
File == [p \in Path |-> IF dir[p] = NoInode THEN Absent ELSE cache[dir[p]]]
Exposed == {p \in Path : dir[p] # NoInode /\ cache[dir[p]] # disk[dir[p]]}
Draft ==
  [h \in Handle |-> IF HasShadow(h)
                    THEN [path |-> handle[h].path, content |-> cache[handle[h].inode]]
                    ELSE Absent]
Direct ==
  [h \in Handle |-> IF IsOpen(h) /\ handle[h].use = "direct"
                    THEN {p \in Path : dir[p] = handle[h].inode}
                    ELSE {}]

Saved == INSTANCE SaveFiles WITH file <- File, exposed <- Exposed, draft <- Draft,
                                 direct <- Direct, reply <- answer

\* The scratch files, the order of flushing and renaming, and what a crash leaves
\* of both implement SaveFiles: a file opened for writing is replaced as a whole or
\* stays as it was, the close says which, and a crash tears no file but one that is
\* written in place.
ImplementsSaveFiles == Saved!Spec
=============================================================================
