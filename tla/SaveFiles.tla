------------------------------ MODULE SaveFiles ------------------------------
(***************************************************************************)
(* What the NAND library promises of the files a game keeps: a handle that *)
(* is opened for writing works on a draft, closing it replaces the file by *)
(* the draft as a whole or reports an error and leaves the file alone, and *)
(* a crash of the host loses drafts and nothing else.  Only what has been  *)
(* written to a file directly, without a draft, is exposed to a crash.     *)
(***************************************************************************)
CONSTANTS
  Path,      (* names of files                                            *)
  Handle,    (* what the game opens files with                            *)
  Block,     (* the parts of a file that are written separately           *)
  Value,     (* what a block may contain                                  *)
  Blank,     (* the contents of a block of a new file                     *)
  Absent     (* no file, no draft                                         *)

Content == [Block -> Value]

VARIABLES
  file,      (* what a reader finds under each name                       *)
  exposed,   (* the files that a crash may change                         *)
  draft,     (* the draft of each handle, and the name it is for          *)
  direct,    (* the files each handle writes to without a draft           *)
  reply      (* the answer to the last close of each handle               *)

Init ==
  /\ file \in [Path -> Content \cup {Absent}]
  /\ exposed = {}
  /\ draft = [h \in Handle |-> Absent]
  /\ direct = [h \in Handle |-> {}]
  /\ reply = [h \in Handle |-> "none"]

\* A file, or a draft, with one block changed.
Patched(c) == {[c EXCEPT ![b] = v] : b \in Block, v \in Value}

\* The file is empty, a new one or not.
Emptied(p) ==
  /\ file' = [file EXCEPT ![p] = [b \in Block |-> Blank]]
  /\ \/ exposed' = exposed \ {p}
     \/ file[p] # Absent /\ exposed' = exposed \cup {p}

Begin(h, p) ==
  /\ draft[h] = Absent /\ file[p] # Absent
  /\ draft' = [draft EXCEPT ![h] = [path |-> p, content |-> file[p]]]
  /\ reply' = [reply EXCEPT ![h] = "none"]
  /\ UNCHANGED << file, exposed, direct >>

Edit(h) ==
  /\ draft[h] # Absent
  /\ \E c \in Patched(draft[h].content) : draft' = [draft EXCEPT ![h].content = c]
  /\ UNCHANGED << file, exposed, direct, reply >>

\* The file is the draft from here on, whatever happens.  Handles that write to
\* the file that was there before have lost it.
Publish(h) ==
  /\ draft[h] # Absent
  /\ LET p == draft[h].path
     IN  /\ file' = [file EXCEPT ![p] = draft[h].content]
         /\ exposed' = exposed \ {p}
         /\ direct' = [g \in Handle |-> direct[g] \ {p}]
  /\ draft' = [draft EXCEPT ![h] = Absent]
  /\ reply' = [reply EXCEPT ![h] = "ok"]

Discard(h) ==
  /\ draft[h] # Absent
  /\ draft' = [draft EXCEPT ![h] = Absent]
  /\ reply' = [reply EXCEPT ![h] = "error"]
  /\ UNCHANGED << file, exposed, direct >>

\* Without a draft: a handle is opened on a file, which may be a new one, or one
\* that could not be opened but by emptying it.
OpenDirect(h, p) ==
  /\ draft[h] = Absent
  /\ \/ file[p] # Absent /\ UNCHANGED << file, exposed >>
     \/ Emptied(p)
  /\ direct' = [direct EXCEPT ![h] = {p}]
  /\ reply' = [reply EXCEPT ![h] = "none"]
  /\ UNCHANGED draft

Patch(h) ==
  /\ \E p \in direct[h] :
       /\ \E c \in Patched(file[p]) : file' = [file EXCEPT ![p] = c]
       /\ exposed' \in {exposed \cup {p}, exposed \ {p}}
  /\ UNCHANGED << draft, direct, reply >>

\* The handle is not one with a draft: it is closed, or was never open.
Release(h) ==
  /\ draft[h] = Absent
  /\ direct' = [direct EXCEPT ![h] = {}]
  /\ \E answer \in {"none", "ok", "error"} : reply' = [reply EXCEPT ![h] = answer]
  /\ exposed' \in SUBSET exposed
  /\ UNCHANGED << file, draft >>

Create(p) == Emptied(p) /\ UNCHANGED << draft, direct, reply >>

Delete(p) ==
  /\ file' = [file EXCEPT ![p] = Absent]
  /\ exposed' = exposed \ {p}
  /\ direct' = [h \in Handle |-> direct[h] \ {p}]
  /\ UNCHANGED << draft, reply >>

\* Handles follow the file.
Move(p, q) ==
  /\ p # q /\ file[p] # Absent
  /\ file' = [file EXCEPT ![p] = Absent, ![q] = file[p]]
  /\ exposed' = (exposed \ {p, q}) \cup IF p \in exposed THEN {q} ELSE {}
  /\ direct' = [h \in Handle |-> (direct[h] \ {p, q}) \cup IF p \in direct[h] THEN {q} ELSE {}]
  /\ UNCHANGED << draft, reply >>

\* What has been written reaches the disk.
Settle == exposed' \in SUBSET exposed /\ UNCHANGED << file, draft, direct, reply >>

\* Whatever the host is doing, it stops, and the game starts anew.
Crash ==
  /\ file' \in [Path -> Content \cup {Absent}]
  /\ \A p \in Path : IF p \in exposed THEN file'[p] # Absent ELSE file'[p] = file[p]
  /\ exposed' = {}
  /\ draft' = [h \in Handle |-> Absent]
  /\ direct' = [h \in Handle |-> {}]
  /\ reply' = [h \in Handle |-> "none"]

Next ==
  \/ \E h \in Handle : Edit(h) \/ Publish(h) \/ Discard(h) \/ Patch(h) \/ Release(h)
  \/ \E h \in Handle, p \in Path : Begin(h, p) \/ OpenDirect(h, p)
  \/ \E p \in Path : Create(p) \/ Delete(p)
  \/ \E p, q \in Path : Move(p, q)
  \/ Settle \/ Crash

Spec == Init /\ [][Next]_<< file, exposed, draft, direct, reply >>
=============================================================================
