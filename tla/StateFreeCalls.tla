--------------------------- MODULE StateFreeCalls ---------------------------
(***************************************************************************)
(* Native code that calls native code without the whole guest context.     *)
(*                                                                         *)
(* A call passes only some registers and gets back only some: the masks of *)
(* the interface the translator has chosen for it.  This module runs a     *)
(* program under these interfaces.  A frame records for which registers it *)
(* holds the architectural value; a register the callee wrote and did not  *)
(* return is stale in the caller, and one that was not passed is stale in  *)
(* the callee.                                                             *)
(***************************************************************************)
EXTENDS GuestAbiContracts

CONSTANT MaxDepth    \* how deep calls nest

VARIABLE stack       \* the frames of the native calls, the innermost last

vars == <<code, contract, pending, phase, stack>>

Returned == 0

Frame ==
  [fn : Function,
   at : Nat,                      \* the instruction, or Returned
   good : SUBSET Register,        \* those with their architectural value
   written : SUBSET Register,     \* written since the frame was entered
   exposed : SUBSET Register,     \* read before they were written
   outs : SUBSET Register,        \* what the interface returns
   wanted : SUBSET Register]      \* what the caller goes on to use of them

Top == stack[Len(stack)]
At(frame) == code[frame.fn][frame.at]

\* The next instruction of f after n, or the end of f.
Onwards(f, n) == IF Flow(code, f, n) = {} THEN {Returned} ELSE Flow(code, f, n)

----------------------------------------------------------------------------
(***************************************************************************)
(* The interfaces a call may be given.                                     *)
(***************************************************************************)

\* The seeded signatures: a value that may be written and is demanded is
\* also an input, unless every path overwrites it.
SeededContracts ==
  [g \in Function |->
     [contract[g] EXCEPT !.reads = @ \cup (Demanded(code, contract, g) \ contract[g].must)]]

\* A native entry of h that returns outs takes what is then live at entry.
NativeEntry(h, outs) ==
  [ins |-> LiveIn(code, SeededContracts, h, outs, Entry), outs |-> outs]

\* Through the context: the caller flushes what the callee reads or may
\* write, and reloads what it may write.
ResidentBoundary(h) ==
  [ins |-> contract[h].reads \cup contract[h].may, outs |-> contract[h].may]

\* The interface of h for every call site, the variant for this site, or
\* the context: the caps on the number of values decide, and mod overlays.
Interfaces(f, n) ==
  LET h == code[f][n].callee
  IN  {NativeEntry(h, Demanded(code, contract, h)),
       NativeEntry(h, contract[h].may \cap LiveOut(code, contract, f, contract[f].may, n)),
       ResidentBoundary(h)}

----------------------------------------------------------------------------
Init == AbiInit /\ stack = <<>>

\* The dispatcher enters f with the whole context, and observes all f writes.
EnterPublic(f) ==
  /\ phase = "run"
  /\ stack = <<>>
  /\ stack' = <<[fn |-> f, at |-> Entry, good |-> Register, written |-> {}, exposed |-> {},
                 outs |-> contract[f].may, wanted |-> contract[f].may]>>
  /\ UNCHANGED abiVars

LeavePublic ==
  /\ Len(stack) = 1
  /\ Top.at = Returned
  /\ stack' = <<>>
  /\ UNCHANGED abiVars

Execute ==
  /\ stack # <<>>
  /\ Top.at # Returned
  /\ At(Top).callee = NoCall
  /\ \E m \in Onwards(Top.fn, Top.at) :
       stack' = [stack EXCEPT ![Len(stack)] =
                   [Top EXCEPT !.at = m,
                               !.good = @ \cup At(Top).defs,
                               !.written = @ \cup At(Top).defs,
                               !.exposed = @ \cup (At(Top).uses \ Top.written)]]
  /\ UNCHANGED abiVars

\* The destination of the call (the link register) is written first.
Call ==
  /\ stack # <<>>
  /\ Top.at # Returned
  /\ At(Top).callee # NoCall
  /\ Len(stack) < MaxDepth
  /\ \E interface \in Interfaces(Top.fn, Top.at) :
       LET h == At(Top).callee
           caller == [Top EXCEPT !.good = @ \cup At(Top).defs,
                                 !.written = @ \cup At(Top).defs]
       IN  stack' = Append([stack EXCEPT ![Len(stack)] = caller],
                           [fn |-> h, at |-> Entry,
                            good |-> interface.ins \cap caller.good,
                            written |-> {}, exposed |-> {},
                            outs |-> interface.outs,
                            wanted |-> contract[h].may \cap
                              LiveOut(code, contract, Top.fn, Top.wanted, Top.at)])
  /\ UNCHANGED abiVars

\* The caller stores the outputs and keeps its own values of the rest.
Return ==
  /\ Len(stack) > 1
  /\ Top.at = Returned
  /\ LET caller == stack[Len(stack) - 1]
     IN  \E m \in Onwards(caller.fn, caller.at) :
           stack' = Append(SubSeq(stack, 1, Len(stack) - 2),
                     [caller EXCEPT
                        !.at = m,
                        !.good = (@ \ (Top.written \cup Top.outs)) \cup (Top.outs \cap Top.good),
                        !.written = @ \cup Top.written,
                        !.exposed = @ \cup (Top.exposed \ caller.written)])
  /\ UNCHANGED abiVars

Next ==
  \/ AnalyzeAlone /\ UNCHANGED stack
  \/ Round /\ UNCHANGED stack
  \/ \E f \in Function : EnterPublic(f)
  \/ LeavePublic
  \/ Execute
  \/ Call
  \/ Return

Spec == Init /\ [][Next]_vars

\* The translator works on until the analysis is done.
FairSpec == Spec /\ WF_vars((AnalyzeAlone \/ Round) /\ UNCHANGED stack)

----------------------------------------------------------------------------
TypeOK ==
  /\ code \in Programs
  /\ phase \in {"alone", "rounds", "run"}
  /\ contract \in (IF phase = "alone" THEN {NoContracts} ELSE [Function -> Contract])
  /\ pending \subseteq Function
  /\ stack \in Seq(Frame)

\* No instruction uses a register whose native value is not the
\* architectural one: no interface drops a value that is used later.
NoStaleRead ==
  stack # <<>> /\ Top.at # Returned /\ At(Top).callee = NoCall =>
    At(Top).uses \subseteq Top.good

\* When the dispatcher gets control back the context holds everything that
\* was written.
NothingLost ==
  Len(stack) = 1 /\ Top.at = Returned => Top.written \subseteq Top.good

\* What a call really did is what its contract says: it read nothing else
\* before writing it, wrote nothing else, and wrote what it always writes.
ContractsAreTrue ==
  \A k \in 1 .. Len(stack) :
    LET frame == stack[k]
    IN  /\ frame.exposed \subseteq contract[frame.fn].reads
        /\ frame.written \subseteq contract[frame.fn].may
        /\ frame.at = Returned => contract[frame.fn].must \subseteq frame.written

\* A register that a call reads before anything has written it is one of
\* those its contract reads.
ReadsAreInputs ==
  \A k \in 1 .. Len(stack) : stack[k].exposed \subseteq contract[stack[k].fn].reads
=============================================================================
