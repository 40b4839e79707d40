--------------------------- MODULE StateFreeProofs ---------------------------
(***************************************************************************)
(* Proofs about StateFreeCalls, for every program, every set of registers  *)
(* and every depth of calls.                                               *)
(*                                                                         *)
(* First the two analyses: what they compute is a fixed point, so it       *)
(* relates an instruction to those before and after it.  Then the rounds,  *)
(* then the calls.                                                         *)
(***************************************************************************)
EXTENDS StateFreeCalls, SequenceTheorems, TLAPS

\* The contracts are in step with each other.
Settled(p, c) ==
  /\ p \in Programs
  /\ c \in [Function -> Contract]
  /\ \A f \in Function : c[f] = Analyze(p, c, f)
  /\ \A f \in Function : c[f].must \subseteq c[f].may

\* Written on every path to n.
Certain(p, c, f, n) == {r \in Register : n \notin Unwritten(p, c, f, r)}

\* Where control goes by an edge the analysis misses, what it believes has
\* been written has been.
JoinsBelieved(p, c) ==
  \A f \in Function : \A n \in Nodes(p, f) : \A m \in Flow(p, f, n) \ Edges(p, f, n) :
    DefiniteIn(p, c, f, m) \subseteq MustWrite(c, p[f][n]) \cup DefiniteIn(p, c, f, n)

----------------------------------------------------------------------------
(***************************************************************************)
(* Programs.                                                               *)
(***************************************************************************)

LEMMA ProgramType ==
  ASSUME NEW p \in Programs, NEW f \in Function
  PROVE  /\ p[f] \in Seq(Instruction)
         /\ Nodes(p, f) \subseteq Nat \ {0}
         /\ Entry \in Nodes(p, f)
         /\ \A n \in Nodes(p, f) : p[f][n] \in Instruction
         /\ \A n \in Nodes(p, f) : Flow(p, f, n) \subseteq Nodes(p, f)
         /\ \A n \in Nodes(p, f) : p[f][n].to \subseteq Nodes(p, f)
<1>1. p[f] \in Seq(Instruction) /\ p[f] # <<>>
      /\ \A n \in DOMAIN p[f] : p[f][n].to \subseteq DOMAIN p[f]
  BY ProgramsAssumption
<1>2. DOMAIN p[f] = 1 .. Len(p[f]) /\ Len(p[f]) \in Nat \ {0}
  BY <1>1
<1> QED BY <1>1, <1>2 DEF Nodes, Entry, Flow

----------------------------------------------------------------------------
(***************************************************************************)
(* The forward analysis.                                                   *)
(***************************************************************************)

LEMMA DefiniteFixed ==
  ASSUME NEW p, NEW c, NEW f, NEW r
  PROVE  DefiniteOut(p, c, f, r) = DefiniteSweep(p, c, f, r, DefiniteOut(p, c, f, r))
<1> DEFINE D == DefiniteOut(p, c, f, r)
           Sw(S) == DefiniteSweep(p, c, f, r, S)
<1>1. \A S, R : S \subseteq R => Sw(S) \subseteq Sw(R)
  BY DEF DefiniteSweep, WrittenBefore
<1>2. D \subseteq Nodes(p, f) /\ \A S : Sw(S) \subseteq Nodes(p, f)
  BY DEF DefiniteOut, DefiniteSweep
<1>3. \A S \in SUBSET Nodes(p, f) : Sw(S) \subseteq S => D \subseteq S
  BY DEF DefiniteOut
<1>4. \A n \in Nodes(p, f) :
        (\A S \in SUBSET Nodes(p, f) : Sw(S) \subseteq S => n \in S) => n \in D
  BY DEF DefiniteOut
<1> HIDE DEF D, Sw
<1>5. Sw(D) \subseteq D
  <2>1. ASSUME NEW n \in Sw(D), NEW S \in SUBSET Nodes(p, f), Sw(S) \subseteq S
        PROVE  n \in S
    BY <1>1, <1>3, <2>1
  <2> QED BY <2>1, <1>2, <1>4
<1>6. D \subseteq Sw(D)
  BY <1>1, <1>2, <1>3, <1>5
<1>7. D = Sw(D)
  BY <1>5, <1>6
<1> QED BY <1>7 DEF D, Sw

\* What is written after n is written by n or was written before it.
LEMMA DefiniteStep ==
  ASSUME NEW p, NEW c, NEW f, NEW r \in Register, NEW n \in DefiniteOut(p, c, f, r)
  PROVE  n \in Nodes(p, f) /\ (r \in MustWrite(c, p[f][n]) \/ r \in DefiniteIn(p, c, f, n))
BY DefiniteFixed DEF DefiniteSweep, DefiniteIn

LEMMA DefiniteFlow ==
  ASSUME NEW p, NEW c, JoinsBelieved(p, c), NEW f \in Function,
         NEW n \in Nodes(p, f), NEW m \in Flow(p, f, n), NEW r \in DefiniteIn(p, c, f, m)
  PROVE  r \in MustWrite(c, p[f][n]) \/ r \in DefiniteIn(p, c, f, n)
<1>1. r \in Register /\ Preds(p, f, m) \subseteq DefiniteOut(p, c, f, r)
  BY DEF DefiniteIn, WrittenBefore
<1>2. CASE m \in Edges(p, f, n)
  <2>1. n \in Preds(p, f, m)  BY <1>2 DEF Preds
  <2> QED BY <2>1, <1>1, DefiniteStep
<1>3. CASE m \notin Edges(p, f, n)
  BY <1>3 DEF JoinsBelieved
<1> QED BY <1>2, <1>3

LEMMA NothingAtEntry ==
  ASSUME NEW p, NEW c, NEW f PROVE DefiniteIn(p, c, f, Entry) = {}
BY DEF DefiniteIn, WrittenBefore

\* What a path may leave unwritten the analysis does not believe written,
\* where it is right about the edges it misses.
LEMMA UnwrittenNotDefinite ==
  ASSUME NEW p \in Programs, NEW c, JoinsBelieved(p, c), NEW f \in Function,
         NEW r, NEW n \in Unwritten(p, c, f, r)
  PROVE  n \in Nodes(p, f) /\ r \notin DefiniteIn(p, c, f, n)
<1> DEFINE S == {m \in Nodes(p, f) : r \notin DefiniteIn(p, c, f, m)}
<1>1. Entry \in S  BY ProgramType, NothingAtEntry
<1>2. ASSUME NEW m \in S, r \notin MustWrite(c, p[f][m]) PROVE Flow(p, f, m) \subseteq S
  BY <1>2, ProgramType, DefiniteFlow
<1>3. UnwrittenSweep(p, c, f, r, S) \subseteq S
  BY <1>1, <1>2 DEF UnwrittenSweep
<1> QED BY <1>3 DEF Unwritten

\* If it is, the paths are counted.  That is so of every program in which no
\* block is both jumped to and fallen into, and of many others.
LEMMA BelievedIsCounted ==
  ASSUME NEW p, NEW c, Settled(p, c), JoinsBelieved(p, c) PROVE PathsCounted(p, c)
<1> SUFFICES ASSUME NEW f \in Function, NEW r \in Register, NEW n \in Unwritten(p, c, f, r)
             PROVE  /\ r \in Reads(c, p[f][n]) => r \in c[f].reads
                    /\ r \in c[f].must /\ Flow(p, f, n) = {} => r \in MustWrite(c, p[f][n])
  BY DEF PathsCounted
<1>1. n \in Nodes(p, f) /\ r \notin DefiniteIn(p, c, f, n) /\ c[f] = Analyze(p, c, f)
  BY UnwrittenNotDefinite DEF Settled
<1>2. r \in Reads(c, p[f][n]) => r \in c[f].reads
  BY <1>1 DEF Analyze
<1>3. ASSUME r \in c[f].must, Flow(p, f, n) = {} PROVE r \in MustWrite(c, p[f][n])
  <2>1. n \in Exits(p, f)  BY <1>1, <1>3 DEF Exits, Edges
  <2>2. n \in DefiniteOut(p, c, f, r)  BY <1>1, <1>3, <2>1 DEF Analyze
  <2> QED BY <1>1, <2>2, DefiniteStep
<1> QED BY <1>2, <1>3

\* No block that is fallen into is jumped to as well.
LEMMA AloneIsBelieved ==
  ASSUME NEW p \in Programs, NEW c,
         \A f \in Function : \A n \in Nodes(p, f) : \A m \in Flow(p, f, n) \ Edges(p, f, n) :
           Preds(p, f, m) = {}
  PROVE  JoinsBelieved(p, c)
<1>1. \A f \in Function : \A m : Preds(p, f, m) = {} => DefiniteIn(p, c, f, m) = {}
  BY DEF DefiniteIn, WrittenBefore
<1> QED BY <1>1 DEF JoinsBelieved

----------------------------------------------------------------------------
(***************************************************************************)
(* Paths.                                                                  *)
(***************************************************************************)

LEMMA UnwrittenClosed ==
  ASSUME NEW p, NEW c, NEW f, NEW r, Entry \in Nodes(p, f),
         \A n \in Nodes(p, f) : Flow(p, f, n) \subseteq Nodes(p, f)
  PROVE  /\ Entry \in Unwritten(p, c, f, r)
         /\ \A n \in Unwritten(p, c, f, r) :
              r \notin MustWrite(c, p[f][n]) => Flow(p, f, n) \subseteq Unwritten(p, c, f, r)
<1>1. Entry \in Unwritten(p, c, f, r)
  BY DEF Unwritten, UnwrittenSweep
<1>2. ASSUME NEW n \in Unwritten(p, c, f, r), r \notin MustWrite(c, p[f][n]),
             NEW m \in Flow(p, f, n), NEW S \in SUBSET Nodes(p, f),
             UnwrittenSweep(p, c, f, r, S) \subseteq S
      PROVE  m \in S
  <2>1. n \in S  BY <1>2 DEF Unwritten
  <2> QED BY <1>2, <2>1 DEF UnwrittenSweep
<1>3. \A n \in Unwritten(p, c, f, r) : n \in Nodes(p, f)
  BY DEF Unwritten
<1> QED BY <1>1, <1>2, <1>3 DEF Unwritten

\* What is written on every path to the next instruction is written by this
\* one or on every path to it.
LEMMA CertainFlow ==
  ASSUME NEW p \in Programs, NEW c, NEW f \in Function,
         NEW n \in Nodes(p, f), NEW m \in Flow(p, f, n), NEW r \in Certain(p, c, f, m)
  PROVE  r \in MustWrite(c, p[f][n]) \/ r \in Certain(p, c, f, n)
BY ProgramType, UnwrittenClosed DEF Certain

LEMMA NothingCertainAtEntry ==
  ASSUME NEW p \in Programs, NEW c, NEW f \in Function PROVE Certain(p, c, f, Entry) = {}
BY ProgramType, UnwrittenClosed DEF Certain

LEMMA MustAtEnd ==
  ASSUME NEW p, NEW c, PathsCounted(p, c), Settled(p, c), NEW f \in Function,
         NEW n \in Nodes(p, f), Flow(p, f, n) = {}, NEW r \in c[f].must
  PROVE  r \in MustWrite(c, p[f][n]) \/ r \in Certain(p, c, f, n)
<1>1. r \in Register  BY DEF Settled, Contract
<1> QED BY <1>1 DEF PathsCounted, Certain

LEMMA ReadsCounted ==
  ASSUME NEW p, NEW c, PathsCounted(p, c), NEW f \in Function, NEW n \in Nodes(p, f),
         NEW r \in Register, r \in Reads(c, p[f][n]), r \notin Certain(p, c, f, n)
  PROVE  r \in c[f].reads
BY DEF PathsCounted, Certain

LEMMA WritesCounted ==
  ASSUME NEW p, NEW c, Settled(p, c), NEW f \in Function, NEW n \in Nodes(p, f)
  PROVE  /\ p[f][n].defs \subseteq c[f].may
         /\ p[f][n].callee \in Function => c[p[f][n].callee].may \subseteq c[f].may
<1>1. p[f][n] \in Instruction /\ DOMAIN c = Function /\ \A g \in Function : c[g].may \subseteq Register
  BY ProgramType DEF Settled, Contract
<1>2. \A r \in Register : r \in MayWrite(c, p[f][n]) => r \in Analyze(p, c, f).may
  BY DEF Analyze
<1>3. p[f][n].defs \subseteq Register
  BY <1>1 DEF Instruction
<1> QED BY <1>1, <1>2, <1>3 DEF MayWrite, Settled

----------------------------------------------------------------------------
(***************************************************************************)
(* The backward analysis.                                                  *)
(***************************************************************************)

LEMMA LiveFixed ==
  ASSUME NEW p, NEW c, NEW f, NEW exit, NEW r
  PROVE  LiveNodes(p, c, f, exit, r)
           = LiveSweep(p, c, f, exit, r, LiveNodes(p, c, f, exit, r))
<1> DEFINE L == LiveNodes(p, c, f, exit, r)
           Sw(S) == LiveSweep(p, c, f, exit, r, S)
<1>1. \A S, R : S \subseteq R => Sw(S) \subseteq Sw(R)
  BY DEF LiveSweep, WantedAfter
<1>2. L \subseteq Nodes(p, f) /\ \A S : Sw(S) \subseteq Nodes(p, f)
  BY DEF LiveNodes, LiveSweep
<1>3. \A S \in SUBSET Nodes(p, f) : Sw(S) \subseteq S => L \subseteq S
  BY DEF LiveNodes
<1>4. \A n \in Nodes(p, f) :
        (\A S \in SUBSET Nodes(p, f) : Sw(S) \subseteq S => n \in S) => n \in L
  BY DEF LiveNodes
<1> HIDE DEF L, Sw
<1>5. Sw(L) \subseteq L
  <2>1. ASSUME NEW n \in Sw(L), NEW S \in SUBSET Nodes(p, f), Sw(S) \subseteq S
        PROVE  n \in S
    BY <1>1, <1>3, <2>1
  <2> QED BY <2>1, <1>2, <1>4
<1>6. L \subseteq Sw(L)
  BY <1>1, <1>2, <1>3, <1>5
<1>7. L = Sw(L)
  BY <1>5, <1>6
<1> QED BY <1>7 DEF L, Sw

LEMMA LiveNeeds ==
  ASSUME NEW p, NEW c, NEW f, NEW exit, NEW n \in Nodes(p, f),
         NEW r \in Register, r \in Needs(c, p[f][n])
  PROVE  r \in LiveIn(p, c, f, exit, n)
BY LiveFixed DEF LiveIn, LiveSweep

LEMMA LiveThrough ==
  ASSUME NEW p, NEW c, NEW f, NEW exit, NEW n \in Nodes(p, f),
         NEW r \in LiveOut(p, c, f, exit, n), r \notin MustWrite(c, p[f][n])
  PROVE  r \in LiveIn(p, c, f, exit, n)
BY LiveFixed DEF LiveIn, LiveOut, LiveSweep

LEMMA LiveFlow ==
  ASSUME NEW p, NEW c, NEW f, NEW exit, NEW n, NEW m \in Flow(p, f, n),
         NEW r \in LiveIn(p, c, f, exit, m)
  PROVE  r \in LiveOut(p, c, f, exit, n)
BY DEF LiveIn, LiveOut, WantedAfter

LEMMA LiveAtEnd ==
  ASSUME NEW p, NEW c, NEW f, NEW exit \in SUBSET Register, NEW n, Flow(p, f, n) = {}
  PROVE  exit \subseteq LiveOut(p, c, f, exit, n)
BY DEF LiveOut, WantedAfter

\* More is live if more is wanted at the end or more is read by callees.
LEMMA LiveMonotone ==
  ASSUME NEW p, NEW c, NEW c2, NEW f, NEW exit, NEW exit2,
         exit \subseteq exit2,
         \A n \in Nodes(p, f) : /\ Needs(c, p[f][n]) \subseteq Needs(c2, p[f][n])
                                /\ MustWrite(c, p[f][n]) = MustWrite(c2, p[f][n])
  PROVE  /\ \A r : LiveNodes(p, c, f, exit, r) \subseteq LiveNodes(p, c2, f, exit2, r)
         /\ \A n : LiveIn(p, c, f, exit, n) \subseteq LiveIn(p, c2, f, exit2, n)
         /\ \A n : LiveOut(p, c, f, exit, n) \subseteq LiveOut(p, c2, f, exit2, n)
<1>1. ASSUME NEW r PROVE LiveNodes(p, c, f, exit, r) \subseteq LiveNodes(p, c2, f, exit2, r)
  <2>1. ASSUME NEW S PROVE LiveSweep(p, c, f, exit, r, S) \subseteq LiveSweep(p, c2, f, exit2, r, S)
    BY DEF LiveSweep, WantedAfter
  <2> QED BY <2>1 DEF LiveNodes
<1>2. \A n : LiveIn(p, c, f, exit, n) \subseteq LiveIn(p, c2, f, exit2, n)
  BY <1>1 DEF LiveIn
<1>3. \A n : LiveOut(p, c, f, exit, n) \subseteq LiveOut(p, c2, f, exit2, n)
  BY <1>1 DEF LiveOut, WantedAfter
<1> QED BY <1>1, <1>2, <1>3

\* What is live at the entry is read by the contract, or wanted at the end
\* and not written on every path.
LEMMA LiveAtEntry ==
  ASSUME NEW p, NEW c, PathsCounted(p, c), Settled(p, c), NEW f \in Function, NEW exit
  PROVE  LiveIn(p, c, f, exit, Entry) \subseteq c[f].reads \cup (exit \ c[f].must)
<1>0. p \in Programs  BY DEF Settled
<1> SUFFICES ASSUME NEW r \in LiveIn(p, c, f, exit, Entry),
                    r \notin c[f].reads, r \in exit => r \in c[f].must
             PROVE  FALSE
  OBVIOUS
<1> DEFINE S == {n \in Nodes(p, f) : r \in Certain(p, c, f, n)}
<1>1. r \in Register /\ Entry \in LiveNodes(p, c, f, exit, r)
  BY DEF LiveIn
<1>2. LiveSweep(p, c, f, exit, r, S) \subseteq S
  <2> SUFFICES ASSUME NEW n \in LiveSweep(p, c, f, exit, r, S) PROVE r \in Certain(p, c, f, n)
    BY DEF LiveSweep
  <2>0. n \in Nodes(p, f)  BY DEF LiveSweep
  <2>1. CASE r \in Needs(c, p[f][n])
    <3>1. r \in Reads(c, p[f][n])  BY <2>1 DEF Needs, Reads
    <3> QED BY <3>1, <2>0, <1>1, ReadsCounted
  <2>2. CASE /\ r \notin MustWrite(c, p[f][n])
             /\ WantedAfter(p, f, exit, r, S, n)
    <3>1. CASE Flow(p, f, n) = {}
      <4>1. r \in c[f].must  BY <2>2, <3>1 DEF WantedAfter
      <4> QED BY <4>1, <2>0, <2>2, <3>1, MustAtEnd
    <3>2. CASE Flow(p, f, n) # {}
      <4>1. PICK m \in Flow(p, f, n) : r \in Certain(p, c, f, m)
        BY <2>2, <3>2 DEF WantedAfter
      <4> QED BY <1>0, <2>0, <2>2, <4>1, CertainFlow
    <3> QED BY <3>1, <3>2
  <2> QED BY <2>1, <2>2 DEF LiveSweep
<1>3. Entry \in S
  BY <1>1, <1>2 DEF LiveNodes
<1> QED BY <1>0, <1>3, NothingCertainAtEntry

----------------------------------------------------------------------------
(***************************************************************************)
(* The rounds.                                                             *)
(***************************************************************************)

\* The analysis of a function looks at the contracts of its callees only.
LEMMA OnlyCalleesCount ==
  ASSUME NEW p \in Programs, NEW f \in Function,
         NEW c \in [Function -> Contract], NEW c2 \in [Function -> Contract],
         \A g \in Function : g \in Callees(p, f) => c[g] = c2[g]
  PROVE  Analyze(p, c, f) = Analyze(p, c2, f)
<1>1. \A n \in Nodes(p, f) : /\ Reads(c, p[f][n]) = Reads(c2, p[f][n])
                             /\ MayWrite(c, p[f][n]) = MayWrite(c2, p[f][n])
                             /\ MustWrite(c, p[f][n]) = MustWrite(c2, p[f][n])
  <2> SUFFICES ASSUME NEW n \in Nodes(p, f)
               PROVE  /\ Reads(c, p[f][n]) = Reads(c2, p[f][n])
                      /\ MayWrite(c, p[f][n]) = MayWrite(c2, p[f][n])
                      /\ MustWrite(c, p[f][n]) = MustWrite(c2, p[f][n])
    OBVIOUS
  <2>1. DOMAIN c = Function /\ DOMAIN c2 = Function /\ p[f][n].callee \in Callees(p, f)
    BY DEF Callees
  <2> QED BY <2>1 DEF Reads, MayWrite, MustWrite
<1>2. \A r, S : DefiniteSweep(p, c, f, r, S) = DefiniteSweep(p, c2, f, r, S)
  BY <1>1 DEF DefiniteSweep
<1>3. \A r : DefiniteOut(p, c, f, r) = DefiniteOut(p, c2, f, r)
  BY <1>2 DEF DefiniteOut
<1>4. \A n : DefiniteIn(p, c, f, n) = DefiniteIn(p, c2, f, n)
  BY <1>3 DEF DefiniteIn
<1>5. Analyze(p, c, f).reads = Analyze(p, c2, f).reads
  BY <1>1, <1>4 DEF Analyze
<1>6. Analyze(p, c, f).may = Analyze(p, c2, f).may
  BY <1>1 DEF Analyze
<1>7. Analyze(p, c, f).must = Analyze(p, c2, f).must
  BY <1>3 DEF Analyze
<1> QED BY <1>5, <1>6, <1>7 DEF Analyze

LEMMA AnalyzeType ==
  ASSUME NEW p, NEW c, NEW f PROVE Analyze(p, c, f) \in Contract
BY DEF Analyze, Contract

\* What is always written may be written, if that holds for the callees.
LEMMA AlwaysIsSometimes ==
  ASSUME NEW p, NEW c, NEW f,
         \A g \in DOMAIN c : c[g].must \subseteq c[g].may
  PROVE  Analyze(p, c, f).must \subseteq Analyze(p, c, f).may
<1> SUFFICES ASSUME NEW r \in Analyze(p, c, f).must, r \notin Analyze(p, c, f).may PROVE FALSE
  OBVIOUS
<1>1. r \in Register /\ \E n \in Exits(p, f) : n \in DefiniteOut(p, c, f, r)
  BY DEF Analyze
<1>2. \A n \in Nodes(p, f) : r \notin MustWrite(c, p[f][n])
  <2>1. \A n \in Nodes(p, f) : r \notin MayWrite(c, p[f][n])
    BY <1>1 DEF Analyze
  <2> QED BY <2>1 DEF MayWrite, MustWrite
<1>3. DefiniteSweep(p, c, f, r, {}) = {}
  BY <1>2 DEF DefiniteSweep, WrittenBefore
<1>4. DefiniteOut(p, c, f, r) = {}
  BY <1>3 DEF DefiniteOut
<1> QED BY <1>1, <1>4

\* Nothing but the pending functions may be out of step.
RoundsInv ==
  /\ stack # <<>> => phase = "run"
  /\ phase = "run" => pending = {}
  /\ phase # "alone" =>
       \A f \in Function : /\ contract[f].must \subseteq contract[f].may
                           /\ f \notin pending => contract[f] = Analyze(code, contract, f)

AnalysisTypes ==
  /\ code \in Programs
  /\ phase \in {"alone", "rounds", "run"}
  /\ phase = "alone" => contract = NoContracts /\ pending = Function
  /\ phase # "alone" => contract \in [Function -> Contract]
  /\ pending \subseteq Function

AbiInv == AnalysisTypes /\ RoundsInv

LEMMA AbiInvInitially == Init => AbiInv
BY DEF Init, AbiInit, AbiInv, AnalysisTypes, RoundsInv

LEMMA AloneKeepsAbiInv ==
  ASSUME AbiInv, AnalyzeAlone, stack' = stack PROVE AbiInv'
<1>1. stack = <<>> /\ contract' \in [Function -> Contract]
      /\ \A f \in Function : contract'[f] = Analyze(code, NoContracts, f)
  BY AnalyzeType DEF AbiInv, AnalysisTypes, RoundsInv, AnalyzeAlone
<1>2. \A g \in DOMAIN NoContracts : NoContracts[g].must \subseteq NoContracts[g].may
  BY DEF NoContracts
<1>3. \A f \in Function : contract'[f].must \subseteq contract'[f].may
  BY <1>1, <1>2, AlwaysIsSometimes
<1>4. pending' = pending
  BY DEF AnalyzeAlone
<1> QED
  BY <1>1, <1>3, <1>4 DEF AbiInv, AnalysisTypes, RoundsInv, AnalyzeAlone

LEMMA RoundKeepsAbiInv ==
  ASSUME AbiInv, Round, stack' = stack PROVE AbiInv'
<1>1. PICK updated \in SUBSET pending :
        /\ \A f \in pending : f \in updated <=> Analyze(code, contract, f) # contract[f]
        /\ contract' = [f \in Function |-> IF f \in updated THEN Analyze(code, contract, f)
                                                             ELSE contract[f]]
        /\ pending' = {f \in Function : Callees(code, f) \cap updated # {}}
        /\ phase' = IF updated = {} THEN "run" ELSE "rounds"
  <2> DEFINE found == [f \in pending |-> Analyze(code, contract, f)]
             updated == {f \in pending : found[f] # contract[f]}
  <2>1. \A f \in pending : found[f] = Analyze(code, contract, f)
    OBVIOUS
  <2>2. updated \subseteq pending
    OBVIOUS
  <2>3. /\ contract' = [f \in Function |-> IF f \in updated THEN found[f] ELSE contract[f]]
        /\ pending' = {f \in Function : Callees(code, f) \cap updated # {}}
        /\ phase' = IF updated = {} THEN "run" ELSE "rounds"
    BY DEF Round
  <2> HIDE DEF found
  <2>4. contract' = [f \in Function |-> IF f \in updated THEN Analyze(code, contract, f)
                                                         ELSE contract[f]]
    BY <2>1, <2>2, <2>3
  <2> QED BY <2>1, <2>2, <2>3, <2>4
<1>2. /\ phase = "rounds" /\ code' = code /\ code \in Programs
      /\ contract \in [Function -> Contract] /\ pending \subseteq Function /\ stack = <<>>
  BY DEF Round, AbiInv, AnalysisTypes, RoundsInv
<1>3. contract' \in [Function -> Contract]
  BY <1>1, <1>2, AnalyzeType
<1>4. ASSUME NEW f \in Function
      PROVE  contract'[f].must \subseteq contract'[f].may
  <2>1. Analyze(code, contract, f).must \subseteq Analyze(code, contract, f).may
    BY <1>2, AlwaysIsSometimes DEF AbiInv, RoundsInv
  <2> QED BY <1>1, <1>2, <2>1 DEF AbiInv, RoundsInv
<1>5. ASSUME NEW f \in Function
      PROVE  contract'[f] = Analyze(code, contract, f)
  BY <1>1, <1>2 DEF AbiInv, RoundsInv
<1>6. ASSUME NEW f \in Function, f \notin pending'
      PROVE  contract'[f] = Analyze(code, contract', f)
  <2>1. \A g \in Function : g \in Callees(code, f) => contract'[g] = contract[g]
    BY <1>1, <1>6
  <2>2. Analyze(code, contract, f) = Analyze(code, contract', f)
    BY <1>2, <1>3, <2>1, OnlyCalleesCount
  <2> QED BY <1>5, <2>2
<1>7. phase' = "run" => pending' = {}
  BY <1>1
<1> QED
  BY <1>1, <1>2, <1>3, <1>4, <1>6, <1>7 DEF AbiInv, AnalysisTypes, RoundsInv

LEMMA AbiInvKept ==
  ASSUME AbiInv, [Next]_vars PROVE AbiInv'
<1>1. ASSUME UNCHANGED abiVars, stack' # <<>> => phase = "run" PROVE AbiInv'
  BY <1>1 DEF abiVars, AbiInv, AnalysisTypes, RoundsInv
<1>2. CASE AnalyzeAlone /\ UNCHANGED stack  BY <1>2, AloneKeepsAbiInv
<1>3. CASE Round /\ UNCHANGED stack  BY <1>3, RoundKeepsAbiInv
<1>4. CASE \E f \in Function : EnterPublic(f)  BY <1>1, <1>4 DEF EnterPublic
<1>5. CASE LeavePublic  BY <1>1, <1>5 DEF LeavePublic
<1>6. CASE Execute  BY <1>1, <1>6 DEF Execute, AbiInv, RoundsInv
<1>7. CASE Call  BY <1>1, <1>7 DEF Call, AbiInv, RoundsInv
<1>8. CASE Return  BY <1>1, <1>8 DEF Return, AbiInv, RoundsInv
<1>9. CASE UNCHANGED vars
  BY <1>1, <1>9 DEF vars, abiVars, AbiInv, RoundsInv
<1> QED BY <1>2, <1>3, <1>4, <1>5, <1>6, <1>7, <1>8, <1>9 DEF Next

\* When the rounds end, every contract is the one its function has under the
\* contracts of its callees, whatever the calls between them.
THEOREM WorklistExact == Spec => WorklistIsExact
<1>1. ASSUME AbiInv', phase' = "run"
      PROVE  \A f \in Function : contract'[f] = Analyze(code', contract', f)
  BY <1>1 DEF AbiInv, RoundsInv
<1>2. AbiInv' => [phase = "rounds" /\ phase' = "run" =>
                    \A f \in Function : contract'[f] = Analyze(code', contract', f)]_abiVars
  BY <1>1
<1> QED
  BY <1>2, AbiInvInitially, AbiInvKept, PTL DEF Spec, WorklistIsExact

----------------------------------------------------------------------------
(***************************************************************************)
(* The calls.                                                              *)
(***************************************************************************)

LEMMA RunIsSettled == AbiInv /\ phase = "run" => Settled(code, contract)
BY DEF AbiInv, AnalysisTypes, RoundsInv, Settled

\* What a frame has done is in its contract, and it has done what the
\* analysis takes for certain.
Accounted(frame) ==
  /\ frame.at # Returned =>
       /\ frame.at \in Nodes(code, frame.fn)
       /\ Certain(code, contract, frame.fn, frame.at) \subseteq frame.written
  /\ frame.written \subseteq contract[frame.fn].may
  /\ frame.exposed \subseteq contract[frame.fn].reads
  /\ frame.wanted \subseteq frame.outs
  /\ frame.outs \subseteq contract[frame.fn].may

\* The innermost frame holds what is live, given what its caller wants.
Running(frame) ==
  IF frame.at = Returned
  THEN /\ contract[frame.fn].must \subseteq frame.written
       /\ frame.wanted \subseteq frame.good
  ELSE LiveIn(code, contract, frame.fn, frame.wanted, frame.at) \subseteq frame.good

\* A frame that waits for a callee holds what is live after the call and
\* the callee cannot write.
Waiting(frame, callee) ==
  LET liveAfter == LiveOut(code, contract, frame.fn, frame.wanted, frame.at)
  IN  /\ frame.at # Returned
      /\ At(frame).callee = callee.fn
      /\ At(frame).defs \subseteq frame.written
      /\ callee.wanted = contract[callee.fn].may \cap liveAfter
      /\ liveAfter \ contract[callee.fn].may \subseteq frame.good

ChainOK(s) ==
  /\ s \in Seq(Frame)
  /\ \A k \in 1 .. Len(s) : Accounted(s[k])
  /\ \A k \in 1 .. Len(s) - 1 : Waiting(s[k], s[k + 1])
  /\ s # <<>> => s[1].wanted = contract[s[1].fn].may

FramesOK(s) == ChainOK(s) /\ (s # <<>> => Running(s[Len(s)]))

StackInv == FramesOK(stack)

IInv == AbiInv /\ StackInv

\* Where a frame goes on after an instruction it has what it needs, if it
\* holds what is live after that instruction.
LEMMA GoesOn ==
  ASSUME PathsCounted(code, contract), Settled(code, contract),
         NEW f \in Function, NEW n \in Nodes(code, f), NEW m \in Onwards(f, n),
         NEW wanted \in SUBSET Register, NEW good, NEW written,
         LiveOut(code, contract, f, wanted, n) \subseteq good,
         MustWrite(contract, code[f][n]) \subseteq written,
         Certain(code, contract, f, n) \subseteq written
  PROVE  /\ m # Returned => /\ m \in Nodes(code, f)
                            /\ LiveIn(code, contract, f, wanted, m) \subseteq good
                            /\ Certain(code, contract, f, m) \subseteq written
         /\ m = Returned => /\ wanted \subseteq good
                            /\ contract[f].must \subseteq written
<1>0. code \in Programs  BY DEF Settled
<1>1. CASE Flow(code, f, n) = {}
  <2>1. m = Returned  BY <1>1 DEF Onwards
  <2>2. wanted \subseteq good  BY <1>1, LiveAtEnd
  <2>3. contract[f].must \subseteq written  BY <1>1, MustAtEnd
  <2> QED BY <2>1, <2>2, <2>3
<1>2. CASE Flow(code, f, n) # {}
  <2>1. m \in Flow(code, f, n)  BY <1>2 DEF Onwards
  <2>2. m \in Nodes(code, f) /\ m # Returned
    BY <1>0, <2>1, ProgramType DEF Returned
  <2>3. LiveIn(code, contract, f, wanted, m) \subseteq good  BY <2>1, LiveFlow
  <2>4. Certain(code, contract, f, m) \subseteq written  BY <1>0, <2>1, CertainFlow
  <2> QED BY <2>2, <2>3, <2>4
<1> QED BY <1>1, <1>2

\* Every interface passes what the callee needs for what is wanted of it
\* and returns what is wanted, and that is all the callee may write.
LEMMA InterfacesSuffice ==
  ASSUME PathsCounted(code, contract), Settled(code, contract),
         NEW f \in Function, NEW n \in Nodes(code, f), code[f][n].callee \in Function,
         NEW exit \in SUBSET Register, exit \subseteq contract[f].may,
         NEW interface \in Interfaces(f, n)
  PROVE  LET h == code[f][n].callee
             wanted == contract[h].may \cap LiveOut(code, contract, f, exit, n)
         IN  /\ wanted \subseteq interface.outs
             /\ interface.outs \subseteq contract[h].may
             /\ LiveIn(code, contract, h, wanted, Entry) \subseteq interface.ins
<1> DEFINE h == code[f][n].callee
           wanted == contract[h].may \cap LiveOut(code, contract, f, exit, n)
           site == contract[h].may \cap LiveOut(code, contract, f, contract[f].may, n)
<1>1. DOMAIN contract = Function /\ contract[h] \in Contract
  BY DEF Settled
<1>2. wanted \subseteq site
  <2>1. \A m \in Nodes(code, f) :
          /\ Needs(contract, code[f][m]) \subseteq Needs(contract, code[f][m])
          /\ MustWrite(contract, code[f][m]) = MustWrite(contract, code[f][m])
    OBVIOUS
  <2>2. LiveOut(code, contract, f, exit, n) \subseteq LiveOut(code, contract, f, contract[f].may, n)
    BY <2>1, LiveMonotone
  <2> QED BY <2>2
<1>3. site \subseteq Demanded(code, contract, h)
  BY <1>1 DEF Demanded, Contract
<1>4. Demanded(code, contract, h) \subseteq contract[h].may
  BY DEF Demanded
<1>5. ASSUME NEW outs, wanted \subseteq outs
      PROVE  LiveIn(code, contract, h, wanted, Entry) \subseteq NativeEntry(h, outs).ins
  <2>1. DOMAIN SeededContracts = Function
    BY DEF SeededContracts
  <2>2. \A g \in Function : /\ contract[g].reads \subseteq SeededContracts[g].reads
                            /\ contract[g].must = SeededContracts[g].must
    <3> SUFFICES ASSUME NEW g \in Function
                 PROVE  /\ contract[g].reads \subseteq SeededContracts[g].reads
                        /\ contract[g].must = SeededContracts[g].must
      OBVIOUS
    <3>1. contract[g] \in Contract  BY DEF Settled
    <3> QED BY <3>1 DEF SeededContracts, Contract
  <2>3. \A m \in Nodes(code, h) :
          /\ Needs(contract, code[h][m]) \subseteq Needs(SeededContracts, code[h][m])
          /\ MustWrite(contract, code[h][m]) = MustWrite(SeededContracts, code[h][m])
    <3> HIDE DEF h
    <3> QED BY <1>1, <2>1, <2>2 DEF Needs, MustWrite
  <2> HIDE DEF wanted, h
  <2>4. LiveIn(code, contract, h, wanted, Entry) \subseteq LiveIn(code, SeededContracts, h, outs, Entry)
    BY <1>5, <2>3, LiveMonotone
  <2> QED BY <2>4 DEF NativeEntry
<1>6. LiveIn(code, contract, h, wanted, Entry) \subseteq ResidentBoundary(h).ins
  <2>1. LiveIn(code, contract, h, wanted, Entry) \subseteq contract[h].reads \cup (wanted \ contract[h].must)
    BY LiveAtEntry
  <2> QED BY <2>1 DEF ResidentBoundary
<1>7. \/ interface = NativeEntry(h, Demanded(code, contract, h))
      \/ interface = NativeEntry(h, site)
      \/ interface = ResidentBoundary(h)
  BY DEF Interfaces
<1>8. \A outs : NativeEntry(h, outs).outs = outs
  BY DEF NativeEntry
<1>9. ResidentBoundary(h).outs = contract[h].may
  BY DEF ResidentBoundary
<1> HIDE DEF wanted, site
<1>10. /\ wanted \subseteq interface.outs
       /\ interface.outs \subseteq contract[h].may
       /\ LiveIn(code, contract, h, wanted, Entry) \subseteq interface.ins
  <2>1. CASE interface = NativeEntry(h, Demanded(code, contract, h))
    BY <2>1, <1>2, <1>3, <1>4, <1>5, <1>8
  <2>2. CASE interface = NativeEntry(h, site)
    <3>1. site \subseteq contract[h].may  BY DEF site
    <3> QED BY <2>2, <3>1, <1>2, <1>5, <1>8
  <2>3. CASE interface = ResidentBoundary(h)
    <3>1. wanted \subseteq contract[h].may  BY DEF wanted
    <3> QED BY <2>3, <3>1, <1>6, <1>9
  <2> QED BY <1>7, <2>1, <2>2, <2>3
<1> QED BY <1>10 DEF wanted

LEMMA TopFrame ==
  ASSUME IInv, stack # <<>>
  PROVE  /\ phase = "run" /\ Settled(code, contract) /\ code \in Programs
         /\ Len(stack) \in Nat \ {0} /\ DOMAIN stack = 1 .. Len(stack)
         /\ \A k \in 1 .. Len(stack) : stack[k] \in Frame
         /\ Len(stack) \in 1 .. Len(stack) /\ Top = stack[Len(stack)]
         /\ Accounted(Top) /\ Running(Top)
<1>1. stack \in Seq(Frame)  BY DEF IInv, StackInv, FramesOK, ChainOK
<1>2. Len(stack) \in Nat \ {0} /\ DOMAIN stack = 1 .. Len(stack)
      /\ \A k \in 1 .. Len(stack) : stack[k] \in Frame
  BY <1>1
<1>3. phase = "run" /\ code \in Programs
  BY DEF IInv, AbiInv, AnalysisTypes, RoundsInv
<1> QED BY <1>2, <1>3, RunIsSettled DEF IInv, StackInv, FramesOK, ChainOK, Top

\* A step that leaves the code and the contracts alone.
LEMMA CarriedOver ==
  ASSUME UNCHANGED abiVars, FramesOK(stack') PROVE StackInv'
<1>1. code' = code /\ contract' = contract  BY DEF abiVars
<1>2. ASSUME NEW k \in 1 .. Len(stack'), Accounted(stack'[k]) PROVE Accounted(stack[k])'
  BY <1>1, <1>2 DEF Accounted
<1>3. ASSUME NEW k \in 1 .. Len(stack') - 1, Waiting(stack'[k], stack'[k + 1])
      PROVE  Waiting(stack[k], stack[k + 1])'
  BY <1>1, <1>3 DEF Waiting, At
<1>4. ASSUME stack' # <<>>, Running(stack'[Len(stack')]) PROVE Running(stack[Len(stack)])'
  BY <1>1, <1>4 DEF Running
<1> QED BY <1>1, <1>2, <1>3, <1>4 DEF StackInv, FramesOK, ChainOK

\* A chain of calls stays one when its innermost frame is replaced by one
\* of the same call,
LEMMA TopChanges ==
  ASSUME NEW s, ChainOK(s), s # <<>>, NEW frame \in Frame,
         frame.fn = s[Len(s)].fn, frame.wanted = s[Len(s)].wanted,
         Accounted(frame)
  PROVE  LET t == [s EXCEPT ![Len(s)] = frame]
         IN  ChainOK(t) /\ Len(t) = Len(s) /\ t[Len(t)] = frame
<1> DEFINE t == [s EXCEPT ![Len(s)] = frame]
<1>1. s \in Seq(Frame) /\ Len(s) \in Nat \ {0}  BY DEF ChainOK
<1>2. /\ t \in Seq(Frame) /\ Len(t) = Len(s)
      /\ \A k \in 1 .. Len(s) : t[k] = IF k = Len(s) THEN frame ELSE s[k]
  BY <1>1, ExceptSeq
<1> HIDE DEF t
<1>3. \A k \in 1 .. Len(t) : Accounted(t[k])
  BY <1>1, <1>2 DEF ChainOK
<1>4. ASSUME NEW k \in 1 .. Len(t) - 1 PROVE Waiting(t[k], t[k + 1])
  <2>1. Waiting(s[k], s[k + 1]) /\ t[k] = s[k]
    BY <1>1, <1>2 DEF ChainOK
  <2>2. t[k + 1].fn = s[k + 1].fn /\ t[k + 1].wanted = s[k + 1].wanted
    BY <1>1, <1>2
  <2> QED BY <2>1, <2>2 DEF Waiting
<1>5. t[1].wanted = contract[t[1].fn].may
  <2>1. s[1].wanted = contract[s[1].fn].may  BY DEF ChainOK
  <2>2. t[1].wanted = s[1].wanted /\ t[1].fn = s[1].fn  BY <1>1, <1>2
  <2> QED BY <2>1, <2>2
<1>6. ChainOK(t)  BY <1>2, <1>3, <1>4, <1>5 DEF ChainOK
<1>7. t[Len(t)] = frame  BY <1>1, <1>2
<1> QED BY <1>2, <1>6, <1>7 DEF t

\* when a frame is added that its innermost frame waits for,
LEMMA Pushed ==
  ASSUME NEW s, ChainOK(s), NEW frame \in Frame, Accounted(frame),
         s # <<>> => Waiting(s[Len(s)], frame),
         s = <<>> => frame.wanted = contract[frame.fn].may
  PROVE  LET t == Append(s, frame)
         IN  ChainOK(t) /\ t # <<>> /\ t[Len(t)] = frame
<1> DEFINE t == Append(s, frame)
<1>1. s \in Seq(Frame) /\ Len(s) \in Nat  BY DEF ChainOK
<1>2. /\ t \in Seq(Frame) /\ Len(t) = Len(s) + 1 /\ t # <<>>
      /\ \A k \in 1 .. Len(s) : t[k] = s[k]
      /\ t[Len(s) + 1] = frame
  BY <1>1, AppendProperties
<1> HIDE DEF t
<1>3. \A k \in 1 .. Len(t) : Accounted(t[k])
  BY <1>1, <1>2 DEF ChainOK
<1>4. ASSUME NEW k \in 1 .. Len(t) - 1 PROVE Waiting(t[k], t[k + 1])
  <2>1. CASE k = Len(s)
    BY <2>1, <1>1, <1>2
  <2>2. CASE k # Len(s)
    BY <2>2, <1>1, <1>2 DEF ChainOK
  <2> QED BY <2>1, <2>2
<1>5. t[1].wanted = contract[t[1].fn].may
  BY <1>1, <1>2 DEF ChainOK
<1>6. ChainOK(t)  BY <1>2, <1>3, <1>4, <1>5 DEF ChainOK
<1> QED BY <1>1, <1>2, <1>6 DEF t

\* and when frames are taken off its end.
LEMMA Popped ==
  ASSUME NEW s, ChainOK(s), NEW n \in 0 .. Len(s)
  PROVE  LET t == SubSeq(s, 1, n)
         IN  ChainOK(t) /\ Len(t) = n /\ \A k \in 1 .. n : t[k] = s[k]
<1> DEFINE t == SubSeq(s, 1, n)
<1>1. s \in Seq(Frame) /\ Len(s) \in Nat  BY DEF ChainOK
<1>2. t \in Seq(Frame) /\ Len(t) = n /\ \A k \in 1 .. n : t[k] = s[k]
  <2>1. 1 \in Int /\ n \in Int /\ \A i \in 1 .. n : s[i] \in Frame
    BY <1>1
  <2>2. /\ t \in Seq(Frame)
        /\ Len(t) = IF 1 <= n THEN n - 1 + 1 ELSE 0
        /\ \A i \in 1 .. n - 1 + 1 : t[i] = s[1 + i - 1]
    BY <2>1, SubSeqProperties
  <2> HIDE DEF t
  <2>3. \A i \in 1 .. n : t[i] = s[i]
    BY <2>2
  <2> QED BY <2>2, <2>3
<1> HIDE DEF t
<1>3. \A k \in 1 .. Len(t) : Accounted(t[k])
  BY <1>1, <1>2 DEF ChainOK
<1>4. ASSUME NEW k \in 1 .. Len(t) - 1 PROVE Waiting(t[k], t[k + 1])
  BY <1>1, <1>2 DEF ChainOK
<1>5. t # <<>> => t[1].wanted = contract[t[1].fn].may
  BY <1>1, <1>2 DEF ChainOK
<1>6. ChainOK(t)  BY <1>2, <1>3, <1>4, <1>5 DEF ChainOK
<1> QED BY <1>2, <1>6 DEF t

----------------------------------------------------------------------------
(***************************************************************************)
(* The steps of the calls.                                                 *)
(***************************************************************************)

LEMMA EnterKeeps ==
  ASSUME IInv, NEW f \in Function, EnterPublic(f) PROVE FramesOK(stack')
<1> DEFINE frame == [fn |-> f, at |-> Entry, good |-> Register, written |-> {}, exposed |-> {},
                     outs |-> contract[f].may, wanted |-> contract[f].may]
<1>1. phase = "run" /\ stack = <<>> /\ stack' = <<frame>>
  BY DEF EnterPublic
<1>2. Settled(code, contract) /\ code \in Programs
  BY <1>1, RunIsSettled DEF IInv, AbiInv, AnalysisTypes
<1>3. contract[f] \in Contract  BY <1>2 DEF Settled
<1>4. frame \in Frame  BY <1>3 DEF Frame, Contract, Entry
<1>5. Accounted(frame)
  BY <1>2, <1>3, ProgramType, NothingCertainAtEntry DEF Accounted, Contract
<1>6. Running(frame)  BY DEF Running, LiveIn, Entry, Returned
<1>7. ChainOK(stack)  BY DEF IInv, StackInv, FramesOK
<1> HIDE DEF frame
<1>8. frame.wanted = contract[frame.fn].may  BY DEF frame
<1>9. ChainOK(Append(stack, frame)) /\ Append(stack, frame) # <<>>
      /\ Append(stack, frame)[Len(Append(stack, frame))] = frame
  BY <1>1, <1>4, <1>5, <1>7, <1>8, Pushed
<1>10. stack' = Append(stack, frame)  BY <1>1
<1> QED BY <1>6, <1>9, <1>10 DEF FramesOK

LEMMA LeaveKeeps == ASSUME IInv, LeavePublic PROVE FramesOK(stack')
BY DEF LeavePublic, FramesOK, ChainOK

\* What a frame is that can make a step.
LEMMA RunningFrame ==
  ASSUME IInv, stack # <<>>, Top.at # Returned
  PROVE  LET i == At(Top)
         IN  /\ Top.fn \in Function /\ Top.at \in Nodes(code, Top.fn)
             /\ i \in Instruction /\ i = code[Top.fn][Top.at]
             /\ Top.wanted \in SUBSET Register /\ Top.wanted \subseteq contract[Top.fn].may
             /\ LiveIn(code, contract, Top.fn, Top.wanted, Top.at) \subseteq Top.good
             /\ Certain(code, contract, Top.fn, Top.at) \subseteq Top.written
             /\ DOMAIN contract = Function
             /\ \A g \in Function : contract[g] \in Contract
<1>1. /\ Settled(code, contract) /\ code \in Programs
      /\ Top \in Frame /\ Accounted(Top) /\ Running(Top)
  BY TopFrame
<1>2. /\ Top.fn \in Function /\ Top.at \in Nodes(code, Top.fn)
      /\ Top.wanted \in SUBSET Register /\ Top.wanted \subseteq contract[Top.fn].may
      /\ LiveIn(code, contract, Top.fn, Top.wanted, Top.at) \subseteq Top.good
      /\ Certain(code, contract, Top.fn, Top.at) \subseteq Top.written
  BY <1>1 DEF Accounted, Running, Frame
<1>3. DOMAIN contract = Function /\ \A g \in Function : contract[g] \in Contract
  BY <1>1 DEF Settled
<1>4. code[Top.fn][Top.at] \in Instruction
  BY <1>1, <1>2, ProgramType
<1> QED BY <1>2, <1>3, <1>4 DEF At

LEMMA ExecuteKeeps ==
  ASSUME PathsCounted(code, contract), IInv, Execute PROVE FramesOK(stack')
<1> DEFINE i == At(Top)
           f == Top.fn
           n == Top.at
           good == Top.good \cup i.defs
           written == Top.written \cup i.defs
           exposed == Top.exposed \cup (i.uses \ Top.written)
<1>1. stack # <<>> /\ n # Returned /\ i.callee = NoCall
  BY DEF Execute
<1>2. PICK m \in Onwards(f, n) :
        stack' = [stack EXCEPT ![Len(stack)] =
                   [Top EXCEPT !.at = m, !.good = @ \cup i.defs, !.written = @ \cup i.defs,
                               !.exposed = @ \cup (i.uses \ Top.written)]]
  BY DEF Execute
<1>3. /\ f \in Function /\ n \in Nodes(code, f) /\ i \in Instruction /\ i = code[f][n]
      /\ Top.wanted \in SUBSET Register
      /\ LiveIn(code, contract, f, Top.wanted, n) \subseteq Top.good
      /\ Certain(code, contract, f, n) \subseteq Top.written
      /\ DOMAIN contract = Function
      /\ \A g \in Function : contract[g] \in Contract
  BY <1>1, RunningFrame
<1>4. /\ Settled(code, contract) /\ code \in Programs /\ Top \in Frame /\ Accounted(Top)
      /\ Top = stack[Len(stack)] /\ Len(stack) \in DOMAIN stack
  BY <1>1, TopFrame
<1>5. MustWrite(contract, i) = i.defs /\ Reads(contract, i) = i.uses
  BY <1>1, <1>3, NoCallAssumption DEF MustWrite, Reads
<1> DEFINE frame == [Top EXCEPT !.at = m, !.good = good, !.written = written,
                                !.exposed = exposed]
<1>6. stack' = [stack EXCEPT ![Len(stack)] = frame]
  BY <1>2, <1>4
<1>7. i.defs \subseteq Register /\ i.uses \subseteq Register
  BY <1>3 DEF Instruction
<1>8. m \in Nat
  BY <1>3, <1>4, ProgramType DEF Onwards, Returned
<1>9. /\ frame \in Frame
      /\ frame.fn = f /\ frame.wanted = Top.wanted /\ frame.outs = Top.outs
      /\ frame.at = m /\ frame.good = good /\ frame.written = written
      /\ frame.exposed = exposed
  BY <1>4, <1>7, <1>8 DEF Frame
<1>10. LiveOut(code, contract, f, Top.wanted, n) \subseteq good
  <2>1. ASSUME NEW r \in LiveOut(code, contract, f, Top.wanted, n), r \notin i.defs
        PROVE  r \in LiveIn(code, contract, f, Top.wanted, n)
    <3> HIDE DEF i, f, n
    <3> QED BY <2>1, <1>3, <1>5, LiveThrough
  <2> QED BY <2>1, <1>3
<1>11. exposed \subseteq contract[f].reads
  <2>1. ASSUME NEW r \in i.uses, r \notin Top.written PROVE r \in contract[f].reads
    <3>1. r \in Register /\ r \in Reads(contract, code[f][n])
          /\ r \notin Certain(code, contract, f, n)
      BY <2>1, <1>3, <1>5, <1>7
    <3> HIDE DEF i, f, n
    <3> QED BY <3>1, <1>3, <1>4, ReadsCounted
  <2>2. Top.exposed \subseteq contract[f].reads  BY <1>4 DEF Accounted
  <2> QED BY <2>1, <2>2
<1>12. written \subseteq contract[f].may
  <2>1. i.defs \subseteq contract[f].may
    <3> HIDE DEF i, f, n
    <3> QED BY <1>3, <1>4, WritesCounted
  <2>2. Top.written \subseteq contract[f].may  BY <1>4 DEF Accounted
  <2> QED BY <2>1, <2>2
<1>13. Top.wanted \subseteq Top.outs /\ Top.outs \subseteq contract[f].may
  BY <1>4 DEF Accounted
<1>14. MustWrite(contract, code[f][n]) \subseteq written
       /\ Certain(code, contract, f, n) \subseteq written
  BY <1>3, <1>5
<1> HIDE DEF i, f, n, good, written, exposed, frame
<1>15. /\ m # Returned => /\ m \in Nodes(code, f)
                          /\ LiveIn(code, contract, f, Top.wanted, m) \subseteq good
                          /\ Certain(code, contract, f, m) \subseteq written
       /\ m = Returned => /\ Top.wanted \subseteq good
                          /\ contract[f].must \subseteq written
  <2> DEFINE w == Top.wanted
  <2>1. w \in SUBSET Register /\ LiveOut(code, contract, f, w, n) \subseteq good
    BY <1>3, <1>10
  <2> HIDE DEF w
  <2>2. /\ f \in Function /\ n \in Nodes(code, f) /\ Settled(code, contract)
        /\ MustWrite(contract, code[f][n]) \subseteq written
        /\ Certain(code, contract, f, n) \subseteq written
    BY <1>3, <1>4, <1>14
  <2>3. /\ m # Returned => /\ m \in Nodes(code, f)
                           /\ LiveIn(code, contract, f, w, m) \subseteq good
                           /\ Certain(code, contract, f, m) \subseteq written
        /\ m = Returned => /\ w \subseteq good
                           /\ contract[f].must \subseteq written
    BY <2>1, <2>2, GoesOn
  <2> QED BY <2>3 DEF w
<1>16. Accounted(frame)
  BY <1>9, <1>11, <1>12, <1>13, <1>15 DEF Accounted
<1>17. Running(frame)
  BY <1>9, <1>15 DEF Running
<1>18. ChainOK(stack)  BY DEF IInv, StackInv, FramesOK
<1>19. frame.fn = stack[Len(stack)].fn /\ frame.wanted = stack[Len(stack)].wanted
  BY <1>4, <1>9 DEF f
<1>20. ChainOK(stack') /\ Len(stack') = Len(stack) /\ stack'[Len(stack')] = frame
  <2> DEFINE t == [stack EXCEPT ![Len(stack)] = frame]
  <2>1. ChainOK(t) /\ Len(t) = Len(stack) /\ t[Len(t)] = frame
    BY <1>1, <1>9, <1>16, <1>18, <1>19, TopChanges, ZenonT(60)
  <2> QED BY <2>1, <1>6
<1> QED BY <1>17, <1>20 DEF FramesOK

LEMMA CallKeeps ==
  ASSUME PathsCounted(code, contract), IInv, Call PROVE FramesOK(stack')
<1> DEFINE i == At(Top)
           f == Top.fn
           n == Top.at
           h == i.callee
           good == Top.good \cup i.defs
           written == Top.written \cup i.defs
           liveAfter == LiveOut(code, contract, f, Top.wanted, n)
           wanted == contract[h].may \cap liveAfter
           caller == [Top EXCEPT !.good = good, !.written = written]
<1>1. stack # <<>> /\ n # Returned /\ i.callee # NoCall
  BY DEF Call
<1>2. PICK interface \in Interfaces(f, n) :
        stack' = Append([stack EXCEPT ![Len(stack)] = caller],
                        [fn |-> h, at |-> Entry, good |-> interface.ins \cap caller.good,
                         written |-> {}, exposed |-> {}, outs |-> interface.outs,
                         wanted |-> wanted])
  BY DEF Call
<1> DEFINE callee == [fn |-> h, at |-> Entry, good |-> interface.ins \cap caller.good,
                      written |-> {}, exposed |-> {}, outs |-> interface.outs,
                      wanted |-> wanted]
<1>3. /\ f \in Function /\ n \in Nodes(code, f) /\ i \in Instruction /\ i = code[f][n]
      /\ Top.wanted \in SUBSET Register /\ Top.wanted \subseteq contract[f].may
      /\ LiveIn(code, contract, f, Top.wanted, n) \subseteq Top.good
      /\ Certain(code, contract, f, n) \subseteq Top.written
      /\ DOMAIN contract = Function
      /\ \A g \in Function : contract[g] \in Contract
  BY <1>1, RunningFrame
<1>4. /\ Settled(code, contract) /\ code \in Programs /\ Top \in Frame /\ Accounted(Top)
      /\ Top = stack[Len(stack)] /\ Len(stack) \in DOMAIN stack
  BY <1>1, TopFrame
<1>5. h \in Function /\ i.defs \subseteq Register /\ contract[h] \in Contract
  BY <1>1, <1>3 DEF Instruction
<1>6. /\ MustWrite(contract, i) = i.defs \cup contract[h].must
      /\ Needs(contract, i) = contract[h].reads \ i.defs
  BY <1>3, <1>5 DEF MustWrite, Needs
<1>7. contract[h].must \subseteq contract[h].may
  BY <1>4, <1>5 DEF Settled
<1>8. /\ wanted \subseteq interface.outs
      /\ interface.outs \subseteq contract[h].may
      /\ LiveIn(code, contract, h, wanted, Entry) \subseteq interface.ins
  <2> HIDE DEF i, f, n
  <2>1. h = code[f][n].callee  BY <1>3
  <2> QED BY <2>1, <1>3, <1>4, <1>5, InterfacesSuffice
<1>9. /\ caller \in Frame
      /\ caller.fn = f /\ caller.at = n /\ caller.wanted = Top.wanted /\ caller.outs = Top.outs
      /\ caller.good = good /\ caller.written = written /\ caller.exposed = Top.exposed
  BY <1>4, <1>5 DEF Frame
<1>10. /\ callee \in Frame
       /\ callee.fn = h /\ callee.at = Entry /\ callee.wanted = wanted
       /\ callee.outs = interface.outs /\ callee.good = interface.ins \cap caller.good
       /\ callee.written = {} /\ callee.exposed = {}
  <2>1. wanted \subseteq Register /\ interface.outs \subseteq Register
    BY <1>5, <1>8 DEF Contract
  <2>2. interface.ins \cap caller.good \subseteq Register
    BY <1>9 DEF Frame
  <2>3. Entry \in Nat  BY DEF Entry
  <2> HIDE DEF wanted, h, caller
  <2> QED BY <2>1, <2>2, <2>3, <1>5 DEF Frame
<1>11. ASSUME NEW r \in liveAfter, r \notin MustWrite(contract, i) PROVE r \in Top.good
  <2> HIDE DEF i, f, n
  <2> QED BY <1>11, <1>3, LiveThrough
<1>12. ASSUME NEW r \in contract[h].reads, r \notin i.defs PROVE r \in Top.good
  <2>1. r \in Needs(contract, code[f][n]) /\ r \in Register
    BY <1>12, <1>3, <1>5, <1>6 DEF Contract
  <2> HIDE DEF i, f, n
  <2> QED BY <2>1, <1>3, LiveNeeds
<1>13. LiveIn(code, contract, h, wanted, Entry) \subseteq good
  <2>1. LiveIn(code, contract, h, wanted, Entry) \subseteq contract[h].reads \cup (wanted \ contract[h].must)
    <3> HIDE DEF h, wanted
    <3> QED BY <1>4, <1>5, LiveAtEntry
  <2>2. contract[h].reads \subseteq good  BY <1>12
  <2>3. wanted \ contract[h].must \subseteq good  BY <1>6, <1>11
  <2> QED BY <2>1, <2>2, <2>3
<1>14. liveAfter \ contract[h].may \subseteq good
  BY <1>6, <1>7, <1>11
<1>15. i.defs \subseteq contract[f].may
  <2> HIDE DEF i, f, n
  <2> QED BY <1>3, <1>4, WritesCounted
<1>16. Accounted(caller)
  <2>1. /\ Top.written \subseteq contract[f].may /\ Top.exposed \subseteq contract[f].reads
        /\ Top.wanted \subseteq Top.outs /\ Top.outs \subseteq contract[f].may
    BY <1>4 DEF Accounted
  <2>2. Certain(code, contract, f, n) \subseteq written /\ written \subseteq contract[f].may
    BY <2>1, <1>3, <1>15
  <2> HIDE DEF caller, f, n, written
  <2> QED BY <2>1, <2>2, <1>3, <1>9 DEF Accounted
<1>17. Accounted(callee) /\ Running(callee)
  <2>1. Entry \in Nodes(code, h) /\ Certain(code, contract, h, Entry) = {} /\ Entry # Returned
    BY <1>4, <1>5, ProgramType, NothingCertainAtEntry DEF Entry, Returned
  <2>2. LiveIn(code, contract, h, wanted, Entry) \subseteq callee.good
    BY <1>8, <1>9, <1>10, <1>13
  <2> HIDE DEF callee, h, wanted, caller
  <2> QED BY <2>1, <2>2, <1>8, <1>10 DEF Accounted, Running
<1>18. Waiting(caller, callee)
  <2>1. At(caller) = i  BY <1>3, <1>9 DEF At
  <2>2. i.defs \subseteq written  OBVIOUS
  <2>3. h = i.callee /\ wanted = contract[h].may \cap LiveOut(code, contract, f, Top.wanted, n)
        /\ LiveOut(code, contract, f, Top.wanted, n) \ contract[h].may \subseteq good
    BY <1>14
  <2> HIDE DEF callee, h, wanted, caller, i, good, written, f, n
  <2> QED BY <2>1, <2>2, <2>3, <1>1, <1>9, <1>10 DEF Waiting
<1>19. ChainOK(stack)  BY DEF IInv, StackInv, FramesOK
<1>20. caller.fn = stack[Len(stack)].fn /\ caller.wanted = stack[Len(stack)].wanted
  BY <1>4, <1>9
<1> DEFINE s == [stack EXCEPT ![Len(stack)] = caller]
<1> HIDE DEF caller, callee
<1>21. ChainOK(s) /\ Len(s) = Len(stack) /\ s[Len(s)] = caller
  BY <1>1, <1>9, <1>16, <1>19, <1>20, TopChanges, ZenonT(60)
<1>22. s # <<>>  BY <1>1, <1>19 DEF ChainOK
<1>23. stack' = Append(s, callee)  BY <1>2 DEF callee, caller
<1> HIDE DEF s
<1>24. ChainOK(Append(s, callee)) /\ Append(s, callee) # <<>>
       /\ Append(s, callee)[Len(Append(s, callee))] = callee
  BY <1>10, <1>17, <1>18, <1>21, <1>22, Pushed, ZenonT(60)
<1> QED BY <1>17, <1>23, <1>24 DEF FramesOK

LEMMA ReturnKeeps ==
  ASSUME PathsCounted(code, contract), IInv, Return PROVE FramesOK(stack')
<1> DEFINE caller == stack[Len(stack) - 1]
           i == At(caller)
           f == caller.fn
           n == caller.at
           h == Top.fn
           good == (caller.good \ (Top.written \cup Top.outs)) \cup (Top.outs \cap Top.good)
           written == caller.written \cup Top.written
           exposed == caller.exposed \cup (Top.exposed \ caller.written)
           liveAfter == LiveOut(code, contract, f, caller.wanted, n)
           base == SubSeq(stack, 1, Len(stack) - 2)
<1>1. Len(stack) > 1 /\ Top.at = Returned /\ stack # <<>>
  BY DEF Return
<1>2. PICK m \in Onwards(f, n) :
        stack' = Append(base, [caller EXCEPT !.at = m, !.good = good, !.written = written,
                                             !.exposed = exposed])
  BY DEF Return
<1> DEFINE frame == [caller EXCEPT !.at = m, !.good = good, !.written = written,
                                   !.exposed = exposed]
<1>3. /\ Settled(code, contract) /\ code \in Programs /\ Top \in Frame
      /\ Accounted(Top) /\ Running(Top)
      /\ Top = stack[Len(stack)] /\ Len(stack) \in Nat \ {0}
      /\ \A k \in 1 .. Len(stack) : stack[k] \in Frame
  BY <1>1, TopFrame
<1>4. ChainOK(stack)  BY DEF IInv, StackInv, FramesOK
<1>5. caller \in Frame /\ Accounted(caller) /\ Waiting(caller, Top)
  <2>1. Len(stack) - 1 \in 1 .. Len(stack) - 1 /\ Len(stack) - 1 \in 1 .. Len(stack)
        /\ Len(stack) - 1 + 1 = Len(stack)
    BY <1>1, <1>3
  <2> QED BY <2>1, <1>3, <1>4 DEF ChainOK
<1> HIDE DEF caller, base
<1>6. /\ f \in Function /\ h \in Function /\ n \in Nodes(code, f) /\ i = code[f][n]
      /\ caller.wanted \in SUBSET Register
      /\ Certain(code, contract, f, n) \subseteq caller.written
      /\ i.callee = h /\ i.defs \subseteq caller.written
      /\ Top.wanted = contract[h].may \cap liveAfter
      /\ liveAfter \ contract[h].may \subseteq caller.good
  BY <1>3, <1>5 DEF Waiting, Accounted, Frame, At
<1>7. /\ contract[h].must \subseteq Top.written /\ Top.wanted \subseteq Top.good
      /\ Top.written \subseteq contract[h].may /\ Top.exposed \subseteq contract[h].reads
      /\ Top.wanted \subseteq Top.outs /\ Top.outs \subseteq contract[h].may
  BY <1>1, <1>3 DEF Running, Accounted
<1>8. liveAfter \subseteq good
  <2> SUFFICES ASSUME NEW r \in liveAfter PROVE r \in good  OBVIOUS
  <2>1. CASE r \in contract[h].may
    BY <2>1, <1>6, <1>7
  <2>2. CASE r \notin contract[h].may
    BY <2>2, <1>6, <1>7
  <2> QED BY <2>1, <2>2
<1>9. DOMAIN contract = Function /\ contract[h] \in Contract
  BY <1>3, <1>6 DEF Settled
<1>10. /\ MustWrite(contract, code[f][n]) = i.defs \cup contract[h].must
       /\ Reads(contract, code[f][n]) = contract[h].reads
  BY <1>6, <1>9 DEF MustWrite, Reads
<1>11. /\ MustWrite(contract, code[f][n]) \subseteq written
       /\ Certain(code, contract, f, n) \subseteq written
  BY <1>6, <1>7, <1>10
<1>12. exposed \subseteq contract[f].reads
  <2>1. ASSUME NEW r \in contract[h].reads, r \notin caller.written PROVE r \in contract[f].reads
    <3>1. r \in Register /\ r \in Reads(contract, code[f][n])
          /\ r \notin Certain(code, contract, f, n)
      BY <2>1, <1>6, <1>9, <1>10 DEF Contract
    <3> HIDE DEF i, f, n, h
    <3> QED BY <3>1, <1>3, <1>6, ReadsCounted
  <2>2. caller.exposed \subseteq contract[f].reads  BY <1>5 DEF Accounted
  <2> QED BY <2>1, <2>2, <1>7
<1>13. written \subseteq contract[f].may
  <2>1. contract[h].may \subseteq contract[f].may
    <3> HIDE DEF i, f, n, h
    <3>1. code[f][n].callee \in Function  BY <1>6
    <3>2. contract[code[f][n].callee].may \subseteq contract[f].may
      BY <3>1, <1>3, <1>6, WritesCounted
    <3> QED BY <3>2, <1>6
  <2>2. caller.written \subseteq contract[f].may  BY <1>5 DEF Accounted
  <2> QED BY <2>1, <2>2, <1>7
<1>14. caller.wanted \subseteq caller.outs /\ caller.outs \subseteq contract[f].may
  BY <1>5 DEF Accounted
<1>15. m \in Nat
  BY <1>3, <1>6, ProgramType DEF Onwards, Returned
<1>16. /\ frame \in Frame
       /\ frame.fn = f /\ frame.wanted = caller.wanted /\ frame.outs = caller.outs
       /\ frame.at = m /\ frame.good = good /\ frame.written = written
       /\ frame.exposed = exposed
  <2>1. caller \in Frame /\ Top \in Frame
    BY <1>3, <1>5
  <2>2. /\ good \in SUBSET Register /\ written \in SUBSET Register
        /\ exposed \in SUBSET Register
    BY <2>1 DEF Frame
  <2> HIDE DEF good, written, exposed
  <2> QED BY <2>1, <2>2, <1>15 DEF Frame
<1> HIDE DEF i, f, n, h, good, written, exposed, frame
<1>17. /\ m # Returned => /\ m \in Nodes(code, f)
                          /\ LiveIn(code, contract, f, caller.wanted, m) \subseteq good
                          /\ Certain(code, contract, f, m) \subseteq written
       /\ m = Returned => /\ caller.wanted \subseteq good
                          /\ contract[f].must \subseteq written
  <2>1. LiveOut(code, contract, f, caller.wanted, n) \subseteq good  BY <1>8
  <2> HIDE DEF liveAfter
  <2>2. /\ caller.wanted \in SUBSET Register /\ f \in Function /\ n \in Nodes(code, f)
        /\ Settled(code, contract) /\ Certain(code, contract, f, n) \subseteq written
        /\ MustWrite(contract, code[f][n]) \subseteq written
    BY <1>3, <1>6, <1>11
  <2> DEFINE w == caller.wanted
  <2>3. LiveOut(code, contract, f, w, n) \subseteq good /\ w \in SUBSET Register
    BY <2>1, <2>2
  <2> HIDE DEF w
  <2>4. /\ m # Returned => /\ m \in Nodes(code, f)
                           /\ LiveIn(code, contract, f, w, m) \subseteq good
                           /\ Certain(code, contract, f, m) \subseteq written
        /\ m = Returned => /\ w \subseteq good
                           /\ contract[f].must \subseteq written
    BY <2>2, <2>3, GoesOn
  <2> QED BY <2>4 DEF w
<1>18. Accounted(frame)
  BY <1>12, <1>13, <1>14, <1>16, <1>17 DEF Accounted
<1>19. Running(frame)
  BY <1>16, <1>17 DEF Running
<1>20. ChainOK(base) /\ Len(base) = Len(stack) - 2
       /\ \A k \in 1 .. Len(stack) - 2 : base[k] = stack[k]
  <2>1. Len(stack) - 2 \in 0 .. Len(stack)  BY <1>1, <1>3
  <2>2. LET t == SubSeq(stack, 1, Len(stack) - 2)
        IN  ChainOK(t) /\ Len(t) = Len(stack) - 2
            /\ \A k \in 1 .. Len(stack) - 2 : t[k] = stack[k]
    BY <2>1, <1>4, Popped
  <2> QED BY <2>2 DEF base
<1>21. base # <<>> => Waiting(base[Len(base)], frame)
  <2> HAVE base # <<>>
  <2>1. Len(base) \in Nat /\ Len(base) # 0  BY <1>20 DEF ChainOK
  <2>2. Len(stack) - 2 \in 1 .. Len(stack) - 1 /\ Len(stack) - 2 \in 1 .. Len(stack) - 2
        /\ Len(stack) - 2 + 1 = Len(stack) - 1
    BY <2>1, <1>3, <1>20
  <2>3. Waiting(stack[Len(stack) - 2], caller)
    BY <2>2, <1>4 DEF ChainOK, caller
  <2>4. base[Len(base)] = stack[Len(stack) - 2]
    BY <2>2, <1>20
  <2>5. frame.fn = caller.fn /\ frame.wanted = caller.wanted
    BY <1>16 DEF f
  <2> QED BY <2>3, <2>4, <2>5 DEF Waiting
<1>22. base = <<>> => frame.wanted = contract[frame.fn].may
  <2> HAVE base = <<>>
  <2>1. Len(stack) = 2  BY <1>3, <1>20
  <2>2. caller = stack[1]  BY <2>1 DEF caller
  <2>3. stack[1].wanted = contract[stack[1].fn].may  BY <1>1, <1>4 DEF ChainOK
  <2> QED BY <2>2, <2>3, <1>16 DEF f
<1>23. ChainOK(Append(base, frame)) /\ Append(base, frame) # <<>>
       /\ Append(base, frame)[Len(Append(base, frame))] = frame
  BY <1>16, <1>18, <1>20, <1>21, <1>22, Pushed, ZenonT(60)
<1>24. stack' = Append(base, frame)  BY <1>2 DEF frame
<1> QED BY <1>19, <1>23, <1>24 DEF FramesOK

----------------------------------------------------------------------------
(***************************************************************************)
(* The invariant.                                                          *)
(***************************************************************************)

LEMMA IInvInitially == Init => IInv
<1>1. Init => FramesOK(stack)
  BY DEF Init, FramesOK, ChainOK
<1> QED BY <1>1, AbiInvInitially DEF IInv, StackInv

LEMMA IInvKept == Counted /\ IInv /\ [Next]_vars => IInv'
<1> SUFFICES ASSUME Counted, IInv, [Next]_vars PROVE IInv'
  OBVIOUS
<1>1. AbiInv'
  BY AbiInvKept DEF IInv
<1>2. CASE UNCHANGED abiVars
  <2>1. UNCHANGED stack => StackInv'
    BY <1>2, CarriedOver DEF IInv, StackInv
  <2>2. UNCHANGED vars => StackInv'
    BY <2>1 DEF vars
  <2>3. ASSUME NEW f \in Function, EnterPublic(f) PROVE StackInv'
    BY <1>2, <2>3, EnterKeeps, CarriedOver
  <2>4. LeavePublic => StackInv'  BY <1>2, LeaveKeeps, CarriedOver
  <2>5. stack # <<>> => PathsCounted(code, contract)
    BY DEF Counted, IInv, AbiInv, RoundsInv
  <2>6. Execute => StackInv'  BY <1>2, <2>5, ExecuteKeeps, CarriedOver DEF Execute
  <2>7. Call => StackInv'  BY <1>2, <2>5, CallKeeps, CarriedOver DEF Call
  <2>8. Return => stack # <<>>
    BY DEF Return, IInv, StackInv, FramesOK, ChainOK
  <2>9. Return => StackInv'  BY <1>2, <2>5, <2>8, ReturnKeeps, CarriedOver
  <2> QED BY <1>1, <2>1, <2>2, <2>3, <2>4, <2>6, <2>7, <2>9 DEF Next, IInv
<1>3. CASE (AnalyzeAlone \/ Round) /\ UNCHANGED stack
  <2>1. stack = <<>> /\ stack' = <<>>
    BY <1>3 DEF IInv, AbiInv, RoundsInv, AnalyzeAlone, Round
  <2>2. StackInv'
    BY <2>1 DEF StackInv, FramesOK, ChainOK
  <2> QED BY <1>1, <2>2 DEF IInv
<1>4. UNCHANGED abiVars \/ ((AnalyzeAlone \/ Round) /\ UNCHANGED stack)
  BY DEF Next, vars, abiVars, EnterPublic, LeavePublic, Execute, Call, Return
<1> QED BY <1>2, <1>3, <1>4

LEMMA IInvAlways == Spec /\ []Counted => []IInv
<1>1. Counted /\ IInv /\ [Next]_vars => IInv'  BY IInvKept
<1> QED BY <1>1, IInvInitially, PTL DEF Spec

----------------------------------------------------------------------------
(***************************************************************************)
(* The types of the frames.  They need nothing of the contracts but their  *)
(* type.                                                                   *)
(***************************************************************************)

FramesTyped(s) ==
  /\ s \in Seq(Frame)
  /\ \A k \in 1 .. Len(s) : s[k].at # Returned => s[k].at \in Nodes(code, s[k].fn)
  /\ \A k \in 1 .. Len(s) - 1 : s[k].at # Returned

TypeInv == AbiInv /\ FramesTyped(stack)

LEMMA OnwardsType ==
  ASSUME code \in Programs, NEW f \in Function, NEW n \in Nodes(code, f), NEW m \in Onwards(f, n)
  PROVE  m \in Nat /\ (m # Returned => m \in Nodes(code, f))
BY ProgramType DEF Onwards, Returned

LEMMA EntryTyped ==
  ASSUME code \in Programs, NEW frame \in Frame, frame.at = Entry
  PROVE  frame.at # Returned /\ frame.at \in Nodes(code, frame.fn)
BY ProgramType DEF Frame, Entry, Returned

\* Another frame in the place of the innermost one,
LEMMA TypedChange ==
  ASSUME NEW s, FramesTyped(s), s # <<>>, NEW frame \in Frame,
         frame.at # Returned => frame.at \in Nodes(code, frame.fn)
  PROVE  FramesTyped([s EXCEPT ![Len(s)] = frame])
<1> DEFINE t == [s EXCEPT ![Len(s)] = frame]
<1>1. s \in Seq(Frame) /\ Len(s) \in Nat \ {0}  BY DEF FramesTyped
<1>2. /\ t \in Seq(Frame) /\ Len(t) = Len(s)
      /\ \A k \in 1 .. Len(s) : t[k] = IF k = Len(s) THEN frame ELSE s[k]
  BY <1>1, ExceptSeq
<1> HIDE DEF t
<1>3. \A k \in 1 .. Len(t) : t[k].at # Returned => t[k].at \in Nodes(code, t[k].fn)
  BY <1>1, <1>2 DEF FramesTyped
<1>4. \A k \in 1 .. Len(t) - 1 : t[k].at # Returned
  BY <1>1, <1>2 DEF FramesTyped
<1>5. FramesTyped(t)  BY <1>2, <1>3, <1>4 DEF FramesTyped
<1> QED BY <1>5 DEF t

\* one more frame,
LEMMA TypedPush ==
  ASSUME NEW s, FramesTyped(s), NEW frame \in Frame,
         frame.at # Returned => frame.at \in Nodes(code, frame.fn),
         s # <<>> => s[Len(s)].at # Returned
  PROVE  FramesTyped(Append(s, frame))
<1> DEFINE t == Append(s, frame)
<1>1. s \in Seq(Frame) /\ Len(s) \in Nat  BY DEF FramesTyped
<1>2. /\ t \in Seq(Frame) /\ Len(t) = Len(s) + 1
      /\ \A k \in 1 .. Len(s) : t[k] = s[k]
      /\ t[Len(s) + 1] = frame
  BY <1>1, AppendProperties
<1> HIDE DEF t
<1>3. \A k \in 1 .. Len(t) : t[k].at # Returned => t[k].at \in Nodes(code, t[k].fn)
  BY <1>1, <1>2 DEF FramesTyped
<1>4. \A k \in 1 .. Len(t) - 1 : t[k].at # Returned
  <2> SUFFICES ASSUME NEW k \in 1 .. Len(s) PROVE t[k].at # Returned
    BY <1>1, <1>2
  <2>1. CASE k = Len(s)
    <3>1. s # <<>>  BY <1>1
    <3> QED BY <2>1, <3>1, <1>2
  <2>2. CASE k # Len(s)
    <3>1. k \in 1 .. Len(s) - 1  BY <2>2, <1>1
    <3> QED BY <3>1, <1>2 DEF FramesTyped
  <2> QED BY <2>1, <2>2
<1>5. FramesTyped(t)  BY <1>2, <1>3, <1>4 DEF FramesTyped
<1> QED BY <1>5 DEF t

\* and frames fewer.
LEMMA TypedPop ==
  ASSUME NEW s, FramesTyped(s), NEW n \in 0 .. Len(s)
  PROVE  LET t == SubSeq(s, 1, n)
         IN  FramesTyped(t) /\ Len(t) = n /\ \A k \in 1 .. n : t[k] = s[k]
<1> DEFINE t == SubSeq(s, 1, n)
<1>1. s \in Seq(Frame) /\ Len(s) \in Nat  BY DEF FramesTyped
<1>2. t \in Seq(Frame) /\ Len(t) = n /\ \A k \in 1 .. n : t[k] = s[k]
  <2>1. 1 \in Int /\ n \in Int /\ \A i \in 1 .. n : s[i] \in Frame
    BY <1>1
  <2>2. /\ t \in Seq(Frame)
        /\ Len(t) = IF 1 <= n THEN n - 1 + 1 ELSE 0
        /\ \A i \in 1 .. n - 1 + 1 : t[i] = s[1 + i - 1]
    BY <2>1, SubSeqProperties
  <2> HIDE DEF t
  <2>3. \A i \in 1 .. n : t[i] = s[i]
    BY <2>2
  <2> QED BY <2>2, <2>3
<1> HIDE DEF t
<1>3. \A k \in 1 .. Len(t) : t[k].at # Returned => t[k].at \in Nodes(code, t[k].fn)
  BY <1>1, <1>2 DEF FramesTyped
<1>4. \A k \in 1 .. Len(t) - 1 : t[k].at # Returned
  BY <1>1, <1>2 DEF FramesTyped
<1>5. FramesTyped(t)  BY <1>2, <1>3, <1>4 DEF FramesTyped
<1> QED BY <1>2, <1>5 DEF t

\* The frames while calls are made, and the innermost of them.
LEMMA TypedTop ==
  ASSUME TypeInv, stack # <<>>
  PROVE  /\ phase = "run" /\ code \in Programs /\ contract \in [Function -> Contract]
         /\ Len(stack) \in Nat \ {0} /\ Top = stack[Len(stack)]
         /\ \A k \in 1 .. Len(stack) : stack[k] \in Frame
         /\ Top \in Frame /\ (Top.at # Returned => Top.at \in Nodes(code, Top.fn))
BY DEF TypeInv, AbiInv, AnalysisTypes, RoundsInv, FramesTyped, Top

LEMMA EnterTyped ==
  ASSUME TypeInv, NEW f \in Function, EnterPublic(f) PROVE FramesTyped(stack')
<1> DEFINE frame == [fn |-> f, at |-> Entry, good |-> Register, written |-> {}, exposed |-> {},
                     outs |-> contract[f].may, wanted |-> contract[f].may]
<1>1. stack = <<>> /\ stack' = <<frame>> /\ phase = "run"
  BY DEF EnterPublic
<1>2. contract[f] \in Contract /\ code \in Programs
  BY <1>1 DEF TypeInv, AbiInv, AnalysisTypes
<1>3. frame \in Frame /\ frame.at = Entry
  BY <1>2 DEF Frame, Contract, Entry
<1>4. stack' = Append(stack, frame)  BY <1>1
<1> HIDE DEF frame
<1>5. frame.at # Returned /\ frame.at \in Nodes(code, frame.fn)
  BY <1>2, <1>3, EntryTyped
<1> QED BY <1>1, <1>3, <1>4, <1>5, TypedPush DEF TypeInv

LEMMA ExecuteTyped ==
  ASSUME TypeInv, Execute PROVE FramesTyped(stack')
<1> DEFINE i == At(Top)
<1>1. stack # <<>> /\ Top.at # Returned
  BY DEF Execute
<1>2. PICK m \in Onwards(Top.fn, Top.at) :
        stack' = [stack EXCEPT ![Len(stack)] =
                   [Top EXCEPT !.at = m, !.good = @ \cup i.defs, !.written = @ \cup i.defs,
                               !.exposed = @ \cup (i.uses \ Top.written)]]
  BY DEF Execute
<1> DEFINE frame == [Top EXCEPT !.at = m, !.good = @ \cup i.defs, !.written = @ \cup i.defs,
                                !.exposed = @ \cup (i.uses \ Top.written)]
<1>3. code \in Programs /\ Top \in Frame /\ Top.at \in Nodes(code, Top.fn)
  BY <1>1, TypedTop
<1>4. Top.fn \in Function  BY <1>3 DEF Frame
<1>5. i \in Instruction  BY <1>3, <1>4, ProgramType DEF At
<1>6. m \in Nat /\ (m # Returned => m \in Nodes(code, Top.fn))
  BY <1>3, <1>4, OnwardsType
<1>7. i.defs \subseteq Register /\ i.uses \subseteq Register  BY <1>5 DEF Instruction
<1>8. frame \in Frame /\ frame.at = m /\ frame.fn = Top.fn
  <2> HIDE DEF i
  <2> QED BY <1>3, <1>6, <1>7 DEF Frame
<1> HIDE DEF frame
<1>9. FramesTyped([stack EXCEPT ![Len(stack)] = frame])
  BY <1>1, <1>6, <1>8, TypedChange DEF TypeInv
<1> QED BY <1>2, <1>9 DEF frame

LEMMA InterfaceTyped ==
  ASSUME contract \in [Function -> Contract], NEW f \in Function, NEW n,
         code[f][n].callee \in Function, NEW interface \in Interfaces(f, n)
  PROVE  interface.ins \subseteq Register /\ interface.outs \subseteq Register
<1> DEFINE h == code[f][n].callee
<1>1. contract[h] \in Contract  OBVIOUS
<1>2. contract[h].reads \subseteq Register /\ contract[h].may \subseteq Register
  BY <1>1 DEF Contract
<1>3. \A c, g, exit : LiveIn(code, c, g, exit, Entry) \subseteq Register  BY DEF LiveIn
<1>4. Demanded(code, contract, h) \subseteq contract[h].may  BY DEF Demanded
<1> HIDE DEF h
<1>5. CASE interface = ResidentBoundary(h)
  BY <1>2, <1>5 DEF ResidentBoundary
<1>6. CASE \E outs \in SUBSET contract[h].may : interface = NativeEntry(h, outs)
  BY <1>2, <1>3, <1>6 DEF NativeEntry
<1>7. \/ interface = NativeEntry(h, Demanded(code, contract, h))
      \/ interface = NativeEntry(h, contract[h].may \cap
                       LiveOut(code, contract, f, contract[f].may, n))
      \/ interface = ResidentBoundary(h)
  BY DEF Interfaces, h
<1> QED BY <1>4, <1>5, <1>6, <1>7

LEMMA CallTyped ==
  ASSUME TypeInv, Call PROVE FramesTyped(stack')
<1> DEFINE i == At(Top)
           h == i.callee
           caller == [Top EXCEPT !.good = @ \cup i.defs, !.written = @ \cup i.defs]
           wanted == contract[h].may \cap LiveOut(code, contract, Top.fn, Top.wanted, Top.at)
<1>1. stack # <<>> /\ Top.at # Returned /\ h # NoCall
  BY DEF Call
<1>2. PICK interface \in Interfaces(Top.fn, Top.at) :
        stack' = Append([stack EXCEPT ![Len(stack)] = caller],
                        [fn |-> h, at |-> Entry, good |-> interface.ins \cap caller.good,
                         written |-> {}, exposed |-> {}, outs |-> interface.outs,
                         wanted |-> wanted])
  BY DEF Call
<1> DEFINE callee == [fn |-> h, at |-> Entry, good |-> interface.ins \cap caller.good,
                      written |-> {}, exposed |-> {}, outs |-> interface.outs,
                      wanted |-> wanted]
<1>3. /\ code \in Programs /\ Top \in Frame /\ Top.at \in Nodes(code, Top.fn)
      /\ contract \in [Function -> Contract] /\ Len(stack) \in Nat \ {0}
  BY <1>1, TypedTop
<1>4. Top.fn \in Function  BY <1>3 DEF Frame
<1>5. i \in Instruction /\ i = code[Top.fn][Top.at]  BY <1>3, <1>4, ProgramType DEF At
<1>6. i.defs \subseteq Register /\ h \in Function  BY <1>1, <1>5 DEF Instruction
<1>7. interface.ins \subseteq Register /\ interface.outs \subseteq Register
  <2> HIDE DEF i
  <2> QED BY <1>3, <1>4, <1>5, <1>6, InterfaceTyped
<1>8. wanted \subseteq Register
  BY <1>3, <1>6 DEF Contract
<1>9. caller \in Frame /\ caller.at = Top.at /\ caller.fn = Top.fn
  <2> HIDE DEF i
  <2> QED BY <1>3, <1>6 DEF Frame
<1>10. callee \in Frame /\ callee.at = Entry
  <2>1. Entry \in Nat /\ interface.ins \cap caller.good \subseteq Register
    BY <1>7 DEF Entry
  <2> HIDE DEF wanted, h, caller
  <2> QED BY <2>1, <1>6, <1>7, <1>8 DEF Frame
<1> DEFINE s == [stack EXCEPT ![Len(stack)] = caller]
<1>11. stack' = Append(s, callee)  BY <1>2
<1> HIDE DEF caller, callee
<1>12. FramesTyped(s)
  BY <1>1, <1>3, <1>9, TypedChange DEF TypeInv
<1>13. s[Len(s)].at # Returned
  <2>1. stack \in Seq(Frame)  BY DEF TypeInv, FramesTyped
  <2>2. Len(s) = Len(stack) /\ s[Len(stack)] = caller
    BY <1>3, <1>9, <2>1, ExceptSeq
  <2> QED BY <1>1, <1>9, <2>2
<1> HIDE DEF s
<1>14. callee.at # Returned /\ callee.at \in Nodes(code, callee.fn)
  BY <1>3, <1>10, EntryTyped
<1> QED BY <1>10, <1>11, <1>12, <1>13, <1>14, TypedPush

LEMMA ReturnTyped ==
  ASSUME TypeInv, Return PROVE FramesTyped(stack')
<1> DEFINE caller == stack[Len(stack) - 1]
           base == SubSeq(stack, 1, Len(stack) - 2)
           good == (caller.good \ (Top.written \cup Top.outs)) \cup (Top.outs \cap Top.good)
           written == caller.written \cup Top.written
           exposed == caller.exposed \cup (Top.exposed \ caller.written)
<1>1. Len(stack) > 1  BY DEF Return
<1>2. PICK m \in Onwards(caller.fn, caller.at) :
        stack' = Append(base, [caller EXCEPT !.at = m, !.good = good, !.written = written,
                                             !.exposed = exposed])
  BY DEF Return
<1> DEFINE frame == [caller EXCEPT !.at = m, !.good = good, !.written = written,
                                   !.exposed = exposed]
<1>3. stack # <<>>  BY <1>1 DEF TypeInv, FramesTyped
<1>4. /\ code \in Programs /\ Top \in Frame /\ Len(stack) \in Nat \ {0}
      /\ \A k \in 1 .. Len(stack) : stack[k] \in Frame
  BY <1>3, TypedTop
<1>5. caller \in Frame /\ caller.at \in Nodes(code, caller.fn)
  <2>1. Len(stack) - 1 \in 1 .. Len(stack) - 1 /\ Len(stack) - 1 \in 1 .. Len(stack)
    BY <1>1, <1>4
  <2> QED BY <2>1, <1>4 DEF TypeInv, FramesTyped
<1> HIDE DEF caller
<1>6. caller.fn \in Function  BY <1>5 DEF Frame
<1>7. m \in Nat /\ (m # Returned => m \in Nodes(code, caller.fn))
  BY <1>4, <1>5, <1>6, OnwardsType
<1>8. good \subseteq Register /\ written \subseteq Register /\ exposed \subseteq Register
  BY <1>4, <1>5 DEF Frame
<1> HIDE DEF good, written, exposed
<1>9. frame \in Frame /\ frame.at = m /\ frame.fn = caller.fn
  BY <1>5, <1>7, <1>8 DEF Frame
<1>10. stack' = Append(base, frame)  BY <1>2
<1>11. FramesTyped(base) /\ Len(base) = Len(stack) - 2
       /\ \A k \in 1 .. Len(stack) - 2 : base[k] = stack[k]
  <2>1. Len(stack) - 2 \in 0 .. Len(stack)  BY <1>1, <1>4
  <2>2. LET t == SubSeq(stack, 1, Len(stack) - 2)
        IN  FramesTyped(t) /\ Len(t) = Len(stack) - 2
            /\ \A k \in 1 .. Len(stack) - 2 : t[k] = stack[k]
    BY <2>1, TypedPop DEF TypeInv
  <2> QED BY <2>2
<1> HIDE DEF base, frame
<1>12. base # <<>> => base[Len(base)].at # Returned
  <2> HAVE base # <<>>
  <2>1. Len(base) \in Nat /\ Len(base) # 0  BY <1>11 DEF FramesTyped
  <2>2. Len(stack) - 2 \in 1 .. Len(stack) - 1 /\ Len(stack) - 2 \in 1 .. Len(stack) - 2
    BY <2>1, <1>4, <1>11
  <2> QED BY <2>2, <1>11 DEF TypeInv, FramesTyped
<1> QED BY <1>7, <1>9, <1>10, <1>11, <1>12, TypedPush

LEMMA TypeInvKept == TypeInv /\ [Next]_vars => TypeInv'
<1> SUFFICES ASSUME TypeInv, [Next]_vars PROVE TypeInv'
  OBVIOUS
<1>1. AbiInv'
  BY AbiInvKept DEF TypeInv
<1>2. CASE UNCHANGED abiVars
  <2>1. code' = code  BY <1>2 DEF abiVars
  <2>2. FramesTyped(stack') => FramesTyped(stack)'
    BY <2>1 DEF FramesTyped, Nodes
  <2>3. UNCHANGED stack => FramesTyped(stack')  BY DEF TypeInv
  <2>4. UNCHANGED vars => FramesTyped(stack')  BY <2>3 DEF vars
  <2>5. ASSUME NEW f \in Function, EnterPublic(f) PROVE FramesTyped(stack')
    BY <2>5, EnterTyped
  <2>6. LeavePublic => FramesTyped(stack')  BY DEF LeavePublic, FramesTyped
  <2> QED
    BY <1>1, <2>2, <2>3, <2>4, <2>5, <2>6, ExecuteTyped, CallTyped, ReturnTyped
    DEF Next, TypeInv
<1>3. CASE (AnalyzeAlone \/ Round) /\ UNCHANGED stack
  <2>1. stack = <<>> /\ stack' = <<>>
    BY <1>3 DEF TypeInv, AbiInv, RoundsInv, AnalyzeAlone, Round
  <2>2. FramesTyped(stack)'  BY <2>1 DEF FramesTyped
  <2> QED BY <1>1, <2>2 DEF TypeInv
<1>4. UNCHANGED abiVars \/ ((AnalyzeAlone \/ Round) /\ UNCHANGED stack)
  BY DEF Next, vars, abiVars, EnterPublic, LeavePublic, Execute, Call, Return
<1> QED BY <1>2, <1>3, <1>4

\* Every frame is one, whatever the contracts say.
THEOREM FrameTypesHold == Spec => []TypeOK
<1>1. Init => TypeInv
  BY AbiInvInitially DEF Init, TypeInv, FramesTyped
<1>2. TypeInv => TypeOK
  BY DEF TypeInv, AbiInv, AnalysisTypes, FramesTyped, TypeOK
<1> QED BY <1>1, <1>2, TypeInvKept, PTL DEF Spec

----------------------------------------------------------------------------
(***************************************************************************)
(* The theorems.                                                           *)
(***************************************************************************)

Believed == phase = "run" => JoinsBelieved(code, contract)

\* The edges that the contract analysis misses make no difference where control
\* goes by one of them only with what the analysis believes of the place written:
\* at a join or a loop whose register is set before it, say, or where all the
\* edges are known (AloneIsBelieved).
THEOREM JoinsCount == Spec /\ []Believed => []Counted
<1>1. AbiInv /\ Believed => Counted
  BY RunIsSettled, BelievedIsCounted DEF Believed, Counted
<1>2. AbiInv /\ [Next]_vars => AbiInv'  BY AbiInvKept
<1>3. Init => AbiInv  BY AbiInvInitially
<1> QED BY <1>1, <1>2, <1>3, PTL DEF Spec

\* If the edges that the contract analysis misses make no difference, no
\* interface drops a value that is used later.
THEOREM NothingStale == Spec /\ []Counted => []NoStaleRead
<1>1. IInv => NoStaleRead
  <2> SUFFICES ASSUME IInv, stack # <<>>, Top.at # Returned, At(Top).callee = NoCall
               PROVE  At(Top).uses \subseteq Top.good
    BY DEF NoStaleRead
  <2> DEFINE i == At(Top)
             f == Top.fn
             n == Top.at
  <2>1. /\ i \in Instruction /\ i = code[f][n] /\ n \in Nodes(code, f)
        /\ LiveIn(code, contract, f, Top.wanted, n) \subseteq Top.good
        /\ DOMAIN contract = Function
    BY RunningFrame
  <2>2. Needs(contract, i) = i.uses /\ i.uses \subseteq Register
    BY <2>1, NoCallAssumption DEF Needs, Instruction
  <2>3. ASSUME NEW r \in i.uses PROVE r \in LiveIn(code, contract, f, Top.wanted, n)
    <3>1. r \in Register /\ r \in Needs(contract, code[f][n])
      BY <2>1, <2>2, <2>3
    <3> HIDE DEF i, f, n
    <3> QED BY <3>1, <2>1, LiveNeeds
  <2> QED BY <2>1, <2>3
<1> QED BY <1>1, IInvAlways, PTL

\* Under the same hypothesis the dispatcher gets all that was written.
THEOREM NothingDropped == Spec /\ []Counted => []NothingLost
<1>1. IInv => NothingLost
  <2> SUFFICES ASSUME IInv, Len(stack) = 1, Top.at = Returned
               PROVE  Top.written \subseteq Top.good
    BY DEF NothingLost
  <2>1. stack # <<>>
    <3>1. Len(<<>>) = 0  OBVIOUS
    <3> QED BY <3>1
  <2>2. Accounted(Top) /\ Running(Top) /\ Top = stack[Len(stack)]
    BY <2>1, TopFrame
  <2>3. Top.wanted = contract[Top.fn].may
    BY <2>1, <2>2 DEF IInv, StackInv, FramesOK, ChainOK
  <2> QED BY <2>2, <2>3 DEF Accounted, Running
<1> QED BY <1>1, IInvAlways, PTL

\* Under the same hypothesis every call does what its contract says.
THEOREM ContractsHold == Spec /\ []Counted => []ContractsAreTrue
<1>1. IInv => ContractsAreTrue
  <2> SUFFICES ASSUME IInv, NEW k \in 1 .. Len(stack)
               PROVE  /\ stack[k].exposed \subseteq contract[stack[k].fn].reads
                      /\ stack[k].written \subseteq contract[stack[k].fn].may
                      /\ stack[k].at = Returned =>
                           contract[stack[k].fn].must \subseteq stack[k].written
    BY DEF ContractsAreTrue
  <2>1. ChainOK(stack) /\ (stack # <<>> => Running(stack[Len(stack)]))
    BY DEF IInv, StackInv, FramesOK
  <2>2. Accounted(stack[k]) /\ Len(stack) \in Nat
    BY <2>1 DEF ChainOK
  <2>3. CASE k = Len(stack)
    <3>1. stack # <<>>  BY <2>2
    <3> QED BY <2>1, <2>2, <2>3, <3>1 DEF Accounted, Running
  <2>4. CASE k # Len(stack)
    <3>1. Waiting(stack[k], stack[k + 1])
      BY <2>1, <2>2, <2>4 DEF ChainOK
    <3> QED BY <2>2, <3>1 DEF Accounted, Waiting
  <2> QED BY <2>3, <2>4
<1> QED BY <1>1, IInvAlways, PTL
=============================================================================
