-------------------------- MODULE GuestAbiContracts --------------------------
(***************************************************************************)
(* The translator's contracts of guest functions: which registers a        *)
(* function reads before it writes them, which it may write and which it   *)
(* writes on every path to its end.                                        *)
(*                                                                         *)
(* GuestAbiContractAnalyzer computes the contract of one function from     *)
(* those of its callees; GuestAbiInterproceduralAnalyzer repeats that in   *)
(* rounds over a snapshot, analysing again only the callers of functions   *)
(* whose contract has changed.  GuestStateLivenessAnalyzer then finds what *)
(* is live at each call.                                                   *)
(*                                                                         *)
(* A function is a sequence of instructions, the first is its entry.  Each *)
(* names the registers it uses and defines, the function it calls (or      *)
(* NoCall), and how control leaves it: "next" inside a block, "fall" at    *)
(* the end of a block without a terminator, "goto" to a set of             *)
(* instructions, one of which is taken; to none of them is a return.       *)
(* Registers stand for the bits of the masks: every operation on masks is  *)
(* bitwise.                                                                *)
(***************************************************************************)
EXTENDS Naturals, Sequences

CONSTANTS
  Function,     \* the functions that are translated
  Register,     \* the architectural registers
  NoCall,       \* the callee of an instruction that calls nothing
  Programs      \* the programs the translator may be given

Instruction ==
  [uses : SUBSET Register, defs : SUBSET Register, callee : Function \cup {NoCall},
   leaves : {"next", "fall", "goto"}, to : SUBSET Nat]

Contract == [reads : SUBSET Register, may : SUBSET Register, must : SUBSET Register]

ASSUME NoCallAssumption == NoCall \notin Function

ASSUME ProgramsAssumption ==
  \A p \in Programs :
    /\ p \in [Function -> Seq(Instruction)]
    /\ \A f \in Function :
         p[f] # <<>> /\ \A n \in DOMAIN p[f] : p[f][n].to \subseteq DOMAIN p[f]

VARIABLES
  code,         \* the program: given at the start
  contract,     \* GuestAbiContract of each function
  pending,      \* the functions the next round analyses
  phase         \* where the translator is

abiVars == <<code, contract, pending, phase>>

Nodes(p, f) == DOMAIN p[f]
Entry == 1

\* Where control goes from instruction n; nowhere at the end of the function.
Flow(p, f, n) ==
  IF p[f][n].leaves = "goto" THEN p[f][n].to ELSE {n + 1} \cap Nodes(p, f)

\* The edges the contract analysis knows: a block that falls into the next
\* one has no successor for it.
Edges(p, f, n) == IF p[f][n].leaves = "fall" THEN {} ELSE Flow(p, f, n)

Preds(p, f, n) == {m \in Nodes(p, f) : n \in Edges(p, f, m)}

Callees(p, f) == {p[f][n].callee : n \in Nodes(p, f)}

----------------------------------------------------------------------------
(***************************************************************************)
(* One function.  c gives the contracts that are known; for a call whose   *)
(* callee has none only the instruction itself counts, that is its         *)
(* arguments and its destination.                                          *)
(***************************************************************************)

Reads(c, i) == IF i.callee \in DOMAIN c THEN c[i.callee].reads ELSE i.uses
MayWrite(c, i) ==
  IF i.callee \in DOMAIN c THEN i.defs \cup c[i.callee].may ELSE i.defs
MustWrite(c, i) ==
  IF i.callee \in DOMAIN c THEN i.defs \cup c[i.callee].must ELSE i.defs

\* As if one path were enough.
WrittenOnSomePath(p, f, S, n) == n # Entry /\ Preds(p, f, n) \cap S # {}

\* Written on every analysed path before n, if S holds the instructions
\* after which it is; the entry and what nothing jumps to start from nothing.
WrittenBefore(p, f, S, n) ==
  n # Entry /\ Preds(p, f, n) # {} /\ Preds(p, f, n) \subseteq S

\* One sweep over the blocks for register r.
DefiniteSweep(p, c, f, r, S) ==
  {n \in Nodes(p, f) : r \in MustWrite(c, p[f][n]) \/ WrittenBefore(p, f, S, n)}

\* The instructions after which r has been written.  The sweeps start from
\* the empty sets and are monotone, so they end in their least fixed point.
DefiniteOut(p, c, f, r) ==
  {n \in Nodes(p, f) :
     \A S \in SUBSET Nodes(p, f) : DefiniteSweep(p, c, f, r, S) \subseteq S => n \in S}

DefiniteIn(p, c, f, n) ==
  {r \in Register : WrittenBefore(p, f, DefiniteOut(p, c, f, r), n)}

Exits(p, f) == {n \in Nodes(p, f) : Edges(p, f, n) = {}}

\* GuestAbiContractAnalyzer.Analyze.
Analyze(p, c, f) ==
  [reads |-> {r \in Register : \E n \in Nodes(p, f) :
                r \in Reads(c, p[f][n]) /\ r \notin DefiniteIn(p, c, f, n)},
   may   |-> {r \in Register : \E n \in Nodes(p, f) : r \in MayWrite(c, p[f][n])},
   must  |-> {r \in Register : Exits(p, f) # {} /\ Exits(p, f) \subseteq DefiniteOut(p, c, f, r)}]

----------------------------------------------------------------------------
(***************************************************************************)
(* Liveness.  A call kills what its callee always writes and its own       *)
(* destination, and needs what the callee reads.                           *)
(***************************************************************************)

\* As if a call needed nothing of its caller.
CallsNeedNothing(c, i) == IF i.callee \in DOMAIN c THEN {} ELSE i.uses

Needs(c, i) == IF i.callee \in DOMAIN c THEN c[i.callee].reads \ i.defs ELSE i.uses

\* Register r is wanted after n: at the end of the function, if it is one of
\* those live at the exit.
WantedAfter(p, f, exit, r, S, n) ==
  IF Flow(p, f, n) = {} THEN r \in exit ELSE Flow(p, f, n) \cap S # {}

LiveSweep(p, c, f, exit, r, S) ==
  {n \in Nodes(p, f) :
     \/ r \in Needs(c, p[f][n])
     \/ r \notin MustWrite(c, p[f][n]) /\ WantedAfter(p, f, exit, r, S, n)}

\* The instructions before which r is live: again a least fixed point.
LiveNodes(p, c, f, exit, r) ==
  {n \in Nodes(p, f) :
     \A S \in SUBSET Nodes(p, f) : LiveSweep(p, c, f, exit, r, S) \subseteq S => n \in S}

LiveIn(p, c, f, exit, n) == {r \in Register : n \in LiveNodes(p, c, f, exit, r)}
LiveOut(p, c, f, exit, n) ==
  {r \in Register : WantedAfter(p, f, exit, r, LiveNodes(p, c, f, exit, r), n)}

\* As if nothing were observed when a function ends.
DemandedInside(p, c, h) ==
  {r \in c[h].may : \E f \in Function : \E n \in Nodes(p, f) :
     p[f][n].callee = h /\ r \in LiveOut(p, c, f, {}, n)}

\* demandedStateFreeOutputs: what some call of h, in a function whose writes
\* are all live at its exit, wants h to have written.
Demanded(p, c, h) ==
  {r \in c[h].may : \E f \in Function : \E n \in Nodes(p, f) :
     p[f][n].callee = h /\ r \in LiveOut(p, c, f, c[f].may, n)}

----------------------------------------------------------------------------
NoContracts == [f \in {} |-> {}]

AbiInit ==
  /\ code \in Programs
  /\ contract = NoContracts
  /\ pending = Function
  /\ phase = "alone"

\* Every function by itself, as if its callees had no effect.
AnalyzeAlone ==
  /\ phase = "alone"
  /\ contract' = [f \in Function |-> Analyze(code, NoContracts, f)]
  /\ phase' = "rounds"
  /\ UNCHANGED <<code, pending>>

\* As if those that have changed, not their callers, were due next.
RoundOfChanged ==
  LET found == [f \in pending |-> Analyze(code, contract, f)]
      updated == {f \in pending : found[f] # contract[f]}
  IN  /\ phase = "rounds"
      /\ contract' = [f \in Function |-> IF f \in updated THEN found[f] ELSE contract[f]]
      /\ pending' = updated
      /\ phase' = IF updated = {} THEN "run" ELSE "rounds"
      /\ UNCHANGED code

\* As if a contract were never equivalent to the one before.
RoundUncompared ==
  /\ phase = "rounds"
  /\ contract' = [f \in Function |-> IF f \in pending THEN Analyze(code, contract, f)
                                                       ELSE contract[f]]
  /\ pending' = {f \in Function : Callees(code, f) \cap pending # {}}
  /\ phase' = IF pending = {} THEN "run" ELSE "rounds"
  /\ UNCHANGED code

\* A round analyses the pending functions against the contracts as they were
\* at its start, then applies what has changed.
Round ==
  LET found == [f \in pending |-> Analyze(code, contract, f)]
      updated == {f \in pending : found[f] # contract[f]}
  IN  /\ phase = "rounds"
      /\ contract' = [f \in Function |-> IF f \in updated THEN found[f] ELSE contract[f]]
      /\ pending' = {f \in Function : Callees(code, f) \cap updated # {}}
      /\ phase' = IF updated = {} THEN "run" ELSE "rounds"
      /\ UNCHANGED code

\* The instructions that some path reaches, by the edges of the code and not
\* only by those the analysis knows, without having written r.
UnwrittenSweep(p, c, f, r, S) ==
  {Entry} \cup UNION {Flow(p, f, n) : n \in {m \in S : r \notin MustWrite(c, p[f][m])}}

Unwritten(p, c, f, r) ==
  {n \in Nodes(p, f) :
     \A S \in SUBSET Nodes(p, f) : UnwrittenSweep(p, c, f, r, S) \subseteq S => n \in S}

\* What paths read first is counted as read and what they do not write is not
\* counted as written: the edges the analysis misses make no difference.
PathsCounted(p, c) ==
  \A f \in Function : \A r \in Register : \A n \in Unwritten(p, c, f, r) :
    /\ r \in Reads(c, p[f][n]) => r \in c[f].reads
    /\ r \in c[f].must /\ Flow(p, f, n) = {} => r \in MustWrite(c, p[f][n])

\* When the analysis is done, the edges it misses make no difference.
Counted == phase = "run" => PathsCounted(code, contract)

\* When the rounds end every contract is the one its function has under the
\* contracts of its callees: the worklist left out nothing that could change.
WorklistIsExact ==
  [][phase = "rounds" /\ phase' = "run" =>
       \A f \in Function : contract'[f] = Analyze(code', contract', f)]_abiVars

\* The rounds come to an end.
RoundsEnd == <>(phase = "run")
=============================================================================
