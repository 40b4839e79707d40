----------------------------- MODULE MCStateFree -----------------------------
(***************************************************************************)
(* Instances of StateFreeCalls for TLC.  One register is enough: no step   *)
(* of the analyses or of a call lets one register influence another.       *)
(***************************************************************************)
EXTENDS StateFreeCalls, FiniteSets, TLC

CONSTANTS outer, middle, leaf, r

Plain == {"use", "def", "update", "nop"}

\* An instruction by what it does with the register, or whom it calls.
Instr(what, leaves, to) ==
  [uses |-> IF what \in {"use", "update"} THEN {r} ELSE {},
   defs |-> IF what \in {"def", "update"} THEN {r} ELSE {},
   callee |-> IF what \in Plain THEN NoCall ELSE what,
   leaves |-> leaves, to |-> to]

Straight(whats) == {Instr(w, "next", {}) : w \in whats}
Falling(whats) == {Instr(w, "fall", {}) : w \in whats}
Jumping(whats, targets) == {Instr(w, "goto", t) : w \in whats, t \in targets}

\* Every instruction can be reached, and only the first of a block is a
\* target of jumps.
Reachable(body) ==
  LET next(n) == IF body[n].leaves = "goto" THEN body[n].to ELSE {n + 1} \cap DOMAIN body
      reach[k \in 0 .. Len(body)] ==
        IF k = 0 THEN {1} ELSE reach[k - 1] \cup UNION {next(n) : n \in reach[k - 1]}
  IN  reach[Len(body)] = DOMAIN body

TargetsLead(body) ==
  \A n \in DOMAIN body : \A m \in body[n].to : m = 1 \/ body[m - 1].leaves # "next"

WellMade(bodies) == {b \in bodies : Reachable(b) /\ TargetsLead(b)}

\* Reached from the instructions in from along next, as long as nothing on
\* the way is in stop.
ReachedPast(body, from, next(_), stop) ==
  LET reach[k \in 0 .. Len(body)] ==
        IF k = 0 THEN from ELSE reach[k - 1] \cup UNION {next(n) : n \in reach[k - 1] \ stop}
  IN  reach[Len(body)]

\* Where a block is fallen into and jumped to, the contract analysis knows of
\* the jumps only.  That makes no difference if the register has been
\* written where control falls in, or need not have been where it jumps in,
\* or is written before anything that follows asks for it.  A call is taken
\* to write or not to write whichever is worse.
JoinsAgree(body) ==
  LET jumps(n) == IF body[n].leaves = "goto" THEN body[n].to ELSE {}
      known(n) == IF body[n].leaves = "next" THEN {n + 1} \cap DOMAIN body ELSE jumps(n)
      next(n)  == IF body[n].leaves = "fall" THEN {n + 1} \cap DOMAIN body ELSE known(n)
      writes   == {n \in DOMAIN body : r \in body[n].defs}
      calls    == {n \in DOMAIN body : body[n].callee # NoCall}
      asks     == {n \in DOMAIN body : r \in body[n].uses} \cup calls
                  \cup {n \in DOMAIN body \ writes : next(n) = {}}
      sure     == writes \cup calls
  IN  \A n \in DOMAIN body : body[n].leaves = "fall" =>
        LET jumpers == {m \in DOMAIN body : n + 1 \in jumps(m)}
        IN  \/ jumpers = {}
            \/ n \in writes \/ n \notin ReachedPast(body, {1}, next, writes)
            \/ jumpers \cap (ReachedPast(body, {1, n + 1}, known, sure) \ sure) # {}
            \/ ReachedPast(body, {n + 1}, next, writes) \cap asks = {}

Shapes(bodies) == {b \in WellMade(bodies) : JoinsAgree(b)}

\* leaf: a loop, a branch or a straight line, or it calls itself.
LeafBodies ==
  Shapes({<<i, j>> : i \in Straight({"use", "def"}) \cup Jumping({"nop", "def"}, {{1, 2}}),
                     j \in Jumping({"use", "def"}, {{}})})
  \cup {<<i>> : i \in Jumping(Plain, {{}})}
  \cup {<<Instr("nop", "goto", {2, 3}), Instr(leaf, "next", {}), i>> :
          i \in Jumping({"use", "def"}, {{}})}

\* A leaf with a loop that is fallen into.
LoopBodies ==
  Shapes({<<i, j, k>> : i \in Falling({"nop", "def"}),
                        j \in Jumping({"use", "update", "def", "nop"}, {{2, 3}}),
                        k \in Jumping({"use"}, {{}})})

\* middle: calls leaf once, on some path: after a branch, in an "if" without
\* "else", in a loop.
MiddleBodies ==
  Shapes({<<i, j, k>> : i \in Straight({"def", "use"}) \cup Jumping({"nop"}, {{2, 3}}),
                        j \in Straight({leaf}) \cup Jumping({leaf}, {{1, 3}}),
                        k \in Jumping({"use", "nop"}, {{}, {1}})})

JoinBodies ==
  Shapes({<<i, j, k>> : i \in Jumping({"nop", "def"}, {{2, 3}}), j \in Falling({leaf}),
                        k \in Jumping({"use", "def"}, {{}})}
         \cup {<<i, j, k>> : i \in Falling({"def", "nop"}), j \in Jumping({leaf}, {{2, 3}}),
                             k \in Jumping({"use", "nop"}, {{}})})

\* outer: what it does before and after it calls middle.
OuterBodies ==
  Shapes({<<i, j, k>> : i \in Straight({"def", leaf}) \cup Falling({"nop"}) \cup Jumping({"def"}, {{2, 3}}),
                        j \in Straight({middle}) \cup Jumping({middle}, {{2, 3}}),
                        k \in Jumping({"use", "nop"}, {{}})})

\* middle, calling outer again on some path when it has used or written the
\* register: what the two read is then settled.
BackBodies ==
  Shapes({<<i, j, k>> : i \in Jumping({"def", "use"}, {{2, 3}}),
                        j \in Falling({outer}) \cup Jumping({outer}, {{3}, {1, 3}}),
                        k \in Jumping({"use", "def"}, {{}})})

Chains(Fs, Gs, Hs) ==
  {(outer :> F) @@ (middle :> G) @@ (leaf :> H) : F \in Fs, G \in Gs, H \in Hs}

ThreeLevels ==
  Chains(OuterBodies, MiddleBodies, LeafBodies)
  \cup Chains(OuterBodies, JoinBodies, LeafBodies \cup LoopBodies)
  \cup Chains(OuterBodies, BackBodies, {<<i>> : i \in Jumping(Plain, {{}})})

\* A loop that is fallen into, and its caller.
FallenInto ==
  {(outer :> <<Instr("def", "next", {}), Instr(middle, "goto", {})>>) @@
   (middle :> <<Instr("nop", "fall", {}), Instr("update", "goto", {2, 3}), Instr("nop", "goto", {})>>) @@
   (leaf :> <<i>>) : i \in Jumping(Plain, {{}})}

\* Two functions that call each other, one of them on a path without the
\* call of leaf.
Mutual ==
  {(outer :> <<Instr("nop", "goto", {2, 4}), Instr(leaf, "next", {}), Instr("use", "goto", {}),
           Instr(middle, "goto", {})>>) @@
   (middle :> <<Instr(outer, "goto", {})>>) @@
   (leaf :> <<i>>) : i \in Jumping(Plain, {{}})}
=============================================================================
