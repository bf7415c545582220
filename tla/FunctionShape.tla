---------------------------- MODULE FunctionShape ----------------------------
(***************************************************************************)
(* What a well-formed function is, between two passes: its edges, its phis *)
(* and its registers.  These are the properties every pass relies on and   *)
(* none of them checks.                                                    *)
(***************************************************************************)
EXTENDS FiniteSets, Mir

Occurrences(s, x) == Cardinality({k \in DOMAIN s : s[k] = x})

ListedIn(f) == ToSet(f.list)

\* The blocks that the blocks bs reach by edges that do not leave b.
RECURSIVE ReachedWithout(_, _, _)
ReachedWithout(f, bs, b) ==
  LET more == bs \cup UNION {ToSet(f.succ[x]) : x \in bs \ {b}}
  IN IF more = bs THEN bs ELSE ReachedWithout(f, more, b)

ReachedIn(f) == ReachedWithout(f, {Entry(f)}, NoBlock)

\* By definition: every path from the entry to y goes through b.
DominatesIn(f, b, y) == b = y \/ y \notin ReachedWithout(f, {Entry(f)} \ {b}, b)

\* A block's lists of neighbours, its neighbours' lists and its branch agree.
EdgesAgree(f) ==
  \A b \in ListedIn(f) :
    /\ Terminator(f, b) # NoInstr
    /\ ToSet(f.succ[b]) = Targets(Terminator(f, b))
    /\ ToSet(f.pre[b]) \subseteq ListedIn(f)
    /\ \A y \in ListedIn(f) : Occurrences(f.succ[b], y) = Occurrences(f.pre[y], b)

\* A phi has one pair for each edge into its block.
PhisAgree(f) ==
  \A b \in ListedIn(f) : \A i \in ToSet(Phis(f, b)) : \A p \in DOMAIN f.code :
    Occurrences(Sources(i), p) = Occurrences(f.pre[b], p)

DefinedIn(f, b, k) == {f.code[b][j].r : j \in 1..k}

\* Each use of a register, `given' apart, is dominated by its definition; a phi
\* uses at the end of the block its value comes from.
DefinitionsDominate(f, given) ==
  \A b \in ListedIn(f) \cap ReachedIn(f) : \A k \in DOMAIN f.code[b] :
    LET i == f.code[b][k]
        Available(r, x, j) ==
          \/ r \in given \cup DefinedIn(f, x, j)
          \/ \E d \in ListedIn(f) \ {x} :
               r \in DefinedIn(f, d, Len(f.code[d])) /\ DominatesIn(f, d, x)
    IN \A o \in DOMAIN i.ops : i.ops[o][1] = "reg" =>
         IF IsPhi(i) THEN Available(i.ops[o][2], i.ops[o + 1][2], Len(f.code[i.ops[o + 1][2]]))
                     ELSE Available(i.ops[o][2], b, k - 1)
=============================================================================
