-------------------------- MODULE CoherenceProofs --------------------------
(***************************************************************************)
(* Proofs about the coherence service, for any packages, trees, bundles,   *)
(* overlays, baselines and contexts, any launches, edits and faults: what  *)
(* a decision was taken under, that a PASS is complete and true of what it *)
(* names, and that exit code 0 is backed by what is in the output          *)
(* directory.                                                              *)
(*                                                                         *)
(* DecisionInv is the invariant behind the decisions.  It follows one      *)
(* process: the context it resolved is an issued one, the bundle is in     *)
(* force, the ledger has a row for each assertion of the plan so far       *)
(* (Tally), and past the ladder its result is granted and complete.  The   *)
(* plan itself is read off the depth-first visit: lists, then the visit,   *)
(* then what plan returns.  ExitInv is the invariant behind the exit code: *)
(* no two callers wait at a time, and when no container was abandoned, the *)
(* directory holds what the process that runs has written so far.          *)
(* HonestInv is the invariant behind honesty: a required assertion of the  *)
(* plan is one that the package commits to but for its severity, a call    *)
(* read the tree that the request names or the mutation shows, and so each *)
(* satisfied row of a required assertion holds of what the request names.  *)
(***************************************************************************)
EXTENDS CoherenceRun, FiniteSetTheorems, SequenceTheorems, WellFoundedInduction, TLAPS

-----------------------------------------------------------------------------
(***************************************************************************)
(* Records and the files of the output directory.                          *)
(***************************************************************************)

\* The fields of an extended record.
LEMMA WithFields ==
  ASSUME NEW rec, NEW more
  PROVE  /\ DOMAIN With(rec, more) = DOMAIN rec \cup DOMAIN more
         /\ \A f \in DOMAIN more : With(rec, more)[f] = more[f]
         /\ \A f \in DOMAIN rec \ DOMAIN more : With(rec, more)[f] = rec[f]
BY DEF With

\* A file written over the result, beside it, or not at all: what it leaves of
\* the decision that is in the directory.
LEMMA WriteError ==
  ASSUME NEW class, NEW ledger, Write([result |-> ErrorResult(class, ledger)])
  PROVE  Decisions' = {}
<1> DEFINE more == [result |-> ErrorResult(class, ledger)]
<1>1. out' = With(out, more)
  BY DEF Write
<1>2. "result" \in DOMAIN more /\ more["result"] = ErrorResult(class, ledger)
  OBVIOUS
<1> HIDE DEF more
<1>3. out'["result"] = ErrorResult(class, ledger)
  BY <1>1, <1>2 DEF With
<1>4. ErrorResult(class, ledger).decision = "ERROR"
  BY DEF ErrorResult
<1> QED
  BY <1>3, <1>4 DEF Decisions

LEMMA WriteOther ==
  ASSUME NEW files, "result" \notin DOMAIN files, Write(files)
  PROVE  Decisions' = Decisions
<1>1. out' = With(out, files)
  BY DEF Write
<1>0. DOMAIN out' = DOMAIN out \cup DOMAIN files
  BY <1>1, WithFields
<1>2. "result" \in DOMAIN out' <=> "result" \in DOMAIN out
  BY <1>0
<1>3. "result" \in DOMAIN out => out'["result"] = out["result"]
  BY <1>1, WithFields
<1>4. {f \in {"result"} : Written(f)' /\ out'[f].decision # "ERROR"}
        = {f \in {"result"} : Written(f) /\ out[f].decision # "ERROR"}
  BY <1>2, <1>3 DEF Written
<1> QED
  BY <1>3, <1>4 DEF Decisions, Written

LEMMA WriteResult ==
  ASSUME NEW res, Write([result |-> res])
  PROVE  Decisions' \subseteq {res}
<1> DEFINE more == [result |-> res]
<1>1. out' = With(out, more)
  BY DEF Write
<1>2. "result" \in DOMAIN more /\ more["result"] = res
  OBVIOUS
<1>3. out'["result"] = res
  BY <1>1, <1>2, WithFields
<1> QED
  BY <1>3 DEF Decisions

LEMMA SameFiles ==
  ASSUME UNCHANGED out
  PROVE  Decisions' = Decisions
<1>1. out' = out
  OBVIOUS
<1>2. \A f : Written(f)' <=> Written(f)
  BY <1>1 DEF Written
<1>3. {f \in {"result"} : Written(f)' /\ out'[f].decision # "ERROR"}
        = {f \in {"result"} : Written(f) /\ out[f].decision # "ERROR"}
  BY <1>1, <1>2
<1> QED
  BY <1>1, <1>3 DEF Decisions

-----------------------------------------------------------------------------
(***************************************************************************)
(* Functions defined along a list.                                         *)
(***************************************************************************)

\* Induction over the naturals: the order on them is well-founded.
LEMMA Induction ==
  ASSUME NEW S \in SUBSET Nat, 0 \in S, \A n \in Nat : n \in S => n + 1 \in S
  PROVE  S = Nat
<1> SUFFICES ASSUME S # Nat PROVE FALSE
  OBVIOUS
<1> DEFINE T == Nat \ S
<1>1. PICK n \in T : \A m \in T : ~(m < n)
  <2>1. T \in SUBSET Nat /\ T # {}
    OBVIOUS
  <2> HIDE DEF T
  <2>2. \E x \in T : \A y \in T : ~(<<y, x>> \in OpToRel(<, Nat))
    BY <2>1, NatLessThanWellFounded, WFMin
  <2> QED
    BY <2>1, <2>2 DEF OpToRel
<1>2. n # 0 /\ n - 1 \in Nat /\ n - 1 < n /\ (n - 1) + 1 = n
  OBVIOUS
<1>3. n - 1 \in S
  BY <1>1, <1>2
<1> QED
  BY <1>2, <1>3

\* What the n-th element of a list makes of what there was before it, for the
\* visits of a list, the two parts of an overlay and a list of lists put end to
\* end.
Stepped(kind, visit, given, list, before, n) ==
  CASE kind = "visit"   -> IF before = Refused \/ list[n] \notin given THEN Refused
                           ELSE visit[before][list[n]]
    [] kind = "change"  -> OverlayEntry(before, list[n], given)
    [] kind = "add"     -> OverlayAdd(before, list[n])
    [] kind = "flatten" -> IF n = 1 THEN list[n] ELSE before \o list[n]

Along(f, k, kind, visit, ids, list, first) ==
  /\ f = [n \in 0..k |-> f[n]]
  /\ f[0] = first
  /\ \A n \in 1..k : f[n] = Stepped(kind, visit, ids, list, f[n - 1], n)

\* A function defined along the naturals by its first value and its step.
LEMMA AlongExists ==
  ASSUME NEW kind, NEW visit, NEW ids, NEW list, NEW first, NEW N \in Nat
  PROVE  \E f : Along(f, N, kind, visit, ids, list, first)
<1> DEFINE S == {k \in Nat : \E f : Along(f, k, kind, visit, ids, list, first)}
<1>1. 0 \in S
  <2>1. Along([n \in 0..0 |-> first], 0, kind, visit, ids, list, first)
    BY DEF Along
  <2> QED
    BY <2>1
<1>2. ASSUME NEW k \in Nat, k \in S PROVE k + 1 \in S
  <2>1. PICK f : Along(f, k, kind, visit, ids, list, first)
    BY <1>2
  <2> DEFINE x == Stepped(kind, visit, ids, list, f[k], k + 1)
             g == [n \in 0..(k + 1) |-> IF n = k + 1 THEN x ELSE f[n]]
  <2> HIDE DEF x
  <2>2. /\ g = [n \in 0..(k + 1) |-> g[n]] /\ g[k + 1] = x
        /\ \A n \in 0..k : g[n] = f[n]
    OBVIOUS
  <2> HIDE DEF g
  <2>3. g[0] = first
    <3>1. 0 \in 0..k /\ f[0] = first
      BY <2>1 DEF Along
    <3> QED
      BY <2>2, <3>1
  <2>4. ASSUME NEW n \in 1..(k + 1)
        PROVE  g[n] = Stepped(kind, visit, ids, list, g[n - 1], n)
    <3> DEFINE m == n - 1
    <3>1. m \in 0..k
      OBVIOUS
    <3> HIDE DEF m
    <3>2. g[m] = f[m]
      BY <2>2, <3>1
    <3>3. CASE n = k + 1
      <4>1. m = k
        BY <3>3 DEF m
      <4> QED
        BY <2>2, <3>2, <3>3, <4>1 DEF x, m
    <3>4. CASE n # k + 1
      <4>1. n \in 1..k /\ n \in 0..k
        BY <3>4
      <4>2. f[n] = Stepped(kind, visit, ids, list, f[n - 1], n)
        BY <2>1, <4>1 DEF Along
      <4> QED
        BY <2>2, <3>2, <4>1, <4>2 DEF m
    <3> QED
      BY <3>3, <3>4
  <2>5. Along(g, k + 1, kind, visit, ids, list, first)
    BY <2>2, <2>3, <2>4 DEF Along
  <2> QED
    BY <2>5
<1>3. S = Nat
  <2>1. S \in SUBSET Nat
    OBVIOUS
  <2> HIDE DEF S
  <2> QED
    BY <1>1, <1>2, <2>1, Induction
<1> QED
  BY <1>3

\* The visits in turn, the overlay and the concatenation as such functions.
LEMMA InTurnAlong ==
  ASSUME NEW visit, NEW ids, NEW order, NEW list, Len(list) \in Nat
  PROVE  \E f : /\ Along(f, Len(list), "visit", visit, ids, list, order)
                /\ InTurn(visit, ids, order, list) = f[Len(list)]
<1> DEFINE N == Len(list)
           Is(g) == g = [n \in 0..N |->
                           IF n = 0 THEN order
                           ELSE IF g[n - 1] = Refused \/ list[n] \notin ids THEN Refused
                           ELSE visit[g[n - 1]][list[n]]]
           after == CHOOSE g : Is(g)
<1>1. PICK f : Along(f, N, "visit", visit, ids, list, order)
  BY AlongExists
<1>2. Is(f)
  <2>1. 0 \in 0..N /\ \A n \in 0..N : n # 0 => n \in 1..N
    OBVIOUS
  <2>2. ASSUME NEW n \in 0..N
        PROVE  f[n] = IF n = 0 THEN order
                      ELSE IF f[n - 1] = Refused \/ list[n] \notin ids THEN Refused
                      ELSE visit[f[n - 1]][list[n]]
    BY <1>1, <2>1 DEF Along, Stepped
  <2>3. f = [n \in 0..N |-> f[n]]
    BY <1>1 DEF Along
  <2> HIDE DEF N
  <2> QED
    BY <2>2, <2>3
<1>3. Is(after)
  <2> HIDE DEF Is
  <2> QED
    BY <1>2
<1>4. InTurn(visit, ids, order, list) = after[N]
  BY DEF InTurn
<1>5. Along(after, N, "visit", visit, ids, list, order)
  <2> HIDE DEF after
  <2>1. 0 \in 0..N /\ \A n \in 1..N : n # 0 /\ n \in 0..N
    OBVIOUS
  <2> HIDE DEF N
  <2>2. DOMAIN after = 0..N /\ after = [n \in DOMAIN after |-> after[n]]
    BY <1>3
  <2>3. \A n \in 0..N : after[n] = IF n = 0 THEN order
                      ELSE IF after[n - 1] = Refused \/ list[n] \notin ids THEN Refused
                      ELSE visit[after[n - 1]][list[n]]
    BY <1>3
  <2> QED
    BY <2>1, <2>2, <2>3 DEF Along, Stepped
<1> QED
  BY <1>4, <1>5

LEMMA ChangedAlong ==
  ASSUME NEW byId, NEW changes, NEW central, Len(changes) \in Nat
  PROVE  \E f : /\ Along(f, Len(changes), "change", Nothing, central, changes, byId)
                /\ Changed(byId, changes, central) = f[Len(changes)]
<1> DEFINE N == Len(changes)
           Is(g) == g = [n \in 0..N |->
                           IF n = 0 THEN byId
                           ELSE OverlayEntry(g[n - 1], changes[n], central)]
           after == CHOOSE g : Is(g)
<1>1. PICK f : Along(f, N, "change", Nothing, central, changes, byId)
  BY AlongExists
<1>2. Is(f)
  <2>1. 0 \in 0..N /\ \A n \in 0..N : n # 0 => n \in 1..N
    OBVIOUS
  <2>2. ASSUME NEW n \in 0..N
        PROVE  f[n] = IF n = 0 THEN byId
                      ELSE OverlayEntry(f[n - 1], changes[n], central)
    BY <1>1, <2>1 DEF Along, Stepped
  <2>3. f = [n \in 0..N |-> f[n]]
    BY <1>1 DEF Along
  <2> HIDE DEF N
  <2> QED
    BY <2>2, <2>3
<1>3. Is(after)
  <2> HIDE DEF Is
  <2> QED
    BY <1>2
<1>4. Changed(byId, changes, central) = after[N]
  BY DEF Changed
<1>5. Along(after, N, "change", Nothing, central, changes, byId)
  <2> HIDE DEF after
  <2>1. 0 \in 0..N /\ \A n \in 1..N : n # 0 /\ n \in 0..N
    OBVIOUS
  <2> HIDE DEF N
  <2>2. DOMAIN after = 0..N /\ after = [n \in DOMAIN after |-> after[n]]
    BY <1>3
  <2>3. \A n \in 0..N : after[n] = IF n = 0 THEN byId
                      ELSE OverlayEntry(after[n - 1], changes[n], central)
    BY <1>3
  <2> QED
    BY <2>1, <2>2, <2>3 DEF Along, Stepped
<1> QED
  BY <1>4, <1>5

LEMMA ExtendedAlong ==
  ASSUME NEW byId, NEW adds, Len(adds) \in Nat
  PROVE  \E f : /\ Along(f, Len(adds), "add", Nothing, Nothing, adds, byId)
                /\ Extended(byId, adds) = f[Len(adds)]
<1> DEFINE N == Len(adds)
           Is(g) == g = [n \in 0..N |->
                           IF n = 0 THEN byId
                           ELSE OverlayAdd(g[n - 1], adds[n])]
           after == CHOOSE g : Is(g)
<1>1. PICK f : Along(f, N, "add", Nothing, Nothing, adds, byId)
  BY AlongExists
<1>2. Is(f)
  <2>1. 0 \in 0..N /\ \A n \in 0..N : n # 0 => n \in 1..N
    OBVIOUS
  <2>2. ASSUME NEW n \in 0..N
        PROVE  f[n] = IF n = 0 THEN byId
                      ELSE OverlayAdd(f[n - 1], adds[n])
    BY <1>1, <2>1 DEF Along, Stepped
  <2>3. f = [n \in 0..N |-> f[n]]
    BY <1>1 DEF Along
  <2> HIDE DEF N
  <2> QED
    BY <2>2, <2>3
<1>3. Is(after)
  <2> HIDE DEF Is
  <2> QED
    BY <1>2
<1>4. Extended(byId, adds) = after[N]
  BY DEF Extended
<1>5. Along(after, N, "add", Nothing, Nothing, adds, byId)
  <2> HIDE DEF after
  <2>1. 0 \in 0..N /\ \A n \in 1..N : n # 0 /\ n \in 0..N
    OBVIOUS
  <2> HIDE DEF N
  <2>2. DOMAIN after = 0..N /\ after = [n \in DOMAIN after |-> after[n]]
    BY <1>3
  <2>3. \A n \in 0..N : after[n] = IF n = 0 THEN byId
                      ELSE OverlayAdd(after[n - 1], adds[n])
    BY <1>3
  <2> QED
    BY <2>1, <2>2, <2>3 DEF Along, Stepped
<1> QED
  BY <1>4, <1>5

LEMMA FlattenAlong ==
  ASSUME NEW seqs, Len(seqs) \in Nat, Len(seqs) # 0
  PROVE  \E f : /\ f = [n \in 1..Len(seqs) |-> f[n]]
                /\ \A n \in 1..Len(seqs) : f[n] = IF n = 1 THEN seqs[n] ELSE f[n - 1] \o seqs[n]
                /\ FlattenSeq(seqs) = f[Len(seqs)]
<1> DEFINE N == Len(seqs)
           Is(g) == g = [i \in 1..N |-> IF i = 1 THEN seqs[i] ELSE g[i - 1] \o seqs[i]]
           flatten == CHOOSE g : Is(g)
<1>1. PICK h : Along(h, N, "flatten", Nothing, {}, seqs, Nothing)
  BY AlongExists
<1> DEFINE f == [n \in 1..N |-> h[n]]
<1>2. Is(f)
  <2>1. ASSUME NEW i \in 1..N
        PROVE  h[i] = IF i = 1 THEN seqs[i] ELSE h[i - 1] \o seqs[i]
    BY <1>1 DEF Along, Stepped
  <2>2. \A i \in 1..N : f[i] = h[i] /\ (i # 1 => f[i - 1] = h[i - 1])
    OBVIOUS
  <2>3. f = [n \in 1..N |-> f[n]]
    OBVIOUS
  <2> HIDE DEF N, f
  <2>4. ASSUME NEW i \in 1..N
        PROVE  f[i] = IF i = 1 THEN seqs[i] ELSE f[i - 1] \o seqs[i]
    BY <2>1, <2>2
  <2> QED
    BY <2>3, <2>4
<1>3. Is(flatten)
  <2> HIDE DEF Is, f
  <2> QED
    BY <1>2
<1>4. FlattenSeq(seqs) = flatten[N]
  BY DEF FlattenSeq
<1> HIDE DEF flatten
<1> QED
  BY <1>3, <1>4

\* A list of lists over a set is flattened to a list over it.
LEMMA FlattenIsList ==
  ASSUME NEW X, NEW seqs \in Seq(Seq(X))
  PROVE  FlattenSeq(seqs) \in Seq(X)
<1>1. CASE Len(seqs) = 0
  BY <1>1 DEF FlattenSeq
<1>2. CASE Len(seqs) # 0
  <2> DEFINE N == Len(seqs)
  <2>1. PICK f : /\ \A n \in 1..N : f[n] = IF n = 1 THEN seqs[n] ELSE f[n - 1] \o seqs[n]
                 /\ FlattenSeq(seqs) = f[N]
    BY <1>2, FlattenAlong
  <2> DEFINE S == {k \in Nat : k + 1 <= N => f[k + 1] \in Seq(X)}
  <2>2. 0 \in S
    BY <1>2, <2>1
  <2>3. ASSUME NEW k \in Nat, k \in S PROVE k + 1 \in S
    <3> SUFFICES ASSUME (k + 1) + 1 <= N PROVE f[(k + 1) + 1] \in Seq(X)
      OBVIOUS
    <3>1. k + 2 \in 1..N /\ k + 2 # 1 /\ (k + 2) - 1 = k + 1 /\ (k + 1) + 1 = k + 2
          /\ k + 1 <= N
      OBVIOUS
    <3> HIDE DEF N
    <3>2. f[k + 1] \in Seq(X)
      BY <2>3, <3>1
    <3>3. f[k + 2] = f[k + 1] \o seqs[k + 2]
      BY <2>1, <3>1
    <3>4. seqs[k + 2] \in Seq(X)
      BY <3>1 DEF N
    <3>5. f[k + 1] \o seqs[k + 2] \in Seq(X)
      BY <3>2, <3>4, ConcatProperties
    <3>6. f[k + 2] \in Seq(X)
      BY <3>3, <3>5
    <3> QED
      BY <3>1, <3>6, Zenon
  <2>4. S = Nat
    <3>1. S \in SUBSET Nat
      OBVIOUS
    <3> HIDE DEF S
    <3> QED
      BY <2>2, <2>3, <3>1, Induction
  <2>5. N - 1 \in Nat /\ (N - 1) + 1 = N /\ N <= N
    BY <1>2
  <2> HIDE DEF N
  <2>6. f[N] \in Seq(X)
    BY <2>4, <2>5
  <2> QED
    BY <2>1, <2>6
<1> QED
  BY <1>1, <1>2

-----------------------------------------------------------------------------
(***************************************************************************)
(* The order that the visits put the assertions in.                        *)
(***************************************************************************)

Distinct(s) == \A i, j \in 1..Len(s) : s[i] = s[j] => i = j

\* "after" extends an order of ids by some of the free ones, each once.
Grown(ids, free, order, after) ==
    /\ after \in Seq(ids)
    /\ ToSet(order) \subseteq ToSet(after)
    /\ ToSet(after) \subseteq ToSet(order) \cup free
    /\ Distinct(order) => Distinct(after)

\* What a visit makes of every order and id.
Visits(ids, free, visit) ==
    \A order \in Seq(ids), aid \in ids :
       LET after == visit[order][aid] IN
       after = Refused \/ (Grown(ids, free, order, after) /\ aid \in ToSet(after))

\* Visits that each grow the order grow it in turn, and put every id in it.
LEMMA InTurnGrows ==
  ASSUME NEW ids, NEW free, NEW visit, Visits(ids, free, visit),
         NEW order \in Seq(ids), NEW X, NEW list \in Seq(X)
  PROVE  \/ InTurn(visit, ids, order, list) = Refused
         \/ /\ Grown(ids, free, order, InTurn(visit, ids, order, list))
            /\ \A n \in 1..Len(list) : list[n] \in ToSet(InTurn(visit, ids, order, list))
<1> DEFINE N == Len(list)
<1>0. N \in Nat
  OBVIOUS
<1>1. PICK f : /\ Along(f, N, "visit", visit, ids, list, order)
               /\ InTurn(visit, ids, order, list) = f[N]
  BY InTurnAlong
<1> DEFINE Fine(k) == \/ f[k] = Refused
                      \/ /\ Grown(ids, free, order, f[k])
                         /\ \A n \in 1..k : list[n] \in ToSet(f[k])
           S == {k \in Nat : k <= N => Fine(k)}
<1>2. 0 \in S
  <2>1. f[0] = order
    BY <1>1 DEF Along
  <2> QED
    BY <2>1 DEF Grown
<1>3. ASSUME NEW k \in Nat, k \in S PROVE k + 1 \in S
  <2> SUFFICES ASSUME k + 1 <= N, f[k + 1] # Refused PROVE Fine(k + 1)
    OBVIOUS
  <2>1. k + 1 \in 1..N /\ (k + 1) - 1 = k
    BY <1>0
  <2> HIDE DEF N
  <2>2. f[k + 1] = Stepped("visit", visit, ids, list, f[k], k + 1)
    BY <1>1, <2>1 DEF Along
  <2>3. f[k] # Refused /\ list[k + 1] \in ids /\ f[k + 1] = visit[f[k]][list[k + 1]]
    BY <2>2 DEF Stepped
  <2>4. Grown(ids, free, order, f[k]) /\ \A n \in 1..k : list[n] \in ToSet(f[k])
    BY <1>3, <2>1, <2>3, <1>0
  <2>5. f[k] \in Seq(ids)
    BY <2>4 DEF Grown
  <2>6. Grown(ids, free, f[k], f[k + 1]) /\ list[k + 1] \in ToSet(f[k + 1])
    BY <2>3, <2>5 DEF Visits
  <2>7. Grown(ids, free, order, f[k + 1])
    BY <2>4, <2>6 DEF Grown
  <2>8. \A n \in 1..(k + 1) : list[n] \in ToSet(f[k + 1])
    <3>1. ToSet(f[k]) \subseteq ToSet(f[k + 1])
      BY <2>6 DEF Grown
    <3>2. \A n \in 1..(k + 1) : n \in 1..k \/ n = k + 1
      OBVIOUS
    <3> QED
      BY <2>4, <2>6, <3>1, <3>2
  <2> QED
    BY <2>7, <2>8
<1>4. S = Nat
  <2>1. S \in SUBSET Nat
    OBVIOUS
  <2> HIDE DEF S
  <2> QED
    BY <1>2, <1>3, <2>1, Induction
<1> QED
  BY <1>0, <1>1, <1>4

\* A visit depends on the visits with one free assertion less.
LEMMA VisitedAlike ==
  ASSUME NEW byId, NEW free, NEW f, NEW g, \A aid \in free : f[free \ {aid}] = g[free \ {aid}]
  PROVE  Visited(f, byId, free) = Visited(g, byId, free)
<1> DEFINE ids == DOMAIN byId
           At1(h, order, aid) ==
             LET below == InTurn(h[free \ {aid}], ids, order, byId[aid].deps) IN
             IF aid \in ToSet(order) THEN order
             ELSE IF aid \notin free \/ below = Refused THEN Refused
             ELSE Append(below, aid)
<1>1. ASSUME NEW order \in Seq(ids), NEW aid \in ids
      PROVE  At1(f, order, aid) = At1(g, order, aid)
  <2>1. CASE aid \in free
    BY <2>1
  <2>2. CASE aid \notin free
    BY <2>2
  <2> QED
    BY <2>1, <2>2
<1> HIDE DEF At1
<1>2. [order \in Seq(ids) |-> [aid \in ids |-> At1(f, order, aid)]]
        = [order \in Seq(ids) |-> [aid \in ids |-> At1(g, order, aid)]]
  <2>1. ASSUME NEW order \in Seq(ids)
        PROVE  [aid \in ids |-> At1(f, order, aid)] = [aid \in ids |-> At1(g, order, aid)]
    BY <1>1
  <2> QED
    BY <2>1
<1> QED
  BY <1>2 DEF Visited, At1

\* One visit grows the order when the visits of its dependencies do.
LEMMA VisitedGrows ==
  ASSUME NEW byId, NEW free, NEW visit,
         \A aid \in DOMAIN byId : byId[aid].deps \in Seq(ToSet(byId[aid].deps)),
         \A aid \in free : Visits(DOMAIN byId, free \ {aid}, visit[free \ {aid}])
  PROVE  Visits(DOMAIN byId, free, Visited(visit, byId, free))
<1> DEFINE ids == DOMAIN byId
<1>1. SUFFICES ASSUME NEW order \in Seq(ids), NEW aid \in ids,
                      Visited(visit, byId, free)[order][aid] # Refused
               PROVE  /\ Grown(ids, free, order, Visited(visit, byId, free)[order][aid])
                      /\ aid \in ToSet(Visited(visit, byId, free)[order][aid])
  BY DEF Visits
<1> DEFINE below == InTurn(visit[free \ {aid}], ids, order, byId[aid].deps)
           after == Visited(visit, byId, free)[order][aid]
<1>2. after = IF aid \in ToSet(order) THEN order
              ELSE IF aid \notin free \/ below = Refused THEN Refused
              ELSE Append(below, aid)
  BY DEF Visited
<1>3. CASE aid \in ToSet(order)
  BY <1>2, <1>3 DEF Grown
<1>4. CASE aid \notin ToSet(order)
  <2>1. aid \in free /\ below # Refused /\ after = Append(below, aid)
    BY <1>1, <1>2, <1>4
  <2>2. Visits(ids, free \ {aid}, visit[free \ {aid}])
    BY <2>1
  <2>3. byId[aid].deps \in Seq(ToSet(byId[aid].deps))
    OBVIOUS
  <2>4. Grown(ids, free \ {aid}, order, below)
    BY <2>1, <2>2, <2>3, InTurnGrows
  <2> HIDE DEF below, after
  <2>5. below \in Seq(ids) /\ aid \notin ToSet(below)
    BY <1>4, <2>4 DEF Grown
  <2>6. after \in Seq(ids) /\ ToSet(after) = ToSet(below) \cup {aid}
    <3>1. /\ after \in Seq(ids) /\ Len(after) = Len(below) + 1 /\ Len(below) \in Nat
          /\ \A k \in 1..Len(below) : after[k] = below[k]
          /\ after[Len(below) + 1] = aid
      BY <2>1, <2>5
    <3>2. ToSet(after) = {after[k] : k \in 1..(Len(below) + 1)}
      BY <3>1 DEF ToSet
    <3>3. ToSet(below) = {below[k] : k \in 1..Len(below)}
      BY <2>5 DEF ToSet
    <3> DEFINE places == 1..Len(below)
               last   == Len(below) + 1
    <3>4. 1..last = places \cup {last}
      BY <3>1
    <3>5. \A k \in places : after[k] = below[k]
      BY <3>1
    <3>6. after[last] = aid
      BY <3>1
    <3>7. ToSet(after) = {after[k] : k \in places \cup {last}}
      BY <3>2, <3>4
    <3>8. ToSet(below) = {below[k] : k \in places}
      BY <3>3
    <3> HIDE DEF places, last
    <3>9. {after[k] : k \in places \cup {last}} = {below[k] : k \in places} \cup {aid}
      BY <3>5, <3>6
    <3> QED
      BY <3>1, <3>7, <3>8, <3>9
  <2>7. Distinct(below) => Distinct(after)
    <3>1. \A i \in 1..Len(below) : below[i] # aid
      BY <2>5 DEF ToSet
    <3> QED
      BY <2>1, <2>5, <3>1 DEF Distinct
  <2>8. Grown(ids, free, order, after)
    BY <2>1, <2>4, <2>6, <2>7 DEF Grown
  <2> QED
    BY <2>6, <2>8 DEF after
<1> QED
  BY <1>3, <1>4

\* The nested visit, by induction on how many assertions are free.
Visiting(g, byId, n) ==
    g = [free \in {s \in SUBSET DOMAIN byId : Cardinality(s) <= n} |-> Visited(g, byId, free)]

LEMMA FreeSets ==
  ASSUME NEW ids, IsFiniteSet(ids), NEW free \in SUBSET ids
  PROVE  /\ Cardinality(free) \in Nat /\ Cardinality(free) <= Cardinality(ids)
         /\ \A aid \in free : /\ free \ {aid} \in SUBSET ids
                              /\ Cardinality(free \ {aid}) = Cardinality(free) - 1
<1>1. IsFiniteSet(free)
  BY FS_Subset
<1>2. Cardinality(free) \in Nat /\ Cardinality(free) <= Cardinality(ids)
  BY <1>1, FS_CardinalityType, FS_Subset
<1>3. \A aid \in free : Cardinality(free \ {aid}) = Cardinality(free) - 1
  BY <1>1, FS_RemoveElement
<1> QED
  BY <1>2, <1>3

\* The recursive visit exists, and is what Visit chooses.
LEMMA VisitingExists ==
  ASSUME NEW byId, IsFiniteSet(DOMAIN byId), NEW N \in Nat
  PROVE  \E g : Visiting(g, byId, N)
<1> DEFINE ids == DOMAIN byId
           Small(n) == {s \in SUBSET ids : Cardinality(s) <= n}
           S == {n \in Nat : \E g : Visiting(g, byId, n)}
<1>1. ASSUME NEW free \in SUBSET ids
      PROVE  /\ Cardinality(free) \in Nat
             /\ \A aid \in free : /\ free \ {aid} \in SUBSET ids
                                  /\ Cardinality(free \ {aid}) = Cardinality(free) - 1
  BY FreeSets
<1>2. 0 \in S
  <2> DEFINE g == [free \in Small(0) |-> Visited([x \in {} |-> x], byId, free)]
  <2>1. ASSUME NEW free \in Small(0)
        PROVE  Visited([x \in {} |-> x], byId, free) = Visited(g, byId, free)
    <3>1. free = {}
      <4>1. free \in SUBSET ids /\ Cardinality(free) <= 0
        OBVIOUS
      <4>2. ASSUME NEW aid \in free PROVE FALSE
        <5>1. Cardinality(free) \in Nat /\ free \ {aid} \in SUBSET ids
              /\ Cardinality(free \ {aid}) = Cardinality(free) - 1
          BY <1>1, <4>1
        <5>2. Cardinality(free \ {aid}) \in Nat
          BY <1>1, <5>1
        <5> QED
          BY <4>1, <5>1, <5>2
      <4> QED
        BY <4>2
    <3> HIDE DEF g
    <3> QED
      BY <3>1, VisitedAlike
  <2>2. g = [free \in Small(0) |-> Visited(g, byId, free)]
    <3> DEFINE f == [free \in Small(0) |-> Visited(g, byId, free)]
    <3>1. \A free \in Small(0) : g[free] = Visited([x \in {} |-> x], byId, free)
      OBVIOUS
    <3>2. g = [free \in Small(0) |-> g[free]]
      OBVIOUS
    <3> HIDE DEF g
    <3>3. \A free \in Small(0) : g[free] = Visited(g, byId, free)
      BY <2>1, <3>1
    <3> QED
      BY <3>2, <3>3
  <2> HIDE DEF g
  <2>3. Visiting(g, byId, 0)
    BY <2>2 DEF Visiting
  <2> QED
    BY <2>3
<1>3. ASSUME NEW n \in Nat, n \in S PROVE n + 1 \in S
  <2>1. PICK g : Visiting(g, byId, n)
    BY <1>3
  <2> DEFINE h == [free \in Small(n + 1) |-> Visited(g, byId, free)]
  <2>2. ASSUME NEW free \in Small(n + 1), NEW aid \in free
        PROVE  /\ free \ {aid} \in Small(n) /\ free \ {aid} \in Small(n + 1)
    BY <1>1
  <2>3. \A free \in Small(n) : g[free] = Visited(g, byId, free)
    BY <2>1 DEF Visiting
  <2>4. \A free \in Small(n) : free \in Small(n + 1)
    BY <1>1
  <2>5. \A free \in Small(n + 1) : h[free] = Visited(g, byId, free)
    OBVIOUS
  <2>6. h = [free \in Small(n + 1) |-> h[free]]
    OBVIOUS
  <2> HIDE DEF h, Small
  <2>7. ASSUME NEW free \in Small(n + 1)
        PROVE  Visited(g, byId, free) = Visited(h, byId, free)
    <3>1. \A aid \in free : g[free \ {aid}] = h[free \ {aid}]
      BY <2>2, <2>3, <2>4, <2>5
    <3> QED
      BY <3>1, VisitedAlike
  <2>8. h = [free \in Small(n + 1) |-> Visited(h, byId, free)]
    BY <2>5, <2>6, <2>7
  <2>9. Visiting(h, byId, n + 1)
    BY <2>8 DEF Visiting, Small
  <2> QED
    BY <2>9
<1>4. S = Nat
  <2>1. S \in SUBSET Nat
    OBVIOUS
  <2> HIDE DEF S
  <2> QED
    BY <1>2, <1>3, <2>1, Induction
<1> QED
  BY <1>4

LEMMA VisitIsVisited ==
  ASSUME NEW byId, IsFiniteSet(DOMAIN byId)
  PROVE  \A free \in SUBSET DOMAIN byId : Visit(byId)[free] = Visited(Visit(byId), byId, free)
<1> DEFINE ids == DOMAIN byId
           Is(g) == g = [free \in SUBSET ids |-> Visited(g, byId, free)]
           visit == CHOOSE g : Is(g)
<1>1. Cardinality(ids) \in Nat
  BY FS_CardinalityType
<1>2. PICK g : Visiting(g, byId, Cardinality(ids))
  BY <1>1, VisitingExists
<1>3. {s \in SUBSET ids : Cardinality(s) <= Cardinality(ids)} = SUBSET ids
  BY FreeSets
<1>4. Is(g)
  BY <1>2, <1>3 DEF Visiting
<1>5. Is(visit)
  <2> HIDE DEF Is
  <2> QED
    BY <1>4
<1>6. Visit(byId) = visit
  BY DEF Visit
<1> HIDE DEF visit
<1> QED
  BY <1>5, <1>6

\* So the visit grows the order, by induction on the assertions off the stack.
LEMMA VisitGrows ==
  ASSUME NEW byId, IsFiniteSet(DOMAIN byId),
         \A aid \in DOMAIN byId : byId[aid].deps \in Seq(ToSet(byId[aid].deps))
  PROVE  \A free \in SUBSET DOMAIN byId : Visits(DOMAIN byId, free, Visit(byId)[free])
<1> DEFINE ids == DOMAIN byId
           visit == Visit(byId)
           S == {n \in Nat : \A free \in SUBSET ids :
                               Cardinality(free) = n => Visits(ids, free, visit[free])}
<1> HIDE DEF visit
<1>1. ASSUME NEW free \in SUBSET ids,
             \A aid \in free : Visits(ids, free \ {aid}, visit[free \ {aid}])
      PROVE  Visits(ids, free, visit[free])
  <2>1. visit[free] = Visited(visit, byId, free)
    BY VisitIsVisited DEF visit
  <2> QED
    BY <1>1, <2>1, VisitedGrows
<1>2. 0 \in S
  <2> SUFFICES ASSUME NEW free \in SUBSET ids, Cardinality(free) = 0
               PROVE  Visits(ids, free, visit[free])
    OBVIOUS
  <2>1. \A aid \in free : FALSE
    <3>1. IsFiniteSet(free)
      BY FS_Subset
    <3> QED
      BY <3>1, FS_EmptySet
  <2> QED
    BY <1>1, <2>1
<1>3. ASSUME NEW n \in Nat, n \in S PROVE n + 1 \in S
  <2> SUFFICES ASSUME NEW free \in SUBSET ids, Cardinality(free) = n + 1
               PROVE  Visits(ids, free, visit[free])
    OBVIOUS
  <2>1. \A aid \in free : /\ free \ {aid} \in SUBSET ids
                          /\ Cardinality(free \ {aid}) = n
    BY FreeSets
  <2>2. \A aid \in free : Visits(ids, free \ {aid}, visit[free \ {aid}])
    BY <1>3, <2>1
  <2> QED
    BY <1>1, <2>2
<1>4. S = Nat
  <2>1. S \in SUBSET Nat
    OBVIOUS
  <2> HIDE DEF S
  <2> QED
    BY <1>2, <1>3, <2>1, Induction
<1>5. ASSUME NEW free \in SUBSET ids PROVE Visits(ids, free, visit[free])
  <2>1. Cardinality(free) \in Nat
    BY FreeSets
  <2> QED
    BY <1>4, <2>1
<1> QED
  BY <1>5 DEF visit

\* The ids of the first assertions of a list, and a list that has each once.
IdsOf(list, n) == {list[k].id : k \in 1..n}

EachOnce(list) == \A j, k \in 1..Len(list) : list[j].id = list[k].id => j = k

\* What is planned: each assertion once, and none that is required omitted.
LEMMA PlanOrders ==
  ASSUME NEW X, NEW assertions \in Seq(X), NEW needed, NEW requirements, NEW builtins,
         NEW planned, planned = plan(assertions, needed, requirements, builtins),
         planned # Refused
  PROVE  /\ Len(planned) \in Nat /\ EachOnce(planned)
         /\ needed \subseteq IdsOf(planned, Len(planned))
         /\ \A k \in 1..Len(planned) :
              planned[k] \in ToSet(assertions) /\ check_assertion(planned[k], builtins)
<1> DEFINE ids  == {a.id : a \in ToSet(assertions)}
           byId == [i \in ids |-> CHOOSE a \in ToSet(assertions) : a.id = i]
           list == [k \in DOMAIN assertions |-> assertions[k].id]
           done == InTurn(Visit(byId)[ids], ids, <<>>, list)
<1>1. /\ \A a \in ToSet(assertions) : check_assertion(a, builtins)
      /\ NoneOmitted(needed, ids)
      /\ done # Refused
      /\ planned = [k \in DOMAIN done |-> byId[done[k]]]
  BY DEF plan
<1>2. \A i \in ids : byId[i] \in ToSet(assertions) /\ byId[i].id = i
  OBVIOUS
<1>3. DOMAIN byId = ids
  OBVIOUS
<1>4. list \in Seq(ids) /\ Len(list) = Len(assertions)
      /\ \A n \in 1..Len(assertions) : list[n] = assertions[n].id
  BY DEF ToSet
<1>5. IsFiniteSet(ids)
  <2>1. IsFiniteSet(1..Len(assertions))
    BY FS_Interval
  <2>2. list \in Surjection(1..Len(assertions), ids)
    BY DEF ToSet, Surjection
  <2> QED
    BY <2>1, <2>2, FS_Surjection
<1> HIDE DEF byId, list
<1>6. \A aid \in ids : byId[aid].deps \in Seq(ToSet(byId[aid].deps))
  BY <1>1, <1>2 DEF check_assertion
<1>7. Visits(ids, ids, Visit(byId)[ids])
  BY <1>3, <1>5, <1>6, VisitGrows
<1>8. <<>> \in Seq(ids) /\ Distinct(<<>>) /\ ToSet(<<>>) = {}
  BY DEF Distinct, ToSet
<1>9. Grown(ids, ids, <<>>, done) /\ \A n \in 1..Len(list) : list[n] \in ToSet(done)
  BY <1>1, <1>4, <1>7, <1>8, InTurnGrows
<1> HIDE DEF done
<1>10. done \in Seq(ids) /\ Distinct(done)
  BY <1>8, <1>9 DEF Grown
<1>11. ids \subseteq ToSet(done)
  BY <1>4, <1>9 DEF ToSet
<1>12. needed \subseteq ToSet(done)
  BY <1>1, <1>11 DEF NoneOmitted
<1>13. planned \in Seq(ToSet(assertions)) /\ Len(planned) = Len(done)
       /\ \A k \in 1..Len(done) : planned[k] = byId[done[k]]
  BY <1>1, <1>2, <1>10
<1>14. \A k \in 1..Len(done) : planned[k].id = done[k]
  BY <1>2, <1>10, <1>13
<1>15. EachOnce(planned)
  BY <1>10, <1>13, <1>14 DEF Distinct, EachOnce
<1>16. needed \subseteq IdsOf(planned, Len(planned))
  <2>1. DOMAIN done = 1..Len(done)
    BY <1>10
  <2>2. ASSUME NEW i \in needed PROVE i \in IdsOf(planned, Len(planned))
    <3>1. PICK k \in 1..Len(done) : done[k] = i
      BY <1>12, <2>1 DEF ToSet
    <3> QED
      BY <1>13, <1>14, <3>1 DEF IdsOf
  <2> QED
    BY <2>2
<1>17. \A k \in 1..Len(planned) :
         planned[k] \in ToSet(assertions) /\ check_assertion(planned[k], builtins)
  BY <1>1, <1>2, <1>10, <1>13
<1> QED
  BY <1>13, <1>15, <1>16, <1>17

-----------------------------------------------------------------------------
(***************************************************************************)
(* The ladder: at an enforcing stage what it does not block is excused.    *)
(***************************************************************************)

\* An enforcing stage blocks what is unresolved.
LEMMA NotBlocked ==
  ASSUME NEW ledger, NEW findings, NEW in, in.stage \in Nat, in.stage >= 2,
         ~adoption_evaluate(ledger, findings, in).blocked
  PROVE  /\ \A a \in DOMAIN ledger : ledger[a] # "UNRESOLVED"
         /\ \A f \in findings : Enforce(f, in) # "BLOCK"
<1> DEFINE rows == [a \in DOMAIN ledger |-> RowEnforcement(a, ledger[a], findings, in)]
<1>1. /\ \A f \in findings : Enforce(f, in) # "BLOCK"
      /\ \A a \in DOMAIN rows : rows[a] # "BLOCK"
  BY DEF adoption_evaluate
<1>2. ASSUME NEW a \in DOMAIN ledger, ledger[a] = "UNRESOLVED"
      PROVE  FALSE
  <2>1. RowEnforcement(a, "UNRESOLVED", findings, in) = "BLOCK"
    BY DEF RowEnforcement
  <2> QED
    BY <1>1, <1>2, <2>1
<1> QED
  BY <1>1, <1>2

\* A finding that no enforcement blocks is excused.
LEMMA UnblockedIsExcused ==
  ASSUME NEW f, NEW in, Enforce(f, in) # "BLOCK", in.stage \in Nat, in.stage >= 2,
         in.time \in Nat, \A e \in in.exceptions : e.expires \in Nat
  PROVE  \/ f.class = "unpinned-model-advice"
         \/ \E e \in in.exceptions : e.fp = fingerprint(f) /\ e.expires > in.time
         \/ /\ \E b \in in.baseline :
                 /\ b.fp = fingerprint(f) /\ b.open
                 /\ ~(/\ f.aid \in DOMAIN in.floors /\ b.severity # Nothing
                      /\ in.floors[f.aid] > b.severity)
            /\ in.stage < 4
<1> DEFINE fp == fingerprint(f)
<1>1. fp[1] = f.aid
  BY DEF fingerprint
<1>2. CASE \E e \in in.exceptions : e.fp = fp
  <2>1. \/ f.class = "unpinned-model-advice"
        \/ ~\E e \in in.exceptions : e.fp = fp /\ e.expires <= in.time
    BY DEF Enforce
  <2> QED
    BY <1>2, <2>1
<1>3. CASE ~\E e \in in.exceptions : e.fp = fp
  <2>1. \/ f.class = "unpinned-model-advice"
        \/ /\ \E b \in in.baseline : b.fp = fp /\ b.open
           /\ ~Escalated(fp, in.baseline, in.floors)
           /\ ~ShelterEnds(in.stage, in.evaluator[f.aid], in.core)
    BY <1>3 DEF Enforce
  <2> QED
    BY <1>1, <2>1 DEF Escalated, ShelterEnds
<1> QED
  BY <1>2, <1>3

-----------------------------------------------------------------------------
(***************************************************************************)
(* The invariant behind the decisions: what a process has resolved so far. *)
(***************************************************************************)

AfterLadder  == {"seal", "result", "attest", "envelope", "finish"}
AfterPlan    == {"read", "reverify"} \cup AfterLadder
AfterPolicy  == {"plan"} \cup AfterPlan
AfterContext == {"policy"} \cup AfterPolicy
Steps        == {"subject", "package", "context", "exited"} \cup AfterContext

\* A process that waits for its turn or has ended, or the fields it has by now.
ProcessOK(p) ==
    \/ p \in {Idle, Gone, Late}
    \/ /\ p.pc \in Steps
       /\ p.host \in {"local", "waiting", "gaveup"}
       /\ {"pc", "host", "image", "req"} \subseteq DOMAIN p
       /\ p.pc \in AfterPolicy => {"policy", "evaluator"} \subseteq DOMAIN p
       /\ p.pc \in AfterPlan =>
            {"planned", "next", "ledger", "findings", "error"} \subseteq DOMAIN p
       /\ p.pc = "reverify" => "got" \in DOMAIN p
       /\ p.pc \in AfterLadder => "blocked" \in DOMAIN p

\* ResultOf, of the record of a process.
Result(p) ==
    [decision |-> decide(p.ledger, p.blocked),
     semantics |-> p.req.context.semantics,
     subject  |-> p.req.subject, package |-> p.req.package,
     policy   |-> p.policy,      context |-> p.req.context,
     evaluator |-> p.evaluator,
     ledger   |-> p.ledger,      evidence |-> p.findings]

\* PolicyIsCurrent and DebtWasIssued, of one policy and one result.
InForce(policy, c) ==
    /\ \/ policy = c.binding.expected
       \/ \E g \in c.binding.grandfathers : g.bundle = policy /\ g.valid_until > c.time
    /\ policy.stages # Nothing => policy.escalation # Nothing

Granted(res) ==
    res.decision # "FAIL" /\ res.context.stage >= 2 =>
      /\ res.context \in issued
      /\ \A a \in DOMAIN res.ledger : res.ledger[a] # "UNRESOLVED"
      /\ res.context.baseline # Nothing /\ res.context.exceptions # Nothing =>
           \A f \in res.evidence : Excused(f, res)

\* A PASS is complete: every assertion that the bound bundle requires was
\* evaluated and held, and so did all the others, so that it comes without a
\* finding -- whatever the overlay disables or adds and the package leaves out.
Complete(res) ==
    res.decision = "PASS" =>
      /\ res.policy.required \subseteq DOMAIN res.ledger
      /\ \A aid \in DOMAIN res.ledger : res.ledger[aid] = "SATISFIED"
      /\ res.evidence = {}

\* The ledger has a row for each assertion of the plan before the next one,
\* and where there is a finding a row that did not hold.
Tally(p) ==
    /\ Len(p.planned) \in Nat /\ p.next \in 1..(Len(p.planned) + 1)
    /\ EachOnce(p.planned)
    /\ p.policy.required \subseteq IdsOf(p.planned, Len(p.planned))
    /\ DOMAIN p.ledger = IdsOf(p.planned, p.next - 1)
    /\ p.findings # {} => \E a \in DOMAIN p.ledger : p.ledger[a] # "SATISFIED"

Lawful(p) ==
    /\ p.pc \in AfterContext => p.req.context \in issued
    /\ p.pc \in AfterPolicy => InForce(p.policy, p.req.context)
    /\ p.pc \in {"read", "reverify"} => Tally(p)
    /\ p.pc = "reverify" => p.next <= Len(p.planned)
    /\ p.pc \in AfterLadder => Granted(Result(p)) /\ Complete(Result(p))

Good(res) == InForce(res.policy, res.context) /\ Granted(res) /\ Complete(res)

\* A context as the issuer wrote it.
ContextOK(c) ==
    /\ "signed" \in DOMAIN c /\ c.signed = TRUE
    /\ c.stage \in Nat /\ c.time \in Nat
    /\ c.exceptions # Nothing => \A e \in c.exceptions : e.expires \in Nat

ContextsOK ==
    /\ \A c \in issued : ContextOK(c)
    /\ pending # Nothing => ContextOK(pending)
    /\ ctx # Nothing /\ ctx.signed => ctx \in issued

WorldOK ==
    /\ {"tree", "kind", "package", "bundle", "overlay", "baseline", "exceptions", "facts",
        "record", "stage", "revoked"} \subseteq DOMAIN world
    /\ world.stage \in Nat
    /\ world.package \in AnyPackage /\ world.bundle \in AnyBundle
    /\ world.overlay \in AnyOverlay \cup {Nothing}

ProcessesOK == DOMAIN run = Run /\ \A r \in Run : ProcessOK(run[r])

DecisionInv ==
    /\ WorldOK
    /\ ContextsOK
    /\ ProcessesOK
    /\ \A r \in Run : Lawful(run[r])
    /\ \A res \in Decisions : Good(res)

\* The result of a process is a function of its record.
LEMMA ResultOfProcess ==
  ASSUME NEW r
  PROVE  ResultOf(r) = Result(run[r])
BY DEF ResultOf, Result

\* A process goes on, and what it decided is lawful.
LEMMA Proceeds ==
  ASSUME DecisionInv, NEW r \in Run, NEW p, ProcessOK(p), Lawful(p),
         run' = [run EXCEPT ![r] = p], UNCHANGED <<world, ctx, pending, issued>>,
         \A res \in Decisions' : res \in Decisions \/ Good(res)
  PROVE  DecisionInv'
<1>1. WorldOK' /\ ContextsOK'
  BY DEF DecisionInv, WorldOK, ContextsOK, ContextOK
<1>2. ProcessesOK'
  BY DEF DecisionInv, ProcessesOK
<1>3. \A q \in Run : Lawful(run[q])'
  <2>1. TAKE q \in Run
  <2>2. Lawful(run'[q])
    BY DEF DecisionInv, ProcessesOK
  <2> QED
    BY <2>2 DEF Lawful, Granted
<1>4. \A res \in Decisions' : Good(res)'
  <2>1. \A res \in Decisions' : Good(res)
    BY DEF DecisionInv
  <2> QED
    BY <2>1 DEF Good, Granted
<1> QED
  BY <1>1, <1>2, <1>3, <1>4 DEF DecisionInv

\* A process that exits has nothing left to decide.
LEMMA ExitsWithout ==
  ASSUME DecisionInv, NEW r \in Run, run[r].pc \in Steps, NEW code, Exits(r, code)
  PROVE  \E p : /\ run' = [run EXCEPT ![r] = p] /\ ProcessOK(p) /\ Lawful(p)
               /\ p.pc \in {"exited", "gone", "late"}
<1> DEFINE more == [code |-> code]
           with == With(run[r], more)
           new  == [with EXCEPT !.pc = "exited"]
<1>1. ProcessOK(run[r]) /\ DOMAIN run = Run
  BY DEF DecisionInv, ProcessesOK
<1>2. /\ run[r].host \in {"local", "waiting", "gaveup"}
      /\ {"pc", "host", "image", "req"} \subseteq DOMAIN run[r]
  BY <1>1 DEF ProcessOK, Idle, Gone, Late, Steps, AfterContext, AfterPolicy, AfterPlan, AfterLadder
<1>3. /\ ProcessOK(Gone) /\ Lawful(Gone) /\ ProcessOK(Late) /\ Lawful(Late)
      /\ Gone.pc = "gone" /\ Late.pc = "late"
  BY DEF ProcessOK, Lawful, Gone, Late, AfterContext, AfterPolicy, AfterPlan, AfterLadder
<1>4. ProcessOK(new) /\ Lawful(new) /\ new.pc = "exited"
  <2>1. DOMAIN more = {"code"}
    OBVIOUS
  <2> HIDE DEF more
  <2>2. /\ DOMAIN with = DOMAIN run[r] \cup DOMAIN more
        /\ \A f \in DOMAIN run[r] \ DOMAIN more : with[f] = run[r][f]
    BY WithFields
  <2> HIDE DEF with
  <2>a. /\ {"pc", "host", "image", "req"} \subseteq DOMAIN with
        /\ with["host"] = run[r]["host"]
    BY <1>2, <2>1, <2>2
  <2>3. /\ {"pc", "host", "image", "req"} \subseteq DOMAIN new
        /\ new.pc = "exited" /\ new.host = run[r].host
    BY <2>a
  <2> HIDE DEF new
  <2> QED
    BY <1>2, <2>3
       DEF ProcessOK, Lawful, Steps, AfterContext, AfterPolicy, AfterPlan, AfterLadder
<1>5. CASE run[r].host = "waiting"
  <2>1. run' = [run EXCEPT ![r] = new]
    BY <1>1, <1>5 DEF Exits
  <2> QED
    BY <1>4, <2>1
<1>6. CASE run[r].host = "gaveup"
  <2>1. run' = [run EXCEPT ![r] = Late]
    BY <1>1, <1>6 DEF Exits
  <2> QED
    BY <1>3, <2>1
<1>7. CASE run[r].host = "local"
  <2>1. run' = [run EXCEPT ![r] = Gone]
    BY <1>1, <1>7 DEF Exits
  <2> QED
    BY <1>3, <2>1
<1> QED
  BY <1>2, <1>5, <1>6, <1>7

\* A process that fails leaves an error and no decision.
LEMMA FailsWithout ==
  ASSUME DecisionInv, NEW r \in Run, run[r].pc \in Steps, NEW class, NEW ledger,
         FailWith(r, class, ledger)
  PROVE  DecisionInv'
<1>1. PICK p : run' = [run EXCEPT ![r] = p] /\ ProcessOK(p) /\ Lawful(p)
  BY ExitsWithout DEF FailWith
<1>2. Decisions' = {}
  BY WriteError DEF FailWith
<1>3. UNCHANGED <<world, ctx, pending, issued>>
  BY DEF FailWith
<1> QED
  BY <1>1, <1>2, <1>3, Proceeds

-----------------------------------------------------------------------------
(***************************************************************************)
(* What each step decides.                                                 *)
(***************************************************************************)

LEMMA SubjectResolved ==
  ASSUME DecisionInv, NEW r \in Run, ResolveSubject(r)
  PROVE  DecisionInv'
<1>1. run[r].pc = "subject" /\ run[r].pc \in Steps
  BY DEF ResolveSubject, At, Steps
<1>2. CASE Fail(r, "invalid_input", Nothing)
  BY <1>1, <1>2, FailsWithout DEF Fail
<1>3. CASE Go(r, [run[r] EXCEPT !.pc = "package"])
  <2> DEFINE p == [run[r] EXCEPT !.pc = "package"]
  <2>1. ProcessOK(run[r])
    BY DEF DecisionInv, ProcessesOK
  <2>2. ProcessOK(p) /\ Lawful(p)
    BY <1>1, <2>1 DEF ProcessOK, Lawful, Idle, Gone, Late, Steps, AfterContext, AfterPolicy,
                      AfterPlan, AfterLadder
  <2>3. Decisions' = Decisions
    BY <1>3, SameFiles DEF Go
  <2> HIDE DEF p
  <2> QED
    BY <1>3, <2>2, <2>3, Proceeds DEF Go, p
<1> QED
  BY <1>2, <1>3 DEF ResolveSubject

LEMMA PackageResolved ==
  ASSUME DecisionInv, NEW r \in Run, ResolvePackage(r)
  PROVE  DecisionInv'
<1>1. run[r].pc = "package" /\ run[r].pc \in Steps
  BY DEF ResolvePackage, At, Steps
<1>2. CASE Fail(r, "invalid_input", Nothing)
  BY <1>1, <1>2, FailsWithout DEF Fail
<1>3. CASE Go(r, [run[r] EXCEPT !.pc = "context"])
  <2> DEFINE p == [run[r] EXCEPT !.pc = "context"]
  <2>1. ProcessOK(run[r])
    BY DEF DecisionInv, ProcessesOK
  <2>2. ProcessOK(p) /\ Lawful(p)
    BY <1>1, <2>1 DEF ProcessOK, Lawful, Idle, Gone, Late, Steps, AfterContext, AfterPolicy,
                      AfterPlan, AfterLadder
  <2>3. Decisions' = Decisions
    BY <1>3, SameFiles DEF Go
  <2> HIDE DEF p
  <2> QED
    BY <1>3, <2>2, <2>3, Proceeds DEF Go, p
<1> QED
  BY <1>2, <1>3 DEF ResolvePackage

\* The context is the one the request names, and the issuer signed it.
LEMMA ContextResolved ==
  ASSUME DecisionInv, NEW r \in Run, ResolveContext(r)
  PROVE  DecisionInv'
<1> DEFINE facts == load_captured_facts(ctx.facts, world.facts)
           more  == [pc |-> "policy", facts |-> facts]
           p     == With(run[r], more)
<1>1. run[r].pc = "context" /\ run[r].pc \in Steps
  BY DEF ResolveContext, At, Steps
<1>2. CASE Fail(r, "policy_resolution", Nothing)
  BY <1>1, <1>2, FailsWithout DEF Fail
<1>3. CASE Go(r, p) /\ context_load # Refused /\ check_expected(run[r].req.context, ctx)
  <2>1. ProcessOK(run[r])
    BY DEF DecisionInv, ProcessesOK
  <2>2. ctx \in issued /\ run[r].req.context = ctx
    BY <1>3 DEF context_load, verify_signature, check_expected, DecisionInv, ContextsOK
  <2>3. DOMAIN more = {"pc", "facts"} /\ more["pc"] = "policy"
    OBVIOUS
  <2> HIDE DEF more
  <2>4. /\ run[r].host \in {"local", "waiting", "gaveup"}
        /\ {"pc", "host", "image", "req"} \subseteq DOMAIN run[r]
    BY <1>1, <2>1 DEF ProcessOK, Idle, Gone, Late
  <2>a. /\ DOMAIN p = DOMAIN run[r] \cup DOMAIN more
        /\ \A f \in DOMAIN more : p[f] = more[f]
        /\ \A f \in DOMAIN run[r] \ DOMAIN more : p[f] = run[r][f]
    BY WithFields
  <2> HIDE DEF p
  <2>5. /\ {"pc", "host", "image", "req"} \subseteq DOMAIN p
        /\ p["host"] = run[r]["host"] /\ p["req"] = run[r]["req"] /\ p["pc"] = "policy"
    BY <2>a, <2>3, <2>4
  <2>6. ProcessOK(p) /\ Lawful(p)
    BY <2>2, <2>4, <2>5
       DEF ProcessOK, Lawful, Steps, AfterContext, AfterPolicy, AfterPlan, AfterLadder
  <2>7. Decisions' = Decisions
    BY <1>3, SameFiles DEF Go
  <2> QED
    BY <1>3, <2>6, <2>7, Proceeds DEF Go
<1> QED
  BY <1>2, <1>3 DEF ResolveContext

\* The bundle is the one the context binds, or a grandfathered one.
LEMMA PolicyResolved ==
  ASSUME DecisionInv, NEW r \in Run, ResolvePolicy(r)
  PROVE  DecisionInv'
<1> DEFINE c    == run[r].req.context
           evaluator == resolve_evaluator_identity(c.profile, execution_identity(r))
           more == [pc |-> "plan", policy |-> world.bundle, evaluator |-> evaluator]
           p    == With(run[r], more)
<1>1. run[r].pc = "policy" /\ run[r].pc \in Steps
  BY DEF ResolvePolicy, At, Steps, AfterContext
<1>2. CASE Fail(r, "policy_resolution", Nothing) \/ Fail(r, "invalid_input", Nothing)
  BY <1>1, <1>2, FailsWithout DEF Fail
<1>3. CASE Go(r, p) /\ resolve(world.bundle, run[r].req.policy, c.binding, c.time)
  <2>1. ProcessOK(run[r]) /\ Lawful(run[r])
    BY DEF DecisionInv, ProcessesOK
  <2>2. InForce(world.bundle, c)
    BY <1>3 DEF resolve, check_anti_rollback, Grandfathered, check_advisory_escalation, InForce
  <2>3. DOMAIN more = {"pc", "policy", "evaluator"} /\ more["pc"] = "plan"
        /\ more["policy"] = world.bundle
    OBVIOUS
  <2> HIDE DEF more
  <2>4. /\ run[r].host \in {"local", "waiting", "gaveup"}
        /\ {"pc", "host", "image", "req"} \subseteq DOMAIN run[r]
        /\ c \in issued
    BY <1>1, <2>1 DEF ProcessOK, Lawful, Idle, Gone, Late, AfterContext
  <2>a. /\ DOMAIN p = DOMAIN run[r] \cup DOMAIN more
        /\ \A f \in DOMAIN more : p[f] = more[f]
        /\ \A f \in DOMAIN run[r] \ DOMAIN more : p[f] = run[r][f]
    BY WithFields
  <2> HIDE DEF p
  <2>5. /\ {"pc", "host", "image", "req", "policy", "evaluator"} \subseteq DOMAIN p
        /\ p["host"] = run[r]["host"] /\ p["req"] = run[r]["req"] /\ p["pc"] = "plan"
        /\ p["policy"] = world.bundle
    BY <2>a, <2>3, <2>4
  <2>6. ProcessOK(p) /\ Lawful(p)
    BY <2>2, <2>4, <2>5
       DEF ProcessOK, Lawful, Steps, AfterContext, AfterPolicy, AfterPlan, AfterLadder
  <2>7. Decisions' = Decisions
    BY <1>3, SameFiles DEF Go
  <2> QED
    BY <1>3, <2>6, <2>7, Proceeds DEF Go
<1> QED
  BY <1>2, <1>3 DEF ResolvePolicy

\* The assertions of a package are a list ...
LEMMA LoadedIsList ==
  ASSUME NEW p \in AnyPackage, NEW X, \A s \in ToSet(p.specs) : ToSet(p.files[s]) \subseteq X
  PROVE  load_assertions(p) \in Seq(X)
<1> DEFINE seqs == [k \in DOMAIN p.specs |-> p.files[p.specs[k]]]
<1>1. /\ p.specs \in Seq(DOMAIN p.files)
      /\ \A s \in ToSet(p.specs) : p.files[s] \in Seq(ToSet(p.files[s]))
  BY PackagesAssumption
<1>2. \A k \in 1..Len(p.specs) : p.files[p.specs[k]] \in Seq(X)
  <2>1. TAKE k \in 1..Len(p.specs)
  <2>2. p.specs[k] \in ToSet(p.specs)
    BY <1>1 DEF ToSet
  <2>3. p.files[p.specs[k]] \in Seq(ToSet(p.files[p.specs[k]]))
        /\ ToSet(p.files[p.specs[k]]) \subseteq X
    BY <1>1, <2>2
  <2> QED
    BY <2>3
<1>3. seqs \in Seq(Seq(X))
  BY <1>1, <1>2
<1> QED
  BY <1>3, FlattenIsList DEF load_assertions

\* The assertions by id.
ById(assertions) ==
    [i \in {a.id : a \in ToSet(assertions)} |-> CHOOSE a \in ToSet(assertions) : a.id = i]

\* ... and so is what an overlay makes of one.
LEMMA AppliedIsList ==
  ASSUME NEW X, NEW assertions \in Seq(X),
         NEW o \in AnyOverlay,
         NEW central, apply_overlay(assertions, o, central) # Refused,
         NEW final, final = Extended(Changed(ById(assertions), o.changes, central), o.adds),
         NEW Y, \A i \in DOMAIN final : final[i] \in Y, ToSet(o.adds) \subseteq Y
  PROVE  final # Refused /\ apply_overlay(assertions, o, central) \in Seq(Y)
<1> DEFINE Kept(a) == IF a.id \in DOMAIN final THEN <<final[a.id]>> ELSE <<>>
           kept    == [k \in DOMAIN assertions |-> Kept(assertions[k])]
<1>1. final # Refused /\ apply_overlay(assertions, o, central) = FlattenSeq(kept) \o o.adds
  BY DEF apply_overlay, ById
<1>2. kept \in Seq(Seq(Y))
  <2>1. ASSUME NEW a PROVE Kept(a) \in Seq(Y)
    <3>1. CASE a.id \in DOMAIN final
      <4>1. final[a.id] \in Y
        BY <3>1
      <4> QED
        BY <3>1, <4>1
    <3>2. CASE a.id \notin DOMAIN final
      BY <3>2
    <3> QED
      BY <3>1, <3>2
  <2> HIDE DEF Kept
  <2> QED
    BY <2>1
<1>3. o.adds \in Seq(Y)
  <2>1. o.adds \in Seq(ToSet(o.adds))
    BY OverlaysAssumption
  <2> QED
    BY <2>1
<1> HIDE DEF kept, Kept
<1>4. FlattenSeq(kept) \in Seq(Y)
  BY <1>2, FlattenIsList
<1>5. FlattenSeq(kept) \o o.adds \in Seq(Y)
  BY <1>3, <1>4, ConcatProperties
<1> QED
  BY <1>1, <1>5

\* What is planned has each assertion once, all that the bundle requires, and
\* nothing is evaluated yet.
LEMMA PlanMade ==
  ASSUME DecisionInv, NEW r \in Run, PlanRun(r)
  PROVE  DecisionInv'
<1>1. run[r].pc = "plan" /\ run[r].pc \in Steps
  BY DEF PlanRun, At, Steps, AfterContext, AfterPolicy
<1>2. CASE Fail(r, "policy_resolution", Nothing) \/ Fail(r, "invalid_input", Nothing)
  BY <1>1, <1>2, FailsWithout DEF Fail
<1>3. ASSUME NEW planned, Len(planned) \in Nat,
             EachOnce(planned),
             run[r].policy.required \subseteq IdsOf(planned, Len(planned)),
             Go(r, With(run[r], [pc |-> "read", planned |-> planned, next |-> 1,
                                 ledger |-> <<>>, findings |-> {}, error |-> FALSE]))
      PROVE  DecisionInv'
  <2> DEFINE more == [pc |-> "read", planned |-> planned, next |-> 1,
                      ledger |-> <<>>, findings |-> {}, error |-> FALSE]
             p    == With(run[r], more)
  <2>1. ProcessOK(run[r]) /\ Lawful(run[r])
    BY DEF DecisionInv, ProcessesOK
  <2>2. Go(r, p)
    BY <1>3
  <2>3. DOMAIN more = {"pc", "planned", "next", "ledger", "findings", "error"}
        /\ more["pc"] = "read" /\ more["planned"] = planned /\ more["next"] = 1
        /\ more["ledger"] = <<>> /\ more["findings"] = {}
    OBVIOUS
  <2> HIDE DEF more
  <2>4. /\ run[r].host \in {"local", "waiting", "gaveup"}
        /\ {"pc", "host", "image", "req", "policy", "evaluator"} \subseteq DOMAIN run[r]
        /\ run[r].req.context \in issued /\ InForce(run[r].policy, run[r].req.context)
    BY <1>1, <2>1 DEF ProcessOK, Lawful, Idle, Gone, Late, AfterContext, AfterPolicy
  <2>a. /\ DOMAIN p = DOMAIN run[r] \cup DOMAIN more
        /\ \A f \in DOMAIN more : p[f] = more[f]
        /\ \A f \in DOMAIN run[r] \ DOMAIN more : p[f] = run[r][f]
    BY WithFields
  <2> HIDE DEF p
  <2>5. /\ {"pc", "host", "image", "req", "policy", "evaluator", "planned", "next", "ledger",
            "findings", "error"} \subseteq DOMAIN p
        /\ p["host"] = run[r]["host"] /\ p["req"] = run[r]["req"] /\ p["pc"] = "read"
        /\ p["policy"] = run[r]["policy"] /\ p["planned"] = planned /\ p["next"] = 1
        /\ p["ledger"] = <<>> /\ p["findings"] = {}
    BY <2>a, <2>3, <2>4
  <2>b. Tally(p)
    <3>1. DOMAIN p.ledger = {} /\ p.findings = {} /\ p.next - 1 = 0 /\ p.planned = planned
          /\ p.policy = run[r].policy
      BY <2>5
    <3>2. p.next \in 1..(Len(planned) + 1)
      BY <1>3, <2>5
    <3>3. IdsOf(planned, 0) = {}
      BY DEF IdsOf
    <3> QED
      BY <1>3, <3>1, <3>2, <3>3 DEF Tally
  <2>6. ProcessOK(p) /\ Lawful(p)
    BY <2>4, <2>5, <2>b
       DEF ProcessOK, Lawful, Steps, AfterContext, AfterPolicy, AfterPlan, AfterLadder
  <2>7. Decisions' = Decisions
    BY <1>3, SameFiles DEF Go
  <2> QED
    BY <2>2, <2>6, <2>7, Proceeds DEF Go
<1> DEFINE loaded  == load_assertions(world.package)
           applied == IF load_overlay = NoOverlay THEN loaded
                      ELSE apply_overlay(loaded, load_overlay, run[r].policy)
           planned == plan(applied, run[r].policy.required,
                           run[r].req.package.requirements, BUILTINS)
           next    == With(run[r], [pc |-> "read", planned |-> planned, next |-> 1,
                                    ledger |-> <<>>, findings |-> {}, error |-> FALSE])
<1>4. \/ Fail(r, "policy_resolution", Nothing) \/ Fail(r, "invalid_input", Nothing)
      \/ applied # Refused /\ planned # Refused /\ Go(r, next)
  BY DEF PlanRun
<1>5. ASSUME applied # Refused PROVE \E Y : applied \in Seq(Y)
  <2> DEFINE X == UNION {ToSet(world.package.files[s]) : s \in ToSet(world.package.specs)}
  <2>1. loaded \in Seq(X)
    <3>1. \A s \in ToSet(world.package.specs) : ToSet(world.package.files[s]) \subseteq X
      OBVIOUS
    <3> HIDE DEF X
    <3> QED
      BY <3>1, LoadedIsList DEF DecisionInv, WorldOK
  <2> HIDE DEF X
  <2> HIDE DEF loaded
  <2>2. CASE load_overlay = NoOverlay
    BY <2>1, <2>2
  <2>3. CASE load_overlay # NoOverlay
    <3>1. load_overlay = world.overlay
          /\ world.overlay \in AnyOverlay
      BY <2>3 DEF load_overlay, DecisionInv, WorldOK
    <3>2. applied = apply_overlay(loaded, world.overlay, run[r].policy)
      BY <2>3, <3>1
    <3> DEFINE final == Extended(Changed(ById(loaded), world.overlay.changes, run[r].policy),
                                 world.overlay.adds)
               Y     == {final[i] : i \in DOMAIN final} \cup ToSet(world.overlay.adds)
    <3>3. (\A i \in DOMAIN final : final[i] \in Y) /\ ToSet(world.overlay.adds) \subseteq Y
      OBVIOUS
    <3>4. final = Extended(Changed(ById(loaded), world.overlay.changes, run[r].policy),
                           world.overlay.adds)
      OBVIOUS
    <3> HIDE DEF applied, final, Y
    <3> QED
      BY <1>5, <2>1, <3>1, <3>2, <3>3, <3>4, AppliedIsList
  <2> QED
    BY <2>2, <2>3
<1>6. CASE applied # Refused /\ planned # Refused /\ Go(r, next)
  <2>1. PICK Y : applied \in Seq(Y)
    BY <1>5, <1>6
  <2>a. planned = plan(applied, run[r].policy.required, run[r].req.package.requirements, BUILTINS)
        /\ planned # Refused /\ Go(r, next)
    BY <1>6
  <2> HIDE DEF applied, planned
  <2>2. /\ Len(planned) \in Nat /\ EachOnce(planned)
        /\ run[r].policy.required \subseteq IdsOf(planned, Len(planned))
    BY <2>1, <2>a, PlanOrders
  <2> QED
    BY <1>3, <2>a, <2>2
<1> QED
  BY <1>2, <1>4, <1>6

LEMMA Goes ==
  ASSUME DecisionInv, NEW r \in Run, NEW p, ProcessOK(p), Lawful(p), Go(r, p)
  PROVE  DecisionInv'
<1>1. Decisions' = Decisions
  BY SameFiles DEF Go
<1> QED
  BY <1>1, Proceeds DEF Go

\* What a row leaves alone.
LEMMA RowFields ==
  ASSUME NEW rec, NEW a, NEW outcome, {"pc", "ledger", "next"} \subseteq DOMAIN rec
  PROVE  /\ DOMAIN Row(rec, a, outcome) = DOMAIN rec
         /\ Row(rec, a, outcome).pc = "read"
         /\ \A f \in DOMAIN rec \ {"pc", "ledger", "next"} : Row(rec, a, outcome)[f] = rec[f]
BY DEF Row

\* The next row of the ledger, and what else Row does.
LEMMA RowLedger ==
  ASSUME NEW rec, NEW a, NEW outcome, {"pc", "ledger", "next"} \subseteq DOMAIN rec
  PROVE  /\ Row(rec, a, outcome).next = rec.next + 1
         /\ DOMAIN Row(rec, a, outcome).ledger = DOMAIN rec.ledger \cup {a.id}
         /\ Row(rec, a, outcome).ledger[a.id] = outcome
         /\ \A i \in DOMAIN rec.ledger \ {a.id} :
              Row(rec, a, outcome).ledger[i] = rec.ledger[i]
BY DEF Row

\* The ids before the next assertion and its own.
LEMMA NextId ==
  ASSUME NEW list, EachOnce(list), Len(list) \in Nat, NEW n \in 1..Len(list)
  PROVE  /\ IdsOf(list, n) = IdsOf(list, n - 1) \cup {list[n].id}
         /\ list[n].id \notin IdsOf(list, n - 1)
<1>1. 1..n = 1..(n - 1) \cup {n}
  OBVIOUS
<1>2. IdsOf(list, n) = IdsOf(list, n - 1) \cup {list[n].id}
  BY <1>1 DEF IdsOf
<1>3. \A k \in 1..(n - 1) : list[k].id # list[n].id
  <2>1. \A k \in 1..(n - 1) : k \in 1..Len(list) /\ k # n
    OBVIOUS
  <2> QED
    BY <2>1 DEF EachOnce
<1> QED
  BY <1>2, <1>3 DEF IdsOf

\* A row for the assertion that is next keeps the tally, when the findings that
\* come with it have a row that did not hold.
LEMMA RowTally ==
  ASSUME NEW q, Tally(q), q.next <= Len(q.planned), NEW outcome, NEW p,
         p.planned = q.planned, p.policy = q.policy, p.next = q.next + 1,
         DOMAIN p.ledger = DOMAIN q.ledger \cup {q.planned[q.next].id},
         p.ledger[q.planned[q.next].id] = outcome,
         \A i \in DOMAIN q.ledger \ {q.planned[q.next].id} : p.ledger[i] = q.ledger[i],
         p.findings # {} => q.findings # {} \/ outcome # "SATISFIED"
  PROVE  Tally(p)
<1> DEFINE N == Len(q.planned)
           n == q.next
           aid == q.planned[q.next].id
<1>1. N \in Nat /\ n \in 1..N /\ Len(p.planned) = N
  BY DEF Tally
<1>2. p.next \in 1..(N + 1) /\ p.next - 1 = n
  BY <1>1
<1>3. DOMAIN q.ledger = IdsOf(q.planned, n - 1) /\ EachOnce(q.planned)
  BY DEF Tally
<1>4. /\ IdsOf(q.planned, n) = IdsOf(q.planned, n - 1) \cup {aid}
      /\ aid \notin IdsOf(q.planned, n - 1)
  BY <1>1, <1>3, NextId
<1>5. DOMAIN p.ledger = IdsOf(p.planned, p.next - 1)
  BY <1>2, <1>3, <1>4
<1>6. p.findings # {} => \E a \in DOMAIN p.ledger : p.ledger[a] # "SATISFIED"
  <2>1. CASE q.findings # {}
    <3>1. PICK a \in DOMAIN q.ledger : q.ledger[a] # "SATISFIED"
      BY <2>1 DEF Tally
    <3>2. a \in DOMAIN p.ledger /\ p.ledger[a] = q.ledger[a]
      BY <1>3, <1>4
    <3> QED
      BY <3>1, <3>2
  <2>2. CASE outcome # "SATISFIED"
    BY <2>2
  <2> QED
    BY <2>1, <2>2
<1>7. EachOnce(p.planned) /\ p.policy.required \subseteq IdsOf(p.planned, N)
  BY DEF Tally
<1> QED
  BY <1>1, <1>2, <1>5, <1>6, <1>7 DEF Tally

\* A call that is made leaves the tally as it is.
LEMMA SameTally ==
  ASSUME NEW q, Tally(q), NEW p, p.planned = q.planned, p.next = q.next, p.ledger = q.ledger,
         p.findings = q.findings, p.policy = q.policy
  PROVE  Tally(p)
BY DEF Tally

\* What evaluation keeps of a process.
LEMMA Onward ==
  ASSUME NEW q, ProcessOK(q), Lawful(q), q.pc \in {"read", "reverify"},
         NEW p, DOMAIN q \subseteq DOMAIN p, Tally(p),
         p["host"] = q["host"], p["req"] = q["req"], p["policy"] = q["policy"],
         \/ p["pc"] = "read"
         \/ p["pc"] = "reverify" /\ "got" \in DOMAIN p /\ p["next"] <= Len(p["planned"])
  PROVE  ProcessOK(p) /\ Lawful(p)
BY DEF ProcessOK, Lawful, Idle, Gone, Late, Steps, AfterContext, AfterPolicy, AfterPlan,
       AfterLadder

LEMMA Evaluating ==
  ASSUME NEW q, ProcessOK(q), q.pc \in {"read", "reverify"}
  PROVE  /\ {"pc", "host", "image", "req", "policy", "evaluator", "planned", "next", "ledger",
             "findings", "error"} \subseteq DOMAIN q
         /\ q.pc = "reverify" => "got" \in DOMAIN q
         /\ q.pc \in Steps
BY DEF ProcessOK, Idle, Gone, Late, Steps, AfterContext, AfterPolicy, AfterPlan

\* A call that is made, or a row at once.
LEMMA EvaluatorRead ==
  ASSUME DecisionInv, NEW r \in Run, EvaluatorReads(r)
  PROVE  DecisionInv'
<1> DEFINE a == run[r].planned[run[r].next]
<1> HIDE DEF a
<1>1. run[r].pc = "read" /\ ProcessOK(run[r]) /\ Lawful(run[r])
      /\ Tally(run[r]) /\ run[r].next <= Len(run[r].planned)
  BY DEF EvaluatorReads, At, DecisionInv, ProcessesOK, Lawful
<1>2. {"pc", "host", "image", "req", "policy", "evaluator", "planned", "next", "ledger",
       "findings", "error"} \subseteq DOMAIN run[r]
  BY <1>1, Evaluating
<1>3. CASE Go(r, Row(run[r], a, "UNRESOLVED"))
  <2> DEFINE p == Row(run[r], a, "UNRESOLVED")
  <2>a. p = Row(run[r], a, "UNRESOLVED")
    OBVIOUS
  <2> HIDE DEF p
  <2>1. DOMAIN p = DOMAIN run[r] /\ p["pc"] = "read"
        /\ \A f \in DOMAIN run[r] \ {"pc", "ledger", "next"} : p[f] = run[r][f]
    BY <1>2, <2>a, RowFields
  <2>2. Tally(p)
    BY <1>1, <1>2, <2>a, <2>1, RowLedger, RowTally DEF a
  <2>3. ProcessOK(p) /\ Lawful(p)
    BY <1>1, <1>2, <2>1, <2>2, Onward
  <2> QED
    BY <1>3, <2>3, Goes DEF p
<1>4. CASE Go(r, [Row(run[r], a, "UNRESOLVED") EXCEPT !.error = TRUE])
  <2> DEFINE row == Row(run[r], a, "UNRESOLVED")
             p   == [row EXCEPT !.error = TRUE]
  <2>a. row = Row(run[r], a, "UNRESOLVED")
    OBVIOUS
  <2> HIDE DEF row
  <2>1. DOMAIN row = DOMAIN run[r] /\ row["pc"] = "read"
        /\ \A f \in DOMAIN run[r] \ {"pc", "ledger", "next"} : row[f] = run[r][f]
    BY <1>2, <2>a, RowFields
  <2>2. DOMAIN p = DOMAIN row /\ p["pc"] = row["pc"] /\ p["host"] = row["host"]
        /\ p["req"] = row["req"] /\ p["policy"] = row["policy"]
        /\ p["planned"] = row["planned"] /\ p["next"] = row["next"]
        /\ p["ledger"] = row["ledger"] /\ p["findings"] = row["findings"]
    OBVIOUS
  <2> HIDE DEF p
  <2>b. Tally(row)
    BY <1>1, <1>2, <2>a, <2>1, RowLedger, RowTally DEF a
  <2>c. Tally(p)
    BY <2>2, <2>b, SameTally
  <2>3. ProcessOK(p) /\ Lawful(p)
    BY <1>1, <1>2, <2>1, <2>2, <2>c, Onward
  <2> QED
    BY <1>4, <2>3, Goes DEF p, row
<1>5. ASSUME NEW more, {"pc", "got"} \subseteq DOMAIN more, more["pc"] = "reverify",
             DOMAIN more \subseteq {"pc", "got", "error"}, Go(r, With(run[r], more))
      PROVE  DecisionInv'
  <2> DEFINE p == With(run[r], more)
  <2>1. /\ DOMAIN p = DOMAIN run[r] \cup DOMAIN more
        /\ \A f \in DOMAIN more : p[f] = more[f]
        /\ \A f \in DOMAIN run[r] \ DOMAIN more : p[f] = run[r][f]
    BY WithFields
  <2>2. /\ DOMAIN run[r] \subseteq DOMAIN p /\ "got" \in DOMAIN p /\ p["pc"] = "reverify"
        /\ p["host"] = run[r]["host"] /\ p["req"] = run[r]["req"]
        /\ p["policy"] = run[r]["policy"]
        /\ p["planned"] = run[r]["planned"] /\ p["next"] = run[r]["next"]
        /\ p["ledger"] = run[r]["ledger"] /\ p["findings"] = run[r]["findings"]
    BY <1>2, <1>5, <2>1
  <2> HIDE DEF p
  <2>b. Tally(p)
    BY <1>1, <2>2, SameTally
  <2>3. ProcessOK(p) /\ Lawful(p)
    BY <1>1, <2>2, <2>b, Onward
  <2> QED
    BY <1>5, <2>3, Goes DEF p
<1>6. ASSUME NEW got, Go(r, With(run[r], [pc |-> "reverify", error |-> TRUE, got |-> got]))
      PROVE  DecisionInv'
  <2> DEFINE more == [pc |-> "reverify", error |-> TRUE, got |-> got]
  <2>1. DOMAIN more = {"pc", "error", "got"} /\ more["pc"] = "reverify"
    OBVIOUS
  <2>2. Go(r, With(run[r], more))
    BY <1>6
  <2> HIDE DEF more
  <2> QED
    BY <1>5, <2>1, <2>2
<1>7. ASSUME NEW got, Go(r, With(run[r], [pc |-> "reverify", got |-> got]))
      PROVE  DecisionInv'
  <2> DEFINE more == [pc |-> "reverify", got |-> got]
  <2>1. DOMAIN more = {"pc", "got"} /\ more["pc"] = "reverify"
    OBVIOUS
  <2>2. Go(r, With(run[r], more))
    BY <1>7
  <2> HIDE DEF more
  <2> QED
    BY <1>5, <2>1, <2>2
<1> QED
  BY <1>3, <1>4, <1>6, <1>7 DEF EvaluatorReads, Current, a

\* The row of a call that was made, with the findings it comes with.
LEMMA Reverified ==
  ASSUME DecisionInv, NEW r \in Run, Reverify(r)
  PROVE  DecisionInv'
<1> DEFINE a == run[r].planned[run[r].next]
<1> HIDE DEF a
<1>1. run[r].pc = "reverify" /\ ProcessOK(run[r]) /\ Lawful(run[r])
      /\ Tally(run[r]) /\ run[r].next <= Len(run[r].planned)
  BY DEF Reverify, At, DecisionInv, ProcessesOK, Lawful
<1>2. {"pc", "host", "image", "req", "policy", "evaluator", "planned", "next", "ledger",
       "findings", "error", "got"} \subseteq DOMAIN run[r]
  BY <1>1, Evaluating
<1>3. ASSUME NEW outcome, NEW p,
             \/ p = [Row(run[r], a, outcome) EXCEPT !.error = TRUE, !.got = {}]
             \/ \E found : /\ p = [Row(run[r], a, outcome) EXCEPT !.findings = found, !.got = {}]
                           /\ found # {} => run[r].findings # {} \/ outcome # "SATISFIED"
      PROVE  ProcessOK(p) /\ Lawful(p)
  <2> DEFINE row == Row(run[r], a, outcome)
  <2>1. DOMAIN row = DOMAIN run[r] /\ row["pc"] = "read"
        /\ \A f \in DOMAIN run[r] \ {"pc", "ledger", "next"} : row[f] = run[r][f]
    BY <1>2, RowFields
  <2>a. /\ row.next = run[r].next + 1
        /\ DOMAIN row.ledger = DOMAIN run[r].ledger \cup {a.id}
        /\ row.ledger[a.id] = outcome
        /\ \A i \in DOMAIN run[r].ledger \ {a.id} : row.ledger[i] = run[r].ledger[i]
    BY <1>2, RowLedger
  <2> HIDE DEF row
  <2>2. \/ p = [row EXCEPT !.error = TRUE, !.got = {}]
        \/ \E found : /\ p = [row EXCEPT !.findings = found, !.got = {}]
                      /\ found # {} => run[r].findings # {} \/ outcome # "SATISFIED"
    BY <1>3 DEF row
  <2>3. DOMAIN p = DOMAIN row /\ p["pc"] = row["pc"] /\ p["host"] = row["host"]
        /\ p["req"] = row["req"] /\ p["policy"] = row["policy"]
        /\ p["planned"] = row["planned"] /\ p["next"] = row["next"]
        /\ p["ledger"] = row["ledger"]
    BY <1>2, <2>1, <2>2
  <2>4. p["findings"] # {} => run[r].findings # {} \/ outcome # "SATISFIED"
    BY <1>2, <2>1, <2>2
  <2>5. Tally(p)
    BY <1>1, <1>2, <2>1, <2>a, <2>3, <2>4, RowTally DEF a
  <2> QED
    BY <1>1, <1>2, <2>1, <2>3, <2>5, Onward
<1>4. CASE Go(r, [Row(run[r], a, "UNRESOLVED") EXCEPT !.error = TRUE, !.got = {}])
  <2> DEFINE p == [Row(run[r], a, "UNRESOLVED") EXCEPT !.error = TRUE, !.got = {}]
  <2>1. ProcessOK(p) /\ Lawful(p)
    BY <1>3
  <2> HIDE DEF p
  <2> QED
    BY <1>4, <2>1, Goes DEF p
<1>5. ASSUME NEW outcome, NEW found,
             found # {} => run[r].findings # {} \/ outcome # "SATISFIED",
             Go(r, [Row(run[r], a, outcome) EXCEPT !.findings = found, !.got = {}])
      PROVE  DecisionInv'
  <2> DEFINE p == [Row(run[r], a, outcome) EXCEPT !.findings = found, !.got = {}]
  <2>1. ProcessOK(p) /\ Lawful(p)
    BY <1>3, <1>5
  <2> HIDE DEF p
  <2> QED
    BY <1>5, <2>1, Goes DEF p
<1> DEFINE outcome == OutcomeOf(run[r].got)
           row   == Row(run[r], a, outcome)
           found == IF run[r].got = Unresolved THEN row.findings
                    ELSE row.findings \cup run[r].got
<1>6. CASE Go(r, [row EXCEPT !.findings = IF run[r].got = Unresolved THEN @
                                          ELSE @ \cup run[r].got,
                             !.got = {}])
  <2>1. Go(r, [row EXCEPT !.findings = found, !.got = {}])
    BY <1>6
  <2>2. row.findings = run[r].findings
    BY <1>2, RowFields
  <2>3. found # {} => run[r].findings # {} \/ outcome # "SATISFIED"
    BY <2>2 DEF OutcomeOf
  <2> HIDE DEF found, outcome
  <2> QED
    BY <1>5, <2>1, <2>3
<1> QED
  BY <1>4, <1>6 DEF Reverify, Current, a

\* What the ladder did not block is excused by the sets bound at issuance.
LEMMA Adopted ==
  ASSUME DecisionInv, NEW r \in Run, Adopt(r)
  PROVE  DecisionInv'
<1> DEFINE baseline   == load_adoption_sets.baseline
           exceptions == load_adoption_sets.exceptions
           in         == LadderInput(r, baseline, exceptions)
           blocked    == adoption_evaluate(run[r].ledger, run[r].findings, in).blocked
           c          == run[r].req.context
           more       == [pc |-> "seal", blocked |-> blocked]
           p          == With(run[r], more)
<1>1. run[r].pc = "read" /\ ProcessOK(run[r]) /\ Lawful(run[r])
  BY DEF Adopt, At, DecisionInv, ProcessesOK
<1>a. Tally(run[r]) /\ run[r].next > Len(run[r].planned)
  BY <1>1 DEF Lawful, Adopt
<1>b. /\ run[r].policy.required \subseteq DOMAIN run[r].ledger
      /\ run[r].findings # {} =>
           \E aid \in DOMAIN run[r].ledger : run[r].ledger[aid] # "SATISFIED"
  <2> DEFINE N == Len(run[r].planned)
             n == run[r].next
  <2>1. N \in Nat /\ n \in 1..(N + 1) /\ n > N
    BY <1>a DEF Tally
  <2> HIDE DEF N, n
  <2>2. n - 1 = N
    BY <2>1
  <2>3. /\ run[r].policy.required \subseteq IdsOf(run[r].planned, N)
        /\ DOMAIN run[r].ledger = IdsOf(run[r].planned, n - 1)
        /\ run[r].findings # {} =>
             \E aid \in DOMAIN run[r].ledger : run[r].ledger[aid] # "SATISFIED"
    BY <1>a DEF Tally, N, n
  <2> QED
    BY <2>2, <2>3
<1>2. /\ {"pc", "host", "image", "req", "policy", "evaluator", "planned", "next", "ledger",
          "findings", "error"} \subseteq DOMAIN run[r]
      /\ run[r].pc \in Steps
  BY <1>1, Evaluating
<1>3. CASE Fail(r, "execution", run[r].ledger) \/ Fail(r, "policy_resolution", Nothing)
  BY <1>2, <1>3, FailsWithout DEF Fail
<1>4. CASE verify_bound_sets(c, baseline, exceptions) /\ Go(r, p)
  <2>1. /\ c \in issued /\ InForce(run[r].policy, c)
        /\ run[r].host \in {"local", "waiting", "gaveup"}
    BY <1>1 DEF Lawful, ProcessOK, Idle, Gone, Late, AfterContext, AfterPolicy, AfterPlan
  <2>2. /\ c.stage \in Nat /\ c.time \in Nat
        /\ c.exceptions # Nothing => \A e \in c.exceptions : e.expires \in Nat
    BY <2>1 DEF DecisionInv, ContextsOK, ContextOK
  <2>3. /\ in.stage = c.stage /\ in.time = c.time /\ in.floors = run[r].policy.floors
        /\ in.baseline = baseline /\ in.exceptions = exceptions
    BY DEF LadderInput
  <2>4. /\ c.baseline # Nothing => baseline = c.baseline
        /\ c.exceptions # Nothing => exceptions = c.exceptions
    BY <1>4 DEF verify_bound_sets
  <2> HIDE DEF in, baseline, exceptions
  <2>5. ASSUME ~blocked, c.stage >= 2
        PROVE  /\ \A a \in DOMAIN run[r].ledger : run[r].ledger[a] # "UNRESOLVED"
               /\ \A f \in run[r].findings : Enforce(f, in) # "BLOCK"
    BY <2>2, <2>3, <2>5, NotBlocked
  <2>6. ASSUME ~blocked, c.stage >= 2, c.baseline # Nothing, c.exceptions # Nothing,
               NEW f \in run[r].findings, NEW res, res.context = c, res.policy = run[r].policy
        PROVE  Excused(f, res)
    <3>1. Enforce(f, in) # "BLOCK"
      BY <2>5, <2>6
    <3>2. /\ in.stage \in Nat /\ in.stage >= 2 /\ in.time \in Nat
          /\ \A e \in in.exceptions : e.expires \in Nat
      BY <2>2, <2>3, <2>4, <2>6
    <3>3. \/ f.class = "unpinned-model-advice"
          \/ \E e \in in.exceptions : e.fp = fingerprint(f) /\ e.expires > in.time
          \/ /\ \E b \in in.baseline :
                  /\ b.fp = fingerprint(f) /\ b.open
                  /\ ~(/\ f.aid \in DOMAIN in.floors /\ b.severity # Nothing
                       /\ in.floors[f.aid] > b.severity)
             /\ in.stage < 4
      BY <3>1, <3>2, UnblockedIsExcused
    <3> QED
      BY <2>3, <2>4, <2>6, <3>3 DEF Excused
  <2> HIDE DEF blocked
  <2>7. DOMAIN more = {"pc", "blocked"} /\ more["pc"] = "seal" /\ more["blocked"] = blocked
    OBVIOUS
  <2> HIDE DEF more
  <2>8. /\ DOMAIN p = DOMAIN run[r] \cup DOMAIN more
        /\ \A f \in DOMAIN more : p[f] = more[f]
        /\ \A f \in DOMAIN run[r] \ DOMAIN more : p[f] = run[r][f]
    BY WithFields
  <2> HIDE DEF p
  <2>9. /\ DOMAIN p = DOMAIN run[r] \cup {"blocked"} /\ p["pc"] = "seal"
        /\ p["host"] = run[r]["host"] /\ p["req"] = run[r]["req"]
        /\ p["policy"] = run[r]["policy"] /\ p["ledger"] = run[r]["ledger"]
        /\ p["findings"] = run[r]["findings"] /\ p["blocked"] = blocked
    BY <1>2, <2>7, <2>8
  <2>10. ProcessOK(p)
    BY <1>2, <2>1, <2>9 DEF ProcessOK, Steps, AfterContext, AfterPolicy, AfterPlan, AfterLadder
  <2>11. Granted(Result(p))
    <3> DEFINE res == Result(p)
    <3>a. /\ res.context = p.req.context /\ res.policy = p.policy /\ res.ledger = p.ledger
          /\ res.evidence = p.findings /\ res.decision = decide(p.ledger, p.blocked)
      BY DEF Result
    <3> HIDE DEF res
    <3>b. p.blocked => decide(p.ledger, p.blocked) = "FAIL"
      BY DEF decide
    <3>1. /\ res.context = c /\ res.policy = run[r].policy /\ res.ledger = run[r].ledger
          /\ res.evidence = run[r].findings /\ (res.decision # "FAIL" => ~blocked)
      BY <2>9, <3>a, <3>b
    <3>2. ASSUME res.decision # "FAIL", res.context.stage >= 2
          PROVE  \A a \in DOMAIN res.ledger : res.ledger[a] # "UNRESOLVED"
      BY <2>5, <3>1, <3>2
    <3>3. ASSUME res.decision # "FAIL", res.context.stage >= 2,
                 res.context.baseline # Nothing, res.context.exceptions # Nothing,
                 NEW f \in res.evidence
          PROVE  Excused(f, res)
      BY <2>6, <3>1, <3>3
    <3>4. Granted(res)
      BY <2>1, <3>1, <3>2, <3>3 DEF Granted
    <3> QED
      BY <3>4 DEF res
  <2>b. Complete(Result(p))
    <3> DEFINE res == Result(p)
    <3>1. /\ res.policy = p.policy /\ res.ledger = p.ledger /\ res.evidence = p.findings
          /\ res.decision = decide(p.ledger, p.blocked)
      BY DEF Result
    <3> HIDE DEF res
    <3>2. decide(p.ledger, p.blocked) = "PASS" =>
            \A aid \in DOMAIN p.ledger : p.ledger[aid] = "SATISFIED"
      BY DEF decide
    <3>3. Complete(res)
      BY <1>b, <2>9, <3>1, <3>2 DEF Complete
    <3> QED
      BY <3>3 DEF res
  <2>12. Lawful(p)
    BY <2>1, <2>9, <2>11, <2>b DEF Lawful, AfterContext, AfterPolicy, AfterPlan, AfterLadder
  <2> QED
    BY <1>4, <2>10, <2>12, Goes
<1> QED
  BY <1>3, <1>4 DEF Adopt

\* What sealing keeps of a process.
LEMMA Sealing ==
  ASSUME NEW q, ProcessOK(q), q.pc \in AfterLadder
  PROVE  /\ {"pc", "host", "image", "req", "policy", "evaluator", "planned", "next", "ledger",
             "findings", "error", "blocked"} \subseteq DOMAIN q
         /\ q.pc \in Steps
BY DEF ProcessOK, Idle, Gone, Late, Steps, AfterContext, AfterPolicy, AfterPlan, AfterLadder

LEMMA OnwardSealing ==
  ASSUME NEW q, ProcessOK(q), Lawful(q), q.pc \in AfterLadder,
         NEW p, DOMAIN q \subseteq DOMAIN p,
         \A f \in DOMAIN q \ {"pc", "fellback"} : p[f] = q[f], p["pc"] \in AfterLadder
  PROVE  ProcessOK(p) /\ Lawful(p)
<1>1. {"pc", "host", "image", "req", "policy", "evaluator", "planned", "next", "ledger",
       "findings", "error", "blocked"} \subseteq DOMAIN q
  BY Sealing
<1>2. p["host"] = q["host"] /\ p["req"] = q["req"] /\ p["policy"] = q["policy"]
      /\ p["evaluator"] = q["evaluator"] /\ p["ledger"] = q["ledger"]
      /\ p["findings"] = q["findings"] /\ p["blocked"] = q["blocked"]
  BY <1>1
<1>3. Result(p) = Result(q)
  BY <1>2 DEF Result
<1>4. ProcessOK(p)
  BY <1>1, <1>2
     DEF ProcessOK, Idle, Gone, Late, Steps, AfterContext, AfterPolicy, AfterPlan, AfterLadder
<1> QED
  BY <1>2, <1>3, <1>4 DEF Lawful, AfterContext, AfterPolicy, AfterPlan, AfterLadder

\* The next step of sealing.
LEMMA Seals ==
  ASSUME DecisionInv, NEW r \in Run, run[r].pc \in AfterLadder, NEW pc \in AfterLadder,
         run' = [run EXCEPT ![r].pc = pc], UNCHANGED <<world, ctx, pending, issued>>,
         \A res \in Decisions' : res \in Decisions \/ Good(res)
  PROVE  DecisionInv'
<1> DEFINE p == [run[r] EXCEPT !.pc = pc]
<1>1. ProcessOK(run[r]) /\ Lawful(run[r])
  BY DEF DecisionInv, ProcessesOK
<1>2. {"pc", "host", "image", "req", "policy", "evaluator", "planned", "next", "ledger",
       "findings", "error", "blocked"} \subseteq DOMAIN run[r]
  BY <1>1, Sealing
<1>3. /\ DOMAIN run[r] \subseteq DOMAIN p /\ p["pc"] = pc
      /\ \A f \in DOMAIN run[r] \ {"pc"} : p[f] = run[r][f]
  BY <1>2
<1>4. run' = [run EXCEPT ![r] = p]
  OBVIOUS
<1> HIDE DEF p
<1>5. ProcessOK(p) /\ Lawful(p)
  BY <1>1, <1>3, OnwardSealing
<1> QED
  BY <1>4, <1>5, Proceeds

\* What is sealed is what the invariant says of the process.
LEMMA ResultIsGood ==
  ASSUME DecisionInv, NEW r \in Run, run[r].pc \in AfterLadder
  PROVE  Good(ResultOf(r))
<1>1. Lawful(run[r])
  BY DEF DecisionInv
<1>2. InForce(run[r].policy, run[r].req.context) /\ Granted(Result(run[r]))
      /\ Complete(Result(run[r]))
  BY <1>1 DEF Lawful, AfterPolicy, AfterPlan
<1>3. Result(run[r]).policy = run[r].policy /\ Result(run[r]).context = run[r].req.context
  BY DEF Result
<1> QED
  BY <1>2, <1>3, ResultOfProcess DEF Good

\* The writes of sealing, and the steps that end a run.
LEMMA EvidenceSealed ==
  ASSUME DecisionInv, NEW r \in Run, SealEvidence(r)
  PROVE  DecisionInv'
<1> DEFINE files == [objects  |-> out.objects \cup run[r].findings,
                     manifest |-> run[r].findings]
<1>1. "result" \notin DOMAIN files /\ Write(files)
  BY DEF SealEvidence
<1> HIDE DEF files
<1>2. Decisions' = Decisions
  BY <1>1, WriteOther
<1>3. run[r].pc \in AfterLadder /\ "result" \in AfterLadder
  BY DEF SealEvidence, At, AfterLadder
<1> QED
  BY <1>2, <1>3, Seals DEF SealEvidence

LEMMA ResultEmitted ==
  ASSUME DecisionInv, NEW r \in Run, EmitResult(r)
  PROVE  DecisionInv'
<1>1. run[r].pc \in AfterLadder
  BY DEF EmitResult, At, AfterLadder
<1>2. ProcessOK(run[r]) /\ Lawful(run[r]) /\ DOMAIN run = Run
  BY DEF DecisionInv, ProcessesOK
<1>3. {"pc", "host", "image", "req", "policy", "evaluator", "planned", "next", "ledger",
       "findings", "error", "blocked"} \subseteq DOMAIN run[r]
  BY <1>1, <1>2, Sealing
<1>4. PICK b \in BOOLEAN :
        run' = [run EXCEPT ![r] = With(run[r], [pc |-> "attest", fellback |-> b])]
  BY <1>2 DEF EmitResult
<1> DEFINE more == [pc |-> "attest", fellback |-> b]
           p    == With(run[r], more)
<1>6. DOMAIN more = {"pc", "fellback"} /\ more["pc"] = "attest"
  OBVIOUS
<1> HIDE DEF more
<1>7. /\ DOMAIN p = DOMAIN run[r] \cup DOMAIN more
      /\ \A f \in DOMAIN more : p[f] = more[f]
      /\ \A f \in DOMAIN run[r] \ DOMAIN more : p[f] = run[r][f]
  BY WithFields
<1>8. run' = [run EXCEPT ![r] = p]
  BY <1>4 DEF more
<1> HIDE DEF p
<1>9. Decisions' \subseteq Decisions \cup {ResultOf(r)}
  <2>1. CASE Write([result |-> ResultOf(r)])
    BY <2>1, WriteResult
  <2>2. CASE UNCHANGED out
    BY <2>2, SameFiles
  <2> QED
    BY <2>1, <2>2 DEF EmitResult
<1>10. ProcessOK(p) /\ Lawful(p)
  BY <1>1, <1>2, <1>3, <1>6, <1>7, OnwardSealing DEF AfterLadder
<1> QED
  BY <1>1, <1>8, <1>9, <1>10, ResultIsGood, Proceeds DEF EmitResult

LEMMA AttestationEmitted ==
  ASSUME DecisionInv, NEW r \in Run, EmitAttestation(r)
  PROVE  DecisionInv'
<1>1. run[r].pc \in AfterLadder /\ run[r].pc \in Steps
  BY DEF EmitAttestation, At, AfterLadder, AfterPlan, AfterPolicy, AfterContext, Steps
<1>2. CASE Fail(r, "attestation", run[r].ledger)
  BY <1>1, <1>2, FailsWithout DEF Fail
<1>3. CASE /\ run' = [run EXCEPT ![r].pc = "envelope"]
           /\ UNCHANGED <<world, ctx, pending, answer, issued, trees, edits, faults>>
           /\ \/ Write([attestation |-> Attestation(r, "pilot-signer")])
              \/ UNCHANGED out
  <2> DEFINE files == [attestation |-> Attestation(r, "pilot-signer")]
  <2>1. "result" \notin DOMAIN files
    OBVIOUS
  <2>2. Write(files) \/ UNCHANGED out
    BY <1>3
  <2> HIDE DEF files
  <2>3. Decisions' = Decisions
    BY <2>1, <2>2, WriteOther, SameFiles
  <2>4. "envelope" \in AfterLadder
    BY DEF AfterLadder
  <2> QED
    BY <1>1, <1>3, <2>3, <2>4, Seals
<1> QED
  BY <1>2, <1>3 DEF EmitAttestation

LEMMA EnvelopeEmitted ==
  ASSUME DecisionInv, NEW r \in Run, EmitEnvelope(r)
  PROVE  DecisionInv'
<1> DEFINE files == [envelope |-> [decision |-> decide(run[r].ledger, run[r].blocked),
                                   signed |-> required(run[r].req.context) /\ signer_key]]
<1>1. "result" \notin DOMAIN files /\ Write(files)
  BY DEF EmitEnvelope
<1> HIDE DEF files
<1>2. Decisions' = Decisions
  BY <1>1, WriteOther
<1>3. run[r].pc \in AfterLadder /\ "finish" \in AfterLadder
  BY DEF EmitEnvelope, At, AfterLadder
<1> QED
  BY <1>2, <1>3, Seals DEF EmitEnvelope

LEMMA Finished ==
  ASSUME DecisionInv, NEW r \in Run, Finish(r)
  PROVE  DecisionInv'
<1> DEFINE detached == keys(r) # {} /\ ~Written("attestation")
           claimed  == [claim |-> DecisionClaim(r)]
           signed   == IF detached THEN [attestation |-> attest(r, "runner")] ELSE <<>>
           files    == With(claimed, signed)
<1>1. run[r].pc \in Steps
  BY DEF Finish, At, AfterLadder, AfterPlan, AfterPolicy, AfterContext, Steps
<1>2. CASE Fail(r, "policy_resolution", Nothing)
  BY <1>1, <1>2, FailsWithout DEF Fail
<1>3. CASE /\ Write(files) /\ Exits(r, CodeOf(r))
           /\ UNCHANGED <<world, ctx, pending, issued, trees, edits, faults>>
  <2> HIDE DEF detached
  <2>1. DOMAIN claimed = {"claim"} /\ DOMAIN signed \subseteq {"attestation"}
    OBVIOUS
  <2> HIDE DEF claimed, signed
  <2>2. DOMAIN files = DOMAIN claimed \cup DOMAIN signed
    BY WithFields
  <2> HIDE DEF files
  <2>3. Decisions' = Decisions
    BY <1>3, <2>1, <2>2, WriteOther
  <2>4. PICK p : run' = [run EXCEPT ![r] = p] /\ ProcessOK(p) /\ Lawful(p)
    BY <1>1, <1>3, ExitsWithout
  <2> QED
    BY <1>3, <2>3, <2>4, Proceeds
<1> QED
  BY <1>2, <1>3 DEF Finish

LEMMA Faulted ==
  ASSUME DecisionInv, NEW r \in Run, SealFails(r) \/ SigningFails(r) \/ Crash(r)
  PROVE  DecisionInv'
<1>1. CASE SealFails(r)
  <2>1. run[r].pc \in Steps
    BY <1>1 DEF SealFails, At, AfterLadder, AfterPlan, AfterPolicy, AfterContext, Steps
  <2> QED
    BY <1>1, <2>1, FailsWithout DEF SealFails
<1>2. CASE SigningFails(r)
  <2>1. run[r].pc \in Steps
    BY <1>2 DEF SigningFails, AfterLadder, AfterPlan, AfterPolicy, AfterContext, Steps
  <2> QED
    BY <1>2, <2>1, FailsWithout DEF SigningFails
<1>3. CASE Crash(r)
  <2>1. run[r].pc \in Steps
    BY <1>3 DEF Crash, Running, DecisionInv, ProcessesOK, ProcessOK, Idle, Gone, Late
  <2>2. PICK p : run' = [run EXCEPT ![r] = p] /\ ProcessOK(p) /\ Lawful(p)
    BY <1>3, <2>1, ExitsWithout DEF Crash
  <2>3. Decisions' = Decisions
    BY <1>3, SameFiles DEF Crash
  <2> QED
    BY <1>3, <2>2, <2>3, Proceeds DEF Crash
<1> QED
  BY <1>1, <1>2, <1>3

\* A process that has ended or waits has nothing to decide.
LEMMA Resting ==
  /\ ProcessOK(Gone) /\ Lawful(Gone) /\ ProcessOK(Late) /\ Lawful(Late)
  /\ ProcessOK(Idle) /\ Lawful(Idle)
BY DEF ProcessOK, Lawful, Idle, Gone, Late, AfterContext, AfterPolicy, AfterPlan, AfterLadder

LEMMA HostActs ==
  ASSUME DecisionInv, NEW r \in Run, HostRelays(r) \/ HostGivesUp(r)
  PROVE  DecisionInv'
<1>1. CASE HostRelays(r)
  <2>1. Decisions' \subseteq Decisions
    <3>1. CASE UNCHANGED out
      BY <3>1, SameFiles
    <3>2. CASE Write([result |-> ErrorResult("execution", Nothing)])
      BY <3>2, WriteError
    <3> QED
      BY <1>1, <3>1, <3>2 DEF HostRelays
  <2> QED
    BY <1>1, <2>1, Resting, Proceeds DEF HostRelays
<1>2. CASE HostGivesUp(r)
  <2>1. Decisions' = {}
    BY <1>2, WriteError DEF HostGivesUp
  <2>2. CASE run' = [run EXCEPT ![r] = Gone]
    BY <1>2, <2>1, <2>2, Resting, Proceeds DEF HostGivesUp
  <2>3. CASE run' = [run EXCEPT ![r].host = "gaveup"]
    <3> DEFINE p == [run[r] EXCEPT !.host = "gaveup"]
    <3>1. ProcessOK(run[r]) /\ Lawful(run[r]) /\ run[r] \notin {Idle, Gone, Late}
      BY <1>2 DEF HostGivesUp, Running, DecisionInv, ProcessesOK, Idle, Gone, Late
    <3>2. "host" \in DOMAIN run[r]
      BY <3>1 DEF ProcessOK
    <3>3. /\ DOMAIN p = DOMAIN run[r] /\ p["host"] = "gaveup"
          /\ \A f \in DOMAIN run[r] \ {"host"} : p[f] = run[r][f]
      BY <3>2
    <3>4. run' = [run EXCEPT ![r] = p]
      BY <2>3
    <3> HIDE DEF p
    <3>5. ProcessOK(p)
      BY <3>1, <3>2, <3>3
         DEF ProcessOK, Idle, Gone, Late, Steps, AfterContext, AfterPolicy, AfterPlan,
             AfterLadder
    <3>6. p.pc \in AfterLadder => Result(p) = Result(run[r])
      <4>1. SUFFICES ASSUME p.pc \in AfterLadder PROVE Result(p) = Result(run[r])
        OBVIOUS
      <4>2. run[r].pc \in AfterLadder
        BY <3>1, <3>3, <4>1 DEF ProcessOK
      <4>3. {"pc", "host", "image", "req", "policy", "evaluator", "planned", "next", "ledger",
             "findings", "error", "blocked"} \subseteq DOMAIN run[r]
        BY <3>1, <4>2, Sealing
      <4>4. p["req"] = run[r]["req"] /\ p["policy"] = run[r]["policy"]
            /\ p["evaluator"] = run[r]["evaluator"] /\ p["ledger"] = run[r]["ledger"]
            /\ p["findings"] = run[r]["findings"] /\ p["blocked"] = run[r]["blocked"]
        BY <3>3, <4>3
      <4> QED
        BY <4>4 DEF Result
    <3>a. p.pc \in {"read", "reverify"} =>
            Tally(p) /\ (p.pc = "reverify" => p.next <= Len(p.planned))
      <4> SUFFICES ASSUME p.pc \in {"read", "reverify"}
                   PROVE  Tally(p) /\ (p.pc = "reverify" => p.next <= Len(p.planned))
        OBVIOUS
      <4>1. run[r].pc = p.pc
        BY <3>1, <3>3 DEF ProcessOK
      <4>2. {"planned", "next", "ledger", "findings", "policy"} \subseteq DOMAIN run[r]
        BY <3>1, <4>1, Evaluating
      <4>3. p["planned"] = run[r]["planned"] /\ p["next"] = run[r]["next"]
            /\ p["ledger"] = run[r]["ledger"] /\ p["findings"] = run[r]["findings"]
            /\ p["policy"] = run[r]["policy"]
        BY <3>3, <4>2
      <4>4. Tally(run[r]) /\ (run[r].pc = "reverify" => run[r].next <= Len(run[r].planned))
        BY <3>1, <4>1 DEF Lawful
      <4> QED
        BY <4>1, <4>3, <4>4, SameTally
    <3>7. Lawful(p)
      BY <3>1, <3>2, <3>3, <3>6, <3>a DEF ProcessOK, Lawful, AfterContext, AfterPolicy, AfterPlan
    <3> QED
      BY <1>2, <2>1, <3>4, <3>5, <3>7, Proceeds DEF HostGivesUp
  <2> QED
    BY <1>2, <2>2, <2>3 DEF HostGivesUp
<1> QED
  BY <1>1, <1>2

\* A new process has decided nothing.
LEMMA Invoked ==
  ASSUME DecisionInv, NEW r \in Run,
         \/ InvokeLocal(r)
         \/ \E v \in Versions : InvokeForeign(r, v)
         \/ \E l \in Launches : InvokeContained(r, l.config, l.outputs)
  PROVE  DecisionInv'
<1>1. ASSUME NEW host \in {"local", "waiting"}, NEW policy, NEW image,
             run' = [run EXCEPT ![r] = Started(host, policy, image)],
             UNCHANGED <<world, ctx, pending, out, issued>>
      PROVE  DecisionInv'
  <2> DEFINE p == Started(host, policy, image)
  <2>1. /\ {"pc", "host", "image", "req"} \subseteq DOMAIN p /\ p.pc = "subject" /\ p.host = host
    BY DEF Started
  <2> HIDE DEF p
  <2>2. ProcessOK(p) /\ Lawful(p)
    BY <2>1
       DEF ProcessOK, Lawful, Steps, AfterContext, AfterPolicy, AfterPlan, AfterLadder
  <2>3. run' = [run EXCEPT ![r] = p]
    BY <1>1 DEF p
  <2>4. Decisions' = Decisions
    BY <1>1, SameFiles
  <2> QED
    BY <1>1, <2>2, <2>3, <2>4, Proceeds
<1>2. ASSUME NEW class, run' = [run EXCEPT ![r] = Gone],
             Write([result |-> ErrorResult(class, Nothing)]),
             UNCHANGED <<world, ctx, pending, issued>>
      PROVE  DecisionInv'
  <2>1. Decisions' = {}
    BY <1>2, WriteError
  <2> QED
    BY <1>2, <2>1, Resting, Proceeds
<1>3. CASE InvokeLocal(r)
  <2>1. PICK policy \in Bundles : run' = [run EXCEPT ![r] = Started("local", policy, Nothing)]
    BY <1>3 DEF InvokeLocal
  <2> QED
    BY <1>1, <1>3, <2>1 DEF InvokeLocal
<1>4. CASE \E v \in Versions : InvokeForeign(r, v)
  BY <1>2, <1>4 DEF InvokeForeign
<1>5. ASSUME NEW l \in Launches, InvokeContained(r, l.config, l.outputs)
      PROVE  DecisionInv'
  <2>1. CASE LaunchAccepted(l.config, l.outputs)
    <3>1. /\ run' = [run EXCEPT ![r] =
                       Started("waiting", ctx.binding.expected, l.config.image.digest)]
          /\ UNCHANGED <<world, ctx, pending, out, issued>>
      BY <1>5, <2>1 DEF InvokeContained
    <3> QED
      BY <1>1, <3>1
  <2>2. CASE ~LaunchAccepted(l.config, l.outputs)
    BY <1>2, <1>5, <2>2 DEF InvokeContained
  <2> QED
    BY <2>1, <2>2
<1> QED
  BY <1>3, <1>4, <1>5

\* A step of another actor: it takes no decision and no context back.
LEMMA Elsewhere ==
  ASSUME DecisionInv, WorldOK', ContextsOK', UNCHANGED run, issued \subseteq issued',
         Decisions' \subseteq Decisions
  PROVE  DecisionInv'
<1>1. ProcessesOK'
  BY DEF DecisionInv, ProcessesOK
<1>2. \A res : Granted(res) => Granted(res)'
  BY DEF Granted, Excused
<1>3. \A q \in Run : Lawful(run[q])'
  <2>1. TAKE q \in Run
  <2>2. Lawful(run[q])
    BY DEF DecisionInv
  <2>3. Granted(Result(run[q])) => Granted(Result(run[q]))'
    <3> DEFINE res == Result(run[q])
    <3>1. res' = res
      BY DEF Result
    <3> QED
      BY <1>2, <3>1 DEF Granted, Excused
  <2> QED
    BY <2>2, <2>3 DEF Lawful
<1>4. \A res \in Decisions' : Good(res)'
  BY <1>2 DEF DecisionInv, Good
<1> QED
  BY <1>1, <1>3, <1>4 DEF DecisionInv

\* Issuing keeps contexts well formed; edits leave a foreign one unsigned.
LEMMA Issued ==
  ASSUME DecisionInv, NEW i \in Issues, IssueSets(i)
  PROVE  DecisionInv'
<1>1. /\ i.time \in Nat
      /\ i.exceptions # Nothing => \A e \in i.exceptions : e.expires \in Nat
  BY IssuesAssumption
<1>2. WorldOK /\ ContextsOK
  BY DEF DecisionInv
<1>3. effective_stage(i.requested) \in Nat
  BY <1>2 DEF IssueSets, effective_stage, WorldOK
<1> DEFINE c == NewContext(i)
<1>4. /\ "signed" \in DOMAIN c /\ c.signed = TRUE /\ c.time = i.time
      /\ c.stage = effective_stage(i.requested) /\ c.exceptions = i.exceptions
  BY DEF NewContext
<1>5. pending' = c
  BY DEF IssueSets
<1> HIDE DEF c
<1>6. ContextOK(c)
  BY <1>1, <1>3, <1>4 DEF ContextOK
<1>7. ContextsOK'
  BY <1>2, <1>5, <1>6 DEF ContextsOK, ContextOK, IssueSets
<1>8. WorldOK'
  BY <1>2 DEF WorldOK, IssueSets
<1>9. Decisions' = Decisions
  BY SameFiles DEF IssueSets
<1> QED
  BY <1>7, <1>8, <1>9, Elsewhere DEF IssueSets

LEMMA ContextIssued ==
  ASSUME DecisionInv, IssueContext
  PROVE  DecisionInv'
<1>1. WorldOK' /\ ContextsOK'
  BY DEF DecisionInv, WorldOK, ContextsOK, ContextOK, IssueContext
<1>2. Decisions' = Decisions
  BY SameFiles DEF IssueContext
<1> QED
  BY <1>1, <1>2, Elsewhere DEF IssueContext

LEMMA Edited ==
  ASSUME DecisionInv, Edit
  PROVE  DecisionInv'
<1>1. WorldOK /\ ContextsOK
  BY DEF DecisionInv
<1>2. WorldOK'
  BY <1>1 DEF WorldOK, Edit, AnyPackage, AnyBundle, AnyOverlay
<1>3. ContextsOK'
  <2>1. CASE UNCHANGED ctx
    BY <1>1, <2>1 DEF ContextsOK, ContextOK, Edit
  <2>2. CASE ctx # Nothing /\ ctx.signed /\ ctx' = [ctx EXCEPT !.stage = 0, !.signed = FALSE]
    <3>1. "signed" \in DOMAIN ctx
      BY <1>1, <2>2 DEF ContextsOK, ContextOK
    <3>2. ctx'.signed = FALSE
      BY <2>2, <3>1
    <3> QED
      BY <1>1, <3>2 DEF ContextsOK, ContextOK, Edit
  <2> QED
    BY <2>1, <2>2 DEF Edit
<1>4. Decisions' = Decisions
  BY SameFiles DEF Edit
<1> QED
  BY <1>2, <1>3, <1>4, Elsewhere DEF Edit

LEMMA ClaimVerified ==
  ASSUME DecisionInv, VerifyClaim
  PROVE  DecisionInv'
<1>1. PICK check, state : out' = [out EXCEPT !.claim.check = check, !.claim.state = state]
  BY DEF VerifyClaim
<1>2. DOMAIN out' = DOMAIN out
  BY <1>1
<1>3. "result" \in DOMAIN out => out'["result"] = out["result"]
  BY <1>1
<1>4. Decisions' = Decisions
  BY <1>2, <1>3 DEF Decisions, Written
<1>5. WorldOK' /\ ContextsOK'
  BY DEF DecisionInv, WorldOK, ContextsOK, ContextOK, VerifyClaim
<1> QED
  BY <1>4, <1>5, Elsewhere DEF VerifyClaim

\* The invariant holds at first and is kept.
LEMMA DecisionInit ==
  ASSUME Init
  PROVE  DecisionInv
<1>1. WorldOK
  BY WorldsAssumption DEF Init, WorldOK, AnyPackage, AnyBundle, AnyOverlay
<1>2. ContextsOK
  BY DEF Init, ContextsOK
<1>3. ProcessesOK /\ \A r \in Run : Lawful(run[r])
  BY Resting DEF Init, ProcessesOK
<1>4. "result" \notin DOMAIN out
  BY DEF Init
<1>5. Decisions = {}
  BY <1>4 DEF Decisions, Written
<1> QED
  BY <1>1, <1>2, <1>3, <1>5 DEF DecisionInv

LEMMA DecisionNext ==
  ASSUME DecisionInv, [Next]_vars
  PROVE  DecisionInv'
<1>1. CASE UNCHANGED vars
  <2>1. Decisions' = Decisions
    BY <1>1, SameFiles DEF vars
  <2>2. WorldOK' /\ ContextsOK'
    BY <1>1 DEF vars, DecisionInv, WorldOK, ContextsOK, ContextOK
  <2> QED
    BY <1>1, <2>1, <2>2, Elsewhere DEF vars
<1>2. ASSUME NEW r \in Run, ProcessStep(r)
      PROVE  DecisionInv'
  BY <1>2, SubjectResolved, PackageResolved, ContextResolved, PolicyResolved, PlanMade,
     EvaluatorRead, Reverified, Adopted, EvidenceSealed, ResultEmitted, AttestationEmitted,
     EnvelopeEmitted, Finished
     DEF ProcessStep
<1> QED
  BY <1>1, <1>2, Issued, ContextIssued, Edited, ClaimVerified, Invoked, Faulted, HostActs
     DEF Next

\* What a process has resolved, planned and evaluated so far, and what is in the
\* output directory, are lawful at every step: the inductive invariant of the
\* resolution, evaluation and sealing of __main__.run and evaluate.run.
THEOREM DecisionsAreLawful == Spec => []DecisionInv
<1>1. Init => DecisionInv
  BY DecisionInit
<1>2. DecisionInv /\ [Next]_vars => DecisionInv'
  BY DecisionNext
<1> QED
  BY <1>1, <1>2, PTL DEF Spec

\* No decision is taken under a rolled-back bundle, whatever is published while
\* the run resolves its policy (policy.resolve, policy.check_anti_rollback).
THEOREM PolicyStaysCurrent == Spec => []PolicyIsCurrent
<1>1. DecisionInv => PolicyIsCurrent
  BY DEF DecisionInv, Good, InForce, PolicyIsCurrent
<1> QED
  BY <1>1, DecisionsAreLawful, PTL

\* Every decision in the output directory is Complete.
PassIsComplete == \A res \in Decisions : Complete(res)

\* A PASS has a satisfied row for every assertion that the bound bundle requires
\* and for every other one of the plan, and no finding (plan.plan,
\* policy.apply_overlay, evaluate.run, result.decide).
THEOREM PassesAreComplete == Spec => []PassIsComplete
<1>1. DecisionInv => PassIsComplete
  BY DEF DecisionInv, Good, PassIsComplete
<1> QED
  BY <1>1, DecisionsAreLawful, PTL

\* At an enforcing stage what does not fail was excused by the sets bound in an
\* issued context (context.verify_bound_sets, adoption.evaluate).
THEOREM DebtStaysIssued == Spec => []DebtWasIssued
<1>1. DecisionInv => DebtWasIssued
  BY DEF DecisionInv, Good, Granted, DebtWasIssued
<1> QED
  BY <1>1, DecisionsAreLawful, PTL

-----------------------------------------------------------------------------
(***************************************************************************)
(* The exit code: what is in the output directory when it is given.        *)
(***************************************************************************)

Emitting == {"result", "attest", "envelope", "finish"}
Early    == Steps \ (Emitting \cup {"exited"})

\* Attestation, of the record of a process, by the single key.
Attested(p) ==
    [statement |-> Result(p), signer |-> "pilot-signer",
     bound |-> [subject |-> p.req.subject, package |-> p.req.package,
                policy |-> p.policy, context |-> p.req.context,
                evaluator |-> p.evaluator, evidence |-> p.findings]]

\* A process whose caller waits for it.
Present(q) == run[q] \notin {Idle, Gone, Late} /\ run[q].host # "gaveup"
Quiet      == \A q \in Run : ~Abandoned(q)

EvidenceIn(p, o) ==
    /\ {"manifest", "objects"} \subseteq DOMAIN o
    /\ o.manifest = p.findings /\ p.findings \subseteq o.objects
ResultIn(p, o) == "result" \in DOMAIN o /\ o.result = Result(p)
AttestationIn(p, o) ==
    required(p.req.context) => "attestation" \in DOMAIN o /\ o.attestation = Attested(p)

\* What a process with the directory "o" to itself has written by now.
Backing(p, o) ==
    /\ p.pc \in Emitting => EvidenceIn(p, o)
    /\ p.pc \in Emitting \ {"result"} /\ ~p.fellback => ResultIn(p, o)
    /\ p.pc \in {"envelope", "finish"} => AttestationIn(p, o)
    /\ p.pc = "exited" /\ p.code = 0 /\ ~p.fellback =>
         EvidenceIn(p, o) /\ ResultIn(p, o) /\ AttestationIn(p, o)

\* Callers wait for one process at a time; in a directory that no abandoned
\* container shares, it finds what it wrote.
ExitInv ==
    /\ DOMAIN answer = Run
    /\ \A q \in Run : Present(q) => answer[q] = Nothing
    /\ \A q1, q2 \in Run : Present(q1) /\ Present(q2) => q1 = q2
    /\ \A q \in Run : run[q].pc \in Emitting \ {"result"} => "fellback" \in DOMAIN run[q]
    /\ \A q \in Run : run[q].pc = "exited" => run[q].host = "waiting"
    /\ Quiet => \A q \in Run : Present(q) => Backing(run[q], out)

\* A write keeps the files it does not name and puts those it does.
LEMMA WriteKeeps ==
  ASSUME NEW files, Write(files), NEW f \in DOMAIN out, f \notin DOMAIN files
  PROVE  f \in DOMAIN out' /\ out'[f] = out[f]
<1>1. out' = With(out, files)
  BY DEF Write
<1>2. DOMAIN out' = DOMAIN out \cup DOMAIN files
  BY <1>1, WithFields
<1>3. out'[f] = out[f]
  BY <1>1, WithFields
<1> QED
  BY <1>2, <1>3

LEMMA WritePuts ==
  ASSUME NEW files, Write(files), NEW f \in DOMAIN files
  PROVE  f \in DOMAIN out' /\ out'[f] = files[f]
<1>1. out' = With(out, files)
  BY DEF Write
<1>2. DOMAIN out' = DOMAIN out \cup DOMAIN files
  BY <1>1, WithFields
<1>3. out'[f] = files[f]
  BY <1>1 DEF With
<1> QED
  BY <1>2, <1>3

\* The caller of a process sees at most one at a time.
LEMMA OneAtATime ==
  ASSUME ExitInv, NEW r \in Run, Present(r), NEW q \in Run, q # r
  PROVE  ~Present(q)
BY DEF ExitInv

LEMMA Names ==
  /\ Idle.pc = "idle" /\ Gone.pc = "gone" /\ Late.pc = "late"
  /\ \A p : p.pc \in Steps => p \notin {Idle, Gone, Late}
BY DEF Idle, Gone, Late, Steps, AfterContext, AfterPolicy, AfterPlan, AfterLadder

\* A process that goes on.
LEMMA GoesOn ==
  ASSUME DecisionInv, ExitInv, NEW r \in Run, run[r].pc \in Steps,
         NEW p, run' = [run EXCEPT ![r] = p], UNCHANGED answer,
         p.pc \in Steps, p.host = run[r].host,
         p.pc \in Emitting \ {"result"} => "fellback" \in DOMAIN p,
         p.pc = "exited" => p.host = "waiting",
         Present(r) /\ Quiet => Backing(p, out')
  PROVE  ExitInv'
<1>1. DOMAIN run = Run /\ run[r] \notin {Idle, Gone, Late} /\ p \notin {Idle, Gone, Late}
  BY Names DEF DecisionInv, ProcessesOK
<1>2. /\ run'[r] = p
      /\ \A q \in Run \ {r} : run'[q] = run[q]
  BY <1>1
<1>3. \A q \in Run : /\ Present(q)' <=> Present(q)
                     /\ Abandoned(q)' <=> Abandoned(q)
  BY <1>1, <1>2 DEF Present, Abandoned
<1>4. ASSUME Quiet', NEW q \in Run, Present(q)'
      PROVE  Backing(run'[q], out')
  <2>1. Present(r) /\ Quiet
    <3>1. Quiet
      BY <1>3, <1>4 DEF Quiet
    <3> QED
      BY <1>1, <3>1 DEF Quiet, Abandoned, Present
  <2>2. q = r
    BY <1>3, <1>4, <2>1, OneAtATime
  <2>3. run'[q] = p
    BY <1>2, <2>2
  <2> QED
    BY <2>1, <2>3
<1> QED
  BY <1>2, <1>3, <1>4 DEF ExitInv

\* A process that ends, and its caller's answer.
LEMMA Ends ==
  ASSUME DecisionInv, ExitInv, NEW r \in Run, run[r].pc \in Steps,
         NEW p \in {Gone, Late}, run' = [run EXCEPT ![r] = p], Abandoned(r) => p = Late,
         DOMAIN answer' = DOMAIN answer, \A q \in Run \ {r} : answer'[q] = answer[q]
  PROVE  ExitInv'
<1>1. DOMAIN run = Run /\ run[r] \notin {Idle, Gone, Late}
  BY Names DEF DecisionInv, ProcessesOK
<1>2. /\ run'[r] = p
      /\ \A q \in Run \ {r} : run'[q] = run[q] /\ answer'[q] = answer[q]
      /\ DOMAIN answer' = Run
  BY <1>1 DEF ExitInv
<1>3. /\ ~Present(r)'
      /\ \A q \in Run \ {r} : Present(q)' <=> Present(q)
  BY <1>2 DEF Present
<1>4. ASSUME Quiet', NEW q \in Run, Present(q)'
      PROVE  FALSE
  <2>1. Present(r)
    BY <1>1, <1>2, <1>4 DEF Present, Abandoned, Quiet
  <2> QED
    BY <1>3, <1>4, <2>1, OneAtATime
<1>5. \A q \in Run :
        /\ run'[q].pc \in Emitting \ {"result"} => "fellback" \in DOMAIN run'[q]
        /\ run'[q].pc = "exited" => run'[q].host = "waiting"
  BY <1>2, Names DEF ExitInv, Emitting
<1> QED
  BY <1>2, <1>3, <1>4, <1>5 DEF ExitInv

\* A process that exits: with the code 0 only when what it wrote is there.
LEMMA Exited ==
  ASSUME DecisionInv, ExitInv, NEW r \in Run, run[r].pc \in Steps, NEW code, Exits(r, code),
         code = 0 => /\ run[r].pc = "finish"
                     /\ Present(r) /\ Quiet => Backing(run[r], out')
  PROVE  ExitInv'
<1> DEFINE more == [code |-> code]
           with == With(run[r], more)
           new  == [with EXCEPT !.pc = "exited"]
<1>1. ProcessOK(run[r]) /\ DOMAIN run = Run /\ DOMAIN answer = Run
  BY DEF DecisionInv, ProcessesOK, ExitInv
<1>2. /\ run[r].host \in {"local", "waiting", "gaveup"}
      /\ {"pc", "host", "image", "req"} \subseteq DOMAIN run[r]
      /\ run[r] \notin {Idle, Gone, Late}
  BY <1>1, Names DEF ProcessOK
<1>3. CASE run[r].host = "waiting"
  <2>1. DOMAIN more = {"code"} /\ more["code"] = code
    OBVIOUS
  <2> HIDE DEF more
  <2>2. /\ DOMAIN with = DOMAIN run[r] \cup DOMAIN more
        /\ \A f \in DOMAIN more : with[f] = more[f]
        /\ \A f \in DOMAIN run[r] \ DOMAIN more : with[f] = run[r][f]
    BY WithFields
  <2> HIDE DEF with
  <2>3. /\ new.pc = "exited" /\ new.host = run[r].host /\ new.code = code
        /\ \A f \in DOMAIN run[r] \ {"pc", "code"} : new[f] = run[r][f]
    BY <1>2, <2>1, <2>2
  <2>4. run' = [run EXCEPT ![r] = new] /\ UNCHANGED answer
    BY <1>1, <1>3 DEF Exits, with, more
  <2> HIDE DEF new
  <2>5. ASSUME Present(r), Quiet PROVE Backing(new, out')
    <3>1. SUFFICES ASSUME code = 0, ~new.fellback
                   PROVE  EvidenceIn(new, out') /\ ResultIn(new, out') /\ AttestationIn(new, out')
      BY <2>3 DEF Backing, Emitting
    <3>2. run[r].pc = "finish" /\ Backing(run[r], out')
      BY <2>5, <3>1
    <3>3. /\ {"pc", "host", "image", "req", "policy", "evaluator", "planned", "next", "ledger",
              "findings", "error", "blocked"} \subseteq DOMAIN run[r]
          /\ "fellback" \in DOMAIN run[r]
      BY <1>1, <3>2, Sealing DEF AfterLadder, ExitInv, Emitting
    <3>4. new["fellback"] = run[r]["fellback"] /\ new["req"] = run[r]["req"]
          /\ new["policy"] = run[r]["policy"] /\ new["evaluator"] = run[r]["evaluator"]
          /\ new["ledger"] = run[r]["ledger"] /\ new["findings"] = run[r]["findings"]
          /\ new["blocked"] = run[r]["blocked"]
      BY <2>3, <3>3
    <3>5. EvidenceIn(run[r], out') /\ ResultIn(run[r], out') /\ AttestationIn(run[r], out')
      BY <3>1, <3>2, <3>4 DEF Backing, Emitting
    <3>6. Result(new) = Result(run[r])
      BY <3>4 DEF Result
    <3>7. Attested(new) = Attested(run[r])
      BY <3>4, <3>6 DEF Attested
    <3> QED
      BY <3>4, <3>5, <3>6, <3>7 DEF EvidenceIn, ResultIn, AttestationIn
  <2>6. new.host = "waiting"
    BY <1>3, <2>3
  <2> QED
    BY <2>3, <2>4, <2>5, <2>6, GoesOn DEF Steps, Emitting
<1>4. CASE run[r].host = "gaveup"
  <2>1. run' = [run EXCEPT ![r] = Late] /\ answer' = answer
    BY <1>1, <1>4 DEF Exits
  <2>2. DOMAIN answer' = DOMAIN answer /\ \A q \in Run \ {r} : answer'[q] = answer[q]
    BY <2>1
  <2> QED
    BY <2>1, <2>2, Ends
<1>5. CASE run[r].host = "local"
  <2>1. run' = [run EXCEPT ![r] = Gone] /\ answer' = [answer EXCEPT ![r] = code]
    BY <1>1, <1>5 DEF Exits
  <2>2. ~Abandoned(r)
    BY <1>2, <1>5 DEF Abandoned
  <2>3. DOMAIN answer' = DOMAIN answer /\ \A q \in Run \ {r} : answer'[q] = answer[q]
    BY <2>1
  <2> QED
    BY <2>1, <2>2, <2>3, Ends
<1> QED
  BY <1>2, <1>3, <1>4, <1>5

LEMMA Failed ==
  ASSUME DecisionInv, ExitInv, NEW r \in Run, run[r].pc \in Steps,
         NEW class \in DOMAIN ExitOfError, NEW ledger, FailWith(r, class, ledger)
  PROVE  ExitInv'
<1>1. ExitOfError[class] # 0
  BY DEF ExitOfError
<1> QED
  BY <1>1, Exited DEF FailWith

\* A step before anything is written.
LEMMA GoesEarly ==
  ASSUME DecisionInv, ExitInv, NEW r \in Run, run[r].pc \in Steps,
         NEW p, p.pc \in Early, p.host = run[r].host, Go(r, p)
  PROVE  ExitInv'
<1>1. p.pc \in Steps /\ p.pc \notin Emitting /\ p.pc # "exited"
  BY DEF Early
<1>2. Backing(p, out')
  BY <1>1 DEF Backing, Emitting
<1> QED
  BY <1>1, <1>2, GoesOn DEF Go

LEMMA WithHost ==
  ASSUME NEW q, NEW more, "host" \in DOMAIN q, "host" \notin DOMAIN more, "pc" \in DOMAIN more
  PROVE  With(q, more)["host"] = q["host"] /\ With(q, more)["pc"] = more["pc"]
BY DEF With

LEMMA EarlyNames ==
  /\ {"subject", "package", "context", "policy", "plan", "read", "reverify", "seal"} \subseteq Early
  /\ Early \subseteq Steps
BY DEF Early, Emitting, Steps, AfterContext, AfterPolicy, AfterPlan, AfterLadder

\* Before the result is written, a process only goes on.
LEMMA ResolvedEarly ==
  ASSUME DecisionInv, ExitInv, NEW r \in Run,
         ResolveSubject(r) \/ ResolvePackage(r) \/ ResolveContext(r) \/ ResolvePolicy(r) \/ PlanRun(r)
  PROVE  ExitInv'
<1>1. run[r].pc \in Steps
  BY EarlyNames DEF ResolveSubject, ResolvePackage, ResolveContext, ResolvePolicy, PlanRun, At
<1>2. "host" \in DOMAIN run[r] /\ "pc" \in DOMAIN run[r]
  BY <1>1, Names DEF DecisionInv, ProcessesOK, ProcessOK
<1>3. \A class \in DOMAIN ExitOfError : Fail(r, class, Nothing) => ExitInv'
  BY <1>1, Failed DEF Fail
<1>4. "invalid_input" \in DOMAIN ExitOfError /\ "policy_resolution" \in DOMAIN ExitOfError
  BY DEF ExitOfError
<1>5. ASSUME NEW more, "host" \notin DOMAIN more, "pc" \in DOMAIN more, more["pc"] \in Early,
             Go(r, With(run[r], more))
      PROVE  ExitInv'
  <2> DEFINE p == With(run[r], more)
  <2>1. p["host"] = run[r]["host"] /\ p["pc"] = more["pc"]
    BY <1>2, <1>5, WithHost
  <2> HIDE DEF p
  <2> QED
    BY <1>1, <1>5, <2>1, GoesEarly DEF p
<1>6. ASSUME NEW pc \in Early, Go(r, [run[r] EXCEPT !.pc = pc])
      PROVE  ExitInv'
  <2> DEFINE p == [run[r] EXCEPT !.pc = pc]
  <2>1. p["host"] = run[r]["host"] /\ p["pc"] = pc
    BY <1>2
  <2> HIDE DEF p
  <2> QED
    BY <1>1, <1>6, <2>1, GoesEarly DEF p
<1>7. CASE ResolveSubject(r)
  BY <1>3, <1>4, <1>6, <1>7, EarlyNames DEF ResolveSubject
<1>8. CASE ResolvePackage(r)
  BY <1>3, <1>4, <1>6, <1>8, EarlyNames DEF ResolvePackage
<1>9. CASE ResolveContext(r)
  <2> DEFINE facts == load_captured_facts(ctx.facts, world.facts)
             more  == [pc |-> "policy", facts |-> facts]
  <2>1. "host" \notin DOMAIN more /\ "pc" \in DOMAIN more /\ more["pc"] \in Early
    BY EarlyNames
  <2>2. Fail(r, "policy_resolution", Nothing) \/ Go(r, With(run[r], more))
    BY <1>9 DEF ResolveContext
  <2> HIDE DEF more
  <2> QED
    BY <1>3, <1>4, <1>5, <2>1, <2>2
<1>10. CASE ResolvePolicy(r)
  <2> DEFINE evaluator == resolve_evaluator_identity(run[r].req.context.profile,
                                                     execution_identity(r))
             more == [pc |-> "plan", policy |-> world.bundle, evaluator |-> evaluator]
  <2>1. "host" \notin DOMAIN more /\ "pc" \in DOMAIN more /\ more["pc"] \in Early
    BY EarlyNames
  <2>2. \/ Fail(r, "policy_resolution", Nothing) \/ Fail(r, "invalid_input", Nothing)
        \/ Go(r, With(run[r], more))
    BY <1>10 DEF ResolvePolicy
  <2> HIDE DEF more
  <2> QED
    BY <1>3, <1>4, <1>5, <2>1, <2>2
<1>11. CASE PlanRun(r)
  <2>1. ASSUME NEW planned,
               Go(r, With(run[r], [pc |-> "read", planned |-> planned, next |-> 1,
                                   ledger |-> <<>>, findings |-> {}, error |-> FALSE]))
        PROVE  ExitInv'
    <3> DEFINE more == [pc |-> "read", planned |-> planned, next |-> 1,
                        ledger |-> <<>>, findings |-> {}, error |-> FALSE]
    <3>1. "host" \notin DOMAIN more /\ "pc" \in DOMAIN more /\ more["pc"] \in Early
      BY EarlyNames
    <3>2. Go(r, With(run[r], more))
      BY <2>1
    <3> HIDE DEF more
    <3> QED
      BY <1>5, <3>1, <3>2
  <2> QED
    BY <1>3, <1>4, <1>11, <2>1 DEF PlanRun
<1> QED
  BY <1>7, <1>8, <1>9, <1>10, <1>11

LEMMA EvaluatedEarly ==
  ASSUME DecisionInv, ExitInv, NEW r \in Run, EvaluatorReads(r) \/ Reverify(r) \/ Adopt(r)
  PROVE  ExitInv'
<1> DEFINE a == run[r].planned[run[r].next]
<1>1. run[r].pc \in {"read", "reverify"} /\ ProcessOK(run[r])
  BY DEF EvaluatorReads, Reverify, Adopt, At, DecisionInv, ProcessesOK
<1>2. /\ {"pc", "host", "ledger", "next"} \subseteq DOMAIN run[r]
      /\ run[r].pc \in Steps
  BY <1>1, Evaluating
<1>5. ASSUME NEW more, "host" \notin DOMAIN more, "pc" \in DOMAIN more, more["pc"] \in Early,
             Go(r, With(run[r], more))
      PROVE  ExitInv'
  <2> DEFINE p == With(run[r], more)
  <2>1. p["host"] = run[r]["host"] /\ p["pc"] = more["pc"]
    BY <1>2, <1>5, WithHost
  <2> HIDE DEF p
  <2> QED
    BY <1>2, <1>5, <2>1, GoesEarly DEF p
<1> HIDE DEF a
<1>6. ASSUME NEW outcome, NEW p, Go(r, p),
             \/ p = Row(run[r], a, outcome)
             \/ p = [Row(run[r], a, outcome) EXCEPT !.error = TRUE]
             \/ p = [Row(run[r], a, outcome) EXCEPT !.error = TRUE, !.got = {}]
             \/ \E found : p = [Row(run[r], a, outcome) EXCEPT !.findings = found, !.got = {}]
      PROVE  ExitInv'
  <2> DEFINE row == Row(run[r], a, outcome)
  <2>1. DOMAIN row = DOMAIN run[r] /\ row["pc"] = "read"
        /\ \A f \in DOMAIN run[r] \ {"pc", "ledger", "next"} : row[f] = run[r][f]
    BY <1>2, RowFields
  <2>2. \/ p = row
        \/ p = [row EXCEPT !.error = TRUE]
        \/ p = [row EXCEPT !.error = TRUE, !.got = {}]
        \/ \E found : p = [row EXCEPT !.findings = found, !.got = {}]
    BY <1>6
  <2> HIDE DEF row
  <2>3. row["host"] = run[r]["host"]
    BY <1>2, <2>1
  <2>4. p["pc"] = row["pc"] /\ p["host"] = row["host"]
    BY <1>2, <2>1, <2>2
  <2> QED
    BY <1>2, <1>6, <2>1, <2>3, <2>4, GoesEarly, EarlyNames
<1>7. CASE EvaluatorReads(r)
  <2>1. ASSUME NEW got, Go(r, With(run[r], [pc |-> "reverify", error |-> TRUE, got |-> got]))
        PROVE  ExitInv'
    <3> DEFINE more == [pc |-> "reverify", error |-> TRUE, got |-> got]
    <3>1. "host" \notin DOMAIN more /\ "pc" \in DOMAIN more /\ more["pc"] \in Early
      BY EarlyNames
    <3>2. Go(r, With(run[r], more))
      BY <2>1
    <3> HIDE DEF more
    <3> QED
      BY <1>5, <3>1, <3>2
  <2>2. ASSUME NEW got, Go(r, With(run[r], [pc |-> "reverify", got |-> got]))
        PROVE  ExitInv'
    <3> DEFINE more == [pc |-> "reverify", got |-> got]
    <3>1. "host" \notin DOMAIN more /\ "pc" \in DOMAIN more /\ more["pc"] \in Early
      BY EarlyNames
    <3>2. Go(r, With(run[r], more))
      BY <2>2
    <3> HIDE DEF more
    <3> QED
      BY <1>5, <3>1, <3>2
  <2> QED
    BY <1>6, <1>7, <2>1, <2>2 DEF EvaluatorReads, Current, a
<1>8. CASE Reverify(r)
  <2> DEFINE row == Row(run[r], a, OutcomeOf(run[r].got))
             found == IF run[r].got = Unresolved THEN row.findings
                      ELSE row.findings \cup run[r].got
  <2>1. CASE Go(r, [row EXCEPT !.findings = IF run[r].got = Unresolved THEN @
                                            ELSE @ \cup run[r].got,
                               !.got = {}])
    <3> DEFINE p == [row EXCEPT !.findings = found, !.got = {}]
    <3>1. Go(r, p)
      BY <2>1
    <3>2. \E f : p = [row EXCEPT !.findings = f, !.got = {}]
      OBVIOUS
    <3> HIDE DEF p
    <3> QED
      BY <1>6, <3>1, <3>2
  <2>2. CASE Go(r, [Row(run[r], a, "UNRESOLVED") EXCEPT !.error = TRUE, !.got = {}])
    BY <1>6, <2>2
  <2> QED
    BY <1>8, <2>1, <2>2 DEF Reverify, Current, a
<1>9. CASE Adopt(r)
  <2>1. ASSUME NEW blocked, Go(r, With(run[r], [pc |-> "seal", blocked |-> blocked]))
        PROVE  ExitInv'
    <3> DEFINE more == [pc |-> "seal", blocked |-> blocked]
    <3>1. "host" \notin DOMAIN more /\ "pc" \in DOMAIN more /\ more["pc"] \in Early
      BY EarlyNames
    <3>2. Go(r, With(run[r], more))
      BY <2>1
    <3> HIDE DEF more
    <3> QED
      BY <1>5, <3>1, <3>2
  <2>2. "execution" \in DOMAIN ExitOfError /\ "policy_resolution" \in DOMAIN ExitOfError
    BY DEF ExitOfError
  <2> QED
    BY <1>2, <1>9, <2>1, <2>2, Failed DEF Adopt, Fail
<1> QED
  BY <1>7, <1>8, <1>9

\* What a process has written stays while nobody else writes it.
LEMMA BackingKept ==
  ASSUME NEW p, NEW o, NEW n,
         \A f \in {"manifest", "objects", "result", "attestation"} :
            f \in DOMAIN o => f \in DOMAIN n /\ n[f] = o[f]
  PROVE  /\ EvidenceIn(p, o) => EvidenceIn(p, n)
         /\ ResultIn(p, o) => ResultIn(p, n)
         /\ AttestationIn(p, o) => AttestationIn(p, n)
         /\ Backing(p, o) => Backing(p, n)
<1>1. EvidenceIn(p, o) => EvidenceIn(p, n)
  BY DEF EvidenceIn
<1>2. ResultIn(p, o) => ResultIn(p, n)
  BY DEF ResultIn
<1>3. AttestationIn(p, o) => AttestationIn(p, n)
  BY DEF AttestationIn
<1> QED
  BY <1>1, <1>2, <1>3 DEF Backing

\* The next step of sealing.
LEMMA EmitsOn ==
  ASSUME DecisionInv, ExitInv, NEW r \in Run, run[r].pc \in AfterLadder, NEW pc \in Emitting,
         run' = [run EXCEPT ![r].pc = pc], UNCHANGED answer,
         pc # "result" => run[r].pc \in Emitting \ {"result"},
         Present(r) /\ Quiet =>
           /\ EvidenceIn(run[r], out')
           /\ pc # "result" /\ ~run[r].fellback => ResultIn(run[r], out')
           /\ pc \in {"envelope", "finish"} => AttestationIn(run[r], out')
  PROVE  ExitInv'
<1> DEFINE p == [run[r] EXCEPT !.pc = pc]
<1>1. ProcessOK(run[r])
  BY DEF DecisionInv, ProcessesOK
<1>2. /\ {"pc", "host", "image", "req", "policy", "evaluator", "planned", "next", "ledger",
          "findings", "error", "blocked"} \subseteq DOMAIN run[r]
      /\ run[r].pc \in Steps
  BY <1>1, Sealing
<1>3. /\ DOMAIN p = DOMAIN run[r] /\ p["pc"] = pc
      /\ \A f \in DOMAIN run[r] \ {"pc"} : p[f] = run[r][f]
  BY <1>2
<1>4. run' = [run EXCEPT ![r] = p]
  OBVIOUS
<1> HIDE DEF p
<1>5. p["host"] = run[r]["host"] /\ p["req"] = run[r]["req"]
      /\ p["policy"] = run[r]["policy"] /\ p["evaluator"] = run[r]["evaluator"]
      /\ p["ledger"] = run[r]["ledger"] /\ p["findings"] = run[r]["findings"]
      /\ p["blocked"] = run[r]["blocked"]
  BY <1>2, <1>3
<1>6. Result(p) = Result(run[r])
  BY <1>5 DEF Result
<1>7. Attested(p) = Attested(run[r])
  BY <1>5, <1>6 DEF Attested
<1>8. pc # "result" => "fellback" \in DOMAIN run[r] /\ p["fellback"] = run[r]["fellback"]
  BY <1>3 DEF ExitInv
<1>9. Present(r) /\ Quiet => Backing(p, out')
  <2>1. SUFFICES ASSUME Present(r), Quiet PROVE Backing(p, out')
    OBVIOUS
  <2>2. EvidenceIn(p, out')
    BY <1>5, <2>1 DEF EvidenceIn
  <2>3. pc # "result" /\ ~p.fellback => ResultIn(p, out')
    BY <1>6, <1>8, <2>1 DEF ResultIn
  <2>4. pc \in {"envelope", "finish"} => AttestationIn(p, out')
    BY <1>5, <1>7, <2>1 DEF AttestationIn
  <2> QED
    BY <1>3, <2>2, <2>3, <2>4 DEF Backing, Emitting
<1>10. pc \in Steps /\ pc # "exited"
  BY DEF Emitting, Steps, AfterContext, AfterPolicy, AfterPlan, AfterLadder
<1> QED
  BY <1>2, <1>3, <1>4, <1>5, <1>8, <1>9, <1>10, GoesOn

\* Each write of sealing puts the next part of the backing in place.
LEMMA SealedInTurn ==
  ASSUME DecisionInv, ExitInv, NEW r \in Run, SealEvidence(r)
  PROVE  ExitInv'
<1> DEFINE files == [objects  |-> out.objects \cup run[r].findings,
                     manifest |-> run[r].findings]
<1>1. /\ DOMAIN files = {"objects", "manifest"} /\ Write(files)
      /\ files["manifest"] = run[r].findings
      /\ files["objects"] = out.objects \cup run[r].findings
  BY DEF SealEvidence
<1> HIDE DEF files
<1>2. "manifest" \in DOMAIN out' /\ out'["manifest"] = files["manifest"]
  BY <1>1, WritePuts
<1>3. "objects" \in DOMAIN out' /\ out'["objects"] = files["objects"]
  BY <1>1, WritePuts
<1>4. EvidenceIn(run[r], out')
  BY <1>1, <1>2, <1>3 DEF EvidenceIn
<1>5. run[r].pc \in AfterLadder /\ "result" \in Emitting
  BY DEF SealEvidence, At, AfterLadder, Emitting
<1> QED
  BY <1>4, <1>5, EmitsOn DEF SealEvidence

LEMMA ResultInTurn ==
  ASSUME DecisionInv, ExitInv, NEW r \in Run, EmitResult(r)
  PROVE  ExitInv'
<1>1. run[r].pc = "result" /\ run[r].pc \in AfterLadder
  BY DEF EmitResult, At, AfterLadder
<1>2. ProcessOK(run[r]) /\ DOMAIN run = Run
  BY DEF DecisionInv, ProcessesOK
<1>3. /\ {"pc", "host", "image", "req", "policy", "evaluator", "planned", "next", "ledger",
          "findings", "error", "blocked"} \subseteq DOMAIN run[r]
      /\ run[r].pc \in Steps
  BY <1>1, <1>2, Sealing
<1>4. PICK b \in BOOLEAN :
        /\ run' = [run EXCEPT ![r] = With(run[r], [pc |-> "attest", fellback |-> b])]
        /\ \/ ~b /\ Write([result |-> ResultOf(r)])
           \/ b /\ UNCHANGED out
  BY <1>2 DEF EmitResult
<1> DEFINE more == [pc |-> "attest", fellback |-> b]
           p    == With(run[r], more)
           files == [result |-> ResultOf(r)]
<1>5. DOMAIN more = {"pc", "fellback"} /\ more["pc"] = "attest" /\ more["fellback"] = b
  OBVIOUS
<1> HIDE DEF more
<1>6. /\ DOMAIN p = DOMAIN run[r] \cup DOMAIN more
      /\ \A f \in DOMAIN more : p[f] = more[f]
      /\ \A f \in DOMAIN run[r] \ DOMAIN more : p[f] = run[r][f]
  BY WithFields
<1>7. run' = [run EXCEPT ![r] = p]
  BY <1>4 DEF more
<1> HIDE DEF p
<1>8. /\ p["pc"] = "attest" /\ p["fellback"] = b /\ "fellback" \in DOMAIN p
      /\ p["host"] = run[r]["host"] /\ p["req"] = run[r]["req"]
      /\ p["policy"] = run[r]["policy"] /\ p["evaluator"] = run[r]["evaluator"]
      /\ p["ledger"] = run[r]["ledger"] /\ p["findings"] = run[r]["findings"]
      /\ p["blocked"] = run[r]["blocked"]
  BY <1>3, <1>5, <1>6
<1>9. Result(p) = ResultOf(r)
  BY <1>8, ResultOfProcess DEF Result
<1>10. DOMAIN files = {"result"} /\ files["result"] = ResultOf(r)
  OBVIOUS
<1>11. (~b /\ Write(files)) \/ (b /\ UNCHANGED out)
  BY <1>4
<1> HIDE DEF files
<1>12. Present(r) /\ Quiet => Backing(p, out')
  <2>1. SUFFICES ASSUME Present(r), Quiet PROVE Backing(p, out')
    OBVIOUS
  <2>2. EvidenceIn(run[r], out)
    BY <1>1, <2>1 DEF ExitInv, Backing, Emitting
  <2>3. EvidenceIn(p, out')
    <3>1. \A f \in {"manifest", "objects"} : f \in DOMAIN out => f \in DOMAIN out' /\ out'[f] = out[f]
      BY <1>10, <1>11, WriteKeeps
    <3> QED
      BY <1>8, <2>2, <3>1 DEF EvidenceIn
  <2>4. ~b => ResultIn(p, out')
    BY <1>9, <1>10, <1>11, WritePuts DEF ResultIn
  <2> QED
    BY <1>8, <2>3, <2>4 DEF Backing
<1>13. "attest" \in Steps
  BY DEF Steps, AfterContext, AfterPolicy, AfterPlan, AfterLadder
<1>14. /\ run[r].pc \in Steps /\ UNCHANGED answer /\ p.pc \in Steps
       /\ p.host = run[r].host /\ "fellback" \in DOMAIN p /\ p.pc # "exited"
  BY <1>3, <1>8, <1>13 DEF EmitResult
<1> QED
  BY <1>7, <1>12, <1>14, GoesOn

LEMMA AttestedInTurn ==
  ASSUME SignerKeys # "plural", DecisionInv, ExitInv, NEW r \in Run, EmitAttestation(r)
  PROVE  ExitInv'
<1> DEFINE files == [attestation |-> Attestation(r, "pilot-signer")]
<1>1. run[r].pc = "attest" /\ run[r].pc \in AfterLadder /\ run[r].pc \in Steps
  BY DEF EmitAttestation, At, AfterLadder, AfterPlan, AfterPolicy, AfterContext, Steps
<1>2. "attestation" \in DOMAIN ExitOfError
  BY DEF ExitOfError
<1>3. CASE Fail(r, "attestation", run[r].ledger)
  BY <1>1, <1>2, <1>3, Failed DEF Fail
<1>4. DOMAIN files = {"attestation"} /\ files["attestation"] = Attestation(r, "pilot-signer")
  OBVIOUS
<1>5. Attested(run[r]) = Attestation(r, "pilot-signer")
  BY ResultOfProcess DEF Attested, Attestation
<1> HIDE DEF files
<1>6. CASE /\ run' = [run EXCEPT ![r].pc = "envelope"] /\ UNCHANGED answer
           /\ IF required(run[r].req.context) THEN Write(files) ELSE UNCHANGED out
  <2>1. ASSUME Present(r), Quiet
        PROVE  /\ EvidenceIn(run[r], out') /\ AttestationIn(run[r], out')
               /\ ~run[r].fellback => ResultIn(run[r], out')
    <3>1. Backing(run[r], out)
      BY <2>1 DEF ExitInv
    <3>2. \A f \in {"manifest", "objects", "result"} :
             f \in DOMAIN out => f \in DOMAIN out' /\ out'[f] = out[f]
      BY <1>4, <1>6, WriteKeeps
    <3>3. EvidenceIn(run[r], out')
      BY <1>1, <3>1, <3>2 DEF Backing, EvidenceIn, Emitting
    <3>4. ~run[r].fellback => ResultIn(run[r], out')
      BY <1>1, <3>1, <3>2 DEF Backing, ResultIn, Emitting
    <3>5. AttestationIn(run[r], out')
      BY <1>4, <1>5, <1>6, WritePuts DEF AttestationIn
    <3> QED
      BY <3>3, <3>4, <3>5
  <2>2. "envelope" \in Emitting /\ run[r].pc \in Emitting \ {"result"}
    BY <1>1 DEF Emitting
  <2> QED
    BY <1>1, <1>6, <2>1, <2>2, EmitsOn
<1>7. required(run[r].req.context) /\ ~signer_key => keys(r) = {}
  BY DEF keys
<1> QED
  BY <1>3, <1>6, <1>7 DEF EmitAttestation, files

LEMMA EnvelopeInTurn ==
  ASSUME DecisionInv, ExitInv, NEW r \in Run, EmitEnvelope(r)
  PROVE  ExitInv'
<1> DEFINE files == [envelope |-> [decision |-> decide(run[r].ledger, run[r].blocked),
                                   signed |-> required(run[r].req.context) /\ signer_key]]
<1>1. DOMAIN files = {"envelope"} /\ Write(files)
  BY DEF EmitEnvelope
<1> HIDE DEF files
<1>2. run[r].pc = "envelope" /\ run[r].pc \in AfterLadder /\ "finish" \in Emitting
      /\ run[r].pc \in Emitting \ {"result"}
  BY DEF EmitEnvelope, At, AfterLadder, Emitting
<1>3. ASSUME Present(r), Quiet
      PROVE  /\ EvidenceIn(run[r], out') /\ AttestationIn(run[r], out')
             /\ ~run[r].fellback => ResultIn(run[r], out')
  <2>1. Backing(run[r], out)
    BY <1>3 DEF ExitInv
  <2>2. \A f \in {"manifest", "objects", "result", "attestation"} :
           f \in DOMAIN out => f \in DOMAIN out' /\ out'[f] = out[f]
    BY <1>1, WriteKeeps
  <2>3. Backing(run[r], out')
    BY <2>1, <2>2, BackingKept
  <2> QED
    BY <1>2, <2>3 DEF Backing
<1> QED
  BY <1>2, <1>3, EmitsOn DEF EmitEnvelope

\* Without plural keys a run that finishes leaves what it sealed as it is.
LEMMA FinishKeeps ==
  ASSUME SignerKeys # "plural", NEW r \in Run, Finish(r)
  PROVE  \/ Fail(r, "policy_resolution", Nothing)
         \/ /\ Exits(r, CodeOf(r)) /\ UNCHANGED world
            /\ \A f \in {"manifest", "objects", "result", "attestation"} :
                  f \in DOMAIN out => f \in DOMAIN out' /\ out'[f] = out[f]
<1> DEFINE claimed == [claim |-> DecisionClaim(r)]
           files   == With(claimed, <<>>)
<1>1. keys(r) = {}
  BY DEF keys
<1>2. \/ Fail(r, "policy_resolution", Nothing)
      \/ Write(files) /\ Exits(r, CodeOf(r)) /\ UNCHANGED world
  BY <1>1 DEF Finish
<1>3. DOMAIN claimed = {"claim"} /\ DOMAIN <<>> = {}
  OBVIOUS
<1> HIDE DEF claimed
<1>4. DOMAIN files = DOMAIN claimed \cup DOMAIN <<>>
  BY WithFields
<1> HIDE DEF files
<1> QED
  BY <1>2, <1>3, <1>4, WriteKeeps

LEMMA FinishedInTurn ==
  ASSUME SignerKeys # "plural", DecisionInv, ExitInv, NEW r \in Run, Finish(r)
  PROVE  ExitInv'
<1>1. run[r].pc = "finish" /\ run[r].pc \in Steps
  BY DEF Finish, At, AfterLadder, AfterPlan, AfterPolicy, AfterContext, Steps
<1>2. CASE Fail(r, "policy_resolution", Nothing)
  <2>1. "policy_resolution" \in DOMAIN ExitOfError
    BY DEF ExitOfError
  <2> QED
    BY <1>1, <1>2, <2>1, Failed DEF Fail
<1>3. CASE /\ Exits(r, CodeOf(r))
           /\ \A f \in {"manifest", "objects", "result", "attestation"} :
                 f \in DOMAIN out => f \in DOMAIN out' /\ out'[f] = out[f]
  <2>1. Present(r) /\ Quiet => Backing(run[r], out')
    BY <1>3, BackingKept DEF ExitInv
  <2> QED
    BY <1>1, <1>3, <2>1, Exited
<1> QED
  BY <1>2, <1>3, FinishKeeps

LEMMA FaultedInTurn ==
  ASSUME DecisionInv, ExitInv, NEW r \in Run, SealFails(r) \/ SigningFails(r) \/ Crash(r)
  PROVE  ExitInv'
<1>1. "evidence" \in DOMAIN ExitOfError /\ "attestation" \in DOMAIN ExitOfError
  BY DEF ExitOfError
<1>2. CASE SealFails(r)
  <2>1. run[r].pc \in Steps
    BY <1>2 DEF SealFails, At, AfterLadder, AfterPlan, AfterPolicy, AfterContext, Steps
  <2> QED
    BY <1>1, <1>2, <2>1, Failed DEF SealFails
<1>3. CASE SigningFails(r)
  <2>1. run[r].pc \in Steps
    BY <1>3 DEF SigningFails, AfterLadder, AfterPlan, AfterPolicy, AfterContext, Steps
  <2> QED
    BY <1>1, <1>3, <2>1, Failed DEF SigningFails
<1>4. CASE Crash(r)
  <2>1. run[r].pc \in Steps
    BY <1>4 DEF Crash, Running, DecisionInv, ProcessesOK, ProcessOK, Idle, Gone, Late
  <2> QED
    BY <1>4, <2>1, Exited DEF Crash, Killed
<1> QED
  BY <1>2, <1>3, <1>4

LEMMA HostActsInTurn ==
  ASSUME DecisionInv, ExitInv, NEW r \in Run, HostRelays(r) \/ HostGivesUp(r)
  PROVE  ExitInv'
<1>1. DOMAIN run = Run /\ DOMAIN answer = Run /\ ProcessOK(run[r])
  BY DEF DecisionInv, ProcessesOK, ExitInv
<1>2. run[r].pc \in Steps /\ run[r].host = "waiting"
  BY <1>1 DEF HostRelays, HostGivesUp, Running, At, Steps, ExitInv, ProcessOK, Idle, Gone, Late
<1>3. PICK code : answer' = [answer EXCEPT ![r] = code]
  BY DEF HostRelays, HostGivesUp
<1>4. DOMAIN answer' = DOMAIN answer /\ \A q \in Run \ {r} : answer'[q] = answer[q]
  BY <1>3
<1>5. CASE run' = [run EXCEPT ![r] = Gone]
  <2>1. ~Abandoned(r)
    BY <1>2, Names DEF Abandoned
  <2> QED
    BY <1>2, <1>4, <1>5, <2>1, Ends
<1>6. CASE run' = [run EXCEPT ![r].host = "gaveup"]
  <2>1. "host" \in DOMAIN run[r]
    BY <1>1, <1>2, Names DEF ProcessOK
  <2>2. /\ run'[r].host = "gaveup" /\ run'[r].pc = run[r].pc
        /\ DOMAIN run'[r] = DOMAIN run[r]
        /\ \A q \in Run \ {r} : run'[q] = run[q]
    BY <1>1, <1>6, <2>1
  <2>3. run[r].pc # "exited"
    BY <1>6, <2>2, <1>2 DEF HostGivesUp, HostRelays, Running, Gone
  <2>4. Abandoned(r)' /\ ~Present(r)'
    BY <1>2, <2>2, Names DEF Abandoned, Present
  <2>5. \A q \in Run : Present(q)' => q # r /\ Present(q)
    BY <2>2, <2>4 DEF Present
  <2>6. ~Quiet'
    BY <2>4 DEF Quiet
  <2>7. \A q \in Run :
          /\ run'[q].pc \in Emitting \ {"result"} => "fellback" \in DOMAIN run'[q]
          /\ run'[q].pc = "exited" => run'[q].host = "waiting"
    BY <2>2, <2>3 DEF ExitInv
  <2> QED
    BY <1>1, <1>4, <2>5, <2>6, <2>7 DEF ExitInv
<1> QED
  BY <1>5, <1>6 DEF HostRelays, HostGivesUp

\* While a caller waits nobody is invoked.
LEMMA InvokedInTurn ==
  ASSUME DecisionInv, ExitInv, NEW r \in Run,
         \/ InvokeLocal(r)
         \/ \E v \in Versions : InvokeForeign(r, v)
         \/ \E l \in Launches : InvokeContained(r, l.config, l.outputs)
  PROVE  ExitInv'
<1>1. DOMAIN run = Run /\ DOMAIN answer = Run
  BY DEF DecisionInv, ProcessesOK, ExitInv
<1>2. Invocable(r)
  BY DEF InvokeLocal, InvokeForeign, InvokeContained
<1>3. \A q \in Run : ~Present(q)
  BY <1>2 DEF Invocable, Live, Present, ExitInv
<1>4. /\ \A q \in Run \ {r} : run'[q] = run[q] /\ answer'[q] = answer[q]
      /\ DOMAIN answer' = Run
  BY <1>1 DEF InvokeLocal, InvokeForeign, InvokeContained
<1>5. \/ run'[r] = Gone
      \/ /\ run'[r].pc = "subject" /\ UNCHANGED answer
  BY <1>1 DEF InvokeLocal, InvokeForeign, InvokeContained, Started
<1>6. \A q \in Run : Present(q)' => q = r /\ run'[r].pc = "subject" /\ UNCHANGED answer
  BY <1>3, <1>4, <1>5 DEF Present
<1>7. \A q \in Run :
        /\ run'[q].pc \in Emitting \ {"result"} => "fellback" \in DOMAIN run'[q]
        /\ run'[q].pc = "exited" => run'[q].host = "waiting"
  BY <1>4, <1>5, Names DEF ExitInv, Emitting
<1>8. \A q \in Run : Present(q)' => answer'[q] = Nothing /\ Backing(run'[q], out')
  BY <1>2, <1>6 DEF Invocable, Backing, Emitting
<1> QED
  BY <1>4, <1>6, <1>7, <1>8 DEF ExitInv

LEMMA ElsewhereInTurn ==
  ASSUME ExitInv, UNCHANGED <<run, answer>>,
         \A f \in {"manifest", "objects", "result", "attestation"} :
            f \in DOMAIN out => f \in DOMAIN out' /\ out'[f] = out[f]
  PROVE  ExitInv'
<1>1. \A q \in Run : /\ Present(q)' <=> Present(q)
                     /\ Abandoned(q)' <=> Abandoned(q)
  BY DEF Present, Abandoned
<1>2. Quiet' <=> Quiet
  BY <1>1 DEF Quiet
<1>3. ASSUME Quiet', NEW q \in Run, Present(q)' PROVE Backing(run'[q], out')
  <2>1. Backing(run[q], out)
    BY <1>1, <1>2, <1>3 DEF ExitInv
  <2> QED
    BY <2>1, BackingKept
<1> QED
  BY <1>1, <1>3 DEF ExitInv

LEMMA ExitInit ==
  ASSUME Init
  PROVE  ExitInv
<1>1. DOMAIN answer = Run /\ \A q \in Run : run[q] = Idle
  BY DEF Init
<1> QED
  BY <1>1, Names DEF ExitInv, Present, Emitting

LEMMA ExitNext ==
  ASSUME SignerKeys # "plural", DecisionInv, ExitInv, [Next]_vars
  PROVE  ExitInv'
<1>1. CASE UNCHANGED vars
  BY <1>1, ElsewhereInTurn DEF vars
<1>2. CASE IssueContext \/ Edit \/ \E i \in Issues : IssueSets(i)
  BY <1>2, ElsewhereInTurn DEF IssueContext, Edit, IssueSets
<1>3. CASE VerifyClaim
  <2>1. PICK check, state : out' = [out EXCEPT !.claim.check = check, !.claim.state = state]
    BY <1>3 DEF VerifyClaim
  <2>2. \A f \in {"manifest", "objects", "result", "attestation"} :
            f \in DOMAIN out => f \in DOMAIN out' /\ out'[f] = out[f]
    BY <2>1
  <2> QED
    BY <1>3, <2>2, ElsewhereInTurn DEF VerifyClaim
<1>4. ASSUME NEW r \in Run, ProcessStep(r)
      PROVE  ExitInv'
  BY <1>4, ResolvedEarly, EvaluatedEarly, SealedInTurn, ResultInTurn, AttestedInTurn,
     EnvelopeInTurn, FinishedInTurn
     DEF ProcessStep
<1> QED
  BY <1>1, <1>2, <1>3, <1>4, InvokedInTurn, FaultedInTurn, HostActsInTurn DEF Next

\* What a consumer accepts.
LEMMA BackingVerifies ==
  ASSUME NEW p, required(p.req.context), ~world.revoked',
         EvidenceIn(p, out'), ResultIn(p, out'), AttestationIn(p, out')
  PROVE  verify_run' /\ out'.attestation.bound.subject = p.req.subject
<1> DEFINE bound == [subject |-> p.req.subject, package |-> p.req.package,
                     policy |-> p.policy, context |-> p.req.context,
                     evaluator |-> p.evaluator, evidence |-> p.findings]
<1>1. /\ {"manifest", "objects", "result", "attestation"} \subseteq DOMAIN out'
      /\ out'.manifest = p.findings /\ p.findings \subseteq out'.objects
      /\ out'.result = Result(p) /\ out'.attestation = Attested(p)
  BY DEF EvidenceIn, ResultIn, AttestationIn
<1>2. Attested(p).statement = Result(p) /\ Attested(p).signer = "pilot-signer"
      /\ Attested(p).bound = bound
  BY DEF Attested
<1>3. bound.evidence = p.findings /\ bound.subject = p.req.subject
  OBVIOUS
<1>4. \A key \in DOMAIN bound : Result(p)[key] = bound[key]
  BY DEF Result
<1> HIDE DEF bound
<1>5. evidence_verify(p.findings)'
  BY <1>1 DEF evidence_verify, Written
<1> QED
  BY <1>1, <1>2, <1>3, <1>4, <1>5 DEF verify_run, check_signer, Written, evidence_verify

\* A step answers the caller of its own process only.
LEMMA ExitsAnswer ==
  ASSUME NEW q, NEW code, Exits(q, code), DOMAIN answer = Run
  PROVE  /\ \A x \in Run \ {q} : answer'[x] = answer[x]
         /\ q \in Run => answer'[q] \in {answer[q], code}
BY DEF Exits

LEMMA OwnAnswer ==
  ASSUME DOMAIN answer = Run, NEW q \in Run, NEW x \in Run, q # x,
         \/ InvokeLocal(q)
         \/ \E v \in Versions : InvokeForeign(q, v)
         \/ \E l \in Launches : InvokeContained(q, l.config, l.outputs)
         \/ ProcessStep(q)
         \/ SealFails(q) \/ SigningFails(q) \/ Crash(q)
         \/ HostRelays(q) \/ HostGivesUp(q)
  PROVE  answer'[x] = answer[x]
<1>1. ASSUME NEW class, NEW ledger, FailWith(q, class, ledger)
      PROVE  answer'[x] = answer[x]
  BY <1>1, ExitsAnswer DEF FailWith
<1>2. ASSUME NEW new, Go(q, new)
      PROVE  answer'[x] = answer[x]
  BY <1>2 DEF Go
<1>3. CASE InvokeLocal(q) \/ (\E v \in Versions : InvokeForeign(q, v))
           \/ \E l \in Launches : InvokeContained(q, l.config, l.outputs)
  BY <1>3 DEF InvokeLocal, InvokeForeign, InvokeContained
<1>4. CASE ResolveSubject(q) \/ ResolvePackage(q) \/ ResolveContext(q) \/ ResolvePolicy(q)
           \/ PlanRun(q)
  BY <1>1, <1>2, <1>4
     DEF ResolveSubject, ResolvePackage, ResolveContext, ResolvePolicy, PlanRun, Fail
<1>5. CASE EvaluatorReads(q) \/ Reverify(q) \/ Adopt(q)
  BY <1>1, <1>2, <1>5 DEF EvaluatorReads, Reverify, Adopt, Fail
<1>6. CASE SealEvidence(q) \/ EmitResult(q) \/ EmitAttestation(q) \/ EmitEnvelope(q)
  BY <1>1, <1>6 DEF SealEvidence, EmitResult, EmitAttestation, EmitEnvelope, Fail
<1>7. CASE Finish(q)
  BY <1>1, <1>7, ExitsAnswer DEF Finish, Fail
<1>8. CASE SealFails(q) \/ SigningFails(q) \/ Crash(q)
  BY <1>1, <1>8, ExitsAnswer DEF SealFails, SigningFails, Crash
<1>9. CASE HostRelays(q) \/ HostGivesUp(q)
  BY <1>9 DEF HostRelays, HostGivesUp
<1> QED
  BY <1>3, <1>4, <1>5, <1>6, <1>7, <1>8, <1>9 DEF ProcessStep

\* The step at which a process that has run to its end gives the code 0.
LEMMA GivesZero ==
  ASSUME ExitInv, Next, NEW r \in Run, answer[r] = Nothing, answer'[r] = 0,
         run[r].pc \in {"exited", "finish"}
  PROVE  Finish(r) \/ (HostRelays(r) /\ run[r].code = 0 /\ UNCHANGED out)
<1>1. DOMAIN answer = Run /\ answer'[r] # answer[r]
  BY WorldsAssumption DEF ExitInv
<1>2. ASSUME \/ \E i \in Issues : IssueSets(i)
             \/ IssueContext \/ Edit \/ VerifyClaim
      PROVE  FALSE
  BY <1>1, <1>2 DEF IssueSets, IssueContext, Edit, VerifyClaim
<1>3. \/ InvokeLocal(r)
      \/ \E v \in Versions : InvokeForeign(r, v)
      \/ \E l \in Launches : InvokeContained(r, l.config, l.outputs)
      \/ ProcessStep(r)
      \/ SealFails(r) \/ SigningFails(r) \/ Crash(r)
      \/ HostRelays(r) \/ HostGivesUp(r)
  BY <1>1, <1>2, OwnAnswer DEF Next
<1>4. run[r] # Idle
  BY Names
<1>5. Finish(r) \/ Crash(r) \/ HostRelays(r) \/ HostGivesUp(r)
  BY <1>3, <1>4
     DEF InvokeLocal, InvokeForeign, InvokeContained, Invocable, ProcessStep, At,
         ResolveSubject, ResolvePackage, ResolveContext, ResolvePolicy, PlanRun,
         EvaluatorReads, Reverify, Adopt, SealEvidence, EmitResult, EmitAttestation,
         EmitEnvelope, SealFails, SigningFails
<1>6. CASE Crash(r)
  BY <1>1, <1>6, ExitsAnswer DEF Crash, Killed
<1>7. ExitOfError.execution # 0
  BY DEF ExitOfError
<1>8. CASE HostRelays(r)
  BY <1>1, <1>7, <1>8 DEF HostRelays
<1>9. CASE HostGivesUp(r)
  BY <1>1, <1>7, <1>9 DEF HostGivesUp
<1> QED
  BY <1>5, <1>6, <1>8, <1>9

LEMMA ZeroIsBacked ==
  ASSUME SignerKeys # "plural", DecisionInv, ExitInv, Next, NEW r \in Run,
         answer[r] = Nothing, answer'[r] = 0, required(run[r].req.context),
         At(r, "exited") \/ At(r, "finish"), ~run[r].fellback, Quiet
  PROVE  world.revoked \/ \E candidate \in {run[r].req.subject} : verify_promotion(candidate)'
<1>1. Finish(r) \/ (HostRelays(r) /\ run[r].code = 0 /\ UNCHANGED out)
  BY GivesZero DEF At
<1>2. UNCHANGED world
  BY <1>1, FinishKeeps DEF HostRelays, Fail, FailWith
<1>3. Present(r)
  BY Names DEF Quiet, Abandoned, Present, At, Steps, AfterContext, AfterPolicy, AfterPlan,
               AfterLadder
<1>4. Backing(run[r], out)
  BY <1>3 DEF ExitInv
<1>5. EvidenceIn(run[r], out') /\ ResultIn(run[r], out') /\ AttestationIn(run[r], out')
  <2>1. CASE HostRelays(r) /\ run[r].code = 0 /\ UNCHANGED out
    BY <1>4, <2>1 DEF Backing, HostRelays, At
  <2>2. CASE Finish(r)
    <3>1. ASSUME Fail(r, "policy_resolution", Nothing) PROVE FALSE
      <4>1. ExitOfError["policy_resolution"] # 0
        BY DEF ExitOfError
      <4>2. answer'[r] \in {answer[r], ExitOfError["policy_resolution"]}
        BY <3>1, ExitsAnswer DEF Fail, FailWith, ExitInv
      <4> QED
        BY <4>1, <4>2, WorldsAssumption
    <3>2. \A f \in {"manifest", "objects", "result", "attestation"} :
            f \in DOMAIN out => f \in DOMAIN out' /\ out'[f] = out[f]
      BY <2>2, <3>1, FinishKeeps
    <3>3. run[r].pc = "finish"
      BY <2>2 DEF Finish, At
    <3> QED
      BY <1>4, <3>2, <3>3, BackingKept DEF Backing, Emitting
  <2> QED
    BY <1>1, <2>1, <2>2
<1>6. CASE ~world.revoked
  <2>1. PICK p : p = run[r]
    OBVIOUS
  <2>2. verify_run' /\ out'.attestation.bound.subject = p.req.subject
    BY <1>2, <1>5, <1>6, <2>1, BackingVerifies
  <2>3. PICK candidate : candidate = run[r].req.subject
    OBVIOUS
  <2>4. verify_promotion(candidate)'
    BY <2>1, <2>2, <2>3 DEF verify_promotion
  <2> QED
    BY <2>3, <2>4
<1> QED
  BY <1>6

\* Without plural keys the two invariants hold together.
LEMMA ExitsAreLawful ==
  ASSUME SignerKeys # "plural"
  PROVE  Spec => [](DecisionInv /\ ExitInv)
<1>1. Init => DecisionInv /\ ExitInv
  BY DecisionInit, ExitInit
<1>2. DecisionInv /\ ExitInv /\ [Next]_vars => (DecisionInv /\ ExitInv)'
  BY DecisionNext, ExitNext
<1> QED
  BY <1>1, <1>2, PTL DEF Spec

\* With a single key or none, exit code 0 of a promotion-authorizing run comes
\* with a directory that verifies for the subject it was asked about
\* (attest.seal_run, container_exec.run_containerized).
THEOREM ExitsAreBacked ==
  ASSUME SignerKeys # "plural"
  PROVE  Spec => ExitIsBacked
<1>1. DecisionInv /\ ExitInv /\ [Next]_vars =>
        [\A r \in Run :
           /\ answer[r] = Nothing /\ answer'[r] = 0
           /\ required(run[r].req.context)
           /\ At(r, "exited") \/ At(r, "finish")
           /\ ~run[r].fellback
           /\ ~\E q \in Run : Abandoned(q)
           => \/ world.revoked
              \/ \E candidate \in {run[r].req.subject} : verify_promotion(candidate)']_vars
  BY ZeroIsBacked DEF Quiet
<1> QED
  BY <1>1, ExitsAreLawful, PTL DEF Spec, ExitIsBacked

-----------------------------------------------------------------------------
(***************************************************************************)
(* Honesty: what the overlay leaves of a required assertion.               *)
(***************************************************************************)

\* An assertion with other values in some fields.
Reworked(a, b, fields) == DOMAIN b = DOMAIN a /\ \A f \in DOMAIN a \ fields : b[f] = a[f]

\* The fields that an overlay may change in an assertion.
Open(aid, needed) == IF aid \in needed THEN {"severity"} ELSE {"severity", "evaluator"}

KeptBy(byId, after, needed) ==
    after # Refused =>
      /\ DOMAIN after \subseteq DOMAIN byId
      /\ \A aid \in DOMAIN after : Reworked(byId[aid], after[aid], Open(aid, needed))

LEMMA EntryKeeps ==
  ASSUME NEW byId, NEW change, NEW central,
         change.id \in central.required /\ change.evaluator # Nothing =>
           central.approved # {} /\ change.evaluator \notin central.approved
  PROVE  KeptBy(byId, OverlayEntry(byId, change, central), central.required)
<1> DEFINE aid   == change.id
           after == OverlayEntry(byId, change, central)
<1> SUFFICES ASSUME after # Refused
             PROVE  /\ DOMAIN after \subseteq DOMAIN byId
                    /\ \A i \in DOMAIN after :
                         Reworked(byId[i], after[i], Open(i, central.required))
  BY DEF KeptBy
<1>1. CASE change.disabled
  <2>1. after = [i \in DOMAIN byId \ {aid} |-> byId[i]]
    BY <1>1 DEF OverlayEntry
  <2> QED
    BY <2>1 DEF Reworked
<1>2. CASE ~change.disabled
  <2> DEFINE severity(a)  == IF change.severity # Nothing THEN change.severity ELSE a.severity
             evaluator(a) == IF change.evaluator # Nothing THEN change.evaluator ELSE a.evaluator
             new(a)       == [a EXCEPT !.severity = severity(a), !.evaluator = evaluator(a)]
  <2>1. /\ aid \in DOMAIN byId
        /\ aid \in central.required => change.evaluator = Nothing
        /\ after = [byId EXCEPT
                      ![aid].severity  = IF change.severity # Nothing THEN change.severity ELSE @,
                      ![aid].evaluator = IF change.evaluator # Nothing THEN change.evaluator ELSE @]
    BY <1>2 DEF OverlayEntry
  <2> HIDE DEF after
  <2>2. DOMAIN after = DOMAIN byId /\ \A i \in DOMAIN byId \ {aid} : after[i] = byId[i]
    BY <2>1
  <2>3. Reworked(byId[aid], after[aid], Open(aid, central.required))
    BY <2>1 DEF Reworked, Open
  <2> QED
    BY <2>2, <2>3 DEF Reworked
<1> QED
  BY <1>1, <1>2

LEMMA KeptInTurn ==
  ASSUME NEW needed, NEW x, NEW y, NEW z, y # Refused,
         KeptBy(x, y, needed), KeptBy(y, z, needed)
  PROVE  KeptBy(x, z, needed)
BY DEF KeptBy, Reworked

\* The changes of an overlay, one after the other, keep them.
LEMMA ChangesKeep ==
  ASSUME NEW byId, NEW central, NEW X, NEW changes \in Seq(X),
         \A change \in ToSet(changes) :
           change.id \in central.required /\ change.evaluator # Nothing =>
             central.approved # {} /\ change.evaluator \notin central.approved
  PROVE  KeptBy(byId, Changed(byId, changes, central), central.required)
<1> DEFINE N == Len(changes)
           needed == central.required
<1>0. N \in Nat
  OBVIOUS
<1>1. PICK f : /\ Along(f, N, "change", Nothing, central, changes, byId)
               /\ Changed(byId, changes, central) = f[N]
  BY ChangedAlong
<1> DEFINE S == {k \in Nat : k <= N => KeptBy(byId, f[k], needed)}
<1>2. 0 \in S
  <2>1. f[0] = byId
    BY <1>1 DEF Along
  <2> QED
    BY <2>1 DEF KeptBy, Reworked
<1>3. ASSUME NEW k \in Nat, k \in S PROVE k + 1 \in S
  <2> SUFFICES ASSUME k + 1 <= N PROVE KeptBy(byId, f[k + 1], needed)
    OBVIOUS
  <2>1. k + 1 \in 1..N /\ (k + 1) - 1 = k /\ k <= N
    BY <1>0
  <2>2. changes[k + 1] \in ToSet(changes)
    BY <2>1 DEF ToSet
  <2> HIDE DEF N
  <2>3. f[k + 1] = Stepped("change", Nothing, central, changes, f[k], k + 1)
    BY <1>1, <2>1 DEF Along
  <2>4. f[k + 1] = OverlayEntry(f[k], changes[k + 1], central)
    BY <2>3 DEF Stepped
  <2>5. KeptBy(byId, f[k], needed)
    BY <1>3, <2>1
  <2>6. KeptBy(f[k], f[k + 1], needed)
    BY <2>2, <2>4, EntryKeeps
  <2>7. CASE f[k] = Refused
    <3>1. f[k + 1] = Refused
      BY <2>4, <2>7 DEF OverlayEntry
    <3> QED
      BY <3>1 DEF KeptBy
  <2>8. CASE f[k] # Refused
    BY <2>5, <2>6, <2>8, KeptInTurn
  <2> QED
    BY <2>7, <2>8
<1>4. S = Nat
  <2>1. S \in SUBSET Nat
    OBVIOUS
  <2> HIDE DEF S
  <2> QED
    BY <1>2, <1>3, <2>1, Induction
<1> QED
  BY <1>0, <1>1, <1>4

\* The additions bring in what they add and nothing else.
Added(byId, after, adds) ==
    after # Refused =>
      \A aid \in DOMAIN after :
         \/ aid \in DOMAIN byId /\ after[aid] = byId[aid]
         \/ after[aid] \in adds

LEMMA AddsKeep ==
  ASSUME NEW byId, NEW X, NEW adds \in Seq(X)
  PROVE  /\ Added(byId, Extended(byId, adds), ToSet(adds))
         /\ byId = Refused => Extended(byId, adds) = Refused
<1> DEFINE N == Len(adds)
           Fine(x) == Added(byId, x, ToSet(adds)) /\ (byId = Refused => x = Refused)
<1>0. N \in Nat
  OBVIOUS
<1>1. PICK f : /\ Along(f, N, "add", Nothing, Nothing, adds, byId)
               /\ Extended(byId, adds) = f[N]
  BY ExtendedAlong
<1> DEFINE S == {k \in Nat : k <= N => Fine(f[k])}
<1>2. 0 \in S
  <2>1. f[0] = byId
    BY <1>1 DEF Along
  <2> QED
    BY <2>1 DEF Added
<1>3. ASSUME NEW k \in Nat, k \in S PROVE k + 1 \in S
  <2> SUFFICES ASSUME k + 1 <= N PROVE Fine(f[k + 1])
    OBVIOUS
  <2>1. k + 1 \in 1..N /\ (k + 1) - 1 = k /\ k <= N
    BY <1>0
  <2>2. adds[k + 1] \in ToSet(adds)
    BY <2>1 DEF ToSet
  <2>5. Fine(f[k])
    BY <1>3, <2>1
  <2> HIDE DEF N
  <2>3. f[k + 1] = Stepped("add", Nothing, Nothing, adds, f[k], k + 1)
    BY <1>1, <2>1 DEF Along
  <2>4. f[k + 1] = OverlayAdd(f[k], adds[k + 1])
    BY <2>3 DEF Stepped
  <2> DEFINE new == adds[k + 1]
  <2>6. CASE f[k] = Refused \/ new.id \in DOMAIN f[k]
    <3>1. f[k + 1] = Refused
      BY <2>4, <2>6 DEF OverlayAdd
    <3> QED
      BY <3>1 DEF Added
  <2>7. CASE f[k] # Refused /\ new.id \notin DOMAIN f[k]
    <3>1. f[k + 1] = [i \in DOMAIN f[k] \cup {new.id} |-> IF i = new.id THEN new ELSE f[k][i]]
      BY <2>4, <2>7 DEF OverlayAdd
    <3> QED
      BY <2>2, <2>5, <2>7, <3>1 DEF Added
  <2> QED
    BY <2>6, <2>7
<1>4. S = Nat
  <2>1. S \in SUBSET Nat
    OBVIOUS
  <2> HIDE DEF S
  <2> QED
    BY <1>2, <1>3, <2>1, Induction
<1>5. Fine(f[N])
  BY <1>0, <1>4
<1> QED
  BY <1>1, <1>5

-----------------------------------------------------------------------------
\* What an evaluator reads of an assertion is not its severity.
Alike(a, b) == \A f \in ASSERTION \ {"severity"} : a[f] = b[f]

LEMMA AlikeFields ==
  ASSUME NEW a, NEW b, Alike(a, b)
  PROVE  /\ a.id = b.id /\ a.evaluator = b.evaluator /\ a.subjects = b.subjects
         /\ a.marker_scan = b.marker_scan /\ a.pin = b.pin /\ a.check = b.check
         /\ a.capture = b.capture /\ a.min_clear = b.min_clear
         /\ a.min_bounds = b.min_bounds /\ a.part_kinds = b.part_kinds
BY DEF Alike, ASSERTION

LEMMA EvaluateAlike ==
  ASSUME NEW a, NEW b, Alike(a, b), NEW package, NEW tree, NEW facts
  PROVE  Evaluate(a, package, tree, facts) = Evaluate(b, package, tree, facts)
<1>1. /\ a.id = b.id /\ a.evaluator = b.evaluator /\ a.subjects = b.subjects
      /\ a.marker_scan = b.marker_scan /\ a.pin = b.pin /\ a.check = b.check
      /\ a.capture = b.capture /\ a.min_clear = b.min_clear
      /\ a.min_bounds = b.min_bounds /\ a.part_kinds = b.part_kinds
  BY AlikeFields
<1>0. /\ \A loc, class : Finding(a, loc, class) = Finding(b, loc, class)
      /\ FactSubjects(a) = FactSubjects(b)
  BY <1>1 DEF Finding, FactSubjects
<1>2. identity_consistency(a, package, tree) = identity_consistency(b, package, tree)
  BY <1>0, <1>1 DEF identity_consistency
<1>3. traceability_completeness(a, package, tree) = traceability_completeness(b, package, tree)
  BY <1>0, <1>1 DEF traceability_completeness
<1>4. release_claim_consistency(a, package) = release_claim_consistency(b, package)
  BY <1>0 DEF release_claim_consistency
<1>5. captured_fact_consistency(a, package, facts) = captured_fact_consistency(b, package, facts)
  BY <1>0 DEF captured_fact_consistency
<1>6. vision_observation(a, tree, facts) = vision_observation(b, tree, facts)
  <2>1. is_pinned_reproducible_model(a, tree, facts) = is_pinned_reproducible_model(b, tree, facts)
    BY <1>0, <1>1 DEF is_pinned_reproducible_model
  <2> QED
    BY <1>0, <2>1 DEF vision_observation
<1>7. world_room_coherence(a, package, tree) = world_room_coherence(b, package, tree)
  <2>1. \A parts : parts_complete(a, tree, parts) = parts_complete(b, tree, parts)
    BY <1>0, <1>1 DEF parts_complete
  <2>2. \A ir : room_bounds(a, package, tree, ir) = room_bounds(b, package, tree, ir)
    BY <1>0, <1>1 DEF room_bounds
  <2>3. \A ir, cap : doorway_clearance(a, tree, ir, cap) = doorway_clearance(b, tree, ir, cap)
    <3>1. a.min_clear = b.min_clear
      BY <1>1
    <3>2. \A loc, class : Finding(a, loc, class) = Finding(b, loc, class)
      BY <1>0
    <3> SUFFICES ASSUME NEW ir, NEW cap
                 PROVE  doorway_clearance(a, tree, ir, cap) = doorway_clearance(b, tree, ir, cap)
      OBVIOUS
    <3> DEFINE record == Doc(tree, cap.path)
               Narrow(clear) == \/ Doc(tree, ir).clear < clear
                                \/ record.clear < clear
                                \/ record.blocked
               Judged(mismatch, violation, narrow) ==
                 IF ~ReadableJson(tree, ir) \/ ~ReadableJson(tree, cap.path)
                      \/ ~ReadableBytes(tree, cap.config)
                 THEN Unresolved
                 ELSE {mismatch : c \in {record.config} \ {tree[cap.config].content}}
                      \cup {violation : n \in {narrow} \ {FALSE}}
    <3>3. \A x : doorway_clearance(x, tree, ir, cap)
                   = Judged(Finding(x, cap.path, "capture-config-digest-mismatch"),
                            Finding(x, cap.path, "doorway-clearance-violation"),
                            Narrow(x.min_clear))
      BY DEF doorway_clearance
    <3> HIDE DEF record, Narrow, Judged
    <3> QED
      BY <3>1, <3>2, <3>3
  <2>4. \A glb, scene :
          asset_scene_binding(a, tree, glb, scene) = asset_scene_binding(b, tree, glb, scene)
    BY <1>0, <1>1 DEF asset_scene_binding
  <2> QED
    BY <1>1, <2>1, <2>2, <2>3, <2>4 DEF world_room_coherence
<1> QED
  BY <1>1, <1>2, <1>3, <1>4, <1>5, <1>6, <1>7 DEF Evaluate

\* An assertion that the bundle requires is one that the package commits to.
Rooted(a, package, needed) ==
    a.id \in needed => \E b \in CommittedAssertions(package) : Alike(b, a)

LEMMA ReworkedIsAlike ==
  ASSUME NEW a, NEW b, Reworked(a, b, {"severity"}), ASSERTION \subseteq DOMAIN b
  PROVE  Alike(a, b)
BY DEF Reworked, Alike

\* What is loaded is committed.
LEMMA LoadedIsCommitted ==
  ASSUME SpecsAreNormative, NEW p \in AnyPackage, package_resolve(p) # Refused
  PROVE  load_assertions(p) \in Seq(CommittedAssertions(package_resolve(p)))
BY LoadedIsList DEF SpecsAreNormative

LEMMA ByIdOf ==
  ASSUME NEW assertions
  PROVE  \A i \in DOMAIN ById(assertions) :
            ById(assertions)[i] \in ToSet(assertions) /\ ById(assertions)[i].id = i
BY DEF ById

LEMMA AppliedIsRooted ==
  ASSUME SpecsAreNormative, OverlaysKeepRequired,
         NEW p \in AnyPackage, package_resolve(p) # Refused,
         NEW bundle \in AnyBundle, NEW o \in AnyOverlay,
         NEW loaded, loaded = load_assertions(p),
         NEW applied, applied = apply_overlay(loaded, o, bundle), applied # Refused
  PROVE  /\ \E Y : applied \in Seq(Y)
         /\ \A a \in ToSet(applied) : ASSERTION \subseteq DOMAIN a =>
              Rooted(a, package_resolve(p), bundle.required)
<1> DEFINE A       == CommittedAssertions(package_resolve(p))
           byId    == ById(loaded)
           changed == Changed(byId, o.changes, bundle)
           final   == Extended(changed, o.adds)
           Y       == {final[i] : i \in DOMAIN final} \cup ToSet(o.adds)
<1> HIDE DEF A
<1>1. loaded \in Seq(A)
  BY LoadedIsCommitted DEF A
<1>2. o.changes \in Seq(ToSet(o.changes)) /\ o.adds \in Seq(ToSet(o.adds))
  BY OverlaysAssumption
<1>3. /\ \A change \in ToSet(o.changes) :
           change.id \in bundle.required /\ change.evaluator # Nothing =>
             bundle.approved # {} /\ change.evaluator \notin bundle.approved
      /\ \A a \in ToSet(o.adds) : a.id \notin bundle.required
  BY DEF OverlaysKeepRequired
<1>4. \A i \in DOMAIN byId : byId[i] \in A /\ byId[i].id = i
  <2>1. ToSet(loaded) \subseteq A
    BY <1>1 DEF ToSet
  <2> QED
    BY <2>1, ByIdOf
<1> HIDE DEF byId
<1>5. KeptBy(byId, changed, bundle.required)
  BY <1>2, <1>3, ChangesKeep
<1>a. changed = Changed(byId, o.changes, bundle)
  OBVIOUS
<1> HIDE DEF changed
<1>6. /\ Added(changed, final, ToSet(o.adds))
      /\ changed = Refused => final = Refused
  BY <1>2, AddsKeep
<1>b. final = Extended(changed, o.adds)
  OBVIOUS
<1> HIDE DEF final
<1>7. (\A i \in DOMAIN final : final[i] \in Y) /\ ToSet(o.adds) \subseteq Y
  OBVIOUS
<1>8. \A y \in Y : (\E i \in DOMAIN final : y = final[i]) \/ y \in ToSet(o.adds)
  OBVIOUS
<1> HIDE DEF Y
<1>9. final # Refused /\ applied \in Seq(Y)
  <2>1. final = Extended(Changed(ById(loaded), o.changes, bundle), o.adds)
    BY <1>a, <1>b DEF byId
  <2> QED
    BY <1>1, <1>7, <2>1, AppliedIsList
<1>10. ASSUME NEW y \in Y, ASSERTION \subseteq DOMAIN y, y.id \in bundle.required
       PROVE  \E b \in A : Alike(b, y)
  <2>1. "id" \in DOMAIN y /\ y \notin ToSet(o.adds)
    BY <1>3, <1>10 DEF ASSERTION
  <2>2. PICK i \in DOMAIN final : y = final[i]
    BY <1>8, <2>1
  <2>3. i \in DOMAIN changed /\ y = changed[i]
    BY <1>6, <1>9, <2>1, <2>2 DEF Added
  <2>4. i \in DOMAIN byId /\ Reworked(byId[i], y, Open(i, bundle.required))
    BY <1>5, <1>6, <1>9, <2>3 DEF KeptBy
  <2>5. y["id"] = byId[i]["id"]
    BY <2>1, <2>4 DEF Reworked, Open
  <2>6. i \in bundle.required /\ byId[i] \in A
    BY <1>4, <1>10, <2>4, <2>5
  <2>7. Reworked(byId[i], y, {"severity"})
    BY <2>4, <2>6 DEF Open
  <2> QED
    BY <1>10, <2>6, <2>7, ReworkedIsAlike
<1>11. ToSet(applied) \subseteq Y
  BY <1>9 DEF ToSet
<1> QED
  BY <1>9, <1>10, <1>11 DEF Rooted, A

\* What is planned of what the bundle requires.
LEMMA PlannedIsRooted ==
  ASSUME SpecsAreNormative, OverlaysKeepRequired,
         NEW p \in AnyPackage, package_resolve(p) # Refused,
         NEW bundle \in AnyBundle, NEW o \in AnyOverlay \cup {NoOverlay},
         NEW loaded, loaded = load_assertions(p),
         NEW applied, applied # Refused,
         applied = IF o = NoOverlay THEN loaded ELSE apply_overlay(loaded, o, bundle),
         NEW requirements, NEW planned,
         planned = plan(applied, bundle.required, requirements, BUILTINS), planned # Refused
  PROVE  \A k \in 1..Len(planned) : Rooted(planned[k], package_resolve(p), bundle.required)
<1>1. /\ \E Y : applied \in Seq(Y)
      /\ \A a \in ToSet(applied) : ASSERTION \subseteq DOMAIN a =>
           Rooted(a, package_resolve(p), bundle.required)
  <2>1. CASE o = NoOverlay
    <3>1. applied \in Seq(CommittedAssertions(package_resolve(p)))
      BY <2>1, LoadedIsCommitted
    <3>2. ToSet(applied) \subseteq CommittedAssertions(package_resolve(p))
      BY <3>1 DEF ToSet
    <3> QED
      BY <3>1, <3>2 DEF Rooted, Alike
  <2>2. CASE o # NoOverlay
    BY <2>2, AppliedIsRooted
  <2> QED
    BY <2>1, <2>2
<1>2. \A k \in 1..Len(planned) :
         planned[k] \in ToSet(applied) /\ check_assertion(planned[k], BUILTINS)
  BY <1>1, PlanOrders
<1> QED
  BY <1>1, <1>2 DEF check_assertion

-----------------------------------------------------------------------------
(***************************************************************************)
(* Honesty: what a process has read of what its request names.             *)
(***************************************************************************)

Kinds == {w.kind : w \in Worlds0}

\* A tree with the entries of a manifest is the tree it is of ...
LEMMA Unmutated ==
  ASSUME TreesAreCommitted, NEW kind \in Kinds, NEW t \in AnyTree(kind), NEW u \in AnyTree(kind),
         NEW subject, subject = build(t, kind), subject # Refused,
         ~first_mutation(subject, u)
  PROVE  u = t
<1>1. subject.kind = kind
  BY DEF build
<1>2. build(u, kind) # Refused /\ build(u, kind).entries = build(t, kind).entries
  BY <1>1 DEF first_mutation
<1> QED
  BY <1>2 DEF TreesAreCommitted, Kinds

\* ... and what holds of it holds of what the manifest commits to.
LEMMA EvaluateCommitted ==
  ASSUME TreesAreCommitted, NEW kind \in Kinds, NEW t \in AnyTree(kind),
         NEW subject, subject = build(t, kind), subject # Refused,
         NEW p \in AnyPackage, NEW package, package = package_resolve(p), package # Refused,
         NEW a \in CommittedAssertions(package), NEW i \in Issues, NEW c, c.facts = i.facts
  PROVE  Evaluate(a, package, t, CommittedFacts(c))
           = Evaluate(a, package, CommittedTree(subject), CommittedFacts(c))
<1>1. CommittedFacts(c) = CommittedFacts(i)
  BY DEF CommittedFacts
<1>2. Evaluate(a, package, t, CommittedFacts(i))
        = Evaluate(a, package, CommittedTree(subject), CommittedFacts(i))
  BY DEF TreesAreCommitted, Kinds
<1> QED
  BY <1>1, <1>2

\* The facts that match their digests are the facts that were bound.
LEMMA LoadedFacts ==
  ASSUME NEW c, NEW files, load_captured_facts(c.facts, files) # Refused
  PROVE  load_captured_facts(c.facts, files) = CommittedFacts(c)
<1> DEFINE named == {f \in DOMAIN c.facts : c.facts[f] # Nothing}
<1>1. \A f \in named : files[f] = c.facts[f]
  BY DEF load_captured_facts
<1>2. load_captured_facts(c.facts, files) = [f \in named |-> files[f]]
  BY DEF load_captured_facts
<1>3. CommittedFacts(c) = [f \in named |-> c.facts[f]]
  BY DEF load_captured_facts, CommittedFacts
<1> HIDE DEF named
<1> QED
  BY <1>1, <1>2, <1>3

-----------------------------------------------------------------------------
Working == Steps \ {"exited"}

\* The request names a tree that was there, and a package that is as it was
\* resolved until its assertions are loaded.
OfTree(p, w, ts) ==
    p.pc \in Working =>
      p.req.subject # Refused /\ \E t \in ts : build(t, w.kind) = p.req.subject
OfPackage(p, w) ==
    /\ p.pc \in {"context", "policy", "plan"} => p.req.package = package_resolve(w.package)
    /\ p.pc \in {"context"} \cup AfterContext =>
         p.req.package # Refused /\ \E q \in AnyPackage : package_resolve(q) = p.req.package

\* The facts are those bound in the context, and the bundle is one.
OfContext(p) ==
    /\ p.pc \in AfterContext => "facts" \in DOMAIN p /\ p.facts = CommittedFacts(p.req.context)
    /\ p.pc \in AfterPolicy => p.policy \in AnyBundle

OfPlan(p) ==
    p.pc \in {"read", "reverify"} =>
      \A k \in 1..Len(p.planned) : Rooted(p.planned[k], p.req.package, p.policy.required)

\* What a call returned is of the subject, or the subject is seen to have
\* changed.
OfCall(p, w, ts) ==
    p.pc = "reverify" =>
      \/ first_mutation(p.req.subject, w.tree)
      \/ p.got = Unresolved
      \/ \E t \in ts : /\ build(t, w.kind) = p.req.subject
                       /\ p.got = Evaluate(p.planned[p.next], p.req.package, t, p.facts)

\* An assertion holds of what the request commits to.
Holds(req, aid) ==
    \E a \in CommittedAssertions(req.package) :
      /\ a.id = aid
      /\ Evaluate(a, req.package, CommittedTree(req.subject), CommittedFacts(req.context)) = {}

OfLedger(p) ==
    p.pc \in AfterPlan =>
      \A aid \in DOMAIN p.ledger :
        aid \in p.policy.required /\ p.ledger[aid] = "SATISFIED" => Holds(p.req, aid)

Faithful(p, w, ts) ==
    /\ OfTree(p, w, ts) /\ OfPackage(p, w) /\ OfContext(p)
    /\ OfPlan(p) /\ OfCall(p, w, ts) /\ OfLedger(p)

TrueIfPass(res) == res.decision = "PASS" => Honest(res)

\* The claim in the directory binds a decision that is true if it is a PASS.
ClaimHonest(o) ==
    "claim" \in DOMAIN o =>
      /\ "bound" \in DOMAIN o["claim"]
      /\ "decision" \in DOMAIN o["claim"].bound => TrueIfPass(o["claim"].bound.decision)

SubjectsOK == world.kind \in Kinds /\ world.tree \in trees /\ trees \subseteq AnyTree(world.kind)
FactsOK ==
    /\ \A c \in issued : \E i \in Issues : c.facts = i.facts
    /\ pending # Nothing => \E i \in Issues : pending.facts = i.facts

HonestInv ==
    /\ SubjectsOK
    /\ FactsOK
    /\ \A r \in Run : Faithful(run[r], world, trees)
    /\ \A res \in Decisions : TrueIfPass(res)
    /\ ClaimHonest(out)

LEMMA RestsFaithful ==
  ASSUME NEW p, p.pc \notin Working, NEW w, NEW ts
  PROVE  Faithful(p, w, ts)
BY DEF Faithful, OfTree, OfPackage, OfContext, OfPlan, OfCall, OfLedger, Working, Steps,
       AfterContext, AfterPolicy, AfterPlan, AfterLadder

\* A file other than the claim leaves the claim.
LEMMA ClaimKept ==
  ASSUME ClaimHonest(out), NEW files, Write(files), "claim" \notin DOMAIN files
  PROVE  ClaimHonest(out')
<1>1. out' = With(out, files)
  BY DEF Write
<1>2. DOMAIN out' = DOMAIN out \cup DOMAIN files
  BY <1>1, WithFields
<1>3. "claim" \in DOMAIN out => out'["claim"] = out["claim"]
  BY <1>1, WithFields
<1> QED
  BY <1>2, <1>3 DEF ClaimHonest

\* A process goes on, and what it found is true.
LEMMA ProceedsHonest ==
  ASSUME DecisionInv, HonestInv, NEW r \in Run, NEW p, Faithful(p, world, trees),
         run' = [run EXCEPT ![r] = p], UNCHANGED <<world, trees, pending, issued>>,
         \A res \in Decisions' : res \in Decisions \/ TrueIfPass(res), ClaimHonest(out')
  PROVE  HonestInv'
<1>1. SubjectsOK' /\ FactsOK'
  BY DEF HonestInv, SubjectsOK, FactsOK
<1>2. \A q \in Run : Faithful(run'[q], world', trees')
  BY DEF HonestInv, DecisionInv, ProcessesOK
<1>3. \A res \in Decisions' : TrueIfPass(res)
  BY DEF HonestInv
<1>4. \A res \in Decisions' : TrueIfPass(res)'
  BY <1>3 DEF TrueIfPass
<1> QED
  BY <1>1, <1>2, <1>4 DEF HonestInv

LEMMA GoesHonest ==
  ASSUME DecisionInv, HonestInv, NEW r \in Run, NEW p, Faithful(p, world, trees), Go(r, p)
  PROVE  HonestInv'
<1>1. Decisions' = Decisions
  BY SameFiles DEF Go
<1>2. ClaimHonest(out')
  BY DEF HonestInv, Go
<1> QED
  BY <1>1, <1>2, ProceedsHonest DEF Go

\* An error, for a process that has ended.
LEMMA ErrsHonest ==
  ASSUME DecisionInv, HonestInv, NEW r \in Run, NEW p, Faithful(p, world, trees),
         run' = [run EXCEPT ![r] = p], UNCHANGED <<world, trees, pending, issued>>,
         NEW class, NEW ledger, Write([result |-> ErrorResult(class, ledger)])
  PROVE  HonestInv'
<1>1. Decisions' = {}
  BY WriteError
<1>2. ClaimHonest(out')
  <2> DEFINE files == [result |-> ErrorResult(class, ledger)]
  <2>1. "claim" \notin DOMAIN files
    OBVIOUS
  <2>2. Write(files)
    OBVIOUS
  <2> HIDE DEF files
  <2> QED
    BY <2>1, <2>2, ClaimKept DEF HonestInv
<1> QED
  BY <1>1, <1>2, ProceedsHonest

LEMMA FailsHonest ==
  ASSUME DecisionInv, HonestInv, NEW r \in Run, run[r].pc \in Steps, NEW class, NEW ledger,
         FailWith(r, class, ledger)
  PROVE  HonestInv'
<1>1. PICK p : run' = [run EXCEPT ![r] = p] /\ p.pc \in {"exited", "gone", "late"}
  BY ExitsWithout DEF FailWith
<1>2. Faithful(p, world, trees)
  BY <1>1, RestsFaithful
     DEF Working, Steps, AfterContext, AfterPolicy, AfterPlan, AfterLadder
<1> QED
  BY <1>1, <1>2, ErrsHonest DEF FailWith

-----------------------------------------------------------------------------
(***************************************************************************)
(* Honesty: each step.                                                     *)
(***************************************************************************)

\* Resolution: the field that changes is the place.
LEMMA ResolvesHonest ==
  ASSUME DecisionInv, HonestInv, NEW r \in Run, ResolveSubject(r) \/ ResolvePackage(r)
  PROVE  HonestInv'
<1> DEFINE q == run[r]
<1>0. ProcessOK(q) /\ Faithful(q, world, trees)
  BY DEF DecisionInv, ProcessesOK, HonestInv
<1>1. q.pc \in {"subject", "package"} /\ q.pc \in Steps
  BY DEF ResolveSubject, ResolvePackage, At, Steps
<1>2. {"pc", "req"} \subseteq DOMAIN q
  BY <1>0, <1>1 DEF ProcessOK, Idle, Gone, Late
<1>3. CASE Fail(r, "invalid_input", Nothing)
  BY <1>1, <1>3, FailsHonest DEF Fail
<1>4. CASE ResolveSubject(r) /\ Go(r, [q EXCEPT !.pc = "package"])
  <2> DEFINE p == [q EXCEPT !.pc = "package"]
  <2>1. p["pc"] = "package" /\ p["req"] = q["req"]
    BY <1>2
  <2> HIDE DEF p, q
  <2>2. q.pc \in Working
    BY <1>4, <1>1 DEF Working
  <2>3. Faithful(p, world, trees)
    BY <1>0, <2>1, <2>2 DEF Faithful, OfTree, OfPackage, OfContext, OfPlan, OfCall, OfLedger,
       AfterContext, AfterPolicy, AfterPlan, AfterLadder
  <2> QED
    BY <1>4, <2>3, GoesHonest DEF p, q
<1>5. CASE /\ ResolvePackage(r) /\ Go(r, [q EXCEPT !.pc = "context"])
           /\ package_resolve(world.package) # Refused
           /\ q.req.package = package_resolve(world.package)
  <2> DEFINE p == [q EXCEPT !.pc = "context"]
  <2>1. p["pc"] = "context" /\ p["req"] = q["req"]
    BY <1>2
  <2>4. world.package \in AnyPackage
    BY DEF DecisionInv, WorldOK
  <2> HIDE DEF p, q
  <2>2. q.pc \in Working
    BY <1>5, <1>1 DEF Working
  <2>3. Faithful(p, world, trees)
    BY <1>0, <1>5, <2>1, <2>2, <2>4 DEF Faithful, OfTree, OfPackage, OfContext, OfPlan, OfCall,
       OfLedger, AfterContext, AfterPolicy, AfterPlan, AfterLadder
  <2> QED
    BY <1>5, <2>3, GoesHonest DEF p, q
<1> QED
  BY <1>3, <1>4, <1>5 DEF ResolveSubject, ResolvePackage, check_expected

LEMMA ContextHonest ==
  ASSUME DecisionInv, HonestInv, NEW r \in Run, ResolveContext(r)
  PROVE  HonestInv'
<1> DEFINE q     == run[r]
           facts == load_captured_facts(ctx.facts, world.facts)
           more  == [pc |-> "policy", facts |-> facts]
           p     == With(q, more)
<1>0. ProcessOK(q) /\ Faithful(q, world, trees)
  BY DEF DecisionInv, ProcessesOK, HonestInv
<1>1. q.pc = "context" /\ q.pc \in Steps /\ q.pc \in Working
  BY DEF ResolveContext, At, Steps, Working
<1>2. {"pc", "req"} \subseteq DOMAIN q
  BY <1>0, <1>1 DEF ProcessOK, Idle, Gone, Late
<1>3. CASE Fail(r, "policy_resolution", Nothing)
  BY <1>1, <1>3, FailsHonest DEF Fail
<1>4. CASE Go(r, p) /\ check_expected(q.req.context, ctx) /\ facts # Refused
  <2>1. facts = CommittedFacts(ctx) /\ q.req.context = ctx
    BY <1>4, LoadedFacts DEF check_expected
  <2> HIDE DEF facts
  <2>2. DOMAIN more = {"pc", "facts"} /\ more["pc"] = "policy" /\ more["facts"] = facts
    OBVIOUS
  <2> HIDE DEF more
  <2>3. /\ DOMAIN p = DOMAIN q \cup DOMAIN more
        /\ \A f \in DOMAIN more : p[f] = more[f]
        /\ \A f \in DOMAIN q \ DOMAIN more : p[f] = q[f]
    BY WithFields
  <2> HIDE DEF p, q
  <2>4. /\ "facts" \in DOMAIN p /\ p["facts"] = facts
        /\ p["req"] = q["req"] /\ p["pc"] = "policy"
    BY <1>2, <2>2, <2>3
  <2>5. Faithful(p, world, trees)
    BY <1>0, <1>1, <2>1, <2>4 DEF Faithful, OfTree, OfPackage, OfContext, OfPlan, OfCall,
       OfLedger, AfterContext, AfterPolicy, AfterPlan, AfterLadder
  <2> QED
    BY <1>4, <2>5, GoesHonest
<1> QED
  BY <1>3, <1>4 DEF ResolveContext

LEMMA PolicyHonest ==
  ASSUME DecisionInv, HonestInv, NEW r \in Run, ResolvePolicy(r)
  PROVE  HonestInv'
<1> DEFINE q    == run[r]
           evaluator == resolve_evaluator_identity(q.req.context.profile, execution_identity(r))
           more == [pc |-> "plan", policy |-> world.bundle, evaluator |-> evaluator]
           p    == With(q, more)
<1>0. ProcessOK(q) /\ Faithful(q, world, trees)
  BY DEF DecisionInv, ProcessesOK, HonestInv
<1>1. q.pc = "policy" /\ q.pc \in Steps /\ q.pc \in Working
  BY DEF ResolvePolicy, At, Steps, AfterContext, Working
<1>2. {"pc", "req", "facts"} \subseteq DOMAIN q
  BY <1>0, <1>1 DEF ProcessOK, Idle, Gone, Late, Faithful, OfContext, AfterContext
<1>3. CASE Fail(r, "policy_resolution", Nothing) \/ Fail(r, "invalid_input", Nothing)
  BY <1>1, <1>3, FailsHonest DEF Fail
<1>4. CASE Go(r, p)
  <2>2. DOMAIN more = {"pc", "policy", "evaluator"} /\ more["pc"] = "plan"
        /\ more["policy"] = world.bundle
    OBVIOUS
  <2> HIDE DEF more
  <2>3. /\ DOMAIN p = DOMAIN q \cup DOMAIN more
        /\ \A f \in DOMAIN more : p[f] = more[f]
        /\ \A f \in DOMAIN q \ DOMAIN more : p[f] = q[f]
    BY WithFields
  <2>6. world.bundle \in AnyBundle
    BY DEF DecisionInv, WorldOK
  <2> HIDE DEF p, q
  <2>4. /\ "facts" \in DOMAIN p /\ p["facts"] = q["facts"]
        /\ p["req"] = q["req"] /\ p["pc"] = "plan" /\ p["policy"] = world.bundle
    BY <1>2, <2>2, <2>3
  <2>5. Faithful(p, world, trees)
    BY <1>0, <1>1, <2>4, <2>6 DEF Faithful, OfTree, OfPackage, OfContext, OfPlan, OfCall,
       OfLedger, AfterContext, AfterPolicy, AfterPlan, AfterLadder
  <2> QED
    BY <1>4, <2>5, GoesHonest
<1> QED
  BY <1>3, <1>4 DEF ResolvePolicy

\* The plan is over what the package and the bundle commit to.
LEMMA PlanHonest ==
  ASSUME SpecsAreNormative, OverlaysKeepRequired,
         DecisionInv, HonestInv, NEW r \in Run, PlanRun(r)
  PROVE  HonestInv'
<1> DEFINE q       == run[r]
           loaded  == load_assertions(world.package)
           applied == IF load_overlay = NoOverlay THEN loaded
                      ELSE apply_overlay(loaded, load_overlay, q.policy)
           planned == plan(applied, q.policy.required, q.req.package.requirements, BUILTINS)
           more    == [pc |-> "read", planned |-> planned, next |-> 1,
                       ledger |-> <<>>, findings |-> {}, error |-> FALSE]
           p       == With(q, more)
<1>0. ProcessOK(q) /\ Faithful(q, world, trees)
  BY DEF DecisionInv, ProcessesOK, HonestInv
<1>1. q.pc = "plan" /\ q.pc \in Steps /\ q.pc \in Working
  BY DEF PlanRun, At, Steps, AfterContext, AfterPolicy, Working
<1>2. {"pc", "req", "facts", "policy"} \subseteq DOMAIN q
  BY <1>0, <1>1 DEF ProcessOK, Idle, Gone, Late, Faithful, OfContext, AfterContext, AfterPolicy
<1>3. CASE Fail(r, "policy_resolution", Nothing) \/ Fail(r, "invalid_input", Nothing)
  BY <1>1, <1>3, FailsHonest DEF Fail
<1>4. CASE applied # Refused /\ planned # Refused /\ Go(r, p)
  <2>1. /\ q.req.package = package_resolve(world.package) /\ q.req.package # Refused
        /\ q.policy \in AnyBundle
    BY <1>0, <1>1 DEF Faithful, OfPackage, OfContext, AfterContext, AfterPolicy
  <2>2. world.package \in AnyPackage /\ load_overlay \in AnyOverlay \cup {NoOverlay}
    BY DEF DecisionInv, WorldOK, load_overlay
  <2>3. /\ planned = plan(applied, q.policy.required, q.req.package.requirements, BUILTINS)
        /\ applied = IF load_overlay = NoOverlay THEN loaded
                     ELSE apply_overlay(loaded, load_overlay, q.policy)
        /\ loaded = load_assertions(world.package)
    OBVIOUS
  <2>4. applied # Refused /\ planned # Refused
    BY <1>4
  <2> HIDE DEF loaded, applied, planned
  <2>5. \A k \in 1..Len(planned) : Rooted(planned[k], q.req.package, q.policy.required)
    <3> HIDE DEF q
    <3> DEFINE o == load_overlay
    <3> HIDE DEF o
    <3>1. /\ o \in AnyOverlay \cup {NoOverlay}
          /\ applied = IF o = NoOverlay THEN loaded ELSE apply_overlay(loaded, o, q.policy)
      BY <2>2, <2>3 DEF o
    <3> QED
      BY <2>1, <2>2, <2>3, <2>4, <3>1, PlannedIsRooted
  <2>6. DOMAIN more = {"pc", "planned", "next", "ledger", "findings", "error"}
        /\ more["pc"] = "read" /\ more["planned"] = planned /\ more["ledger"] = <<>>
    OBVIOUS
  <2> HIDE DEF more
  <2>7. /\ DOMAIN p = DOMAIN q \cup DOMAIN more
        /\ \A f \in DOMAIN more : p[f] = more[f]
        /\ \A f \in DOMAIN q \ DOMAIN more : p[f] = q[f]
    BY WithFields
  <2> HIDE DEF p, q
  <2>8. /\ "facts" \in DOMAIN p /\ p["facts"] = q["facts"] /\ p["policy"] = q["policy"]
        /\ p["req"] = q["req"] /\ p["pc"] = "read" /\ p["planned"] = planned
        /\ p["ledger"] = <<>>
    BY <1>2, <2>6, <2>7
  <2>9. DOMAIN p.ledger = {}
    BY <2>8
  <2>10. Faithful(p, world, trees)
    BY <1>0, <1>1, <2>5, <2>8, <2>9 DEF Faithful, OfTree, OfPackage, OfContext, OfPlan, OfCall,
       OfLedger, AfterContext, AfterPolicy, AfterPlan, AfterLadder
  <2> QED
    BY <1>4, <2>10, GoesHonest
<1> QED
  BY <1>3, <1>4 DEF PlanRun

\* A row keeps what was found true, when it is true itself.
LEMMA RowHonest ==
  ASSUME NEW q, ProcessOK(q), q.pc \in {"read", "reverify"}, NEW w, NEW ts, Faithful(q, w, ts),
         NEW a, NEW outcome,
         outcome = "SATISFIED" /\ a.id \in q.policy.required => Holds(q.req, a.id),
         NEW p, p.pc = "read", p.req = q.req, p.policy = q.policy, p.planned = q.planned,
         "facts" \in DOMAIN p, p.facts = q.facts, p.ledger = Row(q, a, outcome).ledger
  PROVE  Faithful(p, w, ts)
<1>1. {"pc", "ledger", "next"} \subseteq DOMAIN q
  BY Evaluating
<1>2. /\ DOMAIN p.ledger = DOMAIN q.ledger \cup {a.id}
      /\ p.ledger[a.id] = outcome
      /\ \A i \in DOMAIN q.ledger \ {a.id} : p.ledger[i] = q.ledger[i]
  BY <1>1, RowLedger
<1>3. OfLedger(p)
  <2>1. OfLedger(q) /\ q.pc \in AfterPlan
    BY DEF Faithful, AfterPlan
  <2>2. ASSUME NEW aid \in DOMAIN p.ledger, aid \in p.policy.required,
               p.ledger[aid] = "SATISFIED"
        PROVE  Holds(p.req, aid)
    <3>1. CASE aid = a.id
      BY <1>2, <2>2, <3>1
    <3>2. CASE aid # a.id
      <4>1. aid \in DOMAIN q.ledger /\ q.ledger[aid] = "SATISFIED"
        BY <1>2, <2>2, <3>2
      <4>2. Holds(q.req, aid)
        BY <2>1, <2>2, <4>1 DEF OfLedger
      <4> QED
        BY <4>2
    <3> QED
      BY <3>1, <3>2
  <2> QED
    BY <2>2 DEF OfLedger
<1> QED
  BY <1>3 DEF Faithful, OfTree, OfPackage, OfContext, OfPlan, OfCall, Working, Steps,
     AfterContext, AfterPolicy, AfterPlan, AfterLadder

\* What a call returns is of the tree that the request names.
LEMMA ReadHonest ==
  ASSUME TreesAreCommitted, DecisionInv, HonestInv, NEW r \in Run, EvaluatorReads(r)
  PROVE  HonestInv'
<1> DEFINE q == run[r]
           a == q.planned[q.next]
<1>0. ProcessOK(q) /\ Faithful(q, world, trees) /\ q.pc = "read"
  BY DEF DecisionInv, ProcessesOK, HonestInv, EvaluatorReads, At
<1>1. {"pc", "host", "image", "req", "policy", "evaluator", "planned", "next", "ledger",
       "findings", "error", "facts"} \subseteq DOMAIN q
  <2>1. "facts" \in DOMAIN q
    BY <1>0 DEF Faithful, OfContext, AfterContext, AfterPolicy, AfterPlan
  <2> QED
    BY <1>0, <2>1, Evaluating
<1>2. \/ Go(r, Row(q, a, "UNRESOLVED"))
      \/ Go(r, [Row(q, a, "UNRESOLVED") EXCEPT !.error = TRUE])
      \/ Go(r, With(q, [pc |-> "reverify", error |-> TRUE, got |-> Unresolved]))
      \/ Go(r, With(q, [pc |-> "reverify",
                        got |-> Evaluate(a, q.req.package, world.tree, q.facts)]))
  BY DEF EvaluatorReads, Current
<1>a. a = q.planned[q.next] /\ q = run[r]
  OBVIOUS
<1> HIDE DEF q, a
<1> DEFINE row == Row(q, a, "UNRESOLVED")
<1>3. DOMAIN row = DOMAIN q /\ row["pc"] = "read"
      /\ \A f \in DOMAIN q \ {"pc", "ledger", "next"} : row[f] = q[f]
  BY <1>1, RowFields
<1>4. ASSUME NEW p, DOMAIN p = DOMAIN row, \A f \in DOMAIN row \ {"error"} : p[f] = row[f],
             Go(r, p)
      PROVE  HonestInv'
  <2>b. row.ledger = Row(q, a, "UNRESOLVED").ledger
    OBVIOUS
  <2> HIDE DEF row
  <2>1. /\ p["pc"] = "read" /\ p["req"] = q["req"] /\ p["policy"] = q["policy"]
        /\ p["planned"] = q["planned"] /\ "facts" \in DOMAIN p /\ p["facts"] = q["facts"]
        /\ p["ledger"] = row["ledger"]
    BY <1>1, <1>3, <1>4
  <2>2. Faithful(p, world, trees)
    BY <1>0, <2>b, <2>1, RowHonest
  <2> QED
    BY <1>4, <2>2, GoesHonest
<1>5. CASE Go(r, row)
  <2> HIDE DEF row
  <2> QED
    BY <1>4, <1>5
<1>6. CASE Go(r, [row EXCEPT !.error = TRUE])
  <2> DEFINE p == [row EXCEPT !.error = TRUE]
  <2>1. DOMAIN p = DOMAIN row /\ \A f \in DOMAIN row \ {"error"} : p[f] = row[f]
    OBVIOUS
  <2>2. Go(r, p)
    BY <1>6
  <2> HIDE DEF row, p
  <2> QED
    BY <1>4, <2>1, <2>2
<1>7. ASSUME NEW got, NEW more, {"pc", "got"} \subseteq DOMAIN more, more["pc"] = "reverify",
             more["got"] = got, DOMAIN more \subseteq {"pc", "got", "error"},
             Go(r, With(q, more)),
             got = Unresolved \/ got = Evaluate(a, q.req.package, world.tree, q.facts)
      PROVE  HonestInv'
  <2> DEFINE p == With(q, more)
  <2>1. /\ DOMAIN p = DOMAIN q \cup DOMAIN more
        /\ \A f \in DOMAIN more : p[f] = more[f]
        /\ \A f \in DOMAIN q \ DOMAIN more : p[f] = q[f]
    BY WithFields
  <2> HIDE DEF p
  <2>2. /\ p["pc"] = "reverify" /\ p["req"] = q["req"] /\ p["policy"] = q["policy"]
        /\ p["planned"] = q["planned"] /\ p["next"] = q["next"] /\ p["ledger"] = q["ledger"]
        /\ "facts" \in DOMAIN p /\ p["facts"] = q["facts"] /\ p["got"] = got
    BY <1>1, <1>7, <2>1
  <2>3. OfCall(p, world, trees)
    <3> SUFFICES ASSUME ~first_mutation(q.req.subject, world.tree), got # Unresolved
                 PROVE  \E t \in trees :
                           /\ build(t, world.kind) = q.req.subject
                           /\ got = Evaluate(a, q.req.package, t, q.facts)
      BY <1>a, <2>2 DEF OfCall
    <3>1. q.req.subject # Refused /\ \E t \in trees : build(t, world.kind) = q.req.subject
      BY <1>0 DEF Faithful, OfTree, Working, Steps, AfterContext, AfterPolicy, AfterPlan
    <3>2. PICK t \in trees : build(t, world.kind) = q.req.subject
      BY <3>1
    <3>3. world.kind \in Kinds /\ t \in AnyTree(world.kind) /\ world.tree \in AnyTree(world.kind)
      BY DEF HonestInv, SubjectsOK
    <3>4. world.tree = t
      BY <3>1, <3>2, <3>3, Unmutated
    <3> QED
      BY <1>7, <3>2, <3>4
  <2>4. Faithful(p, world, trees)
    BY <1>0, <2>2, <2>3 DEF Faithful, OfTree, OfPackage, OfContext, OfPlan, OfLedger, Working,
       Steps, AfterContext, AfterPolicy, AfterPlan, AfterLadder
  <2> QED
    BY <1>7, <2>4, GoesHonest DEF p
<1>8. ASSUME NEW got, Go(r, With(q, [pc |-> "reverify", error |-> TRUE, got |-> got])),
             got = Unresolved
      PROVE  HonestInv'
  <2> DEFINE more == [pc |-> "reverify", error |-> TRUE, got |-> got]
  <2>1. DOMAIN more = {"pc", "error", "got"} /\ more["pc"] = "reverify" /\ more["got"] = got
    OBVIOUS
  <2>2. Go(r, With(q, more))
    BY <1>8
  <2> HIDE DEF more
  <2> QED
    BY <1>7, <1>8, <2>1, <2>2
<1>9. ASSUME NEW got, Go(r, With(q, [pc |-> "reverify", got |-> got])),
             got = Evaluate(a, q.req.package, world.tree, q.facts)
      PROVE  HonestInv'
  <2> DEFINE more == [pc |-> "reverify", got |-> got]
  <2>1. DOMAIN more = {"pc", "got"} /\ more["pc"] = "reverify" /\ more["got"] = got
    OBVIOUS
  <2>2. Go(r, With(q, more))
    BY <1>9
  <2> HIDE DEF more
  <2> QED
    BY <1>7, <1>9, <2>1, <2>2
<1> QED
  BY <1>2, <1>5, <1>6, <1>8, <1>9

\* What a call found true of the tree is true of what the request commits to.
LEMMA FoundTrue ==
  ASSUME TreesAreCommitted, DecisionInv, HonestInv, NEW r \in Run, run[r].pc = "reverify",
         NEW a, a = run[r].planned[run[r].next], a.id \in run[r].policy.required,
         ~first_mutation(run[r].req.subject, world.tree), OutcomeOf(run[r].got) = "SATISFIED"
  PROVE  Holds(run[r].req, a.id)
<1> DEFINE q == run[r]
<1>0. Faithful(q, world, trees) /\ Lawful(q) /\ q.pc = "reverify"
  BY DEF DecisionInv, HonestInv
<1>a. /\ FactsOK
      /\ world.kind \in Kinds /\ trees \subseteq AnyTree(world.kind)
  BY DEF HonestInv, SubjectsOK
<1>b. a = q.planned[q.next] /\ a.id \in q.policy.required /\ q.got # Unresolved /\ q.got = {}
      /\ ~first_mutation(q.req.subject, world.tree)
  BY DEF OutcomeOf
<1> HIDE DEF q
<1>1. q.next \in 1..Len(q.planned)
  <2>1. Tally(q) /\ q.next <= Len(q.planned)
    BY <1>0 DEF Lawful
  <2>2. Len(q.planned) \in Nat /\ q.next \in 1..(Len(q.planned) + 1)
    BY <2>1 DEF Tally
  <2> DEFINE N == Len(q.planned)  n == q.next
  <2> HIDE DEF N, n
  <2>3. n <= N /\ N \in Nat /\ n \in 1..(N + 1)
    BY <2>1, <2>2 DEF N, n
  <2>4. n \in 1..N
    BY <2>3
  <2> QED
    BY <2>4 DEF N, n
<1>2. PICK b \in CommittedAssertions(q.req.package) : Alike(b, a)
  BY <1>0, <1>b, <1>1 DEF Faithful, OfPlan, Rooted
<1>3. PICK t \in trees : /\ build(t, world.kind) = q.req.subject
                         /\ Evaluate(a, q.req.package, t, q.facts) = {}
  BY <1>0, <1>b DEF Faithful, OfCall
<1>4. Evaluate(b, q.req.package, t, q.facts) = {}
  BY <1>2, <1>3, EvaluateAlike
<1>5. /\ q.req.subject # Refused /\ q.req.package # Refused
      /\ \E p \in AnyPackage : package_resolve(p) = q.req.package
      /\ q.facts = CommittedFacts(q.req.context)
  BY <1>0 DEF Faithful, OfTree, OfPackage, OfContext, Working, Steps, AfterContext, AfterPolicy,
     AfterPlan
<1>6. PICK p \in AnyPackage : package_resolve(p) = q.req.package
  BY <1>5
<1>7. q.req.context \in issued
  BY <1>0 DEF Lawful, AfterContext, AfterPolicy, AfterPlan
<1>8. PICK i \in Issues : q.req.context.facts = i.facts
  BY <1>a, <1>7 DEF FactsOK
<1>9. t \in AnyTree(world.kind)
  BY <1>a
<1> DEFINE subject == q.req.subject  package == q.req.package  c == q.req.context
           kind == world.kind
<1>10. /\ subject = build(t, kind) /\ subject # Refused /\ package = package_resolve(p)
       /\ package # Refused /\ b \in CommittedAssertions(package) /\ c.facts = i.facts
       /\ kind \in Kinds /\ t \in AnyTree(kind)
       /\ Evaluate(b, package, t, CommittedFacts(c)) = {}
  BY <1>a, <1>2, <1>3, <1>4, <1>5, <1>6, <1>8, <1>9
<1>12. b.id = a.id
  BY <1>2, AlikeFields
<1> HIDE DEF subject, package, c, kind
<1>11. Evaluate(b, package, CommittedTree(subject), CommittedFacts(c)) = {}
  BY <1>10, EvaluateCommitted
<1> QED
  BY <1>10, <1>11, <1>12 DEF Holds, subject, package, c, q

LEMMA ReverifyHonest ==
  ASSUME TreesAreCommitted, DecisionInv, HonestInv, NEW r \in Run, Reverify(r)
  PROVE  HonestInv'
<1> DEFINE q == run[r]
           a == q.planned[q.next]
<1>0. ProcessOK(q) /\ Faithful(q, world, trees) /\ q.pc = "reverify"
  BY DEF DecisionInv, ProcessesOK, HonestInv, Reverify, At
<1>1. {"pc", "host", "image", "req", "policy", "evaluator", "planned", "next", "ledger",
       "findings", "error", "got", "facts"} \subseteq DOMAIN q
  <2>1. "facts" \in DOMAIN q
    BY <1>0 DEF Faithful, OfContext, AfterContext, AfterPolicy, AfterPlan
  <2> QED
    BY <1>0, <2>1, Evaluating
<1>2. ASSUME NEW outcome,
             outcome = "SATISFIED" /\ a.id \in q.policy.required => Holds(q.req, a.id),
             NEW p, DOMAIN p = DOMAIN Row(q, a, outcome),
             \A f \in DOMAIN Row(q, a, outcome) \ {"error", "got", "findings"} :
               p[f] = Row(q, a, outcome)[f],
             Go(r, p)
      PROVE  HonestInv'
  <2> DEFINE row == Row(q, a, outcome)
  <2>b. row.ledger = Row(q, a, outcome).ledger
    OBVIOUS
  <2> HIDE DEF q, a
  <2>1. DOMAIN row = DOMAIN q /\ row["pc"] = "read"
        /\ \A f \in DOMAIN q \ {"pc", "ledger", "next"} : row[f] = q[f]
    BY <1>1, RowFields
  <2>2. DOMAIN p = DOMAIN row /\ \A f \in DOMAIN row \ {"error", "got", "findings"} : p[f] = row[f]
    BY <1>2
  <2> HIDE DEF row
  <2>3. /\ p["pc"] = "read" /\ p["req"] = q["req"] /\ p["policy"] = q["policy"]
        /\ p["planned"] = q["planned"] /\ "facts" \in DOMAIN p /\ p["facts"] = q["facts"]
        /\ p["ledger"] = row["ledger"]
    BY <1>1, <2>1, <2>2
  <2>4. Faithful(p, world, trees)
    BY <1>0, <1>2, <2>b, <2>3, RowHonest
  <2> QED
    BY <1>2, <2>4, GoesHonest
<1>3. CASE Go(r, [Row(q, a, "UNRESOLVED") EXCEPT !.error = TRUE, !.got = {}])
  <2> DEFINE row == Row(q, a, "UNRESOLVED")
             p   == [row EXCEPT !.error = TRUE, !.got = {}]
  <2>1. /\ DOMAIN p = DOMAIN row
        /\ \A f \in DOMAIN row \ {"error", "got", "findings"} : p[f] = row[f]
    <3> HIDE DEF row
    <3> QED
      OBVIOUS
  <2>2. Go(r, p)
    BY <1>3
  <2> HIDE DEF p, q, a
  <2> QED
    BY <1>2, <2>1, <2>2
<1>4. CASE /\ ~first_mutation(q.req.subject, world.tree)
           /\ Go(r, [Row(q, a, OutcomeOf(q.got)) EXCEPT
                       !.findings = IF q.got = Unresolved THEN @ ELSE @ \cup q.got,
                       !.got = {}])
  <2> DEFINE outcome == OutcomeOf(q.got)
             row   == Row(q, a, outcome)
             found == IF q.got = Unresolved THEN row.findings ELSE row.findings \cup q.got
             p     == [row EXCEPT !.findings = found, !.got = {}]
  <2>3. outcome = "SATISFIED" /\ a.id \in q.policy.required => Holds(q.req, a.id)
    BY <1>0, <1>4, FoundTrue
  <2>1. /\ DOMAIN p = DOMAIN row
        /\ \A f \in DOMAIN row \ {"error", "got", "findings"} : p[f] = row[f]
    <3> HIDE DEF row, found
    <3> QED
      OBVIOUS
  <2>2. Go(r, p)
    BY <1>4
  <2> HIDE DEF p, q, a, outcome
  <2> QED
    BY <1>2, <2>1, <2>2, <2>3
<1> QED
  BY <1>3, <1>4 DEF Reverify, Current

\* What is sealed is what was found.
LEMMA SealFaithful ==
  ASSUME NEW q, NEW w, NEW ts, Faithful(q, w, ts), q.pc \in AfterPlan,
         NEW p, p.pc \in AfterLadder, p.req = q.req, p.policy = q.policy, p.ledger = q.ledger,
         "facts" \in DOMAIN p, p.facts = q.facts
  PROVE  Faithful(p, w, ts)
BY DEF Faithful, OfTree, OfPackage, OfContext, OfPlan, OfCall, OfLedger, Working, Steps,
   AfterContext, AfterPolicy, AfterPlan, AfterLadder

LEMMA AdoptHonest ==
  ASSUME DecisionInv, HonestInv, NEW r \in Run, Adopt(r)
  PROVE  HonestInv'
<1> DEFINE q       == run[r]
           blocked == adoption_evaluate(q.ledger, q.findings,
                                        LadderInput(r, load_adoption_sets.baseline,
                                                    load_adoption_sets.exceptions)).blocked
           more    == [pc |-> "seal", blocked |-> blocked]
           p       == With(q, more)
<1>0. ProcessOK(q) /\ Faithful(q, world, trees) /\ q.pc = "read"
  BY DEF DecisionInv, ProcessesOK, HonestInv, Adopt, At
<1>1. /\ {"pc", "req", "policy", "ledger", "facts"} \subseteq DOMAIN q
      /\ q.pc \in Steps /\ q.pc \in AfterPlan
  <2>1. "facts" \in DOMAIN q
    BY <1>0 DEF Faithful, OfContext, AfterContext, AfterPolicy, AfterPlan
  <2> QED
    BY <1>0, <2>1, Evaluating DEF AfterPlan
<1>2. CASE Fail(r, "execution", q.ledger) \/ Fail(r, "policy_resolution", Nothing)
  BY <1>1, <1>2, FailsHonest DEF Fail
<1>3. CASE Go(r, p)
  <2> HIDE DEF blocked
  <2>1. DOMAIN more = {"pc", "blocked"} /\ more["pc"] = "seal"
    OBVIOUS
  <2> HIDE DEF more
  <2>2. /\ DOMAIN p = DOMAIN q \cup DOMAIN more
        /\ \A f \in DOMAIN more : p[f] = more[f]
        /\ \A f \in DOMAIN q \ DOMAIN more : p[f] = q[f]
    BY WithFields
  <2> HIDE DEF p, q
  <2>3. /\ p["pc"] = "seal" /\ p["req"] = q["req"] /\ p["policy"] = q["policy"]
        /\ p["ledger"] = q["ledger"] /\ "facts" \in DOMAIN p /\ p["facts"] = q["facts"]
    BY <1>1, <2>1, <2>2
  <2>4. Faithful(p, world, trees)
    BY <1>0, <1>1, <2>3, SealFaithful DEF AfterLadder
  <2> QED
    BY <1>3, <2>4, GoesHonest
<1> QED
  BY <1>2, <1>3 DEF Adopt

\* A PASS has a satisfied row for all that is required, and each is true.
LEMMA ResultIsTrue ==
  ASSUME DecisionInv, HonestInv, NEW r \in Run, run[r].pc \in AfterLadder
  PROVE  TrueIfPass(ResultOf(r))
<1> DEFINE q   == run[r]
           res == Result(q)
<1>1. Lawful(q) /\ Faithful(q, world, trees) /\ q.pc \in AfterLadder
  BY DEF DecisionInv, HonestInv
<1>2. Complete(res) /\ OfLedger(q) /\ q.pc \in AfterPlan
  BY <1>1 DEF Lawful, Faithful, AfterPlan
<1> HIDE DEF q
<1>3. /\ res.policy = q.policy /\ res.ledger = q.ledger /\ res.package = q.req.package
      /\ res.subject = q.req.subject /\ res.context = q.req.context
  BY DEF Result
<1> HIDE DEF res
<1>4. res.decision = "PASS" => \A aid \in q.policy.required : Holds(q.req, aid)
  BY <1>2, <1>3 DEF Complete, OfLedger
<1>5. TrueIfPass(res)
  BY <1>3, <1>4 DEF TrueIfPass, Honest, Holds
<1> QED
  BY <1>5, ResultOfProcess DEF res, q

LEMMA SealingFields ==
  ASSUME DecisionInv, HonestInv, NEW r \in Run, run[r].pc \in AfterLadder
  PROVE  /\ {"pc", "req", "policy", "ledger", "facts"} \subseteq DOMAIN run[r]
         /\ Faithful(run[r], world, trees) /\ run[r].pc \in AfterPlan /\ run[r].pc \in Steps
<1>1. ProcessOK(run[r]) /\ Faithful(run[r], world, trees)
  BY DEF DecisionInv, ProcessesOK, HonestInv
<1>2. "facts" \in DOMAIN run[r]
  BY <1>1 DEF Faithful, OfContext, AfterContext, AfterPolicy, AfterPlan
<1> QED
  BY <1>1, <1>2, Sealing DEF AfterPlan

LEMMA SealsHonest ==
  ASSUME DecisionInv, HonestInv, NEW r \in Run, run[r].pc \in AfterLadder,
         NEW pc \in AfterLadder, run' = [run EXCEPT ![r].pc = pc],
         UNCHANGED <<world, trees, pending, issued>>,
         Decisions' = Decisions, ClaimHonest(out')
  PROVE  HonestInv'
<1> DEFINE p == [run[r] EXCEPT !.pc = pc]
<1>1. /\ {"pc", "req", "policy", "ledger", "facts"} \subseteq DOMAIN run[r]
      /\ Faithful(run[r], world, trees) /\ run[r].pc \in AfterPlan
  BY SealingFields
<1>2. /\ p["pc"] = pc /\ p["req"] = run[r]["req"] /\ p["policy"] = run[r]["policy"]
      /\ p["ledger"] = run[r]["ledger"] /\ "facts" \in DOMAIN p
      /\ p["facts"] = run[r]["facts"]
  BY <1>1
<1>3. run' = [run EXCEPT ![r] = p]
  OBVIOUS
<1> HIDE DEF p
<1>4. Faithful(p, world, trees)
  BY <1>1, <1>2, SealFaithful
<1> QED
  BY <1>3, <1>4, ProceedsHonest

LEMMA EvidenceHonest ==
  ASSUME DecisionInv, HonestInv, NEW r \in Run, SealEvidence(r)
  PROVE  HonestInv'
<1> DEFINE files == [objects  |-> out.objects \cup run[r].findings,
                     manifest |-> run[r].findings]
<1>1. "result" \notin DOMAIN files /\ "claim" \notin DOMAIN files /\ Write(files)
  BY DEF SealEvidence
<1> HIDE DEF files
<1>2. Decisions' = Decisions /\ ClaimHonest(out')
  BY <1>1, WriteOther, ClaimKept DEF HonestInv
<1>3. run[r].pc \in AfterLadder /\ "result" \in AfterLadder
  BY DEF SealEvidence, At, AfterLadder
<1> QED
  BY <1>2, <1>3, SealsHonest DEF SealEvidence

LEMMA ResultHonest ==
  ASSUME DecisionInv, HonestInv, NEW r \in Run, EmitResult(r)
  PROVE  HonestInv'
<1>1. run[r].pc \in AfterLadder
  BY DEF EmitResult, At, AfterLadder
<1>2. DOMAIN run = Run
  BY DEF DecisionInv, ProcessesOK
<1>3. /\ {"pc", "req", "policy", "ledger", "facts"} \subseteq DOMAIN run[r]
      /\ Faithful(run[r], world, trees) /\ run[r].pc \in AfterPlan
  BY <1>1, SealingFields
<1>4. PICK b \in BOOLEAN :
        run' = [run EXCEPT ![r] = With(run[r], [pc |-> "attest", fellback |-> b])]
  BY <1>2 DEF EmitResult
<1> DEFINE more == [pc |-> "attest", fellback |-> b]
           p    == With(run[r], more)
<1>6. DOMAIN more = {"pc", "fellback"} /\ more["pc"] = "attest"
  OBVIOUS
<1> HIDE DEF more
<1>7. /\ DOMAIN p = DOMAIN run[r] \cup DOMAIN more
      /\ \A f \in DOMAIN more : p[f] = more[f]
      /\ \A f \in DOMAIN run[r] \ DOMAIN more : p[f] = run[r][f]
  BY WithFields
<1>8. run' = [run EXCEPT ![r] = p]
  BY <1>4 DEF more
<1> HIDE DEF p
<1>a. /\ p["pc"] = "attest" /\ p["req"] = run[r]["req"] /\ p["policy"] = run[r]["policy"]
      /\ p["ledger"] = run[r]["ledger"] /\ "facts" \in DOMAIN p
      /\ p["facts"] = run[r]["facts"]
  BY <1>3, <1>6, <1>7
<1>b. Faithful(p, world, trees)
  BY <1>3, <1>a, SealFaithful DEF AfterLadder
<1>9. /\ \A res \in Decisions' : res \in Decisions \/ TrueIfPass(res)
      /\ ClaimHonest(out')
  <2>1. CASE Write([result |-> ResultOf(r)])
    <3> DEFINE files == [result |-> ResultOf(r)]
    <3>1. "claim" \notin DOMAIN files
      OBVIOUS
    <3>2. Write(files)
      BY <2>1
    <3> HIDE DEF files
    <3>3. ClaimHonest(out')
      BY <3>1, <3>2, ClaimKept DEF HonestInv
    <3>4. Decisions' \subseteq {ResultOf(r)} /\ TrueIfPass(ResultOf(r))
      BY <1>1, <2>1, WriteResult, ResultIsTrue
    <3> QED
      BY <3>3, <3>4
  <2>2. CASE UNCHANGED out
    BY <2>2, SameFiles DEF HonestInv
  <2> QED
    BY <2>1, <2>2 DEF EmitResult
<1> QED
  BY <1>8, <1>9, <1>b, ProceedsHonest DEF EmitResult

LEMMA AttestationHonest ==
  ASSUME DecisionInv, HonestInv, NEW r \in Run, EmitAttestation(r)
  PROVE  HonestInv'
<1>1. run[r].pc \in AfterLadder /\ run[r].pc \in Steps
  BY DEF EmitAttestation, At, AfterLadder, AfterPlan, AfterPolicy, AfterContext, Steps
<1>2. CASE Fail(r, "attestation", run[r].ledger)
  BY <1>1, <1>2, FailsHonest DEF Fail
<1>3. CASE /\ run' = [run EXCEPT ![r].pc = "envelope"]
           /\ UNCHANGED <<world, ctx, pending, answer, issued, trees, edits, faults>>
           /\ \/ Write([attestation |-> Attestation(r, "pilot-signer")])
              \/ UNCHANGED out
  <2> DEFINE files == [attestation |-> Attestation(r, "pilot-signer")]
  <2>1. "result" \notin DOMAIN files /\ "claim" \notin DOMAIN files
    OBVIOUS
  <2>2. Write(files) \/ UNCHANGED out
    BY <1>3
  <2> HIDE DEF files
  <2>3. Decisions' = Decisions /\ ClaimHonest(out')
    BY <2>1, <2>2, WriteOther, SameFiles, ClaimKept DEF HonestInv
  <2>4. "envelope" \in AfterLadder
    BY DEF AfterLadder
  <2> QED
    BY <1>1, <1>3, <2>3, <2>4, SealsHonest
<1> QED
  BY <1>2, <1>3 DEF EmitAttestation

LEMMA EnvelopeHonest ==
  ASSUME DecisionInv, HonestInv, NEW r \in Run, EmitEnvelope(r)
  PROVE  HonestInv'
<1> DEFINE files == [envelope |-> [decision |-> decide(run[r].ledger, run[r].blocked),
                                   signed |-> required(run[r].req.context) /\ signer_key]]
<1>1. "result" \notin DOMAIN files /\ "claim" \notin DOMAIN files /\ Write(files)
  BY DEF EmitEnvelope
<1> HIDE DEF files
<1>2. Decisions' = Decisions /\ ClaimHonest(out')
  BY <1>1, WriteOther, ClaimKept DEF HonestInv
<1>3. run[r].pc \in AfterLadder /\ "finish" \in AfterLadder
  BY DEF EmitEnvelope, At, AfterLadder
<1> QED
  BY <1>2, <1>3, SealsHonest DEF EmitEnvelope

\* The claim binds the result of the process that writes it.
LEMMA ClaimBinds ==
  ASSUME NEW r
  PROVE  /\ "bound" \in DOMAIN DecisionClaim(r)
         /\ "decision" \in DOMAIN DecisionClaim(r).bound =>
              DecisionClaim(r).bound.decision = ResultOf(r)
<1> DEFINE digests == [subject |-> run[r].req.subject, package |-> run[r].req.package,
                       policy |-> run[r].policy, context |-> run[r].req.context,
                       evidence |-> run[r].findings, decision |-> ResultOf(r)]
           known == {role \in DOMAIN digests : digests[role] # Nothing}
           bound == [role \in known |-> digests[role]]
           claim == [new_claim EXCEPT !.bound = bound]
<1>1. \E state : DecisionClaim(r) = [bind(new_claim, digests) EXCEPT !.state = state]
  BY DEF DecisionClaim
<1>2. bind(new_claim, digests) = claim
  BY DEF bind
<1>3. "bound" \in DOMAIN claim /\ claim.bound = bound
  BY DEF new_claim
<1>4. digests["decision"] = ResultOf(r)
  OBVIOUS
<1> HIDE DEF digests
<1>5. "decision" \in DOMAIN bound => bound["decision"] = ResultOf(r)
  BY <1>4
<1> HIDE DEF claim, bound
<1>6. PICK state : DecisionClaim(r) = [claim EXCEPT !.state = state]
  BY <1>1, <1>2
<1>7. "bound" \in DOMAIN DecisionClaim(r) /\ DecisionClaim(r).bound = bound
  BY <1>3, <1>6
<1> QED
  BY <1>5, <1>7

LEMMA FinishHonest ==
  ASSUME DecisionInv, HonestInv, NEW r \in Run, Finish(r)
  PROVE  HonestInv'
<1> DEFINE detached == keys(r) # {} /\ ~Written("attestation")
           claimed  == [claim |-> DecisionClaim(r)]
           signed   == IF detached THEN [attestation |-> attest(r, "runner")] ELSE <<>>
           files    == With(claimed, signed)
<1>1. run[r].pc \in Steps /\ run[r].pc \in AfterLadder
  BY DEF Finish, At, AfterLadder, AfterPlan, AfterPolicy, AfterContext, Steps
<1>2. CASE Fail(r, "policy_resolution", Nothing)
  BY <1>1, <1>2, FailsHonest DEF Fail
<1>3. CASE /\ Write(files) /\ Exits(r, CodeOf(r))
           /\ UNCHANGED <<world, ctx, pending, issued, trees, edits, faults>>
  <2> HIDE DEF detached
  <2>1. DOMAIN claimed = {"claim"} /\ DOMAIN signed \subseteq {"attestation"}
        /\ claimed["claim"] = DecisionClaim(r)
    OBVIOUS
  <2> HIDE DEF claimed, signed
  <2>2. DOMAIN files = DOMAIN claimed \cup DOMAIN signed
        /\ \A f \in DOMAIN claimed \ DOMAIN signed : files[f] = claimed[f]
    BY WithFields
  <2> HIDE DEF files
  <2>3. Decisions' = Decisions
    BY <1>3, <2>1, <2>2, WriteOther
  <2>a. files["claim"] = DecisionClaim(r) /\ "claim" \in DOMAIN files
    BY <2>1, <2>2
  <2>d. out'["claim"] = DecisionClaim(r)
    BY <1>3, <2>a, WritePuts
  <2>c. ClaimHonest(out')
    BY <1>1, <2>d, ClaimBinds, ResultIsTrue DEF ClaimHonest
  <2>4. PICK p : run' = [run EXCEPT ![r] = p] /\ p.pc \in {"exited", "gone", "late"}
    BY <1>1, <1>3, ExitsWithout
  <2>5. Faithful(p, world, trees)
    BY <2>4, RestsFaithful
       DEF Working, Steps, AfterContext, AfterPolicy, AfterPlan, AfterLadder
  <2> QED
    BY <1>3, <2>3, <2>4, <2>5, <2>c, ProceedsHonest
<1> QED
  BY <1>2, <1>3 DEF Finish

LEMMA FaultedHonest ==
  ASSUME DecisionInv, HonestInv, NEW r \in Run, SealFails(r) \/ SigningFails(r) \/ Crash(r)
  PROVE  HonestInv'
<1>1. run[r].pc \in Steps
  BY DEF SealFails, SigningFails, Crash, Running, At, DecisionInv, ProcessesOK, ProcessOK, Idle,
     Gone, Late, AfterLadder, AfterPlan, AfterPolicy, AfterContext, Steps
<1>2. CASE SealFails(r) \/ SigningFails(r)
  BY <1>1, <1>2, FailsHonest DEF SealFails, SigningFails
<1>3. CASE Crash(r)
  <2>1. PICK p : run' = [run EXCEPT ![r] = p] /\ p.pc \in {"exited", "gone", "late"}
    BY <1>1, <1>3, ExitsWithout DEF Crash
  <2>2. Faithful(p, world, trees)
    BY <2>1, RestsFaithful
       DEF Working, Steps, AfterContext, AfterPolicy, AfterPlan, AfterLadder
  <2>3. Decisions' = Decisions /\ ClaimHonest(out')
    BY <1>3, SameFiles DEF Crash, HonestInv
  <2> QED
    BY <1>3, <2>1, <2>2, <2>3, ProceedsHonest DEF Crash
<1> QED
  BY <1>2, <1>3

\* What a process has read is as it was when its host gives up on it.
LEMMA AsFaithful ==
  ASSUME NEW q, ProcessOK(q), q.pc \in Steps, NEW w, NEW ts, Faithful(q, w, ts),
         NEW p, DOMAIN p = DOMAIN q, \A f \in DOMAIN q \ {"host"} : p[f] = q[f]
  PROVE  Faithful(p, w, ts)
<1>1. {"pc", "req"} \subseteq DOMAIN q /\ p["pc"] = q["pc"] /\ p["req"] = q["req"]
  BY DEF ProcessOK, Idle, Gone, Late, Steps, AfterContext, AfterPolicy, AfterPlan, AfterLadder
<1>2. q.pc \in AfterContext => "facts" \in DOMAIN q /\ p["facts"] = q["facts"]
  BY DEF Faithful, OfContext
<1>3. q.pc \in AfterPolicy => "policy" \in DOMAIN q /\ p["policy"] = q["policy"]
  BY DEF ProcessOK, Idle, Gone, Late, Steps, AfterContext, AfterPolicy, AfterPlan, AfterLadder
<1>4. q.pc \in AfterPlan =>
        /\ {"planned", "next", "ledger"} \subseteq DOMAIN q
        /\ p["planned"] = q["planned"] /\ p["next"] = q["next"] /\ p["ledger"] = q["ledger"]
  BY DEF ProcessOK, Idle, Gone, Late, Steps, AfterContext, AfterPolicy, AfterPlan, AfterLadder
<1>5. q.pc = "reverify" => p["got"] = q["got"]
  BY DEF ProcessOK, Idle, Gone, Late, Steps, AfterContext, AfterPolicy, AfterPlan, AfterLadder
<1>6. OfTree(p, w, ts) /\ OfPackage(p, w)
  BY <1>1 DEF Faithful, OfTree, OfPackage
<1>7. OfContext(p)
  BY <1>1, <1>2, <1>3 DEF Faithful, OfContext
<1>8. OfPlan(p)
  BY <1>1, <1>3, <1>4 DEF Faithful, OfPlan, AfterPolicy, AfterPlan
<1>9. OfCall(p, w, ts)
  BY <1>1, <1>2, <1>4, <1>5 DEF Faithful, OfCall, AfterContext, AfterPolicy, AfterPlan
<1>10. OfLedger(p)
  BY <1>1, <1>3, <1>4 DEF Faithful, OfLedger, AfterPolicy
<1> QED
  BY <1>6, <1>7, <1>8, <1>9, <1>10 DEF Faithful

LEMMA GoneIsFaithful == Faithful(Gone, world, trees) /\ Faithful(Idle, world, trees)
<1>1. Gone.pc \notin Working /\ Idle.pc \notin Working
  BY DEF Gone, Idle, Working, Steps, AfterContext, AfterPolicy, AfterPlan, AfterLadder
<1> QED
  BY <1>1, RestsFaithful

LEMMA HostHonest ==
  ASSUME DecisionInv, HonestInv, NEW r \in Run, HostRelays(r) \/ HostGivesUp(r)
  PROVE  HonestInv'
<1>1. CASE HostRelays(r)
  <2>1. CASE UNCHANGED out
    <3>1. Decisions' = Decisions /\ ClaimHonest(out')
      BY <2>1, SameFiles DEF HonestInv
    <3> QED
      BY <1>1, <3>1, GoneIsFaithful, ProceedsHonest DEF HostRelays
  <2>2. CASE Write([result |-> ErrorResult("execution", Nothing)])
    BY <1>1, <2>2, GoneIsFaithful, ErrsHonest DEF HostRelays
  <2> QED
    BY <1>1, <2>1, <2>2 DEF HostRelays
<1>2. CASE HostGivesUp(r)
  <2>1. CASE run' = [run EXCEPT ![r] = Gone]
    BY <1>2, <2>1, GoneIsFaithful, ErrsHonest DEF HostGivesUp
  <2>2. CASE run' = [run EXCEPT ![r].host = "gaveup"]
    <3> DEFINE p == [run[r] EXCEPT !.host = "gaveup"]
    <3>1. ProcessOK(run[r]) /\ Faithful(run[r], world, trees) /\ run[r].pc \in Steps
      BY <1>2 DEF HostGivesUp, Running, DecisionInv, HonestInv, ProcessesOK, ProcessOK, Idle,
         Gone, Late
    <3>2. DOMAIN p = DOMAIN run[r] /\ \A f \in DOMAIN run[r] \ {"host"} : p[f] = run[r][f]
      OBVIOUS
    <3>3. run' = [run EXCEPT ![r] = p]
      BY <2>2
    <3> HIDE DEF p
    <3>4. Faithful(p, world, trees)
      BY <3>1, <3>2, AsFaithful
    <3> QED
      BY <1>2, <3>3, <3>4, ErrsHonest DEF HostGivesUp
  <2> QED
    BY <1>2, <2>1, <2>2 DEF HostGivesUp
<1> QED
  BY <1>1, <1>2

\* A request names the tree that is there.
LEMMA InvokeHonest ==
  ASSUME DecisionInv, HonestInv, NEW r \in Run,
         \/ InvokeLocal(r)
         \/ \E v \in Versions : InvokeForeign(r, v)
         \/ \E l \in Launches : InvokeContained(r, l.config, l.outputs)
  PROVE  HonestInv'
<1>1. ASSUME NEW host, NEW policy, NEW image, Invocable(r),
             run' = [run EXCEPT ![r] = Started(host, policy, image)],
             UNCHANGED <<world, ctx, pending, out, issued, trees>>
      PROVE  HonestInv'
  <2> DEFINE p == Started(host, policy, image)
  <2>1. p.pc = "subject" /\ p.req.subject = build(world.tree, world.kind)
    BY DEF Started, build_request
  <2>2. run' = [run EXCEPT ![r] = p]
    BY <1>1
  <2> HIDE DEF p
  <2>3. p.req.subject # Refused /\ world.tree \in trees
    BY <1>1, <2>1 DEF Invocable, HonestInv, SubjectsOK
  <2>4. Faithful(p, world, trees)
    BY <2>1, <2>3 DEF Faithful, OfTree, OfPackage, OfContext, OfPlan, OfCall, OfLedger,
       AfterContext, AfterPolicy, AfterPlan, AfterLadder
  <2>5. Decisions' = Decisions /\ ClaimHonest(out')
    BY <1>1, SameFiles DEF HonestInv
  <2> QED
    BY <1>1, <2>2, <2>4, <2>5, ProceedsHonest
<1>2. CASE InvokeLocal(r)
  <2>1. PICK policy \in Bundles : run' = [run EXCEPT ![r] = Started("local", policy, Nothing)]
    BY <1>2 DEF InvokeLocal
  <2> QED
    BY <1>1, <1>2, <2>1 DEF InvokeLocal
<1>3. CASE \E v \in Versions : InvokeForeign(r, v)
  BY <1>3, GoneIsFaithful, ErrsHonest DEF InvokeForeign
<1>4. ASSUME NEW l \in Launches, InvokeContained(r, l.config, l.outputs)
      PROVE  HonestInv'
  <2>1. CASE LaunchAccepted(l.config, l.outputs)
    <3>1. /\ run' = [run EXCEPT ![r] =
                       Started("waiting", ctx.binding.expected, l.config.image.digest)]
          /\ Invocable(r) /\ UNCHANGED <<world, ctx, pending, out, issued, trees>>
      BY <1>4, <2>1 DEF InvokeContained
    <3> QED
      BY <1>1, <3>1
  <2>2. CASE ~LaunchAccepted(l.config, l.outputs)
    BY <1>4, <2>2, GoneIsFaithful, ErrsHonest DEF InvokeContained
  <2> QED
    BY <2>1, <2>2
<1> QED
  BY <1>2, <1>3, <1>4

\* A step of another actor leaves what the processes read as it was, or they
\* will see that it is not.
LEMMA ElsewhereHonest ==
  ASSUME HonestInv, SubjectsOK', FactsOK', UNCHANGED run,
         \A r \in Run : Faithful(run[r], world', trees'),
         Decisions' \subseteq Decisions, ClaimHonest(out')
  PROVE  HonestInv'
<1>1. \A res \in Decisions' : TrueIfPass(res)'
  BY DEF HonestInv, TrueIfPass
<1> QED
  BY <1>1 DEF HonestInv

LEMMA SameWorldFaithful ==
  ASSUME NEW p, NEW w, NEW ts, Faithful(p, w, ts), NEW v,
         v.kind = w.kind, v.tree = w.tree, v.package = w.package
  PROVE  Faithful(p, v, ts)
BY DEF Faithful, OfTree, OfPackage, OfCall

LEMMA IssuedHonest ==
  ASSUME DecisionInv, HonestInv, NEW i \in Issues, IssueSets(i)
  PROVE  HonestInv'
<1>1. pending'.facts = i.facts
  BY DEF IssueSets, NewContext
<1>2. world'.kind = world.kind /\ world'.tree = world.tree /\ world'.package = world.package
  BY DEF IssueSets, DecisionInv, WorldOK
<1>3. SubjectsOK'
  BY <1>2 DEF HonestInv, SubjectsOK, IssueSets
<1>4. FactsOK'
  BY <1>1 DEF HonestInv, FactsOK, IssueSets
<1>5. \A r \in Run : Faithful(run[r], world', trees')
  BY <1>2, SameWorldFaithful DEF HonestInv, IssueSets
<1>6. Decisions' = Decisions /\ ClaimHonest(out')
  BY SameFiles DEF IssueSets, HonestInv
<1> QED
  BY <1>3, <1>4, <1>5, <1>6, ElsewhereHonest DEF IssueSets

LEMMA ContextIssuedHonest ==
  ASSUME DecisionInv, HonestInv, IssueContext
  PROVE  HonestInv'
<1>1. SubjectsOK' /\ FactsOK'
  BY DEF HonestInv, SubjectsOK, FactsOK, IssueContext
<1>2. \A r \in Run : Faithful(run[r], world', trees')
  BY DEF HonestInv, IssueContext
<1>3. Decisions' = Decisions /\ ClaimHonest(out')
  BY SameFiles DEF IssueContext, HonestInv
<1> QED
  BY <1>1, <1>2, <1>3, ElsewhereHonest DEF IssueContext

\* A tree that was not there before is a mutation of every one that was.
LEMMA TreeEdited ==
  ASSUME TreesAreCommitted, HonestInv, NEW t \in Trees[world.kind], t \notin trees,
         NEW p, Faithful(p, world, trees), NEW v,
         v.kind = world.kind, v.tree = t, v.package = world.package
  PROVE  Faithful(p, v, trees \cup {t})
<1>1. world.kind \in Kinds /\ t \in AnyTree(world.kind) /\ trees \subseteq AnyTree(world.kind)
  BY DEF HonestInv, SubjectsOK, AnyTree
<1>2. p.pc = "reverify" => first_mutation(p.req.subject, t)
  <2>1. SUFFICES ASSUME p.pc = "reverify", ~first_mutation(p.req.subject, t)
                 PROVE  FALSE
    OBVIOUS
  <2>2. p.req.subject # Refused /\ \E u \in trees : build(u, world.kind) = p.req.subject
    BY <2>1 DEF Faithful, OfTree, Working, Steps, AfterContext, AfterPolicy, AfterPlan
  <2>3. PICK u \in trees : build(u, world.kind) = p.req.subject
    BY <2>2
  <2>4. t = u
    BY <1>1, <2>1, <2>2, <2>3, Unmutated
  <2> QED
    BY <2>3, <2>4
<1>3. OfTree(p, v, trees \cup {t})
  BY DEF Faithful, OfTree
<1>4. OfCall(p, v, trees \cup {t})
  BY <1>2 DEF OfCall
<1> QED
  BY <1>3, <1>4 DEF Faithful, OfPackage

LEMMA EditedHonest ==
  ASSUME ~Reverts, ~SpecsRace, TreesAreCommitted, DecisionInv, HonestInv, Edit
  PROVE  HonestInv'
<1>1. UNCHANGED <<pending, run, out, issued>>
  BY DEF Edit
<1>2. FactsOK' /\ Decisions' = Decisions /\ ClaimHonest(out')
  BY <1>1, SameFiles DEF HonestInv, FactsOK
<1>3. {"tree", "kind", "package", "bundle", "overlay", "baseline", "stage", "revoked"}
        \subseteq DOMAIN world
  BY DEF DecisionInv, WorldOK
<1>4. ASSUME world'.kind = world.kind, world'.tree = world.tree,
             world'.package = world.package, UNCHANGED trees
      PROVE  HonestInv'
  <2>1. SubjectsOK'
    BY <1>4 DEF HonestInv, SubjectsOK
  <2>2. \A r \in Run : Faithful(run[r], world', trees')
    BY <1>4, SameWorldFaithful DEF HonestInv
  <2> QED
    BY <1>1, <1>2, <2>1, <2>2, ElsewhereHonest
<1>5. ASSUME NEW t \in Trees[world.kind] \ trees,
             world' = [world EXCEPT !.tree = t], trees' = trees \cup {t}
      PROVE  HonestInv'
  <2>1. world'.kind = world.kind /\ world'.tree = t /\ world'.package = world.package
    BY <1>3, <1>5
  <2>2. SubjectsOK'
    BY <1>5, <2>1 DEF HonestInv, SubjectsOK, AnyTree
  <2>3. \A r \in Run : Faithful(run[r], world', trees')
    BY <1>5, <2>1, TreeEdited DEF HonestInv
  <2> QED
    BY <1>1, <1>2, <2>2, <2>3, ElsewhereHonest
<1>6. ASSUME NEW q \in Packages, world' = [world EXCEPT !.package = q], UNCHANGED trees,
             \A r \in Run : run[r].pc \notin {"context", "policy", "plan"}
      PROVE  HonestInv'
  <2>1. world'.kind = world.kind /\ world'.tree = world.tree
    BY <1>3, <1>6
  <2>2. SubjectsOK'
    BY <1>6, <2>1 DEF HonestInv, SubjectsOK
  <2>3. \A r \in Run : Faithful(run[r], world', trees')
    BY <1>6, <2>1 DEF HonestInv, Faithful, OfTree, OfPackage, OfCall
  <2> QED
    BY <1>1, <1>2, <2>2, <2>3, ElsewhereHonest
<1>7. CASE \E t \in Trees[world.kind] \ (IF Reverts THEN {world.tree} ELSE trees) :
             world' = [world EXCEPT !.tree = t] /\ trees' = trees \cup {t} /\ UNCHANGED ctx
  BY <1>5, <1>7
<1>8. CASE \E q \in Packages \ {world.package} :
             /\ SpecsRace \/ \A r \in Run : run[r].pc \notin {"context", "policy", "plan"}
             /\ world' = [world EXCEPT !.package = q]
             /\ UNCHANGED <<trees, ctx>>
  BY <1>6, <1>8
<1>9. CASE /\ UNCHANGED trees
           /\ \/ \E o : world' = [world EXCEPT !.overlay = o]
              \/ \E b : world' = [world EXCEPT !.baseline = b]
              \/ \E b : world' = [world EXCEPT !.bundle = b]
              \/ \E n : world' = [world EXCEPT !.stage = n]
              \/ \E b : world' = [world EXCEPT !.revoked = b]
              \/ UNCHANGED world
  <2>1. /\ world'.kind = world.kind /\ world'.tree = world.tree
        /\ world'.package = world.package
    BY <1>3, <1>9
  <2> QED
    BY <1>4, <1>9, <2>1
<1> QED
  BY <1>7, <1>8, <1>9 DEF Edit

\* An independent check raises a claim and binds nothing.
LEMMA ClaimVerifiedHonest ==
  ASSUME DecisionInv, HonestInv, VerifyClaim
  PROVE  HonestInv'
<1>1. PICK check, state : out' = [out EXCEPT !.claim.check = check, !.claim.state = state]
  BY DEF VerifyClaim
<1>2. DOMAIN out' = DOMAIN out /\ "claim" \in DOMAIN out
  BY <1>1 DEF VerifyClaim, Written
<1>3. "result" \in DOMAIN out => out'["result"] = out["result"]
  BY <1>1
<1>4. Decisions' = Decisions
  BY <1>2, <1>3 DEF Decisions, Written
<1>5. "bound" \in DOMAIN out["claim"]
  BY <1>2 DEF HonestInv, ClaimHonest
<1>6. "bound" \in DOMAIN out'["claim"] /\ out'["claim"].bound = out["claim"].bound
  BY <1>1, <1>2, <1>5
<1>7. ClaimHonest(out')
  BY <1>2, <1>6 DEF HonestInv, ClaimHonest
<1>8. SubjectsOK' /\ FactsOK' /\ \A r \in Run : Faithful(run[r], world', trees')
  BY DEF HonestInv, SubjectsOK, FactsOK, VerifyClaim
<1> QED
  BY <1>4, <1>7, <1>8, ElsewhereHonest DEF VerifyClaim

\* The invariant holds at first and is kept.
LEMMA HonestInit ==
  ASSUME Init
  PROVE  HonestInv
<1>1. SubjectsOK /\ FactsOK
  BY DEF Init, SubjectsOK, FactsOK, Kinds, AnyTree
<1>2. \A r \in Run : Faithful(run[r], world, trees)
  BY GoneIsFaithful DEF Init
<1>3. "result" \notin DOMAIN out /\ "claim" \notin DOMAIN out
  BY DEF Init
<1>4. Decisions = {} /\ ClaimHonest(out)
  BY <1>3 DEF Decisions, Written, ClaimHonest
<1> QED
  BY <1>1, <1>2, <1>4 DEF HonestInv

LEMMA HonestNext ==
  ASSUME ~Reverts, ~SpecsRace, SpecsAreNormative, OverlaysKeepRequired, TreesAreCommitted,
         DecisionInv, HonestInv, [Next]_vars
  PROVE  HonestInv'
<1>1. CASE UNCHANGED vars
  <2>1. Decisions' = Decisions /\ ClaimHonest(out')
    BY <1>1, SameFiles DEF vars, HonestInv
  <2>2. SubjectsOK' /\ FactsOK' /\ \A r \in Run : Faithful(run[r], world', trees')
    BY <1>1 DEF vars, HonestInv, SubjectsOK, FactsOK
  <2> QED
    BY <1>1, <2>1, <2>2, ElsewhereHonest DEF vars
<1>2. ASSUME NEW r \in Run, ProcessStep(r)
      PROVE  HonestInv'
  BY <1>2, ResolvesHonest, ContextHonest, PolicyHonest, PlanHonest, ReadHonest, ReverifyHonest,
     AdoptHonest, EvidenceHonest, ResultHonest, AttestationHonest, EnvelopeHonest, FinishHonest
     DEF ProcessStep
<1> QED
  BY <1>1, <1>2, IssuedHonest, ContextIssuedHonest, EditedHonest, ClaimVerifiedHonest,
     InvokeHonest, FaultedHonest, HostHonest
     DEF Next

\* What is certified is a decision of a run, or is bound by the claim of one.
LEMMA CertifiedIsHonest ==
  ASSUME HonestInv
  PROVE  VerifiedPassIsHonest
<1>1. SUFFICES ASSUME NEW res \in Certified, res.decision = "PASS"
               PROVE  Honest(res)
  BY DEF VerifiedPassIsHonest
<1>2. CASE res = out["result"] /\ (verify_run \/ verify_outcome = 0)
  <2>1. Written("result")
    BY <1>2 DEF verify_run, verify_outcome, ExitOfError
  <2>2. res \in Decisions
    BY <1>1, <1>2, <2>1 DEF Decisions
  <2> QED
    BY <1>1, <2>2 DEF HonestInv, TrueIfPass
<1>3. CASE /\ Written("claim") /\ "decision" \in DOMAIN out["claim"].bound
           /\ res = out["claim"].bound.decision
  BY <1>1, <1>3 DEF HonestInv, ClaimHonest, Written, TrueIfPass
<1> QED
  BY <1>1, <1>2, <1>3 DEF Certified

\* A certified PASS is true of the subject, the package and the facts that it
\* names, whatever is edited while the runs read, die, or are abandoned: when no
\* edit puts an earlier tree back, none replaces the package between its
\* resolution and the loading of its assertions, and no overlay puts another
\* approved evaluator under a required assertion (evaluate.run,
\* subject.first_mutation, package.resolve, plan.plan, attest.verify_run).
THEOREM PassesAreHonest ==
  ASSUME ~Reverts, ~SpecsRace, SpecsAreNormative, OverlaysKeepRequired, TreesAreCommitted
  PROVE  Spec => []VerifiedPassIsHonest
<1>1. Init => HonestInv
  BY HonestInit
<1>2. DecisionInv /\ HonestInv /\ [Next]_vars => HonestInv'
  BY HonestNext
<1>3. HonestInv => VerifiedPassIsHonest
  BY CertifiedIsHonest
<1> QED
  BY <1>1, <1>2, <1>3, DecisionsAreLawful, PTL DEF Spec
=============================================================================
