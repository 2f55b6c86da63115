------------------------------- MODULE Design -------------------------------
(***************************************************************************)
(* The order in which the arms of a block run (campaign/schedule.py and    *)
(* experiment/randomization.py).  Blocks take rows of a Williams design:   *)
(* whole designs as often as they fit, then a remainder.  A task with a    *)
(* second seed takes a row and its exact reversal.                         *)
(*                                                                         *)
(* The binding only seeds permutations, so here every choice a permutation *)
(* could make is allowed.  Which task takes which row of the pool matters  *)
(* to nothing the design promises: the pool and the pairs are kept.        *)
(***************************************************************************)
EXTENDS Integers, Sequences, FiniteSets, FiniteSetsExt, Functions

Bigger(a, b) == IF a >= b THEN a ELSE b

FlipOf(row) == [j \in DOMAIN row |-> row[Len(row) + 1 - j]]

\* 0, 1, n-1, 2, n-2, ...
WilliamsFirstRow(n) ==
  [j \in 1 .. n |-> IF j = 1 THEN 0 ELSE IF j % 2 = 0 THEN j \div 2 ELSE n - (j \div 2)]

\* The n translates of the first row, and for an odd n their reversals: a function of the row's
\* index, as the assignment works with indices.
WilliamsSquare(n) ==
  LET translate(i) == [j \in 1 .. n |-> (WilliamsFirstRow(n)[j] + i) % n]
  IN  [i \in 0 .. (IF n % 2 = 1 THEN (2 * n) - 1 ELSE n - 1) |->
         IF i < n THEN translate(i) ELSE FlipOf(translate(i - n))]

ReversalOf(square) ==
  [i \in DOMAIN square |-> CHOOSE k \in DOMAIN square : square[k] = FlipOf(square[i])]

PairTypes(square) == {{i, ReversalOf(square)[i]} : i \in DOMAIN square}

\* The remainder left by the whole designs, and the pairs it has to reserve for second seeds the
\* whole designs cannot give a pair to.
Cycles(square, total) == total \div Cardinality(DOMAIN square)
Remainder(square, total) == total % Cardinality(DOMAIN square)
NeededPairs(square, tasks, seconds) ==
  Bigger(0, seconds - (Cycles(square, tasks + seconds) * Cardinality(PairTypes(square))))

\* Mutant: any remainder of an odd design is taken for a safe window.
AnyWindow(n, pairs, left) == n % 2 = 1 /\ pairs = 0

\* An odd design whose remainder is small and holds no forced pair takes a window of translates.
SafeWindow(n, pairs, left) == n % 2 = 1 /\ pairs = 0 /\ left <= n \div 2

Windows(n, square, left) ==
  {{IF flipped THEN ReversalOf(square)[(start + (dir * k)) % n] ELSE (start + (dir * k)) % n
      : k \in 0 .. (left - 1)}
     : start \in 0 .. (n - 1), dir \in {1, n - 1}, flipped \in BOOLEAN}

\* Otherwise the translates in any order and then their reversals in that order, without those
\* already reserved.
GeneralFills(n, square, reserved, left) ==
  LET free == (0 .. (n - 1)) \ reserved
      back == {ReversalOf(square)[i] : i \in 0 .. (n - 1)} \ (reserved \cup (0 .. (n - 1)))
  IN  IF left <= Cardinality(free)
        THEN kSubset(left, free)
        ELSE {free \cup more : more \in kSubset(left - Cardinality(free), back)}

\* The rows the remainder may consist of.  Empty when no choice fills it: the fallback of the code,
\* which does not look at what is reserved, would then repeat rows.
ExtraRows(n, square, tasks, seconds) ==
  LET pairs == NeededPairs(square, tasks, seconds)
      left == Remainder(square, tasks + seconds) - (2 * pairs)
  IN  UNION {LET reserved == UNION chosen
             IN  {reserved \cup fill : fill \in
                    IF SafeWindow(n, pairs, left) THEN Windows(n, square, left)
                    ELSE GeneralFills(n, square, reserved, left)}
               : chosen \in kSubset(pairs, PairTypes(square))}

RowPool(square, cycles, extra) ==
  [i \in DOMAIN square |-> cycles + (IF i \in extra THEN 1 ELSE 0)]

\* How often each reversal pair is handed to a task with a second seed.
PairSlots(square, pool) ==
  [pair \in PairTypes(square) |-> Min({pool[i] : i \in pair})]
PairChoices(square, pool, seconds) ==
  LET slots == PairSlots(square, pool)
      most == Max({0} \cup Range(slots))
  IN  {given \in [PairTypes(square) -> 0 .. most] :
         /\ \A pair \in PairTypes(square) : given[pair] <= slots[pair]
         /\ SumFunction(given) = seconds}

\* The rows left for the tasks with one seed.
SingleRows(square, pool, given) ==
  [i \in DOMAIN square |->
     pool[i] - SumFunction([pair \in {p \in PairTypes(square) : i \in p} |-> given[pair]])]

DesignOf(n, tasks, seconds, pool, given, safe) ==
  [arms |-> n, tasks |-> tasks, seconds |-> seconds, pool |-> pool, given |-> given, safe |-> safe]

\* Every design the constructor may freeze for these counts.
Designs(n, tasks, seconds) ==
  LET square == WilliamsSquare(n)
      pairs == NeededPairs(square, tasks, seconds)
      left == Remainder(square, tasks + seconds) - (2 * pairs)
  IN  UNION {LET pool == RowPool(square, Cycles(square, tasks + seconds), extra)
             IN  {DesignOf(n, tasks, seconds, pool, given, SafeWindow(n, pairs, left))
                    : given \in PairChoices(square, pool, seconds)}
               : extra \in ExtraRows(n, square, tasks, seconds)}
-----------------------------------------------------------------------------
(* What a reader of the schedule counts.                                   *)

PositionCount(square, pool, arm, j) ==
  SumFunction([i \in {r \in DOMAIN square : square[r][j] = arm} |-> pool[i]])

FollowCount(square, pool, arm, next) ==
  SumFunction([i \in {r \in DOMAIN square :
                  \E j \in 1 .. (Len(square[r]) - 1) :
                    square[r][j] = arm /\ square[r][j + 1] = next} |-> pool[i]])

Level(counts) == counts = {} \/ Max(counts) - Min(counts) <= 1

Balanced(d) ==
  LET square == WilliamsSquare(d.arms)
      arms == 0 .. (d.arms - 1)
  IN  /\ \A j \in 1 .. d.arms : Level({PositionCount(square, d.pool, a, j) : a \in arms})
      /\ Level({FollowCount(square, d.pool, p[1], p[2]) : p \in {q \in arms \X arms : q[1] # q[2]}})
=============================================================================
