------------------------- MODULE SettingBuild_proofs -------------------------
(***************************************************************************)
(* Proofs about how commands become a Setting, for any commands and any    *)
(* number of them; and, at the end, about the log.                         *)
(*                                                                         *)
(* The property is read off the script alone: which EndKeymap closes which *)
(* block is a matter of counting both.  What the proof adds is where the   *)
(* builder stands (Places): the stack holds the blocks that are open, in   *)
(* the order they were opened in, each with the keymap in effect where its *)
(* statement stands, and as many blocks are open inside of it as there are *)
(* entries above it.  Then a block that ends takes the builder back to     *)
(* where the script was before it, an end too many finds no open block,    *)
(* and the current keymap bears the name the script says.                  *)
(*                                                                         *)
(* What the commands that came denote does not change when more come: the  *)
(* first half of the lemmas says so of every operator that reads the       *)
(* script.  A keymap that is created late has had no statement so far      *)
(* (KnownPlaces), so it may begin with no assignment.                      *)
(*                                                                         *)
(* Commit is folds.  Of each the results on the way are named (K), up to a *)
(* least number at which they would not be what they should: of            *)
(* FlattenSeq() which sequence an element is of (Flat), of the filling     *)
(* that a body is what its actions say so far (Obeys), in a table that     *)
(* only grows by sequences without a name (Later).  What waits for the     *)
(* Commit is what the script has asked for, in its order (Pending,         *)
(* Shells); that is invariant, so the Commit gives what the script says.   *)
(*                                                                         *)
(* A keymap's list of modifiers follows its statements one by one          *)
(* (Follows, Told): of each key it holds the last word, with "new" at its  *)
(* head only.  Commit folds such a list over what the keymap begins with   *)
(* (Says, LeftBy), and over the keymaps in their order, so that a parent   *)
(* is adjusted before its children (AdjustedTo).                           *)
(*                                                                         *)
(* The invariant of the log is inductive only with what is true while the  *)
(* mutex is held, and with what may be in the buffer: between messages     *)
(* nothing but text in nobody's hands, in a message what it wrote itself   *)
(* besides, unless the UI thread is writing without the mutex.             *)
(***************************************************************************)
EXTENDS SettingBuild, LogStream, FiniteSetTheorems, SequenceTheorems,
        WellFoundedInduction, TLAPS

-----------------------------------------------------------------------------
(* Numbers: the least and the greatest of a set. *)

\* Every set of numbers that is not empty has a least one, ...
LEMMA LeastNat ==
  ASSUME NEW T \in SUBSET Nat, T # {}
  PROVE  \E x \in T : \A y \in T : x <= y
<1> DEFINE R == OpToRel(<, Nat)
<1>1. IsWellFoundedOn(R, Nat)  BY NatLessThanWellFounded
<1>2. \A x, y \in Nat : x < y => <<x, y>> \in R  BY DEF OpToRel
<1> HIDE DEF R
<1>3. PICK x \in T : \A y \in T : <<y, x>> \notin R  BY <1>1, WFMin
<1>4. \A y \in T : y \in Nat  OBVIOUS
<1>5. \A y \in T : ~(y < x)  BY <1>2, <1>3, <1>4
<1> QED  BY <1>4, <1>5

\* Min and Max, which the script is read with, are what they are called.
LEMMA MinOf ==
  ASSUME NEW T \in SUBSET Nat, T # {}
  PROVE  Min(T) \in T /\ \A y \in T : Min(T) <= y
BY LeastNat DEF Min

\* ... and one that is bounded has a greatest one.
LEMMA MaxOf ==
  ASSUME NEW n \in Nat, NEW T \in SUBSET (1..n), T # {}
  PROVE  Max(T) \in T /\ \A y \in T : y <= Max(T)
<1> DEFINE U == {n - x : x \in T}
<1>0. \A x \in T : x \in 1..n /\ n - x \in Nat  OBVIOUS
<1>1. U \subseteq Nat /\ U # {}  BY <1>0
<1>2. PICK u \in U : \A y \in U : u <= y  BY <1>1, LeastNat
<1>3. PICK t \in T : u = n - t  BY <1>2
<1>4. \A y \in T : t >= y
  <2> TAKE y \in T
  <2>1. n - t <= n - y  BY <1>2, <1>3
  <2> QED  BY <2>1
<1> QED  BY <1>3, <1>4 DEF Max

-----------------------------------------------------------------------------
(* The script grows by a command. *)

Grows(c) == script \in Seq(Commands) /\ c \in Commands /\ script' = Append(script, c)

\* The script after a command: what it was, and the command.
LEMMA Grown ==
  ASSUME NEW c, Grows(c)
  PROVE  /\ Len(script) \in Nat /\ Len(script') = Len(script) + 1
         /\ DOMAIN script = 1..Len(script) /\ DOMAIN script' = 1..(Len(script) + 1)
         /\ \A i \in 1..Len(script) : script'[i] = script[i]
         /\ script'[Len(script) + 1] = c
         /\ script' \in Seq(Commands)
         /\ AtEnd = Len(script) + 1 /\ AtEnd' = Len(script) + 2
BY AppendProperties DEF Grows, AtEnd

\* The commands of a kind after a command.
LEMMA GrownAt ==
  ASSUME NEW c, Grows(c), NEW kind
  PROVE  /\ At(kind) \subseteq 1..Len(script)
         /\ At(kind)' = At(kind) \cup (IF c.cmd = kind THEN {Len(script) + 1} ELSE {})
BY Grown DEF At

\* What lies before the new command stays what it was: blocks and their ends, ...
LEMMA SameBlocks ==
  ASSUME NEW c, Grows(c), NEW a \in Int, NEW b \in Int, b <= Len(script)
  PROVE  Blocks(a, b)' = Blocks(a, b) /\ Ends(a, b)' = Ends(a, b)
<1>1. \A i \in 1..(Len(script) + 1) : i \in a..b => i \in 1..Len(script)  BY Grown
<1> QED  BY <1>1, Grown DEF Blocks, Ends, At

\* ... which end closes which block, ...
LEMMA SameCloses ==
  ASSUME NEW c, Grows(c), NEW b \in Int, NEW e \in Int, e <= Len(script) + 1
  PROVE  Closes(b, e)' <=> Closes(b, e)
<1>1. \A x \in b + 1 .. e - 1 : Blocks(b + 1, x)' = Blocks(b + 1, x) /\ Ends(b + 1, x)' = Ends(b + 1, x)
  <2> SUFFICES ASSUME NEW x \in b + 1 .. e - 1
               PROVE Blocks(b + 1, x)' = Blocks(b + 1, x) /\ Ends(b + 1, x)' = Ends(b + 1, x)
    OBVIOUS
  <2>1. b + 1 \in Int /\ x \in Int /\ x <= Len(script)  BY Grown
  <2> QED  BY <2>1, SameBlocks
<1>2. Blocks(b + 1, e - 1)' = Blocks(b + 1, e - 1) /\ Ends(b + 1, e - 1)' = Ends(b + 1, e - 1)
  <2>1. b + 1 \in Int /\ e - 1 \in Int /\ e - 1 <= Len(script)  BY Grown
  <2> QED  BY <2>1, SameBlocks
<1> QED  BY <1>1, <1>2 DEF Closes

\* ... which keymap statements are left behind, ...
LEMMA SameLeft ==
  ASSUME NEW c, Grows(c), NEW j \in Int, NEW i \in Int, j <= Len(script), i <= Len(script) + 1
  PROVE  Left(j, i)' <=> Left(j, i)
<1>1. Blocks(1, j)' = Blocks(1, j)  BY SameBlocks
<1>2. Ends(j + 1, i - 1)' = Ends(j + 1, i - 1)
  <2>1. j + 1 \in Int /\ i - 1 \in Int /\ i - 1 <= Len(script)  BY Grown
  <2> QED  BY <2>1, SameBlocks
<1>3. \A b \in Blocks(1, j), e \in Ends(j + 1, i - 1) : Closes(b, e)' <=> Closes(b, e)
  <2> TAKE b \in Blocks(1, j), e \in Ends(j + 1, i - 1)
  <2>1. b \in Int /\ e \in Int /\ e <= Len(script) + 1  BY Grown DEF Blocks, Ends
  <2> QED  BY <2>1, SameCloses
<1> QED  BY <1>1, <1>2, <1>3 DEF Left

\* the keymap statements in effect at i
InEffect(i) == {j \in At("DefKeymap") \cap (1 .. i - 1) : script[j].scope # "Declare" /\ ~Left(j, i)}

\* The keymap a command stands in, by the statements in effect.
LEMMA HereIs ==
  ASSUME NEW i
  PROVE  Here(i) = IF InEffect(i) = {} THEN "Global" ELSE script[Max(InEffect(i))].name
BY DEF Here, InEffect

\* The same after a step.
LEMMA HereIsNext ==
  ASSUME NEW i
  PROVE  Here(i)' = IF InEffect(i)' = {} THEN "Global" ELSE script'[Max(InEffect(i)')].name
BY DEF Here, InEffect

\* ... and so the keymap that each of them stands in.
LEMMA SameHere ==
  ASSUME NEW c, Grows(c), NEW i \in 1..(Len(script) + 1)
  PROVE  Here(i)' = Here(i)
<1>1. InEffect(i)' = InEffect(i)
  <2>1. \A j \in 1 .. i - 1 : (j \in At("DefKeymap")' <=> j \in At("DefKeymap")) /\ script'[j] = script[j]
    BY Grown, GrownAt
  <2>2. \A j \in 1 .. i - 1 : Left(j, i)' <=> Left(j, i)
    <3> TAKE j \in 1 .. i - 1
    <3>1. j \in Int /\ i \in Int /\ j <= Len(script) /\ i <= Len(script) + 1  BY Grown
    <3> QED  BY <3>1, SameLeft
  <2> QED  BY <2>1, <2>2 DEF InEffect
<1>2. InEffect(i) \subseteq 1..Len(script)  BY GrownAt DEF InEffect
<1>3. InEffect(i) # {} => Max(InEffect(i)) \in 1..Len(script)
  BY <1>2, MaxOf, Grown
<1>4. InEffect(i) # {} => script'[Max(InEffect(i))] = script[Max(InEffect(i))]  BY <1>3, Grown
<1> QED  BY <1>1, <1>4, HereIs, HereIsNext

-----------------------------------------------------------------------------
(* Blocks and their ends are counted. *)

\* the number of blocks that open, and of those that end, from a to b
Opened(a, b) == Cardinality(Blocks(a, b))
Ended(a, b) == Cardinality(Ends(a, b))

\* The block opened at b has not been closed by n.
Unclosed(b, n) == \A x \in b + 1 .. n : Ended(b + 1, x) <= Opened(b + 1, x)

\* An end closes a block that was unclosed and has balanced contents.
LEMMA ClosesIs ==
  ASSUME NEW b, NEW e
  PROVE  Closes(b, e) <=> Unclosed(b, e - 1) /\ Ended(b + 1, e - 1) = Opened(b + 1, e - 1)
BY DEF Closes, Unclosed, Opened, Ended

\* Blocks and ends are finitely many, and none from a number to a smaller one.
LEMMA Counts ==
  ASSUME script \in Seq(Commands), NEW a \in Int, NEW b \in Int
  PROVE  /\ IsFiniteSet(Blocks(a, b)) /\ IsFiniteSet(Ends(a, b))
         /\ Opened(a, b) \in Nat /\ Ended(a, b) \in Nat
         /\ b < a => Opened(a, b) = 0 /\ Ended(a, b) = 0
<1>1. IsFiniteSet(1..Len(script))  BY FS_Interval
<1>2. Blocks(a, b) \subseteq 1..Len(script) /\ Ends(a, b) \subseteq 1..Len(script)
  BY DEF Blocks, Ends, At
<1>3. IsFiniteSet(Blocks(a, b)) /\ IsFiniteSet(Ends(a, b))  BY <1>1, <1>2, FS_Subset
<1>4. b < a => Blocks(a, b) = {} /\ Ends(a, b) = {}  BY DEF Blocks, Ends
<1> QED  BY <1>3, <1>4, FS_CardinalityType, FS_EmptySet DEF Opened, Ended

\* Those of an interval are those of its parts.
LEMMA Split ==
  ASSUME script \in Seq(Commands), NEW a \in Int, NEW m \in Int, NEW b \in Int,
         a <= m + 1, m <= b
  PROVE  /\ Opened(a, b) = Opened(a, m) + Opened(m + 1, b)
         /\ Ended(a, b) = Ended(a, m) + Ended(m + 1, b)
<1>0. m + 1 \in Int  OBVIOUS
<1>1. /\ Blocks(a, b) = Blocks(a, m) \cup Blocks(m + 1, b)
      /\ Ends(a, b) = Ends(a, m) \cup Ends(m + 1, b)
  BY DEF Blocks, Ends
<1>2. Blocks(a, m) \cap Blocks(m + 1, b) = {} /\ Ends(a, m) \cap Ends(m + 1, b) = {}
  BY DEF Blocks, Ends
<1>3. /\ IsFiniteSet(Blocks(a, m)) /\ IsFiniteSet(Blocks(m + 1, b))
      /\ IsFiniteSet(Ends(a, m)) /\ IsFiniteSet(Ends(m + 1, b))
  BY <1>0, Counts
<1>4. Cardinality({}) = 0  BY FS_EmptySet
<1>5. /\ Opened(a, m) \in Nat /\ Opened(m + 1, b) \in Nat
      /\ Ended(a, m) \in Nat /\ Ended(m + 1, b) \in Nat
  BY <1>0, Counts
<1>6. Cardinality(Blocks(a, m) \cup Blocks(m + 1, b))
        = Cardinality(Blocks(a, m)) + Cardinality(Blocks(m + 1, b)) - Cardinality({})
  BY <1>2, <1>3, FS_Union
<1>7. Cardinality(Ends(a, m) \cup Ends(m + 1, b))
        = Cardinality(Ends(a, m)) + Cardinality(Ends(m + 1, b)) - Cardinality({})
  BY <1>2, <1>3, FS_Union
<1> QED  BY <1>1, <1>4, <1>5, <1>6, <1>7 DEF Opened, Ended

Opens(c) == c.cmd = "DefKeymap" /\ c.scope = "Block"

\* A command adds itself to those that are counted.
LEMMA CountsGrow ==
  ASSUME NEW c, Grows(c), NEW n \in Nat, n = Len(script), NEW a \in Int, a <= n + 1
  PROVE  /\ Opened(a, n + 1)' = Opened(a, n) + (IF Opens(c) THEN 1 ELSE 0)
         /\ Ended(a, n + 1)' = Ended(a, n) + (IF c.cmd = "EndKeymap" THEN 1 ELSE 0)
<1>0. n \in Nat /\ n + 1 \in Int /\ n \in Int  BY Grown
<1>1. /\ Blocks(a, n + 1)' = Blocks(a, n) \cup (IF Opens(c) THEN {n + 1} ELSE {})
      /\ n + 1 \notin Blocks(a, n)
  BY <1>0, Grown DEF Blocks, At, Opens
<1>2. /\ Ends(a, n + 1)' = Ends(a, n) \cup (IF c.cmd = "EndKeymap" THEN {n + 1} ELSE {})
      /\ n + 1 \notin Ends(a, n)
  BY <1>0, Grown DEF Ends, At
<1>3. IsFiniteSet(Blocks(a, n)) /\ IsFiniteSet(Ends(a, n))
  BY <1>0, Counts DEF Grows
<1>4. /\ Cardinality(Blocks(a, n) \cup {n + 1}) = Cardinality(Blocks(a, n)) + 1
      /\ Cardinality(Ends(a, n) \cup {n + 1}) = Cardinality(Ends(a, n)) + 1
  BY <1>1, <1>2, <1>3, FS_AddElement
<1>5. Opened(a, n) \in Nat /\ Ended(a, n) \in Nat  BY <1>0, Counts DEF Grows
<1>6. Opened(a, n + 1)' = Opened(a, n) + (IF Opens(c) THEN 1 ELSE 0)
  <2>1. CASE Opens(c)
    <3>1. Blocks(a, n + 1)' = Blocks(a, n) \cup {n + 1}  BY <1>1, <2>1
    <3> QED  BY <1>4, <2>1, <3>1 DEF Opened
  <2>2. CASE ~Opens(c)
    <3>1. Blocks(a, n + 1)' = Blocks(a, n)  BY <1>1, <2>2
    <3> QED  BY <1>5, <2>2, <3>1 DEF Opened
  <2> QED  BY <2>1, <2>2
<1>7. Ended(a, n + 1)' = Ended(a, n) + (IF c.cmd = "EndKeymap" THEN 1 ELSE 0)
  <2>1. CASE c.cmd = "EndKeymap"
    <3>1. Ends(a, n + 1)' = Ends(a, n) \cup {n + 1}  BY <1>2, <2>1
    <3> QED  BY <1>4, <2>1, <3>1 DEF Ended
  <2>2. CASE c.cmd # "EndKeymap"
    <3>1. Ends(a, n + 1)' = Ends(a, n)  BY <1>2, <2>2
    <3> QED  BY <1>5, <2>2, <3>1 DEF Ended
  <2> QED  BY <2>1, <2>2
<1> QED  BY <1>6, <1>7

\* Nothing changes before it, ...
LEMMA SameCounts ==
  ASSUME NEW c, Grows(c), NEW a \in Int, NEW b \in Int, b <= Len(script)
  PROVE  Opened(a, b)' = Opened(a, b) /\ Ended(a, b)' = Ended(a, b)
BY SameBlocks DEF Opened, Ended

\* ... whether a block is unclosed there included.
LEMMA SameUnclosed ==
  ASSUME NEW c, Grows(c), NEW b \in Int, NEW n \in Int, n <= Len(script)
  PROVE  Unclosed(b, n)' <=> Unclosed(b, n)
<1> SUFFICES ASSUME NEW x \in b + 1 .. n
             PROVE Opened(b + 1, x)' = Opened(b + 1, x) /\ Ended(b + 1, x)' = Ended(b + 1, x)
  BY DEF Unclosed
<1>1. b + 1 \in Int /\ x \in Int /\ x <= Len(script)  BY Grown
<1> QED  BY <1>1, SameCounts

\* A block is unclosed after the command if it was before and the command does
\* not end more than opened in it.
LEMMA UnclosedGrows ==
  ASSUME NEW c, Grows(c), NEW n \in Nat, n = Len(script), NEW b \in Int, b <= n
  PROVE  Unclosed(b, n + 1)' <=>
           /\ Unclosed(b, n)
           /\ Ended(b + 1, n + 1)' <= Opened(b + 1, n + 1)'
<1>1. n \in Int /\ n + 1 \in Int /\ b + 1 .. n + 1 = (b + 1 .. n) \cup {n + 1}  BY Grown
<1>2. Unclosed(b, n)' <=> Unclosed(b, n)  BY <1>1, SameUnclosed
<1>3. Unclosed(b, n)' <=> \A x \in b + 1 .. n : Ended(b + 1, x)' <= Opened(b + 1, x)'
  BY DEF Unclosed
<1>4. Unclosed(b, n + 1)' <=>
        \A x \in b + 1 .. n + 1 : Ended(b + 1, x)' <= Opened(b + 1, x)'
  BY DEF Unclosed
<1> QED  BY <1>1, <1>2, <1>3, <1>4

-----------------------------------------------------------------------------
(* The keymap the next command stands in. *)

\* A command that is neither a keymap statement nor the end of one leaves the
\* place as it is, and a keymap statement is what holds after it.
LEMMA HereStays ==
  ASSUME NEW c, Grows(c), NEW n \in Nat, n = Len(script), c.cmd # "EndKeymap"
  PROVE  Here(n + 2)' = IF c.cmd = "DefKeymap" /\ c.scope # "Declare"
                        THEN c.name ELSE Here(n + 1)
<1>0. n + 1 \in Int /\ n + 2 \in Int /\ n + 2 - 1 = n + 1 /\ n + 1 - 1 = n  OBVIOUS
<1>1. \A j \in 1..n : Left(j, n + 2)' <=> Left(j, n + 1)
  <2> TAKE j \in 1..n
  <2>1. Blocks(1, j)' = Blocks(1, j)  BY SameBlocks
  <2>2. Ends(j + 1, n + 1)' = Ends(j + 1, n)
    BY <1>0, Grown DEF Ends, At
  <2>3. \A b \in Blocks(1, j), e \in Ends(j + 1, n) : Closes(b, e)' <=> Closes(b, e)
    <3> TAKE b \in Blocks(1, j), e \in Ends(j + 1, n)
    <3>1. b \in Int /\ e \in Int /\ e <= n + 1  BY Grown DEF Blocks, Ends
    <3> QED  BY <3>1, SameCloses
  <2>4. Left(j, n + 2)' <=> \E b \in Blocks(1, j)', e \in Ends(j + 1, n + 1)' : Closes(b, e)'
    BY <1>0 DEF Left
  <2>5. Left(j, n + 1) <=> \E b \in Blocks(1, j), e \in Ends(j + 1, n) : Closes(b, e)
    BY <1>0 DEF Left
  <2> QED  BY <2>1, <2>2, <2>3, <2>4, <2>5
<1>2. ~Left(n + 1, n + 2)'
  <2>1. Ends(n + 2, n + 1)' = {}  BY DEF Ends
  <2>2. n + 1 + 1 = n + 2  OBVIOUS
  <2>3. Left(n + 1, n + 2)' => \E e \in Ends(n + 2, n + 1)' : TRUE  BY <1>0, <2>2 DEF Left
  <2> QED  BY <2>1, <2>3
<1>3. InEffect(n + 1) \subseteq 1..n  BY <1>0 DEF InEffect
<1> DEFINE new == c.cmd = "DefKeymap" /\ c.scope # "Declare"
<1>4. InEffect(n + 2)' = InEffect(n + 1) \cup (IF new THEN {n + 1} ELSE {})
  <2>1. \A j \in 1..n : j \in InEffect(n + 2)' <=> j \in InEffect(n + 1)
    BY <1>0, <1>1, Grown, GrownAt DEF InEffect
  <2>2. n + 1 \in InEffect(n + 2)' <=> new
    BY <1>0, <1>2, Grown, GrownAt DEF InEffect
  <2>3. InEffect(n + 2)' \subseteq 1..(n + 1)  BY <1>0 DEF InEffect
  <2> QED  BY <1>3, <2>1, <2>2, <2>3
<1>5. CASE new
  <2>1. InEffect(n + 2)' \subseteq 1..(n + 1) /\ n + 1 \in InEffect(n + 2)'
    BY <1>3, <1>4, <1>5
  <2>2. /\ Max(InEffect(n + 2)') \in InEffect(n + 2)'
        /\ \A y \in InEffect(n + 2)' : y <= Max(InEffect(n + 2)')
    <3>1. n + 1 \in Nat  OBVIOUS
    <3> QED  BY <2>1, <3>1, MaxOf
  <2>3. Max(InEffect(n + 2)') = n + 1  BY <2>1, <2>2
  <2> QED  BY <1>5, <2>1, <2>3, HereIsNext, Grown
<1>6. CASE ~new
  <2>1. InEffect(n + 2)' = InEffect(n + 1)  BY <1>4, <1>6
  <2>2. InEffect(n + 1) # {} => Max(InEffect(n + 1)) \in 1..n  BY <1>3, MaxOf
  <2>3. InEffect(n + 1) # {} => script'[Max(InEffect(n + 1))] = script[Max(InEffect(n + 1))]
    BY <2>2, Grown
  <2> QED  BY <1>6, <2>1, <2>3, HereIs, HereIsNext
<1> QED  BY <1>5, <1>6

\* The end of a block that encloses another one lies behind the end of that one:
\* while the block at p is unclosed, none around it is closed.
LEMMA ClosedInside ==
  ASSUME script \in Seq(Commands), NEW b \in Int, NEW p \in Int, NEW e \in Int,
         b < p, p < e, p \in Blocks(p, p), Unclosed(p, e - 1)
  PROVE  ~Closes(b, e)
<1> SUFFICES ASSUME Closes(b, e) PROVE FALSE  OBVIOUS
<1>0. /\ b + 1 \in Int /\ p - 1 \in Int /\ p + 1 \in Int /\ e - 1 \in Int
      /\ p - 1 + 1 = p
  OBVIOUS
<1>1. Unclosed(b, e - 1) /\ Ended(b + 1, e - 1) = Opened(b + 1, e - 1)  BY ClosesIs
<1>2. Ended(b + 1, p - 1) <= Opened(b + 1, p - 1)
  <2>1. CASE p - 1 = b
    <3>1. p - 1 < b + 1  BY <2>1
    <3>2. Opened(b + 1, p - 1) = 0 /\ Ended(b + 1, p - 1) = 0  BY <1>0, <3>1, Counts
    <3> QED  BY <3>2
  <2>2. CASE p - 1 # b
    <3>1. p - 1 \in b + 1 .. e - 1  BY <2>2
    <3> QED  BY <1>1, <3>1 DEF Unclosed
  <2> QED  BY <2>1, <2>2
<1>3. Ended(p + 1, e - 1) <= Opened(p + 1, e - 1)
  <2>1. CASE e - 1 = p
    <3>1. e - 1 < p + 1  BY <2>1
    <3>2. Opened(p + 1, e - 1) = 0 /\ Ended(p + 1, e - 1) = 0  BY <1>0, <3>1, Counts
    <3> QED  BY <3>2
  <2>2. CASE e - 1 # p
    <3>1. e - 1 \in p + 1 .. e - 1  BY <2>2
    <3> QED  BY <3>1 DEF Unclosed
  <2> QED  BY <2>1, <2>2
<1>4. Opened(p, p) = 1 /\ Ended(p, p) = 0
  <2>1. Blocks(p, p) = {p} /\ Ends(p, p) = {}  BY DEF Blocks, Ends, At
  <2>2. Cardinality({p}) = 1 /\ Cardinality({}) = 0  BY FS_Singleton, FS_EmptySet
  <2> QED  BY <2>1, <2>2 DEF Opened, Ended
<1>5. /\ Opened(b + 1, e - 1) = Opened(b + 1, p - 1) + Opened(p, e - 1)
      /\ Ended(b + 1, e - 1) = Ended(b + 1, p - 1) + Ended(p, e - 1)
  <2>1. b + 1 <= p - 1 + 1 /\ p - 1 <= e - 1  OBVIOUS
  <2> QED  BY <1>0, <2>1, Split
<1>6. /\ Opened(p, e - 1) = Opened(p, p) + Opened(p + 1, e - 1)
      /\ Ended(p, e - 1) = Ended(p, p) + Ended(p + 1, e - 1)
  <2>1. p <= p + 1 /\ p <= e - 1  OBVIOUS
  <2> QED  BY <1>0, <2>1, Split
<1>7. /\ Opened(b + 1, p - 1) \in Nat /\ Ended(b + 1, p - 1) \in Nat
      /\ Opened(p + 1, e - 1) \in Nat /\ Ended(p + 1, e - 1) \in Nat
  BY <1>0, Counts
<1> QED  BY <1>1, <1>2, <1>3, <1>4, <1>5, <1>6, <1>7

\* The statement InEffect is about is the last one, before and after a command.
LEMMA HereSame ==
  ASSUME NEW c, Grows(c), NEW i \in Nat, NEW k \in Nat, i <= Len(script) + 1,
         InEffect(k)' = InEffect(i)
  PROVE  Here(k)' = Here(i)
<1>1. InEffect(i) \subseteq 1..Len(script)  BY GrownAt DEF InEffect
<1>2. InEffect(i) # {} => Max(InEffect(i)) \in 1..Len(script)  BY <1>1, MaxOf, Grown
<1>3. InEffect(i) # {} => script'[Max(InEffect(i))] = script[Max(InEffect(i))]  BY <1>2, Grown
<1> QED  BY <1>3, HereIs, HereIsNext

\* The end of a block takes the script back to where the block was opened, ...
LEMMA HereEnd ==
  ASSUME NEW c, Grows(c), NEW n \in Nat, n = Len(script), c.cmd = "EndKeymap",
         NEW p \in Blocks(1, n), Unclosed(p, n), Ended(p + 1, n) = Opened(p + 1, n)
  PROVE  Here(n + 2)' = Here(p)
<1>0. /\ n + 1 \in Int /\ n + 2 \in Int /\ n + 2 - 1 = n + 1 /\ n + 1 - 1 = n
      /\ p \in 1..n /\ p - 1 \in Int
  BY DEF Blocks
<1>1. Closes(p, n + 1)'
  <2>1. Closes(p, n + 1)  BY <1>0, ClosesIs
  <2> QED  BY <1>0, <2>1, SameCloses
<1>2. n + 1 \in At("EndKeymap")'  BY GrownAt
<1>3. \A j \in p..n : Left(j, n + 2)'
  <2> TAKE j \in p..n
  <2>1. p \in Blocks(1, j)'
    <3>1. p \in Blocks(1, j)  BY <1>0 DEF Blocks
    <3>2. Blocks(1, j)' = Blocks(1, j)  BY <1>0, SameBlocks
    <3> QED  BY <3>1, <3>2
  <2>2. n + 1 \in Ends(j + 1, n + 1)'  BY <1>0, <1>2 DEF Ends
  <2> QED  BY <1>0, <1>1, <2>1, <2>2 DEF Left
<1>4. \A j \in 1..(p - 1) : Left(j, n + 2)' <=> Left(j, p)
  <2> TAKE j \in 1..(p - 1)
  <2>1. Blocks(1, j)' = Blocks(1, j)  BY <1>0, SameBlocks
  <2>2. Ends(j + 1, p - 1) \subseteq Ends(j + 1, n + 1)'  BY <1>0, Grown DEF Ends, At
  <2>3. \A b \in Blocks(1, j), e \in Ends(j + 1, n + 1)' :
          Closes(b, e)' => Closes(b, e) /\ e \in Ends(j + 1, p - 1)
    <3> SUFFICES ASSUME NEW b \in Blocks(1, j), NEW e \in Ends(j + 1, n + 1)', Closes(b, e)'
                 PROVE  Closes(b, e) /\ e \in Ends(j + 1, p - 1)
      OBVIOUS
    <3>1. b \in Int /\ e \in Int /\ b < p /\ b <= j /\ j < e /\ e <= n + 1
      BY <1>0 DEF Blocks, Ends
    <3>2. Closes(b, e)  BY <3>1, SameCloses
    <3>3. e <= p
      <4> SUFFICES ASSUME p < e PROVE FALSE  BY <1>0, <3>1
      <4>1. p \in Blocks(p, p)  BY <1>0 DEF Blocks
      <4>2. Unclosed(p, e - 1)  BY <1>0, <3>1 DEF Unclosed
      <4>3. p \in Int /\ script \in Seq(Commands)  BY <1>0 DEF Grows
      <4> QED  BY <3>1, <3>2, <4>1, <4>2, <4>3, ClosedInside
    <3>4. e # p
      BY <1>0, <3>1, Grown DEF Ends, Blocks, At
    <3>5. e \in j + 1 .. p - 1 /\ e <= n  BY <1>0, <3>1, <3>3, <3>4
    <3>6. e \in At("EndKeymap")  BY <1>0, <3>1, <3>5, Grown DEF Ends, At
    <3> QED  BY <3>2, <3>5, <3>6 DEF Ends
  <2>4. \A b \in Blocks(1, j), e \in Ends(j + 1, p - 1) : Closes(b, e) => Closes(b, e)'
    <3> TAKE b \in Blocks(1, j), e \in Ends(j + 1, p - 1)
    <3>1. b \in Int /\ e \in Int /\ e <= n + 1  BY <1>0 DEF Blocks, Ends
    <3> QED  BY <3>1, SameCloses
  <2>5. Left(j, n + 2)' <=> \E b \in Blocks(1, j)', e \in Ends(j + 1, n + 1)' : Closes(b, e)'
    BY <1>0 DEF Left
  <2>6. Left(j, p) <=> \E b \in Blocks(1, j), e \in Ends(j + 1, p - 1) : Closes(b, e)
    BY DEF Left
  <2> QED  BY <2>1, <2>2, <2>3, <2>4, <2>5, <2>6
<1>5. InEffect(n + 2)' = InEffect(p)
  <2>1. \A j \in 1..(p - 1) : j \in InEffect(n + 2)' <=> j \in InEffect(p)
    BY <1>0, <1>4, Grown, GrownAt DEF InEffect
  <2>2. \A j \in p..n : j \notin InEffect(n + 2)'  BY <1>3 DEF InEffect
  <2>3. n + 1 \notin InEffect(n + 2)'  BY <1>0, GrownAt DEF InEffect
  <2>4. \A j \in InEffect(n + 2)' : j \in 1..(n + 1)  BY <1>0 DEF InEffect
  <2>5. \A j \in InEffect(p) : j \in 1..(p - 1)  BY DEF InEffect
  <2>6. \A j \in 1..(n + 1) : j \in 1..(p - 1) \/ j \in p..n \/ j = n + 1  BY <1>0
  <2>7. \A j : j \in InEffect(n + 2)' <=> j \in InEffect(p)
    BY <2>1, <2>2, <2>3, <2>4, <2>5, <2>6
  <2> QED  BY <2>7
<1>6. p \in Nat /\ n + 2 \in Nat /\ p <= Len(script) + 1  BY <1>0
<1> QED  BY <1>5, <1>6, HereSame

\* ... and one too many changes nothing.
LEMMA HereStray ==
  ASSUME NEW c, Grows(c), NEW n \in Nat, n = Len(script), c.cmd = "EndKeymap",
         \A b \in Blocks(1, n) : ~Unclosed(b, n)
  PROVE  Here(n + 2)' = Here(n + 1)
<1>0. n + 1 \in Int /\ n + 2 \in Int /\ n + 2 - 1 = n + 1 /\ n + 1 - 1 = n  OBVIOUS
<1>1. \A j \in 1..n : Left(j, n + 2)' <=> Left(j, n + 1)
  <2> TAKE j \in 1..n
  <2>1. Blocks(1, j)' = Blocks(1, j)  BY SameBlocks
  <2>2. Ends(j + 1, n + 1)' = Ends(j + 1, n) \cup {n + 1}
    BY <1>0, Grown DEF Ends, At
  <2>3. \A b \in Blocks(1, j), e \in Ends(j + 1, n + 1)' : Closes(b, e)' <=> Closes(b, e)
    <3> TAKE b \in Blocks(1, j), e \in Ends(j + 1, n + 1)'
    <3>1. b \in Int /\ e \in Int /\ e <= n + 1  BY DEF Blocks, Ends
    <3> QED  BY <3>1, SameCloses
  <2>4. \A b \in Blocks(1, j) : ~Closes(b, n + 1)
    <3> TAKE b \in Blocks(1, j)
    <3>1. b \in Blocks(1, n)  BY DEF Blocks
    <3> QED  BY <1>0, <3>1, ClosesIs
  <2>5. Left(j, n + 2)' <=> \E b \in Blocks(1, j)', e \in Ends(j + 1, n + 1)' : Closes(b, e)'
    BY <1>0 DEF Left
  <2>6. Left(j, n + 1) <=> \E b \in Blocks(1, j), e \in Ends(j + 1, n) : Closes(b, e)
    BY <1>0 DEF Left
  <2> QED  BY <2>1, <2>2, <2>3, <2>4, <2>5, <2>6
<1>2. InEffect(n + 2)' = InEffect(n + 1)
  <2>1. \A j \in 1..n : j \in InEffect(n + 2)' <=> j \in InEffect(n + 1)
    BY <1>0, <1>1, Grown, GrownAt DEF InEffect
  <2>2. n + 1 \notin InEffect(n + 2)'  BY <1>0, GrownAt DEF InEffect
  <2>3. \A j \in InEffect(n + 2)' : j \in 1..(n + 1)  BY <1>0 DEF InEffect
  <2>4. \A j \in InEffect(n + 1) : j \in 1..n  BY <1>0 DEF InEffect
  <2>5. \A j \in 1..(n + 1) : j \in 1..n \/ j = n + 1  OBVIOUS
  <2>6. \A j : j \in InEffect(n + 2)' <=> j \in InEffect(n + 1)
    BY <2>1, <2>2, <2>3, <2>4, <2>5
  <2> QED  BY <2>6
<1>3. n + 1 \in Nat /\ n + 2 \in Nat /\ n + 1 <= Len(script) + 1  OBVIOUS
<1> QED  BY <1>2, <1>3, HereSame

-----------------------------------------------------------------------------
(* What names and indexes denote. *)

\* the definitions of the alias x that stand before i
AliasesOf(x, i) ==
  {j \in At("DefAlias") : j < i /\ script[j].name = x /\ Defined(script[j].key, j)}

\* What a name denotes, by the definitions of the alias.
LEMMA DenotesIs ==
  ASSUME NEW x, NEW i
  PROVE  Denotes(x, i) = IF AliasesOf(x, i) # {} THEN script[Min(AliasesOf(x, i))].key
                         ELSE IF Defined(x, i) THEN x ELSE None
BY DEF Denotes, AliasesOf

\* The same after a step.
LEMMA DenotesIsNext ==
  ASSUME NEW x, NEW i
  PROVE  Denotes(x, i)' = IF AliasesOf(x, i)' # {} THEN script'[Min(AliasesOf(x, i)')].key
                          ELSE IF Defined(x, i)' THEN x ELSE None
BY DEF Denotes, AliasesOf

\* A key is defined from the command after its definition on.
LEMMA DefinedGrows ==
  ASSUME NEW c, Grows(c), NEW n \in Nat, n = Len(script), NEW x
  PROVE  /\ \A i \in 1..(n + 1) : Defined(x, i)' <=> Defined(x, i)
         /\ Defined(x, n + 2)' <=> Defined(x, n + 1) \/ (c.cmd = "DefKey" /\ c.name = x)
<1>1. \A j \in 1..n : (j \in At("DefKey")' <=> j \in At("DefKey")) /\ script'[j] = script[j]
  BY Grown, GrownAt
<1>2. /\ \A j \in At("DefKey") : j \in 1..n
      /\ \A j \in At("DefKey")' : j \in 1..n \/ (j = n + 1 /\ c.cmd = "DefKey")
      /\ c.cmd = "DefKey" => n + 1 \in At("DefKey")'
      /\ script'[n + 1] = c
  BY Grown, GrownAt
<1>3. ASSUME NEW i \in 1..(n + 1) PROVE Defined(x, i)' <=> Defined(x, i)
  <2>1. \A j \in At("DefKey")' : j < i => j \in 1..n  BY <1>2
  <2> QED  BY <1>1, <1>2, <2>1 DEF Defined
<1>4. Defined(x, n + 2)' <=> Defined(x, n + 1) \/ (c.cmd = "DefKey" /\ c.name = x)
  <2>1. \A j \in 1..n : j < n + 1 /\ j < n + 2  OBVIOUS
  <2>2. n + 1 < n + 2  OBVIOUS
  <2> QED  BY <1>1, <1>2, <2>1, <2>2 DEF Defined
<1> QED  BY <1>3, <1>4

\* So is an alias, if the key was defined.
LEMMA AliasesGrow ==
  ASSUME NEW c, Grows(c), NEW n \in Nat, n = Len(script), NEW x
  PROVE  /\ \A i \in 1..(n + 1) : AliasesOf(x, i)' = AliasesOf(x, i)
         /\ AliasesOf(x, n + 2)' = AliasesOf(x, n + 1) \cup
              (IF c.cmd = "DefAlias" /\ c.name = x /\ Defined(c.key, n + 1) THEN {n + 1} ELSE {})
         /\ AliasesOf(x, n + 1) \subseteq 1..n
<1>1. \A j \in 1..n : /\ j \in At("DefAlias")' <=> j \in At("DefAlias")
                      /\ script'[j] = script[j]
                      /\ Defined(script[j].key, j)' <=> Defined(script[j].key, j)
  <2> TAKE j \in 1..n
  <2>1. script'[j] = script[j]  BY Grown
  <2>2. j \in 1..(n + 1)  OBVIOUS
  <2>3. \A y : Defined(y, j)' <=> Defined(y, j)  BY <2>2, DefinedGrows
  <2>4. Defined(script[j].key, j)' <=> Defined(script[j].key, j)
    BY <2>1, <2>3 DEF Defined
  <2> QED  BY <2>1, <2>4, GrownAt
<1>2. /\ \A j \in At("DefAlias") : j \in 1..n
      /\ \A j \in At("DefAlias")' : j \in 1..n \/ (j = n + 1 /\ c.cmd = "DefAlias")
      /\ c.cmd = "DefAlias" => n + 1 \in At("DefAlias")'
      /\ script'[n + 1] = c
  BY Grown, GrownAt
<1>3. ASSUME NEW i \in 1..(n + 1) PROVE AliasesOf(x, i)' = AliasesOf(x, i)
  <2>1. \A j \in At("DefAlias")' : j < i => j \in 1..n  BY <1>2
  <2> QED  BY <1>1, <1>2, <2>1 DEF AliasesOf
<1>4. Defined(script[n + 1].key, n + 1)' <=> Defined(c.key, n + 1)
  <2>1. \A y : Defined(y, n + 1)' <=> Defined(y, n + 1)  BY DefinedGrows
  <2> QED  BY <1>2, <2>1 DEF Defined
<1>5. \A j : j \in AliasesOf(x, n + 2)' <=>
        \/ j \in AliasesOf(x, n + 1)
        \/ j = n + 1 /\ c.cmd = "DefAlias" /\ c.name = x /\ Defined(c.key, n + 1)
  <2>1. \A j \in 1..n : j < n + 1 /\ j < n + 2  OBVIOUS
  <2>2. n + 1 < n + 2 /\ n + 1 \notin 1..n  OBVIOUS
  <2> QED  BY <1>1, <1>2, <1>4, <2>1, <2>2 DEF AliasesOf
<1>6. AliasesOf(x, n + 1) \subseteq 1..n  BY <1>2 DEF AliasesOf
<1> QED  BY <1>3, <1>5, <1>6

\* What a name denoted where a command stands it denotes there for good.
LEMMA SameDenotes ==
  ASSUME NEW c, Grows(c), NEW i \in 1..(Len(script) + 1), NEW x
  PROVE  Denotes(x, i)' = Denotes(x, i) /\ Target(x, i)' = Target(x, i)
<1> DEFINE A == AliasesOf(x, i)
<1>0. Len(script) \in Nat  BY Grown
<1>1. AliasesOf(x, i)' = A /\ (Defined(x, i)' <=> Defined(x, i))
  BY <1>0, AliasesGrow, DefinedGrows
<1>2. A \subseteq 1..Len(script)  BY GrownAt DEF AliasesOf
<1>3. A # {} => Min(A) \in 1..Len(script)
  <2>1. A \in SUBSET Nat  BY <1>0, <1>2
  <2> QED  BY <1>2, <2>1, MinOf
<1>4. A # {} => script'[Min(A)] = script[Min(A)]  BY <1>3, Grown
<1>5. Denotes(x, i)' = Denotes(x, i)  BY <1>1, <1>4, DenotesIs, DenotesIsNext
<1> QED  BY <1>5 DEF Target

\* The builder's symbols are those of the script.
Symbols ==
  /\ \A x : x \in keys <=> Defined(x, AtEnd)
  /\ \A x : x \in DOMAIN aliases <=> AliasesOf(x, AtEnd) # {}
  /\ \A x \in DOMAIN aliases : aliases[x] = script[Min(AliasesOf(x, AtEnd))].key

\* The builder finds the key that the script says.
LEMMA SearchKeyIs ==
  ASSUME Symbols, NEW x
  PROVE  SearchKey(x) = Denotes(x, AtEnd) /\ Assignable(x) = Target(x, AtEnd)
BY DenotesIs DEF Symbols, SearchKey, Assignable, Target

\* Its symbols follow the script: a new key, or an alias that is new.
LEMMA SymbolsKept ==
  ASSUME NEW c, Grows(c), Symbols,
         keys' = keys \cup (IF c.cmd = "DefKey" THEN {c.name} ELSE {}),
         aliases' = IF c.cmd = "DefAlias" /\ c.key \in keys /\ c.name \notin DOMAIN aliases
                    THEN [x \in DOMAIN aliases \cup {c.name} |->
                            IF x = c.name THEN c.key ELSE aliases[x]]
                    ELSE aliases
  PROVE  Symbols'
<1>0. PICK n \in Nat : n = Len(script)  BY Grown
<1>1. AtEnd = n + 1 /\ AtEnd' = n + 2  BY <1>0, Grown
<1>2. ASSUME NEW x PROVE x \in keys' <=> Defined(x, n + 2)'
  <2>1. x \in keys <=> Defined(x, n + 1)  BY <1>1 DEF Symbols
  <2>2. Defined(x, n + 2)' <=> Defined(x, n + 1) \/ (c.cmd = "DefKey" /\ c.name = x)
    BY <1>0, DefinedGrows
  <2> QED  BY <2>1, <2>2
<1> DEFINE A(x) == AliasesOf(x, n + 1)
           N(x) == c.cmd = "DefAlias" /\ c.name = x /\ Defined(c.key, n + 1)
<1>3. \A x : /\ AliasesOf(x, n + 2)' = A(x) \cup (IF N(x) THEN {n + 1} ELSE {})
             /\ A(x) \subseteq 1..n
  BY <1>0, AliasesGrow
<1>4. /\ \A x : x \in DOMAIN aliases <=> A(x) # {}
      /\ \A x \in DOMAIN aliases : aliases[x] = script[Min(A(x))].key
      /\ c.key \in keys <=> Defined(c.key, n + 1)
  BY <1>1 DEF Symbols
<1>5. ASSUME NEW x
      PROVE  /\ x \in DOMAIN aliases' <=> AliasesOf(x, n + 2)' # {}
             /\ x \in DOMAIN aliases' => aliases'[x] = script'[Min(AliasesOf(x, n + 2)')].key
  <2> DEFINE B == AliasesOf(x, n + 2)'
  <2>1. CASE A(x) # {}
    <3>1. x \in DOMAIN aliases /\ aliases[x] = script[Min(A(x))].key  BY <1>4, <2>1
    <3>2. x \in DOMAIN aliases' /\ aliases'[x] = aliases[x]  BY <3>1
    <3>3. B # {} /\ B \subseteq 1..(n + 1)  BY <1>3, <2>1
    <3>4. /\ Min(A(x)) \in A(x) /\ \A y \in A(x) : Min(A(x)) <= y
      <4>1. A(x) \in SUBSET Nat  BY <1>3
      <4> QED  BY <2>1, <4>1, MinOf
    <3>5. /\ Min(B) \in B /\ \A y \in B : Min(B) <= y
      <4>1. B \in SUBSET Nat  BY <3>3
      <4> QED  BY <3>3, <4>1, MinOf
    <3>6. Min(A(x)) \in 1..n /\ Min(A(x)) \in B  BY <1>3, <3>4
    <3>7. Min(B) <= Min(A(x)) /\ Min(B) \in 1..(n + 1)  BY <3>3, <3>5, <3>6
    <3>8. Min(B) # n + 1  BY <3>6, <3>7
    <3>9. Min(B) \in A(x)  BY <1>3, <3>5, <3>8
    <3>10. Min(B) = Min(A(x))  BY <3>4, <3>6, <3>7, <3>9
    <3>11. script'[Min(B)] = script[Min(A(x))]  BY <1>0, <3>6, <3>10, Grown
    <3> QED  BY <3>1, <3>2, <3>3, <3>11
  <2>2. CASE A(x) = {} /\ N(x)
    <3>1. B = {n + 1}  BY <1>3, <2>2
    <3>2. Min(B) = n + 1
      <4>1. {n + 1} \in SUBSET Nat /\ {n + 1} # {}  OBVIOUS
      <4> QED  BY <3>1, <4>1, MinOf
    <3>3. script'[n + 1] = c  BY <1>0, Grown
    <3>4. x \notin DOMAIN aliases  BY <1>4, <2>2
    <3>5. aliases' = [z \in DOMAIN aliases \cup {x} |-> IF z = x THEN c.key ELSE aliases[z]]
      BY <1>4, <2>2, <3>4
    <3>6. x \in DOMAIN aliases' /\ aliases'[x] = c.key  BY <3>4, <3>5
    <3> QED  BY <3>1, <3>2, <3>3, <3>6
  <2>3. CASE A(x) = {} /\ ~N(x)
    <3>1. B = {}  BY <1>3, <2>3
    <3>2. x \notin DOMAIN aliases  BY <1>4, <2>3
    <3>3. DOMAIN aliases' = DOMAIN aliases \cup
            (IF c.cmd = "DefAlias" /\ c.key \in keys THEN {c.name} ELSE {})
      OBVIOUS
    <3>4. x \notin DOMAIN aliases'  BY <1>4, <2>3, <3>2, <3>3
    <3> QED  BY <3>1, <3>4
  <2> QED  BY <2>1, <2>2, <2>3
<1> QED  BY <1>1, <1>2, <1>5 DEF Symbols

\* What the provers have to be told about any sequence: its domain, ...
LEMMA SeqFacts ==
  ASSUME NEW S, NEW s \in Seq(S)
  PROVE  IsList(s) /\ Len(s) \in Nat /\ DOMAIN s = 1..Len(s)
<1>1. Len(s) \in Nat /\ DOMAIN s = 1..Len(s) /\ s = [i \in 1..Len(s) |-> s[i]]  OBVIOUS
<1>2. \A i \in 1..Len(s) : s[i] \in ToSet(s)  BY <1>1 DEF ToSet
<1>3. s \in [1..Len(s) -> ToSet(s)]  BY <1>1, <1>2
<1>4. s \in Seq(ToSet(s))  BY <1>1, <1>3, SeqDef
<1> QED  BY <1>1, <1>4 DEF IsList

\* ... what Append() does to it, ...
LEMMA AppendedTo ==
  ASSUME NEW s, IsList(s), NEW x
  PROVE  /\ IsList(Append(s, x)) /\ Len(s) \in Nat /\ DOMAIN s = 1..Len(s)
         /\ DOMAIN Append(s, x) = 1..(Len(s) + 1) /\ Len(Append(s, x)) = Len(s) + 1
         /\ \A i \in 1..Len(s) : Append(s, x)[i] = s[i]
         /\ Append(s, x)[Len(s) + 1] = x
<1> DEFINE S == ToSet(s) \cup {x}
<1>1. s \in Seq(S) /\ x \in S
  <2>1. s \in Seq(ToSet(s)) /\ ToSet(s) \subseteq S  BY DEF IsList
  <2> HIDE DEF S
  <2>2. s \in Seq(S)  BY <2>1, SeqMonotonic
  <2> QED  BY <2>2 DEF S
<1> HIDE DEF S
<1>2. /\ Append(s, x) \in Seq(S) /\ Len(Append(s, x)) = Len(s) + 1
      /\ \A i \in 1..Len(s) : Append(s, x)[i] = s[i]
      /\ Append(s, x)[Len(s) + 1] = x
  BY <1>1, AppendProperties
<1>3. IsList(Append(s, x)) /\ DOMAIN Append(s, x) = 1..Len(Append(s, x))  BY <1>2, SeqFacts
<1>4. Len(s) \in Nat /\ DOMAIN s = 1..Len(s)  BY <1>1, SeqFacts
<1> QED  BY <1>2, <1>3, <1>4

\* ... and what Front() does.
LEMMA FrontOf ==
  ASSUME NEW s, IsList(s), s # <<>>
  PROVE  /\ IsList(Front(s)) /\ Len(s) \in Nat /\ Len(s) > 0 /\ DOMAIN s = 1..Len(s)
         /\ Len(Front(s)) = Len(s) - 1 /\ Last(s) = s[Len(s)]
         /\ \A i \in 1..(Len(s) - 1) : Front(s)[i] = s[i]
<1>1. s \in Seq(ToSet(s))  BY DEF IsList
<1>2. Len(s) \in Nat /\ DOMAIN s = 1..Len(s)  BY <1>1, SeqFacts
<1>3. Len(s) > 0  BY <1>1, <1>2, EmptySeq
<1>4. Front(s) \in Seq(ToSet(s)) /\ Len(Front(s)) = Len(s) - 1
      /\ \A i \in 1..(Len(s) - 1) : Front(s)[i] = s[i]
  BY <1>1, <1>2, <1>3 DEF Front
<1>5. IsList(Front(s))  BY <1>4, SeqFacts
<1> QED  BY <1>2, <1>3, <1>4, <1>5 DEF Last

\* the sequences registered before i
Registered(i) == {j \in At("RegKeySeq") : j < i}

References == IsList(refs) /\ Len(refs) = Cardinality(At("RegKeySeq"))

\* The registrations are finitely many.
LEMMA RegisteredBy ==
  ASSUME script \in Seq(Commands), NEW i \in Int
  PROVE  /\ Cardinality(Registered(i)) \in Nat /\ Cardinality(At("RegKeySeq")) \in Nat
         /\ Cardinality(Registered(i)) <= Cardinality(At("RegKeySeq"))
         /\ IsFiniteSet(At("RegKeySeq"))
<1>1. IsFiniteSet(1..Len(script))  BY FS_Interval
<1>2. At("RegKeySeq") \subseteq 1..Len(script)  BY DEF At
<1>3. IsFiniteSet(At("RegKeySeq"))  BY <1>1, <1>2, FS_Subset
<1>4. Registered(i) \subseteq At("RegKeySeq")  BY DEF Registered
<1> QED  BY <1>3, <1>4, FS_Subset, FS_CardinalityType

\* The builder finds the sequence that the index denotes.
LEMMA KeySeqRefIs ==
  ASSUME script \in Seq(Commands), References, NEW idx
  PROVE  KeySeqRef(idx) = Denoted(idx, AtEnd)
<1>1. Registered(AtEnd) = At("RegKeySeq")  BY DEF Registered, AtEnd, At
<1>2. DOMAIN refs = 1..Cardinality(At("RegKeySeq"))
  BY SeqFacts DEF References, IsList
<1> QED  BY <1>1, <1>2 DEF KeySeqRef, Denoted, Registered

\* An index that denotes a sequence denotes it for good.
LEMMA SameDenoted ==
  ASSUME NEW c, Grows(c), References, NEW i \in 1..(Len(script) + 1), NEW idx,
         \/ refs' = refs
         \/ \E r : refs' = Append(refs, r)
  PROVE  Denoted(idx, i)' = Denoted(idx, i)
<1>1. Registered(i)' = Registered(i)
  BY Grown, GrownAt DEF Registered
<1>2. /\ Cardinality(Registered(i)) \in Nat
      /\ Cardinality(Registered(i)) <= Len(refs)
      /\ Len(refs) \in Nat
  <2>1. script \in Seq(Commands) /\ i \in Int  BY Grown DEF Grows
  <2> QED  BY <2>1, RegisteredBy DEF References
<1>3. \A x \in 1..Len(refs) : refs'[x] = refs[x]
  BY AppendedTo DEF References
<1>4. Denoted(idx, i) = IF idx \in 1 .. Cardinality(Registered(i)) THEN refs[idx] ELSE 0
  BY DEF Denoted, Registered
<1>5. Denoted(idx, i)' = IF idx \in 1 .. Cardinality(Registered(i)') THEN refs'[idx] ELSE 0
  BY DEF Denoted, Registered
<1> QED  BY <1>1, <1>2, <1>3, <1>4, <1>5

\* The table of indexes grows with each registration.
LEMMA ReferencesKept ==
  ASSUME NEW c, Grows(c), References,
         IF c.cmd = "RegKeySeq" THEN \E r : refs' = Append(refs, r) ELSE refs' = refs
  PROVE  References'
<1>1. PICK n \in Nat : n = Len(script)  BY Grown
<1>2. /\ IsFiniteSet(At("RegKeySeq")) /\ Cardinality(At("RegKeySeq")) \in Nat
  <2>1. script \in Seq(Commands) /\ n \in Int  BY DEF Grows
  <2> QED  BY <2>1, RegisteredBy
<1>3. CASE c.cmd = "RegKeySeq"
  <2>1. At("RegKeySeq")' = At("RegKeySeq") \cup {n + 1} /\ n + 1 \notin At("RegKeySeq")
    BY <1>1, <1>3, GrownAt
  <2>2. Cardinality(At("RegKeySeq")') = Cardinality(At("RegKeySeq")) + 1
    BY <1>2, <2>1, FS_AddElement
  <2>3. PICK r : refs' = Append(refs, r)  BY <1>3
  <2>4. IsList(refs') /\ Len(refs') = Len(refs) + 1  BY <2>3, AppendedTo DEF References
  <2> QED  BY <2>2, <2>4 DEF References, IsList
<1>4. CASE c.cmd # "RegKeySeq"
  <2>1. At("RegKeySeq")' = At("RegKeySeq") /\ refs' = refs  BY <1>4, GrownAt
  <2> QED  BY <2>1 DEF References, IsList
<1> QED  BY <1>3, <1>4

-----------------------------------------------------------------------------
(* The current keymap and the ones it displaced. *)

\* P is where the blocks were opened that the stack is of, innermost last.
Nested(P, n) ==
  /\ Len(P) = Len(stack)
  /\ \A k \in 1..Len(P) :
       /\ P[k] \in Blocks(1, n) /\ Unclosed(P[k], n)
       /\ Opened(P[k] + 1, n) = Ended(P[k] + 1, n) + (Len(P) - k)
       /\ stack[k] \in DOMAIN keymaps /\ keymaps[stack[k]].name = Here(P[k])
  /\ \A b \in Blocks(1, n) : Unclosed(b, n) => \E k \in 1..Len(P) : P[k] = b

Places ==
  /\ IsList(stack)
  /\ current \in DOMAIN keymaps /\ keymaps[current].name = Here(AtEnd)
  /\ \E P \in Seq(Nat) : Nested(P, Len(script))

NamesKept ==
  /\ DOMAIN keymaps \subseteq DOMAIN keymaps'
  /\ \A k \in DOMAIN keymaps : keymaps'[k].name = keymaps[k].name

Pushed == stack' = Append(stack, current)
Popped == stack' = IF stack = <<>> THEN stack ELSE Front(stack)

\* What the command does to the number of blocks that are open in the one at b.
LEMMA Inner ==
  ASSUME NEW c, Grows(c), NEW n \in Nat, n = Len(script), NEW b \in Blocks(1, n)
  PROVE  /\ b \in 1..n /\ b \in Blocks(1, n + 1)'
         /\ Opened(b + 1, n) \in Nat /\ Ended(b + 1, n) \in Nat
         /\ Opened(b + 1, n + 1)' = Opened(b + 1, n) + (IF Opens(c) THEN 1 ELSE 0)
         /\ Ended(b + 1, n + 1)' = Ended(b + 1, n) + (IF c.cmd = "EndKeymap" THEN 1 ELSE 0)
         /\ Unclosed(b, n + 1)' <=>
              Unclosed(b, n) /\ Ended(b + 1, n + 1)' <= Opened(b + 1, n + 1)'
         /\ Here(b)' = Here(b)
<1>1. b \in 1..n /\ b \in Int /\ b + 1 \in Int /\ n \in Int /\ b + 1 <= n + 1 /\ b <= n
  BY DEF Blocks
<1>2. b \in Blocks(1, n + 1)'  BY <1>1, Grown DEF Blocks, At
<1>3. script \in Seq(Commands)  BY DEF Grows
<1>4. Opened(b + 1, n) \in Nat /\ Ended(b + 1, n) \in Nat  BY <1>1, <1>3, Counts
<1>5. b \in 1..(Len(script) + 1)  BY <1>1
<1>6. Here(b)' = Here(b)  BY <1>5, SameHere
<1> QED  BY <1>1, <1>2, <1>4, <1>6, CountsGrow, UnclosedGrows

\* the blocks there are after the command
LEMMA BlocksGrow ==
  ASSUME NEW c, Grows(c), NEW n \in Nat, n = Len(script)
  PROVE  Blocks(1, n + 1)' = Blocks(1, n) \cup (IF Opens(c) THEN {n + 1} ELSE {})
BY Grown DEF Blocks, At, Opens

\* A command that neither opens a block nor ends one ...
LEMMA PlacesStay ==
  ASSUME NEW c, Grows(c), Places, NamesKept, stack' = stack, ~Opens(c), c.cmd # "EndKeymap"
  PROVE  \E P \in Seq(Nat) : Nested(P, Len(script))'
<1>1. PICK n \in Nat : n = Len(script)  BY Grown
<1>2. PICK P \in Seq(Nat) : Nested(P, n)  BY <1>1 DEF Places
<1>3. Len(script') = n + 1  BY <1>1, Grown
<1>4. ASSUME NEW k \in 1..Len(P)
      PROVE  /\ P[k] \in Blocks(1, n + 1)' /\ Unclosed(P[k], n + 1)'
             /\ Opened(P[k] + 1, n + 1)' = Ended(P[k] + 1, n + 1)' + (Len(P) - k)
             /\ stack'[k] \in DOMAIN keymaps' /\ keymaps'[stack'[k]].name = Here(P[k])'
  <2>1. /\ P[k] \in Blocks(1, n) /\ Unclosed(P[k], n)
        /\ Opened(P[k] + 1, n) = Ended(P[k] + 1, n) + (Len(P) - k)
        /\ stack[k] \in DOMAIN keymaps /\ keymaps[stack[k]].name = Here(P[k])
    BY <1>2 DEF Nested
  <2>2. PICK b \in Blocks(1, n) : b = P[k]  BY <2>1
  <2>3. Len(P) \in Nat /\ k \in Nat /\ k <= Len(P)  OBVIOUS
  <2>4. /\ b \in Blocks(1, n + 1)' /\ Here(b)' = Here(b)
        /\ Opened(b + 1, n) \in Nat /\ Ended(b + 1, n) \in Nat
        /\ Opened(b + 1, n + 1)' = Opened(b + 1, n)
        /\ Ended(b + 1, n + 1)' = Ended(b + 1, n)
        /\ Unclosed(b, n + 1)' <=>
             Unclosed(b, n) /\ Ended(b + 1, n + 1)' <= Opened(b + 1, n + 1)'
    <3>1. /\ b \in Blocks(1, n + 1)' /\ Here(b)' = Here(b)
          /\ Opened(b + 1, n) \in Nat /\ Ended(b + 1, n) \in Nat
          /\ Opened(b + 1, n + 1)' = Opened(b + 1, n) + (IF Opens(c) THEN 1 ELSE 0)
          /\ Ended(b + 1, n + 1)' = Ended(b + 1, n) + (IF c.cmd = "EndKeymap" THEN 1 ELSE 0)
          /\ Unclosed(b, n + 1)' <=>
               Unclosed(b, n) /\ Ended(b + 1, n + 1)' <= Opened(b + 1, n + 1)'
      BY <1>1, Inner
    <3> QED  BY <3>1
  <2>5. Opened(b + 1, n) = Ended(b + 1, n) + (Len(P) - k)  BY <2>1, <2>2
  <2>6. /\ Opened(b + 1, n + 1)' = Ended(b + 1, n + 1)' + (Len(P) - k)
        /\ Ended(b + 1, n + 1)' <= Opened(b + 1, n + 1)'
    BY <2>3, <2>4, <2>5
  <2>7. Unclosed(b, n + 1)'  BY <2>1, <2>2, <2>4, <2>6
  <2>8. stack'[k] \in DOMAIN keymaps' /\ keymaps'[stack'[k]].name = Here(b)'
    BY <2>1, <2>2, <2>4 DEF NamesKept
  <2> QED  BY <2>2, <2>4, <2>6, <2>7, <2>8
<1>5. \A b \in Blocks(1, n + 1)' : Unclosed(b, n + 1)' => \E k \in 1..Len(P) : P[k] = b
  <2> SUFFICES ASSUME NEW b \in Blocks(1, n + 1)', Unclosed(b, n + 1)'
               PROVE  \E k \in 1..Len(P) : P[k] = b
    OBVIOUS
  <2>1. b \in Blocks(1, n)  BY <1>1, BlocksGrow
  <2>2. Unclosed(b, n)  BY <1>1, <2>1, Inner
  <2> QED  BY <1>2, <2>1, <2>2 DEF Nested
<1>6. Nested(P, Len(script))'
  BY <1>2, <1>3, <1>4, <1>5 DEF Nested
<1> QED  BY <1>6

\* ... one that opens a block ...
LEMMA PlacesOpen ==
  ASSUME NEW c, Grows(c), Places, NamesKept, Pushed, Opens(c)
  PROVE  \E P \in Seq(Nat) : Nested(P, Len(script))'
<1>1. PICK n \in Nat : n = Len(script)  BY Grown
<1>2. PICK P \in Seq(Nat) : Nested(P, n)  BY <1>1 DEF Places
<1>3. Len(script') = n + 1 /\ AtEnd = n + 1  BY <1>1, Grown
<1> DEFINE Q == Append(P, n + 1)
<1>4. /\ Q \in Seq(Nat) /\ Len(Q) = Len(P) + 1 /\ Len(P) \in Nat
      /\ \A k \in 1..Len(P) : Q[k] = P[k]
      /\ Q[Len(P) + 1] = n + 1
  BY AppendProperties
<1>5. /\ Len(stack') = Len(P) + 1 /\ Len(stack) = Len(P)
      /\ \A k \in 1..Len(P) : stack'[k] = stack[k]
      /\ stack'[Len(P) + 1] = current
  BY <1>2, AppendedTo DEF Places, Nested, Pushed
<1> HIDE DEF Q
<1>6. ASSUME NEW k \in 1..Len(Q)
      PROVE  /\ Q[k] \in Blocks(1, n + 1)' /\ Unclosed(Q[k], n + 1)'
             /\ Opened(Q[k] + 1, n + 1)' = Ended(Q[k] + 1, n + 1)' + (Len(Q) - k)
             /\ stack'[k] \in DOMAIN keymaps' /\ keymaps'[stack'[k]].name = Here(Q[k])'
  <2>1. CASE k \in 1..Len(P)
    <3>1. /\ P[k] \in Blocks(1, n) /\ Unclosed(P[k], n)
          /\ Opened(P[k] + 1, n) = Ended(P[k] + 1, n) + (Len(P) - k)
          /\ stack[k] \in DOMAIN keymaps /\ keymaps[stack[k]].name = Here(P[k])
      BY <1>2, <2>1 DEF Nested
    <3>2. PICK b \in Blocks(1, n) : b = P[k]  BY <3>1
    <3>3. c.cmd # "EndKeymap"  BY DEF Opens
    <3>4. Len(P) \in Nat /\ k \in Nat /\ k <= Len(P) /\ Len(Q) = Len(P) + 1  BY <1>4, <2>1
    <3>5. Q[k] = b /\ stack'[k] = stack[k]  BY <1>4, <1>5, <2>1, <3>2
    <3>6. /\ b \in Blocks(1, n + 1)' /\ Here(b)' = Here(b)
          /\ Opened(b + 1, n) \in Nat /\ Ended(b + 1, n) \in Nat
          /\ Opened(b + 1, n + 1)' = Opened(b + 1, n) + 1
          /\ Ended(b + 1, n + 1)' = Ended(b + 1, n)
          /\ Unclosed(b, n + 1)' <=>
               Unclosed(b, n) /\ Ended(b + 1, n + 1)' <= Opened(b + 1, n + 1)'
      BY <1>1, <3>3, Inner
    <3>7. Opened(b + 1, n) = Ended(b + 1, n) + (Len(P) - k)  BY <3>1, <3>2
    <3>8. /\ Opened(b + 1, n + 1)' = Ended(b + 1, n + 1)' + (Len(Q) - k)
          /\ Ended(b + 1, n + 1)' <= Opened(b + 1, n + 1)'
      BY <3>4, <3>6, <3>7
    <3>9. Unclosed(b, n + 1)'  BY <3>1, <3>2, <3>6, <3>8
    <3>10. stack'[k] \in DOMAIN keymaps' /\ keymaps'[stack'[k]].name = Here(b)'
      BY <3>1, <3>2, <3>5, <3>6 DEF NamesKept
    <3> QED  BY <3>5, <3>6, <3>8, <3>9, <3>10
  <2>2. CASE k = Len(P) + 1
    <3>1. Q[k] = n + 1 /\ stack'[k] = current  BY <1>4, <1>5, <2>2
    <3>2. n + 1 \in Blocks(1, n + 1)'  BY <1>1, BlocksGrow
    <3>3. Unclosed(n + 1, n + 1)'  BY DEF Unclosed
    <3>4. Opened(n + 1 + 1, n + 1)' = 0 /\ Ended(n + 1 + 1, n + 1)' = 0
      <4>1. Blocks(n + 1 + 1, n + 1)' = {} /\ Ends(n + 1 + 1, n + 1)' = {}  BY DEF Blocks, Ends
      <4> QED  BY <4>1, FS_EmptySet DEF Opened, Ended
    <3>5. Here(n + 1)' = keymaps[current].name
      <4>1. n + 1 \in 1..(Len(script) + 1)  BY <1>1
      <4> QED  BY <1>3, <4>1, SameHere DEF Places
    <3>6. current \in DOMAIN keymaps  BY DEF Places
    <3> QED  BY <1>4, <2>2, <3>1, <3>2, <3>3, <3>4, <3>5, <3>6 DEF NamesKept
  <2>3. k \in 1..Len(P) \/ k = Len(P) + 1  BY <1>4
  <2> QED  BY <2>1, <2>2, <2>3
<1>7. \A b \in Blocks(1, n + 1)' : Unclosed(b, n + 1)' => \E k \in 1..Len(Q) : Q[k] = b
  <2> SUFFICES ASSUME NEW b \in Blocks(1, n + 1)', Unclosed(b, n + 1)'
               PROVE  \E k \in 1..Len(Q) : Q[k] = b
    OBVIOUS
  <2>1. CASE b \in Blocks(1, n)
    <3>1. Unclosed(b, n)  BY <1>1, <2>1, Inner
    <3>2. PICK k \in 1..Len(P) : P[k] = b  BY <1>2, <2>1, <3>1 DEF Nested
    <3>3. k \in 1..Len(Q) /\ Q[k] = b  BY <1>4, <3>2
    <3> QED  BY <3>3
  <2>2. CASE b = n + 1
    <3>1. Len(Q) \in 1..Len(Q) /\ Q[Len(Q)] = b  BY <1>4, <2>2
    <3> QED  BY <3>1
  <2> QED  BY <1>1, <2>1, <2>2, BlocksGrow
<1>8. Nested(Q, Len(script))'
  BY <1>3, <1>4, <1>5, <1>6, <1>7 DEF Nested
<1> QED  BY <1>4, <1>8

\* ... and one that ends the innermost block.
LEMMA PlacesEnd ==
  ASSUME NEW c, Grows(c), Places, keymaps' = keymaps, c.cmd = "EndKeymap", Popped
  PROVE  /\ \E P \in Seq(Nat) : Nested(P, Len(script))'
         /\ stack # <<>> =>
              /\ Last(stack) \in DOMAIN keymaps
              /\ Here(AtEnd)' = keymaps[Last(stack)].name
         /\ stack = <<>> => Here(AtEnd)' = Here(AtEnd)
<1>1. PICK n \in Nat : n = Len(script)  BY Grown
<1>2. PICK P \in Seq(Nat) : Nested(P, n)  BY <1>1 DEF Places
<1>3. Len(script') = n + 1 /\ AtEnd = n + 1 /\ AtEnd' = n + 2  BY <1>1, Grown
<1>4. ~Opens(c)  BY DEF Opens
<1>5. Len(P) \in Nat /\ Len(P) = Len(stack) /\ DOMAIN P = 1..Len(P)  BY <1>2 DEF Nested
<1>6. ASSUME NEW k \in 1..Len(P)
      PROVE  /\ P[k] \in Blocks(1, n) /\ P[k] \in Blocks(1, n + 1)' /\ Unclosed(P[k], n)
             /\ Opened(P[k] + 1, n) = Ended(P[k] + 1, n) + (Len(P) - k)
             /\ Opened(P[k] + 1, n + 1)' = Ended(P[k] + 1, n + 1)' + (Len(P) - 1 - k)
             /\ Ended(P[k] + 1, n + 1)' \in Nat
             /\ Unclosed(P[k], n + 1)' <=> k # Len(P)
             /\ stack[k] \in DOMAIN keymaps /\ keymaps[stack[k]].name = Here(P[k])
             /\ Here(P[k])' = Here(P[k])
  <2>1. /\ P[k] \in Blocks(1, n) /\ Unclosed(P[k], n)
        /\ Opened(P[k] + 1, n) = Ended(P[k] + 1, n) + (Len(P) - k)
        /\ stack[k] \in DOMAIN keymaps /\ keymaps[stack[k]].name = Here(P[k])
    BY <1>2 DEF Nested
  <2>2. PICK b \in Blocks(1, n) : b = P[k]  BY <2>1
  <2>3. Len(P) \in Nat /\ k \in Nat /\ k <= Len(P)  BY <1>5
  <2>4. /\ b \in Blocks(1, n + 1)' /\ Here(b)' = Here(b)
        /\ Opened(b + 1, n) \in Nat /\ Ended(b + 1, n) \in Nat
        /\ Opened(b + 1, n + 1)' = Opened(b + 1, n)
        /\ Ended(b + 1, n + 1)' = Ended(b + 1, n) + 1
        /\ Unclosed(b, n + 1)' <=>
             Unclosed(b, n) /\ Ended(b + 1, n + 1)' <= Opened(b + 1, n + 1)'
    <3>1. /\ b \in Blocks(1, n + 1)' /\ Here(b)' = Here(b)
          /\ Opened(b + 1, n) \in Nat /\ Ended(b + 1, n) \in Nat
          /\ Opened(b + 1, n + 1)' = Opened(b + 1, n) + (IF Opens(c) THEN 1 ELSE 0)
          /\ Ended(b + 1, n + 1)' = Ended(b + 1, n) + (IF c.cmd = "EndKeymap" THEN 1 ELSE 0)
          /\ Unclosed(b, n + 1)' <=>
               Unclosed(b, n) /\ Ended(b + 1, n + 1)' <= Opened(b + 1, n + 1)'
      BY <1>1, Inner
    <3> QED  BY <1>4, <3>1
  <2>a. Opened(b + 1, n) = Ended(b + 1, n) + (Len(P) - k)  BY <2>1, <2>2
  <2>5. /\ Opened(b + 1, n + 1)' = Ended(b + 1, n + 1)' + (Len(P) - 1 - k)
        /\ Ended(b + 1, n + 1)' \in Nat
    BY <2>3, <2>4, <2>a
  <2>b. Ended(b + 1, n + 1)' <= Opened(b + 1, n + 1)' <=> k # Len(P)  BY <2>3, <2>5
  <2>6. Unclosed(b, n + 1)' <=> k # Len(P)  BY <2>1, <2>2, <2>4, <2>b
  <2> QED  BY <2>1, <2>2, <2>4, <2>5, <2>6
<1>7. ASSUME NEW b \in Blocks(1, n + 1)', Unclosed(b, n + 1)'
      PROVE  \E k \in 1..Len(P) : k # Len(P) /\ P[k] = b
  <2>1. b \in Blocks(1, n)  BY <1>1, <1>4, BlocksGrow
  <2>2. Unclosed(b, n)  BY <1>1, <1>7, <2>1, Inner
  <2>3. PICK k \in 1..Len(P) : P[k] = b  BY <1>2, <2>1, <2>2 DEF Nested
  <2>4. k # Len(P)  BY <1>6, <1>7, <2>3
  <2> QED  BY <2>3, <2>4
<1>8. CASE stack = <<>>
  <2>1. Len(P) = 0  BY <1>5, <1>8
  <2>2. Nested(P, Len(script))'
    BY <1>3, <1>5, <1>7, <1>8, <2>1 DEF Nested, Popped
  <2>3. \A b \in Blocks(1, n) : ~Unclosed(b, n)  BY <1>2, <2>1 DEF Nested
  <2>4. Here(n + 2)' = Here(n + 1)  BY <1>1, <2>3, HereStray
  <2> QED  BY <1>3, <1>8, <2>2, <2>4
<1>9. CASE stack # <<>>
  <2> DEFINE Q == Front(P)
  <2>1. /\ IsList(stack') /\ Len(stack) \in Nat /\ Len(stack) > 0
        /\ Len(stack') = Len(stack) - 1 /\ Last(stack) = stack[Len(stack)]
        /\ \A i \in 1..(Len(stack) - 1) : stack'[i] = stack[i]
    BY <1>9, FrontOf DEF Places, Popped
  <2>2. Q \in Seq(Nat) /\ Len(Q) = Len(P) - 1 /\ \A i \in 1..(Len(P) - 1) : Q[i] = P[i]
    BY <1>5, <2>1 DEF Front
  <2>c. Len(P) \in Nat /\ Len(Q) \in Nat /\ Len(Q) = Len(P) - 1  BY <1>5, <2>2
  <2> HIDE DEF Q
  <2>d. \A k \in 1..Len(Q) : k \in 1..Len(P) /\ k # Len(P) /\ k \in 1..(Len(P) - 1)
    BY <2>c
  <2>e. \A k \in 1..Len(P) : k # Len(P) => k \in 1..Len(Q) /\ k \in 1..(Len(P) - 1)
    BY <2>c
  <2>3. ASSUME NEW k \in 1..Len(Q)
        PROVE  /\ Q[k] \in Blocks(1, n + 1)' /\ Unclosed(Q[k], n + 1)'
               /\ Opened(Q[k] + 1, n + 1)' = Ended(Q[k] + 1, n + 1)' + (Len(Q) - k)
               /\ stack'[k] \in DOMAIN keymaps' /\ keymaps'[stack'[k]].name = Here(Q[k])'
    <3>1. k \in 1..Len(P) /\ k # Len(P) /\ Q[k] = P[k] /\ stack'[k] = stack[k]
      BY <1>5, <2>1, <2>2, <2>d
    <3> QED  BY <1>6, <2>2, <3>1
  <2>4. \A b \in Blocks(1, n + 1)' : Unclosed(b, n + 1)' => \E k \in 1..Len(Q) : Q[k] = b
    <3> SUFFICES ASSUME NEW b \in Blocks(1, n + 1)', Unclosed(b, n + 1)'
                 PROVE  \E k \in 1..Len(Q) : Q[k] = b
      OBVIOUS
    <3>1. PICK k \in 1..Len(P) : k # Len(P) /\ P[k] = b  BY <1>7
    <3>2. k \in 1..Len(Q) /\ Q[k] = b  BY <2>2, <2>e, <3>1
    <3> QED  BY <3>2
  <2>5. Len(Q) = Len(stack')  BY <1>5, <2>1, <2>2
  <2>6. Nested(Q, Len(script))'  BY <1>3, <2>3, <2>4, <2>5 DEF Nested
  <2> DEFINE d == Len(P)
  <2>7. d \in 1..Len(P)  BY <1>5, <2>1
  <2>8. /\ P[d] \in Blocks(1, n) /\ Unclosed(P[d], n)
        /\ Opened(P[d] + 1, n) = Ended(P[d] + 1, n) + (Len(P) - d)
        /\ stack[d] \in DOMAIN keymaps /\ keymaps[stack[d]].name = Here(P[d])
    BY <1>6, <2>7
  <2>9. PICK p \in Blocks(1, n) : p = P[d]  BY <2>8
  <2>10. Ended(p + 1, n) = Opened(p + 1, n)
    <3>1. p \in 1..n  BY DEF Blocks
    <3>2. p + 1 \in Int /\ n \in Int /\ script \in Seq(Commands)  BY <3>1 DEF Grows
    <3>3. Ended(p + 1, n) \in Nat  BY <3>2, Counts
    <3> QED  BY <1>5, <2>8, <2>9, <3>3
  <2>11. Here(n + 2)' = Here(p)  BY <1>1, <2>8, <2>9, <2>10, HereEnd
  <2> QED  BY <1>3, <1>5, <1>9, <2>1, <2>2, <2>6, <2>8, <2>9, <2>11
<1> QED  BY <1>8, <1>9

-----------------------------------------------------------------------------
(* The table of the keymaps. *)

IsKeymap(k) ==
  k = [name |-> k.name, def |-> k.def, parent |-> k.parent, assigned |-> k.assigned,
       mods |-> k.mods]

\* No two keymaps have the same name.
IsTable(kms) ==
  /\ IsList(kms)
  /\ \A k \in DOMAIN kms : IsKeymap(kms[k])
  /\ \A j, k \in DOMAIN kms : kms[j].name = kms[k].name => j = k

\* A table that grows keeps its keymaps, and new ones have no assignment.
Extends(new, kms) ==
  /\ DOMAIN kms \subseteq DOMAIN new
  /\ \A k \in DOMAIN kms : new[k].name = kms[k].name /\ new[k].assigned = kms[k].assigned
  /\ \A k \in DOMAIN new : k \notin DOMAIN kms => new[k].assigned = <<>>

\* A table may grow twice.
LEMMA ExtendsTwice ==
  ASSUME NEW a, NEW b, NEW c, Extends(b, a), Extends(c, b)
  PROVE  Extends(c, a)
BY DEF Extends

\* The search for a keymap finds it if it is there.
LEMMA KeymapNamedIs ==
  ASSUME NEW kms, IsTable(kms), NEW name
  PROVE  /\ KeymapNamed(kms, name) # 0 =>
              /\ KeymapNamed(kms, name) \in DOMAIN kms
              /\ kms[KeymapNamed(kms, name)].name = name
         /\ KeymapNamed(kms, name) = 0 => \A k \in DOMAIN kms : kms[k].name # name
<1> DEFINE I == {i \in 1..Len(kms) : kms[i].name = name}
<1>1. KeymapNamed(kms, name) = IF I # {} THEN Min(I) ELSE 0
  BY DEF KeymapNamed, SelectInSeq
<1>2. Len(kms) \in Nat /\ DOMAIN kms = 1..Len(kms)  BY AppendedTo DEF IsTable
<1>3. I # {} => Min(I) \in I
  <2>1. I \in SUBSET Nat  BY <1>2
  <2> QED  BY <2>1, MinOf
<1>4. 0 \notin I  BY <1>2
<1> QED  BY <1>1, <1>2, <1>3, <1>4

\* Keymaps::add: the keymap is there afterwards, once.
LEMMA Added ==
  ASSUME NEW kms, IsTable(kms), NEW name
  PROVE  /\ IsTable(AddKeymap(kms, name)) /\ Extends(AddKeymap(kms, name), kms)
         /\ \E k \in DOMAIN AddKeymap(kms, name) : AddKeymap(kms, name)[k].name = name
<1>1. CASE KeymapNamed(kms, name) # 0
  <2>1. AddKeymap(kms, name) = kms  BY <1>1 DEF AddKeymap
  <2> QED  BY <1>1, <2>1, KeymapNamedIs DEF Extends
<1>2. CASE KeymapNamed(kms, name) = 0
  <2> DEFINE k == NewKeymap(name, 0)
             new == Append(kms, k)
  <2>1. AddKeymap(kms, name) = new  BY <1>2 DEF AddKeymap
  <2>2. k.name = name /\ k.assigned = <<>> /\ IsKeymap(k)  BY DEF NewKeymap, IsKeymap
  <2> HIDE DEF k
  <2>3. /\ IsList(new) /\ Len(kms) \in Nat /\ DOMAIN kms = 1..Len(kms)
        /\ DOMAIN new = 1..(Len(kms) + 1)
        /\ \A i \in 1..Len(kms) : new[i] = kms[i]
        /\ new[Len(kms) + 1] = k
    BY AppendedTo DEF IsTable
  <2> HIDE DEF new
  <2>4. \A i \in DOMAIN new : i \in DOMAIN kms \/ i = Len(kms) + 1  BY <2>3
  <2>5. DOMAIN kms \subseteq DOMAIN new /\ Len(kms) + 1 \in DOMAIN new  BY <2>3
  <2>6. \A i \in DOMAIN kms : new[i] = kms[i] /\ kms[i].name # name
    BY <1>2, <2>3, KeymapNamedIs
  <2>7. IsTable(new)  BY <2>2, <2>3, <2>4, <2>6 DEF IsTable
  <2>8. Extends(new, kms)  BY <2>2, <2>3, <2>4, <2>5, <2>6 DEF Extends
  <2> QED  BY <2>1, <2>2, <2>3, <2>5, <2>7, <2>8
<1> QED  BY <1>1, <1>2

\* A keymap may be given anything but another name.
LEMMA Replaced ==
  ASSUME NEW kms, IsTable(kms), NEW i, NEW k, IsKeymap(k),
         i \in DOMAIN kms => k.name = kms[i].name
  PROVE  /\ IsTable([kms EXCEPT ![i] = k])
         /\ DOMAIN [kms EXCEPT ![i] = k] = DOMAIN kms
         /\ \A j \in DOMAIN kms : [kms EXCEPT ![i] = k][j] = IF j = i THEN k ELSE kms[j]
<1> DEFINE new == [kms EXCEPT ![i] = k]
<1>1. DOMAIN new = DOMAIN kms  OBVIOUS
<1>2. \A j \in DOMAIN kms : new[j] = IF j = i THEN k ELSE kms[j]  OBVIOUS
<1>3. IsList(new)
  <2>1. kms \in Seq(ToSet(kms))  BY DEF IsTable, IsList
  <2> DEFINE S == ToSet(kms) \cup {k}
  <2>2. Len(kms) \in Nat /\ DOMAIN kms = 1..Len(kms)  BY <2>1
  <2>3. \A j \in DOMAIN kms : kms[j] \in ToSet(kms)  BY DEF ToSet
  <2>4. \A j \in 1..Len(kms) : new[j] \in S  BY <1>2, <2>2, <2>3
  <2>5. new = [j \in 1..Len(kms) |-> new[j]]  BY <2>2
  <2> HIDE DEF S, new
  <2>6. new \in [1..Len(kms) -> S]  BY <2>4, <2>5
  <2>7. new \in Seq(S)  BY <2>2, <2>6, SeqDef
  <2> QED  BY <2>7, SeqFacts
<1> HIDE DEF new
<1>4. \A j \in DOMAIN kms : IsKeymap(new[j]) /\ new[j].name = kms[j].name
  BY <1>2 DEF IsTable
<1>5. IsTable(new)  BY <1>1, <1>3, <1>4 DEF IsTable
<1> QED  BY <1>1, <1>2, <1>5 DEF new

\* Its fields one by one.
LEMMA Changed ==
  ASSUME NEW k, IsKeymap(k), NEW v
  PROVE  /\ IsKeymap([k EXCEPT !.mods = v])
         /\ IsKeymap([k EXCEPT !.def = v]) /\ IsKeymap([k EXCEPT !.parent = v])
         /\ [k EXCEPT !.mods = v].name = k.name /\ [k EXCEPT !.mods = v].assigned = k.assigned
         /\ [k EXCEPT !.def = v].name = k.name /\ [k EXCEPT !.def = v].assigned = k.assigned
         /\ [k EXCEPT !.parent = v].name = k.name /\ [k EXCEPT !.parent = v].assigned = k.assigned
<1>1. [k EXCEPT !.mods = v] =
        [name |-> k.name, def |-> k.def, parent |-> k.parent, assigned |-> k.assigned, mods |-> v]
  BY DEF IsKeymap
<1>3. [k EXCEPT !.def = v] =
        [name |-> k.name, def |-> v, parent |-> k.parent, assigned |-> k.assigned, mods |-> k.mods]
  BY DEF IsKeymap
<1>4. [k EXCEPT !.parent = v] =
        [name |-> k.name, def |-> k.def, parent |-> v, assigned |-> k.assigned, mods |-> k.mods]
  BY DEF IsKeymap
<1> QED  BY <1>1, <1>3, <1>4 DEF IsKeymap

\* A table that keeps its keymaps, their names and their assignments.
Keeps(new, kms) ==
  /\ IsTable(new) /\ DOMAIN new = DOMAIN kms
  /\ \A k \in DOMAIN kms : new[k].name = kms[k].name /\ new[k].assigned = kms[k].assigned

\* The default sequence, the parent and the modifiers of a keymap are replaced.
LEMMA FieldReplaced ==
  ASSUME NEW kms, IsTable(kms), NEW i \in DOMAIN kms, NEW v
  PROVE  /\ Keeps([kms EXCEPT ![i].def = v], kms)
         /\ Keeps([kms EXCEPT ![i].parent = v], kms)
         /\ Keeps([kms EXCEPT ![i].mods = v], kms)
<1>1. IsKeymap(kms[i])  BY DEF IsTable
<1>2. ASSUME NEW k, IsKeymap(k), k.name = kms[i].name, k.assigned = kms[i].assigned
      PROVE  Keeps([kms EXCEPT ![i] = k], kms)
  <2> DEFINE new == [kms EXCEPT ![i] = k]
  <2>1. /\ IsTable(new) /\ DOMAIN new = DOMAIN kms
        /\ \A j \in DOMAIN kms : new[j] = IF j = i THEN k ELSE kms[j]
    BY <1>2, Replaced
  <2> HIDE DEF new
  <2> QED  BY <1>2, <2>1 DEF Keeps, new
<1>3. [kms EXCEPT ![i].def = v] = [kms EXCEPT ![i] = [kms[i] EXCEPT !.def = v]]  OBVIOUS
<1>4. [kms EXCEPT ![i].parent = v] = [kms EXCEPT ![i] = [kms[i] EXCEPT !.parent = v]]  OBVIOUS
<1>5. [kms EXCEPT ![i].mods = v] = [kms EXCEPT ![i] = [kms[i] EXCEPT !.mods = v]]  OBVIOUS
<1>6. Keeps([kms EXCEPT ![i] = [kms[i] EXCEPT !.def = v]], kms)  BY <1>1, <1>2, Changed
<1>7. Keeps([kms EXCEPT ![i] = [kms[i] EXCEPT !.parent = v]], kms)  BY <1>1, <1>2, Changed
<1>8. Keeps([kms EXCEPT ![i] = [kms[i] EXCEPT !.mods = v]], kms)  BY <1>1, <1>2, Changed
<1> QED  BY <1>3, <1>4, <1>5, <1>6, <1>7, <1>8

\* A table may be kept twice.
LEMMA KeepsTwice ==
  ASSUME NEW a, NEW b, NEW c, Keeps(b, a), Keeps(c, b)
  PROVE  Keeps(c, a)
BY DEF Keeps

\* The assignments of a keymap are replaced.
LEMMA Reassigned ==
  ASSUME NEW kms, IsTable(kms), NEW i \in DOMAIN kms, NEW v
  PROVE  /\ IsTable([kms EXCEPT ![i].assigned = v])
         /\ DOMAIN [kms EXCEPT ![i].assigned = v] = DOMAIN kms
         /\ \A j \in DOMAIN kms :
              /\ [kms EXCEPT ![i].assigned = v][j].name = kms[j].name
              /\ [kms EXCEPT ![i].assigned = v][j].assigned =
                   IF j = i THEN v ELSE kms[j].assigned
<1> DEFINE k == [kms[i] EXCEPT !.assigned = v]
           new == [kms EXCEPT ![i] = k]
<1>1. [kms EXCEPT ![i].assigned = v] = new  OBVIOUS
<1>2. IsKeymap(k) /\ k.name = kms[i].name /\ k.assigned = v
  <2>1. IsKeymap(kms[i])  BY DEF IsTable
  <2>2. k = [name |-> kms[i].name, def |-> kms[i].def, parent |-> kms[i].parent,
             assigned |-> v, mods |-> kms[i].mods]
    BY <2>1 DEF IsKeymap
  <2> HIDE DEF k
  <2> QED  BY <2>2 DEF IsKeymap
<1> HIDE DEF k
<1>3. /\ IsTable(new) /\ DOMAIN new = DOMAIN kms
      /\ \A j \in DOMAIN kms : new[j] = IF j = i THEN k ELSE kms[j]
  BY <1>2, Replaced
<1> HIDE DEF new
<1>4. \A j \in DOMAIN kms : /\ new[j].name = kms[j].name
                            /\ new[j].assigned = IF j = i THEN v ELSE kms[j].assigned
  BY <1>2, <1>3
<1> QED  BY <1>1, <1>3, <1>4

\* A set that holds 0 and with n also n + 1 holds every number.
LEMMA NumbersIn ==
  ASSUME NEW S, 0 \in S, \A n \in Nat : n \in S => n + 1 \in S
  PROVE  Nat \subseteq S
<1> SUFFICES ASSUME Nat \ S # {} PROVE FALSE  OBVIOUS
<1>1. PICK x \in Nat \ S : \A y \in Nat \ S : x <= y
  <2>1. Nat \ S \in SUBSET Nat  OBVIOUS
  <2> QED  BY <2>1, LeastNat
<1>2. x # 0 /\ x - 1 \in Nat /\ x = (x - 1) + 1  BY <1>1
<1>3. x - 1 \notin S  BY <1>2
<1> QED  BY <1>1, <1>2, <1>3

\* what is said of Keymaps::adjustModifier
KeymapsDone(K, kms) ==
  /\ K[0] = kms /\ AdjustAll(kms) = K[Len(kms)]
  /\ \A n \in 1..Len(kms) : K[n] = AdjustModifier(K[n - 1], n)

LEMMA FoldedKeymaps ==
  ASSUME NEW kms, IsList(kms)
  PROVE  \E K : KeymapsDone(K, kms)
<1> DEFINE N == Len(kms)
           at(f, i) == IF i = 0 THEN kms ELSE AdjustModifier(f[i - 1], i)
           Good(f, n) == f = [i \in 0..n |-> at(f, i)]
           K == CHOOSE f : Good(f, N)
<1>0. N \in Nat  BY AppendedTo
<1>1. \E f : Good(f, N)
  <2> DEFINE T == {n \in Nat : \E f : Good(f, n)}
  <2>1. 0 \in T
    <3> DEFINE f == [i \in 0..0 |-> kms]
    <3>1. Good(f, 0)  OBVIOUS
    <3> QED  BY <3>1
  <2>2. ASSUME NEW n \in Nat, n \in T PROVE n + 1 \in T
    <3>1. PICK f : Good(f, n)  BY <2>2
    <3> HIDE DEF at
    <3>a. \A i \in 0..n : f[i] = at(f, i)  BY <3>1
    <3> DEFINE g == [i \in 0..(n + 1) |-> IF i \in 0..n THEN f[i] ELSE at(f, n + 1)]
    <3>2. ASSUME NEW i \in 0..(n + 1) PROVE g[i] = at(g, i)
      <4>1. CASE i = 0
        <5>1. 0 \in 0..n  OBVIOUS
        <5>2. g[0] = f[0] /\ f[0] = at(f, 0)  BY <3>a, <5>1
        <5> QED  BY <4>1, <5>2 DEF at
      <4>2. CASE i \in 1..n
        <5>1. f[i] = at(f, i)  BY <3>a, <4>2
        <5>2. g[i] = f[i] /\ g[i - 1] = f[i - 1]  BY <4>2
        <5> QED  BY <4>2, <5>1, <5>2 DEF at
      <4>3. CASE i = n + 1
        <5>1. g[i] = at(f, i) /\ g[i - 1] = f[i - 1] /\ i # 0  BY <4>3
        <5> QED  BY <5>1 DEF at
      <4> QED  BY <4>1, <4>2, <4>3
    <3>3. g = [i \in 0..(n + 1) |-> g[i]]  OBVIOUS
    <3>4. Good(g, n + 1)  BY <3>2, <3>3
    <3> HIDE DEF Good, g
    <3> QED  BY <3>4
  <2>3. N \in T  BY <1>0, <2>1, <2>2, NumbersIn
  <2> QED  BY <2>3
<1>2. Good(K, N)  BY <1>1
<1>3. AdjustAll(kms) = K[N]  BY DEF AdjustAll
<1> HIDE DEF K
<1>4. \A i \in 0..N : K[i] = at(K, i)  BY <1>2
<1> HIDE DEF Good
<1>5. K[0] = kms  BY <1>0, <1>4
<1>6. \A n \in 1..N : K[n] = AdjustModifier(K[n - 1], n)  BY <1>0, <1>4
<1> QED  BY <1>3, <1>5, <1>6 DEF KeymapsDone

\* One keymap is adjusted, and the others stay.
LEMMA KeymapAdjusted ==
  ASSUME NEW kms, IsTable(kms), NEW i \in DOMAIN kms, NEW new, new = AdjustModifier(kms, i)
  PROVE  /\ Keeps(new, kms)
         /\ \A j \in DOMAIN kms : /\ new[j].parent = kms[j].parent
                                  /\ j # i => new[j].mods = kms[j].mods
         /\ new[i].mods = [m \in Modifiers |->
              LessRedundant(FoldLeft(Adjust, Inherited(kms, i, m), kms[i].mods[m]))]
<1>1. PICK v : v = [m \in Modifiers |->
               LessRedundant(FoldLeft(Adjust, Inherited(kms, i, m), kms[i].mods[m]))]
  OBVIOUS
<1>2. new = [kms EXCEPT ![i].mods = v]  BY <1>1 DEF AdjustModifier
<1>3. Keeps(new, kms)
  <2>1. Keeps([kms EXCEPT ![i].mods = v], kms)  BY FieldReplaced
  <2> QED  BY <1>2, <2>1
<1>4. new[i].mods = v /\ new[i].parent = kms[i].parent
  <2>1. IsKeymap(kms[i])  BY DEF IsTable
  <2>2. new[i] = [kms[i] EXCEPT !.mods = v]  BY <1>2
  <2>3. new[i] = [name |-> kms[i].name, def |-> kms[i].def, parent |-> kms[i].parent,
                  assigned |-> kms[i].assigned, mods |-> v]
    BY <2>1, <2>2 DEF IsKeymap
  <2> QED  BY <2>3
<1>5. \A j \in DOMAIN kms : j # i => new[j] = kms[j]  BY <1>2
<1> QED  BY <1>1, <1>3, <1>4, <1>5

\* Commit folds modifiers and touches neither names nor assignments.
LEMMA AdjustKeeps ==
  ASSUME NEW kms, IsTable(kms)
  PROVE  Keeps(AdjustAll(kms), kms)
<1> DEFINE N == Len(kms)
<1>0. N \in Nat /\ DOMAIN kms = 1..N  BY AppendedTo DEF IsTable
<1>1. PICK K : KeymapsDone(K, kms)  BY FoldedKeymaps DEF IsTable
<1> DEFINE T == {n \in Nat : n <= N => Keeps(K[n], kms)}
<1>2. 0 \in T
  <2>1. K[0] = kms  BY <1>1 DEF KeymapsDone
  <2> QED  BY <2>1 DEF Keeps
<1>3. ASSUME NEW n \in Nat, n \in T PROVE n + 1 \in T
  <2> SUFFICES ASSUME n + 1 <= N PROVE Keeps(K[n + 1], kms)  OBVIOUS
  <2>1. Keeps(K[n], kms)  BY <1>0, <1>3
  <2>2. n + 1 \in 1..N /\ (n + 1) - 1 = n  BY <1>0
  <2>3. K[n + 1] = AdjustModifier(K[n], n + 1)  BY <1>1, <2>2 DEF KeymapsDone
  <2>4. n + 1 \in DOMAIN K[n] /\ IsTable(K[n])  BY <1>0, <2>1 DEF Keeps
  <2>5. Keeps(K[n + 1], K[n])  BY <2>3, <2>4, KeymapAdjusted
  <2> QED  BY <2>1, <2>5, KeepsTwice
<1>4. Nat \subseteq T  BY <1>2, <1>3, NumbersIn
<1>5. Keeps(K[N], kms)  BY <1>0, <1>4
<1> QED  BY <1>1, <1>5 DEF KeymapsDone

-----------------------------------------------------------------------------
(* What the script assigns. *)

\* the keys an assignment at i is for, and the ones of keymap nm for the key x
Targets(i) == {Target(l, i) : l \in ToSet(script[i].lhs)}
About(nm, x) == {i \in At("AssignKey") : Here(i) = nm /\ x \in Targets(i)}

\* The assignments f are those the script has for keymap nm.
Holds(nm, f) ==
  /\ \A x : x \in DOMAIN f <=> x # None /\ About(nm, x) # {}
  /\ \A x \in DOMAIN f :
       f[x] = Denoted(script[Max(About(nm, x))].rhs, Max(About(nm, x)))

\* The property, keymap by keymap.
LEMMA BlockIs ==
  AssignmentsInTheirBlock <=>
    \A k \in DOMAIN keymaps : Holds(keymaps[k].name, keymaps[k].assigned)
<1> DEFINE known == (UNION {{Target(l, i) : l \in ToSet(script[i].lhs)} :
                               i \in At("AssignKey")}) \ {None}
           about(k, x) == {i \in At("AssignKey") :
                             /\ Here(i) = k.name
                             /\ x \in {Target(l, i) : l \in ToSet(script[i].lhs)}}
           Good(k) ==
             /\ DOMAIN k.assigned = {x \in known : about(k, x) # {}}
             /\ \A x \in DOMAIN k.assigned :
                  k.assigned[x] = Denoted(script[Max(about(k, x))].rhs, Max(about(k, x)))
<1>1. AssignmentsInTheirBlock <=> \A k \in ToSet(keymaps) : Good(k)
  BY DEF AssignmentsInTheirBlock
<1>2. ASSUME NEW k PROVE Good(k) <=> Holds(k.name, k.assigned)
  <2>1. \A x : about(k, x) = About(k.name, x)  BY DEF About, Targets
  <2>2. \A x : x \in known <=> x # None /\ \E i \in At("AssignKey") : x \in Targets(i)
    <3>1. \A x : x \in known <=>
            x # None /\ \E i \in At("AssignKey") : \E l \in ToSet(script[i].lhs) : x = Target(l, i)
      OBVIOUS
    <3>2. \A x, i : x \in Targets(i) <=> \E l \in ToSet(script[i].lhs) : x = Target(l, i)
      BY DEF Targets
    <3> HIDE DEF known
    <3> QED  BY <3>1, <3>2
  <2>3. \A x : About(k.name, x) # {} => \E i \in At("AssignKey") : x \in Targets(i)
    BY DEF About
  <2> HIDE DEF known, about
  <2> QED  BY <2>1, <2>2, <2>3 DEF Holds
<1>3. ToSet(keymaps) = {keymaps[k] : k \in DOMAIN keymaps}  BY DEF ToSet
<1> HIDE DEF Good
<1> QED  BY <1>1, <1>2, <1>3

\* Assignments to a keymap are added at the end only.
LEMMA AboutGrows ==
  ASSUME NEW c, Grows(c), NEW n \in Nat, n = Len(script), NEW nm, NEW x
  PROVE  /\ About(nm, x) \subseteq 1..n
         /\ About(nm, x)' = About(nm, x) \cup
              (IF /\ c.cmd = "AssignKey" /\ Here(n + 1) = nm
                  /\ x \in {Target(l, n + 1) : l \in ToSet(c.lhs)}
               THEN {n + 1} ELSE {})
<1>1. About(nm, x) \subseteq 1..n /\ About(nm, x)' \subseteq 1..(n + 1)
  BY Grown, GrownAt DEF About
<1>2. \A i \in 1..n : script'[i] = script[i] /\ (i \in At("AssignKey")' <=> i \in At("AssignKey"))
  BY Grown, GrownAt
<1>3. script'[n + 1] = c /\ (n + 1 \in At("AssignKey")' <=> c.cmd = "AssignKey")
  BY Grown, GrownAt
<1>4. ASSUME NEW i \in 1..n PROVE i \in About(nm, x)' <=> i \in About(nm, x)
  <2>1. i \in 1..(Len(script) + 1)  BY <1>4
  <2>2. Here(i)' = Here(i)  BY <2>1, SameHere
  <2>3. \A l : Target(l, i)' = Target(l, i)  BY <2>1, SameDenotes
  <2>4. Targets(i)' = Targets(i)  BY <1>2, <2>3 DEF Targets
  <2> QED  BY <1>2, <2>2, <2>4 DEF About
<1>5. n + 1 \in About(nm, x)' <=> /\ c.cmd = "AssignKey" /\ Here(n + 1) = nm
                                  /\ x \in {Target(l, n + 1) : l \in ToSet(c.lhs)}
  <2>1. n + 1 \in 1..(Len(script) + 1)  BY Grown
  <2>2. Here(n + 1)' = Here(n + 1)  BY <2>1, SameHere
  <2>3. \A l : Target(l, n + 1)' = Target(l, n + 1)  BY <2>1, SameDenotes
  <2>4. Targets(n + 1)' = {Target(l, n + 1) : l \in ToSet(c.lhs)}
    BY <1>3, <2>3 DEF Targets
  <2> QED  BY <1>3, <2>2, <2>4 DEF About
<1>6. \A i \in 1..(n + 1) : i \in 1..n \/ i = n + 1  OBVIOUS
<1>7. n + 1 \notin 1..n  OBVIOUS
<1> QED  BY <1>1, <1>4, <1>5, <1>6, <1>7

\* The sequences registered may be followed by one more.
RefsGrow == refs' = refs \/ \E r : refs' = Append(refs, r)

\* A command that is no assignment, or one to another keymap, changes nothing.
LEMMA StillHolds ==
  ASSUME NEW c, Grows(c), References, RefsGrow, NEW n \in Nat, n = Len(script),
         NEW nm, NEW f, c.cmd # "AssignKey" \/ Here(n + 1) # nm, Holds(nm, f)
  PROVE  Holds(nm, f)'
<1>1. \A x : About(nm, x)' = About(nm, x) /\ About(nm, x) \subseteq 1..n
  BY AboutGrows
<1>2. \A x : x \in DOMAIN f <=> x # None /\ About(nm, x) # {}  BY DEF Holds
<1>3. ASSUME NEW x \in DOMAIN f
      PROVE  f[x] = Denoted(script[Max(About(nm, x))].rhs, Max(About(nm, x)))'
  <2>1. PICK m : m = Max(About(nm, x))  OBVIOUS
  <2>2. m \in 1..n
    <3>1. About(nm, x) # {} /\ About(nm, x) \subseteq 1..n  BY <1>1, <1>2
    <3> QED  BY <2>1, <3>1, MaxOf
  <2>3. script'[m] = script[m] /\ m \in 1..(Len(script) + 1)  BY <2>2, Grown
  <2>4. PICK idx : idx = script[m].rhs  OBVIOUS
  <2>5. Denoted(idx, m)' = Denoted(idx, m)  BY <2>3, SameDenoted DEF RefsGrow
  <2>6. f[x] = Denoted(idx, m)  BY <1>3, <2>1, <2>4 DEF Holds
  <2>7. f[x] = Denoted(idx, m)'  BY <2>5, <2>6
  <2>8. idx = script'[m].rhs /\ m = Max(About(nm, x)')  BY <1>1, <2>1, <2>3, <2>4
  <2> QED  BY <2>7, <2>8
<1>4. \A x : x \in DOMAIN f <=> x # None /\ About(nm, x)' # {}  BY <1>1, <1>2
<1> QED  BY <1>3, <1>4 DEF Holds
\* Every statement so far stands in a keymap that exists.
KnownPlaces ==
  \A i \in 1..Len(script) : \E k \in DOMAIN keymaps : keymaps[k].name = Here(i)

\* A command that is new stands in the current keymap, which exists.
LEMMA KnownPlacesKept ==
  ASSUME NEW c, Grows(c), KnownPlaces, Places, NamesKept
  PROVE  KnownPlaces'
<1>1. PICK n \in Nat : n = Len(script)  BY Grown
<1>2. Len(script') = n + 1 /\ AtEnd = n + 1  BY <1>1, Grown
<1>3. ASSUME NEW i \in 1..(n + 1)
      PROVE  \E k \in DOMAIN keymaps' : keymaps'[k].name = Here(i)'
  <2>1. i \in 1..(Len(script) + 1)  BY <1>1
  <2>2. Here(i)' = Here(i)  BY <2>1, SameHere
  <2>3. CASE i = n + 1
    <3>1. current \in DOMAIN keymaps /\ keymaps[current].name = Here(i)
      BY <1>2, <2>3 DEF Places
    <3> QED  BY <2>2, <3>1 DEF NamesKept
  <2>4. CASE i # n + 1
    <3>1. i \in 1..Len(script)  BY <1>1, <2>4
    <3>2. PICK k \in DOMAIN keymaps : keymaps[k].name = Here(i)  BY <3>1 DEF KnownPlaces
    <3> QED  BY <2>2, <3>2 DEF NamesKept
  <2> QED  BY <2>3, <2>4
<1> QED  BY <1>2, <1>3 DEF KnownPlaces

\* A command that is no assignment keeps every keymap's and gives a new keymap
\* none: nothing has been said about it.
LEMMA BlockKept ==
  ASSUME NEW c, Grows(c), c.cmd # "AssignKey", References, RefsGrow, KnownPlaces,
         AssignmentsInTheirBlock, IsTable(keymaps'), Extends(keymaps', keymaps)
  PROVE  AssignmentsInTheirBlock'
<1>1. PICK n \in Nat : n = Len(script)  BY Grown
<1>2. \A k \in DOMAIN keymaps : Holds(keymaps[k].name, keymaps[k].assigned)  BY BlockIs
<1>3. ASSUME NEW k \in DOMAIN keymaps', NEW nm, NEW f,
             nm = keymaps'[k].name, f = keymaps'[k].assigned
      PROVE  Holds(nm, f)'
  <2>1. Holds(nm, f)
    <3>1. CASE k \in DOMAIN keymaps
      <4>1. nm = keymaps[k].name /\ f = keymaps[k].assigned  BY <1>3, <3>1 DEF Extends
      <4> QED  BY <1>2, <3>1, <4>1
    <3>2. CASE k \notin DOMAIN keymaps
      <4>1. f = <<>>  BY <1>3, <3>2 DEF Extends
      <4>2. \A j \in DOMAIN keymaps : keymaps[j].name # nm
        BY <1>3, <3>2 DEF Extends, IsTable
      <4>3. \A i \in 1..n : Here(i) # nm  BY <1>1, <4>2 DEF KnownPlaces
      <4>4. \A x : About(nm, x) = {}  BY <1>1, <4>3, GrownAt DEF About
      <4>5. \A x : x \notin DOMAIN f  BY <4>1
      <4> QED  BY <4>4, <4>5 DEF Holds
    <3> QED  BY <3>1, <3>2
  <2> QED  BY <1>1, <2>1, StillHolds
<1>4. (\A k \in DOMAIN keymaps : Holds(keymaps[k].name, keymaps[k].assigned))'
  BY <1>3
<1>5. AssignmentsInTheirBlock' <=>
        (\A k \in DOMAIN keymaps : Holds(keymaps[k].name, keymaps[k].assigned))'
  BY BlockIs, PTL
<1> QED  BY <1>4, <1>5

\* the assignments of a keymap that had `was' when the keys `found' are assigned
Assigned(was, found, c) ==
  [x \in found \cup DOMAIN was |-> IF x \in found THEN KeySeqRef(c.rhs) ELSE was[x]]

\* the current keymap has the assignments f
Gives(f) == keymaps' = [keymaps EXCEPT ![current].assigned = f]

\* An assignment adds to those of the current keymap, and to no other.
LEMMA BlockAssigned ==
  ASSUME NEW c, Grows(c), c.cmd = "AssignKey", Symbols, References, refs' = refs,
         AssignmentsInTheirBlock, IsTable(keymaps), Places,
         NEW found, found = {Assignable(l) : l \in ToSet(c.lhs)} \ {None},
         NEW was, was = keymaps[current].assigned,
         NEW f, f = Assigned(was, found, c), Gives(f)
  PROVE  AssignmentsInTheirBlock'
<1>1. PICK n \in Nat : n = Len(script)  BY Grown
<1>2. AtEnd = n + 1 /\ n + 1 \in 1..(Len(script) + 1)  BY <1>1, Grown
<1>3. \A k \in DOMAIN keymaps : Holds(keymaps[k].name, keymaps[k].assigned)  BY BlockIs
<1>4. /\ current \in DOMAIN keymaps /\ keymaps[current].name = Here(n + 1)
      /\ DOMAIN keymaps' = DOMAIN keymaps
      /\ \A j \in DOMAIN keymaps :
           /\ keymaps'[j].name = keymaps[j].name
           /\ keymaps'[j].assigned = IF j = current THEN f ELSE keymaps[j].assigned
  <2>1. current \in DOMAIN keymaps /\ keymaps[current].name = Here(n + 1)
    BY <1>2 DEF Places
  <2>2. keymaps' = [keymaps EXCEPT ![current].assigned = f]  BY DEF Gives
  <2>3. /\ DOMAIN [keymaps EXCEPT ![current].assigned = f] = DOMAIN keymaps
        /\ \A j \in DOMAIN keymaps :
             /\ [keymaps EXCEPT ![current].assigned = f][j].name = keymaps[j].name
             /\ [keymaps EXCEPT ![current].assigned = f][j].assigned =
                  IF j = current THEN f ELSE keymaps[j].assigned
    BY <2>1, Reassigned
  <2> QED  BY <2>1, <2>2, <2>3
<1>5. PICK nm : nm = Here(n + 1)  OBVIOUS
<1>6. PICK r : r = KeySeqRef(c.rhs)  OBVIOUS
<1>7. Holds(nm, was)  BY <1>3, <1>4, <1>5
<1>8. /\ \A x : x \in found <=> x # None /\ x \in {Target(l, n + 1) : l \in ToSet(c.lhs)}
      /\ r = Denoted(c.rhs, n + 1)
  <2>1. \A l : Assignable(l) = Target(l, n + 1)  BY <1>2, SearchKeyIs
  <2>2. script \in Seq(Commands)  BY DEF Grows
  <2>3. r = Denoted(c.rhs, n + 1)  BY <1>2, <1>6, <2>2, KeySeqRefIs
  <2> QED  BY <2>1, <2>3
<1> DEFINE T == {Target(l, n + 1) : l \in ToSet(c.lhs)}
<1>9. ASSUME NEW x
      PROVE  /\ About(nm, x) \subseteq 1..n
             /\ x \in T => About(nm, x)' = About(nm, x) \cup {n + 1}
             /\ x \notin T => About(nm, x)' = About(nm, x)
  <2>1. /\ About(nm, x) \subseteq 1..n
        /\ About(nm, x)' = About(nm, x) \cup
             (IF c.cmd = "AssignKey" /\ Here(n + 1) = nm /\ x \in T THEN {n + 1} ELSE {})
    BY <1>1, AboutGrows
  <2> HIDE DEF T
  <2> QED  BY <1>5, <2>1
<1>10. /\ \A x : x \in DOMAIN was <=> x # None /\ About(nm, x) # {}
       /\ \A x \in DOMAIN was :
            was[x] = Denoted(script[Max(About(nm, x))].rhs, Max(About(nm, x)))
  BY <1>7 DEF Holds
<1>11. /\ \A x : x \in DOMAIN f <=> x \in found \/ x \in DOMAIN was
       /\ \A x \in DOMAIN f : f[x] = IF x \in found THEN r ELSE was[x]
  BY <1>6 DEF Assigned
<1> HIDE DEF T
<1>a. \A x : x \in found <=> x # None /\ x \in T  BY <1>8 DEF T
<1>12. PICK g : g = f  OBVIOUS
<1>13. \A x : x \in DOMAIN g <=> x # None /\ About(nm, x)' # {}
  <2> SUFFICES ASSUME NEW x PROVE x \in DOMAIN g <=> x # None /\ About(nm, x)' # {}
    OBVIOUS
  <2>1. x \in DOMAIN g <=> x # None /\ (x \in T \/ About(nm, x) # {})
    BY <1>a, <1>10, <1>11, <1>12
  <2>2. x \in T => About(nm, x)' = About(nm, x) \cup {n + 1}  BY <1>9
  <2>3. x \notin T => About(nm, x)' = About(nm, x)  BY <1>9
  <2>4. x \in T => About(nm, x)' # {}  BY <2>2
  <2> QED  BY <2>1, <2>3, <2>4
<1>14. ASSUME NEW x \in DOMAIN g
       PROVE  g[x] = Denoted(script[Max(About(nm, x))].rhs, Max(About(nm, x)))'
  <2>1. CASE x \in found
    <3>1. About(nm, x)' = About(nm, x) \cup {n + 1} /\ About(nm, x) \subseteq 1..n
      BY <1>a, <1>9, <2>1
    <3>2. Max(About(nm, x)') = n + 1
      <4>1. PICK S : S = About(nm, x)'  OBVIOUS
      <4>2. S \in SUBSET (1..(n + 1)) /\ n + 1 \in S /\ n + 1 \in Nat  BY <3>1, <4>1
      <4>3. Max(S) \in S /\ \A y \in S : y <= Max(S)  BY <4>2, MaxOf
      <4>4. PICK m : m = Max(S)  OBVIOUS
      <4>5. m \in 1..(n + 1) /\ n + 1 <= m  BY <4>2, <4>3, <4>4
      <4>6. m = n + 1  BY <4>5
      <4> QED  BY <4>1, <4>4, <4>6
    <3>3. script'[n + 1] = c  BY <1>1, Grown
    <3>4. PICK m : m = n + 1  OBVIOUS
    <3>5. PICK idx : idx = c.rhs  OBVIOUS
    <3>6. Denoted(idx, m)' = Denoted(idx, m)  BY <1>2, <3>4, SameDenoted
    <3>7. g[x] = Denoted(idx, m)'  BY <1>8, <1>11, <1>12, <2>1, <3>4, <3>5, <3>6
    <3>8. idx = script'[m].rhs /\ m = Max(About(nm, x)')  BY <3>2, <3>3, <3>4, <3>5
    <3> QED  BY <3>7, <3>8
  <2>2. CASE x \notin found
    <3>1. x \in DOMAIN was /\ g[x] = was[x]  BY <1>11, <1>12, <2>2
    <3>2. About(nm, x)' = About(nm, x) /\ About(nm, x) \subseteq 1..n /\ About(nm, x) # {}
      BY <1>a, <1>9, <1>10, <2>2, <3>1
    <3>3. PICK m : m = Max(About(nm, x))  OBVIOUS
    <3>4. m \in 1..n  BY <3>2, <3>3, MaxOf
    <3>5. script'[m] = script[m] /\ m \in 1..(Len(script) + 1)  BY <1>1, <3>4, Grown
    <3>6. PICK idx : idx = script[m].rhs  OBVIOUS
    <3>7. Denoted(idx, m)' = Denoted(idx, m)  BY <3>5, SameDenoted
    <3>8. g[x] = Denoted(idx, m)'  BY <1>10, <3>1, <3>3, <3>6, <3>7
    <3>9. idx = script'[m].rhs /\ m = Max(About(nm, x)')  BY <3>2, <3>3, <3>5, <3>6
    <3> QED  BY <3>8, <3>9
  <2> QED  BY <2>1, <2>2
<1>15. Holds(nm, g)'  BY <1>13, <1>14 DEF Holds
<1>16. ASSUME NEW k \in DOMAIN keymaps', NEW nk, NEW h,
              nk = keymaps'[k].name, h = keymaps'[k].assigned
       PROVE  Holds(nk, h)'
  <2>1. CASE k = current
    <3>1. nk = nm /\ h = g  BY <1>4, <1>5, <1>12, <1>16, <2>1
    <3> QED  BY <1>15, <3>1
  <2>2. CASE k # current
    <3>1. k \in DOMAIN keymaps /\ nk = keymaps[k].name /\ h = keymaps[k].assigned
      BY <1>4, <1>16, <2>2
    <3>2. Holds(nk, h)  BY <1>3, <3>1
    <3>3. nk # Here(n + 1)  BY <1>4, <2>2, <3>1 DEF IsTable
    <3> QED  BY <1>1, <3>2, <3>3, StillHolds DEF RefsGrow
  <2> QED  BY <2>1, <2>2
<1>17. (\A k \in DOMAIN keymaps : Holds(keymaps[k].name, keymaps[k].assigned))'
  BY <1>16
<1>18. AssignmentsInTheirBlock' <=>
         (\A k \in DOMAIN keymaps : Holds(keymaps[k].name, keymaps[k].assigned))'
  BY BlockIs, PTL
<1> QED  BY <1>17, <1>18
-----------------------------------------------------------------------------
(* The steps. *)

IInv ==
  /\ script \in Seq(Commands)
  /\ IsTable(keymaps) /\ Symbols /\ References /\ KnownPlaces
  /\ AssignmentsInTheirBlock
  /\ open => Places

SymbolsGrow(c) ==
  /\ keys' = keys \cup (IF c.cmd = "DefKey" THEN {c.name} ELSE {})
  /\ aliases' = IF c.cmd = "DefAlias" /\ c.key \in keys /\ c.name \notin DOMAIN aliases
                THEN [x \in DOMAIN aliases \cup {c.name} |->
                        IF x = c.name THEN c.key ELSE aliases[x]]
                ELSE aliases

\* What any command has to see to.
LEMMA Taken ==
  ASSUME IInv, NEW c \in Commands, Take(c)
  PROVE  Grows(c) /\ Places
BY DEF IInv, Take, Grows

\* ... and if it does the invariant is kept.
LEMMA TakenInv ==
  ASSUME IInv, NEW c \in Commands, Take(c), IsTable(keymaps'), NamesKept, SymbolsGrow(c),
         IF c.cmd = "RegKeySeq" THEN \E r : refs' = Append(refs, r) ELSE refs' = refs,
         AssignmentsInTheirBlock', Places'
  PROVE  IInv'
<1>1. Grows(c) /\ Places  BY Taken
<1>2. script' \in Seq(Commands)  BY <1>1, Grown
<1>3. Symbols'  BY <1>1, SymbolsKept DEF IInv, SymbolsGrow
<1>4. References'  BY <1>1, ReferencesKept DEF IInv
<1>5. KnownPlaces'  BY <1>1, KnownPlacesKept DEF IInv
<1> QED  BY <1>2, <1>3, <1>4, <1>5 DEF IInv

\* The place stays where it is.
LEMMA PlacesQuiet ==
  ASSUME NEW c, Grows(c), Places, NamesKept, c.cmd # "DefKeymap", c.cmd # "EndKeymap",
         stack' = stack, current' = current
  PROVE  Places'
<1>1. PICK n \in Nat : n = Len(script)  BY Grown
<1>2. AtEnd = n + 1 /\ AtEnd' = n + 2  BY <1>1, Grown
<1>3. Here(n + 2)' = Here(n + 1)  BY <1>1, HereStays
<1>4. \E P \in Seq(Nat) : Nested(P, Len(script))'  BY PlacesStay DEF Opens
<1>5. current' \in DOMAIN keymaps' /\ keymaps'[current'].name = Here(AtEnd)'
  BY <1>2, <1>3 DEF Places, NamesKept
<1>6. IsList(stack)'  BY DEF Places, IsList
<1> QED  BY <1>4, <1>5, <1>6 DEF Places

\* A command that is about none of this.
LEMMA QuietInv ==
  ASSUME IInv, NEW c \in Commands, Take(c),
         c.cmd # "DefKeymap", c.cmd # "EndKeymap", c.cmd # "AssignKey",
         Keeps(keymaps', keymaps), SymbolsGrow(c), stack' = stack, current' = current,
         IF c.cmd = "RegKeySeq" THEN \E r : refs' = Append(refs, r) ELSE refs' = refs
  PROVE  IInv'
<1>1. Grows(c) /\ Places  BY Taken
<1>2. IsTable(keymaps') /\ NamesKept /\ Extends(keymaps', keymaps)
  BY DEF Keeps, NamesKept, Extends
<1>3. RefsGrow  BY DEF RefsGrow
<1>4. AssignmentsInTheirBlock'  BY <1>1, <1>2, <1>3, BlockKept DEF IInv
<1>5. Places'  BY <1>1, <1>2, PlacesQuiet
<1> QED  BY <1>2, <1>4, <1>5, TakenInv

\* A table that does not change is kept.
LEMMA KeepsItself ==
  ASSUME IInv
  PROVE  Keeps(keymaps, keymaps)
BY DEF IInv, Keeps

\* The commands one by one: first those that are about no keymap, ...
LEMMA RegKeySeqInv ==
  ASSUME IInv, NEW c \in Is("RegKeySeq"), RegKeySeq(c)
  PROVE  IInv'
<1>1. c \in Commands /\ c.cmd = "RegKeySeq"  BY DEF Is
<1>2. /\ Take(c) /\ keymaps' = keymaps /\ SymbolsGrow(c)
      /\ stack' = stack /\ current' = current /\ \E r : refs' = Append(refs, r)
  BY <1>1 DEF RegKeySeq, SymbolsGrow
<1> QED  BY <1>1, <1>2, KeepsItself, QuietInv

LEMMA DefKeyInv ==
  ASSUME IInv, NEW c \in Is("DefKey"), DefKey(c)
  PROVE  IInv'
<1>1. c \in Commands /\ c.cmd = "DefKey"  BY DEF Is
<1>2. /\ Take(c) /\ keymaps' = keymaps /\ SymbolsGrow(c)
      /\ stack' = stack /\ current' = current /\ refs' = refs
  BY <1>1 DEF DefKey, SymbolsGrow
<1> QED  BY <1>1, <1>2, KeepsItself, QuietInv

LEMMA DefAliasInv ==
  ASSUME IInv, NEW c \in Is("DefAlias"), DefAlias(c)
  PROVE  IInv'
<1>1. c \in Commands /\ c.cmd = "DefAlias"  BY DEF Is
<1>2. /\ Take(c) /\ keymaps' = keymaps /\ SymbolsGrow(c)
      /\ stack' = stack /\ current' = current /\ refs' = refs
  BY <1>1 DEF DefAlias, SymbolsGrow
<1> QED  BY <1>1, <1>2, KeepsItself, QuietInv

LEMMA DefModInv ==
  ASSUME IInv, NEW c \in Is("DefMod"), DefMod(c)
  PROVE  IInv'
<1>1. c \in Commands /\ c.cmd = "DefMod"  BY DEF Is
<1>2. /\ Take(c) /\ keymaps' = keymaps /\ SymbolsGrow(c)
      /\ stack' = stack /\ current' = current /\ refs' = refs
  BY <1>1 DEF DefMod, SymbolsGrow
<1> QED  BY <1>1, <1>2, KeepsItself, QuietInv

LEMMA DefSubstInv ==
  ASSUME IInv, NEW c \in Is("DefSubst"), DefSubst(c)
  PROVE  IInv'
<1>1. c \in Commands /\ c.cmd = "DefSubst"  BY DEF Is
<1>2. /\ Take(c) /\ keymaps' = keymaps /\ SymbolsGrow(c)
      /\ stack' = stack /\ current' = current /\ refs' = refs
  BY <1>1 DEF DefSubst, SymbolsGrow
<1> QED  BY <1>1, <1>2, KeepsItself, QuietInv

LEMMA NlsKeysInv ==
  ASSUME IInv, NEW c \in Is("NlsKeys"), NlsKeys(c)
  PROVE  IInv'
<1>1. c \in Commands /\ c.cmd = "NlsKeys"  BY DEF Is
<1>2. /\ Take(c) /\ keymaps' = keymaps /\ SymbolsGrow(c)
      /\ stack' = stack /\ current' = current /\ refs' = refs
  BY <1>1 DEF NlsKeys, SymbolsGrow
<1> QED  BY <1>1, <1>2, KeepsItself, QuietInv

\* ... then those that go to the current keymap, ...
LEMMA AssignModInv ==
  ASSUME IInv, NEW c \in Is("AssignMod"), AssignMod(c)
  PROVE  IInv'
<1>1. c \in Commands /\ c.cmd = "AssignMod"  BY DEF Is
<1>2. /\ Take(c) /\ SymbolsGrow(c)
      /\ stack' = stack /\ current' = current /\ refs' = refs
  BY <1>1 DEF AssignMod, SymbolsGrow
<1>3. current \in DOMAIN keymaps /\ IsTable(keymaps)
  BY <1>1, <1>2, Taken DEF IInv, Places
<1>4. \E v : keymaps' = [keymaps EXCEPT ![current].mods = v]
  <2>1. keymaps' = [keymaps EXCEPT ![current].mods =
                      [keymaps[current].mods EXCEPT ![c.mod] =
                         WithModifiers(keymaps[current].mods[c.mod], c)]]
    BY DEF AssignMod
  <2> QED  BY <2>1
<1>5. PICK v : keymaps' = [keymaps EXCEPT ![current].mods = v]  BY <1>4
<1>6. Keeps([keymaps EXCEPT ![current].mods = v], keymaps)  BY <1>3, FieldReplaced
<1>7. Keeps(keymaps', keymaps)  BY <1>5, <1>6
<1> QED  BY <1>1, <1>2, <1>7, QuietInv

LEMMA AssignKeyInv ==
  ASSUME IInv, NEW c \in Is("AssignKey"), AssignKey(c)
  PROVE  IInv'
<1>1. c \in Commands /\ c.cmd = "AssignKey"  BY DEF Is
<1>2. /\ Take(c) /\ SymbolsGrow(c)
      /\ stack' = stack /\ current' = current /\ refs' = refs
  BY <1>1 DEF AssignKey, SymbolsGrow
<1>3. Grows(c) /\ Places  BY <1>1, <1>2, Taken
<1>4. PICK found : found = {Assignable(l) : l \in ToSet(c.lhs)} \ {None}  OBVIOUS
<1>5. PICK was : was = keymaps[current].assigned  OBVIOUS
<1>6. PICK f : f = Assigned(was, found, c)  OBVIOUS
<1>7. Gives(f)
  BY <1>4, <1>5, <1>6 DEF AssignKey, Assigned, Gives
<1>8. IsTable(keymaps) /\ current \in DOMAIN keymaps /\ Symbols /\ References
      /\ AssignmentsInTheirBlock
  BY <1>3 DEF IInv, Places
<1>9. AssignmentsInTheirBlock'
  BY <1>1, <1>2, <1>3, <1>4, <1>5, <1>6, <1>7, <1>8, BlockAssigned
<1>10. IsTable(keymaps') /\ NamesKept
  <2>1. /\ IsTable([keymaps EXCEPT ![current].assigned = f])
        /\ DOMAIN [keymaps EXCEPT ![current].assigned = f] = DOMAIN keymaps
        /\ \A j \in DOMAIN keymaps :
             [keymaps EXCEPT ![current].assigned = f][j].name = keymaps[j].name
    BY <1>8, Reassigned
  <2> QED  BY <1>7, <2>1 DEF Gives, NamesKept
<1>11. Places'  BY <1>1, <1>2, <1>3, <1>10, PlacesQuiet
<1> QED  BY <1>1, <1>2, <1>9, <1>10, <1>11, TakenInv

\* ... and those that change it.
LEMMA EndKeymapInv ==
  ASSUME IInv, NEW c \in Is("EndKeymap"), EndKeymap(c)
  PROVE  IInv'
<1>1. c \in Commands /\ c.cmd = "EndKeymap"  BY DEF Is
<1>2. /\ Take(c) /\ SymbolsGrow(c) /\ keymaps' = keymaps /\ Popped
      /\ current' = (IF stack = <<>> THEN current ELSE Last(stack)) /\ refs' = refs
  BY <1>1 DEF EndKeymap, SymbolsGrow, Popped
<1>3. Grows(c) /\ Places  BY <1>1, <1>2, Taken
<1>4. IsTable(keymaps') /\ NamesKept /\ Extends(keymaps', keymaps)
  BY <1>2 DEF IInv, NamesKept, Extends
<1>5. AssignmentsInTheirBlock'
  <2>1. RefsGrow  BY <1>2 DEF RefsGrow
  <2>2. References /\ KnownPlaces /\ AssignmentsInTheirBlock  BY DEF IInv
  <2>3. c.cmd # "AssignKey" /\ Grows(c) /\ IsTable(keymaps') /\ Extends(keymaps', keymaps)
    BY <1>1, <1>3, <1>4
  <2> QED  BY <2>1, <2>2, <2>3, BlockKept
<1>6. /\ \E P \in Seq(Nat) : Nested(P, Len(script))'
      /\ stack # <<>> => /\ Last(stack) \in DOMAIN keymaps
                         /\ Here(AtEnd)' = keymaps[Last(stack)].name
      /\ stack = <<>> => Here(AtEnd)' = Here(AtEnd)
  BY <1>1, <1>2, <1>3, PlacesEnd
<1>7. IsList(stack)'
  <2>1. IsList(stack) /\ stack # <<>> => IsList(Front(stack))  BY FrontOf
  <2>2. CASE stack = <<>>
    <3>1. stack' = stack  BY <1>2, <2>2 DEF Popped
    <3> QED  BY <1>3, <3>1 DEF Places, IsList
  <2>3. CASE stack # <<>>
    <3>1. PICK f : f = Front(stack)  OBVIOUS
    <3>2. stack' = f /\ IsList(f)  BY <1>2, <1>3, <2>1, <2>3, <3>1 DEF Popped, Places
    <3> QED  BY <3>2 DEF IsList
  <2> QED  BY <2>2, <2>3
<1>8. current' \in DOMAIN keymaps' /\ keymaps'[current'].name = Here(AtEnd)'
  BY <1>2, <1>3, <1>6 DEF Places
<1>9. Places'  BY <1>6, <1>7, <1>8 DEF Places
<1> QED  BY <1>1, <1>2, <1>4, <1>5, <1>9, TakenInv
\* It may create two keymaps, and replace the default and the parent of one.
LEMMA DefKeymapInv ==
  ASSUME IInv, NEW c \in Is("DefKeymap"), DefKeymap(c)
  PROVE  IInv'
<1> DEFINE own == AddKeymap(keymaps, c.name)
           all == IF c.parent = "" THEN own ELSE AddKeymap(own, c.parent)
           km == KeymapNamed(all, c.name)
           implied == KeySeqRef(c.default) = 0
           def == IF implied THEN AddedSeq(seqs, c.name) ELSE KeySeqRef(c.default)
           par == KeymapNamed(all, c.parent)
<1>1. c \in Commands /\ c.cmd = "DefKeymap"  BY DEF Is
<1>2. /\ Take(c) /\ SymbolsGrow(c) /\ refs' = refs
      /\ keymaps' = IF all[km].def # 0 THEN all
                    ELSE [all EXCEPT ![km].def = def, ![km].parent = par]
      /\ stack' = IF c.scope = "Block" THEN Append(stack, current) ELSE stack
      /\ current' = IF c.scope = "Declare" THEN current ELSE km
  BY <1>1 DEF DefKeymap, SymbolsGrow
<1>3. Grows(c) /\ Places  BY <1>1, <1>2, Taken
<1> HIDE DEF def, par
<1>4. /\ IsTable(own) /\ Extends(own, keymaps)
      /\ \E k \in DOMAIN own : own[k].name = c.name
  <2>1. IsTable(keymaps)  BY DEF IInv
  <2> QED  BY <2>1, Added
<1> HIDE DEF own
<1>5. IsTable(all) /\ Extends(all, own)
  <2>1. Extends(own, own)  BY DEF Extends
  <2> QED  BY <1>4, <2>1, Added
<1> HIDE DEF all
<1>6. km \in DOMAIN all /\ all[km].name = c.name
  <2>1. \E k \in DOMAIN all : all[k].name = c.name  BY <1>4, <1>5 DEF Extends
  <2> QED  BY <1>5, <2>1, KeymapNamedIs
<1> HIDE DEF km
<1>7. Keeps(keymaps', all)
  <2>1. CASE all[km].def # 0
    <3>1. keymaps' = all  BY <1>2, <2>1
    <3> QED  BY <1>5, <3>1 DEF Keeps
  <2>2. CASE ~(all[km].def # 0)
    <3> DEFINE mid == [all EXCEPT ![km].def = def]
    <3>1. keymaps' = [all EXCEPT ![km].def = def, ![km].parent = par]  BY <1>2, <2>2
    <3>2. [all EXCEPT ![km].def = def, ![km].parent = par] = [mid EXCEPT ![km].parent = par]
      OBVIOUS
    <3>3. Keeps(mid, all)  BY <1>5, <1>6, FieldReplaced
    <3> HIDE DEF mid
    <3>4. IsTable(mid) /\ km \in DOMAIN mid  BY <1>6, <3>3 DEF Keeps
    <3>5. Keeps([mid EXCEPT ![km].parent = par], mid)  BY <3>4, FieldReplaced
    <3>6. Keeps([mid EXCEPT ![km].parent = par], all)  BY <3>3, <3>5, KeepsTwice
    <3> QED  BY <3>1, <3>2, <3>6
  <2> QED  BY <2>1, <2>2
<1>8. /\ IsTable(keymaps') /\ Extends(keymaps', keymaps)
      /\ km \in DOMAIN keymaps' /\ keymaps'[km].name = c.name
  <2>1. Extends(all, keymaps)  BY <1>4, <1>5, ExtendsTwice
  <2> QED  BY <1>6, <1>7, <2>1 DEF Keeps, Extends
<1>9. NamesKept  BY <1>8 DEF Extends, NamesKept
<1>10. AssignmentsInTheirBlock'
  <2>1. RefsGrow  BY <1>2 DEF RefsGrow
  <2>2. References /\ KnownPlaces /\ AssignmentsInTheirBlock  BY DEF IInv
  <2> QED  BY <1>1, <1>3, <1>8, <2>1, <2>2, BlockKept
<1>11. \E P \in Seq(Nat) : Nested(P, Len(script))'
  <2>1. CASE c.scope = "Block"
    <3>1. Pushed /\ Opens(c)  BY <1>1, <1>2, <2>1 DEF Pushed, Opens
    <3> QED  BY <1>3, <1>9, <3>1, PlacesOpen
  <2>2. CASE c.scope # "Block"
    <3>1. stack' = stack /\ ~Opens(c) /\ c.cmd # "EndKeymap"  BY <1>1, <1>2, <2>2 DEF Opens
    <3> QED  BY <1>3, <1>9, <3>1, PlacesStay
  <2> QED  BY <2>1, <2>2
<1>12. IsList(stack)'
  <2>1. IsList(stack) /\ IsList(Append(stack, current))  BY <1>3, AppendedTo DEF Places
  <2>2. PICK f : f = stack'  OBVIOUS
  <2>3. IsList(f)  BY <1>2, <2>1, <2>2
  <2> QED  BY <2>2, <2>3 DEF IsList
<1>13. current' \in DOMAIN keymaps' /\ keymaps'[current'].name = Here(AtEnd)'
  <2>1. PICK n \in Nat : n = Len(script)  BY <1>3, Grown
  <2>2. AtEnd = n + 1 /\ AtEnd' = n + 2  BY <1>3, <2>1, Grown
  <2>3. Here(n + 2)' = IF c.scope # "Declare" THEN c.name ELSE Here(n + 1)
    BY <1>1, <1>3, <2>1, HereStays
  <2>4. current \in DOMAIN keymaps /\ keymaps[current].name = Here(n + 1)
    BY <1>3, <2>2 DEF Places
  <2> QED  BY <1>2, <1>8, <1>9, <2>2, <2>3, <2>4 DEF NamesKept
<1>14. Places'  BY <1>11, <1>12, <1>13 DEF Places
<1> QED  BY <1>1, <1>2, <1>8, <1>9, <1>10, <1>14, TakenInv

\* With no script there is nothing to say.
LEMMA NoScript ==
  ASSUME script = <<>>
  PROVE  /\ script \in Seq(Commands) /\ Len(script) = 0 /\ AtEnd = 1
         /\ \A kind : At(kind) = {}
         /\ Here(1) = "Global" /\ Blocks(1, 0) = {}
         /\ \A x : ~Defined(x, 1) /\ AliasesOf(x, 1) = {}
         /\ \A nm, x : About(nm, x) = {}
<1>1. script \in Seq(Commands) /\ Len(script) = 0 /\ AtEnd = 1  BY DEF AtEnd
<1>2. \A kind : At(kind) = {}  BY DEF At
<1>3. InEffect(1) = {} /\ Blocks(1, 0) = {}  BY <1>2 DEF InEffect, Blocks
<1>4. Here(1) = "Global"  BY <1>3, HereIs
<1>5. \A x : ~Defined(x, 1) /\ AliasesOf(x, 1) = {}  BY <1>2 DEF Defined, AliasesOf
<1>6. \A nm, x : About(nm, x) = {}  BY <1>2 DEF About
<1> QED  BY <1>1, <1>2, <1>3, <1>4, <1>5, <1>6

Blank ==
  /\ script = <<>> /\ keys = {} /\ aliases = <<>> /\ refs = <<>> /\ IsTable(keymaps)
  /\ \A k \in DOMAIN keymaps : keymaps[k].assigned = <<>>

\* A block that just began: one keymap, or none before the first one.
LEMMA EmptyInv ==
  Blank => /\ script \in Seq(Commands)
           /\ IsTable(keymaps) /\ Symbols /\ References /\ KnownPlaces
           /\ AssignmentsInTheirBlock
           /\ Here(1) = "Global" /\ Blocks(1, 0) = {} /\ Len(script) = 0 /\ AtEnd = 1
<1> SUFFICES ASSUME Blank
             PROVE  Symbols /\ References /\ KnownPlaces /\ AssignmentsInTheirBlock
  BY NoScript DEF Blank
<1> USE DEF Blank
<1>1. Symbols  BY NoScript DEF Symbols
<1>2. References
  <2>1. IsList(<<>>) /\ Len(<<>>) = 0
    <3>1. <<>> \in Seq({})  OBVIOUS
    <3> QED  BY <3>1, SeqFacts
  <2>2. Cardinality({}) = 0  BY FS_EmptySet
  <2> QED  BY <2>1, <2>2, NoScript DEF References
<1>3. KnownPlaces  BY NoScript DEF KnownPlaces
<1>4. ASSUME NEW k \in DOMAIN keymaps PROVE Holds(keymaps[k].name, keymaps[k].assigned)
  <2>1. \A x : x \notin DOMAIN keymaps[k].assigned  OBVIOUS
  <2> QED  BY <2>1, NoScript DEF Holds
<1>5. AssignmentsInTheirBlock  BY <1>4, BlockIs
<1> QED  BY <1>1, <1>2, <1>3, <1>5

\* The program starts with no block.
LEMMA InitInv == Init => IInv
<1> SUFFICES ASSUME Init PROVE IInv  OBVIOUS
<1>1. IsTable(keymaps) /\ \A k \in DOMAIN keymaps : keymaps[k].assigned = <<>>
  <2>1. IsList(<<>>)
    <3>1. <<>> \in Seq({})  OBVIOUS
    <3> QED  BY <3>1, SeqFacts
  <2>2. keymaps = <<>>  BY DEF Init
  <2> QED  BY <2>1, <2>2 DEF IsTable
<1>2. script = <<>> /\ keys = {} /\ aliases = <<>> /\ refs = <<>> /\ open = FALSE  BY DEF Init
<1> QED  BY <1>1, <1>2, EmptyInv DEF Blank, IInv
\* Reset begins one, whatever came before.
LEMMA ResetInv ==
  ASSUME Reset
  PROVE  IInv'
<1>1. PICK k : k = NewKeymap("Global", 1)  OBVIOUS
<1>2. /\ script' = <<>> /\ keys' = {} /\ aliases' = <<>> /\ refs' = <<>>
      /\ keymaps' = <<k>> /\ current' = 1 /\ stack' = <<>>
  BY <1>1 DEF Reset, Started, Global
<1>3. IsKeymap(k) /\ k.assigned = <<>> /\ k.name = "Global"
  BY <1>1 DEF NewKeymap, IsKeymap
<1>4. IsTable(keymaps)' /\ (\A j \in DOMAIN keymaps : keymaps[j].assigned = <<>>)'
  <2>1. <<k>> \in Seq({k})  OBVIOUS
  <2>2. IsList(<<k>>) /\ DOMAIN <<k>> = {1} /\ <<k>>[1] = k
    <3>1. IsList(<<k>>)  BY <2>1, SeqFacts
    <3>2. DOMAIN <<k>> = {1} /\ <<k>>[1] = k  OBVIOUS
    <3> QED  BY <3>1, <3>2
  <2>3. IsTable(<<k>>) /\ \A j \in DOMAIN <<k>> : <<k>>[j].assigned = <<>>
    BY <1>3, <2>2 DEF IsTable
  <2>4. PICK kms : kms = <<k>>  OBVIOUS
  <2>5. keymaps' = kms /\ IsTable(kms) /\ \A j \in DOMAIN kms : kms[j].assigned = <<>>
    BY <1>2, <2>3, <2>4
  <2> QED  BY <2>5 DEF IsTable, IsList
<1>5. Blank'  BY <1>2, <1>4 DEF Blank
<1>6. (/\ script \in Seq(Commands)
       /\ IsTable(keymaps) /\ Symbols /\ References /\ KnownPlaces
       /\ AssignmentsInTheirBlock
       /\ Here(1) = "Global" /\ Blocks(1, 0) = {} /\ Len(script) = 0 /\ AtEnd = 1)'
  BY <1>5, EmptyInv, PTL
<1>8. Places'
  <2>1. IsList(stack)'
    <3>1. <<>> \in Seq({})  OBVIOUS
    <3>2. IsList(<<>>)  BY <3>1, SeqFacts
    <3> QED  BY <1>2, <3>2 DEF IsList
  <2>2. current' \in DOMAIN keymaps' /\ keymaps'[current'].name = Here(AtEnd)'
    BY <1>2, <1>3, <1>6
  <2>3. <<>> \in Seq(Nat) /\ Nested(<<>>, Len(script))'
    BY <1>2, <1>6 DEF Nested
  <2> QED  BY <2>1, <2>2, <2>3 DEF Places
<1> QED  BY <1>6, <1>8 DEF IInv

\* What the script says depends on the script alone, and on the index table.
LEMMA SameScript ==
  ASSUME script' = script, refs' = refs
  PROVE  /\ AtEnd' = AtEnd /\ \A kind : At(kind)' = At(kind)
         /\ \A a, b : Blocks(a, b)' = Blocks(a, b) /\ Ends(a, b)' = Ends(a, b)
         /\ \A i : Here(i)' = Here(i)
         /\ \A x, i : (Defined(x, i)' <=> Defined(x, i)) /\ AliasesOf(x, i)' = AliasesOf(x, i)
         /\ \A nm, f : Holds(nm, f)' <=> Holds(nm, f)
<1>1. \A kind : At(kind)' = At(kind)  BY DEF At
<1>2. \A a, b : Blocks(a, b)' = Blocks(a, b) /\ Ends(a, b)' = Ends(a, b)
  BY <1>1 DEF Blocks, Ends
<1>3. \A b, e : Closes(b, e)' <=> Closes(b, e)  BY <1>2 DEF Closes
<1>4. \A j, i : Left(j, i)' <=> Left(j, i)  BY <1>2, <1>3 DEF Left
<1>5. \A i : InEffect(i)' = InEffect(i)  BY <1>1, <1>4 DEF InEffect
<1>6. \A i : Here(i)' = Here(i)  BY <1>5, HereIs, HereIsNext
<1>7. \A x, i : Defined(x, i)' <=> Defined(x, i)  BY <1>1 DEF Defined
<1>8. ASSUME NEW x, NEW i PROVE AliasesOf(x, i)' = AliasesOf(x, i)
  <2>1. \A j \in At("DefAlias") : Defined(script[j].key, j)' <=> Defined(script[j].key, j)
    <3> TAKE j \in At("DefAlias")
    <3>1. PICK y : y = script[j].key  OBVIOUS
    <3>2. Defined(y, j)' <=> Defined(y, j)  BY <1>7
    <3> QED  BY <3>1, <3>2 DEF Defined
  <2> QED  BY <1>1, <2>1 DEF AliasesOf
<1>9. \A x, i : Denotes(x, i)' = Denotes(x, i)
  BY <1>7, <1>8, DenotesIs, DenotesIsNext
<1>10. \A x, i : Target(x, i)' = Target(x, i)  BY <1>9 DEF Target
<1>11. \A i : Targets(i)' = Targets(i)  BY <1>10 DEF Targets
<1>12. \A nm, x : About(nm, x)' = About(nm, x)  BY <1>1, <1>6, <1>11 DEF About
<1>13. \A idx, i : Denoted(idx, i)' = Denoted(idx, i)  BY <1>1 DEF Denoted
<1>14. ASSUME NEW nm, NEW f PROVE Holds(nm, f)' <=> Holds(nm, f)
  <2>1. \A x : Denoted(script[Max(About(nm, x))].rhs, Max(About(nm, x)))'
                 = Denoted(script[Max(About(nm, x))].rhs, Max(About(nm, x)))
    <3> TAKE x
    <3>1. PICK m : m = Max(About(nm, x))  OBVIOUS
    <3>2. PICK idx : idx = script[m].rhs  OBVIOUS
    <3>3. Denoted(idx, m)' = Denoted(idx, m)  BY <1>13
    <3>4. m = Max(About(nm, x)') /\ idx = script'[m].rhs  BY <1>12, <3>1, <3>2
    <3> QED  BY <3>1, <3>2, <3>3, <3>4
  <2> QED  BY <1>12, <2>1 DEF Holds
<1>15. AtEnd' = AtEnd  BY DEF AtEnd
<1> QED  BY <1>1, <1>2, <1>6, <1>7, <1>8, <1>14, <1>15

\* Nothing that the script says is taken back or added.
LEMMA SameScriptInv ==
  ASSUME IInv, Keeps(keymaps', keymaps),
         script' = script, keys' = keys, aliases' = aliases, refs' = refs,
         open' => Places'
  PROVE  IInv'
<1>1. /\ AtEnd' = AtEnd /\ \A kind : At(kind)' = At(kind)
      /\ \A i : Here(i)' = Here(i)
      /\ \A x, i : (Defined(x, i)' <=> Defined(x, i)) /\ AliasesOf(x, i)' = AliasesOf(x, i)
      /\ \A nm, f : Holds(nm, f)' <=> Holds(nm, f)
  BY SameScript
<1>2. IsTable(keymaps') /\ DOMAIN keymaps' = DOMAIN keymaps
      /\ \A k \in DOMAIN keymaps : /\ keymaps'[k].name = keymaps[k].name
                                   /\ keymaps'[k].assigned = keymaps[k].assigned
  BY DEF Keeps
<1>3. KnownPlaces'  BY <1>1, <1>2 DEF IInv, KnownPlaces
<1>4. References'  BY <1>1 DEF IInv, References, IsList
<1>5. PICK e : e = AtEnd  OBVIOUS
<1>6. Symbols'
  <2>1. /\ \A x : x \in keys <=> Defined(x, e)
        /\ \A x : x \in DOMAIN aliases <=> AliasesOf(x, e) # {}
        /\ \A x \in DOMAIN aliases : aliases[x] = script[Min(AliasesOf(x, e))].key
    BY <1>5 DEF IInv, Symbols
  <2>2. /\ \A x : x \in keys' <=> Defined(x, e)'
        /\ \A x : x \in DOMAIN aliases' <=> AliasesOf(x, e)' # {}
        /\ \A x \in DOMAIN aliases' : aliases'[x] = script'[Min(AliasesOf(x, e)')].key
    BY <1>1, <2>1
  <2> QED  BY <1>1, <1>5, <2>2 DEF Symbols
<1>7. AssignmentsInTheirBlock'
  <2>1. \A k \in DOMAIN keymaps : Holds(keymaps[k].name, keymaps[k].assigned)
    BY BlockIs DEF IInv
  <2>2. ASSUME NEW k \in DOMAIN keymaps', NEW nm, NEW f,
               nm = keymaps'[k].name, f = keymaps'[k].assigned
        PROVE  Holds(nm, f)'
    BY <1>1, <1>2, <2>1, <2>2
  <2>3. (\A k \in DOMAIN keymaps : Holds(keymaps[k].name, keymaps[k].assigned))'
    BY <2>2
  <2>4. AssignmentsInTheirBlock' <=>
          (\A k \in DOMAIN keymaps : Holds(keymaps[k].name, keymaps[k].assigned))'
    BY BlockIs, PTL
  <2> QED  BY <2>3, <2>4
<1> QED  BY <1>2, <1>3, <1>4, <1>6, <1>7 DEF IInv
\* What does not touch any of this keeps it.
LEMMA UnchangedInv ==
  ASSUME IInv, script' = script, keymaps' = keymaps, keys' = keys, aliases' = aliases,
         refs' = refs, open' = open, stack' = stack, current' = current
  PROVE  IInv'
<1>1. Keeps(keymaps', keymaps)
  <2>1. PICK kms : kms = keymaps  OBVIOUS
  <2>2. Keeps(kms, kms)  BY <2>1, KeepsItself
  <2> QED  BY <2>1, <2>2
<1>2. ASSUME Places PROVE Places'
  <2>1. /\ AtEnd' = AtEnd
        /\ \A a, b : Blocks(a, b)' = Blocks(a, b) /\ Ends(a, b)' = Ends(a, b)
        /\ \A i : Here(i)' = Here(i)
    BY SameScript
  <2>2. \A a, b : Opened(a, b)' = Opened(a, b) /\ Ended(a, b)' = Ended(a, b)
    BY <2>1 DEF Opened, Ended
  <2>3. \A b, n : Unclosed(b, n)' <=> Unclosed(b, n)  BY <2>2 DEF Unclosed
  <2>4. \A P, n : Nested(P, n)' <=> Nested(P, n)  BY <2>1, <2>2, <2>3 DEF Nested
  <2>5. PICK n : n = Len(script)  OBVIOUS
  <2>6. PICK P \in Seq(Nat) : Nested(P, n)  BY <1>2, <2>5 DEF Places
  <2>7. Nested(P, n)' /\ n = Len(script')  BY <2>4, <2>5, <2>6
  <2>8. Nested(P, Len(script))'  BY <2>7 DEF Nested
  <2>9. PICK e : e = AtEnd  OBVIOUS
  <2>10. current' \in DOMAIN keymaps' /\ keymaps'[current'].name = Here(AtEnd)'
    <3>1. current \in DOMAIN keymaps /\ keymaps[current].name = Here(e)
      BY <1>2, <2>9 DEF Places
    <3>2. Here(e)' = Here(e) /\ AtEnd' = e  BY <2>1, <2>9
    <3> QED  BY <3>1, <3>2
  <2>11. IsList(stack)'  BY <1>2 DEF Places, IsList
  <2> QED  BY <2>8, <2>10, <2>11 DEF Places
<1> QED  BY <1>1, <1>2, SameScriptInv DEF IInv

\* Commit ends it: the keymaps that are folded keep their assignments.
LEMMA CommitInv ==
  ASSUME IInv, Commit
  PROVE  IInv'
<1>1. CASE Endless(Filled)
  <2>1. UNCHANGED vars \/ /\ script' = script /\ keymaps' = keymaps /\ keys' = keys
                          /\ aliases' = aliases /\ refs' = refs /\ open' = open
                          /\ stack' = stack /\ current' = current
    BY <1>1 DEF Commit, building
  <2> QED  BY <2>1, UnchangedInv DEF vars, building
<1>2. CASE ~Endless(Filled)
  <2>1. /\ script' = script /\ keys' = keys /\ aliases' = aliases /\ refs' = refs
        /\ open' = FALSE /\ keymaps' = AdjustAll(keymaps)
    BY <1>2 DEF Commit, CommitTables
  <2>2. Keeps(AdjustAll(keymaps), keymaps)  BY AdjustKeeps DEF IInv
  <2> QED  BY <2>1, <2>2, SameScriptInv
<1> QED  BY <1>1, <1>2

\* The invariant is inductive.
LEMMA StepInv == IInv /\ [Next]_vars => IInv'
<1> SUFFICES ASSUME IInv, [Next]_vars PROVE IInv'  OBVIOUS
<1>1. CASE UNCHANGED vars
  BY <1>1, UnchangedInv DEF vars, building
<1>2. CASE Reset
  BY <1>2, ResetInv
<1>3. CASE Commit
  BY <1>3, CommitInv
<1>4. CASE \/ \E c \in Is("RegKeySeq") : RegKeySeq(c)
           \/ \E c \in Is("DefKey") : DefKey(c)
           \/ \E c \in Is("DefAlias") : DefAlias(c)
           \/ \E c \in Is("DefMod") : DefMod(c)
           \/ \E c \in Is("DefSubst") : DefSubst(c)
           \/ \E c \in Is("NlsKeys") : NlsKeys(c)
  BY <1>4, RegKeySeqInv, DefKeyInv, DefAliasInv, DefModInv, DefSubstInv, NlsKeysInv
<1>5. CASE \/ \E c \in Is("DefKeymap") : DefKeymap(c)
           \/ \E c \in Is("EndKeymap") : EndKeymap(c)
           \/ \E c \in Is("AssignKey") : AssignKey(c)
           \/ \E c \in Is("AssignMod") : AssignMod(c)
  BY <1>5, DefKeymapInv, EndKeymapInv, AssignKeyInv, AssignModInv
<1> QED  BY <1>1, <1>2, <1>3, <1>4, <1>5 DEF Next

(***************************************************************************)
(* The inductive invariant holds throughout.                               *)
(***************************************************************************)
THEOREM Inductive == Spec => []IInv
BY InitInv, StepInv, PTL DEF Spec

(***************************************************************************)
(* Whatever a script sends, an assignment is found in the keymap of the    *)
(* innermost statement it stands under, and only there.                    *)
(***************************************************************************)
THEOREM InTheirBlock == Spec => []AssignmentsInTheirBlock
<1>1. IInv => AssignmentsInTheirBlock  BY DEF IInv
<1> QED  BY <1>1, Inductive, PTL
-----------------------------------------------------------------------------
(* Sequences put into one. *)

\* What is known of two sequences one after the other.
LEMMA Joined ==
  ASSUME NEW s, NEW t, IsList(s), IsList(t)
  PROVE  /\ IsList(s \o t) /\ Len(s) \in Nat /\ Len(t) \in Nat
         /\ DOMAIN s = 1..Len(s) /\ DOMAIN t = 1..Len(t)
         /\ DOMAIN (s \o t) = 1..(Len(s) + Len(t))
         /\ \A n \in 1..Len(s) : (s \o t)[n] = s[n]
         /\ \A n \in 1..Len(t) : (s \o t)[Len(s) + n] = t[n]
<1> DEFINE S == ToSet(s) \cup ToSet(t)
<1>1. s \in Seq(S) /\ t \in Seq(S)
  <2>1. s \in Seq(ToSet(s)) /\ ToSet(s) \subseteq S  BY DEF IsList
  <2>2. t \in Seq(ToSet(t)) /\ ToSet(t) \subseteq S  BY DEF IsList
  <2> HIDE DEF S
  <2> QED  BY <2>1, <2>2, SeqMonotonic
<1> HIDE DEF S
<1>2. /\ s \o t \in Seq(S) /\ Len(s \o t) = Len(s) + Len(t)
      /\ \A n \in 1..Len(s) : (s \o t)[n] = s[n]
      /\ \A n \in 1..Len(t) : (s \o t)[Len(s) + n] = t[n]
  BY <1>1
<1>3. IsList(s \o t) /\ DOMAIN (s \o t) = 1..Len(s \o t)  BY <1>2, SeqFacts
<1>4. /\ Len(s) \in Nat /\ DOMAIN s = 1..Len(s)
      /\ Len(t) \in Nat /\ DOMAIN t = 1..Len(t)
  BY <1>1, SeqFacts
<1> QED  BY <1>2, <1>3, <1>4

\* F is the first k sequences of q in one: o says which one an element is of.
Flat(q, k, F) ==
  /\ IsList(F)
  /\ (\A i \in 1..k : Len(q[i]) <= 1) => Len(F) <= k
  /\ \E o \in [DOMAIN F -> 1..k] :
       /\ \A m, n \in DOMAIN F : m <= n => o[m] <= o[n]
       /\ \A n \in DOMAIN F : F[n] \in ToSet(q[o[n]])
       /\ \A i \in 1..k : \A e \in ToSet(q[i]) : \E n \in DOMAIN F : o[n] = i /\ F[n] = e

\* ... with one sequence more.
LEMMA FlatMore ==
  ASSUME NEW q, NEW k \in Nat, NEW F, Flat(q, k, F), IsList(q[k + 1])
  PROVE  Flat(q, k + 1, F \o q[k + 1])
<1> DEFINE t == q[k + 1]
           G == F \o t
<1>1. PICK o \in [DOMAIN F -> 1..k] :
        /\ \A m, n \in DOMAIN F : m <= n => o[m] <= o[n]
        /\ \A n \in DOMAIN F : F[n] \in ToSet(q[o[n]])
        /\ \A i \in 1..k : \A e \in ToSet(q[i]) : \E n \in DOMAIN F : o[n] = i /\ F[n] = e
  BY DEF Flat
<1>2. /\ IsList(G) /\ Len(F) \in Nat /\ Len(t) \in Nat
      /\ DOMAIN F = 1..Len(F) /\ DOMAIN t = 1..Len(t)
      /\ DOMAIN G = 1..(Len(F) + Len(t))
      /\ \A n \in 1..Len(F) : G[n] = F[n]
      /\ \A n \in 1..Len(t) : G[Len(F) + n] = t[n]
  BY Joined DEF Flat
<1> HIDE DEF G
<1> DEFINE p == [n \in DOMAIN G |-> IF n \in 1..Len(F) THEN o[n] ELSE k + 1]
<1>3. \A n \in 1..Len(F) : n \in DOMAIN G /\ p[n] = o[n] /\ o[n] \in 1..k  BY <1>2
<1>4. ASSUME NEW n \in DOMAIN G, n \notin 1..Len(F)
      PROVE  /\ p[n] = k + 1 /\ n > Len(F) /\ n - Len(F) \in 1..Len(t)
             /\ G[n] = t[n - Len(F)]
  <2>1. n > Len(F) /\ n - Len(F) \in 1..Len(t) /\ n = Len(F) + (n - Len(F))  BY <1>2, <1>4
  <2>2. G[Len(F) + (n - Len(F))] = t[n - Len(F)]  BY <1>2, <2>1
  <2> QED  BY <1>4, <2>1, <2>2
<1>5. p \in [DOMAIN G -> 1..(k + 1)]
  <2>1. \A n \in DOMAIN G : p[n] \in 1..(k + 1)
    <3> TAKE n \in DOMAIN G
    <3>1. CASE n \in 1..Len(F)  BY <1>3, <3>1
    <3>2. CASE n \notin 1..Len(F)  BY <1>4, <3>2
    <3> QED  BY <3>1, <3>2
  <2> QED  BY <2>1
<1> HIDE DEF p
<1>6. ASSUME NEW m \in DOMAIN G, NEW n \in DOMAIN G, m <= n PROVE p[m] <= p[n]
  <2>1. CASE n \in 1..Len(F)
    <3>1. m \in 1..Len(F)  BY <1>2, <1>6, <2>1
    <3> QED  BY <1>1, <1>2, <1>3, <1>6, <2>1, <3>1
  <2>2. CASE n \notin 1..Len(F)
    <3>1. p[m] \in 1..(k + 1) /\ p[n] = k + 1  BY <1>4, <1>5, <2>2
    <3> QED  BY <3>1
  <2> QED  BY <2>1, <2>2
<1>7. ASSUME NEW n \in DOMAIN G PROVE G[n] \in ToSet(q[p[n]])
  <2>1. CASE n \in 1..Len(F)  BY <1>1, <1>2, <1>3, <2>1
  <2>2. CASE n \notin 1..Len(F)
    <3>1. p[n] = k + 1 /\ G[n] = t[n - Len(F)] /\ n - Len(F) \in DOMAIN t
      BY <1>2, <1>4, <2>2
    <3> QED  BY <3>1 DEF ToSet
  <2> QED  BY <2>1, <2>2
<1>8. ASSUME NEW i \in 1..(k + 1), NEW e \in ToSet(q[i])
      PROVE  \E n \in DOMAIN G : p[n] = i /\ G[n] = e
  <2>1. CASE i \in 1..k
    <3>1. PICK n \in DOMAIN F : o[n] = i /\ F[n] = e  BY <1>1, <2>1
    <3> QED  BY <1>2, <1>3, <3>1
  <2>2. CASE i = k + 1
    <3>1. PICK j \in DOMAIN t : t[j] = e  BY <2>2 DEF ToSet
    <3>2. /\ Len(F) + j \in DOMAIN G /\ Len(F) + j \notin 1..Len(F)
          /\ G[Len(F) + j] = e
      BY <1>2, <3>1
    <3>3. p[Len(F) + j] = i  BY <1>4, <2>2, <3>2
    <3> QED  BY <3>2, <3>3
  <2> QED  BY <2>1, <2>2
<1>9. (\A i \in 1..(k + 1) : Len(q[i]) <= 1) => Len(G) <= k + 1
  <2> SUFFICES ASSUME \A i \in 1..(k + 1) : Len(q[i]) <= 1 PROVE Len(G) <= k + 1  OBVIOUS
  <2>1. Len(F) <= k  BY DEF Flat
  <2>2. Len(t) <= 1  OBVIOUS
  <2>3. Len(G) = Len(F) + Len(t)
    <3>1. G \in Seq(ToSet(G))  BY <1>2 DEF IsList
    <3>2. Len(G) \in Nat /\ DOMAIN G = 1..Len(G)  BY <3>1, SeqFacts
    <3> QED  BY <1>2, <3>2
  <2> QED  BY <1>2, <2>1, <2>2, <2>3
<1>10. Flat(q, k + 1, G)  BY <1>2, <1>5, <1>6, <1>7, <1>8, <1>9 DEF Flat
<1> QED  BY <1>10 DEF G

\* FlattenSeq() puts all of them in one.
LEMMA Flattened ==
  ASSUME NEW q, IsList(q), \A i \in DOMAIN q : IsList(q[i])
  PROVE  Flat(q, Len(q), FlattenSeq(q))
<1> DEFINE N == Len(q)
<1>0. q \in Seq(ToSet(q))  BY DEF IsList
<1>a. N \in Nat /\ DOMAIN q = 1..N  BY <1>0, SeqFacts
<1>1. CASE N = 0
  <2>1. FlattenSeq(q) = q  BY <1>1 DEF FlattenSeq
  <2>2. DOMAIN q = {} /\ 1..N = {}  BY <1>a, <1>1
  <2>3. [n \in DOMAIN q |-> n] \in [DOMAIN q -> 1..N]  BY <2>2
  <2>4. Flat(q, N, q)
    <3>1. (\A i \in 1..N : Len(q[i]) <= 1) => Len(q) <= N  BY <1>1
    <3> DEFINE o == [n \in DOMAIN q |-> n]
    <3>2. o \in [DOMAIN q -> 1..N]  BY <2>3
    <3> HIDE DEF N, o
    <3>3. /\ \A m, n \in DOMAIN q : m <= n => o[m] <= o[n]
          /\ \A n \in DOMAIN q : q[n] \in ToSet(q[o[n]])
          /\ \A i \in 1..N : \A e \in ToSet(q[i]) : \E n \in DOMAIN q : o[n] = i /\ q[n] = e
      BY <2>2
    <3> QED  BY <3>1, <3>2, <3>3 DEF Flat
  <2> QED  BY <2>1, <2>4
<1>2. CASE N # 0
  <2> DEFINE at(f, i) == IF i = 1 THEN q[i] ELSE f[i - 1] \o q[i]
             Good(f, n) == f = [i \in 1..n |-> at(f, i)]
             K == CHOOSE f : Good(f, N)
  <2>1. \E f : Good(f, N)
    <3> DEFINE T == {n \in Nat : \E f : Good(f, n)}
    <3>1. 0 \in T
      <4> DEFINE f == [i \in 1..0 |-> 0]
      <4>1. Good(f, 0)  OBVIOUS
      <4> QED  BY <4>1
    <3>2. ASSUME NEW n \in Nat, n \in T PROVE n + 1 \in T
      <4>1. PICK f : Good(f, n)  BY <3>2
      <4> HIDE DEF at
      <4>a. \A i \in 1..n : f[i] = at(f, i)  BY <4>1
      <4> DEFINE g == [i \in 1..(n + 1) |-> IF i \in 1..n THEN f[i] ELSE at(f, n + 1)]
      <4>2. ASSUME NEW i \in 1..(n + 1) PROVE g[i] = at(g, i)
        <5>1. CASE i = 1 /\ n # 0
          <6>1. g[i] = f[i] /\ f[i] = at(f, i)  BY <4>a, <5>1
          <6> QED  BY <5>1, <6>1 DEF at
        <5>2. CASE i = 1 /\ n = 0
          <6>1. g[i] = at(f, i)  BY <5>2
          <6> QED  BY <5>2, <6>1 DEF at
        <5>3. CASE i # 1 /\ i \in 1..n
          <6>1. f[i] = at(f, i)  BY <4>a, <5>3
          <6>2. g[i] = f[i] /\ g[i - 1] = f[i - 1]  BY <5>3
          <6> QED  BY <5>3, <6>1, <6>2 DEF at
        <5>4. CASE i # 1 /\ i = n + 1
          <6>1. g[i] = at(f, i) /\ g[i - 1] = f[i - 1]  BY <5>4
          <6> QED  BY <5>4, <6>1 DEF at
        <5> QED  BY <5>1, <5>2, <5>3, <5>4
      <4>3. g = [i \in 1..(n + 1) |-> g[i]]  OBVIOUS
      <4>4. Good(g, n + 1)  BY <4>2, <4>3
      <4> HIDE DEF Good, g
      <4> QED  BY <4>4
    <3>3. N \in T  BY <1>a, <3>1, <3>2, NumbersIn
    <3> QED  BY <3>3
  <2>2. Good(K, N)  BY <2>1
  <2>3. FlattenSeq(q) = K[N]  BY <1>2 DEF FlattenSeq
  <2> HIDE DEF K
  <2>4. \A i \in 1..N : K[i] = at(K, i)  BY <2>2
  <2> DEFINE T == {n \in Nat : n + 1 <= N => Flat(q, n + 1, K[n + 1])}
  <2>5. 0 \in T
    <3>1. 1 \in 1..N /\ 0 + 1 = 1  BY <1>a, <1>2
    <3>2. K[1] = q[1] /\ IsList(q[1])  BY <1>a, <2>4, <3>1
    <3>3. DOMAIN q[1] = 1..Len(q[1])
      <4>1. q[1] \in Seq(ToSet(q[1]))  BY <3>2 DEF IsList
      <4> QED  BY <4>1, SeqFacts
    <3>4. [n \in DOMAIN q[1] |-> 1] \in [DOMAIN q[1] -> 1..1]  OBVIOUS
    <3>5. Flat(q, 1, q[1])
      <4> DEFINE o == [n \in DOMAIN q[1] |-> 1]
      <4>1. \A n \in DOMAIN q[1] : o[n] = 1  OBVIOUS
      <4>2. \A i \in 1..1 : i = 1  OBVIOUS
      <4>3. \A n \in DOMAIN q[1] : q[1][n] \in ToSet(q[o[n]])  BY <4>1 DEF ToSet
      <4>4. \A i \in 1..1 : \A e \in ToSet(q[i]) : \E n \in DOMAIN q[1] : o[n] = i /\ q[1][n] = e
        BY <4>1, <4>2 DEF ToSet
      <4>5. \A m, n \in DOMAIN q[1] : m <= n => o[m] <= o[n]  BY <4>1
      <4>6. (\A i \in 1..1 : Len(q[i]) <= 1) => Len(q[1]) <= 1  BY <4>2
      <4> HIDE DEF o
      <4> QED  BY <3>2, <3>4, <4>3, <4>4, <4>5, <4>6 DEF Flat, o
    <3> QED  BY <3>1, <3>2, <3>5
  <2>6. ASSUME NEW n \in Nat, n \in T PROVE n + 1 \in T
    <3> SUFFICES ASSUME (n + 1) + 1 <= N PROVE Flat(q, (n + 1) + 1, K[(n + 1) + 1])  OBVIOUS
    <3>0. PICK m \in Nat : m = n + 1  OBVIOUS
    <3>1. Flat(q, m, K[m])  BY <1>a, <2>6, <3>0
    <3>2. K[m + 1] = K[m] \o q[m + 1] /\ IsList(q[m + 1])
      <4>1. m + 1 \in 1..N /\ m + 1 # 1 /\ (m + 1) - 1 = m  BY <1>a, <3>0
      <4>2. K[m + 1] = at(K, m + 1)  BY <2>4, <4>1
      <4> QED  BY <1>a, <4>1, <4>2
    <3>3. Flat(q, m + 1, K[m] \o q[m + 1])  BY <3>1, <3>2, FlatMore
    <3> QED  BY <3>0, <3>2, <3>3
  <2>7. Nat \subseteq T
    <3> HIDE DEF T
    <3> QED  BY <2>5, <2>6, NumbersIn
  <2>8. N - 1 \in Nat /\ (N - 1) + 1 = N  BY <1>a, <1>2
  <2>9. Flat(q, N, K[N])  BY <2>7, <2>8
  <2> QED  BY <2>3, <2>9
<1> QED  BY <1>1, <1>2

\* the elements of F for x, and the sequences that have one
Found(F, x) == {n \in DOMAIN F : F[n].lhs = x}
From(q, x) == {i \in DOMAIN q : \E e \in ToSet(q[i]) : e.lhs = x}

\* The last element for x is of the last sequence that has one.
LEMMA LastOf ==
  ASSUME NEW q, IsList(q), NEW F, Flat(q, Len(q), F), NEW x,
         NEW found, found = Found(F, x), NEW from, from = From(q, x)
  PROVE  /\ found = {} <=> from = {}
         /\ found # {} => /\ Max(from) \in from /\ \A i \in from : i <= Max(from)
                          /\ F[Max(found)] \in ToSet(q[Max(from)])
<1> DEFINE N == Len(q)
<1>1. N \in Nat /\ DOMAIN q = 1..N
  <2>1. q \in Seq(ToSet(q))  BY DEF IsList
  <2> QED  BY <2>1, SeqFacts
<1>2. PICK o \in [DOMAIN F -> 1..N] :
        /\ \A m, n \in DOMAIN F : m <= n => o[m] <= o[n]
        /\ \A n \in DOMAIN F : F[n] \in ToSet(q[o[n]])
        /\ \A i \in 1..N : \A e \in ToSet(q[i]) : \E n \in DOMAIN F : o[n] = i /\ F[n] = e
  BY DEF Flat
<1> USE DEF Found, From
<1>3. \A n \in found : o[n] \in from  BY <1>1, <1>2
<1>4. \A i \in from : \E n \in found : o[n] = i
  <2> TAKE i \in from
  <2>1. PICK e \in ToSet(q[i]) : e.lhs = x  OBVIOUS
  <2>2. PICK n \in DOMAIN F : o[n] = i /\ F[n] = e  BY <1>1, <1>2
  <2> QED  BY <2>1, <2>2
<1>5. ASSUME found # {}
      PROVE  /\ Max(from) \in from /\ \A i \in from : i <= Max(from)
             /\ F[Max(found)] \in ToSet(q[Max(from)])
  <2>1. /\ Max(from) \in from /\ \A i \in from : i <= Max(from)
    <3>1. from \in SUBSET (1..N) /\ from # {}  BY <1>1, <1>3, <1>5
    <3> QED  BY <1>1, <3>1, MaxOf
  <2>2. /\ Max(found) \in found /\ \A n \in found : n <= Max(found)
    <3>1. F \in Seq(ToSet(F))  BY DEF Flat, IsList
    <3>2. Len(F) \in Nat /\ DOMAIN F = 1..Len(F)  BY <3>1, SeqFacts
    <3>3. found \in SUBSET (1..Len(F))  BY <3>2
    <3> QED  BY <1>5, <3>2, <3>3, MaxOf
  <2>3. o[Max(found)] \in from  BY <1>3, <2>2
  <2>4. PICK n \in found : o[n] = Max(from)  BY <1>4, <2>1
  <2>5. o[n] <= o[Max(found)]  BY <1>2, <2>2
  <2>6. o[Max(found)] = Max(from)
    <3>1. Max(from) \in 1..N /\ o[Max(found)] \in 1..N /\ o[Max(found)] <= Max(from)
      BY <1>1, <2>1, <2>3
    <3> QED  BY <2>4, <2>5, <3>1
  <2>7. F[Max(found)] \in ToSet(q[o[Max(found)]])  BY <1>2, <2>2
  <2> QED  BY <2>1, <2>6, <2>7
<1> QED  BY <1>3, <1>4, <1>5

\* What one substitute command gives: the keys up to the first unknown one.
LEMMA Applied ==
  ASSUME NEW ss, NEW d, d.lhs \in Seq(STRING), NEW rhs, rhs = FirstKey(ss, KeySeqRef(d.rhs))
  PROVE  /\ IsList(ApplyDefSubst(ss, d))
         /\ \A e \in ToSet(ApplyDefSubst(ss, d)) : e.rhs = rhs
         /\ \A x : (\E e \in ToSet(ApplyDefSubst(ss, d)) : e.lhs = x) <=>
                   \E n \in DOMAIN d.lhs : /\ SearchKey(d.lhs[n]) = x
                                           /\ \A m \in 1..n : SearchKey(d.lhs[m]) # None
                                           /\ rhs # None
<1> DEFINE keyAt(i) == SearchKey(d.lhs[i])
           I == {i \in 1..Len(d.lhs) : keyAt(i) = None}
           bad == IF I # {} THEN Min(I) ELSE 0
           good == IF bad = 0 THEN d.lhs ELSE SubSeq(d.lhs, 1, bad - 1)
           A == IF rhs = None THEN <<>>
                ELSE [i \in DOMAIN good |-> [lhs |-> SearchKey(good[i]), rhs |-> rhs]]
<1>1. ApplyDefSubst(ss, d) = A  BY DEF ApplyDefSubst, SelectInSeq
<1>2. PICK n \in Nat : n = Len(d.lhs) /\ DOMAIN d.lhs = 1..n  OBVIOUS
<1>3. \E g \in Nat : /\ g <= n /\ DOMAIN good = 1..g
                     /\ \A i \in 1..g : good[i] = d.lhs[i]
                     /\ \A i \in 1..g : keyAt(i) # None
                     /\ g < n => keyAt(g + 1) = None
  <2>1. CASE I = {}
    <3>1. good = d.lhs  BY <2>1
    <3>2. \A i \in 1..n : keyAt(i) # None  BY <1>2, <2>1
    <3> HIDE DEF good, keyAt
    <3> QED  BY <1>2, <3>1, <3>2
  <2>2. CASE I # {}
    <3>1. bad = Min(I) /\ I \in SUBSET Nat  BY <2>2
    <3>2. bad \in I /\ \A i \in I : bad <= i  BY <2>2, <3>1, MinOf
    <3>3. bad \in 1..n /\ keyAt(bad) = None  BY <1>2, <3>2
    <3>4. \A i \in 1..(bad - 1) : keyAt(i) # None
      <4> TAKE i \in 1..(bad - 1)
      <4> HIDE DEF keyAt, bad, I
      <4>1. i \in 1..n /\ i < bad  BY <1>2, <3>3
      <4>2. i \notin I  BY <4>1, <3>2, <3>3
      <4> QED  BY <1>2, <4>1, <4>2 DEF I
    <3> HIDE DEF keyAt, bad, I
    <3>5. good = SubSeq(d.lhs, 1, bad - 1)
      <4>1. bad # 0  BY <3>3
      <4> QED  BY <4>1
    <3> HIDE DEF good
    <3>6. DOMAIN good = 1..(bad - 1) /\ \A i \in 1..(bad - 1) : good[i] = d.lhs[i]
      BY <1>2, <3>3, <3>5
    <3>7. bad - 1 \in Nat /\ bad - 1 <= n /\ (bad - 1) + 1 = bad  BY <3>3
    <3> QED  BY <3>3, <3>4, <3>6, <3>7
  <2> QED  BY <2>1, <2>2
<1>4. PICK g \in Nat : /\ g <= n /\ DOMAIN good = 1..g
                       /\ \A i \in 1..g : good[i] = d.lhs[i]
                       /\ \A i \in 1..g : keyAt(i) # None
                       /\ g < n => keyAt(g + 1) = None
  BY <1>3
<1> HIDE DEF good
<1>5. \A i \in DOMAIN d.lhs : i \in 1..g <=> \A m \in 1..i : keyAt(m) # None
  <2> TAKE i \in DOMAIN d.lhs
  <2>1. ASSUME i \in 1..g PROVE \A m \in 1..i : keyAt(m) # None  BY <1>4, <2>1
  <2>2. ASSUME i \notin 1..g PROVE \E m \in 1..i : keyAt(m) = None
    <3>1. g < n /\ g + 1 \in 1..i  BY <1>2, <1>4, <2>2
    <3> QED  BY <1>4, <3>1
  <2> QED  BY <2>1, <2>2
<1>6. CASE rhs = None
  <2>1. A = <<>> /\ ToSet(A) = {}  BY <1>6 DEF ToSet
  <2>2. IsList(A)
    <3>1. <<>> \in Seq({})  OBVIOUS
    <3> QED  BY <2>1, <3>1, SeqFacts
  <2> QED  BY <1>1, <1>6, <2>1, <2>2
<1>7. CASE rhs # None
  <2>1. A = [i \in 1..g |-> [lhs |-> keyAt(i), rhs |-> rhs]]  BY <1>4, <1>7
  <2>2. IsList(A)
    <3> DEFINE S == {[lhs |-> keyAt(i), rhs |-> rhs] : i \in 1..g}
    <3>1. A \in [1..g -> S]  BY <2>1
    <3> HIDE DEF A, S
    <3>2. A \in Seq(S)  BY <3>1
    <3> QED  BY <3>2, SeqFacts
  <2>a. DOMAIN A = 1..g /\ \A i \in 1..g : A[i] = [lhs |-> keyAt(i), rhs |-> rhs]
    BY <2>1
  <2> HIDE DEF A, keyAt
  <2>3. /\ \A i \in 1..g : [lhs |-> keyAt(i), rhs |-> rhs] \in ToSet(A)
        /\ \A e \in ToSet(A) : \E i \in 1..g : e = [lhs |-> keyAt(i), rhs |-> rhs]
    <3> DEFINE rec(i) == [lhs |-> keyAt(i), rhs |-> rhs]
    <3>1. \A i \in 1..g : A[i] = rec(i)  BY <2>a
    <3> HIDE DEF rec
    <3>2. /\ \A i \in 1..g : rec(i) \in ToSet(A)
          /\ \A e \in ToSet(A) : \E i \in 1..g : e = rec(i)
      BY <2>a, <3>1 DEF ToSet
    <3> QED  BY <3>2 DEF rec
  <2>4. ASSUME NEW e \in ToSet(A) PROVE e.rhs = rhs
    <3>1. PICK i \in 1..g : e = [lhs |-> keyAt(i), rhs |-> rhs]  BY <2>3
    <3> QED  BY <3>1
  <2>5. ASSUME NEW x
        PROVE  (\E e \in ToSet(A) : e.lhs = x) <=> \E i \in 1..g : keyAt(i) = x
    <3>1. \A i \in 1..g : /\ [lhs |-> keyAt(i), rhs |-> rhs].lhs = keyAt(i)
                         /\ [lhs |-> keyAt(i), rhs |-> rhs] \in ToSet(A)
      BY <2>3
    <3>2. \A e \in ToSet(A) : \E i \in 1..g : e.lhs = keyAt(i)  BY <2>3
    <3> QED  BY <3>1, <3>2
  <2>6. 1..g \subseteq DOMAIN d.lhs  BY <1>2, <1>4
  <2>7. \A x : (\E i \in 1..g : keyAt(i) = x) <=>
                \E i \in DOMAIN d.lhs : keyAt(i) = x /\ \A m \in 1..i : keyAt(m) # None
    BY <1>5, <2>6
  <2> QED  BY <1>1, <1>7, <2>2, <2>4, <2>5, <2>7 DEF keyAt
<1> QED  BY <1>6, <1>7

-----------------------------------------------------------------------------
(* The substitutes that wait for the Commit are those of the script. *)

\* at says which command a substitute is
Queued(at) ==
  /\ \A j, k \in DOMAIN pendingSubsts : j <= k => at[j] <= at[k]
  /\ \A i \in At("DefSubst") : \E k \in DOMAIN pendingSubsts : at[k] = i
  /\ \A k \in DOMAIN pendingSubsts : pendingSubsts[k] = script[at[k]]

Pending ==
  /\ IsList(pendingSubsts)
  /\ \E at \in [DOMAIN pendingSubsts -> At("DefSubst")] : Queued(at)

\* A command is added if it is a substitute.
LEMMA PendingKept ==
  ASSUME NEW c, Grows(c), Pending,
         pendingSubsts' = IF c.cmd = "DefSubst" THEN Append(pendingSubsts, c)
                          ELSE pendingSubsts
  PROVE  Pending'
<1>1. PICK n \in Nat : n = Len(script)  BY Grown
<1>2. PICK at \in [DOMAIN pendingSubsts -> At("DefSubst")] : Queued(at)  BY DEF Pending
<1>3. At("DefSubst") \subseteq 1..n  BY <1>1, GrownAt
<1>4. \A i \in 1..n : script'[i] = script[i]  BY <1>1, Grown
<1>5. CASE c.cmd # "DefSubst"
  <2>1. At("DefSubst")' = At("DefSubst") /\ pendingSubsts' = pendingSubsts  BY <1>5, GrownAt
  <2>2. Queued(at)'  BY <1>2, <1>3, <1>4, <2>1 DEF Queued
  <2>3. IsList(pendingSubsts)'  BY <2>1 DEF Pending, IsList
  <2> QED  BY <2>1, <2>2, <2>3 DEF Pending
<1>6. CASE c.cmd = "DefSubst"
  <2>1. /\ At("DefSubst")' = At("DefSubst") \cup {n + 1}
        /\ pendingSubsts' = Append(pendingSubsts, c) /\ script'[n + 1] = c
    BY <1>1, <1>6, Grown, GrownAt
  <2>2. PICK l \in Nat : l = Len(pendingSubsts)
    BY AppendedTo DEF Pending
  <2>3. /\ IsList(Append(pendingSubsts, c)) /\ DOMAIN pendingSubsts = 1..l
        /\ DOMAIN pendingSubsts' = 1..(l + 1)
        /\ \A i \in 1..l : pendingSubsts'[i] = pendingSubsts[i]
        /\ pendingSubsts'[l + 1] = c
    BY <2>1, <2>2, AppendedTo DEF Pending
  <2> DEFINE to == [k \in 1..(l + 1) |-> IF k \in 1..l THEN at[k] ELSE n + 1]
  <2>4. /\ \A k \in 1..l : to[k] = at[k] /\ at[k] \in 1..n /\ at[k] \in At("DefSubst")
        /\ to[l + 1] = n + 1
        /\ \A k \in 1..(l + 1) : k \in 1..l \/ k = l + 1
    <3>1. \A k \in 1..l : at[k] \in At("DefSubst") /\ at[k] \in 1..n  BY <1>3, <2>3
    <3>2. \A k \in 1..l : to[k] = at[k]  OBVIOUS
    <3>3. to[l + 1] = n + 1  OBVIOUS
    <3>4. \A k \in 1..(l + 1) : k \in 1..l \/ k = l + 1  OBVIOUS
    <3> QED  BY <3>1, <3>2, <3>3, <3>4
  <2>5. to \in [1..(l + 1) -> At("DefSubst")']  BY <2>1, <2>4
  <2> HIDE DEF to
  <2>6. ASSUME NEW j \in 1..(l + 1), NEW k \in 1..(l + 1), j <= k PROVE to[j] <= to[k]
    <3>1. CASE k \in 1..l
      <4>1. j \in 1..l  BY <2>6, <3>1
      <4> QED  BY <1>2, <2>3, <2>4, <2>6, <3>1, <4>1 DEF Queued
    <3>2. CASE k = l + 1
      <4>1. to[j] \in 1..(n + 1)  BY <2>4
      <4> QED  BY <2>4, <3>2, <4>1
    <3> QED  BY <2>4, <3>1, <3>2
  <2>7. ASSUME NEW i \in At("DefSubst")' PROVE \E k \in 1..(l + 1) : to[k] = i
    <3>1. CASE i \in At("DefSubst")
      <4>1. PICK k \in 1..l : at[k] = i  BY <1>2, <2>3, <3>1 DEF Queued
      <4> QED  BY <2>4, <4>1
    <3>2. CASE i = n + 1  BY <2>4, <3>2
    <3> QED  BY <2>1, <3>1, <3>2
  <2>8. ASSUME NEW k \in 1..(l + 1) PROVE pendingSubsts'[k] = script'[to[k]]
    <3>1. CASE k \in 1..l
      <4>1. pendingSubsts[k] = script[at[k]]  BY <1>2, <2>3, <3>1 DEF Queued
      <4>2. script'[at[k]] = script[at[k]] /\ to[k] = at[k]  BY <1>4, <2>4, <3>1
      <4> QED  BY <2>3, <3>1, <4>1, <4>2
    <3>2. CASE k = l + 1  BY <2>1, <2>3, <2>4, <3>2
    <3> QED  BY <2>4, <3>1, <3>2
  <2>9. Queued(to)'  BY <2>3, <2>6, <2>7, <2>8 DEF Queued
  <2>10. IsList(pendingSubsts)'  BY <2>1, <2>3 DEF IsList
  <2> QED  BY <2>3, <2>5, <2>9, <2>10 DEF Pending
<1> QED  BY <1>5, <1>6

\* The substitute command at i is one for x, by the sequences ss.
Substitutes(ss, i, x) ==
  \E n \in DOMAIN script[i].lhs :
     /\ Denotes(script[i].lhs[n], AtEnd) = x
     /\ \A m \in 1 .. n : Denotes(script[i].lhs[m], AtEnd) # None
     /\ FirstKey(ss, Denoted(script[i].rhs, AtEnd)) # None

\* Of the substitutes sb the last one for x is that of the last command for x.
Wins(ss, sb, x) ==
  LET about == {i \in At("DefSubst") : Substitutes(ss, i, x)}
      found == {n \in DOMAIN sb : sb[n].lhs = x}
  IN  IF about = {} THEN found = {}
      ELSE /\ found # {}
           /\ sb[Max(found)].rhs = FirstKey(ss, Denoted(script[Max(about)].rhs, AtEnd))

\* The property, key by key.
LEMMA LastIs ==
  LastSubstWins <=> (committed => \A x \in keys : Wins(seqs, substs, x))
BY DEF LastSubstWins, Wins, Substitutes

\* That is what applying the pending ones gives.
LEMMA AppliedWins ==
  ASSUME IInv, Pending, NEW ss, NEW x, NEW sb,
         sb = FlattenSeq([i \in DOMAIN pendingSubsts |-> ApplyDefSubst(ss, pendingSubsts[i])])
  PROVE  Wins(ss, sb, x)
<1> DEFINE P == pendingSubsts
           q == [i \in DOMAIN P |-> ApplyDefSubst(ss, P[i])]
           about == {i \in At("DefSubst") : Substitutes(ss, i, x)}
           found == {n \in DOMAIN sb : sb[n].lhs = x}
           from == {i \in DOMAIN q : \E e \in ToSet(q[i]) : e.lhs = x}
           rhs(i) == FirstKey(ss, Denoted(script[i].rhs, AtEnd))
<1>1. PICK at \in [DOMAIN P -> At("DefSubst")] : Queued(at)  BY DEF Pending
<1>2. PICK l \in Nat : l = Len(P) /\ DOMAIN P = 1..l
  <2>1. P \in Seq(ToSet(P))  BY DEF Pending, IsList
  <2> QED  BY <2>1, SeqFacts
<1>3. ASSUME NEW k \in DOMAIN P
      PROVE  /\ IsList(q[k]) /\ \A e \in ToSet(q[k]) : e.rhs = rhs(at[k])
             /\ (\E e \in ToSet(q[k]) : e.lhs = x) <=> Substitutes(ss, at[k], x)
  <2>1. at[k] \in At("DefSubst") /\ P[k] = script[at[k]]  BY <1>1 DEF Queued
  <2>2. PICK d \in Commands : d = script[at[k]] /\ d.cmd = "DefSubst"
    <3>1. script \in Seq(Commands)  BY DEF IInv
    <3> QED  BY <2>1, <3>1 DEF At
  <2>3. d.lhs \in Seq(STRING)  BY <2>2, CommandsAssumption
  <2>4. KeySeqRef(d.rhs) = Denoted(d.rhs, AtEnd)  BY KeySeqRefIs DEF IInv
  <2>5. rhs(at[k]) = FirstKey(ss, KeySeqRef(d.rhs))  BY <2>2, <2>4
  <2>6. q[k] = ApplyDefSubst(ss, d)  BY <2>1, <2>2
  <2>7. PICK r : r = rhs(at[k])  OBVIOUS
  <2>8. /\ IsList(ApplyDefSubst(ss, d))
        /\ \A e \in ToSet(ApplyDefSubst(ss, d)) : e.rhs = r
        /\ (\E e \in ToSet(ApplyDefSubst(ss, d)) : e.lhs = x) <=>
              \E n \in DOMAIN d.lhs : /\ SearchKey(d.lhs[n]) = x
                                      /\ \A m \in 1..n : SearchKey(d.lhs[m]) # None
                                      /\ r # None
    <3>1. r = FirstKey(ss, KeySeqRef(d.rhs))  BY <2>5, <2>7
    <3> DEFINE A == ApplyDefSubst(ss, d)
    <3>2. /\ IsList(A) /\ \A e \in ToSet(A) : e.rhs = r
          /\ \A y : (\E e \in ToSet(A) : e.lhs = y) <=>
                   \E n \in DOMAIN d.lhs : /\ SearchKey(d.lhs[n]) = y
                                           /\ \A m \in 1..n : SearchKey(d.lhs[m]) # None
                                           /\ r # None
      BY <2>3, <3>1, Applied
    <3> HIDE DEF A
    <3>3. /\ IsList(A) /\ \A e \in ToSet(A) : e.rhs = r
          /\ (\E e \in ToSet(A) : e.lhs = x) <=>
                \E n \in DOMAIN d.lhs : /\ SearchKey(d.lhs[n]) = x
                                        /\ \A m \in 1..n : SearchKey(d.lhs[m]) # None
                                        /\ r # None
      BY <3>2
    <3> QED  BY <3>3 DEF A
  <2>9. \A y : SearchKey(y) = Denotes(y, AtEnd)  BY SearchKeyIs DEF IInv
  <2>10. Substitutes(ss, at[k], x) <=>
           \E n \in DOMAIN d.lhs : /\ SearchKey(d.lhs[n]) = x
                                   /\ \A m \in 1..n : SearchKey(d.lhs[m]) # None
                                   /\ r # None
    BY <2>2, <2>7, <2>9 DEF Substitutes
  <2> QED  BY <2>6, <2>7, <2>8, <2>10
<1>4. IsList(q) /\ Len(q) = l /\ DOMAIN q = DOMAIN P
  <2> DEFINE S == {q[i] : i \in 1..l}
  <2>1. DOMAIN q = 1..l /\ q \in [1..l -> S]  BY <1>2
  <2> HIDE DEF q, S
  <2>2. q \in Seq(S) /\ Len(q) = l  BY <2>1
  <2> QED  BY <1>2, <2>1, <2>2, SeqFacts
<1> HIDE DEF q
<1>5. sb = FlattenSeq(q)  BY DEF q
<1>6. Flat(q, Len(q), sb)  BY <1>3, <1>4, <1>5, Flattened
<1>7. /\ found = {} <=> from = {}
      /\ found # {} => /\ Max(from) \in from /\ \A i \in from : i <= Max(from)
                       /\ sb[Max(found)] \in ToSet(q[Max(from)])
  <2> HIDE DEF found, from
  <2>1. found = Found(sb, x) /\ from = From(q, x)  BY DEF found, from, Found, From
  <2> QED  BY <1>4, <1>6, <2>1, LastOf
<1>8. \A k \in DOMAIN P : k \in from <=> at[k] \in about
  BY <1>1, <1>3, <1>4
<1>9. about = {} <=> from = {}
  <2>1. \A k \in from : at[k] \in about  BY <1>4, <1>8
  <2>2. ASSUME NEW i \in about PROVE from # {}
    <3>1. PICK k \in DOMAIN P : at[k] = i  BY <1>1, <2>2 DEF Queued
    <3> QED  BY <1>8, <2>2, <3>1
  <2> QED  BY <2>1, <2>2
<1> HIDE DEF from
<1>10. ASSUME about # {}
       PROVE  found # {} /\ sb[Max(found)].rhs = rhs(Max(about))
  <2>1. /\ found # {} /\ Max(from) \in from /\ \A i \in from : i <= Max(from)
        /\ sb[Max(found)] \in ToSet(q[Max(from)])
    BY <1>7, <1>9, <1>10
  <2>2. PICK k \in DOMAIN P : k = Max(from)  BY <1>4, <2>1 DEF from
  <2>3. at[k] \in about  BY <1>8, <2>1, <2>2
  <2>4. \A i \in about : i <= at[k]
    <3> TAKE i \in about
    <3>1. PICK j \in DOMAIN P : at[j] = i  BY <1>1 DEF Queued
    <3>2. j \in from  BY <1>8, <3>1
    <3>3. j <= k  BY <2>1, <2>2, <3>2
    <3> QED  BY <1>1, <3>1, <3>3 DEF Queued
  <2>5. Max(about) = at[k]
    <3>1. Len(script) \in Nat /\ DOMAIN script = 1..Len(script)
      <4>1. script \in Seq(Commands)  BY DEF IInv
      <4> QED  BY <4>1, SeqFacts
    <3>2. about \in SUBSET (1..Len(script))  BY <3>1 DEF At
    <3> HIDE DEF about
    <3>3. Max(about) \in about /\ \A i \in about : i <= Max(about)
      BY <1>10, <3>1, <3>2, MaxOf
    <3>4. Max(about) <= at[k] /\ at[k] <= Max(about)  BY <2>3, <2>4, <3>3
    <3>5. \A i \in about : i \in Nat
      <4>1. \A i \in 1..Len(script) : i \in Nat  BY <3>1
      <4> QED  BY <3>2, <4>1
    <3>6. Max(about) \in Nat /\ at[k] \in Nat  BY <2>3, <3>3, <3>5
    <3> QED  BY <3>4, <3>6
  <2>6. sb[Max(found)].rhs = rhs(at[k])  BY <1>3, <2>1, <2>2
  <2> QED  BY <2>1, <2>5, <2>6
<1> QED  BY <1>7, <1>9, <1>10 DEF Wins

SubstInv ==
  /\ open => Pending
  /\ committed => ~open
  /\ LastSubstWins

\* What the script says of substitutes depends on the script alone.
LEMMA SameWins ==
  ASSUME script' = script, refs' = refs, NEW ss, NEW sb, NEW x
  PROVE  Wins(ss, sb, x)' <=> Wins(ss, sb, x)
<1>1. /\ AtEnd' = AtEnd /\ \A kind : At(kind)' = At(kind)
      /\ \A y, i : (Defined(y, i)' <=> Defined(y, i)) /\ AliasesOf(y, i)' = AliasesOf(y, i)
  BY SameScript
<1>2. \A y, i : Denotes(y, i)' = Denotes(y, i)
  BY <1>1, DenotesIs, DenotesIsNext
<1>3. \A idx, i : Denoted(idx, i)' = Denoted(idx, i)  BY <1>1 DEF Denoted
<1>4. PICK e : e = AtEnd  OBVIOUS
<1>5. AtEnd' = e  BY <1>1, <1>4
<1>6. ASSUME NEW i PROVE FirstKey(ss, Denoted(script[i].rhs, AtEnd))'
                           = FirstKey(ss, Denoted(script[i].rhs, AtEnd))
  <2>1. PICK idx : idx = script[i].rhs  OBVIOUS
  <2>2. Denoted(idx, e)' = Denoted(idx, e)  BY <1>3
  <2>3. PICK d : d = Denoted(idx, e)  OBVIOUS
  <2>4. Denoted(script[i].rhs, AtEnd) = d  BY <1>4, <2>1, <2>3
  <2>5. Denoted(script[i].rhs, AtEnd)' = d  BY <1>5, <2>1, <2>2, <2>3
  <2> QED  BY <2>4, <2>5
<1>7. \A i : Substitutes(ss, i, x)' <=> Substitutes(ss, i, x)
  <2> TAKE i
  <2>1. \A n : Denotes(script[i].lhs[n], AtEnd)' = Denotes(script[i].lhs[n], AtEnd)
    <3> TAKE n
    <3>1. PICK y : y = script[i].lhs[n]  OBVIOUS
    <3>2. Denotes(y, e)' = Denotes(y, e)  BY <1>2
    <3> QED  BY <1>4, <1>5, <3>1, <3>2
  <2> QED  BY <1>6, <2>1 DEF Substitutes
<1> DEFINE about == {i \in At("DefSubst") : Substitutes(ss, i, x)}
<1>8. about' = about  BY <1>1, <1>7
<1>9. FirstKey(ss, Denoted(script[Max(about)].rhs, AtEnd))'
        = FirstKey(ss, Denoted(script[Max(about)].rhs, AtEnd))
  <2>1. PICK m : m = Max(about)  OBVIOUS
  <2>2. Max(about)' = m  BY <1>8, <2>1
  <2>3. FirstKey(ss, Denoted(script[m].rhs, AtEnd))' = FirstKey(ss, Denoted(script[m].rhs, AtEnd))
    BY <1>6
  <2> QED  BY <2>1, <2>2, <2>3
<1> QED  BY <1>8, <1>9 DEF Wins

LEMMA SubstInit == Init => SubstInv
BY DEF Init, SubstInv, LastSubstWins

\* A command of an open block: there is nothing committed.
LEMMA SubstTaken ==
  ASSUME IInv, SubstInv, NEW c \in Commands, Take(c),
         pendingSubsts' = IF c.cmd = "DefSubst" THEN Append(pendingSubsts, c)
                          ELSE pendingSubsts
  PROVE  SubstInv'
<1>1. Grows(c)  BY Taken
<1>2. open' /\ ~committed'  BY DEF Take, SubstInv
<1>3. Pending'  BY <1>1, PendingKept DEF Take, SubstInv
<1>4. LastSubstWins'  BY <1>2 DEF LastSubstWins
<1> QED  BY <1>2, <1>3, <1>4 DEF SubstInv

LEMMA SubstReset ==
  ASSUME Reset
  PROVE  SubstInv'
<1>1. script' = <<>> /\ pendingSubsts' = <<>> /\ ~committed'  BY DEF Reset, Started
<1>2. At("DefSubst")' = {}  BY <1>1 DEF At
<1>3. IsList(pendingSubsts)'
  <2>1. <<>> \in Seq({})  OBVIOUS
  <2>2. IsList(<<>>)  BY <2>1, SeqFacts
  <2> QED  BY <1>1, <2>2 DEF IsList
<1>4. Pending'
  <2> DEFINE at == [k \in {} |-> 0]
  <2>1. DOMAIN pendingSubsts' = {} /\ at \in [{} -> {}]  BY <1>1
  <2> HIDE DEF at
  <2>2. Queued(at)'  BY <1>2, <2>1 DEF Queued
  <2> QED  BY <1>2, <1>3, <2>1, <2>2 DEF Pending
<1> QED  BY <1>1, <1>4 DEF SubstInv, LastSubstWins

LEMMA SubstCommit ==
  ASSUME IInv, SubstInv, Commit
  PROVE  SubstInv'
<1>1. CASE Endless(Filled)
  <2>1. /\ open' = open /\ committed' = committed /\ ~committed
        /\ script' = script /\ pendingSubsts' = pendingSubsts
    BY <1>1 DEF Commit, building, SubstInv
  <2>2. At("DefSubst")' = At("DefSubst")  BY <2>1 DEF At
  <2>3. \A at : Queued(at)' <=> Queued(at)  BY <2>1, <2>2 DEF Queued
  <2>4. Pending => Pending'  BY <2>1, <2>2, <2>3 DEF Pending, IsList
  <2> QED  BY <2>1, <2>4 DEF SubstInv, LastSubstWins
<1>2. CASE ~Endless(Filled)
  <2>1. PICK ss : ss = Filled  OBVIOUS
  <2>2. /\ seqs' = ss /\ script' = script /\ refs' = refs /\ open' = FALSE
        /\ substs' = FlattenSeq([i \in DOMAIN pendingSubsts |->
                                    ApplyDefSubst(ss, pendingSubsts[i])])
    BY <1>2, <2>1 DEF Commit, CommitTables
  <2>3. PICK sb : sb = substs'  OBVIOUS
  <2>4. Pending  BY DEF Commit, SubstInv
  <2>5. ASSUME NEW x PROVE Wins(seqs, substs, x)'
    <3>1. Wins(ss, sb, x)  BY <2>2, <2>3, <2>4, AppliedWins
    <3>2. Wins(ss, sb, x)'  BY <2>2, <3>1, SameWins
    <3> QED  BY <2>2, <2>3, <3>2 DEF Wins, Substitutes
  <2>6. (committed => \A x \in keys : Wins(seqs, substs, x))'  BY <2>5
  <2>7. LastSubstWins'  BY <2>6, LastIs, PTL
  <2> QED  BY <2>2, <2>7 DEF SubstInv
<1> QED  BY <1>1, <1>2

LEMMA SubstUnchanged ==
  ASSUME SubstInv, UNCHANGED vars
  PROVE  SubstInv'
<1>1. /\ open' = open /\ committed' = committed /\ script' = script /\ refs' = refs
      /\ pendingSubsts' = pendingSubsts /\ seqs' = seqs /\ substs' = substs /\ keys' = keys
  BY DEF vars, building
<1>2. At("DefSubst")' = At("DefSubst")  BY <1>1 DEF At
<1>3. \A at : Queued(at)' <=> Queued(at)  BY <1>1, <1>2 DEF Queued
<1>4. Pending => Pending'  BY <1>1, <1>2, <1>3 DEF Pending, IsList
<1>5. LastSubstWins'
  <2>1. PICK ss, sb : ss = seqs /\ sb = substs  OBVIOUS
  <2>2. \A x : Wins(ss, sb, x)' <=> Wins(ss, sb, x)  BY <1>1, SameWins
  <2>3. \A x : Wins(seqs, substs, x) <=> Wins(ss, sb, x)  BY <2>1 DEF Wins, Substitutes
  <2>4. \A x : Wins(seqs, substs, x)' <=> Wins(ss, sb, x)'
    BY <1>1, <2>1 DEF Wins, Substitutes
  <2>5. committed => \A x \in keys : Wins(seqs, substs, x)  BY LastIs DEF SubstInv
  <2>6. (committed => \A x \in keys : Wins(seqs, substs, x))'
    BY <1>1, <2>2, <2>3, <2>4, <2>5
  <2> QED  BY <2>6, LastIs, PTL
<1> QED  BY <1>1, <1>4, <1>5 DEF SubstInv

LEMMA SubstStep == IInv /\ SubstInv /\ [Next]_vars => SubstInv'
<1> SUFFICES ASSUME IInv, SubstInv, [Next]_vars PROVE SubstInv'  OBVIOUS
<1>1. CASE UNCHANGED vars  BY <1>1, SubstUnchanged
<1>2. CASE Reset  BY <1>2, SubstReset
<1>3. CASE Commit  BY <1>3, SubstCommit
<1>4. CASE \E c \in Is("DefSubst") : DefSubst(c)
  <2>1. PICK c \in Is("DefSubst") : DefSubst(c)  BY <1>4
  <2>2. c \in Commands /\ c.cmd = "DefSubst" /\ Take(c)
        /\ pendingSubsts' = Append(pendingSubsts, c)
    BY <2>1 DEF Is, DefSubst
  <2> QED  BY <2>2, SubstTaken
<1>5. CASE \E c \in Commands : /\ c.cmd # "DefSubst" /\ Take(c)
                               /\ pendingSubsts' = pendingSubsts
  BY <1>5, SubstTaken
<1>6. CASE \/ \E c \in Is("RegKeySeq") : RegKeySeq(c)
           \/ \E c \in Is("DefKey") : DefKey(c)
           \/ \E c \in Is("DefAlias") : DefAlias(c)
           \/ \E c \in Is("DefMod") : DefMod(c)
           \/ \E c \in Is("NlsKeys") : NlsKeys(c)
  BY <1>5, <1>6 DEF Is, RegKeySeq, DefKey, DefAlias, DefMod, NlsKeys
<1>7. CASE \/ \E c \in Is("DefKeymap") : DefKeymap(c)
           \/ \E c \in Is("EndKeymap") : EndKeymap(c)
           \/ \E c \in Is("AssignKey") : AssignKey(c)
           \/ \E c \in Is("AssignMod") : AssignMod(c)
  BY <1>5, <1>7 DEF Is, DefKeymap, EndKeymap, AssignKey, AssignMod
<1> QED  BY <1>1, <1>2, <1>3, <1>4, <1>6, <1>7 DEF Next

(***************************************************************************)
(* In a committed Setting, of several substitutes for a key the last valid *)
(* one of the script is found, with the key its finished sequence begins   *)
(* with.                                                                   *)
(***************************************************************************)
THEOREM LastWins == Spec => []LastSubstWins
<1>1. SubstInv => LastSubstWins  BY DEF SubstInv
<1> QED  BY <1>1, Inductive, SubstInit, SubstStep, PTL DEF Spec

-----------------------------------------------------------------------------
(* The tables of sequences. *)

IsSeqs(ss) ==
  /\ IsList(ss)
  /\ \A n \in DOMAIN ss : ss[n] = [name |-> ss[n].name, body |-> ss[n].body]

\* no two sequences bear one name
Unique(ss) ==
  \A m, n \in DOMAIN ss : ss[m].name # "" /\ ss[m].name = ss[n].name => m = n

\* What is known of such a table.
LEMMA TableFacts ==
  ASSUME NEW ss, IsList(ss)
  PROVE  Len(ss) \in Nat /\ DOMAIN ss = 1..Len(ss)
BY SeqFacts DEF IsList

\* A name is found where it is.
LEMMA SeqNamedIs ==
  ASSUME NEW ss, IsList(ss), NEW nm
  PROVE  /\ SeqNamed(ss, nm) # 0 => /\ nm # "" /\ SeqNamed(ss, nm) \in DOMAIN ss
                                    /\ ss[SeqNamed(ss, nm)].name = nm
         /\ SeqNamed(ss, nm) = 0 => nm = "" \/ \A n \in DOMAIN ss : ss[n].name # nm
<1> DEFINE I == {n \in 1..Len(ss) : ss[n].name = nm}
<1>0. Len(ss) \in Nat /\ DOMAIN ss = 1..Len(ss)  BY TableFacts
<1>1. CASE nm = ""  BY <1>1 DEF SeqNamed
<1>2. CASE nm # ""
  <2>1. SeqNamed(ss, nm) = IF I # {} THEN Min(I) ELSE 0
    BY <1>2 DEF SeqNamed, SelectInSeq
  <2>2. I # {} => Min(I) \in I
    <3>1. I \in SUBSET Nat  OBVIOUS
    <3> QED  BY <3>1, MinOf
  <2>3. \A n \in I : n # 0 /\ n \in DOMAIN ss /\ ss[n].name = nm  BY <1>0
  <2>4. \A n \in DOMAIN ss : ss[n].name = nm => n \in I  BY <1>0
  <2> HIDE DEF I
  <2> QED  BY <1>2, <2>1, <2>2, <2>3, <2>4
<1> QED  BY <1>1, <1>2

\* The table new is ss with the body b at x.
BodyAt(ss, x, b, new) ==
  /\ IsSeqs(new) /\ Len(new) = Len(ss) /\ DOMAIN new = DOMAIN ss /\ Len(ss) <= Len(new)
  /\ new[x].name = ss[x].name /\ new[x].body = b
  /\ \A n \in DOMAIN ss : new[n].name = ss[n].name /\ (n # x => new[n] = ss[n])

\* That is how a sequence is overwritten.
LEMMA BodyReplaced ==
  ASSUME NEW ss, IsSeqs(ss), NEW x \in DOMAIN ss, NEW b,
         NEW new, new = [ss EXCEPT ![x].body = b]
  PROVE  BodyAt(ss, x, b, new)
<1> DEFINE l == Len(ss)
<1>0. l \in Nat /\ DOMAIN ss = 1..l  BY TableFacts DEF IsSeqs
<1>1. PICK e, d, nm : e = ss[x] /\ d = ss[x].body /\ nm = ss[x].name  OBVIOUS
<1>2. e = [name |-> nm, body |-> d]  BY <1>1 DEF IsSeqs
<1>3. [e EXCEPT !.body = b] = [name |-> nm, body |-> b]  BY <1>2
<1>4. new = [n \in 1..l |-> IF n = x THEN [name |-> nm, body |-> b] ELSE ss[n]]
  BY <1>0, <1>1, <1>3
<1>5. /\ DOMAIN new = 1..l /\ new[x] = [name |-> nm, body |-> b]
      /\ \A n \in 1..l : n # x => new[n] = ss[n]
  BY <1>0, <1>4
<1>6. IsList(new) /\ Len(new) = l
  <2> DEFINE S == {new[n] : n \in 1..l}
  <2>1. new \in [1..l -> S]  BY <1>4
  <2>2. PICK f, k : f = new /\ k = l  OBVIOUS
  <2> HIDE DEF S
  <2>3. f \in [1..k -> S] /\ k \in Nat  BY <1>0, <2>1, <2>2
  <2>4. f \in Seq(S) /\ Len(f) = k
    <3> HIDE <2>2
    <3> QED  BY <2>3
  <2> QED  BY <2>2, <2>4, SeqFacts
<1>7. new[x].name = nm /\ new[x].body = b  BY <1>5
<1>8. ASSUME NEW n \in 1..l
      PROVE  /\ new[n] = [name |-> new[n].name, body |-> new[n].body]
             /\ new[n].name = ss[n].name
  <2>1. CASE n = x  BY <1>1, <1>5, <1>7, <2>1
  <2>2. CASE n # x
    <3>1. ss[n] = [name |-> ss[n].name, body |-> ss[n].body]  BY <1>0 DEF IsSeqs
    <3> QED  BY <1>5, <2>2, <3>1
  <2> QED  BY <2>1, <2>2
<1>9. IsSeqs(new)  BY <1>5, <1>6, <1>8 DEF IsSeqs
<1>10. Len(ss) <= Len(new)  BY <1>0, <1>6
<1> QED  BY <1>0, <1>1, <1>5, <1>6, <1>7, <1>8, <1>9, <1>10 DEF BodyAt

\* The table new is ss with a sequence at a.
AddedAt(ss, nm, b, new, a) ==
  /\ IsSeqs(new) /\ Len(ss) <= Len(new)
  /\ a \in DOMAIN new /\ new[a].name = nm /\ new[a].body = b
  /\ DOMAIN new = DOMAIN ss \cup {a}
  /\ \A n \in DOMAIN ss : new[n].name = ss[n].name /\ (n # a => new[n] = ss[n])
  /\ nm = "" => a = Len(ss) + 1
  /\ a \in DOMAIN ss => nm # "" /\ ss[a].name = nm
  /\ a \notin DOMAIN ss => nm = "" \/ \A n \in DOMAIN ss : ss[n].name # nm

\* A sequence that is added is at its place, and nothing else is renamed.
LEMMA AddedSeqIs ==
  ASSUME NEW ss, IsSeqs(ss), NEW nm, NEW b,
         NEW new, new = AddKeySeq(ss, nm, b), NEW a, a = AddedSeq(ss, nm)
  PROVE  AddedAt(ss, nm, b, new, a)
<1> USE DEF AddedAt
<1> DEFINE l == Len(ss)
           x == SeqNamed(ss, nm)
<1>0. l \in Nat /\ DOMAIN ss = 1..l /\ IsList(ss)  BY TableFacts DEF IsSeqs
<1>1. CASE x # 0
  <2>1. nm # "" /\ x \in DOMAIN ss /\ ss[x].name = nm  BY <1>0, <1>1, SeqNamedIs
  <2>2. a = x /\ new = [ss EXCEPT ![x].body = b]  BY <1>1 DEF AddKeySeq, AddedSeq
  <2>3. BodyAt(ss, x, b, new)  BY <2>1, <2>2, BodyReplaced
  <2> QED  BY <2>1, <2>2, <2>3 DEF BodyAt
<1>2. CASE x = 0
  <2>1. nm = "" \/ \A n \in DOMAIN ss : ss[n].name # nm  BY <1>0, <1>2, SeqNamedIs
  <2>2. a = l + 1 /\ new = Append(ss, [name |-> nm, body |-> b])
    BY <1>2 DEF AddKeySeq, AddedSeq
  <2>3. /\ IsList(new) /\ DOMAIN new = 1..(l + 1) /\ Len(new) = l + 1
        /\ \A n \in 1..l : new[n] = ss[n]
        /\ new[l + 1] = [name |-> nm, body |-> b]
    BY <1>0, <2>2, AppendedTo
  <2>4. new[a].name = nm /\ new[a].body = b
        /\ new[a] = [name |-> new[a].name, body |-> new[a].body]
    BY <2>2, <2>3
  <2>5. IsSeqs(new)
    <3>1. \A n \in 1..(l + 1) : n \in 1..l \/ n = a  BY <1>0, <2>2
    <3>2. \A n \in 1..l : new[n] = [name |-> new[n].name, body |-> new[n].body]
      BY <1>0, <2>3 DEF IsSeqs
    <3> QED  BY <2>3, <2>4, <3>1, <3>2 DEF IsSeqs
  <2>6. a \notin DOMAIN ss /\ 1..(l + 1) = (1..l) \cup {a}  BY <1>0, <2>2
  <2>7. DOMAIN new = DOMAIN ss \cup {a} /\ a \in DOMAIN new  BY <1>0, <2>2, <2>3, <2>6
  <2>8. \A n \in DOMAIN ss : new[n].name = ss[n].name /\ (n # a => new[n] = ss[n])
    BY <1>0, <2>3
  <2>9. Len(ss) <= Len(new) /\ a = Len(ss) + 1  BY <1>0, <2>2, <2>3
  <2>10. new[a].name = nm /\ new[a].body = b  BY <2>2, <2>3
  <2> QED  BY <2>1, <2>5, <2>6, <2>7, <2>8, <2>9, <2>10
<1> QED  BY <1>1, <1>2

\* Commit adds to the table sequences that have no name, and renames none;
\* it changes the bodies of the first L only.
Later(new, ss, L) ==
  /\ IsSeqs(new) /\ Len(ss) <= Len(new)
  /\ \A n \in DOMAIN ss : /\ n \in DOMAIN new /\ new[n].name = ss[n].name
                          /\ n > L => new[n] = ss[n]
  /\ \A n \in DOMAIN new : n \notin DOMAIN ss => new[n].name = ""

LEMMA LaterTwice ==
  ASSUME NEW L \in Nat, NEW s0, NEW s1, NEW s2, IsSeqs(s0), Later(s1, s0, L), Later(s2, s1, L)
  PROVE  Later(s2, s0, L)
<1>1. Len(s0) \in Nat /\ Len(s1) \in Nat /\ Len(s2) \in Nat
  BY TableFacts DEF IsSeqs, Later
<1>a. Len(s0) <= Len(s1) /\ Len(s1) <= Len(s2)  BY DEF Later
<1>2. Len(s0) <= Len(s2)  BY <1>1, <1>a
<1> QED  BY <1>2 DEF Later

LEMMA LaterItself ==
  ASSUME NEW L, NEW ss, IsSeqs(ss)
  PROVE  Later(ss, ss, L)
<1>1. Len(ss) \in Nat  BY TableFacts DEF IsSeqs
<1>2. Len(ss) <= Len(ss)  BY <1>1
<1> QED  BY <1>2 DEF Later

\* A name is known at the end of Commit if it was at its beginning.
LEMMA LaterNamed ==
  ASSUME NEW L, NEW new, NEW ss, IsSeqs(ss), Later(new, ss, L), NEW nm
  PROVE  SeqNamed(new, nm) = 0 <=> SeqNamed(ss, nm) = 0
<1>1. IsList(ss) /\ IsList(new)  BY DEF Later, IsSeqs
<1>2. ASSUME SeqNamed(new, nm) # 0 PROVE SeqNamed(ss, nm) # 0
  <2>1. nm # "" /\ \E n \in DOMAIN new : new[n].name = nm  BY <1>1, <1>2, SeqNamedIs
  <2>2. PICK n \in DOMAIN new : new[n].name = nm  BY <2>1
  <2>3. n \in DOMAIN ss /\ ss[n].name = nm  BY <2>1, <2>2 DEF Later
  <2> QED  BY <1>1, <2>1, <2>3, SeqNamedIs
<1>3. ASSUME SeqNamed(ss, nm) # 0 PROVE SeqNamed(new, nm) # 0
  <2>1. nm # "" /\ \E n \in DOMAIN ss : ss[n].name = nm  BY <1>1, <1>3, SeqNamedIs
  <2>2. PICK n \in DOMAIN ss : ss[n].name = nm  BY <2>1
  <2>3. n \in DOMAIN new /\ new[n].name = nm  BY <2>2 DEF Later
  <2> QED  BY <1>1, <2>1, <2>3, SeqNamedIs
<1> QED  BY <1>2, <1>3

-----------------------------------------------------------------------------
(* What the actions of a sequence become. *)

\* the actions, as they come
IsActions(acts) ==
  /\ IsList(acts)
  /\ \A a \in ToSet(acts) : /\ a.t \in {"key", "ref", "func", "sub"}
                            /\ a.t = "sub" => IsList(a.subs)

\* An action names something: the names of sequences are those of base.
Something(base, a) ==
  CASE a.t = "key"  -> SearchKey(a.name) # None
    [] a.t = "ref"  -> SeqNamed(base, a.name) # 0
    [] a.t = "func" -> a.name \in KnownFunctions
    [] a.t = "sub"  -> TRUE

\* The item is what the action means; a sub-sequence is none of the first L.
Fits(ss, L, item, a) ==
  CASE a.t = "key"  -> item = KeyAct(SearchKey(a.name))
    [] a.t = "ref"  -> /\ item.t = "seq" /\ item.seq \in DOMAIN ss
                       /\ ss[item.seq].name = a.name
    [] a.t = "func" -> item = FuncAct(a.name)
    [] a.t = "sub"  -> /\ item.t = "seq" /\ item.seq \in DOMAIN ss /\ item.seq > L
                       /\ ss[item.seq].name = "" /\ Len(ss[item.seq].body) <= Len(a.subs)

Meant(base, acts) == {n \in DOMAIN acts : Something(base, acts[n])}
CountTo(M, n) == Cardinality(M \cap (1..n))
Said(base, acts, n) == CountTo(Meant(base, acts), n)

\* The body is what the first n actions say.
Obeys(base, ss, body, acts, n) ==
  /\ IsList(body) /\ Len(body) = Said(base, acts, n)
  /\ \A j \in Meant(base, acts) :
       j <= n => Fits(ss, Len(base), body[Said(base, acts, j)], acts[j])

\* Counting: one more, and the place of each.
LEMMA CountMore ==
  ASSUME NEW M, NEW n \in Nat
  PROVE  /\ CountTo(M, n) \in Nat
         /\ CountTo(M, n + 1) = IF n + 1 \in M THEN CountTo(M, n) + 1 ELSE CountTo(M, n)
         /\ \A j \in M : j \in 1..n => CountTo(M, j) \in 1..CountTo(M, n)
<1>1. \A k \in Nat : IsFiniteSet(M \cap (1..k)) /\ CountTo(M, k) \in Nat
  <2> TAKE k \in Nat
  <2>1. IsFiniteSet(1..k)  BY FS_Interval
  <2>2. IsFiniteSet(M \cap (1..k))  BY <2>1, FS_Subset
  <2> QED  BY <2>2, FS_CardinalityType DEF CountTo
<1> DEFINE S == M \cap (1..n)
           T == M \cap (1..(n + 1))
<1>2. CountTo(M, n + 1) = IF n + 1 \in M THEN CountTo(M, n) + 1 ELSE CountTo(M, n)
  <2>0. CountTo(M, n) = Cardinality(S) /\ CountTo(M, n + 1) = Cardinality(T)  BY DEF CountTo
  <2>1. CASE n + 1 \in M
    <3>1. T = S \cup {n + 1} /\ n + 1 \notin S  BY <2>1
    <3>2. IsFiniteSet(S)  BY <1>1
    <3> HIDE DEF S, T
    <3>3. Cardinality(T) = Cardinality(S) + 1  BY <3>1, <3>2, FS_AddElement
    <3> QED  BY <2>0, <2>1, <3>3
  <2>2. CASE n + 1 \notin M
    <3>1. S = T  BY <2>2
    <3> HIDE DEF S, T
    <3> QED  BY <2>0, <2>2, <3>1
  <2> QED  BY <2>1, <2>2
<1>3. ASSUME NEW j \in M, j \in 1..n PROVE CountTo(M, j) \in 1..CountTo(M, n)
  <2> DEFINE J == M \cap (1..j)
  <2>1. j \in Nat /\ J \subseteq S /\ j \in J  BY <1>3
  <2>2. IsFiniteSet(S) /\ IsFiniteSet(J)  BY <1>1, <2>1
  <2>3. CountTo(M, n) = Cardinality(S) /\ CountTo(M, j) = Cardinality(J)  BY DEF CountTo
  <2> HIDE DEF S, J
  <2>4. Cardinality(J) <= Cardinality(S)  BY <2>1, <2>2, FS_Subset
  <2>5. Cardinality(J) # 0  BY <2>1, <2>2, FS_EmptySet
  <2>6. Cardinality(J) \in Nat /\ Cardinality(S) \in Nat  BY <2>2, FS_CardinalityType
  <2> QED  BY <2>3, <2>4, <2>5, <2>6
<1> QED  BY <1>1, <1>2, <1>3

\* What an item means it means in every later table.
LEMMA FitsLater ==
  ASSUME NEW L \in Nat, NEW ss, NEW new, Later(new, ss, L), NEW item, NEW a,
         a.t \in {"key", "ref", "func", "sub"}, Fits(ss, L, item, a)
  PROVE  Fits(new, L, item, a)
<1>1. CASE a.t = "key"  BY <1>1 DEF Fits
<1>2. CASE a.t = "func"  BY <1>2 DEF Fits
<1>3. CASE a.t = "ref"
  <2>1. item.t = "seq" /\ item.seq \in DOMAIN ss /\ ss[item.seq].name = a.name
    BY <1>3 DEF Fits
  <2>2. item.seq \in DOMAIN new /\ new[item.seq].name = a.name  BY <2>1 DEF Later
  <2> QED  BY <1>3, <2>1, <2>2 DEF Fits
<1>4. CASE a.t = "sub"
  <2>1. /\ item.t = "seq" /\ item.seq \in DOMAIN ss /\ item.seq > L
        /\ ss[item.seq].name = "" /\ Len(ss[item.seq].body) <= Len(a.subs)
    BY <1>4 DEF Fits
  <2>2. item.seq \in DOMAIN new /\ new[item.seq] = ss[item.seq]  BY <2>1 DEF Later
  <2> QED  BY <1>4, <2>1, <2>2 DEF Fits
<1> QED  BY <1>1, <1>2, <1>3, <1>4

LEMMA ObeysLater ==
  ASSUME NEW base, IsSeqs(base), NEW ss, NEW new, Later(new, ss, Len(base)),
         NEW acts, IsActions(acts), NEW n, NEW body, Obeys(base, ss, body, acts, n)
  PROVE  Obeys(base, new, body, acts, n)
<1>1. Len(base) \in Nat  BY TableFacts DEF IsSeqs
<1>2. ASSUME NEW j \in Meant(base, acts), j <= n
      PROVE  Fits(new, Len(base), body[Said(base, acts, j)], acts[j])
  <2>1. acts[j] \in ToSet(acts)  BY DEF Meant, ToSet
  <2>2. acts[j].t \in {"key", "ref", "func", "sub"}  BY <2>1 DEF IsActions
  <2>3. Fits(ss, Len(base), body[Said(base, acts, j)], acts[j])  BY <1>2 DEF Obeys
  <2> QED  BY <1>1, <2>2, <2>3, FitsLater
<1> QED  BY <1>2 DEF Obeys

\* What an action resolves to: nothing, or one item.
LEMMA ResolvedIs ==
  ASSUME NEW base, IsSeqs(base), NEW ss, Later(ss, base, Len(base)), NEW a,
         a.t \in {"key", "ref", "func"}
  PROVE  /\ ~Something(base, a) => Resolved(ss, a) = <<>>
         /\ Something(base, a) =>
              \E item : Resolved(ss, a) = <<item>> /\ Fits(ss, Len(base), item, a)
<1>1. CASE a.t = "key"  BY <1>1 DEF Something, Resolved, Fits
<1>2. CASE a.t = "func"  BY <1>2 DEF Something, Resolved, Fits
<1>3. CASE a.t = "ref"
  <2>1. SeqNamed(ss, a.name) = 0 <=> SeqNamed(base, a.name) = 0  BY LaterNamed
  <2>2. CASE SeqNamed(ss, a.name) = 0  BY <1>3, <2>1, <2>2 DEF Something, Resolved
  <2>3. CASE SeqNamed(ss, a.name) # 0
    <3>1. PICK m : m = SeqNamed(ss, a.name)  OBVIOUS
    <3>2. m \in DOMAIN ss /\ ss[m].name = a.name
      BY <2>3, <3>1, SeqNamedIs DEF Later, IsSeqs
    <3>3. Resolved(ss, a) = <<SeqAct(m)>>  BY <1>3, <2>3, <3>1 DEF Resolved
    <3>4. SeqAct(m).t = "seq" /\ SeqAct(m).seq = m  BY DEF SeqAct
    <3>5. Fits(ss, Len(base), SeqAct(m), a)  BY <1>3, <3>2, <3>4 DEF Fits
    <3> QED  BY <1>3, <2>1, <2>3, <3>3, <3>5 DEF Something
  <2> QED  BY <2>2, <2>3
<1> QED  BY <1>1, <1>2, <1>3

\* ... and so a sequence that has no more items than the actions it is of.
LEMMA SubIs ==
  ASSUME NEW ss, NEW subs, IsList(subs)
  PROVE  Len(FlattenSeq([i \in DOMAIN subs |->
                           IF subs[i].t \notin {"key", "func"} THEN <<>>
                           ELSE Resolved(ss, subs[i])])) <= Len(subs)
<1> DEFINE q == [i \in DOMAIN subs |-> IF subs[i].t \notin {"key", "func"} THEN <<>>
                                       ELSE Resolved(ss, subs[i])]
<1>1. PICK l \in Nat : l = Len(subs) /\ DOMAIN subs = 1..l  BY TableFacts
<1>2. ASSUME NEW i \in 1..l PROVE q[i] = <<>> \/ \E x : q[i] = <<x>>
  <2>1. CASE subs[i].t = "key"  BY <1>1, <2>1 DEF Resolved
  <2>2. CASE subs[i].t = "func"  BY <1>1, <2>2 DEF Resolved
  <2>3. CASE subs[i].t \notin {"key", "func"}  BY <1>1, <2>3
  <2> QED  BY <2>1, <2>2, <2>3
<1>3. \A i \in 1..l : IsList(q[i]) /\ Len(q[i]) <= 1
  <2> TAKE i \in 1..l
  <2> HIDE DEF q
  <2>1. CASE q[i] = <<>>
    <3>1. <<>> \in Seq({}) /\ Len(<<>>) = 0  OBVIOUS
    <3>2. IsList(<<>>)  BY <3>1, SeqFacts
    <3>3. Len(<<>>) <= 1  BY <3>1
    <3> QED  BY <2>1, <3>2, <3>3
  <2>2. CASE \E x : q[i] = <<x>>
    <3>1. PICK x : q[i] = <<x>>  BY <2>2
    <3>2. <<x>> \in Seq({x}) /\ Len(<<x>>) = 1  OBVIOUS
    <3>3. IsList(<<x>>)  BY <3>2, SeqFacts
    <3>4. Len(<<x>>) <= 1  BY <3>2
    <3> QED  BY <3>1, <3>3, <3>4
  <2> QED  BY <1>2, <2>1, <2>2
<1>4. IsList(q) /\ Len(q) = l /\ DOMAIN q = 1..l
  <2> DEFINE S == {q[i] : i \in 1..l}
  <2>1. DOMAIN q = 1..l /\ q \in [1..l -> S]  BY <1>1
  <2> HIDE DEF q, S
  <2>2. q \in Seq(S) /\ Len(q) = l  BY <2>1
  <2> QED  BY <2>1, <2>2, SeqFacts
<1> HIDE DEF q
<1>5. Flat(q, Len(q), FlattenSeq(q))  BY <1>3, <1>4, Flattened
<1>6. Len(FlattenSeq(q)) <= l  BY <1>3, <1>4, <1>5 DEF Flat
<1> QED  BY <1>1, <1>6 DEF q

\* One action more.
LEMMA FilledAction ==
  ASSUME NEW base, IsSeqs(base), NEW acts, IsActions(acts), NEW n \in Nat,
         n + 1 \in DOMAIN acts,
         NEW ss, NEW body, Later(ss, base, Len(base)), Obeys(base, ss, body, acts, n),
         NEW acc, acc = FillAction([ss |-> ss, body |-> body], acts[n + 1])
  PROVE  /\ acc = [ss |-> acc.ss, body |-> acc.body]
         /\ Later(acc.ss, base, Len(base)) /\ Later(acc.ss, ss, Len(base))
         /\ \A m \in DOMAIN ss : acc.ss[m] = ss[m]
         /\ Obeys(base, acc.ss, acc.body, acts, n + 1)
<1> DEFINE a == acts[n + 1]
           M == Meant(base, acts)
           L == Len(base)
           c(k) == Said(base, acts, k)
<1>0. /\ a.t \in {"key", "ref", "func", "sub"} /\ (a.t = "sub" => IsList(a.subs))
      /\ L \in Nat /\ IsSeqs(ss)
  <2>1. a \in ToSet(acts)  BY DEF ToSet
  <2> QED  BY <2>1, TableFacts DEF IsActions, IsSeqs, Later
<1>1. /\ c(n) \in Nat /\ c(n + 1) = (IF n + 1 \in M THEN c(n) + 1 ELSE c(n))
      /\ \A j \in M : j \in 1..n => c(j) \in 1..c(n)
  BY CountMore DEF Said
<1>2. n + 1 \in M <=> Something(base, a)  BY DEF Meant
<1>3. /\ IsList(body) /\ Len(body) = c(n) /\ DOMAIN body = 1..c(n)
      /\ \A j \in M : j \in 1..n => Fits(ss, L, body[c(j)], acts[j])
  BY TableFacts DEF Obeys
<1>4. \A j \in M : j <= n + 1 => j \in 1..n \/ j = n + 1
  <2>1. DOMAIN acts \subseteq Nat \ {0}  BY TableFacts DEF IsActions
  <2> QED  BY <2>1 DEF Meant
\* the items so far, and one more in a later table
<1>5. ASSUME NEW new, Later(new, ss, L), NEW item, n + 1 \in M, Fits(new, L, item, a)
      PROVE  Obeys(base, new, Append(body, item), acts, n + 1)
  <2>1. /\ IsList(Append(body, item)) /\ Len(Append(body, item)) = c(n) + 1
        /\ \A i \in 1..c(n) : Append(body, item)[i] = body[i]
        /\ Append(body, item)[c(n) + 1] = item
    BY <1>3, AppendedTo
  <2>2. ASSUME NEW j \in M, j <= n + 1
        PROVE  Fits(new, L, Append(body, item)[c(j)], acts[j])
    <3>1. CASE j = n + 1  BY <1>1, <1>5, <2>1, <3>1
    <3>2. CASE j \in 1..n
      <4>1. Fits(ss, L, body[c(j)], acts[j])  BY <1>3, <3>2
      <4>2. acts[j].t \in {"key", "ref", "func", "sub"}
        <5>1. acts[j] \in ToSet(acts)  BY DEF ToSet, Meant
        <5> QED  BY <5>1 DEF IsActions
      <4>3. Fits(new, L, body[c(j)], acts[j])  BY <1>0, <1>5, <4>1, <4>2, FitsLater
      <4>4. c(j) \in 1..c(n)  BY <1>1, <3>2
      <4> QED  BY <2>1, <4>3, <4>4
    <3> QED  BY <1>4, <2>2, <3>1, <3>2
  <2>3. Len(Append(body, item)) = c(n + 1)  BY <1>1, <1>5, <2>1
  <2> HIDE DEF M, c, L, a
  <2> QED  BY <2>1, <2>2, <2>3 DEF Obeys, M, c, L
<1>6. CASE a.t # "sub" /\ ~Something(base, a)
  <2>1. Resolved(ss, a) = <<>>  BY <1>0, <1>6, ResolvedIs
  <2>2. acc = [ss |-> ss, body |-> body \o <<>>]  BY <1>6, <2>1 DEF FillAction
  <2>3. body \o <<>> = body
    <3>1. body \in Seq(ToSet(body))  BY <1>3 DEF IsList
    <3> QED  BY <3>1
  <2>4. acc.ss = ss /\ acc.body = body /\ acc = [ss |-> acc.ss, body |-> acc.body]
    BY <2>2, <2>3
  <2>5. Obeys(base, ss, body, acts, n + 1)
    <3>1. n + 1 \notin M /\ c(n + 1) = c(n)  BY <1>1, <1>2, <1>6
    <3>2. \A j \in M : j <= n + 1 => Fits(ss, L, body[c(j)], acts[j])
      BY <1>3, <1>4, <3>1
    <3>3. IsList(body) /\ Len(body) = c(n + 1)  BY <1>3, <3>1
    <3> HIDE DEF M, c, L, a
    <3> QED  BY <3>2, <3>3 DEF Obeys, M, c, L
  <2> QED  BY <1>0, <2>4, <2>5, LaterItself
<1>7. CASE a.t # "sub" /\ Something(base, a)
  <2>1. PICK item : Resolved(ss, a) = <<item>> /\ Fits(ss, L, item, a)
    BY <1>0, <1>7, ResolvedIs
  <2>2. acc = [ss |-> ss, body |-> body \o <<item>>]  BY <1>7, <2>1 DEF FillAction
  <2>3. body \o <<item>> = Append(body, item)
    <3> DEFINE S == ToSet(body) \cup {item}
    <3>1. body \in Seq(S)
      <4>1. body \in Seq(ToSet(body)) /\ ToSet(body) \subseteq S  BY <1>3 DEF IsList
      <4> HIDE DEF S
      <4> QED  BY <4>1, SeqMonotonic
    <3>2. item \in S  OBVIOUS
    <3> HIDE DEF S
    <3> QED  BY <3>1, <3>2
  <2>4. acc.ss = ss /\ acc.body = Append(body, item)
        /\ acc = [ss |-> acc.ss, body |-> acc.body]
    BY <2>2, <2>3
  <2>5. Later(ss, ss, L)  BY <1>0, LaterItself
  <2>6. Obeys(base, ss, Append(body, item), acts, n + 1)  BY <1>2, <1>5, <1>7, <2>1, <2>5
  <2> QED  BY <2>4, <2>5, <2>6
<1>8. CASE a.t = "sub"
  <2> DEFINE sub == FlattenSeq([i \in DOMAIN a.subs |->
                                  IF a.subs[i].t \notin {"key", "func"} THEN <<>>
                                  ELSE Resolved(ss, a.subs[i])])
  <2>1. Len(sub) <= Len(a.subs)  BY <1>0, <1>8, SubIs
  <2>2. acc = [ss |-> AddKeySeq(ss, "", sub),
               body |-> Append(body, SeqAct(AddedSeq(ss, "")))]
    BY <1>8 DEF FillAction
  <2> HIDE DEF sub
  <2>3. PICK new, at, sb : /\ sb = sub /\ new = AddKeySeq(ss, "", sb)
                           /\ at = AddedSeq(ss, "")
    OBVIOUS
  <2>4. /\ IsSeqs(new) /\ Len(ss) <= Len(new)
        /\ at \in DOMAIN new /\ new[at].name = "" /\ new[at].body = sub
        /\ DOMAIN new = DOMAIN ss \cup {at} /\ at = Len(ss) + 1
        /\ \A m \in DOMAIN ss : new[m].name = ss[m].name /\ (m # at => new[m] = ss[m])
    <3>1. IsSeqs(ss)  BY <1>0
    <3>2. AddedAt(ss, "", sb, new, at)  BY <2>3, <3>1, AddedSeqIs
    <3> QED  BY <2>3, <3>2 DEF AddedAt
  <2>5. at \notin DOMAIN ss /\ at > L
    <3>1. Len(ss) \in Nat /\ DOMAIN ss = 1..Len(ss)  BY <1>0, TableFacts DEF IsSeqs
    <3>2. L <= Len(ss)  BY DEF Later
    <3>3. at = Len(ss) + 1  BY <2>4
    <3> HIDE DEF L
    <3> QED  BY <1>0, <3>1, <3>2, <3>3
  <2>6. \A m \in DOMAIN ss : new[m] = ss[m]  BY <2>4, <2>5
  <2>7. Later(new, ss, L)  BY <2>4, <2>5, <2>6 DEF Later
  <2>8. Later(new, base, L)  BY <1>0, <2>7, LaterTwice
  <2>9. SeqAct(at).t = "seq" /\ SeqAct(at).seq = at  BY DEF SeqAct
  <2>10. Fits(new, L, SeqAct(at), a)  BY <1>8, <2>1, <2>4, <2>5, <2>9 DEF Fits
  <2>11. n + 1 \in M  BY <1>2, <1>8 DEF Something
  <2>12. Obeys(base, new, Append(body, SeqAct(at)), acts, n + 1)
    BY <1>5, <2>7, <2>10, <2>11
  <2>13. acc.ss = new /\ acc.body = Append(body, SeqAct(at))
         /\ acc = [ss |-> acc.ss, body |-> acc.body]
    <3>1. acc = [ss |-> new, body |-> Append(body, SeqAct(at))]  BY <2>2, <2>3
    <3> QED  BY <3>1
  <2> QED  BY <2>6, <2>7, <2>8, <2>12, <2>13
<1> QED  BY <1>0, <1>6, <1>7, <1>8

-----------------------------------------------------------------------------
(* The folds of Commit go through a sequence from its front. *)

\* What is said of one fold, K being its results so far: first the actions of
\* a sequence, ...
ActionsDone(K, base, s, r) ==
  /\ K[0] = base /\ r = K[Len(s)]
  /\ \A n \in 1..Len(s) : K[n] = FillAction(K[n - 1], s[n])

LEMMA FoldedActions ==
  ASSUME NEW base, NEW s, IsList(s), NEW r, r = FoldLeft(FillAction, base, s)
  PROVE  \E K : ActionsDone(K, base, s, r)
<1> DEFINE N == Len(s)
           it(f, S) == IF S = {} THEN base ELSE FillAction(f[S \ {Max(S)}], s[Max(S)])
           Good(f, n) == f = [S \in SUBSET (1..n) |-> it(f, S)]
           F == CHOOSE f : Good(f, N)
<1>0. N \in Nat /\ DOMAIN s = 1..N  BY TableFacts
<1>1. \E f : Good(f, N)
  <2> DEFINE T == {n \in Nat : \E f : Good(f, n)}
  <2>1. 0 \in T
    <3> DEFINE f == [S \in SUBSET (1..0) |-> base]
    <3>1. \A S \in SUBSET (1..0) : S = {} /\ it(f, S) = base  OBVIOUS
    <3> HIDE DEF it
    <3>2. Good(f, 0)  BY <3>1
    <3> QED  BY <3>2
  <2>2. ASSUME NEW n \in Nat, n \in T PROVE n + 1 \in T
    <3>1. PICK f : Good(f, n)  BY <2>2
    <3> DEFINE g == [S \in SUBSET (1..(n + 1)) |->
                       IF S \in SUBSET (1..n) THEN f[S] ELSE it(f, S)]
    <3>2. ASSUME NEW S \in SUBSET (1..(n + 1)) PROVE g[S] = it(g, S)
      <4> HIDE DEF it
      <4>a. \A R \in SUBSET (1..n) : f[R] = it(f, R)  BY <3>1
      <4>b. \A R \in SUBSET (1..n) : R \in SUBSET (1..(n + 1))  OBVIOUS
      <4>c. \A R \in SUBSET (1..n) : g[R] = f[R]  BY <4>b
      <4>d. g[S] = it(f, S)  BY <4>a
      <4>1. CASE S = {}  BY <4>d, <4>1 DEF it
      <4>2. CASE S # {}
        <5>1. Max(S) \in S /\ \A y \in S : y <= Max(S)
          <6>1. n + 1 \in Nat  OBVIOUS
          <6> QED  BY <4>2, <6>1, MaxOf
        <5>2. \A y \in S \ {Max(S)} : y \in 1..n
          <6> TAKE y \in S \ {Max(S)}
          <6>1. y \in 1..(n + 1) /\ Max(S) \in 1..(n + 1) /\ y # Max(S) /\ y <= Max(S)
            BY <5>1
          <6> QED  BY <6>1
        <5>3. g[S \ {Max(S)}] = f[S \ {Max(S)}]
          <6>1. PICK R : R = S \ {Max(S)}  OBVIOUS
          <6>2. R \in SUBSET (1..n)  BY <5>2, <6>1
          <6>3. g[R] = f[R]  BY <4>c, <6>2
          <6> QED  BY <6>1, <6>3
        <5> HIDE DEF g
        <5> QED  BY <4>d, <4>2, <5>3 DEF it
      <4> QED  BY <4>1, <4>2
    <3>3. g = [S \in SUBSET (1..(n + 1)) |-> g[S]]  OBVIOUS
    <3> HIDE DEF g, it
    <3>4. Good(g, n + 1)  BY <3>2, <3>3
    <3> HIDE DEF Good
    <3> QED  BY <3>4
  <2>3. N \in T
    <3> HIDE DEF T
    <3> QED  BY <1>0, <2>1, <2>2, NumbersIn
  <2> QED  BY <2>3
<1>2. Good(F, N)  BY <1>1
<1>3. FoldLeft(FillAction, base, s) = F[1..N]
  BY <1>0 DEF FoldLeft, MapThenFoldSet
<1> HIDE DEF F
<1>4. \A S \in SUBSET (1..N) : F[S] = it(F, S)  BY <1>2
<1> DEFINE K == [n \in 0..N |-> F[1..n]]
<1>5. K[0] = base
  <2>1. 1..0 = {} /\ {} \in SUBSET (1..N)  OBVIOUS
  <2>2. F[{}] = base  BY <1>4, <2>1
  <2> QED  BY <1>0, <2>1, <2>2
<1>6. ASSUME NEW n \in 1..N PROVE K[n] = FillAction(K[n - 1], s[n])
  <2> DEFINE R == 1..n
  <2>1. R \in SUBSET (1..N) /\ R # {} /\ n \in R /\ \A y \in R : y <= n  BY <1>0
  <2>2. Max(R) = n
    <3>1. R \in SUBSET (1..n) /\ n \in Nat  OBVIOUS
    <3>2. Max(R) \in R /\ \A y \in R : y <= Max(R)  BY <2>1, <3>1, MaxOf
    <3>3. n <= Max(R) /\ Max(R) \in 1..n  BY <2>1, <3>2
    <3> HIDE DEF R
    <3> QED  BY <3>3
  <2>3. R \ {n} = 1..(n - 1)  OBVIOUS
  <2>4. K[n] = F[R] /\ K[n - 1] = F[1..(n - 1)]  BY <1>0
  <2>5. F[R] = FillAction(F[R \ {Max(R)}], s[Max(R)])  BY <1>4, <2>1
  <2> HIDE DEF R, K
  <2>6. F[R \ {n}] = F[1..(n - 1)]  BY <2>3
  <2> QED  BY <2>2, <2>4, <2>5, <2>6
<1>7. K[N] = F[1..N]  BY <1>0
<1> HIDE DEF K
<1> QED  BY <1>3, <1>5, <1>6, <1>7 DEF ActionsDone

\* ... then the sequences.
SeqsDone(K, base, s, r) ==
  /\ K[0] = base /\ r = K[Len(s)]
  /\ \A n \in 1..Len(s) : K[n] = FillKeySeq(K[n - 1], s[n])

LEMMA FoldedSeqs ==
  ASSUME NEW base, NEW s, IsList(s), NEW r, r = FoldLeft(FillKeySeq, base, s)
  PROVE  \E K : SeqsDone(K, base, s, r)
<1> DEFINE N == Len(s)
           it(f, S) == IF S = {} THEN base ELSE FillKeySeq(f[S \ {Max(S)}], s[Max(S)])
           Good(f, n) == f = [S \in SUBSET (1..n) |-> it(f, S)]
           F == CHOOSE f : Good(f, N)
<1>0. N \in Nat /\ DOMAIN s = 1..N  BY TableFacts
<1>1. \E f : Good(f, N)
  <2> DEFINE T == {n \in Nat : \E f : Good(f, n)}
  <2>1. 0 \in T
    <3> DEFINE f == [S \in SUBSET (1..0) |-> base]
    <3>1. \A S \in SUBSET (1..0) : S = {} /\ it(f, S) = base  OBVIOUS
    <3> HIDE DEF it
    <3>2. Good(f, 0)  BY <3>1
    <3> QED  BY <3>2
  <2>2. ASSUME NEW n \in Nat, n \in T PROVE n + 1 \in T
    <3>1. PICK f : Good(f, n)  BY <2>2
    <3> DEFINE g == [S \in SUBSET (1..(n + 1)) |->
                       IF S \in SUBSET (1..n) THEN f[S] ELSE it(f, S)]
    <3>2. ASSUME NEW S \in SUBSET (1..(n + 1)) PROVE g[S] = it(g, S)
      <4> HIDE DEF it
      <4>a. \A R \in SUBSET (1..n) : f[R] = it(f, R)  BY <3>1
      <4>b. \A R \in SUBSET (1..n) : R \in SUBSET (1..(n + 1))  OBVIOUS
      <4>c. \A R \in SUBSET (1..n) : g[R] = f[R]  BY <4>b
      <4>d. g[S] = it(f, S)  BY <4>a
      <4>1. CASE S = {}  BY <4>d, <4>1 DEF it
      <4>2. CASE S # {}
        <5>1. Max(S) \in S /\ \A y \in S : y <= Max(S)
          <6>1. n + 1 \in Nat  OBVIOUS
          <6> QED  BY <4>2, <6>1, MaxOf
        <5>2. \A y \in S \ {Max(S)} : y \in 1..n
          <6> TAKE y \in S \ {Max(S)}
          <6>1. y \in 1..(n + 1) /\ Max(S) \in 1..(n + 1) /\ y # Max(S) /\ y <= Max(S)
            BY <5>1
          <6> QED  BY <6>1
        <5>3. g[S \ {Max(S)}] = f[S \ {Max(S)}]
          <6>1. PICK R : R = S \ {Max(S)}  OBVIOUS
          <6>2. R \in SUBSET (1..n)  BY <5>2, <6>1
          <6>3. g[R] = f[R]  BY <4>c, <6>2
          <6> QED  BY <6>1, <6>3
        <5> HIDE DEF g
        <5> QED  BY <4>d, <4>2, <5>3 DEF it
      <4> QED  BY <4>1, <4>2
    <3>3. g = [S \in SUBSET (1..(n + 1)) |-> g[S]]  OBVIOUS
    <3> HIDE DEF g, it
    <3>4. Good(g, n + 1)  BY <3>2, <3>3
    <3> HIDE DEF Good
    <3> QED  BY <3>4
  <2>3. N \in T
    <3> HIDE DEF T
    <3> QED  BY <1>0, <2>1, <2>2, NumbersIn
  <2> QED  BY <2>3
<1>2. Good(F, N)  BY <1>1
<1>3. FoldLeft(FillKeySeq, base, s) = F[1..N]
  BY <1>0 DEF FoldLeft, MapThenFoldSet
<1> HIDE DEF F
<1>4. \A S \in SUBSET (1..N) : F[S] = it(F, S)  BY <1>2
<1> DEFINE K == [n \in 0..N |-> F[1..n]]
<1>5. K[0] = base
  <2>1. 1..0 = {} /\ {} \in SUBSET (1..N)  OBVIOUS
  <2>2. F[{}] = base  BY <1>4, <2>1
  <2> QED  BY <1>0, <2>1, <2>2
<1>6. ASSUME NEW n \in 1..N PROVE K[n] = FillKeySeq(K[n - 1], s[n])
  <2> DEFINE R == 1..n
  <2>1. R \in SUBSET (1..N) /\ R # {} /\ n \in R /\ \A y \in R : y <= n  BY <1>0
  <2>2. Max(R) = n
    <3>1. R \in SUBSET (1..n) /\ n \in Nat  OBVIOUS
    <3>2. Max(R) \in R /\ \A y \in R : y <= Max(R)  BY <2>1, <3>1, MaxOf
    <3>3. n <= Max(R) /\ Max(R) \in 1..n  BY <2>1, <3>2
    <3> HIDE DEF R
    <3> QED  BY <3>3
  <2>3. R \ {n} = 1..(n - 1)  OBVIOUS
  <2>4. K[n] = F[R] /\ K[n - 1] = F[1..(n - 1)]  BY <1>0
  <2>5. F[R] = FillKeySeq(F[R \ {Max(R)}], s[Max(R)])  BY <1>4, <2>1
  <2> HIDE DEF R, K
  <2>6. F[R \ {n}] = F[1..(n - 1)]  BY <2>3
  <2> QED  BY <2>2, <2>4, <2>5, <2>6
<1>7. K[N] = F[1..N]  BY <1>0
<1> HIDE DEF K
<1> QED  BY <1>3, <1>5, <1>6, <1>7 DEF SeqsDone

\* All the actions of a sequence.
LEMMA FilledBody ==
  ASSUME NEW base, IsSeqs(base), NEW acts, IsActions(acts),
         NEW ss, Later(ss, base, Len(base)),
         NEW acc, acc = FoldLeft(FillAction, [ss |-> ss, body |-> <<>>], acts)
  PROVE  /\ Later(acc.ss, base, Len(base)) /\ Later(acc.ss, ss, Len(base))
         /\ \A m \in DOMAIN ss : acc.ss[m] = ss[m]
         /\ Obeys(base, acc.ss, acc.body, acts, Len(acts))
<1> DEFINE N == Len(acts)
           L == Len(base)
           R(a, n) == /\ a = [ss |-> a.ss, body |-> a.body]
                      /\ Later(a.ss, base, L) /\ Later(a.ss, ss, L)
                      /\ \A m \in DOMAIN ss : a.ss[m] = ss[m]
                      /\ Obeys(base, a.ss, a.body, acts, n)
<1>0. /\ N \in Nat /\ DOMAIN acts = 1..N /\ L \in Nat /\ IsSeqs(ss) /\ IsList(acts)
  BY TableFacts DEF IsActions, IsSeqs, Later
<1>a. PICK K : ActionsDone(K, [ss |-> ss, body |-> <<>>], acts, acc)
  BY <1>0, FoldedActions
<1>1. /\ K[0] = [ss |-> ss, body |-> <<>>]
      /\ \A n \in 1..N : K[n] = FillAction(K[n - 1], acts[n])
      /\ acc = K[N]
  BY <1>a DEF ActionsDone
<1>2. R(K[0], 0)
  <2>1. K[0].ss = ss /\ K[0].body = <<>> /\ K[0] = [ss |-> K[0].ss, body |-> K[0].body]
    BY <1>1
  <2>2. Later(ss, ss, L)  BY <1>0, LaterItself
  <2>3. Obeys(base, ss, <<>>, acts, 0)
    <3>1. IsList(<<>>)
      <4>1. <<>> \in Seq({})  OBVIOUS
      <4> QED  BY <4>1, SeqFacts
    <3>2. Len(<<>>) = 0  OBVIOUS
    <3>3. Said(base, acts, 0) = 0
      <4>1. Meant(base, acts) \cap (1..0) = {}  OBVIOUS
      <4> QED  BY <4>1, FS_EmptySet DEF Said, CountTo
    <3>4. \A j \in Meant(base, acts) : ~(j <= 0)  BY <1>0 DEF Meant
    <3> QED  BY <3>1, <3>2, <3>3, <3>4 DEF Obeys
  <2> QED  BY <2>1, <2>2, <2>3
<1>3. ASSUME NEW n \in Nat, n + 1 <= N, R(K[n], n) PROVE R(K[n + 1], n + 1)
  <2>1. PICK s, b : s = K[n].ss /\ b = K[n].body  OBVIOUS
  <2>2. /\ K[n] = [ss |-> s, body |-> b] /\ Later(s, base, L) /\ Later(s, ss, L)
        /\ \A m \in DOMAIN ss : s[m] = ss[m]
        /\ Obeys(base, s, b, acts, n)
    BY <1>3, <2>1
  <2>3. PICK a : a = K[n + 1]  OBVIOUS
  <2>4. n + 1 \in DOMAIN acts /\ a = FillAction([ss |-> s, body |-> b], acts[n + 1])
    <3>1. n + 1 \in 1..N /\ (n + 1) - 1 = n  BY <1>0, <1>3
    <3>2. K[n + 1] = FillAction(K[n], acts[n + 1])  BY <1>1, <3>1
    <3> QED  BY <1>0, <2>2, <2>3, <3>1, <3>2
  <2>5. /\ a = [ss |-> a.ss, body |-> a.body]
        /\ Later(a.ss, base, L) /\ Later(a.ss, s, L)
        /\ \A m \in DOMAIN s : a.ss[m] = s[m]
        /\ Obeys(base, a.ss, a.body, acts, n + 1)
    BY <2>2, <2>4, FilledAction
  <2>6. Later(a.ss, ss, L)  BY <1>0, <2>2, <2>5, LaterTwice
  <2>7. \A m \in DOMAIN ss : a.ss[m] = ss[m]  BY <2>2, <2>5 DEF Later
  <2> HIDE DEF L
  <2> QED  BY <2>3, <2>5, <2>6, <2>7
<1> HIDE DEF R
<1> DEFINE T == {n \in Nat : n <= N => R(K[n], n)}
<1>4. 0 \in T  BY <1>2
<1>5. ASSUME NEW n \in Nat, n \in T PROVE n + 1 \in T
  <2>1. n + 1 <= N => n <= N  BY <1>0
  <2> QED  BY <1>3, <1>5, <2>1
<1>6. N \in T
  <2> HIDE DEF T
  <2> QED  BY <1>0, <1>4, <1>5, NumbersIn
<1>7. R(acc, N)  BY <1>0, <1>1, <1>6
<1> QED  BY <1>7 DEF R

\* One sequence filled: it obeys, and the others are what they were.
LEMMA FilledSeq ==
  ASSUME NEW base, IsSeqs(base), NEW ss, Later(ss, base, Len(base)),
         NEW p, p.shell \in DOMAIN base, IsActions(p.actions),
         NEW new, new = FillKeySeq(ss, p)
  PROVE  /\ Later(new, base, Len(base)) /\ Later(new, ss, Len(base))
         /\ \A m \in DOMAIN ss : m # p.shell => new[m] = ss[m]
         /\ Obeys(base, new, new[p.shell].body, p.actions, Len(p.actions))
<1> DEFINE L == Len(base)
           acts == p.actions
<1>0. L \in Nat /\ DOMAIN base = 1..L /\ IsSeqs(ss)  BY TableFacts DEF IsSeqs, Later
<1>1. PICK acc : acc = FoldLeft(FillAction, [ss |-> ss, body |-> <<>>], acts)  OBVIOUS
<1>2. /\ Later(acc.ss, base, L) /\ Later(acc.ss, ss, L)
      /\ \A m \in DOMAIN ss : acc.ss[m] = ss[m]
      /\ Obeys(base, acc.ss, acc.body, acts, Len(acts))
  BY <1>1, FilledBody
<1>3. PICK s, b, x : s = acc.ss /\ b = acc.body /\ x = p.shell  OBVIOUS
<1>4. new = [s EXCEPT ![x].body = b]  BY <1>1, <1>3 DEF FillKeySeq
<1>5. IsSeqs(s) /\ x \in DOMAIN s /\ x <= L /\ x \in DOMAIN ss
  <2>1. x \in DOMAIN base  BY <1>3
  <2>2. x \in DOMAIN ss  BY <2>1 DEF Later
  <2>3. IsSeqs(s) /\ x \in DOMAIN s  BY <1>2, <1>3, <2>1 DEF Later
  <2>4. x <= L  BY <1>0, <2>1
  <2> QED  BY <2>2, <2>3, <2>4
<1>6. BodyAt(s, x, b, new)  BY <1>4, <1>5, BodyReplaced
<1>7. Later(new, s, L)
  <2>1. \A n \in DOMAIN s : n > L => n # x
    <3>1. \A n \in DOMAIN s : n \in Nat  BY <1>5, TableFacts DEF IsSeqs
    <3> QED  BY <1>0, <1>5, <3>1
  <2> QED  BY <1>6, <2>1 DEF BodyAt, Later
<1>8. Later(new, base, L) /\ Later(new, ss, L)
  BY <1>0, <1>2, <1>3, <1>7, LaterTwice
<1>9. ASSUME NEW m \in DOMAIN ss, m # p.shell PROVE new[m] = ss[m]
  <2>1. m \in DOMAIN s /\ s[m] = ss[m]  BY <1>2, <1>3 DEF Later
  <2> QED  BY <1>3, <1>6, <1>9, <2>1 DEF BodyAt
<1>10. Obeys(base, new, b, acts, Len(acts))  BY <1>2, <1>3, <1>7, ObeysLater
<1>11. new[p.shell].body = b  BY <1>3, <1>6 DEF BodyAt
<1> QED  BY <1>8, <1>9, <1>10, <1>11

\* All of them: the last that is for a shell is what the shell obeys.
LEMMA FilledSeqs ==
  ASSUME NEW base, IsSeqs(base), NEW P, IsList(P),
         \A k \in DOMAIN P : P[k].shell \in DOMAIN base /\ IsActions(P[k].actions),
         NEW F, F = FoldLeft(FillKeySeq, base, P)
  PROVE  /\ Later(F, base, Len(base))
         /\ \A j \in DOMAIN P :
              (\A l \in DOMAIN P : l > j => P[l].shell # P[j].shell) =>
                 Obeys(base, F, F[P[j].shell].body, P[j].actions, Len(P[j].actions))
<1> DEFINE N == Len(P)
           L == Len(base)
           R(s, n) == /\ Later(s, base, L)
                      /\ \A j \in 1..n :
                           (\A l \in 1..n : l > j => P[l].shell # P[j].shell) =>
                              Obeys(base, s, s[P[j].shell].body, P[j].actions,
                                    Len(P[j].actions))
<1>0. N \in Nat /\ DOMAIN P = 1..N  BY TableFacts
<1>a. PICK K : SeqsDone(K, base, P, F)  BY FoldedSeqs
<1>1. /\ K[0] = base /\ F = K[N]
      /\ \A n \in 1..N : K[n] = FillKeySeq(K[n - 1], P[n])
  BY <1>a DEF SeqsDone
<1>2. R(K[0], 0)
  <2>1. Later(base, base, L)  BY LaterItself
  <2> QED  BY <1>1, <2>1
<1>3. ASSUME NEW n \in Nat, n + 1 <= N, R(K[n], n) PROVE R(K[n + 1], n + 1)
  <2>1. PICK s, new, p : s = K[n] /\ new = K[n + 1] /\ p = P[n + 1]  OBVIOUS
  <2>2. n + 1 \in 1..N /\ new = FillKeySeq(s, p)
    <3>1. n + 1 \in 1..N /\ (n + 1) - 1 = n  BY <1>0, <1>3
    <3> QED  BY <1>1, <2>1, <3>1
  <2>3. Later(s, base, L)  BY <1>3, <2>1
  <2>4. p.shell \in DOMAIN base /\ IsActions(p.actions)  BY <1>0, <2>1, <2>2
  <2>5. /\ Later(new, base, L) /\ Later(new, s, L)
        /\ \A m \in DOMAIN s : m # p.shell => new[m] = s[m]
        /\ Obeys(base, new, new[p.shell].body, p.actions, Len(p.actions))
    BY <2>2, <2>3, <2>4, FilledSeq
  <2>6. ASSUME NEW j \in 1..(n + 1),
               \A l \in 1..(n + 1) : l > j => P[l].shell # P[j].shell
        PROVE  Obeys(base, new, new[P[j].shell].body, P[j].actions, Len(P[j].actions))
    <3>1. CASE j = n + 1  BY <2>1, <2>5, <3>1
    <3>2. CASE j \in 1..n
      <4>1. P[j].shell # p.shell
        <5>1. n + 1 \in 1..(n + 1) /\ n + 1 > j  BY <3>2
        <5> QED  BY <2>1, <2>6, <5>1
      <4>2. \A l \in 1..n : l > j => P[l].shell # P[j].shell
        <5>1. 1..n \subseteq 1..(n + 1)  OBVIOUS
        <5> QED  BY <2>6, <5>1
      <4>3. Obeys(base, s, s[P[j].shell].body, P[j].actions, Len(P[j].actions))
        BY <1>3, <2>1, <3>2, <4>2
      <4>4. j \in DOMAIN P  BY <1>0, <1>3, <3>2
      <4>5. P[j].shell \in DOMAIN s /\ IsActions(P[j].actions)  BY <2>3, <4>4 DEF Later
      <4>6. new[P[j].shell] = s[P[j].shell]  BY <2>5, <4>1, <4>5
      <4>7. Obeys(base, new, s[P[j].shell].body, P[j].actions, Len(P[j].actions))
        BY <2>5, <4>3, <4>5, ObeysLater
      <4> QED  BY <4>6, <4>7
    <3>3. j \in 1..n \/ j = n + 1  OBVIOUS
    <3> QED  BY <3>1, <3>2, <3>3
  <2> HIDE DEF L
  <2> QED  BY <2>1, <2>5, <2>6
<1> HIDE DEF R
<1> DEFINE T == {n \in Nat : n <= N => R(K[n], n)}
<1>4. 0 \in T  BY <1>2
<1>5. ASSUME NEW n \in Nat, n \in T PROVE n + 1 \in T
  <2>1. n + 1 <= N => n <= N  BY <1>0
  <2> QED  BY <1>3, <1>5, <2>1
<1>6. N \in T
  <2> HIDE DEF T
  <2> QED  BY <1>0, <1>4, <1>5, NumbersIn
<1>7. R(F, N)  BY <1>0, <1>1, <1>6
<1> QED  BY <1>0, <1>7 DEF R

-----------------------------------------------------------------------------
(* The sequences that wait for the Commit are those of the script. *)

\* A sequence added to a table whose names differ.
LEMMA UniqueKept ==
  ASSUME NEW ss, Unique(ss), NEW nm, NEW b, NEW new, NEW a, AddedAt(ss, nm, b, new, a)
  PROVE  Unique(new)
<1> SUFFICES ASSUME NEW m \in DOMAIN new, NEW n \in DOMAIN new,
                    new[m].name # "", new[m].name = new[n].name
             PROVE  m = n
  BY DEF Unique
<1>1. /\ new[a].name = nm /\ DOMAIN new = DOMAIN ss \cup {a}
      /\ \A i \in DOMAIN ss : new[i].name = ss[i].name
      /\ a \notin DOMAIN ss => nm = "" \/ \A i \in DOMAIN ss : ss[i].name # nm
  BY DEF AddedAt
<1>2. CASE m \in DOMAIN ss /\ n \in DOMAIN ss  BY <1>1, <1>2 DEF Unique
<1>3. CASE m \notin DOMAIN ss \/ n \notin DOMAIN ss
  <2>1. a \notin DOMAIN ss /\ nm # ""  BY <1>1, <1>3
  <2>2. \A i \in DOMAIN ss : new[i].name # nm  BY <1>1, <2>1
  <2> QED  BY <1>1, <1>3, <2>2
<1> QED  BY <1>2, <1>3

\* the names of the table ss are from the script
Named(ss) ==
  \A n \in DOMAIN ss :
     ss[n].name = "" \/ \E i \in At("RegKeySeq") \cup At("DefKeymap") :
                           script[i].name = ss[n].name

\* at says which command has registered a sequence
Shelled(at) ==
  /\ \A j, k \in DOMAIN refs : j < k => at[j] < at[k]
  /\ \A i \in At("RegKeySeq") : \E k \in DOMAIN refs : at[k] = i
  /\ \A k \in DOMAIN refs :
        /\ Cardinality({j \in At("RegKeySeq") : j <= at[k]}) = k
        /\ refs[k] \in DOMAIN seqs /\ seqs[refs[k]].name = script[at[k]].name
        /\ pendingSeqs[k].shell = refs[k]
        /\ pendingSeqs[k].actions = script[at[k]].actions
  /\ \A j, k \in DOMAIN refs : refs[j] = refs[k] => j = k \/ seqs[refs[j]].name # ""

Shells ==
  /\ IsSeqs(seqs) /\ Unique(seqs) /\ Named(seqs)
  /\ IsList(pendingSeqs) /\ Len(pendingSeqs) = Len(refs)
  /\ \E at \in [DOMAIN refs -> At("RegKeySeq")] : Shelled(at)

\* The table after a command may have a sequence more, with the name it bears.
Adds(c, new) ==
  \/ new = seqs
  \/ /\ c.cmd \in {"RegKeySeq", "DefKeymap"}
     /\ \E b : new = AddKeySeq(seqs, c.name, b)

LEMMA TableKept ==
  ASSUME NEW c, Grows(c), Shells, NEW new, seqs' = new, Adds(c, new)
  PROVE  /\ IsSeqs(new) /\ Unique(new) /\ Named(seqs)'
         /\ \A n \in DOMAIN seqs : n \in DOMAIN new /\ new[n].name = seqs[n].name
<1>1. PICK n \in Nat : n = Len(script)  BY Grown
<1>2. /\ \A kind : At(kind) \subseteq 1..n
      /\ \A kind : At(kind)' = At(kind) \cup (IF c.cmd = kind THEN {n + 1} ELSE {})
      /\ \A i \in 1..n : script'[i] = script[i]
      /\ script'[n + 1] = c
  BY <1>1, Grown, GrownAt
<1> DEFINE K == At("RegKeySeq") \cup At("DefKeymap")
           KNext == At("RegKeySeq")' \cup At("DefKeymap")'
<1>3. \A i \in K : i \in KNext /\ script'[i] = script[i]  BY <1>2
<1>4. c.cmd \in {"RegKeySeq", "DefKeymap"} => n + 1 \in KNext  BY <1>2
<1>5. \A m \in DOMAIN seqs : seqs[m].name = "" \/ \E i \in K : script[i].name = seqs[m].name
  BY DEF Shells, Named
<1>6. CASE new = seqs
  <2>1. \A m \in DOMAIN new :
           new[m].name = "" \/ \E i \in KNext : script'[i].name = new[m].name
    <3> HIDE DEF K, KNext
    <3>1. \A m \in DOMAIN new : new[m].name = "" \/ \E i \in K : script[i].name = new[m].name
      BY <1>5, <1>6
    <3> HIDE <1>6
    <3> QED  BY <1>3, <3>1
  <2>2. Named(seqs)'  BY <2>1 DEF Named
  <2> QED  BY <1>6, <2>2 DEF Shells
<1>7. CASE /\ c.cmd \in {"RegKeySeq", "DefKeymap"}
           /\ \E b : new = AddKeySeq(seqs, c.name, b)
  <2>1. PICK b : new = AddKeySeq(seqs, c.name, b)  BY <1>7
  <2>2. PICK a : a = AddedSeq(seqs, c.name)  OBVIOUS
  <2>3. AddedAt(seqs, c.name, b, new, a)  BY <2>1, <2>2, AddedSeqIs DEF Shells
  <2>4. Unique(new)  BY <2>3, UniqueKept DEF Shells
  <2>5. /\ IsSeqs(new) /\ DOMAIN new = DOMAIN seqs \cup {a} /\ new[a].name = c.name
        /\ \A m \in DOMAIN seqs : new[m].name = seqs[m].name
    BY <2>3 DEF AddedAt
  <2>6. \A m \in DOMAIN new :
           new[m].name = "" \/ \E i \in KNext : script'[i].name = new[m].name
    <3> TAKE m \in DOMAIN new
    <3>1. CASE m \in DOMAIN seqs
      <4>1. new[m].name = seqs[m].name  BY <2>5, <3>1
      <4> HIDE DEF K, KNext
      <4> QED  BY <1>3, <1>5, <3>1, <4>1
    <3>2. CASE m = a  BY <1>2, <1>4, <1>7, <2>5, <3>2
    <3> QED  BY <2>5, <3>1, <3>2
  <2>7. Named(seqs)'  BY <2>6 DEF Named
  <2> QED  BY <2>4, <2>5, <2>7
<1> QED  BY <1>6, <1>7 DEF Adds

\* No sequence is registered.
LEMMA ShellsQuiet ==
  ASSUME NEW c, Grows(c), c.cmd # "RegKeySeq", Shells, Adds(c, seqs'),
         refs' = refs, pendingSeqs' = pendingSeqs
  PROVE  Shells'
<1>1. PICK n \in Nat : n = Len(script)  BY Grown
<1>2. /\ At("RegKeySeq") \subseteq 1..n /\ At("RegKeySeq")' = At("RegKeySeq")
      /\ \A i \in 1..n : script'[i] = script[i]
  <2>1. At("RegKeySeq") \subseteq 1..n  BY <1>1, GrownAt
  <2>2. At("RegKeySeq")' = At("RegKeySeq")  BY GrownAt
  <2>3. \A i \in 1..n : script'[i] = script[i]  BY <1>1, Grown
  <2> QED  BY <2>1, <2>2, <2>3
<1>3. PICK at \in [DOMAIN refs -> At("RegKeySeq")] : Shelled(at)  BY DEF Shells
<1>4. PICK new : new = seqs'  OBVIOUS
<1>5. /\ IsSeqs(new) /\ Unique(new) /\ Named(seqs)'
      /\ \A m \in DOMAIN seqs : m \in DOMAIN new /\ new[m].name = seqs[m].name
  BY <1>4, TableKept
<1>6. \A k \in DOMAIN refs : script'[at[k]] = script[at[k]]  BY <1>2, <1>3
<1>7. Shelled(at)'
  <2>1. /\ \A j, k \in DOMAIN refs' : j < k => at[j] < at[k]
        /\ \A i \in At("RegKeySeq")' : \E k \in DOMAIN refs' : at[k] = i
    BY <1>2, <1>3 DEF Shelled
  <2>2. ASSUME NEW k \in DOMAIN refs'
        PROVE  /\ Cardinality({j \in At("RegKeySeq")' : j <= at[k]}) = k
               /\ refs'[k] \in DOMAIN seqs' /\ seqs'[refs'[k]].name = script'[at[k]].name
               /\ pendingSeqs'[k].shell = refs'[k]
               /\ pendingSeqs'[k].actions = script'[at[k]].actions
    <3>1. k \in DOMAIN refs  OBVIOUS
    <3>2. Cardinality({j \in At("RegKeySeq")' : j <= at[k]}) = k
      BY <1>2, <1>3, <3>1 DEF Shelled
    <3>3. /\ refs[k] \in DOMAIN seqs /\ seqs[refs[k]].name = script[at[k]].name
          /\ pendingSeqs[k].shell = refs[k]
          /\ pendingSeqs[k].actions = script[at[k]].actions
      BY <1>3, <3>1 DEF Shelled
    <3> QED  BY <1>4, <1>5, <1>6, <3>1, <3>2, <3>3
  <2>3. ASSUME NEW j \in DOMAIN refs', NEW k \in DOMAIN refs', refs'[j] = refs'[k], j # k
        PROVE  seqs'[refs'[j]].name # ""
    <3>1. seqs[refs[j]].name # "" /\ refs[j] \in DOMAIN seqs  BY <1>3, <2>3 DEF Shelled
    <3> QED  BY <1>4, <1>5, <3>1
  <2> QED  BY <2>1, <2>2, <2>3 DEF Shelled
<1>8. (IsSeqs(seqs) /\ Unique(seqs))'  BY <1>4, <1>5 DEF IsSeqs, Unique, IsList
<1>9. IsList(pendingSeqs)' /\ Len(pendingSeqs') = Len(refs')  BY DEF Shells, IsList
<1> QED  BY <1>2, <1>3, <1>5, <1>7, <1>8, <1>9 DEF Shells

\* One is.
LEMMA ShellsReg ==
  ASSUME NEW c, Grows(c), c.cmd = "RegKeySeq", Shells, References,
         NEW a, a = AddedSeq(seqs, c.name),
         seqs' = AddKeySeq(seqs, c.name, <<>>), refs' = Append(refs, a),
         pendingSeqs' = Append(pendingSeqs, [shell |-> a, actions |-> c.actions])
  PROVE  Shells'
<1>1. PICK n \in Nat : n = Len(script)  BY Grown
<1>2. /\ At("RegKeySeq") \subseteq 1..n /\ At("RegKeySeq")' = At("RegKeySeq") \cup {n + 1}
      /\ \A i \in 1..n : script'[i] = script[i]
      /\ script'[n + 1] = c
  BY <1>1, Grown, GrownAt
<1>3. PICK at \in [DOMAIN refs -> At("RegKeySeq")] : Shelled(at)  BY DEF Shells
<1>4. PICK new, b : new = seqs' /\ b = <<>>  OBVIOUS
<1>5. /\ IsSeqs(new) /\ Unique(new) /\ Named(seqs)'
      /\ \A m \in DOMAIN seqs : m \in DOMAIN new /\ new[m].name = seqs[m].name
  <2>1. Adds(c, new)  BY <1>4 DEF Adds
  <2> QED  BY <1>4, <2>1, TableKept
<1>6. AddedAt(seqs, c.name, b, new, a)  BY <1>4, AddedSeqIs DEF Shells
<1>7. PICK l \in Nat : l = Len(refs) /\ DOMAIN refs = 1..l
  BY AppendedTo DEF References
<1>8. /\ DOMAIN refs' = 1..(l + 1) /\ refs'[l + 1] = a
      /\ \A k \in 1..l : refs'[k] = refs[k]
  BY <1>7, AppendedTo DEF References
<1>9. /\ IsList(pendingSeqs') /\ DOMAIN pendingSeqs' = 1..(l + 1)
      /\ pendingSeqs'[l + 1] = [shell |-> a, actions |-> c.actions]
      /\ \A k \in 1..l : pendingSeqs'[k] = pendingSeqs[k]
  <2>1. Len(pendingSeqs) \in Nat /\ DOMAIN pendingSeqs = 1..Len(pendingSeqs)
    BY TableFacts DEF Shells
  <2>2. Len(pendingSeqs) = l  BY <1>7 DEF Shells
  <2> QED  BY <2>2, AppendedTo DEF Shells
<1> DEFINE to == [k \in 1..(l + 1) |-> IF k \in 1..l THEN at[k] ELSE n + 1]
<1>10. /\ \A k \in 1..l : to[k] = at[k] /\ at[k] \in 1..n /\ at[k] \in At("RegKeySeq")
       /\ to[l + 1] = n + 1
       /\ \A k \in 1..(l + 1) : k \in 1..l \/ k = l + 1
  <2>1. \A k \in 1..l : at[k] \in At("RegKeySeq") /\ at[k] \in 1..n  BY <1>2, <1>7
  <2>2. \A k \in 1..l : to[k] = at[k]  OBVIOUS
  <2>3. to[l + 1] = n + 1  OBVIOUS
  <2>4. \A k \in 1..(l + 1) : k \in 1..l \/ k = l + 1  OBVIOUS
  <2> QED  BY <2>1, <2>2, <2>3, <2>4
<1>11. to \in [1..(l + 1) -> At("RegKeySeq")']  BY <1>2, <1>10
<1> HIDE DEF to
<1>12. ASSUME NEW j \in 1..(l + 1), NEW k \in 1..(l + 1), j < k PROVE to[j] < to[k]
  <2>0. j \in 1..l  BY <1>12
  <2>1. CASE k \in 1..l  BY <1>3, <1>7, <1>10, <1>12, <2>0, <2>1 DEF Shelled
  <2>2. CASE k = l + 1  BY <1>10, <2>0, <2>2
  <2> QED  BY <1>10, <2>1, <2>2
<1>13. ASSUME NEW i \in At("RegKeySeq")' PROVE \E k \in 1..(l + 1) : to[k] = i
  <2>1. CASE i \in At("RegKeySeq")
    <3>1. PICK k \in DOMAIN refs : at[k] = i  BY <1>3, <2>1 DEF Shelled
    <3>2. k \in 1..l /\ k \in 1..(l + 1)  BY <1>7
    <3>3. to[k] = i  BY <1>10, <3>1, <3>2
    <3> QED  BY <3>2, <3>3
  <2>2. CASE i = n + 1
    <3>1. l + 1 \in 1..(l + 1)  OBVIOUS
    <3> QED  BY <1>10, <2>2, <3>1
  <2> QED  BY <1>2, <2>1, <2>2
<1>14. ASSUME NEW k \in 1..(l + 1)
       PROVE  Cardinality({j \in At("RegKeySeq")' : j <= to[k]}) = k
  <2> DEFINE S == {j \in At("RegKeySeq")' : j <= to[k]}
  <2>1. CASE k \in 1..l
    <3>1. S = {j \in At("RegKeySeq") : j <= at[k]}  BY <1>2, <1>10, <2>1
    <3>2. Cardinality({j \in At("RegKeySeq") : j <= at[k]}) = k
      BY <1>3, <1>7, <2>1 DEF Shelled
    <3> QED  BY <3>1, <3>2
  <2>2. CASE k = l + 1
    <3>1. S = At("RegKeySeq") \cup {n + 1} /\ n + 1 \notin At("RegKeySeq")
      BY <1>2, <1>10, <2>2
    <3>2. IsFiniteSet(At("RegKeySeq")) /\ Cardinality(At("RegKeySeq")) = l
      <4>1. script \in Seq(Commands) /\ n \in Int  BY DEF Grows
      <4> QED  BY <1>7, <4>1, RegisteredBy DEF References
    <3>3. Cardinality(At("RegKeySeq") \cup {n + 1}) = l + 1
      BY <3>1, <3>2, FS_AddElement
    <3> QED  BY <2>2, <3>1, <3>3
  <2> QED  BY <1>10, <2>1, <2>2
<1>15. /\ a \in DOMAIN new /\ new[a].name = c.name
       /\ a \in DOMAIN seqs => c.name # ""
  BY <1>6 DEF AddedAt
<1>16. ASSUME NEW k \in 1..(l + 1)
       PROVE  /\ refs'[k] \in DOMAIN new /\ new[refs'[k]].name = script'[to[k]].name
              /\ pendingSeqs'[k].shell = refs'[k]
              /\ pendingSeqs'[k].actions = script'[to[k]].actions
  <2>1. CASE k \in 1..l
    <3>1. /\ refs[k] \in DOMAIN seqs /\ seqs[refs[k]].name = script[at[k]].name
          /\ pendingSeqs[k].shell = refs[k]
          /\ pendingSeqs[k].actions = script[at[k]].actions
      BY <1>3, <1>7, <2>1 DEF Shelled
    <3>2. script'[to[k]] = script[at[k]]  BY <1>2, <1>10, <2>1
    <3>3. refs'[k] = refs[k] /\ pendingSeqs'[k] = pendingSeqs[k]  BY <1>8, <1>9, <2>1
    <3> QED  BY <1>5, <3>1, <3>2, <3>3
  <2>2. CASE k = l + 1
    <3>1. script'[to[k]] = c /\ refs'[k] = a  BY <1>2, <1>8, <1>10, <2>2
    <3>2. pendingSeqs'[k].shell = a /\ pendingSeqs'[k].actions = c.actions
      BY <1>9, <2>2
    <3> QED  BY <1>15, <3>1, <3>2
  <2> QED  BY <1>10, <2>1, <2>2
<1>17. ASSUME NEW j \in 1..(l + 1), NEW k \in 1..(l + 1), refs'[j] = refs'[k], j # k
       PROVE  new[refs'[j]].name # ""
  <2>0. \A i \in 1..l : refs[i] \in DOMAIN seqs /\ refs'[i] = refs[i]
    BY <1>3, <1>7, <1>8 DEF Shelled
  <2>1. CASE j \in 1..l /\ k \in 1..l
    <3>1. seqs[refs[j]].name # ""  BY <1>3, <1>7, <1>17, <2>0, <2>1 DEF Shelled
    <3> QED  BY <1>5, <2>0, <2>1, <3>1
  <2>2. CASE j = l + 1 \/ k = l + 1
    <3>1. refs'[j] = a /\ a \in DOMAIN seqs  BY <1>8, <1>10, <1>17, <2>0, <2>2
    <3> QED  BY <1>15, <3>1
  <2> QED  BY <1>10, <2>1, <2>2
<1>18. Shelled(to)'
  <2>1. DOMAIN refs' = 1..(l + 1) /\ seqs' = new  BY <1>4, <1>8
  <2>2. /\ \A j, k \in DOMAIN refs' : j < k => to[j] < to[k]
        /\ \A i \in At("RegKeySeq")' : \E k \in DOMAIN refs' : to[k] = i
    BY <1>12, <1>13, <2>1
  <2>3. ASSUME NEW k \in DOMAIN refs'
        PROVE  /\ Cardinality({j \in At("RegKeySeq")' : j <= to[k]}) = k
               /\ refs'[k] \in DOMAIN seqs' /\ seqs'[refs'[k]].name = script'[to[k]].name
               /\ pendingSeqs'[k].shell = refs'[k]
               /\ pendingSeqs'[k].actions = script'[to[k]].actions
    <3>1. k \in 1..(l + 1)  BY <2>1
    <3> QED  BY <1>14, <1>16, <2>1, <3>1
  <2>4. ASSUME NEW j \in DOMAIN refs', NEW k \in DOMAIN refs', refs'[j] = refs'[k], j # k
        PROVE  seqs'[refs'[j]].name # ""
    <3>1. j \in 1..(l + 1) /\ k \in 1..(l + 1)  BY <2>1
    <3> QED  BY <1>17, <2>1, <2>4, <3>1
  <2> QED  BY <2>2, <2>3, <2>4 DEF Shelled
<1>19. (IsSeqs(seqs) /\ Unique(seqs))'  BY <1>4, <1>5 DEF IsSeqs, Unique, IsList
<1>20. IsList(pendingSeqs)' /\ Len(pendingSeqs') = Len(refs')
  <2>1. Len(refs') = Len(refs) + 1  BY AppendedTo DEF References
  <2>2. Len(pendingSeqs') = Len(pendingSeqs) + 1  BY AppendedTo DEF Shells
  <2> QED  BY <1>9, <2>1, <2>2 DEF IsList, Shells
<1> QED  BY <1>5, <1>8, <1>11, <1>18, <1>19, <1>20 DEF Shells

-----------------------------------------------------------------------------
(* Commit fills them as the script says. *)

\* SequencesFilled, of one registration and the table ss.
MeansIn(ss, item, a) ==
    CASE a.t = "key"  -> item = KeyAct(Denotes(a.name, AtEnd))
      [] a.t = "ref"  -> item.t = "seq" /\ ss[item.seq].name = a.name
      [] a.t = "func" -> item = FuncAct(a.name)
      [] a.t = "sub"  -> /\ item.t = "seq" /\ ss[item.seq].name = ""
                         /\ Len(ss[item.seq].body) <= Len(a.subs)

MeansSomethingIn(ss, a) ==
    CASE a.t = "key"  -> Denotes(a.name, AtEnd) # None
      [] a.t = "ref"  -> \E i \in At("RegKeySeq") \union At("DefKeymap") :
                            script[i].name = a.name /\ SeqNamed(ss, a.name) # 0
      [] a.t = "func" -> a.name \in KnownFunctions
      [] a.t = "sub"  -> TRUE

\* the registrations of the name of the one at i
SameSeq(i) == {j \in At("RegKeySeq") :
                  \/ j = i
                  \/ /\ script[i].name # ""
                     /\ script[j].name = script[i].name}
Place(i) == Cardinality({j \in At("RegKeySeq") : j <= i})

Filling(ss, said, body) ==
  LET meant == {n \in DOMAIN said : MeansSomethingIn(ss, said[n])}
  IN  /\ Len(body) = Cardinality(meant)
      /\ \A n \in meant :
            MeansIn(ss, body[Cardinality(meant \cap (1 .. n))], said[n])

FilledAs(ss, i) ==
  Filling(ss, script[Max(SameSeq(i))].actions, ss[Denoted(Place(i), AtEnd)].body)

LEMMA FilledIs ==
  SequencesFilled <=> (committed => \A i \in At("RegKeySeq") : FilledAs(seqs, i))
BY DEF SequencesFilled, FilledAs, Filling, MeansIn, MeansSomethingIn, Means,
       MeansSomething, SameSeq, Place

\* What the script says of sequences depends on the script alone.
LEMMA SameFilled ==
  ASSUME script' = script, refs' = refs, NEW ss, NEW i
  PROVE  FilledAs(ss, i)' <=> FilledAs(ss, i)
<1>1. /\ AtEnd' = AtEnd /\ \A kind : At(kind)' = At(kind)
      /\ \A y, j : (Defined(y, j)' <=> Defined(y, j)) /\ AliasesOf(y, j)' = AliasesOf(y, j)
  BY SameScript
<1>2. \A y, j : Denotes(y, j)' = Denotes(y, j)
  BY <1>1, DenotesIs, DenotesIsNext
<1>3. \A idx, j : Denoted(idx, j)' = Denoted(idx, j)  BY <1>1 DEF Denoted
<1>4. PICK e : e = AtEnd  OBVIOUS
<1>5. AtEnd' = e  BY <1>1, <1>4
<1>6. \A y : Denotes(y, AtEnd)' = Denotes(y, AtEnd)
  <2> TAKE y
  <2>1. Denotes(y, e)' = Denotes(y, e)  BY <1>2
  <2> QED  BY <1>4, <1>5, <2>1
<1>7. ASSUME NEW a PROVE MeansSomethingIn(ss, a)' <=> MeansSomethingIn(ss, a)
  <2>1. PICK y : y = a.name  OBVIOUS
  <2>2. Denotes(a.name, AtEnd)' = Denotes(a.name, AtEnd)  BY <1>6
  <2> QED  BY <1>1, <2>2 DEF MeansSomethingIn
<1>8. ASSUME NEW item, NEW a PROVE MeansIn(ss, item, a)' <=> MeansIn(ss, item, a)
  <2>2. Denotes(a.name, AtEnd)' = Denotes(a.name, AtEnd)  BY <1>6
  <2> QED  BY <2>2 DEF MeansIn
<1>9. ASSUME NEW said, NEW body PROVE Filling(ss, said, body)' <=> Filling(ss, said, body)
  BY <1>7, <1>8 DEF Filling
<1>10. SameSeq(i)' = SameSeq(i) /\ Place(i)' = Place(i)  BY <1>1 DEF SameSeq, Place
<1>11. PICK idx, m : idx = Place(i) /\ m = Max(SameSeq(i))  OBVIOUS
<1>12. Denoted(Place(i), AtEnd)' = Denoted(Place(i), AtEnd)
  <2>1. Denoted(idx, e)' = Denoted(idx, e)  BY <1>3
  <2> QED  BY <1>4, <1>5, <1>10, <1>11, <2>1
<1>13. PICK said, body : /\ said = script[m].actions
                         /\ body = ss[Denoted(Place(i), AtEnd)].body
  OBVIOUS
<1>14. FilledAs(ss, i) <=> Filling(ss, said, body)  BY <1>11, <1>13 DEF FilledAs
<1>15. FilledAs(ss, i)' <=> Filling(ss, said, body)'
  BY <1>10, <1>11, <1>12, <1>13 DEF FilledAs
<1> QED  BY <1>9, <1>14, <1>15

\* An item fits an action, and an action names something, as the script says.
LEMMA SaysTheSame ==
  ASSUME Symbols, NEW base, IsSeqs(base), Named(base), NEW ss, Later(ss, base, Len(base)),
         NEW a, a.t \in {"key", "ref", "func", "sub"}, NEW item
  PROVE  /\ MeansSomethingIn(ss, a) <=> Something(base, a)
         /\ Fits(ss, Len(base), item, a) => MeansIn(ss, item, a)
<1>1. SearchKey(a.name) = Denotes(a.name, AtEnd)  BY SearchKeyIs
<1>2. CASE a.t = "key"
  BY <1>1, <1>2 DEF MeansSomethingIn, Something, Fits, MeansIn
<1>3. CASE a.t = "func"
  BY <1>3 DEF MeansSomethingIn, Something, Fits, MeansIn
<1>4. CASE a.t = "sub"
  BY <1>4 DEF MeansSomethingIn, Something, Fits, MeansIn
<1>5. CASE a.t = "ref"
  <2>1. PICK nm : nm = a.name  OBVIOUS
  <2>2. SeqNamed(ss, nm) = 0 <=> SeqNamed(base, nm) = 0  BY LaterNamed
  <2>3. ASSUME SeqNamed(base, nm) # 0
        PROVE  \E i \in At("RegKeySeq") \cup At("DefKeymap") : script[i].name = nm
    <3>1. PICK n : n = SeqNamed(base, nm)  OBVIOUS
    <3>2. nm # "" /\ n \in DOMAIN base /\ base[n].name = nm
      BY <2>3, <3>1, SeqNamedIs DEF IsSeqs
    <3> QED  BY <3>2 DEF Named
  <2>4. MeansSomethingIn(ss, a) <=>
          (\E i \in At("RegKeySeq") \cup At("DefKeymap") : script[i].name = nm)
          /\ SeqNamed(ss, nm) # 0
    BY <1>5, <2>1 DEF MeansSomethingIn
  <2>5. Something(base, a) <=> SeqNamed(base, nm) # 0  BY <1>5, <2>1 DEF Something
  <2>6. Fits(ss, Len(base), item, a) => MeansIn(ss, item, a)  BY <1>5 DEF Fits, MeansIn
  <2> QED  BY <2>2, <2>3, <2>4, <2>5, <2>6
<1> QED  BY <1>2, <1>3, <1>4, <1>5

\* A sequence that obeys its actions is filled as the script says.
LEMMA ObeyedIsFilled ==
  ASSUME Symbols, NEW base, IsSeqs(base), Named(base), NEW ss, Later(ss, base, Len(base)),
         NEW said, IsActions(said), NEW body, Obeys(base, ss, body, said, Len(said))
  PROVE  Filling(ss, said, body)
<1> DEFINE meant == {n \in DOMAIN said : MeansSomethingIn(ss, said[n])}
           N == Len(said)
<1>0. N \in Nat /\ DOMAIN said = 1..N  BY TableFacts DEF IsActions
<1>1. \A n \in DOMAIN said : said[n].t \in {"key", "ref", "func", "sub"}
  BY DEF IsActions, ToSet
<1>2. meant = Meant(base, said)
  <2>1. \A n \in DOMAIN said : MeansSomethingIn(ss, said[n]) <=> Something(base, said[n])
    BY <1>1, SaysTheSame
  <2> QED  BY <2>1 DEF Meant
<1>3. meant \subseteq 1..N  BY <1>0
<1> HIDE DEF meant
<1>4. meant \cap (1..N) = meant  BY <1>3
<1>5. \A n : Said(base, said, n) = Cardinality(meant \cap (1..n))
  BY <1>2 DEF Said, CountTo
<1>6. Len(body) = Cardinality(meant)  BY <1>4, <1>5 DEF Obeys
<1>7. ASSUME NEW n \in meant
      PROVE  MeansIn(ss, body[Cardinality(meant \cap (1 .. n))], said[n])
  <2>1. n \in DOMAIN said /\ n <= N  BY <1>0, <1>3
  <2>2. Fits(ss, Len(base), body[Said(base, said, n)], said[n])
    BY <1>2, <2>1 DEF Obeys
  <2>3. said[n].t \in {"key", "ref", "func", "sub"}  BY <1>1, <2>1
  <2>4. MeansIn(ss, body[Said(base, said, n)], said[n])  BY <2>2, <2>3, SaysTheSame
  <2> QED  BY <1>5, <2>4
<1> QED  BY <1>6, <1>7 DEF Filling, meant

\* The last registration of a name is the one its shell is filled by.
LEMMA FilledNow ==
  ASSUME IInv, Shells, NEW ss, ss = Filled, NEW i \in At("RegKeySeq")
  PROVE  FilledAs(ss, i)
<1>1. PICK at \in [DOMAIN refs -> At("RegKeySeq")] : Shelled(at)  BY DEF Shells
<1>2. PICK l \in Nat : /\ l = Len(refs) /\ DOMAIN refs = 1..l /\ DOMAIN pendingSeqs = 1..l
  BY AppendedTo, TableFacts DEF IInv, References, Shells
<1>3. /\ IsSeqs(seqs) /\ Unique(seqs) /\ Named(seqs) /\ IsList(pendingSeqs)
      /\ Symbols /\ References /\ script \in Seq(Commands)
  BY DEF IInv, Shells
<1>4. PICK n \in Nat : n = Len(script) /\ DOMAIN script = 1..n  BY <1>3, SeqFacts
\* what waits for the Commit
<1>5. ASSUME NEW k \in DOMAIN pendingSeqs
      PROVE  /\ k \in DOMAIN refs /\ at[k] \in At("RegKeySeq")
             /\ pendingSeqs[k].shell = refs[k] /\ refs[k] \in DOMAIN seqs
             /\ seqs[refs[k]].name = script[at[k]].name
             /\ pendingSeqs[k].actions = script[at[k]].actions
             /\ IsActions(script[at[k]].actions)
             /\ Place(at[k]) = k
  <2>1. k \in DOMAIN refs  BY <1>2
  <2>2. /\ Cardinality({j \in At("RegKeySeq") : j <= at[k]}) = k
        /\ refs[k] \in DOMAIN seqs /\ seqs[refs[k]].name = script[at[k]].name
        /\ pendingSeqs[k].shell = refs[k]
        /\ pendingSeqs[k].actions = script[at[k]].actions
    BY <1>1, <2>1 DEF Shelled
  <2>3. at[k] \in At("RegKeySeq")  BY <2>1
  <2>4. PICK c \in Commands : c = script[at[k]] /\ c.cmd = "RegKeySeq"
    BY <1>3, <2>3 DEF At
  <2>5. IsActions(c.actions)  BY <2>4, CommandsAssumption DEF IsActions
  <2> QED  BY <2>1, <2>2, <2>3, <2>4, <2>5 DEF Place
<1>6. PICK x \in DOMAIN pendingSeqs : at[x] = i
  <2>1. PICK x \in DOMAIN refs : at[x] = i  BY <1>1 DEF Shelled
  <2> QED  BY <1>2, <2>1
<1>7. PICK m : m = Max(SameSeq(i))  OBVIOUS
<1>8. m \in SameSeq(i) /\ \A j \in SameSeq(i) : j <= m
  <2>1. i \in SameSeq(i)  BY DEF SameSeq
  <2>2. SameSeq(i) \in SUBSET (1..n)  BY <1>4 DEF SameSeq, At
  <2> QED  BY <1>7, <2>1, <2>2, MaxOf
<1>9. PICK y \in DOMAIN pendingSeqs : at[y] = m
  <2>1. m \in At("RegKeySeq")  BY <1>8 DEF SameSeq
  <2>2. PICK y \in DOMAIN refs : at[y] = m  BY <1>1, <2>1 DEF Shelled
  <2> QED  BY <1>2, <2>2
<1>10. script[m].name = script[i].name  BY <1>8 DEF SameSeq
\* the two are for one shell
<1>11. refs[y] = refs[x]
  <2>1. CASE m = i
    <3>1. Place(m) = y /\ Place(i) = x  BY <1>5, <1>6, <1>9
    <3> QED  BY <2>1, <3>1
  <2>2. CASE m # i
    <3>1. script[i].name # ""  BY <1>8, <2>2 DEF SameSeq
    <3>2. /\ refs[x] \in DOMAIN seqs /\ refs[y] \in DOMAIN seqs
          /\ seqs[refs[x]].name = script[i].name /\ seqs[refs[y]].name = script[m].name
      BY <1>5, <1>6, <1>9
    <3> QED  BY <1>3, <1>10, <3>1, <3>2 DEF Unique
  <2> QED  BY <2>1, <2>2
\* and none after it is
<1>12. ASSUME NEW z \in DOMAIN pendingSeqs, z > y,
              pendingSeqs[z].shell = pendingSeqs[y].shell
       PROVE  FALSE
  <2>1. refs[z] = refs[y] /\ z # y /\ z \in DOMAIN refs /\ y \in DOMAIN refs
    BY <1>2, <1>5, <1>12
  <2>2. seqs[refs[z]].name # ""  BY <1>1, <2>1 DEF Shelled
  <2>3. script[at[z]].name = script[i].name /\ script[i].name # ""
    BY <1>5, <1>9, <1>10, <2>1, <2>2
  <2>4. at[z] \in SameSeq(i)  BY <1>5, <2>3 DEF SameSeq
  <2>5. at[z] <= at[y]  BY <1>8, <1>9, <2>4
  <2>6. at[y] < at[z]  BY <1>1, <1>2, <1>12, <2>1 DEF Shelled
  <2>7. at[y] \in 1..n /\ at[z] \in 1..n  BY <1>4, <1>5 DEF At
  <2> QED  BY <2>5, <2>6, <2>7
<1>13. PICK base, P : base = seqs /\ P = pendingSeqs  OBVIOUS
<1>14. /\ Later(ss, base, Len(base))
       /\ Obeys(base, ss, ss[P[y].shell].body, P[y].actions, Len(P[y].actions))
  <2>1. ss = FoldLeft(FillKeySeq, base, P)  BY <1>13 DEF Filled
  <2>2. \A k \in DOMAIN P : P[k].shell \in DOMAIN base /\ IsActions(P[k].actions)
    BY <1>5, <1>13
  <2>3. IsSeqs(base) /\ IsList(P)  BY <1>3, <1>13
  <2>4. \A z \in DOMAIN P : z > y => P[z].shell # P[y].shell  BY <1>12, <1>13
  <2>5. y \in DOMAIN P  BY <1>13
  <2> QED  BY <2>1, <2>2, <2>3, <2>4, <2>5, FilledSeqs
<1>15. PICK said, body : said = script[m].actions /\ body = ss[refs[x]].body  OBVIOUS
<1>16. Obeys(base, ss, body, said, Len(said)) /\ IsActions(said)
  BY <1>5, <1>9, <1>11, <1>13, <1>14, <1>15
<1>17. Filling(ss, said, body)
  BY <1>3, <1>13, <1>14, <1>16, ObeyedIsFilled
<1>18. Denoted(Place(i), AtEnd) = refs[x]
  <2>1. Place(i) = x /\ x \in DOMAIN refs  BY <1>5, <1>6
  <2>2. KeySeqRef(x) = Denoted(x, AtEnd)  BY <1>3, KeySeqRefIs
  <2> QED  BY <2>1, <2>2 DEF KeySeqRef
<1> QED  BY <1>7, <1>15, <1>17, <1>18 DEF FilledAs

-----------------------------------------------------------------------------
FillInv ==
  /\ open => Shells
  /\ committed => ~open
  /\ SequencesFilled

LEMMA FillInit == Init => FillInv
BY DEF Init, FillInv, SequencesFilled

\* A command of an open block: there is nothing committed.
LEMMA FillTaken ==
  ASSUME IInv, FillInv, NEW c \in Commands, Take(c),
         c.cmd # "RegKeySeq", Adds(c, seqs'), refs' = refs, pendingSeqs' = pendingSeqs
  PROVE  FillInv'
<1>1. Grows(c)  BY Taken
<1>2. open /\ open' /\ ~committed'  BY DEF Take, FillInv
<1>3. Shells'  BY <1>1, <1>2, ShellsQuiet DEF FillInv
<1> QED  BY <1>2, <1>3 DEF FillInv, SequencesFilled

LEMMA FillReg ==
  ASSUME IInv, FillInv, NEW c \in Is("RegKeySeq"), RegKeySeq(c)
  PROVE  FillInv'
<1>1. c \in Commands /\ c.cmd = "RegKeySeq" /\ Take(c)  BY DEF Is, RegKeySeq
<1>2. Grows(c)  BY <1>1, Taken
<1>3. open /\ open' /\ ~committed'  BY <1>1 DEF Take, FillInv
<1>4. Shells'  BY <1>1, <1>2, <1>3, ShellsReg DEF FillInv, IInv, RegKeySeq
<1> QED  BY <1>3, <1>4 DEF FillInv, SequencesFilled

\* DefKeymap may add the sequence that is implied.
LEMMA FillKeymap ==
  ASSUME IInv, FillInv, NEW c \in Is("DefKeymap"), DefKeymap(c)
  PROVE  FillInv'
<1>1. c \in Commands /\ c.cmd = "DefKeymap" /\ Take(c)  BY DEF Is, DefKeymap
<1>2. Adds(c, seqs') /\ refs' = refs /\ pendingSeqs' = pendingSeqs
  BY <1>1 DEF DefKeymap, Adds
<1> QED  BY <1>1, <1>2, FillTaken

\* One sequence that has no name.
LEMMA FillReset ==
  ASSUME Reset
  PROVE  FillInv'
<1>0. PICK b : b = <<FuncAct("OtherWindowClass")>>  OBVIOUS
<1>a. PICK e : e = [name |-> "", body |-> b]  OBVIOUS
<1>b. e.name = "" /\ e = [name |-> e.name, body |-> e.body]
  <2>1. e.name = "" /\ e.body = b  BY <1>a
  <2> QED  BY <1>a, <2>1
<1> DEFINE ss == <<e>>
<1>2. /\ script' = <<>> /\ pendingSeqs' = <<>> /\ refs' = <<>> /\ seqs' = ss /\ ~committed'
  BY <1>0, <1>a DEF Reset, Started, Global
<1>3. DOMAIN ss = {1} /\ ss[1] = e  OBVIOUS
<1>4. IsList(ss)
  <2>1. ss \in Seq({e})  OBVIOUS
  <2> QED  BY <2>1, SeqFacts
<1>5. ss[1].name = "" /\ ss[1] = [name |-> ss[1].name, body |-> ss[1].body]  BY <1>b, <1>3
<1> HIDE DEF ss
<1>6. IsSeqs(ss) /\ Unique(ss) /\ \A n \in DOMAIN ss : ss[n].name = ""
  BY <1>3, <1>4, <1>5 DEF IsSeqs, Unique
<1>7. (IsSeqs(seqs) /\ Unique(seqs) /\ Named(seqs))'
  BY <1>2, <1>6 DEF IsSeqs, Unique, IsList, Named
<1>8. IsList(pendingSeqs)' /\ Len(pendingSeqs') = Len(refs')
  <2>1. <<>> \in Seq({})  OBVIOUS
  <2>2. IsList(<<>>)  BY <2>1, SeqFacts
  <2> QED  BY <1>2, <2>2 DEF IsList
<1>9. \E at \in [DOMAIN refs' -> At("RegKeySeq")'] : Shelled(at)'
  <2> DEFINE at == [k \in {} |-> 0]
  <2>1. DOMAIN refs' = {} /\ at \in [{} -> {}]  BY <1>2
  <2>2. At("RegKeySeq")' = {}  BY <1>2 DEF At
  <2> HIDE DEF at
  <2>3. Shelled(at)'  BY <2>1, <2>2 DEF Shelled
  <2> QED  BY <2>1, <2>2, <2>3
<1>10. Shells'  BY <1>7, <1>8, <1>9 DEF Shells
<1> QED  BY <1>2, <1>10 DEF FillInv, SequencesFilled

\* What is waiting, and what is filled, is so while the tables stay.
LEMMA FillSame ==
  ASSUME FillInv, open' = open, committed' = committed, script' = script, refs' = refs,
         seqs' = seqs, pendingSeqs' = pendingSeqs
  PROVE  FillInv'
<1>1. \A kind : At(kind)' = At(kind)  BY DEF At
<1>2. ASSUME Shells PROVE Shells'
  <2>1. \A at : Shelled(at)' <=> Shelled(at)  BY <1>1 DEF Shelled
  <2>2. Named(seqs)'  BY <1>1, <1>2 DEF Shells, Named
  <2> QED  BY <1>1, <1>2, <2>1, <2>2 DEF Shells, IsSeqs, Unique, IsList
<1>3. SequencesFilled'
  <2>1. PICK ss : ss = seqs  OBVIOUS
  <2>2. committed => \A i \in At("RegKeySeq") : FilledAs(seqs, i)
    BY FilledIs DEF FillInv
  <2>3. \A i : FilledAs(seqs, i) <=> FilledAs(ss, i)  BY <2>1
  <2>4. \A i : FilledAs(seqs, i)' <=> FilledAs(ss, i)'  BY <2>1 DEF FilledAs, Filling, MeansIn, MeansSomethingIn
  <2>5. \A i : FilledAs(ss, i)' <=> FilledAs(ss, i)  BY SameFilled
  <2>6. (committed => \A i \in At("RegKeySeq") : FilledAs(seqs, i))'
    BY <1>1, <2>2, <2>3, <2>4, <2>5
  <2> QED  BY <2>6, FilledIs, PTL
<1> QED  BY <1>2, <1>3 DEF FillInv

LEMMA FillCommit ==
  ASSUME IInv, FillInv, Commit
  PROVE  FillInv'
<1>1. CASE Endless(Filled)
  <2>1. /\ open' = open /\ committed' = committed /\ script' = script /\ refs' = refs
        /\ seqs' = seqs /\ pendingSeqs' = pendingSeqs
    BY <1>1 DEF Commit, building
  <2> QED  BY <2>1, FillSame
<1>2. CASE ~Endless(Filled)
  <2>1. PICK ss : ss = Filled  OBVIOUS
  <2>2. seqs' = ss /\ script' = script /\ refs' = refs /\ open' = FALSE
    BY <1>2, <2>1 DEF Commit, CommitTables
  <2>3. Shells  BY DEF Commit, FillInv
  <2>4. At("RegKeySeq")' = At("RegKeySeq")  BY <2>2 DEF At
  <2>a. seqs' = ss  BY <2>2
  <2>b. \A i : FilledAs(seqs, i)' <=> FilledAs(ss, i)'
    BY <2>a DEF FilledAs, Filling, MeansIn, MeansSomethingIn
  <2>5. ASSUME NEW i \in At("RegKeySeq")' PROVE FilledAs(seqs, i)'
    <3>1. FilledAs(ss, i)  BY <2>1, <2>3, <2>4, FilledNow
    <3>2. FilledAs(ss, i)'  BY <2>2, <3>1, SameFilled
    <3> QED  BY <2>b, <3>2
  <2>6. (committed => \A i \in At("RegKeySeq") : FilledAs(seqs, i))'  BY <2>5
  <2>7. SequencesFilled'  BY <2>6, FilledIs, PTL
  <2> QED  BY <2>2, <2>7 DEF FillInv
<1> QED  BY <1>1, <1>2

LEMMA FillStep == IInv /\ FillInv /\ [Next]_vars => FillInv'
<1> SUFFICES ASSUME IInv, FillInv, [Next]_vars PROVE FillInv'  OBVIOUS
<1>1. CASE UNCHANGED vars  BY <1>1, FillSame DEF vars, building
<1>2. CASE Reset  BY <1>2, FillReset
<1>3. CASE Commit  BY <1>3, FillCommit
<1>4. CASE \E c \in Is("RegKeySeq") : RegKeySeq(c)  BY <1>4, FillReg
<1>5. CASE \E c \in Is("DefKeymap") : DefKeymap(c)  BY <1>5, FillKeymap
<1>6. CASE \E c \in Commands : /\ c.cmd # "RegKeySeq" /\ Take(c) /\ seqs' = seqs
                               /\ refs' = refs /\ pendingSeqs' = pendingSeqs
  BY <1>6, FillTaken DEF Adds
<1>7. CASE \/ \E c \in Is("DefKey") : DefKey(c)
           \/ \E c \in Is("DefAlias") : DefAlias(c)
           \/ \E c \in Is("DefMod") : DefMod(c)
           \/ \E c \in Is("DefSubst") : DefSubst(c)
           \/ \E c \in Is("NlsKeys") : NlsKeys(c)
  BY <1>6, <1>7 DEF Is, DefKey, DefAlias, DefMod, DefSubst, NlsKeys
<1>8. CASE \/ \E c \in Is("EndKeymap") : EndKeymap(c)
           \/ \E c \in Is("AssignKey") : AssignKey(c)
           \/ \E c \in Is("AssignMod") : AssignMod(c)
  BY <1>6, <1>8 DEF Is, EndKeymap, AssignKey, AssignMod
<1> QED  BY <1>1, <1>2, <1>3, <1>4, <1>5, <1>7, <1>8 DEF Next

(***************************************************************************)
(* In a committed Setting every registered sequence has the actions of the *)
(* last registration of its name, in order, less those that name nothing.  *)
(***************************************************************************)
THEOREM FilledAsRegistered == Spec => []SequencesFilled
<1>1. FillInv => SequencesFilled  BY DEF FillInv
<1> QED  BY <1>1, Inductive, FillInit, FillStep, PTL DEF Spec

-----------------------------------------------------------------------------
(* The modifiers: a keymap's list follows its statements one by one. *)

IsEntry(e) == e = [op |-> e.op, mode |-> e.mode, key |-> e.key]

\* the operators a statement about a key may have
Ops == {"new", "add", "sub"}

\* What a keymap's own list is like: no key twice, and "new" at its head only.
Entries(list) ==
  /\ IsList(list) /\ NamesOnce(list)
  /\ \A p \in DOMAIN list :
       /\ IsEntry(list[p])
       /\ IF list[p].key = None THEN list[p].op = "overwrite" ELSE list[p].op \in Ops
       /\ list[p].op = "new" => p = 1

\* What Keymap::addModifier does to it.
LEMMA EntryAdded ==
  ASSUME NEW list, Entries(list), NEW e, IsEntry(e),
         IF e.key = None THEN e.op = "overwrite" ELSE e.op \in Ops,
         NEW new, new = AddModifier(list, e)
  PROVE  /\ Entries(new)
         /\ \E p \in DOMAIN new : new[p] = e
         /\ \A p \in DOMAIN new :
              \/ new[p] = e
              \/ e.op # "new" /\ new[p].key # e.key /\ \E q \in DOMAIN list : list[q] = new[p]
         /\ e.op # "new" =>
              \A q \in DOMAIN list : list[q].key # e.key => \E p \in DOMAIN new : new[p] = list[q]
<1> DEFINE N == Len(list)
           I == {i \in 1..N : list[i].key = e.key}
<1>0. N \in Nat /\ DOMAIN list = 1..N /\ IsList(list)  BY AppendedTo DEF Entries
<1>1. I # {} => Min(I) \in I
  <2>1. I \in SUBSET Nat  BY <1>0
  <2> QED  BY <2>1, MinOf
<1>2. CASE e.op = "new"
  <2>1. new = <<e>>  BY <1>2 DEF AddModifier
  <2>2. DOMAIN new = {1} /\ new[1] = e  BY <2>1
  <2>3. IsList(new)
    <3>1. <<e>> \in Seq({e})  OBVIOUS
    <3> QED  BY <2>1, <3>1, SeqFacts
  <2>4. e.key # None  BY <1>2
  <2>5. Entries(new)  BY <1>2, <2>2, <2>3, <2>4 DEF Entries, NamesOnce, Ops
  <2> QED  BY <1>2, <2>2, <2>5
<1>3. CASE e.op # "new" /\ I = {}
  <2>1. new = Append(list, e)
    <3>1. SelectInSeq(list, LAMBDA x : x.key = e.key) = 0  BY <1>3 DEF SelectInSeq
    <3> QED  BY <1>3, <3>1 DEF AddModifier
  <2>2. /\ IsList(new) /\ DOMAIN new = 1..(N + 1)
        /\ \A i \in 1..N : new[i] = list[i]
        /\ new[N + 1] = e
    BY <1>0, <2>1, AppendedTo
  <2>3. \A i \in DOMAIN new : i \in 1..N \/ i = N + 1  BY <1>0, <2>2
  <2>4. \A i \in 1..N : list[i].key # e.key /\ i # N + 1  BY <1>0, <1>3
  <2>5. NamesOnce(new)
    <3> SUFFICES ASSUME NEW p \in DOMAIN new, NEW q \in DOMAIN new, new[p].key = new[q].key
                 PROVE  p = q
      BY DEF NamesOnce
    <3>1. CASE p \in 1..N /\ q \in 1..N  BY <1>0, <2>2, <3>1 DEF Entries, NamesOnce
    <3>2. CASE p = N + 1 \/ q = N + 1  BY <2>2, <2>3, <2>4, <3>2
    <3> QED  BY <2>3, <3>1, <3>2
  <2>6. \A i \in DOMAIN new :
          /\ IsEntry(new[i])
          /\ IF new[i].key = None THEN new[i].op = "overwrite" ELSE new[i].op \in Ops
          /\ new[i].op = "new" => i = 1
    <3> TAKE i \in DOMAIN new
    <3>1. CASE i \in 1..N  BY <1>0, <2>2, <3>1 DEF Entries
    <3>2. CASE i = N + 1  BY <1>3, <2>2, <3>2
    <3> QED  BY <2>3, <3>1, <3>2
  <2>7. Entries(new)  BY <2>2, <2>5, <2>6 DEF Entries
  <2>8. N + 1 \in DOMAIN new /\ DOMAIN list \subseteq DOMAIN new  BY <1>0, <2>2
  <2> QED  BY <1>0, <1>3, <2>2, <2>3, <2>4, <2>7, <2>8
<1>4. CASE e.op # "new" /\ I # {}
  <2>1. PICK i \in I : i = Min(I)  BY <1>1, <1>4
  <2>2. i \in 1..N /\ list[i].key = e.key /\ i # 0  BY <1>0
  <2>3. new = [list EXCEPT ![i] = e]
    <3>1. SelectInSeq(list, LAMBDA x : x.key = e.key) = i  BY <1>4, <2>1 DEF SelectInSeq
    <3> QED  BY <1>4, <2>2, <3>1 DEF AddModifier
  <2>4. /\ DOMAIN new = 1..N
        /\ \A j \in 1..N : new[j] = IF j = i THEN e ELSE list[j]
    BY <1>0, <2>3
  <2>5. IsList(new)
    <3> DEFINE S == ToSet(list) \cup {e}
    <3>1. \A j \in 1..N : new[j] \in S  BY <1>0, <2>4 DEF ToSet
    <3>2. new = [j \in 1..N |-> new[j]]  BY <1>0, <2>3
    <3> HIDE DEF S
    <3>3. new \in [1..N -> S]  BY <3>1, <3>2
    <3>4. new \in Seq(S)  BY <1>0, <3>3, SeqDef
    <3> QED  BY <3>4, SeqFacts
  <2>6. \A j \in 1..N : new[j].key = list[j].key  BY <2>2, <2>4
  <2>7. NamesOnce(new)  BY <1>0, <2>4, <2>6 DEF Entries, NamesOnce
  <2>8. Entries(new)  BY <1>0, <1>4, <2>4, <2>5, <2>7 DEF Entries
  <2>9. \A j \in 1..N : j # i => list[j].key # e.key  BY <1>0, <2>2 DEF Entries, NamesOnce
  <2> QED  BY <1>0, <1>4, <2>2, <2>4, <2>8, <2>9
<1> QED  BY <1>2, <1>3, <1>4

\* What the statements T say, key[s] and op[s] being what the statement s does:
\* those that count, and the last word about the key x.
InForceOf(T, op) == {s \in T : \A n \in Final({t \in T : op[t] = "new"}) : ~Before(s, n)}
LastOn(T, key, op, x) == Final({s \in InForceOf(T, op) : key[s] = x})

Follows(list, T, key, op) ==
  /\ Entries(list)
  /\ \A p \in DOMAIN list : list[p].key # None =>
       /\ LastOn(T, key, op, list[p].key) # {}
       /\ \A s \in LastOn(T, key, op, list[p].key) : op[s] = list[p].op
  /\ \A s \in InForceOf(T, op) : \E p \in DOMAIN list : list[p].key = key[s]

\* A statement after all others.
After(s, T) == ~Before(s, s) /\ \A t \in T : Before(t, s) /\ ~Before(s, t)

Newest(T, s, key, op) ==
  /\ InForceOf(T \cup {s}, op) = IF op[s] = "new" THEN {s} ELSE InForceOf(T, op) \cup {s}
  /\ LastOn(T \cup {s}, key, op, key[s]) = {s}

LEMMA OneMore ==
  ASSUME NEW T, NEW s, NEW key, NEW op, After(s, T)
  PROVE  Newest(T, s, key, op)
<1> DEFINE news(U) == {t \in U : op[t] = "new"}
<1>1. CASE op[s] = "new"
  <2>1. Final(news(T \cup {s})) = {s}  BY <1>1 DEF Final, After
  <2>2. InForceOf(T \cup {s}, op) = {s}  BY <2>1 DEF InForceOf, After
  <2>3. LastOn(T \cup {s}, key, op, key[s]) = {s}  BY <2>2 DEF LastOn, Final, After
  <2> QED  BY <1>1, <2>2, <2>3 DEF Newest
<1>2. CASE op[s] # "new"
  <2>1. news(T \cup {s}) = news(T)  BY <1>2
  <2>2. \A n \in Final(news(T)) : n \in T  BY DEF Final
  <2>3. InForceOf(T \cup {s}, op) = InForceOf(T, op) \cup {s}  BY <2>1, <2>2 DEF InForceOf, After
  <2>4. InForceOf(T, op) \subseteq T  BY DEF InForceOf
  <2>5. LastOn(T \cup {s}, key, op, key[s]) = {s}  BY <2>3, <2>4 DEF LastOn, Final, After
  <2> QED  BY <1>2, <2>3, <2>5 DEF Newest
<1> QED  BY <1>1, <1>2

\* It says nothing about another key.
LEMMA OtherKeys ==
  ASSUME NEW T, NEW s, NEW key, NEW op, NEW x, After(s, T), op[s] # "new", x # key[s]
  PROVE  LastOn(T \cup {s}, key, op, x) = LastOn(T, key, op, x)
<1>1. InForceOf(T \cup {s}, op) = InForceOf(T, op) \cup {s}  BY OneMore DEF Newest
<1>2. {t \in InForceOf(T, op) \cup {s} : key[t] = x} = {t \in InForceOf(T, op) : key[t] = x}
  OBVIOUS
<1> QED  BY <1>1, <1>2 DEF LastOn

\* The list follows the statements one by one.
LEMMA StatementAdded ==
  ASSUME NEW list, NEW T, NEW key, NEW op, Follows(list, T, key, op),
         NEW s, After(s, T), key[s] # None, op[s] \in Ops,
         NEW e, IsEntry(e), e.key = key[s], e.op = op[s]
  PROVE  Follows(AddModifier(list, e), T \cup {s}, key, op)
<1>1. PICK new : new = AddModifier(list, e)  OBVIOUS
<1>2. /\ Entries(new)
      /\ \E p \in DOMAIN new : new[p] = e
      /\ \A p \in DOMAIN new :
           \/ new[p] = e
           \/ e.op # "new" /\ new[p].key # e.key /\ \E q \in DOMAIN list : list[q] = new[p]
      /\ e.op # "new" =>
           \A q \in DOMAIN list : list[q].key # e.key => \E p \in DOMAIN new : new[p] = list[q]
  BY <1>1, EntryAdded DEF Follows
<1>3. /\ InForceOf(T \cup {s}, op) = IF op[s] = "new" THEN {s} ELSE InForceOf(T, op) \cup {s}
      /\ LastOn(T \cup {s}, key, op, key[s]) = {s}
  <2>1. Newest(T, s, key, op)  BY OneMore
  <2> QED  BY <2>1 DEF Newest
<1>4. ASSUME NEW p \in DOMAIN new, new[p].key # None
      PROVE  /\ LastOn(T \cup {s}, key, op, new[p].key) # {}
             /\ \A t \in LastOn(T \cup {s}, key, op, new[p].key) : op[t] = new[p].op
  <2>1. CASE new[p] = e  BY <1>3, <2>1
  <2>2. CASE new[p] # e
    <3>1. PICK q \in DOMAIN list : list[q] = new[p]  BY <1>2, <2>2
    <3>2. op[s] # "new" /\ new[p].key # key[s]  BY <1>2, <2>2
    <3>3. LastOn(T \cup {s}, key, op, new[p].key) = LastOn(T, key, op, list[q].key)
      BY <3>1, <3>2, OtherKeys
    <3> QED  BY <1>4, <3>1, <3>3 DEF Follows
  <2> QED  BY <2>1, <2>2
<1>5. ASSUME NEW t \in InForceOf(T \cup {s}, op) PROVE \E p \in DOMAIN new : new[p].key = key[t]
  <2>1. CASE t = s  BY <1>2, <2>1
  <2>2. CASE t # s
    <3>1. op[s] # "new" /\ t \in InForceOf(T, op)  BY <1>3, <2>2
    <3>2. PICK q \in DOMAIN list : list[q].key = key[t]  BY <3>1 DEF Follows
    <3> QED  BY <1>2, <3>1, <3>2
  <2> QED  BY <2>1, <2>2
<1> QED  BY <1>1, <1>2, <1>4, <1>5 DEF Follows

\* A prefix changes no key.
LEMMA PrefixAdded ==
  ASSUME NEW list, NEW T, NEW key, NEW op, Follows(list, T, key, op),
         NEW e, IsEntry(e), e.key = None, e.op = "overwrite",
         \A s \in T : key[s] # None
  PROVE  Follows(AddModifier(list, e), T, key, op)
<1>1. PICK new : new = AddModifier(list, e)  OBVIOUS
<1>2. /\ Entries(new)
      /\ \A p \in DOMAIN new :
           \/ new[p] = e
           \/ e.op # "new" /\ new[p].key # e.key /\ \E q \in DOMAIN list : list[q] = new[p]
      /\ e.op # "new" =>
           \A q \in DOMAIN list : list[q].key # e.key => \E p \in DOMAIN new : new[p] = list[q]
  BY <1>1, EntryAdded DEF Follows
<1>3. \A s \in InForceOf(T, op) : key[s] # None  BY DEF InForceOf
<1> QED  BY <1>1, <1>2, <1>3 DEF Follows

\* What the statements do is all that counts.
LEMMA FollowsAlike ==
  ASSUME NEW list, NEW T, NEW key, NEW op, Follows(list, T, key, op),
         NEW key1, NEW op1, \A s \in T : key1[s] = key[s] /\ op1[s] = op[s]
  PROVE  Follows(list, T, key1, op1)
<1>1. InForceOf(T, op1) = InForceOf(T, op) /\ InForceOf(T, op) \subseteq T
  <2>1. {t \in T : op1[t] = "new"} = {t \in T : op[t] = "new"}  OBVIOUS
  <2> QED  BY <2>1 DEF InForceOf
<1>2. ASSUME NEW x PROVE LastOn(T, key1, op1, x) = LastOn(T, key, op, x)
  <2>1. {s \in InForceOf(T, op) : key1[s] = x} = {s \in InForceOf(T, op) : key[s] = x}  BY <1>1
  <2> QED  BY <1>1, <2>1 DEF LastOn
<1>3. \A x : \A s \in LastOn(T, key, op, x) : s \in T  BY <1>1 DEF LastOn, Final
<1> QED  BY <1>1, <1>2, <1>3 DEF Follows

\* What a statement makes of a list, its keys read one by one.
KeysRead(K, list, c) ==
  /\ K[0] = IF c.prefix = None THEN list
            ELSE AddModifier(list, [op |-> "overwrite", mode |-> c.prefix, key |-> None])
  /\ WithModifiers(list, c) = K[Len(c.keys)]
  /\ \A n \in 1..Len(c.keys) :
       K[n] = IF SearchKey(c.keys[n].key) = None THEN K[n - 1]
              ELSE AddModifier(K[n - 1], [op |-> OpAt(c, n), mode |-> c.keys[n].mode,
                                          key |-> SearchKey(c.keys[n].key)])

LEMMA ReadByKeys ==
  ASSUME NEW list, NEW c, IsList(c.keys)
  PROVE  \E K : KeysRead(K, list, c)
<1> DEFINE N == Len(c.keys)
           first == IF c.prefix = None THEN list
                    ELSE AddModifier(list, [op |-> "overwrite", mode |-> c.prefix, key |-> None])
           at(f, n) == IF n = 0 THEN first
                       ELSE LET k == SearchKey(c.keys[n].key)
                            IN  IF k = None THEN f[n - 1]
                                ELSE AddModifier(f[n - 1],
                                       [op |-> OpAt(c, n), mode |-> c.keys[n].mode, key |-> k])
           Good(f, n) == f = [i \in 0..n |-> at(f, i)]
           K == CHOOSE f : Good(f, N)
<1>0. N \in Nat  BY AppendedTo
<1>1. \E f : Good(f, N)
  <2> DEFINE T == {n \in Nat : \E f : Good(f, n)}
  <2>1. 0 \in T
    <3> DEFINE f == [i \in 0..0 |-> first]
    <3>1. Good(f, 0)  OBVIOUS
    <3> QED  BY <3>1
  <2>2. ASSUME NEW n \in Nat, n \in T PROVE n + 1 \in T
    <3>1. PICK f : Good(f, n)  BY <2>2
    <3> HIDE DEF at
    <3>a. \A i \in 0..n : f[i] = at(f, i)  BY <3>1
    <3> DEFINE g == [i \in 0..(n + 1) |-> IF i \in 0..n THEN f[i] ELSE at(f, n + 1)]
    <3>2. ASSUME NEW i \in 0..(n + 1) PROVE g[i] = at(g, i)
      <4>1. CASE i = 0
        <5>1. 0 \in 0..n  OBVIOUS
        <5>2. g[0] = f[0] /\ f[0] = at(f, 0)  BY <3>a, <5>1
        <5> HIDE DEF g, first
        <5> QED  BY <4>1, <5>2 DEF at
      <4>2. CASE i \in 1..n
        <5>1. f[i] = at(f, i)  BY <3>a, <4>2
        <5>2. g[i] = f[i] /\ g[i - 1] = f[i - 1]  BY <4>2
        <5> HIDE DEF g, first
        <5> QED  BY <4>2, <5>1, <5>2 DEF at
      <4>3. CASE i = n + 1
        <5>1. g[i] = at(f, i) /\ g[i - 1] = f[i - 1] /\ i # 0  BY <4>3
        <5> HIDE DEF g, first
        <5> QED  BY <5>1 DEF at
      <4> QED  BY <4>1, <4>2, <4>3
    <3>3. g = [i \in 0..(n + 1) |-> g[i]]  OBVIOUS
    <3>4. Good(g, n + 1)  BY <3>2, <3>3
    <3> HIDE DEF Good, g
    <3> QED  BY <3>4
  <2>3. N \in T  BY <1>0, <2>1, <2>2, NumbersIn
  <2> QED  BY <2>3
<1>2. Good(K, N)  BY <1>1
<1>3. WithModifiers(list, c) = K[N]  BY DEF WithModifiers
<1> HIDE DEF K
<1>4. \A n \in 0..N : K[n] = at(K, n)  BY <1>2
<1> HIDE DEF Good, first
<1>5. K[0] = first
  <2>1. 0 \in 0..N  BY <1>0
  <2> HIDE DEF at
  <2>2. K[0] = at(K, 0)  BY <1>4, <2>1
  <2> QED  BY <2>2 DEF at
<1>6. ASSUME NEW n \in 1..N
      PROVE  K[n] = IF SearchKey(c.keys[n].key) = None THEN K[n - 1]
                    ELSE AddModifier(K[n - 1], [op |-> OpAt(c, n), mode |-> c.keys[n].mode,
                                                key |-> SearchKey(c.keys[n].key)])
  <2>1. n \in 0..N /\ n # 0  OBVIOUS
  <2> QED  BY <1>4, <2>1
<1> QED  BY <1>3, <1>5, <1>6 DEF KeysRead, first

\* the statements of command i about keys that are known, the first n read
Spoken(i, c, n) == {<<i, p>> : p \in {q \in 1..n : SearchKey(c.keys[q].key) # None}}

LEMMA StatementsAdded ==
  ASSUME NEW list, NEW T, NEW key, NEW op, Follows(list, T, key, op),
         NEW i \in Nat, NEW c, IsList(c.keys), c.op \in Ops,
         \A s \in T : s[1] \in Nat /\ s[1] < i /\ key[s] # None,
         \A p \in 1..Len(c.keys) : /\ key[<<i, p>>] = SearchKey(c.keys[p].key)
                                   /\ op[<<i, p>>] = OpAt(c, p)
  PROVE  Follows(WithModifiers(list, c), T \cup Spoken(i, c, Len(c.keys)), key, op)
<1> DEFINE N == Len(c.keys)
           U(n) == T \cup Spoken(i, c, n)
<1>0. N \in Nat  BY AppendedTo
<1>1. PICK K : KeysRead(K, list, c)  BY ReadByKeys
<1>2. Follows(K[0], U(0), key, op)
  <2>1. U(0) = T  BY DEF Spoken
  <2>2. CASE c.prefix = None  BY <1>1, <2>1, <2>2 DEF KeysRead
  <2>3. CASE c.prefix # None
    <3>1. PICK e : e = [op |-> "overwrite", mode |-> c.prefix, key |-> None]  OBVIOUS
    <3>2. IsEntry(e) /\ e.key = None /\ e.op = "overwrite"  BY <3>1 DEF IsEntry
    <3>3. K[0] = AddModifier(list, e)  BY <1>1, <2>3, <3>1 DEF KeysRead
    <3>4. Follows(AddModifier(list, e), T, key, op)  BY <3>2, PrefixAdded
    <3> QED  BY <2>1, <3>3, <3>4
  <2> QED  BY <2>2, <2>3
<1>3. ASSUME NEW n \in 1..N, Follows(K[n - 1], U(n - 1), key, op)
      PROVE  Follows(K[n], U(n), key, op)
  <2> DEFINE s == <<i, n>>
             k == SearchKey(c.keys[n].key)
  <2>1. 1..n = (1..(n - 1)) \cup {n}  BY <1>0
  <2>2. CASE k = None
    <3>1. Spoken(i, c, n) = Spoken(i, c, n - 1)  BY <2>1, <2>2 DEF Spoken
    <3> QED  BY <1>1, <1>3, <2>2, <3>1 DEF KeysRead
  <2>3. CASE k # None
    <3>1. Spoken(i, c, n) = Spoken(i, c, n - 1) \cup {s}
      <4> HIDE DEF s
      <4>1. {q \in 1..n : SearchKey(c.keys[q].key) # None}
              = {q \in 1..(n - 1) : SearchKey(c.keys[q].key) # None} \cup {n}
        BY <2>1, <2>3
      <4> QED  BY <4>1 DEF Spoken, s
    <3>2. PICK e : e = [op |-> OpAt(c, n), mode |-> c.keys[n].mode, key |-> k]  OBVIOUS
    <3>3. K[n] = AddModifier(K[n - 1], e)  BY <1>1, <2>3, <3>2 DEF KeysRead
    <3>4. key[s] = k /\ op[s] = OpAt(c, n)  OBVIOUS
    <3>5. op[s] \in Ops  BY <3>4 DEF OpAt, Ops
    <3>6. IsEntry(e) /\ e.key = key[s] /\ e.op = op[s]  BY <3>2, <3>4 DEF IsEntry
    <3>7. After(s, U(n - 1))
      <4>1. ~Before(s, s)  BY <1>0 DEF Before
      <4>2. ASSUME NEW t \in T PROVE Before(t, s) /\ ~Before(s, t)
        <5>1. t[1] \in Nat /\ t[1] < i  OBVIOUS
        <5> QED  BY <5>1 DEF Before
      <4>3. ASSUME NEW t \in Spoken(i, c, n - 1) PROVE Before(t, s) /\ ~Before(s, t)
        <5>1. PICK p \in 1..(n - 1) : t = <<i, p>>  BY DEF Spoken
        <5> QED  BY <1>0, <5>1 DEF Before
      <4> QED  BY <4>1, <4>2, <4>3 DEF After
    <3>8. PICK t : t = s  OBVIOUS
    <3> HIDE DEF s
    <3>9. Follows(AddModifier(K[n - 1], e), U(n - 1) \cup {t}, key, op)
      <4>1. After(t, U(n - 1)) /\ key[t] # None /\ op[t] \in Ops /\ e.key = key[t] /\ e.op = op[t]
        BY <2>3, <3>4, <3>5, <3>6, <3>7, <3>8
      <4> HIDE DEF U
      <4> QED  BY <1>3, <3>6, <4>1, StatementAdded
    <3>10. U(n) = U(n - 1) \cup {t}  BY <3>1, <3>8
    <3> QED  BY <3>3, <3>9, <3>10
  <2> QED  BY <2>2, <2>3
<1>4. Follows(K[N], U(N), key, op)
  <2> HIDE DEF U
  <2> DEFINE S == {n \in Nat : n <= N => Follows(K[n], U(n), key, op)}
  <2>1. 0 \in S  BY <1>2
  <2>2. ASSUME NEW n \in Nat, n \in S PROVE n + 1 \in S
    <3> SUFFICES ASSUME n + 1 <= N PROVE Follows(K[n + 1], U(n + 1), key, op)  OBVIOUS
    <3>1. PICK m : m = n + 1  OBVIOUS
    <3>2. m \in 1..N /\ m - 1 = n  BY <1>0, <3>1
    <3>3. Follows(K[m - 1], U(m - 1), key, op)  BY <1>0, <2>2, <3>2
    <3> QED  BY <1>3, <3>1, <3>2, <3>3
  <2>3. N \in S  BY <1>0, <2>1, <2>2, NumbersIn
  <2> QED  BY <1>0, <2>3
<1> QED  BY <1>1, <1>4 DEF KeysRead

\* The statements of a keymap about a modifier, one by one, ...
LEMMA StatementIs ==
  ASSUME NEW nm, NEW m, NEW s
  PROVE  s \in Statements(nm, m) <=>
           \E i \in At("AssignMod") : \E p \in DOMAIN script[i].keys :
              /\ s = <<i, p>> /\ script[i].mod = m /\ Here(i) = nm
              /\ Denotes(script[i].keys[p].key, i) # None
BY DEF Statements, KeyOf

\* ... and after a step.
LEMMA StatementIsNext ==
  ASSUME NEW nm, NEW m, NEW s
  PROVE  s \in Statements(nm, m)' <=>
           \E i \in At("AssignMod")' : \E p \in DOMAIN script'[i].keys :
              /\ s = <<i, p>> /\ script'[i].mod = m /\ Here(i)' = nm
              /\ Denotes(script[i].keys[p].key, i)' # None
BY DEF Statements, KeyOf

\* The key and the operator of a statement.
LEMMA StatementSays ==
  ASSUME NEW i, NEW p
  PROVE  /\ KeyOf(<<i, p>>) = Denotes(script[i].keys[p].key, i)
         /\ OpOf(<<i, p>>) = OpAt(script[i], p)
         /\ KeyOf(<<i, p>>)' = Denotes(script[i].keys[p].key, i)'
         /\ OpOf(<<i, p>>)' = OpAt(script'[i], p)
BY DEF KeyOf, OpOf, OpAt

\* the statements that the command c makes, if it is for keymap nm
Makes(c, nm, m) ==
  IF c.cmd = "AssignMod" /\ c.mod = m /\ Here(AtEnd) = nm
  THEN {<<AtEnd, p>> : p \in {q \in DOMAIN c.keys : Denotes(c.keys[q].key, AtEnd) # None}}
  ELSE {}

\* They are added, and the others are what they were.
LEMMA StatementsGrow ==
  ASSUME NEW c, Grows(c), NEW nm, NEW m
  PROVE  /\ Statements(nm, m)' = Statements(nm, m) \cup Makes(c, nm, m)
         /\ \A s \in Statements(nm, m) :
              /\ s[1] \in 1..Len(script) /\ KeyOf(s) # None
              /\ KeyOf(s)' = KeyOf(s) /\ OpOf(s)' = OpOf(s)
<1>1. PICK n \in Nat : n = Len(script)  BY Grown
<1>2. AtEnd = n + 1 /\ At("AssignMod") \subseteq 1..n
      /\ At("AssignMod")' = At("AssignMod") \cup (IF c.cmd = "AssignMod" THEN {n + 1} ELSE {})
      /\ script'[n + 1] = c /\ \A i \in 1..n : script'[i] = script[i]
  BY <1>1, Grown, GrownAt
<1>3. \A i \in 1..(n + 1) : \A x : Here(i)' = Here(i) /\ Denotes(x, i)' = Denotes(x, i)
  BY <1>1, SameHere, SameDenotes
<1>4. ASSUME NEW s \in Statements(nm, m)
      PROVE  /\ s \in Statements(nm, m)' /\ s[1] \in 1..n /\ KeyOf(s) # None
             /\ KeyOf(s)' = KeyOf(s) /\ OpOf(s)' = OpOf(s)
  <2>0. PICK i \in At("AssignMod") : \E p \in DOMAIN script[i].keys :
           /\ s = <<i, p>> /\ script[i].mod = m /\ Here(i) = nm
           /\ Denotes(script[i].keys[p].key, i) # None
    BY StatementIs
  <2>1. PICK p \in DOMAIN script[i].keys :
           /\ s = <<i, p>> /\ script[i].mod = m /\ Here(i) = nm
           /\ Denotes(script[i].keys[p].key, i) # None
    BY <2>0
  <2>2. i \in 1..n /\ i \in 1..(n + 1) /\ script'[i] = script[i] /\ i \in At("AssignMod")'
    BY <1>2
  <2>3. PICK x : x = script[i].keys[p].key  OBVIOUS
  <2>4. Denotes(x, i)' = Denotes(x, i) /\ Here(i)' = Here(i)  BY <1>3, <2>2
  <2>5. Denotes(script[i].keys[p].key, i)' = Denotes(x, i)  BY <2>2, <2>3, <2>4
  <2>6. s \in Statements(nm, m)'  BY <2>1, <2>2, <2>3, <2>4, <2>5, StatementIsNext
  <2>7. KeyOf(s) = Denotes(x, i) /\ KeyOf(s)' = Denotes(x, i) /\ OpOf(s)' = OpOf(s)
    BY <2>1, <2>2, <2>3, <2>5, StatementSays
  <2> QED  BY <2>1, <2>2, <2>3, <2>6, <2>7
<1>5. ASSUME NEW s \in Makes(c, nm, m) PROVE s \in Statements(nm, m)'
  <2>1. c.cmd = "AssignMod" /\ c.mod = m /\ Here(n + 1) = nm  BY <1>2 DEF Makes
  <2>2. PICK p \in DOMAIN c.keys : s = <<n + 1, p>> /\ Denotes(c.keys[p].key, n + 1) # None
    BY <1>2 DEF Makes
  <2>3. PICK i : i = n + 1  OBVIOUS
  <2>4. i \in At("AssignMod")' /\ script'[i] = c /\ Here(i)' = nm  BY <1>2, <1>3, <2>1, <2>3
  <2>5. Denotes(script[i].keys[p].key, i)' # None
    <3>1. PICK x : x = c.keys[p].key  OBVIOUS
    <3>2. Denotes(x, i)' = Denotes(x, i)  BY <1>3, <2>3
    <3> QED  BY <2>2, <2>3, <2>4, <3>1, <3>2
  <2> QED  BY <2>1, <2>2, <2>3, <2>4, <2>5, StatementIsNext
<1>6. ASSUME NEW s \in Statements(nm, m)' PROVE s \in Statements(nm, m) \cup Makes(c, nm, m)
  <2>0. PICK i \in At("AssignMod")' : \E p \in DOMAIN script'[i].keys :
           /\ s = <<i, p>> /\ script'[i].mod = m /\ Here(i)' = nm
           /\ Denotes(script[i].keys[p].key, i)' # None
    BY StatementIsNext
  <2>1. PICK p \in DOMAIN script'[i].keys :
           /\ s = <<i, p>> /\ script'[i].mod = m /\ Here(i)' = nm
           /\ Denotes(script[i].keys[p].key, i)' # None
    BY <2>0
  <2>2. PICK x : x = script'[i].keys[p].key  OBVIOUS
  <2>3. i \in 1..(n + 1)  BY <1>2
  <2>4. Denotes(x, i)' = Denotes(x, i) /\ Here(i)' = Here(i)  BY <1>3, <2>3
  <2>5. Denotes(x, i) # None  BY <2>1, <2>2, <2>4
  <2>6. CASE i = n + 1
    <3>1. script'[i] = c /\ c.cmd = "AssignMod"  BY <1>2, <2>6
    <3> QED  BY <1>2, <2>1, <2>2, <2>4, <2>5, <2>6, <3>1 DEF Makes
  <2>7. CASE i # n + 1
    <3>1. i \in At("AssignMod") /\ script'[i] = script[i]  BY <1>2, <2>7
    <3> QED  BY <2>1, <2>2, <2>4, <2>5, <3>1, StatementIs
  <2> QED  BY <2>6, <2>7
<1> QED  BY <1>1, <1>4, <1>5, <1>6

\* The list is what the statements of keymap nm about m say.
Told(list, nm, m) ==
  \E key, op : /\ \A s \in Statements(nm, m) : key[s] = KeyOf(s) /\ op[s] = OpOf(s)
               /\ Follows(list, Statements(nm, m), key, op)

\* A command that is about something else leaves it so, ...
LEMMA ToldStays ==
  ASSUME NEW c, Grows(c), NEW list, NEW nm, NEW m, Told(list, nm, m), Makes(c, nm, m) = {}
  PROVE  Told(list, nm, m)'
<1>1. PICK T : T = Statements(nm, m)  OBVIOUS
<1>2. T = Statements(nm, m)' /\ \A s \in T : KeyOf(s)' = KeyOf(s) /\ OpOf(s)' = OpOf(s)
  <2>1. /\ Statements(nm, m)' = Statements(nm, m) \cup Makes(c, nm, m)
        /\ \A s \in Statements(nm, m) : KeyOf(s)' = KeyOf(s) /\ OpOf(s)' = OpOf(s)
    BY StatementsGrow
  <2> QED  BY <1>1, <2>1
<1>3. PICK key, op : /\ \A s \in T : key[s] = KeyOf(s) /\ op[s] = OpOf(s)
                     /\ Follows(list, T, key, op)
  BY <1>1 DEF Told
<1>4. \A s \in T : key[s] = KeyOf(s)' /\ op[s] = OpOf(s)'  BY <1>2, <1>3
<1>5. (\A s \in Statements(nm, m) : key[s] = KeyOf(s) /\ op[s] = OpOf(s))'  BY <1>2, <1>4
<1>6. Follows(list, Statements(nm, m), key, op)'
  <2>1. Follows(list, Statements(nm, m)', key, op)  BY <1>2, <1>3
  <2> QED  BY <2>1 DEF Follows, InForceOf, LastOn, Final, Before, Entries, NamesOnce, IsEntry, IsList
<1> QED  BY <1>5, <1>6 DEF Told

\* ... and one about it is read key by key.
LEMMA ToldMore ==
  ASSUME NEW c, Grows(c), Symbols, c.cmd = "AssignMod",
         NEW list, NEW nm, nm = Here(AtEnd), Told(list, nm, c.mod),
         NEW new, new = WithModifiers(list, c)
  PROVE  Told(new, nm, c.mod)'
<1> DEFINE m == c.mod
<1>1. PICK n \in Nat : n = Len(script)  BY Grown
<1>2. PICK T : T = Statements(nm, m)  OBVIOUS
<1>3. PICK key, op : /\ \A s \in T : key[s] = KeyOf(s) /\ op[s] = OpOf(s)
                     /\ Follows(list, T, key, op)
  BY <1>2 DEF Told
<1>4. IsList(c.keys) /\ c.op \in Ops /\ DOMAIN c.keys = 1..Len(c.keys)
  <2>1. c \in Commands  BY DEF Grows
  <2>2. IsList(c.keys) /\ c.op \in Ops  BY <2>1, CommandsAssumption DEF Ops
  <2> QED  BY <2>2, AppendedTo
<1>5. AtEnd = n + 1 /\ script'[n + 1] = c /\ \A x : Denotes(x, n + 1)' = Denotes(x, n + 1)
  BY <1>1, Grown, SameDenotes
<1>6. /\ Statements(nm, m)' = T \cup Makes(c, nm, m)
      /\ \A s \in T : /\ s[1] \in 1..n /\ KeyOf(s) # None
                      /\ KeyOf(s)' = KeyOf(s) /\ OpOf(s)' = OpOf(s)
  BY <1>1, <1>2, StatementsGrow
<1>7. Makes(c, nm, m) = Spoken(n + 1, c, Len(c.keys))
  <2>1. \A x : SearchKey(x) = Denotes(x, n + 1)  BY <1>5, SearchKeyIs
  <2> QED  BY <1>4, <1>5, <2>1 DEF Makes, Spoken
<1>8. PICK here : here = [p \in 1..Len(c.keys) |-> SearchKey(c.keys[p].key)]  OBVIOUS
<1> DEFINE M == {<<n + 1, p>> : p \in 1..Len(c.keys)}
           key1 == [s \in T \cup M |-> IF s \in T THEN key[s] ELSE here[s[2]]]
           op1 == [s \in T \cup M |-> IF s \in T THEN op[s] ELSE OpAt(c, s[2])]
<1>9. \A p \in 1..Len(c.keys) : <<n + 1, p>> \notin T
  <2>1. \A s \in T : s[1] # n + 1  BY <1>6
  <2> QED  BY <2>1
<1>10. \A p \in 1..Len(c.keys) : /\ key1[<<n + 1, p>>] = SearchKey(c.keys[p].key)
                                 /\ op1[<<n + 1, p>>] = OpAt(c, p)
  BY <1>8, <1>9
<1>11. \A s \in T : key1[s] = key[s] /\ op1[s] = op[s]  OBVIOUS
<1> HIDE DEF key1, op1
<1>12. PICK key2, op2 : key2 = key1 /\ op2 = op1  OBVIOUS
<1>13. Follows(new, T \cup Spoken(n + 1, c, Len(c.keys)), key2, op2)
  <2>1. Follows(list, T, key2, op2)  BY <1>3, <1>11, <1>12, FollowsAlike
  <2>2. \A s \in T : s[1] \in Nat /\ s[1] < n + 1 /\ key2[s] # None
    BY <1>3, <1>6, <1>11, <1>12
  <2>3. \A p \in 1..Len(c.keys) : /\ key2[<<n + 1, p>>] = SearchKey(c.keys[p].key)
                                  /\ op2[<<n + 1, p>>] = OpAt(c, p)
    BY <1>10, <1>12
  <2>4. n + 1 \in Nat  OBVIOUS
  <2> QED  BY <1>4, <2>1, <2>2, <2>3, <2>4, StatementsAdded
<1>14. ASSUME NEW s \in Statements(nm, m)' PROVE key2[s] = KeyOf(s)' /\ op2[s] = OpOf(s)'
  <2>1. CASE s \in T  BY <1>3, <1>6, <1>11, <1>12, <2>1
  <2>2. CASE s \in Spoken(n + 1, c, Len(c.keys))
    <3>1. PICK p \in 1..Len(c.keys) : s = <<n + 1, p>>  BY <2>2 DEF Spoken
    <3>2. PICK x : x = c.keys[p].key  OBVIOUS
    <3>3. PICK i : i = n + 1  OBVIOUS
    <3>4. script'[i] = c /\ Denotes(x, i)' = Denotes(x, i)  BY <1>5, <3>3
    <3>5. KeyOf(s)' = Denotes(x, i) /\ OpOf(s)' = OpAt(c, p)
      BY <3>1, <3>2, <3>3, <3>4, StatementSays
    <3>6. SearchKey(x) = Denotes(x, i)  BY <1>5, <3>3, SearchKeyIs
    <3> QED  BY <1>10, <1>12, <3>1, <3>2, <3>5, <3>6
  <2> QED  BY <1>6, <1>7, <2>1, <2>2
<1>15. (\A s \in Statements(nm, m) : key2[s] = KeyOf(s) /\ op2[s] = OpOf(s))'  BY <1>14
<1>16. Follows(new, Statements(nm, m), key2, op2)'
  <2>1. Follows(new, Statements(nm, m)', key2, op2)  BY <1>6, <1>7, <1>13
  <2> QED  BY <2>1 DEF Follows, InForceOf, LastOn, Final, Before, Entries, NamesOnce, IsEntry, IsList
<1>17. Told(new, nm, m)'  BY <1>15, <1>16 DEF Told
<1> QED  BY <1>17

\* A list without an entry follows if nothing was said.
LEMMA NothingSaid ==
  ASSUME NEW nm, NEW m, Statements(nm, m) = {}
  PROVE  Told(<<>>, nm, m)
<1>1. Entries(<<>>)
  <2>1. <<>> \in Seq({}) /\ DOMAIN <<>> = {}  OBVIOUS
  <2>2. IsList(<<>>)  BY <2>1, SeqFacts
  <2> QED  BY <2>1, <2>2 DEF Entries, NamesOnce
<1>2. \A key, op : Follows(<<>>, {}, key, op)  BY <1>1 DEF Follows, InForceOf
<1> QED  BY <1>2 DEF Told

\* Of a keymap that is not there nothing was said.
LEMMA NothingTold ==
  ASSUME KnownPlaces, NEW nm, \A k \in DOMAIN keymaps : keymaps[k].name # nm, NEW m,
         script \in Seq(Commands)
  PROVE  Told(<<>>, nm, m)
<1>1. At("AssignMod") \subseteq 1..Len(script)  BY DEF At
<1>2. \A i \in At("AssignMod") : Here(i) # nm  BY <1>1 DEF KnownPlaces
<1>3. Statements(nm, m) = {}  BY <1>2, StatementIs
<1> QED  BY <1>3, NothingSaid

-----------------------------------------------------------------------------
(* What Commit makes of the lists. *)

\* What is left of a list without its i-th entry.
LEMMA RemovedAt ==
  ASSUME NEW s, IsList(s), NEW i \in DOMAIN s, NEW new, new = RemoveAt(s, i)
  PROVE  /\ IsList(new) /\ Len(s) \in Nat /\ DOMAIN s = 1..Len(s)
         /\ DOMAIN new = 1..(Len(s) - 1)
         /\ \A j \in 1..(Len(s) - 1) : new[j] = IF j < i THEN s[j] ELSE s[j + 1]
<1> DEFINE N == Len(s)
           S == ToSet(s)
           a == SubSeq(s, 1, i - 1)
           b == SubSeq(s, i + 1, N)
<1>1. N \in Nat /\ DOMAIN s = 1..N /\ i \in 1..N  BY AppendedTo
<1>2. \A j \in 1..N : s[j] \in S  BY <1>1 DEF ToSet
<1> HIDE DEF S
<1>3. /\ a \in Seq(S) /\ Len(a) = i - 1
      /\ \A j \in 1..(i - 1) : a[j] = s[j]
  <2>1. 1 \in Int /\ i - 1 \in Int /\ \A j \in 1..(i - 1) : s[j] \in S  BY <1>1, <1>2
  <2>2. /\ a \in Seq(S)
        /\ Len(a) = IF 1 <= i - 1 THEN (i - 1) - 1 + 1 ELSE 0
        /\ \A j \in 1..((i - 1) - 1 + 1) : a[j] = s[1 + j - 1]
    BY <2>1, SubSeqProperties
  <2> HIDE DEF a
  <2> QED  BY <1>1, <2>2
<1>4. /\ b \in Seq(S) /\ Len(b) = N - i
      /\ \A j \in 1..(N - i) : b[j] = s[i + j]
  <2>1. i + 1 \in Int /\ N \in Int /\ \A j \in (i + 1)..N : s[j] \in S  BY <1>1, <1>2
  <2>2. /\ b \in Seq(S)
        /\ Len(b) = IF i + 1 <= N THEN N - (i + 1) + 1 ELSE 0
        /\ \A j \in 1..(N - (i + 1) + 1) : b[j] = s[(i + 1) + j - 1]
    BY <2>1, SubSeqProperties
  <2> HIDE DEF b
  <2> QED  BY <1>1, <2>2
<1>5. new = a \o b  BY DEF RemoveAt
<1> HIDE DEF a, b
<1>6. /\ new \in Seq(S) /\ Len(new) = Len(a) + Len(b)
      /\ \A j \in 1..(Len(a) + Len(b)) : new[j] = IF j <= Len(a) THEN a[j] ELSE b[j - Len(a)]
  BY <1>3, <1>4, <1>5, ConcatProperties
<1>7. IsList(new) /\ DOMAIN new = 1..(N - 1)
  <2>1. Len(new) = N - 1  BY <1>1, <1>3, <1>4, <1>6
  <2> QED  BY <1>6, <2>1, SeqFacts
<1>8. ASSUME NEW j \in 1..(N - 1) PROVE new[j] = IF j < i THEN s[j] ELSE s[j + 1]
  <2>1. CASE j < i
    <3>1. j \in 1..(i - 1) /\ j <= Len(a) /\ j \in 1..(Len(a) + Len(b))
      BY <1>1, <1>3, <1>4, <2>1
    <3> QED  BY <1>3, <1>6, <2>1, <3>1
  <2>2. CASE ~(j < i)
    <3>1. PICK k : k = j - Len(a)  OBVIOUS
    <3>2. k \in 1..(N - i) /\ ~(j <= Len(a)) /\ j \in 1..(Len(a) + Len(b)) /\ i + k = j + 1
      BY <1>1, <1>3, <1>4, <2>2, <3>1
    <3> QED  BY <1>4, <1>6, <2>2, <3>1, <3>2
  <2> QED  BY <2>1, <2>2
<1> QED  BY <1>1, <1>7, <1>8

\* a list of modifier entries, the key x in it at most once
IsMods(mos) == IsList(mos) /\ \A p \in DOMAIN mos : IsEntry(mos[p])
Once(mos, x) == \A p, q \in DOMAIN mos : mos[p].key = x /\ mos[q].key = x => p = q

\* The keys of a list.
LEMMA KeysAre ==
  ASSUME NEW mos, NEW x
  PROVE  x \in KeysOf(mos) <=> \E p \in DOMAIN mos : mos[p].key = x
BY DEF KeysOf, ToSet

\* What becomes of the key x when the entry ma is read.
Changes(mos, ma, new, x) ==
  /\ ma.op = "new" => Once(new, x) /\ (x \in KeysOf(new) <=> x = ma.key)
  /\ ma.op = "add" => /\ x = ma.key => x \in KeysOf(new)
                      /\ x # ma.key => /\ x \in KeysOf(new) <=> x \in KeysOf(mos)
                                       /\ Once(mos, x) => Once(new, x)
  /\ ma.op = "sub" => /\ x = ma.key /\ Once(mos, x) => x \notin KeysOf(new)
                      /\ x # ma.key => /\ x \in KeysOf(new) <=> x \in KeysOf(mos)
                                       /\ Once(mos, x) => Once(new, x)
  /\ ma.op = "overwrite" => /\ x \in KeysOf(new) <=> x \in KeysOf(mos)
                            /\ Once(mos, x) => Once(new, x)

\* A list without an entry: the others are kept.
LEMMA WithoutOne ==
  ASSUME NEW mos, IsMods(mos), NEW i \in DOMAIN mos, NEW new, new = RemoveAt(mos, i)
  PROVE  /\ IsMods(new)
         /\ \A x : Once(mos, x) => Once(new, x)
         /\ \A x : x # mos[i].key => (x \in KeysOf(new) <=> x \in KeysOf(mos))
         /\ Once(mos, mos[i].key) => mos[i].key \notin KeysOf(new)
         /\ (\E k \in DOMAIN mos : k # i /\ mos[k].key = mos[i].key) => KeysOf(new) = KeysOf(mos)
<1> DEFINE N == Len(mos)
           at(j) == IF j < i THEN j ELSE j + 1
<1>1. /\ IsList(new) /\ N \in Nat /\ DOMAIN mos = 1..N /\ DOMAIN new = 1..(N - 1)
      /\ \A j \in 1..(N - 1) : new[j] = IF j < i THEN mos[j] ELSE mos[j + 1]
  BY RemovedAt DEF IsMods
<1>2. \A j \in DOMAIN new : at(j) \in DOMAIN mos /\ at(j) # i /\ new[j] = mos[at(j)]
  BY <1>1
<1>3. \A j, k \in DOMAIN new : at(j) = at(k) => j = k  BY <1>1
<1>4. \A p \in DOMAIN mos : p # i => \E j \in DOMAIN new : at(j) = p
  <2> SUFFICES ASSUME NEW p \in DOMAIN mos, p # i PROVE \E j \in DOMAIN new : at(j) = p
    OBVIOUS
  <2>1. CASE p < i
    <3>1. p \in DOMAIN new /\ at(p) = p  BY <1>1, <2>1
    <3> QED  BY <3>1
  <2>2. CASE ~(p < i)
    <3>1. p - 1 \in DOMAIN new /\ at(p - 1) = p  BY <1>1, <2>2
    <3> QED  BY <3>1
  <2> QED  BY <2>1, <2>2
<1> HIDE DEF at
<1>5. IsMods(new)  BY <1>1, <1>2 DEF IsMods
<1>6. \A x : Once(mos, x) => Once(new, x)  BY <1>2, <1>3 DEF Once
<1>7. \A x : x \in KeysOf(new) => x \in KeysOf(mos)  BY <1>2, KeysAre
<1>8. \A p \in DOMAIN mos : p # i => mos[p].key \in KeysOf(new)  BY <1>2, <1>4, KeysAre
<1>9. \A x : x # mos[i].key => (x \in KeysOf(new) <=> x \in KeysOf(mos))
  <2> TAKE x
  <2> HAVE x # mos[i].key
  <2>1. ASSUME x \in KeysOf(mos) PROVE x \in KeysOf(new)
    <3>1. PICK p \in DOMAIN mos : mos[p].key = x  BY <2>1, KeysAre
    <3> QED  BY <1>8, <3>1
  <2> QED  BY <1>7, <2>1
<1>10. Once(mos, mos[i].key) => mos[i].key \notin KeysOf(new)
  <2> SUFFICES ASSUME Once(mos, mos[i].key), mos[i].key \in KeysOf(new) PROVE FALSE  OBVIOUS
  <2>1. PICK j \in DOMAIN new : new[j].key = mos[i].key  BY KeysAre
  <2>2. at(j) \in DOMAIN mos /\ at(j) # i /\ mos[at(j)].key = mos[i].key  BY <1>2, <2>1
  <2> QED  BY <2>2 DEF Once
<1>11. ASSUME NEW k \in DOMAIN mos, k # i, mos[k].key = mos[i].key
       PROVE  KeysOf(new) = KeysOf(mos)
  <2>1. mos[i].key \in KeysOf(new) /\ mos[i].key \in KeysOf(mos)  BY <1>8, <1>11, KeysAre
  <2>2. \A x : x \in KeysOf(new) <=> x \in KeysOf(mos)  BY <1>9, <2>1
  <2> QED  BY <2>2
<1> QED  BY <1>5, <1>6, <1>9, <1>10, <1>11

\* Keymap::adjustModifier reads an entry.
LEMMA Adjusted ==
  ASSUME NEW mos, IsMods(mos), NEW ma, IsEntry(ma), ma.op \in Ops \cup {"overwrite"},
         NEW new, new = Adjust(mos, ma)
  PROVE  IsMods(new) /\ \A x : Changes(mos, ma, new, x)
<1>0. Len(mos) \in Nat /\ DOMAIN mos = 1..Len(mos)  BY AppendedTo DEF IsMods
<1>1. CASE ma.op = "new"
  <2>1. new = <<ma>>  BY <1>1 DEF Adjust
  <2>2. DOMAIN new = {1} /\ new[1] = ma  BY <2>1
  <2>3. IsList(new)
    <3>1. <<ma>> \in Seq({ma})  OBVIOUS
    <3> QED  BY <2>1, <3>1, SeqFacts
  <2>4. IsMods(new)  BY <2>2, <2>3 DEF IsMods
  <2>5. \A x : Once(new, x) /\ (x \in KeysOf(new) <=> x = ma.key)  BY <2>2, KeysAre DEF Once
  <2> QED  BY <1>1, <2>4, <2>5 DEF Changes
<1>2. CASE ma.op = "add"
  <2>1. PICK e : e = [ma EXCEPT !.op = "new"]  OBVIOUS
  <2>2. IsEntry(e) /\ e.key = ma.key
    <3>1. e = [op |-> "new", mode |-> ma.mode, key |-> ma.key]  BY <2>1 DEF IsEntry
    <3> QED  BY <3>1 DEF IsEntry
  <2>3. new = Append(mos, e)  BY <1>2, <2>1 DEF Adjust
  <2>4. /\ IsList(new) /\ DOMAIN new = 1..(Len(mos) + 1)
        /\ \A p \in 1..Len(mos) : new[p] = mos[p]
        /\ new[Len(mos) + 1] = e
    BY <2>3, AppendedTo DEF IsMods
  <2>5. \A p \in DOMAIN new : p \in DOMAIN mos \/ p = Len(mos) + 1  BY <1>0, <2>4
  <2>6. Len(mos) + 1 \in DOMAIN new /\ DOMAIN mos \subseteq DOMAIN new  BY <1>0, <2>4
  <2>7. IsMods(new)  BY <1>0, <2>2, <2>4, <2>5 DEF IsMods
  <2>8. ma.key \in KeysOf(new)  BY <2>2, <2>4, <2>6, KeysAre
  <2>9. ASSUME NEW x, x # ma.key
        PROVE  (x \in KeysOf(new) <=> x \in KeysOf(mos)) /\ (Once(mos, x) => Once(new, x))
    <3>1. \A p \in DOMAIN new : new[p].key = x => p \in DOMAIN mos /\ mos[p].key = x
      BY <1>0, <2>2, <2>4, <2>5, <2>9
    <3>2. \A p \in DOMAIN mos : p \in DOMAIN new /\ new[p].key = mos[p].key
      BY <1>0, <2>4, <2>6
    <3> QED  BY <3>1, <3>2, KeysAre DEF Once
  <2> QED  BY <1>2, <2>7, <2>8, <2>9 DEF Changes
<1>3. CASE ma.op = "sub"
  <2> DEFINE I == {i \in 1..Len(mos) : mos[i].key = ma.key}
  <2>1. CASE I = {}
    <3>1. new = mos  BY <1>3, <2>1 DEF Adjust, RemoveFirstMatch
    <3>2. ma.key \notin KeysOf(mos)  BY <1>0, <2>1, KeysAre
    <3> QED  BY <1>3, <3>1, <3>2 DEF Changes
  <2>2. CASE I # {}
    <3>1. Min(I) \in I
      <4>1. I \in SUBSET Nat  BY <1>0
      <4> QED  BY <2>2, <4>1, MinOf
    <3>2. PICK i \in DOMAIN mos : i = Min(I) /\ mos[i].key = ma.key  BY <1>0, <3>1
    <3>3. new = RemoveAt(mos, i)
      BY <1>3, <2>2, <3>2 DEF Adjust, RemoveFirstMatch, SelectInSeq
    <3>4. /\ IsMods(new)
          /\ \A x : Once(mos, x) => Once(new, x)
          /\ \A x : x # mos[i].key => (x \in KeysOf(new) <=> x \in KeysOf(mos))
          /\ Once(mos, mos[i].key) => mos[i].key \notin KeysOf(new)
      BY <3>3, WithoutOne
    <3> QED  BY <1>3, <3>2, <3>4 DEF Changes
  <2> QED  BY <2>1, <2>2
<1>4. CASE ma.op = "overwrite"
  <2>1. new = [p \in DOMAIN mos |-> [mos[p] EXCEPT !.mode = ma.mode]]  BY <1>4 DEF Adjust
  <2>2. ASSUME NEW p \in DOMAIN mos PROVE IsEntry(new[p]) /\ new[p].key = mos[p].key
    <3>1. IsEntry(mos[p])  BY DEF IsMods
    <3>2. new[p] = [op |-> mos[p].op, mode |-> ma.mode, key |-> mos[p].key]
      BY <2>1, <3>1 DEF IsEntry
    <3> QED  BY <3>2 DEF IsEntry
  <2>3. DOMAIN new = DOMAIN mos  BY <2>1
  <2>4. IsList(new)
    <3> DEFINE S == {new[p] : p \in DOMAIN mos}
    <3>1. \A p \in 1..Len(mos) : new[p] \in S  BY <1>0
    <3>2. new = [p \in 1..Len(mos) |-> new[p]]  BY <1>0, <2>1
    <3> HIDE DEF S
    <3>3. new \in [1..Len(mos) -> S]  BY <3>1, <3>2
    <3>4. new \in Seq(S)  BY <1>0, <3>3, SeqDef
    <3> QED  BY <3>4, SeqFacts
  <2>5. IsMods(new)  BY <2>2, <2>3, <2>4 DEF IsMods
  <2>6. \A x : (x \in KeysOf(new) <=> x \in KeysOf(mos)) /\ (Once(mos, x) => Once(new, x))
    BY <2>2, <2>3, KeysAre DEF Once
  <2> QED  BY <1>4, <2>5, <2>6 DEF Changes
<1> QED  BY <1>1, <1>2, <1>3, <1>4 DEF Ops

\* An entry that is there again later may go: its key stays.
LEMMA Lessened ==
  ASSUME NEW mos, IsMods(mos)
  PROVE  IsMods(LessRedundant(mos)) /\ KeysOf(LessRedundant(mos)) = KeysOf(mos)
<1> DEFINE again == {j \in DOMAIN mos :
                       \E k \in DOMAIN mos : k > j /\ mos[k].key = mos[j].key}
<1>0. Len(mos) \in Nat /\ DOMAIN mos = 1..Len(mos)  BY AppendedTo DEF IsMods
<1>1. CASE again = {}
  <2>1. LessRedundant(mos) = mos  BY <1>1 DEF LessRedundant
  <2> QED  BY <2>1
<1>2. CASE again # {}
  <2>1. Min(again) \in again
    <3>1. again \in SUBSET Nat  BY <1>0
    <3> QED  BY <1>2, <3>1, MinOf
  <2>2. PICK j \in again : j = Min(again)  BY <2>1
  <2>3. PICK k \in DOMAIN mos : k > j /\ mos[k].key = mos[j].key  OBVIOUS
  <2>4. j \in DOMAIN mos /\ k # j  BY <1>0, <2>3
  <2>5. LessRedundant(mos) = RemoveAt(mos, j)  BY <1>2, <2>2 DEF LessRedundant
  <2>6. PICK new : new = RemoveAt(mos, j)  OBVIOUS
  <2>7. IsMods(new)  BY <2>4, <2>6, WithoutOne
  <2>8. KeysOf(new) = KeysOf(mos)  BY <2>3, <2>4, <2>6, WithoutOne
  <2> QED  BY <2>5, <2>6, <2>7, <2>8
<1> QED  BY <1>1, <1>2

\* What is said of the fold of a keymap's modifiers.
AdjustsDone(K, base, s, r) ==
  /\ K[0] = base /\ r = K[Len(s)]
  /\ \A n \in 1..Len(s) : K[n] = Adjust(K[n - 1], s[n])

LEMMA FoldedMods ==
  ASSUME NEW base, NEW s, IsList(s), NEW r, r = FoldLeft(Adjust, base, s)
  PROVE  \E K : AdjustsDone(K, base, s, r)
<1> DEFINE N == Len(s)
           it(f, S) == IF S = {} THEN base ELSE Adjust(f[S \ {Max(S)}], s[Max(S)])
           Good(f, n) == f = [S \in SUBSET (1..n) |-> it(f, S)]
           F == CHOOSE f : Good(f, N)
<1>0. N \in Nat /\ DOMAIN s = 1..N  BY TableFacts
<1>1. \E f : Good(f, N)
  <2> DEFINE T == {n \in Nat : \E f : Good(f, n)}
  <2>1. 0 \in T
    <3> DEFINE f == [S \in SUBSET (1..0) |-> base]
    <3>1. \A S \in SUBSET (1..0) : S = {} /\ it(f, S) = base  OBVIOUS
    <3> HIDE DEF it
    <3>2. Good(f, 0)  BY <3>1
    <3> QED  BY <3>2
  <2>2. ASSUME NEW n \in Nat, n \in T PROVE n + 1 \in T
    <3>1. PICK f : Good(f, n)  BY <2>2
    <3> DEFINE g == [S \in SUBSET (1..(n + 1)) |->
                       IF S \in SUBSET (1..n) THEN f[S] ELSE it(f, S)]
    <3>2. ASSUME NEW S \in SUBSET (1..(n + 1)) PROVE g[S] = it(g, S)
      <4> HIDE DEF it
      <4>a. \A R \in SUBSET (1..n) : f[R] = it(f, R)  BY <3>1
      <4>b. \A R \in SUBSET (1..n) : R \in SUBSET (1..(n + 1))  OBVIOUS
      <4>c. \A R \in SUBSET (1..n) : g[R] = f[R]  BY <4>b
      <4>d. g[S] = it(f, S)  BY <4>a
      <4>1. CASE S = {}  BY <4>d, <4>1 DEF it
      <4>2. CASE S # {}
        <5>1. Max(S) \in S /\ \A y \in S : y <= Max(S)
          <6>1. n + 1 \in Nat  OBVIOUS
          <6> QED  BY <4>2, <6>1, MaxOf
        <5>2. \A y \in S \ {Max(S)} : y \in 1..n
          <6> TAKE y \in S \ {Max(S)}
          <6>1. y \in 1..(n + 1) /\ Max(S) \in 1..(n + 1) /\ y # Max(S) /\ y <= Max(S)
            BY <5>1
          <6> QED  BY <6>1
        <5>3. g[S \ {Max(S)}] = f[S \ {Max(S)}]
          <6>1. PICK R : R = S \ {Max(S)}  OBVIOUS
          <6>2. R \in SUBSET (1..n)  BY <5>2, <6>1
          <6>3. g[R] = f[R]  BY <4>c, <6>2
          <6> QED  BY <6>1, <6>3
        <5> HIDE DEF g
        <5> QED  BY <4>d, <4>2, <5>3 DEF it
      <4> QED  BY <4>1, <4>2
    <3>3. g = [S \in SUBSET (1..(n + 1)) |-> g[S]]  OBVIOUS
    <3> HIDE DEF g, it
    <3>4. Good(g, n + 1)  BY <3>2, <3>3
    <3> HIDE DEF Good
    <3> QED  BY <3>4
  <2>3. N \in T
    <3> HIDE DEF T
    <3> QED  BY <1>0, <2>1, <2>2, NumbersIn
  <2> QED  BY <2>3
<1>2. Good(F, N)  BY <1>1
<1>3. FoldLeft(Adjust, base, s) = F[1..N]
  BY <1>0 DEF FoldLeft, MapThenFoldSet
<1> HIDE DEF F
<1>4. \A S \in SUBSET (1..N) : F[S] = it(F, S)  BY <1>2
<1> DEFINE K == [n \in 0..N |-> F[1..n]]
<1>5. K[0] = base
  <2>1. 1..0 = {} /\ {} \in SUBSET (1..N)  OBVIOUS
  <2>2. F[{}] = base  BY <1>4, <2>1
  <2> QED  BY <1>0, <2>1, <2>2
<1>6. ASSUME NEW n \in 1..N PROVE K[n] = Adjust(K[n - 1], s[n])
  <2> DEFINE R == 1..n
  <2>1. R \in SUBSET (1..N) /\ R # {} /\ n \in R /\ \A y \in R : y <= n  BY <1>0
  <2>2. Max(R) = n
    <3>1. R \in SUBSET (1..n) /\ n \in Nat  OBVIOUS
    <3>2. Max(R) \in R /\ \A y \in R : y <= Max(R)  BY <2>1, <3>1, MaxOf
    <3>3. n <= Max(R) /\ Max(R) \in 1..n  BY <2>1, <3>2
    <3> HIDE DEF R
    <3> QED  BY <3>3
  <2>3. R \ {n} = 1..(n - 1)  OBVIOUS
  <2>4. K[n] = F[R] /\ K[n - 1] = F[1..(n - 1)]  BY <1>0
  <2>5. F[R] = Adjust(F[R \ {Max(R)}], s[Max(R)])  BY <1>4, <2>1
  <2> HIDE DEF R, K
  <2>6. F[R \ {n}] = F[1..(n - 1)]  BY <2>3
  <2> QED  BY <2>2, <2>4, <2>5, <2>6
<1>7. K[N] = F[1..N]  BY <1>0
<1> HIDE DEF K
<1> QED  BY <1>3, <1>5, <1>6, <1>7 DEF AdjustsDone

\* What becomes of the key x in the end, base being what was inherited and own the
\* keymap's entries, the first n of which were read.
Word(own, p, x) == own[p].key = x /\ own[p].op # "overwrite"
Inherits(base, own, n) == IF n > 0 /\ own[1].op = "new" THEN {} ELSE KeysOf(base)

LeftBy(mos, base, own, n, x) ==
  IF \E p \in 1..n : Word(own, p, x)
  THEN \A p \in 1..n : Word(own, p, x) => (x \in KeysOf(mos) <=> own[p].op # "sub")
  ELSE Once(mos, x) /\ (x \in KeysOf(mos) <=> x \in Inherits(base, own, n))

\* Of an inherited list that has no key twice the keymap's entries make what they say.
LEMMA KeptBy ==
  ASSUME NEW own, Entries(own), NEW base, IsMods(base), NamesOnce(base),
         NEW K, NEW r, AdjustsDone(K, base, own, r), NEW n \in Nat, n < Len(own),
         IsMods(K[n]), \A x : LeftBy(K[n], base, own, n, x), NEW x
  PROVE  LeftBy(K[n + 1], base, own, n + 1, x)
<1> DEFINE ma == own[n + 1]
<1>0. /\ Len(own) \in Nat /\ DOMAIN own = 1..Len(own)
      /\ n + 1 \in 1..Len(own) /\ (n + 1) - 1 = n
      /\ 1..(n + 1) = (1..n) \cup {n + 1} /\ n + 1 \notin 1..n
      /\ 1..n \subseteq DOMAIN own /\ n + 1 \in DOMAIN own
  BY AppendedTo DEF Entries
<1>1. K[n + 1] = Adjust(K[n], ma)  BY <1>0 DEF AdjustsDone
<1>2. /\ IsEntry(ma)
      /\ IF ma.key = None THEN ma.op = "overwrite" ELSE ma.op \in Ops
      /\ ma.op = "new" => n = 0
  <2>1. ma.op = "new" => n + 1 = 1  BY <1>0 DEF Entries
  <2> QED  BY <1>0, <2>1 DEF Entries
<1> DEFINE mos == K[n]
           new == K[n + 1]
<1>3. PICK e : e = ma  OBVIOUS
<1>4. Changes(K[n], e, K[n + 1], x)
  <2>1. e.op \in Ops \cup {"overwrite"}  BY <1>2, <1>3
  <2> QED  BY <1>1, <1>2, <1>3, <2>1, Adjusted
<1>5. ma.op = "overwrite" \/ ma.op = "new" \/ ma.op = "add" \/ ma.op = "sub"
  BY <1>2 DEF Ops
<1>6. \A p \in 1..n : own[p].key # ma.key
  BY <1>0 DEF Entries, NamesOnce
<1>7. (\E p \in 1..n : Word(own, p, x)) => x # ma.key  BY <1>6 DEF Word
<1>8. CASE ma.op = "overwrite"
  <2>1. (x \in KeysOf(new) <=> x \in KeysOf(mos)) /\ (Once(mos, x) => Once(new, x))
    BY <1>3, <1>4, <1>8 DEF Changes
  <2>2. ~Word(own, n + 1, x)  BY <1>8 DEF Word
  <2>3. \A p \in 1..(n + 1) : Word(own, p, x) => p \in 1..n  BY <1>0, <2>2
  <2>4. Inherits(base, own, n + 1) = Inherits(base, own, n)
    <3>1. n = 0 => own[1].op # "new"  BY <1>8
    <3> QED  BY <1>0, <3>1 DEF Inherits
  <2> HIDE DEF mos, new
  <2>5. LeftBy(mos, base, own, n, x)  BY DEF mos
  <2>6. LeftBy(new, base, own, n + 1, x)  BY <1>0, <2>1, <2>3, <2>4, <2>5 DEF LeftBy
  <2> QED  BY <2>6 DEF new
<1>9. CASE ma.op = "new"
  <2>1. Once(new, x) /\ (x \in KeysOf(new) <=> x = ma.key) /\ n = 0
    BY <1>2, <1>3, <1>4, <1>9 DEF Changes
  <2>2. Word(own, n + 1, x) <=> x = ma.key  BY <1>9 DEF Word
  <2>3. \A p \in 1..(n + 1) : p = n + 1  BY <2>1
  <2>4. Inherits(base, own, n + 1) = {}  BY <1>9, <2>1 DEF Inherits
  <2> QED  BY <1>0, <1>9, <2>1, <2>2, <2>3, <2>4 DEF LeftBy
<1>10. CASE ma.op \in {"add", "sub"} /\ x # ma.key
  <2>1. (x \in KeysOf(new) <=> x \in KeysOf(mos)) /\ (Once(mos, x) => Once(new, x))
    BY <1>3, <1>4, <1>10 DEF Changes
  <2>2. ~Word(own, n + 1, x)  BY <1>10 DEF Word
  <2>3. \A p \in 1..(n + 1) : Word(own, p, x) => p \in 1..n  BY <1>0, <2>2
  <2>4. Inherits(base, own, n + 1) = Inherits(base, own, n)
    <3>1. n = 0 => own[1].op # "new"  BY <1>10
    <3> QED  BY <1>0, <3>1 DEF Inherits
  <2> HIDE DEF mos, new
  <2>5. LeftBy(mos, base, own, n, x)  BY DEF mos
  <2>6. LeftBy(new, base, own, n + 1, x)  BY <1>0, <2>1, <2>3, <2>4, <2>5 DEF LeftBy
  <2> QED  BY <2>6 DEF new
<1>11. CASE ma.op \in {"add", "sub"} /\ x = ma.key
  <2>1. Word(own, n + 1, x)  BY <1>11 DEF Word
  <2>2. \A p \in 1..(n + 1) : Word(own, p, x) => p = n + 1  BY <1>0, <1>7, <1>11
  <2>3. Once(mos, x)
    <3>1. ~\E p \in 1..n : Word(own, p, x)  BY <1>7, <1>11
    <3> QED  BY <3>1 DEF LeftBy
  <2>4. x \in KeysOf(new) <=> ma.op # "sub"
    BY <1>3, <1>4, <1>11, <2>3 DEF Changes
  <2> QED  BY <1>0, <2>1, <2>2, <2>4 DEF LeftBy
<1> QED  BY <1>5, <1>8, <1>9, <1>10, <1>11

\* what they make of the key x, whatever the mode
Says(new, base, own, x) ==
  IF \E p \in DOMAIN own : Word(own, p, x)
  THEN \A p \in DOMAIN own : Word(own, p, x) => (x \in KeysOf(new) <=> own[p].op # "sub")
  ELSE x \in KeysOf(new) <=> x \in Inherits(base, own, Len(own))

\* The modifiers of one keymap after Keymap::adjustModifier.
LEMMA FoldedList ==
  ASSUME NEW own, Entries(own), NEW base, IsMods(base),
         NEW new, new = LessRedundant(FoldLeft(Adjust, base, own))
  PROVE  /\ IsMods(new)
         /\ NamesOnce(base) => \A x : Says(new, base, own, x)
<1>0. Len(own) \in Nat /\ DOMAIN own = 1..Len(own) /\ IsList(own)  BY AppendedTo DEF Entries
<1>1. PICK r : r = FoldLeft(Adjust, base, own)  OBVIOUS
<1>2. PICK K : AdjustsDone(K, base, own, r)  BY <1>0, <1>1, FoldedMods
<1>3. \A n \in Nat : n <= Len(own) => IsMods(K[n])
  <2> DEFINE S == {n \in Nat : n <= Len(own) => IsMods(K[n])}
  <2>1. 0 \in S  BY <1>2 DEF AdjustsDone
  <2>2. ASSUME NEW n \in Nat, n \in S PROVE n + 1 \in S
    <3> SUFFICES ASSUME n + 1 <= Len(own) PROVE IsMods(K[n + 1])  OBVIOUS
    <3>1. n + 1 \in 1..Len(own) /\ (n + 1) - 1 = n /\ n <= Len(own)  BY <1>0
    <3>2. K[n + 1] = Adjust(K[n], own[n + 1])  BY <1>2, <3>1 DEF AdjustsDone
    <3>3. IsEntry(own[n + 1]) /\ own[n + 1].op \in Ops \cup {"overwrite"}
      BY <1>0, <3>1 DEF Entries
    <3>4. IsMods(K[n])  BY <2>2, <3>1
    <3> QED  BY <3>2, <3>3, <3>4, Adjusted
  <2>3. Nat \subseteq S  BY <2>1, <2>2, NumbersIn
  <2> QED  BY <2>3
<1>4. IsMods(r) /\ r = K[Len(own)]  BY <1>0, <1>2, <1>3 DEF AdjustsDone
<1>5. IsMods(new) /\ KeysOf(new) = KeysOf(r)  BY <1>1, <1>4, Lessened
<1>6. ASSUME NamesOnce(base) PROVE \A x : Says(new, base, own, x)
  <2>1. \A n \in Nat : n <= Len(own) => \A x : LeftBy(K[n], base, own, n, x)
    <3> DEFINE S == {n \in Nat : n <= Len(own) => \A x : LeftBy(K[n], base, own, n, x)}
    <3>1. 0 \in S
      <4>1. K[0] = base /\ ~\E p \in 1..0 : TRUE  BY <1>2 DEF AdjustsDone
      <4>2. \A x : Once(base, x)  BY <1>6 DEF Once, NamesOnce
      <4>3. ASSUME NEW x PROVE LeftBy(K[0], base, own, 0, x)
        BY <4>1, <4>2 DEF LeftBy, Inherits
      <4> QED  BY <4>3
    <3>2. ASSUME NEW n \in Nat, n \in S PROVE n + 1 \in S
      <4> SUFFICES ASSUME n + 1 <= Len(own), NEW x PROVE LeftBy(K[n + 1], base, own, n + 1, x)
        OBVIOUS
      <4>1. n < Len(own) /\ n <= Len(own)  BY <1>0
      <4>2. IsMods(K[n]) /\ \A y : LeftBy(K[n], base, own, n, y)  BY <1>3, <3>2, <4>1
      <4> QED  BY <1>2, <1>6, <4>1, <4>2, KeptBy
    <3>3. Nat \subseteq S  BY <3>1, <3>2, NumbersIn
    <3> QED  BY <3>3
  <2>2. \A x : LeftBy(r, base, own, Len(own), x)  BY <1>0, <1>4, <2>1
  <2> QED  BY <1>0, <1>5, <2>2 DEF LeftBy, Says
<1> QED  BY <1>5, <1>6

\* What Commit finds: parents that exist, and lists as addModifier leaves them.
Ready(kms) ==
  /\ IsTable(kms) /\ \A m \in Modifiers : IsList(defmods[m])
  /\ \A j \in DOMAIN kms : /\ kms[j].parent \in DOMAIN kms \cup {0}
                           /\ \A m \in Modifiers : Entries(kms[j].mods[m])

Adjustable(kms, own) ==
  /\ Keeps(kms, own)
  /\ \A j \in DOMAIN own : /\ kms[j].parent = own[j].parent
                           /\ \A m \in Modifiers : IsMods(kms[j].mods[m])

\* The list a keymap starts from.
LEMMA InheritedIs ==
  ASSUME NEW own, Ready(own), NEW kms, Adjustable(kms, own), NEW i \in DOMAIN own,
         NEW m \in Modifiers
  PROVE  /\ IsMods(Inherited(kms, i, m))
         /\ own[i].parent = 0 => /\ KeysOf(Inherited(kms, i, m)) = ToSet(defmods[m])
                                 /\ DOMAIN Inherited(kms, i, m) = DOMAIN defmods[m]
                                 /\ \A j \in DOMAIN defmods[m] :
                                      Inherited(kms, i, m)[j].key = defmods[m][j]
<1>1. CASE own[i].parent # 0
  <2>1. own[i].parent \in DOMAIN own /\ kms[i].parent = own[i].parent
    BY <1>1 DEF Ready, Adjustable
  <2>2. Inherited(kms, i, m) = kms[own[i].parent].mods[m]  BY <1>1, <2>1 DEF Inherited
  <2> QED  BY <1>1, <2>1, <2>2 DEF Adjustable
<1>2. CASE own[i].parent = 0
  <2>1. PICK base : base = Inherited(kms, i, m)  OBVIOUS
  <2>2. kms[i].parent = 0  BY <1>2 DEF Adjustable
  <2>3. base = [j \in DOMAIN defmods[m] |->
                  [op |-> "add", mode |-> "normal", key |-> defmods[m][j]]]
    BY <2>1, <2>2 DEF Inherited
  <2>4. Len(defmods[m]) \in Nat /\ DOMAIN defmods[m] = 1..Len(defmods[m])
    <3>1. IsList(defmods[m])  BY DEF Ready
    <3> QED  BY <3>1, AppendedTo
  <2>5. \A j \in DOMAIN base : IsEntry(base[j]) /\ base[j].key = defmods[m][j]
    BY <2>3 DEF IsEntry
  <2>6. IsList(base)
    <3> DEFINE S == {base[j] : j \in DOMAIN base}
    <3>1. \A j \in 1..Len(defmods[m]) : base[j] \in S  BY <2>3, <2>4
    <3>2. base = [j \in 1..Len(defmods[m]) |-> base[j]]  BY <2>3, <2>4
    <3> HIDE DEF S
    <3>3. base \in [1..Len(defmods[m]) -> S]  BY <3>1, <3>2
    <3>4. base \in Seq(S)  BY <2>4, <3>3, SeqDef
    <3> QED  BY <3>4, SeqFacts
  <2>7. DOMAIN base = DOMAIN defmods[m]  BY <2>3
  <2>8. KeysOf(base) = ToSet(defmods[m])
    <3>1. \A x : x \in KeysOf(base) <=> \E j \in DOMAIN defmods[m] : defmods[m][j] = x
      BY <2>5, <2>7, KeysAre
    <3>2. \A x : x \in ToSet(defmods[m]) <=> \E j \in DOMAIN defmods[m] : defmods[m][j] = x
      BY DEF ToSet
    <3> QED  BY <3>1, <3>2
  <2> QED  BY <2>1, <2>5, <2>6, <2>7, <2>8 DEF IsMods
<1> QED  BY <1>1, <1>2

\* The keymaps up to the n-th are adjusted, those after it as they were.
AdjustedTo(kms, own, n) ==
  /\ Adjustable(kms, own)
  /\ \A j \in DOMAIN own : j > n => kms[j].mods = own[j].mods
  /\ \A j \in DOMAIN own, m \in Modifiers :
       j <= n /\ own[j].parent < j =>
         kms[j].mods[m] = LessRedundant(FoldLeft(Adjust, Inherited(kms, j, m), own[j].mods[m]))

LEMMA AdjustedOne ==
  ASSUME NEW own, Ready(own), NEW kms, NEW n \in Nat, n < Len(own), AdjustedTo(kms, own, n),
         NEW new, new = AdjustModifier(kms, n + 1)
  PROVE  AdjustedTo(new, own, n + 1)
<1> DEFINE i == n + 1
<1>0. Len(own) \in Nat /\ DOMAIN own = 1..Len(own) /\ i \in DOMAIN own
  <2>1. IsList(own)  BY DEF Ready, IsTable
  <2>2. Len(own) \in Nat /\ DOMAIN own = 1..Len(own)  BY <2>1, AppendedTo
  <2> QED  BY <2>2
<1>1. Adjustable(kms, own) /\ kms[i].mods = own[i].mods  BY <1>0 DEF AdjustedTo
<1>2. IsTable(kms) /\ DOMAIN kms = DOMAIN own  BY <1>1 DEF Adjustable, Keeps
<1>3. /\ Keeps(new, kms)
      /\ \A j \in DOMAIN own : /\ new[j].parent = own[j].parent
                               /\ j # i => new[j].mods = kms[j].mods
      /\ new[i].mods = [m \in Modifiers |->
           LessRedundant(FoldLeft(Adjust, Inherited(kms, i, m), own[i].mods[m]))]
  <2>1. PICK k : k = n + 1  OBVIOUS
  <2>2. /\ Keeps(new, kms)
        /\ \A j \in DOMAIN kms : /\ new[j].parent = kms[j].parent
                                 /\ j # k => new[j].mods = kms[j].mods
        /\ new[k].mods = [m \in Modifiers |->
             LessRedundant(FoldLeft(Adjust, Inherited(kms, k, m), kms[k].mods[m]))]
    BY <1>0, <1>2, <2>1, KeymapAdjusted
  <2>3. \A j \in DOMAIN own : kms[j].parent = own[j].parent  BY <1>1 DEF Adjustable
  <2> QED  BY <1>1, <1>2, <2>1, <2>2, <2>3
<1> HIDE DEF i
<1>4. \A m \in Modifiers : IsMods(new[i].mods[m])
  <2> TAKE m \in Modifiers
  <2>1. PICK mine, base : mine = own[i].mods[m] /\ base = Inherited(kms, i, m)  OBVIOUS
  <2>2. Entries(mine)  BY <1>0, <2>1 DEF Ready
  <2>3. IsMods(base)  BY <1>0, <1>1, <2>1, InheritedIs
  <2>4. PICK r : r = LessRedundant(FoldLeft(Adjust, base, mine))  OBVIOUS
  <2>5. IsMods(r)  BY <2>2, <2>3, <2>4, FoldedList
  <2> QED  BY <1>3, <2>1, <2>4, <2>5
<1>5. Adjustable(new, own)
  <2>1. Keeps(new, own)  BY <1>1, <1>3, KeepsTwice DEF Adjustable
  <2> QED  BY <1>1, <1>3, <1>4, <2>1 DEF Adjustable
<1>6. ASSUME NEW j \in DOMAIN own, NEW m \in Modifiers, own[j].parent < j, j <= i
      PROVE  Inherited(new, j, m) = Inherited(kms, j, m)
  <2>1. new[j].parent = own[j].parent /\ kms[j].parent = own[j].parent
    BY <1>1, <1>3 DEF Adjustable
  <2>2. CASE own[j].parent = 0  BY <2>1, <2>2 DEF Inherited
  <2>3. CASE own[j].parent # 0
    <3>1. own[j].parent \in DOMAIN own  BY <2>3 DEF Ready
    <3>2. own[j].parent # i  BY <1>0, <1>6, <3>1
    <3> QED  BY <1>3, <2>1, <2>3, <3>1, <3>2 DEF Inherited
  <2> QED  BY <2>2, <2>3
<1>7. ASSUME NEW j \in DOMAIN own, NEW m \in Modifiers, own[j].parent < j, j <= i
      PROVE  new[j].mods[m] = LessRedundant(FoldLeft(Adjust, Inherited(new, j, m), own[j].mods[m]))
  <2>1. CASE j = i  BY <1>3, <1>6, <1>7, <2>1
  <2>2. CASE j # i
    <3>1. j <= n  BY <1>0, <1>7, <2>2 DEF i
    <3> QED  BY <1>3, <1>6, <1>7, <2>2, <3>1 DEF AdjustedTo
  <2> QED  BY <2>1, <2>2
<1>8. ASSUME NEW j \in DOMAIN own, j > i PROVE new[j].mods = own[j].mods
  <2>1. j > n /\ j # i  BY <1>0, <1>8 DEF i
  <2> QED  BY <1>3, <2>1 DEF AdjustedTo
<1> QED  BY <1>5, <1>7, <1>8 DEF AdjustedTo, i

\* In the end all are.
LEMMA AdjustedAll ==
  ASSUME NEW own, Ready(own), NEW new, new = AdjustAll(own)
  PROVE  AdjustedTo(new, own, Len(own))
<1>0. Len(own) \in Nat /\ DOMAIN own = 1..Len(own) /\ IsList(own)
  <2>1. IsList(own)  BY DEF Ready, IsTable
  <2> QED  BY <2>1, AppendedTo
<1>1. PICK K : KeymapsDone(K, own)  BY <1>0, FoldedKeymaps
<1> DEFINE S == {n \in Nat : n <= Len(own) => AdjustedTo(K[n], own, n)}
<1>2. 0 \in S
  <2>1. K[0] = own  BY <1>1 DEF KeymapsDone
  <2>2. \A j \in DOMAIN own, m \in Modifiers : IsMods(own[j].mods[m])
    BY DEF Ready, Entries, IsMods
  <2>3. Keeps(own, own)  BY DEF Keeps, Ready
  <2>4. Adjustable(own, own)  BY <2>2, <2>3 DEF Adjustable
  <2>5. \A j \in DOMAIN own : ~(j <= 0)  BY <1>0
  <2> QED  BY <2>1, <2>4, <2>5 DEF AdjustedTo
<1>3. ASSUME NEW n \in Nat, n \in S PROVE n + 1 \in S
  <2> SUFFICES ASSUME n + 1 <= Len(own) PROVE AdjustedTo(K[n + 1], own, n + 1)  OBVIOUS
  <2>1. n + 1 \in 1..Len(own) /\ (n + 1) - 1 = n /\ n < Len(own) /\ n <= Len(own)  BY <1>0
  <2>2. K[n + 1] = AdjustModifier(K[n], n + 1)  BY <1>1, <2>1 DEF KeymapsDone
  <2>3. AdjustedTo(K[n], own, n)  BY <1>3, <2>1
  <2> QED  BY <2>1, <2>2, <2>3, AdjustedOne
<1>4. Nat \subseteq S  BY <1>2, <1>3, NumbersIn
<1>5. AdjustedTo(K[Len(own)], own, Len(own))  BY <1>0, <1>4
<1> QED  BY <1>1, <1>5 DEF KeymapsDone

\* What ModifiersFolded says of one keymap and one modifier, kms being the keymaps.
Above(kms, i, m) == IF kms[i].parent = 0 THEN <<>> ELSE kms[kms[i].parent].mods[m]
Lasts(nm, m, x) == Final({s \in InForce(nm, m) : KeyOf(s) = x})

Folds(kms, i, m) ==
  LET nm == kms[i].name
      base == IF Replaces(nm, m) THEN {}
              ELSE IF kms[i].parent = 0 THEN ToSet(defmods[m])
              ELSE KeysOf(Above(kms, i, m))
  IN  kms[i].parent < i /\ KeepsReplacing(nm, m) /\ NamesOnce(Above(kms, i, m)) =>
        \A x \in keys :
          x \in KeysOf(kms[i].mods[m]) <=>
            IF Lasts(nm, m, x) = {} THEN x \in base
            ELSE \A s \in Lasts(nm, m, x) : OpOf(s) # "sub"

LEMMA FoldsIs ==
  ModifiersFolded <=>
    (committed => \A i \in DOMAIN keymaps, m \in Modifiers : Folds(keymaps, i, m))
BY DEF ModifiersFolded, Folds, Above, Lasts

\* The list tells what the script does: the last "=", and the last word of each key.
LEMMA ToldIs ==
  ASSUME NEW list, NEW nm, NEW m, Told(list, nm, m)
  PROVE  /\ Entries(list)
         /\ \A x : Lasts(nm, m, x) = {} <=> ~\E p \in DOMAIN list : Word(list, p, x)
         /\ \A x : \A p \in DOMAIN list : \A s \in Lasts(nm, m, x) :
              Word(list, p, x) => OpOf(s) = list[p].op
         /\ KeepsReplacing(nm, m) =>
              (Replaces(nm, m) <=> Len(list) > 0 /\ list[1].op = "new")
<1> DEFINE T == Statements(nm, m)
<1>1. PICK key, op : /\ \A s \in T : key[s] = KeyOf(s) /\ op[s] = OpOf(s)
                     /\ Follows(list, T, key, op)
  BY DEF Told
<1>2. \A s \in T : KeyOf(s) # None  BY DEF Statements
<1> DEFINE F == InForce(nm, m)
<1>3. F = InForceOf(T, op) /\ F \subseteq T
  <2>1. {s \in T : OpOf(s) = "new"} = {s \in T : op[s] = "new"}  BY <1>1
  <2> QED  BY <2>1 DEF InForce, InForceOf
<1>4. ASSUME NEW x PROVE Lasts(nm, m, x) = LastOn(T, key, op, x)
  <2>1. {s \in F : KeyOf(s) = x} = {s \in F : key[s] = x}  BY <1>1, <1>3
  <2> QED  BY <1>3, <2>1 DEF Lasts, LastOn
<1>5. \A x : \A s \in Lasts(nm, m, x) : s \in F /\ s \in T /\ KeyOf(s) = x
  BY <1>3 DEF Lasts, Final
<1> HIDE DEF F
<1>6. Entries(list)  BY <1>1 DEF Follows
<1>7. \A p \in DOMAIN list : list[p].key # None <=> list[p].op # "overwrite"
  BY <1>6 DEF Entries, Ops
<1>8. ASSUME NEW x, NEW p \in DOMAIN list, Word(list, p, x)
      PROVE  /\ x # None /\ Lasts(nm, m, x) # {}
             /\ \A s \in Lasts(nm, m, x) : OpOf(s) = list[p].op
  <2>1. list[p].key = x /\ x # None  BY <1>7, <1>8 DEF Word
  <2>2. /\ LastOn(T, key, op, x) # {}
        /\ \A s \in LastOn(T, key, op, x) : op[s] = list[p].op
    BY <1>1, <2>1 DEF Follows
  <2> HIDE DEF T
  <2> QED  BY <1>1, <1>4, <1>5, <2>1, <2>2
<1>9. ASSUME NEW s \in F PROVE \E p \in DOMAIN list : Word(list, p, KeyOf(s))
  <2>1. key[s] = KeyOf(s) /\ KeyOf(s) # None  BY <1>1, <1>2, <1>3
  <2>2. PICK p \in DOMAIN list : list[p].key = key[s]  BY <1>1, <1>3 DEF Follows
  <2> QED  BY <1>7, <2>1, <2>2 DEF Word
<1>10. \A x : Lasts(nm, m, x) # {} => \E p \in DOMAIN list : Word(list, p, x)
  BY <1>5, <1>9
<1>11. DOMAIN list = 1..Len(list) /\ Len(list) \in Nat  BY <1>6, AppendedTo DEF Entries
<1>12. ASSUME KeepsReplacing(nm, m), Replaces(nm, m) PROVE Len(list) > 0 /\ list[1].op = "new"
  <2>1. PICK s \in F : OpOf(s) = "new"  BY <1>12 DEF Replaces, F
  <2>2. PICK p \in DOMAIN list : Word(list, p, KeyOf(s))  BY <1>9
  <2>3. PICK t \in Lasts(nm, m, KeyOf(s)) : OpOf(t) = list[p].op  BY <1>8, <2>2
  <2>4. t \in F /\ KeyOf(t) = KeyOf(s)  BY <1>5
  <2>5. t = s  BY <1>12, <2>1, <2>4 DEF KeepsReplacing, F
  <2>6. p = 1  BY <1>6, <2>1, <2>3, <2>5 DEF Entries
  <2> QED  BY <1>11, <2>1, <2>3, <2>5, <2>6
<1>13. ASSUME Len(list) > 0, list[1].op = "new" PROVE Replaces(nm, m)
  <2>1. 1 \in DOMAIN list  BY <1>11, <1>13
  <2>2. Word(list, 1, list[1].key)  BY <1>13 DEF Word
  <2>3. PICK s \in Lasts(nm, m, list[1].key) : OpOf(s) = "new"  BY <1>8, <1>13, <2>1, <2>2
  <2> QED  BY <1>5, <2>3 DEF Replaces, F
<1> QED  BY <1>6, <1>8, <1>10, <1>12, <1>13

\* Commit folds the modifiers as the script says.
LEMMA CommitFolds ==
  ASSUME NEW own, Ready(own), NEW new, new = AdjustAll(own),
         \A m \in Modifiers : \A p, q \in DOMAIN defmods[m] : defmods[m][p] = defmods[m][q] => p = q,
         NEW i \in DOMAIN own, NEW m \in Modifiers, Told(own[i].mods[m], own[i].name, m)
  PROVE  Folds(new, i, m)
<1>1. PICK mine, nm : mine = own[i].mods[m] /\ nm = own[i].name  OBVIOUS
<1>2. AdjustedTo(new, own, Len(own))  BY AdjustedAll
<1>3. Adjustable(new, own)  BY <1>2 DEF AdjustedTo
<1>4. new[i].name = nm /\ new[i].parent = own[i].parent  BY <1>1, <1>3 DEF Adjustable, Keeps
<1>5. i <= Len(own)
  <2>1. IsList(own)  BY DEF Ready, IsTable
  <2>2. Len(own) \in Nat /\ DOMAIN own = 1..Len(own)  BY <2>1, AppendedTo
  <2> QED  BY <2>2
<1> SUFFICES ASSUME own[i].parent < i, KeepsReplacing(nm, m), NamesOnce(Above(new, i, m)),
                    NEW x \in keys,
                    NEW base, base = IF Replaces(nm, m) THEN {}
                                     ELSE IF own[i].parent = 0 THEN ToSet(defmods[m])
                                     ELSE KeysOf(Above(new, i, m))
             PROVE  x \in KeysOf(new[i].mods[m]) <=>
                      IF Lasts(nm, m, x) = {} THEN x \in base
                      ELSE \A s \in Lasts(nm, m, x) : OpOf(s) # "sub"
  BY <1>4 DEF Folds
<1>6. PICK from, r : /\ from = Inherited(new, i, m)
                     /\ r = LessRedundant(FoldLeft(Adjust, from, mine))
  OBVIOUS
<1>7. new[i].mods[m] = r  BY <1>1, <1>2, <1>5, <1>6 DEF AdjustedTo
<1>8. /\ Entries(mine)
      /\ \A y : Lasts(nm, m, y) = {} <=> ~\E p \in DOMAIN mine : Word(mine, p, y)
      /\ \A y : \A p \in DOMAIN mine : \A s \in Lasts(nm, m, y) :
           Word(mine, p, y) => OpOf(s) = mine[p].op
      /\ KeepsReplacing(nm, m) =>
           (Replaces(nm, m) <=> Len(mine) > 0 /\ mine[1].op = "new")
  BY <1>1, ToldIs
<1>9. /\ IsMods(from)
      /\ own[i].parent = 0 => /\ KeysOf(from) = ToSet(defmods[m])
                              /\ DOMAIN from = DOMAIN defmods[m]
                              /\ \A j \in DOMAIN defmods[m] : from[j].key = defmods[m][j]
  BY <1>3, <1>6, InheritedIs
<1>10. own[i].parent # 0 => from = Above(new, i, m)
  BY <1>4, <1>6 DEF Inherited, Above
<1>11. NamesOnce(from)
  <2>1. CASE own[i].parent = 0  BY <1>9, <2>1 DEF NamesOnce
  <2>2. CASE own[i].parent # 0  BY <1>10, <2>2
  <2> QED  BY <2>1, <2>2
<1>12. Says(r, from, mine, x)  BY <1>6, <1>8, <1>9, <1>11, FoldedList
<1>13. Inherits(from, mine, Len(mine)) = base  BY <1>8, <1>9, <1>10 DEF Inherits
<1>14. CASE Lasts(nm, m, x) = {}
  <2>1. ~\E p \in DOMAIN mine : Word(mine, p, x)  BY <1>8, <1>14
  <2> QED  BY <1>7, <1>12, <1>13, <1>14, <2>1 DEF Says
<1>15. CASE Lasts(nm, m, x) # {}
  <2>1. PICK p \in DOMAIN mine : Word(mine, p, x)  BY <1>8, <1>15
  <2>2. x \in KeysOf(r) <=> mine[p].op # "sub"  BY <1>12, <2>1 DEF Says
  <2>3. \A s \in Lasts(nm, m, x) : OpOf(s) = mine[p].op  BY <1>8, <2>1
  <2> QED  BY <1>7, <1>15, <2>2, <2>3
<1> QED  BY <1>14, <1>15

\* The same script makes the same statements.
LEMMA SameStatements ==
  ASSUME script' = script, refs' = refs
  PROVE  /\ \A s : KeyOf(s)' = KeyOf(s) /\ OpOf(s)' = OpOf(s)
         /\ \A nm, m : Statements(nm, m)' = Statements(nm, m)
<1>1. /\ \A kind : At(kind)' = At(kind) /\ \A j : Here(j)' = Here(j)
      /\ \A x, j : (Defined(x, j)' <=> Defined(x, j)) /\ AliasesOf(x, j)' = AliasesOf(x, j)
  BY SameScript
<1>2. \A x, j : Denotes(x, j)' = Denotes(x, j)  BY <1>1, DenotesIs, DenotesIsNext
<1>3. ASSUME NEW s PROVE KeyOf(s)' = KeyOf(s) /\ OpOf(s)' = OpOf(s)
  <2>1. PICK x, j : j = s[1] /\ x = script[s[1]].keys[s[2]].key  OBVIOUS
  <2>2. Denotes(x, j)' = Denotes(x, j)  BY <1>2
  <2>3. KeyOf(s) = Denotes(x, j)  BY <2>1 DEF KeyOf
  <2>4. KeyOf(s)' = Denotes(x, j)'  BY <2>1 DEF KeyOf
  <2> QED  BY <2>2, <2>3, <2>4 DEF OpOf, OpAt
<1>4. ASSUME NEW nm, NEW m PROVE Statements(nm, m)' = Statements(nm, m)
  BY <1>1, <1>3 DEF Statements
<1> QED  BY <1>3, <1>4

\* What the script says of modifiers depends on the script alone.
LEMMA SameFolds ==
  ASSUME script' = script, refs' = refs, keys' = keys, defmods' = defmods,
         NEW kms, NEW i, NEW m
  PROVE  Folds(kms, i, m)' <=> Folds(kms, i, m)
<1>1. \A s : KeyOf(s)' = KeyOf(s) /\ OpOf(s)' = OpOf(s)  BY SameStatements
<1>2. ASSUME NEW nm PROVE InForce(nm, m)' = InForce(nm, m)
  <2>1. Statements(nm, m)' = Statements(nm, m)  BY SameStatements
  <2> QED  BY <1>1, <2>1 DEF InForce, Final, Before
<1>3. ASSUME NEW nm
      PROVE  /\ Replaces(nm, m)' <=> Replaces(nm, m)
             /\ KeepsReplacing(nm, m)' <=> KeepsReplacing(nm, m)
             /\ \A x : Lasts(nm, m, x)' = Lasts(nm, m, x)
  BY <1>1, <1>2 DEF Replaces, KeepsReplacing, Lasts, Final, Before
<1>4. Above(kms, i, m)' = Above(kms, i, m)  BY DEF Above
<1>5. PICK nm : nm = kms[i].name  OBVIOUS
<1> QED  BY <1>1, <1>3, <1>4, <1>5 DEF Folds, KeysOf, NamesOnce, ToSet

-----------------------------------------------------------------------------
(* The steps. *)

AllDifferent(list) == \A p, q \in DOMAIN list : list[p] = list[q] => p = q

\* The keymaps being built: their parents exist, and their lists are what was said.
Lists ==
  \A i \in DOMAIN keymaps :
    /\ keymaps[i].parent \in DOMAIN keymaps \cup {0}
    /\ DOMAIN keymaps[i].mods = Modifiers
    /\ \A m \in Modifiers : Told(keymaps[i].mods[m], keymaps[i].name, m)

Defaults ==
  DOMAIN defmods = Modifiers /\ \A m \in Modifiers : IsList(defmods[m]) /\ AllDifferent(defmods[m])

ModInv ==
  /\ committed => ~open
  /\ Defaults
  /\ open => Lists
  /\ ModifiersFolded

\* Without a statement nothing is told.
LEMMA Unsaid == At("AssignMod") = {} => \A nm, m : Told(<<>>, nm, m)
<1> SUFFICES ASSUME At("AssignMod") = {}, NEW nm, NEW m PROVE Told(<<>>, nm, m)  OBVIOUS
<1>1. Statements(nm, m) = {}  BY StatementIs
<1> QED  BY <1>1, NothingSaid

\* The same script says the same.
LEMMA SameTold ==
  ASSUME script' = script, refs' = refs, NEW list, NEW nm, NEW m, Told(list, nm, m)
  PROVE  Told(list, nm, m)'
<1>1. PICK T : T = Statements(nm, m)  OBVIOUS
<1>2. T = Statements(nm, m)' /\ \A s : KeyOf(s)' = KeyOf(s) /\ OpOf(s)' = OpOf(s)
  <2>1. Statements(nm, m)' = Statements(nm, m)  BY SameStatements
  <2> QED  BY <1>1, <2>1, SameStatements
<1>3. PICK key, op : /\ \A s \in T : key[s] = KeyOf(s) /\ op[s] = OpOf(s)
                     /\ Follows(list, T, key, op)
  BY <1>1 DEF Told
<1>4. (\A s \in Statements(nm, m) : key[s] = KeyOf(s) /\ op[s] = OpOf(s))'  BY <1>2, <1>3
<1>5. Follows(list, Statements(nm, m), key, op)'
  <2>1. Follows(list, Statements(nm, m)', key, op)  BY <1>2, <1>3
  <2> QED  BY <2>1 DEF Follows, InForceOf, LastOn, Final, Before, Entries, NamesOnce, IsEntry, IsList
<1> QED  BY <1>4, <1>5 DEF Told

\* A command of an open block.
LEMMA ModTaken ==
  ASSUME ModInv, NEW c, Take(c), Defaults', Lists'
  PROVE  ModInv'
BY DEF ModInv, Take, ModifiersFolded

\* The keymaps keep what a command is not about.
KeepsLists ==
  /\ DOMAIN keymaps' = DOMAIN keymaps
  /\ \A i \in DOMAIN keymaps : /\ keymaps'[i].name = keymaps[i].name
                               /\ keymaps'[i].parent = keymaps[i].parent
                               /\ keymaps'[i].mods = keymaps[i].mods

LEMMA ListsQuiet ==
  ASSUME NEW c, Grows(c), c.cmd # "AssignMod", Lists, KeepsLists
  PROVE  Lists'
<1>1. ASSUME NEW i \in DOMAIN keymaps, NEW m \in Modifiers,
             NEW list, NEW nm, list = keymaps[i].mods[m], nm = keymaps[i].name
      PROVE  Told(list, nm, m)'
  <2>1. Told(list, nm, m)  BY <1>1 DEF Lists
  <2>2. Makes(c, nm, m) = {}  BY DEF Makes
  <2> QED  BY <2>1, <2>2, ToldStays
<1>2. ASSUME NEW i \in DOMAIN keymaps', NEW m \in Modifiers
      PROVE  Told(keymaps[i].mods[m], keymaps[i].name, m)'
  <2>1. PICK list, nm : list = keymaps[i].mods[m] /\ nm = keymaps[i].name  OBVIOUS
  <2>2. i \in DOMAIN keymaps /\ list = keymaps'[i].mods[m] /\ nm = keymaps'[i].name
    BY <2>1 DEF KeepsLists
  <2>3. Told(list, nm, m)'  BY <1>1, <2>1, <2>2
  <2> QED  BY <2>2, <2>3 DEF Told
<1>3. \A i \in DOMAIN keymaps' : /\ keymaps'[i].parent \in DOMAIN keymaps' \cup {0}
                                 /\ DOMAIN keymaps'[i].mods = Modifiers
  BY DEF Lists, KeepsLists
<1> QED  BY <1>2, <1>3 DEF Lists

\* A statement about modifiers goes to the list of the current keymap.
LEMMA ListsMod ==
  ASSUME IInv, ModInv, NEW c \in Is("AssignMod"), AssignMod(c)
  PROVE  Lists'
<1>1. c \in Commands /\ c.cmd = "AssignMod" /\ Take(c)  BY DEF Is, AssignMod
<1>2. Grows(c) /\ Places /\ Symbols /\ IsTable(keymaps) /\ Lists
  BY <1>1, Taken DEF IInv, ModInv, Take
<1>3. current \in DOMAIN keymaps /\ keymaps[current].name = Here(AtEnd)  BY <1>2 DEF Places
<1>4. PICK v : v = [keymaps[current].mods EXCEPT ![c.mod] =
                      WithModifiers(keymaps[current].mods[c.mod], c)]
  OBVIOUS
<1>5. keymaps' = [keymaps EXCEPT ![current].mods = v]  BY <1>4 DEF AssignMod
<1>6. \A i \in DOMAIN keymaps :
        /\ keymaps'[i].name = keymaps[i].name /\ keymaps'[i].parent = keymaps[i].parent
        /\ keymaps'[i].mods = IF i = current THEN v ELSE keymaps[i].mods
  <2> TAKE i \in DOMAIN keymaps
  <2>1. CASE i # current  BY <1>5, <2>1
  <2>2. CASE i = current
    <3>1. IsKeymap(keymaps[i])  BY <1>2 DEF IsTable
    <3>2. keymaps'[i] = [keymaps[i] EXCEPT !.mods = v]  BY <1>5, <2>2
    <3>3. keymaps'[i] = [name |-> keymaps[i].name, def |-> keymaps[i].def,
                         parent |-> keymaps[i].parent, assigned |-> keymaps[i].assigned,
                         mods |-> v]
      BY <3>1, <3>2 DEF IsKeymap
    <3> QED  BY <2>2, <3>3
  <2> QED  BY <2>1, <2>2
<1>7. DOMAIN keymaps' = DOMAIN keymaps /\ DOMAIN v = DOMAIN keymaps[current].mods
  BY <1>4, <1>5
<1>8. \A i \in DOMAIN keymaps' : /\ keymaps'[i].parent \in DOMAIN keymaps' \cup {0}
                                 /\ DOMAIN keymaps'[i].mods = Modifiers
  BY <1>2, <1>3, <1>6, <1>7 DEF Lists
<1>9. ASSUME NEW i \in DOMAIN keymaps, NEW m \in Modifiers, NEW list, NEW nm,
             list = keymaps'[i].mods[m], nm = keymaps[i].name
      PROVE  Told(list, nm, m)'
  <2>1. CASE i = current /\ m = c.mod
    <3>1. PICK was : was = keymaps[i].mods[m]  OBVIOUS
    <3>2. Told(was, nm, c.mod) /\ nm = Here(AtEnd)  BY <1>2, <1>3, <1>9, <2>1, <3>1 DEF Lists
    <3>3. list = WithModifiers(was, c)
      <4>1. DOMAIN keymaps[i].mods = Modifiers  BY <1>2 DEF Lists
      <4>2. v[m] = WithModifiers(was, c)  BY <1>4, <2>1, <3>1, <4>1
      <4> QED  BY <1>6, <1>9, <2>1, <4>2
    <3>4. Told(list, nm, c.mod)'  BY <1>1, <1>2, <3>2, <3>3, ToldMore
    <3> QED  BY <2>1, <3>4
  <2>2. CASE ~(i = current /\ m = c.mod)
    <3>1. list = keymaps[i].mods[m]
      <4>1. CASE i # current  BY <1>6, <1>9, <4>1
      <4>2. CASE i = current /\ m # c.mod
        <5>1. v[m] = keymaps[i].mods[m]
          <6>1. DOMAIN keymaps[i].mods = Modifiers  BY <1>2 DEF Lists
          <6> QED  BY <1>4, <4>2, <6>1
        <5> QED  BY <1>6, <1>9, <4>2, <5>1
      <4> QED  BY <2>2, <4>1, <4>2
    <3>2. Told(list, nm, m)  BY <1>2, <1>9, <3>1 DEF Lists
    <3>3. Makes(c, nm, m) = {}
      <4>1. i # current => nm # Here(AtEnd)  BY <1>2, <1>3, <1>9 DEF IsTable
      <4> QED  BY <2>2, <4>1 DEF Makes
    <3> QED  BY <1>2, <3>2, <3>3, ToldStays
  <2> QED  BY <2>1, <2>2
<1>10. ASSUME NEW i \in DOMAIN keymaps', NEW m \in Modifiers
       PROVE  Told(keymaps[i].mods[m], keymaps[i].name, m)'
  <2>1. PICK list, nm : list = keymaps'[i].mods[m] /\ nm = keymaps[i].name  OBVIOUS
  <2>2. i \in DOMAIN keymaps /\ nm = keymaps'[i].name  BY <1>6, <1>7, <2>1
  <2>3. Told(list, nm, m)'  BY <1>9, <2>1, <2>2
  <2> QED  BY <2>1, <2>2, <2>3 DEF Told
<1> QED  BY <1>8, <1>10 DEF Lists

\* A keymap that is added has said nothing, and the others are what they were.
FreshBut(new, kms) ==
  /\ DOMAIN kms \subseteq DOMAIN new
  /\ \A k \in DOMAIN kms : new[k] = kms[k]
  /\ \A k \in DOMAIN new : k \notin DOMAIN kms =>
       new[k].parent = 0 /\ new[k].mods = [m \in Modifiers |-> <<>>]

LEMMA AddedFresh ==
  ASSUME NEW kms, IsTable(kms), NEW name
  PROVE  FreshBut(AddKeymap(kms, name), kms)
<1>1. CASE KeymapNamed(kms, name) # 0  BY <1>1 DEF AddKeymap, FreshBut
<1>2. CASE KeymapNamed(kms, name) = 0
  <2>1. PICK k : k = NewKeymap(name, 0)  OBVIOUS
  <2>2. k.parent = 0 /\ k.mods = [m \in Modifiers |-> <<>>]  BY <2>1 DEF NewKeymap
  <2>3. PICK new : new = Append(kms, k)  OBVIOUS
  <2>4. AddKeymap(kms, name) = new  BY <1>2, <2>1, <2>3 DEF AddKeymap
  <2>5. /\ Len(kms) \in Nat /\ DOMAIN kms = 1..Len(kms) /\ DOMAIN new = 1..(Len(kms) + 1)
        /\ \A i \in 1..Len(kms) : new[i] = kms[i]
        /\ new[Len(kms) + 1] = k
    BY <2>3, AppendedTo DEF IsTable
  <2>6. \A i \in DOMAIN new : i \in DOMAIN kms \/ i = Len(kms) + 1  BY <2>5
  <2>7. DOMAIN kms \subseteq DOMAIN new  BY <2>5
  <2>8. FreshBut(new, kms)  BY <2>2, <2>5, <2>6, <2>7 DEF FreshBut
  <2> QED  BY <2>4, <2>8
<1> QED  BY <1>1, <1>2

\* A keymap statement may add two keymaps, and give one its parent.
LEMMA ListsKeymap ==
  ASSUME IInv, ModInv, NEW c \in Is("DefKeymap"), DefKeymap(c)
  PROVE  Lists'
<1> DEFINE own == AddKeymap(keymaps, c.name)
           all == IF c.parent = "" THEN own ELSE AddKeymap(own, c.parent)
           km == KeymapNamed(all, c.name)
           def == IF KeySeqRef(c.default) = 0 THEN AddedSeq(seqs, c.name)
                  ELSE KeySeqRef(c.default)
           par == KeymapNamed(all, c.parent)
<1>1. c \in Commands /\ c.cmd = "DefKeymap"  BY DEF Is
<1>2. /\ Take(c)
      /\ keymaps' = IF all[km].def # 0 THEN all
                    ELSE [all EXCEPT ![km].def = def, ![km].parent = par]
  BY DEF DefKeymap
<1>3. Grows(c) /\ IsTable(keymaps) /\ KnownPlaces /\ Lists /\ script \in Seq(Commands)
  BY <1>1, <1>2, Taken DEF IInv, ModInv, Take
<1>4. IInv'  BY DefKeymapInv
<1>5. IsTable(own) /\ FreshBut(own, keymaps)  BY <1>3, Added, AddedFresh
<1> HIDE DEF own, def
<1>6. IsTable(all) /\ FreshBut(all, own)
  <2>1. FreshBut(own, own)  BY DEF FreshBut
  <2> QED  BY <1>5, <2>1, Added, AddedFresh
<1>7. FreshBut(all, keymaps)  BY <1>5, <1>6 DEF FreshBut
<1> HIDE DEF all
<1>8. par \in DOMAIN all \cup {0}  BY <1>6, KeymapNamedIs
<1> HIDE DEF km, par
<1>9. /\ DOMAIN keymaps' = DOMAIN all
      /\ \A i \in DOMAIN all : /\ keymaps'[i].mods = all[i].mods
                               /\ keymaps'[i].name = all[i].name
                               /\ \/ keymaps'[i].parent = all[i].parent
                                  \/ keymaps'[i].parent = par
  <2>1. CASE all[km].def # 0  BY <1>2, <2>1
  <2>2. CASE ~(all[km].def # 0)
    <3>1. keymaps' = [all EXCEPT ![km].def = def, ![km].parent = par]  BY <1>2, <2>2
    <3>2. DOMAIN keymaps' = DOMAIN all  BY <3>1
    <3>3. ASSUME NEW i \in DOMAIN all
          PROVE  /\ keymaps'[i].mods = all[i].mods
                 /\ keymaps'[i].name = all[i].name
                 /\ \/ keymaps'[i].parent = all[i].parent
                    \/ keymaps'[i].parent = par
      <4>1. CASE i # km  BY <3>1, <4>1
      <4>2. CASE i = km
        <5>1. IsKeymap(all[i])  BY <1>6 DEF IsTable
        <5>2. keymaps'[i] = [all[i] EXCEPT !.def = def, !.parent = par]  BY <3>1, <4>2
        <5>3. keymaps'[i] = [name |-> all[i].name, def |-> def, parent |-> par,
                             assigned |-> all[i].assigned, mods |-> all[i].mods]
          BY <5>1, <5>2 DEF IsKeymap
        <5> QED  BY <5>3
      <4> QED  BY <4>1, <4>2
    <3> QED  BY <3>2, <3>3
  <2> QED  BY <2>1, <2>2
<1>10. ASSUME NEW i \in DOMAIN all
       PROVE  all[i].parent \in DOMAIN all \cup {0} /\ DOMAIN all[i].mods = Modifiers
  <2>1. CASE i \in DOMAIN keymaps  BY <1>3, <1>7, <2>1 DEF Lists, FreshBut
  <2>2. CASE i \notin DOMAIN keymaps  BY <1>7, <2>2 DEF FreshBut
  <2> QED  BY <2>1, <2>2
<1>11. \A i \in DOMAIN keymaps' : /\ keymaps'[i].parent \in DOMAIN keymaps' \cup {0}
                                  /\ DOMAIN keymaps'[i].mods = Modifiers
  BY <1>8, <1>9, <1>10
<1>12. ASSUME NEW i \in DOMAIN all, NEW m \in Modifiers, NEW list, NEW nm,
              list = all[i].mods[m], nm = all[i].name
       PROVE  Told(list, nm, m)'
  <2>1. Told(list, nm, m)
    <3>1. CASE i \in DOMAIN keymaps
      <4>1. list = keymaps[i].mods[m] /\ nm = keymaps[i].name
        BY <1>7, <1>12, <3>1 DEF FreshBut
      <4> QED  BY <1>3, <3>1, <4>1 DEF Lists
    <3>2. CASE i \notin DOMAIN keymaps
      <4>1. list = <<>>  BY <1>7, <1>12, <3>2 DEF FreshBut
      <4>2. \A k \in DOMAIN keymaps : keymaps[k].name # nm
        <5>1. \A k \in DOMAIN keymaps : /\ k \in DOMAIN all /\ k # i
                                        /\ all[k].name = keymaps[k].name
          BY <1>7, <3>2 DEF FreshBut
        <5> QED  BY <1>6, <1>12, <5>1 DEF IsTable
      <4>3. Told(<<>>, nm, m)  BY <1>3, <4>2, NothingTold
      <4> QED  BY <4>1, <4>3
    <3> QED  BY <3>1, <3>2
  <2>2. Makes(c, nm, m) = {}  BY <1>1 DEF Makes
  <2> QED  BY <1>3, <2>1, <2>2, ToldStays
<1>13. ASSUME NEW i \in DOMAIN keymaps', NEW m \in Modifiers
       PROVE  Told(keymaps[i].mods[m], keymaps[i].name, m)'
  <2>1. PICK list, nm : list = all[i].mods[m] /\ nm = all[i].name  OBVIOUS
  <2>2. i \in DOMAIN all /\ list = keymaps'[i].mods[m] /\ nm = keymaps'[i].name
    BY <1>9, <2>1
  <2>3. Told(list, nm, m)'  BY <1>12, <2>1, <2>2
  <2> QED  BY <2>2, <2>3 DEF Told
<1> QED  BY <1>11, <1>13 DEF Lists

\* The keys of `def mod' come one by one, each once.
LEMMA DefaultsMore ==
  ASSUME Defaults, NEW c, DefMod(c)
  PROVE  Defaults'
<1>1. CASE c.key \notin keys \ ToSet(defmods[c.mod])
  <2>1. defmods' = defmods  BY <1>1 DEF DefMod
  <2> QED  BY <2>1 DEF Defaults, AllDifferent, IsList
<1>2. CASE c.key \in keys \ ToSet(defmods[c.mod])
  <2>1. defmods' = [defmods EXCEPT ![c.mod] = Append(defmods[c.mod], c.key)]
    BY <1>2 DEF DefMod
  <2>2. ASSUME NEW m \in Modifiers, NEW list, list = defmods'[m]
        PROVE  IsList(list) /\ AllDifferent(list)
    <3>1. CASE m # c.mod
      <4>1. list = defmods[m]  BY <2>1, <2>2, <3>1
      <4> QED  BY <4>1 DEF Defaults
    <3>2. CASE m = c.mod
      <4>1. PICK was : was = defmods[m]  OBVIOUS
      <4>2. list = Append(was, c.key)  BY <2>1, <2>2, <3>2, <4>1 DEF Defaults
      <4>3. IsList(was) /\ AllDifferent(was)  BY <4>1 DEF Defaults
      <4>4. /\ IsList(list) /\ Len(was) \in Nat /\ DOMAIN was = 1..Len(was)
            /\ DOMAIN list = 1..(Len(was) + 1)
            /\ \A i \in 1..Len(was) : list[i] = was[i]
            /\ list[Len(was) + 1] = c.key
        BY <4>2, <4>3, AppendedTo
      <4>5. \A i \in DOMAIN list : i \in DOMAIN was \/ i = Len(was) + 1  BY <4>4
      <4>6. \A i \in DOMAIN was : was[i] # c.key  BY <1>2, <3>2, <4>1 DEF ToSet
      <4>7. AllDifferent(list)  BY <4>3, <4>4, <4>5, <4>6 DEF AllDifferent
      <4> QED  BY <4>4, <4>7
    <3> QED  BY <3>1, <3>2
  <2>3. DOMAIN defmods' = Modifiers  BY <2>1 DEF Defaults
  <2>4. (\A m \in Modifiers : IsList(defmods[m]) /\ AllDifferent(defmods[m]))'
    <3> SUFFICES ASSUME NEW m \in Modifiers PROVE (IsList(defmods[m]) /\ AllDifferent(defmods[m]))'
      OBVIOUS
    <3>1. PICK list : list = defmods'[m]  OBVIOUS
    <3>2. IsList(list) /\ AllDifferent(list)  BY <2>2, <3>1
    <3> QED  BY <3>1, <3>2 DEF IsList, AllDifferent
  <2> QED  BY <2>3, <2>4 DEF Defaults
<1> QED  BY <1>1, <1>2

\* None at first.
NoDefaults == defmods = [m \in Modifiers |-> <<>>]

LEMMA DefaultsEmpty == NoDefaults => Defaults
<1> SUFFICES ASSUME NoDefaults PROVE Defaults  OBVIOUS
<1>1. <<>> \in Seq({}) /\ DOMAIN <<>> = {}  OBVIOUS
<1>2. IsList(<<>>)  BY <1>1, SeqFacts
<1> QED  BY <1>1, <1>2 DEF NoDefaults, Defaults, AllDifferent

LEMMA ModInit == Init => ModInv
<1> SUFFICES ASSUME Init PROVE ModInv  OBVIOUS
<1>1. Defaults  BY DefaultsEmpty DEF Init, NoDefaults
<1> QED  BY <1>1 DEF Init, ModInv, ModifiersFolded

LEMMA ModReset ==
  ASSUME Reset
  PROVE  ModInv'
<1>1. PICK k : k = NewKeymap("Global", 1)  OBVIOUS
<1>2. /\ script' = <<>> /\ keymaps' = <<k>> /\ NoDefaults' /\ ~committed'
  BY <1>1 DEF Reset, Started, Global, NoDefaults
<1>3. Defaults'  BY <1>2, DefaultsEmpty, PTL
<1>4. At("AssignMod")' = {}  BY <1>2 DEF At
<1>5. (\A nm, m : Told(<<>>, nm, m))'
  <2>1. (At("AssignMod") = {})'  BY <1>4
  <2> QED  BY <2>1, Unsaid, PTL
<1>6. k.parent = 0 /\ k.mods = [m \in Modifiers |-> <<>>]  BY <1>1 DEF NewKeymap
<1>7. DOMAIN keymaps' = {1} /\ keymaps'[1] = k  BY <1>2
<1>8. ASSUME NEW i \in DOMAIN keymaps', NEW m \in Modifiers
      PROVE  Told(keymaps[i].mods[m], keymaps[i].name, m)'
  <2>1. PICK nm : nm = keymaps'[i].name  OBVIOUS
  <2>2. keymaps'[i].mods[m] = <<>>  BY <1>6, <1>7
  <2>3. Told(<<>>, nm, m)'  BY <1>5
  <2> QED  BY <2>1, <2>2, <2>3 DEF Told
<1>9. Lists'  BY <1>6, <1>7, <1>8 DEF Lists
<1> QED  BY <1>2, <1>3, <1>9 DEF ModInv, ModifiersFolded

\* What does not touch any of this keeps it.
LEMMA ModSame ==
  ASSUME ModInv, script' = script, refs' = refs, keymaps' = keymaps, keys' = keys,
         defmods' = defmods, open' = open, committed' = committed
  PROVE  ModInv'
<1>1. Defaults'  BY DEF ModInv, Defaults, IsList, AllDifferent
<1>2. ASSUME Lists PROVE Lists'
  <2>1. ASSUME NEW i \in DOMAIN keymaps, NEW m \in Modifiers
        PROVE  Told(keymaps[i].mods[m], keymaps[i].name, m)'
    <3>1. PICK list, nm : list = keymaps[i].mods[m] /\ nm = keymaps[i].name  OBVIOUS
    <3>2. Told(list, nm, m)  BY <1>2, <3>1 DEF Lists
    <3>3. Told(list, nm, m)'  BY <3>2, SameTold
    <3> QED  BY <3>1, <3>3 DEF Told
  <2> QED  BY <1>2, <2>1 DEF Lists
<1>3. ModifiersFolded'
  <2>1. ASSUME committed, NEW i \in DOMAIN keymaps, NEW m \in Modifiers
        PROVE  Folds(keymaps, i, m)'
    <3>1. PICK kms : kms = keymaps  OBVIOUS
    <3>2. Folds(keymaps, i, m)  BY <2>1, FoldsIs DEF ModInv
    <3>3. Folds(kms, i, m)  BY <3>1, <3>2
    <3>4. Folds(kms, i, m)'  BY <3>3, SameFolds
    <3> QED  BY <3>1, <3>4 DEF Folds, Above
  <2>2. (committed => \A i \in DOMAIN keymaps, m \in Modifiers : Folds(keymaps, i, m))'
    BY <2>1
  <2> QED  BY <2>2, FoldsIs, PTL
<1> QED  BY <1>1, <1>2, <1>3 DEF ModInv

\* Commit folds the lists, and they are no longer needed.
LEMMA ModCommit ==
  ASSUME IInv, ModInv, Commit
  PROVE  ModInv'
<1>1. CASE Endless(Filled)
  <2>1. /\ script' = script /\ refs' = refs /\ keymaps' = keymaps /\ keys' = keys
        /\ defmods' = defmods /\ open' = open /\ committed' = committed
    BY <1>1 DEF Commit, building
  <2> QED  BY <2>1, ModSame
<1>2. CASE ~Endless(Filled)
  <2>1. PICK new : new = AdjustAll(keymaps)  OBVIOUS
  <2>2. /\ script' = script /\ refs' = refs /\ keys' = keys /\ defmods' = defmods
        /\ open' = FALSE /\ keymaps' = new
    BY <1>2, <2>1 DEF Commit, CommitTables
  <2>3. Lists /\ Defaults  BY DEF Commit, ModInv
  <2>4. \A i \in DOMAIN keymaps, m \in Modifiers : Entries(keymaps[i].mods[m])
    BY <2>3 DEF Lists, Told, Follows
  <2>5. Ready(keymaps)  BY <2>3, <2>4 DEF IInv, Lists, Defaults, Ready
  <2>6. DOMAIN new = DOMAIN keymaps
    <3>1. Keeps(AdjustAll(keymaps), keymaps)  BY AdjustKeeps DEF IInv
    <3> QED  BY <2>1, <3>1 DEF Keeps
  <2>7. ASSUME NEW i \in DOMAIN new, NEW m \in Modifiers PROVE Folds(keymaps, i, m)'
    <3>1. i \in DOMAIN keymaps /\ Told(keymaps[i].mods[m], keymaps[i].name, m)
      BY <2>3, <2>6 DEF Lists
    <3>2. \A n \in Modifiers : \A p, q \in DOMAIN defmods[n] :
            defmods[n][p] = defmods[n][q] => p = q
      BY <2>3 DEF Defaults, AllDifferent
    <3>3. Folds(new, i, m)  BY <2>1, <2>5, <3>1, <3>2, CommitFolds
    <3>4. Folds(new, i, m)'  BY <2>2, <3>3, SameFolds
    <3> QED  BY <2>2, <3>4 DEF Folds, Above
  <2>8. (committed => \A i \in DOMAIN keymaps, m \in Modifiers : Folds(keymaps, i, m))'
    BY <2>2, <2>7
  <2>9. ModifiersFolded'  BY <2>8, FoldsIs, PTL
  <2>10. Defaults'  BY <2>2, <2>3 DEF Defaults, IsList, AllDifferent
  <2> QED  BY <2>2, <2>9, <2>10 DEF ModInv
<1> QED  BY <1>1, <1>2

\* A command that is about no modifier.
LEMMA ModQuiet ==
  ASSUME IInv, ModInv, NEW c \in Commands, Take(c), c.cmd # "AssignMod", KeepsLists,
         defmods' = defmods
  PROVE  ModInv'
<1>1. Grows(c) /\ Lists  BY Taken DEF Take, ModInv
<1>2. Lists'  BY <1>1, ListsQuiet
<1>3. Defaults'  BY DEF ModInv, Defaults, IsList, AllDifferent
<1> QED  BY <1>2, <1>3, ModTaken

LEMMA ModStep == IInv /\ ModInv /\ [Next]_vars => ModInv'
<1> SUFFICES ASSUME IInv, ModInv, [Next]_vars PROVE ModInv'  OBVIOUS
<1>1. CASE UNCHANGED vars  BY <1>1, ModSame DEF vars, building
<1>2. CASE Reset  BY <1>2, ModReset
<1>3. CASE Commit  BY <1>3, ModCommit
<1>4. CASE \E c \in Commands : /\ Take(c) /\ c.cmd # "AssignMod" /\ keymaps' = keymaps
                               /\ defmods' = defmods
  BY <1>4, ModQuiet DEF KeepsLists
<1>5. CASE \/ \E c \in Is("RegKeySeq") : RegKeySeq(c)
           \/ \E c \in Is("DefKey") : DefKey(c)
           \/ \E c \in Is("DefAlias") : DefAlias(c)
           \/ \E c \in Is("DefSubst") : DefSubst(c)
           \/ \E c \in Is("NlsKeys") : NlsKeys(c)
           \/ \E c \in Is("EndKeymap") : EndKeymap(c)
  BY <1>4, <1>5 DEF Is, RegKeySeq, DefKey, DefAlias, DefSubst, NlsKeys, EndKeymap
<1>6. CASE \E c \in Is("DefMod") : DefMod(c)
  <2>1. PICK c \in Is("DefMod") : DefMod(c)  BY <1>6
  <2>2. c \in Commands /\ c.cmd = "DefMod" /\ Take(c) /\ keymaps' = keymaps
    BY <2>1 DEF Is, DefMod
  <2>3. Grows(c) /\ Lists  BY <2>2, Taken DEF Take, ModInv
  <2>4. Lists'  BY <2>2, <2>3, ListsQuiet DEF KeepsLists
  <2>5. Defaults'  BY <2>1, DefaultsMore DEF ModInv
  <2> QED  BY <2>2, <2>4, <2>5, ModTaken
<1>7. CASE \E c \in Is("DefKeymap") : DefKeymap(c)
  <2>1. PICK c \in Is("DefKeymap") : DefKeymap(c)  BY <1>7
  <2>2. Take(c) /\ defmods' = defmods  BY <2>1 DEF DefKeymap
  <2>3. Lists'  BY <2>1, ListsKeymap
  <2>4. Defaults'  BY <2>2 DEF ModInv, Defaults, IsList, AllDifferent
  <2> QED  BY <2>2, <2>3, <2>4, ModTaken
<1>8. CASE \E c \in Is("AssignKey") : AssignKey(c)
  <2>1. PICK c \in Is("AssignKey") : AssignKey(c)  BY <1>8
  <2>2. c \in Commands /\ c.cmd = "AssignKey" /\ Take(c) /\ defmods' = defmods
    BY <2>1 DEF Is, AssignKey
  <2>3. \E f : keymaps' = [keymaps EXCEPT ![current].assigned = f]
    <3>1. keymaps' = [keymaps EXCEPT ![current].assigned =
             [k \in ({Assignable(l) : l \in ToSet(c.lhs)} \ {None})
                      \cup DOMAIN keymaps[current].assigned |->
                IF k \in {Assignable(l) : l \in ToSet(c.lhs)} \ {None}
                THEN KeySeqRef(c.rhs) ELSE keymaps[current].assigned[k]]]
      BY <2>1 DEF AssignKey
    <3> QED  BY <3>1
  <2>4. PICK f : keymaps' = [keymaps EXCEPT ![current].assigned = f]  BY <2>3
  <2>5. KeepsLists
    <3>1. IsTable(keymaps)  BY DEF IInv
    <3>2. ASSUME NEW i \in DOMAIN keymaps
          PROVE  /\ keymaps'[i].name = keymaps[i].name
                 /\ keymaps'[i].parent = keymaps[i].parent
                 /\ keymaps'[i].mods = keymaps[i].mods
      <4>1. CASE i # current  BY <2>4, <4>1
      <4>2. CASE i = current
        <5>1. IsKeymap(keymaps[i])  BY <3>1 DEF IsTable
        <5>2. keymaps'[i] = [keymaps[i] EXCEPT !.assigned = f]  BY <2>4, <4>2
        <5>3. keymaps'[i] = [name |-> keymaps[i].name, def |-> keymaps[i].def,
                             parent |-> keymaps[i].parent, assigned |-> f,
                             mods |-> keymaps[i].mods]
          BY <5>1, <5>2 DEF IsKeymap
        <5> QED  BY <5>3
      <4> QED  BY <4>1, <4>2
    <3> QED  BY <2>4, <3>2 DEF KeepsLists
  <2> QED  BY <2>2, <2>5, ModQuiet
<1>9. CASE \E c \in Is("AssignMod") : AssignMod(c)
  <2>1. PICK c \in Is("AssignMod") : AssignMod(c)  BY <1>9
  <2>2. Take(c) /\ defmods' = defmods  BY <2>1 DEF AssignMod
  <2>3. Lists'  BY <2>1, ListsMod
  <2>4. Defaults'  BY <2>2 DEF ModInv, Defaults, IsList, AllDifferent
  <2> QED  BY <2>2, <2>3, <2>4, ModTaken
<1> QED  BY <1>1, <1>2, <1>3, <1>5, <1>6, <1>7, <1>8, <1>9 DEF Next

(***************************************************************************)
(* In a committed Setting the modifier keys of a keymap are its parent's,  *)
(* or those of `def mod', as its own statements say, for any number of     *)
(* keymaps, statements and keys.                                           *)
(***************************************************************************)
THEOREM FoldedAsSaid == Spec => []ModifiersFolded
<1>1. ModInv => ModifiersFolded  BY DEF ModInv
<1>2. Spec => []ModInv  BY Inductive, ModInit, ModStep, PTL DEF Spec
<1> QED  BY <1>1, <1>2, PTL

-----------------------------------------------------------------------------
(* The log. *)

InSection(t) == pc[t] \in {"writing", "line", "showing"}

\* The sections exclude each other.  The writers without the mutex are in
\* none: they are of the UI thread, which is then in none either.
Exclusion ==
    /\ \A t \in Threads : InSection(t) => owner = t
    /\ owner # NoThread => InSection(owner)
    /\ \A t \in Threads : pc[t] \in {"bare", "told", "showing"} => t = UI

\* Text in the hands of one message is of the section that holds the mutex,
\* and there is none while the UI thread writes without it.
BufferedByItsMessage ==
    /\ \A x \in buf : x # Open => owner # NoThread /\ pc[owner] = "line" /\ x = level
    /\ Bare => buf \subseteq {Open}

\* The flag stays up until the notification has been dealt with.
FlagUp == Handling => pending

LogInv ==
    /\ LogTypeOK /\ Exclusion /\ BufferedByItsMessage /\ TaggedByItsMessage
    /\ NothingStranded /\ FlagUp

\* What a sync adds to the kept text is from the buffer, with its tag, and
\* what it leaves was there; alone in the buffer it leaves nothing.
LEMMA SyncKeeps ==
    ASSUME LogTypeOK, NEW l \in Levels, NEW told \in BOOLEAN,
           SyncAs(l, told) \/ RacedSync(l, told)
    PROVE  /\ str' \subseteq Kept /\ buf' \subseteq buf
           /\ \A k \in str' :
                k \in str \/ (k.level \in buf /\ k.tag = l /\ k.told = told)
           /\ SyncAs(l, told) => buf' = {}
  <1>1. PICK kept \in SUBSET buf :
           /\ buf' \subseteq buf
           /\ str' = str \/ str' = str \union Tagged(kept, l, told)
    <2>1. CASE SyncAs(l, told)
      <3>1. buf \in SUBSET buf
        OBVIOUS
      <3>2. /\ buf' \subseteq buf
            /\ str' = str \/ str' = str \union Tagged(buf, l, told)
        BY <2>1 DEF SyncAs
      <3> QED
        BY <3>1, <3>2
    <2>2. CASE RacedSync(l, told)
      <3>1. PICK kept \in SUBSET buf, left \in SUBSET buf :
               /\ str' = IF Passes(l) THEN str \union Tagged(kept, l, told) ELSE str
               /\ buf' = left
        BY <2>2 DEF RacedSync
      <3> QED
        BY <3>1
    <2> QED
      BY <2>1, <2>2
  <1>2. \A x \in kept : x \in buf /\ x \in Text
    BY <1>1 DEF LogTypeOK
  <1>3. ASSUME NEW k \in Tagged(kept, l, told)
        PROVE  k \in Kept /\ k.level \in buf /\ k.tag = l /\ k.told = told
    <2>1. PICK x \in kept : k = [level |-> x, tag |-> l, told |-> told]
      BY <1>3 DEF Tagged
    <2> QED
      BY <1>2, <2>1 DEF Kept
  <1>4. str' \subseteq Kept
    BY <1>1, <1>3 DEF LogTypeOK
  <1>5. \A k \in str' :
           k \in str \/ (k.level \in buf /\ k.tag = l /\ k.told = told)
    BY <1>1, <1>3
  <1>6. SyncAs(l, told) => buf' = {}
    BY DEF SyncAs
  <1> QED
    BY <1>1, <1>4, <1>5, <1>6

\* Text in no message's hands is kept with any tag, the rest with the level
\* of the section.
LEMMA SyncTags ==
    ASSUME LogInv, NEW l \in Levels, NEW told \in BOOLEAN,
           SyncAs(l, told) \/ RacedSync(l, told),
           l = level \/ buf \subseteq {Open}
    PROVE  TaggedByItsMessage'
  <1> SUFFICES ASSUME NEW k \in str', k.level # Open PROVE k.tag = k.level
    BY DEF TaggedByItsMessage
  <1>1. CASE k \in str
    BY <1>1 DEF LogInv, TaggedByItsMessage
  <1>2. CASE k \notin str
    <2>1. k.level \in buf /\ k.tag = l
      BY <1>2, SyncKeeps DEF LogInv
    <2> QED
      BY <2>1 DEF LogInv, BufferedByItsMessage
  <1> QED
    BY <1>1, <1>2

\* notify(), as the last thing before the mutex is given back: the flag and
\* the queue agree again, and text of messages that waits is announced.
LEMMA NotifyAnnounces ==
    ASSUME LogInv, NEW ok \in BOOLEAN, Notify(ok), (Handling' <=> Handling), str' = str
    PROVE  /\ pending' \in BOOLEAN /\ posted' \in Nat /\ unannounced' \in BOOLEAN
           /\ posted' = IF pending' /\ ~Handling' THEN 1 ELSE 0
           /\ window' = "attached" /\ ToShow' /\ ~unannounced' => pending'
           /\ FlagUp'
  <1>0. /\ pending \in BOOLEAN /\ posted \in Nat /\ unannounced \in BOOLEAN
        /\ posted = IF pending /\ ~Handling THEN 1 ELSE 0
        /\ Handling => pending
    BY DEF LogInv, LogTypeOK, NothingStranded, FlagUp
  <1>1. ToShow' => str # {}
    BY DEF ToShow
  <1>2. CASE str = {} \/ pending \/ window' # "attached"
    BY <1>0, <1>1, <1>2 DEF Notify, FlagUp
  <1>3. CASE ~(str = {} \/ pending \/ window' # "attached") /\ ok = TRUE
    BY <1>0, <1>3 DEF Notify, FlagUp
  <1>4. CASE ~(str = {} \/ pending \/ window' # "attached") /\ ok = FALSE
    BY <1>0, <1>4 DEF Notify, FlagUp
  <1> QED
    BY <1>2, <1>3, <1>4

\* At the start nobody holds the mutex and nothing is written.
LEMMA LogInitInv == LogInit => LogInv
  <1> SUFFICES ASSUME LogInit PROVE LogInv
    OBVIOUS
  <1> USE ThreadsAssumption, LevelsAssumption DEF LogInit
  <1>1. LogTypeOK
    BY DEF LogTypeOK, Window
  <1>2. Exclusion
    BY DEF Exclusion, InSection
  <1>3. BufferedByItsMessage /\ TaggedByItsMessage
    BY DEF BufferedByItsMessage, TaggedByItsMessage
  <1>4. NothingStranded /\ FlagUp
    BY DEF NothingStranded, FlagUp, Handling, ToShow
  <1> QED
    BY <1>1, <1>2, <1>3, <1>4 DEF LogInv

\* A message begins when the mutex is free.
LEMMA AcquireInv ==
    ASSUME LogInv, NEW t \in Threads, NEW l \in Levels, Acquire(t, l)
    PROVE  LogInv'
  <1> USE ThreadsAssumption DEF LogInv, Acquire
  <1>1. LogTypeOK'
    BY DEF LogTypeOK
  <1>2. Exclusion'
    BY DEF Exclusion, InSection, LogTypeOK
  <1>3. BufferedByItsMessage' /\ TaggedByItsMessage'
    BY DEF BufferedByItsMessage, TaggedByItsMessage, Bare, LogTypeOK
  <1>4. NothingStranded' /\ FlagUp'
    <2>1. (Handling' <=> Handling)
      BY DEF Handling, LogTypeOK
    <2> QED
      BY <2>1 DEF NothingStranded, FlagUp, ToShow
  <1> QED
    BY <1>1, <1>2, <1>3, <1>4

\* What it writes is of its own level, or in nobody's hands.
LEMMA WriteInv ==
    ASSUME LogInv, NEW t \in Threads, Write(t)
    PROVE  LogInv'
  <1> USE ThreadsAssumption DEF LogInv, Write
  <1>0. owner = t
    BY DEF Exclusion, InSection
  <1>1. LogTypeOK'
    <2>1. (IF Bare THEN Open ELSE level) \in Text
      BY DEF LogTypeOK, Text
    <2> QED
      BY <2>1 DEF LogTypeOK
  <1>2. Exclusion'
    BY <1>0 DEF Exclusion, InSection, LogTypeOK
  <1>3. BufferedByItsMessage' /\ TaggedByItsMessage'
    <2>1. pc'[owner'] = "line" /\ owner' # NoThread /\ (Bare' <=> Bare)
      BY <1>0 DEF Bare, LogTypeOK
    <2>2. \A x \in buf' : x \in buf \/ x = (IF Bare THEN Open ELSE level)
      OBVIOUS
    <2> QED
      BY <2>1, <2>2 DEF BufferedByItsMessage, TaggedByItsMessage
  <1>4. NothingStranded' /\ FlagUp'
    <2>1. (Handling' <=> Handling)
      BY DEF Handling, LogTypeOK
    <2> QED
      BY <2>1, <1>0 DEF NothingStranded, FlagUp, ToShow
  <1> QED
    BY <1>1, <1>2, <1>3, <1>4

\* The end of a line empties the buffer, unless the UI thread is writing to it.
LEMMA EndLineInv ==
    ASSUME LogInv, NEW t \in Threads, EndLine(t)
    PROVE  LogInv'
  <1> USE ThreadsAssumption DEF LogInv, EndLine
  <1>0. owner = t /\ owner # NoThread
    BY DEF Exclusion, InSection
  <1>1. /\ level \in Levels /\ TRUE \in BOOLEAN
        /\ SyncAs(level, TRUE) \/ RacedSync(level, TRUE)
    BY DEF LogTypeOK
  <1>2. str' \subseteq Kept /\ buf' \subseteq buf /\ (~Bare => buf' = {})
    BY <1>1, SyncKeeps
  <1>3. LogTypeOK'
    BY <1>2 DEF LogTypeOK
  <1>4. Exclusion'
    BY <1>0 DEF Exclusion, InSection, LogTypeOK
  <1>5. TaggedByItsMessage'
    BY <1>1, SyncTags
  <1>6. BufferedByItsMessage'
    <2>1. buf' \subseteq {Open}
      BY <1>2 DEF BufferedByItsMessage
    <2> QED
      BY <2>1 DEF BufferedByItsMessage
  <1>7. NothingStranded' /\ FlagUp'
    <2>1. (Handling' <=> Handling)
      BY DEF Handling, LogTypeOK
    <2> QED
      BY <2>1, <1>0 DEF NothingStranded, FlagUp
  <1> QED
    BY <1>3, <1>4, <1>5, <1>6, <1>7

\* A message ends with nothing of its own left in the buffer.
LEMMA ReleaseInv ==
    ASSUME LogInv, NEW t \in Threads, Release(t)
    PROVE  LogInv'
  <1> USE ThreadsAssumption, LevelsAssumption DEF LogInv, Release
  <1>0. owner = t
    BY DEF Exclusion, InSection
  <1>1. (Handling' <=> Handling) /\ (Bare' <=> Bare)
    BY DEF Handling, Bare, LogTypeOK
  <1>2. PICK ok \in BOOLEAN : Notify(ok)
    OBVIOUS
  <1>3. /\ pending' \in BOOLEAN /\ posted' \in Nat /\ unannounced' \in BOOLEAN
        /\ NothingStranded' /\ FlagUp'
    BY <1>1, <1>2, NotifyAnnounces DEF NothingStranded
  <1>4. LogTypeOK'
    BY <1>3 DEF LogTypeOK, Info
  <1>5. Exclusion'
    BY <1>0 DEF Exclusion, InSection, LogTypeOK
  <1>6. BufferedByItsMessage' /\ TaggedByItsMessage'
    BY <1>0, <1>1 DEF BufferedByItsMessage, TaggedByItsMessage
  <1> QED
    BY <1>3, <1>4, <1>5, <1>6

\* The line of a function call, or of a prefix key, is left in the buffer.
LEMMA OpenInv ==
    ASSUME LogInv, WouldLogFn \/ WriteFn \/ WritePrefix
    PROVE  LogInv'
  <1> USE ThreadsAssumption, LevelsAssumption DEF LogInv
  <1>0. (Handling' <=> Handling) /\ (Bare' <=> Bare)
    BY DEF WouldLogFn, WriteFn, WritePrefix, OpenLine, Handling, Bare, LogTypeOK
  <1>1. CASE WouldLogFn
    <2>1. LogTypeOK' /\ Exclusion' /\ owner # Engine
      BY <1>1 DEF WouldLogFn, LogTypeOK, Exclusion, InSection
    <2>2. BufferedByItsMessage' /\ TaggedByItsMessage'
      BY <1>0, <1>1, <2>1
      DEF WouldLogFn, BufferedByItsMessage, TaggedByItsMessage, LogTypeOK
    <2>3. NothingStranded' /\ FlagUp'
      BY <1>0, <1>1 DEF WouldLogFn, NothingStranded, FlagUp, ToShow
    <2> QED
      BY <2>1, <2>2, <2>3
  <1>2. CASE OpenLine /\ pc[Engine] \in {"fn", "idle"}
    <2>1. LogTypeOK'
      <3>1. Open \in Text /\ Debug \in Levels
        BY DEF Text
      <3> QED
        BY <1>2, <3>1 DEF OpenLine, LogTypeOK
    <2>2. Exclusion'
      BY <1>2 DEF OpenLine, Exclusion, InSection, LogTypeOK
    <2>3. BufferedByItsMessage' /\ TaggedByItsMessage'
      BY <1>0, <1>2 DEF OpenLine, BufferedByItsMessage, TaggedByItsMessage
    <2>4. NothingStranded' /\ FlagUp'
      BY <1>0, <1>2 DEF OpenLine, NothingStranded, FlagUp, ToShow
    <2> QED
      BY <2>1, <2>2, <2>3, <2>4
  <1> QED
    BY <1>1, <1>2 DEF WriteFn, WritePrefix

\* Lines the UI thread writes without the mutex: what is in the buffer then
\* is in nobody's hands, and they add no text that is to be announced.
LEMMA BareInv ==
    ASSUME LogInv, BareWrite \/ BareEnd
    PROVE  LogInv'
  <1> USE ThreadsAssumption DEF LogInv
  <1>0. ~Handling /\ ~Handling' /\ owner # UI
    BY DEF BareWrite, BareEnd, Bare, Handling, Exclusion, InSection, LogTypeOK
  <1>1. Exclusion'
    BY DEF BareWrite, BareEnd, Bare, Exclusion, InSection, LogTypeOK
  <1>2. CASE BareWrite
    <2>1. buf' \subseteq {Open}
      BY <1>2 DEF BareWrite
    <2>2. LogTypeOK'
      BY <1>2, <2>1 DEF BareWrite, LogTypeOK, Text
    <2>3. BufferedByItsMessage' /\ TaggedByItsMessage'
      BY <1>2, <2>1 DEF BareWrite, BufferedByItsMessage, TaggedByItsMessage
    <2>4. NothingStranded' /\ FlagUp'
      BY <1>0, <1>2 DEF BareWrite, NothingStranded, FlagUp, ToShow
    <2> QED
      BY <1>1, <2>2, <2>3, <2>4
  <1>3. CASE BareEnd
    <2>1. PICK l \in Levels : RacedSync(l, FALSE)
      BY <1>3 DEF BareEnd
    <2>2. /\ str' \subseteq Kept /\ buf' \subseteq buf
          /\ \A k \in str' : k \in str \/ k.told = FALSE
      BY <2>1, SyncKeeps
    <2>3. buf \subseteq {Open}
      BY <1>3 DEF BareEnd, BufferedByItsMessage
    <2>4. LogTypeOK'
      BY <1>3, <2>2 DEF BareEnd, LogTypeOK
    <2>5. BufferedByItsMessage'
      BY <2>2, <2>3 DEF BufferedByItsMessage
    <2>6. TaggedByItsMessage'
      BY <2>1, <2>3, SyncTags
    <2>7. ToShow' => ToShow
      BY <2>2 DEF ToShow
    <2>8. NothingStranded' /\ FlagUp'
      BY <1>0, <1>3, <2>7 DEF BareEnd, NothingStranded, FlagUp
    <2> QED
      BY <1>1, <2>4, <2>5, <2>6, <2>8
  <1> QED
    BY <1>2, <1>3

\* The UI thread attaches and detaches its window between messages.
LEMMA WindowInv ==
    ASSUME LogInv, Attach \/ Detach \/ \E l \in {Info, Debug} : SetThreshold(l)
    PROVE  LogInv'
  <1> USE ThreadsAssumption, LevelsAssumption DEF LogInv
  <1>0. /\ Exclusion' /\ ~Handling /\ ~Handling' /\ ~Bare /\ ~Bare'
        /\ FALSE \in BOOLEAN
    BY DEF Attach, Detach, SetThreshold, Exclusion, InSection, Handling, Bare
  <1>1. CASE Attach
    <2>1. PICK ok \in BOOLEAN : Notify(ok)
      BY <1>1 DEF Attach
    <2>2. (Handling' <=> Handling) /\ str' = str
      BY <1>0, <1>1 DEF Attach
    <2>3. /\ pending' \in BOOLEAN /\ posted' \in Nat /\ unannounced' \in BOOLEAN
          /\ NothingStranded' /\ FlagUp'
      BY <2>1, <2>2, NotifyAnnounces DEF NothingStranded
    <2>4. LogTypeOK' /\ BufferedByItsMessage' /\ TaggedByItsMessage'
      BY <1>0, <1>1, <2>3
      DEF Attach, LogTypeOK, Window, BufferedByItsMessage, TaggedByItsMessage
    <2> QED
      BY <1>0, <2>3, <2>4
  <1>2. CASE Detach
    <2>1. level \in Levels /\ SyncAs(level, FALSE)
      BY <1>2 DEF Detach, LogTypeOK
    <2>2. str' \subseteq Kept /\ buf' = {}
      BY <1>0, <2>1, SyncKeeps
    <2>3. LogTypeOK'
      BY <1>2, <2>2 DEF Detach, LogTypeOK, Window
    <2>4. TaggedByItsMessage'
      BY <1>0, <2>1, SyncTags
    <2>5. BufferedByItsMessage' /\ NothingStranded' /\ FlagUp'
      BY <1>0, <1>2, <2>2
      DEF Detach, BufferedByItsMessage, NothingStranded, FlagUp
    <2> QED
      BY <1>0, <2>3, <2>4, <2>5
  <1>3. ASSUME NEW l \in {Info, Debug}, SetThreshold(l) PROVE LogInv'
    <2>1. LogTypeOK' /\ BufferedByItsMessage' /\ TaggedByItsMessage'
      BY <1>0, <1>3
      DEF SetThreshold, LogTypeOK, BufferedByItsMessage, TaggedByItsMessage
    <2>2. NothingStranded' /\ FlagUp'
      BY <1>0, <1>3 DEF SetThreshold, NothingStranded, FlagUp, ToShow
    <2> QED
      BY <1>0, <2>1, <2>2
  <1> QED
    BY <1>1, <1>2, <1>3

\* The handler takes the notification, then the text under the mutex, and
\* puts the flag down with the text.
LEMMA ShowInv ==
    ASSUME LogInv, TakeNotification \/ AcquireString \/ ReleaseString
    PROVE  LogInv'
  <1> USE ThreadsAssumption DEF LogInv
  <1>1. CASE TakeNotification
    <2>1. /\ ~Handling /\ Handling' /\ posted = 1 /\ posted' = 0 /\ pending
          /\ pending' = pending /\ owner # UI
      BY <1>1
      DEF TakeNotification, Handling, LogTypeOK, NothingStranded, Exclusion, InSection
    <2>2. LogTypeOK'
      BY <1>1, <2>1 DEF TakeNotification, LogTypeOK
    <2>3. Exclusion'
      BY <1>1 DEF TakeNotification, Exclusion, InSection, LogTypeOK
    <2>4. BufferedByItsMessage' /\ TaggedByItsMessage'
      BY <1>1, <2>1
      DEF TakeNotification, BufferedByItsMessage, TaggedByItsMessage, Bare, LogTypeOK
    <2>5. NothingStranded' /\ FlagUp'
      BY <2>1 DEF NothingStranded, FlagUp
    <2> QED
      BY <2>2, <2>3, <2>4, <2>5
  <1>2. CASE AcquireString
    <2>1. LogTypeOK'
      BY <1>2 DEF AcquireString, LogTypeOK
    <2>2. Exclusion'
      BY <1>2 DEF AcquireString, Exclusion, InSection, LogTypeOK
    <2>3. BufferedByItsMessage' /\ TaggedByItsMessage'
      BY <1>2
      DEF AcquireString, BufferedByItsMessage, TaggedByItsMessage, Bare, LogTypeOK
    <2>4. Handling /\ Handling' /\ owner' # NoThread
      BY <1>2 DEF AcquireString, Handling, LogTypeOK
    <2>5. NothingStranded' /\ FlagUp'
      BY <1>2, <2>4 DEF AcquireString, NothingStranded, FlagUp
    <2> QED
      BY <2>1, <2>2, <2>3, <2>5
  <1>3. CASE ReleaseString
    <2>0. owner = UI
      BY <1>3 DEF ReleaseString, Exclusion, InSection
    <2>1. LogTypeOK'
      BY <1>3 DEF ReleaseString, LogTypeOK
    <2>2. Exclusion'
      BY <1>3, <2>0 DEF ReleaseString, Exclusion, InSection, LogTypeOK
    <2>3. BufferedByItsMessage' /\ TaggedByItsMessage'
      BY <1>3, <2>0
      DEF ReleaseString, BufferedByItsMessage, TaggedByItsMessage, Bare, LogTypeOK
    <2>4. Handling /\ ~Handling' /\ ~ToShow'
      BY <1>3 DEF ReleaseString, Handling, ToShow, LogTypeOK
    <2>5. NothingStranded' /\ FlagUp'
      BY <1>3, <2>4 DEF ReleaseString, NothingStranded, FlagUp
    <2> QED
      BY <2>1, <2>2, <2>3, <2>5
  <1> QED
    BY <1>1, <1>2, <1>3

\* The invariant is inductive.
LEMMA LogStepInv == LogInv /\ [LogNext]_logVars => LogInv'
  <1> SUFFICES ASSUME LogInv, [LogNext]_logVars PROVE LogInv'
    OBVIOUS
  <1>1. CASE UNCHANGED logVars
    BY <1>1
    DEF logVars, LogInv, LogTypeOK, Exclusion, InSection, BufferedByItsMessage, Bare,
        TaggedByItsMessage, NothingStranded, FlagUp, Handling, ToShow
  <1>2. CASE LogNext
    BY <1>2, AcquireInv, WriteInv, EndLineInv, ReleaseInv, OpenInv, BareInv, WindowInv,
       ShowInv
    DEF LogNext
  <1> QED
    BY <1>1, <1>2

(***************************************************************************)
(* The inductive invariant holds throughout: the sections exclude each     *)
(* other, and the text in a message's hands is the running section's, with *)
(* the UI thread writing outside of every section whenever it likes.       *)
(***************************************************************************)
THEOREM LogInvariance == LogSpec => []LogInv
  BY LogInitInv, LogStepInv, PTL DEF LogSpec

(***************************************************************************)
(* Every variable keeps its type, whoever writes.                          *)
(***************************************************************************)
THEOREM LogTypeCorrect == LogSpec => []LogTypeOK
  <1>1. LogInv => LogTypeOK
    BY DEF LogInv
  <1> QED
    BY <1>1, LogInvariance, PTL

(***************************************************************************)
(* The flag and the UI thread's queue agree, and the text of messages that *)
(* waits between sections is announced unless the announcement failed,     *)
(* whatever is written without the mutex.                                  *)
(***************************************************************************)
THEOREM NothingIsStranded == LogSpec => []NothingStranded
  <1>1. LogInv => NothingStranded
    BY DEF LogInv
  <1> QED
    BY <1>1, LogInvariance, PTL

(***************************************************************************)
(* Text that no other thread wrote into or over bears the level of its own *)
(* message.                                                                *)
(***************************************************************************)
THEOREM TagsAreTheirOwn == LogSpec => []TaggedByItsMessage
  <1>1. LogInv => TaggedByItsMessage
    BY DEF LogInv
  <1> QED
    BY <1>1, LogInvariance, PTL
=============================================================================
