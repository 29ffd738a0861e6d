------------------------ MODULE TerminalViewsProofs ------------------------
(***************************************************************************)
(* Proofs about TerminalViews, for any sessions, and any number of panes,  *)
(* of messages, of commands and of what others do.                         *)
(*                                                                         *)
(* The list: what orderSessionsByParent leaves is followed call by call;   *)
(* the calls ahead are of roots, or of rows under a row that is placed,    *)
(* and each makes fewer of them.                                           *)
(*                                                                         *)
(* The pane: a view that listens has drawn what a rebuild would draw, and  *)
(* awaits what the phase of the run owes it (InStep); each event keeps     *)
(* this.  A session that is rewritten leaves it behind only while one of   *)
(* its own commands has yet to return, or others did it (Follows).         *)
(***************************************************************************)
EXTENDS TerminalViews, FiniteSetTheorems, SequenceTheorems, WellFoundedInduction, TLAPS

-----------------------------------------------------------------------------
(* Recursive functions: what they give, one number after the other.        *)

\* A set that holds 0 and, with each number below n, the one after it, holds n.
LEMMA CountTo ==
    ASSUME NEW n \in Nat, NEW T, 0 \in T, \A i \in 0 .. n - 1 : i \in T => i + 1 \in T
    PROVE  n \in T
<1> DEFINE R == {p \in Nat \X Nat : p[1] < p[2]}
           M == {i \in 0 .. n : i \notin T}
<1>1. IsWellFoundedOn(R, Nat)
    BY NatLessThanWellFounded DEF OpToRel
<1>2. M \subseteq Nat
    OBVIOUS
<1>3. SUFFICES ASSUME n \notin T PROVE FALSE
    OBVIOUS
<1>4. M # {}
    BY <1>3
<1> HIDE DEF R, M
<1>5. PICK x \in M : \A y \in M : ~(<<y, x>> \in R)
    BY <1>1, <1>2, <1>4, WFMin, Zenon
<1>6. x \in 1 .. n /\ x \notin T
    BY <1>5 DEF M
<1>7. x - 1 \in Nat /\ x \in Nat /\ x - 1 < x
    BY <1>6
<1>8. x - 1 \notin M
    BY <1>5, <1>7 DEF R
<1>9. x - 1 \in T /\ x - 1 \in 0 .. n - 1
    BY <1>6, <1>8 DEF M
<1> QED BY <1>6, <1>9

\* r is what the steps f make of first, one after the other.
Iterates(r, first, f, n) == r[0] = first /\ \A i \in 1 .. n : r[i] = f[<<i, r[i - 1]>>]

\* A function applied l times, from first.
LEMMA IterationExists ==
    ASSUME NEW l \in Nat, NEW D, NEW first \in D, NEW f \in [(1 .. l) \X D -> D]
    PROVE  \E r \in [0 .. l -> D] : Iterates(r, first, f, l)
<1> DEFINE T == {n \in 0 .. l : \E r \in [0 .. n -> D] : Iterates(r, first, f, n)}
<1>1. 0 \in T
  <2> DEFINE r == [i \in 0 .. 0 |-> first]
  <2>1. r \in [0 .. 0 -> D] /\ Iterates(r, first, f, 0)
      BY DEF Iterates
  <2> QED BY <2>1
<1>2. ASSUME NEW n \in 0 .. l - 1, n \in T PROVE n + 1 \in T
  <2>1. PICK r \in [0 .. n -> D] : Iterates(r, first, f, n)
      BY <1>2
  <2> DEFINE x == n + 1
             q == [i \in 0 .. x |-> IF i = x THEN f[<<x, r[n]>>] ELSE r[i]]
  <2>2. n \in 0 .. n /\ x \in 1 .. l /\ x \in 0 .. x /\ x - 1 = n /\ 0 \in 0 .. x /\ 0 # x
      OBVIOUS
  <2>3. f[<<x, r[n]>>] \in D
      BY <2>2
  <2>4. q \in [0 .. x -> D] /\ q[0] = first
    <3>1. \A i \in 0 .. x : i # x => i \in 0 .. n
        OBVIOUS
    <3>2. \A i \in 0 .. x : i # x => r[i] \in D
        BY <2>1, <3>1
    <3>3. r[0] = first
        BY <2>1 DEF Iterates
    <3> QED BY <2>2, <2>3, <3>2, <3>3
  <2>5. ASSUME NEW i \in 1 .. x PROVE q[i] = f[<<i, q[i - 1]>>]
    <3>1. CASE i = x
      <4>1. n \in 0 .. x /\ n # x
          BY <2>2
      <4> QED BY <2>2, <3>1, <4>1
    <3>2. CASE i # x
      <4>1. i \in 1 .. n /\ i \in 0 .. x /\ i - 1 \in 0 .. x /\ i - 1 # x
          BY <3>2
      <4> QED BY <2>1, <3>2, <4>1 DEF Iterates
    <3> QED BY <3>1, <3>2
  <2> HIDE DEF q
  <2>6. Iterates(q, first, f, x)
      BY <2>4, <2>5 DEF Iterates
  <2> QED BY <2>2, <2>4, <2>6
<1> HIDE DEF T
<1>3. l \in T
    BY <1>1, <1>2, CountTo
<1> QED BY <1>3 DEF T

-----------------------------------------------------------------------------
(* Among.                                                                  *)

\* r[n] is what is among the first n rows.
Picks(r, rows, F) ==
    r[0] = <<>> /\ \A i \in 1 .. Len(rows) : r[i] = IF rows[i] \in F THEN Append(r[i - 1], rows[i]) ELSE r[i - 1]

\* Among is the last of the sequences that Picks speaks of.
LEMMA AmongPicks ==
    ASSUME NEW S, NEW rows \in Seq(S), NEW F
    PROVE  \E r : Picks(r, rows, F) /\ Among(rows, F) = r[Len(rows)]
<1> DEFINE l == Len(rows)
           f == [x \in (1 .. l) \X Seq(S) |-> IF rows[x[1]] \in F THEN Append(x[2], rows[x[1]]) ELSE x[2]]
           Def(g) == [n \in 0 .. l |-> IF n = 0 THEN <<>> ELSE IF rows[n] \in F THEN Append(g[n - 1], rows[n]) ELSE g[n - 1]]
           upTo == CHOOSE g : g = Def(g)
<1>1. l \in Nat /\ \A i \in 1 .. l : rows[i] \in S
    OBVIOUS
<1>2. f \in [(1 .. l) \X Seq(S) -> Seq(S)]
    BY <1>1
<1>3. <<>> \in Seq(S)
    OBVIOUS
<1>4. \A i \in 1 .. l : \A d \in Seq(S) : f[<<i, d>>] = IF rows[i] \in F THEN Append(d, rows[i]) ELSE d
    OBVIOUS
<1>8. Among(rows, F) = upTo[l]
    BY DEF Among
<1> HIDE DEF l, f
<1>5. PICK r \in [0 .. l -> Seq(S)] : Iterates(r, <<>>, f, l)
    BY <1>1, <1>2, <1>3, IterationExists
<1>6. r = Def(r)
  <2>1. ASSUME NEW i \in 0 .. l PROVE r[i] = Def(r)[i]
    <3>1. CASE i = 0
        BY <1>5, <3>1 DEF Iterates
    <3>2. CASE i # 0
      <4>1. i \in 1 .. l /\ i - 1 \in 0 .. l
          BY <1>1, <3>2
      <4>2. r[i] = f[<<i, r[i - 1]>>] /\ r[i - 1] \in Seq(S)
          BY <1>5, <4>1 DEF Iterates
      <4>3. r[i] = IF rows[i] \in F THEN Append(r[i - 1], rows[i]) ELSE r[i - 1]
          BY <1>4, <4>1, <4>2
      <4> QED BY <3>2, <4>3
    <3> QED BY <3>1, <3>2
  <2> QED BY <2>1
<1>7. upTo = Def(upTo)
    BY <1>6
<1> HIDE DEF upTo
<1>9. Picks(upTo, rows, F)
  <2>1. 0 \in 0 .. l /\ \A i \in 1 .. l : i \in 0 .. l /\ i # 0
      BY <1>1
  <2> QED BY <1>7, <2>1 DEF Picks, l
<1> QED BY <1>8, <1>9 DEF l

\* What a sequence holds when one more is appended.
LEMMA SetOfAppend ==
    ASSUME NEW S, NEW s \in Seq(S), NEW e \in S
    PROVE  ToSet(Append(s, e)) = ToSet(s) \cup {e} /\ Append(s, e) \in Seq(S) /\ Len(Append(s, e)) = Len(s) + 1
<1>1. Len(s) \in Nat /\ Append(s, e) \in Seq(S) /\ Len(Append(s, e)) = Len(s) + 1
    BY AppendProperties
<1>2. /\ Append(s, e)[Len(s) + 1] = e
      /\ \A i \in 1 .. Len(s) : Append(s, e)[i] = s[i]
    BY AppendProperties
<1>3. DOMAIN s = 1 .. Len(s) /\ DOMAIN Append(s, e) = 1 .. Len(s) + 1
    BY <1>1
<1> DEFINE t == Append(s, e)
<1> HIDE DEF t
<1>4. \A i \in 1 .. Len(s) + 1 : i \in 1 .. Len(s) \/ i = Len(s) + 1
    BY <1>1
<1>5. \A i \in 1 .. Len(s) : i \in 1 .. Len(s) + 1
    BY <1>1
<1>6. Len(s) + 1 \in 1 .. Len(s) + 1
    BY <1>1
<1>7. {t[i] : i \in 1 .. Len(s) + 1} = {s[i] : i \in 1 .. Len(s)} \cup {e}
    BY <1>2, <1>4, <1>5, <1>6 DEF t
<1> QED BY <1>1, <1>3, <1>7 DEF ToSet, t

\* What a sequence holds, and how much.
LEMMA SetOfSeq ==
    ASSUME NEW S, NEW s \in Seq(S)
    PROVE  /\ ToSet(s) = {s[i] : i \in 1 .. Len(s)} /\ ToSet(s) \subseteq S /\ IsFiniteSet(ToSet(s))
           /\ Cardinality(ToSet(s)) <= Len(s) /\ Len(s) \in Nat
<1>1. Len(s) \in Nat /\ DOMAIN s = 1 .. Len(s) /\ \A i \in 1 .. Len(s) : s[i] \in S
    OBVIOUS
<1>2. ToSet(s) = {s[i] : i \in 1 .. Len(s)}
    BY <1>1 DEF ToSet
<1>3. IsFiniteSet(1 .. Len(s)) /\ Cardinality(1 .. Len(s)) = Len(s)
  <2>1. IsFiniteSet(1 .. Len(s)) /\ Cardinality(1 .. Len(s)) = IF 1 > Len(s) THEN 0 ELSE Len(s) - 1 + 1
      BY <1>1, FS_Interval
  <2> QED BY <1>1, <2>1
<1> DEFINE f == [i \in 1 .. Len(s) |-> s[i]]
           T == {s[i] : i \in 1 .. Len(s)}
<1>4. f \in Surjection(1 .. Len(s), T)
    BY DEF Surjection
<1> HIDE DEF f, T
<1>5. IsFiniteSet(T) /\ Cardinality(T) <= Cardinality(1 .. Len(s))
    BY <1>3, <1>4, FS_Surjection
<1>6. ToSet(s) \subseteq S
    BY <1>1, <1>2
<1> QED BY <1>1, <1>2, <1>3, <1>5, <1>6 DEF T

\* Among gives the rows that are in F, and never more than there are.
LEMMA AmongIs ==
    ASSUME NEW S, NEW rows \in Seq(S), NEW F
    PROVE  Among(rows, F) \in Seq(S) /\ ToSet(Among(rows, F)) = ToSet(rows) \cap F /\ Len(Among(rows, F)) <= Len(rows)
<1>1. PICK r : Picks(r, rows, F) /\ Among(rows, F) = r[Len(rows)]
    BY AmongPicks
<1> DEFINE l == Len(rows)
           Good(d, n) == d \in Seq(S) /\ Len(d) <= n /\ ToSet(d) = {rows[i] : i \in 1 .. n} \cap F
           T == {n \in 0 .. l : Good(r[n], n)}
<1>2. l \in Nat /\ \A i \in 1 .. l : rows[i] \in S
    OBVIOUS
<1>3. 0 \in T
  <2>1. r[0] = <<>>
      BY <1>1 DEF Picks
  <2>2. ToSet(<<>>) = {} /\ {rows[i] : i \in 1 .. 0} = {}
      BY DEF ToSet
  <2>3. <<>> \in Seq(S) /\ Len(<<>>) = 0
      OBVIOUS
  <2>4. Good(<<>>, 0)
      BY <2>2, <2>3
  <2> HIDE DEF Good
  <2>5. Good(r[0], 0)
      BY <2>1, <2>4
  <2> QED BY <1>2, <2>5
<1>4. ASSUME NEW n \in 0 .. l - 1, n \in T PROVE n + 1 \in T
  <2> DEFINE d == r[n]
             x == n + 1
             e == rows[x]
  <2>1. Good(d, n)
      BY <1>4
  <2>2. x \in 1 .. l /\ x - 1 = n /\ n \in Nat /\ e \in S
      BY <1>2
  <2>3. r[x] = IF e \in F THEN Append(d, e) ELSE d
      BY <1>1, <2>2 DEF Picks
  <2>4. {rows[i] : i \in 1 .. x} = {rows[i] : i \in 1 .. n} \cup {e}
    <3>1. \A i \in 1 .. x : i \in 1 .. n \/ i = x
        BY <2>2
    <3>2. x \in 1 .. x /\ \A i \in 1 .. n : i \in 1 .. x
        BY <2>2
    <3> QED BY <3>1, <3>2
  <2>5. Len(d) \in Nat
      BY <2>1
  <2> DEFINE A == {rows[i] : i \in 1 .. n}
             B == {rows[i] : i \in 1 .. x}
  <2>9. B = A \cup {e}
      BY <2>4
  <2>8. d \in Seq(S) /\ Len(d) <= n /\ ToSet(d) = A \cap F
      BY <2>1
  <2>10. \A u : u \in Seq(S) /\ Len(u) <= x /\ ToSet(u) = B \cap F => Good(u, x)
      OBVIOUS
  <2> HIDE DEF d, e, T, A, B, Good
  <2>6. CASE e \in F
    <3>1. ToSet(Append(d, e)) = ToSet(d) \cup {e} /\ Append(d, e) \in Seq(S) /\ Len(Append(d, e)) = Len(d) + 1
        BY <2>8, <2>2, SetOfAppend
    <3>2. ToSet(Append(d, e)) = B \cap F
        BY <2>6, <2>8, <2>9, <3>1
    <3> DEFINE a == Append(d, e)
    <3>3. a \in Seq(S) /\ Len(a) = Len(d) + 1 /\ ToSet(a) = B \cap F /\ r[x] = a
        BY <2>3, <2>6, <3>1, <3>2
    <3> HIDE DEF a
    <3>4. Len(a) <= x
        BY <2>2, <2>5, <2>8, <3>3
    <3>5. Good(r[x], x)
        BY <2>10, <3>3, <3>4
    <3> QED BY <2>2, <3>5 DEF T
  <2>7. CASE e \notin F
    <3>1. Good(d, x)
        BY <2>2, <2>5, <2>7, <2>8, <2>9, <2>10
    <3> QED BY <2>2, <2>3, <2>7, <3>1 DEF T
  <2> QED BY <2>6, <2>7
<1> HIDE DEF T
<1>5. l \in T
    BY <1>2, <1>3, <1>4, CountTo
<1>6. Good(r[l], l)
    BY <1>5 DEF T
<1> QED BY <1>1, <1>6, SetOfSeq

-----------------------------------------------------------------------------
(* orderSessionsByParent, a call of emit after the other: t are the calls   *)
(* still to be made, p the rows placed.                                     *)

Rows == Seq(Sessions \cup {Host})

\* The rows under s.
Kids(s, rows) == {c \in ToSet(rows) \ {Host} : parent[c] = s}

Calls(rows) == Len(rows) * (Len(rows) + 3)

\* The next l calls are of roots and of rows whose parent is placed, and of every such row that is not placed yet.
Ahead(l, t, p, rows) ==
    /\ \A x \in 1 .. l : IsRoot(t[x], rows) \/ parent[t[x]] \in ToSet(p)
    /\ \A s \in ToSet(rows) : (IsRoot(s, rows) \/ parent[s] \in ToSet(p)) => (s \in ToSet(p) \/ \E x \in 1 .. l : t[x] = s)

\* A row that hangs from a root comes after its parent.
AfterParents(p, rows) ==
    \A c \in 1 .. Len(p) : (p[c] \in Rooted(rows) \ {Host} /\ parent[p[c]] \in ToSet(rows)) => \E q \in 1 .. c - 1 : p[q] = parent[p[c]]

\* The next l calls are of what is under p[i], and so is all that was placed after it.
Opened(i, l, t, p, rows) ==
    /\ \A x \in 1 .. l : Under(t[x], p[i])
    /\ \A s \in Kids(p[i], rows) : s \in ToSet(p) \/ \E x \in 1 .. l : t[x] = s
    /\ \A k \in i + 1 .. Len(p) : Under(p[k], p[i])

\* All that is under p[i] is placed, up to j.
Closed(i, j, p, rows) ==
    /\ \A s \in Kids(p[i], rows) : \E k \in 1 .. j : p[k] = s
    /\ \A k \in i + 1 .. j : Under(p[k], p[i])

\* What is under p[i] is being placed, or is placed.
Grouped(i, t, p, rows) == (\E l \in 0 .. Len(t) : Opened(i, l, t, p, rows)) \/ \E j \in i .. Len(p) : Closed(i, j, p, rows)

\* Calls left: each row still to be placed may ask for as many as there are rows.
Left(t, p, rows) == Len(t) + (Len(rows) + 1) * Cardinality(ToSet(rows) \ ToSet(p))

\* What holds of the walk after n calls.
Walking(t, p, n, rows) ==
    /\ t \in Seq(ToSet(rows)) /\ p \in Seq(ToSet(rows))
    /\ \A i, j \in 1 .. Len(p) : p[i] = p[j] => i = j
    /\ ToSet(rows) \subseteq ToSet(p) \cup ToSet(t)
    /\ t = <<>> \/ Left(t, p, rows) + n <= Calls(rows)
    /\ Rooted(rows) \subseteq ToSet(p) \/ \E l \in 0 .. Len(t) : Ahead(l, t, p, rows)
    /\ AfterParents(p, rows)
    /\ \A i \in 1 .. Len(p) : Grouped(i, t, p, rows)

\* u is t after its first call, which asked for k more.
Onward(u, t, k) ==
    /\ k \in Nat /\ Len(t) \in Nat \ {0} /\ Len(u) = Len(t) - 1 + k
    /\ \A x \in 2 .. Len(t) : u[x - 1 + k] = t[x]
    /\ \A x \in k + 1 .. Len(u) : u[x] = t[x - k + 1]

\* The first call makes way for those it asks for.
LEMMA OnwardIs ==
    ASSUME NEW S, NEW K \in Seq(S), NEW t \in Seq(S), t # <<>>
    PROVE  /\ Onward(K \o Tail(t), t, Len(K)) /\ K \o Tail(t) \in Seq(S)
           /\ \A x \in 1 .. Len(K) : (K \o Tail(t))[x] = K[x]
<1>1. /\ Len(t) \in Nat \ {0} /\ Tail(t) \in Seq(S) /\ Len(Tail(t)) = Len(t) - 1
      /\ \A x \in 1 .. Len(t) - 1 : Tail(t)[x] = t[x + 1]
    BY HeadTailProperties, EmptySeq, LenProperties
<1> DEFINE r == Tail(t)
           u == K \o r
           k == Len(K)
           l == Len(r)
<1>2. k \in Nat /\ l \in Nat
    BY <1>1, LenProperties
<1>3. /\ u \in Seq(S) /\ Len(u) = k + l
      /\ \A x \in 1 .. k + l : /\ x <= k => u[x] = K[x]
                               /\ ~(x <= k) => u[x] = r[x - k]
    BY <1>1, ConcatProperties
<1> HIDE DEF u, k, l
<1>4. \A x \in 1 .. k : u[x] = K[x]
    BY <1>2, <1>3
<1>5. ASSUME NEW x \in k + 1 .. Len(u) PROVE u[x] = t[x - k + 1]
  <2>1. x \in 1 .. k + l /\ ~(x <= k) /\ x - k \in 1 .. Len(t) - 1
      BY <1>1, <1>2, <1>3 DEF l
  <2> QED BY <1>1, <1>3, <2>1
<1>6. ASSUME NEW x \in 2 .. Len(t) PROVE u[x - 1 + k] = t[x]
  <2>1. x - 1 + k \in k + 1 .. Len(u) /\ (x - 1 + k) - k + 1 = x
      BY <1>1, <1>2, <1>3 DEF l
  <2> QED BY <1>5, <2>1
<1>7. Len(u) = Len(t) - 1 + k
    BY <1>1, <1>2, <1>3 DEF l
<1> QED BY <1>1, <1>2, <1>3, <1>4, <1>5, <1>6, <1>7 DEF Onward, u, k

\* What a row runs under, all that runs under it runs under too.
LEMMA KidsAreUnder ==
    ASSUME NEW rows \in Rows, NEW s, NEW c \in Kids(s, rows)
    PROVE  Under(c, s) /\ \A p : Under(s, p) => Under(c, p)
<1>1. c \in Sessions /\ parent[c] = s
    BY SetOfSeq DEF Kids, Rows
<1> QED BY <1>1 DEF Under

\* One call of emit: a row that is placed is dropped, another is placed and its rows are next.
Emitted(t, p, u, q, rows) ==
    /\ t \in Seq(ToSet(rows)) /\ p \in Seq(ToSet(rows)) /\ u \in Seq(ToSet(rows)) /\ q \in Seq(ToSet(rows))
    /\ \/ t[1] \in ToSet(p) /\ q = p /\ Onward(u, t, 0)
       \/ /\ t[1] \notin ToSet(p) /\ t[1] \in ToSet(rows) /\ ToSet(q) = ToSet(p) \cup {t[1]}
          /\ Len(q) = Len(p) + 1 /\ q[Len(p) + 1] = t[1] /\ \A i \in 1 .. Len(p) : q[i] = p[i]
          /\ \E k \in 0 .. Len(rows) :
                /\ Onward(u, t, k) /\ \A x \in 1 .. k : u[x] \in Kids(t[1], rows)
                /\ \A s \in Kids(t[1], rows) : \E x \in 1 .. k : u[x] = s

\* A call of emit: its row is there already, or is placed and asks for what is under it.
LEMMA EmitIs ==
    ASSUME NEW rows \in Rows, NEW t \in Seq(ToSet(rows)), NEW p \in Seq(ToSet(rows)), t # <<>>
    PROVE  LET w == Emit([todo |-> t, placed |-> p], rows)
           IN w = [todo |-> w.todo, placed |-> w.placed] /\ Emitted(t, p, w.todo, w.placed, rows)
<1> DEFINE R == ToSet(rows)
           d == [todo |-> t, placed |-> p]
           w == Emit(d, rows)
           K == RowsUnder(t[1], rows)
<1>1. Head(t) = t[1] /\ t[1] \in R
    BY HeadTailProperties
<1>2. rows \in Seq(R) /\ Len(rows) \in Nat
    BY SetOfSeq DEF Rows
<1>3. CASE t[1] \in ToSet(p)
  <2>1. w = [todo |-> Tail(t), placed |-> p]
      BY <1>1, <1>3 DEF Emit
  <2>2. <<>> \in Seq(R) /\ Len(<<>>) = 0
      OBVIOUS
  <2>3. Onward(<<>> \o Tail(t), t, 0) /\ <<>> \o Tail(t) \in Seq(R)
      BY <2>2, OnwardIs
  <2>4. Tail(t) \in Seq(R) /\ <<>> \o Tail(t) = Tail(t)
      BY HeadTailProperties, ConcatEmptySeq
  <2> DEFINE u == Tail(t)
  <2>5. Onward(u, t, 0) /\ u \in Seq(R)
      BY <2>3, <2>4, Zenon
  <2>6. R = ToSet(rows)
      OBVIOUS
  <2> HIDE DEF w, R, u
  <2>7. w.todo = u /\ w.placed = p /\ w = [todo |-> u, placed |-> p]
      BY <2>1 DEF u
  <2>8. Emitted(t, p, u, p, rows)
      BY <1>3, <2>5, <2>6 DEF Emitted
  <2> QED BY <2>7, <2>8 DEF w
<1>4. CASE t[1] \notin ToSet(p)
  <2>1. w = [todo |-> K \o Tail(t), placed |-> Append(p, t[1])]
      BY <1>1, <1>4 DEF Emit
  <2>2. K \in Seq(R) /\ ToSet(K) = R \cap Kids(t[1], rows) /\ Len(K) <= Len(rows)
      BY <1>2, AmongIs DEF RowsUnder, Kids
  <2>3. ToSet(K) = Kids(t[1], rows)
      BY <2>2 DEF Kids
  <2>4. Len(K) \in Nat /\ ToSet(K) = {K[x] : x \in 1 .. Len(K)}
      BY <2>2, SetOfSeq
  <2> DEFINE q == Append(p, t[1])
             u == K \o Tail(t)
  <2>5. ToSet(q) = ToSet(p) \cup {t[1]} /\ q \in Seq(R)
      BY <1>1, SetOfAppend
  <2>6. Len(q) = Len(p) + 1 /\ q[Len(p) + 1] = t[1] /\ \A i \in 1 .. Len(p) : q[i] = p[i]
      BY <1>1, AppendProperties
  <2> HIDE DEF K
  <2>7. Onward(u, t, Len(K)) /\ u \in Seq(R) /\ \A x \in 1 .. Len(K) : u[x] = K[x]
      BY <2>2, OnwardIs
  <2> HIDE DEF u, q, w, R
  <2>8. w.todo = u /\ w.placed = q /\ w = [todo |-> u, placed |-> q]
      BY <2>1 DEF u, q
  <2>9. \A x \in 1 .. Len(K) : u[x] \in Kids(t[1], rows)
      BY <2>3, <2>4, <2>7
  <2>10. \A s \in Kids(t[1], rows) : \E x \in 1 .. Len(K) : u[x] = s
      BY <2>3, <2>4, <2>7
  <2>11. Len(K) \in 0 .. Len(rows)
      BY <1>2, <2>2, <2>4
  <2>12. Emitted(t, p, u, q, rows)
    <3>1. R = ToSet(rows) /\ t \in Seq(R) /\ p \in Seq(R)
        BY DEF R
    <3> QED BY <1>1, <1>4, <2>5, <2>6, <2>7, <2>9, <2>10, <2>11, <3>1 DEF Emitted
  <2> QED BY <2>8, <2>12 DEF w
<1> HIDE DEF w
<1> QED BY <1>3, <1>4

\* What a sequence holds is at some place of it.
LEMMA PlaceOf ==
    ASSUME NEW S, NEW s \in Seq(S), NEW e
    PROVE  e \in ToSet(s) <=> \E i \in 1 .. Len(s) : s[i] = e
BY SetOfSeq

\* While roots are left, or rows whose parent is placed, they come first; and then none is left.
LEMMA AheadGoesOn ==
    ASSUME NEW rows \in Rows, NEW t, NEW p, NEW u, NEW q, Emitted(t, p, u, q, rows),
           Rooted(rows) \subseteq ToSet(p) \/ \E l \in 0 .. Len(t) : Ahead(l, t, p, rows)
    PROVE  /\ Rooted(rows) \subseteq ToSet(q) \/ \E l \in 0 .. Len(u) : Ahead(l, u, q, rows)
           /\ Rooted(rows) \subseteq ToSet(p) \/ IsRoot(t[1], rows) \/ parent[t[1]] \in ToSet(p)
<1> DEFINE R == ToSet(rows)
           P == ToSet(p)
           h == t[1]
<1>1. P \subseteq ToSet(q) /\ P \subseteq R
    BY SetOfSeq DEF Emitted
<1>2. CASE Rooted(rows) \subseteq P
    BY <1>1, <1>2
<1>3. CASE \E l \in 0 .. Len(t) : Ahead(l, t, p, rows)
  <2>1. PICK l \in 0 .. Len(t) : Ahead(l, t, p, rows)
      BY <1>3
  <2>2. CASE l = 0
    <3>1. \A r \in R : (IsRoot(r, rows) \/ parent[r] \in P) => r \in P
        BY <2>1, <2>2 DEF Ahead
    <3>2. P \in SUBSET R
        BY <1>1
    <3>3. Rooted(rows) \subseteq P
      <4> HIDE DEF P
      <4> QED BY <3>1, <3>2 DEF Rooted
    <3> QED BY <1>1, <3>3
  <2>3. CASE l # 0
    <3>1. l \in Nat \ {0} /\ l <= Len(t) /\ Len(t) \in Nat
        BY <2>1, <2>3 DEF Emitted, Onward
    <3>2. IsRoot(h, rows) \/ parent[h] \in P
        BY <2>1, <3>1 DEF Ahead
    <3>3. CASE h \in P /\ q = p /\ Onward(u, t, 0)
      <4>1. l - 1 \in 0 .. Len(u)
          BY <3>1, <3>3 DEF Onward
      <4>2. ASSUME NEW x \in 1 .. l - 1 PROVE IsRoot(u[x], rows) \/ parent[u[x]] \in ToSet(q)
        <5>1. x \in 0 + 1 .. Len(u) /\ u[x] = t[x - 0 + 1] /\ x - 0 + 1 \in 1 .. l
            BY <3>1, <3>3, <4>1 DEF Onward
        <5> QED BY <2>1, <3>3, <5>1 DEF Ahead
      <4>3. ASSUME NEW s \in R, IsRoot(s, rows) \/ parent[s] \in ToSet(q), s \notin ToSet(q)
            PROVE  \E x \in 1 .. l - 1 : u[x] = s
        <5>1. PICK x \in 1 .. l : t[x] = s
            BY <2>1, <3>3, <4>3 DEF Ahead
        <5>2. x # 1
            BY <3>3, <4>3, <5>1
        <5>3. x \in 2 .. Len(t) /\ x - 1 \in 1 .. l - 1 /\ x - 1 + 0 = x - 1
            BY <3>1, <5>1, <5>2
        <5>4. u[x - 1] = s
            BY <3>3, <5>1, <5>3 DEF Onward
        <5> QED BY <5>3, <5>4
      <4>4. Ahead(l - 1, u, q, rows)
          BY <4>2, <4>3 DEF Ahead
      <4> QED BY <3>2, <4>1, <4>4
    <3>4. CASE h \notin P
      <4>1. ToSet(q) = P \cup {h}
          BY <3>4 DEF Emitted
      <4>2. PICK k \in 0 .. Len(rows) : /\ Onward(u, t, k) /\ \A x \in 1 .. k : u[x] \in Kids(h, rows)
                                        /\ \A s \in Kids(h, rows) : \E x \in 1 .. k : u[x] = s
          BY <3>4 DEF Emitted
      <4> DEFINE m == l - 1 + k
      <4>3. k \in Nat /\ m \in 0 .. Len(u)
          BY <3>1, <4>2 DEF Onward
      <4>4. ASSUME NEW x \in 1 .. m PROVE IsRoot(u[x], rows) \/ parent[u[x]] \in ToSet(q)
        <5>1. CASE x <= k
          <6>1. u[x] \in Kids(h, rows)
              BY <4>2, <4>3, <5>1
          <6> QED BY <4>1, <6>1 DEF Kids
        <5>2. CASE ~(x <= k)
          <6>1. x \in k + 1 .. Len(u) /\ x - k + 1 \in 1 .. l
              BY <3>1, <4>3, <5>2
          <6>2. u[x] = t[x - k + 1]
              BY <4>2, <6>1 DEF Onward
          <6> QED BY <2>1, <4>1, <6>1, <6>2 DEF Ahead
        <5> QED BY <5>1, <5>2
      <4>5. ASSUME NEW s \in R, IsRoot(s, rows) \/ parent[s] \in ToSet(q), s \notin ToSet(q)
            PROVE  \E x \in 1 .. m : u[x] = s
        <5>1. CASE IsRoot(s, rows) \/ parent[s] \in P
          <6>1. PICK x \in 1 .. l : t[x] = s
              BY <2>1, <4>1, <4>5, <5>1 DEF Ahead
          <6>2. x # 1
              BY <4>1, <4>5, <6>1
          <6>3. x \in 2 .. Len(t) /\ x - 1 + k \in 1 .. m
              BY <3>1, <4>3, <6>1, <6>2
          <6>4. u[x - 1 + k] = s
              BY <4>2, <6>1, <6>3 DEF Onward
          <6> QED BY <6>3, <6>4
        <5>2. CASE ~(IsRoot(s, rows) \/ parent[s] \in P)
          <6>1. s \in Kids(h, rows)
              BY <4>1, <4>5, <5>2 DEF Kids, IsRoot
          <6>2. PICK x \in 1 .. k : u[x] = s
              BY <4>2, <6>1
          <6>3. x \in 1 .. m
              BY <3>1, <4>3, <6>2
          <6> QED BY <6>2, <6>3
        <5> QED BY <5>1, <5>2
      <4>6. Ahead(m, u, q, rows)
          BY <4>4, <4>5 DEF Ahead
      <4> QED BY <3>2, <4>3, <4>6
    <3> QED BY <3>3, <3>4 DEF Emitted
  <2> QED BY <2>2, <2>3
<1> QED BY <1>2, <1>3

\* A row is placed after its parent.
LEMMA AfterParentsGoesOn ==
    ASSUME NEW rows \in Rows, NEW t, NEW p, NEW u, NEW q, Emitted(t, p, u, q, rows), AfterParents(p, rows),
           Rooted(rows) \subseteq ToSet(p) \/ IsRoot(t[1], rows) \/ parent[t[1]] \in ToSet(p)
    PROVE  AfterParents(q, rows)
<1>1. CASE t[1] \in ToSet(p)
    BY <1>1 DEF Emitted
<1>2. CASE t[1] \notin ToSet(p)
  <2>1. Len(q) = Len(p) + 1 /\ q[Len(p) + 1] = t[1] /\ (\A i \in 1 .. Len(p) : q[i] = p[i]) /\ Len(p) \in Nat
      BY <1>2, SetOfSeq DEF Emitted
  <2>2. SUFFICES ASSUME NEW c \in 1 .. Len(q), q[c] \in Rooted(rows) \ {Host}, parent[q[c]] \in ToSet(rows)
                 PROVE  \E i \in 1 .. c - 1 : q[i] = parent[q[c]]
      BY DEF AfterParents
  <2>3. CASE c \in 1 .. Len(p)
    <3>1. PICK i \in 1 .. c - 1 : p[i] = parent[p[c]]
        BY <2>1, <2>2, <2>3 DEF AfterParents
    <3>2. i \in 1 .. Len(p)
        BY <2>1, <2>3
    <3> QED BY <2>1, <2>3, <3>1, <3>2
  <2>4. CASE c = Len(p) + 1
    <3>1. q[c] = t[1]
        BY <2>1, <2>4
    <3>2. parent[t[1]] \in ToSet(p)
        BY <1>2, <2>2, <3>1 DEF IsRoot
    <3>3. p \in Seq(ToSet(rows))
        BY DEF Emitted
    <3>4. PICK i \in 1 .. Len(p) : p[i] = parent[t[1]]
        BY <3>2, <3>3, PlaceOf
    <3>5. i \in 1 .. c - 1 /\ q[i] = parent[q[c]]
        BY <2>1, <2>4, <3>1, <3>4
    <3> QED BY <3>5
  <2> QED BY <2>1, <2>3, <2>4
<1> QED BY <1>1, <1>2

\* The group of p[i] grows by a row of its own, or is closed.
LEMMA GroupGoesOn ==
    ASSUME NEW rows \in Rows, NEW t, NEW p, NEW u, NEW q, Emitted(t, p, u, q, rows),
           NEW i \in 1 .. Len(p), Grouped(i, t, p, rows)
    PROVE  Grouped(i, u, q, rows)
<1> DEFINE P == ToSet(p)
           h == t[1]
<1>1. /\ Len(p) \in Nat /\ Len(t) \in Nat \ {0} /\ P \subseteq ToSet(q) /\ Len(p) <= Len(q) /\ Len(q) \in Nat
      /\ \A j \in 1 .. Len(p) : q[j] = p[j]
    BY SetOfSeq DEF Emitted, Onward
<1>2. q[i] = p[i]
    BY <1>1
<1>3. ASSUME NEW j \in i .. Len(p), Closed(i, j, p, rows) PROVE Grouped(i, u, q, rows)
  <2>1. j \in i .. Len(q) /\ \A k \in 1 .. j : k \in 1 .. Len(p) /\ q[k] = p[k]
      BY <1>1, <1>3
  <2>2. \A k \in i + 1 .. j : k \in 1 .. j
      BY <1>1
  <2>3. Closed(i, j, q, rows)
      BY <1>2, <1>3, <2>1, <2>2 DEF Closed
  <2> QED BY <2>1, <2>3 DEF Grouped
<1>4. ASSUME NEW l \in 0 .. Len(t), Opened(i, l, t, p, rows) PROVE Grouped(i, u, q, rows)
  <2>1. CASE l = 0
    <3>1. \A s \in Kids(p[i], rows) : \E k \in 1 .. Len(p) : p[k] = s
      <4>1. \A s \in Kids(p[i], rows) : s \in ToSet(p)
          BY <1>4, <2>1 DEF Opened
      <4>2. p \in Seq(ToSet(rows))
          BY DEF Emitted
      <4> QED BY <4>1, <4>2, PlaceOf
    <3>2. Closed(i, Len(p), p, rows)
        BY <1>4, <3>1 DEF Closed, Opened
    <3>3. Len(p) \in i .. Len(p)
        BY <1>1
    <3> QED BY <1>3, <3>2, <3>3
  <2>2. CASE l # 0
    <3>1. l \in Nat \ {0} /\ l <= Len(t)
        BY <1>1, <2>2
    <3>2. CASE h \in P /\ q = p /\ Onward(u, t, 0)
      <4>1. l - 1 \in 0 .. Len(u)
          BY <3>1, <3>2 DEF Onward
      <4>2. ASSUME NEW x \in 1 .. l - 1 PROVE Under(u[x], q[i])
        <5>1. x \in 0 + 1 .. Len(u) /\ u[x] = t[x - 0 + 1] /\ x - 0 + 1 \in 1 .. l
            BY <3>1, <3>2, <4>1 DEF Onward
        <5>2. Under(t[x - 0 + 1], p[i])
            BY <1>4, <5>1 DEF Opened
        <5> QED BY <3>2, <5>1, <5>2
      <4>3. ASSUME NEW s \in Kids(q[i], rows), s \notin ToSet(q) PROVE \E x \in 1 .. l - 1 : u[x] = s
        <5>1. PICK x \in 1 .. l : t[x] = s
            BY <1>4, <3>2, <4>3 DEF Opened
        <5>2. x # 1
            BY <3>2, <4>3, <5>1
        <5>3. x \in 2 .. Len(t) /\ x - 1 \in 1 .. l - 1 /\ x - 1 + 0 = x - 1
            BY <3>1, <5>1, <5>2
        <5>4. u[x - 1] = s
            BY <3>2, <5>1, <5>3 DEF Onward
        <5> QED BY <5>3, <5>4
      <4>4. \A k \in i + 1 .. Len(q) : Under(q[k], q[i])
          BY <1>4, <3>2 DEF Opened
      <4>5. Opened(i, l - 1, u, q, rows)
          BY <4>2, <4>3, <4>4 DEF Opened
      <4> QED BY <4>1, <4>5 DEF Grouped
    <3>3. CASE h \notin P
      <4>1. ToSet(q) = P \cup {h} /\ Len(q) = Len(p) + 1 /\ q[Len(p) + 1] = h
          BY <3>3 DEF Emitted
      <4>2. PICK k \in 0 .. Len(rows) : /\ Onward(u, t, k) /\ \A x \in 1 .. k : u[x] \in Kids(h, rows)
                                        /\ \A s \in Kids(h, rows) : \E x \in 1 .. k : u[x] = s
          BY <3>3 DEF Emitted
      <4> DEFINE m == l - 1 + k
      <4>3. k \in Nat /\ m \in 0 .. Len(u)
          BY <3>1, <4>2 DEF Onward
      <4>4. 1 \in 1 .. l /\ Under(h, p[i])
          BY <1>4, <3>1 DEF Opened
      <4>5. ASSUME NEW x \in 1 .. m PROVE Under(u[x], q[i])
        <5>1. CASE x <= k
          <6>1. u[x] \in Kids(h, rows)
              BY <4>2, <4>3, <5>1
          <6>2. Under(u[x], p[i])
              BY <4>4, <6>1, KidsAreUnder
          <6> QED BY <1>2, <6>2
        <5>2. CASE ~(x <= k)
          <6>1. x \in k + 1 .. Len(u) /\ x - k + 1 \in 1 .. l
              BY <3>1, <4>3, <5>2
          <6>2. u[x] = t[x - k + 1]
              BY <4>2, <6>1 DEF Onward
          <6>3. Under(t[x - k + 1], p[i])
              BY <1>4, <6>1 DEF Opened
          <6> QED BY <1>2, <6>2, <6>3
        <5> QED BY <5>1, <5>2
      <4>6. ASSUME NEW s \in Kids(q[i], rows), s \notin ToSet(q) PROVE \E x \in 1 .. m : u[x] = s
        <5>1. PICK x \in 1 .. l : t[x] = s
            BY <1>2, <1>4, <4>1, <4>6 DEF Opened
        <5>2. x # 1
            BY <4>1, <4>6, <5>1
        <5>3. x \in 2 .. Len(t) /\ x - 1 + k \in 1 .. m
            BY <3>1, <4>3, <5>1, <5>2
        <5>4. u[x - 1 + k] = s
            BY <4>2, <5>1, <5>3 DEF Onward
        <5> QED BY <5>3, <5>4
      <4>7. ASSUME NEW j \in i + 1 .. Len(q) PROVE Under(q[j], q[i])
        <5>1. CASE j = Len(p) + 1
            BY <1>2, <4>1, <4>4, <5>1
        <5>2. CASE j # Len(p) + 1
          <6>1. j \in i + 1 .. Len(p) /\ j \in 1 .. Len(p)
              BY <1>1, <4>1, <5>2
          <6>2. Under(p[j], p[i]) /\ q[j] = p[j]
              BY <1>1, <1>4, <6>1 DEF Opened
          <6> QED BY <1>2, <6>2
        <5> QED BY <5>1, <5>2
      <4>8. Opened(i, m, u, q, rows)
          BY <4>5, <4>6, <4>7 DEF Opened
      <4> QED BY <4>3, <4>8 DEF Grouped
    <3> QED BY <3>2, <3>3 DEF Emitted
  <2> QED BY <2>1, <2>2
<1> QED BY <1>3, <1>4 DEF Grouped

\* A row that is placed opens its own group.
LEMMA GroupStarts ==
    ASSUME NEW rows \in Rows, NEW t, NEW p, NEW u, NEW q, Emitted(t, p, u, q, rows), NEW i \in 1 .. Len(q), i \notin 1 .. Len(p)
    PROVE  Grouped(i, u, q, rows)
<1>1. Len(p) \in Nat /\ Len(t) \in Nat \ {0}
    BY SetOfSeq DEF Emitted, Onward
<1>2. q # p
    BY <1>1
<1>3. Len(q) = Len(p) + 1 /\ q[Len(p) + 1] = t[1]
    BY <1>2 DEF Emitted
<1>4. PICK k \in 0 .. Len(rows) : /\ Onward(u, t, k) /\ \A x \in 1 .. k : u[x] \in Kids(t[1], rows)
                                  /\ \A s \in Kids(t[1], rows) : \E x \in 1 .. k : u[x] = s
    BY <1>2 DEF Emitted
<1>5. i = Len(p) + 1
    BY <1>1, <1>3
<1>6. k \in 0 .. Len(u)
    BY <1>1, <1>4 DEF Onward
<1>7. \A x \in 1 .. k : Under(u[x], q[i])
    BY <1>3, <1>4, <1>5, KidsAreUnder
<1>8. i + 1 .. Len(q) = {}
    BY <1>1, <1>3, <1>5
<1>9. Opened(i, k, u, q, rows)
    BY <1>3, <1>4, <1>5, <1>7, <1>8 DEF Opened
<1> QED BY <1>6, <1>9 DEF Grouped

\* Each call leaves fewer.
LEMMA FewerLeft ==
    ASSUME NEW rows \in Rows, NEW t, NEW p, NEW u, NEW q, Emitted(t, p, u, q, rows)
    PROVE  Left(u, q, rows) + 1 <= Left(t, p, rows) /\ Left(u, q, rows) \in Nat /\ Left(t, p, rows) \in Nat
<1> DEFINE R == ToSet(rows)
           A == R \ ToSet(p)
           B == R \ ToSet(q)
           L == Len(rows)
<1>1. IsFiniteSet(A) /\ IsFiniteSet(B) /\ L \in Nat
  <2>1. IsFiniteSet(R) /\ L \in Nat
      BY SetOfSeq DEF Rows
  <2> QED BY <2>1, FS_Subset
<1>2. Cardinality(A) \in Nat /\ Cardinality(B) \in Nat
    BY <1>1, FS_CardinalityType
<1>3. Len(t) \in Nat \ {0} /\ Len(u) \in Nat
    BY DEF Emitted, Onward
<1> DEFINE a == Cardinality(A)
           b == Cardinality(B)
<1>4. Left(t, p, rows) = Len(t) + (L + 1) * a /\ Left(u, q, rows) = Len(u) + (L + 1) * b
    BY DEF Left
<1>5. CASE t[1] \in ToSet(p)
  <2>1. q = p /\ Len(u) = Len(t) - 1 + 0
      BY <1>5 DEF Emitted, Onward
  <2>2. a = b
      BY <2>1
  <2>3. (L + 1) * a \in Nat
      BY <1>1, <1>2
  <2> HIDE DEF a, b, L
  <2> QED BY <1>3, <1>4, <2>1, <2>2, <2>3
<1>6. CASE t[1] \notin ToSet(p)
  <2>1. ToSet(q) = ToSet(p) \cup {t[1]} /\ t[1] \in R
      BY <1>6 DEF Emitted
  <2>2. PICK k \in 0 .. L : Onward(u, t, k)
      BY <1>6 DEF Emitted
  <2>3. Len(u) = Len(t) - 1 + k
      BY <2>2 DEF Onward
  <2>4. t[1] \in A /\ B = A \ {t[1]}
      BY <1>6, <2>1
  <2>5. b = a - 1
      BY <1>1, <2>4, FS_RemoveElement
  <2>6. (L + 1) * a = (L + 1) * b + (L + 1) /\ (L + 1) * b \in Nat
    <3>1. a \in Nat /\ b \in Nat /\ a = b + 1
        BY <1>2, <2>5
    <3> HIDE DEF a, b, L
    <3>2. (L + 1) * b \in Nat
        BY <1>1, <3>1
    <3>3. (L + 1) * (b + 1) = (L + 1) * b + (L + 1)
        BY <1>1, <3>1
    <3> QED BY <3>1, <3>2, <3>3
  <2> HIDE DEF a, b, L
  <2>7. k \in Nat /\ k <= L
      BY <1>1, <2>2
  <2> DEFINE m == (L + 1) * b
             n == (L + 1) * a
  <2>8. n = m + (L + 1) /\ m \in Nat
      BY <2>6
  <2>9. Left(t, p, rows) = Len(t) + n /\ Left(u, q, rows) = Len(u) + m
      BY <1>4
  <2> HIDE DEF m, n
  <2> QED BY <1>1, <1>3, <2>3, <2>7, <2>8, <2>9
<1> QED BY <1>5, <1>6

\* A call of emit keeps what is known of the walk.
LEMMA WalkingGoesOn ==
    ASSUME NEW rows \in Rows, NEW t, NEW p, NEW u, NEW q, NEW n \in Nat, Walking(t, p, n, rows), Emitted(t, p, u, q, rows), t # <<>>
    PROVE  Walking(u, q, n + 1, rows)
<1> DEFINE R == ToSet(rows)
<1>0. t \in Seq(R) /\ p \in Seq(R) /\ u \in Seq(R) /\ q \in Seq(R) /\ Len(t) \in Nat \ {0}
    BY DEF Emitted, Onward
<1>1. /\ \A i, j \in 1 .. Len(p) : p[i] = p[j] => i = j
      /\ R \subseteq ToSet(p) \cup ToSet(t)
      /\ Left(t, p, rows) + n <= Calls(rows)
      /\ Rooted(rows) \subseteq ToSet(p) \/ \E l \in 0 .. Len(t) : Ahead(l, t, p, rows)
      /\ AfterParents(p, rows)
      /\ \A i \in 1 .. Len(p) : Grouped(i, t, p, rows)
    BY DEF Walking
<1>2. \A i, j \in 1 .. Len(q) : q[i] = q[j] => i = j
  <2>1. CASE q = p
      BY <1>1, <2>1
  <2>2. CASE q # p
    <3>1. t[1] \notin ToSet(p) /\ Len(q) = Len(p) + 1 /\ q[Len(p) + 1] = t[1] /\ \A i \in 1 .. Len(p) : q[i] = p[i]
        BY <2>2 DEF Emitted
    <3>2. Len(p) \in Nat /\ \A i \in 1 .. Len(q) : i \in 1 .. Len(p) \/ i = Len(p) + 1
        BY <1>0, <3>1
    <3>3. \A i \in 1 .. Len(p) : p[i] # t[1]
        BY <1>0, <3>1, PlaceOf
    <3> QED BY <1>1, <3>1, <3>2, <3>3
  <2> QED BY <2>1, <2>2
<1>3. R \subseteq ToSet(q) \cup ToSet(u)
  <2>1. ASSUME NEW s \in R, s \notin ToSet(q) PROVE s \in ToSet(u)
    <3>1. ToSet(p) \subseteq ToSet(q) /\ t[1] \in ToSet(q)
        BY DEF Emitted
    <3>2. PICK x \in 1 .. Len(t) : t[x] = s
        BY <1>0, <1>1, <2>1, <3>1, PlaceOf
    <3>3. x \in 2 .. Len(t)
        BY <1>0, <2>1, <3>1, <3>2
    <3>4. PICK k \in Nat : Onward(u, t, k)
        BY SetOfSeq DEF Emitted, Rows
    <3>5. x - 1 + k \in 1 .. Len(u) /\ u[x - 1 + k] = s
        BY <1>0, <3>2, <3>3, <3>4 DEF Onward
    <3> QED BY <1>0, <3>5, PlaceOf
  <2> QED BY <2>1
<1>4. Left(u, q, rows) + (n + 1) <= Calls(rows)
  <2>1. Left(u, q, rows) + 1 <= Left(t, p, rows) /\ Left(u, q, rows) \in Nat /\ Left(t, p, rows) \in Nat
      BY FewerLeft
  <2>2. Calls(rows) \in Nat
    <3>1. Len(rows) \in Nat
        BY SetOfSeq DEF Rows
    <3> QED BY <3>1 DEF Calls
  <2> QED BY <1>1, <2>1, <2>2
<1>5. /\ Rooted(rows) \subseteq ToSet(q) \/ \E l \in 0 .. Len(u) : Ahead(l, u, q, rows)
      /\ Rooted(rows) \subseteq ToSet(p) \/ IsRoot(t[1], rows) \/ parent[t[1]] \in ToSet(p)
    BY <1>1, AheadGoesOn
<1>6. AfterParents(q, rows)
    BY <1>1, <1>5, AfterParentsGoesOn
<1>7. ASSUME NEW i \in 1 .. Len(q) PROVE Grouped(i, u, q, rows)
  <2>1. CASE i \in 1 .. Len(p)
      BY <1>1, <2>1, GroupGoesOn
  <2>2. CASE i \notin 1 .. Len(p)
      BY <2>2, GroupStarts
  <2> QED BY <2>1, <2>2
<1> QED BY <1>0, <1>2, <1>3, <1>4, <1>5, <1>6, <1>7 DEF Walking

\* The calls that start the walk: each root, and then every row.
Roots(rows) == Among(rows, {s \in ToSet(rows) : IsRoot(s, rows)})

\* What is known of the walk before the first call.
LEMMA WalkingStarts ==
    ASSUME NEW rows \in Rows
    PROVE  Roots(rows) \o rows \in Seq(ToSet(rows)) /\ Walking(Roots(rows) \o rows, <<>>, 0, rows)
<1> DEFINE R == ToSet(rows)
           K == Roots(rows)
           t == K \o rows
           k == Len(K)
           L == Len(rows)
<1>1. rows \in Seq(R) /\ L \in Nat /\ Cardinality(R) <= L /\ IsFiniteSet(R)
    BY SetOfSeq DEF Rows
<1>2. K \in Seq(R) /\ ToSet(K) = R \cap {s \in R : IsRoot(s, rows)} /\ Len(K) <= L
    BY <1>1, AmongIs DEF Roots
<1> HIDE DEF K
<1>3. k \in Nat /\ k <= L
    BY <1>2
<1>4. /\ t \in Seq(R) /\ Len(t) = k + L
      /\ \A x \in 1 .. k + L : (x <= k => t[x] = K[x]) /\ (~(x <= k) => t[x] = rows[x - k])
    BY <1>1, <1>2, ConcatProperties
<1> HIDE DEF t, k, L
<1>5. R \subseteq ToSet(<<>>) \cup ToSet(t)
  <2>1. ASSUME NEW s \in R PROVE s \in ToSet(t)
    <3>1. PICK x \in 1 .. L : rows[x] = s
        BY <1>1, PlaceOf DEF L
    <3>2. x + k \in 1 .. k + L /\ ~(x + k <= k) /\ (x + k) - k = x
        BY <1>1, <1>3
    <3>3. t[x + k] = s /\ x + k \in 1 .. Len(t)
        BY <1>4, <3>1, <3>2
    <3> QED BY <1>4, <3>3, PlaceOf
  <2> QED BY <2>1
<1>6. Left(t, <<>>, rows) + 0 <= Calls(rows)
  <2>1. R \ ToSet(<<>>) = R
      BY DEF ToSet
  <2> DEFINE c == Cardinality(R)
  <2>2. c \in Nat /\ c <= L
      BY <1>1, FS_CardinalityType
  <2>3. Left(t, <<>>, rows) = k + L + (L + 1) * c /\ Calls(rows) = L * (L + 3)
      BY <1>4, <2>1 DEF Left, Calls, L
  <2> HIDE DEF c
  <2>4. (L + 1) * c <= (L + 1) * L
      BY <1>1, <2>2
  <2>5. L * (L + 3) = (L + 1) * L + L + L
      BY <1>1
  <2>6. (L + 1) * c \in Nat /\ (L + 1) * L \in Nat
      BY <1>1, <2>2
  <2> DEFINE m == (L + 1) * c
             n == (L + 1) * L
  <2>7. m <= n /\ Left(t, <<>>, rows) = k + L + m /\ Calls(rows) = n + L + L /\ m \in Nat /\ n \in Nat
      BY <2>3, <2>4, <2>5, <2>6
  <2> HIDE DEF m, n
  <2> QED BY <1>1, <1>3, <2>7
<1>7. Ahead(k, t, <<>>, rows) /\ k \in 0 .. Len(t)
  <2>1. ToSet(<<>>) = {}
      BY DEF ToSet
  <2>2. \A x \in 1 .. k : t[x] = K[x]
      BY <1>1, <1>3, <1>4
  <2>3. \A x \in 1 .. k : IsRoot(t[x], rows)
      BY <1>2, <2>2, SetOfSeq DEF k
  <2>4. ASSUME NEW s \in R, IsRoot(s, rows) PROVE \E x \in 1 .. k : t[x] = s
      BY <1>2, <2>2, <2>4, PlaceOf DEF k
  <2> QED BY <1>1, <1>3, <1>4, <2>1, <2>3, <2>4 DEF Ahead
<1>8. <<>> \in Seq(R) /\ Len(<<>>) = 0
    OBVIOUS
<1>9. AfterParents(<<>>, rows) /\ (\A i \in 1 .. Len(<<>>) : Grouped(i, t, <<>>, rows)) /\ \A i, j \in 1 .. Len(<<>>) : <<>>[i] = <<>>[j] => i = j
    BY <1>8 DEF AfterParents
<1> QED BY <1>4, <1>5, <1>6, <1>7, <1>8, <1>9 DEF Walking, t, K

Walks(rows) == [todo : Seq(ToSet(rows)), placed : Seq(ToSet(rows))]

\* A call of emit leaves a walk.
LEMMA EmitWalks ==
    ASSUME NEW rows \in Rows, NEW d \in Walks(rows)
    PROVE  Emit(d, rows) \in Walks(rows)
<1>1. CASE d.todo = <<>>
    BY <1>1 DEF Emit
<1>2. CASE d.todo # <<>>
  <2> DEFINE w == Emit([todo |-> d.todo, placed |-> d.placed], rows)
  <2>1. d = [todo |-> d.todo, placed |-> d.placed] /\ d.todo \in Seq(ToSet(rows)) /\ d.placed \in Seq(ToSet(rows))
      BY DEF Walks
  <2>2. w = [todo |-> w.todo, placed |-> w.placed] /\ Emitted(d.todo, d.placed, w.todo, w.placed, rows)
      BY <1>2, <2>1, EmitIs
  <2>3. Emit(d, rows) = w
      BY <2>1
  <2> HIDE DEF w
  <2> QED BY <2>2, <2>3 DEF Emitted, Walks
<1> QED BY <1>1, <1>2

\* r[n] is the walk after n calls.
IsWalk(r, rows) ==
    /\ r[0] = [todo |-> Roots(rows) \o rows, placed |-> <<>>]
    /\ \A n \in 1 .. Calls(rows) : r[n] = Emit(r[n - 1], rows)

\* orderSessionsByParent is the last of the walks, each a call of emit after the one before.
LEMMA WalkIs ==
    ASSUME NEW rows \in Rows
    PROVE  \E r : IsWalk(r, rows) /\ OrderedByParent(rows) = r[Calls(rows)].placed
<1> DEFINE l == Calls(rows)
           D == Walks(rows)
           first == [todo |-> Roots(rows) \o rows, placed |-> <<>>]
           f == [x \in (1 .. l) \X D |-> Emit(x[2], rows)]
           Def(g) == [n \in 0 .. l |-> IF n = 0 THEN first ELSE Emit(g[n - 1], rows)]
           walk == CHOOSE g : g = Def(g)
<1>1. l \in Nat
  <2>1. Len(rows) \in Nat
      BY SetOfSeq DEF Rows
  <2> QED BY <2>1 DEF Calls
<1>2. f \in [(1 .. l) \X D -> D]
    BY EmitWalks
<1>3. first \in D
  <2>1. Roots(rows) \o rows \in Seq(ToSet(rows)) /\ <<>> \in Seq(ToSet(rows))
      BY WalkingStarts
  <2> QED BY <2>1 DEF Walks
<1>4. \A i \in 1 .. l : \A d \in D : f[<<i, d>>] = Emit(d, rows)
    OBVIOUS
<1>8. OrderedByParent(rows) = walk[l].placed
    BY DEF OrderedByParent, Calls, Roots
<1> HIDE DEF l, f, D, first
<1>5. PICK r \in [0 .. l -> D] : Iterates(r, first, f, l)
    BY <1>1, <1>2, <1>3, IterationExists
<1>6. r = Def(r)
  <2>1. ASSUME NEW i \in 0 .. l PROVE r[i] = Def(r)[i]
    <3>1. CASE i = 0
        BY <1>5, <3>1 DEF Iterates
    <3>2. CASE i # 0
      <4>1. i \in 1 .. l /\ i - 1 \in 0 .. l
          BY <1>1, <3>2
      <4>2. r[i] = f[<<i, r[i - 1]>>] /\ r[i - 1] \in D
          BY <1>5, <4>1 DEF Iterates
      <4>3. r[i] = Emit(r[i - 1], rows)
          BY <1>4, <4>1, <4>2
      <4> QED BY <3>2, <4>3
    <3> QED BY <3>1, <3>2
  <2> QED BY <2>1
<1>7. walk = Def(walk)
    BY <1>6
<1> HIDE DEF walk
<1>9. IsWalk(walk, rows)
  <2>1. 0 \in 0 .. l /\ \A i \in 1 .. l : i \in 0 .. l /\ i # 0
      BY <1>1
  <2> QED BY <1>7, <2>1 DEF IsWalk, l, first
<1> QED BY <1>8, <1>9 DEF l

\* What the walk leaves: every row once, and those that hang from a root grouped under their parents.
LEMMA WalkEnds ==
    ASSUME NEW rows \in Rows
    PROVE  \E t : Walking(t, OrderedByParent(rows), Calls(rows), rows) /\ t = <<>>
<1>1. PICK r : IsWalk(r, rows) /\ OrderedByParent(rows) = r[Calls(rows)].placed
    BY WalkIs
<1> DEFINE l == Calls(rows)
           Good(d, n) == /\ d = [todo |-> d.todo, placed |-> d.placed] /\ d.todo \in Seq(ToSet(rows)) /\ d.placed \in Seq(ToSet(rows))
                         /\ Walking(d.todo, d.placed, n, rows)
           T == {n \in 0 .. l : Good(r[n], n)}
<1>2. l \in Nat
  <2>1. Len(rows) \in Nat
      BY SetOfSeq DEF Rows
  <2> QED BY <2>1 DEF Calls
<1>3. 0 \in T
  <2>1. Roots(rows) \o rows \in Seq(ToSet(rows)) /\ Walking(Roots(rows) \o rows, <<>>, 0, rows) /\ <<>> \in Seq(ToSet(rows))
      BY WalkingStarts
  <2>2. Good([todo |-> Roots(rows) \o rows, placed |-> <<>>], 0)
      BY <2>1
  <2>3. r[0] = [todo |-> Roots(rows) \o rows, placed |-> <<>>]
      BY <1>1 DEF IsWalk
  <2> HIDE DEF Good
  <2>4. Good(r[0], 0)
      BY <2>2, <2>3
  <2> QED BY <1>2, <2>4
<1>4. ASSUME NEW n \in 0 .. l - 1, n \in T PROVE n + 1 \in T
  <2> DEFINE d == r[n]
             x == n + 1
             w == r[x]
  <2>1. x \in 1 .. l /\ x - 1 = n /\ n \in Nat
      BY <1>2
  <2>2. w = Emit(d, rows)
      BY <1>1, <2>1 DEF IsWalk
  <2>3. Good(d, n)
      BY <1>4
  <2> DEFINE t == d.todo
             p == d.placed
             u == w.todo
             q == w.placed
  <2>4. d = [todo |-> t, placed |-> p] /\ t \in Seq(ToSet(rows)) /\ p \in Seq(ToSet(rows)) /\ Walking(t, p, n, rows)
      BY <2>3
  <2> HIDE DEF d, w, t, p, u, q
  <2>5. CASE t = <<>>
    <3>1. w = d
        BY <2>2, <2>4, <2>5 DEF Emit
    <3>2. Walking(t, p, x, rows)
        BY <2>4, <2>5 DEF Walking
    <3>3. d = [todo |-> d.todo, placed |-> d.placed] /\ d.todo = t /\ d.placed = p
        BY <2>4 DEF t, p
    <3>4. Good(w, x)
        BY <2>4, <3>1, <3>2, <3>3
    <3> QED BY <2>1, <3>4 DEF w
  <2>6. CASE t # <<>>
    <3>1. w = [todo |-> u, placed |-> q] /\ Emitted(t, p, u, q, rows)
        BY <2>2, <2>4, <2>6, EmitIs DEF u, q
    <3>2. Walking(u, q, x, rows)
        BY <2>1, <2>4, <2>6, <3>1, WalkingGoesOn
    <3>3. w = [todo |-> w.todo, placed |-> w.placed] /\ w.todo = u /\ w.placed = q /\ u \in Seq(ToSet(rows)) /\ q \in Seq(ToSet(rows))
        BY <3>1 DEF u, q, Emitted
    <3>4. Good(w, x)
        BY <3>2, <3>3
    <3> QED BY <2>1, <3>4 DEF w
  <2> QED BY <2>5, <2>6
<1> HIDE DEF T
<1>5. l \in T
    BY <1>2, <1>3, <1>4, CountTo
<1> DEFINE t == r[l].todo
           p == r[l].placed
<1>6. t \in Seq(ToSet(rows)) /\ Walking(t, p, l, rows)
    BY <1>5 DEF T
<1>7. t = <<>>
  <2>1. CASE Left(t, p, rows) + l <= l
    <3>1. Len(rows) \in Nat /\ IsFiniteSet(ToSet(rows)) /\ Len(t) \in Nat
        BY <1>6, SetOfSeq DEF Rows
    <3>2. Cardinality(ToSet(rows) \ ToSet(p)) \in Nat
        BY <3>1, FS_Subset, FS_CardinalityType
    <3> DEFINE m == (Len(rows) + 1) * Cardinality(ToSet(rows) \ ToSet(p))
    <3>3. m \in Nat /\ Left(t, p, rows) = Len(t) + m
        BY <3>1, <3>2 DEF Left
    <3> HIDE DEF m, t, p, l
    <3>4. Len(t) = 0
        BY <1>2, <2>1, <3>1, <3>3
    <3> QED BY <1>6, <3>4, EmptySeq
  <2> QED BY <1>6, <2>1 DEF Walking
<1> QED BY <1>1, <1>6, <1>7

\* orderSessionsByParent shows every row once, and each below its parent, with only what is under that between.
LEMMA OrderIs ==
    ASSUME NEW rows \in Rows
    PROVE  LET P == OrderedByParent(rows)
           IN /\ P \in Rows /\ ToSet(P) = ToSet(rows) /\ IsInjective(P)
              /\ \A c, p \in DOMAIN P :
                    (P[c] # Host /\ parent[P[c]] = P[p] /\ P[c] \in Rooted(P)) => (p < c /\ \A k \in p + 1 .. c : Under(P[k], P[p]))
<1> DEFINE P == OrderedByParent(rows)
           R == ToSet(rows)
<1>1. Walking(<<>>, P, Calls(rows), rows)
    BY WalkEnds
<1> HIDE DEF P
<1>2. /\ P \in Seq(R) /\ R \subseteq ToSet(P) \cup ToSet(<<>>) /\ AfterParents(P, rows)
      /\ \A i, j \in 1 .. Len(P) : P[i] = P[j] => i = j
      /\ \A i \in 1 .. Len(P) : Grouped(i, <<>>, P, rows)
    BY <1>1 DEF Walking
<1>3. ToSet(P) = R /\ R \subseteq Sessions \cup {Host} /\ DOMAIN P = 1 .. Len(P) /\ Len(P) \in Nat
  <2>1. ToSet(<<>>) = {}
      BY DEF ToSet
  <2>2. ToSet(P) \subseteq R /\ R \subseteq Sessions \cup {Host}
      BY <1>2, SetOfSeq DEF Rows
  <2>3. DOMAIN P = 1 .. Len(P) /\ Len(P) \in Nat
      BY <1>2
  <2>4. ToSet(P) = R
      BY <1>2, <2>1, <2>2
  <2> QED BY <2>2, <2>3, <2>4
<1>4. P \in Rows
    BY <1>2, <1>3 DEF Rows
<1>5. IsInjective(P)
    BY <1>2, <1>3 DEF IsInjective
<1>6. Rooted(P) = Rooted(rows)
    BY <1>3 DEF Rooted, IsRoot
<1>7. ASSUME NEW c \in 1 .. Len(P), NEW p \in 1 .. Len(P), P[c] # Host, parent[P[c]] = P[p], P[c] \in Rooted(rows)
      PROVE  p < c /\ \A k \in p + 1 .. c : Under(P[k], P[p])
  <2>1. P[p] \in R /\ P[c] \in Kids(P[p], rows)
    <3>1. \A i \in 1 .. Len(P) : P[i] \in R
        BY <1>2
    <3> HIDE DEF R
    <3>2. P[p] \in R /\ P[c] \in R
        BY <3>1
    <3> QED BY <1>7, <3>2 DEF Kids, R
  <2>2. PICK q \in 1 .. c - 1 : P[q] = parent[P[c]]
      BY <1>2, <1>7, <2>1 DEF AfterParents
  <2>3. q = p
      BY <1>2, <1>3, <1>7, <2>2
  <2>4. p < c
      BY <1>3, <2>2, <2>3
  <2>5. Len(<<>>) = 0
      OBVIOUS
  <2>6. Grouped(p, <<>>, P, rows)
      BY <1>2
  <2>7. CASE Opened(p, 0, <<>>, P, rows)
    <3>1. \A k \in p + 1 .. c : k \in p + 1 .. Len(P)
        BY <1>3
    <3> QED BY <2>4, <2>7, <3>1 DEF Opened
  <2>8. ASSUME NEW j \in p .. Len(P), Closed(p, j, P, rows) PROVE \A k \in p + 1 .. c : Under(P[k], P[p])
    <3>1. PICK i \in 1 .. j : P[i] = P[c]
        BY <2>1, <2>8 DEF Closed
    <3>2. i = c
        BY <1>2, <1>3, <3>1
    <3>3. \A k \in p + 1 .. c : k \in p + 1 .. j
        BY <1>3, <3>1, <3>2
    <3> QED BY <2>8, <3>3 DEF Closed
  <2> QED BY <2>4, <2>5, <2>6, <2>7, <2>8 DEF Grouped
<1> QED BY <1>3, <1>4, <1>5, <1>6, <1>7 DEF P

-----------------------------------------------------------------------------
(* What is drawn.                                                          *)

Comp == [kind : {"message", "tool"}, of : Nat, done : BOOLEAN]
Places == {"message", "tool"} \X Nat
Drawing == [shown : Seq(Comp), streaming : Nat, waiting : SUBSET Nat]

\* The call of message i is drawn.
HasTool(d, i) == \E k \in DOMAIN d.shown : d.shown[k].kind = "tool" /\ d.shown[k].of = i

\* The order of a drawing, place by place.
LEMMA OrderPlaces ==
    ASSUME NEW d, d.shown \in Seq(Comp)
    PROVE  /\ Order(d) \in Seq(Places) /\ Len(Order(d)) = Len(d.shown) /\ DOMAIN d.shown = 1 .. Len(d.shown) /\ Len(d.shown) \in Nat
           /\ \A k \in 1 .. Len(d.shown) : Order(d)[k] = <<d.shown[k].kind, d.shown[k].of>> /\ d.shown[k] \in Comp
<1>1. DOMAIN d.shown = 1 .. Len(d.shown) /\ Len(d.shown) \in Nat /\ \A k \in 1 .. Len(d.shown) : d.shown[k] \in Comp
    OBVIOUS
<1> DEFINE s == d.shown
           l == Len(s)
<1>2. Order(d) = [k \in 1 .. l |-> <<s[k].kind, s[k].of>>]
    BY <1>1 DEF Order
<1> HIDE DEF s, l
<1>3. \A k \in 1 .. l : <<s[k].kind, s[k].of>> \in Places
    BY <1>1 DEF Comp, Places, s, l
<1>4. Order(d) \in [1 .. l -> Places] /\ l \in Nat
    BY <1>1, <1>2, <1>3 DEF l, s
<1>5. Order(d) \in Seq(Places) /\ Len(Order(d)) = l
    BY <1>4
<1> QED BY <1>1, <1>2, <1>5 DEF s, l

\* The order tells kinds and messages apart, not results.
LEMMA SameOrder ==
    ASSUME NEW d, d.shown \in Seq(Comp), NEW e, e.shown \in Seq(Comp), Len(e.shown) = Len(d.shown),
           \A k \in 1 .. Len(d.shown) : e.shown[k].kind = d.shown[k].kind /\ e.shown[k].of = d.shown[k].of
    PROVE  Order(e) = Order(d)
<1>1. Order(d) \in Seq(Places) /\ Order(e) \in Seq(Places) /\ Len(Order(e)) = Len(Order(d))
    BY OrderPlaces
<1>2. \A k \in 1 .. Len(Order(e)) : Order(e)[k] = Order(d)[k]
    BY OrderPlaces
<1> QED BY <1>1, <1>2, SeqEqual

\* Drawings in the same order show the same calls.
LEMMA SameTools ==
    ASSUME NEW d, d.shown \in Seq(Comp), NEW e, e.shown \in Seq(Comp), Order(d) = Order(e), NEW i, HasTool(d, i)
    PROVE  HasTool(e, i)
<1>1. PICK k \in DOMAIN d.shown : d.shown[k].kind = "tool" /\ d.shown[k].of = i
    BY DEF HasTool
<1>2. k \in 1 .. Len(d.shown) /\ Len(d.shown) = Len(e.shown) /\ DOMAIN e.shown = 1 .. Len(e.shown)
    BY <1>1, OrderPlaces
<1>3. Order(d)[k] = <<d.shown[k].kind, d.shown[k].of>> /\ Order(e)[k] = <<e.shown[k].kind, e.shown[k].of>>
    BY <1>2, OrderPlaces
<1>4. e.shown[k].kind = "tool" /\ e.shown[k].of = i
    BY <1>1, <1>3
<1> QED BY <1>2, <1>4 DEF HasTool

\* One more component.
LEMMA DrawnIs ==
    ASSUME NEW d \in Drawing, NEW kind \in {"message", "tool"}, NEW i \in Nat
    PROVE  LET e == Drawn(d, kind, i)
           IN /\ e \in Drawing /\ e.streaming = d.streaming /\ e.waiting = d.waiting
              /\ Order(e) = Append(Order(d), <<kind, i>>) /\ Results(e) = Results(d)
              /\ \A j : HasTool(d, j) => HasTool(e, j)
              /\ kind = "tool" => HasTool(e, i)
<1> DEFINE c == Component(kind, i)
           e == Drawn(d, kind, i)
           s == d.shown
           t == e.shown
           l == Len(s)
<1>1. c \in Comp /\ c.kind = kind /\ c.of = i /\ c.done = FALSE
    BY DEF Component, Comp
<1>2. s \in Seq(Comp) /\ l \in Nat
    BY DEF Drawing
<1> HIDE DEF c
<1>3. e = [d EXCEPT !.shown = Append(s, c)]
    BY DEF Drawn, c
<1>4. e \in Drawing /\ e.streaming = d.streaming /\ e.waiting = d.waiting /\ t = Append(s, c)
  <2> DEFINE a == Append(s, c)
  <2>1. a \in Seq(Comp)
      BY <1>1, <1>2, AppendProperties
  <2>2. d = [shown |-> s, streaming |-> d.streaming, waiting |-> d.waiting] /\ d.streaming \in Nat /\ d.waiting \in SUBSET Nat
      BY DEF Drawing
  <2> HIDE DEF a, e
  <2>3. e = [d EXCEPT !.shown = a]
      BY <1>3 DEF a
  <2>4. e = [shown |-> a, streaming |-> d.streaming, waiting |-> d.waiting]
      BY <2>2, <2>3
  <2>5. e.shown = a /\ e.streaming = d.streaming /\ e.waiting = d.waiting
      BY <2>4
  <2>6. e \in Drawing
      BY <2>1, <2>2, <2>4 DEF Drawing
  <2> QED BY <2>5, <2>6 DEF a
<1> HIDE DEF e, s
<1>5. t \in Seq(Comp) /\ Len(t) = l + 1 /\ t[l + 1] = c /\ \A k \in 1 .. l : t[k] = s[k]
    BY <1>1, <1>2, <1>4, AppendProperties
<1> HIDE DEF t, l
<1>6. DOMAIN s = 1 .. l /\ DOMAIN t = 1 .. l + 1 /\ \A k \in 1 .. l + 1 : k \in 1 .. l \/ k = l + 1
    BY <1>2, <1>5 DEF l
<1>7. l + 1 \in 1 .. l + 1 /\ \A k \in 1 .. l : k \in 1 .. l + 1
    BY <1>2
<1>8. Order(e) = Append(Order(d), <<kind, i>>)
  <2>1. Order(d) \in Seq(Places) /\ Len(Order(d)) = l /\ Order(e) \in Seq(Places) /\ Len(Order(e)) = l + 1
      BY <1>2, <1>5, OrderPlaces DEF s, t, l
  <2>2. <<kind, i>> \in Places
      BY DEF Places
  <2> DEFINE o == Append(Order(d), <<kind, i>>)
  <2>3. o \in Seq(Places) /\ Len(o) = l + 1 /\ o[l + 1] = <<kind, i>> /\ \A k \in 1 .. l : o[k] = Order(d)[k]
      BY <2>1, <2>2, AppendProperties
  <2> HIDE DEF o
  <2>4. ASSUME NEW k \in 1 .. l + 1 PROVE Order(e)[k] = o[k]
    <3>1. Order(e)[k] = <<t[k].kind, t[k].of>>
        BY <1>5, OrderPlaces DEF t
    <3>2. CASE k = l + 1
        BY <1>1, <1>5, <2>3, <3>1, <3>2
    <3>3. CASE k \in 1 .. l
      <4>1. Order(d)[k] = <<s[k].kind, s[k].of>>
          BY <1>2, <3>3, OrderPlaces DEF s, l
      <4> QED BY <1>5, <2>3, <3>1, <3>3, <4>1
    <3> QED BY <1>6, <3>2, <3>3
  <2>5. Order(e) = o
      BY <2>1, <2>3, <2>4, SeqEqual
  <2> QED BY <2>5 DEF o
<1>9. Results(e) = Results(d)
  <2>1. Results(e) = {t[k].of : k \in {j \in 1 .. l + 1 : t[j].kind = "tool" /\ t[j].done}}
      BY <1>6 DEF Results, t
  <2>2. Results(d) = {s[k].of : k \in {j \in 1 .. l : s[j].kind = "tool" /\ s[j].done}}
      BY <1>6 DEF Results, s
  <2>3. {j \in 1 .. l + 1 : t[j].kind = "tool" /\ t[j].done} = {j \in 1 .. l : s[j].kind = "tool" /\ s[j].done}
    <3>1. ~t[l + 1].done
        BY <1>1, <1>5
    <3>2. ASSUME NEW j \in 1 .. l + 1, t[j].kind = "tool", t[j].done PROVE j \in 1 .. l /\ s[j].kind = "tool" /\ s[j].done
        BY <1>5, <1>6, <3>1, <3>2
    <3>3. ASSUME NEW j \in 1 .. l, s[j].kind = "tool", s[j].done PROVE j \in 1 .. l + 1 /\ t[j].kind = "tool" /\ t[j].done
        BY <1>5, <1>7, <3>3
    <3> QED BY <3>2, <3>3
  <2> QED BY <1>5, <2>1, <2>2, <2>3
<1>10. \A j : HasTool(d, j) => HasTool(e, j)
    BY <1>5, <1>6, <1>7 DEF HasTool, s, t
<1>11. kind = "tool" => HasTool(e, i)
    BY <1>1, <1>5, <1>6, <1>7 DEF HasTool, t
<1> QED BY <1>4, <1>8, <1>9, <1>10, <1>11 DEF e

\* Results for the calls in W.
LEMMA WithResultsIs ==
    ASSUME NEW d \in Drawing, NEW W, NEW e \in Drawing, e.shown = WithResults(d.shown, W)
    PROVE  /\ Order(e) = Order(d) /\ Results(e) = Results(d) \cup {i \in W : HasTool(d, i)}
           /\ \A j : HasTool(d, j) => HasTool(e, j)
<1> DEFINE s == d.shown
           t == e.shown
           l == Len(s)
<1>1. s \in Seq(Comp) /\ t \in Seq(Comp) /\ l \in Nat /\ DOMAIN s = 1 .. l /\ \A k \in 1 .. l : s[k] \in Comp
    BY DEF Drawing
<1>2. t = [k \in 1 .. l |-> IF s[k].kind = "tool" /\ s[k].of \in W THEN [s[k] EXCEPT !.done = TRUE] ELSE s[k]]
    BY <1>1 DEF WithResults
<1> HIDE DEF s, t, l
<1>3. ASSUME NEW k \in 1 .. l
      PROVE  /\ t[k].kind = s[k].kind /\ t[k].of = s[k].of
             /\ t[k].done <=> (s[k].done \/ (s[k].kind = "tool" /\ s[k].of \in W))
  <2>1. s[k] \in Comp
      BY <1>1
  <2>2. CASE s[k].kind = "tool" /\ s[k].of \in W
    <3>1. t[k] = [s[k] EXCEPT !.done = TRUE]
        BY <1>2, <2>2
    <3>2. t[k].kind = s[k].kind /\ t[k].of = s[k].of /\ t[k].done = TRUE
        BY <2>1, <3>1 DEF Comp
    <3> QED BY <2>2, <3>2
  <2>3. CASE ~(s[k].kind = "tool" /\ s[k].of \in W)
    <3>1. t[k] = s[k]
        BY <1>2, <2>3
    <3> QED BY <2>3, <3>1
  <2> QED BY <2>2, <2>3
<1>4. DOMAIN t = 1 .. l /\ Len(t) = l
    BY <1>1, <1>2
<1>5. Order(e) = Order(d)
    BY <1>1, <1>3, <1>4, SameOrder DEF s, t, l
<1>6. Results(e) = {t[k].of : k \in {j \in 1 .. l : t[j].kind = "tool" /\ t[j].done}}
    BY <1>4 DEF Results, t
<1>7. Results(d) = {s[k].of : k \in {j \in 1 .. l : s[j].kind = "tool" /\ s[j].done}}
    BY <1>1 DEF Results, s
<1>8. \A i : HasTool(d, i) <=> \E k \in 1 .. l : s[k].kind = "tool" /\ s[k].of = i
    BY <1>1 DEF HasTool, s
<1>9. \A i : i \in Results(e) <=> \E k \in 1 .. l : t[k].kind = "tool" /\ t[k].done /\ t[k].of = i
    BY <1>6
<1>10. \A i : i \in Results(d) <=> \E k \in 1 .. l : s[k].kind = "tool" /\ s[k].done /\ s[k].of = i
    BY <1>7
<1>11. \A i : i \in Results(e) <=> (i \in Results(d) \/ (i \in W /\ HasTool(d, i)))
    BY <1>3, <1>8, <1>9, <1>10
<1>12. \A j : HasTool(d, j) => HasTool(e, j)
    BY <1>3, <1>4, <1>8 DEF HasTool, t
<1> QED BY <1>5, <1>11, <1>12

\* What BeginStreaming, AddTool and OnToolResult do.
LEMMA BeginIs ==
    ASSUME NEW d \in Drawing, NEW i \in Nat
    PROVE  LET e == BeginStreaming(d, i)
           IN /\ e \in Drawing /\ e.streaming = i /\ e.waiting = {}
              /\ Order(e) = Append(Order(d), <<"message", i>>) /\ Results(e) = Results(d)
<1> DEFINE c == CloseStreaming(d)
           b == Drawn(c, "message", i)
           e == BeginStreaming(d, i)
<1>1. c \in Drawing /\ c.shown = d.shown /\ c.waiting = {}
    BY DEF CloseStreaming, Drawing
<1>2. Order(c) = Order(d) /\ Results(c) = Results(d)
    BY <1>1 DEF Order, Results
<1> HIDE DEF c
<1>3. b \in Drawing /\ b.waiting = {} /\ Order(b) = Append(Order(c), <<"message", i>>) /\ Results(b) = Results(c)
    BY <1>1, DrawnIs
<1> HIDE DEF b
<1>4. e = [b EXCEPT !.streaming = i]
    BY DEF BeginStreaming, b, c
<1>5. e \in Drawing /\ e.streaming = i /\ e.waiting = {} /\ e.shown = b.shown
    BY <1>3, <1>4 DEF Drawing
<1> HIDE DEF e
<1>6. Order(e) = Order(b) /\ Results(e) = Results(b)
    BY <1>5 DEF Order, Results
<1> QED BY <1>2, <1>3, <1>5, <1>6 DEF e

\* What AddTool does: a call is drawn and awaited.
LEMMA AddToolIs ==
    ASSUME NEW d \in Drawing, NEW i \in Nat
    PROVE  LET e == AddTool(d, i)
           IN /\ e \in Drawing /\ e.streaming = d.streaming /\ e.waiting = d.waiting \cup {i}
              /\ Order(e) = Append(Order(d), <<"tool", i>>) /\ Results(e) = Results(d) /\ HasTool(e, i)
<1> DEFINE b == Drawn(d, "tool", i)
           e == AddTool(d, i)
<1>1. /\ b \in Drawing /\ b.streaming = d.streaming /\ b.waiting = d.waiting
      /\ Order(b) = Append(Order(d), <<"tool", i>>) /\ Results(b) = Results(d) /\ HasTool(b, i)
    BY DrawnIs
<1> HIDE DEF b
<1>2. e = [b EXCEPT !.waiting = @ \cup {i}]
    BY DEF AddTool, b
<1> HIDE DEF e
<1>3. e \in Drawing /\ e.streaming = b.streaming /\ e.waiting = b.waiting \cup {i} /\ e.shown = b.shown
  <2> DEFINE w == b.waiting \cup {i}
  <2>1. b = [shown |-> b.shown, streaming |-> b.streaming, waiting |-> b.waiting] /\ b.shown \in Seq(Comp) /\ b.streaming \in Nat /\ b.waiting \in SUBSET Nat
      BY <1>1 DEF Drawing
  <2>2. w \in SUBSET Nat
      BY <2>1
  <2>3. e = [b EXCEPT !.waiting = w]
      BY <1>2
  <2> HIDE DEF w
  <2>4. e = [shown |-> b.shown, streaming |-> b.streaming, waiting |-> w]
      BY <2>1, <2>3
  <2>5. e.streaming = b.streaming /\ e.waiting = w /\ e.shown = b.shown
      BY <2>4
  <2>6. e \in Drawing
      BY <2>1, <2>2, <2>4 DEF Drawing
  <2> QED BY <2>5, <2>6 DEF w
<1>4. e.shown = b.shown /\ HasTool(b, i)
    BY <1>1, <1>3
<1>5. Order(e) = Order(b) /\ Results(e) = Results(b)
    BY <1>4 DEF Order, Results
<1>6. HasTool(e, i)
    BY <1>4 DEF HasTool
<1> QED BY <1>1, <1>3, <1>5, <1>6 DEF e

\* What OnToolResult does: a call that is awaited gets its result.
LEMMA ResultIs ==
    ASSUME NEW d \in Drawing, NEW i \in d.waiting, HasTool(d, i)
    PROVE  LET e == OnToolResult(d, i)
           IN /\ e \in Drawing /\ e.streaming = d.streaming /\ e.waiting = d.waiting \ {i}
              /\ Order(e) = Order(d) /\ Results(e) = Results(d) \cup {i} /\ HasTool(e, i)
<1> DEFINE w == WithResults(d.shown, {i})
           e == OnToolResult(d, i)
<1>1. w \in Seq(Comp)
  <2> DEFINE s == d.shown
             l == Len(s)
  <2>1. s \in Seq(Comp) /\ l \in Nat /\ DOMAIN s = 1 .. l /\ \A k \in 1 .. l : s[k] \in Comp
      BY DEF Drawing
  <2>2. w = [k \in 1 .. l |-> IF s[k].kind = "tool" /\ s[k].of \in {i} THEN [s[k] EXCEPT !.done = TRUE] ELSE s[k]]
      BY <2>1 DEF WithResults
  <2> HIDE DEF s, l
  <2>3. \A c \in Comp : [c EXCEPT !.done = TRUE] \in Comp
      BY DEF Comp
  <2> HIDE DEF w
  <2>4. w \in [1 .. l -> Comp]
      BY <2>1, <2>2, <2>3
  <2> QED BY <2>1, <2>4
<1>2. e = [d EXCEPT !.waiting = @ \ {i}, !.shown = w]
    BY DEF OnToolResult
<1> HIDE DEF e
<1>3. e.shown = w /\ e.streaming = d.streaming /\ e.waiting = d.waiting \ {i} /\ e \in Drawing
  <2> HIDE DEF w
  <2>1. d = [shown |-> d.shown, streaming |-> d.streaming, waiting |-> d.waiting] /\ d.streaming \in Nat /\ d.waiting \in SUBSET Nat
      BY DEF Drawing
  <2>2. e = [shown |-> w, streaming |-> d.streaming, waiting |-> d.waiting \ {i}]
      BY <1>2, <2>1
  <2>3. e.shown = w /\ e.streaming = d.streaming /\ e.waiting = d.waiting \ {i}
      BY <2>2
  <2> QED BY <1>1, <2>1, <2>2, <2>3 DEF Drawing
<1>4. /\ Order(e) = Order(d) /\ Results(e) = Results(d) \cup {j \in {i} : HasTool(d, j)}
      /\ \A j : HasTool(d, j) => HasTool(e, j)
    BY <1>3, WithResultsIs
<1> QED BY <1>3, <1>4 DEF e

\* What append draws for message i: which calls have a result, in what order it is drawn, and what waits.
AppendDone(d, i, m, e) ==
    /\ e \in Drawing
    /\ m.tool = "done" => Results(e) = Results(d) \cup {i}
    /\ m.tool # "done" => Results(e) = Results(d)

AppendOrder(d, i, m, e) ==
    /\ m.tool = "none" => Order(e) = Append(Order(d), <<"message", i>>)
    /\ m.tool # "none" => Order(e) = Append(Append(Order(d), <<"message", i>>), <<"tool", i>>) /\ HasTool(e, i)

AppendWaits(i, m, e) ==
    /\ (m.role = "assistant" /\ m.live /\ m.tool = "none") => e.streaming = i /\ e.waiting = {}
    /\ (m.role = "assistant" /\ m.live /\ m.tool = "called") => e.streaming = i /\ e.waiting = {i}
    /\ m.tool = "called" => i \in e.waiting

\* What append does with message i.
LEMMA AppendIs ==
    ASSUME NEW d \in Drawing, NEW i \in Nat, NEW m \in Message
    PROVE  /\ AppendDone(d, i, m, AppendMessage(d, i, m))
           /\ AppendOrder(d, i, m, AppendMessage(d, i, m))
           /\ AppendWaits(i, m, AppendMessage(d, i, m))
<1> DEFINE b == IF m.role = "assistant" /\ m.live THEN BeginStreaming(d, i) ELSE Drawn(d, "message", i)
           c == IF m.tool = "none" THEN b ELSE AddTool(b, i)
           e == AppendMessage(d, i, m)
           o == Append(Order(d), <<"message", i>>)
<1>1. /\ b \in Drawing /\ Order(b) = o /\ Results(b) = Results(d)
      /\ (m.role = "assistant" /\ m.live) => b.streaming = i /\ b.waiting = {}
    BY BeginIs, DrawnIs
<1>2. e = IF m.tool = "done" THEN OnToolResult(c, i) ELSE c
    BY DEF AppendMessage
<1> HIDE DEF b, e, o
<1>3. CASE m.tool = "none"
  <2>1. e = b /\ m.tool # "done" /\ m.tool # "called"
      BY <1>2, <1>3
  <2>2. AppendDone(d, i, m, e)
      BY <1>1, <2>1 DEF AppendDone
  <2>3. AppendOrder(d, i, m, e)
      BY <1>1, <1>3, <2>1 DEF AppendOrder, o
  <2>4. AppendWaits(i, m, e)
      BY <1>1, <2>1 DEF AppendWaits
  <2> QED BY <2>2, <2>3, <2>4 DEF e
<1>4. CASE m.tool # "none"
  <2>1. /\ c \in Drawing /\ c.streaming = b.streaming /\ c.waiting = b.waiting \cup {i}
        /\ Order(c) = Append(o, <<"tool", i>>) /\ Results(c) = Results(d) /\ HasTool(c, i)
    <3> DEFINE t == AddTool(b, i)
    <3>1. /\ t \in Drawing /\ t.streaming = b.streaming /\ t.waiting = b.waiting \cup {i}
          /\ Order(t) = Append(Order(b), <<"tool", i>>) /\ Results(t) = Results(b) /\ HasTool(t, i)
        BY <1>1, AddToolIs
    <3>2. c = t
        BY <1>4
    <3> HIDE DEF t, c
    <3> QED BY <1>1, <3>1, <3>2
  <2> HIDE DEF c
  <2>2. CASE m.tool = "done"
    <3> DEFINE u == OnToolResult(c, i)
    <3>1. i \in c.waiting
        BY <2>1
    <3>2. /\ u \in Drawing /\ Order(u) = Order(c) /\ Results(u) = Results(c) \cup {i} /\ HasTool(u, i)
        BY <2>1, <3>1, ResultIs
    <3>3. e = u
        BY <1>2, <2>2
    <3> HIDE DEF u
    <3>4. e \in Drawing /\ Order(e) = Append(o, <<"tool", i>>) /\ Results(e) = Results(d) \cup {i} /\ HasTool(e, i)
        BY <2>1, <3>2, <3>3
    <3>5. AppendDone(d, i, m, e)
        BY <2>2, <3>4 DEF AppendDone
    <3>6. AppendOrder(d, i, m, e)
        BY <1>4, <3>4 DEF AppendOrder, o
    <3>7. AppendWaits(i, m, e)
        BY <2>2 DEF AppendWaits
    <3> QED BY <3>5, <3>6, <3>7 DEF e
  <2>3. CASE m.tool # "done"
    <3>1. e = c
        BY <1>2, <2>3
    <3>2. AppendDone(d, i, m, e)
        BY <2>1, <2>3, <3>1 DEF AppendDone
    <3>3. AppendOrder(d, i, m, e)
        BY <1>4, <2>1, <3>1 DEF AppendOrder, o
    <3>4. i \in e.waiting /\ ((m.role = "assistant" /\ m.live) => e.streaming = i /\ e.waiting = {i})
        BY <1>1, <2>1, <3>1
    <3>5. AppendWaits(i, m, e)
        BY <1>4, <3>4 DEF AppendWaits
    <3> QED BY <3>2, <3>3, <3>5 DEF e
  <2> QED BY <2>2, <2>3
<1> QED BY <1>3, <1>4

\* r[n] is what is drawn of the first n messages.
Draws(r, msgs) == r[0] = Blank /\ \A n \in 1 .. Len(msgs) : r[n] = AppendMessage(r[n - 1], n, msgs[n])

\* A view in which nothing is drawn.
LEMMA BlankIs == Blank \in Drawing /\ Results(Blank) = {}
<1>1. <<>> \in Seq(Comp) /\ DOMAIN <<>> = {}
    OBVIOUS
<1> QED BY <1>1 DEF Blank, Drawing, Results

\* A rebuild is the last of the drawings that Draws speaks of.
LEMMA RebuiltDraws ==
    ASSUME NEW msgs \in Seq(Message)
    PROVE  \E r : Draws(r, msgs) /\ Rebuilt(msgs) = r[Len(msgs)]
<1> DEFINE l == Len(msgs)
           f == [x \in (1 .. l) \X Drawing |-> AppendMessage(x[2], x[1], msgs[x[1]])]
           Def(g) == [n \in 0 .. l |-> IF n = 0 THEN Blank ELSE AppendMessage(g[n - 1], n, msgs[n])]
           after == CHOOSE g : g = Def(g)
<1>1. l \in Nat /\ \A i \in 1 .. l : msgs[i] \in Message /\ i \in Nat
    OBVIOUS
<1>2. f \in [(1 .. l) \X Drawing -> Drawing]
    BY <1>1, AppendIs DEF AppendDone
<1>4. \A i \in 1 .. l : \A d \in Drawing : f[<<i, d>>] = AppendMessage(d, i, msgs[i])
    OBVIOUS
<1>8. Rebuilt(msgs) = after[l]
    BY DEF Rebuilt
<1> HIDE DEF l, f
<1>5. PICK r \in [0 .. l -> Drawing] : Iterates(r, Blank, f, l)
    BY <1>1, <1>2, BlankIs, IterationExists
<1>6. r = Def(r)
  <2>1. ASSUME NEW i \in 0 .. l PROVE r[i] = Def(r)[i]
    <3>1. CASE i = 0
        BY <1>5, <3>1 DEF Iterates
    <3>2. CASE i # 0
      <4>1. i \in 1 .. l /\ i - 1 \in 0 .. l
          BY <1>1, <3>2
      <4>2. r[i] = f[<<i, r[i - 1]>>] /\ r[i - 1] \in Drawing
          BY <1>5, <4>1 DEF Iterates
      <4>3. r[i] = AppendMessage(r[i - 1], i, msgs[i])
          BY <1>4, <4>1, <4>2
      <4> QED BY <3>2, <4>3
    <3> QED BY <3>1, <3>2
  <2> QED BY <2>1
<1>7. after = Def(after)
    BY <1>6
<1> HIDE DEF after
<1>9. Draws(after, msgs)
  <2>1. 0 \in 0 .. l /\ \A i \in 1 .. l : i \in 0 .. l /\ i # 0
      BY <1>1
  <2> QED BY <1>7, <2>1 DEF Draws, l
<1> QED BY <1>8, <1>9 DEF l

\* What is drawn of the same messages is the same, and shows a result for each call that has one.
Done(msgs) == {i \in DOMAIN msgs : msgs[i].tool = "done"}

\* What is drawn of the first n messages depends on these alone.
LEMMA DrawsOnce ==
    ASSUME NEW msgs \in Seq(Message), NEW r, Draws(r, msgs), NEW new \in Seq(Message), NEW q, Draws(q, new),
           NEW n \in Nat, n <= Len(msgs), n <= Len(new), \A i \in 1 .. n : msgs[i] = new[i]
    PROVE  r[n] = q[n] /\ r[n] \in Drawing /\ Results(r[n]) = {i \in 1 .. n : msgs[i].tool = "done"}
<1> DEFINE Good(k) == r[k] = q[k] /\ r[k] \in Drawing /\ Results(r[k]) = {i \in 1 .. k : msgs[i].tool = "done"}
           T == {k \in 0 .. n : Good(k)}
<1>1. 0 \in T
  <2>1. r[0] = Blank /\ q[0] = Blank
      BY DEF Draws
  <2>2. {i \in 1 .. 0 : msgs[i].tool = "done"} = {}
      OBVIOUS
  <2>3. Good(0)
      BY <2>1, <2>2, BlankIs
  <2> HIDE DEF Good
  <2> QED BY <2>3
<1>2. ASSUME NEW k \in 0 .. n - 1, k \in T PROVE k + 1 \in T
  <2> DEFINE x == k + 1
             d == r[k]
             e == r[x]
             m == msgs[x]
  <2>1. Good(k)
      BY <1>2
  <2>2. x \in 1 .. n /\ x - 1 = k /\ x \in 1 .. Len(msgs) /\ x \in 1 .. Len(new) /\ x \in Nat /\ x \in 0 .. n
      BY <1>2
  <2>3. e = AppendMessage(d, x, m) /\ q[x] = AppendMessage(q[k], x, new[x]) /\ m = new[x] /\ m \in Message
      BY <2>2 DEF Draws
  <2>4. d \in Drawing /\ q[k] = d /\ Results(d) = {i \in 1 .. k : msgs[i].tool = "done"}
      BY <2>1
  <2>5. {i \in 1 .. x : msgs[i].tool = "done"} = {i \in 1 .. k : msgs[i].tool = "done"} \cup (IF m.tool = "done" THEN {x} ELSE {})
    <3>1. (\A i \in 1 .. x : i \in 1 .. k \/ i = x) /\ (\A i \in 1 .. k : i \in 1 .. x) /\ x \in 1 .. x
        BY <2>2
    <3> QED BY <3>1
  <2> HIDE DEF d, e, m
  <2>6. e = q[x] /\ e \in Drawing /\ Results(e) = Results(d) \cup (IF m.tool = "done" THEN {x} ELSE {})
    <3>1. e = q[x]
        BY <2>3, <2>4
    <3> DEFINE a == AppendMessage(d, x, m)
    <3>3. x \in Nat /\ m \in Message /\ d \in Drawing
        BY <2>2, <2>3, <2>4
    <3>4. a \in Drawing /\ (m.tool = "done" => Results(a) = Results(d) \cup {x}) /\ (m.tool # "done" => Results(a) = Results(d))
      <4> HIDE DEF x
      <4> QED BY <3>3, AppendIs DEF AppendDone
    <3>5. e = a
        BY <2>3
    <3> HIDE DEF a
    <3>2. e \in Drawing /\ (m.tool = "done" => Results(e) = Results(d) \cup {x}) /\ (m.tool # "done" => Results(e) = Results(d))
        BY <3>4, <3>5
    <3> QED BY <3>1, <3>2
  <2>7. r[x] = q[x] /\ r[x] \in Drawing
      BY <2>6 DEF e
  <2>8. Results(r[x]) = {i \in 1 .. x : msgs[i].tool = "done"}
      BY <2>4, <2>5, <2>6 DEF e
  <2>9. Good(x)
      BY <2>7, <2>8
  <2> HIDE DEF Good
  <2> QED BY <2>2, <2>9
<1> HIDE DEF T
<1>3. n \in T
    BY <1>1, <1>2, CountTo
<1> QED BY <1>3 DEF T

\* A rebuild shows a result for each call that has one.
LEMMA RebuiltIs ==
    ASSUME NEW msgs \in Seq(Message)
    PROVE  Rebuilt(msgs) \in Drawing /\ Results(Rebuilt(msgs)) = Done(msgs)
<1>1. PICK r : Draws(r, msgs) /\ Rebuilt(msgs) = r[Len(msgs)]
    BY RebuiltDraws
<1>2. Len(msgs) \in Nat /\ DOMAIN msgs = 1 .. Len(msgs)
    OBVIOUS
<1>3. r[Len(msgs)] \in Drawing /\ Results(r[Len(msgs)]) = {i \in 1 .. Len(msgs) : msgs[i].tool = "done"}
    BY <1>1, <1>2, DrawsOnce
<1> QED BY <1>1, <1>2, <1>3 DEF Done

\* A rebuild, when one more message is there.
LEMMA RebuiltNext ==
    ASSUME NEW msgs \in Seq(Message), NEW m \in Message
    PROVE  Rebuilt(Append(msgs, m)) = AppendMessage(Rebuilt(msgs), Len(msgs) + 1, m)
<1> DEFINE l == Len(msgs)
           new == Append(msgs, m)
<1>1. l \in Nat /\ new \in Seq(Message) /\ Len(new) = l + 1 /\ new[l + 1] = m /\ \A i \in 1 .. l : new[i] = msgs[i]
    BY AppendProperties
<1> HIDE DEF new
<1>2. PICK r : Draws(r, msgs) /\ Rebuilt(msgs) = r[l]
    BY RebuiltDraws
<1>3. PICK q : Draws(q, new) /\ Rebuilt(new) = q[l + 1]
    BY <1>1, RebuiltDraws
<1>4. r[l] = q[l]
  <2>1. l <= Len(msgs) /\ l <= Len(new) /\ \A i \in 1 .. l : msgs[i] = new[i]
      BY <1>1
  <2> QED BY <1>1, <1>2, <1>3, <2>1, DrawsOnce
<1>5. l + 1 \in 1 .. Len(new) /\ (l + 1) - 1 = l
    BY <1>1
<1>6. q[l + 1] = AppendMessage(q[l], l + 1, new[l + 1])
    BY <1>3, <1>5 DEF Draws
<1> QED BY <1>1, <1>2, <1>3, <1>4, <1>6 DEF new

\* The newest message is drawn after the others, whatever it has become.
LEMMA RebuiltLast ==
    ASSUME NEW msgs \in Seq(Message), Len(msgs) > 0
    PROVE  \E d \in Drawing : /\ Rebuilt(msgs) = AppendMessage(d, Len(msgs), msgs[Len(msgs)])
                              /\ \A m \in Message : Rebuilt([msgs EXCEPT ![Len(msgs)] = m]) = AppendMessage(d, Len(msgs), m)
<1> DEFINE l == Len(msgs)
<1>1. l \in Nat \ {0} /\ l \in 1 .. l /\ l - 1 \in Nat
    OBVIOUS
<1>2. PICK r : Draws(r, msgs) /\ Rebuilt(msgs) = r[l]
    BY RebuiltDraws
<1>3. Rebuilt(msgs) = AppendMessage(r[l - 1], l, msgs[l])
    BY <1>1, <1>2 DEF Draws
<1>4. r[l - 1] \in Drawing
  <2>1. l - 1 <= l
      BY <1>1
  <2> QED BY <1>1, <1>2, <2>1, DrawsOnce
<1>5. ASSUME NEW m \in Message PROVE Rebuilt([msgs EXCEPT ![l] = m]) = AppendMessage(r[l - 1], l, m)
  <2> DEFINE new == [msgs EXCEPT ![l] = m]
  <2>1. new \in Seq(Message) /\ Len(new) = l /\ new[l] = m /\ \A i \in 1 .. l - 1 : new[i] = msgs[i]
      BY <1>1
  <2> HIDE DEF new
  <2>2. PICK q : Draws(q, new) /\ Rebuilt(new) = q[l]
      BY <2>1, RebuiltDraws
  <2>3. q[l] = AppendMessage(q[l - 1], l, new[l])
      BY <1>1, <2>1, <2>2 DEF Draws
  <2>4. r[l - 1] = q[l - 1]
    <3>1. l - 1 <= Len(msgs) /\ l - 1 <= Len(new) /\ \A i \in 1 .. l - 1 : msgs[i] = new[i]
        BY <1>1, <2>1
    <3> QED BY <1>1, <1>2, <2>1, <2>2, <3>1, DrawsOnce
  <2> QED BY <2>1, <2>2, <2>3, <2>4 DEF new
<1> QED BY <1>3, <1>4, <1>5

\* The messages whose call has come this far.
Marked(msgs, t) == {i \in DOMAIN msgs : msgs[i].tool = t}

\* The calls of a kind, when a message of another kind is appended.
LEMMA MarkedNext ==
    ASSUME NEW msgs \in Seq(Message), NEW m \in Message, NEW t, m.tool # t
    PROVE  Marked(Append(msgs, m), t) = Marked(msgs, t)
<1> DEFINE l == Len(msgs)
           new == Append(msgs, m)
<1>1. l \in Nat /\ new \in Seq(Message) /\ Len(new) = l + 1 /\ new[l + 1] = m /\ \A i \in 1 .. l : new[i] = msgs[i]
    BY AppendProperties
<1>2. DOMAIN msgs = 1 .. l /\ DOMAIN new = 1 .. l + 1
    BY <1>1
<1>3. (\A i \in 1 .. l + 1 : i \in 1 .. l \/ i = l + 1) /\ (\A i \in 1 .. l : i \in 1 .. l + 1)
    BY <1>1
<1> HIDE DEF new, l
<1>4. \A i : i \in Marked(new, t) <=> i \in 1 .. l + 1 /\ new[i].tool = t
    BY <1>2 DEF Marked
<1>5. \A i : i \in Marked(msgs, t) <=> i \in 1 .. l /\ msgs[i].tool = t
    BY <1>2 DEF Marked
<1>6. \A i : i \in Marked(new, t) <=> i \in Marked(msgs, t)
    BY <1>1, <1>3, <1>4, <1>5
<1> QED BY <1>6 DEF new

\* new is msgs with another newest message.
Rewrote(msgs, m, new) == Len(msgs) > 0 /\ new = [msgs EXCEPT ![Len(msgs)] = m]

\* The last message becomes m.
LEMMA RewroteIs ==
    ASSUME NEW msgs \in Seq(Message), NEW m \in Message, NEW new, Rewrote(msgs, m, new)
    PROVE  /\ new \in Seq(Message) /\ Len(new) = Len(msgs) /\ new[Len(msgs)] = m
           /\ Len(msgs) \in Nat \ {0} /\ Len(msgs) \in 1 .. Len(msgs) /\ msgs[Len(msgs)] \in Message
           /\ \A i \in 1 .. Len(msgs) : i # Len(msgs) => new[i] = msgs[i]
           /\ DOMAIN new = 1 .. Len(msgs) /\ DOMAIN msgs = 1 .. Len(msgs)
BY DEF Rewrote

\* The calls of a kind, when the last message becomes m.
LEMMA MarkedLast ==
    ASSUME NEW msgs \in Seq(Message), NEW m \in Message, NEW new, Rewrote(msgs, m, new), NEW t
    PROVE  \A i : i \in Marked(new, t) <=> (i \in Marked(msgs, t) /\ i # Len(msgs)) \/ (i = Len(msgs) /\ m.tool = t)
<1> DEFINE l == Len(msgs)
<1>1. l \in 1 .. l /\ new[l] = m /\ \A i \in 1 .. l : i # l => new[i] = msgs[i]
    BY RewroteIs
<1>2. \A i : i \in Marked(new, t) <=> i \in 1 .. l /\ new[i].tool = t
    BY RewroteIs DEF Marked
<1>3. \A i : i \in Marked(msgs, t) <=> i \in 1 .. l /\ msgs[i].tool = t
    BY RewroteIs DEF Marked
<1> HIDE DEF l
<1>4. ASSUME NEW i PROVE i \in Marked(new, t) <=> (i \in Marked(msgs, t) /\ i # l) \/ (i = l /\ m.tool = t)
    BY <1>1, <1>2, <1>3
<1> QED BY <1>4 DEF l

\* The order in which a rebuild draws the newest message.
LEMMA OrderNext ==
    ASSUME NEW msgs \in Seq(Message), NEW m \in Message, m.tool = "none"
    PROVE  Order(Rebuilt(Append(msgs, m))) = Append(Order(Rebuilt(msgs)), <<"message", Len(msgs) + 1>>)
<1> DEFINE d == Rebuilt(msgs)
           i == Len(msgs) + 1
           e == AppendMessage(d, i, m)
<1>1. d \in Drawing /\ i \in Nat /\ Rebuilt(Append(msgs, m)) = e
    BY RebuiltIs, RebuiltNext
<1> HIDE DEF d, i
<1>2. AppendOrder(d, i, m, e)
    BY <1>1, AppendIs
<1> HIDE DEF e
<1> QED BY <1>1, <1>2 DEF AppendOrder, d, i

\* The order of a rebuild, when the last message becomes m: it changes only if m calls a tool and the last did not.
LEMMA OrderLast ==
    ASSUME NEW msgs \in Seq(Message), NEW m \in Message, NEW new, Rewrote(msgs, m, new)
    PROVE  /\ (msgs[Len(msgs)].tool = "none" <=> m.tool = "none") => Order(Rebuilt(new)) = Order(Rebuilt(msgs))
           /\ (msgs[Len(msgs)].tool = "none" /\ m.tool # "none")
                 => Order(Rebuilt(new)) = Append(Order(Rebuilt(msgs)), <<"tool", Len(msgs)>>)
           /\ msgs[Len(msgs)].tool # "none" => HasTool(Rebuilt(msgs), Len(msgs))
<1> DEFINE l == Len(msgs)
           u == msgs[l]
<1>1. l \in Nat /\ u \in Message /\ Len(msgs) > 0 /\ new = [msgs EXCEPT ![l] = m]
    BY RewroteIs DEF Rewrote
<1>2. PICK d \in Drawing : /\ Rebuilt(msgs) = AppendMessage(d, l, u)
                           /\ \A w \in Message : Rebuilt([msgs EXCEPT ![l] = w]) = AppendMessage(d, l, w)
    BY <1>1, RebuiltLast
<1> DEFINE a == AppendMessage(d, l, u)
           b == AppendMessage(d, l, m)
           o == Append(Order(d), <<"message", l>>)
<1>3. Rebuilt(msgs) = a /\ Rebuilt(new) = b
    BY <1>1, <1>2
<1> HIDE DEF l, u
<1>4. AppendOrder(d, l, u, a)
    BY <1>1, AppendIs
<1>5. AppendOrder(d, l, m, b)
    BY <1>1, AppendIs
<1> HIDE DEF a, b
<1>6. /\ u.tool = "none" => Order(a) = o
      /\ u.tool # "none" => Order(a) = Append(o, <<"tool", l>>) /\ HasTool(a, l)
    BY <1>4 DEF AppendOrder
<1>7. /\ m.tool = "none" => Order(b) = o
      /\ m.tool # "none" => Order(b) = Append(o, <<"tool", l>>)
    BY <1>5 DEF AppendOrder
<1> HIDE DEF o
<1>8. /\ (u.tool = "none" <=> m.tool = "none") => Order(b) = Order(a)
      /\ (u.tool = "none" /\ m.tool # "none") => Order(b) = Append(Order(a), <<"tool", l>>)
      /\ u.tool # "none" => HasTool(a, l)
    BY <1>6, <1>7
<1> QED BY <1>3, <1>8 DEF l, u

-----------------------------------------------------------------------------
(* What is known of an agent session's messages in each phase of its run,  *)
(* and of what a pane that listens has drawn of them.                      *)

Phases == {"idle", "between", "writing", "calling", "executing", "ending", "gone"}

\* The last message in each phase of the run.
RunOK(msgs, phase) ==
    /\ msgs \in Seq(Message)
    /\ phase \in Phases
    /\ phase = "writing" => /\ Len(msgs) > 0
                            /\ msgs[Len(msgs)].role = "assistant" /\ msgs[Len(msgs)].live
                            /\ msgs[Len(msgs)].tool \in {"none", "called"}
    /\ phase \in {"calling", "executing"} => Len(msgs) > 0 /\ msgs[Len(msgs)].tool = "called"

\* A view has drawn what a rebuild draws; the calls that were cut short may show a result besides.
Matches(d, msgs) ==
    /\ d \in Drawing
    /\ Order(d) = Order(Rebuilt(msgs))
    /\ Results(d) \ Marked(msgs, "cut") = Marked(msgs, "done")

\* The components that the next events of the run are about are there to be found.
Awaits(d, msgs, phase) ==
    /\ phase = "writing" =>
          /\ d.streaming # 0
          /\ msgs[Len(msgs)].tool = "called" => d.waiting = {Len(msgs)}
          /\ msgs[Len(msgs)].tool = "none" => d.waiting = {}
    /\ phase \in {"calling", "executing"} => Len(msgs) \in d.waiting

InStep(d, msgs, phase) == Matches(d, msgs) /\ Awaits(d, msgs, phase)

\* A view that is drawn again is in step.
LEMMA RebuiltInStep ==
    ASSUME NEW msgs, NEW phase, RunOK(msgs, phase)
    PROVE  InStep(Rebuilt(msgs), msgs, phase)
<1> DEFINE d == Rebuilt(msgs)
           l == Len(msgs)
           m == msgs[l]
<1>1. msgs \in Seq(Message)
    BY DEF RunOK
<1>2. d \in Drawing /\ Results(d) = Marked(msgs, "done")
    BY <1>1, RebuiltIs DEF Done, Marked
<1>3. \A i : ~(i \in Marked(msgs, "done") /\ i \in Marked(msgs, "cut"))
    BY DEF Marked
<1>4. Matches(d, msgs)
  <2> HIDE DEF d
  <2>1. Results(d) \ Marked(msgs, "cut") = Marked(msgs, "done")
      BY <1>2, <1>3
  <2> QED BY <1>2, <2>1 DEF Matches, d
<1>5. Awaits(d, msgs, phase)
  <2>1. CASE Len(msgs) > 0
    <3>1. l \in Nat \ {0} /\ m \in Message
        BY <1>1, <2>1
    <3>2. PICK e \in Drawing : d = AppendMessage(e, l, m)
        BY <1>1, <2>1, RebuiltLast
    <3> HIDE DEF d, l, m
    <3>3. AppendWaits(l, m, d)
        BY <3>1, <3>2, AppendIs
    <3>4. ASSUME phase = "writing" PROVE d.streaming # 0 /\ (m.tool = "called" => d.waiting = {l}) /\ (m.tool = "none" => d.waiting = {})
      <4>1. m.role = "assistant" /\ m.live /\ m.tool \in {"none", "called"}
          BY <3>4 DEF RunOK, m, l
      <4> QED BY <3>1, <3>3, <4>1 DEF AppendWaits
    <3>5. ASSUME phase \in {"calling", "executing"} PROVE l \in d.waiting
      <4>1. m.tool = "called"
          BY <3>5 DEF RunOK, m, l
      <4> QED BY <3>3, <4>1 DEF AppendWaits
    <3> QED BY <3>4, <3>5 DEF Awaits, m, l
  <2>2. CASE ~(Len(msgs) > 0)
      BY <2>2 DEF RunOK, Awaits
  <2> QED BY <2>1, <2>2
<1> QED BY <1>4, <1>5 DEF InStep

\* The user's message is drawn.
LEMMA UserStep ==
    ASSUME NEW msgs, NEW phase, RunOK(msgs, phase), NEW d, InStep(d, msgs, phase), NEW new, new = Append(msgs, Plain("user"))
    PROVE  RunOK(new, "between") /\ InStep(OnMessageStart(d, Len(msgs) + 1, Plain("user")), new, "between")
<1> DEFINE m == Plain("user")
           i == Len(msgs) + 1
           e == OnMessageStart(d, i, m)
           a == AppendMessage(d, i, m)
<1>1. m \in Message /\ m.tool = "none" /\ m.role = "user"
    BY DEF Message, Plain
<1>2. e = a
    BY <1>1 DEF OnMessageStart
<1>3. msgs \in Seq(Message) /\ i \in Nat /\ d \in Drawing
    BY DEF RunOK, InStep, Matches
<1> HIDE DEF m, i, e
<1>4. AppendDone(d, i, m, a) /\ AppendOrder(d, i, m, a)
    BY <1>1, <1>3, AppendIs
<1> HIDE DEF a
<1>5. a \in Drawing /\ Results(a) = Results(d) /\ Order(a) = Append(Order(d), <<"message", i>>)
    BY <1>1, <1>4 DEF AppendDone, AppendOrder
<1>6. Order(Rebuilt(new)) = Append(Order(Rebuilt(msgs)), <<"message", i>>)
    BY <1>1, <1>3, OrderNext DEF m, i
<1>7. Marked(new, "cut") = Marked(msgs, "cut") /\ Marked(new, "done") = Marked(msgs, "done")
    BY <1>1, <1>3, MarkedNext DEF m
<1>8. Order(d) = Order(Rebuilt(msgs)) /\ Results(d) \ Marked(msgs, "cut") = Marked(msgs, "done")
    BY DEF InStep, Matches
<1>9. Matches(e, new)
    BY <1>2, <1>5, <1>6, <1>7, <1>8 DEF Matches
<1>10. InStep(e, new, "between")
    BY <1>9 DEF InStep, Awaits
<1>11. RunOK(new, "between")
    BY <1>1, <1>3 DEF RunOK, Phases, m
<1> QED BY <1>10, <1>11 DEF e, m, i

\* pi begins a message: an empty one is drawn, and written into.
LEMMA AssistantStep ==
    ASSUME NEW msgs, NEW phase, RunOK(msgs, phase), NEW d, InStep(d, msgs, phase), NEW new, new = Append(msgs, Plain("assistant"))
    PROVE  RunOK(new, "writing") /\ InStep(OnMessageStart(d, Len(msgs) + 1, Plain("assistant")), new, "writing")
<1> DEFINE m == Plain("assistant")
           i == Len(msgs) + 1
           e == OnMessageStart(d, i, m)
           a == BeginStreaming(d, i)
<1>1. m \in Message /\ m.tool = "none" /\ m.role = "assistant" /\ m.live
    BY DEF Message, Plain
<1>2. e = a
    BY <1>1 DEF OnMessageStart
<1>3. msgs \in Seq(Message) /\ i \in Nat \ {0} /\ d \in Drawing
    BY DEF RunOK, InStep, Matches
<1>4. Len(new) = i /\ new[i] = m /\ new \in Seq(Message)
    BY <1>1, <1>3, AppendProperties
<1> HIDE DEF m, i, e
<1>5. a \in Drawing /\ a.streaming = i /\ a.waiting = {} /\ Results(a) = Results(d) /\ Order(a) = Append(Order(d), <<"message", i>>)
    BY <1>3, BeginIs
<1> HIDE DEF a
<1>6. Order(Rebuilt(new)) = Append(Order(Rebuilt(msgs)), <<"message", i>>)
    BY <1>1, <1>3, OrderNext DEF m, i
<1>7. Marked(new, "cut") = Marked(msgs, "cut") /\ Marked(new, "done") = Marked(msgs, "done")
    BY <1>1, <1>3, MarkedNext DEF m
<1>8. Order(d) = Order(Rebuilt(msgs)) /\ Results(d) \ Marked(msgs, "cut") = Marked(msgs, "done")
    BY DEF InStep, Matches
<1>9. Matches(e, new)
    BY <1>2, <1>5, <1>6, <1>7, <1>8 DEF Matches
<1>10. Awaits(e, new, "writing")
    BY <1>1, <1>2, <1>3, <1>4, <1>5 DEF Awaits
<1>11. RunOK(new, "writing")
    BY <1>1, <1>3, <1>4 DEF RunOK, Phases
<1> QED BY <1>9, <1>10, <1>11 DEF InStep, e, m, i

\* The message that is written grows, or calls a tool.
LEMMA UpdateStep ==
    ASSUME NEW msgs, RunOK(msgs, "writing"), NEW d, InStep(d, msgs, "writing"),
           NEW m \in {msgs[Len(msgs)], [msgs[Len(msgs)] EXCEPT !.tool = "called"]}, NEW new, Rewrote(msgs, m, new)
    PROVE  RunOK(new, "writing") /\ InStep(OnMessageUpdate(d, Len(msgs), m), new, "writing")
<1> DEFINE l == Len(msgs)
           u == msgs[l]
           e == OnMessageUpdate(d, l, m)
<1>1. msgs \in Seq(Message) /\ l > 0 /\ u.role = "assistant" /\ u.live /\ u.tool \in {"none", "called"}
    BY DEF RunOK
<1>2. l \in Nat \ {0} /\ u \in Message
    BY <1>1
<1> HIDE DEF u
<1>3. m \in Message /\ m.role = "assistant" /\ m.live /\ m.tool \in {"none", "called"} /\ (u.tool = "called" => m.tool = "called")
    BY <1>1, <1>2 DEF Message, u
<1>4. new \in Seq(Message) /\ Len(new) = l /\ new[l] = m
    BY <1>1, <1>3, RewroteIs
<1>5. RunOK(new, "writing")
    BY <1>2, <1>3, <1>4 DEF RunOK, Phases
<1>6. /\ d \in Drawing /\ Order(d) = Order(Rebuilt(msgs)) /\ Results(d) \ Marked(msgs, "cut") = Marked(msgs, "done")
      /\ d.streaming # 0 /\ (u.tool = "called" => d.waiting = {l}) /\ (u.tool = "none" => d.waiting = {})
    BY DEF InStep, Matches, Awaits, u
<1>7. e = IF m.tool = "none" \/ l \in d.waiting THEN d ELSE AddTool(d, l)
    BY <1>6 DEF OnMessageUpdate
<1>8. Marked(new, "cut") = Marked(msgs, "cut") /\ Marked(new, "done") = Marked(msgs, "done")
  <2>1. ASSUME NEW t \in {"cut", "done"} PROVE Marked(new, t) = Marked(msgs, t)
    <3>1. m.tool # t /\ u.tool # t
        BY <1>1, <1>3
    <3>2. l \notin Marked(msgs, t)
        BY <3>1 DEF Marked, u
    <3>3. \A i : i \in Marked(new, t) <=> (i \in Marked(msgs, t) /\ i # l) \/ (i = l /\ m.tool = t)
        BY <1>1, <1>3, MarkedLast
    <3> QED BY <3>1, <3>2, <3>3
  <2> QED BY <2>1
<1>9. /\ (u.tool = "none" <=> m.tool = "none") => Order(Rebuilt(new)) = Order(Rebuilt(msgs))
      /\ (u.tool = "none" /\ m.tool # "none") => Order(Rebuilt(new)) = Append(Order(Rebuilt(msgs)), <<"tool", l>>)
    BY <1>1, <1>3, OrderLast DEF u
<1> HIDE DEF e, l
<1>10. CASE m.tool = u.tool
  <2>1. e = d
      BY <1>1, <1>6, <1>7, <1>10
  <2>2. Matches(e, new)
      BY <1>6, <1>8, <1>9, <1>10, <2>1 DEF Matches
  <2>3. Awaits(e, new, "writing")
      BY <1>4, <1>6, <1>10, <2>1 DEF Awaits
  <2> QED BY <1>5, <2>2, <2>3 DEF InStep, e, l
<1>11. CASE m.tool # u.tool
  <2> DEFINE a == AddTool(d, l)
  <2>1. m.tool = "called" /\ u.tool = "none"
      BY <1>1, <1>3, <1>11
  <2>2. d.waiting = {} /\ e = a
      BY <1>6, <1>7, <2>1
  <2>3. /\ a \in Drawing /\ a.streaming = d.streaming /\ a.waiting = d.waiting \cup {l}
        /\ Order(a) = Append(Order(d), <<"tool", l>>) /\ Results(a) = Results(d)
      BY <1>2, <1>6, AddToolIs
  <2> HIDE DEF a
  <2>4. Matches(e, new)
      BY <1>6, <1>8, <1>9, <2>1, <2>2, <2>3 DEF Matches
  <2>5. Awaits(e, new, "writing")
      BY <1>4, <1>6, <2>1, <2>2, <2>3 DEF Awaits
  <2> QED BY <1>5, <2>4, <2>5 DEF InStep, e, l
<1> QED BY <1>10, <1>11

\* A message that did not fail, or had no call: the calls that wait are as they were.
LEMMA CloseIs ==
    ASSUME NEW d \in Drawing, NEW w \in SUBSET Nat, NEW e, e = [d EXCEPT !.streaming = 0, !.waiting = w]
    PROVE  e \in Drawing /\ e.waiting = w /\ Order(e) = Order(d) /\ Results(e) = Results(d)
<1>1. d = [shown |-> d.shown, streaming |-> d.streaming, waiting |-> d.waiting] /\ d.shown \in Seq(Comp)
    BY DEF Drawing
<1>2. e = [shown |-> d.shown, streaming |-> 0, waiting |-> w]
    BY <1>1
<1>3. e \in Drawing /\ e.waiting = w /\ e.shown = d.shown
    BY <1>1, <1>2 DEF Drawing
<1> QED BY <1>3 DEF Order, Results

\* Results change no component's kind.
LEMMA WithResultsType ==
    ASSUME NEW s \in Seq(Comp), NEW W
    PROVE  WithResults(s, W) \in Seq(Comp)
<1> DEFINE l == Len(s)
           w == WithResults(s, W)
<1>1. l \in Nat /\ DOMAIN s = 1 .. l /\ \A k \in 1 .. l : s[k] \in Comp
    OBVIOUS
<1>2. w = [k \in 1 .. l |-> IF s[k].kind = "tool" /\ s[k].of \in W THEN [s[k] EXCEPT !.done = TRUE] ELSE s[k]]
    BY <1>1 DEF WithResults
<1>3. \A c \in Comp : [c EXCEPT !.done = TRUE] \in Comp
    BY DEF Comp
<1> HIDE DEF w, l
<1>4. w \in [1 .. l -> Comp]
    BY <1>1, <1>2, <1>3
<1>5. w \in Seq(Comp)
    BY <1>1, <1>4
<1> QED BY <1>5 DEF w

\* What the newest message becomes when it ends, failed or not, and the phase after it.
Ended(u, failed, m, phase) ==
    /\ m = [u EXCEPT !.live = FALSE, !.tool = IF u.tool = "called" /\ failed THEN "cut" ELSE @]
    /\ phase = IF u.tool = "called" /\ ~failed THEN "calling" ELSE "ending"

\* The message is done: it is written once more, and a call that was cut short gets a result.
LEMMA EndStep ==
    ASSUME NEW msgs, RunOK(msgs, "writing"), NEW d, InStep(d, msgs, "writing"), NEW failed \in BOOLEAN,
           NEW m, NEW phase, Ended(msgs[Len(msgs)], failed, m, phase), NEW new, Rewrote(msgs, m, new)
    PROVE  RunOK(new, phase) /\ InStep(OnMessageEnd(d, failed), new, phase)
<1> DEFINE l == Len(msgs)
           u == msgs[l]
           e == OnMessageEnd(d, failed)
<1>1. msgs \in Seq(Message) /\ l > 0 /\ u.tool \in {"none", "called"}
    BY DEF RunOK
<1>2. l \in Nat \ {0} /\ u \in Message
    BY <1>1
<1> HIDE DEF u
<1>3. /\ m \in Message
      /\ (u.tool = "called" /\ failed) => m.tool = "cut"
      /\ ~(u.tool = "called" /\ failed) => m.tool = u.tool
    BY <1>1, <1>2 DEF Message, Ended, u
<1>5. new \in Seq(Message) /\ Len(new) = l /\ new[l] = m
    BY <1>1, <1>3, RewroteIs
<1>6. /\ (u.tool = "called" /\ ~failed) => phase = "calling"
      /\ ~(u.tool = "called" /\ ~failed) => phase = "ending"
    BY DEF Ended, u
<1>7. RunOK(new, phase)
    BY <1>1, <1>3, <1>5, <1>6 DEF RunOK, Phases
<1>8. /\ d \in Drawing /\ Order(d) = Order(Rebuilt(msgs)) /\ Results(d) \ Marked(msgs, "cut") = Marked(msgs, "done")
      /\ (u.tool = "called" => d.waiting = {l}) /\ (u.tool = "none" => d.waiting = {})
    BY DEF InStep, Matches, Awaits, u
<1>9. Order(Rebuilt(new)) = Order(Rebuilt(msgs))
  <2>1. u.tool = "none" <=> m.tool = "none"
      BY <1>1, <1>3
  <2> QED BY <1>1, <1>3, <2>1, OrderLast DEF u
<1>10. /\ \A i : i \in Marked(new, "cut") <=> (i \in Marked(msgs, "cut") /\ i # l) \/ (i = l /\ m.tool = "cut")
       /\ \A i : i \in Marked(new, "done") <=> (i \in Marked(msgs, "done") /\ i # l) \/ (i = l /\ m.tool = "done")
  <2>1. \A i : i \in Marked(new, "cut") <=> (i \in Marked(msgs, "cut") /\ i # l) \/ (i = l /\ m.tool = "cut")
      BY <1>1, <1>3, MarkedLast
  <2>2. \A i : i \in Marked(new, "done") <=> (i \in Marked(msgs, "done") /\ i # l) \/ (i = l /\ m.tool = "done")
      BY <1>1, <1>3, MarkedLast
  <2> QED BY <2>1, <2>2
<1>11. l \notin Marked(msgs, "cut") /\ l \notin Marked(msgs, "done")
    BY <1>1 DEF Marked, u
<1> HIDE DEF l
<1>12. CASE ~failed
  <2>1. e = [d EXCEPT !.streaming = 0]
      BY <1>12 DEF OnMessageEnd
  <2>2. e = [d EXCEPT !.streaming = 0, !.waiting = d.waiting] /\ d.waiting \in SUBSET Nat
      BY <1>8, <2>1 DEF Drawing
  <2> HIDE DEF e
  <2>3. e \in Drawing /\ e.waiting = d.waiting /\ Order(e) = Order(d) /\ Results(e) = Results(d)
      BY <1>8, <2>2, CloseIs
  <2>4. Marked(new, "cut") = Marked(msgs, "cut") /\ Marked(new, "done") = Marked(msgs, "done")
      BY <1>1, <1>3, <1>10, <1>11, <1>12
  <2>5. Matches(e, new)
      BY <1>8, <1>9, <2>3, <2>4 DEF Matches
  <2>6. Awaits(e, new, phase)
      BY <1>5, <1>6, <1>8, <2>3 DEF Awaits
  <2> QED BY <1>7, <2>5, <2>6 DEF InStep, e
<1>13. CASE failed
  <2> DEFINE s == WithResults(d.shown, d.waiting)
  <2>1. e = [d EXCEPT !.streaming = 0, !.waiting = {}, !.shown = s]
      BY <1>13 DEF OnMessageEnd
  <2>2. d = [shown |-> d.shown, streaming |-> d.streaming, waiting |-> d.waiting] /\ d.shown \in Seq(Comp)
      BY <1>8 DEF Drawing
  <2>3. s \in Seq(Comp)
      BY <2>2, WithResultsType
  <2> HIDE DEF e, s
  <2>4. e = [shown |-> s, streaming |-> 0, waiting |-> {}]
      BY <2>1, <2>2
  <2>5. e \in Drawing /\ e.shown = s
      BY <2>3, <2>4 DEF Drawing
  <2>6. Order(e) = Order(d) /\ Results(e) = Results(d) \cup {i \in d.waiting : HasTool(d, i)}
      BY <1>8, <2>5, WithResultsIs DEF s
  <2>7. Results(e) \ Marked(new, "cut") = Marked(new, "done")
    <3>1. CASE u.tool = "called"
      <4>1. m.tool = "cut"
          BY <1>3, <1>13, <3>1
      <4>2. \A i : i \in Marked(new, "cut") <=> i \in Marked(msgs, "cut") \/ i = l
          BY <1>10, <1>11, <4>1
      <4>3. \A i : i \in Marked(new, "done") <=> i \in Marked(msgs, "done")
          BY <1>10, <1>11, <4>1
      <4>4. \A i : i \in Results(e) /\ i # l <=> i \in Results(d) /\ i # l
          BY <1>8, <2>6, <3>1
      <4>5. \A i : i \in Results(d) /\ i \notin Marked(msgs, "cut") <=> i \in Marked(msgs, "done")
          BY <1>8
      <4>6. \A i : i \in Results(e) /\ i \notin Marked(new, "cut") <=> i \in Marked(new, "done")
          BY <1>11, <4>2, <4>3, <4>4, <4>5
      <4> QED BY <4>6
    <3>2. CASE u.tool = "none"
      <4>1. m.tool = "none"
          BY <1>3, <3>2
      <4>2. Marked(new, "cut") = Marked(msgs, "cut") /\ Marked(new, "done") = Marked(msgs, "done")
          BY <1>10, <1>11, <4>1
      <4>3. Results(e) = Results(d)
          BY <1>8, <2>6, <3>2
      <4> QED BY <1>8, <4>2, <4>3
    <3> QED BY <1>1, <3>1, <3>2
  <2>8. Matches(e, new)
      BY <1>8, <1>9, <2>5, <2>6, <2>7 DEF Matches
  <2>9. Awaits(e, new, phase)
      BY <1>6, <1>13 DEF Awaits
  <2> QED BY <1>7, <2>8, <2>9 DEF InStep, e
<1> QED BY <1>12, <1>13

\* A call is executed: it is drawn already.
LEMMA ToolStartStep ==
    ASSUME NEW msgs, RunOK(msgs, "calling"), NEW d, InStep(d, msgs, "calling")
    PROVE  RunOK(msgs, "executing") /\ InStep(OnToolStart(d, Len(msgs)), msgs, "executing")
<1>1. OnToolStart(d, Len(msgs)) = d
    BY DEF OnToolStart, InStep, Awaits
<1>2. RunOK(msgs, "executing")
    BY DEF RunOK, Phases
<1>3. InStep(d, msgs, "executing")
    BY DEF InStep, Awaits
<1> QED BY <1>1, <1>2, <1>3

\* The result of a call comes in.
LEMMA ToolEndStep ==
    ASSUME NEW msgs, RunOK(msgs, "executing"), NEW d, InStep(d, msgs, "executing"),
           NEW new, new = [msgs EXCEPT ![Len(msgs)].tool = "done"]
    PROVE  RunOK(new, "between") /\ InStep(OnToolResult(d, Len(msgs)), new, "between")
<1> DEFINE l == Len(msgs)
           u == msgs[l]
           m == [u EXCEPT !.tool = "done"]
           e == OnToolResult(d, l)
<1>1. msgs \in Seq(Message) /\ l > 0 /\ u.tool = "called"
    BY DEF RunOK
<1>2. l \in Nat \ {0} /\ u \in Message
    BY <1>1
<1>3. new = [msgs EXCEPT ![l] = m]
    BY <1>1
<1> HIDE DEF u
<1>4. m \in Message /\ m.tool = "done"
    BY <1>2 DEF Message
<1> HIDE DEF m
<1>5. Rewrote(msgs, m, new)
    BY <1>1, <1>3 DEF Rewrote
<1>6. RunOK(new, "between")
    BY <1>1, <1>4, <1>5, RewroteIs DEF RunOK, Phases
<1>7. d \in Drawing /\ Order(d) = Order(Rebuilt(msgs)) /\ Results(d) \ Marked(msgs, "cut") = Marked(msgs, "done") /\ l \in d.waiting
    BY DEF InStep, Matches, Awaits
<1>8. Order(Rebuilt(new)) = Order(Rebuilt(msgs)) /\ HasTool(Rebuilt(msgs), l)
    BY <1>1, <1>4, <1>5, OrderLast DEF u
<1>9. HasTool(d, l)
  <2>1. Rebuilt(msgs) \in Drawing
      BY <1>1, RebuiltIs
  <2>2. Rebuilt(msgs).shown \in Seq(Comp) /\ d.shown \in Seq(Comp)
      BY <1>7, <2>1 DEF Drawing
  <2> QED BY <1>7, <1>8, <2>2, SameTools
<1>10. e \in Drawing /\ Order(e) = Order(d) /\ Results(e) = Results(d) \cup {l}
    BY <1>7, <1>9, ResultIs
<1>11. /\ \A i : i \in Marked(new, "cut") <=> (i \in Marked(msgs, "cut") /\ i # l) \/ (i = l /\ m.tool = "cut")
       /\ \A i : i \in Marked(new, "done") <=> (i \in Marked(msgs, "done") /\ i # l) \/ (i = l /\ m.tool = "done")
  <2>1. \A i : i \in Marked(new, "cut") <=> (i \in Marked(msgs, "cut") /\ i # l) \/ (i = l /\ m.tool = "cut")
      BY <1>1, <1>4, <1>5, MarkedLast
  <2>2. \A i : i \in Marked(new, "done") <=> (i \in Marked(msgs, "done") /\ i # l) \/ (i = l /\ m.tool = "done")
      BY <1>1, <1>4, <1>5, MarkedLast
  <2> QED BY <2>1, <2>2
<1>12. l \notin Marked(msgs, "cut")
    BY <1>1 DEF Marked, u
<1> HIDE DEF e, l
<1>13. Results(e) \ Marked(new, "cut") = Marked(new, "done")
  <2>1. \A i : i \in Marked(new, "cut") <=> i \in Marked(msgs, "cut")
      BY <1>4, <1>11, <1>12
  <2>2. \A i : i \in Marked(new, "done") <=> i \in Marked(msgs, "done") \/ i = l
      BY <1>4, <1>11
  <2>3. \A i : i \in Results(e) <=> i \in Results(d) \/ i = l
      BY <1>10
  <2>4. \A i : i \in Results(d) /\ i \notin Marked(msgs, "cut") <=> i \in Marked(msgs, "done")
      BY <1>7
  <2>5. \A i : i \in Results(e) /\ i \notin Marked(new, "cut") <=> i \in Marked(new, "done")
      BY <1>12, <2>1, <2>2, <2>3, <2>4
  <2> QED BY <2>5
<1>14. InStep(e, new, "between")
    BY <1>7, <1>8, <1>10, <1>13 DEF InStep, Matches, Awaits
<1> QED BY <1>6, <1>14 DEF e, l

\* The run is over.
LEMMA FinishStep ==
    ASSUME NEW msgs, NEW phase, RunOK(msgs, phase), NEW d, InStep(d, msgs, phase)
    PROVE  RunOK(msgs, "idle") /\ InStep(Finish(d), msgs, "idle")
<1>1. d \in Drawing /\ Order(d) = Order(Rebuilt(msgs)) /\ Results(d) \ Marked(msgs, "cut") = Marked(msgs, "done")
    BY DEF InStep, Matches
<1> DEFINE e == Finish(d)
<1>2. e = [d EXCEPT !.streaming = 0, !.waiting = {}] /\ {} \in SUBSET Nat
    BY DEF Finish, CloseStreaming
<1> HIDE DEF e
<1>3. e \in Drawing /\ Order(e) = Order(d) /\ Results(e) = Results(d)
    BY <1>1, <1>2, CloseIs
<1>4. InStep(e, msgs, "idle")
    BY <1>1, <1>3 DEF InStep, Matches, Awaits
<1>5. RunOK(msgs, "idle")
    BY DEF RunOK, Phases
<1> QED BY <1>4, <1>5 DEF e

-----------------------------------------------------------------------------
(* The inductive invariant, part by part.                                  *)

\* The supervisor's map, and the agent sessions in it.
Agent == [msgs : Seq(Message), phase : Phases, epoch : Nat, others : BOOLEAN]

AgentOK(o) == o \in Agent /\ RunOK(o.msgs, o.phase)

AgentsOK(objs) == objs \in Seq(Agent) /\ Len(objs) <= MaxObjects /\ \A x \in 1 .. Len(objs) : AgentOK(objs[x])

MapOK(slots, ids, parents, n) ==
    /\ slots \in [Sessions -> 0 .. n]
    /\ ids \in Seq(Sessions) /\ ToSet(ids) = {s \in Sessions : slots[s] # 0}
    /\ parents \in [Sessions -> Sessions \cup {Host, NoOne}]

HostOK == AgentsOK(objects) /\ MapOK(live, order, parent, Len(objects))

\* Object o has become e, and said nothing: stopped, or rewritten; mine: by a command of the pane.
GoesOn(o, e, mine) ==
    /\ o.epoch <= e.epoch
    /\ o.others => e.others
    /\ e.epoch = o.epoch => e.msgs = o.msgs /\ e.phase \in {o.phase, "gone"}
    /\ e.epoch # o.epoch => e.others \/ mine

Onwards(objs, mine) ==
    /\ AgentsOK(objs)
    /\ Len(objects) <= Len(objs)
    /\ \A x \in 1 .. Len(objects) : GoesOn(objects[x], objs[x], mine)

\* A session that stays as it is.
LEMMA StillGoesOn ==
    ASSUME NEW o, AgentOK(o), NEW mine
    PROVE  GoesOn(o, o, mine)
BY DEF GoesOn, AgentOK, Agent

\* All sessions stay as they are.
LEMMA StayOnwards ==
    ASSUME AgentsOK(objects), NEW mine
    PROVE  Onwards(objects, mine)
<1>1. Len(objects) \in Nat
    BY DEF AgentsOK
<1> QED BY <1>1, StillGoesOn DEF Onwards, AgentsOK

\* One agent session becomes another.
LEMMA OneOnwards ==
    ASSUME AgentsOK(objects), NEW x \in 1 .. Len(objects), NEW e, AgentOK(e), NEW mine, GoesOn(objects[x], e, mine)
    PROVE  Onwards([objects EXCEPT ![x] = e], mine)
<1> DEFINE objs == [objects EXCEPT ![x] = e]
           l == Len(objects)
<1>1. objects \in Seq(Agent) /\ l \in Nat /\ l <= MaxObjects /\ \A y \in 1 .. l : AgentOK(objects[y])
    BY DEF AgentsOK
<1>2. e \in Agent
    BY DEF AgentOK
<1>3. objs \in Seq(Agent) /\ Len(objs) = l /\ objs[x] = e /\ \A y \in 1 .. l : y # x => objs[y] = objects[y]
    BY <1>1, <1>2
<1> HIDE DEF objs
<1>4. \A y \in 1 .. l : GoesOn(objects[y], objs[y], mine) /\ AgentOK(objs[y])
  <2>1. ASSUME NEW y \in 1 .. l PROVE GoesOn(objects[y], objs[y], mine) /\ AgentOK(objs[y])
    <3>1. CASE y = x
        BY <1>3, <3>1
    <3>2. CASE y # x
        BY <1>1, <1>3, <3>2, StillGoesOn
    <3> QED BY <3>1, <3>2
  <2> QED BY <2>1
<1>5. AgentsOK(objs)
    BY <1>1, <1>3, <1>4 DEF AgentsOK
<1>6. Onwards(objs, mine)
    BY <1>1, <1>3, <1>4, <1>5 DEF Onwards
<1> QED BY <1>6 DEF objs

\* A session is stopped.
LEMMA StoppedOnwards ==
    ASSUME AgentsOK(objects), NEW x \in 1 .. Len(objects)
    PROVE  Onwards(Stopped(x), FALSE) /\ Len(Stopped(x)) = Len(objects)
<1> DEFINE o == objects[x]
           e == [o EXCEPT !.phase = "gone"]
<1>1. objects \in Seq(Agent) /\ AgentOK(o)
    BY DEF AgentsOK
<1>2. Stopped(x) = [objects EXCEPT ![x] = e] /\ Len(Stopped(x)) = Len(objects)
    BY <1>1 DEF Stopped
<1> HIDE DEF o
<1>3. o \in Agent /\ o.msgs \in Seq(Message)
    BY <1>1 DEF AgentOK, Agent
<1>4. e \in Agent /\ e.msgs = o.msgs /\ e.phase = "gone" /\ e.epoch = o.epoch /\ e.others = o.others /\ o.epoch \in Nat
    BY <1>3 DEF Agent, Phases
<1> HIDE DEF e
<1>5. AgentOK(e)
    BY <1>3, <1>4 DEF AgentOK, RunOK, Phases
<1>6. GoesOn(o, e, FALSE)
    BY <1>4 DEF GoesOn
<1> QED BY <1>2, <1>5, <1>6, OneOnwards DEF o

\* A new agent session is built.
LEMMA FreshOnwards ==
    ASSUME AgentsOK(objects), NEW objs, Onwards(objs, FALSE), Len(objs) = Len(objects), Len(objects) < MaxObjects
    PROVE  /\ Onwards(Append(objs, Fresh), FALSE) /\ Len(Append(objs, Fresh)) = Len(objects) + 1
           /\ Append(objs, Fresh)[Len(objects) + 1] = Fresh
<1> DEFINE new == Append(objs, Fresh)
           l == Len(objects)
<1>1. l \in Nat /\ objs \in Seq(Agent) /\ Len(objs) = l /\ \A y \in 1 .. l : AgentOK(objs[y]) /\ GoesOn(objects[y], objs[y], FALSE)
  <2>1. l \in Nat
      BY DEF AgentsOK
  <2>2. objs \in Seq(Agent) /\ \A y \in 1 .. Len(objs) : AgentOK(objs[y])
      BY DEF AgentsOK, Onwards
  <2>3. \A y \in 1 .. l : GoesOn(objects[y], objs[y], FALSE)
      BY DEF Onwards
  <2> QED BY <2>1, <2>2, <2>3
<1>2. AgentOK(Fresh) /\ Fresh \in Agent
  <2>1. <<>> \in Seq(Message)
      OBVIOUS
  <2>2. Fresh \in Agent
      BY <2>1 DEF Fresh, Agent, Phases
  <2>3. Fresh.msgs = <<>> /\ Fresh.phase = "idle"
      BY DEF Fresh
  <2>4. RunOK(Fresh.msgs, Fresh.phase)
      BY <2>1, <2>3 DEF RunOK, Phases
  <2> QED BY <2>2, <2>4 DEF AgentOK
<1>3. new \in Seq(Agent) /\ Len(new) = l + 1 /\ new[l + 1] = Fresh /\ \A y \in 1 .. l : new[y] = objs[y]
    BY <1>1, <1>2, AppendProperties
<1> HIDE DEF new
<1>4. \A y \in 1 .. l + 1 : AgentOK(new[y])
  <2>1. ASSUME NEW y \in 1 .. l + 1 PROVE AgentOK(new[y])
    <3>1. CASE y = l + 1
        BY <1>2, <1>3, <3>1
    <3>2. CASE y \in 1 .. l
        BY <1>1, <1>3, <3>2
    <3> QED BY <1>1, <3>1, <3>2
  <2> QED BY <2>1
<1>5. \A y \in 1 .. l : GoesOn(objects[y], new[y], FALSE)
    BY <1>1, <1>3
<1>6. l + 1 <= MaxObjects
  <2>1. MaxObjects \in Nat
      BY ViewsAssumption
  <2> QED BY <1>1, <2>1
<1>7. AgentsOK(new)
    BY <1>3, <1>4, <1>6 DEF AgentsOK
<1>8. Onwards(new, FALSE)
  <2>1. Len(objects) <= Len(new)
      BY <1>1, <1>3
  <2>2. \A y \in 1 .. Len(objects) : GoesOn(objects[y], new[y], FALSE)
      BY <1>5
  <2> QED BY <1>7, <2>1, <2>2 DEF Onwards
<1> QED BY <1>3, <1>8 DEF new

\* More agent sessions, and the map as it was.
LEMMA MapStays ==
    ASSUME NEW slots, NEW ids, NEW parents, NEW n \in Nat, MapOK(slots, ids, parents, n), NEW m \in Nat, n <= m
    PROVE  MapOK(slots, ids, parents, m)
BY DEF MapOK

\* A session leaves the map, and its agent session is stopped.
LEMMA LeavesOn ==
    ASSUME HostOK, NEW s \in Sessions, live[s] # 0, Leaves(s)
    PROVE  HostOK' /\ Onwards(objects', FALSE)
<1> DEFINE l == Len(objects)
<1>1. /\ live \in [Sessions -> 0 .. l] /\ order \in Seq(Sessions) /\ ToSet(order) = {t \in Sessions : live[t] # 0}
      /\ parent \in [Sessions -> Sessions \cup {Host, NoOne}] /\ AgentsOK(objects) /\ l \in Nat
    BY DEF HostOK, MapOK, AgentsOK
<1>2. live' = [live EXCEPT ![s] = 0] /\ order' = Among(order, Sessions \ {s}) /\ parent' = [parent EXCEPT ![s] = NoOne] /\ objects' = Stopped(live[s])
    BY DEF Leaves
<1>3. live[s] \in 1 .. l
    BY <1>1
<1>4. Onwards(objects', FALSE) /\ Len(objects') = l
    BY <1>1, <1>2, <1>3, StoppedOnwards
<1>5. order' \in Seq(Sessions) /\ ToSet(order') = ToSet(order) \cap (Sessions \ {s})
    BY <1>1, <1>2, AmongIs
<1> HIDE DEF l
<1>6. live' \in [Sessions -> 0 .. l] /\ ToSet(order') = {t \in Sessions : live'[t] # 0}
  <2>1. live' \in [Sessions -> 0 .. l] /\ live'[s] = 0 /\ \A t \in Sessions : t # s => live'[t] = live[t]
      BY <1>1, <1>2
  <2>2. \A t : t \in ToSet(order') <=> t \in Sessions /\ live'[t] # 0
      BY <1>1, <1>5, <2>1
  <2> QED BY <2>1, <2>2
<1>7. parent' \in [Sessions -> Sessions \cup {Host, NoOne}]
    BY <1>1, <1>2
<1>8. MapOK(live', order', parent', l)
    BY <1>5, <1>6, <1>7 DEF MapOK
<1>9. AgentsOK(objects')
    BY <1>4 DEF Onwards
<1> QED BY <1>4, <1>8, <1>9 DEF HostOK

\* A session enters the map, with a new agent session.
LEMMA EntersOn ==
    ASSUME HostOK, NEW s \in Sessions, NEW p \in Sessions \cup {Host, NoOne}, Enters(s, p)
    PROVE  /\ HostOK' /\ Onwards(objects', FALSE)
           /\ Len(objects') = Len(objects) + 1 /\ Len(objects) \in Nat /\ objects'[Len(objects) + 1] = Fresh
<1> DEFINE l == Len(objects)
<1>1. /\ live \in [Sessions -> 0 .. l] /\ order \in Seq(Sessions) /\ ToSet(order) = {t \in Sessions : live[t] # 0}
      /\ parent \in [Sessions -> Sessions \cup {Host, NoOne}] /\ AgentsOK(objects) /\ l \in Nat
    BY DEF HostOK, MapOK, AgentsOK
<1>2. /\ live' = [live EXCEPT ![s] = l + 1] /\ order' = Append(order, s) /\ parent' = [parent EXCEPT ![s] = p]
      /\ objects' = Append(objects, Fresh) /\ l < MaxObjects
    BY DEF Enters
<1>3. Onwards(objects, FALSE)
    BY <1>1, StayOnwards
<1>4. Onwards(objects', FALSE) /\ Len(objects') = l + 1 /\ objects'[l + 1] = Fresh
    BY <1>1, <1>2, <1>3, FreshOnwards
<1>5. order' \in Seq(Sessions) /\ ToSet(order') = ToSet(order) \cup {s}
    BY <1>1, <1>2, SetOfAppend
<1> HIDE DEF l
<1>6. live' \in [Sessions -> 0 .. l + 1] /\ ToSet(order') = {t \in Sessions : live'[t] # 0}
  <2>1. live' \in [Sessions -> 0 .. l + 1] /\ live'[s] = l + 1 /\ l + 1 # 0 /\ \A t \in Sessions : t # s => live'[t] = live[t]
      BY <1>1, <1>2
  <2>2. \A t : t \in ToSet(order') <=> t \in Sessions /\ live'[t] # 0
      BY <1>1, <1>5, <2>1
  <2> QED BY <2>1, <2>2
<1>7. parent' \in [Sessions -> Sessions \cup {Host, NoOne}]
    BY <1>1, <1>2
<1>8. MapOK(live', order', parent', l + 1)
    BY <1>5, <1>6, <1>7 DEF MapOK
<1>9. AgentsOK(objects')
    BY <1>4 DEF Onwards
<1> QED BY <1>1, <1>4, <1>8, <1>9 DEF HostOK, l

\* The slot of a session gets another agent session.
LEMMA ReplacedOn ==
    ASSUME HostOK, NEW s \in Sessions, live[s] # 0, Replaced(s)
    PROVE  HostOK' /\ Onwards(objects', FALSE)
<1> DEFINE l == Len(objects)
           objs == Stopped(live[s])
<1>1. /\ live \in [Sessions -> 0 .. l] /\ order \in Seq(Sessions) /\ ToSet(order) = {t \in Sessions : live[t] # 0}
      /\ parent \in [Sessions -> Sessions \cup {Host, NoOne}] /\ AgentsOK(objects) /\ l \in Nat
    BY DEF HostOK, MapOK, AgentsOK
<1>2. live' = [live EXCEPT ![s] = l + 1] /\ objects' = Append(objs, Fresh) /\ l < MaxObjects /\ order' = order /\ parent' = parent
    BY DEF Replaced
<1>3. live[s] \in 1 .. l
    BY <1>1
<1>4. Onwards(objs, FALSE) /\ Len(objs) = l
    BY <1>1, <1>3, StoppedOnwards
<1> HIDE DEF objs
<1>5. Onwards(objects', FALSE) /\ Len(objects') = l + 1
    BY <1>1, <1>2, <1>4, FreshOnwards
<1> HIDE DEF l
<1>6. live' \in [Sessions -> 0 .. l + 1] /\ ToSet(order') = {t \in Sessions : live'[t] # 0}
  <2>1. live' \in [Sessions -> 0 .. l + 1] /\ live'[s] = l + 1 /\ l + 1 # 0 /\ \A t \in Sessions : t # s => live'[t] = live[t]
      BY <1>1, <1>2
  <2>2. \A t : t \in ToSet(order') <=> t \in Sessions /\ live'[t] # 0
      BY <1>1, <1>2, <1>3, <2>1
  <2> QED BY <2>1, <2>2
<1>7. MapOK(live', order', parent', l + 1)
    BY <1>1, <1>2, <1>6 DEF MapOK
<1>8. AgentsOK(objects')
    BY <1>5 DEF Onwards
<1> QED BY <1>5, <1>7, <1>8 DEF HostOK

\* An agent session is stopped, and stays in its slot.
LEMMA StoppedOn ==
    ASSUME HostOK, NEW s \in Sessions, live[s] # 0, objects' = Stopped(live[s]), UNCHANGED host
    PROVE  HostOK' /\ Onwards(objects', FALSE)
<1>1. live[s] \in 1 .. Len(objects) /\ AgentsOK(objects)
    BY DEF HostOK, MapOK
<1>2. Onwards(objects', FALSE) /\ Len(objects') = Len(objects)
    BY <1>1, StoppedOnwards
<1>3. AgentsOK(objects')
    BY <1>2 DEF Onwards
<1>4. MapOK(live', order', parent', Len(objects'))
    BY <1>2 DEF HostOK, host
<1> QED BY <1>2, <1>3, <1>4 DEF HostOK

\* The messages of a session are rewritten.
LEMMA RewrittenOn ==
    ASSUME HostOK, NEW s \in Sessions, live[s] # 0, NEW foreign \in BOOLEAN, Rewritten(s, foreign)
    PROVE  HostOK' /\ Onwards(objects', ~foreign)
<1> DEFINE o == objects[live[s]]
<1>1. live[s] \in 1 .. Len(objects) /\ AgentsOK(objects) /\ AgentOK(o)
    BY DEF HostOK, MapOK, AgentsOK
<1>2. PICK msgs \in {<<Plain("user")>>, SubSeq(o.msgs, 1, Len(o.msgs) - 1)} :
          objects' = [objects EXCEPT ![live[s]] = Rewriting(o, msgs, foreign)]
    BY DEF Rewritten
<1>3. o.phase = "idle" /\ o.msgs # <<>> /\ UNCHANGED host
    BY DEF Rewritten
<1> DEFINE e == Rewriting(o, msgs, foreign)
<1>4. objects' = [objects EXCEPT ![live[s]] = e]
    BY <1>2
<1> HIDE DEF o
<1>5. o \in Agent /\ o.msgs \in Seq(Message) /\ o.epoch \in Nat
    BY <1>1 DEF AgentOK, Agent
<1>6. msgs \in Seq(Message)
  <2>1. Plain("user") \in Message
      BY DEF Plain, Message
  <2>2. <<Plain("user")>> \in Seq(Message)
      BY <2>1
  <2>3. SubSeq(o.msgs, 1, Len(o.msgs) - 1) \in Seq(Message)
    <3>1. Len(o.msgs) \in Nat /\ Len(o.msgs) # 0
        BY <1>3, <1>5, EmptySeq
    <3>2. \A i \in 1 .. Len(o.msgs) - 1 : i \in 1 .. Len(o.msgs)
        BY <3>1
    <3> QED BY <1>5, <3>1, <3>2, SubSeqProperties
  <2> QED BY <1>2, <2>2, <2>3
<1> DEFINE v == o.others \/ foreign
<1>7. v \in BOOLEAN /\ (o.others => v) /\ (foreign => v)
    OBVIOUS
<1>14. e \in Agent /\ e.msgs = msgs /\ e.phase = o.phase /\ e.epoch = o.epoch + 1 /\ e.others = v
  <2>1. e = [o EXCEPT !.msgs = msgs, !.epoch = @ + 1, !.others = v]
      BY Zenon DEF Rewriting
  <2> HIDE DEF v, e
  <2>2. o = [msgs |-> o.msgs, phase |-> o.phase, epoch |-> o.epoch, others |-> o.others]
      BY <1>5 DEF Agent
  <2>3. e = [msgs |-> msgs, phase |-> o.phase, epoch |-> o.epoch + 1, others |-> v]
      BY <2>1, <2>2
  <2>4. e.msgs = msgs /\ e.phase = o.phase /\ e.epoch = o.epoch + 1 /\ e.others = v
      BY <2>3
  <2>5. o.phase \in Phases /\ o.epoch + 1 \in Nat
      BY <1>5 DEF Agent
  <2>6. e \in Agent
      BY <1>6, <1>7, <2>3, <2>5 DEF Agent
  <2> QED BY <2>4, <2>6
<1> HIDE DEF v
<1> HIDE DEF e
<1>8. AgentOK(e)
    BY <1>3, <1>6, <1>14 DEF AgentOK, RunOK, Phases
<1>9. GoesOn(o, e, ~foreign)
  <2>1. o.epoch <= e.epoch /\ e.epoch # o.epoch
      BY <1>5, <1>14
  <2>2. (o.others => e.others) /\ (e.others \/ ~foreign)
      BY <1>7, <1>14
  <2> QED BY <2>1, <2>2 DEF GoesOn
<1>10. Onwards(objects', ~foreign)
    BY <1>1, <1>4, <1>8, <1>9, OneOnwards DEF o
<1>11. AgentsOK(objects')
    BY <1>10 DEF Onwards
<1>12. Len(objects') = Len(objects)
    BY <1>1, <1>4 DEF AgentsOK
<1>13. MapOK(live', order', parent', Len(objects'))
    BY <1>3, <1>12 DEF HostOK, host
<1> QED BY <1>10, <1>11, <1>13 DEF HostOK

\* The list, and what it asks and kills.
ListShape(l) ==
    /\ l = [rows |-> l.rows, shown |-> l.shown, cursor |-> l.cursor, asked |-> l.asked]
    /\ l.rows \in Rows /\ l.shown \in Rows

ListOK ==
    /\ flow \in {"closed", "list", "asking", "directory", "pane"}
    /\ killing \subseteq Sessions
    /\ ListShape(list)
    /\ CursorIsShown
    /\ flow = "asking" => list.asked \in Sessions

\* The commands in flight.
Command == [pane : Nat, id : Sessions, kind : Kinds, before : Nat, result : {"sent", "refused", "taken"}]

\* A command of pane n that may have rewritten its session has yet to return to it.
Owes(cs, n) == \E c \in cs : c.pane = n /\ c.kind # "plain" /\ c.result = "taken"

\* What a pane has drawn of session o, whose messages it drew after they were rewritten so many times.
Follows(drawn, epoch, o, owed) ==
    /\ epoch <= o.epoch
    /\ epoch = o.epoch => InStep(drawn, o.msgs, o.phase)
    /\ epoch # o.epoch => o.others \/ owed

\* The pane, what it listens to, and what it has drawn.
PaneShape(p) ==
    /\ p = [n |-> p.n, id |-> p.id, first |-> p.first, shows |-> p.shows, drawn |-> p.drawn,
            epoch |-> p.epoch, mode |-> p.mode, notice |-> p.notice, notices |-> p.notices]
    /\ p.n \in Nat /\ p.epoch \in Nat /\ p.mode \in {"transcript", "choosing"}
    /\ p.notice \in Nat /\ p.notices \in Nat /\ p.notice <= p.notices

PaneIn(p, n) == p.id \in Sessions /\ p.first \in 1 .. n /\ p.shows \in 1 .. n

PaneTyped == PaneShape(pane) /\ (flow = "pane" => PaneIn(pane, Len(objects)))

\* The open pane follows the session it shows.
PaneFollows == flow = "pane" => Follows(pane.drawn, pane.epoch, objects[pane.shows], Owes(running, pane.n))

\* The inductive invariant.
ViewsInd == HostOK /\ ListOK /\ running \subseteq Command /\ PaneTyped /\ PaneListens /\ PaneFollows

\* The pane shows what it showed.
SamePane(p, q) ==
    q.n = p.n /\ q.id = p.id /\ q.first = p.first /\ q.shows = p.shows /\ q.drawn = p.drawn /\ q.epoch = p.epoch

\* The pane goes on following a session that said nothing, or is rewritten by others or by its own command.
LEMMA FollowsOn ==
    ASSUME NEW o, AgentOK(o), NEW e, AgentOK(e), NEW mine, GoesOn(o, e, mine), NEW drawn, NEW epoch \in Nat,
           NEW owed, Follows(drawn, epoch, o, owed), NEW owes, owed \/ mine => owes
    PROVE  Follows(drawn, epoch, e, owes)
<1>1. o.epoch \in Nat /\ e.epoch \in Nat
    BY DEF AgentOK, Agent
<1>2. o.epoch <= e.epoch /\ epoch <= o.epoch
    BY DEF GoesOn, Follows
<1>3. epoch <= e.epoch
    BY <1>1, <1>2
<1>4. ASSUME epoch = e.epoch PROVE InStep(drawn, e.msgs, e.phase)
  <2>1. epoch = o.epoch /\ e.epoch = o.epoch
      BY <1>1, <1>2, <1>4
  <2>2. InStep(drawn, o.msgs, o.phase) /\ e.msgs = o.msgs /\ e.phase \in {o.phase, "gone"}
      BY <2>1 DEF Follows, GoesOn
  <2>3. CASE e.phase = o.phase
      BY <2>2, <2>3
  <2>4. CASE e.phase = "gone"
      BY <2>2, <2>4 DEF InStep, Awaits
  <2> QED BY <2>2, <2>3, <2>4
<1>5. ASSUME epoch # e.epoch PROVE e.others \/ owes
  <2>1. CASE epoch = o.epoch
    <3>1. e.epoch # o.epoch
        BY <1>5, <2>1
    <3> QED BY <3>1 DEF GoesOn
  <2>2. CASE epoch # o.epoch
      BY <2>2 DEF GoesOn, Follows
  <2> QED BY <2>1, <2>2
<1> QED BY <1>3, <1>4, <1>5 DEF Follows

\* A step in which the pane shows what it showed, and its session says nothing.
LEMMA PaneKept ==
    ASSUME HostOK, PaneTyped, PaneFollows, NEW mine, Onwards(objects', mine), flow' = "pane" => flow = "pane",
           SamePane(pane, pane'), PaneShape(pane'), (Owes(running, pane.n) \/ mine) => Owes(running', pane.n)
    PROVE  PaneTyped' /\ PaneFollows'
<1>1. CASE flow' = "pane"
  <2> DEFINE o == objects[pane.shows]
             e == objects'[pane.shows]
  <2>1. PaneIn(pane, Len(objects)) /\ Follows(pane.drawn, pane.epoch, o, Owes(running, pane.n)) /\ pane.epoch \in Nat
      BY <1>1 DEF PaneTyped, PaneFollows, PaneShape
  <2>2. Len(objects) \in Nat /\ Len(objects') \in Nat /\ Len(objects) <= Len(objects') /\ AgentsOK(objects')
      BY DEF HostOK, Onwards, AgentsOK
  <2>3. pane.shows \in 1 .. Len(objects) /\ pane.shows \in 1 .. Len(objects')
      BY <2>1, <2>2 DEF PaneIn
  <2>4. AgentOK(o) /\ AgentOK(e) /\ GoesOn(o, e, mine)
      BY <2>2, <2>3 DEF HostOK, AgentsOK, Onwards
  <2> HIDE DEF o, e
  <2>5. Follows(pane.drawn, pane.epoch, e, Owes(running', pane.n))
      BY <2>1, <2>4, FollowsOn
  <2>6. PaneIn(pane', Len(objects'))
      BY <2>1, <2>2 DEF PaneIn, SamePane
  <2>7. pane'.drawn = pane.drawn /\ pane'.epoch = pane.epoch /\ pane'.shows = pane.shows /\ pane'.n = pane.n
      BY DEF SamePane
  <2>8. Follows(pane'.drawn, pane'.epoch, objects'[pane'.shows], Owes(running', pane'.n))
      BY <2>5, <2>7 DEF e
  <2> QED BY <2>6, <2>8 DEF PaneTyped, PaneFollows
<1>2. CASE flow' # "pane"
    BY <1>2 DEF PaneTyped, PaneFollows
<1> QED BY <1>1, <1>2

\* A session says something, and what a pane that listens draws of it is in step.
LEMMA SaysOn ==
    ASSUME HostOK, PaneTyped, PaneListens, PaneFollows, NEW o \in 1 .. Len(objects), NEW msgs, NEW phase, NEW drawn,
           Says(o, msgs, phase, drawn), RunOK(msgs, phase),
           InStep(pane.drawn, objects[o].msgs, objects[o].phase) => InStep(drawn, msgs, phase)
    PROVE  HostOK' /\ PaneTyped' /\ PaneListens' /\ PaneFollows'
<1> DEFINE a == objects[o]
           e == [a EXCEPT !.msgs = msgs, !.phase = phase]
<1>1. AgentsOK(objects) /\ AgentOK(a) /\ MapOK(live, order, parent, Len(objects)) /\ Len(objects) \in Nat
    BY DEF HostOK, AgentsOK
<1>2. /\ objects' = [objects EXCEPT ![o] = e]
      /\ pane' = IF flow = "pane" /\ <<pane.n, o>> \in subs THEN [pane EXCEPT !.drawn = drawn] ELSE pane
      /\ flow' = flow /\ running' = running /\ live' = live /\ order' = order /\ parent' = parent
      /\ subs' = subs /\ bus' = bus
    BY DEF Says, people, host, hearing
<1> HIDE DEF a
<1>3. a \in Agent
    BY <1>1 DEF AgentOK
<1>4. e \in Agent /\ e.msgs = msgs /\ e.phase = phase /\ e.epoch = a.epoch /\ e.others = a.others
    BY <1>3 DEF Agent, RunOK
<1> HIDE DEF e
<1>5. AgentOK(e)
    BY <1>4 DEF AgentOK
<1>6. objects \in Seq(Agent) /\ \A y \in 1 .. Len(objects) : AgentOK(objects[y])
    BY <1>1 DEF AgentsOK
<1>7. objects' \in Seq(Agent) /\ Len(objects') = Len(objects) /\ objects'[o] = e /\ \A y \in 1 .. Len(objects) : y # o => objects'[y] = objects[y]
    BY <1>2, <1>4, <1>6
<1>8. AgentsOK(objects')
  <2>1. ASSUME NEW y \in 1 .. Len(objects') PROVE AgentOK(objects'[y])
    <3>1. CASE y = o
        BY <1>5, <1>7, <3>1
    <3>2. CASE y # o
        BY <1>6, <1>7, <3>2
    <3> QED BY <3>1, <3>2
  <2>2. Len(objects') <= MaxObjects
      BY <1>1, <1>7 DEF AgentsOK
  <2> QED BY <1>7, <2>1, <2>2 DEF AgentsOK
<1>9. HostOK'
    BY <1>1, <1>2, <1>7, <1>8 DEF HostOK
<1>10. CASE flow = "pane" /\ pane.shows = o
  <2>1. subs = {<<pane.n, o>>}
      BY <1>10 DEF PaneListens
  <2>2. pane' = [pane EXCEPT !.drawn = drawn]
      BY <1>2, <1>10, <2>1
  <2>3. SamePane([pane EXCEPT !.drawn = pane.drawn], pane) /\ PaneShape(pane) /\ PaneIn(pane, Len(objects))
      BY <1>10 DEF PaneTyped, PaneShape, SamePane
  <2>4. PaneShape(pane') /\ pane'.n = pane.n /\ pane'.id = pane.id /\ pane'.first = pane.first /\ pane'.shows = o
        /\ pane'.drawn = drawn /\ pane'.epoch = pane.epoch
      BY <1>10, <2>2, <2>3 DEF PaneShape
  <2>5. PaneTyped'
      BY <1>7, <2>3, <2>4, <1>10 DEF PaneTyped, PaneIn
  <2>6. Follows(pane.drawn, pane.epoch, a, Owes(running, pane.n))
      BY <1>10 DEF PaneFollows, a
  <2>7. Follows(drawn, pane.epoch, e, Owes(running, pane.n))
      BY <1>4, <2>6 DEF Follows, a
  <2>8. Follows(pane'.drawn, pane'.epoch, objects'[pane'.shows], Owes(running', pane'.n))
      BY <1>2, <1>7, <2>4, <2>7
  <2>9. PaneListens'
      BY <1>2, <1>10, <2>4 DEF PaneListens
  <2> QED BY <1>9, <2>5, <2>8, <2>9 DEF PaneFollows
<1>11. CASE flow = "pane" /\ pane.shows # o
  <2>1. subs = {<<pane.n, pane.shows>>}
      BY <1>11 DEF PaneListens
  <2>2. pane' = pane
      BY <1>2, <1>11, <2>1
  <2>3. PaneTyped'
      BY <1>2, <1>7, <2>2 DEF PaneTyped
  <2>4. objects'[pane.shows] = objects[pane.shows]
      BY <1>7, <1>11 DEF PaneTyped, PaneIn
  <2>5. PaneFollows'
      BY <1>2, <1>11, <2>2, <2>4 DEF PaneFollows
  <2>6. PaneListens'
      BY <1>2, <2>2 DEF PaneListens
  <2> QED BY <1>9, <2>3, <2>5, <2>6
<1>12. CASE flow # "pane"
  <2>1. pane' = pane /\ flow' # "pane"
      BY <1>2, <1>12
  <2>2. PaneListens'
      BY <1>2, <2>1 DEF PaneListens
  <2>3. PaneTyped' /\ PaneFollows'
      BY <2>1 DEF PaneTyped, PaneFollows
  <2> QED BY <1>9, <2>2, <2>3
<1> QED BY <1>10, <1>11, <1>12

-----------------------------------------------------------------------------
(* A run speaks.                                                           *)

\* A step of a run whose drawing follows from what was drawn.
LEMMA RunStep ==
    ASSUME ViewsInd, NEW o \in 1 .. Len(objects), NEW msgs, NEW phase, NEW drawn,
           Says(o, msgs, phase, drawn), RunOK(msgs, phase),
           InStep(pane.drawn, objects[o].msgs, objects[o].phase) => InStep(drawn, msgs, phase)
    PROVE  ViewsInd'
<1>1. HostOK' /\ PaneTyped' /\ PaneListens' /\ PaneFollows'
    BY SaysOn DEF ViewsInd
<1>2. UNCHANGED <<flow, list, killing, running>>
    BY DEF Says, people
<1>3. ListOK' /\ running' \subseteq Command
    BY <1>2 DEF ViewsInd, ListOK, CursorIsShown
<1> QED BY <1>1, <1>3 DEF ViewsInd

\* What is known of a session in the map, and of a view that is drawn of it now.
LEMMA AgentRuns ==
    ASSUME ViewsInd, NEW o \in 1 .. Len(objects)
    PROVE  /\ RunOK(objects[o].msgs, objects[o].phase) /\ InStep(Rebuilt(objects[o].msgs), objects[o].msgs, objects[o].phase)
           /\ objects[o].msgs \in Seq(Message)
<1>1. RunOK(objects[o].msgs, objects[o].phase)
    BY DEF ViewsInd, HostOK, AgentsOK, AgentOK
<1> QED BY <1>1, RebuiltInStep DEF RunOK

\* The steps of a run, one by one.
LEMMA UserKeeps ==
    ASSUME ViewsInd, NEW o \in 1 .. Len(objects), UserSays(o)
    PROVE  ViewsInd'
<1> DEFINE msgs == objects[o].msgs
           phase == objects[o].phase
           new == Append(msgs, Plain("user"))
           After(d) == OnMessageStart(d, Len(msgs) + 1, Plain("user"))
<1>1. RunOK(msgs, phase) /\ InStep(Rebuilt(msgs), msgs, phase)
    BY AgentRuns
<1>2. Says(o, new, "between", After(pane.drawn))
    BY DEF UserSays, Newest
<1> HIDE DEF msgs, phase, new
<1>3. ASSUME NEW d, InStep(d, msgs, phase) PROVE RunOK(new, "between") /\ InStep(After(d), new, "between")
    BY <1>1, <1>3, UserStep DEF new
<1> HIDE DEF After
<1>4. RunOK(new, "between")
    BY <1>1, <1>3
<1>5. InStep(pane.drawn, msgs, phase) => InStep(After(pane.drawn), new, "between")
    BY <1>3
<1> QED BY <1>2, <1>4, <1>5, RunStep DEF msgs, phase

LEMMA AssistantStartKeeps ==
    ASSUME ViewsInd, NEW o \in 1 .. Len(objects), AssistantStarts(o)
    PROVE  ViewsInd'
<1> DEFINE msgs == objects[o].msgs
           phase == objects[o].phase
           new == Append(msgs, Plain("assistant"))
           After(d) == OnMessageStart(d, Len(msgs) + 1, Plain("assistant"))
<1>1. RunOK(msgs, phase) /\ InStep(Rebuilt(msgs), msgs, phase)
    BY AgentRuns
<1>2. Says(o, new, "writing", After(pane.drawn))
    BY DEF AssistantStarts, Newest
<1> HIDE DEF msgs, phase, new
<1>3. ASSUME NEW d, InStep(d, msgs, phase) PROVE RunOK(new, "writing") /\ InStep(After(d), new, "writing")
    BY <1>1, <1>3, AssistantStep DEF new
<1> HIDE DEF After
<1>4. RunOK(new, "writing")
    BY <1>1, <1>3
<1>5. InStep(pane.drawn, msgs, phase) => InStep(After(pane.drawn), new, "writing")
    BY <1>3
<1> QED BY <1>2, <1>4, <1>5, RunStep DEF msgs, phase

LEMMA UpdateKeeps ==
    ASSUME ViewsInd, NEW o \in 1 .. Len(objects), AssistantUpdates(o)
    PROVE  ViewsInd'
<1> DEFINE msgs == objects[o].msgs
           phase == objects[o].phase
           l == Len(msgs)
<1>1. RunOK(msgs, phase) /\ InStep(Rebuilt(msgs), msgs, phase) /\ phase = "writing"
    BY AgentRuns DEF AssistantUpdates
<1>2. PICK m \in {msgs[l], [msgs[l] EXCEPT !.tool = "called"]} :
          Says(o, [msgs EXCEPT ![l] = m], "writing", OnMessageUpdate(pane.drawn, l, m))
    BY DEF AssistantUpdates, Newest
<1> DEFINE new == [msgs EXCEPT ![l] = m]
           After(d) == OnMessageUpdate(d, l, m)
<1>3. Rewrote(msgs, m, new)
    BY <1>1 DEF Rewrote, RunOK
<1>4. Says(o, new, "writing", After(pane.drawn))
    BY <1>2
<1> HIDE DEF phase, new, msgs
<1>5. ASSUME NEW d, InStep(d, msgs, "writing") PROVE RunOK(new, "writing") /\ InStep(After(d), new, "writing")
    BY <1>1, <1>2, <1>3, <1>5, UpdateStep
<1> HIDE DEF After, l
<1>6. RunOK(new, "writing")
    BY <1>1, <1>5
<1>7. InStep(pane.drawn, msgs, phase) => InStep(After(pane.drawn), new, "writing")
    BY <1>1, <1>5
<1> QED BY <1>4, <1>6, <1>7, RunStep DEF msgs, phase

LEMMA EndKeeps ==
    ASSUME ViewsInd, NEW o \in 1 .. Len(objects), NEW failed \in BOOLEAN, AssistantEnds(o, failed)
    PROVE  ViewsInd'
<1> DEFINE msgs == objects[o].msgs
           phase == objects[o].phase
           l == Len(msgs)
           u == msgs[l]
           m == [u EXCEPT !.live = FALSE, !.tool = IF u.tool = "called" /\ failed THEN "cut" ELSE @]
           new == [msgs EXCEPT ![l] = m]
           next == IF u.tool = "called" /\ ~failed THEN "calling" ELSE "ending"
           After(d) == OnMessageEnd(d, failed)
<1>1. RunOK(msgs, phase) /\ InStep(Rebuilt(msgs), msgs, phase) /\ phase = "writing"
    BY AgentRuns DEF AssistantEnds
<1>2. Says(o, new, next, After(pane.drawn))
    BY DEF AssistantEnds, Newest
<1>3. Rewrote(msgs, m, new)
    BY <1>1 DEF Rewrote, RunOK
<1>4. Ended(msgs[l], failed, m, next)
    BY DEF Ended
<1> HIDE DEF phase, new, msgs, next, m
<1>5. ASSUME NEW d, InStep(d, msgs, "writing") PROVE RunOK(new, next) /\ InStep(After(d), new, next)
    BY <1>1, <1>3, <1>4, <1>5, EndStep
<1> HIDE DEF After, l
<1>6. RunOK(new, next)
    BY <1>1, <1>5
<1>7. InStep(pane.drawn, msgs, phase) => InStep(After(pane.drawn), new, next)
    BY <1>1, <1>5
<1> QED BY <1>2, <1>6, <1>7, RunStep DEF msgs, phase

LEMMA ToolStartKeeps ==
    ASSUME ViewsInd, NEW o \in 1 .. Len(objects), ToolStarts(o)
    PROVE  ViewsInd'
<1> DEFINE msgs == objects[o].msgs
           phase == objects[o].phase
           After(d) == OnToolStart(d, Len(msgs))
<1>1. RunOK(msgs, phase) /\ InStep(Rebuilt(msgs), msgs, phase) /\ phase = "calling"
    BY AgentRuns DEF ToolStarts
<1>2. Says(o, msgs, "executing", After(pane.drawn))
    BY DEF ToolStarts, Newest
<1> HIDE DEF msgs, phase
<1>3. ASSUME NEW d, InStep(d, msgs, "calling") PROVE RunOK(msgs, "executing") /\ InStep(After(d), msgs, "executing")
    BY <1>1, <1>3, ToolStartStep
<1> HIDE DEF After
<1>4. RunOK(msgs, "executing")
    BY <1>1, <1>3
<1>5. InStep(pane.drawn, msgs, phase) => InStep(After(pane.drawn), msgs, "executing")
    BY <1>1, <1>3
<1> QED BY <1>2, <1>4, <1>5, RunStep DEF msgs, phase

LEMMA ToolEndKeeps ==
    ASSUME ViewsInd, NEW o \in 1 .. Len(objects), ToolEnds(o)
    PROVE  ViewsInd'
<1> DEFINE msgs == objects[o].msgs
           phase == objects[o].phase
           new == [msgs EXCEPT ![Len(msgs)].tool = "done"]
           After(d) == OnToolResult(d, Len(msgs))
<1>1. RunOK(msgs, phase) /\ InStep(Rebuilt(msgs), msgs, phase) /\ phase = "executing"
    BY AgentRuns DEF ToolEnds
<1>2. Says(o, new, "between", After(pane.drawn))
    BY DEF ToolEnds, Newest
<1> HIDE DEF msgs, phase, new
<1>3. ASSUME NEW d, InStep(d, msgs, "executing") PROVE RunOK(new, "between") /\ InStep(After(d), new, "between")
    BY <1>1, <1>3, ToolEndStep DEF new
<1> HIDE DEF After
<1>4. RunOK(new, "between")
    BY <1>1, <1>3
<1>5. InStep(pane.drawn, msgs, phase) => InStep(After(pane.drawn), new, "between")
    BY <1>1, <1>3
<1> QED BY <1>2, <1>4, <1>5, RunStep DEF msgs, phase

LEMMA AgentEndKeeps ==
    ASSUME ViewsInd, NEW o \in 1 .. Len(objects), AgentEnds(o)
    PROVE  ViewsInd'
<1> DEFINE msgs == objects[o].msgs
           phase == objects[o].phase
<1>1. RunOK(msgs, phase) /\ InStep(Rebuilt(msgs), msgs, phase)
    BY AgentRuns
<1>2. Says(o, msgs, "idle", Finish(pane.drawn))
    BY DEF AgentEnds
<1> HIDE DEF msgs, phase
<1>3. ASSUME NEW d, InStep(d, msgs, phase) PROVE RunOK(msgs, "idle") /\ InStep(Finish(d), msgs, "idle")
    BY <1>1, <1>3, FinishStep
<1>4. RunOK(msgs, "idle")
    BY <1>1, <1>3
<1>5. InStep(pane.drawn, msgs, phase) => InStep(Finish(pane.drawn), msgs, "idle")
    BY <1>3
<1> QED BY <1>2, <1>4, <1>5, RunStep DEF msgs, phase

-----------------------------------------------------------------------------
(* The list.                                                               *)

\* The list that opens has its tree, and the cursor on the host's row.
LEMMA ListOpensOn ==
    ASSUME HostOK, ListOpens
    PROVE  /\ flow' = "list" /\ IsTree(list'.rows) /\ ListShape(list') /\ list'.shown = list'.rows
           /\ list'.shown # <<>> /\ list'.cursor \in ToSet(list'.shown)
<1> DEFINE first == <<Host>> \o order
           rows == OrderedByParent(first)
<1>1. order \in Seq(Sessions)
    BY DEF HostOK, MapOK
<1>2. first \in Rows /\ ToSet(first) = {Host} \cup ToSet(order)
  <2> DEFINE l == Len(order)
  <2>1. l \in Nat /\ DOMAIN order = 1 .. l /\ \A i \in 1 .. l : order[i] \in Sessions
      BY <1>1
  <2>2. first \in Seq(Sessions \cup {Host}) /\ Len(first) = l + 1 /\ first[1] = Host /\ \A i \in 1 .. l : first[i + 1] = order[i]
    <3>1. <<Host>> \in Seq(Sessions \cup {Host}) /\ Len(<<Host>>) = 1 /\ order \in Seq(Sessions \cup {Host})
        BY <1>1
    <3>2. first \in Seq(Sessions \cup {Host}) /\ Len(first) = 1 + l
        BY <3>1, ConcatProperties
    <3>3. \A i \in 1 .. 1 + l : first[i] = IF i <= 1 THEN <<Host>>[i] ELSE order[i - 1]
        BY <3>1, ConcatProperties
    <3>4. 1 \in 1 .. 1 + l /\ \A i \in 1 .. l : i + 1 \in 1 .. 1 + l /\ ~(i + 1 <= 1) /\ (i + 1) - 1 = i
        BY <2>1
    <3> HIDE DEF first
    <3> QED BY <2>1, <3>2, <3>3, <3>4
  <2> HIDE DEF first
  <2>3. DOMAIN first = 1 .. l + 1
      BY <2>2
  <2>4. 1 \in 1 .. l + 1 /\ (\A i \in 1 .. l + 1 : i = 1 \/ (i - 1 \in 1 .. l /\ (i - 1) + 1 = i)) /\ (\A i \in 1 .. l : i + 1 \in 1 .. l + 1)
      BY <2>1
  <2> HIDE DEF l
  <2>5. ToSet(first) = {first[i] : i \in 1 .. l + 1} /\ ToSet(order) = {order[i] : i \in 1 .. l}
      BY <2>1, <2>3 DEF ToSet
  <2>6. \A x : x \in ToSet(first) <=> x = Host \/ x \in ToSet(order)
    <3>1. ASSUME NEW x \in ToSet(first) PROVE x = Host \/ x \in ToSet(order)
      <4>1. PICK i \in 1 .. l + 1 : x = first[i]
          BY <2>5, <3>1
      <4>2. CASE i = 1
          BY <2>2, <4>1, <4>2
      <4>3. CASE i - 1 \in 1 .. l /\ (i - 1) + 1 = i
          BY <2>2, <2>5, <4>1, <4>3
      <4> QED BY <2>4, <4>2, <4>3
    <3>2. Host \in ToSet(first)
        BY <2>2, <2>4, <2>5
    <3>3. ASSUME NEW x \in ToSet(order) PROVE x \in ToSet(first)
        BY <2>2, <2>4, <2>5, <3>3
    <3> QED BY <3>1, <3>2, <3>3
  <2> QED BY <2>2, <2>6 DEF Rows
<1> HIDE DEF first
<1>3. /\ rows \in Rows /\ ToSet(rows) = ToSet(first) /\ IsInjective(rows)
      /\ \A c, p \in DOMAIN rows :
            (rows[c] # Host /\ parent[rows[c]] = rows[p] /\ rows[c] \in Rooted(rows)) => (p < c /\ \A k \in p + 1 .. c : Under(rows[k], rows[p]))
    BY <1>2, OrderIs
<1>4. flow' = "list" /\ list' = [rows |-> rows, shown |-> rows, cursor |-> Host, asked |-> NoOne]
    BY DEF ListOpens, first
<1> HIDE DEF rows
<1>5. list'.rows = rows /\ list'.shown = rows /\ list'.cursor = Host
    BY <1>4
<1>6. IsTree(rows)
    BY <1>2, <1>3 DEF IsTree
<1>7. ListShape(list')
    BY <1>3, <1>4 DEF ListShape
<1>8. Host \in ToSet(rows) /\ rows # <<>>
  <2>1. Host \in ToSet(rows)
      BY <1>2, <1>3
  <2>2. ToSet(<<>>) = {}
      BY DEF ToSet
  <2> QED BY <2>1, <2>2
<1> QED BY <1>4, <1>5, <1>6, <1>7, <1>8

\* No list.
LEMMA NoListShape == ListShape(NoList)
<1>1. <<>> \in Rows
    BY DEF Rows
<1> QED BY <1>1 DEF NoList, ListShape

\* A step of the list alone.
LEMMA ListStep ==
    ASSUME ViewsInd, flow # "pane", flow' # "pane", UNCHANGED <<host, objects, pane, hearing, running>>, ListOK'
    PROVE  ViewsInd'
<1>1. HostOK'
    BY DEF ViewsInd, HostOK, host
<1>2. PaneTyped' /\ PaneListens' /\ PaneFollows' /\ running' \subseteq Command
    BY DEF ViewsInd, PaneTyped, PaneListens, PaneFollows, hearing
<1> QED BY <1>1, <1>2 DEF ViewsInd

\* A list that opens, closes, or is closed.
LEMMA OpensListOK ==
    ASSUME ViewsInd, ListOpens, UNCHANGED killing
    PROVE  ListOK'
<1>1. HostOK /\ killing \subseteq Sessions
    BY DEF ViewsInd, ListOK
<1>2. /\ flow' = "list" /\ ListShape(list') /\ list'.shown = list'.rows /\ list'.shown # <<>> /\ list'.cursor \in ToSet(list'.shown)
    BY <1>1, ListOpensOn
<1> QED BY <1>1, <1>2 DEF ListOK, CursorIsShown

\* While no list is shown.
LEMMA ClosedListOK ==
    ASSUME ViewsInd, flow' \in {"closed", "directory", "pane"}, list' = NoList \/ list' = list, UNCHANGED killing
    PROVE  ListOK'
<1>1. ListShape(list') /\ killing' \subseteq Sessions
    BY NoListShape DEF ViewsInd, ListOK
<1> QED BY <1>1 DEF ListOK, CursorIsShown

\* The list stays.
LEMMA SameListOK ==
    ASSUME ViewsInd, UNCHANGED <<flow, list>>, killing' \subseteq Sessions
    PROVE  ListOK'
BY DEF ViewsInd, ListOK, CursorIsShown

\* The first row, if there is one.
LEMMA FirstOfIs ==
    ASSUME NEW rows \in Rows
    PROVE  /\ rows = <<>> => FirstOf(rows) = NoOne
           /\ rows # <<>> => FirstOf(rows) \in ToSet(rows)
<1>1. ASSUME rows # <<>> PROVE FirstOf(rows) \in ToSet(rows)
  <2>1. Len(rows) \in Nat /\ Len(rows) # 0
      BY <1>1, EmptySeq DEF Rows
  <2>2. FirstOf(rows) = rows[1] /\ 1 \in DOMAIN rows
      BY <1>1, <2>1 DEF FirstOf, Rows
  <2> QED BY <2>2 DEF ToSet
<1> QED BY <1>1 DEF FirstOf

\* No rows hold nothing.
LEMMA EmptyRows ==
    ASSUME NEW rows \in Rows
    PROVE  rows = <<>> <=> ToSet(rows) = {}
<1>1. ToSet(<<>>) = {}
    BY DEF ToSet
<1>2. rows # <<>> => ToSet(rows) # {}
    BY FirstOfIs
<1> QED BY <1>1, <1>2

\* What is known of a list that is open.
LEMMA ListIs ==
    ASSUME ViewsInd, flow \in {"list", "asking"}
    PROVE  /\ ListShape(list) /\ ToSet(list.shown) \subseteq ToSet(list.rows) /\ killing \subseteq Sessions
           /\ list.shown = <<>> => list.cursor = NoOne
           /\ list.shown # <<>> => list.cursor \in ToSet(list.shown)
           /\ ToSet(list.rows) \subseteq Sessions \cup {Host} /\ NoOne \notin ToSet(list.rows)
<1>1. /\ ListShape(list) /\ ToSet(list.shown) \subseteq ToSet(list.rows) /\ killing \subseteq Sessions
      /\ list.shown = <<>> => list.cursor = NoOne
      /\ list.shown # <<>> => list.cursor \in ToSet(list.shown)
    BY DEF ViewsInd, ListOK, CursorIsShown
<1>2. ToSet(list.rows) \subseteq Sessions \cup {Host}
    BY <1>1, SetOfSeq DEF ListShape, Rows
<1> QED BY <1>1, <1>2, ViewsAssumption

\* The filter, and the cursor after it.
LEMMA FilteredIs ==
    ASSUME ViewsInd, flow = "list", NEW F \in SUBSET ToSet(list.rows)
    PROVE  LET new == Filtered(F)
           IN /\ ListShape(new) /\ new.rows = list.rows /\ ToSet(new.shown) = F
              /\ list.cursor \in F => new.cursor = list.cursor
              /\ list.cursor \notin F => new.cursor = FirstOf(new.shown)
<1> DEFINE shown == Among(list.rows, F)
           cursor == IF list.cursor \in F THEN list.cursor ELSE FirstOf(shown)
           new == Filtered(F)
<1>1. list = [rows |-> list.rows, shown |-> list.shown, cursor |-> list.cursor, asked |-> list.asked] /\ list.rows \in Rows
    BY ListIs DEF ListShape
<1>2. shown \in Rows /\ ToSet(shown) = F
  <2>1. shown \in Rows /\ ToSet(shown) = ToSet(list.rows) \cap F
      BY <1>1, AmongIs DEF Rows
  <2> HIDE DEF shown
  <2> QED BY <2>1
<1>3. new = [list EXCEPT !.shown = shown, !.cursor = cursor]
    BY DEF Filtered
<1> HIDE DEF shown, new
<1>4. (list.cursor \in F => cursor = list.cursor) /\ (list.cursor \notin F => cursor = FirstOf(shown))
    OBVIOUS
<1> HIDE DEF cursor
<1>5. new = [rows |-> list.rows, shown |-> shown, cursor |-> cursor, asked |-> list.asked]
    BY <1>1, <1>3
<1>6. new.rows = list.rows /\ new.shown = shown /\ new.cursor = cursor /\ ListShape(new)
    BY <1>1, <1>2, <1>5 DEF ListShape
<1> QED BY <1>2, <1>4, <1>6 DEF new

\* The steps of the list, one by one.
LEMMA FilterKeeps ==
    ASSUME ViewsInd, Filter
    PROVE  ViewsInd'
<1>1. PICK F \in SUBSET ToSet(list.rows) : list' = Filtered(F)
    BY DEF Filter
<1>2. flow = "list" /\ flow' = "list" /\ killing' = killing /\ UNCHANGED <<host, objects, pane, hearing, running>>
    BY DEF Filter
<1>3. /\ ListShape(list') /\ list'.rows = list.rows /\ ToSet(list'.shown) = F
      /\ list.cursor \in F => list'.cursor = list.cursor
      /\ list.cursor \notin F => list'.cursor = FirstOf(list'.shown)
    BY <1>1, <1>2, FilteredIs
<1>4. list'.shown \in Rows
    BY <1>3 DEF ListShape
<1>5. NoOne \notin F /\ killing \subseteq Sessions
    BY <1>2, ListIs
<1>6. /\ list'.shown = <<>> => list'.cursor = NoOne
      /\ list'.shown # <<>> => list'.cursor \in ToSet(list'.shown)
  <2>1. list'.shown = <<>> <=> F = {}
      BY <1>3, <1>4, EmptyRows
  <2> QED BY <1>3, <1>4, <2>1, FirstOfIs
<1>7. ListOK'
    BY <1>2, <1>3, <1>5, <1>6 DEF ListOK, CursorIsShown
<1> QED BY <1>2, <1>7, ListStep

LEMMA MoveKeeps ==
    ASSUME ViewsInd, MoveCursor
    PROVE  ViewsInd'
<1>1. PICK s \in ToSet(list.shown) : list' = [list EXCEPT !.cursor = s]
    BY DEF MoveCursor
<1>2. flow = "list" /\ flow' = "list" /\ killing' = killing /\ UNCHANGED <<host, objects, pane, hearing, running>>
    BY DEF MoveCursor
<1>3. ListShape(list) /\ ToSet(list.shown) \subseteq ToSet(list.rows) /\ killing \subseteq Sessions
    BY <1>2, ListIs
<1>4. list' = [rows |-> list.rows, shown |-> list.shown, cursor |-> s, asked |-> list.asked]
    BY <1>1, <1>3 DEF ListShape
<1>5. ListShape(list') /\ list'.rows = list.rows /\ list'.shown = list.shown /\ list'.cursor = s
    BY <1>3, <1>4 DEF ListShape
<1>6. list.shown # <<>>
    BY <1>1, <1>3, EmptyRows DEF ListShape
<1>7. ListOK'
    BY <1>1, <1>2, <1>3, <1>5, <1>6 DEF ListOK, CursorIsShown
<1> QED BY <1>2, <1>7, ListStep

LEMMA AskKeeps ==
    ASSUME ViewsInd, Ask
    PROVE  ViewsInd'
<1>1. /\ flow = "list" /\ flow' = "asking" /\ killing' = killing /\ UNCHANGED <<host, objects, pane, hearing, running>>
      /\ list' = [list EXCEPT !.asked = list.cursor] /\ list.cursor \notin {Host, NoOne}
    BY DEF Ask
<1>2. /\ ListShape(list) /\ ToSet(list.shown) \subseteq ToSet(list.rows) /\ killing \subseteq Sessions
      /\ list.shown # <<>> /\ list.cursor \in ToSet(list.shown) /\ ToSet(list.rows) \subseteq Sessions \cup {Host}
    BY <1>1, ListIs
<1>3. list' = [rows |-> list.rows, shown |-> list.shown, cursor |-> list.cursor, asked |-> list.cursor]
    BY <1>1, <1>2 DEF ListShape
<1>4. ListShape(list') /\ list'.rows = list.rows /\ list'.shown = list.shown /\ list'.cursor = list.cursor /\ list'.asked = list.cursor
    BY <1>2, <1>3 DEF ListShape
<1>5. list'.asked \in Sessions
    BY <1>1, <1>2, <1>4
<1>6. ListOK'
    BY <1>1, <1>2, <1>4, <1>5 DEF ListOK, CursorIsShown
<1> QED BY <1>1, <1>6, ListStep

LEMMA KeepKeeps ==
    ASSUME ViewsInd, KeepIt
    PROVE  ViewsInd'
<1>1. /\ flow = "asking" /\ flow' = "list" /\ killing' = killing /\ UNCHANGED <<host, objects, pane, hearing, running>>
      /\ list' = [list EXCEPT !.asked = NoOne]
    BY DEF KeepIt
<1>2. /\ ListShape(list) /\ ToSet(list.shown) \subseteq ToSet(list.rows) /\ killing \subseteq Sessions
      /\ list.shown = <<>> => list.cursor = NoOne
      /\ list.shown # <<>> => list.cursor \in ToSet(list.shown)
    BY <1>1, ListIs
<1>3. list' = [rows |-> list.rows, shown |-> list.shown, cursor |-> list.cursor, asked |-> NoOne]
    BY <1>1, <1>2 DEF ListShape
<1>4. ListShape(list') /\ list'.rows = list.rows /\ list'.shown = list.shown /\ list'.cursor = list.cursor
    BY <1>2, <1>3 DEF ListShape
<1>5. ListOK'
    BY <1>1, <1>2, <1>4 DEF ListOK, CursorIsShown
<1> QED BY <1>1, <1>5, ListStep

LEMMA ConfirmKeeps ==
    ASSUME ViewsInd, ConfirmKill
    PROVE  ViewsInd' /\ list.asked \in Sessions
<1> DEFINE left == Among(list.rows, ToSet(list.rows) \ {list.asked})
           shown == Among(list.shown, ToSet(list.shown) \ {list.asked})
<1>1. /\ flow = "asking" /\ flow' = "list" /\ killing' = killing \cup {list.asked} /\ UNCHANGED <<host, objects, pane, hearing, running>>
      /\ list' = [rows |-> left, shown |-> shown, cursor |-> FirstOf(shown), asked |-> NoOne]
    BY DEF ConfirmKill
<1>2. /\ list.rows \in Rows /\ list.shown \in Rows /\ ToSet(list.shown) \subseteq ToSet(list.rows) /\ killing \subseteq Sessions
    BY <1>1, ListIs DEF ListShape
<1>3. list.asked \in Sessions
    BY <1>1 DEF ViewsInd, ListOK
<1>4. left \in Rows /\ ToSet(left) = ToSet(list.rows) \cap (ToSet(list.rows) \ {list.asked})
    BY <1>2, AmongIs DEF Rows
<1>5. shown \in Rows /\ ToSet(shown) = ToSet(list.shown) \cap (ToSet(list.shown) \ {list.asked})
    BY <1>2, AmongIs DEF Rows
<1> HIDE DEF left, shown
<1>6. ListShape(list') /\ list'.rows = left /\ list'.shown = shown /\ list'.cursor = FirstOf(shown)
    BY <1>1, <1>4, <1>5 DEF ListShape
<1>7. ToSet(shown) \subseteq ToSet(left)
    BY <1>2, <1>4, <1>5
<1>8. killing' \subseteq Sessions
    BY <1>1, <1>2, <1>3
<1>9. (shown = <<>> => FirstOf(shown) = NoOne) /\ (shown # <<>> => FirstOf(shown) \in ToSet(shown))
    BY <1>5, FirstOfIs
<1>10. ListOK'
    BY <1>1, <1>6, <1>7, <1>8, <1>9 DEF ListOK, CursorIsShown
<1> QED BY <1>1, <1>3, <1>10, ListStep

\* The list opens or closes.
LEMMA OpenCloseKeeps ==
    ASSUME ViewsInd, OpenFlow \/ CloseList \/ OpenGone \/ AskDirectory \/ DirectoryRefused
    PROVE  ViewsInd'
<1>1. CASE OpenFlow \/ DirectoryRefused
  <2>1. ListOpens /\ flow # "pane" /\ UNCHANGED <<killing, host, objects, pane, hearing, running>>
      BY <1>1 DEF OpenFlow, DirectoryRefused
  <2>2. flow' = "list"
      BY <2>1 DEF ListOpens
  <2>3. ListOK'
      BY <2>1, OpensListOK
  <2> QED BY <2>1, <2>2, <2>3, ListStep
<1>2. CASE CloseList \/ OpenGone \/ AskDirectory
  <2>1. flow = "list" /\ flow' \in {"closed", "directory"} /\ list' = NoList /\ UNCHANGED <<killing, host, objects, pane, hearing, running>>
      BY <1>2 DEF CloseList, OpenGone, AskDirectory
  <2>2. ListOK'
      BY <2>1, ClosedListOK
  <2> QED BY <2>1, <2>2, ListStep
<1> QED BY <1>1, <1>2

-----------------------------------------------------------------------------
(* What others do, and the pane's own state.                               *)

\* A step in which the pane shows what it showed, listens as it did, and its session says nothing.
LEMMA PaneStep ==
    ASSUME ViewsInd, UNCHANGED <<flow, list, hearing>>, killing' \subseteq Sessions, NEW mine, HostOK', Onwards(objects', mine),
           SamePane(pane, pane'), PaneShape(pane'), running' \subseteq Command, (Owes(running, pane.n) \/ mine) => Owes(running', pane.n)
    PROVE  ViewsInd'
<1>1. ListOK'
    BY SameListOK
<1>2. HostOK /\ PaneTyped /\ PaneFollows /\ PaneListens
    BY DEF ViewsInd
<1>3. PaneTyped' /\ PaneFollows'
    BY <1>2, PaneKept
<1>4. PaneListens'
    BY <1>2 DEF PaneListens, SamePane, hearing
<1> QED BY <1>1, <1>3, <1>4 DEF ViewsInd

\* What a step leaves alone goes on.
LEMMA StaysOn ==
    ASSUME ViewsInd, UNCHANGED <<host, objects>>
    PROVE  HostOK' /\ \A mine : Onwards(objects', mine)
<1>1. HostOK'
    BY DEF ViewsInd, HostOK, host
<1>2. \A mine : Onwards(objects', mine)
    BY StayOnwards DEF ViewsInd, HostOK
<1> QED BY <1>1, <1>2

\* The parts of the invariant that most steps keep as they are.
LEMMA SamePaneStays == ViewsInd => SamePane(pane, pane) /\ PaneShape(pane) /\ killing \subseteq Sessions /\ running \subseteq Command
BY DEF SamePane, ViewsInd, PaneTyped, ListOK

\* A step of the supervisor's map and its agent sessions.
LEMMA HostStep ==
    ASSUME ViewsInd, UNCHANGED <<flow, list, hearing, pane, running>>, killing' \subseteq Sessions, HostOK', Onwards(objects', FALSE)
    PROVE  ViewsInd'
<1>1. SamePane(pane, pane') /\ PaneShape(pane') /\ running' \subseteq Command
    BY SamePaneStays
<1>2. (Owes(running, pane.n) \/ FALSE) => Owes(running', pane.n)
    OBVIOUS
<1> QED BY <1>1, <1>2, PaneStep

\* The steps of others, one by one.
LEMMA DespawnKeeps ==
    ASSUME ViewsInd, NEW s \in Sessions, DespawnEnds(s) \/ DespawnElsewhere(s)
    PROVE  ViewsInd'
<1>1. UNCHANGED <<flow, list, hearing, pane, running>> /\ killing' \subseteq killing
    BY DEF DespawnEnds, DespawnElsewhere, ByOthers
<1>2. killing' \subseteq Sessions /\ HostOK
    BY <1>1, SamePaneStays DEF ViewsInd
<1>3. HostOK' /\ Onwards(objects', FALSE)
  <2>1. CASE live[s] # 0 /\ Leaves(s)
      BY <1>2, <2>1, LeavesOn
  <2>2. CASE UNCHANGED <<host, objects>>
      BY <2>2, StaysOn
  <2> QED BY <2>1, <2>2 DEF DespawnEnds, DespawnElsewhere
<1> QED BY <1>1, <1>2, <1>3, HostStep

LEMMA SpawnKeeps ==
    ASSUME ViewsInd, NEW s \in Sessions, NEW p \in Sessions \cup {Host, NoOne}, SpawnElsewhere(s, p)
    PROVE  ViewsInd'
<1>1. UNCHANGED <<flow, list, hearing, pane, running, killing>> /\ Enters(s, p)
    BY DEF SpawnElsewhere, ByOthers
<1>2. killing' \subseteq Sessions /\ HostOK
    BY <1>1, SamePaneStays DEF ViewsInd
<1>3. HostOK' /\ Onwards(objects', FALSE)
    BY <1>1, <1>2, EntersOn
<1> QED BY <1>1, <1>2, <1>3, HostStep

LEMMA ReplaceKeeps ==
    ASSUME ViewsInd, NEW s \in Sessions, ReplaceElsewhere(s) \/ RewriteElsewhere(s)
    PROVE  ViewsInd'
<1>1. UNCHANGED <<flow, list, hearing, pane, running, killing>> /\ live[s] # 0
    BY DEF ReplaceElsewhere, RewriteElsewhere, ByOthers
<1>2. killing' \subseteq Sessions /\ HostOK
    BY <1>1, SamePaneStays DEF ViewsInd
<1>3. HostOK' /\ Onwards(objects', FALSE)
  <2>1. CASE Replaced(s)
      BY <1>1, <1>2, <2>1, ReplacedOn
  <2>2. CASE Rewritten(s, TRUE)
    <3>1. HostOK' /\ Onwards(objects', ~TRUE)
        BY <1>1, <1>2, <2>2, RewrittenOn
    <3>2. (~TRUE) = FALSE
        OBVIOUS
    <3> QED BY <3>1, <3>2
  <2> QED BY <2>1, <2>2 DEF ReplaceElsewhere, RewriteElsewhere
<1> QED BY <1>1, <1>2, <1>3, HostStep

\* A notice, a mode, and text sent change nothing the pane draws of its session.
Changed(p, mode, notice, notices) ==
    /\ mode \in {"transcript", "choosing"} /\ notice \in Nat /\ notices \in Nat /\ notice <= notices
    /\ p = [pane EXCEPT !.mode = mode, !.notice = notice, !.notices = notices]

\* The fields of a pane.
LEMMA PaneFields ==
    ASSUME PaneShape(pane), NEW p, NEW mode, NEW notice, NEW notices, Changed(p, mode, notice, notices)
    PROVE  SamePane(pane, p) /\ PaneShape(p) /\ p.notice = notice /\ p.notices = notices
<1>1. p = [n |-> pane.n, id |-> pane.id, first |-> pane.first, shows |-> pane.shows, drawn |-> pane.drawn,
           epoch |-> pane.epoch, mode |-> mode, notice |-> notice, notices |-> notices]
    BY DEF PaneShape, Changed
<1>2. mode \in {"transcript", "choosing"} /\ notice \in Nat /\ notices \in Nat /\ notice <= notices
    BY DEF Changed
<1> QED BY <1>1, <1>2 DEF PaneShape, SamePane

\* showNotice changes the notice of a pane, and sets it.
LEMMA NoticedIs ==
    ASSUME PaneShape(pane), NEW s
    PROVE  /\ SamePane(pane, Noticed(s)) /\ PaneShape(Noticed(s))
           /\ Noticed(s) # pane => Noticed(s).notice # 0
<1> DEFINE p == [pane EXCEPT !.notices = @ + 1, !.notice = pane.notices + 1]
<1>1. pane.notices + 1 \in Nat /\ pane.notices + 1 # 0 /\ pane.mode \in {"transcript", "choosing"}
    BY DEF PaneShape
<1>2. p = [pane EXCEPT !.mode = pane.mode, !.notice = pane.notices + 1, !.notices = pane.notices + 1]
    BY DEF PaneShape
<1>6. Changed(p, pane.mode, pane.notices + 1, pane.notices + 1)
    BY <1>1, <1>2 DEF Changed
<1> HIDE DEF p
<1>3. SamePane(pane, p) /\ PaneShape(p) /\ p.notice = pane.notices + 1
    BY <1>6, PaneFields
<1>4. SamePane(pane, pane)
    BY DEF SamePane
<1>5. Noticed(s) = p \/ Noticed(s) = pane
    BY DEF Noticed, p
<1> QED BY <1>1, <1>3, <1>4, <1>5

\* A step of the pane's mode and notices alone.
LEMMA ModeStep ==
    ASSUME ViewsInd, UNCHANGED <<flow, list, hearing, killing, host, objects>>, SamePane(pane, pane'), PaneShape(pane'),
           running' \subseteq Command, running \subseteq running'
    PROVE  ViewsInd'
<1>1. HostOK' /\ Onwards(objects', FALSE) /\ killing' \subseteq Sessions
    BY StaysOn, SamePaneStays
<1>2. (Owes(running, pane.n) \/ FALSE) => Owes(running', pane.n)
    BY DEF Owes
<1> QED BY <1>1, <1>2, PaneStep

LEMMA ModeKeeps ==
    ASSUME ViewsInd, SendText \/ OpenMode \/ CloseMode
    PROVE  ViewsInd'
<1>1. UNCHANGED <<flow, list, hearing, killing, host, objects, running>>
    BY DEF SendText, OpenMode, CloseMode, people
<1>2. PaneShape(pane) /\ running' \subseteq Command
    BY <1>1, SamePaneStays
<1>3. SamePane(pane, pane') /\ PaneShape(pane')
  <2>1. pane.mode \in {"transcript", "choosing"} /\ pane.notice \in Nat /\ pane.notices \in Nat /\ pane.notice <= pane.notices
        /\ 0 \in Nat /\ 0 <= pane.notices
      BY <1>2 DEF PaneShape
  <2>2. CASE pane' = [pane EXCEPT !.notice = 0]
    <3>1. pane' = [pane EXCEPT !.mode = pane.mode, !.notice = 0, !.notices = pane.notices]
        BY <1>2, <2>2 DEF PaneShape
    <3>2. Changed(pane', pane.mode, 0, pane.notices)
        BY <2>1, <3>1 DEF Changed
    <3> QED BY <1>2, <3>2, PaneFields
  <2>3. ASSUME NEW mode \in {"transcript", "choosing"}, pane' = [pane EXCEPT !.mode = mode]
        PROVE  SamePane(pane, pane') /\ PaneShape(pane')
    <3>1. pane' = [pane EXCEPT !.mode = mode, !.notice = pane.notice, !.notices = pane.notices]
        BY <1>2, <2>3 DEF PaneShape
    <3>2. Changed(pane', mode, pane.notice, pane.notices)
        BY <2>1, <2>3, <3>1 DEF Changed
    <3> QED BY <1>2, <3>2, PaneFields
  <2> QED BY <2>2, <2>3 DEF SendText, OpenMode, CloseMode
<1> QED BY <1>1, <1>2, <1>3, ModeStep

\* A notice arrives for the pane's session.
LEMMA NoticeKeeps ==
    ASSUME ViewsInd, NEW s \in Sessions, NoticeElsewhere(s)
    PROVE  ViewsInd'
<1>1. UNCHANGED <<flow, list, hearing, killing, host, objects, running>> /\ pane' = Noticed(s)
    BY DEF NoticeElsewhere, ByOthers
<1>2. PaneShape(pane) /\ running' \subseteq Command
    BY <1>1, SamePaneStays
<1>3. SamePane(pane, pane') /\ PaneShape(pane')
    BY <1>1, <1>2, NoticedIs
<1> QED BY <1>1, <1>2, <1>3, ModeStep

\* The same pane, with the session it shows drawn again.
SameView(p, q) ==
    /\ PaneShape(q) /\ q.n = p.n /\ q.id = p.id /\ q.first = p.first /\ q.mode = p.mode
    /\ q.notice = p.notice /\ q.notices = p.notices

\* refreshTranscript draws the messages that are there.
LEMMA RefreshedIs ==
    ASSUME HostOK, NEW p, PaneShape(p), p.shows \in 1 .. Len(objects), NEW owed
    PROVE  /\ SameView(p, Refreshed(p)) /\ Refreshed(p).shows = p.shows
           /\ Follows(Refreshed(p).drawn, Refreshed(p).epoch, objects[p.shows], owed)
<1> DEFINE o == objects[p.shows]
           d == Rebuilt(o.msgs)
           q == Refreshed(p)
<1>1. AgentOK(o)
    BY DEF HostOK, AgentsOK
<1>2. q = [p EXCEPT !.drawn = d, !.epoch = o.epoch]
    BY DEF Refreshed
<1> HIDE DEF o, q
<1>3. o.epoch \in Nat /\ RunOK(o.msgs, o.phase)
    BY <1>1 DEF AgentOK, Agent
<1>4. InStep(d, o.msgs, o.phase)
    BY <1>3, RebuiltInStep
<1> HIDE DEF d
<1>5. q = [n |-> p.n, id |-> p.id, first |-> p.first, shows |-> p.shows, drawn |-> d,
           epoch |-> o.epoch, mode |-> p.mode, notice |-> p.notice, notices |-> p.notices]
    BY <1>2 DEF PaneShape
<1>6. q.drawn = d /\ q.epoch = o.epoch /\ q.shows = p.shows /\ SameView(p, q)
    BY <1>3, <1>5 DEF PaneShape, SameView
<1>7. Follows(q.drawn, q.epoch, o, owed)
    BY <1>3, <1>4, <1>6 DEF Follows
<1> QED BY <1>6, <1>7 DEF o, q

\* The pane after adoptSession shows what is in the slot, and listens to that alone.
Adopted(a, owed) ==
    /\ SameView(pane, a.pane) /\ PaneIn(a.pane, Len(objects)) /\ a.subs = {<<pane.n, a.pane.shows>>}
    /\ Follows(a.pane.drawn, a.pane.epoch, objects[a.pane.shows], owed)

\* A pane that adopts nothing is as good as one that adopts what it shows.
LEMMA SameIs ==
    ASSUME ViewsInd, flow = "pane"
    PROVE  Adopted([pane |-> pane, subs |-> subs], Owes(running, pane.n))
<1> DEFINE a == [pane |-> pane, subs |-> subs]
<1>1. a.pane = pane /\ a.subs = subs
    OBVIOUS
<1> HIDE DEF a
<1>2. PaneShape(pane) /\ PaneIn(pane, Len(objects)) /\ subs = {<<pane.n, pane.shows>>}
      /\ Follows(pane.drawn, pane.epoch, objects[pane.shows], Owes(running, pane.n))
    BY DEF ViewsInd, PaneTyped, PaneListens, PaneFollows
<1>3. Adopted(a, Owes(running, pane.n))
    BY <1>1, <1>2 DEF Adopted, SameView
<1> QED BY <1>3 DEF a

\* adoptSession, whether the session is another, the same, or gone.
LEMMA AdoptIs ==
    ASSUME ViewsInd, flow = "pane"
    PROVE  Adopted(AdoptSession, Owes(running, pane.n))
<1>1. CASE SessionOf = pane.shows
    BY <1>1, SameIs DEF AdoptSession
<1>2. CASE SessionOf # pane.shows
  <2> DEFINE x == SessionOf
             p == [pane EXCEPT !.shows = x]
             q == Refreshed(p)
             s == (subs \ {<<pane.n, pane.shows>>}) \cup {<<pane.n, x>>}
             a == AdoptSession
  <2>1. PaneShape(pane) /\ PaneIn(pane, Len(objects)) /\ subs = {<<pane.n, pane.shows>>} /\ HostOK
      BY DEF ViewsInd, PaneTyped, PaneListens
  <2>2. x \in 1 .. Len(objects)
      BY <2>1 DEF SessionOf, PaneIn, HostOK, MapOK
  <2>3. a = [pane |-> q, subs |-> s]
      BY <1>2 DEF AdoptSession
  <2> HIDE DEF x, a
  <2>4. p = [n |-> pane.n, id |-> pane.id, first |-> pane.first, shows |-> x, drawn |-> pane.drawn,
             epoch |-> pane.epoch, mode |-> pane.mode, notice |-> pane.notice, notices |-> pane.notices]
      BY <2>1 DEF PaneShape
  <2> HIDE DEF p
  <2>5. PaneShape(p) /\ p.shows = x /\ p.n = pane.n /\ p.id = pane.id /\ p.first = pane.first /\ p.mode = pane.mode
        /\ p.notice = pane.notice /\ p.notices = pane.notices
      BY <2>1, <2>4 DEF PaneShape
  <2>6. SameView(p, q) /\ q.shows = p.shows /\ Follows(q.drawn, q.epoch, objects[p.shows], Owes(running, pane.n))
      BY <2>1, <2>2, <2>5, RefreshedIs
  <2>7. a.pane = q /\ a.subs = s
      BY <2>3
  <2>8. s = {<<pane.n, x>>}
      BY <2>1
  <2> HIDE DEF q, s
  <2>9. SameView(pane, q)
      BY <2>5, <2>6 DEF SameView
  <2>10. PaneIn(q, Len(objects))
      BY <2>1, <2>2, <2>5, <2>6 DEF PaneIn, SameView
  <2>11. Adopted(a, Owes(running, pane.n))
      BY <2>5, <2>6, <2>7, <2>8, <2>9, <2>10 DEF Adopted
  <2> QED BY <2>11 DEF a
<1> QED BY <1>1, <1>2

\* A step of the pane that draws its session again.
LEMMA DrawStep ==
    ASSUME ViewsInd, flow = "pane", UNCHANGED <<flow, list, killing, host, objects, bus>>, running' \subseteq Command,
           PaneShape(pane'), pane'.n = pane.n, PaneIn(pane', Len(objects)), subs' = {<<pane.n, pane'.shows>>},
           Follows(pane'.drawn, pane'.epoch, objects[pane'.shows], Owes(running', pane.n))
    PROVE  ViewsInd'
<1>1. HostOK'
    BY StaysOn
<1>2. ListOK'
    BY SamePaneStays, SameListOK
<1>3. PaneTyped'
    BY DEF PaneTyped, PaneShape, PaneIn
<1>4. PaneListens'
    BY DEF ViewsInd, PaneListens
<1>5. PaneFollows'
    BY DEF PaneFollows
<1> QED BY <1>1, <1>2, <1>3, <1>4, <1>5 DEF ViewsInd

\* The pane is rendered.
LEMMA RenderKeeps ==
    ASSUME ViewsInd, Render
    PROVE  ViewsInd'
<1> DEFINE a == AdoptSession
<1>1. flow = "pane" /\ UNCHANGED <<flow, list, killing, host, objects, bus, running>> /\ pane' = a.pane /\ subs' = a.subs
    BY DEF Render, people
<1>2. Adopted(a, Owes(running, pane.n))
    BY <1>1, AdoptIs
<1> HIDE DEF a
<1>3. running' \subseteq Command
    BY <1>1, SamePaneStays
<1>4. PaneShape(pane') /\ pane'.n = pane.n /\ PaneIn(pane', Len(objects)) /\ subs' = {<<pane.n, pane'.shows>>}
      /\ Follows(pane'.drawn, pane'.epoch, objects[pane'.shows], Owes(running', pane.n))
    BY <1>1, <1>2 DEF Adopted, SameView
<1> QED BY <1>1, <1>3, <1>4, DrawStep

-----------------------------------------------------------------------------
(* A pane opens, and is left.                                              *)

\* A pane opens on agent session o.
LEMMA PaneOpensOn ==
    ASSUME ViewsInd, flow # "pane", NEW s \in Sessions, NEW o \in 1 .. Len(objects'), HostOK', PaneOpens(s, o, objects'),
           UNCHANGED <<killing, running>>
    PROVE  ViewsInd' /\ pane'.id = s
<1> DEFINE e == objects'[o]
           d == Rebuilt(e.msgs)
<1>1. /\ flow' = "pane" /\ list' = NoList /\ subs' = subs \cup {<<pane.n + 1, o>>} /\ bus' = bus \cup {pane.n + 1}
      /\ pane' = [NoPane EXCEPT !.n = pane.n + 1, !.id = s, !.first = o, !.shows = o, !.drawn = d, !.epoch = e.epoch]
    BY DEF PaneOpens
<1>2. AgentOK(e)
    BY DEF HostOK, AgentsOK
<1> HIDE DEF e
<1>3. e.epoch \in Nat /\ RunOK(e.msgs, e.phase)
    BY <1>2 DEF AgentOK, Agent
<1>4. InStep(d, e.msgs, e.phase)
    BY <1>3, RebuiltInStep
<1> HIDE DEF d
<1>5. pane' = [n |-> pane.n + 1, id |-> s, first |-> o, shows |-> o, drawn |-> d, epoch |-> e.epoch,
               mode |-> "transcript", notice |-> 0, notices |-> 0]
    BY <1>1 DEF NoPane
<1>6. pane.n + 1 \in Nat /\ running' \subseteq Command /\ subs = {} /\ bus = {}
    BY DEF ViewsInd, PaneTyped, PaneShape, PaneListens
<1>7. PaneShape(pane') /\ pane'.n = pane.n + 1 /\ pane'.id = s /\ pane'.first = o /\ pane'.shows = o /\ pane'.drawn = d /\ pane'.epoch = e.epoch
    BY <1>3, <1>5, <1>6 DEF PaneShape
<1>8. PaneTyped'
    BY <1>7 DEF PaneTyped, PaneIn
<1>9. PaneListens'
    BY <1>1, <1>6, <1>7 DEF PaneListens
<1>10. Follows(d, e.epoch, e, Owes(running', pane'.n))
    BY <1>3, <1>4 DEF Follows
<1>11. PaneFollows'
    BY <1>7, <1>10 DEF PaneFollows, e
<1>12. ListOK'
    BY <1>1, ClosedListOK
<1> QED BY <1>6, <1>7, <1>8, <1>9, <1>11, <1>12 DEF ViewsInd

\* The pane opens from the list, from a new directory, and is left.
LEMMA SelectedKeeps ==
    ASSUME ViewsInd, OpenSelected
    PROVE  ViewsInd' /\ pane'.id = list.cursor
<1>1. /\ flow = "list" /\ list.cursor \notin {Host, NoOne} /\ live[list.cursor] # 0
      /\ PaneOpens(list.cursor, live[list.cursor], objects) /\ UNCHANGED <<host, objects, killing, running>>
    BY DEF OpenSelected
<1>2. list.cursor \in Sessions
    BY <1>1, ListIs
<1>3. live[list.cursor] \in 1 .. Len(objects)
    BY <1>1, <1>2 DEF ViewsInd, HostOK, MapOK
<1>4. PaneOpens(list.cursor, live[list.cursor], objects')
    BY <1>1
<1>5. HostOK' /\ Len(objects') = Len(objects)
    BY <1>1, StaysOn
<1> QED BY <1>1, <1>2, <1>3, <1>4, <1>5, PaneOpensOn

LEMMA ChosenKeeps ==
    ASSUME ViewsInd, NEW s \in Sessions, DirectoryChosen(s)
    PROVE  ViewsInd'
<1>1. flow = "directory" /\ Enters(s, NoOne) /\ PaneOpens(s, Len(objects) + 1, objects') /\ UNCHANGED <<killing, running>>
    BY DEF DirectoryChosen
<1>2. HostOK' /\ Len(objects') = Len(objects) + 1 /\ Len(objects) \in Nat
    BY <1>1, EntersOn DEF ViewsInd
<1>3. Len(objects) + 1 \in 1 .. Len(objects')
    BY <1>2
<1> QED BY <1>1, <1>2, <1>3, PaneOpensOn

LEMMA LeaveKeeps ==
    ASSUME ViewsInd, Leave
    PROVE  ViewsInd'
<1>1. /\ flow = "pane" /\ subs' = subs \ {<<pane.n, pane.shows>>} /\ bus' = bus \ {pane.n} /\ pane' = [NoPane EXCEPT !.n = pane.n]
      /\ ListOpens \/ (flow' = "closed" /\ list' = list)
      /\ UNCHANGED <<host, objects, killing, running>>
    BY DEF Leave, Disposes
<1>2. HostOK' /\ running' \subseteq Command
    BY <1>1, StaysOn, SamePaneStays
<1>3. flow' # "pane" /\ ListOK'
  <2>1. CASE ListOpens
      BY <1>1, <2>1, OpensListOK DEF ListOpens
  <2>2. CASE flow' = "closed" /\ list' = list
      BY <1>1, <2>2, ClosedListOK
  <2> QED BY <1>1, <2>1, <2>2
<1>4. pane.n \in Nat
    BY DEF ViewsInd, PaneTyped, PaneShape
<1>5. pane' = [n |-> pane.n, id |-> NoOne, first |-> 0, shows |-> 0, drawn |-> Blank, epoch |-> 0,
               mode |-> "transcript", notice |-> 0, notices |-> 0]
    BY <1>1 DEF NoPane
<1>6. PaneTyped'
  <2>1. PaneShape(pane')
      BY <1>4, <1>5 DEF PaneShape
  <2> QED BY <1>3, <2>1 DEF PaneTyped
<1>7. PaneListens'
    BY <1>1, <1>3 DEF ViewsInd, PaneListens
<1> QED BY <1>2, <1>3, <1>6, <1>7 DEF ViewsInd, PaneFollows

-----------------------------------------------------------------------------
(* Commands.                                                               *)

\* A command is given.
LEMMA DispatchKeeps ==
    ASSUME ViewsInd, NEW kind \in Kinds, RunCommand(kind) \/ Choose(kind)
    PROVE  ViewsInd'
<1> DEFINE c == [pane |-> pane.n, id |-> pane.id, kind |-> kind, before |-> pane.notices, result |-> "sent"]
<1>1. flow = "pane" /\ running' = running \cup {c} /\ UNCHANGED <<flow, list, hearing, killing, host, objects>>
      /\ (pane' = pane \/ pane' = [pane EXCEPT !.mode = "transcript"])
    BY DEF RunCommand, Choose, Dispatched, people
<1>2. PaneShape(pane) /\ SamePane(pane, pane) /\ running \subseteq Command /\ pane.id \in Sessions
    BY <1>1, SamePaneStays DEF ViewsInd, PaneTyped, PaneIn
<1>3. c \in Command
    BY <1>2 DEF Command, PaneShape
<1> HIDE DEF c
<1>4. running' \subseteq Command /\ running \subseteq running'
    BY <1>1, <1>2, <1>3
<1>5. SamePane(pane, pane') /\ PaneShape(pane')
  <2>1. CASE pane' = pane
      BY <1>2, <2>1
  <2>2. CASE pane' = [pane EXCEPT !.mode = "transcript"]
    <3>1. pane' = [pane EXCEPT !.mode = "transcript", !.notice = pane.notice, !.notices = pane.notices]
        BY <1>2, <2>2 DEF PaneShape
    <3>2. Changed(pane', "transcript", pane.notice, pane.notices)
        BY <1>2, <3>1 DEF Changed, PaneShape
    <3> QED BY <1>2, <3>2, PaneFields
  <2> QED BY <1>1, <2>1, <2>2
<1> QED BY <1>1, <1>4, <1>5, ModeStep

\* A command that was sent gets its result.
LEMMA BecomeIs ==
    ASSUME ViewsInd, NEW c \in running, c.result = "sent", NEW result \in {"refused", "taken"}, Become(c, result)
    PROVE  /\ running' \subseteq Command
           /\ \A n : Owes(running, n) => Owes(running', n)
           /\ (result = "taken" /\ c.kind # "plain") => Owes(running', c.pane)
<1> DEFINE d == [c EXCEPT !.result = result]
<1>1. running \subseteq Command /\ c \in Command
    BY SamePaneStays
<1>2. running' = (running \ {c}) \cup {d}
    BY DEF Become
<1>3. d \in Command /\ d.pane = c.pane /\ d.kind = c.kind /\ d.result = result
    BY <1>1 DEF Command
<1> HIDE DEF d
<1>4. ASSUME NEW n, Owes(running, n) PROVE Owes(running', n)
  <2>1. PICK e \in running : e.pane = n /\ e.kind # "plain" /\ e.result = "taken"
      BY <1>4 DEF Owes
  <2>2. e # c
      BY <2>1
  <2> QED BY <1>2, <2>1, <2>2 DEF Owes
<1>5. ASSUME result = "taken", c.kind # "plain" PROVE Owes(running', c.pane)
    BY <1>2, <1>3, <1>5 DEF Owes
<1> QED BY <1>1, <1>2, <1>3, <1>4, <1>5

\* A command does not reach the session, or does its work there.
LEMMA RefusedKeeps ==
    ASSUME ViewsInd, NEW c \in running, CommandRefused(c)
    PROVE  ViewsInd'
<1>1. c.result = "sent" /\ Become(c, "refused") /\ UNCHANGED <<flow, list, hearing, killing, host, objects, pane>>
    BY DEF CommandRefused, people
<1>2. running' \subseteq Command /\ (Owes(running, pane.n) => Owes(running', pane.n))
    BY <1>1, BecomeIs
<1>3. SamePane(pane, pane') /\ PaneShape(pane') /\ killing' \subseteq Sessions /\ HostOK' /\ Onwards(objects', FALSE)
    BY <1>1, SamePaneStays, StaysOn
<1>4. (Owes(running, pane.n) \/ FALSE) => Owes(running', pane.n)
    BY <1>2
<1> QED BY <1>1, <1>2, <1>3, <1>4, PaneStep

LEMMA DoneKeeps ==
    ASSUME ViewsInd, NEW c \in running, CommandDone(c)
    PROVE  ViewsInd'
<1> DEFINE mine == flow = "pane" /\ c.pane = pane.n
<1>1. c.result = "sent" /\ live[c.id] # 0 /\ Become(c, "taken") /\ UNCHANGED <<flow, list, hearing, killing, pane>>
    BY DEF CommandDone, people
<1>2. /\ running' \subseteq Command /\ (Owes(running, pane.n) => Owes(running', pane.n))
      /\ c.kind # "plain" => Owes(running', c.pane)
    BY <1>1, BecomeIs
<1>3. SamePane(pane, pane') /\ PaneShape(pane') /\ killing' \subseteq Sessions /\ HostOK /\ c.id \in Sessions
    BY <1>1, SamePaneStays DEF ViewsInd, Command
<1>4. CASE c.kind = "anew" /\ Replaced(c.id)
  <2>1. HostOK' /\ Onwards(objects', FALSE)
      BY <1>1, <1>3, <1>4, ReplacedOn
  <2>2. (Owes(running, pane.n) \/ FALSE) => Owes(running', pane.n)
      BY <1>2
  <2> QED BY <1>1, <1>2, <1>3, <2>1, <2>2, PaneStep
<1>5. CASE c.kind # "plain" /\ Rewritten(c.id, ~mine)
  <2>1. mine \in BOOLEAN /\ (mine => c.pane = pane.n)
      OBVIOUS
  <2> HIDE DEF mine
  <2>2. (~mine) \in BOOLEAN
      BY <2>1
  <2>3. HostOK' /\ Onwards(objects', ~(~mine))
      BY <1>1, <1>3, <1>5, <2>2, RewrittenOn
  <2>4. (Owes(running, pane.n) \/ ~(~mine)) => Owes(running', pane.n)
      BY <1>2, <1>5, <2>1
  <2> QED BY <1>1, <1>2, <1>3, <2>3, <2>4, PaneStep
<1>6. CASE UNCHANGED <<host, objects>>
  <2>1. HostOK' /\ Onwards(objects', FALSE)
      BY <1>6, StaysOn
  <2>2. (Owes(running, pane.n) \/ FALSE) => Owes(running', pane.n)
      BY <1>2
  <2> QED BY <1>1, <1>2, <1>3, <2>1, <2>2, PaneStep
<1> QED BY <1>4, <1>5, <1>6 DEF CommandDone

\* A command fails.
LEMMA FailsKeeps ==
    ASSUME ViewsInd, NEW c \in running, CommandFails(c)
    PROVE  ViewsInd'
<1>1. /\ c.result = "sent" /\ live[c.id] # 0 /\ Become(c, "taken") /\ UNCHANGED <<flow, list, hearing, killing, host>>
      /\ (objects' = objects \/ objects' = Stopped(live[c.id])) /\ pane' = Noticed(c.id)
    BY DEF CommandFails, people
<1>2. running' \subseteq Command /\ (Owes(running, pane.n) => Owes(running', pane.n))
    BY <1>1, BecomeIs
<1>3. PaneShape(pane) /\ killing' \subseteq Sessions /\ HostOK /\ c.id \in Sessions
    BY <1>1, SamePaneStays DEF ViewsInd, Command
<1>4. SamePane(pane, pane') /\ PaneShape(pane')
    BY <1>1, <1>3, NoticedIs
<1>5. HostOK' /\ Onwards(objects', FALSE)
  <2>1. CASE objects' = objects
      BY <1>1, <2>1, StaysOn
  <2>2. CASE objects' = Stopped(live[c.id])
      BY <1>1, <1>3, <2>2, StoppedOn
  <2> QED BY <1>1, <2>1, <2>2
<1>6. (Owes(running, pane.n) \/ FALSE) => Owes(running', pane.n)
    BY <1>2
<1> QED BY <1>1, <1>2, <1>3, <1>4, <1>5, <1>6, PaneStep

\* The pane a command returns to keeps its notices, and its notice or none.
LEMMA ReturnIs ==
    ASSUME ViewsInd, flow = "pane", NEW c \in running, c.result # "sent", NEW now, Adopted(now, Owes(running, pane.n)),
           NEW drawn, drawn = IF c.kind = "plain" THEN now.pane ELSE Refreshed(now.pane),
           running' = running \ {c}, pane' = [drawn EXCEPT !.notice = NoticeAfter(c)], subs' = now.subs,
           UNCHANGED <<flow, list, killing, host, objects, bus>>
    PROVE  ViewsInd' /\ pane'.notice = NoticeAfter(c)
<1>1. running \subseteq Command /\ HostOK /\ PaneShape(pane) /\ c \in Command
    BY SamePaneStays DEF ViewsInd
<1>2. /\ SameView(pane, now.pane) /\ PaneIn(now.pane, Len(objects)) /\ now.subs = {<<pane.n, now.pane.shows>>}
      /\ Follows(now.pane.drawn, now.pane.epoch, objects[now.pane.shows], Owes(running, pane.n))
    BY DEF Adopted
<1>3. PaneShape(now.pane) /\ now.pane.shows \in 1 .. Len(objects)
    BY <1>2 DEF SameView, PaneIn
<1>4. /\ SameView(now.pane, drawn) /\ drawn.shows = now.pane.shows
      /\ Follows(drawn.drawn, drawn.epoch, objects[drawn.shows], Owes(running', pane.n))
  <2>1. CASE c.kind = "plain"
    <3>1. drawn = now.pane
        BY <2>1
    <3>2. Owes(running, pane.n) <=> Owes(running', pane.n)
        BY <2>1 DEF Owes
    <3>3. Follows(drawn.drawn, drawn.epoch, objects[drawn.shows], Owes(running', pane.n))
        BY <1>2, <3>1, <3>2 DEF Follows
    <3> QED BY <1>3, <3>1, <3>3 DEF SameView
  <2>2. CASE c.kind # "plain"
    <3> DEFINE q == Refreshed(now.pane)
    <3>1. drawn = q
        BY <2>2
    <3>2. SameView(now.pane, q) /\ q.shows = now.pane.shows /\ Follows(q.drawn, q.epoch, objects[now.pane.shows], Owes(running', pane.n))
        BY <1>1, <1>3, RefreshedIs
    <3> HIDE DEF q
    <3> QED BY <3>1, <3>2
  <2> QED BY <2>1, <2>2
<1>5. NoticeAfter(c) \in {0, pane.notice}
    BY DEF NoticeAfter
<1> DEFINE notice == NoticeAfter(c)
<1> HIDE DEF notice
<1>6. PaneShape(drawn) /\ drawn.n = pane.n /\ drawn.id = pane.id /\ drawn.first = pane.first /\ drawn.mode = pane.mode
      /\ drawn.notice = pane.notice /\ drawn.notices = pane.notices
    BY <1>2, <1>4 DEF SameView
<1>7. pane' = [n |-> drawn.n, id |-> drawn.id, first |-> drawn.first, shows |-> drawn.shows, drawn |-> drawn.drawn,
               epoch |-> drawn.epoch, mode |-> drawn.mode, notice |-> notice, notices |-> drawn.notices]
    BY <1>6 DEF PaneShape, notice
<1>8. pane'.n = pane.n /\ pane'.id = pane.id /\ pane'.first = pane.first /\ pane'.shows = now.pane.shows
      /\ pane'.drawn = drawn.drawn /\ pane'.epoch = drawn.epoch /\ pane'.notice = notice
    BY <1>4, <1>6, <1>7
<1>9. PaneShape(pane')
  <2>1. notice \in Nat /\ notice <= pane.notices
      BY <1>1, <1>5 DEF PaneShape, notice
  <2> QED BY <1>6, <1>7, <2>1 DEF PaneShape
<1>10. PaneIn(pane', Len(objects))
    BY <1>2, <1>8 DEF PaneIn, SameView
<1>11. subs' = {<<pane.n, pane'.shows>>} /\ running' \subseteq Command
    BY <1>1, <1>2, <1>8
<1>12. Follows(pane'.drawn, pane'.epoch, objects[pane'.shows], Owes(running', pane.n))
    BY <1>4, <1>8
<1>13. ViewsInd'
    BY <1>8, <1>9, <1>10, <1>11, <1>12, DrawStep
<1> QED BY <1>8, <1>13 DEF notice

\* A command returns.
LEMMA ReturnsKeeps ==
    ASSUME ViewsInd, NEW c \in running, CommandReturns(c)
    PROVE  /\ ViewsInd'
           /\ pane'.notice = pane.notice \/ (pane'.notice = NoticeAfter(c) /\ c \in running \ running')
           /\ UNCHANGED <<flow, list, killing>>
<1> DEFINE now == IF c.kind = "anew" THEN AdoptSession ELSE [pane |-> pane, subs |-> subs]
           drawn == IF c.kind = "plain" THEN now.pane ELSE Refreshed(now.pane)
<1>1. /\ c.result # "sent" /\ running' = running \ {c} /\ UNCHANGED <<flow, list, killing, host, objects, bus>>
      /\ \/ flow = "pane" /\ pane' = [drawn EXCEPT !.notice = NoticeAfter(c)] /\ subs' = now.subs
         \/ ~(flow = "pane" /\ c.pane = pane.n) /\ UNCHANGED <<pane, subs>>
    BY DEF CommandReturns, people
<1>2. CASE flow = "pane" /\ pane' = [drawn EXCEPT !.notice = NoticeAfter(c)] /\ subs' = now.subs
  <2>1. Adopted(now, Owes(running, pane.n))
      BY <1>2, AdoptIs, SameIs
  <2>2. drawn = IF c.kind = "plain" THEN now.pane ELSE Refreshed(now.pane)
      OBVIOUS
  <2> HIDE DEF now, drawn
  <2>3. ViewsInd' /\ pane'.notice = NoticeAfter(c)
      BY <1>1, <1>2, <2>1, <2>2, ReturnIs
  <2> QED BY <1>1, <2>3
<1>3. CASE ~(flow = "pane" /\ c.pane = pane.n) /\ UNCHANGED <<pane, subs>>
  <2>1. HostOK' /\ Onwards(objects', FALSE) /\ running' \subseteq Command /\ killing' \subseteq Sessions /\ UNCHANGED hearing
      BY <1>1, <1>3, StaysOn, SamePaneStays DEF hearing
  <2>2. CASE flow = "pane"
    <3>1. (Owes(running, pane.n) \/ FALSE) => Owes(running', pane.n)
        BY <1>1, <1>3, <2>2 DEF Owes
    <3>2. SamePane(pane, pane') /\ PaneShape(pane')
        BY <1>3, SamePaneStays
    <3> QED BY <1>1, <1>3, <2>1, <3>1, <3>2, PaneStep
  <2>3. CASE flow # "pane"
    <3>1. PaneTyped' /\ PaneListens' /\ PaneFollows'
        BY <1>1, <1>3, <2>3 DEF ViewsInd, PaneTyped, PaneListens, PaneFollows
    <3>2. ListOK'
        BY <1>1, <2>1, SameListOK
    <3>3. ViewsInd'
        BY <2>1, <3>1, <3>2 DEF ViewsInd
    <3> QED BY <1>1, <1>3, <3>3
  <2> QED BY <2>2, <2>3
<1> HIDE DEF now, drawn
<1> QED BY <1>1, <1>2, <1>3

-----------------------------------------------------------------------------
(* Every step.                                                             *)

\* The invariant holds at first.
LEMMA InitViews == ViewsInit => ViewsInd
<1> SUFFICES ASSUME ViewsInit PROVE ViewsInd
    OBVIOUS
<1>1. PICK a \in Sessions : live = [s \in Sessions |-> IF s = a THEN 1 ELSE 0] /\ order = <<a>>
    BY DEF ViewsInit
<1>2. /\ parent = [s \in Sessions |-> NoOne] /\ objects = <<Fresh>> /\ flow = "closed" /\ list = NoList /\ killing = {}
      /\ pane = NoPane /\ subs = {} /\ bus = {} /\ running = {}
    BY DEF ViewsInit
<1>3. AgentsOK(objects)
  <2>1. <<>> \in Seq(Message)
      OBVIOUS
  <2>2. Fresh \in Agent /\ Fresh.msgs = <<>> /\ Fresh.phase = "idle"
      BY <2>1 DEF Fresh, Agent, Phases
  <2>3. AgentOK(Fresh)
      BY <2>1, <2>2 DEF AgentOK, RunOK, Phases
  <2>4. objects \in Seq(Agent) /\ Len(objects) = 1 /\ objects[1] = Fresh
      BY <1>2, <2>2
  <2>5. 1 <= MaxObjects
      BY ViewsAssumption
  <2> QED BY <2>3, <2>4, <2>5 DEF AgentsOK
<1>4. MapOK(live, order, parent, Len(objects))
  <2>1. Len(objects) = 1
      BY <1>2
  <2>2. live \in [Sessions -> 0 .. 1] /\ parent \in [Sessions -> Sessions \cup {Host, NoOne}]
      BY <1>1, <1>2
  <2>3. order \in Seq(Sessions) /\ ToSet(order) = {a}
      BY <1>1 DEF ToSet
  <2>4. {a} = {s \in Sessions : live[s] # 0}
      BY <1>1
  <2> QED BY <2>1, <2>2, <2>3, <2>4 DEF MapOK
<1>5. ListOK
    BY <1>2, NoListShape DEF ListOK, CursorIsShown
<1>6. PaneShape(pane)
    BY <1>2 DEF PaneShape, NoPane
<1> QED BY <1>2, <1>3, <1>4, <1>5, <1>6 DEF ViewsInd, HostOK, PaneTyped, PaneListens, PaneFollows

\* Every step keeps the invariant.
LEMMA ViewsStep ==
    ASSUME ViewsInd, [ViewsNext]_viewVars
    PROVE  ViewsInd'
<1>1. CASE OpenFlow \/ CloseList \/ OpenGone \/ AskDirectory \/ DirectoryRefused
    BY <1>1, OpenCloseKeeps
<1>2. CASE MoveCursor \/ Filter \/ Ask \/ KeepIt \/ ConfirmKill
    BY <1>2, MoveKeeps, FilterKeeps, AskKeeps, KeepKeeps, ConfirmKeeps
<1>3. CASE OpenSelected \/ Leave \/ Render \/ SendText \/ OpenMode \/ CloseMode
    BY <1>3, SelectedKeeps, LeaveKeeps, RenderKeeps, ModeKeeps
<1>4. ASSUME NEW s \in Sessions,
             \/ DirectoryChosen(s) \/ DespawnEnds(s) \/ DespawnElsewhere(s) \/ ReplaceElsewhere(s)
             \/ RewriteElsewhere(s) \/ NoticeElsewhere(s)
      PROVE  ViewsInd'
    BY <1>4, ChosenKeeps, DespawnKeeps, ReplaceKeeps, NoticeKeeps
<1>5. ASSUME NEW s \in Sessions, NEW p \in Sessions \cup {Host, NoOne}, SpawnElsewhere(s, p)
      PROVE  ViewsInd'
    BY <1>5, SpawnKeeps
<1>6. ASSUME NEW o \in 1 .. Len(objects),
             UserSays(o) \/ AssistantStarts(o) \/ AssistantUpdates(o) \/ ToolStarts(o) \/ ToolEnds(o) \/ AgentEnds(o)
      PROVE  ViewsInd'
    BY <1>6, UserKeeps, AssistantStartKeeps, UpdateKeeps, ToolStartKeeps, ToolEndKeeps, AgentEndKeeps
<1>7. ASSUME NEW o \in 1 .. Len(objects), NEW failed \in BOOLEAN, AssistantEnds(o, failed)
      PROVE  ViewsInd'
    BY <1>7, EndKeeps
<1>8. ASSUME NEW kind \in Kinds, RunCommand(kind) \/ Choose(kind)
      PROVE  ViewsInd'
    BY <1>8, DispatchKeeps
<1>9. ASSUME NEW c \in running, CommandRefused(c) \/ CommandDone(c) \/ CommandFails(c) \/ CommandReturns(c)
      PROVE  ViewsInd'
    BY <1>9, RefusedKeeps, DoneKeeps, FailsKeeps, ReturnsKeeps
<1>10. CASE UNCHANGED viewVars
  <2>1. UNCHANGED <<flow, list, hearing, pane, running, host, objects>> /\ killing' = killing
      BY <1>10 DEF viewVars, hearing, host
  <2>2. HostOK' /\ Onwards(objects', FALSE) /\ killing' \subseteq Sessions
      BY <2>1, StaysOn, SamePaneStays
  <2> QED BY <2>1, <2>2, HostStep
<1> QED BY <1>1, <1>2, <1>3, <1>4, <1>5, <1>6, <1>7, <1>8, <1>9, <1>10 DEF ViewsNext

\* The inductive invariant.
LEMMA ViewsIndHolds == ViewsSpec => []ViewsInd
<1> QED BY InitViews, ViewsStep, PTL DEF ViewsSpec

-----------------------------------------------------------------------------
(* What follows.                                                           *)

\* What a user of the views may rely on follows from the invariant.
LEMMA IndIsSound == ViewsInd => ViewsAreSound
<1> SUFFICES ASSUME ViewsInd PROVE ViewsAreSound
    OBVIOUS
<1>1. AgentsOK(objects) /\ MapOK(live, order, parent, Len(objects)) /\ ListOK /\ running \subseteq Command /\ PaneTyped /\ PaneListens /\ PaneFollows
    BY DEF ViewsInd, HostOK
<1>2. ViewsTypeOK
  <2>1. live \in [Sessions -> 0 .. MaxObjects]
    <3>1. Len(objects) \in Nat /\ Len(objects) <= MaxObjects /\ MaxObjects \in Nat
        BY <1>1, ViewsAssumption DEF AgentsOK
    <3> QED BY <1>1, <3>1 DEF MapOK
  <2>2. ASSUME NEW o \in 1 .. Len(objects) PROVE ToSet(objects[o].msgs) \subseteq Message
    <3>1. objects[o].msgs \in Seq(Message)
        BY <1>1 DEF AgentsOK, AgentOK, RunOK
    <3> QED BY <3>1, SetOfSeq
  <2>3. pane.mode \in {"transcript", "choosing"} /\ \A c \in running : c.kind \in Kinds
      BY <1>1 DEF PaneTyped, PaneShape, Command
  <2> QED BY <1>1, <2>1, <2>2, <2>3 DEF ViewsTypeOK, MapOK, ListOK
<1>3. PaneIsItsSession
  <2> DEFINE o == objects[pane.shows]
             right == Rebuilt(o.msgs)
  <2> SUFFICES ASSUME flow = "pane"
               PROVE  /\ pane.epoch = o.epoch => /\ Order(pane.drawn) = Order(right)
                                                 /\ Results(pane.drawn) \ {i \in DOMAIN o.msgs : o.msgs[i].tool = "cut"} = Results(right)
                      /\ pane.epoch # o.epoch => o.others \/ \E c \in running : c.pane = pane.n
      BY DEF PaneIsItsSession
  <2>1. Follows(pane.drawn, pane.epoch, o, Owes(running, pane.n)) /\ AgentOK(o)
      BY <1>1 DEF PaneFollows, PaneTyped, PaneIn, AgentsOK
  <2> HIDE DEF o
  <2>2. o.msgs \in Seq(Message)
      BY <2>1 DEF AgentOK, RunOK
  <2>3. Results(right) = Marked(o.msgs, "done")
      BY <2>2, RebuiltIs DEF Done, Marked
  <2>4. ASSUME pane.epoch = o.epoch
        PROVE  Order(pane.drawn) = Order(right) /\ Results(pane.drawn) \ {i \in DOMAIN o.msgs : o.msgs[i].tool = "cut"} = Results(right)
    <3>1. Order(pane.drawn) = Order(right) /\ Results(pane.drawn) \ Marked(o.msgs, "cut") = Marked(o.msgs, "done")
        BY <2>1, <2>4 DEF Follows, InStep, Matches
    <3> QED BY <2>3, <3>1 DEF Marked
  <2>5. ASSUME pane.epoch # o.epoch PROVE o.others \/ \E c \in running : c.pane = pane.n
      BY <2>1, <2>5 DEF Follows, Owes
  <2> QED BY <2>4, <2>5
<1> QED BY <1>1, <1>2, <1>3 DEF ViewsAreSound, ListOK

\* The views stay attached to what they show (attach-view.ts adoptSession, session-transcript.ts, sessions-view.ts): the
\* pane on screen listens to its session and to nothing else, it has drawn the messages of that session, once each and
\* with their results (a call that was cut off excepted, whose end a rebuild does not draw), unless they were rewritten
\* behind its back, and the cursor of the list is on a row that is shown.
THEOREM ViewsSound == ViewsSpec => []ViewsAreSound
<1> QED BY ViewsIndHolds, IndIsSound, PTL

\* What a step does to the pane's notice.
NoticeStep ==
    (flow = "pane" /\ flow' = "pane" /\ pane.notice # 0 /\ pane'.notice = 0) =>
        \/ running' = running
        \/ \E c \in running \ running' : c.result = "refused" \/ c.before >= pane.notice

\* Every step keeps to it.
LEMMA NoticeOn ==
    ASSUME ViewsInd, [ViewsNext]_viewVars
    PROVE  [NoticeStep]_viewVars
<1>0. PaneShape(pane) /\ running \subseteq Command
    BY SamePaneStays
<1>1. ASSUME running' = running PROVE NoticeStep
    BY <1>1 DEF NoticeStep
<1>3. ASSUME NEW kind \in Kinds, RunCommand(kind) \/ Choose(kind)
      PROVE  NoticeStep
  <2>1. pane'.notice = pane.notice
      BY <1>0, <1>3 DEF RunCommand, Choose, PaneShape
  <2> QED BY <2>1 DEF NoticeStep
<1>4. ASSUME NEW c \in running, CommandRefused(c) \/ CommandDone(c)
      PROVE  NoticeStep
  <2>1. pane' = pane
      BY <1>4 DEF CommandRefused, CommandDone
  <2> QED BY <2>1 DEF NoticeStep
<1>5. ASSUME NEW c \in running, CommandFails(c)
      PROVE  NoticeStep
  <2>1. pane' = pane \/ pane'.notice # 0
      BY <1>0, <1>5, NoticedIs DEF CommandFails
  <2> QED BY <2>1 DEF NoticeStep
<1>6. ASSUME NEW c \in running, CommandReturns(c)
      PROVE  NoticeStep
  <2>1. pane'.notice = pane.notice \/ (pane'.notice = NoticeAfter(c) /\ c \in running \ running')
      BY <1>6, ReturnsKeeps
  <2>2. ASSUME pane.notice # 0, NoticeAfter(c) = 0 PROVE c.result = "refused" \/ c.before >= pane.notice
    <3>1. c.result = "refused" \/ c.before = pane.notices
        BY <2>2 DEF NoticeAfter
    <3>2. pane.notice \in Nat /\ pane.notices \in Nat /\ pane.notice <= pane.notices
        BY <1>0 DEF PaneShape
    <3> QED BY <3>1, <3>2
  <2> QED BY <2>1, <2>2 DEF NoticeStep
<1>7. ASSUME ViewsNext PROVE NoticeStep
  <2>1. CASE OpenFlow \/ CloseList \/ MoveCursor \/ Filter \/ Ask \/ KeepIt \/ ConfirmKill \/ OpenGone \/ AskDirectory \/ DirectoryRefused
    <3>1. running' = running
        BY <2>1 DEF OpenFlow, CloseList, MoveCursor, Filter, Ask, KeepIt, ConfirmKill, OpenGone, AskDirectory, DirectoryRefused
    <3> QED BY <1>1, <3>1
  <2>2. CASE OpenSelected \/ Leave \/ Render \/ SendText \/ OpenMode \/ CloseMode
    <3>1. running' = running
        BY <2>2 DEF OpenSelected, Leave, Render, SendText, OpenMode, CloseMode
    <3> QED BY <1>1, <3>1
  <2>3. ASSUME NEW s \in Sessions,
               \/ DirectoryChosen(s) \/ DespawnEnds(s) \/ DespawnElsewhere(s) \/ ReplaceElsewhere(s)
               \/ RewriteElsewhere(s) \/ NoticeElsewhere(s) \/ \E p \in Sessions \cup {Host, NoOne} : SpawnElsewhere(s, p)
        PROVE  NoticeStep
    <3>1. running' = running
        BY <2>3 DEF DirectoryChosen, DespawnEnds, DespawnElsewhere, ReplaceElsewhere, RewriteElsewhere, NoticeElsewhere, SpawnElsewhere
    <3> QED BY <1>1, <3>1
  <2>4. ASSUME NEW o \in 1 .. Len(objects),
               \/ UserSays(o) \/ AssistantStarts(o) \/ AssistantUpdates(o) \/ ToolStarts(o) \/ ToolEnds(o) \/ AgentEnds(o)
               \/ \E failed \in BOOLEAN : AssistantEnds(o, failed)
        PROVE  NoticeStep
    <3>1. running' = running
        BY <2>4 DEF UserSays, AssistantStarts, AssistantUpdates, ToolStarts, ToolEnds, AgentEnds, AssistantEnds, Says
    <3> QED BY <1>1, <3>1
  <2> QED BY <1>3, <1>4, <1>5, <1>6, <1>7, <2>1, <2>2, <2>3, <2>4 DEF ViewsNext
<1>8. CASE UNCHANGED viewVars
    BY <1>8
<1> QED BY <1>7, <1>8

\* A notice leaves the pane when text is sent, or when a command returns that was given after it was shown: never
\* when the command that failed with it returns.
THEOREM NoticesStay == ViewsSpec => NoticeStays
<1>1. ViewsInd /\ [ViewsNext]_viewVars => [NoticeStep]_viewVars
    BY NoticeOn
<1>2. ViewsSpec => [][NoticeStep]_viewVars
    BY <1>1, ViewsIndHolds, PTL DEF ViewsSpec
<1> QED BY <1>2 DEF NoticeStep, NoticeStays

\* What a step does to the list.
ListActs ==
    /\ (flow' = "list" /\ flow \notin {"list", "asking"}) => IsTree(list'.rows)
    /\ (flow = "list" /\ flow' = "list" /\ list.shown # list'.shown /\ list.cursor \in ToSet(list'.shown)) =>
          list'.cursor = list.cursor
    /\ \A s \in killing' \ killing : s = list.asked /\ s # Host
    /\ (flow = "list" /\ flow' = "pane") => pane'.id = list.cursor

\* Every step keeps to it.
LEMMA ListActsOn ==
    ASSUME ViewsInd, [ViewsNext]_viewVars
    PROVE  [ListActs]_viewVars
<1>1. ASSUME UNCHANGED <<flow, list>>, killing' \subseteq killing PROVE ListActs
    BY <1>1 DEF ListActs
<1>2. ASSUME OpenFlow \/ DirectoryRefused \/ Leave PROVE ListActs
  <2>1. flow # "list" /\ UNCHANGED killing /\ (ListOpens \/ flow' = "closed")
      BY <1>2 DEF OpenFlow, DirectoryRefused, Leave
  <2>2. ListOpens => IsTree(list'.rows)
      BY ListOpensOn DEF ViewsInd
  <2> QED BY <2>1, <2>2 DEF ListActs
<1>3. ASSUME CloseList \/ OpenGone \/ AskDirectory PROVE ListActs
  <2>1. flow' \in {"closed", "directory"} /\ UNCHANGED killing
      BY <1>3 DEF CloseList, OpenGone, AskDirectory
  <2> QED BY <2>1 DEF ListActs
<1>4. ASSUME MoveCursor PROVE ListActs
  <2>1. flow = "list" /\ flow' = "list" /\ UNCHANGED killing /\ \E s : list' = [list EXCEPT !.cursor = s]
      BY <1>4 DEF MoveCursor
  <2>2. list'.shown = list.shown
      BY <2>1, ListIs DEF ListShape
  <2> QED BY <2>1, <2>2 DEF ListActs
<1>5. ASSUME Filter PROVE ListActs
  <2>1. PICK F \in SUBSET ToSet(list.rows) : list' = Filtered(F)
      BY <1>5 DEF Filter
  <2>2. flow = "list" /\ flow' = "list" /\ UNCHANGED killing
      BY <1>5 DEF Filter
  <2>3. ToSet(list'.shown) = F /\ (list.cursor \in F => list'.cursor = list.cursor)
      BY <2>1, <2>2, FilteredIs
  <2> QED BY <2>2, <2>3 DEF ListActs
<1>6. ASSUME Ask \/ KeepIt PROVE ListActs
  <2>1. (flow = "list" => flow' = "asking") /\ flow \in {"list", "asking"} /\ flow' # "pane" /\ UNCHANGED killing
      BY <1>6 DEF Ask, KeepIt
  <2> QED BY <2>1 DEF ListActs
<1>7. ASSUME ConfirmKill PROVE ListActs
  <2>1. flow = "asking" /\ flow' = "list" /\ killing' = killing \cup {list.asked} /\ list.asked \in Sessions
      BY <1>7, ConfirmKeeps DEF ConfirmKill
  <2> QED BY <2>1, ViewsAssumption DEF ListActs
<1>8. ASSUME OpenSelected PROVE ListActs
  <2>1. flow' = "pane" /\ UNCHANGED killing /\ pane'.id = list.cursor
      BY <1>8, SelectedKeeps DEF OpenSelected, PaneOpens
  <2> QED BY <2>1 DEF ListActs
<1>9. ASSUME Render \/ SendText \/ OpenMode \/ CloseMode PROVE ListActs
    BY <1>1, <1>9 DEF Render, SendText, OpenMode, CloseMode, people
<1>10. ASSUME NEW s \in Sessions, DirectoryChosen(s) PROVE ListActs
  <2>1. flow = "directory" /\ flow' = "pane" /\ UNCHANGED killing
      BY <1>10 DEF DirectoryChosen, PaneOpens
  <2> QED BY <2>1 DEF ListActs
<1>11. ASSUME NEW s \in Sessions,
              \/ DespawnEnds(s) \/ DespawnElsewhere(s) \/ ReplaceElsewhere(s)
              \/ RewriteElsewhere(s) \/ NoticeElsewhere(s) \/ \E p \in Sessions \cup {Host, NoOne} : SpawnElsewhere(s, p)
       PROVE  ListActs
    BY <1>1, <1>11 DEF DespawnEnds, DespawnElsewhere, ReplaceElsewhere, RewriteElsewhere, NoticeElsewhere, SpawnElsewhere, ByOthers
<1>12. ASSUME NEW o \in 1 .. Len(objects),
              \/ UserSays(o) \/ AssistantStarts(o) \/ AssistantUpdates(o) \/ ToolStarts(o) \/ ToolEnds(o) \/ AgentEnds(o)
              \/ \E failed \in BOOLEAN : AssistantEnds(o, failed)
       PROVE  ListActs
    BY <1>1, <1>12 DEF UserSays, AssistantStarts, AssistantUpdates, ToolStarts, ToolEnds, AgentEnds, AssistantEnds, Says, people
<1>13. ASSUME NEW kind \in Kinds, RunCommand(kind) \/ Choose(kind)
       PROVE  ListActs
    BY <1>1, <1>13 DEF RunCommand, Choose, Dispatched, people
<1>14. ASSUME NEW c \in running, CommandRefused(c) \/ CommandDone(c) \/ CommandFails(c) \/ CommandReturns(c)
       PROVE  ListActs
    BY <1>1, <1>14 DEF CommandRefused, CommandDone, CommandFails, CommandReturns, people
<1>15. CASE UNCHANGED viewVars
    BY <1>15
<1>16. ASSUME ViewsNext PROVE ListActs
    BY <1>2, <1>3, <1>4, <1>5, <1>6, <1>7, <1>8, <1>9, <1>10, <1>11, <1>12, <1>13, <1>14, <1>16 DEF ViewsNext
<1> QED BY <1>15, <1>16

\* The list that opens shows every session in its place, filtering leaves the cursor on its session while that is shown,
\* and what is killed or opened is the session asked about or under the cursor.
THEOREM ListActsRight == ViewsSpec => ListActsOnItsRow
<1>1. ViewsInd /\ [ViewsNext]_viewVars => [ListActs]_viewVars
    BY ListActsOn
<1>2. ViewsSpec => [][ListActs]_viewVars
    BY <1>1, ViewsIndHolds, PTL DEF ViewsSpec
<1> QED BY <1>2 DEF ListActs, ListActsOnItsRow
=============================================================================
