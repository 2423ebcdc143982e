----------------------------- MODULE ListProofs -----------------------------
(***************************************************************************)
(* Proofs about the lists the page keeps in the browser, for any views,    *)
(* entries and limits: commands, starred commands, searches, bookmarks and *)
(* snapshots.  They rest on lemmas about lists, among them what            *)
(* Array.filter leaves of a list; a list is taken one entry at a time, by  *)
(* induction over the set of the lists for which the lemma holds.          *)
(***************************************************************************)
EXTENDS KeptLists, WellFoundedInduction, FiniteSetTheorems, SequenceTheorems, TLAPS

-----------------------------------------------------------------------------
(* Induction, over a set of numbers and over a set of sequences.            *)

LEMMA NatMin == ASSUME NEW T \in SUBSET Nat, T # {} PROVE \E n \in T : \A m \in T : n <= m
<1>1. PICK R : R = OpToRel(<, Nat)
  OBVIOUS
<1>2. IsWellFoundedOn(R, Nat)
  BY <1>1, NatLessThanWellFounded
<1>3. PICK n \in T : \A m \in T : <<m, n>> \notin R
  BY <1>2, WFMin
<1>4. \A m, k \in Nat : m < k => <<m,k>> \in R
  BY <1>1 DEF OpToRel
<1>5. \A m \in T : ~(m < n)
  BY <1>3, <1>4
<1>6. \A m \in T : n <= m
  BY <1>5
<1> QED BY <1>6

LEMMA NatInd ==
  ASSUME NEW P, 0 \in P, \A n \in Nat : n \in P => n + 1 \in P
  PROVE  \A n \in Nat : n \in P
<1>1. SUFFICES ASSUME NEW x \in Nat, x \notin P PROVE FALSE
  OBVIOUS
<1>2. PICK n \in Nat \ P : \A m \in Nat \ P : n <= m
  <2>1. Nat \ P \in SUBSET Nat /\ Nat \ P # {}
    BY <1>1
  <2> QED BY <2>1, NatMin
<1>3. n # 0 /\ n - 1 \in Nat
  BY <1>2
<1>4. n - 1 \in P
  BY <1>2, <1>3
<1>5. n - 1 + 1 \in P
  BY <1>3, <1>4
<1>6. n - 1 + 1 = n
  BY <1>2
<1> QED BY <1>2, <1>5, <1>6

LEMMA SeqInd ==
  ASSUME NEW U, NEW P, <<>> \in P,
         \A s \in Seq(U), x \in U : s \in P => Append(s, x) \in P
  PROVE  \A s \in Seq(U) : s \in P
<1>1. PICK L : L = {n \in Nat : \A s \in Seq(U) : Len(s) = n => s \in P}
  OBVIOUS
<1>2. 0 \in L
  BY <1>1
<1>3. ASSUME NEW n \in Nat, n \in L PROVE n + 1 \in L
  <2>1. SUFFICES ASSUME NEW s \in Seq(U), Len(s) = n + 1 PROVE s \in P
    BY <1>1
  <2>2. PICK t : t = SubSeq(s, 1, n)
    OBVIOUS
  <2>3. t \in Seq(U) /\ Len(t) = n /\ s[n + 1] \in U
    BY <2>1, <2>2, <1>3
  <2>4. s = Append(t, s[n + 1])
    BY <2>1, <2>2, <2>3
  <2>5. t \in P
    BY <1>1, <1>3, <2>3
  <2> QED BY <2>3, <2>4, <2>5
<1>4. \A n \in Nat : n \in L
  BY <1>2, <1>3, NatInd
<1> QED BY <1>1, <1>4

-----------------------------------------------------------------------------
(* What Array.filter leaves of a list.                                      *)

(* The table Filtered is the last entry of.                                 *)
FilterRow(list, S, g, n) ==
  IF n = 0 THEN <<>>
  ELSE IF list[n] \in S THEN Append(g[n - 1], list[n])
  ELSE g[n - 1]

IsFilter(list, S, g) == g = [n \in 0 .. Len(list) |-> FilterRow(list, S, g, n)]

LEMMA FilterRows ==
  ASSUME NEW list, NEW S, NEW g, IsFilter(list, S, g), NEW n \in 0 .. Len(list)
  PROVE  g[n] = FilterRow(list, S, g, n)
<1>1. PICK D, r : D = 0 .. Len(list) /\ r = [k \in D |-> FilterRow(list, S, g, k)]
  OBVIOUS
<1>2. g = r /\ n \in D
  BY <1>1 DEF IsFilter
<1>3. r[n] = FilterRow(list, S, g, n)
  BY <1>1, <1>2
<1> QED BY <1>2, <1>3

LEMMA FilterExists ==
  ASSUME NEW list, NEW S, Len(list) \in Nat
  PROVE  \E g : IsFilter(list, S, g)
<1>1. PICK D : D = 0 .. Len(list)
  OBVIOUS
<1>2. PICK P : P = {k \in Nat : k \in D =>
                      \E g : /\ DOMAIN g = D /\ g = [n \in D |-> g[n]]
                             /\ \A n \in 0 .. k : g[n] = FilterRow(list, S, g, n)}
  OBVIOUS
<1>3. 0 \in P
  <2>1. PICK g : g = [n \in D |-> <<>>]
    OBVIOUS
  <2>2. 0 \in D /\ g[0] = FilterRow(list, S, g, 0) /\ 0 .. 0 = {0}
    BY <1>1, <2>1 DEF FilterRow
  <2>3. DOMAIN g = D /\ g = [n \in D |-> g[n]]
    BY <2>1
  <2>4. \A n \in 0 .. 0 : g[n] = FilterRow(list, S, g, n)
    BY <2>2
  <2> QED BY <1>2, <2>3, <2>4
<1>4. ASSUME NEW k \in Nat, k \in P PROVE k + 1 \in P
  <2>1. SUFFICES ASSUME k + 1 \in D
                 PROVE \E g : /\ DOMAIN g = D /\ g = [n \in D |-> g[n]]
                              /\ \A n \in 0 .. k + 1 : g[n] = FilterRow(list, S, g, n)
    BY <1>2
  <2>2. k \in D
    BY <1>1, <2>1
  <2>3. PICK g : /\ DOMAIN g = D /\ g = [n \in D |-> g[n]]
                 /\ \A n \in 0 .. k : g[n] = FilterRow(list, S, g, n)
    BY <1>2, <1>4, <2>2
  <2>4. PICK h : h = [g EXCEPT ![k + 1] = FilterRow(list, S, g, k + 1)]
    OBVIOUS
  <2>5. DOMAIN h = D /\ h = [n \in D |-> h[n]] /\ h[k + 1] = FilterRow(list, S, g, k + 1)
    BY <2>1, <2>3, <2>4
  <2>6. \A n \in 0 .. k : h[n] = g[n]
    BY <1>1, <2>1, <2>3, <2>4
  <2>7. h[k + 1] = FilterRow(list, S, h, k + 1)
    <3>1. k + 1 - 1 = k /\ h[k] = g[k]
      BY <2>6
    <3> QED BY <2>5, <3>1 DEF FilterRow
  <2>8. ASSUME NEW n \in 0 .. k PROVE h[n] = FilterRow(list, S, h, n)
    <3>1. n = 0 \/ (n - 1 \in 0 .. k)
      BY <2>8
    <3>2. n = 0 \/ h[n - 1] = g[n - 1]
      BY <2>6, <3>1
    <3>3. h[n] = g[n] /\ g[n] = FilterRow(list, S, g, n)
      BY <2>3, <2>6
    <3> QED BY <3>2, <3>3 DEF FilterRow
  <2>9. \A n \in 0 .. k + 1 : n \in 0 .. k \/ n = k + 1
    OBVIOUS
  <2>10. \A n \in 0 .. k + 1 : h[n] = FilterRow(list, S, h, n)
    BY <2>7, <2>8, <2>9
  <2> QED BY <2>5, <2>10
<1>5. Len(list) \in P
  <2>1. \A n \in Nat : n \in P
    BY <1>3, <1>4, NatInd
  <2> QED BY <2>1
<1>6. PICK g : /\ DOMAIN g = D /\ g = [n \in D |-> g[n]]
               /\ \A n \in 0 .. Len(list) : g[n] = FilterRow(list, S, g, n)
  BY <1>1, <1>2, <1>5
<1>7. [n \in D |-> g[n]] = [n \in D |-> FilterRow(list, S, g, n)]
  BY <1>1, <1>6
<1>8. IsFilter(list, S, g)
  BY <1>1, <1>6, <1>7 DEF IsFilter
<1> QED BY <1>8

LEMMA FilteredIs ==
  ASSUME NEW list, NEW S, Len(list) \in Nat
  PROVE  \E g : IsFilter(list, S, g) /\ Filtered(list, S) = g[Len(list)]
<1>1. PICK g : g = CHOOSE h : IsFilter(list, S, h)
  OBVIOUS
<1>2. IsFilter(list, S, g)
  BY <1>1, FilterExists
<1>3. Filtered(list, S) = g[Len(list)]
  BY <1>1 DEF Filtered, IsFilter, FilterRow
<1> QED BY <1>2, <1>3

(* Two tables of lists with a common beginning agree on it.                 *)
LEMMA FilterAgrees ==
  ASSUME NEW s, NEW t, NEW S, NEW g, NEW h, Len(s) \in Nat, Len(t) \in Nat, Len(s) <= Len(t),
         \A n \in 1 .. Len(s) : t[n] = s[n], IsFilter(s, S, g), IsFilter(t, S, h)
  PROVE  \A n \in 0 .. Len(s) : h[n] = g[n]
<1>1. PICK P : P = {n \in Nat : n \in 0 .. Len(s) => h[n] = g[n]}
  OBVIOUS
<1>2. /\ \A n \in 0 .. Len(s) : g[n] = FilterRow(s, S, g, n)
      /\ \A n \in 0 .. Len(s) : h[n] = FilterRow(t, S, h, n)
  <2>1. \A n \in 0 .. Len(s) : g[n] = FilterRow(s, S, g, n)
    BY FilterRows
  <2>2. \A n \in 0 .. Len(t) : h[n] = FilterRow(t, S, h, n)
    BY FilterRows
  <2>3. \A n \in 0 .. Len(s) : n \in 0 .. Len(t)
    OBVIOUS
  <2> QED BY <2>1, <2>2, <2>3
<1>3. 0 \in P
  BY <1>1, <1>2 DEF FilterRow
<1>4. ASSUME NEW n \in Nat, n \in P PROVE n + 1 \in P
  <2>1. SUFFICES ASSUME n + 1 \in 0 .. Len(s) PROVE h[n + 1] = g[n + 1]
    BY <1>1
  <2>2. n \in 0 .. Len(s) /\ n + 1 \in 1 .. Len(s) /\ n + 1 # 0 /\ n + 1 - 1 = n
    BY <2>1
  <2>3. h[n] = g[n] /\ t[n + 1] = s[n + 1]
    BY <1>1, <1>4, <2>2
  <2>4. g[n + 1] = FilterRow(s, S, g, n + 1) /\ h[n + 1] = FilterRow(t, S, h, n + 1)
    BY <1>2, <2>1
  <2> QED BY <2>2, <2>3, <2>4 DEF FilterRow
<1>5. \A n \in Nat : n \in P
  BY <1>3, <1>4, NatInd
<1> QED BY <1>1, <1>5

LEMMA FilteredNone == ASSUME NEW S PROVE Filtered(<<>>, S) = <<>>
<1>1. Len(<<>>) = 0
  OBVIOUS
<1>2. PICK g : IsFilter(<<>>, S, g) /\ Filtered(<<>>, S) = g[0]
  BY <1>1, FilteredIs
<1>3. g[0] = <<>>
  BY <1>1, <1>2 DEF IsFilter, FilterRow
<1> QED BY <1>2, <1>3

(* What the filter makes of a list with one more entry.                     *)
LEMMA FilteredAppend ==
  ASSUME NEW U, NEW s \in Seq(U), NEW x \in U, NEW S
  PROVE  Filtered(Append(s, x), S) = IF x \in S THEN Append(Filtered(s, S), x) ELSE Filtered(s, S)
<1>1. PICK t : t = Append(s, x)
  OBVIOUS
<1>2. /\ Len(s) \in Nat /\ Len(t) = Len(s) + 1 /\ Len(s) <= Len(t) /\ Len(t) \in Nat
      /\ t[Len(t)] = x /\ \A n \in 1 .. Len(s) : t[n] = s[n]
  BY <1>1
<1>3. PICK g : IsFilter(s, S, g) /\ Filtered(s, S) = g[Len(s)]
  BY <1>2, FilteredIs
<1>4. PICK h : IsFilter(t, S, h) /\ Filtered(t, S) = h[Len(t)]
  BY <1>2, FilteredIs
<1>5. \A n \in 0 .. Len(s) : h[n] = g[n]
  BY <1>2, <1>3, <1>4, FilterAgrees
<1>6. h[Len(s)] = g[Len(s)]
  BY <1>2, <1>5
<1>7. h[Len(t)] = FilterRow(t, S, h, Len(t))
  BY <1>2, <1>4 DEF IsFilter
<1>8. Len(t) # 0 /\ Len(t) - 1 = Len(s)
  BY <1>2
<1>9. h[Len(t)] = IF x \in S THEN Append(h[Len(s)], x) ELSE h[Len(s)]
  BY <1>2, <1>7, <1>8 DEF FilterRow
<1> QED BY <1>1, <1>3, <1>4, <1>6, <1>9

LEMMA AppendIs ==
  ASSUME NEW U, NEW s \in Seq(U), NEW x \in U
  PROVE  /\ Append(s, x) \in Seq(U) /\ Len(Append(s, x)) = Len(s) + 1 /\ Len(s) \in Nat
         /\ Range(Append(s, x)) = Range(s) \cup {x}
         /\ \A n \in 1 .. Len(s) : Append(s, x)[n] = s[n]
         /\ Append(s, x)[Len(s) + 1] = x
<1>1. /\ Append(s, x) \in Seq(U) /\ Len(Append(s, x)) = Len(s) + 1 /\ Len(s) \in Nat
      /\ \A n \in 1 .. Len(s) : Append(s, x)[n] = s[n]
      /\ Append(s, x)[Len(s) + 1] = x
  OBVIOUS
<1>2. PICK t : t = Append(s, x)
  OBVIOUS
<1>3. 1 .. Len(t) = (1 .. Len(s)) \cup {Len(s) + 1}
  BY <1>1, <1>2
<1>4. Range(t) = Range(s) \cup {x}
  BY <1>1, <1>2, <1>3 DEF Range
<1> QED BY <1>1, <1>2, <1>4

(* What a filter leaves has the members it lets through, no more of them    *)
(* than there were.                                                         *)
FilteredIsPart(s, S, U) ==
  /\ Filtered(s, S) \in Seq(U)
  /\ Range(Filtered(s, S)) = Range(s) \cap S
  /\ Len(Filtered(s, S)) \in Nat /\ Len(Filtered(s, S)) <= Len(s)

LEMMA FilteredPart ==
  ASSUME NEW U, NEW S, NEW list \in Seq(U)
  PROVE  FilteredIsPart(list, S, U)
<1>1. PICK P : P = {s \in Seq(U) : FilteredIsPart(s, S, U)}
  OBVIOUS
<1>2. <<>> \in P
  <2>1. PICK e : e = <<>>
    OBVIOUS
  <2>2. Filtered(e, S) = e /\ e \in Seq(U) /\ Len(e) = 0
    BY <2>1, FilteredNone
  <2>3. Range(e) = {}
    BY <2>2 DEF Range
  <2>4. FilteredIsPart(e, S, U)
    BY <2>2, <2>3 DEF FilteredIsPart
  <2> QED BY <1>1, <2>1, <2>2, <2>4
<1>3. ASSUME NEW s \in Seq(U), NEW x \in U, s \in P PROVE Append(s, x) \in P
  <2>1. FilteredIsPart(s, S, U)
    BY <1>1, <1>3
  <2>2. PICK t : t = Filtered(s, S)
    OBVIOUS
  <2>3. t \in Seq(U) /\ Range(t) = Range(s) \cap S /\ Len(t) <= Len(s)
    BY <2>1, <2>2 DEF FilteredIsPart
  <2>4. /\ Append(t, x) \in Seq(U) /\ Len(Append(t, x)) = Len(t) + 1 /\ Len(t) \in Nat
        /\ Range(Append(t, x)) = Range(t) \cup {x}
    BY <2>3, AppendIs
  <2>5. /\ Append(s, x) \in Seq(U) /\ Len(Append(s, x)) = Len(s) + 1 /\ Len(s) \in Nat
        /\ Range(Append(s, x)) = Range(s) \cup {x}
    BY AppendIs
  <2>6. CASE x \in S
    <3>1. Filtered(Append(s, x), S) = Append(t, x)
      BY <2>2, <2>6, FilteredAppend
    <3>2. Range(Append(t, x)) = Range(Append(s, x)) \cap S
      BY <2>3, <2>4, <2>5, <2>6
    <3>3. FilteredIsPart(Append(s, x), S, U)
      BY <2>3, <2>4, <2>5, <3>1, <3>2 DEF FilteredIsPart
    <3> QED BY <1>1, <2>5, <3>3
  <2>7. CASE x \notin S
    <3>1. Filtered(Append(s, x), S) = t
      BY <2>2, <2>7, FilteredAppend
    <3>2. Range(t) = Range(Append(s, x)) \cap S
      BY <2>3, <2>5, <2>7
    <3>3. FilteredIsPart(Append(s, x), S, U)
      BY <2>3, <2>4, <2>5, <3>1, <3>2 DEF FilteredIsPart
    <3> QED BY <1>1, <2>5, <3>3
  <2> QED BY <2>6, <2>7
<1>4. \A s \in Seq(U) : s \in P
  BY <1>2, <1>3, SeqInd
<1> QED BY <1>1, <1>4

(* A wider filter leaves at least as much.                                  *)
LEMMA FilteredGrows ==
  ASSUME NEW U, NEW S, NEW T, S \subseteq T, NEW list \in Seq(U)
  PROVE  Len(Filtered(list, S)) <= Len(Filtered(list, T))
<1>1. PICK P : P = {s \in Seq(U) : Len(Filtered(s, S)) <= Len(Filtered(s, T))}
  OBVIOUS
<1>2. <<>> \in P
  BY <1>1, FilteredNone
<1>3. ASSUME NEW s \in Seq(U), NEW x \in U, s \in P PROVE Append(s, x) \in P
  <2>1. PICK f, g : f = Filtered(s, S) /\ g = Filtered(s, T)
    OBVIOUS
  <2>2. f \in Seq(U) /\ g \in Seq(U)
    BY <2>1, FilteredPart DEF FilteredIsPart
  <2>3. Len(f) \in Nat /\ Len(g) \in Nat /\ Len(f) <= Len(g)
    BY <1>1, <1>3, <2>1, <2>2
  <2>4. Len(Append(f, x)) = Len(f) + 1 /\ Len(Append(g, x)) = Len(g) + 1
    BY <2>2
  <2>5. /\ Filtered(Append(s, x), S) = IF x \in S THEN Append(f, x) ELSE f
        /\ Filtered(Append(s, x), T) = IF x \in T THEN Append(g, x) ELSE g
    BY <2>1, FilteredAppend
  <2>6. Len(Filtered(Append(s, x), S)) <= Len(Filtered(Append(s, x), T))
    BY <2>3, <2>4, <2>5
  <2> QED BY <1>1, <2>6, AppendIs
<1>4. \A s \in Seq(U) : s \in P
  BY <1>2, <1>3, SeqInd
<1> QED BY <1>1, <1>4

(* A filter that lets everything through leaves the list.                   *)
LEMMA FilteredAll ==
  ASSUME NEW U, NEW S, NEW list \in Seq(U), Range(list) \subseteq S
  PROVE  Filtered(list, S) = list
<1>1. PICK P : P = {s \in Seq(U) : Range(s) \subseteq S => Filtered(s, S) = s}
  OBVIOUS
<1>2. <<>> \in P
  BY <1>1, FilteredNone
<1>3. ASSUME NEW s \in Seq(U), NEW x \in U, s \in P PROVE Append(s, x) \in P
  <2>1. SUFFICES ASSUME Range(Append(s, x)) \subseteq S
                 PROVE  Filtered(Append(s, x), S) = Append(s, x)
    BY <1>1, AppendIs
  <2>2. Range(s) \subseteq S /\ x \in S
    BY <2>1, AppendIs
  <2> QED BY <1>1, <1>3, <2>2, FilteredAppend
<1>4. \A s \in Seq(U) : s \in P
  BY <1>2, <1>3, SeqInd
<1> QED BY <1>1, <1>4

(* A list filtered in two pieces.                                           *)
LEMMA FilteredConcat ==
  ASSUME NEW U, NEW S, NEW front \in Seq(U), NEW back \in Seq(U)
  PROVE  Filtered(front \o back, S) = Filtered(front, S) \o Filtered(back, S)
<1>1. PICK P : P = {s \in Seq(U) : Filtered(front \o s, S) = Filtered(front, S) \o Filtered(s, S)}
  OBVIOUS
<1>2. <<>> \in P
  <2>1. front \o <<>> = front /\ Filtered(front, S) \in Seq(U)
    BY FilteredPart DEF FilteredIsPart
  <2>2. Filtered(front, S) \o <<>> = Filtered(front, S)
    BY <2>1
  <2> QED BY <1>1, <2>1, <2>2, FilteredNone
<1>3. ASSUME NEW s \in Seq(U), NEW x \in U, s \in P PROVE Append(s, x) \in P
  <2>1. PICK f, g : f = Filtered(front, S) /\ g = Filtered(s, S)
    OBVIOUS
  <2>2. f \in Seq(U) /\ g \in Seq(U)
    BY <2>1, FilteredPart DEF FilteredIsPart
  <2>3. front \o Append(s, x) = Append(front \o s, x) /\ front \o s \in Seq(U)
    OBVIOUS
  <2>4. f \o Append(g, x) = Append(f \o g, x)
    BY <2>2
  <2>5. Filtered(front \o s, S) = f \o g
    BY <1>1, <1>3, <2>1
  <2>6. Filtered(Append(front \o s, x), S) = IF x \in S THEN Append(f \o g, x) ELSE f \o g
    <3>1. PICK t \in Seq(U) : t = front \o s
      BY <2>3
    <3>2. Filtered(Append(t, x), S) = IF x \in S THEN Append(Filtered(t, S), x) ELSE Filtered(t, S)
      BY FilteredAppend
    <3> QED BY <2>3, <2>5, <3>1, <3>2
  <2>7. Filtered(Append(s, x), S) = IF x \in S THEN Append(g, x) ELSE g
    BY <2>1, FilteredAppend
  <2>8. Filtered(front \o Append(s, x), S) = f \o Filtered(Append(s, x), S)
    BY <2>3, <2>4, <2>6, <2>7
  <2> QED BY <1>1, <2>1, <2>8, AppendIs
<1>4. \A s \in Seq(U) : s \in P
  BY <1>2, <1>3, SeqInd
<1> QED BY <1>1, <1>4

LEMMA FilteredOne ==
  ASSUME NEW U, NEW x \in U, NEW S
  PROVE  Filtered(<<x>>, S) = IF x \in S THEN <<x>> ELSE <<>>
<1>1. <<x>> = Append(<<>>, x) /\ <<>> \in Seq(U)
  OBVIOUS
<1>2. PICK e : e = <<>> /\ e \in Seq(U)
  BY <1>1
<1>3. Filtered(Append(e, x), S) = IF x \in S THEN Append(Filtered(e, S), x) ELSE Filtered(e, S)
  BY <1>2, FilteredAppend, ZenonT(40)
<1>4. Filtered(e, S) = e
  BY <1>2, FilteredNone
<1> QED BY <1>1, <1>2, <1>3, <1>4

-----------------------------------------------------------------------------
(* The entries of p are the first of s.                                     *)
Begins(p, s) == Len(p) <= Len(s) /\ \A i \in 1 .. Len(p) : p[i] = s[i]

LEMMA BeginsRange ==
  ASSUME NEW p \in Seq(Entries), NEW s \in Seq(Entries), Begins(p, s)
  PROVE  Range(p) \subseteq Range(s)
<1>1. \A i \in DOMAIN p : i \in DOMAIN s /\ p[i] = s[i]
  BY DEF Begins
<1> QED BY <1>1 DEF Range

LEMMA BeginsRest ==
  ASSUME NEW p \in Seq(Entries), NEW s \in Seq(Entries), Begins(p, s)
  PROVE  \E r \in Seq(Entries) : s = p \o r
<1>1. PICK r : r = SubSeq(s, Len(p) + 1, Len(s))
  OBVIOUS
<1>2. r \in Seq(Entries) /\ Len(p) \in Nat /\ Len(s) \in Nat /\ Len(p) <= Len(s) /\ Len(r) = Len(s) - Len(p)
  BY <1>1 DEF Begins
<1>3. p \o r \in Seq(Entries) /\ Len(p \o r) = Len(s)
  BY <1>2
<1>4. ASSUME NEW i \in 1 .. Len(s) PROVE (p \o r)[i] = s[i]
  <2>1. CASE i <= Len(p)
    <3>1. (p \o r)[i] = p[i] /\ p[i] = s[i]
      BY <1>2, <1>4, <2>1 DEF Begins
    <3> QED BY <3>1
  <2>2. CASE ~(i <= Len(p))
    <3>1. i - Len(p) \in 1 .. Len(r)
      BY <1>2, <1>4, <2>2
    <3>2. (p \o r)[i] = r[i - Len(p)]
      BY <1>2, <1>4, <2>2
    <3>3. r[i - Len(p)] = s[i]
      BY <1>1, <1>2, <3>1
    <3> QED BY <3>2, <3>3
  <2> QED BY <2>1, <2>2
<1>5. p \o r = s
  <2>1. PICK t : t = p \o r
    OBVIOUS
  <2>2. t \in Seq(Entries) /\ Len(t) = Len(s) /\ \A i \in 1 .. Len(s) : t[i] = s[i]
    BY <1>3, <1>4, <2>1
  <2>3. t = s
    BY <2>2
  <2> QED BY <2>1, <2>3
<1> QED BY <1>2, <1>5

LEMMA BeginsConcat ==
  ASSUME NEW p \in Seq(Entries), NEW r \in Seq(Entries)
  PROVE  Begins(p, p \o r)
BY DEF Begins

LEMMA DroppedIs ==
  ASSUME NEW s \in Seq(Entries), NEW e \in Entries
  PROVE  /\ Dropped(s, e) \in Seq(Entries) /\ Range(Dropped(s, e)) = Range(s) \ {e}
         /\ Len(Dropped(s, e)) \in Nat /\ Len(Dropped(s, e)) <= Len(s)
<1>1. FilteredIsPart(s, Entries \ {e}, Entries)
  BY FilteredPart
<1>2. Range(s) \subseteq Entries
  BY DEF Range
<1> QED BY <1>1, <1>2 DEF FilteredIsPart, Dropped

LEMMA DroppedSame ==
  ASSUME NEW s \in Seq(Entries), NEW e \in Entries, e \notin Range(s)
  PROVE  Dropped(s, e) = s
<1>1. Range(s) \subseteq Entries \ {e}
  BY DEF Range
<1> QED BY <1>1, FilteredAll DEF Dropped

LEMMA BeginsDropped ==
  ASSUME NEW p \in Seq(Entries), NEW s \in Seq(Entries), NEW e \in Entries, Begins(p, s)
  PROVE  Begins(Dropped(p, e), Dropped(s, e))
<1>1. PICK r \in Seq(Entries) : s = p \o r
  BY BeginsRest
<1>2. Dropped(s, e) = Dropped(p, e) \o Dropped(r, e)
  BY <1>1, FilteredConcat DEF Dropped
<1>3. Dropped(p, e) \in Seq(Entries) /\ Dropped(r, e) \in Seq(Entries)
  BY DroppedIs
<1> QED BY <1>2, <1>3, BeginsConcat

LEMMA PushIs ==
  ASSUME NEW s \in Seq(Entries), NEW e \in Entries
  PROVE  /\ <<e>> \o s \in Seq(Entries) /\ Len(<<e>> \o s) = Len(s) + 1 /\ Len(s) \in Nat
         /\ (<<e>> \o s)[1] = e
         /\ \A i \in 2 .. Len(s) + 1 : (<<e>> \o s)[i] = s[i - 1]
         /\ Range(<<e>> \o s) = {e} \cup Range(s)
<1>1. PICK t : t = <<e>> \o s
  OBVIOUS
<1>2. /\ t \in Seq(Entries) /\ Len(t) = Len(s) + 1 /\ Len(s) \in Nat
      /\ t[1] = e /\ \A i \in 2 .. Len(s) + 1 : t[i] = s[i - 1]
  BY <1>1
<1>3. ASSUME NEW x \in Range(t) PROVE x \in {e} \cup Range(s)
  <2>1. PICK i \in 1 .. Len(s) + 1 : t[i] = x
    BY <1>2, <1>3 DEF Range
  <2>2. CASE i = 1
    BY <1>2, <2>1, <2>2
  <2>3. CASE i # 1
    <3>1. i - 1 \in DOMAIN s /\ x = s[i - 1]
      BY <1>2, <2>1, <2>3
    <3> QED BY <3>1 DEF Range
  <2> QED BY <2>2, <2>3
<1>4. e \in Range(t)
  <2>1. 1 \in DOMAIN t
    BY <1>2
  <2> QED BY <1>2, <2>1 DEF Range
<1>5. ASSUME NEW x \in Range(s) PROVE x \in Range(t)
  <2>1. PICK i \in 1 .. Len(s) : s[i] = x
    BY <1>5 DEF Range
  <2>2. i + 1 \in 2 .. Len(s) + 1 /\ i + 1 - 1 = i /\ i + 1 \in DOMAIN t
    BY <1>2, <2>1
  <2>3. t[i + 1] = x
    BY <1>2, <2>1, <2>2
  <2> QED BY <2>2, <2>3 DEF Range
<1> QED BY <1>1, <1>2, <1>3, <1>4, <1>5

LEMMA BeginsPush ==
  ASSUME NEW p \in Seq(Entries), NEW s \in Seq(Entries), NEW e \in Entries, Begins(p, s)
  PROVE  Begins(<<e>> \o p, <<e>> \o s)
<1>1. PICK q, t : q = <<e>> \o p /\ t = <<e>> \o s
  OBVIOUS
<1>2. /\ Len(q) = Len(p) + 1 /\ Len(p) \in Nat /\ q[1] = e /\ \A i \in 2 .. Len(p) + 1 : q[i] = p[i - 1]
      /\ Len(t) = Len(s) + 1 /\ Len(s) \in Nat /\ t[1] = e /\ \A i \in 2 .. Len(s) + 1 : t[i] = s[i - 1]
  BY <1>1, PushIs
<1>3. ASSUME NEW i \in 1 .. Len(q) PROVE q[i] = t[i]
  <2>1. CASE i = 1
    BY <1>2, <2>1
  <2>2. CASE i # 1
    <3>1. i \in 2 .. Len(p) + 1 /\ i \in 2 .. Len(s) + 1 /\ i - 1 \in 1 .. Len(p)
      BY <1>2, <1>3, <2>2 DEF Begins
    <3>2. p[i - 1] = s[i - 1]
      BY <3>1 DEF Begins
    <3> QED BY <1>2, <3>1, <3>2
  <2> QED BY <2>1, <2>2
<1>4. Len(q) <= Len(t)
  BY <1>2 DEF Begins
<1> QED BY <1>1, <1>3, <1>4 DEF Begins

LEMMA NewestIs ==
  ASSUME NEW s \in Seq(Entries)
  PROVE  /\ Newest(s) \in Seq(Entries) /\ Len(Newest(s)) \in Nat /\ Len(s) \in Nat /\ Limit \in Nat
         /\ Len(Newest(s)) <= Limit /\ Len(Newest(s)) <= Len(s)
         /\ Len(s) <= Limit => Newest(s) = s
         /\ Limit <= Len(s) => Len(Newest(s)) = Limit
         /\ \A i \in 1 .. Len(Newest(s)) : Newest(s)[i] = s[i]
         /\ Range(Newest(s)) \subseteq Range(s)
<1>1. PICK n : n = IF Len(s) < Limit THEN Len(s) ELSE Limit
  OBVIOUS
<1>2. n \in Nat /\ n <= Limit /\ n <= Len(s) /\ Limit \in Nat /\ Len(s) \in Nat /\ n \in 0 .. Len(s)
      /\ (Limit <= Len(s) => n = Limit) /\ (Len(s) <= Limit => n = Len(s))
  BY <1>1, LimitAssumption
<1>3. PICK t : t = SubSeq(s, 1, n)
  OBVIOUS
<1>4. t \in Seq(Entries) /\ Len(t) = n /\ \A i \in 1 .. n : t[i] = s[i]
  BY <1>2, <1>3
<1>5. Newest(s) = t
  BY <1>1, <1>3 DEF Newest
<1>6. Len(s) <= Limit => t = s
  BY <1>2, <1>4
<1>7. Range(t) \subseteq Range(s)
  <2>1. \A i \in DOMAIN t : i \in DOMAIN s /\ t[i] = s[i]
    BY <1>2, <1>4
  <2> QED BY <2>1 DEF Range
<1> QED BY <1>2, <1>4, <1>5, <1>6, <1>7

LEMMA NewestBegins == ASSUME NEW s \in Seq(Entries) PROVE Begins(Newest(s), s)
BY NewestIs DEF Begins

LEMMA BeginsNewest ==
  ASSUME NEW p \in Seq(Entries), NEW s \in Seq(Entries), Begins(p, s)
  PROVE  Begins(Newest(p), Newest(s))
<1>1. PICK q, t : q = Newest(p) /\ t = Newest(s)
  OBVIOUS
<1>2. /\ Len(p) \in Nat /\ Len(s) \in Nat /\ Len(p) <= Len(s) /\ Limit \in Nat
      /\ Len(q) \in Nat /\ Len(q) <= Limit /\ Len(q) <= Len(p) /\ \A i \in 1 .. Len(q) : q[i] = p[i]
      /\ Len(t) \in Nat /\ \A i \in 1 .. Len(t) : t[i] = s[i]
      /\ (Len(s) <= Limit => t = s) /\ (Limit <= Len(s) => Len(t) = Limit)
  BY <1>1, NewestIs DEF Begins
<1>3. Len(q) <= Len(t)
  BY <1>2
<1>4. ASSUME NEW i \in 1 .. Len(q) PROVE q[i] = t[i]
  <2>1. i \in 1 .. Len(p) /\ i \in 1 .. Len(t)
    BY <1>2, <1>3
  <2>2. p[i] = s[i]
    BY <2>1 DEF Begins
  <2> QED BY <1>2, <2>1, <2>2
<1> QED BY <1>1, <1>3, <1>4 DEF Begins

LEMMA BeginsTrans ==
  ASSUME NEW p \in Seq(Entries), NEW q \in Seq(Entries), NEW s \in Seq(Entries), Begins(p, q), Begins(q, s)
  PROVE  Begins(p, s)
<1>1. Len(p) \in Nat /\ Len(q) \in Nat /\ Len(s) \in Nat
  OBVIOUS
<1> QED BY <1>1 DEF Begins

LEMMA BeginsEmpty == ASSUME NEW s \in Seq(Entries) PROVE Begins(<<>>, s)
BY DEF Begins

LEMMA BeginsSelf == ASSUME NEW s \in Seq(Entries) PROVE Begins(s, s)
BY DEF Begins

(* An entry put at the front: what Made is for commands and searches.       *)
Fronted(s, e) == Newest(<<e>> \o Dropped(s, e))

LEMMA FrontedIs ==
  ASSUME NEW s \in Seq(Entries), NEW e \in Entries
  PROVE  /\ Fronted(s, e) \in Seq(Entries) /\ Len(Fronted(s, e)) <= Limit /\ Len(Fronted(s, e)) \in Nat
         /\ Newest(Fronted(s, e)) = Fronted(s, e)
         /\ Range(Fronted(s, e)) \subseteq {e} \cup Range(s)
<1>1. PICK t : t = <<e>> \o Dropped(s, e)
  OBVIOUS
<1>2. t \in Seq(Entries) /\ Range(t) = {e} \cup (Range(s) \ {e})
  BY <1>1, DroppedIs, PushIs
<1>3. /\ Newest(t) \in Seq(Entries) /\ Len(Newest(t)) <= Limit /\ Len(Newest(t)) \in Nat
      /\ Range(Newest(t)) \subseteq Range(t)
  BY <1>2, NewestIs
<1>4. Newest(Newest(t)) = Newest(t)
  BY <1>3, NewestIs
<1> QED BY <1>1, <1>2, <1>3, <1>4 DEF Fronted

LEMMA BeginsFronted ==
  ASSUME NEW p \in Seq(Entries), NEW s \in Seq(Entries), NEW e \in Entries, Begins(p, s)
  PROVE  Begins(Fronted(p, e), Fronted(s, e))
<1>1. Dropped(p, e) \in Seq(Entries) /\ Dropped(s, e) \in Seq(Entries) /\ Begins(Dropped(p, e), Dropped(s, e))
  BY DroppedIs, BeginsDropped
<1>2. PICK q, t : q = <<e>> \o Dropped(p, e) /\ t = <<e>> \o Dropped(s, e)
  OBVIOUS
<1>3. q \in Seq(Entries) /\ t \in Seq(Entries) /\ Begins(q, t)
  BY <1>1, <1>2, PushIs, BeginsPush
<1>4. Begins(Newest(q), Newest(t))
  BY <1>3, BeginsNewest
<1> QED BY <1>2, <1>4 DEF Fronted

(* Put at the front once more, it stays there.                              *)
LEMMA FrontedAgain ==
  ASSUME NEW s \in Seq(Entries), NEW e \in Entries
  PROVE  Fronted(Fronted(s, e), e) = Fronted(s, e)
<1>1. PICK d \in Seq(Entries) : d = Dropped(s, e) /\ e \notin Range(d)
  BY DroppedIs
<1>2. PICK t \in Seq(Entries) : t = <<e>> \o d
  BY PushIs
<1>3. PICK f \in Seq(Entries) : f = Newest(t) /\ f = Fronted(s, e)
  BY <1>1, <1>2, NewestIs DEF Fronted
<1>4. /\ Len(t) = Len(d) + 1 /\ Len(d) \in Nat /\ t[1] = e /\ \A i \in 2 .. Len(d) + 1 : t[i] = d[i - 1]
      /\ Len(f) \in Nat /\ Len(f) <= Len(t) /\ Len(f) <= Limit /\ \A i \in 1 .. Len(f) : f[i] = t[i]
      /\ (Len(t) <= Limit => f = t) /\ (Limit <= Len(t) => Len(f) = Limit) /\ Limit \in Nat \ {0}
  <2>1. Len(t) = Len(d) + 1 /\ Len(d) \in Nat /\ t[1] = e /\ \A i \in 2 .. Len(d) + 1 : t[i] = d[i - 1]
    BY <1>2, PushIs
  <2>2. Len(f) \in Nat /\ Len(f) <= Len(t) /\ Len(f) <= Limit /\ \A i \in 1 .. Len(f) : f[i] = t[i]
    BY <1>3, NewestIs
  <2>3. (Len(t) <= Limit => f = t) /\ (Limit <= Len(t) => Len(f) = Limit)
    BY <1>3, NewestIs
  <2> QED BY <2>1, <2>2, <2>3, LimitAssumption
<1>5. 1 <= Len(f)
  BY <1>4
<1>6. PICK q : q = SubSeq(f, 2, Len(f))
  OBVIOUS
<1>7. q \in Seq(Entries) /\ Len(q) = Len(f) - 1 /\ \A i \in 1 .. Len(q) : q[i] = f[i + 1]
  <2>1. 2 \in 1 .. Len(f) + 1 /\ Len(f) \in 2 - 1 .. Len(f) /\ Len(f) \in Nat
    BY <1>4, <1>5
  <2>2. q \in Seq(Entries)
    BY <1>6, <2>1
  <2>3. Len(q) = Len(f) - 1
    <3>1. PICK n \in Nat : n = Len(f)
      BY <2>1
    <3>2. CASE 2 <= n
      BY <1>6, <3>1, <3>2
    <3>3. CASE n = 1
      BY <1>6, <3>1, <3>3
    <3> QED BY <1>5, <3>1, <3>2, <3>3
  <2>4. ASSUME NEW i \in 1 .. Len(q) PROVE q[i] = f[i + 1]
    BY <1>6, <2>1, <2>3, <2>4
  <2> QED BY <2>2, <2>3, <2>4
<1>8. PICK u \in Seq(Entries) : u = <<e>> \o q
  BY <1>7, PushIs
<1>9. Len(u) = Len(q) + 1 /\ Len(q) \in Nat /\ u[1] = e /\ \A i \in 2 .. Len(q) + 1 : u[i] = q[i - 1]
  BY <1>7, <1>8, PushIs
<1>10. u = f
  <2>1. Len(u) = Len(f)
    BY <1>4, <1>5, <1>7, <1>9
  <2>2. ASSUME NEW i \in 1 .. Len(f) PROVE u[i] = f[i]
    <3>1. CASE i = 1
      BY <1>4, <1>5, <1>9, <3>1
    <3>2. CASE i # 1
      <4>1. i \in 2 .. Len(q) + 1 /\ i - 1 \in 1 .. Len(q) /\ i - 1 + 1 = i
        BY <1>4, <1>7, <2>2, <3>2
      <4> QED BY <1>7, <1>9, <4>1
    <3> QED BY <3>1, <3>2
  <2> QED BY <2>1, <2>2, SeqEqual
<1>11. Range(q) \subseteq Range(d)
  <2>1. ASSUME NEW i \in 1 .. Len(q) PROVE i \in 1 .. Len(d) /\ q[i] = d[i]
    <3>1. i + 1 \in 2 .. Len(d) + 1 /\ i + 1 \in 1 .. Len(f) /\ i + 1 - 1 = i /\ i \in 1 .. Len(d)
      BY <1>4, <1>7, <2>1
    <3> QED BY <1>4, <1>7, <3>1
  <2>2. DOMAIN q = 1 .. Len(q) /\ DOMAIN d = 1 .. Len(d)
    BY <1>7
  <2> QED BY <2>1, <2>2 DEF Range
<1>12. Dropped(f, e) = q
  <2>1. Dropped(<<e>> \o q, e) = Dropped(<<e>>, e) \o Dropped(q, e)
    <3>1. PICK o : o = <<e>>
      OBVIOUS
    <3>2. q \in Seq(Entries) /\ o \in Seq(Entries)
      BY <1>7, <3>1
    <3>3. Filtered(o \o q, Entries \ {e}) = Filtered(o, Entries \ {e}) \o Filtered(q, Entries \ {e})
      BY <3>2, FilteredConcat
    <3> QED BY <3>1, <3>3 DEF Dropped
  <2>2. Dropped(<<e>>, e) = <<>>
    BY FilteredOne DEF Dropped
  <2>3. Dropped(q, e) = q
    BY <1>1, <1>7, <1>11, DroppedSame
  <2>4. <<>> \o q = q
    BY <1>7
  <2>5. Dropped(f, e) = Dropped(<<e>> \o q, e)
    BY <1>8, <1>10
  <2>6. Dropped(<<e>> \o q, e) = <<>> \o q
    BY <2>1, <2>2, <2>3
  <2> QED BY <2>4, <2>5, <2>6
<1>13. Newest(f) = f
  BY <1>4, NewestIs
<1> QED BY <1>3, <1>8, <1>10, <1>12, <1>13 DEF Fronted

-----------------------------------------------------------------------------
(* The lists kept.  The views that show one now.                            *)
Screen == {v \in Views : OnScreen(v)}

(* The types, and which views may be out of date or mounting.               *)
KeptPlaces ==
  /\ KeptTypeOK /\ behind \cup mounting \subseteq Screen
  /\ kind \notin {"commands", "starred"} => mounting = {}
  /\ \A v \in Views : importing[v] # Unseen => kind = "bookmarks"

LEMMA Seen == ASSUME KeptTypeOK, NEW v \in Screen PROVE v \in Views /\ copy[v] \in Seq(Entries)
<1>1. v \in Views /\ copy[v] # Unseen
  BY DEF Screen, OnScreen
<1>2. copy[v] \in Seq(Entries) \cup {Unseen}
  BY <1>1 DEF KeptTypeOK
<1> QED BY <1>1, <1>2

(* What the steps of a handler do one by one: the setter of the view, the   *)
(* write to localStorage, and what the user then wants kept or removed.     *)
LEMMA Shows ==
  ASSUME KeptTypeOK, NEW v \in Views, NEW list \in Seq(Entries), ShowList(v, list)
  PROVE  /\ copy' \in [Views -> Seq(Entries) \cup {Unseen}] /\ Screen' = Screen \cup {v}
         /\ copy'[v] = list /\ \A w \in Views \ {v} : copy'[w] = copy[w]
<1>1. copy \in [Views -> Seq(Entries) \cup {Unseen}] /\ copy' = [copy EXCEPT ![v] = list] /\ list # Unseen
  BY UnseenAssumption DEF KeptTypeOK, ShowList
<1>2. copy'[v] = list /\ \A w \in Views \ {v} : copy'[w] = copy[w]
  BY <1>1
<1>3. Screen' = {w \in Views : copy'[w] # Unseen} /\ Screen = {w \in Views : copy[w] # Unseen}
  BY DEF Screen, OnScreen
<1>4. Screen' = Screen \cup {v}
  BY <1>1, <1>2, <1>3
<1> QED BY <1>1, <1>2, <1>4

LEMMA Writes ==
  ASSUME KeptTypeOK, NEW v \in Views, NEW list \in Seq(Entries), WriteList(v, list)
  PROVE  /\ saved' = list /\ overwrote' \in BOOLEAN
         /\ behind' = {w \in Screen \ {v} : Cut(copy[w]) # list} /\ behind' \subseteq Views
         /\ ~overwrote' => ~overwrote /\ (v \in behind => list = saved)
<1>1. (v \in behind /\ list # saved) \in BOOLEAN
  OBVIOUS
<1>2. overwrote \in BOOLEAN
  BY DEF KeptTypeOK
<1>3. overwrote' = (overwrote \/ (v \in behind /\ list # saved)) /\ saved' = list
  BY DEF WriteList
<1>4. overwrote' \in BOOLEAN
  BY <1>1, <1>2, <1>3
<1>5. behind' = {w \in Screen \ {v} : Cut(copy[w]) # list} /\ behind' \subseteq Views
  BY DEF WriteList, OutOfDate, Screen
<1>6. ~overwrote' => ~overwrote /\ (v \in behind => list = saved)
  BY <1>3
<1> QED BY <1>3, <1>4, <1>5, <1>6

LEMMA Remembers ==
  ASSUME NEW added \in Seq(Entries), NEW taken \in SUBSET Entries, Remember(added, taken)
  PROVE  /\ wanted' \in Seq(Entries) /\ removed' \subseteq Entries
         /\ ~overwrote' => wanted' = added /\ removed' = taken
BY DEF Remember

(* What a handler does.                                                     *)
Handled(v, k, shows, keeps, added, taken) ==
  /\ KeptPlaces' /\ kind' = kind /\ kind = k /\ v \in Screen \ mounting
  /\ saved' = keeps /\ copy'[v] = shows /\ \A w \in Views \ {v} : copy'[w] = copy[w]
  /\ Screen' = Screen /\ mounting' = mounting
  /\ behind' = {w \in Screen \ {v} : Cut(copy[w]) # keeps}
  /\ ~overwrote' => /\ ~overwrote /\ (v \in behind => keeps = saved)
                    /\ wanted' = added /\ removed' = taken

LEMMA Handles ==
  ASSUME KeptPlaces, NEW v \in Views, NEW k, NEW shows \in Seq(Entries), NEW keeps \in Seq(Entries),
         NEW added \in Seq(Entries), NEW taken \in SUBSET Entries,
         HandleList(v, k, shows, keeps, added, taken)
  PROVE  Handled(v, k, shows, keeps, added, taken)
<1>1. /\ kind = k /\ v \in Screen \ mounting /\ UNCHANGED <<kind, mounting, importing>>
      /\ ShowList(v, shows) /\ WriteList(v, keeps) /\ Remember(added, taken) /\ KeptTypeOK
  BY DEF HandleList, ViewReady, Screen, KeptPlaces
<1>2. /\ copy' \in [Views -> Seq(Entries) \cup {Unseen}] /\ Screen' = Screen \cup {v}
      /\ copy'[v] = shows /\ \A w \in Views \ {v} : copy'[w] = copy[w]
  BY <1>1, Shows
<1>3. /\ saved' = keeps /\ overwrote' \in BOOLEAN
      /\ behind' = {w \in Screen \ {v} : Cut(copy[w]) # keeps} /\ behind' \subseteq Views
      /\ ~overwrote' => ~overwrote /\ (v \in behind => keeps = saved)
  BY <1>1, Writes
<1>4. /\ wanted' \in Seq(Entries) /\ removed' \subseteq Entries
      /\ ~overwrote' => wanted' = added /\ removed' = taken
  BY <1>1, Remembers
<1>5. KeptTypeOK'
  BY <1>1, <1>2, <1>3, <1>4 DEF KeptTypeOK
<1>6. Screen' = Screen
  BY <1>1, <1>2
<1>7. KeptPlaces'
  BY <1>1, <1>3, <1>5, <1>6 DEF KeptPlaces
<1> QED BY <1>1, <1>2, <1>3, <1>4, <1>6, <1>7 DEF Handled

-----------------------------------------------------------------------------
(* What opening, closing and rereading a view do.                           *)
LEMMA Opens ==
  ASSUME KeptPlaces, NEW v \in Views, OpenView(v)
  PROVE  /\ KeptPlaces' /\ kind' = kind /\ v \notin Screen /\ Screen' = Screen \cup {v}
         /\ copy'[v] = saved /\ \A w \in Views \ {v} : copy'[w] = copy[w]
         /\ overwrote' = overwrote /\ wanted' = wanted /\ removed' = removed
         /\ mounting' = IF kind \in {"commands", "starred"} THEN mounting \cup {v} ELSE mounting
         /\ IF kind = "starred"
              THEN saved' = <<>> /\ behind' = {w \in Screen \ {v} : copy[w] # <<>>}
              ELSE saved' = saved /\ behind' = behind
<1>1. KeptTypeOK /\ saved \in Seq(Entries) /\ <<>> \in Seq(Entries) /\ v \notin Screen /\ v \notin behind
  BY DEF KeptPlaces, KeptTypeOK, OpenView, Screen
<1>2. /\ copy' \in [Views -> Seq(Entries) \cup {Unseen}] /\ Screen' = Screen \cup {v}
      /\ copy'[v] = saved /\ \A w \in Views \ {v} : copy'[w] = copy[w]
  BY <1>1, Shows DEF OpenView
<1>3. /\ kind' = kind /\ importing' = importing /\ wanted' = wanted /\ removed' = removed
      /\ mounting' = IF kind \in {"commands", "starred"} THEN mounting \cup {v} ELSE mounting
  BY DEF OpenView
<1>4. CASE kind = "starred"
  <2>1. WriteList(v, <<>>)
    BY <1>4 DEF OpenView
  <2>2. /\ saved' = <<>> /\ overwrote' \in BOOLEAN
        /\ behind' = {w \in Screen \ {v} : Cut(copy[w]) # <<>>} /\ behind' \subseteq Views
    BY <1>1, <2>1, Writes
  <2>3. overwrote' = overwrote
    <3>1. overwrote' = (overwrote \/ (v \in behind /\ <<>> # saved))
      BY <2>1 DEF WriteList
    <3>2. overwrote \in BOOLEAN
      BY <1>1 DEF KeptTypeOK
    <3> QED BY <1>1, <3>1, <3>2
  <2>4. \A w \in Screen : Cut(copy[w]) = copy[w]
    BY <1>4 DEF Cut
  <2>5. behind' = {w \in Screen \ {v} : copy[w] # <<>>}
    BY <2>2, <2>4
  <2>6. KeptTypeOK'
    BY <1>1, <1>2, <1>3, <2>2 DEF KeptTypeOK
  <2>7. KeptPlaces'
    BY <1>2, <1>3, <1>4, <2>5, <2>6 DEF KeptPlaces
  <2> QED BY <1>1, <1>2, <1>3, <1>4, <2>2, <2>3, <2>5, <2>7
<1>5. CASE kind # "starred"
  <2>1. saved' = saved /\ behind' = behind /\ overwrote' = overwrote
    BY <1>5 DEF OpenView
  <2>2. KeptTypeOK'
    BY <1>1, <1>2, <1>3, <2>1 DEF KeptTypeOK
  <2>3. KeptPlaces'
    BY <1>2, <1>3, <2>1, <2>2 DEF KeptPlaces
  <2> QED BY <1>1, <1>2, <1>3, <1>5, <2>1, <2>3
<1> QED BY <1>4, <1>5

LEMMA WritesBack ==
  ASSUME KeptPlaces, NEW v \in Views, WriteBack(v)
  PROVE  /\ KeptPlaces' /\ kind' = kind /\ v \in mounting /\ v \in Screen /\ Screen' = Screen /\ copy' = copy
         /\ mounting' = mounting \ {v} /\ kind \in {"commands", "starred"}
         /\ ~overwrote' => ~overwrote /\ wanted' = wanted /\ removed' = removed
         /\ \/ /\ saved' = copy[v] /\ behind' = {w \in Screen \ {v} : Cut(copy[w]) # copy[v]}
               /\ ~overwrote' => (v \in behind => copy[v] = saved)
            \/ /\ kind = "commands" /\ saved' = saved /\ behind' = behind
<1>1. /\ KeptTypeOK /\ v \in mounting /\ v \in Screen /\ kind' = kind /\ copy' = copy /\ importing' = importing
      /\ mounting' = mounting \ {v} /\ Remember(wanted, removed) /\ kind \in {"commands", "starred"}
  BY DEF KeptPlaces, WriteBack
<1>2. copy[v] \in Seq(Entries)
  BY <1>1, Seen
<1>3. Screen' = Screen
  BY <1>1 DEF Screen, OnScreen
<1>4. /\ wanted' \in Seq(Entries) /\ removed' \subseteq Entries
      /\ ~overwrote' => wanted' = wanted /\ removed' = removed
  <2>1. wanted \in Seq(Entries) /\ removed \in SUBSET Entries
    BY <1>1 DEF KeptTypeOK
  <2> QED BY <1>1, <2>1, Remembers
<1>5. CASE WriteList(v, copy[v])
  <2>1. /\ saved' = copy[v] /\ overwrote' \in BOOLEAN
        /\ behind' = {w \in Screen \ {v} : Cut(copy[w]) # copy[v]} /\ behind' \subseteq Views
        /\ ~overwrote' => ~overwrote /\ (v \in behind => copy[v] = saved)
    BY <1>1, <1>2, <1>5, Writes
  <2>2. KeptTypeOK'
    BY <1>1, <1>2, <1>4, <2>1 DEF KeptTypeOK
  <2>3. KeptPlaces'
    BY <1>1, <1>3, <2>1, <2>2 DEF KeptPlaces
  <2> QED BY <1>1, <1>3, <1>4, <2>1, <2>3
<1>6. CASE kind = "commands" /\ UNCHANGED <<saved, behind, overwrote>>
  <2>1. KeptTypeOK'
    BY <1>1, <1>4, <1>6 DEF KeptTypeOK
  <2>2. KeptPlaces'
    BY <1>1, <1>3, <1>6, <2>1 DEF KeptPlaces
  <2> QED BY <1>1, <1>3, <1>4, <1>6, <2>2
<1>7. WriteList(v, copy[v]) \/ (kind = "commands" /\ UNCHANGED <<saved, behind, overwrote>>)
  BY DEF WriteBack
<1> QED BY <1>5, <1>6, <1>7

LEMMA Closes ==
  ASSUME KeptPlaces, NEW v \in Views, CloseView(v)
  PROVE  /\ KeptPlaces' /\ kind' = kind /\ Screen' = Screen \ {v} /\ \A w \in Views \ {v} : copy'[w] = copy[w]
         /\ v \notin mounting /\ mounting' = mounting /\ saved' = saved /\ behind' = behind \ {v}
         /\ overwrote' = overwrote /\ wanted' = wanted /\ removed' = removed
<1>1. /\ KeptTypeOK /\ v \notin mounting /\ UNCHANGED <<kind, saved, mounting, importing, overwrote, wanted, removed>>
      /\ behind' = behind \ {v} /\ copy' = [copy EXCEPT ![v] = Unseen]
  BY DEF KeptPlaces, CloseView, ViewReady, ShowList
<1>2. /\ copy' \in [Views -> Seq(Entries) \cup {Unseen}] /\ copy'[v] = Unseen
      /\ \A w \in Views \ {v} : copy'[w] = copy[w]
  BY <1>1 DEF KeptTypeOK
<1>3. Screen' = {w \in Views : copy'[w] # Unseen} /\ Screen = {w \in Views : copy[w] # Unseen}
  BY DEF Screen, OnScreen
<1>4. Screen' = Screen \ {v}
  BY <1>2, <1>3
<1>5. KeptTypeOK'
  BY <1>1, <1>2 DEF KeptTypeOK
<1>6. KeptPlaces'
  BY <1>1, <1>4, <1>5 DEF KeptPlaces
<1> QED BY <1>1, <1>2, <1>4, <1>6

LEMMA Rereads ==
  ASSUME KeptPlaces, NEW v \in Views, Reread(v)
  PROVE  /\ KeptPlaces' /\ kind' = kind /\ kind \notin {"commands", "starred"} /\ v \in Screen /\ Screen' = Screen
         /\ copy'[v] = saved /\ \A w \in Views \ {v} : copy'[w] = copy[w]
         /\ mounting' = mounting /\ saved' = saved /\ behind' = behind \ {v}
         /\ overwrote' = overwrote /\ wanted' = wanted /\ removed' = removed
<1>1. /\ KeptTypeOK /\ saved \in Seq(Entries) /\ v \in Screen /\ kind \notin {"commands", "starred"}
      /\ UNCHANGED <<kind, saved, mounting, importing, overwrote, wanted, removed>>
      /\ behind' = behind \ {v} /\ ShowList(v, saved)
  BY DEF KeptPlaces, KeptTypeOK, Reread, ViewReady, Screen
<1>2. /\ copy' \in [Views -> Seq(Entries) \cup {Unseen}] /\ Screen' = Screen \cup {v}
      /\ copy'[v] = saved /\ \A w \in Views \ {v} : copy'[w] = copy[w]
  BY <1>1, Shows
<1>3. KeptTypeOK'
  BY <1>1, <1>2 DEF KeptTypeOK
<1>4. KeptPlaces' /\ Screen' = Screen
  BY <1>1, <1>2, <1>3 DEF KeptPlaces
<1> QED BY <1>1, <1>2, <1>4

LEMMA ClearsCommands ==
  ASSUME KeptPlaces, NEW v \in Views, clearCommands(v)
  PROVE  /\ KeptPlaces' /\ kind' = kind /\ kind = "commands" /\ v \in Screen /\ Screen' = Screen
         /\ copy'[v] = <<>> /\ \A w \in Views \ {v} : copy'[w] = copy[w]
         /\ mounting' = mounting /\ saved' = saved /\ behind' = behind
         /\ overwrote' = overwrote /\ (~overwrote => wanted' = <<>>)
<1>1. /\ KeptTypeOK /\ <<>> \in Seq(Entries) /\ v \in Screen /\ kind = "commands"
      /\ UNCHANGED <<kind, saved, mounting, importing, behind, overwrote>> /\ ShowList(v, <<>>)
      /\ Remember(<<>>, removed \cup Range(copy[v]))
  BY DEF KeptPlaces, clearCommands, ViewReady, Screen
<1>2. /\ copy' \in [Views -> Seq(Entries) \cup {Unseen}] /\ Screen' = Screen \cup {v}
      /\ copy'[v] = <<>> /\ \A w \in Views \ {v} : copy'[w] = copy[w]
  BY <1>1, Shows
<1>3. removed \cup Range(copy[v]) \in SUBSET Entries
  BY <1>1, Seen DEF KeptTypeOK, Range
<1>4. /\ wanted' \in Seq(Entries) /\ removed' \subseteq Entries /\ (~overwrote => wanted' = <<>>)
  BY <1>1, <1>3, Remembers
<1>5. KeptTypeOK'
  BY <1>1, <1>2, <1>4 DEF KeptTypeOK
<1>6. KeptPlaces' /\ Screen' = Screen
  BY <1>1, <1>2, <1>5 DEF KeptPlaces
<1> QED BY <1>1, <1>2, <1>4, <1>6

LEMMA Chooses ==
  ASSUME KeptPlaces, NEW v \in Views, chooseFile(v)
  PROVE  KeptPlaces' /\ UNCHANGED <<kind, saved, copy, mounting, behind, overwrote, wanted, removed>> /\ Screen' = Screen
<1>1. /\ KeptTypeOK /\ v \in Screen /\ UNCHANGED <<kind, saved, copy, mounting, behind, overwrote, wanted, removed>>
      /\ importing' = [importing EXCEPT ![v] = copy[v]] /\ kind = "bookmarks"
  BY DEF KeptPlaces, chooseFile, ViewReady, Screen
<1>2. importing' \in [Views -> Seq(Entries) \cup {Unseen}]
  BY <1>1, Seen DEF KeptTypeOK
<1>3. KeptTypeOK'
  BY <1>1, <1>2 DEF KeptTypeOK
<1>4. Screen' = Screen
  BY <1>1 DEF Screen, OnScreen
<1> QED BY <1>1, <1>3, <1>4 DEF KeptPlaces

LEMMA MergedIs ==
  ASSUME NEW s \in Seq(Entries), NEW e \in Entries
  PROVE  Merged(s, e) \in Seq(Entries) /\ Range(Merged(s, e)) = Range(s) \cup {e}
BY AppendIs DEF Merged

LEMMA Imports ==
  ASSUME KeptPlaces, NEW v \in Views, NEW e \in Entries, importBookmarks(v, e), ~overwrote'
  PROVE  /\ kind' = kind /\ kind = "bookmarks" /\ v \in Screen /\ v \notin behind /\ ~overwrote
         /\ saved' = Merged(copy[v], e) /\ copy'[v] = Merged(copy[v], e)
         /\ \A w \in Views \ {v} : copy'[w] = copy[w]
         /\ Screen' = Screen /\ mounting' = mounting
         /\ behind' = {w \in Screen \ {v} : copy[w] # Merged(copy[v], e)}
         /\ wanted' = Merged(wanted, e) /\ removed' = removed \ {e}
<1>1. /\ KeptTypeOK /\ v \in Screen /\ copy[v] \in Seq(Entries) /\ importing[v] = copy[v] /\ v \notin behind /\ ~overwrote
      /\ UNCHANGED <<kind, mounting>> /\ kind = "bookmarks"
      /\ wanted' = Merged(wanted, e) /\ removed' = removed \ {e}
    BY Seen DEF KeptPlaces, importBookmarks, Screen, Remember
<1>2. saved' = Merged(copy[v], e) /\ ShowList(v, Merged(copy[v], e)) /\ behind' = OutOfDate(v, Merged(copy[v], e))
  BY <1>1 DEF importBookmarks
<1>3. Merged(copy[v], e) \in Seq(Entries)
  BY <1>1, MergedIs
<1>4. /\ Screen' = Screen \cup {v} /\ copy'[v] = Merged(copy[v], e)
      /\ \A w \in Views \ {v} : copy'[w] = copy[w]
  BY <1>1, <1>2, <1>3, Shows
<1>5. behind' = {w \in Screen \ {v} : copy[w] # Merged(copy[v], e)}
  BY <1>1, <1>2 DEF OutOfDate, Screen, Cut
<1> QED BY <1>1, <1>2, <1>4, <1>5

LEMMA ImportTypes ==
  ASSUME KeptPlaces, NEW v \in Views, NEW e \in Entries, importBookmarks(v, e)
  PROVE  KeptPlaces' /\ kind' = kind
<1>1. /\ KeptTypeOK /\ v \in Screen /\ importing[v] \in Seq(Entries) /\ UNCHANGED <<kind, mounting>>
      /\ importing' = [importing EXCEPT ![v] = Unseen]
      /\ wanted \in Seq(Entries) /\ removed \subseteq Entries
  BY DEF KeptPlaces, KeptTypeOK, importBookmarks, Screen
<1>2. Merged(importing[v], e) \in Seq(Entries) /\ Merged(wanted, e) \in Seq(Entries)
  BY <1>1, MergedIs
<1>3. saved' = Merged(importing[v], e) /\ behind' = OutOfDate(v, saved')
  BY DEF importBookmarks
<1>4. copy' \in [Views -> Seq(Entries) \cup {Unseen}] /\ Screen' = Screen
  BY <1>1, <1>2, Shows, ZenonT(40) DEF importBookmarks
<1>5. wanted' \in Seq(Entries) /\ removed' \subseteq Entries
  <2>1. removed \ {e} \in SUBSET Entries
    BY <1>1
  <2> QED BY <1>2, <2>1, Remembers DEF importBookmarks
<1>6. overwrote' \in BOOLEAN
  <2>1. (v \in behind) \in BOOLEAN /\ (importing[v] # copy[v]) \in BOOLEAN /\ overwrote \in BOOLEAN
    BY <1>1 DEF KeptTypeOK
  <2>2. overwrote' = (overwrote \/ v \in behind \/ importing[v] # copy[v])
    BY DEF importBookmarks
  <2> QED BY <2>1, <2>2
<1>7. behind' \subseteq Screen /\ Screen \subseteq Views
  BY <1>3 DEF OutOfDate, Screen
<1>8. importing' \in [Views -> Seq(Entries) \cup {Unseen}]
  BY <1>1 DEF KeptTypeOK
<1>9. KeptTypeOK'
  BY <1>1, <1>2, <1>3, <1>4, <1>5, <1>6, <1>7, <1>8 DEF KeptTypeOK
<1> QED BY <1>1, <1>4, <1>7, <1>8, <1>9 DEF KeptPlaces

-----------------------------------------------------------------------------
(* The starred commands and the bookmarks, which are never cut.             *)
WholeInv ==
  /\ \A x \in Range(wanted) : x \in Range(saved) \/ \E w \in mounting : x \in Range(copy[w])
  /\ removed \cap Range(saved) = {}
  /\ \A w \in Screen \ behind :
       \/ copy[w] = saved
       \/ w \in mounting /\ saved = <<>> /\ removed \cap Range(copy[w]) = {}

LEMMA WholeOpen ==
  ASSUME KeptPlaces, WholeInv, NEW v \in Views, OpenView(v), kind \in {"starred", "bookmarks"}
  PROVE  WholeInv'
<1>1. /\ v \notin Screen /\ Screen' = Screen \cup {v} /\ mounting \subseteq Screen
      /\ copy'[v] = saved /\ \A w \in Views \ {v} : copy'[w] = copy[w]
      /\ wanted' = wanted /\ removed' = removed
  BY Opens DEF KeptPlaces
<1>2. Screen \subseteq Views
  BY DEF Screen
<1>3. CASE kind = "starred"
  <2>1. mounting' = mounting \cup {v} /\ saved' = <<>> /\ behind' = {w \in Screen \ {v} : copy[w] # <<>>}
    BY <1>3, Opens
  <2>2. ASSUME NEW x \in Range(wanted') PROVE \E w \in mounting' : x \in Range(copy'[w])
    <3>1. CASE x \in Range(saved)
      BY <1>1, <2>1, <3>1
    <3>2. ASSUME NEW w \in mounting, x \in Range(copy[w]) PROVE \E u \in mounting' : x \in Range(copy'[u])
      BY <1>1, <1>2, <2>1, <3>2
    <3> QED BY <1>1, <2>2, <3>1, <3>2 DEF WholeInv
  <2>3. Range(<<>>) = {}
    BY DEF Range
  <2>4. ASSUME NEW w \in Screen' \ behind'
        PROVE  copy'[w] = saved' \/ (w \in mounting' /\ saved' = <<>> /\ removed' \cap Range(copy'[w]) = {})
    <3>1. CASE w = v
      BY <1>1, <2>1, <3>1 DEF WholeInv
    <3>2. CASE w # v
      BY <1>1, <1>2, <2>1, <2>4, <3>2
    <3> QED BY <3>1, <3>2
  <2> QED BY <2>1, <2>2, <2>3, <2>4 DEF WholeInv
<1>4. CASE kind = "bookmarks"
  <2>1. mounting = {} /\ mounting' = mounting /\ saved' = saved /\ behind' = behind
    BY <1>4, Opens DEF KeptPlaces
  <2>2. ASSUME NEW w \in Screen' \ behind' PROVE copy'[w] = saved'
    BY <1>1, <1>2, <2>1, <2>2 DEF WholeInv
  <2> QED BY <1>1, <2>1, <2>2 DEF WholeInv
<1> QED BY <1>3, <1>4

LEMMA WholeBack ==
  ASSUME KeptPlaces, WholeInv, NEW v \in Views, WriteBack(v), kind \in {"starred", "bookmarks"}, ~overwrote'
  PROVE  WholeInv'
<1>1. /\ v \in mounting /\ v \in Screen /\ Screen' = Screen /\ copy' = copy
      /\ mounting' = mounting \ {v} /\ wanted' = wanted /\ removed' = removed
      /\ saved' = copy[v] /\ behind' = {w \in Screen \ {v} : Cut(copy[w]) # copy[v]}
      /\ (v \in behind => copy[v] = saved)
  BY WritesBack
<1>2. behind' = {w \in Screen \ {v} : copy[w] # copy[v]}
  BY <1>1 DEF Cut
<1>3. copy[v] = saved \/ (saved = <<>> /\ removed \cap Range(copy[v]) = {})
  BY <1>1 DEF WholeInv
<1>4. Range(<<>>) = {}
  BY DEF Range
<1>5. ASSUME NEW x \in Range(wanted') PROVE x \in Range(saved') \/ \E w \in mounting' : x \in Range(copy'[w])
  <2>1. CASE x \in Range(saved)
    BY <1>1, <1>3, <1>4, <2>1
  <2>2. ASSUME NEW w \in mounting, x \in Range(copy[w])
        PROVE  x \in Range(saved') \/ \E u \in mounting' : x \in Range(copy'[u])
    BY <1>1, <2>2
  <2> QED BY <1>1, <1>5, <2>1, <2>2 DEF WholeInv
<1>6. removed' \cap Range(saved') = {}
  BY <1>1, <1>3 DEF WholeInv
<1>7. \A w \in Screen' \ behind' : copy'[w] = saved'
  BY <1>1, <1>2
<1> QED BY <1>5, <1>6, <1>7 DEF WholeInv

LEMMA WholeClose ==
  ASSUME KeptPlaces, WholeInv, NEW v \in Views, CloseView(v)
  PROVE  WholeInv'
<1>1. /\ Screen' = Screen \ {v} /\ (\A w \in Views \ {v} : copy'[w] = copy[w]) /\ mounting \subseteq Views
      /\ v \notin mounting /\ mounting' = mounting /\ saved' = saved /\ behind' = behind \ {v}
      /\ wanted' = wanted /\ removed' = removed /\ Screen \subseteq Views
  BY Closes DEF KeptPlaces, Screen
<1>2. \A w \in mounting : copy'[w] = copy[w]
  BY <1>1
<1>3. ASSUME NEW w \in Screen' \ behind'
      PROVE  copy'[w] = saved' \/ (w \in mounting' /\ saved' = <<>> /\ removed' \cap Range(copy'[w]) = {})
  <2>1. w \in Screen \ behind /\ copy'[w] = copy[w]
    BY <1>1, <1>3
  <2> QED BY <1>1, <2>1 DEF WholeInv
<1>4. \A x \in Range(wanted') : x \in Range(saved') \/ \E w \in mounting' : x \in Range(copy'[w])
  BY <1>1, <1>2 DEF WholeInv
<1> QED BY <1>1, <1>3, <1>4 DEF WholeInv

LEMMA WholeReread ==
  ASSUME KeptPlaces, WholeInv, NEW v \in Views, Reread(v), kind \in {"starred", "bookmarks"}
  PROVE  WholeInv'
<1>1. /\ v \in Screen /\ Screen' = Screen /\ mounting = {} /\ Screen \subseteq Views
      /\ copy'[v] = saved /\ (\A w \in Views \ {v} : copy'[w] = copy[w])
      /\ mounting' = mounting /\ saved' = saved /\ behind' = behind \ {v}
      /\ wanted' = wanted /\ removed' = removed
  BY Rereads DEF KeptPlaces, Screen
<1>2. ASSUME NEW w \in Screen' \ behind' PROVE copy'[w] = saved'
  <2>1. CASE w = v
    BY <1>1, <2>1
  <2>2. CASE w # v
    BY <1>1, <1>2, <2>2 DEF WholeInv
  <2> QED BY <2>1, <2>2
<1> QED BY <1>1, <1>2 DEF WholeInv

(* A view changes its list and keeps it.                                    *)
LEMMA WholeChange ==
  ASSUME KeptPlaces, WholeInv, NEW v \in Screen \ mounting, NEW keeps \in Seq(Entries),
         saved' = keeps, copy'[v] = keeps, \A w \in Views \ {v} : copy'[w] = copy[w],
         Screen' = Screen, mounting' = mounting, behind' = {w \in Screen \ {v} : copy[w] # keeps},
         \A x \in Range(wanted') : x \in Range(keeps) \/ \E w \in mounting : x \in Range(copy[w]),
         removed' \cap Range(keeps) = {}
  PROVE  WholeInv'
<1>1. mounting \subseteq Views \ {v} /\ Screen \subseteq Views
  BY DEF KeptPlaces, Screen
<1>2. \A w \in mounting : copy'[w] = copy[w]
  BY <1>1
<1>3. \A w \in Screen' \ behind' : copy'[w] = saved'
  BY <1>1
<1> QED BY <1>2, <1>3 DEF WholeInv

LEMMA WholeHandled ==
  ASSUME KeptPlaces, WholeInv, NEW v \in Views, NEW k \in {"starred", "bookmarks"}, NEW shows \in Seq(Entries),
         NEW added \in Seq(Entries), NEW taken \in SUBSET Entries,
         HandleList(v, k, shows, shows, added, taken), ~overwrote',
         \A x \in Range(added) : x \in Range(shows) \/ \E w \in mounting : x \in Range(copy[w]),
         taken \cap Range(shows) = {}
  PROVE  WholeInv'
<1>1. /\ kind = k /\ v \in Screen \ mounting
      /\ saved' = shows /\ copy'[v] = shows /\ \A w \in Views \ {v} : copy'[w] = copy[w]
      /\ Screen' = Screen /\ mounting' = mounting
      /\ behind' = {w \in Screen \ {v} : Cut(copy[w]) # shows}
      /\ wanted' = added /\ removed' = taken
  <2>1. Handled(v, k, shows, shows, added, taken)
    BY Handles
  <2> QED BY <2>1 DEF Handled
<1>2. behind' = {w \in Screen \ {v} : copy[w] # shows}
  BY <1>1 DEF Cut
<1> QED BY <1>1, <1>2, WholeChange

(* A view that is not out of date has the list; one that is may write the   *)
(* list again only.                                                         *)
LEMMA WholeReady ==
  ASSUME KeptPlaces, WholeInv, NEW v \in Views, NEW k \in {"starred", "bookmarks"}, NEW shows \in Seq(Entries),
         NEW added \in Seq(Entries), NEW taken \in SUBSET Entries,
         HandleList(v, k, shows, shows, added, taken), ~overwrote'
  PROVE  v \in Screen /\ (copy[v] = saved \/ shows = saved)
<1>1. v \in Screen \ mounting /\ (v \in behind => shows = saved)
  <2>1. Handled(v, k, shows, shows, added, taken)
    BY Handles
  <2> QED BY <2>1 DEF Handled
<1> QED BY <1>1 DEF WholeInv

LEMMA WholeTake ==
  ASSUME KeptPlaces, WholeInv, NEW v \in Views, NEW k \in {"starred", "bookmarks"}, NEW e \in Entries,
         TakeEntry(v, k, e), ~overwrote'
  PROVE  WholeInv'
<1>0. kind = k /\ OnScreen(v) /\ HandleList(v, k, Dropped(copy[v], e), Cut(Dropped(copy[v], e)), Dropped(wanted, e), removed \cup {e})
  BY DEF TakeEntry, HandleList
<1>1. /\ copy[v] \in Seq(Entries) /\ wanted \in Seq(Entries) /\ saved \in Seq(Entries)
      /\ removed \cup {e} \in SUBSET Entries
  BY <1>0, Seen DEF KeptPlaces, KeptTypeOK, Screen
<1>2. PICK d \in Seq(Entries) : d = Dropped(copy[v], e) /\ Range(d) = Range(copy[v]) \ {e}
  BY <1>1, DroppedIs
<1>3. PICK a \in Seq(Entries) : a = Dropped(wanted, e) /\ Range(a) = Range(wanted) \ {e}
  BY <1>1, DroppedIs
<1>4. HandleList(v, k, d, d, a, removed \cup {e})
  BY <1>0, <1>2, <1>3 DEF Cut
<1>5. copy[v] = saved \/ d = saved
  BY <1>1, <1>4, WholeReady
<1>6. \A x \in Range(a) : x \in Range(d) \/ \E w \in mounting : x \in Range(copy[w])
  BY <1>2, <1>3, <1>5 DEF WholeInv
<1>7. (removed \cup {e}) \cap Range(d) = {}
  BY <1>2, <1>5 DEF WholeInv
<1> QED BY <1>1, <1>4, <1>6, <1>7, WholeHandled

LEMMA WholeAdd ==
  ASSUME KeptPlaces, WholeInv, NEW v \in Views, NEW k \in {"starred", "bookmarks"}, NEW e \in Entries,
         NEW shows \in Seq(Entries), NEW added \in Seq(Entries),
         HandleList(v, k, shows, shows, added, removed \ {e}), ~overwrote',
         Range(shows) = Range(copy[v]) \cup {e}, Range(added) = Range(wanted) \cup {e}
  PROVE  WholeInv'
<1>1. removed \ {e} \in SUBSET Entries
  BY DEF KeptPlaces, KeptTypeOK
<1>2. copy[v] = saved \/ shows = saved
  BY <1>1, WholeReady
<1>3. \A x \in Range(added) : x \in Range(shows) \/ \E w \in mounting : x \in Range(copy[w])
  BY <1>2 DEF WholeInv
<1>4. (removed \ {e}) \cap Range(shows) = {}
  BY <1>2 DEF WholeInv
<1> QED BY <1>1, <1>3, <1>4, WholeHandled

LEMMA WholeToggle ==
  ASSUME KeptPlaces, WholeInv, NEW v \in Views, NEW e \in Entries,
         toggleStar(v, e) \/ toggleFavorite(v, e), ~overwrote'
  PROVE  WholeInv'
<1>1. CASE TakeEntry(v, "starred", e) \/ TakeEntry(v, "bookmarks", e)
  BY <1>1, WholeTake
<1>2. CASE OnScreen(v) /\ HandleList(v, "starred", <<e>> \o Dropped(copy[v], e), <<e>> \o Dropped(copy[v], e),
                       <<e>> \o Dropped(wanted, e), removed \ {e})
  <2>1. copy[v] \in Seq(Entries) /\ wanted \in Seq(Entries)
    BY <1>2, Seen DEF KeptPlaces, KeptTypeOK, Screen
  <2>2. PICK s, a : s = <<e>> \o Dropped(copy[v], e) /\ a = <<e>> \o Dropped(wanted, e)
    OBVIOUS
  <2>3. /\ s \in Seq(Entries) /\ Range(s) = Range(copy[v]) \cup {e}
        /\ a \in Seq(Entries) /\ Range(a) = Range(wanted) \cup {e}
    BY <2>1, <2>2, DroppedIs, PushIs
  <2> QED BY <1>2, <2>2, <2>3, WholeAdd
<1>3. CASE OnScreen(v) /\ HandleList(v, "bookmarks", Merged(copy[v], e), Merged(copy[v], e), Merged(wanted, e), removed \ {e})
  <2>1. copy[v] \in Seq(Entries) /\ wanted \in Seq(Entries)
    BY <1>3, Seen DEF KeptPlaces, KeptTypeOK, Screen
  <2>2. PICK s, a : s = Merged(copy[v], e) /\ a = Merged(wanted, e)
    OBVIOUS
  <2>3. /\ s \in Seq(Entries) /\ Range(s) = Range(copy[v]) \cup {e}
        /\ a \in Seq(Entries) /\ Range(a) = Range(wanted) \cup {e}
    BY <2>1, <2>2, MergedIs
  <2> QED BY <1>3, <2>2, <2>3, WholeAdd
<1> QED BY <1>1, <1>2, <1>3 DEF toggleStar, toggleFavorite, AddEntry

LEMMA WholeClear ==
  ASSUME KeptPlaces, WholeInv, NEW v \in Views, clearStarred(v), ~overwrote'
  PROVE  WholeInv'
<1>1. HandleList(v, "starred", <<>>, <<>>, <<>>, removed \cup Range(copy[v])) /\ v \in Screen
  BY DEF clearStarred, ClearList, HandleList, ViewReady, Screen
<1>2. PICK n : n = <<>>
  OBVIOUS
<1>4. n \in Seq(Entries) /\ Range(n) = {}
  BY <1>2 DEF Range
<1>3. removed \cup Range(copy[v]) \in SUBSET Entries
  BY <1>1, Seen DEF KeptPlaces, KeptTypeOK, Range
<1> QED BY <1>1, <1>2, <1>3, <1>4, WholeHandled

LEMMA WholeImport ==
  ASSUME KeptPlaces, WholeInv, NEW v \in Views, NEW e \in Entries, importBookmarks(v, e), ~overwrote'
  PROVE  WholeInv'
<1>1. /\ kind = "bookmarks" /\ v \in Screen /\ v \notin behind
      /\ saved' = Merged(copy[v], e) /\ copy'[v] = Merged(copy[v], e)
      /\ \A w \in Views \ {v} : copy'[w] = copy[w]
      /\ Screen' = Screen /\ mounting' = mounting
      /\ behind' = {w \in Screen \ {v} : copy[w] # Merged(copy[v], e)}
      /\ wanted' = Merged(wanted, e) /\ removed' = removed \ {e}
  BY Imports
<1>2. mounting = {} /\ copy[v] \in Seq(Entries) /\ wanted \in Seq(Entries)
  BY <1>1, Seen DEF KeptPlaces, KeptTypeOK
<1>3. PICK m \in Seq(Entries) : m = Merged(copy[v], e) /\ Range(m) = Range(copy[v]) \cup {e}
  BY <1>2, MergedIs
<1>4. Range(Merged(wanted, e)) = Range(wanted) \cup {e}
  BY <1>2, MergedIs
<1>5. copy[v] = saved
  BY <1>1, <1>2 DEF WholeInv
<1>6. \A x \in Range(wanted') : x \in Range(m)
  BY <1>1, <1>2, <1>3, <1>4, <1>5 DEF WholeInv
<1>7. removed' \cap Range(m) = {}
  BY <1>1, <1>3, <1>5 DEF WholeInv
<1> QED BY <1>1, <1>2, <1>3, <1>6, <1>7, WholeChange

-----------------------------------------------------------------------------
(* The commands: the newest of the user's are at the front of what is kept, *)
(* and of every copy that is not out of date.                               *)
CommandsInv ==
  /\ Begins(wanted, saved)
  /\ \A w \in Screen \ behind : Begins(wanted, copy[w])

(* The searches: a copy that is not out of date is the list.                *)
SearchesInv ==
  /\ Begins(wanted, saved) /\ Len(saved) <= Limit /\ removed \cap Range(saved) = {}
  /\ \A w \in Screen : Len(copy[w]) <= Limit
  /\ \A w \in Screen \ behind : copy[w] = saved

LEMMA CutIsNewest ==
  ASSUME kind \in {"commands", "searches", "snapshots"}, NEW list
  PROVE  Cut(list) = Newest(list)
BY DEF Cut

(* What is kept of the list a view writes is at the front of the copies that *)
(* it does not put out of date.                                             *)
LEMMA FrontOfTheOthers ==
  ASSUME KeptTypeOK, kind \in {"commands", "searches", "snapshots"}, NEW v, NEW list, NEW w \in Screen \ {v},
         w \notin {u \in Screen \ {v} : Cut(copy[u]) # list}
  PROVE  Newest(copy[w]) = list /\ copy[w] \in Seq(Entries) /\ Begins(list, copy[w])
<1>1. Newest(copy[w]) = list
  BY CutIsNewest
<1> QED BY <1>1, Seen, NewestBegins

LEMMA CommandsOpen ==
  ASSUME KeptPlaces, CommandsInv, NEW v \in Views, OpenView(v), kind = "commands"
  PROVE  CommandsInv'
<1>1. /\ Screen' = Screen \cup {v} /\ copy'[v] = saved /\ \A w \in Views \ {v} : copy'[w] = copy[w]
      /\ wanted' = wanted /\ saved' = saved /\ behind' = behind /\ Screen \subseteq Views
  BY Opens DEF Screen
<1>2. ASSUME NEW w \in Screen' \ behind' PROVE Begins(wanted, copy'[w])
  BY <1>1, <1>2 DEF CommandsInv
<1>3. \A w \in Screen' \ behind' : Begins(wanted', copy'[w])
  BY <1>1, <1>2
<1>4. Begins(wanted', saved')
  BY <1>1 DEF CommandsInv
<1> QED BY <1>3, <1>4 DEF CommandsInv, Begins

LEMMA CommandsBack ==
  ASSUME KeptPlaces, CommandsInv, NEW v \in Views, WriteBack(v), kind = "commands", ~overwrote'
  PROVE  CommandsInv'
<1>1. /\ v \in Screen /\ Screen' = Screen /\ copy' = copy /\ wanted' = wanted
      /\ \/ /\ saved' = copy[v] /\ behind' = {w \in Screen \ {v} : Cut(copy[w]) # copy[v]}
            /\ (v \in behind => copy[v] = saved)
         \/ saved' = saved /\ behind' = behind
  BY WritesBack
<1>2. CASE saved' = saved /\ behind' = behind
  BY <1>1, <1>2 DEF CommandsInv, Begins
<1>3. CASE /\ saved' = copy[v] /\ behind' = {w \in Screen \ {v} : Cut(copy[w]) # copy[v]}
           /\ (v \in behind => copy[v] = saved)
  <2>1. Begins(wanted, copy[v])
    BY <1>1, <1>3 DEF CommandsInv
  <2>2. ASSUME NEW w \in Screen' \ behind' PROVE Begins(wanted, copy[w])
    <3>1. CASE w = v
      BY <2>1, <3>1
    <3>2. CASE w # v
      <4>1. copy[w] \in Seq(Entries) /\ Begins(copy[v], copy[w])
        BY <1>1, <1>3, <2>2, <3>2, FrontOfTheOthers DEF KeptPlaces
      <4>2. copy[v] \in Seq(Entries) /\ wanted \in Seq(Entries)
        BY <1>1, Seen DEF KeptPlaces, KeptTypeOK
      <4> QED BY <2>1, <4>1, <4>2, BeginsTrans
    <3> QED BY <3>1, <3>2
  <2> QED BY <1>1, <1>3, <2>1, <2>2 DEF CommandsInv, Begins
<1> QED BY <1>1, <1>2, <1>3

LEMMA CommandsClose ==
  ASSUME KeptPlaces, CommandsInv, NEW v \in Views, CloseView(v)
  PROVE  CommandsInv'
<1>1. /\ Screen' = Screen \ {v} /\ (\A w \in Views \ {v} : copy'[w] = copy[w]) /\ saved' = saved
      /\ behind' = behind \ {v} /\ wanted' = wanted /\ Screen \subseteq Views
  BY Closes DEF Screen
<1>2. \A w \in Screen' \ behind' : copy'[w] = copy[w] /\ w \in Screen \ behind
  BY <1>1
<1> QED BY <1>1, <1>2 DEF CommandsInv, Begins

LEMMA CommandsClear ==
  ASSUME KeptPlaces, CommandsInv, NEW v \in Views, clearCommands(v), ~overwrote'
  PROVE  CommandsInv'
<1>1. KeptPlaces' /\ wanted' = <<>>
  BY ClearsCommands
<1>2. saved' \in Seq(Entries) /\ \A w \in Screen' : copy'[w] \in Seq(Entries)
  <2>1. saved' \in Seq(Entries) /\ copy' \in [Views -> Seq(Entries) \cup {Unseen}]
    BY <1>1 DEF KeptPlaces, KeptTypeOK
  <2>2. ASSUME NEW w \in Screen' PROVE w \in Views /\ copy'[w] # Unseen
    BY <2>2 DEF Screen, OnScreen
  <2> QED BY <2>1, <2>2
<1>3. Begins(wanted', saved') /\ \A w \in Screen' \ behind' : Begins(wanted', copy'[w])
  BY <1>1, <1>2, BeginsEmpty
<1> QED BY <1>3 DEF CommandsInv, Begins

(* Put at the front of what the user wants, and of a copy; one that is out  *)
(* of date is written again only if it has the entry at the front already.  *)
LEMMA FrontedBegins ==
  ASSUME NEW e \in Entries, NEW s \in Seq(Entries), NEW c \in Seq(Entries), NEW w \in Seq(Entries),
         Begins(w, c) \/ (Fronted(c, e) = s /\ Begins(w, s))
  PROVE  Begins(Fronted(w, e), Fronted(c, e))
<1>1. CASE Begins(w, c)
  BY <1>1, BeginsFronted
<1>2. CASE Fronted(c, e) = s /\ Begins(w, s)
  <2>1. Begins(Fronted(w, e), Fronted(s, e))
    BY <1>2, BeginsFronted
  <2>2. Fronted(s, e) = s
    BY <1>2, FrontedAgain
  <2> QED BY <1>2, <2>1, <2>2
<1> QED BY <1>1, <1>2

LEMMA CommandsAdd ==
  ASSUME KeptPlaces, CommandsInv, NEW v \in Views, NEW e \in Entries, addCommand(v, e), ~overwrote'
  PROVE  CommandsInv'
<1>0. HandleList(v, "commands", Fronted(copy[v], e), Fronted(copy[v], e), Fronted(wanted, e), removed \ {e}) /\ v \in Screen
  BY DEF addCommand, AddEntry, Fronted, HandleList, ViewReady, Screen
<1>1. copy[v] \in Seq(Entries) /\ wanted \in Seq(Entries) /\ saved \in Seq(Entries) /\ removed \ {e} \in SUBSET Entries
  BY <1>0, Seen DEF KeptPlaces, KeptTypeOK
<1>2. PICK f, a : f = Fronted(copy[v], e) /\ a = Fronted(wanted, e)
  OBVIOUS
<1>3. f \in Seq(Entries) /\ a \in Seq(Entries)
  BY <1>1, <1>2, FrontedIs
<1>4. HandleList(v, "commands", f, f, a, removed \ {e})
  BY <1>0, <1>2
<1>5. Handled(v, "commands", f, f, a, removed \ {e})
  BY <1>1, <1>3, <1>4, Handles
<1>6. /\ v \in Screen /\ Screen' = Screen /\ kind = "commands" /\ (v \in behind => f = saved) /\ Screen \subseteq Views
      /\ saved' = f /\ copy'[v] = f /\ wanted' = a /\ (\A w \in Views \ {v} : copy'[w] = copy[w])
      /\ behind' = {w \in Screen \ {v} : Cut(copy[w]) # f}
  BY <1>5 DEF Handled, Screen
<1>7. Begins(a, f)
  <2>1. Begins(wanted, copy[v]) \/ (f = saved /\ Begins(wanted, saved))
    BY <1>6 DEF CommandsInv
  <2> QED BY <1>1, <1>2, <2>1, FrontedBegins
<1>8. ASSUME NEW w \in Screen' \ behind' PROVE Begins(a, copy'[w])
  <2>1. CASE w = v
    BY <1>6, <1>7, <2>1
  <2>2. CASE w # v
    <3>1. copy[w] \in Seq(Entries) /\ Begins(f, copy[w])
      BY <1>6, <1>8, <2>2, FrontOfTheOthers DEF KeptPlaces
    <3>2. Begins(a, copy[w]) /\ copy'[w] = copy[w]
      BY <1>3, <1>6, <1>7, <1>8, <2>2, <3>1, BeginsTrans
    <3> QED BY <3>2
  <2> QED BY <2>1, <2>2
<1> QED BY <1>6, <1>7, <1>8 DEF CommandsInv, Begins

-----------------------------------------------------------------------------
(* The searches: a view shows what is kept, or is out of date.              *)
LEMMA SearchesSame ==
  ASSUME KeptPlaces, SearchesInv, NEW v \in Views, OpenView(v) \/ CloseView(v) \/ Reread(v), kind = "searches"
  PROVE  SearchesInv'
<1>1. CASE OpenView(v)
  <2>1. /\ Screen' = Screen \cup {v} /\ copy'[v] = saved /\ \A w \in Views \ {v} : copy'[w] = copy[w]
        /\ wanted' = wanted /\ saved' = saved /\ behind' = behind /\ removed' = removed /\ Screen \subseteq Views
    BY <1>1, Opens DEF Screen
  <2>2. \A w \in Screen' : (w = v /\ copy'[w] = saved) \/ (w \in Screen /\ copy'[w] = copy[w])
    BY <2>1
  <2> QED BY <2>1, <2>2 DEF SearchesInv, Begins
<1>2. CASE CloseView(v)
  <2>1. /\ Screen' = Screen \ {v} /\ (\A w \in Views \ {v} : copy'[w] = copy[w]) /\ saved' = saved
        /\ behind' = behind \ {v} /\ wanted' = wanted /\ removed' = removed /\ Screen \subseteq Views
    BY <1>2, Closes DEF Screen
  <2>2. \A w \in Screen' : w \in Screen /\ copy'[w] = copy[w] /\ (w \in behind' <=> w \in behind)
    BY <2>1
  <2> QED BY <2>1, <2>2 DEF SearchesInv, Begins
<1>3. CASE Reread(v)
  <2>1. /\ Screen' = Screen /\ copy'[v] = saved /\ \A w \in Views \ {v} : copy'[w] = copy[w]
        /\ wanted' = wanted /\ saved' = saved /\ behind' = behind \ {v} /\ removed' = removed /\ Screen \subseteq Views
    BY <1>3, Rereads DEF Screen
  <2>2. \A w \in Screen' : (w = v /\ copy'[w] = saved) \/ (w \in Screen /\ copy'[w] = copy[w] /\ (w \in behind' <=> w \in behind))
    BY <2>1
  <2> QED BY <2>1, <2>2 DEF SearchesInv, Begins
<1> QED BY <1>1, <1>2, <1>3

LEMMA SearchesHandled ==
  ASSUME KeptPlaces, SearchesInv, NEW v \in Views, NEW shows \in Seq(Entries), Len(shows) <= Limit,
         NEW added \in Seq(Entries), NEW taken \in SUBSET Entries,
         HandleList(v, "searches", shows, shows, added, taken), ~overwrote',
         copy[v] = saved \/ shows = saved => Begins(added, shows) /\ taken \cap Range(shows) = {}
  PROVE  SearchesInv'
<1>1. Handled(v, "searches", shows, shows, added, taken)
  BY Handles
<1>2. /\ v \in Screen /\ Screen' = Screen /\ kind = "searches" /\ (v \in behind => shows = saved) /\ Screen \subseteq Views
      /\ saved' = shows /\ copy'[v] = shows /\ wanted' = added /\ (\A w \in Views \ {v} : copy'[w] = copy[w])
      /\ removed' = taken /\ behind' = {w \in Screen \ {v} : Cut(copy[w]) # shows}
  BY <1>1 DEF Handled, Screen
<1>3. Begins(added, shows) /\ taken \cap Range(shows) = {}
  BY <1>2 DEF SearchesInv
<1>4. ASSUME NEW w \in Screen, w # v, w \notin behind' PROVE copy[w] = shows
  <2>1. Newest(copy[w]) = shows /\ copy[w] \in Seq(Entries)
    <3>1. w \in Screen \ {v} /\ w \notin {u \in Screen \ {v} : Cut(copy[u]) # shows}
      BY <1>2, <1>4
    <3>2. KeptTypeOK /\ kind \in {"commands", "searches", "snapshots"}
      BY <1>2 DEF KeptPlaces
    <3> QED BY <3>1, <3>2, FrontOfTheOthers
  <2>2. Newest(copy[w]) = copy[w]
    BY <2>1, NewestIs DEF SearchesInv
  <2> QED BY <2>1, <2>2
<1>5. \A w \in Screen' : Len(copy'[w]) <= Limit
  BY <1>2 DEF SearchesInv
<1>6. \A w \in Screen' \ behind' : copy'[w] = saved'
  BY <1>2, <1>4
<1> QED BY <1>2, <1>3, <1>5, <1>6 DEF SearchesInv, Begins

LEMMA SearchesAdd ==
  ASSUME KeptPlaces, SearchesInv, NEW v \in Views, NEW e \in Entries, addToHistory(v, e), ~overwrote'
  PROVE  SearchesInv'
<1>0. HandleList(v, "searches", Fronted(copy[v], e), Fronted(copy[v], e), Fronted(wanted, e), removed \ {e}) /\ v \in Screen
  BY DEF addToHistory, AddEntry, Fronted, HandleList, ViewReady, Screen
<1>1. copy[v] \in Seq(Entries) /\ wanted \in Seq(Entries) /\ saved \in Seq(Entries) /\ removed \ {e} \in SUBSET Entries
  BY <1>0, Seen DEF KeptPlaces, KeptTypeOK
<1>2. PICK f, a : f = Fronted(copy[v], e) /\ a = Fronted(wanted, e)
  OBVIOUS
<1>3. f \in Seq(Entries) /\ a \in Seq(Entries) /\ Len(f) <= Limit /\ Range(f) \subseteq {e} \cup Range(copy[v])
  BY <1>1, <1>2, FrontedIs
<1>4. HandleList(v, "searches", f, f, a, removed \ {e})
  BY <1>0, <1>2
<1>5. ASSUME copy[v] = saved \/ f = saved PROVE Begins(a, f)
  <2>1. Begins(wanted, copy[v]) \/ (f = saved /\ Begins(wanted, saved))
    BY <1>5 DEF SearchesInv
  <2> QED BY <1>1, <1>2, <2>1, FrontedBegins
<1>6. ASSUME copy[v] = saved \/ f = saved PROVE (removed \ {e}) \cap Range(f) = {}
  BY <1>3, <1>6 DEF SearchesInv
<1> QED BY <1>1, <1>3, <1>4, <1>5, <1>6, SearchesHandled

LEMMA SearchesTake ==
  ASSUME KeptPlaces, SearchesInv, NEW v \in Views, NEW e \in Entries, removeFromHistory(v, e), ~overwrote'
  PROVE  SearchesInv'
<1>0. /\ kind = "searches" /\ v \in Screen
      /\ HandleList(v, "searches", Dropped(copy[v], e), Cut(Dropped(copy[v], e)), Dropped(wanted, e), removed \cup {e})
  BY DEF removeFromHistory, TakeEntry, HandleList, Screen
<1>1. copy[v] \in Seq(Entries) /\ wanted \in Seq(Entries) /\ saved \in Seq(Entries) /\ removed \cup {e} \in SUBSET Entries
  BY <1>0, Seen DEF KeptPlaces, KeptTypeOK
<1>2. PICK d \in Seq(Entries) : d = Dropped(copy[v], e) /\ Range(d) = Range(copy[v]) \ {e} /\ Len(d) \in Nat /\ Len(d) <= Len(copy[v])
  BY <1>1, DroppedIs
<1>3. PICK a \in Seq(Entries) : a = Dropped(wanted, e)
  BY <1>1, DroppedIs
<1>4. Len(d) <= Limit
  <2>1. Len(copy[v]) <= Limit /\ Len(copy[v]) \in Nat /\ Limit \in Nat
    BY <1>0, <1>1, LimitAssumption DEF SearchesInv
  <2> QED BY <1>2, <2>1
<1>5. Cut(d) = d
  BY <1>0, <1>4, CutIsNewest, NewestIs
<1>6. HandleList(v, "searches", d, d, a, removed \cup {e})
  BY <1>0, <1>2, <1>3, <1>5
<1>7. ASSUME copy[v] = saved \/ d = saved PROVE Begins(a, d)
  <2>1. CASE copy[v] = saved
    BY <1>1, <1>2, <1>3, <2>1, BeginsDropped DEF SearchesInv
  <2>2. CASE d = saved
    <3>1. e \notin Range(wanted)
      BY <1>1, <1>2, <2>2, BeginsRange DEF SearchesInv
    <3>2. a = wanted
      BY <1>1, <1>3, <3>1, DroppedSame
    <3> QED BY <2>2, <3>2 DEF SearchesInv
  <2> QED BY <1>7, <2>1, <2>2
<1>8. ASSUME copy[v] = saved \/ d = saved PROVE (removed \cup {e}) \cap Range(d) = {}
  BY <1>2, <1>8 DEF SearchesInv
<1> QED BY <1>1, <1>4, <1>6, <1>7, <1>8, SearchesHandled

LEMMA SearchesClear ==
  ASSUME KeptPlaces, SearchesInv, NEW v \in Views, clearSearches(v), ~overwrote'
  PROVE  SearchesInv'
<1>1. HandleList(v, "searches", <<>>, <<>>, <<>>, removed \cup Range(copy[v])) /\ v \in Screen
  BY DEF clearSearches, ClearList, HandleList, ViewReady, Screen
<1>2. PICK n : n = <<>>
  OBVIOUS
<1>3. n \in Seq(Entries) /\ Range(n) = {} /\ Len(n) <= Limit /\ Begins(n, n)
  <2>1. n \in Seq(Entries) /\ Len(n) = 0 /\ Limit \in Nat /\ Range(n) = {}
    BY <1>2, LimitAssumption DEF Range
  <2> QED BY <2>1 DEF Begins
<1>4. removed \cup Range(copy[v]) \in SUBSET Entries
  BY <1>1, Seen DEF KeptPlaces, KeptTypeOK, Range
<1>5. HandleList(v, "searches", n, n, n, removed \cup Range(copy[v]))
  BY <1>1, <1>2
<1> QED BY <1>3, <1>4, <1>5, SearchesHandled

-----------------------------------------------------------------------------
(* No entry is in a list twice.                                             *)
Once(s) == \A i, j \in 1 .. Len(s) : s[i] = s[j] => i = j

(* The entries beyond those that are kept.                                  *)
Beyond(s) == {s[i] : i \in Limit + 1 .. Len(s)}

LEMMA OnceAppend ==
  ASSUME NEW s \in Seq(Entries), NEW x \in Entries
  PROVE  Once(Append(s, x)) <=> Once(s) /\ x \notin Range(s)
<1>1. PICK t : t = Append(s, x)
  OBVIOUS
<1>2. /\ t \in Seq(Entries) /\ Len(t) = Len(s) + 1 /\ Len(s) \in Nat
      /\ t[Len(s) + 1] = x /\ \A n \in 1 .. Len(s) : t[n] = s[n]
  BY <1>1, AppendIs
<1>3. ASSUME Once(t) PROVE Once(s) /\ x \notin Range(s)
  <2>1. Once(s)
    <3>1. ASSUME NEW i \in 1 .. Len(s), NEW j \in 1 .. Len(s), s[i] = s[j] PROVE i = j
      <4>1. i \in 1 .. Len(t) /\ j \in 1 .. Len(t) /\ t[i] = t[j]
        BY <1>2, <3>1
      <4> QED BY <1>3, <4>1 DEF Once
    <3> QED BY <3>1 DEF Once
  <2>2. ASSUME x \in Range(s) PROVE FALSE
    <3>1. PICK i \in 1 .. Len(s) : s[i] = x
      BY <2>2 DEF Range
    <3>2. i \in 1 .. Len(t) /\ Len(s) + 1 \in 1 .. Len(t) /\ t[i] = t[Len(s) + 1] /\ i # Len(s) + 1
      BY <1>2, <3>1
    <3> QED BY <1>3, <3>2 DEF Once
  <2> QED BY <2>1, <2>2
<1>4. ASSUME Once(s), x \notin Range(s) PROVE Once(t)
  <2>1. \A i \in 1 .. Len(s) : s[i] # x
    BY <1>4 DEF Range
  <2>2. ASSUME NEW i \in 1 .. Len(t), NEW j \in 1 .. Len(t), t[i] = t[j] PROVE i = j
    <3>1. CASE i \in 1 .. Len(s) /\ j \in 1 .. Len(s)
      BY <1>2, <1>4, <2>2, <3>1 DEF Once
    <3>2. CASE i = Len(s) + 1 /\ j \in 1 .. Len(s)
      BY <1>2, <2>1, <2>2, <3>2
    <3>3. CASE j = Len(s) + 1 /\ i \in 1 .. Len(s)
      BY <1>2, <2>1, <2>2, <3>3
    <3>4. CASE j = Len(s) + 1 /\ i = Len(s) + 1
      BY <3>4
    <3> QED BY <1>2, <3>1, <3>2, <3>3, <3>4
  <2> QED BY <2>2 DEF Once
<1> QED BY <1>1, <1>3, <1>4

LEMMA OncePush ==
  ASSUME NEW s \in Seq(Entries), NEW e \in Entries, Once(s), e \notin Range(s)
  PROVE  Once(<<e>> \o s)
<1>1. PICK t : t = <<e>> \o s
  OBVIOUS
<1>2. /\ t \in Seq(Entries) /\ Len(t) = Len(s) + 1 /\ Len(s) \in Nat
      /\ t[1] = e /\ \A n \in 2 .. Len(s) + 1 : t[n] = s[n - 1]
  BY <1>1, PushIs
<1>3. \A i \in 1 .. Len(s) : s[i] # e
  BY DEF Range
<1>4. ASSUME NEW i \in 1 .. Len(t), NEW j \in 1 .. Len(t), t[i] = t[j] PROVE i = j
  <2>1. CASE i = 1 /\ j = 1
    BY <2>1
  <2>2. CASE i = 1 /\ j # 1
    <3>1. j \in 2 .. Len(s) + 1 /\ j - 1 \in 1 .. Len(s)
      BY <1>2, <2>2
    <3> QED BY <1>2, <1>3, <1>4, <2>2, <3>1
  <2>3. CASE i # 1 /\ j = 1
    <3>1. i \in 2 .. Len(s) + 1 /\ i - 1 \in 1 .. Len(s)
      BY <1>2, <2>3
    <3> QED BY <1>2, <1>3, <1>4, <2>3, <3>1
  <2>4. CASE i # 1 /\ j # 1
    <3>1. /\ i \in 2 .. Len(s) + 1 /\ i - 1 \in 1 .. Len(s)
          /\ j \in 2 .. Len(s) + 1 /\ j - 1 \in 1 .. Len(s)
      BY <1>2, <2>4
    <3>2. s[i - 1] = s[j - 1]
      BY <1>2, <1>4, <3>1
    <3>3. i - 1 = j - 1
      BY <3>1, <3>2 DEF Once
    <3> QED BY <3>3
  <2> QED BY <2>1, <2>2, <2>3, <2>4
<1> QED BY <1>1, <1>4 DEF Once

LEMMA OnceNewest ==
  ASSUME NEW s \in Seq(Entries), Once(s)
  PROVE  Once(Newest(s))
<1>1. PICK n : n = Newest(s)
  OBVIOUS
<1>2. Len(n) \in Nat /\ Len(n) <= Len(s) /\ Len(s) \in Nat /\ \A i \in 1 .. Len(n) : n[i] = s[i]
  BY <1>1, NewestIs
<1>3. ASSUME NEW i \in 1 .. Len(n), NEW j \in 1 .. Len(n), n[i] = n[j] PROVE i = j
  BY <1>2, <1>3 DEF Once
<1> QED BY <1>1, <1>3 DEF Once

LEMMA OnceDropped ==
  ASSUME NEW list \in Seq(Entries), NEW e \in Entries, Once(list)
  PROVE  Once(Dropped(list, e))
<1>1. PICK P : P = {s \in Seq(Entries) : Once(s) => Once(Dropped(s, e))}
  OBVIOUS
<1>2. <<>> \in P
  <2>1. Dropped(<<>>, e) = <<>>
    BY FilteredNone DEF Dropped
  <2> QED BY <1>1, <2>1
<1>3. ASSUME NEW s \in Seq(Entries), NEW x \in Entries, s \in P PROVE Append(s, x) \in P
  <2>1. SUFFICES ASSUME Once(Append(s, x)) PROVE Once(Dropped(Append(s, x), e))
    BY <1>1, AppendIs
  <2>2. Once(s) /\ x \notin Range(s)
    BY <2>1, OnceAppend
  <2>3. Once(Dropped(s, e)) /\ Dropped(s, e) \in Seq(Entries) /\ x \notin Range(Dropped(s, e))
    BY <1>1, <1>3, <2>2, DroppedIs
  <2>4. CASE x = e
    <3>1. Dropped(Append(s, x), e) = Dropped(s, e)
      BY <2>4, FilteredAppend DEF Dropped
    <3> QED BY <2>3, <3>1
  <2>5. CASE x # e
    <3>1. Dropped(Append(s, x), e) = Append(Dropped(s, e), x)
      <4>1. x \in Entries \ {e}
        BY <2>5
      <4> QED BY <4>1, FilteredAppend DEF Dropped
    <3> QED BY <2>3, <3>1, OnceAppend
  <2> QED BY <2>4, <2>5
<1>4. \A s \in Seq(Entries) : s \in P
  BY <1>2, <1>3, SeqInd
<1> QED BY <1>1, <1>4

LEMMA DroppedShorter ==
  ASSUME NEW list \in Seq(Entries), NEW e \in Entries, e \in Range(list)
  PROVE  Len(Dropped(list, e)) < Len(list)
<1>1. PICK P : P = {s \in Seq(Entries) : e \in Range(s) => Len(Dropped(s, e)) < Len(s)}
  OBVIOUS
<1>2. <<>> \in P
  <2>1. PICK n : n = <<>>
    OBVIOUS
  <2>2. n \in Seq(Entries) /\ e \notin Range(n)
    BY <2>1 DEF Range
  <2> QED BY <1>1, <2>1, <2>2
<1>3. ASSUME NEW s \in Seq(Entries), NEW x \in Entries, s \in P PROVE Append(s, x) \in P
  <2>1. SUFFICES ASSUME e \in Range(Append(s, x)) PROVE Len(Dropped(Append(s, x), e)) < Len(Append(s, x))
    BY <1>1, AppendIs
  <2>2. Range(Append(s, x)) = Range(s) \cup {x} /\ Len(Append(s, x)) = Len(s) + 1 /\ Len(s) \in Nat
    BY AppendIs
  <2>3. Dropped(s, e) \in Seq(Entries) /\ Len(Dropped(s, e)) \in Nat /\ Len(Dropped(s, e)) <= Len(s)
    BY DroppedIs
  <2>4. CASE x = e
    <3>1. Dropped(Append(s, x), e) = Dropped(s, e)
      BY <2>4, FilteredAppend DEF Dropped
    <3> QED BY <2>2, <2>3, <3>1
  <2>5. CASE x # e
    <3>1. Dropped(Append(s, x), e) = Append(Dropped(s, e), x)
      <4>1. x \in Entries \ {e}
        BY <2>5
      <4> QED BY <4>1, FilteredAppend DEF Dropped
    <3>2. Len(Append(Dropped(s, e), x)) = Len(Dropped(s, e)) + 1
      BY <2>3, AppendIs
    <3>3. Len(Dropped(s, e)) < Len(s)
      BY <1>1, <1>3, <2>1, <2>2, <2>5
    <3> QED BY <2>2, <2>3, <3>1, <3>2, <3>3
  <2> QED BY <2>4, <2>5
<1>4. \A s \in Seq(Entries) : s \in P
  BY <1>2, <1>3, SeqInd
<1> QED BY <1>1, <1>4

-----------------------------------------------------------------------------
(* A list is what is kept of it and what is beyond.                         *)
LEMMA KeptAndBeyond ==
  ASSUME NEW s \in Seq(Entries)
  PROVE  \E b \in Seq(Entries) : /\ s = Newest(s) \o b /\ Range(b) = Beyond(s)
                                 /\ Len(b) > 0 => Len(Newest(s)) = Limit
<1>1. PICK n : n = Newest(s)
  OBVIOUS
<1>2. /\ n \in Seq(Entries) /\ Len(n) \in Nat /\ Len(s) \in Nat /\ Limit \in Nat /\ Len(n) <= Limit /\ Len(n) <= Len(s)
      /\ (Len(s) <= Limit => n = s) /\ (Limit <= Len(s) => Len(n) = Limit) /\ Begins(n, s)
  BY <1>1, NewestIs, NewestBegins
<1>3. PICK b \in Seq(Entries) : s = n \o b
  BY <1>2, BeginsRest
<1>4. Len(s) = Len(n) + Len(b) /\ Len(b) \in Nat /\ \A i \in 1 .. Len(b) : s[Len(n) + i] = b[i]
  BY <1>2, <1>3
<1>5. Len(b) > 0 => Len(n) = Limit
  BY <1>2, <1>4
<1>6. Range(b) = Beyond(s)
  <2>1. ASSUME NEW x \in Range(b) PROVE x \in Beyond(s)
    <3>1. PICK i \in 1 .. Len(b) : b[i] = x
      BY <2>1 DEF Range
    <3>2. Len(n) = Limit /\ i \in Nat /\ 1 <= i /\ i <= Len(b)
      BY <1>4, <1>5, <3>1
    <3>3. s[Limit + i] = x
      BY <1>4, <3>1, <3>2
    <3>4. Limit + i \in Limit + 1 .. Len(s)
      BY <1>2, <1>4, <3>2
    <3> QED BY <3>3, <3>4 DEF Beyond
  <2>2. ASSUME NEW x \in Beyond(s) PROVE x \in Range(b)
    <3>1. PICK i \in Limit + 1 .. Len(s) : s[i] = x
      BY <2>2 DEF Beyond
    <3>2. PICK j \in Int : j = i - Limit
      BY <1>2, <3>1
    <3>3. j \in 1 .. Len(b) /\ i = Limit + j /\ Len(n) = Limit
      BY <1>2, <1>4, <3>1, <3>2
    <3>4. s[Len(n) + j] = b[j]
      BY <1>4, <3>3
    <3>5. b[j] = x
      BY <3>1, <3>3, <3>4
    <3>6. DOMAIN b = 1 .. Len(b)
      BY <1>3
    <3> QED BY <3>3, <3>5, <3>6 DEF Range
  <2> QED BY <2>1, <2>2
<1> QED BY <1>1, <1>3, <1>5, <1>6

LEMMA ConcatRange ==
  ASSUME NEW p \in Seq(Entries), NEW q \in Seq(Entries)
  PROVE  /\ p \o q \in Seq(Entries) /\ Len(p \o q) = Len(p) + Len(q) /\ Len(p) \in Nat /\ Len(q) \in Nat
         /\ \A i \in 1 .. Len(p) : (p \o q)[i] = p[i]
         /\ \A i \in 1 .. Len(q) : (p \o q)[Len(p) + i] = q[i]
         /\ Range(p \o q) = Range(p) \cup Range(q)
<1>1. PICK t : t = p \o q
  OBVIOUS
<1>2. /\ t \in Seq(Entries) /\ Len(t) = Len(p) + Len(q) /\ Len(p) \in Nat /\ Len(q) \in Nat
      /\ \A i \in 1 .. Len(p) : t[i] = p[i]
      /\ \A i \in 1 .. Len(q) : t[Len(p) + i] = q[i]
  BY <1>1
<1>3. ASSUME NEW x \in Range(t) PROVE x \in Range(p) \cup Range(q)
  <2>1. PICK i \in 1 .. Len(t) : t[i] = x
    BY <1>2, <1>3 DEF Range
  <2>2. CASE i <= Len(p)
    <3>1. i \in DOMAIN p /\ p[i] = x
      BY <1>2, <2>1, <2>2
    <3> QED BY <3>1 DEF Range
  <2>3. CASE ~(i <= Len(p))
    <3>1. i - Len(p) \in 1 .. Len(q) /\ Len(p) + (i - Len(p)) = i
      BY <1>2, <2>1, <2>3
    <3>2. PICK k : k = i - Len(p)
      OBVIOUS
    <3>3. k \in 1 .. Len(q) /\ t[Len(p) + k] = x
      BY <2>1, <3>1, <3>2
    <3>4. k \in DOMAIN q /\ q[k] = x
      BY <1>2, <3>3
    <3> QED BY <3>4 DEF Range
  <2> QED BY <2>2, <2>3
<1>4. ASSUME NEW x \in Range(p) PROVE x \in Range(t)
  <2>1. PICK i \in 1 .. Len(p) : p[i] = x
    BY <1>4 DEF Range
  <2>2. i \in DOMAIN t /\ t[i] = x
    BY <1>2, <2>1
  <2> QED BY <2>2 DEF Range
<1>5. ASSUME NEW x \in Range(q) PROVE x \in Range(t)
  <2>1. PICK i \in 1 .. Len(q) : q[i] = x
    BY <1>5 DEF Range
  <2>2. Len(p) + i \in DOMAIN t /\ t[Len(p) + i] = x
    BY <1>2, <2>1
  <2> QED BY <2>2 DEF Range
<1> QED BY <1>1, <1>2, <1>3, <1>4, <1>5

LEMMA RangeOfKept ==
  ASSUME NEW s \in Seq(Entries)
  PROVE  Range(s) = Range(Newest(s)) \cup Beyond(s)
<1>1. PICK b \in Seq(Entries) : s = Newest(s) \o b /\ Range(b) = Beyond(s)
  BY KeptAndBeyond
<1>2. Newest(s) \in Seq(Entries)
  BY NewestIs
<1>3. Range(Newest(s) \o b) = Range(Newest(s)) \cup Range(b)
  BY <1>2, ConcatRange
<1> QED BY <1>1, <1>3

LEMMA BeyondIsApart ==
  ASSUME NEW s \in Seq(Entries), Once(s)
  PROVE  Beyond(s) \cap Range(Newest(s)) = {}
<1>1. PICK n : n = Newest(s)
  OBVIOUS
<1>2. /\ Len(n) \in Nat /\ Len(s) \in Nat /\ Limit \in Nat /\ Len(n) <= Limit /\ Len(n) <= Len(s)
      /\ n \in Seq(Entries) /\ \A i \in 1 .. Len(n) : n[i] = s[i]
  BY <1>1, NewestIs
<1>3. SUFFICES ASSUME NEW x \in Beyond(s), x \in Range(n) PROVE FALSE
  BY <1>1
<1>4. PICK i \in Limit + 1 .. Len(s) : s[i] = x
  BY <1>3 DEF Beyond
<1>5. PICK j \in 1 .. Len(n) : n[j] = x
  BY <1>2, <1>3 DEF Range
<1>6. i \in 1 .. Len(s) /\ j \in 1 .. Len(s) /\ s[i] = s[j] /\ i # j
  BY <1>2, <1>4, <1>5
<1> QED BY <1>6 DEF Once

(* What is beyond a list with an entry added was in the list.               *)
LEMMA BeyondPushed ==
  ASSUME NEW s \in Seq(Entries), NEW e \in Entries
  PROVE  /\ Beyond(<<e>> \o s) \subseteq Range(s)
         /\ Range(Newest(<<e>> \o s)) \subseteq {e} \cup Range(Newest(s))
         /\ e \in Range(Newest(<<e>> \o s))
<1>1. PICK t : t = <<e>> \o s
  OBVIOUS
<1>2. /\ t \in Seq(Entries) /\ Len(t) = Len(s) + 1 /\ Len(s) \in Nat
      /\ t[1] = e /\ \A i \in 2 .. Len(s) + 1 : t[i] = s[i - 1]
  BY <1>1, PushIs
<1>3. PICK n, m : n = Newest(t) /\ m = Newest(s)
  OBVIOUS
<1>4. /\ n \in Seq(Entries) /\ Len(n) \in Nat /\ Limit \in Nat \ {0} /\ Len(n) <= Limit /\ Len(n) <= Len(t)
      /\ (Len(t) <= Limit => n = t) /\ (Limit <= Len(t) => Len(n) = Limit)
      /\ \A i \in 1 .. Len(n) : n[i] = t[i]
  BY <1>2, <1>3, NewestIs, LimitAssumption
<1>5. /\ m \in Seq(Entries) /\ Len(m) \in Nat /\ (Len(s) <= Limit => m = s) /\ (Limit <= Len(s) => Len(m) = Limit)
      /\ \A i \in 1 .. Len(m) : m[i] = s[i]
  BY <1>3, NewestIs
<1>6. ASSUME NEW x \in Beyond(t) PROVE x \in Range(s)
  <2>1. PICK i \in Limit + 1 .. Len(t) : t[i] = x
    BY <1>6 DEF Beyond
  <2>2. i \in 2 .. Len(s) + 1 /\ i - 1 \in 1 .. Len(s)
    BY <1>2, <1>4, <2>1
  <2>3. s[i - 1] = x /\ i - 1 \in DOMAIN s
    BY <1>2, <2>1, <2>2
  <2> QED BY <2>3 DEF Range
<1>7. ASSUME NEW x \in Range(n) PROVE x \in {e} \cup Range(m)
  <2>1. PICK i \in 1 .. Len(n) : n[i] = x
    BY <1>4, <1>7 DEF Range
  <2>2. CASE i = 1
    BY <1>2, <1>4, <2>1, <2>2
  <2>3. CASE i # 1
    <3>1. i \in 2 .. Len(s) + 1 /\ i - 1 \in 1 .. Len(m)
      BY <1>2, <1>4, <1>5, <2>1, <2>3
    <3>2. m[i - 1] = x /\ i - 1 \in DOMAIN m
      BY <1>2, <1>4, <1>5, <2>1, <3>1
    <3> QED BY <3>2 DEF Range
  <2> QED BY <2>2, <2>3
<1>8. e \in Range(n)
  <2>1. 1 <= Len(n)
    BY <1>2, <1>4
  <2>2. 1 \in 1 .. Len(n) /\ DOMAIN n = 1 .. Len(n)
    BY <1>4, <2>1
  <2>3. n[1] = e
    BY <1>2, <1>4, <2>2
  <2> QED BY <2>2, <2>3 DEF Range
<1> QED BY <1>1, <1>3, <1>6, <1>7, <1>8

(* Taking an entry away brings nothing beyond what is kept.                 *)
LEMMA BeyondDropped ==
  ASSUME NEW s \in Seq(Entries), NEW e \in Entries
  PROVE  Beyond(Dropped(s, e)) \subseteq Beyond(s)
<1>1. PICK b \in Seq(Entries) : s = Newest(s) \o b /\ Range(b) = Beyond(s)
  BY KeptAndBeyond
<1>2. PICK n \in Seq(Entries) : n = Newest(s) /\ Len(n) <= Limit /\ Len(n) \in Nat
  BY NewestIs
<1>3. PICK p, q : p = Dropped(n, e) /\ q = Dropped(b, e)
  OBVIOUS
<1>4. p \in Seq(Entries) /\ q \in Seq(Entries) /\ Len(p) \in Nat /\ Len(p) <= Len(n) /\ Range(q) \subseteq Range(b)
  BY <1>1, <1>2, <1>3, DroppedIs
<1>5. Dropped(s, e) = p \o q
  <2>1. Dropped(n \o b, e) = p \o q
    BY <1>1, <1>2, <1>3, FilteredConcat DEF Dropped
  <2> QED BY <1>1, <1>2, <2>1
<1>6. ASSUME NEW x \in Beyond(p \o q) PROVE x \in Range(q)
  <2>1. PICK t : t = p \o q
    OBVIOUS
  <2>2. Len(t) = Len(p) + Len(q) /\ Len(q) \in Nat /\ \A i \in 1 .. Len(q) : t[Len(p) + i] = q[i]
    BY <1>4, <2>1
  <2>3. PICK i \in Limit + 1 .. Len(t) : t[i] = x
    BY <1>6, <2>1 DEF Beyond
  <2>4. i - Len(p) \in 1 .. Len(q) /\ Len(p) + (i - Len(p)) = i
    BY <1>2, <1>4, <2>2, <2>3, LimitAssumption
  <2>5. q[i - Len(p)] = x /\ i - Len(p) \in DOMAIN q
    BY <1>4, <2>2, <2>3, <2>4, SMTT(30)
  <2> QED BY <2>5 DEF Range
<1> QED BY <1>1, <1>4, <1>5, <1>6

(* Taken away from a list that has more than is kept, an entry leaves what  *)
(* is kept as it is, or brings one from beyond into it.                     *)
LEMMA DroppedBrings ==
  ASSUME NEW s \in Seq(Entries), NEW e \in Entries, Once(s), e \in Range(s), Beyond(s) # {},
         Newest(Dropped(s, e)) # Newest(s)
  PROVE  Beyond(s) \cap Range(Newest(Dropped(s, e))) # {}
<1>1. PICK b \in Seq(Entries) : s = Newest(s) \o b /\ Range(b) = Beyond(s) /\ (Len(b) > 0 => Len(Newest(s)) = Limit)
  BY KeptAndBeyond
<1>2. PICK n \in Seq(Entries) : n = Newest(s)
  BY NewestIs
<1>3. Len(b) \in Nat /\ Len(b) > 0
  BY <1>1 DEF Range
<1>4. Len(n) = Limit /\ Limit \in Nat
  BY <1>1, <1>2, <1>3, LimitAssumption
<1>5. PICK p, q : p = Dropped(n, e) /\ q = Dropped(b, e)
  OBVIOUS
<1>6. p \in Seq(Entries) /\ q \in Seq(Entries) /\ Len(p) \in Nat
  BY <1>5, DroppedIs
<1>7. Dropped(s, e) = p \o q
  <2>1. Dropped(n \o b, e) = p \o q
    BY <1>5, FilteredConcat DEF Dropped
  <2> QED BY <1>1, <1>2, <2>1
<1>8. PICK t : t = p \o q
  OBVIOUS
<1>9. t \in Seq(Entries) /\ Len(t) = Len(p) + Len(q) /\ Len(q) \in Nat
      /\ (\A i \in 1 .. Len(p) : t[i] = p[i]) /\ (\A i \in 1 .. Len(q) : t[Len(p) + i] = q[i])
  BY <1>6, <1>8, ConcatRange
<1>10. PICK m : m = Newest(t)
  OBVIOUS
<1>11. /\ m \in Seq(Entries) /\ Len(m) \in Nat /\ (Len(t) <= Limit => m = t) /\ (Limit <= Len(t) => Len(m) = Limit)
       /\ \A i \in 1 .. Len(m) : m[i] = t[i]
  BY <1>9, <1>10, NewestIs
<1>12. e \in Range(n)
  <2>1. SUFFICES ASSUME e \notin Range(n) PROVE m = n
    BY <1>2, <1>7, <1>8, <1>10
  <2>2. p = n
    BY <1>5, <2>1, DroppedSame
  <2>3. Len(m) = Limit /\ Len(t) >= Limit
    BY <1>4, <1>9, <1>11, <2>2
  <2>4. \A i \in 1 .. Limit : m[i] = n[i]
    BY <1>4, <1>9, <1>11, <2>2, <2>3
  <2> QED BY <1>4, <1>11, <2>3, <2>4
<1>13. q = b
  <2>1. Beyond(s) \cap Range(n) = {}
    BY <1>2, BeyondIsApart
  <2>2. e \notin Range(b)
    BY <1>1, <1>12, <2>1
  <2> QED BY <1>5, <2>2, DroppedSame
<1>14. Len(p) < Limit
  BY <1>4, <1>5, <1>12, DroppedShorter
<1>15. PICK k : k = Len(p) + 1
  OBVIOUS
<1>16. k \in 1 .. Len(m) /\ m[k] = b[1]
  <2>1. k \in 1 .. Len(t) /\ t[k] = b[1] /\ k <= Limit /\ k \in Nat
    BY <1>3, <1>4, <1>6, <1>9, <1>13, <1>14, <1>15
  <2>2. k <= Len(m)
    BY <1>4, <1>9, <1>11, <2>1
  <2> QED BY <1>11, <2>1, <2>2
<1>17. b[1] \in Range(m)
  BY <1>11, <1>16 DEF Range
<1>18. b[1] \in Beyond(s)
  <2>1. 1 \in DOMAIN b
    BY <1>3
  <2> QED BY <1>1, <2>1 DEF Range
<1> QED BY <1>7, <1>8, <1>10, <1>17, <1>18

(* A list without repetitions has no more entries than a list that has them *)
(* all.                                                                     *)
LEMMA NoMoreThan ==
  ASSUME NEW n \in Seq(Entries), NEW s \in Seq(Entries), Once(n), Range(n) \subseteq Range(s)
  PROVE  Len(n) <= Len(s)
<1>1. Len(n) \in Nat /\ Len(s) \in Nat /\ 0 \in Int /\ 1 \in Int
  OBVIOUS
<1>2. ASSUME NEW i \in 1 .. Len(n) PROVE \E j \in 1 .. Len(s) : s[j] = n[i]
  <2>1. i \in DOMAIN n /\ DOMAIN s = 1 .. Len(s)
    OBVIOUS
  <2>2. n[i] \in Range(s)
    BY <2>1 DEF Range
  <2> QED BY <2>1, <2>2 DEF Range
<1>3. PICK f : f = [i \in 1 .. Len(n) |-> CHOOSE j \in 1 .. Len(s) : s[j] = n[i]]
  OBVIOUS
<1>4. f \in [1 .. Len(n) -> 1 .. Len(s)] /\ \A i \in 1 .. Len(n) : s[f[i]] = n[i]
  BY <1>2, <1>3
<1>5. /\ IsFiniteSet(1 .. Len(n)) /\ Cardinality(1 .. Len(n)) = Len(n)
      /\ IsFiniteSet(1 .. Len(s)) /\ Cardinality(1 .. Len(s)) = Len(s)
  <2>1. \A k \in Nat : IsFiniteSet(1 .. k) /\ Cardinality(1 .. k) = k
    <3>1. SUFFICES ASSUME NEW k \in Nat PROVE IsFiniteSet(1 .. k) /\ Cardinality(1 .. k) = k
      OBVIOUS
    <3>2. IsFiniteSet(1 .. k) /\ Cardinality(1 .. k) = IF 1 > k THEN 0 ELSE k - 1 + 1
      BY FS_Interval
    <3> QED BY <3>2
  <2> QED BY <1>1, <2>1
<1>6. SUFFICES ASSUME Len(s) < Len(n) PROVE FALSE
  BY <1>1
<1>7. PICK i, j \in 1 .. Len(n) : i # j /\ f[i] = f[j]
  <2>1. \E i, j \in 1 .. Len(n) : i # j /\ f[i] = f[j]
    <3>1. PICK A, B : A = 1 .. Len(n) /\ B = 1 .. Len(s)
      OBVIOUS
    <3>2. IsFiniteSet(A) /\ IsFiniteSet(B) /\ Cardinality(B) < Cardinality(A) /\ f \in [A -> B]
      BY <1>4, <1>5, <1>6, <3>1
    <3>3. \E x, y \in A : x # y /\ f[x] = f[y]
      BY <3>2, FS_PigeonHole
    <3> QED BY <3>1, <3>3
  <2> QED BY <2>1
<1>8. n[i] = n[j]
  BY <1>4, <1>7
<1> QED BY <1>7, <1>8 DEF Once

LEMMA NothingBeyond ==
  ASSUME NEW c \in Seq(Entries), NEW s \in Seq(Entries), Once(c), Range(Newest(c)) \subseteq Range(s), Len(s) < Limit
  PROVE  Beyond(c) = {}
<1>1. /\ Newest(c) \in Seq(Entries) /\ Limit \in Nat /\ Len(c) \in Nat
      /\ Limit <= Len(c) => Len(Newest(c)) = Limit
  BY NewestIs
<1>2. Once(Newest(c))
  BY OnceNewest
<1>3. Len(Newest(c)) <= Len(s) /\ Len(s) \in Nat
  BY <1>1, <1>2, NoMoreThan
<1>4. Len(c) < Limit
  BY <1>1, <1>3
<1> QED BY <1>1, <1>4 DEF Beyond

-----------------------------------------------------------------------------
(* The snapshots: views show more than is kept.                             *)
HasTheRest(K) == \A w \in Screen : Range(Newest(copy[w])) \subseteq K => Range(copy[w]) \subseteq K

(* No snapshot is in a list twice, and what views show beyond what is kept  *)
(* they do not share.  A deletion moves an entry from beyond into what is   *)
(* kept, so nothing removed may be there either: K is a set of entries that *)
(* has none removed, holds what is kept, and with the kept part of a view   *)
(* its rest.                                                                *)
SnapshotsInv ==
  /\ Begins(wanted, saved) /\ Len(saved) <= Limit /\ Once(saved)
  /\ \A w \in Screen : /\ Once(copy[w]) /\ Beyond(copy[w]) \cap Range(saved) = {}
                       /\ w \in behind <=> Newest(copy[w]) # saved
  /\ \A w, u \in Screen : w # u => Beyond(copy[w]) \cap Beyond(copy[u]) = {}
  /\ \E K : Range(saved) \subseteq K /\ removed \cap K = {} /\ HasTheRest(K)

LEMMA SavedIs == ASSUME KeptPlaces PROVE saved \in Seq(Entries) /\ wanted \in Seq(Entries) /\ removed \subseteq Entries
BY DEF KeptPlaces, KeptTypeOK

LEMMA SavedIsKept ==
  ASSUME KeptPlaces, SnapshotsInv
  PROVE  Newest(saved) = saved /\ Beyond(saved) = {}
<1>1. Len(saved) <= Limit /\ Len(saved) \in Nat /\ Limit \in Nat /\ saved \in Seq(Entries)
  BY SavedIs, LimitAssumption DEF SnapshotsInv
<1> QED BY <1>1, NewestIs DEF Beyond

(* To show SnapshotsInv of the next state, name a set K for it.             *)
LEMMA SnapshotsThen ==
  ASSUME Begins(wanted', saved'), Len(saved') <= Limit, Once(saved'),
         \A w \in Screen' : /\ Once(copy'[w]) /\ Beyond(copy'[w]) \cap Range(saved') = {}
                            /\ w \in behind' <=> Newest(copy'[w]) # saved',
         \A w, u \in Screen' : w # u => Beyond(copy'[w]) \cap Beyond(copy'[u]) = {},
         NEW K, Range(saved') \subseteq K, removed' \cap K = {},
         \A w \in Screen' : Range(Newest(copy'[w])) \subseteq K => Range(copy'[w]) \subseteq K
  PROVE  SnapshotsInv'
<1>1. (Begins(wanted, saved) /\ Len(saved) <= Limit /\ Once(saved))'
  BY DEF Begins, Once
<1>2. (\A w \in Screen : Once(copy[w]))'
  BY DEF Once
<1>3. (\A w \in Screen : Beyond(copy[w]) \cap Range(saved) = {})'
  BY DEF Beyond, Range
<1>4. (\A w \in Screen : w \in behind <=> Newest(copy[w]) # saved)'
  BY DEF Newest
<1>5. (\A w, u \in Screen : w # u => Beyond(copy[w]) \cap Beyond(copy[u]) = {})'
  BY DEF Beyond
<1>6. (Range(saved) \subseteq K /\ removed \cap K = {})'
  BY DEF Range
<1>7. (\A w \in Screen : Range(Newest(copy[w])) \subseteq K => Range(copy[w]) \subseteq K)'
  BY DEF Newest, Range
<1>8. HasTheRest(K)'
  BY <1>7 DEF HasTheRest
<1>9. (\E L : Range(saved) \subseteq L /\ removed \cap L = {} /\ HasTheRest(L))'
  BY <1>6, <1>8
<1> QED BY <1>1, <1>2, <1>3, <1>4, <1>5, <1>9 DEF SnapshotsInv

(* A view that shows what is kept, and nothing more.                        *)
LEMMA SnapshotsShow ==
  ASSUME KeptPlaces, SnapshotsInv, NEW v \in Views, OpenView(v) \/ Reread(v), kind = "snapshots"
  PROVE  SnapshotsInv'
<1>1. /\ Screen' = Screen \cup {v} /\ copy'[v] = saved /\ (\A w \in Views \ {v} : copy'[w] = copy[w])
      /\ wanted' = wanted /\ saved' = saved /\ removed' = removed /\ Screen \subseteq Views
      /\ v \notin behind' /\ \A w \in Views \ {v} : w \in behind' <=> w \in behind
  <2>1. CASE OpenView(v)
    <3>1. v \notin Screen /\ behind \subseteq Screen
      BY <2>1, Opens DEF KeptPlaces
    <3> QED BY <2>1, <3>1, Opens DEF Screen
  <2>2. CASE Reread(v)
    BY <2>2, Rereads DEF Screen
  <2> QED BY <2>1, <2>2
<1>2. \A w \in Screen' : (w = v /\ copy'[w] = saved) \/ (w # v /\ w \in Screen /\ copy'[w] = copy[w])
  BY <1>1
<1>3. Newest(saved) = saved /\ Beyond(saved) = {}
  BY SavedIsKept
<1>4. ASSUME NEW w \in Screen'
      PROVE  /\ Once(copy'[w]) /\ Beyond(copy'[w]) \cap Range(saved) = {}
             /\ w \in behind' <=> Newest(copy'[w]) # saved
  BY <1>1, <1>2, <1>3 DEF SnapshotsInv
<1>5. ASSUME NEW w \in Screen', NEW u \in Screen', w # u PROVE Beyond(copy'[w]) \cap Beyond(copy'[u]) = {}
  BY <1>2, <1>3, <1>5 DEF SnapshotsInv
<1>6. PICK K : Range(saved) \subseteq K /\ removed \cap K = {} /\ HasTheRest(K)
  BY DEF SnapshotsInv
<1>7. \A w \in Screen' : Range(Newest(copy'[w])) \subseteq K => Range(copy'[w]) \subseteq K
  BY <1>2, <1>6 DEF HasTheRest
<1>8. /\ Begins(wanted, saved) /\ Len(saved) <= Limit /\ Once(saved)
  BY DEF SnapshotsInv
<1> QED BY <1>1, <1>4, <1>5, <1>6, <1>7, <1>8, SnapshotsThen

LEMMA SnapshotsClose ==
  ASSUME KeptPlaces, SnapshotsInv, NEW v \in Views, CloseView(v)
  PROVE  SnapshotsInv'
<1>1. /\ Screen' = Screen \ {v} /\ (\A w \in Views \ {v} : copy'[w] = copy[w]) /\ saved' = saved
      /\ behind' = behind \ {v} /\ wanted' = wanted /\ removed' = removed /\ Screen \subseteq Views
  BY Closes DEF Screen
<1>2. \A w \in Screen' : w \in Screen /\ copy'[w] = copy[w] /\ (w \in behind' <=> w \in behind)
  BY <1>1
<1>3. PICK K : Range(saved) \subseteq K /\ removed \cap K = {} /\ HasTheRest(K)
  BY DEF SnapshotsInv
<1>4. \A w \in Screen' : Range(Newest(copy'[w])) \subseteq K => Range(copy'[w]) \subseteq K
  BY <1>2, <1>3 DEF HasTheRest
<1>5. \A w \in Screen' : /\ Once(copy'[w]) /\ Beyond(copy'[w]) \cap Range(saved) = {}
                         /\ w \in behind' <=> Newest(copy'[w]) # saved
  BY <1>2 DEF SnapshotsInv
<1>6. \A w, u \in Screen' : w # u => Beyond(copy'[w]) \cap Beyond(copy'[u]) = {}
  BY <1>2 DEF SnapshotsInv
<1>7. Begins(wanted, saved) /\ Len(saved) <= Limit /\ Once(saved)
  BY DEF SnapshotsInv
<1> QED BY <1>1, <1>3, <1>4, <1>5, <1>6, <1>7, SnapshotsThen

(* A view that keeps the newest of what it shows.                           *)
LEMMA SnapshotsHandled ==
  ASSUME KeptPlaces, SnapshotsInv, NEW v \in Views, NEW list \in Seq(Entries), NEW added, NEW taken, NEW K,
         Handled(v, "snapshots", list, Newest(list), added, taken), ~overwrote',
         Once(list), Begins(added, Newest(list)),
         \A w \in Screen \ {v} : /\ Beyond(copy[w]) \cap Range(Newest(list)) = {}
                                 /\ Beyond(copy[w]) \cap Beyond(list) = {},
         Range(list) \subseteq K, taken \cap K = {},
         \A w \in Screen \ {v} : Range(Newest(copy[w])) \subseteq K => Range(copy[w]) \subseteq K
  PROVE  SnapshotsInv'
<1>1. PICK keeps : keeps = Newest(list)
  OBVIOUS
<1>2. /\ Screen' = Screen /\ kind = "snapshots" /\ v \in Screen /\ Screen \subseteq Views
      /\ saved' = keeps /\ copy'[v] = list /\ (\A w \in Views \ {v} : copy'[w] = copy[w])
      /\ behind' = {w \in Screen \ {v} : Cut(copy[w]) # keeps} /\ wanted' = added /\ removed' = taken
  BY <1>1 DEF Handled, Screen
<1>3. keeps \in Seq(Entries) /\ Len(keeps) <= Limit /\ Once(keeps) /\ Begins(added, keeps) /\ Range(keeps) \subseteq Range(list)
  BY <1>1, NewestIs, OnceNewest
<1>4. Beyond(list) \cap Range(keeps) = {}
  BY <1>1, BeyondIsApart
<1>5. \A w \in Screen' : (w = v /\ copy'[w] = list) \/ (w \in Screen \ {v} /\ copy'[w] = copy[w])
  BY <1>2
<1>6. \A w \in Screen : Cut(copy[w]) = Newest(copy[w])
  BY <1>2, CutIsNewest
<1>7. ASSUME NEW w \in Screen' PROVE w \in behind' <=> Newest(copy'[w]) # keeps
  <2>1. CASE w = v
    BY <1>1, <1>2, <2>1
  <2>2. CASE w # v
    <3>1. w \in Screen \ {v} /\ copy'[w] = copy[w] /\ Cut(copy[w]) = Newest(copy[w])
      BY <1>2, <1>6, <1>7, <2>2
    <3> QED BY <1>2, <3>1
  <2> QED BY <2>1, <2>2
<1>8. ASSUME NEW w \in Screen' PROVE Once(copy'[w]) /\ Beyond(copy'[w]) \cap Range(keeps) = {}
  <2>1. CASE w = v /\ copy'[w] = list
    BY <1>4, <2>1
  <2>2. CASE w \in Screen \ {v} /\ copy'[w] = copy[w]
    BY <1>1, <2>2 DEF SnapshotsInv
  <2> QED BY <1>5, <2>1, <2>2
<1>9. ASSUME NEW w \in Screen', NEW u \in Screen', w # u PROVE Beyond(copy'[w]) \cap Beyond(copy'[u]) = {}
  <2>1. CASE w = v /\ copy'[w] = list
    <3>1. u \in Screen \ {v} /\ copy'[u] = copy[u]
      BY <1>2, <1>9, <2>1
    <3>2. Beyond(copy[u]) \cap Beyond(list) = {}
      BY <3>1
    <3> QED BY <2>1, <3>1, <3>2
  <2>2. CASE w \in Screen \ {v} /\ copy'[w] = copy[w] /\ u = v /\ copy'[u] = list
    <3>1. Beyond(copy[w]) \cap Beyond(list) = {}
      BY <2>2
    <3> QED BY <2>2, <3>1
  <2>3. CASE w \in Screen \ {v} /\ copy'[w] = copy[w] /\ u \in Screen \ {v} /\ copy'[u] = copy[u]
    BY <1>9, <2>3 DEF SnapshotsInv
  <2> QED BY <1>5, <1>9, <2>1, <2>2, <2>3
<1>10. ASSUME NEW w \in Screen' PROVE Range(Newest(copy'[w])) \subseteq K => Range(copy'[w]) \subseteq K
  BY <1>5, <1>10
<1>11. Range(keeps) \subseteq K /\ taken \cap K = {}
  BY <1>3
<1> QED BY <1>2, <1>3, <1>7, <1>8, <1>9, <1>10, <1>11, SnapshotsThen

LEMMA SnapshotsSave ==
  ASSUME KeptPlaces, SnapshotsInv, NEW v \in Views, NEW e \in Entries, saveSnapshot(v, e), ~overwrote'
  PROVE  SnapshotsInv'
<1>0. /\ HandleList(v, "snapshots", <<e>> \o copy[v], Newest(<<e>> \o copy[v]), Newest(<<e>> \o wanted), removed \ {e})
      /\ v \in Screen /\ e \notin Range(saved) /\ \A w \in Screen : e \notin Range(copy[w])
  BY DEF saveSnapshot, HandleList, ViewReady, Screen
<1>1. copy[v] \in Seq(Entries) /\ wanted \in Seq(Entries) /\ saved \in Seq(Entries) /\ removed \ {e} \in SUBSET Entries /\ KeptTypeOK
  BY <1>0, Seen DEF KeptPlaces, KeptTypeOK
<1>2. PICK list, added : list = <<e>> \o copy[v] /\ added = Newest(<<e>> \o wanted)
  OBVIOUS
<1>3. /\ list \in Seq(Entries) /\ Range(list) = {e} \cup Range(copy[v])
      /\ Newest(list) \in Seq(Entries) /\ Once(list)
  <2>1. Once(copy[v]) /\ e \notin Range(copy[v])
    BY <1>0 DEF SnapshotsInv
  <2>2. list \in Seq(Entries) /\ Range(list) = {e} \cup Range(copy[v])
    BY <1>1, <1>2, PushIs
  <2>3. Once(list)
    BY <1>1, <1>2, <2>1, OncePush
  <2> QED BY <2>2, <2>3, NewestIs
<1>4. added \in Seq(Entries)
  BY <1>1, <1>2, PushIs, NewestIs
<1>5. HandleList(v, "snapshots", list, Newest(list), added, removed \ {e})
  BY <1>0, <1>2
<1>6. Handled(v, "snapshots", list, Newest(list), added, removed \ {e})
  BY <1>1, <1>3, <1>4, <1>5, Handles
<1>7. /\ Beyond(list) \subseteq Range(copy[v]) /\ e \in Range(Newest(list))
      /\ Range(Newest(list)) \subseteq {e} \cup Range(Newest(copy[v]))
  BY <1>1, <1>2, BeyondPushed
<1>8. v \notin behind /\ Newest(copy[v]) = saved
  <2>1. v \in behind => Newest(list) = saved
    BY <1>6 DEF Handled
  <2> QED BY <1>0, <1>7, <2>1 DEF SnapshotsInv
<1>9. Begins(added, Newest(list))
  <2>1. Begins(wanted, copy[v])
    <3>1. Begins(wanted, saved) /\ Begins(saved, copy[v])
      BY <1>1, <1>8, NewestBegins DEF SnapshotsInv
    <3> QED BY <1>1, <3>1, BeginsTrans
  <2>2. Begins(<<e>> \o wanted, list)
    BY <1>1, <1>2, <2>1, BeginsPush
  <2>3. PICK w : w = <<e>> \o wanted
    OBVIOUS
  <2>4. w \in Seq(Entries) /\ Begins(w, list)
    BY <1>1, <2>2, <2>3, PushIs
  <2> QED BY <1>2, <1>3, <2>3, <2>4, BeginsNewest
<1>10. ASSUME NEW w \in Screen \ {v}
       PROVE  /\ Beyond(copy[w]) \cap Range(Newest(list)) = {} /\ Beyond(copy[w]) \cap Beyond(list) = {}
  <2>1. Beyond(copy[w]) \cap Range(saved) = {} /\ Beyond(copy[w]) \cap Beyond(copy[v]) = {}
    BY <1>0, <1>10 DEF SnapshotsInv
  <2>2. copy[w] \in Seq(Entries) /\ e \notin Range(copy[w]) /\ Range(copy[w]) = Range(Newest(copy[w])) \cup Beyond(copy[w])
    BY <1>0, <1>1, <1>10, Seen, RangeOfKept
  <2>3. Range(copy[v]) = Range(saved) \cup Beyond(copy[v])
    BY <1>1, <1>8, RangeOfKept
  <2> QED BY <1>7, <1>8, <2>1, <2>2, <2>3
<1>11. PICK K : Range(saved) \subseteq K /\ removed \cap K = {} /\ HasTheRest(K)
  BY DEF SnapshotsInv
<1>12. PICK L : L = K \cup {e}
  OBVIOUS
<1>13. Range(list) \subseteq L /\ (removed \ {e}) \cap L = {}
  <2>1. Range(copy[v]) \subseteq K
    BY <1>0, <1>8, <1>11 DEF HasTheRest
  <2> QED BY <1>3, <1>11, <1>12, <2>1
<1>14. ASSUME NEW w \in Screen \ {v}, Range(Newest(copy[w])) \subseteq L PROVE Range(copy[w]) \subseteq L
  <2>1. e \notin Range(Newest(copy[w]))
    BY <1>0, <1>1, <1>14, Seen, NewestIs
  <2> QED BY <1>11, <1>12, <1>14, <2>1 DEF HasTheRest
<1> QED BY <1>3, <1>6, <1>9, <1>10, <1>13, <1>14, SnapshotsHandled

LEMMA SnapshotsTake ==
  ASSUME KeptPlaces, SnapshotsInv, NEW v \in Views, NEW e \in Entries, deleteSnapshot(v, e), ~overwrote'
  PROVE  SnapshotsInv'
<1>0. /\ HandleList(v, "snapshots", Dropped(copy[v], e), Cut(Dropped(copy[v], e)), Dropped(wanted, e), removed \cup {e})
      /\ v \in Screen /\ e \in Range(copy[v]) /\ kind = "snapshots"
  BY DEF deleteSnapshot, TakeEntry, HandleList, ViewReady, Screen
<1>1. copy[v] \in Seq(Entries) /\ wanted \in Seq(Entries) /\ saved \in Seq(Entries) /\ removed \cup {e} \in SUBSET Entries /\ KeptTypeOK
  BY <1>0, Seen DEF KeptPlaces, KeptTypeOK
<1>2. PICK list, added : list = Dropped(copy[v], e) /\ added = Dropped(wanted, e)
  OBVIOUS
<1>3. /\ list \in Seq(Entries) /\ Range(list) = Range(copy[v]) \ {e}
      /\ Newest(list) \in Seq(Entries) /\ Once(list)
  <2>1. list \in Seq(Entries) /\ Range(list) = Range(copy[v]) \ {e}
    BY <1>1, <1>2, DroppedIs
  <2>2. Once(list)
    BY <1>0, <1>1, <1>2, OnceDropped DEF SnapshotsInv
  <2> QED BY <2>1, <2>2, NewestIs
<1>4. added \in Seq(Entries) /\ Len(added) <= Len(wanted) /\ Len(added) \in Nat
  BY <1>1, <1>2, DroppedIs
<1>5. HandleList(v, "snapshots", list, Newest(list), added, removed \cup {e})
  BY <1>0, <1>2, CutIsNewest
<1>6. Handled(v, "snapshots", list, Newest(list), added, removed \cup {e})
  BY <1>1, <1>3, <1>4, <1>5, Handles
<1>7. Beyond(list) \subseteq Beyond(copy[v]) /\ Range(Newest(list)) \subseteq Range(list)
  BY <1>1, <1>2, <1>3, BeyondDropped, NewestIs
<1>8. Range(copy[v]) = Range(Newest(copy[v])) \cup Beyond(copy[v])
  BY <1>1, RangeOfKept
<1>9. PICK K : Range(saved) \subseteq K /\ removed \cap K = {} /\ HasTheRest(K)
  BY DEF SnapshotsInv
<1>10. \A w \in Screen \ {v} : /\ copy[w] \in Seq(Entries) /\ Range(copy[w]) = Range(Newest(copy[w])) \cup Beyond(copy[w])
                               /\ Beyond(copy[w]) \cap Range(saved) = {} /\ Beyond(copy[w]) \cap Beyond(copy[v]) = {}
                               /\ Once(copy[w])
  BY <1>0, <1>1, Seen, RangeOfKept DEF SnapshotsInv
<1>11. CASE v \notin behind
  <2>1. Newest(copy[v]) = saved
    BY <1>0, <1>11 DEF SnapshotsInv
  <2>2. Begins(added, Newest(list))
    <3>1. Begins(wanted, saved) /\ Begins(saved, copy[v]) /\ Len(wanted) <= Len(saved) /\ Len(saved) <= Limit
      BY <1>1, <2>1, NewestBegins DEF SnapshotsInv, Begins
    <3>2. Begins(wanted, copy[v])
      BY <1>1, <3>1, BeginsTrans
    <3>3. Begins(added, list)
      BY <1>1, <1>2, <3>2, BeginsDropped
    <3>4. Begins(Newest(added), Newest(list))
      BY <1>3, <1>4, <3>3, BeginsNewest
    <3>5. Len(added) <= Limit
      <4>1. Len(wanted) \in Nat /\ Len(saved) \in Nat /\ Limit \in Nat
        BY <1>1, LimitAssumption
      <4> QED BY <1>4, <3>1, <4>1
    <3>6. Newest(added) = added
      BY <1>4, <3>5, NewestIs
    <3> QED BY <3>4, <3>6
  <2>3. \A w \in Screen \ {v} : /\ Beyond(copy[w]) \cap Range(Newest(list)) = {}
                                /\ Beyond(copy[w]) \cap Beyond(list) = {}
    BY <1>3, <1>7, <1>8, <1>10, <2>1
  <2>4. PICK L : L = K \ {e}
    OBVIOUS
  <2>5. Range(list) \subseteq L /\ (removed \cup {e}) \cap L = {}
    <3>1. Range(copy[v]) \subseteq K
      BY <1>0, <1>9, <2>1 DEF HasTheRest
    <3> QED BY <1>3, <1>9, <2>4, <3>1
  <2>6. ASSUME NEW w \in Screen \ {v}, Range(Newest(copy[w])) \subseteq L PROVE Range(copy[w]) \subseteq L
    <3>1. Range(copy[w]) \subseteq K
      BY <1>9, <2>4, <2>6 DEF HasTheRest
    <3>2. e \notin Range(copy[w])
      BY <1>0, <1>8, <1>10, <2>1, <2>4, <2>6
    <3> QED BY <2>4, <3>1, <3>2
  <2> QED BY <1>3, <1>6, <2>2, <2>3, <2>5, <2>6, SnapshotsHandled
<1>12. CASE v \in behind
  <2>1. Newest(list) = saved /\ Newest(copy[v]) # saved
    BY <1>0, <1>6, <1>12 DEF Handled, SnapshotsInv
  <2>2. Beyond(copy[v]) = {}
    <3>1. Once(copy[v]) /\ Beyond(copy[v]) \cap Range(saved) = {}
      BY <1>0 DEF SnapshotsInv
    <3> QED BY <1>0, <1>1, <1>2, <2>1, <3>1, DroppedBrings
  <2>3. e \notin Range(saved) /\ Range(list) = Range(saved)
    <3>1. Range(list) = Range(Newest(list)) \cup Beyond(list)
      BY <1>3, RangeOfKept
    <3> QED BY <1>3, <1>7, <2>1, <2>2, <3>1
  <2>4. Begins(added, Newest(list))
    <3>1. Begins(wanted, saved) /\ e \notin Range(wanted)
      BY <1>1, <2>3, BeginsRange DEF SnapshotsInv
    <3>2. added = wanted
      BY <1>1, <1>2, <3>1, DroppedSame
    <3> QED BY <2>1, <3>1, <3>2
  <2>5. \A w \in Screen \ {v} : /\ Beyond(copy[w]) \cap Range(Newest(list)) = {}
                                /\ Beyond(copy[w]) \cap Beyond(list) = {}
    BY <1>7, <1>10, <2>1
  <2>6. Range(list) \subseteq Range(saved) /\ (removed \cup {e}) \cap Range(saved) = {}
    BY <1>9, <2>3
  <2>7. Len(saved) < Limit
    <3>1. Len(copy[v]) <= Limit
      <4>1. PICK b \in Seq(Entries) : copy[v] = Newest(copy[v]) \o b /\ Range(b) = {}
        BY <1>1, <2>2, KeptAndBeyond
      <4>2. Newest(copy[v]) \in Seq(Entries) /\ Len(Newest(copy[v])) <= Limit
        BY <1>1, NewestIs
      <4>4. Len(b) = 0
        <5>1. Len(b) \in Nat /\ DOMAIN b = 1 .. Len(b)
          OBVIOUS
        <5>2. DOMAIN b = {}
          BY <4>1 DEF Range
        <5> QED BY <5>1, <5>2
      <4>3. Len(Newest(copy[v]) \o b) = Len(Newest(copy[v])) + Len(b) /\ Len(Newest(copy[v])) \in Nat
        BY <4>2, ConcatRange
      <4> QED BY <4>1, <4>2, <4>3, <4>4
    <3>2. Len(list) < Len(copy[v])
      BY <1>0, <1>1, <1>2, DroppedShorter
    <3>3. Len(Newest(list)) <= Len(list) /\ Len(Newest(list)) \in Nat /\ Len(list) \in Nat
      BY <1>3, NewestIs
    <3>4. Len(copy[v]) \in Nat /\ Limit \in Nat
      BY <1>1, LimitAssumption
    <3> QED BY <2>1, <3>1, <3>2, <3>3, <3>4
  <2>8. ASSUME NEW w \in Screen \ {v}, Range(Newest(copy[w])) \subseteq Range(saved) PROVE Range(copy[w]) \subseteq Range(saved)
    <3>1. Beyond(copy[w]) = {}
      BY <1>1, <1>10, <2>7, <2>8, NothingBeyond
    <3> QED BY <1>10, <2>8, <3>1
  <2> QED BY <1>3, <1>6, <2>4, <2>5, <2>6, <2>8, SnapshotsHandled
<1> QED BY <1>11, <1>12

LEMMA SnapshotsClear ==
  ASSUME KeptPlaces, SnapshotsInv, NEW v \in Views, clearHistory(v), ~overwrote'
  PROVE  SnapshotsInv'
<1>1. HandleList(v, "snapshots", <<>>, <<>>, <<>>, removed \cup Range(copy[v])) /\ v \in Screen
  BY DEF clearHistory, ClearList, HandleList, ViewReady, Screen
<1>2. PICK n : n = <<>>
  OBVIOUS
<1>3. n \in Seq(Entries) /\ Range(n) = {} /\ Once(n) /\ Beyond(n) = {} /\ Newest(n) = n /\ Begins(n, n)
  <2>1. n \in Seq(Entries) /\ Len(n) = 0 /\ Limit \in Nat /\ Range(n) = {}
    BY <1>2, LimitAssumption DEF Range
  <2>2. Newest(n) = n
    <3>1. Len(n) <= Limit
      BY <2>1
    <3> QED BY <2>1, <3>1, NewestIs
  <2>3. Once(n) /\ Beyond(n) = {} /\ Begins(n, n)
    BY <2>1 DEF Begins, Once, Beyond
  <2> QED BY <2>1, <2>2, <2>3
<1>4. removed \cup Range(copy[v]) \in SUBSET Entries
  BY <1>1, Seen DEF KeptPlaces, KeptTypeOK, Range
<1>5. HandleList(v, "snapshots", n, Newest(n), n, removed \cup Range(copy[v]))
  BY <1>1, <1>2, <1>3
<1>6. Handled(v, "snapshots", n, Newest(n), n, removed \cup Range(copy[v]))
  BY <1>3, <1>4, <1>5, Handles
<1>7. ASSUME NEW w \in Screen \ {v}, Range(Newest(copy[w])) \subseteq {} PROVE Range(copy[w]) \subseteq {}
  <2>1. copy[w] \in Seq(Entries) /\ Once(copy[w])
    BY <1>7, Seen DEF SnapshotsInv, KeptPlaces
  <2>2. Beyond(copy[w]) = {}
    <3>1. Len(n) < Limit
      BY <1>2, LimitAssumption
    <3>2. Range(Newest(copy[w])) \subseteq Range(n)
      BY <1>3, <1>7
    <3> QED BY <1>3, <2>1, <3>1, <3>2, NothingBeyond
  <2> QED BY <1>7, <2>1, <2>2, RangeOfKept
<1>8. PICK K : K = {}
  OBVIOUS
<1>9. Range(n) \subseteq K /\ (removed \cup Range(copy[v])) \cap K = {}
  BY <1>3, <1>8
<1>10. \A w \in Screen \ {v} : Range(Newest(copy[w])) \subseteq K => Range(copy[w]) \subseteq K
  BY <1>7, <1>8
<1>11. \A w \in Screen \ {v} : Beyond(copy[w]) \cap Range(Newest(n)) = {} /\ Beyond(copy[w]) \cap Beyond(n) = {}
  BY <1>3
<1>12. Begins(n, Newest(n))
  BY <1>3
<1> QED BY <1>3, <1>6, <1>9, <1>10, <1>11, <1>12, SnapshotsHandled

-----------------------------------------------------------------------------
(* Whatever a step does, the types and places stay, and so does the list    *)
(* that this is; a copy out of date that was written stays written.         *)
Stays == KeptPlaces' /\ kind' = kind /\ (~overwrote' => ~overwrote)

LEMMA StaysHandled ==
  ASSUME KeptPlaces, NEW v \in Views, NEW k, NEW shows \in Seq(Entries), NEW keeps \in Seq(Entries),
         NEW added \in Seq(Entries), NEW taken \in SUBSET Entries,
         HandleList(v, k, shows, keeps, added, taken)
  PROVE  Stays /\ kind = k
<1>1. Handled(v, k, shows, keeps, added, taken)
  BY Handles
<1> QED BY <1>1 DEF Handled, Stays

LEMMA StaysTake ==
  ASSUME KeptPlaces, NEW v \in Views, NEW k, NEW e \in Entries, TakeEntry(v, k, e)
  PROVE  Stays /\ kind = k
<1>1. /\ HandleList(v, k, Dropped(copy[v], e), Cut(Dropped(copy[v], e)), Dropped(wanted, e), removed \cup {e})
      /\ v \in Screen /\ KeptTypeOK
  BY DEF TakeEntry, HandleList, ViewReady, Screen, KeptPlaces
<1>2. copy[v] \in Seq(Entries) /\ wanted \in Seq(Entries) /\ removed \cup {e} \in SUBSET Entries
  BY <1>1, Seen DEF KeptTypeOK
<1>3. PICK d, a : d = Dropped(copy[v], e) /\ a = Dropped(wanted, e)
  OBVIOUS
<1>4. d \in Seq(Entries) /\ a \in Seq(Entries)
  BY <1>2, <1>3, DroppedIs
<1>5. Cut(d) \in Seq(Entries)
  BY <1>4, NewestIs DEF Cut
<1>6. HandleList(v, k, d, Cut(d), a, removed \cup {e})
  BY <1>1, <1>3
<1> QED BY <1>2, <1>4, <1>5, <1>6, StaysHandled

LEMMA StaysClear ==
  ASSUME KeptPlaces, NEW v \in Views, NEW k, ClearList(v, k)
  PROVE  Stays /\ kind = k
<1>1. HandleList(v, k, <<>>, <<>>, <<>>, removed \cup Range(copy[v])) /\ v \in Screen
  BY DEF ClearList, HandleList, ViewReady, Screen
<1>2. PICK n : n = <<>>
  OBVIOUS
<1>3. n \in Seq(Entries) /\ removed \cup Range(copy[v]) \in SUBSET Entries
  BY <1>1, <1>2, Seen DEF KeptPlaces, KeptTypeOK, Range
<1>4. HandleList(v, k, n, n, n, removed \cup Range(copy[v]))
  BY <1>1, <1>2
<1> QED BY <1>3, <1>4, StaysHandled

LEMMA StaysSave ==
  ASSUME KeptPlaces, NEW v \in Views, NEW e \in Entries, saveSnapshot(v, e)
  PROVE  Stays /\ kind = "snapshots"
<1>1. /\ HandleList(v, "snapshots", <<e>> \o copy[v], Newest(<<e>> \o copy[v]), Newest(<<e>> \o wanted), removed \ {e})
      /\ v \in Screen
  BY DEF saveSnapshot, HandleList, ViewReady, Screen
<1>2. copy[v] \in Seq(Entries) /\ wanted \in Seq(Entries) /\ removed \ {e} \in SUBSET Entries
  BY <1>1, Seen DEF KeptPlaces, KeptTypeOK
<1>3. PICK list, a, o : list = <<e>> \o copy[v] /\ o = <<e>> \o wanted /\ a = Newest(o)
  OBVIOUS
<1>4. list \in Seq(Entries) /\ o \in Seq(Entries)
  BY <1>2, <1>3, PushIs
<1>5. Newest(list) \in Seq(Entries) /\ a \in Seq(Entries)
  BY <1>3, <1>4, NewestIs
<1>6. HandleList(v, "snapshots", list, Newest(list), a, removed \ {e})
  BY <1>1, <1>3
<1> QED BY <1>2, <1>4, <1>5, <1>6, StaysHandled

LEMMA StaysFronted ==
  ASSUME KeptPlaces, NEW v \in Views, NEW e \in Entries, addCommand(v, e) \/ addToHistory(v, e)
  PROVE  Stays /\ kind \in {"commands", "searches"}
<1>1. PICK k \in {"commands", "searches"} :
        HandleList(v, k, Fronted(copy[v], e), Fronted(copy[v], e), Fronted(wanted, e), removed \ {e})
  BY DEF addCommand, addToHistory, AddEntry, Fronted
<1>2. v \in Screen
  BY <1>1 DEF HandleList, ViewReady, Screen
<1>3. copy[v] \in Seq(Entries) /\ wanted \in Seq(Entries) /\ removed \ {e} \in SUBSET Entries
  BY <1>2, Seen DEF KeptPlaces, KeptTypeOK
<1>4. PICK f, a : f = Fronted(copy[v], e) /\ a = Fronted(wanted, e)
  OBVIOUS
<1>5. f \in Seq(Entries) /\ a \in Seq(Entries)
  BY <1>3, <1>4, FrontedIs
<1>6. HandleList(v, k, f, f, a, removed \ {e})
  BY <1>1, <1>4
<1> QED BY <1>3, <1>5, <1>6, StaysHandled

LEMMA StaysToggle ==
  ASSUME KeptPlaces, NEW v \in Views, NEW e \in Entries, toggleStar(v, e) \/ toggleFavorite(v, e)
  PROVE  Stays /\ kind \in {"starred", "bookmarks"}
<1>1. CASE TakeEntry(v, "starred", e) \/ TakeEntry(v, "bookmarks", e)
  BY <1>1, StaysTake
<1>2. CASE OnScreen(v) /\ HandleList(v, "starred", <<e>> \o Dropped(copy[v], e), <<e>> \o Dropped(copy[v], e),
                       <<e>> \o Dropped(wanted, e), removed \ {e})
  <2>1. copy[v] \in Seq(Entries) /\ wanted \in Seq(Entries) /\ removed \ {e} \in SUBSET Entries
    BY <1>2, Seen DEF KeptPlaces, KeptTypeOK, Screen
  <2>2. PICK s, a : s = <<e>> \o Dropped(copy[v], e) /\ a = <<e>> \o Dropped(wanted, e)
    OBVIOUS
  <2>3. s \in Seq(Entries) /\ a \in Seq(Entries)
    BY <2>1, <2>2, DroppedIs, PushIs
  <2>4. HandleList(v, "starred", s, s, a, removed \ {e})
    BY <1>2, <2>2
  <2> QED BY <2>1, <2>3, <2>4, StaysHandled
<1>3. CASE OnScreen(v) /\ HandleList(v, "bookmarks", Merged(copy[v], e), Merged(copy[v], e), Merged(wanted, e), removed \ {e})
  <2>1. copy[v] \in Seq(Entries) /\ wanted \in Seq(Entries) /\ removed \ {e} \in SUBSET Entries
    BY <1>3, Seen DEF KeptPlaces, KeptTypeOK, Screen
  <2>2. PICK s, a : s = Merged(copy[v], e) /\ a = Merged(wanted, e)
    OBVIOUS
  <2>3. s \in Seq(Entries) /\ a \in Seq(Entries)
    BY <2>1, <2>2, MergedIs
  <2>4. HandleList(v, "bookmarks", s, s, a, removed \ {e})
    BY <1>3, <2>2
  <2> QED BY <2>1, <2>3, <2>4, StaysHandled
<1> QED BY <1>1, <1>2, <1>3 DEF toggleStar, toggleFavorite, AddEntry

LEMMA StaysEach ==
  ASSUME KeptPlaces, NEW v \in Views
  PROVE  /\ OpenView(v) \/ WriteBack(v) \/ CloseView(v) \/ Reread(v) \/ chooseFile(v) => Stays
         /\ WriteBack(v) => kind \in {"commands", "starred"}
         /\ Reread(v) => kind \in {"snapshots", "searches", "bookmarks"}
         /\ chooseFile(v) => kind = "bookmarks"
         /\ clearHistory(v) => Stays /\ kind = "snapshots"
         /\ clearCommands(v) => Stays /\ kind = "commands"
         /\ clearStarred(v) => Stays /\ kind = "starred"
         /\ clearSearches(v) => Stays /\ kind = "searches"
         /\ \A e \in Entries :
              /\ saveSnapshot(v, e) \/ deleteSnapshot(v, e) => Stays /\ kind = "snapshots"
              /\ addCommand(v, e) => Stays /\ kind = "commands"
              /\ addToHistory(v, e) \/ removeFromHistory(v, e) => Stays /\ kind = "searches"
              /\ toggleStar(v, e) \/ toggleFavorite(v, e) => Stays /\ kind \in {"starred", "bookmarks"}
              /\ importBookmarks(v, e) => KeptPlaces' /\ kind' = kind /\ kind = "bookmarks"
<1>1. OpenView(v) => Stays
  BY Opens DEF Stays
<1>2. WriteBack(v) => Stays /\ kind \in {"commands", "starred"}
  BY WritesBack DEF Stays
<1>3. CloseView(v) => Stays
  BY Closes DEF Stays
<1>4. Reread(v) => Stays /\ kind \in {"snapshots", "searches", "bookmarks"}
  <2>1. Reread(v) => Stays
    BY Rereads DEF Stays
  <2>2. Reread(v) => kind \in {"snapshots", "searches", "bookmarks"}
    BY DEF Reread
  <2> QED BY <2>1, <2>2
<1>5. chooseFile(v) => Stays /\ kind = "bookmarks"
  <2>1. chooseFile(v) => Stays
    BY Chooses DEF Stays
  <2>2. chooseFile(v) => kind = "bookmarks"
    BY DEF chooseFile
  <2> QED BY <2>1, <2>2
<1>6. clearHistory(v) => Stays /\ kind = "snapshots"
  BY StaysClear DEF clearHistory
<1>7. clearCommands(v) => Stays /\ kind = "commands"
  BY ClearsCommands DEF Stays
<1>8. clearStarred(v) => Stays /\ kind = "starred"
  BY StaysClear DEF clearStarred
<1>9. clearSearches(v) => Stays /\ kind = "searches"
  BY StaysClear DEF clearSearches
<1>10. ASSUME NEW e \in Entries
       PROVE  /\ saveSnapshot(v, e) \/ deleteSnapshot(v, e) => Stays /\ kind = "snapshots"
              /\ addCommand(v, e) => Stays /\ kind = "commands"
              /\ addToHistory(v, e) \/ removeFromHistory(v, e) => Stays /\ kind = "searches"
              /\ toggleStar(v, e) \/ toggleFavorite(v, e) => Stays /\ kind \in {"starred", "bookmarks"}
              /\ importBookmarks(v, e) => KeptPlaces' /\ kind' = kind /\ kind = "bookmarks"
  <2>1. saveSnapshot(v, e) => Stays /\ kind = "snapshots"
    BY StaysSave
  <2>2. deleteSnapshot(v, e) => Stays /\ kind = "snapshots"
    BY StaysTake DEF deleteSnapshot
  <2>3. addCommand(v, e) => Stays /\ kind = "commands"
    BY StaysFronted DEF addCommand, AddEntry, HandleList
  <2>4. addToHistory(v, e) => Stays /\ kind = "searches"
    BY StaysFronted DEF addToHistory, AddEntry, HandleList
  <2>5. removeFromHistory(v, e) => Stays /\ kind = "searches"
    BY StaysTake DEF removeFromHistory
  <2>6. toggleStar(v, e) \/ toggleFavorite(v, e) => Stays /\ kind \in {"starred", "bookmarks"}
    BY StaysToggle
  <2>7. importBookmarks(v, e) => KeptPlaces' /\ kind' = kind /\ kind = "bookmarks"
    BY ImportTypes DEF importBookmarks, KeptPlaces
  <2> QED BY <2>1, <2>2, <2>3, <2>4, <2>5, <2>6, <2>7
<1> QED BY <1>1, <1>2, <1>3, <1>4, <1>5, <1>6, <1>7, <1>8, <1>9, <1>10

-----------------------------------------------------------------------------
(* The lists of one kind, step by step.                                     *)
LEMMA WholeStep ==
  ASSUME KeptPlaces, WholeInv, kind \in {"starred", "bookmarks"}, KeptNext, ~overwrote'
  PROVE  WholeInv'
<1>1. PICK v \in Views :
        \/ OpenView(v) \/ WriteBack(v) \/ CloseView(v) \/ Reread(v) \/ chooseFile(v)
        \/ clearHistory(v) \/ clearCommands(v) \/ clearStarred(v) \/ clearSearches(v)
        \/ \E e \in Entries : ChangeEntry(v, e)
  BY DEF KeptNext
<1>2. CASE OpenView(v)
  BY <1>2, WholeOpen
<1>3. CASE WriteBack(v)
  BY <1>3, WholeBack
<1>4. CASE CloseView(v)
  BY <1>4, WholeClose
<1>5. CASE Reread(v)
  BY <1>5, WholeReread
<1>6. CASE chooseFile(v)
  <2>1. UNCHANGED <<saved, copy, mounting, behind, wanted, removed>> /\ Screen' = Screen
    BY <1>6, Chooses
  <2> QED BY <2>1 DEF WholeInv
<1>7. CASE clearStarred(v)
  BY <1>7, WholeClear
<1>8. ASSUME NEW e \in Entries, toggleStar(v, e) \/ toggleFavorite(v, e) PROVE WholeInv'
  BY <1>8, WholeToggle
<1>9. ASSUME NEW e \in Entries, importBookmarks(v, e) PROVE WholeInv'
  BY <1>9, WholeImport
<1> QED BY <1>1, <1>2, <1>3, <1>4, <1>5, <1>6, <1>7, <1>8, <1>9, StaysEach DEF ChangeEntry

LEMMA CommandsStep ==
  ASSUME KeptPlaces, CommandsInv, kind = "commands", KeptNext, ~overwrote'
  PROVE  CommandsInv'
<1>1. PICK v \in Views :
        \/ OpenView(v) \/ WriteBack(v) \/ CloseView(v) \/ Reread(v) \/ chooseFile(v)
        \/ clearHistory(v) \/ clearCommands(v) \/ clearStarred(v) \/ clearSearches(v)
        \/ \E e \in Entries : ChangeEntry(v, e)
  BY DEF KeptNext
<1>2. CASE OpenView(v)
  BY <1>2, CommandsOpen
<1>3. CASE WriteBack(v)
  BY <1>3, CommandsBack
<1>4. CASE CloseView(v)
  BY <1>4, CommandsClose
<1>5. CASE clearCommands(v)
  BY <1>5, CommandsClear
<1>6. ASSUME NEW e \in Entries, addCommand(v, e) PROVE CommandsInv'
  BY <1>6, CommandsAdd
<1> QED BY <1>1, <1>2, <1>3, <1>4, <1>5, <1>6, StaysEach DEF ChangeEntry

LEMMA SearchesStep ==
  ASSUME KeptPlaces, SearchesInv, kind = "searches", KeptNext, ~overwrote'
  PROVE  SearchesInv'
<1>1. PICK v \in Views :
        \/ OpenView(v) \/ WriteBack(v) \/ CloseView(v) \/ Reread(v) \/ chooseFile(v)
        \/ clearHistory(v) \/ clearCommands(v) \/ clearStarred(v) \/ clearSearches(v)
        \/ \E e \in Entries : ChangeEntry(v, e)
  BY DEF KeptNext
<1>2. CASE OpenView(v) \/ CloseView(v) \/ Reread(v)
  BY <1>2, SearchesSame
<1>3. CASE clearSearches(v)
  BY <1>3, SearchesClear
<1>4. ASSUME NEW e \in Entries, addToHistory(v, e) PROVE SearchesInv'
  BY <1>4, SearchesAdd
<1>5. ASSUME NEW e \in Entries, removeFromHistory(v, e) PROVE SearchesInv'
  BY <1>5, SearchesTake
<1> QED BY <1>1, <1>2, <1>3, <1>4, <1>5, StaysEach DEF ChangeEntry

LEMMA SnapshotsStep ==
  ASSUME KeptPlaces, SnapshotsInv, kind = "snapshots", KeptNext, ~overwrote'
  PROVE  SnapshotsInv'
<1>1. PICK v \in Views :
        \/ OpenView(v) \/ WriteBack(v) \/ CloseView(v) \/ Reread(v) \/ chooseFile(v)
        \/ clearHistory(v) \/ clearCommands(v) \/ clearStarred(v) \/ clearSearches(v)
        \/ \E e \in Entries : ChangeEntry(v, e)
  BY DEF KeptNext
<1>2. CASE OpenView(v) \/ Reread(v)
  BY <1>2, SnapshotsShow
<1>3. CASE CloseView(v)
  BY <1>3, SnapshotsClose
<1>4. CASE clearHistory(v)
  BY <1>4, SnapshotsClear
<1>5. ASSUME NEW e \in Entries, saveSnapshot(v, e) PROVE SnapshotsInv'
  BY <1>5, SnapshotsSave
<1>6. ASSUME NEW e \in Entries, deleteSnapshot(v, e) PROVE SnapshotsInv'
  BY <1>6, SnapshotsTake
<1> QED BY <1>1, <1>2, <1>3, <1>4, <1>5, <1>6, StaysEach DEF ChangeEntry

(* What is kept, by the kind of list.                                       *)
KeptInv ==
  /\ KeptPlaces
  /\ ~overwrote => /\ kind \in {"starred", "bookmarks"} => WholeInv
                   /\ kind = "commands" => CommandsInv
                   /\ kind = "searches" => SearchesInv
                   /\ kind = "snapshots" => SnapshotsInv

LEMMA KeptInitInv == ASSUME KeptInit PROVE KeptInv
<1>1. KeptTypeOK
  <2>1. [v \in Views |-> Unseen] \in [Views -> Seq(Entries) \cup {Unseen}]
    OBVIOUS
  <2>2. <<>> \in Seq(Entries)
    OBVIOUS
  <2> QED BY <2>1, <2>2 DEF KeptTypeOK, KeptInit
<1>2. Screen = {}
  BY DEF Screen, OnScreen, KeptInit
<1>3. KeptPlaces
  BY <1>1 DEF KeptPlaces, KeptInit
<1>4. PICK n : n = <<>>
  OBVIOUS
<1>5. n \in Seq(Entries) /\ Len(n) = 0 /\ Range(n) = {} /\ Limit \in Nat
  BY <1>4, LimitAssumption DEF Range
<1>6. saved = n /\ wanted = n /\ removed = {} /\ mounting = {} /\ behind = {}
  BY <1>4 DEF KeptInit
<1>7. Begins(n, n) /\ Once(n) /\ Len(n) <= Limit
  BY <1>5 DEF Begins, Once
<1>8. WholeInv
  BY <1>2, <1>5, <1>6 DEF WholeInv
<1>9. CommandsInv
  BY <1>2, <1>6, <1>7 DEF CommandsInv
<1>10. SearchesInv
  BY <1>2, <1>5, <1>6, <1>7 DEF SearchesInv
<1>11. SnapshotsInv
  <2>1. Range(saved) \subseteq {} /\ removed \cap {} = {} /\ HasTheRest({})
    BY <1>2, <1>5, <1>6 DEF HasTheRest
  <2>2. \E K : Range(saved) \subseteq K /\ removed \cap K = {} /\ HasTheRest(K)
    BY <2>1
  <2>3. Begins(wanted, saved) /\ Len(saved) <= Limit /\ Once(saved)
    BY <1>6, <1>7
  <2>4. /\ \A w \in Screen : /\ Once(copy[w]) /\ Beyond(copy[w]) \cap Range(saved) = {}
                             /\ w \in behind <=> Newest(copy[w]) # saved
        /\ \A w, u \in Screen : w # u => Beyond(copy[w]) \cap Beyond(copy[u]) = {}
    BY <1>2
  <2> QED BY <2>2, <2>3, <2>4 DEF SnapshotsInv
<1> QED BY <1>3, <1>8, <1>9, <1>10, <1>11 DEF KeptInv

LEMMA KeptInvStep == ASSUME KeptInv, KeptNext PROVE KeptInv'
<1>1. KeptPlaces
  BY DEF KeptInv
<1>2. KeptPlaces' /\ kind' = kind /\ (~overwrote' => ~overwrote)
  <2>1. PICK v \in Views :
          \/ OpenView(v) \/ WriteBack(v) \/ CloseView(v) \/ Reread(v) \/ chooseFile(v)
          \/ clearHistory(v) \/ clearCommands(v) \/ clearStarred(v) \/ clearSearches(v)
          \/ \E e \in Entries : ChangeEntry(v, e)
    BY DEF KeptNext
  <2>2. ASSUME NEW e \in Entries, importBookmarks(v, e) PROVE ~overwrote' => ~overwrote
    BY <1>1, <2>2, Imports
  <2> QED BY <1>1, <2>1, <2>2, StaysEach DEF Stays, ChangeEntry
<1>3. ASSUME ~overwrote', kind' \in {"starred", "bookmarks"} PROVE WholeInv'
  BY <1>1, <1>2, <1>3, WholeStep DEF KeptInv
<1>4. ASSUME ~overwrote', kind' = "commands" PROVE CommandsInv'
  BY <1>1, <1>2, <1>4, CommandsStep DEF KeptInv
<1>5. ASSUME ~overwrote', kind' = "searches" PROVE SearchesInv'
  BY <1>1, <1>2, <1>5, SearchesStep DEF KeptInv
<1>6. ASSUME ~overwrote', kind' = "snapshots" PROVE SnapshotsInv'
  BY <1>1, <1>2, <1>6, SnapshotsStep DEF KeptInv
<1> QED BY <1>2, <1>3, <1>4, <1>5, <1>6 DEF KeptInv

LEMMA KeptInvStutter == ASSUME KeptInv, UNCHANGED keptPart PROVE KeptInv'
<1>1. UNCHANGED <<kind, saved, copy, mounting, importing, behind, overwrote, wanted, removed>>
  BY DEF keptPart
<1>2. Screen' = Screen
  BY <1>1 DEF Screen, OnScreen
<1>3. KeptPlaces => KeptPlaces'
  BY <1>1, <1>2 DEF KeptPlaces, KeptTypeOK
<1>4. WholeInv => WholeInv'
  BY <1>1, <1>2 DEF WholeInv
<1>5. CommandsInv => CommandsInv'
  BY <1>1, <1>2 DEF CommandsInv, Begins
<1>6. SearchesInv => SearchesInv'
  BY <1>1, <1>2 DEF SearchesInv, Begins
<1>7. ASSUME SnapshotsInv PROVE SnapshotsInv'
  <2>1. PICK K : Range(saved) \subseteq K /\ removed \cap K = {} /\ HasTheRest(K)
    BY <1>7 DEF SnapshotsInv
  <2>2. \A w \in Screen' : Range(Newest(copy'[w])) \subseteq K => Range(copy'[w]) \subseteq K
    BY <1>1, <1>2, <2>1 DEF HasTheRest
  <2>3. /\ Begins(wanted', saved') /\ Len(saved') <= Limit /\ Once(saved')
        /\ \A w \in Screen' : /\ Once(copy'[w]) /\ Beyond(copy'[w]) \cap Range(saved') = {}
                              /\ w \in behind' <=> Newest(copy'[w]) # saved'
        /\ \A w, u \in Screen' : w # u => Beyond(copy'[w]) \cap Beyond(copy'[u]) = {}
    BY <1>1, <1>2, <1>7 DEF SnapshotsInv
  <2> QED BY <1>1, <2>1, <2>2, <2>3, SnapshotsThen
<1> QED BY <1>1, <1>3, <1>4, <1>5, <1>6, <1>7 DEF KeptInv

LEMMA KeptInvShows == ASSUME KeptInv PROVE KeepsWhatWasKept
<1>1. SUFFICES ASSUME ~overwrote, mounting = {}
               PROVE  Range(wanted) \subseteq Range(saved) /\ (kind # "commands" => removed \cap Range(saved) = {})
  BY DEF KeepsWhatWasKept
<1>2. KeptPlaces /\ kind \in Kinds /\ saved \in Seq(Entries) /\ wanted \in Seq(Entries)
  BY DEF KeptInv, KeptPlaces, KeptTypeOK
<1>3. CASE kind \in {"starred", "bookmarks"}
  BY <1>1, <1>3 DEF KeptInv, WholeInv
<1>4. CASE kind = "commands"
  BY <1>1, <1>2, <1>4, BeginsRange DEF KeptInv, CommandsInv
<1>5. CASE kind = "searches"
  BY <1>1, <1>2, <1>5, BeginsRange DEF KeptInv, SearchesInv
<1>6. CASE kind = "snapshots"
  <2>1. Begins(wanted, saved) /\ \E K : Range(saved) \subseteq K /\ removed \cap K = {}
    BY <1>1, <1>6 DEF KeptInv, SnapshotsInv
  <2> QED BY <1>2, <2>1, BeginsRange
<1> QED BY <1>2, <1>3, <1>4, <1>5, <1>6 DEF Kinds

(* What the views of a browser keep in localStorage, for any entries, views *)
(* and limits: as long as none writes a list that is out of date, the       *)
(* newest entries the user added are there, through closing and opening     *)
(* views, and nothing that was removed, except for the commands, whose      *)
(* Clear is not saved.                                                      *)
THEOREM WhatIsKept == KeptSpec => []KeepsWhatWasKept
<1>1. KeptInit => KeptInv
  BY KeptInitInv
<1>2. KeptInv /\ [KeptNext]_keptPart => KeptInv'
  BY KeptInvStep, KeptInvStutter
<1>3. KeptInv => KeepsWhatWasKept
  BY KeptInvShows
<1> QED BY <1>1, <1>2, <1>3, PTL DEF KeptSpec
=============================================================================
