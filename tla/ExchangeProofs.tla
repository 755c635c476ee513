--------------------------- MODULE ExchangeProofs ---------------------------
(* Proofs about MessageExchange, and RequestFramer in it.                  *)
EXTENDS MessageExchange, SelectionsProofs

-----------------------------------------------------------------------------
(* The bytes of a sequence of requests.                                    *)

\* BytesFrom is what its definition says: such a function exists.
LEMMA BytesExist ==
  ASSUME NEW wire, Len(wire) \in Nat
  PROVE  BytesFrom(wire) =
           [i \in 1..(Len(wire) + 1) |->
              IF i = Len(wire) + 1 THEN <<>>
              ELSE wire[i].head \o wire[i].body \o BytesFrom(wire)[i + 1]]
<1> DEFINE N == Len(wire)
           Is(f, d) == \A i \in (N + 1 - d)..(N + 1) :
                         f[i] = IF i = N + 1 THEN <<>> ELSE wire[i].head \o wire[i].body \o f[i + 1]
           Bad == {d \in 0..N : ~\E f : Is(f, d)}
           Whole(f) == [i \in 1..(N + 1) |->
                          IF i = N + 1 THEN <<>> ELSE wire[i].head \o wire[i].body \o f[i + 1]]
<1>1. Bad = {}
  <2> SUFFICES ASSUME Bad # {} PROVE FALSE
    OBVIOUS
  <2>1. PICK d \in Bad : \A e \in Bad : d <= e
    <3>1. Bad \subseteq Nat
      OBVIOUS
    <3>2. QED
      BY <3>1, LeastExists
  <2>2. d # 0
    <3>1. Is([i \in {N + 1} |-> <<>>], 0)
      OBVIOUS
    <3>2. QED
      BY <3>1, <2>1
  <2>3. PICK f : Is(f, d - 1)
    <3>1. d - 1 \in 0..N /\ ~(d <= d - 1)
      BY <2>1, <2>2
    <3>2. d - 1 \notin Bad
      BY <2>1, <3>1
    <3>3. QED
      BY <3>1, <3>2
  <2> DEFINE g == [i \in (N + 1 - d)..(N + 1) |->
                     IF i = N + 1 - d THEN wire[i].head \o wire[i].body \o f[i + 1] ELSE f[i]]
  <2>4. Is(g, d)
    <3> SUFFICES ASSUME NEW i \in (N + 1 - d)..(N + 1)
                 PROVE  g[i] = IF i = N + 1 THEN <<>> ELSE wire[i].head \o wire[i].body \o g[i + 1]
      OBVIOUS
    <3>1. CASE i = N + 1 - d
      <4>1. i # N + 1 /\ i + 1 \in (N + 1 - d)..(N + 1) /\ i + 1 # N + 1 - d
        BY <3>1, <2>1, <2>2
      <4>2. QED
        BY <3>1, <4>1
    <3>2. CASE i # N + 1 - d
      <4>1. i \in (N + 1 - (d - 1))..(N + 1)
        BY <3>2, <2>1
      <4>2. i # N + 1 => i + 1 \in (N + 1 - d)..(N + 1) /\ i + 1 # N + 1 - d
        BY <3>2, <2>1
      <4>3. f[i] = IF i = N + 1 THEN <<>> ELSE wire[i].head \o wire[i].body \o f[i + 1]
        BY <2>3, <4>1
      <4>4. QED
        BY <3>2, <4>2, <4>3
    <3>3. QED
      BY <3>1, <3>2
  <2>5. QED
    BY <2>1, <2>4
<1>2. PICK f : Is(f, N)
  BY <1>1
<1>3. Whole(f) = Whole(Whole(f))
  <2>1. ASSUME NEW i \in 1..(N + 1), i # N + 1 PROVE f[i + 1] = Whole(f)[i + 1]
    BY <2>1, <1>2
  <2>2. QED
    BY <2>1
<1>4. \E g : g = Whole(g)
  BY <1>3
<1>5. BytesFrom(wire) = CHOOSE g : g = Whole(g)
  BY DEF BytesFrom
<1>6. QED
  BY <1>4, <1>5

\* The bytes from one request on are its own and those from the next one on.
LEMMA BytesAre ==
  ASSUME NEW A, NEW wire \in Seq([head : Seq(A), body : Seq(A)])
  PROVE  /\ BytesFrom(wire)[Len(wire) + 1] = <<>>
         /\ \A i \in 1..Len(wire) :
              BytesFrom(wire)[i] = wire[i].head \o wire[i].body \o BytesFrom(wire)[i + 1]
         /\ \A i \in 1..(Len(wire) + 1) : BytesFrom(wire)[i] \in Seq(A)
<1> DEFINE N == Len(wire)
           F == BytesFrom(wire)
<1>1. N \in Nat /\ \A i \in 1..N : wire[i].head \in Seq(A) /\ wire[i].body \in Seq(A)
  <2> DEFINE R == [head : Seq(A), body : Seq(A)]
  <2>1. N \in Nat /\ \A i \in 1..N : wire[i] \in R
    <3> HIDE DEF R
    <3>1. wire \in Seq(R)
      BY DEF R
    <3>2. QED
      BY <3>1, ElementOfSeq
  <2>2. \A r \in [head : Seq(A), body : Seq(A)] : r.head \in Seq(A) /\ r.body \in Seq(A)
    OBVIOUS
  <2>3. QED
    BY <2>1, <2>2, Zenon
<1>2. F = [i \in 1..(N + 1) |-> IF i = N + 1 THEN <<>> ELSE wire[i].head \o wire[i].body \o F[i + 1]]
  BY <1>1, BytesExist
<1> HIDE DEF F
<1>3. /\ F[N + 1] = <<>>
      /\ \A i \in 1..N : F[i] = wire[i].head \o wire[i].body \o F[i + 1]
  <2>1. \A i \in 1..(N + 1) : F[i] = IF i = N + 1 THEN <<>> ELSE wire[i].head \o wire[i].body \o F[i + 1]
    BY <1>2, Zenon
  <2>2. N + 1 \in 1..(N + 1) /\ \A i \in 1..N : i \in 1..(N + 1) /\ i # N + 1
    BY <1>1
  <2>3. QED
    BY <2>1, <2>2, Zenon
<1>4. \A i \in 1..(N + 1) : F[i] \in Seq(A)
  <2> DEFINE Bad == {d \in 0..N : F[N + 1 - d] \notin Seq(A)}
  <2> SUFFICES ASSUME Bad # {} PROVE FALSE
    <3>1. ASSUME NEW i \in 1..(N + 1), Bad = {} PROVE F[i] \in Seq(A)
      <4>1. N + 1 - i \in 0..N /\ N + 1 - (N + 1 - i) = i
        BY <1>1
      <4>2. QED
        BY <3>1, <4>1
    <3>2. QED
      BY <3>1
  <2>1. Bad \subseteq Nat
    OBVIOUS
  <2>2. PICK d \in Bad : \A e \in Bad : d <= e
    BY <2>1, LeastExists
  <2>3. d # 0
    <3>1. N + 1 - 0 = N + 1 /\ <<>> \in Seq(A)
      BY <1>1
    <3>2. QED
      BY <1>3, <2>2, <3>1
  <2>4. F[N + 1 - (d - 1)] \in Seq(A)
    <3>1. d - 1 \in 0..N /\ ~(d <= d - 1)
      BY <1>1, <2>2, <2>3
    <3>2. QED
      BY <2>2, <3>1
  <2>5. F[N + 1 - d] = wire[N + 1 - d].head \o wire[N + 1 - d].body \o F[N + 1 - (d - 1)]
    <3>1. N + 1 - d \in 1..N /\ (N + 1 - d) + 1 = N + 1 - (d - 1)
      BY <1>1, <2>2, <2>3
    <3>2. QED
      BY <1>3, <3>1
  <2>6. wire[N + 1 - d].head \in Seq(A) /\ wire[N + 1 - d].body \in Seq(A)
    BY <1>1, <2>2, <2>3
  <2>7. F[N + 1 - d] \in Seq(A)
    BY <2>4, <2>5, <2>6, ConcatProperties
  <2>8. QED
    BY <2>2, <2>7
<1>5. QED
  BY <1>3, <1>4 DEF F

-----------------------------------------------------------------------------
(* Heads with one kind of line ends.                                       *)

LEMMA SymbolsDiffer == CR # LF /\ ~IsLine(CR) /\ ~IsLine(LF)
BY DEF CR, LF, IsLine

\* What stands next to what in a head whose lines end in CR LF.
LEMMA CrlfHeadIs ==
  ASSUME NEW A, NEW h \in Seq(A), CrlfHead(h)
  PROVE  /\ Len(h) \in Nat /\ Len(h) >= 5
         /\ h[Len(h) - 3] = CR /\ h[Len(h) - 2] = LF /\ h[Len(h) - 1] = CR /\ h[Len(h)] = LF
         /\ \A i \in 1..(Len(h) - 1) : h[i] = LF => h[i + 1] # LF /\ (h[i + 1] = CR => i = Len(h) - 2)
         /\ \A i \in 1..Len(h) : IsLine(h[i]) => i <= Len(h) - 4 /\ h[i + 1] = CR /\ h[i + 2] = LF
         /\ \A i \in 2..Len(h) : h[i] = LF => h[i - 1] = CR
         /\ \A i \in 2..Len(h) : IsLine(h[i]) => h[i - 1] = LF
<1> DEFINE last == Len(h) - 2
<1>1. Len(h) \in Nat
  OBVIOUS
<1>2. /\ last >= 3 /\ IsLine(h[1]) /\ h[last] = LF
      /\ \A i \in 1..(Len(h) - 1) :
           \/ IsLine(h[i]) /\ h[i + 1] = CR
           \/ h[i] = CR /\ h[i + 1] = LF
           \/ h[i] = LF /\ IF i = last THEN h[i + 1] = CR ELSE IsLine(h[i + 1])
  BY DEF CrlfHead
<1>3. \A i \in 1..(Len(h) - 1) : h[i] = LF => h[i + 1] # LF /\ (h[i + 1] = CR => i = last)
  BY <1>2, SymbolsDiffer
<1>4. \A i \in 2..Len(h) : i - 1 \in 1..(Len(h) - 1) /\ (i - 1) + 1 = i
  BY <1>1
<1>5. \A i \in 2..Len(h) : h[i] = LF => h[i - 1] = CR
  BY <1>2, <1>4, SymbolsDiffer
<1>6. \A i \in 2..Len(h) : IsLine(h[i]) => h[i - 1] = LF
  BY <1>2, <1>4, SymbolsDiffer
<1>7. h[last - 1] = CR /\ h[last + 1] = CR /\ h[last + 2] = LF
  <2>1. last \in 2..Len(h) /\ last \in 1..(Len(h) - 1) /\ last + 1 \in 1..(Len(h) - 1)
        /\ (last + 1) + 1 = last + 2
    BY <1>1, <1>2
  <2>2. h[last - 1] = CR
    BY <1>2, <1>5, <2>1
  <2>3. h[last + 1] = CR
    BY <1>2, <2>1, SymbolsDiffer
  <2>4. h[last + 2] = LF
    BY <1>2, <2>1, <2>3, SymbolsDiffer
  <2>5. QED
    BY <2>2, <2>3, <2>4
<1>8. last - 1 = Len(h) - 3 /\ last + 1 = Len(h) - 1 /\ last + 2 = Len(h)
  BY <1>1
<1>9. ASSUME NEW i \in 1..Len(h), IsLine(h[i])
      PROVE  i <= Len(h) - 4 /\ h[i + 1] = CR /\ h[i + 2] = LF
  <2>1. i \notin {last - 1, last, last + 1, last + 2}
    BY <1>2, <1>7, <1>9, SymbolsDiffer
  <2>2. i <= Len(h) - 4
    BY <1>1, <2>1
  <2>3. i \in 1..(Len(h) - 1) /\ i + 1 \in 1..(Len(h) - 1) /\ (i + 1) + 1 = i + 2
    BY <1>1, <2>2
  <2>4. h[i + 1] = CR
    BY <1>2, <1>9, <2>3, SymbolsDiffer
  <2>5. h[i + 2] = LF
    BY <1>2, <2>3, <2>4, SymbolsDiffer
  <2>6. QED
    BY <2>2, <2>4, <2>5
<1>10. Len(h) >= 5 /\ last = Len(h) - 2
  BY <1>1, <1>2
<1> HIDE DEF last
<1>11. h[Len(h) - 3] = CR /\ h[Len(h) - 2] = LF /\ h[Len(h) - 1] = CR /\ h[Len(h)] = LF
  BY <1>2, <1>7, <1>8, <1>10, Zenon
<1>12. QED
  BY <1>1, <1>3, <1>5, <1>6, <1>9, <1>10, <1>11 DEF last

\* What stands next to what in a head whose lines end in LF.
LEMMA LfHeadIs ==
  ASSUME NEW A, NEW h \in Seq(A), LfHead(h)
  PROVE  /\ Len(h) \in Nat /\ Len(h) >= 3
         /\ h[Len(h) - 1] = LF /\ h[Len(h)] = LF
         /\ \A i \in 1..Len(h) : h[i] # CR
         /\ \A i \in 1..(Len(h) - 1) : h[i] = LF /\ h[i + 1] = LF => i = Len(h) - 1
         /\ \A i \in 1..Len(h) : IsLine(h[i]) => i <= Len(h) - 2 /\ h[i + 1] = LF
         /\ \A i \in 2..Len(h) : IsLine(h[i]) => h[i - 1] = LF
<1> DEFINE last == Len(h) - 1
<1>1. Len(h) \in Nat
  OBVIOUS
<1>2. /\ last >= 2 /\ IsLine(h[1]) /\ h[last] = LF
      /\ \A i \in 1..last :
           \/ IsLine(h[i]) /\ h[i + 1] = LF
           \/ h[i] = LF /\ IF i = last THEN h[i + 1] = LF ELSE IsLine(h[i + 1])
  BY DEF LfHead
<1>3. h[last + 1] = LF /\ last + 1 = Len(h)
  BY <1>1, <1>2, SymbolsDiffer
<1>4. \A i \in 2..Len(h) : i - 1 \in 1..last /\ (i - 1) + 1 = i
  BY <1>1
<1>5. \A i \in 1..Len(h) : h[i] # CR
  <2>1. ASSUME NEW i \in 1..Len(h) PROVE i \in 1..last \/ i = last + 1
    BY <1>1
  <2>2. QED
    BY <1>2, <1>3, <2>1, SymbolsDiffer
<1>6. \A i \in 1..last : h[i] = LF /\ h[i + 1] = LF => i = last
  BY <1>2, SymbolsDiffer
<1>7. \A i \in 2..Len(h) : IsLine(h[i]) => h[i - 1] = LF
  BY <1>2, <1>4, SymbolsDiffer
<1>8. ASSUME NEW i \in 1..Len(h), IsLine(h[i])
      PROVE  i <= Len(h) - 2 /\ h[i + 1] = LF
  <2>1. i # last /\ i # last + 1
    BY <1>2, <1>3, <1>8, SymbolsDiffer
  <2>2. i <= Len(h) - 2 /\ i \in 1..last
    BY <1>1, <2>1
  <2>3. QED
    BY <1>2, <1>8, <2>2, SymbolsDiffer
<1>9. Len(h) >= 3 /\ last = Len(h) - 1
  BY <1>1, <1>2
<1> HIDE DEF last
<1>10. h[Len(h) - 1] = LF /\ h[Len(h)] = LF
  BY <1>2, <1>3, <1>9, Zenon
<1>11. QED
  BY <1>1, <1>5, <1>6, <1>7, <1>8, <1>9, <1>10 DEF last

-----------------------------------------------------------------------------
(* Where a head ends, in what begins with it.                              *)

LEMMA LeastIs ==
  ASSUME NEW T, T \subseteq Int, NEW n \in T, \A m \in T : n <= m
  PROVE  Least(T) = n
<1>1. \A k \in T : (\A m \in T : k <= m) => k = n
  OBVIOUS
<1>2. QED
  BY <1>1 DEF Least

\* The blank lines of a text by the number of symbols up to their ends.
LEMMA EndsAre ==
  ASSUME NEW A, NEW s \in Seq(A)
  PROVE  /\ EndsWithCrlf(s) = {e \in 4..Len(s) : s[e - 3] = CR /\ s[e - 2] = LF /\ s[e - 1] = CR /\ s[e] = LF}
         /\ EndsWithLf(s) = {e \in 2..Len(s) : s[e - 1] = LF /\ s[e] = LF}
<1>1. Len(s) \in Nat /\ DOMAIN s = 1..Len(s)
  OBVIOUS
<1>2. ASSUME NEW e \in EndsWithCrlf(s)
      PROVE  e \in 4..Len(s) /\ s[e - 3] = CR /\ s[e - 2] = LF /\ s[e - 1] = CR /\ s[e] = LF
  <2>1. PICK i \in DOMAIN s : e = i + 3 /\ CrlfAt(s, i) /\ CrlfAt(s, i + 2)
    BY DEF EndsWithCrlf
  <2>2. i \in Nat /\ i >= 1 /\ i + 3 <= Len(s) /\ s[i] = CR /\ s[i + 1] = LF /\ s[i + 2] = CR /\ s[(i + 2) + 1] = LF
    BY <1>1, <2>1 DEF CrlfAt
  <2>3. e - 3 = i /\ e - 2 = i + 1 /\ e - 1 = i + 2 /\ e = (i + 2) + 1 /\ e \in 4..Len(s)
    BY <1>1, <2>1, <2>2
  <2>4. QED
    BY <2>2, <2>3, Zenon
<1>3. ASSUME NEW e \in 4..Len(s), s[e - 3] = CR, s[e - 2] = LF, s[e - 1] = CR, s[e] = LF
      PROVE  e \in EndsWithCrlf(s)
  <2> DEFINE i == e - 3
  <2>1. /\ i \in DOMAIN s /\ i \in 1..(Len(s) - 1) /\ i + 2 \in 1..(Len(s) - 1)
        /\ i + 1 = e - 2 /\ i + 2 = e - 1 /\ (i + 2) + 1 = e /\ i + 3 = e
    BY <1>1
  <2> HIDE DEF i
  <2>2. s[i] = CR
    BY <1>3 DEF i
  <2>3. CrlfAt(s, i) /\ CrlfAt(s, i + 2)
    BY <1>3, <2>1, <2>2, Zenon DEF CrlfAt
  <2>4. QED
    BY <2>1, <2>3, Zenon DEF EndsWithCrlf
<1>4. ASSUME NEW e \in EndsWithLf(s)
      PROVE  e \in 2..Len(s) /\ s[e - 1] = LF /\ s[e] = LF
  <2>1. PICK i \in 1..(Len(s) - 1) : e = i + 1 /\ s[i] = LF /\ s[i + 1] = LF
    BY DEF EndsWithLf
  <2>2. e - 1 = i /\ e \in 2..Len(s)
    BY <1>1, <2>1
  <2>3. QED
    BY <2>1, <2>2, Zenon
<1>5. ASSUME NEW e \in 2..Len(s), s[e - 1] = LF, s[e] = LF
      PROVE  e \in EndsWithLf(s)
  <2>1. e - 1 \in 1..(Len(s) - 1) /\ (e - 1) + 1 = e
    BY <1>1
  <2>2. QED
    BY <1>5, <2>1, Zenon DEF EndsWithLf
<1>6. EndsWithCrlf(s) = {e \in 4..Len(s) : s[e - 3] = CR /\ s[e - 2] = LF /\ s[e - 1] = CR /\ s[e] = LF}
  BY <1>2, <1>3, Zenon
<1>7. EndsWithLf(s) = {e \in 2..Len(s) : s[e - 1] = LF /\ s[e] = LF}
  BY <1>4, <1>5, Zenon
<1>8. QED
  BY <1>6, <1>7

\* A text that begins with a head of CR LF lines, or is the beginning of one.
LEMMA CrlfEnd ==
  ASSUME NEW A, NEW h \in Seq(A), NEW s \in Seq(A), CrlfHead(h),
         \A i \in 1..Len(s) : i <= Len(h) => s[i] = h[i]
  PROVE  /\ Len(s) >= Len(h) => EndsWithCrlf(s) # {} /\ Least(EndsWithCrlf(s)) = Len(h)
         /\ Len(s) < Len(h) => EndsWithCrlf(s) = {} /\ EndsWithLf(s) = {}
<1> DEFINE L == Len(h)
<1>1. Len(s) \in Nat /\ L \in Nat /\ L >= 5
  BY CrlfHeadIs
<1>2. ASSUME NEW e \in EndsWithCrlf(s) PROVE e \in Nat /\ e <= Len(s) /\ e >= L
  <2>1. e \in 4..Len(s) /\ s[e - 2] = LF /\ s[e - 1] = CR
    BY EndsAre
  <2>2. ASSUME e < L PROVE FALSE
    <3>1. /\ e - 2 \in 1..Len(s) /\ e - 1 \in 1..Len(s) /\ e - 2 <= L /\ e - 1 <= L
          /\ e - 2 \in 1..(L - 1) /\ (e - 2) + 1 = e - 1 /\ e - 2 # L - 2
      BY <1>1, <2>1, <2>2
    <3>2. h[e - 2] = LF /\ h[e - 1] = CR
      BY <2>1, <3>1
    <3>3. \A i \in 1..(L - 1) : h[i] = LF => h[i + 1] # LF /\ (h[i + 1] = CR => i = L - 2)
      BY CrlfHeadIs
    <3>4. QED
      BY <3>1, <3>2, <3>3, Zenon
  <2>3. QED
    BY <1>1, <2>1, <2>2
<1>3. ASSUME Len(s) >= L PROVE L \in EndsWithCrlf(s)
  <2>1. /\ L \in 4..Len(s)
        /\ L - 3 \in 1..Len(s) /\ L - 2 \in 1..Len(s) /\ L - 1 \in 1..Len(s) /\ L \in 1..Len(s)
        /\ L - 3 <= L /\ L - 2 <= L /\ L - 1 <= L /\ L <= L
    BY <1>1, <1>3
  <2>2. h[L - 3] = CR /\ h[L - 2] = LF /\ h[L - 1] = CR /\ h[L] = LF
    BY CrlfHeadIs
  <2>3. s[L - 3] = CR /\ s[L - 2] = LF /\ s[L - 1] = CR /\ s[L] = LF
    BY <2>1, <2>2, Zenon
  <2>4. QED
    BY <2>1, <2>3, EndsAre
<1>4. ASSUME Len(s) >= L PROVE EndsWithCrlf(s) # {} /\ Least(EndsWithCrlf(s)) = L
  <2>1. L \in EndsWithCrlf(s) /\ EndsWithCrlf(s) \subseteq Int /\ \A e \in EndsWithCrlf(s) : L <= e
    BY <1>1, <1>2, <1>3, <1>4
  <2>2. QED
    BY <2>1, LeastIs
<1>5. ASSUME Len(s) < L PROVE EndsWithCrlf(s) = {} /\ EndsWithLf(s) = {}
  <2>1. EndsWithCrlf(s) = {}
    BY <1>1, <1>2, <1>5
  <2>2. ASSUME NEW e \in EndsWithLf(s) PROVE FALSE
    <3>1. e \in 2..Len(s) /\ s[e - 1] = LF /\ s[e] = LF
      BY EndsAre
    <3>2. /\ e - 1 \in 1..Len(s) /\ e \in 1..Len(s) /\ e - 1 <= L /\ e <= L
          /\ e - 1 \in 1..(L - 1) /\ (e - 1) + 1 = e
      BY <1>1, <1>5, <3>1
    <3>3. h[e - 1] = LF /\ h[e] = LF
      BY <3>1, <3>2
    <3>4. \A i \in 1..(L - 1) : h[i] = LF => h[i + 1] # LF
      BY CrlfHeadIs
    <3>5. QED
      BY <3>2, <3>3, <3>4, Zenon
  <2>3. QED
    BY <2>1, <2>2
<1>6. QED
  BY <1>4, <1>5

\* A text without CR LF CR LF that begins with a head of LF lines, or is the
\* beginning of one.
LEMMA LfEnd ==
  ASSUME NEW A, NEW h \in Seq(A), NEW s \in Seq(A), LfHead(h),
         \A i \in 1..Len(s) : i <= Len(h) => s[i] = h[i]
  PROVE  /\ Len(s) >= Len(h) => EndsWithLf(s) # {} /\ Least(EndsWithLf(s)) = Len(h)
         /\ Len(s) < Len(h) => EndsWithLf(s) = {}
<1> DEFINE L == Len(h)
<1>1. Len(s) \in Nat /\ L \in Nat /\ L >= 3
  BY LfHeadIs
<1>2. ASSUME NEW e \in EndsWithLf(s) PROVE e \in Nat /\ e <= Len(s) /\ e >= L
  <2>1. e \in 2..Len(s) /\ s[e - 1] = LF /\ s[e] = LF
    BY EndsAre
  <2>2. ASSUME e < L PROVE FALSE
    <3>1. /\ e - 1 \in 1..Len(s) /\ e \in 1..Len(s) /\ e - 1 <= L /\ e <= L
          /\ e - 1 \in 1..(L - 1) /\ (e - 1) + 1 = e /\ e - 1 # L - 1
      BY <1>1, <2>1, <2>2
    <3>2. h[e - 1] = LF /\ h[e] = LF
      BY <2>1, <3>1
    <3>3. \A i \in 1..(L - 1) : h[i] = LF /\ h[i + 1] = LF => i = L - 1
      BY LfHeadIs
    <3>4. QED
      BY <3>1, <3>2, <3>3, Zenon
  <2>3. QED
    BY <1>1, <2>1, <2>2
<1>3. ASSUME Len(s) >= L PROVE L \in EndsWithLf(s)
  <2>1. L \in 2..Len(s) /\ L - 1 \in 1..Len(s) /\ L \in 1..Len(s) /\ L - 1 <= L /\ L <= L
    BY <1>1, <1>3
  <2>2. h[L - 1] = LF /\ h[L] = LF
    BY LfHeadIs
  <2>3. s[L - 1] = LF /\ s[L] = LF
    BY <2>1, <2>2, Zenon
  <2>4. QED
    BY <2>1, <2>3, EndsAre
<1>4. ASSUME Len(s) >= L PROVE EndsWithLf(s) # {} /\ Least(EndsWithLf(s)) = L
  <2>1. L \in EndsWithLf(s) /\ EndsWithLf(s) \subseteq Int /\ \A e \in EndsWithLf(s) : L <= e
    BY <1>1, <1>2, <1>3, <1>4
  <2>2. QED
    BY <2>1, LeastIs
<1>5. QED
  BY <1>1, <1>2, <1>4

\* The head h can be found in the text s.
Findable(h, s) == CrlfHead(h) \/ (LfHead(h) /\ EndsWithCrlf(s) = {})

LEMMA LfHeadHoldsNoCrlf ==
  ASSUME NEW A, NEW h \in Seq(A), LfHead(h)
  PROVE  EndsWithCrlf(h) = {}
<1>1. ASSUME NEW e \in EndsWithCrlf(h) PROVE FALSE
  <2>1. e \in 4..Len(h) /\ h[e - 1] = CR
    BY EndsAre
  <2>2. e - 1 \in 1..Len(h)
    BY <2>1, LfHeadIs
  <2>3. QED
    BY <2>1, <2>2, LfHeadIs
<1>2. QED
  BY <1>1

\* What findHeaderEnd says of a text that begins with a head.
LEMMA HeaderEndIs ==
  ASSUME NEW A, NEW h \in Seq(A), NEW s \in Seq(A),
         Findable(h, s), \A i \in 1..Len(s) : i <= Len(h) => s[i] = h[i]
  PROVE  /\ Len(h) \in Nat \ {0}
         /\ HeaderEnd(s) = IF Len(s) >= Len(h) THEN Len(h) ELSE 0
<1>1. Len(h) \in Nat /\ Len(s) \in Nat
  OBVIOUS
<1>2. CASE CrlfHead(h)
  <2>1. Len(h) # 0
    BY <1>2, CrlfHeadIs
  <2>2. CASE Len(s) >= Len(h)
    <3>1. EndsWithCrlf(s) # {} /\ Least(EndsWithCrlf(s)) = Len(h)
      BY <1>2, <2>2, CrlfEnd
    <3>2. QED
      BY <1>1, <2>1, <2>2, <3>1 DEF HeaderEnd
  <2>3. CASE Len(s) < Len(h)
    <3>1. EndsWithCrlf(s) = {} /\ EndsWithLf(s) = {}
      BY <1>2, <2>3, CrlfEnd
    <3>2. QED
      BY <1>1, <2>1, <2>3, <3>1 DEF HeaderEnd
  <2>4. QED
    BY <1>1, <2>2, <2>3
<1>3. CASE LfHead(h) /\ EndsWithCrlf(s) = {}
  <2>1. Len(h) # 0
    BY <1>3, LfHeadIs
  <2>2. CASE Len(s) >= Len(h)
    <3>1. EndsWithLf(s) # {} /\ Least(EndsWithLf(s)) = Len(h)
      BY <1>3, <2>2, LfEnd
    <3>2. QED
      BY <1>1, <1>3, <2>1, <2>2, <3>1 DEF HeaderEnd
  <2>3. CASE Len(s) < Len(h)
    <3>1. EndsWithLf(s) = {}
      BY <1>3, <2>3, LfEnd
    <3>2. QED
      BY <1>1, <1>3, <2>1, <2>3, <3>1 DEF HeaderEnd
  <2>4. QED
    BY <1>1, <2>2, <2>3
<1>4. QED
  BY <1>2, <1>3 DEF Findable

-----------------------------------------------------------------------------
(* Lines and the declared length.                                          *)

\* Every line of a head, whole or cut behind some symbol, starts where the loops of
\* the framer and of the parser begin a line.
LEMMA LinesStart ==
  ASSUME NEW A, NEW h \in Seq(A), NEW g \in Seq(A), CrlfHead(h) \/ LfHead(h),
         Len(g) <= Len(h), \A i \in 1..Len(g) : g[i] = h[i]
  PROVE  {i \in LineStarts(g) : IsLine(g[i])} = {i \in 1..Len(g) : IsLine(h[i])}
<1>1. Len(h) \in Nat /\ Len(g) \in Nat /\ DOMAIN g = 1..Len(g)
  OBVIOUS
<1>2. ASSUME NEW i \in 1..Len(g), IsLine(h[i]), i # 1 PROVE EndsLine(g, i - 1)
  <2>1. i \in 2..Len(h) /\ i - 1 \in 1..Len(g) /\ i - 1 \in 1..Len(h)
    BY <1>1, <1>2
  <2>2. CASE CrlfHead(h)
    <3>1. h[i - 1] = LF
      BY <1>2, <2>1, <2>2, CrlfHeadIs
    <3>2. i - 1 # 1
      BY <2>2, <3>1, SymbolsDiffer DEF CrlfHead
    <3>3. i - 1 \in 2..Len(h) /\ (i - 1) - 1 \in 1..Len(g) /\ i - 1 > 1
      BY <1>1, <2>1, <3>2
    <3>4. h[(i - 1) - 1] = CR
      BY <2>2, <3>1, <3>3, CrlfHeadIs
    <3>5. g[i - 1] = LF /\ g[(i - 1) - 1] = CR
      BY <2>1, <3>1, <3>3, <3>4, Zenon
    <3>6. QED
      BY <3>3, <3>5, Zenon DEF EndsLine
  <2>3. CASE LfHead(h)
    <3>1. h[i - 1] = LF
      BY <1>2, <2>1, <2>3, LfHeadIs
    <3>2. ASSUME NEW j, CrlfAt(g, j) PROVE FALSE
      <4>1. j \in 1..Len(g) /\ j \in 1..Len(h) /\ g[j] = CR
        BY <1>1, <3>2 DEF CrlfAt
      <4>2. QED
        BY <2>3, <4>1, LfHeadIs
    <3>3. QED
      BY <2>1, <3>1, <3>2, Zenon DEF EndsLine
  <2>4. QED
    BY <2>2, <2>3
<1>3. \A i \in 1..Len(g) : IsLine(h[i]) => i \in LineStarts(g)
  BY <1>1, <1>2, Zenon DEF LineStarts
<1>4. \A i \in LineStarts(g) : i \in 1..Len(g)
  BY <1>1 DEF LineStarts
<1>5. QED
  BY <1>3, <1>4, Zenon

\* No blank line comes before the last line of a head.
LEMMA NoBlankBefore ==
  ASSUME NEW A, NEW h \in Seq(A), CrlfHead(h) \/ LfHead(h),
         NEW i \in 1..Len(h), IsLine(h[i]), NEW b \in LineStarts(h), b < i
  PROVE  ~Blank(h, b)
<1> SUFFICES ASSUME Blank(h, b) PROVE FALSE
  OBVIOUS
<1>1. /\ Len(h) \in Nat /\ b \in 1..Len(h)
      /\ b = 1 \/ EndsLine(h, b - 1)
  BY DEF LineStarts
<1>2. CrlfAt(h, b) \/ h[b] = LF
  BY DEF Blank
<1>3. h[b] = CR \/ h[b] = LF
  BY <1>2 DEF CrlfAt
<1>4. b # 1
  BY <1>3, SymbolsDiffer DEF CrlfHead, LfHead
<1>5. h[b - 1] = LF
  BY <1>1, <1>4 DEF EndsLine
<1>6. b - 1 \in 1..(Len(h) - 1) /\ (b - 1) + 1 = b
  BY <1>1, <1>4
<1>7. CASE CrlfHead(h)
  <2>1. b - 1 = Len(h) - 2
    <3>1. \A k \in 1..(Len(h) - 1) : h[k] = LF => h[k + 1] # LF /\ (h[k + 1] = CR => k = Len(h) - 2)
      BY <1>7, CrlfHeadIs
    <3>2. QED
      BY <1>3, <1>5, <1>6, <3>1, Zenon
  <2>2. i <= Len(h) - 4
    BY <1>7, CrlfHeadIs
  <2>3. QED
    BY <1>1, <2>1, <2>2
<1>8. CASE LfHead(h)
  <2>1. h[b] = LF
    BY <1>1, <1>3, <1>8, LfHeadIs
  <2>2. b - 1 = Len(h) - 1
    <3>1. \A k \in 1..(Len(h) - 1) : h[k] = LF /\ h[k + 1] = LF => k = Len(h) - 1
      BY <1>8, LfHeadIs
    <3>2. QED
      BY <1>5, <1>6, <2>1, <3>1, Zenon
  <2>3. i <= Len(h) - 2
    BY <1>8, LfHeadIs
  <2>4. QED
    BY <1>1, <2>2, <2>3
<1>9. QED
  BY <1>7, <1>8

LEMMA LengthLinesAreLines == \A x \in LengthLines : IsLine(x)
BY DEF LengthLines, InvalidLine, LengthLine, IsLine, CR, LF, OtherByte

\* The framer counts the length that the client has declared.
LEMMA LengthIsDeclared ==
  ASSUME NEW A, NEW h \in Seq(A), CrlfHead(h) \/ LfHead(h)
  PROVE  ContentLength(h) = DeclaredLength(h)
<1> DEFINE given == {i \in DOMAIN h : h[i] \in LengthLines}
<1>1. Len(h) \in Nat /\ DOMAIN h = 1..Len(h)
  OBVIOUS
<1>2. {i \in LineStarts(h) : IsLine(h[i])} = {i \in 1..Len(h) : IsLine(h[i])}
  BY <1>1, LinesStart
<1>3. LengthStarts(h) = given
  <2>1. ASSUME NEW i \in given PROVE i \in LengthStarts(h)
    <3>1. i \in 1..Len(h) /\ IsLine(h[i])
      BY <1>1, LengthLinesAreLines
    <3>2. i \in LineStarts(h)
      BY <1>2, <3>1
    <3>3. \A b \in LineStarts(h) : b < i => ~Blank(h, b)
      BY <3>1, NoBlankBefore
    <3>4. QED
      BY <3>2, <3>3 DEF LengthStarts
  <2>2. LengthStarts(h) \subseteq given
    BY DEF LengthStarts, LineStarts
  <2>3. QED
    BY <2>1, <2>2
<1>4. ASSUME given # {}
      PROVE  LengthOfLine(h, Least(given)) = IF h[Least(given)] = InvalidLine THEN 0 ELSE h[Least(given)][2]
  <2> DEFINE i == Least(given)
  <2>1. i \in given
    <3>1. PICK m \in given : \A k \in given : m <= k
      <4>1. given \subseteq Nat
        OBVIOUS
      <4>2. QED
        BY <1>4, <4>1, LeastExists
    <3>2. QED
      BY <3>1, LeastIs
  <2> HIDE DEF i
  <2>2. i \in 1..Len(h) /\ IsLine(h[i])
    BY <1>1, <2>1, LengthLinesAreLines
  <2>3. CrlfAt(h, i + 1) \/ EndsLine(h, i + 1)
    <3>1. CASE CrlfHead(h)
      <4>1. i <= Len(h) - 4 /\ h[i + 1] = CR /\ h[i + 2] = LF
        BY <2>2, <3>1, CrlfHeadIs
      <4>2. i + 1 \in 1..(Len(h) - 1) /\ (i + 1) + 1 = i + 2
        BY <1>1, <2>2, <4>1
      <4>3. QED
        BY <4>1, <4>2, Zenon DEF CrlfAt
    <3>2. CASE LfHead(h)
      <4>1. h[i + 1] = LF
        BY <2>2, <3>2, LfHeadIs
      <4>2. ASSUME NEW j, CrlfAt(h, j) PROVE FALSE
        <5>1. j \in 1..Len(h) /\ h[j] = CR
          BY <1>1, <4>2 DEF CrlfAt
        <5>2. QED
          BY <3>2, <5>1, LfHeadIs
      <4>3. QED
        BY <4>1, <4>2, Zenon DEF EndsLine
    <3>3. QED
      BY <3>1, <3>2
  <2>4. LengthOfLine(h, i) = IF h[i] = InvalidLine THEN 0 ELSE h[i][2]
    BY <2>3, Zenon DEF LengthOfLine
  <2>5. QED
    BY <2>4 DEF i
<1>5. QED
  BY <1>3, <1>4 DEF ContentLength, DeclaredLength

-----------------------------------------------------------------------------
(* Cutting what is received into requests.                                 *)

\* Two ways to cut one text.
LEMMA Cuts ==
  ASSUME NEW A, NEW s \in Seq(A), NEW t \in Seq(A), NEW x \in Seq(A), NEW y \in Seq(A),
         s \o t = x \o y
  PROVE  /\ \A i \in 1..Len(s) : i <= Len(x) => s[i] = x[i]
         /\ Len(x) <= Len(s) => /\ SubSeq(s, 1, Len(x)) = x
                                /\ SubSeq(s, Len(x) + 1, Len(s)) \o t = y
<1>1. Len(s) \in Nat /\ Len(t) \in Nat /\ Len(x) \in Nat /\ Len(y) \in Nat
  OBVIOUS
<1>2. Len(s) + Len(t) = Len(x) + Len(y)
  BY ConcatProperties
<1>3. ASSUME NEW i \in 1..(Len(s) + Len(t))
      PROVE  (IF i <= Len(s) THEN s[i] ELSE t[i - Len(s)]) = (IF i <= Len(x) THEN x[i] ELSE y[i - Len(x)])
  <2>1. (s \o t)[i] = IF i <= Len(s) THEN s[i] ELSE t[i - Len(s)]
    BY ConcatProperties
  <2>2. (x \o y)[i] = IF i <= Len(x) THEN x[i] ELSE y[i - Len(x)]
    BY <1>2, ConcatProperties
  <2>3. QED
    BY <2>1, <2>2
<1>4. ASSUME NEW i \in 1..Len(s), i <= Len(x) PROVE s[i] = x[i]
  <2>1. i \in 1..(Len(s) + Len(t)) /\ i <= Len(s)
    BY <1>1
  <2>2. QED
    BY <1>3, <1>4, <2>1
<1>5. ASSUME Len(x) <= Len(s) PROVE SubSeq(s, 1, Len(x)) = x
  <2>1. /\ SubSeq(s, 1, Len(x)) \in Seq(A) /\ Len(SubSeq(s, 1, Len(x))) = Len(x)
        /\ \A i \in 1..Len(x) : SubSeq(s, 1, Len(x))[i] = s[i]
    BY <1>1, <1>5
  <2>2. \A i \in 1..Len(x) : SubSeq(s, 1, Len(x))[i] = x[i]
    BY <1>1, <1>4, <1>5, <2>1
  <2>3. QED
    BY <2>1, <2>2, SeqEqual
<1>6. ASSUME Len(x) <= Len(s) PROVE SubSeq(s, Len(x) + 1, Len(s)) \o t = y
  <2> DEFINE r == SubSeq(s, Len(x) + 1, Len(s))
  <2>1. /\ r \in Seq(A) /\ Len(r) = Len(s) - Len(x)
        /\ \A i \in 1..(Len(s) - Len(x)) : r[i] = s[Len(x) + i]
    <3>1. \A i \in (Len(x) + 1)..Len(s) : s[i] \in A
      BY <1>1
    <3>2. r \in Seq(A) /\ Len(r) = IF Len(x) + 1 <= Len(s) THEN Len(s) - (Len(x) + 1) + 1 ELSE 0
      BY <1>1, <3>1
    <3>3. \A i \in 1..(Len(s) - Len(x)) : r[i] = s[Len(x) + i]
      BY <1>1, <1>6
    <3>4. QED
      BY <1>1, <1>6, <3>2, <3>3
  <2> HIDE DEF r
  <2>2. r \o t \in Seq(A) /\ Len(r \o t) = Len(y)
    BY <1>1, <1>2, <2>1, ConcatProperties
  <2>3. ASSUME NEW i \in 1..Len(y) PROVE (r \o t)[i] = y[i]
    <3>1. /\ Len(x) + i \in 1..(Len(s) + Len(t)) /\ ~(Len(x) + i <= Len(x)) /\ (Len(x) + i) - Len(x) = i
          /\ i \in 1..(Len(r) + Len(t))
      BY <1>1, <1>2, <2>1
    <3>2. (IF Len(x) + i <= Len(s) THEN s[Len(x) + i] ELSE t[(Len(x) + i) - Len(s)]) = y[i]
      BY <1>3, <3>1
    <3>3. (r \o t)[i] = IF i <= Len(r) THEN r[i] ELSE t[i - Len(r)]
      BY <2>1, <3>1, ConcatProperties
    <3>4. CASE i <= Len(r)
      <4>1. i \in 1..(Len(s) - Len(x)) /\ Len(x) + i <= Len(s)
        BY <1>1, <2>1, <3>4
      <4>2. QED
        BY <2>1, <3>2, <3>3, <3>4, <4>1
    <3>5. CASE ~(i <= Len(r))
      <4>1. ~(Len(x) + i <= Len(s)) /\ (Len(x) + i) - Len(s) = i - Len(r)
        BY <1>1, <2>1, <3>5
      <4>2. QED
        BY <3>2, <3>3, <3>5, <4>1
    <3>6. QED
      BY <3>4, <3>5
  <2>4. QED
    BY <2>2, <2>3, SeqEqual DEF r
<1>7. QED
  BY <1>4, <1>5, <1>6

\* What is received of a text without CR LF CR LF holds none either.
LEMMA PartHoldsNoCrlf ==
  ASSUME NEW A, NEW s \in Seq(A), NEW t \in Seq(A), EndsWithCrlf(s \o t) = {}
  PROVE  EndsWithCrlf(s) = {}
<1>1. Len(s) \in Nat /\ Len(t) \in Nat
  OBVIOUS
<1>2. /\ s \o t \in Seq(A) /\ Len(s \o t) = Len(s) + Len(t)
      /\ \A i \in 1..Len(s) : (s \o t)[i] = s[i]
  BY <1>1, ConcatProperties
<1>3. ASSUME NEW e \in EndsWithCrlf(s) PROVE FALSE
  <2>1. e \in 4..Len(s) /\ s[e - 3] = CR /\ s[e - 2] = LF /\ s[e - 1] = CR /\ s[e] = LF
    BY EndsAre
  <2>2. /\ e \in 4..Len(s \o t)
        /\ e - 3 \in 1..Len(s) /\ e - 2 \in 1..Len(s) /\ e - 1 \in 1..Len(s) /\ e \in 1..Len(s)
    BY <1>1, <1>2, <2>1
  <2>3. /\ (s \o t)[e - 3] = CR /\ (s \o t)[e - 2] = LF /\ (s \o t)[e - 1] = CR /\ (s \o t)[e] = LF
    BY <1>2, <2>1, <2>2
  <2>4. e \in EndsWithCrlf(s \o t)
    BY <1>2, <2>2, <2>3, EndsAre
  <2>5. QED
    BY <2>4
<1>4. QED
  BY <1>3

LEMMA Regrouped ==
  ASSUME NEW A, NEW s \in Seq(A), NEW t \in Seq(A), NEW u \in Seq(A)
  PROVE  (s \o t) \o u = s \o (t \o u)
BY ConcatAssociative

LEMMA ConcatIs ==
  ASSUME NEW A, NEW s \in Seq(A), NEW t \in Seq(A)
  PROVE  /\ s \o t \in Seq(A) /\ Len(s) \in Nat /\ Len(t) \in Nat /\ Len(s \o t) = Len(s) + Len(t)
         /\ \A i \in 1..Len(s) : (s \o t)[i] = s[i]
         /\ \A i \in 1..Len(t) : (s \o t)[Len(s) + i] = t[i]
<1>1. Len(s) \in Nat /\ Len(t) \in Nat
  OBVIOUS
<1>2. /\ s \o t \in Seq(A) /\ Len(s \o t) = Len(s) + Len(t)
      /\ \A i \in 1..(Len(s) + Len(t)) : (s \o t)[i] = IF i <= Len(s) THEN s[i] ELSE t[i - Len(s)]
  BY ConcatProperties
<1>3. ASSUME NEW i \in 1..Len(s) PROVE (s \o t)[i] = s[i]
  <2>1. i \in 1..(Len(s) + Len(t)) /\ i <= Len(s)
    BY <1>1
  <2>2. QED
    BY <1>2, <2>1
<1>4. ASSUME NEW i \in 1..Len(t) PROVE (s \o t)[Len(s) + i] = t[i]
  <2>1. Len(s) + i \in 1..(Len(s) + Len(t)) /\ ~(Len(s) + i <= Len(s)) /\ (Len(s) + i) - Len(s) = i
    BY <1>1
  <2>2. (s \o t)[Len(s) + i] = t[(Len(s) + i) - Len(s)]
    BY <1>2, <2>1
  <2>3. QED
    BY <2>1, <2>2
<1>5. QED
  BY <1>1, <1>2, <1>3, <1>4

\* With s in the buffer a request is popped if all of it is there, and then rest is
\* left, t included, which is still to come.
Pops(s, t, request, rest) ==
  /\ IsComplete(s) <=> Len(request) <= Len(s)
  /\ IsComplete(s) => /\ SubSeq(s, 1, RequiredSize(s)) = request
                      /\ SubSeq(s, RequiredSize(s) + 1, Len(s)) \o t = rest

\* A request is complete exactly when all of it is received, and popping it leaves
\* what belongs to the next one.
LEMMA Framed ==
  ASSUME NEW A, NEW h \in Seq(A), NEW b \in Seq(A), NEW rest \in Seq(A),
         NEW s \in Seq(A), NEW t \in Seq(A),
         s \o t = h \o b \o rest, Len(b) = DeclaredLength(h),
         Findable(h, s)
  PROVE  Pops(s, t, h \o b, rest)
<1>1. Len(h) \in Nat /\ Len(b) \in Nat /\ Len(s) \in Nat
  OBVIOUS
<1>2. h \o b \in Seq(A) /\ Len(h \o b) = Len(h) + Len(b) /\ b \o rest \in Seq(A)
  <2>1. h \o b \in Seq(A) /\ Len(h \o b) = Len(h) + Len(b)
    BY ConcatProperties
  <2>2. b \o rest \in Seq(A)
    BY ConcatProperties
  <2>3. QED
    BY <2>1, <2>2
<1>3. s \o t = h \o (b \o rest)
  <2>1. h \o b \o rest = h \o (b \o rest)
    BY ONLY Regrouped, h \in Seq(A), b \in Seq(A), rest \in Seq(A), SMTT(40)
  <2>2. QED
    BY <2>1, Zenon
<1>4. /\ \A i \in 1..Len(s) : i <= Len(h) => s[i] = h[i]
      /\ Len(h) <= Len(s) => SubSeq(s, 1, Len(h)) = h
  BY <1>2, <1>3, Cuts
<1>5. Len(h) # 0 /\ HeaderEnd(s) = IF Len(s) >= Len(h) THEN Len(h) ELSE 0
  BY <1>4, HeaderEndIs
<1>6. CASE Len(s) < Len(h)
  BY <1>1, <1>2, <1>5, <1>6 DEF IsComplete, Pops
<1>7. CASE Len(s) >= Len(h)
  <2>1. HeaderEnd(s) = Len(h) /\ SubSeq(s, 1, HeaderEnd(s)) = h
    BY <1>1, <1>4, <1>5, <1>7
  <2>2. ContentLength(h) = Len(b)
    BY LengthIsDeclared DEF Findable
  <2>3. RequiredSize(s) = Len(h) + Len(b)
    BY <2>1, <2>2 DEF RequiredSize
  <2>4. IsComplete(s) <=> Len(h) + Len(b) <= Len(s)
    BY <1>1, <1>5, <2>1, <2>3 DEF IsComplete
  <2>5. Len(h \o b) <= Len(s) => /\ SubSeq(s, 1, Len(h \o b)) = h \o b
                                 /\ SubSeq(s, Len(h \o b) + 1, Len(s)) \o t = rest
    <3> DEFINE x == h \o b
    <3>1. s \o t = x \o rest /\ x \in Seq(A)
      BY <1>2
    <3> HIDE DEF x
    <3>2. Len(x) <= Len(s) => /\ SubSeq(s, 1, Len(x)) = x
                              /\ SubSeq(s, Len(x) + 1, Len(s)) \o t = rest
      BY <3>1, Cuts
    <3>3. QED
      BY <3>2 DEF x
  <2>6. QED
    BY <1>2, <2>3, <2>4, <2>5 DEF Pops
<1>8. Len(s) < Len(h) \/ Len(s) >= Len(h)
  BY <1>1
<1>9. QED
  BY <1>6, <1>7, <1>8, Zenon

-----------------------------------------------------------------------------
(* Types.                                                                  *)

LEMMA LeastIsThere ==
  ASSUME NEW T, T \subseteq Nat, T # {}
  PROVE  Least(T) \in T /\ \A m \in T : Least(T) <= m
<1>1. PICK n \in T : \A m \in T : n <= m
  BY LeastExists
<1>2. Least(T) = n
  <2>1. T \subseteq Int
    OBVIOUS
  <2>2. QED
    BY <1>1, <2>1, LeastIs
<1>3. QED
  BY <1>1, <1>2

LEMMA ContentLengthType ==
  ASSUME NEW h \in Seq(Symbol)
  PROVE  ContentLength(h) \in Nat
<1>1. LengthStarts(h) \subseteq Nat
  BY DEF LengthStarts, LineStarts
<1>2. ASSUME NEW i \in LengthStarts(h) PROVE LengthOfLine(h, i) \in Nat
  <2>1. h[i] \in LengthLines
    BY DEF LengthStarts
  <2>2. h[i] # InvalidLine => h[i][2] \in Nat
    BY <2>1, FramerAssumption DEF LengthLines, LengthLine
  <2>3. QED
    BY <2>2 DEF LengthOfLine
<1>3. LengthStarts(h) # {} => Least(LengthStarts(h)) \in LengthStarts(h)
  BY <1>1, LeastIsThere
<1>4. QED
  BY <1>2, <1>3 DEF ContentLength

LEMMA SizesAre ==
  ASSUME NEW s \in Seq(Symbol)
  PROVE  /\ HeaderEnd(s) \in 0..Len(s)
         /\ RequiredSize(s) \in Nat
         /\ IsComplete(s) => RequiredSize(s) \in 1..Len(s)
<1>1. Len(s) \in Nat
  OBVIOUS
<1>2. EndsWithCrlf(s) \subseteq 0..Len(s) /\ EndsWithLf(s) \subseteq 0..Len(s)
  BY <1>1, EndsAre
<1>3. ASSUME NEW T, T \subseteq 0..Len(s), T # {} PROVE Least(T) \in 0..Len(s)
  <2>1. T \subseteq Nat
    BY <1>1, <1>3
  <2>2. Least(T) \in T
    BY <1>3, <2>1, LeastIsThere
  <2>3. QED
    BY <1>3, <2>2
<1>4. HeaderEnd(s) \in 0..Len(s)
  <2>1. CASE EndsWithCrlf(s) # {}
    <3>1. Least(EndsWithCrlf(s)) \in 0..Len(s)
      BY <1>2, <1>3, <2>1
    <3>2. QED
      BY <2>1, <3>1 DEF HeaderEnd
  <2>2. CASE EndsWithCrlf(s) = {} /\ EndsWithLf(s) # {}
    <3>1. Least(EndsWithLf(s)) \in 0..Len(s)
      BY <1>2, <1>3, <2>2
    <3>2. QED
      BY <2>2, <3>1 DEF HeaderEnd
  <2>3. CASE EndsWithCrlf(s) = {} /\ EndsWithLf(s) = {}
    BY <1>1, <2>3 DEF HeaderEnd
  <2>4. QED
    BY <2>1, <2>2, <2>3
<1>5. SubSeq(s, 1, HeaderEnd(s)) \in Seq(Symbol)
  <2>1. \A i \in 1..HeaderEnd(s) : s[i] \in Symbol
    BY <1>1, <1>4
  <2>2. QED
    BY <1>4, <2>1
<1>6. ContentLength(SubSeq(s, 1, HeaderEnd(s))) \in Nat
  BY <1>5, ContentLengthType
<1>7. QED
  BY <1>1, <1>4, <1>6 DEF RequiredSize, IsComplete

LEMMA RequestTypes ==
  ASSUME NEW wire \in Wires
  PROVE  /\ wire \in Seq(Requests)
         /\ \A i \in 1..Len(wire) : /\ wire[i].head \in Seq(Symbol) /\ wire[i].body \in Seq(Symbol)
                                    /\ Len(wire[i].body) = DeclaredLength(wire[i].head)
                                    /\ CrlfHead(wire[i].head) \/ LfHead(wire[i].head)
<1>1. wire \in Seq(Requests)
  BY WireAssumption
<1>2. DOMAIN wire = 1..Len(wire)
  BY <1>1
<1>3. \A i \in 1..Len(wire) : wire[i] \in Requests
  BY <1>1, ElementOfSeq
<1>4. \A i \in 1..Len(wire) : wire[i].head \in Seq(Symbol) /\ wire[i].body \in Seq(Symbol)
  BY <1>3 DEF Requests
<1>5. QED
  BY <1>1, <1>2, <1>4, WireAssumption

\* The parts into which n symbols cut a text.
LEMMA PartTypes ==
  ASSUME NEW A, NEW s \in Seq(A), NEW n \in Nat, n <= Len(s)
  PROVE  /\ SubSeq(s, 1, n) \in Seq(A) /\ Len(SubSeq(s, 1, n)) = n
         /\ SubSeq(s, n + 1, Len(s)) \in Seq(A) /\ Len(SubSeq(s, n + 1, Len(s))) = Len(s) - n
         /\ SubSeq(s, 1, n) \o SubSeq(s, n + 1, Len(s)) = s
<1> DEFINE p == SubSeq(s, 1, n)
           q == SubSeq(s, n + 1, Len(s))
<1>1. Len(s) \in Nat
  OBVIOUS
<1>2. p \in Seq(A) /\ Len(p) = n /\ \A i \in 1..n : p[i] = s[i]
  <2>1. \A i \in 1..n : s[i] \in A
    BY <1>1
  <2>2. QED
    BY <1>1, <2>1
<1>3. q \in Seq(A) /\ Len(q) = Len(s) - n /\ \A i \in 1..(Len(s) - n) : q[i] = s[n + i]
  <2>1. \A i \in (n + 1)..Len(s) : s[i] \in A
    BY <1>1
  <2>2. q \in Seq(A) /\ Len(q) = IF n + 1 <= Len(s) THEN Len(s) - (n + 1) + 1 ELSE 0
    BY <1>1, <2>1
  <2>3. \A i \in 1..(Len(s) - n) : q[i] = s[n + i]
    BY <1>1
  <2>4. QED
    BY <1>1, <2>2, <2>3
<1> HIDE DEF p, q
<1>4. p \o q = s
  <2>1. p \o q \in Seq(A) /\ Len(p \o q) = Len(s)
    <3>1. p \o q \in Seq(A) /\ Len(p \o q) = Len(p) + Len(q)
      BY <1>2, <1>3, ConcatProperties
    <3>2. QED
      BY <1>1, <1>2, <1>3, <3>1
  <2>2. ASSUME NEW i \in 1..Len(s) PROVE (p \o q)[i] = s[i]
    <3>1. (p \o q)[i] = IF i <= Len(p) THEN p[i] ELSE q[i - Len(p)]
      BY <1>1, <1>2, <1>3, ConcatProperties
    <3>2. CASE i <= n
      BY <1>2, <3>1, <3>2
    <3>3. CASE ~(i <= n)
      <4>1. i - n \in 1..(Len(s) - n) /\ n + (i - n) = i
        BY <1>1, <3>3
      <4>2. QED
        BY <1>2, <1>3, <3>1, <3>3, <4>1
    <3>4. QED
      BY <3>2, <3>3
  <2>3. QED
    BY <2>1, <2>2, SeqEqual
<1>5. QED
  BY <1>2, <1>3, <1>4 DEF p, q

LEMMA BytesTypes ==
  ASSUME NEW wire \in Wires
  PROVE  /\ Len(wire) \in Nat
         /\ BytesFrom(wire)[Len(wire) + 1] = <<>>
         /\ \A i \in 1..Len(wire) :
              BytesFrom(wire)[i] = wire[i].head \o wire[i].body \o BytesFrom(wire)[i + 1]
         /\ \A i \in 1..(Len(wire) + 1) : BytesFrom(wire)[i] \in Seq(Symbol)
<1>1. wire \in Seq([head : Seq(Symbol), body : Seq(Symbol)])
  BY RequestTypes DEF Requests
<1>2. Len(wire) \in Nat
  BY <1>1
<1>3. QED
  BY <1>1, <1>2, BytesAre, Zenon

\* One recv: the symbols s stand in the buffer before a request is popped.
LEMMA ReceiveIs ==
  ASSUME TypeOK, NEW n \in 1..ChunkSize, Receive(n), NEW s, s = buffer \o SubSeq(stream, 1, n)
  PROVE  /\ s \in Seq(Symbol) /\ Len(s) \in Nat /\ Len(s) >= 1
         /\ stream' \in Seq(Symbol)
         /\ s \o stream' = buffer \o stream
         /\ IF IsComplete(s)
            THEN /\ taken' = Append(taken, SubSeq(s, 1, RequiredSize(s)))
                 /\ buffer' = SubSeq(s, RequiredSize(s) + 1, Len(s))
            ELSE buffer' = s /\ taken' = taken
         /\ sent' = sent /\ open = TRUE /\ open' = TRUE
<1> DEFINE p == SubSeq(stream, 1, n)
           q == SubSeq(stream, n + 1, Len(stream))
<1>1. stream \in Seq(Symbol) /\ buffer \in Seq(Symbol) /\ n \in Nat /\ n >= 1 /\ n <= Len(stream)
  BY FramerAssumption DEF TypeOK, Receive
<1>2. /\ p \in Seq(Symbol) /\ Len(p) = n /\ q \in Seq(Symbol) /\ p \o q = stream
  BY <1>1, PartTypes
<1>3. stream' = q /\ s = buffer \o p
  BY DEF Receive
<1>4. /\ IF IsComplete(s)
         THEN /\ taken' = Append(taken, SubSeq(s, 1, RequiredSize(s)))
              /\ buffer' = SubSeq(s, RequiredSize(s) + 1, Len(s))
         ELSE buffer' = s /\ taken' = taken
      /\ sent' = sent /\ open = TRUE /\ open' = TRUE
  BY DEF Receive, TypeOK
<1> HIDE DEF p, q
<1>5. s \in Seq(Symbol) /\ Len(s) = Len(buffer) + Len(p)
  BY <1>1, <1>2, <1>3, ConcatProperties
<1>6. Len(s) \in Nat /\ Len(s) >= 1
  BY <1>1, <1>2, <1>5
<1>7. s \o q = buffer \o stream
  <2>1. buffer \in Seq(Symbol) /\ p \in Seq(Symbol) /\ q \in Seq(Symbol)
    BY <1>1, <1>2
  <2>2. (buffer \o p) \o q = buffer \o (p \o q)
    BY ONLY <2>1, Regrouped, SMTT(40)
  <2>3. QED
    BY <1>2, <1>3, <2>2, Zenon
<1>8. QED
  BY <1>2, <1>3, <1>4, <1>5, <1>6, <1>7

LEMMA InitTypes == Init => TypeOK
<1> SUFFICES ASSUME Init PROVE TypeOK
  OBVIOUS
<1>1. sent \in Wires /\ stream = BytesFrom(sent)[1] /\ buffer = <<>> /\ taken = <<>> /\ open = TRUE
  BY DEF Init
<1>2. stream \in Seq(Symbol)
  <2>1. 1 \in 1..(Len(sent) + 1)
    BY <1>1, BytesTypes
  <2>2. QED
    BY <1>1, <2>1, BytesTypes
<1>3. QED
  BY <1>1, <1>2 DEF TypeOK

LEMMA ReceiveTypes ==
  ASSUME TypeOK, NEW n \in 1..ChunkSize, Receive(n)
  PROVE  TypeOK'
<1> DEFINE s == buffer \o SubSeq(stream, 1, n)
           m == RequiredSize(s)
<1>1. /\ s \in Seq(Symbol) /\ Len(s) \in Nat /\ stream' \in Seq(Symbol)
      /\ IF IsComplete(s)
         THEN taken' = Append(taken, SubSeq(s, 1, m)) /\ buffer' = SubSeq(s, m + 1, Len(s))
         ELSE buffer' = s /\ taken' = taken
      /\ sent' = sent /\ open' = TRUE
  BY ReceiveIs
<1>2. taken \in Seq(Seq(Symbol) \ {<<>>}) /\ sent \in Wires
  BY DEF TypeOK
<1> HIDE DEF s
<1>3. CASE IsComplete(s)
  <2>1. m \in 1..Len(s)
    BY <1>1, <1>3, SizesAre
  <2>2. m \in Nat /\ m >= 1 /\ m <= Len(s)
    BY <1>1, <2>1
  <2> HIDE DEF m
  <2>3. /\ SubSeq(s, 1, m) \in Seq(Symbol) /\ Len(SubSeq(s, 1, m)) = m
        /\ SubSeq(s, m + 1, Len(s)) \in Seq(Symbol)
    BY <1>1, <2>2, PartTypes
  <2>4. SubSeq(s, 1, m) # <<>>
    BY <2>2, <2>3
  <2>5. SubSeq(s, 1, m) \in Seq(Symbol) \ {<<>>}
    BY <2>3, <2>4
  <2>6. Append(taken, SubSeq(s, 1, m)) \in Seq(Seq(Symbol) \ {<<>>})
    BY <1>2, <2>5, AppendProperties
  <2>7. QED
    BY <1>1, <1>2, <1>3, <2>3, <2>6 DEF TypeOK, m
<1>4. CASE ~IsComplete(s)
  BY <1>1, <1>2, <1>4 DEF TypeOK
<1>5. QED
  BY <1>3, <1>4

\* The steps that leave what was received and taken as it is, or drop the buffer.
LEMMA EndTypes ==
  ASSUME TypeOK, ReceiveEnd \/ (\E o \in Outputs : Respond(o)) \/ UNCHANGED exchangeVars
  PROVE  TypeOK'
<1>1. /\ sent' = sent /\ stream' = stream /\ taken' = taken
      /\ \/ open' = FALSE /\ buffer' = <<>>
         \/ open' = open /\ buffer' = buffer
  BY DEF ReceiveEnd, Respond, exchangeVars, vars
<1>2. <<>> \in Seq(Symbol)
  OBVIOUS
<1>3. QED
  BY <1>1, <1>2 DEF TypeOK

LEMMA NextTypes == TypeOK /\ [ExchangeNext]_exchangeVars => TypeOK'
<1> SUFFICES ASSUME TypeOK, [ExchangeNext]_exchangeVars PROVE TypeOK'
  OBVIOUS
<1>1. ASSUME NEW n \in 1..ChunkSize, Receive(n) PROVE TypeOK'
  BY <1>1, ReceiveTypes
<1>2. CASE ReceiveEnd \/ (\E o \in Outputs : Respond(o)) \/ UNCHANGED exchangeVars
  BY <1>2, EndTypes
<1>3. QED
  BY <1>1, <1>2 DEF ExchangeNext, ReceiveMore, Next

\* What is received and taken are texts, no request is empty, and nothing is kept of
\* a client that is gone.
THEOREM SpecTypeOK == ExchangeSpec => []TypeOK
<1>1. ExchangeInit => TypeOK
  BY InitTypes DEF ExchangeInit
<1>2. QED
  BY <1>1, NextTypes, PTL DEF ExchangeSpec

-----------------------------------------------------------------------------
(* What is taken is what was sent.                                         *)

LEMMA UnambiguousBefore ==
  ASSUME NEW messages, NEW i \in Nat, NEW j \in Nat, j <= i, Unambiguous(messages, i)
  PROVE  Unambiguous(messages, j)
<1>1. \A k \in 1..j : k \in 1..i
  OBVIOUS
<1>2. QED
  BY <1>1, Zenon DEF Unambiguous

\* The head of an unambiguous request, and what is received of it and behind it.
LEMMA HeadIsFound ==
  ASSUME NEW A, NEW h \in Seq(A), NEW s \in Seq(A), NEW t \in Seq(A),
         CrlfHead(h) \/ LfHead(h),
         EndsWithCrlf(h) # {} \/ EndsWithCrlf(s \o t) = {}
  PROVE  Findable(h, s)
<1>1. CASE LfHead(h)
  <2>1. EndsWithCrlf(h) = {}
    BY <1>1, LfHeadHoldsNoCrlf
  <2>2. EndsWithCrlf(s) = {}
    BY <2>1, PartHoldsNoCrlf
  <2>3. QED
    BY <1>1, <2>2 DEF Findable
<1>2. QED
  BY <1>1 DEF Findable

\* What the framer does when it has received s of the i-th request and those behind
\* it, and t is still to come.
LEMMA RequestIsFramed ==
  ASSUME NEW wire \in Wires, NEW i \in 1..Len(wire), Unambiguous(wire, i),
         NEW s \in Seq(Symbol), NEW t \in Seq(Symbol), s \o t = BytesFrom(wire)[i]
  PROVE  Pops(s, t, wire[i].head \o wire[i].body, BytesFrom(wire)[i + 1])
<1> DEFINE h == wire[i].head
           b == wire[i].body
           rest == BytesFrom(wire)[i + 1]
<1>1. Len(wire) \in Nat /\ i \in 1..i /\ i + 1 \in 1..(Len(wire) + 1)
  BY BytesTypes
<1>2. /\ h \in Seq(Symbol) /\ b \in Seq(Symbol) /\ Len(b) = DeclaredLength(h)
      /\ CrlfHead(h) \/ LfHead(h)
  BY RequestTypes
<1>3. rest \in Seq(Symbol) /\ BytesFrom(wire)[i] = h \o b \o rest
  BY <1>1, BytesTypes
<1>4. EndsWithCrlf(h) # {} \/ EndsWithCrlf(s \o t) = {}
  BY <1>1, Zenon DEF Unambiguous
<1> HIDE DEF h, b, rest
<1>5. Findable(h, s)
  BY <1>2, <1>4, HeadIsFound
<1>6. s \o t = h \o b \o rest
  BY <1>3
<1>7. Pops(s, t, h \o b, rest)
  <2>1. /\ h \in Seq(Symbol) /\ b \in Seq(Symbol) /\ rest \in Seq(Symbol)
        /\ s \in Seq(Symbol) /\ t \in Seq(Symbol)
    BY <1>2, <1>3
  <2>2. Len(b) = DeclaredLength(h)
    BY <1>2
  <2>3. QED
    BY ONLY <1>5, <1>6, <2>1, <2>2, Framed
<1>8. QED
  BY <1>7 DEF h, b, rest

\* A request was taken although what was received with it could not be told from it.
Lost == \E k \in 1..Len(taken) : k <= Len(sent) /\ ~Unambiguous(sent, k)

\* Up to then what is taken are the requests in their order, and what is in the
\* buffer and still to come are those behind them.
FramingInv ==
  /\ \A k \in 1..Len(taken) :
       k <= Len(sent) /\ Unambiguous(sent, k) => taken[k] = sent[k].head \o sent[k].body
  /\ ~Lost => /\ Len(taken) <= Len(sent)
              /\ open => buffer \o stream = BytesFrom(sent)[Len(taken) + 1]
  /\ open /\ taken = <<>> => ~IsComplete(buffer)

LEMMA InitFraming == Init => FramingInv
<1> SUFFICES ASSUME Init PROVE FramingInv
  OBVIOUS
<1>1. sent \in Wires /\ stream = BytesFrom(sent)[1] /\ buffer = <<>> /\ taken = <<>> /\ open = TRUE
  BY DEF Init
<1>2. Len(sent) \in Nat /\ 1 \in 1..(Len(sent) + 1) /\ stream \in Seq(Symbol)
  <2>1. Len(sent) \in Nat /\ 1 \in 1..(Len(sent) + 1)
    BY <1>1, BytesTypes
  <2>2. QED
    BY <1>1, <2>1, BytesTypes
<1>3. buffer \o stream = stream
  BY <1>1, <1>2
<1>4. Len(taken) = 0
  BY <1>1
<1>5. ~IsComplete(buffer)
  <2>1. buffer \in Seq(Symbol) /\ Len(buffer) = 0
    BY <1>1
  <2>2. HeaderEnd(buffer) = 0
    <3>1. HeaderEnd(buffer) \in 0..Len(buffer)
      BY <2>1, SizesAre
    <3>2. QED
      BY <2>1, <3>1
  <2>3. QED
    BY <2>2 DEF IsComplete
<1>6. QED
  BY <1>1, <1>2, <1>3, <1>4, <1>5 DEF FramingInv

\* A recv that brings no request to its end.
LEMMA WaitFraming ==
  ASSUME TypeOK, FramingInv, NEW s, s \o stream' = buffer \o stream, ~IsComplete(s),
         buffer' = s, taken' = taken, sent' = sent, open, open'
  PROVE  FramingInv'
<1>1. Lost' <=> Lost
  BY DEF Lost
<1>2. ~Lost => buffer' \o stream' = BytesFrom(sent)[Len(taken) + 1] /\ Len(taken) <= Len(sent)
  BY Zenon DEF FramingInv
<1>3. \A k \in 1..Len(taken) :
        k <= Len(sent) /\ Unambiguous(sent, k) => taken[k] = sent[k].head \o sent[k].body
  BY Zenon DEF FramingInv
<1>4. QED
  BY <1>1, <1>2, <1>3, Zenon DEF FramingInv

\* A recv after which a request is popped.
LEMMA PopFraming ==
  ASSUME TypeOK, FramingInv, NEW s \in Seq(Symbol), Len(s) >= 1, stream' \in Seq(Symbol),
         s \o stream' = buffer \o stream, IsComplete(s),
         taken' = Append(taken, SubSeq(s, 1, RequiredSize(s))),
         buffer' = SubSeq(s, RequiredSize(s) + 1, Len(s)), sent' = sent, open, open'
  PROVE  FramingInv'
<1> DEFINE n == Len(taken)
           x == SubSeq(s, 1, RequiredSize(s))
<1>1. sent \in Wires /\ taken \in Seq(Seq(Symbol) \ {<<>>}) /\ n \in Nat /\ Len(sent) \in Nat
  BY BytesTypes DEF TypeOK
<1>2. /\ Len(taken') = n + 1 /\ taken'[n + 1] = x /\ taken' # <<>>
      /\ \A k \in 1..n : taken'[k] = taken[k]
  <2>1. x \in Seq(Symbol) \ {<<>>}
    <3>1. RequiredSize(s) \in 1..Len(s) /\ Len(s) \in Nat
      BY SizesAre
    <3>2. x \in Seq(Symbol) /\ Len(x) = RequiredSize(s)
      BY <3>1, PartTypes
    <3>3. QED
      BY <3>1, <3>2
  <2> HIDE DEF x
  <2>2. taken' = Append(taken, x)
    BY DEF x
  <2>3. Len(taken') = n + 1 /\ taken'[n + 1] = x /\ \A k \in 1..n : taken'[k] = taken[k]
    BY <1>1, <2>1, <2>2, AppendProperties
  <2>4. taken' # <<>>
    BY <1>1, <2>3
  <2>5. QED
    BY <2>3, <2>4
<1>3. \A k \in 1..(n + 1) : k \in 1..n \/ k = n + 1
  BY <1>1
<1>4. Lost => Lost'
  BY <1>1, <1>2 DEF Lost
<1>5. ASSUME n + 1 <= Len(sent), Unambiguous(sent, n + 1)
      PROVE  /\ ~Lost
             /\ x = sent[n + 1].head \o sent[n + 1].body
             /\ buffer' \o stream' = BytesFrom(sent)[(n + 1) + 1]
  <2>1. ~Lost
    <3>1. \A k \in 1..n : k \in Nat /\ n + 1 \in Nat /\ k <= n + 1
      BY <1>1
    <3>2. \A k \in 1..n : Unambiguous(sent, k)
      BY <1>5, <3>1, UnambiguousBefore
    <3>3. QED
      BY <3>2 DEF Lost
  <2>2. s \o stream' = BytesFrom(sent)[n + 1]
    BY <2>1, Zenon DEF FramingInv
  <2>3. n + 1 \in 1..Len(sent)
    BY <1>1, <1>5
  <2>4. Pops(s, stream', sent[n + 1].head \o sent[n + 1].body, BytesFrom(sent)[(n + 1) + 1])
    BY <1>1, <1>5, <2>2, <2>3, RequestIsFramed
  <2>5. QED
    BY <2>1, <2>4 DEF Pops
<1>6. ASSUME ~Lost'
      PROVE  /\ n + 1 <= Len(sent)
             /\ buffer' \o stream' = BytesFrom(sent)[(n + 1) + 1]
  <2>1. n <= Len(sent) /\ s \o stream' = BytesFrom(sent)[n + 1]
    BY <1>4, <1>6, Zenon DEF FramingInv
  <2>2. n # Len(sent)
    <3>1. ASSUME n = Len(sent) PROVE FALSE
      <4>1. s \o stream' = <<>>
        BY <1>1, <2>1, <3>1, BytesTypes
      <4>2. Len(s \o stream') = Len(s) + Len(stream')
        BY ConcatProperties
      <4>3. Len(s) \in Nat /\ Len(stream') \in Nat /\ Len(s \o stream') = 0
        BY <4>1
      <4>4. QED
        BY <4>2, <4>3
    <3>2. QED
      BY <3>1
  <2>3. n + 1 <= Len(sent) /\ n + 1 \in 1..Len(taken')
    BY <1>1, <1>2, <2>1, <2>2
  <2>4. Unambiguous(sent, n + 1)
    BY <1>6, <2>3 DEF Lost
  <2>5. QED
    BY <1>5, <2>3, <2>4
<1> HIDE DEF n, x
<1>7. ASSUME NEW k \in 1..(n + 1), k <= Len(sent), Unambiguous(sent, k)
      PROVE  taken'[k] = sent[k].head \o sent[k].body
  <2>1. CASE k = n + 1
    BY <1>2, <1>5, <1>7, <2>1
  <2>2. CASE k \in 1..n
    <3>1. taken[k] = sent[k].head \o sent[k].body
      BY <1>7, <2>2 DEF FramingInv, n
    <3>2. QED
      BY <1>2, <2>2, <3>1
  <2>3. QED
    BY <1>3, <2>1, <2>2
<1>8. QED
  BY <1>2, <1>6, <1>7, Zenon DEF FramingInv

\* Steps that end the exchange, and stuttering steps.
LEMMA EndFraming ==
  ASSUME TypeOK, FramingInv, ReceiveEnd \/ (\E o \in Outputs : Respond(o)) \/ UNCHANGED exchangeVars
  PROVE  FramingInv'
<1>1. /\ sent' = sent /\ stream' = stream /\ taken' = taken
      /\ \/ open' = FALSE
         \/ open' = open /\ buffer' = buffer
  BY DEF ReceiveEnd, Respond, exchangeVars, vars
<1>2. Lost' <=> Lost
  BY <1>1 DEF Lost
<1>3. \A k \in 1..Len(taken) :
        k <= Len(sent) /\ Unambiguous(sent, k) => taken[k] = sent[k].head \o sent[k].body
  BY Zenon DEF FramingInv
<1>4. ~Lost => /\ Len(taken) <= Len(sent)
               /\ open => buffer \o stream = BytesFrom(sent)[Len(taken) + 1]
  BY Zenon DEF FramingInv
<1>5. open /\ taken = <<>> => ~IsComplete(buffer)
  BY Zenon DEF FramingInv
<1>6. CASE open' = FALSE
  BY <1>1, <1>2, <1>3, <1>4, <1>6, Zenon DEF FramingInv
<1>7. CASE open' = open /\ buffer' = buffer
  BY <1>1, <1>2, <1>3, <1>4, <1>5, <1>7, Zenon DEF FramingInv
<1>8. QED
  BY <1>1, <1>6, <1>7

LEMMA NextFraming == TypeOK /\ FramingInv /\ [ExchangeNext]_exchangeVars => FramingInv'
<1> SUFFICES ASSUME TypeOK, FramingInv, [ExchangeNext]_exchangeVars PROVE FramingInv'
  OBVIOUS
<1>1. ASSUME NEW n \in 1..ChunkSize, Receive(n) PROVE FramingInv'
  <2> DEFINE s == buffer \o SubSeq(stream, 1, n)
  <2>1. /\ s \in Seq(Symbol) /\ Len(s) >= 1 /\ stream' \in Seq(Symbol)
        /\ s \o stream' = buffer \o stream
        /\ IF IsComplete(s)
           THEN /\ taken' = Append(taken, SubSeq(s, 1, RequiredSize(s)))
                /\ buffer' = SubSeq(s, RequiredSize(s) + 1, Len(s))
           ELSE buffer' = s /\ taken' = taken
        /\ sent' = sent /\ open = TRUE /\ open' = TRUE
    BY <1>1, ReceiveIs
  <2> HIDE DEF s
  <2>2. CASE IsComplete(s)
    BY <2>1, <2>2, PopFraming
  <2>3. CASE ~IsComplete(s)
    BY <2>1, <2>3, WaitFraming
  <2>4. QED
    BY <2>2, <2>3
<1>2. CASE ReceiveEnd \/ (\E o \in Outputs : Respond(o)) \/ UNCHANGED exchangeVars
  BY <1>2, EndFraming
<1>3. QED
  BY <1>1, <1>2 DEF ExchangeNext, ReceiveMore, Next

LEMMA SpecFraming == ExchangeSpec => [](TypeOK /\ FramingInv)
<1>1. ExchangeInit => TypeOK /\ FramingInv
  BY InitTypes, InitFraming DEF ExchangeInit
<1>2. QED
  BY <1>1, NextTypes, NextFraming, PTL DEF ExchangeSpec

\* A head that ends in CR LF CR LF and declares no length in a line with CR LF is a
\* request, wherever it was looked for.
LEMMA HeadIsComplete ==
  ASSUME NEW s \in Seq(Symbol), NEW t \in Seq(Symbol), EndsWithCrlf(s) # {},
         \A i \in DOMAIN (s \o t) : (s \o t)[i] \in LengthLines => ~CrlfAt(s \o t, i + 1)
  PROVE  IsComplete(s)
<1> DEFINE u == s \o t
           e == HeaderEnd(s)
           g == SubSeq(s, 1, e)
<1>1. /\ Len(s) \in Nat /\ Len(t) \in Nat /\ u \in Seq(Symbol) /\ Len(u) = Len(s) + Len(t)
      /\ DOMAIN u = 1..Len(u) /\ \A i \in 1..Len(s) : u[i] = s[i]
  <2>1. /\ u \in Seq(Symbol) /\ Len(s) \in Nat /\ Len(t) \in Nat /\ Len(u) = Len(s) + Len(t)
        /\ \A i \in 1..Len(s) : u[i] = s[i]
    BY ConcatIs
  <2> HIDE DEF u
  <2>2. QED
    BY <2>1
<1>2. e \in 4..Len(s) /\ s[e - 1] = CR /\ s[e] = LF
  <2>1. EndsWithCrlf(s) = {n \in 4..Len(s) : s[n - 3] = CR /\ s[n - 2] = LF /\ s[n - 1] = CR /\ s[n] = LF}
    BY EndsAre
  <2>2. EndsWithCrlf(s) \subseteq Nat
    BY <2>1
  <2>3. Least(EndsWithCrlf(s)) \in EndsWithCrlf(s)
    BY <2>2, LeastIsThere
  <2>4. e = Least(EndsWithCrlf(s))
    BY DEF HeaderEnd
  <2> HIDE DEF e
  <2>5. e \in EndsWithCrlf(s)
    BY <2>3, <2>4
  <2>6. QED
    BY <2>1, <2>5
<1> HIDE DEF e
<1>3. g \in Seq(Symbol) /\ Len(g) = e /\ DOMAIN g = 1..e /\ \A i \in 1..e : g[i] = s[i]
  <2>1. e \in Nat /\ e <= Len(s)
    BY <1>1, <1>2
  <2>2. g \in Seq(Symbol) /\ Len(g) = e
    BY <2>1, PartTypes
  <2>3. \A i \in 1..e : g[i] = s[i]
    BY <1>1, <2>1
  <2> HIDE DEF g
  <2>4. QED
    BY <2>2, <2>3
<1>4. \A i \in DOMAIN u : u[i] \in LengthLines => ~CrlfAt(u, i + 1)
  OBVIOUS
<1> HIDE DEF u, g
<1>5. \A i \in 1..e : g[i] = u[i] /\ i \in DOMAIN u
  BY <1>1, <1>2, <1>3, SMTT(40)
<1>6. ASSUME NEW i \in 1..e, g[i] \in LengthLines PROVE LengthOfLine(g, i) = 0
  <2>1. IsLine(g[i]) /\ CR # LF /\ ~IsLine(CR) /\ ~IsLine(LF)
    BY <1>6, LengthLinesAreLines, SymbolsDiffer
  <2>2. g[e - 1] = CR /\ g[e] = LF /\ e \in Nat /\ e - 1 \in 1..e /\ e \in 1..e
    BY <1>2, <1>3
  <2>3. i # e /\ i # e - 1
    BY <2>1, <2>2
  <2>4. i \in 1..(e - 2) /\ e - 1 \in (i + 1)..Len(g) /\ i + 1 > 1 /\ (i + 1) - 1 = i
    BY <1>3, <2>2, <2>3
  <2>5. CrlfAt(g, e - 1)
    BY <1>3, <2>2 DEF CrlfAt
  <2>6. ~EndsLine(g, i + 1)
    <3>1. g[(i + 1) - 1] # CR
      BY <2>1, <2>4
    <3>2. \E j \in (i + 1)..Len(g) : CrlfAt(g, j)
      BY <2>4, <2>5
    <3>3. QED
      BY <3>1, <3>2, Zenon DEF EndsLine
  <2>7. ~CrlfAt(g, i + 1)
    <3>1. SUFFICES ASSUME CrlfAt(g, i + 1) PROVE FALSE
      OBVIOUS
    <3>2. i + 1 \in 1..(e - 1) /\ g[i + 1] = CR /\ g[i + 1 + 1] = LF
      BY <1>3, <3>1 DEF CrlfAt
    <3>3. i + 1 \in 1..e /\ i + 1 + 1 \in 1..e /\ i + 1 \in 1..(Len(u) - 1)
      BY <1>1, <1>2, <3>2
    <3>4. CrlfAt(u, i + 1)
      BY <1>5, <3>2, <3>3 DEF CrlfAt
    <3>5. QED
      BY <1>4, <1>5, <1>6, <3>4
  <2>8. QED
    BY <2>6, <2>7, Zenon DEF LengthOfLine
<1>7. ContentLength(g) = 0
  <2>1. CASE LengthStarts(g) = {}
    BY <2>1 DEF ContentLength
  <2>2. CASE LengthStarts(g) # {}
    <3>1. \A i \in LengthStarts(g) : i \in 1..e /\ g[i] \in LengthLines
      BY <1>3 DEF LengthStarts, LineStarts
    <3>2. LengthStarts(g) \subseteq Nat
      BY <3>1
    <3>3. Least(LengthStarts(g)) \in LengthStarts(g)
      BY <2>2, <3>2, LeastIsThere
    <3>4. LengthOfLine(g, Least(LengthStarts(g))) = 0
      BY <1>6, <3>1, <3>3
    <3>5. QED
      BY <2>2, <3>4, Zenon DEF ContentLength
  <2>3. QED
    BY <2>1, <2>2
<1>8. RequiredSize(s) = e + 0
  BY <1>7, Zenon DEF RequiredSize, e, g
<1>9. QED
  BY <1>1, <1>2, <1>8 DEF IsComplete, e

\* The first request is taken by the recv that brings its last byte, also where its
\* end is not where its client meant it, unless a length was found there.
THEOREM SpecFirstIsPrompt == ExchangeSpec => []FirstIsPrompt
<1>1. TypeOK /\ FramingInv => FirstIsPrompt
  <2> DEFINE bytes == BytesFrom(sent)[1]
  <2> SUFFICES ASSUME TypeOK, FramingInv, open, sent # <<>>,
                      Len(stream) <= Len(BytesFrom(sent)[2]), taken = <<>>,
                      \/ Unambiguous(sent, 1)
                      \/ \A i \in DOMAIN bytes : bytes[i] \in LengthLines => ~CrlfAt(bytes, i + 1)
               PROVE  FALSE
    BY DEF FirstIsPrompt
  <2> HIDE DEF bytes
  <2> DEFINE h == sent[1].head
             b == sent[1].body
             rest == BytesFrom(sent)[2]
  <2>1. /\ sent \in Wires /\ buffer \in Seq(Symbol) /\ stream \in Seq(Symbol)
        /\ Len(sent) \in Nat
    BY BytesTypes DEF TypeOK
  <2>2. 1 \in 1..Len(sent) /\ 1 + 1 = 2 /\ 2 \in 1..(Len(sent) + 1)
    <3>1. sent \in Seq(Requests)
      BY <2>1, RequestTypes
    <3>2. QED
      BY <3>1
  <2>3. ~Lost /\ Len(taken) = 0 /\ 0 + 1 = 1
    BY DEF Lost
  <2>4. buffer \o stream = BytesFrom(sent)[1]
    BY <2>3, Zenon DEF FramingInv
  <2>5. ~IsComplete(buffer)
    BY DEF FramingInv
  <2>6. BytesFrom(sent)[1] = h \o b \o rest /\ rest \in Seq(Symbol)
    BY <2>1, <2>2, BytesTypes
  <2>7. /\ h \in Seq(Symbol) /\ b \in Seq(Symbol) /\ Len(b) = DeclaredLength(h)
        /\ CrlfHead(h) \/ LfHead(h)
    BY <2>1, <2>2, RequestTypes
  <2>8. ~(Len(h \o b) <= Len(buffer))
    <3>1. CASE Unambiguous(sent, 1)
      <4>1. Pops(buffer, stream, h \o b, BytesFrom(sent)[1 + 1])
        BY <2>1, <2>2, <2>4, <3>1, RequestIsFramed
      <4>2. QED
        BY <2>5, <4>1 DEF Pops
    <3>2. CASE \A i \in DOMAIN bytes : bytes[i] \in LengthLines => ~CrlfAt(bytes, i + 1)
      <4>1. EndsWithCrlf(buffer) = {}
        <5>1. \A i \in DOMAIN (buffer \o stream) :
                (buffer \o stream)[i] \in LengthLines => ~CrlfAt(buffer \o stream, i + 1)
          BY <2>4, <3>2, Zenon DEF bytes
        <5>2. QED
          BY <2>1, <2>5, <5>1, HeadIsComplete
      <4> HIDE DEF h, b, rest
      <4>2. Findable(h, buffer)
        BY <2>7, <4>1 DEF Findable
      <4>3. buffer \o stream = h \o b \o rest
        BY <2>4, <2>6, Zenon
      <4>4. /\ h \in Seq(Symbol) /\ b \in Seq(Symbol) /\ rest \in Seq(Symbol)
            /\ buffer \in Seq(Symbol) /\ stream \in Seq(Symbol) /\ Len(b) = DeclaredLength(h)
        BY <2>1, <2>6, <2>7
      <4>5. Pops(buffer, stream, h \o b, rest)
        BY ONLY <4>2, <4>3, <4>4, Framed
      <4>6. QED
        BY <2>5, <4>5 DEF Pops
    <3>3. QED
      BY <3>1, <3>2
  <2> HIDE DEF h, b, rest
  <2>9. h \o b \in Seq(Symbol) /\ Len(h \o b) = Len(h) + Len(b)
    <3>1. h \in Seq(Symbol) /\ b \in Seq(Symbol)
      BY <2>7
    <3>2. QED
      BY ONLY <3>1, ConcatProperties
  <2>10. Len(h \o b \o rest) = Len(h \o b) + Len(rest)
    BY <2>6, <2>9, ConcatProperties
  <2>11. Len(buffer \o stream) = Len(buffer) + Len(stream)
    BY <2>1, ConcatProperties
  <2>12. Len(buffer) + Len(stream) = Len(h) + Len(b) + Len(rest)
    BY <2>4, <2>6, <2>9, <2>10, <2>11, Zenon
  <2>13. /\ Len(buffer) \in Nat /\ Len(stream) \in Nat /\ Len(h) \in Nat /\ Len(b) \in Nat /\ Len(rest) \in Nat
         /\ Len(stream) <= Len(rest)
    BY <2>1, <2>6, <2>7 DEF rest
  <2>14. QED
    BY <2>8, <2>9, <2>12, <2>13
<1>2. QED
  BY <1>1, SpecFraming, PTL

-----------------------------------------------------------------------------
(* What the parsers find in a message.                                     *)

\* The head h and the body b are found in raw, the head without its blank line.
Splits(A, raw, h, b) ==
  /\ raw \in Seq(A) /\ HeaderEnd(raw) = Len(h) /\ Len(h) # 0 /\ Body(raw) = b
  /\ HeadOf(raw) \in Seq(A) /\ Len(HeadOf(raw)) <= Len(h)
  /\ \A i \in 1..Len(h) : raw[i] = h[i]
  /\ \A i \in 1..Len(HeadOf(raw)) : HeadOf(raw)[i] = h[i]
  /\ \A i \in 1..Len(h) : IsLine(h[i]) => i <= Len(HeadOf(raw))

LEMMA HeadOfIs ==
  ASSUME NEW A, NEW h \in Seq(A), NEW b \in Seq(A), NEW raw, raw = h \o b, Findable(h, raw)
  PROVE  Splits(A, raw, h, b)
<1> DEFINE L == Len(h)
           g == HeadOf(raw)
<1>1. /\ raw \in Seq(A) /\ Len(raw) = L + Len(b) /\ L \in Nat /\ Len(b) \in Nat
      /\ \A i \in 1..L : raw[i] = h[i]
  BY ConcatProperties
<1>2. \A i \in 1..Len(raw) : i <= L => raw[i] = h[i]
  BY <1>1
<1>3. Len(raw) >= L
  BY <1>1
<1>4. HeaderEnd(raw) = L /\ L # 0
  BY <1>1, <1>2, <1>3, HeaderEndIs
<1>5. Body(raw) = b
  <2>1. raw \o <<>> = h \o b /\ <<>> \in Seq(A)
    BY <1>1, ConcatEmptySeq
  <2>2. SubSeq(raw, L + 1, Len(raw)) \o <<>> = b
    BY <1>1, <1>3, <2>1, Cuts
  <2>3. SubSeq(raw, L + 1, Len(raw)) \in Seq(A)
    BY <1>1, <1>3, PartTypes
  <2>4. SubSeq(raw, L + 1, Len(raw)) = b
    BY <2>2, <2>3, ConcatEmptySeq
  <2>5. QED
    BY <1>4, <2>4 DEF Body
<1>6. /\ HeadSize(raw) \in 0..L
      /\ \A i \in 1..L : IsLine(h[i]) => i <= HeadSize(raw)
  <2>1. CASE CrlfHead(h)
    <3>1. EndsWithCrlf(raw) # {} /\ Least(EndsWithCrlf(raw)) = L
      BY <1>1, <1>2, <1>3, <2>1, CrlfEnd
    <3>2. HeadSize(raw) = L - 4
      BY <3>1 DEF HeadSize
    <3>3. L >= 5 /\ \A i \in 1..L : IsLine(h[i]) => i <= L - 4
      BY <2>1, CrlfHeadIs
    <3>4. QED
      BY <1>1, <3>2, <3>3
  <2>2. CASE LfHead(h) /\ EndsWithCrlf(raw) = {}
    <3>1. EndsWithLf(raw) # {} /\ Least(EndsWithLf(raw)) = L
      BY <1>1, <1>2, <1>3, <2>2, LfEnd
    <3>2. HeadSize(raw) = L - 2
      BY <2>2, <3>1 DEF HeadSize
    <3>3. L >= 3 /\ \A i \in 1..L : IsLine(h[i]) => i <= L - 2
      BY <2>2, LfHeadIs
    <3>4. QED
      BY <1>1, <3>2, <3>3
  <2>3. QED
    BY <2>1, <2>2 DEF Findable
<1>7. g \in Seq(A) /\ Len(g) = HeadSize(raw) /\ \A i \in 1..Len(g) : g[i] = raw[i]
  <2> DEFINE n == HeadSize(raw)
  <2>1. n \in Nat /\ n <= Len(raw) /\ g = SubSeq(raw, 1, n)
    BY <1>1, <1>3, <1>6 DEF HeadOf
  <2> HIDE DEF n, g
  <2>2. g \in Seq(A) /\ Len(g) = n
    BY <1>1, <2>1, PartTypes
  <2>3. \A i \in 1..n : g[i] = raw[i]
    BY <1>1, <2>1
  <2>4. QED
    BY <2>2, <2>3 DEF n
<1> HIDE DEF g
<1>8. Len(g) <= L /\ \A i \in 1..Len(g) : i \in 1..L
  BY <1>1, <1>6, <1>7
<1>9. QED
  BY <1>1, <1>4, <1>5, <1>6, <1>7, <1>8 DEF g, Splits

\* What the parser makes of a request depends on its lines alone, wherever it looks
\* for them.
LEMMA ParseIs ==
  ASSUME NEW A, NEW h \in Seq(A), NEW b \in Seq(A), NEW raw, raw = h \o b, Findable(h, raw)
  PROVE  Parse(raw) = Parsed(h, {k \in DOMAIN h : IsLine(h[k])}, b)
<1> DEFINE g == HeadOf(raw)
           P == {k \in DOMAIN h : IsLine(h[k])}
<1>1. /\ Body(raw) = b /\ g \in Seq(A) /\ Len(g) <= Len(h)
      /\ \A i \in 1..Len(h) : raw[i] = h[i]
      /\ \A i \in 1..Len(g) : g[i] = h[i]
      /\ \A i \in 1..Len(h) : IsLine(h[i]) => i <= Len(g)
  <2>1. Splits(A, raw, h, b)
    BY HeadOfIs
  <2>2. QED
    BY <2>1 DEF Splits
<1>2. Len(h) \in Nat /\ DOMAIN h = 1..Len(h)
  OBVIOUS
<1>3. CrlfHead(h) \/ LfHead(h)
  BY DEF Findable
<1>4. HeadLines(raw) = P
  <2>1. HeadLines(raw) = {i \in LineStarts(g) : IsLine(g[i])}
    BY DEF HeadLines
  <2> HIDE DEF g
  <2>2. {i \in LineStarts(g) : IsLine(g[i])} = {i \in 1..Len(g) : IsLine(h[i])}
    BY <1>1, <1>3, LinesStart, SMTT(40)
  <2>3. Len(g) \in Nat /\ \A i \in 1..Len(h) : i <= Len(g) => i \in 1..Len(g)
    BY <1>1
  <2>4. \A i \in 1..Len(g) : i \in 1..Len(h)
    BY <1>1, <1>2, <2>3
  <2>5. {i \in 1..Len(g) : IsLine(h[i])} = P
    BY <1>1, <1>2, <2>3, <2>4, Zenon
  <2>6. QED
    BY <2>1, <2>2, <2>5
<1>5. Least(P) \in P
  <2>1. P \subseteq Nat
    BY <1>2
  <2>2. 1 \in P
    <3>1. IsLine(h[1])
      BY <1>3, Zenon DEF CrlfHead, LfHead
    <3>2. Len(h) >= 1
      <4>1. CASE CrlfHead(h)
        BY <1>2, <4>1, CrlfHeadIs
      <4>2. CASE LfHead(h)
        BY <1>2, <4>2, LfHeadIs
      <4>3. QED
        BY <1>3, <4>1, <4>2
    <3>3. QED
      BY <1>2, <3>1, <3>2
  <2>3. QED
    BY <2>1, <2>2, LeastIsThere
<1>6. \A i \in P : raw[i] = h[i]
  BY <1>1, <1>2
<1> HIDE DEF P
<1>7. [i \in P \ {Least(P)} |-> Named(raw[i])] = [i \in P \ {Least(P)} |-> Named(h[i])]
  BY <1>6
<1>8. Parsed(raw, P, b) = Parsed(h, P, b)
  BY <1>5, <1>6, <1>7, Zenon DEF Parsed
<1>9. QED
  BY <1>1, <1>4, <1>8 DEF Parse, P

\* However the bytes are cut into chunks, what is taken are the client's requests in
\* their order, and what the parser makes of each is what was sent.
THEOREM SpecParsedIsSent == ExchangeSpec => []ParsedIsSent
<1>1. TypeOK /\ FramingInv => ParsedIsSent
  <2> SUFFICES ASSUME TypeOK, FramingInv PROVE ParsedIsSent
    OBVIOUS
  <2>1. /\ sent \in Wires /\ Len(sent) \in Nat /\ sent \in Seq(Requests) /\ DOMAIN sent = 1..Len(sent)
        /\ Len(taken) \in Nat /\ DOMAIN taken = 1..Len(taken)
    <3>1. sent \in Wires /\ taken \in Seq(Seq(Symbol) \ {<<>>})
      BY DEF TypeOK
    <3>2. sent \in Seq(Requests)
      BY <3>1, RequestTypes
    <3>3. QED
      BY <3>1, <3>2
  <2>2. ASSUME Unambiguous(sent, Len(sent)) PROVE Len(taken) <= Len(sent)
    <3>1. ASSUME NEW k \in 1..Len(taken), k <= Len(sent) PROVE Unambiguous(sent, k)
      <4>1. k \in Nat
        BY <2>1
      <4>2. QED
        BY <2>1, <2>2, <3>1, <4>1, UnambiguousBefore
    <3>2. ~Lost
      BY <3>1 DEF Lost
    <3>3. QED
      BY <3>2, Zenon DEF FramingInv
  <2>3. ASSUME NEW i \in DOMAIN taken \cap DOMAIN sent, Unambiguous(sent, i)
        PROVE  LET head == sent[i].head
               IN /\ taken[i] = head \o sent[i].body
                  /\ Parse(taken[i]) = Parsed(head, {k \in DOMAIN head : IsLine(head[k])}, sent[i].body)
    <3> DEFINE h == sent[i].head
               b == sent[i].body
               rest == BytesFrom(sent)[i + 1]
    <3>1. i \in 1..Len(taken) /\ i \in 1..Len(sent) /\ i <= Len(sent) /\ i \in 1..i /\ i + 1 \in 1..(Len(sent) + 1)
      BY <2>1
    <3>2. taken[i] = h \o b
      BY <2>3, <3>1, Zenon DEF FramingInv
    <3>3. /\ h \in Seq(Symbol) /\ b \in Seq(Symbol)
          /\ CrlfHead(h) \/ LfHead(h)
      BY <2>1, <3>1, RequestTypes
    <3>4. rest \in Seq(Symbol) /\ BytesFrom(sent)[i] = h \o b \o rest
      BY <2>1, <3>1, BytesTypes
    <3>5. EndsWithCrlf(h) # {} \/ EndsWithCrlf(h \o b \o rest) = {}
      BY <2>3, <3>1, <3>4, Zenon DEF Unambiguous
    <3> HIDE DEF h, b, rest
    <3>6. h \o b \in Seq(Symbol)
      BY <3>3, ConcatProperties
    <3>7. Findable(h, h \o b)
      BY ONLY <3>3, <3>4, <3>5, <3>6, HeadIsFound
    <3>8. Parse(h \o b) = Parsed(h, {k \in DOMAIN h : IsLine(h[k])}, b)
      BY <3>3, <3>7, ParseIs
    <3>9. QED
      BY <3>2, <3>8 DEF h, b
  <2>4. QED
    BY <2>2, <2>3, Zenon DEF ParsedIsSent
<1>2. QED
  BY <1>1, SpecFraming, PTL

-----------------------------------------------------------------------------
(* The head of a response.                                                 *)

\* Lines with CR LF behind each.
CrlfLines(t) ==
  /\ Len(t) > 0 => IsLine(t[1])
  /\ \A i \in 1..Len(t) :
       \/ IsLine(t[i]) /\ i < Len(t) /\ t[i + 1] = CR
       \/ t[i] = CR /\ i < Len(t) /\ t[i + 1] = LF
       \/ t[i] = LF /\ (i < Len(t) => IsLine(t[i + 1]))

LEMMA CrLfIs ==
  ASSUME NEW A, CR \in A, LF \in A
  PROVE  CrLf \in Seq(A) /\ Len(CrLf) = 2 /\ CrLf[1] = CR /\ CrLf[2] = LF
BY DEF CrLf

LEMMA LineIs ==
  ASSUME NEW A, CR \in A, LF \in A, NEW x \in A
  PROVE  /\ <<x>> \o CrLf \in Seq(A) /\ Len(<<x>> \o CrLf) = 3
         /\ (<<x>> \o CrLf)[1] = x /\ (<<x>> \o CrLf)[2] = CR /\ (<<x>> \o CrLf)[3] = LF
<1> DEFINE s == <<x>>
           t == <<CR, LF>>
<1>1. /\ s \in Seq(A) /\ Len(s) = 1 /\ s[1] = x
      /\ t \in Seq(A) /\ Len(t) = 2 /\ t[1] = CR /\ t[2] = LF
  OBVIOUS
<1> HIDE DEF s, t
<1>2. /\ s \o t \in Seq(A) /\ Len(s \o t) = Len(s) + Len(t)
      /\ \A i \in 1..Len(s) : (s \o t)[i] = s[i]
      /\ \A i \in 1..Len(t) : (s \o t)[Len(s) + i] = t[i]
  <2>1. s \in Seq(A) /\ t \in Seq(A)
    BY <1>1
  <2>2. QED
    BY ONLY <2>1, ConcatIs
<1>3. /\ 1 \in 1..Len(s) /\ 1 \in 1..Len(t) /\ 2 \in 1..Len(t)
      /\ Len(s) + 1 = 2 /\ Len(s) + 2 = 3 /\ Len(s) + Len(t) = 3
  BY <1>1
<1>4. Len(s \o t) = 3 /\ (s \o t)[1] = x /\ (s \o t)[2] = CR /\ (s \o t)[3] = LF
  BY <1>1, <1>2, <1>3, Zenon
<1>5. QED
  BY <1>2, <1>4 DEF s, t, CrLf

LEMMA LineIsLines ==
  ASSUME NEW A, CR \in A, LF \in A, NEW x \in A, IsLine(x)
  PROVE  CrlfLines(<<x>> \o CrLf)
<1> DEFINE p == <<x>> \o CrLf
<1>1. Len(p) = 3 /\ p[1] = x /\ p[2] = CR /\ p[3] = LF
  BY LineIs
<1> HIDE DEF p
<1>2. \A i \in 1..3 : i = 1 \/ i = 2 \/ i = 3
  OBVIOUS
<1>3. CrlfLines(p)
  BY <1>1, <1>2 DEF CrlfLines
<1>4. QED
  BY <1>3 DEF p

LEMMA LinesTogether ==
  ASSUME NEW A, NEW s \in Seq(A), NEW t \in Seq(A), CrlfLines(s), CrlfLines(t)
  PROVE  s \o t \in Seq(A) /\ CrlfLines(s \o t)
<1> DEFINE u == s \o t
<1>1. /\ u \in Seq(A) /\ Len(s) \in Nat /\ Len(t) \in Nat /\ Len(u) = Len(s) + Len(t)
      /\ \A i \in 1..Len(s) : u[i] = s[i]
      /\ \A i \in 1..Len(t) : u[Len(s) + i] = t[i]
  BY ConcatIs
<1> HIDE DEF u
<1>2. ASSUME Len(u) > 0 PROVE IsLine(u[1])
  <2>1. CASE Len(s) > 0
    <3>1. 1 \in 1..Len(s) /\ IsLine(s[1])
      BY <1>1, <2>1 DEF CrlfLines
    <3>2. QED
      BY <1>1, <3>1
  <2>2. CASE Len(s) = 0
    <3>1. 1 \in 1..Len(t) /\ Len(s) + 1 = 1 /\ IsLine(t[1])
      BY <1>1, <1>2, <2>2 DEF CrlfLines
    <3>2. QED
      BY <1>1, <3>1
  <2>3. QED
    BY <1>1, <2>1, <2>2
<1>3. ASSUME NEW i \in 1..Len(u)
      PROVE  \/ IsLine(u[i]) /\ i < Len(u) /\ u[i + 1] = CR
             \/ u[i] = CR /\ i < Len(u) /\ u[i + 1] = LF
             \/ u[i] = LF /\ (i < Len(u) => IsLine(u[i + 1]))
  <2>1. CASE i < Len(s)
    <3>1. i \in 1..Len(s) /\ i + 1 \in 1..Len(s) /\ i < Len(u)
      BY <1>1, <2>1
    <3>2. u[i] = s[i] /\ u[i + 1] = s[i + 1]
      BY <1>1, <3>1
    <3>3. \/ IsLine(s[i]) /\ s[i + 1] = CR
          \/ s[i] = CR /\ s[i + 1] = LF
          \/ s[i] = LF /\ IsLine(s[i + 1])
      BY <2>1, <3>1 DEF CrlfLines
    <3>4. QED
      BY <3>1, <3>2, <3>3
  <2>2. CASE i = Len(s)
    <3>1. i \in 1..Len(s) /\ ~(i < Len(s))
      BY <1>1, <2>2
    <3>2. u[i] = LF
      BY <1>1, <3>1 DEF CrlfLines
    <3>3. ASSUME i < Len(u) PROVE IsLine(u[i + 1])
      <4>1. 1 \in 1..Len(t) /\ IsLine(t[1])
        BY <1>1, <2>2, <3>3 DEF CrlfLines
      <4>2. u[Len(s) + 1] = t[1]
        BY <1>1, <4>1
      <4>3. QED
        BY <2>2, <4>1, <4>2
    <3>4. QED
      BY <3>2, <3>3
  <2>3. CASE i > Len(s)
    <3> DEFINE j == i - Len(s)
    <3>1. j \in 1..Len(t) /\ Len(s) + j = i /\ (i < Len(u) <=> j < Len(t))
      BY <1>1, <2>3
    <3>2. j < Len(t) => j + 1 \in 1..Len(t) /\ Len(s) + (j + 1) = i + 1
      BY <1>1, <3>1
    <3> HIDE DEF j
    <3>3. u[i] = t[j] /\ (j < Len(t) => u[i + 1] = t[j + 1])
      BY <1>1, <3>1, <3>2
    <3>4. \/ IsLine(t[j]) /\ j < Len(t) /\ t[j + 1] = CR
          \/ t[j] = CR /\ j < Len(t) /\ t[j + 1] = LF
          \/ t[j] = LF /\ (j < Len(t) => IsLine(t[j + 1]))
      BY <3>1 DEF CrlfLines
    <3>5. QED
      BY <3>1, <3>3, <3>4
  <2>4. QED
    BY <1>1, <2>1, <2>2, <2>3
<1>4. CrlfLines(u)
  BY <1>2, <1>3, Zenon DEF CrlfLines
<1>5. QED
  BY <1>1, <1>4 DEF u

\* Lines and a blank line are a head.
LEMMA LinesMakeHead ==
  ASSUME NEW A, CR \in A, LF \in A, NEW t \in Seq(A), CrlfLines(t), Len(t) > 0
  PROVE  t \o CrLf \in Seq(A) /\ CrlfHead(t \o CrLf)
<1> DEFINE h == t \o CrLf
           n == Len(t)
<1>1. CrLf \in Seq(A) /\ Len(CrLf) = 2 /\ CrLf[1] = CR /\ CrLf[2] = LF
  BY CrLfIs
<1>2. /\ h \in Seq(A) /\ n \in Nat /\ Len(h) = n + 2
      /\ \A i \in 1..n : h[i] = t[i]
      /\ \A i \in 1..2 : h[n + i] = CrLf[i]
  <2>1. /\ t \o CrLf \in Seq(A) /\ Len(t) \in Nat /\ Len(t \o CrLf) = Len(t) + Len(CrLf)
        /\ \A i \in 1..Len(t) : (t \o CrLf)[i] = t[i]
        /\ \A i \in 1..Len(CrLf) : (t \o CrLf)[Len(t) + i] = CrLf[i]
    <3>1. CrLf \in Seq(A)
      BY <1>1
    <3>2. QED
      BY ONLY <3>1, t \in Seq(A), ConcatIs
  <2>2. QED
    BY <1>1, <2>1, Zenon
<1>3. h[n + 1] = CR /\ h[n + 2] = LF
  <2>1. 1 \in 1..2 /\ 2 \in 1..2
    OBVIOUS
  <2>2. QED
    BY <1>1, <1>2, <2>1, Zenon
<1>4. n >= 3 /\ IsLine(t[1])
  <2>1. IsLine(t[1]) /\ 1 \in 1..n
    BY <1>2 DEF CrlfLines
  <2>2. 1 < n /\ t[2] = CR /\ 2 \in 1..n
    BY <1>2, <2>1, SymbolsDiffer DEF CrlfLines
  <2>3. 2 < n
    BY <1>2, <2>2, SymbolsDiffer DEF CrlfLines
  <2>4. QED
    BY <1>2, <2>1, <2>3
<1> HIDE DEF h
<1>5. t[n] = LF
  <2>1. n \in 1..n /\ ~(n < n)
    BY <1>2
  <2>2. QED
    BY <2>1 DEF CrlfLines
<1>6. ASSUME NEW i \in 1..(Len(h) - 1)
      PROVE  \/ IsLine(h[i]) /\ h[i + 1] = CR
             \/ h[i] = CR /\ h[i + 1] = LF
             \/ h[i] = LF /\ IF i = n THEN h[i + 1] = CR ELSE IsLine(h[i + 1])
  <2>1. CASE i < n
    <3>1. i \in 1..n /\ i + 1 \in 1..n /\ i # n
      BY <1>2, <2>1
    <3>2. h[i] = t[i] /\ h[i + 1] = t[i + 1]
      BY <1>2, <3>1
    <3>3. \/ IsLine(t[i]) /\ t[i + 1] = CR
          \/ t[i] = CR /\ t[i + 1] = LF
          \/ t[i] = LF /\ IsLine(t[i + 1])
      BY <2>1, <3>1 DEF CrlfLines
    <3>4. QED
      BY <3>1, <3>2, <3>3
  <2>2. CASE i = n
    BY <1>2, <1>3, <1>4, <1>5, <2>2
  <2>3. CASE i > n
    <3>1. i = n + 1 /\ i + 1 = n + 2
      BY <1>2, <2>3
    <3>2. QED
      BY <1>3, <3>1
  <2>4. QED
    BY <1>2, <2>1, <2>2, <2>3
<1>7. CrlfHead(h)
  <2>1. Len(h) - 2 = n /\ n >= 3 /\ 1 \in 1..n /\ n \in 1..n
    BY <1>2, <1>4
  <2>2. IsLine(h[1]) /\ h[n] = LF
    BY <1>2, <1>4, <1>5, <2>1
  <2> HIDE DEF n
  <2>3. QED
    BY <1>6, <2>1, <2>2, Zenon DEF CrlfHead
<1>8. QED
  BY <1>2, <1>7 DEF h

-----------------------------------------------------------------------------
(* The headers of a text.                                                  *)

\* One header of the name, with the value v.
Once(s, name, v) == \E i \in DOMAIN s : HeadersOf(s, name) = {i} /\ s[i][3] = v

LEMMA HeadersTogether ==
  ASSUME NEW A, NEW s \in Seq(A), NEW t \in Seq(A), NEW name
  PROVE  /\ HeadersOf(s, name) = {} /\ HeadersOf(t, name) = {} => HeadersOf(s \o t, name) = {}
         /\ \A v : Once(s, name, v) /\ HeadersOf(t, name) = {} => Once(s \o t, name, v)
         /\ \A v : HeadersOf(s, name) = {} /\ Once(t, name, v) => Once(s \o t, name, v)
<1> DEFINE u == s \o t
           H(w) == HeadersOf(w, name)
           Is(x) == IsHeader(x) /\ Upper(x[2]) = name
<1>1. /\ Len(s) \in Nat /\ Len(t) \in Nat /\ Len(u) = Len(s) + Len(t)
      /\ DOMAIN s = 1..Len(s) /\ DOMAIN t = 1..Len(t) /\ DOMAIN u = 1..Len(u)
      /\ \A i \in 1..Len(s) : u[i] = s[i]
      /\ \A i \in 1..Len(t) : u[Len(s) + i] = t[i]
  <2>1. /\ u \in Seq(A) /\ Len(s) \in Nat /\ Len(t) \in Nat /\ Len(u) = Len(s) + Len(t)
        /\ \A i \in 1..Len(s) : u[i] = s[i]
        /\ \A i \in 1..Len(t) : u[Len(s) + i] = t[i]
    BY ConcatIs
  <2> HIDE DEF u
  <2>2. QED
    BY <2>1
<1>2. /\ \A i : i \in H(s) <=> i \in DOMAIN s /\ Is(s[i])
      /\ \A i : i \in H(t) <=> i \in DOMAIN t /\ Is(t[i])
      /\ \A i : i \in H(u) <=> i \in DOMAIN u /\ Is(u[i])
  BY DEF HeadersOf
<1> HIDE DEF u, H, Is
<1>3. /\ \A i \in 1..Len(s) : i \in H(u) <=> i \in H(s)
      /\ \A i \in 1..Len(t) : Len(s) + i \in H(u) <=> i \in H(t)
  <2>1. ASSUME NEW i \in 1..Len(s) PROVE i \in H(u) <=> i \in H(s)
    <3>1. i \in 1..Len(u)
      BY <1>1
    <3>2. QED
      BY <1>1, <1>2, <3>1
  <2>2. ASSUME NEW i \in 1..Len(t) PROVE Len(s) + i \in H(u) <=> i \in H(t)
    <3>1. Len(s) + i \in 1..Len(u)
      BY <1>1
    <3>2. QED
      BY <1>1, <1>2, <3>1
  <2>3. QED
    BY <2>1, <2>2
<1>4. \A k \in H(u) : k \in 1..Len(s) \/ \E i \in 1..Len(t) : k = Len(s) + i
  <2> SUFFICES ASSUME NEW k \in H(u), k \notin 1..Len(s) PROVE \E i \in 1..Len(t) : k = Len(s) + i
    OBVIOUS
  <2>1. k \in 1..(Len(s) + Len(t))
    BY <1>1, <1>2
  <2>2. k - Len(s) \in 1..Len(t) /\ k = Len(s) + (k - Len(s))
    BY <1>1, <2>1
  <2>3. QED
    BY <2>2
<1>5. /\ H(s) \subseteq 1..Len(s) /\ H(t) \subseteq 1..Len(t)
  BY <1>1, <1>2
<1>6. ASSUME H(s) = {}, H(t) = {} PROVE H(u) = {}
  BY <1>3, <1>4, <1>6
<1>7. ASSUME NEW v, Once(s, name, v), H(t) = {} PROVE Once(u, name, v)
  <2>1. PICK i \in DOMAIN s : H(s) = {i} /\ s[i][3] = v
    BY <1>7 DEF Once, H
  <2>2. i \in 1..Len(s) /\ u[i] = s[i] /\ i \in H(u) /\ i \in DOMAIN u
    BY <1>1, <1>2, <1>3, <2>1
  <2>3. \A k \in H(u) : k = i
    <3> SUFFICES ASSUME NEW k \in H(u) PROVE k = i
      OBVIOUS
    <3>1. k \in 1..Len(s)
      BY <1>3, <1>4, <1>7
    <3>2. QED
      BY <1>3, <2>1, <3>1
  <2>4. H(u) = {i} /\ u[i][3] = v
    BY <2>1, <2>2, <2>3
  <2>5. QED
    BY <2>2, <2>4 DEF Once, H
<1>8. ASSUME NEW v, H(s) = {}, Once(t, name, v) PROVE Once(u, name, v)
  <2>1. PICK i \in DOMAIN t : H(t) = {i} /\ t[i][3] = v
    BY <1>8 DEF Once, H
  <2> DEFINE j == Len(s) + i
  <2>2. i \in 1..Len(t) /\ u[j] = t[i] /\ j \in H(u) /\ j \in DOMAIN u
    BY <1>1, <1>2, <1>3, <2>1
  <2>3. \A k \in H(u) : k = j
    <3> SUFFICES ASSUME NEW k \in H(u) PROVE k = j
      OBVIOUS
    <3>1. PICK l \in 1..Len(t) : k = Len(s) + l
      BY <1>3, <1>4, <1>8
    <3>2. l \in H(t)
      BY <1>3, <3>1
    <3>3. QED
      BY <2>1, <3>1, <3>2
  <2> HIDE DEF j
  <2>4. H(u) = {j} /\ u[j][3] = v
    BY <2>1, <2>2, <2>3
  <2>5. QED
    BY <2>2, <2>4 DEF Once, H
<1>9. QED
  BY <1>6, <1>7, <1>8, Zenon DEF H, u

LEMMA HeadersOfLine ==
  ASSUME NEW A, CR \in A, LF \in A, NEW x \in A, NEW name
  PROVE  /\ ~(IsHeader(x) /\ Upper(x[2]) = name) => HeadersOf(<<x>> \o CrLf, name) = {}
         /\ IsHeader(x) /\ Upper(x[2]) = name => Once(<<x>> \o CrLf, name, x[3])
<1> DEFINE p == <<x>> \o CrLf
<1>1. p \in Seq(A) /\ Len(p) = 3 /\ p[1] = x /\ p[2] = CR /\ p[3] = LF
  BY LineIs
<1> HIDE DEF p
<1>2. DOMAIN p = {1, 2, 3}
  <2>1. DOMAIN p = 1..3 /\ 1..3 = {1, 2, 3}
    BY <1>1
  <2>2. QED
    BY <2>1
<1>3. ~IsHeader(CR) /\ ~IsHeader(LF)
  BY DEF IsHeader, CR, LF
<1>4. HeadersOf(p, name) = IF IsHeader(x) /\ Upper(x[2]) = name THEN {1} ELSE {}
  BY <1>1, <1>2, <1>3 DEF HeadersOf
<1>5. IsHeader(x) /\ Upper(x[2]) = name => Once(p, name, x[3])
  BY <1>1, <1>2, <1>4 DEF Once
<1>6. QED
  BY <1>4, <1>5 DEF p

LEMMA HeadersOfBlank ==
  ASSUME NEW name
  PROVE  HeadersOf(<<>>, name) = {} /\ HeadersOf(CrLf, name) = {}
<1>1. ~IsHeader(CR) /\ ~IsHeader(LF)
  BY DEF IsHeader, CR, LF
<1>2. CrLf = <<CR, LF>> /\ DOMAIN CrLf = {1, 2} /\ CrLf[1] = CR /\ CrLf[2] = LF
  BY DEF CrLf
<1>3. HeadersOf(CrLf, name) = {}
  BY <1>1, <1>2 DEF HeadersOf
<1>4. HeadersOf(<<>>, name) = {}
  BY DEF HeadersOf
<1>5. QED
  BY <1>3, <1>4

\* The names that headers of scripts have in a response.
ReplyNames == {"CONTENT-LENGTH", "CONTENT-TYPE", "COOKIE", "STATUS"}

\* Lines with CR LF behind each, of symbols in A: with the headers whose names are
\* in N, once each, and no others of the names above.
Text(A, t, headers, N) ==
  /\ t \in Seq(A) /\ CrlfLines(t)
  /\ \A m \in ReplyNames : IF m \in N /\ m \in DOMAIN headers THEN Once(t, m, headers[m])
                                                              ELSE HeadersOf(t, m) = {}

LEMMA TextsTogether ==
  ASSUME NEW A, NEW headers, NEW s, NEW t, NEW M, NEW N, M \cap N = {},
         Text(A, s, headers, M), Text(A, t, headers, N)
  PROVE  Text(A, s \o t, headers, M \cup N)
<1>1. s \in Seq(A) /\ CrlfLines(s) /\ t \in Seq(A) /\ CrlfLines(t)
  BY DEF Text
<1>2. s \o t \in Seq(A) /\ CrlfLines(s \o t)
  BY <1>1, LinesTogether
<1>3. ASSUME NEW m \in ReplyNames
      PROVE  IF m \in M \cup N /\ m \in DOMAIN headers THEN Once(s \o t, m, headers[m])
                                                       ELSE HeadersOf(s \o t, m) = {}
  <2>1. /\ HeadersOf(s, m) = {} /\ HeadersOf(t, m) = {} => HeadersOf(s \o t, m) = {}
        /\ \A v : Once(s, m, v) /\ HeadersOf(t, m) = {} => Once(s \o t, m, v)
        /\ \A v : HeadersOf(s, m) = {} /\ Once(t, m, v) => Once(s \o t, m, v)
    BY <1>1, HeadersTogether
  <2>2. /\ IF m \in M /\ m \in DOMAIN headers THEN Once(s, m, headers[m]) ELSE HeadersOf(s, m) = {}
        /\ IF m \in N /\ m \in DOMAIN headers THEN Once(t, m, headers[m]) ELSE HeadersOf(t, m) = {}
    BY Zenon DEF Text
  <2>3. ~(m \in M /\ m \in N)
    OBVIOUS
  <2>4. QED
    BY <2>1, <2>2, <2>3
<1>4. QED
  BY <1>2, <1>3, Zenon DEF Text

LEMMA HeaderLineIs ==
  ASSUME NEW name, NEW value
  PROVE  /\ IsHeader(HeaderLine(name, value)) /\ IsLine(HeaderLine(name, value))
         /\ HeaderLine(name, value)[2] = name /\ HeaderLine(name, value)[3] = value
<1>1. /\ HeaderLine(name, value)[1] = "header"
      /\ HeaderLine(name, value)[2] = name /\ HeaderLine(name, value)[3] = value
  BY DEF HeaderLine
<1>2. CR[1] # "header" /\ LF[1] # "header" /\ OtherByte[1] # "header"
  BY DEF CR, LF, OtherByte
<1>3. QED
  BY <1>1, <1>2 DEF IsHeader, IsLine

LEMMA HeadersAreLines == \A x : IsHeader(x) => IsLine(x)
<1>1. CR[1] # "header" /\ LF[1] # "header" /\ OtherByte[1] # "header"
  BY DEF CR, LF, OtherByte
<1>2. QED
  BY <1>1 DEF IsHeader, IsLine

LEMMA NamesAre == Upper("Content-Length") = "CONTENT-LENGTH" /\ \A m \in ReplyNames : Upper(m) = m
BY DEF ReplyNames, Upper

\* The line of one header.
LEMMA HeaderLineText ==
  ASSUME NEW A, CR \in A, LF \in A, NEW n, NEW name \in ReplyNames, NEW value,
         HeaderLine(n, value) \in A, Upper(n) = name
  PROVE  LET t == <<HeaderLine(n, value)>> \o CrLf
         IN /\ t \in Seq(A) /\ CrlfLines(t) /\ Once(t, name, value)
            /\ \A m \in ReplyNames \ {name} : HeadersOf(t, m) = {}
<1> DEFINE x == HeaderLine(n, value)
           t == <<x>> \o CrLf
<1>1. IsHeader(x) /\ IsLine(x) /\ x[2] = n /\ x[3] = value
  BY HeaderLineIs
<1> HIDE DEF x
<1>2. x \in A
  BY DEF x
<1>3. t \in Seq(A) /\ CrlfLines(t)
  BY <1>1, <1>2, LineIs, LineIsLines
<1>4. Once(t, name, value)
  BY <1>1, <1>2, HeadersOfLine
<1>5. ASSUME NEW m \in ReplyNames \ {name} PROVE HeadersOf(t, m) = {}
  BY <1>1, <1>2, <1>5, HeadersOfLine
<1>6. QED
  BY <1>3, <1>4, <1>5 DEF x

LEMMA NoText ==
  ASSUME NEW A, NEW headers, NEW N, N \cap DOMAIN headers = {}
  PROVE  Text(A, <<>>, headers, N)
<1>1. <<>> \in Seq(A) /\ Len(<<>>) = 0
  OBVIOUS
<1>2. CrlfLines(<<>>)
  BY <1>1 DEF CrlfLines
<1>3. QED
  BY <1>1, <1>2, HeadersOfBlank DEF Text

LEMMA HeaderTextIs ==
  ASSUME NEW A, CR \in A, LF \in A, NEW headers, NEW name \in ReplyNames,
         name \in DOMAIN headers => HeaderLine(name, headers[name]) \in A
  PROVE  Text(A, HeaderText(headers, name), headers, {name})
<1>1. CASE name \in DOMAIN headers
  <2> DEFINE t == <<HeaderLine(name, headers[name])>> \o CrLf
  <2>1. HeaderText(headers, name) = t
    BY <1>1 DEF HeaderText
  <2>2. /\ t \in Seq(A) /\ CrlfLines(t) /\ Once(t, name, headers[name])
        /\ \A m \in ReplyNames \ {name} : HeadersOf(t, m) = {}
    BY <1>1, NamesAre, HeaderLineText
  <2> HIDE DEF t
  <2>3. QED
    BY <1>1, <2>1, <2>2 DEF Text
<1>2. CASE name \notin DOMAIN headers
  <2>1. HeaderText(headers, name) = <<>>
    BY <1>2 DEF HeaderText
  <2>2. QED
    BY <1>2, <2>1, NoText
<1>3. QED
  BY <1>1, <1>2

LEMMA HeaderTextsAre ==
  ASSUME NEW A, CR \in A, LF \in A, NEW headers,
         \A name \in ReplyNames : name \in DOMAIN headers => HeaderLine(name, headers[name]) \in A
  PROVE  Text(A, HeaderTexts(headers), headers, ReplyNames)
<1> DEFINE a == HeaderText(headers, "CONTENT-LENGTH")
           b == HeaderText(headers, "CONTENT-TYPE")
           c == HeaderText(headers, "COOKIE")
           d == HeaderText(headers, "STATUS")
           S == {"CONTENT-LENGTH"} \cup {"CONTENT-TYPE"}
           T == S \cup {"COOKIE"}
<1>1. /\ "CONTENT-LENGTH" \in ReplyNames /\ "CONTENT-TYPE" \in ReplyNames
      /\ "COOKIE" \in ReplyNames /\ "STATUS" \in ReplyNames
  BY DEF ReplyNames
<1>2. /\ Text(A, a, headers, {"CONTENT-LENGTH"}) /\ Text(A, b, headers, {"CONTENT-TYPE"})
      /\ Text(A, c, headers, {"COOKIE"}) /\ Text(A, d, headers, {"STATUS"})
  BY <1>1, HeaderTextIs
<1>3. HeaderTexts(headers) = ((a \o b) \o c) \o d
  BY DEF HeaderTexts
<1> HIDE DEF a, b, c, d
<1>4. Text(A, a \o b, headers, S)
  <2>1. {"CONTENT-LENGTH"} \cap {"CONTENT-TYPE"} = {}
    OBVIOUS
  <2>2. QED
    BY <1>2, <2>1, TextsTogether
<1>5. Text(A, (a \o b) \o c, headers, T)
  <2>1. S \cap {"COOKIE"} = {}
    OBVIOUS
  <2> HIDE DEF S
  <2>2. QED
    BY <1>2, <1>4, <2>1, TextsTogether
<1>6. Text(A, ((a \o b) \o c) \o d, headers, T \cup {"STATUS"})
  <2>1. T \cap {"STATUS"} = {}
    OBVIOUS
  <2> HIDE DEF T
  <2>2. QED
    BY <1>2, <1>5, <2>1, TextsTogether
<1>7. T \cup {"STATUS"} = ReplyNames
  BY DEF ReplyNames
<1>8. QED
  BY <1>3, <1>6, <1>7

\* h is the head of the serialized response, and says what the response holds.
Answers(response, h) ==
  /\ CrlfHead(h) /\ Serialize(response) = h \o response.body
  /\ h[1] = StatusLine(response.code)
  /\ \A name \in ReplyNames :
       name \in DOMAIN response.headers => Once(h, name, response.headers[name])
  /\ "CONTENT-LENGTH" \notin DOMAIN response.headers
       => Once(h, "CONTENT-LENGTH", Len(response.body))

LEMMA LengthTextIs ==
  ASSUME NEW A, CR \in A, LF \in A, NEW response,
         HeaderLine("Content-Length", Len(response.body)) \in A
  PROVE  LET t == LengthText(response)
         IN /\ t \in Seq(A) /\ CrlfLines(t)
            /\ \A name \in ReplyNames :
                 IF name = "CONTENT-LENGTH" /\ name \notin DOMAIN response.headers
                 THEN Once(t, name, Len(response.body)) ELSE HeadersOf(t, name) = {}
<1> DEFINE n == Len(response.body)
           t == LengthText(response)
           x == <<HeaderLine("Content-Length", n)>> \o CrLf
<1>1. CASE "CONTENT-LENGTH" \in DOMAIN response.headers
  <2>1. t = <<>>
    BY <1>1 DEF LengthText
  <2>2. <<>> \in Seq(A) /\ CrlfLines(<<>>)
    BY DEF CrlfLines
  <2>3. QED
    BY <1>1, <2>1, <2>2, HeadersOfBlank
<1>2. CASE "CONTENT-LENGTH" \notin DOMAIN response.headers
  <2>1. t = x
    BY <1>2 DEF LengthText
  <2>2. "CONTENT-LENGTH" \in ReplyNames /\ Upper("Content-Length") = "CONTENT-LENGTH"
    BY NamesAre DEF ReplyNames
  <2> HIDE DEF n, t
  <2>3. /\ x \in Seq(A) /\ CrlfLines(x) /\ Once(x, "CONTENT-LENGTH", n)
        /\ \A m \in ReplyNames \ {"CONTENT-LENGTH"} : HeadersOf(x, m) = {}
    <3>1. HeaderLine("Content-Length", n) \in A
      BY DEF n
    <3>2. QED
      BY <2>2, <3>1, HeaderLineText
  <2> HIDE DEF x
  <2>4. QED
    BY <1>2, <2>1, <2>3 DEF n, t
<1>3. QED
  BY <1>1, <1>2

LEMMA SerializedIs ==
  ASSUME NEW A, CR \in A, LF \in A, NEW response, StatusLine(response.code) \in A,
         \A name \in ReplyNames :
           name \in DOMAIN response.headers => HeaderLine(name, response.headers[name]) \in A,
         HeaderLine("Content-Length", Len(response.body)) \in A
  PROVE  \E h \in Seq(A) : Answers(response, h)
<1> DEFINE x == StatusLine(response.code)
           headers == response.headers
           n == Len(response.body)
           first == <<x>> \o CrLf
           lines == HeaderTexts(headers)
           length == LengthText(response)
           upper == first \o lines
           text == upper \o length
           h == text \o CrLf
<1>1. IsLine(x) /\ ~IsHeader(x)
  <2>1. x[1] = "status" /\ CR[1] = "CR" /\ LF[1] = "LF" /\ OtherByte[1] = "byte"
    BY DEF StatusLine, CR, LF, OtherByte
  <2>2. QED
    BY <2>1 DEF IsLine, IsHeader
<1>2. Serialize(response) = h \o response.body
  BY Zenon DEF Serialize
<1> HIDE DEF x, headers, n, lines, length
<1>3. Text(A, first, headers, {}) /\ Len(first) = 3 /\ first[1] = x
  <2>1. x \in A
    BY DEF x
  <2>2. first \in Seq(A) /\ Len(first) = 3 /\ first[1] = x /\ CrlfLines(first)
    BY <1>1, <2>1, LineIs, LineIsLines
  <2>3. \A m \in ReplyNames : HeadersOf(first, m) = {}
    BY <1>1, <2>1, HeadersOfLine
  <2> HIDE DEF first
  <2>4. QED
    BY <2>2, <2>3 DEF Text
<1>4. Text(A, lines, headers, ReplyNames)
  BY HeaderTextsAre DEF lines, headers
<1>5. /\ length \in Seq(A) /\ CrlfLines(length)
      /\ \A name \in ReplyNames :
           IF name = "CONTENT-LENGTH" /\ name \notin DOMAIN headers
           THEN Once(length, name, n) ELSE HeadersOf(length, name) = {}
  BY LengthTextIs DEF length, headers, n
<1> HIDE DEF first
<1>6. Text(A, upper, headers, ReplyNames)
  <2>1. {} \cap ReplyNames = {} /\ {} \cup ReplyNames = ReplyNames
    OBVIOUS
  <2>2. Text(A, first \o lines, headers, {} \cup ReplyNames)
    BY <1>3, <1>4, <2>1, TextsTogether
  <2>3. QED
    BY <2>1, <2>2
<1>7. upper[1] = x /\ Len(upper) >= 1
  <2>1. first \in Seq(A) /\ lines \in Seq(A)
    BY <1>3, <1>4, Zenon DEF Text
  <2>2. /\ Len(first) \in Nat /\ Len(lines) \in Nat /\ Len(upper) = Len(first) + Len(lines)
        /\ \A i \in 1..Len(first) : upper[i] = first[i]
    BY <2>1, ConcatIs
  <2> HIDE DEF upper
  <2>3. QED
    BY <1>3, <2>2
<1> HIDE DEF upper
<1>8. upper \in Seq(A) /\ CrlfLines(upper)
  BY <1>6, Zenon DEF Text
<1>9. /\ text \in Seq(A) /\ CrlfLines(text) /\ Len(text) >= 1 /\ text[1] = x
  <2>1. text \in Seq(A) /\ CrlfLines(text)
    BY <1>5, <1>8, LinesTogether
  <2>2. /\ Len(upper) \in Nat /\ Len(length) \in Nat /\ Len(text) = Len(upper) + Len(length)
        /\ \A i \in 1..Len(upper) : text[i] = upper[i]
    BY <1>5, <1>8, ConcatIs
  <2> HIDE DEF text
  <2>3. QED
    BY <1>7, <2>1, <2>2
<1>10. ASSUME NEW name \in ReplyNames
       PROVE  IF name \in DOMAIN headers THEN Once(text, name, headers[name])
              ELSE name = "CONTENT-LENGTH" => Once(text, name, n)
  <2>1. /\ HeadersOf(upper, name) = {} /\ HeadersOf(length, name) = {} => HeadersOf(text, name) = {}
        /\ \A v : Once(upper, name, v) /\ HeadersOf(length, name) = {} => Once(text, name, v)
        /\ \A v : HeadersOf(upper, name) = {} /\ Once(length, name, v) => Once(text, name, v)
    BY <1>5, <1>8, HeadersTogether
  <2> HIDE DEF text
  <2>2. IF name \in DOMAIN headers THEN Once(upper, name, headers[name]) ELSE HeadersOf(upper, name) = {}
    BY <1>6, Zenon DEF Text
  <2>3. IF name = "CONTENT-LENGTH" /\ name \notin DOMAIN headers
        THEN Once(length, name, n) ELSE HeadersOf(length, name) = {}
    BY <1>5
  <2>4. QED
    BY <2>1, <2>2, <2>3
<1> HIDE DEF text
<1>11. CrLf \in Seq(A)
  BY CrLfIs
<1>12. h \in Seq(A) /\ CrlfHead(h)
  <2>1. text \in Seq(A) /\ CrlfLines(text) /\ Len(text) > 0
    <3>1. Len(text) \in Nat
      BY <1>9
    <3>2. QED
      BY <1>9, <3>1
  <2>2. QED
    BY <2>1, LinesMakeHead
<1>13. h[1] = x
  <2>1. /\ Len(text) \in Nat /\ \A i \in 1..Len(text) : h[i] = text[i]
    BY <1>9, <1>11, ConcatIs
  <2> HIDE DEF h
  <2>2. QED
    BY <1>9, <2>1
<1>14. ASSUME NEW name \in ReplyNames, NEW v, Once(text, name, v) PROVE Once(h, name, v)
  BY <1>9, <1>11, <1>14, HeadersTogether, HeadersOfBlank
<1> HIDE DEF h
<1>15. \A name \in ReplyNames : name \in DOMAIN headers => Once(h, name, headers[name])
  BY <1>10, <1>14
<1>16. "CONTENT-LENGTH" \notin DOMAIN headers => Once(h, "CONTENT-LENGTH", n)
  <2>1. "CONTENT-LENGTH" \in ReplyNames
    BY DEF ReplyNames
  <2>2. QED
    BY <1>10, <1>14, <2>1
<1>17. Answers(response, h)
  BY <1>2, <1>12, <1>13, <1>15, <1>16, Zenon DEF Answers, x, headers, n
<1>18. QED
  BY <1>12, <1>17

-----------------------------------------------------------------------------
(* What becomes of the headers of a script.                                *)

LEMMA GreatestIsThere ==
  ASSUME NEW n \in Nat, NEW T, T \subseteq 1..n, T # {}
  PROVE  Greatest(T) \in T /\ \A m \in T : m <= Greatest(T)
<1> DEFINE U == {n - i : i \in T}
<1>1. U \subseteq Nat /\ U # {}
  <2>1. \A i \in T : n - i \in Nat
    OBVIOUS
  <2>2. U \subseteq Nat
    BY <2>1, Zenon
  <2>3. U # {}
    BY Zenon
  <2>4. QED
    BY <2>2, <2>3
<1>2. PICK u \in U : \A j \in U : u <= j
  BY <1>1, LeastExists
<1>3. PICK i \in T : u = n - i
  OBVIOUS
<1>4. ASSUME NEW m \in T PROVE m <= i
  <2>1. n - m \in U /\ m \in Int /\ i \in Int
    OBVIOUS
  <2>2. n - i <= n - m
    BY <1>2, <1>3, <2>1
  <2>3. QED
    BY <2>1, <2>2
<1> HIDE DEF U
<1>5. \E k \in T : \A m \in T : m <= k
  BY <1>3, <1>4
<1>6. QED
  BY <1>5 DEF Greatest

\* The headers in h, by their places.
HeadersIn(h) ==
  [i \in {j \in DOMAIN h : IsHeader(h[j])} |-> [name |-> Upper(h[i][2]), value |-> h[i][3]]]

\* What CgiResponse finds are the headers of the head, and no more.
LEMMA ScriptHeadersAre ==
  ASSUME NEW A, NEW h \in Seq(A), NEW b \in Seq(A), NEW raw, raw = h \o b, Findable(h, raw)
  PROVE  ScriptHeaders(raw) = HeadersIn(h)
<1> DEFINE g == HeadOf(raw)
           G == {j \in DOMAIN g : IsHeader(g[j])}
           H == {j \in DOMAIN h : IsHeader(h[j])}
<1>1. /\ g \in Seq(A) /\ Len(g) <= Len(h)
      /\ \A i \in 1..Len(g) : g[i] = h[i]
      /\ \A i \in 1..Len(h) : IsLine(h[i]) => i <= Len(g)
  <2>1. Splits(A, raw, h, b)
    BY HeadOfIs
  <2>2. QED
    BY <2>1 DEF Splits
<1>2. ScriptHeaders(raw) = [i \in G |-> [name |-> Upper(g[i][2]), value |-> g[i][3]]]
  BY DEF ScriptHeaders
<1> HIDE DEF g
<1>3. Len(h) \in Nat /\ Len(g) \in Nat /\ DOMAIN h = 1..Len(h) /\ DOMAIN g = 1..Len(g)
  BY <1>1
<1>4. \A i \in 1..Len(h) : i <= Len(g) <=> i \in 1..Len(g)
  BY <1>3
<1>5. \A i \in 1..Len(g) : i \in 1..Len(h)
  BY <1>1, <1>3
<1>6. G = H
  BY <1>1, <1>3, <1>4, <1>5, HeadersAreLines
<1>7. \A i \in G : g[i] = h[i]
  BY <1>1, <1>3
<1> HIDE DEF G
<1>8. [i \in G |-> [name |-> Upper(g[i][2]), value |-> g[i][3]]]
        = [i \in G |-> [name |-> Upper(h[i][2]), value |-> h[i][3]]]
  BY <1>7
<1>9. QED
  BY <1>2, <1>6, <1>8, Zenon DEF HeadersIn

\* Of the headers of a name in h the last one counts.
Kept(headers, h, name) ==
  IF HeadersOf(h, name) = {} THEN name \notin DOMAIN headers
  ELSE name \in DOMAIN headers /\ headers[name] = h[Greatest(HeadersOf(h, name))][3]

\* Headers that are left out of all have another name.
LEMMA KeptIs ==
  ASSUME NEW A, NEW h \in Seq(A), NEW name, NEW kept, NEW headers,
         kept \subseteq DOMAIN HeadersIn(h), HeadersOf(h, name) \subseteq kept,
         headers = [k \in kept |-> HeadersIn(h)[k]]
  PROVE  Kept(LastOf(headers), h, name)
<1> DEFINE P == HeadersOf(h, name)
           all == HeadersIn(h)
           places == {k \in DOMAIN headers : headers[k].name = name}
           names == {headers[k].name : k \in DOMAIN headers}
<1>1. /\ \A k \in kept : headers[k] = all[k]
      /\ DOMAIN headers = kept
  OBVIOUS
<1>2. /\ DOMAIN all = {j \in DOMAIN h : IsHeader(h[j])}
      /\ \A k \in DOMAIN all : all[k].name = Upper(h[k][2]) /\ all[k].value = h[k][3]
  BY DEF HeadersIn
<1> HIDE DEF all
<1>3. kept \subseteq DOMAIN all
  BY DEF all
<1>4. \A k : k \in P <=> k \in DOMAIN h /\ IsHeader(h[k]) /\ Upper(h[k][2]) = name
  BY DEF HeadersOf
<1>5. P \subseteq kept
  OBVIOUS
<1> HIDE DEF P
<1>6. places = P
  BY <1>1, <1>2, <1>3, <1>4, <1>5
<1>7. name \in names <=> places # {}
  OBVIOUS
<1>8. /\ DOMAIN LastOf(headers) = names
      /\ name \in names => LastOf(headers)[name] = headers[Greatest(places)].value
  BY DEF LastOf
<1> HIDE DEF places, names
<1>9. ASSUME P # {} PROVE headers[Greatest(P)].value = h[Greatest(P)][3]
  <2>1. Len(h) \in Nat /\ P \subseteq 1..Len(h)
    BY <1>4
  <2>2. Greatest(P) \in P
    BY <1>9, <2>1, GreatestIsThere
  <2>3. Greatest(P) \in kept /\ Greatest(P) \in DOMAIN all
    BY <1>3, <1>5, <2>2
  <2>4. QED
    BY <1>1, <1>2, <2>3
<1>10. IF P = {} THEN name \notin DOMAIN LastOf(headers)
       ELSE name \in DOMAIN LastOf(headers) /\ LastOf(headers)[name] = h[Greatest(P)][3]
  BY <1>6, <1>7, <1>8, <1>9
<1>11. QED
  BY <1>10 DEF Kept, P

\* The response to a script that has written h with its blank line, and b.
Built(response, h, b) ==
  /\ response.body = b
  /\ LET statuses == HeadersOf(h, "STATUS")
     IN response.code = IF statuses = {} THEN 200 ELSE ValidCode(h[Least(statuses)][3])
  /\ \A name \in ReplyNames \ {"STATUS"} : Kept(response.headers, h, name)

LEMMA ResponseIs ==
  ASSUME NEW A, NEW h \in Seq(A), NEW b \in Seq(A), NEW raw, raw = h \o b, Findable(h, raw)
  PROVE  Built(BuildResponse(raw), h, b)
<1> DEFINE all == HeadersIn(h)
           statuses == HeadersOf(h, "STATUS")
           response == BuildResponse(raw)
<1>1. ScriptHeaders(raw) = all
  BY ScriptHeadersAre
<1>2. HeaderEnd(raw) # 0 /\ Body(raw) = b
  <2>1. Splits(A, raw, h, b)
    BY HeadOfIs
  <2>2. QED
    BY <2>1 DEF Splits
<1>3. /\ DOMAIN all = {j \in DOMAIN h : IsHeader(h[j])}
      /\ \A k \in DOMAIN all : all[k].name = Upper(h[k][2]) /\ all[k].value = h[k][3]
      /\ all = [k \in DOMAIN all |-> all[k]]
  BY DEF HeadersIn
<1>4. \A name : HeadersOf(h, name) = {k \in DOMAIN h : IsHeader(h[k]) /\ Upper(h[k][2]) = name}
  BY DEF HeadersOf
<1> HIDE DEF all, statuses
<1>5. StatusesOf(all) = statuses
  BY <1>3, <1>4 DEF StatusesOf, statuses
<1>6. CASE statuses = {}
  <2>1. response = [code |-> 200, headers |-> LastOf(all), body |-> b]
    BY <1>1, <1>2, <1>5, <1>6 DEF BuildResponse
  <2>2. ASSUME NEW name \in ReplyNames PROVE Kept(LastOf(all), h, name)
    <3>1. HeadersOf(h, name) \subseteq DOMAIN all
      BY <1>3, <1>4
    <3>2. all = [k \in DOMAIN all |-> HeadersIn(h)[k]]
      BY <1>3 DEF all
    <3>3. DOMAIN all \subseteq DOMAIN HeadersIn(h)
      BY DEF all
    <3> HIDE DEF all
    <3>4. QED
      BY <3>1, <3>2, <3>3, KeptIs
  <2> HIDE DEF response
  <2>3. Built(response, h, b)
    BY <1>6, <2>1, <2>2 DEF Built, statuses
  <2>4. QED
    BY <2>3 DEF response
<1>7. CASE statuses # {}
  <2> DEFINE first == Least(statuses)
             kept == DOMAIN all \ {first}
             rest == WithoutStatus(all)
  <2>1. statuses \subseteq Nat
    BY <1>4 DEF statuses
  <2>2. first \in statuses
    BY <1>7, <2>1, LeastIsThere
  <2>3. first \in DOMAIN all /\ all[first].value = h[first][3] /\ Upper(h[first][2]) = "STATUS"
    <3> HIDE DEF first
    <3>1. first \in DOMAIN h /\ IsHeader(h[first]) /\ Upper(h[first][2]) = "STATUS"
      BY <1>4, <2>2 DEF statuses
    <3>2. QED
      BY <1>3, <3>1
  <2>4. response = [code |-> ValidCode(h[first][3]), headers |-> LastOf(rest), body |-> b]
    BY <1>1, <1>2, <1>5, <1>7, <2>3 DEF BuildResponse
  <2>5. rest = [k \in kept |-> all[k]]
    BY <1>5 DEF WithoutStatus
  <2> HIDE DEF first, rest
  <2>6. ASSUME NEW name \in ReplyNames \ {"STATUS"} PROVE Kept(LastOf(rest), h, name)
    <3>1. HeadersOf(h, name) \subseteq kept
      BY <1>3, <1>4, <2>3
    <3>2. rest = [k \in kept |-> HeadersIn(h)[k]]
      BY <2>5 DEF all
    <3>3. kept \subseteq DOMAIN HeadersIn(h)
      BY DEF all
    <3> HIDE DEF kept
    <3>4. QED
      BY <3>1, <3>2, <3>3, KeptIs
  <2> HIDE DEF response
  <2>7. Built(response, h, b)
    BY <1>7, <2>4, <2>6 DEF Built, statuses, first
  <2>8. QED
    BY <2>7 DEF response
<1>8. QED
  BY <1>6, <1>7

-----------------------------------------------------------------------------
(* The reply.                                                              *)

\* The reply is the response to what the script of the first request has written.
ReplyInv ==
  reply # <<>> => /\ output \in Outputs
                  /\ reply = Serialize(BuildResponse(output.head \o output.body))

LEMMA NextReply == ReplyInv /\ [ExchangeNext]_exchangeVars => ReplyInv'
<1> SUFFICES ASSUME ReplyInv, [ExchangeNext]_exchangeVars PROVE ReplyInv'
  OBVIOUS
<1>1. ASSUME UNCHANGED <<output, reply>> PROVE ReplyInv'
  BY <1>1, Zenon DEF ReplyInv
<1>2. ASSUME NEW o \in Outputs, Respond(o) PROVE ReplyInv'
  <2>1. output' = o /\ reply' = Serialize(BuildResponse(o.head \o o.body))
    BY <1>2, Zenon DEF Respond
  <2>2. QED
    BY <2>1, Zenon DEF ReplyInv
<1>3. QED
  BY <1>1, <1>2, Zenon DEF ExchangeNext, ReceiveMore, exchangeVars

LEMMA SpecReply == ExchangeSpec => []ReplyInv
<1>1. ExchangeInit => ReplyInv
  BY DEF ExchangeInit, ReplyInv
<1>2. QED
  BY <1>1, NextReply, PTL DEF ExchangeSpec

\* A client finds the head and the body of a reply.
LEMMA ReaderFinds ==
  ASSUME NEW A, NEW h \in Seq(A), NEW b \in Seq(A), CrlfHead(h), reply = h \o b
  PROVE  ReadHead = h /\ ReadRest = b
<1>1. /\ reply \in Seq(A) /\ Len(h) \in Nat /\ Len(b) \in Nat /\ Len(reply) = Len(h) + Len(b)
      /\ \A i \in 1..Len(h) : reply[i] = h[i]
  BY ConcatIs
<1>2. Len(reply) \in Nat /\ Len(reply) >= Len(h) /\ \A i \in 1..Len(reply) : i <= Len(h) => reply[i] = h[i]
  BY <1>1
<1>3. Least(EndsWithCrlf(reply)) = Len(h)
  BY <1>1, <1>2, CrlfEnd
<1>4. /\ SubSeq(reply, 1, Len(h)) = h
      /\ SubSeq(reply, Len(h) + 1, Len(reply)) \o <<>> = b
  <2>1. reply \o <<>> = h \o b /\ <<>> \in Seq(A)
    BY <1>1, ConcatEmptySeq
  <2>2. QED
    BY <1>1, <1>2, <2>1, Cuts
<1>5. SubSeq(reply, Len(h) + 1, Len(reply)) = b
  <2>1. SubSeq(reply, Len(h) + 1, Len(reply)) \in Seq(A)
    BY <1>1, <1>2, PartTypes
  <2>2. QED
    BY <1>4, <2>1, ConcatEmptySeq
<1>6. QED
  BY <1>3, <1>4, <1>5 DEF ReadHead, ReadRest

\* A client reads in the reply what the response holds.
LEMMA ResponseIsRead ==
  ASSUME NEW response, response.body \in Seq(Symbol), reply = Serialize(response)
  PROVE  Answers(response, ReadHead) /\ ReadRest = response.body
<1> DEFINE A == Symbol \cup {StatusLine(response.code), HeaderLine("Content-Length", Len(response.body))}
                  \cup {HeaderLine(name, response.headers[name]) : name \in ReplyNames}
           b == response.body
<1>1. CR \in A /\ LF \in A /\ StatusLine(response.code) \in A
  BY DEF Symbol
<1>2. HeaderLine("Content-Length", Len(response.body)) \in A
  OBVIOUS
<1>3. \A name \in ReplyNames : HeaderLine(name, response.headers[name]) \in A
  OBVIOUS
<1>4. b \in Seq(A)
  <2>1. Symbol \subseteq A
    OBVIOUS
  <2> HIDE DEF A
  <2>2. Len(b) \in Nat /\ b \in [1..Len(b) -> Symbol]
    OBVIOUS
  <2>3. b \in [1..Len(b) -> A]
    BY <2>1, <2>2
  <2>4. QED
    BY <2>2, <2>3
<1> HIDE DEF A
<1>5. PICK h \in Seq(A) : Answers(response, h)
  BY <1>1, <1>2, <1>3, SerializedIs
<1>6. CrlfHead(h) /\ reply = h \o b
  BY <1>5, Zenon DEF Answers
<1>7. ReadHead = h /\ ReadRest = b
  BY <1>4, <1>6, ReaderFinds
<1>8. QED
  BY <1>5, <1>7

\* What scripts write.
LEMMA OutputTypes ==
  ASSUME NEW o \in Outputs
  PROVE  /\ o.head \in Seq(Symbol \cup OutputSymbol) /\ o.body \in Seq(Symbol \cup OutputSymbol)
         /\ o.body \in Seq(Symbol)
         /\ \/ CrlfHead(o.head) \/ LfHead(o.head)
            \/ EndsWithCrlf(o.head) = {} /\ EndsWithLf(o.head) = {} /\ o.body = <<>>
<1> DEFINE A == Symbol \cup OutputSymbol
<1>1. /\ o \in [head : Seq(OutputSymbol), body : Seq(Symbol)]
      /\ \/ CrlfHead(o.head) \/ LfHead(o.head)
         \/ EndsWithCrlf(o.head) = {} /\ EndsWithLf(o.head) = {} /\ o.body = <<>>
  BY OutputAssumption, Zenon
<1>2. o.head \in Seq(OutputSymbol) /\ o.body \in Seq(Symbol)
  BY <1>1
<1>3. Symbol \subseteq A /\ OutputSymbol \subseteq A
  OBVIOUS
<1> HIDE DEF A
<1>4. Seq(Symbol) \subseteq Seq(A) /\ Seq(OutputSymbol) \subseteq Seq(A)
  BY <1>3
<1>5. QED
  BY <1>1, <1>2, <1>4, Zenon DEF A

\* A head with a blank line is found; where a CR LF CR LF might be taken for it,
\* only one that ends in CR LF.
LEMMA OutputIsFound ==
  ASSUME NEW o \in Outputs, HeaderEnd(o.head) # 0, Unambiguous(<<o>>, 1)
  PROVE  Findable(o.head, o.head \o o.body)
<1> DEFINE A == Symbol \cup OutputSymbol
           h == o.head
           b == o.body
           wire == <<[head |-> h, body |-> b]>>
<1>1. /\ h \in Seq(A) /\ b \in Seq(A)
      /\ CrlfHead(h) \/ LfHead(h) \/ (EndsWithCrlf(h) = {} /\ EndsWithLf(h) = {})
  BY OutputTypes
<1>2. CrlfHead(h) \/ LfHead(h)
  <2>1. ~(EndsWithCrlf(h) = {} /\ EndsWithLf(h) = {})
    BY DEF HeaderEnd
  <2>2. QED
    BY <1>1, <2>1
<1>3. wire = <<o>>
  <2>1. o \in [head : Seq(OutputSymbol), body : Seq(Symbol)]
    BY OutputAssumption, Zenon
  <2>2. o = [head |-> h, body |-> b]
    BY <2>1
  <2>3. QED
    BY <2>2
<1>4. EndsWithCrlf(h) # {} \/ EndsWithCrlf(BytesFrom(wire)[1]) = {}
  <2>1. wire[1].head = h /\ 1 \in 1..1
    OBVIOUS
  <2>2. Unambiguous(wire, 1)
    BY <1>3, Zenon
  <2> HIDE DEF h, wire
  <2>3. QED
    BY <2>1, <2>2, Zenon DEF Unambiguous
<1>5. BytesFrom(wire)[1] = h \o b
  <2>1. wire \in Seq([head : Seq(A), body : Seq(A)]) /\ Len(wire) = 1 /\ wire[1].head = h /\ wire[1].body = b
    <3> HIDE DEF A, h, b
    <3>1. [head |-> h, body |-> b] \in [head : Seq(A), body : Seq(A)]
      BY <1>1
    <3>2. QED
      BY <3>1
  <2> HIDE DEF A, h, b, wire
  <2>2. /\ BytesFrom(wire)[Len(wire) + 1] = <<>>
        /\ \A i \in 1..Len(wire) :
             BytesFrom(wire)[i] = wire[i].head \o wire[i].body \o BytesFrom(wire)[i + 1]
    BY <2>1, BytesAre
  <2>3. Len(wire) + 1 = 2 /\ 1 \in 1..Len(wire) /\ 1 + 1 = 2
    BY <2>1
  <2>4. BytesFrom(wire)[1] = wire[1].head \o wire[1].body \o BytesFrom(wire)[2]
    BY <2>2, <2>3
  <2>5. BytesFrom(wire)[2] = <<>>
    BY <2>2, <2>3
  <2>6. BytesFrom(wire)[1] = h \o b \o <<>>
    BY <2>1, <2>4, <2>5, Zenon
  <2>7. h \o b \in Seq(A)
    BY <1>1, ConcatIs
  <2>8. QED
    BY <2>6, <2>7, ConcatEmptySeq
<1> HIDE DEF A, h, b, wire
<1>6. (h \o b) \o <<>> = h \o b /\ h \o b \in Seq(A) /\ <<>> \in Seq(A)
  <2>1. h \o b \in Seq(A)
    BY <1>1, ConcatIs
  <2>2. QED
    BY <2>1, ConcatEmptySeq
<1>7. EndsWithCrlf(h) # {} \/ EndsWithCrlf((h \o b) \o <<>>) = {}
  BY <1>4, <1>5, <1>6
<1>8. Findable(h, h \o b)
  BY ONLY <1>1, <1>2, <1>6, <1>7, HeadIsFound
<1>9. QED
  BY <1>8 DEF h, b

\* A script that writes no blank line: an error without a body.
LEMMA ErrorIsRead ==
  ASSUME output \in Outputs, HeaderEnd(output.head) = 0,
         reply = Serialize(BuildResponse(output.head \o output.body))
  PROVE  ReadRest = <<>> /\ ReadHead[1] = StatusLine(500)
<1> DEFINE h == output.head
           A == Symbol \cup OutputSymbol
           response == [code |-> 500, headers |-> <<>>, body |-> <<>>]
<1>1. /\ h \in Seq(A)
      /\ CrlfHead(h) \/ LfHead(h) \/ output.body = <<>>
  BY OutputTypes
<1>2. ~CrlfHead(h) /\ ~LfHead(h)
  <2>1. ASSUME Findable(h, h) PROVE FALSE
    <3>1. Len(h) \in Nat \ {0} /\ HeaderEnd(h) = IF Len(h) >= Len(h) THEN Len(h) ELSE 0
      <4> HIDE DEF h
      <4>1. \A i \in 1..Len(h) : i <= Len(h) => h[i] = h[i]
        OBVIOUS
      <4>2. QED
        BY <1>1, <2>1, <4>1, HeaderEndIs
    <3>2. QED
      BY <3>1
  <2>2. LfHead(h) => EndsWithCrlf(h) = {}
    BY <1>1, LfHeadHoldsNoCrlf
  <2>3. QED
    BY <2>1, <2>2 DEF Findable
<1>3. output.head \o output.body = h
  BY <1>1, <1>2, ConcatEmptySeq
<1>4. BuildResponse(h) = response
  BY DEF BuildResponse
<1>5. response.body = <<>> /\ response.code = 500
  OBVIOUS
<1> HIDE DEF response, h
<1>6. Answers(response, ReadHead) /\ ReadRest = response.body
  <2>1. reply = Serialize(response)
    BY <1>3, <1>4, Zenon
  <2>2. response.body \in Seq(Symbol)
    BY <1>5
  <2>3. QED
    BY <2>1, <2>2, ResponseIsRead
<1>7. ReadHead[1] = StatusLine(response.code)
  BY <1>6, Zenon DEF Answers
<1>8. QED
  BY <1>5, <1>6, <1>7

LEMMA OutputIsRead ==
  ASSUME output \in Outputs, HasBlankLine, Unambiguous(<<output>>, 1),
         reply = Serialize(BuildResponse(output.head \o output.body))
  PROVE  /\ ReadRest = output.body
         /\ LET code == output.head[Least(Given("STATUS"))][3]
            IN ReadHead[1] = StatusLine(
                 IF Given("STATUS") = {} THEN 200 ELSE IF code \in 100..599 THEN code ELSE 500)
         /\ \A name \in {"CONTENT-TYPE", "COOKIE", "CONTENT-LENGTH"} :
              Given(name) # {} => Read(name, output.head[Greatest(Given(name))][3])
         /\ Given("CONTENT-LENGTH") = {} => Read("CONTENT-LENGTH", Len(output.body))
<1> DEFINE h == output.head
           b == output.body
           raw == h \o b
           response == BuildResponse(raw)
           code == h[Least(Given("STATUS"))][3]
<1>1. Built(response, h, b)
  <2>1. h \in Seq(Symbol \cup OutputSymbol) /\ b \in Seq(Symbol \cup OutputSymbol)
    BY OutputTypes
  <2>2. Findable(h, raw)
    BY OutputIsFound DEF HasBlankLine
  <2> HIDE DEF h, b
  <2>3. QED
    BY <2>1, <2>2, ResponseIs
<1>2. b \in Seq(Symbol)
  BY OutputTypes
<1>3. \A name : Given(name) = HeadersOf(h, name)
  BY DEF Given
<1>4. reply = Serialize(response)
  OBVIOUS
<1> HIDE DEF h, b, raw, response
<1>5. response.body = b
  BY <1>1, Zenon DEF Built
<1>6. Answers(response, ReadHead) /\ ReadRest = b
  BY <1>2, <1>4, <1>5, ResponseIsRead
<1>7. ReadHead[1] = StatusLine(
        IF Given("STATUS") = {} THEN 200 ELSE IF code \in 100..599 THEN code ELSE 500)
  <2>1. ReadHead[1] = StatusLine(response.code)
    BY <1>6, Zenon DEF Answers
  <2>2. response.code = IF Given("STATUS") = {} THEN 200 ELSE ValidCode(code)
    BY <1>1, <1>3, Zenon DEF Built
  <2>3. ValidCode(code) = IF code \in 100..599 THEN code ELSE 500
    BY Zenon DEF ValidCode
  <2> HIDE DEF code
  <2>4. QED
    BY <2>1, <2>2, <2>3
<1>8. \A name \in ReplyNames \ {"STATUS"} :
        IF Given(name) = {} THEN name \notin DOMAIN response.headers
        ELSE /\ name \in DOMAIN response.headers
             /\ response.headers[name] = h[Greatest(Given(name))][3]
  BY <1>1, <1>3, Zenon DEF Built, Kept
<1>9. \A name, v : Once(ReadHead, name, v) => Read(name, v)
  BY Zenon DEF Once, Read
<1>10. ASSUME NEW name \in ReplyNames \ {"STATUS"}, Given(name) # {}
       PROVE  Read(name, h[Greatest(Given(name))][3])
  <2>1. Once(ReadHead, name, response.headers[name])
    BY <1>6, <1>8, <1>10, Zenon DEF Answers
  <2>2. response.headers[name] = h[Greatest(Given(name))][3]
    BY <1>8, <1>10
  <2>3. QED
    BY <1>9, <2>1, <2>2, Zenon
<1>11. ASSUME Given("CONTENT-LENGTH") = {} PROVE Read("CONTENT-LENGTH", Len(b))
  <2>1. "CONTENT-LENGTH" \in ReplyNames \ {"STATUS"}
    BY DEF ReplyNames
  <2>2. "CONTENT-LENGTH" \notin DOMAIN response.headers
    BY <1>8, <1>11, <2>1
  <2>3. Once(ReadHead, "CONTENT-LENGTH", Len(b))
    BY <1>5, <1>6, <2>2, Zenon DEF Answers
  <2>4. QED
    BY <1>9, <2>3, Zenon
<1>12. {"CONTENT-TYPE", "COOKIE", "CONTENT-LENGTH"} = ReplyNames \ {"STATUS"}
  BY DEF ReplyNames
<1>13. \A name \in {"CONTENT-TYPE", "COOKIE", "CONTENT-LENGTH"} :
         Given(name) # {} => Read(name, h[Greatest(Given(name))][3])
  BY <1>10, <1>12
<1>14. QED
  BY <1>6, <1>7, <1>11, <1>13, Zenon DEF h, b

\* A reader of a reply finds the status, the headers and the body that the script has
\* written, with a length for the body; of a script without a blank line, an error.
THEOREM SpecReplyIsReadable == ExchangeSpec => []ReplyIsReadable
<1>1. ReplyInv => ReplyIsReadable
  <2> SUFFICES ASSUME ReplyInv, reply # <<>> PROVE ReplyIsReadable
    BY Zenon DEF ReplyIsReadable
  <2>1. output \in Outputs /\ reply = Serialize(BuildResponse(output.head \o output.body))
    BY Zenon DEF ReplyInv
  <2>2. ~HasBlankLine => ReadRest = <<>> /\ ReadHead[1] = StatusLine(500)
    BY <2>1, ErrorIsRead DEF HasBlankLine
  <2>3. QED
    BY <2>1, <2>2, OutputIsRead, Zenon DEF ReplyIsReadable
<1>2. QED
  BY <1>1, SpecReply, PTL
=============================================================================
