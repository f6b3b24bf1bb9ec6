---------------------------- MODULE ProgramProof ----------------------------
(***************************************************************************)
(* Proofs about Program.tla: what the optimizer leaves is a program.       *)
(*                                                                         *)
(* The parser's invariants say that a file compiled without errors has its *)
(* definitions in pairs, each label once, and each branch going to a label *)
(* of its own definition, or to the end of the main that synthesize_main   *)
(* then builds.  Sound says the same of code that is all in definitions.   *)
(* synthesize_main establishes it, and each pass of the optimizer, in      *)
(* whatever order the passes run and however often, preserves it.          *)
(***************************************************************************)
EXTENDS Program, ParserBranches

-----------------------------------------------------------------------------
(* Joining sequences. *)

LEMMA JoinedParts ==
  ASSUME NEW S, NEW s \in Seq(S), NEW t \in Seq(S)
  PROVE  /\ s \o t \in Seq(S) /\ DOMAIN (s \o t) = 1..(Len(s) + Len(t))
         /\ \A k \in DOMAIN s : (s \o t)[k] = s[k]
         /\ \A k \in DOMAIN t : (s \o t)[Len(s) + k] = t[k]
  BY Joined

(* Where in the first m parts the opcodes of a sequence come from: which   *)
(* part, and where in it.  They come in order, and none is left out.       *)
Origins(parts, m, flat, from, at) ==
  /\ \A k \in 1..Len(flat) : /\ from[k] \in 1..m /\ at[k] \in DOMAIN parts[from[k]]
                            /\ flat[k] = parts[from[k]][at[k]]
  /\ \A k, l \in 1..Len(flat) : k < l =>
       from[k] < from[l] \/ (from[k] = from[l] /\ at[k] < at[l])
  /\ \A i \in 1..m : \A j \in DOMAIN parts[i] :
       \E k \in 1..Len(flat) : from[k] = i /\ at[k] = j

(* One more part. *)
LEMMA OriginsNext ==
  ASSUME NEW S, NEW parts \in Seq(Seq(S)), NEW m \in Nat, m + 1 \in DOMAIN parts,
         NEW flat \in Seq(S), NEW from, NEW at, Origins(parts, m, flat, from, at)
  PROVE  /\ flat \o parts[m + 1] \in Seq(S)
         /\ \E f, a : Origins(parts, m + 1, flat \o parts[m + 1], f, a)
  <1> DEFINE p == parts[m + 1]
             n == Len(flat)
             g == flat \o p
             f == [k \in 1..(n + Len(p)) |-> IF k <= n THEN from[k] ELSE m + 1]
             a == [k \in 1..(n + Len(p)) |-> IF k <= n THEN at[k] ELSE k - n]
  <1>1. p \in Seq(S)
    BY ElementOfSeq, LenProperties
  <1> HIDE DEF p
  <1>2. /\ g \in Seq(S) /\ n \in Nat /\ Len(p) \in Nat
        /\ DOMAIN flat = 1..n /\ DOMAIN p = 1..Len(p) /\ DOMAIN g = 1..(n + Len(p))
        /\ \A k \in 1..n : g[k] = flat[k]
        /\ \A k \in 1..Len(p) : g[n + k] = p[k]
    BY <1>1, Joined, LenProperties
  <1>3. /\ \A k \in 1..(n + Len(p)) : f[k] = IF k <= n THEN from[k] ELSE m + 1
        /\ \A k \in 1..(n + Len(p)) : a[k] = IF k <= n THEN at[k] ELSE k - n
    OBVIOUS
  <1> HIDE DEF g, f, a, n
  <1>4. /\ \A k \in 1..n : /\ from[k] \in 1..m /\ at[k] \in DOMAIN parts[from[k]]
                           /\ flat[k] = parts[from[k]][at[k]]
        /\ \A k, l \in 1..n : k < l =>
             from[k] < from[l] \/ (from[k] = from[l] /\ at[k] < at[l])
        /\ \A i \in 1..m : \A j \in DOMAIN parts[i] :
             \E k \in 1..n : from[k] = i /\ at[k] = j
    BY DEF Origins, n
  <1>5. ASSUME NEW k \in 1..(n + Len(p))
        PROVE  \/ k \in 1..n /\ k <= n /\ f[k] = from[k] /\ a[k] = at[k] /\ g[k] = flat[k]
               \/ /\ k - n \in 1..Len(p) /\ ~(k <= n) /\ f[k] = m + 1 /\ a[k] = k - n
                  /\ g[k] = p[k - n]
    <2>1. CASE k <= n
      BY <1>2, <1>3, <2>1
    <2>2. CASE ~(k <= n)
      <3>1. k - n \in 1..Len(p) /\ n + (k - n) = k
        BY <1>2, <2>2
      <3>2. g[n + (k - n)] = p[k - n]
        BY <1>2, <3>1
      <3>3. QED
        BY <1>3, <2>2, <3>1, <3>2
    <2>3. QED
      BY <2>1, <2>2
  <1>6. ASSUME NEW k \in 1..(n + Len(p))
        PROVE  f[k] \in 1..(m + 1) /\ a[k] \in DOMAIN parts[f[k]] /\ g[k] = parts[f[k]][a[k]]
    <2>1. CASE k <= n
      <3>1. f[k] = from[k] /\ a[k] = at[k] /\ g[k] = flat[k] /\ k \in 1..n
        BY <1>2, <1>5, <2>1
      <3>2. from[k] \in 1..m /\ at[k] \in DOMAIN parts[from[k]] /\ flat[k] = parts[from[k]][at[k]]
        BY <1>4, <3>1
      <3>3. from[k] \in 1..(m + 1)
        BY <3>2
      <3>4. QED
        BY <3>1, <3>2, <3>3
    <2>2. CASE ~(k <= n)
      <3>1. k - n \in 1..Len(p) /\ f[k] = m + 1 /\ a[k] = k - n /\ g[k] = p[k - n]
        BY <1>2, <1>5, <2>2
      <3>2. m + 1 \in 1..(m + 1)
        OBVIOUS
      <3>3. QED
        BY <1>2, <3>1, <3>2 DEF p
    <2>3. QED
      BY <2>1, <2>2
  <1>7. ASSUME NEW k \in 1..(n + Len(p)), NEW l \in 1..(n + Len(p)), k < l
        PROVE  f[k] < f[l] \/ (f[k] = f[l] /\ a[k] < a[l])
    <2>1. CASE l <= n
      <3>1. k <= n
        BY <1>2, <1>7, <2>1
      <3>2. /\ f[k] = from[k] /\ a[k] = at[k] /\ k \in 1..n
            /\ f[l] = from[l] /\ a[l] = at[l] /\ l \in 1..n
        BY <1>2, <1>5, <2>1, <3>1
      <3>3. QED
        BY <1>4, <1>7, <3>2
    <2>2. CASE k <= n /\ ~(l <= n)
      <3>1. f[k] = from[k] /\ k \in 1..n /\ f[l] = m + 1
        BY <1>2, <1>5, <2>2
      <3>2. from[k] \in 1..m
        BY <1>4, <3>1
      <3>3. QED
        BY <3>1, <3>2
    <2>3. CASE ~(k <= n) /\ ~(l <= n)
      <3>1. f[k] = m + 1 /\ f[l] = m + 1 /\ a[k] = k - n /\ a[l] = l - n
        BY <1>2, <1>5, <2>3
      <3>2. QED
        BY <1>2, <1>7, <3>1
    <2>4. QED
      BY <1>2, <1>7, <2>1, <2>2, <2>3
  <1>8. ASSUME NEW i \in 1..(m + 1), NEW j \in DOMAIN parts[i]
        PROVE  \E k \in 1..(n + Len(p)) : f[k] = i /\ a[k] = j
    <2>1. CASE i = m + 1
      <3>1. j \in 1..Len(p)
        BY <1>2, <2>1 DEF p
      <3>2. n + j \in 1..(n + Len(p)) /\ ~(n + j <= n) /\ (n + j) - n = j
        BY <1>2, <3>1, SMTT(30)
      <3>3. f[n + j] = i /\ a[n + j] = j
        BY <1>3, <2>1, <3>2
      <3>4. QED
        BY <3>2, <3>3
    <2>2. CASE i # m + 1
      <3>1. i \in 1..m
        BY <2>2
      <3>2. PICK k \in 1..n : from[k] = i /\ at[k] = j
        BY <1>4, <3>1
      <3>3. k \in 1..(n + Len(p)) /\ k <= n
        BY <1>2
      <3>4. f[k] = i /\ a[k] = j
        BY <1>3, <3>2, <3>3
      <3>5. QED
        BY <3>3, <3>4
    <2>3. QED
      BY <2>1, <2>2
  <1>9. Origins(parts, m + 1, g, f, a)
    <2>1. Len(g) = n + Len(p)
      BY <1>2, LenProperties
    <2>2. /\ \A k \in 1..Len(g) : /\ f[k] \in 1..(m + 1) /\ a[k] \in DOMAIN parts[f[k]]
                                 /\ g[k] = parts[f[k]][a[k]]
          /\ \A k, l \in 1..Len(g) : k < l => f[k] < f[l] \/ (f[k] = f[l] /\ a[k] < a[l])
          /\ \A i \in 1..(m + 1) : \A j \in DOMAIN parts[i] :
               \E k \in 1..Len(g) : f[k] = i /\ a[k] = j
      BY <2>1, <1>6, <1>7, <1>8
    <2>3. QED
      BY <2>2, Zenon DEF Origins
  <1>10. QED
    BY <1>2, <1>9 DEF g, p


(* FlattenSeq joins its parts one after the other. *)
LEMMA FlatteningIs ==
  ASSUME NEW S, NEW parts \in Seq(Seq(S)), Len(parts) # 0
  PROVE  \E f : /\ FlattenSeq(parts) = f[Len(parts)] /\ f[1] = parts[1]
                /\ \A i \in 2..Len(parts) : f[i] = f[i - 1] \o parts[i]
  <1> DEFINE n == Len(parts)
             Part1(m, i) == IF i = 1 THEN parts[i] ELSE m[i - 1] \o parts[i]
             Solves(m, k) == /\ m = [i \in 1..n |-> m[i]]
                             /\ \A i \in 1..n : i <= k => m[i] = Part1(m, i)
  <1>0. n \in Nat /\ n >= 1
    BY LenProperties
  <1>1. \E m : Solves(m, 0)
    <2> DEFINE m == [i \in 1..n |-> <<>>]
    <2>1. \A i \in 1..n : ~(i <= 0)
      BY <1>0
    <2>2. m = [i \in 1..n |-> m[i]]
      OBVIOUS
    <2> HIDE DEF m
    <2>3. Solves(m, 0)
      BY <2>1, <2>2
    <2>4. QED
      BY <2>3
  <1>2. ASSUME NEW k \in Nat, NEW m, Solves(m, k) PROVE \E g : Solves(g, k + 1)
    <2> DEFINE g == [i \in 1..n |-> IF i = k + 1 THEN Part1(m, i) ELSE m[i]]
    <2>1. \A i \in 1..n : g[i] = IF i = k + 1 THEN Part1(m, i) ELSE m[i]
      OBVIOUS
    <2>2. g = [i \in 1..n |-> g[i]]
      OBVIOUS
    <2> HIDE DEF g
    <2>3. ASSUME NEW i \in 1..n, i <= k + 1 PROVE g[i] = Part1(g, i)
      <3>1. i # 1 => i - 1 \in 1..n /\ i - 1 # k + 1
        BY <1>0, <2>3
      <3>2. i # 1 => g[i - 1] = m[i - 1]
        BY <2>1, <3>1
      <3>3. Part1(g, i) = Part1(m, i)
        BY <3>2
      <3>4. i # k + 1 => i <= k
        BY <1>0, <2>3
      <3>5. i # k + 1 => m[i] = Part1(m, i)
        BY <1>2, <3>4
      <3> HIDE DEF Part1
      <3>6. QED
        BY <2>1, <3>3, <3>5
    <2>4. Solves(g, k + 1)
      BY <2>2, <2>3
    <2>5. QED
      BY <2>4
  <1>3. \E m : Solves(m, n)
    <2> HIDE DEF Solves
    <2> DEFINE T == {k \in Nat : ~ \E m : Solves(m, k)}
    <2>1. CASE T # {}
      <3>1. T \in SUBSET Nat
        OBVIOUS
      <3>2. PICK k \in T : \A y \in T : k <= y
        BY <2>1, <3>1, LeastNat
      <3>3. k \in Nat /\ k # 0
        BY <1>1, <3>2
      <3>4. k - 1 \in Nat /\ ~(k <= k - 1) /\ (k - 1) + 1 = k
        BY <3>3
      <3>5. PICK m : Solves(m, k - 1)
        BY <3>2, <3>4
      <3>6. \E g : Solves(g, (k - 1) + 1)
        BY <1>2, <3>4, <3>5
      <3>7. QED
        BY <3>2, <3>4, <3>6
    <2>2. QED
      BY <1>0, <2>1
  <1>4. PICK m : Solves(m, n)
    BY <1>3
  <1>5. m = [i \in 1..n |-> Part1(m, i)]
    <2> HIDE DEF Part1
    <2>0. \A i \in 1..n : i <= n
      BY <1>0
    <2>1. \A i \in 1..n : m[i] = Part1(m, i)
      BY <2>0, <1>4
    <2>2. QED
      BY <1>4, <2>1
  <1> DEFINE r == CHOOSE h : h = [i \in 1..n |-> Part1(h, i)]
  <1>6. r = [i \in 1..n |-> Part1(r, i)]
    BY <1>5
  <1>7. FlattenSeq(parts) = r[n]
    BY DEF FlattenSeq
  <1> HIDE DEF r
  <1>8. \A i \in 1..n : r[i] = Part1(r, i)
    BY <1>6
  <1>9. 1 \in 1..n /\ \A i \in 2..n : i \in 1..n /\ i # 1
    BY <1>0
  <1>10. QED
    BY <1>7, <1>8, <1>9

LEMMA NoOrigins ==
  ASSUME NEW parts, NEW from, NEW at
  PROVE  Origins(parts, 0, <<>>, from, at)
  <1>1. Len(<<>>) = 0 /\ 1..0 = {}
    OBVIOUS
  <1>2. QED
    BY <1>1 DEF Origins

(* A joined sequence consists of its parts. *)
LEMMA Flattened ==
  ASSUME NEW S, NEW parts \in Seq(Seq(S))
  PROVE  /\ FlattenSeq(parts) \in Seq(S)
         /\ \E from, at : Origins(parts, Len(parts), FlattenSeq(parts), from, at)
  <1> DEFINE n == Len(parts)
  <1>0. n \in Nat /\ DOMAIN parts = 1..n
    BY LenProperties
  <1>1. CASE n = 0
    <2>1. FlattenSeq(parts) = parts /\ parts = <<>>
      BY <1>1, EmptySeq DEF FlattenSeq
    <2>2. Origins(parts, n, FlattenSeq(parts), <<>>, <<>>) 
      BY <1>1, <2>1, NoOrigins
    <2>3. <<>> \in Seq(S)
      OBVIOUS
    <2>4. QED
      BY <2>1, <2>2, <2>3
  <1>2. CASE n # 0
    <2>1. PICK f : /\ FlattenSeq(parts) = f[n] /\ f[1] = parts[1]
                   /\ \A i \in 2..n : f[i] = f[i - 1] \o parts[i]
      BY <1>2, FlatteningIs
    <2> DEFINE Good(m) == f[m] \in Seq(S) /\ \E from, at : Origins(parts, m, f[m], from, at)
               T == {m \in 1..n : ~Good(m)}
    <2> HIDE DEF n
    <2>2. Good(1)
      <3>1. 0 + 1 \in DOMAIN parts /\ <<>> \in Seq(S) /\ Origins(parts, 0, <<>>, <<>>, <<>>)
        BY <1>0, <1>2, NoOrigins
      <3> DEFINE none == <<>>
      <3>2. none \in Seq(S) /\ 0 \in Nat /\ 0 + 1 \in DOMAIN parts /\ Origins(parts, 0, none, none, none)
        BY <3>1
      <3>a. none \o parts[1] = parts[1]
        <4>1. parts[1] \in Seq(S)
          BY <3>1, ElementOfSeq, <1>0, LenProperties
        <4>2. QED
          BY <4>1
      <3> HIDE DEF none
      <3>3. /\ none \o parts[0 + 1] \in Seq(S)
            /\ \E g, a : Origins(parts, 0 + 1, none \o parts[0 + 1], g, a)
        BY <3>2, OriginsNext
      <3>4. 0 + 1 = 1
        OBVIOUS
      <3>5. QED
        BY <2>1, <3>3, <3>4, <3>a
    <2>3. ASSUME NEW m \in 1..n, m + 1 \in 1..n, Good(m) PROVE Good(m + 1)
      <3>1. PICK from, at : Origins(parts, m, f[m], from, at)
        BY <2>3
      <3>2. m \in Nat /\ m + 1 \in 2..n /\ (m + 1) - 1 = m
        BY <1>0, <2>3
      <3>3. f[m + 1] = f[m] \o parts[m + 1]
        BY <2>1, <3>2
      <3> DEFINE flat == f[m]
      <3>4. flat \in Seq(S) /\ Origins(parts, m, flat, from, at) /\ m + 1 \in DOMAIN parts
        BY <1>0, <2>3, <3>1
      <3> HIDE DEF flat
      <3>5. /\ flat \o parts[m + 1] \in Seq(S)
            /\ \E g, a : Origins(parts, m + 1, flat \o parts[m + 1], g, a)
        BY <3>2, <3>4, OriginsNext
      <3>6. QED
        BY <3>3, <3>5 DEF flat
    <2> HIDE DEF Good
    <2>4. ASSUME T # {} PROVE FALSE
      <3>1. T \in SUBSET Nat
        BY <1>0
      <3>2. PICK k \in T : \A y \in T : k <= y
        BY <2>4, <3>1, LeastNat
      <3>3. k \in 1..n /\ k # 1
        BY <2>2, <3>2
      <3>4. k - 1 \in 1..n /\ ~(k <= k - 1) /\ (k - 1) + 1 = k
        BY <1>0, <3>3
      <3>5. Good(k - 1)
        BY <3>2, <3>4
      <3>6. Good((k - 1) + 1)
        BY <2>3, <3>3, <3>4, <3>5
      <3>7. QED
        BY <3>2, <3>4, <3>6
    <2>5. n \in 1..n
      BY <1>0, <1>2
    <2>6. Good(n)
      <3>1. n \notin T
        BY <2>4
      <3>2. QED
        BY <2>5, <3>1
    <2>7. QED
      BY <2>1, <2>6 DEF Good, n
  <1>3. QED
    BY <1>1, <1>2

-----------------------------------------------------------------------------
(* Definitions in code. *)

(* The opcodes that begin and end definitions. *)
Bounds(o) == is_define_opcode(o) \/ is_enddefine_opcode(o)

(* No definition begins or ends between two positions of the code.         *)
Together(code, i, j) ==
  \A k \in i..j : /\ k > i => ~is_define_opcode(code[k])
                  /\ k < j => ~is_enddefine_opcode(code[k])

(* A position of the code that is in a definition. *)
InDefinition(code, i) == OpenAt(code, i) # {}

(* The definition of a position is the last one open there. *)
LEMMA AtIs ==
  ASSUME NEW code, NEW i \in Nat
  PROVE  /\ InDefinition(code, i) => /\ At(code, i) \in OpenAt(code, i)
                                     /\ \A d \in OpenAt(code, i) : At(code, i) >= d
                                     /\ At(code, i) \in 1..i
         /\ InDefinition(code, i) <=> At(code, i) # 0
  <1>1. OpenAt(code, i) \in SUBSET (1..i)
    BY DEF OpenAt
  <1>2. ASSUME OpenAt(code, i) # {}
        PROVE  /\ At(code, i) \in OpenAt(code, i)
               /\ \A d \in OpenAt(code, i) : At(code, i) >= d
    <2> DEFINE T == OpenAt(code, i)
    <2>1. At(code, i) = Max(T) /\ T \in SUBSET (1..i) /\ T # {}
      BY <1>1, <1>2 DEF At
    <2> HIDE DEF T
    <2>2. Max(T) \in T /\ \A y \in T : Max(T) >= y
      BY <2>1, Extremes
    <2>3. QED
      BY <2>1, <2>2 DEF T
  <1>3. OpenAt(code, i) # {} => At(code, i) \in 1..i
    BY <1>1, <1>2
  <1>4. OpenAt(code, i) # {} => At(code, i) # 0
    BY <1>3
  <1>5. OpenAt(code, i) = {} => At(code, i) = 0
    BY DEF At
  <1>6. QED
    BY <1>2, <1>3, <1>4, <1>5 DEF InDefinition

(* Positions of code are in one definition exactly if nothing begins or    *)
(* ends between them.                                                      *)
LEMMA AtTogether ==
  ASSUME NEW code, NEW i \in Nat, NEW j \in Nat, i <= j, InDefinition(code, i)
  PROVE  At(code, i) = At(code, j) <=> Together(code, i, j)
  <1>1. /\ At(code, i) \in OpenAt(code, i) /\ At(code, i) \in 1..i
        /\ \A d \in OpenAt(code, i) : At(code, i) >= d
    BY AtIs
  <1>2. ASSUME At(code, i) = At(code, j) PROVE Together(code, i, j)
    <2> DEFINE d == At(code, i)
    <2>1. InDefinition(code, j)
      <3>1. d # 0
        BY <1>1
      <3>2. QED
        BY <1>2, <3>1, AtIs
    <2>2. d \in OpenAt(code, j) /\ \A e \in OpenAt(code, j) : d >= e
      BY <1>2, <2>1, AtIs
    <2> HIDE DEF d
    <2>3. \A e \in d..(j - 1) : ~is_enddefine_opcode(code[e])
      BY <2>2 DEF OpenAt
    <2>4. d \in 1..i
      BY <1>1 DEF d
    <2>5. ASSUME NEW k \in i..j, k > i, is_define_opcode(code[k]) PROVE FALSE
      <3>1. k \in 1..j /\ ~(d >= k) /\ \A e \in k..(j - 1) : e \in d..(j - 1)
        BY <2>4, <2>5
      <3>2. k \in OpenAt(code, j)
        BY <2>3, <2>5, <3>1 DEF OpenAt
      <3>3. QED
        BY <2>2, <3>1, <3>2
    <2>6. ASSUME NEW k \in i..j, k < j PROVE ~is_enddefine_opcode(code[k])
      <3>1. k \in d..(j - 1)
        BY <2>4, <2>6
      <3>2. QED
        BY <2>3, <3>1
    <2>7. QED
      BY <2>5, <2>6 DEF Together
  <1>3. ASSUME Together(code, i, j) PROVE At(code, i) = At(code, j)
    <2>1. ASSUME NEW d \in OpenAt(code, i) PROVE d \in OpenAt(code, j)
      <3>1. /\ d \in 1..i /\ is_define_opcode(code[d])
            /\ \A e \in d..(i - 1) : ~is_enddefine_opcode(code[e])
        BY <2>1 DEF OpenAt
      <3>2. ASSUME NEW e \in d..(j - 1) PROVE ~is_enddefine_opcode(code[e])
        <4>1. e \in d..(i - 1) \/ (e \in i..j /\ e < j)
          BY <3>1
        <4>2. QED
          BY <1>3, <3>1, <4>1 DEF Together
      <3>3. d \in 1..j
        BY <3>1
      <3>4. QED
        BY <3>1, <3>2, <3>3 DEF OpenAt
    <2>2. ASSUME NEW d \in OpenAt(code, j) PROVE d \in OpenAt(code, i)
      <3>1. /\ d \in 1..j /\ is_define_opcode(code[d])
            /\ \A e \in d..(j - 1) : ~is_enddefine_opcode(code[e])
        BY <2>2 DEF OpenAt
      <3>2. d \in 1..i
        <4>1. d > i => d \in i..j
          BY <3>1
        <4>2. ~(d > i)
          BY <1>3, <3>1, <4>1 DEF Together
        <4>3. QED
          BY <3>1, <4>2
      <3>3. \A e \in d..(i - 1) : e \in d..(j - 1)
        BY <3>1
      <3>4. QED
        BY <3>1, <3>2, <3>3 DEF OpenAt
    <2>3. OpenAt(code, i) = OpenAt(code, j)
      BY <2>1, <2>2
    <2>4. QED
      BY <2>3 DEF At
  <1>4. QED
    BY <1>2, <1>3

-----------------------------------------------------------------------------
(* Code rewritten by a pass: position k of the new code stems from position *)
(* from[k] of the old one.  They come in the same order, and of what begins *)
(* or ends definitions nothing is lost, changed or added.                   *)
Framed(old, new, from) ==
  /\ \A k \in 1..Len(new) : from[k] \in 1..Len(old)
  /\ \A k, l \in 1..Len(new) : k < l => from[k] <= from[l]
  /\ \A k \in 1..Len(new) : Bounds(new[k]) => new[k] = old[from[k]]
  /\ \A i \in 1..Len(old) : Bounds(old[i]) =>
       \E k \in 1..Len(new) : /\ from[k] = i /\ new[k] = old[i]
                              /\ \A l \in 1..Len(new) : from[l] = i => l = k

(* Every definition that begins ends before the next one begins. *)
Ended(code) ==
  \A d \in 1..Len(code) : is_define_opcode(code[d]) =>
    \E e \in (d + 1)..Len(code) : /\ is_enddefine_opcode(code[e])
                                  /\ \A k \in (d + 1)..e : ~is_define_opcode(code[k])

(* Where an opcode of the old code that bounds a definition is now, and    *)
(* what stems from what follows or precedes it.                            *)
KeptAt(old, new, from, i, k) ==
  /\ from[k] = i /\ new[k] = old[i]
  /\ \A l \in 1..Len(new) : /\ l < k <=> from[l] < i
                            /\ l > k <=> from[l] > i
                            /\ l = k <=> from[l] = i

LEMMA BoundKept ==
  ASSUME NEW old, NEW new, NEW from, Framed(old, new, from), Len(old) \in Nat, Len(new) \in Nat,
         NEW i \in 1..Len(old), Bounds(old[i])
  PROVE  \E k \in 1..Len(new) : KeptAt(old, new, from, i, k)
  <1>1. PICK k \in 1..Len(new) : /\ from[k] = i /\ new[k] = old[i]
                                 /\ \A l \in 1..Len(new) : from[l] = i => l = k
    BY DEF Framed
  <1>2. ASSUME NEW l \in 1..Len(new)
        PROVE  /\ l < k <=> from[l] < i
               /\ l > k <=> from[l] > i
               /\ l = k <=> from[l] = i
    <2>1. from[l] \in 1..Len(old)
      BY DEF Framed
    <2>2. l < k => from[l] <= i
      BY <1>1 DEF Framed
    <2>3. k < l => i <= from[l]
      BY <1>1 DEF Framed
    <2>4. from[l] = i => l = k
      BY <1>1
    <2>5. QED
      BY <1>1, <2>1, <2>2, <2>3, <2>4
  <1>3. KeptAt(old, new, from, i, k)
    BY <1>1, <1>2, Zenon DEF KeptAt
  <1>4. QED
    BY <1>3

(* Definitions still end. *)
LEMMA EndedKept ==
  ASSUME NEW old, NEW new, NEW from, Framed(old, new, from), Len(old) \in Nat, Len(new) \in Nat,
         Ended(old)
  PROVE  Ended(new)
  <1>1. SUFFICES ASSUME NEW d \in 1..Len(new), is_define_opcode(new[d])
                 PROVE  \E e \in (d + 1)..Len(new) :
                          /\ is_enddefine_opcode(new[e])
                          /\ \A k \in (d + 1)..e : ~is_define_opcode(new[k])
    BY DEF Ended
  <1> DEFINE i == from[d]
  <1>2. i \in 1..Len(old) /\ old[i] = new[d] /\ Bounds(old[i])
    BY <1>1 DEF Framed, Bounds
  <1> HIDE DEF i
  <1>3. PICK j \in (i + 1)..Len(old) : /\ is_enddefine_opcode(old[j])
                                       /\ \A k \in (i + 1)..j : ~is_define_opcode(old[k])
    BY <1>1, <1>2 DEF Ended
  <1>4. j \in 1..Len(old) /\ Bounds(old[j])
    BY <1>2, <1>3 DEF Bounds
  <1>5. PICK e \in 1..Len(new) :
          /\ from[e] = j /\ new[e] = old[j]
          /\ \A l \in 1..Len(new) : /\ l < e <=> from[l] < j
                                    /\ l > e <=> from[l] > j
                                    /\ l = e <=> from[l] = j
    <2>1. \E k0 \in 1..Len(new) : KeptAt(old, new, from, j, k0)
      BY <1>4, BoundKept, Zenon
    <2>2. QED
      BY <2>1, Zenon DEF KeptAt
  <1>6. PICK b \in 1..Len(new) :
          /\ from[b] = i /\ new[b] = old[i]
          /\ \A l \in 1..Len(new) : /\ l < b <=> from[l] < i
                                    /\ l > b <=> from[l] > i
                                    /\ l = b <=> from[l] = i
    <2>1. \E k0 \in 1..Len(new) : KeptAt(old, new, from, i, k0)
      BY <1>2, BoundKept, Zenon
    <2>2. QED
      BY <2>1, Zenon DEF KeptAt
  <1>7. b = d
    BY <1>1, <1>6 DEF i
  <1>8. e > d
    <2>1. from[e] > i
      BY <1>2, <1>3, <1>5
    <2>2. e > b
      BY <1>6, <2>1, Zenon
    <2>3. QED
      BY <1>7, <2>2, Zenon
  <1>9. e \in (d + 1)..Len(new) /\ is_enddefine_opcode(new[e])
    BY <1>3, <1>5, <1>8
  <1>10. ASSUME NEW k \in (d + 1)..e, is_define_opcode(new[k]) PROVE FALSE
    <2>1. k \in 1..Len(new) /\ k > d /\ ~(k > e)
      BY <1>1, <1>5, <1>10
    <2>2. from[k] \in 1..Len(old) /\ from[k] > i /\ ~(from[k] > j) /\ new[k] = old[from[k]]
      BY <1>5, <1>6, <1>7, <1>10, <2>1 DEF Framed, Bounds
    <2>3. from[k] \in (i + 1)..j
      <3> DEFINE q == from[k]
      <3>1. i \in Nat /\ j \in Nat /\ q \in Nat /\ q > i /\ ~(q > j)
        BY <1>2, <1>3, <2>2
      <3> HIDE DEF q
      <3>2. q \in (i + 1)..j
        BY ONLY <3>1
      <3>3. QED
        BY <3>2 DEF q
    <2>4. QED
      BY <1>3, <1>10, <2>2, <2>3
  <1>11. QED
    BY <1>9, <1>10

(* What was in a definition is still in one. *)
LEMMA InsideKept ==
  ASSUME NEW old, NEW new, NEW from, Framed(old, new, from), Len(old) \in Nat, Len(new) \in Nat,
         NEW k \in 1..Len(new), InDefinition(old, from[k])
  PROVE  InDefinition(new, k)
  <1> DEFINE i == from[k]
  <1>1. i \in 1..Len(old)
    BY DEF Framed
  <1>2. PICK d \in 1..i : /\ is_define_opcode(old[d])
                          /\ \A e \in d..(i - 1) : ~is_enddefine_opcode(old[e])
    BY DEF OpenAt, InDefinition
  <1> HIDE DEF i
  <1>3. d \in 1..Len(old) /\ Bounds(old[d]) /\ ~(i < d)
    BY <1>1, <1>2 DEF Bounds
  <1>4. PICK b \in 1..Len(new) :
          /\ from[b] = d /\ new[b] = old[d]
          /\ \A l \in 1..Len(new) : /\ l < b <=> from[l] < d
                                    /\ l > b <=> from[l] > d
                                    /\ l = b <=> from[l] = d
    <2>1. \E k0 \in 1..Len(new) : KeptAt(old, new, from, d, k0)
      BY <1>3, BoundKept, Zenon
    <2>2. QED
      BY <2>1, Zenon DEF KeptAt
  <1>5. b \in 1..k
    <2>1. ~(k < b)
      BY <1>3, <1>4 DEF i
    <2>2. QED
      BY <2>1
  <1>6. ASSUME NEW e \in b..(k - 1), is_enddefine_opcode(new[e]) PROVE FALSE
    <2>1. e \in 1..Len(new) /\ ~(e < b) /\ e < k
      BY <1>4, <1>6
    <2> DEFINE q == from[e]
    <2>2. q \in 1..Len(old) /\ new[e] = old[q] /\ Bounds(old[q]) /\ ~(q < d)
      BY <1>4, <1>6, <2>1 DEF Framed, Bounds
    <2> HIDE DEF q
    <2>3. PICK c \in 1..Len(new) :
            /\ from[c] = q /\ new[c] = old[q]
            /\ \A l \in 1..Len(new) : /\ l < c <=> from[l] < q
                                      /\ l > c <=> from[l] > q
                                      /\ l = c <=> from[l] = q
      <3>1. \E k0 \in 1..Len(new) : KeptAt(old, new, from, q, k0)
        BY <2>2, BoundKept, Zenon
      <3>2. QED
        BY <3>1, Zenon DEF KeptAt
    <2>4. c = e /\ from[k] > q
      BY <2>1, <2>3 DEF q
    <2>5. q \in d..(i - 1)
      BY <1>1, <1>3, <2>2, <2>4 DEF i
    <2>6. QED
      BY <1>2, <1>6, <2>2, <2>5
  <1>7. QED
    BY <1>3, <1>4, <1>5, <1>6, <1>2 DEF OpenAt, InDefinition

(* Where nothing began or ended between two opcodes, nothing does now. *)
LEMMA TogetherKept ==
  ASSUME NEW old, NEW new, NEW from, Framed(old, new, from), Len(old) \in Nat, Len(new) \in Nat,
         NEW k \in 1..Len(new), NEW l \in 1..Len(new), k <= l, Together(old, from[k], from[l])
  PROVE  Together(new, k, l)
  <1>1. ASSUME NEW m \in k..l, Bounds(new[m])
        PROVE  /\ m \in 1..Len(new) /\ new[m] = old[from[m]]
               /\ from[m] \in from[k]..from[l]
               /\ m > k => from[m] > from[k]
               /\ m < l => from[m] < from[l]
    <2>1. m \in 1..Len(new)
      OBVIOUS
    <2>2. from[m] \in 1..Len(old) /\ new[m] = old[from[m]] /\ Bounds(old[from[m]])
      BY <1>1, <2>1 DEF Framed
    <2>3. PICK c \in 1..Len(new) :
            /\ from[c] = from[m] /\ new[c] = old[from[m]]
            /\ \A n \in 1..Len(new) : /\ n < c <=> from[n] < from[m]
                                      /\ n > c <=> from[n] > from[m]
                                      /\ n = c <=> from[n] = from[m]
      <3>1. \E k0 \in 1..Len(new) : KeptAt(old, new, from, from[m], k0)
        BY <2>2, BoundKept, Zenon
      <3>2. QED
        BY <3>1, Zenon DEF KeptAt
    <2>4. c = m
      BY <2>1, <2>3
    <2>5. from[k] \in 1..Len(old) /\ from[l] \in 1..Len(old)
      BY DEF Framed
    <2>6. /\ k < m <=> from[k] < from[m]
          /\ k = m <=> from[k] = from[m]
          /\ l > m <=> from[l] > from[m]
          /\ l = m <=> from[l] = from[m]
      BY <2>3, <2>4
    <2>7. QED
      BY <2>1, <2>2, <2>5, <2>6
  <1>2. ASSUME NEW m \in k..l, m > k, is_define_opcode(new[m]) PROVE FALSE
    <2>1. /\ new[m] = old[from[m]] /\ from[m] \in from[k]..from[l] /\ from[m] > from[k]
      BY <1>1, <1>2 DEF Bounds
    <2>2. QED
      BY <1>2, <2>1 DEF Together
  <1>3. ASSUME NEW m \in k..l, m < l, is_enddefine_opcode(new[m]) PROVE FALSE
    <2>1. /\ new[m] = old[from[m]] /\ from[m] \in from[k]..from[l] /\ from[m] < from[l]
      BY <1>1, <1>3 DEF Bounds
    <2>2. QED
      BY <1>3, <2>1 DEF Together
  <1>4. QED
    BY <1>2, <1>3 DEF Together

(* What was in the same definition still is. *)
LEMMA AtKeptTogether ==
  ASSUME NEW old, NEW new, NEW from, Framed(old, new, from), Len(old) \in Nat, Len(new) \in Nat,
         NEW k \in 1..Len(new), NEW l \in 1..Len(new), InDefinition(old, from[k]),
         At(old, from[k]) = At(old, from[l])
  PROVE  At(new, k) = At(new, l)
  <1>1. ASSUME NEW m \in 1..Len(new), NEW n \in 1..Len(new), m <= n,
               InDefinition(old, from[m]), At(old, from[m]) = At(old, from[n])
        PROVE  At(new, m) = At(new, n)
    <2>1. from[m] \in Nat /\ from[n] \in Nat /\ from[m] <= from[n]
      BY <1>1 DEF Framed
    <2>2. Together(old, from[m], from[n])
      BY <1>1, <2>1, AtTogether
    <2>3. Together(new, m, n)
      BY <1>1, <2>2, TogetherKept
    <2>4. InDefinition(new, m)
      BY <1>1, InsideKept
    <2>5. m \in Nat /\ n \in Nat
      OBVIOUS
    <2>6. QED
      BY <1>1, <2>3, <2>4, <2>5, AtTogether
  <1>2. InDefinition(old, from[l])
    <2>1. from[k] \in Nat /\ from[l] \in Nat
      BY DEF Framed
    <2>2. QED
      BY <2>1, AtIs
  <1>3. k <= l \/ l <= k
    OBVIOUS
  <1>4. QED
    BY <1>1, <1>2, <1>3

-----------------------------------------------------------------------------
(* What the optimizer reads: what the parser writes, and no-ops. *)
AnyOpcode == OpcodeSet(Symbols) \cup {NoOpOpcode}

LEMMA ParserOpcodes ==
  ASSUME NEW s \in Seq(OpcodeSet(Symbols))
  PROVE  s \in Seq(AnyOpcode)
  <1>1. Len(s) \in Nat /\ s \in [1..Len(s) -> OpcodeSet(Symbols)]
    BY LenProperties
  <1>2. s \in [1..Len(s) -> AnyOpcode]
    BY <1>1 DEF AnyOpcode
  <1>3. QED
    BY <1>1, <1>2

(* Label l is placed at a position of the code. *)
Marks(code, j, l) == is_label_opcode(code[j]) /\ code[j].n = l

(* Code that is a program: no label is placed twice, every definition      *)
(* ends, all that is executable is in definitions, and a branch goes to a  *)
(* label of its own definition.                                            *)
Sound(code) ==
  /\ code \in Seq(AnyOpcode)
  /\ Placed(code) \subseteq Nat /\ Once(code) /\ Ended(code)
  /\ \A i \in 1..Len(code) : is_executable(code[i]) => InDefinition(code, i)
  /\ \A i \in 1..Len(code) : is_branching_opcode(code[i]) =>
       \E j \in 1..Len(code) : Marks(code, j, code[i].n) /\ At(code, i) = At(code, j)

(* What is executable. *)
LEMMA Executables ==
  ASSUME NEW o
  PROVE  /\ is_branching_opcode(o) => is_executable(o)
         /\ Bounds(o) => is_executable(o) /\ ~is_branching_opcode(o) /\ ~is_label_opcode(o)
         /\ is_call_opcode(o) => /\ is_executable(o) /\ ~is_branching_opcode(o)
                                 /\ ~is_label_opcode(o) /\ ~Bounds(o)
         /\ is_label_opcode(o) => ~is_branching_opcode(o) /\ ~is_executable(o)
         /\ is_jump_opcode(o) => is_branching_opcode(o)
  BY DEF is_executable, is_branching_opcode, is_label_opcode, is_noop_opcode, is_call_opcode,
     is_jump_opcode, is_define_opcode, is_enddefine_opcode, Bounds, BranchingOps

(* Rewritten code is sound again if what it executes stems from what was   *)
(* executable, and its branches find their labels where they were.         *)
LEMMA SoundAgain ==
  ASSUME NEW old, NEW new, NEW from, Sound(old), Framed(old, new, from),
         new \in Seq(AnyOpcode), Placed(new) \subseteq Nat, Once(new),
         \A k \in 1..Len(new) : is_executable(new[k]) => is_executable(old[from[k]]),
         \A k \in 1..Len(new) : is_branching_opcode(new[k]) =>
           \E l \in 1..Len(new) : /\ Marks(new, l, new[k].n)
                                  /\ At(old, from[k]) = At(old, from[l])
  PROVE  Sound(new)
  <1>1. Len(old) \in Nat /\ Len(new) \in Nat
    BY LenProperties DEF Sound
  <1>2. Ended(new)
    BY <1>1, EndedKept DEF Sound
  <1>3. ASSUME NEW k \in 1..Len(new), is_executable(new[k])
        PROVE  InDefinition(old, from[k]) /\ InDefinition(new, k)
    <2>1. from[k] \in 1..Len(old) /\ is_executable(old[from[k]])
      BY <1>3 DEF Framed
    <2>2. InDefinition(old, from[k])
      BY <2>1 DEF Sound
    <2>3. QED
      BY <1>1, <2>2, InsideKept
  <1>4. ASSUME NEW k \in 1..Len(new), is_branching_opcode(new[k])
        PROVE  \E j \in 1..Len(new) : Marks(new, j, new[k].n) /\ At(new, k) = At(new, j)
    <2>1. PICK l \in 1..Len(new) : /\ Marks(new, l, new[k].n)
                                   /\ At(old, from[k]) = At(old, from[l])
      BY <1>4
    <2>2. is_executable(new[k])
      BY <1>4, Executables
    <2>3. InDefinition(old, from[k])
      BY <1>3, <2>2
    <2>4. At(new, k) = At(new, l)
      BY <1>1, <2>1, <2>3, AtKeptTogether
    <2>5. QED
      BY <2>1, <2>4
  <1>5. QED
    BY <1>2, <1>3, <1>4 DEF Sound

(* Rewritten code whose labels and branches are old ones, and which has    *)
(* lost no label that a branch goes to.                                    *)
LEMMA SoundRewritten ==
  ASSUME NEW old, NEW new, NEW from, Sound(old), Framed(old, new, from),
         new \in Seq(AnyOpcode),
         \A k \in 1..Len(new) : is_executable(new[k]) => is_executable(old[from[k]]),
         \A k \in 1..Len(new) : is_branching_opcode(new[k]) => new[k] = old[from[k]],
         \A k \in 1..Len(new) : is_label_opcode(new[k]) =>
           new[k] = old[from[k]] /\ \A l \in 1..Len(new) : from[l] = from[k] => l = k,
         \A i \in 1..Len(old) : is_label_opcode(old[i]) =>
           \/ \E k \in 1..Len(new) : from[k] = i /\ new[k] = old[i]
           \/ \A k \in 1..Len(new) : ~(is_branching_opcode(new[k]) /\ new[k].n = old[i].n)
  PROVE  Sound(new)
  <1>1. /\ Len(old) \in Nat /\ Len(new) \in Nat
        /\ DOMAIN old = 1..Len(old) /\ DOMAIN new = 1..Len(new)
    BY LenProperties DEF Sound
  <1>2. ASSUME NEW k \in 1..Len(new), is_label_opcode(new[k])
        PROVE  /\ from[k] \in 1..Len(old) /\ is_label_opcode(old[from[k]])
               /\ old[from[k]].n = new[k].n
    <2>1. from[k] \in 1..Len(old) /\ new[k] = old[from[k]]
      BY <1>2 DEF Framed
    <2>2. QED
      BY <1>2, <2>1
  <1>3. Placed(new) \subseteq Nat
    <2>1. ASSUME NEW k \in 1..Len(new), is_label_opcode(new[k]) PROVE new[k].n \in Nat
      <3>1. old[from[k]].n \in Placed(old)
        BY <1>1, <1>2, <2>1 DEF Placed
      <3>2. QED
        BY <1>2, <2>1, <3>1 DEF Sound
    <2>2. QED
      BY <1>1, <2>1 DEF Placed
  <1>4. Once(new)
    <2>1. ASSUME NEW k \in 1..Len(new), NEW l \in 1..Len(new), is_label_opcode(new[k]),
                 is_label_opcode(new[l]), new[k].n = new[l].n
          PROVE  k = l
      <3>1. from[k] = from[l]
        <4> DEFINE i == from[k]
                   j == from[l]
        <4>1. /\ i \in DOMAIN old /\ is_label_opcode(old[i]) /\ old[i].n = new[k].n
              /\ j \in DOMAIN old /\ is_label_opcode(old[j]) /\ old[j].n = new[l].n
          BY <1>1, <1>2, <2>1
        <4> HIDE DEF i, j
        <4>2. i = j
          BY <2>1, <4>1 DEF Sound, Once
        <4>3. QED
          BY <4>2 DEF i, j
      <3>2. QED
        BY <2>1, <3>1
    <2>2. QED
      BY <1>1, <2>1 DEF Once
  <1>5. ASSUME NEW k \in 1..Len(new), is_branching_opcode(new[k])
        PROVE  \E l \in 1..Len(new) : /\ Marks(new, l, new[k].n)
                                      /\ At(old, from[k]) = At(old, from[l])
    <2> DEFINE i == from[k]
    <2>1. i \in 1..Len(old) /\ new[k] = old[i] /\ is_branching_opcode(old[i])
      BY <1>5 DEF Framed
    <2> HIDE DEF i
    <2>2. PICK j \in 1..Len(old) : Marks(old, j, old[i].n) /\ At(old, i) = At(old, j)
      BY <2>1 DEF Sound
    <2>3. is_label_opcode(old[j]) /\ old[j].n = new[k].n
      BY <2>1, <2>2 DEF Marks
    <2>4. PICK l \in 1..Len(new) : from[l] = j /\ new[l] = old[j]
      BY <1>5, <2>3
    <2>5. QED
      BY <2>2, <2>3, <2>4 DEF Marks, i
  <1>6. QED
    BY <1>3, <1>4, <1>5, SoundAgain

-----------------------------------------------------------------------------
(* The passes that replace opcodes where they are. *)

(* An opcode may be kept, or become one that neither bounds a definition,  *)
(* nor is a label or a branch; bounds and labels in use must be kept.      *)
LEMMA SoundInPlace ==
  ASSUME NEW old, NEW new, Sound(old), new \in Seq(AnyOpcode), Len(new) = Len(old),
         \A i \in 1..Len(old) :
           \/ new[i] = old[i]
           \/ /\ ~Bounds(old[i]) /\ ~Bounds(new[i])
              /\ ~is_branching_opcode(new[i]) /\ ~is_label_opcode(new[i])
              /\ is_executable(new[i]) => is_executable(old[i])
              /\ is_label_opcode(old[i]) => \A k \in 1..Len(new) :
                   ~(is_branching_opcode(new[k]) /\ new[k].n = old[i].n)
  PROVE  Sound(new)
  <1> DEFINE n == Len(old)
             from == [k \in 1..n |-> k]
  <1>1. n \in Nat /\ \A k \in 1..n : from[k] = k
    BY LenProperties DEF Sound
  <1> HIDE DEF from
  <1>2. Framed(old, new, from)
    <2>1. \A k \in 1..n : from[k] \in 1..n
      BY <1>1
    <2>2. \A k, l \in 1..n : k < l => from[k] <= from[l]
      BY <1>1
    <2>3. \A k \in 1..n : Bounds(new[k]) => new[k] = old[from[k]]
      BY <1>1
    <2>4. ASSUME NEW i \in 1..n, Bounds(old[i])
          PROVE  \E k \in 1..n : /\ from[k] = i /\ new[k] = old[i]
                                 /\ \A l \in 1..n : from[l] = i => l = k
      <3>1. from[i] = i /\ new[i] = old[i] /\ \A l \in 1..n : from[l] = i => l = i
        BY <1>1, <2>4
      <3>2. QED
        BY <3>1
    <2>5. QED
      BY <2>1, <2>2, <2>3, <2>4 DEF Framed
  <1>3. \A k \in 1..n : is_executable(new[k]) => is_executable(old[from[k]])
    BY <1>1
  <1>4. \A k \in 1..n : is_branching_opcode(new[k]) => new[k] = old[from[k]]
    BY <1>1
  <1>5. \A k \in 1..n : is_label_opcode(new[k]) =>
          new[k] = old[from[k]] /\ \A l \in 1..n : from[l] = from[k] => l = k
    BY <1>1
  <1>6. \A i \in 1..n : is_label_opcode(old[i]) =>
           \/ \E k \in 1..n : from[k] = i /\ new[k] = old[i]
           \/ \A k \in 1..n : ~(is_branching_opcode(new[k]) /\ new[k].n = old[i].n)
    <2>1. ASSUME NEW i \in 1..n, is_label_opcode(old[i])
          PROVE  \/ \E k \in 1..n : from[k] = i /\ new[k] = old[i]
                 \/ \A k \in 1..n : ~(is_branching_opcode(new[k]) /\ new[k].n = old[i].n)
      <3>1. CASE new[i] = old[i]
        BY <1>1, <3>1
      <3>2. CASE new[i] # old[i]
        BY <2>1, <3>2
      <3>3. QED
        BY <3>1, <3>2
    <2>2. QED
      BY <2>1
  <1>7. QED
    BY <1>2, <1>3, <1>4, <1>5, <1>6, SoundRewritten

(* A no-op is an opcode without a role. *)
LEMMA NoOp ==
  ASSUME ParserAssumption
  PROVE  /\ NoOpOpcode \in AnyOpcode /\ is_noop_opcode(NoOpOpcode)
         /\ ~Bounds(NoOpOpcode) /\ ~is_executable(NoOpOpcode)
         /\ ~is_branching_opcode(NoOpOpcode) /\ ~is_label_opcode(NoOpOpcode)
  BY DEF AnyOpcode, NoOpOpcode, Plain, Opcode, BranchingOps, Bounds, is_executable,
     is_noop_opcode, is_branching_opcode, is_label_opcode, is_define_opcode,
     is_enddefine_opcode

(* Opcodes that do not bound a definition, and labels that no branch goes  *)
(* to, may become no-ops.                                                  *)
LEMMA SoundWithNops ==
  ASSUME ParserAssumption, NEW code, Sound(code), NEW T,
         \A i \in 1..Len(code) : i \in T =>
           ~Bounds(code[i]) /\ (is_label_opcode(code[i]) => code[i].n \notin Referred(code))
  PROVE  Sound(replace_with_nop(code, T))
  <1> DEFINE n == Len(code)
             new == replace_with_nop(code, T)
  <1>1. /\ n \in Nat /\ DOMAIN code = 1..n
        /\ \A i \in 1..n : code[i] \in AnyOpcode
    BY LenProperties, ElementOfSeq DEF Sound
  <1>2. new = [i \in 1..n |-> IF i \in T THEN NoOpOpcode ELSE code[i]]
    BY <1>1 DEF replace_with_nop
  <1>3. \A i \in 1..n : new[i] = IF i \in T THEN NoOpOpcode ELSE code[i]
    BY <1>2
  <1>4. new \in Seq(AnyOpcode) /\ Len(new) = n
    <2>1. \A i \in 1..n : (IF i \in T THEN NoOpOpcode ELSE code[i]) \in AnyOpcode
      BY <1>1, NoOp
    <2>2. new \in [1..n -> AnyOpcode]
      BY <1>2, <2>1
    <2> HIDE DEF new
    <2>3. QED
      BY <1>1, <2>2
  <1> HIDE DEF new
  <1>5. ASSUME NEW i \in 1..n, i \in T, is_label_opcode(code[i]), NEW k \in 1..n,
               is_branching_opcode(new[k])
        PROVE  new[k].n # code[i].n
    <2>1. new[k] = code[k]
      BY <1>3, <1>5, NoOp
    <2>2. code[k].n \in Referred(code)
      BY <1>1, <1>5, <2>1 DEF Referred
    <2>3. QED
      BY <1>5, <2>1, <2>2
  <1>6. ASSUME NEW i \in 1..n
        PROVE  \/ new[i] = code[i]
               \/ /\ ~Bounds(code[i]) /\ ~Bounds(new[i])
                  /\ ~is_branching_opcode(new[i]) /\ ~is_label_opcode(new[i])
                  /\ is_executable(new[i]) => is_executable(code[i])
                  /\ is_label_opcode(code[i]) => \A k \in 1..Len(new) :
                       ~(is_branching_opcode(new[k]) /\ new[k].n = code[i].n)
    <2>1. CASE i \notin T
      BY <1>3, <2>1
    <2>2. CASE i \in T
      <3>1. new[i] = NoOpOpcode
        BY <1>3, <2>2
      <3>2. ~Bounds(code[i])
        BY <2>2
      <3>3. is_label_opcode(code[i]) => \A k \in 1..Len(new) :
                       ~(is_branching_opcode(new[k]) /\ new[k].n = code[i].n)
        BY <1>4, <1>5, <2>2
      <3>4. QED
        BY <3>1, <3>2, <3>3, NoOp
    <2>3. QED
      BY <2>1, <2>2
  <1>7. Sound(new)
    BY <1>4, <1>6, SoundInPlace
  <1>8. QED
    BY <1>7 DEF new

(* Code after a jump, up to a label or an end-define opcode, ends no       *)
(* definition and begins none, since the jump is in a definition.          *)
LEMMA remove_unreachable_codeSound ==
  ASSUME ParserAssumption, NEW code, Sound(code)
  PROVE  Sound(remove_unreachable_code(code))
  <1> DEFINE T == {i \in DOMAIN code :
                \E j \in 1..(i - 1) : /\ is_jump_opcode(code[j])
                                      /\ \A k \in (j + 1)..i : /\ ~is_label_opcode(code[k])
                                                               /\ ~is_enddefine_opcode(code[k])}
             n == Len(code)
  <1>1. n \in Nat /\ DOMAIN code = 1..n
    BY LenProperties DEF Sound
  <1>2. ASSUME NEW i \in 1..n, i \in T PROVE ~Bounds(code[i]) /\ ~is_label_opcode(code[i])
    <2>1. PICK j \in 1..(i - 1) : /\ is_jump_opcode(code[j])
                                  /\ \A k \in (j + 1)..i : /\ ~is_label_opcode(code[k])
                                                           /\ ~is_enddefine_opcode(code[k])
      BY <1>2
    <2>2. j \in 1..n /\ i \in (j + 1)..i /\ j \in Nat
      BY <1>1, <2>1
    <2>3. InDefinition(code, j)
      BY <2>1, <2>2, Executables DEF Sound
    <2>4. PICK d \in 1..j : /\ is_define_opcode(code[d])
                            /\ \A e \in d..(j - 1) : ~is_enddefine_opcode(code[e])
      BY <2>3 DEF InDefinition, OpenAt
    <2>5. PICK e \in (d + 1)..n : /\ is_enddefine_opcode(code[e])
                                  /\ \A k \in (d + 1)..e : ~is_define_opcode(code[k])
      <3>1. d \in 1..n
        BY <2>2, <2>4
      <3>2. QED
        BY <2>4, <3>1 DEF Sound, Ended
    <2>6. e # j
      BY <2>1, <2>5, Executables DEF Bounds
    <2>7. ~(e < j)
      <3>1. e < j => e \in d..(j - 1)
        BY <1>1, <2>2, <2>4, <2>5
      <3>2. QED
        BY <2>4, <2>5, <3>1
    <2>8. ~(e <= i)
      <3>1. e <= i => e \in (j + 1)..i
        BY <1>1, <2>2, <2>4, <2>5, <2>6, <2>7
      <3>2. QED
        BY <2>1, <2>5, <3>1
    <2>9. i \in (d + 1)..e
      BY <1>1, <1>2, <2>2, <2>4, <2>5, <2>8
    <2>10. QED
      BY <2>1, <2>2, <2>5, <2>9 DEF Bounds
  <1> HIDE DEF T
  <1>3. Sound(replace_with_nop(code, T))
    BY <1>2, SoundWithNops
  <1>4. QED
    BY <1>3 DEF T, remove_unreachable_code

LEMMA remove_unnecessary_jumpsSound ==
  ASSUME ParserAssumption, NEW code, Sound(code)
  PROVE  Sound(remove_unnecessary_jumps(code))
  <1> DEFINE T == {i \in DOMAIN code : Needless(code[i], NextReal(code, i))}
  <1>1. \A i \in 1..Len(code) : i \in T => ~Bounds(code[i]) /\ ~is_label_opcode(code[i])
    BY Executables DEF Needless
  <1> HIDE DEF T
  <1>2. Sound(replace_with_nop(code, T))
    BY <1>1, SoundWithNops
  <1>3. QED
    BY <1>2 DEF T, remove_unnecessary_jumps

LEMMA remove_useless_callsSound ==
  ASSUME ParserAssumption, NEW code, Sound(code)
  PROVE  Sound(remove_useless_calls(code))
  <1> DEFINE empty_functions == {s \in DefinedSymbols(code) : Empty(code, s)}
             T == {i \in DOMAIN code : is_call_opcode(code[i]) /\ code[i].s \in empty_functions}
  <1> HIDE DEF empty_functions
  <1>1. \A i \in 1..Len(code) : i \in T => ~Bounds(code[i]) /\ ~is_label_opcode(code[i])
    BY Executables
  <1> HIDE DEF T
  <1>2. Sound(replace_with_nop(code, T))
    BY <1>1, SoundWithNops
  <1>3. QED
    BY <1>2 DEF T, empty_functions, remove_useless_calls

LEMMA remove_unnecessary_labelsSound ==
  ASSUME ParserAssumption, NEW code, Sound(code)
  PROVE  Sound(remove_unnecessary_labels(code))
  <1> DEFINE used == used_labels(code)
             T == {i \in DOMAIN code : is_label_opcode(code[i]) /\ code[i].n \notin used}
  <1>1. used = Referred(code)
    BY DEF used_labels
  <1> HIDE DEF used
  <1>2. \A i \in 1..Len(code) : i \in T =>
          ~Bounds(code[i]) /\ (is_label_opcode(code[i]) => code[i].n \notin Referred(code))
    BY <1>1, Executables
  <1> HIDE DEF T
  <1>3. Sound(replace_with_nop(code, T))
    BY <1>2, SoundWithNops
  <1>4. QED
    BY <1>3 DEF T, used, remove_unnecessary_labels

(* What NextReal finds: the opcode behind nothing but no-ops, or no opcode. *)
LEMMA NextRealIs ==
  ASSUME NEW S, NEW code \in Seq(S), NEW i \in Nat
  PROVE  \/ /\ NextReal(code, i) = NoOpOpcode
            /\ \A k \in (i + 1)..Len(code) : is_noop_opcode(code[k])
         \/ \E j \in (i + 1)..Len(code) :
              /\ NextReal(code, i) = code[j] /\ ~is_noop_opcode(code[j])
              /\ \A k \in (i + 1)..(j - 1) : is_noop_opcode(code[k])
  <1> DEFINE after == {j \in (i + 1)..Len(code) : ~is_noop_opcode(code[j])}
  <1>1. Len(code) \in Nat /\ after \in SUBSET (1..Len(code))
    BY LenProperties
  <1>2. NextReal(code, i) = IF after = {} THEN NoOpOpcode ELSE code[Min(after)]
    BY DEF NextReal
  <1>3. CASE after = {}
    BY <1>2, <1>3
  <1>4. CASE after # {}
    <2> DEFINE j == Min(after)
    <2>1. j \in after /\ \A y \in after : j <= y
      <3> HIDE DEF after
      <3>1. QED
        BY <1>1, <1>4, Extremes
    <2>2. NextReal(code, i) = code[j]
      BY <1>2, <1>4
    <2> HIDE DEF j
    <2>3. ASSUME NEW k \in (i + 1)..(j - 1) PROVE is_noop_opcode(code[k])
      <3>1. k \in (i + 1)..Len(code) /\ ~(j <= k)
        BY <1>1, <2>1
      <3>2. k \notin after
        BY <2>1, <3>1
      <3>3. QED
        BY <3>1, <3>2
    <2>4. QED
      BY <2>1, <2>2, <2>3
  <1>5. QED
    BY <1>3, <1>4

(* And so what it does find, when that is known. *)
LEMMA NextRealAt ==
  ASSUME NEW S, NEW code \in Seq(S), NEW i \in Nat, NEW j \in (i + 1)..Len(code),
         ~is_noop_opcode(code[j]), \A k \in (i + 1)..(j - 1) : is_noop_opcode(code[k])
  PROVE  NextReal(code, i) = code[j]
  <1>0. Len(code) \in Nat
    BY LenProperties
  <1>1. CASE \A k \in (i + 1)..Len(code) : is_noop_opcode(code[k])
    BY <1>1
  <1>2. CASE \E l \in (i + 1)..Len(code) :
               /\ NextReal(code, i) = code[l] /\ ~is_noop_opcode(code[l])
               /\ \A k \in (i + 1)..(l - 1) : is_noop_opcode(code[k])
    <2>1. PICK l \in (i + 1)..Len(code) :
            /\ NextReal(code, i) = code[l] /\ ~is_noop_opcode(code[l])
            /\ \A k \in (i + 1)..(l - 1) : is_noop_opcode(code[k])
      BY <1>2
    <2>2. l < j => l \in (i + 1)..(j - 1)
      BY <1>0
    <2>3. j < l => j \in (i + 1)..(l - 1)
      BY <1>0
    <2>4. ~(l < j) /\ ~(j < l)
      BY <2>1, <2>2, <2>3
    <2>5. l = j
      BY <1>0, <2>4
    <2>6. QED
      BY <2>1, <2>5
  <1>3. QED
    BY <1>1, <1>2, NextRealIs

(* Either way it is an opcode. *)
LEMMA NextRealTyped ==
  ASSUME ParserAssumption, NEW code \in Seq(AnyOpcode), NEW i \in Nat
  PROVE  NextReal(code, i) \in AnyOpcode
  <1>1. Len(code) \in Nat /\ \A j \in 1..Len(code) : code[j] \in AnyOpcode
    BY LenProperties, ElementOfSeq
  <1>2. \A j \in (i + 1)..Len(code) : j \in 1..Len(code)
    BY <1>1
  <1>3. QED
    BY <1>1, <1>2, NextRealIs, NoOp

(* Pushes and pops turn into moves between registers or into nothing. *)
LEMMA replace_adjacent_push_pop_pairsSound ==
  ASSUME ParserAssumption, NEW code, Sound(code)
  PROVE  Sound(replace_adjacent_push_pop_pairs(code))
  <1> DEFINE n         == Len(code)
             paired(i) == Pair(code[i], NextReal(code, i))
             popped(i) == \E j \in 1..(i - 1) :
                            /\ paired(j) /\ ~is_noop_opcode(code[i])
                            /\ \A k \in (j + 1)..(i - 1) : is_noop_opcode(code[k])
             move(i)   == LET pop == NextReal(code, i)
                          IN IF pop.r = code[i].r THEN NoOpOpcode
                             ELSE LoadRegisterOpcode(pop.r, code[i].r)
             placed(i) == IF paired(i) THEN move(i)
                          ELSE IF popped(i) THEN NoOpOpcode ELSE code[i]
             new       == replace_adjacent_push_pop_pairs(code)
  <1>1. /\ n \in Nat /\ DOMAIN code = 1..n /\ code \in Seq(AnyOpcode)
        /\ \A i \in 1..n : code[i] \in AnyOpcode
    BY LenProperties, ElementOfSeq DEF Sound
  <1>2. new = [i \in 1..n |-> placed(i)]
    BY <1>1 DEF replace_adjacent_push_pop_pairs
  <1>3. ASSUME NEW i \in 1..n, paired(i)
        PROVE  /\ is_push_opcode(code[i]) /\ is_pop_opcode(NextReal(code, i))
               /\ move(i) \in AnyOpcode
               /\ ~Bounds(move(i)) /\ ~is_branching_opcode(move(i)) /\ ~is_label_opcode(move(i))
    <2>1. is_push_opcode(code[i]) /\ is_pop_opcode(NextReal(code, i))
      BY <1>3 DEF Pair
    <2>2. NextReal(code, i) \in AnyOpcode /\ code[i] \in AnyOpcode
      BY <1>1, NextRealTyped
    <2>3. \A r, q \in {"R0", "R1", "-"} :
            LET o == LoadRegisterOpcode(r, q)
            IN /\ o \in AnyOpcode
               /\ ~Bounds(o) /\ ~is_branching_opcode(o) /\ ~is_label_opcode(o)
      BY DEF LoadRegisterOpcode, Opcode, AnyOpcode, OpcodeSet, OtherOps, BranchingOps, Bounds,
         is_branching_opcode, is_label_opcode, is_define_opcode, is_enddefine_opcode
    <2>4. NextReal(code, i).r \in {"R0", "R1", "-"} /\ code[i].r \in {"R0", "R1", "-"}
      BY <2>2 DEF AnyOpcode, OpcodeSet, NoOpOpcode, Plain, Opcode
    <2>5. QED
      BY <2>1, <2>3, <2>4, NoOp
  <1>4. ASSUME NEW i \in 1..n, popped(i) PROVE is_pop_opcode(code[i])
    <2>1. PICK j \in 1..(i - 1) :
                  /\ paired(j) /\ ~is_noop_opcode(code[i])
                  /\ \A k \in (j + 1)..(i - 1) : is_noop_opcode(code[k])
      BY <1>4
    <2>2. j \in Nat /\ i \in (j + 1)..n
      BY <1>1, <2>1
    <2>3. NextReal(code, j) = code[i]
      BY <1>1, <2>1, <2>2, NextRealAt
    <2>4. QED
      BY <2>1, <2>3 DEF Pair
  <1>5. \A o : is_push_opcode(o) \/ is_pop_opcode(o) =>
          ~Bounds(o) /\ ~is_label_opcode(o) /\ is_executable(o)
    BY DEF is_push_opcode, is_pop_opcode, Bounds, is_label_opcode, is_executable,
       is_noop_opcode, is_define_opcode, is_enddefine_opcode
  <1> HIDE DEF paired, popped, move
  <1>6. ASSUME NEW i \in 1..n
        PROVE  /\ placed(i) \in AnyOpcode
               /\ \/ placed(i) = code[i]
                  \/ /\ ~Bounds(code[i]) /\ ~Bounds(placed(i)) /\ ~is_label_opcode(code[i])
                     /\ ~is_branching_opcode(placed(i)) /\ ~is_label_opcode(placed(i))
                     /\ is_executable(code[i])
    <2>1. CASE paired(i)
      BY <1>3, <1>5, <2>1
    <2>2. CASE ~paired(i) /\ popped(i)
      BY <1>4, <1>5, <2>2, NoOp
    <2>3. CASE ~paired(i) /\ ~popped(i)
      BY <1>1, <2>3
    <2>4. QED
      BY <2>1, <2>2, <2>3
  <1> HIDE DEF placed, new
  <1>7. new \in Seq(AnyOpcode) /\ Len(new) = n /\ \A i \in 1..n : new[i] = placed(i)
    <2>1. new \in [1..n -> AnyOpcode]
      BY <1>2, <1>6
    <2>2. QED
      BY <1>1, <1>2, <2>1
  <1>8. Sound(new)
    BY <1>6, <1>7, SoundInPlace
  <1>9. QED
    BY <1>8 DEF new

-----------------------------------------------------------------------------
(* The passes that put sequences in the place of opcodes. *)

(* Opcode o, and nothing else, stems from position i. *)
Stems(flat, from, i, o) ==
  /\ \E k \in 1..Len(flat) : /\ from[k] = i /\ flat[k] = o
                             /\ \A l \in 1..Len(flat) : from[l] = i => l = k
  /\ \A k \in 1..Len(flat) : from[k] = i => flat[k] = o

(* An opcode that takes the place of its own is there once. *)
LEMMA SingleKept ==
  ASSUME NEW S, NEW parts \in Seq(Seq(S)), NEW flat, NEW from, NEW at,
         Origins(parts, Len(parts), flat, from, at), NEW o, NEW i \in 1..Len(parts),
         parts[i] = <<o>>
  PROVE  Stems(flat, from, i, o)
  <1>1. DOMAIN parts[i] = 1..1 /\ parts[i][1] = o
    OBVIOUS
  <1>o. /\ \A k \in 1..Len(flat) : /\ from[k] \in 1..Len(parts) /\ at[k] \in DOMAIN parts[from[k]]
                                  /\ flat[k] = parts[from[k]][at[k]]
        /\ \A k, l \in 1..Len(flat) : k < l =>
             from[k] < from[l] \/ (from[k] = from[l] /\ at[k] < at[l])
        /\ \A m \in 1..Len(parts) : \A j \in DOMAIN parts[m] :
             \E k \in 1..Len(flat) : from[k] = m /\ at[k] = j
    BY Zenon DEF Origins
  <1>2. ASSUME NEW k \in 1..Len(flat), from[k] = i PROVE at[k] = 1 /\ flat[k] = o
    <2>1. at[k] \in DOMAIN parts[i] /\ flat[k] = parts[i][at[k]]
      BY <1>o, <1>2, Zenon
    <2>2. at[k] \in 1..1
      BY <1>1, <2>1, Zenon
    <2>3. at[k] = 1
      BY <2>2
    <2>4. QED
      BY <1>1, <2>1, <2>3, Zenon
  <1>3. PICK k \in 1..Len(flat) : from[k] = i /\ at[k] = 1
    <2>1. 1 \in 1..1
      OBVIOUS
    <2>2. 1 \in DOMAIN parts[i]
      BY <1>1, <2>1, Zenon
    <2>3. QED
      BY <1>o, <2>2, Zenon
  <1>4. ASSUME NEW l \in 1..Len(flat), from[l] = i PROVE l = k
    <2>1. at[l] = 1 /\ at[k] = 1 /\ ~(1 < 1) /\ ~(i < i)
      BY <1>2, <1>3, <1>4
    <2>2. ASSUME l < k PROVE FALSE
      <3>1. from[l] < from[k] \/ (from[l] = from[k] /\ at[l] < at[k])
        BY <1>o, <2>2, Zenon
      <3>2. i < i \/ 1 < 1
        BY <1>3, <1>4, <2>1, <3>1, Zenon
      <3>3. QED
        BY <2>1, <3>2
    <2>3. ASSUME k < l PROVE FALSE
      <3>1. from[k] < from[l] \/ (from[k] = from[l] /\ at[k] < at[l])
        BY <1>o, <2>3, Zenon
      <3>2. i < i \/ 1 < 1
        BY <1>3, <1>4, <2>1, <3>1, Zenon
      <3>3. QED
        BY <2>1, <3>2
    <2>4. QED
      BY <2>2, <2>3
  <1>5. QED
    BY <1>2, <1>3, <1>4 DEF Stems

(* Splicing keeps the frame if what bounds definitions takes its own place *)
(* and nothing else does.                                                  *)
LEMMA SplicesFramed ==
  ASSUME NEW S, NEW code \in Seq(S), NEW parts \in Seq(Seq(S)), Len(parts) = Len(code),
         \A i \in 1..Len(code) : Bounds(code[i]) => parts[i] = <<code[i]>>,
         \A i \in 1..Len(code) : \A j \in DOMAIN parts[i] :
           Bounds(parts[i][j]) => Bounds(code[i]),
         NEW flat, NEW from, NEW at, Origins(parts, Len(parts), flat, from, at)
  PROVE  Framed(code, flat, from)
  <1>o. /\ \A k \in 1..Len(flat) : /\ from[k] \in 1..Len(parts) /\ at[k] \in DOMAIN parts[from[k]]
                                  /\ flat[k] = parts[from[k]][at[k]]
        /\ \A k, l \in 1..Len(flat) : k < l =>
             from[k] < from[l] \/ (from[k] = from[l] /\ at[k] < at[l])
    BY Zenon DEF Origins
  <1>1. \A k \in 1..Len(flat) : from[k] \in 1..Len(code)
    BY <1>o
  <1>n. Len(code) \in Nat
    BY LenProperties
  <1>2. \A k, l \in 1..Len(flat) : k < l => from[k] <= from[l]
    <2>1. ASSUME NEW k \in 1..Len(flat), NEW l \in 1..Len(flat), k < l PROVE from[k] <= from[l]
      <3> DEFINE x == from[k]
                 y == from[l]
                 n == Len(code)
      <3>1. x < y \/ x = y
        BY <1>o, <2>1
      <3>2. x \in 1..n /\ y \in 1..n /\ n \in Nat
        BY <1>1, <1>n
      <3> HIDE DEF x, y, n
      <3>3. x <= y
        BY <3>1, <3>2
      <3>4. QED
        BY <3>3 DEF x, y
    <2>2. QED
      BY <2>1
  <1>3. ASSUME NEW k \in 1..Len(flat), Bounds(flat[k]) PROVE flat[k] = code[from[k]]
    <2> DEFINE i == from[k]
    <2>1. /\ i \in 1..Len(code) /\ i \in 1..Len(parts)
          /\ at[k] \in DOMAIN parts[i] /\ flat[k] = parts[i][at[k]]
      BY <1>1, <1>o
    <2>2. parts[i] = <<code[i]>>
      BY <1>3, <2>1
    <2>3. from[k] = i
      OBVIOUS
    <2> DEFINE o == code[i]
    <2> HIDE DEF i
    <2>4. i \in 1..Len(parts) /\ parts[i] = <<o>>
      BY <2>1, <2>2
    <2> HIDE DEF o
    <2>5. Stems(flat, from, i, o)
      BY <2>4, SingleKept
    <2>6. QED
      BY <2>3, <2>5, Zenon DEF o, Stems
  <1>4. ASSUME NEW i \in 1..Len(code), Bounds(code[i])
        PROVE  \E k \in 1..Len(flat) : /\ from[k] = i /\ flat[k] = code[i]
                                       /\ \A l \in 1..Len(flat) : from[l] = i => l = k
    <2> DEFINE o == code[i]
    <2>1. i \in 1..Len(parts)
      OBVIOUS
    <2>a. parts[i] = <<o>>
      BY <1>4
    <2>b. Origins(parts, Len(parts), flat, from, at)
      OBVIOUS
    <2> HIDE DEF o
    <2>2. Stems(flat, from, i, o)
      BY <2>1, <2>a, <2>b, SingleKept
    <2>3. QED
      BY <2>2 DEF o, Stems
  <1>5. QED
    BY <1>1, <1>2, <1>3, <1>4 DEF Framed

(* The opcodes at some positions of the code, in their order: position k   *)
(* of the selection is position from[k] of the code.                       *)
Selected(code, T, flat, from) ==
  /\ \A k \in 1..Len(flat) :
       from[k] \in 1..Len(code) /\ from[k] \in T /\ flat[k] = code[from[k]]
  /\ \A k, l \in 1..Len(flat) : k < l => from[k] < from[l]
  /\ \A i \in 1..Len(code) : i \in T => \E k \in 1..Len(flat) : from[k] = i
LEMMA PartIs ==
  ASSUME NEW S, NEW code \in Seq(S), NEW T
  PROVE  /\ Part(code, T) \in Seq(S)
         /\ \E from : Selected(code, T, Part(code, T), from)
  <1> DEFINE n     == Len(code)
             parts == [i \in DOMAIN code |-> IF i \in T THEN <<code[i]>> ELSE <<>>]
             flat  == FlattenSeq(parts)
  <1>1. n \in Nat /\ DOMAIN code = 1..n /\ \A i \in 1..n : code[i] \in S
    BY LenProperties, ElementOfSeq
  <1>2. /\ parts \in Seq(Seq(S)) /\ Len(parts) = n
        /\ \A i \in 1..n : parts[i] = IF i \in T THEN <<code[i]>> ELSE <<>>
    <2>1. \A i \in 1..n : (IF i \in T THEN <<code[i]>> ELSE <<>>) \in Seq(S)
      BY <1>1
    <2>2. parts \in [1..n -> Seq(S)]
      BY <1>1, <2>1
    <2>3. parts \in Seq(Seq(S)) /\ Len(parts) = n
      <3> HIDE DEF parts
      <3>1. QED
        BY <1>1, <2>2
    <2>4. QED
      BY <1>1, <2>3
  <1>3. Part(code, T) = flat
    BY DEF Part
  <1> HIDE DEF parts
  <1>4. flat \in Seq(S) /\ \E from, at : Origins(parts, n, flat, from, at)
    BY <1>2, Flattened
  <1>5. PICK from, at : Origins(parts, n, flat, from, at)
    BY <1>4
  <1> HIDE DEF flat, n
  <1>6. ASSUME NEW k \in 1..Len(flat)
        PROVE  /\ from[k] \in 1..n /\ from[k] \in T /\ at[k] = 1 /\ flat[k] = code[from[k]]
    <2> DEFINE i == from[k]
    <2>1. i \in 1..n /\ at[k] \in DOMAIN parts[i] /\ flat[k] = parts[i][at[k]]
      BY <1>5 DEF Origins
    <2> HIDE DEF i
    <2>2. i \in T
      <3>1. CASE i \notin T
        <4>1. parts[i] = <<>>
          BY <1>2, <2>1, <3>1
        <4>2. at[k] \in DOMAIN <<>>
          BY <2>1, <4>1
        <4>3. QED
          BY <4>2
      <3>2. QED
        BY <3>1
    <2>3. parts[i] = <<code[i]>>
      BY <1>2, <2>1, <2>2
    <2>4. at[k] = 1
      BY <2>1, <2>3
    <2>5. QED
      BY <2>1, <2>2, <2>3, <2>4 DEF i
  <1>7. ASSUME NEW k \in 1..Len(flat), NEW l \in 1..Len(flat), k < l PROVE from[k] < from[l]
    <2>1. at[k] = 1 /\ at[l] = 1 /\ ~(1 < 1)
      BY <1>6
    <2>2. QED
      BY <1>5, <1>7, <2>1 DEF Origins
  <1>8. ASSUME NEW i \in 1..n, i \in T PROVE \E k \in 1..Len(flat) : from[k] = i
    <2>1. parts[i] = <<code[i]>>
      BY <1>2, <1>8
    <2>2. 1 \in DOMAIN parts[i]
      BY <2>1
    <2>3. QED
      BY <1>5, <2>2 DEF Origins
  <1>9. Selected(code, T, flat, from)
    BY <1>6, <1>7, <1>8, Zenon DEF Selected, n
  <1>10. QED
    BY <1>3, <1>4, <1>9, Zenon DEF n


(* Code stays sound if nothing but calls is replaced, and that by opcodes  *)
(* that are no labels, no branches, and begin or end no definition.        *)
Spliceable(o) == ~Bounds(o) /\ ~is_branching_opcode(o) /\ ~is_label_opcode(o)
LEMMA SplicedSound ==
  ASSUME NEW code, Sound(code), NEW parts \in Seq(Seq(AnyOpcode)), Len(parts) = Len(code),
         \A i \in 1..Len(code) :
           \/ parts[i] = <<code[i]>>
           \/ is_call_opcode(code[i]) /\ \A j \in DOMAIN parts[i] : Spliceable(parts[i][j])
  PROVE  Sound(FlattenSeq(parts))
  <1> DEFINE flat == FlattenSeq(parts)
             n    == Len(code)
  <1>1. code \in Seq(AnyOpcode) /\ Len(code) \in Nat
    BY LenProperties DEF Sound
  <1>2. flat \in Seq(AnyOpcode) /\ \E from, at : Origins(parts, Len(parts), flat, from, at)
    BY Flattened
  <1> HIDE DEF flat
  <1>3. PICK from, at : Origins(parts, Len(parts), flat, from, at)
    BY <1>2
  <1>4. \A k \in 1..Len(flat) : /\ from[k] \in 1..Len(parts) /\ at[k] \in DOMAIN parts[from[k]]
                               /\ flat[k] = parts[from[k]][at[k]]
    BY <1>3, Zenon DEF Origins
  <1>5. ASSUME NEW i \in 1..Len(code), ~is_call_opcode(code[i])
        PROVE  /\ parts[i] = <<code[i]>>
               /\ \E k \in 1..Len(flat) : /\ from[k] = i /\ flat[k] = code[i]
                                          /\ \A l \in 1..Len(flat) : from[l] = i => l = k
               /\ \A k \in 1..Len(flat) : from[k] = i => flat[k] = code[i]
    <2> DEFINE o == code[i]
    <2>1. i \in 1..Len(parts)
      OBVIOUS
    <2>2. parts[i] = <<o>>
      BY <1>5
    <2>a. Origins(parts, Len(parts), flat, from, at) /\ parts \in Seq(Seq(AnyOpcode))
      BY <1>3
    <2> HIDE DEF o
    <2>3. Stems(flat, from, i, o)
      BY <2>a, <2>1, <2>2, SingleKept
    <2>4. QED
      BY <2>2, <2>3 DEF o, Stems
  <1>6. ASSUME NEW k \in 1..Len(flat)
        PROVE  /\ from[k] \in 1..n
               /\ \/ flat[k] = code[from[k]]
                  \/ is_call_opcode(code[from[k]]) /\ Spliceable(flat[k])
    <2> DEFINE i == from[k]
    <2>1. i \in 1..n /\ at[k] \in DOMAIN parts[i] /\ flat[k] = parts[i][at[k]]
      BY <1>4
    <2> HIDE DEF i
    <2>2. CASE parts[i] = <<code[i]>>
      <3>1. DOMAIN parts[i] = 1..1 /\ parts[i][1] = code[i]
        BY <2>2
      <3>2. at[k] \in 1..1
        BY <2>1, <3>1, Zenon
      <3>3. at[k] = 1
        BY <3>2
      <3>4. flat[k] = code[i]
        BY <2>1, <3>1, <3>3, Zenon
      <3>5. QED
        BY <2>1, <3>4 DEF i
    <2>3. CASE is_call_opcode(code[i]) /\ \A j \in DOMAIN parts[i] : Spliceable(parts[i][j])
      <3>1. Spliceable(flat[k])
        BY <2>1, <2>3, Zenon
      <3>2. QED
        BY <2>1, <2>3, <3>1 DEF i
    <2>4. QED
      BY <2>1, <2>2, <2>3 DEF n
  <1>7. Framed(code, flat, from)
    <2>1. \A i \in 1..Len(code) : Bounds(code[i]) => parts[i] = <<code[i]>>
      BY <1>5, Executables
    <2>2. ASSUME NEW i \in 1..Len(code), NEW j \in DOMAIN parts[i], Bounds(parts[i][j])
          PROVE  Bounds(code[i])
      <3>1. CASE parts[i] = <<code[i]>>
        <4>1. DOMAIN parts[i] = 1..1 /\ parts[i][1] = code[i]
          BY <3>1
        <4>2. j \in 1..1
          BY <4>1, Zenon
        <4>3. j = 1
          BY <4>2
        <4>4. QED
          BY <2>2, <4>1, <4>3, Zenon
      <3>2. CASE ~(parts[i] = <<code[i]>>)
        <4>1. Spliceable(parts[i][j])
          BY <3>2
        <4>2. QED
          BY <2>2, <4>1 DEF Spliceable
      <3>3. QED
        BY <3>1, <3>2
    <2>3. QED
      BY <1>1, <1>3, <2>1, <2>2, SplicesFramed
  <1>8. \A k \in 1..Len(flat) : is_executable(flat[k]) => is_executable(code[from[k]])
    BY <1>6, Executables
  <1>9. \A k \in 1..Len(flat) : is_branching_opcode(flat[k]) => flat[k] = code[from[k]]
    BY <1>6 DEF Spliceable
  <1>10. ASSUME NEW k \in 1..Len(flat), is_label_opcode(flat[k])
         PROVE  flat[k] = code[from[k]] /\ \A l \in 1..Len(flat) : from[l] = from[k] => l = k
    <2> DEFINE i == from[k]
    <2>1. i \in 1..Len(code) /\ flat[k] = code[i] /\ from[k] = i
      BY <1>6, <1>10 DEF Spliceable
    <2> HIDE DEF i
    <2>2. ~is_call_opcode(code[i])
      BY <1>10, <2>1, Executables
    <2>3. PICK m \in 1..Len(flat) : from[m] = i /\ \A l \in 1..Len(flat) : from[l] = i => l = m
      BY <1>5, <2>1, <2>2
    <2>4. m = k
      BY <2>1, <2>3
    <2>5. QED
      BY <2>1, <2>3, <2>4
  <1>11. \A i \in 1..Len(code) : is_label_opcode(code[i]) =>
           \E k \in 1..Len(flat) : from[k] = i /\ flat[k] = code[i]
    BY <1>5, Executables
  <1>12. Sound(flat)
    BY <1>2, <1>7, <1>8, <1>9, <1>10, <1>11, SoundRewritten
  <1>13. QED
    BY <1>12 DEF flat

(* TRUE and FALSE are spliced as two opcodes and a no-op. *)
LEMMA PushedFlagIs ==
  ASSUME ParserAssumption, NEW v \in {-1, 0}
  PROVE  PushedFlag(v) \in Seq(AnyOpcode) /\ \A j \in DOMAIN PushedFlag(v) : Spliceable(PushedFlag(v)[j])
  <1> DEFINE a == NoOpOpcode
             b == LoadValueOpcode("R0", v)
             c == PushOpcode("R0", "DATA")
  <1>1. a \in AnyOpcode /\ Spliceable(a)
    BY NoOp DEF Spliceable
  <1>2. b \in AnyOpcode /\ Spliceable(b)
    BY DEF LoadValueOpcode, Opcode, AnyOpcode, OpcodeSet, OtherOps, BranchingOps, Spliceable, Bounds,
       is_branching_opcode, is_label_opcode, is_define_opcode, is_enddefine_opcode
  <1>3. c \in AnyOpcode /\ Spliceable(c)
    BY DEF PushOpcode, Opcode, AnyOpcode, OpcodeSet, OtherOps, BranchingOps, Spliceable, Bounds,
       is_branching_opcode, is_label_opcode, is_define_opcode, is_enddefine_opcode
  <1>4. PushedFlag(v) = <<a, b, c>>
    BY DEF PushedFlag
  <1> HIDE DEF a, b, c
  <1>5. DOMAIN <<a, b, c>> = 1..3
    OBVIOUS
  <1>6. \A j \in 1..3 : Spliceable(<<a, b, c>>[j])
    <2>1. \A j \in 1..3 : <<a, b, c>>[j] \in {a, b, c}
      OBVIOUS
    <2>2. QED
      BY <1>1, <1>2, <1>3, <2>1
  <1>7. QED
    BY <1>1, <1>2, <1>3, <1>4, <1>5, <1>6

LEMMA inline_booleansSound ==
  ASSUME ParserAssumption, NEW code, Sound(code)
  PROVE  Sound(inline_booleans(code))
  <1> DEFINE part(i) == IF code[i] = CallOpcode(TrueWord) THEN PushedFlag(-1)
                        ELSE IF code[i] = CallOpcode(FalseWord) THEN PushedFlag(0) ELSE <<code[i]>>
             parts   == [i \in DOMAIN code |-> part(i)]
             n       == Len(code)
  <1>1. n \in Nat /\ DOMAIN code = 1..n /\ \A i \in 1..n : code[i] \in AnyOpcode
    BY LenProperties, ElementOfSeq DEF Sound
  <1>2. \A s : is_call_opcode(CallOpcode(s))
    BY DEF is_call_opcode, CallOpcode, Symbolic, Opcode
  <1>3. /\ PushedFlag(-1) \in Seq(AnyOpcode) /\ PushedFlag(0) \in Seq(AnyOpcode)
        /\ \A j \in DOMAIN PushedFlag(-1) : Spliceable(PushedFlag(-1)[j])
        /\ \A j \in DOMAIN PushedFlag(0) : Spliceable(PushedFlag(0)[j])
    <2>1. -1 \in {-1, 0} /\ 0 \in {-1, 0}
      OBVIOUS
    <2>2. QED
      BY <2>1, PushedFlagIs
  <1>4. ASSUME NEW i \in 1..n
        PROVE  /\ part(i) \in Seq(AnyOpcode)
               /\ \/ part(i) = <<code[i]>>
                  \/ is_call_opcode(code[i]) /\ \A j \in DOMAIN part(i) : Spliceable(part(i)[j])
    <2>1. CASE code[i] = CallOpcode(TrueWord)
      BY <1>2, <1>3, <2>1
    <2>2. CASE code[i] # CallOpcode(TrueWord) /\ code[i] = CallOpcode(FalseWord)
      BY <1>2, <1>3, <2>2
    <2>3. CASE code[i] # CallOpcode(TrueWord) /\ code[i] # CallOpcode(FalseWord)
      BY <1>1, <2>3
    <2>4. QED
      BY <2>1, <2>2, <2>3
  <1>5. inline_booleans(code) = FlattenSeq(parts)
    BY DEF inline_booleans
  <1> HIDE DEF part
  <1>6. parts \in [1..n -> Seq(AnyOpcode)] /\ \A i \in 1..n : parts[i] = part(i)
    BY <1>1, <1>4
  <1> HIDE DEF parts
  <1>7. parts \in Seq(Seq(AnyOpcode)) /\ Len(parts) = n
    BY <1>1, <1>6
  <1>8. Sound(FlattenSeq(parts))
    BY <1>4, <1>6, <1>7, SplicedSound
  <1>9. QED
    BY <1>5, <1>8

(* Of code, Part keeps what is executable of the inside of a definition:   *)
(* nothing there begins or ends a definition, and nothing is a label.      *)
LEMMA ExecutableBodyIs ==
  ASSUME ParserAssumption, NEW code, Sound(code), NEW s \in DefinedSymbols(code)
  PROVE  /\ ExecutableBody(code, s) \in Seq(AnyOpcode)
         /\ \A j \in DOMAIN ExecutableBody(code, s) :
              ~Bounds(ExecutableBody(code, s)[j]) /\ ~is_label_opcode(ExecutableBody(code, s)[j])
  <1> DEFINE n == Len(code)
             d == DefineAt(code, s)
             ends == {e \in d..n : is_enddefine_opcode(code[e])}
             T == {i \in (d + 1)..(EndAt(code, s) - 1) : is_executable(code[i])}
  <1>1. /\ n \in Nat /\ DOMAIN code = 1..n /\ code \in Seq(AnyOpcode)
    BY LenProperties DEF Sound
  <1>2. d \in 1..n /\ is_define_opcode(code[d])
    <2>1. PICK i \in DOMAIN code : is_define_opcode(code[i]) /\ code[i].s = s
      BY DEF DefinedSymbols
    <2>2. d \in DOMAIN code /\ is_define_opcode(code[d]) /\ code[d].s = s
      BY <2>1 DEF DefineAt
    <2>3. QED
      BY <1>1, <2>2
  <1>3. EndAt(code, s) = Min(ends)
    BY DEF EndAt
  <1> HIDE DEF d
  <1>4. PICK e \in (d + 1)..n : /\ is_enddefine_opcode(code[e])
                                /\ \A k \in (d + 1)..e : ~is_define_opcode(code[k])
    BY <1>2 DEF Sound, Ended
  <1>5. EndAt(code, s) \in ends /\ \A y \in ends : EndAt(code, s) <= y
    <2>1. ends \in SUBSET (1..n) /\ ends # {} /\ n \in Nat
      BY <1>1, <1>2, <1>4
    <2> DEFINE least == Min(ends)
    <2> HIDE DEF ends
    <2>2. least \in ends /\ \A y \in ends : least <= y
      BY <2>1, Extremes
    <2>3. EndAt(code, s) = least
      BY <1>3
    <2> HIDE DEF least
    <2>4. QED
      BY <2>2, <2>3
  <1>6. EndAt(code, s) <= e
    BY <1>2, <1>4, <1>5
  <1> DEFINE m == EndAt(code, s)
  <1>7. m \in d..n /\ m <= e /\ \A y \in ends : m <= y
    BY <1>5, <1>6
  <1>8. T = {i \in (d + 1)..(m - 1) : is_executable(code[i])}
    OBVIOUS
  <1> HIDE DEF m
  <1>9. ASSUME NEW i \in (d + 1)..(m - 1)
        PROVE  ~Bounds(code[i]) /\ (is_executable(code[i]) => ~is_label_opcode(code[i]))
    <2>1. i \in (d + 1)..e /\ i \in d..n /\ ~(m <= i)
      BY <1>1, <1>2, <1>4, <1>7
    <2>2. ~is_define_opcode(code[i])
      BY <1>4, <2>1
    <2>3. ~is_enddefine_opcode(code[i])
      <3>1. i \notin ends
        BY <1>7, <2>1
      <3>2. QED
        BY <2>1, <3>1
    <2>4. QED
      BY <2>2, <2>3, Executables DEF Bounds
  <1> HIDE DEF T, ends
  <1>10. ExecutableBody(code, s) = Part(code, T)
    BY <1>8 DEF ExecutableBody, T, d, m
  <1>11. /\ Part(code, T) \in Seq(AnyOpcode)
         /\ \E from : Selected(code, T, Part(code, T), from)
    BY <1>1, PartIs
  <1>12. DOMAIN Part(code, T) = 1..Len(Part(code, T))
    BY <1>11, LenProperties
  <1>13. \A k \in 1..Len(Part(code, T)) :
           ~Bounds(Part(code, T)[k]) /\ ~is_label_opcode(Part(code, T)[k])
    <2>1. PICK from : \A k \in 1..Len(Part(code, T)) :
                        from[k] \in T /\ Part(code, T)[k] = code[from[k]]
      BY <1>11 DEF Selected
    <2>2. \A i \in T : ~Bounds(code[i]) /\ ~is_label_opcode(code[i])
      BY <1>8, <1>9
    <2>3. QED
      BY <2>1, <2>2
  <1>14. QED
    BY <1>10, <1>11, <1>12, <1>13

LEMMA inline_small_functionsSound ==
  ASSUME ParserAssumption, NEW code, Sound(code)
  PROVE  Sound(inline_small_functions(code))
  <1> DEFINE splices == {s \in DefinedSymbols(code) : SmallBody(ExecutableBody(code, s))}
             body(i) == ExecutableBody(code, code[i].s)
             part(i) == IF is_call_opcode(code[i]) /\ code[i].s \in splices
                          THEN <<NoOpOpcode>> \o body(i) ELSE <<code[i]>>
             parts   == [i \in DOMAIN code |-> part(i)]
             n       == Len(code)
  <1>1. n \in Nat /\ DOMAIN code = 1..n /\ \A i \in 1..n : code[i] \in AnyOpcode
    BY LenProperties, ElementOfSeq DEF Sound
  <1>2. ASSUME NEW i \in 1..n, is_call_opcode(code[i]), code[i].s \in splices
        PROVE  /\ part(i) \in Seq(AnyOpcode)
               /\ \A j \in DOMAIN part(i) : Spliceable(part(i)[j])
    <2>1. /\ body(i) \in Seq(AnyOpcode)
          /\ \A j \in DOMAIN body(i) : ~Bounds(body(i)[j]) /\ ~is_label_opcode(body(i)[j])
      BY <1>2, ExecutableBodyIs
    <2>2. \A j \in DOMAIN body(i) : ~is_branching_opcode(body(i)[j])
      BY <1>2 DEF SmallBody
    <2>3. part(i) = <<NoOpOpcode>> \o body(i)
      BY <1>2
    <2> DEFINE b == body(i)
               a == <<NoOpOpcode>>
    <2>4. b \in Seq(AnyOpcode) /\ \A j \in DOMAIN b : Spliceable(b[j])
      BY <2>1, <2>2 DEF Spliceable
    <2>5. a \in Seq(AnyOpcode) /\ Len(a) = 1 /\ Spliceable(a[1])
      BY NoOp DEF Spliceable
    <2>6. part(i) = a \o b
      BY <2>3
    <2> HIDE DEF a, b, part
    <2>7. /\ a \o b \in Seq(AnyOpcode) /\ Len(b) \in Nat /\ DOMAIN b = 1..Len(b)
          /\ DOMAIN (a \o b) = 1..(1 + Len(b))
          /\ \A k \in 1..1 : (a \o b)[k] = a[k]
          /\ \A k \in 1..Len(b) : (a \o b)[1 + k] = b[k]
      <3> DEFINE S == AnyOpcode
      <3>0. a \in Seq(S) /\ b \in Seq(S)
        BY <2>4, <2>5
      <3> HIDE DEF S
      <3>1. /\ a \o b \in Seq(S) /\ DOMAIN (a \o b) = 1..(Len(a) + Len(b))
            /\ \A k \in DOMAIN a : (a \o b)[k] = a[k]
            /\ \A k \in DOMAIN b : (a \o b)[Len(a) + k] = b[k]
        BY <3>0, JoinedParts
      <3>2. Len(b) \in Nat /\ DOMAIN b = 1..Len(b) /\ DOMAIN a = 1..1
        BY <2>4, <2>5, LenProperties
      <3>3. QED
        BY <2>5, <3>1, <3>2, Zenon DEF S
    <2>8. ASSUME NEW j \in 1..(1 + Len(b)) PROVE Spliceable((a \o b)[j])
      <3>1. CASE j = 1
        BY <2>5, <2>7, <3>1
      <3>2. CASE j # 1
        <4>1. j - 1 \in 1..Len(b) /\ 1 + (j - 1) = j
          BY <2>7, <3>2
        <4>2. (a \o b)[1 + (j - 1)] = b[j - 1]
          BY <2>7, <4>1
        <4>3. QED
          BY <2>4, <2>7, <4>1, <4>2
      <3>3. QED
        BY <3>1, <3>2
    <2>9. QED
      BY <2>6, <2>7, <2>8
  <1>3. ASSUME NEW i \in 1..n
        PROVE  /\ part(i) \in Seq(AnyOpcode)
               /\ \/ part(i) = <<code[i]>>
                  \/ is_call_opcode(code[i]) /\ \A j \in DOMAIN part(i) : Spliceable(part(i)[j])
    <2>1. CASE is_call_opcode(code[i]) /\ code[i].s \in splices
      <3> HIDE DEF part
      <3>1. QED
        BY <1>2, <2>1
    <2>2. CASE ~(is_call_opcode(code[i]) /\ code[i].s \in splices)
      BY <1>1, <2>2
    <2>3. QED
      BY <2>1, <2>2
  <1>4. inline_small_functions(code) = FlattenSeq(parts)
    BY DEF inline_small_functions
  <1> HIDE DEF part
  <1>5. parts \in [1..n -> Seq(AnyOpcode)] /\ \A i \in 1..n : parts[i] = part(i)
    BY <1>1, <1>3
  <1> HIDE DEF parts
  <1>6. parts \in Seq(Seq(AnyOpcode)) /\ Len(parts) = n
    BY <1>1, <1>5
  <1>7. Sound(FlattenSeq(parts))
    BY <1>3, <1>5, <1>6, SplicedSound
  <1>8. QED
    BY <1>4, <1>7


-----------------------------------------------------------------------------
(* Labels that move. *)

(* Positions with nothing but their definition between them. *)
LEMMA TogetherAt ==
  ASSUME NEW code, NEW i \in Nat, NEW j \in Nat, i <= j, Together(code, i, j)
  PROVE  At(code, i) = At(code, j)
  <1>1. ASSUME NEW d \in OpenAt(code, i) PROVE d \in OpenAt(code, j)
    <2>1. /\ d \in 1..i /\ is_define_opcode(code[d])
          /\ \A e \in d..(i - 1) : ~is_enddefine_opcode(code[e])
      BY <1>1 DEF OpenAt
    <2>2. ASSUME NEW e \in d..(j - 1) PROVE ~is_enddefine_opcode(code[e])
      <3>1. e \in d..(i - 1) \/ (e \in i..j /\ e < j)
        BY <2>1
      <3>2. QED
        BY <2>1, <3>1 DEF Together
    <2>3. d \in 1..j
      BY <2>1
    <2>4. QED
      BY <2>1, <2>2, <2>3 DEF OpenAt
  <1>2. ASSUME NEW d \in OpenAt(code, j) PROVE d \in OpenAt(code, i)
    <2>1. /\ d \in 1..j /\ is_define_opcode(code[d])
          /\ \A e \in d..(j - 1) : ~is_enddefine_opcode(code[e])
      BY <1>2 DEF OpenAt
    <2>2. d \in 1..i
      <3>1. d > i => d \in i..j
        BY <2>1
      <3>2. ~(d > i)
        BY <2>1, <3>1 DEF Together
      <3>3. QED
        BY <2>1, <3>2
    <2>3. \A e \in d..(i - 1) : e \in d..(j - 1)
      BY <2>1
    <2>4. QED
      BY <2>1, <2>2, <2>3 DEF OpenAt
  <1>3. OpenAt(code, i) = OpenAt(code, j)
    BY <1>1, <1>2
  <1>4. QED
    BY <1>3 DEF At

(* The labels in code are bounded. *)
LEMMA LabelsBounded ==
  ASSUME NEW S, NEW code \in Seq(S), Placed(code) \subseteq Nat
  PROVE  \E b \in Nat : \A l \in Placed(code) : l <= b
  <1> DEFINE n == Len(code)
             Bounded(m) == \E b \in Nat : \A i \in 1..m : is_label_opcode(code[i]) => code[i].n <= b
             T == {m \in 0..n : ~Bounded(m)}
  <1>1. n \in Nat /\ DOMAIN code = 1..n
    BY LenProperties
  <1>2. Bounded(0)
    <2>1. 0 \in Nat /\ 1..0 = {}
      OBVIOUS
    <2>2. QED
      BY <2>1
  <1>3. ASSUME NEW m \in 1..n, Bounded(m - 1) PROVE Bounded(m)
    <2>1. PICK b \in Nat : \A i \in 1..(m - 1) : is_label_opcode(code[i]) => code[i].n <= b
      BY <1>3
    <2>2. CASE is_label_opcode(code[m])
      <3> DEFINE a == code[m].n
      <3>1. a \in Nat
        BY <1>1, <2>2 DEF Placed
      <3> HIDE DEF a
      <3>2. PICK c \in Nat : a <= c /\ b <= c
        <4>1. (a + b) \in Nat /\ a <= a + b /\ b <= a + b
          BY <3>1
        <4>2. QED
          BY <4>1
      <3>3. ASSUME NEW i \in 1..m, is_label_opcode(code[i]) PROVE code[i].n <= c
        <4> DEFINE k == code[i].n
        <4>1. CASE i = m
          BY <3>2, <4>1 DEF a
        <4>2. CASE i # m
          <5>1. i \in 1..(m - 1)
            BY <4>2
          <5>2. k <= b
            BY <2>1, <3>3, <5>1
          <5>3. k \in Nat
            BY <1>1, <3>3 DEF Placed
          <5> HIDE DEF k
          <5>4. k <= c
            BY <3>2, <5>2, <5>3
          <5>5. QED
            BY <5>4 DEF k
        <4>3. QED
          BY <4>1, <4>2
      <3>4. QED
        BY <3>3
    <2>3. CASE ~is_label_opcode(code[m])
      <3>1. \A i \in 1..m : i = m \/ i \in 1..(m - 1)
        OBVIOUS
      <3>2. QED
        BY <2>1, <2>3, <3>1
    <2>4. QED
      BY <2>2, <2>3
  <1> HIDE DEF Bounded
  <1>4. ASSUME T # {} PROVE FALSE
    <2>1. T \in SUBSET Nat
      BY <1>1
    <2>2. PICK k \in T : \A y \in T : k <= y
      BY <1>4, <2>1, LeastNat
    <2>3. k \in 0..n /\ k # 0 /\ ~Bounded(k)
      BY <1>2, <2>2
    <2>4. k \in 1..n /\ k - 1 \in 0..n /\ ~(k <= k - 1)
      BY <1>1, <2>3
    <2>5. Bounded(k - 1)
      BY <2>2, <2>4
    <2>6. QED
      BY <1>3, <2>3, <2>4, <2>5
  <1>5. Bounded(n)
    <2>1. n \in 0..n /\ n \notin T
      BY <1>1, <1>4
    <2>2. QED
      BY <2>1
  <1>6. QED
    BY <1>1, <1>5 DEF Bounded, Placed

(* Chains of labels that only go up have an end, so that there is a        *)
(* function that follows them.                                             *)
LEMMA ChainsEnd ==
  ASSUME NEW D, NEW b \in Nat, \A l \in D : l \in Nat /\ l <= b,
         NEW target, \A l \in D : target[l] \in Nat /\ target[l] > l
  PROVE  \E f : f = [l \in D |-> IF target[l] \in D THEN f[target[l]] ELSE target[l]]
  <1> DEFINE End(f, l) == IF target[l] \in D THEN f[target[l]] ELSE target[l]
             Solves(f, k) == /\ f = [l \in D |-> f[l]]
                             /\ \A l \in D : l > b - k => f[l] = End(f, l)
             T == {k \in Nat : ~ \E f : Solves(f, k)}
  <1>1. \E f : Solves(f, 0)
    <2> DEFINE f == [l \in D |-> l]
    <2>1. \A l \in D : ~(l > b - 0)
      OBVIOUS
    <2>2. f = [l \in D |-> f[l]]
      OBVIOUS
    <2> HIDE DEF f
    <2>3. Solves(f, 0)
      BY <2>1, <2>2
    <2>4. QED
      BY <2>3
  <1>2. ASSUME NEW k \in Nat, NEW f, Solves(f, k) PROVE \E g : Solves(g, k + 1)
    <2> DEFINE g == [l \in D |-> IF l = b - k THEN End(f, l) ELSE f[l]]
    <2>1. \A l \in D : g[l] = IF l = b - k THEN End(f, l) ELSE f[l]
      OBVIOUS
    <2>2. g = [l \in D |-> g[l]]
      OBVIOUS
    <2> HIDE DEF g
    <2>3. ASSUME NEW l \in D, l > b - (k + 1) PROVE g[l] = End(g, l)
      <3>1. l \in Nat /\ target[l] \in Nat /\ target[l] > l
        OBVIOUS
      <3>2. target[l] # b - k
        <4> DEFINE t == target[l]
        <4>1. t \in Nat /\ t > l
          BY <3>1
        <4> HIDE DEF t
        <4>2. t # b - k
          BY <2>3, <3>1, <4>1
        <4>3. QED
          BY <4>2 DEF t
      <3>3. target[l] \in D => g[target[l]] = f[target[l]]
        BY <2>1, <3>2
      <3>4. End(g, l) = End(f, l)
        BY <3>3
      <3>5. l # b - k => l > b - k
        BY <2>3, <3>1
      <3>6. l # b - k => f[l] = End(f, l)
        BY <1>2, <3>5
      <3> HIDE DEF End
      <3>7. QED
        BY <2>1, <3>4, <3>6
    <2>4. Solves(g, k + 1)
      BY <2>2, <2>3
    <2>5. QED
      BY <2>4
  <1>3. ASSUME T # {} PROVE FALSE
    <2> HIDE DEF Solves
    <2>1. T \in SUBSET Nat
      OBVIOUS
    <2>2. PICK k \in T : \A y \in T : k <= y
      BY <1>3, <2>1, LeastNat
    <2>3. k \in Nat /\ k # 0
      BY <1>1, <2>2
    <2>4. k - 1 \in Nat /\ ~(k <= k - 1) /\ (k - 1) + 1 = k
      BY <2>3
    <2>5. PICK f : Solves(f, k - 1)
      BY <2>2, <2>4
    <2>6. \E g : Solves(g, (k - 1) + 1)
      BY <1>2, <2>4, <2>5
    <2>7. QED
      BY <2>2, <2>4, <2>6
  <1>4. PICK f : Solves(f, b + 1)
    <2> HIDE DEF Solves
    <2>1. b + 1 \in Nat
      OBVIOUS
    <2>2. QED
      BY <1>3, <2>1
  <1>5. \A l \in D : l > b - (b + 1)
    OBVIOUS
  <1>6. f = [l \in D |-> End(f, l)]
    <2> HIDE DEF End
    <2>1. \A l \in D : f[l] = End(f, l)
      BY <1>4, <1>5
    <2>2. QED
      BY <1>4, <2>1
  <1>7. QED
    BY <1>6

(* Two labels in one definition. *)
Neighbours(code, l, m) ==
  \E i, j \in 1..Len(code) : /\ Marks(code, i, l) /\ Marks(code, j, m)
                             /\ At(code, i) = At(code, j)

LEMMA NeighboursChain ==
  ASSUME NEW code, Once(code), DOMAIN code = 1..Len(code),
         NEW l, NEW m, NEW k, Neighbours(code, l, m), Neighbours(code, m, k)
  PROVE  Neighbours(code, l, k)
  BY DEF Neighbours, Once, Marks


(* A label that moves goes to a label that stays, in the same definition,  *)
(* and to a higher one.                                                    *)
LEMMA RelocationsAre ==
  ASSUME NEW code, Sound(code)
  PROVE  \A l \in DOMAIN Relocations(code) :
           /\ l \in Nat /\ Relocations(code)[l] \in Nat /\ Relocations(code)[l] > l
           /\ Relocations(code)[l] \notin DOMAIN Relocations(code)
           /\ Neighbours(code, l, Relocations(code)[l])
  <1> DEFINE n        == Len(code)
             places   == {i \in DOMAIN code : Suboptimal(code[i], NextReal(code, i))}
             D        == {code[i].n : i \in places}
             led(l)   == NextReal(code, CHOOSE i \in places : code[i].n = l).n
             target   == [l \in D |-> led(l)]
             End(f, l) == IF target[l] \in DOMAIN target THEN f[target[l]] ELSE target[l]
             r        == CHOOSE f : f = [l \in DOMAIN target |-> End(f, l)]
  <1>1. /\ n \in Nat /\ DOMAIN code = 1..n /\ code \in Seq(AnyOpcode)
        /\ Placed(code) \subseteq Nat /\ Once(code)
    BY LenProperties DEF Sound
  <1>2. Relocations(code) = r
    BY DEF Relocations
  <1>3. ASSUME NEW i \in places
        PROVE  /\ code[i].n \in Placed(code) /\ NextReal(code, i).n \in Placed(code)
               /\ NextReal(code, i).n > code[i].n
               /\ Neighbours(code, code[i].n, NextReal(code, i).n)
    <2>1. /\ i \in 1..n /\ is_label_opcode(code[i]) /\ is_jump_opcode(NextReal(code, i))
          /\ NextReal(code, i).n > code[i].n
      BY <1>1 DEF Suboptimal
    <2>2. ~is_jump_opcode(NoOpOpcode)
      BY DEF is_jump_opcode, NoOpOpcode, Plain, Opcode
    <2>3. PICK j \in (i + 1)..n :
              /\ NextReal(code, i) = code[j] /\ ~is_noop_opcode(code[j])
              /\ \A k \in (i + 1)..(j - 1) : is_noop_opcode(code[k])
      <3>1. i \in Nat
        BY <2>1
      <3>2. QED
        BY <1>1, <2>1, <2>2, <3>1, NextRealIs
    <2>4. j \in 1..n /\ i \in Nat /\ j \in Nat /\ i <= j /\ is_jump_opcode(code[j])
      BY <1>1, <2>1, <2>3
    <2>5. \A o : is_noop_opcode(o) \/ is_jump_opcode(o) \/ is_label_opcode(o) => ~Bounds(o)
      BY DEF is_noop_opcode, is_jump_opcode, is_label_opcode, Bounds, is_define_opcode,
         is_enddefine_opcode
    <2>6. \A k \in i..j : ~Bounds(code[k])
      <3>1. \A k \in i..j : k = i \/ k = j \/ k \in (i + 1)..(j - 1)
        BY <2>4
      <3>2. QED
        BY <2>1, <2>3, <2>4, <2>5, <3>1
    <2>7. Together(code, i, j)
      BY <2>6 DEF Together, Bounds
    <2>8. At(code, i) = At(code, j)
      BY <2>4, <2>7, TogetherAt
    <2>9. PICK p \in 1..n : Marks(code, p, code[j].n) /\ At(code, j) = At(code, p)
      <3>1. is_branching_opcode(code[j])
        BY <2>4, Executables
      <3>2. QED
        BY <2>4, <3>1 DEF Sound
    <2>10. Marks(code, i, code[i].n)
      BY <2>1 DEF Marks
    <2>11. Neighbours(code, code[i].n, code[j].n)
      BY <2>1, <2>8, <2>9, <2>10 DEF Neighbours
    <2>12. code[i].n \in Placed(code) /\ code[j].n \in Placed(code)
      BY <1>1, <2>1, <2>9 DEF Placed, Marks
    <2>13. QED
      BY <2>1, <2>3, <2>11, <2>12
  <1> HIDE DEF places
  <1>4. ASSUME NEW l \in D
        PROVE  l \in Nat /\ led(l) \in Nat /\ led(l) > l /\ Neighbours(code, l, led(l))
    <2> DEFINE i == CHOOSE i \in places : code[i].n = l
    <2>1. i \in places /\ code[i].n = l
      OBVIOUS
    <2>2. led(l) = NextReal(code, i).n
      OBVIOUS
    <2> HIDE DEF i, led
    <2>3. QED
      BY <1>1, <1>3, <2>1, <2>2
  <1>5. D \subseteq Placed(code)
    BY <1>3
  <1> HIDE DEF led
  <1>6. DOMAIN target = D /\ \A l \in D : target[l] = led(l)
    OBVIOUS
  <1> HIDE DEF D
  <1>7. \A l \in D : target[l] \in Nat /\ target[l] > l
    BY <1>4, <1>6
  <1> HIDE DEF target
  <1>8. PICK b \in Nat : \A l \in Placed(code) : l <= b
    BY <1>1, LabelsBounded
  <1>9. \A l \in D : l \in Nat /\ l <= b
    BY <1>4, <1>5, <1>8
  <1>10. \E f : f = [l \in D |-> IF target[l] \in D THEN f[target[l]] ELSE target[l]]
    BY <1>7, <1>9, ChainsEnd
  <1>11. r = [l \in DOMAIN target |-> End(r, l)]
    BY <1>6, <1>10
  <1> HIDE DEF r
  <1>12. DOMAIN r = D /\ \A l \in D : r[l] = IF target[l] \in D THEN r[target[l]] ELSE target[l]
    BY <1>6, <1>11
  <1> DEFINE Good(l) == r[l] \in Nat /\ r[l] > l /\ r[l] \notin D /\ Neighbours(code, l, r[l])
             T == {k \in Nat : \E l \in D : k = b - l /\ ~Good(l)}
  <1>13. ASSUME T # {} PROVE FALSE
    <2>1. T \in SUBSET Nat
      OBVIOUS
    <2> HIDE DEF Good
    <2>2. PICK k \in T : \A y \in T : k <= y
      BY <1>13, <2>1, LeastNat
    <2>3. PICK l \in D : k = b - l /\ ~Good(l)
      BY <2>2
    <2> DEFINE t == target[l]
    <2>4. l \in Nat /\ t \in Nat /\ t > l /\ Neighbours(code, l, t)
      BY <1>4, <1>6, <1>7
    <2>5. r[l] = IF t \in D THEN r[t] ELSE t
      BY <1>12
    <2> HIDE DEF t
    <2>6. CASE t \in D
      <3>1. Good(t)
        <4>1. t <= b /\ b - t \in Nat /\ ~(k <= b - t)
          BY <1>9, <2>3, <2>4, <2>6
        <4>2. b - t \notin T
          BY <2>2, <4>1
        <4>3. QED
          BY <2>6, <4>1, <4>2
      <3>2. r[l] = r[t]
        BY <2>5, <2>6
      <3> DEFINE x == r[t]
      <3>3. x \in Nat /\ x > t /\ x \notin D /\ Neighbours(code, t, x)
        BY <3>1 DEF Good
      <3>4. Neighbours(code, l, x)
        <4> HIDE DEF x
        <4>1. DOMAIN code = 1..Len(code)
          BY <1>1
        <4>2. QED
          BY <1>1, <2>4, <3>3, <4>1, NeighboursChain
      <3> HIDE DEF x
      <3>5. x > l
        BY <2>4, <3>3
      <3>6. r[l] = x
        BY <3>2 DEF x
      <3>7. Good(l)
        BY <3>3, <3>4, <3>5, <3>6, Zenon DEF Good
      <3>8. QED
        BY <2>3, <3>7
    <2>7. CASE t \notin D
      BY <2>3, <2>4, <2>5, <2>7 DEF Good
    <2>8. QED
      BY <2>6, <2>7
  <1>14. \A l \in D : Good(l)
    <2> HIDE DEF Good
    <2>1. ASSUME NEW l \in D, ~Good(l) PROVE FALSE
      <3>1. b - l \in Nat
        BY <1>9
      <3>2. b - l \in T
        BY <2>1, <3>1
      <3>3. QED
        BY <1>13, <3>2
    <2>2. QED
      BY <2>1
  <1>15. QED
    BY <1>2, <1>4, <1>12, <1>14

(* The labels that arrive before label l. *)
Arrives(arriving, relocations, l) ==
  /\ \A j \in 1..Len(arriving) :
       /\ arriving[j] = LabelOpcode(arriving[j].n)
       /\ arriving[j].n \in DOMAIN relocations /\ relocations[arriving[j].n] = l
  /\ \A j, k \in 1..Len(arriving) : arriving[j].n = arriving[k].n => j = k
  /\ \A m \in DOMAIN relocations : relocations[m] = l => \E j \in 1..Len(arriving) : arriving[j].n = m

LEMMA LabelOpcodes ==
  ASSUME NEW l \in Int
  PROVE  /\ LabelOpcode(l) \in AnyOpcode /\ LabelOpcode(l).n = l
         /\ is_label_opcode(LabelOpcode(l)) /\ ~Bounds(LabelOpcode(l))
         /\ ~is_branching_opcode(LabelOpcode(l)) /\ ~is_executable(LabelOpcode(l))
  <1> DEFINE o == LabelOpcode(l)
  <1>1. o = [op |-> "label", r |-> "-", q |-> "-", n |-> l, s |-> NoSymbol]
    BY DEF LabelOpcode, Targeted, Opcode
  <1> HIDE DEF o
  <1>2. o.op = "label" /\ o.n = l
    BY <1>1
  <1>3. o \in AnyOpcode
    BY <1>1 DEF AnyOpcode, OpcodeSet, OtherOps
  <1>4. is_label_opcode(o) /\ ~is_define_opcode(o) /\ ~is_enddefine_opcode(o) /\ ~is_branching_opcode(o)
    BY <1>2 DEF is_label_opcode, is_define_opcode, is_enddefine_opcode, is_branching_opcode,
       BranchingOps
  <1>5. QED
    BY <1>2, <1>3, <1>4 DEF o, Bounds, is_executable

LEMMA ArrivingIs ==
  ASSUME NEW relocations, NEW l \in Nat,
         \A m \in DOMAIN relocations : m \in Nat /\ (relocations[m] = l => m < l)
  PROVE  /\ Arriving(relocations, l) \in Seq(AnyOpcode)
         /\ Arrives(Arriving(relocations, l), relocations, l)
  <1> DEFINE S     == AnyOpcode
             all   == [k \in 1..(l + 1) |-> LabelOpcode(k - 1)]
             T     == {k \in 1..(l + 1) : k - 1 \in DOMAIN relocations /\ relocations[k - 1] = l}
             flat  == Part(all, T)
  <1>1. /\ all \in Seq(S) /\ Len(all) = l + 1 /\ DOMAIN all = 1..(l + 1)
        /\ \A k \in 1..(l + 1) : all[k] = LabelOpcode(k - 1)
    <2>1. ASSUME NEW k \in 1..(l + 1) PROVE LabelOpcode(k - 1) \in S
      <3>1. k - 1 \in Int
        OBVIOUS
      <3>2. QED
        BY <3>1, LabelOpcodes
    <2> HIDE DEF S
    <2>2. all \in [1..(l + 1) -> S] /\ l + 1 \in Nat
      BY <2>1
    <2>3. \A k \in 1..(l + 1) : all[k] = LabelOpcode(k - 1)
      OBVIOUS
    <2> HIDE DEF all
    <2>4. QED
      BY <2>2, <2>3
  <1>2. Arriving(relocations, l) = flat
    <2>1. flat = FlattenSeq([k \in 1..(l + 1) |-> IF k \in T THEN <<all[k]>> ELSE <<>>])
      <3> HIDE DEF all, T
      <3>1. QED
        BY <1>1 DEF Part
    <2>2. \A k \in 1..(l + 1) :
            (IF k \in T THEN <<all[k]>> ELSE <<>>)
              = IF k - 1 \in DOMAIN relocations /\ relocations[k - 1] = l
                  THEN <<LabelOpcode(k - 1)>> ELSE <<>>
      BY <1>1
    <2>3. [k \in 1..(l + 1) |-> IF k \in T THEN <<all[k]>> ELSE <<>>]
            = [k \in 1..(l + 1) |-> IF k - 1 \in DOMAIN relocations /\ relocations[k - 1] = l
                                      THEN <<LabelOpcode(k - 1)>> ELSE <<>>]
      <3> HIDE DEF all, T
      <3>1. QED
        BY <2>2
    <2>4. QED
      BY <2>1, <2>3 DEF Arriving
  <1>3. flat \in Seq(S) /\ \E from : Selected(all, T, flat, from)
    <2> HIDE DEF S, all, T
    <2>1. QED
      BY <1>1, PartIs
  <1> HIDE DEF all, flat
  <1>4. PICK from : Selected(all, T, flat, from)
    BY <1>3
  <1>5. /\ \A k \in 1..Len(flat) :
             from[k] \in 1..(l + 1) /\ from[k] \in T /\ flat[k] = all[from[k]]
        /\ \A k, m \in 1..Len(flat) : k < m => from[k] < from[m]
        /\ \A i \in 1..(l + 1) : i \in T => \E k \in 1..Len(flat) : from[k] = i
    BY <1>1, <1>4, Zenon DEF Selected
  <1>6. ASSUME NEW k \in 1..Len(flat)
        PROVE  /\ flat[k] = LabelOpcode(flat[k].n) /\ flat[k].n = from[k] - 1
               /\ from[k] \in Int
               /\ flat[k].n \in DOMAIN relocations /\ relocations[flat[k].n] = l
    <2> DEFINE i == from[k]
    <2>1. i \in 1..(l + 1) /\ i \in T /\ flat[k] = all[i]
      BY <1>5
    <2> HIDE DEF i
    <2>2. i - 1 \in Int /\ flat[k] = LabelOpcode(i - 1)
      BY <1>1, <2>1
    <2>3. flat[k].n = i - 1
      <3>1. \A x \in Int : LabelOpcode(x).n = x
        BY LabelOpcodes
      <3>2. QED
        BY <2>2, <3>1
    <2>4. QED
      BY <2>1, <2>2, <2>3 DEF i
  <1>7. ASSUME NEW j \in 1..Len(flat), NEW k \in 1..Len(flat), flat[j].n = flat[k].n PROVE j = k
    <2> DEFINE x == from[j]
               y == from[k]
    <2>1. x - 1 = y - 1 /\ x \in Int /\ y \in Int
      BY <1>6, <1>7
    <2>2. (j < k => x < y) /\ (k < j => y < x)
      BY <1>5
    <2> HIDE DEF x, y
    <2>3. ~(j < k) /\ ~(k < j)
      BY <2>1, <2>2
    <2>4. QED
      BY <2>3
  <1>8. ASSUME NEW m \in DOMAIN relocations, relocations[m] = l
        PROVE  \E j \in 1..Len(flat) : flat[j].n = m
    <2>1. m \in Nat /\ m < l
      BY <1>8
    <2>2. m + 1 \in 1..(l + 1) /\ (m + 1) - 1 = m
      BY <2>1
    <2>3. m + 1 \in T
      BY <1>8, <2>2
    <2>4. PICK k \in 1..Len(flat) : from[k] = m + 1
      BY <1>5, <2>2, <2>3
    <2>5. flat[k].n = m
      BY <1>6, <2>2, <2>4
    <2>6. QED
      BY <2>5
  <1>9. Arrives(flat, relocations, l)
    BY <1>6, <1>7, <1>8 DEF Arrives
  <1>10. QED
    BY <1>2, <1>3, <1>9


(* What takes the place of an opcode when labels move. *)
Transferred(part, relocations, o) ==
  \/ /\ ~is_label_opcode(o) /\ part = <<o>>
  \/ /\ is_label_opcode(o) /\ o.n \in DOMAIN relocations /\ part = <<NoOpOpcode>>
  \/ /\ is_label_opcode(o) /\ o.n \notin DOMAIN relocations
     /\ \E arriving \in Seq(AnyOpcode) :
          Arrives(arriving, relocations, o.n) /\ part = arriving \o <<o>>

(* The opcodes of such a part: a label is there once, with the labels that *)
(* move to it.                                                             *)
Resettled(part, relocations, o) ==
  /\ part \in Seq(AnyOpcode)
  /\ \A j \in DOMAIN part :
       \/ part[j] = o /\ part = <<o>> /\ ~is_label_opcode(o)
       \/ is_label_opcode(o) /\ part[j] = NoOpOpcode
       \/ /\ is_label_opcode(o) /\ is_label_opcode(part[j]) /\ part[j].n \in Nat
          /\ ~Bounds(part[j]) /\ ~is_branching_opcode(part[j]) /\ ~is_executable(part[j])
          /\ \/ part[j].n = o.n /\ o.n \notin DOMAIN relocations
             \/ part[j].n \in DOMAIN relocations /\ relocations[part[j].n] = o.n
  /\ \A j, k \in DOMAIN part : is_label_opcode(part[j]) /\ is_label_opcode(part[k])
                               /\ part[j].n = part[k].n => j = k
  /\ is_label_opcode(o) /\ o.n \notin DOMAIN relocations =>
       /\ \E j \in DOMAIN part : part[j] = o
       /\ \A m \in DOMAIN relocations : relocations[m] = o.n =>
            \E j \in DOMAIN part : Marks(part, j, m)

LEMMA MovedIs ==
  ASSUME ParserAssumption, NEW part, NEW relocations, NEW o \in AnyOpcode,
         Transferred(part, relocations, o), \A m \in DOMAIN relocations : m \in Nat,
         is_label_opcode(o) => o.n \in Nat
  PROVE  Resettled(part, relocations, o)
  <1> DEFINE S == AnyOpcode
  <1>0. ~is_label_opcode(NoOpOpcode)
    BY NoOp
  <1>1. \A x : DOMAIN <<x>> = 1..1 /\ <<x>>[1] = x /\ Len(<<x>>) = 1
    OBVIOUS
  <1>2. CASE ~is_label_opcode(o) /\ part = <<o>>
    <2>1. DOMAIN part = 1..1 /\ part[1] = o
      BY <1>1, <1>2
    <2>2. \A j \in DOMAIN part : j = 1
      BY <2>1
    <2>3. part \in Seq(S)
      BY <1>2
    <2>4. QED
      BY <1>2, <2>1, <2>2, <2>3, Zenon DEF Resettled
  <1>3. CASE /\ is_label_opcode(o) /\ o.n \in DOMAIN relocations /\ part = <<NoOpOpcode>>
    <2> DEFINE x == NoOpOpcode
    <2>1. x \in S
      BY NoOp
    <2> HIDE DEF x
    <2>2. part = <<x>>
      BY <1>3 DEF x
    <2>3. DOMAIN part = 1..1 /\ part[1] = x
      BY <1>1, <2>2
    <2>4. \A j \in DOMAIN part : j = 1
      BY <2>3
    <2>5. part \in Seq(S)
      BY <2>1, <2>2
    <2>6. \A j \in DOMAIN part : part[j] = NoOpOpcode
      BY <2>3, <2>4 DEF x
    <2>7. QED
      BY <1>0, <1>3, <2>5, <2>6, Zenon DEF Resettled
  <1>4. CASE /\ is_label_opcode(o) /\ o.n \notin DOMAIN relocations
             /\ \E arriving \in Seq(AnyOpcode) :
                  Arrives(arriving, relocations, o.n) /\ part = arriving \o <<o>>
    <2>1. PICK a \in Seq(S) : Arrives(a, relocations, o.n) /\ part = a \o <<o>>
      BY <1>4
    <2> DEFINE n == Len(a)
               b == <<o>>
    <2>2. b \in Seq(S) /\ part = a \o b /\ DOMAIN b = 1..1 /\ b[1] = o /\ Len(b) = 1
      BY <1>1, <2>1
    <2>3. n \in Nat /\ DOMAIN a = 1..n
      BY LenProperties
    <2> HIDE DEF b, S
    <2>4. /\ a \o b \in Seq(S) /\ DOMAIN (a \o b) = 1..(n + Len(b))
          /\ \A k \in DOMAIN a : (a \o b)[k] = a[k]
          /\ \A k \in DOMAIN b : (a \o b)[n + k] = b[k]
      <3>0. a \in Seq(S) /\ b \in Seq(S)
        BY <2>2
      <3>1. /\ a \o b \in Seq(S) /\ DOMAIN (a \o b) = 1..(Len(a) + Len(b))
            /\ \A k \in DOMAIN a : (a \o b)[k] = a[k]
            /\ \A k \in DOMAIN b : (a \o b)[Len(a) + k] = b[k]
        BY ONLY <3>0, JoinedParts
      <3>2. QED
        BY <3>1, Zenon
    <2> HIDE DEF n
    <2>5. /\ part \in Seq(S) /\ DOMAIN part = 1..(n + 1)
          /\ \A k \in 1..n : part[k] = a[k]
          /\ part[n + 1] = o
      <3>1. 1 \in 1..1
        OBVIOUS
      <3>2. QED
        BY <2>2, <2>3, <2>4, <3>1, Zenon
    <2>6. /\ \A j \in 1..n : /\ part[j] = LabelOpcode(part[j].n) /\ part[j].n \in DOMAIN relocations
                             /\ relocations[part[j].n] = o.n
          /\ \A j, k \in 1..n : part[j].n = part[k].n => j = k
          /\ \A m \in DOMAIN relocations : relocations[m] = o.n => \E j \in 1..n : part[j].n = m
      <3>1. /\ \A j \in 1..n : /\ a[j] = LabelOpcode(a[j].n)
                               /\ a[j].n \in DOMAIN relocations /\ relocations[a[j].n] = o.n
            /\ \A j, k \in 1..n : a[j].n = a[k].n => j = k
            /\ \A m \in DOMAIN relocations : relocations[m] = o.n => \E j \in 1..n : a[j].n = m
        BY <2>1 DEF Arrives, n
      <3>2. \A j \in 1..n : part[j] = a[j]
        BY <2>5
      <3>3. \A j \in 1..n : /\ part[j] = LabelOpcode(part[j].n) /\ part[j].n \in DOMAIN relocations
                            /\ relocations[part[j].n] = o.n
        BY <3>1, <3>2, Zenon
      <3>4. ASSUME NEW j \in 1..n, NEW k \in 1..n, part[j].n = part[k].n PROVE j = k
        <4>1. a[j].n = a[k].n
          BY <3>2, <3>4, Zenon
        <4>2. QED
          BY <3>1, <4>1, Zenon
      <3>5. ASSUME NEW m \in DOMAIN relocations, relocations[m] = o.n PROVE \E j \in 1..n : part[j].n = m
        <4>1. PICK j \in 1..n : a[j].n = m
          BY <3>1, <3>5, Zenon
        <4>2. QED
          BY <3>2, <4>1, Zenon
      <3>6. QED
        BY <3>3, <3>4, <3>5
    <2>7. \A l \in Int : /\ is_label_opcode(LabelOpcode(l)) /\ ~Bounds(LabelOpcode(l))
                         /\ ~is_branching_opcode(LabelOpcode(l)) /\ ~is_executable(LabelOpcode(l))
      BY LabelOpcodes
    <2>8. ASSUME NEW j \in 1..n
          PROVE  /\ part[j].n \in Nat /\ is_label_opcode(part[j]) /\ ~Bounds(part[j])
                 /\ ~is_branching_opcode(part[j]) /\ ~is_executable(part[j])
                 /\ part[j].n \in DOMAIN relocations /\ relocations[part[j].n] = o.n
      <3> DEFINE l == part[j].n
      <3>1. part[j] = LabelOpcode(l) /\ l \in DOMAIN relocations /\ relocations[l] = o.n
        BY <2>6
      <3>2. l \in Nat /\ l \in Int
        BY <3>1
      <3> HIDE DEF l
      <3>3. /\ is_label_opcode(part[j]) /\ ~Bounds(part[j])
            /\ ~is_branching_opcode(part[j]) /\ ~is_executable(part[j])
        BY <2>7, <3>1, <3>2
      <3>4. QED
        BY <3>1, <3>2, <3>3 DEF l
    <2>9. \A j \in 1..(n + 1) : j \in 1..n \/ j = n + 1
      BY <2>3
    <2>10. n + 1 \in 1..(n + 1) /\ \A j \in 1..n : j \in 1..(n + 1)
      BY <2>3
    <2>11. ~Bounds(o) /\ ~is_branching_opcode(o) /\ ~is_executable(o)
      BY <1>4, Executables
    <2>12. \A j \in DOMAIN part :
             /\ is_label_opcode(o) /\ is_label_opcode(part[j]) /\ part[j].n \in Nat
             /\ ~Bounds(part[j]) /\ ~is_branching_opcode(part[j]) /\ ~is_executable(part[j])
             /\ \/ part[j].n = o.n /\ o.n \notin DOMAIN relocations
                \/ part[j].n \in DOMAIN relocations /\ relocations[part[j].n] = o.n
      <3>1. ASSUME NEW j \in DOMAIN part
            PROVE /\ is_label_opcode(o) /\ is_label_opcode(part[j]) /\ part[j].n \in Nat
                  /\ ~Bounds(part[j]) /\ ~is_branching_opcode(part[j]) /\ ~is_executable(part[j])
                  /\ \/ part[j].n = o.n /\ o.n \notin DOMAIN relocations
                     \/ part[j].n \in DOMAIN relocations /\ relocations[part[j].n] = o.n
        <4>1. j \in 1..n \/ j = n + 1
          BY <2>5, <2>9
        <4>2. CASE j \in 1..n
          BY <1>4, <2>8, <4>2
        <4>3. CASE j = n + 1
          BY <1>4, <2>5, <2>11, <4>3
        <4>4. QED
          BY <4>1, <4>2, <4>3
      <3>2. QED
        BY <3>1
    <2>13. ASSUME NEW j \in DOMAIN part, NEW k \in DOMAIN part, part[j].n = part[k].n PROVE j = k
      <3>1. (j \in 1..n \/ j = n + 1) /\ (k \in 1..n \/ k = n + 1)
        BY <2>5, <2>9
      <3>2. \A i \in 1..n : part[i].n # part[n + 1].n
        BY <1>4, <2>5, <2>8
      <3>3. QED
        BY <2>6, <2>13, <3>1, <3>2
    <2>14. \E j \in DOMAIN part : part[j] = o
      BY <2>5, <2>10
    <2>15. ASSUME NEW m \in DOMAIN relocations, relocations[m] = o.n
           PROVE  \E j \in DOMAIN part : Marks(part, j, m)
      BY <2>5, <2>6, <2>8, <2>10, <2>15 DEF Marks
    <2>16. QED
      BY <2>5, <2>12, <2>13, <2>14, <2>15, Zenon DEF S, Resettled
  <1>5. QED
    BY <1>2, <1>3, <1>4 DEF Transferred


(* Labels on a jump move to where the jump leads. *)
LEMMA relocate_suboptimal_labelsSound ==
  ASSUME ParserAssumption, NEW code, Sound(code)
  PROVE  Sound(relocate_suboptimal_labels(code))
  <1> DEFINE n == Len(code)
             r == Relocations(code)
             part(i) == IF ~is_label_opcode(code[i]) THEN <<code[i]>>
                        ELSE IF code[i].n \in DOMAIN r THEN <<NoOpOpcode>>
                        ELSE Arriving(r, code[i].n) \o <<code[i]>>
             parts == [i \in DOMAIN code |-> part(i)]
             flat  == FlattenSeq(parts)
  <1>1. /\ n \in Nat /\ DOMAIN code = 1..n /\ code \in Seq(AnyOpcode)
        /\ \A i \in 1..n : code[i] \in AnyOpcode
        /\ Once(code) /\ \A i \in 1..n : is_label_opcode(code[i]) => code[i].n \in Nat
    BY LenProperties, ElementOfSeq DEF Sound, Placed
  <1>2. relocate_suboptimal_labels(code) = flat
    BY DEF relocate_suboptimal_labels
  <1>3. \A l \in DOMAIN r : /\ l \in Nat /\ r[l] \in Nat /\ r[l] > l
                            /\ r[l] \notin DOMAIN r /\ Neighbours(code, l, r[l])
    BY RelocationsAre
  <1> HIDE DEF r
  <1>4. ASSUME NEW i \in 1..n PROVE Transferred(part(i), r, code[i])
    <2>1. CASE ~is_label_opcode(code[i])
      BY <2>1 DEF Transferred
    <2>2. CASE is_label_opcode(code[i]) /\ code[i].n \in DOMAIN r
      BY <2>2 DEF Transferred
    <2>3. CASE is_label_opcode(code[i]) /\ code[i].n \notin DOMAIN r
      <3> DEFINE l == code[i].n
      <3>1. l \in Nat
        BY <1>1, <2>3
      <3>2. part(i) = Arriving(r, l) \o <<code[i]>>
        BY <2>3
      <3> HIDE DEF l
      <3>3. \A m \in DOMAIN r : m \in Nat /\ (r[m] = l => m < l)
        BY <1>3, <3>1
      <3>4. /\ Arriving(r, l) \in Seq(AnyOpcode)
            /\ Arrives(Arriving(r, l), r, l)
        BY <3>1, <3>3, ArrivingIs
      <3> HIDE DEF part
      <3>5. QED
        BY <2>3, <3>2, <3>4 DEF Transferred, l
    <2>4. QED
      BY <2>1, <2>2, <2>3
  <1> HIDE DEF part
  <1>5. ASSUME NEW i \in 1..n
        PROVE  /\ part(i) \in Seq(AnyOpcode)
               /\ \A j \in DOMAIN part(i) :
                    \/ part(i)[j] = code[i] /\ part(i) = <<code[i]>> /\ ~is_label_opcode(code[i])
                    \/ is_label_opcode(code[i]) /\ part(i)[j] = NoOpOpcode
                    \/ /\ is_label_opcode(code[i]) /\ is_label_opcode(part(i)[j])
                       /\ part(i)[j].n \in Nat /\ ~Bounds(part(i)[j])
                       /\ ~is_branching_opcode(part(i)[j]) /\ ~is_executable(part(i)[j])
                       /\ \/ part(i)[j].n = code[i].n /\ code[i].n \notin DOMAIN r
                          \/ part(i)[j].n \in DOMAIN r /\ r[part(i)[j].n] = code[i].n
               /\ \A j, k \in DOMAIN part(i) :
                    is_label_opcode(part(i)[j]) /\ is_label_opcode(part(i)[k])
                      /\ part(i)[j].n = part(i)[k].n => j = k
               /\ is_label_opcode(code[i]) /\ code[i].n \notin DOMAIN r =>
                    /\ \E j \in DOMAIN part(i) : part(i)[j] = code[i]
                    /\ \A m \in DOMAIN r : r[m] = code[i].n =>
                         \E j \in DOMAIN part(i) : Marks(part(i), j, m)
    <2> DEFINE o == code[i]
               p == part(i)
    <2>1. /\ o \in AnyOpcode /\ Transferred(p, r, o)
          /\ is_label_opcode(o) => o.n \in Nat
      BY <1>1, <1>4
    <2>2. \A m \in DOMAIN r : m \in Nat
      BY <1>3
    <2> HIDE DEF o, p
    <2>3. Resettled(p, r, o)
      BY <2>1, <2>2, MovedIs
    <2>4. QED
      BY <2>3, Zenon DEF o, p, Resettled
  <1>6. parts \in [1..n -> Seq(AnyOpcode)] /\ \A i \in 1..n : parts[i] = part(i)
    BY <1>1, <1>5
  <1> HIDE DEF parts
  <1>7. parts \in Seq(Seq(AnyOpcode)) /\ Len(parts) = n
    BY <1>1, <1>6
  <1>8. flat \in Seq(AnyOpcode) /\ \E from, at : Origins(parts, Len(parts), flat, from, at)
    BY <1>7, Flattened
  <1> HIDE DEF flat
  <1>9. PICK from, at : Origins(parts, Len(parts), flat, from, at)
    BY <1>8
  <1>10. /\ \A k \in 1..Len(flat) : /\ from[k] \in 1..n /\ at[k] \in DOMAIN part(from[k])
                                   /\ flat[k] = part(from[k])[at[k]]
         /\ \A k, l \in 1..Len(flat) : k < l =>
              from[k] < from[l] \/ (from[k] = from[l] /\ at[k] < at[l])
         /\ \A i \in 1..n : \A j \in DOMAIN part(i) :
              \E k \in 1..Len(flat) : from[k] = i /\ at[k] = j
    <2>1. /\ \A k \in 1..Len(flat) : /\ from[k] \in 1..Len(parts) /\ at[k] \in DOMAIN parts[from[k]]
                                    /\ flat[k] = parts[from[k]][at[k]]
          /\ \A k, l \in 1..Len(flat) : k < l =>
               from[k] < from[l] \/ (from[k] = from[l] /\ at[k] < at[l])
          /\ \A i \in 1..Len(parts) : \A j \in DOMAIN parts[i] :
               \E k \in 1..Len(flat) : from[k] = i /\ at[k] = j
      BY <1>9, Zenon DEF Origins
    <2>2. \A i \in 1..n : parts[i] = part(i)
      BY <1>6
    <2>3. ASSUME NEW k \in 1..Len(flat)
          PROVE  /\ from[k] \in 1..n /\ at[k] \in DOMAIN part(from[k])
                 /\ flat[k] = part(from[k])[at[k]]
      <3> DEFINE i == from[k]
      <3>1. i \in 1..Len(parts) /\ at[k] \in DOMAIN parts[i] /\ flat[k] = parts[i][at[k]]
        BY <2>1, Zenon
      <3> HIDE DEF i
      <3>2. i \in 1..n
        BY <1>7, <3>1
      <3>3. parts[i] = part(i)
        BY <2>2, <3>2
      <3>4. QED
        BY <3>1, <3>2, <3>3, Zenon DEF i
    <2>4. ASSUME NEW i \in 1..n, NEW j \in DOMAIN part(i)
          PROVE  \E k \in 1..Len(flat) : from[k] = i /\ at[k] = j
      <3>1. i \in 1..Len(parts)
        BY <1>7
      <3>2. j \in DOMAIN parts[i]
        BY <2>2, Zenon
      <3>3. \A a \in 1..Len(parts) : \A b \in DOMAIN parts[a] :
              \E k \in 1..Len(flat) : from[k] = a /\ at[k] = b
        BY <2>1
      <3>4. \A b \in DOMAIN parts[i] : \E k \in 1..Len(flat) : from[k] = i /\ at[k] = b
        BY <3>1, <3>3, Zenon
      <3>5. QED
        BY <3>2, <3>4
    <2>5. QED
      BY <2>1, <2>3, <2>4, Zenon
  <1>11. Framed(code, flat, from)
    <2>1. ASSUME NEW i \in 1..Len(code), Bounds(code[i]) PROVE parts[i] = <<code[i]>>
      <3>1. ~is_label_opcode(code[i])
        BY <2>1, Executables
      <3>2. part(i) = <<code[i]>>
        BY <3>1 DEF part
      <3>3. QED
        BY <1>6, <3>2
    <2>2. ASSUME NEW i \in 1..Len(code), NEW j \in DOMAIN parts[i], Bounds(parts[i][j])
          PROVE  Bounds(code[i])
      <3>1. parts[i] = part(i)
        BY <1>6
      <3>2. \/ parts[i][j] = code[i]
            \/ parts[i][j] = NoOpOpcode
            \/ ~Bounds(parts[i][j])
        BY <1>5, <3>1
      <3>3. QED
        BY <2>2, <3>2, NoOp
    <2>3. QED
      BY <1>1, <1>7, <1>9, <2>1, <2>2, SplicesFramed
  (* What stands at a position of the new code. *)
  <1>12. ASSUME NEW k \in 1..Len(flat)
         PROVE  /\ from[k] \in 1..n
                /\ \/ flat[k] = code[from[k]] /\ ~is_label_opcode(code[from[k]])
                   \/ flat[k] = NoOpOpcode
                   \/ /\ is_label_opcode(code[from[k]]) /\ is_label_opcode(flat[k])
                      /\ flat[k].n \in Nat
                      /\ ~is_branching_opcode(flat[k]) /\ ~is_executable(flat[k])
                      /\ \/ flat[k].n = code[from[k]].n /\ code[from[k]].n \notin DOMAIN r
                         \/ flat[k].n \in DOMAIN r /\ r[flat[k].n] = code[from[k]].n
    <2> DEFINE i == from[k]
               j == at[k]
    <2>1. i \in 1..n /\ j \in DOMAIN part(i) /\ flat[k] = part(i)[j]
      BY <1>10
    <2> HIDE DEF i, j
    <2>2. \/ part(i)[j] = code[i] /\ ~is_label_opcode(code[i])
          \/ part(i)[j] = NoOpOpcode
          \/ /\ is_label_opcode(code[i]) /\ is_label_opcode(part(i)[j])
             /\ part(i)[j].n \in Nat
             /\ ~is_branching_opcode(part(i)[j]) /\ ~is_executable(part(i)[j])
             /\ \/ part(i)[j].n = code[i].n /\ code[i].n \notin DOMAIN r
                \/ part(i)[j].n \in DOMAIN r /\ r[part(i)[j].n] = code[i].n
      BY <1>5, <2>1, Zenon
    <2>3. QED
      BY <2>1, <2>2, Zenon DEF i
  <1>13. \A k \in 1..Len(flat) : is_executable(flat[k]) => is_executable(code[from[k]])
    BY <1>12, NoOp
  <1>14. \A k \in 1..Len(flat) : is_branching_opcode(flat[k]) => flat[k] = code[from[k]]
    BY <1>12, NoOp
  <1>15. ASSUME NEW k \in 1..Len(flat), is_label_opcode(flat[k])
         PROVE  /\ is_label_opcode(code[from[k]]) /\ flat[k].n \in Nat
                /\ \/ flat[k].n = code[from[k]].n /\ code[from[k]].n \notin DOMAIN r
                   \/ flat[k].n \in DOMAIN r /\ r[flat[k].n] = code[from[k]].n
    BY <1>12, <1>15, NoOp
  <1>16. Placed(flat) \subseteq Nat
    <2>1. DOMAIN flat = 1..Len(flat)
      BY <1>8, LenProperties
    <2>2. QED
      BY <1>15, <2>1 DEF Placed
  <1>17. Once(flat)
    <2>1. ASSUME NEW k \in 1..Len(flat), NEW l \in 1..Len(flat), is_label_opcode(flat[k]),
                 is_label_opcode(flat[l]), flat[k].n = flat[l].n
          PROVE  k = l
      <3>1. from[k] = from[l]
        <4>1. from[k] \in 1..n /\ from[l] \in 1..n
          BY <1>12
        <4>2. code[from[k]].n = code[from[l]].n
          <5>1. CASE flat[k].n \in DOMAIN r
            <6>1. r[flat[k].n] \notin DOMAIN r
              BY <1>3, <5>1
            <6>2. r[flat[k].n] = code[from[k]].n /\ r[flat[k].n] = code[from[l]].n
              BY <1>15, <2>1, <5>1
            <6>3. QED
              BY <6>2
          <5>2. CASE flat[k].n \notin DOMAIN r
            BY <1>15, <2>1, <5>2
          <5>3. QED
            BY <5>1, <5>2
        <4>3. is_label_opcode(code[from[k]]) /\ is_label_opcode(code[from[l]])
          BY <1>15, <2>1
        <4>4. QED
          BY <1>1, <4>1, <4>2, <4>3 DEF Once
      <3> DEFINE i == from[k]
                 x == at[k]
                 y == at[l]
      <3>2. /\ i \in 1..n /\ x \in DOMAIN part(i) /\ y \in DOMAIN part(i)
            /\ flat[k] = part(i)[x] /\ flat[l] = part(i)[y]
        BY <1>10, <3>1
      <3>3. (k < l => i < i \/ x < y) /\ (l < k => i < i \/ y < x)
        BY <1>10, <3>1
      <3> HIDE DEF i, x, y
      <3>4. x = y
        BY <1>5, <2>1, <3>2
      <3>5. i \in Int /\ x \in Int
        <4>1. part(i) \in Seq(AnyOpcode)
          BY <1>5, <3>2
        <4>2. QED
          BY <3>2, <4>1, LenProperties
      <3>6. ~(k < l) /\ ~(l < k)
        BY <3>3, <3>4, <3>5
      <3>7. QED
        BY <3>6
    <2>2. DOMAIN flat = 1..Len(flat)
      BY <1>8, LenProperties
    <2>3. QED
      BY <2>1, <2>2 DEF Once
  (* A label that stays is where it was; one that moves is where the other is. *)
  <1>18. ASSUME NEW p \in 1..n, is_label_opcode(code[p])
         PROVE  \E l \in 1..Len(flat) : /\ Marks(flat, l, code[p].n)
                                        /\ At(code, p) = At(code, from[l])
    <2>1. CASE code[p].n \notin DOMAIN r
      <3>1. PICK j \in DOMAIN part(p) : part(p)[j] = code[p]
        BY <1>5, <1>18, <2>1
      <3>2. PICK l \in 1..Len(flat) : from[l] = p /\ at[l] = j
        BY <1>10
      <3>3. flat[l] = code[p]
        BY <1>10, <3>1, <3>2, Zenon
      <3>4. QED
        BY <1>18, <3>2, <3>3 DEF Marks
    <2>2. CASE code[p].n \in DOMAIN r
      <3> DEFINE m == code[p].n
      <3>1. m \in DOMAIN r /\ r[m] \notin DOMAIN r /\ Neighbours(code, m, r[m])
        BY <1>3, <2>2
      <3>2. PICK a \in 1..n, q \in 1..n : /\ Marks(code, a, m) /\ Marks(code, q, r[m])
                                          /\ At(code, a) = At(code, q)
        BY <3>1 DEF Neighbours
      <3>3. a = p
        BY <1>1, <1>18, <3>2 DEF Once, Marks
      <3>4. is_label_opcode(code[q]) /\ code[q].n = r[m] /\ code[q].n \notin DOMAIN r
        BY <3>1, <3>2 DEF Marks
      <3> HIDE DEF m
      <3>5. PICK j \in DOMAIN part(q) : Marks(part(q), j, m)
        BY <1>5, <3>1, <3>4
      <3>6. PICK l \in 1..Len(flat) : from[l] = q /\ at[l] = j
        BY <1>10
      <3>7. flat[l] = part(q)[j]
        BY <1>10, <3>6, Zenon
      <3>8. Marks(flat, l, m) /\ At(code, p) = At(code, from[l])
        BY <3>2, <3>3, <3>5, <3>6, <3>7 DEF Marks
      <3>9. QED
        BY <3>8 DEF m
    <2>3. QED
      BY <2>1, <2>2
  <1>19. ASSUME NEW k \in 1..Len(flat), is_branching_opcode(flat[k])
         PROVE  \E l \in 1..Len(flat) : /\ Marks(flat, l, flat[k].n)
                                        /\ At(code, from[k]) = At(code, from[l])
    <2> DEFINE i == from[k]
    <2>1. i \in 1..n /\ flat[k] = code[i]
      BY <1>12, <1>14, <1>19
    <2> HIDE DEF i
    <2>2. PICK p \in 1..n : Marks(code, p, code[i].n) /\ At(code, i) = At(code, p)
      BY <1>19, <2>1 DEF Sound
    <2>3. is_label_opcode(code[p]) /\ code[p].n = flat[k].n
      BY <2>1, <2>2 DEF Marks
    <2>4. PICK l \in 1..Len(flat) : Marks(flat, l, code[p].n) /\ At(code, p) = At(code, from[l])
      BY <1>18, <2>3
    <2>5. QED
      BY <2>2, <2>3, <2>4 DEF i
  <1>20. Sound(flat)
    BY <1>8, <1>11, <1>13, <1>16, <1>17, <1>19, SoundAgain
  <1>21. QED
    BY <1>2, <1>20

-----------------------------------------------------------------------------
(* Whatever pass runs, sound code stays sound. *)
LEMMA OptimizedSound ==
  ASSUME ParserAssumption, NEW code, Sound(code), NEW pass \in Passes
  PROVE  Sound(Optimized(code, pass))
  <1>1. CASE pass = "remove_unreachable_code"
    BY <1>1, remove_unreachable_codeSound DEF Optimized
  <1>2. CASE pass = "remove_unnecessary_jumps"
    BY <1>2, remove_unnecessary_jumpsSound DEF Optimized
  <1>3. CASE pass = "remove_useless_calls"
    BY <1>3, remove_useless_callsSound DEF Optimized
  <1>4. CASE pass = "inline_booleans"
    BY <1>4, inline_booleansSound DEF Optimized
  <1>5. CASE pass = "inline_small_functions"
    BY <1>5, inline_small_functionsSound DEF Optimized
  <1>6. CASE pass = "replace_adjacent_push_pop_pairs"
    BY <1>6, replace_adjacent_push_pop_pairsSound DEF Optimized
  <1>7. CASE pass = "relocate_suboptimal_labels"
    BY <1>7, relocate_suboptimal_labelsSound DEF Optimized
  <1>8. CASE pass = "remove_unnecessary_labels"
    BY <1>8, remove_unnecessary_labelsSound DEF Optimized
  <1>9. QED
    BY <1>1, <1>2, <1>3, <1>4, <1>5, <1>6, <1>7, <1>8 DEF Passes

-----------------------------------------------------------------------------
(* What else the parser's steps preserve.  Label 0 belongs to implicit     *)
(* main: no handler draws it, so nothing has placed it.                    *)
Numbered ==
  /\ \A p \in DOMAIN label_stack_ : label_stack_[p] # 0
  /\ Placed(optable_) \subseteq Nat \ {0}

(* A step that moves the stacks like the nesting draws no label 0. *)
LEMMA NumberedNext ==
  ASSUME TypeOK, TypeOK', Labelling, Numbered, NEW m, NEW kept, NEW old, NEW fresh, NEW new,
         NEW used, NEW breaks,
         Replaces(m, kept, old, fresh, new, breaks),
         Labelled(kept, old, fresh, new, used, breaks)
  PROVE  Numbered'
  <1>1. /\ label_sequence_ \in Nat \ {0} /\ optable_ \in Seq(OpcodeSet(Symbols))
        /\ label_sequence_' \in Nat
    BY DEF TypeOK, FlowOK, CodeOK
  <1>2. PICK code \in Seq(OpcodeSet(Symbols)) :
          /\ optable_' = optable_ \o code
          /\ Placed(code) \subseteq NewlyPlaced(kept, old, fresh, new, used)
    BY DEF Labelled
  <1>3. ASSUME NEW l \in Placed(code) PROVE l \in Nat \ {0}
    <2>1. l \in NewlyPlaced(kept, old, fresh, new, used)
      BY <1>2, <1>3
    <2>2. \/ \E p \in DOMAIN label_stack_ :
               p > kept /\ l = label_stack_[p] /\ l \notin Placed(optable_)
          \/ l \in label_sequence_..(label_sequence_' - 1)
      BY <2>1, NewLabels
    <2>3. \A x \in label_sequence_..(label_sequence_' - 1) : x \in Nat \ {0}
      <3> DEFINE a == label_sequence_
                 b == label_sequence_'
      <3>1. a \in Nat \ {0} /\ b \in Nat
        BY <1>1
      <3> HIDE DEF a, b
      <3>2. \A x \in a..(b - 1) : x \in Nat \ {0}
        BY <3>1
      <3>3. QED
        BY <3>2 DEF a, b
    <2>4. \A p \in DOMAIN label_stack_ : label_stack_[p] \in Nat
      BY ElementOfSeq, SMTT(30) DEF TypeOK, FlowOK
    <2>5. QED
      BY <2>2, <2>3, <2>4 DEF Numbered
  <1>4. Placed(optable_ \o code) = Placed(optable_) \cup Placed(code)
    BY <1>1, JoinedLabels
  <1>5. Placed(optable_') \subseteq Nat \ {0}
    BY <1>2, <1>3, <1>4 DEF Numbered
  <1>6. /\ kept \in 0..Len(label_stack_) /\ fresh \in Nat /\ Len(label_stack_') = kept + fresh
        /\ \A p \in 1..kept : label_stack_'[p] = label_stack_[p]
        /\ \A k \in 1..fresh : label_stack_'[kept + k] = label_sequence_ + k - 1
    BY DEF Labelled, Shifts
  <1>7. /\ DOMAIN label_stack_ = 1..Len(label_stack_) /\ Len(label_stack_) \in Nat
        /\ DOMAIN label_stack_' = 1..(kept + fresh)
    BY <1>6, LenProperties DEF TypeOK, FlowOK
  <1>8. ASSUME NEW p \in DOMAIN label_stack_' PROVE label_stack_'[p] # 0
    <2>1. CASE p <= kept
      <3>1. p \in 1..kept /\ p \in DOMAIN label_stack_
        BY <1>6, <1>7, <2>1
      <3>2. QED
        BY <1>6, <3>1 DEF Numbered
    <2>2. CASE p > kept
      <3>1. p - kept \in 1..fresh /\ kept + (p - kept) = p
        BY <1>6, <1>7, <2>2
      <3>2. label_stack_'[p] = label_sequence_ + (p - kept) - 1
        BY <1>6, <3>1
      <3>3. QED
        BY <1>1, <3>1, <3>2
    <2>3. p \in Int /\ kept \in Int
      BY <1>6, <1>7
    <2>4. QED
      BY <2>1, <2>2, <2>3
  <1>9. QED
    BY <1>5, <1>8 DEF Numbered

(* Nor does any other step. *)
LEMMA StepNumbered ==
  ASSUME ParserAssumption, IInv, LabelInv, InStep => Numbered, [Next]_vars, InStep'
  PROVE  Numbered'
  <1>1. IInv' /\ TypeOK /\ TypeOK'
    BY StepInv DEF IInv
  <1>2. InStep /\ Labelling /\ Numbered
    BY <1>1, StaysSplit DEF LabelInv
  <1>3. status' # "asserted"
    BY <1>1 DEF IInv, AssertionsHold
  <1>4. CASE Quiet
    <2>1. UNCHANGED <<label_stack_, optable_>>
      BY <1>4 DEF Quiet, flow
    <2>2. QED
      BY <1>2, <2>1 DEF Numbered
  <1>5. CASE Ordinary
    <2>1. PICK m, kept, old, fresh, new, used, breaks :
            /\ Replaces(m, kept, old, fresh, new, breaks)
            /\ Moved(kept, old, fresh, new, used, breaks)
      BY <1>5 DEF Ordinary
    <2>2. Labelled(kept, old, fresh, new, used, breaks)
      BY <2>1, MovedLabelled
    <2>3. QED
      BY <1>1, <1>2, <2>1, <2>2, NumberedNext
  <1>6. CASE Defining /\ ~GiveUp
    <2>1. PICK m, kept, old, fresh, new, used, breaks :
            /\ Replaces(m, kept, old, fresh, new, breaks)
            /\ Labelled(kept, old, fresh, new, used, breaks)
      BY <1>1, <1>2, <1>3, <1>6, DefiningLabelled
    <2>2. QED
      BY <1>1, <1>2, <2>1, NumberedNext
  <1>7. QED
    BY <1>1, <1>2, <1>4, <1>5, <1>6, StepClasses

(* Every opcode that ends a definition is in that definition. *)
Enclosed(code) ==
  \A j \in DOMAIN code : is_enddefine_opcode(code[j]) => InDefinition(code, j)

(* It stays so if code that ends a definition is written in one. *)
LEMMA EnclosedLater ==
  ASSUME NEW S, NEW s \in Seq(S), NEW t \in Seq(S), Enclosed(s),
         \A j \in DOMAIN t : is_enddefine_opcode(t[j]) =>
           /\ Unended(s) # {}
           /\ \A k \in 1..j : ~is_define_opcode(t[k])
           /\ \A k \in 1..(j - 1) : ~is_enddefine_opcode(t[k])
  PROVE  Enclosed(s \o t)
  <1> DEFINE st == s \o t
  <1>1. /\ \A k \in DOMAIN s : st[k] = s[k]
        /\ \A k \in DOMAIN t : st[Len(s) + k] = t[k]
        /\ \A k \in DOMAIN st :
             k \in DOMAIN s \/ (k - Len(s) \in DOMAIN t /\ k = Len(s) + (k - Len(s)))
    BY Joined
  <1>2. \A k \in DOMAIN s : OpenAt(st, k) = OpenAt(s, k)
    BY AtKept
  <1>3. ASSUME NEW j \in DOMAIN t, is_enddefine_opcode(t[j])
        PROVE  OpenAt(st, Len(s) + j) # {}
    <2>1. OpenAt(st, Len(s) + j) = Unended(s)
      BY <1>3, AtAppended
    <2>2. QED
      BY <1>3, <2>1
  <1> HIDE DEF st
  <1>4. ASSUME NEW j \in DOMAIN st, is_enddefine_opcode(st[j]) PROVE InDefinition(st, j)
    <2>1. CASE j \in DOMAIN s
      BY <1>1, <1>2, <1>4, <2>1 DEF Enclosed, InDefinition
    <2>2. CASE j - Len(s) \in DOMAIN t /\ j = Len(s) + (j - Len(s))
      <3> DEFINE k == j - Len(s)
      <3>1. k \in DOMAIN t /\ j = Len(s) + k
        BY <2>2
      <3> HIDE DEF k
      <3>2. is_enddefine_opcode(t[k])
        BY <1>1, <1>4, <3>1
      <3>3. QED
        BY <1>3, <3>1, <3>2 DEF InDefinition
    <2>3. QED
      BY <1>1, <1>4, <2>1, <2>2
  <1>5. QED
    BY <1>4 DEF Enclosed, st

(* A file without errors begins and ends its definitions so. *)
LEMMA DefiningEnclosed ==
  ASSUME ParserAssumption, TypeOK, Labelling, Guided, Bound, CodeFramed, Settling,
         InStep', status' # "asserted", ~GiveUp, Defining, error_count_ = 0, error_count_' = 0,
         Enclosed(optable_)
  PROVE  Enclosed(optable_')
  <1> DEFINE S == OpcodeSet(Symbols)
  <1>1. cond_state /\ optable_ \in Seq(S)
    BY DEF Defining, TypeOK, CodeOK
  <1>2. ASSUME NEW s \in Symbols, Emit(<<DefineOpcode(s)>>) PROVE Enclosed(optable_')
    <2> DEFINE o == DefineOpcode(s)
               t == <<o>>
    <2>1. o \in S /\ o.op = "define"
      BY BoundOpcodes
    <2> HIDE DEF o, S
    <2>2. t \in Seq(S) /\ DOMAIN t = 1..1 /\ t[1] = o
      BY <2>1
    <2>3. optable_' = optable_ \o t
      BY <1>2 DEF Emit, o
    <2> HIDE DEF t
    <2>4. \A j \in DOMAIN t : ~is_enddefine_opcode(t[j])
      BY <2>1, <2>2 DEF is_enddefine_opcode
    <2>5. Enclosed(optable_ \o t)
      BY <1>1, <2>2, <2>4, EnclosedLater
    <2>6. QED
      BY <2>3, <2>5
  <1>3. CASE \/ \E s \in Names : nest = <<>> /\ f_definedword(s)
             \/ \E s \in Anons : nest = <<>> /\ f_nonameword(s)
             \/ \E s \in Names : nest = <<>> /\ f_codeword(s)
    <2>1. ASSUME NEW s \in Names, f_definedword(s) PROVE Emit(<<DefineOpcode(s)>>)
      BY <2>1 DEF f_definedword, Handler, Asserting, Defined, parse_error, StartDefinition
    <2>2. ASSUME NEW s \in Anons, f_nonameword(s) PROVE Emit(<<DefineOpcode(s)>>)
      BY <2>2, NonameBegins DEF StartDefinition
    <2>3. ASSUME NEW s \in Names, f_codeword(s) PROVE Emit(<<DefineOpcode(s)>>)
      BY <2>3 DEF f_codeword, Handler, Asserting, Defined, Reject, parse_error, StartDefinition
    <2>4. Names \subseteq Symbols /\ Anons \subseteq Symbols
      BY DEF Symbols
    <2>5. QED
      BY <1>2, <1>3, <2>1, <2>2, <2>3, <2>4
  <1>4. ASSUME NEW comment \in BOOLEAN, f_code(comment) PROVE Enclosed(optable_')
    <2>1. PICK code : Emit(code) /\ (code = <<>> \/ code = <<AssemblyOpcode>>)
      BY <1>4 DEF f_code, Handler, Asserting
    <2>2. Carries(code, {}, {})
      BY <2>1, MereOpcodes, MereTuples
    <2>3. code \in Seq(S) /\ \A j \in DOMAIN code : ~is_enddefine_opcode(code[j])
      BY <2>2 DEF Carries, Inner
    <2> HIDE DEF S
    <2>4. Enclosed(optable_ \o code)
      BY <1>1, <2>3, EnclosedLater
    <2>5. QED
      BY <2>1, <2>4 DEF Emit
  <1>5. ASSUME nest # <<>>, Top.kind \in {"definition", "noname", "coded"}, nest' = Front(nest),
               split' = (split \/ Top.active # cond_state)
        PROVE  /\ current_definition_ \in Symbols /\ current_definition_ # NoSymbol
               /\ Unended(optable_) # {}
    <2>1. Top.active
      BY <1>1, <1>5 DEF InStep
    <2>2. Top = nest[1]
      BY <1>5, BodyAlone DEF Bodies
    <2>3. current_definition_ \in Symbols /\ current_definition_ # NoSymbol
      BY <1>5, <2>1, <2>2, BodyCurrent DEF Bodies
    <2>4. QED
      BY <2>3 DEF Settling, Delimited, Continued
  <1>6. ASSUME Unended(optable_) # {}, NEW code \in Seq(S), NEW e \in DOMAIN code,
               \A k \in DOMAIN code :
                 ~is_define_opcode(code[k]) /\ (is_enddefine_opcode(code[k]) => k = e),
               Emit(code)
        PROVE  Enclosed(optable_')
    <2>1. DOMAIN code = 1..Len(code) /\ Len(code) \in Nat
      BY LenProperties
    <2>2. ASSUME NEW j \in DOMAIN code, is_enddefine_opcode(code[j])
          PROVE  /\ \A k \in 1..j : ~is_define_opcode(code[k])
                 /\ \A k \in 1..(j - 1) : ~is_enddefine_opcode(code[k])
      <3>1. j = e /\ \A k \in 1..j : k \in DOMAIN code
        BY <1>6, <2>1, <2>2
      <3>2. \A k \in 1..(j - 1) : k \in DOMAIN code /\ k # e
        BY <2>1, <3>1
      <3>3. QED
        BY <1>6, <3>1, <3>2
    <2> HIDE DEF S
    <2>3. Enclosed(optable_ \o code)
      BY <1>1, <1>6, <2>2, EnclosedLater
    <2>4. QED
      BY <1>6, <2>3 DEF Emit
  <1>7. ASSUME nest # <<>>, Top.kind \in {"definition", "noname"}, nest' = Front(nest),
               split' = (split \/ Top.active # cond_state), f_semicolon
        PROVE  Enclosed(optable_')
    <2>1. current_definition_ \in Symbols /\ current_definition_ # NoSymbol /\ Unended(optable_) # {}
      BY <1>5, <1>7
    <2>2. PICK code : EndsBody(code, LabelUnder(0), current_definition_) /\ Emit(code)
      BY <1>1, <1>7, <2>1, SemicolonCode
    <2>3. /\ code \in Seq(S) /\ Len(code) \in {2, 4}
          /\ code[1] = LabelOpcode(LabelUnder(0)) /\ code[2] = EndDefineOpcode(current_definition_)
          /\ \A k \in 3..Len(code) : Mere(code[k])
      BY <2>2 DEF EndsBody
    <2>4. DOMAIN code = 1..Len(code)
      BY <2>3, LenProperties
    <2>5. code[1].op = "label"
      BY <2>3 DEF LabelOpcode, Targeted, Opcode
    <2>6. code[2].op = "enddefine"
      BY <2>1, <2>3, BoundOpcodes
    <2>7. \A k \in DOMAIN code : k = 1 \/ k = 2 \/ k \in 3..Len(code)
      BY <2>3, <2>4
    <2>8. \A k \in DOMAIN code :
            ~is_define_opcode(code[k]) /\ (is_enddefine_opcode(code[k]) => k = 2)
      BY <2>3, <2>5, <2>6, <2>7 DEF Mere, is_define_opcode, is_enddefine_opcode
    <2>9. 2 \in DOMAIN code
      BY <2>3, <2>4
    <2>10. QED
      BY <1>6, <2>1, <2>2, <2>3, <2>8, <2>9
  <1>8. ASSUME nest # <<>>, Top.kind = "coded", nest' = Front(nest),
               split' = (split \/ Top.active # cond_state), f_end_code
        PROVE  Enclosed(optable_')
    <2>1. current_definition_ \in Symbols /\ current_definition_ # NoSymbol /\ Unended(optable_) # {}
      BY <1>5, <1>8
    <2> DEFINE o    == EndDefineOpcode(current_definition_)
               code == <<o>>
    <2>2. Emit(code)
      BY <1>8, <2>1 DEF f_end_code, Handler, Asserting
    <2>3. o \in S /\ o.op = "enddefine"
      BY <2>1, BoundOpcodes
    <2> HIDE DEF o, S
    <2>4. code \in Seq(S) /\ DOMAIN code = 1..1 /\ code[1] = o
      BY <2>3
    <2> HIDE DEF code
    <2>5. \A k \in DOMAIN code :
            ~is_define_opcode(code[k]) /\ (is_enddefine_opcode(code[k]) => k = 1)
      BY <2>3, <2>4 DEF is_define_opcode
    <2>6. 1 \in DOMAIN code
      BY <2>4
    <2>7. QED
      BY <1>6, <2>1, <2>2, <2>4, <2>5, <2>6 DEF S
  <1>9. QED
    BY <1>3, <1>4, <1>7, <1>8, DefiningActs

(* Whatever the step, as long as no error was found. *)
LEMMA StepEnclosed ==
  ASSUME ParserAssumption, NamesInv, Clean => Enclosed(optable_), [Next]_vars, Clean'
  PROVE  Enclosed(optable_')
  <1>1. NamesInv' /\ CleanInv' /\ CleanInv
    BY StepNames DEF NamesInv
  <1>2. IInv /\ IInv' /\ TypeOK /\ TypeOK'
    BY <1>1 DEF CleanInv, IInv
  <1>3. InStep' /\ InStep /\ Labelling /\ error_count_' = 0
    BY <1>1, <1>2, StaysSplit DEF Clean, CleanInv, LabelInv
  <1>4. error_count_ = 0
    <2>1. error_count_' >= error_count_
      BY <1>2, <1>3, ErrorsGrow
    <2>2. error_count_ \in Nat
      BY <1>2 DEF TypeOK, SymbolsOK
    <2>3. QED
      BY <1>3, <2>1, <2>2
  <1>5. Guided /\ Bound /\ Settling /\ CodeFramed /\ Enclosed(optable_)
    BY <1>1, <1>3, <1>4 DEF CleanInv, BranchInv, NamesInv, NameInv, Clean
  <1>6. status' # "asserted"
    BY <1>2, <1>3 DEF IInv, AssertionsHold
  <1>7. CASE Quiet
    BY <1>5, <1>7 DEF Quiet
  <1>8. CASE Ordinary
    <2>1. PICK kept, old, fresh, new, used, breaks : Moved(kept, old, fresh, new, used, breaks)
      BY <1>8 DEF Ordinary
    <2>2. PICK placed, referred : Writes(placed, referred)
      BY <2>1 DEF Moved
    <2>3. PICK code : optable_' = optable_ \o code /\ Carries(code, placed, referred)
      BY <2>2 DEF Writes
    <2> DEFINE S == OpcodeSet(Symbols)
    <2>4. /\ code \in Seq(S) /\ \A j \in DOMAIN code : ~is_enddefine_opcode(code[j])
          /\ optable_ \in Seq(S)
      BY <1>2, <2>3 DEF Carries, Inner, TypeOK, CodeOK
    <2> HIDE DEF S
    <2>5. Enclosed(optable_ \o code)
      BY <1>5, <2>4, EnclosedLater
    <2>6. QED
      BY <2>3, <2>5
  <1>9. CASE Defining /\ ~GiveUp
    BY <1>2, <1>3, <1>4, <1>5, <1>6, <1>9, DefiningEnclosed
  <1>10. QED
    BY <1>2, <1>3, <1>7, <1>8, <1>9, StepClasses

-----------------------------------------------------------------------------
(* What the parser leaves of a file without errors: its definitions have   *)
(* ended, and each branch goes to a label in its own definition or, as     *)
(* that is outside definitions, to label 0.                                *)
Finished(code) ==
  /\ code \in Seq(OpcodeSet(Symbols))
  /\ Placed(code) \subseteq Nat \ {0} /\ Once(code)
  /\ Paired(code) /\ Unended(code) = {} /\ Enclosed(code)
  /\ \A i \in 1..Len(code) : is_branching_opcode(code[i]) => Settled(code, i)

LEMMA Finishing ==
  ASSUME ParserAssumption, NamesInv, Clean, Numbered, Enclosed(optable_), status = "returned"
  PROVE  Finished(optable_)
  <1>1. /\ optable_ \in Seq(OpcodeSet(Symbols)) /\ Labelling /\ Guided /\ Bound /\ Settling
        /\ nest = <<>>
    BY DEF NamesInv, CleanInv, IInv, TypeOK, CodeOK, LabelInv, BranchInv, NameInv, StatusOK, Clean
  <1>2. DOMAIN optable_ = 1..Len(optable_)
    BY <1>1, LenProperties
  <1>3. current_definition_ = NoSymbol /\ label_stack_ = <<>>
    BY <1>1 DEF Bound, Outermost
  <1>4. Unended(optable_) = {} /\ Lead(optable_, label_stack_)
    BY <1>1, <1>3 DEF Guided
  <1>5. \A i : ~Waits(optable_, label_stack_, i)
    BY <1>3 DEF Waits
  <1>6. \A i \in 1..Len(optable_) : is_branching_opcode(optable_[i]) => Settled(optable_, i)
    BY <1>2, <1>4, <1>5 DEF Lead
  <1>7. QED
    BY <1>1, <1>4, <1>6 DEF Finished, Numbered, Labelling, Settling, Delimited

(* So every definition has ended. *)
LEMMA FinishedEnded ==
  ASSUME NEW code, Finished(code)
  PROVE  Ended(code)
  <1>1. DOMAIN code = 1..Len(code) /\ Len(code) \in Nat
    BY LenProperties DEF Finished
  <1>2. SUFFICES ASSUME NEW d \in 1..Len(code), is_define_opcode(code[d])
                 PROVE  \E e \in (d + 1)..Len(code) :
                          /\ is_enddefine_opcode(code[e])
                          /\ \A k \in (d + 1)..e : ~is_define_opcode(code[k])
    BY DEF Ended
  <1> DEFINE T == {e \in (d + 1)..Len(code) : is_enddefine_opcode(code[e])}
             end == Min(T)
  <1>3. ASSUME T = {} PROVE FALSE
    <2>1. \A e \in d..Len(code) : e = d \/ e \in (d + 1)..Len(code)
      BY <1>1
    <2>2. \A e \in d..Len(code) : ~is_enddefine_opcode(code[e])
      BY <1>2, <1>3, <2>1 DEF is_define_opcode, is_enddefine_opcode
    <2>3. d \in Unended(code)
      BY <1>2, <2>2 DEF Unended
    <2>4. QED
      BY <2>3 DEF Finished
  <1>4. T \in SUBSET (1..Len(code)) /\ T # {}
    BY <1>1, <1>3
  <1> HIDE DEF T
  <1>5. end \in T /\ \A y \in T : end <= y
    BY <1>1, <1>4, Extremes
  <1> HIDE DEF end
  <1>6. /\ end \in (d + 1)..Len(code) /\ is_enddefine_opcode(code[end])
        /\ \A k \in (d + 1)..Len(code) : is_enddefine_opcode(code[k]) => end <= k
    BY <1>5 DEF T
  <1>7. \A k \in (d + 1)..(end - 1) : k \in (d + 1)..Len(code) /\ ~(end <= k)
    BY <1>1, <1>6
  <1>8. end \in 1..Len(code) /\ end > d /\ end \in Int /\ d \in Int
    BY <1>1, <1>6
  <1>9. Ends(code, d, end)
    BY <1>1, <1>2, <1>6, <1>7, <1>8 DEF Ends
  <1>10. \A k \in (d + 1)..end : ~is_define_opcode(code[k])
    BY <1>8, <1>9 DEF Finished, Paired
  <1>11. QED
    BY <1>6, <1>10

(* The code inside definitions with its frame. *)
LEMMA SelectedFramed ==
  ASSUME NEW S, NEW code \in Seq(S), NEW T, NEW flat, NEW from, Selected(code, T, flat, from),
         \A i \in 1..Len(code) : Bounds(code[i]) => i \in T
  PROVE  Framed(code, flat, from)
  <1>1. /\ \A k \in 1..Len(flat) :
             from[k] \in 1..Len(code) /\ from[k] \in T /\ flat[k] = code[from[k]]
        /\ \A k, l \in 1..Len(flat) : k < l => from[k] < from[l]
        /\ \A i \in 1..Len(code) : i \in T => \E k \in 1..Len(flat) : from[k] = i
    BY DEF Selected
  <1>2. Len(code) \in Nat
    BY LenProperties
  <1>3. ASSUME NEW k \in 1..Len(flat), NEW l \in 1..Len(flat), k < l PROVE from[k] <= from[l]
    <2> DEFINE x == from[k]
               y == from[l]
    <2>1. x \in 1..Len(code) /\ y \in 1..Len(code) /\ x < y
      BY <1>1, <1>3
    <2> HIDE DEF x, y
    <2>2. x <= y
      BY <1>2, <2>1
    <2>3. QED
      BY <2>2 DEF x, y
  <1>4. ASSUME NEW k \in 1..Len(flat), NEW l \in 1..Len(flat), from[k] = from[l] PROVE k = l
    <2> DEFINE x == from[k]
    <2>1. x \in 1..Len(code) /\ from[k] = x /\ from[l] = x
      BY <1>1, <1>4
    <2> HIDE DEF x
    <2>2. ~(x < x)
      BY <1>2, <2>1
    <2>3. ~(k < l) /\ ~(l < k)
      BY <1>1, <2>1, <2>2
    <2>4. QED
      BY <2>3
  <1>5. ASSUME NEW i \in 1..Len(code), Bounds(code[i])
        PROVE  \E k \in 1..Len(flat) : /\ from[k] = i /\ flat[k] = code[i]
                                       /\ \A l \in 1..Len(flat) : from[l] = i => l = k
    BY <1>1, <1>4, <1>5
  <1>6. QED
    BY <1>1, <1>3, <1>5 DEF Framed

(* Where the parts of synthesized code are. *)
Layout(result, F, M, main) ==
  /\ result \in Seq(OpcodeSet(Symbols)) /\ Len(result) = Len(F) + Len(M) + 3
  /\ \A k \in 1..Len(F) : result[k] = F[k] /\ At(result, k) = At(F, k)
  /\ result[Len(F) + 1] = DefineOpcode(main)
  /\ \A k \in 1..Len(M) : result[Len(F) + 1 + k] = M[k]
  /\ result[Len(F) + Len(M) + 2] = LabelOpcode(0)
  /\ result[Len(F) + Len(M) + 3] = EndDefineOpcode(main)

(* Code written after other code. *)
Appended(st, s, n, t, m) ==
  /\ Len(st) = n + m
  /\ \A k \in 1..n : st[k] = s[k] /\ At(st, k) = At(s, k)
  /\ \A k \in 1..m : st[n + k] = t[k]

LEMMA AppendedIs ==
  ASSUME NEW S, NEW s \in Seq(S), NEW t \in Seq(S)
  PROVE  s \o t \in Seq(S) /\ Appended(s \o t, s, Len(s), t, Len(t))
  <1> DEFINE st == s \o t
  <1>1. /\ st \in Seq(S) /\ Len(st) = Len(s) + Len(t)
        /\ \A k \in DOMAIN s : st[k] = s[k]
        /\ \A k \in DOMAIN t : st[Len(s) + k] = t[k]
    BY Joined
  <1>2. DOMAIN s = 1..Len(s) /\ DOMAIN t = 1..Len(t)
    BY LenProperties
  <1>3. \A k \in DOMAIN s : At(st, k) = At(s, k)
    BY AtKept
  <1> HIDE DEF st
  <1>4. Appended(st, s, Len(s), t, Len(t))
    BY <1>1, <1>2, <1>3, Zenon DEF Appended
  <1>5. QED
    BY <1>1, <1>4 DEF st

LEMMA LayoutIs ==
  ASSUME ParserAssumption, NEW F \in Seq(OpcodeSet(Symbols)), NEW M \in Seq(OpcodeSet(Symbols)),
         NEW main \in Symbols
  PROVE  Layout(F \o <<DefineOpcode(main)>> \o M \o <<LabelOpcode(0), EndDefineOpcode(main)>>,
                F, M, main)
  <1> DEFINE S == OpcodeSet(Symbols)
             d == DefineOpcode(main)
             l == LabelOpcode(0)
             e == EndDefineOpcode(main)
             D == <<d>>
             Z == <<l, e>>
             A == F \o D
             B == A \o M
             R == B \o Z
             n == Len(F)
             m == Len(M)
  <1>1. d \in S /\ l \in S /\ e \in S
    BY BoundOpcodes, OpcodesTyped
  <1>2. F \in Seq(S) /\ M \in Seq(S)
    OBVIOUS
  <1> HIDE DEF S, d, l, e
  <1>3. D \in Seq(S) /\ Len(D) = 1 /\ D[1] = d
    BY <1>1
  <1>4. Z \in Seq(S) /\ Len(Z) = 2 /\ Z[1] = l /\ Z[2] = e
    BY <1>1
  <1>5. n \in Nat /\ m \in Nat
    BY <1>2, LenProperties
  <1> HIDE DEF D, Z
  <1>6. A \in Seq(S) /\ Appended(A, F, n, D, 1)
    <2>1. F \in Seq(S) /\ D \in Seq(S)
      BY <1>2, <1>3
    <2>2. F \o D \in Seq(S) /\ Appended(F \o D, F, Len(F), D, Len(D))
      BY <2>1, AppendedIs
    <2>3. QED
      BY <1>3, <2>2
  <1> HIDE DEF A
  <1>7. Len(A) = n + 1
    BY <1>6 DEF Appended
  <1>8. B \in Seq(S) /\ Appended(B, A, n + 1, M, m)
    <2>1. A \in Seq(S) /\ M \in Seq(S)
      BY <1>2, <1>6
    <2>2. A \o M \in Seq(S) /\ Appended(A \o M, A, Len(A), M, Len(M))
      BY <2>1, AppendedIs
    <2>3. QED
      BY <1>7, <2>2
  <1> HIDE DEF B
  <1>9. Len(B) = n + m + 1
    BY <1>5, <1>8 DEF Appended
  <1>10. R \in Seq(S) /\ Appended(R, B, n + m + 1, Z, 2)
    <2>1. B \in Seq(S) /\ Z \in Seq(S)
      BY <1>4, <1>8
    <2>2. B \o Z \in Seq(S) /\ Appended(B \o Z, B, Len(B), Z, Len(Z))
      BY <2>1, AppendedIs
    <2>3. QED
      BY <1>4, <1>9, <2>2
  <1> HIDE DEF R, n, m
  <1>11. /\ \A k \in 1..n : k \in 1..(n + 1) /\ k \in 1..(n + m + 1)
         /\ n + 1 \in 1..(n + m + 1) /\ 1 \in 1..1 /\ 1 \in 1..2 /\ 2 \in 1..2
         /\ \A k \in 1..m : n + 1 + k \in 1..(n + m + 1) /\ (n + 1) + k = n + 1 + k
         /\ (n + m + 1) + 1 = n + m + 2 /\ (n + m + 1) + 2 = n + m + 3
    BY <1>5
  <1>12. \A k \in 1..n : R[k] = F[k] /\ At(R, k) = At(F, k)
    BY <1>6, <1>8, <1>10, <1>11, Zenon DEF Appended
  <1>13. R[n + 1] = d
    <2>1. A[n + 1] = D[1]
      BY <1>6, <1>11, Zenon DEF Appended
    <2>2. n + 1 \in 1..(n + 1)
      BY <1>5
    <2>3. B[n + 1] = A[n + 1]
      BY <1>8, <2>2, Zenon DEF Appended
    <2>4. R[n + 1] = B[n + 1]
      BY <1>10, <1>11, Zenon DEF Appended
    <2>5. QED
      BY <1>3, <2>1, <2>3, <2>4
  <1>14. \A k \in 1..m : R[n + 1 + k] = M[k]
    BY <1>8, <1>10, <1>11, Zenon DEF Appended
  <1>15. R[n + m + 2] = l /\ R[n + m + 3] = e
    <2>1. R[(n + m + 1) + 1] = Z[1] /\ R[(n + m + 1) + 2] = Z[2]
      BY <1>10, <1>11, Zenon DEF Appended
    <2>2. QED
      BY <1>4, <1>11, <2>1, Zenon
  <1>16. Len(R) = n + m + 3
    BY <1>5, <1>10 DEF Appended
  <1>17. Layout(R, F, M, main)
    BY <1>10, <1>12, <1>13, <1>14, <1>15, <1>16, Zenon DEF Layout, S, d, l, e, n, m
  <1>18. QED
    BY <1>17, Zenon DEF R, B, A, D, Z, d, l, e

(* Synthesized code, the parts it is put together from, and where in the   *)
(* code of the source file their opcodes come from.                        *)
Within(code) == {i \in DOMAIN code : InDefinition(code, i)}

Gathered(code, result, main, F, M, f, g) ==
  /\ F \in Seq(OpcodeSet(Symbols)) /\ M \in Seq(OpcodeSet(Symbols))
  /\ Selected(code, Within(code), F, f) /\ Selected(code, Outside(code), M, g)
  /\ M = <<>> => result = code
  /\ M # <<>> => Layout(result, F, M, main)

LEMMA SynthesizedIs ==
  ASSUME ParserAssumption, NEW code \in Seq(OpcodeSet(Symbols)), NEW main \in Symbols
  PROVE  \E F, M, f, g : Gathered(code, synthesize_main(code, main), main, F, M, f, g)
  <1> DEFINE S == OpcodeSet(Symbols)
             F == Part(code, Within(code))
             M == Part(code, Outside(code))
  <1>1. \A i : InFunction(code, i) <=> InDefinition(code, i)
    BY DEF InFunction, InDefinition, OpenAt
  <1>2. {i \in DOMAIN code : InFunction(code, i)} = Within(code)
    BY <1>1 DEF Within
  <1>3. {i \in DOMAIN code : ~InFunction(code, i)} = Outside(code)
    BY <1>1 DEF Outside, InDefinition
  <1>4. Split(code).functions = F /\ Split(code).main = M
    BY <1>2, <1>3 DEF Split
  <1>5. F \in Seq(S) /\ \E from : Selected(code, Within(code), F, from)
    <2> DEFINE T == Within(code)
    <2> HIDE DEF S, T
    <2>1. code \in Seq(S)
      BY DEF S
    <2>2. Part(code, T) \in Seq(S) /\ \E from : Selected(code, T, Part(code, T), from)
      BY <2>1, PartIs
    <2>3. QED
      BY <2>2 DEF T
  <1>6. M \in Seq(S) /\ \E from : Selected(code, Outside(code), M, from)
    <2> DEFINE T == Outside(code)
    <2> HIDE DEF S, T
    <2>1. code \in Seq(S)
      BY DEF S
    <2>2. Part(code, T) \in Seq(S) /\ \E from : Selected(code, T, Part(code, T), from)
      BY <2>1, PartIs
    <2>3. QED
      BY <2>2 DEF T
  <1>7. PICK f : Selected(code, Within(code), F, f)
    BY <1>5
  <1>8. PICK g : Selected(code, Outside(code), M, g)
    BY <1>6
  <1>9. synthesize_main(code, main) =
          IF M = <<>> THEN code
          ELSE F \o <<DefineOpcode(main)>> \o M \o <<LabelOpcode(0), EndDefineOpcode(main)>>
    BY <1>4 DEF synthesize_main
  <1> HIDE DEF F, M
  <1>10. Layout(F \o <<DefineOpcode(main)>> \o M \o <<LabelOpcode(0), EndDefineOpcode(main)>>,
                F, M, main)
    BY <1>5, <1>6, LayoutIs
  <1>11. Gathered(code, synthesize_main(code, main), main, F, M, f, g)
    BY <1>5, <1>6, <1>7, <1>8, <1>9, <1>10 DEF Gathered
  <1>12. QED
    BY <1>11

(* What is in definitions of code without main, and what is not.           *)
LEMMA FinishedParts ==
  ASSUME NEW code, Finished(code)
  PROVE  /\ \A i \in 1..Len(code) : Bounds(code[i]) => i \in Within(code)
         /\ \A i \in Within(code) : is_branching_opcode(code[i]) =>
              \E j \in Within(code) : Marks(code, j, code[i].n) /\ At(code, i) = At(code, j)
         /\ \A i \in Outside(code) : is_branching_opcode(code[i]) =>
              code[i].n = 0 \/ \E j \in Outside(code) : Marks(code, j, code[i].n)
  <1>1. /\ DOMAIN code = 1..Len(code) /\ Len(code) \in Nat
        /\ \A i \in 1..Len(code) : is_branching_opcode(code[i]) => Settled(code, i)
        /\ Enclosed(code)
    BY LenProperties DEF Finished
  <1>2. \A i \in 1..Len(code) : InDefinition(code, i) <=> At(code, i) # 0
    BY AtIs
  <1>3. \A i \in 1..Len(code) : /\ i \in Within(code) <=> At(code, i) # 0
                                /\ i \in Outside(code) <=> At(code, i) = 0
    BY <1>1, <1>2 DEF Within, Outside, InDefinition
  <1>4. \A i : i \in Within(code) \/ i \in Outside(code) => i \in 1..Len(code)
    BY <1>1 DEF Within, Outside
  <1>5. ASSUME NEW i \in 1..Len(code), Bounds(code[i]) PROVE i \in Within(code)
    <2>1. CASE is_define_opcode(code[i])
      <3>1. i \in 1..i /\ i..(i - 1) = {}
        OBVIOUS
      <3>2. i \in OpenAt(code, i)
        BY <2>1, <3>1 DEF OpenAt
      <3>3. QED
        BY <1>1, <3>2 DEF Within, InDefinition
    <2>2. CASE is_enddefine_opcode(code[i])
      BY <1>1, <2>2 DEF Within, Enclosed
    <2>3. QED
      BY <1>5, <2>1, <2>2 DEF Bounds
  <1>6. ASSUME NEW i \in 1..Len(code), is_branching_opcode(code[i])
        PROVE  \/ code[i].n = 0 /\ At(code, i) = 0
               \/ \E j \in 1..Len(code) : Marks(code, j, code[i].n) /\ At(code, i) = At(code, j)
    BY <1>1, <1>6 DEF Settled, Marks
  <1>7. ASSUME NEW i \in Within(code), is_branching_opcode(code[i])
        PROVE  \E j \in Within(code) : Marks(code, j, code[i].n) /\ At(code, i) = At(code, j)
    <2>1. i \in 1..Len(code) /\ At(code, i) # 0
      BY <1>3, <1>4, <1>7
    <2>2. PICK j \in 1..Len(code) : Marks(code, j, code[i].n) /\ At(code, i) = At(code, j)
      BY <1>6, <1>7, <2>1
    <2>3. j \in Within(code)
      BY <1>3, <2>1, <2>2
    <2>4. QED
      BY <2>2, <2>3
  <1>8. ASSUME NEW i \in Outside(code), is_branching_opcode(code[i]), code[i].n # 0
        PROVE  \E j \in Outside(code) : Marks(code, j, code[i].n)
    <2>1. i \in 1..Len(code) /\ At(code, i) = 0
      BY <1>3, <1>4, <1>8
    <2>2. PICK j \in 1..Len(code) : Marks(code, j, code[i].n) /\ At(code, i) = At(code, j)
      BY <1>6, <1>8, <2>1
    <2>3. j \in Outside(code)
      BY <1>3, <2>1, <2>2
    <2>4. QED
      BY <2>2, <2>3
  <1>9. QED
    BY <1>5, <1>7, <1>8

(* Code that is all in definitions is sound as it is. *)
LEMMA AloneSound ==
  ASSUME NEW code, Finished(code), Outside(code) = {}
  PROVE  Sound(code)
  <1>1. DOMAIN code = 1..Len(code) /\ Len(code) \in Nat /\ Ended(code)
    BY LenProperties, FinishedEnded DEF Finished
  <1>2. \A i \in 1..Len(code) : InDefinition(code, i) /\ i \in Within(code)
    BY <1>1 DEF Outside, InDefinition, Within
  <1>3. \A i \in 1..Len(code) : is_branching_opcode(code[i]) =>
          \E j \in Within(code) : Marks(code, j, code[i].n) /\ At(code, i) = At(code, j)
    BY <1>2, FinishedParts
  <1>4. Within(code) \subseteq 1..Len(code)
    BY <1>1 DEF Within
  <1>5. code \in Seq(AnyOpcode)
    BY ParserOpcodes DEF Finished
  <1>6. QED
    BY <1>1, <1>2, <1>3, <1>4, <1>5 DEF Sound, Finished

(* The opcodes of synthesized code, place by place. *)
Placement(code, R, F, M, f, g, k) ==
  \/ /\ k \in 1..Len(F) /\ R[k] = code[f[k]] /\ f[k] \in Within(code)
     /\ R[k] = F[k] /\ At(R, k) = At(F, k)
  \/ k = Len(F) + 1 /\ R[k].op = "define"
  \/ \E j \in 1..Len(M) :
       k = Len(F) + 1 + j /\ R[k] = code[g[j]] /\ g[j] \in Outside(code)
  \/ k = Len(F) + Len(M) + 2 /\ R[k].op = "label" /\ R[k].n = 0
  \/ k = Len(F) + Len(M) + 3 /\ R[k].op = "enddefine"

LEMMA GatheredOpcodes ==
  ASSUME ParserAssumption, NEW code \in Seq(OpcodeSet(Symbols)), NEW main \in Symbols,
         NEW R, NEW F, NEW M, NEW f, NEW g, Gathered(code, R, main, F, M, f, g), M # <<>>,
         NEW k \in 1..Len(R)
  PROVE  Placement(code, R, F, M, f, g, k)
  <1> DEFINE n == Len(F)
             m == Len(M)
  <1>1. /\ Len(R) = n + m + 3
        /\ \A j \in 1..n : R[j] = F[j] /\ At(R, j) = At(F, j)
        /\ R[n + 1] = DefineOpcode(main)
        /\ \A j \in 1..m : R[n + 1 + j] = M[j]
        /\ R[n + m + 2] = LabelOpcode(0)
        /\ R[n + m + 3] = EndDefineOpcode(main)
    BY DEF Gathered, Layout
  <1>2. n \in Nat /\ m \in Nat
    BY LenProperties DEF Gathered
  <1>3. /\ \A j \in 1..n : f[j] \in Within(code) /\ F[j] = code[f[j]]
        /\ \A j \in 1..m : g[j] \in Outside(code) /\ M[j] = code[g[j]]
    BY DEF Gathered, Selected
  <1>4. /\ DefineOpcode(main).op = "define" /\ EndDefineOpcode(main).op = "enddefine"
        /\ LabelOpcode(0).op = "label" /\ LabelOpcode(0).n = 0
    BY DEF DefineOpcode, EndDefineOpcode, LabelOpcode, Symbolic, Targeted, Opcode
  <1>5. CASE k \in 1..n
    BY <1>1, <1>3, <1>5 DEF Placement
  <1>6. CASE k = n + 1
    BY <1>1, <1>4, <1>6 DEF Placement
  <1>7. CASE k - n - 1 \in 1..m
    <2>1. k = n + 1 + (k - n - 1)
      BY <1>2
    <2> DEFINE j == k - n - 1
    <2>2. j \in 1..m /\ k = n + 1 + j
      BY <1>7, <2>1
    <2> HIDE DEF j, n, m
    <2>3. R[k] = code[g[j]] /\ g[j] \in Outside(code)
      BY <1>1, <1>3, <2>2, Zenon
    <2>4. QED
      BY <2>2, <2>3, Zenon DEF Placement, n, m
  <1>8. CASE k = n + m + 2
    BY <1>1, <1>4, <1>8 DEF Placement
  <1>9. CASE k = n + m + 3
    BY <1>1, <1>4, <1>9 DEF Placement
  <1>10. k \in 1..n \/ k = n + 1 \/ k - n - 1 \in 1..m \/ k = n + m + 2 \/ k = n + m + 3
    <2>1. Len(R) = n + m + 3
      BY <1>1
    <2> HIDE DEF n, m
    <2>2. k \in 1..(n + m + 3)
      BY <2>1
    <2>3. QED
      BY <1>2, <2>2
  <1>11. QED
    BY <1>5, <1>6, <1>7, <1>8, <1>9, <1>10, Zenon

(* All that is behind the other definitions is in the definition of main. *)
LEMMA MainWhole ==
  ASSUME ParserAssumption, NEW code, Finished(code), NEW main \in Symbols,
         NEW R, NEW F, NEW M, NEW f, NEW g, Gathered(code, R, main, F, M, f, g), M # <<>>,
         NEW p \in 1..Len(R), p > Len(F)
  PROVE  /\ InDefinition(R, p) /\ At(R, p) = At(R, Len(F) + 1)
         /\ p > Len(F) + 1 => ~is_define_opcode(R[p])
         /\ p < Len(F) + Len(M) + 3 => ~is_enddefine_opcode(R[p])
  <1> DEFINE n == Len(F)
             m == Len(M)
  <1>1. n \in Nat /\ m \in Nat /\ Len(R) = n + m + 3
    BY LenProperties DEF Gathered, Layout
  <1>2. DOMAIN code = 1..Len(code) /\ code \in Seq(OpcodeSet(Symbols))
    BY LenProperties DEF Finished
  <1>3. \A i \in Outside(code) : ~Bounds(code[i])
    <2>1. \A i \in 1..Len(code) : Bounds(code[i]) => i \in Within(code)
      BY FinishedParts
    <2>2. QED
      BY <1>2, <2>1 DEF Outside, Within, InDefinition
  <1>4. ASSUME NEW k \in 1..Len(R), k > n
        PROVE  /\ k > n + 1 => ~is_define_opcode(R[k])
               /\ k < n + m + 3 => ~is_enddefine_opcode(R[k])
               /\ k = n + 1 => is_define_opcode(R[k])
    <2>1. CASE k = n + 1 /\ R[k].op = "define"
      BY <1>1, <2>1 DEF is_define_opcode, is_enddefine_opcode
    <2>2. CASE \E j \in 1..m : k = n + 1 + j /\ R[k] = code[g[j]] /\ g[j] \in Outside(code)
      <3>1. PICK j \in 1..m : k = n + 1 + j /\ R[k] = code[g[j]] /\ g[j] \in Outside(code)
        BY <2>2
      <3>2. ~Bounds(R[k]) /\ k # n + 1
        BY <1>1, <1>3, <3>1
      <3>3. QED
        BY <3>2 DEF Bounds
    <2>3. CASE k = n + m + 2 /\ R[k].op = "label"
      BY <1>1, <2>3 DEF is_define_opcode, is_enddefine_opcode
    <2>4. CASE k = n + m + 3 /\ R[k].op = "enddefine"
      BY <1>1, <2>4 DEF is_define_opcode, is_enddefine_opcode
    <2>5. ~(k \in 1..n)
      BY <1>1, <1>4
    <2>6. Placement(code, R, F, M, f, g, k)
      BY <1>2, GatheredOpcodes
    <2>7. QED
      BY <2>1, <2>2, <2>3, <2>4, <2>5, <2>6, Zenon DEF Placement
  <1> HIDE DEF n, m
  <1>5. n + 1 \in 1..Len(R) /\ n + 1 <= p /\ n + 1 > n
    BY <1>1 DEF n
  <1>6. \A k \in (n + 1)..p : /\ k \in 1..Len(R) /\ k > n
                              /\ k > n + 1 <=> k # n + 1
                              /\ k < p => k < n + m + 3
    BY <1>1
  <1>7. Together(R, n + 1, p)
    BY <1>4, <1>6, Zenon DEF Together
  <1>8. n + 1 \in OpenAt(R, p)
    <2>1. is_define_opcode(R[n + 1])
      BY <1>4, <1>5
    <2>2. \A e \in (n + 1)..(p - 1) : e \in (n + 1)..p /\ e < p
      BY <1>1
    <2>3. \A e \in (n + 1)..(p - 1) : ~is_enddefine_opcode(R[e])
      BY <1>7, <2>2 DEF Together
    <2>4. n + 1 \in 1..p
      BY <1>1, <1>5
    <2>5. QED
      BY <2>1, <2>3, <2>4 DEF OpenAt
  <1>9. At(R, n + 1) = At(R, p)
    <2>1. n + 1 \in Nat /\ p \in Nat
      BY <1>1
    <2>2. QED
      BY <1>5, <1>7, <2>1, TogetherAt
  <1>10. p > n
    BY DEF n
  <1>11. QED
    BY <1>4, <1>8, <1>9, <1>10 DEF InDefinition, n, m

(* The other definitions are what they were. *)
LEMMA FunctionsKept ==
  ASSUME ParserAssumption, NEW code, Finished(code), NEW main \in Symbols,
         NEW R, NEW F, NEW M, NEW f, NEW g, Gathered(code, R, main, F, M, f, g), M # <<>>
  PROVE  /\ Framed(code, F, f) /\ Ended(F)
         /\ \A k \in 1..Len(F) : InDefinition(F, k) /\ InDefinition(R, k)
         /\ \A k, l \in 1..Len(F) : At(code, f[k]) = At(code, f[l]) => At(R, k) = At(R, l)
  <1> DEFINE S == OpcodeSet(Symbols)
  <1>1. /\ code \in Seq(S) /\ F \in Seq(S) /\ Selected(code, Within(code), F, f)
        /\ \A k \in 1..Len(F) : At(R, k) = At(F, k)
    BY DEF Gathered, Layout, Finished
  <1> HIDE DEF S
  <1>2. Len(code) \in Nat /\ Len(F) \in Nat /\ Len(F) >= 0
    BY <1>1, LenProperties
  <1>3. Framed(code, F, f)
    <2> DEFINE T == Within(code)
    <2>1. \A i \in 1..Len(code) : Bounds(code[i]) => i \in T
      BY FinishedParts
    <2>2. Selected(code, T, F, f)
      BY <1>1
    <2> HIDE DEF T
    <2>3. QED
      BY <1>1, <2>1, <2>2, SelectedFramed
  <1>4. Ended(F)
    BY <1>2, <1>3, FinishedEnded, EndedKept
  <1>5. ASSUME NEW k \in 1..Len(F) PROVE InDefinition(code, f[k]) /\ InDefinition(F, k)
    <2>1. InDefinition(code, f[k])
      BY <1>1 DEF Selected, Within
    <2>2. QED
      BY <1>2, <1>3, <2>1, InsideKept
  <1>6. ASSUME NEW k \in 1..Len(F) PROVE InDefinition(R, k)
    <2>1. k \in Nat /\ At(F, k) # 0
      BY <1>2, <1>5, AtIs
    <2>2. At(R, k) # 0
      BY <1>1, <2>1
    <2>3. QED
      BY <2>1, <2>2, AtIs
  <1>7. ASSUME NEW k \in 1..Len(F), NEW l \in 1..Len(F), At(code, f[k]) = At(code, f[l])
        PROVE  At(R, k) = At(R, l)
    <2>1. At(F, k) = At(F, l)
      BY <1>2, <1>3, <1>5, <1>7, AtKeptTogether
    <2>2. QED
      BY <1>1, <2>1
  <1>8. QED
    BY <1>3, <1>4, <1>5, <1>6, <1>7

(* Positions of a selection are as distinct as those they stem from. *)
LEMMA SelectedOnce ==
  ASSUME NEW S, NEW code \in Seq(S), NEW T, NEW flat \in Seq(S), NEW from,
         Selected(code, T, flat, from),
         NEW k \in 1..Len(flat), NEW l \in 1..Len(flat), from[k] = from[l]
  PROVE  k = l
  <1> DEFINE x == from[k]
  <1>1. /\ x \in 1..Len(code) /\ from[k] = x /\ from[l] = x
        /\ \A i, j \in 1..Len(flat) : i < j => from[i] < from[j]
    BY DEF Selected
  <1> HIDE DEF x
  <1>2. ~(x < x)
    BY <1>1
  <1>3. ~(k < l) /\ ~(l < k)
    BY <1>1, <1>2
  <1>4. QED
    BY <1>3

(* The labels of synthesized code are those of the code, and label 0. *)
LEMMA LabelsGathered ==
  ASSUME ParserAssumption, NEW code, Finished(code), NEW main \in Symbols,
         NEW R, NEW F, NEW M, NEW f, NEW g, Gathered(code, R, main, F, M, f, g), M # <<>>
  PROVE  Placed(R) \subseteq Nat /\ Once(R)
  <1> DEFINE n == Len(F)
             m == Len(M)
             S == OpcodeSet(Symbols)
             LF(k) == k \in 1..n /\ R[k] = code[f[k]] /\ f[k] \in Within(code)
             LM(k) == \E j \in 1..m : k = n + 1 + j /\ R[k] = code[g[j]] /\ g[j] \in Outside(code)
             LZ(k) == k = n + m + 2 /\ R[k].n = 0
  <1>2. /\ DOMAIN code = 1..Len(code) /\ code \in Seq(S) /\ F \in Seq(S) /\ M \in Seq(S)
        /\ DOMAIN R = 1..Len(R) /\ n \in Nat /\ m \in Nat
        /\ Selected(code, Within(code), F, f) /\ Selected(code, Outside(code), M, g)
    BY LenProperties DEF Finished, Gathered, Layout
  <1>3. ASSUME NEW k \in DOMAIN R, is_label_opcode(R[k])
        PROVE  LF(k) \/ LM(k) \/ LZ(k)
    <2>1. Placement(code, R, F, M, f, g, k)
      BY <1>2, GatheredOpcodes
    <2>2. R[k].op = "label" /\ "label" # "define" /\ "label" # "enddefine"
      BY <1>3 DEF is_label_opcode
    <2>3. QED
      BY <2>1, <2>2, Zenon DEF Placement
  <1>4. \A i : i \in Within(code) => i \in 1..Len(code) /\ i \notin Outside(code)
    BY <1>2 DEF Within, Outside, InDefinition
  <1>5. \A i : i \in Outside(code) => i \in 1..Len(code)
    BY <1>2 DEF Outside
  <1>6. ASSUME NEW i \in 1..Len(code), is_label_opcode(code[i]) PROVE code[i].n \in Nat \ {0}
    BY <1>2, <1>6 DEF Finished, Placed
  <1>7. ASSUME NEW i \in 1..Len(code), NEW j \in 1..Len(code), is_label_opcode(code[i]),
               is_label_opcode(code[j]), code[i].n = code[j].n
        PROVE  i = j
    BY <1>2, <1>7 DEF Finished, Once
  <1>8. Placed(R) \subseteq Nat
    <2>1. ASSUME NEW k \in DOMAIN R, is_label_opcode(R[k]) PROVE R[k].n \in Nat
      BY <1>3, <1>4, <1>5, <1>6, <2>1
    <2>2. QED
      BY <2>1 DEF Placed
  <1>9. ASSUME NEW k \in 1..n, NEW l \in 1..n, f[k] = f[l] PROVE k = l
    <2> DEFINE T == Within(code)
    <2>1. Selected(code, T, F, f) /\ code \in Seq(S) /\ F \in Seq(S)
      BY <1>2
    <2> HIDE DEF T, S
    <2>2. QED
      BY <1>9, <2>1, SelectedOnce
  <1>10. ASSUME NEW k \in 1..m, NEW l \in 1..m, g[k] = g[l] PROVE k = l
    <2> DEFINE T == Outside(code)
    <2>1. Selected(code, T, M, g) /\ code \in Seq(S) /\ M \in Seq(S)
      BY <1>2
    <2> HIDE DEF T, S
    <2>2. QED
      BY <1>10, <2>1, SelectedOnce
  <1>11. ASSUME NEW k \in DOMAIN R, NEW l \in DOMAIN R, is_label_opcode(R[k]),
                is_label_opcode(R[l]), R[k].n = R[l].n
         PROVE  k = l
    <2>1. LF(k) \/ LM(k) \/ LZ(k)
      BY <1>3, <1>11
    <2>2. LF(l) \/ LM(l) \/ LZ(l)
      BY <1>3, <1>11
    <2>3. CASE LF(k) /\ LF(l)
      BY <1>4, <1>7, <1>9, <1>11, <2>3
    <2>4. CASE LM(k) /\ LM(l)
      BY <1>5, <1>7, <1>10, <1>11, <2>4
    <2>5. CASE LZ(k) /\ LZ(l)
      BY <2>5
    <2>6. LF(k) \/ LM(k) => R[k].n # 0
      BY <1>4, <1>5, <1>6, <1>11
    <2>7. LF(l) \/ LM(l) => R[l].n # 0
      BY <1>4, <1>5, <1>6, <1>11
    <2>8. LF(k) /\ LM(l) => FALSE
      BY <1>4, <1>5, <1>7, <1>11
    <2>9. LM(k) /\ LF(l) => FALSE
      BY <1>4, <1>5, <1>7, <1>11
    <2> HIDE DEF LF, LM
    <2>10. QED
      BY <1>11, <2>1, <2>2, <2>3, <2>4, <2>5, <2>6, <2>7, <2>8, <2>9
  <1>12. QED
    BY <1>8, <1>11 DEF Once

(* Branches in synthesized code go to labels of their own definition.      *)
LEMMA BranchesGathered ==
  ASSUME ParserAssumption, NEW code, Finished(code), NEW main \in Symbols,
         NEW R, NEW F, NEW M, NEW f, NEW g, Gathered(code, R, main, F, M, f, g), M # <<>>,
         NEW k \in 1..Len(R), is_branching_opcode(R[k])
  PROVE  \E l \in 1..Len(R) : Marks(R, l, R[k].n) /\ At(R, k) = At(R, l)
  <1> DEFINE n == Len(F)
             m == Len(M)
  <1>1. /\ DOMAIN code = 1..Len(code) /\ code \in Seq(OpcodeSet(Symbols))
        /\ n \in Nat /\ m \in Nat /\ Len(R) = n + m + 3
        /\ \A j \in 1..n : R[j] = F[j] /\ F[j] = code[f[j]]
        /\ \A j \in 1..m : R[n + 1 + j] = M[j] /\ M[j] = code[g[j]]
        /\ R[n + m + 2] = LabelOpcode(0)
    BY LenProperties DEF Finished, Gathered, Layout, Selected
  <1>2. /\ \A i \in Within(code) : \E j \in 1..n : f[j] = i
        /\ \A i \in Outside(code) : \E j \in 1..m : g[j] = i
    BY <1>1 DEF Gathered, Selected, Within, Outside
  <1>3. ASSUME NEW p \in 1..Len(R), p > n PROVE At(R, p) = At(R, n + 1)
    BY <1>3, MainWhole
  <1>4. CASE k \in 1..n /\ R[k] = code[f[k]] /\ f[k] \in Within(code)
    <2>1. PICK j \in Within(code) : Marks(code, j, code[f[k]].n) /\ At(code, f[k]) = At(code, j)
      BY <1>4, FinishedParts
    <2>2. PICK l \in 1..n : f[l] = j
      BY <1>2
    <2>3. At(R, k) = At(R, l)
      BY <1>4, <2>1, <2>2, FunctionsKept
    <2>4. R[l] = code[j] /\ l \in 1..Len(R)
      BY <1>1, <2>2
    <2>5. Marks(R, l, R[k].n)
      BY <1>4, <2>1, <2>4 DEF Marks
    <2>6. QED
      BY <2>3, <2>4, <2>5
  <1>5. CASE \E j \in 1..m : k = n + 1 + j /\ R[k] = code[g[j]] /\ g[j] \in Outside(code)
    <2>1. PICK j \in 1..m : k = n + 1 + j /\ R[k] = code[g[j]] /\ g[j] \in Outside(code)
      BY <1>5
    <2>2. \E l \in 1..Len(R) : Marks(R, l, R[k].n) /\ l > n
      <3>1. CASE R[k].n = 0
        <4>1. is_label_opcode(R[n + m + 2]) /\ R[n + m + 2].n = 0
          BY <1>1 DEF is_label_opcode, LabelOpcode, Targeted, Opcode
        <4>2. n + m + 2 \in 1..Len(R) /\ n + m + 2 > n
          BY <1>1
        <4>3. QED
          BY <3>1, <4>1, <4>2 DEF Marks
      <3>2. CASE R[k].n # 0
        <4>1. PICK i \in Outside(code) : Marks(code, i, R[k].n)
          BY <2>1, <3>2, FinishedParts
        <4>2. PICK h \in 1..m : g[h] = i
          BY <1>2
        <4>3. n + 1 + h \in 1..Len(R) /\ n + 1 + h > n
          BY <1>1
        <4>4. R[n + 1 + h] = code[i]
          BY <1>1, <4>2
        <4>5. QED
          BY <4>1, <4>3, <4>4 DEF Marks
      <3>3. QED
        BY <3>1, <3>2
    <2>3. PICK l \in 1..Len(R) : Marks(R, l, R[k].n) /\ l > n
      BY <2>2
    <2>4. k > n
      BY <1>1, <2>1
    <2>5. QED
      BY <1>3, <2>3, <2>4
  <1>6. Placement(code, R, F, M, f, g, k)
    BY <1>1, GatheredOpcodes
  <1>7. R[k].op # "define" /\ R[k].op # "label" /\ R[k].op # "enddefine"
    BY DEF is_branching_opcode, BranchingOps
  <1>8. QED
    BY <1>4, <1>5, <1>6, <1>7, Zenon DEF Placement

(* With the code outside definitions in main, code is sound. *)
LEMMA FinishedSound ==
  ASSUME ParserAssumption, NEW code, Finished(code), NEW main \in Symbols
  PROVE  Sound(synthesize_main(code, main))
  <1> DEFINE R == synthesize_main(code, main)
  <1>1. \E F, M, f, g : Gathered(code, R, main, F, M, f, g)
    BY SynthesizedIs DEF Finished
  <1> HIDE DEF R
  <1>2. PICK F, M, f, g : Gathered(code, R, main, F, M, f, g)
    BY <1>1
  <1>3. CASE M = <<>>
    <2>1. Outside(code) = {}
      <3>1. DOMAIN code = 1..Len(code)
        BY LenProperties DEF Finished
      <3>2. Len(M) = 0 /\ 1..0 = {}
        BY <1>3
      <3>3. \A i \in 1..Len(code) : i \in Outside(code) => \E k \in 1..Len(M) : g[k] = i
        BY <1>2 DEF Gathered, Selected
      <3>4. QED
        BY <3>1, <3>2, <3>3 DEF Outside
    <2>2. R = code
      BY <1>2, <1>3 DEF Gathered
    <2>3. QED
      BY <2>1, <2>2, AloneSound DEF R
  <1>4. CASE M # <<>>
    <2> DEFINE n == Len(F)
               m == Len(M)
    <2>1. R \in Seq(OpcodeSet(Symbols)) /\ n \in Nat /\ m \in Nat /\ Len(R) = n + m + 3
      BY <1>2, <1>4, LenProperties DEF Gathered, Layout
    <2>2. Placed(R) \subseteq Nat /\ Once(R)
      BY <1>2, <1>4, LabelsGathered
    <2>3. ASSUME NEW k \in 1..Len(R) PROVE InDefinition(R, k)
      <3>1. CASE k \in 1..n
        BY <1>2, <1>4, <3>1, FunctionsKept
      <3>2. CASE k > n
        BY <1>2, <1>4, <3>2, MainWhole
      <3>3. k \in 1..n \/ k > n
        BY <2>1
      <3>4. QED
        BY <3>1, <3>2, <3>3
    <2>4. \A k \in 1..Len(R) : is_branching_opcode(R[k]) =>
            \E l \in 1..Len(R) : Marks(R, l, R[k].n) /\ At(R, k) = At(R, l)
      BY <1>2, <1>4, BranchesGathered
    <2>5. ASSUME NEW d \in 1..Len(R), is_define_opcode(R[d])
          PROVE  \E e \in (d + 1)..Len(R) : /\ is_enddefine_opcode(R[e])
                                            /\ \A k \in (d + 1)..e : ~is_define_opcode(R[k])
      <3>1. \A k \in 1..n : R[k] = F[k]
        BY <1>2, <1>4 DEF Gathered, Layout
      <3>2. \A k \in 1..Len(R) : k > n + 1 => ~is_define_opcode(R[k])
        <4>1. \A k \in 1..Len(R) : k > n + 1 => k > n
          BY <2>1
        <4>2. QED
          BY <1>2, <1>4, <4>1, MainWhole
      <3>3. CASE d \in 1..n
        <4>1. Ended(F)
          BY <1>2, <1>4, FunctionsKept
        <4>2. PICK e \in (d + 1)..n : /\ is_enddefine_opcode(F[e])
                                      /\ \A k \in (d + 1)..e : ~is_define_opcode(F[k])
          BY <2>5, <3>1, <3>3, <4>1 DEF Ended
        <4>3. /\ e \in 1..n /\ e \in (d + 1)..Len(R)
              /\ \A k \in (d + 1)..e : k \in 1..n
          BY <2>1, <3>3
        <4>4. QED
          BY <3>1, <4>2, <4>3
      <3>4. CASE d = n + 1
        <4>1. R[n + m + 3] = EndDefineOpcode(main)
          BY <1>2, <1>4 DEF Gathered, Layout
        <4>2. is_enddefine_opcode(R[n + m + 3])
          BY <4>1 DEF is_enddefine_opcode, EndDefineOpcode, Symbolic, Opcode
        <4>3. /\ n + m + 3 \in (d + 1)..Len(R)
              /\ \A k \in (d + 1)..(n + m + 3) : k \in 1..Len(R) /\ k > n + 1
          BY <2>1, <3>4
        <4>4. QED
          BY <3>2, <4>2, <4>3
      <3>5. d \in 1..n \/ d = n + 1 \/ d > n + 1
        BY <2>1
      <3>6. QED
        BY <2>5, <3>2, <3>3, <3>4, <3>5
    <2>6. Ended(R)
      BY <2>5 DEF Ended
    <2>7. R \in Seq(AnyOpcode)
      BY <2>1, ParserOpcodes
    <2>8. Sound(R)
      BY <2>1, <2>2, <2>3, <2>4, <2>6, <2>7 DEF Sound
    <2>9. QED
      BY <2>8 DEF R
  <1>5. QED
    BY <1>3, <1>4


-----------------------------------------------------------------------------
(* The check for unreachable code and the pass that removes it.  The check *)
(* looks at the code as it was parsed, the pass at the code that main has  *)
(* been gathered from; but neighbours stay neighbours, in definitions and  *)
(* outside, and what follows main is the label of its end.                 *)
LEMMA NoNops ==
  ASSUME NEW code \in Seq(OpcodeSet(Symbols)), NEW i \in 1..Len(code)
  PROVE  ~is_noop_opcode(code[i])
  <1>1. code[i] \in OpcodeSet(Symbols)
    BY ElementOfSeq
  <1>2. code[i].op # "noop"
    BY <1>1 DEF OpcodeSet, BranchingOps
  <1>3. QED
    BY <1>2 DEF is_noop_opcode

(* A jump in front of something other than a label is warned of. *)
LEMMA JumpWarned ==
  ASSUME ParserAssumption, NEW code \in Seq(OpcodeSet(Symbols)), NEW i \in 1..Len(code),
         is_jump_opcode(code[i]), i < Len(code), ~is_label_opcode(code[i + 1])
  PROVE  i \in unreachable_check(code)
  <1>1. DOMAIN code = 1..Len(code) /\ Len(code) \in Nat
    BY LenProperties
  <1>2. i + 1 \in (i + 1)..Len(code) /\ i \in Nat /\ (i + 1)..((i + 1) - 1) = {} /\ i + 1 \in 1..Len(code)
    BY <1>1
  <1>3. ~is_noop_opcode(code[i + 1])
    BY <1>2, NoNops
  <1>4. NextReal(code, i) = code[i + 1]
    BY <1>2, <1>3, NextRealAt
  <1>5. QED
    BY <1>1, <1>3, <1>4 DEF unreachable_check, Expected

(* What is selected next to what is selected stays next to it. *)
Behind(q, p) == q = p + 1

LEMMA SelectedNext ==
  ASSUME NEW S, NEW code \in Seq(S), NEW T, NEW flat \in Seq(S), NEW from,
         Selected(code, T, flat, from), NEW k \in 1..Len(flat),
         NEW q \in 1..Len(code), q \in T, Behind(q, from[k])
  PROVE  k + 1 \in 1..Len(flat) /\ flat[k + 1] = code[q]
  <1> DEFINE a == from[k]
  <1> USE DEF Behind
  <1>1. Len(flat) \in Nat /\ Len(code) \in Nat /\ a \in 1..Len(code)
    BY LenProperties DEF Selected
  <1>2. PICK l \in 1..Len(flat) : from[l] = a + 1
    BY DEF Selected
  <1>3. k < l
    <2>1. ASSUME l < k PROVE FALSE
      <3>1. from[l] < from[k]
        BY <2>1 DEF Selected
      <3>2. QED
        BY <1>1, <1>2, <3>1
    <2>2. l # k
      BY <1>1, <1>2
    <2>3. QED
      BY <1>1, <2>1, <2>2
  <1>4. k + 1 \in 1..Len(flat)
    BY <1>1, <1>3
  <1>5. ASSUME k + 1 < l PROVE FALSE
    <2> DEFINE b == from[k + 1]
    <2>1. a < b /\ b < from[l] /\ b \in 1..Len(code)
      <3>1. k < k + 1
        OBVIOUS
      <3>2. QED
        BY <1>4, <1>5, <3>1 DEF Selected
    <2> HIDE DEF a, b
    <2>2. QED
      BY <1>1, <1>2, <2>1
  <1>6. l = k + 1
    BY <1>1, <1>3, <1>5
  <1>7. flat[l] = code[from[l]]
    BY DEF Selected
  <1>8. QED
    BY <1>2, <1>4, <1>6, <1>7

(* What follows a jump is in a definition if and only if the jump is. *)
LEMMA AfterJump ==
  ASSUME NEW code, Finished(code), NEW i \in 1..Len(code), is_jump_opcode(code[i])
  PROVE  /\ i \in Within(code) => i < Len(code) /\ i + 1 \in Within(code)
         /\ i \in Outside(code) /\ i < Len(code) /\ is_label_opcode(code[i + 1]) =>
              i + 1 \in Outside(code)
  <1>1. DOMAIN code = 1..Len(code) /\ Len(code) \in Nat
    BY LenProperties DEF Finished
  <1>2. ~is_enddefine_opcode(code[i])
    BY DEF is_jump_opcode, is_enddefine_opcode
  <1>3. ASSUME i \in Within(code)
        PROVE  i < Len(code) /\ i + 1 \in Within(code)
    <2>1. PICK d \in OpenAt(code, i) : TRUE
      BY <1>3 DEF Within, InDefinition
    <2>2. /\ d \in 1..i /\ is_define_opcode(code[d])
          /\ \A e \in d..(i - 1) : ~is_enddefine_opcode(code[e])
      BY <2>1 DEF OpenAt
    <2>3. d \notin Unended(code)
      BY DEF Finished
    <2>4. d \in 1..Len(code)
      BY <1>1, <2>2
    <2>5. PICK e \in d..Len(code) : is_enddefine_opcode(code[e])
      BY <2>2, <2>3, <2>4 DEF Unended
    <2>6. e # i
      BY <1>2, <2>5
    <2>7. e \notin d..(i - 1)
      BY <2>2, <2>5
    <2>8. i < Len(code)
      BY <1>1, <2>2, <2>5, <2>6, <2>7
    <2>9. \A h \in d..((i + 1) - 1) : ~is_enddefine_opcode(code[h])
      <3>1. \A h \in d..((i + 1) - 1) : h = i \/ h \in d..(i - 1)
        BY <2>2
      <3>2. QED
        BY <1>2, <2>2, <3>1
    <2>10. d \in OpenAt(code, i + 1)
      <3>1. d \in 1..(i + 1)
        BY <2>2
      <3>2. QED
        BY <2>2, <2>9, <3>1 DEF OpenAt
    <2>11. i + 1 \in 1..Len(code)
      BY <1>1, <2>8
    <2>12. QED
      BY <1>1, <2>8, <2>10, <2>11 DEF Within, InDefinition
  <1>4. ASSUME i \in Outside(code), i < Len(code), is_label_opcode(code[i + 1])
        PROVE  i + 1 \in Outside(code)
    <2>1. ASSUME NEW d \in OpenAt(code, i + 1) PROVE FALSE
      <3>1. /\ d \in 1..(i + 1) /\ is_define_opcode(code[d])
            /\ \A e \in d..((i + 1) - 1) : ~is_enddefine_opcode(code[e])
        BY <2>1 DEF OpenAt
      <3>2. d # i + 1
        BY <1>4, <3>1 DEF is_label_opcode, is_define_opcode
      <3>3. d \in 1..i /\ \A e \in d..(i - 1) : e \in d..((i + 1) - 1)
        BY <3>1, <3>2
      <3>4. d \in OpenAt(code, i)
        BY <3>1, <3>3 DEF OpenAt
      <3>5. QED
        BY <1>4, <3>4 DEF Outside
    <2>2. i + 1 \in 1..Len(code)
      BY <1>1, <1>4
    <2>3. QED
      BY <1>1, <2>1, <2>2 DEF Outside
  <1>5. QED
    BY <1>3, <1>4

(* So the opcode behind a jump is there before main is gathered. *)
LEMMA RemovalWarned ==
  ASSUME ParserAssumption, NEW code, Finished(code), NEW main \in Symbols,
         remove_unreachable_code(synthesize_main(code, main)) # synthesize_main(code, main)
  PROVE  \E i : i \in unreachable_check(code)
  <1> DEFINE R == synthesize_main(code, main)
  <1>1. code \in Seq(OpcodeSet(Symbols))
    BY DEF Finished
  <1>2. PICK F, M, f, g : Gathered(code, R, main, F, M, f, g)
    BY <1>1, SynthesizedIs
  <1> HIDE DEF R
  <1>3. Sound(R)
    BY FinishedSound DEF R
  <1>4. /\ R \in Seq(AnyOpcode) /\ DOMAIN R = 1..Len(R) /\ Len(R) \in Nat
        /\ DOMAIN code = 1..Len(code) /\ Len(code) \in Nat
    BY <1>1, <1>3, LenProperties DEF Sound
  <1>5. PICK j \in 1..Len(R) : /\ j < Len(R) /\ is_jump_opcode(R[j])
                               /\ ~is_label_opcode(R[j + 1]) /\ ~is_enddefine_opcode(R[j + 1])
    <2> DEFINE after(i) == \E j \in 1..(i - 1) :
                             /\ is_jump_opcode(R[j])
                             /\ \A k \in (j + 1)..i : ~is_label_opcode(R[k]) /\ ~is_enddefine_opcode(R[k])
               T == {i \in DOMAIN R : after(i)}
    <2>1. remove_unreachable_code(R) = replace_with_nop(R, T)
      BY DEF remove_unreachable_code
    <2> HIDE DEF T
    <2>2. ASSUME \A i \in DOMAIN R : i \notin T PROVE FALSE
      <3>1. replace_with_nop(R, T) = [i \in DOMAIN R |-> R[i]]
        BY <2>2 DEF replace_with_nop
      <3>2. R = [i \in DOMAIN R |-> R[i]]
        BY <1>4
      <3>3. QED
        BY <2>1, <3>1, <3>2 DEF R
    <2>3. PICK i \in DOMAIN R : i \in T
      BY <2>2
    <2>4. PICK j \in 1..(i - 1) :
            /\ is_jump_opcode(R[j])
            /\ \A k \in (j + 1)..i : ~is_label_opcode(R[k]) /\ ~is_enddefine_opcode(R[k])
      BY <2>3 DEF T
    <2>5. j \in 1..Len(R) /\ j < Len(R) /\ j + 1 \in (j + 1)..i
      BY <1>4, <2>3, <2>4
    <2>6. QED
      BY <2>4, <2>5
  <1>6. CASE M = <<>>
    <2>1. R = code
      BY <1>2, <1>6 DEF Gathered
    <2>2. j \in unreachable_check(code)
      BY <1>1, <1>5, <2>1, JumpWarned
    <2>3. QED
      BY <2>2
  <1>7. CASE M # <<>>
    <2> DEFINE n == Len(F)
               m == Len(M)
               S == OpcodeSet(Symbols)
    <2>1. /\ F \in Seq(S) /\ M \in Seq(S) /\ code \in Seq(S) /\ n \in Nat /\ m \in Nat
          /\ Selected(code, Within(code), F, f) /\ Selected(code, Outside(code), M, g)
      BY <1>1, <1>2, LenProperties DEF Gathered
    <2>2. Layout(R, F, M, main)
      BY <1>2, <1>7 DEF Gathered
    <2>3. /\ Len(R) = n + m + 3 /\ \A k \in 1..n : R[k] = F[k]
          /\ \A k \in 1..m : R[(n + 1) + k] = M[k]
          /\ R[(n + m) + 2] = LabelOpcode(0)
      BY <2>2 DEF Layout
    <2>4. Placement(code, R, F, M, f, g, j)
      BY <1>1, <1>2, <1>7, GatheredOpcodes
    <2> HIDE DEF S
    <2>5. CASE j \in 1..n /\ R[j] = code[f[j]] /\ f[j] \in Within(code)
      <3> DEFINE a == f[j]
      <3>1. a \in 1..Len(code) /\ is_jump_opcode(code[a]) /\ a \in Within(code)
        BY <1>4, <1>5, <2>5 DEF Within
      <3>2. a < Len(code) /\ a + 1 \in Within(code)
        BY <3>1, AfterJump
      <3>3. a + 1 \in 1..Len(code)
        BY <1>4, <3>1, <3>2
      <3>4. j + 1 \in 1..n /\ F[j + 1] = code[a + 1]
        <4> DEFINE q == a + 1
                   T == Within(code)
        <4>1. q \in 1..Len(code) /\ q \in T /\ j \in 1..Len(F) /\ Behind(q, f[j])
          BY <2>5, <3>2, <3>3 DEF Behind
        <4>2. code \in Seq(S) /\ F \in Seq(S) /\ Selected(code, T, F, f)
          BY <2>1
        <4> HIDE DEF q, T
        <4>3. j + 1 \in 1..Len(F)
          BY <4>1, <4>2, SelectedNext
        <4>4. F[j + 1] = code[q]
          BY <4>1, <4>2, SelectedNext
        <4>5. QED
          BY <4>3, <4>4 DEF q
      <3> HIDE DEF a
      <3>5. ~is_label_opcode(code[a + 1])
        BY <1>5, <2>3, <3>4
      <3>6. a \in unreachable_check(code)
        BY <1>1, <3>1, <3>2, <3>5, JumpWarned
      <3>7. QED
        BY <3>6
    <2>6. CASE \E h \in 1..m : j = n + 1 + h /\ R[j] = code[g[h]] /\ g[h] \in Outside(code)
      <3>1. PICK h \in 1..m : j = n + 1 + h /\ R[j] = code[g[h]] /\ g[h] \in Outside(code)
        BY <2>6
      <3> DEFINE a == g[h]
      <3>2. a \in 1..Len(code) /\ is_jump_opcode(code[a]) /\ a \in Outside(code)
        BY <1>4, <1>5, <3>1 DEF Outside
      <3>3. h # m
        <4>1. ASSUME h = m PROVE FALSE
          <5>1. j + 1 = (n + m) + 2
            BY <2>1, <3>1, <4>1
          <5>2. is_label_opcode(R[j + 1])
            BY <2>3, <5>1, LabelOpcodes
          <5>3. QED
            BY <1>5, <5>2
        <4>2. QED
          BY <4>1
      <3>4. h + 1 \in 1..m /\ h < h + 1 /\ j + 1 = (n + 1) + (h + 1)
        <4>1. h \in 1..m /\ m \in Nat /\ n \in Nat /\ j = n + 1 + h
          BY <2>1, <3>1
        <4> HIDE DEF n, m
        <4>2. QED
          BY <3>3, <4>1
      <3>5. a < Len(code)
        <4> DEFINE b == g[h + 1]
        <4>1. a < b /\ b \in 1..Len(code)
          BY <2>1, <3>1, <3>4 DEF Selected
        <4> HIDE DEF a, b
        <4>2. QED
          BY <1>4, <3>2, <4>1
      <3>6. ~is_label_opcode(code[a + 1])
        <4>1. ASSUME is_label_opcode(code[a + 1]) PROVE FALSE
          <5>1. a + 1 \in Outside(code)
            BY <3>2, <3>5, <4>1, AfterJump
          <5>2. a + 1 \in 1..Len(code)
            BY <1>4, <3>2, <3>5
          <5>3. M[h + 1] = code[a + 1]
            <6> DEFINE q == a + 1
                       T == Outside(code)
            <6>1. q \in 1..Len(code) /\ q \in T /\ h \in 1..Len(M) /\ Behind(q, g[h])
              BY <3>1, <5>1, <5>2 DEF Behind
            <6>2. code \in Seq(S) /\ M \in Seq(S) /\ Selected(code, T, M, g)
              BY <2>1
            <6> HIDE DEF q, T
            <6>3. M[h + 1] = code[q]
              BY <6>1, <6>2, SelectedNext
            <6>4. QED
              BY <6>3 DEF q
          <5> HIDE DEF a
          <5>4. R[j + 1] = M[h + 1]
            <6> DEFINE q == h + 1
            <6>1. q \in 1..m /\ j + 1 = (n + 1) + q
              BY <3>4
            <6> HIDE DEF q
            <6>2. R[(n + 1) + q] = M[q]
              BY <2>3, <6>1, Zenon
            <6>3. QED
              BY <6>1, <6>2, Zenon DEF q
          <5>5. QED
            BY <1>5, <4>1, <5>3, <5>4
        <4>2. QED
          BY <4>1
      <3> HIDE DEF a
      <3>7. a \in unreachable_check(code)
        BY <1>1, <3>2, <3>5, <3>6, JumpWarned
      <3>8. QED
        BY <3>7
    <2>7. R[j].op \notin {"define", "label", "enddefine"}
      BY <1>5 DEF is_jump_opcode
    <2>8. QED
      BY <2>4, <2>5, <2>6, <2>7 DEF Placement
  <1>8. QED
    BY <1>6, <1>7

-----------------------------------------------------------------------------
(* The build of a program.  While the parser runs, what its own proofs say *)
(* holds, with what is needed here besides; from synthesize_main on, the   *)
(* code is sound.                                                          *)
Parsed == NamesInv /\ (InStep => Numbered) /\ (Clean => Enclosed(optable_))

ProgramInv ==
  /\ stage \in {"parsing", "refused", "optimizing", "built"} /\ pending \subseteq Passes
  /\ stage = "parsing" => Parsed
  /\ Coded => Sound(optable_)

LEMMA InitProgram ==
  ASSUME ParserAssumption, ProgramInit
  PROVE  ProgramInv
  <1>1. Init /\ NamesInv /\ stage = "parsing" /\ pending = {}
    BY InitNames DEF ProgramInit
  <1>2. optable_ = <<>> /\ label_stack_ = <<>>
    BY <1>1 DEF Init
  <1>3. DOMAIN optable_ = {} /\ DOMAIN label_stack_ = {} /\ Len(optable_) = 0
    BY <1>2
  <1>4. Numbered
    BY <1>3 DEF Numbered, Placed
  <1>5. Enclosed(optable_)
    BY <1>3 DEF Enclosed
  <1>6. QED
    BY <1>1, <1>4, <1>5 DEF ProgramInv, Parsed, Coded

LEMMA StepParsed ==
  ASSUME ParserAssumption, Parsed, [Next]_vars
  PROVE  Parsed'
  <1>1. NamesInv /\ NamesInv'
    BY StepNames DEF Parsed
  <1>2. IInv /\ LabelInv
    BY <1>1 DEF NamesInv, CleanInv
  <1>3. InStep' => Numbered'
    BY <1>2, StepNumbered DEF Parsed
  <1>4. Clean' => Enclosed(optable_')
    BY <1>1, StepEnclosed DEF Parsed
  <1>5. QED
    BY <1>1, <1>3, <1>4 DEF Parsed

(* A file that was parsed without errors can be made a program. *)
LEMMA ParsedFinished ==
  ASSUME ParserAssumption, Parsed, Clean, status = "returned"
  PROVE  Finished(optable_)
  <1>1. InStep
    BY DEF Clean
  <1>2. QED
    BY <1>1, Finishing DEF Parsed

LEMMA StepProgram ==
  ASSUME ParserAssumption, ProgramInv, [ProgramNext]_pvars
  PROVE  ProgramInv'
  <1>1. CASE Parse
    <2>1. stage = "parsing" /\ stage' = stage /\ pending' = pending /\ Next
      BY <1>1 DEF Parse, optimizing
    <2>2. Parsed'
      BY <2>1, StepParsed DEF ProgramInv
    <2>3. QED
      BY <2>1, <2>2 DEF ProgramInv, Coded
  <1>2. CASE Refuse
    BY <1>2 DEF Refuse, ProgramInv, Coded, optimizing
  <1>3. ASSUME NEW o \in BOOLEAN, Synthesize(o)
        PROVE  ProgramInv'
    <2>1. /\ stage = "parsing" /\ status = "returned" /\ error_count_ = 0
          /\ optable_' = synthesize_main(optable_, Main) /\ split' = split
          /\ stage' \in {"optimizing", "built"} /\ pending' \subseteq Passes
      BY <1>3 DEF Synthesize, ParserDone
    <2>2. ASSUME InStep'
          PROVE  Sound(optable_')
      <3>1. Clean
        BY <2>1, <2>2 DEF Clean, InStep
      <3>2. Finished(optable_)
        BY <2>1, <3>1, ParsedFinished DEF ProgramInv
      <3>3. Main \in Symbols
        BY ParserAssumption DEF Symbols
      <3>4. QED
        BY <2>1, <3>2, <3>3, FinishedSound
    <2>3. QED
      BY <2>1, <2>2 DEF ProgramInv, Coded
  <1>4. ASSUME NEW pass \in Passes, RunPass(pass)
        PROVE  ProgramInv'
    <2>1. /\ stage = "optimizing" /\ stage' = stage /\ split' = split /\ status' = status
          /\ optable_' = Optimized(optable_, pass) /\ pending' \subseteq pending
      BY <1>4 DEF RunPass, ParserDone
    <2>2. ASSUME InStep'
          PROVE  Sound(optable_')
      <3>1. Sound(optable_)
        BY <2>1, <2>2 DEF ProgramInv, Coded, InStep
      <3>2. QED
        BY <1>4, <2>1, <3>1, OptimizedSound
    <2>3. QED
      BY <2>1, <2>2 DEF ProgramInv, Coded
  <1>5. CASE Iterate
    <2>1. /\ stage = "optimizing" /\ stage' \in {"optimizing", "built"} /\ pending' \subseteq Passes
          /\ UNCHANGED <<optable_, split, status>>
      BY <1>5 DEF Iterate, vars, handled
    <2>2. QED
      BY <2>1 DEF ProgramInv, Coded, InStep
  <1>6. CASE UNCHANGED pvars
    <2>1. UNCHANGED <<stage, pending>> /\ UNCHANGED vars
      BY <1>6 DEF pvars, optimizing
    <2>2. Parsed => Parsed'
      BY <2>1, StepParsed
    <2>3. UNCHANGED <<optable_, split, status>>
      BY <2>1 DEF vars, handled
    <2>4. QED
      BY <2>1, <2>2, <2>3 DEF ProgramInv, Coded, InStep
  <1>7. QED
    BY <1>1, <1>2, <1>3, <1>4, <1>5, <1>6 DEF ProgramNext, Build, Done

(* From the moment that synthesize_main ran, and after every pass of every *)
(* iteration, all of the code is in definitions that end, each branch goes *)
(* to a label of its own definition, and no label is placed twice.         *)
THEOREM CodeStaysSound == ProgramSpec => []ProgramInv
  <1>1. ProgramInit => ProgramInv
    BY ParserAssumption, InitProgram
  <1>2. ProgramInv /\ [ProgramNext]_pvars => ProgramInv'
    BY ParserAssumption, StepProgram
  <1>3. QED
    BY <1>1, <1>2, PTL DEF ProgramSpec

LEMMA SoundIsAProgram ==
  ASSUME Sound(optable_)
  PROVE  /\ \A i \in DOMAIN optable_ : is_executable(optable_[i]) => DefinitionAt(i) # 0
         /\ \A i \in DOMAIN optable_ : is_branching_opcode(optable_[i]) =>
              LET targets == {j \in DOMAIN optable_ : /\ is_label_opcode(optable_[j])
                                                     /\ optable_[j].n = optable_[i].n}
              IN \E j \in targets : targets = {j} /\ DefinitionAt(i) = DefinitionAt(j)
  <1>1. optable_ \in Seq(AnyOpcode) /\ Once(optable_)
    BY DEF Sound
  <1>2. DOMAIN optable_ = 1..Len(optable_) /\ Len(optable_) \in Nat
    BY <1>1, LenProperties
  <1>3. \A i : DefinitionAt(i) = At(optable_, i)
    BY DEF DefinitionAt, At, OpenAt
  <1>4. ASSUME NEW i \in DOMAIN optable_, is_executable(optable_[i])
        PROVE  DefinitionAt(i) # 0
    <2>1. InDefinition(optable_, i)
      BY <1>2, <1>4 DEF Sound
    <2>2. i \in Nat
      BY <1>2
    <2>3. QED
      BY <1>3, <2>1, <2>2, AtIs
  <1>5. ASSUME NEW i \in DOMAIN optable_, is_branching_opcode(optable_[i])
        PROVE  LET targets == {j \in DOMAIN optable_ : /\ is_label_opcode(optable_[j])
                                                      /\ optable_[j].n = optable_[i].n}
               IN \E j \in targets : targets = {j} /\ DefinitionAt(i) = DefinitionAt(j)
    <2> DEFINE targets == {j \in DOMAIN optable_ : /\ is_label_opcode(optable_[j])
                                                  /\ optable_[j].n = optable_[i].n}
    <2>1. PICK j \in DOMAIN optable_ : Marks(optable_, j, optable_[i].n) /\ At(optable_, i) = At(optable_, j)
      BY <1>2, <1>5 DEF Sound
    <2>2. j \in targets
      BY <2>1 DEF Marks
    <2>3. \A l \in targets : l = j
      BY <1>1, <2>1 DEF Once, Marks
    <2>4. targets = {j} /\ DefinitionAt(i) = DefinitionAt(j)
      BY <1>3, <2>1, <2>2, <2>3
    <2>5. QED
      BY <2>2, <2>4
  <1>6. QED
    BY <1>4, <1>5

(* What the assembler asks of the code, at any time of the optimization:   *)
(* each branch has exactly one target, which is in the same definition,    *)
(* and no opcode that needs an instruction is outside definitions.         *)
THEOREM StaysAProgram == ProgramSpec => []StillAProgram
  <1>1. ProgramInv => StillAProgram
    BY SoundIsAProgram DEF ProgramInv, StillAProgram, BranchesHaveTargets, CodeInDefinitions
  <1>2. QED
    BY <1>1, CodeStaysSound, PTL


(* Whatever the pass for unreachable code removes from code that was made  *)
(* a program of, unreachable_check had warned of (compiler/optable.cc).    *)
THEOREM RemovalsAreWarnedOf == ProgramSpec => []RemovalsWarnedOf
  <1>1. ProgramInv => RemovalsWarnedOf
    <2> SUFFICES ASSUME ProgramInv, stage = "parsing", status = "returned", Clean,
                        remove_unreachable_code(synthesize_main(optable_, Main))
                          # synthesize_main(optable_, Main)
                 PROVE  unreachable_check(optable_) # {}
      BY DEF RemovalsWarnedOf
    <2>1. Finished(optable_)
      BY ParserAssumption, ParsedFinished DEF ProgramInv
    <2>2. Main \in Symbols
      BY ParserAssumption DEF Symbols
    <2>3. \E i : i \in unreachable_check(optable_)
      BY ParserAssumption, <2>1, <2>2, RemovalWarned
    <2>4. QED
      BY <2>3
  <1>2. QED
    BY <1>1, CodeStaysSound, PTL
=============================================================================
